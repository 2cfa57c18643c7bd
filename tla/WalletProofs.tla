--------------------------- MODULE WalletProofs ---------------------------
(***************************************************************************)
(* Amounts, the batches that were sent, and the batches that are refused,  *)
(* for any deposits, fee rates and limits of the node.                     *)
(*                                                                         *)
(* What a settlement signs spends an output that no transaction spends, and*)
(* after it nothing is signed until it is sent or given up: whatever spends*)
(* the same output is later, and no batch.  So what a sent transaction     *)
(* replaces is never another batch.                                        *)
(***************************************************************************)
EXTENDS Wallet, SequenceTheorems, TLAPS

Batches == {"signed", "broadcast", "removed", "none"}
Tx == [in : Deposits \cup Nat, fee : Nat, change : Nat, line : SUBSET Nat,
       at : Places, batch : Batches]
Listed == [out : Deposits \cup Nat, value : Nat, confirmed : BOOLEAN]
Settlement == [pc : {"idle", "fee", "utxos", "sign", "resend", "send"},
               fee : Nat, utxos : SUBSET Listed]

Shape == /\ paid \in [Deposits -> Places]
         /\ txs \in Seq(Tx)
         /\ settle \in Settlement
         /\ losses \in 0..MaxLosses
         /\ lost \subseteq DOMAIN txs

\* Transactions spend what is there before them, and keep the amounts.
Chained == \A k \in DOMAIN txs :
              /\ txs[k].in \in Deposits \cup 1..(k - 1)
              /\ txs[k].line \subseteq 1..k
              /\ txs[k].fee >= RelayFee
              /\ txs[k].change = 0 \/ txs[k].change >= DUST_LIMIT - losses * RelayFee
              /\ Value(txs[k].in) = txs[k].fee + txs[k].change

\* What a settlement chooses from stays unspent until it signs.
Unspent == /\ settle.pc # "sign" => settle.utxos = {}
           /\ settle.pc \in {"utxos", "sign"} => settle.fee >= RelayFee
           /\ \A u \in settle.utxos :
                 /\ u.out \in Outputs /\ u.value = Value(u.out)
                 /\ Spenders(u.out) = {}
                 /\ losses = 0 => Place(u.out) # "nowhere"

\* Only the last batch is signed, and only later transactions spend what it spends.
OnlyLater(k, o) == /\ \A j \in Spenders(o) : j >= k
                   /\ losses = 0 => Spenders(o) \subseteq {k} /\ Place(o) # "nowhere"
LastOne(k) == /\ \A j \in DOMAIN txs : j > k => txs[j].batch = "none"
              /\ \A j \in Signed : j = k
              /\ \A o \in Outputs : txs[k].in = o => OnlyLater(k, o)
LastSigned == /\ settle.pc \in {"fee", "utxos", "sign"} => Signed = {}
              /\ \A k \in Signed : LastOne(k)

IInv == Shape /\ Chained /\ Unspent /\ LastSigned /\ SentStays

-----------------------------------------------------------------------------
(* Transactions that move, and leave.                                      *)

LEMMA Fields ==
    ASSUME Shape
    PROVE  /\ Len(txs) \in Nat /\ DOMAIN txs = 1..Len(txs)
           /\ \A k \in DOMAIN txs : txs[k] \in Tx
  BY LenProperties, ElementOfSeq DEF Shape

LEMMA WithoutIsSeq ==
    ASSUME Shape, NEW gone
    PROVE  /\ Without(gone) \in Seq(Tx) /\ DOMAIN Without(gone) = DOMAIN txs
           /\ Len(Without(gone)) = Len(txs)
           /\ \A k \in DOMAIN txs :
                 /\ Without(gone)[k] \in Tx
                 /\ Without(gone)[k].in = txs[k].in /\ Without(gone)[k].fee = txs[k].fee
                 /\ Without(gone)[k].change = txs[k].change
                 /\ Without(gone)[k].line = txs[k].line
                 /\ Without(gone)[k].batch = txs[k].batch
                 /\ Without(gone)[k].at = IF k \in gone /\ txs[k].at = "mempool"
                                          THEN "nowhere" ELSE txs[k].at
<1>1. Len(txs) \in Nat /\ DOMAIN txs = 1..Len(txs) /\ \A k \in DOMAIN txs : txs[k] \in Tx
  BY Fields
<1>2. ASSUME NEW k \in DOMAIN txs
      PROVE  LET t == [txs[k] EXCEPT !.at = "nowhere"]
             IN  /\ t \in Tx /\ t.in = txs[k].in /\ t.fee = txs[k].fee /\ t.change = txs[k].change
                 /\ t.line = txs[k].line /\ t.batch = txs[k].batch /\ t.at = "nowhere"
  BY <1>1 DEF Tx, Places
<1>3. \A k \in DOMAIN txs : Without(gone)[k] \in Tx
  BY <1>1, <1>2 DEF Without
<1>4. Without(gone) \in [1..Len(txs) -> Tx] /\ DOMAIN Without(gone) = 1..Len(txs)
  BY <1>1, <1>3 DEF Without
<1>5. Without(gone) \in Seq(Tx) /\ Len(Without(gone)) = Len(txs)
  BY <1>1, <1>4, SeqDef
<1> QED
  BY <1>1, <1>2, <1>3, <1>4, <1>5 DEF Without

\* What a transaction is, apart from where it is and what its batch is.
Same(s, t) == s.in = t.in /\ s.fee = t.fee /\ s.change = t.change /\ s.line = t.line
Moves == /\ txs' \in Seq(Tx) /\ DOMAIN txs' = DOMAIN txs
         /\ \A k \in DOMAIN txs : Same(txs'[k], txs[k])

LEMMA MovesKeepAmounts ==
    ASSUME Shape, Chained, Moves, losses' \in Nat, losses' >= losses
    PROVE  /\ Chained' /\ Outputs' = Outputs
           /\ \A o \in Outputs : Value(o)' = Value(o)
<1>1. \A o \in Outputs : Value(o)' = Value(o)
  BY DEF Value, Outputs, Moves, Same
<1>2. \A k \in DOMAIN txs : txs[k].in \in Outputs
  BY Fields DEF Chained, Outputs
<1>3. losses \in Nat /\ \A k \in DOMAIN txs : txs[k].change \in Nat
  BY Fields, BoundAssumption DEF Shape, Tx
<1>4. ASSUME NEW k \in DOMAIN txs, txs[k].change >= DUST_LIMIT - losses * RelayFee
      PROVE  txs[k].change >= DUST_LIMIT - losses' * RelayFee
  BY <1>3, <1>4 DEF DUST_LIMIT, RelayFee
<1>5. Chained'
  BY <1>1, <1>2, <1>4 DEF Chained, Moves, Same
<1> QED
  BY <1>1, <1>5 DEF Outputs, Moves

\* Later transactions add nothing to what was before them.
LEMMA AppendKeeps ==
    ASSUME Shape, NEW s \in Seq(Tx), DOMAIN s = DOMAIN txs, NEW t \in Tx, txs' = Append(s, t)
    PROVE  /\ txs' \in Seq(Tx) /\ DOMAIN txs' = 1..(Len(txs) + 1)
           /\ DOMAIN txs' = DOMAIN txs \cup {Len(txs) + 1} /\ Len(txs) + 1 \notin DOMAIN txs
           /\ \A k \in DOMAIN txs : txs'[k] = s[k]
           /\ txs'[Len(txs) + 1] = t
<1>1. Len(txs) \in Nat /\ DOMAIN txs = 1..Len(txs) /\ Len(s) \in Nat /\ DOMAIN s = 1..Len(s)
  BY LenProperties DEF Shape
<1>2. Len(s) = Len(txs)
  BY <1>1
<1>3. /\ txs' \in Seq(Tx) /\ Len(txs') = Len(s) + 1
      /\ \A i \in 1..Len(s) : txs'[i] = s[i]
      /\ txs'[Len(s) + 1] = t
  BY AppendProperties
<1>4. DOMAIN txs' = 1..Len(txs')
  BY <1>3, LenProperties
<1> QED
  BY <1>1, <1>2, <1>3, <1>4

-----------------------------------------------------------------------------
(* The steps of a settlement before it signs, and those it ends with: the  *)
(* transactions are as they were.                                          *)

LEMMA InitHolds == Init => IInv
<1> SUFFICES ASSUME Init PROVE IInv
  OBVIOUS
<1>1. txs = <<>> /\ DOMAIN txs = {} /\ txs \in Seq(Tx)
  BY EmptySeq, LenProperties DEF Init
<1>2. Shape
  BY <1>1, BoundAssumption DEF Init, Shape, Places, Idle, Settlement
<1> QED
  BY <1>1, <1>2 DEF IInv, Init, Idle, Chained, Unspent, LastSigned, Signed, SentStays

\* A settlement that is between two steps has nothing to choose from.
Fresh(st) == /\ st \in Settlement /\ st.utxos = {}
             /\ st.pc \in {"idle", "fee", "resend", "send"}

LEMMA IdleIsFresh ==
    /\ Fresh(Idle) /\ Idle.pc = "idle"
    /\ \A pc \in {"idle", "fee", "resend", "send"} :
          Fresh([Idle EXCEPT !.pc = pc]) /\ [Idle EXCEPT !.pc = pc].pc = pc
  BY DEF Idle, Fresh, Settlement

LEMMA IdleKeeps ==
    ASSUME IInv, UNCHANGED <<txs, paid, losses, lost>>,
           Fresh(settle'), settle'.pc = "fee" => Signed = {}
    PROVE  IInv'
<1>1. settle' \in Settlement /\ settle'.utxos = {}
      /\ settle'.pc \in {"idle", "fee", "resend", "send"}
  BY DEF Fresh
<1>2. Shape'
  BY <1>1 DEF IInv, Shape
<1>3. Chained' /\ SentStays'
  BY DEF IInv, Chained, Value, SentStays
<1>4. Unspent'
  BY <1>1 DEF Unspent
<1>5. LastSigned'
  BY <1>1 DEF IInv, LastSigned, LastOne, OnlyLater, Signed, Spenders, Place, Outputs
<1> QED
  BY <1>2, <1>3, <1>4, <1>5 DEF IInv

LEMMA StartKeeps == IInv /\ SettleStart => IInv'
  BY IdleKeeps, IdleIsFresh DEF SettleStart, Local, FirstStep

LEMMA ThrowsKeep == IInv /\ (SettleThrows \/ SendLost) => IInv'
  BY IdleKeeps, IdleIsFresh DEF SettleThrows, SendLost, PreviousUnsent, Throw, Local

LEMMA FeeKeeps == IInv /\ SettleFee => IInv'
<1> SUFFICES ASSUME IInv, SettleFee PROVE IInv'
  OBVIOUS
<1>1. PICK rate \in Rates \cup {10} :
         settle' = [settle EXCEPT !.pc = "utxos", !.fee = ANCHOR_TX_VBYTES * rate]
  BY DEF SettleFee
<1>2. ANCHOR_TX_VBYTES * rate \in Nat /\ ANCHOR_TX_VBYTES * rate >= RelayFee
  BY RateAssumption DEF ANCHOR_TX_VBYTES, RelayFee
<1>3. settle' \in Settlement /\ settle'.pc = "utxos" /\ settle'.utxos = settle.utxos
      /\ settle'.fee >= RelayFee
  BY <1>1, <1>2 DEF IInv, Shape, Settlement
<1>4. settle.pc = "fee" /\ settle.utxos = {} /\ Signed = {}
  BY DEF SettleFee, IInv, Unspent, LastSigned
<1>5. Shape' /\ Chained' /\ SentStays'
  BY <1>3 DEF SettleFee, Local, IInv, Shape, Chained, Value, SentStays
<1>6. Unspent'
  BY <1>3, <1>4 DEF Unspent
<1>7. LastSigned'
  BY <1>4 DEF SettleFee, LastSigned, Signed
<1> QED
  BY <1>5, <1>6, <1>7 DEF IInv

LEMMA UtxosKeeps == IInv /\ SettleUtxos => IInv'
<1> SUFFICES ASSUME IInv, SettleUtxos PROVE IInv'
  OBVIOUS
<1>1. \A o \in Outputs : o \in Deposits \cup Nat /\ Value(o) \in Nat
  BY Fields, WorthAssumption DEF IInv, Outputs, Value, Tx
<1>2. \A u \in Utxos : /\ u \in Listed /\ u.out \in Outputs /\ u.value = Value(u.out)
                       /\ Spenders(u.out) = {} /\ Place(u.out) # "nowhere"
  <2> TAKE u \in Utxos
  <2>1. PICK o \in Outputs : /\ Place(o) # "nowhere" /\ Spenders(o) = {}
                             /\ u = [out |-> o, value |-> Value(o), confirmed |-> Place(o) = "block"]
    BY DEF Utxos
  <2>2. u.out = o /\ u.value = Value(o)
    BY <2>1
  <2>3. u \in Listed
    BY <1>1, <2>1 DEF Listed
  <2> QED
    BY <2>1, <2>2, <2>3
<1>3. Utxos \in SUBSET Listed
  BY <1>2
<1>4. settle' \in Settlement /\ settle'.pc = "sign" /\ settle'.utxos = Utxos
      /\ settle'.fee = settle.fee /\ settle.fee >= RelayFee /\ Signed = {}
  BY <1>3 DEF SettleUtxos, IInv, Shape, Settlement, Unspent, LastSigned
<1>5. Shape' /\ Chained' /\ SentStays'
  BY <1>4 DEF SettleUtxos, Local, IInv, Shape, Chained, Value, SentStays
<1>6. Unspent'
  BY <1>2, <1>4 DEF SettleUtxos, Local, Unspent, Outputs, Value, Spenders, Place
<1>7. LastSigned'
  BY <1>4 DEF SettleUtxos, LastSigned, Signed
<1> QED
  BY <1>5, <1>6, <1>7 DEF IInv

LEMMA DepositsKeep ==
    ASSUME IInv, NEW d \in Deposits, DepositPaid(d) \/ DepositMined(d)
    PROVE  IInv'
<1>1. paid' \in [Deposits -> Places] /\ UNCHANGED <<txs, settle, losses, lost>>
  BY DEF IInv, Shape, Places, DepositPaid, DepositMined
<1>2. \A e \in Deposits : paid[e] # "nowhere" => paid'[e] # "nowhere"
  BY DEF IInv, Shape, DepositPaid, DepositMined
<1>3. \A o : o \in Outputs /\ Place(o) # "nowhere" => Place(o)' # "nowhere"
  BY <1>1, <1>2 DEF Outputs, Place
<1>4. Shape' /\ Chained' /\ SentStays'
  BY <1>1 DEF IInv, Shape, Chained, Value, SentStays
<1>5. Unspent'
  BY <1>1, <1>3 DEF IInv, Unspent, Outputs, Value, Spenders
<1>6. LastSigned'
  BY <1>1, <1>3 DEF IInv, LastSigned, LastOne, OnlyLater, Signed, Spenders, Outputs
<1> QED
  BY <1>4, <1>5, <1>6 DEF IInv

-----------------------------------------------------------------------------
(* The steps that change where transactions are, and their batches.        *)

LEMMA OneChanged ==
    ASSUME NEW s \in Seq(Tx), NEW k \in DOMAIN s, NEW t \in Tx, NEW r, r = [s EXCEPT ![k] = t]
    PROVE  /\ r \in Seq(Tx) /\ DOMAIN r = DOMAIN s
           /\ \A j \in DOMAIN s : r[j] = IF j = k THEN t ELSE s[j]
<1>1. Len(s) \in Nat /\ DOMAIN s = 1..Len(s)
  BY LenProperties
<1>2. r \in Seq(Tx) /\ Len(r) = Len(s) /\ \A j \in 1..Len(s) : r[j] = IF j = k THEN t ELSE s[j]
  BY <1>1, ExceptSeq
<1> QED
  BY <1>1, <1>2, LenProperties

LEMMA MarkMoves ==
    ASSUME Shape, NEW k \in DOMAIN txs, NEW batch \in Batches,
           txs' = [txs EXCEPT ![k].batch = batch]
    PROVE  /\ Moves
           /\ \A j \in DOMAIN txs : j # k => txs'[j] = txs[j]
           /\ txs'[k].at = txs[k].at /\ txs'[k].batch = batch
<1> DEFINE t == [txs[k] EXCEPT !.batch = batch]
<1>1. Len(txs) \in Nat /\ DOMAIN txs = 1..Len(txs) /\ \A j \in DOMAIN txs : txs[j] \in Tx
  BY Fields
<1>2. t \in Tx /\ Same(t, txs[k]) /\ t.at = txs[k].at /\ t.batch = batch
  BY <1>1 DEF Tx, Same
<1>3. txs' = [txs EXCEPT ![k] = t]
  OBVIOUS
<1> HIDE DEF t
<1>4. /\ txs' \in Seq(Tx) /\ DOMAIN txs' = DOMAIN txs
      /\ \A j \in DOMAIN txs : txs'[j] = IF j = k THEN t ELSE txs[j]
  BY <1>2, <1>3, OneChanged DEF Shape
<1> QED
  BY <1>1, <1>2, <1>4 DEF Moves, Same

LEMMA MinedMoves ==
    ASSUME Shape, NEW k \in DOMAIN txs, TxMined(k)
    PROVE  /\ Moves
           /\ \A j \in DOMAIN txs : txs'[j].batch = txs[j].batch
           /\ \A j \in DOMAIN txs : txs'[j].at = "nowhere" <=> txs[j].at = "nowhere"
<1> DEFINE t == [txs[k] EXCEPT !.at = "block"]
<1>1. Len(txs) \in Nat /\ DOMAIN txs = 1..Len(txs) /\ \A j \in DOMAIN txs : txs[j] \in Tx
  BY Fields
<1>2. t \in Tx /\ Same(t, txs[k]) /\ t.at = "block" /\ t.batch = txs[k].batch
  BY <1>1 DEF Tx, Same, Places
<1>3. txs' = [txs EXCEPT ![k] = t]
  BY DEF TxMined
<1> HIDE DEF t
<1>4. /\ txs' \in Seq(Tx) /\ DOMAIN txs' = DOMAIN txs
      /\ \A j \in DOMAIN txs : txs'[j] = IF j = k THEN t ELSE txs[j]
  BY <1>2, <1>3, OneChanged DEF Shape
<1> QED
  BY <1>1, <1>2, <1>4 DEF Moves, Same, TxMined

LEMMA MinedKeeps ==
    ASSUME IInv, NEW k \in DOMAIN txs, TxMined(k)
    PROVE  IInv'
<1>1. /\ Moves /\ UNCHANGED <<paid, settle, losses, lost>>
      /\ \A j \in DOMAIN txs : txs'[j].batch = txs[j].batch
      /\ \A j \in DOMAIN txs : txs'[j].at = "nowhere" <=> txs[j].at = "nowhere"
  BY MinedMoves DEF IInv, TxMined
<1>2. losses \in Nat
  BY BoundAssumption DEF IInv, Shape
<1>3. Chained' /\ Outputs' = Outputs /\ \A o \in Outputs : Value(o)' = Value(o)
  BY <1>1, <1>2, MovesKeepAmounts DEF IInv
<1>4. Signed' = Signed /\ \A o : Spenders(o)' = Spenders(o)
  BY <1>1 DEF Signed, Spenders, Moves, Same
<1>5. \A o \in Outputs : Place(o)' = "nowhere" <=> Place(o) = "nowhere"
  BY <1>1 DEF Outputs, Place
<1>6. Shape' /\ SentStays'
  BY <1>1 DEF IInv, Shape, SentStays, Moves
<1>7. Unspent'
  BY <1>1, <1>3, <1>4, <1>5 DEF IInv, Unspent
<1>8. LastSigned'
  <2>1. settle'.pc \in {"fee", "utxos", "sign"} => Signed' = {}
    BY <1>1, <1>4 DEF IInv, LastSigned
  <2>2. ASSUME NEW i \in Signed PROVE LastOne(i)'
    <3>1. /\ \A j \in DOMAIN txs : j > i => txs'[j].batch = "none"
          /\ \A j \in Signed : j = i
          /\ txs'[i].in = txs[i].in
      BY <1>1 DEF IInv, LastSigned, LastOne, Signed, Moves, Same
    <3>2. \A o \in Outputs : txs[i].in = o => OnlyLater(i, o)'
      BY <1>1, <1>4, <1>5 DEF IInv, LastSigned, LastOne, OnlyLater
    <3> QED
      BY <1>1, <1>3, <1>4, <3>1, <3>2 DEF LastOne, Moves
  <2> QED
    BY <1>4, <2>1, <2>2 DEF LastSigned
<1> QED
  BY <1>3, <1>6, <1>7, <1>8 DEF IInv

\* The answer for a signed batch: the transactions stay where they are, apart
\* from its own.
LEMMA AnsweredKeeps ==
    ASSUME IInv, NEW k \in DOMAIN txs, SendKnown(k) \/ SendRefused(k)
    PROVE  IInv'
<1>1. PICK batch \in {"broadcast", "removed"} :
         /\ txs' = [txs EXCEPT ![k].batch = batch]
         /\ batch = "broadcast" => txs[k].at # "nowhere"
  BY DEF SendKnown, SendRefused
<1>2. /\ Moves
      /\ \A j \in DOMAIN txs : j # k => txs'[j] = txs[j]
      /\ txs'[k].at = txs[k].at /\ txs'[k].batch = batch
  BY <1>1, MarkMoves DEF IInv, Batches
<1>3. k \in Signed /\ UNCHANGED <<paid, losses, lost>> /\ Fresh(settle')
  BY IdleIsFresh DEF SendKnown, SendRefused, GoesOn, Local
<1>4. Signed' = {}
  BY <1>2, <1>3 DEF IInv, LastSigned, LastOne, Signed, Moves
<1>5. losses \in Nat
  BY BoundAssumption DEF IInv, Shape
<1>6. Chained'
  BY <1>2, <1>3, <1>5, MovesKeepAmounts DEF IInv
<1>7. Shape'
  BY <1>2, <1>3 DEF IInv, Shape, Moves, Fresh
<1>8. SentStays'
  BY <1>1, <1>2, <1>3 DEF IInv, SentStays, Moves
<1>9. Unspent' /\ LastSigned'
  BY <1>3, <1>4 DEF Unspent, LastSigned, Fresh
<1> QED
  BY <1>6, <1>7, <1>8, <1>9 DEF IInv

\* What a signed transaction replaces came after it, and is no batch.
LEMMA RivalsAreLater ==
    ASSUME IInv, NEW k \in Signed
    PROVE  /\ \A r \in Rivals(k) : r \in DOMAIN txs /\ r # k /\ txs[r].batch = "none"
           /\ losses = 0 => Rivals(k) = {}
<1>1. k \in DOMAIN txs /\ txs[k].in \in Outputs /\ LastOne(k)
  BY Fields DEF Signed, IInv, Chained, LastSigned, Outputs
<1>2. OnlyLater(k, txs[k].in)
  BY <1>1 DEF LastOne
<1>3. ASSUME NEW r \in Rivals(k)
      PROVE  r \in DOMAIN txs /\ r # k /\ txs[r].batch = "none"
  <2>1. PICK j \in Spenders(txs[k].in) \ {k} : r \in Descendants(j)
    BY DEF Rivals
  <2>2. j \in DOMAIN txs /\ r \in DOMAIN txs /\ j \in 1..r
    BY <2>1 DEF Spenders, Descendants, IInv, Chained
  <2>3. j > k
    BY <1>1, <1>2, <2>1, <2>2, Fields DEF OnlyLater, IInv
  <2> QED
    BY <1>1, <2>2, <2>3, Fields DEF LastOne, IInv
<1>4. losses = 0 => Rivals(k) = {}
  BY <1>2 DEF OnlyLater, Rivals
<1> QED
  BY <1>3, <1>4

LEMMA TakenKeeps ==
    ASSUME IInv, NEW k \in DOMAIN txs, SendTaken(k)
    PROVE  IInv'
<1> DEFINE left == Without(Rivals(k))
<1>1. PICK batch \in {"broadcast", "signed"} :
         /\ txs' = [left EXCEPT ![k].at = "mempool", ![k].batch = batch]
         /\ IF batch = "signed" THEN PreviousUnsent ELSE GoesOn
  BY DEF SendTaken
<1>2. /\ Fresh(settle') /\ (batch = "signed" => settle'.pc = "idle")
      /\ k \in Signed /\ txs[k].at = "nowhere" /\ lost' = lost \ {k}
      /\ UNCHANGED <<paid, losses>>
  BY <1>1, IdleIsFresh DEF SendTaken, PreviousUnsent, Throw, GoesOn
<1>3. /\ left \in Seq(Tx) /\ DOMAIN left = DOMAIN txs
      /\ \A j \in DOMAIN txs : /\ Same(left[j], txs[j]) /\ left[j].batch = txs[j].batch
                               /\ left[j].at = IF j \in Rivals(k) /\ txs[j].at = "mempool"
                                               THEN "nowhere" ELSE txs[j].at
  BY WithoutIsSeq DEF IInv, Same
<1>4. batch \in Batches
  BY DEF Batches
<1> DEFINE taken == [left[k] EXCEPT !.at = "mempool", !.batch = batch]
<1> HIDE DEF left
<1>5. /\ Moves
      /\ \A j \in DOMAIN txs : j # k => txs'[j] = left[j]
      /\ txs'[k].at = "mempool" /\ txs'[k].batch = batch
  <2>1. left[k] \in Tx
    BY <1>3, LenProperties, ElementOfSeq
  <2>2. taken \in Tx /\ Same(taken, left[k]) /\ taken.at = "mempool" /\ taken.batch = batch
    BY <1>4, <2>1 DEF Tx, Same, Places
  <2>3. txs' = [left EXCEPT ![k] = taken]
    BY <1>1
  <2> HIDE DEF taken
  <2>4. left \in Seq(Tx) /\ k \in DOMAIN left /\ taken \in Tx
    BY <1>3, <2>2
  <2>5. /\ txs' \in Seq(Tx) /\ DOMAIN txs' = DOMAIN left
        /\ \A j \in DOMAIN left : txs'[j] = IF j = k THEN taken ELSE left[j]
    BY ONLY <2>3, <2>4, OneChanged
  <2> QED
    BY <1>3, <2>2, <2>5 DEF Moves, Same
<1>6. losses \in Nat
  BY BoundAssumption DEF IInv, Shape
<1>7. Chained' /\ Outputs' = Outputs
  BY <1>2, <1>5, <1>6, MovesKeepAmounts DEF IInv
<1>8. Shape'
  BY <1>2, <1>5 DEF IInv, Shape, Moves, Fresh
<1>9. SentStays'
  BY <1>2, <1>3, <1>5, RivalsAreLater DEF IInv, SentStays, Moves
<1>10. Signed' = IF batch = "signed" THEN {k} ELSE {}
  BY <1>2, <1>3, <1>5 DEF IInv, LastSigned, LastOne, Signed, Moves
<1>11. Unspent'
  BY <1>2 DEF Unspent, Fresh
<1>12. LastOne(k)'
  <2>1. \A j \in DOMAIN txs : j > k => txs'[j].batch = "none"
    BY <1>2, <1>3, <1>5 DEF IInv, LastSigned, LastOne
  <2>2. txs'[k].in = txs[k].in
    BY <1>5 DEF Moves, Same
  <2>3. \A o : Spenders(o)' \subseteq Spenders(o) \cup {k}
    BY <1>3, <1>5 DEF Spenders, Moves, Same
  <2>4. ASSUME NEW o \in Outputs, losses = 0, Place(o) # "nowhere" PROVE Place(o)' # "nowhere"
    BY <1>2, <1>3, <1>5, <2>4, RivalsAreLater DEF Place, Outputs
  <2>5. k \in Nat
    BY Fields DEF IInv
  <2>6. \A o \in Outputs : txs[k].in = o => OnlyLater(k, o)'
    BY <1>2, <2>3, <2>4, <2>5 DEF IInv, LastSigned, LastOne, OnlyLater
  <2> QED
    BY <1>5, <1>7, <1>10, <2>1, <2>2, <2>6 DEF LastOne, Moves
<1>13. LastSigned'
  BY <1>2, <1>10, <1>12 DEF LastSigned, Fresh
<1> QED
  BY <1>7, <1>8, <1>9, <1>11, <1>13 DEF IInv

LEMMA DroppedKeeps ==
    ASSUME IInv, NEW k \in DOMAIN txs, Dropped(k)
    PROVE  IInv'
<1>1. /\ txs' = Without(Descendants(k)) /\ losses' = losses + 1 /\ losses < MaxLosses
      /\ lost' = lost \cup {j \in Descendants(k) : txs[j].at = "mempool"}
      /\ UNCHANGED <<paid, settle>>
  BY DEF Dropped, Loses
<1>2. /\ Moves
      /\ \A j \in DOMAIN txs : /\ txs'[j].batch = txs[j].batch
                               /\ txs'[j].at = IF j \in Descendants(k) /\ txs[j].at = "mempool"
                                               THEN "nowhere" ELSE txs[j].at
  BY <1>1, WithoutIsSeq DEF IInv, Moves, Same
<1>3. losses \in Nat /\ losses' \in Nat /\ losses' > losses /\ losses' \in 0..MaxLosses
  BY <1>1, BoundAssumption DEF IInv, Shape
<1>4. Chained' /\ Outputs' = Outputs /\ \A o \in Outputs : Value(o)' = Value(o)
  BY <1>2, <1>3, MovesKeepAmounts DEF IInv
<1>5. Shape'
  BY <1>1, <1>2, <1>3 DEF IInv, Shape, Moves, Descendants
<1>6. SentStays'
  BY <1>1, <1>2 DEF IInv, SentStays, Moves
<1>7. Signed' = Signed /\ \A o : Spenders(o)' \subseteq Spenders(o)
  BY <1>2 DEF Signed, Spenders, Moves, Same
<1>8. Unspent'
  BY <1>1, <1>3, <1>4, <1>7 DEF IInv, Unspent
<1>9. ASSUME NEW i \in Signed PROVE LastOne(i)'
  <2>1. /\ \A j \in DOMAIN txs : j > i => txs'[j].batch = "none"
        /\ \A j \in Signed : j = i
        /\ txs'[i].in = txs[i].in
    BY <1>2 DEF IInv, LastSigned, LastOne, Signed, Moves, Same
  <2>2. \A o \in Outputs : txs[i].in = o => OnlyLater(i, o)'
    BY <1>3, <1>7 DEF IInv, LastSigned, LastOne, OnlyLater
  <2> QED
    BY <1>2, <1>4, <1>7, <2>1, <2>2 DEF LastOne, Moves
<1>10. LastSigned'
  BY <1>1, <1>7, <1>9 DEF IInv, LastSigned
<1> QED
  BY <1>4, <1>5, <1>6, <1>8, <1>10 DEF IInv

-----------------------------------------------------------------------------
(* The steps that add a transaction.                                       *)

LEMMA ChainGrows ==
    ASSUME Shape, Chained, NEW n, n = Len(txs) + 1,
           DOMAIN txs' = DOMAIN txs \cup {n},
           \A k \in DOMAIN txs : Same(txs'[k], txs[k]),
           losses' \in Nat, losses' >= losses,
           txs'[n].in \in Outputs,
           txs'[n].line = Line(n, txs'[n].in),
           txs'[n].fee >= RelayFee,
           txs'[n].change = 0 \/ txs'[n].change >= DUST_LIMIT - losses' * RelayFee,
           Value(txs'[n].in) = txs'[n].fee + txs'[n].change
    PROVE  Chained' /\ Outputs \subseteq Outputs' /\ \A o \in Outputs : Value(o)' = Value(o)
<1>1. /\ Len(txs) \in Nat /\ DOMAIN txs = 1..Len(txs) /\ n \in Nat /\ DOMAIN txs = 1..(n - 1)
      /\ losses \in Nat /\ \A k \in DOMAIN txs : txs[k].change \in Nat
  BY Fields, BoundAssumption DEF Shape, Tx
<1>2. Outputs \subseteq Outputs' /\ \A o \in Outputs : Value(o)' = Value(o)
  BY DEF Value, Outputs, Same
<1>3. \A k \in DOMAIN txs : txs[k].in \in Outputs
  BY <1>1 DEF Chained, Outputs
<1>4. ASSUME NEW k \in DOMAIN txs, txs[k].change >= DUST_LIMIT - losses * RelayFee
      PROVE  txs[k].change >= DUST_LIMIT - losses' * RelayFee
  BY <1>1, <1>4 DEF DUST_LIMIT, RelayFee
<1>5. Line(n, txs'[n].in) \subseteq 1..n
  BY <1>1, WorthAssumption DEF Line, Chained, Outputs
<1>6. ASSUME NEW k \in DOMAIN txs
      PROVE  /\ txs'[k].in \in Deposits \cup 1..(k - 1)
             /\ txs'[k].line \subseteq 1..k /\ txs'[k].fee >= RelayFee
             /\ txs'[k].change = 0 \/ txs'[k].change >= DUST_LIMIT - losses' * RelayFee
             /\ Value(txs[k].in)' = txs'[k].fee + txs'[k].change
  <2>1. Same(txs'[k], txs[k]) /\ txs[k].in \in Outputs
    BY <1>3
  <2>2. PICK o \in Outputs : o = txs[k].in /\ txs'[k].in = o
    BY <2>1 DEF Same
  <2>3. Value(o)' = txs'[k].fee + txs'[k].change
    BY <1>2, <2>1, <2>2 DEF Chained, Same
  <2> QED
    BY <1>4, <2>1, <2>2, <2>3 DEF Chained, Same
<1>7. Value(txs[n].in)' = txs'[n].fee + txs'[n].change
  <2>1. PICK o \in Outputs : o = txs'[n].in
    OBVIOUS
  <2> QED
    BY <1>2, <2>1
<1>8. txs'[n].in \in Deposits \cup 1..(n - 1)
  BY <1>1 DEF Outputs
<1>9. Chained'
  BY <1>5, <1>6, <1>7, <1>8 DEF Chained
<1> QED
  BY <1>2, <1>9

LEMMA SignKeeps == IInv /\ SettleSign => IInv'
<1> SUFFICES ASSUME IInv, SettleSign PROVE IInv'
  OBVIOUS
<1>0. PICK n : n = Len(txs) + 1
  OBVIOUS
<1>1. PICK u \in SelectUtxo(settle.utxos, settle.fee) :
         LET change == Change(u.value, settle.fee)
         IN  /\ txs' = Append(txs, [in |-> u.out, fee |-> u.value - change, change |-> change,
                                    line |-> Line(n, u.out), at |-> "nowhere", batch |-> "signed"])
             /\ settle' = [Idle EXCEPT !.pc = "send"]
  BY <1>0 DEF SettleSign
<1> DEFINE change == Change(u.value, settle.fee)
           t == [in |-> u.out, fee |-> u.value - change, change |-> change,
                 line |-> Line(n, u.out), at |-> "nowhere", batch |-> "signed"]
<1>2. u \in settle.utxos /\ u.value > settle.fee /\ u \in Listed
  BY DEF SelectUtxo, IInv, Shape, Settlement
<1>3. /\ UNCHANGED <<paid, losses, lost>> /\ Signed = {}
      /\ settle.fee \in Nat /\ settle.fee >= RelayFee
      /\ Fresh(settle') /\ settle'.pc = "send"
  BY <1>1, IdleIsFresh DEF SettleSign, Local, IInv, LastSigned, Unspent, Shape, Settlement
<1>4. /\ u.out \in Outputs /\ u.value = Value(u.out) /\ Spenders(u.out) = {}
      /\ losses = 0 => Place(u.out) # "nowhere"
  BY <1>2 DEF IInv, Unspent
<1>5. /\ losses \in Nat /\ Len(txs) \in Nat /\ DOMAIN txs = 1..Len(txs) /\ n \in Nat
      /\ \A k \in DOMAIN txs : txs[k] \in Tx
  BY <1>0, Fields, BoundAssumption DEF IInv, Shape
<1>6. u.value \in Nat /\ u.out \in Deposits \cup Nat
  BY <1>2 DEF Listed
<1>7. /\ change \in Nat /\ u.value - change \in Nat /\ u.value - change >= RelayFee
      /\ change = 0 \/ change >= DUST_LIMIT - losses * RelayFee
  BY <1>2, <1>3, <1>5, <1>6 DEF Change, RelayFee, DUST_LIMIT
<1>8. Line(n, u.out) \subseteq Nat
  BY <1>4, <1>5 DEF Line, Outputs, Tx
<1> HIDE DEF change
<1>9. t \in Tx
  BY <1>6, <1>7, <1>8 DEF Tx, Places, Batches
<1>10. txs' = Append(txs, t)
  BY <1>1 DEF change
<1>11. t.in = u.out /\ t.fee = u.value - change /\ t.change = change
       /\ t.line = Line(n, u.out) /\ t.at = "nowhere" /\ t.batch = "signed"
  OBVIOUS
<1> HIDE DEF t
<1>12. /\ txs' \in Seq(Tx) /\ DOMAIN txs' = 1..n
       /\ DOMAIN txs' = DOMAIN txs \cup {n} /\ n \notin DOMAIN txs
       /\ \A k \in DOMAIN txs : txs'[k] = txs[k]
       /\ txs'[n] = t
  BY <1>0, <1>5, <1>9, <1>10, AppendKeeps DEF IInv, Shape
<1>13. Chained' /\ Outputs \subseteq Outputs' /\ \A o \in Outputs : Value(o)' = Value(o)
  <2>1. \A k \in DOMAIN txs : Same(txs'[k], txs[k])
    BY <1>12 DEF Same
  <2>2. t.change = 0 \/ t.change >= DUST_LIMIT - losses' * RelayFee
    BY <1>3, <1>7, <1>11
  <2>3. Value(t.in) = t.fee + t.change
    BY <1>4, <1>6, <1>7, <1>11
  <2>4. losses' \in Nat /\ losses' >= losses
    BY <1>3, <1>5
  <2> QED
    BY <1>0, <1>4, <1>7, <1>11, <1>12, <2>1, <2>2, <2>3, <2>4, ChainGrows DEF IInv
<1>14. Shape'
  BY <1>3, <1>12 DEF IInv, Shape, Fresh
<1>15. SentStays'
  BY <1>3, <1>11, <1>12 DEF IInv, SentStays
<1>16. Unspent'
  BY <1>3 DEF Unspent, Fresh
<1>17. Signed' = {n}
  BY <1>3, <1>11, <1>12 DEF Signed
<1>18. LastOne(n)'
  <2>1. \A j \in DOMAIN txs' : ~(j > n)
    BY <1>5, <1>12
  <2>2. txs'[n].in = u.out
    BY <1>11, <1>12
  <2>3. Spenders(u.out)' = {}
    BY <1>4, <1>11, <1>12 DEF Spenders
  <2>4. Place(u.out)' = Place(u.out)
    BY <1>3, <1>4, <1>12 DEF Place, Outputs
  <2>5. \A o : o = u.out => OnlyLater(n, o)'
    BY <1>3, <1>4, <2>3, <2>4 DEF OnlyLater
  <2> QED
    BY <1>17, <2>1, <2>2, <2>5 DEF LastOne
<1>19. LastSigned'
  BY <1>3, <1>17, <1>18 DEF LastSigned
<1> QED
  BY <1>13, <1>14, <1>15, <1>16, <1>19 DEF IInv

\* The owner's transaction takes the place of one in the mempool: what a
\* settlement may choose is spent by neither.
LEMMA RaisedKeeps ==
    ASSUME IInv, NEW k \in DOMAIN txs, FeeRaised(k)
    PROVE  IInv'
<1>0. PICK n : n = Len(txs) + 1
  OBVIOUS
<1> DEFINE left == Without(Descendants(k))
           t == [txs[k] EXCEPT !.fee = @ + RelayFee, !.change = @ - RelayFee, !.batch = "none",
                               !.line = Line(n, txs[k].in)]
<1>1. /\ txs' = Append(left, t) /\ losses' = losses + 1 /\ losses < MaxLosses
      /\ lost' = lost \cup {j \in Descendants(k) : txs[j].at = "mempool"}
      /\ UNCHANGED <<paid, settle>>
      /\ txs[k].at = "mempool" /\ txs[k].change >= RelayFee + RelayDust
  BY <1>0 DEF FeeRaised, Loses
<1>2. /\ left \in Seq(Tx) /\ DOMAIN left = DOMAIN txs
      /\ \A j \in DOMAIN txs : /\ Same(left[j], txs[j]) /\ left[j].batch = txs[j].batch
                               /\ left[j].at = IF j \in Descendants(k) /\ txs[j].at = "mempool"
                                               THEN "nowhere" ELSE txs[j].at
  BY WithoutIsSeq DEF IInv, Same
<1> HIDE DEF left
<1>3. /\ losses \in Nat /\ losses' \in Nat /\ losses' > losses /\ losses' \in 0..MaxLosses
      /\ Len(txs) \in Nat /\ DOMAIN txs = 1..Len(txs) /\ n \in Nat
      /\ \A j \in DOMAIN txs : txs[j] \in Tx
  BY <1>0, <1>1, Fields, BoundAssumption DEF IInv, Shape
<1>4. txs[k].in \in Outputs /\ k \in Spenders(txs[k].in)
  BY <1>1, <1>3 DEF IInv, Chained, Outputs, Spenders
<1>5. Line(n, txs[k].in) \subseteq Nat
  BY <1>3, <1>4 DEF Line, Outputs, Tx
<1>6. /\ t \in Tx /\ t.in = txs[k].in /\ t.fee = txs[k].fee + RelayFee
      /\ t.change = txs[k].change - RelayFee /\ t.line = Line(n, t.in) /\ t.batch = "none"
      /\ t.at = "mempool"
  <2>1. txs[k] \in Tx /\ txs[k].fee + RelayFee \in Nat /\ txs[k].change - RelayFee \in Nat
    BY <1>1, <1>3 DEF Tx, RelayFee, RelayDust
  <2> QED
    BY <1>1, <1>5, <2>1 DEF Tx, Batches
<1> HIDE DEF t
<1>7. /\ txs' \in Seq(Tx) /\ DOMAIN txs' = 1..n
      /\ DOMAIN txs' = DOMAIN txs \cup {n} /\ n \notin DOMAIN txs
      /\ \A j \in DOMAIN txs : txs'[j] = left[j]
      /\ txs'[n] = t
  BY <1>0, <1>1, <1>2, <1>3, <1>6, AppendKeeps DEF IInv
<1>8. \A j \in DOMAIN txs : Same(txs'[j], txs[j]) /\ txs'[j].batch = txs[j].batch
  BY <1>2, <1>7
<1>9. Chained' /\ Outputs \subseteq Outputs' /\ \A o \in Outputs : Value(o)' = Value(o)
  <2>1. t.fee >= RelayFee
    BY <1>3, <1>6 DEF Tx, RelayFee
  <2>2. t.change >= DUST_LIMIT - losses' * RelayFee
    <3>1. txs[k].change \in Nat /\ txs[k].change >= DUST_LIMIT - losses * RelayFee
      BY <1>1, <1>3 DEF IInv, Chained, Tx, RelayFee, RelayDust
    <3> QED
      BY <1>1, <1>3, <1>6, <3>1 DEF DUST_LIMIT, RelayFee
  <2>3. Value(t.in) = t.fee + t.change
    BY <1>3, <1>6 DEF IInv, Chained, Tx, RelayFee
  <2>4. losses' >= losses
    BY <1>3
  <2> QED
    BY <1>0, <1>3, <1>4, <1>6, <1>7, <1>8, <2>1, <2>2, <2>3, <2>4, ChainGrows DEF IInv
<1>10. Shape'
  BY <1>1, <1>3, <1>7 DEF IInv, Shape, Descendants
<1>11. SentStays'
  BY <1>1, <1>2, <1>6, <1>7 DEF IInv, SentStays
<1>12. Signed' = Signed
  BY <1>6, <1>7, <1>8 DEF Signed
<1>13. \A o : Spenders(o)' \subseteq Spenders(o) \cup {n} /\ (n \in Spenders(o)' => o = txs[k].in)
  BY ZenonT(60), <1>2, <1>6, <1>7, <1>8 DEF Spenders, Same
<1>14. Unspent'
  <2>1. \A u \in settle.utxos : Spenders(u.out)' = {}
    BY <1>4, <1>13 DEF IInv, Unspent
  <2>2. \A u \in settle.utxos : u.out \in Outputs' /\ u.value = Value(u.out)'
    BY <1>9 DEF IInv, Unspent
  <2>3. losses' # 0
    BY <1>3
  <2>4. /\ settle.pc # "sign" => settle.utxos = {}
        /\ settle.pc \in {"utxos", "sign"} => settle.fee >= RelayFee
    BY DEF IInv, Unspent
  <2> QED
    BY <1>1, <2>1, <2>2, <2>3, <2>4 DEF Unspent
<1>15. ASSUME NEW i \in Signed PROVE LastOne(i)'
  <2>1. i \in DOMAIN txs /\ i \in Nat /\ n > i
    BY <1>0, <1>3 DEF Signed
  <2>2. \A j \in DOMAIN txs' : j > i => txs'[j].batch = "none"
    BY ZenonT(60), <1>6, <1>7, <1>8 DEF IInv, LastSigned, LastOne
  <2>3. \A j \in Signed : j = i
    BY DEF IInv, LastSigned, LastOne
  <2>4. txs'[i].in = txs[i].in /\ txs[i].in \in Outputs
    BY <1>3, <1>8, <2>1 DEF Same, IInv, Chained, Outputs
  <2>5. \A o \in Outputs : txs[i].in = o => OnlyLater(i, o)'
    BY <1>3, <1>13, <2>1 DEF IInv, LastSigned, LastOne, OnlyLater
  <2> QED
    BY <1>12, <2>2, <2>3, <2>4, <2>5 DEF LastOne
<1>16. LastSigned'
  BY <1>1, <1>12, <1>15 DEF IInv, LastSigned
<1> QED
  BY <1>9, <1>10, <1>11, <1>14, <1>16 DEF IInv

-----------------------------------------------------------------------------
(* What is proved.                                                         *)

LEMMA NextKeeps == IInv /\ [Next]_vars => IInv'
<1> SUFFICES ASSUME IInv, [Next]_vars PROVE IInv'
  OBVIOUS
<1>1. CASE SettleStep
  BY <1>1, StartKeeps, FeeKeeps, UtxosKeeps, SignKeeps, ThrowsKeep DEF SettleStep
<1>2. CASE Heard
  BY <1>2, AnsweredKeeps, TakenKeeps DEF Heard
<1>3. CASE SendLost
  BY <1>3, ThrowsKeep
<1>4. CASE WorldStep
  BY <1>4, DepositsKeep, MinedKeeps, DroppedKeeps, RaisedKeeps DEF WorldStep
<1>5. CASE UNCHANGED vars
  BY <1>5 DEF vars, IInv, Shape, Chained, Unspent, LastSigned, LastOne, OnlyLater, SentStays,
              Value, Place, Outputs, Spenders, Signed
<1> QED
  BY <1>1, <1>2, <1>3, <1>4, <1>5 DEF Next

LEMMA Inductive == Spec => []IInv
<1> QED
  BY InitHolds, NextKeeps, PTL DEF Spec

\* Every variable keeps its type, and each transaction pays out what it takes
\* in: no fee, change or raised fee makes an amount out of nothing.
THEOREM TypeCorrect == Spec => []TypeOK
<1>1. IInv => TypeOK
  <2> SUFFICES ASSUME IInv PROVE TypeOK
    OBVIOUS
  <2>1. \A k \in DOMAIN txs : txs[k] \in Tx
    BY Fields DEF IInv
  <2> QED
    BY SMTT(30), <2>1 DEF IInv, Shape, Chained, TypeOK, Tx, Settlement, Batches, RelayFee, DUST_LIMIT
<1> QED
  BY <1>1, Inductive, PTL

\* A batch that was sent is never replaced by one of ours, for any deposits,
\* fee rates, limits and number of settlements.
THEOREM StaysSent == Spec => []SentStays
<1>1. IInv => SentStays
  BY DEF IInv
<1> QED
  BY <1>1, Inductive, PTL

\* Only an answer to its sending gives a batch up.
LEMMA Refusals ==
    ASSUME IInv, Next, NEW k \in DOMAIN txs, Removed(k)
    PROVE  SendRefused(k)
<1>1. DOMAIN txs = 1..Len(txs) /\ Len(txs) \in Nat /\ \A j \in DOMAIN txs : txs[j] \in Tx
  BY Fields DEF IInv
<1>2. txs[k].batch = "signed" /\ txs'[k].batch = "removed"
  BY DEF Removed
<1>3. \A gone : Without(gone)[k].batch = txs[k].batch
  BY WithoutIsSeq DEF IInv
<1>4. CASE SettleStep
  <2>1. CASE SettleSign
    <3>1. PICK t : txs' = Append(txs, t)
      BY <2>1 DEF SettleSign
    <3> QED
      BY <1>1, <1>2, <3>1 DEF IInv, Shape
  <2> QED
    BY <1>2, <1>4, <2>1 DEF SettleStep, SettleStart, SettleFee, SettleUtxos, SettleThrows
<1>5. CASE Heard
  <2>1. PICK j \in DOMAIN txs : SendKnown(j) \/ SendRefused(j) \/ SendTaken(j)
    BY <1>5 DEF Heard
  <2>2. CASE SendTaken(j)
    <3>1. PICK batch \in {"broadcast", "signed"} :
             txs' = [Without(Rivals(j)) EXCEPT ![j].at = "mempool", ![j].batch = batch]
      BY <2>2 DEF SendTaken
    <3>2. k \in DOMAIN Without(Rivals(j))
      BY DEF Without
    <3> QED
      BY <1>2, <1>3, <3>1, <3>2
  <2>3. CASE SendKnown(j)
    BY <1>2, <2>3 DEF SendKnown
  <2>4. CASE SendRefused(j)
    <3>1. j = k
      BY <1>2, <2>4 DEF SendRefused
    <3> QED
      BY <2>4, <3>1
  <2> QED
    BY <2>1, <2>2, <2>3, <2>4
<1>6. CASE SendLost
  BY <1>2, <1>6 DEF SendLost
<1>7. CASE WorldStep
  <2>1. CASE \E d \in Deposits : DepositPaid(d) \/ DepositMined(d)
    BY <1>2, <2>1 DEF DepositPaid, DepositMined
  <2>2. CASE \E j \in DOMAIN txs : TxMined(j)
    BY <1>2, <2>2 DEF TxMined
  <2>3. CASE \E j \in DOMAIN txs : Dropped(j)
    BY <1>2, <1>3, <2>3 DEF Dropped
  <2>4. CASE \E j \in DOMAIN txs : FeeRaised(j)
    <3>1. PICK gone, t : txs' = Append(Without(gone), t)
      BY <2>4 DEF FeeRaised
    <3>2. Without(gone) \in Seq(Tx) /\ Len(Without(gone)) = Len(txs)
      BY WithoutIsSeq DEF IInv
    <3>3. txs'[k] = Without(gone)[k]
      BY <1>1, <3>1, <3>2
    <3> QED
      BY <1>2, <1>3, <3>3
  <2> QED
    BY <1>7, <2>1, <2>2, <2>3, <2>4 DEF WorldStep
<1> QED
  BY <1>4, <1>5, <1>6, <1>7 DEF Next

\* While nothing is lost, the node refuses a batch only for the transactions
\* before it that no block has: never for its amounts, nor for its output.
THEOREM RefusesForChain == Spec => RefusedForChain
<1> DEFINE Only == \A k \in DOMAIN txs : Removed(k) => TooLong(k) \/ losses > 0
<1>1. IInv /\ [Next]_vars => [Only]_vars
  <2> SUFFICES ASSUME IInv, Next, NEW k \in DOMAIN txs, Removed(k), losses = 0
               PROVE  TooLong(k)
    BY BoundAssumption DEF IInv, Shape
  <2>1. SendRefused(k)
    BY Refusals
  <2>2. k \in Signed /\ ~Acceptable(k)
    BY <2>1 DEF SendRefused
  <2>3. Rivals(k) = {}
    BY <2>2, RivalsAreLater
  <2>4. txs[k].in \in Outputs /\ LastOne(k)
    BY <2>2, Fields DEF IInv, Chained, Outputs, LastSigned
  <2>5. Place(txs[k].in) # "nowhere"
    BY <2>4 DEF LastOne, OnlyLater
  <2>6. txs[k].fee >= RelayFee /\ (txs[k].change = 0 \/ txs[k].change >= RelayDust)
    <3>1. txs[k].change \in Nat
      BY Fields DEF IInv, Tx
    <3> QED
      BY <3>1 DEF IInv, Chained, DUST_LIMIT, RelayDust, RelayFee
  <2> QED
    BY <2>2, <2>3, <2>5, <2>6 DEF Acceptable
<1> QED
  BY <1>1, Inductive, PTL DEF Spec, RefusedForChain
=============================================================================
