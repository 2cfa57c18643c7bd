------------------------------- MODULE Wallet -------------------------------
(***************************************************************************)
(* The notary's money: how a settlement picks an output and builds its     *)
(* transaction (selectUtxo, createOpReturnTx), and what becomes of the     *)
(* transactions in a node that keeps them in a mempool, replaces one by    *)
(* another that pays more (all of them allow it, BIP 125) and refuses what *)
(* breaks its rules.  One settlement runs at a time (Notary!SettlesAlone); *)
(* what it queues and what the transactions carry is left to Notary.       *)
(*                                                                         *)
(* A definition no action uses (PreviousIgnored, ...) is a mistake the     *)
(* properties must notice.                                                 *)
(***************************************************************************)
EXTENDS Integers, Sequences, FiniteSets, FiniteSetsExt

CONSTANTS
    Deposits,   \* outputs others pay to the notary's address
    Worth,      \* what each has, in satoshi
    Rates,      \* the fee rates the API recommends; 10 when it does not answer
    MaxChain,   \* 25 in Bitcoin Core: transactions in a chain no block has
    MaxTxs,     \* bound: transactions that are signed
    MaxLosses   \* bound: transactions that are dropped or replaced by the owner

ASSUME WorthAssumption == Worth \in [Deposits -> Nat \ {0}] /\ Deposits \cap Nat = {}
ASSUME RateAssumption == Rates \subseteq Nat \ {0}
ASSUME BoundAssumption == MaxChain \in Nat \ {0} /\ MaxTxs \in Nat /\ MaxLosses \in Nat

VARIABLES
    paid,    \* where each deposit is: "nowhere", "mempool" or "block"
    txs,     \* the transactions: what they spend, their fee and change, those
             \* they depend on, where the node has them, the status of the batch
    settle,  \* the settlement: pc, and its local variables
    losses,  \* transactions dropped, or replaced by the owner, so far
    lost     \* history: those, and the ones that spent their change

vars == <<paid, txs, settle, losses, lost>>

-----------------------------------------------------------------------------
(* Outputs: a deposit, or the number of the transaction it is the change of. *)

Outputs == Deposits \cup DOMAIN txs
Value(o) == IF o \in Deposits THEN Worth[o] ELSE txs[o].change
Place(o) == IF o \in Deposits THEN paid[o] ELSE txs[o].at
Spenders(o) == {k \in DOMAIN txs : txs[k].in = o /\ txs[k].at # "nowhere"}

\* GET /address/<address>/utxo.
Utxos == {[out |-> o, value |-> Value(o), confirmed |-> Place(o) = "block"] :
            o \in {p \in Outputs : Place(p) # "nowhere" /\ Value(p) > 0 /\ Spenders(p) = {}}}

\* A transaction and those whose change it spends, one through the other.
Line(k, out) == {k} \cup IF out \in Deposits THEN {} ELSE txs[out].line
Descendants(k) == {j \in DOMAIN txs : k \in txs[j].line}

Signed == {k \in DOMAIN txs : txs[k].batch = "signed"}

-----------------------------------------------------------------------------
(* The rules of the node.                                                  *)

RelayFee == 160     \* one satoshi for each byte
RelayDust == 294    \* of a P2WPKH output

TooLong(k) == Cardinality({j \in txs[k].line : txs[j].at # "block"}) > MaxChain
Rivals(k) == UNION {Descendants(j) : j \in Spenders(txs[k].in) \ {k}}
Acceptable(k) ==
    /\ txs[k].fee >= RelayFee
    /\ txs[k].change = 0 \/ txs[k].change >= RelayDust
    /\ Place(txs[k].in) # "nowhere"
    /\ \A j \in Rivals(k) : txs[j].at # "block"
    /\ \/ Rivals(k) = {}
       \/ txs[k].fee > MapThenSumSet(LAMBDA j : IF txs[j].at = "mempool" THEN txs[j].fee ELSE 0, Rivals(k))
    /\ ~TooLong(k)

\* The mempool without the transactions of a set.
Without(gone) == [k \in DOMAIN txs |-> IF k \in gone /\ txs[k].at = "mempool"
                                       THEN [txs[k] EXCEPT !.at = "nowhere"] ELSE txs[k]]

-----------------------------------------------------------------------------
(* A settlement.                                                           *)

ANCHOR_TX_VBYTES == 160
DUST_LIMIT == 1000

Idle == [pc |-> "idle", fee |-> 0, utxos |-> {}]
Throw == settle' = Idle
Local == UNCHANGED <<paid, losses, lost>>

NothingResent == IF Signed = {} THEN "fee" ELSE "idle"
\* First the batch of an earlier settlement that is signed and not sent.
FirstStep == IF Signed = {} THEN "fee" ELSE "resend"
SettleStart == /\ settle.pc = "idle"
               /\ settle' = [Idle EXCEPT !.pc = FirstStep]
               /\ UNCHANGED txs /\ Local

SettleFee == /\ settle.pc = "fee"
             /\ \E rate \in Rates \cup {10} :
                   settle' = [settle EXCEPT !.pc = "utxos", !.fee = ANCHOR_TX_VBYTES * rate]
             /\ UNCHANGED txs /\ Local

\* The listing is answered; more may happen until the answer is handled.
SettleUtxos == /\ settle.pc = "utxos"
               /\ settle' = [settle EXCEPT !.pc = "sign", !.utxos = Utxos]
               /\ UNCHANGED txs /\ Local

Better(u, v) == IF u.confirmed = v.confirmed THEN u.value > v.value ELSE u.confirmed

\* selectUtxo: of those that pay the fee a confirmed one, then the biggest.
SelectUtxo(utxos, fee) ==
    LET ok == {u \in utxos : u.value > fee}
    IN  {u \in ok : \A v \in ok : ~Better(v, u)}

AllChange(value, fee) == value - fee
\* createOpReturnTx: change below the limit is given to the fee.  It refuses an
\* output that is no bigger than the fee; selectUtxo returns none.
Change(value, fee) == IF value - fee < DUST_LIMIT THEN 0 ELSE value - fee

\* The transaction is signed and its batch saved.
SettleSign ==
    /\ settle.pc = "sign" /\ Len(txs) < MaxTxs
    /\ \E u \in SelectUtxo(settle.utxos, settle.fee) :
          LET change == Change(u.value, settle.fee)
          IN  /\ txs' = Append(txs, [in |-> u.out, fee |-> u.value - change, change |-> change,
                                     line |-> Line(Len(txs) + 1, u.out),
                                     at |-> "nowhere", batch |-> "signed"])
              /\ settle' = [Idle EXCEPT !.pc = "send"]
    /\ Local

\* No output is big enough for the fee.
SettleThrows ==
    /\ settle.pc = "sign"
    /\ SelectUtxo(settle.utxos, settle.fee) = {} \/ Len(txs) = MaxTxs
    /\ Throw /\ UNCHANGED txs /\ Local

-----------------------------------------------------------------------------
(* Sending the signed batch, again or for the first time.                  *)

Sending == settle.pc \in {"resend", "send"}

\* On with the settlement, or back: the batch was that of an earlier one, or its own.
GoesOn == settle' = [Idle EXCEPT !.pc = IF settle.pc = "resend" THEN "fee" ELSE "idle"]

PreviousIgnored == GoesOn
\* A batch that is still signed stops the settlement that would make the next.
PreviousUnsent == Throw

\* The node takes it, and the transactions it replaces leave the mempool.  The
\* answer and the lookup may be lost: the batch stays signed.
SendTaken(k) ==
    /\ Sending /\ k \in Signed /\ txs[k].at = "nowhere" /\ Acceptable(k)
    /\ \E batch \in {"broadcast", "signed"} :
          /\ txs' = [Without(Rivals(k)) EXCEPT ![k].at = "mempool", ![k].batch = batch]
          /\ IF batch = "signed" THEN PreviousUnsent ELSE GoesOn
    /\ lost' = lost \ {k}
    /\ UNCHANGED <<paid, losses>>

\* It is known to the node already.
SendKnown(k) == /\ Sending /\ k \in Signed /\ txs[k].at # "nowhere"
                /\ txs' = [txs EXCEPT ![k].batch = "broadcast"]
                /\ GoesOn /\ Local

\* It is refused: the batch is removed, its hashes are queued again.
SendRefused(k) ==
    /\ Sending /\ k \in Signed /\ txs[k].at = "nowhere" /\ ~Acceptable(k)
    /\ txs' = [txs EXCEPT ![k].batch = "removed"]
    /\ GoesOn /\ Local

\* The request does not reach the node, and the lookup is not answered.
SendLost == /\ Sending
            /\ PreviousUnsent /\ UNCHANGED txs /\ Local

-----------------------------------------------------------------------------
(* The rest of the world.                                                  *)

\* Somebody pays to the address; a block takes a payment or a transaction.
DepositPaid(d) == /\ paid[d] = "nowhere"
                  /\ paid' = [paid EXCEPT ![d] = "mempool"]
                  /\ UNCHANGED <<txs, settle, losses, lost>>
DepositMined(d) == /\ paid[d] = "mempool"
                   /\ paid' = [paid EXCEPT ![d] = "block"]
                   /\ UNCHANGED <<txs, settle, losses, lost>>
TxMined(k) == /\ txs[k].at = "mempool" /\ Place(txs[k].in) = "block"
              /\ txs' = [txs EXCEPT ![k].at = "block"]
              /\ UNCHANGED <<paid, settle, losses, lost>>

Loses(k) == /\ txs[k].at = "mempool" /\ losses < MaxLosses
            /\ losses' = losses + 1
            /\ lost' = lost \cup {j \in Descendants(k) : txs[j].at = "mempool"}
            /\ UNCHANGED <<paid, settle>>

\* The node drops a transaction that pays too little for its mempool.
Dropped(k) == Loses(k) /\ txs' = Without(Descendants(k))

\* The owner raises the fee (README.md: "so you can raise the fee if it is
\* stuck"): another transaction with the same root takes its place.
FeeRaised(k) ==
    /\ Loses(k) /\ Len(txs) < MaxTxs
    /\ txs[k].change >= RelayFee + RelayDust
    /\ txs' = Append(Without(Descendants(k)),
                     [txs[k] EXCEPT !.fee = @ + RelayFee, !.change = @ - RelayFee, !.batch = "none",
                                    !.line = Line(Len(txs) + 1, txs[k].in)])

-----------------------------------------------------------------------------
Init == /\ paid = [d \in Deposits |-> "nowhere"] /\ txs = <<>>
        /\ settle = Idle /\ losses = 0 /\ lost = {}

SettleStep == SettleStart \/ SettleFee \/ SettleUtxos \/ SettleSign \/ SettleThrows
Heard == \E k \in DOMAIN txs : SendKnown(k) \/ SendRefused(k) \/ SendTaken(k)
WorldStep == \/ \E d \in Deposits : DepositPaid(d) \/ DepositMined(d)
             \/ \E k \in DOMAIN txs : TxMined(k) \/ Dropped(k) \/ FeeRaised(k)

Next == SettleStep \/ Heard \/ SendLost \/ WorldStep

Spec == Init /\ [][Next]_vars

\* The timer settles again and again, some day the node answers, and blocks
\* take what is in the mempool.
FairSpec == /\ Spec /\ WF_vars(SettleStep \/ SendLost) /\ SF_vars(Heard)
            /\ \A d \in Deposits : WF_vars(DepositMined(d))
            /\ \A k \in 1..MaxTxs : WF_vars(k \in DOMAIN txs /\ TxMined(k))

-----------------------------------------------------------------------------
(* What must hold.                                                         *)

Places == {"nowhere", "mempool", "block"}
TypeOK == /\ paid \in [Deposits -> Places]
          /\ \A k \in DOMAIN txs :
                /\ txs[k].in \in Deposits \cup 1..(k - 1)
                /\ txs[k].line \subseteq 1..k /\ txs[k].fee \in Nat /\ txs[k].at \in Places
                /\ txs[k].change \in {0} \cup {n \in Nat : n >= DUST_LIMIT - losses * RelayFee}
                /\ txs[k].batch \in {"signed", "broadcast", "removed", "none"}
                /\ Value(txs[k].in) = txs[k].fee + txs[k].change
          /\ settle.pc \in {"idle", "fee", "utxos", "sign", "resend", "send"}
          /\ lost \subseteq DOMAIN txs /\ losses \in 0..MaxLosses

\* A transaction whose batch is marked broadcast stays with the node: no later
\* one of ours that pays more replaces it, whatever got lost and however fees
\* move.  (A dropped one, and one whose fee the owner raised, are lost.)
SentStays == \A k \in DOMAIN txs :
                txs[k].batch = "broadcast" => txs[k].at # "nowhere" \/ k \in lost

\* A batch is given up only for a chain of unconfirmed transactions, or after
\* a loss: never for its own amounts, or an output that is spent.
Removed(k) == txs[k].batch = "signed" /\ txs'[k].batch = "removed"
RefusedForChain == [][\A k \in DOMAIN txs : Removed(k) => TooLong(k) \/ losses > 0]_vars

\* Every signed batch is in a block in the end, or given up, or was lost.
Waits(k) == k \in DOMAIN txs /\ txs[k].batch = "signed"
Settled(k) == k \in DOMAIN txs /\ (txs[k].batch = "removed" \/ txs[k].at = "block" \/ k \in lost)
MinedInTheEnd == \A k \in 1..MaxTxs : Waits(k) ~> Settled(k)
=============================================================================
