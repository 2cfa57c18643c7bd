------------------------- MODULE NotarySpendProofs -------------------------
(***************************************************************************)
(* What Notary does with the outputs of our address: which batches may be  *)
(* sent when, that no two of the store spend the same output, and that the *)
(* chain never has a transaction whose batch is forgotten.                 *)
(***************************************************************************)
EXTENDS NotaryProofs

-----------------------------------------------------------------------------
(* How a call moves.                                                       *)

Others(c) == \A d \in Calls : d # c => call'[d] = call[d]

\* The call goes on to pc, and nothing else of it changes.
GoesTo(c, pc) ==
    /\ Others(c)
    /\ call'[c].pc = pc
    /\ call'[c].op = call[c].op     /\ call'[c].hash = call[c].hash
    /\ call'[c].id = call[c].id     /\ call'[c].todo = call[c].todo
    /\ call'[c].cur = call[c].cur   /\ call'[c].own = call[c].own
    /\ call'[c].hand = call[c].hand /\ call'[c].spend = call[c].spend
    /\ call'[c].reply = call[c].reply /\ call'[c].out = call[c].out

\* The call starts, or ends: it has nothing in its hands.
Empty(c, op, h, id, pc) ==
    /\ Others(c)
    /\ call'[c].pc = pc     /\ call'[c].op = op     /\ call'[c].hash = h
    /\ call'[c].id = id     /\ call'[c].todo = {}   /\ call'[c].own = FALSE
    /\ call'[c].hand = {}   /\ call'[c].reply = "none"
    /\ pc # "rest" => call'[c].out = "none"
Ends(c) == Empty(c, "none", NoHash, 0, "rest")

\* The chain of settlements: the call stays where it is, joins it, leaves it.
Stays == \A d \in Calls : (InChain(d)' <=> InChain(d)) /\ (Turn(d)' <=> Turn(d))
Joins(c) == \A d \in Calls : /\ InChain(d)' <=> InChain(d) \/ d = c
                             /\ d # c => (Turn(d)' <=> Turn(d))
Quits(c) == \A d \in Calls : InChain(d)' <=> InChain(d) /\ d # c

LEMMA GotoMove ==
    ASSUME TypeInv, NEW c \in Calls, NEW pc, Goto(c, pc)
    PROVE  GoesTo(c, pc)
<1>1. call \in [Calls -> CallState] /\ call[c] \in CallState
  BY DEF TypeInv, TypeOK
<1>2. call'[c] = [call[c] EXCEPT !.pc = pc] /\ Others(c)
  BY <1>1 DEF Goto, Others
<1>3. QED
  BY <1>1, <1>2 DEF GoesTo, CallState

LEMMA FinishMove ==
    ASSUME TypeInv, NEW c \in Calls, NEW out, Finish(c, out)
    PROVE  Ends(c)
<1>1. call'[c] = Rest(out) /\ Others(c)
  BY DEF TypeInv, TypeOK, Finish, Others
<1>2. QED
  BY <1>1 DEF Ends, Empty, Rest, Started

LEMMA StartMove ==
    ASSUME TypeInv, NEW c \in Calls, NEW op, NEW h, NEW id, NEW pc,
           call' = [call EXCEPT ![c] = Started(op, h, id, pc)]
    PROVE  Empty(c, op, h, id, pc)
<1>1. call'[c] = Started(op, h, id, pc) /\ Others(c)
  BY DEF TypeInv, TypeOK, Others
<1>2. QED
  BY <1>1 DEF Empty, Started

LEMMA StaysMove ==
    ASSUME chainQ' = chainQ
    PROVE  Stays
BY DEF Stays, InChain, Turn

LEMMA JoinsMove ==
    ASSUME TypeInv, NEW c \in Calls, chainQ' = Append(chainQ, c)
    PROVE  Joins(c)
<1>1. chainQ \in Seq(Calls)
  BY DEF TypeInv, TypeOK
<1>2. /\ DOMAIN chainQ' = DOMAIN chainQ \cup {Len(chainQ) + 1}
      /\ chainQ'[Len(chainQ) + 1] = c
      /\ \A i \in DOMAIN chainQ : chainQ'[i] = chainQ[i]
  BY <1>1
<1>3. \A d \in Calls : InChain(d)' <=> InChain(d) \/ d = c
  BY <1>2 DEF InChain
<1>4. chainQ' # <<>> /\ Head(chainQ') = IF chainQ = <<>> THEN c ELSE Head(chainQ)
  BY <1>1
<1>5. QED
  BY <1>3, <1>4 DEF Joins, Turn

LEMMA QuitsMove ==
    ASSUME IInv, NEW c \in Calls, Active(c), chainQ' = Tail(chainQ)
    PROVE  Quits(c)
<1>1. chainQ \in Seq(Calls) /\ chainQ # <<>> /\ chainQ[1] = c
  BY CallFacts DEF IInv, TypeInv, TypeOK
<1>2. /\ DOMAIN chainQ = 1..Len(chainQ) /\ Len(chainQ) \in Nat
      /\ DOMAIN chainQ' = 1..(Len(chainQ) - 1)
      /\ \A i \in DOMAIN chainQ' : chainQ'[i] = chainQ[i + 1]
  BY <1>1
<1>3. ASSUME NEW i \in DOMAIN chainQ, i # 1
      PROVE  i - 1 \in DOMAIN chainQ' /\ chainQ'[i - 1] = chainQ[i]
  BY <1>2, <1>3
<1>4. \A i, j \in DOMAIN chainQ : chainQ[i] = chainQ[j] => i = j
  BY DEF IInv, ChainInv
<1>5. \A i \in DOMAIN chainQ' : chainQ'[i] # c
  BY <1>1, <1>2, <1>4
<1>6. ASSUME NEW d \in Calls, InChain(d)'
      PROVE  InChain(d) /\ d # c
  BY <1>2, <1>5, <1>6 DEF InChain
<1>7. ASSUME NEW d \in Calls, InChain(d), d # c
      PROVE  InChain(d)'
  BY <1>1, <1>3, <1>7 DEF InChain
<1>8. QED
  BY <1>6, <1>7 DEF Quits

LEMMA AddReturnsMove ==
    ASSUME TypeInv, NEW c \in Calls, NEW out, AddReturns(c, out)
    PROVE  \/ call[c].op = "anchor" /\ GoesTo(c, "queued") /\ Joins(c)
           \/ call[c].op # "anchor" /\ Ends(c) /\ Stays
BY GotoMove, FinishMove, JoinsMove, StaysMove DEF AddReturns, JoinChain

LEMMA SettleReturnsMove ==
    ASSUME IInv, NEW c \in Calls, Active(c), NEW ok \in BOOLEAN, SettleReturns(c, ok)
    PROVE  /\ Quits(c) /\ settling' = (settling /\ call[c].op # "due")
           /\ \/ ok /\ call[c].op = "anchor" /\ GoesTo(c, "final")
              \/ Ends(c)
<1>1. TypeInv
  BY DEF IInv
<1>2. QED
  BY <1>1, QuitsMove, GotoMove, FinishMove DEF SettleReturns

LEMMA BroadcastReturnsMove ==
    ASSUME IInv, NEW c \in Calls, NEW ok \in BOOLEAN, BroadcastReturns(c, ok),
           call[c].pc # "final"
    PROVE  \/ /\ call[c].own /\ Quits(c)
              /\ settling' = (settling /\ call[c].op # "due")
              /\ \/ ok /\ call[c].op = "anchor" /\ GoesTo(c, "final")
                 \/ Ends(c)
           \/ /\ ~call[c].own /\ GoesTo(c, "loop") /\ Stays /\ settling' = settling
<1>1. TypeInv
  BY DEF IInv
<1>2. CASE call[c].own
  BY <1>2, SettleReturnsMove DEF BroadcastReturns, Active
<1>3. CASE ~call[c].own
  BY <1>1, <1>3, GotoMove, StaysMove DEF BroadcastReturns
<1>4. QED
  BY <1>2, <1>3

\* With the stores of store.js a call comes back from the network only when no
\* other call has work to do.
LEMMA FreeIsQuiet ==
    ASSUME Free, ~StoreYields, NEW d \in Calls
    PROVE  \/ call[d].pc \in Waiting
           \/ call[d].pc = "queued" /\ ~Turn(d)
BY DEF Free, Quiet, Turn

-----------------------------------------------------------------------------
(* The steps of a call, by what they do.                                   *)

\* addHash, anchorNow and the start of a settlement leave the batches alone.
Asking == {"rest", "existing", "proof", "list", "push"}

LEMMA AskMove ==
    ASSUME IInv, NEW c \in Calls, AddStep(c) \/ StartSettle(c)
    PROVE  /\ UNCHANGED <<built, saved, index, settling, chain>> /\ Others(c)
           /\ call[c].pc \in Asking \cup {"final"} /\ ~InChain(c)
           /\ call[c].pc = "rest" => Free
           /\ call[c].pc = "final" => call'[c].pc = "rest"
           /\ \/ call'[c].pc \in Asking /\ Stays
              \/ call'[c].pc = "queued" /\ Joins(c)
           /\ call'[c].own = FALSE
           /\ \/ call'[c].pc = "rest" \/ call'[c].out = "none"
              \/ call[c].pc # "rest" /\ call'[c].out = call[c].out
           /\ \/ call'[c].op = call[c].op /\ call'[c].hash = call[c].hash
              \/ call'[c].op \in {"none", "settle"}
              \/ call'[c].op \in {"add", "anchor"} /\ call'[c].hash \in Hashes
<1> USE DEF Asking
<1>1. TypeInv /\ call[c] \in CallState
  BY CallFacts DEF IInv
<1>2. ASSUME call[c].pc \in Asking \cup {"final"}
      PROVE  /\ ~InChain(c)
             /\ call[c].pc # "final" => call[c].own = FALSE
  <2>1. ~InChain(c)
    BY <1>2, CallFacts DEF OutOfChain
  <2>2. QED
    BY <1>1, <2>1, CallFacts DEF Active, CallState
<1>3. ASSUME NEW op \in {"add", "anchor"}, NEW h \in Hashes, StartRequest(c, op, h)
      PROVE  /\ UNCHANGED <<store, chainQ, settling, chain>> /\ call[c].pc = "rest" /\ Free
             /\ \E pc \in {"existing", "proof"} : Empty(c, op, h, requests + 1, pc)
  BY <1>1, <1>3, StartMove DEF StartRequest
<1>4. CASE \E op \in {"add", "anchor"}, h \in Hashes : StartRequest(c, op, h)
  BY <1>2, <1>3, <1>4, StaysMove DEF Empty, store
<1>5. CASE AnchorExisting(c)
  <2>1. /\ UNCHANGED <<store, chainQ, settling, chain>> /\ call[c].pc = "existing"
        /\ Ends(c) \/ GoesTo(c, "proof")
    BY <1>1, <1>5, FinishMove, GotoMove DEF AnchorExisting
  <2>2. QED
    BY <1>2, <2>1, StaysMove DEF Ends, Empty, GoesTo, store
<1>6. CASE AddGetProof(c) \/ AddListPending(c) \/ AddPush(c)
  <2>1. /\ UNCHANGED <<built, saved, index, settling, chain>>
        /\ call[c].pc \in {"proof", "list", "push"}
        /\ \/ AddReturns(c, "already") \/ AddReturns(c, "waiting")
           \/ AddReturns(c, "queued")
           \/ (Goto(c, "list") \/ Goto(c, "push")) /\ chainQ' = chainQ
    BY <1>6 DEF AddGetProof, AddListPending, AddPush, store
  <2>2. \/ GoesTo(c, "queued") /\ Joins(c)
        \/ Ends(c) /\ Stays
        \/ (GoesTo(c, "list") \/ GoesTo(c, "push")) /\ Stays
    BY <1>1, <2>1, AddReturnsMove, GotoMove, StaysMove
  <2>3. QED
    BY <1>2, <2>1, <2>2 DEF Ends, Empty, GoesTo
<1>7. CASE AnchorFinal(c)
  <2>1. /\ UNCHANGED <<store, chainQ, settling, chain>> /\ call[c].pc = "final"
        /\ Ends(c)
    BY <1>1, <1>7, FinishMove DEF AnchorFinal
  <2>2. QED
    BY <1>2, <2>1, StaysMove DEF Ends, Empty, store
<1>8. CASE StartSettle(c)
  <2>1. /\ UNCHANGED <<store, settling, chain>> /\ call[c].pc = "rest" /\ Free
        /\ chainQ' = Append(chainQ, c) /\ Empty(c, "settle", NoHash, 0, "queued")
    BY <1>1, <1>8, StartMove DEF StartSettle
  <2>2. QED
    BY <1>1, <1>2, <2>1, JoinsMove DEF Empty, store
<1>9. QED
  BY <1>4, <1>5, <1>6, <1>7, <1>8 DEF AddStep

\* What stays of the call at every step of a settlement or a broadcast.
Itself(c) == /\ Others(c)
             /\ call'[c].op = call[c].op /\ call'[c].hash = call[c].hash
             /\ call'[c].id = call[c].id /\ call'[c].out = call[c].out

LEMMA BeginMove ==
    ASSUME IInv, NEW c \in Calls, SettleBegin(c)
    PROVE  /\ UNCHANGED <<store, settling, chain, requests>> /\ Itself(c) /\ Stays
           /\ call[c].pc = "queued" /\ InChain(c) /\ Turn(c)
           /\ call'[c].pc = "loop" /\ call'[c].todo = SignedBatches
           /\ call'[c].cur = call[c].cur /\ call'[c].own = call[c].own
           /\ call'[c].hand = call[c].hand
<1>1. call \in [Calls -> CallState] /\ call[c] \in CallState /\ chainQ \in Seq(Calls)
  BY DEF IInv, TypeInv, TypeOK
<1>2. /\ UNCHANGED <<store, chainQ, settling, chain, requests>>
      /\ call[c].pc = "queued" /\ chainQ # <<>> /\ Head(chainQ) = c
      /\ call'[c] = [call[c] EXCEPT !.pc = "loop", !.todo = SignedBatches]
      /\ Others(c)
  BY <1>1 DEF SettleBegin, Turn, Others
<1>3. InChain(c)
  <2>1. 1 \in DOMAIN chainQ /\ chainQ[1] = c
    BY <1>1, <1>2
  <2>2. QED
    BY <2>1 DEF InChain
<1>4. QED
  BY <1>1, <1>2, <1>3, StaysMove DEF Itself, CallState, Turn

LEMMA CheckMove ==
    ASSUME IInv, NEW c \in Calls, SettleCheck(c)
    PROVE  /\ UNCHANGED <<store, chain, requests>> /\ call[c].pc = "check" /\ InChain(c)
           /\ \/ /\ GoesTo(c, "take") /\ Stays /\ settling' = settling
                 /\ SignedBatches = {}
              \/ /\ Ends(c) /\ Quits(c)
                 /\ settling' = (settling /\ call[c].op # "due")
<1>1. TypeInv /\ call[c].pc = "check" /\ UNCHANGED <<store, chain, requests>>
  BY DEF SettleCheck, IInv
<1>2. Active(c)
  BY <1>1 DEF Active, Settling
<1>3. \/ SettleReturns(c, FALSE)
      \/ /\ Goto(c, "take") /\ chainQ' = chainQ /\ settling' = settling
         /\ SignedBatches = {}
  BY DEF SettleCheck, PreviousUnsent
<1>4. QED
  BY <1>1, <1>2, <1>3, CallFacts, SettleReturnsMove, GotoMove, StaysMove

LEMMA TakeMove ==
    ASSUME IInv, NEW c \in Calls, SettleTake(c)
    PROVE  /\ UNCHANGED <<store, chain, requests>> /\ call[c].pc = "take" /\ InChain(c)
           /\ \/ /\ Itself(c) /\ Stays /\ settling' = settling
                 /\ call'[c].pc = "fund" /\ call'[c].hand = pending /\ pending # {}
                 /\ call'[c].own = call[c].own /\ call'[c].cur = call[c].cur
                 /\ call'[c].todo = call[c].todo
              \/ /\ Quits(c) /\ settling' = (settling /\ call[c].op # "due")
                 /\ \/ call[c].op = "anchor" /\ GoesTo(c, "final")
                    \/ Ends(c)
<1>1. /\ call \in [Calls -> CallState] /\ call[c] \in CallState
      /\ call[c].pc = "take" /\ UNCHANGED <<store, chain, requests>>
  BY DEF SettleTake, IInv, TypeInv, TypeOK
<1>2. Active(c) /\ InChain(c)
  BY <1>1, CallFacts DEF Active, Settling
<1>3. CASE pending = {}
  BY <1>1, <1>2, <1>3, SettleReturnsMove DEF SettleTake
<1>4. CASE pending # {}
  <2>1. /\ call' = [call EXCEPT ![c].pc = "fund", ![c].hand = pending]
        /\ chainQ' = chainQ /\ settling' = settling
    BY <1>4 DEF SettleTake
  <2>2. call'[c] = [call[c] EXCEPT !.pc = "fund", !.hand = pending] /\ Others(c)
    BY <1>1, <2>1 DEF Others
  <2>3. QED
    BY <1>1, <1>2, <1>4, <2>1, <2>2, StaysMove DEF Itself, CallState
<1>5. QED
  BY <1>3, <1>4

LEMMA FundMove ==
    ASSUME IInv, NEW c \in Calls, SettleFund(c) \/ SettleFundFails(c)
    PROVE  /\ UNCHANGED <<store, chain, requests>> /\ call[c].pc = "fund" /\ InChain(c)
           /\ Free
           /\ SettleFund(c) =>
                 /\ Itself(c) /\ Stays /\ settling' = settling
                 /\ call'[c].pc = "save" /\ call'[c].spend = Len(chain)
                 /\ call'[c].own = call[c].own /\ call'[c].cur = call[c].cur
                 /\ call'[c].todo = call[c].todo /\ call'[c].hand = call[c].hand
           /\ SettleFundFails(c) =>
                 /\ Quits(c) /\ settling' = (settling /\ call[c].op # "due")
                 /\ Ends(c)
<1>1. /\ call \in [Calls -> CallState] /\ call[c] \in CallState
      /\ call[c].pc = "fund" /\ UNCHANGED <<store, chain, requests>> /\ Free
  BY DEF SettleFund, SettleFundFails, IInv, TypeInv, TypeOK
<1>2. Active(c) /\ InChain(c)
  BY <1>1, CallFacts DEF Active, Settling
<1>3. ASSUME SettleFundFails(c)
      PROVE  Quits(c) /\ settling' = (settling /\ call[c].op # "due") /\ Ends(c)
  BY <1>1, <1>2, <1>3, SettleReturnsMove DEF SettleFundFails
<1>4. ASSUME SettleFund(c)
      PROVE  /\ Itself(c) /\ Stays /\ settling' = settling
             /\ call'[c].pc = "save" /\ call'[c].spend = Len(chain)
             /\ call'[c].own = call[c].own /\ call'[c].cur = call[c].cur
             /\ call'[c].todo = call[c].todo /\ call'[c].hand = call[c].hand
  <2>1. /\ call'[c] = [call[c] EXCEPT !.pc = "save", !.spend = Len(chain)]
        /\ Others(c) /\ chainQ' = chainQ /\ settling' = settling
    BY <1>1, <1>4 DEF SettleFund, Others
  <2>2. QED
    BY <1>1, <1>2, <2>1, StaysMove DEF Itself, CallState
<1>5. QED
  BY <1>1, <1>2, <1>3, <1>4

\* A new batch is the last of those built, and replaces one with its root.
SavesNew(c) ==
    LET n == Len(built) + 1
    IN  /\ DOMAIN built' = DOMAIN built \cup {n} /\ n \in Nat /\ n \notin DOMAIN built
        /\ \A o \in DOMAIN built : built'[o] = built[o]
        /\ built'[n] = [root |-> Root(call[c].hand), spends |-> call[c].spend,
                        status |-> "signed", queue |-> call[c].hand]
        /\ saved' = {p \in saved : built[p].root # Root(call[c].hand)} \cup {n}
        /\ index' = [h \in Hashes |-> IF h \in Leaves(Root(call[c].hand))
                                      THEN Root(call[c].hand) ELSE index[h]]

LEMMA SaveMove ==
    ASSUME IInv, NEW c \in Calls, SettleSave(c)
    PROVE  /\ UNCHANGED <<pending, pushes, settling, chain, requests>>
           /\ call[c].pc = "save" /\ InChain(c)
           /\ Itself(c) /\ Stays /\ SavesNew(c)
           /\ call'[c].pc = "clear" /\ call'[c].cur = Len(built) + 1
           /\ call'[c].own = TRUE /\ call'[c].todo = call[c].todo
           /\ call'[c].hand = call[c].hand
<1> DEFINE b == [root |-> Root(call[c].hand), spends |-> call[c].spend,
                 status |-> "signed", queue |-> call[c].hand]
           made == Append(built, b)
<1>1. /\ call \in [Calls -> CallState] /\ call[c] \in CallState
      /\ built \in Seq(Batch) /\ saved \in SUBSET DOMAIN built
  BY DEF IInv, TypeInv, TypeOK
<1>2. /\ call[c].pc = "save" /\ built' = made /\ SaveBatch(Len(made), made)
      /\ call' = [call EXCEPT ![c].pc = "clear", ![c].cur = Len(made), ![c].own = TRUE]
      /\ UNCHANGED <<pending, pushes, chainQ, settling, chain, requests>>
  BY DEF SettleSave
<1>3. InChain(c)
  BY <1>2, CallFacts DEF Active, Settling
<1>4. /\ DOMAIN built = 1..Len(built) /\ Len(built) \in Nat
      /\ Len(made) = Len(built) + 1 /\ DOMAIN made = 1..(Len(built) + 1)
      /\ made[Len(built) + 1] = b
      /\ \A o \in DOMAIN built : made[o] = built[o]
  BY <1>1
<1>5. SavesNew(c)
  <2>1. \A p \in saved : made[p].root = built[p].root
    BY <1>1, <1>4
  <2>2. made[Len(made)].root = Root(call[c].hand)
    BY <1>4
  <2>3. /\ saved' = {p \in saved : built[p].root # Root(call[c].hand)} \cup {Len(built) + 1}
        /\ index' = [h \in Hashes |-> IF h \in Leaves(Root(call[c].hand))
                                      THEN Root(call[c].hand) ELSE index[h]]
    BY <1>2, <1>4, <2>1, <2>2 DEF SaveBatch
  <2>4. /\ DOMAIN made = DOMAIN built \cup {Len(built) + 1}
        /\ Len(built) + 1 \in Nat /\ Len(built) + 1 \notin DOMAIN built
    BY <1>4
  <2> HIDE DEF b
  <2>5. QED
    BY <1>2, <1>4, <2>3, <2>4 DEF SavesNew, b
<1>6. /\ call'[c] = [call[c] EXCEPT !.pc = "clear", !.cur = Len(made), !.own = TRUE]
      /\ Others(c)
  BY <1>1, <1>2 DEF Others
<1>7. /\ Itself(c) /\ call'[c].pc = "clear" /\ call'[c].cur = Len(made)
      /\ call'[c].own = TRUE /\ call'[c].todo = call[c].todo
      /\ call'[c].hand = call[c].hand
  <2> HIDE DEF made
  <2>1. QED
    BY <1>1, <1>6 DEF Itself, CallState
<1>8. QED
  BY <1>2, <1>3, <1>4, <1>5, <1>7, StaysMove

LEMMA ClearMove ==
    ASSUME IInv, NEW c \in Calls, SettleClear(c)
    PROVE  /\ UNCHANGED <<built, saved, index, pushes, settling, chain, requests>>
           /\ pending' = {e \in pending : e.id \notin {f.id : f \in call[c].hand}}
           /\ call[c].pc = "clear" /\ InChain(c) /\ Itself(c) /\ Stays
           /\ call'[c].pc = "send" /\ call'[c].hand = {}
           /\ call'[c].cur = call[c].cur /\ call'[c].own = call[c].own
           /\ call'[c].todo = call[c].todo
<1>1. call \in [Calls -> CallState] /\ call[c] \in CallState
  BY DEF IInv, TypeInv, TypeOK
<1>2. /\ call[c].pc = "clear" /\ ClearPending({e.id : e \in call[c].hand})
      /\ UNCHANGED <<built, saved, index, pushes, chainQ, settling, chain, requests>>
      /\ call'[c] = [call[c] EXCEPT !.pc = "send", !.hand = {}] /\ Others(c)
  BY <1>1 DEF SettleClear, Others
<1>3. InChain(c)
  BY <1>2, CallFacts DEF Active, Settling
<1>4. QED
  BY <1>1, <1>2, <1>3, StaysMove DEF ClearPending, Itself, CallState

LEMMA NextMove ==
    ASSUME IInv, NEW c \in Calls, ResumeNext(c)
    PROVE  /\ UNCHANGED <<store, settling, chain, requests>> /\ Itself(c) /\ Stays
           /\ call[c].pc = "loop" /\ call'[c].pc = "send"
           /\ call'[c].cur \in call[c].todo
           /\ call'[c].todo = call[c].todo \ {call'[c].cur}
           /\ call'[c].own = call[c].own /\ call'[c].hand = call[c].hand
<1>1. call \in [Calls -> CallState] /\ call[c] \in CallState
  BY DEF IInv, TypeInv, TypeOK
<1>2. PICK o \in call[c].todo :
          call' = [call EXCEPT ![c].pc = "send", ![c].cur = o, ![c].todo = @ \ {o}]
  BY DEF ResumeNext
<1>3. /\ call'[c] = [call[c] EXCEPT !.pc = "send", !.cur = o, !.todo = @ \ {o}]
      /\ Others(c)
  BY <1>1, <1>2 DEF Others
<1>4. /\ UNCHANGED <<store, chainQ, settling, chain, requests>> /\ call[c].pc = "loop"
  BY DEF ResumeNext
<1>5. QED
  BY <1>1, <1>3, <1>4, StaysMove DEF Itself, CallState

LEMMA EndMove ==
    ASSUME IInv, NEW c \in Calls, ResumeEnd(c)
    PROVE  /\ UNCHANGED <<store, settling, chain, requests>> /\ Stays
           /\ call[c].pc = "loop" /\ call[c].todo = {}
           /\ GoesTo(c, IF InChain(c) THEN "check" ELSE "dueList")
BY GotoMove, StaysMove DEF ResumeEnd, IInv

LEMMA SendMove ==
    ASSUME IInv, NEW c \in Calls, BroadcastSend(c)
    PROVE  /\ UNCHANGED <<store, settling, requests>> /\ Itself(c) /\ Stays /\ Free
           /\ call[c].pc = "send" /\ call'[c].pc = "reply"
           /\ NodeAnswers(call[c].cur, call'[c].reply)
           /\ call'[c].cur = call[c].cur /\ call'[c].own = call[c].own
           /\ call'[c].todo = call[c].todo /\ call'[c].hand = call[c].hand
<1>1. call \in [Calls -> CallState] /\ call[c] \in CallState
  BY DEF IInv, TypeInv, TypeOK
<1>2. PICK r \in {"ok", "http", "net"} :
          /\ NodeAnswers(call[c].cur, r)
          /\ call' = [call EXCEPT ![c].pc = "reply", ![c].reply = r]
  BY DEF BroadcastSend
<1>3. call'[c] = [call[c] EXCEPT !.pc = "reply", !.reply = r] /\ Others(c)
  BY <1>1, <1>2 DEF Others
<1>4. /\ UNCHANGED <<store, chainQ, settling, requests>> /\ call[c].pc = "send" /\ Free
  BY DEF BroadcastSend
<1>5. call'[c].reply = r
  BY <1>1, <1>3 DEF CallState
<1>6. QED
  BY <1>1, <1>2, <1>3, <1>4, <1>5, StaysMove DEF Itself, CallState

LEMMA ReplyMove ==
    ASSUME IInv, NEW c \in Calls, BroadcastReply(c) \/ LookupFinds(c)
    PROVE  /\ UNCHANGED <<store, settling, chain, requests>> /\ Stays /\ Free
           /\ \/ /\ call[c].pc = "reply" /\ call[c].reply = "ok"
                 /\ GoesTo(c, "mark")
              \/ /\ call[c].pc = "reply" /\ call[c].reply # "ok"
                 /\ GoesTo(c, "lookup")
              \/ /\ call[c].pc = "lookup" /\ OnChain(call[c].cur)
                 /\ GoesTo(c, "mark")
<1>1. TypeInv
  BY DEF IInv
<1>2. CASE BroadcastReply(c)
  BY <1>1, <1>2, GotoMove, StaysMove DEF BroadcastReply
<1>3. CASE LookupFinds(c)
  BY <1>1, <1>3, GotoMove, StaysMove DEF LookupFinds
<1>4. QED
  BY <1>2, <1>3

\* What a broadcast that is over does with its call.
Over(c, ok) ==
    \/ /\ call[c].own /\ Quits(c) /\ settling' = (settling /\ call[c].op # "due")
       /\ \/ ok /\ call[c].op = "anchor" /\ GoesTo(c, "final")
          \/ Ends(c)
    \/ ~call[c].own /\ GoesTo(c, "loop") /\ Stays /\ settling' = settling

LEMMA MissMove ==
    ASSUME IInv, NEW c \in Calls, LookupMisses(c)
    PROVE  /\ UNCHANGED <<store, chain, requests>> /\ Free
           /\ call[c].pc = "lookup" /\ Unknown(call[c].cur)
           /\ \/ /\ call[c].reply = "http" /\ GoesTo(c, "delete") /\ Stays
                 /\ settling' = settling
              \/ call[c].reply # "http" /\ Over(c, FALSE)
<1>1. TypeInv
  BY DEF IInv
<1>2. /\ UNCHANGED <<store, chain, requests>> /\ Free
      /\ call[c].pc = "lookup" /\ Unknown(call[c].cur)
  BY DEF LookupMisses
<1>3. CASE call[c].reply = "http"
  BY <1>1, <1>2, <1>3, GotoMove, StaysMove DEF LookupMisses
<1>4. CASE call[c].reply # "http"
  BY <1>2, <1>4, BroadcastReturnsMove DEF LookupMisses, Over
<1>5. QED
  BY <1>2, <1>3, <1>4

LEMMA DeleteMove ==
    ASSUME IInv, NEW c \in Calls, BroadcastDelete(c)
    PROVE  /\ UNCHANGED <<pending, built, pushes, settling, chain, requests>> /\ Stays
           /\ call[c].pc = "delete" /\ GoesTo(c, "putBack")
           /\ saved' = {p \in saved : built[p].root # built[call[c].cur].root}
           /\ DeleteBatch(built[call[c].cur].root)
BY GotoMove, StaysMove DEF BroadcastDelete, DeleteBatch, IInv

LEMMA PutBackMove ==
    ASSUME IInv, NEW c \in Calls, BroadcastPutBack(c)
    PROVE  /\ UNCHANGED <<store, settling, chain, requests>> /\ Itself(c) /\ Stays
           /\ call[c].pc = "putBack" /\ call'[c].pc = "requeue"
           /\ call'[c].hand = built[call[c].cur].queue
           /\ call'[c].cur = call[c].cur /\ call'[c].own = call[c].own
           /\ call'[c].todo = call[c].todo
<1>1. call \in [Calls -> CallState] /\ call[c] \in CallState
  BY DEF IInv, TypeInv, TypeOK
<1>2. /\ UNCHANGED <<store, chainQ, settling, chain, requests>> /\ call[c].pc = "putBack"
      /\ call'[c] = [call[c] EXCEPT !.pc = "requeue", !.hand = built[call[c].cur].queue]
      /\ Others(c)
  BY <1>1 DEF BroadcastPutBack, ToPutBack, Others
<1>3. QED
  BY <1>1, <1>2, StaysMove DEF Itself, CallState

LEMMA RequeueMove ==
    ASSUME IInv, NEW c \in Calls, BroadcastRequeue(c)
    PROVE  /\ UNCHANGED <<built, saved, index, settling, chain, requests>>
           /\ Itself(c) /\ Stays
           /\ call[c].pc = "requeue" /\ call'[c].pc = "requeue"
           /\ call'[c].cur = call[c].cur /\ call'[c].own = call[c].own
           /\ call'[c].todo = call[c].todo
           /\ \E e \in call[c].hand : Push(e) /\ call'[c].hand = call[c].hand \ {e}
<1>1. call \in [Calls -> CallState] /\ call[c] \in CallState
  BY DEF IInv, TypeInv, TypeOK
<1>2. PICK e \in call[c].hand :
          Push(e) /\ call' = [call EXCEPT ![c].hand = @ \ {e}]
  BY DEF BroadcastRequeue
<1>3. /\ UNCHANGED <<built, saved, index, chainQ, settling, chain, requests>>
      /\ call[c].pc = "requeue"
  BY DEF BroadcastRequeue
<1>4. call'[c] = [call[c] EXCEPT !.hand = @ \ {e}] /\ Others(c)
  BY <1>1, <1>2 DEF Others
<1>5. /\ Itself(c) /\ call'[c].pc = call[c].pc /\ call'[c].cur = call[c].cur
      /\ call'[c].own = call[c].own /\ call'[c].todo = call[c].todo
      /\ call'[c].hand = call[c].hand \ {e}
  BY <1>1, <1>4 DEF Itself, CallState
<1>6. QED
  BY <1>2, <1>3, <1>5, StaysMove

LEMMA RejectedMove ==
    ASSUME IInv, NEW c \in Calls, BroadcastRejected(c)
    PROVE  /\ UNCHANGED <<store, chain, requests>> /\ Over(c, FALSE)
           /\ call[c].pc = "requeue" /\ call[c].hand = {}
BY BroadcastReturnsMove DEF BroadcastRejected, Over

\* A batch that the node has is rewritten: only its status, and perhaps its
\* part of the queue, is new.
Marks(o) ==
    /\ DOMAIN built' = DOMAIN built
    /\ \A p \in DOMAIN built : /\ built'[p].root = built[p].root
                               /\ built'[p].spends = built[p].spends
                               /\ built'[p].queue \in {built[p].queue, {}}
                               /\ p # o => built'[p] = built[p]
    /\ built'[o].status # "signed"
    /\ saved' = {p \in saved : built[p].root # built[o].root} \cup {o}
    /\ index' = [h \in Hashes |-> IF h \in Leaves(built[o].root)
                                  THEN built[o].root ELSE index[h]]

LEMMA Marking ==
    ASSUME IInv, NEW o \in DOMAIN built, NEW s, s # "signed",
           NEW q \in {built[o].queue, {}},
           built' = [built EXCEPT ![o].status = s, ![o].queue = q],
           SaveBatch(o, built')
    PROVE  Marks(o) /\ built'[o].queue = q
<1>1. /\ built \in Seq(Batch) /\ built[o] \in Batch /\ saved \in SUBSET DOMAIN built
  BY DEF IInv, TypeInv, TypeOK
<1>2. /\ DOMAIN built' = DOMAIN built
      /\ \A p \in DOMAIN built : p # o => built'[p] = built[p]
      /\ built'[o] = [built[o] EXCEPT !.status = s, !.queue = q]
  BY <1>1
<1>3. /\ built'[o].root = built[o].root /\ built'[o].spends = built[o].spends
      /\ built'[o].status = s /\ built'[o].queue = q
  BY <1>1, <1>2 DEF Batch
<1>4. \A p \in DOMAIN built : built'[p].root = built[p].root
  BY <1>2, <1>3
<1>5. /\ saved' = {p \in saved : built[p].root # built[o].root} \cup {o}
      /\ index' = [h \in Hashes |-> IF h \in Leaves(built[o].root)
                                    THEN built[o].root ELSE index[h]]
  BY <1>1, <1>4 DEF SaveBatch
<1>6. QED
  BY <1>2, <1>3, <1>4, <1>5 DEF Marks

LEMMA MarkMove ==
    ASSUME IInv, NEW c \in Calls, BroadcastMark(c)
    PROVE  /\ UNCHANGED <<pending, pushes, chain, requests>>
           /\ call[c].pc = "mark" /\ call[c].cur \in DOMAIN built
           /\ Marks(call[c].cur) /\ built'[call[c].cur].queue = {}
           /\ Over(c, TRUE)
<1> DEFINE o == call[c].cur
<1>1. /\ call[c].pc = "mark" /\ BroadcastReturns(c, TRUE)
      /\ built' = [built EXCEPT ![o].status = "broadcast", ![o].queue = {}]
      /\ SaveBatch(o, built') /\ UNCHANGED <<pending, pushes, chain, requests>>
  BY DEF BroadcastMark
<1>2. o \in DOMAIN built
  BY <1>1, CallFacts DEF HasBatch
<1>3. Marks(o) /\ built'[o].queue = {}
  <2> HIDE DEF o
  <2>1. QED
    BY <1>1, <1>2, Marking
<1>4. QED
  BY <1>1, <1>2, <1>3, BroadcastReturnsMove DEF Over

LEMMA DueMove ==
    ASSUME IInv, NEW c \in Calls, DueStep(c)
    PROVE  /\ UNCHANGED <<store, chain, requests>> /\ ~InChain(c)
           /\ call'[c].own = FALSE
           /\ \/ /\ call[c].pc = "rest" /\ ~settling /\ settling' = TRUE
                 /\ "due" \in Ops /\ Stays /\ Free
                 /\ Empty(c, "due", NoHash, 0, "dueSigned")
              \/ /\ call[c].pc = "dueSigned" /\ settling' = settling /\ Stays
                 /\ Itself(c) /\ call'[c].todo = SignedBatches
                 /\ call'[c].pc \in {"dueList", "loop"}
                 /\ call'[c].hand = call[c].hand
              \/ /\ call[c].pc = "dueList" /\ settling' = settling
                 /\ Joins(c) /\ GoesTo(c, "queued")
              \/ /\ call[c].pc = "dueList" /\ settling' = FALSE
                 /\ Stays /\ Ends(c)
<1>1. TypeInv /\ call \in [Calls -> CallState] /\ call[c] \in CallState
  BY DEF IInv, TypeInv, TypeOK
<1>2. ASSUME call[c].pc \in {"rest", "dueSigned", "dueList"}
      PROVE  ~InChain(c) /\ call[c].own = FALSE
  <2>1. ~InChain(c)
    BY <1>2, CallFacts DEF OutOfChain
  <2>2. QED
    BY <1>1, <1>2, <2>1, CallFacts DEF Active, CallState
<1>3. CASE StartDue(c)
  <2>1. /\ call[c].pc = "rest" /\ ~settling /\ settling' = TRUE /\ Free
        /\ "due" \in Ops /\ chainQ' = chainQ /\ UNCHANGED <<store, chain, requests>>
        /\ Empty(c, "due", NoHash, 0, "dueSigned")
    BY <1>1, <1>3, StartMove DEF StartDue
  <2>2. QED
    BY <1>2, <2>1, StaysMove DEF Empty
<1>4. CASE DueSigned(c)
  <2>1. PICK pc \in {"dueList", "loop"} :
            call' = [call EXCEPT ![c].pc = pc, ![c].todo = SignedBatches]
    BY <1>4 DEF DueSigned
  <2>2. /\ call[c].pc = "dueSigned" /\ chainQ' = chainQ /\ settling' = settling
        /\ UNCHANGED <<store, chain, requests>>
    BY <1>4 DEF DueSigned
  <2>3. /\ call'[c] = [call[c] EXCEPT !.pc = pc, !.todo = SignedBatches]
        /\ Others(c)
    BY <1>1, <2>1 DEF Others
  <2>4. /\ Itself(c) /\ call'[c].pc = pc /\ call'[c].todo = SignedBatches
        /\ call'[c].own = call[c].own /\ call'[c].hand = call[c].hand
    BY <1>1, <2>3 DEF Itself, CallState
  <2>5. QED
    BY <1>2, <2>2, <2>4, StaysMove
<1>5. CASE DueSettles(c)
  <2>1. /\ call[c].pc = "dueList" /\ settling' = settling
        /\ UNCHANGED <<store, chain, requests>>
        /\ Joins(c) /\ GoesTo(c, "queued")
    BY <1>1, <1>5, JoinsMove, GotoMove DEF DueSettles, JoinChain
  <2>2. QED
    BY <1>2, <2>1 DEF GoesTo
<1>6. CASE DueReturns(c)
  <2>1. /\ call[c].pc = "dueList" /\ settling' = FALSE
        /\ UNCHANGED <<store, chain, requests>>
        /\ Stays /\ Ends(c)
    BY <1>1, <1>6, StaysMove, FinishMove DEF DueReturns
  <2>2. QED
    BY <1>2, <2>1 DEF Ends, Empty
<1>7. QED
  BY <1>3, <1>4, <1>5, <1>6 DEF DueStep

LEMMA RefreshMove ==
    ASSUME IInv, NEW c \in Calls, RefreshStep(c)
    PROVE  /\ UNCHANGED <<pending, pushes, settling, chain, requests>>
           /\ ~InChain(c) /\ Stays /\ Free
           /\ \/ /\ UNCHANGED store /\ call[c].pc = "rest" /\ "refresh" \in Ops
                 /\ Empty(c, "refresh", NoHash, 0, "refetch")
                 /\ call'[c].cur \in saved
              \/ /\ call[c].pc = "refetch" /\ Ends(c) /\ OnChain(call[c].cur)
                 /\ call[c].cur \in DOMAIN built
                 /\ Marks(call[c].cur)
                 /\ built'[call[c].cur].queue = built[call[c].cur].queue
              \/ call[c].pc = "refetch" /\ Ends(c) /\ UNCHANGED store
<1>1. TypeInv /\ call \in [Calls -> CallState] /\ call[c] \in CallState
  BY DEF IInv, TypeInv, TypeOK
<1>2. call[c].pc \in {"rest", "refetch"} => ~InChain(c)
  BY CallFacts DEF OutOfChain
<1>3. CASE StartRefresh(c)
  <2> DEFINE fresh == Started("refresh", NoHash, 0, "refetch")
  <2>1. PICK o \in saved : call' = [call EXCEPT ![c] = [fresh EXCEPT !.cur = o]]
    BY <1>3 DEF StartRefresh
  <2>2. /\ "refresh" \in Ops /\ call[c].pc = "rest" /\ Free
        /\ UNCHANGED <<store, chainQ, settling, chain, requests>>
    BY <1>3 DEF StartRefresh
  <2>3. call'[c] = [fresh EXCEPT !.cur = o] /\ Others(c)
    BY <1>1, <2>1 DEF Others
  <2>4. /\ Empty(c, "refresh", NoHash, 0, "refetch") /\ call'[c].cur = o
    BY <2>3 DEF Empty, Started
  <2>5. QED
    BY <1>2, <2>2, <2>4, StaysMove DEF store
<1>4. CASE RefreshFound(c)
  <2> DEFINE o == call[c].cur
  <2>1. /\ call[c].pc = "refetch" /\ Free /\ OnChain(o) /\ Finish(c, "ok")
        /\ UNCHANGED <<pending, pushes, chainQ, settling, chain, requests>>
    BY <1>4 DEF RefreshFound
  <2>2. PICK status \in {"pending", "confirmed"} :
            /\ built' = [built EXCEPT ![o].status = status]
            /\ SaveBatch(o, [built EXCEPT ![o].status = status])
    BY <1>4 DEF RefreshFound
  <2>3. o \in DOMAIN built
    BY <2>1, CallFacts DEF HasBatch
  <2>4. built' = [built EXCEPT ![o].status = status, ![o].queue = built[o].queue]
    <3>1. built \in Seq(Batch) /\ built[o] \in Batch
      BY <2>3 DEF IInv, TypeInv, TypeOK
    <3>2. [built[o] EXCEPT !.status = status]
            = [built[o] EXCEPT !.status = status, !.queue = built[o].queue]
      BY <3>1 DEF Batch
    <3>3. QED
      BY <2>2, <3>1, <3>2
  <2>5. Marks(o) /\ built'[o].queue = built[o].queue
    <3>1. status # "signed" /\ SaveBatch(o, built')
      BY <2>2
    <3> HIDE DEF o
    <3>2. QED
      BY <2>3, <2>4, <3>1, Marking
  <2>6. Ends(c)
    BY <1>1, <2>1, FinishMove
  <2>7. QED
    BY <1>2, <2>1, <2>3, <2>5, <2>6, StaysMove
<1>5. CASE RefreshNothing(c)
  <2>1. /\ call[c].pc = "refetch" /\ Free /\ Ends(c) /\ Stays
        /\ UNCHANGED <<store, settling, chain, requests>>
    BY <1>1, <1>5, FinishMove, StaysMove DEF RefreshNothing
  <2>2. QED
    BY <1>2, <2>1 DEF store
<1>6. QED
  BY <1>3, <1>4, <1>5 DEF RefreshStep

\* The steps of one call, by what they do.
LEMMA CallSteps ==
    ASSUME NEW c \in Calls,
           \/ AddStep(c) \/ SettleStep(c) \/ BroadcastStep(c)
           \/ DueStep(c) \/ RefreshStep(c)
    PROVE  \/ AddStep(c) \/ StartSettle(c)
           \/ SettleBegin(c) \/ SettleCheck(c) \/ SettleTake(c)
           \/ SettleFund(c) \/ SettleFundFails(c)
           \/ SettleSave(c) \/ SettleClear(c)
           \/ ResumeNext(c) \/ ResumeEnd(c) \/ BroadcastSend(c)
           \/ BroadcastReply(c) \/ LookupFinds(c) \/ LookupMisses(c)
           \/ BroadcastDelete(c) \/ BroadcastPutBack(c) \/ BroadcastRequeue(c)
           \/ BroadcastRejected(c) \/ BroadcastMark(c)
           \/ DueStep(c) \/ RefreshStep(c)
BY DEF SettleStep, BroadcastStep

\* A step is one call's, and leaves the others alone.
LEMMA OnlyOne ==
    ASSUME IInv, NEW c \in Calls,
           \/ AddStep(c) \/ SettleStep(c) \/ BroadcastStep(c)
           \/ DueStep(c) \/ RefreshStep(c)
    PROVE  Others(c)
<1> USE DEF Over, Itself, GoesTo, Ends, Empty
<1>1. CASE AddStep(c) \/ StartSettle(c)
  BY <1>1, AskMove
<1>2. CASE SettleBegin(c) \/ SettleCheck(c) \/ SettleTake(c) \/ SettleFund(c)
           \/ SettleFundFails(c) \/ SettleSave(c) \/ SettleClear(c)
  BY ZenonT(60), <1>2, BeginMove, CheckMove, TakeMove, FundMove, SaveMove, ClearMove
<1>3. CASE ResumeNext(c) \/ ResumeEnd(c) \/ BroadcastSend(c) \/ BroadcastReply(c)
           \/ LookupFinds(c) \/ LookupMisses(c)
  BY <1>3, NextMove, EndMove, SendMove, ReplyMove, MissMove
<1>4. CASE BroadcastDelete(c) \/ BroadcastPutBack(c) \/ BroadcastRequeue(c)
           \/ BroadcastRejected(c) \/ BroadcastMark(c)
  BY <1>4, DeleteMove, PutBackMove, RequeueMove, RejectedMove, MarkMove
<1>5. CASE DueStep(c) \/ RefreshStep(c)
  BY <1>5, DueMove, RefreshMove
<1>6. QED
  BY <1>1, <1>2, <1>3, <1>4, <1>5, CallSteps

-----------------------------------------------------------------------------
(* The node and the statuses.  This part needs nothing of the constants.   *)

Confirms(c) == \/ call[c].pc = "mark"
               \/ call[c].pc = "reply" /\ call[c].reply = "ok"

\* The places of a call that sends a batch.
Sending == {"send", "reply", "lookup", "delete", "putBack", "requeue", "mark"}

NodeInv ==
    /\ \A o \in DOMAIN built : built[o].status # "signed" => OnChain(o)
    /\ \A c \in Calls : Confirms(c) => OnChain(call[c].cur)
    /\ \A o, p \in saved : built[o].root = built[p].root => o = p
    /\ \A c \in Calls : call[c].own /\ call[c].pc # "final"
                           => SignedBatches \subseteq {call[c].cur}
    /\ \A c \in Calls : call[c].pc = "final" => call[c].op = "anchor"
    /\ \A c \in Calls : call[c].op = "anchor" => call[c].hash \in Hashes
    /\ \A c \in Calls : call[c].pc # "rest" => call[c].out = "none"
    /\ \A c \in Calls : call[c].own => call[c].pc \in Sending \cup {"clear", "final"}

\* A call returns from its settlement to anchorNow only when nothing signed is
\* left unsent, and with the stores of store.js none can be signed before it
\* looks its hash up.
FinalInv ==
    \A c \in Calls : call[c].pc = "final"
        => SignedBatches = {} /\ \A d \in Calls : call[d].pc # "save"

\* What the node has it keeps, and a batch keeps its transaction.
LEMMA ChainGrows ==
    ASSUME IInv, NEW o \in DOMAIN built, OnChain(o),
           built'[o].root = built[o].root, built'[o].spends = built[o].spends,
           NEW root, chain' = chain \/ chain' = Append(chain, root)
    PROVE  OnChain(o)'
<1>1. chain \in Seq(Roots) /\ built[o] \in Batch
  BY DEF IInv, TypeInv, TypeOK
<1>2. built[o].spends \in Nat
  BY <1>1 DEF Batch
<1>3. QED
  BY <1>1, <1>2 DEF OnChain

LEMMA SameOnChain ==
    ASSUME UNCHANGED <<built, chain>>, NEW o
    PROVE  OnChain(o)' <=> OnChain(o)
BY DEF OnChain

LEMMA SameSigned ==
    ASSUME UNCHANGED <<built, saved>>
    PROVE  SignedBatches' = SignedBatches
BY DEF SignedBatches

\* A call moves and the batches and the chain stay.
LEMMA NodeStill ==
    ASSUME IInv, NodeInv, NEW c \in Calls, UNCHANGED <<built, saved, chain>>, Others(c),
           Confirms(c)' => OnChain(call'[c].cur),
           call'[c].own /\ call'[c].pc # "final" => SignedBatches \subseteq {call'[c].cur},
           call'[c].pc = "final" => call'[c].op = "anchor",
           call'[c].op = "anchor" => call'[c].hash \in Hashes,
           call'[c].pc # "rest" => call'[c].out = "none",
           call'[c].own => call'[c].pc \in Sending \cup {"clear", "final"}
    PROVE  NodeInv'
<1>1. SignedBatches' = SignedBatches
  BY SameSigned
<1>2. \A d \in Calls : d = c \/ call'[d] = call[d]
  BY DEF Others
<1>3. ASSUME NEW d \in Calls, Confirms(d)'
      PROVE  OnChain(call[d].cur)'
  <2>1. OnChain(call'[d].cur)
    BY <1>2, <1>3 DEF NodeInv, Confirms
  <2>2. QED
    BY <2>1 DEF OnChain
<1>4. \A o \in DOMAIN built' : built'[o].status # "signed" => OnChain(o)'
  BY DEF NodeInv, OnChain
<1>5. \A o, p \in saved' : built'[o].root = built'[p].root => o = p
  BY DEF NodeInv
<1>6. QED
  BY <1>1, <1>2, <1>3, <1>4, <1>5 DEF NodeInv

\* A batch is rewritten and its call moves; no other is signed thereby.
LEMMA NodeMarks ==
    ASSUME IInv, NodeInv, NEW c \in Calls, NEW o \in DOMAIN built, Marks(o), OnChain(o),
           chain' = chain, Others(c), ~Confirms(c)', call[c].pc \in {"mark", "refetch"},
           call'[c].own /\ call'[c].pc # "final" => call[c].own /\ call'[c].cur = call[c].cur,
           call'[c].pc = "final" => call'[c].op = "anchor",
           call'[c].op = "anchor" => call'[c].hash \in Hashes,
           call'[c].pc # "rest" => call'[c].out = "none",
           call'[c].own => call'[c].pc \in Sending \cup {"clear", "final"}
    PROVE  NodeInv' /\ SignedBatches' \subseteq SignedBatches \ {o}
<1>1. \A p \in DOMAIN built : OnChain(p) => OnChain(p)'
  BY DEF OnChain, Marks
<1>2. /\ saved \subseteq DOMAIN built /\ saved' \subseteq saved \cup {o}
      /\ \A p \in DOMAIN built : p # o => built'[p] = built[p]
  BY DEF Marks, IInv, TypeInv, TypeOK
<1>3. SignedBatches' \subseteq SignedBatches \ {o}
  BY <1>2 DEF SignedBatches, Marks
<1>4. \A d \in Calls : d = c \/ call'[d] = call[d]
  BY DEF Others
<1>5. ASSUME NEW d \in Calls, Confirms(d)'
      PROVE  OnChain(call[d].cur)'
  <2>1. call'[d] = call[d] /\ Confirms(d)
    BY <1>4, <1>5 DEF Confirms
  <2>2. OnChain(call[d].cur) /\ call[d].cur \in DOMAIN built
    BY <2>1, CallFacts DEF NodeInv, Confirms, HasBatch
  <2>3. QED
    BY <1>1, <2>1, <2>2 DEF OnChain
<1>6. \A p \in DOMAIN built' : built'[p].status # "signed" => OnChain(p)'
  BY <1>1 DEF NodeInv, Marks
<1>7. \A p, q \in saved' : built'[p].root = built'[q].root => p = q
  BY <1>2 DEF NodeInv, Marks
<1>8. \A d \in Calls : call'[d].own /\ call'[d].pc # "final"
                          => SignedBatches' \subseteq {call'[d].cur}
  <2>1. ASSUME NEW d \in Calls, call'[d].own, call'[d].pc # "final"
        PROVE  SignedBatches \subseteq {call'[d].cur}
    <3>1. call[d].own /\ call[d].cur = call'[d].cur
      BY <1>4, <2>1
    <3>2. call[d].pc # "final"
      BY <1>4, <2>1
    <3>3. QED
      BY <3>1, <3>2 DEF NodeInv
  <2>2. QED
    BY <1>3, <2>1
<1>9. QED
  BY <1>3, <1>4, <1>5, <1>6, <1>7, <1>8 DEF NodeInv

\* One call steps, by any action but the save of a new batch, the removal of
\* one and the answer of the node.
LEMMA NodeCall ==
    ASSUME IInv, NodeInv, NEW c \in Calls,
           \/ AddStep(c) \/ StartSettle(c)
           \/ SettleBegin(c) \/ SettleCheck(c) \/ SettleTake(c)
           \/ SettleFund(c) \/ SettleFundFails(c) \/ SettleClear(c)
           \/ ResumeNext(c) \/ ResumeEnd(c)
           \/ BroadcastReply(c) \/ LookupFinds(c) \/ LookupMisses(c)
           \/ BroadcastPutBack(c) \/ BroadcastRequeue(c) \/ BroadcastRejected(c)
           \/ DueStep(c)
    PROVE  NodeInv'
<1> DEFINE After == /\ UNCHANGED <<built, saved, chain>> /\ Others(c)
                    /\ Confirms(c)' => OnChain(call'[c].cur)
                    /\ call'[c].own /\ call'[c].pc # "final"
                          => SignedBatches \subseteq {call'[c].cur}
                    /\ call'[c].pc = "final" => call'[c].op = "anchor"
                    /\ call'[c].op = "anchor" => call'[c].hash \in Hashes
                    /\ call'[c].pc # "rest" => call'[c].out = "none"
                    /\ call'[c].own => call'[c].pc \in Sending \cup {"clear", "final"}
<1>1. /\ Confirms(c) => OnChain(call[c].cur)
      /\ call[c].own /\ call[c].pc # "final" => SignedBatches \subseteq {call[c].cur}
      /\ call[c].op = "anchor" => call[c].hash \in Hashes
      /\ call[c].pc # "rest" => call[c].out = "none"
      /\ call[c].own => call[c].pc \in Sending \cup {"clear", "final"}
  BY DEF NodeInv
<1> USE DEF Confirms, Sending
<1>2. CASE AddStep(c) \/ StartSettle(c)
  <2>1. CASE call[c].pc = "rest"
    <3>1. After
      BY <1>1, <1>2, <2>1, AskMove DEF Asking
    <3>2. QED
      BY <3>1, NodeStill
  <2>2. CASE call[c].pc # "rest"
    <3>1. After
      BY <1>1, <1>2, <2>2, AskMove DEF Asking
    <3>2. QED
      BY <3>1, NodeStill
  <2>3. QED
    BY <2>1, <2>2
<1>3. CASE SettleBegin(c) \/ SettleClear(c)
  <2>1. After
    BY <1>1, <1>3, BeginMove, ClearMove DEF Itself, store
  <2>2. QED
    BY <2>1, NodeStill
<1>10. CASE SettleTake(c)
  <2>1. After
    BY ZenonT(60), <1>1, <1>10, TakeMove DEF Itself, GoesTo, Ends, Empty, store
  <2>2. QED
    BY <2>1, NodeStill
<1>4. CASE SettleCheck(c) \/ SettleFund(c) \/ SettleFundFails(c)
  <2>1. After
    BY <1>1, <1>4, CheckMove, FundMove DEF Itself, GoesTo, Ends, Empty, store
  <2>2. QED
    BY <2>1, NodeStill
<1>5. CASE ResumeNext(c) \/ ResumeEnd(c)
  <2>1. After
    BY <1>1, <1>5, NextMove, EndMove DEF Itself, GoesTo, store
  <2>2. QED
    BY <2>1, NodeStill
<1>6. CASE BroadcastReply(c) \/ LookupFinds(c) \/ LookupMisses(c)
  <2>1. After
    BY ZenonT(60), <1>1, <1>6, ReplyMove, MissMove DEF Over, GoesTo, Ends, Empty, store
  <2>2. QED
    BY <2>1, NodeStill
<1>7. CASE BroadcastPutBack(c) \/ BroadcastRequeue(c) \/ BroadcastRejected(c)
  <2>1. After
    BY ZenonT(60), <1>1, <1>7, PutBackMove, RequeueMove, RejectedMove
       DEF Over, Itself, GoesTo, Ends, Empty, store
  <2>2. QED
    BY <2>1, NodeStill
<1>8. CASE DueStep(c)
  <2>1. After
    BY <1>1, <1>8, DueMove DEF Itself, GoesTo, Ends, Empty, store
  <2>2. QED
    BY <2>1, NodeStill
<1>9. QED
  BY <1>2, <1>3, <1>4, <1>5, <1>6, <1>7, <1>8, <1>10

\* The node answers: it takes the transaction or it does not.
LEMMA Answers ==
    ASSUME IInv, NEW o \in DOMAIN built, NEW r, NodeAnswers(o, r), built' = built
    PROVE  /\ \/ chain' = chain
              \/ Acceptable(o) /\ chain' = Append(chain, built[o].root) /\ OnChain(o)'
           /\ \A p \in DOMAIN built : OnChain(p) => OnChain(p)'
           /\ r = "ok" => OnChain(o)'
           /\ r = "http" => HttpErrors \/ ~Acceptable(o)
           /\ r \in {"ok", "http", "net"}
<1>1. chain \in Seq(Roots) /\ built[o] \in Batch
  BY DEF IInv, TypeInv, TypeOK
<1>2. built[o].spends \in Nat
  BY <1>1 DEF Batch
<1>3. PICK taken \in BOOLEAN :
          /\ taken => Acceptable(o)
          /\ chain' = IF taken THEN Append(chain, built[o].root) ELSE chain
          /\ r = "ok"   => taken \/ OnChain(o)
          /\ r = "http" => HttpErrors \/ ~Acceptable(o)
          /\ r \in {"ok", "http", "net"}
  BY DEF NodeAnswers
<1>4. \A p \in DOMAIN built : OnChain(p) => OnChain(p)'
  BY <1>3, ChainGrows
<1>5. CASE taken
  <2>1. OnChain(o)'
    BY <1>1, <1>2, <1>3, <1>5 DEF OnChain, Acceptable
  <2>2. QED
    BY <1>3, <1>4, <1>5, <2>1
<1>6. CASE ~taken
  BY <1>3, <1>4, <1>6
<1>7. QED
  BY <1>5, <1>6

LEMMA NodeSend ==
    ASSUME IInv, NodeInv, NEW c \in Calls, BroadcastSend(c)
    PROVE  NodeInv'
<1>o. PICK o : o = call[c].cur
  OBVIOUS
<1>r. PICK r : r = call'[c].reply
  OBVIOUS
<1>1. /\ UNCHANGED <<built, saved>> /\ Others(c) /\ call[c].pc = "send"
      /\ call'[c].pc = "reply" /\ call'[c].cur = o /\ call'[c].own = call[c].own
      /\ call'[c].op = call[c].op /\ call'[c].hash = call[c].hash
      /\ call'[c].out = call[c].out /\ NodeAnswers(o, r)
  BY <1>o, <1>r, SendMove DEF Itself, store
<1>2. o \in DOMAIN built
  BY <1>o, <1>1, CallFacts DEF HasBatch
<1>3. /\ \A p \in DOMAIN built : OnChain(p) => OnChain(p)'
      /\ r = "ok" => OnChain(o)'
  BY <1>1, <1>2, Answers
<1>4. \A d \in Calls : d = c \/ call'[d] = call[d]
  BY <1>1 DEF Others
<1>5. ASSUME NEW d \in Calls, Confirms(d)'
      PROVE  OnChain(call[d].cur)'
  <2>1. CASE d = c
    <3>1. OnChain(o)'
      BY <1>1, <1>3, <1>5, <1>r, <2>1 DEF Confirms
    <3>2. QED
      BY <1>1, <2>1, <3>1 DEF OnChain
  <2>2. CASE d # c
    <3>1. call'[d] = call[d] /\ Confirms(d)
      BY <1>4, <1>5, <2>2 DEF Confirms
    <3>2. OnChain(call[d].cur) /\ call[d].cur \in DOMAIN built
      BY <3>1, CallFacts DEF NodeInv, Confirms, HasBatch
    <3>3. QED
      BY <1>3, <3>1, <3>2 DEF OnChain
  <2>3. QED
    BY <2>1, <2>2
<1>6. SignedBatches' = SignedBatches
  BY <1>1, SameSigned
<1>7. \A p \in DOMAIN built' : built'[p].status # "signed" => OnChain(p)'
  BY <1>1, <1>3 DEF NodeInv
<1>8. \A p, q \in saved' : built'[p].root = built'[q].root => p = q
  BY <1>1 DEF NodeInv
<1>9. QED
  <2>1. /\ \A d \in Calls : call'[d].own /\ call'[d].pc # "final"
                                => SignedBatches' \subseteq {call'[d].cur}
        /\ \A d \in Calls : call'[d].pc = "final" => call'[d].op = "anchor"
        /\ \A d \in Calls : call'[d].op = "anchor" => call'[d].hash \in Hashes
        /\ \A d \in Calls : call'[d].pc # "rest" => call'[d].out = "none"
        /\ \A d \in Calls : call'[d].own => call'[d].pc \in Sending \cup {"clear", "final"}
    BY <1>o, <1>1, <1>4, <1>6 DEF NodeInv, Sending
  <2>2. QED
    BY <1>5, <1>7, <1>8, <2>1 DEF NodeInv

LEMMA NodeDelete ==
    ASSUME IInv, NodeInv, NEW c \in Calls, BroadcastDelete(c)
    PROVE  NodeInv'
<1>1. /\ UNCHANGED <<built, chain>> /\ saved' \subseteq saved /\ GoesTo(c, "putBack")
      /\ call[c].pc = "delete"
  BY DeleteMove
<1>2. /\ \A d \in Calls : d = c \/ call'[d] = call[d]
      /\ SignedBatches' \subseteq SignedBatches
  BY <1>1 DEF GoesTo, Others, SignedBatches
<1>3. \A d \in Calls : Confirms(d)' => OnChain(call[d].cur)'
  BY <1>1, <1>2 DEF NodeInv, Confirms, GoesTo, OnChain
<1>4. \A p \in DOMAIN built' : built'[p].status # "signed" => OnChain(p)'
  BY <1>1 DEF NodeInv, OnChain
<1>5. /\ \A d \in Calls : call'[d].own /\ call'[d].pc # "final"
                              => SignedBatches' \subseteq {call'[d].cur}
      /\ \A d \in Calls : call'[d].pc = "final" => call'[d].op = "anchor"
      /\ \A d \in Calls : call'[d].op = "anchor" => call'[d].hash \in Hashes
      /\ \A d \in Calls : call'[d].pc # "rest" => call'[d].out = "none"
      /\ \A d \in Calls : call'[d].own => call'[d].pc \in Sending \cup {"clear", "final"}
  BY <1>1, <1>2 DEF NodeInv, GoesTo, Sending
<1>6. QED
  BY <1>1, <1>3, <1>4, <1>5 DEF NodeInv

LEMMA NodeSave ==
    ASSUME IInv, NodeInv, NEW c \in Calls, SettleSave(c)
    PROVE  NodeInv' /\ SignedBatches' = {Len(built) + 1}
<1> DEFINE n == Len(built) + 1
<1>1. /\ chain' = chain /\ SavesNew(c) /\ Itself(c) /\ call[c].pc = "save"
      /\ call'[c].pc = "clear" /\ call'[c].cur = n /\ call'[c].own = TRUE
  BY SaveMove
<1>2. /\ DOMAIN built' = DOMAIN built \cup {n} /\ n \notin DOMAIN built
      /\ \A o \in DOMAIN built : built'[o] = built[o]
      /\ built'[n].status = "signed" /\ built'[n].root = Root(call[c].hand)
      /\ saved' = {p \in saved : built[p].root # Root(call[c].hand)} \cup {n}
      /\ saved \subseteq DOMAIN built
  BY <1>1 DEF SavesNew, IInv, TypeInv, TypeOK
<1> HIDE DEF n
<1>3. SignedBatches = {}
  BY <1>1 DEF IInv, SignInv
<1>4. SignedBatches' = {n}
  BY <1>2, <1>3 DEF SignedBatches
<1>5. \A d \in Calls : d = c \/ call'[d] = call[d]
  BY <1>1 DEF Itself, Others
<1>6. \A o \in DOMAIN built : OnChain(o) <=> OnChain(o)'
  BY <1>1, <1>2 DEF OnChain
<1>7. ASSUME NEW d \in Calls, Confirms(d)'
      PROVE  OnChain(call[d].cur)'
  <2>1. call'[d] = call[d] /\ Confirms(d)
    BY <1>1, <1>5, <1>7 DEF Confirms
  <2>2. OnChain(call[d].cur) /\ call[d].cur \in DOMAIN built
    BY <2>1, CallFacts DEF NodeInv, Confirms, HasBatch
  <2>3. QED
    BY <1>6, <2>1, <2>2 DEF OnChain
<1>8. \A p \in DOMAIN built' : built'[p].status # "signed" => OnChain(p)'
  BY <1>2, <1>6 DEF NodeInv
<1>9. \A p, q \in saved' : built'[p].root = built'[q].root => p = q
  BY <1>2 DEF NodeInv
<1>10. ASSUME NEW d \in Calls, call'[d].own, call'[d].pc # "final"
       PROVE  call'[d].cur = n
  <2>1. ASSUME d # c PROVE Active(d) /\ Active(c)
    BY <1>1, <1>5, <1>10, <2>1 DEF Active, Settling
  <2>2. QED
    BY <1>1, <2>1, CallFacts
<1>11. /\ \A d \in Calls : call'[d].pc = "final" => call'[d].op = "anchor"
       /\ \A d \in Calls : call'[d].op = "anchor" => call'[d].hash \in Hashes
       /\ \A d \in Calls : call'[d].pc # "rest" => call'[d].out = "none"
       /\ \A d \in Calls : call'[d].own => call'[d].pc \in Sending \cup {"clear", "final"}
  BY <1>1, <1>5 DEF NodeInv, Itself, Sending
<1>12. QED
  BY <1>4, <1>7, <1>8, <1>9, <1>10, <1>11 DEF NodeInv, n

LEMMA NodeMark ==
    ASSUME IInv, NodeInv, NEW c \in Calls, BroadcastMark(c)
    PROVE  NodeInv' /\ SignedBatches' \subseteq SignedBatches \ {call[c].cur}
<1>o. PICK o : o = call[c].cur
  OBVIOUS
<1>1. /\ chain' = chain /\ call[c].pc = "mark" /\ o \in DOMAIN built /\ Marks(o)
      /\ Over(c, TRUE)
  BY <1>o, MarkMove
<1>2. OnChain(o)
  BY <1>o, <1>1 DEF NodeInv, Confirms
<1>3. /\ call[c].op = "anchor" => call[c].hash \in Hashes
      /\ call[c].pc # "rest" => call[c].out = "none"
  BY DEF NodeInv
<1>4. /\ Others(c) /\ ~Confirms(c)'
      /\ call'[c].own /\ call'[c].pc # "final" => call[c].own /\ call'[c].cur = call[c].cur
      /\ call'[c].pc = "final" => call'[c].op = "anchor"
      /\ call'[c].op = "anchor" => call'[c].hash \in Hashes
      /\ call'[c].pc # "rest" => call'[c].out = "none"
      /\ call'[c].own => call'[c].pc \in Sending \cup {"clear", "final"}
  BY <1>1, <1>3 DEF Over, GoesTo, Ends, Empty, Confirms
<1>5. QED
  BY <1>o, <1>1, <1>2, <1>4, NodeMarks

LEMMA NodeRefresh ==
    ASSUME IInv, NodeInv, NEW c \in Calls, RefreshStep(c)
    PROVE  NodeInv' /\ SignedBatches' \subseteq SignedBatches
<1>o. PICK o : o = call[c].cur
  OBVIOUS
<1>1. /\ chain' = chain /\ Others(c) /\ ~Confirms(c)' /\ call'[c].own = FALSE
      /\ call'[c].pc # "final" /\ call'[c].op # "anchor"
      /\ call'[c].pc # "rest" => call'[c].out = "none"
  BY RefreshMove DEF Ends, Empty, Confirms
<1>2. CASE UNCHANGED store
  BY <1>1, <1>2, NodeStill, SameSigned DEF store
<1>3. CASE ~UNCHANGED store
  <2>1. call[c].pc = "refetch" /\ o \in DOMAIN built /\ Marks(o) /\ OnChain(o)
    BY <1>o, <1>3, RefreshMove
  <2>2. QED
    BY <1>1, <2>1, NodeMarks
<1>4. QED
  BY <1>2, <1>3

LEMMA NodeCrash ==
    ASSUME IInv, NodeInv, Crash
    PROVE  NodeInv'
<1>1. /\ UNCHANGED <<built, saved, chain>>
      /\ \A c \in Calls : call'[c] = Rest("none")
  BY DEF Crash
<1>2. \A c \in Calls : /\ call'[c].pc = "rest" /\ call'[c].op = "none"
                       /\ call'[c].own = FALSE
  BY <1>1 DEF Rest, Started
<1>3. QED
  BY <1>1, <1>2 DEF NodeInv, Confirms, OnChain

LEMMA NodeNext ==
    ASSUME IInv, NodeInv, [Next]_vars
    PROVE  NodeInv'
<1>1. CASE UNCHANGED vars
  BY <1>1 DEF vars, NodeInv, Confirms, OnChain, SignedBatches
<1>2. ASSUME NEW c \in Calls,
             \/ AddStep(c) \/ SettleStep(c) \/ BroadcastStep(c)
             \/ DueStep(c) \/ RefreshStep(c)
      PROVE  NodeInv'
  BY <1>2, CallSteps, NodeCall, NodeSend, NodeDelete, NodeSave, NodeMark, NodeRefresh
<1>3. CASE Crash
  BY <1>3, NodeCrash
<1>4. QED
  BY <1>1, <1>2, <1>3 DEF Next

LEMMA NodeInit ==
    ASSUME Init
    PROVE  NodeInv
<1>1. /\ built = <<>> /\ saved = {} /\ SignedBatches = {}
      /\ \A c \in Calls : call[c] = Rest("none")
  BY DEF Init, SignedBatches
<1>2. \A c \in Calls : /\ call[c].pc = "rest" /\ call[c].op = "none"
                       /\ call[c].own = FALSE
  BY <1>1 DEF Rest, Started
<1>3. QED
  BY <1>1, <1>2 DEF NodeInv, Confirms

-----------------------------------------------------------------------------
(* The proofs anchorNow returns.                                           *)

LEMMA FinalStill ==
    ASSUME FinalInv, NEW c \in Calls, Others(c), call'[c].pc \notin {"final", "save"},
           SignedBatches' \subseteq SignedBatches
    PROVE  FinalInv'
BY DEF FinalInv, Others

\* The settlement in front returns, and with it nothing is signed.
LEMMA FinalReturns ==
    ASSUME IInv, NEW c \in Calls, Active(c), Others(c), call'[c].pc # "save",
           SignedBatches' = {}
    PROVE  FinalInv'
<1>1. ASSUME NEW d \in Calls, d # c PROVE call'[d].pc # "save"
  <2>1. SUFFICES ASSUME call'[d].pc = "save" PROVE FALSE
    OBVIOUS
  <2>2. Active(d)
    BY <1>1, <2>1 DEF Others, Active, Settling
  <2>3. QED
    BY <1>1, <2>2, CallFacts
<1>2. QED
  BY <1>1 DEF FinalInv

LEMMA FinalCall ==
    ASSUME IInv, NodeInv, FinalInv, ~StoreYields, NEW c \in Calls,
           \/ AddStep(c) \/ SettleStep(c) \/ BroadcastStep(c)
           \/ DueStep(c) \/ RefreshStep(c)
    PROVE  FinalInv'
<1> DEFINE Still == /\ Others(c) /\ call'[c].pc \notin {"final", "save"}
                    /\ SignedBatches' \subseteq SignedBatches
<1>1. CASE AddStep(c) \/ StartSettle(c)
  <2>1. Still
    BY <1>1, AskMove, SameSigned DEF Asking
  <2>2. QED
    BY <2>1, FinalStill
<1>2. CASE SettleBegin(c) \/ SettleClear(c)
  <2>1. Still
    BY <1>2, BeginMove, ClearMove, SameSigned DEF Itself, store
  <2>2. QED
    BY <2>1, FinalStill
<1>3. CASE SettleCheck(c)
  <2>1. Still
    BY <1>3, CheckMove, SameSigned DEF GoesTo, Ends, Empty, store
  <2>2. QED
    BY <2>1, FinalStill
<1>4. CASE SettleTake(c)
  <2>1. call[c].pc = "take" /\ Active(c)
    BY <1>4, TakeMove DEF Active, Settling
  <2>2. SignedBatches' = {}
    BY <1>4, <2>1, TakeMove, SameSigned DEF store, IInv, SignInv
  <2>3. Others(c) /\ call'[c].pc # "save"
    BY <1>4, TakeMove DEF Itself, GoesTo, Ends, Empty
  <2>4. QED
    BY <2>1, <2>2, <2>3, FinalReturns
<1>5. CASE SettleFund(c) \/ SettleFundFails(c)
  <2>1. Free /\ call[c].pc = "fund" /\ Others(c) /\ call'[c].pc \in {"save", "rest"}
    BY <1>5, FundMove DEF Itself, Ends, Empty
  <2>2. \A d \in Calls : call[d].pc # "final"
    BY <2>1, FreeIsQuiet DEF Waiting
  <2>3. \A d \in Calls : call'[d].pc # "final"
    BY <2>1, <2>2 DEF Others
  <2>4. QED
    BY <2>3 DEF FinalInv
<1>6. CASE SettleSave(c)
  <2>1. call[c].pc = "save" /\ Others(c) /\ call'[c].pc = "clear"
    BY <1>6, SaveMove DEF Itself
  <2>2. \A d \in Calls : call'[d].pc # "final"
    BY <2>1 DEF FinalInv, Others
  <2>3. QED
    BY <2>2 DEF FinalInv
<1>7. CASE ResumeNext(c) \/ ResumeEnd(c) \/ BroadcastSend(c) \/ BroadcastReply(c)
           \/ LookupFinds(c)
  <2>1. UNCHANGED <<built, saved>> /\ Others(c) /\ call'[c].pc \notin {"final", "save"}
    BY <1>7, NextMove, EndMove, SendMove, ReplyMove DEF Itself, GoesTo, store
  <2>2. QED
    BY <2>1, SameSigned, FinalStill
<1>8. CASE LookupMisses(c) \/ BroadcastRejected(c)
  <2>1. UNCHANGED <<built, saved>> /\ Others(c) /\ call'[c].pc \notin {"final", "save"}
    BY <1>8, MissMove, RejectedMove DEF Over, GoesTo, Ends, Empty, store
  <2>2. QED
    BY <2>1, SameSigned, FinalStill
<1>9. CASE BroadcastDelete(c) \/ BroadcastPutBack(c) \/ BroadcastRequeue(c)
  <2>1. built' = built /\ saved' \subseteq saved /\ Others(c)
        /\ call'[c].pc \notin {"final", "save"}
    BY <1>9, DeleteMove, PutBackMove, RequeueMove DEF Itself, GoesTo, store
  <2>2. SignedBatches' \subseteq SignedBatches
    BY <2>1 DEF SignedBatches
  <2>3. QED
    BY <2>1, <2>2, FinalStill
<1>10. CASE BroadcastMark(c)
  <2>1. /\ call[c].pc = "mark" /\ Others(c)
        /\ \/ ~call[c].own /\ call'[c].pc = "loop"
           \/ call[c].own /\ call'[c].pc # "save"
    BY <1>10, MarkMove DEF Over, GoesTo, Ends, Empty
  <2>2. SignedBatches' \subseteq SignedBatches \ {call[c].cur}
    BY <1>10, NodeMark
  <2>3. CASE call[c].own
    <3>1. SignedBatches' = {} /\ Active(c)
      BY <2>1, <2>2, <2>3 DEF NodeInv, Active
    <3>2. QED
      BY <2>1, <3>1, FinalReturns
  <2>4. CASE ~call[c].own
    BY <2>1, <2>2, <2>4, FinalStill
  <2>5. QED
    BY <2>3, <2>4
<1>11. CASE DueStep(c)
  <2>1. Still
    BY <1>11, DueMove, SameSigned DEF Itself, GoesTo, Ends, Empty, store
  <2>2. QED
    BY <2>1, FinalStill
<1>12. CASE RefreshStep(c)
  <2>1. Still
    BY <1>12, RefreshMove, NodeRefresh DEF Ends, Empty
  <2>2. QED
    BY <2>1, FinalStill
<1>13. QED
  BY <1>1, <1>2, <1>3, <1>4, <1>5, <1>6, <1>7, <1>8, <1>9, <1>10, <1>11, <1>12, CallSteps

LEMMA FinalNext ==
    ASSUME ~StoreYields, IInv, NodeInv, FinalInv, [Next]_vars
    PROVE  FinalInv'
<1>1. CASE UNCHANGED vars
  BY <1>1 DEF vars, FinalInv, SignedBatches
<1>2. CASE Crash
  <2>1. \A c \in Calls : call'[c] = Rest("none")
    BY <1>2 DEF Crash
  <2>2. QED
    BY <2>1 DEF FinalInv, Rest, Started
<1>3. QED
  BY <1>1, <1>2, FinalCall DEF Next

\* At its return the hash has a batch, which is no longer only signed.
LEMMA FreshStep ==
    ASSUME IInv, NodeInv, FinalInv, [Next]_vars,
           NEW c \in Calls, call[c].pc = "final", call'[c].out = "fresh"
    PROVE  call[c].hash \in Anchored
<1>1. call[c].out = "none" /\ call[c].hash \in Hashes
  BY DEF NodeInv
<1>2. ~UNCHANGED vars
  BY <1>1 DEF vars
<1>3. ~Crash
  BY DEF Crash, Rest, Started
<1>4. PICK d \in Calls : \/ AddStep(d) \/ SettleStep(d) \/ BroadcastStep(d)
                         \/ DueStep(d) \/ RefreshStep(d)
  BY <1>2, <1>3 DEF Next
<1>5. d = c
  <2>1. Others(d)
    BY <1>4, OnlyOne
  <2>2. QED
    BY <1>1, <2>1 DEF Others
<1>6. AnchorFinal(c)
  <2>1. ~StartSettle(c)
    BY DEF StartSettle
  <2>2. AddStep(c)
    <3>1. CASE SettleStep(c) \/ BroadcastStep(c)
      BY <2>1, <3>1 DEF SettleStep, BroadcastStep, SettleBegin, SettleCheck,
         SettleTake, SettleFund, SettleFundFails, SettleSave, SettleClear,
         ResumeNext, ResumeEnd, BroadcastSend, BroadcastReply, LookupFinds,
         LookupMisses, BroadcastDelete, BroadcastPutBack, BroadcastRequeue,
         BroadcastRejected, BroadcastMark
    <3>2. CASE DueStep(c) \/ RefreshStep(c)
      BY <3>2 DEF DueStep, RefreshStep, StartDue, DueSigned, DueSettles, DueReturns,
         StartRefresh, RefreshFound, RefreshNothing
    <3>3. QED
      BY <1>4, <1>5, <3>1, <3>2
  <2>3. QED
    BY <2>2 DEF AddStep, StartRequest, AnchorExisting, AddGetProof, AddListPending,
       AddPush
<1>7. FindBatchByHash(call[c].hash) # {}
  <2>1. SUFFICES ASSUME FindBatchByHash(call[c].hash) = {} PROVE FALSE
    OBVIOUS
  <2>2. call' = [call EXCEPT ![c] = Rest("error")]
    BY <1>6, <2>1 DEF AnchorFinal, Finish
  <2>3. call'[c] = Rest("error")
    BY <2>2 DEF IInv, TypeInv, TypeOK
  <2>4. QED
    BY <2>3 DEF Rest, Started
<1>8. PICK o \in FindBatchByHash(call[c].hash) : TRUE
  BY <1>7
<1>9. o \in saved /\ o \in DOMAIN built
  BY <1>8 DEF FindBatchByHash, IInv, TypeInv, TypeOK
<1>10. OnChain(o)
  BY <1>9 DEF NodeInv, FinalInv, SignedBatches
<1>11. QED
  BY <1>1, <1>8, <1>10 DEF Anchored

LEMMA NodeInvariance == Spec => []NodeInv
<1>1. IInv /\ NodeInv /\ [Next]_vars => NodeInv'
  BY NodeNext
<1>2. Init => NodeInv
  BY NodeInit
<1>3. QED
  BY <1>1, <1>2, Invariance, PTL DEF Spec

\* anchorNow returns a fresh proof only of a transaction that the node has:
\* between its settlement and its last lookup no other settlement can sign a
\* batch with its hash, for the stores of store.js, which answer before the
\* next I/O event.  With a store that yields another settlement can.
THEOREM FreshProofs == ASSUME ~StoreYields PROVE Spec => FreshIsSent
<1>1. Init => FinalInv
  BY DEF Init, FinalInv, Rest, Started
<1>2. IInv /\ NodeInv /\ FinalInv /\ [Next]_vars => FinalInv'
  BY FinalNext
<1>3. IInv /\ NodeInv /\ FinalInv /\ [Next]_vars
        => [\A c \in Calls : call[c].pc = "final" /\ call'[c].out = "fresh"
                                => call[c].hash \in Anchored]_vars
  BY FreshStep
<1>4. QED
  BY <1>1, <1>2, <1>3, Invariance, NodeInvariance, PTL DEF Spec, FreshIsSent

-----------------------------------------------------------------------------
(* No two batches of the store spend the same output.                      *)

\* Settlements are the only ones to send, or the timer of start() runs beside
\* them while the node answers a valid transaction with "ok" or not at all and
\* nobody calls refreshStatus.  In any other case a transaction can be sent by
\* one call while another has given it up.
SerialSends ==
    "due" \notin Ops \/ (~HttpErrors /\ ~LookupFails /\ "refresh" \notin Ops)

\* The node has the transaction, or would take it.
Fits(o) == OnChain(o) \/ Acceptable(o)

\* The batch the call sends, or will send next.
Target(c, o) == \/ call[c].pc \in Sending \cup {"clear"} /\ o = call[c].cur
                \/ call[c].pc = "loop" /\ o \in call[c].todo

\* The loop outside of the chain belongs to settleIfDue.
DueOnly == Sending \cup {"loop", "dueSigned", "dueList"}

SpendCall(c) ==
    /\ call[c].pc = "save" => call[c].spend = Len(chain)
    /\ call[c].pc = "loop" => \A o, p \in call[c].todo : o = p
    /\ call[c].pc \in Sending \/ Settling(c) => call[c].todo = {}
    /\ InChain(c) => \A o \in DOMAIN built :
                        Target(c, o) => Fits(o) /\ SignedBatches \subseteq {o}
    /\ ~InChain(c) => \A o \in DOMAIN built :
                        Target(c, o) => OnChain(o) \/ o \in SignedBatches
    /\ ~InChain(c) /\ call[c].pc \in DueOnly => call[c].op = "due"
    /\ call[c].op = "due" => settling /\ "due" \in Ops
    /\ call[c].pc = "refetch" => "refresh" \in Ops
    /\ "due" \in Ops =>
          /\ call[c].pc \in {"reply", "lookup"} /\ call[c].reply = "http"
                => OnChain(call[c].cur)
          /\ call[c].pc \notin {"delete", "putBack", "requeue"}

SpendInv ==
    /\ \A o \in SignedBatches : Fits(o)
    /\ \A c \in Calls : SpendCall(c)
    /\ \A c, d \in Calls : call[c].op = "due" /\ call[d].op = "due" => c = d

\* A call moves, and the batches and the chain stay.
LEMMA SpendStill ==
    ASSUME SpendInv, NEW c \in Calls, UNCHANGED <<built, saved, chain>>, Others(c),
           \A d \in Calls : d # c => (InChain(d)' <=> InChain(d)),
           \A d \in Calls : d # c /\ call[d].op = "due"
                               => settling' /\ call'[c].op # "due",
           SpendCall(c)'
    PROVE  SpendInv'
<1>1. SignedBatches' = SignedBatches
  BY SameSigned
<1>2. \A o : (OnChain(o)' <=> OnChain(o)) /\ (Fits(o)' <=> Fits(o))
  BY DEF OnChain, Fits, Acceptable
<1>3. ASSUME NEW d \in Calls, d # c
      PROVE  SpendCall(d)'
  <2>1. /\ call'[d] = call[d] /\ SpendCall(d) /\ (InChain(d)' <=> InChain(d))
        /\ \A o : Target(d, o)' <=> Target(d, o)
        /\ OnChain(call[d].cur)' <=> OnChain(call[d].cur)
        /\ Settling(d)' <=> Settling(d)
    BY <1>3 DEF Others, SpendInv, Target, OnChain, Settling
  <2>2. call'[d].op = "due" => settling' /\ "due" \in Ops
    BY <1>3, <2>1 DEF SpendCall
  <2>3. QED
    BY <1>1, <1>2, <2>1, <2>2 DEF SpendCall
<1>4. QED
  BY <1>1, <1>2, <1>3 DEF SpendInv, Others

\* The call has nothing to send, and is not in the chain or is queued there.
LEMMA SpendIdle ==
    ASSUME SpendInv, NEW c \in Calls, UNCHANGED <<built, saved, chain>>, Others(c),
           \A d \in Calls : d # c => (InChain(d)' <=> InChain(d)),
           \A d \in Calls : d # c /\ call[d].op = "due"
                               => settling' /\ call'[c].op # "due",
           call'[c].pc \notin Sending \cup {"loop", "save", "clear"},
           Settling(c)' => call'[c].todo = {},
           call'[c].pc \in {"dueSigned", "dueList"} => call'[c].op = "due",
           call'[c].op = "due" => settling' /\ "due" \in Ops,
           call'[c].pc = "refetch" => "refresh" \in Ops
    PROVE  SpendInv'
<1>1. \A o : ~Target(c, o)'
  BY DEF Target
<1>2. SpendCall(c)'
  BY <1>1 DEF SpendCall, Sending, DueOnly
<1>3. QED
  BY <1>2, SpendStill

LEMMA SpendQuiet ==
    ASSUME IInv, SpendInv, NEW c \in Calls,
           \/ AddStep(c) \/ StartSettle(c) \/ SettleCheck(c) \/ SettleTake(c)
           \/ SettleFundFails(c)
           \/ (DueStep(c) /\ call'[c].pc # "loop")
           \/ (RefreshStep(c) /\ UNCHANGED store)
    PROVE  SpendInv'
<1> DEFINE After == /\ UNCHANGED <<built, saved, chain>> /\ Others(c)
                    /\ \A d \in Calls : d # c => (InChain(d)' <=> InChain(d))
                    /\ \A d \in Calls : d # c /\ call[d].op = "due"
                                           => settling' /\ call'[c].op # "due"
                    /\ call'[c].pc \notin Sending \cup {"loop", "save", "clear"}
                    /\ Settling(c)' => call'[c].todo = {}
                    /\ call'[c].pc \in {"dueSigned", "dueList"} => call'[c].op = "due"
                    /\ call'[c].op = "due" => settling' /\ "due" \in Ops
                    /\ call'[c].pc = "refetch" => "refresh" \in Ops
<1>1. /\ call[c].op = "due" => settling /\ "due" \in Ops
      /\ \A d \in Calls : d # c /\ call[d].op = "due" => settling /\ call[c].op # "due"
      /\ ~InChain(c) /\ call[c].pc \in {"dueSigned", "dueList"} => call[c].op = "due"
      /\ Settling(c) => call[c].todo = {}
  BY DEF SpendInv, SpendCall, DueOnly
<1> USE DEF Settling
<1>2. CASE AddStep(c) \/ StartSettle(c)
  <2>1. After
    BY <1>1, <1>2, AskMove DEF Asking, Sending, Stays, Joins
  <2>2. QED
    BY <2>1, SpendIdle
<1>3. CASE SettleCheck(c)
  <2>1. After
    BY ZenonT(60), <1>1, <1>3, CheckMove DEF GoesTo, Ends, Empty, store, Sending, Stays, Quits
  <2>2. QED
    BY <2>1, SpendIdle
<1>4. CASE SettleTake(c)
  <2>1. After
    BY ZenonT(60), <1>1, <1>4, TakeMove
       DEF Itself, GoesTo, Ends, Empty, store, Sending, Stays, Quits
  <2>2. QED
    BY <2>1, SpendIdle
<1>5. CASE SettleFundFails(c)
  <2>1. After
    BY <1>1, <1>5, FundMove DEF Ends, Empty, store, Sending, Quits
  <2>2. QED
    BY <2>1, SpendIdle
<1>6. CASE DueStep(c) /\ call'[c].pc # "loop"
  <2>1. After
    BY <1>1, <1>6, DueMove
       DEF Itself, GoesTo, Ends, Empty, store, Sending, Stays, Joins
  <2>2. QED
    BY <2>1, SpendIdle
<1>7. CASE RefreshStep(c) /\ UNCHANGED store
  <2>1. After
    BY <1>1, <1>7, RefreshMove DEF Ends, Empty, store, Sending, Stays
  <2>2. QED
    BY <2>1, SpendIdle
<1>8. QED
  BY <1>2, <1>3, <1>4, <1>5, <1>6, <1>7

\* A call that sends goes on.
LEMMA SpendMoves ==
    ASSUME IInv, NodeInv, SerialSends, SpendInv, NEW c \in Calls,
           \/ SettleBegin(c) \/ SettleFund(c) \/ SettleClear(c)
           \/ ResumeNext(c) \/ ResumeEnd(c) \/ BroadcastReply(c) \/ LookupFinds(c)
           \/ LookupMisses(c) \/ BroadcastPutBack(c) \/ BroadcastRequeue(c)
           \/ BroadcastRejected(c)
           \/ (DueStep(c) /\ call'[c].pc = "loop")
    PROVE  SpendInv'
<1> DEFINE Alike == /\ UNCHANGED <<built, saved, chain>> /\ Others(c)
                    /\ \A d \in Calls : d # c => (InChain(d)' <=> InChain(d))
                    /\ \A d \in Calls : d # c /\ call[d].op = "due"
                                           => settling' /\ call'[c].op # "due"
                    /\ call'[c].op = "due" => settling' /\ "due" \in Ops
           Here == /\ call'[c].pc = "save" => call'[c].spend = Len(chain)
                   /\ call'[c].pc = "loop" => \A o, p \in call'[c].todo : o = p
                   /\ call'[c].pc \in Sending \/ Settling(c)' => call'[c].todo = {}
                   /\ InChain(c)' => \A o \in DOMAIN built :
                          Target(c, o)' => Fits(o) /\ SignedBatches \subseteq {o}
                   /\ ~InChain(c)' => \A o \in DOMAIN built :
                          Target(c, o)' => OnChain(o) \/ o \in SignedBatches
                   /\ ~InChain(c)' /\ call'[c].pc \in DueOnly => call'[c].op = "due"
                   /\ call'[c].pc # "refetch"
                   /\ "due" \in Ops =>
                         /\ call'[c].pc \in {"reply", "lookup"} /\ call'[c].reply = "http"
                               => OnChain(call'[c].cur)
                         /\ call'[c].pc \notin {"delete", "putBack", "requeue"}
<1>1. ASSUME Alike, Here PROVE SpendInv'
  <2>1. SignedBatches' = SignedBatches
    BY <1>1, SameSigned
  <2>2. /\ \A o : (OnChain(o)' <=> OnChain(o)) /\ (Fits(o)' <=> Fits(o))
        /\ OnChain(call[c].cur)' <=> OnChain(call'[c].cur)
    BY <1>1 DEF OnChain, Fits, Acceptable
  <2>3. SpendCall(c)'
    BY <1>1, <2>1, <2>2 DEF SpendCall
  <2>4. QED
    BY <1>1, <2>3, SpendStill
<1>2. /\ call[c].op = "due" => settling /\ "due" \in Ops
      /\ \A d \in Calls : d # c /\ call[d].op = "due" => settling /\ call[c].op # "due"
  BY DEF SpendInv, SpendCall
<1>3. SpendCall(c)
  BY DEF SpendInv
<1>4. call[c].own /\ call[c].pc # "final" => SignedBatches \subseteq {call[c].cur}
  BY DEF NodeInv
<1> HIDE DEF Here, Alike
<1>5. CASE SettleBegin(c)
  <2>1. Alike
    BY <1>2, <1>5, BeginMove DEF Alike, Itself, Stays, store
  <2>2. \A o \in SignedBatches : Fits(o) /\ SignedBatches \subseteq {o}
    BY DEF SpendInv, IInv, SignInv, AtMostOneSigned
  <2>3. Here
    BY <1>5, <2>2, BeginMove
       DEF Here, Target, Sending, Settling, DueOnly, Stays
  <2>4. QED
    BY <1>1, <2>1, <2>3
<1>6. CASE SettleFund(c)
  <2>1. Alike
    BY <1>2, <1>6, FundMove DEF Alike, Itself, Stays, store
  <2>2. Here
    BY <1>3, <1>6, FundMove
       DEF Here, SpendCall, Target, Sending, Settling, DueOnly, Stays
  <2>3. QED
    BY <1>1, <2>1, <2>2
<1>7. CASE SettleClear(c)
  <2>1. Alike
    BY <1>2, <1>7, ClearMove DEF Alike, Itself, Stays, store
  <2>2. Here
    BY <1>3, <1>7, ClearMove
       DEF Here, SpendCall, Target, Sending, Settling, DueOnly, Stays
  <2>3. QED
    BY <1>1, <2>1, <2>2
<1>8. CASE ResumeNext(c)
  <2>1. Alike
    BY <1>2, <1>8, NextMove DEF Alike, Itself, Stays, store
  <2>2. Here
    BY <1>3, <1>8, NextMove
       DEF Here, SpendCall, Target, Sending, Settling, DueOnly, Stays, Itself
  <2>3. QED
    BY <1>1, <2>1, <2>2
<1>9. CASE ResumeEnd(c)
  <2>1. Alike
    BY <1>2, <1>9, EndMove DEF Alike, GoesTo, Stays, store
  <2>2. Here
    BY <1>3, <1>9, EndMove
       DEF Here, SpendCall, Target, Sending, Settling, DueOnly, Stays, GoesTo
  <2>3. QED
    BY <1>1, <2>1, <2>2
<1>10. CASE BroadcastReply(c) \/ LookupFinds(c)
  <2>1. Alike
    BY <1>2, <1>10, ReplyMove DEF Alike, GoesTo, Stays, store
  <2>2. Here
    BY <1>3, <1>10, ReplyMove
       DEF Here, SpendCall, Target, Sending, Settling, DueOnly, Stays, GoesTo
  <2>3. QED
    BY <1>1, <2>1, <2>2
<1>11. CASE LookupMisses(c)
  <2>1. Alike
    BY <1>2, <1>11, MissMove
       DEF Alike, Over, Ends, Empty, GoesTo, Stays, Quits, store
  <2>2. Here
    BY ZenonT(60), <1>3, <1>11, MissMove
       DEF Here, SpendCall, Target, Sending, Settling, DueOnly, Stays, GoesTo,
           Over, Ends, Empty, Quits, SerialSends, Unknown
  <2>3. QED
    BY <1>1, <2>1, <2>2
<1>12. CASE BroadcastPutBack(c) \/ BroadcastRequeue(c)
  <2>1. Alike
    BY <1>2, <1>12, PutBackMove, RequeueMove DEF Alike, Itself, Stays, store
  <2>2. Here
    BY <1>3, <1>12, PutBackMove, RequeueMove
       DEF Here, SpendCall, Target, Sending, Settling, DueOnly, Stays, Itself
  <2>3. QED
    BY <1>1, <2>1, <2>2
<1>13. CASE BroadcastRejected(c)
  <2>1. Alike
    BY <1>2, <1>13, RejectedMove
       DEF Alike, Over, Ends, Empty, GoesTo, Stays, Quits, store
  <2>2. Here
    BY <1>3, <1>13, RejectedMove
       DEF Here, SpendCall, Target, Sending, Settling, DueOnly, Stays, GoesTo,
           Over, Ends, Empty, Quits
  <2>3. QED
    BY <1>1, <2>1, <2>2
<1>14. CASE DueStep(c) /\ call'[c].pc = "loop"
  <2>1. /\ UNCHANGED <<store, chain, requests>> /\ ~InChain(c) /\ Stays
        /\ settling' = settling /\ Itself(c) /\ call'[c].todo = SignedBatches
        /\ call[c].pc = "dueSigned"
    BY <1>14, DueMove DEF Empty, GoesTo, Ends
  <2>2. Alike
    BY <1>2, <2>1 DEF Alike, Itself, Stays, store
  <2>3. \A o, p \in SignedBatches : o = p
    BY DEF IInv, SignInv, AtMostOneSigned
  <2>4. Here
    BY <1>3, <1>14, <2>1, <2>3
       DEF Here, SpendCall, Target, Sending, Settling, DueOnly, Stays, Itself
  <2>5. QED
    BY <1>1, <2>2, <2>4
<1>15. QED
  BY <1>5, <1>6, <1>7, <1>8, <1>9, <1>10, <1>11, <1>12, <1>13, <1>14

\* While a call in the chain sends, nothing else can be signed, and outside of
\* it only what is signed is sent: an answer that extends the chain is always
\* about the one batch that may be signed.
LEMMA SpendSend ==
    ASSUME IInv, SerialSends, SpendInv, NEW c \in Calls, BroadcastSend(c)
    PROVE  SpendInv'
<1>o. PICK o : o = call[c].cur
  OBVIOUS
<1>r. PICK r : r = call'[c].reply
  OBVIOUS
<1>1. /\ UNCHANGED <<built, saved, settling>> /\ Others(c) /\ Stays
      /\ call[c].pc = "send" /\ call'[c].pc = "reply" /\ call'[c].cur = o
      /\ call'[c].todo = call[c].todo /\ call'[c].op = call[c].op
      /\ NodeAnswers(o, r) /\ built' = built
  BY <1>o, <1>r, SendMove DEF Itself, store
<1>2. o \in DOMAIN built
  BY <1>o, <1>1, CallFacts DEF HasBatch
<1>3. /\ \/ chain' = chain
         \/ Acceptable(o) /\ chain' = Append(chain, built[o].root) /\ OnChain(o)'
      /\ \A p \in DOMAIN built : OnChain(p) => OnChain(p)'
      /\ r = "http" => HttpErrors \/ ~Acceptable(o)
  BY <1>1, <1>2, Answers
<1>4. /\ SpendCall(c) /\ Target(c, o) /\ call[c].todo = {}
      /\ \A p : Target(c, p)' => p = o
  BY <1>o, <1>1 DEF SpendInv, SpendCall, Target, Sending
<1>5. Fits(o)
  BY <1>2, <1>4 DEF SpendCall, SpendInv, Fits
<1>6. "due" \in Ops /\ r = "http" => OnChain(o)
  BY <1>3, <1>5 DEF SerialSends, Fits
<1>7. /\ call[c].op = "due" => settling /\ "due" \in Ops
      /\ \A d \in Calls : d # c /\ call[d].op = "due" => settling /\ call[c].op # "due"
  BY DEF SpendInv, SpendCall
<1>8. SignedBatches' = SignedBatches
  BY <1>1, SameSigned
<1>9. InChain(c)' <=> InChain(c)
  BY <1>1 DEF Stays
<1>10. CASE chain' = chain
  <2>1. \A p : (OnChain(p)' <=> OnChain(p)) /\ (Fits(p)' <=> Fits(p))
    BY <1>1, <1>10 DEF OnChain, Fits, Acceptable
  <2>2. "due" \in Ops /\ r = "http" => OnChain(call[c].cur)'
    BY <1>1, <1>6, <1>10 DEF OnChain
  <2>3. /\ \A p \in DOMAIN built' : Target(c, p)' => p = o /\ Target(c, o)
        /\ InChain(c) => Fits(o)' /\ SignedBatches' \subseteq {o}
        /\ ~InChain(c) => OnChain(o)' \/ o \in SignedBatches'
    BY <1>2, <1>4, <1>8, <2>1 DEF SpendCall
  <2>4. ~InChain(c)' => call'[c].op = "due"
    BY <1>1, <1>4, <1>9 DEF SpendCall, DueOnly, Sending
  <2>5. SpendCall(c)'
    BY <1>1, <1>r, <1>4, <1>7, <1>9, <2>2, <2>3, <2>4 DEF SpendCall, Sending, Settling
  <2>6. /\ \A d \in Calls : d # c => (InChain(d)' <=> InChain(d))
        /\ \A d \in Calls : d # c /\ call[d].op = "due"
                               => settling' /\ call'[c].op # "due"
    BY <1>1, <1>7 DEF Stays
  <2>7. QED
    BY <1>1, <1>10, <2>5, <2>6, SpendStill
<1>11. CASE chain' # chain
  <2>1. /\ Acceptable(o) /\ OnChain(o)' /\ ~OnChain(o)
        /\ SignedBatches \subseteq {o}
        /\ ~InChain(c) => o \in SignedBatches
    BY <1>2, <1>3, <1>4, <1>11
       DEF SpendCall, Acceptable, OnChain, IInv, SignInv, AtMostOneSigned
  <2>2. \A p \in SignedBatches' : Fits(p)'
    BY <1>8, <2>1 DEF Fits
  <2>3. ASSUME NEW d \in Calls, d # c, InChain(d), call[d].pc # "queued"
        PROVE  o \in SignedBatches
    <3>1. ~InChain(c)
      BY <1>1, <2>3, CallFacts
    <3>2. QED
      BY <2>1, <3>1
  <2>4. ASSUME NEW d \in Calls
        PROVE  SpendCall(d)'
    <3>1. InChain(d)' <=> InChain(d)
      BY <1>1 DEF Stays
    <3>2. CASE d = c
      <4>1. /\ \A p : Target(c, p)' => Fits(p)' /\ OnChain(p)'
                                      /\ SignedBatches' \subseteq {p}
            /\ OnChain(call[c].cur)'
        BY <1>1, <1>4, <1>8, <2>1 DEF Fits, OnChain
      <4>2. ~InChain(c)' => call'[c].op = "due"
        BY <1>1, <1>4, <1>9 DEF SpendCall, DueOnly, Sending
      <4>3. QED
        BY <1>1, <1>4, <1>7, <3>2, <4>1, <4>2 DEF SpendCall, Sending, Settling
    <3>3. CASE d # c
      <4>1. /\ call'[d] = call[d] /\ SpendCall(d)
            /\ \A p : Target(d, p)' <=> Target(d, p)
            /\ Settling(d)' <=> Settling(d)
        BY <1>1, <3>3 DEF Others, SpendInv, Target, Settling
      <4>2. call[d].pc # "save"
        <5>1. SUFFICES ASSUME call[d].pc = "save" PROVE FALSE
          OBVIOUS
        <5>2. InChain(d) /\ SignedBatches = {}
          BY <5>1, CallFacts DEF Active, Settling, IInv, SignInv
        <5>3. QED
          BY <2>3, <3>3, <5>1, <5>2
      <4>3. ASSUME InChain(d), NEW p \in DOMAIN built, Target(d, p)
            PROVE  Fits(p)' /\ SignedBatches' \subseteq {p}
        <5>1. call[d].pc # "queued"
          BY <4>3 DEF Target, Sending
        <5>2. o \in SignedBatches /\ SignedBatches \subseteq {p}
          BY <2>3, <3>3, <4>1, <4>3, <5>1 DEF SpendCall
        <5>3. QED
          BY <1>8, <2>1, <5>2 DEF Fits
      <4>4. ASSUME ~InChain(d), NEW p \in DOMAIN built, Target(d, p)
            PROVE  OnChain(p)' \/ p \in SignedBatches'
        BY <1>3, <1>8, <4>1, <4>4 DEF SpendCall
      <4>5. call[d].pc \in HasBatch /\ OnChain(call[d].cur) => OnChain(call[d].cur)'
        <5>1. SUFFICES ASSUME call[d].pc \in HasBatch, OnChain(call[d].cur)
                       PROVE  OnChain(call[d].cur)'
          OBVIOUS
        <5>2. call[d].cur \in DOMAIN built
          BY <5>1, CallFacts
        <5>3. QED
          BY <1>3, <4>1, <5>1, <5>2 DEF OnChain
      <4>6. QED
        BY <1>1, <3>1, <4>1, <4>2, <4>3, <4>4, <4>5 DEF SpendCall, HasBatch
    <3>4. QED
      BY <3>2, <3>3
  <2>5. QED
    BY <1>1, <2>2, <2>4 DEF SpendInv, Others
<1>12. QED
  BY <1>10, <1>11

\* A batch is removed only when no timer runs, so nobody else means to send it.
LEMMA SpendDelete ==
    ASSUME IInv, SpendInv, NEW c \in Calls, BroadcastDelete(c)
    PROVE  SpendInv'
<1>1. /\ UNCHANGED <<built, chain, settling>> /\ saved' \subseteq saved /\ Stays
      /\ GoesTo(c, "putBack") /\ call[c].pc = "delete"
  BY DeleteMove
<1>2. SignedBatches' \subseteq SignedBatches
  BY <1>1 DEF SignedBatches
<1>3. \A o : (OnChain(o)' <=> OnChain(o)) /\ (Fits(o)' <=> Fits(o))
  BY <1>1 DEF OnChain, Fits, Acceptable
<1>4. "due" \notin Ops
  BY <1>1 DEF SpendInv, SpendCall
<1>5. ASSUME NEW d \in Calls
      PROVE  SpendCall(d)'
  <2>1. /\ SpendCall(d) /\ call'[d].todo = call[d].todo /\ call'[d].op = call[d].op
        /\ call'[d].spend = call[d].spend /\ (InChain(d)' <=> InChain(d))
        /\ \A o : Target(d, o)' <=> Target(d, o)
        /\ Settling(d)' <=> Settling(d)
        /\ \/ call'[d].pc = call[d].pc
           \/ (call[d].pc = "delete" /\ call'[d].pc = "putBack")
    BY <1>1 DEF SpendInv, GoesTo, Others, Target, Sending, Settling, Stays
  <2>2. \A o : ~InChain(d) => ~Target(d, o)
    BY <1>4, <2>1, CallFacts
       DEF SpendCall, Target, DueOnly, Active, Settling, Sending
  <2>3. QED
    BY <1>1, <1>2, <1>3, <1>4, <2>1, <2>2 DEF SpendCall, DueOnly, Sending
<1>6. QED
  BY <1>1, <1>2, <1>3, <1>5 DEF SpendInv, GoesTo, Others

LEMMA SpendSave ==
    ASSUME IInv, NodeInv, SpendInv, NEW c \in Calls, SettleSave(c)
    PROVE  SpendInv'
<1>n. PICK n : n = Len(built) + 1
  OBVIOUS
<1>1. /\ UNCHANGED <<settling, chain>> /\ SavesNew(c) /\ Itself(c) /\ Stays
      /\ call[c].pc = "save" /\ InChain(c) /\ call'[c].pc = "clear"
      /\ call'[c].cur = n /\ call'[c].todo = call[c].todo
  BY <1>n, SaveMove
<1>2. /\ DOMAIN built' = DOMAIN built \cup {n} /\ n \notin DOMAIN built
      /\ \A o \in DOMAIN built : built'[o] = built[o]
      /\ built'[n].spends = Len(chain)
  BY <1>n, <1>1 DEF SavesNew, SpendInv, SpendCall
<1>3. SignedBatches' = {n} /\ SignedBatches = {}
  BY <1>n, <1>1, NodeSave DEF IInv, SignInv
<1>4. Fits(n)'
  BY <1>1, <1>2 DEF Fits, Acceptable
<1>5. \A o \in DOMAIN built : (OnChain(o)' <=> OnChain(o)) /\ (Fits(o)' <=> Fits(o))
  BY <1>1, <1>2 DEF OnChain, Fits, Acceptable
<1>6. ASSUME NEW d \in Calls
      PROVE  SpendCall(d)'
  <2>1. SpendCall(d) /\ (InChain(d)' <=> InChain(d))
    BY <1>1 DEF SpendInv, Stays
  <2>2. CASE d = c
    <3>1. \A o : Target(c, o)' => o = n
      BY <1>1 DEF Target, Sending
    <3>2. QED
      BY <1>1, <1>3, <1>4, <2>1, <2>2, <3>1
         DEF SpendCall, Sending, Settling, DueOnly, Itself
  <2>3. CASE d # c
    <3>1. /\ call'[d] = call[d] /\ (Settling(d)' <=> Settling(d))
          /\ \A o : Target(d, o)' <=> Target(d, o)
      BY <1>1, <2>3 DEF Itself, Others, Target, Settling
    <3>2. InChain(d) => call[d].pc = "queued"
      BY <1>1, <2>3, CallFacts
    <3>3. \A o : Target(d, o) /\ InChain(d) => FALSE
      BY <3>2 DEF Target, Sending
    <3>4. \A o : Target(d, o) => o \in DOMAIN built
      BY CallFacts DEF Target, Sending, HasBatch
    <3>5. \A o \in DOMAIN built' : Target(d, o)' => OnChain(o)'
      BY <1>3, <1>5, <2>1, <3>1, <3>3, <3>4 DEF SpendCall
    <3>6. ASSUME call[d].pc \in {"reply", "lookup"}, OnChain(call[d].cur)
          PROVE  OnChain(call[d].cur)'
      BY <1>1, <1>2, <3>1, <3>6, CallFacts DEF OnChain, HasBatch
    <3>7. QED
      BY <1>1, <2>1, <3>1, <3>2, <3>3, <3>5, <3>6 DEF SpendCall
  <2>4. QED
    BY <2>2, <2>3
<1>7. QED
  BY <1>1, <1>3, <1>4, <1>6 DEF SpendInv, Itself, Others

\* A batch that the node has is rewritten.  Others that mean to send a batch
\* still find theirs in the store, or the node has it as well.
LEMMA SpendMarks ==
    ASSUME IInv, NodeInv, SpendInv, NEW c \in Calls, NEW o \in DOMAIN built, Marks(o),
           OnChain(o), chain' = chain, Others(c),
           SignedBatches' \subseteq SignedBatches \ {o},
           \A d \in Calls : d # c => (InChain(d)' <=> InChain(d)),
           \A d \in Calls : d # c /\ call[d].op = "due"
                               => settling' /\ call'[c].op # "due",
           "due" \in Ops => \/ SignedBatches \subseteq {o}
                            \/ (~InChain(c) /\ call[c].op = "due"),
           call'[c].pc \in {"rest", "final", "loop"}, call'[c].pc = "loop" => call'[c].todo = {},
           call'[c].pc = "loop" /\ ~InChain(c)' => call'[c].op = "due",
           call'[c].op = "due" => settling' /\ "due" \in Ops
    PROVE  SpendInv'
<1>1. /\ DOMAIN built' = DOMAIN built
      /\ \A p \in DOMAIN built : /\ built'[p].root = built[p].root
                                 /\ built'[p].spends = built[p].spends
  BY DEF Marks
<1>2. \A p \in DOMAIN built : (OnChain(p)' <=> OnChain(p)) /\ (Fits(p)' <=> Fits(p))
  BY <1>1 DEF OnChain, Fits, Acceptable
<1>3. SignedBatches \subseteq DOMAIN built
  BY DEF SignedBatches, IInv, TypeInv, TypeOK
<1>4. ASSUME NEW d \in Calls
      PROVE  SpendCall(d)'
  <2>1. CASE d = c
    BY <2>1 DEF SpendCall, Target, Sending, Settling, DueOnly
  <2>2. CASE d # c
    <3>1. /\ call'[d] = call[d] /\ SpendCall(d) /\ (InChain(d)' <=> InChain(d))
          /\ \A p : Target(d, p)' <=> Target(d, p)
          /\ Settling(d)' <=> Settling(d)
      BY <2>2 DEF Others, SpendInv, Target, Settling
    <3>2. ASSUME ~InChain(d), NEW p \in DOMAIN built, Target(d, p)
          PROVE  OnChain(p)'
      <4>1. call[d].pc \in DueOnly
        BY <3>2, CallFacts DEF Target, DueOnly, Sending, Active, Settling
      <4>2. call[d].op = "due" /\ "due" \in Ops
        BY <3>1, <3>2, <4>1 DEF SpendCall
      <4>3. ~(~InChain(c) /\ call[c].op = "due")
        BY <2>2, <4>2 DEF SpendInv
      <4>4. OnChain(p)
        BY <3>1, <3>2, <4>2, <4>3 DEF SpendCall
      <4>5. QED
        BY <1>2, <4>4
    <3>3. ASSUME call[d].pc \in {"reply", "lookup"}, OnChain(call[d].cur)
          PROVE  OnChain(call[d].cur)'
      BY <1>1, <3>1, <3>3, CallFacts DEF OnChain, HasBatch
    <3>4. \A p \in DOMAIN built : InChain(d) /\ Target(d, p)
             => Fits(p)' /\ SignedBatches' \subseteq {p}
      BY <1>2, <3>1 DEF SpendCall
    <3>5. call[d].op = "due" => settling' /\ "due" \in Ops
      BY <2>2, <3>1 DEF SpendCall
    <3>6. QED
      BY <1>1, <3>1, <3>2, <3>3, <3>4, <3>5 DEF SpendCall
  <2>3. QED
    BY <2>1, <2>2
<1>5. \A p \in SignedBatches' : Fits(p)'
  BY <1>2, <1>3 DEF SpendInv
<1>6. QED
  BY <1>4, <1>5 DEF SpendInv, Others

LEMMA SpendMark ==
    ASSUME IInv, NodeInv, SpendInv, NEW c \in Calls, BroadcastMark(c)
    PROVE  SpendInv'
<1>o. PICK o : o = call[c].cur
  OBVIOUS
<1>1. /\ chain' = chain /\ call[c].pc = "mark" /\ o \in DOMAIN built /\ Marks(o)
      /\ Over(c, TRUE)
  BY <1>o, MarkMove
<1>2. OnChain(o) /\ SignedBatches' \subseteq SignedBatches \ {o}
  BY <1>o, <1>1, NodeMark DEF NodeInv, Confirms
<1>3. /\ SpendCall(c) /\ Target(c, o)
      /\ \A d \in Calls : d # c /\ call[d].op = "due" => settling /\ call[c].op # "due"
  BY <1>o, <1>1 DEF SpendInv, SpendCall, Target, Sending
<1>4. SignedBatches \subseteq {o} \/ (~InChain(c) /\ call[c].op = "due")
  BY <1>1, <1>3 DEF SpendCall, DueOnly, Sending
<1>5. /\ Others(c)
      /\ \A d \in Calls : d # c => (InChain(d)' <=> InChain(d))
      /\ \A d \in Calls : d # c /\ call[d].op = "due"
                             => settling' /\ call'[c].op # "due"
      /\ call'[c].pc \in {"rest", "final", "loop"}
      /\ call'[c].pc = "loop" => call'[c].todo = {}
      /\ call'[c].pc = "loop" /\ ~InChain(c)' => call'[c].op = "due"
      /\ call'[c].op = "due" => settling' /\ "due" \in Ops
  BY <1>1, <1>3 DEF Over, GoesTo, Ends, Empty, Stays, Quits, SpendCall, Sending, DueOnly
<1>6. QED
  BY <1>1, <1>2, <1>4, <1>5, SpendMarks

LEMMA SpendRefresh ==
    ASSUME IInv, NodeInv, SerialSends, SpendInv, NEW c \in Calls, RefreshStep(c)
    PROVE  SpendInv'
<1>1. CASE UNCHANGED store
  BY <1>1, SpendQuiet
<1>2. CASE ~UNCHANGED store
  <2>o. PICK o : o = call[c].cur
    OBVIOUS
  <2>1. /\ chain' = chain /\ call[c].pc = "refetch" /\ o \in DOMAIN built /\ Marks(o)
        /\ OnChain(o) /\ Ends(c) /\ Stays /\ settling' = settling
    BY <1>2, <2>o, RefreshMove
  <2>2. "due" \notin Ops
    BY <2>1 DEF SpendInv, SpendCall, SerialSends
  <2>3. SignedBatches' \subseteq SignedBatches \ {o}
    <3>1. /\ saved' \subseteq saved \cup {o} /\ saved \subseteq DOMAIN built
          /\ \A p \in DOMAIN built : p # o => built'[p] = built[p]
      BY <2>1 DEF Marks, IInv, TypeInv, TypeOK
    <3>2. QED
      BY <2>1, <3>1 DEF SignedBatches, Marks
  <2>4. \A d \in Calls : call[d].op # "due"
    BY <2>2 DEF SpendInv, SpendCall
  <2>5. QED
    BY <2>1, <2>2, <2>3, <2>4, SpendMarks DEF Ends, Empty, Stays
<1>3. QED
  BY <1>1, <1>2

LEMMA SpendCrash ==
    ASSUME IInv, SpendInv, Crash
    PROVE  SpendInv'
<1>1. /\ UNCHANGED <<built, saved, chain>>
      /\ \A c \in Calls : call'[c] = Rest("none")
  BY DEF Crash
<1>2. \A c \in Calls : call'[c].pc = "rest" /\ call'[c].op = "none"
  BY <1>1 DEF Rest, Started
<1>3. /\ \A c \in Calls : \A o : ~Target(c, o)'
      /\ \A c \in Calls : ~Settling(c)'
  BY <1>2 DEF Target, Sending, Settling
<1>4. \A o \in SignedBatches' : Fits(o)'
  BY <1>1 DEF SpendInv, SignedBatches, Fits, OnChain, Acceptable
<1>5. QED
  BY <1>2, <1>3, <1>4 DEF SpendInv, SpendCall, Sending, DueOnly

LEMMA SpendNext ==
    ASSUME SerialSends, IInv, NodeInv, SpendInv, [Next]_vars
    PROVE  SpendInv'
<1>1. CASE UNCHANGED vars
  BY <1>1 DEF vars, SpendInv, SpendCall, Target, Fits, Acceptable, OnChain,
     SignedBatches, InChain, Settling
<1>2. ASSUME NEW c \in Calls,
             \/ AddStep(c) \/ SettleStep(c) \/ BroadcastStep(c)
             \/ DueStep(c) \/ RefreshStep(c)
      PROVE  SpendInv'
  <2>1. CASE DueStep(c)
    BY <2>1, SpendQuiet, SpendMoves
  <2>2. CASE ~DueStep(c)
    BY <1>2, <2>2, CallSteps, SpendQuiet, SpendMoves, SpendSend, SpendDelete,
       SpendSave, SpendMark, SpendRefresh
  <2>3. QED
    BY <2>1, <2>2
<1>3. CASE Crash
  BY <1>3, SpendCrash
<1>4. QED
  BY <1>1, <1>2, <1>3 DEF Next

LEMMA SpendInit ==
    ASSUME Init
    PROVE  SpendInv
<1>1. SignedBatches = {} /\ \A c \in Calls : call[c] = Rest("none")
  BY DEF Init, SignedBatches
<1>2. \A c \in Calls : call[c].pc = "rest" /\ call[c].op = "none"
  BY <1>1 DEF Rest, Started
<1>3. QED
  BY <1>1, <1>2 DEF SpendInv, SpendCall, Target, Sending, DueOnly, Settling

LEMMA SpendInvariance == ASSUME SerialSends PROVE Spec => []SpendInv
<1>1. IInv /\ NodeInv /\ SpendInv /\ [Next]_vars => SpendInv'
  BY SpendNext
<1>2. Init => SpendInv
  BY SpendInit
<1>3. QED
  BY <1>1, <1>2, Invariance, NodeInvariance, PTL DEF Spec

\* Batches of the store spend different outputs: two that are past "signed"
\* are on the chain, at different places, and the one that may be signed is
\* there as well or would be the next.
THEOREM SpendsOnce == ASSUME SerialSends PROVE Spec => []SpentOnce
<1>1. ASSUME IInv, NodeInv, SpendInv
      PROVE  SpentOnce
  <2>1. SUFFICES ASSUME NEW o \in saved, NEW p \in saved,
                        built[o].spends = built[p].spends
                 PROVE  o = p
    BY DEF SpentOnce
  <2>2. o \in DOMAIN built /\ p \in DOMAIN built
    BY <1>1 DEF IInv, TypeInv, TypeOK
  <2>3. built[o].spends \in Nat /\ Len(chain) \in Nat
    <3>1. built[o] \in Batch /\ chain \in Seq(Roots)
      BY <1>1, <2>2 DEF IInv, TypeInv, TypeOK
    <3>2. QED
      BY <3>1 DEF Batch
  <2>4. OnChain(o) /\ OnChain(p) => o = p
    BY <1>1, <2>1 DEF OnChain, NodeInv
  <2>5. /\ OnChain(o) \/ (o \in SignedBatches /\ Acceptable(o))
        /\ OnChain(p) \/ (p \in SignedBatches /\ Acceptable(p))
    BY <1>1, <2>1, <2>2 DEF NodeInv, SpendInv, SignedBatches, Fits
  <2>6. o \in SignedBatches /\ p \in SignedBatches => o = p
    BY <1>1 DEF IInv, SignInv, AtMostOneSigned
  <2>7. QED
    BY <2>1, <2>3, <2>4, <2>5, <2>6 DEF OnChain, Acceptable
<1>2. QED
  BY <1>1, Invariance, NodeInvariance, SpendInvariance, PTL

-----------------------------------------------------------------------------
(* Every transaction on the chain has its root in the store.               *)

\* The node answers a valid transaction with "ok" or not at all, and the timer
\* and refreshStatus are not used together: no batch is ever given up.
GivesUpNever == /\ ~HttpErrors /\ ~LookupFails
                /\ "due" \notin Ops \/ "refresh" \notin Ops

SavedRoots == {built[o].root : o \in saved}

\* What is or will be sent is in the store, and stays there.
KeepInv ==
    /\ \A k \in DOMAIN chain : chain[k] \in SavedRoots
    /\ \A c \in Calls : \A o \in DOMAIN built :
          Target(c, o) => built[o].root \in SavedRoots
    /\ \A c \in Calls :
          /\ call[c].pc \in {"reply", "lookup"} /\ call[c].reply = "http"
                => OnChain(call[c].cur)
          /\ call[c].pc \notin {"delete", "putBack", "requeue"}

\* The store keeps what it has, and a call moves.
LEMMA KeepStill ==
    ASSUME IInv, KeepInv, NEW c \in Calls, chain' = chain, Others(c),
           DOMAIN built \subseteq (DOMAIN built)',
           \A o \in DOMAIN built : /\ built'[o].root = built[o].root
                                   /\ built'[o].spends = built[o].spends,
           SavedRoots \subseteq SavedRoots',
           \A o \in DOMAIN built' : Target(c, o)' => built'[o].root \in SavedRoots',
           call'[c].pc \in {"reply", "lookup"} /\ call'[c].reply = "http"
              => call'[c].cur \in DOMAIN built /\ OnChain(call'[c].cur),
           call'[c].pc \notin {"delete", "putBack", "requeue"}
    PROVE  KeepInv'
<1>1. \A d \in Calls : d = c \/ call'[d] = call[d]
  BY DEF Others
<1>2. \A o \in DOMAIN built : OnChain(o)' <=> OnChain(o)
  BY DEF OnChain
<1>3. ASSUME NEW d \in Calls, d # c, NEW o \in DOMAIN built', Target(d, o)'
      PROVE  built'[o].root \in SavedRoots'
  <2>1. Target(d, o) /\ o \in DOMAIN built
    BY <1>1, <1>3, CallFacts DEF Target, Sending, HasBatch
  <2>2. QED
    BY <2>1 DEF KeepInv
<1>4. ASSUME NEW d \in Calls, call'[d].pc \in {"reply", "lookup"},
             call'[d].reply = "http"
      PROVE  OnChain(call[d].cur)'
  <2>1. call'[d].cur \in DOMAIN built /\ OnChain(call'[d].cur)
    BY <1>1, <1>4, CallFacts DEF KeepInv, HasBatch
  <2>2. QED
    BY <1>2, <2>1 DEF OnChain
<1>5. \A d \in Calls : call'[d].pc \notin {"delete", "putBack", "requeue"}
  BY <1>1 DEF KeepInv
<1>6. \A k \in DOMAIN chain' : chain'[k] \in SavedRoots'
  BY DEF KeepInv
<1>7. QED
  BY <1>3, <1>4, <1>5, <1>6 DEF KeepInv

\* A batch saved again, or replaced by one with its root, loses no root.
LEMMA RootsStay ==
    ASSUME IInv, NEW o \in DOMAIN built, Marks(o)
    PROVE  SavedRoots' = SavedRoots \cup {built[o].root}
<1>1. saved \subseteq DOMAIN built
  BY DEF IInv, TypeInv, TypeOK
<1>2. \A p \in DOMAIN built : built'[p].root = built[p].root
  BY DEF Marks
<1>3. saved' = {p \in saved : built[p].root # built[o].root} \cup {o}
  BY DEF Marks
<1>4. ASSUME NEW p \in saved PROVE built[p].root \in SavedRoots'
  BY <1>1, <1>2, <1>3 DEF SavedRoots
<1>5. ASSUME NEW p \in saved' PROVE built'[p].root \in SavedRoots \cup {built[o].root}
  BY <1>1, <1>2, <1>3 DEF SavedRoots
<1>6. built[o].root \in SavedRoots'
  BY <1>2, <1>3 DEF SavedRoots
<1>7. QED
  BY <1>4, <1>5, <1>6 DEF SavedRoots

LEMMA RootsGrow ==
    ASSUME IInv, NEW c \in Calls, SavesNew(c)
    PROVE  /\ SavedRoots' = SavedRoots \cup {Root(call[c].hand)}
           /\ built'[Len(built) + 1].root = Root(call[c].hand)
<1>n. PICK n : n = Len(built) + 1
  OBVIOUS
<1>1. /\ saved \subseteq DOMAIN built /\ n \notin DOMAIN built
      /\ \A p \in DOMAIN built : built'[p] = built[p]
      /\ built'[n].root = Root(call[c].hand)
      /\ saved' = {p \in saved : built[p].root # Root(call[c].hand)} \cup {n}
  BY <1>n DEF SavesNew, IInv, TypeInv, TypeOK
<1>2. ASSUME NEW p \in saved PROVE built[p].root \in SavedRoots'
  BY <1>1 DEF SavedRoots
<1>3. ASSUME NEW p \in saved'
      PROVE  built'[p].root \in SavedRoots \cup {Root(call[c].hand)}
  BY <1>1 DEF SavedRoots
<1>4. Root(call[c].hand) \in SavedRoots'
  BY <1>1 DEF SavedRoots
<1>5. QED
  BY <1>n, <1>1, <1>2, <1>3, <1>4 DEF SavedRoots

LEMMA KeepCall ==
    ASSUME IInv, NodeInv, SpendInv, GivesUpNever, KeepInv, NEW c \in Calls,
           \/ AddStep(c) \/ SettleStep(c) \/ BroadcastStep(c)
           \/ DueStep(c) \/ RefreshStep(c)
    PROVE  KeepInv'
<1> DEFINE After == /\ UNCHANGED <<built, saved, chain>> /\ Others(c)
                    /\ \A o \in DOMAIN built : Target(c, o)' => Target(c, o) \/ o \in saved
                    /\ call'[c].pc \in {"reply", "lookup"} /\ call'[c].reply = "http"
                          => call'[c].cur \in DOMAIN built /\ OnChain(call'[c].cur)
                    /\ call'[c].pc \notin {"delete", "putBack", "requeue"}
<1>1. ASSUME After PROVE KeepInv'
  <2>1. SavedRoots' = SavedRoots
    BY <1>1 DEF SavedRoots
  <2>2. \A o \in DOMAIN built' : Target(c, o)' => built'[o].root \in SavedRoots'
    BY <1>1, <2>1 DEF KeepInv, SavedRoots
  <2>3. QED
    BY <1>1, <2>1, <2>2, KeepStill
<1>2. /\ call[c].pc \in {"reply", "lookup"} /\ call[c].reply = "http"
            => call[c].cur \in DOMAIN built /\ OnChain(call[c].cur)
      /\ call[c].pc \notin {"delete", "putBack", "requeue"}
      /\ call[c].pc \in {"reply", "lookup", "mark"} => call[c].todo = {}
  BY CallFacts DEF KeepInv, HasBatch, SpendInv, SpendCall, Sending
<1> HIDE DEF After
<1>3. CASE AddStep(c) \/ StartSettle(c)
  <2>1. After
    BY <1>3, AskMove DEF After, Asking, Target, Sending
  <2>2. QED
    BY <1>1, <2>1
<1>4. CASE SettleBegin(c) \/ SettleCheck(c) \/ SettleTake(c)
  <2>1. After
    BY ZenonT(60), <1>4, BeginMove, CheckMove, TakeMove
       DEF After, Itself, GoesTo, Ends, Empty, store, Target, Sending, SignedBatches
  <2>2. QED
    BY <1>1, <2>1
<1>5. CASE SettleFund(c) \/ SettleFundFails(c) \/ SettleClear(c)
  <2>1. After
    BY <1>5, FundMove, ClearMove
       DEF After, Itself, Ends, Empty, store, Target, Sending
  <2>2. QED
    BY <1>1, <2>1
<1>6. CASE ResumeNext(c) \/ ResumeEnd(c) \/ BroadcastReply(c) \/ LookupFinds(c)
  <2>1. After
    BY <1>2, <1>6, NextMove, EndMove, ReplyMove
       DEF After, Itself, GoesTo, store, Target, Sending
  <2>2. QED
    BY <1>1, <2>1
<1>7. CASE LookupMisses(c)
  <2>1. call[c].reply # "http"
    BY <1>2, <1>7, MissMove DEF GivesUpNever, Unknown
  <2>2. After
    BY <1>2, <1>7, <2>1, MissMove
       DEF After, Over, GoesTo, Ends, Empty, store, Target, Sending
  <2>3. QED
    BY <1>1, <2>2
<1>8. CASE BroadcastDelete(c) \/ BroadcastPutBack(c) \/ BroadcastRequeue(c)
           \/ BroadcastRejected(c)
  BY <1>2, <1>8, DeleteMove, PutBackMove, RequeueMove, RejectedMove
<1>9. CASE DueStep(c)
  <2>1. After
    BY <1>9, DueMove
       DEF After, Itself, GoesTo, Ends, Empty, store, Target, Sending, SignedBatches
  <2>2. QED
    BY <1>1, <2>1
<1>10. CASE SettleSave(c)
  <2>n. PICK n : n = Len(built) + 1
    OBVIOUS
  <2>1. /\ chain' = chain /\ SavesNew(c) /\ Others(c) /\ call'[c].pc = "clear"
        /\ call'[c].cur = n
    BY <1>10, <2>n, SaveMove DEF Itself
  <2>2. SavedRoots \subseteq SavedRoots' /\ built'[n].root \in SavedRoots'
    BY <2>n, <2>1, RootsGrow
  <2>3. /\ DOMAIN built \subseteq (DOMAIN built)'
        /\ \A o \in DOMAIN built : /\ built'[o].root = built[o].root
                                   /\ built'[o].spends = built[o].spends
    BY <2>1 DEF SavesNew
  <2>4. \A o : Target(c, o)' => o = n
    BY <2>1 DEF Target, Sending
  <2>5. QED
    BY <2>1, <2>2, <2>3, <2>4, KeepStill
<1>11. CASE BroadcastSend(c)
  <2>o. PICK o : o = call[c].cur
    OBVIOUS
  <2>r. PICK r : r = call'[c].reply
    OBVIOUS
  <2>1. /\ UNCHANGED <<built, saved>> /\ Others(c) /\ built' = built
        /\ call[c].pc = "send" /\ call'[c].pc = "reply" /\ call'[c].cur = o
        /\ NodeAnswers(o, r)
    BY <1>11, <2>o, <2>r, SendMove DEF Itself, store
  <2>2. o \in DOMAIN built
    BY <2>o, <2>1, CallFacts DEF HasBatch
  <2>3. /\ \/ chain' = chain
           \/ Acceptable(o) /\ chain' = Append(chain, built[o].root)
        /\ \A p \in DOMAIN built : OnChain(p) => OnChain(p)'
        /\ r = "http" => HttpErrors \/ ~Acceptable(o)
    BY <2>1, <2>2, Answers
  <2>4. Target(c, o) /\ built[o].root \in SavedRoots
    BY <2>o, <2>1, <2>2 DEF Target, Sending, KeepInv
  <2>5. Fits(o)
    BY <2>2, <2>4 DEF SpendInv, SpendCall, Fits
  <2>6. r = "http" => OnChain(o)'
    BY <2>2, <2>3, <2>5 DEF Fits, GivesUpNever
  <2>7. SavedRoots' = SavedRoots
    BY <2>1 DEF SavedRoots
  <2>8. \A k \in DOMAIN chain' : chain'[k] \in SavedRoots
    <3>1. chain \in Seq(Roots)
      BY DEF IInv, TypeInv, TypeOK
    <3>2. \A k \in DOMAIN chain' : \/ k \in DOMAIN chain /\ chain'[k] = chain[k]
                                 \/ chain'[k] = built[o].root
      BY <2>3, <3>1
    <3>3. QED
      BY <2>4, <3>2 DEF KeepInv
  <2>9. ASSUME NEW d \in Calls
        PROVE  /\ \A p \in DOMAIN built : Target(d, p)' => Target(d, p) \/ p = o
               /\ call'[d].pc \in {"reply", "lookup"} /\ call'[d].reply = "http"
                     => OnChain(call[d].cur)'
               /\ call'[d].pc \notin {"delete", "putBack", "requeue"}
    <3>1. CASE d = c
      BY <2>r, <2>1, <2>6, <3>1 DEF Target, Sending, OnChain
    <3>2. CASE d # c
      <4>1. call'[d] = call[d]
        BY <2>1, <3>2 DEF Others
      <4>2. call[d].pc \in {"reply", "lookup"} => call[d].cur \in DOMAIN built
        BY CallFacts DEF HasBatch
      <4>3. QED
        BY <2>3, <4>1, <4>2 DEF KeepInv, Target, OnChain
    <3>3. QED
      BY <3>1, <3>2
  <2>10. \A d \in Calls : \A p \in DOMAIN built' :
            Target(d, p)' => built'[p].root \in SavedRoots'
    BY <2>1, <2>4, <2>7, <2>9 DEF KeepInv
  <2>11. QED
    BY <2>7, <2>8, <2>9, <2>10 DEF KeepInv
<1>12. CASE BroadcastMark(c) \/ (RefreshStep(c) /\ ~UNCHANGED store)
  <2>o. PICK o : o = call[c].cur
    OBVIOUS
  <2>1. /\ chain' = chain /\ o \in DOMAIN built /\ Marks(o) /\ Others(c)
        /\ call'[c].pc \in {"rest", "final"} \/ (call'[c].pc = "loop" /\ call'[c].todo = {})
    BY <1>2, <1>12, <2>o, MarkMove, RefreshMove DEF Over, GoesTo, Ends, Empty
  <2>2. \A p : ~Target(c, p)'
    BY <2>1 DEF Target, Sending
  <2>3. /\ DOMAIN built \subseteq (DOMAIN built)'
        /\ \A p \in DOMAIN built : /\ built'[p].root = built[p].root
                                   /\ built'[p].spends = built[p].spends
    BY <2>1 DEF Marks
  <2>4. SavedRoots \subseteq SavedRoots'
    BY <2>1, RootsStay
  <2>5. QED
    BY <2>1, <2>2, <2>3, <2>4, KeepStill
<1>13. CASE RefreshStep(c) /\ UNCHANGED store
  <2>1. After
    BY <1>13, RefreshMove DEF After, Ends, Empty, store, Target, Sending
  <2>2. QED
    BY <1>1, <2>1
<1>14. QED
  BY <1>3, <1>4, <1>5, <1>6, <1>7, <1>8, <1>9, <1>10, <1>11, <1>12, <1>13, CallSteps

LEMMA KeepNext ==
    ASSUME GivesUpNever, IInv, NodeInv, SpendInv, KeepInv, [Next]_vars
    PROVE  KeepInv'
<1>1. CASE UNCHANGED vars
  BY <1>1 DEF vars, KeepInv, Target, OnChain, SavedRoots
<1>2. CASE Crash
  <2>1. UNCHANGED <<built, saved, chain>> /\ \A c \in Calls : call'[c] = Rest("none")
    BY <1>2 DEF Crash
  <2>2. \A c \in Calls : call'[c].pc = "rest"
    BY <2>1 DEF Rest, Started
  <2>3. QED
    BY <2>1, <2>2 DEF KeepInv, SavedRoots, Target, Sending
<1>3. QED
  BY <1>1, <1>2, KeepCall DEF Next

LEMMA KeepInvariance == ASSUME GivesUpNever PROVE Spec => []KeepInv
<1>1. SerialSends
  BY DEF GivesUpNever, SerialSends
<1>2. IInv /\ NodeInv /\ SpendInv /\ KeepInv /\ [Next]_vars => KeepInv'
  BY KeepNext
<1>3. Init => KeepInv
  BY DEF Init, KeepInv, Rest, Started, Target, Sending
<1>4. Spec => []SpendInv
  BY <1>1, SpendInvariance
<1>5. QED
  BY <1>2, <1>3, <1>4, Invariance, NodeInvariance, PTL DEF Spec

\* No transaction on the chain is without its batch and proofs, although calls
\* stop between any two operations, the process with them, requests go
\* unanswered and the store yields: a batch is saved before it is sent, sent
\* again until the node is known to have it, and only replaced by one with its
\* root.
THEOREM RootsAreSaved == ASSUME GivesUpNever PROVE Spec => []RootIsSaved
<1>1. KeepInv => RootIsSaved
  BY DEF KeepInv, SavedRoots, RootIsSaved
<1>2. QED
  BY <1>1, KeepInvariance, PTL
=============================================================================
