------------------------- MODULE NotaryPlaceProofs -------------------------
(***************************************************************************)
(* Where Notary keeps its hashes: that none is ever lost, that each has    *)
(* one place, and that the whole of it is the queue of NotaryQueue.        *)
(***************************************************************************)
EXTENDS NotarySpendProofs

-----------------------------------------------------------------------------
(* The stores of store.js: one call works at a time.                       *)

\* The call has work with the store, now or when the one before it is over.
Busy(c) == \/ call[c].pc \in Working \ {"queued", "final"}
           \/ call[c].pc = "queued" /\ Turn(c)

Mutex == \A c, d \in Calls : Busy(c) /\ Busy(d) => c = d

\* A step comes from the network, or from the call that works, or ends one
\* that has nothing left but to look its hash up.
Moves(c) ==
    \/ /\ Free \/ Busy(c)
       /\ \/ Stays \/ Joins(c)
          \/ Quits(c) /\ call'[c].pc \in {"rest", "final"}
    \/ call[c].pc = "final" /\ Stays /\ call'[c].pc = "rest"

LEMMA MutexMoves ==
    ASSUME Mutex, ~StoreYields, NEW c \in Calls, Others(c), Moves(c)
    PROVE  Mutex'
<1>1. ASSUME NEW d \in Calls, Busy(d)', d # c
      PROVE  Turn(d)' \/ Busy(d)
  BY <1>1 DEF Busy, Others
<1>2. \A d, e \in Calls : Turn(d)' /\ Turn(e)' => d = e
  BY DEF Turn
<1>3. CASE Quits(c) /\ call'[c].pc \in {"rest", "final"} /\ (Free \/ Busy(c))
  <2>1. \A d \in Calls : Busy(d) => d = c
    BY <1>3, FreeIsQuiet DEF Busy, Mutex, Waiting, Working
  <2>2. ~Busy(c)'
    BY <1>3 DEF Busy, Working
  <2>3. QED
    BY <1>1, <1>2, <2>1, <2>2 DEF Mutex
<1>4. CASE (Stays \/ Joins(c)) /\ (Free \/ Busy(c))
  <2>1. \A d \in Calls : Busy(d) => d = c
    BY <1>4, FreeIsQuiet DEF Busy, Mutex, Waiting, Working
  <2>2. ASSUME NEW d \in Calls, Busy(d)', d # c PROVE FALSE
    <3>1. Turn(d)' <=> Turn(d)
      BY <1>4, <2>2 DEF Stays, Joins
    <3>2. Busy(d)
      BY <2>2, <3>1 DEF Busy, Others
    <3>3. QED
      BY <2>1, <2>2, <3>2
  <2>3. QED
    BY <2>2 DEF Mutex
<1>5. CASE call[c].pc = "final" /\ Stays /\ call'[c].pc = "rest"
  <2>1. ~Busy(c)'
    BY <1>5 DEF Busy, Working
  <2>2. ASSUME NEW d \in Calls, Busy(d)' PROVE Busy(d)
    BY <1>5, <2>1, <2>2 DEF Busy, Others, Stays
  <2>3. QED
    BY <2>2 DEF Mutex
<1>6. QED
  BY <1>3, <1>4, <1>5 DEF Moves

LEMMA AllMove ==
    ASSUME IInv, NEW c \in Calls,
           \/ AddStep(c) \/ SettleStep(c) \/ BroadcastStep(c)
           \/ DueStep(c) \/ RefreshStep(c)
    PROVE  Others(c) /\ Moves(c)
<1> USE DEF Moves, Busy, Working
<1>1. Others(c)
  BY OnlyOne
<1>2. CASE AddStep(c) \/ StartSettle(c)
  BY <1>1, <1>2, AskMove DEF Asking
<1>3. CASE SettleBegin(c) \/ SettleClear(c) \/ SettleSave(c)
  BY <1>1, <1>3, BeginMove, ClearMove, SaveMove
<1>4. CASE SettleCheck(c) \/ SettleTake(c)
  BY <1>1, <1>4, CheckMove, TakeMove DEF GoesTo, Ends, Empty
<1>5. CASE SettleFund(c) \/ SettleFundFails(c)
  BY <1>1, <1>5, FundMove DEF Ends, Empty
<1>6. CASE ResumeNext(c) \/ ResumeEnd(c) \/ BroadcastSend(c) \/ BroadcastReply(c)
           \/ LookupFinds(c)
  BY <1>1, <1>6, NextMove, EndMove, SendMove, ReplyMove
<1>7. CASE LookupMisses(c)
  BY <1>1, <1>7, MissMove DEF Over, GoesTo, Ends, Empty
<1>8. CASE BroadcastDelete(c) \/ BroadcastPutBack(c) \/ BroadcastRequeue(c)
  BY <1>1, <1>8, DeleteMove, PutBackMove, RequeueMove
<1>9. CASE BroadcastRejected(c) \/ BroadcastMark(c)
  BY <1>1, <1>9, RejectedMove, MarkMove DEF Over, GoesTo, Ends, Empty
<1>10. CASE DueStep(c) \/ RefreshStep(c)
  BY <1>1, <1>10, DueMove, RefreshMove
<1>11. QED
  BY <1>1, <1>2, <1>3, <1>4, <1>5, <1>6, <1>7, <1>8, <1>9, <1>10, CallSteps

LEMMA MutexNext ==
    ASSUME ~StoreYields, IInv, Mutex, [Next]_vars
    PROVE  Mutex'
<1>1. CASE UNCHANGED vars
  BY <1>1 DEF vars, Mutex, Busy, Turn
<1>2. CASE Crash
  BY <1>2 DEF Crash, Mutex, Busy, Turn, Rest, Started, Working
<1>3. QED
  BY <1>1, <1>2, AllMove, MutexMoves DEF Next

LEMMA MutexInvariance == ASSUME ~StoreYields PROVE Spec => []Mutex
<1>1. IInv /\ Mutex /\ [Next]_vars => Mutex'
  BY MutexNext
<1>2. Init => Mutex
  BY DEF Init, Mutex, Busy, Turn, Rest, Started, Working
<1>3. QED
  BY <1>1, <1>2, Invariance, PTL DEF Spec

-----------------------------------------------------------------------------
(* addHash and anchorNow, operation by operation.                          *)

\* addHash is over: the call ends, or goes on to settle.
Returns(c) == Ends(c) \/ GoesTo(c, "queued")

LEMMA AddMove ==
    ASSUME IInv, NEW c \in Calls, AddStep(c)
    PROVE  /\ UNCHANGED <<built, saved, index, settling, chain>> /\ ~InChain(c)
           /\ \/ /\ call[c].pc = "rest" /\ Free /\ UNCHANGED <<pending, pushes>>
                 /\ requests' = requests + 1
                 /\ \E op \in {"add", "anchor"}, h \in Hashes, pc \in {"existing", "proof"} :
                       Empty(c, op, h, requests + 1, pc)
              \/ /\ call[c].pc = "existing" /\ UNCHANGED <<pending, pushes, requests>>
                 /\ Ends(c) \/ GoesTo(c, "proof")
              \/ /\ call[c].pc = "proof" /\ UNCHANGED <<pending, pushes, requests>>
                 /\ \/ Returns(c)
                    \/ GoesTo(c, "list") /\ FindBatchByHash(call[c].hash) = {}
              \/ /\ call[c].pc = "list" /\ UNCHANGED <<pending, pushes, requests>>
                 /\ \/ Returns(c)
                    \/ GoesTo(c, "push") /\ \A e \in pending : e.hash # call[c].hash
              \/ /\ call[c].pc = "push" /\ requests' = requests
                 /\ pending' = pending \cup {[at |-> pushes + 1, id |-> call[c].id,
                                              hash |-> call[c].hash]}
                 /\ pushes' = pushes + 1
                 /\ Returns(c)
              \/ /\ call[c].pc = "final" /\ UNCHANGED <<pending, pushes, requests>>
                 /\ Ends(c)
<1>1. TypeInv /\ call[c] \in CallState /\ ~InChain(c)
  BY CallFacts, AskMove DEF IInv
<1>2. CASE \E op \in {"add", "anchor"}, h \in Hashes : StartRequest(c, op, h)
  <2>1. PICK op \in {"add", "anchor"}, h \in Hashes : StartRequest(c, op, h)
    BY <1>2
  <2>2. \E pc \in {"existing", "proof"} : Empty(c, op, h, requests + 1, pc)
    BY <1>1, <2>1, StartMove DEF StartRequest
  <2>3. QED
    BY <1>1, <2>1, <2>2 DEF StartRequest, store
<1>3. CASE AnchorExisting(c)
  BY <1>1, <1>3, FinishMove, GotoMove DEF AnchorExisting, store
<1>4. CASE AddGetProof(c)
  <2>1. /\ UNCHANGED <<store, settling, chain, requests>> /\ call[c].pc = "proof"
        /\ \/ AddReturns(c, "already")
           \/ Goto(c, "list") /\ FindBatchByHash(call[c].hash) = {}
    BY <1>4 DEF AddGetProof
  <2>2. QED
    BY <1>1, <2>1, AddReturnsMove, GotoMove DEF store, Returns
<1>5. CASE AddListPending(c)
  <2>1. /\ UNCHANGED <<store, settling, chain, requests>> /\ call[c].pc = "list"
        /\ \/ AddReturns(c, "waiting")
           \/ Goto(c, "push") /\ \A e \in pending : e.hash # call[c].hash
    BY <1>5 DEF AddListPending
  <2>2. QED
    BY <1>1, <2>1, AddReturnsMove, GotoMove DEF store, Returns
<1>6. CASE AddPush(c)
  <2>1. /\ UNCHANGED <<built, saved, index, settling, chain, requests>>
        /\ call[c].pc = "push" /\ AddReturns(c, "queued")
        /\ pending' = pending \cup {[at |-> pushes + 1, id |-> call[c].id,
                                     hash |-> call[c].hash]}
        /\ pushes' = pushes + 1
    BY <1>6 DEF AddPush, Push
  <2>2. Returns(c)
    BY <1>1, <2>1, AddReturnsMove DEF Returns
  <2>3. QED
    BY <1>1, <2>1, <2>2
<1>7. CASE AnchorFinal(c)
  BY <1>1, <1>7, FinishMove DEF AnchorFinal, store
<1>8. QED
  BY <1>2, <1>3, <1>4, <1>5, <1>6, <1>7 DEF AddStep

-----------------------------------------------------------------------------
(* The identifiers of the entries.                                         *)

EntryIds(S) == {<<e.id, e.hash>> : e \in S}
CallIds(c) == EntryIds(call[c].hand) \cup
              (IF call[c].pc \in HasHash THEN {<<call[c].id, call[c].hash>>} ELSE {})

\* Every entry there is, or will be pushed, by its identifier and its hash.
Ids == EntryIds(pending) \cup (UNION {CallIds(c) : c \in Calls})
                         \cup (UNION {EntryIds(built[o].queue) : o \in DOMAIN built})

\* An identifier is given to one entry, whose copies all have its hash.
IdsInv == /\ \A x, y \in Ids : x[1] = y[1] => x = y
          /\ \A x \in Ids : x[1] \in 0..requests

LEMMA IdsShrink ==
    ASSUME IdsInv, NEW c \in Calls, Others(c), requests' = requests,
           EntryIds(pending') \subseteq Ids,
           \A o \in DOMAIN built' : EntryIds(built'[o].queue) \subseteq Ids,
           EntryIds(call'[c].hand) \subseteq Ids,
           call'[c].pc \in HasHash => <<call'[c].id, call'[c].hash>> \in Ids
    PROVE  IdsInv'
<1>1. ASSUME NEW d \in Calls PROVE CallIds(d)' \subseteq Ids
  <2>1. CASE d = c
    BY <2>1 DEF CallIds, EntryIds
  <2>2. CASE d # c
    <3>1. CallIds(d)' = CallIds(d)
      BY <2>2 DEF CallIds, EntryIds, Others
    <3>2. QED
      BY <3>1 DEF Ids
  <2>3. QED
    BY <2>1, <2>2
<1>2. EntryIds(pending)' \subseteq Ids
  BY DEF EntryIds
<1>3. ASSUME NEW o \in DOMAIN built' PROVE EntryIds(built[o].queue)' \subseteq Ids
  BY DEF EntryIds
<1>4. Ids' \subseteq Ids
  <2>1. PICK S : S = Ids
    OBVIOUS
  <2>2. /\ \A d \in Calls : CallIds(d)' \subseteq S
        /\ EntryIds(pending)' \subseteq S
        /\ \A o \in DOMAIN built' : EntryIds(built[o].queue)' \subseteq S
    BY <1>1, <1>2, <1>3, <2>1
  <2>3. /\ \A x \in UNION {CallIds(d) : d \in Calls}' : x \in S
        /\ \A x \in UNION {EntryIds(built[o].queue) : o \in DOMAIN built}' : x \in S
    BY <2>2
  <2>4. QED
    BY <2>1, <2>2, <2>3 DEF Ids
<1>5. QED
  BY <1>4 DEF IdsInv

\* Where identifiers come from.
LEMMA IdsHas ==
    /\ EntryIds(pending) \subseteq Ids
    /\ \A c \in Calls : /\ EntryIds(call[c].hand) \subseteq Ids
                        /\ call[c].pc \in HasHash => <<call[c].id, call[c].hash>> \in Ids
    /\ \A o \in DOMAIN built : EntryIds(built[o].queue) \subseteq Ids
BY DEF Ids, CallIds

LEMMA IdsAdd ==
    ASSUME IInv, IdsInv, NEW c \in Calls, AddStep(c)
    PROVE  IdsInv'
<1>1. /\ EntryIds(pending) \subseteq Ids /\ EntryIds(call[c].hand) \subseteq Ids
      /\ call[c].pc \in HasHash => <<call[c].id, call[c].hash>> \in Ids
      /\ \A o \in DOMAIN built : EntryIds(built[o].queue) \subseteq Ids
  BY IdsHas
<1>2. built' = built /\ Others(c)
  BY AddMove, AskMove
<1>3. EntryIds({}) = {}
  BY DEF EntryIds
<1>4. CASE call[c].pc = "rest"
  <2>1. PICK op \in {"add", "anchor"}, h \in Hashes, pc \in {"existing", "proof"} :
            Empty(c, op, h, requests + 1, pc)
    BY <1>4, AddMove
  <2>2. UNCHANGED <<pending, built>> /\ requests' = requests + 1 /\ requests \in Nat
    BY <1>4, AddMove DEF IInv, TypeInv, TypeOK
  <2>3. CallIds(c)' = {<<requests + 1, h>>}
    BY <2>1 DEF CallIds, Empty, EntryIds, HasHash
  <2>4. \A d \in Calls : d # c => CallIds(d)' = CallIds(d)
    BY <1>2 DEF Others, CallIds, EntryIds
  <2>5. Ids' \subseteq Ids \cup {<<requests + 1, h>>}
    <3>1. PICK S : S = Ids \cup {<<requests + 1, h>>}
      OBVIOUS
    <3>2. /\ \A d \in Calls : CallIds(d)' \subseteq S
          /\ EntryIds(pending)' \subseteq S
          /\ \A o \in DOMAIN built' : EntryIds(built[o].queue)' \subseteq S
      <4>1. \A d \in Calls : CallIds(d) \subseteq S
        BY <3>1 DEF Ids
      <4>2. QED
        BY <1>1, <2>2, <2>3, <2>4, <3>1, <4>1 DEF EntryIds
    <3>3. Ids' \subseteq S
      BY <3>2 DEF Ids
    <3>4. QED
      BY <3>1, <3>3
  <2>6. QED
    BY <2>2, <2>5 DEF IdsInv
<1>5. CASE call[c].pc = "push"
  <2>1. /\ pending' = pending \cup {[at |-> pushes + 1, id |-> call[c].id,
                                     hash |-> call[c].hash]}
        /\ requests' = requests /\ Returns(c)
    BY <1>5, AddMove
  <2>2. EntryIds(pending') \subseteq Ids
    BY <1>1, <1>5, <2>1 DEF EntryIds, HasHash
  <2>3. EntryIds(call'[c].hand) \subseteq Ids /\ call'[c].pc \notin HasHash
    BY <1>1, <1>3, <2>1 DEF Returns, Ends, Empty, GoesTo, HasHash
  <2>4. QED
    BY <1>1, <1>2, <2>1, <2>2, <2>3, IdsShrink
<1>6. CASE call[c].pc \in {"existing", "proof", "list", "final"}
  <2>1. /\ UNCHANGED <<pending, requests>>
        /\ \/ Ends(c) \/ GoesTo(c, "queued")
           \/ call[c].pc # "final" /\ \E pc \in HasHash : GoesTo(c, pc)
    BY <1>6, AddMove DEF Returns, HasHash
  <2>2. EntryIds(call'[c].hand) \subseteq Ids
    BY <1>1, <1>3, <2>1 DEF Ends, Empty, GoesTo
  <2>3. call'[c].pc \in HasHash => <<call'[c].id, call'[c].hash>> \in Ids
    BY <1>1, <1>6, <2>1 DEF Ends, Empty, GoesTo, HasHash
  <2>4. QED
    BY <1>1, <1>2, <2>1, <2>2, <2>3, IdsShrink
<1>7. QED
  BY <1>4, <1>5, <1>6, AddMove

LEMMA IdsCall ==
    ASSUME IInv, IdsInv, NEW c \in Calls,
           \/ AddStep(c) \/ SettleStep(c) \/ BroadcastStep(c)
           \/ DueStep(c) \/ RefreshStep(c)
    PROVE  IdsInv'
<1> DEFINE After == /\ UNCHANGED <<pending, built, requests>>
                    /\ call'[c].hand \in {call[c].hand, {}, pending}
                    /\ call'[c].pc \notin HasHash
<1>1. /\ EntryIds(pending) \subseteq Ids /\ EntryIds(call[c].hand) \subseteq Ids
      /\ \A o \in DOMAIN built : EntryIds(built[o].queue) \subseteq Ids
      /\ EntryIds({}) = {} /\ Others(c)
  <2>1. EntryIds({}) = {}
    BY DEF EntryIds
  <2>2. QED
    BY <2>1, IdsHas, OnlyOne
<1>2. ASSUME After PROVE IdsInv'
  BY <1>1, <1>2, IdsShrink
<1> USE DEF HasHash
<1>3. CASE AddStep(c)
  BY <1>3, IdsAdd
<1>4. CASE StartSettle(c)
  <2>1. Empty(c, "settle", NoHash, 0, "queued") /\ UNCHANGED <<store, requests>>
    BY <1>4, StartMove DEF StartSettle, IInv
  <2>2. After
    BY <2>1 DEF Empty, store
  <2>3. QED
    BY <1>2, <2>2
<1>5. CASE SettleBegin(c) \/ SettleCheck(c) \/ SettleTake(c)
  <2>1. After
    BY <1>5, BeginMove, CheckMove, TakeMove DEF Itself, GoesTo, Ends, Empty, store
  <2>2. QED
    BY <1>2, <2>1
<1>6. CASE SettleFund(c) \/ SettleFundFails(c)
  <2>1. After
    BY <1>6, FundMove DEF Itself, GoesTo, Ends, Empty, store
  <2>2. QED
    BY <1>2, <2>1
<1>7. CASE SettleSave(c)
  <2>1. /\ UNCHANGED <<pending, requests>> /\ SavesNew(c) /\ call'[c].hand = call[c].hand
        /\ call'[c].pc = "clear"
    BY <1>7, SaveMove
  <2>2. \A o \in DOMAIN built' : built'[o].queue = call[c].hand
                                    \/ (o \in DOMAIN built /\ built'[o] = built[o])
    BY <2>1 DEF SavesNew
  <2>3. QED
    BY <1>1, <2>1, <2>2, IdsShrink
<1>8. CASE SettleClear(c)
  <2>1. /\ pending' \subseteq pending /\ UNCHANGED <<built, requests>>
        /\ call'[c].hand = {} /\ call'[c].pc = "send"
    BY <1>8, ClearMove
  <2>2. EntryIds(pending') \subseteq Ids
    BY <1>1, <2>1 DEF EntryIds
  <2>3. QED
    BY <1>1, <2>1, <2>2, IdsShrink
<1>9. CASE ResumeNext(c) \/ ResumeEnd(c) \/ BroadcastSend(c) \/ BroadcastReply(c)
           \/ LookupFinds(c)
  <2>1. After
    BY <1>9, NextMove, EndMove, SendMove, ReplyMove DEF GoesTo, store
  <2>2. QED
    BY <1>2, <2>1
<1>10. CASE LookupMisses(c) \/ BroadcastDelete(c)
  <2>1. After
    BY <1>10, MissMove, DeleteMove DEF Over, GoesTo, Ends, Empty, store
  <2>2. QED
    BY <1>2, <2>1
<1>11. CASE BroadcastPutBack(c)
  <2>1. /\ UNCHANGED <<pending, built, requests>> /\ call'[c].pc = "requeue"
        /\ call'[c].hand = built[call[c].cur].queue /\ call[c].cur \in DOMAIN built
    BY <1>11, PutBackMove, CallFacts DEF store, HasBatch
  <2>2. QED
    BY <1>1, <2>1, IdsShrink
<1>12. CASE BroadcastRequeue(c)
  <2>1. PICK e \in call[c].hand : Push(e) /\ call'[c].hand = call[c].hand \ {e}
    BY <1>12, RequeueMove
  <2>2. UNCHANGED <<built, requests>> /\ call'[c].pc = "requeue"
    BY <1>12, RequeueMove
  <2>3. e \in Entry
    BY CallFacts DEF CallState
  <2>4. [e EXCEPT !.at = pushes + 1].id = e.id /\ [e EXCEPT !.at = pushes + 1].hash = e.hash
    BY <2>3 DEF Entry
  <2>5. EntryIds(pending') \subseteq Ids
    <3>1. <<e.id, e.hash>> \in Ids
      BY <1>1 DEF EntryIds
    <3>2. pending' = pending \cup {[e EXCEPT !.at = pushes + 1]}
      BY <2>1 DEF Push
    <3>3. QED
      BY <1>1, <2>4, <3>1, <3>2 DEF EntryIds
  <2>6. EntryIds(call'[c].hand) \subseteq Ids
    BY <1>1, <2>1 DEF EntryIds
  <2>7. QED
    BY <1>1, <2>2, <2>5, <2>6, IdsShrink
<1>13. CASE BroadcastRejected(c)
  <2>1. After
    BY <1>13, RejectedMove DEF Over, GoesTo, Ends, Empty, store
  <2>2. QED
    BY <1>2, <2>1
<1>14. CASE BroadcastMark(c) \/ (RefreshStep(c) /\ ~UNCHANGED store)
  <2>o. PICK o : o = call[c].cur
    OBVIOUS
  <2>1. /\ UNCHANGED <<pending, requests>> /\ Marks(o) /\ call'[c].pc \notin HasHash
        /\ call'[c].hand \in {call[c].hand, {}}
    BY <1>14, <2>o, MarkMove, RefreshMove DEF Over, GoesTo, Ends, Empty
  <2>2. \A p \in DOMAIN built' : EntryIds(built'[p].queue) \subseteq Ids
    BY <1>1, <2>1 DEF Marks
  <2>3. QED
    BY <1>1, <2>1, <2>2, IdsShrink
<1>15. CASE DueStep(c) \/ (RefreshStep(c) /\ UNCHANGED store)
  <2>1. After
    BY <1>15, DueMove, RefreshMove DEF Itself, GoesTo, Ends, Empty, store
  <2>2. QED
    BY <1>2, <2>1
<1>16. QED
  BY <1>3, <1>4, <1>5, <1>6, <1>7, <1>8, <1>9, <1>10, <1>11, <1>12, <1>13, <1>14, <1>15,
     CallSteps

LEMMA IdsNext ==
    ASSUME IInv, IdsInv, [Next]_vars
    PROVE  IdsInv'
<1>1. CASE UNCHANGED vars
  BY <1>1 DEF vars, IdsInv, Ids, CallIds, EntryIds
<1>2. CASE Crash
  <2>1. UNCHANGED <<pending, built, requests>> /\ \A c \in Calls : call'[c] = Rest("none")
    BY <1>2 DEF Crash
  <2>2. \A c \in Calls : CallIds(c)' = {}
    BY <2>1 DEF CallIds, EntryIds, Rest, Started, HasHash
  <2>3. Ids' \subseteq Ids
    BY <2>1, <2>2 DEF Ids, EntryIds
  <2>4. QED
    BY <2>1, <2>3 DEF IdsInv
<1>3. QED
  BY <1>1, <1>2, IdsCall DEF Next

LEMMA IdsInvariance == Spec => []IdsInv
<1>1. IInv /\ IdsInv /\ [Next]_vars => IdsInv'
  BY IdsNext
<1>2. Init => IdsInv
  <2>1. SUFFICES ASSUME Init PROVE Ids = {}
    BY DEF IdsInv
  <2>2. pending = {} /\ DOMAIN built = {} /\ \A c \in Calls : call[c] = Rest("none")
    BY <2>1 DEF Init
  <2>3. \A c \in Calls : CallIds(c) = {}
    BY <2>2 DEF CallIds, EntryIds, Rest, Started, HasHash
  <2>4. QED
    BY <2>2, <2>3 DEF Ids, EntryIds
<1>3. QED
  BY <1>1, <1>2, Invariance, PTL DEF Spec
-----------------------------------------------------------------------------
(* One place for each hash.                                                *)

\* The store as store.js and the web server have it: one call at a time, a
\* process that does not stop, lookups that know what is known, and either no
\* timer or a node without errors and no refreshStatus.
PlaceHyp == ~StoreYields /\ ~CanCrash /\ ~LookupFails /\ SerialSends

Among(h, S) == \E e \in S : e.hash = h
Waits(h) == Among(h, pending)
Kept(h) == \E o \in saved : h \in Leaves(built[o].root)
OnePer(S) == \A e, f \in S : e.hash = f.hash => e = f

\* The two objects stand for one transaction: a batch the store lost and made
\* again, with the object a call still holds.
Twin(o, p) == built[o].root = built[p].root /\ built[o].spends = built[p].spends

BatchOK(o) ==
    /\ built[o].root # {}
    /\ OnePer(built[o].queue)
    /\ \A e \in built[o].queue : e.hash \in Leaves(built[o].root)
    /\ OnChain(o) \/ \A h \in Leaves(built[o].root) : Among(h, built[o].queue)

IndexOK(h) ==
    /\ \A o \in saved : h \in Leaves(built[o].root) => index[h] = built[o].root
    /\ index[h] # {} => \E o \in saved : /\ built[o].root = index[h]
                                         /\ h \in Leaves(built[o].root)

PlaceCall(c) ==
    /\ call[c].pc = "list" => ~Kept(call[c].hash)
    /\ call[c].pc = "push" => ~Kept(call[c].hash) /\ ~Waits(call[c].hash)
    /\ call[c].pc \in {"fund", "save", "clear"}
          => call[c].hand \subseteq pending /\ call[c].hand # {}
    /\ call[c].pc = "clear" => \A e \in call[c].hand : Kept(e.hash)
    /\ call[c].pc \in {"delete", "putBack", "requeue"} => ~OnChain(call[c].cur)
    /\ call[c].pc = "putBack"
          => \A h \in Leaves(built[call[c].cur].root) : ~Kept(h) /\ ~Waits(h)
    /\ call[c].pc = "requeue"
          => OnePer(call[c].hand) /\ \A e \in call[c].hand : ~Kept(e.hash) /\ ~Waits(e.hash)
    /\ call[c].pc \notin {"putBack", "requeue"}
          => \A o \in DOMAIN built : Target(c, o) => \E p \in saved : Twin(o, p)

\* The store, its index and what every call holds of it agree; a hash is both
\* in the queue and in a batch only until _settle has cleared the queue.
PlaceInv ==
    /\ OnePer(pending)
    /\ \A o \in DOMAIN built : BatchOK(o)
    /\ \A o, p \in saved : \A h \in Leaves(built[o].root) :
          h \in Leaves(built[p].root) => o = p
    /\ \A h \in Hashes : IndexOK(h)
    /\ \A h \in Hashes : Waits(h) /\ Kept(h) =>
          \E c \in Calls : call[c].pc = "clear" /\ Among(h, call[c].hand)
    /\ \A c \in Calls : PlaceCall(c)
    /\ SentIsSaved

LEMMA LeavesType ==
    ASSUME NEW root \in Roots
    PROVE  Leaves(root) \subseteq Hashes /\ (root # {} => \E h \in Hashes : h \in Leaves(root))
BY DEF Roots, Leaves

LEMMA RootLeaves ==
    ASSUME NEW S
    PROVE  /\ \A h : h \in Leaves(Root(S)) <=> Among(h, S)
           /\ S # {} => Root(S) # {}
<1> DEFINE N(e) == Cardinality({f \in S : f.at <= e.at})
<1>1. Root(S) = {<<N(e), e.hash>> : e \in S}
  BY DEF Root
<1> HIDE DEF N
<1>2. S # {} => Root(S) # {}
  BY <1>1
<1>3. ASSUME NEW h, h \in Leaves(Root(S)) PROVE Among(h, S)
  BY <1>1, <1>3 DEF Leaves, Among
<1>4. ASSUME NEW e \in S PROVE e.hash \in Leaves(Root(S))
  <2>1. <<N(e), e.hash>> \in Root(S)
    BY <1>1
  <2>2. <<N(e), e.hash>>[2] = e.hash
    OBVIOUS
  <2>3. QED
    BY <2>1, <2>2 DEF Leaves
<1>5. QED
  BY <1>2, <1>3, <1>4 DEF Among

LEMMA Typed ==
    ASSUME IInv
    PROVE  /\ pending \subseteq Entry /\ saved \subseteq DOMAIN built
           /\ DOMAIN built = 1..Len(built) /\ Len(built) \in Nat
           /\ \A o \in DOMAIN built : /\ built[o].root \in Roots /\ built[o].spends \in Nat
                                      /\ built[o].queue \subseteq Entry
           /\ \A c \in Calls : call[c].hand \subseteq Entry
           /\ Len(chain) \in Nat /\ DOMAIN chain = 1..Len(chain)
           /\ index \in [Hashes -> Roots]
<1>1. TypeOK
  BY DEF IInv, TypeInv
<1>2. \A o \in DOMAIN built : built[o] \in Batch
  BY <1>1 DEF TypeOK
<1>3. \A c \in Calls : call[c].hand \subseteq Entry
  BY <1>1 DEF TypeOK, CallState
<1>4. QED
  BY <1>1, <1>2, <1>3 DEF TypeOK, Batch

\* While a call works, and when one comes back from the network, no other call
\* is in the middle of its work with the store.
LEMMA OthersWait ==
    ASSUME IInv, Mutex, ~StoreYields, NEW c \in Calls, Busy(c) \/ Free,
           NEW d \in Calls, d # c
    PROVE  call[d].pc \in Waiting \cup {"queued", "final"}
<1>1. call[d].pc \in Waiting \cup Working
  BY CallFacts DEF CallState
<1>2. CASE Free
  BY <1>2, FreeIsQuiet
<1>3. CASE Busy(c)
  BY <1>1, <1>3 DEF Mutex, Busy
<1>4. QED
  BY <1>2, <1>3

LEMMA PlaceStill ==
    ASSUME PlaceInv, NEW c \in Calls, UNCHANGED <<pending, built, saved, index, chain>>,
           Others(c), call[c].pc # "clear", PlaceCall(c)'
    PROVE  PlaceInv'
<1>1. ASSUME NEW d \in Calls PROVE PlaceCall(d)'
  <2>1. CASE d = c
    BY <2>1
  <2>2. CASE d # c
    <3>1. PlaceCall(d) /\ call'[d] = call[d]
      BY <2>2 DEF PlaceInv, Others
    <3>2. QED
      BY <3>1 DEF PlaceCall, Kept, Waits, OnChain, Target, Twin
  <2>3. QED
    BY <2>1, <2>2
<1>2. \A o \in DOMAIN built' : BatchOK(o)'
  BY DEF PlaceInv, BatchOK, OnChain
<1>3. \A h \in Hashes : IndexOK(h)'
  BY DEF PlaceInv, IndexOK
<1>4. ASSUME NEW h \in Hashes, Waits(h)', Kept(h)'
      PROVE  \E d \in Calls : call'[d].pc = "clear" /\ Among(h, call'[d].hand)
  <2>1. Waits(h) /\ Kept(h)
    BY <1>4 DEF Waits, Kept, Among
  <2>2. PICK d \in Calls : call[d].pc = "clear" /\ Among(h, call[d].hand)
    BY <2>1 DEF PlaceInv
  <2>3. QED
    BY <2>2 DEF Others
<1>5. SentIsSaved'
  BY DEF PlaceInv, SentIsSaved
<1>6. OnePer(pending)'
  BY DEF PlaceInv, OnePer
<1>7. (\A o, p \in saved : \A h \in Leaves(built[o].root) :
          h \in Leaves(built[p].root) => o = p)'
  BY DEF PlaceInv, Leaves
<1>8. (\A h \in Hashes : Waits(h) /\ Kept(h) =>
          \E d \in Calls : call[d].pc = "clear" /\ Among(h, call[d].hand))'
  BY <1>4 DEF Among
<1>9. QED
  BY <1>1, <1>2, <1>3, <1>5, <1>6, <1>7, <1>8 DEF PlaceInv

\* A call that holds nothing of the store.
LEMMA PlaceIdle ==
    ASSUME NEW c \in Calls,
           call'[c].pc \notin Sending \cup {"list", "push", "fund", "save", "clear", "loop"}
    PROVE  PlaceCall(c)'
BY DEF PlaceCall, Target, Sending

LEMMA FoundIsKept ==
    ASSUME IInv, PlaceInv, NEW h \in Hashes
    PROVE  /\ Kept(h) => FindBatchByHash(h) # {}
           /\ ~Kept(h) => FindBatchByHash(h) = {}
<1>1. IndexOK(h) /\ \A o \in saved : built[o].root # {}
  BY Typed DEF PlaceInv, BatchOK
<1>2. ASSUME NEW o \in saved, h \in Leaves(built[o].root) PROVE o \in FindBatchByHash(h)
  BY <1>1, <1>2 DEF IndexOK, FindBatchByHash
<1>3. QED
  BY <1>1, <1>2 DEF Kept, IndexOK, FindBatchByHash

LEMMA SettlingOne ==
    ASSUME IInv, NEW c \in Calls, NEW d \in Calls,
           InChain(c), call[c].pc # "queued", InChain(d), call[d].pc # "queued"
    PROVE  c = d
BY CallFacts

\* A resending call: the batch it holds, or lists, is kept as it was.
LEMMA PlaceTarget ==
    ASSUME PlaceInv, NEW c \in Calls, UNCHANGED <<built, saved>>,
           call'[c].pc \in Sending \ {"delete", "putBack", "requeue"},
           call'[c].cur \in DOMAIN built, Target(c, call'[c].cur),
           call[c].pc \notin {"putBack", "requeue"}
    PROVE  PlaceCall(c)'
<1>o. PICK o : o = call'[c].cur
  OBVIOUS
<1>1. \E p \in saved : Twin(o, p)
  BY <1>o DEF PlaceInv, PlaceCall
<1>2. \A x \in DOMAIN built' : Target(c, x)' => x = o
  BY <1>o DEF Target, Sending
<1>3. QED
  BY <1>1, <1>2, <1>o DEF PlaceCall, Twin, Sending

LEMMA PlaceLists ==
    ASSUME IInv, NEW c \in Calls, UNCHANGED <<built, saved>>, call'[c].pc = "loop",
           call'[c].todo \subseteq SignedBatches
    PROVE  PlaceCall(c)'
<1>1. \A x \in DOMAIN built' : Target(c, x)' => x \in saved
  BY DEF Target, Sending, SignedBatches
<1>2. QED
  BY <1>1 DEF PlaceCall, Twin

LEMMA PlaceOver ==
    ASSUME IInv, SpendInv, NEW c \in Calls, NEW ok \in BOOLEAN, Over(c, ok),
           call[c].pc \in Sending
    PROVE  PlaceCall(c)'
<1>1. CASE call'[c].pc = "loop"
  <2>1. call'[c].todo = {}
    BY <1>1 DEF Over, Ends, Empty, GoesTo, SpendInv, SpendCall
  <2>2. \A x \in DOMAIN built' : ~Target(c, x)'
    BY <1>1, <2>1 DEF Target, Sending
  <2>3. QED
    BY <1>1, <2>2 DEF PlaceCall
<1>2. CASE call'[c].pc # "loop"
  <2>1. call'[c].pc \in {"rest", "final"}
    BY <1>2 DEF Over, Ends, Empty, GoesTo
  <2>2. QED
    BY <2>1, PlaceIdle DEF Sending
<1>3. QED
  BY <1>1, <1>2

LEMMA PlaceAdd ==
    ASSUME IInv, PlaceInv, NEW c \in Calls, AddStep(c), call[c].pc # "push"
    PROVE  PlaceInv'
<1>1. UNCHANGED <<pending, built, saved, index, chain>> /\ Others(c) /\ call[c].pc # "clear"
  BY AddMove, AskMove DEF Asking
<1>2. CASE call'[c].pc \in {"rest", "existing", "proof", "queued"}
  <2>1. PlaceCall(c)'
    BY <1>2, PlaceIdle DEF Sending
  <2>2. QED
    BY <1>1, <2>1, PlaceStill
<1>3. CASE call'[c].pc \notin {"rest", "existing", "proof", "queued"}
  <2>1. \/ /\ call[c].pc = "proof" /\ call'[c].pc = "list"
           /\ call'[c].hash = call[c].hash /\ FindBatchByHash(call[c].hash) = {}
        \/ /\ call[c].pc = "list" /\ call'[c].pc = "push" /\ call'[c].hash = call[c].hash
           /\ \A e \in pending : e.hash # call[c].hash
    BY <1>3, AddMove DEF Returns, Ends, Empty, GoesTo
  <2>h. PICK h : h = call[c].hash
    OBVIOUS
  <2>2. h \in Hashes
    BY <2>1, <2>h, CallFacts DEF HasHash
  <2>3. ~Kept(h) /\ (call'[c].pc = "push" => ~Waits(h))
    <3>1. CASE call[c].pc = "proof"
      BY <2>1, <2>2, <2>h, <3>1, FoundIsKept
    <3>2. CASE call[c].pc = "list"
      BY <2>1, <2>h, <3>2 DEF PlaceInv, PlaceCall, Waits, Among
    <3>3. QED
      BY <2>1, <3>1, <3>2
  <2>4. Kept(h)' = Kept(h) /\ Waits(h)' = Waits(h)
    BY <1>1 DEF Kept, Waits, Among
  <2>5. PlaceCall(c)'
    <3>1. call'[c].pc \in {"list", "push"} /\ call'[c].hash = h
      BY <2>1, <2>h
    <3>2. \A o \in DOMAIN built' : ~Target(c, o)'
      BY <3>1 DEF Target, Sending
    <3>3. QED
      BY <2>3, <2>4, <3>1, <3>2 DEF PlaceCall
  <2>6. QED
    BY <1>1, <2>5, PlaceStill
<1>4. QED
  BY <1>2, <1>3

\* The steps that leave the store and the node as they are.
LEMMA PlaceMoves ==
    ASSUME IInv, NodeInv, SpendInv, PlaceHyp, PlaceInv, NEW c \in Calls,
           \/ (AddStep(c) /\ call[c].pc # "push") \/ StartSettle(c)
           \/ SettleBegin(c) \/ SettleCheck(c) \/ SettleTake(c)
           \/ SettleFund(c) \/ SettleFundFails(c)
           \/ ResumeNext(c) \/ ResumeEnd(c)
           \/ BroadcastReply(c) \/ LookupFinds(c) \/ LookupMisses(c)
           \/ BroadcastPutBack(c) \/ BroadcastRejected(c)
           \/ DueStep(c) \/ (RefreshStep(c) /\ UNCHANGED store)
    PROVE  PlaceInv'
<1> DEFINE Same == /\ UNCHANGED <<pending, built, saved, index, chain>>
                   /\ Others(c) /\ call[c].pc # "clear"
<1> DEFINE Idle == call'[c].pc \notin Sending \cup {"list", "push", "fund", "save",
                                                    "clear", "loop"}
<1>1. ASSUME Same, Idle PROVE PlaceInv'
  BY <1>1, PlaceIdle, PlaceStill
<1>2. ASSUME Same, PlaceCall(c)' PROVE PlaceInv'
  BY <1>2, PlaceStill
<1> USE DEF store
<1>3. CASE StartSettle(c)
  <2>1. call[c].pc = "rest" /\ call'[c].pc = "queued"
    BY <1>3, CallFacts DEF StartSettle, Started, IInv, TypeInv, TypeOK
  <2>2. Same /\ Idle
    BY <1>3, <2>1, AskMove DEF StartSettle, Sending
  <2>3. QED
    BY <1>1, <2>2
<1>4. CASE SettleBegin(c)
  <2>1. Same /\ PlaceCall(c)'
    BY <1>4, BeginMove, PlaceLists DEF Itself
  <2>2. QED
    BY <1>2, <2>1
<1>5. CASE SettleCheck(c) \/ SettleFundFails(c) \/ ResumeEnd(c)
  <2>1. Same /\ Idle
    BY ZenonT(60), <1>5, CheckMove, FundMove, EndMove DEF GoesTo, Ends, Empty, Sending
  <2>2. QED
    BY <1>1, <2>1
<1>6. CASE SettleTake(c)
  <2>1. Same
    BY <1>6, TakeMove DEF Itself, GoesTo, Ends, Empty
  <2>2. CASE call'[c].pc = "fund"
    <3>1. call'[c].hand = pending /\ pending # {} /\ pending' = pending
      BY <1>6, <2>2, TakeMove DEF GoesTo, Ends, Empty
    <3>2. \A o \in DOMAIN built' : ~Target(c, o)'
      BY <2>2 DEF Target, Sending
    <3>3. PlaceCall(c)'
      BY <2>2, <3>1, <3>2 DEF PlaceCall
    <3>4. QED
      BY <1>2, <2>1, <3>3
  <2>3. CASE call'[c].pc # "fund"
    <3>1. Idle
      BY <1>6, <2>3, TakeMove DEF GoesTo, Ends, Empty, Sending
    <3>2. QED
      BY <1>1, <2>1, <3>1
  <2>4. QED
    BY <2>2, <2>3
<1>7. CASE SettleFund(c)
  <2>1. Same /\ call'[c].pc = "save" /\ call'[c].hand = call[c].hand /\ call[c].pc = "fund"
    BY <1>7, FundMove DEF Itself
  <2>2. \A o \in DOMAIN built' : ~Target(c, o)'
    BY <2>1 DEF Target, Sending
  <2>3. PlaceCall(c)'
    BY <2>1, <2>2 DEF PlaceCall, PlaceInv
  <2>4. QED
    BY <1>2, <2>1, <2>3
<1>8. CASE ResumeNext(c) \/ BroadcastReply(c) \/ LookupFinds(c)
  <2>1. /\ Same /\ call'[c].pc \in {"send", "mark", "lookup"}
        /\ call[c].pc \in {"loop", "reply", "lookup"}
        /\ call[c].pc = "loop" => call'[c].cur \in call[c].todo
        /\ call[c].pc # "loop" => call'[c].cur = call[c].cur
    BY <1>8, NextMove, ReplyMove DEF Itself, GoesTo
  <2>2. call'[c].cur \in DOMAIN built /\ Target(c, call'[c].cur)
    BY <2>1, CallFacts DEF HasBatch, Target, Sending
  <2>3. PlaceCall(c)'
    BY <2>1, <2>2, PlaceTarget DEF Sending
  <2>4. QED
    BY <1>2, <2>1, <2>3
<1>9. CASE LookupMisses(c)
  <2>1. Same /\ call[c].pc = "lookup" /\ ~OnChain(call[c].cur) /\ call[c].cur \in DOMAIN built
    BY <1>9, MissMove, CallFacts DEF Over, Ends, Empty, GoesTo, Unknown, PlaceHyp, HasBatch
  <2>2. CASE GoesTo(c, "delete")
    <3>o. PICK o : o = call[c].cur
      OBVIOUS
    <3>1. ~OnChain(o)' /\ call'[c].cur = o /\ call'[c].pc = "delete"
      BY <2>1, <2>2, <3>o DEF OnChain, GoesTo
    <3>2. \E p \in saved : Twin(o, p)
      BY <2>1, <3>o DEF PlaceInv, PlaceCall, Target, Sending
    <3>3. \A x \in DOMAIN built' : Target(c, x)' => x = o
      BY <3>1 DEF Target, Sending
    <3>4. PlaceCall(c)'
      BY <2>1, <3>1, <3>2, <3>3 DEF PlaceCall, Twin
    <3>5. QED
      BY <1>2, <2>1, <3>4
  <2>3. CASE Over(c, FALSE)
    <3>1. PlaceCall(c)'
      BY <2>1, <2>3, PlaceOver DEF Sending
    <3>2. QED
      BY <1>2, <2>1, <3>1
  <2>4. QED
    BY <1>9, <2>2, <2>3, MissMove
<1>10. CASE BroadcastPutBack(c)
  <2>o. PICK o : o = call[c].cur
    OBVIOUS
  <2>1. /\ Same /\ call[c].pc = "putBack" /\ call'[c].pc = "requeue"
        /\ call'[c].hand = built[o].queue /\ call'[c].cur = o /\ o \in DOMAIN built
    BY <1>10, <2>o, PutBackMove, CallFacts DEF Itself, HasBatch
  <2>2. /\ ~OnChain(o) /\ \A h \in Leaves(built[o].root) : ~Kept(h) /\ ~Waits(h)
        /\ BatchOK(o)
    BY <2>1, <2>o DEF PlaceInv, PlaceCall
  <2>3. /\ ~OnChain(o)'
        /\ \A h \in Leaves(built[o].root) : ~Kept(h)' /\ ~Waits(h)'
    BY <2>1, <2>2 DEF OnChain, Kept, Waits
  <2>4. PlaceCall(c)'
    BY <2>1, <2>2, <2>3 DEF PlaceCall, BatchOK
  <2>5. QED
    BY <1>2, <2>1, <2>4
<1>11. CASE BroadcastRejected(c)
  <2>1. Same /\ PlaceCall(c)'
    BY <1>11, RejectedMove, PlaceOver DEF Over, Ends, Empty, GoesTo, Sending
  <2>2. QED
    BY <1>2, <2>1
<1>12. CASE DueStep(c)
  <2>1. Same
    BY <1>12, DueMove DEF Itself, GoesTo, Ends, Empty
  <2>2. CASE call'[c].pc = "loop"
    <3>1. PlaceCall(c)'
      BY <1>12, <2>1, <2>2, DueMove, PlaceLists DEF GoesTo, Ends, Empty
    <3>2. QED
      BY <1>2, <2>1, <3>1
  <2>3. CASE call'[c].pc # "loop"
    <3>1. Idle
      BY <1>12, <2>3, DueMove DEF GoesTo, Ends, Empty, Sending
    <3>2. QED
      BY <1>1, <2>1, <3>1
  <2>4. QED
    BY <2>2, <2>3
<1>13. CASE RefreshStep(c) /\ UNCHANGED store
  <2>1. Same /\ Idle
    BY <1>13, RefreshMove DEF Ends, Empty, Sending
  <2>2. QED
    BY <1>1, <2>1
<1>14. QED
  BY <1>3, <1>4, <1>5, <1>6, <1>7, <1>8, <1>9, <1>10, <1>11, <1>12, <1>13, PlaceAdd

\* What another call has of the store stays right when batches keep their
\* transaction, one is kept for each twin, and the queue only grows.
LEMMA PlaceOther ==
    ASSUME IInv, PlaceInv, NEW c \in Calls, Others(c), NEW d \in Calls, d # c,
           call[d].pc \in Waiting \cup {"queued", "final"},
           call[d].pc = "fund" => call[d].hand \subseteq pending',
           DOMAIN built \subseteq DOMAIN built',
           \A o \in DOMAIN built : /\ built'[o].root = built[o].root
                                   /\ built'[o].spends = built[o].spends,
           \A o \in DOMAIN built : Target(d, o) =>
              \A p \in saved : Twin(o, p) => \E q \in saved' : /\ built'[q].root = built[o].root
                                                               /\ built'[q].spends = built[o].spends
    PROVE  PlaceCall(d)'
<1>1. PlaceCall(d) /\ call'[d] = call[d]
  BY DEF PlaceInv, Others
<1>2. call'[d].pc \notin {"list", "push", "save", "clear", "delete", "putBack", "requeue"}
  BY <1>1 DEF Waiting
<1>3. ASSUME NEW o \in DOMAIN built', Target(d, o)' PROVE \E p \in saved' : Twin(o, p)'
  <2>1. Target(d, o) /\ o \in DOMAIN built
    <3>1. Target(d, o)
      BY <1>1, <1>3 DEF Target
    <3>2. QED
      BY <3>1, CallFacts DEF Target, HasBatch, Sending
  <2>2. PICK p \in saved : Twin(o, p)
    BY <1>1, <1>2, <2>1 DEF PlaceCall
  <2>3. PICK q \in saved' : /\ built'[q].root = built[o].root
                            /\ built'[q].spends = built[o].spends
    BY <2>1, <2>2
  <2>4. QED
    BY <2>1, <2>3 DEF Twin
<1>4. QED
  BY <1>1, <1>2, <1>3 DEF PlaceCall

LEMMA PlacePush ==
    ASSUME IInv, Mutex, ~StoreYields, PlaceInv, NEW c \in Calls, AddStep(c), call[c].pc = "push"
    PROVE  PlaceInv'
<1>h. PICK h : h = call[c].hash
  OBVIOUS
<1>1. PICK e : /\ pending' = pending \cup {e} /\ e.hash = h
               /\ UNCHANGED <<built, saved, index, chain>> /\ Others(c)
               /\ call'[c].pc \in {"rest", "queued"}
  <2>1. /\ UNCHANGED <<built, saved, index, chain>> /\ Others(c)
        /\ call'[c].pc \in {"rest", "queued"}
    BY AddMove, AskMove DEF Returns, Ends, Empty, GoesTo
  <2>2. PICK e : /\ e = [at |-> pushes + 1, id |-> call[c].id, hash |-> call[c].hash]
                 /\ pending' = pending \cup {e}
    BY AddMove
  <2>3. e.hash = h
    BY <1>h, <2>2
  <2>4. QED
    BY <2>1, <2>2, <2>3
<1>2. h \in Hashes /\ ~Kept(h) /\ ~Waits(h)
  BY <1>h, CallFacts DEF HasHash, PlaceInv, PlaceCall
<1>3. \A g : (Waits(g)' <=> Waits(g) \/ g = h) /\ (Kept(g)' <=> Kept(g))
  BY <1>1 DEF Waits, Kept, Among
<1>4. ASSUME NEW d \in Calls PROVE PlaceCall(d)'
  <2>1. CASE d = c
    BY <1>1, <2>1, PlaceIdle DEF Sending
  <2>2. CASE d # c
    <3>1. call[d].pc \in Waiting \cup {"queued", "final"}
      BY <2>2, OthersWait DEF Busy, Working
    <3>2. call[d].pc = "fund" => call[d].hand \subseteq pending'
      BY <1>1 DEF PlaceInv, PlaceCall
    <3>3. QED
      BY <1>1, <2>2, <3>1, <3>2, PlaceOther DEF Twin
  <2>3. QED
    BY <2>1, <2>2
<1>5. OnePer(pending)'
  BY <1>1, <1>2 DEF PlaceInv, OnePer, Waits, Among
<1>6. \A o \in DOMAIN built' : BatchOK(o)'
  BY <1>1 DEF PlaceInv, BatchOK, OnChain
<1>7. \A g \in Hashes : IndexOK(g)'
  BY <1>1 DEF PlaceInv, IndexOK
<1>8. (\A g \in Hashes : Waits(g) /\ Kept(g) =>
          \E d \in Calls : call[d].pc = "clear" /\ Among(g, call[d].hand))'
  <2>1. ASSUME NEW g \in Hashes, Waits(g)', Kept(g)'
        PROVE  \E d \in Calls : call'[d].pc = "clear" /\ Among(g, call'[d].hand)
    <3>1. Waits(g) /\ Kept(g)
      BY <1>2, <1>3, <2>1
    <3>2. PICK d \in Calls : call[d].pc = "clear" /\ Among(g, call[d].hand)
      BY <3>1 DEF PlaceInv
    <3>3. d # c
      BY <3>2
    <3>4. QED
      BY <1>1, <3>2, <3>3 DEF Others
  <2>2. QED
    BY <2>1 DEF Among
<1>9. SentIsSaved'
  BY <1>1 DEF PlaceInv, SentIsSaved
<1>10. (\A o, p \in saved : \A g \in Leaves(built[o].root) :
          g \in Leaves(built[p].root) => o = p)'
  BY <1>1 DEF PlaceInv, Leaves
<1>11. QED
  BY <1>4, <1>5, <1>6, <1>7, <1>8, <1>9, <1>10 DEF PlaceInv

LEMMA PlaceRequeue ==
    ASSUME IInv, Mutex, ~StoreYields, PlaceInv, NEW c \in Calls, BroadcastRequeue(c)
    PROVE  PlaceInv'
<1>1. PICK e \in call[c].hand : Push(e) /\ call'[c].hand = call[c].hand \ {e}
  BY RequeueMove
<1>2. /\ UNCHANGED <<built, saved, index, chain>> /\ Others(c)
      /\ call[c].pc = "requeue" /\ call'[c].pc = "requeue"
      /\ call'[c].cur = call[c].cur
  BY RequeueMove DEF Itself
<1>3. PICK f : f.hash = e.hash /\ pending' = pending \cup {f}
  <2>1. e \in Entry
    BY <1>1, Typed
  <2>2. [e EXCEPT !.at = pushes + 1].hash = e.hash
    BY <2>1 DEF Entry
  <2>3. QED
    BY <1>1, <2>2 DEF Push
<1>h. PICK h : h = e.hash
  OBVIOUS
<1>4. ~Kept(h) /\ ~Waits(h) /\ OnePer(call[c].hand) /\ ~OnChain(call[c].cur)
      /\ \A g \in call[c].hand : ~Kept(g.hash) /\ ~Waits(g.hash)
  BY <1>1, <1>2, <1>h DEF PlaceInv, PlaceCall
<1>5. \A g : (Waits(g)' <=> Waits(g) \/ g = h) /\ (Kept(g)' <=> Kept(g))
  BY <1>2, <1>3, <1>h DEF Waits, Kept, Among
<1>6. ASSUME NEW d \in Calls PROVE PlaceCall(d)'
  <2>1. CASE d = c
    <3>1. OnePer(call'[c].hand) /\ \A g \in call'[c].hand : ~Kept(g.hash)' /\ ~Waits(g.hash)'
      BY <1>1, <1>4, <1>5, <1>h DEF OnePer
    <3>2. ~OnChain(call[c].cur)'
      <4>1. PICK o : o = call[c].cur
        OBVIOUS
      <4>2. QED
        BY <1>2, <1>4, <4>1 DEF OnChain
    <3>3. QED
      BY <1>2, <2>1, <3>1, <3>2 DEF PlaceCall, OnChain
  <2>2. CASE d # c
    <3>1. call[d].pc \in Waiting \cup {"queued", "final"}
      BY <1>2, <2>2, OthersWait DEF Busy, Working
    <3>2. call[d].pc = "fund" => call[d].hand \subseteq pending'
      BY <1>3 DEF PlaceInv, PlaceCall
    <3>3. QED
      BY <1>2, <2>2, <3>1, <3>2, PlaceOther DEF Twin
  <2>3. QED
    BY <2>1, <2>2
<1>7. OnePer(pending)'
  BY <1>3, <1>4, <1>h DEF PlaceInv, OnePer, Waits, Among
<1>8. \A o \in DOMAIN built' : BatchOK(o)'
  BY <1>2 DEF PlaceInv, BatchOK, OnChain
<1>9. \A g \in Hashes : IndexOK(g)'
  BY <1>2 DEF PlaceInv, IndexOK
<1>10. (\A g \in Hashes : Waits(g) /\ Kept(g) =>
          \E d \in Calls : call[d].pc = "clear" /\ Among(g, call[d].hand))'
  <2>1. ASSUME NEW g \in Hashes, Waits(g)', Kept(g)'
        PROVE  \E d \in Calls : call'[d].pc = "clear" /\ Among(g, call'[d].hand)
    <3>1. Waits(g) /\ Kept(g)
      BY <1>4, <1>5, <2>1
    <3>2. PICK d \in Calls : call[d].pc = "clear" /\ Among(g, call[d].hand)
      BY <3>1 DEF PlaceInv
    <3>3. d # c
      BY <1>2, <3>2
    <3>4. QED
      BY <1>2, <3>2, <3>3 DEF Others
  <2>2. QED
    BY <2>1 DEF Among
<1>11. SentIsSaved'
  BY <1>2 DEF PlaceInv, SentIsSaved
<1>12. (\A o, p \in saved : \A g \in Leaves(built[o].root) :
          g \in Leaves(built[p].root) => o = p)'
  BY <1>2 DEF PlaceInv, Leaves
<1>13. QED
  BY <1>6, <1>7, <1>8, <1>9, <1>10, <1>11, <1>12 DEF PlaceInv

\* Between two settlements, and while one saves, no hash that waits is kept.
LEMMA NoClear ==
    ASSUME IInv, PlaceInv, \A d \in Calls : call[d].pc # "clear"
    PROVE  \A h : Waits(h) => ~Kept(h)
<1>1. \A h : Waits(h) => h \in Hashes
  BY Typed DEF Waits, Among, Entry
<1>2. QED
  BY <1>1 DEF PlaceInv

LEMMA PlaceSave ==
    ASSUME IInv, Mutex, ~StoreYields, PlaceInv, NEW c \in Calls, SettleSave(c)
    PROVE  PlaceInv' /\ saved' = saved \cup {Len(built) + 1}
<1>n. PICK n : n = Len(built) + 1
  OBVIOUS
<1>r. PICK r : r = Root(call[c].hand)
  OBVIOUS
<1>1. /\ UNCHANGED <<pending, chain>> /\ Others(c) /\ call[c].pc = "save"
      /\ call'[c].pc = "clear" /\ call'[c].cur = n /\ call'[c].hand = call[c].hand
  BY <1>n, SaveMove DEF Itself
<1>2. /\ DOMAIN built' = DOMAIN built \cup {n} /\ n \notin DOMAIN built /\ n \in Nat
      /\ \A o \in DOMAIN built : built'[o] = built[o]
      /\ built'[n].root = r /\ built'[n].queue = call[c].hand
      /\ saved' = {p \in saved : built[p].root # r} \cup {n}
      /\ index' = [h \in Hashes |-> IF h \in Leaves(r) THEN r ELSE index[h]]
  <2>1. SavesNew(c)
    BY SaveMove
  <2>2. saved' = {p \in saved : built[p].root # r} \cup {n}
    BY <1>n, <1>r, <2>1 DEF SavesNew
  <2>3. index' = [h \in Hashes |-> IF h \in Leaves(r) THEN r ELSE index[h]]
    BY <1>r, <2>1 DEF SavesNew
  <2>4. QED
    BY <1>n, <1>r, <2>1, <2>2, <2>3 DEF SavesNew
<1>3. call[c].hand \subseteq pending /\ call[c].hand # {} /\ OnePer(pending)
  BY <1>1 DEF PlaceInv, PlaceCall
<1>4. (\A h : h \in Leaves(r) <=> Among(h, call[c].hand)) /\ r # {} /\ r \in Roots
  BY <1>r, <1>3, RootLeaves, Typed, CallFacts, RootType
<1>5. \A d \in Calls : d # c => call[d].pc \in Waiting \cup {"queued", "final"}
  BY <1>1, OthersWait DEF Busy, Working
<1>6. \A h : h \in Leaves(r) => ~Kept(h) /\ Waits(h)
  <2>1. \A d \in Calls : call[d].pc # "clear"
    BY <1>1, <1>5 DEF Waiting
  <2>2. \A h : h \in Leaves(r) => Waits(h)
    BY <1>3, <1>4 DEF Waits, Among
  <2>3. QED
    BY <2>1, <2>2, NoClear
<1>7. saved' = saved \cup {n} /\ saved \subseteq DOMAIN built
  <2>1. PICK h : h \in Leaves(r)
    BY <1>4, LeavesType
  <2>2. \A p \in saved : built[p].root # r
    BY <1>6, <2>1 DEF Kept
  <2>3. QED
    BY <1>2, <2>2, Typed
<1>8. \A h : (Kept(h)' <=> Kept(h) \/ h \in Leaves(r)) /\ (Waits(h)' <=> Waits(h))
  <2>1. \A o \in saved : built'[o].root = built[o].root
    BY <1>2, <1>7
  <2>2. QED
    BY <1>1, <1>2, <1>7, <2>1 DEF Kept, Waits, Among
<1>9. ASSUME NEW d \in Calls PROVE PlaceCall(d)'
  <2>1. CASE d = c
    <3>1. \A e \in call[c].hand : Kept(e.hash)'
      BY <1>4, <1>8 DEF Among
    <3>2. \A o \in DOMAIN built' : Target(c, o)' => o \in saved'
      BY <1>1, <1>7 DEF Target
    <3>3. QED
      BY <1>1, <1>3, <2>1, <3>1, <3>2 DEF PlaceCall, Twin
  <2>2. CASE d # c
    <3>1. call[d].pc = "fund" => call[d].hand \subseteq pending'
      BY <1>1 DEF PlaceInv, PlaceCall
    <3>2. \A o \in DOMAIN built : built'[o].root = built[o].root
                                  /\ built'[o].spends = built[o].spends
      BY <1>2
    <3>3. \A o \in DOMAIN built : \A p \in saved : Twin(o, p) =>
              \E q \in saved' : /\ built'[q].root = built[o].root
                                /\ built'[q].spends = built[o].spends
      BY <1>7, <3>2 DEF Twin
    <3>4. QED
      BY <1>1, <1>2, <1>5, <2>2, <3>1, <3>2, <3>3, PlaceOther
  <2>3. QED
    BY <2>1, <2>2
<1>10. OnePer(pending)'
  BY <1>1, <1>3 DEF OnePer
<1>11. ASSUME NEW o \in DOMAIN built' PROVE BatchOK(o)'
  <2>1. CASE o = n
    BY <1>2, <1>3, <1>4, <2>1 DEF BatchOK, OnePer, Among
  <2>2. CASE o # n
    BY <1>1, <1>2, <2>2 DEF PlaceInv, BatchOK, OnChain
  <2>3. QED
    BY <2>1, <2>2
<1>12. ASSUME NEW h \in Hashes PROVE IndexOK(h)'
  <2>1. CASE h \in Leaves(r)
    <3>1. index'[h] = r /\ ~Kept(h)
      BY <1>2, <1>6, <2>1
    <3>2. \A o \in saved' : h \in Leaves(built'[o].root) => o = n
      BY <1>2, <1>7, <3>1 DEF Kept
    <3>3. QED
      BY <1>2, <1>7, <2>1, <3>1, <3>2 DEF IndexOK
  <2>2. CASE h \notin Leaves(r)
    <3>1. index'[h] = index[h] /\ IndexOK(h)
      BY <1>2, <2>2 DEF PlaceInv
    <3>2. QED
      BY <1>2, <1>7, <2>2, <3>1 DEF IndexOK
  <2>3. QED
    BY <2>1, <2>2
<1>13. ASSUME NEW h \in Hashes, Waits(h)', Kept(h)'
       PROVE  \E d \in Calls : call'[d].pc = "clear" /\ Among(h, call'[d].hand)
  <2>1. h \in Leaves(r)
    <3>1. \A d \in Calls : call[d].pc # "clear"
      BY <1>1, <1>5 DEF Waiting
    <3>2. QED
      BY <1>8, <1>13, <3>1, NoClear
  <2>2. QED
    BY <1>1, <1>4, <2>1
<1>14. SentIsSaved'
  BY <1>1, <1>2, <1>7 DEF PlaceInv, SentIsSaved
<1>15. ASSUME NEW o \in saved', NEW p \in saved', NEW h \in Leaves(built'[o].root),
              h \in Leaves(built'[p].root)
       PROVE  o = p
  <2>1. CASE h \in Leaves(r)
    BY <1>2, <1>6, <1>7, <1>15, <2>1 DEF Kept
  <2>2. CASE h \notin Leaves(r)
    <3>1. o \in saved /\ p \in saved /\ built'[o] = built[o] /\ built'[p] = built[p]
      BY <1>2, <1>7, <1>15, <2>2
    <3>2. QED
      BY <1>15, <3>1 DEF PlaceInv
  <2>3. QED
    BY <2>1, <2>2
<1>16. (\A h \in Hashes : Waits(h) /\ Kept(h) =>
          \E d \in Calls : call[d].pc = "clear" /\ Among(h, call[d].hand))'
  BY <1>13 DEF Among
<1>17. (\A o, p \in saved : \A h \in Leaves(built[o].root) :
          h \in Leaves(built[p].root) => o = p)'
  BY <1>15 DEF Leaves
<1>18. QED
  BY <1>n, <1>7, <1>9, <1>10, <1>11, <1>12, <1>14, <1>16, <1>17 DEF PlaceInv

\* _settle clears the entries it took and no other.
LEMMA ClearsHand ==
    ASSUME IInv, IdsInv, PlaceInv, NEW c \in Calls, SettleClear(c)
    PROVE  pending' = pending \ call[c].hand
<1>1. /\ pending' = {e \in pending : e.id \notin {f.id : f \in call[c].hand}}
      /\ call[c].hand \subseteq pending /\ OnePer(pending)
  BY ClearMove DEF PlaceInv, PlaceCall
<1>2. ASSUME NEW e \in pending, NEW f \in call[c].hand, e.id = f.id
      PROVE  e = f
  <2>1. <<e.id, e.hash>> \in Ids /\ <<f.id, f.hash>> \in Ids
    BY <1>1, IdsHas DEF EntryIds
  <2>2. e.hash = f.hash
    BY <1>2, <2>1 DEF IdsInv
  <2>3. QED
    BY <1>1, <2>2 DEF OnePer
<1>3. QED
  BY <1>1, <1>2

LEMMA PlaceClear ==
    ASSUME IInv, Mutex, IdsInv, ~StoreYields, PlaceInv, NEW c \in Calls, SettleClear(c)
    PROVE  PlaceInv'
<1>1. /\ UNCHANGED <<built, saved, index, chain>> /\ Others(c) /\ call[c].pc = "clear"
      /\ call'[c].pc = "send" /\ call'[c].cur = call[c].cur /\ InChain(c)
      /\ pending' = pending \ call[c].hand
  BY ClearMove, ClearsHand DEF Itself
<1>2. call[c].hand \subseteq pending /\ OnePer(pending)
  BY <1>1 DEF PlaceInv, PlaceCall
<1>3. \A h : (Waits(h)' <=> Waits(h) /\ ~Among(h, call[c].hand)) /\ (Kept(h)' <=> Kept(h))
  BY <1>1, <1>2 DEF Waits, Among, OnePer, Kept
<1>4. \A d \in Calls : d # c => call[d].pc \in Waiting \cup {"queued", "final"}
  BY <1>1, OthersWait DEF Busy, Working
<1>5. ASSUME NEW d \in Calls PROVE PlaceCall(d)'
  <2>1. CASE d = c
    <3>1. /\ call'[c].pc \in Sending \ {"delete", "putBack", "requeue"}
          /\ call'[c].cur \in DOMAIN built /\ Target(c, call'[c].cur)
      BY <1>1, CallFacts DEF Sending, Target, HasBatch
    <3>2. QED
      BY <1>1, <2>1, <3>1, PlaceTarget
  <2>2. CASE d # c
    <3>1. call[d].pc # "fund"
      BY <1>1, <2>2, CallFacts DEF Active, Settling
    <3>2. QED
      BY <1>1, <1>4, <2>2, <3>1, PlaceOther DEF Twin
  <2>3. QED
    BY <2>1, <2>2
<1>6. OnePer(pending)'
  BY <1>1, <1>2 DEF OnePer
<1>7. \A o \in DOMAIN built' : BatchOK(o)'
  BY <1>1 DEF PlaceInv, BatchOK, OnChain
<1>8. \A h \in Hashes : IndexOK(h)'
  BY <1>1 DEF PlaceInv, IndexOK
<1>9. (\A h \in Hashes : Waits(h) /\ Kept(h) =>
          \E d \in Calls : call[d].pc = "clear" /\ Among(h, call[d].hand))'
  <2>1. ASSUME NEW h \in Hashes, Waits(h)', Kept(h)' PROVE FALSE
    <3>1. Waits(h) /\ Kept(h) /\ ~Among(h, call[c].hand)
      BY <1>3, <2>1
    <3>2. PICK d \in Calls : call[d].pc = "clear" /\ Among(h, call[d].hand)
      BY <3>1 DEF PlaceInv
    <3>3. d = c
      BY <1>4, <3>2 DEF Waiting
    <3>4. QED
      BY <3>1, <3>2, <3>3
  <2>2. QED
    BY <2>1
<1>10. SentIsSaved'
  BY <1>1 DEF PlaceInv, SentIsSaved
<1>11. (\A o, p \in saved : \A g \in Leaves(built[o].root) :
          g \in Leaves(built[p].root) => o = p)'
  BY <1>1 DEF PlaceInv, Leaves
<1>12. QED
  BY <1>5, <1>6, <1>7, <1>8, <1>9, <1>10, <1>11 DEF PlaceInv

LEMMA PlaceSend ==
    ASSUME IInv, Mutex, ~StoreYields, PlaceInv, NEW c \in Calls, BroadcastSend(c)
    PROVE  PlaceInv'
<1>o. PICK o : o = call[c].cur
  OBVIOUS
<1>1. /\ UNCHANGED <<pending, built, saved, index>> /\ Others(c) /\ Free
      /\ call[c].pc = "send" /\ call'[c].pc = "reply" /\ call'[c].cur = o
      /\ o \in DOMAIN built /\ NodeAnswers(o, call'[c].reply)
  BY <1>o, SendMove, CallFacts DEF Itself, store, HasBatch
<1>2. /\ \/ chain' = chain
         \/ Acceptable(o) /\ chain' = Append(chain, built[o].root)
      /\ \A p \in DOMAIN built : OnChain(p) => OnChain(p)'
  BY <1>1, Answers
<1>3. \A d \in Calls : d # c => call[d].pc \in Waiting \cup {"queued", "final"}
  BY <1>1, OthersWait
<1>4. ASSUME NEW d \in Calls PROVE PlaceCall(d)'
  <2>1. CASE d = c
    <3>1. /\ call'[c].pc \in Sending \ {"delete", "putBack", "requeue"}
          /\ call'[c].cur \in DOMAIN built /\ Target(c, call'[c].cur)
      BY <1>o, <1>1 DEF Sending, Target
    <3>2. QED
      BY <1>1, <2>1, <3>1, PlaceTarget
  <2>2. CASE d # c
    <3>1. call[d].pc = "fund" => call[d].hand \subseteq pending'
      BY <1>1 DEF PlaceInv, PlaceCall
    <3>2. QED
      BY <1>1, <1>3, <2>2, <3>1, PlaceOther DEF Twin
  <2>3. QED
    BY <2>1, <2>2
<1>5. OnePer(pending)'
  BY <1>1 DEF PlaceInv, OnePer
<1>6. ASSUME NEW p \in DOMAIN built' PROVE BatchOK(p)'
  BY <1>1, <1>2 DEF PlaceInv, BatchOK
<1>7. \A h \in Hashes : IndexOK(h)'
  BY <1>1 DEF PlaceInv, IndexOK
<1>8. (\A h \in Hashes : Waits(h) /\ Kept(h) =>
          \E d \in Calls : call[d].pc = "clear" /\ Among(h, call[d].hand))'
  <2>1. ASSUME NEW h \in Hashes, Waits(h)', Kept(h)' PROVE FALSE
    <3>1. Waits(h) /\ Kept(h)
      BY <1>1, <2>1 DEF Waits, Kept
    <3>2. QED
      BY <1>1, <1>3, <3>1 DEF PlaceInv, Waiting
  <2>2. QED
    BY <2>1
<1>9. SentIsSaved'
  <2>0. chain \in Seq(Roots) /\ built[o].root \in Roots
    BY <1>1, Typed DEF IInv, TypeInv, TypeOK
  <2>1. PICK p \in saved : Twin(o, p)
    BY <1>o, <1>1 DEF PlaceInv, PlaceCall, Target, Sending
  <2>2. ASSUME NEW k \in DOMAIN chain'
        PROVE  \E q \in saved : built[q].spends + 1 = k /\ built[q].root = chain'[k]
    <3>1. CASE k \in DOMAIN chain
      <4>1. chain'[k] = chain[k]
        BY <1>2, <2>0, <3>1
      <4>2. QED
        BY <3>1, <4>1 DEF PlaceInv, SentIsSaved
    <3>2. CASE k \notin DOMAIN chain
      <4>1. /\ Acceptable(o) /\ k = Len(chain) + 1 /\ chain'[k] = built[o].root
        BY <1>2, <2>0, <2>2, <3>2
      <4>2. built[p].spends + 1 = k /\ built[p].root = chain'[k]
        BY <2>1, <4>1 DEF Twin, Acceptable
      <4>3. QED
        BY <4>2
    <3>3. QED
      BY <3>1, <3>2
  <2>3. QED
    BY <1>1, <2>2 DEF SentIsSaved
<1>10. (\A q, p \in saved : \A g \in Leaves(built[q].root) :
          g \in Leaves(built[p].root) => q = p)'
  BY <1>1 DEF PlaceInv, Leaves
<1>11. QED
  BY <1>4, <1>5, <1>6, <1>7, <1>8, <1>9, <1>10 DEF PlaceInv

\* The batch given up is the store's copy of the one the call holds; its
\* transaction is not on the chain.
LEMMA PlaceDelete ==
    ASSUME IInv, NodeInv, SpendInv, Mutex, ~StoreYields, PlaceInv,
           NEW c \in Calls, BroadcastDelete(c)
    PROVE  PlaceInv'
<1>o. PICK o : o = call[c].cur
  OBVIOUS
<1>r. PICK r : r = built[o].root
  OBVIOUS
<1>1. /\ UNCHANGED <<pending, built, chain>> /\ Others(c)
      /\ call[c].pc = "delete" /\ call'[c].pc = "putBack" /\ call'[c].cur = o
      /\ o \in DOMAIN built
      /\ saved' = {p \in saved : built[p].root # r} /\ DeleteBatch(r)
  BY <1>o, <1>r, DeleteMove, CallFacts DEF GoesTo, HasBatch
<1>2. ~OnChain(o) /\ \E p \in saved : Twin(o, p)
  BY <1>o, <1>1 DEF PlaceInv, PlaceCall, Target, Sending
<1>3. PICK q \in saved : built[q].root = r /\ built[q].spends = built[o].spends
  BY <1>2, <1>r DEF Twin
<1>4. r \in Roots /\ saved \subseteq DOMAIN built /\ index \in [Hashes -> Roots]
  BY <1>1, <1>r, Typed
<1>5. index' = [h \in Hashes |-> IF index[h] = r THEN {} ELSE index[h]]
  <2>1. saved' # saved
    BY <1>1, <1>3
  <2>2. QED
    BY <1>1, <2>1 DEF DeleteBatch
<1>6. \A h : (Kept(h)' <=> Kept(h) /\ h \notin Leaves(r)) /\ (Waits(h)' <=> Waits(h))
  <2>1. \A h, p : p \in saved /\ h \in Leaves(built[p].root) /\ h \in Leaves(r)
                     => built[p].root = r
    BY <1>3 DEF PlaceInv
  <2>2. QED
    BY <1>1, <2>1 DEF Kept, Waits
<1>7. \A d \in Calls : d # c => call[d].pc \in Waiting \cup {"queued", "final"}
  BY <1>1, OthersWait DEF Busy, Working
<1>8. \A h : Waits(h) => ~Kept(h)
  BY <1>1, <1>7, NoClear DEF Waiting
<1>9. ASSUME NEW d \in Calls PROVE PlaceCall(d)'
  <2>1. CASE d = c
    <3>1. \A h \in Leaves(r) : Kept(h)
      BY <1>3 DEF Kept
    <3>2. ~OnChain(o)'
      BY <1>1, <1>2 DEF OnChain
    <3>3. QED
      BY <1>1, <1>6, <1>8, <1>r, <2>1, <3>1, <3>2 DEF PlaceCall
  <2>2. CASE d # c
    <3>1. ASSUME NEW x \in DOMAIN built, Target(d, x) PROVE FALSE
      <4>1. "due" \notin Ops
        BY <1>1 DEF SpendInv, SpendCall
      <4>2. call[d].pc \in Sending \cup {"clear", "loop"}
        BY <3>1 DEF Target
      <4>3. InChain(d) /\ InChain(c)
        <5>1. \A x2 \in Calls : call[x2].pc = "clear" => InChain(x2)
          BY CallFacts DEF Active, Settling
        <5>2. QED
          BY <1>1, <4>1, <4>2, <5>1 DEF SpendInv, SpendCall, DueOnly, Sending
      <4>4. QED
        BY <1>1, <2>2, <4>2, <4>3, SettlingOne DEF Sending
    <3>2. call[d].pc = "fund" => call[d].hand \subseteq pending'
      BY <1>1 DEF PlaceInv, PlaceCall
    <3>3. QED
      BY <1>1, <1>7, <2>2, <3>1, <3>2, PlaceOther
  <2>3. QED
    BY <2>1, <2>2
<1>10. OnePer(pending)'
  BY <1>1 DEF PlaceInv, OnePer
<1>11. \A p \in DOMAIN built' : BatchOK(p)'
  BY <1>1 DEF PlaceInv, BatchOK, OnChain
<1>12. ASSUME NEW h \in Hashes PROVE IndexOK(h)'
  <2>1. IndexOK(h)
    BY DEF PlaceInv
  <2>2. ASSUME NEW p \in saved', h \in Leaves(built[p].root) PROVE index'[h] = built[p].root
    BY <1>1, <1>5, <2>1, <2>2 DEF IndexOK
  <2>3. ASSUME index'[h] # {}
        PROVE  \E p \in saved' : built[p].root = index'[h] /\ h \in Leaves(built[p].root)
    BY <1>1, <1>5, <2>1, <2>3 DEF IndexOK
  <2>4. QED
    BY <1>1, <2>2, <2>3 DEF IndexOK
<1>13. (\A h \in Hashes : Waits(h) /\ Kept(h) =>
          \E d \in Calls : call[d].pc = "clear" /\ Among(h, call[d].hand))'
  BY <1>6, <1>8
<1>14. SentIsSaved'
  <2>1. ASSUME NEW k \in DOMAIN chain
        PROVE  \E p \in saved' : built[p].spends + 1 = k /\ built[p].root = chain[k]
    <3>1. PICK p \in saved : built[p].spends + 1 = k /\ built[p].root = chain[k]
      BY DEF PlaceInv, SentIsSaved
    <3>2. built[p].root # r
      <4>1. SUFFICES ASSUME built[p].root = r PROVE FALSE
        OBVIOUS
      <4>2. p = q
        BY <1>3, <4>1 DEF NodeInv
      <4>3. built[o].spends + 1 = k /\ r = chain[k] /\ built[o].spends \in Nat
        BY <1>1, <1>3, <3>1, <4>1, <4>2, Typed
      <4>4. built[o].spends < Len(chain)
        BY <4>3, Typed
      <4>5. QED
        BY <1>2, <1>r, <4>3, <4>4 DEF OnChain
    <3>3. QED
      BY <1>1, <3>1, <3>2
  <2>2. QED
    BY <1>1, <2>1 DEF SentIsSaved
<1>15. (\A x, p \in saved : \A g \in Leaves(built[x].root) :
          g \in Leaves(built[p].root) => x = p)'
  BY <1>1 DEF PlaceInv, Leaves
<1>16. QED
  BY <1>9, <1>10, <1>11, <1>12, <1>13, <1>14, <1>15 DEF PlaceInv

\* A batch saved again takes the place of the store's copy of it.
LEMMA PlaceMarks ==
    ASSUME IInv, NodeInv, PlaceInv, NEW c \in Calls, NEW o \in DOMAIN built, Marks(o),
           OnChain(o), NEW q \in saved, Twin(o, q), UNCHANGED <<pending, chain>>, Others(c),
           call[c].pc \in {"mark", "refetch"}, PlaceCall(c)',
           \A d \in Calls : d # c => call[d].pc \in Waiting \cup {"queued", "final"}
    PROVE  PlaceInv' /\ \A h : Kept(h)' <=> Kept(h)
<1>r. PICK r : r = built[o].root
  OBVIOUS
<1>1. /\ DOMAIN built' = DOMAIN built
      /\ \A p \in DOMAIN built : /\ built'[p].root = built[p].root
                                 /\ built'[p].spends = built[p].spends
                                 /\ built'[p].queue \in {built[p].queue, {}}
                                 /\ p # o => built'[p] = built[p]
      /\ index' = [h \in Hashes |-> IF h \in Leaves(r) THEN r ELSE index[h]]
      /\ saved' = {p \in saved : built[p].root # r} \cup {o}
  BY <1>r DEF Marks
<1>2. /\ q \in DOMAIN built /\ built[q].root = r /\ built[q].spends = built[o].spends
      /\ \A p \in saved : built[p].root = r => p = q
      /\ saved \subseteq DOMAIN built /\ r # {} /\ index \in [Hashes -> Roots]
  BY <1>r, Typed DEF Twin, NodeInv, PlaceInv, BatchOK
<1>3. \A p \in saved : p # q => p \in saved'
  BY <1>1, <1>2
<1>4. \A h : (Kept(h)' <=> Kept(h)) /\ (Waits(h)' <=> Waits(h))
  <2>1. \A h : Waits(h)' <=> Waits(h)
    BY DEF Waits
  <2>2. ASSUME NEW h, Kept(h) PROVE Kept(h)'
    <3>1. PICK p \in saved : h \in Leaves(built[p].root)
      BY <2>2 DEF Kept
    <3>2. CASE p = q
      <4>1. o \in saved' /\ h \in Leaves(built'[o].root)
        BY <1>1, <1>2, <1>r, <3>1, <3>2
      <4>2. QED
        BY <4>1 DEF Kept
    <3>3. CASE p # q
      <4>1. p \in saved' /\ h \in Leaves(built'[p].root)
        BY <1>1, <1>2, <1>3, <3>1, <3>3
      <4>2. QED
        BY <4>1 DEF Kept
    <3>4. QED
      BY <3>2, <3>3
  <2>3. ASSUME NEW h, Kept(h)' PROVE Kept(h)
    <3>1. PICK p \in saved' : h \in Leaves(built'[p].root)
      BY <2>3 DEF Kept
    <3>2. CASE p = o
      BY <1>1, <1>2, <1>r, <3>1, <3>2 DEF Kept
    <3>3. CASE p # o
      BY <1>1, <1>2, <3>1, <3>3 DEF Kept
    <3>4. QED
      BY <3>2, <3>3
  <2>4. QED
    BY <2>1, <2>2, <2>3
<1>5. \A p \in DOMAIN built : OnChain(p)' <=> OnChain(p)
  BY <1>1 DEF OnChain
<1>6. ASSUME NEW d \in Calls PROVE PlaceCall(d)'
  <2>1. CASE d = c
    BY <2>1
  <2>2. CASE d # c
    <3>1. call[d].pc = "fund" => call[d].hand \subseteq pending'
      BY DEF PlaceInv, PlaceCall
    <3>2. \A x \in DOMAIN built : built'[x].root = built[x].root
                                  /\ built'[x].spends = built[x].spends
      BY <1>1
    <3>3. \A x \in DOMAIN built : \A p \in saved : Twin(x, p) =>
              \E y \in saved' : /\ built'[y].root = built[x].root
                                /\ built'[y].spends = built[x].spends
      <4>1. SUFFICES ASSUME NEW x \in DOMAIN built, NEW p \in saved, Twin(x, p)
                     PROVE  \E y \in saved' : /\ built'[y].root = built[x].root
                                              /\ built'[y].spends = built[x].spends
        OBVIOUS
      <4>2. CASE p = q
        <5>1. /\ o \in saved' /\ built'[o].root = built[x].root
              /\ built'[o].spends = built[x].spends
          BY <1>1, <1>2, <1>r, <4>1, <4>2 DEF Twin
        <5>2. QED
          BY <5>1
      <4>3. CASE p # q
        <5>1. /\ p \in saved' /\ built'[p].root = built[x].root
              /\ built'[p].spends = built[x].spends
          BY <1>1, <1>2, <1>3, <4>1, <4>3 DEF Twin
        <5>2. QED
          BY <5>1
      <4>4. QED
        BY <4>2, <4>3
    <3>4. QED
      BY <1>1, <2>2, <3>1, <3>2, <3>3, PlaceOther
  <2>3. QED
    BY <2>1, <2>2
<1>7. OnePer(pending)'
  BY DEF PlaceInv, OnePer
<1>8. ASSUME NEW p \in DOMAIN built' PROVE BatchOK(p)'
  <2>1. BatchOK(p)
    BY <1>1 DEF PlaceInv
  <2>2. CASE p = o
    BY <1>1, <1>5, <2>1, <2>2 DEF BatchOK, OnePer
  <2>3. CASE p # o
    BY <1>1, <1>5, <2>1, <2>3 DEF BatchOK
  <2>4. QED
    BY <2>2, <2>3
<1>9. ASSUME NEW h \in Hashes PROVE IndexOK(h)'
  <2>1. IndexOK(h)
    BY DEF PlaceInv
  <2>2. CASE h \in Leaves(r)
    <3>1. index[h] = r
      BY <1>2, <2>1, <2>2 DEF IndexOK
    <3>2. index'[h] = r
      BY <1>1, <2>2
    <3>3. ASSUME NEW p \in saved', h \in Leaves(built'[p].root) PROVE built'[p].root = r
      BY <1>1, <1>2, <1>r, <2>1, <3>1, <3>3 DEF IndexOK
    <3>4. o \in saved' /\ built'[o].root = r
      BY <1>1, <1>r
    <3>5. QED
      BY <2>2, <3>2, <3>3, <3>4 DEF IndexOK
  <2>3. CASE h \notin Leaves(r)
    <3>1. index'[h] = index[h]
      BY <1>1, <2>3
    <3>2. ASSUME NEW p \in saved', h \in Leaves(built'[p].root)
          PROVE  index[h] = built'[p].root
      BY <1>1, <1>2, <1>r, <2>1, <2>3, <3>2 DEF IndexOK
    <3>3. ASSUME index[h] # {}
          PROVE  \E p \in saved' : built'[p].root = index[h] /\ h \in Leaves(built'[p].root)
      <4>1. PICK p \in saved : built[p].root = index[h] /\ h \in Leaves(built[p].root)
        BY <2>1, <3>3 DEF IndexOK
      <4>2. p \in saved' /\ built'[p].root = built[p].root
        BY <1>1, <1>2, <1>3, <2>3, <4>1
      <4>3. QED
        BY <4>1, <4>2
    <3>4. QED
      BY <3>1, <3>2, <3>3 DEF IndexOK
  <2>4. QED
    BY <2>2, <2>3
<1>10. (\A h \in Hashes : Waits(h) /\ Kept(h) =>
          \E d \in Calls : call[d].pc = "clear" /\ Among(h, call[d].hand))'
  <2>1. \A d \in Calls : call[d].pc # "clear"
    BY DEF Waiting
  <2>2. QED
    BY <1>4, <2>1, NoClear
<1>11. SentIsSaved'
  <2>1. ASSUME NEW k \in DOMAIN chain
        PROVE  \E p \in saved' : built'[p].spends + 1 = k /\ built'[p].root = chain[k]
    <3>1. PICK p \in saved : built[p].spends + 1 = k /\ built[p].root = chain[k]
      BY DEF PlaceInv, SentIsSaved
    <3>2. CASE p = q
      <4>1. o \in saved' /\ built'[o].spends + 1 = k /\ built'[o].root = chain[k]
        BY <1>1, <1>2, <1>r, <3>1, <3>2
      <4>2. QED
        BY <4>1
    <3>3. CASE p # q
      <4>1. p \in saved' /\ built'[p].spends + 1 = k /\ built'[p].root = chain[k]
        BY <1>1, <1>2, <1>3, <3>1, <3>3
      <4>2. QED
        BY <4>1
    <3>4. QED
      BY <3>2, <3>3
  <2>2. QED
    BY <2>1 DEF SentIsSaved
<1>12. ASSUME NEW x \in saved', NEW p \in saved', NEW g \in Leaves(built'[x].root),
              g \in Leaves(built'[p].root)
       PROVE  x = p
  <2>1. /\ x \in DOMAIN built /\ p \in DOMAIN built
        /\ g \in Leaves(built[x].root) /\ g \in Leaves(built[p].root)
        /\ (x = o \/ (x \in saved /\ built[x].root # r))
        /\ (p = o \/ (p \in saved /\ built[p].root # r))
    BY <1>1, <1>2, <1>12
  <2>2. CASE x = o /\ p # o
    <3>1. g \in Leaves(built[q].root)
      BY <1>2, <1>r, <2>1, <2>2
    <3>2. p = q
      BY <2>1, <2>2, <3>1 DEF PlaceInv
    <3>3. QED
      BY <1>2, <2>1, <2>2, <3>2
  <2>3. CASE x # o /\ p = o
    <3>1. g \in Leaves(built[q].root)
      BY <1>2, <1>r, <2>1, <2>3
    <3>2. x = q
      BY <2>1, <2>3, <3>1 DEF PlaceInv
    <3>3. QED
      BY <1>2, <2>1, <2>3, <3>2
  <2>4. CASE x # o /\ p # o
    BY <2>1, <2>4 DEF PlaceInv
  <2>5. QED
    BY <2>2, <2>3, <2>4
<1>13. (\A x, p \in saved : \A g \in Leaves(built[x].root) :
          g \in Leaves(built[p].root) => x = p)'
  BY <1>12 DEF Leaves
<1>14. QED
  BY <1>4, <1>6, <1>7, <1>8, <1>9, <1>10, <1>11, <1>13 DEF PlaceInv

\* The transaction of a batch the chain has is in the store, whichever object
\* stands for it.
LEMMA ChainTwin ==
    ASSUME IInv, PlaceInv, NEW o \in DOMAIN built, OnChain(o)
    PROVE  \E q \in saved : Twin(o, q)
<1>1. built[o].spends + 1 \in DOMAIN chain /\ chain[built[o].spends + 1] = built[o].root
  BY Typed DEF OnChain
<1>2. PICK q \in saved : /\ built[q].spends + 1 = built[o].spends + 1
                         /\ built[q].root = built[o].root
  BY <1>1 DEF PlaceInv, SentIsSaved
<1>3. built[q].spends \in Nat /\ built[o].spends \in Nat
  BY Typed
<1>4. QED
  BY <1>2, <1>3 DEF Twin

LEMMA PlaceMark ==
    ASSUME IInv, NodeInv, SpendInv, Mutex, ~StoreYields, PlaceInv,
           NEW c \in Calls, BroadcastMark(c)
    PROVE  PlaceInv' /\ \A h : Kept(h)' <=> Kept(h)
<1>o. PICK o : o = call[c].cur
  OBVIOUS
<1>1. /\ UNCHANGED <<pending, chain>> /\ call[c].pc = "mark" /\ o \in DOMAIN built
      /\ Marks(o) /\ Over(c, TRUE) /\ OnChain(o)
  BY <1>o, MarkMove DEF NodeInv, Confirms
<1>2. PlaceCall(c)' /\ Others(c)
  BY <1>1, PlaceOver DEF Sending, Over, Ends, Empty, GoesTo
<1>3. \A d \in Calls : d # c => call[d].pc \in Waiting \cup {"queued", "final"}
  BY <1>1, OthersWait DEF Busy, Working
<1>4. PICK q \in saved : Twin(o, q)
  BY <1>1, ChainTwin
<1>5. QED
  BY <1>1, <1>2, <1>3, <1>4, PlaceMarks

LEMMA PlaceRefresh ==
    ASSUME IInv, NodeInv, Mutex, ~StoreYields, PlaceInv,
           NEW c \in Calls, RefreshStep(c), ~UNCHANGED store
    PROVE  PlaceInv' /\ \A h : Kept(h)' <=> Kept(h)
<1>o. PICK o : o = call[c].cur
  OBVIOUS
<1>1. /\ UNCHANGED <<pending, chain>> /\ call[c].pc = "refetch" /\ o \in DOMAIN built
      /\ Marks(o) /\ Ends(c) /\ OnChain(o) /\ Free
  BY <1>o, RefreshMove
<1>2. PlaceCall(c)' /\ Others(c)
  BY <1>1, PlaceIdle DEF Sending, Ends, Empty
<1>3. \A d \in Calls : d # c => call[d].pc \in Waiting \cup {"queued", "final"}
  BY <1>1, OthersWait
<1>4. PICK q \in saved : Twin(o, q)
  BY <1>1, ChainTwin
<1>5. QED
  BY <1>1, <1>2, <1>3, <1>4, PlaceMarks

LEMMA PlaceNext ==
    ASSUME PlaceHyp, IInv, NodeInv, SpendInv, Mutex, IdsInv, PlaceInv, [Next]_vars
    PROVE  PlaceInv'
<1>1. CASE UNCHANGED vars
  <2>1. UNCHANGED <<pending, built, saved, index, call, chain>>
    BY <1>1 DEF vars
  <2>2. ASSUME NEW c \in Calls PROVE PlaceCall(c)'
    <3>1. PlaceCall(c)
      BY DEF PlaceInv
    <3>2. QED
      BY <2>1, <3>1 DEF PlaceCall, Kept, Waits, OnChain, Target, Twin
  <2>3. (\A o \in DOMAIN built : BatchOK(o))' /\ (\A h \in Hashes : IndexOK(h))'
    BY <2>1 DEF PlaceInv, BatchOK, OnChain, IndexOK
  <2>4. SentIsSaved' /\ OnePer(pending)'
    BY <2>1 DEF PlaceInv, SentIsSaved, OnePer
  <2>5. (\A o, p \in saved : \A h \in Leaves(built[o].root) :
            h \in Leaves(built[p].root) => o = p)'
    BY <2>1 DEF PlaceInv, Leaves
  <2>6. (\A h \in Hashes : Waits(h) /\ Kept(h) =>
            \E c \in Calls : call[c].pc = "clear" /\ Among(h, call[c].hand))'
    BY <2>1 DEF PlaceInv, Kept, Waits, Among
  <2>7. QED
    BY <2>2, <2>3, <2>4, <2>5, <2>6 DEF PlaceInv
<1>2. ASSUME NEW c \in Calls,
             \/ AddStep(c) \/ SettleStep(c) \/ BroadcastStep(c)
             \/ DueStep(c) \/ RefreshStep(c)
      PROVE  PlaceInv'
  <2>1. CASE AddStep(c)
    BY <2>1, PlacePush, PlaceMoves DEF PlaceHyp
  <2>2. CASE \/ StartSettle(c) \/ SettleBegin(c) \/ SettleCheck(c) \/ SettleTake(c)
             \/ SettleFund(c) \/ SettleFundFails(c) \/ ResumeNext(c) \/ ResumeEnd(c)
             \/ BroadcastReply(c) \/ LookupFinds(c) \/ LookupMisses(c)
             \/ BroadcastPutBack(c) \/ BroadcastRejected(c) \/ DueStep(c)
    BY <2>2, PlaceMoves
  <2>3. CASE SettleSave(c) \/ SettleClear(c) \/ BroadcastSend(c)
    BY <2>3, PlaceSave, PlaceClear, PlaceSend DEF PlaceHyp
  <2>4. CASE BroadcastDelete(c) \/ BroadcastRequeue(c) \/ BroadcastMark(c)
    BY <2>4, PlaceDelete, PlaceRequeue, PlaceMark DEF PlaceHyp
  <2>5. CASE RefreshStep(c)
    BY <2>5, PlaceRefresh, PlaceMoves DEF PlaceHyp
  <2>6. QED
    BY <1>2, <2>1, <2>2, <2>3, <2>4, <2>5, CallSteps
<1>3. ~Crash
  BY DEF Crash, PlaceHyp
<1>4. QED
  BY <1>1, <1>2, <1>3 DEF Next

LEMMA PlaceInit ==
    ASSUME Init
    PROVE  PlaceInv
<1>1. /\ pending = {} /\ saved = {} /\ DOMAIN built = {} /\ DOMAIN chain = {}
      /\ index = [h \in Hashes |-> {}] /\ \A c \in Calls : call[c] = Rest("none")
  BY DEF Init
<1>2. \A c \in Calls : PlaceCall(c)
  BY <1>1 DEF PlaceCall, Rest, Started
<1>3. \A h \in Hashes : IndexOK(h)
  BY <1>1 DEF IndexOK
<1>4. QED
  BY <1>1, <1>2, <1>3 DEF PlaceInv, OnePer, Waits, Among, SentIsSaved

LEMMA PlaceInvariance == ASSUME PlaceHyp PROVE Spec => []PlaceInv
<1>1. IInv /\ NodeInv /\ SpendInv /\ Mutex /\ IdsInv /\ PlaceInv /\ [Next]_vars => PlaceInv'
  BY PlaceNext
<1>2. Init => PlaceInv
  BY PlaceInit
<1>3. Spec => []SpendInv /\ []Mutex
  <2>1. SerialSends /\ ~StoreYields
    BY DEF PlaceHyp
  <2>2. QED
    BY <2>1, SpendInvariance, MutexInvariance, PTL
<1>4. QED
  BY <1>1, <1>2, <1>3, Invariance, NodeInvariance, IdsInvariance, PTL DEF Spec

\* With the stores of store.js, and a process that does not stop, no hash is
\* both in the queue and in a batch, or twice in the queue, whenever the node
\* or a caller can see it: addHash finds it, so nobody pays for it twice.
THEOREM OnePlace == ASSUME PlaceHyp PROVE Spec => []InOnePlace
<1>1. IInv /\ PlaceInv => InOnePlace
  <2>1. SUFFICES ASSUME IInv, PlaceInv, Quiet, NEW h \in Hashes
                 PROVE  LET waiting == {e \in pending : e.hash = h}
                        IN  /\ \A e, f \in waiting : e = f
                            /\ waiting = {} \/ FindBatchByHash(h) = {}
    BY DEF InOnePlace
  <2>2. \A e, f \in {x \in pending : x.hash = h} : e = f
    BY <2>1 DEF PlaceInv, OnePer
  <2>3. \A d \in Calls : call[d].pc # "clear"
    BY <2>1 DEF Quiet, Waiting
  <2>4. Waits(h) => FindBatchByHash(h) = {}
    BY <2>1, <2>3, NoClear, FoundIsKept
  <2>5. QED
    BY <2>2, <2>4 DEF Waits, Among
<1>2. QED
  BY <1>1, Invariance, PlaceInvariance, PTL

\* Then the store has the batch of every transaction of ours on the chain,
\* the output it spends included: its proofs can always be given.
THEOREM SentAreSaved == ASSUME PlaceHyp PROVE Spec => []SentIsSaved
<1>1. PlaceInv => SentIsSaved
  BY DEF PlaceInv
<1>2. QED
  BY <1>1, PlaceInvariance, PTL

-----------------------------------------------------------------------------
(* The queue as it is seen from outside.                                   *)

Tx(o) == [root |-> built[o].root, spends |-> built[o].spends]

\* The hash is on its way back to the queue.
Returning(h) ==
    \E c \in Calls : \/ call[c].pc = "putBack" /\ Among(h, built[call[c].cur].queue)
                     \/ call[c].pc = "requeue" /\ Among(h, call[c].hand)

\* What each of them says.
MapOK ==
    /\ \A h : h \in Line <=> (Waits(h) \/ Returning(h)) /\ ~Kept(h)
    /\ \A h \in Hashes : \A o \in saved : h \in Leaves(built[o].root) => Txs[h] = Tx(o)
    /\ \A h \in Hashes : ~Kept(h) => Txs[h] = NoHash
    /\ \A o \in DOMAIN built : /\ Tx(o) # NoHash
                               /\ Tx(o) \in Sent <=> OnChain(o)

LEMMA LineSays ==
    ASSUME NEW h
    PROVE  h \in Line <=> (Waits(h) \/ Returning(h)) /\ ~Kept(h)
<1>1. h \in Queued <=> Waits(h)
  BY DEF Queued, Waits, Among
<1>2. h \in Batched <=> Kept(h)
  BY DEF Batched, Kept
<1>3. h \in PutBack <=> Returning(h)
  BY DEF PutBack, Returning, Among
<1>4. QED
  BY <1>1, <1>2, <1>3 DEF Line

LEMMA TxSays ==
    ASSUME IInv, NodeInv, PlaceInv, NEW h \in Hashes
    PROVE  /\ \A o \in saved : h \in Leaves(built[o].root) => Txs[h] = Tx(o)
           /\ ~Kept(h) => Txs[h] = NoHash
<1>1. ASSUME NEW o \in saved, h \in Leaves(built[o].root) PROVE TxOf(h) = Tx(o)
  <2>1. index[h] = built[o].root /\ built[o].root # {}
    BY <1>1, Typed DEF PlaceInv, IndexOK, BatchOK
  <2>2. FindBatchByHash(h) = {o}
    BY <2>1 DEF FindBatchByHash, NodeInv
  <2>3. (CHOOSE p \in FindBatchByHash(h) : TRUE) = o
    BY <2>2
  <2>4. QED
    BY <2>2, <2>3 DEF TxOf, Tx
<1>2. ASSUME ~Kept(h) PROVE TxOf(h) = NoHash
  BY <1>2, FoundIsKept DEF TxOf
<1>3. QED
  BY <1>1, <1>2 DEF Txs

LEMMA SentSays ==
    ASSUME IInv, NEW o \in DOMAIN built
    PROVE  /\ Tx(o) # NoHash
           /\ Tx(o) \in Sent <=> OnChain(o)
<1>1. built[o].root \in Roots /\ built[o].spends \in Nat /\ Len(chain) \in Nat
      /\ DOMAIN chain = 1..Len(chain)
  BY Typed
<1>2. Tx(o) \in [root : Roots, spends : Nat]
  BY <1>1 DEF Tx
<1>3. ASSUME OnChain(o) PROVE Tx(o) \in Sent
  <2>1. PICK k : k = built[o].spends + 1
    OBVIOUS
  <2>2. k \in DOMAIN chain /\ chain[k] = built[o].root /\ k - 1 = built[o].spends
    BY <1>1, <1>3, <2>1 DEF OnChain
  <2>3. QED
    BY <2>2 DEF Tx, Sent
<1>4. ASSUME Tx(o) \in Sent PROVE OnChain(o)
  <2>1. PICK k \in DOMAIN chain : [root |-> chain[k], spends |-> k - 1] = Tx(o)
    BY <1>4 DEF Sent
  <2>2. chain[k] = built[o].root /\ k - 1 = built[o].spends /\ k \in 1..Len(chain)
    BY <1>1, <2>1 DEF Tx
  <2>3. QED
    BY <1>1, <2>2 DEF OnChain
<1>5. QED
  BY <1>2, <1>3, <1>4, NoTxAssumption

LEMMA MapSays == IInv /\ NodeInv /\ PlaceInv => MapOK
BY LineSays, TxSays, SentSays DEF MapOK

-----------------------------------------------------------------------------
(* The steps of NotaryQueue.                                               *)

LEMMA OutStay ==
    ASSUME Line' = Line, Txs' = Txs, Sent' = Sent
    PROVE  UNCHANGED Outside!notaryVars
BY DEF Outside!notaryVars

LEMMA OutTake ==
    ASSUME NEW h \in Hashes, h \notin Line, Txs[h] = NoHash,
           Line' = Line \cup {h}, Txs' = Txs, Sent' = Sent
    PROVE  Outside!NotaryNext
BY DEF Outside!NotaryNext, Outside!Take, Outside!Held

LEMMA OutSign ==
    ASSUME NEW S, S # {}, S \subseteq Line, S \subseteq Hashes, NEW t, t # NoHash, t \notin Sent,
           \A h \in Hashes : Txs[h] = NoHash \/ Txs[h] \in Sent,
           Line' = Line \ S, Txs' = [h \in Hashes |-> IF h \in S THEN t ELSE Txs[h]],
           Sent' = Sent
    PROVE  Outside!NotaryNext
<1>1. PICK h \in Hashes : h \in S /\ Txs'[h] = t
  OBVIOUS
<1>2. Outside!SignedTxs = {}
  BY DEF Outside!SignedTxs
<1>3. Outside!Sign(S, t)
  BY <1>2 DEF Outside!Sign
<1>4. QED
  BY <1>1, <1>3 DEF Outside!NotaryNext

LEMMA OutSend ==
    ASSUME NEW h \in Hashes, NEW t, Txs[h] = t, t # NoHash, t \notin Sent,
           Sent' = Sent \cup {t}, Line' = Line, Txs' = Txs
    PROVE  Outside!NotaryNext
<1>1. t \in Outside!SignedTxs
  BY DEF Outside!SignedTxs
<1>2. Outside!Send(t)
  BY <1>1 DEF Outside!Send
<1>3. QED
  BY <1>1, <1>2 DEF Outside!NotaryNext

LEMMA OutGiveUp ==
    ASSUME NEW h \in Hashes, NEW t, Txs[h] = t, t # NoHash, t \notin Sent,
           Line' = Line \cup {g \in Hashes : Txs[g] = t},
           Txs' = [g \in Hashes |-> IF Txs[g] = t THEN NoHash ELSE Txs[g]],
           Sent' = Sent
    PROVE  Outside!NotaryNext
<1>1. t \in Outside!SignedTxs
  BY DEF Outside!SignedTxs
<1>2. Outside!GiveUp(t)
  BY <1>1 DEF Outside!GiveUp, Outside!LeavesOf
<1>3. QED
  BY <1>1, <1>2 DEF Outside!NotaryNext

-----------------------------------------------------------------------------
(* Every step of Notary is one of them, or nothing seen from outside.      *)

\* Only the call that works can have hashes on their way back.
LEMMA OneReturns ==
    ASSUME NEW c \in Calls, Others(c),
           \A d \in Calls : d # c => call[d].pc \in Waiting \cup {"queued", "final"}
    PROVE  \A h : /\ Returning(h) <=>
                        \/ call[c].pc = "putBack" /\ Among(h, built[call[c].cur].queue)
                        \/ call[c].pc = "requeue" /\ Among(h, call[c].hand)
                  /\ Returning(h)' <=>
                        \/ call'[c].pc = "putBack" /\ Among(h, built'[call'[c].cur].queue)
                        \/ call'[c].pc = "requeue" /\ Among(h, call'[c].hand)
BY DEF Returning, Others, Waiting, Among

LEMMA NoneReturns ==
    ASSUME NEW c \in Calls, Others(c), built' = built,
           call[c].pc \notin {"putBack", "requeue"}, call'[c].pc \notin {"putBack", "requeue"}
    PROVE  \A h : Returning(h)' <=> Returning(h)
<1>1. ASSUME NEW h, Returning(h) PROVE Returning(h)'
  BY <1>1 DEF Returning, Others, Among
<1>2. ASSUME NEW h, Returning(h)' PROVE Returning(h)
  BY <1>2 DEF Returning, Others, Among
<1>3. QED
  BY <1>1, <1>2

LEMMA SameTxs ==
    ASSUME UNCHANGED <<built, saved, index>>
    PROVE  Txs' = Txs
<1>1. \A h \in Hashes : TxOf(h)' = TxOf(h)
  BY DEF TxOf, FindBatchByHash
<1>2. QED
  BY <1>1 DEF Txs

LEMMA SameSent ==
    ASSUME UNCHANGED chain
    PROVE  Sent' = Sent
BY DEF Sent

LEMMA SameLine ==
    ASSUME MapOK, MapOK', \A h : (Waits(h) \/ Returning(h)) /\ ~Kept(h)
                             <=> (Waits(h)' \/ Returning(h)') /\ ~Kept(h)'
    PROVE  Line' = Line
<1>1. \A h : h \in Line' <=> h \in Line
  BY DEF MapOK
<1>2. QED
  BY <1>1 DEF Line

\* Calls that start, end, ask or decide.
LEMMA MapMoves ==
    ASSUME IInv, MapOK, MapOK', NEW c \in Calls,
           \/ (AddStep(c) /\ call[c].pc # "push") \/ StartSettle(c)
           \/ SettleBegin(c) \/ SettleCheck(c) \/ SettleTake(c)
           \/ SettleFund(c) \/ SettleFundFails(c)
           \/ ResumeNext(c) \/ ResumeEnd(c)
           \/ BroadcastReply(c) \/ LookupFinds(c) \/ LookupMisses(c)
           \/ DueStep(c) \/ (RefreshStep(c) /\ UNCHANGED store)
    PROVE  UNCHANGED Outside!notaryVars
<1>1. UNCHANGED <<pending, built, saved, index, chain>> /\ Others(c)
  <2>1. CASE (AddStep(c) /\ call[c].pc # "push") \/ StartSettle(c)
    BY <2>1, AddMove, AskMove DEF StartSettle, store
  <2>2. CASE SettleBegin(c) \/ SettleCheck(c) \/ SettleTake(c)
    BY <2>2, BeginMove, CheckMove, TakeMove DEF store, Itself, GoesTo, Ends, Empty
  <2>3. CASE SettleFund(c) \/ SettleFundFails(c)
    BY <2>3, FundMove DEF store, Itself, Ends, Empty
  <2>4. CASE ResumeNext(c) \/ ResumeEnd(c) \/ BroadcastReply(c) \/ LookupFinds(c)
    BY <2>4, NextMove, EndMove, ReplyMove DEF store, Itself, GoesTo
  <2>5. CASE LookupMisses(c)
    BY <2>5, MissMove DEF store, Over, GoesTo, Ends, Empty
  <2>6. CASE DueStep(c) \/ (RefreshStep(c) /\ UNCHANGED store)
    BY <2>6, DueMove, RefreshMove DEF store, Itself, GoesTo, Ends, Empty
  <2>7. QED
    BY <2>1, <2>2, <2>3, <2>4, <2>5, <2>6
<1>2. call[c].pc \notin {"putBack", "requeue"} /\ call'[c].pc \notin {"putBack", "requeue"}
  <2>1. CASE (AddStep(c) /\ call[c].pc # "push") \/ StartSettle(c)
    BY <2>1, AskMove DEF Asking
  <2>2. CASE SettleBegin(c) \/ SettleCheck(c) \/ SettleTake(c)
    BY <2>2, BeginMove, CheckMove, TakeMove DEF GoesTo, Ends, Empty
  <2>3. CASE SettleFund(c) \/ SettleFundFails(c)
    BY <2>3, FundMove DEF Ends, Empty
  <2>4. CASE ResumeNext(c) \/ ResumeEnd(c) \/ BroadcastReply(c) \/ LookupFinds(c)
    BY <2>4, NextMove, EndMove, ReplyMove DEF GoesTo
  <2>5. CASE LookupMisses(c)
    BY <2>5, MissMove DEF Over, GoesTo, Ends, Empty
  <2>6. CASE DueStep(c) \/ (RefreshStep(c) /\ UNCHANGED store)
    BY <2>6, DueMove, RefreshMove DEF GoesTo, Ends, Empty
  <2>7. QED
    BY <2>1, <2>2, <2>3, <2>4, <2>5, <2>6
<1>3. \A h : (Waits(h)' <=> Waits(h)) /\ (Kept(h)' <=> Kept(h))
  BY <1>1 DEF Waits, Kept
<1>4. Line' = Line
  BY <1>1, <1>2, <1>3, NoneReturns, SameLine
<1>5. QED
  BY <1>1, <1>4, SameTxs, SameSent, OutStay

\* The way back to the queue, entry by entry.
LEMMA MapReturns ==
    ASSUME IInv, Mutex, ~StoreYields, PlaceInv, MapOK, MapOK', NEW c \in Calls,
           BroadcastPutBack(c) \/ BroadcastRequeue(c) \/ BroadcastRejected(c)
    PROVE  UNCHANGED Outside!notaryVars
<1>1. UNCHANGED <<built, saved, index, chain>> /\ Others(c)
  BY PutBackMove, RequeueMove, RejectedMove DEF store, Itself, Over, GoesTo, Ends, Empty
<1>2. call[c].pc \in {"putBack", "requeue"}
  BY PutBackMove, RequeueMove, RejectedMove
<1>3. \A d \in Calls : d # c => call[d].pc \in Waiting \cup {"queued", "final"}
  BY <1>2, OthersWait DEF Busy, Working
<1>4. \A h : Kept(h)' <=> Kept(h)
  BY <1>1 DEF Kept
<1>5. \A h : Waits(h) \/ Returning(h) <=> Waits(h)' \/ Returning(h)'
  <2>1. CASE BroadcastPutBack(c)
    <3>o. PICK o : o = call[c].cur
      OBVIOUS
    <3>1. /\ pending' = pending /\ call[c].pc = "putBack" /\ call'[c].pc = "requeue"
          /\ call'[c].hand = built[o].queue
      BY <2>1, <3>o, PutBackMove DEF store
    <3>2. \A h : Waits(h)' <=> Waits(h)
      BY <3>1 DEF Waits
    <3>3. \A h : Returning(h)' <=> Returning(h)
      BY <1>1, <1>3, <3>1, <3>o, OneReturns
    <3>4. QED
      BY <3>2, <3>3
  <2>2. CASE BroadcastRejected(c)
    <3>1. /\ pending' = pending /\ call[c].pc = "requeue" /\ call[c].hand = {}
          /\ call'[c].pc \in {"rest", "loop", "final"}
      BY <2>2, RejectedMove DEF store, Over, GoesTo, Ends, Empty
    <3>2. \A h : Waits(h)' <=> Waits(h)
      BY <3>1 DEF Waits
    <3>3. \A h : ~Returning(h)' /\ ~Returning(h)
      BY <1>1, <1>3, <3>1, OneReturns DEF Among
    <3>4. QED
      BY <3>2, <3>3
  <2>3. CASE BroadcastRequeue(c)
    <3>1. PICK e \in call[c].hand : Push(e) /\ call'[c].hand = call[c].hand \ {e}
      BY <2>3, RequeueMove
    <3>2. PICK f : f.hash = e.hash /\ pending' = pending \cup {f}
      <4>1. e \in Entry
        BY <3>1, Typed
      <4>2. [e EXCEPT !.at = pushes + 1].hash = e.hash
        BY <4>1 DEF Entry
      <4>3. QED
        BY <3>1, <4>2 DEF Push
    <3>3. call[c].pc = "requeue" /\ call'[c].pc = "requeue"
      BY <2>3, RequeueMove
    <3>4. \A h : Returning(h) <=> Among(h, call[c].hand)
      BY <1>1, <1>3, <3>3, OneReturns
    <3>5. \A h : Returning(h)' <=> Among(h, call'[c].hand)
      BY <1>1, <1>3, <3>3, OneReturns
    <3>6. \A h : Waits(h)' <=> Waits(h) \/ h = e.hash
      BY <3>2 DEF Waits, Among
    <3>7. \A h : Among(h, call[c].hand) <=> Among(h, call'[c].hand) \/ h = e.hash
      BY <3>1 DEF Among
    <3>8. QED
      BY <3>4, <3>5, <3>6, <3>7
  <2>4. QED
    BY <2>1, <2>2, <2>3
<1>6. Line' = Line
  BY <1>4, <1>5, SameLine
<1>7. QED
  BY <1>1, <1>6, SameTxs, SameSent, OutStay

LEMMA MapClear ==
    ASSUME IInv, IdsInv, PlaceInv, MapOK, MapOK', NEW c \in Calls, SettleClear(c)
    PROVE  UNCHANGED Outside!notaryVars
<1>1. /\ UNCHANGED <<built, saved, index, chain>> /\ Others(c)
      /\ call[c].pc = "clear" /\ call'[c].pc = "send" /\ pending' = pending \ call[c].hand
  BY ClearMove, ClearsHand DEF Itself
<1>2. \A e \in call[c].hand : Kept(e.hash)
  BY <1>1 DEF PlaceInv, PlaceCall
<1>3. \A h : Returning(h)' <=> Returning(h)
  BY <1>1, NoneReturns
<1>4. \A h : Kept(h)' <=> Kept(h)
  BY <1>1 DEF Kept
<1>5. \A h : (Waits(h)' => Waits(h)) /\ (Waits(h) => Waits(h)' \/ Kept(h))
  BY <1>1, <1>2 DEF Waits, Among
<1>6. Line' = Line
  BY <1>3, <1>4, <1>5, SameLine
<1>7. QED
  BY <1>1, <1>6, SameTxs, SameSent, OutStay

LEMMA MapPush ==
    ASSUME IInv, PlaceInv, MapOK, MapOK', Mutex, ~StoreYields, NEW c \in Calls,
           AddStep(c), call[c].pc = "push"
    PROVE  Outside!NotaryNext
<1>h. PICK h : h = call[c].hash
  OBVIOUS
<1>1. PICK e : /\ e = [at |-> pushes + 1, id |-> call[c].id, hash |-> call[c].hash]
               /\ pending' = pending \cup {e}
  BY AddMove
<1>2. /\ UNCHANGED <<built, saved, index, chain>> /\ Others(c)
      /\ call'[c].pc \in {"rest", "queued"}
  BY AddMove, AskMove DEF Returns, Ends, Empty, GoesTo
<1>3. h \in Hashes /\ ~Kept(h) /\ ~Waits(h)
  BY <1>h, CallFacts DEF HasHash, PlaceInv, PlaceCall
<1>4. e.hash = h
  BY <1>1, <1>h
<1>5. \A g : (Waits(g)' <=> Waits(g) \/ g = h) /\ (Kept(g)' <=> Kept(g))
  BY <1>1, <1>2, <1>4 DEF Waits, Kept, Among
<1>6. \A g : ~Returning(g) /\ ~Returning(g)'
  <2>1. \A d \in Calls : d # c => call[d].pc \in Waiting \cup {"queued", "final"}
    BY OthersWait DEF Busy, Working
  <2>2. QED
    BY <1>2, <2>1, OneReturns
<1>7. h \notin Line /\ Txs[h] = NoHash
  BY <1>3, <1>6 DEF MapOK
<1>8. Line' = Line \cup {h}
  <2>1. \A g : g \in Line' <=> g \in Line \/ g = h
    BY <1>3, <1>5, <1>6 DEF MapOK
  <2>2. QED
    BY <2>1
<1>9. QED
  BY <1>2, <1>3, <1>7, <1>8, SameTxs, SameSent, OutTake

LEMMA MapMarks ==
    ASSUME IInv, NodeInv, PlaceInv, Mutex, ~StoreYields, MapOK, MapOK', NEW c \in Calls,
           BroadcastMark(c) \/ (RefreshStep(c) /\ ~UNCHANGED store),
           \A h : Kept(h)' <=> Kept(h)
    PROVE  UNCHANGED Outside!notaryVars
<1>o. PICK o : o = call[c].cur
  OBVIOUS
<1>1. /\ UNCHANGED <<pending, chain>> /\ Others(c) /\ call[c].pc \in {"mark", "refetch"}
      /\ call[c].pc = "mark" \/ Free
      /\ call'[c].pc \in {"rest", "loop", "final"}
      /\ o \in DOMAIN built /\ OnChain(o) /\ Marks(o)
  BY <1>o, MarkMove, RefreshMove DEF Over, GoesTo, Ends, Empty, NodeInv, Confirms
<1>2. \A d \in Calls : d # c => call[d].pc \in Waiting \cup {"queued", "final"}
  BY <1>1, OthersWait DEF Busy, Working
<1>3. PICK q \in saved : Twin(o, q)
  BY <1>1, ChainTwin
<1>4. \A h : Waits(h)' <=> Waits(h)
  BY <1>1 DEF Waits
<1>5. \A h : ~Returning(h) /\ ~Returning(h)'
  BY <1>1, <1>2, OneReturns
<1>6. Line' = Line
  BY <1>4, <1>5, SameLine
<1>7. ASSUME NEW h \in Hashes PROVE Txs'[h] = Txs[h]
  <2>1. CASE ~Kept(h)
    BY <2>1 DEF MapOK
  <2>2. CASE Kept(h)
    <3>1. PICK x \in saved' : h \in Leaves(built'[x].root)
      BY <2>2 DEF Kept
    <3>2. Txs'[h] = [root |-> built'[x].root, spends |-> built'[x].spends]
      BY <3>1 DEF MapOK, Tx
    <3>3. /\ x \in DOMAIN built /\ (x = o \/ x \in saved)
          /\ built'[x].root = built[x].root /\ built'[x].spends = built[x].spends
      BY <1>1, <3>1, Typed DEF Marks
    <3>4. PICK y \in saved : built[y].root = built[x].root /\ built[y].spends = built[x].spends
      BY <1>3, <3>3 DEF Twin
    <3>5. Txs[h] = Tx(y)
      BY <3>1, <3>3, <3>4 DEF MapOK
    <3>6. QED
      BY <3>2, <3>3, <3>4, <3>5 DEF Tx
  <2>3. QED
    BY <2>1, <2>2
<1>8. Txs' = Txs
  BY <1>7 DEF Txs
<1>9. QED
  BY <1>1, <1>6, <1>8, SameSent, OutStay

\* A batch is signed for the hashes that were taken, when all others are sent.
LEMMA MapSave ==
    ASSUME IInv, NodeInv, SpendInv, PlaceInv, Mutex, ~StoreYields, MapOK, MapOK',
           NEW c \in Calls, SettleSave(c), saved' = saved \cup {Len(built) + 1}
    PROVE  Outside!NotaryNext
<1>n. PICK n : n = Len(built) + 1
  OBVIOUS
<1>r. PICK r : r = Root(call[c].hand)
  OBVIOUS
<1>t. PICK t : t = [root |-> r, spends |-> Len(chain)]
  OBVIOUS
<1>1. /\ UNCHANGED <<pending, chain>> /\ Others(c) /\ call[c].pc = "save"
      /\ call'[c].pc = "clear" /\ call[c].spend = Len(chain)
  BY SaveMove DEF Itself, SpendInv, SpendCall
<1>2. /\ DOMAIN built' = DOMAIN built \cup {n} /\ n \notin DOMAIN built
      /\ \A o \in DOMAIN built : built'[o] = built[o]
      /\ built'[n].root = r /\ built'[n].spends = Len(chain)
      /\ saved' = saved \cup {n} /\ saved \subseteq DOMAIN built
  <2>1. SavesNew(c)
    BY SaveMove
  <2>2. QED
    BY <1>1, <1>n, <1>r, <2>1, Typed DEF SavesNew
<1>3. call[c].hand \subseteq pending /\ call[c].hand # {}
  BY <1>1 DEF PlaceInv, PlaceCall
<1>4. \A h : h \in Leaves(r) <=> Among(h, call[c].hand)
  BY <1>r, RootLeaves
<1>5. \A d \in Calls : d # c => call[d].pc \in Waiting \cup {"queued", "final"}
  BY <1>1, OthersWait DEF Busy, Working
<1>6. \A h : ~Returning(h) /\ ~Returning(h)'
  BY <1>1, <1>5, OneReturns
<1>7. \A h : Waits(h) => ~Kept(h)
  BY <1>1, <1>5, NoClear DEF Waiting
<1>8. \A h : (Waits(h)' <=> Waits(h)) /\ (Kept(h)' <=> Kept(h) \/ h \in Leaves(r))
  <2>1. \A o \in saved : built'[o].root = built[o].root
    BY <1>2
  <2>2. QED
    BY <1>1, <1>2, <2>1 DEF Waits, Kept
<1>9. \A h : h \in Leaves(r) => h \in Hashes /\ Waits(h)
  BY <1>3, <1>4, Typed DEF Waits, Among, Entry
<1>10. Leaves(r) # {} /\ Leaves(r) \subseteq Line /\ Leaves(r) \subseteq Hashes
  <2>1. PICK e : e \in call[c].hand
    BY <1>3
  <2>2. e.hash \in Leaves(r)
    BY <1>4, <2>1 DEF Among
  <2>3. \A h : h \in Leaves(r) => h \in Line
    BY <1>7, <1>9 DEF MapOK
  <2>4. QED
    BY <1>9, <2>2, <2>3
<1>11. Line' = Line \ Leaves(r)
  <2>1. \A h : h \in Line' <=> h \in Line /\ h \notin Leaves(r)
    BY <1>6, <1>8 DEF MapOK
  <2>2. QED
    BY <2>1
<1>12. t # NoHash /\ t \notin Sent
  <2>1. /\ n \in DOMAIN built' /\ t = Tx(n)'
    BY <1>2, <1>t DEF Tx
  <2>2. t # NoHash
    BY <2>1 DEF MapOK
  <2>3. ASSUME NEW k \in DOMAIN chain PROVE [root |-> chain[k], spends |-> k - 1] # t
    <3>1. k - 1 # Len(chain)
      BY Typed
    <3>2. QED
      BY <1>t, <3>1
  <2>4. QED
    BY <2>2, <2>3 DEF Sent
<1>13. \A h \in Hashes : Txs[h] = NoHash \/ Txs[h] \in Sent
  <2>1. ASSUME NEW h \in Hashes, Kept(h) PROVE Txs[h] \in Sent
    <3>1. PICK o \in saved : h \in Leaves(built[o].root)
      BY <2>1 DEF Kept
    <3>2. o \in DOMAIN built /\ OnChain(o)
      BY <1>1, Typed DEF IInv, SignInv, SignedBatches, NodeInv
    <3>3. QED
      BY <3>1, <3>2 DEF MapOK
  <2>2. QED
    BY <2>1 DEF MapOK
<1>14. Txs' = [h \in Hashes |-> IF h \in Leaves(r) THEN t ELSE Txs[h]]
  <2>1. ASSUME NEW h \in Hashes, h \in Leaves(r) PROVE Txs'[h] = t
    <3>1. n \in saved' /\ h \in Leaves(built'[n].root)
      BY <1>2, <2>1
    <3>2. Txs'[h] = [root |-> built'[n].root, spends |-> built'[n].spends]
      BY <3>1 DEF MapOK, Tx
    <3>3. QED
      BY <1>2, <1>t, <3>2
  <2>2. ASSUME NEW h \in Hashes, h \notin Leaves(r) PROVE Txs'[h] = Txs[h]
    <3>1. CASE Kept(h)
      <4>1. PICK o \in saved : h \in Leaves(built[o].root)
        BY <3>1 DEF Kept
      <4>2. o \in saved' /\ built'[o] = built[o]
        BY <1>2, <4>1
      <4>3. Txs'[h] = [root |-> built'[o].root, spends |-> built'[o].spends]
        BY <4>1, <4>2 DEF MapOK, Tx
      <4>4. QED
        BY <4>1, <4>2, <4>3 DEF MapOK, Tx
    <3>2. CASE ~Kept(h)
      BY <1>8, <2>2, <3>2 DEF MapOK
    <3>3. QED
      BY <3>1, <3>2
  <2>3. QED
    BY <2>1, <2>2 DEF Txs
<1>15. QED
  BY <1>1, <1>10, <1>11, <1>12, <1>13, <1>14, SameSent, OutSign

LEMMA MapSend ==
    ASSUME IInv, PlaceInv, MapOK, MapOK', NEW c \in Calls, BroadcastSend(c)
    PROVE  Outside!NotaryNext \/ UNCHANGED Outside!notaryVars
<1>o. PICK o : o = call[c].cur
  OBVIOUS
<1>1. /\ UNCHANGED <<pending, built, saved, index>> /\ Others(c)
      /\ call[c].pc = "send" /\ call'[c].pc = "reply"
      /\ o \in DOMAIN built /\ NodeAnswers(o, call'[c].reply)
  BY <1>o, SendMove, CallFacts DEF Itself, store, HasBatch
<1>2. \/ chain' = chain
      \/ Acceptable(o) /\ chain' = Append(chain, built[o].root)
  BY <1>1, Answers
<1>3. \A h : (Waits(h)' <=> Waits(h)) /\ (Kept(h)' <=> Kept(h))
  BY <1>1 DEF Waits, Kept
<1>4. Line' = Line /\ Txs' = Txs
  BY <1>1, <1>3, NoneReturns, SameLine, SameTxs
<1>5. CASE chain' = chain
  BY <1>4, <1>5, SameSent, OutStay
<1>6. CASE Acceptable(o) /\ chain' = Append(chain, built[o].root)
  <2>1. chain \in Seq(Roots) /\ built[o].root \in Roots /\ built[o].root # {}
        /\ built[o].spends = Len(chain) /\ Len(chain) \in Nat
    BY <1>1, <1>6, Typed DEF IInv, TypeInv, TypeOK, Acceptable, PlaceInv, BatchOK
  <2>2. PICK p \in saved : built[p].root = built[o].root /\ built[p].spends = built[o].spends
    BY <1>o, <1>1 DEF PlaceInv, PlaceCall, Target, Sending, Twin
  <2>3. PICK h \in Hashes : h \in Leaves(built[p].root)
    BY <2>1, <2>2, LeavesType
  <2>4. Txs[h] = Tx(o)
    BY <2>2, <2>3 DEF MapOK, Tx
  <2>5. Tx(o) # NoHash /\ Tx(o) \notin Sent
    BY <1>1, <2>1 DEF MapOK, OnChain
  <2>6. Sent' = Sent \cup {Tx(o)}
    <3>1. /\ DOMAIN chain' = DOMAIN chain \cup {Len(chain) + 1}
          /\ \A k \in DOMAIN chain : chain'[k] = chain[k]
          /\ chain'[Len(chain) + 1] = built[o].root
          /\ (Len(chain) + 1) - 1 = built[o].spends
      BY <1>6, <2>1
    <3>2. ASSUME NEW k \in DOMAIN chain'
          PROVE  [root |-> chain'[k], spends |-> k - 1] \in Sent \cup {Tx(o)}
      BY <3>1 DEF Sent, Tx
    <3>3. ASSUME NEW k \in DOMAIN chain
          PROVE  [root |-> chain[k], spends |-> k - 1] \in Sent'
      BY <3>1 DEF Sent
    <3>4. Tx(o) \in Sent'
      BY <3>1 DEF Sent, Tx
    <3>5. QED
      BY <3>2, <3>3, <3>4 DEF Sent
  <2>7. QED
    BY <1>4, <2>4, <2>5, <2>6, OutSend
<1>7. QED
  BY <1>2, <1>5, <1>6

\* A batch is given up: from the removal on, its hashes count as waiting.
LEMMA MapDelete ==
    ASSUME IInv, NodeInv, PlaceInv, Mutex, ~StoreYields, MapOK, MapOK',
           NEW c \in Calls, BroadcastDelete(c)
    PROVE  Outside!NotaryNext
<1>o. PICK o : o = call[c].cur
  OBVIOUS
<1>r. PICK r : r = built[o].root
  OBVIOUS
<1>1. /\ UNCHANGED <<pending, built, chain>> /\ Others(c)
      /\ call[c].pc = "delete" /\ call'[c].pc = "putBack" /\ call'[c].cur = o
      /\ o \in DOMAIN built
      /\ saved' = {p \in saved : built[p].root # r}
  BY <1>o, <1>r, DeleteMove, CallFacts DEF GoesTo, HasBatch
<1>2. ~OnChain(o) /\ BatchOK(o) /\ \E p \in saved : Twin(o, p)
  BY <1>o, <1>1 DEF PlaceInv, PlaceCall, Target, Sending
<1>3. PICK q \in saved : built[q].root = r /\ built[q].spends = built[o].spends
  BY <1>2, <1>r DEF Twin
<1>4. PICK h \in Hashes : h \in Leaves(r)
  BY <1>1, <1>2, <1>r, Typed, LeavesType DEF BatchOK
<1>5. Tx(q) = Tx(o) /\ Tx(o) # NoHash /\ Tx(o) \notin Sent
  BY <1>1, <1>2, <1>3, <1>r DEF MapOK, Tx
<1>6. \A g \in Hashes : Txs[g] = Tx(o) <=> g \in Leaves(r)
  <2>1. ASSUME NEW g \in Hashes, g \in Leaves(r) PROVE Txs[g] = Tx(o)
    BY <1>3, <1>5, <2>1 DEF MapOK
  <2>2. ASSUME NEW g \in Hashes, Txs[g] = Tx(o) PROVE g \in Leaves(r)
    <3>1. PICK p \in saved : g \in Leaves(built[p].root)
      BY <1>5, <2>2 DEF MapOK, Kept
    <3>2. Tx(p) = Tx(o)
      BY <2>2, <3>1 DEF MapOK
    <3>3. built[p].root = r
      BY <1>r, <3>2 DEF Tx
    <3>4. QED
      BY <3>1, <3>3
  <2>3. QED
    BY <2>1, <2>2
<1>7. \A d \in Calls : d # c => call[d].pc \in Waiting \cup {"queued", "final"}
  BY <1>1, OthersWait DEF Busy, Working
<1>8. \A g : ~Returning(g) /\ (Returning(g)' <=> g \in Leaves(r))
  <2>1. \A g : Among(g, built[o].queue) <=> g \in Leaves(r)
    BY <1>2, <1>r DEF BatchOK, Among
  <2>2. \A g : Returning(g)' <=> Among(g, built'[o].queue)
    BY <1>1, <1>7, OneReturns
  <2>3. \A g : ~Returning(g)
    BY <1>1, <1>7, OneReturns
  <2>4. QED
    BY <1>1, <2>1, <2>2, <2>3
<1>9. \A g : (Waits(g)' <=> Waits(g)) /\ (Kept(g)' <=> Kept(g) /\ g \notin Leaves(r))
  <2>1. \A g, p : p \in saved /\ g \in Leaves(built[p].root) /\ g \in Leaves(r)
                     => built[p].root = r
    BY <1>3 DEF PlaceInv
  <2>2. QED
    BY <1>1, <2>1 DEF Kept, Waits
<1>10. Line' = Line \cup {g \in Hashes : Txs[g] = Tx(o)}
  <2>1. Leaves(r) \subseteq Hashes
    BY <1>1, <1>r, Typed, LeavesType
  <2>2. \A g : g \in Line' <=> g \in Line \/ g \in Leaves(r)
    BY <1>8, <1>9 DEF MapOK
  <2>3. {g \in Hashes : Txs[g] = Tx(o)} = Leaves(r)
    BY <1>6, <2>1
  <2>4. QED
    BY <2>2, <2>3
<1>11. Txs' = [g \in Hashes |-> IF Txs[g] = Tx(o) THEN NoHash ELSE Txs[g]]
  <2>1. ASSUME NEW g \in Hashes, g \in Leaves(r) PROVE Txs'[g] = NoHash
    BY <1>9, <2>1 DEF MapOK
  <2>2. ASSUME NEW g \in Hashes, g \notin Leaves(r) PROVE Txs'[g] = Txs[g]
    <3>1. CASE Kept(g)
      <4>1. PICK p \in saved : g \in Leaves(built[p].root)
        BY <3>1 DEF Kept
      <4>2. p \in saved' /\ built'[p] = built[p]
        BY <1>1, <2>2, <4>1
      <4>3. Txs'[g] = [root |-> built'[p].root, spends |-> built'[p].spends]
        BY <4>1, <4>2 DEF MapOK, Tx
      <4>4. QED
        BY <4>1, <4>2, <4>3 DEF MapOK, Tx
    <3>2. CASE ~Kept(g)
      BY <1>9, <3>2 DEF MapOK
    <3>3. QED
      BY <3>1, <3>2
  <2>3. QED
    BY <1>6, <2>1, <2>2 DEF Txs
<1>12. Txs[h] = Tx(o)
  BY <1>4, <1>6
<1>13. QED
  BY <1>1, <1>5, <1>10, <1>11, <1>12, SameSent, OutGiveUp

LEMMA MapNext ==
    ASSUME PlaceHyp, IInv, NodeInv, SpendInv, Mutex, IdsInv, PlaceInv, MapOK, MapOK',
           [Next]_vars
    PROVE  [Outside!NotaryNext]_(Outside!notaryVars)
<1>1. CASE UNCHANGED vars
  <2>1. UNCHANGED <<pending, built, saved, index, call, chain>>
    BY <1>1 DEF vars
  <2>2. \A h : /\ Waits(h)' <=> Waits(h)
               /\ Kept(h)' <=> Kept(h)
               /\ Returning(h)' <=> Returning(h)
    BY <2>1 DEF Waits, Kept, Returning
  <2>3. QED
    BY <2>1, <2>2, SameLine, SameTxs, SameSent, OutStay
<1>2. ASSUME NEW c \in Calls,
             \/ AddStep(c) \/ SettleStep(c) \/ BroadcastStep(c)
             \/ DueStep(c) \/ RefreshStep(c)
      PROVE  Outside!NotaryNext \/ UNCHANGED Outside!notaryVars
  <2>1. CASE AddStep(c)
    BY <2>1, MapPush, MapMoves DEF PlaceHyp
  <2>2. CASE \/ StartSettle(c) \/ SettleBegin(c) \/ SettleCheck(c) \/ SettleTake(c)
             \/ SettleFund(c) \/ SettleFundFails(c) \/ ResumeNext(c) \/ ResumeEnd(c)
             \/ BroadcastReply(c) \/ LookupFinds(c) \/ LookupMisses(c) \/ DueStep(c)
    BY <2>2, MapMoves
  <2>3. CASE BroadcastPutBack(c) \/ BroadcastRequeue(c) \/ BroadcastRejected(c)
    BY <2>3, MapReturns DEF PlaceHyp
  <2>4. CASE SettleSave(c)
    BY <2>4, PlaceSave, MapSave DEF PlaceHyp
  <2>5. CASE SettleClear(c) \/ BroadcastSend(c) \/ BroadcastDelete(c)
    BY <2>5, MapClear, MapSend, MapDelete DEF PlaceHyp
  <2>6. CASE BroadcastMark(c) \/ (RefreshStep(c) /\ ~UNCHANGED store)
    BY <2>6, PlaceMark, PlaceRefresh, MapMarks DEF PlaceHyp
  <2>7. CASE RefreshStep(c) /\ UNCHANGED store
    BY <2>7, MapMoves
  <2>8. QED
    BY <1>2, <2>1, <2>2, <2>3, <2>4, <2>5, <2>6, <2>7, CallSteps
<1>3. ~Crash
  BY DEF Crash, PlaceHyp
<1>4. QED
  BY <1>1, <1>2, <1>3 DEF Next

LEMMA MapInit ==
    ASSUME Init, MapOK
    PROVE  Outside!NotaryInit
<1>1. /\ pending = {} /\ saved = {} /\ DOMAIN chain = {}
      /\ \A c \in Calls : call[c] = Rest("none")
  BY DEF Init
<1>2. \A h : ~Waits(h) /\ ~Kept(h) /\ ~Returning(h)
  BY <1>1 DEF Waits, Among, Kept, Returning, Rest, Started
<1>3. Line = {} /\ Sent = {}
  BY <1>1, <1>2 DEF MapOK, Sent
<1>4. Txs = [h \in Hashes |-> NoHash]
  BY <1>2 DEF MapOK, Txs
<1>5. QED
  BY <1>3, <1>4 DEF Outside!NotaryInit

\* Notary implements NotaryQueue: whatever calls run at a time and whatever
\* the node answers, to those outside a hash is taken once, batches are signed
\* one after another, and those rejected give all their hashes back at once.
THEOREM QueueRefines == ASSUME PlaceHyp PROVE Spec => QueueKept
<1>1. PlaceHyp /\ IInv /\ NodeInv /\ SpendInv /\ Mutex /\ IdsInv /\ PlaceInv /\ MapOK /\ MapOK'
      /\ [Next]_vars => [Outside!NotaryNext]_(Outside!notaryVars)
  BY MapNext
<1>2. Init /\ MapOK => Outside!NotaryInit
  BY MapInit
<1>3. Spec => []SpendInv /\ []Mutex /\ []PlaceInv
  <2>1. SerialSends /\ ~StoreYields
    BY DEF PlaceHyp
  <2>2. QED
    BY <2>1, SpendInvariance, MutexInvariance, PlaceInvariance, PTL
<1>4. QED
  BY <1>1, <1>2, <1>3, MapSays, Invariance, NodeInvariance, IdsInvariance, PTL
  DEF Spec, QueueKept, Outside!NotarySpec

-----------------------------------------------------------------------------
(* A hash once taken is never forgotten.                                   *)

\* No batch is given up; or the process does not stop, and either the timer is
\* not used or the store is one of store.js and lookups know what is known.
\* Otherwise a batch can be given up whose hashes nothing puts back.
CustodyHyp == \/ GivesUpNever
              \/ ~CanCrash /\ ("due" \notin Ops \/ (~StoreYields /\ ~LookupFails))

\* The batch object has all the hashes of its tree in its queue.
Full(o) == \A h \in Leaves(built[o].root) : Among(h, built[o].queue)

\* What a batch that is given up puts back is all it was made of.
CustBatch(o) == /\ built[o].status = "signed" => Full(o)
                /\ Full(o) \/ OnChain(o)

\* What is cleared from the queue is in a batch.
CustCall(c) ==
    /\ call[c].pc = "clear" => /\ Root(call[c].hand) = built[call[c].cur].root
                               /\ built[call[c].cur].root \in SavedRoots
    /\ call[c].pc \in {"delete", "putBack"} => Full(call[c].cur)
    /\ "due" \notin Ops => \A o \in DOMAIN built : Target(c, o) => Full(o)

CustInv == (\A o \in DOMAIN built : CustBatch(o)) /\ (\A c \in Calls : CustCall(c))

\* What is known under which circumstances.
Known == /\ IInv /\ NodeInv /\ IdsInv
         /\ SerialSends => SpendInv
         /\ ~StoreYields => Mutex
         /\ GivesUpNever => KeepInv

\* Without the timer only the first settlement of the chain sends.
LEMMA TargetOne ==
    ASSUME Known, "due" \notin Ops, NEW c \in Calls, NEW d \in Calls,
           call[c].pc \in Sending \cup {"loop", "clear"},
           call[d].pc \in Sending \cup {"loop", "clear"}
    PROVE  c = d
<1>1. IInv /\ SpendInv
  BY DEF Known, SerialSends
<1>2. InChain(c) /\ InChain(d)
  BY <1>1, CallFacts DEF SpendInv, SpendCall, DueOnly, Active, Settling
<1>3. QED
  BY <1>1, <1>2, SettlingOne DEF Sending

\* A batch is given up by one call at a time, while no other clears the queue
\* or has a batch confirmed.
LEMMA NotTwo ==
    ASSUME CustodyHyp, Known, NEW c \in Calls, call[c].pc \in {"delete", "putBack"},
           NEW d \in Calls, d # c
    PROVE  call[d].pc \notin {"clear", "delete", "putBack", "mark"}
<1>1. ~GivesUpNever
  BY DEF Known, KeepInv
<1>2. CASE "due" \notin Ops
  BY <1>2, TargetOne DEF Sending
<1>3. CASE ~StoreYields
  BY <1>3 DEF Known, Mutex, Busy, Working
<1>4. QED
  BY <1>1, <1>2, <1>3 DEF CustodyHyp

\* What a step leaves true that changes no batch.
LEMMA CustStill ==
    ASSUME CustInv, NEW c \in Calls, Others(c), UNCHANGED <<built, saved>>,
           \A o \in DOMAIN built : OnChain(o) => OnChain(o)', CustCall(c)'
    PROVE  CustInv'
<1>1. ASSUME NEW d \in Calls PROVE CustCall(d)'
  <2>1. CASE d = c
    BY <2>1
  <2>2. CASE d # c
    <3>1. CustCall(d) /\ call'[d] = call[d]
      BY <2>2 DEF CustInv, Others
    <3>2. SavedRoots' = SavedRoots
      BY DEF SavedRoots
    <3>3. QED
      BY <3>1, <3>2 DEF CustCall, Full, Target
  <2>3. QED
    BY <2>1, <2>2
<1>2. ASSUME NEW o \in DOMAIN built' PROVE CustBatch(o)'
  BY DEF CustInv, CustBatch, Full
<1>3. QED
  BY <1>1, <1>2 DEF CustInv

LEMMA CustIdle ==
    ASSUME NEW c \in Calls, call'[c].pc \notin Sending \cup {"clear", "loop"}
    PROVE  CustCall(c)'
BY DEF CustCall, Target, Sending

LEMMA CustTarget ==
    ASSUME CustInv, NEW c \in Calls, UNCHANGED built,
           call'[c].pc \in Sending \ {"delete", "putBack"},
           call'[c].cur \in DOMAIN built, Target(c, call'[c].cur)
    PROVE  CustCall(c)'
<1>o. PICK o : o = call'[c].cur
  OBVIOUS
<1>1. "due" \notin Ops => Full(o)
  BY <1>o DEF CustInv, CustCall
<1>2. \A x \in DOMAIN built' : Target(c, x)' => x = o
  BY <1>o DEF Target, Sending
<1>3. QED
  BY <1>1, <1>2, <1>o DEF CustCall, Full, Sending

LEMMA CustLists ==
    ASSUME IInv, CustInv, NEW c \in Calls, UNCHANGED built, call'[c].pc = "loop",
           call'[c].todo \subseteq SignedBatches
    PROVE  CustCall(c)'
<1>1. \A x \in DOMAIN built' : Target(c, x)' => Full(x)'
  BY DEF Target, Sending, SignedBatches, CustInv, CustBatch, Full
<1>2. QED
  BY <1>1 DEF CustCall

LEMMA CustOver ==
    ASSUME Known, NEW c \in Calls, NEW ok \in BOOLEAN, Over(c, ok), call[c].pc \in Sending
    PROVE  CustCall(c)'
<1>1. CASE call'[c].pc = "loop"
  <2>1. "due" \notin Ops => call'[c].todo = {}
    BY <1>1 DEF Over, Ends, Empty, GoesTo, Known, SerialSends, SpendInv, SpendCall
  <2>2. "due" \notin Ops => \A x \in DOMAIN built' : ~Target(c, x)'
    BY <1>1, <2>1 DEF Target, Sending
  <2>3. QED
    BY <1>1, <2>2 DEF CustCall
<1>2. CASE call'[c].pc # "loop"
  <2>1. call'[c].pc \in {"rest", "final"}
    BY <1>2 DEF Over, Ends, Empty, GoesTo
  <2>2. QED
    BY <2>1, CustIdle DEF Sending
<1>3. QED
  BY <1>1, <1>2

LEMMA CustMoves ==
    ASSUME CustodyHyp, Known, CustInv, NEW c \in Calls,
           \/ AddStep(c) \/ StartSettle(c)
           \/ SettleBegin(c) \/ SettleCheck(c) \/ SettleTake(c)
           \/ SettleFund(c) \/ SettleFundFails(c) \/ SettleClear(c)
           \/ ResumeNext(c) \/ ResumeEnd(c) \/ BroadcastSend(c)
           \/ BroadcastReply(c) \/ LookupFinds(c) \/ LookupMisses(c)
           \/ BroadcastPutBack(c) \/ BroadcastRequeue(c) \/ BroadcastRejected(c)
           \/ DueStep(c) \/ (RefreshStep(c) /\ UNCHANGED store)
    PROVE  CustInv'
<1> DEFINE Same == UNCHANGED <<built, saved, chain>> /\ Others(c)
<1> DEFINE Idle == call'[c].pc \notin Sending \cup {"clear", "loop"}
<1>i. IInv
  BY DEF Known
<1>1. ASSUME Same, CustCall(c)' PROVE CustInv'
  BY <1>1, CustStill DEF OnChain
<1>2. ASSUME Same, Idle PROVE CustInv'
  BY <1>1, <1>2, CustIdle
<1> USE <1>i DEF store
<1>3. CASE AddStep(c) \/ StartSettle(c)
  <2>1. Same /\ Idle
    BY <1>3, AskMove DEF Asking, Sending
  <2>2. QED
    BY <1>2, <2>1
<1>4. CASE SettleBegin(c)
  <2>1. Same /\ CustCall(c)'
    BY <1>4, BeginMove, CustLists DEF Itself
  <2>2. QED
    BY <1>1, <2>1
<1>5. CASE SettleCheck(c) \/ SettleTake(c) \/ SettleFund(c) \/ SettleFundFails(c)
           \/ ResumeEnd(c)
  <2>1. ASSUME SettleCheck(c) \/ ResumeEnd(c) PROVE Same /\ Idle
    BY <2>1, CheckMove, EndMove DEF GoesTo, Ends, Empty, Sending
  <2>2. ASSUME SettleTake(c) PROVE Same /\ Idle
    BY <2>2, TakeMove DEF Itself, GoesTo, Ends, Empty, Sending
  <2>3. ASSUME SettleFund(c) \/ SettleFundFails(c) PROVE Same /\ Idle
    BY <2>3, FundMove DEF Itself, Ends, Empty, Sending
  <2>4. QED
    BY <1>2, <1>5, <2>1, <2>2, <2>3
<1>6. CASE \/ SettleClear(c) \/ ResumeNext(c) \/ BroadcastReply(c) \/ LookupFinds(c)
           \/ BroadcastRequeue(c)
  <2>1. /\ Same /\ call'[c].pc \in {"send", "mark", "lookup", "requeue"}
        /\ call[c].pc \in {"clear", "loop", "reply", "lookup", "requeue"}
        /\ call[c].pc = "loop" => call'[c].cur \in call[c].todo
        /\ call[c].pc # "loop" => call'[c].cur = call[c].cur
    BY <1>6, ClearMove, NextMove, ReplyMove, RequeueMove DEF Itself, GoesTo
  <2>2. call'[c].cur \in DOMAIN built /\ Target(c, call'[c].cur)
    BY <2>1, CallFacts DEF HasBatch, Target, Sending
  <2>3. CustCall(c)'
    BY <2>1, <2>2, CustTarget DEF Sending
  <2>4. QED
    BY <1>1, <2>1, <2>3
<1>7. CASE BroadcastSend(c)
  <2>1. /\ UNCHANGED <<built, saved>> /\ Others(c) /\ call[c].pc = "send"
        /\ call'[c].pc = "reply" /\ call'[c].cur = call[c].cur
    BY <1>7, SendMove DEF Itself
  <2>2. call'[c].cur \in DOMAIN built /\ Target(c, call'[c].cur)
    BY <2>1, CallFacts DEF HasBatch, Target, Sending
  <2>3. \A o \in DOMAIN built : OnChain(o) => OnChain(o)'
    BY <1>7, <2>1, <2>2, SendMove, Answers
  <2>4. CustCall(c)'
    BY <2>1, <2>2, CustTarget DEF Sending
  <2>5. QED
    BY <2>1, <2>3, <2>4, CustStill
<1>8. CASE LookupMisses(c)
  <2>o. PICK o : o = call[c].cur
    OBVIOUS
  <2>1. /\ Same /\ call[c].pc = "lookup" /\ o \in DOMAIN built
        /\ ~LookupFails => ~OnChain(o)
    BY <1>8, <2>o, MissMove, CallFacts DEF Over, Ends, Empty, GoesTo, Unknown, HasBatch
  <2>2. CASE GoesTo(c, "delete")
    <3>1. Full(o)
      <4>1. CASE ~LookupFails
        BY <2>1, <4>1 DEF CustInv, CustBatch
      <4>2. CASE LookupFails
        BY <2>1, <2>o, <4>2 DEF CustodyHyp, GivesUpNever, CustInv, CustCall, Target, Sending
      <4>3. QED
        BY <4>1, <4>2
    <3>2. call'[c].pc = "delete" /\ call'[c].cur = o
      BY <2>2, <2>o DEF GoesTo
    <3>3. \A x \in DOMAIN built' : Target(c, x)' => x = o
      BY <3>2 DEF Target, Sending
    <3>4. CustCall(c)'
      BY <2>1, <3>1, <3>2, <3>3 DEF CustCall, Full
    <3>5. QED
      BY <1>1, <2>1, <3>4
  <2>3. CASE Over(c, FALSE)
    <3>1. CustCall(c)'
      BY <2>1, <2>3, CustOver DEF Sending
    <3>2. QED
      BY <1>1, <2>1, <3>1
  <2>4. QED
    BY <1>8, <2>2, <2>3, MissMove
<1>9. CASE BroadcastPutBack(c)
  <2>1. /\ Same /\ call[c].pc = "putBack" /\ call'[c].pc = "requeue"
        /\ call'[c].cur = call[c].cur
    BY <1>9, PutBackMove DEF Itself
  <2>2. call'[c].cur \in DOMAIN built /\ Target(c, call'[c].cur)
    BY <2>1, CallFacts DEF HasBatch, Target, Sending
  <2>3. CustCall(c)'
    BY <2>1, <2>2, CustTarget DEF Sending
  <2>4. QED
    BY <1>1, <2>1, <2>3
<1>10. CASE BroadcastRejected(c)
  <2>1. Same /\ CustCall(c)'
    BY <1>10, RejectedMove, CustOver DEF Over, Ends, Empty, GoesTo, Sending
  <2>2. QED
    BY <1>1, <2>1
<1>11. CASE DueStep(c)
  <2>1. Same
    BY <1>11, DueMove DEF Itself, GoesTo, Ends, Empty
  <2>2. CASE call'[c].pc = "loop"
    <3>1. CustCall(c)'
      BY <1>11, <2>1, <2>2, DueMove, CustLists DEF GoesTo, Ends, Empty
    <3>2. QED
      BY <1>1, <2>1, <3>1
  <2>3. CASE call'[c].pc # "loop"
    <3>1. Idle
      BY <1>11, <2>3, DueMove DEF GoesTo, Ends, Empty, Sending
    <3>2. QED
      BY <1>2, <2>1, <3>1
  <2>4. QED
    BY <2>2, <2>3
<1>12. CASE RefreshStep(c) /\ UNCHANGED store
  <2>1. Same /\ Idle
    BY <1>12, RefreshMove DEF Ends, Empty, Sending
  <2>2. QED
    BY <1>2, <2>1
<1>13. QED
  BY <1>3, <1>4, <1>5, <1>6, <1>7, <1>8, <1>9, <1>10, <1>11, <1>12

\* A new batch has all the hashes it was made of in its queue.
LEMMA CustSave ==
    ASSUME CustodyHyp, Known, CustInv, NEW c \in Calls, SettleSave(c)
    PROVE  CustInv'
<1>i. IInv
  BY DEF Known
<1>n. PICK n : n = Len(built) + 1
  OBVIOUS
<1>s. PICK S : S = call[c].hand
  OBVIOUS
<1>1. /\ Others(c) /\ SavesNew(c) /\ chain' = chain
      /\ call[c].pc = "save" /\ InChain(c)
      /\ call'[c].pc = "clear" /\ call'[c].cur = n /\ call'[c].hand = S
  BY <1>i, <1>n, <1>s, SaveMove DEF Itself
<1>2. /\ DOMAIN built' = DOMAIN built \cup {n} /\ n \notin DOMAIN built
      /\ \A o \in DOMAIN built : built'[o] = built[o]
      /\ built'[n].root = Root(S) /\ built'[n].queue = S
  BY <1>1, <1>n, <1>s DEF SavesNew
<1>3. SavedRoots' = SavedRoots \cup {Root(S)}
  BY <1>i, <1>1, <1>s, RootsGrow
<1>4. Full(n)'
  BY <1>2, RootLeaves DEF Full
<1>5. \A o \in DOMAIN built : (Full(o)' <=> Full(o)) /\ (OnChain(o)' <=> OnChain(o))
  BY <1>1, <1>2 DEF Full, OnChain
<1>6. ASSUME NEW o \in DOMAIN built' PROVE CustBatch(o)'
  <2>1. CASE o = n
    BY <1>4, <2>1 DEF CustBatch
  <2>2. CASE o # n
    BY <1>2, <1>5, <2>2 DEF CustBatch, CustInv
  <2>3. QED
    BY <2>1, <2>2
<1>7. ASSUME NEW d \in Calls PROVE CustCall(d)'
  <2>1. CASE d = c
    <3>1. \A o \in DOMAIN built' : Target(c, o)' => o = n
      BY <1>1 DEF Target, Sending
    <3>2. QED
      BY <1>1, <1>2, <1>3, <1>4, <2>1, <3>1 DEF CustCall
  <2>2. CASE d # c
    <3>1. CustCall(d) /\ call'[d] = call[d]
      BY <1>1, <2>2 DEF CustInv, Others
    <3>2. call[d].pc # "clear"
      BY <1>i, <1>1, <2>2, CallFacts, SettlingOne DEF Active, Settling
    <3>3. call[d].pc \in HasBatch => call[d].cur \in DOMAIN built
      BY <1>i, CallFacts
    <3>4. call[d].todo \subseteq DOMAIN built
      BY <1>i, CallFacts
    <3>5. ASSUME NEW o \in DOMAIN built', Target(d, o)' PROVE Target(d, o) /\ o \in DOMAIN built
      BY <3>1, <3>2, <3>3, <3>4, <3>5 DEF Target, Sending, HasBatch
    <3>6. QED
      BY <1>5, <3>1, <3>2, <3>3, <3>5 DEF CustCall, HasBatch
  <2>3. QED
    BY <2>1, <2>2
<1>8. QED
  BY <1>6, <1>7 DEF CustInv

\* A batch is removed: no other call clears the queue for it.
LEMMA CustDelete ==
    ASSUME CustodyHyp, Known, CustInv, NEW c \in Calls, BroadcastDelete(c)
    PROVE  CustInv'
<1>i. IInv
  BY DEF Known
<1>o. PICK o : o = call[c].cur
  OBVIOUS
<1>1. /\ UNCHANGED <<built, chain>> /\ Others(c)
      /\ call[c].pc = "delete" /\ call'[c].pc = "putBack" /\ call'[c].cur = o
  BY <1>i, <1>o, DeleteMove DEF GoesTo
<1>2. ASSUME NEW x \in DOMAIN built' PROVE CustBatch(x)'
  BY <1>1, <1>2 DEF CustInv, CustBatch, Full, OnChain
<1>3. ASSUME NEW d \in Calls PROVE CustCall(d)'
  <2>1. CASE d = c
    <3>1. CustCall(c) /\ Full(o)
      BY <1>1, <1>o DEF CustInv, CustCall
    <3>2. \A x \in DOMAIN built' : Target(c, x)' => x = o
      BY <1>1 DEF Target, Sending
    <3>3. QED
      BY <1>1, <2>1, <3>1, <3>2 DEF CustCall, Full
  <2>2. CASE d # c
    <3>1. CustCall(d) /\ call'[d] = call[d]
      BY <1>1, <2>2 DEF CustInv, Others
    <3>2. call[d].pc # "clear"
      BY <1>1, <2>2, NotTwo
    <3>3. QED
      BY <1>1, <3>1, <3>2 DEF CustCall, Full, Target
  <2>3. QED
    BY <2>1, <2>2
<1>4. QED
  BY <1>2, <1>3 DEF CustInv

\* A batch the chain has may lose its part of the queue, when no other call is
\* giving it up or may yet.
LEMMA CustMarks ==
    ASSUME IInv, CustInv, NEW c \in Calls, NEW o \in DOMAIN built, Marks(o), OnChain(o),
           Others(c), chain' = chain, CustCall(c)',
           \/ built'[o].queue = built[o].queue
           \/ \A d \in Calls : d # c => /\ call[d].pc \notin {"delete", "putBack"}
                                        /\ "due" \notin Ops => ~Target(d, o)
    PROVE  CustInv'
<1>1. /\ DOMAIN built' = DOMAIN built
      /\ \A p \in DOMAIN built : /\ built'[p].root = built[p].root
                                 /\ built'[p].spends = built[p].spends
                                 /\ p # o => built'[p] = built[p]
      /\ built'[o].status # "signed"
  BY DEF Marks
<1>2. SavedRoots \subseteq SavedRoots'
  BY RootsStay
<1>3. \A p \in DOMAIN built : p # o => (Full(p)' <=> Full(p))
  BY <1>1 DEF Full
<1>4. built'[o].queue = built[o].queue => (Full(o)' <=> Full(o))
  BY <1>1 DEF Full
<1>5. ASSUME NEW p \in DOMAIN built' PROVE CustBatch(p)'
  <2>1. CASE p = o
    BY <1>1, <2>1 DEF CustBatch, OnChain
  <2>2. CASE p # o
    BY <1>1, <1>3, <2>2 DEF CustBatch, CustInv, OnChain
  <2>3. QED
    BY <2>1, <2>2
<1>6. ASSUME NEW d \in Calls, d # c PROVE CustCall(d)'
  <2>1. CustCall(d) /\ call'[d] = call[d]
    BY <1>6 DEF CustInv, Others
  <2>2. call[d].pc \in {"clear", "delete", "putBack"} => call[d].cur \in DOMAIN built
    BY CallFacts DEF HasBatch
  <2>3. call'[d].pc = "clear" => /\ Root(call'[d].hand) = built'[call'[d].cur].root
                                 /\ built'[call'[d].cur].root \in SavedRoots'
    BY <1>1, <1>2, <2>1, <2>2 DEF CustCall
  <2>4. call'[d].pc \in {"delete", "putBack"} => Full(call[d].cur)'
    <3>x. PICK x : x = call[d].cur
      OBVIOUS
    <3>1. call[d].pc \in {"delete", "putBack"} => (Full(x)' <=> Full(x))
      BY <1>3, <1>4, <1>6, <2>2, <3>x
    <3>2. QED
      BY <2>1, <3>x, <3>1 DEF CustCall, Full
  <2>5. ASSUME "due" \notin Ops, NEW x \in DOMAIN built', Target(d, x)' PROVE Full(x)'
    <3>1. Target(d, x) /\ x \in DOMAIN built
      BY <1>1, <2>1, <2>5 DEF Target
    <3>2. Full(x)
      BY <2>1, <2>5, <3>1 DEF CustCall
    <3>3. QED
      BY <1>3, <1>4, <1>6, <2>5, <3>1, <3>2
  <2>6. QED
    BY <2>3, <2>4, <2>5 DEF CustCall
<1>7. QED
  BY <1>5, <1>6 DEF CustInv

LEMMA CustMark ==
    ASSUME CustodyHyp, Known, CustInv, NEW c \in Calls, BroadcastMark(c)
    PROVE  CustInv'
<1>i. IInv /\ NodeInv
  BY DEF Known
<1>o. PICK o : o = call[c].cur
  OBVIOUS
<1>1. /\ chain' = chain /\ call[c].pc = "mark" /\ o \in DOMAIN built
      /\ Marks(o) /\ Over(c, TRUE)
  BY <1>i, <1>o, MarkMove
<1>2. OnChain(o)
  BY <1>i, <1>o, <1>1 DEF NodeInv, Confirms
<1>3. Others(c)
  BY <1>1 DEF Over, Ends, Empty, GoesTo
<1>4. CustCall(c)'
  BY <1>1, CustOver DEF Sending
<1>5. ASSUME NEW d \in Calls, d # c
      PROVE  /\ call[d].pc \notin {"delete", "putBack"}
             /\ "due" \notin Ops => ~Target(d, o)
  <2>1. call[d].pc \notin {"delete", "putBack"}
    BY <1>1, <1>5, NotTwo
  <2>2. "due" \notin Ops => call[d].pc \notin Sending \cup {"loop", "clear"}
    BY <1>1, <1>5, TargetOne DEF Sending
  <2>3. QED
    BY <2>1, <2>2 DEF Target
<1>6. QED
  BY <1>i, <1>1, <1>2, <1>3, <1>4, <1>5, CustMarks

LEMMA CustRefresh ==
    ASSUME CustodyHyp, Known, CustInv, NEW c \in Calls, RefreshStep(c)
    PROVE  CustInv'
<1>i. IInv
  BY DEF Known
<1>1. CASE UNCHANGED store
  BY <1>1, CustMoves
<1>2. CASE ~UNCHANGED store
  <2>o. PICK o : o = call[c].cur
    OBVIOUS
  <2>1. /\ chain' = chain /\ Ends(c) /\ OnChain(o) /\ o \in DOMAIN built
        /\ Marks(o) /\ built'[o].queue = built[o].queue
    BY <1>i, <1>2, <2>o, RefreshMove
  <2>2. CustCall(c)' /\ Others(c)
    BY <2>1, CustIdle DEF Ends, Empty, Sending
  <2>3. QED
    BY <1>i, <2>1, <2>2, CustMarks
<1>3. QED
  BY <1>1, <1>2

LEMMA CustCrash ==
    ASSUME CustInv, Crash
    PROVE  CustInv'
<1>1. UNCHANGED <<built, chain>> /\ \A c \in Calls : call'[c].pc = "rest"
  BY DEF Crash, Rest, Started
<1>2. \A c \in Calls : CustCall(c)'
  BY <1>1, CustIdle DEF Sending
<1>3. QED
  BY <1>1, <1>2 DEF CustInv, CustBatch, Full, OnChain

LEMMA CustNext ==
    ASSUME CustodyHyp, Known, CustInv, [Next]_vars
    PROVE  CustInv'
<1>1. CASE UNCHANGED vars
  BY <1>1 DEF vars, CustInv, CustBatch, CustCall, Full, OnChain, Target, SavedRoots
<1>2. ASSUME NEW c \in Calls,
             \/ AddStep(c) \/ SettleStep(c) \/ BroadcastStep(c)
             \/ DueStep(c) \/ RefreshStep(c)
      PROVE  CustInv'
  <2>1. CASE DueStep(c) \/ AddStep(c)
    BY <2>1, CustMoves
  <2>2. CASE RefreshStep(c)
    BY <2>2, CustRefresh
  <2>3. CASE SettleSave(c) \/ BroadcastDelete(c) \/ BroadcastMark(c)
    BY <2>3, CustSave, CustDelete, CustMark
  <2>4. QED
    BY <1>2, <2>1, <2>2, <2>3, CallSteps, CustMoves
<1>3. CASE Crash
  BY <1>3, CustCrash
<1>4. QED
  BY <1>1, <1>2, <1>3 DEF Next

LEMMA CustInit ==
    ASSUME Init
    PROVE  CustInv
<1>1. built = <<>> /\ \A c \in Calls : call[c] = Rest("none")
  BY DEF Init
<1>2. \A c \in Calls : call[c].pc = "rest"
  BY <1>1 DEF Rest, Started
<1>3. QED
  BY <1>1, <1>2 DEF CustInv, CustCall, Target, Sending

LEMMA KnownInvariance == Spec => []Known
<1>1. Spec => [](SerialSends => SpendInv)
  <2>1. CASE SerialSends
    <3>1. SpendInv => (SerialSends => SpendInv)
      OBVIOUS
    <3>2. QED
      BY <2>1, <3>1, SpendInvariance, PTL
  <2>2. CASE ~SerialSends
    <3>1. SerialSends => SpendInv
      BY <2>2
    <3>2. QED
      BY <3>1, PTL
  <2>3. QED
    BY <2>1, <2>2
<1>2. Spec => [](~StoreYields => Mutex)
  <2>1. CASE ~StoreYields
    <3>1. Mutex => (~StoreYields => Mutex)
      OBVIOUS
    <3>2. QED
      BY <2>1, <3>1, MutexInvariance, PTL
  <2>2. CASE StoreYields
    <3>1. ~StoreYields => Mutex
      BY <2>2
    <3>2. QED
      BY <3>1, PTL
  <2>3. QED
    BY <2>1, <2>2
<1>3. Spec => [](GivesUpNever => KeepInv)
  <2>1. CASE GivesUpNever
    <3>1. KeepInv => (GivesUpNever => KeepInv)
      OBVIOUS
    <3>2. QED
      BY <2>1, <3>1, KeepInvariance, PTL
  <2>2. CASE ~GivesUpNever
    <3>1. GivesUpNever => KeepInv
      BY <2>2
    <3>2. QED
      BY <3>1, PTL
  <2>3. QED
    BY <2>1, <2>2
<1>4. /\ IInv /\ NodeInv /\ IdsInv /\ (SerialSends => SpendInv)
      /\ (~StoreYields => Mutex) /\ (GivesUpNever => KeepInv)
      => Known
  BY DEF Known
<1>5. QED
  BY <1>1, <1>2, <1>3, <1>4, Invariance, NodeInvariance, IdsInvariance, PTL

LEMMA CustInvariance == ASSUME CustodyHyp PROVE Spec => []CustInv
<1>1. Known /\ CustInv /\ [Next]_vars => CustInv'
  BY CustNext
<1>2. Init => CustInv
  BY CustInit
<1>3. QED
  BY <1>1, <1>2, KnownInvariance, PTL DEF Spec

\* The call is putting the hash back.
Comes(c, h) == \/ call[c].pc = "putBack" /\ Among(h, built[call[c].cur].queue)
               \/ call[c].pc = "requeue" /\ Among(h, call[c].hand)

\* The hash is in custody, wherever it is.
Has(h) == Waits(h) \/ Kept(h) \/ Returning(h)

LEMMA CustodySays ==
    ASSUME NEW h
    PROVE  h \in Custody <=> Has(h)
<1>1. h \in Queued <=> Waits(h)
  BY DEF Queued, Waits, Among
<1>2. h \in Batched <=> Kept(h)
  BY DEF Batched, Kept
<1>3. h \in PutBack <=> Returning(h)
  BY DEF PutBack, Returning, Among
<1>4. QED
  BY <1>1, <1>2, <1>3 DEF Custody, Has

LEMMA KeptByRoot ==
    ASSUME NEW h
    PROVE  Kept(h) <=> \E r \in SavedRoots : h \in Leaves(r)
BY DEF Kept, SavedRoots

\* A step of one call has to answer for the queue, the batches and what the
\* call itself puts back.
LEMMA StillHas ==
    ASSUME NEW c \in Calls, Others(c), NEW h, Has(h), Waits(h) => Has(h)',
           Kept(h) => Has(h)', Comes(c, h) => Has(h)',
           \A d \in Calls : d # c /\ call[d].pc = "putBack"
              => built'[call[d].cur].queue = built[call[d].cur].queue
    PROVE  Has(h)'
<1>1. CASE \E d \in Calls : d # c /\ Comes(d, h)
  <2>1. PICK d \in Calls : d # c /\ Comes(d, h)
    BY <1>1
  <2>2. call'[d] = call[d]
    BY <2>1 DEF Others
  <2>3. Comes(d, h)'
    BY <2>1, <2>2 DEF Comes, Among
  <2>4. QED
    BY <2>3 DEF Has, Returning, Comes
<1>2. CASE ~(\E d \in Calls : d # c /\ Comes(d, h))
  BY <1>2 DEF Has, Returning, Comes
<1>3. QED
  BY <1>1, <1>2

\* Calls that start, end, ask, send or decide.
LEMMA HasMoves ==
    ASSUME IInv, NEW c \in Calls, NEW h, Has(h),
           \/ AddStep(c) \/ StartSettle(c)
           \/ SettleBegin(c) \/ SettleCheck(c) \/ SettleTake(c)
           \/ SettleFund(c) \/ SettleFundFails(c)
           \/ ResumeNext(c) \/ ResumeEnd(c) \/ BroadcastSend(c)
           \/ BroadcastReply(c) \/ LookupFinds(c) \/ LookupMisses(c)
           \/ DueStep(c) \/ (RefreshStep(c) /\ UNCHANGED store)
    PROVE  Has(h)'
<1>1. UNCHANGED <<built, saved>> /\ Others(c) /\ pending \subseteq pending'
  <2>1. CASE AddStep(c) \/ StartSettle(c)
    BY <2>1, AddMove, AskMove DEF StartSettle, store
  <2>2. CASE SettleBegin(c) \/ SettleCheck(c) \/ SettleTake(c)
    BY <2>2, BeginMove, CheckMove, TakeMove DEF store, Itself, GoesTo, Ends, Empty
  <2>3. CASE SettleFund(c) \/ SettleFundFails(c)
    BY <2>3, FundMove DEF store, Itself, Ends, Empty
  <2>4. CASE ResumeNext(c) \/ ResumeEnd(c) \/ BroadcastReply(c) \/ LookupFinds(c)
    BY <2>4, NextMove, EndMove, ReplyMove DEF store, Itself, GoesTo
  <2>5. CASE BroadcastSend(c) \/ LookupMisses(c)
    BY <2>5, SendMove, MissMove DEF store, Itself, Over, GoesTo, Ends, Empty
  <2>6. CASE DueStep(c) \/ (RefreshStep(c) /\ UNCHANGED store)
    BY <2>6, DueMove, RefreshMove DEF store, Itself, GoesTo, Ends, Empty
  <2>7. QED
    BY <2>1, <2>2, <2>3, <2>4, <2>5, <2>6
<1>2. call[c].pc \notin {"putBack", "requeue"}
  <2>1. CASE AddStep(c) \/ StartSettle(c)
    BY <2>1, AskMove DEF Asking
  <2>2. CASE SettleBegin(c) \/ SettleCheck(c) \/ SettleTake(c)
    BY <2>2, BeginMove, CheckMove, TakeMove
  <2>3. CASE SettleFund(c) \/ SettleFundFails(c)
    BY <2>3, FundMove
  <2>4. CASE ResumeNext(c) \/ ResumeEnd(c) \/ BroadcastReply(c) \/ LookupFinds(c)
    BY <2>4, NextMove, EndMove, ReplyMove
  <2>5. CASE BroadcastSend(c) \/ LookupMisses(c)
    BY <2>5, SendMove, MissMove
  <2>6. CASE DueStep(c) \/ (RefreshStep(c) /\ UNCHANGED store)
    BY <2>6, DueMove, RefreshMove
  <2>7. QED
    BY <2>1, <2>2, <2>3, <2>4, <2>5, <2>6
<1>3. (Waits(h) => Waits(h)') /\ (Kept(h) => Kept(h)')
  BY <1>1 DEF Waits, Kept, Among
<1>4. ~Comes(c, h)
  BY <1>2 DEF Comes
<1>5. QED
  BY <1>1, <1>3, <1>4, StillHas DEF Has

\* What is cleared from the queue is in the batch made of it.
LEMMA HasClear ==
    ASSUME IInv, IdsInv, CustInv, NEW c \in Calls, NEW h, Has(h), SettleClear(c)
    PROVE  Has(h)'
<1>s. PICK S : S = call[c].hand
  OBVIOUS
<1>1. /\ UNCHANGED <<built, saved>> /\ Others(c) /\ call[c].pc = "clear"
      /\ pending' = {e \in pending : e.id \notin {f.id : f \in S}}
  BY <1>s, ClearMove DEF Itself
<1>2. Kept(h) => Kept(h)'
  BY <1>1 DEF Kept
<1>3. ASSUME Waits(h) PROVE Waits(h)' \/ Kept(h)
  <2>1. PICK e \in pending : e.hash = h
    BY <1>3 DEF Waits, Among
  <2>2. CASE e \in pending'
    BY <2>1, <2>2 DEF Waits, Among
  <2>3. CASE e \notin pending'
    <3>1. PICK f \in S : f.id = e.id
      BY <1>1, <2>1, <2>3
    <3>2. <<e.id, e.hash>> \in Ids /\ <<f.id, f.hash>> \in Ids
      BY <1>s, <2>1, <3>1, IdsHas DEF EntryIds
    <3>3. f.hash = h
      BY <2>1, <3>1, <3>2 DEF IdsInv
    <3>4. h \in Leaves(Root(S))
      BY <3>1, <3>3, RootLeaves DEF Among
    <3>5. Root(S) \in SavedRoots
      BY <1>1, <1>s DEF CustInv, CustCall
    <3>6. QED
      BY <3>4, <3>5, KeptByRoot
  <2>4. QED
    BY <2>2, <2>3
<1>4. ~Comes(c, h)
  BY <1>1 DEF Comes
<1>5. QED
  BY <1>1, <1>2, <1>3, <1>4, StillHas DEF Has

\* The store gets a batch, or writes one again.
LEMMA HasSave ==
    ASSUME IInv, NEW c \in Calls, NEW h, Has(h), SettleSave(c)
    PROVE  Has(h)'
<1>1. Others(c) /\ SavesNew(c) /\ call[c].pc = "save" /\ pending' = pending
  BY SaveMove DEF Itself
<1>2. SavedRoots \subseteq SavedRoots'
  BY <1>1, RootsGrow
<1>3. Kept(h) => Kept(h)'
  <2>1. Kept(h) <=> \E r \in SavedRoots : h \in Leaves(r)
    BY KeptByRoot
  <2>2. Kept(h)' <=> \E r \in SavedRoots' : h \in Leaves(r)
    BY DEF Kept, SavedRoots
  <2>3. QED
    BY <1>2, <2>1, <2>2
<1>4. Waits(h) => Waits(h)'
  BY <1>1 DEF Waits
<1>5. \A d \in Calls : d # c /\ call[d].pc = "putBack"
         => built'[call[d].cur].queue = built[call[d].cur].queue
  BY <1>1, CallFacts DEF SavesNew, HasBatch
<1>6. ~Comes(c, h)
  BY <1>1 DEF Comes
<1>7. QED
  BY <1>1, <1>3, <1>4, <1>5, <1>6, StillHas DEF Has

LEMMA HasMarks ==
    ASSUME CustodyHyp, Known, NEW c \in Calls, NEW h, Has(h),
           BroadcastMark(c) \/ (RefreshStep(c) /\ ~UNCHANGED store)
    PROVE  Has(h)'
<1>i. IInv
  BY DEF Known
<1>o. PICK o : o = call[c].cur
  OBVIOUS
<1>1. /\ pending' = pending /\ Others(c) /\ o \in DOMAIN built /\ Marks(o)
      /\ \/ call[c].pc = "mark"
         \/ call[c].pc = "refetch" /\ built'[o].queue = built[o].queue
  BY <1>i, <1>o, MarkMove, RefreshMove DEF Over, Ends, Empty, GoesTo
<1>2. SavedRoots \subseteq SavedRoots'
  BY <1>i, <1>1, RootsStay
<1>3. Kept(h) => Kept(h)'
  <2>1. Kept(h) <=> \E r \in SavedRoots : h \in Leaves(r)
    BY KeptByRoot
  <2>2. Kept(h)' <=> \E r \in SavedRoots' : h \in Leaves(r)
    BY DEF Kept, SavedRoots
  <2>3. QED
    BY <1>2, <2>1, <2>2
<1>4. Waits(h) => Waits(h)'
  BY <1>1 DEF Waits
<1>5. ASSUME NEW d \in Calls, d # c, call[d].pc = "putBack"
      PROVE  built'[call[d].cur].queue = built[call[d].cur].queue
  <2>1. call[c].pc # "mark"
    BY <1>5, NotTwo
  <2>2. call[d].cur \in DOMAIN built
    BY <1>i, <1>5, CallFacts DEF HasBatch
  <2>3. QED
    BY <1>1, <2>1, <2>2 DEF Marks
<1>6. ~Comes(c, h)
  BY <1>1 DEF Comes
<1>7. QED
  BY <1>1, <1>3, <1>4, <1>5, <1>6, StillHas DEF Has

\* A batch is given up: its hashes are all in the queue of its object.
LEMMA HasDelete ==
    ASSUME IInv, CustInv, NEW c \in Calls, NEW h, Has(h), BroadcastDelete(c)
    PROVE  Has(h)'
<1>o. PICK o : o = call[c].cur
  OBVIOUS
<1>1. /\ UNCHANGED <<pending, built>> /\ Others(c) /\ call[c].pc = "delete"
      /\ call'[c].pc = "putBack" /\ call'[c].cur = o
      /\ saved' = {p \in saved : built[p].root # built[o].root}
  BY <1>o, DeleteMove DEF GoesTo
<1>2. Full(o)
  BY <1>1, <1>o DEF CustInv, CustCall
<1>3. ASSUME Kept(h) PROVE Has(h)'
  <2>1. PICK p \in saved : h \in Leaves(built[p].root)
    BY <1>3 DEF Kept
  <2>2. CASE built[p].root = built[o].root
    <3>1. Among(h, built'[o].queue)
      BY <1>1, <1>2, <2>1, <2>2 DEF Full
    <3>2. QED
      BY <1>1, <3>1 DEF Has, Returning
  <2>3. CASE built[p].root # built[o].root
    BY <1>1, <2>1, <2>3 DEF Has, Kept
  <2>4. QED
    BY <2>2, <2>3
<1>4. Waits(h) => Waits(h)'
  BY <1>1 DEF Waits
<1>5. ~Comes(c, h)
  BY <1>1 DEF Comes
<1>6. QED
  BY <1>1, <1>3, <1>4, <1>5, StillHas DEF Has

\* The way back to the queue, entry by entry.
LEMMA HasReturns ==
    ASSUME IInv, NEW c \in Calls, NEW h, Has(h),
           BroadcastPutBack(c) \/ BroadcastRequeue(c) \/ BroadcastRejected(c)
    PROVE  Has(h)'
<1>1. /\ UNCHANGED <<built, saved>> /\ Others(c)
      /\ pending \subseteq pending'
  <2>1. BroadcastRequeue(c) => pending \subseteq pending'
    BY RequeueMove DEF Push
  <2>2. QED
    BY <2>1, PutBackMove, RequeueMove, RejectedMove
    DEF store, Itself, Over, GoesTo, Ends, Empty
<1>2. (Waits(h) => Waits(h)') /\ (Kept(h) => Kept(h)')
  BY <1>1 DEF Waits, Kept, Among
<1>3. ASSUME Comes(c, h) PROVE Has(h)'
  <2>1. CASE BroadcastPutBack(c)
    <3>1. Comes(c, h)'
      BY <1>3, <2>1, PutBackMove DEF Comes
    <3>2. QED
      BY <3>1 DEF Has, Returning, Comes
  <2>2. CASE BroadcastRejected(c)
    BY <1>3, <2>2, RejectedMove DEF Comes, Among
  <2>3. CASE BroadcastRequeue(c)
    <3>1. PICK e \in call[c].hand : Push(e) /\ call'[c].hand = call[c].hand \ {e}
      BY <2>3, RequeueMove
    <3>2. PICK f : f.hash = e.hash /\ pending' = pending \cup {f}
      <4>1. e \in Entry
        BY <3>1, Typed
      <4>2. [e EXCEPT !.at = pushes + 1].hash = e.hash
        BY <4>1 DEF Entry
      <4>3. QED
        BY <3>1, <4>2 DEF Push
    <3>3. PICK g \in call[c].hand : g.hash = h
      BY <1>3, <2>3, RequeueMove DEF Comes, Among
    <3>4. CASE g = e
      BY <3>2, <3>3, <3>4 DEF Has, Waits, Among
    <3>5. CASE g # e
      <4>1. call'[c].pc = "requeue" /\ Among(h, call'[c].hand)
        BY <2>3, <3>1, <3>3, <3>5, RequeueMove DEF Among
      <4>2. QED
        BY <4>1 DEF Has, Returning
    <3>6. QED
      BY <3>4, <3>5
  <2>4. QED
    BY <2>1, <2>2, <2>3
<1>4. QED
  BY <1>1, <1>2, <1>3, StillHas DEF Has

\* A process that stops forgets what its calls were putting back: where it may
\* stop, nothing is given up.
LEMMA HasCrash ==
    ASSUME CustodyHyp, Known, NEW h, Has(h), Crash
    PROVE  Has(h)'
<1>1. KeepInv
  BY DEF Crash, CustodyHyp, Known
<1>2. ~Returning(h)
  BY <1>1 DEF KeepInv, Returning
<1>3. UNCHANGED <<pending, built, saved>>
  BY DEF Crash
<1>4. QED
  BY <1>2, <1>3 DEF Has, Waits, Kept

LEMMA HasNext ==
    ASSUME CustodyHyp, Known, CustInv, [Next]_vars, NEW h, Has(h)
    PROVE  Has(h)'
<1>i. IInv /\ IdsInv
  BY DEF Known
<1>1. CASE UNCHANGED vars
  BY <1>1 DEF vars, Has, Waits, Kept, Returning
<1>2. ASSUME NEW c \in Calls,
             \/ AddStep(c) \/ SettleStep(c) \/ BroadcastStep(c)
             \/ DueStep(c) \/ RefreshStep(c)
      PROVE  Has(h)'
  <2>1. CASE DueStep(c) \/ AddStep(c)
    BY <1>i, <2>1, HasMoves
  <2>2. CASE RefreshStep(c)
    BY <1>i, <2>2, HasMoves, HasMarks
  <2>3. CASE SettleSave(c) \/ SettleClear(c)
    BY <1>i, <2>3, HasSave, HasClear
  <2>4. CASE BroadcastDelete(c) \/ BroadcastMark(c)
    BY <1>i, <2>4, HasDelete, HasMarks
  <2>5. CASE BroadcastPutBack(c) \/ BroadcastRequeue(c) \/ BroadcastRejected(c)
    BY <1>i, <2>5, HasReturns
  <2>6. QED
    BY <1>i, <1>2, <2>1, <2>2, <2>3, <2>4, <2>5, CallSteps, HasMoves
<1>3. CASE Crash
  BY <1>3, HasCrash
<1>4. QED
  BY <1>1, <1>2, <1>3 DEF Next

\* A hash that addHash has queued stays queued, in a batch of the store, or on
\* its way back, whatever the calls do in between and whatever the node answers.
THEOREM CustodyIsKept == ASSUME CustodyHyp PROVE Spec => CustodyKept
<1>1. Known /\ CustInv /\ [Next]_vars => [Custody \subseteq Custody']_vars
  <2>1. SUFFICES ASSUME Known, CustInv, [Next]_vars
                 PROVE  Custody \subseteq Custody'
    OBVIOUS
  <2>2. ASSUME NEW h \in Custody PROVE h \in Custody'
    <3>1. Has(h)
      BY <2>2, CustodySays
    <3>2. Has(h)'
      BY <2>1, <3>1, HasNext
    <3>3. h \in Custody' <=> Has(h)'
      <4>1. h \in Queued' <=> Waits(h)'
        BY DEF Queued, Waits, Among
      <4>2. h \in Batched' <=> Kept(h)'
        BY DEF Batched, Kept
      <4>3. h \in PutBack' <=> Returning(h)'
        BY DEF PutBack, Returning, Among
      <4>4. QED
        BY <4>1, <4>2, <4>3 DEF Custody, Has
    <3>4. QED
      BY <3>2, <3>3
  <2>3. QED
    BY <2>2
<1>2. QED
  BY <1>1, KnownInvariance, CustInvariance, PTL DEF Spec, CustodyKept
=============================================================================
