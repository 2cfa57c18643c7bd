---------------------------- MODULE NotaryProofs ----------------------------
(***************************************************************************)
(* Proofs about Notary for any number of calls and hashes, any bounds, any *)
(* store and any behaviour of the node, with and without crashes.          *)
(***************************************************************************)
EXTENDS Notary, FiniteSetTheorems, TLAPS

-----------------------------------------------------------------------------
(* Types.                                                                  *)

\* The places of a call at which "cur" names a batch object.
HasBatch == {"clear", "send", "reply", "lookup", "delete", "putBack",
             "requeue", "mark", "refetch"}

\* The places at which "hash" is the hash handed in.
HasHash == {"existing", "proof", "list", "push"}

CallOK(c) == /\ IsFiniteSet(call[c].hand)
             /\ call[c].todo \subseteq DOMAIN built
             /\ call[c].pc \in HasBatch => call[c].cur \in DOMAIN built
             /\ call[c].pc \in HasHash => call[c].hash \in Hashes

\* TypeOK is inductive with two facts it does not say: positions in a root
\* are numbers because queues are finite, and calls name existing objects.
TypeInv == /\ TypeOK
           /\ IsFiniteSet(pending)
           /\ \A o \in DOMAIN built : IsFiniteSet(built[o].queue)
           /\ \A c \in Calls : CallOK(c)

\* The root of a finite queue is a root.
LEMMA RootType ==
    ASSUME NEW S \in SUBSET Entry, IsFiniteSet(S)
    PROVE  Root(S) \in Roots
<1>1. ASSUME NEW e \in S
      PROVE  Cardinality({f \in S : f.at <= e.at}) \in Nat
  <2>1. IsFiniteSet({f \in S : f.at <= e.at})
    BY FS_Subset
  <2>2. QED
    BY <2>1, FS_CardinalityType
<1>2. ASSUME NEW e \in S
      PROVE  <<Cardinality({f \in S : f.at <= e.at}), e.hash>> \in Nat \X Hashes
  BY <1>1 DEF Entry
<1>3. QED
  BY <1>2 DEF Root, Roots

\* What a call that ends leaves behind has the type of a call.
LEMMA RestType ==
    ASSUME NEW out \in Outcomes
    PROVE  /\ Rest(out) \in CallState
           /\ Rest(out).hand = {} /\ Rest(out).todo = {}
           /\ Rest(out).pc = "rest" /\ Rest(out).own = FALSE
  BY DEF Rest, Started, CallState, Waiting, Working, AllOps, Outcomes

-----------------------------------------------------------------------------
(* The chain of settlements.                                               *)

\* Places of a call that has asked for no settlement, or whose one is over.
OutOfChain == {"rest", "existing", "proof", "list", "push", "final",
               "dueSigned", "dueList", "refetch"}

\* The settlement of c is past its start, or sends the batch it made.
Active(c) == Settling(c) \/ (call[c].own /\ call[c].pc # "final")

\* A call is in the chain once, the calls behind the first have not started,
\* and only the first is active.
ChainInv ==
    /\ \A i, j \in DOMAIN chainQ : chainQ[i] = chainQ[j] => i = j
    /\ \A i \in DOMAIN chainQ : call[chainQ[i]].pc \notin OutOfChain
    /\ \A i \in DOMAIN chainQ : i > 1 => call[chainQ[i]].pc = "queued"
    /\ \A c \in Calls : Active(c) => chainQ # <<>> /\ chainQ[1] = c

\* While a settlement is between its check and its save nothing is signed.
SignInv ==
    /\ AtMostOneSigned
    /\ \A c \in Calls : call[c].pc \in {"take", "fund", "save"}
                           => SignedBatches = {}

IInv == TypeInv /\ ChainInv /\ SignInv

-----------------------------------------------------------------------------
(* One call changes: what the new record must satisfy.                     *)

\* The type of the calls.
CallsOK == call \in [Calls -> CallState] /\ \A c \in Calls : CallOK(c)

LEMMA ReplaceType ==
    ASSUME TypeInv, NEW c \in Calls, NEW r \in CallState,
           call' = [call EXCEPT ![c] = r],
           DOMAIN built \subseteq (DOMAIN built)',
           IsFiniteSet(r.hand), r.todo \subseteq (DOMAIN built)',
           r.pc \in HasBatch => r.cur \in (DOMAIN built)',
           r.pc \in HasHash => r.hash \in Hashes
    PROVE  CallsOK'
<1>1. call' \in [Calls -> CallState]
  BY DEF TypeInv, TypeOK
<1>2. ASSUME NEW d \in Calls
      PROVE  CallOK(d)'
  <2>1. CASE d = c
    BY <2>1 DEF CallOK, TypeInv, TypeOK
  <2>2. CASE d # c
    BY <2>2 DEF CallOK, TypeInv, TypeOK
  <2>3. QED
    BY <2>1, <2>2
<1>3. QED
  BY <1>1, <1>2 DEF CallsOK

\* The chain stays, and the call moves without entering or leaving it.
LEMMA ReplaceStay ==
    ASSUME TypeInv, ChainInv, NEW c \in Calls, NEW r \in CallState,
           call' = [call EXCEPT ![c] = r], chainQ' = chainQ,
           InChain(c) => /\ r.pc \notin OutOfChain
                         /\ call[c].pc = "queued" => chainQ[1] = c,
           (r.pc \in {"check", "take", "fund", "save", "clear"}
            \/ (r.own /\ r.pc # "final")) => (chainQ # <<>> /\ chainQ[1] = c)
    PROVE  ChainInv'
<1>1. \A d \in Calls : call'[d] = IF d = c THEN r ELSE call[d]
  BY DEF TypeInv, TypeOK
<1>2. \A i \in DOMAIN chainQ : chainQ[i] \in Calls
  BY DEF TypeInv, TypeOK
<1>3. \A i \in DOMAIN chainQ : call'[chainQ[i]].pc \notin OutOfChain
  BY <1>1, <1>2 DEF ChainInv, InChain
<1>4. \A i \in DOMAIN chainQ : i > 1 => call'[chainQ[i]].pc = "queued"
  BY <1>1, <1>2 DEF ChainInv, InChain, TypeInv, TypeOK
<1>5. ASSUME NEW d \in Calls, Active(d)'
      PROVE  chainQ # <<>> /\ chainQ[1] = d
  <2>1. CASE d = c
    <3>1. call'[d] = r
      BY <1>1, <2>1
    <3>2. \/ r.pc \in {"check", "take", "fund", "save", "clear"}
          \/ r.own /\ r.pc # "final"
      BY <1>5, <3>1 DEF Active, Settling
    <3>3. QED
      BY <3>2, <2>1
  <2>2. CASE d # c
    <3>1. call'[d] = call[d]
      BY <1>1, <2>2
    <3>2. Active(d)
      BY <1>5, <3>1 DEF Active, Settling
    <3>3. QED
      BY <3>2 DEF ChainInv
  <2>3. QED
    BY <2>1, <2>2
<1>6. QED
  BY <1>3, <1>4, <1>5 DEF ChainInv

\* The call asks for a settlement.
LEMMA ReplaceJoin ==
    ASSUME TypeInv, ChainInv, NEW c \in Calls, NEW r \in CallState,
           call' = [call EXCEPT ![c] = r], chainQ' = Append(chainQ, c),
           ~InChain(c), r.pc = "queued", r.own = FALSE
    PROVE  ChainInv' /\ chainQ' \in Seq(Calls)
<1>1. \A d \in Calls : call'[d] = IF d = c THEN r ELSE call[d]
  BY DEF TypeInv, TypeOK
<1>2. chainQ \in Seq(Calls) /\ chainQ' \in Seq(Calls)
  BY DEF TypeInv, TypeOK
<1>3. \A i \in DOMAIN chainQ' :
          \/ i \in DOMAIN chainQ /\ chainQ'[i] = chainQ[i] /\ chainQ[i] # c
          \/ i = Len(chainQ) + 1 /\ chainQ'[i] = c
  BY <1>2 DEF InChain
<1>4. \A i, j \in DOMAIN chainQ' : chainQ'[i] = chainQ'[j] => i = j
  BY <1>3 DEF ChainInv
<1>5. \A i \in DOMAIN chainQ' : call'[chainQ'[i]].pc \notin OutOfChain
  BY <1>1, <1>2, <1>3 DEF ChainInv, OutOfChain
<1>6. \A i \in DOMAIN chainQ' : i > 1 => call'[chainQ'[i]].pc = "queued"
  BY <1>1, <1>2, <1>3 DEF ChainInv
<1>7. \A d \in Calls : Active(d)' => chainQ' # <<>> /\ chainQ'[1] = d
  BY <1>1, <1>2 DEF ChainInv, Active, Settling, InChain
<1>8. QED
  BY <1>2, <1>4, <1>5, <1>6, <1>7 DEF ChainInv

\* The first settlement of the chain is over.
LEMMA ReplaceLeave ==
    ASSUME TypeInv, ChainInv, NEW c \in Calls, NEW r \in CallState,
           call' = [call EXCEPT ![c] = r], chainQ' = Tail(chainQ),
           Active(c), r.pc \in {"rest", "final"},
           r.own => r.pc = "final"
    PROVE  ChainInv' /\ chainQ' \in Seq(Calls)
<1>1. \A d \in Calls : call'[d] = IF d = c THEN r ELSE call[d]
  BY DEF TypeInv, TypeOK
<1>2. chainQ \in Seq(Calls) /\ chainQ # <<>> /\ chainQ[1] = c
  BY DEF TypeInv, TypeOK, ChainInv
<1>3. /\ chainQ' \in Seq(Calls)
      /\ \A i \in DOMAIN chainQ' : /\ i + 1 \in DOMAIN chainQ
                                   /\ i + 1 > 1
                                   /\ chainQ'[i] = chainQ[i + 1]
  BY <1>2
<1>4. \A i \in DOMAIN chainQ' : chainQ'[i] # c /\ chainQ'[i] \in Calls
  BY <1>2, <1>3 DEF ChainInv
<1>5. \A i, j \in DOMAIN chainQ' : chainQ'[i] = chainQ'[j] => i = j
  BY <1>2, <1>3 DEF ChainInv
<1>6. \A i \in DOMAIN chainQ' : call'[chainQ'[i]].pc = "queued"
  BY <1>1, <1>3, <1>4 DEF ChainInv
<1>7. \A d \in Calls : ~Active(d)'
  BY <1>1, <1>2 DEF ChainInv, Active, Settling
<1>8. QED
  BY <1>3, <1>5, <1>6, <1>7 DEF ChainInv, OutOfChain

-----------------------------------------------------------------------------
(* The whole invariant, for the three ways a call moves.                   *)

Unsigned == {"take", "fund", "save"}

\* Nothing gets signed, so SignInv depends on the place of the call alone.
LEMMA ReplaceSign ==
    ASSUME TypeInv, SignInv, NEW c \in Calls, NEW r \in CallState,
           call' = [call EXCEPT ![c] = r],
           SignedBatches' \subseteq SignedBatches,
           r.pc \in Unsigned => call[c].pc \in Unsigned \/ SignedBatches = {}
    PROVE  SignInv'
<1>1. \A d \in Calls : call'[d] = IF d = c THEN r ELSE call[d]
  BY DEF TypeInv, TypeOK
<1>2. AtMostOneSigned'
  BY DEF SignInv, AtMostOneSigned
<1>3. ASSUME NEW d \in Calls, call'[d].pc \in Unsigned
      PROVE  SignedBatches' = {}
  BY <1>1, <1>3 DEF SignInv, Unsigned
<1>4. QED
  BY <1>2, <1>3 DEF SignInv, Unsigned

\* The types of everything but the calls and the chain of settlements.
StoreOK == /\ pending \in SUBSET Entry /\ IsFiniteSet(pending)
           /\ built \in Seq(Batch)
           /\ \A o \in DOMAIN built : IsFiniteSet(built[o].queue)
           /\ saved \in SUBSET DOMAIN built
           /\ index \in [Hashes -> Roots]
           /\ settling \in BOOLEAN
           /\ chain \in Seq(Roots)
           /\ requests \in Nat /\ pushes \in Nat

\* The call moves, and the chain stays.
LEMMA StayStep ==
    ASSUME IInv, NEW c \in Calls, NEW r \in CallState,
           call' = [call EXCEPT ![c] = r], chainQ' = chainQ, StoreOK',
           DOMAIN built \subseteq (DOMAIN built)',
           SignedBatches' \subseteq SignedBatches,
           IsFiniteSet(r.hand), r.todo \subseteq (DOMAIN built)',
           r.pc \in HasBatch => r.cur \in (DOMAIN built)',
           r.pc \in HasHash => r.hash \in Hashes,
           InChain(c) => /\ r.pc \notin OutOfChain
                         /\ call[c].pc = "queued" => chainQ[1] = c,
           (r.pc \in {"check", "take", "fund", "save", "clear"}
            \/ (r.own /\ r.pc # "final")) => (chainQ # <<>> /\ chainQ[1] = c),
           r.pc \in Unsigned => call[c].pc \in Unsigned \/ SignedBatches = {}
    PROVE  IInv'
<1>1. CallsOK'
  BY ReplaceType DEF IInv
<1>2. TypeInv'
  BY <1>1 DEF IInv, TypeInv, TypeOK, StoreOK, CallsOK
<1>3. ChainInv'
  BY ReplaceStay DEF IInv
<1>4. SignInv'
  BY ReplaceSign DEF IInv
<1>5. QED
  BY <1>2, <1>3, <1>4 DEF IInv

\* The call asks for a settlement.
LEMMA JoinStep ==
    ASSUME IInv, NEW c \in Calls, NEW r \in CallState,
           call' = [call EXCEPT ![c] = r], chainQ' = Append(chainQ, c), StoreOK',
           DOMAIN built \subseteq (DOMAIN built)',
           SignedBatches' \subseteq SignedBatches,
           IsFiniteSet(r.hand), r.todo \subseteq (DOMAIN built)',
           ~InChain(c), r.pc = "queued", r.own = FALSE
    PROVE  IInv'
<1>1. ChainInv' /\ chainQ' \in Seq(Calls)
  BY ReplaceJoin DEF IInv
<1>2. CallsOK'
  BY ReplaceType DEF IInv, HasBatch, HasHash
<1>3. TypeInv'
  BY <1>1, <1>2 DEF TypeInv, TypeOK, StoreOK, CallsOK
<1>4. SignInv'
  BY ReplaceSign DEF IInv, Unsigned
<1>5. QED
  BY <1>1, <1>3, <1>4 DEF IInv

\* The settlement of the call is over.
LEMMA LeaveStep ==
    ASSUME IInv, NEW c \in Calls, NEW r \in CallState,
           call' = [call EXCEPT ![c] = r], chainQ' = Tail(chainQ), StoreOK',
           DOMAIN built \subseteq (DOMAIN built)',
           SignedBatches' \subseteq SignedBatches,
           IsFiniteSet(r.hand), r.todo \subseteq (DOMAIN built)',
           Active(c), r.pc \in {"rest", "final"}, r.own => r.pc = "final"
    PROVE  IInv'
<1>1. ChainInv' /\ chainQ' \in Seq(Calls)
  BY ReplaceLeave DEF IInv
<1>2. CallsOK'
  BY ReplaceType DEF IInv, HasBatch, HasHash
<1>3. TypeInv'
  BY <1>1, <1>2 DEF TypeInv, TypeOK, StoreOK, CallsOK
<1>4. SignInv'
  BY ReplaceSign DEF IInv, Unsigned
<1>5. QED
  BY <1>1, <1>3, <1>4 DEF IInv

-----------------------------------------------------------------------------
(* The helpers of the calls.                                               *)

\* What the invariant says of one call.
LEMMA CallFacts ==
    ASSUME IInv, NEW c \in Calls
    PROVE  /\ call[c] \in CallState
           /\ IsFiniteSet(call[c].hand)
           /\ call[c].todo \subseteq DOMAIN built
           /\ call[c].pc \in HasBatch => call[c].cur \in DOMAIN built
           /\ call[c].pc \in HasHash => call[c].hash \in Hashes
           /\ call[c].pc \in OutOfChain => ~InChain(c)
           /\ Active(c) => InChain(c) /\ chainQ # <<>> /\ chainQ[1] = c
           /\ InChain(c) /\ call[c].pc # "queued" => chainQ # <<>> /\ chainQ[1] = c
<1>1. /\ call[c] \in CallState
      /\ IsFiniteSet(call[c].hand)
      /\ call[c].todo \subseteq DOMAIN built
      /\ call[c].pc \in HasBatch => call[c].cur \in DOMAIN built
      /\ call[c].pc \in HasHash => call[c].hash \in Hashes
  BY DEF IInv, TypeInv, TypeOK, CallOK
<1>2. chainQ \in Seq(Calls)
  BY DEF IInv, TypeInv, TypeOK
<1>3. call[c].pc \in OutOfChain => ~InChain(c)
  BY DEF IInv, ChainInv, InChain
<1>4. Active(c) => InChain(c) /\ chainQ # <<>> /\ chainQ[1] = c
  BY <1>2 DEF IInv, ChainInv, InChain
<1>5. InChain(c) /\ call[c].pc # "queued" => chainQ # <<>> /\ chainQ[1] = c
  BY <1>2 DEF IInv, ChainInv, InChain
<1>6. QED
  BY <1>1, <1>3, <1>4, <1>5

\* What a step leaves true that does not touch the store.
LEMMA SameStore ==
    ASSUME IInv, UNCHANGED store, settling' \in BOOLEAN, chain' \in Seq(Roots),
           requests' \in Nat
    PROVE  /\ StoreOK'
           /\ DOMAIN built \subseteq (DOMAIN built)'
           /\ SignedBatches' \subseteq SignedBatches
<1>1. StoreOK'
  BY DEF IInv, TypeInv, TypeOK, StoreOK, store
<1>2. QED
  BY <1>1 DEF store, SignedBatches

\* A call that is not in the chain ends.
LEMMA FinishStep ==
    ASSUME IInv, NEW c \in Calls, NEW out \in Outcomes, Finish(c, out),
           ~InChain(c), chainQ' = chainQ, StoreOK',
           DOMAIN built \subseteq (DOMAIN built)',
           SignedBatches' \subseteq SignedBatches
    PROVE  IInv'
<1>1. /\ Rest(out) \in CallState
      /\ IsFiniteSet(Rest(out).hand) /\ Rest(out).todo = {}
      /\ Rest(out).pc = "rest" /\ Rest(out).own = FALSE
  BY RestType, FS_EmptySet
<1>2. call' = [call EXCEPT ![c] = Rest(out)]
  BY DEF Finish
<1>3. QED
  BY <1>1, <1>2, StayStep DEF HasBatch, HasHash, Unsigned

\* A call that starts.
LEMMA StartStep ==
    ASSUME IInv, NEW c \in Calls, NEW op \in AllOps,
           NEW h \in Hashes \cup {NoHash}, NEW id \in Nat,
           NEW pc \in {"existing", "proof", "dueSigned"},
           pc \in HasHash => h \in Hashes,
           call' = [call EXCEPT ![c] = Started(op, h, id, pc)],
           call[c].pc = "rest", chainQ' = chainQ, StoreOK',
           DOMAIN built \subseteq (DOMAIN built)',
           SignedBatches' \subseteq SignedBatches
    PROVE  IInv'
<1>1. pc \in Waiting \cup Working
  BY DEF Waiting, Working
<1>2. /\ Started(op, h, id, pc) \in CallState
      /\ Started(op, h, id, pc).hand = {}
      /\ Started(op, h, id, pc).todo = {}
      /\ Started(op, h, id, pc).pc = pc
      /\ Started(op, h, id, pc).hash = h
      /\ Started(op, h, id, pc).own = FALSE
  BY <1>1 DEF Started, CallState, Outcomes
<1>3. ~InChain(c)
  BY CallFacts DEF OutOfChain
<1>4. QED
  BY ZenonT(60), <1>2, <1>3, FS_EmptySet, StayStep DEF HasBatch, Unsigned

\* A call goes on to another operation.
LEMMA GotoStep ==
    ASSUME IInv, NEW c \in Calls, NEW pc \in Waiting \cup Working, Goto(c, pc),
           chainQ' = chainQ, StoreOK',
           DOMAIN built \subseteq (DOMAIN built)',
           SignedBatches' \subseteq SignedBatches,
           pc \in HasBatch => call[c].pc \in HasBatch,
           pc \in HasHash => call[c].pc \in HasHash,
           call[c].pc # "queued", call[c].pc # "final",
           InChain(c) => pc \notin OutOfChain,
           pc \in {"check", "take", "fund", "save", "clear"} => InChain(c),
           pc \in Unsigned => call[c].pc \in Unsigned \/ SignedBatches = {}
    PROVE  IInv'
<1> DEFINE r == [call[c] EXCEPT !.pc = pc]
<1>1. /\ r \in CallState /\ r.pc = pc /\ r.own = call[c].own
      /\ r.hand = call[c].hand /\ r.todo = call[c].todo /\ r.cur = call[c].cur
      /\ r.hash = call[c].hash
  BY CallFacts DEF CallState
<1>2. call' = [call EXCEPT ![c] = r]
  BY DEF Goto
<1>3. call[c].own => chainQ # <<>> /\ chainQ[1] = c
  BY CallFacts DEF Active
<1>4. /\ IsFiniteSet(r.hand) /\ r.todo \subseteq (DOMAIN built)'
      /\ r.pc \in HasBatch => r.cur \in (DOMAIN built)'
      /\ r.pc \in HasHash => r.hash \in Hashes
  BY <1>1, CallFacts
<1>5. InChain(c) => chainQ # <<>> /\ chainQ[1] = c
  BY CallFacts
<1>6. QED
  BY <1>1, <1>2, <1>3, <1>4, <1>5, StayStep

\* addHash is over.
LEMMA AddReturnsStep ==
    ASSUME IInv, NEW c \in Calls, NEW out \in Outcomes, AddReturns(c, out),
           call[c].pc \in {"proof", "list", "push"}, StoreOK',
           DOMAIN built \subseteq (DOMAIN built)',
           SignedBatches' \subseteq SignedBatches
    PROVE  IInv'
<1>1. ~InChain(c)
  BY CallFacts DEF OutOfChain
<1>2. CASE call[c].op = "anchor"
  <2> DEFINE r == [call[c] EXCEPT !.pc = "queued"]
  <2>1. /\ r \in CallState /\ r.pc = "queued" /\ r.own = call[c].own
        /\ r.hand = call[c].hand /\ r.todo = call[c].todo
    BY CallFacts DEF CallState, Working
  <2>2. call' = [call EXCEPT ![c] = r] /\ chainQ' = Append(chainQ, c)
    BY <1>2 DEF AddReturns, JoinChain, Goto
  <2>3. call[c].own = FALSE
    BY <1>1, CallFacts DEF Active, CallState
  <2>4. IsFiniteSet(call[c].hand) /\ call[c].todo \subseteq DOMAIN built
    BY CallFacts
  <2>5. IsFiniteSet(r.hand) /\ r.todo \subseteq (DOMAIN built)'
    BY <2>1, <2>4
  <2>6. r.own = FALSE
    BY <2>1, <2>3
  <2> HIDE DEF r
  <2>7. QED
    BY <1>1, <2>1, <2>2, <2>5, <2>6, JoinStep
<1>3. CASE call[c].op # "anchor"
  BY <1>1, <1>3, FinishStep DEF AddReturns
<1>4. QED
  BY <1>2, <1>3

\* _settle is over.
LEMMA SettleReturnsStep ==
    ASSUME IInv, NEW c \in Calls, NEW ok \in BOOLEAN, SettleReturns(c, ok),
           Active(c), StoreOK', DOMAIN built \subseteq (DOMAIN built)',
           SignedBatches' \subseteq SignedBatches
    PROVE  IInv'
<1>1. chainQ' = Tail(chainQ)
  BY DEF SettleReturns
<1>2. CASE ok /\ call[c].op = "anchor"
  <2> DEFINE r == [call[c] EXCEPT !.pc = "final"]
  <2>1. /\ r \in CallState /\ r.pc = "final"
        /\ r.hand = call[c].hand /\ r.todo = call[c].todo
    BY CallFacts DEF CallState, Working
  <2>2. call' = [call EXCEPT ![c] = r]
    BY <1>2 DEF SettleReturns, Goto
  <2>3. QED
    BY <1>1, <2>1, <2>2, CallFacts, LeaveStep
<1>3. CASE ~(ok /\ call[c].op = "anchor")
  <2>1. PICK out \in Outcomes : call' = [call EXCEPT ![c] = Rest(out)]
    BY <1>3 DEF SettleReturns, Finish, Outcomes
  <2>2. /\ Rest(out) \in CallState
        /\ IsFiniteSet(Rest(out).hand) /\ Rest(out).todo = {}
        /\ Rest(out).pc = "rest" /\ Rest(out).own = FALSE
    BY RestType, FS_EmptySet
  <2>3. QED
    BY <1>1, <2>1, <2>2, LeaveStep
<1>4. QED
  BY <1>2, <1>3

\* _broadcastBatch is over.
LEMMA BroadcastReturnsStep ==
    ASSUME IInv, NEW c \in Calls, NEW ok \in BOOLEAN, BroadcastReturns(c, ok),
           call[c].pc \in {"lookup", "requeue", "mark"}, StoreOK',
           DOMAIN built \subseteq (DOMAIN built)',
           SignedBatches' \subseteq SignedBatches
    PROVE  IInv'
<1>1. CASE call[c].own
  <2>1. Active(c)
    BY <1>1 DEF Active
  <2>2. QED
    BY <1>1, <2>1, SettleReturnsStep DEF BroadcastReturns
<1>2. CASE ~call[c].own
  <2>1. Goto(c, "loop") /\ chainQ' = chainQ
    BY <1>2 DEF BroadcastReturns
  <2>2. QED
    BY <2>1, GotoStep DEF HasBatch, HasHash, OutOfChain, Unsigned, Working
<1>3. QED
  BY <1>1, <1>2

-----------------------------------------------------------------------------
(* addHash and anchorNow.                                                  *)

LEMMA AddKeeps ==
    ASSUME IInv, NEW c \in Calls, AddStep(c)
    PROVE  IInv'
<1> USE DEF OutOfChain, HasBatch, HasHash, Unsigned, Working, Outcomes
<1>1. ASSUME NEW op \in {"add", "anchor"}, NEW h \in Hashes, StartRequest(c, op, h)
      PROVE  IInv'
  <2>1. requests' \in Nat /\ requests + 1 \in Nat
    BY <1>1 DEF StartRequest, IInv, TypeInv, TypeOK
  <2>2. /\ UNCHANGED store /\ chainQ' = chainQ
        /\ settling' \in BOOLEAN /\ chain' \in Seq(Roots)
    BY <1>1 DEF StartRequest, IInv, TypeInv, TypeOK
  <2>3. PICK pc \in {"existing", "proof"} :
            call' = [call EXCEPT ![c] = Started(op, h, requests + 1, pc)]
    BY <1>1 DEF StartRequest
  <2>4. call[c].pc = "rest" /\ op \in AllOps
    BY <1>1 DEF StartRequest, AllOps
  <2>5. QED
    BY <2>1, <2>2, <2>3, <2>4, SameStore, StartStep
<1>2. CASE AnchorExisting(c)
  <2>1. /\ UNCHANGED store /\ chainQ' = chainQ /\ requests' \in Nat
        /\ settling' \in BOOLEAN /\ chain' \in Seq(Roots)
        /\ call[c].pc = "existing"
    BY <1>2 DEF AnchorExisting, IInv, TypeInv, TypeOK
  <2>2. Finish(c, "already") \/ Goto(c, "proof")
    BY <1>2 DEF AnchorExisting
  <2>3. QED
    BY <2>1, <2>2, CallFacts, SameStore, FinishStep, GotoStep
<1>3. CASE AddGetProof(c) \/ AddListPending(c)
  <2>1. /\ UNCHANGED store /\ requests' \in Nat
        /\ settling' \in BOOLEAN /\ chain' \in Seq(Roots)
        /\ call[c].pc \in {"proof", "list"}
    BY <1>3 DEF AddGetProof, AddListPending, IInv, TypeInv, TypeOK
  <2>2. \/ AddReturns(c, "already") \/ AddReturns(c, "waiting")
        \/ Goto(c, "list") /\ chainQ' = chainQ
        \/ Goto(c, "push") /\ chainQ' = chainQ
    BY <1>3 DEF AddGetProof, AddListPending
  <2>3. QED
    BY <2>1, <2>2, CallFacts, SameStore, AddReturnsStep, GotoStep
<1>4. CASE AddPush(c)
  <2> DEFINE e == [at |-> pushes + 1, id |-> call[c].id, hash |-> call[c].hash]
  <2>1. AddReturns(c, "queued") /\ call[c].pc = "push"
    BY <1>4 DEF AddPush
  <2>2. e \in Entry /\ pushes + 1 \in Nat
    BY <2>1, CallFacts DEF Entry, CallState, IInv, TypeInv, TypeOK
  <2>3. /\ pending' = pending \cup {e} /\ pushes' = pushes + 1
        /\ UNCHANGED <<built, saved, index, settling, chain, requests>>
    BY <1>4 DEF AddPush, Push
  <2>4. IsFiniteSet(pending')
    BY <2>3, FS_AddElement DEF IInv, TypeInv
  <2>5. StoreOK'
    BY <2>2, <2>3, <2>4 DEF StoreOK, IInv, TypeInv, TypeOK
  <2>6. DOMAIN built \subseteq (DOMAIN built)' /\ SignedBatches' \subseteq SignedBatches
    BY <2>3 DEF SignedBatches
  <2>7. QED
    BY <2>1, <2>5, <2>6, AddReturnsStep
<1>5. CASE AnchorFinal(c)
  <2>1. /\ UNCHANGED store /\ chainQ' = chainQ /\ requests' \in Nat
        /\ settling' \in BOOLEAN /\ chain' \in Seq(Roots)
        /\ call[c].pc = "final"
    BY <1>5 DEF AnchorFinal, IInv, TypeInv, TypeOK
  <2>2. Finish(c, "fresh") \/ Finish(c, "error")
    BY <1>5 DEF AnchorFinal
  <2>3. QED
    BY <2>1, <2>2, CallFacts, SameStore, FinishStep
<1>6. QED
  BY <1>1, <1>2, <1>3, <1>4, <1>5 DEF AddStep

-----------------------------------------------------------------------------
(* settle and _settle.                                                     *)

\* Saving an object that exists keeps the types of the store.
LEMMA SaveType ==
    ASSUME IInv, NEW batches \in Seq(Batch), NEW o \in DOMAIN batches,
           DOMAIN built \subseteq DOMAIN batches, SaveBatch(o, batches)
    PROVE  saved' \in SUBSET DOMAIN batches /\ index' \in [Hashes -> Roots]
<1>1. batches[o] \in Batch
  OBVIOUS
<1>2. batches[o].root \in Roots
  BY <1>1 DEF Batch
<1>3. QED
  BY <1>2 DEF SaveBatch, IInv, TypeInv, TypeOK

\* The settlement that saves is the only one past its start, so the batch it
\* signs is the only signed one.
LEMMA SaveKeeps ==
    ASSUME IInv, NEW c \in Calls, SettleSave(c)
    PROVE  IInv'
<1> DEFINE b == [root |-> Root(call[c].hand), spends |-> call[c].spend,
                 status |-> "signed", queue |-> call[c].hand]
           made == Append(built, b)
           n == Len(made)
           r == [call[c] EXCEPT !.pc = "clear", !.cur = n, !.own = TRUE]
<1>1. /\ call[c].pc = "save" /\ built' = made /\ SaveBatch(n, made)
      /\ call' = [call EXCEPT ![c] = r]
      /\ UNCHANGED <<pending, pushes, chainQ, settling, chain, requests>>
  BY DEF SettleSave
<1>2. /\ call[c] \in CallState /\ IsFiniteSet(call[c].hand)
      /\ call[c].todo \subseteq DOMAIN built
      /\ chainQ # <<>> /\ chainQ[1] = c /\ InChain(c)
  BY <1>1, CallFacts DEF Active, Settling
<1>3. b \in Batch
  BY <1>2, RootType DEF Batch, CallState, Statuses
<1>4. /\ built \in Seq(Batch) /\ made \in Seq(Batch) /\ n \in DOMAIN made
      /\ n = Len(built) + 1 /\ made[n] = b /\ n \in Nat
      /\ DOMAIN built \subseteq DOMAIN made
      /\ \A o \in DOMAIN made : \/ o = n
                                \/ o \in DOMAIN built /\ made[o] = built[o]
  BY <1>3 DEF IInv, TypeInv, TypeOK
<1>5. saved' \in SUBSET DOMAIN made /\ index' \in [Hashes -> Roots]
  BY <1>1, <1>4, SaveType
<1>6. StoreOK'
  <2>1. \A o \in DOMAIN made : IsFiniteSet(made[o].queue)
    BY <1>2, <1>4 DEF IInv, TypeInv
  <2>2. QED
    BY <1>1, <1>4, <1>5, <2>1 DEF StoreOK, IInv, TypeInv, TypeOK
<1>7. /\ r \in CallState /\ r.pc = "clear" /\ r.cur = n /\ r.own = TRUE
      /\ r.hand = call[c].hand /\ r.todo = call[c].todo
  <2>1. n \in Nat
    BY <1>4
  <2>2. "clear" \in Waiting \cup Working
    BY DEF Working
  <2>3. call[c] \in CallState
    BY <1>2
  <2> HIDE DEF n
  <2>4. QED
    BY <2>1, <2>2, <2>3 DEF CallState
<1>8. TypeInv'
  <2>1. /\ IsFiniteSet(r.hand) /\ r.todo \subseteq (DOMAIN built)'
        /\ r.cur \in (DOMAIN built)' /\ DOMAIN built \subseteq (DOMAIN built)'
    BY <1>1, <1>2, <1>4, <1>7
  <2>2. r.pc \notin HasHash
    BY <1>7 DEF HasHash
  <2>3. CallsOK'
    BY <1>1, <1>7, <2>1, <2>2, ReplaceType DEF IInv
  <2>4. QED
    BY <1>1, <1>6, <2>3 DEF IInv, TypeInv, TypeOK, StoreOK, CallsOK
<1>9. ChainInv'
  BY <1>1, <1>2, <1>7, ReplaceStay DEF IInv, OutOfChain
<1>10. SignInv'
  <2>1. SignedBatches = {}
    BY <1>1 DEF IInv, SignInv
  <2>2. SignedBatches' \subseteq {n}
    BY <1>1, <1>4, <2>1 DEF SignedBatches, SaveBatch, IInv, TypeInv, TypeOK
  <2>3. \A d \in Calls : call'[d].pc \notin Unsigned
    <3>1. ASSUME NEW d \in Calls, d # c
          PROVE  call[d].pc \notin Unsigned
      BY <1>2, <3>1, CallFacts DEF Active, Settling, Unsigned
    <3>2. QED
      BY <1>1, <1>7, <3>1 DEF Unsigned, IInv, TypeInv, TypeOK
  <2>4. QED
    BY <2>2, <2>3 DEF SignInv, AtMostOneSigned, Unsigned
<1>11. QED
  BY <1>8, <1>9, <1>10 DEF IInv

LEMMA SettleKeeps ==
    ASSUME IInv, NEW c \in Calls, SettleStep(c)
    PROVE  IInv'
<1> USE DEF OutOfChain, HasBatch, HasHash, Unsigned
<1>a. \A pc \in {"loop", "take", "fund", "save", "send"} :
          pc \in Waiting \cup Working
  BY DEF Waiting, Working
<1>0. /\ settling \in BOOLEAN /\ chain \in Seq(Roots) /\ requests \in Nat
      /\ SignedBatches \subseteq DOMAIN built /\ chainQ \in Seq(Calls)
  BY DEF IInv, TypeInv, TypeOK, SignedBatches
<1>1. CASE StartSettle(c)
  <2> DEFINE r == Started("settle", NoHash, 0, "queued")
  <2>1. /\ r \in CallState /\ r.pc = "queued" /\ r.own = FALSE
        /\ r.hand = {} /\ r.todo = {}
    BY DEF Started, CallState, AllOps, Outcomes, Waiting, Working
  <2>2. /\ call[c].pc = "rest" /\ call' = [call EXCEPT ![c] = r]
        /\ chainQ' = Append(chainQ, c) /\ UNCHANGED store
        /\ settling' = settling /\ chain' = chain /\ requests' = requests
    BY <1>1 DEF StartSettle
  <2>3. ~InChain(c)
    BY <2>2, CallFacts
  <2>4. QED
    BY <1>0, <2>1, <2>2, <2>3, FS_EmptySet, SameStore, JoinStep
<1>2. CASE SettleBegin(c)
  <2> DEFINE r == [call[c] EXCEPT !.pc = "loop", !.todo = SignedBatches]
  <2>0. chainQ # <<>> /\ chainQ[1] = c
    BY <1>0, <1>2 DEF SettleBegin, Turn
  <2>1. /\ call[c].pc = "queued"
        /\ call' = [call EXCEPT ![c] = r] /\ chainQ' = chainQ /\ UNCHANGED store
        /\ settling' = settling /\ chain' = chain /\ requests' = requests
    BY <1>2 DEF SettleBegin
  <2>a. SignedBatches \in SUBSET Nat
    BY DEF SignedBatches, IInv, TypeInv, TypeOK
  <2>2. /\ r \in CallState /\ r.pc = "loop" /\ r.own = call[c].own
        /\ r.hand = call[c].hand /\ r.todo = SignedBatches
    BY <2>a, CallFacts, <1>a DEF CallState
  <2>3. IsFiniteSet(r.hand) /\ r.todo \subseteq (DOMAIN built)'
    BY <1>0, <2>1, <2>2, CallFacts DEF store
  <2>4. QED
    BY <1>0, <2>0, <2>1, <2>2, <2>3, SameStore, StayStep
<1>3. CASE SettleCheck(c)
  <2>1. /\ call[c].pc = "check" /\ UNCHANGED store
        /\ chain' = chain /\ requests' = requests
    BY <1>3 DEF SettleCheck
  <2>2. Active(c) /\ InChain(c)
    BY <2>1, CallFacts DEF Active, Settling
  <2>3. \/ SettleReturns(c, FALSE) /\ settling' \in BOOLEAN
        \/ /\ Goto(c, "take") /\ chainQ' = chainQ /\ settling' = settling
           /\ SignedBatches = {}
    BY <1>3 DEF SettleCheck, PreviousUnsent, SettleReturns
  <2>4. QED
    <3>1. /\ StoreOK' /\ DOMAIN built \subseteq (DOMAIN built)'
          /\ SignedBatches' \subseteq SignedBatches
      BY <1>0, <2>1, <2>3, SameStore
    <3>2. CASE SettleReturns(c, FALSE) /\ settling' \in BOOLEAN
      BY <2>2, <3>1, <3>2, SettleReturnsStep
    <3>3. CASE /\ Goto(c, "take") /\ chainQ' = chainQ /\ settling' = settling
               /\ SignedBatches = {}
      BY <1>0, <1>a, <2>1, <2>2, <3>1, <3>3, GotoStep
    <3>4. QED
      BY <2>3, <3>2, <3>3
<1>4. CASE SettleTake(c)
  <2>1. /\ call[c].pc = "take" /\ UNCHANGED store
        /\ chain' = chain /\ requests' = requests
    BY <1>4 DEF SettleTake
  <2>2. Active(c) /\ chainQ # <<>> /\ chainQ[1] = c
    BY <2>1, CallFacts DEF Active, Settling
  <2>3. CASE pending = {}
    BY <1>0, <1>4, <2>1, <2>2, <2>3, SameStore, SettleReturnsStep
       DEF SettleTake, SettleReturns
  <2>4. CASE pending # {}
    <3> DEFINE r == [call[c] EXCEPT !.pc = "fund", !.hand = pending]
    <3>1. /\ call' = [call EXCEPT ![c] = r] /\ chainQ' = chainQ
          /\ settling' = settling
      BY <1>4, <2>4 DEF SettleTake
    <3>a. pending \in SUBSET Entry
      BY DEF IInv, TypeInv, TypeOK
    <3>2. /\ r \in CallState /\ r.pc = "fund" /\ r.hand = pending
          /\ r.todo = call[c].todo
      BY <3>a, CallFacts, <1>a DEF CallState
    <3>3. IsFiniteSet(r.hand) /\ r.todo \subseteq (DOMAIN built)'
      BY <2>1, <3>2, CallFacts DEF store, IInv, TypeInv
    <3>4. QED
      BY <1>0, <2>1, <2>2, <3>1, <3>2, <3>3, SameStore, StayStep
  <2>5. QED
    BY <2>3, <2>4
<1>5. CASE SettleFund(c)
  <2> DEFINE r == [call[c] EXCEPT !.pc = "save", !.spend = Len(chain)]
  <2>0. /\ UNCHANGED store
        /\ settling' = settling /\ chain' = chain /\ requests' = requests
    BY <1>5 DEF SettleFund
  <2>1. /\ call[c].pc = "fund" /\ UNCHANGED store /\ chainQ' = chainQ
        /\ call' = [call EXCEPT ![c] = r]
    BY <1>5 DEF SettleFund
  <2>2. chainQ # <<>> /\ chainQ[1] = c
    BY <2>1, CallFacts DEF Active, Settling
  <2>3. /\ r \in CallState /\ r.pc = "save" /\ r.hand = call[c].hand
        /\ r.todo = call[c].todo
    <3>1. Len(chain) \in Nat
      BY <1>0
    <3>2. QED
      BY <1>a, <3>1, CallFacts DEF CallState
  <2>4. IsFiniteSet(r.hand) /\ r.todo \subseteq (DOMAIN built)'
    BY <2>1, <2>3, CallFacts DEF store
  <2>5. /\ StoreOK' /\ DOMAIN built \subseteq (DOMAIN built)'
        /\ SignedBatches' \subseteq SignedBatches
    BY <1>0, <2>0, SameStore
  <2>6. QED
    BY <2>1, <2>2, <2>3, <2>4, <2>5, StayStep
<1>6. CASE SettleFundFails(c)
  <2>1. /\ call[c].pc = "fund" /\ UNCHANGED store /\ SettleReturns(c, FALSE)
        /\ settling' \in BOOLEAN /\ chain' = chain /\ requests' = requests
    BY <1>6 DEF SettleFundFails, SettleReturns
  <2>2. Active(c)
    BY <2>1 DEF Active, Settling
  <2>3. QED
    BY <1>0, <2>1, <2>2, SameStore, SettleReturnsStep
<1>7. CASE SettleClear(c)
  <2> DEFINE r == [call[c] EXCEPT !.pc = "send", !.hand = {}]
  <2>1. /\ call[c].pc = "clear" /\ chainQ' = chainQ
        /\ call' = [call EXCEPT ![c] = r]
        /\ UNCHANGED <<built, saved, index, pushes, settling, chain, requests>>
        /\ pending' \subseteq pending
    BY <1>7 DEF SettleClear, ClearPending
  <2>2. chainQ # <<>> /\ chainQ[1] = c
    BY <2>1, CallFacts DEF Active, Settling
  <2>3. /\ r \in CallState /\ r.pc = "send" /\ r.hand = {}
        /\ r.todo = call[c].todo /\ r.cur = call[c].cur
    BY CallFacts, <1>a DEF CallState
  <2>4. IsFiniteSet(pending')
    BY <2>1, FS_Subset DEF IInv, TypeInv
  <2>5. StoreOK' /\ SignedBatches' \subseteq SignedBatches
    BY <2>1, <2>4 DEF StoreOK, SignedBatches, IInv, TypeInv, TypeOK
  <2>6. /\ IsFiniteSet(r.hand) /\ r.todo \subseteq (DOMAIN built)'
        /\ r.cur \in (DOMAIN built)'
    BY <2>1, <2>3, CallFacts, FS_EmptySet
  <2>7. QED
    BY <2>1, <2>2, <2>3, <2>5, <2>6, StayStep
<1>8. QED
  BY <1>1, <1>2, <1>3, <1>4, <1>5, <1>6, <1>7, SaveKeeps DEF SettleStep

-----------------------------------------------------------------------------
(* _resumeSigned and _broadcastBatch.                                      *)

\* Rewriting one object with a status other than "signed" and a part of its
\* queue keeps the types of the store and signs nothing.
LEMMA MarkType ==
    ASSUME IInv, NEW o \in DOMAIN built, NEW status \in Statuses \ {"signed"},
           NEW queue \in SUBSET built[o].queue,
           built' = [built EXCEPT ![o].status = status, ![o].queue = queue],
           SaveBatch(o, built'), pending' = pending, pushes' = pushes,
           settling' \in BOOLEAN, chain' = chain, requests' = requests
    PROVE  /\ StoreOK' /\ DOMAIN built \subseteq (DOMAIN built)'
           /\ SignedBatches' \subseteq SignedBatches
<1>1. built \in Seq(Batch) /\ built[o] \in Batch
  BY DEF IInv, TypeInv, TypeOK
<1> DEFINE b == [built[o] EXCEPT !.status = status, !.queue = queue]
<1>2. b \in Batch /\ b.queue = queue /\ b.status = status
  BY <1>1 DEF Batch
<1>3. built' = [built EXCEPT ![o] = b]
  BY <1>1
<1>4. built' \in Seq(Batch) /\ DOMAIN built' = DOMAIN built
  BY <1>1, <1>2, <1>3
<1>5. \A p \in DOMAIN built : built'[p] = IF p = o THEN b ELSE built[p]
  BY <1>1, <1>3
<1>6. saved' \in SUBSET DOMAIN built' /\ index' \in [Hashes -> Roots]
  BY <1>4, SaveType
<1>7. IsFiniteSet(queue)
  BY FS_Subset DEF IInv, TypeInv
<1>8. \A p \in DOMAIN built' : IsFiniteSet(built'[p].queue)
  BY <1>2, <1>4, <1>5, <1>7 DEF IInv, TypeInv
<1>9. StoreOK'
  BY <1>4, <1>6, <1>8 DEF StoreOK, IInv, TypeInv, TypeOK
<1>10. SignedBatches' \subseteq SignedBatches
  BY <1>2, <1>5 DEF SignedBatches, SaveBatch, IInv, TypeInv, TypeOK
<1>11. QED
  BY <1>4, <1>9, <1>10

LEMMA SendKeeps ==
    ASSUME IInv, NEW c \in Calls, BroadcastSend(c)
    PROVE  IInv'
<1>1. PICK answer \in {"ok", "http", "net"} :
          /\ NodeAnswers(call[c].cur, answer)
          /\ call' = [call EXCEPT ![c].pc = "reply", ![c].reply = answer]
  BY DEF BroadcastSend
<1>2. /\ call[c].pc = "send" /\ UNCHANGED store /\ chainQ' = chainQ
      /\ settling' = settling /\ requests' = requests
  BY DEF BroadcastSend
<1>3. call[c].cur \in DOMAIN built
  BY <1>2, CallFacts DEF HasBatch
<1>4. chain' \in Seq(Roots)
  <2>1. built[call[c].cur] \in Batch /\ chain \in Seq(Roots)
    BY <1>3 DEF IInv, TypeInv, TypeOK
  <2>2. built[call[c].cur].root \in Roots
    BY <2>1 DEF Batch
  <2>3. chain' = chain \/ chain' = Append(chain, built[call[c].cur].root)
    BY <1>1 DEF NodeAnswers
  <2>4. QED
    BY <2>1, <2>2, <2>3
<1>5. /\ StoreOK' /\ DOMAIN built \subseteq (DOMAIN built)'
      /\ SignedBatches' \subseteq SignedBatches
  <2>1. settling' \in BOOLEAN /\ requests' \in Nat
    BY <1>2 DEF IInv, TypeInv, TypeOK
  <2>2. QED
    BY <1>2, <1>4, <2>1, SameStore
<1> DEFINE r == [call[c] EXCEPT !.pc = "reply", !.reply = answer]
<1>6. call' = [call EXCEPT ![c] = r]
  BY <1>1
<1>7. "reply" \in Waiting \cup Working
  BY DEF Waiting
<1>8. /\ r \in CallState /\ r.pc = "reply" /\ r.hand = call[c].hand
      /\ r.todo = call[c].todo /\ r.cur = call[c].cur /\ r.own = call[c].own
  BY <1>7, CallFacts DEF CallState
<1>9. /\ IsFiniteSet(r.hand) /\ r.todo \subseteq (DOMAIN built)'
      /\ r.cur \in (DOMAIN built)'
  BY <1>3, <1>5, <1>8, CallFacts
<1>10. r.own => chainQ # <<>> /\ chainQ[1] = c
  BY <1>2, <1>8, CallFacts DEF Active
<1>11. /\ r.pc \notin OutOfChain /\ r.pc \notin Unsigned /\ r.pc \notin HasHash
       /\ r.pc \notin {"check", "take", "fund", "save", "clear"}
  BY <1>8 DEF OutOfChain, Unsigned, HasHash
<1>12. QED
  BY <1>2, <1>5, <1>6, <1>8, <1>9, <1>10, <1>11, StayStep

\* A step that touches neither the store nor the node.
LEMMA Apart ==
    ASSUME IInv, UNCHANGED <<store, chain, requests>>, settling' \in BOOLEAN
    PROVE  /\ StoreOK'
           /\ DOMAIN built \subseteq (DOMAIN built)'
           /\ SignedBatches' \subseteq SignedBatches
<1>1. UNCHANGED store /\ chain' \in Seq(Roots) /\ requests' \in Nat
  BY DEF IInv, TypeInv, TypeOK
<1>2. QED
  BY <1>1, SameStore

\* The loop over the signed batches.
LEMMA ResumeKeeps ==
    ASSUME IInv, NEW c \in Calls, ResumeNext(c) \/ ResumeEnd(c)
    PROVE  IInv'
<1>1. /\ call[c].pc = "loop" /\ chainQ' = chainQ /\ settling' = settling
      /\ UNCHANGED <<store, chain, requests>> /\ settling \in BOOLEAN
  BY DEF ResumeNext, ResumeEnd, IInv, TypeInv, TypeOK
<1>2. /\ StoreOK' /\ DOMAIN built \subseteq (DOMAIN built)'
      /\ SignedBatches' \subseteq SignedBatches
  BY <1>1, Apart
<1>3. CASE ResumeNext(c)
  <2>1. PICK o \in call[c].todo :
            call' = [call EXCEPT ![c].pc = "send", ![c].cur = o, ![c].todo = @ \ {o}]
    BY <1>3 DEF ResumeNext
  <2> DEFINE r == [call[c] EXCEPT !.pc = "send", !.cur = o, !.todo = @ \ {o}]
  <2>2. call' = [call EXCEPT ![c] = r]
    BY <2>1
  <2>3. "send" \in Waiting \cup Working
    BY DEF Waiting
  <2>4. o \in Nat /\ o \in (DOMAIN built)' /\ call[c].todo \ {o} \subseteq (DOMAIN built)'
    <3>1. o \in DOMAIN built /\ built \in Seq(Batch)
      BY CallFacts DEF IInv, TypeInv, TypeOK
    <3>2. QED
      BY <1>2, <3>1, CallFacts
  <2>5. /\ r \in CallState /\ r.pc = "send" /\ r.hand = call[c].hand
        /\ r.todo = call[c].todo \ {o} /\ r.cur = o /\ r.own = call[c].own
    BY <2>3, <2>4, CallFacts DEF CallState
  <2>6. /\ IsFiniteSet(r.hand) /\ r.todo \subseteq (DOMAIN built)'
        /\ r.cur \in (DOMAIN built)'
    BY <2>4, <2>5, CallFacts
  <2>7. r.own => chainQ # <<>> /\ chainQ[1] = c
    BY <1>1, <2>5, CallFacts DEF Active
  <2>8. /\ r.pc \notin OutOfChain /\ r.pc \notin Unsigned /\ r.pc \notin HasHash
        /\ r.pc \notin {"check", "take", "fund", "save", "clear"}
    BY <2>5 DEF OutOfChain, Unsigned, HasHash
  <2>9. QED
    BY <1>1, <1>2, <2>2, <2>5, <2>6, <2>7, <2>8, StayStep
<1>4. CASE ResumeEnd(c)
  <2>1. CASE InChain(c)
    BY <1>1, <1>2, <1>4, <2>1, GotoStep
       DEF ResumeEnd, HasBatch, HasHash, OutOfChain, Unsigned, Working
  <2>2. CASE ~InChain(c)
    BY <1>1, <1>2, <1>4, <2>2, GotoStep
       DEF ResumeEnd, HasBatch, HasHash, OutOfChain, Unsigned, Working
  <2>3. QED
    BY <2>1, <2>2
<1>5. QED
  BY <1>3, <1>4

\* The answer of the node, and the look at the chain that follows an error.
LEMMA AnswerKeeps ==
    ASSUME IInv, NEW c \in Calls,
           BroadcastReply(c) \/ LookupFinds(c) \/ LookupMisses(c)
    PROVE  IInv'
<1>1. /\ call[c].pc \in {"reply", "lookup"} /\ settling \in BOOLEAN
      /\ UNCHANGED <<store, chain, requests>>
  BY DEF BroadcastReply, LookupFinds, LookupMisses, IInv, TypeInv, TypeOK
<1>2. \/ BroadcastReturns(c, FALSE) /\ call[c].pc = "lookup"
      \/ \E pc \in {"mark", "lookup", "delete"} :
             Goto(c, pc) /\ chainQ' = chainQ /\ settling' = settling
  BY DEF BroadcastReply, LookupFinds, LookupMisses
<1>3. CASE BroadcastReturns(c, FALSE) /\ call[c].pc = "lookup"
  <2>1. settling' \in BOOLEAN
    BY <1>1, <1>3 DEF BroadcastReturns, SettleReturns
  <2>2. QED
    BY <1>1, <1>3, <2>1, Apart, BroadcastReturnsStep
<1>4. ASSUME NEW pc \in {"mark", "lookup", "delete"},
             Goto(c, pc), chainQ' = chainQ, settling' = settling
      PROVE  IInv'
  <2>1. /\ StoreOK' /\ DOMAIN built \subseteq (DOMAIN built)'
        /\ SignedBatches' \subseteq SignedBatches
    BY <1>1, <1>4, Apart
  <2>2. /\ pc \in Waiting \cup Working /\ call[c].pc \in HasBatch
        /\ pc \notin HasHash /\ pc \notin OutOfChain /\ pc \notin Unsigned
    BY <1>1 DEF Waiting, Working, HasBatch, HasHash, OutOfChain, Unsigned
  <2>3. QED
    BY <1>1, <1>4, <2>1, <2>2, GotoStep
<1>5. QED
  BY <1>2, <1>3, <1>4

\* The rejected batch is removed, and its entries go back to the queue.
LEMMA RejectKeeps ==
    ASSUME IInv, NEW c \in Calls,
           \/ BroadcastDelete(c) \/ BroadcastPutBack(c)
           \/ BroadcastRequeue(c) \/ BroadcastRejected(c)
    PROVE  IInv'
<1>1. /\ built \in Seq(Batch) /\ saved \subseteq DOMAIN built
      /\ pending \in SUBSET Entry /\ IsFiniteSet(pending)
      /\ index \in [Hashes -> Roots] /\ settling \in BOOLEAN
      /\ chain \in Seq(Roots) /\ requests \in Nat /\ pushes \in Nat
  BY DEF IInv, TypeInv, TypeOK
<1>2. CASE BroadcastDelete(c)
  <2>1. /\ call[c].pc = "delete" /\ Goto(c, "putBack")
        /\ DeleteBatch(built[call[c].cur].root)
        /\ UNCHANGED <<pending, built, pushes, chainQ, settling, chain, requests>>
    BY <1>2 DEF BroadcastDelete
  <2>2. saved' \subseteq saved
    BY <2>1 DEF DeleteBatch
  <2>3. index' \in [Hashes -> Roots]
    <3>1. {} \in Roots
      BY DEF Roots
    <3>2. QED
      BY <1>1, <2>1, <3>1 DEF DeleteBatch
  <2>4. StoreOK' /\ SignedBatches' \subseteq SignedBatches
    BY <1>1, <2>1, <2>2, <2>3 DEF StoreOK, SignedBatches, IInv, TypeInv
  <2>5. QED
    BY <2>1, <2>4, GotoStep
       DEF Working, HasBatch, HasHash, OutOfChain, Unsigned
<1>3. CASE BroadcastPutBack(c)
  <2>1. /\ call[c].pc = "putBack" /\ chainQ' = chainQ /\ settling' = settling
        /\ UNCHANGED <<store, chain, requests>>
    BY <1>3 DEF BroadcastPutBack
  <2> DEFINE H == built[call[c].cur].queue
             r == [call[c] EXCEPT !.pc = "requeue", !.hand = H]
  <2>2. call' = [call EXCEPT ![c] = r]
    BY <1>3 DEF BroadcastPutBack, ToPutBack
  <2>3. H \in SUBSET Entry /\ IsFiniteSet(H) /\ call[c].cur \in DOMAIN built
    <3>1. call[c].cur \in DOMAIN built
      BY <2>1, CallFacts DEF HasBatch
    <3>2. built[call[c].cur] \in Batch
      BY <1>1, <3>1
    <3>3. QED
      BY <3>1, <3>2 DEF Batch, IInv, TypeInv
  <2>4. "requeue" \in Waiting \cup Working
    BY DEF Working
  <2>5. /\ r \in CallState /\ r.pc = "requeue" /\ r.hand = H
        /\ r.todo = call[c].todo /\ r.cur = call[c].cur /\ r.own = call[c].own
    <3> HIDE DEF H
    <3>1. QED
      BY <2>3, <2>4, CallFacts DEF CallState
  <2>6. /\ StoreOK' /\ DOMAIN built \subseteq (DOMAIN built)'
        /\ SignedBatches' \subseteq SignedBatches
    BY <1>1, <2>1, Apart
  <2>7. /\ IsFiniteSet(r.hand) /\ r.todo \subseteq (DOMAIN built)'
        /\ r.cur \in (DOMAIN built)'
    BY <2>3, <2>5, <2>6, CallFacts
  <2>8. r.own => chainQ # <<>> /\ chainQ[1] = c
    BY <2>1, <2>5, CallFacts DEF Active
  <2>9. /\ r.pc \notin OutOfChain /\ r.pc \notin Unsigned /\ r.pc \notin HasHash
        /\ r.pc \notin {"check", "take", "fund", "save", "clear"}
    BY <2>5 DEF OutOfChain, Unsigned, HasHash
  <2>10. QED
    BY <2>1, <2>2, <2>5, <2>6, <2>7, <2>8, <2>9, StayStep
<1>4. CASE BroadcastRequeue(c)
  <2>1. PICK e \in call[c].hand :
            /\ Push(e)
            /\ call' = [call EXCEPT ![c].hand = @ \ {e}]
    BY <1>4 DEF BroadcastRequeue
  <2>2. /\ call[c].pc = "requeue"
        /\ UNCHANGED <<built, saved, index, chainQ, settling, chain, requests>>
    BY <1>4 DEF BroadcastRequeue
  <2> DEFINE r == [call[c] EXCEPT !.hand = @ \ {e}]
             pushed == [e EXCEPT !.at = pushes + 1]
  <2>3. /\ call' = [call EXCEPT ![c] = r]
        /\ pending' = pending \cup {pushed} /\ pushes' = pushes + 1
    BY <2>1 DEF Push
  <2>4. call[c].hand \in SUBSET Entry /\ e \in Entry
    BY CallFacts DEF CallState
  <2>5. pushed \in Entry /\ IsFiniteSet(call[c].hand \ {e})
    <3>1. pushes + 1 \in Nat
      BY <1>1
    <3>2. pushed \in Entry
      BY <2>4, <3>1 DEF Entry
    <3>3. IsFiniteSet(call[c].hand)
      BY CallFacts
    <3>4. IsFiniteSet(call[c].hand \ {e})
      BY <3>3, FS_Subset
    <3>5. QED
      BY <3>2, <3>4
  <2>6. /\ r \in CallState /\ r.pc = call[c].pc /\ r.hand = call[c].hand \ {e}
        /\ r.todo = call[c].todo /\ r.cur = call[c].cur /\ r.own = call[c].own
    BY <2>4, CallFacts DEF CallState
  <2>7. IsFiniteSet(pending')
    BY <1>1, <2>3, FS_AddElement
  <2>8. /\ StoreOK' /\ DOMAIN built \subseteq (DOMAIN built)'
        /\ SignedBatches' \subseteq SignedBatches
    <3>1. UNCHANGED <<built, saved, index, settling, chain, requests>>
      BY <2>2
    <3>2. pending' \in SUBSET Entry /\ pushes' \in Nat
      <4> HIDE DEF pushed
      <4>1. QED
        BY <1>1, <2>3, <2>5
    <3>3. StoreOK'
      BY <1>1, <2>7, <3>1, <3>2 DEF StoreOK, IInv, TypeInv
    <3>4. SignedBatches' = SignedBatches
      BY <3>1 DEF SignedBatches
    <3>5. QED
      BY <3>1, <3>3, <3>4
  <2>9. /\ IsFiniteSet(r.hand) /\ r.todo \subseteq (DOMAIN built)'
        /\ r.cur \in (DOMAIN built)'
    BY <2>2, <2>5, <2>6, <2>8, CallFacts DEF HasBatch
  <2>10. r.own => chainQ # <<>> /\ chainQ[1] = c
    BY <2>2, <2>6, CallFacts DEF Active
  <2>11. /\ r.pc \notin OutOfChain /\ r.pc \notin Unsigned /\ r.pc \notin HasHash
         /\ r.pc \notin {"check", "take", "fund", "save", "clear"}
    BY <2>2, <2>6 DEF OutOfChain, Unsigned, HasHash
  <2>12. QED
    BY <2>2, <2>3, <2>6, <2>8, <2>9, <2>10, <2>11, StayStep
<1>5. CASE BroadcastRejected(c)
  <2>1. /\ call[c].pc = "requeue" /\ BroadcastReturns(c, FALSE)
        /\ UNCHANGED <<store, chain, requests>>
    BY <1>5 DEF BroadcastRejected
  <2>2. settling' \in BOOLEAN
    BY <1>1, <2>1 DEF BroadcastReturns, SettleReturns
  <2>3. QED
    BY <2>1, <2>2, Apart, BroadcastReturnsStep
<1>6. QED
  BY <1>2, <1>3, <1>4, <1>5

\* The batch is saved as sent.
LEMMA MarkKeeps ==
    ASSUME IInv, NEW c \in Calls, BroadcastMark(c)
    PROVE  IInv'
<1> DEFINE o == call[c].cur
           marked == [built EXCEPT ![o].status = "broadcast", ![o].queue = {}]
<1>1. /\ call[c].pc = "mark" /\ built' = marked /\ SaveBatch(o, marked)
      /\ BroadcastReturns(c, TRUE) /\ UNCHANGED <<pending, pushes, chain, requests>>
  BY DEF BroadcastMark
<1>2. o \in DOMAIN built
  BY <1>1, CallFacts DEF HasBatch
<1>3. settling' \in BOOLEAN
  BY <1>1 DEF BroadcastReturns, SettleReturns, IInv, TypeInv, TypeOK
<1>4. "broadcast" \in Statuses \ {"signed"} /\ {} \in SUBSET built[o].queue
  BY DEF Statuses
<1>5. SaveBatch(o, built') /\ built' = [built EXCEPT ![o].status = "broadcast", ![o].queue = {}]
  BY <1>1
<1>6. /\ StoreOK' /\ DOMAIN built \subseteq (DOMAIN built)'
      /\ SignedBatches' \subseteq SignedBatches
  <2> HIDE DEF o, marked
  <2>1. QED
    BY <1>1, <1>2, <1>3, <1>4, <1>5, MarkType
<1>7. QED
  BY <1>1, <1>6, BroadcastReturnsStep

LEMMA BroadcastKeeps ==
    ASSUME IInv, NEW c \in Calls, BroadcastStep(c)
    PROVE  IInv'
BY ResumeKeeps, SendKeeps, AnswerKeeps, RejectKeeps, MarkKeeps DEF BroadcastStep

-----------------------------------------------------------------------------
(* settleIfDue and refreshStatus.                                          *)

LEMMA DueKeeps ==
    ASSUME IInv, NEW c \in Calls, DueStep(c)
    PROVE  IInv'
<1>1. settling \in BOOLEAN
  BY DEF IInv, TypeInv, TypeOK
<1>2. CASE StartDue(c)
  <2>1. /\ call[c].pc = "rest" /\ chainQ' = chainQ /\ settling' \in BOOLEAN
        /\ UNCHANGED <<store, chain, requests>>
        /\ call' = [call EXCEPT ![c] = Started("due", NoHash, 0, "dueSigned")]
    BY <1>2 DEF StartDue
  <2>2. /\ StoreOK' /\ DOMAIN built \subseteq (DOMAIN built)'
        /\ SignedBatches' \subseteq SignedBatches
    BY <2>1, Apart
  <2>3. "due" \in AllOps /\ "dueSigned" \notin HasHash
    BY DEF AllOps, HasHash
  <2>4. QED
    BY <2>1, <2>2, <2>3, StartStep
<1>3. CASE DueSigned(c)
  <2>1. PICK pc \in {"dueList", "loop"} :
            call' = [call EXCEPT ![c].pc = pc, ![c].todo = SignedBatches]
    BY <1>3 DEF DueSigned
  <2>2. /\ call[c].pc = "dueSigned" /\ chainQ' = chainQ /\ settling' = settling
        /\ UNCHANGED <<store, chain, requests>>
    BY <1>3 DEF DueSigned
  <2> DEFINE r == [call[c] EXCEPT !.pc = pc, !.todo = SignedBatches]
  <2>3. call' = [call EXCEPT ![c] = r]
    BY <2>1
  <2>4. SignedBatches \in SUBSET Nat /\ SignedBatches \subseteq DOMAIN built
    BY DEF SignedBatches, IInv, TypeInv, TypeOK
  <2>5. pc \in Waiting \cup Working
    BY DEF Working
  <2>6. /\ r \in CallState /\ r.pc = pc /\ r.hand = call[c].hand
        /\ r.todo = SignedBatches /\ r.own = call[c].own
    BY <2>4, <2>5, CallFacts DEF CallState
  <2>7. /\ StoreOK' /\ DOMAIN built \subseteq (DOMAIN built)'
        /\ SignedBatches' \subseteq SignedBatches
    BY <1>1, <2>2, Apart
  <2>8. IsFiniteSet(r.hand) /\ r.todo \subseteq (DOMAIN built)'
    BY <2>4, <2>6, <2>7, CallFacts
  <2>9. ~InChain(c) /\ r.own = FALSE
    <3>1. ~InChain(c)
      BY <2>2, CallFacts DEF OutOfChain
    <3>2. QED
      BY <2>2, <2>6, <3>1, CallFacts DEF Active, CallState
  <2>10. /\ r.pc \notin HasBatch /\ r.pc \notin Unsigned /\ r.pc \notin HasHash
         /\ r.pc \notin {"check", "take", "fund", "save", "clear"}
    BY <2>6 DEF HasBatch, Unsigned, HasHash
  <2>11. QED
    BY <2>2, <2>3, <2>6, <2>7, <2>8, <2>9, <2>10, StayStep
<1>4. CASE DueSettles(c)
  <2>1. /\ call[c].pc = "dueList" /\ settling' = settling
        /\ UNCHANGED <<store, chain, requests>>
        /\ Goto(c, "queued") /\ chainQ' = Append(chainQ, c)
    BY <1>4 DEF DueSettles, JoinChain
  <2> DEFINE r == [call[c] EXCEPT !.pc = "queued"]
  <2>2. call' = [call EXCEPT ![c] = r]
    BY <2>1 DEF Goto
  <2>3. "queued" \in Waiting \cup Working
    BY DEF Working
  <2>4. /\ r \in CallState /\ r.pc = "queued" /\ r.own = call[c].own
        /\ r.hand = call[c].hand /\ r.todo = call[c].todo
    BY <2>3, CallFacts DEF CallState
  <2>5. ~InChain(c) /\ r.own = FALSE
    <3>1. ~InChain(c)
      BY <2>1, CallFacts DEF OutOfChain
    <3>2. QED
      BY <2>1, <2>4, <3>1, CallFacts DEF Active, CallState
  <2>6. /\ StoreOK' /\ DOMAIN built \subseteq (DOMAIN built)'
        /\ SignedBatches' \subseteq SignedBatches
    BY <1>1, <2>1, Apart
  <2>7. QED
    BY <2>1, <2>2, <2>4, <2>5, <2>6, CallFacts, JoinStep
<1>5. CASE DueReturns(c)
  <2>1. /\ call[c].pc = "dueList" /\ settling' \in BOOLEAN /\ chainQ' = chainQ
        /\ UNCHANGED <<store, chain, requests>> /\ Finish(c, "ok")
    BY <1>5 DEF DueReturns
  <2>2. ~InChain(c) /\ "ok" \in Outcomes
    BY <2>1, CallFacts DEF OutOfChain, Outcomes
  <2>3. QED
    BY <2>1, <2>2, Apart, FinishStep
<1>6. QED
  BY <1>2, <1>3, <1>4, <1>5 DEF DueStep

LEMMA RefreshKeeps ==
    ASSUME IInv, NEW c \in Calls, RefreshStep(c)
    PROVE  IInv'
<1>1. settling \in BOOLEAN
  BY DEF IInv, TypeInv, TypeOK
<1>2. CASE StartRefresh(c)
  <2>1. /\ call[c].pc = "rest" /\ chainQ' = chainQ /\ settling' = settling
        /\ UNCHANGED <<store, chain, requests>>
    BY <1>2 DEF StartRefresh
  <2>2. PICK o \in saved :
            call' = [call EXCEPT ![c] =
                       [Started("refresh", NoHash, 0, "refetch") EXCEPT !.cur = o]]
    BY <1>2 DEF StartRefresh
  <2> DEFINE r == [Started("refresh", NoHash, 0, "refetch") EXCEPT !.cur = o]
  <2>3. o \in Nat /\ o \in DOMAIN built
    BY DEF IInv, TypeInv, TypeOK
  <2>4. /\ Started("refresh", NoHash, 0, "refetch") \in CallState
        /\ Started("refresh", NoHash, 0, "refetch").pc = "refetch"
        /\ Started("refresh", NoHash, 0, "refetch").hand = {}
        /\ Started("refresh", NoHash, 0, "refetch").todo = {}
        /\ Started("refresh", NoHash, 0, "refetch").own = FALSE
    BY DEF Started, CallState, AllOps, Waiting, Outcomes
  <2>5. /\ r \in CallState /\ r.pc = "refetch" /\ r.hand = {} /\ r.todo = {}
        /\ r.own = FALSE /\ r.cur = o
    BY <2>3, <2>4 DEF CallState
  <2>6. /\ StoreOK' /\ DOMAIN built \subseteq (DOMAIN built)'
        /\ SignedBatches' \subseteq SignedBatches
    BY <1>1, <2>1, Apart
  <2>7. /\ IsFiniteSet(r.hand) /\ r.todo \subseteq (DOMAIN built)'
        /\ r.cur \in (DOMAIN built)' /\ ~InChain(c)
    BY <2>1, <2>3, <2>5, <2>6, FS_EmptySet, CallFacts DEF OutOfChain
  <2>8. /\ r.pc \notin Unsigned /\ r.pc \notin HasHash
        /\ r.pc \notin {"check", "take", "fund", "save", "clear"}
    BY <2>5 DEF Unsigned, HasHash
  <2>9. QED
    BY <2>1, <2>2, <2>5, <2>6, <2>7, <2>8, StayStep
<1>3. CASE RefreshFound(c)
  <2> DEFINE o == call[c].cur
  <2>1. /\ call[c].pc = "refetch" /\ Finish(c, "ok")
        /\ UNCHANGED <<pending, pushes, chainQ, settling, chain, requests>>
    BY <1>3 DEF RefreshFound
  <2>2. PICK status \in {"pending", "confirmed"} :
            /\ built' = [built EXCEPT ![o].status = status]
            /\ SaveBatch(o, [built EXCEPT ![o].status = status])
    BY <1>3 DEF RefreshFound
  <2>3. o \in DOMAIN built
    BY <2>1, CallFacts DEF HasBatch
  <2>4. built' = [built EXCEPT ![o].status = status, ![o].queue = built[o].queue]
    <3>1. built \in Seq(Batch) /\ built[o] \in Batch
      BY <2>3 DEF IInv, TypeInv, TypeOK
    <3>2. [built[o] EXCEPT !.status = status]
            = [built[o] EXCEPT !.status = status, !.queue = built[o].queue]
      BY <3>1 DEF Batch
    <3>3. QED
      BY <2>2, <3>1, <3>2
  <2>5. /\ status \in Statuses \ {"signed"} /\ SaveBatch(o, built')
        /\ built[o].queue \in SUBSET built[o].queue
    BY <2>2 DEF Statuses
  <2>6. /\ StoreOK' /\ DOMAIN built \subseteq (DOMAIN built)'
        /\ SignedBatches' \subseteq SignedBatches
    <3> HIDE DEF o
    <3>1. QED
      BY <1>1, <2>1, <2>3, <2>4, <2>5, MarkType
  <2>7. ~InChain(c) /\ "ok" \in Outcomes
    BY <2>1, CallFacts DEF OutOfChain, Outcomes
  <2>8. QED
    BY <2>1, <2>6, <2>7, FinishStep
<1>4. CASE RefreshNothing(c)
  <2>1. /\ call[c].pc = "refetch" /\ settling' = settling /\ chainQ' = chainQ
        /\ UNCHANGED <<store, chain, requests>> /\ Finish(c, "ok")
    BY <1>4 DEF RefreshNothing
  <2>2. ~InChain(c) /\ "ok" \in Outcomes
    BY <2>1, CallFacts DEF OutOfChain, Outcomes
  <2>3. QED
    BY <1>1, <2>1, <2>2, Apart, FinishStep
<1>5. QED
  BY <1>2, <1>3, <1>4 DEF RefreshStep

-----------------------------------------------------------------------------
(* The process stops and starts again.                                     *)

\* A process without calls satisfies what the invariant says of the calls.
LEMMA NoCalls ==
    ASSUME StoreOK', call' = [c \in Calls |-> Rest("none")], chainQ' = <<>>,
           AtMostOneSigned'
    PROVE  IInv'
<1>1. "none" \in Outcomes
  BY DEF Outcomes
<1>2. /\ Rest("none") \in CallState /\ Rest("none").hand = {}
      /\ Rest("none").todo = {} /\ Rest("none").pc = "rest"
      /\ Rest("none").own = FALSE
  BY <1>1, RestType
<1>3. \A c \in Calls : call'[c] = Rest("none")
  OBVIOUS
<1>4. \A c \in Calls : IsFiniteSet(call'[c].hand)
  BY <1>2, <1>3, FS_EmptySet
<1>5. \A c \in Calls : CallOK(c)'
  BY <1>2, <1>3, <1>4 DEF CallOK, HasBatch, HasHash
<1>6. call' \in [Calls -> CallState] /\ chainQ' \in Seq(Calls)
  BY <1>2
<1>7. TypeInv'
  BY <1>5, <1>6 DEF TypeInv, TypeOK, StoreOK
<1>8. ChainInv'
  BY <1>2, <1>3 DEF ChainInv, Active, Settling
<1>9. SignInv'
  BY <1>2, <1>3 DEF SignInv
<1>10. QED
  BY <1>7, <1>8, <1>9 DEF IInv

LEMMA CrashKeeps ==
    ASSUME IInv, Crash
    PROVE  IInv'
<1>1. /\ call' = [c \in Calls |-> Rest("none")] /\ chainQ' = <<>>
      /\ UNCHANGED <<pending, built, saved, pushes, chain, requests>>
      /\ settling' \in BOOLEAN
      /\ index' \in [Hashes -> {{}} \cup {built[o].root : o \in saved}]
  BY DEF Crash
<1>2. {{}} \cup {built[o].root : o \in saved} \subseteq Roots
  <2>1. ASSUME NEW o \in saved
        PROVE  built[o].root \in Roots
    <3>1. built[o] \in Batch
      BY DEF IInv, TypeInv, TypeOK
    <3>2. QED
      BY <3>1 DEF Batch
  <2>2. {} \in Roots
    BY DEF Roots
  <2>3. QED
    BY <2>1, <2>2
<1>3. index' \in [Hashes -> Roots]
  BY <1>1, <1>2
<1>4. StoreOK'
  BY <1>1, <1>3 DEF StoreOK, IInv, TypeInv, TypeOK
<1>5. AtMostOneSigned'
  BY <1>1 DEF AtMostOneSigned, SignedBatches, IInv, SignInv
<1>6. QED
  BY <1>1, <1>4, <1>5, NoCalls

-----------------------------------------------------------------------------
(* The theorems.                                                           *)

LEMMA InitInv == Init => IInv
<1> SUFFICES ASSUME Init PROVE IInv
  OBVIOUS
<1>1. "none" \in Outcomes
  BY DEF Outcomes
<1>2. /\ Rest("none") \in CallState /\ Rest("none").hand = {}
      /\ Rest("none").todo = {} /\ Rest("none").pc = "rest"
      /\ Rest("none").own = FALSE
  BY <1>1, RestType
<1>3. \A c \in Calls : call[c] = Rest("none")
  BY DEF Init
<1>4. \A c \in Calls : IsFiniteSet(call[c].hand)
  BY <1>2, <1>3, FS_EmptySet
<1>5. \A c \in Calls : CallOK(c)
  BY <1>2, <1>3, <1>4 DEF CallOK, HasBatch, HasHash
<1>6. TypeOK
  <2>1. index \in [Hashes -> Roots]
    BY DEF Init, Roots
  <2>2. call \in [Calls -> CallState]
    BY <1>2 DEF Init
  <2>3. /\ pending \in SUBSET Entry /\ saved \in SUBSET DOMAIN built
        /\ built = <<>> /\ chainQ = <<>> /\ chain = <<>>
        /\ requests \in Nat /\ pushes \in Nat
    BY DEF Init
  <2>4. settling \in BOOLEAN
    BY DEF Init
  <2>5. QED
    BY <2>1, <2>2, <2>3, <2>4 DEF TypeOK
<1>7. TypeInv
  BY <1>5, <1>6, FS_EmptySet DEF TypeInv, Init
<1>8. ChainInv
  BY <1>2, <1>3 DEF ChainInv, Active, Settling, Init
<1>9. SignInv
  BY DEF SignInv, AtMostOneSigned, SignedBatches, Init
<1>10. QED
  BY <1>7, <1>8, <1>9 DEF IInv

LEMMA NextInv == IInv /\ [Next]_vars => IInv'
<1> SUFFICES ASSUME IInv, [Next]_vars PROVE IInv'
  OBVIOUS
<1>1. CASE UNCHANGED vars
  <2>1. TypeInv'
    BY <1>1 DEF vars, IInv, TypeInv, TypeOK, CallOK
  <2>2. ChainInv'
    BY <1>1 DEF vars, IInv, ChainInv, Active, Settling
  <2>3. SignInv'
    BY <1>1 DEF vars, IInv, SignInv, AtMostOneSigned, SignedBatches
  <2>4. QED
    BY <2>1, <2>2, <2>3 DEF IInv
<1>2. ASSUME NEW c \in Calls,
             \/ AddStep(c) \/ SettleStep(c) \/ BroadcastStep(c)
             \/ DueStep(c) \/ RefreshStep(c)
      PROVE  IInv'
  BY <1>2, AddKeeps, SettleKeeps, BroadcastKeeps, DueKeeps, RefreshKeeps
<1>3. CASE Crash
  BY <1>3, CrashKeeps
<1>4. QED
  BY <1>1, <1>2, <1>3 DEF Next

LEMMA Invariance == Spec => []IInv
  BY InitInv, NextInv, PTL DEF Spec

\* Every variable keeps its type, for any number of calls, however requests
\* fail and wherever the process stops: in particular the batch a call works
\* on exists, and an object of the store is always one that was made.
THEOREM TypeCorrect == Spec => []TypeOK
<1>1. IInv => TypeOK
  BY DEF IInv, TypeInv
<1>2. QED
  BY <1>1, Invariance, PTL

\* The resume-then-check at the start of _settle, with the chain of
\* settlements, leaves at most one batch signed and not sent.  It holds with
\* stores that yield, after crashes, and with the timer of start() outside
\* the chain.
THEOREM OneSigned == Spec => []AtMostOneSigned
<1>1. IInv => AtMostOneSigned
  BY DEF IInv, SignInv
<1>2. QED
  BY <1>1, Invariance, PTL

\* _settleChain lets one settlement run at a time, failed ones included.
THEOREM Alone == Spec => []SettlesAlone
<1>1. IInv => SettlesAlone
  BY DEF IInv, ChainInv, Active, SettlesAlone
<1>2. QED
  BY <1>1, Invariance, PTL
=============================================================================
