------------------------------- MODULE Notary -------------------------------
(***************************************************************************)
(* The BTCNotar object of packages/btcnotar/src/notary.js with its store   *)
(* (store.js), the Bitcoin node it talks to, and the calls a host program  *)
(* has running on it.                                                      *)
(*                                                                         *)
(* The code is JavaScript: a call runs alone from one "await" to the next  *)
(* and every other call may run in between.  One action is one such        *)
(* stretch: it performs one operation on the store, or meets the node, and *)
(* all the code up to the next await.                                      *)
(*                                                                         *)
(* A definition no action uses (ClearNothing, SaveNext, PreviousIgnored,   *)
(* AnyTurn, ...) is a plausible mistake in the definition below it: the    *)
(* properties must tell the two apart.                                     *)
(***************************************************************************)
EXTENDS Naturals, Sequences, FiniteSets

CONSTANTS
    Calls,        \* the calls that can be running at the same time
    Hashes,       \* the document hashes callers hand in
    NoHash,       \* the hash argument of a call that has none
    Ops,          \* the methods the host calls: a subset of AllOps
    MaxRequests,  \* bound: addHash and anchorNow calls in a behaviour
    MaxBuilt,     \* bound: transactions signed in a behaviour
    StoreYields,  \* TRUE: any call may run between two store operations, as
                  \* with a database or with calls started in one tick;
                  \* FALSE: the stores of store.js, a call per I/O event
    NetFails,     \* requests to the node may go unanswered
    HttpErrors,   \* the node, or a gateway before it, may answer a valid
                  \* transaction with an error, having taken it or not
    LookupFails,  \* fetchTransaction may fail, or not know what is known
    CanCrash      \* the process may stop at any point and be started again

AllOps == {"add", "anchor", "settle", "due", "refresh"}

ASSUME OpsAssumption == Ops \subseteq AllOps
ASSUME BoundAssumption == MaxRequests \in Nat /\ MaxBuilt \in Nat
ASSUME NoHashAssumption == NoHash \notin Hashes

VARIABLES
    pending,   \* store.pending: the queue, its order given by the field "at"
    built,     \* the batch objects made so far; the number of one names it
    saved,     \* store.batches: the numbers of the batches it holds
    index,     \* store.hashIndex: the batchId of each hash, {} for none
    chainQ,    \* _settleChain: the settlements not finished, in order
    settling,  \* _settling: a settleIfDue is running
    call,      \* the local variables of every running call
    chain,     \* the transactions the node took: chain[k + 1] is the root
               \* carried by the one that spends output k of our address
    requests,  \* calls of addHash and anchorNow so far: names their entries
    pushes     \* pushes on the queue so far: places an entry in the queue

store == <<pending, built, saved, index, pushes>>
vars  == <<pending, built, saved, index, chainQ, settling, call, chain,
           requests, pushes>>

-----------------------------------------------------------------------------
(* The data.                                                               *)

\* An entry of the queue; "at" is its place in the array.
Entry == [at : Nat, id : Nat, hash : Hashes]

\* A Merkle root is taken to be one-to-one, so it is the list of leaves it
\* commits to, written as the set of <<position, hash>>.  It is the batchId.
Roots == SUBSET (Nat \X Hashes)
Root(entries) ==
    {<<Cardinality({f \in entries : f.at <= e.at}), e.hash>> : e \in entries}
Leaves(root) == {leaf[2] : leaf \in root}

\* NoHash also stands for "no transaction" (see TxOf).
ASSUME NoTxAssumption == NoHash \notin [root : Roots, spends : Nat]

Statuses == {"signed", "broadcast", "pending", "confirmed"}

\* A batch object.  Its transaction carries the root and spends one output
\* of our address; signing is deterministic, so the two make the txid.
Batch == [root : Roots, spends : Nat, status : Statuses, queue : SUBSET Entry]

\* Where a call stands: the operation it does next.
Waiting == {"rest", "send", "reply", "lookup", "fund", "refetch"}
Working == {"existing", "proof", "list", "push", "queued", "loop", "delete",
            "putBack", "requeue", "mark", "check", "take", "save", "clear", "final",
            "dueSigned", "dueList"}
Outcomes == {"none", "queued", "waiting", "already", "fresh", "ok", "error"}

CallState == [pc     : Waiting \cup Working,
              op     : AllOps \cup {"none"},
              hash   : Hashes \cup {NoHash},
              id     : Nat,             \* crypto.randomUUID of its entry
              todo   : SUBSET Nat,      \* signed batches still to resend
              cur    : Nat,             \* the batch being broadcast
              own    : BOOLEAN,         \* cur is the batch _settle made
              hand   : SUBSET Entry,    \* entries being settled or put back
              spend  : Nat,             \* the output selectUtxo picked
              reply  : {"none", "ok", "http", "net"},
              out    : Outcomes]        \* how the last call ended

Started(op, h, id, pc) ==
    [pc |-> pc, op |-> op, hash |-> h, id |-> id, todo |-> {}, cur |-> 0,
     own |-> FALSE, hand |-> {}, spend |-> 0, reply |-> "none", out |-> "none"]
Rest(out) == [Started("none", NoHash, 0, "rest") EXCEPT !.out = out]

-----------------------------------------------------------------------------
(* The node.                                                               *)

OnChain(o) == /\ built[o].spends < Len(chain)
              /\ chain[built[o].spends + 1] = built[o].root
Acceptable(o) == built[o].spends = Len(chain)

\* broadcastTx, as the node sees it: it may take the transaction, which
\* extends the chain, and the answer r is what the caller will learn.
NodeAnswers(o, r) ==
    \E taken \in BOOLEAN :
        /\ taken => Acceptable(o)
        /\ chain' = IF taken THEN Append(chain, built[o].root) ELSE chain
        /\ r = "ok"   => taken \/ OnChain(o)
        /\ r = "net"  => NetFails
        /\ r = "http" => HttpErrors \/ ~Acceptable(o)
        /\ r \in {"ok", "http", "net"}

-----------------------------------------------------------------------------
(* The store: MemoryStore, and FileStore, which also writes the file before *)
(* the call goes on.                                                       *)

Push(e) == /\ pending' = pending \cup {[e EXCEPT !.at = pushes + 1]}
           /\ pushes' = pushes + 1

ClearNothing(ids) == pending' = pending
ClearPending(ids) == pending' = {e \in pending : e.id \notin ids}

SaveNext(o, batches) ==
    /\ saved' = {p \in saved : batches[p].root # batches[o].root} \cup {o + 1}
    /\ index' = [h \in Hashes |-> IF h \in Leaves(batches[o].root)
                                  THEN batches[o].root ELSE index[h]]
SaveBatch(o, batches) ==
    /\ saved' = {p \in saved : batches[p].root # batches[o].root} \cup {o}
    /\ index' = [h \in Hashes |-> IF h \in Leaves(batches[o].root)
                                  THEN batches[o].root ELSE index[h]]

\* The batch found under this batchId need not be the object the caller has.
DeleteBatch(root) ==
    /\ saved' = {p \in saved : built[p].root # root}
    /\ index' = IF saved' = saved THEN index
                ELSE [h \in Hashes |-> IF index[h] = root THEN {} ELSE index[h]]

FindBatchByHash(h) == {o \in saved : index[h] # {} /\ built[o].root = index[h]}

NoSignedBatches == {}
SignedBatches == {o \in saved : built[o].status = "signed"}

\* "previous batch is signed but not broadcast yet"
PreviousIgnored == FALSE
PreviousUnsent == SignedBatches # {}

\* The index of a process that starts again.  Which of several batches with
\* the hash wins depends on their order in the file, which is not kept here.
Reindexed(ix) ==
    \A h \in Hashes :
        LET holders == {o \in saved : h \in Leaves(built[o].root)}
        IN  IF holders = {} THEN ix[h] = {}
            ELSE \E o \in holders : ix[h] = built[o].root

-----------------------------------------------------------------------------
(* Helpers of the calls.                                                   *)

Goto(c, pc) == call' = [call EXCEPT ![c].pc = pc]
Finish(c, out) == call' = [call EXCEPT ![c] = Rest(out)]

\* No call has store work to do: all of them wait for the network, for an
\* earlier settlement, or are over.  Node.js turns to I/O only then.
Quiet == \A c \in Calls : \/ call[c].pc \in Waiting
                          \/ call[c].pc = "queued" /\ ~(chainQ # <<>> /\ Head(chainQ) = c)
Free == StoreYields \/ Quiet

\* settle(): the settlement waits for those asked for before it.
AnyTurn(c) == chainQ # <<>>
Turn(c) == chainQ # <<>> /\ Head(chainQ) = c
JoinChain(c) == /\ Goto(c, "queued")
                /\ chainQ' = Append(chainQ, c)

\* addHash is over: anchorNow goes on to settle.
AddReturns(c, out) ==
    IF call[c].op = "anchor"
    THEN JoinChain(c)
    ELSE Finish(c, out) /\ UNCHANGED chainQ

\* _settle is over: the next one may start.  anchorNow looks its hash up; the
\* "finally" of settleIfDue lowers the flag.
SettleJamsChain(c, ok) ==
    /\ chainQ' = IF ok THEN Tail(chainQ) ELSE chainQ
    /\ settling' = (settling /\ call[c].op # "due")
    /\ IF ok /\ call[c].op = "anchor"
       THEN Goto(c, "final")
       ELSE Finish(c, IF ok THEN "ok" ELSE "error")
SettleReturns(c, ok) ==
    /\ chainQ' = Tail(chainQ)
    /\ settling' = (settling /\ call[c].op # "due")
    /\ IF ok /\ call[c].op = "anchor"
       THEN Goto(c, "final")
       ELSE Finish(c, IF ok THEN "ok" ELSE "error")

\* _broadcastBatch is over: _settle ends with it, _resumeSigned goes on.
BroadcastReturns(c, ok) ==
    IF call[c].own
    THEN SettleReturns(c, ok)
    ELSE Goto(c, "loop") /\ UNCHANGED <<chainQ, settling>>

-----------------------------------------------------------------------------
(* addHash and anchorNow.                                                  *)

StartRequest(c, op, h) ==
    /\ op \in Ops /\ call[c].pc = "rest" /\ Free /\ requests < MaxRequests
    /\ requests' = requests + 1
    /\ call' = [call EXCEPT ![c] =
                  Started(op, h, requests + 1,
                         IF op = "anchor" THEN "existing" ELSE "proof")]
    /\ UNCHANGED <<store, chainQ, settling, chain>>

\* anchorNow: a hash that has a batch is not anchored again.
AnchorExisting(c) ==
    /\ call[c].pc = "existing"
    /\ IF FindBatchByHash(call[c].hash) # {}
       THEN Finish(c, "already") ELSE Goto(c, "proof")
    /\ UNCHANGED <<store, chainQ, settling, chain, requests>>

AddGetProof(c) ==
    /\ call[c].pc = "proof"
    /\ IF FindBatchByHash(call[c].hash) # {}
       THEN AddReturns(c, "already")
       ELSE Goto(c, "list") /\ UNCHANGED chainQ
    /\ UNCHANGED <<store, settling, chain, requests>>

AddListPending(c) ==
    /\ call[c].pc = "list"
    /\ IF \E e \in pending : e.hash = call[c].hash
       THEN AddReturns(c, "waiting")
       ELSE Goto(c, "push") /\ UNCHANGED chainQ
    /\ UNCHANGED <<store, settling, chain, requests>>

AddPush(c) ==
    /\ call[c].pc = "push"
    /\ Push([at |-> 0, id |-> call[c].id, hash |-> call[c].hash])
    /\ AddReturns(c, "queued")
    /\ UNCHANGED <<built, saved, index, settling, chain, requests>>

\* anchorNow after its settlement: the proof it returns, or an error.
AnchorFinal(c) ==
    /\ call[c].pc = "final"
    /\ Finish(c, IF FindBatchByHash(call[c].hash) # {} THEN "fresh" ELSE "error")
    /\ UNCHANGED <<store, chainQ, settling, chain, requests>>

-----------------------------------------------------------------------------
(* settle and _settle.                                                     *)

StartSettle(c) ==
    /\ "settle" \in Ops /\ call[c].pc = "rest" /\ Free
    /\ call' = [call EXCEPT ![c] = Started("settle", NoHash, 0, "queued")]
    /\ chainQ' = Append(chainQ, c)
    /\ UNCHANGED <<store, settling, chain, requests>>

\* The first of the chain runs: _resumeSigned lists the signed batches.
SettleBegin(c) ==
    /\ call[c].pc = "queued" /\ Turn(c)
    /\ call' = [call EXCEPT ![c].pc = "loop", ![c].todo = SignedBatches]
    /\ UNCHANGED <<store, chainQ, settling, chain, requests>>

SettleCheck(c) ==
    /\ call[c].pc = "check"
    /\ IF PreviousUnsent
       THEN SettleReturns(c, FALSE)
       ELSE Goto(c, "take") /\ UNCHANGED <<chainQ, settling>>
    /\ UNCHANGED <<store, chain, requests>>

SettleTake(c) ==
    /\ call[c].pc = "take"
    /\ IF pending = {}
       THEN SettleReturns(c, TRUE)
       ELSE /\ call' = [call EXCEPT ![c].pc = "fund", ![c].hand = pending]
            /\ UNCHANGED <<chainQ, settling>>
    /\ UNCHANGED <<store, chain, requests>>

\* Fee rate and UTXOs come from the node; the one output of our address that
\* is not spent pays for the transaction.
SettleFund(c) ==
    /\ call[c].pc = "fund" /\ Free /\ Len(built) < MaxBuilt
    /\ call' = [call EXCEPT ![c].pc = "save", ![c].spend = Len(chain)]
    /\ UNCHANGED <<store, chainQ, settling, chain, requests>>

SettleFundFails(c) ==
    /\ call[c].pc = "fund" /\ Free
    /\ NetFails \/ HttpErrors \/ Len(built) >= MaxBuilt
    /\ SettleReturns(c, FALSE)
    /\ UNCHANGED <<store, chain, requests>>

SettleSave(c) ==
    LET made == Append(built, [root |-> Root(call[c].hand),
                               spends |-> call[c].spend, status |-> "signed",
                               queue |-> call[c].hand])
    IN  /\ call[c].pc = "save"
        /\ built' = made
        /\ SaveBatch(Len(made), made)
        /\ call' = [call EXCEPT ![c].pc = "clear", ![c].cur = Len(made),
                                ![c].own = TRUE]
        /\ UNCHANGED <<pending, pushes, chainQ, settling, chain, requests>>

SettleClear(c) ==
    /\ call[c].pc = "clear"
    /\ ClearPending({e.id : e \in call[c].hand})
    /\ call' = [call EXCEPT ![c].pc = "send", ![c].hand = {}]
    /\ UNCHANGED <<built, saved, index, pushes, chainQ, settling, chain, requests>>

-----------------------------------------------------------------------------
(* _resumeSigned and _broadcastBatch.                                      *)

\* The loop over the signed batches, from _settle or from settleIfDue.
ResumeNext(c) ==
    /\ call[c].pc = "loop"
    /\ \E o \in call[c].todo :
          call' = [call EXCEPT ![c].pc = "send", ![c].cur = o,
                               ![c].todo = @ \ {o}]
    /\ UNCHANGED <<store, chainQ, settling, chain, requests>>

\* Only a settlement is in the chain; settleIfDue resumes outside of it.
InChain(c) == \E i \in DOMAIN chainQ : chainQ[i] = c

ResumeEnd(c) ==
    /\ call[c].pc = "loop" /\ call[c].todo = {}
    /\ Goto(c, IF InChain(c) THEN "check" ELSE "dueList")
    /\ UNCHANGED <<store, chainQ, settling, chain, requests>>

BroadcastSend(c) ==
    /\ call[c].pc = "send" /\ Free
    /\ \E r \in {"ok", "http", "net"} :
          /\ NodeAnswers(call[c].cur, r)
          /\ call' = [call EXCEPT ![c].pc = "reply", ![c].reply = r]
    /\ UNCHANGED <<store, chainQ, settling, requests>>

BroadcastReply(c) ==
    /\ call[c].pc = "reply" /\ Free
    /\ Goto(c, IF call[c].reply = "ok" THEN "mark" ELSE "lookup")
    /\ UNCHANGED <<store, chainQ, settling, chain, requests>>

\* The error path looks the transaction up; a failed lookup counts as unknown.
LookupFinds(c) ==
    /\ call[c].pc = "lookup" /\ Free /\ OnChain(call[c].cur)
    /\ Goto(c, "mark")
    /\ UNCHANGED <<store, chainQ, settling, chain, requests>>

AlwaysUnknown(o) == TRUE
Unknown(o) == LookupFails \/ ~OnChain(o)

LookupMisses(c) ==
    /\ call[c].pc = "lookup" /\ Free /\ Unknown(call[c].cur)
    /\ IF call[c].reply = "http"
       THEN Goto(c, "delete") /\ UNCHANGED <<chainQ, settling>>
       ELSE BroadcastReturns(c, FALSE)
    /\ UNCHANGED <<store, chain, requests>>

BroadcastDelete(c) ==
    /\ call[c].pc = "delete"
    /\ DeleteBatch(built[call[c].cur].root)
    /\ Goto(c, "putBack")
    /\ UNCHANGED <<pending, built, pushes, chainQ, settling, chain, requests>>

\* batch.queue, which is gone when another call has sent the batch meanwhile.
NothingToPutBack(o) == {}
ToPutBack(o) == built[o].queue

BroadcastPutBack(c) ==
    /\ call[c].pc = "putBack"
    /\ call' = [call EXCEPT ![c].pc = "requeue", ![c].hand = ToPutBack(call[c].cur)]
    /\ UNCHANGED <<store, chainQ, settling, chain, requests>>

\* addPending for each entry of batch.queue, in its order.
BroadcastRequeue(c) ==
    /\ call[c].pc = "requeue"
    /\ \E e \in call[c].hand :
          /\ \A f \in call[c].hand : e.at <= f.at
          /\ Push(e)
          /\ call' = [call EXCEPT ![c].hand = @ \ {e}]
    /\ UNCHANGED <<built, saved, index, chainQ, settling, chain, requests>>

\* Every entry is back: the error of the node is thrown to the caller.
BroadcastRejected(c) ==
    /\ call[c].pc = "requeue" /\ call[c].hand = {}
    /\ BroadcastReturns(c, FALSE)
    /\ UNCHANGED <<store, chain, requests>>

BroadcastMark(c) ==
    LET o == call[c].cur
        marked == [built EXCEPT ![o].status = "broadcast", ![o].queue = {}]
    IN  /\ call[c].pc = "mark"
        /\ built' = marked
        /\ SaveBatch(o, marked)
        /\ BroadcastReturns(c, TRUE)
        /\ UNCHANGED <<pending, pushes, chain, requests>>

-----------------------------------------------------------------------------
(* settleIfDue, which the timer of start() calls, and refreshStatus.       *)

StartDue(c) ==
    /\ "due" \in Ops /\ call[c].pc = "rest" /\ Free /\ ~settling
    /\ settling' = TRUE
    /\ call' = [call EXCEPT ![c] = Started("due", NoHash, 0, "dueSigned")]
    /\ UNCHANGED <<store, chainQ, chain, requests>>

DueSigned(c) ==
    /\ call[c].pc = "dueSigned"
    /\ call' = [call EXCEPT ![c].pc = IF SignedBatches = {} THEN "dueList" ELSE "loop",
                            ![c].todo = SignedBatches]
    /\ UNCHANGED <<store, chainQ, settling, chain, requests>>

\* The oldest entry has waited long enough.
DueSettles(c) ==
    /\ call[c].pc = "dueList" /\ pending # {}
    /\ JoinChain(c)
    /\ UNCHANGED <<store, settling, chain, requests>>

\* The queue is empty, or its oldest entry is still young.
DueReturns(c) ==
    /\ call[c].pc = "dueList"
    /\ settling' = FALSE
    /\ Finish(c, "ok")
    /\ UNCHANGED <<store, chainQ, chain, requests>>

StartRefresh(c) ==
    /\ "refresh" \in Ops /\ call[c].pc = "rest" /\ Free
    /\ \E o \in saved :
          call' = [call EXCEPT ![c] =
                     [Started("refresh", NoHash, 0, "refetch") EXCEPT !.cur = o]]
    /\ UNCHANGED <<store, chainQ, settling, chain, requests>>

\* The transaction is found: the status is written to the object read before
\* the request, and that object is saved.
RefreshFound(c) ==
    LET o == call[c].cur
    IN  /\ call[c].pc = "refetch" /\ Free /\ OnChain(o)
        /\ \E status \in {"pending", "confirmed"} :
              LET marked == [built EXCEPT ![o].status = status]
              IN  built' = marked /\ SaveBatch(o, marked)
        /\ Finish(c, "ok")
        /\ UNCHANGED <<pending, pushes, chainQ, settling, chain, requests>>

RefreshNothing(c) ==
    /\ call[c].pc = "refetch" /\ Free /\ (Unknown(call[c].cur) \/ NetFails)
    /\ Finish(c, "ok")
    /\ UNCHANGED <<store, chainQ, settling, chain, requests>>

-----------------------------------------------------------------------------
(* The process stops.  Calls, chain and flag are gone; FileStore reads its  *)
(* file and rebuilds the index.                                            *)

Crash ==
    /\ CanCrash
    /\ call' = [c \in Calls |-> Rest("none")]
    /\ chainQ' = <<>>
    /\ settling' = FALSE
    /\ index' \in [Hashes -> {{}} \cup {built[o].root : o \in saved}]
    /\ Reindexed(index')
    /\ UNCHANGED <<pending, built, saved, pushes, chain, requests>>

-----------------------------------------------------------------------------
Init ==
    /\ pending = {} /\ built = <<>> /\ saved = {} /\ pushes = 0
    /\ index = [h \in Hashes |-> {}]
    /\ chainQ = <<>> /\ settling = FALSE /\ chain = <<>> /\ requests = 0
    /\ call = [c \in Calls |-> Rest("none")]

AddStep(c) == \/ \E op \in {"add", "anchor"}, h \in Hashes : StartRequest(c, op, h)
              \/ AnchorExisting(c) \/ AddGetProof(c) \/ AddListPending(c)
              \/ AddPush(c) \/ AnchorFinal(c)

SettleStep(c) == \/ StartSettle(c) \/ SettleBegin(c) \/ SettleCheck(c)
                 \/ SettleTake(c) \/ SettleFund(c) \/ SettleFundFails(c)
                 \/ SettleSave(c) \/ SettleClear(c)

BroadcastStep(c) == \/ ResumeNext(c) \/ ResumeEnd(c) \/ BroadcastSend(c)
                    \/ BroadcastReply(c) \/ LookupFinds(c) \/ LookupMisses(c)
                    \/ BroadcastDelete(c) \/ BroadcastPutBack(c)
                    \/ BroadcastRequeue(c) \/ BroadcastRejected(c)
                    \/ BroadcastMark(c)

DueStep(c) == StartDue(c) \/ DueSigned(c) \/ DueSettles(c) \/ DueReturns(c)

RefreshStep(c) == StartRefresh(c) \/ RefreshFound(c) \/ RefreshNothing(c)

Next == \/ \E c \in Calls : \/ AddStep(c) \/ SettleStep(c) \/ BroadcastStep(c)
                            \/ DueStep(c) \/ RefreshStep(c)
        \/ Crash

Spec == Init /\ [][Next]_vars

(* Fairness.  Node.js serves every event that is ready, the timer of start() *)
(* fires forever, and an entry gets old: a queue looked at again and again   *)
(* is due in the end.  Of the node it is only asked that a request made      *)
(* again and again is answered some day; it may fail any number of times.    *)
Continue(c) == \/ AnchorExisting(c) \/ AddGetProof(c) \/ AddListPending(c)
               \/ AddPush(c) \/ AnchorFinal(c) \/ SettleBegin(c)
               \/ SettleCheck(c) \/ SettleTake(c) \/ SettleFund(c)
               \/ SettleFundFails(c) \/ SettleSave(c) \/ SettleClear(c)
               \/ BroadcastStep(c) \/ DueSigned(c) \/ DueSettles(c)
               \/ DueReturns(c) \/ RefreshFound(c) \/ RefreshNothing(c)

Answered(c) == BroadcastSend(c) /\ call'[c].reply # "net"

FairSpec == /\ Spec
            /\ SF_vars(\E c \in Calls : StartDue(c))
            /\ SF_vars(\E c \in Calls : DueSettles(c))
            /\ SF_vars(\E c \in Calls : SettleFund(c))
            /\ \A c \in Calls : SF_vars(Continue(c)) /\ SF_vars(Answered(c))
-----------------------------------------------------------------------------
(* What must hold.                                                         *)

TypeOK ==
    /\ pending \in SUBSET Entry
    /\ built \in Seq(Batch)
    /\ saved \in SUBSET DOMAIN built
    /\ index \in [Hashes -> Roots]
    /\ chainQ \in Seq(Calls)
    /\ settling \in BOOLEAN
    /\ call \in [Calls -> CallState]
    /\ chain \in Seq(Roots)
    /\ requests \in Nat /\ pushes \in Nat

\* At most one batch is signed and not sent: every settlement first sends, or
\* gives up on, the batch of the one before it.
AtMostOneSigned == \A o, p \in SignedBatches : o = p

\* A transaction of ours on the chain has its batch, with the proofs, in the
\* store: batches are saved before they are sent, and removed only when the
\* chain does not know their transaction.
SentIsSaved ==
    \A k \in DOMAIN chain : \E o \in saved : /\ built[o].spends + 1 = k
                                             /\ built[o].root = chain[k]

\* The root of every transaction of ours on the chain has a batch in the store.
RootIsSaved == \A k \in DOMAIN chain : \E o \in saved : built[o].root = chain[k]

\* No two batches of the store spend the same output of our address.
SpentOnce == \A o, p \in saved : built[o].spends = built[p].spends => o = p

\* Between two I/O events a hash waits once in the queue, or has a batch, but
\* not both: nobody pays for a second anchor of it.
InOnePlace ==
    Quiet => \A h \in Hashes :
        LET waiting == {e \in pending : e.hash = h}
        IN  /\ \A e, f \in waiting : e = f
            /\ waiting = {} \/ FindBatchByHash(h) = {}

\* The hashes the notary answers for: queued, in a batch of the store, or
\* being put back after a rejected transaction.
Queued  == {e.hash : e \in pending}
Batched == UNION {Leaves(built[o].root) : o \in saved}
PutBack == {e.hash : e \in UNION
    ({built[call[c].cur].queue : c \in {d \in Calls : call[d].pc = "putBack"}}
     \cup {call[c].hand : c \in {d \in Calls : call[d].pc = "requeue"}})}
Custody == Queued \cup Batched \cup PutBack

\* The hashes whose proof the notary can give and the chain confirms.
Anchored == {h \in Hashes : \E o \in FindBatchByHash(h) : OnChain(o)}

\* A hash once taken is never forgotten.
CustodyKept == [][Custody \subseteq Custody']_vars

\* The transaction of the batch with the hash; NoHash when there is none.
TxOf(h) == IF FindBatchByHash(h) = {} THEN NoHash
           ELSE LET o == CHOOSE p \in FindBatchByHash(h) : TRUE
                IN  [root |-> built[o].root, spends |-> built[o].spends]

\* What those outside the notary see: the hashes that wait, the transaction
\* of each hash that has a batch, and the transactions the node took.
Line == (Queued \cup PutBack) \ Batched
Txs == [h \in Hashes |-> TxOf(h)]
Sent == {[root |-> chain[k], spends |-> k - 1] : k \in DOMAIN chain}

\* Whatever the calls do in between, to them it is the queue of NotaryQueue: a
\* hash waits or is in a batch, batches are signed one after another, and the
\* hashes of one that is given up wait again, all at once.
Outside == INSTANCE NotaryQueue WITH
    NoTx <- NoHash, queue <- Line, txOf <- Txs, sent <- Sent
QueueKept == Outside!NotarySpec

\* anchorNow returns a fresh proof only of a transaction the chain has.
FreshIsSent ==
    [][\A c \in Calls : call[c].pc = "final" /\ call'[c].out = "fresh"
                           => call[c].hash \in Anchored]_vars

\* A hash that waits is anchored in the end, whatever requests fail meanwhile.
EventuallyAnchored ==
    \A h \in Hashes : (h \in Queued) ~> (h \in Anchored)

\* Every call ends: a failed settlement holds up neither the chain of those
\* behind it nor the timer.
CallsEnd == \A c \in Calls : (call[c].pc # "rest") ~> (call[c].pc = "rest")

\* Settlements run one after another: between listing the signed batches and
\* the broadcast of its own batch no other settlement is past its start.
Settling(c) == call[c].pc \in {"check", "take", "fund", "save", "clear"}
SettlesAlone ==
    \A c, d \in Calls : Settling(c) /\ Settling(d) => c = d
=============================================================================
