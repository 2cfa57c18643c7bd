-------------------------- MODULE PaymentsProofs --------------------------
(***************************************************************************)
(* An invoice buys one anchor as long as its status is asked for by one    *)
(* request at a time, for any number of invoices, requests and hashes and  *)
(* whatever invoices the memos of later ones repeat.                       *)
(***************************************************************************)
EXTENDS Payments, TLAPS

-----------------------------------------------------------------------------
(* The queue of the notary, as those outside see it, keeps the promise of  *)
(* NotaryPromise.  Notary is checked to implement the queue (QueueKept     *)
(* there), so what holds here holds of the library.                        *)

\* A hash waits or is in a batch, never both: signing the hashes of the queue
\* takes no hash out of a batch the chain has.
QueueInv == /\ queue \subseteq Hashes
            /\ txOf = [h \in Hashes |-> txOf[h]]
            /\ \A h \in queue : txOf[h] = NoTx
            /\ NoTx \notin sent

LEMMA QueueInvInit == NotaryInit => QueueInv
  BY DEF NotaryInit, QueueInv

LEMMA QueueInvStep == QueueInv /\ [NotaryNext]_notaryVars => QueueInv'
<1> SUFFICES ASSUME QueueInv, [NotaryNext]_notaryVars PROVE QueueInv'
  OBVIOUS
<1> USE DEF QueueInv
<1>1. ASSUME NEW h \in Hashes, Take(h) PROVE QueueInv'
  BY <1>1 DEF Take, Held
<1>2. ASSUME NEW S \in SUBSET queue, NEW t, Sign(S, t) PROVE QueueInv'
  BY <1>2 DEF Sign
<1>3. ASSUME NEW t \in SignedTxs, Send(t) PROVE QueueInv'
  BY <1>3 DEF Send, SignedTxs
<1>4. ASSUME NEW t \in SignedTxs, GiveUp(t) PROVE QueueInv'
  BY <1>4 DEF GiveUp, LeavesOf
<1>5. CASE UNCHANGED notaryVars
  BY <1>5 DEF notaryVars
<1> QED
  BY <1>1, <1>2, <1>3, <1>4, <1>5 DEF NotaryNext

\* Signing moves hashes from the queue into a batch the chain does not have.
LEMMA SignStutters ==
    ASSUME QueueInv, NEW S \in SUBSET queue, NEW t, Sign(S, t)
    PROVE  Held' = Held /\ Anchored' = Anchored
<1>1. \A h \in Hashes : txOf'[h] = IF h \in S THEN t ELSE txOf[h]
  BY DEF Sign
<1>2. t # NoTx /\ t \notin sent /\ sent' = sent /\ queue' = queue \ S
  BY DEF Sign
<1>3. SignedTxs = {} /\ S \subseteq Hashes
  BY DEF Sign, QueueInv
<1>4. Held' = Held
  <2>1. SUFFICES \A h : h \in Held' <=> h \in Held
    OBVIOUS
  <2>2. TAKE h
  <2>3. CASE h \in S
    BY <1>1, <1>2, <1>3, <2>3 DEF Held
  <2>4. CASE h \notin S
    BY <1>1, <1>2, <2>4 DEF Held
  <2> QED
    BY <2>3, <2>4
<1>5. Anchored' = Anchored
  <2>1. \A h \in S : txOf[h] = NoTx /\ NoTx \notin sent
    BY DEF QueueInv
  <2>2. QED
    BY <1>1, <1>2, <2>1 DEF Anchored
<1>6. QED
  BY <1>4, <1>5

\* Giving up a batch the chain does not have returns its hashes to the queue.
LEMMA GiveUpStutters ==
    ASSUME QueueInv, NEW t \in SignedTxs, GiveUp(t)
    PROVE  Held' = Held /\ Anchored' = Anchored
<1>1. t # NoTx /\ t \notin sent
  BY DEF SignedTxs
<1>2. queue' = queue \cup {h \in Hashes : txOf[h] = t} /\ sent' = sent
  BY DEF GiveUp, LeavesOf
<1>3. \A h \in Hashes : txOf'[h] = IF txOf[h] = t THEN NoTx ELSE txOf[h]
  BY DEF GiveUp
<1>4. Held' = Held
  BY <1>1, <1>2, <1>3 DEF Held
<1>5. Anchored' = Anchored
  BY <1>1, <1>2, <1>3 DEF Anchored
<1>6. QED
  BY <1>4, <1>5

\* A transaction that reaches the chain anchors all hashes of its batch.
LEMMA SendAnchors ==
    ASSUME QueueInv, NEW t \in SignedTxs, Send(t)
    PROVE  Promise!Anchor(LeavesOf(t))
<1>1. t # NoTx /\ sent' = sent \cup {t} /\ queue' = queue /\ txOf' = txOf
  BY DEF Send, SignedTxs
<1>2. Held' = Held
  BY <1>1 DEF Held
<1>3. Anchored' = Anchored \cup LeavesOf(t)
  BY <1>1 DEF Anchored, LeavesOf
<1>4. LeavesOf(t) \subseteq Held
  BY <1>1 DEF LeavesOf, Held
<1>5. QED
  BY <1>2, <1>3, <1>4 DEF Promise!Anchor

LEMMA TakeTakes ==
    ASSUME QueueInv, NEW h \in Hashes, Take(h)
    PROVE  Promise!Take(h)
<1>1. queue' = queue \cup {h} /\ txOf' = txOf /\ sent' = sent
  BY DEF Take
<1>2. Held' = Held \cup {h} /\ Anchored' = Anchored
  BY <1>1 DEF Held, Anchored
<1>3. QED
  BY <1>2 DEF Promise!Take

\* Every step of the queue is one of the promise, or leaves it alone.
LEMMA StepKeepsPromise ==
    ASSUME QueueInv, [NotaryNext]_notaryVars
    PROVE  [Promise!Next]_<<Held, Anchored>>
<1>1. ASSUME NEW h \in Hashes, Take(h) PROVE Promise!Next
  BY <1>1, TakeTakes DEF Promise!Next
<1>2. ASSUME NEW S \in SUBSET queue, NEW t, Sign(S, t)
      PROVE  UNCHANGED <<Held, Anchored>>
  BY <1>2, SignStutters
<1>3. ASSUME NEW t \in SignedTxs, Send(t) PROVE Promise!Next
  <2>1. LeavesOf(t) \in SUBSET Hashes
    BY DEF LeavesOf
  <2>2. QED
    BY <1>3, <2>1, SendAnchors DEF Promise!Next
<1>4. ASSUME NEW t \in SignedTxs, GiveUp(t)
      PROVE  UNCHANGED <<Held, Anchored>>
  BY <1>4, GiveUpStutters
<1>5. CASE UNCHANGED notaryVars
  BY <1>5 DEF notaryVars, Held, Anchored
<1>6. QED
  BY <1>1, <1>2, <1>3, <1>4, <1>5 DEF NotaryNext

\* Whatever the node does with its batches, the notary's queue never forgets a
\* hash it took, and never loses a proof the chain confirms.
THEOREM QueueKeepsPromise == NotarySpec => Promise!Spec
<1>1. NotaryInit => Promise!Init
  BY DEF NotaryInit, Promise!Init, Held, Anchored
<1>2. QueueInv /\ [NotaryNext]_notaryVars => [Promise!Next]_<<Held, Anchored>>
  BY StepKeepsPromise
<1>3. QED
  BY <1>1, <1>2, QueueInvInit, QueueInvStep, PTL DEF NotarySpec, Promise!Spec

-----------------------------------------------------------------------------
(* Type correctness. *)

LEMMA IdleIsRequest == Idle \in Request
  BY DEF Idle, Request

LEMMA RunningIsRequest ==
    ASSUME NEW pc, NEW i,
           \/ pc \in {"invoice", "receive"} /\ i = None
           \/ pc \in {"status", "list"} /\ i \in Ids
    PROVE  Running(pc, i) \in Request
  BY DEF Running, Idle, Request

LEMMA AnchoringIsRequest ==
    ASSUME NEW i \in Ids \cup {None}, NEW h \in Hashes
    PROVE  /\ Anchoring(i, h) \in Request
           /\ Anchoring(i, h).id = i /\ Anchoring(i, h).pc = "anchor"
           /\ Anchoring(i, h).hash = h
           /\ Anchoring(i, h).token <=> i # None
<1>1. CASE i = None
  BY <1>1 DEF Anchoring, Request
<1>2. CASE i # None
  BY <1>2 DEF Anchoring, Request
<1> QED
  BY <1>1, <1>2

\* A request of each kind has the fields of its kind.
LEMMA RequestFields ==
    ASSUME NEW q \in Request
    PROVE  /\ q.pc \in {"status", "list"} => q.id \in Ids
           /\ q.pc # "anchor" => ~q.token
           /\ q.token => q.id \in Ids
           /\ q.pc = "anchor" => q.hash \in Hashes
           /\ q.token \in BOOLEAN
  BY DEF Request

\* What a request that starts, or is answered, leaves of the others.
LEMMA BusyOthers ==
    ASSUME TypeOK, NEW r \in Requests, NEW q \in Request, Busy(r, q)
    PROVE  /\ req' \in [Requests -> Request]
           /\ \A s \in Requests : req'[s] = IF s = r THEN q ELSE req[s]
  BY DEF Busy, TypeOK

LEMMA DoneOthers ==
    ASSUME TypeOK, NEW r \in Requests, Done(r)
    PROVE  /\ req' \in [Requests -> Request]
           /\ \A s \in Requests : req'[s] = IF s = r THEN Idle ELSE req[s]
  BY BusyOthers, IdleIsRequest DEF Done

QueueTyped == /\ queue \subseteq Hashes /\ sent \subseteq Txs
              /\ txOf \in [Hashes -> Txs \cup {NoTx}]

LEMMA TakeTyped == ASSUME QueueTyped, NEW h \in Hashes, Take(h) PROVE QueueTyped'
  BY DEF QueueTyped, Take

LEMMA QueuedTyped == ASSUME QueueTyped, NEW h \in Hashes, Queued(h) PROVE QueueTyped'
<1>1. CASE h \in Held
  BY <1>1 DEF Queued, QueueTyped, notaryVars
<1>2. CASE h \notin Held
  BY <1>2, TakeTyped DEF Queued
<1> QED
  BY <1>1, <1>2

LEMMA WorksTyped == ASSUME QueueTyped, NotaryWorks PROVE QueueTyped'
<1>1. ASSUME NEW h \in Hashes, Take(h) PROVE QueueTyped'
  BY <1>1, TakeTyped
<1>2. ASSUME NEW S \in SUBSET queue, NEW t \in Txs, Sign(S, t) PROVE QueueTyped'
  BY <1>2 DEF QueueTyped, Sign
<1>3. ASSUME NEW t \in SignedTxs, Send(t) PROVE QueueTyped'
  <2>1. t \in Txs
    BY DEF QueueTyped, SignedTxs
  <2>2. QED
    BY <1>3, <2>1 DEF QueueTyped, Send
<1>4. ASSUME NEW t \in SignedTxs, GiveUp(t) PROVE QueueTyped'
  <2>1. LeavesOf(t) \subseteq Hashes
    BY DEF LeavesOf
  <2>2. QED
    BY <1>4, <2>1 DEF QueueTyped, GiveUp
<1> QED
  BY <1>1, <1>2, <1>3, <1>4 DEF NotaryWorks

-----------------------------------------------------------------------------
(* The inductive invariant. *)

Polling(r, i) == req[r].pc \in {"status", "list"} /\ req[r].id = i
Anchors(r, i) == req[r].token /\ req[r].id = i

\* The right to an anchor is in one place; an invoice that is not made has none,
\* and nobody paid it.
OnePlace(i) == /\ i \in invoices => tokens[i] = "none"
               /\ i \in invoices \/ tokens[i] # "none" =>
                      (\A r \in Requests : ~Anchors(r, i)) /\ answers[i] = {}
               /\ \A r, s \in Requests : Anchors(r, i) /\ Anchors(s, i) => r = s
               /\ (\E r \in Requests : Anchors(r, i)) => answers[i] = {}
               /\ \A h, g \in answers[i] : h = g
               /\ phase[i] = "none" =>
                      /\ i \notin invoices /\ tokens[i] = "none" /\ answers[i] = {}
                      /\ i \notin paid /\ quotes[i] = {}
                      /\ \A r \in Requests : ~Anchors(r, i)

\* One request at most asks for an invoice, and finds it where it looked.
OnePoll(i) == /\ \A r, s \in Requests : Polling(r, i) /\ Polling(s, i) => r = s
              /\ \A r \in Requests : Polling(r, i) /\ req[r].pc = "list" => i \in invoices

IInv == TypeOK /\ \A i \in Ids : OnePlace(i) /\ OnePoll(i)

LEMMA IInvInit == Init => IInv
  BY IdleIsRequest DEF Init, NotaryInit, IInv, TypeOK, OnePlace, OnePoll, Polling,
     Anchors, Idle, Ages, Phases

-----------------------------------------------------------------------------
(* Steps that leave invoices, tokens and answers alone: a request that ends *)
(* without a token, or one that begins without asking for an invoice.       *)

LEMMA RequestTurns ==
    ASSUME IInv, NEW r \in Requests, NEW q \in Request, Busy(r, q),
           ~req[r].token, ~q.token,
           \A i \in Ids : q.pc \in {"status", "list"} /\ q.id = i => Polling(r, i),
           \A i \in Ids : q.pc = "list" /\ q.id = i => i \in invoices,
           UNCHANGED moneyVars
    PROVE  /\ req' \in [Requests -> Request]
           /\ \A i \in Ids : OnePlace(i)' /\ OnePoll(i)'
<1>1. \A s \in Requests : req'[s] = IF s = r THEN q ELSE req[s]
  BY BusyOthers DEF IInv
<1>2. req' \in [Requests -> Request]
  BY BusyOthers DEF IInv
<1>3. UNCHANGED <<invoices, tokens, phase, paid, quotes, answers>>
  BY DEF moneyVars
<1>4. ASSUME NEW i \in Ids PROVE OnePlace(i)' /\ OnePoll(i)'
  <2>1. OnePlace(i) /\ OnePoll(i)
    BY DEF IInv
  <2>2. \A s \in Requests : Anchors(s, i)' <=> Anchors(s, i)
    BY <1>1 DEF Anchors
  <2>3. OnePlace(i)'
    BY <2>1, <2>2, <1>3 DEF OnePlace
  <2>4. \A s \in Requests : Polling(s, i)' => Polling(s, i)
    BY <1>1 DEF Polling
  <2>5. \A s \in Requests : Polling(s, i)' /\ req'[s].pc = "list" => i \in invoices
    BY <1>1, <2>1 DEF Polling, OnePoll
  <2>6. OnePoll(i)'
    BY <2>1, <2>4, <2>5, <1>3 DEF OnePoll
  <2> QED
    BY <2>3, <2>6
<1> QED
  BY <1>2, <1>4

LEMMA SdkStep ==
    ASSUME IInv, SdkConnects \/ SdkRejects PROVE IInv'
  BY DEF IInv, SdkConnects, SdkRejects, TypeOK, notaryVars, moneyVars, OnePlace,
     OnePoll, Anchors, Polling

\* A request that ends with an error before it has a token.
LEMMA SdkCallFailsStep ==
    ASSUME IInv, NEW r \in Requests, SdkCallFails(r) PROVE IInv'
<1>1. ~req[r].token
  BY RequestFields DEF SdkCallFails, IInv, TypeOK
<1>2. Busy(r, Idle) /\ UNCHANGED <<notaryVars, sdk, moneyVars>>
  BY DEF SdkCallFails, Done
<1>3. ~Idle.token /\ Idle.pc = "idle"
  BY DEF Idle
<1>4. /\ req' \in [Requests -> Request]
      /\ \A i \in Ids : OnePlace(i)' /\ OnePoll(i)'
  BY <1>1, <1>2, <1>3, IdleIsRequest, RequestTurns
<1> QED
  BY <1>2, <1>4 DEF IInv, TypeOK, notaryVars, moneyVars

LEMMA WakeTyped == ASSUME TypeOK, Wake
                   PROVE  sdk' \in {"none", "connecting", "ready", "failed"}
  BY DEF TypeOK, Wake

LEMMA InvoiceStartStep ==
    ASSUME IInv, NEW r \in Requests, InvoiceStart(r) \/ InvoiceReceive(r) PROVE IInv'
<1>1. PICK pc \in {"invoice", "receive"} : Busy(r, Running(pc, None))
  BY DEF InvoiceStart, InvoiceReceive
<1>2. ~req[r].token
  BY RequestFields DEF InvoiceStart, InvoiceReceive, IInv, TypeOK
<1>3. ~Running(pc, None).token /\ Running(pc, None).pc = pc
  BY DEF Running, Idle
<1>4. UNCHANGED <<notaryVars, moneyVars>>
  BY DEF InvoiceStart, InvoiceReceive
<1>5. /\ req' \in [Requests -> Request]
      /\ \A i \in Ids : OnePlace(i)' /\ OnePoll(i)'
  BY <1>1, <1>2, <1>3, <1>4, RunningIsRequest, RequestTurns
<1>6. sdk' \in {"none", "connecting", "ready", "failed"}
  BY WakeTyped DEF IInv, TypeOK, InvoiceStart, InvoiceReceive
<1> QED
  BY <1>4, <1>5, <1>6 DEF IInv, TypeOK, notaryVars, moneyVars

LEMMA StatusStartStep ==
    ASSUME IInv, ~PollsOverlap, NEW r \in Requests, NEW i \in Ids, StatusStart(r, i)
    PROVE  IInv'
<1>1. Busy(r, Running("status", i)) /\ Running("status", i) \in Request
  BY RunningIsRequest DEF StatusStart
<1>2. /\ req' \in [Requests -> Request]
      /\ \A s \in Requests : req'[s] = IF s = r THEN Running("status", i) ELSE req[s]
  BY <1>1, BusyOthers DEF IInv
<1>3. /\ Running("status", i).pc = "status" /\ Running("status", i).id = i
      /\ ~Running("status", i).token
  BY DEF Running, Idle
<1>4. UNCHANGED <<queue, txOf, sent, invoices, tokens, phase, paid, quotes, answers>>
  BY DEF StatusStart, notaryVars, moneyVars
<1>5. ~req[r].token
  BY RequestFields DEF StatusStart, IInv, TypeOK
<1>6. \A s \in Requests : ~Polling(s, i)
  BY DEF StatusStart, Asked, Polling
<1>7. ASSUME NEW j \in Ids PROVE OnePlace(j)' /\ OnePoll(j)'
  <2>1. OnePlace(j) /\ OnePoll(j)
    BY DEF IInv
  <2>2. \A s \in Requests : Anchors(s, j)' <=> Anchors(s, j)
    BY <1>2, <1>3, <1>5 DEF Anchors
  <2>3. OnePlace(j)'
    BY <2>1, <2>2, <1>4 DEF OnePlace
  <2>4. \A s \in Requests : Polling(s, j)' => Polling(s, j) \/ (s = r /\ j = i)
    BY <1>2, <1>3 DEF Polling
  <2>5. OnePoll(j)'
    BY <2>1, <2>4, <1>2, <1>3, <1>4, <1>6 DEF OnePoll
  <2> QED
    BY <2>3, <2>5
<1>8. sdk' \in {"none", "connecting", "ready", "failed"}
  BY WakeTyped DEF IInv, StatusStart
<1> QED
  BY <1>2, <1>4, <1>7, <1>8 DEF IInv, TypeOK

-----------------------------------------------------------------------------
(* Steps that move a payment. *)

\* How a request that is over changes what the others are seen to do.
LEMMA DoneLeaves ==
    ASSUME TypeOK, NEW r \in Requests, Done(r)
    PROVE  /\ req' \in [Requests -> Request]
           /\ \A i \in Ids, s \in Requests :
                 /\ Anchors(s, i)' <=> Anchors(s, i) /\ s # r
                 /\ Polling(s, i)' <=> Polling(s, i) /\ s # r
           /\ \A s \in Requests \ {r} : req'[s] = req[s]
<1>1. /\ req' \in [Requests -> Request]
      /\ \A s \in Requests : req'[s] = IF s = r THEN Idle ELSE req[s]
  BY DoneOthers
<1>2. Idle.pc = "idle" /\ ~Idle.token
  BY DEF Idle
<1> QED
  BY <1>1, <1>2 DEF Anchors, Polling

LEMMA InvoiceMadeStep ==
    ASSUME IInv, NEW r \in Requests, NEW i \in Ids,
           NEW S \in Memos, InvoiceMade(r, i, S)
    PROVE  IInv'
<1>1. /\ invoices' = invoices \cup {i} /\ phase[i] = "none"
      /\ phase' = [phase EXCEPT ![i] = "open"]
      /\ quotes' = [quotes EXCEPT ![i] = S] /\ S \subseteq Ids
      /\ UNCHANGED <<queue, txOf, sent, sdk, tokens, paid, answers>>
  BY DEF InvoiceMade, Memos, notaryVars
<1>2. Done(r) /\ ~req[r].token /\ req[r].pc = "receive"
  BY RequestFields DEF InvoiceMade, IInv, TypeOK
<1>3. TypeOK'
  BY <1>1, <1>2, DoneLeaves DEF IInv, TypeOK, Phases
<1>4. ASSUME NEW j \in Ids PROVE OnePlace(j)' /\ OnePoll(j)'
  <2>1. OnePlace(j) /\ OnePoll(j)
    BY DEF IInv
  <2>2. \A s \in Requests : Anchors(s, j)' <=> Anchors(s, j)
    BY <1>2, DoneLeaves DEF IInv, Anchors
  <2>3. j # i => phase'[j] = phase[j] /\ quotes'[j] = quotes[j]
    BY <1>1 DEF IInv, TypeOK
  <2>4. OnePlace(j)'
    BY <2>1, <2>2, <2>3, <1>1 DEF OnePlace, IInv, TypeOK, Phases
  <2>5. OnePoll(j)'
    BY <2>1, <1>1, <1>2, DoneLeaves DEF OnePoll, IInv
  <2> QED
    BY <2>4, <2>5
<1> QED
  BY <1>3, <1>4 DEF IInv

LEMMA StatusGetStep ==
    ASSUME IInv, NEW r \in Requests, StatusGet(r) PROVE IInv'
<1> DEFINE i == req[r].id
<1>1. i \in Ids /\ ~req[r].token /\ req[r].pc = "status"
  BY RequestFields DEF StatusGet, IInv, TypeOK
<1>2. UNCHANGED <<queue, txOf, sent, sdk, tokens, phase, paid, quotes, answers>>
  BY DEF StatusGet, notaryVars
<1>3. CASE i \in invoices /\ phase[i] # "over"
  <2>1. Busy(r, Running("list", i)) /\ invoices' = invoices
    BY <1>3 DEF StatusGet
  <2>2. /\ Running("list", i) \in Request /\ Running("list", i).pc = "list"
        /\ ~Running("list", i).token /\ Running("list", i).id = i
    BY <1>1, RunningIsRequest DEF Running, Idle
  <2>3. /\ req' \in [Requests -> Request]
        /\ \A j \in Ids : OnePlace(j)' /\ OnePoll(j)'
    BY <1>1, <1>2, <1>3, <2>1, <2>2, RequestTurns DEF Polling, moneyVars
  <2> QED
    BY <1>2, <2>1, <2>3 DEF IInv, TypeOK
<1>4. CASE ~(i \in invoices /\ phase[i] # "over")
  <2>1. Done(r) /\ invoices' = invoices \ {i}
    BY <1>4 DEF StatusGet
  <2>2. TypeOK'
    BY <1>2, <2>1, DoneLeaves DEF IInv, TypeOK
  <2>3. \A j \in Ids, s \in Requests :
           /\ Anchors(s, j)' <=> Anchors(s, j)
           /\ Polling(s, j)' <=> Polling(s, j) /\ s # r
           /\ s # r => req'[s] = req[s]
    BY <1>1, <2>1, DoneLeaves DEF IInv, Anchors
  <2>4. Polling(r, i) /\ OnePoll(i)
    BY <1>1 DEF IInv, Polling
  <2>5. \A s \in Requests : s # r => ~Polling(s, i)
    BY <2>4 DEF OnePoll
  <2>6. ASSUME NEW j \in Ids PROVE OnePlace(j)' /\ OnePoll(j)'
    <3>1. OnePlace(j) /\ OnePoll(j)
      BY DEF IInv
    <3>2. /\ j \in invoices' => j \in invoices
          /\ j # i => (j \in invoices' <=> j \in invoices)
      BY <2>1
    <3>3. OnePlace(j)'
      BY <1>2, <2>3, <3>1, <3>2 DEF OnePlace
    <3>4. OnePoll(j)'
      BY <2>3, <2>5, <3>1, <3>2 DEF OnePoll
    <3> QED
      BY <3>3, <3>4
  <2> QED
    BY <2>2, <2>6 DEF IInv
<1> QED
  BY <1>3, <1>4

\* The invoice found paid is still listed, so no token of it exists yet.
LEMMA StatusListStep ==
    ASSUME IInv, NEW r \in Requests, StatusList(r) PROVE IInv'
<1> DEFINE i == req[r].id
<1>1. i \in Ids /\ ~req[r].token /\ req[r].pc = "list"
  BY RequestFields DEF StatusList, IInv, TypeOK
<1>2. /\ Done(r)
      /\ UNCHANGED <<queue, txOf, sent, sdk, phase, paid, quotes, answers>>
  BY DEF StatusList, notaryVars
<1>3. Polling(r, i) /\ OnePlace(i) /\ OnePoll(i) /\ i \in invoices
  BY <1>1 DEF IInv, Polling, OnePoll
<1>4. \A j \in Ids, s \in Requests :
         /\ Anchors(s, j)' <=> Anchors(s, j)
         /\ Polling(s, j)' <=> Polling(s, j) /\ s # r
         /\ s # r => req'[s] = req[s]
  BY <1>1, <1>2, DoneLeaves DEF IInv, Anchors
<1>5. CASE Found(i)
  <2>1. invoices' = invoices \ {i} /\ tokens' = [tokens EXCEPT ![i] = "fresh"]
    BY <1>5 DEF StatusList, Grant
  <2>2. TypeOK'
    BY <1>2, <2>1, DoneLeaves DEF IInv, TypeOK, Ages
  <2>3. ASSUME NEW j \in Ids PROVE OnePlace(j)' /\ OnePoll(j)'
    <3>1. OnePlace(j) /\ OnePoll(j)
      BY DEF IInv
    <3>2. /\ j # i => tokens'[j] = tokens[j] /\ (j \in invoices' <=> j \in invoices)
          /\ i \notin invoices'
      BY <2>1 DEF IInv, TypeOK
    <3>3. OnePlace(j)'
      BY <1>1, <1>2, <1>3, <1>4, <3>1, <3>2 DEF OnePlace
    <3>4. \A s \in Requests : s # r => ~Polling(s, i)
      BY <1>3 DEF OnePoll
    <3>5. OnePoll(j)'
      BY <1>4, <3>1, <3>2, <3>4 DEF OnePoll
    <3> QED
      BY <3>3, <3>5
  <2> QED
    BY <2>2, <2>3 DEF IInv
<1>6. CASE ~Found(i)
  <2>1. UNCHANGED <<invoices, tokens>>
    BY <1>6 DEF StatusList
  <2>2. TypeOK'
    BY <1>2, <2>1, DoneLeaves DEF IInv, TypeOK
  <2>3. ASSUME NEW j \in Ids PROVE OnePlace(j)' /\ OnePoll(j)'
    <3>1. OnePlace(j) /\ OnePoll(j)
      BY DEF IInv
    <3> QED
      BY <1>2, <1>4, <2>1, <3>1 DEF OnePlace, OnePoll
  <2> QED
    BY <2>2, <2>3 DEF IInv
<1> QED
  BY <1>5, <1>6

\* A token is taken by one request: there is no other, and no answer yet.
LEMMA OpreturnPaidStep ==
    ASSUME IInv, NEW r \in Requests, NEW i \in Ids, NEW h \in Hashes,
           OpreturnPaid(r, i, h)
    PROVE  IInv'
<1> DEFINE q == Anchoring(i, h)
<1>1. q \in Request /\ q.id = i /\ q.pc = "anchor" /\ q.token
  BY AnchoringIsRequest, NamesAssumption
<1>2. /\ req' \in [Requests -> Request]
      /\ \A s \in Requests : req'[s] = IF s = r THEN q ELSE req[s]
  BY <1>1, BusyOthers DEF OpreturnPaid, IInv
<1>3. /\ tokens[i] = "fresh" /\ tokens' = [tokens EXCEPT ![i] = "none"]
      /\ UNCHANGED <<sdk, invoices, phase, paid, quotes, answers>>
      /\ req[r].pc = "idle" /\ ~req[r].token
  BY RequestFields DEF OpreturnPaid, ConsumePaidToken, IInv, TypeOK
<1>4. QueueTyped'
  BY QueuedTyped DEF OpreturnPaid, QueueTyped, IInv, TypeOK
<1>5. TypeOK'
  BY <1>2, <1>3, <1>4 DEF QueueTyped, IInv, TypeOK, Ages
<1>6. OnePlace(i) /\ i \notin invoices /\ answers[i] = {} /\ tokens'[i] = "none"
      /\ phase[i] # "none"
  BY <1>3 DEF IInv, TypeOK, OnePlace
<1>7. \A s \in Requests : ~Anchors(s, i)
  BY <1>3, <1>6 DEF OnePlace
<1>8. ASSUME NEW j \in Ids PROVE OnePlace(j)' /\ OnePoll(j)'
  <2>1. OnePlace(j) /\ OnePoll(j)
    BY DEF IInv
  <2>2. \A s \in Requests : Anchors(s, j)' <=> Anchors(s, j) \/ (s = r /\ j = i)
    BY <1>1, <1>2, <1>3 DEF Anchors
  <2>3. \A s \in Requests : Polling(s, j)' => Polling(s, j) /\ req'[s] = req[s]
    BY <1>1, <1>2 DEF Polling
  <2>4. j # i => tokens'[j] = tokens[j]
    BY <1>3 DEF IInv, TypeOK
  <2>5. OnePlace(j)'
    BY <1>3, <1>6, <1>7, <2>1, <2>2, <2>4 DEF OnePlace
  <2>6. OnePoll(j)'
    BY <1>3, <2>1, <2>3 DEF OnePoll
  <2> QED
    BY <2>5, <2>6
<1> QED
  BY <1>5, <1>8 DEF IInv

LEMMA OpreturnAdminStep ==
    ASSUME IInv, NEW r \in Requests, NEW h \in Hashes, OpreturnAdmin(r, h)
    PROVE  IInv'
<1> DEFINE q == Anchoring(None, h)
<1>1. q \in Request /\ q.pc = "anchor" /\ ~q.token
  BY AnchoringIsRequest, NamesAssumption
<1>2. Busy(r, q) /\ ~req[r].token /\ UNCHANGED <<sdk, moneyVars>>
  BY RequestFields DEF OpreturnAdmin, IInv, TypeOK
<1>3. /\ req' \in [Requests -> Request]
      /\ \A i \in Ids : OnePlace(i)' /\ OnePoll(i)'
  BY <1>1, <1>2, RequestTurns
<1>4. QueueTyped'
  BY QueuedTyped DEF OpreturnAdmin, QueueTyped, IInv, TypeOK
<1> QED
  BY <1>2, <1>3, <1>4 DEF IInv, TypeOK, QueueTyped, moneyVars

\* The answer and the refund end the request that had the token.
LEMMA OpreturnEndStep ==
    ASSUME IInv, NEW r \in Requests, OpreturnAnswered(r) \/ OpreturnFails(r)
    PROVE  IInv'
<1>1. /\ Done(r) /\ req[r].pc = "anchor" /\ req[r].hash \in Hashes
      /\ UNCHANGED <<queue, txOf, sent, sdk, invoices, phase, paid, quotes>>
  BY RequestFields DEF OpreturnAnswered, OpreturnFails, notaryVars, IInv, TypeOK
<1>2. \A j \in Ids, s \in Requests :
         /\ Anchors(s, j)' <=> Anchors(s, j) /\ s # r
         /\ Polling(s, j)' => Polling(s, j) /\ s # r
         /\ s # r => req'[s] = req[s]
  BY <1>1, DoneLeaves DEF IInv
<1>3. req' \in [Requests -> Request]
  BY <1>1, DoneLeaves DEF IInv
<1>4. ASSUME NEW j \in Ids PROVE OnePoll(j)'
  <2>1. OnePoll(j)
    BY DEF IInv
  <2> QED
    BY <1>1, <1>2, <2>1 DEF OnePoll
<1>5. CASE ~req[r].token
  <2>1. UNCHANGED <<tokens, answers>>
    BY <1>5 DEF OpreturnAnswered, OpreturnFails, Refund
  <2>2. TypeOK'
    BY <1>1, <1>3, <2>1 DEF IInv, TypeOK
  <2>3. ASSUME NEW j \in Ids PROVE OnePlace(j)'
    <3>1. OnePlace(j)
      BY DEF IInv
    <3>2. \A s \in Requests : Anchors(s, j)' <=> Anchors(s, j)
      BY <1>2, <1>5 DEF Anchors
    <3> QED
      BY <1>1, <2>1, <3>1, <3>2 DEF OnePlace
  <2> QED
    BY <1>4, <2>2, <2>3 DEF IInv
<1>6. CASE req[r].token
  <2>0. PICK h \in Hashes : h = req[r].hash
    BY <1>1
  <2>1. PICK i \in Ids : i = req[r].id
    BY <1>6, RequestFields DEF IInv, TypeOK
  <2>2. OnePlace(i) /\ Anchors(r, i)
    BY <1>6, <2>1 DEF IInv, Anchors
  <2>3. /\ i \notin invoices /\ tokens[i] = "none" /\ answers[i] = {}
        /\ phase[i] # "none" /\ \A s \in Requests : Anchors(s, i) => s = r
    BY <2>2 DEF OnePlace
  <2>4. \A s \in Requests : ~Anchors(s, i)'
    BY <1>2, <2>1, <2>3
  <2>5. \/ UNCHANGED tokens /\ answers' = [answers EXCEPT ![i] = {h}]
        \/ UNCHANGED answers /\ tokens' = [tokens EXCEPT ![i] = "fresh"]
    <3>1. CASE OpreturnAnswered(r)
      BY <1>6, <2>0, <2>1, <2>3, <3>1 DEF OpreturnAnswered, IInv, TypeOK
    <3>2. CASE OpreturnFails(r)
      BY <1>6, <2>1, <3>2 DEF OpreturnFails, Refund
    <3> QED
      BY <3>1, <3>2
  <2>6. TypeOK'
    BY <1>1, <1>3, <2>5 DEF IInv, TypeOK, Ages
  <2>7. \A j \in Ids \ {i} : tokens'[j] = tokens[j] /\ answers'[j] = answers[j]
    BY <2>5 DEF IInv, TypeOK
  <2>8. OnePlace(i)'
    BY <1>1, <2>1, <2>3, <2>4, <2>5 DEF OnePlace, IInv, TypeOK
  <2>9. ASSUME NEW j \in Ids, j # i PROVE OnePlace(j)'
    <3>1. OnePlace(j)
      BY DEF IInv
    <3>2. \A s \in Requests : Anchors(s, j)' <=> Anchors(s, j)
      BY <1>2, <2>1, <2>9 DEF Anchors
    <3> QED
      BY <1>1, <2>7, <2>9, <3>1, <3>2 DEF OnePlace
  <2> QED
    BY <1>4, <2>6, <2>8, <2>9 DEF IInv
<1> QED
  BY <1>5, <1>6

-----------------------------------------------------------------------------
(* Steps of the world. *)

LEMMA TooLateStep ==
    ASSUME IInv, NEW i \in Ids, NEW h \in Hashes, OpreturnTooLate(i, h) PROVE IInv'
<1>1. /\ tokens[i] = "stale" /\ tokens' = [tokens EXCEPT ![i] = "none"]
      /\ UNCHANGED <<queue, txOf, sent, sdk, invoices, phase, paid, quotes, answers, req>>
  BY DEF OpreturnTooLate, notaryVars
<1> QED
  BY <1>1 DEF IInv, TypeOK, Ages, OnePlace, OnePoll, Anchors, Polling

LEMMA AgeStep ==
    ASSUME IInv, NEW i \in Ids, Pay(i) \/ InvoiceAges(i) \/ TokenAges(i) PROVE IInv'
<1>1. CASE Pay(i)
  BY <1>1 DEF Pay, IInv, TypeOK, OnePlace, OnePoll, Anchors, Polling, notaryVars
<1>2. CASE InvoiceAges(i)
  <2>1. /\ phase[i] # "none"
        /\ \E p \in {"grace", "over"} : phase' = [phase EXCEPT ![i] = p]
        /\ UNCHANGED <<queue, txOf, sent, sdk, invoices, tokens, paid, quotes, answers, req>>
    BY <1>2 DEF InvoiceAges, notaryVars
  <2> QED
    BY <2>1 DEF IInv, TypeOK, Phases, OnePlace, OnePoll, Anchors, Polling
<1>3. CASE TokenAges(i)
  <2>1. /\ tokens[i] = "fresh" /\ tokens' = [tokens EXCEPT ![i] = "stale"]
        /\ UNCHANGED <<queue, txOf, sent, sdk, invoices, phase, paid, quotes, answers, req>>
    BY <1>3 DEF TokenAges, notaryVars
  <2> QED
    BY <2>1 DEF IInv, TypeOK, Ages, OnePlace, OnePoll, Anchors, Polling
<1> QED
  BY <1>1, <1>2, <1>3

LEMMA WorksStep == ASSUME IInv, NotaryWorks PROVE IInv'
<1>1. QueueTyped'
  BY WorksTyped DEF QueueTyped, IInv, TypeOK
<1>2. UNCHANGED <<sdk, invoices, tokens, phase, paid, quotes, answers, req>>
  BY DEF NotaryWorks, moneyVars
<1> QED
  BY <1>1, <1>2 DEF QueueTyped, IInv, TypeOK, OnePlace, OnePoll, Anchors, Polling

\* A restart drops what is in hand, and so all that could be used twice.
LEMMA CrashStep == ASSUME IInv, Crash PROVE IInv'
<1>1. /\ sdk' = "none" /\ invoices' = {} /\ tokens' = [i \in Ids |-> "none"]
      /\ req' = [r \in Requests |-> Idle]
      /\ UNCHANGED <<queue, txOf, sent, phase, paid, quotes, answers>>
  BY DEF Crash, notaryVars
<1>2. Idle.pc = "idle" /\ ~Idle.token
  BY DEF Idle
<1>3. \A r \in Requests : req'[r] = Idle
  BY <1>1
<1>4. TypeOK'
  BY <1>1, IdleIsRequest DEF IInv, TypeOK, Ages
<1>5. ASSUME NEW j \in Ids PROVE OnePlace(j)' /\ OnePoll(j)'
  <2>1. OnePlace(j)
    BY DEF IInv
  <2>2. OnePlace(j)'
    BY <1>1, <1>2, <1>3, <2>1 DEF OnePlace, Anchors
  <2>3. OnePoll(j)'
    BY <1>2, <1>3 DEF OnePoll, Polling
  <2> QED
    BY <2>2, <2>3
<1> QED
  BY <1>4, <1>5 DEF IInv

LEMMA StutterStep == ASSUME IInv, UNCHANGED vars PROVE IInv'
  BY DEF vars, notaryVars, moneyVars, IInv, TypeOK, OnePlace, OnePoll, Anchors, Polling

LEMMA IInvStep == IInv /\ ~PollsOverlap /\ [Next]_vars => IInv'
<1> SUFFICES ASSUME IInv, ~PollsOverlap, [Next]_vars PROVE IInv'
  OBVIOUS
<1>1. ASSUME NEW r \in Requests, InvoiceStep(r) PROVE IInv'
  BY <1>1, SdkCallFailsStep, InvoiceStartStep, InvoiceMadeStep DEF InvoiceStep
<1>2. ASSUME NEW r \in Requests, StatusStep(r) PROVE IInv'
  BY <1>2, StatusStartStep, StatusGetStep, StatusListStep DEF StatusStep
<1>3. ASSUME NEW r \in Requests, OpreturnStep(r) PROVE IInv'
  BY <1>3, OpreturnEndStep, OpreturnAdminStep, OpreturnPaidStep DEF OpreturnStep
<1>4. ASSUME NEW i \in Ids, WorldStep(i) PROVE IInv'
  BY <1>4, AgeStep, TooLateStep DEF WorldStep
<1> QED
  BY <1>1, <1>2, <1>3, <1>4, SdkStep, WorksStep, CrashStep, StutterStep DEF Next

LEMMA IInvAlways == ASSUME ~PollsOverlap PROVE Spec => []IInv
<1>1. IInv /\ [Next]_vars => IInv'
  BY IInvStep
<1> QED
  BY <1>1, IInvInit, PTL DEF Spec

\* An invoice is answered with one anchored hash at most, whichever payment it
\* is found by and however requests, failed settlements, refunds, ageing and
\* restarts follow one another, if no two requests ask for its status at once.
THEOREM PaysOnce == ASSUME ~PollsOverlap PROVE Spec => []PaidOnce
<1>1. IInv => PaidOnce
  BY DEF IInv, OnePlace, PaidOnce
<1>2. Spec => []IInv
  BY IInvAlways
<1> QED
  BY <1>1, <1>2, PTL

\* Requests have the fields of their kind and only ask for invoices that exist.
THEOREM TypeCorrect == ASSUME ~PollsOverlap PROVE Spec => []TypeOK
<1>1. IInv => TypeOK
  BY DEF IInv
<1>2. Spec => []IInv
  BY IInvAlways
<1> QED
  BY <1>1, <1>2, PTL

-----------------------------------------------------------------------------
(* A payment stays in the server's hands. *)

KeptIn(i) == \/ InHand(i)'
             \/ answers'[i] # answers[i]
             \/ phase[i] = "over" \/ tokens[i] = "stale"
             \/ Crash

\* Of the requests only those of /api/opreturn have a token to lose.
LEMMA InvoiceKeeps ==
    ASSUME TypeOK, NEW r \in Requests, NEW i \in Ids, InHand(i), InvoiceStep(r)
    PROVE  KeptIn(i)
<1>1. ~req[r].token /\ tokens' = tokens /\ invoices \subseteq invoices'
  BY RequestFields DEF InvoiceStep, SdkCallFails, InvoiceStart, InvoiceReceive,
     InvoiceMade, moneyVars, TypeOK
<1>2. \E q : Busy(r, q)
  BY DEF InvoiceStep, SdkCallFails, InvoiceStart, InvoiceReceive, InvoiceMade, Done
<1>3. \A s \in Requests : s # r => req'[s] = req[s]
  BY <1>2 DEF Busy, TypeOK
<1> QED
  BY <1>1, <1>3 DEF KeptIn, InHand, InUse

LEMMA StatusKeeps ==
    ASSUME TypeOK, NEW r \in Requests, NEW i \in Ids, InHand(i), StatusStep(r)
    PROVE  KeptIn(i)
<1>1. ~req[r].token
  BY RequestFields DEF StatusStep, StatusStart, StatusGet, StatusList, TypeOK
<1>2. \E q : Busy(r, q)
  BY DEF StatusStep, StatusStart, StatusGet, StatusList, Done
<1>3. \A s \in Requests : s # r => req'[s] = req[s]
  BY <1>2 DEF Busy, TypeOK
<1>4. CASE StatusGet(r)
  <2>1. /\ tokens' = tokens
        /\ i \in invoices /\ phase[i] # "over" => i \in invoices'
    BY <1>4 DEF StatusGet
  <2> QED
    BY <1>1, <1>3, <2>1 DEF KeptIn, InHand, InUse
<1>5. CASE StatusList(r)
  <2>1. tokens[i] # "none" => tokens'[i] # "none"
    BY <1>5 DEF StatusList, Grant, TypeOK
  <2>2. i \in invoices => i \in invoices' \/ tokens'[i] # "none"
    BY <1>5 DEF StatusList, Grant, TypeOK
  <2> QED
    BY <1>1, <1>3, <2>1, <2>2 DEF KeptIn, InHand, InUse
<1>6. CASE \E j \in Ids : StatusStart(r, j)
  BY <1>1, <1>3, <1>6 DEF StatusStart, moneyVars, KeptIn, InHand, InUse
<1> QED
  BY <1>4, <1>5, <1>6 DEF StatusStep

LEMMA OpreturnKeeps ==
    ASSUME IInv, NEW r \in Requests, NEW i \in Ids, InHand(i), OpreturnStep(r)
    PROVE  KeptIn(i)
<1>1. TypeOK /\ OnePlace(i)
  BY DEF IInv
<1>2. \E q : Busy(r, q)
  BY DEF OpreturnStep, OpreturnAnswered, OpreturnFails, OpreturnAdmin, OpreturnPaid, Done
<1>3. \A s \in Requests : s # r => req'[s] = req[s]
  BY <1>1, <1>2 DEF Busy, TypeOK
<1>4. CASE OpreturnAnswered(r)
  <2>1. CASE Anchors(r, i)
    <3>1. answers[i] = {} /\ answers'[i] = answers[i] \cup {req[r].hash}
      BY <1>1, <1>4, <2>1 DEF OpreturnAnswered, OnePlace, Anchors, TypeOK
    <3> QED
      BY <3>1 DEF KeptIn
  <2>2. CASE ~Anchors(r, i)
    BY <1>3, <1>4, <2>2 DEF OpreturnAnswered, KeptIn, InHand, InUse, Anchors
  <2> QED
    BY <2>1, <2>2
<1>5. CASE OpreturnFails(r)
  <2>1. Anchors(r, i) => tokens'[i] # "none"
    BY <1>1, <1>5 DEF OpreturnFails, Refund, Anchors, TypeOK
  <2>2. tokens[i] # "none" => tokens'[i] # "none"
    BY <1>1, <1>5 DEF OpreturnFails, Refund, TypeOK
  <2>3. invoices' = invoices
    BY <1>5 DEF OpreturnFails
  <2> QED
    BY <1>3, <2>1, <2>2, <2>3 DEF KeptIn, InHand, InUse, Anchors
<1>6. ASSUME NEW h \in Hashes, OpreturnAdmin(r, h) PROVE KeptIn(i)
  <2>1. ~req[r].token
    BY <1>1, <1>6, RequestFields DEF OpreturnAdmin, TypeOK
  <2> QED
    BY <1>3, <1>6, <2>1 DEF OpreturnAdmin, moneyVars, KeptIn, InHand, InUse
<1>7. ASSUME NEW h \in Hashes, NEW j \in Ids, OpreturnPaid(r, j, h) PROVE KeptIn(i)
  <2>1. ~req[r].token /\ invoices' = invoices
    BY <1>1, <1>7, RequestFields DEF OpreturnPaid, TypeOK
  <2>2. j = i => req'[r].token /\ req'[r].id = i
    BY <1>1, <1>7, AnchoringIsRequest, NamesAssumption DEF OpreturnPaid, Busy, TypeOK
  <2>3. j # i => tokens'[i] = tokens[i]
    BY <1>1, <1>7 DEF OpreturnPaid, ConsumePaidToken, TypeOK
  <2> QED
    BY <1>3, <2>1, <2>2, <2>3 DEF KeptIn, InHand, InUse
<1> QED
  BY <1>4, <1>5, <1>6, <1>7 DEF OpreturnStep

LEMMA WorldKeeps ==
    ASSUME TypeOK, NEW i \in Ids, NEW j \in Ids, InHand(i), WorldStep(j)
    PROVE  KeptIn(i)
<1>1. CASE Pay(j) \/ InvoiceAges(j)
  BY <1>1 DEF Pay, InvoiceAges, KeptIn, InHand, InUse
<1>2. CASE TokenAges(j)
  BY <1>2 DEF TokenAges, KeptIn, InHand, InUse, TypeOK
<1>3. ASSUME NEW h \in Hashes, OpreturnTooLate(j, h) PROVE KeptIn(i)
  BY <1>3 DEF OpreturnTooLate, KeptIn, InHand, InUse, TypeOK
<1> QED
  BY <1>1, <1>2, <1>3 DEF WorldStep

\* A payment is never lost to a failing node or settlement: it is used up, too
\* old, or gone with the process.
THEOREM KeepsPayment == ASSUME ~PollsOverlap PROVE Spec => PaymentKept
<1>1. ASSUME IInv, [Next]_vars, NEW i \in paid, InHand(i)
      PROVE  KeptIn(i) \/ UNCHANGED vars
  <2>1. i \in Ids /\ TypeOK
    BY <1>1 DEF IInv, TypeOK
  <2>2. ASSUME NEW r \in Requests, InvoiceStep(r) \/ StatusStep(r) \/ OpreturnStep(r)
        PROVE  KeptIn(i)
    BY <1>1, <2>1, <2>2, InvoiceKeeps, StatusKeeps, OpreturnKeeps
  <2>3. ASSUME NEW j \in Ids, WorldStep(j) PROVE KeptIn(i)
    BY <1>1, <2>1, <2>3, WorldKeeps
  <2>4. CASE SdkConnects \/ SdkRejects \/ NotaryWorks
    BY <1>1, <2>4 DEF SdkConnects, SdkRejects, NotaryWorks, moneyVars, KeptIn,
       InHand, InUse
  <2>5. CASE Crash
    BY <2>5 DEF KeptIn
  <2> QED
    BY <1>1, <2>2, <2>3, <2>4, <2>5 DEF Next
<1>2. IInv /\ [Next]_vars =>
         [\A i \in paid : InHand(i) /\ ~InHand(i)' =>
             \/ answers'[i] # answers[i]
             \/ phase[i] = "over" \/ tokens[i] = "stale"
             \/ Crash]_vars
  BY <1>1 DEF KeptIn
<1>3. Spec => []IInv
  BY IInvAlways
<1> QED
  BY <1>2, <1>3, PTL DEF Spec, PaymentKept

-----------------------------------------------------------------------------
(* Nothing is given away. *)

Has(i) == tokens[i] # "none" \/ InUse(i) \/ answers[i] # {}

\* What has something after a step had something, or is found paid.
LEMMA OnlyPaidGain ==
    ASSUME IInv, [Next]_vars, NEW i \in Ids, Has(i)'
    PROVE  Has(i) \/ Found(i)
<1>0. ~Idle.token /\ \A pc, j : ~Running(pc, j).token
  BY DEF Running, Idle
<1>1. TypeOK
  BY DEF IInv
<1>2. ASSUME NEW r \in Requests, InvoiceStep(r) PROVE Has(i)
  <2>1. UNCHANGED <<tokens, answers>>
    BY <1>2 DEF InvoiceStep, SdkCallFails, InvoiceStart, InvoiceReceive, InvoiceMade,
       moneyVars
  <2>2. \E q : Busy(r, q) /\ ~q.token
    BY <1>0, <1>2 DEF InvoiceStep, SdkCallFails, InvoiceStart, InvoiceReceive,
       InvoiceMade, Done
  <2>3. \A s \in Requests : req'[s].token => req'[s] = req[s]
    BY <1>1, <2>2 DEF Busy, TypeOK
  <2> QED
    BY <2>1, <2>3 DEF Has, InUse
<1>3. ASSUME NEW r \in Requests, StatusStep(r) PROVE Has(i) \/ Found(i)
  <2>1. answers' = answers /\ (tokens'[i] # tokens[i] => Found(i))
    BY <1>1, <1>3 DEF StatusStep, StatusStart, StatusGet, StatusList, Grant,
       moneyVars, TypeOK
  <2>2. \E q : Busy(r, q) /\ ~q.token
    BY <1>0, <1>3 DEF StatusStep, StatusStart, StatusGet, StatusList, Done
  <2>3. \A s \in Requests : req'[s].token => req'[s] = req[s]
    BY <1>1, <2>2 DEF Busy, TypeOK
  <2> QED
    BY <2>1, <2>3 DEF Has, InUse
<1>4. ASSUME NEW r \in Requests, OpreturnAnswered(r) \/ OpreturnFails(r) PROVE Has(i)
  <2>1. \A s \in Requests : req'[s].token => req'[s] = req[s]
    BY <1>1, <1>4 DEF OpreturnAnswered, OpreturnFails, Busy, Done, Idle, TypeOK
  <2>2. tokens'[i] # tokens[i] \/ answers'[i] # answers[i] => InUse(i)
    BY <1>1, <1>4 DEF OpreturnAnswered, OpreturnFails, Refund, InUse, TypeOK
  <2> QED
    BY <2>1, <2>2 DEF Has, InUse
<1>5. ASSUME NEW r \in Requests, NEW h \in Hashes,
             OpreturnAdmin(r, h) \/ \E j \in Ids : OpreturnPaid(r, j, h)
      PROVE  Has(i)
  <2>1. PICK j \in Ids \cup {None} :
           /\ Busy(r, Anchoring(j, h)) /\ answers' = answers
           /\ tokens' = tokens \/ tokens' = [tokens EXCEPT ![j] = "none"]
           /\ j \in Ids => tokens[j] = "fresh"
    BY <1>5, NamesAssumption DEF OpreturnAdmin, OpreturnPaid, ConsumePaidToken, moneyVars
  <2>2. \A s \in Requests : req'[s].token /\ req'[s].id = i =>
                               req'[s] = req[s] \/ j = i
    BY <1>1, <2>1, AnchoringIsRequest DEF Busy, TypeOK
  <2>3. tokens'[i] # "none" => tokens[i] # "none"
    BY <1>1, <2>1 DEF TypeOK
  <2> QED
    BY <2>1, <2>2, <2>3 DEF Has, InUse
<1>6. ASSUME NEW j \in Ids, WorldStep(j) PROVE Has(i)
  BY <1>1, <1>6 DEF WorldStep, Pay, InvoiceAges, TokenAges, OpreturnTooLate, Has,
     InUse, TypeOK
<1>7. CASE SdkConnects \/ SdkRejects \/ NotaryWorks \/ UNCHANGED vars
  BY <1>7 DEF SdkConnects, SdkRejects, NotaryWorks, moneyVars, vars, Has, InUse
<1>8. CASE Crash
  BY <1>8 DEF Crash, Idle, Has, InUse
<1> QED
  BY <1>2, <1>3, <1>4, <1>5, <1>6, <1>7, <1>8 DEF Next, OpreturnStep

\* A payment names what it named: no invoice that is paid gets another memo.
LEMMA FoundStays ==
    ASSUME IInv, [Next]_vars, NEW i \in Ids, Found(i)
    PROVE  Found(i)'
<1>1. PICK p \in paid : i \in Names(p)
  BY DEF Found
<1>2. p \in Ids /\ TypeOK /\ phase[p] # "none"
  BY <1>1 DEF IInv, TypeOK, OnePlace
<1>3. paid \subseteq paid'
  BY DEF Next, InvoiceStep, SdkCallFails, InvoiceStart, InvoiceReceive,
     InvoiceMade, StatusStep, StatusStart, StatusGet, StatusList, OpreturnStep,
     OpreturnAnswered, OpreturnFails, OpreturnAdmin, OpreturnPaid, WorldStep, Pay,
     InvoiceAges, TokenAges, OpreturnTooLate, SdkConnects, SdkRejects, NotaryWorks,
     Crash, moneyVars, vars
<1>4. quotes'[p] = quotes[p]
  <2>1. ASSUME NEW r \in Requests, NEW j \in Ids, NEW S \in Memos, InvoiceMade(r, j, S)
        PROVE  quotes'[p] = quotes[p]
    BY <1>2, <2>1 DEF InvoiceMade, TypeOK
  <2>2. \/ \E r \in Requests, j \in Ids : \E S \in Memos : InvoiceMade(r, j, S)
        \/ UNCHANGED quotes
    BY DEF Next, InvoiceStep, SdkCallFails, InvoiceStart, InvoiceReceive,
       StatusStep, StatusStart, StatusGet, StatusList, OpreturnStep,
       OpreturnAnswered, OpreturnFails, OpreturnAdmin, OpreturnPaid, WorldStep, Pay,
       InvoiceAges, TokenAges, OpreturnTooLate, SdkConnects, SdkRejects, NotaryWorks,
       Crash, moneyVars, vars
  <2> QED
    BY <2>1, <2>2
<1> QED
  BY <1>1, <1>3, <1>4 DEF Found, Names

\* A token, an anchor that runs and an answer are of an invoice that the
\* description of a paid one names, whatever the memos of the invoices repeat.
THEOREM NothingFree == ASSUME ~PollsOverlap PROVE Spec => []NothingUnpaid
<1>1. Init => NothingUnpaid
  BY DEF Init, NothingUnpaid, InUse, Idle
<1>2. ASSUME IInv, NothingUnpaid, [Next]_vars PROVE NothingUnpaid'
  <2>1. ASSUME NEW i \in Ids, Has(i)' PROVE Found(i)'
    BY <1>2, <2>1, OnlyPaidGain, FoundStays DEF NothingUnpaid, Has, Found
  <2> QED
    BY <2>1 DEF NothingUnpaid, Has, Found
<1>3. Spec => []IInv
  BY IInvAlways
<1> QED
  BY <1>1, <1>2, <1>3, PTL DEF Spec
=============================================================================
