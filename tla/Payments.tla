------------------------------ MODULE Payments ------------------------------
(***************************************************************************)
(* The paid side of the web server (examples/webapp/server.js): Lightning  *)
(* invoices, the tokens that paid ones turn into, and /api/opreturn, which *)
(* anchors a hash at once for a token.  The notary below is NotaryQueue.   *)
(*                                                                         *)
(* An action is a stretch of a handler between two awaits that leave the   *)
(* process: the Lightning node, or a settlement.  The stores of store.js   *)
(* answer in the same turn of the event loop.  A definition no action uses *)
(* (NoRefund, AnyFound, ...) is a mistake the properties must notice.      *)
(***************************************************************************)
EXTENDS NotaryQueue, Naturals, FiniteSets

CONSTANTS
    Txs,           \* the transactions the notary may sign
    Ids,           \* the checkingIds (crypto.randomUUID) that may be made
    Requests,      \* the requests the server may be answering at a time
    None,          \* the field of a request that has none
    PollsOverlap,  \* TRUE: an invoice is asked for by several requests at once
    SdkFails,      \* the Lightning SDK may not connect, or fail a call
    AnchorFails,   \* a settlement may fail
    CanCrash       \* the process may stop and be started again

ASSUME NamesAssumption == NoTx \notin Txs /\ None \notin Ids \cup Hashes
ASSUME SwitchAssumption == PollsOverlap \in BOOLEAN

VARIABLES
    sdk,       \* getSdk: the one promise all requests wait for
    invoices,  \* the map invoices: those not seen paid
    tokens,    \* the map paidTokens, with the age of a token
    phase,     \* the age of an invoice
    paid,      \* the invoices the Lightning node lists as paid
    quotes,    \* the checkingIds the memo of an invoice repeats
    req,       \* the local variables of the running requests
    answers    \* history: the hashes answered as newly anchored on a payment

moneyVars == <<invoices, tokens, phase, paid, quotes, answers>>
vars == <<notaryVars, sdk, moneyVars, req>>

\* LN_EXPIRY_SEC: "open" until then; 120 s later the server drops the invoice.
Phases == {"none", "open", "grace", "over"}
\* PAID_TOKEN_TTL_MS: a token is "fresh" until then.
Ages == {"none", "fresh", "stale"}

Idle == [pc |-> "idle", id |-> None, hash |-> None, token |-> FALSE]
Running(pc, i) == [Idle EXCEPT !.pc = pc, !.id = i]

\* usedToken: only a request that paid gives a token back.
AnchoringPaid(i, h) == [pc |-> "anchor", id |-> i, hash |-> h, token |-> TRUE]
Anchoring(i, h) == [pc |-> "anchor", id |-> i, hash |-> h, token |-> i # None]

Busy(r, state) == req' = [req EXCEPT ![r] = state]
Done(r) == Busy(r, Idle)

-----------------------------------------------------------------------------
(* The Lightning SDK: connected by the first request that needs it.        *)

Wake == sdk' = IF sdk = "none" THEN "connecting" ELSE sdk

SdkConnects == /\ sdk = "connecting" /\ sdk' = "ready"
               /\ UNCHANGED <<notaryVars, moneyVars, req>>

\* The rejected promise stays in sdkPromise: no later request connects again.
SdkRejects == /\ sdk = "connecting" /\ SdkFails /\ sdk' = "failed"
              /\ UNCHANGED <<notaryVars, moneyVars, req>>

\* A request that awaited the SDK, or a call of it, is answered with 500.
SdkCallFails(r) ==
    /\ \/ req[r].pc \in {"invoice", "status"} /\ sdk = "failed"
       \/ req[r].pc \in {"receive", "list"} /\ SdkFails
    /\ Done(r)
    /\ UNCHANGED <<notaryVars, sdk, moneyVars>>

-----------------------------------------------------------------------------
(* POST /api/ln/invoice.                                                   *)

InvoiceStart(r) == /\ req[r].pc = "idle"
                   /\ Wake /\ Busy(r, Running("invoice", None))
                   /\ UNCHANGED <<notaryVars, moneyVars>>

InvoiceReceive(r) == /\ req[r].pc = "invoice" /\ sdk = "ready"
                     /\ Busy(r, Running("receive", None))
                     /\ UNCHANGED <<notaryVars, sdk, moneyVars>>

\* The client's memo opens the description, cut at 120 characters: it may repeat
\* the `id:` of as many invoices made before as that length holds.
MemoIds == 3
Memos == {S \in SUBSET {i \in Ids : phase[i] # "none"} : Cardinality(S) <= MemoIds}

InvoiceMade(r, i, S) == /\ req[r].pc = "receive" /\ phase[i] = "none"
                        /\ invoices' = invoices \cup {i}
                        /\ phase' = [phase EXCEPT ![i] = "open"]
                        /\ quotes' = [quotes EXCEPT ![i] = S]
                        /\ Done(r)
                        /\ UNCHANGED <<notaryVars, sdk, tokens, paid, answers>>

-----------------------------------------------------------------------------
(* GET /api/ln/status/:checkingId.                                         *)

Asked(i) == \E r \in Requests : req[r].pc \in {"status", "list"} /\ req[r].id = i

StatusStart(r, i) == /\ req[r].pc = "idle" /\ phase[i] # "none"
                     /\ PollsOverlap \/ ~Asked(i)
                     /\ Wake /\ Busy(r, Running("status", i))
                     /\ UNCHANGED <<notaryVars, moneyVars>>

\* The invoice is looked up and, when it is too old, dropped unread.
StatusGet(r) ==
    LET i == req[r].id
    IN  /\ req[r].pc = "status" /\ sdk = "ready"
        /\ IF i \in invoices /\ phase[i] # "over"
           THEN Busy(r, Running("list", i)) /\ UNCHANGED invoices
           ELSE Done(r) /\ invoices' = invoices \ {i}
        /\ UNCHANGED <<notaryVars, sdk, tokens, phase, paid, quotes, answers>>

GrantKeepsInvoice(i) == /\ tokens' = [tokens EXCEPT ![i] = "fresh"]
                        /\ UNCHANGED invoices
Grant(i) == /\ invoices' = invoices \ {i}
            /\ tokens' = [tokens EXCEPT ![i] = "fresh"]

\* The checkingIds in the description of an invoice, and of its payment: those
\* of the memo, then its own.
Names(i) == quotes[i] \cup {i}

\* A payment in the list, completed, whose description has the checkingId.
AnyFound(i) == paid # {}
Found(i) == \E p \in paid : i \in Names(p)

\* The list of payments arrives: the lookup above is not made again.
StatusList(r) ==
    /\ req[r].pc = "list"
    /\ IF Found(req[r].id) THEN Grant(req[r].id) ELSE UNCHANGED <<invoices, tokens>>
    /\ Done(r)
    /\ UNCHANGED <<notaryVars, sdk, phase, paid, quotes, answers>>

-----------------------------------------------------------------------------
(* POST /api/opreturn: with a token, or with the admin's key.              *)

TokenStays(i) == UNCHANGED tokens
ConsumePaidToken(i) == tokens' = [tokens EXCEPT ![i] = "none"]

\* addHash inside anchorNow: a hash that waits already is not queued again.
Queued(h) == IF h \in Held THEN UNCHANGED notaryVars ELSE Take(h)

\* A hash that has a batch is answered from it, and no token is used.
OpreturnExisting(h) == txOf[h] # NoTx

OpreturnPaid(r, i, h) ==
    /\ req[r].pc = "idle" /\ ~OpreturnExisting(h) /\ tokens[i] = "fresh"
    /\ ConsumePaidToken(i)
    /\ Queued(h)
    /\ Busy(r, Anchoring(i, h))
    /\ UNCHANGED <<sdk, invoices, phase, paid, quotes, answers>>

\* A token that is too old is taken and refused: 402.
OpreturnTooLate(i, h) ==
    /\ ~OpreturnExisting(h) /\ tokens[i] = "stale"
    /\ tokens' = [tokens EXCEPT ![i] = "none"]
    /\ UNCHANGED <<notaryVars, sdk, invoices, phase, paid, quotes, answers, req>>

OpreturnAdmin(r, h) ==
    /\ req[r].pc = "idle" /\ ~OpreturnExisting(h)
    /\ Queued(h)
    /\ Busy(r, Anchoring(None, h))
    /\ UNCHANGED <<sdk, moneyVars>>

\* anchorNow returns once the transaction with the hash is sent.
OpreturnAnswered(r) ==
    /\ req[r].pc = "anchor" /\ req[r].hash \in Anchored
    /\ answers' = IF req[r].token
                  THEN [answers EXCEPT ![req[r].id] = @ \cup {req[r].hash}]
                  ELSE answers
    /\ Done(r)
    /\ UNCHANGED <<notaryVars, sdk, invoices, tokens, phase, paid, quotes>>

NoRefund(r) == UNCHANGED tokens
Refund(r) == tokens' = IF req[r].token
                       THEN [tokens EXCEPT ![req[r].id] = "fresh"] ELSE tokens

\* anchorNow throws, wherever its hash is by then: still in the queue, in a
\* batch the node does not have, or in one it took without saying so.
OpreturnFails(r) ==
    /\ req[r].pc = "anchor" /\ AnchorFails
    /\ Refund(r)
    /\ Done(r)
    /\ UNCHANGED <<notaryVars, sdk, invoices, phase, paid, quotes, answers>>

-----------------------------------------------------------------------------
(* The customer's wallet, time, the rest of the server, and a restart.     *)

Pay(i) == /\ phase[i] = "open" /\ i \notin paid
          /\ paid' = paid \cup {i}
          /\ UNCHANGED <<notaryVars, sdk, invoices, tokens, phase, quotes, answers, req>>

InvoiceAges(i) ==
    /\ \/ phase[i] = "open"  /\ phase' = [phase EXCEPT ![i] = "grace"]
       \/ phase[i] = "grace" /\ phase' = [phase EXCEPT ![i] = "over"]
    /\ UNCHANGED <<notaryVars, sdk, invoices, tokens, paid, quotes, answers, req>>

TokenAges(i) ==
    /\ tokens[i] = "fresh" /\ tokens' = [tokens EXCEPT ![i] = "stale"]
    /\ UNCHANGED <<notaryVars, sdk, invoices, phase, paid, quotes, answers, req>>

\* The free queue, and the settlements of the timer and of the requests.
NotaryWorks == /\ \/ \E h \in Hashes : Take(h)
                  \/ \E S \in SUBSET queue, t \in Txs : Sign(S, t)
                  \/ \E t \in SignedTxs : Send(t) \/ GiveUp(t)
               /\ UNCHANGED <<sdk, moneyVars, req>>

\* Invoices and tokens are in memory only; the store of the notary is a file.
Crash == /\ CanCrash
         /\ sdk' = "none" /\ invoices' = {} /\ tokens' = [i \in Ids |-> "none"]
         /\ req' = [r \in Requests |-> Idle]
         /\ UNCHANGED <<notaryVars, phase, paid, quotes, answers>>

-----------------------------------------------------------------------------
Init == /\ NotaryInit
        /\ sdk = "none" /\ invoices = {} /\ paid = {}
        /\ tokens = [i \in Ids |-> "none"] /\ phase = [i \in Ids |-> "none"]
        /\ req = [r \in Requests |-> Idle]
        /\ quotes = [i \in Ids |-> {}] /\ answers = [i \in Ids |-> {}]

InvoiceStep(r) == \/ SdkCallFails(r) \/ InvoiceStart(r) \/ InvoiceReceive(r)
                  \/ \E i \in Ids : \E S \in Memos : InvoiceMade(r, i, S)

StatusStep(r) == \/ StatusGet(r) \/ StatusList(r)
                 \/ \E i \in Ids : StatusStart(r, i)

OpreturnStep(r) == \/ OpreturnAnswered(r) \/ OpreturnFails(r)
                   \/ \E h \in Hashes : \/ OpreturnAdmin(r, h)
                                        \/ \E i \in Ids : OpreturnPaid(r, i, h)

WorldStep(i) == \/ Pay(i) \/ InvoiceAges(i) \/ TokenAges(i)
                \/ \E h \in Hashes : OpreturnTooLate(i, h)

Next == \/ \E r \in Requests : InvoiceStep(r) \/ StatusStep(r) \/ OpreturnStep(r)
        \/ \E i \in Ids : WorldStep(i)
        \/ SdkConnects \/ SdkRejects \/ NotaryWorks \/ Crash

Spec == Init /\ [][Next]_vars

-----------------------------------------------------------------------------
(* What must hold.                                                         *)

Request ==
    [pc : {"idle", "invoice", "receive"}, id : {None}, hash : {None}, token : {FALSE}]
    \cup [pc : {"status", "list"}, id : Ids, hash : {None}, token : {FALSE}]
    \cup [pc : {"anchor"}, id : Ids, hash : Hashes, token : {TRUE}]
    \cup [pc : {"anchor"}, id : {None}, hash : Hashes, token : {FALSE}]

TypeOK == /\ queue \subseteq Hashes /\ sent \subseteq Txs
          /\ txOf \in [Hashes -> Txs \cup {NoTx}]
          /\ sdk \in {"none", "connecting", "ready", "failed"}
          /\ invoices \subseteq Ids /\ paid \subseteq Ids
          /\ tokens \in [Ids -> Ages] /\ phase \in [Ids -> Phases]
          /\ req \in [Requests -> Request]
          /\ quotes \in [Ids -> SUBSET Ids]
          /\ answers \in [Ids -> SUBSET Hashes]

\* An invoice buys one anchor: however often its status is asked for and its
\* token taken, given back and taken again, one hash is answered as anchored on
\* it (server.js: invoices, paidTokens, consumePaidToken, /api/opreturn).  A
\* payment is worth one such anchor for each invoice its description names.
PaidOnce == \A i \in Ids : \A h, g \in answers[i] : h = g

\* Where the server keeps the right to an anchor: as an invoice it may find
\* paid, as a token, or in a request that took the token.
InUse(i) == \E r \in Requests : req[r].token /\ req[r].id = i
InHand(i) == i \in invoices \/ tokens[i] # "none" \/ InUse(i)

\* No answer of the Lightning node and no settlement that fails costs the
\* customer the payment: it leaves the server's hands when it is used up, by
\* an answer, when its time is over, or in a restart.
PaymentKept ==
    [][\A i \in paid : InHand(i) /\ ~InHand(i)' =>
          \/ answers'[i] # answers[i]
          \/ phase[i] = "over" \/ tokens[i] = "stale"
          \/ Crash]_vars

\* Nothing without a payment: a token, a running anchor and an answer are of an
\* invoice that is named by the description of one the Lightning node lists as
\* paid (server.js, /api/ln/status), itself or one made later.
NothingUnpaid ==
    \A i \in Ids : tokens[i] # "none" \/ InUse(i) \/ answers[i] # {} =>
        \E p \in paid : i \in Names(p)
=============================================================================
