------------------------------ MODULE Service ------------------------------
(***************************************************************************)
(* The free service: the queue routes of the web server                    *)
(* (examples/webapp/server.js), the client library that calls them         *)
(* (client.js), and a program on top of it - the command line, the MCP     *)
(* tools - that submits hashes, waits for proofs and saves them.  The      *)
(* notary below is NotaryQueue, and answers in one turn of the event loop. *)
(*                                                                         *)
(* A definition no action uses (OneMore, SlotsInOrder, ...) is a           *)
(* mistake the properties must notice.                                     *)
(***************************************************************************)
EXTENDS NotaryQueue, Naturals, Sequences

CONSTANTS
    Coins,        \* what transactions spend: each makes its own txid
    None,         \* of a field that has no value
    Bad,          \* an item of a list that is no hash
    Lists,        \* the lists programs submit
    Chunk,        \* 100 in client.js: hashes in one request
    Ips, Us,      \* the addresses requests come from, and ours
    MaxPending,   \* MAX_PENDING
    Rate,         \* HASH_RATE_PER_MIN
    MaxTracked,   \* 50000: the addresses rateHits holds before it is cleared
    MaxPrograms,  \* bound: operations of our program in a behaviour
    CallsFail,    \* requests may be lost, or answered too late
    Claims        \* the transactions a server of other code names, if there is one

ASSUME LimitAssumption ==
    /\ Chunk \in Nat \ {0} /\ MaxPending \in Nat
    /\ Rate \in Nat \ {0} /\ MaxTracked \in Nat \ {0}
ASSUME ProgramAssumption == MaxPrograms \in Nat /\ Us \in Ips
ASSUME ListAssumption == Lists \subseteq Seq(Hashes \cup {Bad})

\* A transaction commits to the hashes of its batch, by their Merkle root.
Txs == [leaves : SUBSET Hashes \ {{}}, coin : Coins]

ASSUME ClaimAssumption == Claims \subseteq Txs
ASSUME NameAssumption == NoTx \notin Txs /\ None \notin Hashes \cup Txs /\ Bad \notin Hashes

VARIABLES
    mined,    \* the transactions that are in a block
    hits,     \* rateHits: requests of an address in its minute, 0 when over
    tracked,  \* the addresses rateHits has an entry of
    taken,    \* history: new hashes queued in the minute rateHits counts
    prog,     \* the program and the call of the client library it is in
    call,     \* the request the program waits for
    late,     \* requests it gave up that the server may still handle
    told,     \* history: the hashes the last program was told are accepted
    file,     \* the proof the last program returned or saved
    programs  \* operations started so far

limitVars == <<hits, tracked, taken>>
ourVars == <<prog, call, told, file, programs>>
vars == <<notaryVars, mined, limitVars, ourVars, late>>

-----------------------------------------------------------------------------
(* The server.                                                             *)

\* What a handler works on: the queue, the limits, and the results so far.
Now == [queue |-> queue, hits |-> hits, tracked |-> tracked, taken |-> taken,
        results |-> <<>>]

OverByOne(n) == n > Rate + 1
Over(n) == n > Rate

\* rateLimited: a new minute starts with a count of one; an entry too many
\* empties the whole map.
Hit(s, ip) ==
    IF s.hits[ip] # 0
    THEN [s EXCEPT !.hits[ip] = IF Over(@) THEN @ ELSE @ + 1]
    ELSE IF Cardinality(s.tracked \cup {ip}) > MaxTracked
    THEN [s EXCEPT !.hits = [i \in Ips |-> 0], !.taken = [i \in Ips |-> 0], !.tracked = {}]
    ELSE [s EXCEPT !.hits[ip] = 1, !.tracked = @ \cup {ip}]

OneMore(s) == Cardinality(s.queue) > MaxPending
Full(s) == Cardinality(s.queue) >= MaxPending

Result(h, out) == [item |-> h, out |-> out]

\* queueHash for a caller without the admin's key.
QueueHash(s, h, ip) ==
    LET t == Hit(s, ip)
    IN  IF h \in s.queue \/ txOf[h] # NoTx
        THEN [s EXCEPT !.results = Append(@, Result(h, "known"))]
        ELSE IF Over(t.hits[ip])
        THEN [t EXCEPT !.results = Append(@, Result(h, "limited"))]
        ELSE IF Full(t)
        THEN [t EXCEPT !.results = Append(@, Result(h, "full"))]
        ELSE [t EXCEPT !.queue = @ \cup {h},
                       !.taken[ip] = IF t.hits[ip] = 0 THEN 0 ELSE @ + 1,
                       !.results = Append(@, Result(h, "queued"))]

\* POST /api/notary/hashes, and the submitMany of the MCP route: one by one.
QueueAll(hs, ip) ==
    LET after[k \in 0..Len(hs)] ==
            IF k = 0 THEN Now ELSE QueueHash(after[k - 1], hs[k], ip)
    IN  after[Len(hs)]

Becomes(s) == /\ queue' = s.queue /\ hits' = s.hits /\ tracked' = s.tracked
              /\ taken' = s.taken /\ UNCHANGED <<txOf, sent, mined>>

\* getStatus, as GET /api/notary/proof answers it.
StatusOf(h) == IF txOf[h] # NoTx THEN "anchored"
               ELSE IF h \in queue THEN "pending" ELSE "unknown"

\* A record may come with a block: "stored" is one this server's code stored,
\* "claimed" one that other code answers, which the client cannot tell apart.
Answer(status, results, tx, block) ==
    [status |-> status, results |-> results, tx |-> tx, block |-> block]
Reports(status, results) == Answer(status, results, None, "none")

-----------------------------------------------------------------------------
(* The requests of the client library.                                     *)

NoCall == [kind |-> "none", items |-> <<>>, answer |-> Reports("none", <<>>)]
Sent(kind, items) == [NoCall EXCEPT !.kind = kind, !.items = items]
Unanswered == call.kind # "none" /\ call.answer.status = "none"
Answered(kind) == call.kind = kind /\ call.answer.status # "none"
Reply(answer) == call' = [call EXCEPT !.answer = answer]

ServerQueues ==
    /\ Unanswered /\ call.kind \in {"hashes", "hash"}
    /\ LET s == QueueAll(call.items, Us)
       IN  Becomes(s) /\ Reply(Reports("ok", s.results))
    /\ UNCHANGED <<prog, told, file, programs, late>>

\* An older server does not have the route: 404. The server may be replaced
\* between two requests, and the client looks at each answer.
ServerHasNoRoute ==
    /\ Unanswered /\ call.kind = "hashes"
    /\ Reply(Reports("noroute", <<>>))
    /\ UNCHANGED <<notaryVars, mined, limitVars, prog, told, file, programs, late>>

\* The store fails at an item: 500, and the items before it stay queued.
ServerFails ==
    /\ Unanswered /\ CallsFail
    /\ \E k \in 0..Len(call.items) :
          IF call.kind = "proof"
          THEN UNCHANGED <<notaryVars, mined, limitVars>>
          ELSE Becomes(QueueAll(SubSeq(call.items, 1, k), Us))
    /\ Reply(Reports("error", <<>>))
    /\ UNCHANGED <<prog, told, file, programs, late>>

\* The batch has its block once the host of the notary has called refreshStatus.
ServerReads ==
    /\ Unanswered /\ call.kind = "proof"
    /\ LET h == call.items[1]
       IN  \E block \in {"none"} \cup (IF txOf[h] \in mined THEN {"stored"} ELSE {}) :
              Reply(Answer(StatusOf(h), <<>>, txOf[h], block))
    /\ UNCHANGED <<notaryVars, mined, limitVars, prog, told, file, programs, late>>

\* The proof route of a server of other code, whatever it has done.
OtherServerReads ==
    /\ Unanswered /\ call.kind = "proof"
    /\ \E t \in Claims, block \in {"none", "claimed"} :
          Reply(Answer("anchored", <<>>, t, block))
    /\ UNCHANGED <<notaryVars, mined, limitVars, prog, told, file, programs, late>>

-----------------------------------------------------------------------------
(* The program.                                                            *)

Idle == [pc |-> "idle", op |-> "none", list |-> <<>>, at |-> 1, got |-> <<>>,
         results |-> <<>>, confirmed |-> FALSE, tx |-> None, expired |-> FALSE]

Ask(kind, items) == call' = Sent(kind, items)
NoFile == [hash |-> None, tx |-> None, block |-> "none"]
Starts(p) == /\ prog.pc = "idle" /\ programs < MaxPrograms
             /\ prog' = p
             /\ programs' = programs + 1
             /\ told' = {} /\ file' = NoFile
             /\ UNCHANGED <<notaryVars, mined, limitVars, late>>

\* What a program changes between two requests.
Local == UNCHANGED <<notaryVars, mined, limitVars, programs, late>>
Throw == prog' = Idle /\ UNCHANGED <<told, file>>
Hear == call' = NoCall

NoErrorSeen(r) == r.out # "invalid"
Accepted(r) == r.out \in {"known", "queued"}
AcceptedOf(results) == {results[k].item : k \in {j \in DOMAIN results : Accepted(results[j])}}

\* submit: one hash, an error for everything but an accepted one.
StartSubmit(h) == /\ Starts([Idle EXCEPT !.pc = "hear", !.op = "submit", !.list = <<h>>])
                  /\ Ask("hash", <<h>>)

SubmitHears == /\ prog.pc = "hear" /\ prog.op = "submit" /\ Answered("hash")
               /\ told' = told \cup AcceptedOf(call.answer.results)
               /\ prog' = Idle
               /\ Hear /\ Local /\ UNCHANGED file

\* submitMany: chunk after chunk, items that are no hashes left out of the
\* request and given their place in the results.
StartMany(list) == /\ Starts([Idle EXCEPT !.pc = "chunk", !.op = "many", !.list = list])
                   /\ UNCHANGED call

IsHash(item) == item \in Hashes

\* The hashes of a chunk, and for every item of it the place of its hash among
\* them, 0 when it is none.
Place(s, item) ==
    IF IsHash(item)
    THEN [valid |-> Append(s.valid, item), slot |-> Append(s.slot, Len(s.valid) + 1)]
    ELSE [valid |-> s.valid, slot |-> Append(s.slot, 0)]
Split(chunk) ==
    LET upTo[k \in 0..Len(chunk)] ==
            IF k = 0 THEN [valid |-> <<>>, slot |-> <<>>] ELSE Place(upTo[k - 1], chunk[k])
    IN  upTo[Len(chunk)]

ThisChunk == SubSeq(prog.list, prog.at,
                    IF prog.at + Chunk - 1 < Len(prog.list)
                    THEN prog.at + Chunk - 1 ELSE Len(prog.list))
Valid == Split(ThisChunk).valid

SlotsInOrder(got) ==
    [k \in DOMAIN ThisChunk |-> IF k \in DOMAIN got THEN got[k]
                                ELSE Result(ThisChunk[k], "invalid")]
Slots(got) ==
    LET slot == Split(ThisChunk).slot
    IN  [k \in DOMAIN ThisChunk |-> IF slot[k] # 0 THEN got[slot[k]]
                                    ELSE Result(ThisChunk[k], "invalid")]

NextChunk(got) ==
    LET results == prog.results \o Slots(got)
        over == prog.at + Chunk > Len(prog.list)
    IN  /\ prog' = [prog EXCEPT !.pc = IF over THEN "returned" ELSE "chunk",
                                !.at = @ + Chunk, !.got = <<>>, !.results = results]
        /\ told' = IF over THEN told \cup AcceptedOf(results) ELSE told
        /\ UNCHANGED file

ManyAsks == /\ prog.pc = "chunk" /\ Valid # <<>>
            /\ Ask("hashes", Valid)
            /\ prog' = [prog EXCEPT !.pc = "many"]
            /\ Local /\ UNCHANGED <<told, file>>

ManySkips == /\ prog.pc = "chunk" /\ Valid = <<>>
             /\ NextChunk(<<>>)
             /\ Local /\ UNCHANGED call

ManyHears == /\ prog.pc = "many" /\ Answered("hashes")
             /\ CASE call.answer.status = "ok"      -> NextChunk(call.answer.results)
                  [] call.answer.status = "error"   -> Throw
                  [] call.answer.status = "noroute" ->
                        prog' = [prog EXCEPT !.pc = "single"] /\ UNCHANGED <<told, file>>
             /\ Hear /\ Local

\* The server is older: one by one, an error of one kept as its result.
SingleAsks == /\ prog.pc = "single" /\ Len(prog.got) < Len(Valid)
              /\ Ask("hash", <<Valid[Len(prog.got) + 1]>>)
              /\ prog' = [prog EXCEPT !.pc = "one"]
              /\ Local /\ UNCHANGED <<told, file>>

Keep(result) == /\ prog' = [prog EXCEPT !.pc = "single", !.got = Append(@, result)]
                /\ UNCHANGED <<told, file>>

SingleHears == /\ prog.pc = "one" /\ Answered("hash")
               /\ Keep(IF call.answer.status = "ok" THEN call.answer.results[1]
                       ELSE Result(call.items[1], "failed"))
               /\ Hear /\ Local

SingleEnds == /\ prog.pc = "single" /\ Len(prog.got) = Len(Valid)
              /\ NextChunk(prog.got)
              /\ Local /\ UNCHANGED call

\* The caller takes the results.
ManyReturns == /\ prog.pc = "returned"
               /\ prog' = Idle
               /\ Local /\ UNCHANGED <<call, told, file>>

-----------------------------------------------------------------------------
(* waitForProof, and downloadProof with saveProof.                         *)

StartWait(h, confirmed) ==
    /\ Starts([Idle EXCEPT !.pc = "hear", !.op = "wait", !.list = <<h>>, !.confirmed = confirmed])
    /\ Ask("proof", <<h>>)

StartSave(h) == /\ Starts([Idle EXCEPT !.pc = "hear", !.op = "save", !.list = <<h>>])
                /\ Ask("proof", <<h>>)

\* The proof in the hands of the program, and where it has a block from: the
\* record of the server, or the "chain".
Got(tx, block) == /\ file' = [hash |-> prog.list[1], tx |-> tx, block |-> block]
                  /\ prog' = Idle
                  /\ UNCHANGED told

DeadlineIgnored == prog' = [prog EXCEPT !.pc = "sleep"] /\ UNCHANGED <<told, file>>
\* After a poll that was not enough: sleep, unless the time is over.
Deadline == IF prog.expired THEN Throw
            ELSE prog' = [prog EXCEPT !.pc = "sleep"] /\ UNCHANGED <<told, file>>

WaitHears == /\ prog.pc = "hear" /\ prog.op = "wait" /\ Answered("proof")
             /\ CASE call.answer.status \in {"unknown", "error"} -> Throw
                  [] call.answer.status = "pending" -> Deadline
                  [] call.answer.status = "anchored" ->
                        IF ~prog.confirmed THEN Got(call.answer.tx, call.answer.block)
                        ELSE /\ prog' = [prog EXCEPT !.pc = "verify", !.tx = call.answer.tx]
                             /\ UNCHANGED <<told, file>>
             /\ Hear /\ Local

\* A record that has a block is not verified.
SaveHears == /\ prog.pc = "hear" /\ prog.op = "save" /\ Answered("proof")
             /\ IF call.answer.status # "anchored" THEN Throw
                ELSE IF call.answer.block # "none" THEN Got(call.answer.tx, call.answer.block)
                ELSE /\ prog' = [prog EXCEPT !.pc = "verify", !.tx = call.answer.tx]
                     /\ UNCHANGED <<told, file>>
             /\ Hear /\ Local

BlockTrusted(tx) == tx \in sent
\* verifyProof against the chain, not the server: the transaction there has
\* the root of the proof, and is in a block.
InBlock(tx) == tx \in mined /\ prog.list[1] \in tx.leaves

WaitVerifies == /\ prog.pc = "verify" /\ prog.op = "wait"
                /\ IF InBlock(prog.tx) THEN Got(prog.tx, "chain") ELSE Deadline
                /\ Local /\ UNCHANGED call

SaveVerifies == /\ prog.pc = "verify" /\ prog.op = "save"
                /\ Got(prog.tx, IF InBlock(prog.tx) THEN "chain" ELSE "none")
                /\ Local /\ UNCHANGED call

\* The provider does not answer, and verifyProof throws.
VerifyFails == /\ prog.pc = "verify" /\ CallsFail
               /\ Throw
               /\ Local /\ UNCHANGED call

\* The sleep is over: the next poll.
Wakes == /\ prog.pc = "sleep"
         /\ Ask("proof", prog.list)
         /\ prog' = [prog EXCEPT !.pc = "hear"]
         /\ Local /\ UNCHANGED <<told, file>>

TimePasses == /\ prog.op = "wait" /\ ~prog.expired
              /\ prog' = [prog EXCEPT !.expired = TRUE]
              /\ Local /\ UNCHANGED <<call, told, file>>

\* The request is lost on its way or on its way back, or takes longer than
\* timeoutMs: the client gives it up, and the server may handle it yet.
TimesOut ==
    /\ CallsFail /\ call.kind # "none"
    /\ late' = IF Unanswered /\ call.kind \in {"hash", "hashes"} /\ late = {}
               THEN {call} ELSE late
    /\ IF prog.pc = "one" THEN Keep(Result(call.items[1], "failed")) ELSE Throw
    /\ Hear
    /\ UNCHANGED <<notaryVars, mined, limitVars, programs>>

LateHandled(c) ==
    /\ Becomes(QueueAll(c.items, Us))
    /\ late' = late \ {c}
    /\ UNCHANGED ourVars

-----------------------------------------------------------------------------
(* The rest of the world.                                                  *)

Outside == UNCHANGED <<ourVars, late>>

\* Other people submit hashes too, from other addresses or from ours.
OthersSubmit(h, ip) == Becomes(QueueAll(<<h>>, ip)) /\ Outside

\* The admin, and those who pay for an anchor, pass no limit.
AdminAdds(h) == Take(h) /\ UNCHANGED <<mined, limitVars>> /\ Outside

WindowEnds(ip) == /\ hits[ip] # 0
                  /\ hits' = [hits EXCEPT ![ip] = 0]
                  /\ taken' = [taken EXCEPT ![ip] = 0]
                  /\ UNCHANGED <<notaryVars, mined, tracked>> /\ Outside

\* The timer, the settle route and anchors at once: see module Notary.
NotarySettles == /\ \/ \E t \in Txs : /\ \A u \in sent : u.coin # t.coin
                                    /\ Sign(t.leaves, t)
                    \/ \E t \in SignedTxs : Send(t) \/ GiveUp(t)
                 /\ UNCHANGED <<mined, limitVars>> /\ Outside

BlockFound == /\ \E t \in sent \ mined : mined' = mined \cup {t}
              /\ UNCHANGED <<notaryVars, limitVars>> /\ Outside

-----------------------------------------------------------------------------
Init == /\ NotaryInit /\ mined = {}
        /\ hits = [i \in Ips |-> 0] /\ tracked = {} /\ taken = [i \in Ips |-> 0]
        /\ prog = Idle /\ call = NoCall /\ late = {} /\ told = {} /\ programs = 0
        /\ file = NoFile

ServerStep == \/ ServerQueues \/ ServerHasNoRoute \/ ServerFails
              \/ ServerReads \/ OtherServerReads

SubmitStep == \/ SubmitHears \/ ManyAsks \/ ManySkips \/ ManyHears
              \/ SingleAsks \/ SingleHears \/ SingleEnds \/ ManyReturns

ProofStep == \/ WaitHears \/ SaveHears \/ WaitVerifies \/ SaveVerifies
             \/ VerifyFails \/ Wakes

Begins == \/ \E h \in Hashes : \/ StartSubmit(h) \/ StartSave(h)
                               \/ \E c \in BOOLEAN : StartWait(h, c)
          \/ \E list \in Lists : StartMany(list)

WorldStep == \/ \E h \in Hashes : AdminAdds(h) \/ \E ip \in Ips : OthersSubmit(h, ip)
             \/ \E ip \in Ips : WindowEnds(ip)
             \/ NotarySettles \/ BlockFound

Next == \/ Begins \/ ServerStep \/ SubmitStep \/ ProofStep \/ TimePasses
        \/ TimesOut \/ (\E c \in late : LateHandled(c)) \/ WorldStep

Spec == Init /\ [][Next]_vars

\* A program goes on, the server answers what reaches it, and time passes.
FairSpec == Spec /\ WF_vars(ServerStep \/ SubmitStep \/ ProofStep) /\ WF_vars(TimePasses)

-----------------------------------------------------------------------------
(* What must hold.                                                         *)

Results == [item : Hashes \cup {Bad},
            out : {"known", "limited", "full", "queued", "invalid", "failed"}]

TypeOK == /\ queue \subseteq Hashes /\ mined \subseteq sent /\ sent \subseteq Txs
          /\ txOf \in [Hashes -> Txs \cup {NoTx}]
          /\ hits \in [Ips -> 0..(Rate + 1)] /\ tracked \subseteq Ips
          /\ \A ip \in Ips : taken[ip] <= hits[ip]
          /\ \A k \in DOMAIN prog.results : prog.results[k] \in Results
          /\ (call.kind # "none") = (prog.pc \in {"hear", "many", "one"})
          /\ told \subseteq Hashes /\ late \in SUBSET {c \in late : c.kind # "proof"}

\* submitMany answers each item in its place, whatever is wrong with others
\* and however the list is cut into requests (client.js: "one result per hash,
\* in the same order").
SlotsMatch ==
    /\ \A k \in DOMAIN prog.results : prog.results[k].item = prog.list[k]
    /\ prog.pc = "returned" => Len(prog.results) = Len(prog.list)

\* A hash the program was told is accepted is never unknown to the server
\* again: it waits or is in a batch, also after a rejected transaction.
AcceptedIsHeld == told \subseteq Held

\* In one minute an address adds no more new hashes than HASH_RATE_PER_MIN,
\* in single requests or in batches (server.js: "max new hashes per IP per
\* minute"), as long as the map of addresses is not emptied.
RateKept == \A ip \in Ips : taken[ip] <= Rate

\* No free request makes the queue longer than MAX_PENDING: what the admin,
\* a payment or a rejected batch put there counts, and the one that is late.
FreeQueueBounded ==
    [][queue \subseteq queue' /\ queue # queue' /\ <<hits, tracked>>' # <<hits, tracked>>
          => Cardinality(queue') <= MaxPending]_vars

\* A proof with a block the client read from the chain is one for good, whatever
\* the server answers: its transaction is in a block, and is the one this server
\* gives for the hash ever after.  So is one with a block this server stored; of
\* a block that other code claims nothing is said, and downloadProof keeps it.
BlockIsReal == file.block \in {"chain", "stored"} =>
                   file.tx \in mined /\ txOf[file.hash] = file.tx

\* No operation runs forever: every request ends, and a wait at its deadline.
ProgramsEnd == (prog.pc # "idle") ~> (prog.pc = "idle")

\* A proof handed out is of a transaction that is on the chain.
ProofIsSent == file.tx # None => file.tx \in sent
=============================================================================
