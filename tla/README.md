# BTCNotar in TLA+

BTCNotar anchors document hashes in the Bitcoin blockchain. A notary collects
hashes in a queue, puts a batch of them into a Merkle tree, sends one
transaction that carries the root, and hands out proofs; anybody can verify a
proof against the chain. This directory holds TLA+ modules of that program, the
TLC configurations that check them on small instances, and proofs that TLAPS
checks for every instance.

    tlc -workers 2 -config NotaryShipped.cfg MCNotary
    tlapm NotaryProofs.tla

Paths below are relative to `src/`; `notary.js`, `store.js`, `chain.js`,
`merkle.js`, `verify.js` and `bitcoin.js` are in `packages/btcnotar/src/`, and
`core.py` is `packages/python/src/btcnotar/core.py`.

## 1. The system

| component | state | operations | what is hard | what makes it correct |
|---|---|---|---|---|
| Notary (`notary.js`) | `_settleChain`, `_settling`, timer, the locals of running calls | `addHash`, `anchorNow`, `settle`, `settleIfDue`, `refreshStatus` | calls interleave at every `await`; broadcast answers are lost or wrong; a crash between two store operations | no hash it took is forgotten; a batch is saved before its transaction is sent and stays saved; no output of the address is spent by two batches; every queued hash is anchored in the end |
| Stores (`store.js`) | queue, batches under their root, index by hash; `FileStore`: a JSON file | `addPending`, `listPending`, `clearPending`, `saveBatch`, `deleteBatch`, `findBatchByHash` | restart from the file; two batches with one root; a failed write | the index leads to the batch that holds the hash; memory and file agree |
| Node and API (`chain.js`) | the chain, outside this program | `broadcastTx`, `fetchTransaction`, fees, UTXOs | timeouts, errors for transactions it took, stale answers | – |
| Transactions (`bitcoin.js`, `selectUtxo`) | the outputs of the address | pick an output, build, sign | dust and fee boundaries; fees that move while every transaction may be replaced; chains of unconfirmed transactions | value in = value out + fee, never dust; no batch replaces another |
| Merkle tree (`merkle.js`, `core.py`) | none | build, prove, verify | odd levels, repeated hashes, what an unknown proof may look like | every leaf has a proof; nothing else has one |
| OP_RETURN parsing (`chain.js`, `core.py`) | none | build, read | lengths cut short | what is written is read back; both libraries read the same |
| Verification (`verify.js`, `core.py`) | the record, across one `await` | `verifyProof` | the record comes from anybody; the chain moves on | what is valid was anchored; both libraries agree but for known exceptions |
| Light client (`client.js`), command line, MCP tools | the locals of one operation | submit one hash or a list in chunks, wait for a proof, save it | partial failure, a server without the batch route, a request given up that is handled later, a deadline | every result is that of its own item; what was accepted is held; a block read from the chain is that of the transaction; every operation ends |
| Web server, free queue (`examples/webapp/server.js`) | the map of the rate limit, `MAX_PENDING` | queue routes, MCP back end | limits read before an `await` and used after it; a map that is emptied when it is full | no address adds more than its limit; no free request makes the queue too long |
| Web server, payments | invoices, paid tokens, the connection to Lightning, running requests | invoice, status, `/api/opreturn` | polls that overlap, payments found by a text the client may write, anchors that fail after the token is taken, expiry, a restart | an invoice buys one anchor, and its payment is not lost while the server runs; nothing is anchored at once unless a payment names its invoice |
| Agents (`agents/`) | `WORKLOG.md`, `PLAN.md`, the working tree; in memory: failures in a row | two polling processes | a stop between two steps; a status read before a run and used after it; a human who edits | never both at work; nothing is committed unreviewed; both come to an end |
| Hashing, browser pages, types, CI | none of their own | – | – | – |

Callers, the web server and the MCP server call the notary. The notary alone
uses the store, and meets the node through a provider. Everything runs on one
Node.js event loop: code runs alone from one `await` to the next. The verifier
shares nothing with the notary but the chain and the proof record. The two agents
are processes of their own, which share files.

`PROJECT.json` lists each component with its state of work, and each hazard at
the line where it bites with the properties that watch it.

## 2. Modules

**`Notary`** is the notary object, its store, the node and the calls a host
has running. Each call is a record of its local variables with a program counter
`pc`; one action is one stretch between two awaits: one store operation, or one
meeting with the node, with all the code up to the next await. The actions
follow the source by name: `AddGetProof`, `AddListPending`, `AddPush` are
`addHash`; `SettleBegin`, `SettleCheck`, `SettleTake`, `SettleFund`,
`SettleSave`, `SettleClear` are `_settle`; `BroadcastSend` to `BroadcastMark`
are `_broadcastBatch`; `ResumeNext`, `ResumeEnd` are `_resumeSigned`; `Due...`
is `settleIfDue`; `Refresh...` is `refreshStatus`; `Crash` stops the process
and loads the file.

- `pending`, `saved`, `index` are the store, `built` the batch objects:
  JavaScript shares objects by reference, so a status set on one is seen through the
  store at once (`BroadcastMark`, `RefreshFound`), and `saved` holds their
  numbers.
- `chainQ` is `_settleChain`, `settling` the flag of `settleIfDue`. A call is in
  `chainQ` from `settle()` until its settlement ends, however it ends.
- `chain[k + 1]` is the root carried by the transaction that spends output `k` of our
  address: the change of one transaction pays for the next, so the outputs form a
  line. A transaction can be taken only when its output is the last of the line.
- `StoreYields` tells two environments apart. `FALSE`: the stores of `store.js` resolve
  at once, so the microtasks of one call run to its next network wait before
  another I/O event starts a call (`Quiet`). `TRUE`: a database, or calls
  started together in one tick, where any call may run at every await.
- `NetFails`, `HttpErrors`, `LookupFails`, `CanCrash` switch on what may go wrong.

**`NotaryQueue`** is the notary as everybody else sees it: the hashes that wait, the
transaction each other hash is assigned to, the transactions the node took, and
four steps - `Take`, `Sign`, `Send`, `GiveUp`. `Notary!QueueKept` states that
Notary implements it; TLC checks it and `QueueRefines` proves it. The mapping hides the calls: `queue` is what is queued or
being put back and has no batch, `txOf` the transaction of the batch
`findBatchByHash` gives, `sent` the chain. **`NotaryPromise`** is less still,
what a caller may rely on for a hash: once taken it is held for ever, and once
anchored it stays anchored. That `NotaryQueue` implements it is a theorem. So
the refinement has three levels: Notary, NotaryQueue, NotaryPromise.

**`Wallet`** is the money of a settlement. `SettleFee`, `SettleUtxos` and
`SettleSign` are the middle of `_settle` with `selectUtxo` (`SelectUtxo`) and
`createOpReturnTx` (`Change`), `Send...` is `_broadcastBatch`. A transaction has
its input, fee, change and the status of its batch. The node is part of the
module: a mempool which refuses a transaction without the relay fee, with a dust
output, that spends what is gone, or behind too many others no block has; which
replaces transactions by one that spends the same output and pays more (every
transaction of the notary allows it, `bitcoin.js:15`); and which may drop one.
Deposits come, blocks come, and the owner may raise a fee, as the README of the
library says one can.

**`Payments`** is the paid side of the web server on top of `NotaryQueue`: one action per
stretch of a handler between two awaits that leave the process (`InvoiceStart`,
`InvoiceReceive`, `InvoiceMade`; `StatusStart`, `StatusGet`, `StatusList`;
`Opreturn...`), with the one promise of `getSdk`, the maps `invoices` and
`paidTokens`, the two expiry times, and a restart that forgets both maps. The server
finds a payment by the text `id:<checkingId>` anywhere in its description, and the
description begins with the client's memo: `quotes` has the ids the memo of an
invoice repeats, `Names` all ids in its description, and `Found` is the search.

**`Service`** composes the queue routes of the web server, the client library and a
program on it, on top of `NotaryQueue`. `prog` is the program and the client call it
is in, `call` its request; `QueueHash` is the handler of one hash with the
rate limit (`Hit`) and the limit of the queue (`Full`). A request may be lost,
fail at the store half way (`ServerFails`), meet a server without the batch route
(`ServerHasNoRoute`), or be given up and handled later (`late`). A client need not
trust its server: `OtherServerReads` is one of other code, which answers a request for a
proof with any transaction of `Claims` and may add a block. `SaveHears` follows
`client.js:172`: a record with a block is written as it came, one without is verified
against the chain. `file.block` says where a block was read. The command
line's `submit`, `wait` and `save`, the MCP tools and the Python `submit_many` are
the programs.

**`Agents`** is the developer and the reviewer: each a poll with its local
variables, one action per file operation or run of Claude Code. `status`, `plan`
and `tree` are `WORKLOG.md`, `PLAN.md` and the working tree. Either may be stopped at any
step and started again; a human takes the BLOCKED line away or edits the plan.

**`Merkle`** has the tree level by level, its proofs and their verification as
recursive functions over sequences, and beside them the tree and the audit paths of
RFC 6962, defined from the top (`SplitAt`, `Subtrees`, `AuditPath`). **`Script`** has the two OP_RETURN parsers and the
builder, byte by byte. **`ProofCheck`** puts them to work: batches are
settled, others publish OP_RETURN outputs, alone or before or after an anchor,
transactions are dropped, and a verifier is handed a hash and a record put together
from parts of any batches (`HandedOver`), with a step lost, turned around, or given a
position that neither library knows. `JsVerdict` and `PyVerdict` are what the two
libraries say of such a record on the chain of the moment.

The `MC` modules add the symmetry sets, and the values of constants that a
configuration cannot write. The **`Proofs`** modules have the theorems. In every
module a definition no action uses (such as `PreviousIgnored` before
`PreviousUnsent`) is a plausible mistake in the one after it; the project checks
that each property fails when it is made.

### What is abstracted

- A root is the set of leaves with their places: SHA-256 is taken to be
  one-to-one. So it is in `Merkle`, where a hash is the term it was computed from.
- In `Notary` a transaction is its root and the output it spends; signing is
  deterministic (`bitcoin.js`), so these two make its id. Fees and values are in
  `Wallet`; a transaction without a usable output is `SettleFundFails`.
- In `Notary` a transaction once on `chain` is not dropped or replaced; that is
  the subject of `Wallet`, which in turn leaves out what a batch holds.
- A listing of unspent outputs is that of the node when it answers; more may
  happen before the answer is used (`Wallet`).
- `FileStore` changes memory and file in one step. The order of batches in the
  file is not kept, so after a crash the index picks any batch that holds the hash.
- In `Payments` and `Service` the notary answers within one turn of the event
  loop: the server uses `FileStore`, which resolves at once. What a store that
  yields does is in `Notary`.
- In `Service` a batch of the server commits to its hashes as a set, the minute of
  the rate limit ends at any time, and one late request is kept. A program is
  started in whatever state other submitters have left.
- In `Agents` a run of Claude Code ends, with success or not and with any verdict;
  a commit may fail. The text of the reports is left out.
- The answer of a lookup is that of the moment it is handled, or a failure. An
  answer that is overtaken on its way back is not told apart from a failed one.
- Times are left out: a queue may be due whenever it is not empty.
- In `ProofCheck` a block is not told from the mempool, a transaction is either
  known or gone. Malformed hex, missing fields and the letter case of a root
  are left out; a missing position counts as one of the unknown texts, as in both
  libraries.
- In `Service` a server of other code differs in its answers about proofs only.

## 3. Runs

| run | configuration | what it asks |
|---|---|---|
| `notary_shipped` | `NotaryShipped` | A request-driven server with the stores of `store.js`: overlapping `addHash`, `anchorNow`, `settle`, `refreshStatus` against a node that loses requests and answers with errors. Types, `SentIsSaved`, `SpentOnce`, `InOnePlace`, `FreshIsSent`, and the refinement `QueueKept`. |
| `notary_restart` | `NotaryRestart` | The process stops at any point and starts from its file, its timer runs beside manual settlements, requests get lost: `AtMostOneSigned`, `SettlesAlone`, `SpentOnce`, `RootIsSaved`, `CustodyKept`. |
| `notary_live` | `NotaryLive` | Under fairness every queued hash is anchored (`EventuallyAnchored`) and every call ends (`CallsEnd`), although requests fail. |
| `wallet` | `Wallet` | Settlement after settlement while fees move and answers get lost. Amounts add up (`TypeOK`), a batch that was sent is never replaced by another (`SentStays`), one is given up only for too long a chain (`RefusedForChain`), and every batch ends in a block, is given up, or was lost outside the program (`MinedInTheEnd`). |
| `proof_check` | `ProofCheck` | `TreesAreRFC6962`, `ProofsHold`, `ValidIsAnchored`, and the two libraries side by side: `ParsersAgree`, `PushReadsBack`, `VerdictsAgree`. |
| `payments` | `Payments` | Requests for anchors race each other, expiry, failing settlements, a Lightning node that fails, memos that repeat ids, and restarts: `PaidOnce`, `NothingUnpaid`, `PaymentKept`. |
| `service` | `Service` | A list with repeated and malformed items in chunks, waiting and saving, against the limits and a server whose records may be false: `SlotsMatch`, `AcceptedIsHeld`, `RateKept`, `FreeQueueBounded`, `BlockIsReal`, `ProgramsEnd`. |
| `agents` | `Agents` | Two tasks with failing runs, crashes, a human: `OneAtWork`, `CommittedIsReviewed`, `MarkedIsApproved`, `FreshStart`, and `AgentsStop`: both come to an end. |

Four more runs show where the code does something else than its own comments or
documents say; TLC prints the behaviour.

| run | property | what happens |
|---|---|---|
| `notary_crash_forgets` | `CustodyKept` | `notary.js:186` removes a rejected batch, `:187` puts its entries back one by one: a crash in between forgets hashes. |
| `notary_timer_race` | `SpentOnce` | `settleIfDue` resends outside `_settleChain` (`notary.js:235`): one call gives a batch up while another saves it as sent, and the hashes get a second batch that spends the same output. |
| `payments_twice` | `PaidOnce` | Two polls of one paid invoice overlap: both read it before the await (`server.js:232`), and the second grants the token again (`:261`) after the first was used. |
| `service_unsent_proof` | `ProofIsSent` | `getStatus` says anchored of a batch that is only signed (`notary.js:297`), and `waitForProof` returns that proof (`client.js:144`) although the broadcast failed. |

These explain which switches the passing runs leave off. `notary_shipped` keeps
lookups working; `notary_restart` has no HTTP errors for valid transactions, as a
rejection followed by a crash is the first finding; `payments` has no two
polls of one invoice at the same time. More differences were met while modelling, and
have no run:

- `notary.js:183` takes a lookup that fails for an unknown transaction: with
  `LookupFails = TRUE` in `NotaryShipped.cfg` TLC shows `SentIsSaved` violated, the
  batch of a transaction on the chain is removed.
- `addHash` looks at the queue and pushes in different turns (`notary.js:78-81`):
  with a store that yields (`StoreYields = TRUE` in `NotaryShipped.cfg`), or two calls
  started in one tick, a hash is queued twice, and TLC shows `InOnePlace` violated.
- `merkle.js:115` takes any position but "left" for "right", where `spec/SPEC.md:60`
  says "Any error (bad hex, unknown position) means `valid = false`" and `core.py:112`
  refuses it: a record whose "right" was changed into any other text is valid in one
  library and not in the other. The pseudocode of `SPEC.md` itself says "else", as
  `merkle.js` does. `ValidIsAnchored` and `VerdictsAgree` state exactly this much.
- `chain.js:41,44` throw on a length cut short where the comment promises null: the
  other exception in `VerdictsAgree`.
- A payment is found by `desc.includes("id:<checkingId>")` (`server.js:244,253`), and the
  description begins with the client's memo of up to 120 characters (`:184-185`), room
  for three ids. One payment thus grants every invoice that its description names,
  where `server.js:291` says "One tx per payment": `PaidOnce` holds for each invoice,
  and `NothingUnpaid` says of which payment it was.
- `downloadProof` writes the block of a record that has one without a look at the chain
  (`client.js:172`), where `spec/SPEC.md:151` says "A client must not trust the server":
  `BlockIsReal` leaves out blocks that a server of other code claims.
- A transaction the node drops, or whose fee the owner raises
  (`packages/btcnotar/README.md:304`), leaves a batch marked broadcast whose txid will
  never confirm: nothing sends it again or looks for its replacement
  (`notary.js:307-318`). `Wallet` counts these as `lost`.
- When an anchor fails the token is given back (`server.js:319`), but the hash stays
  in the queue and is anchored later without it: with the token used again, one payment
  has paid for two anchors. `PaidOnce` counts answers.
- A task that is taken out of `PLAN.md` renumbers the others (`lib.js:72`): after
  an edit a review may mark another task. `MarkedIsApproved` and `AgentsStop`
  leave edits out; `OneAtWork` and `CommittedIsReviewed` hold with them.
- After a crash between `saveBatch` and `clearPending` the same entries make a second
  batch with the same root, and its record replaces the first one: the first
  transaction then has no record of its own, but its root has one, so restarts
  keep `RootIsSaved` and not `SentIsSaved`.

### Bounds

`notary_...`: two calls run at once, two hashes, two or three requests (`MaxRequests`)
and two or three signed transactions (`MaxBuilt`). Every race found here is one of two
calls: they share state only through the store, `chainQ` and `settling`, and a third
settlement only waits behind the second. Two hashes tell a batch with one leaf
from one with two, and a hash of the batch from another. With three transactions a
batch can be rejected, made again and followed by another. Calls that end are
started anew without a limit, except for requests, whose number names their
entries. `SettleFund` stops at `MaxBuilt`; from then on funding fails, which the
code treats as any failed settlement.

`wallet`: two deposits and rates of 1, 7 and 10 (the fallback of `chain.js:124`), so
that a fee of 160 leaves change above the dust limit, one of 1120 takes all of the
small deposit, and one of 1600 is more than it has; three transactions, chains of two
(25 in Bitcoin Core), one loss. The third transaction then meets the limit of the chain, and
the change of a change.

`proof_check`: `MaxWork` bounds leaves plus twice the bytes of scripts: batches
of up to six leaves in up to two transactions (`MaxTx`), which gives odd levels at
one, two and three heights, and hashes queued twice; scripts up to three bytes beside an
anchor, and of up to four (`MaxBytes`) on an empty chain, over an opcode that pushes
nothing, a direct push and the three length prefixes. A four-byte length is only
met cut short. `PushReadsBack` adds data of 36, 75, 76 and 80 bytes. `ShortScript` (36
bytes) keeps a script of others too short to hold the push of a root, which `Read`
relies on; the run's scripts are shorter anyway, the proofs need it for any.
`Positions` has "left", "right" and one other text, which stands for all others.
226,622 states; `VerdictsAgree` is looked at wherever no check has begun, for all
that may be handed over there.

`payments`: two invoices, two hashes, two transactions, two running requests: enough for
a token to be taken, given back and taken again while the other request uses it; a
memo repeats at most three ids (`MemoIds`, what 120 characters hold), here the one
invoice made before. 227,908 states.
`service`: one program on a list of five items in chunks of two (100 in the code), so that
a chunk mixes what is a hash with what is not, one is without any, and a hash
comes twice; limits of one, so that each is met at once; another address, to fill
the queue and the map of the rate limit; two transactions, so that one can be given up;
`Claims` has one transaction of the first hash alone and one of both, sent or not. 469,783 states.
`agents`: two tasks, two rounds, two failures, two crashes, a human who unblocks once
and edits once.

Hashes, calls, requests and invoices are interchangeable, so those sets are
symmetric; no run with a liveness property uses symmetry. `CHECK_DEADLOCK FALSE`
stands only for `proof_check`, where the bounds end the behaviour, and `agents`,
which stop when all is done.

### Fairness

Each `FairSpec` asks what the runtime gives, and nothing of users.

- `Notary`: Node.js serves every event that is ready, so a call that can go on again
  and again does (`Continue`, strong fairness since `Quiet` comes and goes).
  `start()` sets an interval that fires for ever, so `StartDue` is taken again and
  again, and an entry gets old, so a queue that stays is due in the end
  (`DueSettles`). The node need not answer any single request: a request made again
  and again is answered some day (`Answered`), and fees and unspent outputs are some
  day listed (`SettleFund`). `NotaryLive` has no HTTP errors for valid transactions: a
  node that rejects every valid transaction for ever anchors nothing.
- `Wallet`: the timer settles again and again (weak fairness of a settlement's
  steps), a broadcast repeated for ever is heard some day (strong fairness), and a
  block takes what stays in the mempool.
- `Service`: the program's next step, and the server's answer to what reaches it; time
  passes. A request may still be lost: `timeoutMs` ends it.
- `Agents`: each process goes on polling and is started again after a crash, and
  a run ends (`RUN_TIMEOUT_MS`).

## 4. Proofs

Every theorem holds for any number of calls, hashes, requests, items and so on: all
values of the constants that meet the assumptions of the module. Where one needs
more, it says so itself (`ASSUME ... PROVE`), and the table names it.

| module | theorems | beyond the module's assumptions |
|---|---|---|
| `NotaryProofs` | `TypeCorrect`, `OneSigned` (`AtMostOneSigned`), `Alone` (`SettlesAlone`) | nothing |
| `NotarySpendProofs` | `FreshProofs` (`FreshIsSent`) | `~StoreYields` |
| | `SpendsOnce` (`SpentOnce`) | `SerialSends` |
| | `RootsAreSaved` (`RootIsSaved`) | `GivesUpNever` |
| `NotaryPlaceProofs` | `OnePlace` (`InOnePlace`), `SentAreSaved` (`SentIsSaved`), `QueueRefines` (`QueueKept`) | `PlaceHyp` |
| | `CustodyIsKept` (`CustodyKept`) | `CustodyHyp` |
| `WalletProofs` | `TypeCorrect`, `StaysSent` (`SentStays`), `RefusesForChain` (`RefusedForChain`) | nothing |
| `PaymentsProofs` | `QueueKeepsPromise` (of `NotaryQueue`) | nothing |
| | `TypeCorrect`, `PaysOnce` (`PaidOnce`), `KeepsPayment` (`PaymentKept`), `NothingFree` (`NothingUnpaid`) | `~PollsOverlap` |
| `ServiceProofs` | `TypeCorrect`, `RateIsKept` (`RateKept`), `SlotsAreRight` (`SlotsMatch`), `AcceptedAreHeld` (`AcceptedIsHeld`), `BlocksAreReal` (`BlockIsReal`), `QueueStaysBounded` (`FreeQueueBounded`) | nothing |
| `AgentsProofs` | `TypeCorrect`, `TakeTurns` (`OneAtWork`), `CommitsReviewed` (`CommittedIsReviewed`), `MarksApproved` (`MarkedIsApproved`), `StartsFresh` (`FreshStart`) | nothing |
| `ProofCheckProofs` | `TypeCorrect`, `BuildsRFC6962` (`TreesAreRFC6962`), `SavedProofsHold` (`ProofsHold`), `OnlyAnchoredIsValid` (`ValidIsAnchored`), `ParsersRead` (`ParsersAgree`), `AnchorsReadBack` (`PushReadsBack`), `SameVerdicts` (`VerdictsAgree`) | nothing |

### The notary: who settles

The theorems of `NotaryProofs` hold for every choice of `Ops` and of the switches. All
follow from one inductive invariant, `IInv == TypeInv /\ ChainInv /\ SignInv`.

- `TypeOK` is not inductive. A root has numbers for places only because queues are finite, and
  the status of `built[cur]` is written only if `cur` exists at that
  `pc`; `TypeInv` adds both.
- `SettlesAlone` needs to know who may be past the start of a settlement.
  `ChainInv` says that a call is in `chainQ` at most once, that the calls behind the
  first have not begun, and that a call past its start, or sending the batch it
  made itself, is the first. The timer resends outside the chain, which is why
  sending alone says nothing and the field `own` is in the invariant.
- `AtMostOneSigned` is broken by a save unless nothing is signed at that moment.
  `SignInv` adds that from the check to the save nothing is signed: other
  settlements cannot be there (`ChainInv`), and no other action makes a
  batch signed.

### The notary: what is sent

`NotarySpendProofs` first says for each action how the call moves and what the
others may see of it, then what the node knows. `NodeInv` needs nothing of the
switches: a batch that is not "signed" is on the chain, and a call about to mark one
knows that its transaction is there. `FinalInv` is why `anchorNow` hands out proofs
of sent transactions only: a settlement returns to it when nothing signed is
left, and nothing can be signed before it looks its hash up. The last part is
what a store that yields breaks: another settlement saves in between, and TLC shows
`FreshIsSent` violated.

`SpentOnce` and `RootIsSaved` do not hold without a hypothesis, and the runs
`notary_timer_race` and `notary_crash_forgets` show why.

- `SerialSends`: either there is no timer, and the settlements in `_settleChain` are all that
  sends; or the node answers valid transactions without errors and nobody calls
  `refreshStatus`. A program that settles on request, with no `start()`, is the first
  case. The web server is in the second as long as its node behaves: it runs the timer
  (`server.js:147`) and never refreshes. `SpendInv` says that what is signed is on the
  chain or spends the next output (`Fits`), whatever the node answered, and
  that a sender outside `_settleChain` only holds what is sent or signed.
- `GivesUpNever`: a valid transaction is never rejected, and timer and `refreshStatus` are
  not used together. `KeepInv` says that every root on the chain or about to be
  sent is that of a saved batch, and that no call comes to the part that gives up.
  It holds through crashes, since a batch is saved before it is sent.

With timer and `refreshStatus` together `SpentOnce` fails even with a node that
never rejects: after a restart has made a second batch with the same root,
`refreshStatus` saves the first one over it while the timer still sends the second.

### The notary: where a hash is

`NotaryPlaceProofs` assumes `PlaceHyp`: the stores of `store.js`, which resolve at
once, a process that does not stop, lookups that know what is known, and
`SerialSends`. That is a server with `FileStore` or `MemoryStore` between two
restarts, under the same choice as above; `notary_restart` and the findings are about
what lies outside. The invariant has four parts.

- `Mutex`: with a store that does not yield, one call at a time is between two
  network waits. Two calls never see the store half changed.
- `IdsInv`: the number of a request names one entry, wherever the entry is: in the
  queue, in the hands of a call, or about to be pushed. Without it an entry put back
  could be taken for another.
- `PlaceInv`: the queue has an entry per hash; no hash is in two saved batches; the index
  leads to the batch; a hash is both queued and saved only while a call is between
  `saveBatch` and `clearPending`; and whatever a call is about to push, save, clear,
  delete or put back is where it was when the call looked. A call may hold a batch
  object the store has replaced by another for the same transaction (`Twin`), which
  is why the invariant speaks of roots and outputs and not of objects.
- `MapOK`: the values of the refinement mapping. `TxOf` is a `CHOOSE`, so each action
  needs that what it chooses from has one element, before and after.

`QueueRefines` then takes each action to `Take`, `Sign`, `Send`, `GiveUp` or a
stutter: a push is `Take`, `SettleSave` is `Sign`, a `BroadcastSend` the node takes is
`Send`, `BroadcastDelete` is `GiveUp`, and nothing else shows outside. What
`SettleClear` takes from the queue and `BroadcastRequeue` puts back there is
invisible, since the mapping looks at both places. `NoTxAssumption` of `Notary` says
that the value for "no transaction" is none.

`CustodyIsKept` needs less: either `GivesUpNever`, through any crashes and with any
store; or a process that does not stop, with the timer left out or the stores of
`store.js`. `CustInv` says that what a batch that is given up puts back is all it was
made of (`Full`): a batch keeps the entries it was made of until it is marked as
sent (`notary.js:192-193`), and then the node has its transaction and nothing gives it up.

`PaymentsProofs`, which extends `NotaryQueue` with `Payments`, first proves
`QueueKeepsPromise`: `NotarySpec => Promise!Spec`, for any hashes and transactions. Its
invariant is that only hashes wait or have a transaction, that none that waits has one,
and that nothing unsigned is sent: `Sign` would take it from its batch. With
`QueueRefines` it carries `NotaryPromise` down to the code's own steps.

### The wallet

`WalletProofs` proves, for any deposits, fee rates and limits:

- `TypeCorrect`: amounts are natural numbers and each transaction pays out what
  it takes in, raised fees included.
- `StaysSent`: `Spec => []SentStays`.
- `RefusesForChain`: `Spec => RefusedForChain`.

`SentStays` says nothing of what a broadcast replaces. The invariant adds that what a
settlement chooses from stays unspent until it signs (`Unspent`: only the owner's
replacement adds a spender, and it spends what is spent already), that after a
signed transaction comes no batch, and that only later ones spend its input
(`LastSigned`). A transaction depends only on earlier ones (`Chained`), so all that a
signed one replaces is later than it, and no batch. While nothing is lost it
replaces nothing at all, and the node can refuse only for the chain.

### The payments

`PaymentsProofs` assumes that polls of one invoice do not overlap
(`~PollsOverlap`; without it the first theorem is false, see `payments_twice`), lets
memos repeat any ids of earlier invoices, and
proves for any number of invoices, hashes and requests `PaysOnce` (`PaidOnce`),
`KeepsPayment` (`PaymentKept`), `NothingFree` (`NothingUnpaid`) and `TypeCorrect`. The
invariant is that the right to an anchor is in one place at a time (`OnePlace`): an invoice
not seen paid, a token, or one request that took it; and once it has been
answered it is in none. `OnePoll` says that
one request at most polls an invoice, and that it finds it where it looked.

### The queue routes and the client

`ServiceProofs` assumes nothing beyond the module. Its invariant is
`ServiceInv == BatchesOK /\ LimitsOK /\ FileOK /\ AnswerOK /\ ClientOK`.

- `BatchesOK`: a hash waits or has a transaction, and a sent transaction has
  its own hashes, so that `NotaryQueue`'s `Sign` cannot move one of them.
- `LimitsOK`: what an address added in this minute is at most what `rateHits` counts for
  it, and never more than the limit. An address whose entry goes with an emptied map
  (`server.js:123`) starts its minute anew, and `RateKept` counts from there.
- `ClientOK`: what a request under way asks for is the part of the list its program is
  at; an answer has one result per hash in the order of the request; the results so
  far are those of the items before; and what any of them calls accepted is held
  now, not only when the answer was given. `told` grows from answers alone.
- `FileOK`: what a program holds with a block of the chain, or one that this server
  stored, is of a mined transaction that has the hash. A record on its way with a stored
  block is so too, until it is heard (`AnswerOK`), since mined transactions stay and
  keep their hashes (`BlocksStay`). `Claims` may be any transactions: those records are
  verified, or keep a block of which nothing is said.

`SlotsMatch` and `RateKept` are about lists that a loop handles item by item
(`QueueAll`, `Split`, a recursive function each). What such a function returns is
shown along `0..n`: of the numbers for which a statement fails none is least
(`Least`, from `WFMin` of the library; `UpTo`). That the recursive equation has a
solution is part of the proof (`QueueAllRuns`, `SplitRuns`): the function is built up
to each `n`. `Split` is the loop of `submitMany` with its two arrays in step
(`client.js:81-89`): the slot of a valid item is its number in the request.

### The agents

`AgentsProofs` proves for any plan, any limits and any number of crashes and edits
`TakeTurns` (`OneAtWork`), `CommitsReviewed` (`CommittedIsReviewed`), `MarksApproved`
(`MarkedIsApproved`), `StartsFresh` (`FreshStart`) and `TypeCorrect`. None of the four
is inductive: each agent acts on a status it read earlier. The invariant says
for each `pc` of an agent which statuses the file can have by then, that the
other is not at a step which writes, and what the tree holds at each
(`DevTurns`, `RevTurns`, `Trees`, `Marks`).

### Trees, proofs and scripts

`ProofCheckProofs` proves all that `proof_check` checks, for batches of any size, any
hashes handed over, any texts as positions, and any number of transactions. The module
assumes only that bytes are bytes. `SameVerdicts` has `AllSame` beside `VerdictsAgree`: the
verdicts on any two values as hash and record, not only those that `HandedOver` makes.

The functions of `Merkle` and `Script` are recursive functions, which the provers do not
unfold by themselves. Each gets a lemma that the recursion has a solution
(`SubtreeRows`, `LayerRuns`, `WalkRuns`, `ClimbRuns`, `RestRuns`: built up place by
place, as in `ServiceProofs`), and what holds of it is shown along its places
(`UpTo`; `FromTheEnd` for scripts, which are read from the last push backwards).

- The tree: `IsLevel` says that in each layer node `j` is the RFC 6962 hash of the leaves from
  place `f[j]` on, `s` of them, or what is left for the last node. `Pairs` doubles `s` and
  keeps every second start (`LevelUp`). What makes it work is `SplitAt`: for
  a width between `s` and `2 * s` it is `s` when `s` is a power of two
  (`SplitInside`), so that a pair is split where RFC 6962 splits, and a lone
  last node is the subtree it already was. At the top one node covers all leaves.
- The proof: `IsPlace` follows `getProof` up the same levels: the steps so far are the
  audit path in the subtree the walk has reached (`PlaceUp`), which gives the second
  half of `TreeIsReference`.
- Completeness (`ProofLeadsToRoot`): at each level the steps so far lead from the leaf
  to the node of the walk (`ClimbsLayer`).
- Soundness (`OnlyLeavesProved`): what leads to a node of a layer came through one of the
  layer below, by the step `getProof` takes from there (`OnlyStepUp`), down to the
  leaves, where only the leaf of the same hash is left. It is about proofs with known
  positions; `merkle.js` climbs along any other as along the one it reads in it
  (`ClimbsAsRead`), which is the proof `ValidIsAnchored` speaks of. It rests on hash values being terms: leaf
  and node differ by their prefix (`LeafNotNode`), and nodes by their children
  (`NodeOnly`). That is SHA-256 without collisions, and the reason for the two prefix
  bytes of `hashLeaf` and `hashNode`.
- The parsers: `PushesAgree` compares the two from the last place of a script to the first. They
  part only where an opcode of two or four length bytes is cut short.
  `BuiltReadsBack` follows the one push of a script that was built.
- The invariant `IInv == TypeOK /\ CheckOK` has the rest. `TypeOK` says that every batch is what
  `BuildLayers` and `GetProof` make of its hashes, and every output the root of such a
  batch or a script. `CheckOK` says what a verification knows after its first await:
  the proof led to the root, the root is that of a batch, the proof is a list of steps; and of a
  verdict "valid", that the transaction carries the root. `ValidIsAnchored` alone
  forgets that while the verifier waits.

### What is only model-checked

- Liveness under fairness stays with TLC: `EventuallyAnchored`, `CallsEnd`,
  `MinedInTheEnd`, `ProgramsEnd`, `AgentsStop`. The prover has no rules for `ENABLED`.
- Every safety property of the passing runs has a theorem. Where the theorem has a
  hypothesis and the run does not meet it, the run alone speaks.

Outside the hypotheses of the table nothing is claimed. Where a run or a difference
listed in section 3 lies there, it shows the property violated: a timer beside a
node that rejects, a rejection followed by a crash, a lookup that fails, a store that
yields, polls that overlap.

## 5. Not modelled, and what is left

Not modelled: a write of `FileStore` that fails after memory changed, and several
processes on one file (`store.js:62` rules them out); a listing of outputs that is
behind the node; proof files as a format, records that are malformed in another way than a
position; the routes, tools and
commands that only read; hashing of files (hashes are opaque); pages, type
declarations, test vectors and CI. The last four keep no state of the system.

Left to do, in this order:

1. `FileStore` with memory and file apart: what a caller who was told of an error
   may find after a restart.
2. A listing that is behind the node in `Wallet`, once the code has a rule for it.
