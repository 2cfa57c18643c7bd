----------------------------- MODULE ProofCheck -----------------------------
(***************************************************************************)
(* Verification without trust in a server: batches are anchored, somebody   *)
(* hands over a hash with a proof record, and verifyProof of               *)
(* packages/btcnotar/src/verify.js says whether the chain proves it.  The   *)
(* record need not be one a notary made.  The chain moves on while the     *)
(* verifier waits for the transaction.                                     *)
(***************************************************************************)
EXTENDS Merkle, Script, FiniteSets

CONSTANTS
    Hashes,     \* document hashes
    Positions,  \* what may stand in "position" of a step, or stand for none
    Bytes,      \* the bytes others put into their OP_RETURN scripts
    MaxWork,    \* bound: leaves anchored and bytes written, a byte for two
    MaxBytes,   \* bound: bytes of a script on an empty chain
    MaxTx       \* bound: transactions

ASSUME BoundAssumption == {MaxWork, MaxBytes, MaxTx} \subseteq Nat
ASSUME ByteAssumption == Bytes \subseteq 0..255

\* Bound: bytes of a script of others.  The push of a root takes one more.
ShortScript == 36

VARIABLES
    queue,    \* the hashes waiting, in order
    script,   \* an OP_RETURN script of somebody else, after its first byte
    batches,  \* the batches settled: hashes, root, proofs, transaction
    chain,    \* the transactions, numbered by their place
    check     \* the verification under way, or the last one that ended

vars == <<queue, script, batches, chain, check>>

\* The outputs of a transaction that start with OP_RETURN: the anchor of a
\* root, or any other script.
Anchor(root) == [kind |-> "anchor", root |-> root]
Raw(bytes) == [kind |-> "raw", bytes |-> bytes]

NoCheck == [at |-> "idle", verdict |-> "none"]
Ended(verdict) == [at |-> "done", verdict |-> verdict]

Size(o) == IF o.kind = "raw" THEN 2 * Len(o.bytes) ELSE 0
Work == 2 * Len(script) + Len(queue)
          + FoldLeft(LAMBDA n, b : n + Len(b.hashes), 0, batches)
          + FoldLeft(LAMBDA n, tx : n + FoldLeft(LAMBDA m, o : m + Size(o), 0, tx.vout),
                     0, chain)

-----------------------------------------------------------------------------
(* extractOpReturnData: the first push that holds a root counts.  A script  *)
(* of "Raw" is too short to hold one; one the parser gives up on is skipped. *)

Found(root) == [kind |-> "root", root |-> root]
NotFound == [kind |-> "none"]
Failed == [kind |-> "failed"]

Read(vout, raising) ==
    LET k == SelectInSeq(vout, LAMBDA o : o.kind = "anchor"
                                          \/ Pushes(o.bytes, raising) = Throws)
    IN  IF k = 0 THEN NotFound
        ELSE IF vout[k].kind = "anchor" THEN Found(vout[k].root) ELSE Failed

\* The verdict once the transaction was asked for.
Verdict(record, raising) ==
    IF record.txid \notin DOMAIN chain \/ chain[record.txid].state = "gone"
    THEN "transaction-not-found"
    ELSE LET found == Read(chain[record.txid].vout, raising)
         IN  CASE found = Failed -> "error"
               [] found = Found(record.merkleRoot) -> "valid"
               [] OTHER -> "on-chain-data-mismatch"

\* What verifyProof comes to, and the same from verify_proof of core.py.
JsVerdict(h, record) ==
    IF VerifyProof(h, record.proof, record.merkleRoot)
    THEN Verdict(record, JsRaising) ELSE "merkle-proof-mismatch"
PyVerdict(h, record) ==
    IF PyVerifyProof(h, record.proof, record.merkleRoot)
    THEN Verdict(record, PyRaising) ELSE "merkle-proof-mismatch"

-----------------------------------------------------------------------------
(* The notary and the chain.                                               *)

Queue(h) ==
    /\ script = <<>> /\ Work < MaxWork
    /\ queue' = Append(queue, h)
    /\ UNCHANGED <<script, batches, chain, check>>

\* Every hash gets the proof of its first place in the tree.
Settle ==
    LET layers == BuildLayers(queue)
    IN  /\ queue # <<>> /\ Len(chain) < MaxTx
        /\ batches' = Append(batches,
               [hashes |-> queue, merkleRoot |-> RootOf(layers),
                proofs |-> [h \in ToSet(queue) |-> GetProof(layers, FirstIndex(queue, h))],
                txid |-> Len(chain) + 1])
        /\ chain' = Append(chain, [vout |-> <<Anchor(RootOf(layers))>>,
                                   state |-> "known"])
        /\ queue' = <<>>
        /\ UNCHANGED <<script, check>>

Write(b) ==
    /\ queue = <<>> /\ Len(script) < ShortScript
    /\ Work + 2 <= MaxWork \/ (chain = <<>> /\ Len(script) < MaxBytes)
    /\ script' = Append(script, b)
    /\ UNCHANGED <<queue, batches, chain, check>>

\* Anybody may send a transaction, with the root of a batch in it or not.
Publish ==
    /\ script # <<>> /\ Len(chain) < MaxTx /\ Work <= MaxWork
    /\ \E vout \in {<<Raw(script)>>}
             \cup UNION {{<<Raw(script), Anchor(batches[k].merkleRoot)>>,
                          <<Anchor(batches[k].merkleRoot), Raw(script)>>} :
                            k \in DOMAIN batches} :
          chain' = Append(chain, [vout |-> vout, state |-> "known"])
    /\ script' = <<>>
    /\ UNCHANGED <<queue, batches, check>>

\* A transaction that is never mined may be dropped; one that stays is known,
\* in the mempool or in a block: the verdict tells these apart no further.
Evict(t) ==
    /\ chain[t].state = "known"
    /\ chain' = [chain EXCEPT ![t].state = "gone"]
    /\ UNCHANGED <<queue, script, batches, check>>

-----------------------------------------------------------------------------
(* The verifier.                                                           *)

\* A proof with a step lost, or with the position of a step changed.
Moved(p, k, s) == [p EXCEPT ![k].position = s]
Changed(p) == {RemoveAt(p, k) : k \in DOMAIN p}
                \cup {Moved(p, k, s) : k \in DOMAIN p, s \in Positions}

\* The proofs of a batch, and what may become of them.
ProofsHandedOver(b) ==
    LET proofs == {b.proofs[h] : h \in DOMAIN b.proofs}
    IN  proofs \cup UNION {Changed(p) : p \in proofs}

\* What may be handed over as a document hash: any 32 bytes, those of a node
\* in the tree of the batch included.
HashesHandedOver(b) ==
    Hashes \cup UNION {{step.hash : step \in ToSet(b.proofs[h])} : h \in DOMAIN b.proofs}

\* Such a hash with such a proof, the root of any batch and any transaction.
Record(root, proof, t) == [merkleRoot |-> root, proof |-> proof, txid |-> t]
HandedOver ==
    UNION {{[hash |-> h, record |-> Record(batches[k].merkleRoot, p, t)] :
               h \in HashesHandedOver(batches[j]), p \in ProofsHandedOver(batches[j]),
               k \in DOMAIN batches, t \in 1..(Len(chain) + 1)} :
           j \in DOMAIN batches}

\* The checks before the first await: the record and its Merkle proof.
CheckProof(h, record) ==
    /\ check.at # "fetch"
    /\ check' = IF VerifyProof(h, record.proof, record.merkleRoot)
                THEN [at |-> "fetch", verdict |-> "none", hash |-> h, record |-> record]
                ELSE Ended("merkle-proof-mismatch")
    /\ UNCHANGED <<queue, script, batches, chain>>

\* Neither the queue nor a script not yet sent plays a part in a verification,
\* so it begins while there are none.
Submit == /\ queue = <<>> /\ script = <<>>
          /\ \E x \in HandedOver : CheckProof(x.hash, x.record)

\* The transaction arrives, or the news that there is none.
FetchTx ==
    /\ check.at = "fetch"
    /\ LET verdict == Verdict(check.record, JsRaising)
       IN  check' = IF verdict = "valid"
                    THEN [check EXCEPT !.at = "done", !.verdict = verdict]
                    ELSE Ended(verdict)
    /\ UNCHANGED <<queue, script, batches, chain>>

-----------------------------------------------------------------------------
Init == /\ queue = <<>> /\ script = <<>> /\ batches = <<>> /\ chain = <<>>
        /\ check = NoCheck

Next == \/ \E h \in Hashes : Queue(h)
        \/ Settle
        \/ \E b \in Bytes : Write(b)
        \/ Publish
        \/ \E t \in DOMAIN chain : Evict(t)
        \/ Submit
        \/ FetchTx

Spec == Init /\ [][Next]_vars

-----------------------------------------------------------------------------
(* What must hold.                                                         *)

\* The tree built level by level is that of RFC 6962, and the saved proof of
\* every hash is its audit path: what SPEC.md, section 2, asks of every
\* implementation, for any number of hashes and for hashes queued twice.
TreesAreRFC6962 ==
    \A k \in DOMAIN batches :
        LET b == batches[k]
        IN  /\ b.merkleRoot = TreeHash(b.hashes)
            /\ \A h \in ToSet(b.hashes) :
                  b.proofs[h] = AuditPath(b.hashes, FirstIndex(b.hashes, h))

\* Both libraries accept the proof of every hash of every batch.
ProofsHold ==
    \A k \in DOMAIN batches : \A h \in ToSet(batches[k].hashes) :
        LET b == batches[k]
        IN  /\ VerifyProof(h, b.proofs[h], b.merkleRoot)
            /\ PyVerifyProof(h, b.proofs[h], b.merkleRoot)

\* A proof as merkle.js reads it: any position but "left" leads to the right.
AsRead(p) == [k \in DOMAIN p |->
                 [p[k] EXCEPT !.position = IF @ = "left" THEN "left" ELSE "right"]]

\* What verifyProof calls valid was notarised: the hash is a leaf of a batch
\* with this root, the transaction named carries the root, and the proof leads
\* along the path of that leaf.  Only a "right" in it may have become any other
\* text: the path read is the same, though SPEC.md, section 3, calls such a
\* record invalid.
ValidIsAnchored ==
    check.verdict = "valid" =>
        LET r == check.record
        IN  /\ \E o \in ToSet(chain[r.txid].vout) : o = Anchor(r.merkleRoot)
            /\ \E k \in DOMAIN batches : \E i \in DOMAIN batches[k].hashes :
                  /\ batches[k].hashes[i] = check.hash
                  /\ batches[k].merkleRoot = r.merkleRoot
                  /\ AsRead(r.proof) = AuditPath(batches[k].hashes, i - 1)

\* The JavaScript and the Python verifier say the same of a record, with two
\* exceptions.  A position neither "left" nor "right", a missing one included, is
\* refused by core.py alone.  A script of the transaction that ends inside a
\* two- or four-byte length makes chain.js give up, while core.py reads on.
SameVerdict(h, record) ==
    LET js == JsVerdict(h, record)
        py == PyVerdict(h, record)
    IN  \/ js = py
        \/ ~KnownPositions(record.proof) /\ py = "merkle-proof-mismatch"
        \/ /\ js = "error"
           /\ \E o \in ToSet(chain[record.txid].vout) :
                  o.kind = "raw" /\ JsPushes(o.bytes) = Throws

\* So it is for whatever may be handed over first, on any chain, in all its
\* combinations of hash, proof, root and transaction.
VerdictsAgree ==
    queue = <<>> /\ script = <<>> /\ check = NoCheck =>
        \A x \in HandedOver : SameVerdict(x.hash, x.record)

\* Both parsers find the same pushes in every script, except where the first
\* throws: there the second finds the script malformed.
ParsersAgree ==
    \/ JsPushes(script) = PyPushes(script)
    \/ JsPushes(script) = Throws /\ PyPushes(script) = Null

\* Data of any length up to the limit of an OP_RETURN output is read back from
\* the script built for it: lengths of one and of two bytes, and the 36 bytes
\* of an anchor.
PushReadsBack ==
    \A n \in {Len(script), 36, 75, 76, 80} \ {0} :
        script # <<>> =>
            LET data == [i \in 1..n |-> script[((i - 1) % Len(script)) + 1]]
            IN  JsPushes(BuildPush(data)) = Pushed(<<data>>)
=============================================================================
