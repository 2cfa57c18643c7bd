---------------------------- MODULE NotaryQueue ----------------------------
(***************************************************************************)
(* The notary as the web server, its clients and the payments see it: the  *)
(* hashes that wait, the transaction each other hash is assigned to, and   *)
(* the transactions the node took.  Notary implements this module (see     *)
(* QueueKept there), and this module implements NotaryPromise (proved in   *)
(* PaymentsProofs); Payments and Service are built on it.                  *)
(***************************************************************************)
EXTENDS FiniteSets

CONSTANTS
    Hashes,  \* the document hashes
    NoTx     \* of a hash that is in no batch

VARIABLES
    queue,   \* the hashes that wait for a settlement
    txOf,    \* the transaction of the batch findBatchByHash gives, or NoTx
    sent     \* the transactions on the chain

notaryVars == <<queue, txOf, sent>>

Held == queue \cup {h \in Hashes : txOf[h] # NoTx}
Anchored == {h \in Hashes : txOf[h] # NoTx /\ txOf[h] \in sent}

\* Batches that are saved with their proofs, but whose transaction the node
\* does not have yet.
SignedTxs == {txOf[h] : h \in Hashes} \ (sent \cup {NoTx})
LeavesOf(t) == {h \in Hashes : txOf[h] = t}

-----------------------------------------------------------------------------
\* addHash: a hash that is held already is not queued again.
Take(h) == /\ h \notin Held
           /\ queue' = queue \cup {h}
           /\ UNCHANGED <<txOf, sent>>

\* _settle signs a transaction for hashes of the queue once the one before it
\* is sent or given up.
Sign(S, t) == /\ S # {} /\ S \subseteq queue
              /\ t # NoTx /\ t \notin sent /\ SignedTxs = {}
              /\ queue' = queue \ S
              /\ txOf' = [h \in Hashes |-> IF h \in S THEN t ELSE txOf[h]]
              /\ UNCHANGED sent

\* The node takes the transaction of a signed batch, now or on a later try.
Send(t) == /\ t \in SignedTxs
           /\ sent' = sent \cup {t}
           /\ UNCHANGED <<queue, txOf>>

\* The node rejects it: the batch is removed, its hashes wait again.
GiveUp(t) == /\ t \in SignedTxs
             /\ queue' = queue \cup LeavesOf(t)
             /\ txOf' = [h \in Hashes |-> IF txOf[h] = t THEN NoTx ELSE txOf[h]]
             /\ UNCHANGED sent

-----------------------------------------------------------------------------
NotaryInit == queue = {} /\ txOf = [h \in Hashes |-> NoTx] /\ sent = {}

\* The transaction signed is any that is not on the chain: it is read off the
\* hashes it is given to.
NotaryNext == \/ \E h \in Hashes : Take(h)
              \/ \E S \in SUBSET queue, h \in Hashes : Sign(S, txOf'[h])
              \/ \E t \in SignedTxs : Send(t) \/ GiveUp(t)

NotarySpec == NotaryInit /\ [][NotaryNext]_notaryVars

Promise == INSTANCE NotaryPromise WITH held <- Held, anchored <- Anchored
=============================================================================
