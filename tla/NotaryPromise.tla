--------------------------- MODULE NotaryPromise ---------------------------
(***************************************************************************)
(* What a notary promises about the hashes handed to it, whatever happens  *)
(* inside: a hash it took stays in its custody, and a hash whose proof it  *)
(* can give, confirmed by the chain, keeps such a proof.                   *)
(***************************************************************************)
CONSTANT Hashes

VARIABLES
    held,      \* the hashes taken
    anchored   \* those with a proof the chain confirms

Init == held = {} /\ anchored = {}

Take(h) == held' = held \cup {h} /\ UNCHANGED anchored

\* One transaction anchors several hashes at once.
Anchor(batch) == /\ batch \subseteq held
                 /\ anchored' = anchored \cup batch
                 /\ UNCHANGED held

Next == \/ \E h \in Hashes : Take(h)
        \/ \E batch \in SUBSET Hashes : Anchor(batch)

Spec == Init /\ [][Next]_<<held, anchored>>
=============================================================================
