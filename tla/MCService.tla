----------------------------- MODULE MCService -----------------------------
EXTENDS Service, TLC
CONSTANTS h1, h2, c1, c2
MCLists == {<<h1, h2, Bad, h2, Bad>>}

\* A transaction that stands for one hash of two, and one for both.
MCClaims == {[leaves |-> {h1}, coin |-> c1], [leaves |-> {h1, h2}, coin |-> c2]}
=============================================================================
