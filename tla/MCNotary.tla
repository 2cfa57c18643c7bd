------------------------------ MODULE MCNotary ------------------------------
EXTENDS Notary, TLC
Symmetry == Permutations(Calls) \cup Permutations(Hashes)
=============================================================================
