---------------------------- MODULE MCProofCheck ----------------------------
EXTENDS ProofCheck
Symmetry == Permutations(Hashes)
=============================================================================
