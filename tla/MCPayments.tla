----------------------------- MODULE MCPayments -----------------------------
EXTENDS Payments, TLC
Symmetry == Permutations(Ids) \cup Permutations(Requests)
            \cup Permutations(Hashes) \cup Permutations(Txs)
=============================================================================
