-------------------------- MODULE ProofCheckProofs --------------------------
(***************************************************************************)
(* The two parsers, the tree against that of RFC 6962, its proofs and their*)
(* verification: what ProofCheck checks, for batches of any size, scripts  *)
(* of any bytes and any number of transactions.                            *)
(***************************************************************************)
EXTENDS ProofCheck, TLAPS, WellFoundedInduction, SequenceTheorems

-----------------------------------------------------------------------------
(* Layers, proofs and scripts are gone through one place after another, so *)
(* what holds of all places is shown along 0..n, as in ServiceProofs.      *)

Less == {pair \in Nat \X Nat : pair[1] < pair[2]}

LEMMA LessWellFounded == IsWellFoundedOn(Less, Nat)
  BY NatLessThanWellFounded, Zenon DEF OpToRel, Less

LEMMA Least ==
    ASSUME NEW T, T \subseteq Nat, T # {}
    PROVE  \E m \in T : \A n \in T : m <= n
<1>1. PICK m \in T : \A n \in T : ~(<<n, m>> \in Less)
  BY LessWellFounded, WFMin
<1>2. ASSUME NEW n \in T PROVE m <= n
  <2>1. m \in Nat /\ n \in Nat
    OBVIOUS
  <2>2. n < m => <<n, m>> \in Less
    BY <2>1 DEF Less
  <2>3. QED
    BY <1>1, <2>1, <2>2
<1>3. QED
  BY <1>2

LEMMA UpTo ==
    ASSUME NEW n \in Nat, NEW S, 0 \in S,
           \A k \in 0..n : k \in S /\ k < n => k + 1 \in S
    PROVE  0..n \subseteq S
<1>1. PICK T : T = {k \in 0..n : k \notin S}
  OBVIOUS
<1>2. ASSUME T # {} PROVE FALSE
  <2>1. \E m \in T : \A k \in T : m <= k
    BY <1>1, <1>2, Least
  <2>2. PICK m \in T : \A k \in T : m <= k
    BY <2>1
  <2>3. m \in Nat /\ m \in 1..n /\ m - 1 \in 0..n
    BY <1>1
  <2>4. m - 1 \in S
    BY <1>1, <2>2, <2>3
  <2>5. (m - 1) + 1 \in S
    BY <2>3, <2>4
  <2>6. QED
    BY <1>1, <2>3, <2>5
<1>3. QED
  BY <1>1, <1>2

\* A function on 1..n is a sequence of length n.
LEMMA FunIsSeq ==
    ASSUME NEW n \in Nat, NEW f, f = [k \in 1..n |-> f[k]], NEW S,
           \A k \in 1..n : f[k] \in S
    PROVE  f \in Seq(S) /\ Len(f) = n
<1>1. f \in [1..n -> S]
  OBVIOUS
<1>2. f \in Seq(S)
  BY <1>1, SeqDef
<1>3. DOMAIN f = 1..Len(f) /\ DOMAIN f = 1..n /\ Len(f) \in Nat
  BY <1>1, <1>2, LenProperties
<1>4. QED
  BY <1>2, <1>3

LEMMA FunHasLen ==
    ASSUME NEW n \in Nat, NEW f, f = [k \in 1..n |-> f[k]]
    PROVE  Len(f) = n
<1>1. \A k \in 1..n : f[k] \in {f[j] : j \in 1..n}
  OBVIOUS
<1>2. QED
  BY <1>1, FunIsSeq

-----------------------------------------------------------------------------
(* The split of RFC 6962.                                                  *)

SplitFrom(g, m) == IF m = 2 THEN 1
                   ELSE IF 2 * g[m - 1] < m THEN 2 * g[m - 1] ELSE g[m - 1]

LEMMA SplitRuns ==
    ASSUME NEW n \in Nat
    PROVE  \E g : g = [m \in 2..n |-> SplitFrom(g, m)] /\ SplitAt(n) = g[n]
<1> DEFINE R(k) == \E g : g = [m \in 2..k |-> SplitFrom(g, m)]
<1>1. R(0)
  <2>1. PICK g : g = [m \in 2..0 |-> 1]
    OBVIOUS
  <2>2. \A m \in 2..0 : FALSE
    OBVIOUS
  <2>3. g = [m \in 2..0 |-> SplitFrom(g, m)]
    BY <2>1, <2>2
  <2>4. QED
    BY <2>3
<1>2. ASSUME NEW k \in 0..n, R(k) PROVE R(k + 1)
  <2>1. PICK g : g = [m \in 2..k |-> SplitFrom(g, m)]
    BY <1>2
  <2>2. PICK f : f = [m \in 2..(k + 1) |-> IF m = k + 1 THEN SplitFrom(g, k + 1) ELSE g[m]]
    OBVIOUS
  <2>3. ASSUME NEW m \in 2..(k + 1) PROVE f[m] = SplitFrom(f, m)
    <3>1. m # 2 => m - 1 \in 2..k /\ f[m - 1] = g[m - 1]
      BY <2>2
    <3>2. SplitFrom(f, m) = SplitFrom(g, m)
      BY <3>1 DEF SplitFrom
    <3>3. m # k + 1 => m \in 2..k /\ f[m] = g[m] /\ g[m] = SplitFrom(g, m)
      BY <2>1, <2>2
    <3>4. m = k + 1 => f[m] = SplitFrom(g, m)
      BY <2>2
    <3>5. QED
      BY <3>2, <3>3, <3>4
  <2>4. f = [m \in 2..(k + 1) |-> SplitFrom(f, m)]
    BY <2>2, <2>3
  <2>5. QED
    BY <2>4
<1>3. PICK S : S = {k \in 0..n : R(k)}
  OBVIOUS
<1> HIDE DEF R
<1>4. 0 \in S /\ \A k \in 0..n : k \in S /\ k < n => k + 1 \in S
  BY <1>1, <1>2, <1>3
<1>5. 0..n \subseteq S
  BY <1>4, UpTo
<1>6. R(n)
  BY <1>3, <1>5
<1>7. QED
  BY <1>6 DEF R, SplitAt, SplitFrom

\* A width all trees of more than s and at most 2s leaves split at, however far
\* the split is computed.
Splits(s) ==
    \A n \in Nat : \A g : g = [m \in 2..n |-> SplitFrom(g, m)] =>
        \A m \in (s + 1)..(2 * s) : m <= n => g[m] = s

LEMMA SplitsOne == Splits(1)
<1> SUFFICES ASSUME NEW n \in Nat, NEW g, g = [m \in 2..n |-> SplitFrom(g, m)], 2 <= n
             PROVE  g[2] = 1
  BY DEF Splits
<1> QED
  BY DEF SplitFrom

LEMMA SplitsTwice ==
    ASSUME NEW s \in Nat, s >= 1, Splits(s)
    PROVE  Splits(2 * s)
<1> SUFFICES ASSUME NEW n \in Nat, NEW g, g = [m \in 2..n |-> SplitFrom(g, m)]
             PROVE  \A m \in (2 * s + 1)..(4 * s) : m <= n => g[m] = 2 * s
  BY DEF Splits
<1>1. \A m \in 2..n : g[m] = SplitFrom(g, m)
  OBVIOUS
<1>2. PICK T : T = {d \in 0..(2 * s - 1) : 2 * s + 1 + d <= n => g[2 * s + 1 + d] = 2 * s}
  OBVIOUS
<1>3. 0 \in T
  <2>1. ASSUME 2 * s + 1 <= n PROVE g[2 * s + 1] = 2 * s
    <3>1. g[2 * s] = s
      BY <2>1 DEF Splits
    <3>2. g[2 * s + 1] = SplitFrom(g, 2 * s + 1) /\ 2 * s + 1 # 2 /\ (2 * s + 1) - 1 = 2 * s
      BY <1>1, <2>1
    <3>3. QED
      BY <3>1, <3>2 DEF SplitFrom
  <2>2. QED
    BY <1>2, <2>1
<1>4. ASSUME NEW d \in 0..(2 * s - 1), d \in T, d < 2 * s - 1 PROVE d + 1 \in T
  <2>1. ASSUME 2 * s + 1 + (d + 1) <= n PROVE g[2 * s + 1 + (d + 1)] = 2 * s
    <3>1. g[2 * s + 1 + d] = 2 * s
      BY <1>2, <1>4, <2>1
    <3>2. PICK m : m = 2 * s + 1 + (d + 1)
      OBVIOUS
    <3>3. m \in 2..n /\ m # 2 /\ g[m - 1] = 2 * s /\ ~(2 * (2 * s) < m)
      BY <1>4, <2>1, <3>1, <3>2
    <3>4. g[m] = SplitFrom(g, m)
      BY <1>1, <3>3
    <3>5. QED
      BY <3>2, <3>3, <3>4 DEF SplitFrom
  <2>2. QED
    BY <1>2, <1>4, <2>1
<1>5. 0..(2 * s - 1) \subseteq T
  BY <1>3, <1>4, UpTo
<1>6. ASSUME NEW m \in (2 * s + 1)..(4 * s), m <= n PROVE g[m] = 2 * s
  <2>1. m - (2 * s + 1) \in T /\ 2 * s + 1 + (m - (2 * s + 1)) = m
    BY <1>5, <1>6
  <2>2. QED
    BY <1>2, <1>6, <2>1
<1>7. QED
  BY <1>6

LEMMA SplitsAt ==
    ASSUME NEW s \in Nat, s >= 1, Splits(s), NEW n \in (s + 1)..(2 * s)
    PROVE  SplitAt(n) = s
<1>1. PICK g : g = [m \in 2..n |-> SplitFrom(g, m)] /\ SplitAt(n) = g[n]
  BY SplitRuns
<1>2. QED
  BY <1>1 DEF Splits

\* Both parts of a split have a leaf.
LEMMA SplitInside ==
    ASSUME NEW n \in Nat, n >= 2
    PROVE  SplitAt(n) \in 1..(n - 1)
<1>1. PICK g : g = [m \in 2..n |-> SplitFrom(g, m)] /\ SplitAt(n) = g[n]
  BY SplitRuns
<1>2. PICK T : T = {d \in 0..(n - 2) : g[d + 2] \in 1..(d + 1)}
  OBVIOUS
<1>3. \A m \in 2..n : g[m] = SplitFrom(g, m)
  BY <1>1
<1>4. 0 \in T
  BY <1>2, <1>3 DEF SplitFrom
<1>5. ASSUME NEW d \in 0..(n - 2), d \in T, d < n - 2 PROVE d + 1 \in T
  <2>1. g[d + 2] \in 1..(d + 1)
    BY <1>2, <1>5
  <2>2. PICK m : m = d + 3
    OBVIOUS
  <2>3. m \in 2..n /\ m # 2 /\ m - 1 = d + 2
    BY <1>5, <2>2
  <2>4. g[m] = SplitFrom(g, m)
    BY <1>3, <2>3
  <2>5. g[m] \in 1..(m - 1)
    BY <2>1, <2>2, <2>3, <2>4 DEF SplitFrom
  <2>6. (d + 1) + 2 = m /\ m - 1 = (d + 1) + 1 /\ d + 1 \in 0..(n - 2)
    BY <1>5, <2>2
  <2>7. QED
    BY <1>2, <2>5, <2>6
<1>6. n - 2 \in T
  BY <1>4, <1>5, UpTo
<1>7. QED
  BY <1>1, <1>2, <1>6

-----------------------------------------------------------------------------
(* The reference tree.                                                     *)

HashRow(hashes, g, n) ==
    [lo \in 1..(Len(hashes) + 1 - n) |->
        IF n = 1 THEN Leaf(hashes[lo])
        ELSE Node(g[SplitAt(n)][lo], g[n - SplitAt(n)][lo + SplitAt(n)])]

\* A row rests on rows of fewer leaves only.
LEMMA HashRowEarlier ==
    ASSUME NEW hashes, NEW g, NEW f, NEW n \in Nat, n >= 1,
           \A m \in 1..(n - 1) : f[m] = g[m]
    PROVE  HashRow(hashes, f, n) = HashRow(hashes, g, n)
<1>1. CASE n = 1
  BY <1>1 DEF HashRow
<1>2. CASE n # 1
  <2>1. SplitAt(n) \in 1..(n - 1)
    BY <1>2, SplitInside
  <2>2. f[SplitAt(n)] = g[SplitAt(n)] /\ f[n - SplitAt(n)] = g[n - SplitAt(n)]
    BY <2>1
  <2>3. QED
    BY <1>2, <2>2 DEF HashRow
<1>3. QED
  BY <1>1, <1>2

LEMMA SubtreeRows ==
    ASSUME NEW N \in Nat, NEW hashes, Len(hashes) = N
    PROVE  \A n \in 1..N : Subtrees(hashes)[n] = HashRow(hashes, Subtrees(hashes), n)
<1> DEFINE R(m) == \E g : g = [n \in 1..m |-> HashRow(hashes, g, n)]
<1>1. R(0)
  <2>1. PICK g : g = [n \in 1..0 |-> 1]
    OBVIOUS
  <2>2. \A n \in 1..0 : FALSE
    OBVIOUS
  <2>3. g = [n \in 1..0 |-> HashRow(hashes, g, n)]
    BY <2>1, <2>2
  <2>4. QED
    BY <2>3
<1>2. ASSUME NEW m \in 0..N, R(m) PROVE R(m + 1)
  <2>1. PICK g : g = [n \in 1..m |-> HashRow(hashes, g, n)]
    BY <1>2
  <2>2. PICK f : f = [n \in 1..(m + 1) |-> IF n = m + 1 THEN HashRow(hashes, g, m + 1) ELSE g[n]]
    OBVIOUS
  <2>3. ASSUME NEW n \in 1..(m + 1) PROVE f[n] = HashRow(hashes, f, n)
    <3>1. \A k \in 1..(n - 1) : f[k] = g[k]
      BY <2>2
    <3>2. HashRow(hashes, f, n) = HashRow(hashes, g, n)
      BY <3>1, HashRowEarlier
    <3>3. n # m + 1 => n \in 1..m /\ f[n] = g[n] /\ g[n] = HashRow(hashes, g, n)
      BY <2>1, <2>2
    <3>4. n = m + 1 => f[n] = HashRow(hashes, g, n)
      BY <2>2
    <3>5. QED
      BY <3>2, <3>3, <3>4
  <2>4. f = [n \in 1..(m + 1) |-> HashRow(hashes, f, n)]
    BY <2>2, <2>3
  <2>5. QED
    BY <2>4
<1>3. PICK S : S = {m \in 0..N : R(m)}
  OBVIOUS
<1> HIDE DEF R
<1>4. 0 \in S /\ \A m \in 0..N : m \in S /\ m < N => m + 1 \in S
  BY <1>1, <1>2, <1>3
<1>5. 0..N \subseteq S
  BY <1>4, UpTo
<1>6. R(N)
  BY <1>3, <1>5
<1>7. \E g : g = [n \in 1..N |-> HashRow(hashes, g, n)] /\ Subtrees(hashes) = g
  BY <1>6 DEF R, Subtrees, HashRow
<1>8. QED
  BY <1>7

LEMMA SubtreeOne ==
    ASSUME NEW hashes, Len(hashes) \in Nat, NEW lo \in 1..Len(hashes)
    PROVE  Subtrees(hashes)[1][lo] = Leaf(hashes[lo])
<1>1. Subtrees(hashes)[1] = HashRow(hashes, Subtrees(hashes), 1)
  BY SubtreeRows
<1>2. QED
  BY <1>1 DEF HashRow

LEMMA SubtreeNode ==
    ASSUME NEW hashes, Len(hashes) \in Nat, NEW n \in 2..Len(hashes),
           NEW lo \in 1..(Len(hashes) + 1 - n)
    PROVE  Subtrees(hashes)[n][lo] =
               Node(Subtrees(hashes)[SplitAt(n)][lo],
                    Subtrees(hashes)[n - SplitAt(n)][lo + SplitAt(n)])
<1>1. Subtrees(hashes)[n] = HashRow(hashes, Subtrees(hashes), n)
  BY SubtreeRows
<1>2. QED
  BY <1>1 DEF HashRow

\* The same of the audit paths of leaf i.
PathRow(hashes, i, g, n) ==
    [lo \in 1..(Len(hashes) + 1 - n) |->
        IF n = 1 THEN <<>>
        ELSE Append(IF i < lo + SplitAt(n) - 1 THEN g[SplitAt(n)][lo]
                                               ELSE g[n - SplitAt(n)][lo + SplitAt(n)],
                    PathStep(Subtrees(hashes), i, n, lo))]

LEMMA PathRowEarlier ==
    ASSUME NEW hashes, NEW i, NEW g, NEW f, NEW n \in Nat, n >= 1,
           \A m \in 1..(n - 1) : f[m] = g[m]
    PROVE  PathRow(hashes, i, f, n) = PathRow(hashes, i, g, n)
<1>1. CASE n = 1
  BY <1>1 DEF PathRow
<1>2. CASE n # 1
  <2>1. SplitAt(n) \in 1..(n - 1)
    BY <1>2, SplitInside
  <2>2. f[SplitAt(n)] = g[SplitAt(n)] /\ f[n - SplitAt(n)] = g[n - SplitAt(n)]
    BY <2>1
  <2>3. QED
    BY <1>2, <2>2 DEF PathRow
<1>3. QED
  BY <1>1, <1>2

\* The paths of leaf i in every subtree, the last of them its audit path.
Paths(hashes, i, g) == g = [n \in 1..Len(hashes) |-> PathRow(hashes, i, g, n)]

LEMMA PathRuns ==
    ASSUME NEW N \in Nat, NEW hashes, Len(hashes) = N, NEW i
    PROVE  \E g : Paths(hashes, i, g) /\ AuditPath(hashes, i) = g[N][1]
<1> DEFINE R(m) == \E g : g = [n \in 1..m |-> PathRow(hashes, i, g, n)]
<1>1. R(0)
  <2>1. PICK g : g = [n \in 1..0 |-> 1]
    OBVIOUS
  <2>2. \A n \in 1..0 : FALSE
    OBVIOUS
  <2>3. g = [n \in 1..0 |-> PathRow(hashes, i, g, n)]
    BY <2>1, <2>2
  <2>4. QED
    BY <2>3
<1>2. ASSUME NEW m \in 0..N, R(m) PROVE R(m + 1)
  <2>1. PICK g : g = [n \in 1..m |-> PathRow(hashes, i, g, n)]
    BY <1>2
  <2>2. PICK f : f = [n \in 1..(m + 1) |-> IF n = m + 1 THEN PathRow(hashes, i, g, m + 1) ELSE g[n]]
    OBVIOUS
  <2>3. ASSUME NEW n \in 1..(m + 1) PROVE f[n] = PathRow(hashes, i, f, n)
    <3>1. \A k \in 1..(n - 1) : f[k] = g[k]
      BY <2>2
    <3>2. PathRow(hashes, i, f, n) = PathRow(hashes, i, g, n)
      BY <3>1, PathRowEarlier
    <3>3. n # m + 1 => n \in 1..m /\ f[n] = g[n] /\ g[n] = PathRow(hashes, i, g, n)
      BY <2>1, <2>2
    <3>4. n = m + 1 => f[n] = PathRow(hashes, i, g, n)
      BY <2>2
    <3>5. QED
      BY <3>2, <3>3, <3>4
  <2>4. f = [n \in 1..(m + 1) |-> PathRow(hashes, i, f, n)]
    BY <2>2, <2>3
  <2>5. QED
    BY <2>4
<1>3. PICK S : S = {m \in 0..N : R(m)}
  OBVIOUS
<1> HIDE DEF R
<1>4. 0 \in S /\ \A m \in 0..N : m \in S /\ m < N => m + 1 \in S
  BY <1>1, <1>2, <1>3
<1>5. 0..N \subseteq S
  BY <1>4, UpTo
<1>6. R(N)
  BY <1>3, <1>5
<1>7. QED
  BY <1>6 DEF R, AuditPath, PathRow, Paths

-----------------------------------------------------------------------------
(* The layers of the tree the code builds.                                 *)

LEMMA PairsLen ==
    ASSUME NEW layer, Len(layer) \in Nat
    PROVE  Len(Pairs(layer)) = (Len(layer) + 1) \div 2
<1>1. PICK n \in Nat : n = (Len(layer) + 1) \div 2
  OBVIOUS
<1>2. Pairs(layer) = [k \in 1..n |-> Pairs(layer)[k]]
  BY <1>1 DEF Pairs
<1>3. QED
  BY <1>1, <1>2, FunHasLen

\* What pairing makes of two neighbours, and of a node without one.
LEMMA PairsAt ==
    ASSUME NEW layer, Len(layer) \in Nat, NEW j \in 1..((Len(layer) + 1) \div 2)
    PROVE  Pairs(layer)[j] = IF 2 * j <= Len(layer)
                             THEN Node(layer[2 * j - 1], layer[2 * j])
                             ELSE layer[2 * j - 1]
  BY DEF Pairs

Leaves(hashes) == [i \in 1..Len(hashes) |-> Leaf(hashes[i])]
LayerRow(hashes, g, k) == IF k = 1 THEN Leaves(hashes) ELSE Pairs(g[k - 1])

\* The first layer of a single node.
TopOf(g, N) == CHOOSE k \in 1..N : Len(g[k]) = 1 /\ \A j \in 1..(k - 1) : Len(g[j]) > 1

LEMMA LayerRuns ==
    ASSUME NEW N \in Nat, NEW hashes, Len(hashes) = N
    PROVE  \E g : /\ g = [k \in 1..N |-> LayerRow(hashes, g, k)]
                  /\ BuildLayers(hashes) = [k \in 1..TopOf(g, N) |-> g[k]]
<1> DEFINE R(m) == \E g : g = [k \in 1..m |-> LayerRow(hashes, g, k)]
<1>1. R(0)
  <2>1. PICK g : g = [k \in 1..0 |-> 1]
    OBVIOUS
  <2>2. \A k \in 1..0 : FALSE
    OBVIOUS
  <2>3. g = [k \in 1..0 |-> LayerRow(hashes, g, k)]
    BY <2>1, <2>2
  <2>4. QED
    BY <2>3
<1>2. ASSUME NEW m \in 0..N, R(m) PROVE R(m + 1)
  <2>1. PICK g : g = [k \in 1..m |-> LayerRow(hashes, g, k)]
    BY <1>2
  <2>2. PICK f : f = [k \in 1..(m + 1) |-> IF k = m + 1 THEN LayerRow(hashes, g, m + 1) ELSE g[k]]
    OBVIOUS
  <2>3. ASSUME NEW k \in 1..(m + 1) PROVE f[k] = LayerRow(hashes, f, k)
    <3>1. k # 1 => f[k - 1] = g[k - 1]
      BY <2>2
    <3>2. LayerRow(hashes, f, k) = LayerRow(hashes, g, k)
      BY <3>1 DEF LayerRow
    <3>3. k # m + 1 => k \in 1..m /\ f[k] = g[k] /\ g[k] = LayerRow(hashes, g, k)
      BY <2>1, <2>2
    <3>4. k = m + 1 => f[k] = LayerRow(hashes, g, k)
      BY <2>2
    <3>5. QED
      BY <3>2, <3>3, <3>4
  <2>4. f = [k \in 1..(m + 1) |-> LayerRow(hashes, f, k)]
    BY <2>2, <2>3
  <2>5. QED
    BY <2>4
<1>3. PICK S : S = {m \in 0..N : R(m)}
  OBVIOUS
<1> HIDE DEF R
<1>4. 0 \in S /\ \A m \in 0..N : m \in S /\ m < N => m + 1 \in S
  BY <1>1, <1>2, <1>3
<1>5. 0..N \subseteq S
  BY <1>4, UpTo
<1>6. R(N)
  BY <1>3, <1>5
<1>7. QED
  BY <1>6 DEF R, BuildLayers, LayerRow, Leaves, TopOf

\* The layers over some hashes, from the leaves to a single root.
IsTree(hashes, layers) ==
    /\ Len(layers) \in Nat \ {0}
    /\ layers[1] = Leaves(hashes)
    /\ Len(layers[1]) = Len(hashes)
    /\ \A k \in 1..Len(layers) : Len(layers[k]) \in Nat \ {0}
    /\ \A k \in 1..(Len(layers) - 1) :
          /\ layers[k + 1] = Pairs(layers[k])
          /\ Len(layers[k + 1]) = (Len(layers[k]) + 1) \div 2
    /\ Len(layers[Len(layers)]) = 1

LEMMA Half ==
    ASSUME NEW l \in Nat \ {0}
    PROVE  /\ (l + 1) \div 2 \in Nat \ {0}
           /\ l = 1 => (l + 1) \div 2 = 1
           /\ l > 1 => (l + 1) \div 2 <= l - 1
  OBVIOUS

\* Each layer is shorter than the one below it, so one of them has one node.
LEMMA LayersShrink ==
    ASSUME NEW N \in Nat, N # 0, NEW g,
           Len(g[1]) = N,
           \A k \in 1..(N - 1) : Len(g[k]) \in Nat => Len(g[k + 1]) = (Len(g[k]) + 1) \div 2
    PROVE  /\ \A k \in 1..N : Len(g[k]) \in Nat \ {0}
           /\ \E k \in 1..N : Len(g[k]) = 1 /\ \A j \in 1..(k - 1) : Len(g[j]) > 1
<1>1. PICK T : T = {d \in 0..(N - 1) :
                      /\ Len(g[d + 1]) \in Nat \ {0}
                      /\ Len(g[d + 1]) = 1 \/ Len(g[d + 1]) <= N - d}
  OBVIOUS
<1>2. 0 \in T
  BY <1>1
<1>3. ASSUME NEW d \in 0..(N - 1), d \in T, d < N - 1 PROVE d + 1 \in T
  <2>1. PICK l \in Nat \ {0} : l = Len(g[d + 1]) /\ (l = 1 \/ l <= N - d)
    BY <1>1, <1>3
  <2>2. PICK k \in 1..(N - 1) : k = d + 1
    BY <1>3
  <2>3. Len(g[k + 1]) = (l + 1) \div 2
    BY <2>1, <2>2
  <2>4. (l + 1) \div 2 \in Nat \ {0} /\ ((l + 1) \div 2 = 1 \/ (l + 1) \div 2 <= N - (d + 1))
    <3>1. (l + 1) \div 2 \in Nat \ {0} /\ (l = 1 => (l + 1) \div 2 = 1)
             /\ (l > 1 => (l + 1) \div 2 <= l - 1)
      BY Half
    <3>2. PICK x \in Nat \ {0} : x = (l + 1) \div 2
      BY <3>1
    <3>3. (l = 1 => x = 1) /\ (l > 1 => x <= l - 1)
      BY <3>1, <3>2
    <3>4. l # 1 => l <= N - d
      BY <2>1, Zenon
    <3>5. d \in Nat
      OBVIOUS
    <3>6. x = 1 \/ x <= N - (d + 1)
      <4>1. l # 1 => l > 1
        OBVIOUS
      <4>2. QED
        BY <3>3, <3>4, <3>5, <4>1
    <3>7. QED
      BY <3>2, <3>6
  <2>5. d + 1 \in 0..(N - 1) /\ g[(d + 1) + 1] = g[k + 1]
    BY <1>3, <2>2
  <2>6. QED
    BY <1>1, <2>3, <2>4, <2>5
<1>4. 0..(N - 1) \subseteq T
  BY <1>2, <1>3, UpTo
<1>5. ASSUME NEW k \in 1..N
      PROVE  Len(g[k]) \in Nat \ {0} /\ (Len(g[k]) = 1 \/ Len(g[k]) <= N + 1 - k)
  <2>1. k - 1 \in T /\ (k - 1) + 1 = k
    BY <1>4
  <2>2. QED
    BY <1>1, <2>1
<1>6. PICK S : S = {k \in 1..N : Len(g[k]) = 1}
  OBVIOUS
<1>7. N \in S
  <2>1. N \in 1..N
    OBVIOUS
  <2>2. Len(g[N]) \in Nat \ {0} /\ (Len(g[N]) = 1 \/ Len(g[N]) <= N + 1 - N)
    BY <1>5, <2>1
  <2>3. Len(g[N]) = 1
    <3>1. PICK l : l = Len(g[N])
      OBVIOUS
    <3>2. l \in Nat \ {0} /\ (l = 1 \/ l <= N + 1 - N)
      BY <2>2, <3>1
    <3>3. l = 1
      BY <3>2
    <3>4. QED
      BY <3>1, <3>3
  <2>4. QED
    BY <1>6, <2>1, <2>3
<1>8. \E m \in S : \A n \in S : m <= n
  <2>1. S \subseteq Nat /\ S # {}
    BY <1>6, <1>7
  <2>2. QED
    BY <2>1, Least
<1>9. PICK m \in S : \A n \in S : m <= n
  BY <1>8
<1>10. ASSUME NEW j \in 1..(m - 1) PROVE Len(g[j]) > 1
  <2>1. m \in 1..N
    BY <1>6
  <2>2. j \in 1..N /\ j \notin S
    BY <1>9, <2>1
  <2>3. PICK l : l = Len(g[j])
    OBVIOUS
  <2>4. l \in Nat \ {0} /\ l # 1
    BY <1>5, <1>6, <2>2, <2>3
  <2>5. l > 1
    BY <2>4
  <2>6. QED
    BY <2>3, <2>5
<1>11. QED
  BY <1>5, <1>6, <1>9, <1>10

LEMMA TreeBuilt ==
    ASSUME NEW hashes, Len(hashes) \in Nat \ {0}
    PROVE  IsTree(hashes, BuildLayers(hashes))
<1>n. PICK N \in Nat \ {0} : N = Len(hashes)
  OBVIOUS
<1>1. PICK g : /\ g = [k \in 1..N |-> LayerRow(hashes, g, k)]
               /\ BuildLayers(hashes) = [k \in 1..TopOf(g, N) |-> g[k]]
  BY <1>n, LayerRuns
<1>t. PICK top : top = TopOf(g, N)
  OBVIOUS
<1>2. g[1] = Leaves(hashes)
  BY <1>1 DEF LayerRow
<1>3. Len(g[1]) = N
  <2>1. g[1] = [i \in 1..N |-> g[1][i]]
    BY <1>n, <1>2 DEF Leaves
  <2>2. QED
    BY <2>1, FunHasLen
<1>4. ASSUME NEW k \in 1..(N - 1)
      PROVE  /\ g[k + 1] = Pairs(g[k])
             /\ Len(g[k]) \in Nat => Len(g[k + 1]) = (Len(g[k]) + 1) \div 2
  <2>1. k + 1 \in 1..N /\ k + 1 # 1 /\ (k + 1) - 1 = k
    OBVIOUS
  <2>2. g[k + 1] = Pairs(g[k])
    BY <1>1, <2>1 DEF LayerRow
  <2>3. QED
    BY <2>2, PairsLen
<1>5. /\ \A k \in 1..N : Len(g[k]) \in Nat \ {0}
      /\ \E k \in 1..N : Len(g[k]) = 1 /\ \A j \in 1..(k - 1) : Len(g[j]) > 1
  BY <1>3, <1>4, LayersShrink
<1>6. top \in 1..N /\ Len(g[top]) = 1
  BY <1>t, <1>5 DEF TopOf
<1>7. PICK L : L = BuildLayers(hashes)
  OBVIOUS
<1>8. L = [k \in 1..top |-> L[k]] /\ \A k \in 1..top : L[k] = g[k]
  BY <1>1, <1>t, <1>7
<1>9. Len(L) = top
  BY <1>6, <1>8, FunHasLen
<1>10. \A k \in 1..(top - 1) : k \in 1..(N - 1) /\ k \in 1..top /\ k + 1 \in 1..top
  BY <1>6
<1>11. IsTree(hashes, L)
  <2>1. Len(L) \in Nat \ {0} /\ L[1] = Leaves(hashes) /\ Len(L[1]) = Len(hashes)
    BY <1>n, <1>2, <1>3, <1>6, <1>8, <1>9
  <2>2. \A k \in 1..Len(L) : Len(L[k]) \in Nat \ {0}
    BY <1>5, <1>6, <1>8, <1>9
  <2>3. \A k \in 1..(Len(L) - 1) : L[k + 1] = Pairs(L[k])
                                   /\ Len(L[k + 1]) = (Len(L[k]) + 1) \div 2
    <3>1. TAKE k \in 1..(Len(L) - 1)
    <3>2. k \in 1..(N - 1) /\ L[k] = g[k] /\ L[k + 1] = g[k + 1]
      BY <1>8, <1>9, <1>10
    <3>3. k \in 1..N
      BY <3>2
    <3>4. Len(g[k]) \in Nat
      BY <1>5, <3>3
    <3>5. QED
      BY <1>4, <3>2, <3>4
  <2>4. Len(L[Len(L)]) = 1
    BY <1>6, <1>8, <1>9
  <2>5. QED
    BY <2>1, <2>2, <2>3, <2>4 DEF IsTree
<1>12. QED
  BY <1>7, <1>11

-----------------------------------------------------------------------------
(* The steps of a proof.                                                   *)

ProofSteps(U) == [position : {"left", "right"}, hash : U]
RightStep(x) == [position |-> "right", hash |-> x]
LeftStep(x) == [position |-> "left", hash |-> x]

\* The step from node i: to its right, none, or to its left.
LEMMA StepRight ==
    ASSUME NEW layer, Len(layer) \in Nat, NEW m \in Nat, 2 * m + 1 < Len(layer)
    PROVE  StepAt(layer, 2 * m) = <<RightStep(layer[2 * m + 2])>>
<1>1. (2 * m) % 2 = 0 /\ 2 * m + 1 + 1 = 2 * m + 2
  OBVIOUS
<1>2. QED
  BY <1>1 DEF StepAt, Sibling, RightStep

LEMMA StepNone ==
    ASSUME NEW layer, NEW m \in Nat, Len(layer) = 2 * m + 1
    PROVE  StepAt(layer, 2 * m) = <<>>
<1>1. (2 * m) % 2 = 0 /\ ~(2 * m + 1 < 2 * m + 1)
  OBVIOUS
<1>2. QED
  BY <1>1 DEF StepAt, Sibling

LEMMA StepLeft ==
    ASSUME NEW layer, Len(layer) \in Nat, NEW m \in Nat, 2 * m + 1 < Len(layer)
    PROVE  StepAt(layer, 2 * m + 1) = <<LeftStep(layer[2 * m + 1])>>
<1>1. (2 * m + 1) % 2 = 1 /\ (2 * m + 1) - 1 = 2 * m /\ 2 * m < Len(layer)
  OBVIOUS
<1>2. QED
  BY <1>1 DEF StepAt, Sibling, LeftStep

\* The same by the node the step leads to: node i \div 2 of the next layer.
LEMMA StepCases ==
    ASSUME NEW layer, Len(layer) \in Nat, NEW i \in 0..(Len(layer) - 1)
    PROVE  LET m == i \div 2
           IN  /\ m \in Nat /\ m < (Len(layer) + 1) \div 2
               /\ \/ i = 2 * m /\ 2 * m + 1 < Len(layer)
                     /\ StepAt(layer, i) = <<RightStep(layer[2 * m + 2])>>
                  \/ i = 2 * m /\ 2 * m + 1 = Len(layer) /\ StepAt(layer, i) = <<>>
                  \/ i = 2 * m + 1 /\ 2 * m + 1 < Len(layer)
                     /\ StepAt(layer, i) = <<LeftStep(layer[2 * m + 1])>>
<1>1. PICK l \in Nat : l = Len(layer)
  OBVIOUS
<1>2. i \in 0..(l - 1)
  BY <1>1
<1>3. PICK m : m = i \div 2
  OBVIOUS
<1>4. m \in Nat /\ (i = 2 * m \/ i = 2 * m + 1)
  BY <1>2, <1>3
<1>5. m < (l + 1) \div 2 /\ (i = 2 * m => 2 * m + 1 < l \/ 2 * m + 1 = l)
         /\ (i = 2 * m + 1 => 2 * m + 1 < l)
  BY <1>2, <1>4
<1>6. CASE i = 2 * m /\ 2 * m + 1 < l
  BY <1>1, <1>3, <1>4, <1>5, <1>6, StepRight
<1>7. CASE i = 2 * m /\ 2 * m + 1 = l
  BY <1>1, <1>3, <1>4, <1>5, <1>7, StepNone
<1>8. CASE i = 2 * m + 1
  BY <1>1, <1>3, <1>4, <1>5, <1>8, StepLeft
<1>9. QED
  BY <1>4, <1>5, <1>6, <1>7, <1>8

\* One step, or none, after the steps so far.
LEMMA StepsGrow ==
    ASSUME NEW U, NEW layer, Len(layer) \in Nat, \A j \in 1..Len(layer) : layer[j] \in U,
           NEW i \in 0..(Len(layer) - 1), NEW p \in Seq(ProofSteps(U))
    PROVE  /\ p \o StepAt(layer, i) \in Seq(ProofSteps(U))
           /\ \A x : StepAt(layer, i) = <<x>> => /\ x \in ProofSteps(U)
                                                 /\ p \o StepAt(layer, i) = Append(p, x)
           /\ StepAt(layer, i) = <<>> => p \o StepAt(layer, i) = p
<1>1. PICK m : m = i \div 2
  OBVIOUS
<1>2. /\ m \in Nat
      /\ \/ i = 2 * m /\ 2 * m + 1 < Len(layer)
            /\ StepAt(layer, i) = <<RightStep(layer[2 * m + 2])>>
         \/ i = 2 * m /\ 2 * m + 1 = Len(layer) /\ StepAt(layer, i) = <<>>
         \/ i = 2 * m + 1 /\ 2 * m + 1 < Len(layer)
            /\ StepAt(layer, i) = <<LeftStep(layer[2 * m + 1])>>
  BY <1>1, StepCases
<1>3. ASSUME NEW x \in ProofSteps(U), StepAt(layer, i) = <<x>>
      PROVE  p \o StepAt(layer, i) = Append(p, x) /\ Append(p, x) \in Seq(ProofSteps(U))
  BY <1>3, AppendIsConcat, AppendProperties
<1>4. ASSUME StepAt(layer, i) = <<>> PROVE p \o StepAt(layer, i) = p
  BY <1>4, ConcatEmptySeq
<1>5. ASSUME NEW x, StepAt(layer, i) = <<x>> PROVE x \in ProofSteps(U)
  <2>1. StepAt(layer, i) # <<>>
    BY <1>5
  <2>2. CASE i = 2 * m /\ 2 * m + 1 < Len(layer)
                /\ StepAt(layer, i) = <<RightStep(layer[2 * m + 2])>>
    <3>1. x = RightStep(layer[2 * m + 2]) /\ 2 * m + 2 \in 1..Len(layer)
      BY <1>2, <1>5, <2>2
    <3>2. QED
      BY <3>1 DEF RightStep, ProofSteps
  <2>3. CASE i = 2 * m + 1 /\ 2 * m + 1 < Len(layer)
                /\ StepAt(layer, i) = <<LeftStep(layer[2 * m + 1])>>
    <3>1. x = LeftStep(layer[2 * m + 1]) /\ 2 * m + 1 \in 1..Len(layer)
      BY <1>2, <1>5, <2>3
    <3>2. QED
      BY <3>1 DEF LeftStep, ProofSteps
  <2>4. QED
    BY <1>2, <2>1, <2>2, <2>3
<1>6. p \o StepAt(layer, i) \in Seq(ProofSteps(U))
  <2>1. StepAt(layer, i) = <<>> \/ \E x : StepAt(layer, i) = <<x>>
    BY <1>2
  <2>2. QED
    BY <1>3, <1>4, <1>5, <2>1
<1>7. QED
  BY <1>3, <1>4, <1>5, <1>6

\* The walk of GetProof from leaf i to the root.
WalkFrom(layers, i, g, k) ==
    IF k = 1 THEN [index |-> i, steps |-> <<>>]
    ELSE NextLevel(layers[k - 1], g[k - 1])
Walks(layers, i, g) == g = [k \in 1..Len(layers) |-> WalkFrom(layers, i, g, k)]

LEMMA WalkRuns ==
    ASSUME NEW layers, Len(layers) \in Nat, NEW i
    PROVE  \E g : Walks(layers, i, g) /\ GetProof(layers, i) = g[Len(layers)].steps
<1>n. PICK N \in Nat : N = Len(layers)
  OBVIOUS
<1> DEFINE R(m) == \E g : g = [k \in 1..m |-> WalkFrom(layers, i, g, k)]
<1>1. R(0)
  <2>1. PICK g : g = [k \in 1..0 |-> 1]
    OBVIOUS
  <2>2. \A k \in 1..0 : FALSE
    OBVIOUS
  <2>3. g = [k \in 1..0 |-> WalkFrom(layers, i, g, k)]
    BY <2>1, <2>2
  <2>4. QED
    BY <2>3
<1>2. ASSUME NEW m \in 0..N, R(m) PROVE R(m + 1)
  <2>1. PICK g : g = [k \in 1..m |-> WalkFrom(layers, i, g, k)]
    BY <1>2
  <2>2. PICK f : f = [k \in 1..(m + 1) |-> IF k = m + 1 THEN WalkFrom(layers, i, g, m + 1)
                                           ELSE g[k]]
    OBVIOUS
  <2>3. ASSUME NEW k \in 1..(m + 1) PROVE f[k] = WalkFrom(layers, i, f, k)
    <3>1. k # 1 => f[k - 1] = g[k - 1]
      BY <2>2
    <3>2. WalkFrom(layers, i, f, k) = WalkFrom(layers, i, g, k)
      BY <3>1 DEF WalkFrom
    <3>3. k # m + 1 => k \in 1..m /\ f[k] = g[k] /\ g[k] = WalkFrom(layers, i, g, k)
      BY <2>1, <2>2
    <3>4. k = m + 1 => f[k] = WalkFrom(layers, i, g, k)
      BY <2>2
    <3>5. QED
      BY <3>2, <3>3, <3>4
  <2>4. f = [k \in 1..(m + 1) |-> WalkFrom(layers, i, f, k)]
    BY <2>2, <2>3
  <2>5. QED
    BY <2>4
<1>3. PICK S : S = {m \in 0..N : R(m)}
  OBVIOUS
<1> HIDE DEF R
<1>4. 0 \in S /\ \A m \in 0..N : m \in S /\ m < N => m + 1 \in S
  BY <1>1, <1>2, <1>3
<1>5. 0..N \subseteq S
  BY <1>4, UpTo
<1>6. R(N)
  BY <1>3, <1>5
<1>7. QED
  BY <1>6, <1>n DEF R, GetProof, WalkFrom, Walks

LEMMA NextLevelFields ==
    ASSUME NEW layer, NEW at
    PROVE  /\ NextLevel(layer, at).index = at.index \div 2
           /\ NextLevel(layer, at).steps = at.steps \o StepAt(layer, at.index)
  BY DEF NextLevel

\* Its first place, and each next one.
LEMMA WalkSteps ==
    ASSUME NEW layers, Len(layers) \in Nat \ {0}, NEW i, NEW g, Walks(layers, i, g)
    PROVE  /\ g[1] = [index |-> i, steps |-> <<>>]
           /\ \A k \in 1..(Len(layers) - 1) : g[k + 1] = NextLevel(layers[k], g[k])
<1>1. PICK n \in Nat \ {0} : n = Len(layers)
  OBVIOUS
<1>2. \A k \in 1..n : g[k] = WalkFrom(layers, i, g, k)
  BY <1>1 DEF Walks
<1>3. g[1] = WalkFrom(layers, i, g, 1)
  BY <1>2
<1>4. ASSUME NEW k \in 1..(n - 1)
      PROVE  g[k + 1] = NextLevel(layers[k], g[k])
  <2>1. k + 1 \in 1..n /\ k + 1 # 1 /\ (k + 1) - 1 = k
    OBVIOUS
  <2>2. PICK j : j = k + 1
    OBVIOUS
  <2>3. g[j] = WalkFrom(layers, i, g, j) /\ j # 1 /\ j - 1 = k
    BY <1>2, <2>1, <2>2
  <2>4. g[j] = NextLevel(layers[j - 1], g[j - 1])
    BY <2>3, Zenon DEF WalkFrom
  <2>5. QED
    BY <2>2, <2>3, <2>4
<1>5. QED
  BY <1>1, <1>3, <1>4 DEF WalkFrom

LEMMA WalkNext ==
    ASSUME NEW layers, Len(layers) \in Nat \ {0}, NEW i, NEW g, Walks(layers, i, g),
           NEW k \in 1..(Len(layers) - 1)
    PROVE  g[k + 1] = NextLevel(layers[k], g[k])
<1>1. PICK n \in Nat \ {0} : n = Len(layers)
  OBVIOUS
<1>2. \A m \in 1..n : g[m] = WalkFrom(layers, i, g, m)
  BY <1>1 DEF Walks
<1>3. PICK j : j = k + 1
  OBVIOUS
<1>4. j \in 1..n /\ j # 1 /\ j - 1 = k
  BY <1>1, <1>3
<1>5. g[j] = NextLevel(layers[j - 1], g[j - 1])
  BY <1>2, <1>4, Zenon DEF WalkFrom
<1>6. QED
  BY <1>3, <1>4, <1>5

NodesOf(layers) == {layers[k][j] : k \in Nat, j \in Nat}

LEMMA NodesOfLayer ==
    ASSUME NEW layers, NEW k \in Nat, NEW j \in Nat
    PROVE  layers[k][j] \in NodesOf(layers)
  BY DEF NodesOf

WalkOk(layers, g, k) == /\ g[k].index \in 0..(Len(layers[k]) - 1)
                        /\ g[k].steps \in Seq(ProofSteps(NodesOf(layers)))

\* The walk stays inside the layers.
LEMMA WalkInside ==
    ASSUME NEW hashes, NEW layers, IsTree(hashes, layers),
           NEW i \in 0..(Len(hashes) - 1), NEW g, Walks(layers, i, g)
    PROVE  \A k \in 1..Len(layers) : WalkOk(layers, g, k)
<1>n. PICK n \in Nat \ {0} : n = Len(layers)
  BY DEF IsTree
<1>1. /\ g[1] = [index |-> i, steps |-> <<>>]
      /\ \A k \in 1..(n - 1) : g[k + 1] = NextLevel(layers[k], g[k])
  BY <1>n, WalkSteps
<1>2. PICK T : T = {d \in 0..(n - 1) : WalkOk(layers, g, d + 1)}
  OBVIOUS
<1>3. 0 \in T
  <2>1. <<>> \in Seq(ProofSteps(NodesOf(layers)))
    BY EmptySeq
  <2>2. Len(layers[1]) = Len(hashes)
    BY DEF IsTree
  <2>3. WalkOk(layers, g, 1)
    BY <1>1, <2>1, <2>2 DEF WalkOk
  <2>4. 0 \in 0..(n - 1) /\ 0 + 1 = 1
    OBVIOUS
  <2>5. QED
    BY <1>2, <2>3, <2>4
<1>4. ASSUME NEW d \in 0..(n - 1), d \in T, d < n - 1 PROVE d + 1 \in T
  <2>1. PICK k \in 1..(n - 1) : k = d + 1
    BY <1>4
  <2>2. WalkOk(layers, g, k)
    BY <1>2, <1>4, <2>1
  <2>3. PICK x, p : x = g[k].index /\ p = g[k].steps
    OBVIOUS
  <2>4. PICK l : l = Len(layers[k])
    OBVIOUS
  <2>5. l \in Nat \ {0} /\ Len(layers[k + 1]) = (l + 1) \div 2
    <3>1. k \in 1..Len(layers) /\ k \in 1..(Len(layers) - 1)
      BY <1>n, <2>1
    <3>2. Len(layers[k]) \in Nat \ {0} /\ Len(layers[k + 1]) = (Len(layers[k]) + 1) \div 2
      BY <3>1 DEF IsTree
    <3>3. QED
      BY <2>4, <3>2
  <2>6. x \in 0..(l - 1) /\ p \in Seq(ProofSteps(NodesOf(layers)))
    BY <2>2, <2>3, <2>4 DEF WalkOk
  <2>7. \A j \in 1..l : layers[k][j] \in NodesOf(layers)
    BY NodesOfLayer, <2>1, <2>5
  <2>8. p \o StepAt(layers[k], x) \in Seq(ProofSteps(NodesOf(layers)))
    BY <2>4, <2>5, <2>6, <2>7, StepsGrow
  <2>9. x \div 2 \in 0..((l + 1) \div 2 - 1)
    <3>1. x \div 2 \in Nat /\ x \div 2 < (l + 1) \div 2
      BY <2>4, <2>5, <2>6, StepCases
    <3>2. PICK y \in Nat, z \in Nat : y = x \div 2 /\ z = (l + 1) \div 2
      BY <2>5, <3>1
    <3>3. y \in 0..(z - 1)
      BY <3>1, <3>2
    <3>4. QED
      BY <3>2, <3>3
  <2>10. WalkOk(layers, g, k + 1)
    <3>1. g[k + 1].index = x \div 2 /\ g[k + 1].steps = p \o StepAt(layers[k], x)
      <4>1. g[k + 1] = NextLevel(layers[k], g[k])
        BY <1>1, <2>1
      <4>2. /\ NextLevel(layers[k], g[k]).index = g[k].index \div 2
            /\ NextLevel(layers[k], g[k]).steps = g[k].steps \o StepAt(layers[k], g[k].index)
        BY NextLevelFields
      <4>3. /\ g[k + 1].index = g[k].index \div 2
            /\ g[k + 1].steps = g[k].steps \o StepAt(layers[k], g[k].index)
        BY <4>1, <4>2
      <4>4. QED
        BY <2>3, <4>3
    <3>2. g[k + 1].index \in 0..(Len(layers[k + 1]) - 1)
      BY <2>5, <2>9, <3>1
    <3>3. QED
      BY <2>8, <3>1, <3>2 DEF WalkOk
  <2>11. QED
    BY <1>2, <1>4, <2>1, <2>10
<1>5. 0..(n - 1) \subseteq T
  BY <1>3, <1>4, UpTo
<1>6. ASSUME NEW k \in 1..n PROVE WalkOk(layers, g, k)
  <2>1. k - 1 \in T /\ (k - 1) + 1 = k
    BY <1>5
  <2>2. QED
    BY <1>2, <2>1
<1>7. QED
  BY <1>n, <1>6

LEMMA ProofTyped ==
    ASSUME NEW hashes, NEW layers, IsTree(hashes, layers), NEW i \in 0..(Len(hashes) - 1)
    PROVE  GetProof(layers, i) \in Seq(ProofSteps(NodesOf(layers)))
<1>1. Len(layers) \in Nat \ {0}
  BY DEF IsTree
<1>2. PICK g : Walks(layers, i, g) /\ GetProof(layers, i) = g[Len(layers)].steps
  BY <1>1, WalkRuns
<1>3. WalkOk(layers, g, Len(layers))
  BY <1>1, <1>2, WalkInside
<1>4. QED
  BY <1>2, <1>3 DEF WalkOk

-----------------------------------------------------------------------------
(* The built tree against the reference.                                   *)
(*                                                                         *)
(* In each layer node j stands for the leaves from place f[j] on: s of     *)
(* them, a width the reference splits at, and the last node for the rest.  *)

Width(hashes, s, lo) == IF lo + s <= Len(hashes) + 1 THEN s ELSE Len(hashes) + 1 - lo

Starts(s, f) ==
    /\ s \in Nat \ {0} /\ Splits(s)
    /\ f \in [Nat \ {0} -> Nat \ {0}] /\ f[1] = 1
    /\ \A j \in Nat \ {0} : f[j + 1] = f[j] + s
    /\ \A a, b \in Nat \ {0} : a <= b => f[a] <= f[b]

IsLevel(hashes, layer, s, f) ==
    /\ Starts(s, f)
    /\ Len(layer) \in Nat \ {0}
    /\ f[Len(layer)] <= Len(hashes) /\ Len(hashes) < f[Len(layer) + 1]
    /\ \A j \in 1..Len(layer) :
          layer[j] = Subtrees(hashes)[Width(hashes, s, f[j])][f[j]]

Doubled(f) == [j \in Nat \ {0} |-> f[2 * j - 1]]

LEMMA LeavesLevel ==
    ASSUME NEW hashes, Len(hashes) \in Nat \ {0}, Len(Leaves(hashes)) = Len(hashes)
    PROVE  IsLevel(hashes, Leaves(hashes), 1, [j \in Nat \ {0} |-> j])
<1>1. PICK N \in Nat \ {0} : N = Len(hashes)
  OBVIOUS
<1>2. PICK f : f = [j \in Nat \ {0} |-> j]
  OBVIOUS
<1>3. Starts(1, f)
  BY <1>2, SplitsOne DEF Starts
<1>4. f[N] <= N /\ N < f[N + 1]
  BY <1>2
<1>5. ASSUME NEW j \in 1..N
      PROVE  Leaves(hashes)[j] = Subtrees(hashes)[Width(hashes, 1, f[j])][f[j]]
  <2>1. f[j] = j /\ Width(hashes, 1, j) = 1
    BY <1>1, <1>2 DEF Width
  <2>2. Subtrees(hashes)[1][j] = Leaf(hashes[j])
    BY <1>1, SubtreeOne
  <2>3. QED
    BY <1>1, <2>1, <2>2 DEF Leaves
<1>6. IsLevel(hashes, Leaves(hashes), 1, f)
  BY <1>1, <1>3, <1>4, <1>5 DEF IsLevel
<1>7. QED
  BY <1>2, <1>6

LEMMA StartsDoubled ==
    ASSUME NEW s, NEW f, Starts(s, f)
    PROVE  Starts(2 * s, Doubled(f))
<1>1. s \in Nat \ {0} /\ Splits(s)
  BY DEF Starts
<1>2. 2 * s \in Nat \ {0} /\ Splits(2 * s)
  BY <1>1, SplitsTwice
<1>3. \A j \in Nat \ {0} : 2 * j - 1 \in Nat \ {0}
  OBVIOUS
<1>4. PICK e : e = Doubled(f)
  OBVIOUS
<1>5. \A j \in Nat \ {0} : e[j] = f[2 * j - 1]
  BY <1>4 DEF Doubled
<1>6. e \in [Nat \ {0} -> Nat \ {0}]
  BY <1>3, <1>4 DEF Doubled, Starts
<1>7. e[1] = 1
  <2>1. 1 \in Nat \ {0} /\ 2 * 1 - 1 = 1
    OBVIOUS
  <2>2. e[1] = f[1]
    BY <1>5, <2>1
  <2>3. QED
    BY <2>2 DEF Starts
<1>8. ASSUME NEW j \in Nat \ {0} PROVE e[j + 1] = e[j] + 2 * s
  <2>1. PICK a \in Nat \ {0} : a = 2 * j - 1
    BY <1>3
  <2>2. e[j] = f[a] /\ e[j + 1] = f[(a + 1) + 1]
    BY <1>5, <2>1
  <2>3. f[a + 1] = f[a] + s /\ f[(a + 1) + 1] = f[a + 1] + s /\ f[a] \in Nat
    BY <2>1 DEF Starts
  <2>4. QED
    BY <1>1, <2>2, <2>3
<1>9. ASSUME NEW a \in Nat \ {0}, NEW b \in Nat \ {0}, a <= b PROVE e[a] <= e[b]
  <2>1. 2 * a - 1 \in Nat \ {0} /\ 2 * b - 1 \in Nat \ {0} /\ 2 * a - 1 <= 2 * b - 1
    BY <1>9
  <2>2. QED
    BY <1>5, <2>1 DEF Starts
<1>10. Starts(2 * s, e)
  BY <1>2, <1>6, <1>7, <1>8, <1>9 DEF Starts
<1>11. QED
  BY <1>4, <1>10

LEMMA WidthSplit ==
    ASSUME NEW hashes, Len(hashes) \in Nat, NEW lo, NEW s,
           lo \in Nat \ {0}, s \in Nat \ {0}, lo + s <= Len(hashes)
    PROVE  /\ Width(hashes, 2 * s, lo) \in (s + 1)..(2 * s)
           /\ Width(hashes, 2 * s, lo) \in 2..Len(hashes)
           /\ lo \in 1..(Len(hashes) + 1 - Width(hashes, 2 * s, lo))
<1>n. PICK N \in Nat : N = Len(hashes)
  OBVIOUS
<1>1. CASE lo + 2 * s <= N + 1
  BY <1>n, <1>1 DEF Width
<1>2. CASE ~(lo + 2 * s <= N + 1)
  BY <1>n, <1>2 DEF Width
<1>3. QED
  BY <1>1, <1>2

LEMMA WidthLeft ==
    ASSUME NEW hashes, Len(hashes) \in Nat, NEW lo, NEW s,
           lo \in Nat \ {0}, s \in Nat \ {0}, lo + s <= Len(hashes)
    PROVE  Width(hashes, s, lo) = s
<1>1. PICK N \in Nat : N = Len(hashes)
  OBVIOUS
<1>2. QED
  BY <1>1 DEF Width

LEMMA WidthRight ==
    ASSUME NEW hashes, Len(hashes) \in Nat, NEW lo, NEW s,
           lo \in Nat \ {0}, s \in Nat \ {0}, lo + s <= Len(hashes),
           NEW n, n = Width(hashes, 2 * s, lo)
    PROVE  Width(hashes, s, lo + s) = n - s
<1>1. PICK N \in Nat : N = Len(hashes)
  OBVIOUS
<1>2. CASE lo + 2 * s <= N + 1
  BY <1>1, <1>2 DEF Width
<1>3. CASE ~(lo + 2 * s <= N + 1)
  BY <1>1, <1>3 DEF Width
<1>4. QED
  BY <1>2, <1>3

\* Two neighbours: the left one is full, and the reference splits their leaves
\* between them.
LEMMA PairWidths ==
    ASSUME NEW hashes, Len(hashes) \in Nat \ {0}, NEW layer, NEW s, NEW f,
           IsLevel(hashes, layer, s, f),
           NEW j \in Nat \ {0}, 2 * j <= Len(layer), NEW lo, lo = f[2 * j - 1],
           NEW n, n = Width(hashes, 2 * s, lo)
    PROVE  /\ f[2 * j] = lo + s /\ Width(hashes, s, lo) = s
           /\ s \in Nat \ {0} /\ n \in (s + 1)..(2 * s) /\ Width(hashes, s, lo + s) = n - s
           /\ n \in 2..Len(hashes) /\ lo \in 1..(Len(hashes) + 1 - n)
           /\ SplitAt(n) = s
<1>1. PICK N \in Nat \ {0} : N = Len(hashes)
  OBVIOUS
<1>2. PICK l \in Nat \ {0} : l = Len(layer)
  BY DEF IsLevel
<1>3. PICK a \in Nat \ {0} : a = 2 * j - 1
  OBVIOUS
<1>4. 2 * j = a + 1 /\ a + 1 \in Nat \ {0} /\ a + 1 <= l
  BY <1>2, <1>3
<1>5. s \in Nat \ {0} /\ Splits(s) /\ f[a] \in Nat \ {0} /\ f[a + 1] = f[a] + s
         /\ f[a + 1] <= f[l] /\ f[l] \in Nat
  BY <1>2, <1>3, <1>4 DEF IsLevel, Starts
<1>6. f[l] <= N
  BY <1>1, <1>2 DEF IsLevel
<1>7. lo \in Nat \ {0} /\ lo + s <= N /\ f[a + 1] = lo + s
  BY <1>3, <1>5, <1>6
<1>8. /\ n \in (s + 1)..(2 * s) /\ n \in 2..N /\ lo \in 1..(N + 1 - n)
      /\ Width(hashes, s, lo + s) = n - s
      /\ Width(hashes, s, lo) = s
  <2>1. s \in Nat \ {0} /\ lo \in Nat \ {0} /\ lo + s <= Len(hashes) /\ Len(hashes) \in Nat
    BY <1>1, <1>5, <1>7
  <2>2. /\ n \in (s + 1)..(2 * s) /\ n \in 2..Len(hashes)
        /\ lo \in 1..(Len(hashes) + 1 - n)
    BY <2>1, WidthSplit
  <2>3. Width(hashes, s, lo) = s
    BY <2>1, WidthLeft
  <2>4. Width(hashes, s, lo + s) = n - s
    BY <2>1, WidthRight
  <2>5. QED
    BY <1>1, <2>2, <2>3, <2>4
<1>9. SplitAt(n) = s
  BY <1>5, <1>8, SplitsAt
<1>10. QED
  BY <1>1, <1>4, <1>5, <1>7, <1>8, <1>9

\* The node without a neighbour keeps its leaves.
LEMMA LoneWidth ==
    ASSUME NEW hashes, Len(hashes) \in Nat \ {0}, NEW layer, NEW s, NEW f,
           IsLevel(hashes, layer, s, f),
           NEW a \in Nat \ {0}, a = Len(layer)
    PROVE  Width(hashes, 2 * s, f[a]) = Width(hashes, s, f[a])
<1>1. PICK N \in Nat \ {0} : N = Len(hashes)
  OBVIOUS
<1>2. s \in Nat \ {0} /\ f[a] \in Nat \ {0} /\ f[a + 1] = f[a] + s
  BY DEF IsLevel, Starts
<1>3. PICK lo \in Nat \ {0} : lo = f[a]
  BY <1>2
<1>4. N < lo + s
  BY <1>1, <1>2, <1>3 DEF IsLevel
<1>5. Width(hashes, 2 * s, lo) = IF lo + 2 * s <= N + 1 THEN 2 * s ELSE N + 1 - lo
  BY <1>1 DEF Width
<1>6. Width(hashes, s, lo) = IF lo + s <= N + 1 THEN s ELSE N + 1 - lo
  BY <1>1 DEF Width
<1>7. Width(hashes, 2 * s, lo) = Width(hashes, s, lo)
  BY <1>2, <1>4, <1>5, <1>6
<1>8. QED
  BY <1>3, <1>7

\* So pairing the nodes of a layer gives the nodes of the reference again.
LEMMA LevelUp ==
    ASSUME NEW hashes, Len(hashes) \in Nat \ {0}, NEW layer, NEW s, NEW f,
           IsLevel(hashes, layer, s, f)
    PROVE  IsLevel(hashes, Pairs(layer), 2 * s, Doubled(f))
<1>1. PICK l \in Nat \ {0} : l = Len(layer)
  BY DEF IsLevel
<1>2. PICK h \in Nat \ {0} : h = (l + 1) \div 2
  BY <1>1
<1>3. l = 2 * h \/ l = 2 * h - 1
  BY <1>2
<1>4. Len(Pairs(layer)) = h
  BY <1>1, <1>2, PairsLen
<1>5. PICK e : e = Doubled(f)
  OBVIOUS
<1>6. \A j \in Nat \ {0} : e[j] = f[2 * j - 1]
  BY <1>5 DEF Doubled
<1>7. Starts(2 * s, e)
  BY <1>5, StartsDoubled DEF IsLevel
<1>8. e[h] <= Len(hashes)
  <2>1. 2 * h - 1 \in Nat \ {0} /\ 2 * h - 1 <= l
    BY <1>3
  <2>2. f[2 * h - 1] <= f[l] /\ f[2 * h - 1] \in Nat /\ f[l] \in Nat
    BY <2>1, <1>1 DEF IsLevel, Starts
  <2>3. f[l] <= Len(hashes)
    BY <1>1 DEF IsLevel
  <2>4. e[h] = f[2 * h - 1]
    BY <1>6
  <2>5. PICK u \in Nat, v \in Nat : u = f[2 * h - 1] /\ v = f[l] /\ u <= v
    BY <2>2
  <2>6. u <= Len(hashes)
    BY <2>3, <2>5
  <2>7. QED
    BY <2>4, <2>5, <2>6
<1>9. Len(hashes) < e[h + 1]
  <2>1. PICK b \in Nat \ {0} : b = 2 * h + 1
    OBVIOUS
  <2>2. l + 1 <= b /\ 2 * (h + 1) - 1 = b /\ l + 1 \in Nat \ {0} /\ h + 1 \in Nat \ {0}
    BY <1>3, <2>1
  <2>3. e[h + 1] = f[b]
    BY <1>6, <2>2
  <2>4. f[l + 1] <= f[b] /\ f[b] \in Nat /\ f[l + 1] \in Nat
    BY <2>2 DEF IsLevel, Starts
  <2>5. Len(hashes) < f[l + 1]
    BY <1>1 DEF IsLevel
  <2>6. QED
    BY <2>3, <2>4, <2>5
<1>10. ASSUME NEW j \in 1..h
       PROVE  Pairs(layer)[j] = Subtrees(hashes)[Width(hashes, 2 * s, e[j])][e[j]]
  <2>1. PICK a \in Nat \ {0} : a = 2 * j - 1
    OBVIOUS
  <2>2. a \in 1..l /\ e[j] = f[a]
    BY <1>3, <1>6, <2>1
  <2>3. PICK lo : lo = f[a]
    OBVIOUS
  <2>4. Pairs(layer)[j] = IF 2 * j <= l THEN Node(layer[a], layer[2 * j]) ELSE layer[a]
    BY <1>1, <1>2, <2>1, PairsAt
  <2>5. CASE 2 * j <= l
    <3>1. PICK n : n = Width(hashes, 2 * s, lo)
      OBVIOUS
    <3>2. /\ f[2 * j] = lo + s /\ Width(hashes, s, lo) = s
          /\ Width(hashes, s, lo + s) = n - s
          /\ n \in 2..Len(hashes) /\ lo \in 1..(Len(hashes) + 1 - n)
          /\ SplitAt(n) = s
      BY <1>1, <2>1, <2>3, <2>5, <3>1, PairWidths
    <3>3. layer[a] = Subtrees(hashes)[s][lo]
      BY <1>1, <2>2, <2>3, <3>2 DEF IsLevel
    <3>4. layer[2 * j] = Subtrees(hashes)[n - s][lo + s]
      <4>1. 2 * j \in 1..Len(layer)
        BY <1>1, <2>5
      <4>2. layer[2 * j] = Subtrees(hashes)[Width(hashes, s, f[2 * j])][f[2 * j]]
        BY <4>1 DEF IsLevel
      <4>3. QED
        BY <3>2, <4>2
    <3>5. Subtrees(hashes)[n][lo] = Node(Subtrees(hashes)[s][lo],
                                         Subtrees(hashes)[n - s][lo + s])
      BY <3>2, SubtreeNode
    <3>6. QED
      BY <2>2, <2>3, <2>4, <2>5, <3>1, <3>3, <3>4, <3>5
  <2>6. CASE ~(2 * j <= l)
    <3>1. a = l
      BY <2>1, <2>2, <2>6
    <3>2. Width(hashes, 2 * s, f[a]) = Width(hashes, s, f[a])
      BY <1>1, <3>1, LoneWidth
    <3>3. layer[a] = Subtrees(hashes)[Width(hashes, s, f[a])][f[a]]
      BY <1>1, <2>2 DEF IsLevel
    <3>4. QED
      BY <2>2, <2>4, <2>6, <3>2, <3>3
  <2>7. QED
    BY <2>5, <2>6
<1>11. IsLevel(hashes, Pairs(layer), 2 * s, e)
  BY <1>4, <1>7, <1>8, <1>9, <1>10 DEF IsLevel
<1>12. QED
  BY <1>5, <1>11

\* The walk from leaf i is, in each layer, at the node that stands for i, with
\* the audit path of i under that node.
IsPlace(hashes, i, gp, s, f, U, x, p) ==
    /\ f[x + 1] <= i + 1 /\ i + 1 < f[x + 1] + s
    /\ p = gp[Width(hashes, s, f[x + 1])][f[x + 1]]
    /\ p \in Seq(ProofSteps(U))

LEMMA PathAt ==
    ASSUME NEW hashes, Len(hashes) \in Nat, NEW i, NEW gp, Paths(hashes, i, gp),
           NEW n \in 2..Len(hashes), NEW lo \in 1..(Len(hashes) + 1 - n)
    PROVE  gp[n][lo] = Append(IF i < lo + SplitAt(n) - 1
                              THEN gp[SplitAt(n)][lo]
                              ELSE gp[n - SplitAt(n)][lo + SplitAt(n)],
                              PathStep(Subtrees(hashes), i, n, lo))
<1>1. gp[n] = PathRow(hashes, i, gp, n)
  BY DEF Paths
<1>2. n # 1
  OBVIOUS
<1>3. PathRow(hashes, i, gp, n)[lo] =
        IF n = 1 THEN <<>>
        ELSE Append(IF i < lo + SplitAt(n) - 1 THEN gp[SplitAt(n)][lo]
                                               ELSE gp[n - SplitAt(n)][lo + SplitAt(n)],
                    PathStep(Subtrees(hashes), i, n, lo))
  BY DEF PathRow
<1>4. QED
  BY <1>1, <1>2, <1>3, Zenon

LEMMA PlaceUp ==
    ASSUME NEW hashes, Len(hashes) \in Nat \ {0}, NEW layer, NEW s, NEW f,
           IsLevel(hashes, layer, s, f),
           NEW i \in Nat, NEW gp, Paths(hashes, i, gp),
           NEW U, \A j \in 1..Len(layer) : layer[j] \in U,
           NEW x \in 0..(Len(layer) - 1), NEW p,
           IsPlace(hashes, i, gp, s, f, U, x, p)
    PROVE  IsPlace(hashes, i, gp, 2 * s, Doubled(f), U, x \div 2, p \o StepAt(layer, x))
<1>1. PICK l \in Nat \ {0} : l = Len(layer)
  BY DEF IsLevel
<1>2. PICK y : y = x \div 2
  OBVIOUS
<1>3. /\ y \in Nat
      /\ \/ x = 2 * y /\ 2 * y + 1 < l
            /\ StepAt(layer, x) = <<RightStep(layer[2 * y + 2])>>
         \/ x = 2 * y /\ 2 * y + 1 = l /\ StepAt(layer, x) = <<>>
         \/ x = 2 * y + 1 /\ 2 * y + 1 < l
            /\ StepAt(layer, x) = <<LeftStep(layer[2 * y + 1])>>
  BY <1>1, <1>2, StepCases
<1>4. PICK j \in Nat \ {0} : j = y + 1
  BY <1>3
<1>5. 2 * j - 1 = 2 * y + 1 /\ 2 * j = 2 * y + 2 /\ 2 * y + 1 \in Nat \ {0}
  BY <1>3, <1>4
<1>6. PICK lo, e, n, q : /\ lo = f[2 * y + 1] /\ e = Doubled(f)
                         /\ n = Width(hashes, 2 * s, lo) /\ q = p \o StepAt(layer, x)
  OBVIOUS
<1>7. e[y + 1] = lo
  BY <1>4, <1>5, <1>6 DEF Doubled
<1>8. /\ q \in Seq(ProofSteps(U))
      /\ \A z : StepAt(layer, x) = <<z>> => q = Append(p, z)
      /\ StepAt(layer, x) = <<>> => q = p
  <2>1. p \in Seq(ProofSteps(U)) /\ Len(layer) \in Nat
    BY <1>1 DEF IsPlace
  <2>2. /\ p \o StepAt(layer, x) \in Seq(ProofSteps(U))
        /\ \A z : StepAt(layer, x) = <<z>> => p \o StepAt(layer, x) = Append(p, z)
        /\ StepAt(layer, x) = <<>> => p \o StepAt(layer, x) = p
    BY <2>1, StepsGrow
  <2>3. QED
    BY <1>6, <2>2
<1>9. s \in Nat \ {0} /\ lo \in Nat \ {0} /\ f[2 * y + 2] = lo + s
  <2>1. f[(2 * y + 1) + 1] = lo + s /\ s \in Nat \ {0} /\ lo \in Nat \ {0}
    BY <1>5, <1>6 DEF IsLevel, Starts
  <2>2. (2 * y + 1) + 1 = 2 * y + 2
    BY <1>3
  <2>3. QED
    BY <2>1, <2>2
<1>10. \A w \in 1..l : layer[w] = Subtrees(hashes)[Width(hashes, s, f[w])][f[w]]
  BY <1>1 DEF IsLevel
<1>11. 2 * j <= l =>
          /\ Width(hashes, s, lo) = s /\ Width(hashes, s, lo + s) = n - s
          /\ n \in 2..Len(hashes) /\ lo \in 1..(Len(hashes) + 1 - n)
          /\ SplitAt(n) = s
  BY <1>1, <1>5, <1>6, PairWidths
<1>12. CASE x = 2 * y /\ 2 * y + 1 < l /\ StepAt(layer, x) = <<RightStep(layer[2 * y + 2])>>
  <2>1. 2 * j <= l /\ 2 * y + 2 \in 1..l /\ x + 1 = 2 * y + 1
    BY <1>3, <1>5, <1>12
  <2>2. lo <= i + 1 /\ i + 1 < lo + s /\ p = gp[s][lo]
    BY <1>6, <1>11, <2>1 DEF IsPlace
  <2>3. layer[2 * y + 2] = Subtrees(hashes)[n - s][lo + s]
    BY <1>9, <1>10, <1>11, <2>1
  <2>4. i < lo + s - 1
    BY <1>9, <2>2
  <2>5. gp[n][lo] = Append(gp[s][lo], PathStep(Subtrees(hashes), i, n, lo))
    BY <1>11, <2>1, <2>4, PathAt
  <2>6. PathStep(Subtrees(hashes), i, n, lo) = RightStep(layer[2 * y + 2])
    BY <1>11, <2>1, <2>3, <2>4 DEF PathStep, RightStep
  <2>7. q = gp[n][lo]
    BY <1>8, <1>12, <2>2, <2>5, <2>6
  <2>8. i + 1 < lo + 2 * s
    BY <1>9, <2>2
  <2>9. QED
    BY <1>2, <1>6, <1>7, <1>8, <2>2, <2>7, <2>8 DEF IsPlace
<1>13. CASE x = 2 * y /\ 2 * y + 1 = l /\ StepAt(layer, x) = <<>>
  <2>1. Width(hashes, 2 * s, lo) = Width(hashes, s, lo)
    BY <1>1, <1>6, <1>13, LoneWidth
  <2>2. lo <= i + 1 /\ i + 1 < lo + s /\ p = gp[Width(hashes, s, lo)][lo]
    BY <1>6, <1>13 DEF IsPlace
  <2>3. i + 1 < lo + 2 * s
    BY <1>9, <2>2
  <2>4. QED
    BY <1>2, <1>6, <1>7, <1>8, <1>13, <2>1, <2>2, <2>3 DEF IsPlace
<1>14. CASE x = 2 * y + 1 /\ 2 * y + 1 < l /\ StepAt(layer, x) = <<LeftStep(layer[2 * y + 1])>>
  <2>1. 2 * j <= l /\ 2 * y + 1 \in 1..l /\ x + 1 = 2 * y + 2
    BY <1>3, <1>5, <1>14
  <2>2. lo + s <= i + 1 /\ i + 1 < (lo + s) + s /\ p = gp[n - s][lo + s]
    BY <1>9, <1>11, <2>1 DEF IsPlace
  <2>3. layer[2 * y + 1] = Subtrees(hashes)[s][lo]
    BY <1>6, <1>10, <1>11, <2>1
  <2>4. ~(i < lo + s - 1)
    BY <1>9, <2>2
  <2>5. gp[n][lo] = Append(gp[n - s][lo + s], PathStep(Subtrees(hashes), i, n, lo))
    BY <1>11, <2>1, <2>4, PathAt
  <2>6. PathStep(Subtrees(hashes), i, n, lo) = LeftStep(layer[2 * y + 1])
    BY <1>11, <2>1, <2>3, <2>4 DEF PathStep, LeftStep
  <2>7. q = gp[n][lo]
    BY <1>8, <1>14, <2>2, <2>5, <2>6
  <2>8. lo <= i + 1 /\ i + 1 < lo + 2 * s
    BY <1>9, <2>2
  <2>9. QED
    BY <1>2, <1>6, <1>7, <1>8, <2>7, <2>8 DEF IsPlace
<1>15. QED
  BY <1>3, <1>12, <1>13, <1>14

\* A leaf is at its own place, with an empty path.
LEMMA PlaceOfLeaf ==
    ASSUME NEW hashes, Len(hashes) \in Nat \ {0}, NEW i \in 0..(Len(hashes) - 1),
           NEW gp, Paths(hashes, i, gp), NEW U
    PROVE  IsPlace(hashes, i, gp, 1, [j \in Nat \ {0} |-> j], U, i, <<>>)
<1>1. PICK N \in Nat \ {0} : N = Len(hashes)
  OBVIOUS
<1>2. PICK f : f = [j \in Nat \ {0} |-> j]
  OBVIOUS
<1>3. PICK lo \in 1..N : lo = i + 1
  BY <1>1
<1>4. f[i + 1] = lo /\ i + 1 = lo
  BY <1>2, <1>3
<1>5. Width(hashes, 1, lo) = 1
  BY <1>1 DEF Width
<1>6. gp[1] = PathRow(hashes, i, gp, 1)
  BY <1>1 DEF Paths
<1>7. gp[1][lo] = <<>>
  BY <1>1, <1>6 DEF PathRow
<1>8. <<>> \in Seq(ProofSteps(U))
  BY EmptySeq
<1>9. f[i + 1] <= i + 1 /\ i + 1 < f[i + 1] + 1
  BY <1>3, <1>4
<1>10. IsPlace(hashes, i, gp, 1, f, U, i, <<>>)
  BY <1>4, <1>5, <1>7, <1>8, <1>9 DEF IsPlace
<1>11. QED
  BY <1>2, <1>10

\* A layer of one node stands for all leaves.
LEMMA TopWidth ==
    ASSUME NEW hashes, Len(hashes) \in Nat \ {0}, NEW layer, NEW s, NEW f,
           IsLevel(hashes, layer, s, f), Len(layer) = 1
    PROVE  f[1] = 1 /\ Width(hashes, s, 1) = Len(hashes)
<1>1. PICK N \in Nat \ {0} : N = Len(hashes)
  OBVIOUS
<1>2. s \in Nat \ {0} /\ f[1] = 1 /\ f[1 + 1] = f[1] + s
  BY DEF IsLevel, Starts
<1>3. N < 1 + s
  BY <1>1, <1>2 DEF IsLevel
<1>4. Width(hashes, s, 1) = IF 1 + s <= N + 1 THEN s ELSE N + 1 - 1
  BY <1>1 DEF Width
<1>5. Width(hashes, s, 1) = N
  BY <1>2, <1>3, <1>4
<1>6. QED
  BY <1>1, <1>2, <1>5

\* The tree of the code is the tree of the reference, its proofs the audit
\* paths, for any number of leaves.
LEMMA TreeIsReference ==
    ASSUME NEW hashes, Len(hashes) \in Nat \ {0}, NEW i \in 0..(Len(hashes) - 1)
    PROVE  /\ RootOf(BuildLayers(hashes)) = TreeHash(hashes)
           /\ GetProof(BuildLayers(hashes), i) = AuditPath(hashes, i)
<1>1. PICK layers : layers = BuildLayers(hashes)
  OBVIOUS
<1>2. IsTree(hashes, layers)
  BY <1>1, TreeBuilt
<1>3. PICK n \in Nat \ {0} : n = Len(layers)
  BY <1>2 DEF IsTree
<1>4. PICK g : Walks(layers, i, g) /\ GetProof(layers, i) = g[n].steps
  BY <1>3, WalkRuns
<1>5. g[1] = [index |-> i, steps |-> <<>>]
      /\ \A k \in 1..(n - 1) : g[k + 1] = NextLevel(layers[k], g[k])
  BY <1>3, <1>4, WalkSteps
<1>6. PICK gp : Paths(hashes, i, gp) /\ AuditPath(hashes, i) = gp[Len(hashes)][1]
  BY PathRuns
<1>7. PICK U : U = NodesOf(layers)
  OBVIOUS
<1> DEFINE At(k) == \E s, f : /\ IsLevel(hashes, layers[k], s, f)
                              /\ IsPlace(hashes, i, gp, s, f, U, g[k].index, g[k].steps)
<1>8. At(1)
  <2>1. layers[1] = Leaves(hashes) /\ Len(Leaves(hashes)) = Len(hashes)
    BY <1>2 DEF IsTree
  <2>2. IsLevel(hashes, layers[1], 1, [j \in Nat \ {0} |-> j])
    BY <2>1, LeavesLevel
  <2>3. IsPlace(hashes, i, gp, 1, [j \in Nat \ {0} |-> j], U, i, <<>>)
    BY <1>6, PlaceOfLeaf
  <2>4. g[1].index = i /\ g[1].steps = <<>>
    BY <1>5
  <2>5. QED
    BY <2>2, <2>3, <2>4
<1>9. ASSUME NEW k \in 1..(n - 1), At(k) PROVE At(k + 1)
  <2>1. PICK s, f : /\ IsLevel(hashes, layers[k], s, f)
                    /\ IsPlace(hashes, i, gp, s, f, U, g[k].index, g[k].steps)
    BY <1>9
  <2>2. PICK x, p : x = g[k].index /\ p = g[k].steps
    OBVIOUS
  <2>3. k \in 1..Len(layers) /\ k \in 1..(Len(layers) - 1) /\ k \in Nat
    BY <1>3
  <2>4. x \in 0..(Len(layers[k]) - 1)
    BY <1>2, <1>4, <2>2, <2>3, WalkInside DEF WalkOk
  <2>5. layers[k + 1] = Pairs(layers[k]) /\ Len(layers[k]) \in Nat \ {0}
    BY <1>2, <2>3 DEF IsTree
  <2>6. \A j \in 1..Len(layers[k]) : layers[k][j] \in U
    BY <1>7, <2>3, <2>5, NodesOfLayer
  <2>7. IsLevel(hashes, layers[k + 1], 2 * s, Doubled(f))
    BY <2>1, <2>5, LevelUp
  <2>8. IsPlace(hashes, i, gp, s, f, U, x, p)
    BY <2>1, <2>2
  <2>9. IsPlace(hashes, i, gp, 2 * s, Doubled(f), U, x \div 2, p \o StepAt(layers[k], x))
    BY <1>6, <2>1, <2>4, <2>6, <2>8, PlaceUp
  <2>10. g[k + 1].index = x \div 2 /\ g[k + 1].steps = p \o StepAt(layers[k], x)
    <3>1. /\ NextLevel(layers[k], g[k]).index = g[k].index \div 2
          /\ NextLevel(layers[k], g[k]).steps = g[k].steps \o StepAt(layers[k], g[k].index)
      BY NextLevelFields
    <3>2. g[k + 1] = NextLevel(layers[k], g[k])
      BY <1>5
    <3>3. /\ g[k + 1].index = g[k].index \div 2
          /\ g[k + 1].steps = g[k].steps \o StepAt(layers[k], g[k].index)
      BY <3>1, <3>2
    <3>4. QED
      BY <2>2, <3>3
  <2>11. IsPlace(hashes, i, gp, 2 * s, Doubled(f), U, g[k + 1].index, g[k + 1].steps)
    BY <2>9, <2>10
  <2>12. QED
    BY <2>7, <2>11
<1>10. PICK T : T = {d \in 0..(n - 1) : At(d + 1)}
  OBVIOUS
<1> HIDE DEF At
<1>11. 0 \in T
  BY <1>8, <1>10
<1>12. ASSUME NEW d \in 0..(n - 1), d \in T, d < n - 1 PROVE d + 1 \in T
  <2>1. d + 1 \in 1..(n - 1) /\ d + 1 \in 0..(n - 1) /\ At(d + 1)
    BY <1>10, <1>12
  <2>2. At((d + 1) + 1)
    BY <1>9, <2>1
  <2>3. QED
    BY <1>10, <2>1, <2>2
<1>13. 0..(n - 1) \subseteq T
  BY <1>11, <1>12, UpTo
<1>14. At(n)
  <2>1. n - 1 \in T /\ (n - 1) + 1 = n
    BY <1>13
  <2>2. QED
    BY <1>10, <2>1
<1>15. PICK s, f : /\ IsLevel(hashes, layers[n], s, f)
                   /\ IsPlace(hashes, i, gp, s, f, U, g[n].index, g[n].steps)
  BY <1>14 DEF At
<1>16. Len(layers[n]) = 1
  BY <1>2, <1>3 DEF IsTree
<1>17. f[1] = 1 /\ Width(hashes, s, 1) = Len(hashes)
  BY <1>15, <1>16, TopWidth
<1>18. layers[n][1] = Subtrees(hashes)[Len(hashes)][1]
  <2>1. 1 \in 1..Len(layers[n])
    BY <1>16
  <2>2. layers[n][1] = Subtrees(hashes)[Width(hashes, s, f[1])][f[1]]
    BY <1>15, <2>1 DEF IsLevel
  <2>3. QED
    BY <1>17, <2>2
<1>19. g[n].steps = gp[Len(hashes)][1]
  <2>1. n \in 1..Len(layers)
    BY <1>3
  <2>2. g[n].index \in 0..(Len(layers[n]) - 1)
    BY <1>2, <1>4, <2>1, WalkInside DEF WalkOk
  <2>3. g[n].index + 1 = 1
    BY <1>16, <2>2
  <2>4. g[n].steps = gp[Width(hashes, s, f[g[n].index + 1])][f[g[n].index + 1]]
    BY <1>15 DEF IsPlace
  <2>5. QED
    BY <1>17, <2>3, <2>4
<1>20. RootOf(layers) = TreeHash(hashes)
  BY <1>3, <1>18 DEF RootOf, TreeHash
<1>21. GetProof(layers, i) = AuditPath(hashes, i)
  BY <1>4, <1>6, <1>19
<1>22. QED
  BY <1>1, <1>20, <1>21

-----------------------------------------------------------------------------
(* Verification.                                                           *)

\* Hash values are told apart by what they were computed from.
LEMMA LeafOnly == \A h1, h2 : Leaf(h1) = Leaf(h2) => h1 = h2
  BY DEF Leaf

LEMMA NodeOnly == \A l1, r1, l2, r2 : Node(l1, r1) = Node(l2, r2) => l1 = l2 /\ r1 = r2
  BY DEF Node

LEMMA LeafNotNode == \A h, l, r : Leaf(h) # Node(l, r)
<1>1. TAKE h, l, r
<1>2. Leaf(h)[1] = "leaf" /\ Node(l, r)[1] = "node"
  BY DEF Leaf, Node
<1>3. "leaf" # "node"
  OBVIOUS
<1>4. QED
  BY <1>2, <1>3

LEMMA StepUpNode ==
    ASSUME NEW U, NEW z \in ProofSteps(U), NEW c
    PROVE  \/ z = LeftStep(z.hash) /\ StepUp(c, z) = Node(z.hash, c)
           \/ z = RightStep(z.hash) /\ StepUp(c, z) = Node(c, z.hash)
<1>1. z.position = "left" \/ z.position = "right"
  BY DEF ProofSteps
<1>2. z = [position |-> z.position, hash |-> z.hash]
  BY DEF ProofSteps
<1>3. CASE z.position = "left"
  BY <1>2, <1>3 DEF LeftStep, StepUp
<1>4. CASE z.position = "right"
  <2>1. z.position # "left"
    BY <1>4
  <2>2. QED
    BY <1>2, <1>4, <2>1 DEF RightStep, StepUp
<1>5. QED
  BY <1>1, <1>3, <1>4

ClimbFrom(x, proof, g, k) == IF k = 0 THEN x ELSE StepUp(g[k - 1], proof[k])
Climbs(x, proof, g) == g = [k \in 0..Len(proof) |-> ClimbFrom(x, proof, g, k)]

LEMMA ClimbRuns ==
    ASSUME NEW x, NEW proof, Len(proof) \in Nat
    PROVE  \E g : Climbs(x, proof, g) /\ Climb(x, proof) = g[Len(proof)]
<1>n. PICK n \in Nat : n = Len(proof)
  OBVIOUS
<1> DEFINE R(m) == \E g : g = [k \in 0..m |-> ClimbFrom(x, proof, g, k)]
<1>1. R(0)
  <2>1. PICK g : g = [k \in 0..0 |-> x]
    OBVIOUS
  <2>2. g = [k \in 0..0 |-> ClimbFrom(x, proof, g, k)]
    BY <2>1 DEF ClimbFrom
  <2>3. QED
    BY <2>2
<1>2. ASSUME NEW m \in 0..n, R(m) PROVE R(m + 1)
  <2>1. PICK g : g = [k \in 0..m |-> ClimbFrom(x, proof, g, k)]
    BY <1>2
  <2>2. PICK f : f = [k \in 0..(m + 1) |-> IF k = m + 1 THEN ClimbFrom(x, proof, g, m + 1)
                                           ELSE g[k]]
    OBVIOUS
  <2>3. ASSUME NEW k \in 0..(m + 1) PROVE f[k] = ClimbFrom(x, proof, f, k)
    <3>1. k # 0 => f[k - 1] = g[k - 1]
      BY <2>2
    <3>2. ClimbFrom(x, proof, f, k) = ClimbFrom(x, proof, g, k)
      BY <3>1 DEF ClimbFrom
    <3>3. k # m + 1 => k \in 0..m /\ f[k] = g[k] /\ g[k] = ClimbFrom(x, proof, g, k)
      BY <2>1, <2>2
    <3>4. k = m + 1 => f[k] = ClimbFrom(x, proof, g, k)
      BY <2>2
    <3>5. QED
      BY <3>2, <3>3, <3>4
  <2>4. f = [k \in 0..(m + 1) |-> ClimbFrom(x, proof, f, k)]
    BY <2>2, <2>3
  <2>5. QED
    BY <2>4
<1>3. PICK S : S = {m \in 0..n : R(m)}
  OBVIOUS
<1> HIDE DEF R
<1>4. 0 \in S /\ \A m \in 0..n : m \in S /\ m < n => m + 1 \in S
  BY <1>1, <1>2, <1>3
<1>5. 0..n \subseteq S
  BY <1>4, UpTo
<1>6. R(n)
  BY <1>3, <1>5
<1>7. QED
  BY <1>6, <1>n DEF R, Climb, ClimbFrom, Climbs

LEMMA ClimbOnly ==
    ASSUME NEW x, NEW proof, Len(proof) \in Nat,
           NEW f, Climbs(x, proof, f), NEW g, Climbs(x, proof, g)
    PROVE  f[Len(proof)] = g[Len(proof)]
<1>n. PICK n \in Nat : n = Len(proof)
  OBVIOUS
<1>1. PICK T : T = {k \in 0..n : f[k] = g[k]}
  OBVIOUS
<1>2. \A k \in 0..n : f[k] = ClimbFrom(x, proof, f, k) /\ g[k] = ClimbFrom(x, proof, g, k)
  BY <1>n DEF Climbs
<1>3. 0 \in T
  BY <1>1, <1>2 DEF ClimbFrom
<1>4. ASSUME NEW k \in 0..n, k \in T, k < n PROVE k + 1 \in T
  <2>1. PICK m : m = k + 1
    OBVIOUS
  <2>2. m \in 0..n /\ m # 0 /\ m - 1 = k
    BY <1>4, <2>1
  <2>3. ClimbFrom(x, proof, f, m) = ClimbFrom(x, proof, g, m)
    BY <1>1, <1>4, <2>2 DEF ClimbFrom
  <2>4. f[m] = g[m]
    BY <1>2, <2>2, <2>3
  <2>5. QED
    BY <1>1, <2>1, <2>2, <2>4
<1>5. 0..n \subseteq T
  BY <1>3, <1>4, UpTo
<1>6. QED
  BY <1>n, <1>1, <1>5

LEMMA ClimbNothing == \A x : Climb(x, <<>>) = x
<1>1. TAKE x
<1>2. Len(<<>>) = 0
  OBVIOUS
<1>3. PICK g : Climbs(x, <<>>, g) /\ Climb(x, <<>>) = g[0]
  BY <1>2, ClimbRuns
<1>4. g[0] = ClimbFrom(x, <<>>, g, 0)
  BY <1>2, <1>3 DEF Climbs
<1>5. QED
  BY <1>3, <1>4 DEF ClimbFrom

LEMMA ClimbAppend ==
    ASSUME NEW x, NEW S, NEW p \in Seq(S), NEW z \in S
    PROVE  Climb(x, Append(p, z)) = StepUp(Climb(x, p), z)
<1>1. PICK q : q = Append(p, z)
  OBVIOUS
<1>2. PICK n \in Nat : n = Len(p)
  OBVIOUS
<1>3. Len(q) = n + 1 /\ q[n + 1] = z /\ \A k \in 1..n : q[k] = p[k]
  BY <1>1, <1>2, AppendProperties
<1>4. PICK g : Climbs(x, q, g) /\ Climb(x, q) = g[n + 1]
  <2>1. Len(q) \in Nat
    BY <1>3
  <2>2. PICK g : Climbs(x, q, g) /\ Climb(x, q) = g[Len(q)]
    BY <2>1, ClimbRuns
  <2>3. QED
    BY <1>3, <2>2
<1>5. \A k \in 0..(n + 1) : g[k] = ClimbFrom(x, q, g, k)
  BY <1>3, <1>4 DEF Climbs
<1>6. PICK f : f = [k \in 0..n |-> g[k]]
  OBVIOUS
<1>7. ASSUME NEW k \in 0..n PROVE f[k] = ClimbFrom(x, p, f, k)
  <2>1. k \in 0..(n + 1) /\ f[k] = g[k]
    BY <1>6
  <2>2. k # 0 => k \in 1..n /\ q[k] = p[k] /\ f[k - 1] = g[k - 1]
    BY <1>3, <1>6
  <2>3. ClimbFrom(x, q, g, k) = ClimbFrom(x, p, f, k)
    BY <2>2 DEF ClimbFrom
  <2>4. QED
    BY <1>5, <2>1, <2>3
<1>8. Climbs(x, p, f)
  BY <1>2, <1>6, <1>7 DEF Climbs
<1>9. PICK e : Climbs(x, p, e) /\ Climb(x, p) = e[n]
  BY <1>2, ClimbRuns
<1>10. e[n] = f[n]
  <2>1. e[Len(p)] = f[Len(p)]
    <3>1. Len(p) \in Nat
      OBVIOUS
    <3>2. QED
      BY <3>1, <1>8, <1>9, ClimbOnly
  <2>2. QED
    BY <1>2, <2>1
<1>11. f[n] = g[n]
  BY <1>6
<1>12. g[n + 1] = StepUp(g[n], z)
  <2>1. n + 1 \in 0..(n + 1) /\ n + 1 # 0 /\ (n + 1) - 1 = n
    OBVIOUS
  <2>2. g[n + 1] = ClimbFrom(x, q, g, n + 1)
    BY <1>5, <2>1
  <2>3. ClimbFrom(x, q, g, n + 1) = StepUp(g[n], q[n + 1])
    BY <2>1 DEF ClimbFrom
  <2>4. QED
    BY <1>3, <2>2, <2>3
<1>13. QED
  BY <1>1, <1>4, <1>9, <1>10, <1>11, <1>12

\* The proof of a leaf leads from node to node up to the root.
LEMMA ClimbsLayer ==
    ASSUME NEW U, NEW layer, Len(layer) \in Nat, \A j \in 1..Len(layer) : layer[j] \in U,
           NEW x \in 0..(Len(layer) - 1), NEW p \in Seq(ProofSteps(U)),
           NEW c, Climb(c, p) = layer[x + 1]
    PROVE  Climb(c, p \o StepAt(layer, x)) = Pairs(layer)[(x \div 2) + 1]
<1>1. PICK y : y = x \div 2
  OBVIOUS
<1>2. PICK l \in Nat : l = Len(layer)
  OBVIOUS
<1>3. /\ y \in Nat /\ y < (l + 1) \div 2
      /\ \/ x = 2 * y /\ 2 * y + 1 < l
            /\ StepAt(layer, x) = <<RightStep(layer[2 * y + 2])>>
         \/ x = 2 * y /\ 2 * y + 1 = l /\ StepAt(layer, x) = <<>>
         \/ x = 2 * y + 1 /\ 2 * y + 1 < l
            /\ StepAt(layer, x) = <<LeftStep(layer[2 * y + 1])>>
  BY <1>1, <1>2, StepCases
<1>4. /\ \A z : StepAt(layer, x) = <<z>> => /\ z \in ProofSteps(U)
                                            /\ p \o StepAt(layer, x) = Append(p, z)
      /\ StepAt(layer, x) = <<>> => p \o StepAt(layer, x) = p
  BY StepsGrow
<1>5. PICK j \in 1..((l + 1) \div 2) : j = y + 1
  <2>1. PICK h \in Nat : h = (l + 1) \div 2
    BY <1>2
  <2>2. y + 1 \in 1..h
    BY <1>3, <2>1
  <2>3. QED
    BY <2>1, <2>2
<1>6. Pairs(layer)[j] = IF 2 * j <= l THEN Node(layer[2 * y + 1], layer[2 * y + 2])
                        ELSE layer[2 * y + 1]
  <2>1. Pairs(layer)[j] = IF 2 * j <= Len(layer) THEN Node(layer[2 * j - 1], layer[2 * j])
                          ELSE layer[2 * j - 1]
    BY <1>2, PairsAt
  <2>2. 2 * j - 1 = 2 * y + 1 /\ 2 * j = 2 * y + 2
    BY <1>3, <1>5
  <2>3. QED
    BY <1>2, <2>1, <2>2
<1>7. CASE x = 2 * y /\ 2 * y + 1 < l /\ StepAt(layer, x) = <<RightStep(layer[2 * y + 2])>>
  <2>1. PICK z : z = RightStep(layer[2 * y + 2])
    OBVIOUS
  <2>2. z \in ProofSteps(U) /\ p \o StepAt(layer, x) = Append(p, z)
    BY <1>4, <1>7, <2>1
  <2>3. Climb(c, Append(p, z)) = StepUp(layer[x + 1], z)
    BY <2>2, ClimbAppend
  <2>4. StepUp(layer[x + 1], z) = Node(layer[x + 1], layer[2 * y + 2])
    BY <2>1 DEF RightStep, StepUp
  <2>5. 2 * j <= l /\ x + 1 = 2 * y + 1
    BY <1>3, <1>5, <1>7
  <2>6. QED
    BY <1>1, <1>5, <1>6, <2>2, <2>3, <2>4, <2>5
<1>8. CASE x = 2 * y /\ 2 * y + 1 = l /\ StepAt(layer, x) = <<>>
  <2>1. ~(2 * j <= l) /\ x + 1 = 2 * y + 1
    BY <1>3, <1>5, <1>8
  <2>2. QED
    BY <1>1, <1>4, <1>5, <1>6, <1>8, <2>1
<1>9. CASE x = 2 * y + 1 /\ 2 * y + 1 < l /\ StepAt(layer, x) = <<LeftStep(layer[2 * y + 1])>>
  <2>1. PICK z : z = LeftStep(layer[2 * y + 1])
    OBVIOUS
  <2>2. z \in ProofSteps(U) /\ p \o StepAt(layer, x) = Append(p, z)
    BY <1>4, <1>9, <2>1
  <2>3. Climb(c, Append(p, z)) = StepUp(layer[x + 1], z)
    BY <2>2, ClimbAppend
  <2>4. StepUp(layer[x + 1], z) = Node(layer[2 * y + 1], layer[x + 1])
    BY <2>1 DEF LeftStep, StepUp
  <2>5. 2 * j <= l /\ x + 1 = 2 * y + 2
    BY <1>3, <1>5, <1>9
  <2>6. QED
    BY <1>1, <1>5, <1>6, <2>2, <2>3, <2>4, <2>5
<1>10. QED
  BY <1>3, <1>7, <1>8, <1>9

LEMMA ProofLeadsToRoot ==
    ASSUME NEW hashes, Len(hashes) \in Nat \ {0}, NEW i \in 0..(Len(hashes) - 1)
    PROVE  Climb(Leaf(hashes[i + 1]), GetProof(BuildLayers(hashes), i))
               = RootOf(BuildLayers(hashes))
<1>1. PICK layers : layers = BuildLayers(hashes)
  OBVIOUS
<1>2. IsTree(hashes, layers)
  BY <1>1, TreeBuilt
<1>3. PICK n \in Nat \ {0} : n = Len(layers)
  BY <1>2 DEF IsTree
<1>4. PICK g : Walks(layers, i, g) /\ GetProof(layers, i) = g[n].steps
  BY <1>3, WalkRuns
<1>5. g[1] = [index |-> i, steps |-> <<>>]
      /\ \A k \in 1..(n - 1) : g[k + 1] = NextLevel(layers[k], g[k])
  BY <1>3, <1>4, WalkSteps
<1>6. PICK c : c = Leaf(hashes[i + 1])
  OBVIOUS
<1>7. PICK T : T = {d \in 0..(n - 1) :
                      Climb(c, g[d + 1].steps) = layers[d + 1][g[d + 1].index + 1]}
  OBVIOUS
<1>8. 0 \in T
  <2>1. layers[1] = Leaves(hashes)
    BY <1>2 DEF IsTree
  <2>2. i + 1 \in 1..Len(hashes)
    OBVIOUS
  <2>3. layers[1][i + 1] = c
    BY <1>6, <2>1, <2>2 DEF Leaves
  <2>4. g[1].index = i /\ g[1].steps = <<>>
    BY <1>5
  <2>5. Climb(c, g[1].steps) = layers[1][g[1].index + 1]
    BY <2>3, <2>4, ClimbNothing
  <2>6. 0 \in 0..(n - 1) /\ 0 + 1 = 1
    OBVIOUS
  <2>7. QED
    BY <1>7, <2>5, <2>6
<1>9. ASSUME NEW d \in 0..(n - 1), d \in T, d < n - 1 PROVE d + 1 \in T
  <2>1. PICK k : k = d + 1
    OBVIOUS
  <2>2. k \in 1..Len(layers) /\ k \in 1..(Len(layers) - 1) /\ k \in Nat /\ k \in 1..(n - 1)
           /\ d + 1 \in 0..(n - 1)
    BY <1>3, <1>9, <2>1
  <2>3. PICK x, p : x = g[k].index /\ p = g[k].steps
    OBVIOUS
  <2>4. Climb(c, p) = layers[k][x + 1]
    BY <1>7, <1>9, <2>1, <2>3
  <2>5. x \in 0..(Len(layers[k]) - 1) /\ p \in Seq(ProofSteps(NodesOf(layers)))
    BY <1>2, <1>4, <2>2, <2>3, WalkInside DEF WalkOk
  <2>6. layers[k + 1] = Pairs(layers[k]) /\ Len(layers[k]) \in Nat \ {0}
    BY <1>2, <2>2 DEF IsTree
  <2>7. \A j \in 1..Len(layers[k]) : layers[k][j] \in NodesOf(layers)
    BY <2>2, <2>6, NodesOfLayer
  <2>8. Climb(c, p \o StepAt(layers[k], x)) = layers[k + 1][(x \div 2) + 1]
    BY <2>4, <2>5, <2>6, <2>7, ClimbsLayer
  <2>9. g[k + 1].index = x \div 2 /\ g[k + 1].steps = p \o StepAt(layers[k], x)
    <3>1. /\ NextLevel(layers[k], g[k]).index = g[k].index \div 2
          /\ NextLevel(layers[k], g[k]).steps = g[k].steps \o StepAt(layers[k], g[k].index)
      BY NextLevelFields
    <3>2. g[k + 1] = NextLevel(layers[k], g[k])
      BY <1>5, <2>2
    <3>3. /\ g[k + 1].index = g[k].index \div 2
          /\ g[k + 1].steps = g[k].steps \o StepAt(layers[k], g[k].index)
      BY <3>1, <3>2
    <3>4. QED
      BY <2>3, <3>3
  <2>10. Climb(c, g[k + 1].steps) = layers[k + 1][g[k + 1].index + 1]
    BY <2>8, <2>9
  <2>11. QED
    BY <1>7, <2>1, <2>2, <2>10
<1>10. 0..(n - 1) \subseteq T
  BY <1>8, <1>9, UpTo
<1>11. Climb(c, g[n].steps) = layers[n][g[n].index + 1]
  <2>1. n - 1 \in T /\ (n - 1) + 1 = n
    BY <1>10
  <2>2. QED
    BY <1>7, <2>1
<1>12. g[n].index + 1 = 1
  <2>1. n \in 1..Len(layers) /\ Len(layers[n]) = 1
    BY <1>2, <1>3 DEF IsTree
  <2>2. g[n].index \in 0..(Len(layers[n]) - 1)
    BY <1>2, <1>4, <2>1, WalkInside DEF WalkOk
  <2>3. QED
    BY <2>1, <2>2
<1>13. QED
  BY <1>1, <1>3, <1>4, <1>6, <1>11, <1>12 DEF RootOf

\* What leads to a node of the next layer went through a node of this one, by
\* the step from there: no other hash, and no other step, leads to it.
CameUp(U, layer, h, y, p) ==
    \E x \in 0..(Len(layer) - 1), q \in Seq(ProofSteps(U)) :
        /\ Climb(Leaf(h), q) = layer[x + 1]
        /\ x \div 2 = y
        /\ p = q \o StepAt(layer, x)

LEMMA OnlyStepUp ==
    ASSUME NEW U, NEW layer, Len(layer) \in Nat \ {0}, NEW p \in Seq(ProofSteps(U)),
           NEW h, NEW y \in 0..(Len(Pairs(layer)) - 1),
           Climb(Leaf(h), p) = Pairs(layer)[y + 1]
    PROVE  CameUp(U, layer, h, y, p)
<1> SUFFICES \E x \in 0..(Len(layer) - 1), q \in Seq(ProofSteps(U)) :
                /\ Climb(Leaf(h), q) = layer[x + 1]
                /\ x \div 2 = y
                /\ p = q \o StepAt(layer, x)
  BY DEF CameUp
<1>1. PICK l \in Nat \ {0} : l = Len(layer)
  OBVIOUS
<1>2. y \in Nat /\ y + 1 \in 1..((l + 1) \div 2)
  <2>1. PICK m \in Nat : m = (l + 1) \div 2
    OBVIOUS
  <2>2. y \in 0..(m - 1)
    BY <1>1, <2>1, PairsLen
  <2>3. y \in Nat /\ y + 1 \in 1..m
    BY <2>2
  <2>4. QED
    BY <2>1, <2>3
<1>3. Pairs(layer)[y + 1] = IF 2 * y + 2 <= l THEN Node(layer[2 * y + 1], layer[2 * y + 2])
                            ELSE layer[2 * y + 1]
  <2>1. PICK j \in 1..((l + 1) \div 2) : j = y + 1
    BY <1>2
  <2>2. Pairs(layer)[j] = IF 2 * j <= Len(layer) THEN Node(layer[2 * j - 1], layer[2 * j])
                          ELSE layer[2 * j - 1]
    BY <1>1, PairsAt
  <2>3. 2 * j - 1 = 2 * y + 1 /\ 2 * j = 2 * y + 2
    BY <2>1
  <2>4. QED
    BY <1>1, <2>1, <2>2, <2>3
<1>4. (2 * y) \div 2 = y /\ (2 * y + 1) \div 2 = y
  OBVIOUS
<1>5. CASE 2 * y + 2 <= l
  <2>1. Climb(Leaf(h), p) = Node(layer[2 * y + 1], layer[2 * y + 2])
    BY <1>3, <1>5
  <2>2. p # <<>>
    BY <2>1, ClimbNothing, LeafNotNode
  <2>3. PICK q \in Seq(ProofSteps(U)), z \in ProofSteps(U) : p = Append(q, z)
    BY <2>2, SequenceEmptyOrAppend
  <2>4. PICK c : c = Climb(Leaf(h), q)
    OBVIOUS
  <2>5. StepUp(c, z) = Node(layer[2 * y + 1], layer[2 * y + 2])
    BY <2>1, <2>3, <2>4, ClimbAppend
  <2>6. p = q \o <<z>>
    BY <2>3, AppendIsConcat
  <2>7. CASE z = LeftStep(z.hash) /\ StepUp(c, z) = Node(z.hash, c)
    <3>1. z.hash = layer[2 * y + 1] /\ c = layer[2 * y + 2]
      <4>1. PICK a, b : a = layer[2 * y + 1] /\ b = layer[2 * y + 2]
        OBVIOUS
      <4>2. Node(z.hash, c) = Node(a, b)
        BY <2>5, <2>7, <4>1
      <4>3. z.hash = a /\ c = b
        BY <4>2, NodeOnly
      <4>4. QED
        BY <4>1, <4>3
    <3>2. PICK x \in 0..(l - 1) : x = 2 * y + 1
      BY <1>5
    <3>3. x + 1 = 2 * y + 2 /\ 2 * y + 1 < Len(layer)
      BY <1>1, <1>5, <3>2
    <3>4. StepAt(layer, x) = <<z>>
      BY <2>7, <3>1, <3>2, <3>3, StepLeft
    <3>5. QED
      BY <1>1, <1>4, <2>4, <2>6, <3>1, <3>2, <3>3, <3>4
  <2>8. CASE z = RightStep(z.hash) /\ StepUp(c, z) = Node(c, z.hash)
    <3>1. c = layer[2 * y + 1] /\ z.hash = layer[2 * y + 2]
      <4>1. PICK a, b : a = layer[2 * y + 1] /\ b = layer[2 * y + 2]
        OBVIOUS
      <4>2. Node(c, z.hash) = Node(a, b)
        BY <2>5, <2>8, <4>1
      <4>3. c = a /\ z.hash = b
        BY <4>2, NodeOnly
      <4>4. QED
        BY <4>1, <4>3
    <3>2. PICK x \in 0..(l - 1) : x = 2 * y
      BY <1>5
    <3>3. x + 1 = 2 * y + 1 /\ 2 * y + 1 < Len(layer)
      BY <1>1, <1>5, <3>2
    <3>4. StepAt(layer, x) = <<z>>
      BY <2>8, <3>1, <3>2, <3>3, StepRight
    <3>5. QED
      BY <1>1, <1>4, <2>4, <2>6, <3>1, <3>2, <3>3, <3>4
  <2>9. QED
    BY <2>7, <2>8, StepUpNode
<1>6. CASE ~(2 * y + 2 <= l)
  <2>1. l = 2 * y + 1
    BY <1>2, <1>6
  <2>2. PICK x \in 0..(l - 1) : x = 2 * y
    BY <2>1
  <2>3. Climb(Leaf(h), p) = layer[x + 1]
    BY <1>3, <1>6, <2>2
  <2>4. StepAt(layer, x) = <<>>
    <3>1. Len(layer) = 2 * y + 1 /\ y \in Nat
      BY <1>1, <1>2, <2>1
    <3>2. StepAt(layer, 2 * y) = <<>>
      BY <3>1, StepNone, Zenon
    <3>3. QED
      BY <2>2, <3>2
  <2>5. p = p \o <<>>
    BY ConcatEmptySeq
  <2>6. QED
    BY <1>1, <1>4, <2>2, <2>3, <2>4, <2>5
<1>7. QED
  BY <1>5, <1>6

\* From a node of layer k down to the leaf it is over: the hash is that of the
\* leaf, and the steps are those GetProof takes up to layer k.
LeadsFrom(hashes, layers, h, k, x, q) ==
    \E i, g :
        /\ i \in 0..(Len(hashes) - 1)
        /\ hashes[i + 1] = h
        /\ Walks(layers, i, g) /\ GetProof(layers, i) = g[Len(layers)].steps
        /\ g[k].index = x /\ g[k].steps = q

SoundAt(hashes, layers, h, U, k) ==
    \A q \in Seq(ProofSteps(U)), x \in 0..(Len(layers[k]) - 1) :
        Climb(Leaf(h), q) = layers[k][x + 1] => LeadsFrom(hashes, layers, h, k, x, q)

LEMMA SoundLeaves ==
    ASSUME NEW hashes, Len(hashes) \in Nat \ {0}, NEW layers, IsTree(hashes, layers),
           NEW h, NEW U
    PROVE  SoundAt(hashes, layers, h, U, 1)
<1> SUFFICES ASSUME NEW q \in Seq(ProofSteps(U)), NEW x \in 0..(Len(layers[1]) - 1),
                    Climb(Leaf(h), q) = layers[1][x + 1]
             PROVE  LeadsFrom(hashes, layers, h, 1, x, q)
  BY DEF SoundAt
<1>1. x \in 0..(Len(hashes) - 1) /\ x + 1 \in 1..Len(hashes) /\ Len(layers) \in Nat \ {0}
         /\ layers[1] = Leaves(hashes)
  BY DEF IsTree
<1>2. Climb(Leaf(h), q) = Leaf(hashes[x + 1])
  BY <1>1 DEF Leaves
<1>3. q = <<>>
  <2>1. SUFFICES ASSUME q # <<>> PROVE FALSE
    OBVIOUS
  <2>2. PICK p \in Seq(ProofSteps(U)), z \in ProofSteps(U) : q = Append(p, z)
    BY <2>1, SequenceEmptyOrAppend
  <2>3. PICK c : c = Climb(Leaf(h), p)
    OBVIOUS
  <2>4. StepUp(c, z) = Leaf(hashes[x + 1])
    BY <1>2, <2>2, <2>3, ClimbAppend
  <2>5. QED
    BY <2>4, StepUpNode, LeafNotNode
<1>4. hashes[x + 1] = h
  BY <1>2, <1>3, ClimbNothing, LeafOnly
<1>5. PICK g : Walks(layers, x, g) /\ GetProof(layers, x) = g[Len(layers)].steps
  BY <1>1, WalkRuns
<1>6. g[1] = [index |-> x, steps |-> <<>>]
  BY <1>1, <1>5, WalkSteps
<1>7. g[1].index = x /\ g[1].steps = q
  BY <1>3, <1>6
<1>8. QED
  BY <1>1, <1>4, <1>5, <1>7 DEF LeadsFrom

LEMMA SoundUp ==
    ASSUME NEW hashes, Len(hashes) \in Nat \ {0}, NEW layers, IsTree(hashes, layers),
           NEW h, NEW U, NEW k \in 1..(Len(layers) - 1), SoundAt(hashes, layers, h, U, k)
    PROVE  SoundAt(hashes, layers, h, U, k + 1)
<1> SUFFICES ASSUME NEW p \in Seq(ProofSteps(U)), NEW y \in 0..(Len(layers[k + 1]) - 1),
                    Climb(Leaf(h), p) = layers[k + 1][y + 1]
             PROVE  LeadsFrom(hashes, layers, h, k + 1, y, p)
  BY DEF SoundAt
<1>1. Len(layers) \in Nat \ {0}
  BY DEF IsTree
<1>2. k \in 1..Len(layers)
  BY <1>1
<1>3. PICK layer : layer = layers[k]
  OBVIOUS
<1>4. layers[k + 1] = Pairs(layer) /\ Len(layer) \in Nat \ {0}
  BY <1>2, <1>3 DEF IsTree
<1>5. y \in 0..(Len(Pairs(layer)) - 1)
  BY <1>4
<1>6. Climb(Leaf(h), p) = Pairs(layer)[y + 1]
  BY <1>4
<1>7. PICK x \in 0..(Len(layer) - 1), q \in Seq(ProofSteps(U)) :
              /\ Climb(Leaf(h), q) = layer[x + 1]
              /\ x \div 2 = y
              /\ p = q \o StepAt(layer, x)
  <2>1. CameUp(U, layer, h, y, p)
    BY <1>4, <1>5, <1>6, OnlyStepUp
  <2>2. QED
    BY <2>1 DEF CameUp
<1>8. LeadsFrom(hashes, layers, h, k, x, q)
  BY <1>3, <1>7 DEF SoundAt
<1>9. PICK i, g :
        /\ i \in 0..(Len(hashes) - 1)
        /\ hashes[i + 1] = h
        /\ Walks(layers, i, g) /\ GetProof(layers, i) = g[Len(layers)].steps
        /\ g[k].index = x /\ g[k].steps = q
  BY <1>8 DEF LeadsFrom
<1>10. g[k + 1].index = y /\ g[k + 1].steps = p
  <2>1. g[k + 1] = NextLevel(layer, g[k])
    BY <1>1, <1>3, <1>9, WalkNext
  <2>2. /\ NextLevel(layer, g[k]).index = g[k].index \div 2
        /\ NextLevel(layer, g[k]).steps = g[k].steps \o StepAt(layer, g[k].index)
    BY NextLevelFields
  <2>3. g[k + 1].index = g[k].index \div 2
           /\ g[k + 1].steps = g[k].steps \o StepAt(layer, g[k].index)
    BY <2>1, <2>2
  <2>4. QED
    BY <1>7, <1>9, <2>3
<1>11. QED
  BY <1>9, <1>10 DEF LeadsFrom

\* Only a hash of the batch is proved by anything, and only by its audit path.
LEMMA OnlyLeavesProved ==
    ASSUME NEW hashes, Len(hashes) \in Nat \ {0}, NEW h, NEW U,
           NEW p \in Seq(ProofSteps(U)),
           Climb(Leaf(h), p) = RootOf(BuildLayers(hashes))
    PROVE  \E i \in 0..(Len(hashes) - 1) :
              hashes[i + 1] = h /\ p = GetProof(BuildLayers(hashes), i)
<1>1. PICK layers : layers = BuildLayers(hashes)
  OBVIOUS
<1>2. IsTree(hashes, layers)
  BY <1>1, TreeBuilt
<1>3. PICK n \in Nat \ {0} : n = Len(layers)
  BY <1>2 DEF IsTree
<1>4. PICK T : T = {d \in 0..(n - 1) : SoundAt(hashes, layers, h, U, d + 1)}
  OBVIOUS
<1>5. 0 \in T
  <2>1. SoundAt(hashes, layers, h, U, 1)
    BY <1>2, SoundLeaves
  <2>2. 0 \in 0..(n - 1) /\ 0 + 1 = 1
    OBVIOUS
  <2>3. QED
    BY <1>4, <2>1, <2>2
<1>6. ASSUME NEW d \in 0..(n - 1), d \in T, d < n - 1 PROVE d + 1 \in T
  <2>1. PICK k : k = d + 1
    OBVIOUS
  <2>2. k \in 1..(Len(layers) - 1) /\ d + 1 \in 0..(n - 1)
    BY <1>3, <1>6, <2>1
  <2>3. SoundAt(hashes, layers, h, U, k)
    BY <1>4, <1>6, <2>1
  <2>4. SoundAt(hashes, layers, h, U, k + 1)
    BY <1>2, <2>2, <2>3, SoundUp
  <2>5. QED
    BY <1>4, <2>1, <2>2, <2>4
<1>7. 0..(n - 1) \subseteq T
  BY <1>5, <1>6, UpTo
<1>8. SoundAt(hashes, layers, h, U, n)
  <2>1. n - 1 \in T /\ (n - 1) + 1 = n
    BY <1>7
  <2>2. QED
    BY <1>4, <2>1
<1>9. Len(layers[n]) = 1
  BY <1>2, <1>3 DEF IsTree
<1>10. Climb(Leaf(h), p) = layers[n][0 + 1] /\ 0 \in 0..(Len(layers[n]) - 1)
  BY <1>1, <1>3, <1>9 DEF RootOf
<1>11. LeadsFrom(hashes, layers, h, n, 0, p)
  BY <1>8, <1>10 DEF SoundAt
<1>12. QED
  BY <1>1, <1>3, <1>11 DEF LeadsFrom

-----------------------------------------------------------------------------
(* Scripts.                                                                *)

\* The sum of LittleEndian, byte after byte.
SumFrom(bytes, i, n, g, k) == IF k = 0 THEN 0 ELSE 256 * g[k - 1] + bytes[i + n + 1 - k]
Sums(bytes, i, n, g) == g = [k \in 0..n |-> SumFrom(bytes, i, n, g, k)]

LEMMA SumRuns ==
    ASSUME NEW bytes, NEW i \in Nat, NEW n \in Nat
    PROVE  \E g : Sums(bytes, i, n, g) /\ LittleEndian(bytes, i, n) = g[n]
<1> DEFINE R(m) == \E g : g = [k \in 0..m |-> SumFrom(bytes, i, n, g, k)]
<1>1. R(0)
  <2>1. PICK g : g = [k \in 0..0 |-> 0]
    OBVIOUS
  <2>2. \A k \in 0..0 : SumFrom(bytes, i, n, g, k) = 0
    BY DEF SumFrom
  <2>3. g = [k \in 0..0 |-> SumFrom(bytes, i, n, g, k)]
    BY <2>1, <2>2
  <2>4. QED
    BY <2>3
<1>2. ASSUME NEW m \in 0..n, R(m) PROVE R(m + 1)
  <2>1. PICK g : g = [k \in 0..m |-> SumFrom(bytes, i, n, g, k)]
    BY <1>2
  <2>2. PICK f : f = [k \in 0..(m + 1) |-> IF k = m + 1 THEN SumFrom(bytes, i, n, g, m + 1)
                                           ELSE g[k]]
    OBVIOUS
  <2>3. ASSUME NEW k \in 0..(m + 1) PROVE f[k] = SumFrom(bytes, i, n, f, k)
    <3>1. k # 0 => f[k - 1] = g[k - 1]
      BY <2>2
    <3>2. SumFrom(bytes, i, n, f, k) = SumFrom(bytes, i, n, g, k)
      BY <3>1 DEF SumFrom
    <3>3. k # m + 1 => k \in 0..m /\ f[k] = g[k] /\ g[k] = SumFrom(bytes, i, n, g, k)
      BY <2>1, <2>2
    <3>4. k = m + 1 => f[k] = SumFrom(bytes, i, n, g, k)
      BY <2>2
    <3>5. QED
      BY <3>2, <3>3, <3>4
  <2>4. f = [k \in 0..(m + 1) |-> SumFrom(bytes, i, n, f, k)]
    BY <2>2, <2>3
  <2>5. QED
    BY <2>4
<1>3. PICK S : S = {m \in 0..n : R(m)}
  OBVIOUS
<1> HIDE DEF R
<1>4. 0 \in S /\ \A m \in 0..n : m \in S /\ m < n => m + 1 \in S
  BY <1>1, <1>2, <1>3
<1>5. 0..n \subseteq S
  BY <1>4, UpTo
<1>6. R(n)
  BY <1>3, <1>5
<1>7. QED
  BY <1>6 DEF R, LittleEndian, SumFrom, Sums

\* A length is a number, and one of one byte is that byte.
LEMMA LengthIsNat ==
    ASSUME NEW bytes \in Seq(Nat), NEW i \in Nat, NEW n \in Nat, i + n <= Len(bytes)
    PROVE  LittleEndian(bytes, i, n) \in Nat
<1>1. PICK g : Sums(bytes, i, n, g) /\ LittleEndian(bytes, i, n) = g[n]
  BY SumRuns
<1>2. \A k \in 0..n : g[k] = SumFrom(bytes, i, n, g, k)
  BY <1>1 DEF Sums
<1>3. PICK S : S = {k \in 0..n : g[k] \in Nat}
  OBVIOUS
<1>4. 0 \in S
  BY <1>2, <1>3 DEF SumFrom
<1>5. ASSUME NEW k \in 0..n, k \in S, k < n PROVE k + 1 \in S
  <2>1. PICK m \in 1..n : m = k + 1
    BY <1>5
  <2>2. g[m] = 256 * g[m - 1] + bytes[i + n + 1 - m]
    BY <1>2, <2>1 DEF SumFrom
  <2>3. g[m - 1] \in Nat
    BY <1>3, <1>5, <2>1
  <2>4. i + n + 1 - m \in 1..Len(bytes)
    BY <2>1
  <2>5. bytes[i + n + 1 - m] \in Nat
    BY <2>4, ElementOfSeq
  <2>6. QED
    BY <1>3, <2>1, <2>2, <2>3, <2>5
<1>6. 0..n \subseteq S
  BY <1>4, <1>5, UpTo
<1>7. n \in S
  BY <1>6
<1>8. QED
  BY <1>1, <1>3, <1>7

LEMMA LengthOfOneByte ==
    ASSUME NEW bytes, NEW i \in Nat, bytes[i + 1] \in Nat
    PROVE  LittleEndian(bytes, i, 1) = bytes[i + 1]
<1>1. PICK g : Sums(bytes, i, 1, g) /\ LittleEndian(bytes, i, 1) = g[1]
  BY SumRuns
<1>2. g[0] = SumFrom(bytes, i, 1, g, 0) /\ g[1] = SumFrom(bytes, i, 1, g, 1)
  BY <1>1 DEF Sums
<1>3. g[0] = 0 /\ g[1] = 256 * g[0] + bytes[i + 1]
  BY <1>2 DEF SumFrom
<1>4. QED
  BY <1>1, <1>3

\* The push at place i: where its data begins and where it ends.
DataFrom(bytes, i) == i + 1 + LengthBytes(bytes[i + 1])
DataLen(bytes, i) == IF LengthBytes(bytes[i + 1]) = 0 THEN bytes[i + 1]
                     ELSE LittleEndian(bytes, i + 1, LengthBytes(bytes[i + 1]))
DataEnd(bytes, i) == DataFrom(bytes, i) + DataLen(bytes, i)
NoPush(bytes, i) == bytes[i + 1] = 0 \/ bytes[i + 1] > PushData4

LEMMA LengthBytesFew == \A op : LengthBytes(op) \in {0, 1, 2, 4}
  BY DEF LengthBytes

LEMMA DataAhead ==
    ASSUME NEW bytes \in Seq(Nat), NEW i \in 0..Len(bytes), i # Len(bytes)
    PROVE  /\ bytes[i + 1] \in Nat
           /\ DataFrom(bytes, i) \in Nat /\ DataFrom(bytes, i) > i
           /\ ~(DataFrom(bytes, i) > Len(bytes))
                 => DataLen(bytes, i) \in Nat /\ DataEnd(bytes, i) \in Nat
                       /\ DataEnd(bytes, i) > i
<1>1. PICK N \in Nat : N = Len(bytes)
  BY LenProperties
<1>2. i + 1 \in 1..N /\ i \in Nat
  BY <1>1
<1>3. bytes[i + 1] \in Nat
  BY <1>1, <1>2, ElementOfSeq
<1>4. PICK n \in Nat : n = LengthBytes(bytes[i + 1])
  BY LengthBytesFew
<1>5. DataFrom(bytes, i) = i + 1 + n
  BY <1>4 DEF DataFrom
<1>6. ASSUME ~(DataFrom(bytes, i) > Len(bytes)) PROVE DataLen(bytes, i) \in Nat
  <2>1. i + 1 + n <= Len(bytes) /\ i + 1 \in Nat
    BY <1>1, <1>2, <1>5, <1>6
  <2>2. LittleEndian(bytes, i + 1, n) \in Nat
    BY <2>1, LengthIsNat
  <2>3. QED
    BY <1>3, <1>4, <2>2 DEF DataLen
<1>7. QED
  BY <1>2, <1>3, <1>5, <1>6 DEF DataEnd

\* The pushes from place i on, from those of the places after it.
RestAt(bytes, raising, g, i) ==
    IF i = Len(bytes) THEN Pushed(<<>>)
    ELSE IF NoPush(bytes, i) THEN g[i + 1]
    ELSE IF DataFrom(bytes, i) > Len(bytes)
         THEN (IF bytes[i + 1] \in raising THEN Throws ELSE Null)
    ELSE IF DataEnd(bytes, i) > Len(bytes) THEN Null
    ELSE IF g[DataEnd(bytes, i)].kind # "pushes" THEN g[DataEnd(bytes, i)]
    ELSE Pushed(<<SubSeq(bytes, DataFrom(bytes, i) + 1, DataEnd(bytes, i))>>
                  \o g[DataEnd(bytes, i)].out)
Rests(bytes, raising, g) == g = [i \in 0..Len(bytes) |-> RestAt(bytes, raising, g, i)]

LEMMA RestLater ==
    ASSUME NEW bytes \in Seq(Nat), NEW raising, NEW i \in 0..Len(bytes), NEW f, NEW g,
           \A j \in (i + 1)..Len(bytes) : f[j] = g[j]
    PROVE  RestAt(bytes, raising, f, i) = RestAt(bytes, raising, g, i)
<1>1. PICK N \in Nat : N = Len(bytes)
  BY LenProperties
<1>2. CASE i = Len(bytes)
  BY <1>2 DEF RestAt
<1>3. CASE i # Len(bytes)
  <2>1. f[i + 1] = g[i + 1]
    BY <1>1, <1>3
  <2>2. PICK a, e : a = DataFrom(bytes, i) /\ e = DataEnd(bytes, i)
    OBVIOUS
  <2>3. ~(a > Len(bytes)) /\ ~(e > Len(bytes)) => f[e] = g[e]
    <3>1. ~(a > Len(bytes)) => e \in Nat /\ e > i
      BY <1>3, <2>2, DataAhead
    <3>2. ~(a > Len(bytes)) /\ ~(e > Len(bytes)) => e \in (i + 1)..Len(bytes)
      BY <1>1, <3>1
    <3>3. QED
      BY <3>2
  <2>4. QED
    BY <1>3, <2>1, <2>2, <2>3 DEF RestAt
<1>4. QED
  BY <1>2, <1>3

LEMMA RestRuns ==
    ASSUME NEW bytes \in Seq(Nat), NEW raising
    PROVE  \E g : Rests(bytes, raising, g) /\ Pushes(bytes, raising) = g[0]
<1>n. PICK N \in Nat : N = Len(bytes)
  BY LenProperties
<1> DEFINE R(m) == \E g : g = [i \in (N - m)..N |-> RestAt(bytes, raising, g, i)]
<1>1. R(0)
  <2>1. PICK g : g = [i \in N..N |-> Pushed(<<>>)]
    OBVIOUS
  <2>2. \A i \in N..N : RestAt(bytes, raising, g, i) = Pushed(<<>>)
    BY <1>n DEF RestAt
  <2>3. g = [i \in N..N |-> RestAt(bytes, raising, g, i)]
    BY <2>1, <2>2
  <2>4. N - 0 = N
    OBVIOUS
  <2>5. QED
    BY <2>3, <2>4
<1>2. ASSUME NEW m \in 0..N, m < N, R(m) PROVE R(m + 1)
  <2>1. PICK g : g = [i \in (N - m)..N |-> RestAt(bytes, raising, g, i)]
    BY <1>2
  <2>2. PICK b \in 0..(N - 1) : b = N - (m + 1)
    BY <1>2
  <2>3. PICK f : f = [i \in b..N |-> IF i = b THEN RestAt(bytes, raising, g, b) ELSE g[i]]
    OBVIOUS
  <2>4. ASSUME NEW i \in b..N PROVE f[i] = RestAt(bytes, raising, f, i)
    <3>1. i \in 0..Len(bytes)
      BY <1>n
    <3>2. \A j \in (i + 1)..Len(bytes) : f[j] = g[j]
      BY <1>n, <2>3
    <3>3. RestAt(bytes, raising, f, i) = RestAt(bytes, raising, g, i)
      BY <3>1, <3>2, RestLater
    <3>4. i # b => f[i] = g[i] /\ g[i] = RestAt(bytes, raising, g, i)
      <4>1. i # b => i \in (N - m)..N
        BY <2>2
      <4>2. i \in (N - m)..N => g[i] = RestAt(bytes, raising, g, i)
        BY <2>1
      <4>3. i # b => f[i] = g[i]
        BY <2>3
      <4>4. QED
        BY <4>1, <4>2, <4>3
    <3>5. i = b => f[i] = RestAt(bytes, raising, g, i)
      BY <2>3
    <3>6. QED
      BY <3>3, <3>4, <3>5
  <2>5. f = [i \in b..N |-> RestAt(bytes, raising, f, i)]
    BY <2>3, <2>4
  <2>6. QED
    BY <2>2, <2>5
<1>3. PICK S : S = {m \in 0..N : R(m)}
  OBVIOUS
<1> HIDE DEF R
<1>4. 0 \in S /\ \A m \in 0..N : m \in S /\ m < N => m + 1 \in S
  BY <1>1, <1>2, <1>3
<1>5. 0..N \subseteq S
  BY <1>4, UpTo
<1>6. R(N) /\ N - N = 0
  BY <1>3, <1>5
<1>7. \E g : g = [i \in 0..N |-> RestAt(bytes, raising, g, i)]
  BY <1>6 DEF R
<1>8. QED
  BY <1>7, <1>n DEF Pushes, Rests, RestAt, NoPush, DataEnd, DataFrom, DataLen

\* What holds at the end, and at a place when it holds at all later ones, holds
\* at every place.
LEMMA FromTheEnd ==
    ASSUME NEW n \in Nat, NEW S,
           \A i \in 0..n : (\A j \in (i + 1)..n : j \in S) => i \in S
    PROVE  0..n \subseteq S
<1>1. PICK T : T = {m \in 0..n : \A j \in (n - m)..n : j \in S}
  OBVIOUS
<1>2. 0 \in T
  <2>1. n \in 0..n /\ (n + 1)..n = {}
    OBVIOUS
  <2>2. n \in S
    BY <2>1
  <2>3. QED
    BY <1>1, <2>2
<1>3. ASSUME NEW m \in 0..n, m \in T, m < n PROVE m + 1 \in T
  <2>1. PICK i \in 0..(n - 1) : i = n - (m + 1)
    BY <1>3
  <2>2. \A j \in (i + 1)..n : j \in S
    BY <1>1, <1>3, <2>1
  <2>3. i \in S
    BY <2>2
  <2>4. \A j \in i..n : j \in S
    BY <2>2, <2>3
  <2>5. QED
    BY <1>1, <1>3, <2>1, <2>4
<1>4. 0..n \subseteq T
  BY <1>2, <1>3, UpTo
<1>5. n \in T /\ n - n = 0
  BY <1>4
<1>6. QED
  BY <1>1, <1>5

\* Where the parsers may differ: only where the first throws.
Agree(js, py) == js = py \/ (js = Throws /\ py = Null)

LEMMA RestAgrees ==
    ASSUME NEW bytes \in Seq(Nat), NEW i \in 0..Len(bytes), NEW f, NEW g,
           \A j \in (i + 1)..Len(bytes) : Agree(f[j], g[j])
    PROVE  Agree(RestAt(bytes, JsRaising, f, i), RestAt(bytes, PyRaising, g, i))
<1>1. PICK N \in Nat : N = Len(bytes)
  BY LenProperties
<1>2. PICK a, e : a = DataFrom(bytes, i) /\ e = DataEnd(bytes, i)
  OBVIOUS
<1>3. CASE i = Len(bytes)
  BY <1>3 DEF RestAt, Agree
<1>4. CASE i # Len(bytes) /\ NoPush(bytes, i)
  <2>1. Agree(f[i + 1], g[i + 1])
    BY <1>1, <1>4
  <2>2. /\ RestAt(bytes, JsRaising, f, i) = f[i + 1]
        /\ RestAt(bytes, PyRaising, g, i) = g[i + 1]
    BY <1>4 DEF RestAt
  <2>3. QED
    BY <2>1, <2>2
<1>5. CASE i # Len(bytes) /\ ~NoPush(bytes, i) /\ a > Len(bytes)
  <2>1. RestAt(bytes, PyRaising, g, i) = Null
    BY <1>2, <1>5 DEF RestAt, PyRaising
  <2>2. RestAt(bytes, JsRaising, f, i) \in {Throws, Null}
    BY <1>2, <1>5 DEF RestAt
  <2>3. QED
    BY <2>1, <2>2 DEF Agree
<1>6. CASE i # Len(bytes) /\ ~NoPush(bytes, i) /\ ~(a > Len(bytes)) /\ e > Len(bytes)
  <2>1. /\ RestAt(bytes, JsRaising, f, i) = Null
        /\ RestAt(bytes, PyRaising, g, i) = Null
    BY <1>2, <1>6 DEF RestAt
  <2>2. QED
    BY <2>1 DEF Agree
<1>7. CASE i # Len(bytes) /\ ~NoPush(bytes, i) /\ ~(a > Len(bytes)) /\ ~(e > Len(bytes))
  <2>1. Agree(f[e], g[e])
    <3>1. e \in Nat /\ e > i
      BY <1>2, <1>7, DataAhead
    <3>2. e \in (i + 1)..Len(bytes)
      BY <1>1, <1>7, <3>1
    <3>3. QED
      BY <3>2
  <2>2. PICK s : s = SubSeq(bytes, a + 1, e)
    OBVIOUS
  <2>3. /\ RestAt(bytes, JsRaising, f, i) = IF f[e].kind # "pushes" THEN f[e]
                                            ELSE Pushed(<<s>> \o f[e].out)
        /\ RestAt(bytes, PyRaising, g, i) = IF g[e].kind # "pushes" THEN g[e]
                                            ELSE Pushed(<<s>> \o g[e].out)
    BY <1>2, <1>7, <2>2 DEF RestAt
  <2>4. Throws.kind # "pushes" /\ Null.kind # "pushes"
    BY DEF Throws, Null
  <2>5. CASE f[e] = g[e]
    BY <2>3, <2>5 DEF Agree
  <2>6. CASE f[e] = Throws /\ g[e] = Null
    BY <2>3, <2>4, <2>6 DEF Agree
  <2>7. QED
    BY <2>1, <2>5, <2>6 DEF Agree
<1>8. QED
  BY <1>3, <1>4, <1>5, <1>6, <1>7

LEMMA PushesAgree ==
    ASSUME NEW bytes \in Seq(Nat)
    PROVE  Agree(JsPushes(bytes), PyPushes(bytes))
<1>1. PICK f : Rests(bytes, JsRaising, f) /\ JsPushes(bytes) = f[0]
  BY RestRuns DEF JsPushes
<1>2. PICK g : Rests(bytes, PyRaising, g) /\ PyPushes(bytes) = g[0]
  BY RestRuns DEF PyPushes
<1>3. PICK N \in Nat : N = Len(bytes)
  BY LenProperties
<1>4. /\ \A i \in 0..N : f[i] = RestAt(bytes, JsRaising, f, i)
      /\ \A i \in 0..N : g[i] = RestAt(bytes, PyRaising, g, i)
  BY <1>1, <1>2, <1>3 DEF Rests
<1>5. PICK S : S = {i \in 0..N : Agree(f[i], g[i])}
  OBVIOUS
<1>6. ASSUME NEW i \in 0..N, \A j \in (i + 1)..N : j \in S PROVE i \in S
  <2>1. \A j \in (i + 1)..Len(bytes) : Agree(f[j], g[j])
    BY <1>3, <1>5, <1>6
  <2>2. Agree(RestAt(bytes, JsRaising, f, i), RestAt(bytes, PyRaising, g, i))
    BY <1>3, <2>1, RestAgrees
  <2>3. QED
    BY <1>4, <1>5, <2>2
<1>7. 0..N \subseteq S
  BY <1>6, FromTheEnd
<1>8. 0 \in S
  BY <1>7
<1>9. QED
  BY <1>1, <1>2, <1>5, <1>8

\* The Python parser never throws.
LEMMA PythonReadsOn ==
    ASSUME NEW bytes \in Seq(Nat)
    PROVE  PyPushes(bytes) # Throws
<1>2. PICK g : Rests(bytes, PyRaising, g) /\ PyPushes(bytes) = g[0]
  BY RestRuns DEF PyPushes
<1>3. PICK N \in Nat : N = Len(bytes)
  BY LenProperties
<1>4. \A i \in 0..N : g[i] = RestAt(bytes, PyRaising, g, i)
  BY <1>2, <1>3 DEF Rests
<1>5. PICK S : S = {i \in 0..N : g[i] # Throws}
  OBVIOUS
<1>6. ASSUME NEW i \in 0..N, \A j \in (i + 1)..N : j \in S PROVE i \in S
  <2>1. PICK a, e : a = DataFrom(bytes, i) /\ e = DataEnd(bytes, i)
    OBVIOUS
  <2>2. Null # Throws /\ \A out : Pushed(out) # Throws
    <3>1. Null.kind = "null" /\ Throws.kind = "throws" /\ \A out : Pushed(out).kind = "pushes"
      BY DEF Null, Throws, Pushed
    <3>2. QED
      BY <3>1
  <2>3. i # N => g[i + 1] # Throws
    BY <1>5, <1>6
  <2>4. i # N /\ ~(a > N) /\ ~(e > N) => g[e] # Throws
    <3>1. i # N /\ ~(a > N) => e \in Nat /\ e > i
      BY <1>3, <2>1, DataAhead
    <3>2. i # N /\ ~(a > N) /\ ~(e > N) => e \in (i + 1)..N
      BY <3>1
    <3>3. QED
      BY <1>5, <1>6, <3>2
  <2>5. RestAt(bytes, PyRaising, g, i) # Throws
    BY <1>3, <2>1, <2>2, <2>3, <2>4 DEF RestAt, PyRaising
  <2>6. QED
    BY <1>4, <1>5, <2>5
<1>7. 0..N \subseteq S
  BY <1>6, FromTheEnd
<1>8. 0 \in S
  BY <1>7
<1>9. QED
  BY <1>2, <1>5, <1>8

\* A script of one push, read from its start.
LEMMA OnePush ==
    ASSUME NEW head \in Seq(Nat), head # <<>>, NEW data \in Seq(Nat), data # <<>>,
           NEW bytes, bytes = head \o data, ~NoPush(bytes, 0),
           DataFrom(bytes, 0) = Len(head), DataLen(bytes, 0) = Len(data)
    PROVE  JsPushes(bytes) = Pushed(<<data>>)
<1>1. PICK n \in Nat \ {0}, m \in Nat \ {0} : n = Len(head) /\ m = Len(data)
  BY EmptySeq
<1>2. bytes \in Seq(Nat) /\ Len(bytes) = n + m
  BY <1>1, ConcatProperties
<1>3. PICK g : Rests(bytes, JsRaising, g) /\ JsPushes(bytes) = g[0]
  BY <1>2, RestRuns DEF JsPushes
<1>4. \A i \in 0..(n + m) : g[i] = RestAt(bytes, JsRaising, g, i)
  BY <1>2, <1>3 DEF Rests
<1>5. DataEnd(bytes, 0) = n + m
  BY <1>1 DEF DataEnd
<1>6. g[n + m] = Pushed(<<>>)
  <2>1. n + m \in 0..(n + m)
    OBVIOUS
  <2>2. g[n + m] = RestAt(bytes, JsRaising, g, n + m)
    BY <1>4, <2>1
  <2>3. QED
    BY <1>2, <2>2 DEF RestAt
<1>7. SubSeq(bytes, n + 1, n + m) = data
  <2>1. PICK a, b : a = n + 1 /\ b = n + m
    OBVIOUS
  <2>2. a \in (Len(head) + 1)..(Len(head) + Len(data))
           /\ b \in (Len(head) + 1)..(Len(head) + Len(data))
    BY <1>1, <2>1
  <2>3. SubSeq(bytes, a, b) = SubSeq(data, a - Len(head), b - Len(head))
    BY <2>2, SubSeqOfConcat2
  <2>4. a - Len(head) = 1 /\ b - Len(head) = Len(data)
    BY <1>1, <2>1
  <2>5. SubSeq(data, 1, Len(data)) = data
    BY SubSeqFull
  <2>6. QED
    BY <2>1, <2>3, <2>4, <2>5
<1>8. g[0] = Pushed(<<SubSeq(bytes, n + 1, n + m)>> \o <<>>)
  <2>1. 0 \in 0..(n + m) /\ 0 # Len(bytes)
    BY <1>2
  <2>2. g[0] = RestAt(bytes, JsRaising, g, 0)
    BY <1>4, <2>1
  <2>3. Pushed(<<>>).kind = "pushes" /\ Pushed(<<>>).out = <<>>
    BY DEF Pushed
  <2>4. ~(DataFrom(bytes, 0) > Len(bytes)) /\ ~(DataEnd(bytes, 0) > Len(bytes))
    BY <1>1, <1>2, <1>5
  <2>5. RestAt(bytes, JsRaising, g, 0)
          = IF g[n + m].kind # "pushes" THEN g[n + m]
            ELSE Pushed(<<SubSeq(bytes, n + 1, n + m)>> \o g[n + m].out)
    BY <1>1, <1>5, <2>1, <2>4 DEF RestAt
  <2>6. QED
    BY <1>6, <2>2, <2>3, <2>5
<1>9. QED
  <2>1. <<data>> \in Seq({data})
    OBVIOUS
  <2>2. <<data>> \o <<>> = <<data>>
    BY <2>1, ConcatEmptySeq
  <2>3. QED
    BY <1>3, <1>7, <1>8, <2>2

LEMMA HeadFirst ==
    ASSUME NEW head \in Seq(Nat), NEW data \in Seq(Nat), NEW k \in 1..Len(head)
    PROVE  (head \o data)[k] = head[k]
<1>1. PICK n \in Nat, m \in Nat : n = Len(head) /\ m = Len(data)
  BY LenProperties
<1>2. \A j \in 1..(n + m) : (head \o data)[j] = IF j <= n THEN head[j] ELSE data[j - n]
  BY <1>1, ConcatProperties
<1>3. k \in 1..(n + m) /\ k <= n
  BY <1>1
<1>4. QED
  BY <1>2, <1>3

LEMMA LengthBytesOne == LengthBytes(76) = 1
<1>1. PushData1 = 76 /\ PushData1 # PushData2 /\ PushData1 # PushData4
  BY DEF PushData1, PushData2, PushData4
<1>2. LengthBytes(PushData1) = 1
  BY <1>1, Zenon DEF LengthBytes
<1>3. QED
  BY <1>1, <1>2

LEMMA BuiltReadsBack ==
    ASSUME NEW data \in Seq(Nat), data # <<>>
    PROVE  JsPushes(BuildPush(data)) = Pushed(<<data>>)
<1>1. PICK n \in Nat \ {0} : n = Len(data)
  BY EmptySeq
<1>2. PICK bytes : bytes = BuildPush(data)
  OBVIOUS
<1>3. CASE n <= Direct
  <2>1. PICK head : head = <<n>>
    OBVIOUS
  <2>2. head \in Seq(Nat) /\ head # <<>> /\ Len(head) = 1 /\ head[1] = n
    BY <2>1
  <2>3. bytes = head \o data
    BY <1>1, <1>2, <1>3, <2>1 DEF BuildPush
  <2>4. bytes[0 + 1] = n
    <3>1. 1 \in 1..Len(head)
      BY <2>2
    <3>2. bytes[1] = head[1]
      BY <2>2, <2>3, <3>1, HeadFirst
    <3>3. QED
      BY <2>2, <3>2
  <2>5. LengthBytes(n) = 0
    BY <1>3 DEF LengthBytes, Direct, PushData1, PushData2, PushData4
  <2>6. ~NoPush(bytes, 0)
    BY <1>3, <2>4 DEF NoPush, Direct, PushData4
  <2>7. DataFrom(bytes, 0) = 1 /\ DataLen(bytes, 0) = n
    BY <2>4, <2>5 DEF DataFrom, DataLen
  <2>8. QED
    BY <1>1, <1>2, <2>2, <2>3, <2>6, <2>7, OnePush
<1>4. CASE ~(n <= Direct)
  <2>1. PICK head : head = <<76, n>>
    OBVIOUS
  <2>2. head \in Seq(Nat) /\ head # <<>> /\ Len(head) = 2 /\ head[1] = 76 /\ head[2] = n
    BY <2>1
  <2>3. bytes = head \o data
    BY <1>1, <1>2, <1>4, <2>1 DEF BuildPush, PushData1
  <2>4. bytes[0 + 1] = 76 /\ bytes[2] = n
    <3>1. 1 \in 1..Len(head) /\ 2 \in 1..Len(head)
      BY <2>2
    <3>2. bytes[1] = head[1]
      BY <2>2, <2>3, <3>1, HeadFirst
    <3>3. bytes[2] = head[2]
      <4>1. PICK k : k = 2
        OBVIOUS
      <4>2. k \in 1..Len(head) /\ head \in Seq(Nat)
        BY <2>2, <3>1, <4>1
      <4>3. (head \o data)[k] = head[k]
        BY <4>2, HeadFirst
      <4>4. QED
        BY <2>3, <4>1, <4>3
    <3>4. QED
      BY <2>2, <3>2, <3>3
  <2>5. LengthBytes(76) = 1
    BY LengthBytesOne
  <2>6. ~NoPush(bytes, 0)
    BY <2>4 DEF NoPush, PushData4
  <2>7. LittleEndian(bytes, 1, 1) = n
    <3>1. 1 + 1 = 2 /\ 1 \in Nat
      OBVIOUS
    <3>2. bytes[1 + 1] = n
      BY <2>4, <3>1
    <3>3. bytes[1 + 1] \in Nat
      BY <3>2
    <3>4. LittleEndian(bytes, 1, 1) = bytes[1 + 1]
      BY <3>1, <3>3, LengthOfOneByte, Zenon
    <3>5. QED
      BY <3>2, <3>4
  <2>8. DataFrom(bytes, 0) = 2 /\ DataLen(bytes, 0) = n
    BY <2>4, <2>5, <2>7 DEF DataFrom, DataLen
  <2>9. DataFrom(bytes, 0) = Len(head) /\ DataLen(bytes, 0) = Len(data)
    BY <1>1, <2>2, <2>8
  <2>10. head \in Seq(Nat) /\ head # <<>>
    BY <2>2
  <2>11. JsPushes(bytes) = Pushed(<<data>>)
    BY <2>3, <2>6, <2>9, <2>10, OnePush
  <2>12. QED
    BY <1>2, <2>11
<1>5. QED
  BY <1>3, <1>4

-----------------------------------------------------------------------------
(* The first of what is looked for.                                        *)

LEMMA MinIsLeast ==
    ASSUME NEW T, T \subseteq Nat, T # {}
    PROVE  Min(T) \in T /\ \A n \in T : Min(T) <= n
  BY Least DEF Min

\* The first leaf with a hash is one with that hash.
LEMMA FirstPlace ==
    ASSUME NEW S, NEW hashes \in Seq(S), NEW h \in ToSet(hashes)
    PROVE  /\ FirstIndex(hashes, h) \in 0..(Len(hashes) - 1)
           /\ hashes[FirstIndex(hashes, h) + 1] = h
<1>1. PICK n \in Nat : n = Len(hashes) /\ DOMAIN hashes = 1..n
  BY LenProperties
<1>2. PICK T : T = {i \in 1..n : hashes[i] = h}
  OBVIOUS
<1>3. T # {} /\ T \subseteq Nat
  BY <1>1, <1>2 DEF ToSet
<1>4. PICK m : m = Min(T)
  OBVIOUS
<1>5. m \in 1..n /\ hashes[m] = h
  BY <1>2, <1>3, <1>4, MinIsLeast
<1>6. FirstIndex(hashes, h) = m - 1
  BY <1>1, <1>2, <1>3, <1>4 DEF FirstIndex, SelectInSeq
<1>7. (m - 1) + 1 = m /\ m - 1 \in 0..(n - 1)
  BY <1>5
<1>8. QED
  BY <1>1, <1>5, <1>6, <1>7

\* The outputs Read stops at: it returns what the first of them says.
Stops(vout, raising) ==
    {k \in 1..Len(vout) : vout[k].kind = "anchor" \/ Pushes(vout[k].bytes, raising) = Throws}
Says(o) == IF o.kind = "anchor" THEN Found(o.root) ELSE Failed

LEMMA ReadFirst ==
    ASSUME NEW vout, Len(vout) \in Nat, NEW raising
    PROVE  /\ Stops(vout, raising) = {} => Read(vout, raising) = NotFound
           /\ Stops(vout, raising) # {} =>
                \E k \in Stops(vout, raising) :
                    /\ \A j \in Stops(vout, raising) : k <= j
                    /\ Read(vout, raising) = Says(vout[k])
<1>1. PICK T : T = Stops(vout, raising)
  OBVIOUS
<1>2. T = {k \in 1..Len(vout) : vout[k].kind = "anchor"
                                  \/ Pushes(vout[k].bytes, raising) = Throws}
  BY <1>1 DEF Stops
<1>3. CASE T = {}
  <2>1. Read(vout, raising) = NotFound
    BY <1>2, <1>3 DEF Read, SelectInSeq
  <2>2. QED
    BY <1>1, <1>3, <2>1
<1>4. CASE T # {}
  <2>1. PICK k : k = Min(T)
    OBVIOUS
  <2>2. T \subseteq Nat
    BY <1>2
  <2>3. k \in T /\ \A j \in T : k <= j
    BY <1>4, <2>1, <2>2, MinIsLeast
  <2>4. k # 0
    BY <1>2, <2>3
  <2>5. Read(vout, raising) = Says(vout[k])
    BY <1>2, <1>4, <2>1, <2>4 DEF Read, SelectInSeq, Says
  <2>6. QED
    BY <1>1, <1>4, <2>3, <2>5
<1>5. QED
  BY <1>3, <1>4

\* What transactions carry: roots of batches, and scripts of others.
Batch(hashes, t) ==
    [hashes |-> hashes, merkleRoot |-> RootOf(BuildLayers(hashes)),
     proofs |-> [h \in ToSet(hashes) |-> GetProof(BuildLayers(hashes), FirstIndex(hashes, h))],
     txid |-> t]
Batches == {Batch(hashes, t) : hashes \in Seq(Hashes) \ {<<>>}, t \in Nat}
Outputs == {Anchor(b.merkleRoot) : b \in Batches} \cup {Raw(bytes) : bytes \in Seq(Bytes)}
Transactions == [vout : Seq(Outputs), state : {"known", "gone"}]

LEMMA OutputKinds ==
    ASSUME NEW o \in Outputs
    PROVE  \/ o.kind = "anchor" /\ o = Anchor(o.root)
           \/ o.kind = "raw" /\ o.bytes \in Seq(Nat)
<1>1. Seq(Bytes) \subseteq Seq(Nat)
  <2>1. Bytes \subseteq Nat
    BY ByteAssumption
  <2>2. QED
    BY <2>1, SeqMonotonic
<1>2. CASE \E b \in Batches : o = Anchor(b.merkleRoot)
  BY <1>2 DEF Anchor
<1>3. CASE \E bytes \in Seq(Bytes) : o = Raw(bytes)
  BY <1>1, <1>3 DEF Raw
<1>4. QED
  BY <1>2, <1>3 DEF Outputs

\* Both readers stop at the same output, unless the first gives up earlier.
LEMMA ReadersAgree ==
    ASSUME NEW vout \in Seq(Outputs)
    PROVE  \/ Read(vout, JsRaising) = Read(vout, PyRaising)
           \/ /\ Read(vout, JsRaising) = Failed
              /\ \E o \in ToSet(vout) : o.kind = "raw" /\ JsPushes(o.bytes) = Throws
<1>1. PICK n \in Nat : n = Len(vout) /\ DOMAIN vout = 1..n
  BY LenProperties
<1>2. PICK js, py : js = Stops(vout, JsRaising) /\ py = Stops(vout, PyRaising)
  OBVIOUS
<1>3. \A k \in 1..n : vout[k] \in Outputs
  BY <1>1, ElementOfSeq
<1>4. py = {k \in 1..n : vout[k].kind = "anchor"}
  <2>1. \A k \in 1..n : vout[k].kind # "anchor" => Pushes(vout[k].bytes, PyRaising) # Throws
    BY <1>3, OutputKinds, PythonReadsOn DEF PyPushes
  <2>2. QED
    BY <1>1, <1>2, <2>1 DEF Stops
<1>5. py \subseteq js /\ js \subseteq 1..n
  BY <1>1, <1>2, <1>4 DEF Stops
<1>6. CASE js = {}
  <2>1. py = {}
    BY <1>5, <1>6
  <2>2. QED
    BY <1>1, <1>2, <1>6, <2>1, ReadFirst
<1>7. CASE js # {}
  <2>1. PICK k \in js : /\ \A j \in js : k <= j
                        /\ Read(vout, JsRaising) = Says(vout[k])
    BY <1>1, <1>2, <1>7, ReadFirst
  <2>2. k \in 1..n
    BY <1>5
  <2>3. CASE vout[k].kind = "anchor"
    <3>1. k \in py
      BY <1>4, <2>2, <2>3
    <3>2. PICK m \in py : /\ \A j \in py : m <= j
                          /\ Read(vout, PyRaising) = Says(vout[m])
      BY <1>1, <1>2, <3>1, ReadFirst
    <3>3. k <= m /\ m <= k /\ m \in 1..n
      BY <1>5, <2>1, <3>1, <3>2
    <3>4. k = m
      BY <2>2, <3>3
    <3>5. QED
      BY <2>1, <3>2, <3>4
  <2>4. CASE vout[k].kind # "anchor"
    <3>1. Read(vout, JsRaising) = Failed
      BY <2>1, <2>4 DEF Says
    <3>2. vout[k].kind = "raw"
      BY <1>3, <2>2, <2>4, OutputKinds
    <3>3. JsPushes(vout[k].bytes) = Throws
      BY <1>2, <2>4 DEF Stops, JsPushes
    <3>4. vout[k] \in ToSet(vout)
      BY <1>1, <2>2 DEF ToSet
    <3>5. QED
      BY <3>1, <3>2, <3>3, <3>4
  <2>5. QED
    BY <2>3, <2>4
<1>8. QED
  BY <1>6, <1>7

-----------------------------------------------------------------------------
(* What is handed over: only lists of steps, with positions known to both  *)
(* libraries or not.                                                       *)

AnySteps(U) == [position : Positions \cup {"left", "right"}, hash : U]
IsProof(p) == \E U : p \in Seq(AnySteps(U))

LEMMA BatchIsOne ==
    ASSUME NEW b \in Batches
    PROVE  /\ b.hashes \in Seq(Hashes) /\ Len(b.hashes) \in Nat \ {0}
           /\ b.merkleRoot = RootOf(BuildLayers(b.hashes))
           /\ DOMAIN b.proofs = ToSet(b.hashes)
           /\ \A h \in ToSet(b.hashes) :
                 b.proofs[h] = GetProof(BuildLayers(b.hashes), FirstIndex(b.hashes, h))
<1>1. PICK hashes \in Seq(Hashes) \ {<<>>}, t \in Nat : b = Batch(hashes, t)
  BY DEF Batches
<1>2. Len(hashes) \in Nat \ {0}
  BY EmptySeq
<1>3. /\ b.hashes = hashes
      /\ b.merkleRoot = RootOf(BuildLayers(hashes))
      /\ b.proofs = [h \in ToSet(hashes) |->
                        GetProof(BuildLayers(hashes), FirstIndex(hashes, h))]
  BY <1>1 DEF Batch
<1>4. QED
  BY <1>2, <1>3

LEMMA SavedIsProof ==
    ASSUME NEW b \in Batches, NEW h \in DOMAIN b.proofs
    PROVE  b.proofs[h] \in Seq(ProofSteps(NodesOf(BuildLayers(b.hashes))))
<1>1. PICK hashes : hashes = b.hashes
  OBVIOUS
<1>2. hashes \in Seq(Hashes) /\ Len(hashes) \in Nat \ {0} /\ h \in ToSet(hashes)
  BY <1>1, BatchIsOne
<1>3. PICK i : i = FirstIndex(hashes, h)
  OBVIOUS
<1>4. i \in 0..(Len(hashes) - 1)
  BY <1>2, <1>3, FirstPlace
<1>5. IsTree(hashes, BuildLayers(hashes))
  BY <1>2, TreeBuilt
<1>6. GetProof(BuildLayers(hashes), i) \in Seq(ProofSteps(NodesOf(BuildLayers(hashes))))
  BY <1>4, <1>5, ProofTyped
<1>7. QED
  BY <1>1, <1>2, <1>3, <1>6, BatchIsOne

LEMMA StepLost ==
    ASSUME NEW S, NEW p \in Seq(S), NEW k \in DOMAIN p
    PROVE  RemoveAt(p, k) \in Seq(S)
<1>1. PICK n \in Nat : n = Len(p) /\ DOMAIN p = 1..n
  BY LenProperties
<1>2. k \in 1..n /\ k - 1 \in Int /\ k + 1 \in Int
  BY <1>1
<1>3. \A j \in 1..(k - 1) : p[j] \in S
  BY <1>1, <1>2, ElementOfSeq
<1>4. \A j \in (k + 1)..n : p[j] \in S
  BY <1>1, <1>2, ElementOfSeq
<1>5. SubSeq(p, 1, k - 1) \in Seq(S)
  BY <1>2, <1>3, SubSeqProperties
<1>6. SubSeq(p, k + 1, n) \in Seq(S)
  BY <1>2, <1>4, SubSeqProperties
<1>7. SubSeq(p, 1, k - 1) \o SubSeq(p, k + 1, n) \in Seq(S)
  BY <1>5, <1>6, ConcatProperties
<1>8. QED
  BY <1>1, <1>7 DEF RemoveAt

LEMMA StepMoved ==
    ASSUME NEW U, NEW p \in Seq(AnySteps(U)), NEW k \in DOMAIN p, NEW s \in Positions
    PROVE  Moved(p, k, s) \in Seq(AnySteps(U))
<1>1. k \in 1..Len(p)
  BY LenProperties
<1>2. p[k] \in AnySteps(U)
  BY <1>1, ElementOfSeq
<1>3. PICK z : z = [p[k] EXCEPT !.position = s]
  OBVIOUS
<1>4. z \in AnySteps(U)
  BY <1>2, <1>3 DEF AnySteps
<1>5. [p EXCEPT ![k] = z] \in Seq(AnySteps(U))
  BY <1>1, <1>4, ExceptSeq
<1>6. Moved(p, k, s) = [p EXCEPT ![k] = z]
  BY <1>3 DEF Moved
<1>7. QED
  BY <1>5, <1>6

\* Saved proofs have no other positions.
LEMMA PositionsKnown ==
    ASSUME NEW U, NEW p \in Seq(ProofSteps(U))
    PROVE  KnownPositions(p) /\ p \in Seq(AnySteps(U))
<1>1. ASSUME NEW k \in DOMAIN p PROVE p[k].position \in {"left", "right"}
  <2>1. p[k] \in ProofSteps(U)
    BY ElementOfSeq, LenProperties
  <2>2. QED
    BY <2>1 DEF ProofSteps
<1>2. Seq(ProofSteps(U)) \subseteq Seq(AnySteps(U))
  <2>1. ProofSteps(U) \subseteq AnySteps(U)
    BY DEF ProofSteps, AnySteps
  <2>2. QED
    BY <2>1, SeqMonotonic
<1>3. QED
  BY <1>1, <1>2 DEF KnownPositions

\* merkle.js climbs along any proof as along the one it reads in it.
LEMMA ClimbsAsRead ==
    ASSUME NEW U, NEW p \in Seq(AnySteps(U)), NEW x
    PROVE  AsRead(p) \in Seq(ProofSteps(U)) /\ Climb(x, AsRead(p)) = Climb(x, p)
<1>1. PICK q : q = AsRead(p)
  OBVIOUS
<1>2. PICK n \in Nat : n = Len(p) /\ DOMAIN p = 1..n
  BY LenProperties
<1>3. ASSUME NEW k \in 1..n
      PROVE  q[k] \in ProofSteps(U) /\ \A c : StepUp(c, q[k]) = StepUp(c, p[k])
  <2>1. p[k] \in AnySteps(U)
    BY <1>2, ElementOfSeq
  <2>2. q[k] = [p[k] EXCEPT !.position = IF @ = "left" THEN "left" ELSE "right"]
    BY <1>1, <1>2 DEF AsRead
  <2>3. CASE p[k].position = "left"
    BY <2>1, <2>2, <2>3 DEF AnySteps, ProofSteps, StepUp
  <2>4. CASE p[k].position # "left"
    BY <2>1, <2>2, <2>4 DEF AnySteps, ProofSteps, StepUp
  <2>5. QED
    BY <2>3, <2>4
<1>4. q \in Seq(ProofSteps(U)) /\ Len(q) = n
  <2>1. q = [k \in 1..n |-> q[k]]
    BY <1>1, <1>2 DEF AsRead
  <2>2. q \in [1..n -> ProofSteps(U)]
    BY <1>3, <2>1
  <2>3. q \in Seq(ProofSteps(U))
    BY <2>2, SeqDef
  <2>4. DOMAIN q = 1..n
    BY <2>2
  <2>5. QED
    BY <2>3, <2>4, LenProperties
<1>5. PICK f : Climbs(x, p, f) /\ Climb(x, p) = f[n]
  BY <1>2, ClimbRuns
<1>6. PICK g : Climbs(x, q, g) /\ Climb(x, q) = g[n]
  <2>1. PICK g : Climbs(x, q, g) /\ Climb(x, q) = g[Len(q)]
    BY <1>4, ClimbRuns
  <2>2. QED
    BY <1>4, <2>1
<1>7. Climbs(x, q, f)
  <2>1. ASSUME NEW k \in 0..n PROVE ClimbFrom(x, q, f, k) = ClimbFrom(x, p, f, k)
    <3>1. k # 0 => k \in 1..n
      OBVIOUS
    <3>2. QED
      BY <1>3, <3>1 DEF ClimbFrom
  <2>2. f = [k \in 0..n |-> ClimbFrom(x, p, f, k)]
    BY <1>2, <1>5 DEF Climbs
  <2>3. f = [k \in 0..n |-> ClimbFrom(x, q, f, k)]
    BY <2>1, <2>2, Zenon
  <2>4. QED
    BY <1>4, <2>3 DEF Climbs
<1>8. f[Len(q)] = g[Len(q)]
  BY <1>4, <1>6, <1>7, ClimbOnly
<1>9. QED
  BY <1>1, <1>4, <1>5, <1>6, <1>8

LEMMA HandedOverIsProof ==
    ASSUME NEW b \in Batches, NEW p \in ProofsHandedOver(b)
    PROVE  IsProof(p)
<1>1. PICK U : U = NodesOf(BuildLayers(b.hashes))
  OBVIOUS
<1>2. \A h \in DOMAIN b.proofs : b.proofs[h] \in Seq(AnySteps(U))
  BY <1>1, SavedIsProof, PositionsKnown
<1>3. PICK h \in DOMAIN b.proofs :
          \/ p = b.proofs[h]
          \/ p \in Changed(b.proofs[h])
  BY Zenon DEF ProofsHandedOver
<1>4. PICK q \in Seq(AnySteps(U)) : q = b.proofs[h]
  BY <1>2
<1>5. p \in Seq(AnySteps(U))
  <2>1. CASE p = q
    BY <2>1
  <2>2. CASE p \in Changed(q)
    <3>1. \/ \E k \in DOMAIN q : p = RemoveAt(q, k)
          \/ \E k \in DOMAIN q, s \in Positions : p = Moved(q, k, s)
      BY <2>2 DEF Changed
    <3>2. QED
      BY <3>1, StepLost, StepMoved
  <2>3. QED
    BY <1>3, <1>4, <2>1, <2>2
<1>6. QED
  BY <1>5 DEF IsProof

-----------------------------------------------------------------------------
(* The inductive invariant.  Of a verification under way it keeps what the *)
(* checks before the first await found; of one that ended "valid", also    *)
(* what the transaction carries.                                           *)

TypeOK == /\ queue \in Seq(Hashes)
          /\ script \in Seq(Bytes) /\ Len(script) \in 0..ShortScript
          /\ batches \in Seq(Batches)
          /\ chain \in Seq(Transactions)

Proved(h, r) == /\ VerifyProof(h, r.proof, r.merkleRoot)
                /\ \E k \in DOMAIN batches : batches[k].merkleRoot = r.merkleRoot
                /\ IsProof(r.proof)
Carried(r) == r.txid \in DOMAIN chain /\ Anchor(r.merkleRoot) \in ToSet(chain[r.txid].vout)

Verifying(at, verdict, h, r) == [at |-> at, verdict |-> verdict, hash |-> h, record |-> r]
CheckOK ==
    \/ check.at # "fetch" /\ check.verdict # "valid"
    \/ \E h, r : check = Verifying("fetch", "none", h, r) /\ Proved(h, r)
    \/ \E h, r : check = Verifying("done", "valid", h, r) /\ Proved(h, r) /\ Carried(r)

IInv == TypeOK /\ CheckOK

LEMMA AppendKeeps ==
    ASSUME NEW S, NEW s \in Seq(S), NEW e \in S
    PROVE  /\ Append(s, e) \in Seq(S) /\ Len(Append(s, e)) = Len(s) + 1
           /\ \A k \in DOMAIN s : k \in DOMAIN Append(s, e) /\ Append(s, e)[k] = s[k]
<1>1. PICK n \in Nat : n = Len(s) /\ DOMAIN s = 1..n
  BY LenProperties
<1>2. PICK t : t = Append(s, e)
  OBVIOUS
<1>3. t \in Seq(S) /\ Len(t) = n + 1 /\ \A k \in 1..n : t[k] = s[k]
  BY <1>1, <1>2, AppendProperties
<1>4. DOMAIN t = 1..(n + 1)
  BY <1>3, LenProperties
<1>5. \A k \in 1..n : k \in 1..(n + 1)
  OBVIOUS
<1>6. QED
  BY <1>1, <1>2, <1>3, <1>4, <1>5

\* Batches stay, and so do the outputs of transactions: so does what was found.
Kept == /\ \A k \in DOMAIN batches : /\ k \in DOMAIN batches'
                                     /\ batches'[k].merkleRoot = batches[k].merkleRoot
        /\ \A t \in DOMAIN chain : t \in DOMAIN chain' /\ chain'[t].vout = chain[t].vout

LEMMA CheckKept ==
    ASSUME CheckOK, check' = check, Kept
    PROVE  CheckOK'
<1>1. ASSUME NEW h, NEW r, Proved(h, r) PROVE Proved(h, r)'
  BY <1>1 DEF Proved, Kept
<1>2. ASSUME NEW r, Carried(r) PROVE Carried(r)'
  BY <1>2 DEF Carried, Kept
<1>3. CASE check.at # "fetch" /\ check.verdict # "valid"
  BY <1>3 DEF CheckOK
<1>4. CASE \E h, r : check = Verifying("fetch", "none", h, r) /\ Proved(h, r)
  BY <1>1, <1>4 DEF CheckOK
<1>5. CASE \E h, r : check = Verifying("done", "valid", h, r) /\ Proved(h, r) /\ Carried(r)
  BY <1>1, <1>2, <1>5 DEF CheckOK
<1>6. QED
  BY <1>3, <1>4, <1>5 DEF CheckOK

LEMMA IInvInit == Init => IInv
<1> SUFFICES ASSUME Init PROVE IInv
  OBVIOUS
<1>1. queue = <<>> /\ script = <<>> /\ batches = <<>> /\ chain = <<>> /\ check = NoCheck
  BY DEF Init
<1>2. TypeOK
  <2>1. <<>> \in Seq(Hashes) /\ <<>> \in Seq(Bytes) /\ <<>> \in Seq(Batches)
           /\ <<>> \in Seq(Transactions)
    BY EmptySeq
  <2>2. Len(<<>>) \in 0..ShortScript
    BY EmptySeq DEF ShortScript
  <2>3. QED
    BY <1>1, <2>1, <2>2 DEF TypeOK
<1>3. CheckOK
  BY <1>1 DEF CheckOK, NoCheck
<1>4. QED
  BY <1>2, <1>3 DEF IInv

LEMMA QueueKeeps ==
    ASSUME IInv, NEW h \in Hashes, Queue(h)
    PROVE  IInv'
<1>1. TypeOK'
  <2>1. queue' \in Seq(Hashes)
    BY AppendKeeps DEF IInv, TypeOK, Queue
  <2>2. QED
    BY <2>1 DEF IInv, TypeOK, Queue
<1>2. CheckOK'
  BY CheckKept DEF IInv, Kept, Queue
<1>3. QED
  BY <1>1, <1>2 DEF IInv

LEMMA SettleKeeps ==
    ASSUME IInv, Settle
    PROVE  IInv'
<1>1. PICK b : b = Batch(queue, Len(chain) + 1)
  OBVIOUS
<1>2. PICK tx : tx = [vout |-> <<Anchor(b.merkleRoot)>>, state |-> "known"]
  OBVIOUS
<1>3. /\ queue # <<>> /\ queue' = <<>> /\ script' = script /\ check' = check
      /\ batches' = Append(batches, b)
      /\ chain' = Append(chain, tx)
  BY <1>1, <1>2 DEF Settle, Batch
<1>4. b \in Batches
  <2>1. queue \in Seq(Hashes) \ {<<>>}
    BY <1>3 DEF IInv, TypeOK
  <2>2. Len(chain) + 1 \in Nat
    BY LenProperties DEF IInv, TypeOK
  <2>3. QED
    BY <1>1, <2>1, <2>2 DEF Batches
<1>5. tx \in Transactions
  <2>1. Anchor(b.merkleRoot) \in Outputs
    BY <1>4 DEF Outputs
  <2>2. <<Anchor(b.merkleRoot)>> \in Seq(Outputs)
    BY <2>1
  <2>3. QED
    BY <1>2, <2>2 DEF Transactions
<1>6. /\ batches' \in Seq(Batches)
      /\ \A k \in DOMAIN batches : k \in DOMAIN batches' /\ batches'[k] = batches[k]
  BY <1>3, <1>4, AppendKeeps DEF IInv, TypeOK
<1>7. /\ chain' \in Seq(Transactions)
      /\ \A t \in DOMAIN chain : t \in DOMAIN chain' /\ chain'[t] = chain[t]
  BY <1>3, <1>5, AppendKeeps DEF IInv, TypeOK
<1>8. TypeOK'
  BY <1>3, <1>6, <1>7, EmptySeq DEF IInv, TypeOK
<1>9. CheckOK'
  BY <1>3, <1>6, <1>7, CheckKept DEF IInv, Kept
<1>10. QED
  BY <1>8, <1>9 DEF IInv

LEMMA WriteKeeps ==
    ASSUME IInv, NEW b \in Bytes, Write(b)
    PROVE  IInv'
<1>1. /\ Len(script) < ShortScript /\ script' = Append(script, b)
      /\ queue' = queue /\ batches' = batches /\ chain' = chain /\ check' = check
  BY DEF Write
<1>2. script' \in Seq(Bytes) /\ Len(script') = Len(script) + 1
  BY <1>1, AppendKeeps DEF IInv, TypeOK
<1>3. Len(script') \in 0..ShortScript
  <2>1. PICK n \in 0..36 : n = Len(script)
    BY DEF IInv, TypeOK, ShortScript
  <2>2. n < 36 /\ Len(script') = n + 1
    BY <1>1, <1>2, <2>1 DEF ShortScript
  <2>3. QED
    BY <2>2 DEF ShortScript
<1>4. TypeOK'
  BY <1>1, <1>2, <1>3 DEF IInv, TypeOK
<1>5. CheckOK'
  BY <1>1, CheckKept DEF IInv, Kept
<1>6. QED
  BY <1>4, <1>5 DEF IInv

LEMMA PublishKeeps ==
    ASSUME IInv, Publish
    PROVE  IInv'
<1>1. /\ script' = <<>> /\ queue' = queue /\ batches' = batches /\ check' = check
  BY DEF Publish
<1>2. PICK vout : /\ chain' = Append(chain, [vout |-> vout, state |-> "known"])
                  /\ \/ vout = <<Raw(script)>>
                     \/ \E k \in DOMAIN batches :
                           \/ vout = <<Raw(script), Anchor(batches[k].merkleRoot)>>
                           \/ vout = <<Anchor(batches[k].merkleRoot), Raw(script)>>
  BY DEF Publish
<1>3. vout \in Seq(Outputs)
  <2>1. Raw(script) \in Outputs
    BY DEF IInv, TypeOK, Outputs
  <2>2. \A k \in DOMAIN batches : Anchor(batches[k].merkleRoot) \in Outputs
    <3>1. \A k \in DOMAIN batches : batches[k] \in Batches
      BY ElementOfSeq, LenProperties DEF IInv, TypeOK
    <3>2. QED
      BY <3>1 DEF Outputs
  <2>3. \A o1, o2 \in Outputs : <<o1>> \in Seq(Outputs) /\ <<o1, o2>> \in Seq(Outputs)
    OBVIOUS
  <2>4. QED
    BY <1>2, <2>1, <2>2, <2>3
<1>4. [vout |-> vout, state |-> "known"] \in Transactions
  BY <1>3 DEF Transactions
<1>5. /\ chain' \in Seq(Transactions)
      /\ \A t \in DOMAIN chain : t \in DOMAIN chain' /\ chain'[t] = chain[t]
  BY <1>2, <1>4, AppendKeeps DEF IInv, TypeOK
<1>6. TypeOK'
  <2>1. script' \in Seq(Bytes) /\ Len(script') \in 0..ShortScript
    BY <1>1, EmptySeq DEF ShortScript
  <2>2. QED
    BY <1>1, <1>5, <2>1 DEF IInv, TypeOK
<1>7. CheckOK'
  BY <1>1, <1>5, CheckKept DEF IInv, Kept
<1>8. QED
  BY <1>6, <1>7 DEF IInv

LEMMA EvictKeeps ==
    ASSUME IInv, NEW t \in DOMAIN chain, Evict(t)
    PROVE  IInv'
<1>1. PICK tx : tx = [chain[t] EXCEPT !.state = "gone"]
  OBVIOUS
<1>2. /\ chain' = [chain EXCEPT ![t] = tx]
      /\ queue' = queue /\ script' = script /\ batches' = batches /\ check' = check
  BY <1>1 DEF Evict
<1>3. chain \in Seq(Transactions) /\ t \in 1..Len(chain) /\ DOMAIN chain = 1..Len(chain)
  BY LenProperties DEF IInv, TypeOK
<1>4. chain[t] \in Transactions
  BY <1>3, ElementOfSeq
<1>5. tx \in Transactions /\ tx.vout = chain[t].vout
  BY <1>1, <1>4 DEF Transactions
<1>6. /\ chain' \in Seq(Transactions) /\ Len(chain') = Len(chain)
      /\ \A j \in 1..Len(chain) : chain'[j] = IF j = t THEN tx ELSE chain[j]
  BY <1>2, <1>3, <1>5, ExceptSeq
<1>7. \A j \in DOMAIN chain : j \in DOMAIN chain' /\ chain'[j].vout = chain[j].vout
  <2>1. DOMAIN chain' = DOMAIN chain
    BY <1>2
  <2>2. QED
    BY <1>3, <1>5, <1>6, <2>1
<1>8. TypeOK'
  BY <1>2, <1>6 DEF IInv, TypeOK
<1>9. CheckOK'
  BY <1>2, <1>7, CheckKept DEF IInv, Kept
<1>10. QED
  BY <1>8, <1>9 DEF IInv

LEMMA SubmitKeeps ==
    ASSUME IInv, Submit
    PROVE  IInv'
<1>1. PICK x \in HandedOver : CheckProof(x.hash, x.record)
  BY DEF Submit
<1>2. PICK j \in DOMAIN batches :
          x \in {[hash |-> h, record |-> Record(batches[k].merkleRoot, p, t)] :
                   h \in HashesHandedOver(batches[j]), p \in ProofsHandedOver(batches[j]),
                   k \in DOMAIN batches, t \in 1..(Len(chain) + 1)}
  BY DEF HandedOver
<1>h. PICK h \in HashesHandedOver(batches[j]), p \in ProofsHandedOver(batches[j]),
           k \in DOMAIN batches, t \in 1..(Len(chain) + 1) :
          x = [hash |-> h, record |-> Record(batches[k].merkleRoot, p, t)]
  BY <1>2
<1>3. PICK r : r = Record(batches[k].merkleRoot, p, t)
  OBVIOUS
<1>4. /\ r.merkleRoot = batches[k].merkleRoot /\ r.proof = p
      /\ x.hash = h /\ x.record = r
  BY <1>h, <1>3 DEF Record
<1>5. /\ check' = IF VerifyProof(h, r.proof, r.merkleRoot)
                  THEN Verifying("fetch", "none", h, r) ELSE Ended("merkle-proof-mismatch")
      /\ queue' = queue /\ script' = script /\ batches' = batches /\ chain' = chain
  BY <1>1, <1>4 DEF CheckProof, Verifying
<1>6. TypeOK'
  BY <1>5 DEF IInv, TypeOK
<1>7. IsProof(p)
  <2>1. batches[j] \in Batches
    BY ElementOfSeq, LenProperties DEF IInv, TypeOK
  <2>2. QED
    BY <2>1, HandedOverIsProof
<1>8. CheckOK'
  <2>1. CASE VerifyProof(h, r.proof, r.merkleRoot)
    <3>1. Proved(h, r)'
      BY <1>4, <1>5, <1>7, <2>1 DEF Proved
    <3>2. check' = Verifying("fetch", "none", h, r)
      BY <1>5, <2>1
    <3>3. QED
      BY <3>1, <3>2 DEF CheckOK
  <2>2. CASE ~VerifyProof(h, r.proof, r.merkleRoot)
    <3>1. check'.at = "done" /\ check'.verdict = "merkle-proof-mismatch"
      BY <1>5, <2>2 DEF Ended
    <3>2. QED
      BY <3>1 DEF CheckOK
  <2>3. QED
    BY <2>1, <2>2
<1>9. QED
  BY <1>6, <1>8 DEF IInv

LEMMA FindingsDiffer ==
    /\ \A root : Found(root) # Failed /\ Found(root) # NotFound
    /\ \A r1, r2 : Found(r1) = Found(r2) => r1 = r2
    /\ Failed # NotFound
<1>1. /\ \A root : Found(root).kind = "root" /\ Found(root).root = root
      /\ Failed.kind = "failed" /\ NotFound.kind = "none"
  BY DEF Found, Failed, NotFound
<1>2. QED
  BY <1>1

\* The verdict, case by case.
LEMMA VerdictCases ==
    ASSUME NEW r, NEW raising
    PROVE  \/ /\ r.txid \notin DOMAIN chain \/ chain[r.txid].state = "gone"
              /\ Verdict(r, raising) = "transaction-not-found"
           \/ /\ r.txid \in DOMAIN chain /\ chain[r.txid].state # "gone"
              /\ \/ /\ Read(chain[r.txid].vout, raising) = Failed
                    /\ Verdict(r, raising) = "error"
                 \/ /\ Read(chain[r.txid].vout, raising) = Found(r.merkleRoot)
                    /\ Verdict(r, raising) = "valid"
                 \/ /\ Read(chain[r.txid].vout, raising) \notin {Failed, Found(r.merkleRoot)}
                    /\ Verdict(r, raising) = "on-chain-data-mismatch"
<1>1. CASE r.txid \notin DOMAIN chain \/ chain[r.txid].state = "gone"
  BY <1>1, Zenon DEF Verdict
<1>2. CASE ~(r.txid \notin DOMAIN chain \/ chain[r.txid].state = "gone")
  <2>1. PICK found : found = Read(chain[r.txid].vout, raising)
    OBVIOUS
  <2>2. Verdict(r, raising) = CASE found = Failed -> "error"
                                [] found = Found(r.merkleRoot) -> "valid"
                                [] OTHER -> "on-chain-data-mismatch"
    BY <1>2, <2>1, Zenon DEF Verdict
  <2>3. CASE found = Failed
    <3>1. found # Found(r.merkleRoot)
      BY <2>3, FindingsDiffer
    <3>2. Verdict(r, raising) = "error"
      BY <2>2, <2>3, <3>1, Zenon
    <3>3. QED
      BY <1>2, <2>1, <2>3, <3>2
  <2>4. CASE found = Found(r.merkleRoot)
    <3>1. found # Failed
      BY <2>4, FindingsDiffer
    <3>2. Verdict(r, raising) = "valid"
      BY <2>2, <2>4, <3>1, Zenon
    <3>3. QED
      BY <1>2, <2>1, <2>4, <3>2
  <2>5. CASE found # Failed /\ found # Found(r.merkleRoot)
    <3>1. Verdict(r, raising) = "on-chain-data-mismatch"
      BY <2>2, <2>5, Zenon
    <3>2. QED
      BY <1>2, <2>1, <2>5, <3>1
  <2>6. QED
    BY <2>3, <2>4, <2>5
<1>3. QED
  BY <1>1, <1>2

LEMMA FoundIsCarried ==
    ASSUME NEW vout \in Seq(Outputs), NEW raising, NEW root,
           Read(vout, raising) = Found(root)
    PROVE  Anchor(root) \in ToSet(vout)
<1>1. Len(vout) \in Nat /\ DOMAIN vout = 1..Len(vout)
  BY LenProperties
<1>2. Stops(vout, raising) # {}
  BY <1>1, ReadFirst, FindingsDiffer
<1>3. PICK k \in Stops(vout, raising) : Read(vout, raising) = Says(vout[k])
  BY <1>1, <1>2, ReadFirst
<1>4. k \in 1..Len(vout)
  BY DEF Stops
<1>5. vout[k] \in Outputs
  BY <1>4, ElementOfSeq
<1>6. vout[k].kind = "anchor" /\ vout[k].root = root
  BY <1>3, FindingsDiffer DEF Says
<1>7. vout[k] = Anchor(root)
  BY <1>5, <1>6, OutputKinds
<1>8. QED
  BY <1>1, <1>4, <1>7 DEF ToSet

\* The step that ends a verification, for the record it was begun with.
LEMMA FetchEnds ==
    ASSUME IInv, FetchTx
    PROVE  \E h, r : /\ check = Verifying("fetch", "none", h, r) /\ Proved(h, r)
                     /\ check' = IF Verdict(r, JsRaising) = "valid"
                                 THEN Verifying("done", "valid", h, r)
                                 ELSE Ended(Verdict(r, JsRaising))
<1>1. PICK h, r : check = Verifying("fetch", "none", h, r) /\ Proved(h, r)
  BY DEF IInv, CheckOK, FetchTx, Verifying
<1>2. PICK verdict : verdict = Verdict(r, JsRaising)
  OBVIOUS
<1>3. check.record = r
  BY <1>1 DEF Verifying
<1>4. check' = IF verdict = "valid" THEN [check EXCEPT !.at = "done", !.verdict = verdict]
               ELSE Ended(verdict)
  BY <1>2, <1>3 DEF FetchTx
<1>5. verdict = "valid" => [check EXCEPT !.at = "done", !.verdict = verdict]
                              = Verifying("done", "valid", h, r)
  <2>1. PICK c : c = Verifying("fetch", "none", h, r)
    OBVIOUS
  <2>2. [c EXCEPT !.at = "done"] = Verifying("done", "none", h, r)
    BY <2>1 DEF Verifying
  <2>3. PICK d : d = Verifying("done", "none", h, r)
    OBVIOUS
  <2>4. [d EXCEPT !.verdict = verdict] = Verifying("done", verdict, h, r)
    BY <2>3 DEF Verifying
  <2>5. QED
    BY <1>1, <2>1, <2>2, <2>3, <2>4
<1>6. QED
  BY <1>1, <1>2, <1>4, <1>5

LEMMA FetchKeeps ==
    ASSUME IInv, FetchTx
    PROVE  IInv'
<1>1. PICK h, r : /\ check = Verifying("fetch", "none", h, r) /\ Proved(h, r)
                  /\ check' = IF Verdict(r, JsRaising) = "valid"
                              THEN Verifying("done", "valid", h, r)
                              ELSE Ended(Verdict(r, JsRaising))
  BY FetchEnds
<1>2. queue' = queue /\ script' = script /\ batches' = batches /\ chain' = chain
  BY DEF FetchTx
<1>3. TypeOK'
  BY <1>2 DEF IInv, TypeOK
<1>4. Proved(h, r)'
  BY <1>1, <1>2 DEF Proved
<1>5. CASE Verdict(r, JsRaising) = "valid"
  <2>1. r.txid \in DOMAIN chain /\ Read(chain[r.txid].vout, JsRaising) = Found(r.merkleRoot)
    BY <1>5, VerdictCases
  <2>2. chain[r.txid].vout \in Seq(Outputs)
    <3>1. chain[r.txid] \in Transactions
      BY <2>1, ElementOfSeq, LenProperties DEF IInv, TypeOK
    <3>2. QED
      BY <3>1 DEF Transactions
  <2>3. Anchor(r.merkleRoot) \in ToSet(chain[r.txid].vout)
    BY <2>1, <2>2, FoundIsCarried
  <2>4. Carried(r)'
    BY <1>2, <2>1, <2>3 DEF Carried
  <2>5. QED
    BY <1>1, <1>3, <1>4, <1>5, <2>4 DEF IInv, CheckOK
<1>6. CASE Verdict(r, JsRaising) # "valid"
  <2>1. check'.at = "done" /\ check'.verdict # "valid"
    BY <1>1, <1>6 DEF Ended
  <2>2. QED
    BY <1>3, <2>1 DEF IInv, CheckOK
<1>7. QED
  BY <1>5, <1>6

LEMMA IInvNext == IInv /\ [Next]_vars => IInv'
<1> SUFFICES ASSUME IInv, [Next]_vars PROVE IInv'
  OBVIOUS
<1>1. ASSUME NEW h \in Hashes, Queue(h) PROVE IInv'
  BY <1>1, QueueKeeps
<1>2. CASE Settle
  BY <1>2, SettleKeeps
<1>3. ASSUME NEW b \in Bytes, Write(b) PROVE IInv'
  BY <1>3, WriteKeeps
<1>4. CASE Publish
  BY <1>4, PublishKeeps
<1>5. ASSUME NEW t \in DOMAIN chain, Evict(t) PROVE IInv'
  BY <1>5, EvictKeeps
<1>6. CASE Submit
  BY <1>6, SubmitKeeps
<1>7. CASE FetchTx
  BY <1>7, FetchKeeps
<1>8. CASE UNCHANGED vars
  <2>1. TypeOK'
    BY <1>8 DEF IInv, TypeOK, vars
  <2>2. CheckOK'
    BY <1>8, CheckKept DEF IInv, Kept, vars
  <2>3. QED
    BY <2>1, <2>2 DEF IInv
<1>9. QED
  BY <1>1, <1>2, <1>3, <1>4, <1>5, <1>6, <1>7, <1>8 DEF Next

LEMMA IInvHolds == Spec => []IInv
  BY IInvInit, IInvNext, PTL DEF Spec

-----------------------------------------------------------------------------
(* What is proved.                                                         *)

\* A batch holds its hashes with the root and the proofs that buildLayers and
\* getProof make of them; the transactions carry roots of batches and scripts.
THEOREM TypeCorrect == Spec => []TypeOK
<1>1. IInv => TypeOK
  BY DEF IInv
<1> QED
  BY <1>1, IInvHolds, PTL

LEMMA BatchesAreBatches ==
    ASSUME IInv, NEW k \in DOMAIN batches
    PROVE  batches[k] \in Batches
  BY ElementOfSeq, LenProperties DEF IInv, TypeOK

\* For every number of hashes, also when some are queued twice, the tree built
\* level by level is the one RFC 6962 defines from the top, and the proof of
\* each hash is its audit path there.
THEOREM BuildsRFC6962 == Spec => []TreesAreRFC6962
<1>1. IInv => TreesAreRFC6962
  <2> SUFFICES ASSUME IInv, NEW k \in DOMAIN batches, NEW b, b = batches[k]
               PROVE  /\ b.merkleRoot = TreeHash(b.hashes)
                      /\ \A h \in ToSet(b.hashes) :
                            b.proofs[h] = AuditPath(b.hashes, FirstIndex(b.hashes, h))
    BY DEF TreesAreRFC6962
  <2>1. b \in Batches
    BY BatchesAreBatches
  <2>2. PICK hashes : hashes = b.hashes
    OBVIOUS
  <2>3. /\ hashes \in Seq(Hashes) /\ Len(hashes) \in Nat \ {0}
        /\ b.merkleRoot = RootOf(BuildLayers(hashes))
        /\ \A h \in ToSet(hashes) :
              b.proofs[h] = GetProof(BuildLayers(hashes), FirstIndex(hashes, h))
    BY <2>1, <2>2, BatchIsOne
  <2>4. RootOf(BuildLayers(hashes)) = TreeHash(hashes)
    <3>1. 0 \in 0..(Len(hashes) - 1)
      BY <2>3
    <3>2. QED
      BY <2>3, <3>1, TreeIsReference
  <2>5. ASSUME NEW h \in ToSet(hashes)
        PROVE  b.proofs[h] = AuditPath(hashes, FirstIndex(hashes, h))
    <3>1. PICK i : i = FirstIndex(hashes, h)
      OBVIOUS
    <3>2. i \in 0..(Len(hashes) - 1)
      BY <2>3, <3>1, FirstPlace
    <3>3. GetProof(BuildLayers(hashes), i) = AuditPath(hashes, i)
      BY <2>3, <3>2, TreeIsReference
    <3>4. QED
      BY <2>3, <3>1, <3>3
  <2>6. QED
    BY <2>2, <2>3, <2>4, <2>5
<1> QED
  BY <1>1, IInvHolds, PTL

\* The proof saved for a hash leads both libraries to the root of its batch.
THEOREM SavedProofsHold == Spec => []ProofsHold
<1>1. IInv => ProofsHold
  <2> SUFFICES ASSUME IInv, NEW k \in DOMAIN batches, NEW h \in ToSet(batches[k].hashes),
                      NEW b, b = batches[k]
               PROVE  /\ VerifyProof(h, b.proofs[h], b.merkleRoot)
                      /\ PyVerifyProof(h, b.proofs[h], b.merkleRoot)
    BY DEF ProofsHold
  <2>1. b \in Batches
    BY BatchesAreBatches
  <2>2. PICK hashes : hashes = b.hashes
    OBVIOUS
  <2>3. /\ hashes \in Seq(Hashes) /\ Len(hashes) \in Nat \ {0}
        /\ b.merkleRoot = RootOf(BuildLayers(hashes)) /\ h \in ToSet(hashes)
        /\ DOMAIN b.proofs = ToSet(hashes)
        /\ b.proofs[h] = GetProof(BuildLayers(hashes), FirstIndex(hashes, h))
    BY <2>1, <2>2, BatchIsOne
  <2>4. PICK i : i = FirstIndex(hashes, h)
    OBVIOUS
  <2>5. i \in 0..(Len(hashes) - 1) /\ hashes[i + 1] = h
    BY <2>3, <2>4, FirstPlace
  <2>6. Climb(Leaf(hashes[i + 1]), GetProof(BuildLayers(hashes), i))
          = RootOf(BuildLayers(hashes))
    BY <2>3, <2>5, ProofLeadsToRoot
  <2>7. Climb(Leaf(h), b.proofs[h]) = b.merkleRoot
    BY <2>3, <2>4, <2>5, <2>6
  <2>8. KnownPositions(b.proofs[h])
    BY <2>1, <2>3, SavedIsProof, PositionsKnown
  <2>9. QED
    BY <2>7, <2>8 DEF VerifyProof, PyVerifyProof
<1> QED
  BY <1>1, IInvHolds, PTL

\* Whatever hash and record are handed over, with whatever positions in the
\* proof, verifyProof says "valid" only of a hash that is a leaf of a batch with
\* this root, and only when the transaction named carries the root; the proof, as
\* merkle.js reads it, is the path of that leaf.
THEOREM OnlyAnchoredIsValid == Spec => []ValidIsAnchored
<1>1. IInv => ValidIsAnchored
  <2> SUFFICES ASSUME IInv, check.verdict = "valid"
               PROVE  LET r == check.record
                      IN  /\ \E o \in ToSet(chain[r.txid].vout) : o = Anchor(r.merkleRoot)
                          /\ \E k \in DOMAIN batches : \E i \in DOMAIN batches[k].hashes :
                                /\ batches[k].hashes[i] = check.hash
                                /\ batches[k].merkleRoot = r.merkleRoot
                                /\ AsRead(r.proof) = AuditPath(batches[k].hashes, i - 1)
    BY DEF ValidIsAnchored
  <2>1. PICK h, r : check = Verifying("done", "valid", h, r) /\ Proved(h, r) /\ Carried(r)
    BY DEF IInv, CheckOK, Verifying
  <2>2. check.hash = h /\ check.record = r
    BY <2>1 DEF Verifying
  <2>3. PICK k \in DOMAIN batches : batches[k].merkleRoot = r.merkleRoot
    BY <2>1 DEF Proved
  <2>4. PICK hashes : hashes = batches[k].hashes
    OBVIOUS
  <2>5. /\ hashes \in Seq(Hashes) /\ Len(hashes) \in Nat \ {0}
        /\ r.merkleRoot = RootOf(BuildLayers(hashes))
    BY <2>3, <2>4, BatchIsOne, BatchesAreBatches
  <2>u. PICK U : r.proof \in Seq(AnySteps(U))
    BY <2>1 DEF Proved, IsProof
  <2>6. PICK p : p = AsRead(r.proof) /\ p \in Seq(ProofSteps(U))
                 /\ Climb(Leaf(h), p) = Climb(Leaf(h), r.proof)
    BY <2>u, ClimbsAsRead
  <2>7. Climb(Leaf(h), p) = RootOf(BuildLayers(hashes))
    BY <2>1, <2>5, <2>6 DEF Proved, VerifyProof
  <2>8. PICK i \in 0..(Len(hashes) - 1) :
            hashes[i + 1] = h /\ p = GetProof(BuildLayers(hashes), i)
    BY <2>5, <2>6, <2>7, OnlyLeavesProved
  <2>9. p = AuditPath(hashes, i)
    BY <2>5, <2>8, TreeIsReference
  <2>10. PICK j \in DOMAIN hashes : j = i + 1 /\ j - 1 = i
    <3>1. DOMAIN hashes = 1..Len(hashes)
      BY <2>5, LenProperties
    <3>2. i + 1 \in 1..Len(hashes) /\ (i + 1) - 1 = i
      BY <2>5
    <3>3. QED
      BY <3>1, <3>2
  <2>11. /\ batches[k].hashes[j] = check.hash
         /\ AsRead(r.proof) = AuditPath(batches[k].hashes, j - 1)
    BY <2>2, <2>4, <2>6, <2>8, <2>9, <2>10
  <2>12. \E o \in ToSet(chain[r.txid].vout) : o = Anchor(r.merkleRoot)
    BY <2>1 DEF Carried
  <2>13. j \in DOMAIN batches[k].hashes
    BY <2>4
  <2>14. QED
    BY <2>2, <2>3, <2>11, <2>12, <2>13
<1> QED
  BY <1>1, IInvHolds, PTL

LEMMA BytesAreNumbers == Seq(Bytes) \subseteq Seq(Nat)
<1>1. Bytes \subseteq Nat
  BY ByteAssumption
<1>2. QED
  BY <1>1, SeqMonotonic

\* The two parsers read the same pushes from every script of any length, or the
\* first throws where the second finds the script malformed.
THEOREM ParsersRead == Spec => []ParsersAgree
<1>1. IInv => ParsersAgree
  <2> SUFFICES ASSUME IInv PROVE ParsersAgree
    OBVIOUS
  <2>1. script \in Seq(Nat)
    BY BytesAreNumbers DEF IInv, TypeOK
  <2>2. Agree(JsPushes(script), PyPushes(script))
    BY <2>1, PushesAgree
  <2>3. QED
    BY <2>2 DEF Agree, ParsersAgree
<1> QED
  BY <1>1, IInvHolds, PTL

\* Data of n bytes, those of a script gone round.
LEMMA AroundIsSeq ==
    ASSUME NEW s \in Seq(Nat), s # <<>>, NEW n \in Nat \ {0},
           NEW data, data = [i \in 1..n |-> s[((i - 1) % Len(s)) + 1]]
    PROVE  data \in Seq(Nat) /\ data # <<>>
<1>1. PICK m \in Nat \ {0} : m = Len(s)
  BY EmptySeq
<1>2. ASSUME NEW i \in 1..n PROVE s[((i - 1) % m) + 1] \in Nat
  <2>1. PICK j : j = ((i - 1) % m) + 1
    OBVIOUS
  <2>2. j \in 1..m
    BY <2>1
  <2>3. s[j] \in Nat
    BY <1>1, <2>2, ElementOfSeq
  <2>4. QED
    BY <2>1, <2>3
<1>3. \A i \in 1..n : data[i] \in Nat
  BY <1>1, <1>2
<1>4. data \in [1..n -> Nat]
  BY <1>3
<1>5. data \in Seq(Nat)
  BY <1>4, SeqDef
<1>6. data # <<>>
  <2>1. DOMAIN data = 1..n /\ DOMAIN data = 1..Len(data)
    BY <1>4, <1>5, LenProperties
  <2>2. 1 \in 1..Len(data)
    BY <2>1
  <2>3. Len(data) # 0
    BY <2>2
  <2>4. QED
    BY <2>3, EmptySeq
<1>7. QED
  BY <1>5, <1>6

\* The script built for data is read back as one push of that data, with a
\* length of one byte or after PUSHDATA1.
THEOREM AnchorsReadBack == Spec => []PushReadsBack
<1>1. IInv => PushReadsBack
  <2> SUFFICES ASSUME IInv, NEW n \in {Len(script), 36, 75, 76, 80} \ {0}, script # <<>>,
                      NEW data,
                      data = [i \in 1..n |-> script[((i - 1) % Len(script)) + 1]]
               PROVE  JsPushes(BuildPush(data)) = Pushed(<<data>>)
    BY DEF PushReadsBack
  <2>1. script \in Seq(Nat)
    BY BytesAreNumbers DEF IInv, TypeOK
  <2>2. PICK m \in Nat \ {0} : m = Len(script)
    BY <2>1, EmptySeq
  <2>3. n \in Nat \ {0}
    <3>1. n = m \/ n = 36 \/ n = 75 \/ n = 76 \/ n = 80
      BY <2>2
    <3>2. QED
      BY <2>2, <3>1
  <2>4. data \in Seq(Nat) /\ data # <<>>
    BY <2>1, <2>3, AroundIsSeq
  <2>5. QED
    BY <2>4, BuiltReadsBack
<1> QED
  BY <1>1, IInvHolds, PTL

\* The verdicts on any hash and any record, whoever made it.
LEMMA VerdictIsSame ==
    ASSUME TypeOK, NEW h, NEW r
    PROVE  SameVerdict(h, r)
<1>1. CASE ~VerifyProof(h, r.proof, r.merkleRoot)
  <2>1. ~PyVerifyProof(h, r.proof, r.merkleRoot)
    BY <1>1 DEF VerifyProof, PyVerifyProof
  <2>2. JsVerdict(h, r) = PyVerdict(h, r)
    BY <1>1, <2>1 DEF JsVerdict, PyVerdict
  <2>3. QED
    BY <2>2 DEF SameVerdict
<1>2. CASE ~KnownPositions(r.proof)
  <2>1. PyVerdict(h, r) = "merkle-proof-mismatch"
    BY <1>2 DEF PyVerdict, PyVerifyProof
  <2>2. QED
    BY <1>2, <2>1 DEF SameVerdict
<1>3. CASE VerifyProof(h, r.proof, r.merkleRoot) /\ KnownPositions(r.proof)
  <2>1. /\ JsVerdict(h, r) = Verdict(r, JsRaising)
        /\ PyVerdict(h, r) = Verdict(r, PyRaising)
    BY <1>3 DEF JsVerdict, PyVerdict, VerifyProof, PyVerifyProof
  <2>2. CASE r.txid \notin DOMAIN chain \/ chain[r.txid].state = "gone"
    <3>1. JsVerdict(h, r) = PyVerdict(h, r)
      BY <2>1, <2>2, VerdictCases
    <3>2. QED
      BY <3>1 DEF SameVerdict
  <2>3. CASE r.txid \in DOMAIN chain /\ chain[r.txid].state # "gone"
    <3>1. PICK vout : vout = chain[r.txid].vout
      OBVIOUS
    <3>2. vout \in Seq(Outputs)
      <4>1. chain[r.txid] \in Transactions
        BY <2>3, ElementOfSeq, LenProperties DEF TypeOK
      <4>2. QED
        BY <3>1, <4>1 DEF Transactions
    <3>3. CASE Read(vout, JsRaising) = Read(vout, PyRaising)
      <4>1. Verdict(r, JsRaising) = Verdict(r, PyRaising)
        BY <2>3, <3>1, <3>3, VerdictCases, FindingsDiffer
      <4>2. QED
        BY <2>1, <4>1 DEF SameVerdict
    <3>4. CASE /\ Read(vout, JsRaising) = Failed
               /\ \E o \in ToSet(vout) : o.kind = "raw" /\ JsPushes(o.bytes) = Throws
      <4>1. Verdict(r, JsRaising) = "error"
        BY <2>3, <3>1, <3>4, VerdictCases, FindingsDiffer
      <4>2. QED
        BY <2>1, <3>1, <3>4, <4>1 DEF SameVerdict
    <3>5. QED
      BY <3>2, <3>3, <3>4, ReadersAgree
  <2>4. QED
    BY <2>2, <2>3
<1>4. QED
  BY <1>1, <1>2, <1>3

\* On every chain both verifiers come to the same verdict of any hash and any
\* record, whether it was put together from the parts of batches or not, unless
\* a position in it is unknown, which core.py alone refuses, or the transaction
\* has a script on which the parser of chain.js throws.
AllSame == \A h, r : SameVerdict(h, r)
THEOREM SameVerdicts == Spec => []AllSame /\ []VerdictsAgree
<1>1. TypeOK => AllSame
  BY VerdictIsSame DEF AllSame
<1>2. AllSame => VerdictsAgree
  BY DEF AllSame, VerdictsAgree
<1> QED
  BY <1>1, <1>2, TypeCorrect, PTL
=============================================================================
