--------------------------- MODULE ServiceProofs ---------------------------
(***************************************************************************)
(* The queue routes, the client library and a program on top of them: that *)
(* the limits hold, that every result is in its place, and that what a     *)
(* program was told, or was given, stays true.                             *)
(***************************************************************************)
EXTENDS Service, TLAPS, FiniteSetTheorems, SequenceTheorems, WellFoundedInduction

-----------------------------------------------------------------------------
(* Lists are handled one item after another, so what holds of all of them  *)
(* is shown along 0..n: of the numbers for which it fails none is least.   *)

Less == {pair \in Nat \X Nat : pair[1] < pair[2]}

LEMMA LessWellFounded == IsWellFoundedOn(Less, Nat)
  BY NatLessThanWellFounded, Zenon DEF OpToRel, Less

LEMMA Least ==
    ASSUME NEW T, T \subseteq Nat, T # {}
    PROVE  \E m \in T : \A n \in T : m <= n
<1>1. PICK m \in T : \A n \in T : ~(<<n, m>> \in Less)
  BY LessWellFounded, WFMin
<1>2. ASSUME NEW n \in T PROVE m <= n
  <2>1. m \in Nat /\ n \in Nat
    OBVIOUS
  <2>2. n < m => <<n, m>> \in Less
    BY <2>1 DEF Less
  <2>3. QED
    BY <1>1, <2>1, <2>2
<1>3. QED
  BY <1>2

LEMMA UpTo ==
    ASSUME NEW n \in Nat, NEW S, 0 \in S,
           \A k \in 0..n : k \in S /\ k < n => k + 1 \in S
    PROVE  0..n \subseteq S
<1>1. PICK T : T = {k \in 0..n : k \notin S}
  OBVIOUS
<1>2. ASSUME T # {} PROVE FALSE
  <2>1. \E m \in T : \A k \in T : m <= k
    BY <1>1, <1>2, Least
  <2>2. PICK m \in T : \A k \in T : m <= k
    BY <2>1
  <2>3. m \in Nat /\ m \in 1..n /\ m - 1 \in 0..n
    BY <1>1
  <2>4. m - 1 \in S
    BY <1>1, <2>2, <2>3
  <2>5. (m - 1) + 1 \in S
    BY <2>3, <2>4
  <2>6. QED
    BY <1>1, <2>3, <2>5
<1>3. QED
  BY <1>1, <1>2

\* The results of a list, request by request: the states the handler passes.
AfterAll(hs, ip, g) ==
    g = [k \in 0..Len(hs) |-> IF k = 0 THEN Now ELSE QueueHash(g[k - 1], hs[k], ip)]

LEMMA QueueAllRuns ==
    ASSUME NEW S, NEW hs \in Seq(S), NEW ip
    PROVE  \E g : AfterAll(hs, ip, g) /\ QueueAll(hs, ip) = g[Len(hs)]
<1> DEFINE R(m) == \E g : g = [k \in 0..m |-> IF k = 0 THEN Now
                                              ELSE QueueHash(g[k - 1], hs[k], ip)]
<1>n. PICK n \in Nat : n = Len(hs)
  OBVIOUS
<1>1. R(0)
  <2>1. PICK g : g = [k \in 0..0 |-> Now]
    OBVIOUS
  <2>2. g = [k \in 0..0 |-> IF k = 0 THEN Now ELSE QueueHash(g[k - 1], hs[k], ip)]
    BY <2>1
  <2>3. QED
    BY <2>2
<1>2. ASSUME NEW m \in 0..n, R(m) PROVE R(m + 1)
  <2>1. PICK g : g = [k \in 0..m |-> IF k = 0 THEN Now ELSE QueueHash(g[k - 1], hs[k], ip)]
    BY <1>2
  <2>2. PICK x : x = QueueHash(g[m], hs[m + 1], ip)
    OBVIOUS
  <2>3. PICK f : f = [k \in 0..(m + 1) |-> IF k = m + 1 THEN x ELSE g[k]]
    OBVIOUS
  <2>4. ASSUME NEW k \in 0..(m + 1)
        PROVE  f[k] = IF k = 0 THEN Now ELSE QueueHash(f[k - 1], hs[k], ip)
    <3>1. CASE k = m + 1
      <4>1. f[k] = x /\ k - 1 = m /\ f[k - 1] = g[m] /\ k # 0
        BY <2>3, <3>1
      <4>2. QED
        BY <2>2, <3>1, <4>1
    <3>2. CASE k # m + 1
      <4>1. k \in 0..m /\ f[k] = g[k] /\ (k # 0 => k - 1 \in 0..m /\ f[k - 1] = g[k - 1])
        BY <2>3, <3>2
      <4>2. g[k] = IF k = 0 THEN Now ELSE QueueHash(g[k - 1], hs[k], ip)
        BY <2>1, <4>1
      <4>3. QED
        BY <4>1, <4>2
    <3>3. QED
      BY <3>1, <3>2
  <2>5. f = [k \in 0..(m + 1) |-> IF k = 0 THEN Now ELSE QueueHash(f[k - 1], hs[k], ip)]
    BY <2>3, <2>4
  <2>6. QED
    BY <2>5
<1>3. PICK S1 : S1 = {m \in 0..n : R(m)}
  OBVIOUS
<1> HIDE DEF R
<1>4. 0 \in S1 /\ \A m \in 0..n : m \in S1 /\ m < n => m + 1 \in S1
  BY <1>1, <1>2, <1>3
<1>5. 0..n \subseteq S1
  BY <1>4, UpTo
<1>6. R(n)
  BY <1>3, <1>5
<1>7. QED
  BY <1>6, <1>n DEF R, AfterAll, QueueAll

\* The same of the items of a chunk.
Splits(chunk, g) ==
    g = [k \in 0..Len(chunk) |-> IF k = 0 THEN [valid |-> <<>>, slot |-> <<>>]
                                 ELSE Place(g[k - 1], chunk[k])]

LEMMA SplitRuns ==
    ASSUME NEW S, NEW chunk \in Seq(S)
    PROVE  \E g : Splits(chunk, g) /\ Split(chunk) = g[Len(chunk)]
<1> DEFINE R(m) == \E g : g = [k \in 0..m |-> IF k = 0 THEN [valid |-> <<>>, slot |-> <<>>]
                                              ELSE Place(g[k - 1], chunk[k])]
<1>n. PICK n \in Nat : n = Len(chunk)
  OBVIOUS
<1>a. PICK a : a = [valid |-> <<>>, slot |-> <<>>]
  OBVIOUS
<1>1. R(0)
  <2>1. PICK g : g = [k \in 0..0 |-> a]
    OBVIOUS
  <2>2. g = [k \in 0..0 |-> IF k = 0 THEN a ELSE Place(g[k - 1], chunk[k])]
    BY <2>1
  <2>3. QED
    BY <2>2, <1>a
<1>2. ASSUME NEW m \in 0..n, R(m) PROVE R(m + 1)
  <2>1. PICK g : g = [k \in 0..m |-> IF k = 0 THEN a ELSE Place(g[k - 1], chunk[k])]
    BY <1>2, <1>a
  <2>2. PICK x : x = Place(g[m], chunk[m + 1])
    OBVIOUS
  <2>3. PICK f : f = [k \in 0..(m + 1) |-> IF k = m + 1 THEN x ELSE g[k]]
    OBVIOUS
  <2>4. ASSUME NEW k \in 0..(m + 1)
        PROVE  f[k] = IF k = 0 THEN a ELSE Place(f[k - 1], chunk[k])
    <3>1. CASE k = m + 1
      <4>1. f[k] = x /\ k - 1 = m /\ f[k - 1] = g[m] /\ k # 0
        BY <2>3, <3>1
      <4>2. QED
        BY <2>2, <3>1, <4>1
    <3>2. CASE k # m + 1
      <4>1. k \in 0..m /\ f[k] = g[k] /\ (k # 0 => k - 1 \in 0..m /\ f[k - 1] = g[k - 1])
        BY <2>3, <3>2
      <4>2. g[k] = IF k = 0 THEN a ELSE Place(g[k - 1], chunk[k])
        BY <2>1, <4>1
      <4>3. QED
        BY <4>1, <4>2
    <3>3. QED
      BY <3>1, <3>2
  <2>5. f = [k \in 0..(m + 1) |-> IF k = 0 THEN a ELSE Place(f[k - 1], chunk[k])]
    BY <2>3, <2>4
  <2>6. QED
    BY <2>5, <1>a
<1>3. PICK S1 : S1 = {m \in 0..n : R(m)}
  OBVIOUS
<1> HIDE DEF R
<1>4. 0 \in S1 /\ \A m \in 0..n : m \in S1 /\ m < n => m + 1 \in S1
  BY <1>1, <1>2, <1>3
<1>5. 0..n \subseteq S1
  BY <1>4, UpTo
<1>6. R(n)
  BY <1>3, <1>5
<1>7. QED
  BY <1>6, <1>n DEF R, Splits, Split

-----------------------------------------------------------------------------
(* The slots of submitMany.                                                *)

\* The first k items of the chunk are placed.
Placed(chunk, k, s) ==
    /\ s.valid \in Seq(Hashes) /\ s.slot \in Seq(Nat) /\ Len(s.slot) = k
    /\ \A j \in 1..k : IF IsHash(chunk[j])
                       THEN s.slot[j] \in 1..Len(s.valid) /\ s.valid[s.slot[j]] = chunk[j]
                       ELSE s.slot[j] = 0

LEMMA PlaceNext ==
    ASSUME NEW S, NEW chunk \in Seq(S), NEW k \in Nat, k + 1 \in DOMAIN chunk, NEW s,
           Placed(chunk, k, s)
    PROVE  Placed(chunk, k + 1, Place(s, chunk[k + 1]))
<1>t. PICK t : t = Place(s, chunk[k + 1])
  OBVIOUS
<1>i. PICK item : item = chunk[k + 1]
  OBVIOUS
<1>v. PICK v \in Seq(Hashes) : v = s.valid
  BY DEF Placed
<1>w. PICK w \in Seq(Nat) : w = s.slot /\ Len(w) = k
  BY DEF Placed
<1>1. CASE IsHash(item)
  <2>1. t.valid = Append(v, item) /\ t.slot = Append(w, Len(v) + 1)
    BY <1>t, <1>i, <1>v, <1>w, <1>1 DEF Place
  <2>2. t.valid \in Seq(Hashes) /\ t.slot \in Seq(Nat) /\ Len(t.slot) = k + 1
    BY <1>1, <1>v, <1>w, <2>1 DEF IsHash
  <2>3. ASSUME NEW j \in 1..(k + 1)
        PROVE  IF IsHash(chunk[j])
               THEN t.slot[j] \in 1..Len(t.valid) /\ t.valid[t.slot[j]] = chunk[j]
               ELSE t.slot[j] = 0
    <3>1. CASE j = k + 1
      <4>1. t.slot[j] = Len(v) + 1 /\ Len(t.valid) = Len(v) + 1
        BY <1>v, <1>w, <2>1, <3>1
      <4>2. t.valid[Len(v) + 1] = item
        BY <1>v, <2>1
      <4>3. QED
        BY <1>1, <1>i, <1>v, <3>1, <4>1, <4>2
    <3>2. CASE j # k + 1
      <4>1. j \in 1..k /\ t.slot[j] = w[j]
        BY <1>w, <2>1, <3>2
      <4>2. \A i \in 1..Len(v) : t.valid[i] = v[i] /\ i \in 1..Len(t.valid)
        BY <1>v, <2>1
      <4>3. IF IsHash(chunk[j]) THEN w[j] \in 1..Len(v) /\ v[w[j]] = chunk[j] ELSE w[j] = 0
        BY <1>v, <1>w, <4>1 DEF Placed
      <4>4. QED
        BY <4>1, <4>2, <4>3
    <3>3. QED
      BY <3>1, <3>2
  <2>4. QED
    BY <1>t, <2>2, <2>3 DEF Placed
<1>2. CASE ~IsHash(item)
  <2>1. t.valid = v /\ t.slot = Append(w, 0)
    BY <1>t, <1>i, <1>v, <1>w, <1>2 DEF Place
  <2>2. t.valid \in Seq(Hashes) /\ t.slot \in Seq(Nat) /\ Len(t.slot) = k + 1
    BY <1>v, <1>w, <2>1
  <2>3. ASSUME NEW j \in 1..(k + 1)
        PROVE  IF IsHash(chunk[j])
               THEN t.slot[j] \in 1..Len(t.valid) /\ t.valid[t.slot[j]] = chunk[j]
               ELSE t.slot[j] = 0
    <3>1. CASE j = k + 1
      BY <1>2, <1>i, <1>w, <2>1, <3>1
    <3>2. CASE j # k + 1
      <4>1. j \in 1..k /\ t.slot[j] = w[j]
        BY <1>w, <2>1, <3>2
      <4>2. QED
        BY <1>v, <1>w, <2>1, <4>1 DEF Placed
    <3>3. QED
      BY <3>1, <3>2
  <2>4. QED
    BY <1>t, <2>2, <2>3 DEF Placed
<1>3. QED
  BY <1>1, <1>2

\* Every hash of a chunk is found in its slot, and no other item has one.
LEMMA SplitSays ==
    ASSUME NEW S, NEW chunk \in Seq(S)
    PROVE  Placed(chunk, Len(chunk), Split(chunk))
<1>1. PICK g : Splits(chunk, g) /\ Split(chunk) = g[Len(chunk)]
  BY SplitRuns
<1>2. PICK P : P = {k \in 0..Len(chunk) : Placed(chunk, k, g[k])}
  OBVIOUS
<1>3. 0 \in P
  <2>1. g[0] = [valid |-> <<>>, slot |-> <<>>]
    BY <1>1 DEF Splits
  <2>2. Placed(chunk, 0, g[0])
    BY <2>1 DEF Placed
  <2>3. QED
    BY <1>2, <2>2
<1>4. ASSUME NEW k \in 0..Len(chunk), k \in P, k < Len(chunk) PROVE k + 1 \in P
  <2>1. k + 1 \in DOMAIN chunk /\ k + 1 \in 0..Len(chunk)
    BY <1>4
  <2>2. g[k + 1] = Place(g[k], chunk[k + 1])
    BY <1>1, <1>4, <2>1 DEF Splits
  <2>3. Placed(chunk, k + 1, g[k + 1])
    BY <1>2, <1>4, <2>1, <2>2, PlaceNext
  <2>4. QED
    BY <1>2, <2>1, <2>3
<1>5. Len(chunk) \in P
  <2>1. PICK n \in Nat : n = Len(chunk)
    OBVIOUS
  <2>2. \A k \in 0..n : k \in P /\ k < n => k + 1 \in P
    BY <1>4, <2>1
  <2>3. 0..n \subseteq P
    BY <1>3, <2>2, UpTo
  <2>4. QED
    BY <2>1, <2>3
<1>6. QED
  BY <1>1, <1>2, <1>5

-----------------------------------------------------------------------------
(* The batches.                                                            *)

\* A hash waits or has the transaction whose leaf it is, and no transaction
\* that is signed or sent loses a leaf.
BatchesOK ==
    /\ queue \subseteq Hashes /\ IsFiniteSet(queue)
    /\ txOf \in [Hashes -> Txs \cup {NoTx}]
    /\ \A h \in queue : txOf[h] = NoTx
    /\ mined \subseteq sent /\ sent \subseteq Txs
    /\ \A h \in Hashes : txOf[h] # NoTx => h \in txOf[h].leaves
    /\ \A t \in SignedTxs \cup sent : \A h \in t.leaves : txOf[h] = t
    /\ \A t \in SignedTxs : IsFiniteSet(t.leaves)

\* The limits, and the hashes that came in under them.
LimitsOK ==
    /\ hits \in [Ips -> 0..(Rate + 1)] /\ tracked \subseteq Ips
    /\ taken \in [Ips -> Nat]
    /\ \A ip \in Ips : taken[ip] <= hits[ip] /\ taken[ip] <= Rate

-----------------------------------------------------------------------------
(* The requests of a list.                                                 *)

\* What a handler may hold.
Holding == [queue : SUBSET Hashes, hits : [Ips -> 0..(Rate + 1)], tracked : SUBSET Ips,
            taken : [Ips -> Nat], results : Seq(Results)]
Limited(s) == \A ip \in Ips : s.taken[ip] <= s.hits[ip] /\ s.taken[ip] <= Rate

\* A result is the answer to its item, and one that accepts it is true of the
\* hashes that are held.
ResultOK(result, item, held) ==
    /\ result \in Results /\ result.item = item
    /\ Accepted(result) => item \in held

\* What is held once the queue is q.
HeldWith(q) == q \cup {h \in Hashes : txOf[h] # NoTx}

\* The handler is past the first k hashes.
Handled(hs, k, s) ==
    /\ s \in Holding /\ Limited(s)
    /\ queue \subseteq s.queue /\ IsFiniteSet(s.queue)
    /\ \A h \in s.queue : txOf[h] = NoTx
    /\ s.queue = queue \/ Cardinality(s.queue) <= MaxPending
    /\ Len(s.results) = k
    /\ \A j \in 1..k : ResultOK(s.results[j], hs[j], HeldWith(s.queue))

LEMMA HitKeeps ==
    ASSUME NEW s \in Holding, Limited(s), NEW ip \in Ips, NEW t, t = Hit(s, ip)
    PROVE  /\ t \in Holding /\ Limited(t)
           /\ t.queue = s.queue /\ t.results = s.results
           /\ t.hits[ip] # 0 /\ ~Over(t.hits[ip]) => t.taken[ip] < t.hits[ip]
<1> USE LimitAssumption
<1>h. PICK f \in [Ips -> 0..(Rate + 1)] : f = s.hits
  BY DEF Holding
<1>k. PICK g \in [Ips -> Nat] : g = s.taken
  BY DEF Holding
<1>l. \A i \in Ips : g[i] <= f[i] /\ g[i] <= Rate
  BY <1>h, <1>k DEF Limited
<1>s. /\ s = [queue |-> s.queue, hits |-> f, tracked |-> s.tracked,
              taken |-> g, results |-> s.results]
      /\ s.queue \in SUBSET Hashes /\ s.tracked \in SUBSET Ips /\ s.results \in Seq(Results)
  BY <1>h, <1>k DEF Holding
<1>1. CASE f[ip] # 0
  <2>1. PICK n \in 0..(Rate + 1) : n = IF Over(f[ip]) THEN f[ip] ELSE f[ip] + 1
    BY <1>h DEF Over
  <2>2. t = [queue |-> s.queue, hits |-> [f EXCEPT ![ip] = n], tracked |-> s.tracked,
             taken |-> g, results |-> s.results]
    <3>1. t = [s EXCEPT !.hits[ip] = IF Over(@) THEN @ ELSE @ + 1]
      BY <1>1, <1>h DEF Hit
    <3>2. t = [s EXCEPT !.hits = [f EXCEPT ![ip] = n]]
      BY <1>h, <2>1, <3>1, Zenon
    <3>3. QED
      BY <1>k, <3>2 DEF Holding
  <2>3. /\ t.hits = [f EXCEPT ![ip] = n] /\ t.taken = g
        /\ t.queue = s.queue /\ t.results = s.results
    BY <2>2
  <2>4. t \in Holding
    BY <1>s, <2>1, <2>2 DEF Holding
  <2>5. n >= f[ip] /\ (n <= Rate => n = f[ip] + 1)
    BY <1>h, <2>1 DEF Over
  <2>6. Limited(t)
    BY <1>h, <1>k, <1>l, <2>3, <2>5 DEF Limited
  <2>7. ~Over(n) => g[ip] < n
    BY <1>h, <1>k, <1>l, <2>1, <2>5 DEF Over
  <2>8. QED
    BY <1>h, <2>3, <2>4, <2>6, <2>7
<1>2. CASE f[ip] = 0
  <2>1. g[ip] = 0
    BY <1>2, <1>k, <1>l
  <2>2. CASE Cardinality(s.tracked \cup {ip}) > MaxTracked
    <3>1. t = [queue |-> s.queue, hits |-> [i \in Ips |-> 0], tracked |-> {},
               taken |-> [i \in Ips |-> 0], results |-> s.results]
      BY <1>2, <1>h, <1>s, <2>2 DEF Hit
    <3>2. /\ t.hits = [i \in Ips |-> 0] /\ t.taken = [i \in Ips |-> 0]
          /\ t.queue = s.queue /\ t.results = s.results
      BY <3>1
    <3>3. t \in Holding
      BY <1>s, <3>1 DEF Holding
    <3>4. QED
      BY <3>2, <3>3 DEF Limited
  <2>3. CASE ~(Cardinality(s.tracked \cup {ip}) > MaxTracked)
    <3>1. t = [queue |-> s.queue, hits |-> [f EXCEPT ![ip] = 1],
               tracked |-> s.tracked \cup {ip}, taken |-> g, results |-> s.results]
      <4>1. t = [s EXCEPT !.hits[ip] = 1, !.tracked = @ \cup {ip}]
        BY <1>2, <1>h, <2>3 DEF Hit
      <4>2. QED
        BY <1>h, <1>k, <4>1 DEF Holding
    <3>2. /\ t.hits = [f EXCEPT ![ip] = 1] /\ t.taken = g
          /\ t.queue = s.queue /\ t.results = s.results
      BY <3>1
    <3>3. t \in Holding
      BY <1>s, <3>1 DEF Holding
    <3>4. Limited(t)
      BY <1>h, <1>k, <1>l, <2>1, <3>2 DEF Limited
    <3>5. QED
      BY <1>h, <2>1, <3>2, <3>3, <3>4
  <2>4. QED
    BY <2>2, <2>3
<1>3. QED
  BY <1>1, <1>2, <1>h

\* Every branch of queueHash appends the answer of its hash.
LEMMA QueueHashKeeps ==
    ASSUME BatchesOK, NEW hs \in Seq(Hashes), NEW ip \in Ips, NEW k \in Nat,
           k + 1 \in DOMAIN hs, NEW s, Handled(hs, k, s)
    PROVE  Handled(hs, k + 1, QueueHash(s, hs[k + 1], ip))
<1> USE LimitAssumption
<1>h. PICK h \in Hashes : h = hs[k + 1]
  OBVIOUS
<1>t. PICK t : t = Hit(s, ip)
  OBVIOUS
<1>u. PICK u : u = QueueHash(s, h, ip)
  OBVIOUS
<1>1. s \in Holding /\ Limited(s)
  BY DEF Handled
<1>2. /\ t \in Holding /\ Limited(t) /\ t.queue = s.queue /\ t.results = s.results
      /\ t.hits[ip] # 0 /\ ~Over(t.hits[ip]) => t.taken[ip] < t.hits[ip]
  BY <1>t, <1>1, HitKeeps
<1>r. PICK r \in Seq(Results) : r = s.results /\ Len(r) = k
  BY <1>1 DEF Holding, Handled
<1>3. \* What stays true of the results before it, and what the new one needs.
      ASSUME NEW out \in {"known", "limited", "full", "queued"}, NEW v \in Holding, Limited(v),
             v.results = Append(r, Result(h, out)), s.queue \subseteq v.queue,
             IsFiniteSet(v.queue), \A x \in v.queue : txOf[x] = NoTx,
             v.queue = queue \/ Cardinality(v.queue) <= MaxPending,
             out \in {"known", "queued"} => h \in v.queue \/ txOf[h] # NoTx
      PROVE  Handled(hs, k + 1, v)
  <2>1. PICK n : n = Result(h, out)
    OBVIOUS
  <2>2. n \in Results /\ n.item = h /\ n.out = out
    BY <2>1 DEF Results, Result
  <2>3. ResultOK(n, h, HeldWith(v.queue))
    BY <1>3, <2>2 DEF ResultOK, Accepted, HeldWith
  <2>4. ASSUME NEW j \in 1..(k + 1) PROVE ResultOK(v.results[j], hs[j], HeldWith(v.queue))
    <3>1. CASE j = k + 1
      BY <1>h, <1>r, <1>3, <2>1, <2>3, <3>1
    <3>2. CASE j # k + 1
      <4>1. j \in 1..k /\ v.results[j] = r[j]
        BY <1>r, <1>3, <2>1, <2>2, <3>2
      <4>2. ResultOK(r[j], hs[j], HeldWith(s.queue))
        BY <1>r, <4>1 DEF Handled
      <4>3. QED
        BY <1>3, <4>1, <4>2 DEF ResultOK, HeldWith
    <3>3. QED
      BY <3>1, <3>2
  <2>5. queue \subseteq v.queue
    BY <1>3 DEF Handled
  <2>6. Len(v.results) = k + 1
    BY <1>r, <1>3, <2>1, <2>2
  <2>7. QED
    BY <1>3, <2>4, <2>5, <2>6 DEF Handled
<1>4. CASE h \in s.queue \/ txOf[h] # NoTx
  <2>1. u = [s EXCEPT !.results = Append(@, Result(h, "known"))]
    BY <1>u, <1>4 DEF QueueHash
  <2>2. PICK n \in Results : n = Result(h, "known")
    BY DEF Results, Result
  <2>3. u = [queue |-> s.queue, hits |-> s.hits, tracked |-> s.tracked,
             taken |-> s.taken, results |-> Append(r, n)]
    BY <1>1, <1>r, <2>1, <2>2 DEF Holding
  <2>4. u \in Holding
    BY <1>1, <1>r, <2>3 DEF Holding
  <2>5. Limited(u)
    BY <1>1, <2>3 DEF Limited
  <2>6. u.queue = s.queue /\ u.results = Append(r, Result(h, "known"))
    BY <2>2, <2>3
  <2>7. QED
    BY <1>3, <1>4, <1>h, <1>u, <2>4, <2>5, <2>6 DEF Handled
<1>5. CASE ~(h \in s.queue \/ txOf[h] # NoTx) /\ (Over(t.hits[ip]) \/ Full(t))
  <2>1. PICK out \in {"limited", "full"} : u = [t EXCEPT !.results = Append(@, Result(h, out))]
    BY <1>t, <1>u, <1>5 DEF QueueHash
  <2>2. PICK n \in Results : n = Result(h, out)
    BY DEF Results, Result
  <2>3. u = [queue |-> s.queue, hits |-> t.hits, tracked |-> t.tracked,
             taken |-> t.taken, results |-> Append(r, n)]
    BY <1>2, <1>r, <2>1, <2>2 DEF Holding
  <2>4. u \in Holding
    BY <1>1, <1>2, <1>r, <2>3 DEF Holding
  <2>5. Limited(u)
    BY <1>2, <2>3 DEF Limited
  <2>6. u.queue = s.queue /\ u.results = Append(r, Result(h, out))
    BY <2>2, <2>3
  <2>7. QED
    BY <1>3, <1>5, <1>h, <1>u, <2>4, <2>5, <2>6 DEF Handled
<1>6. CASE ~(h \in s.queue \/ txOf[h] # NoTx) /\ ~Over(t.hits[ip]) /\ ~Full(t)
  <2>1. u = [t EXCEPT !.queue = @ \cup {h},
                      !.taken[ip] = IF t.hits[ip] = 0 THEN 0 ELSE @ + 1,
                      !.results = Append(@, Result(h, "queued"))]
    BY <1>t, <1>u, <1>6 DEF QueueHash
  <2>2. PICK n \in Results : n = Result(h, "queued")
    BY DEF Results, Result
  <2>f. PICK f \in [Ips -> 0..(Rate + 1)] : f = t.hits
    BY <1>2 DEF Holding
  <2>g. PICK g \in [Ips -> Nat] : g = t.taken
    BY <1>2 DEF Holding
  <2>m. PICK m \in Nat : m = IF f[ip] = 0 THEN 0 ELSE g[ip] + 1
    BY <2>f, <2>g
  <2>3. u = [queue |-> s.queue \cup {h}, hits |-> f, tracked |-> t.tracked,
             taken |-> [g EXCEPT ![ip] = m], results |-> Append(r, n)]
    BY <1>2, <1>r, <2>1, <2>2, <2>f, <2>g, <2>m DEF Holding
  <2>4. u \in Holding
    BY <1>1, <1>2, <1>r, <2>2, <2>3, <2>f, <2>g, <2>m DEF Holding
  <2>5. Limited(u)
    <3>1. u.hits = f /\ u.taken = [g EXCEPT ![ip] = m]
      BY <2>3
    <3>2. \A i \in Ips : g[i] <= f[i] /\ g[i] <= Rate
      BY <1>2, <2>f, <2>g DEF Limited
    <3>3. m <= f[ip] /\ m <= Rate
      BY <1>2, <1>6, <2>f, <2>g, <2>m DEF Over
    <3>4. QED
      BY <2>f, <2>g, <2>m, <3>1, <3>2, <3>3 DEF Limited
  <2>6. u.queue = s.queue \cup {h} /\ u.results = Append(r, Result(h, "queued"))
    BY <2>2, <2>3
  <2>7. IsFiniteSet(u.queue) /\ Cardinality(u.queue) <= MaxPending
    <3>1. IsFiniteSet(s.queue)
      BY DEF Handled
    <3>2. Cardinality(s.queue) \in Nat /\ Cardinality(s.queue) < MaxPending
      BY <1>2, <1>6, <3>1, FS_CardinalityType DEF Full
    <3>3. /\ IsFiniteSet(s.queue \cup {h})
          /\ Cardinality(s.queue \cup {h}) = Cardinality(s.queue) + 1
      BY <1>6, <3>1, FS_AddElement
    <3>4. QED
      BY <2>6, <3>2, <3>3
  <2>8. \A x \in u.queue : txOf[x] = NoTx
    BY <1>6, <2>6 DEF Handled
  <2>9. QED
    BY <1>3, <1>h, <1>u, <2>4, <2>5, <2>6, <2>7, <2>8
<1>7. QED
  BY <1>4, <1>5, <1>6

\* So every hash of a request is answered, and what the request leaves keeps
\* the limits.
LEMMA QueueAllSays ==
    ASSUME BatchesOK, LimitsOK, NEW hs \in Seq(Hashes), NEW ip \in Ips
    PROVE  Handled(hs, Len(hs), QueueAll(hs, ip))
<1>1. PICK g : AfterAll(hs, ip, g) /\ QueueAll(hs, ip) = g[Len(hs)]
  BY QueueAllRuns
<1>2. PICK P : P = {k \in 0..Len(hs) : Handled(hs, k, g[k])}
  OBVIOUS
<1>3. 0 \in P
  <2>1. g[0] = Now
    BY <1>1 DEF AfterAll
  <2>2. Now \in Holding
    BY DEF BatchesOK, LimitsOK, Now, Holding
  <2>3. Limited(Now)
    BY DEF LimitsOK, Now, Limited
  <2>4. Handled(hs, 0, Now)
    BY <2>2, <2>3 DEF BatchesOK, Handled, Now
  <2>5. QED
    BY <1>2, <2>1, <2>4
<1>4. ASSUME NEW k \in 0..Len(hs), k \in P, k < Len(hs) PROVE k + 1 \in P
  <2>1. k + 1 \in DOMAIN hs /\ k + 1 \in 0..Len(hs)
    BY <1>4
  <2>2. g[k + 1] = QueueHash(g[k], hs[k + 1], ip)
    BY <1>1, <1>4, <2>1 DEF AfterAll
  <2>3. Handled(hs, k + 1, g[k + 1])
    BY <1>2, <1>4, <2>1, <2>2, QueueHashKeeps
  <2>4. QED
    BY <1>2, <2>1, <2>3
<1>5. Len(hs) \in P
  <2>1. PICK n \in Nat : n = Len(hs)
    OBVIOUS
  <2>2. \A k \in 0..n : k \in P /\ k < n => k + 1 \in P
    BY <1>4, <2>1
  <2>3. 0..n \subseteq P
    BY <1>3, <2>2, UpTo
  <2>4. QED
    BY <2>1, <2>3
<1>6. QED
  BY <1>1, <1>2, <1>5

-----------------------------------------------------------------------------
(* The client and the program.                                             *)

Answers == [status : {"none", "ok", "noroute", "error", "unknown", "pending", "anchored"},
            results : Seq(Results), tx : Txs \cup {NoTx, None},
            block : {"none", "stored", "claimed"}]
Calls == [kind : {"none", "hash", "hashes", "proof"}, items : Seq(Hashes), answer : Answers]
Progs == [pc : {"idle", "hear", "chunk", "many", "single", "one", "returned", "sleep", "verify"},
          op : {"none", "submit", "many", "wait", "save"},
          list : Seq(Hashes \cup {Bad}), at : Nat \ {0},
          got : Seq(Results), results : Seq(Results),
          confirmed : BOOLEAN, tx : Txs \cup {NoTx, None}, expired : BOOLEAN]

\* The results are those of the first items, in their order, and true.
Answering(results, items, held) ==
    /\ Len(results) <= Len(items)
    /\ \A k \in 1..Len(results) : ResultOK(results[k], items[k], held)

\* The request a program waits for is the one its next step reads, and an
\* answer has a result for every hash of it.
CallOK ==
    /\ call \in Calls
    /\ call.kind = "none" => prog.pc \notin {"hear", "many", "one"}
    /\ call.kind = "hashes" => prog.pc = "many" /\ call.items = Valid
    /\ call.kind = "hash" =>
          \/ prog.pc = "hear" /\ prog.op = "submit"
          \/ /\ prog.pc = "one" /\ Len(prog.got) < Len(Valid)
             /\ call.items = <<Valid[Len(prog.got) + 1]>>
    /\ call.kind = "proof" =>
          prog.pc = "hear" /\ prog.op \in {"wait", "save"} /\ call.items = prog.list
    /\ call.kind \in {"hash", "proof"} => Len(call.items) = 1
    /\ Answering(call.answer.results, call.items, Held)
    /\ call.answer.status = "ok" =>
          Len(call.answer.results) = Len(call.items) /\ call.kind \in {"hash", "hashes"}
    /\ call.answer.status = "noroute" => call.kind = "hashes"
    /\ call.answer.status \in {"unknown", "pending", "anchored"} => call.kind = "proof"

\* The results so far are those of the chunks before this one.
ProgOK ==
    /\ prog \in Progs
    /\ prog.pc \in {"hear", "sleep", "verify"} => prog.list \in Seq(Hashes) /\ Len(prog.list) = 1
    /\ prog.pc \in {"sleep", "verify"} => prog.op \in {"wait", "save"}
    /\ Answering(prog.results, prog.list, Held)
    /\ Answering(prog.got, Valid, Held)
    /\ prog.pc \in {"chunk", "many"} => prog.got = <<>>
    /\ prog.pc \in {"chunk", "many", "single", "one"} =>
          Len(prog.results) = prog.at - 1 /\ prog.at - 1 <= Len(prog.list)
    /\ prog.pc = "returned" => Len(prog.results) = Len(prog.list)

LateOK == \A c \in late : c \in Calls /\ c.kind \in {"hash", "hashes"}

\* The block of a proof holds its transaction, and that one its hash: where the
\* client has the block from the chain, and where this server has stored it.
FileOK == file.block \in {"chain", "stored"} =>
              file.tx \in mined /\ file.hash \in file.tx.leaves
AnswerOK == call.answer.block = "stored" =>
                call.answer.tx \in mined /\ call.items[1] \in call.answer.tx.leaves

ClientOK == CallOK /\ ProgOK /\ LateOK /\ told \subseteq Held
ServiceInv == BatchesOK /\ LimitsOK /\ FileOK /\ AnswerOK /\ ClientOK

-----------------------------------------------------------------------------
(* What a step of the server or of the notary keeps.                       *)

LEMMA BecomesKeeps ==
    ASSUME BatchesOK, LimitsOK, NEW hs \in Seq(Hashes), NEW ip \in Ips,
           Becomes(QueueAll(hs, ip))
    PROVE  /\ BatchesOK' /\ LimitsOK' /\ Held \subseteq Held'
           /\ queue' = queue \/ Cardinality(queue') <= MaxPending
<1>s. PICK s : s = QueueAll(hs, ip)
  OBVIOUS
<1>1. Handled(hs, Len(hs), s)
  BY <1>s, QueueAllSays
<1>2. /\ queue' = s.queue /\ hits' = s.hits /\ tracked' = s.tracked /\ taken' = s.taken
      /\ txOf' = txOf /\ sent' = sent /\ mined' = mined
  BY <1>s DEF Becomes
<1>3. /\ s.queue \subseteq Hashes /\ IsFiniteSet(s.queue) /\ \A h \in s.queue : txOf[h] = NoTx
      /\ queue \subseteq s.queue
  BY <1>1 DEF Handled, Holding
<1>4. SignedTxs' = SignedTxs
  BY <1>2 DEF SignedTxs
<1>5. BatchesOK'
  BY <1>2, <1>3, <1>4 DEF BatchesOK
<1>6. LimitsOK'
  BY <1>1, <1>2 DEF Handled, Holding, Limited, LimitsOK
<1>7. Held \subseteq Held'
  BY <1>2, <1>3 DEF Held
<1>8. QED
  BY <1>1, <1>2, <1>5, <1>6, <1>7 DEF Handled

LEMMA TakeKeeps ==
    ASSUME BatchesOK, NEW h \in Hashes, Take(h), UNCHANGED mined
    PROVE  BatchesOK' /\ Held \subseteq Held'
<1>1. queue' = queue \cup {h} /\ txOf' = txOf /\ sent' = sent /\ mined' = mined
  BY DEF Take
<1>2. txOf[h] = NoTx /\ SignedTxs' = SignedTxs
  BY <1>1 DEF Take, Held, SignedTxs
<1>3. IsFiniteSet(queue')
  BY <1>1, FS_AddElement DEF BatchesOK
<1>4. QED
  BY <1>1, <1>2, <1>3 DEF BatchesOK, Held

LEMMA SignKeeps ==
    ASSUME BatchesOK, NEW t \in Txs, Sign(t.leaves, t), UNCHANGED mined
    PROVE  BatchesOK' /\ Held \subseteq Held'
<1> USE NameAssumption
<1>1. /\ t.leaves \subseteq queue /\ t \notin sent /\ SignedTxs = {}
      /\ queue' = queue \ t.leaves /\ sent' = sent /\ mined' = mined
      /\ txOf' = [h \in Hashes |-> IF h \in t.leaves THEN t ELSE txOf[h]]
  BY DEF Sign
<1>2. \A h \in Hashes : txOf'[h] = IF h \in t.leaves THEN t ELSE txOf[h]
  BY <1>1
<1>3. SignedTxs' \subseteq {t}
  BY <1>1, <1>2 DEF SignedTxs
<1>4. IsFiniteSet(queue') /\ IsFiniteSet(t.leaves)
  BY <1>1, FS_Subset DEF BatchesOK
<1>5. txOf' \in [Hashes -> Txs \cup {NoTx}]
  BY <1>1 DEF BatchesOK
<1>6. ASSUME NEW u \in SignedTxs' \cup sent, NEW h \in u.leaves PROVE txOf'[h] = u
  <2>1. CASE u = t
    BY <1>1, <1>2, <1>6, <2>1 DEF BatchesOK
  <2>2. CASE u # t
    <3>1. u \in sent /\ u \in Txs /\ h \in Hashes
      BY <1>3, <1>6, <2>2 DEF BatchesOK, Txs
    <3>2. txOf[h] = u /\ u # NoTx
      BY <1>6, <3>1 DEF BatchesOK
    <3>3. h \notin t.leaves
      BY <1>1, <3>2 DEF BatchesOK
    <3>4. QED
      BY <1>2, <3>1, <3>2, <3>3
  <2>3. QED
    BY <2>1, <2>2
<1>7. queue' \subseteq Hashes /\ \A h \in queue' : txOf'[h] = NoTx
  BY <1>1, <1>2 DEF BatchesOK
<1>8. \A h \in Hashes : txOf'[h] # NoTx => h \in txOf'[h].leaves
  BY <1>2 DEF BatchesOK
<1>9. BatchesOK'
  BY <1>1, <1>3, <1>4, <1>5, <1>6, <1>7, <1>8 DEF BatchesOK
<1>10. Held \subseteq Held'
  BY <1>1, <1>2 DEF Held, BatchesOK
<1>11. QED
  BY <1>9, <1>10

LEMMA SendKeeps ==
    ASSUME BatchesOK, NEW t \in SignedTxs, Send(t), UNCHANGED mined
    PROVE  BatchesOK' /\ Held \subseteq Held'
<1>1. queue' = queue /\ txOf' = txOf /\ sent' = sent \cup {t} /\ mined' = mined
  BY DEF Send
<1>2. t \in Txs /\ SignedTxs' \subseteq SignedTxs
  BY <1>1 DEF BatchesOK, SignedTxs
<1>3. QED
  BY <1>1, <1>2 DEF BatchesOK, Held

LEMMA GiveUpKeeps ==
    ASSUME BatchesOK, NEW t \in SignedTxs, GiveUp(t), UNCHANGED mined
    PROVE  BatchesOK' /\ Held \subseteq Held'
<1>1. /\ queue' = queue \cup LeavesOf(t) /\ sent' = sent /\ mined' = mined
      /\ txOf' = [h \in Hashes |-> IF txOf[h] = t THEN NoTx ELSE txOf[h]]
  BY DEF GiveUp
<1>2. \A h \in Hashes : txOf'[h] = IF txOf[h] = t THEN NoTx ELSE txOf[h]
  BY <1>1
<1>3. t # NoTx /\ t \notin sent
  BY DEF SignedTxs
<1>4. SignedTxs' \subseteq SignedTxs \ {t}
  BY <1>1, <1>2, <1>3 DEF SignedTxs
<1>5. LeavesOf(t) \subseteq t.leaves /\ LeavesOf(t) \subseteq Hashes
  BY <1>3 DEF LeavesOf, BatchesOK
<1>6. IsFiniteSet(queue')
  BY <1>1, <1>5, FS_Subset, FS_Union DEF BatchesOK
<1>7. \A u \in SignedTxs' \cup sent : \A h \in u.leaves : u \in SignedTxs \cup sent /\ u # t
  BY <1>3, <1>4
<1>8. ASSUME NEW u \in SignedTxs' \cup sent, NEW h \in u.leaves PROVE txOf'[h] = u
  <2>1. txOf[h] = u /\ u # t
    BY <1>7, <1>8 DEF BatchesOK
  <2>2. u \in Txs
    BY <1>7, <1>8 DEF BatchesOK, SignedTxs
  <2>3. h \in Hashes
    BY <1>8, <2>2 DEF Txs
  <2>4. QED
    BY <1>2, <2>1, <2>3
<1>9. txOf' \in [Hashes -> Txs \cup {NoTx}] /\ queue' \subseteq Hashes
  BY <1>1, <1>5 DEF BatchesOK
<1>10. \A h \in queue' : txOf'[h] = NoTx
  BY <1>1, <1>2, <1>5 DEF BatchesOK, LeavesOf
<1>11. \A h \in Hashes : txOf'[h] # NoTx => h \in txOf'[h].leaves
  BY <1>2 DEF BatchesOK
<1>12. \A u \in SignedTxs' : IsFiniteSet(u.leaves)
  BY <1>4 DEF BatchesOK
<1>13. BatchesOK'
  BY <1>1, <1>6, <1>8, <1>9, <1>10, <1>11, <1>12 DEF BatchesOK
<1>14. Held \subseteq Held'
  BY <1>1, <1>2 DEF Held, BatchesOK, LeavesOf
<1>15. QED
  BY <1>13, <1>14

\* A step that leaves the notary, or the limits, alone.
LEMMA BatchesStay ==
    ASSUME BatchesOK, UNCHANGED <<notaryVars, mined>>
    PROVE  BatchesOK' /\ Held' = Held
BY DEF BatchesOK, notaryVars, SignedTxs, Held

LEMMA LimitsStay ==
    ASSUME LimitsOK, UNCHANGED limitVars
    PROVE  LimitsOK'
BY DEF LimitsOK, limitVars

\* The steps of the system, by what they do to the server.
LEMMA Shapes ==
    ASSUME ServiceInv, Next
    PROVE  \/ UNCHANGED <<notaryVars, mined, limitVars>>
           \/ \E hs \in Seq(Hashes), ip \in Ips : Becomes(QueueAll(hs, ip))
           \/ \E h \in Hashes : Take(h) /\ UNCHANGED <<mined, limitVars>>
           \/ \E ip \in Ips : WindowEnds(ip)
           \/ NotarySettles
           \/ BlockFound
<1> USE ProgramAssumption
<1>1. call.items \in Seq(Hashes)
  BY DEF ServiceInv, ClientOK, CallOK, Calls
<1>2. CASE Begins
  BY <1>2 DEF Begins, StartSubmit, StartWait, StartSave, StartMany, Starts
<1>3. CASE ServerQueues
  BY <1>1, <1>3 DEF ServerQueues
<1>4. CASE ServerFails
  <2>1. ASSUME NEW k \in 0..Len(call.items) PROVE SubSeq(call.items, 1, k) \in Seq(Hashes)
    BY <1>1, <2>1
  <2>2. QED
    BY <1>4, <2>1 DEF ServerFails
<1>5. CASE ServerHasNoRoute \/ ServerReads \/ OtherServerReads
  BY <1>5 DEF ServerHasNoRoute, ServerReads, OtherServerReads
<1>6. CASE SubmitStep
  BY <1>6 DEF SubmitStep, SubmitHears, ManyAsks, ManySkips, ManyHears, SingleAsks, SingleHears,
              SingleEnds, ManyReturns, Local
<1>7. CASE ProofStep
  BY <1>7 DEF ProofStep, WaitHears, SaveHears, WaitVerifies, SaveVerifies, VerifyFails, Wakes, Local
<1>8. CASE TimePasses \/ TimesOut
  BY <1>8 DEF TimePasses, TimesOut, Local
<1>9. ASSUME NEW c \in late, LateHandled(c) PROVE \E hs \in Seq(Hashes) : Becomes(QueueAll(hs, Us))
  <2>1. c.items \in Seq(Hashes)
    BY <1>9 DEF ServiceInv, ClientOK, LateOK, Calls
  <2>2. QED
    BY <1>9, <2>1 DEF LateHandled
<1>10. CASE WorldStep
  <2>1. ASSUME NEW h \in Hashes, NEW ip \in Ips, OthersSubmit(h, ip)
        PROVE  \E hs \in Seq(Hashes) : Becomes(QueueAll(hs, ip))
    <3>1. <<h>> \in Seq(Hashes)
      OBVIOUS
    <3>2. QED
      BY <2>1, <3>1 DEF OthersSubmit
  <2>2. ASSUME NEW h \in Hashes, AdminAdds(h) PROVE Take(h) /\ UNCHANGED <<mined, limitVars>>
    BY <2>2 DEF AdminAdds
  <2>3. QED
    BY <1>10, <2>1, <2>2 DEF WorldStep
<1>11. QED
  BY <1>2, <1>3, <1>4, <1>5, <1>6, <1>7, <1>8, <1>9, <1>10 DEF Next, ServerStep

LEMMA ServerKeeps ==
    ASSUME ServiceInv, [Next]_vars
    PROVE  BatchesOK' /\ LimitsOK' /\ Held \subseteq Held'
<1> USE LimitAssumption
<1>1. BatchesOK /\ LimitsOK
  BY DEF ServiceInv
<1>2. CASE UNCHANGED <<notaryVars, mined, limitVars>>
  BY <1>1, <1>2, BatchesStay, LimitsStay
<1>3. ASSUME NEW hs \in Seq(Hashes), NEW ip \in Ips, Becomes(QueueAll(hs, ip))
      PROVE  BatchesOK' /\ LimitsOK' /\ Held \subseteq Held'
  BY <1>1, <1>3, BecomesKeeps
<1>4. ASSUME NEW h \in Hashes, Take(h), UNCHANGED <<mined, limitVars>>
      PROVE  BatchesOK' /\ LimitsOK' /\ Held \subseteq Held'
  BY <1>1, <1>4, TakeKeeps, LimitsStay
<1>5. ASSUME NEW ip \in Ips, WindowEnds(ip)
      PROVE  BatchesOK' /\ LimitsOK' /\ Held \subseteq Held'
  <2>1. /\ hits' = [hits EXCEPT ![ip] = 0] /\ taken' = [taken EXCEPT ![ip] = 0]
        /\ UNCHANGED <<notaryVars, mined, tracked>>
    BY <1>5 DEF WindowEnds
  <2>2. LimitsOK'
    BY <1>1, <2>1 DEF LimitsOK
  <2>3. QED
    BY <1>1, <2>1, <2>2, BatchesStay
<1>6. CASE NotarySettles
  <2>1. UNCHANGED mined /\ UNCHANGED limitVars
    BY <1>6 DEF NotarySettles
  <2>2. LimitsOK'
    BY <1>1, <2>1, LimitsStay
  <2>3. ASSUME NEW t \in Txs, Sign(t.leaves, t) PROVE BatchesOK' /\ Held \subseteq Held'
    BY <1>1, <2>1, <2>3, SignKeeps
  <2>4. ASSUME NEW t \in SignedTxs, Send(t) \/ GiveUp(t) PROVE BatchesOK' /\ Held \subseteq Held'
    BY <1>1, <2>1, <2>4, SendKeeps, GiveUpKeeps
  <2>5. QED
    BY <1>6, <2>2, <2>3, <2>4 DEF NotarySettles
<1>7. CASE BlockFound
  <2>1. UNCHANGED <<notaryVars, limitVars>> /\ mined' \subseteq sent
    BY <1>1, <1>7 DEF BlockFound, BatchesOK
  <2>2. BatchesOK' /\ Held' = Held
    BY <1>1, <2>1 DEF BatchesOK, notaryVars, SignedTxs, Held
  <2>3. QED
    BY <1>1, <2>1, <2>2, LimitsStay
<1>8. CASE Next
  BY <1>2, <1>3, <1>4, <1>5, <1>6, <1>7, <1>8, Shapes
<1>9. CASE UNCHANGED vars
  BY <1>2, <1>9 DEF vars
<1>10. QED
  BY <1>8, <1>9

LEMMA BlocksStay ==
    ASSUME ServiceInv, [Next]_vars
    PROVE  mined \subseteq mined'
<1>1. CASE Next
  BY <1>1, Shapes DEF Becomes, Take, WindowEnds, NotarySettles, BlockFound
<1>2. CASE UNCHANGED vars
  BY <1>2 DEF vars
<1>3. QED
  BY <1>1, <1>2

\* A block this server answers is the one it stored of a transaction whose leaf
\* the hash is.
LEMMA AnswerKeeps ==
    ASSUME ServiceInv, [Next]_vars
    PROVE  AnswerOK'
<1>1. AnswerOK /\ BatchesOK /\ CallOK
  BY DEF ServiceInv, ClientOK
<1>2. mined \subseteq mined'
  BY BlocksStay
<1>3. CASE UNCHANGED call
  BY <1>1, <1>2, <1>3 DEF AnswerOK
<1>n. NoCall.answer.block = "none"
  BY DEF NoCall, Reports, Answer
<1>4. CASE call' = NoCall
  BY <1>4, <1>n DEF AnswerOK
<1>5. ASSUME NEW kind, NEW items, call' = Sent(kind, items) PROVE AnswerOK'
  <2>1. call'.answer = NoCall.answer
    BY <1>5 DEF Sent, NoCall
  <2>2. QED
    BY <2>1, <1>n DEF AnswerOK
<1>6. ASSUME NEW a, Reply(a), a.block # "stored" PROVE AnswerOK'
  BY <1>1, <1>6 DEF AnswerOK, Reply, CallOK, Calls
<1>7. CASE ServerReads
  <2>1. PICK h : h = call.items[1]
    OBVIOUS
  <2>2. PICK block \in {"none", "stored"} :
           Reply(Answer(StatusOf(h), <<>>, txOf[h], block)) /\ (block = "stored" => txOf[h] \in mined)
    BY <1>7, <2>1 DEF ServerReads
  <2>3. h \in Hashes
    BY <1>1, <1>7, <2>1 DEF ServerReads, CallOK, Calls
  <2>4. txOf[h] \in mined => h \in txOf[h].leaves
    BY <1>1, <2>3, NameAssumption DEF BatchesOK
  <2>5. PICK a : a = Answer(StatusOf(h), <<>>, txOf[h], block)
    OBVIOUS
  <2>6. a.tx = txOf[h] /\ a.block = block
    BY <2>5 DEF Answer
  <2>7. call'.items = call.items /\ call'.answer = a
    BY <1>1, <2>2, <2>5 DEF Reply, CallOK, Calls
  <2>8. QED
    BY <1>2, <2>1, <2>2, <2>4, <2>6, <2>7 DEF AnswerOK
<1>8. CASE ServerStep
  <2>1. \A status, results : Reports(status, results).block = "none"
    BY DEF Reports, Answer
  <2>2. CASE ServerQueues \/ ServerHasNoRoute \/ ServerFails
    <3>1. PICK status, results : Reply(Reports(status, results))
      BY <2>2 DEF ServerQueues, ServerHasNoRoute, ServerFails
    <3>2. QED
      BY <1>6, <2>1, <3>1
  <2>3. CASE OtherServerReads
    <3>1. PICK t, block : Reply(Answer("anchored", <<>>, t, block)) /\ block # "stored"
      BY <2>3 DEF OtherServerReads
    <3>2. Answer("anchored", <<>>, t, block).block = block
      BY DEF Answer
    <3>3. QED
      BY <1>6, <3>1, <3>2
  <2>4. QED
    BY <1>7, <1>8, <2>2, <2>3 DEF ServerStep
<1>9. CASE Begins
  BY <1>3, <1>5, <1>9 DEF Begins, StartSubmit, StartWait, StartSave, StartMany, Ask
<1>10. CASE SubmitStep
  BY <1>3, <1>4, <1>5, <1>10 DEF SubmitStep, SubmitHears, ManyAsks, ManySkips, ManyHears,
     SingleAsks, SingleHears, SingleEnds, ManyReturns, Ask, Hear
<1>11. CASE ProofStep
  BY <1>3, <1>4, <1>5, <1>11 DEF ProofStep, WaitHears, SaveHears, WaitVerifies,
     SaveVerifies, VerifyFails, Wakes, Ask, Hear
<1>12. CASE TimePasses \/ TimesOut
  BY <1>3, <1>4, <1>12 DEF TimePasses, TimesOut, Hear
<1>13. CASE \E c \in late : LateHandled(c)
  BY <1>3, <1>13 DEF LateHandled, ourVars
<1>14. CASE WorldStep
  BY <1>3, <1>14 DEF WorldStep, AdminAdds, OthersSubmit, WindowEnds, NotarySettles, BlockFound,
                     Outside, ourVars
<1>15. CASE UNCHANGED vars
  BY <1>3, <1>15 DEF vars, ourVars
<1>16. QED
  BY <1>8, <1>9, <1>10, <1>11, <1>12, <1>13, <1>14, <1>15 DEF Next

\* A proof is given its block by a look at the chain or by the record, and blocks
\* stay.
LEMMA FileKeeps ==
    ASSUME ServiceInv, [Next]_vars
    PROVE  FileOK'
<1>1. FileOK
  BY DEF ServiceInv
<1>2. mined \subseteq mined'
  BY BlocksStay
<1>3. CASE UNCHANGED file
  BY <1>1, <1>2, <1>3 DEF FileOK
<1>4. CASE file' = NoFile
  BY <1>4 DEF FileOK, NoFile
<1>5. ASSUME NEW tx, NEW b, Got(tx, b), b \in {"chain", "stored"} => InBlock(tx) PROVE FileOK'
  <2>1. file' = [hash |-> prog.list[1], tx |-> tx, block |-> b]
    BY <1>5 DEF Got
  <2>2. QED
    BY <1>2, <1>5, <2>1 DEF FileOK, InBlock
<1>r. \* The block of a record is this server's or the claim of another one.
      Answered("proof") => (call.answer.block \in {"chain", "stored"} => InBlock(call.answer.tx))
  <2>1. /\ AnswerOK /\ call.answer.block \in {"none", "stored", "claimed"}
        /\ call.kind = "proof" => call.items = prog.list
    BY DEF ServiceInv, ClientOK, CallOK, Calls, Answers
  <2>2. QED
    BY <2>1 DEF Answered, AnswerOK, InBlock
<1>6. CASE Begins
  BY <1>4, <1>6 DEF Begins, StartSubmit, StartWait, StartSave, StartMany, Starts
<1>7. CASE ServerStep
  BY <1>3, <1>7 DEF ServerStep, ServerQueues, ServerHasNoRoute, ServerFails, ServerReads,
                    OtherServerReads
<1>8. CASE SubmitStep
  <2>1. \A got : NextChunk(got) => UNCHANGED file
    BY DEF NextChunk
  <2>2. CASE ManyHears
    <3>1. call.answer.status \in {"ok", "error", "noroute"}
      BY <2>2 DEF ManyHears, Answered, ServiceInv, ClientOK, CallOK, Calls, Answers
    <3>2. QED
      BY <2>1, <2>2, <3>1, <1>3 DEF ManyHears, Throw
  <2>3. CASE SubmitHears \/ ManyAsks \/ ManySkips \/ SingleAsks
    BY <1>3, <2>1, <2>3 DEF SubmitHears, ManyAsks, ManySkips, SingleAsks
  <2>4. CASE SingleHears \/ SingleEnds \/ ManyReturns
    BY <1>3, <2>1, <2>4 DEF SingleHears, SingleEnds, ManyReturns, Keep
  <2>5. QED
    BY <1>8, <2>2, <2>3, <2>4 DEF SubmitStep
<1>9. CASE ProofStep
  <2>1. CASE WaitHears
    <3>1. CASE call.answer.status = "anchored" /\ ~prog.confirmed
      BY <1>5, <1>r, <2>1, <3>1 DEF WaitHears
    <3>2. CASE call.answer.status \in {"unknown", "error", "pending", "anchored"} /\
               ~(call.answer.status = "anchored" /\ ~prog.confirmed)
      BY <1>3, <2>1, <3>2 DEF WaitHears, Throw, Deadline
    <3>3. call.answer.status \in {"unknown", "error", "pending", "anchored"}
      BY <2>1 DEF WaitHears, Answered, ServiceInv, ClientOK, CallOK, Calls, Answers
    <3>4. QED
      BY <3>1, <3>2, <3>3
  <2>2. CASE WaitVerifies
    BY <1>3, <1>5, <2>2 DEF WaitVerifies, Throw, Deadline
  <2>3. CASE SaveVerifies
    <3>1. PICK b : Got(prog.tx, b) /\ b = IF InBlock(prog.tx) THEN "chain" ELSE "none"
      BY <2>3 DEF SaveVerifies
    <3>2. b \in {"chain", "stored"} => InBlock(prog.tx)
      BY <3>1
    <3>3. QED
      BY <1>5, <3>1, <3>2
  <2>4. CASE SaveHears
    <3>1. CASE Got(call.answer.tx, call.answer.block)
      BY <1>5, <1>r, <2>4, <3>1 DEF SaveHears
    <3>2. CASE UNCHANGED file
      BY <1>3, <3>2
    <3>3. QED
      BY <2>4, <3>1, <3>2 DEF SaveHears, Throw
  <2>5. CASE VerifyFails \/ Wakes
    BY <1>3, <2>5 DEF VerifyFails, Wakes, Throw
  <2>6. QED
    BY <1>9, <2>1, <2>2, <2>3, <2>4, <2>5 DEF ProofStep
<1>10. CASE TimePasses \/ TimesOut
  BY <1>3, <1>10 DEF TimePasses, TimesOut, Keep, Throw
<1>11. CASE \E c \in late : LateHandled(c)
  BY <1>3, <1>11 DEF LateHandled, ourVars
<1>12. CASE WorldStep
  BY <1>3, <1>12 DEF WorldStep, AdminAdds, OthersSubmit, WindowEnds, NotarySettles, BlockFound,
                     Outside, ourVars
<1>13. CASE UNCHANGED vars
  BY <1>3, <1>13 DEF vars, ourVars
<1>14. QED
  BY <1>6, <1>7, <1>8, <1>9, <1>10, <1>11, <1>12, <1>13 DEF Next

-----------------------------------------------------------------------------
(* The chunks of a list.                                                   *)

Items == Hashes \cup {Bad}
CutEnd(list, at) == IF at + Chunk - 1 < Len(list) THEN at + Chunk - 1 ELSE Len(list)
Cut(list, at) == SubSeq(list, at, CutEnd(list, at))

LEMMA CutSays ==
    ASSUME NEW list \in Seq(Items), NEW at \in Nat \ {0}, NEW chunk, chunk = Cut(list, at)
    PROVE  /\ chunk \in Seq(Items)
           /\ \A k \in 1..Len(chunk) : /\ at - 1 + k \in 1..Len(list)
                                       /\ chunk[k] = list[at - 1 + k]
           /\ at - 1 <= Len(list) => Len(chunk) = CutEnd(list, at) - (at - 1)
<1> USE LimitAssumption
<1>1. PICK n \in Nat : n = Len(list)
  OBVIOUS
<1>2. PICK e \in Nat : e = CutEnd(list, at)
  <2>1. at + Chunk - 1 \in Nat
    OBVIOUS
  <2>2. QED
    BY <1>1, <2>1 DEF CutEnd
<1>3. e <= n /\ (at - 1 <= n => at - 1 <= e)
  BY <1>1, <1>2 DEF CutEnd
<1>4. CASE at > e
  <2>1. chunk = <<>>
    BY <1>2, <1>4 DEF Cut
  <2>2. QED
    BY <1>1, <1>2, <1>3, <1>4, <2>1
<1>5. CASE at <= e
  <2>1. /\ chunk \in Seq(Items) /\ Len(chunk) = e - at + 1
        /\ \A k \in 1..(e - at + 1) : chunk[k] = list[at + k - 1]
    BY SMTT(30), <1>1, <1>2, <1>3, <1>5 DEF Cut
  <2>2. \A k \in 1..(e - at + 1) : at - 1 + k \in 1..n /\ at - 1 + k = at + k - 1
    BY <1>1, <1>2, <1>3, <1>5
  <2>3. QED
    BY <1>1, <1>2, <1>3, <2>1, <2>2
<1>6. QED
  BY <1>2, <1>4, <1>5

\* What a chunk asks for, and the answer to it.
LEMMA ValidSays ==
    ASSUME NEW list \in Seq(Items), NEW at \in Nat \ {0}
    PROVE  Split(Cut(list, at)).valid \in Seq(Hashes)
<1>1. PICK chunk : chunk = Cut(list, at)
  OBVIOUS
<1>2. chunk \in Seq(Items)
  BY <1>1, CutSays
<1>3. Placed(chunk, Len(chunk), Split(chunk))
  BY <1>2, SplitSays
<1>4. QED
  BY <1>1, <1>3 DEF Placed

LEMMA SlotsSay ==
    ASSUME ProgOK, NEW got \in Seq(Results), NEW held, Answering(got, Valid, held),
           Len(got) = Len(Valid)
    PROVE  /\ Slots(got) \in Seq(Results) /\ Len(Slots(got)) = Len(ThisChunk)
           /\ Answering(Slots(got), ThisChunk, held)
<1>1. PICK chunk : chunk = ThisChunk
  OBVIOUS
<1>2. chunk \in Seq(Items)
  <2>1. prog.list \in Seq(Items) /\ prog.at \in Nat \ {0} /\ chunk = Cut(prog.list, prog.at)
    BY <1>1 DEF ProgOK, Progs, Items, ThisChunk, Cut, CutEnd
  <2>2. QED
    BY <2>1, CutSays
<1>s. PICK split : split = Split(chunk)
  OBVIOUS
<1>3. Placed(chunk, Len(chunk), split)
  BY <1>2, <1>s, SplitSays
<1>v. PICK v \in Seq(Hashes) : v = split.valid /\ v = Valid
  BY <1>1, <1>s, <1>3 DEF Placed, Valid
<1>w. PICK w \in Seq(Nat) : w = split.slot /\ Len(w) = Len(chunk)
  BY <1>3 DEF Placed
<1>n. PICK n \in Nat : n = Len(chunk) /\ DOMAIN chunk = 1..n
  BY <1>2
<1>r. PICK r : r = [k \in 1..n |-> IF w[k] # 0 THEN got[w[k]] ELSE Result(chunk[k], "invalid")]
  OBVIOUS
<1>4. r = Slots(got)
  BY <1>1, <1>s, <1>w, <1>n, <1>r DEF Slots
<1>5. ASSUME NEW k \in 1..n PROVE ResultOK(r[k], chunk[k], held)
  <2>1. CASE IsHash(chunk[k])
    <3>1. w[k] \in 1..Len(v) /\ v[w[k]] = chunk[k]
      BY <1>v, <1>w, <1>n, <1>3, <2>1 DEF Placed
    <3>2. w[k] # 0 /\ w[k] \in 1..Len(got) /\ r[k] = got[w[k]]
      BY <1>v, <1>r, <3>1
    <3>3. ResultOK(got[w[k]], v[w[k]], held)
      BY <1>v, <3>2 DEF Answering
    <3>4. QED
      BY <3>1, <3>2, <3>3
  <2>2. CASE ~IsHash(chunk[k])
    <3>1. w[k] = 0 /\ r[k] = Result(chunk[k], "invalid")
      BY <1>w, <1>n, <1>r, <1>3, <2>2 DEF Placed
    <3>2. chunk[k] \in Items
      BY <1>2, <1>n
    <3>3. PICK x : x = [item |-> chunk[k], out |-> "invalid"]
      OBVIOUS
    <3>4. x \in Results /\ x.item = chunk[k] /\ x.out = "invalid" /\ r[k] = x
      BY <3>1, <3>2, <3>3 DEF Results, Result, Items
    <3>5. QED
      BY <3>4 DEF ResultOK, Accepted
  <2>3. QED
    BY <2>1, <2>2
<1>6. r \in Seq(Results) /\ Len(r) = n
  <2>1. \A k \in 1..n : r[k] \in Results
    BY <1>5 DEF ResultOK
  <2>2. r \in [1..n -> Results]
    BY <1>r, <2>1
  <2>3. r \in Seq(Results)
    <3>1. Seq(Results) = UNION {[1..m -> Results] : m \in Nat}
      BY SeqDef
    <3>2. [1..n -> Results] \in {[1..m -> Results] : m \in Nat}
      OBVIOUS
    <3>3. QED
      BY <2>2, <3>1, <3>2, Zenon
  <2>4. PICK m : m = Len(r)
    OBVIOUS
  <2>l. m \in Nat /\ DOMAIN r = 1..m
    BY <2>3, <2>4
  <2>5. DOMAIN r = 1..m /\ DOMAIN r = 1..n
    BY <2>2, <2>l
  <2>6. ASSUME m # n PROVE FALSE
    <3>1. m \in 1..m \/ n \in 1..n
      BY <1>n, <2>l, <2>6
    <3>2. (m > n => m \in 1..m /\ m \notin 1..n) /\ (n > m => n \in 1..n /\ n \notin 1..m)
      BY <1>n, <2>l
    <3>3. QED
      BY <1>n, <2>l, <2>5, <2>6, <3>2
  <2>7. QED
    BY <2>3, <2>4, <2>6
<1>7. Answering(r, chunk, held)
  BY <1>n, <1>5, <1>6 DEF Answering
<1>8. QED
  BY <1>1, <1>4, <1>6, <1>7, <1>n

LEMMA ValidIs ==
    /\ Valid = Split(Cut(prog.list, prog.at)).valid
    /\ Valid' = Split(Cut(prog'.list, prog'.at)).valid
BY DEF Valid, ThisChunk, Cut, CutEnd

LEMMA AnsweringNone ==
    ASSUME NEW S, NEW items \in Seq(S), NEW held
    PROVE  Answering(<<>>, items, held)
BY DEF Answering

LEMMA AnsweringMore ==
    ASSUME NEW results, NEW items, NEW held, NEW more, held \subseteq more,
           Answering(results, items, held)
    PROVE  Answering(results, items, more)
BY DEF Answering, ResultOK

LEMMA AnsweringNext ==
    ASSUME NEW results \in Seq(Results), NEW S, NEW items \in Seq(S), NEW held, NEW r,
           Answering(results, items, held), Len(results) < Len(items),
           ResultOK(r, items[Len(results) + 1], held)
    PROVE  /\ Append(results, r) \in Seq(Results)
           /\ Answering(Append(results, r), items, held)
<1>1. PICK n \in Nat : n = Len(results)
  OBVIOUS
<1>2. r \in Results
  BY DEF ResultOK
<1>3. PICK new : new = Append(results, r)
  OBVIOUS
<1>4. new \in Seq(Results) /\ Len(new) = n + 1 /\ new[n + 1] = r
  BY <1>1, <1>2, <1>3
<1>5. ASSUME NEW k \in 1..(n + 1) PROVE ResultOK(new[k], items[k], held)
  <2>1. CASE k = n + 1
    BY <1>1, <1>4, <2>1
  <2>2. CASE k # n + 1
    <3>1. k \in 1..n /\ new[k] = results[k]
      BY <1>1, <1>2, <1>3, <2>2
    <3>2. QED
      BY <1>1, <3>1 DEF Answering
  <2>3. QED
    BY <2>1, <2>2
<1>6. n + 1 <= Len(items)
  BY <1>1
<1>7. QED
  BY <1>3, <1>4, <1>5, <1>6 DEF Answering

\* What a caller is told is accepted, is held.
LEMMA AcceptedIn ==
    ASSUME NEW results \in Seq(Results), NEW items, NEW held, Answering(results, items, held)
    PROVE  AcceptedOf(results) \subseteq held
<1>1. ASSUME NEW k \in DOMAIN results, Accepted(results[k]) PROVE results[k].item \in held
  <2>1. k \in 1..Len(results)
    OBVIOUS
  <2>2. ResultOK(results[k], items[k], held)
    BY <2>1 DEF Answering
  <2>3. QED
    BY <1>1, <2>2 DEF ResultOK
<1>2. QED
  BY <1>1 DEF AcceptedOf

\* The results of a chunk go behind those of the chunks before it.
LEMMA ChunkDone ==
    ASSUME ProgOK, told \subseteq Held, prog.pc \in {"chunk", "many", "single"},
           NEW got \in Seq(Results), Answering(got, Valid, Held), Len(got) = Len(Valid),
           NextChunk(got), Held' = Held
    PROVE  /\ ProgOK' /\ told' \subseteq Held'
           /\ prog'.pc \in {"returned", "chunk"}
<1> USE LimitAssumption
<1>l. PICK list \in Seq(Items) : list = prog.list
  BY DEF ProgOK, Progs, Items
<1>a. PICK at \in Nat \ {0} : at = prog.at
  BY DEF ProgOK, Progs
<1>n. PICK n \in Nat : n = Len(list)
  OBVIOUS
<1>r. PICK r \in Seq(Results) : r = prog.results
  BY DEF ProgOK, Progs
<1>c. PICK chunk : chunk = Cut(list, at) /\ chunk = ThisChunk
  BY <1>l, <1>a DEF Cut, CutEnd, ThisChunk
<1>s. PICK s \in Seq(Results) : s = Slots(got)
  BY SlotsSay
<1>e. PICK e : e = CutEnd(list, at)
  OBVIOUS
<1>1. Len(r) = at - 1 /\ at - 1 <= n
  BY <1>l, <1>a, <1>n, <1>r DEF ProgOK
<1>2. /\ Len(chunk) = e - (at - 1)
      /\ \A k \in 1..Len(chunk) : at - 1 + k \in 1..n /\ chunk[k] = list[at - 1 + k]
  <2>1. /\ \A k \in 1..Len(chunk) : /\ at - 1 + k \in 1..Len(list)
                                    /\ chunk[k] = list[at - 1 + k]
        /\ at - 1 <= Len(list) => Len(chunk) = CutEnd(list, at) - (at - 1)
    BY <1>c, CutSays
  <2>2. QED
    BY <1>e, <1>n, <1>1, <2>1
<1>3. Len(s) = Len(chunk) /\ Answering(s, chunk, Held)
  BY <1>c, <1>s, SlotsSay
<1>4. e = (IF at + Chunk > n THEN n ELSE at + Chunk - 1) /\ e \in Nat /\ e <= n
  <2>1. at + Chunk - 1 \in Nat /\ at + Chunk \in Nat
    OBVIOUS
  <2>2. QED
    BY <1>e, <1>n, <2>1 DEF CutEnd
<1>t. PICK t : t = r \o s
  OBVIOUS
<1>5. t \in Seq(Results) /\ Len(t) = e
  BY <1>1, <1>2, <1>3, <1>4, <1>t
<1>6. Answering(t, list, Held)
  <2>1. ASSUME NEW k \in 1..e PROVE ResultOK(t[k], list[k], Held)
    <3>1. CASE k <= at - 1
      <4>1. k \in 1..Len(r) /\ t[k] = r[k]
        BY <1>1, <1>3, <1>t, <2>1, <3>1
      <4>2. QED
        BY <1>l, <1>r, <4>1 DEF ProgOK, Answering
    <3>2. CASE k > at - 1
      <4>1. PICK j : j = k - (at - 1)
        OBVIOUS
      <4>2. j \in 1..Len(s) /\ at - 1 + j = k /\ k = Len(r) + j
        BY <1>1, <1>2, <1>3, <1>4, <2>1, <3>2, <4>1
      <4>3. t[k] = s[j]
        BY <1>t, <4>2
      <4>4. ResultOK(s[j], chunk[j], Held)
        BY <1>3, <4>2 DEF Answering
      <4>5. chunk[j] = list[k]
        BY <1>2, <1>3, <4>2
      <4>6. QED
        BY <4>3, <4>4, <4>5
    <3>3. QED
      BY <1>4, <2>1, <3>1, <3>2
  <2>2. QED
    BY <1>n, <1>4, <1>5, <2>1 DEF Answering
<1>o. PICK over \in BOOLEAN : over <=> at + Chunk > n
  OBVIOUS
<1>7. /\ prog' = [prog EXCEPT !.pc = IF over THEN "returned" ELSE "chunk",
                              !.at = at + Chunk, !.got = <<>>, !.results = t]
      /\ told' = IF over THEN told \cup AcceptedOf(t) ELSE told
  BY <1>l, <1>a, <1>n, <1>r, <1>s, <1>t, <1>o DEF NextChunk
<1>8. at + Chunk \in Nat \ {0}
  OBVIOUS
<1>p. PICK pc \in {"returned", "chunk"} : pc = IF over THEN "returned" ELSE "chunk"
  OBVIOUS
<1>9. /\ prog' \in Progs /\ prog'.list = list /\ prog'.at = at + Chunk /\ prog'.got = <<>>
      /\ prog'.results = t /\ prog'.pc = pc
  <2>1. prog' = [prog EXCEPT !.pc = pc, !.at = at + Chunk, !.got = <<>>, !.results = t]
    BY <1>7, <1>p
  <2>2. prog \in Progs /\ <<>> \in Seq(Results)
    BY DEF ProgOK
  <2>3. prog' = [pc |-> pc, op |-> prog.op, list |-> prog.list, at |-> at + Chunk, got |-> <<>>,
                 results |-> t, confirmed |-> prog.confirmed, tx |-> prog.tx,
                 expired |-> prog.expired]
    BY <2>1, <2>2 DEF Progs
  <2>4. prog' \in Progs
    BY <1>5, <1>8, <2>2, <2>3 DEF Progs
  <2>5. QED
    BY <1>l, <2>3, <2>4
<1>10. Answering(<<>>, Valid', Held')
  <2>1. Valid' \in Seq(Hashes)
    BY <1>8, <1>9, ValidIs, ValidSays
  <2>2. QED
    BY <2>1, AnsweringNone
<1>11. over => e = n
  BY <1>4, <1>o
<1>12. ~over => e = at + Chunk - 1 /\ e <= n
  BY <1>4, <1>o, <1>n
<1>13. ProgOK'
  <2>1. Answering(prog'.results, prog'.list, Held')
    BY <1>6, <1>9
  <2>2. Answering(prog'.got, Valid', Held')
    BY <1>9, <1>10
  <2>3. prog'.pc = "returned" => Len(prog'.results) = Len(prog'.list)
    BY <1>n, <1>5, <1>9, <1>11, <1>p
  <2>4. prog'.pc # "returned" =>
           Len(prog'.results) = prog'.at - 1 /\ prog'.at - 1 <= Len(prog'.list)
    <3>1. CASE over
      BY <1>9, <1>p, <3>1
    <3>2. CASE ~over
      <4>1. at + Chunk - 1 = (at + Chunk) - 1
        OBVIOUS
      <4>2. QED
        BY <1>n, <1>5, <1>9, <1>12, <3>2, <4>1
    <3>3. QED
      BY <3>1, <3>2
  <2>5. QED
    BY <1>9, <2>1, <2>2, <2>3, <2>4 DEF ProgOK
<1>14. told' \subseteq Held'
  BY <1>5, <1>6, <1>7, AcceptedIn
<1>15. QED
  BY <1>9, <1>13, <1>14

-----------------------------------------------------------------------------
(* What a step of the client keeps.                                        *)

Waits == {"hear", "many", "one"}
Polls == {"hear", "sleep", "verify"}
InChunk == {"chunk", "many", "single", "one"}

\* A program that stays in its list, or goes on with what it asks.
LEMMA ProgMoves ==
    ASSUME ProgOK, Held \subseteq Held', prog' \in Progs,
           prog'.list = prog.list, prog'.at = prog.at, prog'.op = prog.op,
           prog'.got = prog.got, prog'.results = prog.results,
           prog'.pc \in Polls => prog.pc \in Polls,
           prog'.pc \in {"sleep", "verify"} => prog.op \in {"wait", "save"},
           prog'.pc \in InChunk => prog.pc \in InChunk,
           prog'.pc \in {"chunk", "many"} => prog.pc \in {"chunk", "many"},
           prog'.pc = "returned" => prog.pc = "returned"
    PROVE  ProgOK' /\ Valid' = Valid
<1>1. Valid' = Valid
  BY ValidIs
<1>2. /\ Answering(prog.results, prog.list, Held')
      /\ Answering(prog.got, Valid, Held')
  BY AnsweringMore DEF ProgOK
<1>3. /\ Answering(prog'.results, prog'.list, Held')
      /\ Answering(prog'.got, Valid', Held')
  BY <1>1, <1>2
<1>4. QED
  BY <1>1, <1>3 DEF ProgOK, Polls, InChunk

LEMMA ProgStays ==
    ASSUME ProgOK, Held \subseteq Held', UNCHANGED prog
    PROVE  ProgOK' /\ Valid' = Valid
<1>1. prog \in Progs /\ (prog.pc \in {"sleep", "verify"} => prog.op \in {"wait", "save"})
  BY DEF ProgOK
<1>2. QED
  BY <1>1, ProgMoves

\* Field by field, for the provers.
LEMMA IdleSays ==
    /\ Idle \in Progs /\ Idle.pc = "idle" /\ Idle.op = "none" /\ Idle.at = 1
    /\ Idle.list = <<>> /\ Idle.got = <<>> /\ Idle.results = <<>> /\ Idle.confirmed = FALSE
<1>1. <<>> \in Seq(Results) /\ <<>> \in Seq(Hashes \cup {Bad})
  OBVIOUS
<1>r. PICK r \in Seq(Results) : r = <<>> /\ r \in Seq(Hashes \cup {Bad})
  BY <1>1
<1>b. PICK b \in BOOLEAN : b = FALSE
  OBVIOUS
<1>n. PICK n \in Nat \ {0} : n = 1
  OBVIOUS
<1>p. PICK p \in {"idle"} : p = "idle"
  OBVIOUS
<1>o. PICK o \in {"none"} : o = "none"
  OBVIOUS
<1>i. PICK i : i = [pc |-> p, op |-> o, list |-> r, at |-> n, got |-> r, results |-> r,
                    confirmed |-> b, tx |-> None, expired |-> b]
  OBVIOUS
<1>2. i = Idle
  BY <1>r, <1>b, <1>n, <1>p, <1>o, <1>i DEF Idle
<1>3. i \in Progs
  BY <1>r, <1>p, <1>o, <1>i DEF Progs
<1>4. QED
  BY <1>2, <1>3, <1>i, <1>r, <1>b, <1>n, <1>p, <1>o

LEMMA NoCallSays ==
    /\ NoCall \in Calls /\ NoCall.kind = "none" /\ NoCall.items = <<>>
    /\ NoCall.answer.status = "none" /\ NoCall.answer.results = <<>>
<1>1. <<>> \in Seq(Results) /\ <<>> \in Seq(Hashes)
  OBVIOUS
<1>r. PICK r \in Seq(Results) : r = <<>> /\ r \in Seq(Hashes)
  BY <1>1
<1>o. PICK o \in {"none"} : o = "none"
  OBVIOUS
<1>a. PICK a : a = [status |-> o, results |-> r, tx |-> None, block |-> o]
  OBVIOUS
<1>c. PICK c : c = [kind |-> o, items |-> r, answer |-> a]
  OBVIOUS
<1>2. a \in Answers /\ a.status = "none" /\ a.results = <<>>
  BY <1>a, <1>o, <1>r DEF Answers
<1>3. c = NoCall
  BY <1>r, <1>o, <1>a, <1>c DEF NoCall, Reports, Answer
<1>4. c \in Calls
  BY <1>r, <1>c, <1>o, <1>2 DEF Calls
<1>5. QED
  BY <1>2, <1>3, <1>4, <1>c, <1>r, <1>o

\* A program that starts, or is over.
LEMMA ProgFresh ==
    ASSUME prog' \in Progs, prog'.at = 1, prog'.got = <<>>, prog'.results = <<>>,
           prog'.pc \in {"idle", "hear", "chunk"},
           prog'.pc = "hear" => prog'.list \in Seq(Hashes) /\ Len(prog'.list) = 1
    PROVE  ProgOK'
<1>1. prog'.list \in Seq(Items) /\ prog'.at \in Nat \ {0}
  BY DEF Progs, Items
<1>2. Valid' \in Seq(Hashes)
  BY <1>1, ValidIs, ValidSays
<1>3. Answering(<<>>, prog'.list, Held') /\ Answering(<<>>, Valid', Held')
  BY <1>1, <1>2, AnsweringNone
<1>4. QED
  BY <1>3 DEF ProgOK

LEMMA ProgBegins ==
    ASSUME NEW pc \in {"hear", "chunk"}, NEW op \in {"submit", "many", "wait", "save"},
           NEW list \in Seq(Items), NEW c \in BOOLEAN,
           pc = "hear" => list \in Seq(Hashes) /\ Len(list) = 1,
           \/ prog' = [Idle EXCEPT !.pc = pc, !.op = op, !.list = list]
           \/ prog' = [Idle EXCEPT !.pc = pc, !.op = op, !.list = list, !.confirmed = c]
    PROVE  ProgOK' /\ prog'.pc = pc /\ prog'.op = op /\ prog'.list = list
<1>1. PICK i \in Progs : i = Idle
  BY IdleSays
<1>2. \/ prog' = [i EXCEPT !.pc = pc, !.op = op, !.list = list]
      \/ prog' = [i EXCEPT !.pc = pc, !.op = op, !.list = list, !.confirmed = c]
  BY <1>1
<1>3. /\ prog' \in Progs /\ prog'.pc = pc /\ prog'.op = op /\ prog'.list = list
      /\ prog'.at = i.at /\ prog'.got = i.got /\ prog'.results = i.results
  <2>1. CASE prog' = [i EXCEPT !.pc = pc, !.op = op, !.list = list]
    BY <2>1 DEF Progs, Items
  <2>2. CASE prog' = [i EXCEPT !.pc = pc, !.op = op, !.list = list, !.confirmed = c]
    BY <2>2 DEF Progs, Items
  <2>3. QED
    BY <1>2, <2>1, <2>2
<1>4. prog'.at = 1 /\ prog'.got = <<>> /\ prog'.results = <<>>
  BY <1>1, <1>3, IdleSays
<1>5. QED
  BY <1>3, <1>4, ProgFresh

LEMMA ProgEnds ==
    ASSUME prog' = Idle
    PROVE  ProgOK' /\ prog'.pc = "idle"
<1>1. /\ prog' \in Progs /\ prog'.at = 1 /\ prog'.got = <<>> /\ prog'.results = <<>>
      /\ prog'.pc = "idle"
  BY IdleSays
<1>2. QED
  BY <1>1, ProgFresh

\* A request that is answered, one that is asked, and none.
LEMMA CallStays ==
    ASSUME CallOK, ProgOK, Held \subseteq Held', UNCHANGED <<prog, call>>
    PROVE  CallOK'
<1>1. Valid' = Valid
  BY ProgStays
<1>2. Answering(call'.answer.results, call'.items, Held')
  BY AnsweringMore DEF CallOK
<1>3. QED
  BY <1>1, <1>2 DEF CallOK

LEMMA CallSilent ==
    ASSUME CallOK, UNCHANGED call, Held \subseteq Held', prog.pc \notin Waits, prog'.pc \notin Waits
    PROVE  CallOK'
<1>1. call.kind = "none"
  BY DEF CallOK, Calls, Waits
<1>2. call.answer.status \notin {"ok", "noroute", "unknown", "pending", "anchored"}
  BY <1>1 DEF CallOK
<1>3. Answering(call'.answer.results, call'.items, Held')
  BY AnsweringMore DEF CallOK
<1>4. QED
  BY <1>1, <1>2, <1>3 DEF CallOK, Waits

LEMMA Asked ==
    ASSUME NEW kind \in {"none", "hash", "hashes", "proof"}, NEW items \in Seq(Hashes),
           call' = Sent(kind, items)
    PROVE  /\ call' \in Calls /\ call'.kind = kind /\ call'.items = items
           /\ call'.answer.status = "none"
           /\ Answering(call'.answer.results, items, Held')
<1>1. PICK c \in Calls : c = NoCall /\ c.answer.status = "none" /\ c.answer.results = <<>>
  BY NoCallSays
<1>2. call' = [c EXCEPT !.kind = kind, !.items = items]
  BY <1>1 DEF Sent
<1>3. call' = [kind |-> kind, items |-> items, answer |-> c.answer]
  BY <1>2 DEF Calls
<1>4. Answering(<<>>, items, Held')
  BY AnsweringNone
<1>5. QED
  BY <1>1, <1>3, <1>4 DEF Calls

LEMMA CallHeard ==
    ASSUME Hear, prog'.pc \notin Waits
    PROVE  CallOK'
<1>1. <<>> \in Seq(Hashes)
  OBVIOUS
<1>2. Answering(<<>>, <<>>, Held')
  BY <1>1, AnsweringNone
<1>3. QED
  BY <1>2, NoCallSays DEF CallOK, Waits, Hear

LEMMA CallReplied ==
    ASSUME CallOK, ProgOK, Held \subseteq Held', UNCHANGED prog, NEW a \in Answers, Reply(a),
           Answering(a.results, call.items, Held'),
           a.status = "ok" => Len(a.results) = Len(call.items) /\ call.kind \in {"hash", "hashes"},
           a.status = "noroute" => call.kind = "hashes",
           a.status \in {"unknown", "pending", "anchored"} => call.kind = "proof"
    PROVE  CallOK'
<1>1. Valid' = Valid
  BY ProgStays
<1>2. call \in Calls
  BY DEF CallOK
<1>3. call' = [kind |-> call.kind, items |-> call.items, answer |-> a]
  BY <1>2 DEF Reply, Calls
<1>4. call' \in Calls
  BY <1>2, <1>3 DEF Calls
<1>5. call'.kind = call.kind /\ call'.items = call.items /\ call'.answer = a
  BY <1>3
<1>6. QED
  BY <1>1, <1>4, <1>5 DEF CallOK

\* The fields a step of the program leaves as they are.
SameList == /\ prog'.list = prog.list /\ prog'.at = prog.at
            /\ prog'.results = prog.results /\ prog'.op = prog.op

LEMMA PcMoves ==
    ASSUME prog \in Progs,
           NEW pc \in {"hear", "many", "single", "one", "sleep", "verify"},
           NEW tx \in Txs \cup {NoTx, None},
           prog' = [prog EXCEPT !.pc = pc] \/ prog' = [prog EXCEPT !.pc = pc, !.tx = tx]
    PROVE  prog' \in Progs /\ prog'.pc = pc /\ prog'.got = prog.got /\ SameList
<1>1. CASE prog' = [prog EXCEPT !.pc = pc]
  BY <1>1 DEF Progs, SameList
<1>2. CASE prog' = [prog EXCEPT !.pc = pc, !.tx = tx]
  BY <1>2 DEF Progs, SameList
<1>3. QED
  BY <1>1, <1>2

LEMMA ServerAnswers ==
    ASSUME ServiceInv, ServerStep, Held \subseteq Held'
    PROVE  ClientOK'
<1>1. CallOK /\ ProgOK /\ LateOK /\ told \subseteq Held /\ BatchesOK /\ LimitsOK
  BY DEF ServiceInv, ClientOK
<1>2. UNCHANGED <<prog, told, late>>
  BY DEF ServerStep, ServerQueues, ServerHasNoRoute, ServerFails, ServerReads, OtherServerReads
<1>3. ProgOK' /\ LateOK' /\ told' \subseteq Held'
  BY <1>1, <1>2, ProgStays DEF LateOK
<1>c. call \in Calls /\ call.items \in Seq(Hashes)
  BY <1>1 DEF CallOK, Calls
<1>n. Answering(<<>>, call.items, Held')
  BY <1>c, AnsweringNone
<1>4. CASE ServerQueues
  <2>1. PICK s : s = QueueAll(call.items, Us)
    OBVIOUS
  <2>2. Becomes(s) /\ Reply(Reports("ok", s.results)) /\ call.kind \in {"hashes", "hash"}
    BY <1>4, <2>1 DEF ServerQueues
  <2>3. Handled(call.items, Len(call.items), s)
    BY <1>1, <1>c, <2>1, ProgramAssumption, QueueAllSays
  <2>4. HeldWith(s.queue) = Held'
    BY <2>2 DEF Becomes, HeldWith, Held
  <2>5. s.results \in Seq(Results) /\ Len(s.results) = Len(call.items)
    BY <2>3 DEF Handled, Holding
  <2>6. Answering(s.results, call.items, Held')
    BY <1>c, <2>3, <2>4, <2>5 DEF Handled, Answering
  <2>7. PICK a : a = Reports("ok", s.results)
    OBVIOUS
  <2>8. a \in Answers /\ a.status = "ok" /\ a.results = s.results
    BY <2>5, <2>7 DEF Reports, Answer, Answers
  <2>9. CallOK'
    BY <1>1, <1>2, <2>2, <2>5, <2>6, <2>7, <2>8, CallReplied
  <2>10. QED
    BY <1>3, <2>9 DEF ClientOK
<1>5. CASE ServerHasNoRoute \/ ServerFails
  <2>1. PICK status \in {"noroute", "error"} :
           Reply(Reports(status, <<>>)) /\ (status = "noroute" => call.kind = "hashes")
    BY <1>5 DEF ServerHasNoRoute, ServerFails
  <2>2. PICK a : a = Reports(status, <<>>)
    OBVIOUS
  <2>3. <<>> \in Seq(Results)
    OBVIOUS
  <2>4. a \in Answers /\ a.status = status /\ a.results = <<>>
    BY <2>2, <2>3 DEF Reports, Answer, Answers
  <2>5. CallOK'
    BY <1>n, <1>1, <1>2, <2>1, <2>2, <2>4, CallReplied
  <2>6. QED
    BY <1>3, <2>5 DEF ClientOK
<1>6. CASE ServerReads
  <2>1. PICK h : h = call.items[1]
    OBVIOUS
  <2>2. PICK block \in {"none", "stored"} :
           Reply(Answer(StatusOf(h), <<>>, txOf[h], block)) /\ call.kind = "proof"
    BY <1>6, <2>1 DEF ServerReads
  <2>3. h \in Hashes
    BY <1>1, <1>c, <2>1, <2>2 DEF CallOK
  <2>4. PICK a : a = Answer(StatusOf(h), <<>>, txOf[h], block)
    OBVIOUS
  <2>5. <<>> \in Seq(Results) /\ txOf[h] \in Txs \cup {NoTx, None}
    BY <1>1, <2>3 DEF BatchesOK
  <2>6. PICK status \in {"anchored", "pending", "unknown"} : status = StatusOf(h)
    BY DEF StatusOf
  <2>7. a \in Answers /\ a.status = status /\ a.results = <<>>
    BY <2>4, <2>5, <2>6 DEF Answer, Answers
  <2>8. CallOK'
    BY <1>n, <1>1, <1>2, <2>2, <2>4, <2>7, CallReplied
  <2>9. QED
    BY <1>3, <2>8 DEF ClientOK
<1>7. CASE OtherServerReads
  <2>1. PICK t \in Claims, block \in {"none", "claimed"} :
           Reply(Answer("anchored", <<>>, t, block)) /\ call.kind = "proof"
    BY <1>7 DEF OtherServerReads
  <2>2. PICK a : a = Answer("anchored", <<>>, t, block)
    OBVIOUS
  <2>3. <<>> \in Seq(Results) /\ t \in Txs
    BY ClaimAssumption
  <2>4. a \in Answers /\ a.status = "anchored" /\ a.results = <<>>
    BY <2>2, <2>3 DEF Answer, Answers
  <2>5. CallOK'
    BY <1>n, <1>1, <1>2, <2>1, <2>2, <2>4, CallReplied
  <2>6. QED
    BY <1>3, <2>5 DEF ClientOK
<1>8. QED
  BY <1>4, <1>5, <1>6, <1>7 DEF ServerStep

LEMMA BeginsKeeps ==
    ASSUME ServiceInv, Begins, Held \subseteq Held'
    PROVE  ClientOK'
<1>1. CallOK /\ ProgOK /\ LateOK
  BY DEF ServiceInv, ClientOK
<1>2. prog.pc = "idle" /\ told' = {} /\ late' = late
  BY DEF Begins, StartSubmit, StartWait, StartSave, StartMany, Starts
<1>3. LateOK' /\ told' \subseteq Held'
  BY <1>1, <1>2 DEF LateOK
<1>4. ASSUME NEW h \in Hashes, NEW kind \in {"hash", "proof"}, NEW op \in {"submit", "wait", "save"},
             NEW c \in BOOLEAN, Ask(kind, <<h>>), kind = "hash" <=> op = "submit",
             \/ prog' = [Idle EXCEPT !.pc = "hear", !.op = op, !.list = <<h>>]
             \/ prog' = [Idle EXCEPT !.pc = "hear", !.op = op, !.list = <<h>>, !.confirmed = c]
      PROVE  ProgOK' /\ CallOK'
  <2>1. <<h>> \in Seq(Hashes) /\ <<h>> \in Seq(Items) /\ Len(<<h>>) = 1
    BY DEF Items
  <2>2. ProgOK' /\ prog'.pc = "hear" /\ prog'.op = op /\ prog'.list = <<h>>
    BY ZenonT(60), <1>4, <2>1, ProgBegins
  <2>3. /\ call' \in Calls /\ call'.kind = kind /\ call'.items = <<h>>
        /\ call'.answer.status = "none" /\ Answering(call'.answer.results, <<h>>, Held')
    BY <1>4, <2>1, Asked DEF Ask
  <2>4. CallOK'
    BY <1>4, <2>1, <2>2, <2>3 DEF CallOK
  <2>5. QED
    BY <2>2, <2>4
<1>6. ASSUME NEW h \in Hashes, StartSubmit(h) PROVE ProgOK' /\ CallOK'
  <2>1. prog' = [Idle EXCEPT !.pc = "hear", !.op = "submit", !.list = <<h>>]
    BY <1>6 DEF StartSubmit, Starts
  <2>2. QED
    BY <1>4, <1>6, <2>1 DEF StartSubmit
<1>7. ASSUME NEW h \in Hashes, StartSave(h) PROVE ProgOK' /\ CallOK'
  <2>1. prog' = [Idle EXCEPT !.pc = "hear", !.op = "save", !.list = <<h>>]
    BY <1>7 DEF StartSave, Starts
  <2>2. QED
    BY <1>4, <1>7, <2>1 DEF StartSave
<1>8. ASSUME NEW h \in Hashes, NEW c \in BOOLEAN, StartWait(h, c) PROVE ProgOK' /\ CallOK'
  BY <1>4, <1>8 DEF StartWait, Starts
<1>9. ASSUME NEW list \in Lists, StartMany(list) PROVE ProgOK' /\ CallOK'
  <2>1. list \in Seq(Items)
    BY ListAssumption DEF Items
  <2>2. prog' = [Idle EXCEPT !.pc = "chunk", !.op = "many", !.list = list]
    BY <1>9 DEF StartMany, Starts
  <2>3. ProgOK' /\ prog'.pc = "chunk"
    BY <2>1, <2>2, ProgBegins
  <2>4. UNCHANGED call
    BY <1>9 DEF StartMany
  <2>5. CallOK'
    BY <1>1, <1>2, <2>3, <2>4, CallSilent DEF Waits
  <2>6. QED
    BY <2>3, <2>5
<1>10. ProgOK' /\ CallOK'
  BY <1>6, <1>7, <1>8, <1>9 DEF Begins
<1>11. QED
  BY <1>3, <1>10 DEF ClientOK

\* A hash alone has its result next, whether the server answered or not.
LEMMA OneDone ==
    ASSUME ProgOK, CallOK, prog.pc = "one", Held' = Held, Hear,
           NEW r, ResultOK(r, call.items[1], Held), call.kind = "hash",
           prog' = [prog EXCEPT !.pc = "single", !.got = Append(@, r)]
    PROVE  ProgOK' /\ CallOK'
<1>1. PICK got \in Seq(Results) : got = prog.got
  BY DEF ProgOK, Progs
<1>2. PICK v \in Seq(Hashes) : v = Valid
  <2>1. prog.list \in Seq(Items) /\ prog.at \in Nat \ {0}
    BY DEF ProgOK, Progs, Items
  <2>2. QED
    BY <2>1, ValidIs, ValidSays
<1>3. Len(got) < Len(v) /\ call.items = <<v[Len(got) + 1]>>
  BY <1>1, <1>2 DEF CallOK
<1>4. ResultOK(r, v[Len(got) + 1], Held)
  BY <1>3
<1>5. Append(got, r) \in Seq(Results) /\ Answering(Append(got, r), v, Held)
  BY <1>1, <1>2, <1>3, <1>4, AnsweringNext DEF ProgOK
<1>6. PICK more \in Seq(Results) : more = Append(got, r)
  BY <1>5
<1>7. prog' = [prog EXCEPT !.pc = "single", !.got = more]
  BY <1>1, <1>6
<1>8. prog' \in Progs /\ prog'.pc = "single" /\ prog'.got = more /\ SameList
  BY <1>7 DEF ProgOK, Progs, SameList
<1>9. Valid' = v
  BY <1>2, <1>8, ValidIs DEF SameList
<1>10. ProgOK'
  BY <1>5, <1>6, <1>8, <1>9 DEF ProgOK, SameList
<1>11. CallOK'
  BY <1>8, CallHeard DEF Waits
<1>12. QED
  BY <1>10, <1>11

LEMMA SubmitKeeps ==
    ASSUME ServiceInv, SubmitStep
    PROVE  ClientOK'
<1>1. CallOK /\ ProgOK /\ LateOK /\ told \subseteq Held
  BY DEF ServiceInv, ClientOK
<1>2. UNCHANGED <<notaryVars, late>>
  BY DEF SubmitStep, SubmitHears, ManyAsks, ManySkips, ManyHears, SingleAsks, SingleHears,
         SingleEnds, ManyReturns, Local
<1>3. Held' = Held /\ LateOK'
  BY <1>1, <1>2 DEF notaryVars, Held, LateOK
<1>p. prog \in Progs /\ prog.list \in Seq(Items) /\ prog.at \in Nat \ {0} /\ prog.got \in Seq(Results)
  BY <1>1 DEF ProgOK, Progs, Items
<1>v. Valid \in Seq(Hashes)
  BY <1>p, ValidIs, ValidSays
<1>c. call \in Calls /\ call.items \in Seq(Hashes) /\ call.answer.results \in Seq(Results)
  BY <1>1 DEF CallOK, Calls, Answers
<1>t. UNCHANGED told => told' \subseteq Held'
  BY <1>1, <1>3
<1>4. CASE SubmitHears
  <2>1. ProgOK' /\ prog'.pc = "idle"
    BY <1>4, ProgEnds DEF SubmitHears
  <2>2. CallOK'
    BY <1>4, <2>1, CallHeard DEF SubmitHears, Waits
  <2>3. AcceptedOf(call.answer.results) \subseteq Held
    BY <1>1, <1>c, AcceptedIn DEF CallOK
  <2>4. told' \subseteq Held'
    BY <1>1, <1>3, <1>4, <2>3 DEF SubmitHears
  <2>5. QED
    BY <1>3, <2>1, <2>2, <2>4 DEF ClientOK
<1>5. CASE ManyAsks
  <2>1. prog.pc = "chunk" /\ prog' = [prog EXCEPT !.pc = "many"] /\ Ask("hashes", Valid) /\ UNCHANGED told
    BY <1>5 DEF ManyAsks
  <2>2. prog' \in Progs /\ prog'.pc = "many" /\ prog'.got = prog.got /\ SameList
    BY <1>p, <2>1, PcMoves
  <2>3. ProgOK' /\ Valid' = Valid
    BY <1>1, <1>3, <2>1, <2>2, ProgMoves DEF SameList, Polls, InChunk
  <2>4. /\ call' \in Calls /\ call'.kind = "hashes" /\ call'.items = Valid
        /\ call'.answer.status = "none" /\ Answering(call'.answer.results, Valid, Held')
    BY <1>v, <2>1, Asked DEF Ask
  <2>5. CallOK'
    BY <2>2, <2>3, <2>4 DEF CallOK
  <2>6. QED
    BY <1>3, <1>t, <2>1, <2>3, <2>5 DEF ClientOK
<1>6. ASSUME NEW got \in Seq(Results), NextChunk(got), Answering(got, Valid, Held),
             Len(got) = Len(Valid), prog.pc \in {"chunk", "many", "single"},
             Hear \/ (UNCHANGED call /\ prog.pc # "many")
      PROVE  ClientOK'
  <2>1. /\ ProgOK' /\ told' \subseteq Held'
        /\ prog'.pc \in {"returned", "chunk"}
    BY <1>1, <1>3, <1>6, ChunkDone
  <2>2. CallOK'
    BY <1>1, <1>3, <1>6, <2>1, CallHeard, CallSilent DEF Waits
  <2>3. QED
    BY <1>3, <2>1, <2>2 DEF ClientOK
<1>7. CASE ManySkips
  <2>v. Valid = <<>>
    BY <1>7 DEF ManySkips
  <2>r. <<>> \in Seq(Results)
    OBVIOUS
  <2>1. Len(<<>>) = Len(Valid) /\ Answering(<<>>, Valid, Held)
    BY <1>v, <2>v, AnsweringNone
  <2>2. QED
    BY <1>6, <1>7, <2>r, <2>1 DEF ManySkips
<1>8. CASE ManyHears
  <2>1. prog.pc = "many" /\ call.kind = "hashes" /\ call.answer.status # "none" /\ Hear
    BY <1>8 DEF ManyHears, Answered
  <2>2. call.items = Valid /\ call.answer.status \in {"ok", "error", "noroute"}
    BY <1>1, <1>c, <2>1 DEF CallOK, Calls, Answers
  <2>3. CASE call.answer.status = "ok"
    <3>1. PICK got \in Seq(Results) : got = call.answer.results
      BY <1>c
    <3>2. NextChunk(got)
      BY <1>8, <2>3, <3>1 DEF ManyHears
    <3>3. Len(got) = Len(Valid) /\ Answering(got, Valid, Held)
      <4>1. /\ Len(call.answer.results) = Len(call.items)
            /\ Answering(call.answer.results, call.items, Held)
        BY <1>1, <2>3 DEF CallOK
      <4>2. QED
        BY <2>2, <3>1, <4>1
    <3>4. QED
      BY <1>6, <2>1, <3>2, <3>3
  <2>4. CASE call.answer.status = "error"
    <3>1. prog' = Idle /\ UNCHANGED told
      BY <1>8, <2>4 DEF ManyHears, Throw
    <3>2. ProgOK' /\ prog'.pc = "idle"
      BY <3>1, ProgEnds
    <3>3. QED
      BY <1>3, <1>t, <2>1, <3>1, <3>2, CallHeard DEF ClientOK, Waits
  <2>5. CASE call.answer.status = "noroute"
    <3>1. prog' = [prog EXCEPT !.pc = "single"] /\ UNCHANGED told
      BY <1>8, <2>5 DEF ManyHears
    <3>2. prog' \in Progs /\ prog'.pc = "single" /\ prog'.got = prog.got /\ SameList
      BY <1>p, <3>1, PcMoves
    <3>3. ProgOK'
      BY <1>1, <1>3, <2>1, <3>2, ProgMoves DEF SameList, Polls, InChunk
    <3>4. CallOK'
      BY <2>1, <3>2, CallHeard DEF Waits
    <3>5. QED
      BY <1>3, <1>t, <3>1, <3>3, <3>4 DEF ClientOK
  <2>6. QED
    BY <2>2, <2>3, <2>4, <2>5
<1>9. CASE SingleAsks
  <2>1. PICK k : k = Len(prog.got) + 1
    OBVIOUS
  <2>2. /\ prog.pc = "single" /\ Len(prog.got) < Len(Valid) /\ Ask("hash", <<Valid[k]>>)
        /\ prog' = [prog EXCEPT !.pc = "one"] /\ UNCHANGED told
    BY <1>9, <2>1 DEF SingleAsks
  <2>3. k \in 1..Len(Valid)
    BY <1>p, <1>v, <2>1, <2>2
  <2>4. PICK h \in Hashes : h = Valid[k]
    BY <1>v, <2>3
  <2>5. <<h>> \in Seq(Hashes) /\ Len(<<h>>) = 1
    OBVIOUS
  <2>6. prog' \in Progs /\ prog'.pc = "one" /\ prog'.got = prog.got /\ SameList
    BY <1>p, <2>2, PcMoves
  <2>7. ProgOK' /\ Valid' = Valid
    BY <1>1, <1>3, <2>2, <2>6, ProgMoves DEF SameList, Polls, InChunk
  <2>8. /\ call' \in Calls /\ call'.kind = "hash" /\ call'.items = <<h>>
        /\ call'.answer.status = "none" /\ Answering(call'.answer.results, <<h>>, Held')
    BY <2>2, <2>4, <2>5, Asked DEF Ask
  <2>9. CallOK'
    BY <2>1, <2>2, <2>4, <2>5, <2>6, <2>7, <2>8 DEF CallOK
  <2>10. QED
    BY <1>3, <1>t, <2>2, <2>7, <2>9 DEF ClientOK
<1>10. CASE SingleHears
  <2>1. /\ prog.pc = "one" /\ call.kind = "hash" /\ Hear /\ UNCHANGED told
    BY <1>10 DEF SingleHears, Answered, Keep
  <2>2. PICK h \in Hashes : h = call.items[1]
    BY <1>1, <1>c, <2>1 DEF CallOK
  <2>3. PICK r : r = IF call.answer.status = "ok" THEN call.answer.results[1]
                     ELSE Result(call.items[1], "failed")
    OBVIOUS
  <2>4. ResultOK(r, h, Held)
    <3>1. CASE call.answer.status = "ok"
      <4>1. Len(call.answer.results) = 1 /\ Answering(call.answer.results, call.items, Held)
        BY <1>1, <2>1, <3>1 DEF CallOK
      <4>2. QED
        BY <2>2, <2>3, <3>1, <4>1 DEF Answering
    <3>2. CASE call.answer.status # "ok"
      <4>1. PICK x : x = [item |-> h, out |-> "failed"]
        OBVIOUS
      <4>2. x \in Results /\ x.item = h /\ x.out = "failed" /\ r = x
        BY <2>2, <2>3, <3>2, <4>1 DEF Results, Result
      <4>3. QED
        BY <4>2 DEF ResultOK, Accepted
    <3>3. QED
      BY <3>1, <3>2
  <2>5. prog' = [prog EXCEPT !.pc = "single", !.got = Append(@, r)]
    BY <1>10, <2>3 DEF SingleHears, Keep
  <2>6. ProgOK' /\ CallOK'
    BY <1>1, <1>3, <2>1, <2>2, <2>4, <2>5, OneDone
  <2>7. QED
    BY <1>3, <1>t, <2>1, <2>6 DEF ClientOK
<1>11. CASE SingleEnds
  <2>1. Answering(prog.got, Valid, Held)
    BY <1>1 DEF ProgOK
  <2>2. QED
    BY <1>6, <1>p, <1>11, <2>1 DEF SingleEnds
<1>12. CASE ManyReturns
  <2>1. prog.pc = "returned" /\ prog' = Idle /\ UNCHANGED <<call, told>>
    BY <1>12 DEF ManyReturns
  <2>2. ProgOK' /\ prog'.pc = "idle"
    BY <2>1, ProgEnds
  <2>3. CallOK'
    BY <1>1, <1>3, <2>1, <2>2, CallSilent DEF Waits
  <2>4. QED
    BY <1>3, <1>t, <2>1, <2>2, <2>3 DEF ClientOK
<1>13. QED
  BY <1>4, <1>5, <1>7, <1>8, <1>9, <1>10, <1>11, <1>12 DEF SubmitStep

LEMMA ProofKeeps ==
    ASSUME ServiceInv, ProofStep
    PROVE  ClientOK'
<1>1. CallOK /\ ProgOK /\ LateOK /\ told \subseteq Held
  BY DEF ServiceInv, ClientOK
<1>2. UNCHANGED <<notaryVars, late>>
  BY DEF ProofStep, WaitHears, SaveHears, WaitVerifies, SaveVerifies, VerifyFails, Wakes, Local
<1>3. Held' = Held /\ LateOK'
  BY <1>1, <1>2 DEF notaryVars, Held, LateOK
<1>p. prog \in Progs /\ prog.tx \in Txs \cup {NoTx, None}
  BY <1>1 DEF ProgOK, Progs
<1>c. /\ call.answer.tx \in Txs \cup {NoTx, None}
      /\ call.answer.status \in {"none", "ok", "noroute", "error", "unknown", "pending", "anchored"}
  BY <1>1 DEF CallOK, Calls, Answers
<1>4. \* The operation is over, or goes on after what it heard or saw.
      ASSUME prog.pc \in Polls, prog.op \in {"wait", "save"}, UNCHANGED told,
             \/ prog' = Idle
             \/ prog' = [prog EXCEPT !.pc = "sleep"]
             \/ prog' = [prog EXCEPT !.pc = "verify", !.tx = call.answer.tx],
             Hear \/ (UNCHANGED call /\ prog.pc # "hear")
      PROVE  ClientOK'
  <2>1. ProgOK' /\ prog'.pc \in {"idle", "sleep", "verify"}
    <3>1. CASE prog' = Idle
      BY <3>1, ProgEnds
    <3>2. CASE prog' = [prog EXCEPT !.pc = "sleep"]
      <4>1. prog' \in Progs /\ prog'.pc = "sleep" /\ prog'.got = prog.got /\ SameList
        BY <1>p, <3>2, PcMoves
      <4>2. QED
        BY <1>1, <1>3, <1>4, <4>1, ProgMoves DEF SameList, Polls, InChunk
    <3>3. CASE prog' = [prog EXCEPT !.pc = "verify", !.tx = call.answer.tx]
      <4>1. PICK tx \in Txs \cup {NoTx, None} : prog' = [prog EXCEPT !.pc = "verify", !.tx = tx]
        BY <1>c, <3>3
      <4>2. prog' \in Progs /\ prog'.pc = "verify" /\ prog'.got = prog.got /\ SameList
        BY <1>p, <4>1, PcMoves
      <4>3. QED
        BY <1>1, <1>3, <1>4, <4>2, ProgMoves DEF SameList, Polls, InChunk
    <3>4. QED
      BY <1>4, <3>1, <3>2, <3>3
  <2>2. CallOK'
    BY <1>1, <1>3, <1>4, <2>1, CallHeard, CallSilent DEF Waits, Polls
  <2>3. told' \subseteq Held'
    BY <1>1, <1>3, <1>4
  <2>4. QED
    BY <1>3, <2>1, <2>2, <2>3 DEF ClientOK
<1>5. CASE WaitHears
  <2>1. /\ prog.pc \in Polls /\ prog.op = "wait" /\ Hear /\ call.kind = "proof" /\ call.answer.status # "none"
    BY <1>5 DEF WaitHears, Answered, Polls
  <2>2. call.answer.status \in {"unknown", "error", "pending", "anchored"}
    BY <1>1, <1>c, <2>1 DEF CallOK
  <2>3. /\ UNCHANGED told
        /\ \/ prog' = Idle
           \/ prog' = [prog EXCEPT !.pc = "sleep"]
           \/ prog' = [prog EXCEPT !.pc = "verify", !.tx = call.answer.tx]
    BY <1>5, <2>2 DEF WaitHears, Throw, Deadline, Got
  <2>4. QED
    BY <1>4, <2>1, <2>3
<1>6. CASE SaveHears
  <2>1. /\ UNCHANGED told /\ prog.pc \in Polls /\ prog.op = "save" /\ Hear
        /\ \/ prog' = Idle
           \/ prog' = [prog EXCEPT !.pc = "verify", !.tx = call.answer.tx]
    BY <1>6 DEF SaveHears, Throw, Got, Polls
  <2>2. QED
    BY <1>4, <2>1
<1>7. CASE WaitVerifies \/ SaveVerifies \/ VerifyFails
  <2>1. /\ UNCHANGED <<told, call>> /\ prog.pc = "verify"
        /\ \/ prog' = Idle
           \/ prog' = [prog EXCEPT !.pc = "sleep"]
    BY <1>7 DEF WaitVerifies, SaveVerifies, VerifyFails, Throw, Deadline, Got
  <2>2. prog.op \in {"wait", "save"}
    BY <1>1, <2>1 DEF ProgOK
  <2>3. QED
    BY <1>4, <2>1, <2>2 DEF Polls
<1>8. CASE Wakes
  <2>1. /\ prog.pc = "sleep" /\ prog' = [prog EXCEPT !.pc = "hear"] /\ UNCHANGED told
        /\ Ask("proof", prog.list)
    BY <1>8 DEF Wakes
  <2>2. prog' \in Progs /\ prog'.pc = "hear" /\ prog'.got = prog.got /\ SameList
    BY <1>p, <2>1, PcMoves
  <2>3. ProgOK'
    BY <1>1, <1>3, <2>1, <2>2, ProgMoves DEF SameList, Polls, InChunk
  <2>4. PICK list \in Seq(Hashes) : list = prog.list /\ Len(list) = 1
    BY <1>1, <2>1 DEF ProgOK
  <2>5. /\ call' \in Calls /\ call'.kind = "proof" /\ call'.items = list
        /\ call'.answer.status = "none" /\ Answering(call'.answer.results, list, Held')
    BY <2>1, <2>4, Asked DEF Ask
  <2>6. prog.op \in {"wait", "save"}
    BY <1>1, <2>1 DEF ProgOK
  <2>7. CallOK'
    BY <2>2, <2>4, <2>5, <2>6 DEF CallOK, SameList
  <2>8. told' \subseteq Held'
    BY <1>1, <1>3, <2>1
  <2>9. QED
    BY <1>3, <2>3, <2>7, <2>8 DEF ClientOK
<1>9. QED
  BY <1>5, <1>6, <1>7, <1>8 DEF ProofStep

LEMMA TimeKeeps ==
    ASSUME ServiceInv, TimePasses \/ TimesOut
    PROVE  ClientOK'
<1>1. CallOK /\ ProgOK /\ LateOK /\ told \subseteq Held
  BY DEF ServiceInv, ClientOK
<1>2. UNCHANGED notaryVars
  BY DEF TimePasses, TimesOut, Local
<1>3. Held' = Held
  BY <1>2 DEF notaryVars, Held
<1>p. prog \in Progs
  BY <1>1 DEF ProgOK
<1>c. call \in Calls /\ call.items \in Seq(Hashes)
  BY <1>1 DEF CallOK, Calls
<1>4. CASE TimePasses
  <2>1. prog' = [prog EXCEPT !.expired = TRUE] /\ UNCHANGED <<call, told, late>>
    BY <1>4 DEF TimePasses, Local
  <2>2. prog' \in Progs /\ prog'.pc = prog.pc /\ prog'.got = prog.got /\ SameList
    BY <1>p, <2>1 DEF Progs, SameList
  <2>3. ProgOK' /\ Valid' = Valid
    <3>1. prog.pc \in {"sleep", "verify"} => prog.op \in {"wait", "save"}
      BY <1>1 DEF ProgOK
    <3>2. QED
      BY <1>1, <1>3, <2>2, <3>1, ProgMoves DEF SameList
  <2>4. CallOK'
    BY <1>1, <1>3, <2>1, <2>2, <2>3 DEF CallOK, SameList
  <2>5. QED
    BY <1>1, <1>3, <2>1, <2>3, <2>4 DEF ClientOK, LateOK
<1>5. CASE TimesOut
  <2>1. /\ call.kind # "none" /\ Hear /\ UNCHANGED told
        /\ late' = late \/ (late' = {call} /\ call.kind \in {"hash", "hashes"})
    BY <1>5 DEF TimesOut, Keep, Throw
  <2>2. LateOK'
    BY <1>1, <1>c, <2>1 DEF LateOK
  <2>3. ProgOK' /\ CallOK'
    <3>1. CASE prog.pc = "one"
      <4>1. prog' = [prog EXCEPT !.pc = "single", !.got = Append(@, Result(call.items[1], "failed"))]
        BY <1>5, <3>1 DEF TimesOut, Keep
      <4>2. call.kind = "hash" /\ call.items[1] \in Hashes
        BY <1>1, <1>c, <2>1, <3>1 DEF CallOK, Calls
      <4>3. PICK r : r = Result(call.items[1], "failed")
        OBVIOUS
      <4>4. ResultOK(r, call.items[1], Held)
        <5>1. r \in Results /\ r.item = call.items[1] /\ r.out = "failed"
          BY <4>2, <4>3 DEF Result, Results
        <5>2. QED
          BY <5>1 DEF ResultOK, Accepted
      <4>5. QED
        BY <1>1, <1>3, <2>1, <3>1, <4>1, <4>2, <4>3, <4>4, OneDone
    <3>2. CASE prog.pc # "one"
      <4>1. prog' = Idle
        BY <1>5, <3>2 DEF TimesOut, Throw
      <4>2. ProgOK' /\ prog'.pc = "idle"
        BY <4>1, ProgEnds
      <4>3. QED
        BY <2>1, <4>2, CallHeard DEF Waits
    <3>3. QED
      BY <3>1, <3>2
  <2>4. QED
    BY <1>1, <1>3, <2>1, <2>2, <2>3 DEF ClientOK
<1>6. QED
  BY <1>4, <1>5

-----------------------------------------------------------------------------
(* The theorems.                                                           *)

LEMMA ServiceStarts == Init => ServiceInv
<1> SUFFICES ASSUME Init PROVE ServiceInv
  OBVIOUS
<1> USE LimitAssumption
<1>1. /\ queue = {} /\ txOf = [h \in Hashes |-> NoTx] /\ sent = {} /\ mined = {}
      /\ hits = [i \in Ips |-> 0] /\ tracked = {} /\ taken = [i \in Ips |-> 0]
      /\ prog = Idle /\ call = NoCall /\ late = {} /\ told = {} /\ file = NoFile
  BY DEF Init, NotaryInit
<1>2. SignedTxs = {}
  BY <1>1 DEF SignedTxs
<1>3. BatchesOK
  BY <1>1, <1>2, FS_EmptySet DEF BatchesOK
<1>4. LimitsOK
  BY <1>1 DEF LimitsOK
<1>5. FileOK
  BY <1>1 DEF FileOK, NoFile
<1>a. AnswerOK
  BY <1>1 DEF AnswerOK, NoCall, Reports, Answer
<1>6. ProgOK
  <2>1. /\ prog \in Progs /\ prog.at = 1 /\ prog.got = <<>> /\ prog.results = <<>>
        /\ prog.pc = "idle"
    BY <1>1, IdleSays
  <2>2. prog.list \in Seq(Items) /\ prog.at \in Nat \ {0}
    BY <2>1 DEF Progs, Items
  <2>3. Valid \in Seq(Hashes)
    BY <2>2, ValidIs, ValidSays
  <2>4. Answering(<<>>, prog.list, Held) /\ Answering(<<>>, Valid, Held)
    BY <2>2, <2>3, AnsweringNone
  <2>5. QED
    BY <2>1, <2>4 DEF ProgOK
<1>7. CallOK
  <2>1. <<>> \in Seq(Hashes)
    OBVIOUS
  <2>2. Answering(<<>>, <<>>, Held)
    BY <2>1, AnsweringNone
  <2>3. prog.pc = "idle"
    BY <1>1, IdleSays
  <2>4. QED
    BY <1>1, <2>2, <2>3, NoCallSays DEF CallOK
<1>8. QED
  BY <1>1, <1>3, <1>4, <1>5, <1>a, <1>6, <1>7 DEF ServiceInv, ClientOK, LateOK

LEMMA ServiceSteps == ServiceInv /\ [Next]_vars => ServiceInv'
<1> SUFFICES ASSUME ServiceInv, [Next]_vars PROVE ServiceInv'
  OBVIOUS
<1>1. BatchesOK' /\ LimitsOK' /\ Held \subseteq Held'
  BY ServerKeeps
<1>2. FileOK' /\ AnswerOK'
  BY FileKeeps, AnswerKeeps
<1>3. ClientOK'
  <2>0. CallOK /\ ProgOK /\ LateOK /\ told \subseteq Held
    BY DEF ServiceInv, ClientOK
  <2>1. ASSUME UNCHANGED <<prog, call, told>>, late' \subseteq late PROVE ClientOK'
    BY <1>1, <2>0, <2>1, ProgStays, CallStays DEF ClientOK, LateOK
  <2>2. CASE Begins
    BY <1>1, <2>2, BeginsKeeps
  <2>3. CASE ServerStep
    BY <1>1, <2>3, ServerAnswers
  <2>4. CASE SubmitStep
    BY <2>4, SubmitKeeps
  <2>5. CASE ProofStep
    BY <2>5, ProofKeeps
  <2>6. CASE TimePasses \/ TimesOut
    BY <2>6, TimeKeeps
  <2>7. CASE \E c \in late : LateHandled(c)
    BY <2>1, <2>7 DEF LateHandled, ourVars
  <2>8. CASE WorldStep
    BY <2>1, <2>8 DEF WorldStep, AdminAdds, OthersSubmit, WindowEnds, NotarySettles, BlockFound,
                      Outside, ourVars
  <2>9. CASE UNCHANGED vars
    BY <2>1, <2>9 DEF vars, ourVars
  <2>10. QED
    BY <2>2, <2>3, <2>4, <2>5, <2>6, <2>7, <2>8, <2>9 DEF Next
<1>4. QED
  BY <1>1, <1>2, <1>3 DEF ServiceInv

LEMMA ServiceInvariance == Spec => []ServiceInv
  BY ServiceStarts, ServiceSteps, PTL DEF Spec

\* The state of the server, of the program and of its request is of the
\* form the code gives it, and a program has a request exactly while it waits
\* for one (TypeOK).
THEOREM TypeCorrect == Spec => []TypeOK
<1>1. ServiceInv => TypeOK
  <2> SUFFICES ASSUME ServiceInv PROVE TypeOK
    OBVIOUS
  <2>1. BatchesOK /\ LimitsOK /\ CallOK /\ ProgOK /\ LateOK /\ told \subseteq Held
    BY DEF ServiceInv, ClientOK
  <2>2. /\ queue \subseteq Hashes /\ mined \subseteq sent /\ sent \subseteq Txs
        /\ txOf \in [Hashes -> Txs \cup {NoTx}]
    BY <2>1 DEF BatchesOK
  <2>3. /\ hits \in [Ips -> 0..(Rate + 1)] /\ tracked \subseteq Ips
        /\ \A ip \in Ips : taken[ip] <= hits[ip]
    BY <2>1 DEF LimitsOK
  <2>4. \A k \in DOMAIN prog.results : prog.results[k] \in Results
    BY <2>1 DEF ProgOK, Progs
  <2>5. (call.kind # "none") = (prog.pc \in {"hear", "many", "one"})
    BY <2>1 DEF CallOK, Calls
  <2>6. told \subseteq Hashes /\ late \in SUBSET {c \in late : c.kind # "proof"}
    BY <2>1, <2>2 DEF Held, LateOK
  <2>7. QED
    BY <2>2, <2>3, <2>4, <2>5, <2>6 DEF TypeOK
<1>2. QED
  BY <1>1, ServiceInvariance, PTL

\* No address queues more new hashes in a minute than rateLimited allows,
\* however the routes that take one hash and those that take many are mixed,
\* as long as the map of addresses is not emptied (RateKept).
THEOREM RateIsKept == Spec => []RateKept
<1>1. ServiceInv => RateKept
  BY DEF ServiceInv, LimitsOK, RateKept
<1>2. QED
  BY <1>1, ServiceInvariance, PTL

\* submitMany gives every item its result in its place, for every list, every
\* size of a request, every mix of invalid items and every older server that
\* takes the hashes one by one (SlotsMatch).
THEOREM SlotsAreRight == Spec => []SlotsMatch
<1>1. ServiceInv => SlotsMatch
  <2> SUFFICES ASSUME ServiceInv PROVE SlotsMatch
    OBVIOUS
  <2>1. ProgOK
    BY DEF ServiceInv, ClientOK
  <2>2. PICK r \in Seq(Results) : r = prog.results
    BY <2>1 DEF ProgOK, Progs
  <2>3. \A k \in 1..Len(r) : r[k].item = prog.list[k]
    BY <2>1, <2>2 DEF ProgOK, Answering, ResultOK
  <2>4. DOMAIN r = 1..Len(r)
    OBVIOUS
  <2>5. QED
    BY <2>1, <2>2, <2>3, <2>4 DEF SlotsMatch, ProgOK
<1>2. QED
  BY <1>1, ServiceInvariance, PTL

\* What a program was told is accepted is queued or in a batch from then on,
\* also when the answer came late, the request was one of many, or the node
\* rejected the transaction and the hashes wait again (AcceptedIsHeld).
THEOREM AcceptedAreHeld == Spec => []AcceptedIsHeld
<1>1. ServiceInv => AcceptedIsHeld
  BY DEF ServiceInv, ClientOK, AcceptedIsHeld
<1>2. QED
  BY <1>1, ServiceInvariance, PTL

\* A proof with a block that the client read from the chain, or that this server
\* stored, is of a transaction in that block, which the server gives for the hash
\* ever after: no settlement gives a hash of a sent transaction another one.  It
\* holds whatever records a server of other code answers (BlockIsReal).
THEOREM BlocksAreReal == Spec => []BlockIsReal
<1>1. ServiceInv => BlockIsReal
  <2> SUFFICES ASSUME ServiceInv, file.block \in {"chain", "stored"}
               PROVE  file.tx \in mined /\ txOf[file.hash] = file.tx
    BY DEF BlockIsReal
  <2>1. file.tx \in sent /\ file.tx \in mined /\ file.hash \in file.tx.leaves
    BY DEF ServiceInv, FileOK, BatchesOK
  <2>2. QED
    BY <2>1 DEF ServiceInv, BatchesOK
<1>2. QED
  BY <1>1, ServiceInvariance, PTL

\* A request that is limited never leaves the queue longer than MAX_PENDING
\* by what it added, whatever came from those who pass no limit
\* (FreeQueueBounded).
THEOREM QueueStaysBounded == Spec => FreeQueueBounded
<1>1. ServiceInv /\ [Next]_vars =>
         [queue \subseteq queue' /\ queue # queue' /\ <<hits, tracked>>' # <<hits, tracked>>
            => Cardinality(queue') <= MaxPending]_vars
  <2> SUFFICES ASSUME ServiceInv, Next, queue # queue', <<hits, tracked>>' # <<hits, tracked>>
               PROVE  Cardinality(queue') <= MaxPending
    BY Zenon
  <2>1. ASSUME NEW hs \in Seq(Hashes), NEW ip \in Ips, Becomes(QueueAll(hs, ip))
        PROVE  Cardinality(queue') <= MaxPending
    BY <2>1, BecomesKeeps DEF ServiceInv
  <2>2. \E hs \in Seq(Hashes), ip \in Ips : Becomes(QueueAll(hs, ip))
    BY Shapes DEF notaryVars, limitVars, WindowEnds, NotarySettles, BlockFound
  <2>3. QED
    BY <2>1, <2>2
<1>2. QED
  BY <1>1, ServiceInvariance, PTL DEF Spec, FreeQueueBounded
=============================================================================
