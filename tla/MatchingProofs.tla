---------------------------- MODULE MatchingProofs ----------------------------
(* Proofs about matching. The two matchers: the union-find structure keeps the
   partition it stands for, and what the matchers report agrees with it.
   Induction over data is replaced by the least element of a set of naturals.
   Then the desk where the candidates they leave are reviewed.               *)
EXTENDS Matching, MatchReview, WellFoundedInduction, FiniteSetTheorems, FunctionTheorems, TLAPS

-----------------------------------------------------------------------------
(* Naturals *)

\* Well-founded relations on naturals have minimal elements.
LEMMA MinimalElement ==
    ASSUME NEW S, S \subseteq Nat, S # {}, NEW R, IsWellFoundedOn(R, Nat)
    PROVE  \E m \in S : \A n \in S : ~(<<n, m>> \in R)
  BY WFMin, Zenon

\* Every set of naturals has a least element: what replaces induction here.
LEMMA LeastNat ==
    ASSUME NEW S, S \subseteq Nat, S # {}
    PROVE  \E m \in S : \A n \in S : m <= n
  <1>1. \E R : IsWellFoundedOn(R, Nat) /\ \A n, m \in Nat : n < m => <<n, m>> \in R
    <2>1. \A n, m \in Nat : n < m => <<n, m>> \in OpToRel(<, Nat)
      BY DEF OpToRel
    <2> QED
      BY <2>1, NatLessThanWellFounded
  <1>2. PICK R : IsWellFoundedOn(R, Nat) /\ \A n, m \in Nat : n < m => <<n, m>> \in R
    BY <1>1
  <1>3. PICK m \in S : \A n \in S : ~(<<n, m>> \in R)
    <2>1. IsWellFoundedOn(R, Nat)
      BY <1>2
    <2> QED
      BY <2>1, MinimalElement
  <1>4. \A n \in S : n \in Nat /\ m \in Nat /\ ~(n < m)
    BY <1>2, <1>3
  <1>5. \A n \in S : m <= n
    BY <1>4
  <1> QED
    BY <1>5

-----------------------------------------------------------------------------
(* Union-find *)

\* Parents are never later keys: union hangs the later root below the earlier.
Forest(p) ==
    /\ DOMAIN p \subseteq Nat
    /\ p \in [DOMAIN p -> DOMAIN p]
    /\ \A k \in DOMAIN p : p[k] <= k

\* The keys on the way up from a key, without recursion.
Above(p, k) ==
    {j \in DOMAIN p : \A C \in SUBSET DOMAIN p :
        (k \in C /\ \A c \in C : p[c] \in C) => j \in C}

RootFcn(p, f) == f = [k \in DOMAIN p |-> IF p[k] = k THEN k ELSE f[p[k]]]
PathFcn(p, f) == f = [k \in DOMAIN p |-> IF p[k] = k THEN {k} ELSE {k} \cup f[p[k]]]

\* The way up from a key is the key and the way up from its parent.
LEMMA AboveUnfolds ==
    ASSUME NEW p, Forest(p), NEW k \in DOMAIN p
    PROVE  /\ Above(p, k) \subseteq DOMAIN p
           /\ k \in Above(p, k)
           /\ p[k] = k => Above(p, k) = {k}
           /\ p[k] # k => Above(p, k) = {k} \cup Above(p, p[k])
  <1>1. \A j \in DOMAIN p : p[j] \in DOMAIN p
    BY DEF Forest
  <1>2. Above(p, k) \subseteq DOMAIN p /\ k \in Above(p, k)
    BY DEF Above
  <1>3. ASSUME p[k] = k PROVE Above(p, k) = {k}
    <2>1. {k} \in SUBSET DOMAIN p /\ \A c \in {k} : p[c] \in {k}
      BY <1>3
    <2>2. Above(p, k) \subseteq {k}
      BY <2>1 DEF Above
    <2> QED
      BY <1>2, <2>2
  <1>4. ASSUME p[k] # k PROVE Above(p, k) = {k} \cup Above(p, p[k])
    <2> DEFINE C == {k} \cup Above(p, p[k])
    <2>1. C \in SUBSET DOMAIN p
      BY DEF Above
    <2>2. \A j \in Above(p, p[k]) : p[j] \in Above(p, p[k])
      BY <1>1 DEF Above
    <2>3. p[k] \in Above(p, p[k])
      BY <1>1 DEF Above
    <2>4. \A c \in C : p[c] \in C
      BY <2>2, <2>3
    <2>5. Above(p, k) \subseteq C
      <3> HIDE DEF C
      <3>1. k \in C
        BY DEF C
      <3> QED
        BY <2>1, <2>4, <3>1 DEF Above
    <2>6. Above(p, p[k]) \subseteq Above(p, k)
      BY DEF Above
    <2> QED
      BY <1>2, <2>5, <2>6
  <1> QED
    BY <1>2, <1>3, <1>4

\* find ends: the recursive function behind Find exists.
LEMMA RootExists ==
    ASSUME NEW p, Forest(p)
    PROVE  \E f : RootFcn(p, f)
  <1> DEFINE Least(k, m) == m \in Above(p, k) /\ \A n \in Above(p, k) : m <= n
             f == [k \in DOMAIN p |-> CHOOSE m : Least(k, m)]
  <1>1. \A k \in DOMAIN p : Least(k, f[k])
    <2> TAKE k \in DOMAIN p
    <2>1. Above(p, k) \subseteq Nat /\ Above(p, k) # {}
      BY AboveUnfolds DEF Forest
    <2>2. \E m : Least(k, m)
      BY <2>1, LeastNat
    <2> QED
      BY <2>2
  <1>5. f = [k \in DOMAIN p |-> f[k]]
    OBVIOUS
  <1> HIDE DEF f
  <1>2. \A k \in DOMAIN p : Above(p, k) \subseteq Nat
    BY AboveUnfolds DEF Forest
  <1>3. \A k \in DOMAIN p : \A m, n : Least(k, m) /\ Least(k, n) => m = n
    BY <1>2
  <1>4. ASSUME NEW k \in DOMAIN p PROVE f[k] = IF p[k] = k THEN k ELSE f[p[k]]
    <2>1. CASE p[k] = k
      <3>1. Above(p, k) = {k}
        BY <2>1, AboveUnfolds
      <3>2. f[k] \in Above(p, k)
        BY <1>1
      <3> QED
        BY <2>1, <3>1, <3>2
    <2>2. CASE p[k] # k
      <3>1. /\ p[k] \in DOMAIN p /\ p[k] \in Nat /\ k \in Nat /\ p[k] <= k
        BY DEF Forest
      <3>2. Above(p, k) = {k} \cup Above(p, p[k]) /\ p[k] \in Above(p, p[k])
        BY <2>2, <3>1, AboveUnfolds
      <3>3. Least(p[k], f[p[k]])
        BY <1>1, <3>1
      <3>4. f[p[k]] \in Nat /\ f[p[k]] <= p[k]
        BY <1>2, <3>1, <3>2, <3>3
      <3>5. f[p[k]] <= k
        BY <3>1, <3>4
      <3>6. Least(k, f[p[k]])
        BY <3>2, <3>3, <3>5
      <3>7. Least(k, f[k])
        BY <1>1
      <3>8. f[k] = f[p[k]]
        BY <1>3, <3>6, <3>7
      <3> QED
        BY <2>2, <3>8
    <2> QED
      BY <2>1, <2>2
  <1>6. RootFcn(p, f)
    BY <1>4, <1>5 DEF RootFcn
  <1> QED
    BY <1>6

\* The Find of a key is the Find of its parent.
LEMMA FindUnfolds ==
    ASSUME NEW p, Forest(p), NEW k \in DOMAIN p
    PROVE  Find(p, k) = IF p[k] = k THEN k ELSE Find(p, p[k])
  <1> DEFINE r == CHOOSE f : RootFcn(p, f)
  <1>1. RootFcn(p, r)
    BY RootExists
  <1>2. \A j \in DOMAIN p : Find(p, j) = r[j]
    BY DEF Find, RootFcn
  <1> HIDE DEF r
  <1>3. r[k] = IF p[k] = k THEN k ELSE r[p[k]]
    BY <1>1 DEF RootFcn
  <1>4. p[k] \in DOMAIN p
    BY DEF Forest
  <1> QED
    BY <1>2, <1>3, <1>4

\* find returns a root that is not later than the key.
LEMMA FindIsRoot ==
    ASSUME NEW p, Forest(p), NEW k \in DOMAIN p
    PROVE  /\ Find(p, k) \in DOMAIN p /\ Find(p, k) <= k
           /\ p[Find(p, k)] = Find(p, k)
           /\ Find(p, Find(p, k)) = Find(p, k)
  <1> DEFINE Good(j) == /\ Find(p, j) \in DOMAIN p /\ Find(p, j) <= j
                        /\ p[Find(p, j)] = Find(p, j)
             Bad == {j \in DOMAIN p : ~Good(j)}
  <1>1. Bad = {}
    <2> SUFFICES ASSUME Bad # {} PROVE FALSE
      OBVIOUS
    <2>1. Bad \subseteq Nat
      BY DEF Forest
    <2> HIDE DEF Bad
    <2>2. PICK m \in Bad : \A n \in Bad : m <= n
      BY <2>1, LeastNat
    <2> USE DEF Bad
    <2>3. /\ m \in DOMAIN p /\ m \in Nat /\ p[m] \in DOMAIN p /\ p[m] \in Nat
          /\ p[m] <= m
      BY DEF Forest
    <2>4. CASE p[m] = m
      <3>1. Find(p, m) = m
        BY <2>3, <2>4, FindUnfolds
      <3> QED
        BY <2>2, <2>3, <2>4, <3>1
    <2>5. CASE p[m] # m
      <3>1. Find(p, m) = Find(p, p[m])
        BY <2>3, <2>5, FindUnfolds
      <3>2. ~(m <= p[m])
        BY <2>3, <2>5
      <3>3. Good(p[m])
        BY <2>2, <2>3, <3>2
      <3>4. Find(p, p[m]) \in Nat
        BY <3>3 DEF Forest
      <3>5. Good(m)
        BY <2>3, <3>1, <3>3, <3>4
      <3> QED
        BY <2>2, <3>5
    <2> QED
      BY <2>4, <2>5
  <1>2. Good(k)
    BY <1>1
  <1>3. Find(p, Find(p, k)) = Find(p, k)
    BY <1>2, FindUnfolds
  <1> QED
    BY <1>2, <1>3

\* What agrees with the parents all the way up is what find returns.
LEMMA FindUnique ==
    ASSUME NEW p, Forest(p), NEW f,
           \A j \in DOMAIN p : f[j] = IF p[j] = j THEN j ELSE f[p[j]],
           NEW k \in DOMAIN p
    PROVE  Find(p, k) = f[k]
  <1> DEFINE Bad == {j \in DOMAIN p : Find(p, j) # f[j]}
  <1>1. Bad = {}
    <2> SUFFICES ASSUME Bad # {} PROVE FALSE
      OBVIOUS
    <2>1. Bad \subseteq Nat
      BY DEF Forest
    <2> HIDE DEF Bad
    <2>2. PICK m \in Bad : \A n \in Bad : m <= n
      BY <2>1, LeastNat
    <2> USE DEF Bad
    <2>3. /\ m \in DOMAIN p /\ m \in Nat /\ p[m] \in DOMAIN p /\ p[m] \in Nat
          /\ p[m] <= m
      BY DEF Forest
    <2>4. Find(p, m) = IF p[m] = m THEN m ELSE Find(p, p[m])
      BY <2>3, FindUnfolds
    <2>5. p[m] # m
      BY <2>2, <2>3, <2>4
    <2>6. ~(m <= p[m])
      BY <2>3, <2>5
    <2>7. Find(p, p[m]) = f[p[m]]
      BY <2>2, <2>3, <2>6
    <2> QED
      BY <2>2, <2>3, <2>4, <2>5, <2>7
  <1> QED
    BY <1>1

\* The set find compresses is the way up from its key.
LEMMA CompressIs ==
    ASSUME NEW p, Forest(p), NEW key \in DOMAIN p
    PROVE  \E S \in SUBSET DOMAIN p :
               /\ key \in S
               /\ \A j \in S : Find(p, j) = Find(p, key)
               /\ Compress(p, key) =
                    [k \in DOMAIN p |-> IF k \in S THEN Find(p, key) ELSE p[k]]
  <1> DEFINE path == CHOOSE f : PathFcn(p, f)
             a == [k \in DOMAIN p |-> Above(p, k)]
  <1>1. PathFcn(p, path)
    <2>1. \A k \in DOMAIN p : p[k] \in DOMAIN p
      BY DEF Forest
    <2>2. \A k \in DOMAIN p : a[k] = IF p[k] = k THEN {k} ELSE {k} \cup a[p[k]]
      BY <2>1, AboveUnfolds
    <2>3. a = [k \in DOMAIN p |-> a[k]]
      OBVIOUS
    <2> HIDE DEF a
    <2>4. PathFcn(p, a)
      BY <2>2, <2>3 DEF PathFcn
    <2> QED
      BY <2>4
  <1>2. Compress(p, key) =
          [k \in DOMAIN p |-> IF k \in path[key] THEN Find(p, key) ELSE p[k]]
    BY DEF Compress, PathFcn
  <1> HIDE DEF path, a
  <1>3. \A k \in DOMAIN p : path[k] = IF p[k] = k THEN {k} ELSE {k} \cup path[p[k]]
    BY <1>1 DEF PathFcn
  <1> DEFINE Good(k) == path[k] \subseteq DOMAIN p /\ \A j \in path[k] : Find(p, j) = Find(p, k)
             Bad == {k \in DOMAIN p : ~Good(k)}
  <1>4. Bad = {}
    <2> SUFFICES ASSUME Bad # {} PROVE FALSE
      OBVIOUS
    <2>1. Bad \subseteq Nat
      BY DEF Forest
    <2> HIDE DEF Bad
    <2>2. PICK m \in Bad : \A n \in Bad : m <= n
      BY <2>1, LeastNat
    <2> USE DEF Bad
    <2>3. /\ m \in DOMAIN p /\ m \in Nat /\ p[m] \in DOMAIN p /\ p[m] \in Nat
          /\ p[m] <= m
      BY DEF Forest
    <2>4. path[m] = IF p[m] = m THEN {m} ELSE {m} \cup path[p[m]]
      BY <1>3, <2>3
    <2>5. p[m] # m
      BY <2>2, <2>3, <2>4
    <2>6. ~(m <= p[m])
      BY <2>3, <2>5
    <2>7. Good(p[m])
      BY <2>2, <2>3, <2>6
    <2>8. Find(p, m) = Find(p, p[m])
      BY <2>3, <2>5, FindUnfolds
    <2>9. Good(m)
      BY <2>3, <2>4, <2>5, <2>7, <2>8
    <2> QED
      BY <2>2, <2>9
  <1>5. Good(key) /\ key \in path[key]
    BY <1>3, <1>4, ZenonT(60)
  <1> HIDE DEF Bad
  <1>6. path[key] \in SUBSET DOMAIN p
    BY <1>5
  <1> QED
    BY <1>2, <1>5, <1>6

\* Hanging keys directly below their roots moves no key to another root.
LEMMA ShortcutKeeps ==
    ASSUME NEW p, Forest(p), NEW q, DOMAIN q = DOMAIN p,
           q = [k \in DOMAIN p |-> q[k]],
           \A k \in DOMAIN p : q[k] = p[k] \/ q[k] = Find(p, k)
    PROVE  Forest(q) /\ \A k \in DOMAIN p : Find(q, k) = Find(p, k)
  <1>1. \A k \in DOMAIN p : /\ k \in Nat /\ p[k] \in DOMAIN p /\ p[k] \in Nat
                            /\ p[k] <= k
    BY DEF Forest
  <1>2. \A k \in DOMAIN p : /\ Find(p, k) \in DOMAIN p /\ Find(p, k) \in Nat
                            /\ Find(p, k) <= k
                            /\ Find(p, Find(p, k)) = Find(p, k)
    BY <1>1, FindIsRoot
  <1>3. \A k \in DOMAIN p : q[k] \in DOMAIN p /\ q[k] <= k
    BY <1>1, <1>2
  <1>4. Forest(q)
    BY <1>1, <1>3 DEF Forest
  <1> DEFINE f == [k \in DOMAIN p |-> Find(p, k)]
  <1>5. ASSUME NEW k \in DOMAIN p PROVE f[k] = IF q[k] = k THEN k ELSE f[q[k]]
    <2>1. Find(p, k) = IF p[k] = k THEN k ELSE Find(p, p[k])
      BY FindUnfolds
    <2>2. CASE p[k] = k
      BY <2>1, <2>2
    <2>3. CASE p[k] # k
      <3>1. Find(p, k) = Find(p, p[k]) /\ Find(p, p[k]) <= p[k]
        BY <1>1, <1>2, <2>1, <2>3
      <3>2. Find(p, k) # k /\ q[k] # k
        BY <1>1, <1>2, <2>3, <3>1
      <3>3. Find(p, q[k]) = Find(p, k)
        BY <1>2, <3>1
      <3> QED
        BY <1>3, <3>2, <3>3
    <2> QED
      BY <2>2, <2>3
  <1>6. \A k \in DOMAIN q : f[k] = IF q[k] = k THEN k ELSE f[q[k]]
    BY <1>5
  <1>7. \A k \in DOMAIN p : f[k] = Find(p, k)
    OBVIOUS
  <1> HIDE DEF f
  <1>8. \A k \in DOMAIN q : Find(q, k) = f[k]
    BY <1>4, <1>6, FindUnique
  <1> QED
    BY <1>4, <1>7, <1>8

\* find with path compression moves no key to another root, and hangs its key
\* directly below the root.
LEMMA CompressKeeps ==
    ASSUME NEW p, Forest(p), NEW key \in DOMAIN p
    PROVE  /\ Forest(Compress(p, key)) /\ DOMAIN Compress(p, key) = DOMAIN p
           /\ \A k \in DOMAIN p : Find(Compress(p, key), k) = Find(p, k)
           /\ Compress(p, key)[key] = Find(p, key)
           /\ \A k \in DOMAIN p : p[k] = Find(p, k) =>
                  Compress(p, key)[k] = Find(p, k)
  <1>1. PICK S \in SUBSET DOMAIN p :
               /\ key \in S
               /\ \A j \in S : Find(p, j) = Find(p, key)
               /\ Compress(p, key) =
                    [k \in DOMAIN p |-> IF k \in S THEN Find(p, key) ELSE p[k]]
    BY CompressIs
  <1> DEFINE q == Compress(p, key)
  <1>2. /\ DOMAIN q = DOMAIN p /\ q = [k \in DOMAIN p |-> q[k]]
        /\ \A k \in DOMAIN p : q[k] = IF k \in S THEN Find(p, key) ELSE p[k]
    BY <1>1
  <1> HIDE DEF q
  <1>3. \A k \in DOMAIN p : q[k] = p[k] \/ q[k] = Find(p, k)
    BY <1>1, <1>2
  <1>4. Forest(q) /\ \A k \in DOMAIN p : Find(q, k) = Find(p, k)
    BY <1>2, <1>3, ShortcutKeeps
  <1>5. q[key] = Find(p, key)
    BY <1>1, <1>2
  <1>6. \A k \in DOMAIN p : p[k] = Find(p, k) => q[k] = Find(p, k)
    BY <1>3
  <1> QED
    BY <1>2, <1>4, <1>5, <1>6 DEF q

\* So do finds for all keys.
LEMMA CompressAllKeeps ==
    ASSUME NEW p, Forest(p)
    PROVE  /\ Forest(CompressAll(p)) /\ DOMAIN CompressAll(p) = DOMAIN p
           /\ \A k \in DOMAIN p : Find(CompressAll(p), k) = Find(p, k)
  <1> DEFINE q == CompressAll(p)
  <1>1. /\ DOMAIN q = DOMAIN p /\ q = [k \in DOMAIN p |-> q[k]]
        /\ \A k \in DOMAIN p : q[k] = Find(p, k)
    BY DEF CompressAll
  <1> HIDE DEF q
  <1>2. Forest(q) /\ \A k \in DOMAIN p : Find(q, k) = Find(p, k)
    BY <1>1, ShortcutKeeps
  <1> QED
    BY <1>1, <1>2 DEF q

\* The two finds a union and the scored matcher start with.
LEMMA FoundRoots ==
    ASSUME NEW p, Forest(p), NEW l \in DOMAIN p, NEW r \in DOMAIN p,
           NEW q, q = Compress(Compress(p, l), r)
    PROVE  /\ Forest(q) /\ DOMAIN q = DOMAIN p
           /\ \A k \in DOMAIN p : Find(q, k) = Find(p, k)
           /\ q[l] = Find(p, l) /\ q[r] = Find(p, r)
  <1> DEFINE c == Compress(p, l)
  <1>1. /\ Forest(c) /\ DOMAIN c = DOMAIN p /\ c[l] = Find(p, l)
        /\ \A k \in DOMAIN p : Find(c, k) = Find(p, k)
    BY CompressKeeps
  <1>2. q = Compress(c, r)
    OBVIOUS
  <1> HIDE DEF c
  <1>3. /\ Forest(q) /\ DOMAIN q = DOMAIN p /\ q[r] = Find(c, r)
        /\ \A k \in DOMAIN c : Find(q, k) = Find(c, k)
        /\ \A k \in DOMAIN c : c[k] = Find(c, k) => q[k] = Find(c, k)
    BY <1>1, <1>2, CompressKeeps
  <1> QED
    BY <1>1, <1>3

\* The clusters of a and b are one in q, under the smaller root.
Merged(p, q, a, b) ==
    /\ Forest(q) /\ DOMAIN q = DOMAIN p
    /\ \A k \in DOMAIN p : Find(q, k) =
           IF a # b /\ Find(p, k) \in {a, b} THEN Winner(a, b) ELSE Find(p, k)

\* union puts the cluster of the later root below the earlier one, and that is
\* all it does.
LEMMA UnionMerges ==
    ASSUME NEW p, Forest(p), NEW l \in DOMAIN p, NEW r \in DOMAIN p,
           NEW a, a = Find(p, l), NEW b, b = Find(p, r)
    PROVE  Merged(p, Union(p, l, r), a, b)
  <1> SUFFICES
        /\ Forest(Union(p, l, r)) /\ DOMAIN Union(p, l, r) = DOMAIN p
        /\ \A k \in DOMAIN p : Find(Union(p, l, r), k) =
               IF a # b /\ Find(p, k) \in {a, b} THEN Winner(a, b) ELSE Find(p, k)
    BY DEF Merged
  <1> DEFINE q == Compress(Compress(p, l), r)
             u == Union(p, l, r)
             w == Winner(a, b)
             x == Loser(a, b)
  <1>1. /\ Forest(q) /\ DOMAIN q = DOMAIN p
        /\ \A k \in DOMAIN p : Find(q, k) = Find(p, k)
        /\ q[l] = a /\ q[r] = b
    BY FoundRoots
  <1>2. u = IF a = b THEN q ELSE [q EXCEPT ![x] = w]
    <2>1. u = IF q[l] = q[r] THEN q
              ELSE [q EXCEPT ![Loser(q[l], q[r])] = Winner(q[l], q[r])]
      BY DEF Union
    <2> HIDE DEF q
    <2> QED
      BY <1>1, <2>1
  <1> HIDE DEF q, u
  <1>3. CASE a = b
    BY <1>1, <1>2, <1>3 DEF u
  <1>4. CASE a # b
    <2>1. /\ a \in DOMAIN p /\ b \in DOMAIN p /\ Find(p, a) = a /\ Find(p, b) = b
          /\ q[a] = a /\ q[b] = b
      <3>1. /\ a \in DOMAIN p /\ b \in DOMAIN p /\ Find(p, a) = a /\ Find(p, b) = b
        BY FindIsRoot
      <3>2. /\ q[Find(q, l)] = Find(q, l) /\ q[Find(q, r)] = Find(q, r)
        BY <1>1, FindIsRoot
      <3> QED
        BY <1>1, <3>1, <3>2
    <2>2. /\ w \in DOMAIN p /\ x \in DOMAIN p /\ w < x /\ {w, x} = {a, b}
      BY <1>4, <2>1 DEF Winner, Loser, Forest
    <2>3. /\ q[w] = w /\ q[x] = x /\ Find(p, w) = w /\ Find(p, x) = x
      BY <2>1, <2>2
    <2> HIDE DEF w, x
    <2>4. \A k \in DOMAIN p : /\ k \in Nat /\ q[k] \in DOMAIN p /\ q[k] \in Nat
                              /\ q[k] <= k
      BY <1>1 DEF Forest
    <2>5. /\ DOMAIN u = DOMAIN p /\ u[x] = w
          /\ \A k \in DOMAIN p : k # x => u[k] = q[k]
          /\ u \in [DOMAIN p -> DOMAIN p]
      BY <1>1, <1>2, <1>4, <2>2, <2>4
    <2>6. \A k \in DOMAIN p : u[k] <= k
      BY <2>2, <2>4, <2>5
    <2>7. Forest(u)
      BY <2>4, <2>5, <2>6 DEF Forest
    <2> DEFINE f == [k \in DOMAIN p |-> IF Find(p, k) \in {a, b} THEN w ELSE Find(p, k)]
    <2>8. ASSUME NEW k \in DOMAIN p PROVE f[k] = IF u[k] = k THEN k ELSE f[u[k]]
      <3>1. CASE k = x
        <4>1. f[k] = w /\ f[w] = w
          BY <2>2, <2>3, <3>1
        <4>2. u[k] = w /\ w # k
          BY <2>2, <2>4, <2>5, <3>1
        <4> QED
          BY <4>1, <4>2
      <3>2. CASE k # x
        <4>1. u[k] = q[k]
          BY <2>5, <3>2
        <4>2. Find(p, k) = IF q[k] = k THEN k ELSE Find(p, q[k])
          BY <1>1, <2>4, FindUnfolds
        <4>3. CASE q[k] = k
          <5>1. Find(p, k) = k
            BY <4>2, <4>3
          <5>2. f[k] = k
            BY <2>2, <3>2, <5>1
          <5> QED
            BY <4>1, <4>3, <5>2
        <4>4. CASE q[k] # k
          <5>1. Find(p, k) = Find(p, q[k])
            BY <4>2, <4>4
          <5>2. f[k] = f[q[k]]
            BY <2>4, <5>1
          <5> QED
            BY <4>1, <4>4, <5>2
        <4> QED
          BY <4>3, <4>4
      <3> QED
        BY <3>1, <3>2
    <2>9. \A k \in DOMAIN u : f[k] = IF u[k] = k THEN k ELSE f[u[k]]
      BY <2>5, <2>8
    <2>10. \A k \in DOMAIN p : f[k] = IF Find(p, k) \in {a, b} THEN w ELSE Find(p, k)
      OBVIOUS
    <2> HIDE DEF f
    <2>11. \A k \in DOMAIN u : Find(u, k) = f[k]
      BY <2>7, <2>9, FindUnique
    <2> QED
      BY <1>4, <2>5, <2>7, <2>10, <2>11 DEF u, w
  <1> QED
    BY <1>3, <1>4

-----------------------------------------------------------------------------
(* Clusters *)

ClusterOf(p, k) == Members(p, Find(p, k))

\* A step that only finds, and one that merges the clusters of two roots.
Same(p, q) ==
    /\ Forest(q) /\ DOMAIN q = DOMAIN p
    /\ \A k \in DOMAIN p : Find(q, k) = Find(p, k)

Joined(p, q, a, b) ==
    /\ Forest(q) /\ DOMAIN q = DOMAIN p
    /\ a \in DOMAIN p /\ b \in DOMAIN p /\ a # b /\ Find(p, a) = a /\ Find(p, b) = b
    /\ \A k \in DOMAIN p : Find(q, k) =
           IF Find(p, k) \in {a, b} THEN Winner(a, b) ELSE Find(p, k)

\* union after any finds merges the clusters of its two records.
LEMMA UnionIs ==
    ASSUME NEW p, Forest(p), NEW f, Same(p, f), NEW l \in DOMAIN p, NEW r \in DOMAIN p
    PROVE  /\ Find(p, l) = Find(p, r) => Same(p, Union(f, l, r))
           /\ Find(p, l) # Find(p, r) => Joined(p, Union(f, l, r), Find(p, l), Find(p, r))
  <1> DEFINE a == Find(p, l)
             b == Find(p, r)
             q == Union(f, l, r)
  <1>1. /\ Forest(f) /\ DOMAIN f = DOMAIN p /\ l \in DOMAIN f /\ r \in DOMAIN f
        /\ a = Find(f, l) /\ b = Find(f, r)
        /\ \A k \in DOMAIN p : Find(f, k) = Find(p, k)
    BY DEF Same
  <1>2. /\ a \in DOMAIN p /\ b \in DOMAIN p /\ Find(p, a) = a /\ Find(p, b) = b
    BY FindIsRoot
  <1> HIDE DEF a, b
  <1>3. /\ Forest(q) /\ DOMAIN q = DOMAIN f
        /\ \A k \in DOMAIN f : Find(q, k) =
               IF a # b /\ Find(f, k) \in {a, b} THEN Winner(a, b) ELSE Find(f, k)
    <2>1. Forest(f) /\ l \in DOMAIN f /\ r \in DOMAIN f /\ a = Find(f, l) /\ b = Find(f, r)
      BY <1>1
    <2>2. Merged(f, q, a, b)
      BY <2>1, UnionMerges
    <2> QED
      BY <2>2 DEF Merged
  <1> HIDE DEF q
  <1>4. \A k \in DOMAIN p : Find(q, k) =
               IF a # b /\ Find(p, k) \in {a, b} THEN Winner(a, b) ELSE Find(p, k)
    BY <1>1, <1>3
  <1>5. a = b => Same(p, q)
    BY <1>1, <1>3, <1>4 DEF Same
  <1>6. a # b => Joined(p, q, a, b)
    BY <1>1, <1>2, <1>3, <1>4 DEF Joined
  <1> QED
    BY <1>5, <1>6 DEF a, b, q

\* The cluster of a record.
LEMMA ClusterIs ==
    ASSUME NEW p, NEW k \in DOMAIN p
    PROVE  /\ k \in ClusterOf(p, k) /\ ClusterOf(p, k) \subseteq DOMAIN p
           /\ \A j : j \in ClusterOf(p, k) <=> j \in DOMAIN p /\ Find(p, j) = Find(p, k)
           /\ \A j \in ClusterOf(p, k) : ClusterOf(p, j) = ClusterOf(p, k)
  BY DEF ClusterOf, Members

LEMMA SameClusters ==
    ASSUME NEW p, NEW q, Same(p, q)
    PROVE  /\ \A x : Members(q, x) = Members(p, x)
           /\ \A k \in DOMAIN p : ClusterOf(q, k) = ClusterOf(p, k)
  <1>1. \A x : Members(q, x) = Members(p, x)
    BY DEF Same, Members
  <1> QED
    BY <1>1 DEF ClusterOf, Same

\* The clusters A and B of p are one cluster of q; all others stay.
Glued(p, q, A, B) ==
    /\ A \cap B = {}
    /\ \A k \in DOMAIN p : ClusterOf(q, k) =
           IF k \in A \cup B THEN A \cup B ELSE ClusterOf(p, k)

LEMMA JoinedClusters ==
    ASSUME NEW p, NEW q, NEW l \in DOMAIN p, NEW r \in DOMAIN p,
           Joined(p, q, Find(p, l), Find(p, r)),
           NEW A, A = ClusterOf(p, l), NEW B, B = ClusterOf(p, r)
    PROVE  Glued(p, q, A, B)
  <1>1. PICK a \in DOMAIN p, b \in DOMAIN p : a = Find(p, l) /\ b = Find(p, r)
    BY DEF Joined
  <1>2. /\ a # b /\ DOMAIN q = DOMAIN p /\ Find(p, a) = a /\ Find(p, b) = b
        /\ \A k \in DOMAIN p : Find(q, k) =
           IF Find(p, k) \in {a, b} THEN Winner(a, b) ELSE Find(p, k)
        /\ Winner(a, b) \in {a, b}
    BY <1>1 DEF Joined, Winner
  <1>3. /\ \A j : j \in A <=> j \in DOMAIN p /\ Find(p, j) = a
        /\ \A j : j \in B <=> j \in DOMAIN p /\ Find(p, j) = b
    BY <1>1 DEF ClusterOf, Members
  <1>4. A \cap B = {}
    BY <1>2, <1>3
  <1>5. PICK w : w = Winner(a, b)
    OBVIOUS
  <1>6. ASSUME NEW k \in DOMAIN p, k \in A \cup B PROVE ClusterOf(q, k) = A \cup B
    <2>1. Find(q, k) = w
      BY <1>2, <1>3, <1>5, <1>6
    <2>2. \A j \in DOMAIN p : Find(q, j) = w <=> Find(p, j) \in {a, b}
      BY <1>2, <1>5
    <2>3. \A j : j \in ClusterOf(q, k) <=> j \in DOMAIN p /\ Find(q, j) = w
      BY <1>2, <2>1 DEF ClusterOf, Members
    <2> QED
      BY <1>3, <2>2, <2>3
  <1>7. ASSUME NEW k \in DOMAIN p, k \notin A \cup B PROVE ClusterOf(q, k) = ClusterOf(p, k)
    <2>1. Find(p, k) \notin {a, b} /\ Find(q, k) = Find(p, k)
      BY <1>2, <1>3, <1>7
    <2>2. \A j \in DOMAIN p : Find(q, j) = Find(p, k) <=> Find(p, j) = Find(p, k)
      BY <1>2, <2>1
    <2> QED
      BY <1>2, <2>1, <2>2 DEF ClusterOf, Members
  <1> QED
    BY <1>4, <1>6, <1>7 DEF Glued

-----------------------------------------------------------------------------
(* Connected sets *)

\* Connected, for a relation that is a set of pairs.
Conn(set, R) ==
    \A part \in (SUBSET set) \ {{}, set} :
        \E r \in part, s \in set \ part : <<r, s>> \in R \/ <<s, r>> \in R

LEMMA ConnMonotone ==
    ASSUME NEW A, NEW R, NEW S, R \subseteq S, Conn(A, R)
    PROVE  Conn(A, S)
  BY DEF Conn

LEMMA ConnSmall ==
    ASSUME NEW A, NEW R, \A r, s \in A : r = s
    PROVE  Conn(A, R)
  BY DEF Conn

\* Two connected sets with a pair across are connected.
LEMMA ConnUnion ==
    ASSUME NEW R, NEW A, NEW B, Conn(A, R), Conn(B, R),
           NEW l \in A, NEW r \in B, <<l, r>> \in R
    PROVE  Conn(A \cup B, R)
  <1> SUFFICES ASSUME NEW part, part \subseteq A \cup B, part # {}, part # A \cup B
               PROVE  \E x \in part, y \in (A \cup B) \ part : <<x, y>> \in R \/ <<y, x>> \in R
    BY DEF Conn
  <1>1. CASE part \cap A # {} /\ part \cap A # A
    <2>1. part \cap A \in (SUBSET A) \ {{}, A}
      BY <1>1
    <2>2. PICK x \in part \cap A, y \in A \ (part \cap A) : <<x, y>> \in R \/ <<y, x>> \in R
      BY <2>1, Zenon DEF Conn
    <2>3. x \in part /\ y \in (A \cup B) \ part
      OBVIOUS
    <2> QED
      BY <2>2, <2>3
  <1>2. CASE part \cap B # {} /\ part \cap B # B
    <2>1. part \cap B \in (SUBSET B) \ {{}, B}
      BY <1>2
    <2>2. PICK x \in part \cap B, y \in B \ (part \cap B) : <<x, y>> \in R \/ <<y, x>> \in R
      BY <2>1, Zenon DEF Conn
    <2>3. x \in part /\ y \in (A \cup B) \ part
      OBVIOUS
    <2> QED
      BY <2>2, <2>3
  <1>3. CASE part \cap A = {} /\ part \cap B = B
    BY <1>3
  <1>4. CASE part \cap B = {} /\ part \cap A = A
    BY <1>4
  <1>5. CASE part \cap A = {} /\ part \cap B = {}
    BY <1>5
  <1>6. CASE part \cap A = A /\ part \cap B = B
    BY <1>6
  <1> QED
    BY <1>1, <1>2, <1>3, <1>4, <1>5, <1>6

-----------------------------------------------------------------------------
(* The state of a call *)

Pairs == Records \X Records

\* Tables and keys are about the records of the call, the structure is a
\* forest, and each matcher leaves the other's state alone.
Shape ==
    /\ kind \in {"deterministic", "probabilistic"}
    /\ Forest(parent) /\ DOMAIN parent = Records
    /\ trusted \in Seq([Records -> Nat]) /\ composite \in Seq([Records -> Nat])
    /\ rule \in 0..(Len(trusted) + Len(composite))
    /\ pairs \subseteq Pairs /\ todo \subseteq Pairs
    /\ \A o \in results : o.pair \in Pairs
    /\ level \in {NoMatch, Gray, AutoMatch}
    /\ trusted_ids \in [Records -> SUBSET Nat] /\ cluster_sizes \in [Records -> Nat]
    /\ kind = "probabilistic" => /\ pairs = {} /\ groups = {} /\ rule = 0
                                 /\ Len(trusted) = 1
    /\ groups # {} \/ pairs # {} => rule # 0
    /\ state = "called" => results = {} /\ rule = 0

\* Groups and pairs to visit are those of the open rule.
KeyInv ==
    /\ \A g \in groups : g \in GroupsOf(Rules[rule])
    /\ \A pair \in pairs : /\ Rules[rule][pair[1]] = Rules[rule][pair[2]]
                           /\ Rules[rule][pair[1]] # NoKey

\* Rules are the trusted ones, then the composite ones.
LEMMA RulesAre ==
    ASSUME Shape
    PROVE  /\ Rules \in Seq([Records -> Nat]) /\ Len(trusted) \in Nat
           /\ Len(composite) \in Nat /\ Len(Rules) = Len(trusted) + Len(composite)
           /\ \A i \in 1..Len(trusted) : Rules[i] = trusted[i]
           /\ \A i \in 1..Len(composite) : Rules[Len(trusted) + i] = composite[i]
           /\ \A i \in 1..Len(Rules) : Rules[i] \in [Records -> Nat]
  <1>1. trusted \in Seq([Records -> Nat]) /\ composite \in Seq([Records -> Nat])
    BY DEF Shape
  <1>2. Rules \in Seq([Records -> Nat]) /\ Len(Rules) = Len(trusted) + Len(composite)
    BY <1>1 DEF Rules
  <1>3. \A i \in 1..Len(trusted) : Rules[i] = trusted[i]
    BY <1>1 DEF Rules
  <1>4. \A i \in 1..Len(composite) : Rules[Len(trusted) + i] = composite[i]
    BY <1>1 DEF Rules
  <1> HIDE DEF Rules
  <1> QED
    BY <1>1, <1>2, <1>3, <1>4

\* Records of a group have its key, and pairs are of records.
LEMMA GroupIs ==
    ASSUME NEW key \in [Records -> Nat], NEW g \in GroupsOf(key)
    PROVE  /\ g \subseteq Records
           /\ \A r, s \in g : key[r] = key[s] /\ key[r] # NoKey
           /\ \A r \in g : \A s \in Records : key[s] = key[r] => s \in g
  BY DEF GroupsOf

LEMMA GroupOf ==
    ASSUME NEW key \in [Records -> Nat], NEW r \in Records, key[r] # NoKey
    PROVE  {s \in Records : key[s] = key[r]} \in GroupsOf(key)
  BY DEF GroupsOf

LEMMA PairsAre ==
    ASSUME NEW g, g \subseteq Records, NEW pair \in PairsOf(g)
    PROVE  /\ pair \in Pairs /\ pair[1] \in g /\ pair[2] \in g /\ pair[1] < pair[2]
           /\ pair = <<pair[1], pair[2]>>
  BY DEF PairsOf, Pairs

LEMMA ConsecutiveArePairs ==
    ASSUME NEW g
    PROVE  Consecutive(g) \subseteq PairsOf(g) /\ Combinations(g) = PairsOf(g)
  BY DEF Consecutive, Combinations

\* The finds of a step.
LEMMA FindsAre ==
    ASSUME Shape, NEW pair \in Pairs
    PROVE  /\ pair[1] \in DOMAIN parent /\ pair[2] \in DOMAIN parent
           /\ Same(parent, parent) /\ Same(parent, CompressAll(parent))
           /\ Same(parent, Compress(Compress(parent, pair[1]), pair[2]))
           /\ Compress(Compress(parent, pair[1]), pair[2])[pair[1]] = Find(parent, pair[1])
           /\ Compress(Compress(parent, pair[1]), pair[2])[pair[2]] = Find(parent, pair[2])
  <1>1. Forest(parent) /\ pair[1] \in DOMAIN parent /\ pair[2] \in DOMAIN parent
    BY DEF Shape, Pairs
  <1>2. Same(parent, parent)
    BY <1>1 DEF Same
  <1>3. Same(parent, CompressAll(parent))
    BY <1>1, CompressAllKeeps DEF Same
  <1> DEFINE q == Compress(Compress(parent, pair[1]), pair[2])
  <1>4. /\ Forest(q) /\ DOMAIN q = DOMAIN parent
        /\ \A k \in DOMAIN parent : Find(q, k) = Find(parent, k)
        /\ q[pair[1]] = Find(parent, pair[1]) /\ q[pair[2]] = Find(parent, pair[2])
    BY <1>1, FoundRoots
  <1> QED
    BY <1>1, <1>2, <1>3, <1>4 DEF Same

\* The trusted keys a record carries, and those a set of records carries.
Keys(t, r) == {t[i][r] : i \in DOMAIN t} \ {NoKey}
Carried(t, C) == UNION {Keys(t, r) : r \in C}

LEMMA CarriedUnion ==
    ASSUME NEW t, NEW A, NEW B
    PROVE  Carried(t, A \cup B) = Carried(t, A) \cup Carried(t, B)
  BY DEF Carried

LEMMA CarriedBy ==
    ASSUME NEW t, NEW C, NEW v
    PROVE  v \in Carried(t, C) <=> \E r \in C : v \in Keys(t, r)
  BY DEF Carried

-----------------------------------------------------------------------------
(* What a step does to clusters and outcomes *)

Judged(o) ==
    Conflicting(Carried(trusted, ClusterOf(parent, o.pair[1])), Carried(trusted, ClusterOf(parent, o.pair[2])))

\* It reports nothing; a link inside a cluster; a link that merges two clusters
\* for a trusted key or because they do not conflict; a conflict; or a pair to
\* review or to drop.
Quiet == Same(parent, parent') /\ results' = results

Inside(o) ==
    /\ o.status = "auto_match" /\ Together(o.pair) /\ Same(parent, parent')

Merge(o) ==
    /\ o.status = "auto_match"
    /\ Joined(parent, parent', Find(parent, o.pair[1]), Find(parent, o.pair[2]))
    /\ \/ /\ kind = "deterministic" /\ rule <= Len(trusted)
          /\ ShareKey(trusted, o.pair[1], o.pair[2])
       \/ /\ kind = "deterministic" => rule > Len(trusted)
          /\ ~Judged(o)

Veto(o) ==
    /\ o.status = "trusted_id_conflict" /\ Same(parent, parent') /\ Judged(o)
    /\ kind = "deterministic" => rule > Len(trusted)

Offer(o) ==
    /\ o.status \in {"review", "no_match"} /\ Same(parent, parent')

Reports == \E o : /\ o.pair \in Pairs /\ results' = results \cup {o}
                  /\ Inside(o) \/ Merge(o) \/ Veto(o) \/ Offer(o)

\* A trusted rule links a pair that shares its key.
LEMMA TrustedPairIs ==
    ASSUME Shape, KeyInv, TrustedPair
    PROVE  \E pair \in pairs :
             /\ results' = results \cup {Outcome(pair, rule, "auto_match")}
             /\ pairs' = pairs \ {pair}
             /\ Inside(Outcome(pair, rule, "auto_match")) \/ Merge(Outcome(pair, rule, "auto_match"))
  <1>1. PICK pair \in pairs :
            /\ parent' = Union(parent, pair[1], pair[2])
            /\ results' = results \cup {Outcome(pair, rule, "auto_match")}
            /\ pairs' = pairs \ {pair}
    BY Zenon DEF TrustedPair
  <1>2. pair \in Pairs /\ rule <= Len(trusted) /\ kind = "deterministic" /\ rule \in 1..Len(trusted)
    <2>1. pair \in Pairs /\ rule <= Len(trusted) /\ kind = "deterministic" /\ rule # 0
      BY DEF Shape, TrustedPair
    <2> QED
      BY <2>1, RulesAre DEF Shape
  <1>3. PICK o : o = Outcome(pair, rule, "auto_match")
    OBVIOUS
  <1>4. o.pair = pair /\ o.status = "auto_match"
    BY <1>3 DEF Outcome
  <1>5. ShareKey(trusted, pair[1], pair[2])
    <2>1. Rules[rule] = trusted[rule]
      BY <1>2, RulesAre
    <2>2. rule \in DOMAIN trusted
      BY <1>2 DEF Shape
    <2> QED
      BY <2>1, <2>2 DEF KeyInv, ShareKey
  <1>6. Forest(parent)
    BY DEF Shape
  <1>7. CASE Find(parent, pair[1]) = Find(parent, pair[2])
    <2>1. Same(parent, parent')
      BY <1>1, <1>2, <1>6, <1>7, FindsAre, UnionIs
    <2> QED
      BY <1>1, <1>3, <1>4, <1>7, <2>1 DEF Inside, Together
  <1>8. CASE Find(parent, pair[1]) # Find(parent, pair[2])
    <2>1. Joined(parent, parent', Find(parent, pair[1]), Find(parent, pair[2]))
      BY <1>1, <1>2, <1>6, <1>8, FindsAre, UnionIs
    <2> QED
      BY <1>1, <1>2, <1>3, <1>4, <1>5, <2>1 DEF Merge
  <1> QED
    BY <1>7, <1>8

\* A composite rule merges clusters that do not conflict.
LEMMA CompositePairIs ==
    ASSUME Shape, CompositePair
    PROVE  \E pair \in pairs :
             /\ pairs' = pairs \ {pair}
             /\ \/ Quiet /\ Together(pair)
                \/ \E o : /\ o.pair = pair /\ results' = results \cup {o}
                          /\ Merge(o) \/ Veto(o)
  <1>1. PICK pair \in pairs :
         /\ LET a == Find(parent, pair[1])
                b == Find(parent, pair[2])
                veto == Conflicting(ClusterTrustedValues(a), ClusterTrustedValues(b))
            IN  \/ /\ a = b
                   /\ parent' = Compress(Compress(parent, pair[1]), pair[2])
                   /\ UNCHANGED results
                \/ /\ a # b /\ veto
                   /\ parent' = CompressAll(parent)
                   /\ results' = results \cup {Outcome(pair, rule, "trusted_id_conflict")}
                \/ /\ a # b /\ ~veto
                   /\ parent' = Union(CompressAll(parent), pair[1], pair[2])
                   /\ results' = results \cup {Outcome(pair, rule, "auto_match")}
         /\ pairs' = pairs \ {pair}
    BY Zenon DEF CompositePair
  <1>2. pair \in Pairs /\ rule > Len(trusted) /\ Forest(parent)
    BY DEF Shape, CompositePair
  <1>3. PICK a, b : a = Find(parent, pair[1]) /\ b = Find(parent, pair[2])
    OBVIOUS
  <1>4. /\ Same(parent, CompressAll(parent))
        /\ Same(parent, Compress(Compress(parent, pair[1]), pair[2]))
        /\ pair[1] \in DOMAIN parent /\ pair[2] \in DOMAIN parent
    BY <1>2, FindsAre
  <1>5. /\ ClusterTrustedValues(a) = Carried(trusted, ClusterOf(parent, pair[1]))
        /\ ClusterTrustedValues(b) = Carried(trusted, ClusterOf(parent, pair[2]))
    BY <1>3 DEF ClusterTrustedValues, TrustedOf, Keys, Carried, ClusterOf
  <1>6. CASE a = b /\ parent' = Compress(Compress(parent, pair[1]), pair[2]) /\ results' = results
    <2>1. Quiet /\ Together(pair)
      BY <1>3, <1>4, <1>6 DEF Quiet, Together
    <2> QED
      BY <1>1, <2>1
  <1>7. CASE /\ a # b /\ Conflicting(ClusterTrustedValues(a), ClusterTrustedValues(b))
             /\ parent' = CompressAll(parent)
             /\ results' = results \cup {Outcome(pair, rule, "trusted_id_conflict")}
    <2>1. PICK o : o = Outcome(pair, rule, "trusted_id_conflict")
      OBVIOUS
    <2>2. o.pair = pair /\ o.status = "trusted_id_conflict"
      BY <2>1 DEF Outcome
    <2>3. Veto(o)
      BY <1>2, <1>4, <1>5, <1>7, <2>2 DEF Veto, Judged
    <2> QED
      BY <1>1, <1>7, <2>1, <2>2, <2>3
  <1>8. CASE /\ a # b /\ ~Conflicting(ClusterTrustedValues(a), ClusterTrustedValues(b))
             /\ parent' = Union(CompressAll(parent), pair[1], pair[2])
             /\ results' = results \cup {Outcome(pair, rule, "auto_match")}
    <2>1. PICK o : o = Outcome(pair, rule, "auto_match")
      OBVIOUS
    <2>2. o.pair = pair /\ o.status = "auto_match"
      BY <2>1 DEF Outcome
    <2>3. Joined(parent, parent', Find(parent, pair[1]), Find(parent, pair[2]))
      BY <1>2, <1>3, <1>4, <1>8, UnionIs
    <2>4. Merge(o)
      BY <1>2, <1>5, <1>8, <2>2, <2>3 DEF Merge, Judged
    <2> QED
      BY <1>1, <1>8, <2>1, <2>2, <2>4
  <1> QED
    BY <1>1, <1>3, <1>6, <1>7, <1>8

\* Sizes and identifiers are current for roots.
RootInv ==
    kind = "probabilistic" => \A r \in Records : Find(parent, r) = r =>
        /\ cluster_sizes[r] = Cardinality(ClusterOf(parent, r))
        /\ trusted_ids[r] = Carried(trusted, ClusterOf(parent, r))

\* A pair scored in a range, with its outcome and the roots a and b of its records.
Scored(pair, range, o, a, b) ==
    /\ todo' = todo \ {pair} /\ level' = range
    /\ o.pair = pair /\ results' = results \cup {o}
    /\ o.left_size = cluster_sizes[a] /\ o.right_size = cluster_sizes[b]
    /\ o.merged_size = IF a = b THEN cluster_sizes[a]
                       ELSE cluster_sizes[a] + cluster_sizes[b]
    /\ o.status = "review" => range # AutoMatch
    /\ \/ /\ Merge(o) /\ range = AutoMatch
          /\ trusted_ids' = [trusted_ids EXCEPT
               ![Winner(a, b)] = trusted_ids[a] \cup trusted_ids[b]]
          /\ cluster_sizes' = [cluster_sizes EXCEPT
               ![Winner(a, b)] = cluster_sizes[a] + cluster_sizes[b]]
       \/ /\ Inside(o) \/ Veto(o) \/ Offer(o)
          /\ UNCHANGED <<trusted_ids, cluster_sizes>>

\* A scored pair: what it is compared by, and what it reports.
LEMMA ScorePairIs ==
    ASSUME Shape, RootInv, ScorePair
    PROVE  \E pair \in todo, range \in NextRange : \E o :
             Scored(pair, range, o, Find(parent, pair[1]), Find(parent, pair[2]))
  <1>1. PICK pair \in todo, range \in NextRange :
          LET found == Compress(Compress(parent, pair[1]), pair[2])
              a == found[pair[1]]
              b == found[pair[2]]
              status == IF Conflicting(trusted_ids[a], trusted_ids[b])
                        THEN "trusted_id_conflict" ELSE StatusOf(range)
              merged_size == IF a = b THEN cluster_sizes[a]
                             ELSE cluster_sizes[a] + cluster_sizes[b]
          IN  /\ todo' = todo \ {pair}
              /\ level' = range
              /\ results' = results \cup
                   {[pair |-> pair, status |-> status, left_size |-> cluster_sizes[a],
                     right_size |-> cluster_sizes[b], merged_size |-> merged_size]}
              /\ \/ /\ status = "auto_match" /\ a # b
                    /\ parent' = Union(found, pair[1], pair[2])
                    /\ trusted_ids' = [trusted_ids EXCEPT
                         ![Winner(a, b)] = trusted_ids[a] \cup trusted_ids[b]]
                    /\ cluster_sizes' = [cluster_sizes EXCEPT ![Winner(a, b)] = merged_size]
                 \/ /\ ~(status = "auto_match" /\ a # b)
                    /\ parent' = found
                    /\ UNCHANGED <<trusted_ids, cluster_sizes>>
    BY ZenonT(60) DEF ScorePair
  <1>2. pair \in Pairs /\ Forest(parent) /\ kind = "probabilistic"
    BY DEF Shape, ScorePair
  <1>3. PICK found : found = Compress(Compress(parent, pair[1]), pair[2])
    OBVIOUS
  <1>4. PICK a, b : a = Find(parent, pair[1]) /\ b = Find(parent, pair[2])
    OBVIOUS
  <1>5. /\ found[pair[1]] = a /\ found[pair[2]] = b /\ Same(parent, found)
        /\ pair[1] \in DOMAIN parent /\ pair[2] \in DOMAIN parent
    BY <1>2, <1>3, <1>4, FindsAre
  <1>6. PICK status : status = IF Conflicting(trusted_ids[a], trusted_ids[b])
                               THEN "trusted_id_conflict" ELSE StatusOf(range)
    OBVIOUS
  <1>7. PICK merged_size : merged_size = IF a = b THEN cluster_sizes[a]
                                         ELSE cluster_sizes[a] + cluster_sizes[b]
    OBVIOUS
  <1>8. PICK o : o = [pair |-> pair, status |-> status, left_size |-> cluster_sizes[a],
                      right_size |-> cluster_sizes[b], merged_size |-> merged_size]
    OBVIOUS
  <1>9. /\ todo' = todo \ {pair} /\ level' = range /\ results' = results \cup {o}
        /\ \/ /\ status = "auto_match" /\ a # b
              /\ parent' = Union(found, pair[1], pair[2])
              /\ trusted_ids' = [trusted_ids EXCEPT
                   ![Winner(a, b)] = trusted_ids[a] \cup trusted_ids[b]]
              /\ cluster_sizes' = [cluster_sizes EXCEPT ![Winner(a, b)] = merged_size]
           \/ /\ ~(status = "auto_match" /\ a # b)
              /\ parent' = found
              /\ UNCHANGED <<trusted_ids, cluster_sizes>>
    BY <1>1, <1>3, <1>5, <1>6, <1>7, <1>8
  <1>10. /\ o.pair = pair /\ o.status = status /\ o.left_size = cluster_sizes[a]
         /\ o.right_size = cluster_sizes[b] /\ o.merged_size = merged_size
    BY <1>8
  <1>11. /\ trusted_ids[a] = Carried(trusted, ClusterOf(parent, pair[1]))
         /\ trusted_ids[b] = Carried(trusted, ClusterOf(parent, pair[2]))
    <2>1. /\ a \in Records /\ b \in Records /\ Find(parent, a) = a /\ Find(parent, b) = b
      BY <1>2, <1>4, <1>5, FindIsRoot DEF Shape
    <2>2. ClusterOf(parent, a) = ClusterOf(parent, pair[1]) /\ ClusterOf(parent, b) = ClusterOf(parent, pair[2])
      BY <1>4, <2>1 DEF ClusterOf
    <2> QED
      BY <1>2, <2>1, <2>2 DEF RootInv
  <1>12. range \in {NoMatch, Gray, AutoMatch}
    BY DEF NextRange
  <1>13. Conflicting(trusted_ids[a], trusted_ids[b]) <=> Judged(o)
    BY <1>10, <1>11 DEF Judged
  <1>14. /\ status = "auto_match" => ~Judged(o) /\ range = AutoMatch
         /\ status = "review" => range # AutoMatch
         /\ status = "trusted_id_conflict" => Judged(o)
         /\ status \in {"auto_match", "trusted_id_conflict", "review", "no_match"}
    <2>1. /\ StatusOf(range) = "auto_match" => range = AutoMatch
          /\ StatusOf(range) = "review" => range # AutoMatch
          /\ StatusOf(range) \in {"auto_match", "review", "no_match"}
      BY <1>12 DEF StatusOf, NoMatch, Gray, AutoMatch
    <2> QED
      BY <1>6, <1>13, <2>1
  <1> HIDE DEF NoMatch, Gray, AutoMatch
  <1>15. CASE status = "auto_match" /\ a # b
    <2>1. parent' = Union(found, pair[1], pair[2]) /\ merged_size = cluster_sizes[a] + cluster_sizes[b]
      BY <1>7, <1>9, <1>15
    <2>2. Joined(parent, parent', a, b)
      BY <1>2, <1>4, <1>5, <1>15, <2>1, UnionIs
    <2>3. Merge(o)
      BY <1>2, <1>4, <1>10, <1>14, <1>15, <2>2 DEF Merge
    <2>4. /\ trusted_ids' = [trusted_ids EXCEPT
                   ![Winner(a, b)] = trusted_ids[a] \cup trusted_ids[b]]
          /\ cluster_sizes' = [cluster_sizes EXCEPT
                   ![Winner(a, b)] = cluster_sizes[a] + cluster_sizes[b]]
      BY <1>9, <1>15, <2>1
    <2>5. Scored(pair, range, o, a, b)
      BY <1>7, <1>9, <1>10, <1>14, <1>15, <2>3, <2>4 DEF Scored
    <2> QED
      BY <1>4, <2>5
  <1>16. CASE ~(status = "auto_match" /\ a # b)
    <2>1. Same(parent, parent') /\ UNCHANGED <<trusted_ids, cluster_sizes>>
      BY <1>5, <1>9, <1>16
    <2>2. Inside(o) \/ Veto(o) \/ Offer(o)
      BY <1>2, <1>4, <1>10, <1>14, <1>16, <2>1 DEF Inside, Veto, Offer, Together
    <2> QED
      BY <1>4, <1>7, <1>9, <1>10, <1>14, <2>1, <2>2 DEF Scored
  <1> QED
    BY <1>15, <1>16, Zenon

\* Every step keeps the inputs, and every step is one of those.
LEMMA StepIs ==
    ASSUME Shape, KeyInv, RootInv, [MatchingNext]_matchingVars
    PROVE  /\ UNCHANGED <<kind, trusted, composite>>
           /\ Quiet \/ Reports
  <1>1. UNCHANGED <<kind, trusted, composite>>
    BY DEF MatchingNext, matchingVars, Refuse, OpenRule, OpenGroup, TrustedPair, CompositePair,
           ReturnClusters, GenerateCandidates, ScorePair, ReturnCandidates
  <1>2. Same(parent, parent) /\ Same(parent, CompressAll(parent))
    <2>1. Forest(parent)
      BY DEF Shape
    <2> QED
      BY <2>1, CompressAllKeeps DEF Same
  <1>3. CASE \/ Refuse \/ OpenRule \/ OpenGroup \/ GenerateCandidates \/ ReturnCandidates
             \/ UNCHANGED matchingVars
    <2>1. parent' = parent /\ results' = results
      BY <1>3 DEF matchingVars, Refuse, OpenRule, OpenGroup, GenerateCandidates, ReturnCandidates
    <2> QED
      BY <1>1, <1>2, <2>1 DEF Quiet
  <1>4. CASE ReturnClusters
    BY <1>1, <1>2, <1>4 DEF Quiet, ReturnClusters
  <1>5. CASE TrustedPair
    <2>1. PICK pair \in pairs :
             /\ results' = results \cup {Outcome(pair, rule, "auto_match")}
             /\ Inside(Outcome(pair, rule, "auto_match")) \/ Merge(Outcome(pair, rule, "auto_match"))
      BY <1>5, TrustedPairIs, Zenon
    <2>2. PICK o : o = Outcome(pair, rule, "auto_match")
      OBVIOUS
    <2>3. o.pair \in Pairs
      BY <2>2 DEF Outcome, Shape
    <2> QED
      BY <1>1, <2>1, <2>2, <2>3 DEF Reports
  <1>6. CASE CompositePair
    <2>1. PICK pair \in pairs :
             \/ Quiet
             \/ \E o : /\ o.pair = pair /\ results' = results \cup {o}
                       /\ Merge(o) \/ Veto(o)
      BY <1>6, CompositePairIs, Zenon
    <2>2. pair \in Pairs
      BY DEF Shape
    <2> QED
      BY <1>1, <2>1, <2>2, Zenon DEF Reports
  <1>7. CASE ScorePair
    <2>1. PICK o : /\ o.pair \in todo /\ results' = results \cup {o}
                   /\ Inside(o) \/ Merge(o) \/ Veto(o) \/ Offer(o)
      <3>1. PICK pair \in todo, range \in NextRange : \E o :
              Scored(pair, range, o, Find(parent, pair[1]), Find(parent, pair[2]))
        BY <1>7, ScorePairIs
      <3> QED
        BY <3>1, Zenon DEF Scored
    <2>2. o.pair \in Pairs
      BY <2>1 DEF Shape
    <2> QED
      BY <1>1, <2>1, <2>2, Zenon DEF Reports
  <1> QED
    BY <1>3, <1>4, <1>5, <1>6, <1>7 DEF MatchingNext

-----------------------------------------------------------------------------
(* Shape, keys and roots are kept *)

LEMMA SingletonsAre ==
    ASSUME NEW p, p = Singletons(Records)
    PROVE  /\ Forest(p) /\ DOMAIN p = Records
           /\ \A k \in Records : Find(p, k) = k /\ ClusterOf(p, k) = {k}
  <1>1. Forest(p) /\ DOMAIN p = Records /\ \A k \in Records : p[k] = k
    BY MatchingAssumption DEF Forest, Singletons
  <1>2. \A k \in Records : Find(p, k) = k
    BY <1>1, FindUnfolds
  <1> QED
    BY <1>1, <1>2 DEF ClusterOf, Members

LEMMA TrustedTyped ==
    ASSUME Shape, NEW r \in Records
    PROVE  TrustedOf(r) \subseteq Nat
  <1>1. \A i \in DOMAIN trusted : trusted[i] \in [Records -> Nat]
    BY DEF Shape
  <1> QED
    BY <1>1 DEF TrustedOf

LEMMA ShapeInit == MatchingInit => Shape /\ KeyInv /\ RootInv
  <1> SUFFICES ASSUME MatchingInit PROVE Shape /\ KeyInv /\ RootInv
    OBVIOUS
  <1>1. kind \in {"deterministic", "probabilistic"}
    BY DEF MatchingInit
  <1>2. /\ trusted \in Seq([Records -> Nat]) /\ composite \in Seq([Records -> Nat])
        /\ kind = "probabilistic" => Len(trusted) = 1
    <2>1. CASE kind = "deterministic"
      <3>1. PICK i \in ExactInputs : trusted = i.trusted /\ composite = i.composite
        BY <2>1 DEF MatchingInit
      <3> QED
        BY <2>1, <3>1, MatchingAssumption
    <2>2. CASE kind = "probabilistic"
      <3>1. PICK ids \in EmployeeIds : trusted = <<ids>>
        BY <2>2 DEF MatchingInit
      <3>2. ids \in [Records -> Nat] /\ composite = <<>>
        BY <2>2, MatchingAssumption DEF MatchingInit
      <3> QED
        BY <3>1, <3>2
    <2> QED
      BY <1>1, <2>1, <2>2
  <1>3. \A r \in Records : TrustedOf(r) \subseteq Nat
    <2>1. \A i \in DOMAIN trusted : trusted[i] \in [Records -> Nat]
      BY <1>2
    <2> QED
      BY <2>1 DEF TrustedOf
  <1>4. /\ Forest(parent) /\ DOMAIN parent = Records
        /\ \A k \in Records : ClusterOf(parent, k) = {k}
    BY SingletonsAre DEF MatchingInit
  <1>5. rule \in 0..(Len(trusted) + Len(composite))
    <2>1. Len(trusted) \in Nat /\ Len(composite) \in Nat /\ rule = 0
      BY <1>2 DEF MatchingInit
    <2> QED
      BY <2>1
  <1>6. trusted_ids \in [Records -> SUBSET Nat] /\ cluster_sizes \in [Records -> Nat]
    BY <1>3 DEF MatchingInit
  <1>7. Shape
    BY <1>1, <1>2, <1>4, <1>5, <1>6 DEF MatchingInit, Shape
  <1>8. KeyInv
    BY DEF MatchingInit, KeyInv
  <1>9. RootInv
    <2> SUFFICES ASSUME NEW r \in Records
                 PROVE  /\ cluster_sizes[r] = Cardinality(ClusterOf(parent, r))
                        /\ trusted_ids[r] = Carried(trusted, ClusterOf(parent, r))
      BY DEF RootInv
    <2>1. cluster_sizes[r] = 1 /\ trusted_ids[r] = TrustedOf(r) /\ ClusterOf(parent, r) = {r}
      BY <1>4 DEF MatchingInit
    <2>2. Cardinality({r}) = 1
      BY FS_Singleton
    <2>3. Carried(trusted, {r}) = TrustedOf(r)
      BY DEF Carried, Keys, TrustedOf
    <2> QED
      BY <2>1, <2>2, <2>3
  <1> QED
    BY <1>7, <1>8, <1>9

LEMMA ShapeStep ==
    ASSUME Shape, KeyInv, RootInv, [MatchingNext]_matchingVars
    PROVE  Shape'
  <1>1. kind' = kind /\ trusted' = trusted /\ composite' = composite
    BY StepIs
  <1>2. Forest(parent') /\ DOMAIN parent' = Records
    BY StepIs, Zenon DEF Quiet, Reports, Inside, Merge, Veto, Offer, Same, Joined, Shape
  <1>3. \A o \in results' : o.pair \in Pairs
    BY StepIs DEF Quiet, Reports, Shape
  <1>4. /\ rule' \in 0..(Len(trusted) + Len(composite))
        /\ pairs' \subseteq Pairs
        /\ kind = "probabilistic" => pairs' = {} /\ groups' = {} /\ rule' = 0
        /\ groups' # {} \/ pairs' # {} => rule' # 0
    <2>0. /\ rule \in 0..(Len(trusted) + Len(composite)) /\ pairs \subseteq Pairs
          /\ kind = "probabilistic" => pairs = {} /\ groups = {} /\ rule = 0
          /\ groups # {} \/ pairs # {} => rule # 0
      BY DEF Shape
    <2>1. CASE UNCHANGED exactVars
      BY <2>0, <2>1 DEF exactVars
    <2>2. CASE OpenRule
      <3>1. /\ Len(trusted) \in Nat /\ Len(composite) \in Nat
            /\ Len(Rules) = Len(trusted) + Len(composite)
        BY RulesAre
      <3>2. rule' = rule + 1 /\ rule < Len(Rules) /\ kind = "deterministic" /\ pairs' = pairs
        BY <2>2 DEF OpenRule
      <3> QED
        BY <2>0, <3>1, <3>2
    <2>3. CASE OpenGroup
      <3>1. PICK g \in groups :
               /\ groups' = groups \ {g}
               /\ pairs' = IF rule <= Len(trusted) THEN Consecutive(g) ELSE Combinations(g)
        BY <2>3, Zenon DEF OpenGroup
      <3>2. rule' = rule /\ kind = "deterministic" /\ rule # 0
        BY <2>0, <2>3 DEF OpenGroup
      <3>3. rule \in 1..Len(Rules)
        BY <2>0, <3>2, RulesAre
      <3>4. g \subseteq Records
        BY <3>3, RulesAre, GroupIs DEF KeyInv
      <3>5. pairs' \subseteq PairsOf(g)
        BY <3>1, ConsecutiveArePairs
      <3>6. pairs' \subseteq Pairs
        BY <3>4, <3>5, PairsAre
      <3> QED
        BY <2>0, <3>2, <3>6
    <2>4. CASE TrustedPair \/ CompositePair
      <3>1. pairs' \subseteq pairs /\ groups' = groups /\ rule' = rule
        BY <2>4 DEF TrustedPair, CompositePair
      <3> QED
        BY <2>0, <3>1
    <2> QED
      BY <2>1, <2>2, <2>3, <2>4 DEF MatchingNext, matchingVars, Refuse, ReturnClusters,
         GenerateCandidates, ScorePair, ReturnCandidates, exactVars
  <1>5. todo' \subseteq Pairs
    <2>1. CASE GenerateCandidates
      <3>1. PICK blocks \in BlockInputs :
              todo' \subseteq todo \cup UNION {PairsOf(g) :
                                  g \in UNION {GroupsOf(blocks[i]) : i \in DOMAIN blocks}}
        BY <2>1 DEF GenerateCandidates
      <3>2. \A i \in DOMAIN blocks : blocks[i] \in [Records -> Nat]
        BY MatchingAssumption
      <3>3. \A i \in DOMAIN blocks : \A g \in GroupsOf(blocks[i]) : PairsOf(g) \subseteq Pairs
        <4>1. \A i \in DOMAIN blocks : \A g \in GroupsOf(blocks[i]) : g \subseteq Records
          BY <3>2, GroupIs, Zenon
        <4>2. \A g : g \subseteq Records => PairsOf(g) \subseteq Pairs
          BY PairsAre
        <4> QED
          BY <4>1, <4>2, Zenon
      <3> QED
        BY <3>1, <3>3 DEF Shape
    <2>2. CASE ScorePair
      BY <2>2 DEF ScorePair, Shape
    <2>3. CASE UNCHANGED todo
      BY <2>3 DEF Shape
    <2> QED
      BY <2>1, <2>2, <2>3 DEF MatchingNext, matchingVars, scoreVars, Refuse, OpenRule, OpenGroup,
         TrustedPair, CompositePair, ReturnClusters, ReturnCandidates
  <1>6. /\ level' \in {NoMatch, Gray, AutoMatch}
        /\ trusted_ids' \in [Records -> SUBSET Nat] /\ cluster_sizes' \in [Records -> Nat]
    <2>0. /\ level \in {NoMatch, Gray, AutoMatch}
          /\ trusted_ids \in [Records -> SUBSET Nat] /\ cluster_sizes \in [Records -> Nat]
      BY DEF Shape
    <2>1. CASE UNCHANGED <<level, trusted_ids, cluster_sizes>>
      BY <2>0, <2>1
    <2>2. CASE ScorePair
      <3>0. PICK pair \in todo, range \in NextRange : \E o :
              Scored(pair, range, o, Find(parent, pair[1]), Find(parent, pair[2]))
        BY <2>2, ScorePairIs
      <3>1. LET a == Find(parent, pair[1])
                b == Find(parent, pair[2])
            IN  /\ level' = range
                /\ \/ /\ trusted_ids' = [trusted_ids EXCEPT
                           ![Winner(a, b)] = trusted_ids[a] \cup trusted_ids[b]]
                      /\ cluster_sizes' = [cluster_sizes EXCEPT
                           ![Winner(a, b)] = cluster_sizes[a] + cluster_sizes[b]]
                   \/ UNCHANGED <<trusted_ids, cluster_sizes>>
        BY <3>0, Zenon DEF Scored
      <3>2. PICK a, b : a = Find(parent, pair[1]) /\ b = Find(parent, pair[2])
        OBVIOUS
      <3>3. a \in Records /\ b \in Records
        <4>1. pair[1] \in DOMAIN parent /\ pair[2] \in DOMAIN parent
          BY DEF Shape, Pairs
        <4> QED
          BY <3>2, <4>1, FindIsRoot DEF Shape
      <3>4. level' \in {NoMatch, Gray, AutoMatch}
        BY <3>1 DEF NextRange
      <3>5. CASE UNCHANGED <<trusted_ids, cluster_sizes>>
        BY <2>0, <3>4, <3>5
      <3>6. CASE /\ trusted_ids' = [trusted_ids EXCEPT
                            ![Winner(a, b)] = trusted_ids[a] \cup trusted_ids[b]]
                 /\ cluster_sizes' = [cluster_sizes EXCEPT
                            ![Winner(a, b)] = cluster_sizes[a] + cluster_sizes[b]]
        <4>1. /\ trusted_ids[a] \cup trusted_ids[b] \in SUBSET Nat
              /\ cluster_sizes[a] + cluster_sizes[b] \in Nat
          BY <2>0, <3>3
        <4> QED
          BY <2>0, <3>4, <3>6, <4>1
      <3> QED
        BY <3>1, <3>2, <3>5, <3>6
    <2> QED
      BY <2>1, <2>2 DEF MatchingNext, matchingVars, scoreVars, Refuse, OpenRule, OpenGroup,
         TrustedPair, CompositePair, ReturnClusters, ReturnCandidates, GenerateCandidates
  <1>7. state' = "called" => results' = {} /\ rule' = 0
    <2>1. state' = "called" => state = "called"
      BY DEF MatchingNext, matchingVars, Refuse, OpenRule, OpenGroup,
         TrustedPair, CompositePair, ReturnClusters, ReturnCandidates, GenerateCandidates,
         ScorePair
    <2>2. ASSUME state = "called", state' = "called" PROVE results' = results /\ rule' = rule
      <3>1. groups = {} /\ pairs = {}
        BY <2>2 DEF Shape
      <3> QED
        BY <2>2, <3>1 DEF MatchingNext, matchingVars, exactVars, Refuse, OpenRule, OpenGroup,
         TrustedPair, CompositePair, ReturnClusters, ReturnCandidates, GenerateCandidates,
         ScorePair
    <2> QED
      BY <2>1, <2>2 DEF Shape
  <1> QED
    BY <1>1, <1>2, <1>3, <1>4, <1>5, <1>6, <1>7 DEF Shape, Pairs

LEMMA KeyStep ==
    ASSUME Shape, KeyInv, RootInv, [MatchingNext]_matchingVars
    PROVE  KeyInv'
  <1>1. Rules' = Rules
    BY StepIs DEF Rules
  <1>2. CASE groups' \subseteq groups /\ pairs' \subseteq pairs /\ rule' = rule
    BY <1>1, <1>2 DEF KeyInv, GroupsOf
  <1>3. CASE OpenRule
    BY <1>1, <1>3 DEF KeyInv, OpenRule, GroupsOf
  <1>4. CASE OpenGroup
    <2>1. PICK g \in groups :
             /\ groups' = groups \ {g}
             /\ pairs' = IF rule <= Len(trusted) THEN Consecutive(g) ELSE Combinations(g)
      BY <1>4, Zenon DEF OpenGroup
    <2>2. rule' = rule /\ rule \in 1..Len(Rules)
      BY <1>4, RulesAre DEF OpenGroup, Shape
    <2>3. PICK key \in [Records -> Nat] : key = Rules[rule] /\ g \in GroupsOf(key)
      BY <2>2, RulesAre DEF KeyInv
    <2>4. g \subseteq Records /\ \A r, s \in g : key[r] = key[s] /\ key[r] # NoKey
      BY <2>3, GroupIs
    <2>5. pairs' \subseteq PairsOf(g)
      BY <2>1, ConsecutiveArePairs
    <2>6. \A pair \in pairs' : key[pair[1]] = key[pair[2]] /\ key[pair[1]] # NoKey
      BY <2>4, <2>5, PairsAre
    <2>7. \A h \in groups' : h \in GroupsOf(key)
      BY <2>1, <2>3 DEF KeyInv
    <2>8. Rules'[rule'] = key
      BY <1>1, <2>2, <2>3
    <2> QED
      BY <2>6, <2>7, <2>8 DEF KeyInv, GroupsOf
  <1> QED
    BY <1>2, <1>3, <1>4 DEF MatchingNext, matchingVars, exactVars, Refuse,
         TrustedPair, CompositePair, ReturnClusters, ReturnCandidates, GenerateCandidates,
         ScorePair

\* A merge names the merged cluster by one of the two roots.
LEMMA JoinedRoots ==
    ASSUME NEW p, NEW q, NEW a, NEW b, Joined(p, q, a, b)
    PROVE  /\ Find(q, Winner(a, b)) = Winner(a, b) /\ Winner(a, b) \in {a, b}
           /\ \A r \in DOMAIN p : Find(q, r) = r =>
                  r = Winner(a, b) \/ (r \notin {a, b} /\ Find(p, r) = r)
  <1>1. Winner(a, b) \in {a, b}
    BY DEF Winner
  <1>2. PICK w : w = Winner(a, b)
    OBVIOUS
  <1>3. /\ a \in DOMAIN p /\ b \in DOMAIN p /\ Find(p, a) = a /\ Find(p, b) = b
        /\ \A k \in DOMAIN p : Find(q, k) =
               IF Find(p, k) \in {a, b} THEN w ELSE Find(p, k)
    BY <1>2 DEF Joined
  <1> QED
    BY <1>1, <1>2, <1>3

\* The records are finitely many.
LEMMA ClustersFinite ==
    ASSUME Shape, NEW k \in Records
    PROVE  IsFiniteSet(ClusterOf(parent, k)) /\ Cardinality(ClusterOf(parent, k)) \in Nat
  <1>1. ClusterOf(parent, k) \subseteq Records
    BY DEF Shape, ClusterOf, Members
  <1>2. IsFiniteSet(ClusterOf(parent, k))
    BY <1>1, MatchingAssumption, FS_Subset
  <1> QED
    BY <1>2, FS_CardinalityType

LEMMA DisjointSizes ==
    ASSUME NEW A, NEW B, IsFiniteSet(A), IsFiniteSet(B), A \cap B = {}
    PROVE  Cardinality(A \cup B) = Cardinality(A) + Cardinality(B)
  <1>1. Cardinality(A \cup B) = Cardinality(A) + Cardinality(B) - Cardinality(A \cap B)
    BY FS_Union
  <1>2. Cardinality(A \cap B) = 0
    BY FS_EmptySet
  <1>3. Cardinality(A) \in Nat /\ Cardinality(B) \in Nat
    BY FS_CardinalityType
  <1> QED
    BY <1>1, <1>2, <1>3

\* A step of the scored matcher that is no merge keeps what it knows of roots.
LEMMA RootsKept ==
    ASSUME Shape, RootInv, Same(parent, parent'), kind' = kind, trusted' = trusted,
           trusted_ids' = trusted_ids, cluster_sizes' = cluster_sizes
    PROVE  RootInv'
  <1>1. \A r \in Records : /\ Find(parent', r) = Find(parent, r)
                           /\ ClusterOf(parent', r) = ClusterOf(parent, r)
    BY SameClusters, ZenonT(60) DEF Same, Shape
  <1> QED
    BY <1>1 DEF RootInv

LEMMA RootStep ==
    ASSUME Shape, KeyInv, RootInv, [MatchingNext]_matchingVars
    PROVE  RootInv'
  <1>1. kind' = kind /\ trusted' = trusted
    BY StepIs
  <1> SUFFICES ASSUME kind = "probabilistic" PROVE RootInv'
    BY <1>1 DEF RootInv
  <1>2. pairs = {} /\ Forest(parent) /\ DOMAIN parent = Records
    BY DEF Shape
  <1>3. CASE ~ScorePair
    <2>1. parent' = parent /\ trusted_ids' = trusted_ids /\ cluster_sizes' = cluster_sizes
      BY <1>2, <1>3 DEF MatchingNext, matchingVars, scoreVars, Refuse, OpenRule, OpenGroup,
         TrustedPair, CompositePair, ReturnClusters, ReturnCandidates, GenerateCandidates
    <2>2. Same(parent, parent')
      BY <1>2, <2>1 DEF Same
    <2> QED
      BY <1>1, <2>1, <2>2, RootsKept
  <1>4. CASE ScorePair
    <2>1. PICK pair \in todo, range \in NextRange : \E o :
             Scored(pair, range, o, Find(parent, pair[1]), Find(parent, pair[2]))
      BY <1>4, ScorePairIs
    <2>2. PICK a, b : a = Find(parent, pair[1]) /\ b = Find(parent, pair[2])
      OBVIOUS
    <2>3. PICK o : /\ o.pair = pair
                   /\ \/ /\ Merge(o)
                         /\ trusted_ids' = [trusted_ids EXCEPT
                              ![Winner(a, b)] = trusted_ids[a] \cup trusted_ids[b]]
                         /\ cluster_sizes' = [cluster_sizes EXCEPT
                              ![Winner(a, b)] = cluster_sizes[a] + cluster_sizes[b]]
                      \/ /\ Inside(o) \/ Veto(o) \/ Offer(o)
                         /\ UNCHANGED <<trusted_ids, cluster_sizes>>
      BY <2>1, <2>2, Zenon DEF Scored
    <2>4. CASE Inside(o) \/ Veto(o) \/ Offer(o)
      <3>1. Same(parent, parent')
        BY <2>4 DEF Inside, Veto, Offer
      <3>2. UNCHANGED <<trusted_ids, cluster_sizes>>
        BY <2>3, <2>4 DEF Merge, Inside, Veto, Offer, Same, Joined
      <3> QED
        BY <1>1, <3>1, <3>2, RootsKept
    <2>5. CASE /\ Merge(o)
               /\ trusted_ids' = [trusted_ids EXCEPT
                    ![Winner(a, b)] = trusted_ids[a] \cup trusted_ids[b]]
               /\ cluster_sizes' = [cluster_sizes EXCEPT
                    ![Winner(a, b)] = cluster_sizes[a] + cluster_sizes[b]]
      <3>1. pair[1] \in Records /\ pair[2] \in Records
        BY DEF Shape, Pairs
      <3>2. Joined(parent, parent', a, b)
        BY <2>2, <2>3, <2>5 DEF Merge
      <3>3. PICK w : w = Winner(a, b)
        OBVIOUS
      <3>4. PICK A, B : A = ClusterOf(parent, pair[1]) /\ B = ClusterOf(parent, pair[2])
        OBVIOUS
      <3>5. /\ A \cap B = {}
            /\ \A k \in Records : ClusterOf(parent', k) =
                  IF k \in A \cup B THEN A \cup B ELSE ClusterOf(parent, k)
        <4>1. /\ pair[1] \in DOMAIN parent /\ pair[2] \in DOMAIN parent
              /\ Joined(parent, parent', Find(parent, pair[1]), Find(parent, pair[2]))
          BY <1>2, <2>2, <3>1, <3>2
        <4>2. Glued(parent, parent', A, B)
          BY <3>4, <4>1, JoinedClusters
        <4> QED
          BY <1>2, <4>2 DEF Glued
      <3>6. /\ a \in Records /\ b \in Records /\ Find(parent, a) = a /\ Find(parent, b) = b
            /\ A = ClusterOf(parent, a) /\ B = ClusterOf(parent, b)
        BY <1>2, <2>2, <3>2, <3>4 DEF Joined, ClusterOf
      <3>7. /\ cluster_sizes[a] = Cardinality(A) /\ cluster_sizes[b] = Cardinality(B)
            /\ trusted_ids[a] = Carried(trusted, A) /\ trusted_ids[b] = Carried(trusted, B)
        BY <3>6 DEF RootInv
      <3>8. /\ w \in {a, b}
            /\ \A r \in Records : Find(parent', r) = r =>
                   r = w \/ (r \notin {a, b} /\ Find(parent, r) = r)
        BY <1>2, <3>2, <3>3, JoinedRoots
      <3>9. /\ cluster_sizes'[w] = Cardinality(A \cup B)
            /\ trusted_ids'[w] = Carried(trusted, A \cup B)
            /\ ClusterOf(parent', w) = A \cup B
        <4>1. w \in Records /\ w \in A \cup B
          BY <1>2, <3>6, <3>8, ClusterIs
        <4>2. IsFiniteSet(A) /\ IsFiniteSet(B)
          BY <3>6, ClustersFinite
        <4>3. /\ cluster_sizes'[w] = cluster_sizes[a] + cluster_sizes[b]
              /\ trusted_ids'[w] = trusted_ids[a] \cup trusted_ids[b]
          BY <2>5, <3>3, <4>1 DEF Shape
        <4>4. Cardinality(A \cup B) = Cardinality(A) + Cardinality(B)
          BY <3>5, <4>2, DisjointSizes
        <4> QED
          BY <3>5, <3>7, <4>1, <4>3, <4>4, CarriedUnion
      <3>10. ASSUME NEW r \in Records, Find(parent', r) = r, r # w
             PROVE  /\ cluster_sizes'[r] = Cardinality(ClusterOf(parent', r))
                    /\ trusted_ids'[r] = Carried(trusted, ClusterOf(parent', r))
        <4>1. r \notin {a, b} /\ Find(parent, r) = r
          BY <3>8, <3>10
        <4>2. cluster_sizes'[r] = cluster_sizes[r] /\ trusted_ids'[r] = trusted_ids[r]
          BY <2>5, <3>3, <3>10 DEF Shape
        <4>3. r \notin A /\ r \notin B
          BY <1>2, <3>6, <4>1, ClusterIs
        <4>4. ClusterOf(parent', r) = ClusterOf(parent, r)
          BY <3>5, <4>3
        <4> QED
          BY <4>1, <4>2, <4>4 DEF RootInv
      <3> QED
        BY <1>1, <3>9, <3>10, Zenon DEF RootInv
    <2> QED
      BY <2>3, <2>4, <2>5
  <1> QED
    BY <1>3, <1>4

-----------------------------------------------------------------------------
(* Clusters are the components of the links *)

Core == Shape /\ KeyInv /\ RootInv

LEMMA CoreStep == Core /\ [MatchingNext]_matchingVars => Core'
  BY ShapeStep, KeyStep, RootStep DEF Core

ClusterInv ==
    /\ \A pair \in Linked : Together(pair)
    /\ \A k \in Records : Conn(ClusterOf(parent, k), Linked)

LEMMA LinkedGrows ==
    ASSUME NEW o, results' = results \cup {o}
    PROVE  /\ o.status = "auto_match" => Linked' = Linked \cup {o.pair}
           /\ o.status # "auto_match" => Linked' = Linked
  BY DEF Linked

LEMMA VetoedGrows ==
    ASSUME NEW o, results' = results \cup {o}
    PROVE  /\ o.status = "trusted_id_conflict" => Vetoed' = Vetoed \cup {o.pair}
           /\ o.status # "trusted_id_conflict" => Vetoed' = Vetoed
  BY DEF Vetoed

LEMMA ReportedPairs ==
    ASSUME Shape
    PROVE  Linked \subseteq Pairs /\ Vetoed \subseteq Pairs
  BY DEF Shape, Linked, Vetoed

\* Records that are together stay together.
LEMMA TogetherStays ==
    ASSUME Core, [MatchingNext]_matchingVars, NEW pair \in Pairs, Together(pair)
    PROVE  Together(pair)'
  <1>1. pair[1] \in DOMAIN parent /\ pair[2] \in DOMAIN parent
    BY DEF Core, Shape, Pairs
  <1>2. \/ Same(parent, parent')
        \/ \E a, b : Joined(parent, parent', a, b)
    BY StepIs, Zenon DEF Core, Quiet, Reports, Inside, Merge, Veto, Offer
  <1>3. CASE Same(parent, parent')
    BY <1>1, <1>3 DEF Same, Together
  <1>4. CASE \E a, b : Joined(parent, parent', a, b)
    BY <1>1, <1>4 DEF Joined, Together
  <1> QED
    BY <1>2, <1>3, <1>4

LEMMA ClusterInit == MatchingInit => ClusterInv
  <1> SUFFICES ASSUME MatchingInit PROVE ClusterInv
    OBVIOUS
  <1>1. Linked = {}
    BY DEF MatchingInit, Linked
  <1>2. \A k \in Records : ClusterOf(parent, k) = {k}
    BY SingletonsAre DEF MatchingInit
  <1>3. \A k \in Records : Conn(ClusterOf(parent, k), Linked)
    BY <1>2, ConnSmall
  <1> QED
    BY <1>1, <1>3 DEF ClusterInv

LEMMA ClusterStep ==
    ASSUME Core, ClusterInv, [MatchingNext]_matchingVars
    PROVE  ClusterInv'
  <1>1. Quiet \/ Reports
    BY StepIs DEF Core
  <1>2. DOMAIN parent = Records /\ Linked \subseteq Pairs
    BY ReportedPairs DEF Core, Shape
  <1>3. \A pair \in Linked : Together(pair)'
    BY <1>2, TogetherStays DEF ClusterInv
  <1>4. ASSUME Same(parent, parent'), Linked \subseteq Linked', \A pair \in Linked' : Together(pair)'
        PROVE  ClusterInv'
    <2>1. \A k \in Records : ClusterOf(parent', k) = ClusterOf(parent, k)
      BY <1>2, <1>4, SameClusters
    <2>2. \A k \in Records : Conn(ClusterOf(parent', k), Linked')
      BY <1>4, <2>1, ConnMonotone DEF ClusterInv
    <2> QED
      BY <1>4, <2>2 DEF ClusterInv
  <1>5. CASE Quiet
    <2>1. Linked' = Linked
      BY <1>5 DEF Quiet, Linked
    <2> QED
      BY <1>3, <1>4, <1>5, <2>1 DEF Quiet
  <1>6. CASE Reports
    <2>1. PICK o : /\ o.pair \in Pairs /\ results' = results \cup {o}
                   /\ Inside(o) \/ Merge(o) \/ Veto(o) \/ Offer(o)
      BY <1>6 DEF Reports
    <2>2. PICK pair \in Pairs : pair = o.pair
      BY <2>1
    <2>3. CASE Veto(o) \/ Offer(o)
      <3>1. Linked' = Linked
        BY <2>1, <2>3, LinkedGrows DEF Veto, Offer
      <3> QED
        BY <1>3, <1>4, <2>3, <3>1 DEF Veto, Offer
    <2>4. CASE Inside(o)
      <3>1. Linked' = Linked \cup {pair} /\ Same(parent, parent') /\ Together(pair)
        BY <2>1, <2>2, <2>4, LinkedGrows DEF Inside
      <3>2. Together(pair)'
        BY <3>1, TogetherStays
      <3>3. \A other \in Linked' : Together(other)'
        BY <1>3, <3>1, <3>2, Zenon
      <3> QED
        BY <1>4, <3>1, <3>3
    <2>5. CASE Merge(o)
      <3>1. /\ Linked' = Linked \cup {pair}
            /\ Joined(parent, parent', Find(parent, pair[1]), Find(parent, pair[2]))
        BY <2>1, <2>2, <2>5, LinkedGrows DEF Merge
      <3>2. PICK l \in Records, r \in Records : l = pair[1] /\ r = pair[2] /\ <<l, r>> = pair
        BY DEF Pairs
      <3>3. PICK A, B : A = ClusterOf(parent, l) /\ B = ClusterOf(parent, r)
        OBVIOUS
      <3>4. \A k \in Records : ClusterOf(parent', k) =
                  IF k \in A \cup B THEN A \cup B ELSE ClusterOf(parent, k)
        <4>1. Joined(parent, parent', Find(parent, l), Find(parent, r))
          BY <3>1, <3>2
        <4>2. Glued(parent, parent', A, B)
          BY <1>2, <3>3, <4>1, JoinedClusters
        <4> QED
          BY <1>2, <4>2 DEF Glued
      <3>5. l \in A /\ r \in B
        BY <1>2, <3>3, ClusterIs
      <3>6. PICK L : L = Linked'
        OBVIOUS
      <3>7. \A k \in Records : Conn(ClusterOf(parent, k), L)
        BY <3>1, <3>6, ConnMonotone DEF ClusterInv
      <3>8. Conn(A \cup B, L)
        <4>1. Conn(A, L) /\ Conn(B, L) /\ <<l, r>> \in L
          BY <3>1, <3>2, <3>3, <3>6, <3>7
        <4> QED
          BY <3>5, <4>1, ConnUnion
      <3>9. \A k \in Records : Conn(ClusterOf(parent', k), L)
        BY <3>4, <3>7, <3>8
      <3>10. Together(pair)'
        <4>1. l \in ClusterOf(parent', l) /\ r \in ClusterOf(parent', l)
          BY <3>4, <3>5
        <4> QED
          BY <3>2, <4>1 DEF ClusterOf, Members, Together
      <3>11. \A other \in Linked' : Together(other)'
        BY <1>3, <3>1, <3>10, Zenon
      <3> QED
        BY <3>6, <3>9, <3>11 DEF ClusterInv
    <2> QED
      BY <2>1, <2>3, <2>4, <2>5
  <1> QED
    BY <1>1, <1>5, <1>6

\* ClusterInv is the property, for finds instead of sets of clusters.
LEMMA ClustersFollow ==
    ASSUME Core, ClusterInv
    PROVE  ClustersAreComponents
  <1>1. Forest(parent) /\ DOMAIN parent = Records
    BY DEF Core, Shape
  <1> SUFFICES ASSUME NEW c \in Clusters(parent)
               PROVE  /\ Connected(c, LAMBDA r, s : <<r, s>> \in Linked)
                      /\ \A r \in c : Find(parent, r) \in c /\ Find(parent, r) <= r
    BY DEF ClustersAreComponents, ClusterInv
  <1>2. PICK k \in Records : c = ClusterOf(parent, k)
    BY <1>1 DEF Clusters, ClusterOf
  <1>3. Conn(c, Linked)
    BY <1>2 DEF ClusterInv
  <1>4. Connected(c, LAMBDA r, s : <<r, s>> \in Linked)
    BY <1>3 DEF Conn, Connected
  <1>5. ASSUME NEW r \in c PROVE Find(parent, r) \in c /\ Find(parent, r) <= r
    <2>1. r \in DOMAIN parent /\ Find(parent, r) = Find(parent, k)
      BY <1>1, <1>2, ClusterIs
    <2>2. /\ Find(parent, r) \in DOMAIN parent /\ Find(parent, r) <= r
          /\ Find(parent, Find(parent, r)) = Find(parent, r)
      BY <1>1, <2>1, FindIsRoot
    <2> QED
      BY <1>2, <2>1, <2>2 DEF ClusterOf, Members
  <1> QED
    BY <1>4, <1>5

\* Whatever rules, keys and scores a call of either matcher meets, and however
\* find's path compressions and union's re-rootings mix, union-find's clusters are
\* the connected components of the links reported as auto_match, each named by its
\* smallest record key.
THEOREM ClustersAreAlwaysComponents == MatchingSpec => []ClustersAreComponents
  <1>1. MatchingInit => Core /\ ClusterInv
    BY ShapeInit, ClusterInit DEF Core
  <1>2. Core /\ ClusterInv /\ [MatchingNext]_matchingVars => Core' /\ ClusterInv'
    BY CoreStep, ClusterStep
  <1>3. Core /\ ClusterInv => ClustersAreComponents
    BY ClustersFollow
  <1> QED
    BY <1>1, <1>2, <1>3, PTL DEF MatchingSpec

-----------------------------------------------------------------------------
(* The impact shown to a reviewer is final *)

ReviewInv ==
    kind = "probabilistic" => \A o \in results : o.status = "review" =>
        LET left == ClusterOf(parent, o.pair[1])
            right == ClusterOf(parent, o.pair[2])
        IN  /\ level # AutoMatch
            /\ o.left_size = Cardinality(left) /\ o.right_size = Cardinality(right)
            /\ o.merged_size = Cardinality(left \cup right)

LEMMA ReviewStep ==
    ASSUME Core, ReviewInv, [MatchingNext]_matchingVars
    PROVE  ReviewInv'
  <1>1. kind' = kind /\ trusted' = trusted
    BY StepIs DEF Core
  <1> SUFFICES ASSUME kind = "probabilistic" PROVE ReviewInv'
    BY <1>1 DEF ReviewInv
  <1>2. pairs = {} /\ Forest(parent) /\ DOMAIN parent = Records /\ level \in {NoMatch, Gray, AutoMatch}
    BY DEF Core, Shape
  <1>3. CASE ~ScorePair
    <2>1. parent' = parent /\ results' = results /\ level' = level
      BY <1>2, <1>3 DEF MatchingNext, matchingVars, scoreVars, Refuse, OpenRule, OpenGroup,
         TrustedPair, CompositePair, ReturnClusters, ReturnCandidates, GenerateCandidates
    <2> QED
      BY <1>1, <2>1 DEF ReviewInv
  <1>4. CASE ScorePair
    <2>1. PICK pair \in todo, range \in NextRange : \E o :
             Scored(pair, range, o, Find(parent, pair[1]), Find(parent, pair[2]))
      BY <1>4, ScorePairIs DEF Core
    <2>2. PICK a, b : a = Find(parent, pair[1]) /\ b = Find(parent, pair[2])
      OBVIOUS
    <2>3. PICK o : /\ level' = range
                   /\ o.pair = pair /\ results' = results \cup {o}
                   /\ o.left_size = cluster_sizes[a] /\ o.right_size = cluster_sizes[b]
                   /\ o.merged_size = IF a = b THEN cluster_sizes[a]
                                      ELSE cluster_sizes[a] + cluster_sizes[b]
                   /\ o.status = "review" => range # AutoMatch
                   /\ \/ Merge(o) /\ range = AutoMatch
                      \/ Inside(o) \/ Veto(o) \/ Offer(o)
      BY <2>1, <2>2, Zenon DEF Scored
    <2>4. range = AutoMatch => level = AutoMatch
      BY <1>2 DEF NextRange, NoMatch, Gray, AutoMatch
    <2>5. CASE Merge(o) /\ range = AutoMatch
      <3>1. o.status # "review"
        BY <2>5 DEF Merge
      <3>2. \A x \in results' : x.status # "review"
        BY <2>3, <2>4, <2>5, <3>1 DEF ReviewInv
      <3> QED
        BY <3>2 DEF ReviewInv
    <2>6. CASE Inside(o) \/ Veto(o) \/ Offer(o)
      <3>1. Same(parent, parent')
        BY <2>6 DEF Inside, Veto, Offer
      <3>2. \A k \in Records : ClusterOf(parent', k) = ClusterOf(parent, k)
        BY <1>2, <3>1, SameClusters
      <3>3. \A x \in results' : x.pair[1] \in Records /\ x.pair[2] \in Records
        BY CoreStep DEF Core, Shape, Pairs
      <3> SUFFICES ASSUME NEW x \in results', x.status = "review"
                   PROVE  LET left == ClusterOf(parent, x.pair[1])
                              right == ClusterOf(parent, x.pair[2])
                          IN  /\ range # AutoMatch
                              /\ x.left_size = Cardinality(left)
                              /\ x.right_size = Cardinality(right)
                              /\ x.merged_size = Cardinality(left \cup right)
        BY <2>3, <3>2, <3>3 DEF ReviewInv
      <3>4. CASE x \in results
        BY <2>4, <3>4 DEF ReviewInv
      <3>5. CASE x = o
        <4>1. pair[1] \in Records /\ pair[2] \in Records
          BY DEF Core, Shape, Pairs
        <4>2. PICK A, B : A = ClusterOf(parent, pair[1]) /\ B = ClusterOf(parent, pair[2])
          OBVIOUS
        <4>3. /\ a \in Records /\ b \in Records /\ Find(parent, a) = a /\ Find(parent, b) = b
              /\ A = ClusterOf(parent, a) /\ B = ClusterOf(parent, b)
          BY <1>2, <2>2, <4>1, <4>2, FindIsRoot DEF ClusterOf
        <4>4. cluster_sizes[a] = Cardinality(A) /\ cluster_sizes[b] = Cardinality(B)
          BY <4>3 DEF Core, RootInv
        <4>5. o.merged_size = Cardinality(A \cup B)
          <5>1. CASE a = b
            <6>1. A \cup B = A
              BY <4>3, <5>1
            <6> QED
              BY <2>3, <4>4, <5>1, <6>1
          <5>2. CASE a # b
            <6>1. A \cap B = {}
              BY <2>2, <4>2, <5>2 DEF ClusterOf, Members
            <6>2. IsFiniteSet(A) /\ IsFiniteSet(B)
              BY <4>3, ClustersFinite DEF Core
            <6> QED
              BY <2>3, <4>4, <5>2, <6>1, <6>2, DisjointSizes
          <5> QED
            BY <5>1, <5>2
        <4> QED
          BY <2>3, <3>5, <4>2, <4>4, <4>5
      <3> QED
        BY <2>3, <3>4, <3>5
    <2> QED
      BY <2>3, <2>5, <2>6
  <1> QED
    BY <1>3, <1>4

LEMMA ImpactFollows ==
    ASSUME Core, ReviewInv
    PROVE  ImpactStands
  <1>1. Forest(parent) /\ DOMAIN parent = Records
    BY DEF Core, Shape
  <1>2. ASSUME NEW r \in Records, kind = "probabilistic", parent[r] = r
        PROVE  /\ cluster_sizes[r] = Cardinality(Members(parent, r))
               /\ trusted_ids[r] = ClusterTrustedValues(r)
    <2>1. Find(parent, r) = r
      BY <1>1, <1>2, FindUnfolds
    <2> QED
      BY <1>2, <2>1 DEF Core, RootInv, ClusterOf, Carried, Keys, TrustedOf, ClusterTrustedValues
  <1> QED
    BY <1>2 DEF ImpactStands, ReviewInv, ClusterOf

\* For every number of records and every order of scores, the sizes and trusted
\* ids run keeps per root are those of the root's members, and the cluster impact
\* it stored with a pair for review is that of the clusters the call ends with.
THEOREM ImpactAlwaysStands == MatchingSpec => []ImpactStands
  <1>1. MatchingInit => Core /\ ReviewInv
    BY ShapeInit DEF Core, MatchingInit, ReviewInv
  <1>2. Core /\ ReviewInv /\ [MatchingNext]_matchingVars => Core' /\ ReviewInv'
    BY CoreStep, ReviewStep
  <1>3. Core /\ ReviewInv => ImpactStands
    BY ImpactFollows
  <1> QED
    BY <1>1, <1>2, <1>3, PTL DEF MatchingSpec

-----------------------------------------------------------------------------
(* No trusted identities are bridged *)

\* Values of different trusted rules differ. cluster_trusted_values collects the
\* keys of all trusted rules in one set: equal values of two rules would pass
\* for a shared identifier.
Distinct(t) ==
    \A i, j \in DOMAIN t : \A r, s \in Records :
        t[i][r] = t[j][s] /\ t[i][r] # NoKey => i = j

DistinctRules == \A i \in ExactInputs : Distinct(i.trusted)

Carriers(t, C) == {r \in C : Keys(t, r) # {}}
Shared(t) == {pair \in Pairs : ShareKey(t, pair[1], pair[2])}

BridgeInv ==
    /\ Distinct(trusted)
    /\ \A k \in Records : Conn(Carriers(trusted, ClusterOf(parent, k)), Shared(trusted))

LEMMA ValueIsShared ==
    ASSUME NEW t, Distinct(t), NEW r \in Records, NEW s \in Records, NEW v,
           v \in Keys(t, r), v \in Keys(t, s)
    PROVE  ShareKey(t, r, s)
  BY DEF Keys, Distinct, ShareKey

LEMMA SharedIsCarried ==
    ASSUME NEW t, NEW r, NEW s, ShareKey(t, r, s)
    PROVE  \E v : v \in Keys(t, r) /\ v \in Keys(t, s)
  BY DEF Keys, ShareKey

LEMMA DistinctInit == DistinctRules /\ MatchingInit => Distinct(trusted)
  <1> SUFFICES ASSUME DistinctRules, MatchingInit PROVE Distinct(trusted)
    OBVIOUS
  <1>1. CASE kind = "deterministic"
    BY <1>1 DEF MatchingInit, DistinctRules
  <1>2. CASE kind = "probabilistic"
    <2>1. PICK ids : trusted = <<ids>>
      BY <1>2 DEF MatchingInit
    <2> QED
      BY <2>1 DEF Distinct
  <1> QED
    BY <1>1, <1>2 DEF MatchingInit

LEMMA BridgeInit == DistinctRules /\ MatchingInit => BridgeInv
  <1> SUFFICES ASSUME DistinctRules, MatchingInit PROVE BridgeInv
    OBVIOUS
  <1>1. \A k \in Records : ClusterOf(parent, k) = {k}
    BY SingletonsAre DEF MatchingInit
  <1>2. \A k \in Records : \A r, s \in Carriers(trusted, ClusterOf(parent, k)) : r = s
    BY <1>1 DEF Carriers
  <1>3. \A k \in Records : Conn(Carriers(trusted, ClusterOf(parent, k)), Shared(trusted))
    BY <1>2, ConnSmall
  <1> QED
    BY <1>3, DistinctInit DEF BridgeInv

LEMMA BridgeStep ==
    ASSUME Core, BridgeInv, [MatchingNext]_matchingVars
    PROVE  BridgeInv'
  <1>1. trusted' = trusted /\ (Quiet \/ Reports)
    BY StepIs DEF Core
  <1>2. DOMAIN parent = Records
    BY DEF Core, Shape
  <1>3. CASE Same(parent, parent')
    <2>1. \A k \in Records : ClusterOf(parent', k) = ClusterOf(parent, k)
      BY <1>2, <1>3, SameClusters
    <2> QED
      BY <1>1, <2>1 DEF BridgeInv
  <1>4. ASSUME NEW o, o.pair \in Pairs, Merge(o) PROVE BridgeInv'
    <2>1. PICK l \in Records, r \in Records : l = o.pair[1] /\ r = o.pair[2]
      BY <1>4 DEF Pairs
    <2>2. PICK A, B : A = ClusterOf(parent, l) /\ B = ClusterOf(parent, r)
      OBVIOUS
    <2>3. Joined(parent, parent', Find(parent, l), Find(parent, r))
      BY <1>4, <2>1 DEF Merge
    <2>4. \A k \in Records : ClusterOf(parent', k) =
                IF k \in A \cup B THEN A \cup B ELSE ClusterOf(parent, k)
      <3>1. Glued(parent, parent', A, B)
        BY <1>2, <2>2, <2>3, JoinedClusters
      <3> QED
        BY <1>2, <3>1 DEF Glued
    <2>5. l \in A /\ r \in B /\ A \subseteq Records /\ B \subseteq Records
      BY <1>2, <2>2, ClusterIs
    <2>6. PICK t : t = trusted
      OBVIOUS
    <2>7. PICK S : S = Shared(t)
      OBVIOUS
    <2>8. PICK X, Y : X = Carriers(t, A) /\ Y = Carriers(t, B)
      OBVIOUS
    <2>9. Conn(X, S) /\ Conn(Y, S) /\ Carriers(t, A \cup B) = X \cup Y
      BY <2>2, <2>6, <2>7, <2>8 DEF BridgeInv, Carriers
    <2>10. ASSUME NEW x \in A, NEW y \in B, ShareKey(t, x, y)
           PROVE  Conn(X \cup Y, S)
      <3>1. x \in X /\ y \in Y
        BY <2>8, <2>10, SharedIsCarried DEF Carriers
      <3>2. <<x, y>> \in S
        BY <2>5, <2>7, <2>10 DEF Shared, Pairs
      <3> QED
        BY <2>9, <3>1, <3>2, ConnUnion
    <2>11. Conn(X \cup Y, S)
      <3>1. CASE ShareKey(t, l, r)
        BY <2>5, <2>10, <3>1
      <3>2. CASE ~Judged(o)
        <4>1. \/ Carried(t, A) = {} \/ Carried(t, B) = {}
              \/ \E v : v \in Carried(t, A) /\ v \in Carried(t, B)
          BY <2>1, <2>2, <2>6, <3>2 DEF Judged, Conflicting
        <4>2. CASE Carried(t, A) = {}
          <5>1. X = {}
            BY <2>8, <4>2 DEF Carriers, Carried
          <5> QED
            BY <2>9, <5>1
        <4>3. CASE Carried(t, B) = {}
          <5>1. Y = {}
            BY <2>8, <4>3 DEF Carriers, Carried
          <5> QED
            BY <2>9, <5>1
        <4>4. CASE \E v : v \in Carried(t, A) /\ v \in Carried(t, B)
          <5>1. PICK v : v \in Carried(t, A) /\ v \in Carried(t, B)
            BY <4>4
          <5>2. PICK x \in A : v \in Keys(t, x)
            BY <5>1, CarriedBy
          <5>3. PICK y \in B : v \in Keys(t, y)
            BY <5>1, CarriedBy
          <5>4. Distinct(t) /\ x \in Records /\ y \in Records
            BY <2>5, <2>6 DEF BridgeInv
          <5>5. ShareKey(t, x, y)
            BY <5>2, <5>3, <5>4, ValueIsShared
          <5> QED
            BY <2>10, <5>5
        <4> QED
          BY <4>1, <4>2, <4>3, <4>4
      <3> QED
        BY <1>4, <2>1, <2>6, <3>1, <3>2 DEF Merge
    <2>12. \A k \in Records : Conn(Carriers(t, ClusterOf(parent', k)), S)
      <3> SUFFICES ASSUME NEW k \in Records PROVE Conn(Carriers(t, ClusterOf(parent', k)), S)
        OBVIOUS
      <3>1. CASE k \in A \cup B
        <4>1. ClusterOf(parent', k) = A \cup B
          BY <2>4, <3>1
        <4> QED
          BY <2>9, <2>11, <4>1
      <3>2. CASE k \notin A \cup B
        <4>1. ClusterOf(parent', k) = ClusterOf(parent, k)
          BY <2>4, <3>2
        <4> QED
          BY <2>6, <2>7, <4>1 DEF BridgeInv
      <3> QED
        BY <3>1, <3>2
    <2> QED
      BY <1>1, <2>6, <2>7, <2>12 DEF BridgeInv
  <1> QED
    BY <1>1, <1>3, <1>4, Zenon DEF Quiet, Reports, Inside, Veto, Offer

LEMMA BridgeFollows ==
    ASSUME Core, BridgeInv
    PROVE  TrustedNeverBridged
  <1>1. DOMAIN parent = Records
    BY DEF Core, Shape
  <1> SUFFICES ASSUME NEW c \in Clusters(parent)
               PROVE  Connected({r \in c : TrustedOf(r) # {}},
                                LAMBDA r, s : ShareKey(trusted, r, s))
    BY DEF TrustedNeverBridged
  <1>2. PICK k \in Records : c = ClusterOf(parent, k)
    BY <1>1 DEF Clusters, ClusterOf
  <1>3. PICK X : X = {r \in c : TrustedOf(r) # {}}
    OBVIOUS
  <1>4. X = Carriers(trusted, c)
    BY <1>3 DEF Carriers, TrustedOf, Keys
  <1>5. Conn(X, Shared(trusted))
    BY <1>2, <1>4 DEF BridgeInv
  <1>6. Connected(X, LAMBDA r, s : ShareKey(trusted, r, s))
    <2> SUFFICES ASSUME NEW part \in (SUBSET X) \ {{}, X}
                 PROVE  \E r \in part, s \in X \ part :
                            ShareKey(trusted, r, s) \/ ShareKey(trusted, s, r)
      BY DEF Connected
    <2>1. PICK r \in part, s \in X \ part :
             <<r, s>> \in Shared(trusted) \/ <<s, r>> \in Shared(trusted)
      BY <1>5, Zenon DEF Conn
    <2> QED
      BY <2>1 DEF Shared
  <1> QED
    BY <1>3, <1>6

\* When the values of different trusted rules differ, no composite rule of match
\* and no score of run joins two trusted identities, whatever chain of records
\* without identifiers leads from the one to the other.
THEOREM TrustedIsNeverBridged ==
    ASSUME DistinctRules
    PROVE  MatchingSpec => []TrustedNeverBridged
  <1>1. MatchingInit => Core /\ BridgeInv
    BY ShapeInit, BridgeInit DEF Core
  <1>2. Core /\ BridgeInv /\ [MatchingNext]_matchingVars => Core' /\ BridgeInv'
    BY CoreStep, BridgeStep
  <1>3. Core /\ BridgeInv => TrustedNeverBridged
    BY BridgeFollows
  <1> QED
    BY <1>1, <1>2, <1>3, PTL DEF MatchingSpec

-----------------------------------------------------------------------------
(* The outcomes agree with the final clusters *)

\* The scored matcher knows one trusted rule: no cluster has two identifiers.
OneInv ==
    kind = "probabilistic" => \A k \in Records :
        \A u, v \in Carried(trusted, ClusterOf(parent, k)) : u = v

\* The clusters of a reported conflict still conflict, and the trusted rules
\* report none.
VetoInv ==
    /\ \A pair \in Vetoed : Conflicting(Carried(trusted, ClusterOf(parent, pair[1])),
                                        Carried(trusted, ClusterOf(parent, pair[2])))
    /\ kind = "deterministic" /\ rule <= Len(trusted) => Vetoed = {}

Settled(pair) == Together(pair) \/ pair \in Vetoed

PairsFor(i, g) == IF i <= Len(trusted) THEN Consecutive(g) ELSE Combinations(g)

\* The pairs of every rule opened so far are settled or still to be visited.
DoneInv ==
    kind = "deterministic" => \A i \in 1..Len(Rules) : i <= rule =>
        \A g \in GroupsOf(Rules[i]) :
            \/ i = rule /\ g \in groups
            \/ \A pair \in PairsFor(i, g) : Settled(pair) \/ (i = rule /\ pair \in pairs)

\* A call returns after the last pair of the last rule; a scored pair is
\* decided once.
EndInv ==
    /\ kind = "deterministic" /\ state = "returned" =>
           rule = Len(Rules) /\ groups = {} /\ pairs = {}
    /\ kind = "probabilistic" => /\ \A o \in results : o.pair \notin todo
                                 /\ \A o, q \in results : o.pair = q.pair => o = q

DecisionInv == Distinct(trusted) /\ OneInv /\ VetoInv /\ DoneInv /\ EndInv

\* Neighbours in key order that are together chain a whole group together.
LEMMA ChainIsTogether ==
    ASSUME NEW p, NEW g, g \subseteq Nat,
           \A pair \in Consecutive(g) : Find(p, pair[1]) = Find(p, pair[2]),
           NEW r \in g, NEW s \in g
    PROVE  Find(p, r) = Find(p, s)
  <1>1. PICK m \in g : \A n \in g : m <= n
    BY LeastNat
  <1> DEFINE Bad == {n \in g : Find(p, n) # Find(p, m)}
  <1>2. Bad = {}
    <2> SUFFICES ASSUME Bad # {} PROVE FALSE
      OBVIOUS
    <2>1. Bad \subseteq Nat
      OBVIOUS
    <2> HIDE DEF Bad
    <2>2. PICK n \in Bad : \A k \in Bad : n <= k
      BY <2>1, LeastNat
    <2>3. n \in g /\ n \in Nat /\ m \in Nat /\ m <= n /\ m # n
      BY <1>1 DEF Bad
    <2> DEFINE Gaps == {n - k : k \in {k \in g : k < n}}
    <2>4. Gaps \subseteq Nat /\ n - m \in Gaps
      BY <2>3
    <2>5. PICK d \in Gaps : \A e \in Gaps : d <= e
      <3> HIDE DEF Gaps
      <3> QED
        BY <2>4, LeastNat
    <2>6. PICK k \in g : k < n /\ d = n - k
      OBVIOUS
    <2>7. \A j \in g : ~(k < j /\ j < n)
      <3> SUFFICES ASSUME NEW j \in g, k < j, j < n PROVE FALSE
        OBVIOUS
      <3>1. n - j \in Gaps
        OBVIOUS
      <3>2. n - k <= n - j
        BY <2>5, <2>6, <3>1
      <3>3. j \in Nat /\ k \in Nat
        OBVIOUS
      <3> QED
        BY <2>3, <3>2, <3>3
    <2>8. <<k, n>> \in Consecutive(g)
      BY <2>3, <2>6, <2>7 DEF Consecutive, PairsOf
    <2>9. Find(p, k) = Find(p, n)
      BY <2>8
    <2>10. k \notin Bad
      BY <2>2, <2>3, <2>6
    <2> QED
      BY <2>2, <2>9, <2>10 DEF Bad
  <1> QED
    BY <1>2

\* A rule that is done has put its groups together or reported conflicts.
LEMMA RuleDone ==
    ASSUME Core, DecisionInv, kind = "deterministic", NEW i \in 1..Len(Rules), i <= rule,
           i = rule => groups = {} /\ pairs = {}, NEW g \in GroupsOf(Rules[i]),
           NEW pair \in PairsFor(i, g)
    PROVE  Settled(pair)
  BY DEF DecisionInv, DoneInv

\* Records that share a trusted key are together when its rule is done.
LEMMA TrustedTogether ==
    ASSUME Core, DecisionInv, kind = "deterministic", NEW i \in 1..Len(trusted), i <= rule,
           i = rule => groups = {} /\ pairs = {},
           NEW r \in Records, NEW s \in Records,
           trusted[i][r] = trusted[i][s], trusted[i][r] # NoKey
    PROVE  Find(parent, r) = Find(parent, s)
  <1>1. /\ i \in 1..Len(Rules) /\ Rules[i] = trusted[i] /\ Rules[i] \in [Records -> Nat]
        /\ i \in DOMAIN trusted
    <2>1. /\ Rules[i] = trusted[i] /\ Len(trusted) \in Nat /\ Len(composite) \in Nat
          /\ Len(Rules) = Len(trusted) + Len(composite)
      BY RulesAre DEF Core
    <2>2. i \in 1..Len(Rules)
      BY <2>1
    <2>3. i \in DOMAIN trusted
      BY DEF Core, Shape
    <2> QED
      BY <2>1, <2>2, <2>3, RulesAre DEF Core
  <1>2. PICK key \in [Records -> Nat] : key = trusted[i]
    BY <1>1
  <1>3. PICK g : g = {x \in Records : key[x] = key[r]}
    OBVIOUS
  <1>4. g \in GroupsOf(key) /\ r \in g /\ s \in g
    BY <1>2, <1>3, GroupOf
  <1>5. g \subseteq Records /\ \A x, y \in g : key[x] = key[y] /\ key[x] # NoKey
    BY <1>4, GroupIs
  <1>6. \A pair \in Consecutive(g) : Find(parent, pair[1]) = Find(parent, pair[2])
    <2> SUFFICES ASSUME NEW pair \in Consecutive(g)
                 PROVE  Find(parent, pair[1]) = Find(parent, pair[2])
      OBVIOUS
    <2>1. pair \in PairsFor(i, g)
      BY DEF PairsFor
    <2>2. Settled(pair)
      BY <1>1, <1>2, <1>4, <2>1, RuleDone
    <2>3. pair[1] \in g /\ pair[2] \in g
      BY <1>5, ConsecutiveArePairs, PairsAre
    <2>4. pair[1] \in DOMAIN parent /\ pair[2] \in DOMAIN parent
      BY <1>5, <2>3 DEF Core, Shape
    <2>5. key[pair[1]] \in Keys(trusted, pair[1]) /\ key[pair[1]] \in Keys(trusted, pair[2])
      BY <1>1, <1>2, <1>5, <2>3 DEF Keys
    <2>6. /\ key[pair[1]] \in Carried(trusted, ClusterOf(parent, pair[1]))
          /\ key[pair[1]] \in Carried(trusted, ClusterOf(parent, pair[2]))
      BY <2>4, <2>5, ClusterIs, CarriedBy
    <2>7. pair \notin Vetoed
      BY <2>6 DEF DecisionInv, VetoInv, Conflicting
    <2> QED
      BY <2>2, <2>7 DEF Settled, Together
  <1>7. g \subseteq Nat
    BY <1>5, MatchingAssumption
  <1> QED
    BY <1>4, <1>6, <1>7, ChainIsTogether

\* Once conflicts can have been reported, clusters that merge have no
\* identifiers on one side, or the same on both.
LEMMA MergedIds ==
    ASSUME Core, DecisionInv, NEW o, o.pair \in Pairs, Merge(o),
           kind = "deterministic" => rule > Len(trusted),
           NEW X, X = Carried(trusted, ClusterOf(parent, o.pair[1])),
           NEW Y, Y = Carried(trusted, ClusterOf(parent, o.pair[2]))
    PROVE  X = {} \/ Y = {} \/ X = Y
  <1>1. PICK l \in Records, r \in Records : l = o.pair[1] /\ r = o.pair[2]
    BY DEF Pairs
  <1>2. PICK A, B : A = ClusterOf(parent, l) /\ B = ClusterOf(parent, r)
    OBVIOUS
  <1>3. /\ X = Carried(trusted, A) /\ Y = Carried(trusted, B) /\ DOMAIN parent = Records
    BY <1>1, <1>2 DEF Core, Shape
  <1>4. A \subseteq Records /\ B \subseteq Records /\ A \cap B = {}
    <2>1. Joined(parent, parent', Find(parent, l), Find(parent, r))
      BY <1>1 DEF Merge
    <2>2. l \in DOMAIN parent /\ r \in DOMAIN parent
      BY <1>3
    <2>3. Find(parent, l) # Find(parent, r)
      BY <2>1 DEF Joined
    <2>4. A \cap B = {}
      BY <1>2, <2>3 DEF ClusterOf, Members
    <2> QED
      BY <1>2, <1>3, <2>2, <2>4, ClusterIs
  <1>5. X = {} \/ Y = {} \/ \E v : v \in X /\ v \in Y
    <2>1. ~Judged(o)
      <3>1. CASE kind = "deterministic"
        <4>1. rule > Len(trusted) /\ rule \in Nat /\ Len(trusted) \in Nat
          <5>1. Len(trusted) \in Nat /\ Len(composite) \in Nat
            BY RulesAre DEF Core
          <5>2. rule \in 0..(Len(trusted) + Len(composite))
            BY DEF Core, Shape
          <5> QED
            BY <3>1, <5>1, <5>2
        <4>2. ~(rule <= Len(trusted))
          BY <4>1
        <4> QED
          BY <4>2 DEF Merge
      <3>2. CASE kind # "deterministic"
        BY <3>2 DEF Merge
      <3> QED
        BY <3>1, <3>2
    <2> QED
      BY <2>1 DEF Judged, Conflicting
  <1>6. CASE kind = "probabilistic"
    <2>1. \A u, v \in X : u = v
      BY <1>2, <1>3, <1>6 DEF DecisionInv, OneInv
    <2>2. \A u, v \in Y : u = v
      BY <1>2, <1>3, <1>6 DEF DecisionInv, OneInv
    <2>3. ASSUME NEW v, v \in X, v \in Y PROVE X = Y
      <3>1. \A u : u \in X <=> u = v
        BY <2>1, <2>3, Zenon
      <3>2. \A u : u \in Y <=> u = v
        BY <2>2, <2>3, Zenon
      <3>3. \A u : u \in X <=> u \in Y
        BY <3>1, <3>2, Zenon
      <3> QED
        BY <3>3
    <2> QED
      BY <1>5, <2>3
  <1>7. CASE kind = "deterministic"
    <2>1. ASSUME NEW v, v \in X, v \in Y PROVE FALSE
      <3>1. PICK x \in A : v \in Keys(trusted, x)
        BY <1>3, <2>1, CarriedBy
      <3>2. PICK y \in B : v \in Keys(trusted, y)
        BY <1>3, <2>1, CarriedBy
      <3>3. x \in Records /\ y \in Records
        BY <1>4
      <3>4. ShareKey(trusted, x, y)
        BY <3>1, <3>2, <3>3, ValueIsShared DEF DecisionInv
      <3>5. PICK i \in DOMAIN trusted : trusted[i][x] = trusted[i][y] /\ trusted[i][x] # NoKey
        BY <3>4 DEF ShareKey
      <3>6. i \in 1..Len(trusted)
        BY DEF Core, Shape
      <3>7. i <= rule /\ i # rule
        <4>1. rule > Len(trusted) /\ Len(trusted) \in Nat /\ rule \in Nat
          <5>1. Len(trusted) \in Nat /\ Len(composite) \in Nat
            BY RulesAre DEF Core
          <5>2. rule \in 0..(Len(trusted) + Len(composite))
            BY DEF Core, Shape
          <5> QED
            BY <1>7, <5>1, <5>2
        <4> QED
          BY <3>6, <4>1
      <3>8. Find(parent, x) = Find(parent, y)
        BY <1>7, <3>3, <3>5, <3>6, <3>7, TrustedTogether
      <3>9. y \in A
        BY <1>2, <1>3, <3>3, <3>8, ClusterIs
      <3> QED
        BY <1>4, <3>9
    <2> QED
      BY <1>5, <2>1
  <1> QED
    BY <1>6, <1>7 DEF Core, Shape

LEMMA MergeTogether ==
    ASSUME Core, NEW o, o.pair \in Pairs, Merge(o)
    PROVE  Together(o.pair)'
  <1>1. PICK l \in Records, r \in Records : l = o.pair[1] /\ r = o.pair[2]
    BY DEF Pairs
  <1>2. PICK a, b : a = Find(parent, l) /\ b = Find(parent, r)
    OBVIOUS
  <1>3. Joined(parent, parent', a, b) /\ l \in DOMAIN parent /\ r \in DOMAIN parent
    BY <1>1, <1>2 DEF Merge, Core, Shape
  <1>4. Find(parent', l) = Winner(a, b) /\ Find(parent', r) = Winner(a, b)
    BY <1>2, <1>3 DEF Joined
  <1> QED
    BY <1>1, <1>4 DEF Together

LEMMA RuleGrows ==
    ASSUME Shape, [MatchingNext]_matchingVars
    PROVE  rule \in Nat /\ rule' \in Nat /\ rule <= rule'
  <1>1. rule \in Nat
    <2>1. Len(trusted) + Len(composite) \in Nat
      BY RulesAre
    <2>2. rule \in 0..(Len(trusted) + Len(composite))
      BY DEF Shape
    <2> QED
      BY <2>1, <2>2
  <1>2. rule' = rule \/ rule' = rule + 1
    BY DEF MatchingNext, matchingVars, exactVars, Refuse, OpenRule, OpenGroup,
         TrustedPair, CompositePair, ReturnClusters, ReturnCandidates, GenerateCandidates,
         ScorePair
  <1> QED
    BY <1>1, <1>2

\* A pair that is settled stays settled.
LEMMA SettledStays ==
    ASSUME Core, [MatchingNext]_matchingVars, NEW pair \in Pairs, Settled(pair)
    PROVE  Settled(pair)'
  <1>1. CASE Together(pair)
    <2>1. Together(pair)'
      BY <1>1, TogetherStays
    <2> QED
      BY <2>1 DEF Settled
  <1>2. CASE pair \in Vetoed
    <2>1. results \subseteq results'
      BY StepIs DEF Core, Quiet, Reports
    <2>2. pair \in Vetoed'
      BY <1>2, <2>1 DEF Vetoed
    <2> QED
      BY <2>2 DEF Settled
  <1> QED
    BY <1>1, <1>2 DEF Settled

\* Visiting a pair settles it.
LEMMA PairSettled ==
    ASSUME Core, [MatchingNext]_matchingVars, TrustedPair \/ CompositePair
    PROVE  /\ \E pair \in pairs : pairs' = pairs \ {pair} /\ Settled(pair)'
           /\ groups' = groups /\ rule' = rule
  <1>1. groups' = groups /\ rule' = rule
    BY DEF TrustedPair, CompositePair
  <1>2. pairs \subseteq Pairs
    BY DEF Core, Shape
  <1>3. CASE TrustedPair
    <2>1. PICK pair \in pairs :
             /\ pairs' = pairs \ {pair}
             /\ Inside(Outcome(pair, rule, "auto_match")) \/ Merge(Outcome(pair, rule, "auto_match"))
      BY <1>3, TrustedPairIs, Zenon DEF Core
    <2>2. PICK o : o = Outcome(pair, rule, "auto_match")
      OBVIOUS
    <2>3. o.pair = pair /\ pair \in Pairs /\ (Inside(o) \/ Merge(o))
      BY <1>2, <2>1, <2>2 DEF Outcome
    <2>4. CASE Inside(o)
      <3>1. Together(pair)
        BY <2>3, <2>4 DEF Inside
      <3>2. Together(pair)'
        BY <2>3, <3>1, TogetherStays
      <3> QED
        BY <1>1, <2>1, <3>2 DEF Settled
    <2>5. CASE Merge(o)
      <3>1. Together(o.pair)'
        BY <2>3, <2>5, MergeTogether
      <3>2. Together(pair)'
        BY <2>3, <3>1 DEF Together
      <3> QED
        BY <1>1, <2>1, <3>2 DEF Settled
    <2> QED
      BY <2>3, <2>4, <2>5
  <1>4. CASE CompositePair
    <2>1. PICK pair \in pairs :
             /\ pairs' = pairs \ {pair}
             /\ \/ Quiet /\ Together(pair)
                \/ \E o : /\ o.pair = pair /\ results' = results \cup {o}
                          /\ Merge(o) \/ Veto(o)
      BY <1>4, CompositePairIs, Zenon DEF Core
    <2>2. pair \in Pairs
      BY <1>2
    <2>3. CASE Together(pair)
      <3>1. Together(pair)'
        BY <2>2, <2>3, TogetherStays
      <3> QED
        BY <1>1, <2>1, <3>1 DEF Settled
    <2>4. ASSUME NEW o, o.pair = pair, results' = results \cup {o}, Merge(o) \/ Veto(o)
          PROVE  Settled(pair)'
      <3>1. CASE Merge(o)
        <4>1. Together(o.pair)'
          BY <2>2, <2>4, <3>1, MergeTogether
        <4> QED
          BY <2>4, <4>1 DEF Settled, Together
      <3>2. CASE Veto(o)
        <4>1. pair \in Vetoed'
          BY <2>4, <3>2, VetoedGrows DEF Veto
        <4> QED
          BY <4>1 DEF Settled
      <3> QED
        BY <2>4, <3>1, <3>2
    <2> QED
      BY <1>1, <2>1, <2>3, <2>4
  <1> QED
    BY <1>3, <1>4

LEMMA DoneStep ==
    ASSUME Core, DecisionInv, [MatchingNext]_matchingVars
    PROVE  DoneInv'
  <1>1. kind' = kind /\ Rules' = Rules /\ trusted' = trusted
    BY StepIs DEF Core, Rules
  <1> SUFFICES ASSUME kind = "deterministic", NEW i \in 1..Len(Rules), i <= rule',
                      NEW g \in GroupsOf(Rules[i])
               PROVE  \/ i = rule' /\ g \in groups'
                      \/ \A pair \in PairsFor(i, g) :
                            Settled(pair)' \/ (i = rule' /\ pair \in pairs')
    <2>1. \A j, h : PairsFor(j, h)' = PairsFor(j, h)
      BY <1>1 DEF PairsFor
    <2>2. Len(Rules)' = Len(Rules) /\ \A j : Rules[j]' = Rules[j]
      BY <1>1
    <2>3. \A j : GroupsOf(Rules[j])' = GroupsOf(Rules[j])
      BY <2>2, Zenon
    <2> QED
      BY <1>1, <2>1, <2>2, <2>3, Zenon DEF DoneInv
  <1>2. \A pair \in PairsFor(i, g) : pair \in Pairs
    <2>1. g \subseteq Records
      BY RulesAre, GroupIs DEF Core
    <2>2. PairsFor(i, g) \subseteq PairsOf(g)
      BY ConsecutiveArePairs DEF PairsFor
    <2> QED
      BY <2>1, <2>2, PairsAre
  <1>3. \A pair \in PairsFor(i, g) : Settled(pair) => Settled(pair)'
    BY <1>2, SettledStays
  <1>4. i <= rule => \/ i = rule /\ g \in groups
                     \/ \A pair \in PairsFor(i, g) : Settled(pair) \/ (i = rule /\ pair \in pairs)
    BY DEF DecisionInv, DoneInv
  <1> HIDE DEF PairsFor, Settled
  <1>5. CASE UNCHANGED exactVars
    BY <1>3, <1>4, <1>5 DEF exactVars
  <1>6. CASE OpenRule
    <2>1. groups = {} /\ pairs = {} /\ rule' = rule + 1 /\ groups' = GroupsOf(Rules[rule + 1])
      BY <1>6 DEF OpenRule
    <2>2. CASE i = rule + 1
      BY <2>1, <2>2
    <2>3. CASE i # rule + 1
      <3>1. i <= rule
        BY <2>1, <2>3, RuleGrows DEF Core
      <3> QED
        BY <1>3, <1>4, <2>1, <3>1
    <2> QED
      BY <2>2, <2>3
  <1>7. CASE OpenGroup
    <2>1. PICK h \in groups :
             /\ groups' = groups \ {h}
             /\ pairs' = IF rule <= Len(trusted) THEN Consecutive(h) ELSE Combinations(h)
      BY <1>7, Zenon DEF OpenGroup
    <2>2. rule' = rule /\ pairs = {} /\ pairs' = PairsFor(rule, h)
      BY <1>7, <2>1 DEF OpenGroup, PairsFor
    <2>3. CASE i = rule /\ g = h
      BY <2>2, <2>3
    <2>4. CASE ~(i = rule /\ g = h)
      BY <1>3, <1>4, <2>1, <2>2, <2>4
    <2> QED
      BY <2>3, <2>4
  <1>8. CASE TrustedPair \/ CompositePair
    <2>1. PICK done \in pairs : pairs' = pairs \ {done} /\ Settled(done)'
      BY <1>8, PairSettled
    <2>2. groups' = groups /\ rule' = rule
      BY <1>8, PairSettled
    <2> QED
      BY <1>3, <1>4, <2>1, <2>2
  <1> QED
    BY <1>5, <1>6, <1>7, <1>8 DEF MatchingNext, matchingVars, Refuse, ReturnClusters,
         GenerateCandidates, ScorePair, ReturnCandidates, exactVars

LEMMA EndStep ==
    ASSUME Core, DecisionInv, [MatchingNext]_matchingVars
    PROVE  EndInv'
  <1>1. kind' = kind /\ Rules' = Rules
    BY StepIs DEF Core, Rules
  <1>2. ASSUME kind = "deterministic", state' = "returned"
        PROVE  rule' = Len(Rules) /\ groups' = {} /\ pairs' = {}
    <2>1. CASE state = "returned"
      <3>1. rule = Len(Rules) /\ groups = {} /\ pairs = {}
        BY <1>2, <2>1 DEF DecisionInv, EndInv
      <3>2. UNCHANGED exactVars
        BY <1>2, <2>1, <3>1 DEF MatchingNext, matchingVars, exactVars, Refuse, OpenRule, OpenGroup,
         TrustedPair, CompositePair, ReturnClusters, ReturnCandidates, GenerateCandidates,
         ScorePair
      <3> QED
        BY <3>1, <3>2 DEF exactVars
    <2>2. CASE state # "returned"
      <3>1. ReturnClusters
        BY <1>2, <2>2 DEF MatchingNext, matchingVars, Refuse, OpenRule, OpenGroup,
         TrustedPair, CompositePair, ReturnCandidates, GenerateCandidates, ScorePair
      <3> QED
        BY <3>1 DEF ReturnClusters, exactVars
    <2> QED
      BY <2>1, <2>2
  <1>3. ASSUME kind = "probabilistic"
        PROVE  /\ \A o \in results' : o.pair \notin todo'
               /\ \A o, q \in results' : o.pair = q.pair => o = q
    <2>0. /\ \A o \in results : o.pair \notin todo
          /\ \A o, q \in results : o.pair = q.pair => o = q
      BY <1>3 DEF DecisionInv, EndInv
    <2>1. CASE ScorePair
      <3>1. PICK pair \in todo, range \in NextRange : \E o :
               Scored(pair, range, o, Find(parent, pair[1]), Find(parent, pair[2]))
        BY <2>1, ScorePairIs DEF Core
      <3>2. PICK o : todo' = todo \ {pair} /\ o.pair = pair /\ results' = results \cup {o}
        BY <3>1, Zenon DEF Scored
      <3>3. \A q \in results : q.pair # pair
        BY <2>0
      <3> QED
        BY <2>0, <3>2, <3>3
    <2>2. CASE GenerateCandidates
      <3>1. results' = {}
        BY <2>2 DEF GenerateCandidates, Core, Shape
      <3> QED
        BY <3>1
    <2>3. CASE ~ScorePair /\ ~GenerateCandidates
      <3>1. pairs = {}
        BY <1>3 DEF Core, Shape
      <3>2. results' = results /\ todo' = todo
        BY <1>3, <2>3, <3>1 DEF MatchingNext, matchingVars, scoreVars, Refuse, OpenRule, OpenGroup,
         TrustedPair, CompositePair, ReturnClusters, ReturnCandidates
      <3> QED
        BY <2>0, <3>2
    <2> QED
      BY <2>1, <2>2, <2>3
  <1> QED
    BY <1>1, <1>2, <1>3 DEF EndInv

\* A merge that leaves no identifiers out keeps what every cluster with
\* identifiers carries.
LEMMA CarriedStays ==
    ASSUME Core, DecisionInv, NEW o, o.pair \in Pairs, Merge(o),
           kind = "deterministic" => rule > Len(trusted),
           NEW k \in Records, Carried(trusted, ClusterOf(parent, k)) # {}
    PROVE  Carried(trusted, ClusterOf(parent', k)) = Carried(trusted, ClusterOf(parent, k))
  <1>1. PICK l \in Records, r \in Records : l = o.pair[1] /\ r = o.pair[2]
    BY DEF Pairs
  <1>2. PICK A, B : A = ClusterOf(parent, l) /\ B = ClusterOf(parent, r)
    OBVIOUS
  <1>3. PICK X, Y : X = Carried(trusted, A) /\ Y = Carried(trusted, B)
    OBVIOUS
  <1>4. X = {} \/ Y = {} \/ X = Y
    BY <1>1, <1>2, <1>3, MergedIds
  <1>5. DOMAIN parent = Records
    BY DEF Core, Shape
  <1>6. \A j \in Records : ClusterOf(parent', j) =
                IF j \in A \cup B THEN A \cup B ELSE ClusterOf(parent, j)
    <2>1. Joined(parent, parent', Find(parent, l), Find(parent, r))
      BY <1>1 DEF Merge
    <2>2. l \in DOMAIN parent /\ r \in DOMAIN parent
      BY <1>5
    <2>3. Glued(parent, parent', A, B)
      BY <1>2, <2>1, <2>2, JoinedClusters
    <2> QED
      BY <1>5, <2>3 DEF Glued
  <1>7. Carried(trusted, A \cup B) = X \cup Y
    BY <1>3, CarriedUnion
  <1>8. CASE k \notin A \cup B
    BY <1>6, <1>8
  <1>9. CASE k \in A
    <2>1. ClusterOf(parent, k) = A
      BY <1>2, <1>5, <1>9, ClusterIs
    <2> QED
      BY <1>3, <1>4, <1>6, <1>7, <1>9, <2>1
  <1>10. CASE k \in B
    <2>1. ClusterOf(parent, k) = B
      BY <1>2, <1>5, <1>10, ClusterIs
    <2> QED
      BY <1>3, <1>4, <1>6, <1>7, <1>10, <2>1
  <1> QED
    BY <1>8, <1>9, <1>10

LEMMA OneStep ==
    ASSUME Core, DecisionInv, [MatchingNext]_matchingVars
    PROVE  OneInv'
  <1>1. kind' = kind /\ trusted' = trusted /\ (Quiet \/ Reports)
    BY StepIs DEF Core
  <1> SUFFICES ASSUME kind = "probabilistic", NEW k \in Records
               PROVE  \A u, v \in Carried(trusted, ClusterOf(parent', k)) : u = v
    BY <1>1 DEF OneInv
  <1>2. \A j \in Records : \A u, v \in Carried(trusted, ClusterOf(parent, j)) : u = v
    BY DEF DecisionInv, OneInv
  <1>3. DOMAIN parent = Records
    BY DEF Core, Shape
  <1>4. CASE Same(parent, parent')
    <2>1. ClusterOf(parent', k) = ClusterOf(parent, k)
      BY <1>3, <1>4, SameClusters
    <2> QED
      BY <1>2, <2>1
  <1>5. ASSUME NEW o, o.pair \in Pairs, Merge(o)
        PROVE  \A u, v \in Carried(trusted, ClusterOf(parent', k)) : u = v
    <2>1. PICK l \in Records, r \in Records : l = o.pair[1] /\ r = o.pair[2]
      BY <1>5 DEF Pairs
    <2>2. PICK A, B : A = ClusterOf(parent, l) /\ B = ClusterOf(parent, r)
      OBVIOUS
    <2>3. PICK X, Y : X = Carried(trusted, A) /\ Y = Carried(trusted, B)
      OBVIOUS
    <2>4. X = {} \/ Y = {} \/ X = Y
      BY <1>5, <2>1, <2>2, <2>3, MergedIds
    <2>5. /\ \A u, v \in X : u = v
          /\ \A u, v \in Y : u = v
      BY <1>2, <2>2, <2>3
    <2>6. ClusterOf(parent', k) = A \cup B \/ ClusterOf(parent', k) = ClusterOf(parent, k)
      <3>1. Joined(parent, parent', Find(parent, l), Find(parent, r))
        BY <1>5, <2>1 DEF Merge
      <3>2. Glued(parent, parent', A, B)
        BY <1>3, <2>2, <3>1, JoinedClusters
      <3> QED
        BY <1>3, <3>2 DEF Glued
    <2>7. Carried(trusted, A \cup B) = X \cup Y
      BY <2>3, CarriedUnion
    <2>8. \A u, v \in X \cup Y : u = v
      BY <2>4, <2>5
    <2> QED
      BY <1>2, <2>6, <2>7, <2>8
  <1> QED
    BY <1>1, <1>4, <1>5, Zenon DEF Quiet, Reports, Inside, Veto, Offer

LEMMA VetoStep ==
    ASSUME Core, DecisionInv, [MatchingNext]_matchingVars
    PROVE  VetoInv'
  <1>1. kind' = kind /\ trusted' = trusted /\ (Quiet \/ Reports)
    BY StepIs DEF Core
  <1>2. DOMAIN parent = Records /\ Len(trusted) \in Nat /\ Vetoed \subseteq Pairs
    BY RulesAre, ReportedPairs DEF Core, Shape
  <1>3. rule \in Nat /\ rule' \in Nat /\ rule <= rule'
    BY RuleGrows DEF Core
  <1>4. /\ \A pair \in Vetoed : Conflicting(Carried(trusted, ClusterOf(parent, pair[1])),
                                            Carried(trusted, ClusterOf(parent, pair[2])))
        /\ kind = "deterministic" /\ rule <= Len(trusted) => Vetoed = {}
    BY DEF DecisionInv, VetoInv
  <1>5. ASSUME Vetoed' = Vetoed,
               \A pair \in Vetoed :
                  Conflicting(Carried(trusted, ClusterOf(parent', pair[1])),
                              Carried(trusted, ClusterOf(parent', pair[2])))
        PROVE  VetoInv'
    <2>1. kind = "deterministic" /\ rule' <= Len(trusted) => Vetoed = {}
      BY <1>2, <1>3, <1>4
    <2> QED
      BY <1>1, <1>5, <2>1 DEF VetoInv, Conflicting
  <1>6. ASSUME Same(parent, parent'), NEW pair \in Pairs
        PROVE  /\ ClusterOf(parent', pair[1]) = ClusterOf(parent, pair[1])
               /\ ClusterOf(parent', pair[2]) = ClusterOf(parent, pair[2])
    BY <1>2, <1>6, SameClusters DEF Pairs
  <1>7. CASE Quiet
    <2>1. Vetoed' = Vetoed /\ Same(parent, parent')
      BY <1>7 DEF Quiet, Vetoed
    <2> QED
      BY <1>2, <1>4, <1>5, <1>6, <2>1
  <1>8. CASE Reports
    <2>1. PICK o : /\ o.pair \in Pairs /\ results' = results \cup {o}
                   /\ Inside(o) \/ Merge(o) \/ Veto(o) \/ Offer(o)
      BY <1>8 DEF Reports
    <2>2. CASE Inside(o) \/ Offer(o)
      <3>1. Vetoed' = Vetoed /\ Same(parent, parent')
        BY <2>1, <2>2, VetoedGrows DEF Inside, Offer
      <3> QED
        BY <1>2, <1>4, <1>5, <1>6, <3>1
    <2>3. CASE Veto(o)
      <3>1. PICK new \in Pairs : new = o.pair
        BY <2>1
      <3>2. /\ Vetoed' = Vetoed \cup {new} /\ Same(parent, parent')
            /\ Conflicting(Carried(trusted, ClusterOf(parent, new[1])),
                           Carried(trusted, ClusterOf(parent, new[2])))
            /\ kind = "deterministic" => rule > Len(trusted)
        BY <2>1, <2>3, <3>1, VetoedGrows DEF Veto, Judged
      <3>3. \A pair \in Vetoed' : Conflicting(Carried(trusted, ClusterOf(parent', pair[1])),
                                              Carried(trusted, ClusterOf(parent', pair[2])))
        <4> SUFFICES ASSUME NEW pair \in Vetoed'
                     PROVE  Conflicting(Carried(trusted, ClusterOf(parent', pair[1])),
                                        Carried(trusted, ClusterOf(parent', pair[2])))
          OBVIOUS
        <4>1. pair \in Pairs
          BY <1>2, <3>2
        <4>2. Conflicting(Carried(trusted, ClusterOf(parent, pair[1])),
                          Carried(trusted, ClusterOf(parent, pair[2])))
          BY <1>4, <3>2
        <4> QED
          BY <1>6, <3>2, <4>1, <4>2
      <3>4. ~(kind = "deterministic" /\ rule' <= Len(trusted))
        BY <1>2, <1>3, <3>2
      <3> QED
        BY <1>1, <3>3, <3>4 DEF VetoInv, Conflicting
    <2>4. CASE Merge(o)
      <3>1. Vetoed' = Vetoed
        BY <2>1, <2>4, VetoedGrows DEF Merge
      <3>2. ASSUME NEW pair \in Vetoed
            PROVE  Conflicting(Carried(trusted, ClusterOf(parent', pair[1])),
                               Carried(trusted, ClusterOf(parent', pair[2])))
        <4>1. pair[1] \in Records /\ pair[2] \in Records
          BY <1>2, <3>2 DEF Pairs
        <4>2. kind = "deterministic" => rule > Len(trusted)
          BY <1>2, <1>3, <1>4, <3>2
        <4>3. Conflicting(Carried(trusted, ClusterOf(parent, pair[1])),
                          Carried(trusted, ClusterOf(parent, pair[2])))
          BY <1>4, <3>2
        <4>4. /\ Carried(trusted, ClusterOf(parent, pair[1])) # {}
              /\ Carried(trusted, ClusterOf(parent, pair[2])) # {}
          BY <4>3 DEF Conflicting
        <4>5. /\ Carried(trusted, ClusterOf(parent', pair[1])) =
                 Carried(trusted, ClusterOf(parent, pair[1]))
              /\ Carried(trusted, ClusterOf(parent', pair[2])) =
                 Carried(trusted, ClusterOf(parent, pair[2]))
          BY <2>1, <2>4, <4>1, <4>2, <4>4, CarriedStays
        <4> QED
          BY <4>3, <4>5
      <3> QED
        BY <1>5, <3>1, <3>2
    <2> QED
      BY <2>1, <2>2, <2>3, <2>4
  <1> QED
    BY <1>1, <1>7, <1>8

LEMMA DecisionInit == DistinctRules /\ MatchingInit => DecisionInv
  <1> SUFFICES ASSUME DistinctRules, MatchingInit PROVE DecisionInv
    OBVIOUS
  <1>1. results = {} /\ rule = 0 /\ state = "called" /\ Vetoed = {}
    BY DEF MatchingInit, Vetoed
  <1>2. Distinct(trusted)
    BY DistinctInit
  <1>3. OneInv
    <2> SUFFICES ASSUME kind = "probabilistic", NEW k \in Records
                 PROVE  \A u, v \in Carried(trusted, ClusterOf(parent, k)) : u = v
      BY DEF OneInv
    <2>1. PICK ids : trusted = <<ids>>
      BY DEF MatchingInit
    <2>2. ClusterOf(parent, k) = {k}
      BY SingletonsAre DEF MatchingInit
    <2>3. Carried(trusted, {k}) \subseteq {ids[k]}
      BY <2>1 DEF Carried, Keys
    <2> QED
      BY <2>2, <2>3
  <1>4. VetoInv /\ EndInv
    BY <1>1 DEF VetoInv, EndInv
  <1>5. DoneInv
    BY <1>1 DEF DoneInv
  <1> QED
    BY <1>2, <1>3, <1>4, <1>5 DEF DecisionInv

LEMMA DecisionStep == Core /\ DecisionInv /\ [MatchingNext]_matchingVars => DecisionInv'
  <1> SUFFICES ASSUME Core, DecisionInv, [MatchingNext]_matchingVars PROVE DecisionInv'
    OBVIOUS
  <1>1. Distinct(trusted')
    BY StepIs DEF Core, DecisionInv
  <1> QED
    BY <1>1, OneStep, VetoStep, DoneStep, EndStep DEF DecisionInv

LEMMA OutcomesFollow ==
    ASSUME Core, DecisionInv
    PROVE  OutcomesStand
  <1> SUFFICES ASSUME state = "returned"
               PROVE  /\ \A pair \in Vetoed : ~Together(pair)
                      /\ kind = "deterministic" =>
                           \A pair \in PairsOf(Records) :
                             /\ ShareKey(trusted, pair[1], pair[2]) => Together(pair)
                             /\ ShareKey(composite, pair[1], pair[2]) =>
                                    Together(pair) \/ pair \in Vetoed
                      /\ \A o, q \in results : kind = "probabilistic" /\ o.pair = q.pair => o = q
    BY DEF OutcomesStand
  <1>1. \A pair \in Vetoed : ~Together(pair)
    BY DEF DecisionInv, VetoInv, Conflicting, Together, ClusterOf
  <1>2. \A o, q \in results : kind = "probabilistic" /\ o.pair = q.pair => o = q
    BY DEF DecisionInv, EndInv
  <1>3. ASSUME kind = "deterministic", NEW pair \in PairsOf(Records)
        PROVE  /\ ShareKey(trusted, pair[1], pair[2]) => Together(pair)
               /\ ShareKey(composite, pair[1], pair[2]) => Together(pair) \/ pair \in Vetoed
    <2>1. rule = Len(Rules) /\ groups = {} /\ pairs = {}
      BY <1>3 DEF DecisionInv, EndInv
    <2>2. pair[1] \in Records /\ pair[2] \in Records /\ pair[1] < pair[2] /\ pair = <<pair[1], pair[2]>>
      BY PairsAre
    <2>3. Len(trusted) \in Nat /\ Len(composite) \in Nat /\ Len(Rules) = Len(trusted) + Len(composite)
      BY RulesAre DEF Core
    <2>4. ASSUME ShareKey(trusted, pair[1], pair[2]) PROVE Together(pair)
      <3>1. PICK i \in DOMAIN trusted :
               trusted[i][pair[1]] = trusted[i][pair[2]] /\ trusted[i][pair[1]] # NoKey
        BY <2>4 DEF ShareKey
      <3>2. i \in 1..Len(trusted)
        BY DEF Core, Shape
      <3>3. i <= rule
        BY <2>1, <2>3, <3>2
      <3>4. Find(parent, pair[1]) = Find(parent, pair[2])
        BY <1>3, <2>1, <2>2, <3>1, <3>2, <3>3, TrustedTogether
      <3> QED
        BY <3>4 DEF Together
    <2>5. ASSUME ShareKey(composite, pair[1], pair[2]) PROVE Together(pair) \/ pair \in Vetoed
      <3>1. PICK j \in DOMAIN composite :
               composite[j][pair[1]] = composite[j][pair[2]] /\ composite[j][pair[1]] # NoKey
        BY <2>5 DEF ShareKey
      <3>2. j \in 1..Len(composite)
        BY DEF Core, Shape
      <3>3. PICK i \in 1..Len(Rules) : i = Len(trusted) + j
        BY <2>3, <3>2
      <3>4. Rules[i] = composite[j] /\ Rules[i] \in [Records -> Nat]
        BY <3>2, <3>3, RulesAre DEF Core
      <3>5. PICK key \in [Records -> Nat] : key = Rules[i]
        BY <3>4
      <3>6. PICK g : g = {x \in Records : key[x] = key[pair[1]]}
        OBVIOUS
      <3>7. g \in GroupsOf(Rules[i])
        BY <2>2, <3>1, <3>4, <3>5, <3>6, GroupOf
      <3>8. pair[1] \in g /\ pair[2] \in g
        BY <2>2, <3>1, <3>4, <3>5, <3>6
      <3>9. pair \in PairsOf(g)
        BY <2>2, <3>8 DEF PairsOf
      <3>10. pair \in PairsFor(i, g)
        <4>1. ~(i <= Len(trusted))
          BY <2>3, <3>2, <3>3
        <4> QED
          BY <3>9, <4>1, ConsecutiveArePairs DEF PairsFor
      <3>11. i <= rule
        BY <2>1, <2>3, <3>3
      <3>12. Settled(pair)
        BY <1>3, <2>1, <3>7, <3>10, <3>11, RuleDone
      <3> QED
        BY <3>12 DEF Settled
    <2> QED
      BY <2>4, <2>5
  <1> QED
    BY <1>1, <1>2, <1>3

\* When the values of different trusted rules differ, a call that returned reported
\* outcomes its final clusters agree with: a trusted_id_conflict is never undone by
\* a later merge, equal trusted keys are together, equal composite keys are
\* together or in conflict, and run reports every pair once.
THEOREM OutcomesAlwaysStand ==
    ASSUME DistinctRules
    PROVE  MatchingSpec => []OutcomesStand
  <1>1. MatchingInit => Core /\ DecisionInv
    BY ShapeInit, DecisionInit DEF Core
  <1>2. Core /\ DecisionInv /\ [MatchingNext]_matchingVars => Core' /\ DecisionInv'
    BY CoreStep, DecisionStep
  <1>3. Core /\ DecisionInv => OutcomesStand
    BY OutcomesFollow
  <1> QED
    BY <1>1, <1>2, <1>3, PTL DEF MatchingSpec

-----------------------------------------------------------------------------
(***************************************************************************)
(* Safety of the match review desk for any number of candidates, reviewers *)
(* and requests.  None of the promised invariants is inductive alone: that *)
(* a commit extends the history by exactly the next revision follows from  *)
(* what the row lock has guaranteed since the UPDATE (LockInv), from what  *)
(* the transaction has buffered (TxInv) and from which row the SELECT of   *)
(* the prior decision found (PriorInv).                                    *)
(***************************************************************************)

\* A transaction that passed its UPDATE holds its candidate's row, whose
\* committed revision is still the expected one; nobody else holds a row.
LockInv ==
    /\ \A q \in Requests : req[q].pc \in InTx =>
           /\ lock[req[q].cand] = q
           /\ cand[req[q].cand].revision = req[q].expected
    /\ \A c \in Candidates : lock[c] # None =>
           req[lock[c]].pc \in InTx /\ req[lock[c]].cand = c

\* What a transaction has buffered at each of its steps.
TxInv ==
    \A q \in Requests :
        /\ req[q].pc \in InTx => tx[q].update =
             {[status |-> req[q].decision, revision |-> req[q].expected + 1]}
        /\ req[q].pc \in {"inserted", "audited"} => tx[q].rows = {DecisionRow(q)}
        /\ req[q].pc = "audited" => tx[q].events = {AuditEvent(DecisionRow(q))}

\* The prior decision a transaction holds is the one of the expected revision.
PriorInv ==
    \A q \in Requests : req[q].pc \in {"prior", "inserted", "audited"} =>
        IF req[q].expected = 0 THEN req[q].prior = None
        ELSE \E d \in decisions : /\ d.cand = req[q].cand
                                  /\ d.id = req[q].prior
                                  /\ d.revision = req[q].expected

\* Requests carry a candidate; those past the checks one of their own
\* organization that exists, and a decision.  Expected revisions come from
\* the past.
RequestInv ==
    \A q \in Requests : req[q].pc # "free" =>
        /\ req[q].cand \in Candidates
        /\ req[q].reviewer \in Reviewers
        /\ req[q].expected <= cand[req[q].cand].revision
        /\ req[q].pc \in {"checked", "conflict", "committed", "saved"} \cup InTx =>
               Exists(req[q].cand) /\ req[q].decision \in Verdicts

ViewInv ==
    \A r \in Reviewers : view[r].stage # "none" =>
        /\ view[r].cand \in Candidates
        /\ view[r].revision <= cand[view[r].cand].revision

\* Rows are what their requests built, and only committed requests have one.
RowInv ==
    /\ IsFiniteSet(decisions)
    /\ \A d \in decisions : /\ req[d.id].pc \in {"committed", "saved", "lost"}
                            /\ d = DecisionRow(d.id)
    /\ \A q \in Requests : req[q].pc \in {"committed", "saved"} =>
           DecisionRow(q) \in decisions

\* A candidate that does not exist has no history.
AbsentInv == \A c \in Candidates : ~Exists(c) => cand[c].revision = 0

\* HistoryContiguous, one quantifier at a time.
HistoryInv ==
    /\ \A d \in decisions : 1 <= d.revision /\ d.revision <= cand[d.cand].revision
    /\ \A c \in Candidates : \A n \in 1..cand[c].revision :
           \E d \in decisions : d.cand = c /\ d.revision = n
    /\ \A d, e \in decisions : d.cand = e.cand /\ d.revision = e.revision => d = e

IInv ==
    /\ TypeOK /\ LockInv /\ TxInv /\ PriorInv /\ RequestInv /\ ViewInv
    /\ RowInv /\ AbsentInv /\ HistoryInv /\ SupersedesChain
    /\ AuditMatchesHistory /\ ConflictIsJustified
-----------------------------------------------------------------------------
USE DEF Statuses, Exists, RowsOf, InTx, Serving, Answered

\* The initial state satisfies every conjunct of the invariant: the tables are
\* empty and no request has been received.
LEMMA InitIInv == Init => IInv
  <1> SUFFICES ASSUME Init PROVE IInv
    OBVIOUS
  <1> USE ConstantsAssumption DEF Init
  <1>1. TypeOK
    BY DEF TypeOK, CandidateRow, Request, Transaction, View, FreeRequest,
           EmptyTx, EmptyView
  <1>2. LockInv /\ TxInv /\ PriorInv /\ RequestInv
    BY DEF LockInv, TxInv, PriorInv, RequestInv, FreeRequest, EmptyTx
  <1>3. ViewInv /\ RowInv /\ AbsentInv
    BY FS_EmptySet DEF ViewInv, RowInv, AbsentInv, FreeRequest, EmptyView
  <1>4. HistoryInv
    BY DEF HistoryInv
  <1>5. SupersedesChain /\ AuditMatchesHistory /\ ConflictIsJustified
    BY DEF SupersedesChain, AuditMatchesHistory, ConflictIsJustified, FreeRequest
  <1> QED
    BY <1>1, <1>2, <1>3, <1>4, <1>5 DEF IInv

\* Every action keeps the tables, requests and views well typed.
LEMMA TypePreserved == IInv /\ [Next]_vars => TypeOK'
  <1> SUFFICES ASSUME TypeOK, RequestInv, ViewInv, RowInv, [Next]_vars PROVE TypeOK'
    BY DEF IInv
  <1> USE ConstantsAssumption DEF TypeOK
  <1>1. CASE Execute
    <2>1. PICK S \in SUBSET Candidates :
            \E st \in [S -> CreatedStatuses] :
               cand' = [c \in Candidates |->
                          IF c \in S THEN [status |-> st[c], revision |-> 0]
                                     ELSE cand[c]]
      BY <1>1 DEF Execute
    <2>2. cand' \in [Candidates -> CandidateRow]
      BY <2>1 DEF CandidateRow
    <2> QED
      BY <1>1, <2>2 DEF Execute
  <1>2. ASSUME NEW r \in Reviewers, ReadCandidates(r) \/ ReadCounts(r) \/ ReadLatest(r)
        PROVE TypeOK'
    <2>1. CASE ReadCandidates(r)
      BY <2>1 DEF ReadCandidates, View, CandidateRow
    <2>2. CASE ReadCounts(r)
      <3> DEFINE n == Cardinality(RowsOf(view[r].cand))
      <3>1. n \in Nat
        BY FS_Subset, FS_CardinalityType DEF RowInv
      <3>2. view' = [view EXCEPT ![r] = [view[r] EXCEPT !.stage = "counts", !.count = n]]
        BY <2>2 DEF ReadCounts
      <3> HIDE DEF n
      <3>3. [view[r] EXCEPT !.stage = "counts", !.count = n] \in View
        BY <3>1, ZenonT(60) DEF View
      <3>4. view' \in [Reviewers -> View]
        BY <3>2, <3>3
      <3> QED
        BY <2>2, <3>4 DEF ReadCounts
    <2>3. CASE ReadLatest(r)
      <3> DEFINE n == LatestRevision(view[r].cand)
      <3>1. n \in Nat
        BY <2>3 DEF ReadLatest, LatestRevision, CandidateRow, ViewInv
      <3>2. view' = [view EXCEPT ![r] = [view[r] EXCEPT !.stage = "shown", !.latest = n]]
        BY <2>3 DEF ReadLatest
      <3> HIDE DEF n
      <3>3. [view[r] EXCEPT !.stage = "shown", !.latest = n] \in View
        BY <3>1, ZenonT(60) DEF View
      <3>4. view' \in [Reviewers -> View]
        BY <3>2, <3>3
      <3> QED
        BY <2>3, <3>4 DEF ReadLatest
    <2> QED
      BY <1>2, <2>1, <2>2, <2>3
  <1>3. ASSUME NEW q \in Requests, NEW r \in Reviewers, Submit(q, r) \/ SubmitForeign(q, r)
        PROVE TypeOK'
    <2>1. CASE Submit(q, r)
      BY <2>1 DEF Submit, Request, View
    <2>2. CASE SubmitForeign(q, r)
      BY <2>2 DEF SubmitForeign, Request
    <2> QED
      BY <1>3, <2>1, <2>2
  <1>4. ASSUME NEW q \in Requests, Serve(q) \/ Fail(q)
        PROVE TypeOK'
    <2>1. CASE Check(q)
      BY <2>1, SMTT(30) DEF Check, Request
    <2>2. CASE Update(q)
      <3> DEFINE u == {[status |-> req[q].decision, revision |-> req[q].expected + 1]}
      <3>1. u \in SUBSET CandidateRow
        BY <2>2 DEF Update, CandidateRow, Request, RequestInv
      <3>2. tx' = [tx EXCEPT ![q] = [tx[q] EXCEPT !.update = u]]
        BY <2>2 DEF Update
      <3> HIDE DEF u
      <3>3. tx' \in [Requests -> Transaction]
        BY <3>1, <3>2, ZenonT(60) DEF Transaction
      <3>4. req' \in [Requests -> Request]
        BY <2>2 DEF Update, Request
      <3>5. lock' \in [Candidates -> Requests \cup {None}]
        BY <2>2 DEF Update
      <3> QED
        BY <2>2, <3>3, <3>4, <3>5 DEF Update
    <2>3. CASE Conflict(q)
      BY <2>3 DEF Conflict, Request
    <2>4. CASE SelectPrior(q)
      BY <2>4 DEF SelectPrior, Request, Row
    <2>5. CASE InsertDecision(q)
      <3>1. DecisionRow(q) \in Row
        BY <2>5 DEF InsertDecision, DecisionRow, Row, Request, RequestInv
      <3>2. tx' \in [Requests -> Transaction]
        BY <2>5, <3>1 DEF InsertDecision, Transaction
      <3>3. req' \in [Requests -> Request]
        BY <2>5 DEF InsertDecision, Request
      <3> QED
        BY <2>5, <3>2, <3>3 DEF InsertDecision
    <2>6. CASE InsertAudit(q)
      <3>1. AuditEvent(DecisionRow(q)) \in Event
        BY <2>6 DEF InsertAudit, DecisionRow, AuditEvent, Event, Request, RequestInv
      <3>2. tx' \in [Requests -> Transaction]
        BY <2>6, <3>1, ZenonT(60) DEF InsertAudit, Transaction
      <3>3. req' \in [Requests -> Request]
        BY <2>6 DEF InsertAudit, Request
      <3> QED
        BY <2>6, <3>2, <3>3 DEF InsertAudit
    <2>7. CASE Commit(q)
      <3>1. PICK u \in tx[q].update : cand' = [cand EXCEPT ![req[q].cand] = u]
        BY <2>7 DEF Commit
      <3>2. u \in CandidateRow /\ tx[q].rows \subseteq Row /\ tx[q].events \subseteq Event
        BY DEF Transaction
      <3>3. Release(q) \in [Candidates -> Requests \cup {None}]
        BY DEF Release
      <3>4. EmptyTx \in Transaction
        BY DEF EmptyTx, Transaction
      <3>5. req[q].cand \in Candidates
        BY <2>7 DEF Commit, RequestInv
      <3>6. cand' \in [Candidates -> CandidateRow]
        BY <3>1, <3>2, <3>5
      <3>7. req' \in [Requests -> Request] /\ tx' \in [Requests -> Transaction]
        BY <2>7, <3>4 DEF Commit, Request
      <3> QED
        BY <2>7, <3>2, <3>3, <3>6, <3>7 DEF Commit
    <2>8. CASE Respond(q)
      BY <2>8 DEF Respond, Request
    <2>9. CASE Fail(q)
      <3>1. Release(q) \in [Candidates -> Requests \cup {None}]
        BY DEF Release
      <3>2. EmptyTx \in Transaction
        BY DEF EmptyTx, Transaction
      <3> QED
        BY <2>9, <3>1, <3>2 DEF Fail, Request
    <2> QED
      BY <1>4, <2>1, <2>2, <2>3, <2>4, <2>5, <2>6, <2>7, <2>8, <2>9 DEF Serve
  <1>5. CASE UNCHANGED vars
    BY <1>5 DEF vars
  <1> QED
    BY <1>1, <1>2, <1>3, <1>4, <1>5 DEF Next

\* A step that moves only the pc of request q leaves what requests carry as
\* it was.
LEMMA PcStep ==
    ASSUME TypeOK, NEW q \in Requests, NEW p, req' = [req EXCEPT ![q].pc = p]
    PROVE  /\ req'[q].pc = p
           /\ \A x \in Requests : x # q => req'[x] = req[x]
           /\ \A x \in Requests :
                  /\ req'[x].reviewer = req[x].reviewer
                  /\ req'[x].cand = req[x].cand
                  /\ req'[x].decision = req[x].decision
                  /\ req'[x].expected = req[x].expected
                  /\ req'[x].seen = req[x].seen
                  /\ req'[x].prior = req[x].prior
  BY DEF TypeOK, Request

\* A step of request q outside its transaction changes no table.
LEMMA QuietPcStep ==
    ASSUME IInv, TypeOK', NEW q \in Requests, NEW p,
           req' = [req EXCEPT ![q].pc = p],
           p \notin InTx /\ req[q].pc \notin InTx,
           p \in {"conflict", "checked", "saved", "not_found", "invalid"},
           req[q].pc \in {"received", "checked", "committed"},
           p = "saved" <=> req[q].pc = "committed",
           p \in {"checked", "conflict"} =>
               Exists(req[q].cand) /\ req[q].decision \in Verdicts,
           p = "conflict" => cand[req[q].cand].revision # req[q].expected,
           UNCHANGED <<cand, decisions, audit, lock, tx, view>>
    PROVE  IInv'
  <1> USE DEF IInv
  <1>1. LockInv' /\ PriorInv'
    BY PcStep DEF LockInv, PriorInv, TypeOK
  <1>2. TxInv'
    BY PcStep DEF TxInv, DecisionRow, AuditEvent
  <1>3. RequestInv' /\ ViewInv' /\ AbsentInv' /\ HistoryInv'
    BY PcStep DEF RequestInv, ViewInv, AbsentInv, HistoryInv
  <1>4. RowInv'
    <2>1. \A d \in decisions : d.id \in Requests
      BY DEF TypeOK, Row
    <2>2. \A d \in decisions : /\ req'[d.id].pc \in {"committed", "saved", "lost"}
                                /\ d = DecisionRow(d.id)'
      BY <2>1, PcStep DEF RowInv, DecisionRow
    <2>3. \A x \in Requests : req'[x].pc \in {"committed", "saved"} =>
              DecisionRow(x)' \in decisions
      BY PcStep DEF RowInv, DecisionRow
    <2> QED
      BY <2>2, <2>3 DEF RowInv
  <1>5. SupersedesChain' /\ AuditMatchesHistory'
    BY DEF SupersedesChain, AuditMatchesHistory, AuditEvent
  <1>6. ConflictIsJustified'
    <2> SUFFICES ASSUME NEW x \in Requests, req'[x].pc = "conflict"
                 PROVE \E d \in decisions : /\ d.cand = req[x].cand
                                            /\ d.id # x /\ d.revision = req[x].expected + 1
      BY PcStep DEF ConflictIsJustified
    <2>1. CASE x = q
      <3>1. p = "conflict"
        BY <2>1, PcStep
      <3>2. req[q].expected + 1 \in 1..cand[req[q].cand].revision
        <4>1. req[q].expected \in Nat /\ req[q].cand \in Candidates
          BY DEF RequestInv, TypeOK, Request
        <4>2. cand[req[q].cand].revision \in Nat
          BY <4>1 DEF TypeOK, CandidateRow
        <4> QED
          BY <3>1, <4>1, <4>2 DEF RequestInv
      <3>3. PICK d \in decisions : /\ d.cand = req[q].cand
                                   /\ d.revision = req[q].expected + 1
        BY <3>1, <3>2 DEF HistoryInv, RequestInv
      <3>4. d.id # q
        BY <3>1 DEF RowInv
      <3> QED
        BY <2>1, <3>3, <3>4
    <2>2. CASE x # q
      BY <2>2, PcStep DEF ConflictIsJustified
    <2> QED
      BY <2>1, <2>2
  <1> QED
    BY <1>1, <1>2, <1>3, <1>4, <1>5, <1>6

\* A run adds candidates at revision 0; nobody can have referred to them.
LEMMA ExecuteStep == IInv /\ TypeOK' /\ Execute => IInv'
  <1> SUFFICES ASSUME IInv, TypeOK', Execute PROVE IInv'
    OBVIOUS
  <1> USE DEF IInv
  <1>1. /\ UNCHANGED <<decisions, audit, lock, req, tx, view>>
        /\ \A c \in Candidates : cand'[c].revision = cand[c].revision
        /\ \A c \in Candidates : Exists(c) => cand'[c] = cand[c]
    <2>1. PICK S \in SUBSET Candidates :
            /\ \A c \in S : ~Exists(c)
            /\ \E st \in [S -> CreatedStatuses] :
                 cand' = [c \in Candidates |->
                            IF c \in S THEN [status |-> st[c], revision |-> 0]
                                       ELSE cand[c]]
      BY DEF Execute
    <2> QED
      BY <2>1 DEF Execute, AbsentInv
  <1>2. \A d \in decisions : d.cand \in Candidates /\ d.revision > 0 /\ Exists(d.cand)
    BY DEF TypeOK, Row, CandidateRow, HistoryInv, AbsentInv
  <1>3. LockInv' /\ PriorInv'
    BY <1>1 DEF LockInv, PriorInv, RequestInv
  <1>4. TxInv'
    BY <1>1 DEF TxInv, DecisionRow, AuditEvent
  <1>5. RequestInv'
    BY <1>1 DEF RequestInv
  <1>6. ViewInv' /\ AbsentInv'
    BY <1>1, ConstantsAssumption DEF ViewInv, AbsentInv
  <1>7. RowInv'
    BY <1>1 DEF RowInv, DecisionRow
  <1>8. HistoryInv'
    BY <1>1, <1>2 DEF HistoryInv
  <1>9. SupersedesChain'
    BY <1>1, <1>2 DEF SupersedesChain
  <1>10. AuditMatchesHistory' /\ ConflictIsJustified'
    BY <1>1 DEF AuditMatchesHistory, ConflictIsJustified, AuditEvent
  <1> QED
    BY <1>3, <1>4, <1>5, <1>6, <1>7, <1>8, <1>9, <1>10

\* Reading a queue writes nothing but the reviewer's screen.
LEMMA ReadStep ==
    ASSUME IInv, TypeOK', NEW r \in Reviewers,
           ReadCandidates(r) \/ ReadCounts(r) \/ ReadLatest(r)
    PROVE  IInv'
  <1> USE DEF IInv
  <1>1. UNCHANGED <<cand, decisions, audit, lock, req, tx>>
    BY DEF ReadCandidates, ReadCounts, ReadLatest
  <1>2. ViewInv'
    <2>1. CASE ReadCandidates(r)
      BY <1>1, <2>1 DEF ReadCandidates, ViewInv, TypeOK, CandidateRow
    <2>2. CASE ReadCounts(r)
      BY <1>1, <2>2 DEF ReadCounts, ViewInv, TypeOK, View
    <2>3. CASE ReadLatest(r)
      BY <1>1, <2>3 DEF ReadLatest, ViewInv, TypeOK, View
    <2> QED
      BY <2>1, <2>2, <2>3
  <1>3. LockInv' /\ PriorInv' /\ RequestInv' /\ AbsentInv' /\ HistoryInv'
    BY <1>1 DEF LockInv, PriorInv, RequestInv, AbsentInv, HistoryInv
  <1>4. TxInv' /\ RowInv'
    BY <1>1 DEF TxInv, RowInv, DecisionRow, AuditEvent
  <1>5. SupersedesChain' /\ AuditMatchesHistory' /\ ConflictIsJustified'
    BY <1>1 DEF SupersedesChain, AuditMatchesHistory, ConflictIsJustified, AuditEvent
  <1> QED
    BY <1>2, <1>3, <1>4, <1>5

\* A new request asks for a revision its candidate has reached.
LEMMA SubmitStep ==
    ASSUME IInv, TypeOK', NEW q \in Requests, NEW r \in Reviewers,
           Submit(q, r) \/ SubmitForeign(q, r)
    PROVE  IInv'
  <1> USE DEF IInv
  <1>1. /\ UNCHANGED <<cand, decisions, audit, lock, tx, view>>
        /\ req[q].pc = "free"
        /\ \A x \in Requests : x # q => req'[x] = req[x]
    BY DEF Submit, SubmitForeign, TypeOK
  <1>2. /\ req'[q].pc = "received"
        /\ req'[q].cand \in Candidates /\ req'[q].reviewer \in Reviewers
        /\ req'[q].expected <= cand[req'[q].cand].revision
    <2>1. CASE Submit(q, r)
      BY <2>1 DEF Submit, ViewInv, TypeOK
    <2>2. CASE SubmitForeign(q, r)
      BY <2>2 DEF SubmitForeign, TypeOK, CandidateRow
    <2> QED
      BY <2>1, <2>2
  <1>3. \A d \in decisions : d.id \in Requests /\ d.id # q
    BY <1>1 DEF RowInv, TypeOK, Row
  <1>4. LockInv' /\ PriorInv'
    <2>1. \A c \in Candidates : lock[c] # None => lock[c] \in Requests /\ lock[c] # q
      BY <1>1 DEF LockInv, TypeOK
    <2> QED
      BY <1>1, <1>2, <2>1 DEF LockInv, PriorInv
  <1>5. TxInv'
    BY <1>1, <1>2 DEF TxInv, DecisionRow, AuditEvent
  <1>6. RequestInv' /\ ViewInv' /\ AbsentInv' /\ HistoryInv'
    BY <1>1, <1>2 DEF RequestInv, ViewInv, AbsentInv, HistoryInv
  <1>7. RowInv'
    BY <1>1, <1>2, <1>3 DEF RowInv, DecisionRow
  <1>8. SupersedesChain' /\ AuditMatchesHistory' /\ ConflictIsJustified'
    BY <1>1, <1>2 DEF SupersedesChain, AuditMatchesHistory, ConflictIsJustified, AuditEvent
  <1> QED
    BY <1>4, <1>5, <1>6, <1>7, <1>8

\* The steps of a request outside its transaction.
LEMMA QuietStep ==
    ASSUME IInv, TypeOK', NEW q \in Requests,
           Check(q) \/ Conflict(q) \/ Respond(q)
    PROVE  IInv'
  <1>1. CASE Check(q)
    <2> DEFINE p == req'[q].pc
    <2>1. /\ req' = [req EXCEPT ![q].pc = p]
          /\ p \in {"checked", "not_found", "invalid"}
          /\ p = "checked" => Exists(req[q].cand) /\ req[q].decision # None
      BY <1>1, SMTT(30) DEF Check, IInv, TypeOK, Request
    <2>2. p = "checked" => req[q].decision \in Verdicts
      BY <2>1 DEF IInv, TypeOK, Request
    <2> QED
      BY <1>1, <2>1, <2>2, QuietPcStep DEF Check
  <1>2. CASE Conflict(q)
    <2> DEFINE p == "conflict"
    <2>1. /\ req' = [req EXCEPT ![q].pc = p]
          /\ p \in {"conflict"} /\ p \notin InTx
          /\ req[q].pc = "checked"
          /\ cand[req[q].cand].revision # req[q].expected
          /\ Exists(req[q].cand) /\ req[q].decision \in Verdicts
      BY <1>2 DEF Conflict, IInv, RequestInv
    <2> HIDE DEF p
    <2> QED
      BY <1>2, <2>1, QuietPcStep DEF Conflict
  <1>3. CASE Respond(q)
    <2> DEFINE p == "saved"
    <2>1. /\ req' = [req EXCEPT ![q].pc = p]
          /\ p \in {"saved"} /\ p \notin InTx
          /\ req[q].pc = "committed"
      BY <1>3 DEF Respond
    <2> HIDE DEF p
    <2> QED
      BY <1>3, <2>1, QuietPcStep DEF Respond
  <1> QED
    BY <1>1, <1>2, <1>3

\* The conditional UPDATE takes a free row at the expected revision.
LEMMA UpdateStep ==
    ASSUME IInv, TypeOK', NEW q \in Requests, Update(q)
    PROVE  IInv'
  <1> USE DEF IInv
  <1>1. /\ UNCHANGED <<cand, decisions, audit, view>>
        /\ req' = [req EXCEPT ![q].pc = "updated"] /\ req[q].pc = "checked"
        /\ req[q].cand \in Candidates /\ lock[req[q].cand] = None
        /\ cand[req[q].cand].revision = req[q].expected
        /\ lock' = [lock EXCEPT ![req[q].cand] = q]
    BY DEF Update, RequestInv
  <1>2. LockInv'
    <2>1. \A c \in Candidates : lock[c] # None => lock[c] \in Requests /\ lock[c] # q
      BY <1>1 DEF LockInv, TypeOK
    <2>2. \A x \in Requests : req[x].pc \in InTx => req[x].cand \in Candidates
      BY DEF RequestInv
    <2> QED
      BY <1>1, <2>1, <2>2, PcStep, ConstantsAssumption DEF LockInv, TypeOK
  <1>3. TxInv'
    <2>1. /\ \A x \in Requests : x # q => tx'[x] = tx[x]
          /\ tx'[q].update = {[status |-> req[q].decision, revision |-> req[q].expected + 1]}
      BY DEF Update, TypeOK, Transaction
    <2> QED
      BY <1>1, <2>1, PcStep DEF TxInv, DecisionRow, AuditEvent
  <1>4. PriorInv' /\ RequestInv' /\ ViewInv' /\ AbsentInv' /\ HistoryInv'
    BY <1>1, PcStep DEF PriorInv, RequestInv, ViewInv, AbsentInv, HistoryInv
  <1>5. RowInv'
    <2>1. \A d \in decisions : d.id \in Requests /\ d.id # q
      BY <1>1 DEF RowInv, TypeOK, Row
    <2> QED
      BY <1>1, <2>1, PcStep DEF RowInv, DecisionRow
  <1>6. SupersedesChain' /\ AuditMatchesHistory' /\ ConflictIsJustified'
    BY <1>1, PcStep DEF SupersedesChain, AuditMatchesHistory, ConflictIsJustified, AuditEvent
  <1> QED
    BY <1>2, <1>3, <1>4, <1>5, <1>6

\* With the row held, the highest decision is the one of the expected revision.
LEMMA SelectPriorStep ==
    ASSUME IInv, TypeOK', NEW q \in Requests, SelectPrior(q)
    PROVE  IInv'
  <1> USE DEF IInv
  <1>1. /\ UNCHANGED <<cand, decisions, audit, lock, tx, view>>
        /\ req[q].pc = "updated" /\ req'[q].pc = "prior"
        /\ \A x \in Requests : x # q => req'[x] = req[x]
        /\ req'[q].cand = req[q].cand /\ req'[q].reviewer = req[q].reviewer
        /\ req'[q].decision = req[q].decision /\ req'[q].expected = req[q].expected
    BY DEF SelectPrior, TypeOK, Request
  <1>2. /\ req[q].cand \in Candidates /\ req[q].expected \in Nat
        /\ cand[req[q].cand].revision = req[q].expected
    BY <1>1 DEF RequestInv, LockInv, TypeOK, Request
  <1>3. IF req[q].expected = 0 THEN req'[q].prior = None
        ELSE \E d \in decisions : /\ d.cand = req[q].cand /\ d.id = req'[q].prior
                                  /\ d.revision = req[q].expected
    <2>1. CASE RowsOf(req[q].cand) = {} /\ req'[q].prior = None
      <3>1. req[q].expected = 0
        <4>1. SUFFICES ASSUME req[q].expected # 0 PROVE FALSE
          OBVIOUS
        <4>2. req[q].expected \in 1..cand[req[q].cand].revision
          BY <1>2, <4>1
        <4> QED
          BY <1>2, <2>1, <4>2 DEF HistoryInv
      <3> QED
        BY <2>1, <3>1
    <2>2. CASE \E d \in RowsOf(req[q].cand) :
                  /\ \A e \in RowsOf(req[q].cand) : e.revision <= d.revision
                  /\ req'[q].prior = d.id
      <3>1. PICK d \in decisions :
                  /\ d.cand = req[q].cand /\ req'[q].prior = d.id
                  /\ \A e \in decisions : e.cand = d.cand => e.revision <= d.revision
        BY <2>2
      <3>2. d.revision \in Nat /\ 1 <= d.revision /\ d.revision <= req[q].expected
        BY <1>2, <3>1 DEF HistoryInv, TypeOK, Row
      <3>3. req[q].expected \in 1..cand[req[q].cand].revision
        BY <1>2, <3>2
      <3>4. PICK e \in decisions : e.cand = req[q].cand /\ e.revision = req[q].expected
        BY <1>2, <3>3 DEF HistoryInv
      <3>5. d.revision = req[q].expected
        BY <1>2, <3>1, <3>2, <3>4
      <3> QED
        BY <3>1, <3>3, <3>5, <1>2
    <2> QED
      BY <1>1, <2>1, <2>2 DEF SelectPrior, TypeOK, Request
  <1>4. LockInv'
    <2>1. \A c \in Candidates : lock[c] # None => lock[c] \in Requests
      BY DEF TypeOK
    <2> QED
      BY <1>1, <2>1 DEF LockInv
  <1>5. PriorInv'
    BY <1>1, <1>3 DEF PriorInv
  <1>6. TxInv'
    BY <1>1 DEF TxInv, DecisionRow, AuditEvent
  <1>7. RequestInv' /\ ViewInv' /\ AbsentInv' /\ HistoryInv'
    BY <1>1 DEF RequestInv, ViewInv, AbsentInv, HistoryInv
  <1>8. RowInv'
    <2>1. \A d \in decisions : d.id \in Requests /\ d.id # q
      BY <1>1 DEF RowInv, TypeOK, Row
    <2> QED
      BY <1>1, <2>1 DEF RowInv, DecisionRow
  <1>9. SupersedesChain' /\ AuditMatchesHistory' /\ ConflictIsJustified'
    BY <1>1 DEF SupersedesChain, AuditMatchesHistory, ConflictIsJustified, AuditEvent
  <1> QED
    BY <1>4, <1>5, <1>6, <1>7, <1>8, <1>9

\* Flushing the decision row and the audit event only fills the buffer.
LEMMA InsertStep ==
    ASSUME IInv, TypeOK', NEW q \in Requests, InsertDecision(q) \/ InsertAudit(q)
    PROVE  IInv'
  <1> USE DEF IInv
  <1> DEFINE p == req'[q].pc
  <1>1. /\ UNCHANGED <<cand, decisions, audit, lock, view>>
        /\ req' = [req EXCEPT ![q].pc = p]
        /\ \/ req[q].pc = "prior" /\ p = "inserted"
           \/ req[q].pc = "inserted" /\ p = "audited"
        /\ \A x \in Requests : x # q => tx'[x] = tx[x]
    BY DEF InsertDecision, InsertAudit, TypeOK, Request
  <1>2. TxInv'
    <2>1. /\ \A x \in Requests : /\ req'[x].decision = req[x].decision
                                /\ req'[x].expected = req[x].expected
                                /\ DecisionRow(x)' = DecisionRow(x)
                                /\ AuditEvent(DecisionRow(x))' = AuditEvent(DecisionRow(x))
          /\ \A x \in Requests : x # q => req'[x].pc = req[x].pc
          /\ req'[q].pc = p
      BY <1>1, PcStep DEF DecisionRow, AuditEvent
    <2>2. ASSUME NEW x \in Requests, x # q
          PROVE  /\ req'[x].pc \in InTx => tx'[x].update =
                      {[status |-> req'[x].decision, revision |-> req'[x].expected + 1]}
                 /\ req'[x].pc \in {"inserted", "audited"} => tx'[x].rows = {DecisionRow(x)'}
                 /\ req'[x].pc = "audited" => tx'[x].events = {AuditEvent(DecisionRow(x))'}
      <3>1. tx'[x] = tx[x] /\ req'[x].pc = req[x].pc
        BY <1>1, <2>1, <2>2
      <3> QED
        BY <2>1, <3>1, Zenon DEF TxInv
    <2>3. /\ tx'[q].update =
                {[status |-> req'[q].decision, revision |-> req'[q].expected + 1]}
          /\ tx'[q].rows = {DecisionRow(q)'}
          /\ req'[q].pc = "audited" => tx'[q].events = {AuditEvent(DecisionRow(q))'}
      <3>1. CASE InsertDecision(q)
        <4>1. tx'[q].update = tx[q].update /\ tx'[q].rows = {DecisionRow(q)}
          BY <3>1 DEF InsertDecision, TypeOK, Transaction
        <4>2. req[q].pc = "prior" /\ p = "inserted"
          BY <1>1, <3>1 DEF InsertDecision
        <4> QED
          BY <2>1, <4>1, <4>2 DEF TxInv, InTx
      <3>2. CASE InsertAudit(q)
        <4>1. /\ tx'[q].update = tx[q].update /\ tx'[q].rows = tx[q].rows
              /\ tx'[q].events = {AuditEvent(DecisionRow(q))}
          BY <3>2 DEF InsertAudit, TypeOK, Transaction
        <4>2. req[q].pc = "inserted" /\ p = "audited"
          BY <1>1, <3>2 DEF InsertAudit
        <4> QED
          BY <2>1, <4>1, <4>2 DEF TxInv, InTx
      <3> QED
        BY <3>1, <3>2
    <2> QED
      BY <2>2, <2>3, Zenon DEF TxInv
  <1> HIDE DEF p
  <1>3. LockInv'
    <2>1. \A c \in Candidates : lock[c] # None => lock[c] \in Requests
      BY DEF TypeOK
    <2> QED
      BY <1>1, <2>1, PcStep DEF LockInv
  <1>4. PriorInv' /\ RequestInv'
    BY <1>1, PcStep DEF PriorInv, RequestInv
  <1>5. ViewInv' /\ AbsentInv' /\ HistoryInv'
    BY <1>1 DEF ViewInv, AbsentInv, HistoryInv
  <1>6. RowInv'
    <2>1. \A d \in decisions : d.id \in Requests /\ d.id # q
      BY <1>1 DEF RowInv, TypeOK, Row
    <2> QED
      BY <1>1, <2>1, PcStep DEF RowInv, DecisionRow
  <1>7. SupersedesChain' /\ AuditMatchesHistory' /\ ConflictIsJustified'
    BY <1>1, PcStep DEF SupersedesChain, AuditMatchesHistory, ConflictIsJustified, AuditEvent
  <1> QED
    BY <1>2, <1>3, <1>4, <1>5, <1>6, <1>7

\* A request that dies rolls its transaction back and gives its row back.
LEMMA FailStep ==
    ASSUME IInv, TypeOK', NEW q \in Requests, Fail(q)
    PROVE  IInv'
  <1> USE DEF IInv
  <1> DEFINE p == "lost"
  <1>1. /\ UNCHANGED <<cand, decisions, audit, view>>
        /\ req[q].pc \in Serving
        /\ req' = [req EXCEPT ![q].pc = p]
        /\ p \in {"lost"} /\ p \notin InTx
        /\ \A x \in Requests : x # q => tx'[x] = tx[x]
    BY DEF Fail, TypeOK
  <1> HIDE DEF p
  <1>a. req'[q].pc \notin InTx
    BY <1>1, PcStep
  <1>b. \A x \in Requests : x # q => req'[x] = req[x]
    BY <1>1, PcStep
  <1>2. LockInv'
    <2>1. /\ \A c \in Candidates : lock[c] # None => lock[c] \in Requests
          /\ \A x \in Requests : req[x].pc \in InTx => req[x].cand \in Candidates
      BY DEF TypeOK, RequestInv
    <2>2. \A c \in Candidates : /\ lock[c] = q => lock'[c] = None
                                /\ lock[c] # q => lock'[c] = lock[c]
      BY DEF Fail, Release
    <2>3. \A x \in Requests : req'[x].pc \in InTx =>
              x # q /\ req'[x] = req[x] /\ lock[req[x].cand] = x
      BY <1>a, <1>b DEF LockInv
    <2>4. \A x \in Requests : req'[x].pc \in InTx =>
              /\ lock'[req'[x].cand] = x
              /\ cand'[req'[x].cand].revision = req'[x].expected
      BY <1>1, <2>1, <2>2, <2>3 DEF LockInv
    <2>5. \A c \in Candidates : lock'[c] # None =>
              req'[lock'[c]].pc \in InTx /\ req'[lock'[c]].cand = c
      BY <1>1, <2>1, <2>2, PcStep DEF LockInv
    <2> QED
      BY <2>4, <2>5 DEF LockInv
  <1>3. TxInv'
    BY <1>1, <1>a, <1>b DEF TxInv, DecisionRow, AuditEvent
  <1>4. PriorInv' /\ RequestInv'
    BY <1>1, PcStep DEF PriorInv, RequestInv
  <1>5. ViewInv' /\ AbsentInv' /\ HistoryInv'
    BY <1>1 DEF ViewInv, AbsentInv, HistoryInv
  <1>6. RowInv'
    <2>1. \A d \in decisions : d.id \in Requests
      BY DEF TypeOK, Row
    <2> QED
      BY <1>1, <2>1, PcStep DEF RowInv, DecisionRow
  <1>7. SupersedesChain' /\ AuditMatchesHistory' /\ ConflictIsJustified'
    BY <1>1, PcStep DEF SupersedesChain, AuditMatchesHistory, ConflictIsJustified, AuditEvent
  <1> QED
    BY <1>2, <1>3, <1>4, <1>5, <1>6, <1>7

\* The commit publishes exactly the next revision of a history that nobody
\* else can have extended since the UPDATE.
LEMMA CommitStep ==
    ASSUME IInv, TypeOK', NEW q \in Requests, Commit(q)
    PROVE  IInv'
  <1> USE DEF IInv
  <1> DEFINE c == req[q].cand
             n == req[q].expected + 1
             row == DecisionRow(q)
             p == "committed"
  <1>1. /\ UNCHANGED view
        /\ req[q].pc = "audited" /\ req' = [req EXCEPT ![q].pc = p]
        /\ p \in {"committed"} /\ p \notin InTx
        /\ \A x \in Requests : x # q => tx'[x] = tx[x]
    BY DEF Commit, TypeOK
  <1>2. /\ c \in Candidates /\ n \in Nat /\ n > 0 /\ n = req[q].expected + 1
        /\ cand[c].revision = req[q].expected /\ req[q].expected \in Nat
        /\ req[q].decision \in Verdicts /\ Exists(c)
    BY <1>1 DEF RequestInv, LockInv, TypeOK, Request
  <1>3. decisions' = decisions \cup {row}
    BY <1>1 DEF Commit, TxInv
  <1>4. audit' = audit \cup {AuditEvent(row)}
    BY <1>1 DEF Commit, TxInv
  <1>5. cand' = [cand EXCEPT ![c] = [status |-> req[q].decision, revision |-> n]]
    <2>1. tx[q].update = {[status |-> req[q].decision, revision |-> n]}
      BY <1>1 DEF TxInv
    <2>2. PICK u \in tx[q].update : cand' = [cand EXCEPT ![c] = u]
      BY DEF Commit
    <2> QED
      BY <2>1, <2>2
  <1>6. /\ row.id = q /\ row.cand = c /\ row.revision = n
        /\ row.decision = req[q].decision /\ row.supersedes = req[q].prior
    BY DEF DecisionRow
  <1>7. /\ cand'[c].revision = n /\ cand'[c].status = req[q].decision
        /\ \A x \in Candidates : x # c => cand'[x] = cand[x]
    BY <1>2, <1>5 DEF TypeOK
  <1>8. \A d \in decisions : /\ d.id \in Requests /\ d.id # q
                             /\ d.cand \in Candidates /\ d.revision \in Nat
                             /\ d.cand = c => d.revision < n
    <2>1. \A d \in decisions : /\ d.id \in Requests /\ d.id # q
                               /\ d.cand \in Candidates /\ d.revision \in Nat
      BY <1>1 DEF RowInv, TypeOK, Row
    <2> QED
      BY <1>2, <2>1 DEF HistoryInv
  <1>9. \A x \in Candidates : cand[x].revision \in Nat
    BY DEF TypeOK, CandidateRow
  <1> HIDE DEF c, n, row, p
  <1>10. req'[q].pc = p /\ \A x \in Requests : x # q => req'[x] = req[x]
    BY <1>1, PcStep
  <1>11. req'[q].cand = c /\ req'[q].expected + 1 = n /\ req'[q].decision = req[q].decision
    BY <1>1, <1>2, PcStep DEF c
  <1>12. LockInv'
    <2>1. /\ \A x \in Candidates : lock[x] # None => lock[x] \in Requests
          /\ \A x \in Requests : req[x].pc \in InTx => req[x].cand \in Candidates
      BY DEF TypeOK, RequestInv
    <2>2. \A x \in Candidates : /\ lock[x] = q => lock'[x] = None
                                /\ lock[x] # q => lock'[x] = lock[x]
      BY DEF Commit, Release
    <2>3. lock[c] = q
      BY <1>1 DEF LockInv, c
    <2>4. \A x \in Requests : req'[x].pc \in InTx =>
              x # q /\ req'[x] = req[x] /\ lock[req[x].cand] = x
      BY <1>1, <1>10 DEF LockInv
    <2>5. \A x \in Requests : req'[x].pc \in InTx =>
              /\ lock'[req'[x].cand] = x
              /\ cand'[req'[x].cand].revision = req'[x].expected
      BY <1>7, <2>1, <2>2, <2>3, <2>4 DEF LockInv
    <2>6. \A x \in Candidates : lock'[x] # None =>
              req'[lock'[x]].pc \in InTx /\ req'[lock'[x]].cand = x
      BY <1>10, <2>1, <2>2 DEF LockInv
    <2> QED
      BY <2>5, <2>6 DEF LockInv
  <1>13. TxInv'
    BY <1>1, <1>10 DEF TxInv, DecisionRow, AuditEvent
  <1>14. PriorInv'
    BY <1>1, <1>3, <1>10 DEF PriorInv
  <1>15. RequestInv'
    <2>1. \A x \in Candidates : cand'[x].revision >= cand[x].revision /\ (Exists(x) => cand'[x].status # None)
      BY <1>2, <1>7, <1>9, ConstantsAssumption
    <2>2. \A x \in Requests : req[x].expected \in Nat /\ req'[x].expected = req[x].expected
      BY <1>1, PcStep DEF TypeOK, Request
    <2>3. \A x \in Candidates : cand'[x].revision \in Nat
      BY <1>2, <1>7, <1>9
    <2>4. \A x \in Requests : x # q /\ req'[x].pc # "free" =>
            /\ req'[x].cand \in Candidates /\ req'[x].reviewer \in Reviewers
            /\ req'[x].expected <= cand'[req'[x].cand].revision
            /\ req'[x].pc \in {"checked", "conflict", "committed", "saved"} \cup InTx =>
                   cand'[req'[x].cand].status # None /\ req'[x].decision \in Verdicts
      BY <1>9, <1>10, <2>1, <2>2, <2>3 DEF RequestInv
    <2>5. /\ req'[q].cand \in Candidates /\ req'[q].reviewer \in Reviewers
          /\ req'[q].expected <= cand'[req'[q].cand].revision
          /\ cand'[req'[q].cand].status # None /\ req'[q].decision \in Verdicts
      <3>1. req'[q].reviewer = req[q].reviewer /\ req[q].reviewer \in Reviewers
        BY <1>1, PcStep DEF RequestInv
      <3> QED
        BY <1>2, <1>7, <1>11, <2>2, <3>1, ConstantsAssumption
    <2> QED
      BY <2>4, <2>5 DEF RequestInv
  <1>16. ViewInv'
    <2>1. \A r \in Reviewers : view[r].revision \in Nat
      BY DEF TypeOK, View
    <2> QED
      BY <1>1, <1>2, <1>7, <1>9, <2>1 DEF ViewInv
  <1>17. RowInv'
    <2>1. IsFiniteSet(decisions')
      BY <1>3, FS_AddElement DEF RowInv
    <2>2. DecisionRow(q)' = row
      BY <1>1, PcStep DEF DecisionRow, row
    <2>3. \A d \in decisions' : /\ req'[d.id].pc \in {"committed", "saved", "lost"}
                                /\ d = DecisionRow(d.id)'
      <3>1. \A d \in decisions : /\ req'[d.id].pc \in {"committed", "saved", "lost"}
                                 /\ d = DecisionRow(d.id)'
        BY <1>8, <1>10 DEF RowInv, DecisionRow
      <3>2. req'[row.id].pc = "committed" /\ row = DecisionRow(row.id)'
        BY <1>1, <1>6, <1>10, PcStep DEF DecisionRow, row
      <3> QED
        BY <1>3, <3>1, <3>2 DEF DecisionRow
    <2>4. \A x \in Requests : req'[x].pc \in {"committed", "saved"} =>
              DecisionRow(x)' \in decisions'
      <3>1. \A x \in Requests : x # q /\ req'[x].pc \in {"committed", "saved"} =>
                DecisionRow(x)' \in decisions
        BY <1>10 DEF RowInv, DecisionRow
      <3> QED
        BY <1>3, <2>2, <3>1
    <2> QED
      BY <2>1, <2>3, <2>4 DEF RowInv
  <1>18. AbsentInv'
    BY <1>2, <1>7, ConstantsAssumption DEF AbsentInv
  <1>19. HistoryInv'
    <2>1. \A d \in decisions' : 1 <= d.revision /\ d.revision <= cand'[d.cand].revision
      BY <1>2, <1>3, <1>6, <1>7, <1>8, <1>9 DEF HistoryInv
    <2>2. ASSUME NEW x \in Candidates, NEW m \in 1..cand'[x].revision
          PROVE \E d \in decisions' : d.cand = x /\ d.revision = m
      <3>1. CASE x = c /\ m = n
        BY <1>3, <1>6, <3>1
      <3>2. CASE ~(x = c /\ m = n)
        <4>1. m \in 1..cand[x].revision
          BY <1>2, <1>7, <1>9, <3>2
        <4> QED
          BY <1>3, <4>1 DEF HistoryInv
      <3> QED
        BY <3>1, <3>2
    <2>3. \A d, e \in decisions' : d.cand = e.cand /\ d.revision = e.revision => d = e
      BY <1>2, <1>3, <1>6, <1>8 DEF HistoryInv
    <2> QED
      BY <2>1, <2>2, <2>3 DEF HistoryInv
  <1>20. SupersedesChain'
    <2>1. ASSUME NEW d \in decisions
          PROVE  /\ d.revision = cand'[d.cand].revision => d.decision = cand'[d.cand].status
                 /\ d.revision = 1 => d.supersedes = None
                 /\ d.revision > 1 => \E e \in decisions :
                        e.cand = d.cand /\ e.id = d.supersedes /\ e.revision + 1 = d.revision
      BY <1>2, <1>7, <1>8 DEF SupersedesChain
    <2>2. n = 1 => row.supersedes = None
      BY <1>1, <1>2, <1>6 DEF PriorInv
    <2>3. n > 1 => \E e \in decisions :
             e.cand = c /\ e.id = row.supersedes /\ e.revision + 1 = n
      BY <1>1, <1>2, <1>6 DEF PriorInv, c
    <2> QED
      BY <1>3, <1>6, <1>7, <2>1, <2>2, <2>3 DEF SupersedesChain
  <1>21. AuditMatchesHistory'
    BY <1>3, <1>4 DEF AuditMatchesHistory, AuditEvent
  <1>22. ConflictIsJustified'
    BY <1>1, <1>3, <1>10 DEF ConflictIsJustified
  <1> QED
    BY <1>12, <1>13, <1>14, <1>15, <1>16, <1>17, <1>18, <1>19, <1>20, <1>21, <1>22

\* The strengthened invariant is inductive.
LEMMA NextIInv == IInv /\ [Next]_vars => IInv'
  <1> SUFFICES ASSUME IInv, [Next]_vars PROVE IInv'
    OBVIOUS
  <1>1. TypeOK'
    BY TypePreserved
  <1>2. CASE UNCHANGED vars
    <2> USE <1>2 DEF vars, IInv
    <2>1. LockInv' /\ PriorInv' /\ RequestInv' /\ ViewInv' /\ AbsentInv' /\ HistoryInv'
      BY DEF LockInv, PriorInv, RequestInv, ViewInv, AbsentInv, HistoryInv
    <2>2. TxInv' /\ RowInv'
      BY DEF TxInv, RowInv, DecisionRow, AuditEvent
    <2>3. SupersedesChain' /\ AuditMatchesHistory' /\ ConflictIsJustified'
      BY DEF SupersedesChain, AuditMatchesHistory, ConflictIsJustified, AuditEvent
    <2> QED
      BY <1>1, <2>1, <2>2, <2>3
  <1>3. ASSUME NEW q \in Requests, Serve(q) \/ Fail(q)
        PROVE IInv'
    BY <1>1, <1>3, QuietStep, UpdateStep, SelectPriorStep, InsertStep, CommitStep,
       FailStep DEF Serve
  <1> QED
    BY <1>1, <1>2, <1>3, ExecuteStep, ReadStep, SubmitStep DEF Next

\* Every reachable state of the review desk satisfies the invariant.
THEOREM Invariance == Spec => []IInv
  BY InitIInv, NextIInv, PTL DEF Spec

\* The tables, requests and screens stay well typed.
THEOREM TypeCorrect == Spec => []TypeOK
  <1>1. IInv => TypeOK
    BY DEF IInv
  <1> QED
    BY <1>1, Invariance, PTL

\* However many reviewers compete and wherever requests die, the decisions of
\* a candidate carry the revisions 1..revision, each exactly once.
THEOREM HistoryIsContiguous == Spec => []HistoryContiguous
  <1>1. IInv => HistoryContiguous
    <2> SUFFICES ASSUME IInv, NEW c \in Candidates
                 PROVE  /\ {d.revision : d \in RowsOf(c)} = 1..cand[c].revision
                        /\ \A d, e \in RowsOf(c) : d.revision = e.revision => d = e
      BY DEF HistoryContiguous
    <2>1. \A d \in decisions : d.revision \in Nat
      BY DEF IInv, TypeOK, Row
    <2>2. cand[c].revision \in Nat
      BY DEF IInv, TypeOK, CandidateRow
    <2> QED
      BY <2>1, <2>2 DEF IInv, HistoryInv
  <1> QED
    BY <1>1, Invariance, PTL

\* The status shown is the last decision, and supersedes_decision_id links
\* every decision to the one before it.
THEOREM SupersedesIsChain == Spec => []SupersedesChain
  <1>1. IInv => SupersedesChain
    BY DEF IInv
  <1> QED
    BY <1>1, Invariance, PTL

\* Decisions and their audit events exist together or not at all.
THEOREM AuditIsComplete == Spec => []AuditMatchesHistory
  <1>1. IInv => AuditMatchesHistory
    BY DEF IInv
  <1> QED
    BY <1>1, Invariance, PTL

\* A 200 answer means the decision is recorded, a 400, 404 or 409 that it is not.
THEOREM AnswersHold == Spec => []AnswersAreTrue
  <1>1. IInv => AnswersAreTrue
    <2> SUFFICES ASSUME IInv PROVE AnswersAreTrue
      OBVIOUS
    <2>1. \A q \in Requests : req[q].pc = "saved" => DecisionRow(q) \in decisions
      BY DEF IInv, RowInv
    <2>2. \A d \in decisions : req[d.id].pc \in {"committed", "saved", "lost"}
      BY DEF IInv, RowInv
    <2> QED
      BY <2>1, <2>2 DEF AnswersAreTrue, DecisionRow
  <1> QED
    BY <1>1, Invariance, PTL

\* Nobody is told to refresh unless another decision did take the revision.
THEOREM ConflictsAreJustified == Spec => []ConflictIsJustified
  <1>1. IInv => ConflictIsJustified
    BY DEF IInv
  <1> QED
    BY <1>1, Invariance, PTL

\* Together: record_match_decision keeps the history of every candidate sound,
\* and nobody is told anything about it that is not so.
THEOREM HistoryIsSound == Spec => []HistorySound
  BY TypeCorrect, HistoryIsContiguous, SupersedesIsChain, AuditIsComplete, PTL
     DEF HistorySound

\* What reviewers are told by 200 and 409 is true of the history.
THEOREM AnswersAreSound == Spec => []AnswersSound
  BY AnswersHold, ConflictsAreJustified, PTL DEF AnswersSound

-----------------------------------------------------------------------------
\* Every step of the desk only appends (AppendOnly).
THEOREM DeskAppendsOnly == Spec => AppendOnly
  <1>1. IInv /\ [Next]_vars => [AppendStep]_vars
    <2> SUFFICES ASSUME IInv, Next PROVE AppendStep
      BY DEF vars
    <2>1. CASE Execute
      <3>1. UNCHANGED <<decisions, audit>> /\ \A c \in Candidates : Exists(c) => cand'[c] = cand[c]
        BY <2>1 DEF Execute
      <3> QED
        BY <3>1 DEF AppendStep
    <2>2. ASSUME NEW q \in Requests, Commit(q) PROVE AppendStep
      <3>1. decisions \subseteq decisions' /\ audit \subseteq audit'
        BY <2>2 DEF Commit
      <3>2. PICK u \in tx[q].update : cand' = [cand EXCEPT ![req[q].cand] = u]
        BY <2>2 DEF Commit
      <3>3. u.revision = req[q].expected + 1 /\ cand[req[q].cand].revision = req[q].expected
        BY <2>2 DEF Commit, IInv, TxInv, LockInv
      <3> QED
        BY <3>1, <3>2, <3>3 DEF AppendStep, IInv, TypeOK
    <2>3. CASE UNCHANGED <<cand, decisions, audit>>
      BY <2>3 DEF AppendStep
    <2> QED
      BY <2>1, <2>2, <2>3 DEF Next, Serve, ReadCandidates, ReadCounts, ReadLatest, Submit,
         SubmitForeign, Check, Update, Conflict, SelectPrior, InsertDecision,
         InsertAudit, Respond, Fail
  <1> QED
    BY <1>1, Invariance, PTL DEF Spec, AppendOnly

-----------------------------------------------------------------------------
(* The review queue *)

\* The count read for a queue item is between the revision read before it and
\* the revision of now; the decision read last is at least as late.
QueueInv ==
    \A r \in Reviewers :
        /\ view[r].stage \in {"counts", "shown"} =>
               /\ view[r].revision <= view[r].count
               /\ view[r].count <= cand[view[r].cand].revision
        /\ view[r].stage = "shown" => view[r].count <= view[r].latest

\* The revision of a candidate is the number of its decisions.
LEMMA CountIsRevision ==
    ASSUME IInv, NEW c \in Candidates
    PROVE  Cardinality(RowsOf(c)) = cand[c].revision
  <1> DEFINE n == cand[c].revision
             R == RowsOf(c)
             f == [d \in R |-> d.revision]
  <1>1. n \in Nat /\ \A d \in R : d.revision \in Nat
    BY DEF IInv, TypeOK, CandidateRow, Row
  <1>2. \A d \in R : d.revision \in 1..n
    BY <1>1 DEF IInv, HistoryInv
  <1>3. \A i \in 1..n : \E d \in R : d.revision = i
    BY DEF IInv, HistoryInv
  <1>4. \A d, e \in R : d.revision = e.revision => d = e
    BY DEF IInv, HistoryInv
  <1>5. f \in Bijection(R, 1..n)
    BY <1>2, <1>3, <1>4, Fun_IsBij
  <1>6. ExistsBijection(R, 1..n)
    BY <1>5, Fun_ExistsBij
  <1>7. IsFiniteSet(R)
    BY FS_Subset DEF IInv, RowInv
  <1>8. Cardinality(1..n) = Cardinality(R)
    BY <1>6, <1>7, FS_Bijection
  <1>9. Cardinality(1..n) = n
    BY <1>1, FS_Interval
  <1> QED
    BY <1>8, <1>9

\* The decision joined on a candidate's revision is there when there is one.
LEMMA LatestIsRevision ==
    ASSUME IInv, NEW c \in Candidates
    PROVE  LatestRevision(c) = cand[c].revision
  <1>1. cand[c].revision \in Nat
    BY DEF IInv, TypeOK, CandidateRow
  <1>2. CASE cand[c].revision = 0
    BY <1>2 DEF LatestRevision
  <1>3. CASE cand[c].revision # 0
    <2>1. cand[c].revision \in 1..cand[c].revision
      BY <1>1, <1>3
    <2>2. \E d \in decisions : d.cand = c /\ d.revision = cand[c].revision
      BY <2>1 DEF IInv, HistoryInv
    <2> QED
      BY <2>2 DEF LatestRevision
  <1> QED
    BY <1>2, <1>3

\* No step takes a revision back.
LEMMA RevisionsGrow ==
    ASSUME IInv, IInv', AppendStep, NEW c \in Candidates
    PROVE  cand[c].revision <= cand'[c].revision
  <1>1. cand[c].revision \in Nat /\ cand'[c].revision \in Nat
    BY DEF IInv, TypeOK, CandidateRow
  <1>2. CASE ~Exists(c)
    BY <1>1, <1>2 DEF IInv, AbsentInv
  <1>3. CASE Exists(c)
    <2>1. CASE cand'[c] = cand[c]
      BY <1>1, <2>1
    <2>2. CASE cand'[c] # cand[c]
      <3>1. cand'[c].revision = cand[c].revision + 1
        BY <1>3, <2>2, Zenon DEF AppendStep
      <3> QED
        BY <1>1, <3>1
    <2> QED
      BY <2>1, <2>2
  <1> QED
    BY <1>2, <1>3

\* Every step keeps the order of the three moments of a queue item.
LEMMA QueueStep ==
    ASSUME IInv, IInv', QueueInv, Next, AppendStep
    PROVE  QueueInv'
  <1>1. \A r \in Reviewers : /\ view[r].revision \in Nat /\ view[r].count \in Nat
                             /\ view[r].latest \in Nat
    BY DEF IInv, TypeOK, View
  <1>2. \A r \in Reviewers : view[r].stage # "none" => view[r].cand \in Candidates
    BY DEF IInv, ViewInv
  <1>3. \A c \in Candidates : /\ cand[c].revision \in Nat /\ cand'[c].revision \in Nat
                              /\ cand[c].revision <= cand'[c].revision
    BY RevisionsGrow DEF IInv, TypeOK, CandidateRow
  <1>4. ASSUME NEW r \in Reviewers, view'[r] = view[r]
        PROVE  /\ view'[r].stage \in {"counts", "shown"} =>
                      /\ view'[r].revision <= view'[r].count
                      /\ view'[r].count <= cand'[view'[r].cand].revision
               /\ view'[r].stage = "shown" => view'[r].count <= view'[r].latest
    <2>1. CASE view[r].stage \in {"counts", "shown"}
      <3>1. /\ view[r].cand \in Candidates
            /\ view[r].revision <= view[r].count
            /\ view[r].count <= cand[view[r].cand].revision
            /\ view[r].stage = "shown" => view[r].count <= view[r].latest
        BY <1>2, <2>1 DEF QueueInv
      <3>2. view[r].count <= cand'[view[r].cand].revision
        BY <1>1, <1>3, <3>1
      <3> QED
        BY <1>4, <3>1, <3>2
    <2>2. CASE view[r].stage \notin {"counts", "shown"}
      BY <1>4, <2>2
    <2> QED
      BY <2>1, <2>2
  <1>5. ASSUME NEW r \in Reviewers, \A p \in Reviewers : p # r => view'[p] = view[p],
               /\ view'[r].stage \in {"counts", "shown"} =>
                      /\ view'[r].revision <= view'[r].count
                      /\ view'[r].count <= cand'[view'[r].cand].revision
               /\ view'[r].stage = "shown" => view'[r].count <= view'[r].latest
        PROVE  QueueInv'
    BY <1>4, <1>5 DEF QueueInv
  <1>6. CASE UNCHANGED view
    BY <1>4, <1>6 DEF QueueInv
  <1>7. ASSUME NEW r \in Reviewers, ReadCandidates(r) PROVE QueueInv'
    <2>1. /\ \A p \in Reviewers : p # r => view'[p] = view[p]
          /\ view'[r].stage = "candidates"
      BY <1>7 DEF ReadCandidates, IInv, TypeOK
    <2> QED
      BY <1>5, <2>1
  <1>8. ASSUME NEW r \in Reviewers, ReadCounts(r) PROVE QueueInv'
    <2> DEFINE c == view[r].cand
    <2>1. /\ \A p \in Reviewers : p # r => view'[p] = view[p]
          /\ view'[r].stage = "counts" /\ view'[r].cand = c
          /\ view'[r].revision = view[r].revision
          /\ view'[r].count = Cardinality(RowsOf(c))
      BY <1>8 DEF ReadCounts, IInv, TypeOK, View
    <2>2. c \in Candidates /\ view[r].revision <= cand[c].revision
      BY <1>8 DEF ReadCounts, IInv, ViewInv
    <2>3. Cardinality(RowsOf(c)) = cand[c].revision
      BY <2>2, CountIsRevision
    <2>4. cand' = cand
      BY <1>8 DEF ReadCounts
    <2>5. cand[c].revision <= cand'[c].revision
      BY <1>3, <2>2
    <2> HIDE DEF c
    <2> QED
      BY <1>5, <2>1, <2>2, <2>3, <2>5
  <1>9. ASSUME NEW r \in Reviewers, ReadLatest(r) PROVE QueueInv'
    <2> DEFINE c == view[r].cand
    <2>1. /\ \A p \in Reviewers : p # r => view'[p] = view[p]
          /\ view'[r].stage = "shown" /\ view'[r].cand = c
          /\ view'[r].revision = view[r].revision
          /\ view'[r].count = view[r].count
          /\ view'[r].latest = LatestRevision(c)
      BY <1>9 DEF ReadLatest, IInv, TypeOK, View
    <2>2. /\ c \in Candidates
          /\ view[r].revision <= view[r].count /\ view[r].count <= cand[c].revision
      BY <1>2, <1>9 DEF ReadLatest, QueueInv
    <2>3. LatestRevision(c) = cand[c].revision
      BY <2>2, LatestIsRevision
    <2>4. cand'[c] = cand[c]
      BY <1>9 DEF ReadLatest
    <2> HIDE DEF c
    <2> QED
      BY <1>5, <2>1, <2>2, <2>3, <2>4
  <1> QED
    BY <1>6, <1>7, <1>8, <1>9 DEF Next, Serve, Execute, Submit, SubmitForeign, Check,
       Update, Conflict, SelectPrior, InsertDecision, InsertAudit, Commit, Respond, Fail

\* A queue item of the review desk never shows a count behind its revision nor
\* ahead of its latest decision, whatever is committed between the three
\* statements of the handler that reads it.
THEOREM QueueItemsAreMonotone == Spec => []QueueItemMonotone
  <1>1. Init => QueueInv
    BY DEF Init, EmptyView, QueueInv
  <1>2. IInv /\ IInv' /\ QueueInv /\ [Next]_vars /\ [AppendStep]_vars => QueueInv'
    <2> SUFFICES ASSUME IInv, IInv', QueueInv, [Next]_vars, [AppendStep]_vars
                 PROVE  QueueInv'
      OBVIOUS
    <2>1. CASE UNCHANGED vars
      BY <2>1 DEF vars, QueueInv
    <2>2. CASE Next /\ AppendStep
      BY <2>2, QueueStep
    <2> QED
      BY <2>1, <2>2
  <1>3. QueueInv => QueueItemMonotone
    BY DEF QueueInv, QueueItemMonotone
  <1> QED
    BY <1>1, <1>2, <1>3, Invariance, DeskAppendsOnly, PTL DEF Spec, AppendOnly

-----------------------------------------------------------------------------
(* Refinement of RevisionLog *)

\* A screen, or a request sent from one, that still carries the current
\* revision carries the current status too; only requests for candidates of
\* another organization carry none, and those never pass the checks.
SeenInv ==
    /\ \A r \in Reviewers : view[r].stage # "none" =>
           /\ Exists(view[r].cand)
           /\ view[r].status \in Statuses
           /\ view[r].revision = cand[view[r].cand].revision =>
                  view[r].status = cand[view[r].cand].status
    /\ \A q \in Requests : req[q].pc # "free" =>
           \/ /\ req[q].seen = None
              /\ CandidateOrg[req[q].cand] # ReviewerOrg[req[q].reviewer]
           \/ /\ req[q].seen \in Statuses
              /\ Exists(req[q].cand)
              /\ req[q].expected = cand[req[q].cand].revision =>
                     req[q].seen = cand[req[q].cand].status
    /\ \A q \in Requests : req[q].pc \in {"checked"} \cup InTx =>
           CandidateOrg[req[q].cand] = ReviewerOrg[req[q].reviewer]

\* At the start there is no screen and no request.
LEMMA InitSeen == Init => SeenInv
  BY DEF Init, SeenInv, FreeRequest, EmptyView

\* SeenInv is inductive relative to IInv.
LEMMA NextSeen == IInv /\ SeenInv /\ [Next]_vars => SeenInv'
  <1> SUFFICES ASSUME IInv, SeenInv, [Next]_vars PROVE SeenInv'
    OBVIOUS
  <1> USE ConstantsAssumption
  <1>1. CASE UNCHANGED vars
    BY <1>1 DEF vars, SeenInv
  <1>2. CASE Execute
    <2>1. UNCHANGED <<req, view>> /\ \A c \in Candidates : Exists(c) => cand'[c] = cand[c]
      BY <1>2 DEF Execute
    <2>2. /\ \A r \in Reviewers : view[r].stage # "none" => view[r].cand \in Candidates
          /\ \A q \in Requests : req[q].pc # "free" => req[q].cand \in Candidates
      BY DEF IInv, ViewInv, RequestInv
    <2> QED
      BY <2>1, <2>2 DEF SeenInv
  <1>3. ASSUME NEW r \in Reviewers, ReadCandidates(r) PROVE SeenInv'
    <2>1. PICK c \in Candidates :
            /\ Exists(c)
            /\ view' = [view EXCEPT ![r] =
                         [stage |-> "candidates", cand |-> c, status |-> cand[c].status,
                          revision |-> cand[c].revision, count |-> 0, latest |-> 0]]
      BY <1>3 DEF ReadCandidates
    <2>2. cand[c].status \in Statuses
      BY <2>1 DEF IInv, TypeOK, CandidateRow
    <2>3. UNCHANGED <<cand, req>>
      BY <1>3 DEF ReadCandidates
    <2> QED
      BY <2>1, <2>2, <2>3 DEF SeenInv, IInv, TypeOK
  <1>4. ASSUME NEW r \in Reviewers, ReadCounts(r) \/ ReadLatest(r) PROVE SeenInv'
    <2>1. UNCHANGED <<cand, req>> /\ view[r].stage # "none"
      BY <1>4 DEF ReadCounts, ReadLatest
    <2>2. /\ \A x \in Reviewers : x # r => view'[x] = view[x]
          /\ view'[r].cand = view[r].cand /\ view'[r].status = view[r].status
          /\ view'[r].revision = view[r].revision
      BY <1>4 DEF ReadCounts, ReadLatest, IInv, TypeOK, View
    <2> QED
      BY <2>1, <2>2 DEF SeenInv
  <1>5. ASSUME NEW q \in Requests, NEW r \in Reviewers, Submit(q, r) PROVE SeenInv'
    <2>1. /\ UNCHANGED <<cand, view>> /\ view[r].stage # "none"
          /\ \A x \in Requests : x # q => req'[x] = req[x]
          /\ req'[q].pc = "received" /\ req'[q].cand = view[r].cand
          /\ req'[q].expected = view[r].revision /\ req'[q].seen = view[r].status
      BY <1>5 DEF Submit, IInv, TypeOK
    <2> QED
      BY <2>1 DEF SeenInv
  <1>6. ASSUME NEW q \in Requests, NEW r \in Reviewers, SubmitForeign(q, r) PROVE SeenInv'
    <2>1. /\ UNCHANGED <<cand, view>>
          /\ \A x \in Requests : x # q => req'[x] = req[x]
          /\ req'[q].pc = "received" /\ req'[q].seen = None
          /\ CandidateOrg[req'[q].cand] # ReviewerOrg[req'[q].reviewer]
      BY <1>6 DEF SubmitForeign, IInv, TypeOK
    <2> QED
      BY <2>1 DEF SeenInv
  <1>7. ASSUME NEW q \in Requests, Check(q) PROVE SeenInv'
    <2> DEFINE p == req'[q].pc
    <2>1. /\ UNCHANGED <<cand, view>> /\ req[q].pc = "received"
          /\ req' = [req EXCEPT ![q].pc = p]
          /\ p \in {"checked", "not_found", "invalid"}
          /\ p = "checked" => CandidateOrg[req[q].cand] = ReviewerOrg[req[q].reviewer]
      BY <1>7 DEF Check, IInv, TypeOK, Request
    <2>2. TypeOK
      BY DEF IInv
    <2> HIDE DEF p
    <2> QED
      BY <2>1, <2>2, PcStep DEF SeenInv
  <1>8. ASSUME NEW q \in Requests, NEW p, req' = [req EXCEPT ![q].pc = p],
               req[q].pc \in Serving, p \in {"checked"} \cup InTx => req[q].pc \in {"checked"} \cup InTx,
               UNCHANGED <<cand, view>>
        PROVE SeenInv'
    <2>1. TypeOK
      BY DEF IInv
    <2> QED
      BY <1>8, <2>1, PcStep DEF SeenInv
  <1>9. ASSUME NEW q \in Requests,
               Update(q) \/ Conflict(q) \/ InsertDecision(q) \/ InsertAudit(q)
                  \/ Respond(q) \/ Fail(q)
        PROVE SeenInv'
    <2>1. CASE Update(q)
      BY <1>8, <2>1 DEF Update
    <2>2. CASE Conflict(q)
      BY <1>8, <2>2 DEF Conflict
    <2>3. CASE InsertDecision(q)
      BY <1>8, <2>3 DEF InsertDecision
    <2>4. CASE InsertAudit(q)
      BY <1>8, <2>4 DEF InsertAudit
    <2>5. CASE Respond(q)
      BY <1>8, <2>5 DEF Respond
    <2>6. CASE Fail(q)
      BY <1>8, <2>6 DEF Fail
    <2> QED
      BY <1>9, <2>1, <2>2, <2>3, <2>4, <2>5, <2>6
  <1>10. ASSUME NEW q \in Requests, SelectPrior(q) PROVE SeenInv'
    <2>1. /\ UNCHANGED <<cand, view>> /\ req[q].pc = "updated"
          /\ \A x \in Requests : x # q => req'[x] = req[x]
          /\ req'[q].cand = req[q].cand /\ req'[q].reviewer = req[q].reviewer
          /\ req'[q].seen = req[q].seen /\ req'[q].expected = req[q].expected
      BY <1>10 DEF SelectPrior, IInv, TypeOK, Request
    <2> QED
      BY <2>1 DEF SeenInv
  <1>11. ASSUME NEW q \in Requests, Commit(q) PROVE SeenInv'
    <2> DEFINE c == req[q].cand
    <2>1. /\ UNCHANGED view
          /\ c \in Candidates
          /\ cand[c].revision = req[q].expected /\ req[q].expected \in Nat
          /\ req[q].decision \in Verdicts
      BY <1>11 DEF Commit, IInv, LockInv, RequestInv, TypeOK, Request
    <2>2. PICK u \in tx[q].update : cand' = [cand EXCEPT ![c] = u]
      BY <1>11 DEF Commit
    <2>3. u = [status |-> req[q].decision, revision |-> req[q].expected + 1]
      BY <1>11 DEF Commit, IInv, TxInv
    <2>4. /\ cand'[c].revision = cand[c].revision + 1 /\ cand'[c].status # None
          /\ \A x \in Candidates : x # c => cand'[x] = cand[x]
      BY <2>1, <2>2, <2>3 DEF IInv, TypeOK
    <2>5. req' = [req EXCEPT ![q].pc = "committed"] /\ TypeOK
      BY <1>11 DEF Commit, IInv
    <2>6. /\ \A x \in Requests : x # q => req'[x] = req[x]
          /\ req'[q].pc = "committed"
          /\ req'[q].cand = c /\ req'[q].expected = req[q].expected
          /\ req'[q].seen = req[q].seen /\ req'[q].reviewer = req[q].reviewer
      BY <2>5, PcStep DEF c
    <2>7. /\ \A r \in Reviewers : view[r].stage # "none" =>
               /\ view[r].cand \in Candidates /\ view[r].revision \in Nat
               /\ view[r].revision <= cand[view[r].cand].revision
          /\ \A x \in Requests : req[x].pc # "free" =>
               /\ req[x].cand \in Candidates /\ req[x].expected \in Nat
               /\ req[x].expected <= cand[req[x].cand].revision
      BY DEF IInv, ViewInv, RequestInv, TypeOK, View, Request
    <2>8. req[q].pc = "audited"
      BY <1>11 DEF Commit
    <2> HIDE DEF c
    <2>9. \A r \in Reviewers : view'[r].stage # "none" =>
           /\ cand'[view'[r].cand].status # None
           /\ view'[r].status \in Statuses
           /\ view'[r].revision = cand'[view'[r].cand].revision =>
                  view'[r].status = cand'[view'[r].cand].status
      BY <2>1, <2>4, <2>7 DEF SeenInv
    <2>10. \A x \in Requests : x # q /\ req'[x].pc # "free" =>
           \/ /\ req'[x].seen = None
              /\ CandidateOrg[req'[x].cand] # ReviewerOrg[req'[x].reviewer]
           \/ /\ req'[x].seen \in Statuses
              /\ cand'[req'[x].cand].status # None
              /\ req'[x].expected = cand'[req'[x].cand].revision =>
                     req'[x].seen = cand'[req'[x].cand].status
      BY <2>1, <2>4, <2>6, <2>7 DEF SeenInv
    <2>11. /\ req'[q].seen \in Statuses /\ cand'[req'[q].cand].status # None
           /\ req'[q].expected # cand'[req'[q].cand].revision
      <3>1. req[q].seen \in Statuses
        BY <2>8 DEF SeenInv
      <3> QED
        BY <2>1, <2>4, <2>6, <3>1
    <2>12. \A x \in Requests : req'[x].pc \in {"checked"} \cup InTx =>
           CandidateOrg[req'[x].cand] = ReviewerOrg[req'[x].reviewer]
      BY <2>6 DEF SeenInv
    <2> QED
      BY <2>9, <2>10, <2>11, <2>12 DEF SeenInv
  <1> QED
    BY <1>1, <1>2, <1>3, <1>4, <1>5, <1>6, <1>7, <1>9, <1>10, <1>11 DEF Next, Serve

\* The n-th entry of the abstract log is made from the n-th decision row.
LEMMA EntryOfRow ==
    ASSUME IInv, NEW d \in decisions
    PROVE  /\ d.cand \in Candidates /\ d.revision \in 1..cand[d.cand].revision
           /\ LogMap[d.cand][d.revision] = Verdict(d)
  <1>1. d.cand \in Candidates /\ d.revision \in 1..cand[d.cand].revision
    BY DEF IInv, HistoryInv, TypeOK, Row, CandidateRow
  <1>2. DecisionAt(d.cand, d.revision) = d
    BY Zenon DEF DecisionAt, IInv, HistoryInv
  <1> QED
    BY <1>1, <1>2 DEF LogMap

\* The same fact about the next state.
LEMMA NextEntryOfRow ==
    ASSUME IInv', NEW d \in decisions'
    PROVE  /\ d.cand \in Candidates /\ d.revision \in 1..cand'[d.cand].revision
           /\ LogMap'[d.cand][d.revision] = [from |-> req'[d.id].seen, to |-> d.decision]
  <1>1. d.cand \in Candidates /\ d.revision \in 1..cand'[d.cand].revision
    BY DEF IInv, HistoryInv, TypeOK, Row, CandidateRow
  <1>2. (CHOOSE e \in {e \in decisions' : e.cand = d.cand} : e.revision = d.revision) = d
    BY DEF IInv, HistoryInv
  <1> QED
    BY <1>1, <1>2 DEF LogMap, DecisionAt, Verdict

\* A step that leaves the tables and the requests of the recorded decisions
\* alone leaves the abstract log alone.
LEMMA LogUnchanged ==
    ASSUME IInv, IInv', UNCHANGED <<decisions, audit>>,
           \A c \in Candidates : cand'[c].revision = cand[c].revision,
           \A d \in decisions : req'[d.id].seen = req[d.id].seen
    PROVE  UNCHANGED <<LogMap, TrailMap>>
  <1>1. ASSUME NEW c \in Candidates, NEW n \in 1..cand[c].revision
        PROVE  LogMap'[c][n] = LogMap[c][n]
    <2>1. PICK d \in decisions : d.cand = c /\ d.revision = n
      BY DEF IInv, HistoryInv
    <2>2. LogMap[c][n] = [from |-> req[d.id].seen, to |-> d.decision]
      BY <2>1, EntryOfRow DEF Verdict
    <2>3. LogMap'[c][n] = [from |-> req'[d.id].seen, to |-> d.decision]
      BY <2>1, NextEntryOfRow
    <2> QED
      BY <2>2, <2>3
  <1>2. LogMap' = LogMap
    <2>1. \A c \in Candidates : LogMap'[c] = LogMap[c]
      <3> TAKE c \in Candidates
      <3>1. /\ LogMap[c] = [n \in 1..cand[c].revision |-> LogMap[c][n]]
            /\ LogMap'[c] = [n \in 1..cand[c].revision |-> LogMap'[c][n]]
        BY DEF LogMap
      <3> QED
        BY <1>1, <3>1
    <2>2. /\ LogMap = [c \in Candidates |-> LogMap[c]]
          /\ LogMap' = [c \in Candidates |-> LogMap'[c]]
      BY DEF LogMap
    <2> QED
      BY <2>1, <2>2
  <1> QED
    BY <1>2 DEF TrailMap

\* A commit is one abstract decision, on the status its author saw.
LEMMA CommitDecides ==
    ASSUME IInv, IInv', SeenInv, NEW q \in Requests, Commit(q)
    PROVE  Log!Next
  <1> DEFINE c == req[q].cand
             m == cand[c].revision
             from == req[q].seen
             to == req[q].decision
             row == DecisionRow(q)
             entry == [from |-> from, to |-> to]
  <1>1. /\ c \in Candidates /\ to \in Verdicts /\ Exists(c)
        /\ m = req[q].expected /\ m \in Nat
    BY DEF Commit, IInv, LockInv, RequestInv, TypeOK, Request
  <1>2. from \in Statuses /\ from = cand[c].status
    BY <1>1 DEF SeenInv, Commit
  <1>3. /\ cand' = [cand EXCEPT ![c] = [status |-> to, revision |-> m + 1]]
        /\ decisions' = decisions \cup {row}
        /\ audit' = audit \cup {AuditEvent(row)}
    <2>1. /\ tx[q].update = {[status |-> to, revision |-> m + 1]}
          /\ tx[q].rows = {row} /\ tx[q].events = {AuditEvent(row)}
      BY <1>1 DEF IInv, TxInv, Commit
    <2>2. PICK u \in tx[q].update : cand' = [cand EXCEPT ![c] = u]
      BY DEF Commit
    <2> QED
      BY <2>1, <2>2 DEF Commit
  <1>4. /\ row.id = q /\ row.cand = c /\ row.revision = m + 1 /\ row.decision = to
    BY <1>1 DEF DecisionRow
  <1>5. \A x \in Requests : req'[x].seen = req[x].seen
    BY PcStep DEF Commit, IInv
  <1>6. \A d \in decisions : d.id \in Requests
    BY DEF IInv, TypeOK, Row
  <1> HIDE DEF row
  <1>7. StatusMap' = [StatusMap EXCEPT ![c] = to]
    BY <1>1, <1>3 DEF StatusMap, IInv, TypeOK
  <1>8. TrailMap' = TrailMap \cup {<<c, m + 1, to>>}
    <2>1. /\ AuditEvent(row).cand = c /\ AuditEvent(row).revision = m + 1
          /\ AuditEvent(row).decision = to
      BY <1>4 DEF AuditEvent
    <2> QED
      BY <1>3, <2>1 DEF TrailMap
  <1>9. \A x \in Candidates : x # c => cand'[x].revision = cand[x].revision
    BY <1>1, <1>3 DEF IInv, TypeOK
  <1>10. cand'[c].revision = m + 1
    BY <1>1, <1>3 DEF IInv, TypeOK
  <1>11. ASSUME NEW x \in Candidates, NEW n \in 1..cand[x].revision
         PROVE  LogMap'[x][n] = LogMap[x][n]
    <2>1. PICK d \in decisions : d.cand = x /\ d.revision = n
      BY DEF IInv, HistoryInv
    <2>2. LogMap[x][n] = [from |-> req[d.id].seen, to |-> d.decision]
      BY <2>1, EntryOfRow DEF Verdict
    <2>3. LogMap'[x][n] = [from |-> req'[d.id].seen, to |-> d.decision]
      BY <1>3, <2>1, NextEntryOfRow
    <2> QED
      BY <1>5, <1>6, <2>2, <2>3
  <1>12. LogMap'[c][m + 1] = entry
    BY <1>3, <1>4, <1>5, NextEntryOfRow, ZenonT(60)
  <1>13. \A x \in Candidates : /\ LogMap[x] = [n \in 1..cand[x].revision |-> LogMap[x][n]]
                               /\ LogMap'[x] = [n \in 1..cand'[x].revision |-> LogMap'[x][n]]
    BY DEF LogMap
  <1>14. Len(LogMap[c]) = m /\ LogMap'[c] = Append(LogMap[c], entry)
    <2>1. LogMap[c] \in Seq({LogMap[c][n] : n \in 1..m}) /\ Len(LogMap[c]) = m
      <3> DEFINE s == LogMap[c]
                 X == {s[n] : n \in 1..m}
      <3>1. s = [n \in 1..m |-> s[n]]
        BY <1>1, <1>13
      <3>2. \A n \in 1..m : s[n] \in X
        OBVIOUS
      <3>3. m \in Nat
        BY <1>1
      <3> HIDE DEF s, X, m
      <3>4. s \in [1..m -> X]
        BY <3>1, <3>2
      <3>5. s \in Seq(X) /\ Len(s) = m
        BY <3>3, <3>4
      <3> QED
        BY <3>5 DEF s, X
    <2>2. Append(LogMap[c], entry) =
            [n \in 1..(m + 1) |-> IF n = m + 1 THEN entry ELSE LogMap[c][n]]
      BY <1>1, <2>1
    <2>3. LogMap'[c] = [n \in 1..(m + 1) |-> LogMap'[c][n]]
      BY <1>1, <1>10, <1>13
    <2>4. \A n \in 1..(m + 1) : LogMap'[c][n] = IF n = m + 1 THEN entry ELSE LogMap[c][n]
      BY <1>1, <1>11, <1>12
    <2> QED
      BY <2>1, <2>2, <2>3, <2>4
  <1>15. \A x \in Candidates : x # c => LogMap'[x] = LogMap[x]
    BY <1>9, <1>11, <1>13
  <1>16. LogMap' = [LogMap EXCEPT ![c] = Append(@, entry)]
    <2>1. /\ LogMap = [x \in Candidates |-> LogMap[x]]
          /\ LogMap' = [x \in Candidates |-> LogMap'[x]]
      BY DEF LogMap
    <2> QED
      BY <1>1, <1>14, <1>15, <2>1
  <1>17. Log!Decide(c, from, to)
    BY <1>1, <1>2, <1>7, <1>8, <1>14, <1>16 DEF Log!Decide, StatusMap
  <1> QED
    BY <1>1, <1>2, <1>17 DEF Log!Next

\* The review desk implements the abstract revision log.
THEOREM DeskImplementsRevisionLog == Spec => ImplementsRevisionLog
  <1>1. Init => Log!Init
    <2> SUFFICES ASSUME Init PROVE Log!Init
      OBVIOUS
    <2>1. \A c \in Candidates : LogMap[c] = << >>
      BY DEF Init, LogMap
    <2>2. LogMap = [c \in Candidates |-> LogMap[c]]
      BY DEF LogMap
    <2> QED
      BY <2>1, <2>2 DEF Init, Log!Init, StatusMap, TrailMap
  <1>2. IInv /\ IInv' /\ SeenInv /\ [Next]_vars => [Log!Next]_(Log!vars)
    <2> SUFFICES ASSUME IInv, IInv', SeenInv, [Next]_vars
                 PROVE Log!Next \/ UNCHANGED <<StatusMap, LogMap, TrailMap>>
      BY DEF Log!vars
    <2>1. \A d \in decisions : d.id \in Requests /\ req[d.id].pc \in {"committed", "saved", "lost"}
      BY DEF IInv, TypeOK, Row, RowInv
    <2>2. CASE UNCHANGED <<cand, decisions, audit>> /\ \A d \in decisions : req'[d.id].seen = req[d.id].seen
      BY <2>2, LogUnchanged DEF StatusMap
    <2>3. CASE Execute
      <3>1. PICK S \in SUBSET Candidates :
              /\ \A c \in S : ~Exists(c)
              /\ \E st \in [S -> CreatedStatuses] :
                   cand' = [c \in Candidates |->
                              IF c \in S THEN [status |-> st[c], revision |-> 0]
                                         ELSE cand[c]]
        BY <2>3 DEF Execute
      <3>2. PICK st \in [S -> CreatedStatuses] :
              cand' = [c \in Candidates |->
                         IF c \in S THEN [status |-> st[c], revision |-> 0]
                                    ELSE cand[c]]
        BY <3>1
      <3>3. UNCHANGED <<LogMap, TrailMap>>
        BY <2>3, <3>1, <3>2, LogUnchanged DEF Execute, IInv, AbsentInv
      <3>4. st \in [S -> Statuses]
        OBVIOUS
      <3>5. StatusMap' = [c \in Candidates |-> IF c \in S THEN st[c] ELSE StatusMap[c]]
        BY <3>2 DEF StatusMap
      <3>6. \A c \in S : StatusMap[c] = None
        BY <3>1 DEF StatusMap
      <3>7. Log!Create
        BY <3>3, <3>4, <3>5, <3>6 DEF Log!Create
      <3> QED
        BY <3>7 DEF Log!Next
    <2>4. ASSUME NEW q \in Requests, NEW r \in Reviewers, Submit(q, r) \/ SubmitForeign(q, r)
          PROVE UNCHANGED <<StatusMap, LogMap, TrailMap>>
      <3>1. /\ UNCHANGED <<cand, decisions, audit>> /\ req[q].pc = "free"
            /\ \A x \in Requests : x # q => req'[x] = req[x]
        BY <2>4 DEF Submit, SubmitForeign, IInv, TypeOK
      <3> QED
        BY <2>1, <3>1, LogUnchanged DEF StatusMap
    <2>5. ASSUME NEW q \in Requests, (Serve(q) /\ ~Commit(q)) \/ Fail(q)
          PROVE UNCHANGED <<StatusMap, LogMap, TrailMap>>
      <3>1. UNCHANGED <<cand, decisions, audit>>
        BY <2>5 DEF Serve, Check, Update, Conflict, SelectPrior, InsertDecision,
           InsertAudit, Respond, Fail
      <3>2. \A x \in Requests : req'[x].seen = req[x].seen
        BY <2>5 DEF Serve, Check, Update, Conflict, SelectPrior, InsertDecision,
           InsertAudit, Respond, Fail, IInv, TypeOK, Request
      <3> QED
        BY <2>1, <3>1, <3>2, LogUnchanged DEF StatusMap
    <2>6. ASSUME NEW r \in Reviewers, ReadCandidates(r) \/ ReadCounts(r) \/ ReadLatest(r)
          PROVE UNCHANGED <<StatusMap, LogMap, TrailMap>>
      <3>1. UNCHANGED <<cand, decisions, audit, req>>
        BY <2>6 DEF ReadCandidates, ReadCounts, ReadLatest
      <3> QED
        BY <3>1, LogUnchanged DEF StatusMap
    <2>7. CASE UNCHANGED vars
      BY <2>2, <2>7 DEF vars
    <2> QED
      BY <2>3, <2>4, <2>5, <2>6, <2>7, CommitDecides DEF Next, Serve
  <1>3. Spec => []SeenInv
    BY InitSeen, NextSeen, Invariance, PTL DEF Spec
  <1> QED
    BY <1>1, <1>2, <1>3, Invariance, PTL DEF Spec, ImplementsRevisionLog, Log!Spec

==============================================================================
