---------------------------- MODULE LineageProofs -----------------------------
(* Proofs about the lineage graph: what trace finds is closed, and a record is
   in the graph as a whole. Induction over the passes of trace is replaced by
   the least element of a set of naturals.                                   *)
EXTENDS Lineage, WellFoundedInduction, FiniteSetTheorems, TLAPS

-----------------------------------------------------------------------------
(* Naturals *)

\* Well-founded relations on naturals have minimal elements.
LEMMA MinimalElement ==
    ASSUME NEW S, S \subseteq Nat, S # {}, NEW R, IsWellFoundedOn(R, Nat)
    PROVE  \E m \in S : \A n \in S : ~(<<n, m>> \in R)
  BY WFMin, Zenon

\* Every set of naturals has a least element.
LEMMA LeastNat ==
    ASSUME NEW S, S \subseteq Nat, S # {}
    PROVE  \E m \in S : \A n \in S : m <= n
  <1>1. \E R : IsWellFoundedOn(R, Nat) /\ \A n, m \in Nat : n < m => <<n, m>> \in R
    <2>1. \A n, m \in Nat : n < m => <<n, m>> \in OpToRel(<, Nat)
      BY DEF OpToRel
    <2> QED
      BY <2>1, NatLessThanWellFounded
  <1>2. PICK R : IsWellFoundedOn(R, Nat) /\ \A n, m \in Nat : n < m => <<n, m>> \in R
    BY <1>1
  <1>3. PICK m \in S : \A n \in S : ~(<<n, m>> \in R)
    <2>1. IsWellFoundedOn(R, Nat)
      BY <1>2
    <2> QED
      BY <2>1, MinimalElement
  <1>4. \A n \in S : n \in Nat /\ m \in Nat /\ ~(n < m)
    BY <1>2, <1>3
  <1>5. \A n \in S : m <= n
    BY <1>4
  <1> QED
    BY <1>5

\* What holds at a number and goes on from each to the next holds from there to
\* the bound; the set is that of the numbers where it holds.
LEMMA UpTo ==
    ASSUME NEW k \in Nat, NEW c \in Nat, NEW S, k \in S,
           \A i \in Nat : k <= i /\ i < c /\ i \in S => i + 1 \in S
    PROVE  \A i \in k..c : i \in S
  <1> DEFINE Bad == {i \in k..c : i \notin S}
  <1>1. CASE Bad = {}
    BY <1>1
  <1>2. CASE Bad # {}
    <2>1. Bad \subseteq Nat
      OBVIOUS
    <2>2. PICK m \in Bad : \A n \in Bad : m <= n
      BY <1>2, <2>1, LeastNat
    <2>3. m \in Nat /\ k < m /\ m <= c /\ m \notin S
      BY <2>2
    <2>4. m - 1 \in Nat /\ k <= m - 1 /\ m - 1 < c /\ (m - 1) + 1 = m /\ ~(m <= m - 1)
      BY <2>3
    <2>5. m - 1 \in S
      BY <2>2, <2>3, <2>4
    <2> QED
      BY <2>3, <2>4, <2>5
  <1> QED
    BY <1>1, <1>2

-----------------------------------------------------------------------------
(* trace *)

Passes(f, c, name) ==
    f = [i \in 0..c |-> IF i = 0 THEN {x \in nodes : x.name = name}
                        ELSE f[i - 1] \cup Neighbours(f[i - 1])]

\* The passes over the edges are defined.
LEMMA PassesExist ==
    ASSUME NEW c \in Nat, NEW name
    PROVE  \E f : Passes(f, c, name)
  <1> DEFINE S == {n \in Nat : \E f : Passes(f, n, name)}
             start == {x \in nodes : x.name = name}
  <1>1. 0 \in S
    <2> DEFINE f == [i \in 0..0 |-> start]
    <2>1. Passes(f, 0, name)
      BY DEF Passes
    <2> QED
      BY <2>1
  <1>2. ASSUME NEW i \in Nat, i \in S PROVE i + 1 \in S
    <2>1. PICK g : Passes(g, i, name)
      BY <1>2
    <2> DEFINE f == [j \in 0..(i + 1) |-> IF j = i + 1 THEN g[i] \cup Neighbours(g[i])
                                          ELSE g[j]]
    <2>2. \A j \in 0..i : g[j] = IF j = 0 THEN start ELSE g[j - 1] \cup Neighbours(g[j - 1])
      BY <2>1 DEF Passes
    <2>3. \A j \in 0..(i + 1) :
            f[j] = IF j = 0 THEN start ELSE f[j - 1] \cup Neighbours(f[j - 1])
      <3> SUFFICES ASSUME NEW j \in 0..(i + 1)
                   PROVE  f[j] = IF j = 0 THEN start ELSE f[j - 1] \cup Neighbours(f[j - 1])
        OBVIOUS
      <3>1. CASE j = 0
        <4>1. 0 \in 0..i /\ 0 # i + 1
          OBVIOUS
        <4>2. f[j] = g[0]
          BY <3>1, <4>1
        <4> QED
          BY <2>2, <3>1, <4>1, <4>2
      <3>2. CASE j # 0 /\ j # i + 1
        <4>1. j \in 0..i /\ j - 1 \in 0..(i + 1) /\ j - 1 # i + 1
          BY <3>2
        <4>2. f[j] = g[j] /\ f[j - 1] = g[j - 1]
          BY <3>2, <4>1
        <4> QED
          BY <2>2, <3>2, <4>1, <4>2
      <3>3. CASE j = i + 1
        <4>1. j - 1 = i /\ i \in 0..(i + 1) /\ i # i + 1 /\ j # 0
          BY <3>3
        <4>2. f[i] = g[i] /\ f[j] = g[i] \cup Neighbours(g[i])
          BY <3>3, <4>1
        <4> QED
          BY <4>1, <4>2
      <3> QED
        BY <3>1, <3>2, <3>3
    <2>4. f = [j \in 0..(i + 1) |-> f[j]]
      OBVIOUS
    <2> HIDE DEF f
    <2>5. Passes(f, i + 1, name)
      BY <2>3, <2>4 DEF Passes
    <2> QED
      BY <2>5
  <1> HIDE DEF S
  <1>3. \A i \in 0..c : i \in S
    BY <1>1, <1>2, UpTo
  <1>4. c \in S
    BY <1>3
  <1> QED
    BY <1>4 DEF S

\* trace ends with a set of nodes that has those of the name and every node an
\* edge leads to or from: as many passes as nodes are enough.
LEMMA TraceCloses ==
    ASSUME IsFiniteSet(nodes), \A e \in edges : e.from \in nodes /\ e.to \in nodes,
           NEW name
    PROVE  /\ Trace(name) \subseteq nodes
           /\ \A x \in nodes : x.name = name => x \in Trace(name)
           /\ \A e \in edges : e.from \in Trace(name) <=> e.to \in Trace(name)
  <1>1. PICK c \in Nat : c = Cardinality(nodes)
    BY FS_CardinalityType
  <1>2. PICK R : Passes(R, c, name) /\ Trace(name) = R[c]
    <2>1. \E f : Passes(f, c, name)
      BY PassesExist
    <2>2. Passes(CHOOSE f : Passes(f, c, name), c, name)
      BY <2>1
    <2>3. Trace(name) = (CHOOSE f : Passes(f, c, name))[c]
      BY <1>1 DEF Trace, Passes
    <2> QED
      BY <2>2, <2>3
  <1>3. /\ R[0] = {x \in nodes : x.name = name}
        /\ \A i \in 0..c : i # 0 => R[i] = R[i - 1] \cup Neighbours(R[i - 1])
    <2>1. \A i \in 0..c : R[i] = IF i = 0 THEN {x \in nodes : x.name = name}
                                 ELSE R[i - 1] \cup Neighbours(R[i - 1])
      BY <1>2 DEF Passes
    <2>2. 0 \in 0..c
      OBVIOUS
    <2> QED
      BY <2>1, <2>2
  <1>4. \A i \in Nat : i < c => R[i + 1] = R[i] \cup Neighbours(R[i])
    <2> SUFFICES ASSUME NEW i \in Nat, i < c PROVE R[i + 1] = R[i] \cup Neighbours(R[i])
      OBVIOUS
    <2>1. i + 1 \in 0..c /\ i + 1 # 0 /\ (i + 1) - 1 = i
      OBVIOUS
    <2> QED
      BY <1>3, <2>1
  <1>5. \A A : Neighbours(A) \subseteq nodes
    BY DEF Neighbours
  <1>6. \A i \in 0..c : R[i] \subseteq nodes /\ R[0] \subseteq R[i]
    <2> DEFINE S == {i \in Nat : R[i] \subseteq nodes /\ R[0] \subseteq R[i]}
    <2>1. 0 \in S
      BY <1>3
    <2>2. \A i \in Nat : 0 <= i /\ i < c /\ i \in S => i + 1 \in S
      BY <1>4, <1>5
    <2> HIDE DEF S
    <2>3. \A i \in 0..c : i \in S
      BY <2>1, <2>2, UpTo
    <2> QED
      BY <2>3 DEF S
  <1>7. PICK k \in 0..c : Neighbours(R[k]) \subseteq R[k]
    <2> SUFFICES ASSUME \A k \in 0..c : ~(Neighbours(R[k]) \subseteq R[k]) PROVE FALSE
      OBVIOUS
    <2>1. \A i \in 0..c : IsFiniteSet(R[i]) /\ Cardinality(R[i]) \in Nat /\ Cardinality(R[i]) <= c
      BY <1>1, <1>6, FS_Subset, FS_CardinalityType
    <2> DEFINE S == {i \in Nat : Cardinality(R[i]) > i}
    <2>2. 0 \in S
      <3>1. R[0] # {}
        <4>1. Neighbours({}) = {}
          BY DEF Neighbours
        <4>2. 0 \in 0..c
          OBVIOUS
        <4> QED
          BY <4>1, <4>2
      <3>2. IsFiniteSet(R[0]) /\ Cardinality(R[0]) \in Nat
        BY <2>1
      <3>3. Cardinality(R[0]) # 0
        BY <3>1, <3>2, FS_EmptySet
      <3> QED
        BY <3>2, <3>3
    <2>3. ASSUME NEW i \in Nat, 0 <= i, i < c, i \in S PROVE i + 1 \in S
      <3>1. i \in 0..c /\ i + 1 \in 0..c
        BY <2>3
      <3>2. R[i] \subseteq R[i + 1] /\ R[i] # R[i + 1]
        BY <1>4, <2>3, <3>1
      <3>3. IsFiniteSet(R[i + 1]) /\ R[i] \in SUBSET R[i + 1]
        BY <2>1, <3>1, <3>2
      <3>4. /\ Cardinality(R[i]) <= Cardinality(R[i + 1])
            /\ Cardinality(R[i + 1]) # Cardinality(R[i])
        BY <3>2, <3>3, FS_Subset
      <3> QED
        BY <2>1, <2>3, <3>1, <3>4
    <2> HIDE DEF S
    <2>4. \A i \in 0..c : i \in S
      BY <2>2, <2>3, UpTo
    <2>5. c \in 0..c /\ c \in S
      BY <2>4
    <2> QED
      BY <2>1, <2>5 DEF S
  <1>8. R[c] = R[k]
    <2> DEFINE S == {i \in Nat : R[i] = R[k]}
    <2>1. k \in S
      OBVIOUS
    <2>2. ASSUME NEW i \in Nat, k <= i, i < c, i \in S PROVE i + 1 \in S
      <3>1. R[i + 1] = R[i] \cup Neighbours(R[i]) /\ R[i] = R[k]
        BY <1>4, <2>2
      <3> QED
        <4>1. R[k] \cup Neighbours(R[k]) = R[k]
          BY <1>7
        <4>2. R[i + 1] = R[k] /\ i + 1 \in Nat
          BY <3>1, <4>1
        <4> QED
          BY <4>2
    <2> HIDE DEF S
    <2>3. \A i \in k..c : i \in S
      BY <2>1, <2>2, UpTo
    <2>4. c \in S
      BY <2>3
    <2> QED
      BY <2>4 DEF S
  <1>9. Neighbours(Trace(name)) \subseteq Trace(name)
    BY <1>2, <1>7, <1>8
  <1>10. R[c] \subseteq nodes /\ R[0] \subseteq R[c]
    BY <1>6
  <1> QED
    BY <1>2, <1>3, <1>9, <1>10 DEF Neighbours

-----------------------------------------------------------------------------
(* The requests *)

Rows == [pc : {"free", "busy", "ok", "failed"}, at : Nat \ {0},
         node : [Names -> NodeRow \cup {None}], new : SUBSET EdgeRow]

\* What request q, in state r, has of its record while the tables hold N and E:
\* each name looked up has a row of that name, committed or its own; each name
\* still to be looked up has none; each edge looked up is there; its new edges
\* join its rows; and once it is answered everything is committed.
Progress(q, r, N, E) ==
    LET s == Steps[q] IN
    /\ r.at <= Len(s) + 1
    /\ \A n \in Names : r.node[n] # None => /\ r.node[n].name = n
                                            /\ r.node[n] \in N \/ r.node[n].by = q
    /\ \A i \in DOMAIN s : s[i].op = "node" => (r.node[s[i].from] = None <=> i >= r.at)
    /\ \A i \in DOMAIN s : s[i].op = "edge" /\ i < r.at =>
           \E e \in E \cup r.new : e.from = r.node[s[i].from] /\ e.to = r.node[s[i].to]
    /\ \A e \in r.new : /\ e.by = q
                        /\ \E m \in Names : e.from = r.node[m]
                        /\ \E m \in Names : e.to = r.node[m]
    /\ r.pc = "ok" => /\ r.at = Len(s) + 1 /\ r.new \subseteq E
                      /\ \A n \in Names : r.node[n] # None => r.node[n] \in N

\* The tables, and by which requests they were filled.
Graph(N, E) ==
    /\ N \subseteq NodeRow /\ E \subseteq EdgeRow /\ IsFiniteSet(N)
    /\ \A e \in E : e.from \in N /\ e.to \in N

IInv ==
    /\ req \in [Requests -> Rows]
    /\ Graph(nodes, edges)
    /\ \A x \in nodes \cup edges : req[x.by].pc = "ok"
    /\ \A q \in Requests : Progress(q, req[q], nodes, edges)

\* The steps of a request.
LEMMA StepsAre ==
    ASSUME NEW q \in Requests
    PROVE  /\ Steps[q] \in Seq(Step) /\ Record(Steps[q]) /\ Len(Steps[q]) \in Nat
           /\ DOMAIN Steps[q] = 1..Len(Steps[q])
           /\ \A i \in DOMAIN Steps[q] : /\ Steps[q][i].op \in {"node", "edge"}
                                         /\ Steps[q][i].from \in Names /\ Steps[q][i].to \in Names
  <1>1. Steps[q] \in Seq(Step) /\ Record(Steps[q])
    BY LineageAssumption
  <1>2. /\ Len(Steps[q]) \in Nat /\ DOMAIN Steps[q] = 1..Len(Steps[q])
        /\ \A i \in DOMAIN Steps[q] : Steps[q][i] \in Step
    BY <1>1
  <1> QED
    BY <1>1, <1>2 DEF Step

LEMMA RowIs ==
    /\ None \notin NodeRow
    /\ \A x \in NodeRow : x.by \in Requests /\ x.name \in Names
    /\ \A q \in Requests, n \in Names : [by |-> q, name |-> n] \in NodeRow
    /\ \A e \in EdgeRow : e.by \in Requests /\ e.from \in NodeRow /\ e.to \in NodeRow
  BY LineageAssumption DEF NodeRow, EdgeRow

\* What a request has stays while the tables grow.
LEMMA ProgressStays ==
    ASSUME NEW q \in Requests, NEW r, NEW N, NEW E, NEW M, NEW F,
           N \subseteq M, E \subseteq F, Progress(q, r, N, E)
    PROVE  Progress(q, r, M, F)
  BY DEF Progress

LEMMA InitHolds == Init => IInv
  <1> SUFFICES ASSUME Init PROVE IInv
    OBVIOUS
  <1> DEFINE r0 == [pc |-> "free", at |-> 1, node |-> [n \in Names |-> None], new |-> {}]
  <1>1. nodes = {} /\ edges = {} /\ req = [q \in Requests |-> r0]
    BY DEF Init
  <1>2. r0 \in Rows
    BY DEF Rows
  <1>3. req \in [Requests -> Rows] /\ \A q \in Requests : req[q] = r0
    BY <1>1, <1>2
  <1>4. ASSUME NEW q \in Requests PROVE Progress(q, r0, nodes, edges)
    BY <1>1, StepsAre DEF Progress
  <1>5. Graph(nodes, edges)
    BY <1>1, FS_EmptySet DEF Graph
  <1> HIDE DEF r0
  <1> QED
    BY <1>1, <1>3, <1>4, <1>5 DEF IInv

\* A step that changes one request and no table.
LEMMA OneRequest ==
    ASSUME IInv, NEW q \in Requests, NEW r \in Rows,
           req' = [req EXCEPT ![q] = r], nodes' = nodes, edges' = edges,
           Progress(q, r, nodes, edges), req[q].pc # "ok"
    PROVE  IInv'
  <1>1. /\ req' \in [Requests -> Rows] /\ req'[q] = r
        /\ \A p \in Requests : p # q => req'[p] = req[p]
    BY DEF IInv
  <1>2. \A p \in Requests : Progress(p, req'[p], nodes', edges')
    <2> TAKE p \in Requests
    <2>1. Progress(p, req[p], nodes, edges)
      BY DEF IInv
    <2> QED
      BY <1>1, <2>1
  <1>3. \A x \in nodes \cup edges : x.by \in Requests /\ req[x.by].pc = "ok"
    BY RowIs DEF IInv, Graph
  <1>4. \A x \in nodes' \cup edges' : req'[x.by].pc = "ok"
    BY <1>1, <1>3
  <1>5. Graph(nodes', edges')
    BY DEF IInv
  <1> QED
    BY <1>1, <1>2, <1>4, <1>5 DEF IInv

LEMMA BeginStep == ASSUME IInv, NEW q \in Requests, Begin(q) PROVE IInv'
  <1> DEFINE r == [req[q] EXCEPT !.pc = "busy"]
  <1>1. req[q] \in Rows /\ req[q].pc = "free" /\ Progress(q, req[q], nodes, edges)
    BY DEF IInv, Begin
  <1>2. req' = [req EXCEPT ![q] = r] /\ nodes' = nodes /\ edges' = edges
    BY DEF Begin
  <1>3. /\ r \in Rows /\ r.pc = "busy" /\ r.at = req[q].at /\ r.node = req[q].node
        /\ r.new = req[q].new
    BY <1>1 DEF Rows
  <1> HIDE DEF r
  <1>4. Progress(q, r, nodes, edges)
    BY <1>1, <1>3 DEF Progress
  <1> QED
    BY <1>1, <1>2, <1>3, <1>4, OneRequest

LEMMA FailStep == ASSUME IInv, NEW q \in Requests, Fail(q) PROVE IInv'
  <1> DEFINE r == [req[q] EXCEPT !.pc = "failed"]
  <1>1. req[q] \in Rows /\ req[q].pc = "busy" /\ Progress(q, req[q], nodes, edges)
    BY DEF IInv, Fail
  <1>2. req' = [req EXCEPT ![q] = r] /\ nodes' = nodes /\ edges' = edges
    BY DEF Fail
  <1>3. /\ r \in Rows /\ r.pc = "failed" /\ r.at = req[q].at /\ r.node = req[q].node
        /\ r.new = req[q].new
    BY <1>1 DEF Rows
  <1> HIDE DEF r
  <1>4. Progress(q, r, nodes, edges)
    BY <1>1, <1>3 DEF Progress
  <1> QED
    BY <1>1, <1>2, <1>3, <1>4, OneRequest

\* A lookup of a node finds a committed row or inserts the request's own.
LEMMA FindNodeStep == ASSUME IInv, NEW q \in Requests, FindNode(q) PROVE IInv'
  <1> DEFINE s == Steps[q]
  <1>1. req[q] \in Rows /\ req[q].pc = "busy" /\ Progress(q, req[q], nodes, edges)
    BY DEF IInv, FindNode, Running
  <1>2. PICK at \in Nat, n \in Names :
           at = req[q].at /\ at \in DOMAIN s /\ n = s[at].from /\ s[at].op = "node"
    BY <1>1, StepsAre DEF FindNode, Running, Current, Rows
  <1>3. req[q].node[n] = None
    BY <1>1, <1>2 DEF Progress
  <1>4. PICK x : /\ x \in IF Visible(q, n) = {} THEN {[by |-> q, name |-> n]} ELSE Visible(q, n)
                 /\ req' = [req EXCEPT ![q].at = @ + 1, ![q].node[n] = x]
    BY <1>2 DEF FindNode, Current
  <1>5. nodes' = nodes /\ edges' = edges
    BY DEF FindNode
  <1>6. x \in NodeRow /\ x # None /\ x.name = n /\ (x \in nodes \/ x.by = q)
    <2>1. nodes \subseteq NodeRow
      BY DEF IInv, Graph
    <2>2. CASE x \in nodes /\ x.name = n
      BY <2>1, <2>2, RowIs
    <2>3. CASE x = [by |-> q, name |-> n]
      BY <2>3, RowIs
    <2> QED
      BY <1>3, <1>4, <2>2, <2>3 DEF Visible
  <1> DEFINE r == [req[q] EXCEPT !.at = at + 1, !.node = [req[q].node EXCEPT ![n] = x]]
  <1>7. req' = [req EXCEPT ![q] = r]
    BY <1>1, <1>2, <1>4 DEF IInv, Rows
  <1>8. /\ r \in Rows /\ r.pc = "busy" /\ r.at = at + 1 /\ r.new = req[q].new /\ r.node[n] = x
        /\ \A m \in Names : m # n => r.node[m] = req[q].node[m]
    <2> DEFINE f == [req[q].node EXCEPT ![n] = x]
    <2>1. /\ f \in [Names -> NodeRow \cup {None}] /\ f[n] = x
          /\ \A m \in Names : m # n => f[m] = req[q].node[m]
      BY <1>1, <1>2, <1>6 DEF Rows
    <2>2. r = [req[q] EXCEPT !.at = at + 1, !.node = f]
      OBVIOUS
    <2> HIDE DEF f, r
    <2>3. at + 1 \in Nat \ {0}
      BY <1>2
    <2>4. r \in Rows
      BY <1>1, <2>1, <2>2, <2>3 DEF Rows
    <2>5. r.pc = "busy" /\ r.at = at + 1 /\ r.new = req[q].new /\ r.node = f
      BY <1>1, <2>2 DEF Rows
    <2> QED
      BY <2>1, <2>4, <2>5
  <1> HIDE DEF r
  <1>9. Progress(q, r, nodes, edges)
    <2>1. r.at <= Len(s) + 1
      BY <1>2, <1>8, StepsAre
    <2>2. ASSUME NEW m \in Names, r.node[m] # None
          PROVE  r.node[m].name = m /\ (r.node[m] \in nodes \/ r.node[m].by = q)
      BY <1>1, <1>6, <1>8, <2>2 DEF Progress
    <2>3. ASSUME NEW i \in DOMAIN s, s[i].op = "node"
          PROVE  r.node[s[i].from] = None <=> i >= r.at
      <3>1. i \in Nat /\ s[i].from \in Names
        BY StepsAre
      <3>2. req[q].node[s[i].from] = None <=> i >= at
        BY <1>1, <1>2, <2>3 DEF Progress
      <3>3. CASE i = at
        BY <1>2, <1>6, <1>8, <3>1, <3>3
      <3>4. CASE i # at
        <4>1. s[i].from # n
          <5>1. Record(s) /\ s[i] \in Step /\ s[at] \in Step
            BY <1>2, StepsAre
          <5>2. s[i].to = s[i].from /\ s[at].to = s[at].from
            BY <1>2, <2>3, <5>1 DEF Record
          <5>3. s[i].from = n => s[i] = s[at]
            BY <1>2, <2>3, <5>1, <5>2 DEF Step
          <5>4. s[i] = s[at] => i = at
            BY <1>2, <2>3, <5>1 DEF Record
          <5> QED
            BY <3>4, <5>3, <5>4
        <4> QED
          BY <1>2, <1>8, <3>1, <3>2, <3>4, <4>1
      <3> QED
        BY <3>3, <3>4
    <2>4. ASSUME NEW i \in DOMAIN s, s[i].op = "edge", i < r.at
          PROVE  \E e \in edges \cup r.new : e.from = r.node[s[i].from] /\ e.to = r.node[s[i].to]
      <3>1. i \in Nat /\ s[i].from \in Names /\ s[i].to \in Names /\ i # at
        BY <1>2, <2>4, StepsAre
      <3>2. i < at
        BY <1>2, <1>8, <2>4, <3>1
      <3>3. PICK e \in edges \cup req[q].new :
               e.from = req[q].node[s[i].from] /\ e.to = req[q].node[s[i].to]
        BY <1>1, <1>2, <2>4, <3>2 DEF Progress
      <3>4. e \in EdgeRow
        BY <1>1 DEF IInv, Graph, Rows
      <3>5. s[i].from # n /\ s[i].to # n
        BY <1>3, <3>3, <3>4, RowIs
      <3> QED
        BY <1>8, <3>1, <3>3, <3>5
    <2>5. ASSUME NEW e \in r.new
          PROVE  /\ e.by = q
                 /\ \E m \in Names : e.from = r.node[m]
                 /\ \E m \in Names : e.to = r.node[m]
      <3>1. PICK m \in Names, k \in Names :
               e.by = q /\ e.from = req[q].node[m] /\ e.to = req[q].node[k]
        BY <1>1, <1>8, <2>5 DEF Progress
      <3>2. e \in EdgeRow
        BY <1>1, <1>8, <2>5 DEF Rows
      <3>3. m # n /\ k # n
        BY <1>3, <3>1, <3>2, RowIs
      <3> QED
        BY <1>8, <3>1, <3>3
    <2> QED
      BY <1>8, <2>1, <2>2, <2>3, <2>4, <2>5 DEF Progress
  <1> QED
    BY <1>1, <1>5, <1>7, <1>8, <1>9, OneRequest


\* A lookup of an edge finds one between the request's rows or inserts one.
LEMMA FindEdgeStep == ASSUME IInv, NEW q \in Requests, FindEdge(q) PROVE IInv'
  <1> DEFINE s == Steps[q]
  <1>1. req[q] \in Rows /\ req[q].pc = "busy" /\ Progress(q, req[q], nodes, edges)
    BY DEF IInv, FindEdge, Running
  <1>2. PICK at \in Nat, m \in Names, n \in Names :
           /\ at = req[q].at /\ at \in DOMAIN s
           /\ m = s[at].from /\ n = s[at].to /\ s[at].op = "edge"
    <2>1. PICK at \in Nat : at = req[q].at /\ at # 0
      BY <1>1 DEF Rows
    <2>2. at \in DOMAIN s /\ s[at].op = "edge"
      <3>1. Running(q, "edge")
        BY DEF FindEdge
      <3>2. at <= Len(s) /\ s[at].op = "edge"
        BY <2>1, <3>1 DEF Running, Current
      <3> QED
        BY <2>1, <3>2, StepsAre
    <2>3. s[at].from \in Names /\ s[at].to \in Names
      BY <2>2, StepsAre
    <2> QED
      BY <2>1, <2>2, <2>3
  <1>3. nodes' = nodes /\ edges' = edges
    BY DEF FindEdge
  <1>4. PICK from, to : from = req[q].node[m] /\ to = req[q].node[n]
    OBVIOUS
  <1>5. from \in NodeRow /\ to \in NodeRow
    <2>1. ASSUME NEW k \in {m, n} PROVE req[q].node[k] \in NodeRow
      <3>1. PICK j \in DOMAIN s : j < at /\ s[j] = Node(k)
        BY <1>2, <2>1, StepsAre DEF Record
      <3>2. s[j].op = "node" /\ s[j].from = k /\ j \in Nat
        BY <3>1, StepsAre DEF Node
      <3>3. req[q].node[k] # None
        BY <1>1, <1>2, <3>1, <3>2 DEF Progress
      <3>4. k \in Names
        BY <1>2, <2>1
      <3> QED
        BY <1>1, <3>3, <3>4 DEF Rows
    <2> QED
      BY <1>4, <2>1
  <1>6. PICK new : /\ new = IF \E e \in edges \cup req[q].new : e.from = from /\ e.to = to
                            THEN req[q].new
                            ELSE req[q].new \cup {[by |-> q, from |-> from, to |-> to]}
    OBVIOUS
  <1> DEFINE r == [req[q] EXCEPT !.at = at + 1, !.new = new]
  <1>7. req' = [req EXCEPT ![q] = r]
    <2>1. req' = [req EXCEPT ![q].at = @ + 1, ![q].new = new]
      BY <1>2, <1>4, <1>6 DEF FindEdge, Current
    <2> QED
      BY <1>1, <1>2, <2>1 DEF IInv, Rows
  <1>8. new \subseteq EdgeRow /\ \A e \in new : e \in req[q].new \/ (e.by = q /\ e.from = from /\ e.to = to)
    BY <1>1, <1>5, <1>6 DEF Rows, EdgeRow
  <1>9. /\ r \in Rows /\ r.pc = "busy" /\ r.at = at + 1 /\ r.new = new
        /\ r.node = req[q].node
    <2>1. at + 1 \in Nat \ {0}
      BY <1>2
    <2>2. r \in Rows
      BY <1>1, <1>8, <2>1 DEF Rows
    <2> QED
      BY <1>1, <2>2 DEF Rows
  <1>10. /\ req[q].new \subseteq new
         /\ \E e \in edges \cup new : e.from = from /\ e.to = to
    <2>1. CASE \E e \in edges \cup req[q].new : e.from = from /\ e.to = to
      BY <1>6, <2>1
    <2>2. CASE ~\E e \in edges \cup req[q].new : e.from = from /\ e.to = to
      <3> DEFINE e == [by |-> q, from |-> from, to |-> to]
      <3>1. new = req[q].new \cup {e} /\ e.from = from /\ e.to = to
        BY <1>6, <2>2
      <3> HIDE DEF e
      <3> QED
        BY <3>1
    <2> QED
      BY <2>1, <2>2
  <1> HIDE DEF r
  <1>11. Progress(q, r, nodes, edges)
    <2>1. r.at <= Len(s) + 1
      BY <1>2, <1>9, StepsAre
    <2>2. ASSUME NEW i \in DOMAIN s, s[i].op = "node"
          PROVE  r.node[s[i].from] = None <=> i >= r.at
      <3>1. i \in Nat /\ i # at
        BY <1>2, <2>2, StepsAre
      <3>2. req[q].node[s[i].from] = None <=> i >= at
        BY <1>1, <1>2, <2>2 DEF Progress
      <3> QED
        BY <1>2, <1>9, <3>1, <3>2
    <2>3. ASSUME NEW i \in DOMAIN s, s[i].op = "edge", i < r.at
          PROVE  \E e \in edges \cup r.new : e.from = r.node[s[i].from] /\ e.to = r.node[s[i].to]
      <3>1. CASE i = at
        BY <1>2, <1>4, <1>9, <1>10, <3>1
      <3>2. CASE i < at
        <4>1. PICK e \in edges \cup req[q].new :
                e.from = req[q].node[s[i].from] /\ e.to = req[q].node[s[i].to]
          BY <1>1, <1>2, <2>3, <3>2 DEF Progress
        <4> QED
          BY <1>9, <1>10, <4>1
      <3>3. i \in Nat
        BY StepsAre
      <3> QED
        BY <1>2, <1>9, <2>3, <3>1, <3>2, <3>3
    <2>4. ASSUME NEW e \in r.new
          PROVE  /\ e.by = q
                 /\ \E k \in Names : e.from = r.node[k]
                 /\ \E k \in Names : e.to = r.node[k]
      <3>1. CASE e \in req[q].new
        BY <1>1, <1>9, <3>1 DEF Progress
      <3>2. CASE e.by = q /\ e.from = from /\ e.to = to
        BY <1>4, <1>9, <3>2
      <3> QED
        BY <1>8, <1>9, <2>4, <3>1, <3>2
    <2>5. ASSUME NEW k \in Names, r.node[k] # None
          PROVE  r.node[k].name = k /\ (r.node[k] \in nodes \/ r.node[k].by = q)
      BY <1>1, <1>9, <2>5 DEF Progress
    <2> QED
      BY <1>9, <2>1, <2>2, <2>3, <2>4, <2>5 DEF Progress
  <1> QED
    BY <1>1, <1>3, <1>7, <1>9, <1>11, OneRequest

\* A request commits finitely many rows of its own.
LEMMA OwnIs ==
    ASSUME IInv, NEW q \in Requests
    PROVE  /\ IsFiniteSet(Own(q)) /\ Own(q) \subseteq NodeRow
           /\ \A x \in Own(q) : x.by = q
           /\ \A n \in Names : req[q].node[n] # None /\ req[q].node[n].by = q =>
                  req[q].node[n] \in Own(q)
  <1>1. req[q].node \in [Names -> NodeRow \cup {None}]
    BY DEF IInv, Rows
  <1> DEFINE all == {req[q].node[n] : n \in Names}
             f == [n \in Names |-> req[q].node[n]]
  <1>2. f \in Surjection(Names, all)
    BY DEF Surjection
  <1>3. IsFiniteSet(all)
    BY <1>2, LineageAssumption, FS_Surjection DEF ExistsSurjection
  <1>4. Own(q) \in SUBSET all
    BY DEF Own
  <1>5. IsFiniteSet(Own(q))
    BY <1>3, <1>4, FS_Subset
  <1> QED
    BY <1>1, <1>5 DEF Own

LEMMA CommitStep == ASSUME IInv, NEW q \in Requests, Commit(q) PROVE IInv'
  <1>1. /\ req[q] \in Rows /\ req[q].pc = "busy" /\ Progress(q, req[q], nodes, edges)
        /\ Graph(nodes, edges) /\ req \in [Requests -> Rows]
    BY DEF IInv, Commit
  <1>2. /\ nodes' = nodes \cup Own(q) /\ edges' = edges \cup req[q].new
        /\ req[q].at > Len(Steps[q])
    BY DEF Commit
  <1> DEFINE r == [req[q] EXCEPT !.pc = "ok"]
  <1>3. req' = [req EXCEPT ![q] = r]
    BY DEF Commit
  <1>4. /\ r \in Rows /\ r.pc = "ok" /\ r.at = req[q].at /\ r.node = req[q].node
        /\ r.new = req[q].new
    BY <1>1 DEF Rows
  <1> HIDE DEF r
  <1>5. /\ req' \in [Requests -> Rows] /\ req'[q] = r
        /\ \A p \in Requests : p # q => req'[p] = req[p]
    BY <1>1, <1>3, <1>4
  <1>6. \A n \in Names : req[q].node[n] # None => req[q].node[n] \in nodes'
    BY <1>1, <1>2, OwnIs DEF Progress
  <1>7. Graph(nodes', edges')
    <2>1. nodes' \subseteq NodeRow /\ edges' \subseteq EdgeRow
      BY <1>1, <1>2, OwnIs DEF Graph, Rows
    <2>2. IsFiniteSet(nodes')
      BY <1>1, <1>2, OwnIs, FS_Union DEF Graph
    <2>3. ASSUME NEW e \in req[q].new PROVE e.from \in nodes' /\ e.to \in nodes'
      <3>1. PICK m \in Names, n \in Names : e.from = req[q].node[m] /\ e.to = req[q].node[n]
        BY <1>1, <2>3 DEF Progress
      <3>2. e.from # None /\ e.to # None
        BY <1>1, <2>3, RowIs DEF Rows
      <3> QED
        BY <1>6, <3>1, <3>2
    <2> QED
      BY <1>1, <1>2, <2>1, <2>2, <2>3 DEF Graph
  <1>8. ASSUME NEW p \in Requests PROVE Progress(p, req'[p], nodes', edges')
    <2>1. Progress(p, req[p], nodes', edges')
      BY <1>2, ProgressStays DEF IInv
    <2>2. CASE p = q
      <3>1. r.at = Len(Steps[q]) + 1
        BY <1>1, <1>2, <1>4, StepsAre DEF Progress, Rows
      <3>2. r.new \subseteq edges'
        BY <1>2, <1>4
      <3>3. \A n \in Names : r.node[n] # None => r.node[n] \in nodes'
        BY <1>4, <1>6
      <3> QED
        BY <1>4, <1>5, <2>1, <2>2, <3>1, <3>2, <3>3 DEF Progress
    <2> QED
      BY <1>5, <2>1, <2>2
  <1>9. ASSUME NEW x \in nodes' \cup edges' PROVE req'[x.by].pc = "ok"
    <2>1. CASE x \in nodes \cup edges
      <3>1. x.by \in Requests /\ req[x.by].pc = "ok"
        BY <1>1, <2>1, RowIs DEF IInv, Graph
      <3> QED
        BY <1>4, <1>5, <3>1
    <2>2. CASE x \in Own(q) \cup req[q].new
      <3>1. x.by = q
        BY <1>1, <2>2, OwnIs DEF Progress
      <3> QED
        BY <1>4, <1>5, <3>1
    <2> QED
      BY <1>2, <2>1, <2>2
  <1> QED
    BY <1>5, <1>7, <1>8, <1>9 DEF IInv

\* The inductive invariant holds in every state.
THEOREM Invariance == Spec => []IInv
  <1>1. IInv /\ [Next]_vars => IInv'
    <2> SUFFICES ASSUME IInv, [Next]_vars PROVE IInv'
      OBVIOUS
    <2>1. CASE UNCHANGED vars
      BY <2>1 DEF vars, IInv
    <2>2. CASE Next
      BY <2>2, BeginStep, FindNodeStep, FindEdgeStep, CommitStep, FailStep DEF Next
    <2> QED
      BY <2>1, <2>2
  <1> QED
    BY <1>1, InitHolds, PTL DEF Spec

-----------------------------------------------------------------------------
(* Records and traces *)

\* The trace of a name that reaches one row of an answered request reaches all
\* its rows.
LEMMA WholeRecord ==
    ASSUME IInv, NEW name, NEW q \in Requests, req[q].pc = "ok",
           NEW m \in NamesOf(q), req[q].node[m] \in Trace(name)
    PROVE  /\ \A n \in NamesOf(q) : req[q].node[n] \in Trace(name)
           /\ NamesOf(q) \subseteq TracedNames(name)
  <1> DEFINE s == Steps[q]
             part == {n \in NamesOf(q) : req[q].node[n] \in Trace(name)}
  <1>1. /\ Progress(q, req[q], nodes, edges) /\ Graph(nodes, edges) /\ req[q] \in Rows
        /\ Record(s)
    BY StepsAre DEF IInv
  <1>2. \A e \in edges : e.from \in Trace(name) <=> e.to \in Trace(name)
    BY <1>1, TraceCloses DEF Graph
  <1>3. ASSUME NEW i \in DOMAIN s, s[i].op = "edge"
        PROVE  /\ s[i].from \in NamesOf(q) /\ s[i].to \in NamesOf(q)
               /\ s[i].from \in part <=> s[i].to \in part
    <2>1. i < req[q].at
      BY <1>1, <1>3, StepsAre DEF Progress
    <2>2. PICK e \in edges : e.from = req[q].node[s[i].from] /\ e.to = req[q].node[s[i].to]
      BY <1>1, <1>3, <2>1 DEF Progress
    <2>3. s[i].from \in NamesOf(q)
      BY DEF NamesOf, NamesIn
    <2>4. s[i].to \in NamesOf(q)
      <3>1. PICK j \in DOMAIN s : s[j] = Node(s[i].to)
        BY <1>1, <1>3 DEF Record
      <3>2. s[j].from = s[i].to
        BY <3>1 DEF Node
      <3> QED
        BY <3>2 DEF NamesOf, NamesIn
    <2> QED
      BY <1>2, <2>2, <2>3, <2>4
  <1>4. m \in part /\ part \subseteq NamesIn(s)
    BY DEF NamesOf
  <1> HIDE DEF part
  <1>5. part = NamesIn(s)
    <2> SUFFICES ASSUME part # NamesIn(s) PROVE FALSE
      OBVIOUS
    <2>1. part \in (SUBSET NamesIn(s)) \ {{}, NamesIn(s)}
      BY <1>4
    <2>2. PICK i \in DOMAIN s : /\ s[i].op = "edge"
                                /\ s[i].from \in part <=> s[i].to \notin part
      BY <1>1, <2>1 DEF Record
    <2> QED
      BY <1>3, <2>2
  <1>6. ASSUME NEW n \in NamesOf(q) PROVE req[q].node[n] \in Trace(name) /\ n \in TracedNames(name)
    <2>1. req[q].node[n] \in Trace(name)
      BY <1>5 DEF part, NamesOf
    <2>2. n \in Names
      BY StepsAre DEF NamesOf, NamesIn
    <2>3. req[q].node[n] \in NodeRow
      BY <1>1, <2>1, TraceCloses DEF Graph
    <2>4. req[q].node[n].name = n
      BY <1>1, <2>2, <2>3, RowIs DEF Progress
    <2> QED
      BY <2>1, <2>4 DEF TracedNames
  <1> QED
    BY <1>6

\* An answered request has a committed row of each of its names.
LEMMA AnsweredRows ==
    ASSUME IInv, NEW q \in Requests, req[q].pc = "ok", NEW n \in NamesOf(q)
    PROVE  req[q].node[n] \in nodes /\ req[q].node[n].name = n
  <1> DEFINE s == Steps[q]
  <1>1. /\ Progress(q, req[q], nodes, edges) /\ req[q] \in Rows /\ Record(s)
    BY StepsAre DEF IInv
  <1>2. PICK i \in DOMAIN s : n = s[i].from
    BY DEF NamesOf, NamesIn
  <1>3. PICK j \in DOMAIN s : s[j].op = "node" /\ s[j].from = n
    <2>1. CASE s[i].op = "node"
      BY <1>2, <2>1
    <2>2. CASE s[i].op = "edge"
      <3>1. PICK j \in DOMAIN s : s[j] = Node(n)
        BY <1>1, <1>2, <2>2 DEF Record
      <3>2. s[j].op = "node" /\ s[j].from = n
        BY <3>1 DEF Node
      <3> QED
        BY <3>2
    <2> QED
      BY <2>1, <2>2, StepsAre
  <1>4. n \in Names /\ j < req[q].at /\ ~(j >= req[q].at)
    BY <1>1, <1>3, StepsAre DEF Progress
  <1>5. req[q].node[n] # None
    BY <1>1, <1>3, <1>4 DEF Progress
  <1> QED
    BY <1>1, <1>4, <1>5 DEF Progress

\* No edge leads to a missing node, a request that failed leaves nothing behind,
\* and from any name of an answered request trace finds all of them, for any
\* number of requests at once and although two may insert the same name.
THEOREM RecordsAreSound == Spec => []RecordsSound
  <1>1. IInv => RecordsSound
    <2> SUFFICES ASSUME IInv PROVE RecordsSound
      OBVIOUS
    <2>1. TypeOK
      <3>1. ASSUME NEW q \in Requests PROVE req[q].at \in 1..Len(Steps[q]) + 1
        BY StepsAre DEF IInv, Progress, Rows
      <3> QED
        BY <3>1 DEF TypeOK, IInv, Graph, Rows
    <2>2. \A x \in nodes \cup edges : Recorded(x.by)
      BY DEF IInv, Recorded
    <2>3. ASSUME NEW q \in Requests, Recorded(q), NEW n \in NamesOf(q)
          PROVE  NamesOf(q) \subseteq TracedNames(n)
      <3>1. req[q].pc = "ok" /\ req[q].node[n] \in nodes /\ req[q].node[n].name = n
        BY <2>3, AnsweredRows DEF Recorded
      <3>2. req[q].node[n] \in Trace(n)
        BY <3>1, TraceCloses DEF IInv, Graph
      <3> QED
        BY <3>1, <3>2, WholeRecord
    <2> QED
      BY <2>1, <2>2, <2>3 DEF RecordsSound, RecordsWhole, IInv, Graph
  <1> QED
    BY <1>1, Invariance, PTL

\* From a name of one answered request trace finds all names of every other that
\* shares a name with it, when that name was inserted once: a name doubled by two
\* lookups at once is the only thing that keeps records apart.
THEOREM TracesAreComplete == Spec => []TraceComplete
  <1>1. IInv => TraceComplete
    <2> SUFFICES ASSUME IInv, NEW p \in Requests, Recorded(p), NEW q \in Requests, Recorded(q),
                        NEW m \in NamesOf(p) \cap NamesOf(q), Once(m),
                        NEW n \in NamesOf(p)
                 PROVE  NamesOf(q) \subseteq TracedNames(n)
      BY DEF TraceComplete
    <2>1. req[p].pc = "ok" /\ req[q].pc = "ok"
      BY DEF Recorded
    <2>2. /\ req[p].node[m] \in nodes /\ req[p].node[m].name = m
          /\ req[q].node[m] \in nodes /\ req[q].node[m].name = m
          /\ req[p].node[n] \in nodes /\ req[p].node[n].name = n
      BY <2>1, AnsweredRows
    <2>3. req[p].node[m] = req[q].node[m]
      <3> DEFINE S == {x \in nodes : x.name = m}
      <3>1. IsFiniteSet(S) /\ Cardinality(S) = 1
        BY FS_Subset DEF IInv, Graph, Once
      <3>2. PICK x : S = {x}
        BY <3>1, FS_Singleton
      <3> QED
        BY <2>2, <3>2
    <2>4. req[p].node[n] \in Trace(n)
      BY <2>2, TraceCloses DEF IInv, Graph
    <2>5. req[p].node[m] \in Trace(n)
      BY <2>1, <2>4, WholeRecord
    <2> QED
      BY <2>1, <2>3, <2>5, WholeRecord
  <1> QED
    BY <1>1, Invariance, PTL

-----------------------------------------------------------------------------
(* The requests of the code are records *)

LEMMA StepIs ==
    ASSUME NEW a, NEW b
    PROVE  /\ Node(a).op = "node" /\ Node(a).from = a /\ Node(a).to = a
           /\ Connect(a, b).op = "edge" /\ Connect(a, b).from = a /\ Connect(a, b).to = b
           /\ Node(a) = Node(b) => a = b
  BY DEF Node, Connect

\* Two names and the edge between them.
LEMMA TwoAreRecord ==
    ASSUME NEW a, NEW b, a # b, NEW s, DOMAIN s = 1..3, s[1] = Node(a), s[2] = Node(b),
           s[3] = Connect(a, b) \/ s[3] = Connect(b, a)
    PROVE  Record(s)
  <1>2. \A i \in DOMAIN s : i = 1 \/ i = 2 \/ i = 3
    OBVIOUS
  <1>3. NamesIn(s) = {a, b}
    BY <1>2, StepIs DEF NamesIn
  <1>4. \A i, j \in DOMAIN s : s[i].op = "node" /\ s[j] = s[i] => i = j
    BY <1>2, StepIs
  <1>5. ASSUME NEW i \in DOMAIN s
        PROVE  /\ s[i].op = "node" => s[i].to = s[i].from
               /\ \A n \in {s[i].from, s[i].to} : s[i].op = "edge" =>
                      \E j \in DOMAIN s : j < i /\ s[j] = Node(n)
    BY <1>2, StepIs
  <1>6. ASSUME NEW part \in (SUBSET NamesIn(s)) \ {{}, NamesIn(s)}
        PROVE  \E i \in DOMAIN s :
                   s[i].op = "edge" /\ (s[i].from \in part <=> s[i].to \notin part)
    <2>1. a \in part <=> b \notin part
      BY <1>3
    <2> QED
      BY <2>1, StepIs
  <1> QED
    BY <1>4, <1>5, <1>6 DEF Record

\* The lookups of record_export join the mart and the export.
LEMMA ExportIsRecord ==
    ASSUME NEW mart \in Names, NEW export \in Names, mart # export
    PROVE  Record(RecordExport(mart, export))
  <1> DEFINE s == RecordExport(mart, export)
  <1>1. /\ DOMAIN s = 1..3 /\ s[1] = Node(mart) /\ s[2] = Node(export)
        /\ s[3] = Connect(mart, export)
    BY DEF RecordExport
  <1> HIDE DEF s
  <1>2. Record(s)
    BY <1>1, TwoAreRecord
  <1> QED
    BY <1>2 DEF s

\* Those of record_mart join the mart to the job or the snapshot it came from,
\* and these to each other, whichever of them the build names.
LEMMA MartIsRecord ==
    ASSUME NEW mart \in Names, NEW source \in Names \cup {None}, NEW job \in Names \cup {None},
           mart # source, mart # job, source = job => source = None
    PROVE  Record(RecordMart(mart, source, job))
  <1> DEFINE s == RecordMart(mart, source, job)
  <1>1. CASE source = None /\ job = None
    <2>1. DOMAIN s = 1..1 /\ s[1] = Node(mart)
      BY <1>1 DEF RecordMart
    <2> HIDE DEF s
    <2>2. \A i \in DOMAIN s : i = 1
      BY <2>1
    <2>3. NamesIn(s) = {mart}
      BY <2>1, <2>2, StepIs DEF NamesIn
    <2>4. \A i \in DOMAIN s : s[i].op = "node" /\ s[i].to = s[i].from
      BY <2>1, <2>2, StepIs
    <2>5. (SUBSET NamesIn(s)) \ {{}, NamesIn(s)} = {}
      BY <2>3
    <2>6. Record(s)
      BY <2>2, <2>4, <2>5 DEF Record
    <2> QED
      BY <2>6 DEF s
  <1>2. CASE source # None /\ job = None
    <2>1. /\ DOMAIN s = 1..3 /\ s[1] = Node(mart) /\ s[2] = Node(source)
          /\ s[3] = Connect(source, mart)
      BY <1>2 DEF RecordMart
    <2> HIDE DEF s
    <2>2. Record(s)
      BY <2>1, TwoAreRecord
    <2> QED
      BY <2>2 DEF s
  <1>3. CASE source = None /\ job # None
    <2>1. /\ DOMAIN s = 1..3 /\ s[1] = Node(mart) /\ s[2] = Node(job)
          /\ s[3] = Connect(job, mart)
      BY <1>3 DEF RecordMart
    <2> HIDE DEF s
    <2>2. Record(s)
      BY <2>1, TwoAreRecord
    <2> QED
      BY <2>2 DEF s
  <1>4. CASE source # None /\ job # None
    <2>1. /\ DOMAIN s = 1..5 /\ s[1] = Node(mart) /\ s[2] = Node(source) /\ s[3] = Node(job)
          /\ s[4] = Connect(source, job) /\ s[5] = Connect(job, mart)
      BY <1>4 DEF RecordMart
    <2> HIDE DEF s
    <2>2. \A i \in DOMAIN s : i = 1 \/ i = 2 \/ i = 3 \/ i = 4 \/ i = 5
      BY <2>1
    <2>3. NamesIn(s) = {mart, source, job}
      BY <2>1, <2>2, StepIs DEF NamesIn
    <2>4. \A i, j \in DOMAIN s : s[i].op = "node" /\ s[j] = s[i] => i = j
      BY <1>4, <2>1, <2>2, StepIs
    <2>5. ASSUME NEW i \in DOMAIN s
          PROVE  /\ s[i].op = "node" => s[i].to = s[i].from
                 /\ \A n \in {s[i].from, s[i].to} : s[i].op = "edge" =>
                        \E j \in DOMAIN s : j < i /\ s[j] = Node(n)
      BY <2>1, <2>2, StepIs
    <2>6. ASSUME NEW part \in (SUBSET NamesIn(s)) \ {{}, NamesIn(s)}
          PROVE  \E i \in DOMAIN s :
                     s[i].op = "edge" /\ (s[i].from \in part <=> s[i].to \notin part)
      <3>1. (source \in part <=> job \notin part) \/ (job \in part <=> mart \notin part)
        BY <2>3
      <3> QED
        BY <2>1, <3>1, StepIs
    <2>7. Record(s)
      BY <2>4, <2>5, <2>6 DEF Record
    <2> QED
      BY <2>7 DEF s
  <1> QED
    BY <1>1, <1>2, <1>3, <1>4

\* What a concatenation consists of.
Appended(c, a, b) ==
    /\ DOMAIN c = 1..(Len(a) + Len(b))
    /\ \A i \in 1..(Len(a) + Len(b)) : c[i] = IF i <= Len(a) THEN a[i] ELSE b[i - Len(a)]

LEMMA ConcatenationIs ==
    ASSUME NEW D, NEW a \in Seq(D), NEW b \in Seq(D)
    PROVE  Appended(a \o b, a, b)
  BY DEF Appended

\* Those of record_mapping join the snapshot to the job and the job to each of
\* any number of fields.
LEMMA MappingIsRecord ==
    ASSUME NEW source \in Names, NEW job \in Names, source # job,
           NEW targets \in Seq(Names),
           \A k, l \in DOMAIN targets : targets[k] = targets[l] => k = l,
           \A k \in DOMAIN targets : targets[k] # source /\ targets[k] # job
    PROVE  Record(RecordMapping(source, job, targets))
  <1> DEFINE s == RecordMapping(source, job, targets)
             L == Len(targets)
             rest == [i \in 1..(2 * L) |-> IF i % 2 = 1 THEN Node(targets[(i + 1) \div 2])
                                           ELSE Connect(job, targets[i \div 2])]
             first == <<Node(source), Node(job), Connect(source, job)>>
  <1>1. L \in Nat /\ DOMAIN targets = 1..L
    OBVIOUS
  <1>2. /\ DOMAIN rest = 1..(2 * L)
        /\ \A k \in 1..L : /\ rest[2 * k - 1] = Node(targets[k])
                           /\ rest[2 * k] = Connect(job, targets[k])
    BY <1>1
  <1>3. \A i \in 1..(2 * L) : \E k \in 1..L : i = 2 * k - 1 \/ i = 2 * k
    <2> TAKE i \in 1..(2 * L)
    <2>1. i % 2 = 1 => (i + 1) \div 2 \in 1..L /\ i = 2 * ((i + 1) \div 2) - 1
      BY <1>1
    <2>2. i % 2 # 1 => i \div 2 \in 1..L /\ i = 2 * (i \div 2)
      BY <1>1
    <2> QED
      BY <2>1, <2>2
  <1>4. s = first \o rest
    BY DEF RecordMapping
  <1>5. PICK D : first \in Seq(D) /\ rest \in Seq(D) /\ Len(first) = 3 /\ Len(rest) = 2 * L
    <2> DEFINE D == {first[i] : i \in 1..3} \cup {rest[i] : i \in 1..(2 * L)}
    <2>1. 2 * L \in Nat /\ rest \in [1..(2 * L) -> D]
      BY <1>1
    <2>2. rest \in Seq(D) /\ Len(rest) = 2 * L
      <3> HIDE DEF rest, D, L
      <3> QED
        BY <2>1
    <2>3. first \in Seq(D) /\ Len(first) = 3
      OBVIOUS
    <2> QED
      BY <2>2, <2>3
  <1>6. first[1] = Node(source) /\ first[2] = Node(job) /\ first[3] = Connect(source, job)
    OBVIOUS
  <1> HIDE DEF s, rest, first, L
  <1>7. /\ DOMAIN s = 1..(3 + 2 * L)
        /\ \A i \in 1..3 : s[i] = first[i]
        /\ \A i \in 1..(2 * L) : s[3 + i] = rest[i]
    <2>1. PICK n \in Nat : n = 2 * L
      BY <1>1
    <2>2. Appended(s, first, rest) /\ Len(first) = 3 /\ Len(rest) = n
      BY <1>4, <1>5, <2>1, ConcatenationIs
    <2>3. DOMAIN s = 1..(3 + n)
      BY <2>2 DEF Appended
    <2>4. \A i \in 1..(3 + n) : s[i] = IF i <= 3 THEN first[i] ELSE rest[i - 3]
      BY <2>2 DEF Appended
    <2>5. \A i \in 1..3 : i \in 1..(3 + n) /\ i <= 3
      BY <2>1
    <2>6. \A i \in 1..n : 3 + i \in 1..(3 + n) /\ ~(3 + i <= 3) /\ (3 + i) - 3 = i
      BY <2>1
    <2>7. \A i \in 1..3 : s[i] = first[i]
      BY <2>4, <2>5
    <2>8. \A i \in 1..n : s[3 + i] = rest[i]
      BY <2>4, <2>6
    <2> QED
      BY <2>1, <2>3, <2>7, <2>8
  <1>8. /\ s[1] = Node(source) /\ s[2] = Node(job) /\ s[3] = Connect(source, job)
        /\ \A k \in 1..L : /\ 2 * k + 2 \in DOMAIN s /\ s[2 * k + 2] = Node(targets[k])
                           /\ 2 * k + 3 \in DOMAIN s /\ s[2 * k + 3] = Connect(job, targets[k])
    <2>1. ASSUME NEW k \in 1..L
          PROVE  /\ 2 * k + 2 \in DOMAIN s /\ s[2 * k + 2] = Node(targets[k])
                 /\ 2 * k + 3 \in DOMAIN s /\ s[2 * k + 3] = Connect(job, targets[k])
      <3>1. /\ 2 * k - 1 \in 1..(2 * L) /\ 2 * k \in 1..(2 * L)
            /\ 3 + (2 * k - 1) = 2 * k + 2 /\ 3 + 2 * k = 2 * k + 3
            /\ 2 * k + 2 \in 1..(3 + 2 * L) /\ 2 * k + 3 \in 1..(3 + 2 * L)
        BY <1>1
      <3> QED
        BY <1>2, <1>7, <3>1
    <2> QED
      BY <1>6, <1>7, <2>1
  <1>9. ASSUME NEW i \in DOMAIN s
        PROVE  i = 1 \/ i = 2 \/ i = 3 \/ \E k \in 1..L : i = 2 * k + 2 \/ i = 2 * k + 3
    <2>1. CASE i <= 3
      BY <1>7, <2>1
    <2>2. CASE ~(i <= 3)
      <3>1. i - 3 \in 1..(2 * L)
        BY <1>1, <1>7, <2>2
      <3>2. PICK k \in 1..L : i - 3 = 2 * k - 1 \/ i - 3 = 2 * k
        BY <1>3, <3>1
      <3> QED
        BY <1>7, <3>2
    <2> QED
      BY <2>1, <2>2
  <1>10. 1 \in DOMAIN s /\ 2 \in DOMAIN s /\ 3 \in DOMAIN s
    BY <1>1, <1>7
  <1>11. NamesIn(s) = {source, job} \cup {targets[k] : k \in 1..L}
    <2>1. ASSUME NEW i \in DOMAIN s
          PROVE  s[i].from \in {source, job} \cup {targets[k] : k \in 1..L}
      <3>1. CASE i = 1 \/ i = 2 \/ i = 3
        BY <1>8, <3>1, StepIs
      <3>2. CASE \E k \in 1..L : i = 2 * k + 2 \/ i = 2 * k + 3
        <4>1. PICK k \in 1..L : i = 2 * k + 2 \/ i = 2 * k + 3
          BY <3>2
        <4>2. s[i] = Node(targets[k]) \/ s[i] = Connect(job, targets[k])
          BY <1>8, <4>1
        <4>3. s[i].from = targets[k] \/ s[i].from = job
          BY <4>2, StepIs
        <4> QED
          BY <4>3
      <3> QED
        BY <1>9, <3>1, <3>2
    <2>2. s[1].from = source /\ s[2].from = job
      BY <1>8, StepIs
    <2>3. \A k \in 1..L : s[2 * k + 2].from = targets[k] /\ 2 * k + 2 \in DOMAIN s
      <3> TAKE k \in 1..L
      <3>1. s[2 * k + 2] = Node(targets[k]) /\ 2 * k + 2 \in DOMAIN s
        BY <1>8
      <3>2. Node(targets[k]).from = targets[k]
        BY StepIs
      <3> QED
        BY <3>1, <3>2
    <2> QED
      BY <1>10, <2>1, <2>2, <2>3 DEF NamesIn
  <1>12. ASSUME NEW i \in DOMAIN s, NEW j \in DOMAIN s, s[i].op = "node", s[j] = s[i]
         PROVE  i = j
    <2>1. \A m \in DOMAIN s : s[m].op = "node" =>
              \/ m = 1 /\ s[m] = Node(source)
              \/ m = 2 /\ s[m] = Node(job)
              \/ \E k \in 1..L : m = 2 * k + 2 /\ s[m] = Node(targets[k])
      <3> SUFFICES ASSUME NEW m \in DOMAIN s, s[m].op = "node"
                   PROVE  \/ m = 1 /\ s[m] = Node(source)
                          \/ m = 2 /\ s[m] = Node(job)
                          \/ \E k \in 1..L : m = 2 * k + 2 /\ s[m] = Node(targets[k])
        OBVIOUS
      <3>1. CASE m = 1 \/ m = 2 \/ m = 3
        BY <1>8, <3>1, StepIs
      <3>2. CASE \E k \in 1..L : m = 2 * k + 2 \/ m = 2 * k + 3
        <4>1. PICK k \in 1..L : m = 2 * k + 2 \/ m = 2 * k + 3
          BY <3>2
        <4>2. Connect(job, targets[k]).op = "edge"
          BY StepIs
        <4> QED
          BY <1>8, <4>1, <4>2
      <3> QED
        BY <1>9, <3>1, <3>2
    <2>2. s[j].op = "node"
      BY <1>12
    <2>3. CASE \E k \in 1..L : i = 2 * k + 2 /\ s[i] = Node(targets[k])
      <3>1. PICK k \in 1..L : i = 2 * k + 2 /\ s[i] = Node(targets[k])
        BY <2>3
      <3>2. Node(targets[k]) # Node(source) /\ Node(targets[k]) # Node(job)
        <4>1. targets[k] # source /\ targets[k] # job
          BY <1>1
        <4> QED
          BY <4>1 DEF Node
      <3>4. PICK l \in 1..L : j = 2 * l + 2 /\ s[j] = Node(targets[l])
        BY <1>12, <2>1, <2>2, <3>1, <3>2
      <3>5. Node(targets[k]) = Node(targets[l])
        BY <1>12, <3>1, <3>4
      <3>3. targets[k] = targets[l]
        BY <3>5, StepIs
      <3> QED
        BY <1>1, <3>1, <3>3, <3>4
    <2>4. CASE (i = 1 /\ s[i] = Node(source)) \/ (i = 2 /\ s[i] = Node(job))
      <3>1. \A k \in 1..L : s[i] # Node(targets[k])
        <4> TAKE k \in 1..L
        <4>1. targets[k] # source /\ targets[k] # job
          BY <1>1
        <4>2. Node(targets[k]) # Node(source) /\ Node(targets[k]) # Node(job)
          BY <4>1, StepIs
        <4> QED
          BY <2>4, <4>2
      <3> QED
        BY <1>12, <2>1, <2>2, <2>4, <3>1, StepIs
    <2> QED
      BY <1>12, <2>1, <2>3, <2>4
  <1>13. ASSUME NEW i \in DOMAIN s
         PROVE  /\ s[i].op = "node" => s[i].to = s[i].from
                /\ \A n \in {s[i].from, s[i].to} : s[i].op = "edge" =>
                       \E j \in DOMAIN s : j < i /\ s[j] = Node(n)
    <2>1. CASE i = 1 \/ i = 2
      BY <1>8, <2>1, StepIs
    <2>2. CASE i = 3
      BY <1>8, <1>10, <2>2, StepIs
    <2>3. CASE \E k \in 1..L : i = 2 * k + 2 \/ i = 2 * k + 3
      <3>1. PICK k \in 1..L : i = 2 * k + 2 \/ i = 2 * k + 3
        BY <2>3
      <3>2. CASE i = 2 * k + 2
        <4>1. s[i] = Node(targets[k])
          BY <1>8, <3>2
        <4>2. s[i].op = "node" /\ s[i].to = s[i].from
          BY <4>1, StepIs
        <4> QED
          BY <4>2
      <3>3. CASE i = 2 * k + 3
        <4>1. /\ s[i] = Connect(job, targets[k]) /\ 2 * k + 2 < i /\ 2 < i
              /\ s[2 * k + 2] = Node(targets[k]) /\ 2 * k + 2 \in DOMAIN s
          BY <1>1, <1>8, <3>3
        <4>2. s[i].from = job /\ s[i].to = targets[k] /\ s[i].op = "edge"
          BY <4>1, StepIs
        <4> QED
          BY <1>8, <1>10, <4>1, <4>2
      <3> QED
        BY <3>1, <3>2, <3>3
    <2> QED
      BY <1>9, <2>1, <2>2, <2>3
  <1>14. ASSUME NEW part \in (SUBSET NamesIn(s)) \ {{}, NamesIn(s)}
         PROVE  \E i \in DOMAIN s :
                    s[i].op = "edge" /\ (s[i].from \in part <=> s[i].to \notin part)
    <2>1. \/ source \in part <=> job \notin part
          \/ \E k \in 1..L : job \in part <=> targets[k] \notin part
      BY <1>11
    <2> QED
      <3>1. CASE source \in part <=> job \notin part
        BY <1>8, <1>10, <3>1, StepIs
      <3>2. CASE \E k \in 1..L : job \in part <=> targets[k] \notin part
        <4>1. PICK k \in 1..L : job \in part <=> targets[k] \notin part
          BY <3>2
        <4>2. PICK i \in DOMAIN s : s[i] = Connect(job, targets[k])
          BY <1>8
        <4>3. s[i].op = "edge" /\ s[i].from = job /\ s[i].to = targets[k]
          BY <4>2, StepIs
        <4> QED
          BY <4>1, <4>3
      <3> QED
        BY <2>1, <3>1, <3>2
  <1>15. Record(s)
    BY <1>12, <1>13, <1>14 DEF Record
  <1> QED
    BY <1>15 DEF s

=============================================================================
