-------------------------------- MODULE Lineage --------------------------------
(***************************************************************************)
(* The lineage graph of one organization (lineage/service.py).             *)
(*                                                                         *)
(* Recording a mapping, a mart or an export is a transaction that looks up *)
(* or inserts nodes by name and edges by their nodes, statement by         *)
(* statement.  Neither table has a unique constraint, so that requests     *)
(* served at the same time may insert the same name twice.  A trace walks  *)
(* the edges of the graph in both directions.                              *)
(***************************************************************************)
EXTENDS Naturals, Sequences, FiniteSets

CONSTANTS Names,     \* business names: snapshots, mapping jobs, fields, marts, exports
          Requests,
          Steps,     \* request -> what it looks up, in order
          After,     \* request -> requests whose answer its client needs first
          Workers,   \* requests that are served at the same time
          None

Node(n) == [op |-> "node", from |-> n, to |-> n]
Connect(a, b) == [op |-> "edge", from |-> a, to |-> b]

Step == [op : {"node", "edge"}, from : Names, to : Names]

\* The lookups of a request in the order of the code; None where a build names
\* no source snapshot or no mapping
RecordMapping(source, job, targets) ==
    <<Node(source), Node(job), Connect(source, job)>>
    \o [i \in 1..(2 * Len(targets)) |->
          IF i % 2 = 1 THEN Node(targets[(i + 1) \div 2])
          ELSE Connect(job, targets[i \div 2])]

RecordMart(mart, source, job) ==
    <<Node(mart)>>
    \o (IF source = None THEN <<>> ELSE <<Node(source)>>)
    \o (IF job = None THEN <<>> ELSE <<Node(job)>>)
    \o (IF None \in {source, job} THEN <<>> ELSE <<Connect(source, job)>>)
    \o (IF job # None THEN <<Connect(job, mart)>>
        ELSE IF source # None THEN <<Connect(source, mart)>> ELSE <<>>)

RecordExport(mart, export) ==
    <<Node(mart), Node(export), Connect(mart, export)>>

NamesIn(steps) == {steps[i].from : i \in DOMAIN steps}

\* What all three have in common: names differ by their types and the fields of
\* a mapping by their targets, so that none is looked up twice; edges join nodes
\* looked up before, and all names of a request.
Record(steps) ==
    /\ \A i, j \in DOMAIN steps :
           steps[i].op = "node" /\ steps[j] = steps[i] => i = j
    /\ \A i \in DOMAIN steps : /\ steps[i].op = "node" => steps[i].to = steps[i].from
                               /\ \A n \in {steps[i].from, steps[i].to} :
                                      steps[i].op = "edge" =>
                                          \E j \in DOMAIN steps : j < i /\ steps[j] = Node(n)
    /\ \A part \in (SUBSET NamesIn(steps)) \ {{}, NamesIn(steps)} :
           \E i \in DOMAIN steps :
               steps[i].op = "edge" /\ (steps[i].from \in part <=> steps[i].to \notin part)

NodeRow == [by : Requests, name : Names]
EdgeRow == [by : Requests, from : NodeRow, to : NodeRow]

ASSUME LineageAssumption ==
    /\ Steps \in [Requests -> {steps \in Seq(Step) : Record(steps)}]
    /\ After \in [Requests -> SUBSET Requests]
    /\ Workers \in Nat \ {0}
    /\ IsFiniteSet(Names)
    /\ None \notin Names \cup NodeRow

VARIABLES
    nodes,  \* lineage_nodes: who inserted it and its name
    edges,  \* lineage_edges
    req     \* request -> where it is, the nodes it has, its own new edges

vars == <<nodes, edges, req>>

TypeOK ==
    /\ nodes \subseteq NodeRow
    /\ edges \subseteq EdgeRow
    /\ \A q \in Requests :
           /\ req[q].pc \in {"free", "busy", "ok", "failed"}
           /\ req[q].at \in 1..Len(Steps[q]) + 1
           /\ req[q].node \in [Names -> NodeRow \cup {None}]
           /\ req[q].new \subseteq EdgeRow

Init ==
    /\ nodes = {} /\ edges = {}
    /\ req = [q \in Requests |-> [pc |-> "free", at |-> 1,
                                  node |-> [n \in Names |-> None], new |-> {}]]

Current(q) == Steps[q][req[q].at]

Running(q, op) ==
    /\ req[q].pc = "busy" /\ req[q].at <= Len(Steps[q])
    /\ Current(q).op = op

Begin(q) ==
    /\ req[q].pc = "free"
    /\ \A p \in After[q] : req[p].pc = "ok"
    /\ Cardinality({p \in Requests : req[p].pc = "busy"}) < Workers
    /\ req' = [req EXCEPT ![q].pc = "busy"]
    /\ UNCHANGED <<nodes, edges>>

\* Committed rows and the request's own
Visible(q, n) ==
    {x \in nodes : x.name = n} \cup ({req[q].node[n]} \ {None})

\* _node: of several rows an arbitrary one is taken.
FindNode(q) ==
    /\ Running(q, "node")
    /\ LET n == Current(q).from IN
       \E x \in IF Visible(q, n) = {} THEN {[by |-> q, name |-> n]}
                ELSE Visible(q, n) :
           req' = [req EXCEPT ![q].at = @ + 1, ![q].node[n] = x]
    /\ UNCHANGED <<nodes, edges>>

\* Mutant: any edge from the same node is taken.
FindEdgeAnyTarget(q) ==
    /\ Running(q, "edge")
    /\ LET from == req[q].node[Current(q).from]
           to == req[q].node[Current(q).to]
           found == \E e \in edges \cup req[q].new : e.from = from
       IN req' = [req EXCEPT
                    ![q].at = @ + 1,
                    ![q].new = IF found THEN @
                               ELSE @ \cup {[by |-> q, from |-> from, to |-> to]}]
    /\ UNCHANGED <<nodes, edges>>

\* connect
FindEdge(q) ==
    /\ Running(q, "edge")
    /\ LET from == req[q].node[Current(q).from]
           to == req[q].node[Current(q).to]
           found == \E e \in edges \cup req[q].new : e.from = from /\ e.to = to
       IN req' = [req EXCEPT
                    ![q].at = @ + 1,
                    ![q].new = IF found THEN @
                               ELSE @ \cup {[by |-> q, from |-> from, to |-> to]}]
    /\ UNCHANGED <<nodes, edges>>

Own(q) == {x \in {req[q].node[n] : n \in Names} \ {None} : x.by = q}

\* Mutant: only the edges are committed.
CommitEdges(q) ==
    /\ req[q].pc = "busy" /\ req[q].at > Len(Steps[q])
    /\ edges' = edges \cup req[q].new
    /\ req' = [req EXCEPT ![q].pc = "ok"]
    /\ UNCHANGED nodes

Commit(q) ==
    /\ req[q].pc = "busy" /\ req[q].at > Len(Steps[q])
    /\ nodes' = nodes \cup Own(q)
    /\ edges' = edges \cup req[q].new
    /\ req' = [req EXCEPT ![q].pc = "ok"]

\* The statement or the worker fails; the transaction is rolled back.
Fail(q) ==
    /\ req[q].pc = "busy"
    /\ req' = [req EXCEPT ![q].pc = "failed"]
    /\ UNCHANGED <<nodes, edges>>

Next == \E q \in Requests :
            Begin(q) \/ FindNode(q) \/ FindEdge(q) \/ Commit(q) \/ Fail(q)

Spec == Init /\ [][Next]_vars

-----------------------------------------------------------------------------
(* trace: start from every node of the name, then follow edges both ways
   until a pass adds nothing, which as many passes as nodes make sure of *)

Neighbours(S) ==
    {e.from : e \in {e \in edges : e.to \in S}}
    \cup {e.to : e \in {e \in edges : e.from \in S}}

Trace(name) ==
    LET Relevant[i \in 0..Cardinality(nodes)] ==
            IF i = 0 THEN {x \in nodes : x.name = name}
            ELSE Relevant[i - 1] \cup Neighbours(Relevant[i - 1])
    IN  Relevant[Cardinality(nodes)]

-----------------------------------------------------------------------------
(* Properties *)

NamesOf(q) == NamesIn(Steps[q])

Once(n) == Cardinality({x \in nodes : x.name = n}) = 1

Recorded(q) == req[q].pc = "ok"

TracedNames(n) == {x.name : x \in Trace(n)}

\* What is recorded can be traced: from any name of a record the trace finds
\* all names of every record that has a name in common with it, provided the
\* common name was inserted once.
TraceComplete ==
    \A p, q \in {q \in Requests : Recorded(q)} :
        (\E m \in NamesOf(p) \cap NamesOf(q) : Once(m)) =>
            \A n \in NamesOf(p) : NamesOf(q) \subseteq TracedNames(n)

\* A record is in the graph as a whole or not at all: no edge leads to a node
\* that is not there, whichever transaction inserted it, a request that failed
\* leaves nothing behind, and one that was answered is connected.
RecordsWhole ==
    /\ \A e \in edges : e.from \in nodes /\ e.to \in nodes
    /\ \A x \in nodes \cup edges : Recorded(x.by)
    /\ \A q \in Requests : Recorded(q) =>
           \A n \in NamesOf(q) : NamesOf(q) \subseteq TracedNames(n)

\* The graph is well typed and every record in it whole.
RecordsSound == TypeOK /\ RecordsWhole
==============================================================================
