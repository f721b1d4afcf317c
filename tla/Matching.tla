-------------------------------- MODULE Matching --------------------------------
(* The two matchers: matching/deterministic.py (exact rules) and
   matching/probabilistic.py (blocking, scores, thresholds). A call is one
   behaviour; nothing else shares its state, so its steps are the iterations of
   its loops. A field value is a small natural, 0 where normalize_value leaves
   nothing; a rule is the function from records to the key _key gives them.

   The scores are abstracted to the three ranges the thresholds make. The pairs
   are visited by descending probability: the model draws the range of the next
   pair not above that of the one before, which is the sorted list with its
   ties, and the order inside a range, left open.                            *)
EXTENDS UnionFind, Sequences

CONSTANTS
  Records,        \* the record keys of a call, naturals in their sorted order
  ExactInputs,    \* [trusted, composite]: the rules' keys, by priority
  EmployeeIds,    \* the employee_id of every record, for the scored matcher
  BlockInputs,    \* sequences of blocking rules' keys
  MaxCandidates   \* config.max_candidates

ASSUME MatchingAssumption ==
  /\ Records \subseteq Nat /\ IsFiniteSet(Records)
  /\ \A i \in ExactInputs : /\ i.trusted \in Seq([Records -> Nat])
                            /\ i.composite \in Seq([Records -> Nat])
  /\ EmployeeIds \subseteq [Records -> Nat]
  /\ BlockInputs \subseteq Seq([Records -> Nat])
  /\ MaxCandidates \in Nat

NoKey == 0
NoMatch == 0
Gray == 1
AutoMatch == 2

VARIABLES
  kind,          \* which matcher was called
  state,         \* "called", "matching", "returned" or "raised"
  trusted,       \* trusted rules (employee_id alone for the scored matcher)
  composite,     \* composite rules
  rule,          \* how many rules the loops have opened
  groups,        \* groups of the open rule that are still to be visited
  pairs,         \* pairs of the open group that are still to be visited
  parent,        \* union_find
  results,       \* links, conflicts and candidates reported so far
  todo,          \* scored pairs still to be visited
  level,         \* range of the pair visited last
  trusted_ids,   \* per record; current for roots only
  cluster_sizes  \* per record; current for roots only

exactVars == <<rule, groups, pairs>>
scoreVars == <<todo, level, trusted_ids, cluster_sizes>>
matchingVars == <<kind, state, trusted, composite, exactVars, parent, results, scoreVars>>

--------------------------------------------------------------------------------
(* Groups and pairs *)

\* trusted_groups, composite_groups and the groups of a blocking rule: the
\* records with one key; a record without a key is in none.
GroupsOf(key) ==
  {{r \in Records : key[r] = v} : v \in {key[r] : r \in Records} \ {NoKey}}

\* Pairs of sorted members
PairsOf(group) == {p \in group \X group : p[1] < p[2]}

\* zip(sorted(members), sorted(members)[1:])
Consecutive(group) ==
  {p \in PairsOf(group) : ~\E r \in group : p[1] < r /\ r < p[2]}

\* Mutant: the composite rules compare neighbours only, too.
NeighboursOnly(group) == Consecutive(group)

\* itertools.combinations(sorted(members), 2)
Combinations(group) == PairsOf(group)

\* Both are visited in the order of their first, then of their second record.
First(pair) ==
  \A p \in pairs : pair[1] < p[1] \/ (pair[1] = p[1] /\ pair[2] <= p[2])

\* The trusted keys a record carries.
TrustedOf(r) == {trusted[i][r] : i \in DOMAIN trusted} \ {NoKey}

\* Mutant: the record that names the cluster stands for all of it.
RootTrustedValues(root) == TrustedOf(root)

\* The trusted values all members of a cluster carry.
ClusterTrustedValues(root) == UNION {TrustedOf(r) : r \in Members(parent, root)}

\* left_trusted and right_trusted and left_trusted.isdisjoint(right_trusted)
Conflicting(left, right) == left # {} /\ right # {} /\ left \cap right = {}

Outcome(pair, by, status) == [pair |-> pair, rule |-> by, status |-> status]

--------------------------------------------------------------------------------
(* The exact matcher *)

MatchingInit ==
  /\ kind \in {"deterministic", "probabilistic"}
  /\ state = "called"
  /\ \/ kind = "deterministic" /\ \E i \in ExactInputs :
          trusted = i.trusted /\ composite = i.composite
     \/ kind = "probabilistic" /\ composite = <<>> /\ \E ids \in EmployeeIds :
          trusted = <<ids>>
  /\ rule = 0 /\ groups = {} /\ pairs = {}
  /\ parent = Singletons(Records)
  /\ results = {}
  /\ todo = {} /\ level = AutoMatch
  /\ trusted_ids = [r \in Records |-> TrustedOf(r)]
  /\ cluster_sizes = [r \in Records |-> 1]

\* A blank or repeated record key, or a second organization: nothing is matched.
Refuse ==
  /\ state = "called"
  /\ state' = "raised"
  /\ UNCHANGED <<kind, trusted, composite, exactVars, parent, results, scoreVars>>

Rules == trusted \o composite

\* The next rule: all trusted rules by priority, then the composite ones.
OpenRule ==
  /\ kind = "deterministic" /\ state \in {"called", "matching"}
  /\ groups = {} /\ pairs = {} /\ rule < Len(Rules)
  /\ state' = "matching"
  /\ rule' = rule + 1
  /\ groups' = GroupsOf(Rules[rule + 1])
  /\ UNCHANGED <<kind, trusted, composite, pairs, parent, results, scoreVars>>

\* The next group, in the order the records bring them in: any order.
OpenGroup ==
  /\ kind = "deterministic" /\ pairs = {}
  /\ \E g \in groups :
       /\ groups' = groups \ {g}
       /\ pairs' = IF rule <= Len(trusted) THEN Consecutive(g) ELSE Combinations(g)
  /\ UNCHANGED <<kind, state, trusted, composite, rule, parent, results, scoreVars>>

\* A trusted rule links without a look at the clusters.
TrustedPair ==
  /\ rule <= Len(trusted)
  /\ \E pair \in pairs :
       /\ First(pair)
       /\ parent' = Union(parent, pair[1], pair[2])
       /\ results' = results \cup {Outcome(pair, rule, "auto_match")}
       /\ pairs' = pairs \ {pair}
  /\ UNCHANGED <<kind, state, trusted, composite, rule, groups, scoreVars>>

\* A composite rule skips a pair of one cluster, reports a pair of clusters with
\* disjoint trusted values, and links the rest.
CompositePair ==
  /\ rule > Len(trusted)
  /\ \E pair \in pairs :
       /\ First(pair)
       /\ LET a == Find(parent, pair[1])
              b == Find(parent, pair[2])
              veto == Conflicting(ClusterTrustedValues(a), ClusterTrustedValues(b))
          IN  \/ /\ a = b
                 /\ parent' = Compress(Compress(parent, pair[1]), pair[2])
                 /\ UNCHANGED results
              \/ /\ a # b /\ veto
                 /\ parent' = CompressAll(parent)
                 /\ results' = results \cup {Outcome(pair, rule, "trusted_id_conflict")}
              \/ /\ a # b /\ ~veto
                 /\ parent' = Union(CompressAll(parent), pair[1], pair[2])
                 /\ results' = results \cup {Outcome(pair, rule, "auto_match")}
       /\ pairs' = pairs \ {pair}
  /\ UNCHANGED <<kind, state, trusted, composite, rule, groups, scoreVars>>

\* The clusters are read off the structure with a find for every record.
ReturnClusters ==
  /\ kind = "deterministic" /\ state = "matching"
  /\ groups = {} /\ pairs = {} /\ rule = Len(Rules)
  /\ state' = "returned"
  /\ parent' = CompressAll(parent)
  /\ UNCHANGED <<kind, trusted, composite, exactVars, results, scoreVars>>

--------------------------------------------------------------------------------
(* The scored matcher *)

\* generate_candidates: the pairs some blocking rule brings together; more than
\* the limit is an error.
GenerateCandidates ==
  /\ kind = "probabilistic" /\ state = "called"
  /\ \E blocks \in BlockInputs :
       LET candidates == UNION {PairsOf(g) :
                                  g \in UNION {GroupsOf(blocks[i]) : i \in DOMAIN blocks}}
       IN  \/ /\ Cardinality(candidates) > MaxCandidates
              /\ state' = "raised"
              /\ UNCHANGED todo
           \/ /\ Cardinality(candidates) <= MaxCandidates
              /\ state' = "matching"
              /\ todo' = candidates
  /\ UNCHANGED <<kind, trusted, composite, exactVars, parent, results, level,
                 trusted_ids, cluster_sizes>>

StatusOf(range) ==
  CASE range = AutoMatch -> "auto_match" [] range = Gray -> "review" [] OTHER -> "no_match"

\* Mutant: the pairs are visited as they were generated.
AnyRange == {NoMatch, Gray, AutoMatch}

\* sorted(scored, reverse=True): the ranges the next pair may be in.
NextRange == {range \in {NoMatch, Gray, AutoMatch} : range <= level}

\* One pair: its status from the clusters' trusted ids, then from its score;
\* sizes and ids of a merged cluster go to the root the union leaves.
ScorePair ==
  /\ kind = "probabilistic" /\ state = "matching"
  /\ \E pair \in todo, range \in NextRange :
       LET found == Compress(Compress(parent, pair[1]), pair[2])
           a == found[pair[1]]
           b == found[pair[2]]
           status == IF Conflicting(trusted_ids[a], trusted_ids[b])
                     THEN "trusted_id_conflict" ELSE StatusOf(range)
           merged_size == IF a = b THEN cluster_sizes[a]
                          ELSE cluster_sizes[a] + cluster_sizes[b]
       IN  /\ todo' = todo \ {pair}
           /\ level' = range
           /\ results' = results \cup
                {[pair |-> pair, status |-> status, left_size |-> cluster_sizes[a],
                  right_size |-> cluster_sizes[b], merged_size |-> merged_size]}
           /\ \/ /\ status = "auto_match" /\ a # b
                 /\ parent' = Union(found, pair[1], pair[2])
                 /\ trusted_ids' = [trusted_ids EXCEPT
                      ![Winner(a, b)] = trusted_ids[a] \cup trusted_ids[b]]
                 /\ cluster_sizes' = [cluster_sizes EXCEPT ![Winner(a, b)] = merged_size]
              \/ /\ ~(status = "auto_match" /\ a # b)
                 /\ parent' = found
                 /\ UNCHANGED <<trusted_ids, cluster_sizes>>
  /\ UNCHANGED <<kind, state, trusted, composite, exactVars>>

ReturnCandidates ==
  /\ kind = "probabilistic" /\ state = "matching" /\ todo = {}
  /\ state' = "returned"
  /\ UNCHANGED <<kind, trusted, composite, exactVars, parent, results, scoreVars>>

MatchingNext ==
  \/ Refuse
  \/ OpenRule
  \/ OpenGroup
  \/ TrustedPair
  \/ CompositePair
  \/ ReturnClusters
  \/ GenerateCandidates
  \/ ScorePair
  \/ ReturnCandidates

MatchingSpec == MatchingInit /\ [][MatchingNext]_matchingVars

--------------------------------------------------------------------------------
(* Properties *)

Linked == {o.pair : o \in {q \in results : q.status = "auto_match"}}
Vetoed == {o.pair : o \in {q \in results : q.status = "trusted_id_conflict"}}
Together(pair) == Find(parent, pair[1]) = Find(parent, pair[2])
ShareKey(keys, r, s) == \E i \in DOMAIN keys : keys[i][r] = keys[i][s] /\ keys[i][r] # NoKey

\* No way to cut the set in two without cutting a related pair.
Connected(set, related(_, _)) ==
  \A part \in (SUBSET set) \ {{}, set} :
    \E r \in part, s \in set \ part : related(r, s) \/ related(s, r)

\* The clusters union-find holds after any mix of unions and path compressions
\* are the connected components of the links reported as auto_match, each named
\* by its smallest record key: no record is left behind by a merge of its
\* cluster and none is joined without a reported link.
ClustersAreComponents ==
  /\ \A pair \in Linked : Together(pair)
  /\ \A c \in Clusters(parent) :
       /\ Connected(c, LAMBDA r, s : <<r, s>> \in Linked)
       /\ \A r \in c : Find(parent, r) \in c /\ Find(parent, r) <= r

\* Records with trusted identifiers are in one cluster only if shared trusted
\* identifiers alone connect them: no composite rule and no score bridges two
\* trusted identities, not even through records that carry none ("cannot merge
\* clusters carrying disjoint trusted identifiers", "apply to whole current
\* clusters, including a link through a record with a missing employee ID").
TrustedNeverBridged ==
  \A c \in Clusters(parent) :
    Connected({r \in c : TrustedOf(r) # {}}, LAMBDA r, s : ShareKey(trusted, r, s))

\* A call that returned has an outcome for every pair it had to decide, and the
\* outcomes agree with the final clusters: later merges never join a pair that
\* was reported as a conflict, equal trusted keys are together, and records of
\* one composite key are together or reported as a conflict.
OutcomesStand ==
  state = "returned" =>
    /\ \A pair \in Vetoed : ~Together(pair)
    /\ kind = "deterministic" =>
         \A pair \in PairsOf(Records) :
           /\ ShareKey(trusted, pair[1], pair[2]) => Together(pair)
           /\ ShareKey(composite, pair[1], pair[2]) => Together(pair) \/ pair \in Vetoed
    /\ \A o, q \in results : kind = "probabilistic" /\ o.pair = q.pair => o = q

\* The cluster impact shown to a reviewer of a gray-zone pair is that of the
\* clusters the call ends with, and a conflict was judged by ids the root's
\* members really carry: sizes and ids kept per root survive every change of
\* root, and no automatic match is made after a pair was offered for review.
ImpactStands ==
  /\ \A r \in Records : kind = "probabilistic" /\ parent[r] = r =>
       /\ cluster_sizes[r] = Cardinality(Members(parent, r))
       /\ trusted_ids[r] = ClusterTrustedValues(r)
  /\ \A o \in results : kind = "probabilistic" /\ o.status = "review" =>
       LET left == Members(parent, Find(parent, o.pair[1]))
           right == Members(parent, Find(parent, o.pair[2]))
       IN  /\ o.left_size = Cardinality(left)
           /\ o.right_size = Cardinality(right)
           /\ o.merged_size = Cardinality(left \cup right)
================================================================================
