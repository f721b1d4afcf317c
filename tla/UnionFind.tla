------------------------------- MODULE UnionFind -------------------------------
(* The union-find structure both matchers share (matching/deterministic.py).
   Record keys are naturals in the order the code sorts them, a structure is
   the function from every key to its parent, a root is its own parent. *)
EXTENDS Naturals, FiniteSets

\* UnionFind.__init__: every key is a cluster of its own.
Singletons(keys) == [key \in keys |-> key]

\* What find returns: the root above the key.
Find(parent, key) ==
  LET root[k \in DOMAIN parent] == IF parent[k] = k THEN k ELSE root[parent[k]]
  IN  root[key]

\* What find leaves behind: every key on the way hangs directly below the root.
Compress(parent, key) ==
  LET path[k \in DOMAIN parent] ==
        IF parent[k] = k THEN {k} ELSE {k} \cup path[parent[k]]
      top == Find(parent, key)
  IN  [k \in DOMAIN parent |-> IF k \in path[key] THEN top ELSE parent[k]]

\* find called for every key.
CompressAll(parent) == [k \in DOMAIN parent |-> Find(parent, k)]

\* The two roots in key order: union keeps the first.
Winner(a, b) == IF a < b THEN a ELSE b
Loser(a, b) == IF a < b THEN b ELSE a

\* Mutant: the record is moved and the rest of its cluster is not.
UnionOfRecords(parent, left, right) ==
  LET found == Compress(Compress(parent, left), right)
  IN  IF found[left] = found[right] THEN found
      ELSE [found EXCEPT ![right] = found[left]]

\* union: two finds, then the later root below the earlier one.
Union(parent, left, right) ==
  LET found == Compress(Compress(parent, left), right)
  IN  IF found[left] = found[right] THEN found
      ELSE [found EXCEPT ![Loser(found[left], found[right])] =
                            Winner(found[left], found[right])]

\* The keys of a root, and the clusters the structure stands for.
Members(parent, root) == {k \in DOMAIN parent : Find(parent, k) = root}
Clusters(parent) == {Members(parent, Find(parent, k)) : k \in DOMAIN parent}
================================================================================
