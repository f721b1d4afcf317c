---------------------------- MODULE MCPublishing ----------------------------
(* Small instances of publishing. *)
EXTENDS Publishing, FiniteSets, TLC

CONSTANTS m1, v1, v2, d1, d2, p2,
          MaxPublished  \* bound on the publications that are begun

\* One mart; the publication p2 and only it is of another version.
OneMart == [q \in Builds \cup Publications |-> m1]
TwoVersions == [q \in Publications |-> IF q = p2 THEN v2 ELSE v1]

\* The version makes no difference to the bytes, or it does.
SameBytes == [m \in Marts |-> [v \in Versions |-> d1]]
OwnBytes == [m \in Marts |-> [v \in Versions |-> IF v = v2 THEN d2 ELSE d1]]

\* Any pair of the publications: of one version and the same bytes, or not.
FewPublished ==
    Cardinality({q \in Publications : req[q].pc # "free"}) <= MaxPublished

\* A build has ended before publications begin: it only adds the mart, and
\* nothing it does after that is seen by a publication.
BuildsFirst ==
    (\E q \in Publications : req[q].pc # "free") =>
        \A b \in Builds : req[b].pc \notin Working

\* No definition names a build, a retention or a publication but p2.
Symmetry == Permutations(Builds) \cup Permutations(Retentions)
            \cup Permutations(Publications \ {p2})
==============================================================================
