--------------------------- MODULE MCExceptionDesk ---------------------------
(* Small instances of the exception desk. *)
EXTENDS ExceptionDesk

CONSTANTS orgA, orgB, foreign, snap, fixed, other

\* fixed is a later snapshot of snap's source object, other one of another
\* object; everybody works for orgA except the reviewer named foreign.
MCSnapshotOrg == [s \in Snapshots |-> orgA]
MCSnapshotObject == [s \in Snapshots |-> IF s = other THEN 2 ELSE 1]
MCReviewerOrg == [r \in Reviewers |-> IF r = foreign THEN orgB ELSE orgA]
==============================================================================
