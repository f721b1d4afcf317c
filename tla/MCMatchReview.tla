---------------------------- MODULE MCMatchReview ----------------------------
(* Small instances of the match review desk. *)
EXTENDS MatchReview

CONSTANTS orgA, orgB, foreign

\* Everybody works for orgA, except the reviewer named foreign.
MCReviewerOrg == [r \in Reviewers |-> IF r = foreign THEN orgB ELSE orgA]
MCCandidateOrg == [c \in Candidates |-> orgA]
==============================================================================
