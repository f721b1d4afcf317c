---------------------------- MODULE MCReviewerUI ----------------------------
(* One browser on either desk with two records and two drafts.               *)
EXTENDS ReviewerUI

MCDesks == {"exceptions", "identity"}
MCExceptions == {"exceptions"}
MCRecords == 1..2
=============================================================================
