SPECIFICATION FairSpec
CONSTANTS
  orgA = orgA
  orgB = orgB
  foreign = foreign
  None = None
  Orgs = {orgA, orgB}
  Candidates = {c1}
  Reviewers = {r1, foreign}
  Requests = {q1, q2, q3}
  CandidateOrg <- MCCandidateOrg
  ReviewerOrg <- MCReviewerOrg
  Verdicts = {"match", "no_match"}
  CreatedStatuses = {"review"}
CHECK_DEADLOCK FALSE
INVARIANTS HistorySound AnswersSound QueueItemMonotone
PROPERTIES EveryRequestEnds SomebodyWins AppendOnly ImplementsRevisionLog
