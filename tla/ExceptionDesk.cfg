SPECIFICATION FairSpec
CONSTANTS
  orgA = orgA
  orgB = orgB
  foreign = foreign
  snap = snap
  fixed = fixed
  other = other
  None = None
  Orgs = {orgA, orgB}
  Records = {x1}
  Reviewers = {r1, foreign}
  Requests = {q1, q2}
  Snapshots = {snap, fixed, other}
  SnapshotOrg <- MCSnapshotOrg
  SnapshotObject <- MCSnapshotObject
  ReviewerOrg <- MCReviewerOrg
  Resolutions = {"open", "waived", "closed"}
CHECK_DEADLOCK FALSE
INVARIANTS HistorySound RecordShowsLastResolution AnswerIsOwnResolution
PROPERTIES ImplementsRevisionLog EveryRequestEnds
