SPECIFICATION MatchingSpec
CHECK_DEADLOCK FALSE
CONSTANTS
  Records <- MCRecords
  ExactInputs <- MCExactInputs
  EmployeeIds <- MCEmployeeIds
  BlockInputs <- MCBlockInputs
  MaxCandidates = 4
INVARIANTS ClustersAreComponents TrustedNeverBridged OutcomesStand ImpactStands
