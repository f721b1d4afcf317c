SPECIFICATION FairSpec
CONSTANTS
  m1 = m1
  v1 = v1
  v2 = v2
  d1 = d1
  d2 = d2
  p2 = p2
  MaxPublished = 2
  None = None
  Builds = {b1}
  Publications = {p1, p2}
  Retentions = {t1}
  Marts = {m1}
  Versions = {v1, v2}
  Digests = {d1, d2}
  Mart <- OneMart
  Version <- TwoVersions
  Rendered <- SameBytes
  Mortal = {}
  ExportDays = 1
  MaxTime = 2
CHECK_DEADLOCK FALSE
PROPERTIES ExpiredGoAway
