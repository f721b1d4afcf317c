SPECIFICATION Spec
CONSTANTS
  m1 = m1
  v1 = v1
  v2 = v2
  d1 = d1
  d2 = d2
  p2 = p2
  MaxPublished = 2
  None = None
  Builds = {b1, b2}
  Publications = {p1, p2, p3}
  Retentions = {t1, t2}
  Marts = {m1}
  Versions = {v1, v2}
  Digests = {d1, d2}
  Mart <- OneMart
  Version <- TwoVersions
  Rendered <- OwnBytes
  Mortal = {b1, b2, t1, t2}
  ExportDays = 1
  MaxTime = 2
CHECK_DEADLOCK FALSE
CONSTRAINTS FewPublished BuildsFirst
SYMMETRY Symmetry
INVARIANTS RowsSound ExportsHeld
PROPERTIES OnlyExpiredRemoved
