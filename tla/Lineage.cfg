SPECIFICATION Spec
CONSTANTS
  raw1 = raw1
  raw2 = raw2
  job = job
  field1 = field1
  field2 = field2
  mart = mart
  export = export
  mapping = mapping
  build1 = build1
  build2 = build2
  publish = publish
  None = None
  Names = {raw1, raw2, job, field1, field2, mart, export}
  Requests = {mapping, build1, build2, publish}
  Steps <- MCSteps
  After <- MCAfter
  Workers = 4
CHECK_DEADLOCK FALSE
INVARIANTS RecordsSound TraceComplete
