SPECIFICATION Spec
CONSTANTS
  api = api
  demo = demo
  fromDemo = fromDemo
  None = None
  Objects = {o1}
  Requests = {q1, fromDemo}
  Processes = {api, demo}
  ProcessOf <- MCProcessOf
  Faulty = {}
  LastRow = 1
  Value <- MCValue
  MaxRows = 1
CHECK_DEADLOCK FALSE
INVARIANTS ExtractionErrorIsRecorded
