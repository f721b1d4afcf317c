SPECIFICATION Spec
CONSTANTS
  api = api
  demo = demo
  fromDemo = fromDemo
  None = None
  Objects = {o1}
  Requests = {q1, q2, fromDemo}
  Processes = {api, demo}
  ProcessOf <- MCProcessOf
  Faulty = {fromDemo}
  LastRow = 3
  Value <- MCValue
  MaxRows = 2
CHECK_DEADLOCK FALSE
SYMMETRY Symmetry
INVARIANTS SnapshotsSound ResumeSkipsNothing SuccessIsTrue RunningIsExplained
  NoCircularWait
