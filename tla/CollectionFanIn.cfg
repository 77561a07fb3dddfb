SPECIFICATION Spec
CONSTANTS
  p1 = p1
  p2 = p2
  c1 = c1
  Runs = {r1}
  Profiles = {p1, p2}
  Candidates = {c1}
  Workers = {w1, w2}
  SourceOf <- OneSource
  Rendered = {}
  Throttled = {p1}
  Pdf = {c1}
  Scripted = {c1}
  Verdicts = {"accepted", "review_required"}
  NoTask = NoTask
  MaxFaults = 1
SYMMETRY WorkerSymmetry
INVARIANT TypeOK
INVARIANT ClosedOverTerminalTasks
INVARIANT MessagesNameCommittedRows
PROPERTY ImplementsLedger
CHECK_DEADLOCK FALSE
