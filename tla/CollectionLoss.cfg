SPECIFICATION FairSpec
CONSTANTS
  p1 = p1
  p2 = p2
  c1 = c1
  Runs = {r1}
  Profiles = {p1}
  Candidates = {c1}
  Workers = {w1, w2}
  SourceOf <- OneSource
  Rendered = {}
  Throttled = {}
  Pdf = {}
  Scripted = {}
  Verdicts = {"accepted"}
  NoTask = NoTask
  MaxFaults = 1
PROPERTY LossChangesNoConclusion
CHECK_DEADLOCK FALSE
