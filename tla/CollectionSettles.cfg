SPECIFICATION FairSpec
CONSTANTS
  p1 = p1
  p2 = p2
  c1 = c1
  Runs = {r1}
  Profiles = {p1, p2}
  Candidates = {}
  Workers = {w1, w2}
  SourceOf <- NoSource
  Rendered = {}
  Throttled = {}
  Pdf = {}
  Scripted = {}
  Verdicts = {"accepted"}
  NoTask = NoTask
  MaxFaults = 1
PROPERTY RunSettles
CHECK_DEADLOCK FALSE
