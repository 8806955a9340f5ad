SPECIFICATION LoopSpec
CONSTANTS
  s1 = s1
  None = None
  Intent = {}
  Delta = {d1}
  Event = {}
  Surface = {s1}
  SurfaceOf <- MCSurfaceOf
  Batch = {b1, b2, b3}
  Job = {}
  Run = {}
  Prompt = {p1}
  Filing = {}
  Mutation = {}
  Target <- MCTarget
  Comment = {}
  Silence = {q1}
  Reason = {}
  MaxTime = 0
  Due = {}
  Limit = 2
  MaxWakes = 1
  MaxCrashes = 0
  MaxFaults = 0
  Retirable = FALSE
CHECK_DEADLOCK FALSE
INVARIANT NeverWedged
