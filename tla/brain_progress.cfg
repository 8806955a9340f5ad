SPECIFICATION MCSpec
CONSTANTS
  s1 = s1
  None = None
  Intent = {}
  Delta = {d1}
  Event = {e1}
  Surface = {s1}
  SurfaceOf <- MCSurfaceOf
  Batch = {b1, b2, b3}
  Job = {}
  Run = {}
  Prompt = {p1}
  Filing = {}
  Mutation = {}
  Target <- MCTarget
  Comment = {}
  Silence = {}
  Reason = {r1}
  MaxTime = 0
  Due = {0}
  Limit = 2
  MaxWakes = 1
  MaxCrashes = 1
  MaxFaults = 1
  Retirable = FALSE
  p = p
  q = q
  c1 = c1
  c2 = c2
  c3 = c3
  Process = {p, q}
  Call = {c1, c2, c3}
  ProcessOf <- MCProcessOf
  MaxIssued = 3
  Lease = 2
  MaxKills = 1
  MaxAborts = 1
  NoCall = NoCall
PROPERTIES CredentialIsSound LoopProgress EveryCallAnswered
CHECK_DEADLOCK FALSE
