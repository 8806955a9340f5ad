SPECIFICATION MCSpec
CONSTANTS
  s1 = s1
  i1 = i1
  create = create
  edit = edit
  c1 = c1
  None = None
  Intent = {i1}
  Delta = {}
  Event = {e1}
  Surface = {s1}
  SurfaceOf <- MCSurfaceOf
  Batch = {b1, b2}
  Job = {j1}
  Run = {r1, r2}
  Prompt = {p1}
  Filing = {f1}
  Mutation = {create, edit}
  Target <- MCTarget
  Comment = {c1}
  Silence = {q1}
  Reason = {w1}
  MaxTime = 2
  Due = {1, 2}
  Limit = 2
  t1 = t1
  t2 = t2
  t3 = t3
  ca = ca
  cb = cb
  Dispatch = {t1, t2, t3}
  TurnChat <- MCTurnChat
  MaxTracked = 2
  MaxMishaps = 1
  NoDispatch = NoDispatch
SYMMETRY MCSymmetry
INVARIANTS SettledBatchesClean NoSelfFeeding WriteProvenance OneOutstandingSweep TurnsAreTold
PROPERTIES ImplementsFrontier NoOvertaking WakesFireAsScheduled
CHECK_DEADLOCK FALSE
