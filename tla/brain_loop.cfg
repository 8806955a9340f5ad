SPECIFICATION MCSpec
CONSTANTS
  s1 = s1
  None = None
  Intent = {i1}
  Delta = {}
  Event = {}
  Surface = {s1}
  SurfaceOf <- MCSurfaceOf
  Batch = {b1, b2, b3}
  Job = {}
  Run = {}
  Prompt = {p1}
  Filing = {}
  Mutation = {}
  Target <- MCTarget
  Comment = {}
  Silence = {q1}
  Reason = {}
  MaxTime = 1
  Due = {}
  Limit = 2
  MaxWakes = 1
  MaxCrashes = 1
  MaxFaults = 1
  Retirable = TRUE
  k1 = k1
  k2 = k2
  CoderRun = {k1, k2}
  MaxCommits = 4
  MaxPrs = 2
  MaxRounds = 2
  MaxHumans = 2
  MaxRunDeaths = 1
  Human = Human
  NoTree = NoTree
  v1 = v1
  v2 = v2
  a1 = a1
  g1 = g1
  Review = {v1, v2, v3}
  RepairCall = {a1, a2}
  MaxBudget = 3
  MaxNotes = 2
  MaxToolDeaths = 1
  NoReview = NoReview
  ReviewRun = {g1, g2}
  MaxHeads = 2
  MaxReviewDeaths = 1
  NoRun = NoRun
  x1 = x1
  x2 = x2
  g = g
  h = h
  Account = {x1, x2}
  SurfaceChat = {g, h}
  Person = {h}
  MaxFiles = 2
  MaxReads = 2
  MaxStarts = 2
  NoAccount = NoAccount
  NoChat = NoChat
INVARIANTS DuplicatesBounded BudgetIsKept ReviewsAreEarned ParticipationIsGranted
PROPERTIES PublicationIsSound SettledBatchesFrozen
CHECK_DEADLOCK FALSE
