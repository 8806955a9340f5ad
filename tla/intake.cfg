SPECIFICATION MCSpec
CONSTANTS
  m1 = m1
  m2 = m2
  u1 = u1
  x1 = x1
  a = a
  f1 = f1
  f2 = f2
  f3 = f3
  f4 = f4
  f5 = f5
  f6 = f6
  None = None
  Event = {m1, m2, u1, x1}
  Chat = {a}
  ChatOf <- MCChatOf
  Kind <- MCKind
  Window = {1, 2, 3, 4}
  Capacity = 2
  Attempts = 2
  MaxTroubles = 2
  MaxEvents = 4
  MaxReloads = 1
  DebounceWindow = 2
  MaxWait = 3
  Cap = 2
  MaxClock = 5
  MaxElements = 4
  Message = {m1, m2}
  Fact = {f1, f2, f3, f4, f5, f6}
  About <- MCAbout
  FactKind <- MCFactKind
  FactTime <- MCFactTime
  Blank = Blank
  o1 = o1
  o2 = o2
  y1 = y1
  y2 = y2
  k1 = k1
  k2 = k2
  b1 = b1
  b2 = b2
  Nobody = Nobody
  OnlineLink = OnlineLink
  Change = {o1, o2, y1, y2}
  Own = {o1, o2}
  ScopeOf <- MCScopeOf
  ValueOf <- MCValueOf
  Caller = {k1, k2}
  Batch = {b1, b2}
INVARIANTS IntakeIsLossless FlushesOnTime ProjectionFollowsTime AccountIsTrue
PROPERTIES ImplementsFeed IntakeProgress
CHECK_DEADLOCK FALSE
