SPECIFICATION MCSpec
CONSTANTS
  e1 = e1
  d1 = d1
  Effect = {e1}
  MaxRetries = 0
  MaxFates = 0
  Delivery = {d1}
  MaxOverlaps = 1
  MaxInvocations = 0
  MaxKills = 0
  MaxUnlinks = 0
  NoDirectory = NoDirectory
  Nobody = Nobody
  Unwritten = Unwritten
  MaxSessions = 2
  MaxBreaks = 0
  pa = pa
  pb = pb
  Provider = {pa}
  Subscription = Subscription
  NoKey = NoKey
  Nothing = Nothing
PROPERTY DeferralNeverDrops
CHECK_DEADLOCK FALSE
