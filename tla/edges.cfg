SPECIFICATION MCSpec
CONSTANTS
  e1 = e1
  d1 = d1
  Effect = {e1}
  MaxRetries = 1
  MaxFates = 3
  Delivery = {d1}
  MaxOverlaps = 1
  MaxInvocations = 3
  MaxKills = 1
  MaxUnlinks = 1
  NoDirectory = NoDirectory
  Nobody = Nobody
  Unwritten = Unwritten
  MaxSessions = 2
  MaxBreaks = 1
  pa = pa
  pb = pb
  Provider = {pa, pb}
  Subscription = Subscription
  NoKey = NoKey
  Nothing = Nothing
INVARIANTS DirectoryIsKept KeysFitConfiguration IngressIsFaithful
PROPERTIES OperationsAreTrue RecoverySettles DeliveredIsSettled
CHECK_DEADLOCK FALSE
