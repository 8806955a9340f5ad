SPECIFICATION MCSpec
CONSTANTS
  o1 = o1
  o2 = o2
  e1 = e1
  e2 = e2
  e3 = e3
  ca = ca
  cb = cb
  Observation = {o1, o2}
  OccurredAt <- MCOccurredAt
  WaveBatches = 2
  WaveObservations = 1
  Tries = 2
  MaxDrains = 1
  MaxMishaps = 2
  ArchiveEvent = {e1, e2, e3}
  ReplayChat = {ca, cb}
  ReplayChatOf <- MCReplayChatOf
  SentAt <- MCSentAt
  Shown = {e1, e2}
  BatchLimit = 1
  NoMark = NoMark
  MaxTurns = 4
PROPERTIES WavesAreExact HandoffIsExact EveryObservationExtracted EveryAcceptedEventFed
CHECK_DEADLOCK FALSE
