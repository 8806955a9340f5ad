SPECIFICATION DelegationSpec
CONSTANTS
  Nothing = Nothing
  Work = {w1}
  Run = {r1}
  MaxDeaths = 0
  MaxFaults = 0
CHECK_DEADLOCK FALSE
INVARIANT InterruptedMeansDead
