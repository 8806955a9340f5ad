SPECIFICATION MCSpec
CONSTANTS
  None = None
  Nothing = Nothing
  NoType = NoType
  d1 = d1
  w1 = w1
  r1 = r1
  r2 = r2
  r3 = r3
  ea = ea
  eb = eb
  ec = ec
  t1 = t1
  t2 = t2
  x = x
  y = y
  Directive = {d1}
  MaxSubs = 2
  MaxCrashes = 2
  Fallible = TRUE
  Work = {w1}
  Run = {r1, r2, r3}
  MaxDeaths = 2
  MaxFaults = 1
  Entity = {ea, eb, ec}
  EntityType = {t1, t2}
  Relation = {"made_by", "blocks"}
  Evidence = {x, y}
  MaxLog = 6
  MaxOpens = 1
INVARIANTS DeliveryIsHonest ResultsAreHonest BeliefsAreEarned
PROPERTIES OutcomeFinality DirectiveResolved FirstResultStands EveryLaunchReported
CHECK_DEADLOCK FALSE
