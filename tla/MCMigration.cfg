SPECIFICATION FairSpec
\* When all processes serve and every key is taken they wait.
CHECK_DEADLOCK FALSE
CONSTANTS
  p1 = p1
  p2 = p2
  k1 = k1
  k2 = k2
  null = null
  braces = braces
  object = object
  Starters = {p1, p2}
  Keys = {k1, k2}
  Texts = {null, braces, object}
  Blank = {null}
  EmptyObject = braces
  Objects = {braces, object}
  NoText = NoText
  NoRow = NoRow
  MaxDeaths = 2
INVARIANTS TypeOK ServesMigrated
PROPERTY EveryStartSucceeds
