SPECIFICATION FairSpec
\* With nothing to publish and every link quiet, the two programs wait.
CHECK_DEADLOCK FALSE
CONSTANTS
  a = a
  b = b
  w1 = w1
  w2 = w2
  x = x
  RouteIds = {a, b}
  WireBodies = {w1}
  NoRoute = NoRoute
  DataPlanes = {"d1"}
  DpRoutes = {x}
  FromProto <- MCFromProto
  DecodeLimit = 1
  Window = 2
  LinkFaults = {"break", "silent", "refuse", "restart", "accept"}
  MaxFaults = 2
  MaxVersion = 2
  MaxCrashes = 1
INVARIANTS StreamTypeOK DrainedIsCurrent StreamInOrder
PROPERTIES EventuallyCurrent StopsWhenAsked
