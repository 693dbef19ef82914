SPECIFICATION FairSpec
\* With every request answered and every link quiet, the programs wait.
CHECK_DEADLOCK FALSE
CONSTANTS
  t1 = t1
  t2 = t2
  r1 = r1
  r2 = r2
  d1 = d1
  k1 = k1
  pre = pre
  strict = strict
  plain = plain
  weighted = weighted
  wire1 = wire1
  served = served
  Tasks = {t1, t2}
  RouteIds = {r1, r2}
  Bodies = {plain}
  PoliciesOf <- MCPoliciesOf
  PolicyKeys = {k1}
  Specs <- MCSpecs
  Stages = {pre}
  AllowedStages = {pre}
  Params = {}
  ObjectParams = {}
  Configs = {strict}
  SoundConfigs = {strict}
  Conforming = {}
  WireBodies = {wire1}
  ToProto <- MCToProto
  NoRoute = NoRoute
  NoPolicy = NoPolicy
  DataPlanes = {d1}
  DpRoutes = {served}
  FromProto <- MCFromProto
  DecodeLimit = 1
  Window = 1
  Faults = {"cancel", "crash"}
  MaxRequests = 2
  MaxCrashes = 1
  LinkFaults = {"break", "silent", "refuse", "restart", "accept"}
  MaxFaults = 1
INVARIANTS ServesWhatWasStored SettledServesTable
PROPERTIES ServesUnlessLost PublisherSpec
