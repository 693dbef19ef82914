SPECIFICATION Spec
CONSTANTS
  t1 = t1
  t2 = t2
  t3 = t3
  r1 = r1
  r2 = r2
  s1 = s1
  plain = plain
  weighted = weighted
  guarded = guarded
  doubly = doubly
  misused = misused
  k1 = k1
  k2 = k2
  pre = pre
  post = post
  loud = loud
  none = none
  scalar = scalar
  strict = strict
  broken = broken
  wire1 = wire1
  wire2 = wire2
  Bodies = {plain, weighted}
  PoliciesOf <- MCPoliciesOf
  PolicyKeys = {k1}
  Specs <- OneSpec
  Stages = {pre, post}
  AllowedStages = {pre, post}
  Params = {none, loud, scalar}
  ObjectParams = {none, loud}
  Configs = {strict, broken}
  SoundConfigs = {strict}
  Conforming <- MCConforming
  WireBodies = {wire1, wire2}
  ToProto <- MCToProto
  NoRoute = NoRoute
  NoPolicy = NoPolicy
  Receivers = {s1}
  Tasks = {t1, t2, t3}
  RouteIds = {r1}
  Faults = {"cancel", "db_error", "crash"}
  MaxRequests = 3
  MaxCrashes = 1
SYMMETRY TaskSymmetry
INVARIANTS VersionsDistinct StaleOnlyAfterLoss PublicationOwed ListingsExact
