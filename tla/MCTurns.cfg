SPECIFICATION FairSpec
\* When no request is left to arrive the data plane waits.
CHECK_DEADLOCK FALSE
CONSTANTS
  w1 = w1
  w2 = w2
  a = a
  b = b
  get = get
  getLower = getLower
  post = post
  api = api
  apiPort = apiPort
  web = web
  u1 = u1
  u2 = u2
  u3 = u3
  Letters = {a, b}
  Methods = {get, getLower, post}
  FoldMethod <- MCFoldMethod
  Hosts = {api, apiPort, web}
  NormalHost <- MCNormalHost
  Upstreams = {u1, u2, u3}
  Absent = Absent
  Workers = {w1, w2}
  Tables <- TurnTables
  Arrivals <- TurnArrivals
  Unusable = {u3}
  CounterValues = 4
  MaxUpdates = 2
  MaxArrivals = 5
INVARIANTS TypeOK RoutedByBest TakeTurns DriftBounded
PROPERTY EveryRequestAnswered
