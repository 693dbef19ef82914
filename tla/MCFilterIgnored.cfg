SPECIFICATION PathSpec
\* When no request is left to arrive the data plane waits.
CHECK_DEADLOCK FALSE
CONSTANTS
  w1 = w1
  a = a
  b = b
  get = get
  getLower = getLower
  post = post
  api = api
  apiPort = apiPort
  web = web
  u1 = u1
  Letters = {a, b}
  Methods = {get, getLower, post}
  FoldMethod <- MCFoldMethod
  Hosts = {api, apiPort, web}
  NormalHost <- MCNormalHost
  Upstreams = {u1}
  Absent = Absent
  Blank = Blank
  Workers = {w1}
  Tables <- MCTables
  Listings <- MCListings
  Arrivals <- MCArrivals
  Unusable = {}
  CounterValues = 2
  MaxUpdates = 1
  MaxArrivals = 1
INVARIANT NoFilterIgnored
