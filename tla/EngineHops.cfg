SPECIFICATION Spec
CONSTANTS
  Transfers = {t1, t2}
  Responses = {r1}
  Hosts = {h1, h2}
  Schemes = {"http", "https", "none"}
  ProxyEnv = {"http"}
  MalformedEnv = {}
  Codes = {200, 302, 404}
  MaxEndpoints = 2
  RedirectLimit = 2
  Proxy = Proxy
  None = None
  NoMatch = NoMatch
SYMMETRY Symmetry
INVARIANTS
  TypeOK
  RedirectBudget
  SocketsReady
  HostHeaderNamesTarget
  RequestReachesTarget
  ProxyAsConfigured
  DeathNeedsCause
PROPERTY
  FollowsLoop
