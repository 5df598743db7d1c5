SPECIFICATION Spec
CONSTANTS
  Transfers = {t1, t2}
  Responses = {r1}
  Hosts = {h1}
  Schemes = {"http", "https"}
  ProxyEnv = {}
  MalformedEnv = {}
  Codes = {200}
  MaxEndpoints = 1
  RedirectLimit = 1
  Proxy = Proxy
  None = None
  NoMatch = NoMatch
INVARIANT
  ResetPrepares
