SPECIFICATION Spec
CONSTANTS
  Transfers = {t1}
  Responses = {r1}
  Hosts = {h1}
  Schemes = {"http"}
  ProxyEnv = {}
  MalformedEnv = {}
  Codes = {200}
  MaxEndpoints = 1
  RedirectLimit = 0
  Proxy = Proxy
  None = None
  NoMatch = NoMatch
INVARIANT
  CallbackRegardless
