SPECIFICATION FairSpec
CONSTANTS
  Transfers = {t1, t2}
  Responses = {r1, r2}
  Hosts = {h1}
  Schemes = {"http", "https"}
  ProxyEnv = {"https"}
  MalformedEnv = {"http"}
  Codes = {200, 302, 404}
  MaxEndpoints = 2
  RedirectLimit = 1
  Proxy = Proxy
  None = None
  NoMatch = NoMatch
INVARIANTS
  OneWorker
  CallbackAccounting
PROPERTIES
  StatusOnlyByOwner
  KeepsPromise
  EveryTransferEnds
