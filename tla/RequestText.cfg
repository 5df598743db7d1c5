SPECIFICATION Spec
CONSTANTS
  URLs <- MCURLs
  Credentials <- MCCredentials
  ProxyVar <- OnlyHTTPS
  LineWidth = 72
  None = None
INVARIANTS
  TypeOK
  HeadWellFormed
  CredentialsArrive
  AsksForURL
  ConnectNamesTarget
