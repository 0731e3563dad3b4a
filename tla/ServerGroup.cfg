SPECIFICATION FairSpec
CONSTANTS
  app = app
  metrics = metrics
  unbound = unbound
  http = http
  https = https
  prometheus = prometheus
  c1 = c1
  c2 = c2
  None = None
  Servers <- MCServers
  Listeners <- MCListeners
  ServerOf <- MCServerOf
  Connections <- MCConnections
INVARIANTS TypeOK
PROPERTIES KeepsPromise StopsInTheEnd
