\* A client registers a proxy twice, closes it and leaves while two visitors come.
SPECIFICATION NatHoleSpec
CONSTANTS
  c1 = c1  n1 = n1
  p1 = p1  p2 = p2
  v1 = v1  v2 = v2
  RunIDs = {"run1"}
  Controls = {c1}
  Generation <- OneControl
  Names = {n1}
  Proxies = {p1, p2}
  NoProxy = NoProxy
  Visits = {v1, v2}
  NoVisit = NoVisit
INVARIANTS
  SessionHandedOver
  ClientKnown
PROPERTIES
  SessionsEnd
  LoopsEnd
  ImplementsProxyTable
