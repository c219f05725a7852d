\* Two clients, one of which reconnects, and four registrations of two names.
SPECIFICATION ProxySpec
CONSTANTS
  c1 = c1  c2 = c2  c3 = c3
  n1 = n1  n2 = n2
  p1 = p1  p2 = p2  p3 = p3  p4 = p4
  RunIDs = {"run1", "run2"}
  Controls = {c1, c2, c3}
  Generation <- TwoClients
  Names = {n1, n2}
  Proxies = {p1, p2, p3, p4}
  NoProxy = NoProxy
SYMMETRY ProxySymmetry
INVARIANTS
  ListedIsReachable
  SuccessorFindsNamesFree
  NothingLeftBehind
PROPERTIES
  RemovesOwnOnly
