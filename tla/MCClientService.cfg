\* One entry, two connections, two reloads.
CONSTANTS
  MaxConn = 2
  Algorithms = {"aes", "chacha"}
  Offers <- MCOffers
  k1 = k1
  k2 = k2
  Keys = {k1}
  Cfgs = {c1, off}
  Off = off
  NoCfg = NoCfg
  Starts <- MCStarts
  MaxReload = 2
SPECIFICATION ServiceSpec
CHECK_DEADLOCK FALSE
INVARIANTS
  
  ReloadApplied
  NoSessionLeaks
  ControlNotNil
PROPERTIES
  StartKeepsEntries
  ServiceGoesOn
