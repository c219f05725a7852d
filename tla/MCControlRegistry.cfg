\* Two runs that use the same registry key, with and without client ID.
SPECIFICATION ContendedSpec
CONSTANTS
  c1 = c1  c2 = c2  c3 = c3
  w1 = w1  w2 = w2
  r1 = r1  r2 = r2
  u1 = u1  i1 = i1
  Controls = {c1, c2, c3}
  WorkConns = {}
  PoolCap = 1
  RunIDs = {r1, r2}
  Users = {u1}
  ClientIDs = {i1}
  NoClientID = NoClientID
  NoRun = NoRun
  NoKey = NoKey
  NoCtl = NoCtl
  Keys <- TwoKeys
  ClientKey <- TwoKey
SYMMETRY ControlSymmetry
INVARIANTS
  OnlineHasOwner
  ActivatedIsOnline
  IndexAgrees
  NoStaleRecords
