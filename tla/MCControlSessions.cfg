\* Two generations of one run, two work connections and a channel of one, under
\* fairness.
SPECIFICATION FairSpec
CONSTANTS
  c1 = c1  c2 = c2  c3 = c3
  w1 = w1  w2 = w2
  r1 = r1  r2 = r2
  u1 = u1  i1 = i1
  Controls = {c1, c2}
  WorkConns = {w1, w2}
  PoolCap = 1
  RunIDs = {r1}
  Users = {u1}
  ClientIDs = {}
  NoClientID = NoClientID
  NoRun = NoRun
  NoKey = NoKey
  NoCtl = NoCtl
  Keys <- TwoKeys
  ClientKey <- TwoKey
INVARIANTS
  ClosedPoolEmpty
PROPERTIES
  LoginsSettle
  ClosingFinishes
