\* One name, two wrappers, retries, one work connection.
CONSTANTS
  Names = {n1}
  Cfgs = {c1, c2}
  NoCfg = NoCfg
  MaxGen = 2
  MaxSend = 2
  WorkConns = {k1}
SPECIFICATION ClientSpec
CHECK_DEADLOCK FALSE
INVARIANTS
  NoOrphanRegistration
  RunningUnlessRefused
PROPERTIES
  RemovalReachesServer
  WorkConnsSettle
