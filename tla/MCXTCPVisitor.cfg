\* A visitor and the one it falls back to, two tunnels, one user connection.
CONSTANTS
  a = a
  b = b
  Names = {a, b}
  FallbackTo <- MCFallbackTo
  NoName = NoName
  KeepOpen = {a}
  Bound = {a}
  Users = {u1}
  va = va
  vb = vb
  Visitors = {va, vb}
  Name <- MCName
  None = None
  MaxHole = 2
SPECIFICATION VisitorSpec
CHECK_DEADLOCK FALSE
INVARIANTS
  TunnelsKept
PROPERTY
  UsersServed
