\* Two sessions between the same peers, receivers with up to two sockets.
CONSTANTS
  MaxSid = 2
  MaxSocket = 2
SPECIFICATION PunchSpec
CHECK_DEADLOCK FALSE
INVARIANT
  HoleMatches

  
