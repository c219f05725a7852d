\* Two concurrent sessions between all kinds of peers, and cleaning.
SPECIFICATION Spec
CONSTANTS
  h1 = h1  h2 = h2
  a1 = a1  a2 = a2  a3 = a3
  Handlers = {h1, h2}
  Records = {a1, a2, a3}
  NoRecord = NoRecord
  Pairs <- AllPairs
  NoPair = NoPair
  Punchable <- AllPairs
  MaxVisits = 3
SYMMETRY AnalyzerSymmetry
INVARIANTS
  RolesFit
  CreditFindsEntry
  
