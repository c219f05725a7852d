\* One session after the other between easy NATs, one of them public.
SPECIFICATION Spec
CONSTANTS
  h1 = h1  h2 = h2
  a1 = a1  a2 = a2  a3 = a3
  Handlers = {h1}
  Records = {a1, a2}
  NoRecord = NoRecord
  Pairs <- PublicPairs
  NoPair = NoPair
  Punchable <- NoPairs
  MaxVisits = 6
SYMMETRY AnalyzerSymmetry
INVARIANTS
  PublicNetworkReceives
