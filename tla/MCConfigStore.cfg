\* Two entries, changed, saved and lost in every way.
CONSTANTS
  Keys = {k1, k2}
  Cfgs = {c1, off}
  Off = off
  NoCfg = NoCfg
  Torn = Torn
SPECIFICATION StoreSpec
INVARIANT
  StoreSurvives
PROPERTY
  ImplementsMap
