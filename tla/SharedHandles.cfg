SPECIFICATION Spec
CONSTANTS
  Thread = {t1, t2, t3, t4}
  Handle = {h1, h2, h3, h4, h5}
  Datum = {dns, ssl}
  None = None
  CacheSize = 2
SYMMETRY Symmetry
INVARIANTS
  TypeOK
  OneOwner
  NoLeak
  OwnRequest
  UnlockMatches
