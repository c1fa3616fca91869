SPECIFICATION Spec
CONSTANTS
  short = short  middle = middle  long = long  oversize = oversize
  Nothing = Nothing
  Threads = {t1, t2}
  Keys = {short, middle, long, oversize}
  Tokenizers = {z1, z2}
  Caches = {h1, h2, h3}
  Cost <- Costs
  MaxEntries = 2
  MaxBytes = 3
SYMMETRY Symmetric
INVARIANTS
  OwnTokens
  CachesSound
PROPERTY InsertedRowStays
