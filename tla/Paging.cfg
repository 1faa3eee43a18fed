CONSTANTS
  d1 = d1
  d2 = d2
  t1 = t1
  t2 = t2
  f1 = f1
  f2 = f2
  Uncached = Uncached
  Dirs = {d1, d2}
  Tables = {t1, t2}
  Frames = {f1, f2}
  Regions <- MC_Regions
  Slots <- MC_Slots
  PagingGuests <- MC_Guests
  Buffer <- MC_Buffer
  Operand <- MC_Operand
  a = a
  b = b
  c = c
  Tasks <- MC_Tasks
  NoTask = NoTask
  Tokens = {0, 1}
SPECIFICATION ProtectedSpec
INVARIANTS
  ProtectedTypeOK
PROPERTIES
  CacheKeepsContract
  AccessExact
  SwitchesWhole
