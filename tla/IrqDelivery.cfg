CONSTANTS
  NIR = 4
  MasterEdgeOnly = {0, 1, 2}
  SlaveEdgeOnly = {0}
  PollOrder <- MC_PollOrder
  LineOf <- MC_LineOf
  Timers = {"pit", "cmos"}
  SelfClearing = {"pit"}
  Cascade = 2
  MasterImrs <- MC_MasterImrs
  MaxDepth = 2
SPECIFICATION Spec
INVARIANTS
  TypeOK
  ServiceAccounted
  SsPairUnsplit
PROPERTIES
  HaltWakes
