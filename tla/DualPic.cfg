CONSTANTS
  NIR = 3
  MasterEdgeOnly = {0, 1}
  SlaveEdgeOnly = {0}
  Guests <- MC_Guests
  MasterLines = {0, 2}
  SlaveLines = {0, 1}
  MasterIcw3 <- MC_MasterIcw3
  SlaveIcw3 = {1}
  MasterImr <- MC_MasterImr
  SlaveImr <- MC_SlaveImr
  ElcrMasks <- MC_ElcrMasks
SPECIFICATION Spec
INVARIANTS
  TypeOK
  LevelRequestIsPin
  CascadePinFollowsSlave
  SlaveRequestReachesMaster
  ServiceNests
PROPERTIES
  EdgeRequestSticks
