CONSTANTS
  Makes = {"a", "b"}
  ScanCap = 2
  AuxCap = 4
  HostAuxCap = 2
  DumpLen = 2
  RingSlots = 3
  HostCap = 1
  NIR = 4
  Irq1 = 1
  Irq12 = 0
  Cascade = 2
  MasterEdgeOnly = {0, 1, 2}
  SlaveEdgeOnly = {0}
  MouseStores = {"reset", "enable", "param", "status", "wrap", "unwrap"}
  ConfigStores <- MC_Configs
  Guests <- MC_Guests
SPECIFICATION Spec
INVARIANTS
  EveryKeyRequests
