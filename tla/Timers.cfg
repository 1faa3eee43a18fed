CONSTANTS
  ByteBase = 2
  NIR = 3
  MasterEdgeOnly = {0, 1}
  SlaveEdgeOnly = {0}
  ClocksPerPeriod = 2
  ClocksPerSecond = 3
  DayTicks = 2
  TimerGuests <- MC_Guests
  Dates <- MC_Dates
  Enables <- MC_Enables
  Alarms <- MC_Alarms
  LaneBase = 2
  HpetClocks = 3
  HpetStores <- MC_HpetStores
  HpetConfigs <- MC_HpetConfigs
  HpetAdvances <- MC_HpetAdvances
  MaxSeconds = 2
SPECIFICATION TimersSpec
INVARIANTS
  TimersTypeOK
  OutOnTime
  CountReadWhole
  HpetOnTime
PROPERTIES
  InterruptsKept
  CalendarRuns
