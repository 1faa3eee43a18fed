CONSTANTS
  DmaChannels = {2}
  Radix = 2
  DmaPages = 2
  FddUnits = 2
  Cylinders = 1
  MaxCylinder = 1
  TrackSectors = 2
  SectorBytes = 2
  LongParams = 2
  FormatParams = 2
  LongResult = 2
  DumpResult = 2
  FdGuests <- MC_FdGuests
  FdSpans <- MC_Spans
  FdAddrs = {3}
  FdCounts = {1, 2, 3}
  FdPage = 1
  MaxMoves = 2
  Channel2 = 2
  IdeSectors = 4
  SectorWords = 2
  PacketWords = 2
  CdWords = 2
  CountBase = 4
  MaxMultiple = 2
  HdGuests <- MC_HdGuests
  HdLbas = {0, 2, 3, 4}
  HdCounts = {0, 1, 2, 3}
  HdLimits = {0, 1, 3}
  HdLengths = {0, 1, 4}
  MaxCommands = 2
SPECIFICATION StorageSpec
INVARIANTS
  StorageTypeOK
  SeekEndReported
  TransferOnCourse
  WaitsOnOne
PROPERTIES
  ResultTells
  OneBlockPerProgram
  AnswerInterrupts
  SectorsLand
  BlocksInterrupt
