CONSTANTS
  Vector = {32, 33, 48}
  ApicId = {0, 1}
  MaxCount = 1
  Divides = {2}
  Gsi = {2, 3}
  HpetGsi = 2
  IdStores = {0}
  TprStores = {0, 2}
  LvtStores <- MC_LvtStores
  CountStores = {1}
  IcrStores <- MC_IcrStores
  RteStores <- MC_RteStores
  DestStores <- MC_DestStores
SPECIFICATION Spec
PROPERTIES
  EoiEndsOne
