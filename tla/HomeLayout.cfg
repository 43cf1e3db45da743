SPECIFICATION Spec
CONSTANTS
  cpu = cpu
  gpu = gpu
  profiles = profiles
  DefaultOrder <- MCOrder
  AlwaysFillRow = {profiles}
  GridRows = 10
  MaxRowSpan = 2
  Columns = {2, 3}
  MaxSaves = 1
  MaxWidgets = 4
  MaxFaults = 1
  MaxGestures = 3
  None = None
INVARIANTS
  TypeOK
  LayoutIsSound
  GridMirrorsService
  
PROPERTIES
  DropIsPreview
CHECK_DEADLOCK FALSE
