SPECIFICATION Spec
CONSTANTS
  k1 = k1  k2 = k2  A = A  B = B  Ada = Ada  hall = hall
  NoOne = NoOne  NoRoom = NoRoom
  Calls = {k1, k2}
  Classes = {A, B}
  Teachers = {Ada}
  Rooms = {hall}
  Days = {1, 2}
  Shapes <- MCShapes
  Schedules <- MCSchedules
  DefaultSlots <- MCDefaultSlots
  Wishes <- MCWishes
  FirstTables <- MCTables
  FirstTeachers <- MCFirstTeachers
  Slots <- MCSlots
  TooSmall <- MCTooSmall
  MaxPerDay = 1
  MaxPerWeek = 2
  MaxPeriods = 3
  MaxEntries = 3
  MaxCalls = 3
SYMMETRY CallSymmetry
INVARIANTS TypeOK  
 
CHECK_DEADLOCK FALSE
