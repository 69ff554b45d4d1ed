SPECIFICATION Spec
CONSTANTS
  k1 = k1  k2 = k2
  Calls = {k1, k2}
  Schools = {"north", "south"}
  Home = "north"
  Sessions = {"s24", "s25", "s26", "x24"}
  SchoolOf <- MCSchoolOf
  Pupils = {"ann", "bob"}
  Classes = {"js1", "js2"}
  Staff = {"tom"}
  Registers <- MCRegisters
  Corrections <- MCCorrections
  StartTime = 2
  FirstTerms <- MCTerms
  MaxTerms = 4
  MaxTime = 3
  MaxCalls = 3
SYMMETRY CallSymmetry
INVARIANTS TypeOK   
CHECK_DEADLOCK FALSE
