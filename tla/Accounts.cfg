SPECIFICATION Spec
CONSTANTS
  k1 = k1  k2 = k2  north = north  south = south
  Calls = {k1, k2}
  Emails = {"ada", "ben", "pam", "cora", "dora"}
  Schools = {north, south}
  NoSchool = NoSchool
  Prefixes = {"NTH", "STH"}
  Prefix <- MCPrefix
  Leaders = {"principal", "vice_principal", "head_teacher"}
  Hires <- MCHires
  NewRoles = {"principal"}
  FirstUsers <- MCUsers
  FirstSchools <- MCSchools
  ThreeDigits = 9
  MaxUsers = 5
  MaxCalls = 3
SYMMETRY CallSymmetry
INVARIANTS TypeOK HiresFit TokensStayEnded
 
CHECK_DEADLOCK FALSE
