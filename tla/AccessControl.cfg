SPECIFICATION Spec
CONSTANTS
  super_admin = super_admin
  school_admin = school_admin
  principal = principal
  vice_principal = vice_principal
  res = res
  read = read
  vic = vic
  Roles = {super_admin, school_admin, principal, vice_principal}
  SuperAdmin = super_admin
  SchoolAdmin = school_admin
  Principal = principal
  Management = {principal, vice_principal}
  Resources = {res}
  Actions = {read}
  LegacyActions = {read}
  DefaultFlags <- MCDefaultFlags
  Staff = {vic}
  RoleOf <- MCRoleOf
  Groups = {g1}
  Calls = {c1, c2}
  Checks = {k1}
SYMMETRY Symmetry
CONSTRAINT OneBesideACheck
INVARIANT TablesSound
PROPERTIES DecisionsSurviveSeeding AnswerIsBracketed
