SPECIFICATION Spec
CONSTANTS
  k1 = k1  k2 = k2  s1 = s1  s2 = s2  c1 = c1  c2 = c2  ma = ma  pa = pa  staff = staff
  Calls = {k1, k2}
  Pupils = {s1, s2}
  Classes = {c1, c2}
  NoClass = "none"
  Emails = {ma, pa, staff}
  GuardianLists <- MCLists
  NoList = "none"
  Edits <- MCEdits
  EntryClasses = {c1}
  FirstUsers <- MCFirstUsers
  Kept = {}
  MaxUsers = 3
  MaxLinks = 4
  MaxCalls = 4
SYMMETRY Symmetry
INVARIANTS GuardiansAsGiven AccountsFollowChildren
PROPERTY ImplementsBook
CHECK_DEADLOCK FALSE
