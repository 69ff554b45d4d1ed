SPECIFICATION Spec
CONSTANTS
  k1 = k1  k2 = k2  q1 = q1  q2 = q2  teacher = teacher  principal = principal
  Requests = {q1}
  Calls = {k1, k2}
  Staff = {teacher}
  Management = {principal}
  Amounts = {1, 2}
  MaxExpenses = 1
  MaxReceived = 2
SYMMETRY CallSymmetry
INVARIANTS CompletedHasExpense QuietRequestsConsistent
CHECK_DEADLOCK FALSE
