SPECIFICATION TreasurySpec
CONSTANTS
  k1 = k1  k2 = k2
  Calls = {k1, k2}
  Amounts = {1, 2}
  Names = {"fuel", "rent"}
  Periods = {"s24", "t1"}
  SessionPeriod <- MCPeriods
  FirstDue <- MCDue
  MaxExpenses = 2
  MaxCategories = 3
  MaxAccounts = 2
  MaxEntries = 4
  MaxMonths = 24
  MaxCalls = 3
SYMMETRY CallSymmetry
INVARIANTS CashAccounted PlansKept
 
CHECK_DEADLOCK FALSE
