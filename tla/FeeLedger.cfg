SPECIFICATION LedgerSpec
CONSTANTS
  ann = ann  ben = ben
  tuition1 = tuition1  uniform = uniform  tuition2 = tuition2
  term1 = term1  term2 = term2
  jss = jss  sss = sss  noClass = noClass  noTerm = noTerm
  tuition = tuition  clothing = clothing
  Children = {ann}
  Structures = {tuition1, uniform, tuition2}
  Terms = {term1, term2}
  ClassOf <- MCClassOf
  ClassFor <- MCClassFor
  TermOf <- MCTermOf
  CategoryOf <- MCCategoryOf
  NoClass = noClass
  NoTerm = noTerm
  FeeAmounts <- MCAmounts
  Overrides = {1}
  Payments = {2}
  Splits <- MCSplits
  MaxGenerations = 2
  MaxPayments = 2
INVARIANTS LedgerTypeOK BooksAddUp ItemsFollowOverrides
PROPERTY CallsSettle
