\* Two requests about three shares, two of one student, which compete for every lock.
SPECIFICATION FairSpec
CONSTANTS
  r1 = r1  r2 = r2
  s1 = s1  s2 = s2  s3 = s3
  ann = ann  ben = ben
  parent = parent
  bursar = bursar  head = head
  Requests = {r1, r2}
  Shares = {s1, s2, s3}
  Students = {ann, ben}
  Parents = {parent}
  Users = {bursar, head}
  StudentOf <- MCStudentOf
  Amount <- MCAmount
  ChildrenOf <- MCChildrenOf
  Chains <- MCChains
  MaxConfigs = 2
INVARIANTS CreditedOnce NeverOverCredited
PROPERTIES WholeChainDecided ImplementsBook 
CHECK_DEADLOCK FALSE
