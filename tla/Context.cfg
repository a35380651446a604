SPECIFICATION CtxSpec
CONSTANTS
  Window = 2
  LimitPermille = 1000
  Airtimes = {1, 2}
  MaxTime = 4
  Keys = {zero, p1, p2, p3}
  ZeroKey = zero
  N = 2
INVARIANTS
  WithinBudget
  AtMostTwiceTheBudget
PROPERTIES
  PermissionKeeps
  RemembersTheLastN
