SPECIFICATION Spec
CONSTANTS
  MaxCaptures = 3
  Families <- MCFamilies
  Calls <- MCCalls
  Limits <- MCLimits
  MaxSize = 8
  IntBits = 4
  MaxResults = 6
  TabFamilies <- MCTabFamilies
  TabCalls <- MCTabCalls
  RanLimit = 4
  Imbalance = 1
  Randoms = {0, 1, 2, 3}
  Texts = {"m", "a", "b", "c"}
  HashOf <- MCHashOf
  Message = "m"
  Addresses = {1, 2, 3, 4}
  TabSizes = {1, 8}
  Rows = {1}
  Ways = 2
  Utf8Families <- MCUtf8Families
  Utf8Calls <- MCUtf8Calls
INVARIANTS MatchesRight TablesRight StringsShared Utf8Right
CHECK_DEADLOCK FALSE
