CONSTANTS
  Nums = {1, 2}
  Ids = {0, 1}
  MaxEntries = 3
  Bad = Bad
  Unset = Unset
  NotAMap = NotAMap
SPECIFICATION Spec
\* parse_yaml returns: every behaviour ends in "ok" or "err".
CHECK_DEADLOCK FALSE
INVARIANTS
  TypeOK
  AffinityAsWritten
