CONSTANTS
  Nums = {1, 17}
  MaxEntries = 3
  Bad = Bad
SPECIFICATION Spec
\* parse_yaml returns: every behaviour ends in "ok" or "err".
CHECK_DEADLOCK FALSE
INVARIANTS
  TypeOK
  MapParsedAsWritten
