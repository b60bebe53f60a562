CONSTANTS
  PoolSizes = {0, 8}
  None = None
SPECIFICATION Spec
\* g3bench exits or starts the benchmark once the arguments are parsed.
CHECK_DEADLOCK FALSE
INVARIANTS
  TypeOK
  ArgsDecideExit
