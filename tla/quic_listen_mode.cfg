CONSTANTS
  l1 = l1
  l2 = l2
  t1 = t1
  t2 = t2
  f1 = f1
  Listens <- MCListens
  Tls <- MCTls
  Filters = {f1}
  Servers = {"s1", "s2"}
  MaxReloads = 3
  Unset = Unset
  None = None
SPECIFICATION Spec
\* The reload budget is a model bound: the port is reloaded at most
\* MaxReloads times, then stays as it is.
CHECK_DEADLOCK FALSE
INVARIANTS
  ListenModeMatchesConfig
