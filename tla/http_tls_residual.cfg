CONSTANTS
  Setups <- MCTls
  ConnectTimeout = 2
  NegotiationTimeout = 3
  HandshakeTimeout = 2
  MaxResidual = 2
  MaxBytes = 3
  MaxRead = 2
  None = None
SPECIFICATION Spec
INVARIANT NoTunnelByteLost
\* A returned error or a closed tunnel ends the attempt.
CHECK_DEADLOCK FALSE
