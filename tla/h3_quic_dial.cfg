\* The QUIC connect call of new_quic_connection against the spec's
\* local-address and server-name requirements.
CONSTANTS
  PoolSizes = {8}
  None = None
SPECIFICATION Spec
CHECK_DEADLOCK FALSE
INVARIANT QuicDialAsConfigured
