\* The same vhandle twice in a handle area: two TPM copies, one saveflushed.
CONSTANTS
  Conns = {c1, c2}
  SessHandles = {s1, s2}
  MaxVHandle = 2
  TransientMax = 1
  SessionsMax = 1
  MaxAbandoned = 1
  MaxCmdHandles = 2
  TpmObjectSlots = 2
  MaxCapHandles = 2
  Codes = {"Load", "Use"}
  ClientMisuse = FALSE
  DupHandles = TRUE
  TpmErrors = FALSE
  BrokerErrors = FALSE
SYMMETRY Symmetry
SPECIFICATION Spec
INVARIANT
  NoTpmLeakAtBoundary
