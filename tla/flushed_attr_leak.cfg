\* SequenceComplete rejected by the TPM: its sequence object is unmapped but still resident.
CONSTANTS
  Conns = {c1, c2}
  SessHandles = {s1, s2}
  MaxVHandle = 2
  TransientMax = 1
  SessionsMax = 1
  MaxAbandoned = 1
  MaxCmdHandles = 2
  TpmObjectSlots = 2
  MaxCapHandles = 2
  Codes = {"Load", "SequenceComplete"}
  ClientMisuse = FALSE
  DupHandles = FALSE
  TpmErrors = TRUE
  BrokerErrors = FALSE
SYMMETRY Symmetry
SPECIFICATION Spec
INVARIANT
  NoTpmLeakAtBoundary
