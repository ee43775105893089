\* ContextLoad of another live client's saved session is forwarded to the TPM.
CONSTANTS
  Conns = {c1, c2}
  SessHandles = {s1, s2}
  MaxVHandle = 2
  TransientMax = 1
  SessionsMax = 1
  MaxAbandoned = 1
  MaxCmdHandles = 2
  TpmObjectSlots = 2
  MaxCapHandles = 2
  Codes = {"StartAuthSession", "ContextSave", "ContextLoad"}
  ClientMisuse = TRUE
  DupHandles = FALSE
  TpmErrors = FALSE
  BrokerErrors = FALSE
SYMMETRY Symmetry
SPECIFICATION Spec
INVARIANT
  SessionIsolation
