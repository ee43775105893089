\* Two well-behaved clients, a TPM that executes every well-formed command
\* and an AccessBroker that never fails.
CONSTANTS
  Conns = {c1, c2}
  SessHandles = {s1, s2, s3}
  MaxVHandle = 2
  TransientMax = 1
  SessionsMax = 2
  MaxAbandoned = 2
  MaxCmdHandles = 2
  TpmObjectSlots = 2
  MaxCapHandles = 2
  Codes = {"Load", "StartAuthSession", "Use", "SequenceComplete", "FlushContext", "ContextSave", "ContextLoad", "GetCapability"}
  ClientMisuse = FALSE
  DupHandles = FALSE
  TpmErrors = FALSE
  BrokerErrors = FALSE
SYMMETRY Symmetry
SPECIFICATION Spec
INVARIANT
  SessionListWellFormed
  NoResidentEntryAtBoundary
  NoTpmLeakAtBoundary
PROPERTY
  VirtualTpmRefined
  OnlyOwnerRemovesSession
