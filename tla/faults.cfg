\* Two well-behaved clients, a TPM that may reject any command, and an
\* AccessBroker whose every call made by the RM on its own behalf (context
\* load, save, flush, send) may fail.
CONSTANTS
  Conns = {c1, c2}
  SessHandles = {s1, s2}
  MaxVHandle = 2
  TransientMax = 1
  SessionsMax = 1
  MaxAbandoned = 1
  MaxCmdHandles = 1
  TpmObjectSlots = 2
  MaxCapHandles = 2
  Codes = {"Load", "StartAuthSession", "Use", "SequenceComplete", "FlushContext", "ContextSave", "ContextLoad", "GetCapability"}
  ClientMisuse = FALSE
  DupHandles = FALSE
  TpmErrors = TRUE
  BrokerErrors = TRUE
SYMMETRY Symmetry
SPECIFICATION Spec
INVARIANT
  SessionIsolation
  TypeOK
  NoLoadedEntryAtBoundary
  TrackedSessionsSavedInTpm
