\* Clients that name handles, sessions and contexts they do not own, and
\* send ContextLoad bodies that do not unmarshal; TPM and broker succeed.
CONSTANTS
  Conns = {c1, c2}
  SessHandles = {s1}
  MaxVHandle = 2
  TransientMax = 1
  SessionsMax = 1
  MaxAbandoned = 1
  MaxCmdHandles = 1
  TpmObjectSlots = 2
  MaxCapHandles = 2
  Codes = {"Load", "StartAuthSession", "Use", "SequenceComplete", "FlushContext", "ContextSave", "ContextLoad", "GetCapability"}
  ClientMisuse = TRUE
  DupHandles = FALSE
  TpmErrors = FALSE
  BrokerErrors = FALSE
SYMMETRY Symmetry
SPECIFICATION Spec
INVARIANT
  ReaperNeverAborts
