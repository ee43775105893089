\* ContextLoad of a transient context is not quota-checked; the handle
\* array holds one handle more than the quota and the vhandle counter
\* goes one further (TransientMax < MaxCapHandles < MaxVHandle, as
\* 100 < 254 < 2^24 in the daemon).
CONSTANTS
  Conns = {c1, c2}
  SessHandles = {s1, s2}
  MaxVHandle = 3
  TransientMax = 1
  SessionsMax = 1
  MaxAbandoned = 1
  MaxCmdHandles = 2
  TpmObjectSlots = 2
  MaxCapHandles = 2
  Codes = {"Load", "StartAuthSession", "ContextSave", "ContextLoad", "GetCapability"}
  ClientMisuse = FALSE
  DupHandles = FALSE
  TpmErrors = FALSE
  BrokerErrors = FALSE
SYMMETRY Symmetry
SPECIFICATION Spec
INVARIANT
  CapDataInBounds
