\* The worker loop with its input queue: two clients that may queue one
\* command each, disconnect at any point, and a shutdown that may come at
\* any point; the session commands only, TPM and broker succeed.
CONSTANTS
  Conns = {c1, c2}
  SessHandles = {s1, s2}
  MaxVHandle = 1
  TransientMax = 1
  SessionsMax = 1
  MaxAbandoned = 1
  MaxCmdHandles = 1
  TpmObjectSlots = 1
  MaxCapHandles = 2
  Codes = {"StartAuthSession", "FlushContext", "ContextSave", "ContextLoad"}
  ClientMisuse = FALSE
  DupHandles = FALSE
  TpmErrors = FALSE
  BrokerErrors = FALSE
  MaxQueued = 1
SPECIFICATION EngineSpec
INVARIANT
  ClosedConnectionReleased
PROPERTY
  DisconnectedEventuallyReleased
