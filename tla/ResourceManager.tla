-------------------------- MODULE ResourceManager --------------------------
(***************************************************************************)
(* The command/response engine of the tpm2-abrmd ResourceManager          *)
(* (src/src/resource-manager.c): handle virtualisation of transient        *)
(* objects, per-connection quotas, session loading and saving around every *)
(* command, the virtualised ContextSave / ContextLoad / FlushContext /     *)
(* GetCapability commands, and the connection-close reaper with its FIFO   *)
(* of abandoned sessions.                                                  *)
(*                                                                         *)
(* The worker thread (resource_manager_thread) handles one message at a    *)
(* time; its program counter `pc` walks through the phases of              *)
(* resource_manager_process_tpm2_command in the order the code runs them.  *)
(* No other thread touches the state below, so a phase is one step.        *)
(*                                                                         *)
(* The TPM behind the AccessBroker is part of the environment: it is       *)
(* modelled only as far as the RM's correctness depends on it (which       *)
(* sessions it holds loaded or saved, how many transient objects are       *)
(* resident).  Clients are the other part of the environment: any live     *)
(* connection may send any command of `Codes` at any time.                 *)
(***************************************************************************)
EXTENDS Naturals, Sequences, FiniteSets, SequencesExt, Functions

CONSTANTS
  Conns,          \* client connections (model values)
  SessHandles,    \* session handles the TPM can hand out (model values)
  MaxVHandle,     \* last value of a connection's vhandle counter (rollover bound)
  TransientMax,   \* HandleMap capacity: per-connection transient quota
  SessionsMax,    \* SessionList per-connection session quota
  MaxAbandoned,   \* MAX_ABANDONED, length bound of the abandoned FIFO
  MaxCmdHandles,  \* handles in the handle area of a command (TPM allows 3)
  TpmObjectSlots, \* transient objects the TPM holds at once (object memory)
  MaxCapHandles,  \* TPM2_MAX_CAP_HANDLES: length of TPMS_CAPABILITY_DATA's handle array
  Codes,          \* the command codes clients send in this model
  ClientMisuse,   \* clients may name handles/contexts they do not own
  DupHandles,     \* a command may name the same object twice (e.g. Certify)
  TpmErrors,      \* the TPM may reject a well-formed command (bad auth ...)
  BrokerErrors    \* AccessBroker calls made by the RM itself may fail

AllCodes == {"Load", "StartAuthSession", "Use", "SequenceComplete",
             "FlushContext", "ContextSave", "ContextLoad", "GetCapability"}

ASSUME /\ MaxVHandle \in Nat \ {0}
       /\ TransientMax \in Nat \ {0}
       /\ SessionsMax \in Nat \ {0}
       /\ MaxAbandoned \in Nat \ {0}
       /\ MaxCmdHandles \in Nat \ {0}
       /\ TpmObjectSlots \in Nat \ {0}
       \* The daemon caps the transient quota below the handle array (tss2).
       /\ MaxCapHandles \in Nat /\ TransientMax < MaxCapHandles
       /\ Codes \subseteq AllCodes
       /\ {ClientMisuse, DupHandles, TpmErrors, BrokerErrors} \subseteq BOOLEAN

None         == "none"          \* no handle / no connection
Phys         == "phys"          \* a transient handle returned by the TPM
TransientCtx == "transient_ctx" \* a saved context of a transient object
Malformed    == "malformed"     \* a ContextLoad body that does not unmarshal

\* GetCapability(TPM2_CAP_HANDLES) of the transient range from the first
\* vhandle on: a client that asks for at most the array's length, and one
\* that asks for more (prop_count is a UINT32 the RM does not clamp).
CapHandlesQueries == {[prop |-> 1, count |-> n] : n \in {MaxCapHandles, MaxCapHandles + 1}}
\* Any GetCapability query that is not virtualised (prop 0 is not a
\* transient handle).
OtherCapability == [prop |-> 0, count |-> MaxCapHandles]

VHandles == 1..MaxVHandle

\* Commands whose TPMA_CC has the FLUSHED bit: the TPM flushes the
\* transient objects named in the handle area (SequenceComplete here).
FlushedCodes == {"SequenceComplete"}

SessionStates == {"LOADED", "SAVED_RM", "SAVED_CLIENT", "SAVED_CLIENT_CLOSED"}
TpmSessionStates == {"free", "loaded", "saved", "gone"}
Phases == {"idle", "handles", "auths", "send", "finish", "reap", "done", "aborted", "rolled_over"}

VARIABLES
  live,       \* connections the ConnectionManager has not removed
  hmap,       \* hmap[c]: c's HandleMap, vhandle -> (phandle # 0)
  vnext,      \* vnext[c]: next vhandle of c's HandleMap counter
  active,     \* SessionList: session handle -> [conn, state]
  abandoned,  \* SessionList abandoned FIFO: Seq of [h, conn, state]
  issued,     \* sessions whose client-held context equals the saved one
  tpmSess,    \* TPM: state of every session handle
  tpmObjs,    \* TPM: number of resident transient objects
  pc,         \* worker: phase of the message being processed
  cur,        \* worker: connection of that message
  cmd,        \* worker: the Tpm2Command being processed
  idx,        \* worker: position in the handle or auth area
  subst,      \* worker: handle-area positions rewritten to a phandle
  slist,      \* worker: loaded-transients list (transient_slist)
  resp,       \* worker: session handle carried by the response, or None
  granted     \* history: <<c, h>> when c received a response carrying h

tpm == <<tpmSess, tpmObjs>>
rm == <<live, hmap, vnext, active, abandoned, issued>>
worker == <<pc, cur, cmd, idx, subst, slist, resp>>
vars == <<rm, tpm, worker, granted>>

Cmd(code, hs, auths, arg) == [code |-> code, hs |-> hs, auths |-> auths, arg |-> arg]
NoCmd == Cmd(None, <<>>, <<>>, None)
EmptyMap == [h \in {} |-> FALSE]

-----------------------------------------------------------------------------
(* SessionList and HandleMap operations (session-list.c and handle-map.c   *)
(* are not in this source tree; they are modelled from the spec).          *)

Forget(f, S) == Restrict(f, DOMAIN f \ S)

Owned(c) == {h \in DOMAIN active : active[h].conn = c}
AbandonedHandles == {abandoned[i].h : i \in DOMAIN abandoned}
Tracked == DOMAIN active \cup AbandonedHandles

\* The entry of a session handle in whichever collection holds it.
Entry(h) == IF h \in DOMAIN active THEN active[h]
            ELSE abandoned[CHOOSE i \in DOMAIN abandoned : abandoned[i].h = h]

\* session_list_is_full: the connection owns SessionsMax sessions.
SessionListIsFull(c) == Cardinality(Owned(c)) >= SessionsMax

\* handle_map_is_full: the connection's HandleMap holds TransientMax entries.
HandleMapIsFull(c) == Cardinality(DOMAIN hmap[c]) >= TransientMax

\* session_list_remove_handle: drop the session from both collections.
SessionListRemoveHandle(h) ==
  /\ active' = Forget(active, {h})
  /\ abandoned' = SelectSeq(abandoned, LAMBDA e : e.h # h)
  /\ issued' = issued \ {h}

-----------------------------------------------------------------------------
(* The environment: which commands a client sends, and what the TPM does.  *)

SessRefs(c) == IF ClientMisuse THEN SessHandles
               ELSE {h \in Owned(c) : active[h].state = "SAVED_RM"}
ObjRefs(c) == IF ClientMisuse THEN VHandles ELSE DOMAIN hmap[c]
Areas(S, n) == {hs \in BoundedSeq(S, n) : DupHandles \/ IsInjective(hs)}
AuthAreas(c) == {<<>>} \cup {<<[h |-> h, cont |-> b]>> : h \in SessRefs(c), b \in BOOLEAN}
Blobs(c) ==
  (IF ClientMisuse THEN SessHandles \cup {Malformed}
   ELSE {h \in issued : h \in Owned(c) \/ h \in AbandonedHandles})
  \cup {TransientCtx}
IfCode(code, S) == IF code \in Codes THEN S ELSE {}

Commands(c) ==
  UNION {
   IfCode("Load", {Cmd("Load", hs, a, None) : hs \in Areas(ObjRefs(c), 1),
                                              a \in AuthAreas(c)}),
   IfCode("StartAuthSession", {Cmd("StartAuthSession", <<>>, <<>>, None)}),
   IfCode("Use", {Cmd("Use", hs, a, None) :
                    hs \in Areas(ObjRefs(c) \cup SessRefs(c), MaxCmdHandles),
                    a \in AuthAreas(c)}),
   IfCode("SequenceComplete", {Cmd("SequenceComplete", <<h>>, a, None) :
                                 h \in ObjRefs(c), a \in AuthAreas(c)}),
   IfCode("FlushContext", {Cmd("FlushContext", <<>>, <<>>, h) :
      h \in IF ClientMisuse THEN VHandles \cup SessHandles
            ELSE DOMAIN hmap[c] \cup Owned(c)}),
   IfCode("ContextSave", {Cmd("ContextSave", <<h>>, <<>>, None) :
                            h \in ObjRefs(c) \cup SessRefs(c)}),
   IfCode("ContextLoad", {Cmd("ContextLoad", <<>>, <<>>, b) : b \in Blobs(c)}),
   IfCode("GetCapability", {Cmd("GetCapability", <<>>, <<>>, r) :
                              r \in CapHandlesQueries \cup {OtherCapability}}) }

\* Outcomes of an AccessBroker call the RM makes on its own behalf: the set
\* of the candidates for which it succeeds.
BrokerSucceeds(S) == IF BrokerErrors THEN SUBSET S ELSE {S}
BrokerOk == IF BrokerErrors THEN BOOLEAN ELSE {TRUE}

FreeSessions == {h \in SessHandles : tpmSess[h] = "free"}

\* The sessions the command's authorisations flush on success.
Consumed == {cmd.auths[i].h : i \in {j \in DOMAIN cmd.auths : ~cmd.auths[j].cont}}

\* The TPM executes the command (as rewritten by the RM) successfully.
TpmAccepts ==
  /\ \A i \in DOMAIN cmd.hs :
       IF cmd.hs[i] \in VHandles THEN i \in subst
       ELSE tpmSess[cmd.hs[i]] = "loaded"
  /\ \A i \in DOMAIN cmd.auths : tpmSess[cmd.auths[i].h] = "loaded"
  /\ cmd.code = "StartAuthSession" => FreeSessions # {}
  /\ cmd.code = "ContextLoad" =>
       \/ cmd.arg = TransientCtx
       \/ cmd.arg \in issued /\ tpmSess[cmd.arg] = "saved"
  /\ cmd.code = "FlushContext" => tpmSess[cmd.arg] \in {"loaded", "saved"}
  /\ (cmd.code = "Load" \/ (cmd.code = "ContextLoad" /\ cmd.arg = TransientCtx)) => tpmObjs < TpmObjectSlots

\* An error response: the TPM's own, or the one the RM synthesises when
\* the AccessBroker reports a transport failure.
FailResponse == [ok |-> FALSE, handle |-> None]

\* Responses the TPM may give: [ok, handle in the response handle area].
TpmResponses ==
  LET fail == FailResponse
      good ==
        CASE cmd.code = "Load" \/ (cmd.code = "ContextLoad" /\ cmd.arg = TransientCtx) ->
               {[ok |-> TRUE, handle |-> Phys]}
          [] cmd.code = "StartAuthSession" ->
               {[ok |-> TRUE, handle |-> s] : s \in FreeSessions}
          [] cmd.code = "ContextLoad" -> {[ok |-> TRUE, handle |-> cmd.arg]}
          [] OTHER -> {[ok |-> TRUE, handle |-> None]}
  IN IF ~TpmAccepts THEN {fail}
     ELSE good \cup (IF TpmErrors \/ BrokerErrors THEN {fail} ELSE {})

\* What access_broker_send_command hands back for the TPM's response r:
\* r itself, or, with a faulty transport, a failure after the TPM has
\* already executed the command (the response is lost on the way back).
Delivered(r) == {r} \cup (IF BrokerErrors /\ r.ok THEN {FailResponse} ELSE {})

\* The TPM's state after it answered r.
TpmExecute(r) ==
  IF ~r.ok THEN UNCHANGED tpm
  ELSE
  /\ tpmSess' = [h \in SessHandles |->
       CASE h \in Consumed -> "gone"
         [] h = r.handle -> "loaded"
         [] cmd.code = "FlushContext" /\ h = cmd.arg -> "gone"
         [] cmd.code = "ContextSave" /\ h = cmd.hs[1] -> "saved"
         [] OTHER -> tpmSess[h]]
  /\ tpmObjs' = tpmObjs + (IF r.handle = Phys THEN 1 ELSE 0)
                        - (IF cmd.code \in FlushedCodes THEN Cardinality(subst) ELSE 0)

-----------------------------------------------------------------------------
(* The ResourceManager.                                                     *)

Init ==
  /\ live = Conns
  /\ hmap = [c \in Conns |-> EmptyMap]
  /\ vnext = [c \in Conns |-> 1]
  /\ active = [h \in {} |-> None]
  /\ abandoned = <<>>
  /\ issued = {}
  /\ tpmSess = [h \in SessHandles |-> "free"]
  /\ tpmObjs = 0
  /\ pc = "idle" /\ cur = None /\ cmd = NoCmd /\ idx = 1
  /\ subst = {} /\ slist = {} /\ resp = None
  /\ granted = {}

\* The worker starts on message m of connection c and goes to `phase`.
Begin(c, m, phase) ==
  /\ pc' = phase /\ cur' = c /\ cmd' = m
  /\ idx' = 1 /\ subst' = {} /\ slist' = {}

\* Where a command the RM does not answer itself continues.
ForwardPhase(m) == IF m.hs # <<>> THEN "handles"
                   ELSE IF m.auths # <<>> THEN "auths" ELSE "send"

\* resource_manager_quota_check, and the early response it causes.
QuotaExceeded(c, code) ==
  \/ code = "Load" /\ HandleMapIsFull(c)
  \/ code = "StartAuthSession" /\ SessionListIsFull(c)

QuotaCheckFails(c, m) ==
  /\ pc = "idle" /\ QuotaExceeded(c, m.code)
  /\ Begin(c, m, "finish") /\ resp' = None
  /\ UNCHANGED <<rm, tpm, granted>>

\* Commands with no special processing go on to the handle area.
ForwardCommand(c, m) ==
  /\ pc = "idle"
  /\ m.code \in {"Load", "StartAuthSession", "Use", "SequenceComplete"}
  /\ ~QuotaExceeded(c, m.code)
  /\ Begin(c, m, ForwardPhase(m)) /\ resp' = None
  /\ UNCHANGED <<rm, tpm, granted>>

\* Mutant: a session flush answered by the RM without reaching the TPM.
FlushContextLocal(c, m) ==
  /\ pc = "idle" /\ m.code = "FlushContext"
  /\ IF m.arg \in VHandles
     THEN /\ hmap' = [hmap EXCEPT ![c] = Forget(@, {m.arg})]
          /\ UNCHANGED <<active, abandoned, issued>>
     ELSE /\ SessionListRemoveHandle(m.arg) /\ UNCHANGED hmap
  /\ Begin(c, m, "finish") /\ resp' = None
  /\ UNCHANGED <<live, vnext, tpm, granted>>

\* resource_manager_flush_context: a transient is unmapped and answered
\* locally; a session is dropped from the SessionList and the command is
\* passed on to the TPM.
FlushContext(c, m) ==
  /\ pc = "idle" /\ m.code = "FlushContext"
  /\ IF m.arg \in VHandles
     THEN /\ hmap' = [hmap EXCEPT ![c] = Forget(@, {m.arg})]
          /\ Begin(c, m, "finish")
          /\ UNCHANGED <<active, abandoned, issued>>
     ELSE /\ SessionListRemoveHandle(m.arg)
          /\ Begin(c, m, ForwardPhase(m))
          /\ UNCHANGED hmap
  /\ resp' = None
  /\ UNCHANGED <<live, vnext, tpm, granted>>

\* resource_manager_save_context(_session): a session owned by the caller
\* becomes SAVED_CLIENT and the RM answers with its saved context; any
\* other handle goes to the TPM.
SaveContext(c, m) ==
  /\ pc = "idle" /\ m.code = "ContextSave"
  /\ LET h == m.hs[1] IN
     IF h \in DOMAIN active /\ active[h].conn = c
     THEN /\ active' = [active EXCEPT ![h].state = "SAVED_CLIENT"]
          /\ issued' = issued \cup {h}
          /\ Begin(c, m, "finish")
     ELSE /\ Begin(c, m, ForwardPhase(m))
          /\ UNCHANGED <<active, issued>>
  /\ resp' = None
  /\ UNCHANGED <<live, hmap, vnext, abandoned, tpm, granted>>

\* Mutant: the claimed entry keeps the closed connection as its owner.
ClaimedActiveKeepsOwner(h, c) ==
  active @@ (h :> [conn |-> Entry(h).conn, state |-> Entry(h).state])

\* session_list_claim: the abandoned entry, moved to the active list under
\* the claiming connection (the claim fails when it is not in the FIFO).
ClaimedActive(h, c) == active @@ (h :> [conn |-> c, state |-> Entry(h).state])
ClaimedAbandoned(h) == SelectSeq(abandoned, LAMBDA e : e.h # h)

\* Mutant: a claim that leaves the entry in the abandoned FIFO.
LoadContextClaimKeepsQueued(c, m) ==
  /\ pc = "idle" /\ m.code = "ContextLoad"
  /\ LET h == m.arg
         own == h \in issued /\ Entry(h).conn = c
         claim == h \in issued /\ Entry(h).conn # c /\ h \in AbandonedHandles
     IN IF own \/ claim
        THEN /\ active' = [(IF own THEN active ELSE ClaimedActive(h, c))
                              EXCEPT ![h].state = "SAVED_RM"]
             /\ Begin(c, m, "finish") /\ resp' = h
        ELSE /\ Begin(c, m, ForwardPhase(m)) /\ resp' = None
             /\ UNCHANGED active
  /\ UNCHANGED <<live, hmap, vnext, abandoned, issued, tpm, granted>>

\* Mutant: a claimed entry keeps state SAVED_CLIENT_CLOSED.
LoadContextClaimStaysClosed(c, m) ==
  /\ pc = "idle" /\ m.code = "ContextLoad"
  /\ LET h == m.arg
         own == h \in issued /\ Entry(h).conn = c
         claim == h \in issued /\ Entry(h).conn # c /\ h \in AbandonedHandles
     IN IF own \/ claim
        THEN /\ active' = IF own THEN [active EXCEPT ![h].state = "SAVED_RM"]
                          ELSE ClaimedActive(h, c)
             /\ abandoned' = IF own THEN abandoned ELSE ClaimedAbandoned(h)
             /\ Begin(c, m, "finish") /\ resp' = h
        ELSE /\ Begin(c, m, ForwardPhase(m)) /\ resp' = None
             /\ UNCHANGED <<active, abandoned>>
  /\ UNCHANGED <<live, hmap, vnext, issued, tpm, granted>>

\* resource_manager_load_context(_session): a context the RM issued is
\* answered locally when the caller owns it or claims it from the
\* abandoned FIFO, and the entry becomes SAVED_RM; otherwise the command
\* goes to the TPM.
LoadContext(c, m) ==
  /\ pc = "idle" /\ m.code = "ContextLoad"
  /\ LET h == m.arg
         own == h \in issued /\ Entry(h).conn = c
         claim == h \in issued /\ Entry(h).conn # c /\ h \in AbandonedHandles
     IN IF own \/ claim
        THEN /\ active' = [(IF own THEN active ELSE ClaimedActive(h, c))
                              EXCEPT ![h].state = "SAVED_RM"]
             /\ abandoned' = IF own THEN abandoned ELSE ClaimedAbandoned(h)
             /\ Begin(c, m, "finish") /\ resp' = h
        ELSE /\ Begin(c, m, ForwardPhase(m)) /\ resp' = None
             /\ UNCHANGED <<active, abandoned>>
  /\ UNCHANGED <<live, hmap, vnext, issued, tpm, granted>>

\* get_cap_handles and build_cap_handles_response, checked in GetCapHandles.
GC == INSTANCE GetCapHandles WITH
        keyList <- <<>>, prop <- 0, propCount <- 0,
        MaxVHandleOffset <- MaxVHandle, MaxPropCount <- MaxCapHandles + 1

\* The TPMS_CAPABILITY_DATA get_cap_handles fills from c's HandleMap keys
\* (handle_map_get_keys) for query q.
CapData(c, q) == GC!GetCapHandles(SetToSeq(DOMAIN hmap[c]), q.prop, q.count)

\* get_cap_handles_response: TPM2_CAP_HANDLES of the transient range is
\* answered from the caller's HandleMap without changing it; any other
\* query goes to the TPM.
GetCapability(c, m) ==
  /\ pc = "idle" /\ m.code = "GetCapability"
  /\ Begin(c, m, IF m.arg \in CapHandlesQueries THEN "finish" ELSE ForwardPhase(m))
  /\ resp' = None
  /\ UNCHANGED <<rm, tpm, granted>>

\* Advance through the handle area, then the auth area, then send.
NextPosition(area, after) ==
  IF idx < Len(area) THEN idx' = idx + 1 /\ pc' = pc
  ELSE idx' = 1 /\ pc' = after

AfterHandles == IF cmd.auths # <<>> THEN "auths" ELSE "send"

\* resource_manager_load_transient / virt_to_phys for one handle position.
LoadTransient ==
  /\ pc = "handles" /\ cmd.hs[idx] \in VHandles
  /\ LET h == cmd.hs[idx] IN
     IF h \notin DOMAIN hmap[cur]
     THEN UNCHANGED <<hmap, tpmObjs, subst, slist>>
     ELSE \E ok \in BrokerOk :
            IF ok /\ tpmObjs < TpmObjectSlots
            THEN /\ hmap' = [hmap EXCEPT ![cur][h] = TRUE]
                 /\ tpmObjs' = tpmObjs + 1
                 /\ subst' = subst \cup {idx}
                 /\ slist' = slist \cup {h}
            ELSE UNCHANGED <<hmap, tpmObjs, subst, slist>>
  /\ NextPosition(cmd.hs, AfterHandles)
  /\ UNCHANGED <<live, vnext, active, abandoned, issued, tpmSess, cur, cmd, resp, granted>>

\* resource_manager_load_session_from_handle: only a SAVED_RM session of
\* the caller is loaded; a failed load drops the entry; a session the
\* command will flush is dropped as soon as it is loaded.
LoadSessionFromHandle(c, h, willFlush) ==
  IF h \notin DOMAIN active \/ active[h].conn # c \/ active[h].state # "SAVED_RM"
  THEN UNCHANGED <<active, issued, tpmSess>>
  ELSE \E ok \in BrokerOk :
         IF ok /\ tpmSess[h] = "saved"
         THEN /\ tpmSess' = [tpmSess EXCEPT ![h] = "loaded"]
              /\ IF willFlush
                 THEN active' = Forget(active, {h}) /\ issued' = issued \ {h}
                 ELSE active' = [active EXCEPT ![h].state = "LOADED"] /\ UNCHANGED issued
         ELSE /\ active' = Forget(active, {h}) /\ issued' = issued \ {h}
              /\ UNCHANGED tpmSess

\* resource_manager_load_handles, session case (will_flush = FALSE).
LoadSessionHandle ==
  /\ pc = "handles" /\ cmd.hs[idx] \in SessHandles
  /\ LoadSessionFromHandle(cur, cmd.hs[idx], FALSE)
  /\ NextPosition(cmd.hs, AfterHandles)
  /\ UNCHANGED <<live, hmap, vnext, abandoned, tpmObjs, cur, cmd, subst, slist, resp, granted>>

\* resource_manager_load_auth_callback: will_flush = !continueSession.
LoadAuth ==
  /\ pc = "auths"
  /\ LoadSessionFromHandle(cur, cmd.auths[idx].h, ~cmd.auths[idx].cont)
  /\ NextPosition(cmd.auths, "send")
  /\ UNCHANGED <<live, hmap, vnext, abandoned, tpmObjs, cur, cmd, subst, slist, resp, granted>>

\* Mutant: the next vhandle is derived from the map's size, so a vhandle
\* freed by FlushContext is handed out again.
CreateContextMappingTransientReusing ==
  LET vh == Cardinality(DOMAIN hmap[cur]) + 1 IN
  /\ hmap' = [hmap EXCEPT ![cur] = @ @@ (vh :> TRUE)]
  /\ vnext' = [vnext EXCEPT ![cur] = @ + 1]
  /\ slist' = slist \cup {vh}
  /\ pc' = "finish"

\* Mutant: the new mapping is not put on the loaded-transients list.
CreateContextMappingTransientUnlisted ==
  LET vh == IF vnext[cur] <= MaxVHandle THEN vnext[cur] ELSE 0 IN
  IF vh = 0 THEN pc' = "rolled_over" /\ UNCHANGED <<hmap, vnext, slist>>
  ELSE /\ hmap' = [hmap EXCEPT ![cur] = @ @@ (vh :> TRUE)]
       /\ vnext' = [vnext EXCEPT ![cur] = @ + 1]
       /\ UNCHANGED slist
       /\ pc' = "finish"

\* handle_map_next_vhandle: the connection's counter, or 0 once it has
\* handed out its last vhandle.
HandleMapNextVhandle(c) == IF vnext[c] <= MaxVHandle THEN vnext[c] ELSE 0

\* create_context_mapping_transient: a new vhandle from the connection's
\* counter maps the returned phandle and joins the loaded-transients list;
\* a counter that rolled over (0) aborts the daemon with g_error, with the
\* new object resident in the TPM.
CreateContextMappingTransient ==
  LET vh == HandleMapNextVhandle(cur) IN
  IF vh = 0 THEN pc' = "rolled_over" /\ UNCHANGED <<hmap, vnext, slist>>
  ELSE /\ hmap' = [hmap EXCEPT ![cur] = @ @@ (vh :> TRUE)]
       /\ vnext' = [vnext EXCEPT ![cur] = @ + 1]
       /\ slist' = slist \cup {vh}
       /\ pc' = "finish"

\* create_context_mapping_session: an unknown session becomes a LOADED entry
\* of the caller; a known one is left as it is.
CreateContextMappingSession(h) ==
  IF h \in DOMAIN active THEN UNCHANGED active
  ELSE active' = active @@ (h :> [conn |-> cur, state |-> "LOADED"])

\* access_broker_send_command and resource_manager_create_context_mapping.
SendCommand ==
  /\ pc = "send"
  /\ \E tr \in TpmResponses : \E r \in Delivered(tr) :
       /\ TpmExecute(tr)
       /\ IF r.handle = Phys
          THEN CreateContextMappingTransient /\ UNCHANGED active
          ELSE /\ IF r.handle \in SessHandles
                  THEN CreateContextMappingSession(r.handle)
                  ELSE UNCHANGED active
               /\ UNCHANGED <<hmap, vnext, slist>>
               /\ pc' = "finish"
       /\ resp' = IF r.handle \in SessHandles THEN r.handle ELSE None
  /\ UNCHANGED <<live, abandoned, issued, cur, cmd, idx, subst, granted>>

\* Mutant: a session whose save fails is flushed but stays LOADED in the list.
SaveSessionsKeepsFailed ==
  LET loaded == {h \in DOMAIN active : active[h].state = "LOADED"} IN
  \E saved \in BrokerSucceeds({h \in loaded : tpmSess[h] = "loaded"}) :
  \E flushed \in BrokerSucceeds({h \in loaded \ saved : tpmSess[h] \in {"loaded", "saved"}}) :
    /\ active' = [h \in DOMAIN active |->
                    IF h \in saved THEN [active[h] EXCEPT !.state = "SAVED_RM"]
                    ELSE active[h]]
    /\ issued' = issued \ loaded
    /\ tpmSess' = [h \in SessHandles |->
                     IF h \in saved THEN "saved"
                     ELSE IF h \in flushed THEN "gone" ELSE tpmSess[h]]

\* resource_manager_save_session_context for every LOADED session: saved
\* ones become SAVED_RM, a failed save is flushed and dropped.
SaveSessions ==
  LET loaded == {h \in DOMAIN active : active[h].state = "LOADED"} IN
  \E saved \in BrokerSucceeds({h \in loaded : tpmSess[h] = "loaded"}) :
  \E flushed \in BrokerSucceeds({h \in loaded \ saved : tpmSess[h] \in {"loaded", "saved"}}) :
    /\ active' = [h \in DOMAIN active \ (loaded \ saved) |->
                    IF h \in saved THEN [active[h] EXCEPT !.state = "SAVED_RM"]
                    ELSE active[h]]
    /\ issued' = issued \ loaded
    /\ tpmSess' = [h \in SessHandles |->
                     IF h \in saved THEN "saved"
                     ELSE IF h \in flushed THEN "gone" ELSE tpmSess[h]]

\* resource_manager_flushsave_context over the loaded-transients list: a
\* resident entry whose saveflush succeeds gets phandle 0; a failed one
\* keeps its phandle (and the object stays in the TPM).
FlushsaveContexts ==
  \E done \in BrokerSucceeds({h \in slist : hmap[cur][h]}) :
    /\ hmap' = [hmap EXCEPT ![cur] =
                  [h \in DOMAIN @ |-> IF h \in done THEN FALSE ELSE @[h]]]
    /\ tpmObjs' = tpmObjs - Cardinality(done)

\* remove_entry_from_handle_map over the list: the TPM flushed them.
RemoveEntriesFromHandleMap ==
  /\ hmap' = [hmap EXCEPT ![cur] = Forget(@, slist)]
  /\ UNCHANGED tpmObjs

\* post_process_loaded_transients: the FLUSHED attribute of the command
\* code decides between dropping the entries and saving them.
PostProcessLoadedTransients ==
  IF cmd.code \in FlushedCodes THEN RemoveEntriesFromHandleMap ELSE FlushsaveContexts

\* The tail of resource_manager_process_tpm2_command: the response goes to
\* the sink, sessions are saved, loaded transients are saved or dropped.
SendResponse ==
  /\ pc = "finish"
  /\ granted' = IF resp \in SessHandles THEN granted \cup {<<cur, resp>>} ELSE granted
  /\ SaveSessions
  /\ PostProcessLoadedTransients
  /\ pc' = "idle" /\ cur' = None /\ cmd' = NoCmd /\ idx' = 1
  /\ subst' = {} /\ slist' = {} /\ resp' = None
  /\ UNCHANGED <<live, vnext, abandoned>>

\* flush_session_callback: access_broker_context_flush of each session the
\* prune evicts; a failed flush is only warned about.
FlushSessionCallback(evicted) ==
  \E flushed \in BrokerSucceeds({h \in evicted : tpmSess[h] \in {"loaded", "saved"}}) :
       tpmSess' = [h \in SessHandles |-> IF h \in flushed THEN "gone" ELSE tpmSess[h]]

\* Mutant: the evicted entries are flushed but the FIFO keeps one of them.
PruneAbandonedOffByOne(q) ==
  LET excess == IF Len(q) > MaxAbandoned THEN Len(q) - MaxAbandoned ELSE 0
      evicted == {q[i].h : i \in 1..excess}
  IN /\ FlushSessionCallback(evicted)
     /\ abandoned' = SubSeq(q, IF excess > 0 THEN excess ELSE 1, Len(q))
     /\ issued' = issued \ evicted

\* session_list_prune_abandoned (spec section 4.6): once the FIFO is longer
\* than MaxAbandoned it evicts from the head, calling flush_session_callback
\* on each evicted entry.
PruneAbandoned(q) ==
  LET excess == IF Len(q) > MaxAbandoned THEN Len(q) - MaxAbandoned ELSE 0
      evicted == {q[i].h : i \in 1..excess}
  IN /\ FlushSessionCallback(evicted)
     /\ abandoned' = SubSeq(q, excess + 1, Len(q))
     /\ issued' = issued \ evicted

\* Mutant: CONNECTION_REMOVED is passed to the sink without calling
\* resource_manager_remove_connection.
RemoveConnectionUnreaped(c) ==
  /\ pc = "idle"
  /\ live' = live \ {c}
  /\ UNCHANGED <<hmap, vnext, active, abandoned, issued, tpm, worker, granted>>

\* CONNECTION_REMOVED: resource_manager_remove_connection starts walking
\* the sessions of the closed connection.
RemoveConnection(c) ==
  /\ pc = "idle"
  /\ live' = live \ {c}
  /\ pc' = "reap" /\ cur' = c
  /\ UNCHANGED <<hmap, vnext, active, abandoned, issued, tpm, cmd, idx, subst, slist, resp, granted>>

\* Mutant: an abandoned entry keeps the state SAVED_CLIENT.
ConnectionCloseSessionUnmarked(h) ==
  /\ pc = "reap" /\ h \in Owned(cur)
  /\ CASE active[h].state = "SAVED_CLIENT" ->
           /\ active' = Forget(active, {h})
           /\ PruneAbandoned(Append(abandoned,
                  [h |-> h, conn |-> cur, state |-> "SAVED_CLIENT"]))
           /\ UNCHANGED pc
       [] active[h].state = "SAVED_RM" ->
           /\ \E ok \in BrokerOk :
                tpmSess' = IF ok /\ tpmSess[h] \in {"loaded", "saved"}
                           THEN [tpmSess EXCEPT ![h] = "gone"] ELSE tpmSess
           /\ active' = Forget(active, {h})
           /\ issued' = issued \ {h}
           /\ UNCHANGED <<abandoned, pc>>
       [] OTHER ->
           /\ pc' = "aborted"
           /\ UNCHANGED <<active, abandoned, issued, tpmSess>>
  /\ UNCHANGED <<live, hmap, vnext, tpmObjs, cur, cmd, idx, subst, slist, resp, granted>>

\* Mutant: the reaper walks every active session, not only the closed
\* connection's.
ConnectionCloseAnySession(h) ==
  /\ pc = "reap" /\ h \in DOMAIN active
  /\ CASE active[h].state = "SAVED_CLIENT" ->
           /\ active' = Forget(active, {h})
           /\ PruneAbandoned(Append(abandoned,
                  [h |-> h, conn |-> cur, state |-> "SAVED_CLIENT_CLOSED"]))
           /\ UNCHANGED pc
       [] active[h].state = "SAVED_RM" ->
           /\ \E ok \in BrokerOk :
                tpmSess' = IF ok /\ tpmSess[h] \in {"loaded", "saved"}
                           THEN [tpmSess EXCEPT ![h] = "gone"] ELSE tpmSess
           /\ active' = Forget(active, {h})
           /\ issued' = issued \ {h}
           /\ UNCHANGED <<abandoned, pc>>
       [] OTHER ->
           /\ pc' = "aborted"
           /\ UNCHANGED <<active, abandoned, issued, tpmSess>>
  /\ UNCHANGED <<live, hmap, vnext, tpmObjs, cur, cmd, idx, subst, slist, resp, granted>>

\* Mutant: session_list_abandon_handle queues the entry without taking it
\* off the active list.
ConnectionCloseSessionKeepsActive(h) ==
  /\ pc = "reap" /\ h \in Owned(cur)
  /\ CASE active[h].state = "SAVED_CLIENT" ->
           /\ PruneAbandoned(Append(abandoned,
                  [h |-> h, conn |-> cur, state |-> "SAVED_CLIENT_CLOSED"]))
           /\ UNCHANGED <<active, pc>>
       [] active[h].state = "SAVED_RM" ->
           /\ \E ok \in BrokerOk :
                tpmSess' = IF ok /\ tpmSess[h] \in {"loaded", "saved"}
                           THEN [tpmSess EXCEPT ![h] = "gone"] ELSE tpmSess
           /\ active' = Forget(active, {h})
           /\ issued' = issued \ {h}
           /\ UNCHANGED <<abandoned, pc>>
       [] OTHER ->
           /\ pc' = "aborted"
           /\ UNCHANGED <<active, abandoned, issued, tpmSess>>
  /\ UNCHANGED <<live, hmap, vnext, tpmObjs, cur, cmd, idx, subst, slist, resp, granted>>

\* connection_close_session_callback for one session of the closed
\* connection: SAVED_CLIENT is abandoned (then the FIFO is pruned),
\* SAVED_RM is flushed and dropped, any other state aborts the daemon.
ConnectionCloseSession(h) ==
  /\ pc = "reap" /\ h \in Owned(cur)
  /\ CASE active[h].state = "SAVED_CLIENT" ->
           /\ active' = Forget(active, {h})
           /\ PruneAbandoned(Append(abandoned,
                  [h |-> h, conn |-> cur, state |-> "SAVED_CLIENT_CLOSED"]))
           /\ UNCHANGED pc
       [] active[h].state = "SAVED_RM" ->
           /\ \E ok \in BrokerOk :
                tpmSess' = IF ok /\ tpmSess[h] \in {"loaded", "saved"}
                           THEN [tpmSess EXCEPT ![h] = "gone"] ELSE tpmSess
           /\ active' = Forget(active, {h})
           /\ issued' = issued \ {h}
           /\ UNCHANGED <<abandoned, pc>>
       [] OTHER ->
           /\ pc' = "aborted"
           /\ UNCHANGED <<active, abandoned, issued, tpmSess>>
  /\ UNCHANGED <<live, hmap, vnext, tpmObjs, cur, cmd, idx, subst, slist, resp, granted>>

\* The walk over the closed connection's sessions is over; the control
\* message goes to the sink.
RemoveConnectionDone ==
  /\ pc = "reap" /\ Owned(cur) = {}
  /\ pc' = "idle" /\ cur' = None
  /\ UNCHANGED <<rm, tpm, cmd, idx, subst, slist, resp, granted>>

\* CHECK_CANCEL: resource_manager_process_control returns FALSE and the
\* thread leaves its loop.
CheckCancel ==
  /\ pc = "idle" /\ pc' = "done"
  /\ UNCHANGED <<rm, tpm, cur, cmd, idx, subst, slist, resp, granted>>

\* The worker has exited (cancelled, or g_error aborted the daemon).
Exited == pc \in {"done", "aborted", "rolled_over"}
Stopped == Exited /\ UNCHANGED vars

\* resource_manager_thread: dequeue a message and dispatch it.
ProcessCommand(c, m) ==
  \/ QuotaCheckFails(c, m)
  \/ ForwardCommand(c, m)
  \/ FlushContext(c, m)
  \/ SaveContext(c, m)
  \/ LoadContext(c, m)
  \/ GetCapability(c, m)

Next ==
  \/ \E c \in live : \E m \in Commands(c) : ProcessCommand(c, m)
  \/ LoadTransient \/ LoadSessionHandle \/ LoadAuth
  \/ SendCommand \/ SendResponse
  \/ \E c \in live : RemoveConnection(c)
  \/ \E h \in SessHandles : ConnectionCloseSession(h)
  \/ RemoveConnectionDone
  \/ CheckCancel
  \/ Stopped

Spec == Init /\ [][Next]_vars

-----------------------------------------------------------------------------
(* Properties.                                                              *)

\* The state between two messages: the code's "quiescent boundary".
Quiescent == pc \in {"idle", "done"}

TypeOK ==
  /\ live \subseteq Conns
  /\ \A c \in Conns : DOMAIN hmap[c] \subseteq VHandles /\ hmap[c] \in [DOMAIN hmap[c] -> BOOLEAN]
  /\ vnext \in [Conns -> 1..MaxVHandle + 1]
  /\ DOMAIN active \subseteq SessHandles
  /\ \A h \in DOMAIN active : active[h] \in [conn : Conns, state : SessionStates]
  /\ abandoned \in Seq([h : SessHandles, conn : Conns, state : {"SAVED_CLIENT_CLOSED"}])
  /\ issued \subseteq SessHandles
  /\ tpmSess \in [SessHandles -> TpmSessionStates]
  /\ tpmObjs \in 0..TpmObjectSlots
  /\ pc \in Phases
  /\ cur \in Conns \cup {None}
  /\ subst \subseteq 1..MaxCmdHandles /\ slist \subseteq VHandles
  /\ resp \in SessHandles \cup {None}
  /\ granted \subseteq Conns \X SessHandles

\* SessionList shape (spec section 8): a session handle is in at most one
\* of the active list and the abandoned FIFO, at most once in the FIFO,
\* and the FIFO never holds more than MAX_ABANDONED entries -- through
\* abandon, prune, claim and remove_handle in any order.
SessionListWellFormed ==
  /\ DOMAIN active \cap AbandonedHandles = {}
  /\ IsInjective([i \in DOMAIN abandoned |-> abandoned[i].h])
  /\ Len(abandoned) <= MaxAbandoned

\* Between commands no SessionEntry is LOADED (spec section 8): the save
\* loop after every command saves it or drops it, whatever failed.
NoLoadedEntryAtBoundary ==
  Quiescent => \A h \in DOMAIN active : active[h].state # "LOADED"

\* Between commands every session the RM tracks is saved in the TPM: the
\* RM never keeps an entry for a session the TPM has flushed or still has
\* loaded, so a later context load of it cannot fail or double-load.
TrackedSessionsSavedInTpm ==
  Quiescent => \A h \in Tracked : tpmSess[h] = "saved"

\* Session isolation: a live connection that was handed a session handle
\* (StartAuthSession, ContextLoad) is the owner of that session while the
\* RM tracks it; no response gives one client another live client's session.
SessionIsolation ==
  \A g \in granted :
    (g[1] \in live /\ g[2] \in Tracked) => Entry(g[2]).conn = g[1]

\* The connection-close reaper never meets a LOADED or SAVED_CLIENT_CLOSED
\* session of the closing connection, so its g_error is unreachable.
ReaperNeverAborts == pc # "aborted"

\* Between commands the TPM holds nothing the RM does not account for: no
\* transient object is resident, no session is loaded, and every saved
\* session is tracked by the SessionList.
NoTpmLeakAtBoundary ==
  Quiescent =>
    /\ tpmObjs = 0
    /\ \A h \in SessHandles :
         /\ tpmSess[h] # "loaded"
         /\ tpmSess[h] = "saved" => h \in Tracked

\* Between commands every HandleMapEntry has phandle 0 (spec sections 8
\* and 9: save-or-remove runs on every path, error paths included).
NoResidentEntryAtBoundary ==
  Quiescent => \A c \in Conns : \A vh \in DOMAIN hmap[c] : ~hmap[c][vh]

\* get_cap_handles never writes past the end of the handle array of the
\* TPMS_CAPABILITY_DATA on its stack: the handles it collects for the
\* response being sent are at most TPM2_MAX_CAP_HANDLES, whatever
\* prop_count the client asked for and however the HandleMap grew.
CapDataInBounds ==
  (pc = "finish" /\ cmd.code = "GetCapability" /\ cmd.arg \in CapHandlesQueries)
    => Len(CapData(cur, cmd.arg).handles) <= MaxCapHandles

\* The refinement mapping onto VirtualTpm: a session's owner is its
\* SessionList entry's connection, or Abandoned while it sits in the
\* abandoned FIFO; a connection's objects are its HandleMap's vhandles and
\* the vhandles it was ever given are those below its counter.
AbandonedOwner == "abandoned"
SessionOwner(h) ==
  IF h \in DOMAIN active THEN active[h].conn
  ELSE IF h \in AbandonedHandles THEN AbandonedOwner ELSE None

VT == INSTANCE VirtualTpm WITH
        alive   <- live,
        owner   <- [h \in SessHandles |-> SessionOwner(h)],
        objects <- [c \in Conns |-> DOMAIN hmap[c]],
        named   <- [c \in Conns |-> 1..(vnext[c] - 1)],
        NoOwner <- None,
        Abandoned <- AbandonedOwner

\* The ResourceManager implements VirtualTpm: through every command, quota
\* refusal, claim, save failure and connection close, a vhandle a
\* connection was given (handle_map_next_vhandle) never names a second
\* object of it, a session moves to the abandoned FIFO only after its
\* owner disconnected (connection_close_session_callback), and it leaves
\* the FIFO only freed or claimed by a live connection (session_list_claim).
VirtualTpmRefined == VT!Spec

\* A step of the worker on behalf of connection c (the message it starts
\* or finishes) removes from the active session list only sessions that c
\* owns: no client can destroy another client's session.
OnlyOwnerRemovesSession ==
  [][\A h \in DOMAIN active \ DOMAIN active' : active[h].conn \in {cur, cur'}]_vars
=============================================================================
