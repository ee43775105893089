# TLA+ models of the tpm2-abrmd ResourceManager

These modules model `src/src/resource-manager.c`, the command/response
engine of the TPM2 access broker and resource manager daemon.
`spec.md` describes the same component.

## The system

The ResourceManager (RM) sits between many client connections and one TPM.
A single worker thread (`resource_manager_thread`) dequeues messages.
A message is either a TPM command of some connection or a control message
(`CONNECTION_REMOVED`, `CHECK_CANCEL`). The worker handles each message to
completion.

| Part | Code | State | Operations |
|---|---|---|---|
| Dispatcher | `resource_manager_process_tpm2_command` | the per-command loaded-transients list | quota check, special processing, handle-area load, auth-area load, send, context mapping, session save loop, transient post-processing |
| Quota enforcer | `resource_manager_quota_check` | none (reads the maps) | reject Load/CreatePrimary/LoadExternal on a full HandleMap, StartAuthSession on a full session quota |
| Special commands | `flush_context`, `save_context(_session)`, `load_context(_session)`, `get_cap_handles_response` | SessionList, HandleMap | answer locally or fall through to the TPM |
| HandleMap (per connection, `handle-map.c`) | not in this tree | vhandle → entry with phandle (0 = not resident), the vhandle counter | insert, remove, lookup, is_full, next_vhandle |
| SessionList (`session-list.c`) | not in this tree | active entries `[connection, state]`, abandoned FIFO | lookup, insert, remove, is_full, abandon, prune, claim |
| Reaper | `process_control`, `remove_connection`, `connection_close_session_callback`, `flush_session_callback` | SessionList | per session of a closed connection: abandon (SAVED_CLIENT), flush and drop (SAVED_RM), or abort |
| AccessBroker + TPM | outside the RM | resident objects and sessions | send, context load/save/saveflush/flush; each call may fail |

How the parts interact:

- A command's vhandles are loaded into the TPM before it is sent.
- Its sessions are loaded only if they are SAVED_RM and owned by the caller.
- After the response, every LOADED session is saved, and every loaded
  transient is saveflushed, or dropped when the command code has the
  FLUSHED attribute.
- Sessions move between connections only through the abandoned FIFO:
  1. a client does ContextSave, so the session is SAVED_CLIENT;
  2. the client disconnects, so the session is SAVED_CLIENT_CLOSED and in
     the FIFO;
  3. another client does ContextLoad with the same bytes and claims it.

What is hard here:

- Sequences of commands from several connections interleaved with
  disconnects, so that a session is abandoned, claimed, pruned and flushed
  in many orders.
- Failures of any of the RM's own AccessBroker calls, halfway through a
  command's post-processing, and a forwarded command whose response is lost
  after the TPM executed it.
- TPM rejections that leave objects and sessions resident in the TPM while
  the RM's bookkeeping has already moved on.
- Clients naming handles and contexts they do not own.

## Modules

### `ResourceManager.tla`

This module models the RM engine, with the TPM and the clients as its
environment.

- **Worker phases.** `pc` follows the phases of
  `resource_manager_process_tpm2_command` in code order:
  `idle → handles → auths → send → finish → idle`.
  - `reap` is the connection-close walk.
  - `done` is after `CHECK_CANCEL`.
  - `rolled_over` is the `g_error` when the vhandle counter runs out (line 1043).
  - `aborted` is the reaper's `g_error`.

  One step is one handle or auth position, or one whole phase. Nothing
  else runs concurrently with the worker, so finer steps would add no
  behaviours.
- **Dispatch at `idle`.** `ProcessCommand(c, m)` takes any command of any
  live connection. Each disjunct is one branch of the dispatcher:
  - `QuotaCheckFails`
  - `ForwardCommand`: no special processing
  - `FlushContext`
  - `SaveContext`
  - `LoadContext`, including the claim
  - `GetCapability`
- **Actions for the later phases.**

  | Action | Code |
  |---|---|
  | `LoadTransient` | `load_transient` and `virt_to_phys` |
  | `LoadSessionHandle`, `LoadAuth` | `load_session_from_handle`, with `will_flush` from continueSession |
  | `SendCommand` | the send, then `create_context_mapping` |
  | `SendResponse` | sink enqueue, then the session save loop (`SaveSessions`), then `post_process_loaded_transients` |

  `SendResponse` is one action because the code always runs the three
  steps together.
- **Reaper and shutdown.**
  - `RemoveConnection` starts the walk.
  - `ConnectionCloseSession(h)` handles one session of the closing
    connection.
  - `RemoveConnectionDone` ends the walk.
  - `CheckCancel` handles `CHECK_CANCEL`.
  - `Stopped` is the exited thread.
- **State.**
  - `hmap[c]`: c's HandleMap, mapping vhandle → "phandle ≠ 0".
  - `vnext[c]`: c's vhandle counter.
  - `active`: the session list.
  - `abandoned`: the FIFO.
  - `issued`: the sessions whose context bytes, as held by a client, equal
    the RM's current saved context. The RM finds a ContextLoad body by
    exact byte match, so a blob stops matching once the RM saves the
    session again.
  - `tpmSess`, `tpmObjs`: the TPM.
  - `granted`: a history of which connection received which session handle.
- **Environment switches.**
  - `ClientMisuse`: clients may name foreign handles and blobs, and send
    ContextLoad bodies that do not unmarshal.
  - `DupHandles`: one vhandle may appear twice in a handle area.
  - `TpmErrors`: the TPM may reject a well-formed command.
  - `BrokerErrors`: any AccessBroker call the RM makes on its own behalf
    may fail. A forwarded command may also fail after the TPM has executed
    it (`Delivered`): the TPM's state moves on while the RM sees only the
    error it synthesises at line 1229.
- **Command set.** `Codes` picks which command codes clients use. The
  members are Load (standing for CreatePrimary/LoadExternal too),
  StartAuthSession, a generic Use command, SequenceComplete (the FLUSHED
  attribute), FlushContext, ContextSave, ContextLoad and GetCapability.
- **GetCapability.** A GetCapability(HANDLES) query of the transient range
  starts at the first vhandle. It asks either for `MaxCapHandles` handles
  (TPM2_MAX_CAP_HANDLES, the length of the handle array) or for one more.
  `prop_count` is a client-supplied UINT32 that nothing clamps. Any other
  query is `OtherCapability` and goes to the TPM.
  - `GC` instantiates `GetCapHandles`, and `CapData` runs its
    `get_cap_handles` on the caller's HandleMap.
  - `CapDataInBounds` bounds what that call writes into the handle array.

### `GetCapHandles.tla`

This module models `GetCapability(TPM2_CAP_HANDLES)` on the transient
range as pure operators:

- `HandleCompare` models `handle_compare`.
- `VhandleIteratorCallback` models `vhandle_iterator_callback`.
- `GetCapHandles` models `get_cap_handles`: a fold over the keys sorted
  with `HandleCompare`.
- `BuildCapHandlesResponse` models the `*_SET` macros and `CAP_RESP_SIZE`,
  down to the big-endian bytes.

Two reference definitions check them:

- `ExpectedHandles`, the TPM2 definition of the query.
- `ParseCapHandles`, a client's unmarshalling of the response.

The "state" is one input `(keyList, prop, propCount)`, fixed by Init. The
keys come in every hash-table order.

### `VirtualTpm.tla`

This is the abstract specification of what the RM promises each connection.
It has no TPM, no saved contexts and no worker phases.

- `objects[c]`: the vhandles of c's objects that exist now.
- `named[c]`: every vhandle c was ever given. `NewObject` needs a vhandle
  not in it, so a vhandle never names a second object (spec §8, "vhandle
  assignment is stable").
- `owner[h]`: a connection, `Abandoned`, or `NoOwner`.
  - `NewSession` and `Claim` need a live connection.
  - `Abandon` needs the owner to have disconnected.
  - `Retire` frees objects and sessions.
  - No action moves a session from one connection straight to another.

`ResourceManager` refines it. `VT == INSTANCE VirtualTpm WITH ...` maps:

- `alive` to `live`;
- `owner` to the entry's connection, or `Abandoned` while the session is in
  the FIFO;
- `objects` to the HandleMap's domain;
- `named` to `1..vnext[c]-1`.

The run checks `VirtualTpmRefined == VT!Spec` as a PROPERTY. It does not
say *who* may free a session; `OnlyOwnerRemovesSession` says that.

### `EngineLoop.tla`

This module composes the engine with its input queue and the queue's
producers. It `EXTENDS ResourceManager` and adds `queue`, a FIFO of
`[type, conn]`.

- **Producers.** They have no fairness.
  - `ClientSend(c)` models `resource_manager_enqueue`. At most `MaxQueued`
    of c's commands wait at once.
  - `Disconnect(c)` is the ConnectionManager's `CONNECTION_REMOVED`.
  - `Unblock` models `resource_manager_unblock`'s `CHECK_CANCEL`.

  A connection's commands and its `CONNECTION_REMOVED` are enqueued by the
  thread that reads its socket. So nothing of c is enqueued after its
  removal.
- **Worker.** `Dispatch` models `resource_manager_thread`: it dequeues the
  head and runs `ProcessCommand`, `RemoveConnection` or `CheckCancel`.
  `Handle` is every later step of the message, with the queue unchanged.
- **Message contents.** A queued command records only its connection. The
  command itself is picked from `Commands(c)` when it is dequeued. A
  client's own state changes only through its own commands, so this loses
  nothing for the properties checked here. It does drop the race where
  another client claims an abandoned blob between the enqueue and the
  dequeue; the `claim_isolation` run covers what that race leads to.

### `MC_ResourceManager.tla`, `MC_EngineLoop.tla`

`MC_ResourceManager` adds the symmetry set for the model-value connections
and session handles. Symmetry is sound because no definition distinguishes
two connections or two session handles. `MC_EngineLoop` declares no
symmetry, because its run checks liveness.

## Runs

| Run | Switches, bounds | Checks | Result |
|---|---|---|---|
| `ideal` | none on, all codes; 3 session handles, session quota 2, MAX_ABANDONED 2 | `SessionListWellFormed`, `NoResidentEntryAtBoundary`, `NoTpmLeakAtBoundary`, `VirtualTpmRefined`, `OnlyOwnerRemovesSession` | pass, 1.64M states, about 2 min |
| `faults` | TpmErrors, BrokerErrors (lost responses included), 1 handle per command | `SessionIsolation`, `TypeOK`, `NoLoadedEntryAtBoundary`, `TrackedSessionsSavedInTpm` | pass, 3.37M states |
| `engine` | EngineLoop; StartAuthSession, FlushContext, ContextSave, ContextLoad; one queued command per client | `ClosedConnectionReleased`, `DisconnectedEventuallyReleased` (liveness) | pass, 1.19M states |
| `misuse` | ClientMisuse, 1 session handle | `ReaperNeverAborts` | pass, 596k states |
| `cap_handles` | maps of ≤ 5 vhandles in every order, prop ≤ 5, count ≤ 6 | `GetCapHandlesCorrect`, `CapResponseRoundTrip` | pass |
| `auth_flush_leak` | TpmErrors; StartAuthSession, Use | `NoTpmLeakAtBoundary` | violation |
| `flushed_attr_leak` | TpmErrors; Load, SequenceComplete | `NoTpmLeakAtBoundary` | violation |
| `dup_handle_leak` | DupHandles; Load, Use | `NoTpmLeakAtBoundary` | violation |
| `claim_isolation` | ClientMisuse; sessions only | `SessionIsolation` | violation |
| `cap_overflow` | Load, StartAuthSession, ContextSave, ContextLoad, GetCapability; TransientMax 1 < MaxCapHandles 2 < MaxVHandle 3 | `CapDataInBounds` | violation |
| `saveflush_failure` | BrokerErrors; Load, Use | `NoResidentEntryAtBoundary` | violation |
| `foreign_session_flush` | ClientMisuse; StartAuthSession, FlushContext | `OnlyOwnerRemovesSession` | violation |

Each property of a passing run has a mutant in `PROJECT.json`. A mutant is
a one-line-sized change of a mapped definition that models a plausible
coding slip, and the run's cfg finds the property violated under it. The
mutants:

- the spec's own proposal (§9) not to forward session flushes;
- a dropped slist prepend;
- a reaper without its connection filter;
- a claim that keeps the owner, keeps the entry queued, or keeps the state
  SAVED_CLIENT_CLOSED;
- an abandon without the state change;
- a failed session save that keeps the entry;
- an off-by-one in the prune (breaks `TrackedSessionsSavedInTpm`);
- `<=` for `<` in the iterator;
- a missing `htobe32`;
- a vhandle derived from the map's size, so a flushed vhandle is reused;
- `CONNECTION_REMOVED` handled without `remove_connection`;
- an abandon that leaves the entry on the active list, so the reaper walk
  never ends.

### What the violations show (see `findings`)

1. **`auth_flush_leak`.** An auth session with continueSession clear is
   removed from the SessionList as soon as it is loaded
   (`load_session_from_handle`, line 205). If the TPM then rejects the
   command, the session stays loaded in the TPM and nothing tracks it.
2. **`flushed_attr_leak`.** `post_process_loaded_transients` trusts the
   command code's FLUSHED attribute even when the command failed. The
   object is unmapped but still resident.
3. **`dup_handle_leak`.** The same vhandle twice in one handle area loads
   two TPM copies. The second phandle overwrites the first, and only one
   copy is saveflushed.
4. **`claim_isolation`.** A ContextLoad of another live client's session
   fails the claim and falls through to the TPM. The TPM loads the session
   for the caller. The spec asks for access-denied.
5. **`cap_overflow`.** This is a stack buffer overflow.
   - ContextLoad of a transient context is not quota-checked (line 695).
     One client loads the same saved object context again and again, and
     each load maps a new vhandle. The HandleMap grows past §8's
     per-connection cap.
   - `get_cap_handles` copies up to `prop_count` handles into the fixed
     `handle[TPM2_MAX_CAP_HANDLES]` array of a `TPMS_CAPABILITY_DATA` on
     `get_cap_handles_response`'s stack. It never clamps `prop_count`
     (line 827). The quota was the only thing that kept a map shorter
     than the array.
   - TLC's trace: a Load, then two ContextLoads of a transient context
     (three map entries with MaxVHandle 3), then a GetCapability(HANDLES)
     with `prop_count` 3. It writes three
     handles into an array of two.
   - The bounds keep the daemon's order: the quota (at most 100) is below
     the array (254), which is below the vhandle counter's range (2^24).
     `ResourceManager` assumes `TransientMax < MaxCapHandles`, so no
     overflow happens while the quota holds.
   - Session claims also skip `session_list_is_full`. This run does not
     show that.
6. **`saveflush_failure`.** A failed saveflush leaves `phandle ≠ 0` at the
   boundary, contrary to §3 and §9.
7. **`foreign_session_flush`.** FlushContext of a session checks no owner.

The passing runs establish the following:

- Under any failure of the RM's own broker calls, the session save loop
  and the reaper leave every tracked session saved in the TPM, and none
  LOADED. This holds too when a forwarded command's response is lost after
  the TPM executed it: sessions the command consumed were already dropped
  from the SessionList when loaded, and a continued one is still loaded
  and is saved by the loop. What the lost response leaks is what the TPM
  created (a started session, a loaded object): the RM never maps it and
  nothing flushes it later. The spec has transport failures forwarded
  verbatim, so no property claims otherwise.
- No ownership transfer other than the failed-claim fall-through hands a
  session to the wrong live client.
- `SessionListWellFormed` (`ideal`): the SessionList keeps each handle in
  one collection, at most once in the FIFO, and the FIFO within
  MAX_ABANDONED, while three sessions over two connections are abandoned
  into a FIFO of two, pruned and claimed. It is checked in `ideal` and not
  in `misuse`: with the single session handle of `misuse` the FIFO never
  holds two entries.
- The eviction order itself (oldest first, spec §4.6) is decided in
  `session-list.c`, which is not in this tree. `PruneAbandoned` takes it
  from the spec and is marked `spec_modelled`. Its flush of each evicted
  session, `FlushSessionCallback`, is this file's code. No property checks
  the order, because no line of this tree decides it.
- The reaper's `g_error` is unreachable from any sequence of client
  commands, misuse included.

The `engine` run adds two results:

- `ClosedConnectionReleased`: no command of a connection runs after its
  `CONNECTION_REMOVED`, so no session is created or loaded for a reaped
  connection. This holds because the queue is FIFO and a connection's
  removal is enqueued after its commands. With a LIFO queue, TLC finds
  StartAuthSession run for a connection that was already reaped.
- `DisconnectedEventuallyReleased`: every disconnected connection is
  eventually reaped, however busy the other clients keep the queue, unless
  the worker stopped first. The exception is real. TLC shows that without
  the "stopped" disjunct the property fails. A `CHECK_CANCEL` queued ahead
  of a `CONNECTION_REMOVED` ends the loop, and that client's sessions stay
  saved in the TPM. This is listed as a hazard.

The `FlushContextLocal` mutant shows that the spec's proposed change (§9:
do not forward session flushes) would leave the session's saved context in
the TPM forever.

## Bounds and why they suffice

The bounds:

- two connections;
- two session handles (one in `misuse`, three in `ideal`);
- two vhandles per connection;
- quotas of one transient and one session (two sessions in `ideal`);
- MAX_ABANDONED = 1 (2 in `ideal`);
- TPM2_MAX_CAP_HANDLES = 2 (`MaxCapHandles`), one more than the transient
  quota;
- at most two handles per command;
- two TPM object slots.

Why they are enough:

- Every finding needs two connections and at most two sessions or objects.
- Quotas of 1 make the quota boundary reachable in two commands.
- MAX_ABANDONED = 1 makes the prune evict on the second abandon. In
  `ideal`, one client abandons two sessions and the other a third, so the
  prune evicts from a FIFO of two, so a FIFO with two distinct entries is
  reached and `SessionListWellFormed` has something to check.
- Two object slots let a command hold a loaded object and a newly created
  one at once.

Further limits:

- Session handles are never reused: each StartAuthSession takes a `free`
  handle. This keeps the state space finite and matches the TPM's handle
  allocation closely enough for the properties, which are about one
  session's bookkeeping.
- `MaxVHandle` stands for the range of the vhandle counter. Clients keep
  creating objects past it. The next creation then finds
  `handle_map_next_vhandle` returning 0, and the worker ends in the
  terminal phase `rolled_over` (the `g_error` at line 1043). The real
  counter rolls over only after about 2^24 creations on one connection.
  - The abort is reachable in every run, from a single client.
  - The spec (§2, §7) calls rollover a fatal invariant violation, and the
    code does what the spec says. So it is a hazard, not a finding.
  - If the check were missing, a wrapped counter would hand out vhandle 1
    again. `VirtualTpmRefined` catches that: it was checked with the
    counter wrapping to 1, and TLC reports the refinement violated after
    three Loads.

In `engine`:

- two connections, each with at most one command waiting (`MaxQueued = 1`);
- two session handles;
- the session commands only. The object commands are checked in the
  other runs, and with them the run takes over four minutes.

A connection can still queue a command, have it dequeued, and queue the
next one behind other connections' messages and its own removal. Both the
`CHECK_CANCEL`-first and the removal-first orders are reached.

## Fairness

`EngineSpec` assumes `WF_engineVars(Worker)`. The reasons:

- `resource_manager_thread` is a dedicated thread. It is blocked only in
  `message_queue_dequeue` on an empty queue, or inside AccessBroker calls.
- Every AccessBroker call returns. A hung TPM is outside the model.

Clients, the ConnectionManager and `unblock` get no fairness: they may
never send again. The `ResourceManager`-only runs check no liveness and
assume no fairness. The daemon legitimately stops after `CHECK_CANCEL`,
modelled as the stuttering `Stopped`. So does a `g_error`: the reaper's
(`aborted`) and the vhandle rollover (`rolled_over`). Deadlock checking is on in every run:
in every other state some step is enabled.

## Not modelled

- **The input queue in the `ResourceManager` runs.** It is a
  nondeterministic choice of the next message. `EngineLoop` models the real
  FIFO, but only for the session commands (see Bounds).
- **The double listing of a new transient.** `create_context_mapping_transient`
  prepends the new entry to the loaded-transients list twice. A failed
  saveflush is therefore retried once, and the second attempt on a saved
  entry skips it (phandle 0). The model saveflushes each entry once, and
  each attempt succeeds or fails. The outcomes are the same either way.
- **Context bytes, sequence numbers, and the TPM's context gap.**
- **Response codes and error wording.**
- **GObject plumbing and logging.**
- **HandleMap and SessionList internals.** `handle-map.c` and
  `session-list.c` are not in this tree. The operations the RM calls are
  modelled from spec §3–4 and marked `spec_modelled` in the map.
- **Recovery from a lost response.** After a lost response, the object
  or session the TPM created is never mapped or flushed (see Runs). The
  model keeps this leak but states no property about it, because the code
  has no recovery to check.
- **The unmarshal failure of a ContextLoad body.** It is modelled only as a
  forwarded malformed blob.

## Plan for later work

1. **The ContextSave → ContextLoad round-trip law of spec §8 as a
   property of its own.** The variable `issued` holds the sessions whose
   client-held blob is the current one. A ContextLoad of such a blob by its
   owner is answered locally by `LoadContext`'s own-session branch, so the
   law reduces to "an issued session stays tracked, saved in the TPM and
   owned by its client until that client acts on it". Every action that
   drops an entry also drops it from `issued`, and the rest is
   `TrackedSessionsSavedInTpm` and `SessionIsolation`. A separate
   property would hold by the shape of the model. A real test of the law
   needs a history of the blob bytes, which the model abstracts away.
2. **Object commands in `EngineLoop`.** They need a smaller instance of the
   rest of the engine.
3. **The session half of the quota gap.** `session_list_claim` hands an
   abandoned session to a connection without `session_list_is_full`. The
   model has this path, but showing it takes a violation run of its own,
   and all twelve run slots are in use.
4. **The close-time flush failure (line 1617).** The spec sanctions the
   resulting leak. A property that states it would need `BrokerErrors`
   with `NoTpmLeakAtBoundary`, and the save-loop failure violates that
   first.
