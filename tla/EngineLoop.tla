------------------------------ MODULE EngineLoop ------------------------------
(***************************************************************************)
(* The ResourceManager's worker thread with its input queue: the           *)
(* composition of the engine of ResourceManager.tla with the producers of  *)
(* its messages.                                                           *)
(*                                                                         *)
(* resource_manager_thread blocks in message_queue_dequeue and handles one *)
(* message at a time: a Tpm2Command goes to                                *)
(* resource_manager_process_tpm2_command, a ControlMessage to              *)
(* resource_manager_process_control, where CONNECTION_REMOVED runs the     *)
(* connection-close reaper and CHECK_CANCEL ends the loop.  The queue has  *)
(* three kinds of producer: a connection's commands (enqueued through      *)
(* resource_manager_enqueue), the ConnectionManager's CONNECTION_REMOVED   *)
(* once that connection's socket is closed, and resource_manager_unblock's *)
(* CHECK_CANCEL.  A connection's commands and its CONNECTION_REMOVED come  *)
(* from the thread that reads its socket, so none of its commands is       *)
(* enqueued after its CONNECTION_REMOVED.                                  *)
(*                                                                         *)
(* Which command a queued message carries is chosen when the worker        *)
(* dequeues it, among the commands its connection could send (Commands of  *)
(* ResourceManager); the queue records only the kind and the connection.   *)
(***************************************************************************)
EXTENDS ResourceManager

CONSTANT
  MaxQueued   \* commands one connection may have waiting in the queue

ASSUME MaxQueued \in Nat \ {0}

VARIABLE
  queue       \* resmgr->in_queue: Seq of [type, conn]

engineVars == <<vars, queue>>

CommandMsg(c) == [type |-> "command", conn |-> c]
RemovedMsg(c) == [type |-> "removed", conn |-> c]
CancelMsg     == [type |-> "cancel", conn |-> None]

Queued(msg) == {i \in DOMAIN queue : queue[i] = msg}

\* The ConnectionManager has removed c: its CONNECTION_REMOVED is queued
\* or has been processed.
Disconnected(c) == c \notin live \/ Queued(RemovedMsg(c)) # {}

\* resource_manager_unblock has been called.
Unblocked == pc = "done" \/ Queued(CancelMsg) # {}

EngineInit == Init /\ queue = <<>>

-----------------------------------------------------------------------------
(* Producers.                                                              *)

\* message_queue_enqueue (message-queue.c): append to the tail.
Enqueue(msg) == queue' = Append(queue, msg)

\* resource_manager_enqueue: a connected client's command.
ClientSend(c) ==
  /\ ~Disconnected(c)
  /\ Cardinality(Queued(CommandMsg(c))) < MaxQueued
  /\ Enqueue(CommandMsg(c))
  /\ UNCHANGED vars

\* The ConnectionManager removes a connection whose socket was closed.
Disconnect(c) ==
  /\ ~Disconnected(c)
  /\ Enqueue(RemovedMsg(c))
  /\ UNCHANGED vars

\* resource_manager_unblock: enqueue CHECK_CANCEL.
Unblock ==
  /\ ~Unblocked
  /\ Enqueue(CancelMsg)
  /\ UNCHANGED vars

-----------------------------------------------------------------------------
(* The worker.                                                             *)

\* message_queue_dequeue (message-queue.c): remove the head.
Dequeue == queue' = Tail(queue)

\* resource_manager_thread: dequeue the head and dispatch on its type
\* (resource_manager_process_tpm2_command or
\* resource_manager_process_control).
Dispatch ==
  /\ pc = "idle" /\ queue # <<>>
  /\ LET msg == Head(queue) IN
     CASE msg.type = "command" ->
            \E m \in Commands(msg.conn) : ProcessCommand(msg.conn, m)
       [] msg.type = "removed" -> RemoveConnection(msg.conn)
       [] msg.type = "cancel" -> CheckCancel
  /\ Dequeue

\* Every later step of the message being handled; the queue is left alone.
Handle ==
  /\ \/ LoadTransient \/ LoadSessionHandle \/ LoadAuth
     \/ SendCommand \/ SendResponse
     \/ \E h \in SessHandles : ConnectionCloseSession(h)
     \/ RemoveConnectionDone
  /\ UNCHANGED queue

Worker == Dispatch \/ Handle

EngineNext ==
  \/ Worker
  \/ \E c \in Conns : ClientSend(c) \/ Disconnect(c)
  \/ Unblock
  \/ Stopped /\ UNCHANGED queue

\* The worker is a dedicated thread that runs whenever it has a message,
\* and every AccessBroker call it makes returns: it is weakly fair.  The
\* producers are clients and the daemon's shutdown path: no fairness.
EngineSpec == EngineInit /\ [][EngineNext]_engineVars /\ WF_engineVars(Worker)

-----------------------------------------------------------------------------
(* Properties.                                                              *)

\* Once the reaper is done with a closed connection, that connection owns
\* no session: no command of it is dequeued after its CONNECTION_REMOVED
\* (which would create or load a session for a connection nobody will
\* reap again) and the reaper left none of its sessions in the list.
ClosedConnectionReleased ==
  \A c \in Conns \ live : (pc = "reap" /\ cur = c) \/ Owned(c) = {}

\* Every connection that disconnects is eventually reaped, however many
\* commands the other clients keep queueing, unless the worker stopped
\* first (a CHECK_CANCEL queued ahead of its CONNECTION_REMOVED ends the
\* loop and the messages behind it are never handled; a g_error ends the
\* daemon).
DisconnectedEventuallyReleased ==
  \A c \in Conns :
    Disconnected(c) ~> ((c \notin live /\ Owned(c) = {}) \/ Exited)
=============================================================================
