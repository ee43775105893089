------------------------------ MODULE VirtualTpm ------------------------------
(***************************************************************************)
(* What the ResourceManager promises the clients it multiplexes onto one   *)
(* TPM, stated without the TPM, the saved contexts or the worker's phases: *)
(*                                                                         *)
(*  - each connection sees its own transient objects, named by vhandles;   *)
(*    a vhandle, once handed out, never names a second object of that      *)
(*    connection (spec section 8, "vhandle assignment is stable");         *)
(*  - a session belongs to the connection that created it; it changes      *)
(*    hands only by being abandoned when its owner has disconnected and    *)
(*    then claimed by a connection that is still there; it may be freed.   *)
(*                                                                         *)
(* ResourceManager.tla refines this module (VirtualTpmRefined there).      *)
(***************************************************************************)
CONSTANTS
  Conns,        \* client connections
  SessHandles,  \* session handles
  VHandles,     \* vhandles a connection can be given
  NoOwner,      \* owner of a session nobody holds
  Abandoned     \* owner of a session whose owner left it to be claimed

ASSUME {NoOwner, Abandoned} \cap Conns = {} /\ NoOwner # Abandoned

VARIABLES
  alive,    \* connections that have not disconnected
  owner,    \* owner[h]: a connection, Abandoned or NoOwner
  objects,  \* objects[c]: vhandles of c's objects that exist now
  named     \* named[c]: every vhandle c has ever been given

vars == <<alive, owner, objects, named>>

Init ==
  /\ alive = Conns
  /\ owner = [h \in SessHandles |-> NoOwner]
  /\ objects = [c \in Conns |-> {}]
  /\ named = [c \in Conns |-> {}]

\* A live connection gets a new object under a vhandle it never had.
NewObject(c, v) ==
  /\ c \in alive /\ v \notin named[c]
  /\ objects' = [objects EXCEPT ![c] = @ \cup {v}]
  /\ named' = [named EXCEPT ![c] = @ \cup {v}]
  /\ UNCHANGED <<alive, owner>>

\* A live connection starts a session nobody holds.
NewSession(c, h) ==
  /\ c \in alive /\ owner[h] = NoOwner
  /\ owner' = [owner EXCEPT ![h] = c]
  /\ UNCHANGED <<alive, objects, named>>

\* Some of c's objects cease to exist and some sessions are freed.
Retire(c, S, T) ==
  /\ S \subseteq objects[c]
  /\ objects' = [objects EXCEPT ![c] = @ \ S]
  /\ owner' = [h \in SessHandles |-> IF h \in T THEN NoOwner ELSE owner[h]]
  /\ UNCHANGED <<alive, named>>

\* A connection disconnects.
Close(c) ==
  /\ c \in alive
  /\ alive' = alive \ {c}
  /\ UNCHANGED <<owner, objects, named>>

\* A session of a disconnected connection is left to be claimed; sessions
\* abandoned earlier (the set T) may be freed in the same step.
Abandon(c, h, T) ==
  /\ c \notin alive /\ owner[h] = c
  /\ T \subseteq {g \in SessHandles : owner[g] = Abandoned}
  /\ owner' = [g \in SessHandles |->
                 IF g = h THEN Abandoned ELSE IF g \in T THEN NoOwner ELSE owner[g]]
  /\ UNCHANGED <<alive, objects, named>>

\* A live connection takes over an abandoned session.
Claim(c, h) ==
  /\ c \in alive /\ owner[h] = Abandoned
  /\ owner' = [owner EXCEPT ![h] = c]
  /\ UNCHANGED <<alive, objects, named>>

Next ==
  \E c \in Conns :
    \/ \E v \in VHandles : NewObject(c, v)
    \/ \E h \in SessHandles : NewSession(c, h) \/ Claim(c, h)
    \/ \E h \in SessHandles, T \in SUBSET SessHandles : Abandon(c, h, T)
    \/ \E S \in SUBSET VHandles, T \in SUBSET SessHandles : Retire(c, S, T)
    \/ Close(c)

Spec == Init /\ [][Next]_vars
=============================================================================
