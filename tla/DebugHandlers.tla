---------------------------- MODULE DebugHandlers ----------------------------
(***************************************************************************)
(* What another plugin expects of sceSysconSetDebugHandlers, whether or    *)
(* not MacroFire sits in between: a call makes its argument the owner of   *)
(* the debug handlers before it returns, nothing but a call changes the    *)
(* owner, and at each moment of a packet the owner's handler is called: at *)
(* the moments in Sure for certain, at others perhaps.                     *)
(***************************************************************************)
CONSTANTS
  Plugins, None,
  Moments,    \* when handlers are called for a packet
  Sure        \* those at which the owner can count on it

VARIABLES
  owner,      \* the plugin whose handlers the kernel is to call, or None
  call,       \* call[p]: is p inside a call?
  request,    \* request[p]: the argument of p's latest call
  lastCalled  \* the latest moment of a packet, and whose handler was called

vars == <<owner, call, request, lastCalled>>

Init ==
  /\ owner = None
  /\ call = [p \in Plugins |-> FALSE]
  /\ request = [p \in Plugins |-> None]
  /\ lastCalled \in [at : Moments, handlers : {None}]

Begin(p, h) ==
  /\ ~call[p]
  /\ call' = [call EXCEPT ![p] = TRUE]
  /\ request' = [request EXCEPT ![p] = h]
  /\ UNCHANGED <<owner, lastCalled>>

TakeEffect(p) ==
  /\ call[p]
  /\ owner' = request[p]
  /\ UNCHANGED <<call, request, lastCalled>>

Return(p) ==
  /\ call[p]
  /\ owner' = request[p]
  /\ call' = [call EXCEPT ![p] = FALSE]
  /\ UNCHANGED <<request, lastCalled>>

Deliver(moment) ==
  /\ \E h \in IF moment \in Sure THEN {owner} ELSE {owner, None} :
       lastCalled' = [at |-> moment, handlers |-> h]
  /\ UNCHANGED <<owner, call, request>>

Next ==
  \/ \E p \in Plugins :
       \/ \E h \in {p, None} : Begin(p, h)
       \/ TakeEffect(p)
       \/ Return(p)
  \/ \E moment \in Moments : Deliver(moment)

Spec == Init /\ [][Next]_vars
=============================================================================
