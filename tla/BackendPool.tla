---------------------------- MODULE BackendPool ----------------------------
(***************************************************************************)
(* What the load balancer promises, without its vector and its cursor: the *)
(* healthy backends form a set, and a pick returns a healthy backend that  *)
(* the current round has not returned yet.  A round ends when every        *)
(* healthy backend was picked once, and starts afresh when the set of      *)
(* healthy backends changes.                                               *)
(***************************************************************************)
EXTENDS Naturals

CONSTANTS
    Backend,    \* the addresses a backend can have
    NoBackend   \* the answer when no backend is healthy

VARIABLES
    configured, \* backends the operator configured
    healthy,    \* backends traffic may be sent to
    served,     \* backends picked in the current round
    reply,      \* answer of the last pick
    parity      \* of the number of picks: no pick is mistaken for no step

vars == <<configured, healthy, served, reply, parity>>

Init ==
    /\ configured = {}
    /\ healthy = {}
    /\ served = {}
    /\ reply = NoBackend
    /\ parity = 0

Configure(b) ==
    /\ configured' = configured \cup {b}
    /\ UNCHANGED <<healthy, served, reply, parity>>

Discard(b) ==
    /\ configured' = configured \ {b}
    /\ healthy' = healthy \ {b}
    /\ served' = IF b \in healthy THEN {} ELSE served
    /\ UNCHANGED <<reply, parity>>

Up(b) ==
    /\ b \notin healthy
    /\ healthy' = healthy \cup {b}
    /\ served' = {}
    /\ UNCHANGED <<configured, reply, parity>>

Down(b) ==
    /\ b \in healthy
    /\ healthy' = healthy \ {b}
    /\ served' = {}
    /\ UNCHANGED <<configured, reply, parity>>

Pick(b) ==
    /\ b \in healthy \ served
    /\ served' = IF healthy \subseteq served \cup {b} THEN {} ELSE served \cup {b}
    /\ reply' = b
    /\ parity' = 1 - parity
    /\ UNCHANGED <<configured, healthy>>

PickNone ==
    /\ healthy = {}
    /\ reply' = NoBackend
    /\ parity' = 1 - parity
    /\ UNCHANGED <<configured, healthy, served>>

Next ==
    \/ \E b \in Backend : Configure(b) \/ Discard(b) \/ Up(b) \/ Down(b) \/ Pick(b)
    \/ PickNone

Spec == Init /\ [][Next]_vars
=============================================================================
