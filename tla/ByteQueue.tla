----------------------------- MODULE ByteQueue ------------------------------
(***************************************************************************)
(* What a Buffer is to its users: a queue of bytes.  Bytes are appended at *)
(* the back, taken or dropped at the front, and a header may be put in     *)
(* front of them.                                                          *)
(***************************************************************************)
EXTENDS Naturals, Sequences

VARIABLES
    bytes,  \* the bytes queued
    call    \* the last operation and the bytes it was given or returned

queueVars == <<bytes, call>>

Init == bytes = <<>> /\ call = [op |-> "none", data |-> <<>>]

PutBack == call'.op = "append" /\ bytes' = bytes \o call'.data
PutFront == call'.op = "prepend" /\ bytes' = call'.data \o bytes
Take == call'.op = "take" /\ bytes = call'.data \o bytes'
Discard == call'.op = "discard" /\ bytes = call'.data \o bytes'

Next == PutBack \/ PutFront \/ Take \/ Discard

Spec == Init /\ [][Next]_queueVars
=============================================================================
