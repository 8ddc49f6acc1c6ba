------------------------------ MODULE BytePipe ------------------------------
(***************************************************************************)
(* What a relay promises for one direction: the receiver gets the bytes    *)
(* the sender wrote, each once and in the order they were written, up to   *)
(* wherever the relay stops.  Bytes are numbered as they are written.      *)
(***************************************************************************)
EXTENDS Naturals, Sequences

VARIABLES
    sent,   \* number of bytes the sender has written
    got     \* the bytes the receiver has read, in order

pipeVars == <<sent, got>>

Init == sent = 0 /\ got = <<>>

Write == sent' = sent + 1 /\ UNCHANGED got

Read ==
    /\ Len(got) < sent
    /\ got' = Append(got, Len(got) + 1)
    /\ UNCHANGED sent

Next == Write \/ Read

Spec == Init /\ [][Next]_pipeVars
=============================================================================
