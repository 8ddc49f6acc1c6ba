------------------------------ MODULE MCRelay -------------------------------
(* Four bytes from the client, with one byte of kernel buffer and a mark of *)
(* two: the backend's buffer can fill, cross the mark with a byte yet to be *)
(* read, and drain.  The first two are the head of an HTTP request.         *)
EXTENDS Relay

MCBytes == [c \in {"front", "back"} |-> IF c = "front" THEN 4 ELSE 1]
=============================================================================
