------------------------------ MODULE MCBuffer ------------------------------
(* A prepend area of one element, room for two and four bytes queued: the  *)
(* vector grows, the bytes move down, and a read fills both areas.          *)
EXTENDS Buffer

CONSTANTS x, y

MCByte == {x, y}
=============================================================================
