------------------------------ MODULE MCServer ------------------------------
(* Two workers, three clients and three descriptors, one of them the spare: *)
(* a descriptor is reused, and the third client finds none.                 *)
EXTENDS Server
=============================================================================
