------------------------- MODULE MCEventLoopThread --------------------------
(* The creator and one more thread, two functors each: a functor can be     *)
(* queued before, during and after the round that executes the first.      *)
EXTENDS EventLoopThread

CONSTANTS main, peer

MCThread == {main, peer}
=============================================================================
