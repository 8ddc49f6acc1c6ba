--------------------------- MODULE MCLoadBalancer ---------------------------
(* Four backends: enough for the cursor to be before, at and after the     *)
(* element that is erased, and for a rotation to wrap.                     *)
EXTENDS LoadBalancer

CONSTANTS b1, b2, b3, b4

MCBackend == {b1, b2, b3, b4}
=============================================================================
