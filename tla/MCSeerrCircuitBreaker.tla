------------------------ MODULE MCSeerrCircuitBreaker ------------------------
(***************************************************************************)
(* Three callers of one Seerr instance.  Three failures within four ticks  *)
(* open its circuit for two ticks: the window is twice the cooldown as in  *)
(* the code, whose numbers are five failures, sixty and thirty seconds.    *)
(***************************************************************************)
EXTENDS SeerrCircuitBreaker

CONSTANTS q1, q2, q3

ThreeCallers == {q1, q2, q3}
=============================================================================
