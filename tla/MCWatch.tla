------------------------------- MODULE MCWatch -------------------------------
(* One path written by each end, either of which may be hot.               *)
EXTENDS Watch

MCOrder   == <<"c", "r">>
MCOwnerOf == [p \in Paths |-> IF p = "c" THEN C ELSE R]
============================================================================
