----------------------------- MODULE MCOneShot -----------------------------
(* A small instance of one synchronization: one edit on each side before   *)
(* the first command and one that may come at any time on the connector's; *)
(* a pipe of one message, batches of two objects.                          *)
EXTENDS OneShot

MCEditsOf  == [e \in Ends |-> IF e = C THEN {"c1", "c2"} ELSE {"r1"}]
MCRequests == {<<>>, <<3>>, <<1, 1, 1>>}
============================================================================
