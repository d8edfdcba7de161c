-------------------------- MODULE MCPairReservation --------------------------
(***************************************************************************)
(* Two installations, and two relationships between them, one started from *)
(* each side.                                                              *)
(***************************************************************************)
EXTENDS PairReservation

CONSTANTS Up, Down

MCPairs     == {Up, Down}
MCLow       == [s \in MCPairs |-> 1]
MCHigh      == [s \in MCPairs |-> 2]
MCConnector == [s \in MCPairs |-> IF s = Up THEN 1 ELSE 2]

MCMortal    == {<<Up, 1>>, <<Down, 2>>}

CONSTANTS Job

MCAt == [l \in {Job} |-> 1]
=============================================================================
