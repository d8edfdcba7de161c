--------------------------- MODULE MCRelationship ---------------------------
(* Small instances of Relationship for TLC: commands and requests that come *)
(* to nothing are bounded, and the sessions too where only safety is asked. *)
EXTENDS Relationship, TLC

CONSTANTS
  MaxDeaths,   \* bound on the commands and requests that come to nothing
  MaxOpens     \* bound on the sessions

VARIABLES deaths, opens

bounded == <<vars, deaths, opens>>

Dying   == deaths < MaxDeaths /\ deaths' = deaths + 1 /\ Dies /\ UNCHANGED opens
Opening == opens < MaxOpens /\ opens' = opens + 1 /\ Opens /\ UNCHANGED deaths
Living  == Lives /\ UNCHANGED <<deaths, opens>>

BoundedInit == Init /\ deaths = 0 /\ opens = 0

BoundedSpec == BoundedInit /\ [][Dying \/ Opening \/ Living]_bounded

(* Any number of sessions gets between a command and its permit.           *)
FairBoundedSpec ==
  BoundedInit /\ [][Dying \/ (Opens /\ UNCHANGED <<deaths, opens>>) \/ Living]_bounded /\ Fairness

Symmetric == Permutations(Shares) \cup Permutations(Commands)
=============================================================================
