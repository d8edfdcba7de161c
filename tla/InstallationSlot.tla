-------------------------- MODULE InstallationSlot --------------------------
(***************************************************************************)
(* What the scheduler of one installation promises: requests stand in one  *)
(* line, the slot is granted to the first of the line and to nobody else,  *)
(* its owner stays first until it leaves, and a request that leaves and    *)
(* comes back stands at the end.                                           *)
(***************************************************************************)
CONSTANTS Requests, NoRequest

VARIABLES
  line,  \* the requests that stand in line, and who stands before each
  owner  \* the request that owns the slot, or NoRequest

slotVars == <<line, owner>>

InLine == DOMAIN line

Init == line = [r \in {} |-> {}] /\ owner = NoRequest

(* A new request joins at the end.                                         *)
Join(r) ==
  /\ r \notin InLine
  /\ line' = [q \in InLine \cup {r} |-> IF q = r THEN InLine ELSE line[q]]
  /\ UNCHANGED owner

(* Requests leave: canceled, finished, stopped, or dead.                   *)
Leave(S) ==
  /\ S # {} /\ S \subseteq InLine
  /\ line' = [q \in InLine \ S |-> line[q] \ S]
  /\ owner' = IF owner \in S THEN NoRequest ELSE owner

(* A request that could not use its turn goes back to the end.             *)
Rejoin(r) ==
  /\ r \in InLine /\ r # owner
  /\ line' = [q \in InLine |-> IF q = r THEN InLine \ {r} ELSE line[q] \ {r}]
  /\ UNCHANGED owner

(* The slot goes to a request that nobody stands before.                   *)
Grant ==
  /\ owner = NoRequest
  /\ \E r \in InLine : line[r] = {} /\ owner' = r
  /\ UNCHANGED line

(* The owner died and its request is taken over where it stands.           *)
Revoke ==
  /\ owner # NoRequest
  /\ owner' = NoRequest
  /\ UNCHANGED line

Next ==
  \/ \E r \in Requests : Join(r) \/ Rejoin(r)
  \/ \E S \in SUBSET Requests : Leave(S)
  \/ Grant \/ Revoke

Spec == Init /\ [][Next]_slotVars
============================================================================
