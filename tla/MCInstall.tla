----------------------------- MODULE MCInstall -----------------------------
(* A small instance of the installer: the writes and the crashes of one    *)
(* round are bounded.                                                      *)
EXTENDS Install

CONSTANTS MaxWrites, MaxCrashes  \* in one round

VARIABLES writes, crashes

BoundedInit == Init /\ writes = 0 /\ crashes = 0

BoundedNext ==
  \/ /\ BeginRound
     /\ writes' = 0 /\ crashes' = 0
  \/ /\ Retry \/ Apply
     /\ UNCHANGED <<writes, crashes>>
  \/ /\ crashes < MaxCrashes /\ Crash
     /\ crashes' = crashes + 1 /\ UNCHANGED writes
  \/ /\ writes < MaxWrites
     /\ \E p \in Paths, e \in UserEntries : UserWrites(p, e)
     /\ writes' = writes + 1 /\ UNCHANGED crashes

BoundedSpec == BoundedInit /\ [][BoundedNext]_<<vars, writes, crashes>>

(* As in FairSpec, the installer runs on.                                  *)
FairBoundedSpec ==
  BoundedSpec /\ WF_<<vars, writes, crashes>>(Apply /\ UNCHANGED <<writes, crashes>>)
============================================================================
