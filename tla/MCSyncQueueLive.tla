-------------------------- MODULE MCSyncQueueLive --------------------------
(* The installation scheduler under fairness, with a bounded number of     *)
(* crashes: a process that crashed again and again while it examined a     *)
(* dead head would keep everybody else from examining it.                  *)
EXTENDS SyncQueue

CONSTANT MaxCrashes

VARIABLE crashes

liveVars == <<vars, crashes>>

LiveNext ==
  \/ Run /\ UNCHANGED crashes
  \/ SomeCrash /\ crashes < MaxCrashes /\ crashes' = crashes + 1

LiveSpec == Init /\ crashes = 0 /\ [][LiveNext]_liveVars /\ Fairness
============================================================================
