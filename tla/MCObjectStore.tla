---------------------------- MODULE MCObjectStore ----------------------------
(* Bounds for ObjectStore: how often users edit or raise a budget,         *)
(* processes die or installs stop, and rounds begin.                       *)
EXTENDS ObjectStore, TLC

CONSTANTS MaxEdits, MaxCrashes, MaxRounds

VARIABLES edits, crashes, rounds

counters == <<edits, crashes, rounds>>

BoundedInit == Init /\ edits = 0 /\ crashes = 0 /\ rounds = 0

Counted(s) ==
  \/ /\ BeginRound(s) /\ rounds < MaxRounds
     /\ rounds' = rounds + 1 /\ UNCHANGED <<edits, crashes>>
  \/ /\ Crash(s) /\ crashes < MaxCrashes
     /\ crashes' = crashes + 1 /\ UNCHANGED <<edits, rounds>>
  \/ /\ ApplyStops(s) /\ crashes < MaxCrashes
     /\ crashes' = crashes + 1 /\ UNCHANGED <<edits, rounds>>
  \/ /\ \E o \in Objects : Edit(s, o)
     /\ edits < MaxEdits
     /\ edits' = edits + 1 /\ UNCHANGED <<crashes, rounds>>
  \/ /\ \E b \in Budgets : RaiseBudget(s, b)
     /\ edits < MaxEdits
     /\ edits' = edits + 1 /\ UNCHANGED <<crashes, rounds>>

Free(s) ==
  \/ Scan(s) \/ Refresh(s) \/ MakePlan(s)
  \/ (\E o \in Objects : BeginObject(s, o)) \/ FinishObject(s)
  \/ SetIntent(s) \/ RefusePlan(s)
  \/ Recover(s) \/ Apply(s) \/ RetireInvalidated(s) \/ FinishInstall(s)
  \/ Acknowledge(s) \/ ReadReferences(s) \/ RemoveUnreferenced(s) \/ EndCollection(s)
  \/ Leave(s) \/ PreviewPrune(s) \/ ApplyPrune(s) \/ Retry(s) \/ BeginRestore(s)

BoundedNext ==
  \/ \E s \in Shares : Counted(s) \/ (Free(s) /\ UNCHANGED counters)
  \/ EndRestore /\ UNCHANGED counters

BoundedSpec == BoundedInit /\ [][BoundedNext]_<<vars, counters>>

Symmetric == Permutations(Objects) \cup Permutations(Shares)
=============================================================================
