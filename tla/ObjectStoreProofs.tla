------------------------- MODULE ObjectStoreProofs -------------------------
(***************************************************************************)
(* Proofs about the object store, for any shares, objects and limits.  The *)
(* argument: only the process in the slot is between two steps, so what it *)
(* stored, planned or listed cannot be made stale by another; and a        *)
(* restore, which is not in the slot, has the lock a collector needs.      *)
(***************************************************************************)
EXTENDS ObjectStore, FiniteSetTheorems, TLAPS

(* Every process between two steps is in the slot.                         *)
Exclusive == \A s \in Shares : pc[s] # "idle" => slot = s

(* Who writes or removes a file has the lock on objects/.                  *)
Guarded == \A s \in Shares : pc[s] \in {"write", "remove"} => lock = s

Kept(s) == {record[s]} \cup NamedByConflicts(s) \cup NamedByIntent(s)

(* The references of a collector are those of now.                         *)
Fresh == \A s, t \in Shares : pc[s] = "remove" => Kept(t) \subseteq refs[s]

(* What a round is about to give a row is stored or still to come.         *)
Planned(s) == {plan[s].record} \cup UNION plan[s].conflicts
Covered ==
  \A s \in Shares :
    /\ pc[s] = "refresh" => scanned[s] \in stored
    /\ pc[s] \in {"transfer", "write"} =>
         plan[s].record \in Objects /\ Planned(s) \subseteq stored \cup needs[s]
    /\ pc[s] = "write" => cur[s] \in Objects

(* An intent names a record, fits the limits, and is there while it is     *)
(* being installed.                                                        *)
Intents ==
  \A s \in Shares :
    /\ pc[s] \in {"apply", "finish"} => intent[s].state = "pending"
    /\ intent[s].state # "none" =>
         intent[s].record \in Objects /\ WithinLimits(s, intent[s].conflicts)

Restoring == restoring # NoObject => lock = Restorer /\ restoring \in stored

StoreInv ==
  /\ TypeOK
  /\ Exclusive /\ Guarded /\ Fresh /\ Covered /\ Intents /\ Restoring
  /\ KeptObjects /\ FinishNotRefused /\ RestoreFinds

----------------------------------------------------------------------------
(* Types.                                                                  *)

USE DEF vars, files, database, process, command, history,
        Goto, Collect, Gone, LockFree, NoIntent, NoPlan

LEMMA InitTypes == Init => TypeOK
<1> SUFFICES ASSUME Init PROVE TypeOK
  OBVIOUS
<1>1. (CHOOSE b \in Budgets : \A other \in Budgets : b <= other) \in Budgets
  BY StoreAssumption
<1>2. budget \in [Shares -> Budgets]
  BY <1>1 DEF Init
<1> QED
  BY <1>2, StoreAssumption DEF Init, TypeOK, Steps

LEMMA ReferencedType == TypeOK => Referenced \subseteq Objects \cup {NoObject}
  BY DEF TypeOK, Referenced, NamedByConflicts, NamedByIntent

LEMMA PlansType ==
  ASSUME NEW mine \in Objects, NEW p \in Plans(mine)
  PROVE  /\ p \in [record : Objects, conflicts : SUBSET SUBSET Objects]
         /\ p \in [record : Objects \cup {NoObject}, conflicts : SUBSET SUBSET Objects]
  BY DEF Plans

LEMMA FinishCases ==
  ASSUME NEW s \in Shares, FinishInstall(s)
  PROVE  /\ pc[s] = "finish"
         /\ UNCHANGED <<files, head, pending, budget, disk, scanned, plan, needs, cur, refs,
                        command, slot, lock, restoring, missed>>
         /\ \/ /\ record' = [record EXCEPT ![s] = intent[s].record]
               /\ conflicts' = [conflicts EXCEPT ![s] = @ \cup intent[s].conflicts]
               /\ intent' = [intent EXCEPT ![s] = NoIntent]
               /\ Collect(s, "acknowledge")
               /\ UNCHANGED refused
            \/ /\ ~ WithinLimits(s, intent[s].conflicts)
               /\ refused' = [refused EXCEPT ![s] = TRUE]
               /\ IntentBecomes(s, AfterError(s))
               /\ Goto(s, "leave")
               /\ UNCHANGED <<record, conflicts, then>>
  BY Zenon DEF FinishInstall

LEMMA RetireCases ==
  ASSUME NEW s \in Shares, RetireInvalidated(s)
  PROVE  /\ pc[s] = "apply" /\ lock = NoShare
         /\ stored' = stored \cup {disk[s]} /\ Goto(s, "leave")
         /\ UNCHANGED <<temps, head, pending, budget, disk, then, scanned, plan, needs, cur,
                        refs, command, slot, lock, restoring, history>>
         /\ \/ \E found \in SUBSET {{disk[s], intent[s].record}} :
                 /\ record' = [record EXCEPT ![s] = disk[s]]
                 /\ conflicts' = [conflicts EXCEPT ![s] = @ \cup found]
                 /\ intent' = [intent EXCEPT ![s] = NoIntent]
            \/ IntentBecomes(s, AfterError(s)) /\ UNCHANGED <<record, conflicts>>
  BY Zenon DEF RetireInvalidated

LEMMA FinishTypes == StoreInv /\ (\E s \in Shares : FinishInstall(s)) => TypeOK'
<1> SUFFICES ASSUME StoreInv, NEW s \in Shares, FinishInstall(s) PROVE TypeOK'
  OBVIOUS
<1>1. TypeOK /\ intent[s].record \in Objects
  BY FinishCases DEF StoreInv, Intents
<1>2. CASE /\ record' = [record EXCEPT ![s] = intent[s].record]
           /\ conflicts' = [conflicts EXCEPT ![s] = @ \cup intent[s].conflicts]
           /\ intent' = [intent EXCEPT ![s] = NoIntent]
           /\ Collect(s, "acknowledge")
           /\ UNCHANGED refused
  BY <1>1, <1>2, FinishCases DEF TypeOK, Steps
<1>3. CASE /\ refused' = [refused EXCEPT ![s] = TRUE]
           /\ IntentBecomes(s, AfterError(s))
           /\ Goto(s, "leave")
           /\ UNCHANGED <<record, conflicts, then>>
  BY <1>1, <1>3, FinishCases DEF TypeOK, Steps, IntentBecomes, AfterError
<1> QED
  BY <1>2, <1>3, FinishCases, Zenon

LEMMA RetireTypes == StoreInv /\ (\E s \in Shares : RetireInvalidated(s)) => TypeOK'
<1> SUFFICES ASSUME StoreInv, NEW s \in Shares, RetireInvalidated(s) PROVE TypeOK'
  OBVIOUS
<1>1. /\ pc[s] = "apply" /\ lock = NoShare
      /\ stored' = stored \cup {disk[s]} /\ Goto(s, "leave")
      /\ UNCHANGED <<temps, head, pending, budget, disk, then, scanned, plan, needs, cur,
                     refs, command, slot, lock, restoring, history>>
  BY RetireCases, Zenon
<1>2. TypeOK /\ intent[s].record \in Objects
  BY <1>1 DEF StoreInv, Intents
<1>3. ASSUME NEW found \in SUBSET {{disk[s], intent[s].record}},
             record' = [record EXCEPT ![s] = disk[s]],
             conflicts' = [conflicts EXCEPT ![s] = @ \cup found],
             intent' = [intent EXCEPT ![s] = NoIntent]
      PROVE  TypeOK'
  <2>1. {disk[s], intent[s].record} \in SUBSET Objects
    BY <1>2 DEF TypeOK
  <2>2. found \in SUBSET SUBSET Objects
    BY <2>1
  <2> QED
    BY <1>1, <1>2, <1>3, <2>2 DEF TypeOK, Steps
<1>4. CASE IntentBecomes(s, AfterError(s)) /\ UNCHANGED <<record, conflicts>>
  BY <1>1, <1>2, <1>4 DEF TypeOK, Steps, IntentBecomes, AfterError
<1> QED
  BY <1>3, <1>4, RetireCases, Zenon

LEMMA NextTypes == StoreInv /\ Next => TypeOK'
<1> SUFFICES ASSUME StoreInv, Next PROVE TypeOK'
  OBVIOUS
<1> USE StoreAssumption DEF StoreInv, TypeOK, Steps
<1>1. CASE \E s \in Shares : BeginRound(s)
  BY <1>1 DEF BeginRound, MayEnter
<1>2. CASE \E s \in Shares : Scan(s)
  BY <1>2 DEF Scan
<1>3. CASE \E s \in Shares : Refresh(s)
  BY <1>3 DEF Refresh, Covered
<1>4. CASE \E s \in Shares : MakePlan(s)
  <2>0. PICK s \in Shares : MakePlan(s)
    BY <1>4
  <2>1. PICK p \in Plans(record[s]) :
          /\ plan' = [plan EXCEPT ![s] = p]
          /\ needs' = [needs EXCEPT ![s] = Required(s, p)]
          /\ pc' = [pc EXCEPT ![s] = "transfer"]
    BY <2>0 DEF MakePlan
  <2>2. /\ p \in [record : Objects \cup {NoObject}, conflicts : SUBSET SUBSET Objects]
        /\ p \in [record : Objects, conflicts : SUBSET SUBSET Objects]
    BY PlansType
  <2>3. Required(s, p) \subseteq Objects
    BY <2>2 DEF Required
  <2> QED
    BY <2>0, <2>1, <2>2, <2>3 DEF MakePlan
<1>5. CASE \E s \in Shares : FinishObject(s)
  BY <1>5 DEF FinishObject, Covered
<1>6. CASE \E s \in Shares : SetIntent(s)
  BY <1>6 DEF SetIntent, PlanAccepted
<1>7. CASE \E s \in Shares : RefusePlan(s)
  BY <1>7 DEF RefusePlan
<1>8. CASE \E s \in Shares : Recover(s)
  BY <1>8 DEF Recover
<1>9. CASE \E s \in Shares : Apply(s)
  BY <1>9 DEF Apply, Intents
<1>10. CASE \E s \in Shares : ApplyStops(s)
  BY <1>10 DEF ApplyStops, AfterError, IntentBecomes
<1>11. CASE \E s \in Shares : RetireInvalidated(s)
  BY <1>11, RetireTypes
<1>12. CASE \E s \in Shares : FinishInstall(s)
  BY <1>12, FinishTypes
<1>13. CASE \E s \in Shares : Acknowledge(s)
  BY <1>13 DEF Acknowledge
<1>14. CASE \E s \in Shares : ReadReferences(s)
  BY <1>14, ReferencedType DEF ReadReferences
<1>15. CASE \E s \in Shares : RemoveUnreferenced(s)
  BY <1>15 DEF RemoveUnreferenced
<1>16. CASE \E s \in Shares : EndCollection(s)
  BY <1>16 DEF EndCollection
<1>17. CASE \E s \in Shares : Leave(s)
  BY <1>17 DEF Leave
<1>18. CASE \E s \in Shares : PreviewPrune(s)
  <2>1. PICK s \in Shares : PreviewPrune(s)
    BY <1>18
  <2>2. PICK all \in BOOLEAN, selection \in SUBSET conflicts[s] :
          /\ everything' = [everything EXCEPT ![s] = all]
          /\ shown' = [shown EXCEPT ![s] = selection]
    BY <2>1, Zenon DEF PreviewPrune
  <2> QED
    BY <2>1, <2>2 DEF PreviewPrune
<1>19. CASE \E s \in Shares : ApplyPrune(s)
  BY <1>19 DEF ApplyPrune, MayEnter, Selected
<1>20. CASE \E s \in Shares : Crash(s)
  BY <1>20 DEF Crash
<1>21. CASE \E s \in Shares : Retry(s)
  BY <1>21 DEF Retry, Intents, IntentBecomes
<1>22. CASE \E s \in Shares : BeginRestore(s)
  BY <1>22 DEF BeginRestore, MayRestore, NamedByConflicts
<1>23. CASE \E s \in Shares, o \in Objects : BeginObject(s, o)
  BY <1>23 DEF BeginObject
<1>24. CASE \E s \in Shares, o \in Objects : Edit(s, o)
  BY <1>24 DEF Edit
<1>25. CASE \E s \in Shares, b \in Budgets : RaiseBudget(s, b)
  BY <1>25 DEF RaiseBudget
<1>26. CASE EndRestore
  BY <1>26 DEF EndRestore
<1> QED
  BY <1>1, <1>2, <1>3, <1>4, <1>5, <1>6, <1>7, <1>8, <1>9, <1>10, <1>11, <1>12, <1>13,
     <1>14, <1>15, <1>16, <1>17, <1>18, <1>19, <1>20, <1>21, <1>22, <1>23, <1>24, <1>25,
     <1>26 DEF Next, Step

----------------------------------------------------------------------------
(* The slot and the lock.                                                  *)

(* A process starts only in a free slot, and gives it up when it ends.      *)
LEMMA ExclusiveNext == TypeOK /\ Exclusive /\ Next => Exclusive'
<1> SUFFICES ASSUME TypeOK, Exclusive, Next PROVE Exclusive'
  OBVIOUS
<1> USE StoreAssumption DEF TypeOK, Exclusive
<1>1. CASE \E t \in Shares :
             \/ BeginRound(t) \/ Scan(t) \/ Refresh(t) \/ MakePlan(t) \/ FinishObject(t)
  BY <1>1 DEF BeginRound, MayEnter, Scan, Refresh, MakePlan, Plans, Required,
              FinishObject
<1>2. CASE \E t \in Shares :
             \/ SetIntent(t) \/ RefusePlan(t) \/ Recover(t) \/ Apply(t) \/ ApplyStops(t)
  BY <1>2 DEF SetIntent, PlanAccepted, RefusePlan, Recover, Apply, ApplyStops
<1>3. CASE \E t \in Shares :
             \/ Acknowledge(t) \/ ReadReferences(t) \/ RemoveUnreferenced(t)
             \/ EndCollection(t) \/ Leave(t)
  BY <1>3 DEF Acknowledge, ReadReferences, RemoveUnreferenced, EndCollection, Leave
<1>4. CASE \E t \in Shares :
             \/ PreviewPrune(t) \/ ApplyPrune(t) \/ Crash(t) \/ Retry(t)
             \/ BeginRestore(t)
  BY <1>4 DEF PreviewPrune, MayEnter, ApplyPrune, Selected, Crash, Retry, BeginRestore,
              MayRestore
<1>5. CASE \E t \in Shares :
             \/ (\E o \in Objects : BeginObject(t, o))
             \/ (\E o \in Objects : Edit(t, o))
             \/ (\E b \in Budgets : RaiseBudget(t, b))
  BY <1>5 DEF BeginObject, Edit, RaiseBudget
<1>6. CASE \E t \in Shares : RetireInvalidated(t)
  <2>1. PICK t \in Shares : RetireInvalidated(t)
    BY <1>6
  <2> QED
    BY <2>1, RetireCases DEF IntentBecomes, AfterError
<1>7. CASE \E t \in Shares : FinishInstall(t)
  <2>1. PICK t \in Shares : FinishInstall(t)
    BY <1>7
  <2> QED
    BY <2>1, FinishCases DEF IntentBecomes, AfterError
<1>8. CASE EndRestore
  BY <1>8 DEF EndRestore
<1> QED
  BY <1>1, <1>2, <1>3, <1>4, <1>5, <1>6, <1>7, <1>8, Zenon DEF Next, Step

(* Only its holder gives the lock back.                                    *)
LEMMA GuardedNext == TypeOK /\ Exclusive /\ Guarded /\ Restoring /\ Next => Guarded'
<1> SUFFICES ASSUME TypeOK, Exclusive, Guarded, Restoring, Next PROVE Guarded'
  OBVIOUS
<1> USE StoreAssumption DEF TypeOK, Exclusive, Guarded
<1>1. CASE \E t \in Shares :
             \/ BeginRound(t) \/ Scan(t) \/ Refresh(t) \/ MakePlan(t) \/ FinishObject(t)
  BY <1>1 DEF BeginRound, MayEnter, Scan, Refresh, MakePlan, Plans, Required,
              FinishObject
<1>2. CASE \E t \in Shares :
             \/ SetIntent(t) \/ RefusePlan(t) \/ Recover(t) \/ Apply(t) \/ ApplyStops(t)
  BY <1>2 DEF SetIntent, PlanAccepted, RefusePlan, Recover, Apply, ApplyStops
<1>3. CASE \E t \in Shares :
             \/ Acknowledge(t) \/ ReadReferences(t) \/ RemoveUnreferenced(t) \/ Leave(t)
             \/ PreviewPrune(t)
  BY <1>3 DEF Acknowledge, ReadReferences, RemoveUnreferenced, Leave, PreviewPrune,
              MayEnter
<1>4. CASE \E t \in Shares :
             \/ ApplyPrune(t) \/ Crash(t) \/ Retry(t) \/ BeginRestore(t)
             \/ (\E o \in Objects : BeginObject(t, o))
  BY <1>4 DEF ApplyPrune, MayEnter, Selected, Crash, Retry, BeginRestore, MayRestore,
              BeginObject
<1>5. CASE \E t \in Shares :
             \/ (\E o \in Objects : Edit(t, o))
             \/ (\E b \in Budgets : RaiseBudget(t, b))
  BY <1>5 DEF Edit, RaiseBudget
<1>6. CASE \E t \in Shares : RetireInvalidated(t)
  <2>1. PICK t \in Shares : RetireInvalidated(t)
    BY <1>6
  <2> QED
    BY <2>1, RetireCases DEF IntentBecomes, AfterError
<1>7. CASE \E t \in Shares : FinishInstall(t)
  <2>1. PICK t \in Shares : FinishInstall(t)
    BY <1>7
  <2> QED
    BY <2>1, FinishCases DEF IntentBecomes, AfterError
<1>8. CASE \E t \in Shares : EndCollection(t)
  <2>1. PICK s \in Shares : EndCollection(s)
    BY <1>8
  <2>0. /\ pc[s] = "remove" /\ pc' = [pc EXCEPT ![s] = then[s]]
        /\ then[s] \in {"idle", "scan", "acknowledge", "leave"}
    BY <2>1 DEF EndCollection
  <2>2. pc'[s] \notin {"write", "remove"} /\ slot = s
    BY <2>0
  <2>3. ASSUME NEW t \in Shares, t # s PROVE pc'[t] = "idle"
    BY <2>0, <2>2, <2>3
  <2> QED
    BY <2>2, <2>3
<1>9. CASE EndRestore
  BY <1>9 DEF EndRestore
<1> QED
  BY <1>1, <1>2, <1>3, <1>4, <1>5, <1>6, <1>7, <1>8, <1>9, Zenon DEF Next, Step

(* While one process collects, no row gains or loses a reference.          *)
LEMMA WhileRemoving ==
  ASSUME NEW s \in Shares,
         pc \in [Shares -> Steps], then \in [Shares -> {"idle", "scan", "acknowledge", "leave"}],
         intent \in [Shares -> [state : {"none", "pending", "failed"},
                               record : Objects \cup {NoObject},
                               conflicts : SUBSET SUBSET Objects]],
         Exclusive, Next, pc'[s] = "remove", ~ ReadReferences(s)
  PROVE  /\ pc[s] = "remove" /\ refs'[s] = refs[s] /\ UNCHANGED <<record, conflicts>>
         /\ \A t \in Shares : /\ intent'[t].record = intent[t].record
                            /\ intent'[t].conflicts = intent[t].conflicts
<1> USE StoreAssumption DEF Exclusive, Steps
<1>1. CASE \E t \in Shares :
             \/ BeginRound(t) \/ Scan(t) \/ Refresh(t) \/ MakePlan(t) \/ FinishObject(t)
  BY <1>1 DEF BeginRound, MayEnter, Scan, Refresh, MakePlan, Plans, Required,
              FinishObject
<1>2. CASE \E t \in Shares :
             \/ SetIntent(t) \/ RefusePlan(t) \/ Recover(t) \/ Apply(t) \/ ApplyStops(t)
  BY <1>2 DEF SetIntent, PlanAccepted, RefusePlan, Recover, Apply, ApplyStops
<1>3. CASE \E t \in Shares :
             \/ Acknowledge(t) \/ ReadReferences(t) \/ RemoveUnreferenced(t)
             \/ EndCollection(t) \/ Leave(t)
  BY <1>3 DEF Acknowledge, ReadReferences, RemoveUnreferenced, EndCollection, Leave
<1>4. CASE \E t \in Shares :
             \/ PreviewPrune(t) \/ ApplyPrune(t) \/ Crash(t) \/ BeginRestore(t)
             \/ (\E o \in Objects : BeginObject(t, o))
  BY <1>4 DEF PreviewPrune, MayEnter, ApplyPrune, Selected, Crash, BeginRestore,
              MayRestore, BeginObject
<1>5. CASE \E t \in Shares :
             \/ (\E o \in Objects : Edit(t, o))
             \/ (\E b \in Budgets : RaiseBudget(t, b))
  BY <1>5 DEF Edit, RaiseBudget
<1>6. CASE \E t \in Shares : RetireInvalidated(t)
  <2>1. PICK t \in Shares : RetireInvalidated(t)
    BY <1>6
  <2> QED
    BY <2>1, RetireCases DEF IntentBecomes, AfterError
<1>7. CASE \E t \in Shares : FinishInstall(t)
  <2>1. PICK t \in Shares : FinishInstall(t)
    BY <1>7
  <2> QED
    BY <2>1, FinishCases DEF IntentBecomes, AfterError
<1>8. CASE \E t \in Shares : Retry(t)
  BY <1>8 DEF Retry, IntentBecomes
<1>9. CASE EndRestore
  BY <1>9 DEF EndRestore
<1> QED
  BY <1>1, <1>2, <1>3, <1>4, <1>5, <1>6, <1>7, <1>8, <1>9, Zenon DEF Next, Step

LEMMA FreshNext == StoreInv /\ Next => Fresh'
<1> SUFFICES ASSUME StoreInv, Next, NEW s \in Shares, NEW t \in Shares, pc'[s] = "remove"
             PROVE  Kept(t)' \subseteq refs'[s]
  BY DEF Fresh
<1>1. CASE ReadReferences(s)
  <2>1. refs'[s] = Referenced /\ UNCHANGED <<record, conflicts, intent>>
    BY <1>1 DEF ReadReferences, StoreInv, TypeOK
  <2>2. Kept(t) \subseteq Referenced
    BY DEF Kept, Referenced
  <2> QED
    BY <2>1, <2>2 DEF Kept, NamedByConflicts, NamedByIntent
<1>2. CASE ~ ReadReferences(s)
  <2>1. /\ pc[s] = "remove" /\ refs'[s] = refs[s] /\ UNCHANGED <<record, conflicts>>
        /\ intent'[t].record = intent[t].record
        /\ intent'[t].conflicts = intent[t].conflicts
    BY <1>2, WhileRemoving DEF StoreInv, TypeOK
  <2> QED
    BY <2>1 DEF StoreInv, Fresh, Kept, NamedByConflicts, NamedByIntent
<1> QED
  BY <1>1, <1>2

(* Between its steps, nothing a round has stored or planned changes.       *)
LEMMA BetweenTransfers ==
  ASSUME NEW s \in Shares,
         pc \in [Shares -> Steps], then \in [Shares -> {"idle", "scan", "acknowledge", "leave"}],
         intent \in [Shares -> [state : {"none", "pending", "failed"},
                               record : Objects \cup {NoObject},
                               conflicts : SUBSET SUBSET Objects]],
         Exclusive, Next,
         scanned \in [Shares -> Objects \cup {NoObject}],
         plan \in [Shares -> [record : Objects \cup {NoObject}, conflicts : SUBSET SUBSET Objects]],
         needs \in [Shares -> SUBSET Objects], cur \in [Shares -> Objects \cup {NoObject}],
         pc'[s] \in {"refresh", "transfer", "write"}
  PROVE  \/ Scan(s) \/ MakePlan(s) \/ (\E o \in Objects : BeginObject(s, o)) \/ FinishObject(s)
         \/ /\ pc'[s] = pc[s] /\ stored \subseteq stored'
            /\ scanned'[s] = scanned[s] /\ plan'[s] = plan[s]
            /\ needs'[s] = needs[s] /\ cur'[s] = cur[s]
<1> USE StoreAssumption DEF Exclusive, Steps
<1>1. CASE \E t \in Shares :
             \/ BeginRound(t) \/ Refresh(t) \/ SetIntent(t) \/ RefusePlan(t)
             \/ Recover(t)
  BY <1>1 DEF BeginRound, MayEnter, Refresh, SetIntent, PlanAccepted, RefusePlan,
              Recover
<1>2. CASE \E t \in Shares :
             \/ Apply(t) \/ ApplyStops(t) \/ Acknowledge(t) \/ ReadReferences(t)
             \/ RemoveUnreferenced(t)
  BY <1>2 DEF Apply, ApplyStops, Acknowledge, ReadReferences, RemoveUnreferenced
<1>3. CASE \E t \in Shares :
             \/ EndCollection(t) \/ Leave(t) \/ PreviewPrune(t) \/ ApplyPrune(t)
             \/ Crash(t)
  BY <1>3 DEF EndCollection, Leave, PreviewPrune, MayEnter, ApplyPrune, Selected, Crash
<1>4. CASE \E t \in Shares :
             \/ BeginRestore(t) \/ (\E o \in Objects : Edit(t, o))
             \/ (\E b \in Budgets : RaiseBudget(t, b))
  BY <1>4 DEF BeginRestore, MayRestore, Edit, RaiseBudget
<1>5. CASE \E t \in Shares : Scan(t)
  <2>1. PICK t \in Shares : Scan(t)
    BY <1>5
  <2>2. CASE t = s
    BY <2>1, <2>2, Zenon
  <2>3. CASE t # s
    BY <2>1, <2>3 DEF Scan
  <2> QED
    BY <2>2, <2>3
<1>6. CASE \E t \in Shares : MakePlan(t)
  <2>1. PICK t \in Shares : MakePlan(t)
    BY <1>6
  <2>2. CASE t = s
    BY <2>1, <2>2, Zenon
  <2>3. CASE t # s
    BY <2>1, <2>3 DEF MakePlan
  <2> QED
    BY <2>2, <2>3
<1>7. CASE \E t \in Shares : FinishObject(t)
  <2>1. PICK t \in Shares : FinishObject(t)
    BY <1>7
  <2>2. CASE t = s
    BY <2>1, <2>2, Zenon
  <2>3. CASE t # s
    BY <2>1, <2>3 DEF FinishObject
  <2> QED
    BY <2>2, <2>3
<1>8. CASE \E t \in Shares : RetireInvalidated(t)
  <2>1. PICK t \in Shares : RetireInvalidated(t)
    BY <1>8
  <2> QED
    BY <2>1, RetireCases DEF IntentBecomes, AfterError
<1>9. CASE \E t \in Shares : FinishInstall(t)
  <2>1. PICK t \in Shares : FinishInstall(t)
    BY <1>9
  <2> QED
    BY <2>1, FinishCases DEF IntentBecomes, AfterError
<1>10. CASE \E t \in Shares : Retry(t)
  BY <1>10 DEF Retry, IntentBecomes
<1>11. CASE \E t \in Shares, o \in Objects : BeginObject(t, o)
  <2>1. PICK t \in Shares : (\E o \in Objects : BeginObject(t, o))
    BY <1>11
  <2>2. CASE t = s
    BY <2>1, <2>2, Zenon
  <2>3. CASE t # s
    BY <2>1, <2>3 DEF BeginObject
  <2> QED
    BY <2>2, <2>3
<1>12. CASE EndRestore
  BY <1>12 DEF EndRestore
<1> QED
  BY <1>1, <1>2, <1>3, <1>4, <1>5, <1>6, <1>7, <1>8, <1>9, <1>10, <1>11, <1>12, Zenon DEF
     Next, Step

LEMMA CoveredNext == StoreInv /\ Next => Covered'
<1> SUFFICES ASSUME StoreInv, Next, NEW s \in Shares
             PROVE  /\ pc'[s] = "refresh" => scanned'[s] \in stored'
                    /\ pc'[s] \in {"transfer", "write"} =>
                         plan'[s].record \in Objects /\ Planned(s)' \subseteq stored' \cup needs'[s]
                    /\ pc'[s] = "write" => cur'[s] \in Objects
  BY DEF Covered
<1> USE DEF Planned
<1>1. CASE pc'[s] \notin {"refresh", "transfer", "write"}
  BY <1>1
<1>2. CASE Scan(s)
  BY <1>2 DEF Scan, StoreInv, TypeOK
<1>3. CASE MakePlan(s)
  <2>1. PICK p \in Plans(record[s]) :
          /\ plan' = [plan EXCEPT ![s] = p]
          /\ needs' = [needs EXCEPT ![s] = Required(s, p)]
          /\ pc' = [pc EXCEPT ![s] = "transfer"] /\ stored' = stored
    BY <1>3 DEF MakePlan
  <2>2. p.record \in Objects
    BY PlansType DEF StoreInv, TypeOK
  <2>3. {p.record} \cup UNION p.conflicts \subseteq stored \cup Required(s, p)
    BY DEF Required
  <2>4. plan'[s] = p /\ needs'[s] = Required(s, p) /\ pc'[s] = "transfer"
    BY <2>1 DEF StoreInv, TypeOK
  <2> QED
    BY <2>1, <2>2, <2>3, <2>4
<1>4. CASE \E o \in Objects : BeginObject(s, o)
  BY <1>4 DEF BeginObject, StoreInv, TypeOK, Covered
<1>5. CASE FinishObject(s)
  BY <1>5 DEF FinishObject, StoreInv, TypeOK, Covered
<1>6. CASE /\ pc'[s] = pc[s] /\ stored \subseteq stored'
           /\ scanned'[s] = scanned[s] /\ plan'[s] = plan[s]
           /\ needs'[s] = needs[s] /\ cur'[s] = cur[s]
  BY <1>6 DEF StoreInv, Covered
<1> QED
  BY <1>1, <1>2, <1>3, <1>4, <1>5, <1>6, BetweenTransfers DEF StoreInv, TypeOK

(* A restore keeps collectors out.                                         *)
LEMMA RestoringNext ==
  ASSUME restoring \in Objects \cup {NoObject}, conflicts \in [Shares -> SUBSET SUBSET Objects],
         Guarded, Restoring, KeptObjects, Next
  PROVE  Restoring'
<1> USE StoreAssumption DEF Guarded, Restoring
<1>1. CASE \E t \in Shares :
             \/ BeginRound(t) \/ Scan(t) \/ Refresh(t) \/ MakePlan(t) \/ FinishObject(t)
  BY <1>1 DEF BeginRound, MayEnter, Scan, Refresh, MakePlan, Plans, Required,
              FinishObject
<1>2. CASE \E t \in Shares :
             \/ SetIntent(t) \/ RefusePlan(t) \/ Recover(t) \/ Apply(t) \/ ApplyStops(t)
  BY <1>2 DEF SetIntent, PlanAccepted, RefusePlan, Recover, Apply, ApplyStops
<1>3. CASE \E t \in Shares :
             \/ Acknowledge(t) \/ ReadReferences(t) \/ RemoveUnreferenced(t)
             \/ EndCollection(t) \/ Leave(t)
  BY <1>3 DEF Acknowledge, ReadReferences, RemoveUnreferenced, EndCollection, Leave
<1>4. CASE \E t \in Shares :
             \/ PreviewPrune(t) \/ ApplyPrune(t) \/ Crash(t) \/ Retry(t)
             \/ (\E o \in Objects : BeginObject(t, o))
  BY <1>4 DEF PreviewPrune, MayEnter, ApplyPrune, Selected, Crash, Retry, BeginObject
<1>5. CASE \E t \in Shares :
             \/ (\E o \in Objects : Edit(t, o))
             \/ (\E b \in Budgets : RaiseBudget(t, b))
  BY <1>5 DEF Edit, RaiseBudget
<1>6. CASE \E t \in Shares : RetireInvalidated(t)
  <2>1. PICK t \in Shares : RetireInvalidated(t)
    BY <1>6
  <2> QED
    BY <2>1, RetireCases DEF IntentBecomes, AfterError
<1>7. CASE \E t \in Shares : FinishInstall(t)
  <2>1. PICK t \in Shares : FinishInstall(t)
    BY <1>7
  <2> QED
    BY <2>1, FinishCases DEF IntentBecomes, AfterError
<1>8. CASE \E t \in Shares : BeginRestore(t)
  BY <1>8 DEF BeginRestore, MayRestore, KeptObjects, NamedByConflicts
<1>9. CASE EndRestore
  BY <1>9 DEF EndRestore
<1> QED
  BY <1>1, <1>2, <1>3, <1>4, <1>5, <1>6, <1>7, <1>8, <1>9, Zenon DEF Next, Step

----------------------------------------------------------------------------
(* The store.                                                              *)

(* What may give a row of a share a reference.                             *)
LEMMA RowCases ==
  ASSUME NEW s \in Shares, Next,
         conflicts \in [Shares -> SUBSET SUBSET Objects], record \in [Shares -> Objects],
         intent \in [Shares -> [state : {"none", "pending", "failed"},
                               record : Objects \cup {NoObject},
                               conflicts : SUBSET SUBSET Objects]]
  PROVE  \/ Refresh(s) \/ SetIntent(s) \/ ApplyStops(s) \/ RetireInvalidated(s)
         \/ FinishInstall(s)
         \/ Kept(s)' \subseteq Kept(s)
<1> USE DEF Kept, NamedByIntent, NamedByConflicts
<1>1. CASE \E t \in Shares :
             \/ BeginRound(t) \/ Scan(t) \/ MakePlan(t) \/ FinishObject(t)
             \/ RefusePlan(t)
  BY <1>1 DEF BeginRound, MayEnter, Scan, MakePlan, Plans, Required, FinishObject,
              RefusePlan
<1>2. CASE \E t \in Shares :
             \/ Recover(t) \/ Apply(t) \/ Acknowledge(t) \/ ReadReferences(t)
             \/ RemoveUnreferenced(t)
  BY <1>2 DEF Recover, Apply, Acknowledge, ReadReferences, RemoveUnreferenced
<1>3. CASE \E t \in Shares :
             \/ EndCollection(t) \/ Leave(t) \/ PreviewPrune(t) \/ ApplyPrune(t)
             \/ Crash(t)
  BY <1>3 DEF EndCollection, Leave, PreviewPrune, MayEnter, ApplyPrune, Selected, Crash
<1>4. CASE \E t \in Shares :
             \/ BeginRestore(t) \/ (\E o \in Objects : BeginObject(t, o))
             \/ (\E o \in Objects : Edit(t, o))
             \/ (\E b \in Budgets : RaiseBudget(t, b))
  BY <1>4 DEF BeginRestore, MayRestore, BeginObject, Edit, RaiseBudget
<1>5. CASE \E t \in Shares : Refresh(t)
  <2>1. PICK t \in Shares : Refresh(t)
    BY <1>5
  <2>2. CASE t = s
    BY <2>1, <2>2, Zenon
  <2>3. CASE t # s
    BY <2>1, <2>3 DEF Refresh
  <2> QED
    BY <2>2, <2>3
<1>6. CASE \E t \in Shares : SetIntent(t)
  <2>1. PICK t \in Shares : SetIntent(t)
    BY <1>6
  <2>2. CASE t = s
    BY <2>1, <2>2, Zenon
  <2>3. CASE t # s
    BY <2>1, <2>3 DEF SetIntent
  <2> QED
    BY <2>2, <2>3
<1>7. CASE \E t \in Shares : ApplyStops(t)
  <2>1. PICK t \in Shares : ApplyStops(t)
    BY <1>7
  <2>2. CASE t = s
    BY <2>1, <2>2, Zenon
  <2>3. CASE t # s
    BY <2>1, <2>3 DEF ApplyStops, IntentBecomes, AfterError
  <2> QED
    BY <2>2, <2>3
<1>8. CASE \E t \in Shares : RetireInvalidated(t)
  <2>1. PICK t \in Shares : RetireInvalidated(t)
    BY <1>8
  <2>2. CASE t = s
    BY <2>1, <2>2, Zenon
  <2>3. CASE t # s
    BY <2>1, <2>3, RetireCases DEF IntentBecomes, AfterError
  <2> QED
    BY <2>2, <2>3
<1>9. CASE \E t \in Shares : FinishInstall(t)
  <2>1. PICK t \in Shares : FinishInstall(t)
    BY <1>9
  <2>2. CASE t = s
    BY <2>1, <2>2, Zenon
  <2>3. CASE t # s
    BY <2>1, <2>3, FinishCases DEF IntentBecomes, AfterError
  <2> QED
    BY <2>2, <2>3
<1>10. CASE \E t \in Shares : Retry(t)
  BY <1>10 DEF Retry, IntentBecomes
<1>11. CASE EndRestore
  BY <1>11 DEF EndRestore
<1> QED
  BY <1>1, <1>2, <1>3, <1>4, <1>5, <1>6, <1>7, <1>8, <1>9, <1>10, <1>11, Zenon DEF Next,
     Step

(* Only a collector removes objects.                                       *)
LEMMA StoreGrows ==
  ASSUME Next
  PROVE  (\E s \in Shares : RemoveUnreferenced(s)) \/ stored \subseteq stored'
<1>1. CASE \E t \in Shares :
             \/ BeginRound(t) \/ Scan(t) \/ Refresh(t) \/ MakePlan(t) \/ FinishObject(t)
  BY <1>1 DEF BeginRound, MayEnter, Scan, Refresh, MakePlan, Plans, Required,
              FinishObject
<1>2. CASE \E t \in Shares :
             \/ SetIntent(t) \/ RefusePlan(t) \/ Recover(t) \/ Apply(t) \/ ApplyStops(t)
  BY <1>2 DEF SetIntent, PlanAccepted, RefusePlan, Recover, Apply, ApplyStops
<1>3. CASE \E t \in Shares :
             \/ Acknowledge(t) \/ ReadReferences(t) \/ EndCollection(t) \/ Leave(t)
             \/ PreviewPrune(t)
  BY <1>3 DEF Acknowledge, ReadReferences, EndCollection, Leave, PreviewPrune, MayEnter
<1>4. CASE \E t \in Shares :
             \/ ApplyPrune(t) \/ Crash(t) \/ Retry(t) \/ BeginRestore(t)
             \/ (\E o \in Objects : BeginObject(t, o))
  BY <1>4 DEF ApplyPrune, MayEnter, Selected, Crash, Retry, BeginRestore, MayRestore,
              BeginObject
<1>5. CASE \E t \in Shares :
             \/ (\E o \in Objects : Edit(t, o))
             \/ (\E b \in Budgets : RaiseBudget(t, b))
  BY <1>5 DEF Edit, RaiseBudget
<1>6. CASE \E t \in Shares : RetireInvalidated(t)
  <2>1. PICK t \in Shares : RetireInvalidated(t)
    BY <1>6
  <2> QED
    BY <2>1, RetireCases DEF IntentBecomes, AfterError
<1>7. CASE \E t \in Shares : FinishInstall(t)
  <2>1. PICK t \in Shares : FinishInstall(t)
    BY <1>7
  <2> QED
    BY <2>1, FinishCases DEF IntentBecomes, AfterError
<1>8. CASE \E t \in Shares : RemoveUnreferenced(t)
  BY <1>8
<1>9. CASE EndRestore
  BY <1>9 DEF EndRestore
<1> QED
  BY <1>1, <1>2, <1>3, <1>4, <1>5, <1>6, <1>7, <1>8, <1>9, Zenon DEF Next, Step

(* The objects of a row are stored before the row names them, and no       *)
(* collector removes what a row names.                                     *)
LEMMA KeptNext == StoreInv /\ Next => KeptObjects'
<1> SUFFICES ASSUME StoreInv, Next, NEW s \in Shares PROVE Kept(s)' \subseteq stored'
  BY DEF KeptObjects, Kept
<1> USE DEF Kept, NamedByConflicts, NamedByIntent
<1>1. Kept(s) \subseteq stored
  BY DEF StoreInv, KeptObjects
<1>2. CASE \E t \in Shares : RemoveUnreferenced(t)
  <2>1. PICK t \in Shares : RemoveUnreferenced(t)
    BY <1>2
  <2>2. Kept(s)' = Kept(s) /\ Kept(s) \subseteq refs[t] /\ stored \cap refs[t] \subseteq stored'
    BY <2>1 DEF RemoveUnreferenced, StoreInv, Fresh
  <2> QED
    BY <1>1, <2>2
<1>3. CASE ~ \E t \in Shares : RemoveUnreferenced(t)
  <2>1. stored \subseteq stored'
    BY <1>3, StoreGrows
  <2>2. CASE Kept(s)' \subseteq Kept(s)
    BY <1>1, <2>1, <2>2
  <2>3. CASE Refresh(s)
    BY <1>1, <2>1, <2>3 DEF Refresh, StoreInv, TypeOK, Covered
  <2>4. CASE SetIntent(s)
    <3>1. plan[s].record \in Objects /\ Planned(s) \subseteq stored
      BY <2>4 DEF SetIntent, StoreInv, Covered
    <3>2. /\ UNCHANGED <<record, conflicts, stored>>
          /\ intent'[s].record = plan[s].record /\ intent'[s].conflicts = plan[s].conflicts
      BY <2>4 DEF SetIntent, StoreInv, TypeOK
    <3> QED
      BY <1>1, <3>1, <3>2 DEF Planned
  <2>5. CASE ApplyStops(s)
    <3>1. /\ stored' = stored \cup {disk[s]} /\ record'[s] = disk[s] /\ UNCHANGED conflicts
          /\ intent'[s].record = intent[s].record /\ intent'[s].conflicts = intent[s].conflicts
      BY <2>5 DEF ApplyStops, IntentBecomes, StoreInv, TypeOK
    <3> QED
      BY <1>1, <3>1
  <2>6. CASE RetireInvalidated(s)
    <3>1. stored' = stored \cup {disk[s]}
      BY <2>6, RetireCases, Zenon
    <3>0. pc[s] = "apply"
      BY <2>6, RetireCases, Zenon
    <3>2. intent[s].record \in stored
      <4>1. intent[s].record \in Objects
        BY <3>0 DEF StoreInv, Intents
      <4> QED
        BY <1>1, <4>1, StoreAssumption
    <3>3. ASSUME NEW found \in SUBSET {{disk[s], intent[s].record}},
                 record' = [record EXCEPT ![s] = disk[s]],
                 conflicts' = [conflicts EXCEPT ![s] = @ \cup found],
                 intent' = [intent EXCEPT ![s] = NoIntent]
          PROVE  Kept(s)' \subseteq stored'
      <4>1. /\ record'[s] = disk[s] /\ conflicts'[s] = conflicts[s] \cup found
            /\ intent'[s].record = NoObject /\ intent'[s].conflicts = {}
        BY <3>3 DEF StoreInv, TypeOK
      <4>2. UNION found \subseteq stored'
        BY <3>1, <3>2
      <4> QED
        BY <1>1, <3>1, <4>1, <4>2
    <3>4. CASE IntentBecomes(s, AfterError(s)) /\ UNCHANGED <<record, conflicts>>
      <4>1. intent'[s].record = intent[s].record /\ intent'[s].conflicts = intent[s].conflicts
        BY <3>4 DEF IntentBecomes, StoreInv, TypeOK
      <4> QED
        BY <1>1, <2>1, <3>4, <4>1
    <3> QED
      BY <2>6, <3>3, <3>4, RetireCases, Zenon
  <2>7. CASE FinishInstall(s)
    <3>1. intent[s].record \in Objects /\ stored' = stored
      BY <2>7, FinishCases DEF StoreInv, Intents
    <3>2. intent[s].record \in stored
      BY <1>1, <3>1, StoreAssumption
    <3>3. CASE /\ record' = [record EXCEPT ![s] = intent[s].record]
               /\ conflicts' = [conflicts EXCEPT ![s] = @ \cup intent[s].conflicts]
               /\ intent' = [intent EXCEPT ![s] = NoIntent]
      <4>1. /\ record'[s] = intent[s].record
            /\ conflicts'[s] = conflicts[s] \cup intent[s].conflicts
            /\ intent'[s].record = NoObject /\ intent'[s].conflicts = {}
        BY <3>3 DEF StoreInv, TypeOK
      <4>2. intent[s].conflicts \in SUBSET SUBSET Objects
        BY DEF StoreInv, TypeOK
      <4>3. UNION intent[s].conflicts \subseteq stored
        BY <1>1, <4>2, StoreAssumption
      <4> QED
        BY <1>1, <3>1, <3>2, <4>1, <4>3
    <3>4. CASE IntentBecomes(s, AfterError(s)) /\ UNCHANGED <<record, conflicts>>
      <4>1. intent'[s].record = intent[s].record /\ intent'[s].conflicts = intent[s].conflicts
        BY <3>4 DEF IntentBecomes, StoreInv, TypeOK
      <4> QED
        BY <1>1, <2>1, <3>4, <4>1
    <3> QED
      BY <2>7, <3>3, <3>4, FinishCases, Zenon
  <2> QED
    BY <2>2, <2>3, <2>4, <2>5, <2>6, <2>7, RowCases DEF StoreInv, TypeOK
<1> QED
  BY <1>2, <1>3

----------------------------------------------------------------------------
(* The limits.                                                             *)

(* What fits with some conflicts stored fits with fewer, and with a larger *)
(* budget.                                                                 *)
LEMMA LimitsShrink ==
  ASSUME NEW s \in Shares, NEW planned \in SUBSET SUBSET Objects,
         conflicts[s] \in SUBSET SUBSET Objects, conflicts'[s] \subseteq conflicts[s],
         budget[s] \in Nat, budget'[s] \in Nat, budget[s] <= budget'[s],
         WithinLimits(s, planned)
  PROVE  Cardinality(conflicts'[s] \cup planned) <= MaxConflicts
         /\ Charge(conflicts'[s] \cup planned) <= budget'[s]
<1> DEFINE old == conflicts[s] \cup planned
           new == conflicts'[s] \cup planned
<1>1. IsFiniteSet(SUBSET Objects)
  BY StoreAssumption, FS_SUBSET
<1>2. IsFiniteSet(old) /\ new \subseteq old
  BY <1>1, FS_Subset
<1>3. IsFiniteSet(UNION old) /\ UNION new \subseteq UNION old
  BY StoreAssumption, FS_Subset
<1>4. /\ Cardinality(new) <= Cardinality(old) /\ Cardinality(UNION new) <= Cardinality(UNION old)
      /\ IsFiniteSet(new) /\ IsFiniteSet(UNION new)
  BY <1>2, <1>3, FS_Subset
<1>5. /\ Cardinality(new) \in Nat /\ Cardinality(UNION new) \in Nat
      /\ Cardinality(old) \in Nat /\ Cardinality(UNION old) \in Nat
  BY <1>2, <1>3, <1>4, FS_CardinalityType
<1>6. Cardinality(old) <= MaxConflicts /\ Cardinality(UNION old) + Cardinality(old) <= budget[s]
  BY DEF WithinLimits, Charge
<1> HIDE DEF old, new
<1>7. Cardinality(new) <= MaxConflicts /\ Cardinality(UNION new) + Cardinality(new) <= budget'[s]
  BY <1>4, <1>5, <1>6, StoreAssumption
<1> QED
  BY <1>7 DEF Charge, new

(* What a step does to the intent of a share.                              *)
LEMMA IntentCases ==
  ASSUME NEW s \in Shares,
         pc \in [Shares -> Steps], then \in [Shares -> {"idle", "scan", "acknowledge", "leave"}],
         intent \in [Shares -> [state : {"none", "pending", "failed"},
                               record : Objects \cup {NoObject},
                               conflicts : SUBSET SUBSET Objects]],
         Exclusive, Next,
         conflicts \in [Shares -> SUBSET SUBSET Objects], budget \in [Shares -> Nat],
         Intents
  PROVE  \/ SetIntent(s) \/ RetireInvalidated(s) \/ FinishInstall(s)
         \/ /\ /\ intent'[s].record = intent[s].record
               /\ intent'[s].conflicts = intent[s].conflicts
               /\ intent'[s].state = "none" <=> intent[s].state = "none"
               /\ conflicts'[s] \subseteq conflicts[s] /\ budget[s] <= budget'[s]
            /\ pc'[s] \in {"apply", "finish"} =>
                 \/ pc[s] \in {"apply", "finish"} /\ intent'[s].state = intent[s].state
                 \/ intent'[s].state = "pending" 
<1> USE StoreAssumption DEF Exclusive, Steps
<1>1. CASE \E t \in Shares :
             \/ BeginRound(t) \/ Scan(t) \/ Refresh(t) \/ MakePlan(t) \/ FinishObject(t)
  BY <1>1 DEF BeginRound, MayEnter, Scan, Refresh, MakePlan, Plans, Required,
              FinishObject
<1>2. CASE \E t \in Shares :
             \/ RefusePlan(t) \/ Recover(t) \/ Apply(t) \/ Acknowledge(t)
             \/ ReadReferences(t)
  BY <1>2 DEF RefusePlan, Recover, Apply, Acknowledge, ReadReferences
<1>3. CASE \E t \in Shares :
             \/ RemoveUnreferenced(t) \/ EndCollection(t) \/ Leave(t) \/ PreviewPrune(t)
             \/ ApplyPrune(t)
  BY <1>3 DEF RemoveUnreferenced, EndCollection, Leave, PreviewPrune, MayEnter,
              ApplyPrune, Selected
<1>4. CASE \E t \in Shares :
             \/ Crash(t) \/ BeginRestore(t) \/ (\E o \in Objects : BeginObject(t, o))
             \/ (\E o \in Objects : Edit(t, o))
             \/ (\E b \in Budgets : RaiseBudget(t, b))
  BY <1>4 DEF Crash, BeginRestore, MayRestore, BeginObject, Edit, RaiseBudget
<1>5. CASE \E t \in Shares : SetIntent(t)
  <2>1. PICK t \in Shares : SetIntent(t)
    BY <1>5
  <2>2. CASE t = s
    BY <2>1, <2>2, Zenon
  <2>3. CASE t # s
    BY <2>1, <2>3 DEF SetIntent
  <2> QED
    BY <2>2, <2>3
<1>6. CASE \E t \in Shares : ApplyStops(t)
  BY <1>6 DEF ApplyStops, IntentBecomes, AfterError, Intents
<1>7. CASE \E t \in Shares : RetireInvalidated(t)
  <2>1. PICK t \in Shares : RetireInvalidated(t)
    BY <1>7
  <2>2. CASE t = s
    BY <2>1, <2>2, Zenon
  <2>3. CASE t # s
    BY <2>1, <2>3, RetireCases DEF IntentBecomes, AfterError
  <2> QED
    BY <2>2, <2>3
<1>8. CASE \E t \in Shares : FinishInstall(t)
  <2>1. PICK t \in Shares : FinishInstall(t)
    BY <1>8
  <2>2. CASE t = s
    BY <2>1, <2>2, Zenon
  <2>3. CASE t # s
    BY <2>1, <2>3, FinishCases DEF IntentBecomes, AfterError
  <2> QED
    BY <2>2, <2>3
<1>9. CASE \E t \in Shares : Retry(t)
  BY <1>9 DEF Retry, IntentBecomes
<1>10. CASE EndRestore
  BY <1>10 DEF EndRestore
<1> QED
  BY <1>1, <1>2, <1>3, <1>4, <1>5, <1>6, <1>7, <1>8, <1>9, <1>10, Zenon DEF Next, Step

LEMMA BudgetType == TypeOK => budget \in [Shares -> Nat]
  BY StoreAssumption DEF TypeOK

LEMMA IntentsNext == StoreInv /\ Next => Intents'
<1> SUFFICES ASSUME StoreInv, Next, NEW s \in Shares
             PROVE  /\ pc'[s] \in {"apply", "finish"} => intent'[s].state = "pending"
                    /\ intent'[s].state # "none" =>
                         intent'[s].record \in Objects /\ WithinLimits(s, intent[s].conflicts)'
  BY DEF Intents
<1>1. intent[s].state # "none" => intent[s].record \in Objects /\ WithinLimits(s, intent[s].conflicts)
  BY DEF StoreInv, Intents
<1>2. ASSUME intent'[s].record = intent[s].record, intent'[s].conflicts = intent[s].conflicts,
             intent'[s].state = "none" <=> intent[s].state = "none",
             conflicts'[s] \subseteq conflicts[s], budget[s] <= budget'[s]
      PROVE  intent'[s].state # "none" =>
               intent'[s].record \in Objects /\ WithinLimits(s, intent[s].conflicts)'
  <2> SUFFICES ASSUME intent[s].state # "none" PROVE WithinLimits(s, intent[s].conflicts)'
    BY <1>1, <1>2
  <2>1. /\ intent[s].conflicts \in SUBSET SUBSET Objects /\ conflicts[s] \in SUBSET SUBSET Objects
        /\ budget[s] \in Nat
    BY StoreAssumption DEF StoreInv, TypeOK
  <2>2. budget'[s] \in Nat
    BY NextTypes, StoreAssumption DEF TypeOK
  <2>3. /\ Cardinality(conflicts'[s] \cup intent[s].conflicts) <= MaxConflicts
        /\ Charge(conflicts'[s] \cup intent[s].conflicts) <= budget'[s]
    BY <1>1, <1>2, <2>1, <2>2, LimitsShrink
  <2> QED
    BY <1>2, <2>3 DEF WithinLimits, Charge
<1>3. CASE SetIntent(s)
  <2>1. /\ intent'[s].state = "pending" /\ intent'[s].record = plan[s].record
        /\ intent'[s].conflicts = plan[s].conflicts /\ UNCHANGED <<conflicts, budget>>
        /\ pc[s] = "transfer" /\ PlanAccepted(s)
    BY <1>3 DEF SetIntent, StoreInv, TypeOK
  <2>2. plan[s].record \in Objects
    BY <2>1 DEF StoreInv, Covered
  <2> QED
    BY <2>1, <2>2 DEF PlanAccepted, WithinLimits, Charge
<1>4. CASE RetireInvalidated(s)
  <2>1. Goto(s, "leave") /\ pc'[s] = "leave" /\ UNCHANGED budget /\ pc[s] = "apply"
    BY <1>4, RetireCases DEF StoreInv, TypeOK
  <2>2. ASSUME intent' = [intent EXCEPT ![s] = NoIntent] PROVE intent'[s].state = "none"
    BY <2>2 DEF StoreInv, TypeOK
  <2>3. CASE IntentBecomes(s, AfterError(s)) /\ UNCHANGED <<record, conflicts>>
    <3>1. intent[s].state # "none"
      BY <2>1 DEF StoreInv, Intents
    <3>2. /\ intent'[s].record = intent[s].record /\ intent'[s].conflicts = intent[s].conflicts
          /\ intent'[s].state # "none"
      BY <2>3 DEF IntentBecomes, AfterError, StoreInv, TypeOK
    <3>3. budget[s] <= budget'[s]
      BY <2>1, BudgetType DEF StoreInv
    <3> QED
      BY <1>2, <2>1, <2>3, <3>1, <3>2, <3>3
  <2> QED
    BY <1>4, <2>1, <2>2, <2>3, RetireCases, Zenon
<1>5. CASE FinishInstall(s)
  <2>1. UNCHANGED budget /\ pc[s] = "finish"
    BY <1>5, FinishCases, Zenon
  <2>2. ASSUME intent' = [intent EXCEPT ![s] = NoIntent], Collect(s, "acknowledge")
        PROVE  intent'[s].state = "none" /\ pc'[s] = "collect"
    BY <2>2 DEF StoreInv, TypeOK
  <2>3. ASSUME IntentBecomes(s, AfterError(s)), UNCHANGED <<record, conflicts>>, Goto(s, "leave")
        PROVE  /\ pc'[s] = "leave"
               /\ intent'[s].state # "none" =>
                    intent'[s].record \in Objects /\ WithinLimits(s, intent[s].conflicts)'
    <3>1. intent[s].state # "none"
      BY <2>1 DEF StoreInv, Intents
    <3>2. /\ intent'[s].record = intent[s].record /\ intent'[s].conflicts = intent[s].conflicts
          /\ intent'[s].state # "none"
      BY <2>3 DEF IntentBecomes, AfterError, StoreInv, TypeOK
    <3>3. budget[s] <= budget'[s] /\ pc'[s] = "leave"
      BY <2>1, <2>3, BudgetType DEF StoreInv, TypeOK
    <3> QED
      BY <1>2, <2>1, <2>3, <3>1, <3>2, <3>3
  <2>4. \/ intent' = [intent EXCEPT ![s] = NoIntent] /\ Collect(s, "acknowledge")
        \/ IntentBecomes(s, AfterError(s)) /\ UNCHANGED <<record, conflicts>> /\ Goto(s, "leave")
    BY <1>5, FinishCases, Zenon
  <2> QED
    BY <2>2, <2>3, <2>4
<1>6. ASSUME intent'[s].record = intent[s].record, intent'[s].conflicts = intent[s].conflicts,
             intent'[s].state = "none" <=> intent[s].state = "none",
             conflicts'[s] \subseteq conflicts[s], budget[s] <= budget'[s],
             pc'[s] \in {"apply", "finish"} =>
               \/ pc[s] \in {"apply", "finish"} /\ intent'[s].state = intent[s].state
               \/ intent'[s].state = "pending"
      PROVE  /\ pc'[s] \in {"apply", "finish"} => intent'[s].state = "pending"
             /\ intent'[s].state # "none" =>
                  intent'[s].record \in Objects /\ WithinLimits(s, intent[s].conflicts)'
  <2>1. pc[s] \in {"apply", "finish"} => intent[s].state = "pending"
    BY DEF StoreInv, Intents
  <2> QED
    BY <1>2, <1>6, <2>1
<1> QED
  BY <1>3, <1>4, <1>5, <1>6, IntentCases, BudgetType DEF StoreInv, TypeOK

LEMMA OnlyFinishRefuses ==
  ASSUME Next
  PROVE  (\E s \in Shares : FinishInstall(s)) \/ UNCHANGED refused
<1>1. CASE \E t \in Shares :
             \/ BeginRound(t) \/ Scan(t) \/ Refresh(t) \/ MakePlan(t) \/ FinishObject(t)
  BY <1>1 DEF BeginRound, MayEnter, Scan, Refresh, MakePlan, Plans, Required,
              FinishObject
<1>2. CASE \E t \in Shares :
             \/ SetIntent(t) \/ RefusePlan(t) \/ Recover(t) \/ Apply(t) \/ ApplyStops(t)
  BY <1>2 DEF SetIntent, PlanAccepted, RefusePlan, Recover, Apply, ApplyStops
<1>3. CASE \E t \in Shares :
             \/ Acknowledge(t) \/ ReadReferences(t) \/ RemoveUnreferenced(t)
             \/ EndCollection(t) \/ Leave(t)
  BY <1>3 DEF Acknowledge, ReadReferences, RemoveUnreferenced, EndCollection, Leave
<1>4. CASE \E t \in Shares :
             \/ PreviewPrune(t) \/ ApplyPrune(t) \/ Crash(t) \/ Retry(t)
             \/ BeginRestore(t)
  BY <1>4 DEF PreviewPrune, MayEnter, ApplyPrune, Selected, Crash, Retry, BeginRestore,
              MayRestore
<1>5. CASE \E t \in Shares :
             \/ (\E o \in Objects : BeginObject(t, o))
             \/ (\E o \in Objects : Edit(t, o))
             \/ (\E b \in Budgets : RaiseBudget(t, b))
  BY <1>5 DEF BeginObject, Edit, RaiseBudget
<1>6. CASE \E t \in Shares : RetireInvalidated(t)
  <2>1. PICK t \in Shares : RetireInvalidated(t)
    BY <1>6
  <2> QED
    BY <2>1, RetireCases DEF IntentBecomes, AfterError
<1>7. CASE \E t \in Shares : FinishInstall(t)
  BY <1>7
<1>8. CASE EndRestore
  BY <1>8 DEF EndRestore
<1> QED
  BY <1>1, <1>2, <1>3, <1>4, <1>5, <1>6, <1>7, <1>8, Zenon DEF Next, Step

LEMMA OnlyRestoreMisses ==
  ASSUME Next
  PROVE  EndRestore \/ UNCHANGED missed
<1>1. CASE \E t \in Shares :
             \/ BeginRound(t) \/ Scan(t) \/ Refresh(t) \/ MakePlan(t) \/ FinishObject(t)
  BY <1>1 DEF BeginRound, MayEnter, Scan, Refresh, MakePlan, Plans, Required,
              FinishObject
<1>2. CASE \E t \in Shares :
             \/ SetIntent(t) \/ RefusePlan(t) \/ Recover(t) \/ Apply(t) \/ ApplyStops(t)
  BY <1>2 DEF SetIntent, PlanAccepted, RefusePlan, Recover, Apply, ApplyStops
<1>3. CASE \E t \in Shares :
             \/ Acknowledge(t) \/ ReadReferences(t) \/ RemoveUnreferenced(t)
             \/ EndCollection(t) \/ Leave(t)
  BY <1>3 DEF Acknowledge, ReadReferences, RemoveUnreferenced, EndCollection, Leave
<1>4. CASE \E t \in Shares :
             \/ PreviewPrune(t) \/ ApplyPrune(t) \/ Crash(t) \/ Retry(t)
             \/ BeginRestore(t)
  BY <1>4 DEF PreviewPrune, MayEnter, ApplyPrune, Selected, Crash, Retry, BeginRestore,
              MayRestore
<1>5. CASE \E t \in Shares :
             \/ (\E o \in Objects : BeginObject(t, o))
             \/ (\E o \in Objects : Edit(t, o))
             \/ (\E b \in Budgets : RaiseBudget(t, b))
  BY <1>5 DEF BeginObject, Edit, RaiseBudget
<1>6. CASE \E t \in Shares : RetireInvalidated(t)
  <2>1. PICK t \in Shares : RetireInvalidated(t)
    BY <1>6
  <2> QED
    BY <2>1, RetireCases DEF IntentBecomes, AfterError
<1>7. CASE \E t \in Shares : FinishInstall(t)
  <2>1. PICK t \in Shares : FinishInstall(t)
    BY <1>7
  <2> QED
    BY <2>1, FinishCases DEF IntentBecomes, AfterError
<1>8. CASE EndRestore
  BY <1>8
<1> QED
  BY <1>1, <1>2, <1>3, <1>4, <1>5, <1>6, <1>7, <1>8, Zenon DEF Next, Step

LEMMA NeverRefused == StoreInv /\ Next => FinishNotRefused'
<1> SUFFICES ASSUME StoreInv, Next PROVE FinishNotRefused'
  OBVIOUS
<1>1. FinishNotRefused
  BY DEF StoreInv
<1>2. ASSUME NEW s \in Shares, FinishInstall(s) PROVE UNCHANGED refused
  <2>1. pc[s] = "finish"
    BY <1>2, FinishCases, Zenon
  <2>2. WithinLimits(s, intent[s].conflicts)
    BY <2>1 DEF StoreInv, Intents
  <2> QED
    BY <1>2, <2>2, FinishCases, Zenon
<1> QED
  BY <1>1, <1>2, OnlyFinishRefuses DEF FinishNotRefused

LEMMA NeverMissed == StoreInv /\ Next => RestoreFinds'
  BY OnlyRestoreMisses DEF StoreInv, Restoring, RestoreFinds, EndRestore

----------------------------------------------------------------------------
(* The invariant, and what follows from it.                                *)

LEMMA InitInv == Init => StoreInv
<1> SUFFICES ASSUME Init PROVE StoreInv
  OBVIOUS
<1>1. TypeOK
  BY InitTypes
<1>2. \A s \in Shares : /\ pc[s] = "idle" /\ intent[s] = NoIntent /\ conflicts[s] = {}
                        /\ record[s] = disk[s] /\ ~ refused[s]
  BY DEF Init
<1>3. stored = {disk[s] : s \in Shares} /\ restoring = NoObject /\ missed = FALSE
  BY DEF Init
<1>4. KeptObjects
  BY <1>2, <1>3 DEF KeptObjects, NamedByConflicts, NamedByIntent
<1>5. Exclusive /\ Guarded /\ Fresh /\ Covered /\ Intents
  BY <1>2 DEF Exclusive, Guarded, Fresh, Covered, Intents
<1>6. Restoring /\ FinishNotRefused /\ RestoreFinds
  BY <1>2, <1>3 DEF Restoring, FinishNotRefused, RestoreFinds
<1> QED
  BY <1>1, <1>4, <1>5, <1>6 DEF StoreInv

LEMMA NextInv == StoreInv /\ [Next]_vars => StoreInv'
<1> SUFFICES ASSUME StoreInv, [Next]_vars PROVE StoreInv'
  OBVIOUS
<1>1. CASE Next
  <2>1. TypeOK'
    BY <1>1, NextTypes
  <2>2. Exclusive' /\ Guarded'
    BY <1>1, ExclusiveNext, GuardedNext DEF StoreInv
  <2>3. Fresh' /\ Covered' /\ Intents'
    BY <1>1, FreshNext, CoveredNext, IntentsNext
  <2>4. Restoring'
    BY <1>1, RestoringNext DEF StoreInv, TypeOK
  <2>5. KeptObjects' /\ FinishNotRefused' /\ RestoreFinds'
    BY <1>1, KeptNext, NeverRefused, NeverMissed
  <2> QED
    BY <2>1, <2>2, <2>3, <2>4, <2>5 DEF StoreInv
<1>2. CASE UNCHANGED vars
  BY <1>2 DEF StoreInv, TypeOK, Exclusive, Guarded, Fresh, Kept, Covered, Planned, Intents,
              Restoring, KeptObjects, FinishNotRefused, RestoreFinds, NamedByConflicts,
              NamedByIntent, WithinLimits, Charge
<1> QED
  BY <1>1, <1>2

(* The inductive invariant: slot, lock, references, plans and intents keep *)
(* what the rows name in the store.                                        *)
THEOREM Invariance == Spec => []StoreInv
  BY InitInv, NextInv, PTL DEF Spec

(* Types, for any shares, objects and limits.                              *)
THEOREM TypeCorrect == Spec => []TypeOK
<1>1. StoreInv => TypeOK
  BY DEF StoreInv
<1> QED
  BY <1>1, Invariance, PTL

(* What a row promises to give back is in the store: a record's file, an   *)
(* intent's, the inputs and result of a conflict (KeptObjects), for any    *)
(* number of shares and objects and any crashes.                           *)
THEOREM ObjectsAreKept == Spec => []KeptObjects
<1>1. StoreInv => KeptObjects
  BY DEF StoreInv
<1> QED
  BY <1>1, Invariance, PTL

(* An install accepted within the recovery limits is not refused for them  *)
(* later (FinishNotRefused).                                               *)
THEOREM AcceptedIsFinished == Spec => []FinishNotRefused
<1>1. StoreInv => FinishNotRefused
  BY DEF StoreInv
<1> QED
  BY <1>1, Invariance, PTL

(* A restore that has begun finds its object (RestoreFinds).               *)
THEOREM RestoreSucceeds == Spec => []RestoreFinds
<1>1. StoreInv => RestoreFinds
  BY DEF StoreInv
<1> QED
  BY <1>1, Invariance, PTL

(* Only a prune takes conflicts away.                                      *)
LEMMA ConflictsLeave ==
  ASSUME NEW s \in Shares, conflicts \in [Shares -> SUBSET SUBSET Objects], Next
  PROVE  ApplyPrune(s) \/ conflicts[s] \subseteq conflicts'[s]
<1>1. CASE \E t \in Shares :
             \/ BeginRound(t) \/ Scan(t) \/ Refresh(t) \/ MakePlan(t) \/ FinishObject(t)
  BY <1>1 DEF BeginRound, MayEnter, Scan, Refresh, MakePlan, Plans, Required,
              FinishObject
<1>2. CASE \E t \in Shares :
             \/ SetIntent(t) \/ RefusePlan(t) \/ Recover(t) \/ Apply(t) \/ ApplyStops(t)
  BY <1>2 DEF SetIntent, PlanAccepted, RefusePlan, Recover, Apply, ApplyStops
<1>3. CASE \E t \in Shares :
             \/ Acknowledge(t) \/ ReadReferences(t) \/ RemoveUnreferenced(t)
             \/ EndCollection(t) \/ Leave(t)
  BY <1>3 DEF Acknowledge, ReadReferences, RemoveUnreferenced, EndCollection, Leave
<1>4. CASE \E t \in Shares :
             \/ PreviewPrune(t) \/ Crash(t) \/ Retry(t) \/ BeginRestore(t)
             \/ (\E o \in Objects : BeginObject(t, o))
  BY <1>4 DEF PreviewPrune, MayEnter, Crash, Retry, BeginRestore, MayRestore,
              BeginObject
<1>5. CASE \E t \in Shares :
             \/ (\E o \in Objects : Edit(t, o))
             \/ (\E b \in Budgets : RaiseBudget(t, b))
  BY <1>5 DEF Edit, RaiseBudget
<1>6. CASE \E t \in Shares : RetireInvalidated(t)
  BY <1>6, RetireCases DEF RetireInvalidated
<1>7. CASE \E t \in Shares : FinishInstall(t)
  <2>1. PICK t \in Shares : FinishInstall(t)
    BY <1>7
  <2> QED
    BY <2>1, FinishCases DEF IntentBecomes, AfterError
<1>8. CASE \E t \in Shares : ApplyPrune(t)
  <2>1. PICK t \in Shares : ApplyPrune(t)
    BY <1>8
  <2>2. CASE t = s
    BY <2>1, <2>2, Zenon
  <2>3. CASE t # s
    BY <2>1, <2>3 DEF ApplyPrune
  <2> QED
    BY <2>2, <2>3
<1>9. CASE EndRestore
  BY <1>9 DEF EndRestore
<1> QED
  BY <1>1, <1>2, <1>3, <1>4, <1>5, <1>6, <1>7, <1>8, <1>9, Zenon DEF Next, Step

(* A conflict leaves the database only with the selection a preview showed *)
(* (PrunedAsShown), whatever rounds and recoveries did in between.         *)
THEOREM PruneIsAsShown == Spec => PrunedAsShown
<1>1. ASSUME StoreInv, [Next]_vars, NEW s \in Shares, conflicts[s] \ conflicts'[s] # {}
      PROVE  conflicts[s] \ conflicts'[s] = shown[s]
  <2>1. conflicts \in [Shares -> SUBSET SUBSET Objects]
    BY <1>1 DEF StoreInv, TypeOK
  <2>2. Next
    BY <1>1
  <2>3. ApplyPrune(s)
    BY <1>1, <2>1, <2>2, ConflictsLeave
  <2>4. conflicts'[s] = conflicts[s] \ Selected(s) /\ Selected(s) = shown[s]
    BY <2>1, <2>3 DEF ApplyPrune, TokenMatches
  <2> QED
    BY <2>4 DEF Selected
<1>2. StoreInv /\ [Next]_vars =>
        [\A s \in Shares :
           conflicts[s] \ conflicts'[s] # {} => conflicts[s] \ conflicts'[s] = shown[s]]_vars
  BY <1>1
<1> QED
  BY <1>2, Invariance, PTL DEF PrunedAsShown, Spec
=============================================================================
