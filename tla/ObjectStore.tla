---------------------------- MODULE ObjectStore ----------------------------
(***************************************************************************)
(* The object store of one installation: the files under objects/, named   *)
(* by the hash of what they hold, and the tables that refer to them:       *)
(* records, shared heads, recovery conflicts, install intents and pending  *)
(* objects.  Nothing counts references.  A collector reads the tables and  *)
(* removes every object none of them names; rounds of synchronization      *)
(* store objects long before a row names them; a recovery budget bounds    *)
(* what the conflicts of a share may keep; the user prunes and restores    *)
(* conflicts.  The installation slot (SyncQueue) excludes rounds and       *)
(* pruning from each other, a lock on objects/ covers the shorter steps.   *)
(*                                                                         *)
(* An object is a content.  A share has one synchronized file, so a plan   *)
(* is one record and at most one conflict; a conflict is the set of the    *)
(* contents it keeps (both inputs, and the merged result when there is     *)
(* one).  Every object has size one, as has a conflict's row.  The peer    *)
(* is the environment: what it sends is any object.  What an install does  *)
(* to the directory is the subject of Install; here it is one step.        *)
(***************************************************************************)
EXTENDS Naturals, FiniteSets

CONSTANTS Shares, Objects, NoShare, NoObject,
          MaxConflicts,   \* recovery_conflict_limit
          Budgets         \* the recovery budgets a share may have

Restorer == "restore"

ASSUME StoreAssumption ==
  /\ NoShare \notin Shares /\ NoObject \notin Objects /\ IsFiniteSet(Objects)
  /\ Restorer \notin Shares \cup {NoShare}
  /\ MaxConflicts \in Nat /\ Budgets \subseteq Nat
  /\ \E least \in Budgets : \A b \in Budgets : least <= b

VARIABLES
  stored,      \* complete files of objects/
  temps,       \* objects whose .tmp- file is there, being written or left
  record,      \* share -> the object its record names
  head,        \* share -> the object of its shared head
  conflicts,   \* share -> its recovery conflicts
  intent,      \* share -> its install intent
  pending,     \* share -> its pending objects
  budget,      \* share -> its recovery budget
  disk,        \* share -> what its file holds
  pc, then,    \* share -> the step of the process at work on it, and the
               \*          one after the collection under way
  scanned,     \* share -> the object the scan found
  plan,        \* share -> the plan of the round
  needs,       \* share -> objects to receive, or merged, not yet stored
  cur,         \* share -> the object being written
  refs,        \* share -> collector_refs
  shown,       \* share -> the conflicts the last preview of a prune showed
  everything,  \* share -> that preview was one of all conflicts
  slot,        \* the share whose process is active
  lock,        \* who holds the lock on objects/
  restoring,   \* the object a restore is about to open
  refused,     \* share -> a finished install was refused
  missed       \* a restore did not find its object

database == <<record, head, conflicts, intent, pending, budget>>
files == <<stored, temps>>
process == <<pc, then, scanned, plan, needs, cur, refs>>
command == <<shown, everything>>
history == <<refused, missed>>
vars == <<files, database, disk, process, command, slot, lock, restoring, history>>

NoIntent == [state |-> "none", record |-> NoObject, conflicts |-> {}]
NoPlan == [record |-> NoObject, conflicts |-> {}]

Init ==
  /\ disk \in [Shares -> Objects] /\ record = disk
  /\ stored = {disk[s] : s \in Shares} /\ temps = {}
  /\ head = [s \in Shares |-> NoObject]
  /\ conflicts = [s \in Shares |-> {}] /\ intent = [s \in Shares |-> NoIntent]
  /\ pending = [s \in Shares |-> {}]
  /\ budget \in [Shares -> {CHOOSE b \in Budgets : \A other \in Budgets : b <= other}]
  /\ pc = [s \in Shares |-> "idle"] /\ then = [s \in Shares |-> "idle"]
  /\ scanned = [s \in Shares |-> NoObject] /\ plan = [s \in Shares |-> NoPlan]
  /\ needs = [s \in Shares |-> {}] /\ cur = [s \in Shares |-> NoObject]
  /\ refs = [s \in Shares |-> {}] /\ shown = [s \in Shares |-> {}]
  /\ everything = [s \in Shares |-> FALSE]
  /\ slot = NoShare /\ lock = NoShare /\ restoring = NoObject
  /\ refused = [s \in Shares |-> FALSE] /\ missed = FALSE

Goto(s, step) == pc' = [pc EXCEPT ![s] = step]
LockFree == lock = NoShare

----------------------------------------------------------------------------
(* References and limits.                                                  *)

NamedByConflicts(s) == UNION conflicts[s]
NamedByIntent(s) == ({intent[s].record} \cup UNION intent[s].conflicts) \ {NoObject}

(* visit_global_object_refs: what any row of any share names.              *)
Referenced ==
  UNION {{record[s], head[s]} \cup NamedByConflicts(s) \cup NamedByIntent(s) \cup pending[s]
         : s \in Shares}

(* What share s may use of the store without asking its peer for it.       *)
Authorized(s) ==
  {record[s], head[s]} \cup NamedByConflicts(s) \cup NamedByIntent(s) \cup pending[s]

(* recovery usage: the bytes of the distinct objects and of the rows.      *)
Charge(kept) == Cardinality(UNION kept) + Cardinality(kept)

(* ensure_recovery_limits: the conflicts stored and planned, together.     *)
WithinLimits(s, planned) ==
  LET kept == conflicts[s] \cup planned
  IN Cardinality(kept) <= MaxConflicts /\ Charge(kept) <= budget[s]

----------------------------------------------------------------------------
(* The collector.  It holds the lock from the first row it reads to the    *)
(* last file it removes.                                                   *)

Collect(s, next) == Goto(s, "collect") /\ then' = [then EXCEPT ![s] = next]

ReadReferences(s) ==
  /\ pc[s] = "collect" /\ lock \in {NoShare, s}
  /\ lock' = s
  /\ refs' = [refs EXCEPT ![s] = Referenced]
  /\ Goto(s, "remove")
  /\ UNCHANGED <<files, database, disk, then, scanned, plan, needs, cur, command, slot,
                 restoring, history>>

RemoveUnreferenced(s) ==
  /\ pc[s] = "remove"
  /\ \/ \E o \in stored \ refs[s] : stored' = stored \ {o} /\ UNCHANGED temps
     \/ \E o \in temps : temps' = temps \ {o} /\ UNCHANGED stored
  /\ UNCHANGED <<database, disk, process, command, slot, lock, restoring, history>>

EndCollection(s) ==
  /\ pc[s] = "remove" /\ stored \subseteq refs[s] /\ temps = {}
  /\ lock' = NoShare
  /\ refs' = [refs EXCEPT ![s] = {}]
  /\ Goto(s, then[s])
  /\ UNCHANGED <<files, database, disk, then, scanned, plan, needs, cur, command, slot,
                 restoring, history>>

----------------------------------------------------------------------------
(* A round of share s.                                                     *)

(* Mutant of MayEnter: the slot is not waited for.                         *)
MayEnterAnyway(s) == pc[s] = "idle" /\ \A t \in Shares : intent[t].state # "pending"

(* The slot is free, and activating has recovered every install intent     *)
(* that has not been classified.                                           *)
MayEnter(s) ==
  /\ pc[s] = "idle" /\ slot = NoShare
  /\ \A t \in Shares : intent[t].state # "pending"

(* What a round of the same relationship left pending is forgotten, and    *)
(* collected, before the scan.                                             *)
BeginRound(s) ==
  /\ MayEnter(s) /\ intent[s].state = "none"
  /\ slot' = s
  /\ pending' = [pending EXCEPT ![s] = {}]
  /\ Collect(s, "scan")
  /\ UNCHANGED <<files, record, head, conflicts, intent, budget, disk, scanned, plan, needs,
                 cur, refs, command, lock, restoring, history>>

(* The scan stores what it finds, under the lock; refresh_with_root then   *)
(* replaces the records.                                                   *)
Scan(s) ==
  /\ pc[s] = "scan" /\ LockFree
  /\ stored' = stored \cup {disk[s]}
  /\ scanned' = [scanned EXCEPT ![s] = disk[s]]
  /\ Goto(s, "refresh")
  /\ UNCHANGED <<temps, database, disk, then, plan, needs, cur, refs, command, slot, lock,
                 restoring, history>>

Refresh(s) ==
  /\ pc[s] = "refresh"
  /\ record' = [record EXCEPT ![s] = scanned[s]]
  /\ Goto(s, "plan")
  /\ UNCHANGED <<files, head, conflicts, intent, pending, budget, disk, then, scanned, plan,
                 needs, cur, refs, command, slot, lock, restoring, history>>

(* The peer's object r replaces this one, loses to it or wins over it with *)
(* a conflict, or is merged with it into m.                                *)
Plans(mine) ==
  {[record |-> r, conflicts |-> {}] : r \in Objects}
  \cup {[record |-> mine, conflicts |-> {{mine, r}}] : r \in Objects \ {mine}}
  \cup {[record |-> r, conflicts |-> {{mine, r}}] : r \in Objects \ {mine}}
  \cup {[record |-> m, conflicts |-> {{mine, r, m}}] : r \in Objects \ {mine}, m \in Objects}

(* required_hashes_for_share: what is not stored, or stored for others.    *)
Required(s, p) ==
  {o \in {p.record} \cup UNION p.conflicts : ~ (o \in stored /\ o \in Authorized(s))}

MakePlan(s) ==
  /\ pc[s] = "plan"
  /\ \E p \in Plans(record[s]) :
       /\ plan' = [plan EXCEPT ![s] = p]
       /\ needs' = [needs EXCEPT ![s] = Required(s, p)]
  /\ Goto(s, "transfer")
  /\ UNCHANGED <<files, database, disk, then, scanned, cur, refs, command, slot, lock,
                 restoring, history>>

(* begin_object takes the lock for the life of the temporary, and writes   *)
(* nothing for an object that is already there.  One that is received is   *)
(* marked before, one that is merged when it is stored.                    *)
BeginObject(s, o) ==
  /\ pc[s] = "transfer" /\ o \in needs[s] /\ LockFree
  /\ \/ pending' = [pending EXCEPT ![s] = @ \cup {o}]
     \/ UNCHANGED pending
  /\ temps' = IF o \in stored THEN temps ELSE temps \cup {o}
  /\ lock' = s
  /\ cur' = [cur EXCEPT ![s] = o]
  /\ Goto(s, "write")
  /\ UNCHANGED <<stored, record, head, conflicts, intent, budget, disk, then, scanned, plan,
                 needs, refs, command, slot, restoring, history>>

(* ObjectSink::finish renames the temporary; the lock goes with the sink.  *)
FinishObject(s) ==
  /\ pc[s] = "write"
  /\ stored' = stored \cup {cur[s]}
  /\ temps' = temps \ {cur[s]}
  /\ pending' = [pending EXCEPT ![s] = @ \cup {cur[s]}]
  /\ lock' = NoShare
  /\ needs' = [needs EXCEPT ![s] = @ \ {cur[s]}]
  /\ cur' = [cur EXCEPT ![s] = NoObject]
  /\ Goto(s, "transfer")
  /\ UNCHANGED <<record, head, conflicts, intent, budget, disk, then, scanned, plan, refs,
                 command, slot, restoring, history>>

(* Mutant of PlanAccepted: the limits are tried without the plan.          *)
StoredAccepted(s) == WithinLimits(s, {})

PlanAccepted(s) == WithinLimits(s, plan[s].conflicts)

(* set_plan_install_intent: the intent takes over from the pending rows.   *)
SetIntent(s) ==
  /\ pc[s] = "transfer" /\ needs[s] = {} /\ PlanAccepted(s) /\ LockFree
  /\ intent' = [intent EXCEPT ![s] = [state |-> "pending", record |-> plan[s].record,
                                      conflicts |-> plan[s].conflicts]]
  /\ pending' = [pending EXCEPT ![s] = {}]
  /\ Goto(s, "apply")
  /\ UNCHANGED <<files, record, head, conflicts, budget, disk, then, scanned, plan, needs,
                 cur, refs, command, slot, lock, restoring, history>>

(* ensure_connector_recovery_limits: the candidates are given up.          *)
RefusePlan(s) ==
  /\ pc[s] = "transfer" /\ needs[s] = {} /\ ~ PlanAccepted(s) /\ LockFree
  /\ pending' = [pending EXCEPT ![s] = {}]
  /\ Collect(s, "leave")
  /\ UNCHANGED <<files, record, head, conflicts, intent, budget, disk, scanned, plan, needs,
                 cur, refs, command, slot, lock, restoring, history>>

----------------------------------------------------------------------------
(* Installing, by the round or by the recovery of its intent.              *)

IntentBecomes(s, state) ==
  intent' = [intent EXCEPT ![s] =
    [state |-> state, record |-> intent[s].record, conflicts |-> intent[s].conflicts]]

Recover(s) ==
  /\ pc[s] = "idle" /\ slot = NoShare /\ intent[s].state = "pending"
  /\ slot' = s
  /\ scanned' = [scanned EXCEPT ![s] = record[s]]
  /\ Goto(s, "apply")
  /\ UNCHANGED <<files, database, disk, then, plan, needs, cur, refs, command, lock,
                 restoring, history>>

(* The file holds what the scan found: it is replaced.                     *)
Apply(s) ==
  /\ pc[s] = "apply" /\ disk[s] \in {scanned[s], intent[s].record}
  /\ disk' = [disk EXCEPT ![s] = intent[s].record]
  /\ Goto(s, "finish")
  /\ UNCHANGED <<files, database, then, scanned, plan, needs, cur, refs, command, slot, lock,
                 restoring, history>>

(* What an error leaves: the intent of a round waits for a recovery, and   *)
(* recovery classifies one that it cannot complete.                        *)
AfterError(s) == IF plan[s] = NoPlan THEN "failed" ELSE "pending"

(* An error stops the install: the records are scanned again.              *)
ApplyStops(s) ==
  /\ pc[s] = "apply" /\ LockFree
  /\ stored' = stored \cup {disk[s]}
  /\ record' = [record EXCEPT ![s] = disk[s]]
  /\ IntentBecomes(s, AfterError(s))
  /\ Goto(s, "leave")
  /\ UNCHANGED <<temps, head, conflicts, pending, budget, disk, then, scanned, plan, needs,
                 cur, refs, command, slot, lock, restoring, history>>

(* begin_install_intent_retry, when the user starts the share again.       *)
Retry(s) ==
  /\ pc[s] = "idle" /\ intent[s].state = "failed"
  /\ IntentBecomes(s, "pending")
  /\ UNCHANGED <<files, record, head, conflicts, pending, budget, disk, process, command, slot,
                 lock, restoring, history>>

(* The file is not what the scan found: the rescan's object and the        *)
(* intent's make a conflict of their own, and the intent is retired.       *)
RetireInvalidated(s) ==
  /\ pc[s] = "apply" /\ disk[s] \notin {scanned[s], intent[s].record} /\ LockFree
  /\ \E found \in SUBSET {{disk[s], intent[s].record}} :
       IF WithinLimits(s, found)
       THEN /\ record' = [record EXCEPT ![s] = disk[s]]
            /\ conflicts' = [conflicts EXCEPT ![s] = @ \cup found]
            /\ intent' = [intent EXCEPT ![s] = NoIntent]
       ELSE /\ IntentBecomes(s, AfterError(s))
            /\ UNCHANGED <<record, conflicts>>
  /\ stored' = stored \cup {disk[s]}
  /\ Goto(s, "leave")
  /\ UNCHANGED <<temps, head, pending, budget, disk, then, scanned, plan, needs, cur, refs,
                 command, slot, lock, restoring, history>>

(* finish_install: one transaction.                                        *)
FinishInstall(s) ==
  /\ pc[s] = "finish" /\ LockFree
  /\ IF WithinLimits(s, intent[s].conflicts)
     THEN /\ record' = [record EXCEPT ![s] = intent[s].record]
          /\ conflicts' = [conflicts EXCEPT ![s] = @ \cup intent[s].conflicts]
          /\ intent' = [intent EXCEPT ![s] = NoIntent]
          /\ Collect(s, "acknowledge")
          /\ UNCHANGED refused
     ELSE /\ refused' = [refused EXCEPT ![s] = TRUE]
          /\ IntentBecomes(s, AfterError(s))
          /\ Goto(s, "leave")
          /\ UNCHANGED <<record, conflicts, then>>
  /\ UNCHANGED <<files, head, pending, budget, disk, scanned, plan, needs, cur, refs, command,
                 slot, lock, restoring, missed>>

(* acknowledge_shared_heads: the record is the shared head when both sides *)
(* installed it, and there is none otherwise.  The last collection of the  *)
(* round follows.                                                          *)
Acknowledge(s) ==
  /\ pc[s] = "acknowledge"
  /\ \E o \in {record[s], NoObject} : head' = [head EXCEPT ![s] = o]
  /\ Collect(s, "leave")
  /\ UNCHANGED <<files, record, conflicts, intent, pending, budget, disk, scanned, plan, needs,
                 cur, refs, command, slot, lock, restoring, history>>

(* The process gives the slot back, or dies with what it had in memory;    *)
(* its temporaries stay.                                                   *)
Gone(s) ==
  /\ Goto(s, "idle") /\ then' = [then EXCEPT ![s] = "idle"]
  /\ scanned' = [scanned EXCEPT ![s] = NoObject] /\ plan' = [plan EXCEPT ![s] = NoPlan]
  /\ needs' = [needs EXCEPT ![s] = {}] /\ cur' = [cur EXCEPT ![s] = NoObject]
  /\ refs' = [refs EXCEPT ![s] = {}]
  /\ slot' = IF slot = s THEN NoShare ELSE slot
  /\ lock' = IF lock = s THEN NoShare ELSE lock

Leave(s) ==
  /\ pc[s] = "leave"
  /\ Gone(s)
  /\ UNCHANGED <<files, database, disk, command, restoring, history>>

Crash(s) ==
  /\ pc[s] # "idle"
  /\ Gone(s)
  /\ UNCHANGED <<files, database, disk, command, restoring, history>>

----------------------------------------------------------------------------
(* Commands of the user.                                                   *)

Edit(s, o) ==
  /\ disk[s] # o
  /\ disk' = [disk EXCEPT ![s] = o]
  /\ UNCHANGED <<files, database, process, command, slot, lock, restoring, history>>

RaiseBudget(s, b) ==
  /\ b > budget[s]
  /\ budget' = [budget EXCEPT ![s] = b]
  /\ UNCHANGED <<files, record, head, conflicts, intent, pending, disk, process, command, slot,
                 lock, restoring, history>>

(* conflicts prune, without --yes: it shows the selection and its token.   *)
PreviewPrune(s) ==
  /\ MayEnter(s) /\ LockFree /\ conflicts[s] # {}
  /\ \/ everything' = [everything EXCEPT ![s] = TRUE] /\ shown' = [shown EXCEPT ![s] = conflicts[s]]
     \/ /\ everything' = [everything EXCEPT ![s] = FALSE]
        /\ \E c \in conflicts[s] : shown' = [shown EXCEPT ![s] = {c}]
  /\ UNCHANGED <<files, database, disk, process, slot, lock, restoring, history>>

(* The conflicts the arguments of the preview select now.                  *)
Selected(s) == IF everything[s] THEN conflicts[s] ELSE shown[s] \cap conflicts[s]

(* Mutant of TokenMatches: the token is not compared.                      *)
TokenIgnored(s) == Selected(s) # {}

(* The selection token is a hash of the selected rows.                     *)
TokenMatches(s) == Selected(s) = shown[s]

(* prune --selection --yes: the rows go in a transaction, the collection   *)
(* follows under the same lock.                                            *)
ApplyPrune(s) ==
  /\ MayEnter(s) /\ LockFree /\ shown[s] # {} /\ TokenMatches(s)
  /\ slot' = s /\ lock' = s
  /\ conflicts' = [conflicts EXCEPT ![s] = @ \ Selected(s)]
  /\ shown' = [shown EXCEPT ![s] = {}] /\ everything' = [everything EXCEPT ![s] = FALSE]
  /\ Collect(s, "leave")
  /\ UNCHANGED <<files, record, head, intent, pending, budget, disk, scanned, plan, needs, cur,
                 refs, restoring, history>>

(* Mutant of MayRestore: the lock is not taken before the row is read.     *)
RestoresAnyway == restoring = NoObject

MayRestore == restoring = NoObject /\ LockFree

(* restore reads the conflict under the lock on objects/, not in the slot. *)
BeginRestore(s) ==
  /\ MayRestore
  /\ \E o \in NamedByConflicts(s) : restoring' = o
  /\ lock' = IF LockFree THEN Restorer ELSE lock
  /\ UNCHANGED <<files, database, disk, process, command, slot, history>>

(* open_verified_object; after it the contents stay readable.              *)
EndRestore ==
  /\ restoring # NoObject
  /\ missed' = (missed \/ restoring \notin stored)
  /\ restoring' = NoObject
  /\ lock' = IF lock = Restorer THEN NoShare ELSE lock
  /\ UNCHANGED <<files, database, disk, process, command, slot, refused>>

----------------------------------------------------------------------------
Step(s) ==
  \/ BeginRound(s) \/ Scan(s) \/ Refresh(s) \/ MakePlan(s)
  \/ (\E o \in Objects : BeginObject(s, o)) \/ FinishObject(s)
  \/ SetIntent(s) \/ RefusePlan(s)
  \/ Recover(s) \/ Apply(s) \/ ApplyStops(s) \/ RetireInvalidated(s) \/ FinishInstall(s)
  \/ Acknowledge(s) \/ ReadReferences(s) \/ RemoveUnreferenced(s) \/ EndCollection(s)
  \/ Leave(s)
  \/ PreviewPrune(s) \/ ApplyPrune(s)

Next ==
  \/ \E s \in Shares :
       \/ Step(s) \/ Crash(s) \/ Retry(s) \/ BeginRestore(s)
       \/ \E o \in Objects : Edit(s, o)
       \/ \E b \in Budgets : RaiseBudget(s, b)
  \/ EndRestore

Spec == Init /\ [][Next]_vars

----------------------------------------------------------------------------
Steps == {"idle", "scan", "refresh", "plan", "transfer", "write", "apply", "finish",
          "acknowledge", "collect", "remove", "leave"}

(* Types; the steps after a collection are those of a round or its end.    *)
TypeOK ==
  /\ stored \subseteq Objects /\ temps \subseteq Objects
  /\ record \in [Shares -> Objects] /\ head \in [Shares -> Objects \cup {NoObject}]
  /\ conflicts \in [Shares -> SUBSET SUBSET Objects]
  /\ intent \in [Shares -> [state : {"none", "pending", "failed"},
                            record : Objects \cup {NoObject},
                            conflicts : SUBSET SUBSET Objects]]
  /\ pending \in [Shares -> SUBSET Objects] /\ budget \in [Shares -> Budgets]
  /\ disk \in [Shares -> Objects]
  /\ pc \in [Shares -> Steps] /\ then \in [Shares -> {"idle", "scan", "acknowledge", "leave"}]
  /\ scanned \in [Shares -> Objects \cup {NoObject}]
  /\ plan \in [Shares -> [record : Objects \cup {NoObject}, conflicts : SUBSET SUBSET Objects]]
  /\ needs \in [Shares -> SUBSET Objects] /\ cur \in [Shares -> Objects \cup {NoObject}]
  /\ refs \in [Shares -> SUBSET (Objects \cup {NoObject})]
  /\ shown \in [Shares -> SUBSET SUBSET Objects] /\ everything \in [Shares -> BOOLEAN]
  /\ slot \in Shares \cup {NoShare} /\ lock \in Shares \cup {NoShare, Restorer}
  /\ restoring \in Objects \cup {NoObject}
  /\ refused \in [Shares -> BOOLEAN] /\ missed \in BOOLEAN

(* What a row of the database promises to be able to give back - the file  *)
(* of a record, of an intent under way, an input or result of a conflict - *)
(* is in the store, at every point where a process may die.                *)
KeptObjects ==
  \A s \in Shares :
    ({record[s]} \cup NamedByConflicts(s) \cup NamedByIntent(s)) \subseteq stored

(* An install that was accepted against the recovery limits is not refused *)
(* for them when its files are in place: neither a crash, nor other        *)
(* commands in between can have used the allowance up.                     *)
FinishNotRefused == \A s \in Shares : ~ refused[s]

(* A restore of a conflict that is listed finds its object, whatever is    *)
(* collected meanwhile.                                                    *)
RestoreFinds == ~ missed

(* A conflict leaves the database only by a prune, and what leaves is all  *)
(* of what the preview showed and nothing else.                            *)
PrunedAsShown ==
  [][\A s \in Shares :
       conflicts[s] \ conflicts'[s] # {} => conflicts[s] \ conflicts'[s] = shown[s]]_vars
=============================================================================
