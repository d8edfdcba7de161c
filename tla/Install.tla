------------------------------ MODULE Install ------------------------------
(***************************************************************************)
(* Installing a plan into the tree of one share (src/src/sync.rs), with    *)
(* the durable install intent of src/src/state.rs and its recovery.        *)
(*                                                                         *)
(* The tree belongs to the user, who may replace or delete any entry       *)
(* between any two steps of the installer.  The installer never writes in  *)
(* place: it stages the new entry under a temporary name recorded in the   *)
(* intent and exchanges the two names atomically, looks at what it has     *)
(* displaced, and puts it back if that is not the entry the scan recorded. *)
(* A deletion exchanges in a marker file and then removes it.  A crash may *)
(* come between any two steps, and leaves tree, temporaries, records and   *)
(* intent as they are.                                                     *)
(*                                                                         *)
(* Entries stand for files by content.  Directories (whose removal may     *)
(* fail because they are not empty), ignored paths, the paths a round      *)
(* defers, and the loss of unsynced writes at a power failure are left     *)
(* out.  One installer runs at a time: the permit of the installation and  *)
(* the share lock exclude a second one.                                    *)
(***************************************************************************)
EXTENDS Naturals

CONSTANTS
  Paths,    \* the paths of the share, numbered in the order of the plan
  Contents, \* entries a user or a peer may put at a path
  Absent,   \* no entry; as a record, a tombstone or no record at all
  Marker,   \* the file that stands in for an entry being deleted
  Partial,  \* a temporary whose content is not complete
  NoPath

ASSUME InstallNames ==
  /\ Paths \subseteq Nat
  /\ Absent \notin Contents /\ Marker \notin Contents /\ Partial \notin Contents
  /\ Absent # Marker /\ Absent # Partial /\ Marker # Partial
  /\ NoPath \notin Paths

VARIABLES
  disk,       \* the entry at each path
  temp,       \* the entry at the temporary name of each path
  record,     \* the recorded entry: what the installer expects to displace
  intent,     \* install_intents: "none", "pending", or "failed" (classified)
  plan,       \* the entry the intent wants at each path
  phase,      \* of the temporary: "pending", "creating", "owned"
  pc,         \* where the installer is
  cur,        \* the path it is at
  todo,       \* paths it has still to apply
  guarded,    \* paths whose planned record is the local snapshot's own
  recovering, \* it re-applies an interrupted intent
  base,       \* history: the entry at the scan the plan was computed from
  edited,     \* history: the user's last write since then is not base
  latest,     \* history: that write
  exposed,    \* history: that write met one of the known gaps (see EditKept)
  touched     \* history: the user wrote since the records last met the disk

durable   == <<record, intent, plan, phase>>
volatile  == <<pc, cur, todo, guarded, recovering>>
history   == <<base, edited, latest, exposed, touched>>
vars      == <<disk, temp, durable, volatile, history>>

UserEntries == Contents \cup {Absent}
Entries     == UserEntries \cup {Marker, Partial}

ExchangeSteps == {"verify", "rollback", "unmark", "restore"}
Steps ==
  {"idle", "planned", "next", "apply", "fill", "own", "install", "discard",
   "restored", "sync", "invalid", "error", "classify"} \cup ExchangeSteps

TypeOK ==
  /\ disk \in [Paths -> Entries] /\ temp \in [Paths -> Entries]
  /\ record \in [Paths -> Entries]
  /\ intent \in {"none", "pending", "failed"}
  /\ plan \in [Paths -> Entries]
  /\ phase \in [Paths -> {"pending", "creating", "owned"}]
  /\ pc \in Steps
  /\ cur \in Paths \cup {NoPath}
  /\ todo \subseteq Paths /\ guarded \subseteq Paths
  /\ recovering \in BOOLEAN
  /\ base \in [Paths -> Entries] /\ latest \in [Paths -> Entries]
  /\ edited \in [Paths -> BOOLEAN] /\ exposed \in [Paths -> BOOLEAN]
  /\ touched \in [Paths -> BOOLEAN]
  /\ pc \notin {"idle", "planned"} => intent = "pending"

Init ==
  /\ disk \in [Paths -> UserEntries] /\ record = disk /\ base = disk
  /\ temp = [p \in Paths |-> Absent]
  /\ intent = "none" /\ plan = [p \in Paths |-> Absent]
  /\ phase = [p \in Paths |-> "pending"]
  /\ pc = "idle" /\ cur = NoPath /\ todo = {} /\ guarded = {} /\ recovering = FALSE
  /\ edited = [p \in Paths |-> FALSE] /\ exposed = [p \in Paths |-> FALSE]
  /\ touched = [p \in Paths |-> FALSE]
  /\ latest = disk

----------------------------------------------------------------------------
(* What the installer puts under the temporary name.                       *)
Staged(p) == IF plan[p] = Absent THEN Marker ELSE plan[p]

(* The entry under the temporary name is the one the scan recorded: it was *)
(* displaced, and may be removed.                                          *)
IsExpected(p) == record[p] # Absent /\ temp[p] = record[p]

Goto(step) == pc' = step
Exchange(p) ==
  /\ disk' = [disk EXCEPT ![p] = temp[p]]
  /\ temp' = [temp EXCEPT ![p] = disk[p]]
RemoveTemp(p) == temp' = [temp EXCEPT ![p] = Absent]

(* Leaving the installer, by return or by death: what it held in memory    *)
(* is gone.                                                                *)
Leave ==
  /\ pc' = "idle" /\ cur' = NoPath
  /\ todo' = {} /\ guarded' = {} /\ recovering' = FALSE

----------------------------------------------------------------------------
(* A round: scan, plan, intent.                                            *)

(* refresh_with_root and the plan made from it: the records become what is *)
(* on disk; the plan keeps or replaces each entry.  Persistent watch       *)
(* guards the planned records that are this peer's own, one-shot           *)
(* synchronization guards none.  No round begins over a pending intent.    *)
BeginRound ==
  /\ pc = "idle" /\ intent = "none"
  /\ record' = disk /\ base' = disk
  /\ \E remote \in [Paths -> UserEntries], kept \in SUBSET Paths :
       plan' = [p \in Paths |-> IF p \in kept THEN disk[p] ELSE remote[p]]
  /\ guarded' \in SUBSET {p \in Paths : plan'[p] = disk[p]}
  /\ edited' = [p \in Paths |-> FALSE] /\ exposed' = [p \in Paths |-> FALSE]
  /\ touched' = [p \in Paths |-> FALSE]
  /\ latest' = disk
  /\ Goto("planned")
  /\ UNCHANGED <<disk, temp, intent, phase, cur, todo, recovering>>

(* set_plan_install_intent: the intent names a new temporary for each path.*)
SetIntent ==
  /\ pc = "planned"
  /\ intent' = "pending"
  /\ todo' = Paths
  /\ Goto("next")
  /\ UNCHANGED <<disk, temp, record, plan, phase, cur, guarded, recovering, history>>

(* Mutant of Recover: it does not leave the classified intents out.        *)
RecoverClassified ==
  /\ pc = "idle" /\ intent # "none"
  /\ todo' = Paths /\ recovering' = TRUE
  /\ Goto("next")
  /\ UNCHANGED <<disk, temp, durable, cur, guarded, history>>

(* recover_installs_locked takes an unclassified intent up again, without  *)
(* a local snapshot to guard.                                              *)
Recover ==
  /\ pc = "idle" /\ intent = "pending"
  /\ todo' = Paths /\ recovering' = TRUE
  /\ Goto("next")
  /\ UNCHANGED <<disk, temp, durable, cur, guarded, history>>

(* begin_install_intent_retry, before the next attempt of the user.        *)
Retry ==
  /\ pc = "idle" /\ intent = "failed"
  /\ intent' = "pending"
  /\ UNCHANGED <<disk, temp, record, plan, phase, volatile, history>>

----------------------------------------------------------------------------
(* One record of the plan.                                                 *)

(* Deletions come first, then the paths in order.                          *)
Before(p, q) ==
  \/ plan[p] = Absent /\ plan[q] # Absent
  \/ (plan[p] = Absent) = (plan[q] = Absent) /\ p < q

InOrder(p) == \A q \in todo : ~ Before(q, p)

(* Mutant of NothingToDo: it skips the tombstones of recorded entries too. *)
NothingToDelete(p) == IF p \in guarded THEN disk[p] = plan[p] ELSE plan[p] = Absent

(* A guarded record that is on disk needs nothing, nor does a tombstone    *)
(* with nothing to delete.                                                 *)
NothingToDo(p) ==
  IF p \in guarded THEN disk[p] = plan[p] ELSE plan[p] = Absent /\ record[p] = Absent

SkipRecord(p) ==
  /\ pc = "next" /\ p \in todo /\ InOrder(p)
  /\ NothingToDo(p)
  /\ todo' = todo \ {p}
  /\ UNCHANGED <<disk, temp, durable, pc, cur, guarded, recovering, history>>

(* A guarded record that is not on disk any more invalidates the round;    *)
(* for any other, the temporary is marked as being created.                *)
StartRecord(p) ==
  /\ pc = "next" /\ p \in todo /\ InOrder(p)
  /\ ~ NothingToDo(p)
  /\ cur' = p
  /\ IF p \in guarded
     THEN Goto("invalid") /\ UNCHANGED phase
     ELSE /\ phase' = [phase EXCEPT ![p] = IF @ = "pending" THEN "creating" ELSE @]
          /\ Goto("apply")
  /\ UNCHANGED <<disk, temp, record, intent, plan, todo, guarded, recovering, history>>

(* The cases of apply_record, in the order it tries them.                  *)
DeletionInterrupted(p) == phase[p] = "owned" /\ plan[p] = Absent /\ disk[p] = Marker
AlreadyInstalled(p)    == ~ DeletionInterrupted(p) /\ disk[p] = plan[p]
StagingInterrupted(p)  == ~ DeletionInterrupted(p) /\ disk[p] # plan[p]

(* Mutant of RecoverTombstone: the displaced entry goes, the marker stays. *)
RecoverTombstoneHalf(p) ==
  /\ pc = "apply" /\ cur = p /\ DeletionInterrupted(p)
  /\ IF temp[p] = Absent \/ IsExpected(p)
     THEN RemoveTemp(p) /\ Goto("sync")
     ELSE Goto("restore") /\ UNCHANGED temp
  /\ UNCHANGED <<disk, durable, cur, todo, guarded, recovering, history>>

(* recover_tombstone: the marker of this deletion is at the path.  The     *)
(* displaced entry goes if it is the recorded one, and so does the marker; *)
(* else the displaced entry is put back.                                   *)
RecoverTombstone(p) ==
  /\ pc = "apply" /\ cur = p /\ DeletionInterrupted(p)
  /\ IF temp[p] = Absent \/ IsExpected(p)
     THEN RemoveTemp(p) /\ Goto("unmark")
     ELSE Goto("restore") /\ UNCHANGED temp
  /\ UNCHANGED <<disk, durable, cur, todo, guarded, recovering, history>>

(* recover_displaced: the planned entry is at the path.  What is under the *)
(* temporary name goes if it is the recorded entry; else it is taken for   *)
(* an unverified displaced entry and put back.                             *)
RecoverDisplaced(p) ==
  /\ pc = "apply" /\ cur = p /\ AlreadyInstalled(p)
  /\ IF temp[p] = Absent \/ IsExpected(p)
     THEN RemoveTemp(p) /\ Goto("sync")
     ELSE Goto("restore") /\ UNCHANGED temp
  /\ UNCHANGED <<disk, durable, cur, todo, guarded, recovering, history>>

(* A crash while the temporary was created: a complete one is adopted, any *)
(* other is abandoned for a new name, and the attempt fails.               *)
AdoptsTemp(p) == temp[p] = Staged(p)

AdoptTemp(p) ==
  /\ pc = "apply" /\ cur = p /\ StagingInterrupted(p)
  /\ phase[p] = "creating" /\ AdoptsTemp(p)
  /\ phase' = [phase EXCEPT ![p] = "owned"]
  /\ Goto("install")
  /\ UNCHANGED <<disk, temp, record, intent, plan, cur, todo, guarded, recovering, history>>

RotateTemp(p) ==
  /\ pc = "apply" /\ cur = p /\ StagingInterrupted(p)
  /\ phase[p] = "creating" /\ temp[p] # Absent /\ ~ AdoptsTemp(p)
  /\ phase' = [phase EXCEPT ![p] = "pending"]
  /\ RemoveTemp(p)
  /\ Goto("error")
  /\ UNCHANGED <<disk, record, intent, plan, cur, todo, guarded, recovering, history>>

(* An owned temporary: still the staged entry, or (deletions are not       *)
(* looked at) the marker or what it displaced; or an entry displaced       *)
(* before a crash, while the user has written at the path since.           *)
ResumeTemp(p) ==
  /\ pc = "apply" /\ cur = p /\ StagingInterrupted(p)
  /\ phase[p] = "owned" /\ temp[p] # Absent
  /\ \/ (plan[p] = Absent \/ temp[p] = plan[p]) /\ Goto("install") /\ UNCHANGED temp
     \/ /\ plan[p] # Absent /\ temp[p] # plan[p]
        /\ IF IsExpected(p)
           THEN RemoveTemp(p) /\ Goto("invalid")
           ELSE Goto("error") /\ UNCHANGED temp
  /\ UNCHANGED <<disk, durable, cur, todo, guarded, recovering, history>>

CreateTemp(p) ==
  /\ pc = "apply" /\ cur = p /\ StagingInterrupted(p)
  /\ temp[p] = Absent
  /\ temp' = [temp EXCEPT ![p] = Partial]
  /\ Goto("fill")
  /\ UNCHANGED <<disk, durable, cur, todo, guarded, recovering, history>>

FillTemp(p) ==
  /\ pc = "fill" /\ cur = p
  /\ temp' = [temp EXCEPT ![p] = Staged(p)]
  /\ Goto("own")
  /\ UNCHANGED <<disk, durable, cur, todo, guarded, recovering, history>>

OwnTemp(p) ==
  /\ pc = "own" /\ cur = p
  /\ phase' = [phase EXCEPT ![p] = "owned"]
  /\ Goto("install")
  /\ UNCHANGED <<disk, temp, record, intent, plan, cur, todo, guarded, recovering, history>>

----------------------------------------------------------------------------
(* atomic_install and the deletion branch of apply_record.                 *)

(* Nothing was recorded at the path: a rename that replaces nothing.       *)
InstallNew(p) ==
  /\ pc = "install" /\ cur = p
  /\ plan[p] # Absent /\ record[p] = Absent
  /\ IF disk[p] = Absent THEN Exchange(p) /\ Goto("sync")
                         ELSE Goto("discard") /\ UNCHANGED <<disk, temp>>
  /\ UNCHANGED <<durable, cur, todo, guarded, recovering, history>>

(* Something was: the two names are exchanged, which fails if the user has *)
(* deleted the entry.                                                      *)
InstallOver(p) ==
  /\ pc = "install" /\ cur = p
  /\ plan[p] = Absent \/ record[p] # Absent
  /\ IF disk[p] = Absent THEN Goto("error") /\ UNCHANGED <<disk, temp>>
                         ELSE Exchange(p) /\ Goto("verify")
  /\ UNCHANGED <<durable, cur, todo, guarded, recovering, history>>

(* What Verify asks.  (Mutant: any displaced entry will do.)               *)
MatchesAnything(p) == temp[p] # Absent
Matches(p) == IsExpected(p)

(* Mutant of Verify: it leaves what it has exchanged as it is.             *)
VerifyKeeping(p) ==
  /\ pc = "verify" /\ cur = p
  /\ IF Matches(p)
     THEN RemoveTemp(p) /\ Goto(IF plan[p] = Absent THEN "unmark" ELSE "sync")
     ELSE Goto("invalid") /\ UNCHANGED temp
  /\ UNCHANGED <<disk, durable, cur, todo, guarded, recovering, history>>

(* The displaced entry is removed if it is the recorded one.               *)
Verify(p) ==
  /\ pc = "verify" /\ cur = p
  /\ IF Matches(p)
     THEN RemoveTemp(p) /\ Goto(IF plan[p] = Absent THEN "unmark" ELSE "sync")
     ELSE Goto("rollback") /\ UNCHANGED temp
  /\ UNCHANGED <<disk, durable, cur, todo, guarded, recovering, history>>

(* Else the names are exchanged again, and what is now under the temporary *)
(* name is removed.                                                        *)
Rollback(p) ==
  /\ pc = "rollback" /\ cur = p
  /\ IF disk[p] = Absent THEN Goto("error") /\ UNCHANGED <<disk, temp>>
                         ELSE Exchange(p) /\ Goto("discard")
  /\ UNCHANGED <<durable, cur, todo, guarded, recovering, history>>

DiscardTemp(p) ==
  /\ pc = "discard" /\ cur = p
  /\ RemoveTemp(p)
  /\ Goto("invalid")
  /\ UNCHANGED <<disk, durable, cur, todo, guarded, recovering, history>>

(* The marker is removed by name.                                          *)
Unmark(p) ==
  /\ pc = "unmark" /\ cur = p
  /\ IF disk[p] = Absent THEN Goto("error") /\ UNCHANGED disk
                         ELSE disk' = [disk EXCEPT ![p] = Absent] /\ Goto("sync")
  /\ UNCHANGED <<temp, durable, cur, todo, guarded, recovering, history>>

(* The rollback of both recoveries, which then fail.                       *)
Restore(p) ==
  /\ pc = "restore" /\ cur = p
  /\ IF disk[p] = Absent THEN Goto("error") /\ UNCHANGED <<disk, temp>>
                         ELSE Exchange(p) /\ Goto("restored")
  /\ UNCHANGED <<durable, cur, todo, guarded, recovering, history>>

RestoreDone(p) ==
  /\ pc = "restored" /\ cur = p
  /\ RemoveTemp(p)
  /\ Goto("error")
  /\ UNCHANGED <<disk, durable, cur, todo, guarded, recovering, history>>

(* sync_applied_record opens the installed file again to flush it.         *)
CannotSync(p) == plan[p] # Absent /\ disk[p] = Absent

SyncRecord(p) ==
  /\ pc = "sync" /\ cur = p
  /\ ~ CannotSync(p)
  /\ todo' = todo \ {p}
  /\ Goto("next")
  /\ UNCHANGED <<disk, temp, durable, cur, guarded, recovering, history>>

(* A file that is gone ends the apply at once: no rescan, the records stay *)
(* those of the scan.                                                      *)
SyncFails(p) ==
  /\ pc = "sync" /\ cur = p
  /\ CannotSync(p)
  /\ IF recovering
     THEN Goto("classify") /\ UNCHANGED <<cur, todo, guarded, recovering>>
     ELSE Leave
  /\ UNCHANGED <<disk, temp, durable, history>>

----------------------------------------------------------------------------
(* The three ends of an application.                                       *)

(* A rescan brings the records up to the disk.                             *)
Rescan ==
  /\ record' = disk
  /\ touched' = [p \in Paths |-> FALSE]

(* The intent is deleted, and with it the plan and the names of its        *)
(* temporaries: what is left under them is out of reach, for no scan looks *)
(* at it.                                                                  *)
DeleteIntent ==
  /\ intent' = "none" /\ plan' = [p \in Paths |-> Absent]
  /\ phase' = [p \in Paths |-> "pending"]
  /\ temp' = [p \in Paths |-> Absent]

(* The entry under the temporary name was displaced and not yet looked at. *)
Unverified(p) == temp[p] \notin {Absent, Partial, Staged(p)} /\ ~ IsExpected(p)

(* ApplyInvalidated: rescan and retire_invalidated_install, one commit.    *)
Invalidate ==
  /\ pc = "invalid"
  /\ Rescan
  /\ DeleteIntent
  /\ exposed' = [p \in Paths |-> exposed[p] \/ Unverified(p)]
  /\ Leave
  /\ UNCHANGED <<disk, base, edited, latest>>

(* Mutant of StopApply: it starts the record over, in place.               *)
StopApplyRetrying ==
  /\ pc = "error"
  /\ Rescan
  /\ exposed' = [p \in Paths |-> exposed[p] \/ edited[p]]
  /\ Goto("next")
  /\ UNCHANGED <<disk, temp, intent, plan, phase, cur, todo, guarded, recovering>>
  /\ UNCHANGED <<base, edited, latest>>

(* Any other error of apply_record: rescan and replace_records; the intent *)
(* stays, over records that now include what the user wrote.               *)
StopApply ==
  /\ pc = "error"
  /\ Rescan
  /\ exposed' = [p \in Paths |-> exposed[p] \/ edited[p]]
  /\ IF recovering
     THEN Goto("classify") /\ UNCHANGED <<cur, todo, guarded, recovering>>
     ELSE Leave
  /\ UNCHANGED <<disk, temp, intent, plan, phase, base, edited, latest>>

(* classify_install_intent_failure blocks the share.                       *)
Classify ==
  /\ pc = "classify"
  /\ intent' = "failed"
  /\ Leave
  /\ UNCHANGED <<disk, temp, record, plan, phase, history>>

(* finish_install: the planned records are accepted, the intent goes.      *)
Finish ==
  /\ pc = "next" /\ todo = {}
  /\ record' = plan
  /\ DeleteIntent
  /\ Leave
  /\ UNCHANGED <<disk, history>>

----------------------------------------------------------------------------
(* The user and the crash.                                                 *)

(* The moments when the installer is about to remove what the user writes: *)
(* the marker is at the path, or an exchange waits to be verified or       *)
(* undone.                                                                 *)
InWindow(p) ==
  \/ disk[p] = Marker
  \/ temp[p] \notin {Absent, Partial, Staged(p)}
  \/ cur = p /\ pc \in ExchangeSteps

(* The user writes the very entry that is planned, over a temporary that a *)
(* crash left incomplete: recover_displaced will exchange the two.         *)
MeetsStaging(p, e) == temp[p] = Partial /\ e = plan[p] /\ e # Absent

(* The user writes again what a stopped apply has recorded.                *)
AsRecorded(p, e) == e = record[p]

(* An owned temporary that is staged a second time keeps its phase; a      *)
(* crash meanwhile leaves it incomplete and taken for complete.            *)
Restaged(p) == phase[p] = "owned" /\ temp[p] = Partial

UserWrites(p, e) ==
  /\ e # disk[p]
  /\ disk' = [disk EXCEPT ![p] = e]
  /\ latest' = [latest EXCEPT ![p] = e]
  /\ edited' = [edited EXCEPT ![p] = e # base[p]]
  /\ exposed' = [exposed EXCEPT ![p] = \/ InWindow(p) \/ Restaged(p)
                                       \/ MeetsStaging(p, e) \/ AsRecorded(p, e)]
  /\ touched' = [touched EXCEPT ![p] = TRUE]
  /\ UNCHANGED <<temp, durable, volatile, base>>

Crash ==
  /\ pc # "idle"
  /\ Leave
  /\ exposed' = [p \in Paths |-> exposed[p] \/ Restaged(p)]
  /\ UNCHANGED <<disk, temp, durable, base, edited, latest, touched>>

ApplyRecord(p) ==
  \/ SkipRecord(p) \/ StartRecord(p)
  \/ RecoverTombstone(p) \/ RecoverDisplaced(p)
  \/ AdoptTemp(p) \/ RotateTemp(p) \/ ResumeTemp(p)
  \/ CreateTemp(p) \/ FillTemp(p) \/ OwnTemp(p)
  \/ InstallNew(p) \/ InstallOver(p) \/ Verify(p) \/ Rollback(p) \/ DiscardTemp(p)
  \/ Unmark(p) \/ Restore(p) \/ RestoreDone(p) \/ SyncRecord(p) \/ SyncFails(p)

Apply ==
  \/ SetIntent \/ Recover \/ Invalidate \/ StopApply \/ Classify \/ Finish
  \/ \E p \in Paths : ApplyRecord(p)

Next ==
  \/ BeginRound \/ Retry \/ Apply \/ Crash
  \/ \E p \in Paths, e \in UserEntries : UserWrites(p, e)

Spec == Init /\ [][Next]_vars

(* The installer runs on, and an interrupted intent is recovered when the  *)
(* next permit of the installation is prepared.                            *)
FairSpec == Spec /\ WF_vars(Apply)

----------------------------------------------------------------------------
(* Properties.                                                             *)

(* The user's last write at a path since the scan of the round: it is at   *)
(* the path, or, if it is an entry, set aside under the temporary name of  *)
(* an intent that is still there.                                          *)
StillThere(p) ==
  \/ disk[p] = latest[p]
  \/ latest[p] # Absent /\ temp[p] = latest[p] /\ intent # "none"

(* Whatever the user writes after the scan survives the installation of an *)
(* older plan, its rollback, any number of crashes and every recovery,     *)
(* outside the gaps that mark a write as exposed:                          *)
(*  - it falls between an exchange and its verification or its undoing, or *)
(*    on a marker (InWindow);                                              *)
(*  - an apply stopped by an error has put it into the records, which      *)
(*    recovery compares with (StopApply, AsRecorded);                      *)
(*  - it is the planned entry, written over an incomplete temporary that   *)
(*    recovery takes for the displaced entry (MeetsStaging);               *)
(*  - an owned temporary was staged again and left incomplete (Restaged);  *)
(*  - it was displaced when a crash came, and recovery retires the intent  *)
(*    at another path first (Invalidate).                                  *)
EditKept == \A p \in Paths : edited[p] /\ ~ exposed[p] => StillThere(p)

(* When no install is pending and none runs, the records say what is on    *)
(* disk, apart from what the user wrote since: the next scan never takes   *)
(* what the installer did, or failed to do, for an edit.  (What the rescan *)
(* of a retirement has itself recorded is the concern of LeftoversStayOut.)*)
RecordsMatchDisk ==
  pc = "idle" /\ intent = "none" => \A p \in Paths : disk[p] = record[p] \/ touched[p]

(* When an intent goes, nothing that the installer made is at a path,      *)
(* where the scan of the next round would take it for an entry of the      *)
(* user's: neither a marker nor an incomplete temporary, after whatever    *)
(* exchanges, rollbacks, crashes and recoveries.  A plan that finishes     *)
(* leaves no marker at all.  There are three exceptions otherwise:         *)
(*  - it was there at the scan of the round;                               *)
(*  - the user's last write there met one of the gaps of EditKept;         *)
(*  - a recovery retires the intent at one path before it comes to         *)
(*    another, whose deletion a crash interrupted: the marker stays, and   *)
(*    the rescan records it.                                               *)
FinishedClean == Finish => \A p \in Paths : disk[p] = Marker => plan[p] = Marker

GoneClean ==
  intent # "none" /\ intent' = "none" =>
    \A p \in Paths : disk[p] \in {Marker, Partial} =>
      \/ base[p] = disk[p]
      \/ exposed[p]
      \/ disk[p] = Marker /\ recovering /\ p \in todo \ {cur}

LeftoversStayOut == [][FinishedClean /\ GoneClean]_vars

(* An interrupted install is finished, retired, or reported as failed, if  *)
(* crashes end.                                                            *)
InstallSettles == <>[][~ Crash]_vars => (intent = "pending" ~> intent # "pending")

(* Stated by README.org:400: a path that changes after the scan and before *)
(* its replacement is installed keeps the change; here, a deletion.        *)
DeletionKept ==
  \A p \in Paths : edited[p] /\ latest[p] = Absent /\ ~ InWindow(p) => disk[p] = Absent

(* Stated by docs/2026-07-14-alpha-implementation.org:83: an interrupted   *)
(* staging file cannot enter the replicated model.                         *)
StagingStaysOut == \A p \in Paths : record[p] # Partial

(* Stated by docs/2026-07-14-v0.0.1-design.org:471: the intent tracks the  *)
(* displaced entry across a crash, which becomes a recoverable new local   *)
(* input; so an intent is not retired while it knows where an edit is.     *)
DisplacedTracked ==
  [][Invalidate =>
       \A p \in Paths : edited[p] /\ ~ exposed[p] /\ latest[p] # Absent
                         => disk[p] = latest[p]]_vars
============================================================================
