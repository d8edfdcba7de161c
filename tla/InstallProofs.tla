--------------------------- MODULE InstallProofs ---------------------------
(***************************************************************************)
(* Proofs about the installer, for any set of paths and any contents.      *)
(* Three arguments.  Whatever the installer has put at a path and does not *)
(* want there is at the path it is working on, so every path that is done  *)
(* has its planned entry or a later write of the user's.  A write of the   *)
(* user's has two places: its path, or the temporary name, where only an   *)
(* exchange can put it; what took its place at the path is then the staged *)
(* entry, so that recovery exchanges the two again.  And what the          *)
(* installer has made is at a path only while the deletion it is for is    *)
(* pending there; under the temporary name it is never taken for what a    *)
(* user wrote.                                                             *)
(***************************************************************************)
EXTENDS Install, TLAPS

(* The user has written at p since the records last met the disk, and what *)
(* is there is an entry of the user's.                                     *)
Mine(p)     == touched[p] /\ disk[p] \in UserEntries
AtRecord(p) == disk[p] = record[p] \/ Mine(p)
AtPlan(p)   == disk[p] = plan[p] \/ Mine(p)

(* The steps at which cur is the path being installed.                     *)
RecordSteps ==
  {"apply", "fill", "own", "install", "discard", "restored", "sync"} \cup ExchangeSteps

BetweenRounds ==
  pc = "planned" \/ (pc = "idle" /\ intent = "none") => \A p \in Paths : AtRecord(p)

(* What SkipRecord relies on when it skips a tombstone.                    *)
SkippedTombstones == \A p \in Paths :
  plan[p] = Absent /\ record[p] = Absent => disk[p] = Absent \/ Mine(p)

AtWork ==
  pc \in RecordSteps => cur \in todo /\ (plan[cur] = Absent => record[cur] # Absent)

(* What is staged, installed and taken away at the path at work.           *)
StagedEntry ==
  pc \in {"own", "install"} /\ plan[cur] # Absent => temp[cur] = plan[cur]
InstalledEntry ==
  /\ pc = "verify" /\ plan[cur] # Absent => AtPlan(cur)
  /\ pc = "sync" => AtPlan(cur)
DeletedEntry == pc = "unmark" => plan[cur] = Absent

Done ==
  pc \notin {"idle", "planned", "classify"} => \A p \in Paths \ todo : AtPlan(p)

ApplyInv ==
  /\ TypeOK
  /\ BetweenRounds /\ SkippedTombstones
  /\ AtWork /\ StagedEntry /\ InstalledEntry /\ DeletedEntry
  /\ Done

----------------------------------------------------------------------------
(* Types.                                                                  *)

USE DEF vars, durable, volatile, history, Steps, ExchangeSteps, Entries, UserEntries

LEMMA InitTypes == Init => TypeOK
  BY InstallNames DEF Init, TypeOK

LEMMA NextTypes == TypeOK /\ [Next]_vars => TypeOK'
<1> SUFFICES ASSUME TypeOK, [Next]_vars PROVE TypeOK'
  OBVIOUS
<1> USE InstallNames DEF TypeOK, Goto, Leave
<1>1. CASE BeginRound
  BY <1>1 DEF BeginRound
<1>2. CASE SetIntent
  BY <1>2 DEF SetIntent
<1>3. CASE Recover
  BY <1>3 DEF Recover
<1>4. CASE Retry
  BY <1>4 DEF Retry
<1>5. CASE Invalidate
  BY <1>5 DEF Invalidate, Rescan, DeleteIntent
<1>6. CASE StopApply
  BY <1>6 DEF StopApply, Rescan
<1>7. CASE Classify
  BY <1>7 DEF Classify
<1>8. CASE Finish
  BY <1>8 DEF Finish, DeleteIntent
<1>9. CASE Crash
  BY <1>9 DEF Crash
<1>10. ASSUME NEW p \in Paths, ApplyRecord(p) PROVE TypeOK'
  <2>1. CASE SkipRecord(p)
    BY <2>1 DEF SkipRecord
  <2>2. CASE StartRecord(p)
    BY <2>2 DEF StartRecord
  <2>3. CASE RecoverTombstone(p)
    BY <2>3 DEF RecoverTombstone, RemoveTemp
  <2>4. CASE RecoverDisplaced(p)
    BY <2>4 DEF RecoverDisplaced, RemoveTemp
  <2>5. CASE AdoptTemp(p)
    BY <2>5 DEF AdoptTemp
  <2>6. CASE RotateTemp(p)
    BY <2>6 DEF RotateTemp, RemoveTemp
  <2>7. CASE ResumeTemp(p)
    BY <2>7 DEF ResumeTemp, RemoveTemp
  <2>8. CASE CreateTemp(p)
    BY <2>8 DEF CreateTemp
  <2>9. CASE FillTemp(p)
    BY <2>9 DEF FillTemp, Staged
  <2>10. CASE OwnTemp(p)
    BY <2>10 DEF OwnTemp
  <2>11. CASE InstallNew(p)
    BY <2>11 DEF InstallNew, Exchange
  <2>12. CASE InstallOver(p)
    BY <2>12 DEF InstallOver, Exchange
  <2>13. CASE Verify(p)
    BY <2>13 DEF Verify, RemoveTemp
  <2>14. CASE Rollback(p)
    BY <2>14 DEF Rollback, Exchange
  <2>15. CASE DiscardTemp(p)
    BY <2>15 DEF DiscardTemp, RemoveTemp
  <2>16. CASE Unmark(p)
    BY <2>16 DEF Unmark
  <2>17. CASE Restore(p)
    BY <2>17 DEF Restore, Exchange
  <2>18. CASE RestoreDone(p)
    BY <2>18 DEF RestoreDone, RemoveTemp
  <2>19. CASE SyncRecord(p)
    BY <2>19 DEF SyncRecord
  <2>20. CASE SyncFails(p)
    BY <2>20 DEF SyncFails, CannotSync
  <2> QED
    BY <1>10, <2>1, <2>2, <2>3, <2>4, <2>5, <2>6, <2>7, <2>8, <2>9, <2>10, <2>11, <2>12, <2>13, <2>14, <2>15, <2>16, <2>17, <2>18, <2>19, <2>20 DEF ApplyRecord
<1>11. ASSUME NEW p \in Paths, NEW e \in UserEntries, UserWrites(p, e) PROVE TypeOK'
  BY <1>11 DEF UserWrites, InWindow, Restaged, MeetsStaging, AsRecorded
<1>12. CASE UNCHANGED vars
  BY <1>12
<1> QED
  BY <1>1, <1>2, <1>3, <1>4, <1>5, <1>6, <1>7, <1>8, <1>9, <1>10, <1>11, <1>12 DEF Next, Apply

(* The variables keep their types, and the installer is at work only under *)
(* a pending intent: recovery never takes up an intent classified as       *)
(* failed.                                                                 *)
THEOREM TypeCorrect == Spec => []TypeOK
<1>1. Init => TypeOK
  BY InitTypes
<1>2. TypeOK /\ [Next]_vars => TypeOK'
  BY NextTypes
<1> QED
  BY <1>1, <1>2, PTL DEF Spec

----------------------------------------------------------------------------
(* The invariant.                                                          *)

LEMMA InitApply == Init => ApplyInv
  BY InitTypes DEF Init, ApplyInv, BetweenRounds, SkippedTombstones, AtWork, StagedEntry,
    InstalledEntry, DeletedEntry, Done, AtRecord, AtPlan, Mine, RecordSteps

LEMMA NextApply == ApplyInv /\ [Next]_vars => ApplyInv'
<1> SUFFICES ASSUME ApplyInv, [Next]_vars PROVE ApplyInv'
  OBVIOUS
<1>0. TypeOK'
  BY NextTypes DEF ApplyInv
<1> USE InstallNames, <1>0 DEF ApplyInv, BetweenRounds, SkippedTombstones, AtWork,
    StagedEntry, InstalledEntry, DeletedEntry, Done, AtRecord, AtPlan, Mine, RecordSteps,
    TypeOK, Goto, Leave
<1>1. CASE BeginRound
  BY <1>1 DEF BeginRound
<1>2. CASE SetIntent
  BY <1>2 DEF SetIntent
<1>3. CASE Recover
  BY <1>3 DEF Recover
<1>4. CASE Retry
  BY <1>4 DEF Retry
<1>5. CASE Invalidate
  BY <1>5 DEF Invalidate, Rescan, DeleteIntent
<1>6. CASE StopApply
  BY <1>6 DEF StopApply, Rescan
<1>7. CASE Classify
  BY <1>7 DEF Classify
<1>8. CASE Finish
  BY <1>8 DEF Finish, DeleteIntent
<1>9. CASE Crash
  BY <1>9 DEF Crash
<1>10. ASSUME NEW p \in Paths, ApplyRecord(p) PROVE ApplyInv'
  <2>1. CASE SkipRecord(p)
    BY <2>1 DEF SkipRecord, NothingToDo
  <2>2. CASE StartRecord(p)
    BY <2>2 DEF StartRecord, NothingToDo
  <2>3. CASE RecoverTombstone(p)
    BY <2>3 DEF RecoverTombstone, RemoveTemp, DeletionInterrupted
  <2>4. CASE RecoverDisplaced(p)
    BY <2>4 DEF RecoverDisplaced, RemoveTemp, AlreadyInstalled
  <2>5. CASE AdoptTemp(p)
    BY <2>5 DEF AdoptTemp, AdoptsTemp, Staged
  <2>6. CASE RotateTemp(p)
    BY <2>6 DEF RotateTemp, RemoveTemp
  <2>7. CASE ResumeTemp(p)
    BY <2>7 DEF ResumeTemp, RemoveTemp
  <2>8. CASE CreateTemp(p)
    BY <2>8 DEF CreateTemp
  <2>9. CASE FillTemp(p)
    BY <2>9 DEF FillTemp, Staged
  <2>10. CASE OwnTemp(p)
    BY <2>10 DEF OwnTemp
  <2>11. CASE InstallNew(p)
    BY <2>11 DEF InstallNew, Exchange
  <2>12. CASE InstallOver(p)
    BY <2>12 DEF InstallOver, Exchange
  <2>13. CASE Verify(p)
    BY <2>13 DEF Verify, RemoveTemp
  <2>14. CASE Rollback(p)
    BY <2>14 DEF Rollback, Exchange
  <2>15. CASE DiscardTemp(p)
    BY <2>15 DEF DiscardTemp, RemoveTemp
  <2>16. CASE Unmark(p)
    BY <2>16 DEF Unmark
  <2>17. CASE Restore(p)
    BY <2>17 DEF Restore, Exchange
  <2>18. CASE RestoreDone(p)
    BY <2>18 DEF RestoreDone, RemoveTemp
  <2>19. CASE SyncRecord(p)
    BY <2>19 DEF SyncRecord
  <2>20. CASE SyncFails(p)
    BY <2>20 DEF SyncFails, CannotSync
  <2> QED
    BY <1>10, <2>1, <2>2, <2>3, <2>4, <2>5, <2>6, <2>7, <2>8, <2>9, <2>10, <2>11, <2>12, <2>13, <2>14, <2>15, <2>16, <2>17, <2>18, <2>19, <2>20 DEF ApplyRecord
<1>11. ASSUME NEW p \in Paths, NEW e \in UserEntries, UserWrites(p, e) PROVE ApplyInv'
  BY <1>11 DEF UserWrites, InWindow, Restaged, MeetsStaging, AsRecorded
<1>12. CASE UNCHANGED vars
  BY <1>12
<1> QED
  BY <1>1, <1>2, <1>3, <1>4, <1>5, <1>6, <1>7, <1>8, <1>9, <1>10, <1>11, <1>12 DEF Next, Apply

(* Between rounds the records say what is on disk, whatever the installer  *)
(* did, undid or left to a recovery: the next scan takes no plan that it   *)
(* carried out, and none that it failed to, for an edit of the user's.     *)
THEOREM RecordsAreTrue == Spec => []RecordsMatchDisk
<1>1. Init => ApplyInv
  BY InitApply
<1>2. ApplyInv /\ [Next]_vars => ApplyInv'
  BY NextApply
<1>3. ApplyInv => RecordsMatchDisk
  BY DEF ApplyInv, BetweenRounds, AtRecord, Mine, RecordsMatchDisk
<1> QED
  BY <1>1, <1>2, <1>3, PTL DEF Spec

----------------------------------------------------------------------------
(* The user's writes.                                                      *)

At(p, steps) == cur = p /\ pc \in steps

(* The user's last write at p counts: EditKept is about it.                *)
Standing(p) == edited[p] /\ ~ exposed[p]

(* The write is at its path, and what is under the temporary name is the   *)
(* installer's own.                                                        *)
InPlace(p) ==
  /\ disk[p] = latest[p]
  /\ temp[p] \in {Absent, Partial, Staged(p)}
  /\ temp[p] = Partial => latest[p] # plan[p] \/ latest[p] = Absent
  /\ Restaged(p) => plan[p] = Partial \/ At(p, {"fill"})
  /\ ~ At(p, {"verify", "rollback"})
  /\ At(p, {"restore"}) => disk[p] \in {Absent, temp[p]}

(* An exchange has put the write under the temporary name, and the staged  *)
(* entry at the path, which is still to be applied.                        *)
SetAside(p) ==
  /\ temp[p] = latest[p] /\ latest[p] # Absent
  /\ disk[p] = Staged(p)
  /\ intent # "none" /\ phase[p] = "owned"
  /\ plan[p] = Absent => record[p] # Absent
  /\ p \notin guarded
  /\ pc \in RecordSteps \cup {"next"} => p \in todo
  /\ cur = p /\ pc \in RecordSteps => pc \in {"apply", "verify", "rollback", "restore"}

(* The write is not what the records say, which is what the installer      *)
(* takes leave to remove; and no marker is being removed from its path.    *)
Placed(p) ==
  /\ latest[p] \in UserEntries
  /\ pc = "planned" \/ intent # "none" => latest[p] # record[p]
  /\ InPlace(p) \/ SetAside(p)
  /\ ~ At(p, {"unmark"})

EditsPlaced == \A p \in Paths : Standing(p) => Placed(p)

NoIntent ==
  intent = "none" => \A p \in Paths : temp[p] = Absent /\ phase[p] = "pending"

Guards ==
  /\ pc = "idle" => guarded = {}
  /\ pc \in RecordSteps => cur \notin guarded

Temporaries ==
  /\ pc = "own" => temp[cur] = Staged(cur)
  /\ pc = "install" => temp[cur] # Absent /\ phase[cur] = "owned"

WorkInv == TypeOK /\ AtWork /\ NoIntent /\ Guards /\ Temporaries

EditInv == WorkInv /\ EditsPlaced

LEMMA InitEdits == Init => EditInv
  BY InitTypes DEF Init, EditInv, WorkInv, EditsPlaced, Standing, AtWork, NoIntent, Guards,
    Temporaries, RecordSteps

LEMMA NextWork == WorkInv /\ [Next]_vars => WorkInv'
<1> SUFFICES ASSUME WorkInv, [Next]_vars PROVE WorkInv'
  OBVIOUS
<1>0. TypeOK'
  BY NextTypes DEF WorkInv
<1> USE InstallNames, <1>0 DEF WorkInv, AtWork, NoIntent, Guards, Temporaries, RecordSteps,
    TypeOK, Goto, Leave, Staged
<1>1. CASE BeginRound
  BY <1>1 DEF BeginRound
<1>2. CASE SetIntent
  BY <1>2 DEF SetIntent
<1>3. CASE Recover
  BY <1>3 DEF Recover
<1>4. CASE Retry
  BY <1>4 DEF Retry
<1>5. CASE Invalidate
  BY <1>5 DEF Invalidate, Rescan, DeleteIntent
<1>6. CASE StopApply
  BY <1>6 DEF StopApply, Rescan
<1>7. CASE Classify
  BY <1>7 DEF Classify
<1>8. CASE Finish
  BY <1>8 DEF Finish, DeleteIntent
<1>9. CASE Crash
  BY <1>9 DEF Crash
<1>10. ASSUME NEW q \in Paths, ApplyRecord(q) PROVE WorkInv'
  <2>1. CASE SkipRecord(q)
    BY <2>1 DEF SkipRecord, NothingToDo
  <2>2. CASE StartRecord(q)
    BY <2>2 DEF StartRecord, NothingToDo
  <2>3. CASE RecoverTombstone(q)
    BY <2>3 DEF RecoverTombstone, RemoveTemp, DeletionInterrupted, IsExpected
  <2>4. CASE RecoverDisplaced(q)
    BY <2>4 DEF RecoverDisplaced, RemoveTemp, AlreadyInstalled, DeletionInterrupted, IsExpected
  <2>5. CASE AdoptTemp(q)
    BY <2>5 DEF AdoptTemp, AdoptsTemp, StagingInterrupted, DeletionInterrupted
  <2>6. CASE RotateTemp(q)
    BY <2>6 DEF RotateTemp, RemoveTemp, AdoptsTemp, StagingInterrupted, DeletionInterrupted
  <2>7. CASE ResumeTemp(q)
    BY <2>7 DEF ResumeTemp, RemoveTemp, StagingInterrupted, DeletionInterrupted, IsExpected
  <2>8. CASE CreateTemp(q)
    BY <2>8 DEF CreateTemp, StagingInterrupted, DeletionInterrupted
  <2>9. CASE FillTemp(q)
    BY <2>9 DEF FillTemp
  <2>10. CASE OwnTemp(q)
    BY <2>10 DEF OwnTemp
  <2>11. CASE InstallNew(q)
    BY <2>11 DEF InstallNew, Exchange
  <2>12. CASE InstallOver(q)
    BY <2>12 DEF InstallOver, Exchange
  <2>13. CASE Verify(q)
    BY <2>13 DEF Verify, RemoveTemp, Matches, IsExpected
  <2>14. CASE Rollback(q)
    BY <2>14 DEF Rollback, Exchange
  <2>15. CASE DiscardTemp(q)
    BY <2>15 DEF DiscardTemp, RemoveTemp
  <2>16. CASE Unmark(q)
    BY <2>16 DEF Unmark
  <2>17. CASE Restore(q)
    BY <2>17 DEF Restore, Exchange
  <2>18. CASE RestoreDone(q)
    BY <2>18 DEF RestoreDone, RemoveTemp
  <2>19. CASE SyncRecord(q)
    BY <2>19 DEF SyncRecord
  <2>20. CASE SyncFails(q)
    BY <2>20 DEF SyncFails, CannotSync
  <2> QED
    BY <1>10, <2>1, <2>2, <2>3, <2>4, <2>5, <2>6, <2>7, <2>8, <2>9, <2>10, <2>11, <2>12, <2>13, <2>14, <2>15, <2>16, <2>17, <2>18, <2>19, <2>20 DEF ApplyRecord
<1>11. ASSUME NEW q \in Paths, NEW e \in UserEntries, UserWrites(q, e) PROVE WorkInv'
  BY <1>11 DEF UserWrites
<1>12. CASE UNCHANGED vars
  BY <1>12
<1> QED
  BY <1>1, <1>2, <1>3, <1>4, <1>5, <1>6, <1>7, <1>8, <1>9, <1>10, <1>11, <1>12 DEF Next, Apply

LEMMA NextEdits == EditInv /\ [Next]_vars => EditsPlaced'
<1> SUFFICES ASSUME EditInv, [Next]_vars, NEW p \in Paths, Standing(p)' PROVE Placed(p)'
  BY DEF EditsPlaced
<1>0. WorkInv'
  BY NextWork DEF EditInv
<1>00. Standing(p) => Placed(p)
  BY DEF EditInv, EditsPlaced
<1> USE InstallNames, <1>0, <1>00 DEF EditInv, WorkInv, AtWork, NoIntent, Guards, Temporaries,
    RecordSteps, TypeOK, Goto, Leave, Staged, Standing, Placed, InPlace, SetAside, At, Restaged
<1>1. CASE BeginRound
  BY <1>1 DEF BeginRound
<1>2. CASE SetIntent
  BY <1>2 DEF SetIntent
<1>3. CASE Recover
  BY <1>3 DEF Recover
<1>4. CASE Retry
  BY <1>4 DEF Retry
<1>5. CASE Invalidate
  BY <1>5 DEF Invalidate, Rescan, DeleteIntent, Unverified, IsExpected
<1>6. CASE StopApply
  BY <1>6 DEF StopApply, Rescan
<1>7. CASE Classify
  BY <1>7 DEF Classify
<1>8. CASE Finish
  BY <1>8 DEF Finish, DeleteIntent
<1>9. CASE Crash
  BY <1>9 DEF Crash
<1>10. ASSUME NEW q \in Paths, ApplyRecord(q) PROVE Placed(p)'
  <2>1. CASE SkipRecord(q)
    BY <2>1 DEF SkipRecord, NothingToDo
  <2>2. CASE StartRecord(q)
    BY <2>2 DEF StartRecord, NothingToDo
  <2>3. CASE RecoverTombstone(q)
    BY <2>3 DEF RecoverTombstone, RemoveTemp, DeletionInterrupted, IsExpected
  <2>4. CASE RecoverDisplaced(q)
    BY <2>4 DEF RecoverDisplaced, RemoveTemp, AlreadyInstalled, DeletionInterrupted, IsExpected
  <2>5. CASE AdoptTemp(q)
    BY <2>5 DEF AdoptTemp, AdoptsTemp, StagingInterrupted, DeletionInterrupted
  <2>6. CASE RotateTemp(q)
    BY <2>6 DEF RotateTemp, RemoveTemp, AdoptsTemp, StagingInterrupted, DeletionInterrupted
  <2>7. CASE ResumeTemp(q)
    BY <2>7 DEF ResumeTemp, RemoveTemp, StagingInterrupted, DeletionInterrupted, IsExpected
  <2>8. CASE CreateTemp(q)
    BY <2>8 DEF CreateTemp, StagingInterrupted, DeletionInterrupted
  <2>9. CASE FillTemp(q)
    BY <2>9 DEF FillTemp
  <2>10. CASE OwnTemp(q)
    BY <2>10 DEF OwnTemp
  <2>11. CASE InstallNew(q)
    BY <2>11 DEF InstallNew, Exchange
  <2>12. CASE InstallOver(q)
    BY <2>12 DEF InstallOver, Exchange
  <2>13. CASE Verify(q)
    BY <2>13 DEF Verify, RemoveTemp, Matches, IsExpected
  <2>14. CASE Rollback(q)
    BY <2>14 DEF Rollback, Exchange
  <2>15. CASE DiscardTemp(q)
    BY <2>15 DEF DiscardTemp, RemoveTemp
  <2>16. CASE Unmark(q)
    BY <2>16 DEF Unmark
  <2>17. CASE Restore(q)
    BY <2>17 DEF Restore, Exchange
  <2>18. CASE RestoreDone(q)
    BY <2>18 DEF RestoreDone, RemoveTemp
  <2>19. CASE SyncRecord(q)
    BY <2>19 DEF SyncRecord
  <2>20. CASE SyncFails(q)
    BY <2>20 DEF SyncFails, CannotSync
  <2> QED
    BY <1>10, <2>1, <2>2, <2>3, <2>4, <2>5, <2>6, <2>7, <2>8, <2>9, <2>10, <2>11, <2>12, <2>13, <2>14, <2>15, <2>16, <2>17, <2>18, <2>19, <2>20 DEF ApplyRecord
<1>11. ASSUME NEW q \in Paths, NEW e \in UserEntries, UserWrites(q, e) PROVE Placed(p)'
  BY <1>11 DEF UserWrites, InWindow, MeetsStaging, AsRecorded
<1>12. CASE UNCHANGED vars
  BY <1>12
<1> QED
  BY <1>1, <1>2, <1>3, <1>4, <1>5, <1>6, <1>7, <1>8, <1>9, <1>10, <1>11, <1>12 DEF Next, Apply

(* Whatever the user writes at a path after the scan, and outside the      *)
(* known gaps, is at its path or under the temporary name of the pending   *)
(* intent: through every exchange and its undoing, any number of crashes   *)
(* at any step, every recovery, and the writes that follow.                *)
THEOREM EditsAreKept == Spec => []EditKept
<1>1. Init => EditInv
  BY InitEdits
<1>2. EditInv /\ [Next]_vars => EditInv'
  BY NextWork, NextEdits DEF EditInv
<1>3. EditInv => EditKept
  BY DEF EditInv, EditsPlaced, Standing, Placed, InPlace, SetAside, EditKept, StillThere
<1> QED
  BY <1>1, <1>2, <1>3, PTL DEF Spec
----------------------------------------------------------------------------
(* What the installer leaves behind.                                       *)

(* What the installer made and p has no other reason to have: it was not   *)
(* there at the scan, and no write at p met a gap.                         *)
Foreign(p, made) == base[p] # made /\ ~ exposed[p]

(* A marker that nothing else explains is that of a deletion still to be   *)
(* finished: the one at work, or one that a recovery has yet to come to.   *)
MarkerPending(p) ==
  /\ plan[p] = Absent /\ phase[p] = "owned"
  /\ intent # "none" /\ pc # "planned"
  /\ pc \in RecordSteps \cup {"next", "invalid"} =>
       /\ p \in todo
       /\ recovering \/ At(p, {"verify", "rollback", "unmark", "restore", "restored"})
  /\ ~ At(p, {"fill", "own", "install", "discard", "sync", "invalid"})

(* Where a marker can be, and where under the temporary name.              *)
MarkerOK(p) ==
  /\ disk[p] = Marker /\ (intent # "none" \/ pc = "planned") => MarkerPending(p)
  /\ temp[p] = Marker =>
       /\ plan[p] = Absent
       /\ ~ At(p, {"verify", "rollback"})
       /\ At(p, {"restore"}) => disk[p] = Absent \/ phase[p] = "owned"

(* An incomplete temporary is being filled, or was when a crash came; it   *)
(* is then neither taken for complete nor for a displaced entry.           *)
PartialOK(p) ==
  /\ ~ (disk[p] = Partial /\ (intent # "none" \/ pc = "planned"))
  /\ temp[p] = Partial =>
       /\ phase[p] # "owned" \/ At(p, {"fill"})
       /\ ~ At(p, {"verify", "rollback"})
       /\ plan[p] = Absent \/ disk[p] # plan[p]
       /\ At(p, {"restore"}) => disk[p] = Absent

Leftovers ==
  /\ \A p \in Paths : Foreign(p, Marker) => MarkerOK(p)
  /\ \A p \in Paths : Foreign(p, Partial) => PartialOK(p)
  /\ \A p \in Paths : plan[p] \in {Marker, Partial} => base[p] = plan[p]
  /\ recovering => guarded = {} /\ pc # "idle"

LeftInv == ApplyInv /\ WorkInv /\ Leftovers

LEMMA InitLeft == Init => LeftInv
  BY InitApply, InitEdits, InstallNames DEF Init, EditInv, LeftInv, Leftovers, MarkerOK, PartialOK

LEMMA NextPlans ==
  ASSUME LeftInv, [Next]_vars
  PROVE  /\ \A p \in Paths : plan'[p] \in {Marker, Partial} => base'[p] = plan'[p]
         /\ recovering' => guarded' = {} /\ pc' # "idle"
<1> DEFINE I == /\ \A p \in Paths : plan[p] \in {Marker, Partial} => base[p] = plan[p]
                /\ recovering => guarded = {} /\ pc # "idle"
<1>0. WorkInv /\ WorkInv'
  BY NextWork DEF LeftInv
<1>00. I
  BY DEF LeftInv, Leftovers
<1> USE InstallNames, <1>0, <1>00 DEF WorkInv, Guards, TypeOK, Goto, Leave
<1>1. CASE BeginRound
  <2>1. PICK remote \in [Paths -> UserEntries], kept \in SUBSET Paths :
          plan' = [p \in Paths |-> IF p \in kept THEN disk[p] ELSE remote[p]]
    BY <1>1 DEF BeginRound
  <2>2. base' = disk /\ recovering' = recovering /\ pc = "idle"
    BY <1>1 DEF BeginRound
  <2>3. ASSUME NEW p \in Paths, plan'[p] \in {Marker, Partial} PROVE base'[p] = plan'[p]
    <3>1. remote[p] \in UserEntries /\ plan'[p] = IF p \in kept THEN disk[p] ELSE remote[p]
      BY <2>1
    <3> QED
      BY <2>2, <2>3, <3>1
  <2>4. ~ recovering'
    BY <2>2
  <2> QED
    BY <2>3, <2>4
<1>2. CASE SetIntent
  BY <1>2 DEF SetIntent
<1>3. CASE Recover
  BY <1>3 DEF Recover
<1>4. CASE Retry
  BY <1>4 DEF Retry
<1>5. CASE Invalidate
  BY <1>5 DEF Invalidate, Rescan, DeleteIntent, Unverified, IsExpected
<1>6. CASE StopApply
  BY <1>6 DEF StopApply, Rescan
<1>7. CASE Classify
  BY <1>7 DEF Classify
<1>8. CASE Finish
  BY <1>8 DEF Finish, DeleteIntent
<1>9. CASE Crash
  BY <1>9 DEF Crash
<1>10. ASSUME NEW q \in Paths, ApplyRecord(q) PROVE I'
  <2>1. CASE SkipRecord(q)
    BY <2>1 DEF SkipRecord, NothingToDo
  <2>2. CASE StartRecord(q)
    BY <2>2 DEF StartRecord, NothingToDo
  <2>3. CASE RecoverTombstone(q)
    BY <2>3 DEF RecoverTombstone, RemoveTemp, DeletionInterrupted, IsExpected
  <2>4. CASE RecoverDisplaced(q)
    BY <2>4 DEF RecoverDisplaced, RemoveTemp, AlreadyInstalled, DeletionInterrupted, IsExpected
  <2>5. CASE AdoptTemp(q)
    BY <2>5 DEF AdoptTemp, AdoptsTemp, StagingInterrupted, DeletionInterrupted
  <2>6. CASE RotateTemp(q)
    BY <2>6 DEF RotateTemp, RemoveTemp, AdoptsTemp, StagingInterrupted, DeletionInterrupted
  <2>7. CASE ResumeTemp(q)
    BY <2>7 DEF ResumeTemp, RemoveTemp, StagingInterrupted, DeletionInterrupted, IsExpected
  <2>8. CASE CreateTemp(q)
    BY <2>8 DEF CreateTemp, StagingInterrupted, DeletionInterrupted
  <2>9. CASE FillTemp(q)
    BY <2>9 DEF FillTemp
  <2>10. CASE OwnTemp(q)
    BY <2>10 DEF OwnTemp
  <2>11. CASE InstallNew(q)
    BY <2>11 DEF InstallNew, Exchange
  <2>12. CASE InstallOver(q)
    BY <2>12 DEF InstallOver, Exchange
  <2>13. CASE Verify(q)
    BY <2>13 DEF Verify, RemoveTemp, Matches, IsExpected
  <2>14. CASE Rollback(q)
    BY <2>14 DEF Rollback, Exchange
  <2>15. CASE DiscardTemp(q)
    BY <2>15 DEF DiscardTemp, RemoveTemp
  <2>16. CASE Unmark(q)
    BY <2>16 DEF Unmark
  <2>17. CASE Restore(q)
    BY <2>17 DEF Restore, Exchange
  <2>18. CASE RestoreDone(q)
    BY <2>18 DEF RestoreDone, RemoveTemp
  <2>19. CASE SyncRecord(q)
    BY <2>19 DEF SyncRecord
  <2>20. CASE SyncFails(q)
    BY <2>20 DEF SyncFails, CannotSync
  <2> QED
    BY <1>10, <2>1, <2>2, <2>3, <2>4, <2>5, <2>6, <2>7, <2>8, <2>9, <2>10, <2>11, <2>12, <2>13, <2>14, <2>15, <2>16, <2>17, <2>18, <2>19, <2>20 DEF ApplyRecord
<1>11. ASSUME NEW q \in Paths, NEW e \in UserEntries, UserWrites(q, e) PROVE I'
  BY <1>11 DEF UserWrites, InWindow, MeetsStaging, AsRecorded
<1>12. CASE UNCHANGED vars
  BY <1>12
<1> QED
  BY <1>1, <1>2, <1>3, <1>4, <1>5, <1>6, <1>7, <1>8, <1>9, <1>10, <1>11, <1>12 DEF Next, Apply

LEMMA NextMarkers ==
  ASSUME LeftInv, [Next]_vars, NEW p \in Paths, Foreign(p, Marker)'
  PROVE  MarkerOK(p)'
<1>0. WorkInv /\ WorkInv'
  BY NextWork DEF LeftInv
<1>00. /\ Foreign(p, Marker) => MarkerOK(p)
       /\ plan[p] = Marker => base[p] = Marker
       /\ recovering => guarded = {} /\ pc # "idle"
       /\ ApplyInv
  BY DEF LeftInv, Leftovers
<1> USE InstallNames, <1>0, <1>00 DEF WorkInv, AtWork, Guards, Temporaries, RecordSteps,
    TypeOK, Goto, Leave, Staged, MarkerOK, MarkerPending, ApplyInv, SkippedTombstones, Mine, At, Foreign, Restaged
<1>1. CASE BeginRound
  BY <1>1 DEF BeginRound, NoIntent
<1>2. CASE SetIntent
  BY <1>2 DEF SetIntent
<1>3. CASE Recover
  BY <1>3 DEF Recover
<1>4. CASE Retry
  BY <1>4 DEF Retry
<1>5. CASE Invalidate
  BY <1>5 DEF Invalidate, Rescan, DeleteIntent, Unverified, IsExpected
<1>6. CASE StopApply
  BY <1>6 DEF StopApply, Rescan
<1>7. CASE Classify
  BY <1>7 DEF Classify
<1>8. CASE Finish
  BY <1>8 DEF Finish, DeleteIntent
<1>9. CASE Crash
  BY <1>9 DEF Crash
<1>10. ASSUME NEW q \in Paths, ApplyRecord(q) PROVE MarkerOK(p)'
  <2>1. CASE SkipRecord(q)
    BY <2>1 DEF SkipRecord, NothingToDo
  <2>2. CASE StartRecord(q)
    BY <2>2 DEF StartRecord, NothingToDo
  <2>3. CASE RecoverTombstone(q)
    BY <2>3 DEF RecoverTombstone, RemoveTemp, DeletionInterrupted, IsExpected
  <2>4. CASE RecoverDisplaced(q)
    BY <2>4 DEF RecoverDisplaced, RemoveTemp, AlreadyInstalled, DeletionInterrupted, IsExpected
  <2>5. CASE AdoptTemp(q)
    BY <2>5 DEF AdoptTemp, AdoptsTemp, StagingInterrupted, DeletionInterrupted
  <2>6. CASE RotateTemp(q)
    BY <2>6 DEF RotateTemp, RemoveTemp, AdoptsTemp, StagingInterrupted, DeletionInterrupted
  <2>7. CASE ResumeTemp(q)
    BY <2>7 DEF ResumeTemp, RemoveTemp, StagingInterrupted, DeletionInterrupted, IsExpected
  <2>8. CASE CreateTemp(q)
    BY <2>8 DEF CreateTemp, StagingInterrupted, DeletionInterrupted
  <2>9. CASE FillTemp(q)
    BY <2>9 DEF FillTemp
  <2>10. CASE OwnTemp(q)
    BY <2>10 DEF OwnTemp
  <2>11. CASE InstallNew(q)
    BY <2>11 DEF InstallNew, Exchange
  <2>12. CASE InstallOver(q)
    BY <2>12 DEF InstallOver, Exchange
  <2>13. CASE Verify(q)
    BY <2>13 DEF Verify, RemoveTemp, Matches, IsExpected
  <2>14. CASE Rollback(q)
    BY <2>14 DEF Rollback, Exchange
  <2>15. CASE DiscardTemp(q)
    BY <2>15 DEF DiscardTemp, RemoveTemp
  <2>16. CASE Unmark(q)
    BY <2>16 DEF Unmark
  <2>17. CASE Restore(q)
    BY <2>17 DEF Restore, Exchange
  <2>18. CASE RestoreDone(q)
    BY <2>18 DEF RestoreDone, RemoveTemp
  <2>19. CASE SyncRecord(q)
    BY <2>19 DEF SyncRecord
  <2>20. CASE SyncFails(q)
    BY <2>20 DEF SyncFails, CannotSync
  <2> QED
    BY <1>10, <2>1, <2>2, <2>3, <2>4, <2>5, <2>6, <2>7, <2>8, <2>9, <2>10, <2>11, <2>12, <2>13, <2>14, <2>15, <2>16, <2>17, <2>18, <2>19, <2>20 DEF ApplyRecord
<1>11. ASSUME NEW q \in Paths, NEW e \in UserEntries, UserWrites(q, e) PROVE MarkerOK(p)'
  BY <1>11 DEF UserWrites, InWindow, MeetsStaging, AsRecorded
<1>12. CASE UNCHANGED vars
  BY <1>12
<1> QED
  BY <1>1, <1>2, <1>3, <1>4, <1>5, <1>6, <1>7, <1>8, <1>9, <1>10, <1>11, <1>12 DEF Next, Apply

LEMMA NextPartials ==
  ASSUME LeftInv, [Next]_vars, NEW p \in Paths, Foreign(p, Partial)'
  PROVE  PartialOK(p)'
<1>0. WorkInv /\ WorkInv'
  BY NextWork DEF LeftInv
<1>00. /\ Foreign(p, Partial) => PartialOK(p)
       /\ plan[p] = Partial => base[p] = Partial
       /\ recovering => guarded = {} /\ pc # "idle"
       /\ ApplyInv
  BY DEF LeftInv, Leftovers
<1> USE InstallNames, <1>0, <1>00 DEF WorkInv, AtWork, Guards, Temporaries, RecordSteps,
    TypeOK, Goto, Leave, Staged, PartialOK, At, Foreign, Restaged
<1>1. CASE BeginRound
  BY <1>1 DEF BeginRound, NoIntent
<1>2. CASE SetIntent
  BY <1>2 DEF SetIntent
<1>3. CASE Recover
  BY <1>3 DEF Recover
<1>4. CASE Retry
  BY <1>4 DEF Retry
<1>5. CASE Invalidate
  BY <1>5 DEF Invalidate, Rescan, DeleteIntent, Unverified, IsExpected
<1>6. CASE StopApply
  BY <1>6 DEF StopApply, Rescan
<1>7. CASE Classify
  BY <1>7 DEF Classify
<1>8. CASE Finish
  BY <1>8 DEF Finish, DeleteIntent
<1>9. CASE Crash
  BY <1>9 DEF Crash
<1>10. ASSUME NEW q \in Paths, ApplyRecord(q) PROVE PartialOK(p)'
  <2>1. CASE SkipRecord(q)
    BY <2>1 DEF SkipRecord, NothingToDo
  <2>2. CASE StartRecord(q)
    BY <2>2 DEF StartRecord, NothingToDo
  <2>3. CASE RecoverTombstone(q)
    BY <2>3 DEF RecoverTombstone, RemoveTemp, DeletionInterrupted, IsExpected
  <2>4. CASE RecoverDisplaced(q)
    BY <2>4 DEF RecoverDisplaced, RemoveTemp, AlreadyInstalled, DeletionInterrupted, IsExpected
  <2>5. CASE AdoptTemp(q)
    BY <2>5 DEF AdoptTemp, AdoptsTemp, StagingInterrupted, DeletionInterrupted
  <2>6. CASE RotateTemp(q)
    BY <2>6 DEF RotateTemp, RemoveTemp, AdoptsTemp, StagingInterrupted, DeletionInterrupted
  <2>7. CASE ResumeTemp(q)
    BY <2>7 DEF ResumeTemp, RemoveTemp, StagingInterrupted, DeletionInterrupted, IsExpected
  <2>8. CASE CreateTemp(q)
    BY <2>8 DEF CreateTemp, StagingInterrupted, DeletionInterrupted
  <2>9. CASE FillTemp(q)
    BY <2>9 DEF FillTemp
  <2>10. CASE OwnTemp(q)
    BY <2>10 DEF OwnTemp
  <2>11. CASE InstallNew(q)
    BY <2>11 DEF InstallNew, Exchange
  <2>12. CASE InstallOver(q)
    BY <2>12 DEF InstallOver, Exchange
  <2>13. CASE Verify(q)
    BY <2>13 DEF Verify, RemoveTemp, Matches, IsExpected
  <2>14. CASE Rollback(q)
    BY <2>14 DEF Rollback, Exchange
  <2>15. CASE DiscardTemp(q)
    BY <2>15 DEF DiscardTemp, RemoveTemp
  <2>16. CASE Unmark(q)
    BY <2>16 DEF Unmark
  <2>17. CASE Restore(q)
    BY <2>17 DEF Restore, Exchange
  <2>18. CASE RestoreDone(q)
    BY <2>18 DEF RestoreDone, RemoveTemp
  <2>19. CASE SyncRecord(q)
    BY <2>19 DEF SyncRecord
  <2>20. CASE SyncFails(q)
    BY <2>20 DEF SyncFails, CannotSync
  <2> QED
    BY <1>10, <2>1, <2>2, <2>3, <2>4, <2>5, <2>6, <2>7, <2>8, <2>9, <2>10, <2>11, <2>12, <2>13, <2>14, <2>15, <2>16, <2>17, <2>18, <2>19, <2>20 DEF ApplyRecord
<1>11. ASSUME NEW q \in Paths, NEW e \in UserEntries, UserWrites(q, e) PROVE PartialOK(p)'
  BY <1>11 DEF UserWrites, InWindow, MeetsStaging, AsRecorded
<1>12. CASE UNCHANGED vars
  BY <1>12
<1> QED
  BY <1>1, <1>2, <1>3, <1>4, <1>5, <1>6, <1>7, <1>8, <1>9, <1>10, <1>11, <1>12 DEF Next, Apply

LEMMA NextLeft == LeftInv /\ [Next]_vars => LeftInv'
  BY NextApply, NextWork, NextPlans, NextMarkers, NextPartials DEF LeftInv, Leftovers

(* Nothing that the installer made stays at a path when its intent goes:   *)
(* through every rollback of what the user wrote meanwhile, any number of  *)
(* crashes at any step, and every recovery; but for the marker of a        *)
(* deletion that a recovery gives up before it has come to it, and writes  *)
(* in the known gaps.  A plan that finishes has left no marker at all.     *)
THEOREM LeftoversAreOut == Spec => LeftoversStayOut
<1>1. Init => LeftInv
  BY InitLeft
<1>2. LeftInv /\ [Next]_vars => LeftInv'
  BY NextLeft
<1>3. LeftInv /\ [Next]_vars => [GoneClean]_vars
  <2> SUFFICES ASSUME LeftInv, Next, intent # "none", intent' = "none",
                      NEW p \in Paths, disk[p] \in {Marker, Partial},
                      base[p] # disk[p], ~ exposed[p]
               PROVE  disk[p] = Marker /\ recovering /\ p \in todo \ {cur}
    BY DEF GoneClean
  <2>1. Finish \/ Invalidate
    <3>1. ASSUME NEW q \in Paths PROVE ~ ApplyRecord(q)
      BY DEF ApplyRecord, SkipRecord, StartRecord, RecoverTombstone, RecoverDisplaced, AdoptTemp,
        RotateTemp, ResumeTemp, CreateTemp, FillTemp, OwnTemp, InstallNew, InstallOver, Verify,
        Rollback, DiscardTemp, Unmark, Restore, RestoreDone, SyncRecord, SyncFails
    <3> QED
      BY <3>1 DEF Next, Apply, BeginRound, SetIntent, Recover, Retry, StopApply, Classify, Crash,
        UserWrites
  <2>2. disk[p] = Marker /\ MarkerPending(p)
    BY InstallNames DEF LeftInv, Leftovers, Foreign, MarkerOK, PartialOK
  <2>3. pc = "invalid" \/ (pc = "next" /\ todo = {})
    BY <2>1 DEF Finish, Invalidate
  <2> QED
    BY <2>2, <2>3 DEF MarkerPending, At, RecordSteps, LeftInv, WorkInv, AtWork, TypeOK
<1>4. LeftInv /\ [Next]_vars => [FinishedClean]_vars
  BY InstallNames DEF LeftInv, ApplyInv, Done, AtPlan, Mine, Finish, FinishedClean
<1> QED
  BY <1>1, <1>2, <1>3, <1>4, PTL DEF Spec, LeftoversStayOut
============================================================================
