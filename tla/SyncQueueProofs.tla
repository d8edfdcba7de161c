-------------------------- MODULE SyncQueueProofs --------------------------
(***************************************************************************)
(* The scheduler's type invariant; that neither a cleanup, nor a reclaim,  *)
(* nor another permit ever takes the active row from a process that holds  *)
(* a permit; that requests are served in their order; and that the table   *)
(* implements the slot of InstallationSlot: for any numbers of processes,  *)
(* shares, tokens and rows and any crashes.                                *)
(*                                                                         *)
(* The argument.  A process holds the shared flock of its request from the *)
(* creation of the owner file until its row is gone (OwnersLocked), a      *)
(* cleanup deletes a row only while it has the file exclusively            *)
(* (HeldUnowned), and a request belongs to one process (RequestsApart,     *)
(* SharesApart): a worker takes over only rows of its own share, which no  *)
(* other process has as its request.  So only the owner deletes its active *)
(* row, and the order of its file operations keeps an owner file for every *)
(* row (RowHasOwnerFile, EndedGone).                                       *)
(*                                                                         *)
(* Every step either queues one new row behind all others, or deletes      *)
(* rows, moves an inactive one to the end, or sets or clears one active    *)
(* flag (Joins, Stays).  Each of these keeps the tickets apart and what    *)
(* was queued earlier before what was queued later (LineInv), and each is  *)
(* a step of the slot (SlotStep).  That a worker queues no second row of a *)
(* generation needs the publication lock: the worker looked for the row    *)
(* when it took the lock, and nobody can have queued one since (NoRival).  *)
(***************************************************************************)
EXTENDS SyncQueueSlot, TLAPS

(* The holder of a permit that publishes the managed request of its share. *)
Handing(p) == global = p /\ pc[p] \in {"publish"} \cup PublishSteps \cup SweepSteps

(* A sweep between two polls of a waiting request.                         *)
Polling(p) == pc[p] \in SweepSteps /\ publisher # p

Waiting(p) == pc[p] \in {"wait", "head", "prepare", "activate", "drop"} \/ Polling(p)

(* The process has its request, and the flock on its owner file.           *)
Owning(p) ==
  \/ Waiting(p) \/ Handing(p)
  \/ pc[p] \in {"permit", "unlock"}
  \/ pc[p] = "insert" /\ global # p

(* sync.lock: who can have it, and who must.                               *)
GlobalUse ==
  \A p \in Procs :
    /\ global = p => /\ pc[p] \notin {"idle", "wait", "drop", "handoff", "reclaim"}
                     /\ pc[p] \in SweepSteps => publisher = p
    /\ pc[p] \in {"head", "prepare", "activate", "permit"} => global = p
    /\ Handing(p) => job[p] \in Shares
    /\ p \in Shares => job[p] = NoShare

(* The publication lock, and who reclaims under it.                        *)
PublisherUse ==
  \A p \in Procs : /\ pc[p] \in PublishSteps => publisher = p
                   /\ pc[p] = "reclaim" => p \in Shares

(* The only active row is the permit's.                                    *)
PermitRow == \A p \in Procs : pc[p] = "permit" \/ Handing(p) => Active = {req[p]}

(* A request's owner has its flock.                                        *)
OwnersLocked == \A p \in Procs : Owning(p) => req[p] \in Tokens /\ p \in locks[req[p]]

(* What is about to be inserted: a locked file without a row.              *)
InsertingFresh ==
  \A p \in Procs : pc[p] = "insert" =>
    IF global = p
    THEN /\ managed[p] \in files \ rows /\ p \in locks[managed[p]]
         /\ \A q \in Procs : req[q] # managed[p]
    ELSE req[p] \in files \ rows

(* A file that a cleanup holds exclusively has no owner.                   *)
HeldUnowned == \A p \in Procs : held[p] # NoToken => locks[held[p]] = {}

(* A cleanup deletes the row before it unlinks the file.                   *)
UnlinkedGone == \A p \in Procs : pc[p] = "unlinkStale" => held[p] \notin rows

(* A request belongs to one process.                                       *)
RequestsApart == \A p, q \in Procs : req[p] # NoToken /\ req[p] = req[q] => p = q

(* A worker's request is for its share, a client's for none.               *)
SharesApart ==
  \A p \in Procs : req[p] \in rows =>
    queue[req[p]].share = IF p \in Shares THEN p ELSE NoShare

(* A request that waits is not active.                                     *)
WaitingInactive == \A p \in Procs : Waiting(p) => req[p] \notin Active

(* A request that has ended has no row.                                    *)
EndedGone == \A p \in Procs : pc[p] \in {"unlock", "unlink"} => req[p] \notin rows

IInv ==
  /\ TypeOK /\ GlobalUse /\ PublisherUse /\ PermitRow /\ OwnersLocked
  /\ InsertingFresh /\ HeldUnowned /\ UnlinkedGone /\ RequestsApart
  /\ SharesApart /\ WaitingInactive /\ EndedGone /\ RowHasOwnerFile

----------------------------------------------------------------------------
(* What the operations do to the table.                                    *)

SharesKept == \A t \in rows \cap rows' : queue'[t].share = queue[t].share

QueueTyped == rows \subseteq Tokens /\ queue \in [rows -> Row]

(* A deletion changes nothing of the rows that stay but their history.     *)
LEMMA Deletion ==
  ASSUME TypeOK, NEW S, DeleteRows(S)
  PROVE  rows' = rows \ S /\ Active' = Active \ S /\ SharesKept /\ QueueTyped'
<1>1. rows' = rows \ S /\ \A t \in rows' : queue'[t] = [queue[t] EXCEPT !.ahead = @ \ S]
  BY DEF DeleteRows, rows
<1>2. ASSUME NEW t \in rows'
      PROVE  /\ queue'[t].active = queue[t].active /\ queue'[t].share = queue[t].share
             /\ queue'[t] \in Row
  <2>1. queue[t] \in Row
    BY <1>1, <1>2 DEF TypeOK
  <2>2. queue[t].ahead \ S \in SUBSET Tokens
    BY <2>1 DEF Row
  <2> QED
    BY <1>1, <1>2, <2>1, <2>2 DEF Row
<1>3. queue' \in [rows' -> Row]
  BY <1>1, <1>2 DEF DeleteRows, rows
<1> QED
  BY <1>1, <1>2, <1>3 DEF Active, SharesKept, QueueTyped, TypeOK

(* cancel_sync_request leaves the active rows alone.                       *)
LEMMA Cancellation ==
  ASSUME TypeOK, NEW t, CancelRow(t)
  PROVE  /\ rows' = rows \ ({t} \ Active) /\ Active' = Active
         /\ SharesKept /\ QueueTyped'
<1>1. DeleteRows({t} \ Active)
  BY DEF CancelRow
<1> QED
  BY <1>1, Deletion

(* A new row is inactive, and every other row stays as it is.              *)
LEMMA Insertion ==
  ASSUME TypeOK, NEW t \in Tokens \ rows, NEW n \in Nat,
         NEW s \in Shares \cup {NoShare}, NEW g \in Nat, InsertRow(t, n, s, g)
  PROVE  /\ rows' = rows \cup {t} /\ Active' = Active /\ SharesKept
         /\ queue'[t].share = s /\ QueueTyped'
<1> DEFINE row == [ticket |-> n, share |-> s, gen |-> g, active |-> FALSE, ahead |-> rows]
<1>1. row \in Row
  BY DEF Row, TypeOK
<1>2. rows' = rows \cup {t} /\ queue'[t] = row /\ \A u \in rows : queue'[u] = queue[u]
  BY DEF InsertRow, rows
<1>3. queue' \in [rows' -> Row]
  BY <1>1, <1>2 DEF InsertRow, rows, TypeOK
<1>4. row.active = FALSE /\ row.share = s
  OBVIOUS
<1> HIDE DEF row
<1> QED
  BY <1>2, <1>3, <1>4 DEF Active, SharesKept, QueueTyped, TypeOK

(* A request that rejoins moves to the tail and keeps the rest of its row. *)
LEMMA Rejoining ==
  ASSUME TypeOK, NEW t \in rows, NEW n \in Nat,
         queue' = [u \in rows |-> IF u = t
                                  THEN [queue[t] EXCEPT !.ticket = n, !.ahead = rows \ {t}]
                                  ELSE [queue[u] EXCEPT !.ahead = @ \ {t}]]
  PROVE  rows' = rows /\ Active' = Active /\ SharesKept /\ QueueTyped'
<1>1. rows' = rows
  BY DEF rows
<1>2. ASSUME NEW u \in rows
      PROVE  /\ queue'[u].active = queue[u].active /\ queue'[u].share = queue[u].share
             /\ queue'[u] \in Row
  <2>1. queue[u] \in Row
    BY <1>2 DEF TypeOK
  <2>2. queue[u].ahead \ {t} \in SUBSET Tokens /\ rows \ {t} \in SUBSET Tokens
    BY <2>1 DEF Row, TypeOK
  <2> QED
    BY <1>2, <2>1, <2>2 DEF Row
<1>3. queue' \in [rows' -> Row]
  BY <1>1, <1>2
<1> QED
  BY <1>1, <1>2, <1>3 DEF Active, SharesKept, QueueTyped, TypeOK

(* The active flag of one row is written.                                  *)
LEMMA Flagging ==
  ASSUME TypeOK, NEW t \in rows, NEW b \in BOOLEAN,
         queue' = [queue EXCEPT ![t].active = b]
  PROVE  /\ rows' = rows /\ Active' = IF b THEN Active \cup {t} ELSE Active \ {t}
         /\ SharesKept /\ QueueTyped'
<1>1. rows' = rows
  BY DEF rows
<1>2. /\ queue'[t].active = b /\ queue'[t].share = queue[t].share
      /\ \A u \in rows \ {t} : queue'[u] = queue[u]
  BY DEF TypeOK, Row
<1>3. queue'[t] \in Row
  <2>1. queue[t] \in Row /\ queue'[t] = [queue[t] EXCEPT !.active = b]
    BY DEF TypeOK
  <2> QED
    BY <2>1 DEF Row
<1>4. queue' \in [rows' -> Row]
  BY <1>1, <1>2, <1>3 DEF TypeOK
<1> QED
  BY <1>1, <1>2, <1>4 DEF Active, SharesKept, QueueTyped, TypeOK

(* A table that is not written.                                            *)
LEMMA Untouched ==
  ASSUME TypeOK, queue' = queue
  PROVE  rows' = rows /\ Active' = Active /\ SharesKept /\ QueueTyped'
  BY DEF rows, Active, SharesKept, QueueTyped, TypeOK

(* A pass strikes a token off the list it works through.                   *)
LEMMA Striking ==
  ASSUME TypeOK, NEW p \in Procs, NEW t
  PROVE  [todo EXCEPT ![p] = @ \ {t}] \in [Procs -> SUBSET Tokens]
<1>1. todo[p] \ {t} \in SUBSET Tokens
  BY DEF TypeOK
<1> QED
  BY <1>1 DEF TypeOK

(* A sweep begins with some set of rows; which ones does not matter here.  *)
LEMMA Sweeping ==
  ASSUME TypeOK, NEW p \in Procs, BeginSweep(p)
  PROVE  pc' = [pc EXCEPT ![p] = "sweep"] /\ todo' \in [Procs -> SUBSET Tokens]
  BY DEF BeginSweep, Goto, TypeOK

----------------------------------------------------------------------------
(* Every step preserves the invariant.                                     *)

USE NamesAssumption DEF Owning, Waiting, Polling, Handing, Goto, Procs, Steps, SweepSteps,
  PublishSteps, ownerDir, osLocks, shareTab, local, SharesKept, QueueTyped

(* A client asks: it has no request yet, so it owns nothing.               *)
LEMMA RequestStep ==
  ASSUME IInv, NEW c \in Clients, NEW s \in Shares \cup {NoShare}, Request(c, s)
  PROVE  IInv'
<1>1. rows' = rows /\ Active' = Active /\ SharesKept /\ QueueTyped'
  BY Untouched DEF Request, IInv
<1> QED
  BY <1>1 DEF Request, IInv, TypeOK, GlobalUse, PublisherUse, PermitRow, OwnersLocked,
    InsertingFresh, HeldUnowned, UnlinkedGone, RequestsApart, SharesApart, WaitingInactive,
    EndedGone, RowHasOwnerFile

(* A worker asks, likewise.                                                *)
LEMMA StartWorkerStep ==
  ASSUME IInv, NEW s \in Shares, StartWorker(s)
  PROVE  IInv'
<1>1. rows' = rows /\ Active' = Active /\ SharesKept /\ QueueTyped'
  BY Untouched DEF StartWorker, IInv
<1> QED
  BY <1>1 DEF StartWorker, IInv, TypeOK, GlobalUse, PublisherUse, PermitRow, OwnersLocked,
    InsertingFresh, HeldUnowned, UnlinkedGone, RequestsApart, SharesApart, WaitingInactive,
    EndedGone, RowHasOwnerFile

(* The publisher is new, and a worker takes up a row only it can have.     *)
LEMMA LockPublicationStep ==
  ASSUME IInv, NEW p \in Procs, LockPublication(p)
  PROVE  IInv'
<1>1. rows' = rows /\ Active' = Active /\ SharesKept /\ QueueTyped'
  BY Untouched DEF LockPublication, IInv
<1>2. BeginSweep(p) => pc' = [pc EXCEPT ![p] = "sweep"] /\ todo' \in [Procs -> SUBSET Tokens]
  BY Sweeping DEF IInv
<1>3. todo' \in [Procs -> SUBSET Tokens] /\ req' \in [Procs -> Tokens \cup {NoToken}]
  BY <1>2 DEF LockPublication, IInv, TypeOK
<1>4. /\ pc[p] = "publish" /\ publisher = NoProc /\ publisher' = p
      /\ UNCHANGED <<queue, ownerDir, global, shareTab, held, job, seen, managed>>
      /\ \/ \E t \in rows : /\ p \in Shares /\ queue[t].share = p
                          /\ req' = [req EXCEPT ![p] = t] /\ pc' = [pc EXCEPT ![p] = "reclaim"]
         \/ req' = req /\ pc' = [pc EXCEPT ![p] = "sweep"]
  BY <1>2 DEF LockPublication, ManagedRow
<1>5. TypeOK'
  BY <1>1, <1>3, <1>4 DEF IInv, TypeOK, GlobalUse, PublisherUse, OwnersLocked,
    InsertingFresh
<1>6. GlobalUse'
  BY <1>1, <1>3, <1>4 DEF IInv, TypeOK, GlobalUse, PublisherUse
<1>7. PublisherUse'
  BY <1>1, <1>3, <1>4 DEF IInv, TypeOK, PublisherUse
<1>8. PermitRow'
  BY <1>1, <1>3, <1>4 DEF IInv, TypeOK, GlobalUse, PublisherUse, PermitRow, OwnersLocked,
    HeldUnowned, RequestsApart, WaitingInactive
<1>9. WaitingInactive'
  BY <1>1, <1>3, <1>4 DEF IInv, TypeOK, GlobalUse, PublisherUse, PermitRow, RequestsApart,
    WaitingInactive, EndedGone
<1>10. EndedGone'
  BY <1>1, <1>3, <1>4 DEF IInv, TypeOK, InsertingFresh, RequestsApart, WaitingInactive,
    EndedGone
<1>11. OwnersLocked' /\ InsertingFresh' /\ HeldUnowned'
  BY <1>1, <1>3, <1>4 DEF IInv, TypeOK, GlobalUse, PublisherUse, OwnersLocked,
    InsertingFresh, HeldUnowned, RequestsApart
<1>12. RequestsApart'
  BY <1>1, <1>3, <1>4 DEF IInv, TypeOK, RequestsApart, SharesApart
<1>13. SharesApart'
  BY <1>1, <1>3, <1>4 DEF IInv, TypeOK, InsertingFresh, RequestsApart, SharesApart
<1>14. UnlinkedGone' /\ RowHasOwnerFile'
  BY <1>1, <1>3, <1>4 DEF IInv, TypeOK, OwnersLocked, InsertingFresh, HeldUnowned,
    UnlinkedGone, EndedGone, RowHasOwnerFile
<1> QED
  BY <1>5, <1>6, <1>7, <1>8, <1>9, <1>10, <1>11, <1>12, <1>13, <1>14 DEF IInv

(* A cleanup takes only files that no process holds.                       *)
LEMMA SweepOpenStep ==
  ASSUME IInv, NEW p \in Procs, SweepOpen(p)
  PROVE  IInv'
<1>1. rows' = rows /\ Active' = Active /\ SharesKept /\ QueueTyped'
  <2>1. PICK t \in todo[p] : DeleteRows({t} \ files)
    BY DEF SweepOpen
  <2>2. rows \ ({t} \ files) = rows /\ Active \ ({t} \ files) = Active
    BY DEF IInv, RowHasOwnerFile, Active
  <2> QED
    BY <2>1, <2>2, Deletion DEF IInv
<1>2. todo' \in [Procs -> SUBSET Tokens]
  BY Striking DEF SweepOpen, IInv, TypeOK
<1> QED
  BY <1>1, <1>2 DEF SweepOpen, Lockable, IInv, TypeOK, GlobalUse, PublisherUse, PermitRow,
    OwnersLocked, InsertingFresh, HeldUnowned, UnlinkedGone, RequestsApart, SharesApart,
    WaitingInactive, EndedGone, RowHasOwnerFile

(* The row it deletes has no owner: it is nobody's active row.             *)
LEMMA SweepDeleteStep ==
  ASSUME IInv, NEW p \in Procs, SweepDelete(p)
  PROVE  IInv'
<1>1. rows' = rows \ {held[p]} /\ Active' = Active \ {held[p]} /\ SharesKept /\ QueueTyped'
  BY Deletion DEF SweepDelete, IInv
<1>2. /\ todo' \in [Procs -> SUBSET Tokens] /\ pc' \in [Procs -> Steps]
      /\ held' \in [Procs -> Tokens \cup {NoToken}]
  BY Striking DEF SweepDelete, IInv, TypeOK
<1>3. TypeOK'
  BY <1>1, <1>2 DEF SweepDelete, IInv, TypeOK, GlobalUse, PublisherUse, OwnersLocked,
    InsertingFresh
<1>4. GlobalUse'
  BY <1>1, <1>2 DEF SweepDelete, IInv, TypeOK, GlobalUse, PublisherUse
<1>5. PublisherUse'
  BY <1>1, <1>2 DEF SweepDelete, IInv, TypeOK, PublisherUse
<1>6. PermitRow' /\ WaitingInactive' /\ EndedGone'
  BY <1>1, <1>2 DEF SweepDelete, IInv, TypeOK, GlobalUse, PublisherUse, PermitRow,
    OwnersLocked, InsertingFresh, HeldUnowned, RequestsApart, WaitingInactive, EndedGone
<1>7. OwnersLocked'
  BY <1>1, <1>2 DEF SweepDelete, IInv, TypeOK, GlobalUse, PublisherUse, OwnersLocked,
    InsertingFresh, HeldUnowned, RequestsApart
<1>8. InsertingFresh'
  BY <1>1, <1>2 DEF SweepDelete, IInv, TypeOK, GlobalUse, PublisherUse, OwnersLocked,
    InsertingFresh, HeldUnowned, RequestsApart
<1>9. HeldUnowned'
  BY <1>1, <1>2 DEF SweepDelete, IInv, TypeOK, HeldUnowned
<1>10. RequestsApart' /\ SharesApart'
  BY <1>1, <1>2 DEF SweepDelete, IInv, TypeOK, InsertingFresh, RequestsApart, SharesApart
<1>11. UnlinkedGone'
  BY <1>1, <1>2 DEF SweepDelete, IInv, TypeOK, OwnersLocked, InsertingFresh, HeldUnowned,
    UnlinkedGone
<1>12. RowHasOwnerFile'
  BY <1>1, <1>2 DEF SweepDelete, IInv, TypeOK, InsertingFresh, UnlinkedGone, EndedGone,
    RowHasOwnerFile
<1> QED
  BY <1>3, <1>4, <1>5, <1>6, <1>7, <1>8, <1>9, <1>10, <1>11, <1>12 DEF IInv

(* It unlinks only what it has deleted.                                    *)
LEMMA SweepUnlinkStep ==
  ASSUME IInv, NEW p \in Procs, SweepUnlink(p)
  PROVE  IInv'
<1>1. rows' = rows /\ Active' = Active /\ SharesKept /\ QueueTyped'
  BY Untouched DEF SweepUnlink, IInv
<1>2. todo' \in [Procs -> SUBSET Tokens]
  BY Striking DEF SweepUnlink, IInv, TypeOK
<1>3. TypeOK' /\ GlobalUse' /\ PublisherUse'
  BY <1>1, <1>2 DEF SweepUnlink, IInv, TypeOK, GlobalUse, PublisherUse, OwnersLocked,
    InsertingFresh
<1>4. PermitRow' /\ WaitingInactive' /\ EndedGone'
  BY <1>1, <1>2 DEF SweepUnlink, IInv, TypeOK, GlobalUse, PublisherUse, PermitRow,
    OwnersLocked, InsertingFresh, HeldUnowned, RequestsApart, WaitingInactive, EndedGone
<1>5. OwnersLocked' /\ InsertingFresh' /\ HeldUnowned'
  BY <1>1, <1>2 DEF SweepUnlink, IInv, TypeOK, GlobalUse, PublisherUse, OwnersLocked,
    InsertingFresh, HeldUnowned, RequestsApart
<1>6. RequestsApart' /\ SharesApart'
  BY <1>1, <1>2 DEF SweepUnlink, IInv, TypeOK, InsertingFresh, RequestsApart, SharesApart
<1>7. UnlinkedGone' /\ RowHasOwnerFile'
  BY <1>1, <1>2 DEF SweepUnlink, IInv, TypeOK, OwnersLocked, InsertingFresh, HeldUnowned,
    UnlinkedGone, EndedGone, RowHasOwnerFile
<1> QED
  BY <1>3, <1>4, <1>5, <1>6, <1>7 DEF IInv

(* A sweep hands over to the orphan scan or to the next poll.              *)
LEMMA SweepDoneStep ==
  ASSUME IInv, NEW p \in Procs, SweepDone(p)
  PROVE  IInv'
<1>1. rows' = rows /\ Active' = Active /\ SharesKept /\ QueueTyped'
  BY Untouched DEF SweepDone, IInv
<1>2. todo' \in [Procs -> SUBSET Tokens]
  BY DEF SweepDone, IInv, TypeOK
<1> QED
  BY <1>1, <1>2 DEF SweepDone, Publishing, IInv, TypeOK, GlobalUse, PublisherUse, PermitRow,
    OwnersLocked, InsertingFresh, HeldUnowned, UnlinkedGone, RequestsApart, SharesApart,
    WaitingInactive, EndedGone, RowHasOwnerFile

(* The orphan scan takes only files that no process holds.                 *)
LEMMA OrphanScanStep ==
  ASSUME IInv, NEW p \in Procs, OrphanScan(p)
  PROVE  IInv'
<1>1. rows' = rows /\ Active' = Active /\ SharesKept /\ QueueTyped'
  BY Untouched DEF OrphanScan, IInv
<1>2. todo' \in [Procs -> SUBSET Tokens]
  BY Striking DEF OrphanScan, OrphanVanished, OrphanOpen, FailPublication, IInv, TypeOK
<1>3. /\ held' \in [Procs -> Tokens \cup {NoToken}] /\ job' \in [Procs -> Shares \cup {NoShare}]
      /\ pc' \in [Procs -> Steps]
  BY DEF OrphanScan, OrphanVanished, OrphanOpen, FailPublication, IInv, TypeOK
<1>4. TypeOK'
  BY <1>1, <1>2, <1>3 DEF OrphanScan, OrphanVanished, OrphanOpen, FailPublication,
    HandingOff, Lockable, IInv, TypeOK, GlobalUse, PublisherUse, OwnersLocked, InsertingFresh
<1>5. GlobalUse'
  BY <1>1, <1>2, <1>3 DEF OrphanScan, OrphanVanished, OrphanOpen, FailPublication,
    HandingOff, Lockable, IInv, TypeOK, GlobalUse, PublisherUse
<1>6. PublisherUse'
  BY <1>1, <1>2, <1>3 DEF OrphanScan, OrphanVanished, OrphanOpen, FailPublication,
    HandingOff, Lockable, IInv, TypeOK, PublisherUse
<1>7. PermitRow' /\ WaitingInactive' /\ EndedGone'
  BY <1>1, <1>2, <1>3 DEF OrphanScan, OrphanVanished, OrphanOpen, FailPublication,
    HandingOff, Lockable, IInv, TypeOK, GlobalUse, PublisherUse, PermitRow, OwnersLocked,
    InsertingFresh, HeldUnowned, RequestsApart, WaitingInactive, EndedGone
<1>8. OwnersLocked' /\ InsertingFresh' /\ HeldUnowned'
  BY <1>1, <1>2, <1>3 DEF OrphanScan, OrphanVanished, OrphanOpen, FailPublication,
    HandingOff, Lockable, IInv, TypeOK, GlobalUse, PublisherUse, OwnersLocked, InsertingFresh,
    HeldUnowned, RequestsApart
<1>9. RequestsApart' /\ SharesApart'
  BY <1>1, <1>2, <1>3 DEF OrphanScan, OrphanVanished, OrphanOpen, FailPublication,
    HandingOff, Lockable, IInv, TypeOK, InsertingFresh, RequestsApart, SharesApart
<1>10. UnlinkedGone' /\ RowHasOwnerFile'
  BY <1>1, <1>2, <1>3 DEF OrphanScan, OrphanVanished, OrphanOpen, FailPublication,
    HandingOff, Lockable, IInv, TypeOK, OwnersLocked, InsertingFresh, HeldUnowned,
    UnlinkedGone, EndedGone, RowHasOwnerFile
<1> QED
  BY <1>4, <1>5, <1>6, <1>7, <1>8, <1>9, <1>10 DEF IInv

(* It unlinks only files without a row.                                    *)
LEMMA OrphanCheckStep ==
  ASSUME IInv, NEW p \in Procs, OrphanCheck(p)
  PROVE  IInv'
<1>1. rows' = rows /\ Active' = Active /\ SharesKept /\ QueueTyped'
  BY Untouched DEF OrphanCheck, IInv
<1>2. todo' \in [Procs -> SUBSET Tokens]
  BY Striking DEF OrphanCheck, IInv, TypeOK
<1> QED
  BY <1>1, <1>2 DEF OrphanCheck, Orphan, IInv, TypeOK, GlobalUse, PublisherUse, PermitRow,
    OwnersLocked, InsertingFresh, HeldUnowned, UnlinkedGone, RequestsApart, SharesApart,
    WaitingInactive, EndedGone, RowHasOwnerFile

(* The publisher goes on, with the publication lock.                       *)
LEMMA OrphansDoneStep ==
  ASSUME IInv, NEW p \in Procs, OrphansDone(p)
  PROVE  IInv'
<1>1. rows' = rows /\ Active' = Active /\ SharesKept /\ QueueTyped'
  BY Untouched DEF OrphansDone, IInv
<1> QED
  BY <1>1 DEF OrphansDone, IInv, TypeOK, GlobalUse, PublisherUse, PermitRow, OwnersLocked,
    InsertingFresh, HeldUnowned, UnlinkedGone, RequestsApart, SharesApart, WaitingInactive,
    EndedGone, RowHasOwnerFile

(* The new token is nobody's, and its creator holds the file.              *)
LEMMA CreateOwnerStep ==
  ASSUME IInv, NEW p \in Procs, CreateOwner(p)
  PROVE  IInv'
<1>1. rows' = rows /\ Active' = Active /\ SharesKept /\ QueueTyped'
  BY Untouched DEF CreateOwner, IInv
<1>2. locks' \in [Tokens -> SUBSET Procs] /\ files' \subseteq Tokens
  BY DEF CreateOwner, IInv, TypeOK
<1>3. managed' \in [Procs -> Tokens \cup {NoToken}] /\ req' \in [Procs -> Tokens \cup {NoToken}]
  BY DEF CreateOwner, IInv, TypeOK
<1>4. TypeOK'
  BY <1>1, <1>2, <1>3 DEF CreateOwner, Fresh, HandingOff, IInv, TypeOK, GlobalUse,
    PublisherUse, OwnersLocked, InsertingFresh
<1>5. GlobalUse'
  BY <1>1, <1>2, <1>3 DEF CreateOwner, Fresh, HandingOff, IInv, TypeOK, GlobalUse,
    PublisherUse
<1>6. PublisherUse'
  BY <1>1, <1>2, <1>3 DEF CreateOwner, Fresh, HandingOff, IInv, TypeOK, PublisherUse
<1>7. PermitRow' /\ WaitingInactive' /\ EndedGone'
  BY <1>1, <1>2, <1>3 DEF CreateOwner, Fresh, HandingOff, IInv, TypeOK, GlobalUse,
    PublisherUse, PermitRow, OwnersLocked, InsertingFresh, HeldUnowned, RequestsApart,
    WaitingInactive, EndedGone
<1>8. OwnersLocked' /\ InsertingFresh' /\ HeldUnowned'
  BY <1>1, <1>2, <1>3 DEF CreateOwner, Fresh, HandingOff, IInv, TypeOK, GlobalUse,
    PublisherUse, OwnersLocked, InsertingFresh, HeldUnowned, RequestsApart
<1>9. RequestsApart'
  BY <1>1, <1>2, <1>3 DEF CreateOwner, Fresh, HandingOff, IInv, TypeOK, RequestsApart,
    SharesApart
<1>10. SharesApart'
  BY <1>1, <1>2, <1>3 DEF CreateOwner, Fresh, HandingOff, IInv, TypeOK, InsertingFresh,
    RequestsApart, SharesApart
<1>11. UnlinkedGone' /\ RowHasOwnerFile'
  BY <1>1, <1>2, <1>3 DEF CreateOwner, Fresh, HandingOff, IInv, TypeOK, OwnersLocked,
    InsertingFresh, HeldUnowned, UnlinkedGone, EndedGone, RowHasOwnerFile
<1> QED
  BY <1>4, <1>5, <1>6, <1>7, <1>8, <1>9, <1>10, <1>11 DEF IInv

(* A failed publication leaves no lock and no request.                     *)
LEMMA DirectoryFullStep ==
  ASSUME IInv, NEW p \in Procs, DirectoryFull(p)
  PROVE  IInv'
<1>1. rows' = rows /\ Active' = Active /\ SharesKept /\ QueueTyped'
  BY Untouched DEF DirectoryFull, IInv
<1>2. todo' \in [Procs -> SUBSET Tokens]
  BY DEF DirectoryFull, FailPublication, IInv, TypeOK
<1> QED
  BY <1>1, <1>2 DEF DirectoryFull, FailPublication, HandingOff, IInv, TypeOK, GlobalUse,
    PublisherUse, PermitRow, OwnersLocked, InsertingFresh, HeldUnowned, UnlinkedGone,
    RequestsApart, SharesApart, WaitingInactive, EndedGone, RowHasOwnerFile

(* A refused insertion takes its own file with it, and no other.           *)
LEMMA InsertRefusedStep ==
  ASSUME IInv, NEW p \in Procs, InsertRefused(p)
  PROVE  IInv'
<1>1. rows' = rows /\ Active' = Active /\ SharesKept /\ QueueTyped'
  BY Untouched DEF InsertRefused, IInv
<1>2. todo' \in [Procs -> SUBSET Tokens]
  BY DEF InsertRefused, FailPublication, IInv, TypeOK
<1> QED
  BY <1>1, <1>2 DEF InsertRefused, FailPublication, HandingOff, IInv, TypeOK, GlobalUse,
    PublisherUse, PermitRow, OwnersLocked, InsertingFresh, HeldUnowned, UnlinkedGone,
    RequestsApart, SharesApart, WaitingInactive, EndedGone, RowHasOwnerFile

(* A request that ends is not active, so its row goes before its file.     *)
LEMMA CancelStep ==
  ASSUME IInv, NEW p \in Procs, Cancel(p)
  PROVE  IInv'
<1>1. rows' = rows \ ({req[p]} \ Active) /\ Active' = Active /\ SharesKept /\ QueueTyped'
  BY Cancellation DEF Cancel, IInv
<1> QED
  BY <1>1 DEF Cancel, IInv, TypeOK, GlobalUse, PublisherUse, PermitRow, OwnersLocked,
    InsertingFresh, HeldUnowned, UnlinkedGone, RequestsApart, SharesApart, WaitingInactive,
    EndedGone, RowHasOwnerFile

(* A request that finds itself canceled ends in the same way.              *)
LEMMA FindCanceledStep ==
  ASSUME IInv, NEW p \in Procs, FindCanceled(p)
  PROVE  IInv'
<1>1. rows' = rows \ ({req[p]} \ Active) /\ Active' = Active /\ SharesKept /\ QueueTyped'
  BY Cancellation DEF FindCanceled, IInv
<1> QED
  BY <1>1 DEF FindCanceled, IInv, TypeOK, GlobalUse, PublisherUse, PermitRow, OwnersLocked,
    InsertingFresh, HeldUnowned, UnlinkedGone, RequestsApart, SharesApart, WaitingInactive,
    EndedGone, RowHasOwnerFile

(* sync.lock was free.                                                     *)
LEMMA TakeGlobalStep ==
  ASSUME IInv, NEW p \in Procs, TakeGlobal(p)
  PROVE  IInv'
<1>1. rows' = rows /\ Active' = Active /\ SharesKept /\ QueueTyped'
  BY Untouched DEF TakeGlobal, IInv
<1> QED
  BY <1>1 DEF TakeGlobal, IInv, TypeOK, GlobalUse, PublisherUse, PermitRow, OwnersLocked,
    InsertingFresh, HeldUnowned, UnlinkedGone, RequestsApart, SharesApart, WaitingInactive,
    EndedGone, RowHasOwnerFile

(* A poll that finds it taken sweeps, and keeps its request.               *)
LEMMA GlobalBusyStep ==
  ASSUME IInv, NEW p \in Procs, GlobalBusy(p)
  PROVE  IInv'
<1>1. rows' = rows /\ Active' = Active /\ SharesKept /\ QueueTyped'
  BY Untouched DEF GlobalBusy, IInv
<1>2. BeginSweep(p) => pc' = [pc EXCEPT ![p] = "sweep"] /\ todo' \in [Procs -> SUBSET Tokens]
  BY Sweeping DEF IInv
<1> QED
  BY <1>1, <1>2 DEF GlobalBusy, IInv, TypeOK, GlobalUse, PublisherUse, PermitRow,
    OwnersLocked, InsertingFresh, HeldUnowned, UnlinkedGone, RequestsApart, SharesApart,
    WaitingInactive, EndedGone, RowHasOwnerFile

(* Only the head keeps sync.lock.                                          *)
LEMMA CheckHeadStep ==
  ASSUME IInv, NEW p \in Procs, CheckHead(p)
  PROVE  IInv'
<1>1. rows' = rows /\ Active' = Active /\ SharesKept /\ QueueTyped'
  BY Untouched DEF CheckHead, IInv
<1>2. BeginSweep(p) => pc' = [pc EXCEPT ![p] = "sweep"] /\ todo' \in [Procs -> SUBSET Tokens]
  BY Sweeping DEF IInv
<1>3. TypeOK'
  BY <1>1, <1>2 DEF CheckHead, IInv, TypeOK, GlobalUse, PublisherUse, OwnersLocked,
    InsertingFresh
<1>4. GlobalUse'
  BY <1>1, <1>2 DEF CheckHead, IInv, TypeOK, GlobalUse, PublisherUse
<1>5. PublisherUse'
  BY <1>1, <1>2 DEF CheckHead, IInv, TypeOK, PublisherUse
<1>6. PermitRow' /\ WaitingInactive' /\ EndedGone'
  BY <1>1, <1>2 DEF CheckHead, IInv, TypeOK, GlobalUse, PublisherUse, PermitRow,
    OwnersLocked, InsertingFresh, HeldUnowned, RequestsApart, WaitingInactive, EndedGone
<1>7. OwnersLocked' /\ InsertingFresh' /\ HeldUnowned'
  BY <1>1, <1>2 DEF CheckHead, IInv, TypeOK, GlobalUse, PublisherUse, OwnersLocked,
    InsertingFresh, HeldUnowned, RequestsApart
<1>8. RequestsApart' /\ SharesApart'
  BY <1>1, <1>2 DEF CheckHead, IInv, TypeOK, InsertingFresh, RequestsApart, SharesApart
<1>9. UnlinkedGone' /\ RowHasOwnerFile'
  BY <1>1, <1>2 DEF CheckHead, IInv, TypeOK, OwnersLocked, InsertingFresh, HeldUnowned,
    UnlinkedGone, EndedGone, RowHasOwnerFile
<1> QED
  BY <1>3, <1>4, <1>5, <1>6, <1>7, <1>8, <1>9 DEF IInv

(* Recovery changes nothing of the queue when it succeeds.                 *)
LEMMA PreparedStep ==
  ASSUME IInv, NEW p \in Procs, Prepared(p)
  PROVE  IInv'
<1>1. rows' = rows /\ Active' = Active /\ SharesKept /\ QueueTyped'
  BY Untouched DEF Prepared, IInv
<1> QED
  BY <1>1 DEF Prepared, IInv, TypeOK, GlobalUse, PublisherUse, PermitRow, OwnersLocked,
    InsertingFresh, HeldUnowned, UnlinkedGone, RequestsApart, SharesApart, WaitingInactive,
    EndedGone, RowHasOwnerFile

(* A failed recovery gives sync.lock back.                                 *)
LEMMA PrepareFailedStep ==
  ASSUME IInv, NEW p \in Procs, PrepareFailed(p)
  PROVE  IInv'
<1>1. rows' = rows /\ Active' = Active /\ SharesKept /\ QueueTyped'
  BY Untouched DEF PrepareFailed, IInv
<1> QED
  BY <1>1 DEF PrepareFailed, IInv, TypeOK, GlobalUse, PublisherUse, PermitRow, OwnersLocked,
    InsertingFresh, HeldUnowned, UnlinkedGone, RequestsApart, SharesApart, WaitingInactive,
    EndedGone, RowHasOwnerFile

(* The owner deletes its own row, the only active one.                     *)
LEMMA FinishStep ==
  ASSUME IInv, NEW p \in Procs, Finish(p)
  PROVE  IInv'
<1>1. rows' = rows \ {req[p]} /\ Active' = Active \ {req[p]} /\ SharesKept /\ QueueTyped'
  BY Deletion DEF Finish, IInv
<1> QED
  BY <1>1 DEF Finish, IInv, TypeOK, GlobalUse, PublisherUse, PermitRow, OwnersLocked,
    InsertingFresh, HeldUnowned, UnlinkedGone, RequestsApart, SharesApart, WaitingInactive,
    EndedGone, RowHasOwnerFile

(* A dropped request is not active.                                        *)
LEMMA DropStep ==
  ASSUME IInv, NEW p \in Procs, Drop(p)
  PROVE  IInv'
<1>1. rows' = rows \ ({req[p]} \ Active) /\ Active' = Active /\ SharesKept /\ QueueTyped'
  BY Cancellation DEF Drop, IInv
<1>2. TypeOK' /\ GlobalUse' /\ PublisherUse'
  BY <1>1 DEF Drop, IInv, TypeOK, GlobalUse, PublisherUse, OwnersLocked, InsertingFresh
<1>3. PermitRow' /\ WaitingInactive' /\ EndedGone'
  BY <1>1 DEF Drop, IInv, TypeOK, GlobalUse, PublisherUse, PermitRow, OwnersLocked,
    InsertingFresh, HeldUnowned, RequestsApart, WaitingInactive, EndedGone
<1>4. OwnersLocked' /\ InsertingFresh' /\ HeldUnowned'
  BY <1>1 DEF Drop, IInv, TypeOK, GlobalUse, PublisherUse, OwnersLocked, InsertingFresh,
    HeldUnowned, RequestsApart
<1>5. RequestsApart' /\ SharesApart'
  BY <1>1 DEF Drop, IInv, TypeOK, InsertingFresh, RequestsApart, SharesApart
<1>6. UnlinkedGone' /\ RowHasOwnerFile'
  BY <1>1 DEF Drop, IInv, TypeOK, OwnersLocked, InsertingFresh, HeldUnowned, UnlinkedGone,
    EndedGone, RowHasOwnerFile
<1> QED
  BY <1>2, <1>3, <1>4, <1>5, <1>6 DEF IInv

(* The flock goes after the row.                                           *)
LEMMA UnlockStep ==
  ASSUME IInv, NEW p \in Procs, Unlock(p)
  PROVE  IInv'
<1>1. rows' = rows /\ Active' = Active /\ SharesKept /\ QueueTyped'
  BY Untouched DEF Unlock, IInv
<1> QED
  BY <1>1 DEF Unlock, IInv, TypeOK, GlobalUse, PublisherUse, PermitRow, OwnersLocked,
    InsertingFresh, HeldUnowned, UnlinkedGone, RequestsApart, SharesApart, WaitingInactive,
    EndedGone, RowHasOwnerFile

(* The file goes after the flock, and it is no other request's.            *)
LEMMA UnlinkStep ==
  ASSUME IInv, NEW p \in Procs, Unlink(p)
  PROVE  IInv'
<1>1. rows' = rows /\ Active' = Active /\ SharesKept /\ QueueTyped'
  BY Untouched DEF Unlink, IInv
<1>2. TypeOK'
  BY <1>1 DEF Unlink, IInv, TypeOK, GlobalUse, PublisherUse, OwnersLocked, InsertingFresh
<1>3. GlobalUse'
  BY <1>1 DEF Unlink, IInv, TypeOK, GlobalUse, PublisherUse
<1>4. PublisherUse'
  BY <1>1 DEF Unlink, IInv, TypeOK, PublisherUse
<1>5. PermitRow' /\ WaitingInactive' /\ EndedGone'
  BY <1>1 DEF Unlink, IInv, TypeOK, GlobalUse, PublisherUse, PermitRow, OwnersLocked,
    InsertingFresh, HeldUnowned, RequestsApart, WaitingInactive, EndedGone
<1>6. OwnersLocked' /\ InsertingFresh' /\ HeldUnowned'
  BY <1>1 DEF Unlink, IInv, TypeOK, GlobalUse, PublisherUse, OwnersLocked, InsertingFresh,
    HeldUnowned, RequestsApart
<1>7. RequestsApart' /\ SharesApart'
  BY <1>1 DEF Unlink, IInv, TypeOK, InsertingFresh, RequestsApart, SharesApart
<1>8. UnlinkedGone' /\ RowHasOwnerFile'
  BY <1>1 DEF Unlink, IInv, TypeOK, OwnersLocked, InsertingFresh, HeldUnowned, UnlinkedGone,
    EndedGone, RowHasOwnerFile
<1> QED
  BY <1>2, <1>3, <1>4, <1>5, <1>6, <1>7, <1>8 DEF IInv

(* The permit stays while its holder publishes.                            *)
LEMMA PublishManagedStep ==
  ASSUME IInv, NEW c \in Clients, PublishManaged(c)
  PROVE  IInv'
<1>1. rows' = rows /\ Active' = Active /\ SharesKept /\ QueueTyped'
  BY Untouched DEF PublishManaged, IInv
<1> QED
  BY <1>1 DEF PublishManaged, IInv, TypeOK, GlobalUse, PublisherUse, PermitRow,
    OwnersLocked, InsertingFresh, HeldUnowned, UnlinkedGone, RequestsApart, SharesApart,
    WaitingInactive, EndedGone, RowHasOwnerFile

(* A handover gives up a flock that guards no request of the client.       *)
LEMMA ReleaseForReclaimStep ==
  ASSUME IInv, NEW c \in Clients, ReleaseForReclaim(c)
  PROVE  IInv'
<1>1. rows' = rows /\ Active' = Active /\ SharesKept /\ QueueTyped'
  BY Untouched DEF ReleaseForReclaim, IInv
<1>2. locks' \in [Tokens -> SUBSET Procs]
  BY DEF ReleaseForReclaim, IInv, TypeOK
<1> QED
  BY <1>1, <1>2 DEF ReleaseForReclaim, IInv, TypeOK, GlobalUse, PublisherUse, PermitRow,
    OwnersLocked, InsertingFresh, HeldUnowned, UnlinkedGone, RequestsApart, SharesApart,
    WaitingInactive, EndedGone, RowHasOwnerFile

(* A worker takes over a row of its share, whose file it locks first.      *)
LEMMA ReclaimRowStep ==
  ASSUME IInv, NEW p \in Procs, Reclaim(p), ReclaimRow(p, req[p])
  PROVE  IInv'
<1>1. rows' = rows /\ Active' = Active \ {req[p]} /\ SharesKept /\ QueueTyped'
  BY Flagging DEF ReclaimRow, IInv
<1>2. seen' \in [Procs -> Nat]
  <2>1. queue[req[p]].gen \in Nat
    BY DEF ReclaimRow, IInv, TypeOK, Row
  <2> QED
    BY <2>1 DEF ReclaimRow, IInv, TypeOK
<1>3. TypeOK' /\ GlobalUse' /\ PublisherUse'
  BY <1>1, <1>2 DEF ReclaimRow, Reclaim, IInv, TypeOK, GlobalUse, PublisherUse,
    OwnersLocked, InsertingFresh
<1>4. PermitRow' /\ WaitingInactive' /\ EndedGone'
  BY <1>1, <1>2 DEF ReclaimRow, Reclaim, IInv, TypeOK, GlobalUse, PublisherUse, PermitRow,
    OwnersLocked, InsertingFresh, HeldUnowned, RequestsApart, WaitingInactive, EndedGone
<1>5. OwnersLocked' /\ InsertingFresh' /\ HeldUnowned'
  BY <1>1, <1>2 DEF ReclaimRow, Reclaim, IInv, TypeOK, GlobalUse, PublisherUse,
    OwnersLocked, InsertingFresh, HeldUnowned, RequestsApart
<1>6. RequestsApart' /\ SharesApart'
  BY <1>1, <1>2 DEF ReclaimRow, Reclaim, IInv, TypeOK, InsertingFresh, RequestsApart,
    SharesApart
<1>7. UnlinkedGone' /\ RowHasOwnerFile'
  BY <1>1, <1>2 DEF ReclaimRow, Reclaim, IInv, TypeOK, OwnersLocked, InsertingFresh,
    HeldUnowned, UnlinkedGone, EndedGone, RowHasOwnerFile
<1> QED
  BY <1>3, <1>4, <1>5, <1>6, <1>7 DEF IInv

(* Its row has been swept: the file it has just made is nobody's.          *)
LEMMA ReclaimLostStep ==
  ASSUME IInv, NEW p \in Procs, Reclaim(p), ReclaimLost(p, req[p])
  PROVE  IInv'
<1>1. rows' = rows /\ Active' = Active /\ SharesKept /\ QueueTyped'
  BY Untouched DEF ReclaimLost, IInv
<1>2. pc' = [pc EXCEPT ![p] = "sweep"] /\ todo' \in [Procs -> SUBSET Tokens]
  BY Sweeping DEF ReclaimLost, IInv
<1>3. TypeOK' /\ GlobalUse' /\ PublisherUse'
  BY <1>1, <1>2 DEF ReclaimLost, Reclaim, IInv, TypeOK, GlobalUse, PublisherUse,
    OwnersLocked, InsertingFresh
<1>4. PermitRow' /\ WaitingInactive' /\ EndedGone'
  BY <1>1, <1>2 DEF ReclaimLost, Reclaim, IInv, TypeOK, GlobalUse, PublisherUse, PermitRow,
    OwnersLocked, InsertingFresh, HeldUnowned, RequestsApart, WaitingInactive, EndedGone
<1>5. OwnersLocked' /\ InsertingFresh' /\ HeldUnowned'
  BY <1>1, <1>2 DEF ReclaimLost, Reclaim, IInv, TypeOK, GlobalUse, PublisherUse,
    OwnersLocked, InsertingFresh, HeldUnowned, RequestsApart
<1>6. RequestsApart' /\ SharesApart'
  BY <1>1, <1>2 DEF ReclaimLost, Reclaim, IInv, TypeOK, InsertingFresh, RequestsApart,
    SharesApart
<1>7. UnlinkedGone' /\ RowHasOwnerFile'
  BY <1>1, <1>2 DEF ReclaimLost, Reclaim, IInv, TypeOK, OwnersLocked, InsertingFresh,
    HeldUnowned, UnlinkedGone, EndedGone, RowHasOwnerFile
<1> QED
  BY <1>3, <1>4, <1>5, <1>6, <1>7 DEF IInv

(* The new row's file exists and is locked by its owner.                   *)
LEMMA InsertStep ==
  ASSUME IInv, NEW p \in Procs, Insert(p)
  PROVE  IInv'
<1> DEFINE t == IF HandingOff(p) THEN managed[p] ELSE req[p]
<1>1. /\ rows' = rows \cup {t} /\ Active' = Active /\ SharesKept /\ QueueTyped'
      /\ ~ HandingOff(p) => queue'[t].share = IF p \in Shares THEN p ELSE NoShare
      /\ t \notin Active
  <2>1. t \in Tokens \ rows /\ (HandingOff(p) => job[p] \in Shares)
    BY DEF Insert, HandingOff, IInv, TypeOK, GlobalUse, OwnersLocked, InsertingFresh
  <2>2. PICK n \in 1 .. MaxTicket :
          InsertRequest(p, n) \/ InsertEnabling(p, n) \/ InsertHandoff(p, n)
    BY DEF Insert
  <2>3. n \in Nat
    BY BoundsAssumption
  <2>4. PICK s \in Shares \cup {NoShare}, g \in Nat :
          /\ InsertRow(t, n, s, g)
          /\ ~ HandingOff(p) => s = IF p \in Shares THEN p ELSE NoShare
    <3>1. CASE InsertRequest(p, n)
      BY <3>1 DEF InsertRequest, IInv, TypeOK
    <3>2. CASE InsertEnabling(p, n)
      BY <3>2, <2>1 DEF InsertEnabling, HandingOff, IInv, TypeOK, GlobalUse, Insert
    <3>3. CASE InsertHandoff(p, n)
      BY <3>3, <2>1 DEF InsertHandoff, IInv, TypeOK
    <3> QED
      BY <2>2, <3>1, <3>2, <3>3
  <2>5. t \notin Active
    BY <2>1 DEF Active
  <2> HIDE DEF t
  <2> QED
    BY <2>1, <2>3, <2>4, <2>5, Insertion DEF IInv
<1>2. /\ intent' \in [Shares -> Nat] /\ enabled' \in [Shares -> BOOLEAN]
      /\ complete' \in [Shares -> BOOLEAN] /\ removing' = removing
      /\ seen' \in [Procs -> Nat]
      /\ pc' = [pc EXCEPT ![p] = IF HandingOff(p) THEN "permit" ELSE "wait"]
  <2>1. PICK n \in 1 .. MaxTicket :
          InsertRequest(p, n) \/ InsertEnabling(p, n) \/ InsertHandoff(p, n)
    BY DEF Insert
  <2>2. CASE InsertRequest(p, n)
    BY <2>2 DEF InsertRequest, HandingOff, IInv, TypeOK
  <2>3. CASE InsertEnabling(p, n)
    <3>1. ~ HandingOff(p) /\ intent[p] + 1 \in Nat
      BY <2>3 DEF InsertEnabling, Insert, HandingOff, IInv, TypeOK, GlobalUse
    <3> QED
      BY <2>3, <3>1 DEF InsertEnabling, IInv, TypeOK
  <2>4. CASE InsertHandoff(p, n)
    <3>1. HandingOff(p) /\ job[p] \in Shares /\ intent[job[p]] + 1 \in Nat
      BY <2>4 DEF InsertHandoff, Insert, HandingOff, IInv, TypeOK, GlobalUse
    <3> QED
      BY <2>4, <3>1 DEF InsertHandoff, IInv, TypeOK
  <2> QED
    BY <2>1, <2>2, <2>3, <2>4
<1>3. /\ pc[p] = "insert" /\ publisher' = NoProc
      /\ UNCHANGED <<files, locks, global, req, todo, held, job, managed>>
  BY DEF Insert
<1> HIDE DEF t
<1>4. TypeOK' /\ GlobalUse' /\ PublisherUse'
  BY <1>1, <1>2, <1>3 DEF t, HandingOff, IInv, TypeOK, GlobalUse, PublisherUse,
    OwnersLocked, InsertingFresh
<1>5. PermitRow' /\ WaitingInactive' /\ EndedGone'
  BY <1>1, <1>2, <1>3 DEF t, HandingOff, IInv, TypeOK, GlobalUse, PublisherUse, PermitRow,
    OwnersLocked, InsertingFresh, HeldUnowned, RequestsApart, WaitingInactive, EndedGone
<1>6. OwnersLocked' /\ InsertingFresh' /\ HeldUnowned'
  BY <1>1, <1>2, <1>3 DEF t, HandingOff, IInv, TypeOK, GlobalUse, PublisherUse,
    OwnersLocked, InsertingFresh, HeldUnowned, RequestsApart
<1>7. RequestsApart' /\ SharesApart'
  BY <1>1, <1>2, <1>3 DEF t, HandingOff, IInv, TypeOK, InsertingFresh, RequestsApart,
    SharesApart
<1>8. UnlinkedGone' /\ RowHasOwnerFile'
  BY <1>1, <1>2, <1>3 DEF t, HandingOff, IInv, TypeOK, OwnersLocked, InsertingFresh,
    HeldUnowned, UnlinkedGone, EndedGone, RowHasOwnerFile
<1> QED
  BY <1>4, <1>5, <1>6, <1>7, <1>8 DEF IInv

(* A request that rejoins is inactive before and after.                    *)
LEMMA RejoinStep ==
  ASSUME IInv, NEW p \in Procs, Rejoin(p)
  PROVE  IInv'
<1>1. rows' = rows /\ Active' = Active /\ SharesKept /\ QueueTyped'
  <2>1. CASE RejoinRow(p, req[p])
    <3>1. PICK n \in 1 .. MaxTicket :
            queue' = [u \in rows |->
                        IF u = req[p]
                        THEN [queue[req[p]] EXCEPT !.ticket = n, !.ahead = rows \ {req[p]}]
                        ELSE [queue[u] EXCEPT !.ahead = @ \ {req[p]}]]
      BY <2>1 DEF RejoinRow
    <3>2. n \in Nat /\ req[p] \in rows
      BY <2>1, BoundsAssumption DEF RejoinRow
    <3> QED
      BY <3>1, <3>2, Rejoining DEF IInv
  <2>2. CASE UNCHANGED queue
    BY <2>2, Untouched DEF IInv
  <2> QED
    BY <2>1, <2>2 DEF Rejoin
<1>2. /\ todo' \in [Procs -> SUBSET Tokens]
      /\ \E step \in {"sweep", "unlock"} :
           /\ pc' = [pc EXCEPT ![p] = step]
           /\ step = "unlock" => req[p] \notin rows
  BY Sweeping DEF Rejoin, RejoinRow, IInv, TypeOK
<1>3. TypeOK' /\ GlobalUse' /\ PublisherUse'
  BY <1>1, <1>2 DEF Rejoin, IInv, TypeOK, GlobalUse, PublisherUse, OwnersLocked,
    InsertingFresh
<1>4. PermitRow' /\ WaitingInactive' /\ EndedGone'
  BY <1>1, <1>2 DEF Rejoin, IInv, TypeOK, GlobalUse, PublisherUse, PermitRow, OwnersLocked,
    InsertingFresh, HeldUnowned, RequestsApart, WaitingInactive, EndedGone
<1>5. OwnersLocked' /\ InsertingFresh' /\ HeldUnowned'
  BY <1>1, <1>2 DEF Rejoin, IInv, TypeOK, GlobalUse, PublisherUse, OwnersLocked,
    InsertingFresh, HeldUnowned, RequestsApart
<1>6. RequestsApart' /\ SharesApart'
  BY <1>1, <1>2 DEF Rejoin, IInv, TypeOK, InsertingFresh, RequestsApart, SharesApart
<1>7. UnlinkedGone' /\ RowHasOwnerFile'
  BY <1>1, <1>2 DEF Rejoin, IInv, TypeOK, OwnersLocked, InsertingFresh, HeldUnowned,
    UnlinkedGone, EndedGone, RowHasOwnerFile
<1> QED
  BY <1>3, <1>4, <1>5, <1>6, <1>7 DEF IInv

(* A recovery deletes inactive rows only.                                  *)
LEMMA RecoveryBlocksStep ==
  ASSUME IInv, NEW p \in Procs, RecoveryBlocks(p)
  PROVE  IInv'
<1>1. PICK S \in SUBSET rows : S \cap Active = {} /\ DeleteRows(S)
  BY DEF RecoveryBlocks, BlockedRows
<1>2. rows' = rows \ S /\ Active' = Active /\ SharesKept /\ QueueTyped'
  <2>1. Active \ S = Active
    BY <1>1
  <2> QED
    BY <1>1, <2>1, Deletion DEF IInv
<1> QED
  BY <1>2 DEF RecoveryBlocks, IInv, TypeOK, GlobalUse, PublisherUse, PermitRow,
    OwnersLocked, InsertingFresh, HeldUnowned, UnlinkedGone, RequestsApart, SharesApart,
    WaitingInactive, EndedGone, RowHasOwnerFile

(* There was no active row, so this is the only one.                       *)
LEMMA ActivateStep ==
  ASSUME IInv, NEW p \in Procs, Activate(p)
  PROVE  IInv'
<1>1. /\ rows' = rows /\ Active' = {req[p]} /\ req[p] \in rows
      /\ SharesKept /\ QueueTyped'
  BY Flagging DEF Activate, MayActivate, IsHead, NoneActive, IInv
<1>2. TypeOK' /\ GlobalUse' /\ PublisherUse'
  BY <1>1 DEF Activate, IInv, TypeOK, GlobalUse, PublisherUse, OwnersLocked, InsertingFresh
<1>3. PermitRow' /\ WaitingInactive' /\ EndedGone'
  BY <1>1 DEF Activate, IInv, TypeOK, GlobalUse, PublisherUse, PermitRow, OwnersLocked,
    InsertingFresh, HeldUnowned, RequestsApart, WaitingInactive, EndedGone
<1>4. OwnersLocked' /\ InsertingFresh' /\ HeldUnowned'
  BY <1>1 DEF Activate, IInv, TypeOK, GlobalUse, PublisherUse, OwnersLocked, InsertingFresh,
    HeldUnowned, RequestsApart
<1>5. RequestsApart' /\ SharesApart'
  BY <1>1 DEF Activate, IInv, TypeOK, InsertingFresh, RequestsApart, SharesApart
<1>6. UnlinkedGone' /\ RowHasOwnerFile'
  BY <1>1 DEF Activate, IInv, TypeOK, OwnersLocked, InsertingFresh, HeldUnowned,
    UnlinkedGone, EndedGone, RowHasOwnerFile
<1> QED
  BY <1>2, <1>3, <1>4, <1>5, <1>6 DEF IInv

(* A refused activation gives sync.lock back.                              *)
LEMMA ActivateRefusedStep ==
  ASSUME IInv, NEW p \in Procs, ActivateRefused(p)
  PROVE  IInv'
<1>1. /\ rows' = rows \ ({req[p]} \ Active) \/ rows' = rows
      /\ Active' = Active /\ SharesKept /\ QueueTyped'
  BY Cancellation, Untouched DEF ActivateRefused, IInv
<1>2. /\ todo' \in [Procs -> SUBSET Tokens]
      /\ \/ pc' = [pc EXCEPT ![p] = "sweep"]
         \/ pc' = [pc EXCEPT ![p] = "unlock"] /\ rows' = rows \ ({req[p]} \ Active)
  BY Sweeping, Cancellation DEF ActivateRefused, IInv, TypeOK
<1>3. TypeOK'
  BY <1>1, <1>2 DEF ActivateRefused, IInv, TypeOK, GlobalUse, PublisherUse, OwnersLocked,
    InsertingFresh
<1>4. GlobalUse'
  BY <1>1, <1>2 DEF ActivateRefused, IInv, TypeOK, GlobalUse, PublisherUse
<1>5. PublisherUse'
  BY <1>1, <1>2 DEF ActivateRefused, IInv, TypeOK, PublisherUse
<1>6. PermitRow' /\ WaitingInactive' /\ EndedGone'
  BY <1>1, <1>2 DEF ActivateRefused, IInv, TypeOK, GlobalUse, PublisherUse, PermitRow,
    OwnersLocked, InsertingFresh, HeldUnowned, RequestsApart, WaitingInactive, EndedGone
<1>7. OwnersLocked' /\ InsertingFresh' /\ HeldUnowned'
  BY <1>1, <1>2 DEF ActivateRefused, IInv, TypeOK, GlobalUse, PublisherUse, OwnersLocked,
    InsertingFresh, HeldUnowned, RequestsApart
<1>8. RequestsApart' /\ SharesApart'
  BY <1>1, <1>2 DEF ActivateRefused, IInv, TypeOK, InsertingFresh, RequestsApart,
    SharesApart
<1>9. UnlinkedGone' /\ RowHasOwnerFile'
  BY <1>1, <1>2 DEF ActivateRefused, IInv, TypeOK, OwnersLocked, InsertingFresh,
    HeldUnowned, UnlinkedGone, EndedGone, RowHasOwnerFile
<1> QED
  BY <1>3, <1>4, <1>5, <1>6, <1>7, <1>8, <1>9 DEF IInv

(* A stop deletes inactive rows only.                                      *)
LEMMA StopStep ==
  ASSUME IInv, NEW s \in Shares, Stop(s)
  PROVE  IInv'
<1>1. /\ \E S : rows' = rows \ S
      /\ Active' = Active /\ SharesKept /\ QueueTyped'
  <2>1. DeleteRows(StoppedRows(s)) /\ Active \ StoppedRows(s) = Active
    BY DEF Stop, StoppedRows
  <2> QED
    BY <2>1, Deletion DEF IInv
<1> QED
  BY <1>1 DEF Stop, IInv, TypeOK, GlobalUse, PublisherUse, PermitRow, OwnersLocked,
    InsertingFresh, HeldUnowned, UnlinkedGone, RequestsApart, SharesApart, WaitingInactive,
    EndedGone, RowHasOwnerFile

(* The preparation of a removal leaves the queue alone.                    *)
LEMMA PrepareRemovalStep ==
  ASSUME IInv, NEW s \in Shares, PrepareRemoval(s)
  PROVE  IInv'
<1>1. rows' = rows /\ Active' = Active /\ SharesKept /\ QueueTyped'
  BY Untouched DEF PrepareRemoval, IInv
<1> QED
  BY <1>1 DEF PrepareRemoval, IInv, TypeOK, GlobalUse, PublisherUse, PermitRow,
    OwnersLocked, InsertingFresh, HeldUnowned, UnlinkedGone, RequestsApart, SharesApart,
    WaitingInactive, EndedGone, RowHasOwnerFile

(* A crash frees locks; what is left has no owner.                         *)
LEMMA CrashStep ==
  ASSUME IInv, NEW K \in SUBSET Procs, Crash(K)
  PROVE  IInv'
<1>1. rows' = rows /\ Active' = Active /\ SharesKept /\ QueueTyped'
  BY Untouched DEF Crash, IInv
<1>2. TypeOK' /\ GlobalUse' /\ PublisherUse'
  BY <1>1 DEF Crash, IInv, TypeOK, GlobalUse, PublisherUse, OwnersLocked, InsertingFresh
<1>3. PermitRow' /\ WaitingInactive' /\ EndedGone'
  BY <1>1 DEF Crash, IInv, TypeOK, GlobalUse, PublisherUse, PermitRow, OwnersLocked,
    InsertingFresh, HeldUnowned, RequestsApart, WaitingInactive, EndedGone
<1>4. OwnersLocked' /\ InsertingFresh' /\ HeldUnowned'
  BY <1>1 DEF Crash, IInv, TypeOK, GlobalUse, PublisherUse, OwnersLocked, InsertingFresh,
    HeldUnowned, RequestsApart
<1>5. RequestsApart' /\ SharesApart'
  BY <1>1 DEF Crash, IInv, TypeOK, InsertingFresh, RequestsApart, SharesApart
<1>6. UnlinkedGone' /\ RowHasOwnerFile'
  BY <1>1 DEF Crash, IInv, TypeOK, OwnersLocked, InsertingFresh, HeldUnowned, UnlinkedGone,
    EndedGone, RowHasOwnerFile
<1> QED
  BY <1>2, <1>3, <1>4, <1>5, <1>6 DEF IInv

(* The invariant holds at the start,                                       *)
LEMMA InitInv == Init => IInv
  BY DEF Init, IInv, Active, rows, TypeOK, GlobalUse, PublisherUse, PermitRow, OwnersLocked,
    InsertingFresh, HeldUnowned, UnlinkedGone, RequestsApart, SharesApart, WaitingInactive,
    EndedGone, RowHasOwnerFile

(* Every step of a process at work.                                        *)
LEMMA WorkStep ==
  ASSUME IInv, NEW p \in Procs, Work(p)
  PROVE  IInv'
<1>1. CASE Reclaim(p)
  BY <1>1, ReclaimRowStep, ReclaimLostStep DEF Reclaim
<1> QED
  BY <1>1, LockPublicationStep, SweepOpenStep, SweepDeleteStep, SweepUnlinkStep,
    SweepDoneStep, OrphanScanStep, OrphanCheckStep, OrphansDoneStep, CreateOwnerStep,
    DirectoryFullStep, InsertStep, InsertRefusedStep, FindCanceledStep, TakeGlobalStep,
    GlobalBusyStep, CheckHeadStep, PreparedStep, RejoinStep, RecoveryBlocksStep,
    PrepareFailedStep, ActivateStep, ActivateRefusedStep, FinishStep, DropStep, UnlockStep,
    UnlinkStep DEF Work

(* and every step preserves it.                                            *)
LEMMA NextInv == IInv /\ [Next]_vars => IInv'
<1> SUFFICES ASSUME IInv, [Next]_vars PROVE IInv'
  OBVIOUS
<1>1. ASSUME NEW c \in Clients, NEW s \in Shares \cup {NoShare}, Request(c, s) PROVE IInv'
  BY <1>1, RequestStep
<1>2. ASSUME NEW c \in Clients, PublishManaged(c) \/ ReleaseForReclaim(c) PROVE IInv'
  BY <1>2, PublishManagedStep, ReleaseForReclaimStep
<1>3. ASSUME NEW s \in Shares, StartWorker(s) \/ Stop(s) \/ PrepareRemoval(s) PROVE IInv'
  BY <1>3, StartWorkerStep, StopStep, PrepareRemovalStep
<1>4. ASSUME NEW p \in Procs, Work(p) \/ Cancel(p) PROVE IInv'
  BY <1>4, WorkStep, CancelStep
<1>5. CASE SomeCrash
  <2>1. \E K \in SUBSET Procs : Crash(K)
    BY <1>5 DEF SomeCrash, DaemonCrash, ClientCrash
  <2> QED
    BY <2>1, CrashStep
<1>6. CASE UNCHANGED vars
  <2>1. rows' = rows /\ Active' = Active
    BY <1>6 DEF vars, rows, Active
  <2> QED
    BY <1>6, <2>1 DEF vars, IInv, TypeOK, GlobalUse, PublisherUse, PermitRow, OwnersLocked,
      InsertingFresh, HeldUnowned, UnlinkedGone, RequestsApart, SharesApart, WaitingInactive,
      EndedGone, RowHasOwnerFile
<1> QED
  BY <1>1, <1>2, <1>3, <1>4, <1>5, <1>6 DEF Next, Run

----------------------------------------------------------------------------
(* What a step does to the table.                                          *)

(* A request goes to the end of the line.                                  *)
MoveToTail(t, n) ==
  queue' = [u \in rows |-> IF u = t
                         THEN [queue[t] EXCEPT !.ticket = n, !.ahead = rows \ {t}]
                         ELSE [queue[u] EXCEPT !.ahead = @ \ {t}]]

Flag(t, b) == queue' = [queue EXCEPT ![t].active = b]

(* A request joins the table.                                              *)
Joins ==
  \E t \in Tokens \ rows, n \in Nat, s \in Shares \cup {NoShare}, g \in Nat :
    IsNextTicket(n) /\ InsertRow(t, n, s, g)

(* Everything else that a step does to the table.                          *)
Stays ==
  \/ UNCHANGED queue
  \/ \E S \in SUBSET Tokens : DeleteRows(S)
  \/ \E t \in rows \ Active, n \in Nat : IsNextTicket(n) /\ MoveToTail(t, n)
  \/ \E t \in rows : IsHead(t) /\ NoneActive /\ Flag(t, TRUE)
  \/ \E t \in rows : Flag(t, FALSE)

(* The publisher inserts a token that has no row.                          *)
LEMMA InsertJoins ==
  ASSUME IInv, NEW p \in Procs, Insert(p)
  PROVE  Joins
<1>1. PICK n \in 1 .. MaxTicket :
        IsNextTicket(n) /\ (InsertRequest(p, n) \/ InsertEnabling(p, n) \/ InsertHandoff(p, n))
  BY DEF Insert
<1>2. pc[p] = "insert" /\ n \in Nat
  BY DEF Insert
<1>3. CASE InsertRequest(p, n)
  <2>1. req[p] \in Tokens \ rows
    BY <1>2, <1>3 DEF InsertRequest, HandingOff, IInv, TypeOK, InsertingFresh
  <2>2. (IF p \in Shares THEN intent[p] ELSE 0) \in Nat
    BY DEF IInv, TypeOK
  <2> QED
    BY <1>1, <1>2, <1>3, <2>1, <2>2 DEF InsertRequest, Joins
<1>4. CASE InsertEnabling(p, n)
  <2>1. global # p
    BY <1>2, <1>4 DEF InsertEnabling, IInv, GlobalUse
  <2>2. req[p] \in Tokens \ rows /\ intent[p] + 1 \in Nat
    BY <1>2, <1>4, <2>1 DEF InsertEnabling, IInv, TypeOK, InsertingFresh
  <2> QED
    BY <1>1, <1>2, <1>4, <2>2 DEF InsertEnabling, Joins
<1>5. CASE InsertHandoff(p, n)
  <2>1. managed[p] \in Tokens \ rows /\ job[p] \in Shares
    BY <1>2, <1>5 DEF InsertHandoff, HandingOff, IInv, TypeOK, InsertingFresh, GlobalUse
  <2>2. intent[job[p]] + 1 \in Nat
    BY <2>1 DEF IInv, TypeOK
  <2> QED
    BY <1>1, <1>2, <1>5, <2>1, <2>2 DEF InsertHandoff, Joins
<1> QED
  BY <1>1, <1>3, <1>4, <1>5

(* A process deletes its own row, or one whose file it holds; whatever     *)
(* else it does to the table, it does to the row of its own request.       *)
LEMMA WorkStays ==
  ASSUME IInv, NEW p \in Procs, Work(p) \/ Cancel(p)
  PROVE  Insert(p) \/ Stays
<1>1. CASE Reclaim(p)
  <2>1. (req[p] \in rows /\ Flag(req[p], FALSE)) \/ UNCHANGED queue
    BY <1>1 DEF Reclaim, ReclaimRow, ReclaimLost, Flag
  <2> QED
    BY <2>1 DEF Stays
<1>2. CASE SweepOpen(p)
  BY <1>2 DEF SweepOpen, Stays, IInv, TypeOK
<1>3. CASE SweepDelete(p)
  BY <1>3 DEF SweepDelete, Stays, IInv, TypeOK
<1>5. CASE FindCanceled(p) \/ Drop(p) \/ Cancel(p)
  BY <1>5 DEF FindCanceled, Drop, Cancel, CancelRow, Stays, IInv, OwnersLocked
<1>6. CASE Rejoin(p)
  <2>1. CASE RejoinRow(p, req[p])
    <3>1. req[p] \in rows \ Active
      BY <1>6, <2>1 DEF Rejoin, RejoinRow, IInv, WaitingInactive
    <3>2. \E n \in 1 .. MaxTicket : IsNextTicket(n) /\ MoveToTail(req[p], n)
      BY <2>1, Zenon DEF RejoinRow, MoveToTail
    <3>3. 1 .. MaxTicket \subseteq Nat
      OBVIOUS
    <3> QED
      BY <3>1, <3>2, <3>3 DEF Stays
  <2>2. CASE UNCHANGED queue
    BY <2>2 DEF Stays
  <2> QED
    BY <1>6, <2>1, <2>2 DEF Rejoin
<1>7. CASE RecoveryBlocks(p)
  BY <1>7 DEF RecoveryBlocks, Stays, IInv, TypeOK
<1>8. CASE Activate(p)
  <2>1. req[p] \in rows /\ IsHead(req[p]) /\ NoneActive /\ Flag(req[p], TRUE)
    BY <1>8 DEF Activate, MayActivate, IsHead, Flag
  <2> QED
    BY <2>1 DEF Stays
<1>9. CASE ActivateRefused(p)
  BY <1>9 DEF ActivateRefused, CancelRow, Stays, IInv, OwnersLocked
<1>10. CASE Finish(p)
  BY <1>10 DEF Finish, Stays, IInv, OwnersLocked
<1>11. CASE UNCHANGED queue
  BY <1>11 DEF Stays
<1> QED
  BY <1>1, <1>2, <1>3, <1>5, <1>6, <1>7, <1>8, <1>9, <1>10, <1>11
    DEF Work, LockPublication, SweepUnlink, SweepDone, OrphanScan, OrphanCheck, OrphansDone,
        CreateOwner, DirectoryFull, InsertRefused, TakeGlobal, GlobalBusy, CheckHead,
        Prepared, PrepareFailed, Unlock, Unlink

(* Every step but an insertion.                                            *)
LEMMA TableStep == IInv /\ [Next]_vars => Stays \/ \E p \in Procs : Insert(p)
<1> SUFFICES ASSUME IInv, [Next]_vars PROVE Stays \/ \E p \in Procs : Insert(p)
  OBVIOUS
<1>1. CASE \E s \in Shares : Stop(s)
  <2>1. \A s \in Shares : StoppedRows(s) \in SUBSET Tokens
    BY DEF StoppedRows, IInv, TypeOK
  <2> QED
    BY <1>1, <2>1 DEF Stop, Stays
<1>2. CASE \E p \in Procs : Work(p) \/ Cancel(p)
  BY <1>2, WorkStays
<1>3. CASE UNCHANGED queue
  BY <1>3 DEF Stays
<1> QED
  BY <1>1, <1>2, <1>3 DEF Next, Run, SomeCrash, DaemonCrash, ClientCrash, Crash, Request,
    PublishManaged, ReleaseForReclaim, StartWorker, PrepareRemoval, vars

----------------------------------------------------------------------------
(* The table as a line.                                                    *)

(* Tickets are the keys of the table.                                      *)
TicketsApart == \A t, u \in rows : queue[t].ticket = queue[u].ticket => t = u

OneActive == \A t, u \in Active : t = u

(* What was in the queue when a row joined it, and still is, has a lower   *)
(* ticket.                                                                 *)
AheadBefore ==
  \A t \in rows : \A u \in queue[t].ahead : u \in rows /\ queue[u].ticket < queue[t].ticket

LineInv == TicketsApart /\ OneActive /\ AheadBefore

(* What a step does to the single rows.                                    *)
SameRow(t) == /\ queue'[t].ticket = queue[t].ticket /\ queue'[t].share = queue[t].share
              /\ queue'[t].gen = queue[t].gen /\ queue'[t].active = queue[t].active

(* A deletion takes the deleted rows out of the history of the others.     *)
LEMMA DeletedRows ==
  ASSUME TypeOK, NEW S, DeleteRows(S)
  PROVE  /\ rows' = rows \ S
         /\ \A t \in rows' : SameRow(t) /\ queue'[t].ahead = queue[t].ahead \ S
<1>1. rows' = rows \ S /\ \A t \in rows' : queue'[t] = [queue[t] EXCEPT !.ahead = @ \ S]
  BY DEF DeleteRows, rows
<1>2. ASSUME NEW t \in rows'
      PROVE  SameRow(t) /\ queue'[t].ahead = queue[t].ahead \ S
  <2>1. queue[t] \in Row /\ queue'[t] = [queue[t] EXCEPT !.ahead = @ \ S]
    BY <1>1 DEF TypeOK
  <2> QED
    BY <2>1 DEF Row, SameRow
<1> QED
  BY <1>1, <1>2

(* A new row has all others ahead of it.                                   *)
LEMMA InsertedRow ==
  ASSUME NEW t \in Tokens \ rows, NEW n, NEW s, NEW g, InsertRow(t, n, s, g)
  PROVE  /\ rows' = rows \cup {t} /\ queue'[t].ticket = n /\ queue'[t].ahead = rows
         /\ queue'[t].share = s /\ queue'[t].gen = g /\ ~ queue'[t].active
         /\ \A u \in rows : queue'[u] = queue[u]
<1>1. rows' = rows \cup {t} /\ \A u \in rows : queue'[u] = queue[u]
  BY DEF InsertRow, rows
<1>2. queue'[t] = [ticket |-> n, share |-> s, gen |-> g, active |-> FALSE, ahead |-> rows]
  BY DEF InsertRow
<1> QED
  BY <1>1, <1>2

(* So has a row that rejoins, and it is ahead of none.                     *)
LEMMA MovedRow ==
  ASSUME TypeOK, NEW t \in rows, NEW n \in Nat, MoveToTail(t, n)
  PROVE  /\ rows' = rows /\ queue'[t].ticket = n /\ queue'[t].ahead = rows \ {t}
         /\ queue'[t].share = queue[t].share /\ queue'[t].gen = queue[t].gen
         /\ queue'[t].active = queue[t].active
         /\ \A u \in rows \ {t} : SameRow(u) /\ queue'[u].ahead = queue[u].ahead \ {t}
<1>1. queue[t] \in Row /\ queue'[t] = [queue[t] EXCEPT !.ticket = n, !.ahead = rows \ {t}]
  BY DEF MoveToTail, TypeOK
<1>2. rows' = rows
  BY DEF MoveToTail, rows
<1>3. ASSUME NEW u \in rows \ {t}
      PROVE  SameRow(u) /\ queue'[u].ahead = queue[u].ahead \ {t}
  <2>1. queue[u] \in Row /\ queue'[u] = [queue[u] EXCEPT !.ahead = @ \ {t}]
    BY DEF MoveToTail, TypeOK
  <2> QED
    BY <2>1 DEF Row, SameRow
<1> QED
  BY <1>1, <1>2, <1>3 DEF Row

(* The active flag is all that changes.                                    *)
LEMMA FlaggedRow ==
  ASSUME TypeOK, NEW t \in rows, NEW b \in BOOLEAN, Flag(t, b)
  PROVE  /\ rows' = rows /\ queue'[t].active = b /\ queue'[t].ticket = queue[t].ticket
         /\ queue'[t].share = queue[t].share /\ queue'[t].gen = queue[t].gen
         /\ queue'[t].ahead = queue[t].ahead
         /\ \A u \in rows \ {t} : queue'[u] = queue[u]
<1>1. queue[t] \in Row /\ queue'[t] = [queue[t] EXCEPT !.active = b]
  BY DEF Flag, TypeOK
<1>2. rows' = rows /\ \A u \in rows \ {t} : queue'[u] = queue[u]
  BY DEF Flag, rows
<1> QED
  BY <1>1, <1>2 DEF Row

(* Every change of the table keeps the line.                               *)
LEMMA LineStep == ASSUME TypeOK, LineInv, Joins \/ Stays PROVE LineInv'
<1> USE DEF LineInv, TicketsApart, OneActive, AheadBefore
<1>0. \A t \in rows : /\ queue[t].ticket \in Nat /\ queue[t].ahead \subseteq Tokens
                     /\ queue[t].active \in BOOLEAN
  BY DEF TypeOK, Row
<1>1. ASSUME NEW S \in SUBSET Tokens, DeleteRows(S) PROVE LineInv'
  <2>1. /\ rows' = rows \ S
        /\ \A t \in rows' : SameRow(t) /\ queue'[t].ahead = queue[t].ahead \ S
    BY <1>1, DeletedRows
  <2>2. Active' = Active \ S
    BY <2>1 DEF SameRow, Active
  <2> QED
    BY <2>1, <2>2 DEF SameRow
<1>2. ASSUME NEW t \in Tokens \ rows, NEW n \in Nat, NEW s \in Shares \cup {NoShare},
             NEW g \in Nat, IsNextTicket(n), InsertRow(t, n, s, g)
      PROVE  LineInv'
  <2>1. \A u \in rows : queue[u].ticket < n
    BY <1>2 DEF IsNextTicket
  <2>2. /\ rows' = rows \cup {t} /\ queue'[t].ticket = n /\ queue'[t].ahead = rows
        /\ ~ queue'[t].active /\ \A u \in rows : queue'[u] = queue[u]
    BY <1>2, InsertedRow
  <2>3. Active' = Active
    BY <2>2 DEF Active
  <2> QED
    BY <1>0, <2>1, <2>2, <2>3
<1>3. ASSUME NEW t \in rows \ Active, NEW n \in Nat, IsNextTicket(n), MoveToTail(t, n)
      PROVE  LineInv'
  <2>1. \A u \in rows : queue[u].ticket < n
    BY <1>3 DEF IsNextTicket
  <2>2. /\ rows' = rows /\ queue'[t].ticket = n /\ queue'[t].ahead = rows \ {t}
        /\ queue'[t].active = queue[t].active
        /\ \A u \in rows \ {t} : SameRow(u) /\ queue'[u].ahead = queue[u].ahead \ {t}
    BY <1>3, MovedRow
  <2>3. Active' = Active
    BY <2>2 DEF Active, SameRow
  <2> QED
    BY <1>0, <2>1, <2>2, <2>3 DEF SameRow
<1>4. ASSUME NEW t \in rows, NEW b \in BOOLEAN, Flag(t, b), b => NoneActive PROVE LineInv'
  <2>1. /\ rows' = rows /\ queue'[t].active = b /\ queue'[t].ticket = queue[t].ticket
        /\ queue'[t].ahead = queue[t].ahead /\ \A u \in rows \ {t} : queue'[u] = queue[u]
    BY <1>4, FlaggedRow
  <2>2. Active' = IF b THEN {t} ELSE Active \ {t}
    BY <1>4, <2>1 DEF Active, NoneActive
  <2> QED
    BY <2>1, <2>2
<1>5. CASE UNCHANGED queue
  BY <1>5 DEF rows, Active
<1> QED
  BY <1>1, <1>2, <1>3, <1>4, <1>5 DEF Joins, Stays

----------------------------------------------------------------------------
(* Generations.                                                            *)

(* No row is of a generation to come.                                      *)
GenerationsPast ==
  \A s \in Shares : \A t \in rows : queue[t].share = s => queue[t].gen <= intent[s]

(* One row for each generation of a share.                                 *)
GenerationsApart ==
  \A s \in Shares : \A t, u \in rows :
    queue[t].share = s /\ queue[u].share = s /\ queue[t].gen = queue[u].gen => t = u

(* The current generation of a watch is enabled.                           *)
CurrentEnabled == \A s \in Shares : \A t \in rows : ManagedRow(s, t) => enabled[s]

(* The worker that publishes a row of its share has looked for one, and    *)
(* nobody has queued one since.                                            *)
NoRival ==
  \A s \in Shares : publisher = s =>
    \A t \in rows : ManagedRow(s, t) => pc[s] = "reclaim" /\ t = req[s]

(* A worker knows the generation of its request.                           *)
SeenGeneration ==
  \A s \in Shares : Waiting(s) /\ req[s] \in rows => queue[req[s]].gen = seen[s]

GenInv ==
  /\ GenerationsPast /\ GenerationsApart /\ CurrentEnabled /\ NoRival /\ SeenGeneration

(* Steps that queue nothing and advance no generation.                     *)
RowsOnlyLeave ==
  /\ rows' \subseteq rows
  /\ \A t \in rows' : queue'[t].share = queue[t].share /\ queue'[t].gen = queue[t].gen

LEMMA OnlyLeaving ==
  ASSUME TypeOK, Stays
  PROVE  RowsOnlyLeave
<1>1. ASSUME NEW S \in SUBSET Tokens, DeleteRows(S) PROVE RowsOnlyLeave
  BY <1>1, DeletedRows DEF RowsOnlyLeave, SameRow
<1>2. ASSUME NEW t \in rows \ Active, NEW n \in Nat, MoveToTail(t, n) PROVE RowsOnlyLeave
  BY <1>2, MovedRow DEF RowsOnlyLeave, SameRow
<1>3. ASSUME NEW t \in rows, NEW b \in BOOLEAN, Flag(t, b) PROVE RowsOnlyLeave
  BY <1>3, FlaggedRow DEF RowsOnlyLeave
<1>4. CASE UNCHANGED queue
  BY <1>4 DEF RowsOnlyLeave, rows
<1> QED
  BY <1>1, <1>2, <1>3, <1>4 DEF Stays

(* Steps that change no generation, and nothing of what a worker knows.    *)
GenerationsKept ==
  /\ UNCHANGED <<intent, enabled>>
  /\ \A s \in Shares :
       /\ publisher' = s => publisher = s
       /\ publisher' = s /\ pc[s] = "reclaim" => pc'[s] = "reclaim" /\ req'[s] = req[s]
       /\ Waiting(s)' => Waiting(s) /\ req'[s] = req[s] /\ seen'[s] = seen[s]

LEMMA KeptGenerations ==
  ASSUME IInv, GenInv, Stays, GenerationsKept
  PROVE  GenInv'
<1>1. RowsOnlyLeave
  BY OnlyLeaving DEF IInv
<1>2. \A s \in Shares : \A t \in rows' : ManagedRow(s, t)' => t \in rows /\ ManagedRow(s, t)
  BY <1>1 DEF GenerationsKept, RowsOnlyLeave, ManagedRow
<1>3. (GenerationsPast /\ GenerationsApart /\ CurrentEnabled)'
  BY <1>1, <1>2 DEF GenInv, GenerationsPast, GenerationsApart, CurrentEnabled, RowsOnlyLeave,
    GenerationsKept
<1>4. NoRival'
  <2>1. ASSUME NEW s \in Shares, publisher' = s, NEW t \in rows', ManagedRow(s, t)'
        PROVE  pc'[s] = "reclaim" /\ t = req'[s]
    <3>1. publisher = s /\ (pc[s] = "reclaim" => pc'[s] = "reclaim" /\ req'[s] = req[s])
      BY <2>1 DEF GenerationsKept
    <3>2. t \in rows /\ ManagedRow(s, t)
      BY <1>2, <2>1
    <3> QED
      BY <3>1, <3>2, Zenon DEF GenInv, NoRival
  <2> QED
    BY <2>1, Zenon DEF NoRival
<1>5. SeenGeneration'
  <2> SUFFICES ASSUME NEW s \in Shares, Waiting(s)', req'[s] \in rows'
               PROVE  queue'[req'[s]].gen = seen'[s]
    BY DEF SeenGeneration
  <2>1. Waiting(s) /\ req'[s] = req[s] /\ seen'[s] = seen[s]
    BY Zenon DEF GenerationsKept
  <2> QED
    BY <1>1, <2>1 DEF GenInv, SeenGeneration, RowsOnlyLeave
<1> QED
  BY <1>3, <1>4, <1>5 DEF GenInv

(* A worker looks for the row of its generation before it queues another.  *)
LEMMA LockPublicationGenerations ==
  ASSUME IInv, GenInv, NEW p \in Procs, LockPublication(p)
  PROVE  GenInv'
<1>1. UNCHANGED <<queue, intent, enabled, seen>> /\ rows' = rows
  BY DEF LockPublication, rows
<1>2. (GenerationsPast /\ GenerationsApart /\ CurrentEnabled)'
  BY <1>1 DEF GenInv, GenerationsPast, GenerationsApart, CurrentEnabled, ManagedRow
<1>3. /\ publisher' = p /\ publisher = NoProc /\ pc[p] = "publish"
      /\ \/ \E t \in rows : /\ p \in Shares /\ ManagedRow(p, t)
                          /\ req' = [req EXCEPT ![p] = t] /\ pc' = [pc EXCEPT ![p] = "reclaim"]
         \/ /\ req' = req /\ pc' = [pc EXCEPT ![p] = "sweep"]
            /\ ~ (p \in Shares /\ enabled[p] /\ \E t \in Tokens : ManagedRow(p, t))
  BY DEF LockPublication, ManagedRow, BeginSweep
<1>4. rows \subseteq Tokens
  BY DEF IInv, TypeOK
<1>5. NoRival'
  BY <1>1, <1>3, <1>4 DEF GenInv, NoRival, GenerationsApart, CurrentEnabled, ManagedRow, IInv,
    TypeOK
<1>6. SeenGeneration'
  BY <1>1, <1>3 DEF GenInv, SeenGeneration, IInv, TypeOK
<1> QED
  BY <1>2, <1>5, <1>6 DEF GenInv

(* It takes over the row it has found, or finds that there is none left.   *)
LEMMA ReclaimGenerations ==
  ASSUME IInv, GenInv, NEW p \in Procs, Reclaim(p)
  PROVE  GenInv'
<1>1. UNCHANGED <<intent, enabled>> /\ publisher = p /\ p \in Shares /\ pc[p] = "reclaim"
  BY DEF Reclaim, IInv, PublisherUse
<1>2. RowsOnlyLeave
  <2>1. Stays
    BY WorkStays DEF Work, Reclaim, Insert
  <2> QED
    BY <2>1, OnlyLeaving DEF IInv
<1>3. \A s \in Shares : \A t \in rows' : ManagedRow(s, t)' => t \in rows /\ ManagedRow(s, t)
  BY <1>1, <1>2 DEF RowsOnlyLeave, ManagedRow
<1>4. (GenerationsPast /\ GenerationsApart /\ CurrentEnabled)'
  BY <1>1, <1>2, <1>3 DEF GenInv, GenerationsPast, GenerationsApart, CurrentEnabled,
    RowsOnlyLeave
<1>5. CASE ReclaimRow(p, req[p])
  <2>1. NoRival'
    BY <1>1, <1>5 DEF ReclaimRow, NoRival
  <2>2. SeenGeneration'
    BY <1>1, <1>2, <1>5 DEF ReclaimRow, GenInv, SeenGeneration, RowsOnlyLeave, IInv, TypeOK,
      RequestsApart
  <2> QED
    BY <1>4, <2>1, <2>2 DEF GenInv
<1>6. CASE ReclaimLost(p, req[p])
  <2>1. pc' = [pc EXCEPT ![p] = "sweep"] /\ publisher' = publisher
    BY <1>6 DEF ReclaimLost, BeginSweep
  <2>2. NoRival'
    BY <1>1, <1>3, <1>6, <2>1 DEF ReclaimLost, GenInv, NoRival
  <2>3. SeenGeneration'
    BY <1>1, <1>2, <1>6, <2>1 DEF ReclaimLost, GenInv, SeenGeneration, RowsOnlyLeave, IInv,
      TypeOK
  <2> QED
    BY <1>4, <2>2, <2>3 DEF GenInv
<1> QED
  BY <1>5, <1>6 DEF Reclaim

(* The row that is queued is the first of its generation.                  *)
LEMMA InsertGenerations ==
  ASSUME IInv, GenInv, NEW p \in Procs, Insert(p)
  PROVE  GenInv'
<1>1. /\ pc[p] = "insert" /\ publisher = p /\ publisher' = NoProc
      /\ UNCHANGED <<req, job, managed, global>>
  BY DEF Insert, IInv, PublisherUse
<1>2. PICK n \in 1 .. MaxTicket : InsertRequest(p, n) \/ InsertEnabling(p, n) \/ InsertHandoff(p, n)
  BY DEF Insert
<1>3. NoRival'
  BY <1>1 DEF NoRival
<1>4. CASE InsertRequest(p, n)
  <2>1. PICK t \in Tokens \ rows, s \in Shares \cup {NoShare}, g \in Nat :
          /\ t = req[p] /\ s = (IF p \in Shares THEN p ELSE NoShare)
          /\ g = (IF p \in Shares THEN intent[p] ELSE 0) /\ InsertRow(t, n, s, g)
    BY <1>1, <1>4 DEF InsertRequest, HandingOff, IInv, TypeOK, InsertingFresh
  <2>2. /\ rows' = rows \cup {t} /\ queue'[t].share = s /\ queue'[t].gen = g
        /\ \A u \in rows : queue'[u] = queue[u]
    BY <2>1, InsertedRow
  <2>3. /\ UNCHANGED <<intent, enabled>> /\ pc' = [pc EXCEPT ![p] = "wait"]
        /\ p \in Shares => enabled[p]
        /\ seen' = IF p \in Shares THEN [seen EXCEPT ![p] = g] ELSE seen
    BY <1>4, <2>1 DEF InsertRequest
  <2>4. p \in Shares => \A u \in rows : ~ ManagedRow(p, u)
    BY <1>1 DEF GenInv, NoRival
  <2>5. (GenerationsPast /\ GenerationsApart /\ CurrentEnabled)'
    BY <2>1, <2>2, <2>3, <2>4 DEF GenInv, GenerationsPast, GenerationsApart, CurrentEnabled,
      ManagedRow, IInv, TypeOK
  <2>6. SeenGeneration'
    BY <1>1, <2>1, <2>2, <2>3 DEF GenInv, SeenGeneration, IInv, TypeOK, RequestsApart
  <2> QED
    BY <1>3, <2>5, <2>6 DEF GenInv
<1>5. CASE InsertEnabling(p, n)
  <2>1. PICK t \in Tokens \ rows, g \in Nat :
          t = req[p] /\ g = intent[p] + 1 /\ InsertRow(t, n, p, g)
    BY <1>1, <1>5 DEF InsertEnabling, IInv, TypeOK, InsertingFresh, GlobalUse
  <2>2. /\ rows' = rows \cup {t} /\ queue'[t].share = p /\ queue'[t].gen = g
        /\ \A u \in rows : queue'[u] = queue[u]
    BY <2>1, InsertedRow
  <2>3. /\ p \in Shares /\ enabled' = [enabled EXCEPT ![p] = TRUE]
        /\ intent' = [intent EXCEPT ![p] = g] /\ seen' = [seen EXCEPT ![p] = g]
        /\ pc' = [pc EXCEPT ![p] = "wait"]
    BY <1>5, <2>1 DEF InsertEnabling
  <2>4. (GenerationsPast /\ GenerationsApart /\ CurrentEnabled)'
    BY <2>1, <2>2, <2>3 DEF GenInv, GenerationsPast, GenerationsApart, CurrentEnabled,
      ManagedRow, IInv, TypeOK, Row
  <2>5. SeenGeneration'
    BY <1>1, <2>1, <2>2, <2>3 DEF GenInv, SeenGeneration, IInv, TypeOK, RequestsApart
  <2> QED
    BY <1>3, <2>4, <2>5 DEF GenInv
<1>6. CASE InsertHandoff(p, n)
  <2>1. PICK t \in Tokens \ rows, s \in Shares, g \in Nat :
          /\ t = managed[p] /\ s = job[p] /\ g = intent[s] + 1 /\ InsertRow(t, n, s, g)
          /\ \A q \in Procs : req[q] # t
    BY <1>1, <1>6 DEF InsertHandoff, HandingOff, IInv, TypeOK, InsertingFresh, GlobalUse
  <2>2. /\ rows' = rows \cup {t} /\ queue'[t].share = s /\ queue'[t].gen = g
        /\ \A u \in rows : queue'[u] = queue[u]
    BY <2>1, InsertedRow
  <2>3. /\ enabled' = [enabled EXCEPT ![s] = TRUE] /\ intent' = [intent EXCEPT ![s] = g]
        /\ seen' = seen /\ pc' = [pc EXCEPT ![p] = "permit"]
    BY <1>6, <2>1 DEF InsertHandoff
  <2>4. (GenerationsPast /\ GenerationsApart /\ CurrentEnabled)'
    BY <2>1, <2>2, <2>3 DEF GenInv, GenerationsPast, GenerationsApart, CurrentEnabled,
      ManagedRow, IInv, TypeOK, Row
  <2>5. SeenGeneration'
    BY <1>1, <2>1, <2>2, <2>3 DEF GenInv, SeenGeneration, IInv, TypeOK
  <2> QED
    BY <1>3, <2>4, <2>5 DEF GenInv
<1> QED
  BY <1>2, <1>4, <1>5, <1>6

(* A stop, and the preparation of a removal, advance the generation.       *)
LEMMA StopGenerations ==
  ASSUME IInv, GenInv, NEW s \in Shares, Stop(s) \/ PrepareRemoval(s)
  PROVE  GenInv'
<1>1. RowsOnlyLeave
  <2>1. StoppedRows(s) \in SUBSET Tokens
    BY DEF StoppedRows, IInv, TypeOK
  <2>2. Stays
    BY <2>1 DEF Stop, PrepareRemoval, Stays
  <2> QED
    BY <2>2, OnlyLeaving DEF IInv
<1>2. /\ intent' = [intent EXCEPT ![s] = @ + 1] /\ enabled' = [enabled EXCEPT ![s] = FALSE]
      /\ UNCHANGED <<pc, req, seen, publisher>> /\ publisher # s
  BY DEF Stop, PrepareRemoval, Enqueueing
<1>3. \A q \in Shares : \A t \in rows' : ManagedRow(q, t)' => q # s /\ ManagedRow(q, t)
  BY <1>1, <1>2 DEF RowsOnlyLeave, ManagedRow, GenInv, GenerationsPast, IInv, TypeOK, Row
<1>4. (GenerationsPast /\ GenerationsApart /\ CurrentEnabled)'
  BY <1>1, <1>2, <1>3 DEF GenInv, GenerationsPast, GenerationsApart, CurrentEnabled,
    RowsOnlyLeave, IInv, TypeOK, Row
<1>5. NoRival'
  BY <1>1, <1>2, <1>3 DEF GenInv, NoRival, RowsOnlyLeave
<1>6. SeenGeneration'
  BY <1>1, <1>2 DEF GenInv, SeenGeneration, RowsOnlyLeave
<1> QED
  BY <1>4, <1>5, <1>6 DEF GenInv

LEMMA GenerationStep == IInv /\ GenInv /\ [Next]_vars => GenInv'
<1> SUFFICES ASSUME IInv, GenInv, [Next]_vars PROVE GenInv'
  OBVIOUS
<1> USE DEF GenerationsKept
<1>1. ASSUME Stays, NEW c \in Clients, NEW s \in Shares \cup {NoShare}, Request(c, s)
      PROVE  GenInv'
  BY <1>1, KeptGenerations DEF Request, IInv, TypeOK
<1>2. ASSUME Stays, NEW c \in Clients, PublishManaged(c) \/ ReleaseForReclaim(c) PROVE GenInv'
  BY <1>2, KeptGenerations DEF PublishManaged, ReleaseForReclaim, IInv, TypeOK
<1>3. ASSUME Stays, NEW s \in Shares, StartWorker(s) PROVE GenInv'
  BY <1>3, KeptGenerations DEF StartWorker, IInv, TypeOK
<1>4. ASSUME Stays, NEW p \in Procs, \/ SweepOpen(p) \/ SweepDelete(p) \/ SweepUnlink(p)
                                 \/ SweepDone(p) \/ OrphanCheck(p) \/ OrphansDone(p)
      PROVE  GenInv'
  BY <1>4, KeptGenerations DEF SweepOpen, SweepDelete, SweepUnlink, SweepDone, Publishing,
    OrphanCheck, OrphansDone, IInv, TypeOK, PublisherUse
<1>5. ASSUME Stays, NEW p \in Procs, OrphanScan(p) \/ DirectoryFull(p) \/ InsertRefused(p)
      PROVE  GenInv'
  BY <1>5, KeptGenerations DEF OrphanScan, OrphanVanished, OrphanOpen, FailPublication,
    DirectoryFull, InsertRefused, IInv, TypeOK, PublisherUse
<1>6. ASSUME Stays, NEW p \in Procs, CreateOwner(p) PROVE GenInv'
  BY <1>6, KeptGenerations DEF CreateOwner, IInv, TypeOK, PublisherUse
<1>7. ASSUME Stays, NEW p \in Procs, \/ FindCanceled(p) \/ TakeGlobal(p) \/ GlobalBusy(p)
                                 \/ CheckHead(p) \/ Prepared(p) \/ Rejoin(p)
      PROVE  GenInv'
  BY <1>7, KeptGenerations DEF FindCanceled, TakeGlobal, GlobalBusy, CheckHead, Prepared,
    Rejoin, RejoinRow, BeginSweep, IInv, TypeOK, PublisherUse
<1>8. ASSUME Stays, NEW p \in Procs, \/ RecoveryBlocks(p) \/ PrepareFailed(p) \/ Activate(p)
                                 \/ ActivateRefused(p)
      PROVE  GenInv'
  BY <1>8, KeptGenerations DEF RecoveryBlocks, PrepareFailed, Activate, ActivateRefused,
    BeginSweep, IInv, TypeOK, PublisherUse
<1>9. ASSUME Stays, NEW p \in Procs, \/ Finish(p) \/ Drop(p) \/ Unlock(p) \/ Unlink(p) \/ Cancel(p)
      PROVE  GenInv'
  BY <1>9, KeptGenerations DEF Finish, Drop, Unlock, Unlink, Cancel, IInv, TypeOK, PublisherUse
<1>10. ASSUME Stays, NEW K \in SUBSET Procs, Crash(K) PROVE GenInv'
  BY <1>10, KeptGenerations DEF Crash, IInv, TypeOK
<1>11. CASE UNCHANGED vars
  BY <1>11, KeptGenerations DEF vars, Stays
<1>12. CASE \E p \in Procs : Insert(p)
  BY <1>12, InsertGenerations
<1>13. CASE SomeCrash /\ Stays
  <2>1. \E K \in SUBSET Procs : Crash(K)
    BY <1>13 DEF SomeCrash, DaemonCrash, ClientCrash
  <2> QED
    BY <1>10, <1>13, <2>1
<1>14. ASSUME Stays, NEW p \in Procs, Work(p) \/ Cancel(p) PROVE GenInv'
  BY <1>4, <1>5, <1>6, <1>7, <1>8, <1>9, <1>14, LockPublicationGenerations, ReclaimGenerations,
    InsertGenerations DEF Work
<1> QED
  BY <1>1, <1>2, <1>3, <1>11, <1>12, <1>13, <1>14, StopGenerations, TableStep DEF Next, Run

----------------------------------------------------------------------------
(* The slot.                                                               *)

(* The owner of the slot is the one active row.                            *)
LEMMA OwnerIsActive ==
  ASSUME TypeOK, OneActive
  PROVE  /\ NoneActive => OwnerOfTable = NoToken
         /\ \A t \in rows : OwnerOfTable = t <=> t \in Active
         /\ OwnerOfTable = NoToken => NoneActive
  BY DEF OneActive, OwnerOfTable, NoneActive, Active, TypeOK

(* A change of the table is a step of the slot, or none.                   *)
LEMMA SlotStep ==
  ASSUME TypeOK, TypeOK', LineInv, LineInv', Joins \/ Stays
  PROVE  Slot!Next \/ UNCHANGED Slot!slotVars
<1>1. /\ DOMAIN LineOfTable = rows /\ \A t \in rows : LineOfTable[t] = Before(t)
      /\ LineOfTable' = [t \in rows' |-> Before(t)']
      /\ rows \subseteq Tokens /\ \A t \in rows : queue[t].ticket \in Nat
      /\ NoToken \notin rows /\ NoToken \notin rows'
      /\ Active \subseteq rows /\ Active' \subseteq rows'
  BY DEF LineOfTable, TypeOK, Row, Active
<1>2. /\ NoneActive => OwnerOfTable = NoToken
      /\ \A t \in rows : OwnerOfTable = t <=> t \in Active
      /\ OwnerOfTable = NoToken => NoneActive
  BY OwnerIsActive DEF LineInv
<1>3. /\ Active' = {} => OwnerOfTable' = NoToken
      /\ \A t \in rows' : OwnerOfTable' = t <=> t \in Active'
      /\ OwnerOfTable' = NoToken => Active' = {}
  BY DEF LineInv, OneActive, OwnerOfTable, NoneActive, Active, TypeOK
<1>4. ASSUME Active' = Active PROVE OwnerOfTable' = OwnerOfTable
  <2>1. CASE Active = {}
    BY <1>2, <1>3, <1>4, <2>1 DEF NoneActive
  <2>2. CASE Active # {}
    <3>1. PICK t \in Active : t \in Active'
      BY <1>4, <2>2
    <3> QED
      BY <1>1, <1>2, <1>3, <3>1
  <2> QED
    BY <2>1, <2>2
<1>5. ASSUME NEW S \in SUBSET Tokens, DeleteRows(S)
      PROVE  Slot!Next \/ UNCHANGED Slot!slotVars
  <2> DEFINE R == S \cap rows
  <2>1. /\ rows' = rows \ S
        /\ \A t \in rows' : SameRow(t)
    BY <1>5, DeletedRows
  <2>2. Active' = Active \ S
    BY <2>1 DEF SameRow, Active
  <2>3. \A t \in rows' : Before(t)' = Before(t) \ R
    BY <2>1 DEF SameRow, Before
  <2>4. OwnerOfTable' = IF OwnerOfTable \in R THEN NoToken ELSE OwnerOfTable
    BY <1>1, <1>2, <1>3, <2>1, <2>2 DEF NoneActive
  <2>5. LineOfTable' = [t \in DOMAIN LineOfTable \ R |-> LineOfTable[t] \ R]
    BY <1>1, <2>1, <2>3
  <2>6. CASE R = {}
    <3>1. LineOfTable' = LineOfTable
      BY <2>5, <2>6 DEF LineOfTable
    <3> QED
      BY <2>4, <2>6, <3>1 DEF Slot!slotVars
  <2>7. CASE R # {}
    <3>1. Slot!Leave(R)
      BY <1>1, <2>4, <2>5, <2>7 DEF Slot!Leave, Slot!InLine
    <3> QED
      BY <1>1, <3>1 DEF Slot!Next
  <2> QED
    BY <2>6, <2>7
<1>6. ASSUME NEW t \in Tokens \ rows, NEW n \in Nat, NEW s \in Shares \cup {NoShare},
             NEW g \in Nat, IsNextTicket(n), InsertRow(t, n, s, g)
      PROVE  Slot!Next
  <2>1. /\ rows' = rows \cup {t} /\ queue'[t].ticket = n /\ ~ queue'[t].active
        /\ \A u \in rows : queue'[u] = queue[u]
    BY <1>6, InsertedRow
  <2>2. Active' = Active
    BY <2>1 DEF Active
  <2>3. \A u \in rows' : Before(u)' = IF u = t THEN rows ELSE Before(u)
    BY <1>1, <1>6, <2>1 DEF Before, IsNextTicket
  <2>4. OwnerOfTable' = OwnerOfTable
    BY <1>1, <1>2, <1>3, <2>1, <2>2 DEF NoneActive
  <2>5. LineOfTable' = [q \in DOMAIN LineOfTable \cup {t} |->
                          IF q = t THEN DOMAIN LineOfTable ELSE LineOfTable[q]]
    BY <1>1, <2>1, <2>3
  <2>6. Slot!Join(t)
    BY <1>1, <2>4, <2>5 DEF Slot!Join, Slot!InLine
  <2> QED
    BY <2>6 DEF Slot!Next
<1>7. ASSUME NEW t \in rows \ Active, NEW n \in Nat, IsNextTicket(n), MoveToTail(t, n)
      PROVE  Slot!Next
  <2>1. /\ rows' = rows /\ queue'[t].ticket = n /\ queue'[t].active = queue[t].active
        /\ \A u \in rows \ {t} : SameRow(u)
    BY <1>7, MovedRow
  <2>2. Active' = Active
    BY <2>1 DEF Active, SameRow
  <2>3. \A u \in rows' : Before(u)' = IF u = t THEN rows \ {t} ELSE Before(u) \ {t}
    BY <1>1, <1>7, <2>1 DEF Before, IsNextTicket, SameRow
  <2>4. OwnerOfTable' = OwnerOfTable /\ OwnerOfTable # t
    BY <1>1, <1>2, <1>3, <1>7, <2>1, <2>2 DEF NoneActive
  <2>5. LineOfTable' = [q \in DOMAIN LineOfTable |->
                          IF q = t THEN DOMAIN LineOfTable \ {t} ELSE LineOfTable[q] \ {t}]
    BY <1>1, <2>1, <2>3
  <2>6. Slot!Rejoin(t)
    BY <1>1, <2>4, <2>5 DEF Slot!Rejoin, Slot!InLine
  <2> QED
    BY <1>1, <2>6 DEF Slot!Next
<1>8. ASSUME NEW t \in rows, IsHead(t), NoneActive, Flag(t, TRUE) PROVE Slot!Next
  <2>1. /\ rows' = rows /\ queue'[t].active /\ \A u \in rows : queue'[u].ticket = queue[u].ticket
    BY <1>8, FlaggedRow
  <2>2. LineOfTable' = LineOfTable
    BY <2>1 DEF LineOfTable, Before
  <2>3. LineOfTable[t] = {}
    BY <1>1, <1>8 DEF IsHead, Before
  <2>4. OwnerOfTable = NoToken /\ OwnerOfTable' = t
    BY <1>2, <1>3, <1>8, <2>1 DEF Active
  <2> QED
    BY <1>1, <2>2, <2>3, <2>4 DEF Slot!Next, Slot!Grant, Slot!InLine
<1>9. ASSUME NEW t \in rows, Flag(t, FALSE) PROVE Slot!Next \/ UNCHANGED Slot!slotVars
  <2>1. /\ rows' = rows /\ queue'[t].active = FALSE
        /\ \A u \in rows : queue'[u].ticket = queue[u].ticket
        /\ \A u \in rows \ {t} : queue'[u] = queue[u]
    BY <1>9, FlaggedRow
  <2>2. LineOfTable' = LineOfTable /\ Active' = Active \ {t}
    BY <2>1 DEF LineOfTable, Before, Active
  <2>3. CASE t \in Active
    <3>1. OwnerOfTable # NoToken /\ OwnerOfTable' = NoToken
      BY <1>1, <1>2, <1>3, <2>2, <2>3 DEF LineInv, OneActive
    <3> QED
      BY <2>2, <3>1 DEF Slot!Next, Slot!Revoke
  <2>4. CASE t \notin Active
    <3>1. Active' = Active
      BY <2>2, <2>4
    <3> QED
      BY <1>4, <2>1, <2>2, <3>1 DEF Slot!slotVars
  <2> QED
    BY <2>3, <2>4
<1>10. CASE UNCHANGED queue
  BY <1>10 DEF LineOfTable, OwnerOfTable, rows, Before, Active, NoneActive, Slot!slotVars
<1> QED
  BY <1>5, <1>6, <1>7, <1>8, <1>9, <1>10 DEF Joins, Stays

----------------------------------------------------------------------------
(* The inductive invariant of the queue's order.                           *)

QueueInv == IInv /\ LineInv /\ GenInv

LEMMA InitQueueInv == Init => QueueInv
<1> SUFFICES ASSUME Init PROVE QueueInv
  OBVIOUS
<1>1. rows = {} /\ Active = {}
  BY DEF Init, Active, rows
<1>2. LineInv
  BY <1>1 DEF LineInv, TicketsApart, OneActive, AheadBefore
<1>3. GenInv
  BY <1>1 DEF GenInv, GenerationsPast, GenerationsApart, CurrentEnabled, NoRival, SeenGeneration
<1> QED
  BY <1>2, <1>3, InitInv DEF QueueInv

LEMMA NextQueueInv == QueueInv /\ [Next]_vars => QueueInv'
<1> SUFFICES ASSUME QueueInv, [Next]_vars PROVE QueueInv'
  OBVIOUS
<1>1. IInv'
  BY NextInv DEF QueueInv
<1>2. Joins \/ Stays
  BY TableStep, InsertJoins DEF QueueInv
<1>3. LineInv'
  BY <1>2, LineStep DEF QueueInv, IInv
<1> QED
  BY <1>1, <1>3, GenerationStep DEF QueueInv

(* A row that becomes active was the head of the line of an inactive table.*)
LEMMA ActivatedHead ==
  ASSUME TypeOK, Joins \/ Stays, NEW t \in Active' \ Active
  PROVE  IsHead(t) /\ NoneActive /\ queue'[t].ahead = queue[t].ahead
<1>1. ASSUME NEW S \in SUBSET Tokens, DeleteRows(S) PROVE Active' \subseteq Active
  BY <1>1, DeletedRows DEF Active, SameRow
<1>2. ASSUME NEW u \in Tokens \ rows, NEW n \in Nat, NEW s \in Shares \cup {NoShare},
             NEW g \in Nat, InsertRow(u, n, s, g)
      PROVE  Active' \subseteq Active
  BY <1>2, InsertedRow DEF Active
<1>3. ASSUME NEW u \in rows \ Active, NEW n \in Nat, MoveToTail(u, n)
      PROVE  Active' \subseteq Active
  BY <1>3, MovedRow DEF Active, SameRow
<1>4. ASSUME NEW u \in rows, Flag(u, FALSE) PROVE Active' \subseteq Active
  BY <1>4, FlaggedRow DEF Active
<1>5. ASSUME NEW u \in rows, IsHead(u), NoneActive, Flag(u, TRUE)
      PROVE  IsHead(t) /\ NoneActive /\ queue'[t].ahead = queue[t].ahead
  <2>1. t = u
    BY <1>5, FlaggedRow DEF Active
  <2> QED
    BY <1>5, <2>1, FlaggedRow
<1>6. CASE UNCHANGED queue
  BY <1>6 DEF Active, rows
<1> QED
  BY <1>1, <1>2, <1>3, <1>4, <1>5, <1>6 DEF Joins, Stays

(* The step that activates a request is the activation of its owner.       *)
LEMMA ActivatedByOwner ==
  ASSUME IInv, [Next]_vars, NEW t \in Active' \ Active
  PROVE  \E p \in Procs : Activate(p) /\ t = req[p]
<1>1. ASSUME NEW p \in Procs, Work(p) \/ Cancel(p), ~ Activate(p)
      PROVE  Active' \subseteq Active
  <2>1. CASE Reclaim(p)
    <3>1. (req[p] \in rows /\ Flag(req[p], FALSE)) \/ UNCHANGED queue
      BY <2>1 DEF Reclaim, ReclaimRow, ReclaimLost, Flag
    <3>2. ASSUME req[p] \in rows, Flag(req[p], FALSE) PROVE Active' \subseteq Active
      BY <3>2, FlaggedRow DEF IInv, Active
    <3> QED
      BY <3>1, <3>2 DEF Active, rows
  <2>2. CASE Insert(p)
    <3>1. Joins
      BY <2>2, InsertJoins
    <3> QED
      BY <3>1, InsertedRow DEF Joins, Active
  <2>3. CASE Rejoin(p)
    <3>1. RejoinRow(p, req[p]) \/ UNCHANGED queue
      BY <2>3 DEF Rejoin
    <3>2. ASSUME RejoinRow(p, req[p]) PROVE Active' \subseteq Active
      <4>1. req[p] \in rows /\ \E n \in 1 .. MaxTicket : MoveToTail(req[p], n)
        BY <3>2, Zenon DEF RejoinRow, MoveToTail
      <4>2. PICK n \in Nat : MoveToTail(req[p], n)
        BY <4>1
      <4> QED
        BY <4>1, <4>2, MovedRow DEF IInv, Active, SameRow
    <3> QED
      BY <3>1, <3>2 DEF Active, rows
  <2>4. CASE UNCHANGED queue \/ \E S : DeleteRows(S)
    BY <2>4, DeletedRows DEF IInv, Active, SameRow, rows
  <2> QED
    BY <1>1, <2>1, <2>2, <2>3, <2>4
      DEF Work, LockPublication, SweepOpen, SweepDelete, SweepUnlink, SweepDone, OrphanScan,
          OrphanCheck, OrphansDone, CreateOwner, DirectoryFull, InsertRefused, FindCanceled,
          TakeGlobal, GlobalBusy, CheckHead, Prepared, RecoveryBlocks, PrepareFailed,
          ActivateRefused, Finish, Drop, Unlock, Unlink, Cancel, CancelRow
<1>2. ASSUME NEW p \in Procs, Activate(p) PROVE t = req[p]
  <2>1. req[p] \in rows /\ Flag(req[p], TRUE)
    BY <1>2 DEF Activate, MayActivate, IsHead, Flag
  <2>2. rows' = rows /\ \A u \in rows \ {req[p]} : queue'[u] = queue[u]
    BY <2>1, FlaggedRow DEF IInv
  <2> QED
    BY <2>2 DEF Active
<1>3. CASE UNCHANGED queue \/ \E S : DeleteRows(S)
  BY <1>3, DeletedRows DEF IInv, Active, SameRow, rows
<1> QED
  BY <1>1, <1>2, <1>3
    DEF Next, Run, SomeCrash, DaemonCrash, ClientCrash, Crash, Request, PublishManaged,
        ReleaseForReclaim, StartWorker, Stop, PrepareRemoval, vars

(* Nobody but its owner, a stop and a recovery deletes a row that a live   *)
(* process has locked.                                                     *)
LEMMA RemovedByOwner ==
  ASSUME IInv, [Next]_vars, NEW t \in rows \ rows'
  PROVE  \/ locks[t] = {}
         \/ \E p \in locks[t] : pc'[p] # pc[p]
         \/ intent' # intent
         \/ Recovering
<1> DEFINE Removed == \/ locks[t] = {}
                      \/ \E p \in locks[t] : pc'[p] # pc[p]
                      \/ intent' # intent
                      \/ Recovering
<1> SUFFICES Removed
  OBVIOUS
<1>1. ASSUME NEW S, DeleteRows(S) PROVE t \in S
  BY <1>1 DEF DeleteRows, rows
<1>2. ASSUME NEW u, CancelRow(u) PROVE t = u
  BY <1>1, <1>2 DEF CancelRow
<1>3. rows' # rows
  OBVIOUS
<1>4. ASSUME NEW p \in Procs, t = req[p], Owning(p), pc'[p] # pc[p] PROVE Removed
  BY <1>4 DEF IInv, OwnersLocked
<1>5. ASSUME NEW p \in Procs, SweepOpen(p) PROVE FALSE
  BY <1>1, <1>5 DEF SweepOpen, IInv, RowHasOwnerFile
<1>6. ASSUME NEW p \in Procs, SweepDelete(p) PROVE Removed
  BY <1>1, <1>6 DEF SweepDelete, IInv, HeldUnowned
<1>7. ASSUME NEW p \in Procs, FindCanceled(p) \/ Drop(p) \/ Cancel(p) PROVE Removed
  BY <1>2, <1>4, <1>7 DEF FindCanceled, Drop, Cancel, IInv, TypeOK
<1>8. ASSUME NEW p \in Procs, ActivateRefused(p) PROVE Removed
  <2>1. CancelRow(req[p]) /\ pc[p] = "activate" /\ Goto(p, "unlock")
    BY <1>3, <1>8 DEF ActivateRefused, rows
  <2>2. pc'[p] # pc[p]
    BY <2>1 DEF IInv, TypeOK
  <2>3. Owning(p)
    BY <2>1
  <2> QED
    BY <1>2, <1>4, <2>1, <2>2, <2>3
<1>9. ASSUME NEW p \in Procs, Finish(p) PROVE Removed
  BY <1>1, <1>4, <1>9 DEF Finish, IInv, TypeOK
<1>10. ASSUME NEW p \in Procs, RecoveryBlocks(p) PROVE Removed
  BY <1>10 DEF RecoveryBlocks, Recovering, IInv, GlobalUse
<1>11. ASSUME NEW s \in Shares, Stop(s) PROVE Removed
  BY <1>11 DEF Stop, IInv, TypeOK
<1>12. ASSUME NEW p \in Procs, Insert(p) PROVE FALSE
  <2>1. Joins
    BY <1>12, InsertJoins
  <2> QED
    BY <2>1, InsertedRow DEF Joins
<1>13. ASSUME NEW p \in Procs, Reclaim(p) \/ Rejoin(p) \/ Activate(p) PROVE FALSE
  BY <1>3, <1>13 DEF Reclaim, ReclaimRow, ReclaimLost, Rejoin, RejoinRow, Activate, rows
<1>14. CASE UNCHANGED queue
  BY <1>3, <1>14 DEF rows
<1>15. ASSUME NEW p \in Procs, Work(p) \/ Cancel(p) PROVE Removed
  BY <1>5, <1>6, <1>7, <1>8, <1>9, <1>10, <1>12, <1>13, <1>14, <1>15
    DEF Work, LockPublication, SweepUnlink, SweepDone, OrphanScan, OrphanCheck, OrphansDone,
        CreateOwner, DirectoryFull, InsertRefused, TakeGlobal, GlobalBusy, CheckHead,
        Prepared, PrepareFailed, Unlock, Unlink
<1> QED
  BY <1>11, <1>14, <1>15
    DEF Next, Run, SomeCrash, DaemonCrash, ClientCrash, Crash, Request, PublishManaged,
        ReleaseForReclaim, StartWorker, PrepareRemoval, vars

----------------------------------------------------------------------------
(* The theorems.                                                           *)

(* The variables keep their types, and the publication lock is held by     *)
(* nobody who is not publishing: every way out of a publication gives it   *)
(* back.                                                                   *)
THEOREM TypeCorrect == Spec => []TypeOK
<1>1. Init => IInv
  BY InitInv
<1>2. IInv /\ [Next]_vars => IInv'
  BY NextInv
<1>3. IInv => TypeOK
  BY DEF IInv
<1> QED
  BY <1>1, <1>2, <1>3, PTL DEF Spec

(* A process that holds a permit keeps its active row, the only one, and   *)
(* sync.lock, until it gives them back: no cleanup sweeps the row of a     *)
(* live permit and no worker takes it over, whoever crashes.               *)
THEOREM PermitIsKept == Spec => []PermitKeepsItsRow
<1>1. Init => IInv
  BY InitInv
<1>2. IInv /\ [Next]_vars => IInv'
  BY NextInv
<1>3. IInv => PermitKeepsItsRow
  BY DEF IInv, GlobalUse, PermitRow, PermitKeepsItsRow
<1> QED
  BY <1>1, <1>2, <1>3, PTL DEF Spec

(* Every row has its owner file: a cleanup that finds none has found the   *)
(* remains of a crash, never a live request.                               *)
THEOREM OwnerFilesOutliveRows == Spec => []RowHasOwnerFile
<1>1. Init => IInv
  BY InitInv
<1>2. IInv /\ [Next]_vars => IInv'
  BY NextInv
<1>3. IInv => RowHasOwnerFile
  BY DEF IInv
<1> QED
  BY <1>1, <1>2, <1>3, PTL DEF Spec

(* The keys of sync_queue stay unique, so no publication, enabling or      *)
(* handoff fails on an index: a worker looks for the row of its generation *)
(* under the publication lock before it queues one, and a generation that  *)
(* has a row has been enabled already.                                     *)
THEOREM KeysStayUnique == Spec => []UniqueIndexes
<1>1. QueueInv => UniqueIndexes
  <2>1. ASSUME QueueInv, NEW t \in rows, NEW u \in rows, t # u
        PROVE  /\ queue[t].ticket # queue[u].ticket
               /\ ~ (queue[t].active /\ queue[u].active)
    BY <2>1 DEF QueueInv, LineInv, TicketsApart, OneActive, Active
  <2>2. ASSUME QueueInv, NEW t \in rows, NEW u \in rows, t # u, queue[t].share = queue[u].share
        PROVE  queue[t].share = NoShare \/ queue[t].gen # queue[u].gen
    <3>1. queue[t].share \in Shares \cup {NoShare}
      BY <2>2 DEF QueueInv, IInv, TypeOK, Row
    <3> QED
      BY <2>2, <3>1 DEF QueueInv, GenInv, GenerationsApart
  <2> QED
    BY <2>1, <2>2 DEF UniqueIndexes
<1> QED
  BY <1>1, InitQueueInv, NextQueueInv, PTL DEF Spec

(* First come, first served: a request becomes active only when nothing    *)
(* that was queued before it is left, whoever crashed, rejoined or was     *)
(* reclaimed meanwhile, and though the tickets of deleted rows are reused. *)
THEOREM NobodyOvertakes == Spec => NoOvertaking
<1>1. QueueInv /\ [Next]_vars => \A t \in Active' \ Active : queue[t].ahead = {}
  <2> SUFFICES ASSUME QueueInv, [Next]_vars, NEW t \in Active' \ Active PROVE queue[t].ahead = {}
    OBVIOUS
  <2>1. IsHead(t)
    BY ActivatedHead, TableStep, InsertJoins DEF QueueInv, IInv
  <2>2. \A u \in rows : queue[u].ticket \in Nat
    BY DEF QueueInv, IInv, TypeOK, Row
  <2> QED
    BY <2>1, <2>2 DEF QueueInv, LineInv, AheadBefore, IsHead
<1>2. QueueInv /\ [Next]_vars => [\A t \in Active' \ Active : queue[t].ahead = {}]_vars
  BY <1>1
<1> QED
  BY <1>2, InitQueueInv, NextQueueInv, PTL DEF Spec, NoOvertaking

(* While a live process has its request locked, only that process deletes  *)
(* the row, except a stop and a recovery that blocks the share.            *)
THEOREM OwnersRemove == Spec => OnlyOwnerRemoves
<1>1. IInv /\ [Next]_vars => [\A t \in rows \ rows' :
                                \/ locks[t] = {}
                                \/ \E p \in locks[t] : pc'[p] # pc[p]
                                \/ intent' # intent
                                \/ Recovering]_vars
  BY RemovedByOwner
<1> QED
  BY <1>1, InitInv, NextInv, PTL DEF Spec, OnlyOwnerRemoves

(* A stop, or the preparation of a removal, that falls between the look at *)
(* the head and the activation is noticed: what becomes active is the      *)
(* current generation of an enabled watch.                                 *)
THEOREM StoppedStays == Spec => StoppedNeverActivates
<1>1. QueueInv /\ [Next]_vars =>
        \A t \in Active' \ Active :
          \A s \in Shares : queue[t].share = s => queue[t].gen = intent[s] /\ enabled[s]
  <2> SUFFICES ASSUME QueueInv, [Next]_vars, NEW t \in Active' \ Active,
                      NEW s \in Shares, queue[t].share = s
               PROVE  queue[t].gen = intent[s] /\ enabled[s]
    OBVIOUS
  <2>1. PICK p \in Procs : Activate(p) /\ t = req[p]
    BY ActivatedByOwner DEF QueueInv
  <2>2. t \in rows /\ pc[p] = "activate" /\ GenerationCurrent(p)
    BY <2>1 DEF Activate, MayActivate, IsHead
  <2>3. p = s
    BY <2>1, <2>2 DEF QueueInv, IInv, SharesApart
  <2>4. queue[t].gen = intent[s]
    BY <2>1, <2>2, <2>3 DEF QueueInv, GenInv, SeenGeneration, GenerationCurrent
  <2> QED
    BY <2>2, <2>4 DEF QueueInv, GenInv, CurrentEnabled, ManagedRow
<1>2. QueueInv /\ [Next]_vars =>
        [\A t \in Active' \ Active :
           \A s \in Shares : queue[t].share = s => queue[t].gen = intent[s] /\ enabled[s]]_vars
  BY <1>1
<1> QED
  BY <1>2, InitQueueInv, NextQueueInv, PTL DEF Spec, StoppedNeverActivates

(* The scheduler implements the slot of InstallationSlot, with the order   *)
(* of the tickets for its line and the active row for its owner.           *)
THEOREM SchedulerIsSlot == Spec => ImplementsSlot
<1>1. Init => Slot!Init
  <2> SUFFICES ASSUME Init PROVE Slot!Init
    OBVIOUS
  <2>1. rows = {} /\ NoneActive
    BY DEF Init, Active, NoneActive, rows
  <2> QED
    BY <2>1 DEF Slot!Init, LineOfTable, OwnerOfTable
<1>2. QueueInv /\ QueueInv' /\ [Next]_vars => [Slot!Next]_(Slot!slotVars)
  <2> SUFFICES ASSUME QueueInv, QueueInv', [Next]_vars PROVE [Slot!Next]_(Slot!slotVars)
    OBVIOUS
  <2>1. Joins \/ Stays
    BY TableStep, InsertJoins DEF QueueInv
  <2> QED
    BY <2>1, SlotStep DEF QueueInv, IInv
<1> QED
  BY <1>1, <1>2, InitQueueInv, NextQueueInv, PTL DEF Spec, ImplementsSlot, Slot!Spec
============================================================================
