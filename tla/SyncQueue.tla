----------------------------- MODULE SyncQueue -----------------------------
(***************************************************************************)
(* The installation scheduler of flocal (src/src/state.rs): one persisted  *)
(* FIFO queue per installation, shared by every process of one user.       *)
(*                                                                         *)
(* Four pieces of shared state carry it: the SQLite table sync_queue, the  *)
(* owner files scheduler/<token> on which every live owner of a request    *)
(* holds a shared flock, the exclusive OS lock sync.lock that the holder   *)
(* of an InstallationPermit keeps, and the publication lock that           *)
(* serialises everyone who creates an owner file.  SQLite transactions are *)
(* atomic; everything between two of them, and every file operation, is a  *)
(* step of its own that other processes interleave with and a crash may    *)
(* separate.                                                               *)
(*                                                                         *)
(* Processes are the command line and SSH server processes (Clients) and,  *)
(* in the daemon, one worker per managed share, named by its share: the    *)
(* daemon's worker map admits no second worker for a share.  Requests that *)
(* wait for a remote peer (paired_state other than NULL) are not in this   *)
(* module.                                                                 *)
(***************************************************************************)
EXTENDS Naturals, FiniteSets

CONSTANTS
  Clients,      \* command line and SSH server processes
  Shares,       \* managed shares, and the daemon worker of each
  Tokens,       \* request tokens; one is reused only when nothing names it
  NoToken, NoShare, NoProc,
  MaxRows,      \* MAX_SYNC_QUEUE_ROWS
  CleanupLimit, \* STALE_QUEUE_CLEANUP_LIMIT: rows one stale sweep examines
  MaxTicket,    \* bound of the model on tickets
  MaxGen        \* bound of the model on intent generations

Procs == Clients \cup Shares

ASSUME NamesAssumption ==
  /\ NoToken \notin Tokens
  /\ NoShare \notin Shares
  /\ NoProc \notin Procs
  /\ Clients \cap Shares = {}

ASSUME BoundsAssumption ==
  /\ MaxRows \in Nat /\ CleanupLimit \in Nat
  /\ MaxTicket \in Nat /\ MaxGen \in Nat

VARIABLES
  queue,     \* the rows of sync_queue, by token
  files,     \* owner files linked in scheduler/
  locks,     \* processes with a shared flock on the linked owner file
  global,    \* holder of sync.lock
  publisher, \* holder of scheduler.publish.lock
  intent,    \* shares.intent_generation
  enabled,   \* shares.watch_enabled
  complete,  \* shares.initial_complete
  removing,  \* shares.removing_relationship is set
  pc,        \* where each process is
  req,       \* token of the QueueRequest a process owns
  seen,      \* the intent generation a process read for its request or share
  todo,      \* tokens a cleanup pass has still to examine
  held,      \* token whose owner file a cleanup pass holds exclusively
  job,       \* the share a client brings through its initial synchronization
  managed    \* the managed request published for the daemon to take over

ownerDir == <<files, locks>>
osLocks  == <<global, publisher>>
shareTab == <<intent, enabled, complete, removing>>
local    == <<pc, req, seen, todo, held, job, managed>>
vars     == <<queue, ownerDir, osLocks, shareTab, local>>

(* A row: its ticket, the share of a managed watch (NoShare for the other  *)
(* operations), its generation (0 where it is NULL) and the active flag.   *)
(* ahead is a history of the queue, the rows that were there when this one *)
(* joined or rejoined it.                                                  *)
Row == [ticket : Nat, share : Shares \cup {NoShare}, gen : Nat,
        active : BOOLEAN, ahead : SUBSET Tokens]

rows   == DOMAIN queue
Active == {t \in rows : queue[t].active}

(* Where a process can be.  "publish" waits for the publication lock;      *)
(* "reclaim" to "insert" hold it; "head" to "permit" hold sync.lock.       *)
SweepSteps   == {"sweep", "unlinkStale"}
PublishSteps == {"reclaim", "orphans", "create", "insert"}
Steps ==
  {"idle", "publish", "wait", "head", "prepare", "activate", "permit", "drop",
   "unlock", "unlink", "handoff"} \cup PublishSteps \cup SweepSteps

TypeOK ==
  /\ rows \subseteq Tokens /\ queue \in [rows -> Row]
  /\ files \subseteq Tokens
  /\ locks \in [Tokens -> SUBSET Procs]
  /\ global \in Procs \cup {NoProc}
  /\ publisher \in Procs \cup {NoProc}
  /\ intent \in [Shares -> Nat]
  /\ enabled \in [Shares -> BOOLEAN]
  /\ complete \in [Shares -> BOOLEAN]
  /\ removing \in [Shares -> BOOLEAN]
  /\ pc \in [Procs -> Steps]
  /\ req \in [Procs -> Tokens \cup {NoToken}]
  /\ seen \in [Procs -> Nat]
  /\ todo \in [Procs -> SUBSET Tokens]
  /\ held \in [Procs -> Tokens \cup {NoToken}]
  /\ job \in [Procs -> Shares \cup {NoShare}]
  /\ managed \in [Procs -> Tokens \cup {NoToken}]
  /\ publisher # NoProc => pc[publisher] \in PublishSteps \cup SweepSteps

Init ==
  /\ queue = [t \in {} |-> 0]
  /\ files = {}
  /\ locks = [t \in Tokens |-> {}]
  /\ global = NoProc /\ publisher = NoProc
  /\ intent = [s \in Shares |-> 0]
  /\ enabled = [s \in Shares |-> FALSE]
  /\ complete = [s \in Shares |-> FALSE]
  /\ removing = [s \in Shares |-> FALSE]
  /\ pc = [p \in Procs |-> "idle"]
  /\ req = [p \in Procs |-> NoToken]
  /\ seen = [p \in Procs |-> 0]
  /\ todo = [p \in Procs |-> {}]
  /\ held = [p \in Procs |-> NoToken]
  /\ job = [p \in Procs |-> NoShare]
  /\ managed = [p \in Procs |-> NoToken]

----------------------------------------------------------------------------
(* Reading the table and the owner directory.                              *)

NoneActive == Active = {}

(* eligible_head_ticket: the row with the lowest ticket, active rows       *)
(* included.                                                               *)
IsHead(t) == t \in rows /\ \A u \in rows \ {t} : queue[t].ticket < queue[u].ticket

(* n is MAX(ticket) + 1: what SQLite gives a new rowid and what a request  *)
(* that rejoins takes.  The tickets of deleted rows are used again.        *)
IsNextTicketByCount(n) == n = Cardinality(rows) + 1
IsNextTicket(n) ==
  /\ \A t \in rows : queue[t].ticket < n
  /\ n = 1 \/ \E t \in rows : queue[t].ticket = n - 1

(* A worker's request is for the generation it was queued with; the other  *)
(* requests have none to be stale.                                         *)
GenerationCurrent(p) == p \in Shares => intent[p] = seen[p]

(* try_lock_exclusive on an owner file that exists.                        *)
LockableIgnoringOwners(t) == \A q \in Procs : held[q] # t
Lockable(t) == locks[t] = {} /\ \A q \in Procs : held[q] # t

(* The rows one pass of cleanup_stale_sync_queue examines: the active row, *)
(* the head, and CleanupLimit more from wherever the durable cursor stands.*)
PageWithoutHead(S) == S \subseteq rows /\ Cardinality(S) <= CleanupLimit
Page(S) ==
  LET cursor == {R \in SUBSET rows : /\ Cardinality(R) <= CleanupLimit
                                     /\ R = rows \/ Cardinality(R) = CleanupLimit}
  IN  \E R \in cursor : S = R \cup Active \cup {t \in rows : IsHead(t)}

(* A token that nothing names any more stands for a freshly generated one. *)
Fresh(t) ==
  /\ t \notin rows \cup files
  /\ \A p \in Procs : t # req[p] /\ t # managed[p] /\ t # held[p] /\ t \notin todo[p]

Goto(p, step) == pc' = [pc EXCEPT ![p] = step]

(* DELETE FROM sync_queue for a set of tokens.                             *)
DeleteRows(S) ==
  queue' = [t \in rows \ S |-> [queue[t] EXCEPT !.ahead = @ \ S]]

(* cancel_sync_request: DELETE ... WHERE token = ? AND active = 0.         *)
CancelRow(t) == DeleteRows({t} \ Active)

(* The publication lock of scheduler.publish.lock is held through the      *)
(* reclaim, both cleanups, and the insertion.                              *)
Publishing(p) == publisher = p

(* A client publishes a managed request from inside its own permit.        *)
HandingOff(p) == global = p

----------------------------------------------------------------------------
(* Asking for the installation.                                            *)

(* A client enqueues an operation.  With s a share, it is the initial      *)
(* synchronization of s, which holds the share session lock, and remembers *)
(* the intent generation it will compare when it completes.                *)
Request(c, s) ==
  /\ pc[c] = "idle"
  /\ s # NoShare =>
       /\ ~ complete[s] /\ ~ removing[s] /\ intent[s] < MaxGen
       /\ \A d \in Clients : job[d] # s
  /\ Goto(c, "publish")
  /\ job' = [job EXCEPT ![c] = s]
  /\ seen' = [seen EXCEPT ![c] = IF s = NoShare THEN 0 ELSE intent[s]]
  /\ UNCHANGED <<queue, ownerDir, osLocks, shareTab, req, todo, held, managed>>

(* reconcile_watches and start_managed_share: the daemon starts the worker *)
(* of a share whose initial synchronization is complete.                   *)
StartWorker(s) ==
  /\ pc[s] = "idle"
  /\ complete[s] /\ ~ removing[s]
  /\ enabled[s] \/ intent[s] < MaxGen
  /\ Goto(s, "publish")
  /\ UNCHANGED <<queue, ownerDir, osLocks, shareTab, req, todo, held, job, seen, managed>>

(* The managed row of share s for its current generation, if any; a live   *)
(* client may still hold its owner file.                                   *)
ManagedRowUnowned(s, t) ==
  t \in rows /\ queue[t].share = s /\ queue[t].gen = intent[s] /\ locks[t] = {}
ManagedRow(s, t) == t \in rows /\ queue[t].share = s /\ queue[t].gen = intent[s]

BeginSweep(p) ==
  \E S \in SUBSET rows :
    /\ Page(S)
    /\ todo' = [todo EXCEPT ![p] = S]
    /\ Goto(p, "sweep")

(* lock_scheduler_publication, then the look-up of                         *)
(* reclaim_managed_queue_request for a worker whose watch is enabled.      *)
LockPublication(p) ==
  /\ pc[p] = "publish"
  /\ publisher = NoProc
  /\ publisher' = p
  /\ \/ \E t \in Tokens :
          /\ p \in Shares /\ enabled[p] /\ ManagedRow(p, t)
          /\ req' = [req EXCEPT ![p] = t]
          /\ Goto(p, "reclaim")
          /\ UNCHANGED todo
     \/ /\ ~ (p \in Shares /\ enabled[p] /\ \E t \in Tokens : ManagedRow(p, t))
        /\ BeginSweep(p)
        /\ UNCHANGED req
  /\ UNCHANGED <<queue, ownerDir, global, shareTab, held, job, seen, managed>>

(* lock_shared waits while a cleanup holds the owner file; the update then *)
(* finds the row and takes it over, its activity included, or finds that   *)
(* the cleanup deleted it.                                                 *)
ReclaimRow(p, t) ==
  /\ t \in rows
  /\ queue' = [queue EXCEPT ![t].active = FALSE]
  /\ files' = files \cup {t}
  /\ locks' = [locks EXCEPT ![t] = @ \cup {p}]
  /\ publisher' = NoProc
  /\ seen' = [seen EXCEPT ![p] = queue[t].gen]
  /\ Goto(p, "wait")
  /\ UNCHANGED <<req, todo>>

ReclaimLost(p, t) ==
  /\ t \notin rows
  /\ files' = files \ {t}
  /\ locks' = [locks EXCEPT ![t] = {}]
  /\ req' = [req EXCEPT ![p] = NoToken]
  /\ BeginSweep(p)
  /\ UNCHANGED <<queue, publisher, seen>>

Reclaim(p) ==
  LET t == req[p] IN
  /\ pc[p] = "reclaim"
  /\ \A q \in Procs : held[q] # t
  /\ ReclaimRow(p, t) \/ ReclaimLost(p, t)
  /\ UNCHANGED <<global, shareTab, held, job, managed>>

----------------------------------------------------------------------------
(* cleanup_stale_sync_queue, from a publication or from a wait.            *)

(* One candidate: no owner file, so the row goes; an owner file that can   *)
(* be locked, so it is; a live owner, so the row stays.                    *)
SweepOpen(p) ==
  /\ pc[p] = "sweep"
  /\ held[p] = NoToken
  /\ \E t \in todo[p] :
       LET dead == t \in files /\ Lockable(t) IN
       /\ held' = IF dead THEN [held EXCEPT ![p] = t] ELSE held
       /\ todo' = IF dead THEN todo ELSE [todo EXCEPT ![p] = @ \ {t}]
       /\ DeleteRows({t} \ files)
  /\ UNCHANGED <<ownerDir, osLocks, shareTab, pc, req, job, seen, managed>>

(* The row is deleted while the exclusive lock is held; its file is        *)
(* unlinked only if there was a row to delete.                             *)
SweepDelete(p) ==
  LET t == held[p] IN
  /\ pc[p] = "sweep"
  /\ t # NoToken
  /\ DeleteRows({t})
  /\ IF t \in rows
     THEN Goto(p, "unlinkStale") /\ UNCHANGED <<todo, held>>
     ELSE /\ todo' = [todo EXCEPT ![p] = @ \ {t}]
          /\ held' = [held EXCEPT ![p] = NoToken]
          /\ UNCHANGED pc
  /\ UNCHANGED <<ownerDir, osLocks, shareTab, req, job, seen, managed>>

SweepUnlink(p) ==
  LET t == held[p] IN
  /\ pc[p] = "unlinkStale"
  /\ files' = files \ {t}
  /\ locks' = [locks EXCEPT ![t] = {}]
  /\ todo' = [todo EXCEPT ![p] = @ \ {t}]
  /\ held' = [held EXCEPT ![p] = NoToken]
  /\ Goto(p, "sweep")
  /\ UNCHANGED <<queue, osLocks, shareTab, req, job, seen, managed>>

(* A publication goes on to the orphan scan, which lists the directory;    *)
(* a waiting request polls again.                                          *)
SweepDone(p) ==
  /\ pc[p] = "sweep"
  /\ held[p] = NoToken
  /\ todo[p] = {}
  /\ IF Publishing(p)
     THEN Goto(p, "orphans") /\ todo' = [todo EXCEPT ![p] = files]
     ELSE Goto(p, "wait") /\ UNCHANGED todo
  /\ UNCHANGED <<queue, ownerDir, osLocks, shareTab, req, held, job, seen, managed>>

----------------------------------------------------------------------------
(* cleanup_scheduler_orphans and the insertion, under the publication lock.*)

(* A failed publication releases the lock; a client that was handing its   *)
(* share over fails its operation and is left with the permit to drop.     *)
FailPublication(p) ==
  /\ publisher' = NoProc
  /\ todo' = [todo EXCEPT ![p] = {}]
  /\ job' = [job EXCEPT ![p] = NoShare]
  /\ Goto(p, IF HandingOff(p) THEN "permit" ELSE "idle")

(* A listed file that its owner has unlinked meanwhile fails the whole     *)
(* enqueue: open_scheduler_owner(..)? has no exception for NotFound here.  *)
OrphanVanished(p, t) ==
  /\ t \notin files
  /\ FailPublication(p)
  /\ UNCHANGED held

OrphanOpen(p, t) ==
  /\ t \in files
  /\ IF Lockable(t)
     THEN held' = [held EXCEPT ![p] = t] /\ UNCHANGED todo
     ELSE todo' = [todo EXCEPT ![p] = @ \ {t}] /\ UNCHANGED held
  /\ UNCHANGED <<publisher, job, pc>>

OrphanScan(p) ==
  /\ pc[p] = "orphans"
  /\ held[p] = NoToken
  /\ \E t \in todo[p] : OrphanVanished(p, t) \/ OrphanOpen(p, t)
  /\ UNCHANGED <<queue, ownerDir, global, shareTab, req, seen, managed>>

(* With the exclusive lock: a file without a row is unlinked.              *)
OrphanUnchecked(t) == t # NoToken
Orphan(t) == t \notin rows

OrphanCheck(p) ==
  LET t == held[p] IN
  /\ pc[p] = "orphans"
  /\ t # NoToken
  /\ files' = IF Orphan(t) THEN files \ {t} ELSE files
  /\ locks' = IF Orphan(t) THEN [locks EXCEPT ![t] = {}] ELSE locks
  /\ todo' = [todo EXCEPT ![p] = @ \ {t}]
  /\ held' = [held EXCEPT ![p] = NoToken]
  /\ UNCHANGED <<queue, osLocks, shareTab, pc, req, job, seen, managed>>

OrphansDone(p) ==
  /\ pc[p] = "orphans"
  /\ held[p] = NoToken
  /\ todo[p] = {}
  /\ Goto(p, "create")
  /\ UNCHANGED <<queue, ownerDir, osLocks, shareTab, req, todo, held, job, seen, managed>>

(* create_scheduler_owner: a new file, locked and synced before the row    *)
(* that names it can be committed.                                         *)
CreateOwner(p) ==
  /\ pc[p] = "create"
  /\ \E t \in Tokens :
       /\ Fresh(t)
       /\ files' = files \cup {t}
       /\ locks' = [locks EXCEPT ![t] = {p}]
       /\ IF HandingOff(p)
          THEN managed' = [managed EXCEPT ![p] = t] /\ UNCHANGED req
          ELSE req' = [req EXCEPT ![p] = t] /\ UNCHANGED managed
  /\ Goto(p, "insert")
  /\ UNCHANGED <<queue, osLocks, shareTab, todo, held, job, seen>>

(* ensure_scheduler_capacity: the directory has no room for another file.  *)
DirectoryFull(p) ==
  /\ pc[p] = "create"
  /\ \A t \in Tokens : ~ Fresh(t)
  /\ FailPublication(p)
  /\ UNCHANGED <<queue, ownerDir, global, shareTab, req, held, seen, managed>>

(* INSERT INTO sync_queue; the rows queued now are ahead of the new one.   *)
InsertRow(t, n, s, g) ==
  LET row == [ticket |-> n, share |-> s, gen |-> g, active |-> FALSE, ahead |-> rows]
  IN  queue' = [u \in rows \cup {t} |-> IF u = t THEN row ELSE queue[u]]

(* enqueue_sync_inner: an ordinary request, or a worker's request for the  *)
(* generation it read.                                                     *)
InsertRequest(p, n) ==
  LET managedGen == IF p \in Shares THEN intent[p] ELSE 0 IN
  /\ ~ HandingOff(p)
  /\ p \in Shares => enabled[p]
  /\ InsertRow(req[p], n, IF p \in Shares THEN p ELSE NoShare, managedGen)
  /\ seen' = IF p \in Shares THEN [seen EXCEPT ![p] = managedGen] ELSE seen
  /\ Goto(p, "wait")
  /\ UNCHANGED shareTab

(* enable_and_enqueue_managed_sync: one transaction enables the watch,     *)
(* advances the generation and queues the request for it.                  *)
InsertEnabling(s, n) ==
  /\ s \in Shares /\ ~ enabled[s] /\ ~ removing[s]
  /\ enabled' = [enabled EXCEPT ![s] = TRUE]
  /\ intent' = [intent EXCEPT ![s] = @ + 1]
  /\ InsertRow(req[s], n, s, intent[s] + 1)
  /\ seen' = [seen EXCEPT ![s] = intent[s] + 1]
  /\ Goto(s, "wait")
  /\ UNCHANGED <<complete, removing>>

(* finish_install_and_enable_managed, with the compare-and-set on the      *)
(* generation the client read when it began.                               *)
InsertHandoff(c, n) ==
  LET s == job[c] IN
  /\ HandingOff(c)
  /\ intent[s] = seen[c] /\ ~ complete[s] /\ ~ removing[s]
  /\ complete' = [complete EXCEPT ![s] = TRUE]
  /\ enabled' = [enabled EXCEPT ![s] = TRUE]
  /\ intent' = [intent EXCEPT ![s] = @ + 1]
  /\ InsertRow(managed[c], n, s, intent[s] + 1)
  /\ Goto(c, "permit")
  /\ UNCHANGED <<removing, seen>>

Insert(p) ==
  /\ pc[p] = "insert"
  /\ Cardinality(rows) < MaxRows
  /\ \E n \in 1 .. MaxTicket :
       /\ IsNextTicket(n)
       /\ InsertRequest(p, n) \/ InsertEnabling(p, n) \/ InsertHandoff(p, n)
  /\ publisher' = NoProc
  /\ UNCHANGED <<ownerDir, global, req, todo, held, job, managed>>

TicketsLeft == \A t \in rows : queue[t].ticket < MaxTicket

(* The queue is full, or the share was stopped since the client began:     *)
(* the transaction is dropped, and the new owner file with it.             *)
InsertRefused(p) ==
  LET t == IF HandingOff(p) THEN managed[p] ELSE req[p] IN
  /\ pc[p] = "insert"
  /\ \/ Cardinality(rows) >= MaxRows
     \/ ~ TicketsLeft
     \/ HandingOff(p) /\ intent[job[p]] # seen[p]
  /\ files' = files \ {t}
  /\ locks' = [locks EXCEPT ![t] = {}]
  /\ req' = IF HandingOff(p) THEN req ELSE [req EXCEPT ![p] = NoToken]
  /\ managed' = [managed EXCEPT ![p] = NoToken]
  /\ FailPublication(p)
  /\ UNCHANGED <<queue, global, shareTab, held, seen>>

----------------------------------------------------------------------------
(* wait_with_prepare and try_activate_after.                               *)

(* The caller's canceled() closure fires between two polls (a stopped      *)
(* worker, an expired lease, a lost wire) or before the activating         *)
(* transaction.                                                            *)
Cancel(p) ==
  /\ pc[p] \in {"wait", "activate"}
  /\ CancelRow(req[p])
  /\ global' = IF global = p THEN NoProc ELSE global
  /\ Goto(p, "unlock")
  /\ UNCHANGED <<ownerDir, publisher, shareTab, req, todo, held, job, seen, managed>>

(* The row is gone, or its generation is stale and it is canceled.         *)
FindCanceled(p) ==
  LET t == req[p] IN
  /\ pc[p] = "wait"
  /\ t \notin rows \/ ~ GenerationCurrent(p)
  /\ CancelRow(t)
  /\ Goto(p, "unlock")
  /\ UNCHANGED <<ownerDir, osLocks, shareTab, req, todo, held, job, seen, managed>>

(* try_lock_global_sync_final comes before the look at the head, so a      *)
(* request far down the queue takes sync.lock for a moment too.            *)
Current(p) == req[p] \in rows /\ GenerationCurrent(p)

TakeGlobal(p) ==
  /\ pc[p] = "wait"
  /\ Current(p)
  /\ global = NoProc
  /\ global' = p
  /\ Goto(p, "head")
  /\ UNCHANGED <<queue, ownerDir, publisher, shareTab, req, todo, held, job, seen, managed>>

(* sync.lock is busy: scheduling_snapshot sweeps before the next poll.     *)
GlobalBusy(p) ==
  /\ pc[p] = "wait"
  /\ Current(p)
  /\ global # NoProc
  /\ BeginSweep(p)
  /\ UNCHANGED <<queue, ownerDir, osLocks, shareTab, req, held, job, seen, managed>>

CheckHead(p) ==
  /\ pc[p] = "head"
  /\ IF IsHead(req[p]) /\ NoneActive
     THEN Goto(p, "prepare") /\ UNCHANGED <<global, todo>>
     ELSE global' = NoProc /\ BeginSweep(p)
  /\ UNCHANGED <<queue, ownerDir, publisher, shareTab, req, held, job, seen, managed>>

(* prepare is recover_installs_locked: it succeeds,                        *)
Prepared(p) ==
  /\ pc[p] = "prepare"
  /\ Goto(p, "activate")
  /\ UNCHANGED <<queue, ownerDir, osLocks, shareTab, req, todo, held, job, seen, managed>>

(* or meets a share that is busy, and the request rejoins at the tail (or  *)
(* finds that its row has gone),                                           *)
RejoinRow(p, t) ==
  /\ t \in rows
  /\ \E n \in 1 .. MaxTicket :
       /\ IsNextTicket(n)
       /\ queue' = [u \in rows |-> IF u = t
                                  THEN [queue[t] EXCEPT !.ticket = n, !.ahead = rows \ {t}]
                                  ELSE [queue[u] EXCEPT !.ahead = @ \ {t}]]
  /\ BeginSweep(p)

Rejoin(p) ==
  LET t == req[p] IN
  /\ pc[p] = "prepare"
  /\ RejoinRow(p, t) \/ (t \notin rows /\ Goto(p, "unlock") /\ UNCHANGED <<queue, todo>>)
  /\ global' = NoProc
  /\ UNCHANGED <<ownerDir, publisher, shareTab, req, held, job, seen, managed>>

(* or blocks a share whose interrupted install cannot be recovered, and    *)
(* deletes the inactive rows of that share, live owners or not: a managed  *)
(* share's own, and those of any operation on it (which the model does not *)
(* tell apart, so any of the other rows),                                  *)
BlockedRows(S) ==
  /\ S # {} /\ S \subseteq rows \ Active
  /\ \E s \in Shares \cup {NoShare} :
       \A t \in rows \ Active : /\ t \in S => queue[t].share \in {s, NoShare}
                              /\ s # NoShare /\ queue[t].share = s => t \in S

RecoveryBlocks(p) ==
  /\ pc[p] = "prepare"
  /\ \E S \in SUBSET rows : BlockedRows(S) /\ DeleteRows(S)
  /\ UNCHANGED <<ownerDir, osLocks, shareTab, local>>

(* or fails, and the request is dropped once sync.lock is released.        *)
PrepareFailed(p) ==
  /\ pc[p] = "prepare"
  /\ global' = NoProc
  /\ Goto(p, "drop")
  /\ UNCHANGED <<queue, ownerDir, publisher, shareTab, req, todo, held, job, seen, managed>>

(* The conditional transaction rechecks row, head and generation.          *)
MayActivateUnchecked(p) == IsHead(req[p]) /\ NoneActive
MayActivate(p) == IsHead(req[p]) /\ NoneActive /\ GenerationCurrent(p)

Activate(p) ==
  /\ pc[p] = "activate"
  /\ MayActivate(p)
  /\ queue' = [queue EXCEPT ![req[p]].active = TRUE]
  /\ Goto(p, "permit")
  /\ UNCHANGED <<ownerDir, osLocks, shareTab, req, todo, held, job, seen, managed>>

(* It changed no row: sync.lock is released, and a stale request canceled. *)
ActivateRefused(p) ==
  LET t == req[p] IN
  /\ pc[p] = "activate"
  /\ ~ MayActivate(p)
  /\ global' = NoProc
  /\ IF GenerationCurrent(p)
     THEN BeginSweep(p) /\ UNCHANGED queue
     ELSE CancelRow(t) /\ Goto(p, "unlock") /\ UNCHANGED todo
  /\ UNCHANGED <<ownerDir, publisher, shareTab, req, held, job, seen, managed>>

----------------------------------------------------------------------------
(* Giving the permit or the request back.                                  *)

(* InstallationPermit::finish or its drop: the active row is deleted.      *)
Finish(p) ==
  /\ pc[p] = "permit"
  /\ DeleteRows({req[p]})
  /\ Goto(p, "unlock")
  /\ UNCHANGED <<ownerDir, osLocks, shareTab, req, todo, held, job, seen, managed>>

(* Drop of a QueueRequest that still has its owner.                        *)
Drop(p) ==
  /\ pc[p] = "drop"
  /\ CancelRow(req[p])
  /\ Goto(p, "unlock")
  /\ UNCHANGED <<ownerDir, osLocks, shareTab, req, todo, held, job, seen, managed>>

Unlock(p) ==
  /\ pc[p] = "unlock"
  /\ locks' = [locks EXCEPT ![req[p]] = @ \ {p}]
  /\ Goto(p, "unlink")
  /\ UNCHANGED <<queue, files, osLocks, shareTab, req, todo, held, job, seen, managed>>

(* The owner file is unlinked, and a permit releases sync.lock last.  A    *)
(* client with a managed request then asks the daemon to start its share.  *)
Unlink(p) ==
  /\ pc[p] = "unlink"
  /\ files' = files \ {req[p]}
  /\ locks' = [locks EXCEPT ![req[p]] = {}]
  /\ global' = IF global = p THEN NoProc ELSE global
  /\ req' = [req EXCEPT ![p] = NoToken]
  /\ job' = [job EXCEPT ![p] = NoShare]
  /\ seen' = [seen EXCEPT ![p] = 0]
  /\ Goto(p, IF managed[p] = NoToken THEN "idle" ELSE "handoff")
  /\ UNCHANGED <<queue, publisher, shareTab, todo, held, managed>>

(* The holder of a permit for an initial synchronization publishes the     *)
(* managed request of its share.                                           *)
PublishManaged(c) ==
  /\ pc[c] = "permit"
  /\ job[c] # NoShare /\ managed[c] = NoToken
  /\ Goto(c, "publish")
  /\ UNCHANGED <<queue, ownerDir, osLocks, shareTab, req, todo, held, job, seen, managed>>

(* The daemon answered the start request, with success or with an error:   *)
(* release_for_reclaim drops the client's lock and leaves the row.         *)
ReleaseForReclaim(c) ==
  /\ pc[c] = "handoff"
  /\ locks' = [locks EXCEPT ![managed[c]] = @ \ {c}]
  /\ managed' = [managed EXCEPT ![c] = NoToken]
  /\ Goto(c, "idle")
  /\ UNCHANGED <<queue, files, osLocks, shareTab, req, todo, held, job, seen>>

----------------------------------------------------------------------------
(* stop_and_cancel_managed_sync.  The daemon's lifecycle mutex keeps it    *)
(* out while the daemon is enqueueing for the share.                       *)
StoppedRows(s) == {t \in rows \ Active : queue[t].share = s /\ queue[t].gen <= intent[s]}

Enqueueing(s) == pc[s] = "publish" \/ publisher = s

Stop(s) ==
  /\ ~ Enqueueing(s) /\ ~ removing[s]
  /\ intent[s] < MaxGen
  /\ enabled' = [enabled EXCEPT ![s] = FALSE]
  /\ intent' = [intent EXCEPT ![s] = @ + 1]
  /\ DeleteRows(StoppedRows(s))
  /\ UNCHANGED <<ownerDir, osLocks, complete, removing, local>>

(* prepare_managed_removal: prepare_removal marks the relationship, stops  *)
(* its watch and advances the generation.  The rows of the share stay, for *)
(* their owners to find stale.  What follows a preparation is not in this  *)
(* module: the share stays marked.                                         *)
PrepareRemoval(s) ==
  /\ ~ Enqueueing(s) /\ ~ removing[s]
  /\ intent[s] < MaxGen
  /\ removing' = [removing EXCEPT ![s] = TRUE]
  /\ enabled' = [enabled EXCEPT ![s] = FALSE]
  /\ intent' = [intent EXCEPT ![s] = @ + 1]
  /\ UNCHANGED <<queue, ownerDir, osLocks, complete, local>>

(* A process dies: the kernel drops its locks, its transactions never      *)
(* happened, its rows and files stay.                                      *)
Crash(K) ==
  /\ \E p \in K : pc[p] # "idle"
  /\ locks' = [t \in Tokens |-> locks[t] \ K]
  /\ global' = IF global \in K THEN NoProc ELSE global
  /\ publisher' = IF publisher \in K THEN NoProc ELSE publisher
  /\ pc' = [p \in Procs |-> IF p \in K THEN "idle" ELSE pc[p]]
  /\ req' = [p \in Procs |-> IF p \in K THEN NoToken ELSE req[p]]
  /\ todo' = [p \in Procs |-> IF p \in K THEN {} ELSE todo[p]]
  /\ held' = [p \in Procs |-> IF p \in K THEN NoToken ELSE held[p]]
  /\ job' = [p \in Procs |-> IF p \in K THEN NoShare ELSE job[p]]
  /\ seen' = [p \in Procs |-> IF p \in K THEN 0 ELSE seen[p]]
  /\ managed' = [p \in Procs |-> IF p \in K THEN NoToken ELSE managed[p]]
  /\ UNCHANGED <<queue, files, shareTab>>

ClientCrash(c) == Crash({c})
DaemonCrash == Crash(Shares)

----------------------------------------------------------------------------
(* One step of a process that has something to do.                         *)
Work(p) ==
  \/ LockPublication(p) \/ Reclaim(p)
  \/ SweepOpen(p) \/ SweepDelete(p) \/ SweepUnlink(p) \/ SweepDone(p)
  \/ OrphanScan(p) \/ OrphanCheck(p) \/ OrphansDone(p)
  \/ CreateOwner(p) \/ DirectoryFull(p) \/ Insert(p) \/ InsertRefused(p)
  \/ FindCanceled(p) \/ TakeGlobal(p) \/ GlobalBusy(p) \/ CheckHead(p)
  \/ Prepared(p) \/ Rejoin(p) \/ RecoveryBlocks(p) \/ PrepareFailed(p)
  \/ Activate(p) \/ ActivateRefused(p)
  \/ Finish(p) \/ Drop(p) \/ Unlock(p) \/ Unlink(p)

Run ==
  \/ \E c \in Clients, s \in Shares \cup {NoShare} : Request(c, s)
  \/ \E c \in Clients : PublishManaged(c) \/ ReleaseForReclaim(c)
  \/ \E s \in Shares : StartWorker(s) \/ Stop(s) \/ PrepareRemoval(s)
  \/ \E p \in Procs : Work(p) \/ Cancel(p)

SomeCrash == DaemonCrash \/ \E c \in Clients : ClientCrash(c)

Next == Run \/ SomeCrash

(* Without crashes, for what is claimed of daemon-request errors alone.    *)
CrashFreeSpec == Init /\ [][Run]_vars

Spec == Init /\ [][Next]_vars

(* Every process that is running keeps running.  The session that makes a  *)
(* recovery rejoin ends, so a request that prepares again and again is     *)
(* prepared in the end.                                                    *)
Fairness ==
  \A p \in Procs : /\ WF_vars(Work(p))
                   /\ SF_vars(TakeGlobal(p))
                   /\ SF_vars(Prepared(p) \/ PrepareFailed(p))

----------------------------------------------------------------------------
(* Properties.                                                             *)

(* A process that holds a permit has the one active row and sync.lock:     *)
(* no cleanup has swept the row, no reclaim has reset it, and finish will  *)
(* not fail with "active synchronization request is missing".              *)
PermitKeepsItsRow ==
  \A p \in Procs : pc[p] = "permit" => global = p /\ Active = {req[p]}

(* An owner file outlives its row: every deletion of a row comes before    *)
(* the unlink, in the owner, in the sweep and in the orphan scan, so a     *)
(* missing owner file is never the mark of a live request.                 *)
RowHasOwnerFile == rows \subseteq files

(* The keys of sync_queue: tickets, one active row, and one managed row    *)
(* per share and generation.  A publication that broke one would fail on   *)
(* the index, and enabling or handing over a watch with it.                *)
UniqueIndexes ==
  \A t, u \in rows : t # u =>
    /\ queue[t].ticket # queue[u].ticket
    /\ ~ (queue[t].active /\ queue[u].active)
    /\ queue[t].share = queue[u].share => queue[t].share = NoShare \/ queue[t].gen # queue[u].gen

(* The step is a recovery's, which may block a share.                      *)
Recovering == global # NoProc /\ pc[global] = "prepare" /\ local' = local

(* While a live process owns a request nobody else deletes its row, except *)
(* sync stop and a recovery that blocks the share: a sweep that overlaps a *)
(* reclaim, a handoff or an activation takes only rows whose owners have   *)
(* died or released them.                                                  *)
OnlyOwnerRemoves ==
  [][\A t \in rows \ rows' :
       \/ locks[t] = {}
       \/ \E p \in locks[t] : pc'[p] # pc[p]
       \/ intent' # intent
       \/ Recovering]_vars

(* First come, first served, across reuse of tickets and tokens, rejoins,  *)
(* crashes and reclaims: when a request becomes active, no row that was    *)
(* queued before it is still in the queue.                                 *)
NoOvertaking ==
  [][\A t \in Active' \ Active : queue[t].ahead = {}]_vars

(* After sync stop, or once the removal of its relationship is prepared,   *)
(* no generation of a watch becomes active any more, even when the change  *)
(* falls between the look at the head and the activation.                  *)
StoppedNeverActivates ==
  [][\A t \in Active' \ Active :
       \A s \in Shares : queue[t].share = s => queue[t].gen = intent[s] /\ enabled[s]]_vars

(* A poll finds sync.lock taken by a request that only looks whether it is *)
(* the head.  It lasts for two queries; polls are 10 to 250 ms apart.      *)
ProbeCollision(p) == GlobalBusy(p) /\ pc[global] = "head"

(* A request that waits gets its permit or ends, whoever crashed ahead of  *)
(* it: a dead queue head or a dead permit never blocks the installation    *)
(* once the crashes end, unless its polls collide with probes for ever.    *)
RequestServed ==
  <>[][\A p \in Procs : ~ ProbeCollision(p)]_vars
    => \A p \in Procs : pc[p] = "wait" ~> pc[p] \in {"permit", "idle"}

(* Stated by docs/2026-08-20-multi-share-scheduling-final-report.org:198:  *)
(* no daemon-request error can lose the FIFO ticket of a managed handoff.  *)
HandoffKeepsTicket ==
  [][\A t \in rows \ rows' :
       queue[t].share # NoShare /\ queue[t].gen = intent[queue[t].share]
       /\ intent' = intent /\ ~ Recovering
         => \E p \in Procs : req[p] = t]_vars
============================================================================
