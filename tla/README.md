# file.local in TLA+

`flocal` (file.local) keeps a directory in step between two machines over SSH.
It is local first: each installation has its own SQLite database, object store
and tree, and a relationship connects one share of an installation with one
share of another. This directory holds TLA+ models of the parts of `flocal` in
which the order of steps decides whether it is correct, the TLC runs that check
them, and proofs of the properties that matter most.

Paths below are relative to the repository: `src/src/state.rs` is the state
module of the Rust crate, line numbers are those of the modelled commit.

## 1. Inventory

| # | component | where | state it keeps | operations |
|---|---|---|---|---|
| 1 | installation scheduler | `state.rs` 60–250, 689–983, 1035–1217, 2922–3300, 3817–4043, 6714–6800 | table `sync_queue`, owner files `scheduler/<token>` with flocks, `sync.lock`, `scheduler.publish.lock`, generations of watches | enqueue, reclaim, sweep stale rows, sweep orphans, activate, rejoin, cancel, finish, hand over, stop |
| 2 | paired reservation | `state.rs` 2988–3117, 3325–3815; `main.rs` 3570–4360; `sync.rs` 236–330 | `paired_state`, `network_order`, predecessor fingerprints of a row; a lease; relationship yields | park, issue and acknowledge a proxy, prepare, commit, reset, yield |
| 3 | install and recovery | `sync.rs` 1649–2770; `state.rs` 474–510, 2166–2455, 2547–2893, 6385–6495 | `install_intents`, temporaries in the tree, `records`, unsettled paths | apply, roll back, invalidate, recover, classify, retry |
| 4 | versions, scan, reconcile | `model.rs`, `scan.rs`, `reconcile.rs`, `sync.rs` 1564–1647, `state.rs` 4543–4660 | versions with `seen`, shared heads | scan, reconcile, acknowledge heads |
| 5 | three-way merge | `merge.rs`, `sync.rs` 2771–3240 | none | merge, fall back |
| 6 | object store and recovery budget | `state.rs` 510–690, 2456–2546, 5219–5970, 6117–6350; `sync.rs` 3241–3476 | objects, conflicts, pending references, budgets | store, collect, charge, prune |
| 7 | relationship lifecycle | `state.rs` 4106–5215, 6353–6712; `main.rs` 3261–3397, 4975–5145 | shares, bindings, removals in progress | register, prepare and finalize a removal |
| 8 | daemon and workers | `main.rs` 2475–3260; `state.rs` 5972–6085 | worker map, `watch_enabled`, `intent_generation` | start, stop, reconcile watches, report events |
| 9 | sessions | `main.rs` 4374–6575, 7294–8325 | the round of a watch or a one-shot synchronization | snapshot, plan, transfer, commit |
| 10 | upgrade installer | `main.rs` 1675–2475; `state.rs` 1219–1640, 1976–2036 | service, executable, upgrade marker and barrier | quiesce, replace, restore |
| 11 | debounce, framing, command line | `watch.rs`, `sync.rs` 824–1250, `main.rs` | timers | – |

How they interact. Every synchronization, one-shot or watched, first asks its
installation's scheduler (1) for the permit, through a paired reservation (2)
when two installations are involved. Holding it, it first recovers interrupted
installs (3), then scans and reconciles (4, 5), transfers objects (6), and
applies the plan (3). The daemon (8) runs one worker per watched share, each a
client of the scheduler; an initial synchronization hands its share over to the
daemon by committing a queued request that a worker reclaims. Removal (7) and
`sync stop` advance the generation of the watch, which makes the requests in
the queue stale. Processes share SQLite (transactions are atomic), advisory
locks, and files; there is no other channel between them.

What is hard. Everything between two transactions interleaves with other
processes and with the user, who edits the same tree; every process may die
between any two steps and leaves rows, files and half installed paths that
others must understand; queue tickets and directory entries are reused; and
recovery has to infer what a crash left from phase and content alone. The
`hazards` of `PROJECT.json` list them at their lines.

What makes each part correct:

- scheduler: at most one active request and it keeps its row and lock; first
  come, first served, across rejoins, crashes and reuse; nobody removes a live
  request but its owner; a stopped watch never becomes active; nobody waits
  for ever for a dead process.
- install: an edit of the user's is never lost to an older plan; between rounds
  the records describe the tree; a deletion leaves no marker; an interrupted
  install is settled or reported.
- reservation: both sides commit the same pair or neither; no deadlock among
  relationships; an expired lease releases both.
- reconcile: commutative, idempotent; two peers that exchange both ways end
  equal; a deletion is not resurrected by an older version.
- object store: no referenced object is collected; budgets are not exceeded.
- lifecycle, daemon, upgrade: a removal or an upgrade that stops half way can
  be taken up again; no worker runs for a share that is stopped or removed.

## 2. Modules

| module | models | EXTENDS / INSTANCE |
|---|---|---|
| `SyncQueue` | the installation scheduler (1) with the worker side of (8) | – |
| `InstallationSlot` | what the scheduler promises: one line, one slot | – |
| `SyncQueueSlot` | that the scheduler implements it: the line is the order of the tickets, the owner the active row | EXTENDS `SyncQueue`, INSTANCE `InstallationSlot` |
| `PairReservation` | the reservation of two slots for one synchronization (2), with the scheduler's rules for paired rows | – |
| `Install` | install and recovery of one share (3), and the user of its tree | – |
| `Reconcile` | versions and their reconciliation (4), as operators | – |
| `Converge` | two ends that edit, scan, plan, merge, install and acknowledge (4, 5, 9) | EXTENDS `Reconcile` |
| `OneShot` | `flocal sync` and its server, over pipes (9) | – |
| `Watch` | a persistent watch session with its watchers and timers (9, 11) | – |
| `Relationship` | registration and removal between a connector and a responder (7) | – |
| `ObjectStore` | objects, collector, recovery conflicts, prune and restore (6) | – |
| `MCSyncQueue`, `MCSyncQueueLive`, `MCInstall`, `MCConverge`, `MCPairReservation`, `MCOneShot`, `MCWatch`, `MCRelationship`, `MCObjectStore` | the instances for TLC | EXTENDS the module named, `MCSyncQueue` `SyncQueueSlot` |
| `SyncQueueProofs`, `PairReservationProofs`, `InstallProofs`, `ConvergeProofs`, `OneShotProofs`, `RelationshipProofs`, `ObjectStoreProofs`, `WatchProofs` | the proofs | EXTENDS the module named (`SyncQueueProofs` `SyncQueueSlot`), `TLAPS` |

How they compose. Each module has one component in full and takes what its
neighbours promise as a step: a permit is one step in `Converge`, `OneShot`,
`Watch` and `ObjectStore` because `SyncQueue` and `PairReservation` are about
how it is obtained; an application is one step there because `Install` is about
its steps and crashes; reconciliation is a union in `OneShot` and `Watch`
because `Converge` is about concurrent versions. `Converge` uses the operators of
`Reconcile` as they are.

### SyncQueue

`queue` is `sync_queue` by token, with the ticket, the managed share, the
generation and the active flag of a row. `files` and `locks` are the owner
files and the shared flocks on them; an exclusive flock of a cleanup is `held`.
`global` and `publisher` are the holders of `sync.lock` and
`scheduler.publish.lock`. `intent`, `enabled`, `complete` and `removing` are the
columns of `shares` that the queue depends on. `pc` says where each process is.
A transaction is one action; file operations, lock operations and the code
between are others. `ahead` is a history variable: the rows that were in the
queue when this one joined it.

| action | code |
|---|---|
| `Request`, `LockPublication`, `BeginSweep` … `OrphansDone`, `CreateOwner`, `Insert`, `InsertRefused` | `enqueue_sync_inner` and the cleanups it calls, `enable_and_enqueue_managed_sync`, the queueing part of `finish_install_inner` |
| `Reclaim` | `reclaim_managed_queue_request` |
| `FindCanceled`, `TakeGlobal`, `GlobalBusy`, `CheckHead`, `Prepared`, `Rejoin`, `RecoveryBlocks`, `PrepareFailed`, `Activate`, `ActivateRefused`, `Cancel` | `wait_with_prepare`, `try_activate_after`, and `recover_installs_locked` as the `prepare` it is given |
| `Finish`, `Unlock`, `Unlink`, `Drop`, `ReleaseForReclaim` | `finish_inner`, the drops of permit and request, `release_for_reclaim` |
| `Stop`, `PrepareRemoval`, `StartWorker` | the daemon's requests, under its lifecycle mutex |
| `ClientCrash`, `DaemonCrash` | the death of a process; the daemon's workers die together |

### PairReservation

`line` has the rows of each installation; `ahead` of a row is the set of the rows
with lower tickets (`SyncQueue` has the tickets), `active` the request in the slot.
`phase` and `wire` are the two ends of a reservation and the one message
between them; `closed` says that one end has given the connection up. The lower
peer identity is the authority (`Low`): it numbers the pair (`LowPublish`),
prepares and commits (`LowPrepare`, `LowCommit`), takes its slot first
(`LowActivate`); the other end answers (`High…`). Recovery before a pair has a
row of its own (`RecoveryRow`). After the commit everything stands under a lease
(`Leased`, `LeaseExpires`), and a failure makes the installation yield to others
(`Yields`). `ManagedEnqueue`, `ManagedStop` and `ManagedRefused` are the
daemon's row; `Crash` and `Sweep` the death of a process and the removal of its
rows; `LocalEnqueue`, `LocalActivate`, `LocalFinish` a request without a peer.

### Install

`disk` is the user's tree and `temp` what is at the temporary name of each path;
`record` is the `records` table, `intent`, `plan` and `phase` the row of
`install_intents`. `pc`, `cur`, `todo`, `guarded` and `recovering` are the local
variables of `apply_complete_plan_with_root_skipping_inner` and die with the
process. The user writes at any moment (`UserWrites`). `base`, `edited`,
`latest`, `exposed` and `touched` are history variables: what the scan saw, the
user's last write since, and whether it met one of the known gaps.

| action | code |
|---|---|
| `BeginRound`, `SetIntent` | the round that makes the plan, `set_plan_install_intent_inner` |
| `SkipRecord`, `StartRecord` | the loop over the ordered records |
| `RecoverTombstone`, `RecoverDisplaced`, `AdoptTemp`, `RotateTemp`, `ResumeTemp`, `CreateTemp`, `FillTemp`, `OwnTemp` | `apply_record` up to the installation |
| `InstallNew`, `InstallOver`, `Verify`, `Rollback`, `DiscardTemp`, `Unmark`, `SyncRecord`, `SyncFails` | `atomic_install`, the deletion branch, `sync_applied_record` and its failure, which ends the apply without a rescan |
| `Restore`, `RestoreDone` | the rollbacks of `recover_tombstone` and `recover_displaced` |
| `Invalidate`, `StopApply`, `Finish` | the three ends of an application |
| `Recover`, `Classify`, `Retry` | `recover_installs_locked`, `classify_install_intent_failure`, `begin_install_intent_retry` |

When an intent is deleted the model forgets its temporaries, because no scan
and no recovery looks at them again; an edit that is under one of them then
counts as lost. A marker that one of the gaps has let into the records is
treated as a marker of the next intent too; in the code it would be told apart
by its token.

### Reconcile and Converge

A version has an identity (peer, sequence), what it has seen of each peer, its
base, a time and an entry. `Decide` is `reconcile`, `AtLeast` `lww_cmp`,
`HasSeen` `has_seen`, `Successor` the version of a scan, `Merged` and
`PermittedMerge` what `materialize_merges` makes and
`validate_materialized_plan_shape` accepts. The content of a file is the set of
edits it shows, so that a merge that keeps both sides is a set expression
(`ThreeWay`) and a lost edit is one that is nowhere.

`Converge` has two trees (`disk`), records, sequence numbers, shared heads
(`head`) and conflicts (`kept`). A round is `Refresh` at each end, `MakePlan`,
`ResponderApplies`, `ConnectorApplies` (which acknowledges), `ResponderFinishes` (which
acknowledges after it); a path that changed
after the scan leads to `ResponderInvalidates` and `ConnectorInvalidates`, and
the second time is deferred (`cycle`). `Break` loses the connection anywhere.
`used`, `waived`, `past`, `common`, `orphans` and `unseen` are history.

### OneShot

`command`, `expected` and `result` are what the user of `flocal sync` sees;
`at` is the program counter of `run_sync_attempt` (connector) and of
`serve_initial` / `serve_sync` (responder). A message is written to the `wire`
when it fits; what is still to be written is the `outbox`, and an end with an
outbox reads nothing, as in the code. `scan`, `plan`, `applied` and `slot` are
the state of an attempt; `wanted`, `giving`, `batch` the transfer of objects in
batches with receipts (`BatchEnd` says where a batch ends); `told` and `heard` the
progress reports and their validation; `serving` the flags of `serve_sync`. What each
end reads where it is, and what it checks in it, is in `ConnectorTakes` and
`ResponderTakes`: every handler goes through them, and any other message is the
protocol error that ends the process. `GiveUp`, `Break`, `ScanFails`,
`ApplyFails` and `ExitFails` are the failures, `EndOfInput` what an end does when
it finds the connection closed.

### Watch

Generations are kept as comparisons (`ahead`, `remoteAhead`), the debounce, the
audit and the heartbeat as whether their time has come (`due`, `Audit`, `Ping`).
`wire` has the frames on their way; the connector schedules (`Schedule`),
begins a round when it is due (`RoundDue`) or at the start (`startup`), and both
ends go through scan, plan and application. `cycle` is `InvalidationCycle`:
a path that invalidates a round makes it repeat, one that invalidates the
repetition is deferred and noted as `unsettled`. The tables `ConnectorExpects` and
`ResponderExpects` say which frames an end takes where it is, and `Understands`
that the one that has come is among them, a pong is the one awaited and an
invalidated path is in the plan; anything else is a protocol error that ends
the watch for good.

### Relationship

`row` is the connector's row of each share and `root` the responder's row of the
one directory they are all paired with: relationship, removal marker, completed
first synchronization, and of which relationship the data and the install
intent are. Commands send requests that may be handled after the command is
gone and in any order (`requests`). `Add`, `Send`, `CompleteAdd`, `Remove`,
`FinalizeRemoval` are `sync add` and `sync remove`; `ServeAdd`, `ServeRemove`,
`DieRemoving`, `MarkRoot`, `DetachRoot` the responder; `Open`, `Reserve`, `ApplyRoot`,
`ApplyRow`, `Close`, `RecoverRow`, `RecoverRoot` a synchronization and the
recovery of an interrupted one. `asked`, `warned` and `late` are history.

### ObjectStore

`stored` and `temps` are the files under `objects/`, `record`, `head`,
`conflicts`, `intent` and `pending` the tables that name them. A round is
`BeginRound`, `Scan`, `Refresh`, `MakePlan`, `BeginObject` / `FinishObject`,
`SetIntent`, `Apply`, `FinishInstall`, `Acknowledge`, with a collection
(`ReadReferences`, `RemoveUnreferenced`, `EndCollection`) at its start and end;
`Recover`, `ApplyStops`, `RetireInvalidated` and `Retry` the recovery. The slot excludes
rounds and prunes, `lock` is `objects.lock`; `BeginRestore` and `EndRestore` run
without the slot. `PlanAccepted` is `ensure_recovery_limits` at plan time;
`refused` and `missed` are history.

## 3. Runs

| run | what it asks | bounds | states |
|---|---|---|---|
| `sync_queue` | safety of the scheduler and the refinement of `InstallationSlot` | 2 clients, 1 managed share, 3 tokens, at most 2 rows, generations to 2, any crashes | 1.4 M |
| `sync_queue_live` | `RequestServed` | 2 clients, no managed share, 3 rows, at most 2 crashes | 0.25 M |
| `install` | safety across two paths of one intent, and `InstallSettles` | 2 contents, 1 write and 2 crashes a round, any number of rounds | 0.6 M |
| `converge` | edits kept, plans agree, nothing comes back, trees become equal | 3 edits, 2 times, 1 broken connection, from empty or synchronized trees | 0.2 M |
| `converge_inputs` | one statement of the documents, refuted | 5 edits, from synchronized trees | 1.7 M |
| `pair` | the order of slots and numbers, and local work in spite of the peer | 2 installations, 2 relationships in both directions, one watched, 1 local request, 1 reset, 1 death | 0.1 M |
| `oneshot` | what is applied, what success means, that no message is refused and both ends end | every form of the command, 3 edits, pipes of 1 message, batches of 2 objects, 3 attempts, 1 failure | 0.1 M |
| `watch` | agreement on deferred paths, no protocol error, reports | 2 paths, 2 writes each, 1 mishap | 2.1 M |
| `watch_live` | `StablePathsContinue` | a hot path and a path written once | 0.4 M |
| `relationship` | data of one relationship stays its own, only a removal that was asked for detaches | 2 shares, 2 commands, 2 relationships, 2 requests, 1 death, 2 sessions | 1.7 M |
| `relationship_live` | `RemovalCompletes` | 1 share, 1 command, 3 relationships, 2 deaths, any sessions | 50 k |
| `objects` | what is named is kept, what was accepted is finished, prune and restore | 2 shares, 3 objects, 2 conflicts, budgets 3 and 5, 2 edits, 1 crash, 2 rounds | 1.3 M |

Why the bounds are enough. In the scheduler two clients and a worker give every
pair of roles (owner and cleaner, publisher and waiter, head and second, client
and daemon), a third token lets tokens be reused while the old name is still in
somebody's scan, two rows fill the queue while a third process wants to enter,
and generation 2 is a stop after a handoff. A third row, which lets a dead row
stand between two live ones, was checked with the same properties (2.1 M
states) and is in `sync_queue_live`. In the installer two paths are enough for
one that is done and one that is not, in either order; two crashes give a
recovery that is itself interrupted; its safety was also checked with two writes
of the user's in a round (6.3 M states). In `Converge` three edits are one common
edit and one on each side, or a chain against one edit; four edits were checked
for safety (1.7 M states). Two relationships from both sides are the smallest ring
of a reservation. One message in a pipe and two objects in a batch make every
write block and every batch end fall between two objects. Two relationships are
an old one and a new one; three objects are two inputs and a merge, or an old
and two new contents.

`MaxTicket`, `MaxGen`, `MaxWrites`, `MaxCrashes`, `MaxSeq`, `MaxBreaks`,
`MaxOrder`, `DiesIn`, `Mortal`, `MaxReports`, `Records`, `MaxAttempts`,
`MaxFailures`, `MaxEdits`, `MaxMishaps`, `MaxQueued`, `MaxRels`, `MaxRequests`,
`MaxDeaths`, `MaxOpens` and `MaxRounds` are bounds of the models only; `Edits`
and `Times` also bound what users do.

Symmetry is used for clients, tokens, shares, commands and objects, in runs without liveness.
Deadlock is not checked where the bounds let everything come to an end
(`converge`, `oneshot`, `relationship`, `relationship_live`, `objects`).

Fairness. `Fairness` of the scheduler says that a process that runs goes on
running; `TakeGlobal` is strongly fair because a waiter polls `sync.lock` with
delays that double from 10 to 250 ms (without jitter), and `Prepared \/ PrepareFailed` because a
share session that makes a recovery rejoin ends. `RequestServed` is claimed for
behaviours in which polls do not collide for ever with other requests that only
look whether they are the head (`ProbeCollision`): a probe lasts for two queries,
but nothing in the code rules out that every poll meets one. `FairBoundedSpec` of the installer says that a running apply
goes on and that a pending intent is taken up by the next permit;
`InstallSettles` is claimed when crashes end. `Converge` repeats rounds, because
changes and the audit do. `PairReservation` asks of an installation that it gives
up what outlives its lease or its connection, ends its sessions and sweeps; it
asks nothing of a peer and nothing of a connection. `OneShot` asks that both
processes run, and nothing of the user. `Watch` asks that both processes run,
that watchers report and that the audit comes. `Relationship` asks that a user
who wants a removal repeats the command, that the commands and servers that run
go on, and that a permit that is wanted again and again is obtained (strong
fairness, `SyncQueue`'s `RequestServed`). Otherwise no fairness is assumed of
users, requests, stops, cancellations or crashes.

What the runs show.

- The scheduler implements `InstallationSlot`, and a permit keeps its row and
  lock through every interleaving with sweeps, reclaims and crashes.
  `OnlyOwnerRemoves` has two exceptions by design, `sync stop` and a recovery
  that blocks the share (`RecoveryBlocks`).
- The installer keeps every edit except in the gaps listed at `EditKept`, which
  are marked one by one by `exposed`: a write between an exchange and its
  verification or undoing (`InWindow`); a write that an apply stopped by an error
  has put into the records under the pending intent (`StopApply`, `AsRecorded`);
  the planned entry written over an incomplete temporary (`MeetsStaging`); a
  temporary staged a second time while its phase still said owned, interrupted
  again (`Restaged`); an edit that was displaced when a crash came, while recovery
  retires the intent at another path.
- When an intent goes, nothing the installer made is left at a path
  (`LeftoversStayOut`), with two exceptions that a scan then records as entries of
  the user's: an incomplete temporary or a marker where a write
  met one of these gaps, and the marker of an interrupted deletion, when recovery
  retires the intent at another path first. For instance, two deletions; a crash
  before the second marker is removed; the user creates the first path again;
  recovery puts that entry back and retires the intent (`sync.rs` 2094–2132), and
  the rescan takes the marker for a file. `RecordsMatchDisk` does not exclude this:
  it is about the scan of the round that follows.
- Two ends decide the same from exchanged snapshots, never bring back what an end has
  moved on from, and end equal; edits are in a tree or in a recovery record, with
  one gap (`InputsKept`, section 5).
- A reservation takes slots and numbers in one order, so it cannot close a ring,
  and the lease lets an installation go on by itself.
- A one-shot synchronization applies at both ends what the user was shown last,
  reports success only when both ends applied and acknowledged, and ends at both
  ends however little the pipes hold.
- A watch defers the same paths at both ends, reports what it leaves out, never
  stops for a frame that crosses a round, and is not starved by a hot file.
- A removal completes in spite of lost requests and answers; a delayed one
  detaches nothing newer. A registration that is handled only after the removal
  of its relationship binds the responder again (`late`): the code does not
  remember removed relationships.
- The collector never removes what a row names; restores find their objects; a
  prune removes what its preview showed.

## 4. Proofs

Each module below proves an inductive invariant and takes its theorems from it.
TLC checked every invariant on the instance of the module's run before it was proved.

| module | theorems | of every |
|---|---|---|
| `SyncQueueProofs` | `TypeCorrect`, `PermitIsKept`, `OwnerFilesOutliveRows`, `KeysStayUnique`, `NobodyOvertakes`, `OwnersRemove`, `StoppedStays`, `SchedulerIsSlot` | number of clients, shares, tokens and rows, limits, crashes |
| `PairReservationProofs` | `TypeCorrect`, `SlotsInOneOrder`, `NumbersAreServedInOrder`, `NumbersTravelAlone` | set of installations, pairs and local requests, deaths |
| `InstallProofs` | `TypeCorrect`, `RecordsAreTrue`, `LeftoversAreOut`, `EditsAreKept` | set of paths, contents, writes and crashes |
| `ConvergeProofs` | `TypeCorrect`, `BasesAreShared`, `PlansAreAccepted`, `NothingComesBack`, `EditsSurvive` | edits, clocks, lost connections |
| `OneShotProofs` | `TypeCorrect`, `SessionHolds`, `NothingUnseenApplied`, `ConnectorAcknowledgesFirst`, `SuccessIsOfBoth`, `PoliteHolds`, `NothingIsRefused` | edits, pipes, batches, reports, commands, failures |
| `RelationshipProofs` | `TypeCorrect`, `DataStaysItsOwn`, `StrandingIsTold`, `LateRemovalsAreHarmless` | number of shares, commands, requests, relationships, deaths |
| `ObjectStoreProofs` | `TypeCorrect`, `ObjectsAreKept`, `AcceptedIsFinished`, `RestoreSucceeds`, `PruneIsAsShown` | set of shares and objects, limits |
| `WatchProofs` | `TypeCorrect`, `DeferredAreUnsettled`, `PlansAgree`, `NoErrors`, `QuietIsTold` | paths and owners, hot paths, writes, mishaps, pipes |

`SyncQueueProofs`, from `NamesAssumption` (the null names are not tokens,
shares or processes, and clients are not shares) and `BoundsAssumption` (limits
are numbers). `TypeCorrect` includes the release of the publication lock on
every way out of a publication. `PermitKeepsItsRow` says nothing of why a cleanup or a worker leaves the row of
a permit alone. `IInv` adds it: an owner has the flock of its request from the
creation of the file until its row is gone (`OwnersLocked`, `InsertingFresh`,
`EndedGone`), a cleanup holds only files that nobody has locked (`HeldUnowned`)
and deletes the row first (`UnlinkedGone`), a request belongs to one process
(`RequestsApart`), a worker's row is of its own share and a client's request of
none (`SharesApart`), and a waiting request is inactive (`WaitingInactive`).
`GlobalUse`, `PublisherUse` and `PermitRow` tie the two locks to the steps. The
lemmas `Deletion`, `Cancellation`, `Insertion`, `Rejoining` and `Flagging` say
what the SQL statements do to rows and active rows; each action has one lemma.
`LineInv` is about order: tickets are apart, one row is active, and what was
queued ahead of a row has a lower ticket or is gone, however rows rejoin. `GenInv` is about the
generations of managed rows: that a worker publishes no second row of a
generation rests on the publication lock, under which it has looked for one
(`NoRival`). `OnlyOwnerRemoves`, `NoOvertaking` and `StoppedNeverActivates` follow step
by step from `QueueInv`. `SchedulerIsSlot` is the refinement: every step joins, removes,
reorders or flags rows in one of the ways of `Joins` and `Stays`, and each of
those is a step of `InstallationSlot` or leaves its line and owner alone (`SlotStep`).

`PairReservationProofs`, from `PairsAreOrdered` (the ends of a pair are
different installations, the lower identity first) and `NoneIsNoRequest`. A step
moves the line of one installation: rows leave, one enters at the end, one
changes in its place, or rows are orphaned. Each move keeps the line a linear
order in which the eligible rows of an authority stand in the order of their
numbers (`LineOK`); a row that becomes eligible has no predecessor then, so the
others of its authority stand behind it (`ReadyInPlace`). `SessionOK` ties the
rows to the phases of a session, `IssuedLowest` the number that is on its way to
those not acknowledged. `LowerFirst` needs of the connection only `Handshake`:
while nobody has given up, the higher end has its slot, or is told that it may
take it, only if the lower has its own.

`InstallProofs`, from `InstallNames` (absence, marker and incomplete content are
not contents of files). `RecordsMatchDisk` says
nothing while an apply runs. `ApplyInv` adds what holds then: every path that is
done has its planned entry or a later write of the user's (`Done`); what the
installer has put somewhere and does not want there is at the path it is working
on (`AtWork`, `StagedEntry`, `InstalledEntry`, `DeletedEntry`); and a tombstone
that will be skipped has nothing to delete (`SkippedTombstones`). `Mine` says
that a write is the user's and not a marker. For `EditKept`, `EditInv` says where
a write of the user's can be and what else holds there: at its path (`InPlace`),
with nothing but the installer's own under the temporary name, or under that
name (`SetAside`), with the staged entry at the path and the intent and the
phase that make recovery exchange the two again. The gaps of section 3 are
excluded by `exposed`, as in the property, and by nothing else. For
`LeftoversStayOut`, `Leftovers` says of a path where nothing else explains it
(`Foreign`) that a marker is there only for a deletion that is still to be finished, at
the path at work or at one that recovery has yet to come to (`MarkerPending`), and
that what is under the temporary name is exchanged into the tree only by an
installation (`MarkerOK`, `PartialOK`).

`ConvergeProofs`, from `PeersAreNumbers` and `TwoEnds` (there are two ends; the null
version, merge and conflict are not versions, merges and conflicts). That the responder decides as the connector did does not
follow from the definition of `Decide`: it asks first whether one version has
seen the other, in an order that depends on who asks, and takes two versions
with equal time, peer and sequence for either. `ConvergeInv` excludes both: a
version in use has only numbers its peers have given out (`Numbered`), so a new
one has a number nobody can have seen (`SuccessorFresh`, `MergedFresh`), an
identity is that of one version, and of two versions not both have seen the
other (`Causal`). With that, `DecideSymmetric` makes the decision independent of
who asks. `BasesHeld` says that a base, and a record both ends have, is one both
ends have held, which is why a lost acknowledgement is harmless; `MergePlanned`
that a merge meets what the responder requires. `NoResurrection` needs `PastInv`:
what replaced a version that the other end still holds has seen it (`MovedOn`), and
`PlanForm`: a plan that is still to be applied takes nobody back. `EditKept` is
about trees and records together: the tree of an end shows the edits of its record
(`DiskFollows`), and a version has the edits of its base and of what it has seen
(`BaseCovered`, `SeenCovered`), or they are in a recovery record, or a user gave
them up. The exception is a merge that its maker has not installed (`Orphans`,
section 5): `MadeBy` and `Later` say that there is no other version
that its maker does not know of, and `PlanCovers` what a plan takes from an end.

`OneShotProofs`, from `OneShotConstants` (the types of the constants; batches
and pipes hold at least one) and `NoneIsNothing` (the null value is no command,
scan, plan, number or content). What has been written to an end, or can still be, is one queue
(`Queue`): a write leaves it as it is, an answer takes its head and adds to the
other queue, a failure cuts both. `Session` says what the queues may hold for each
place the connector is at, and what an end may conclude from it: the responder
hears nothing it could apply while the connector still plans (`Confined`); the
plan is made of the two scans of this connection (`PlanMade`, `Snapshots`) and
proposed only if the user agrees (`Agreed`); one `Plan` message makes it the
responder's (`Served`, `OnePlan`); heads travel before the message that
acknowledges them and after the connector's own acknowledgement (`HeadsCome`); a
`Done` ends a list of objects or the responder, and which of the two is known
from the place of the connector (`DoneCounts`). Steps that tell neither end any
of this are covered by one lemma (`CalmStep`); the others have one each.

`NothingIsRefused` needs more: not only which messages a queue may hold but its
whole shape. `Polite` gives it for each place an end reads at: reports that rise from
the last one heard and then their end (`Stream`), the objects the reader waits for,
cut where a receipt is due (`Transfer`), heads between reports and an
acknowledgement (`ConnectorFits`, `ResponderFits`). A shape survives the loss of
whatever was still to come, so it holds of a broken connection too. While the
connection is open `Paired` adds which places go together, and that only one end has
something to say in each, so that an answer joins an empty queue, or the reports of
an end that is at work. `Flags`, `Gathered` and `HeadsKept` tie this to `serving`, to
the batch the responder is filling and to the heads it has. Both ends compute the end
of a batch from the same list (`BatchEnd`), and `BatchFits` and `Gathered` make a
receipt the one that is due. The theorem then compares the head of each shape with
`ConnectorTakes` and `ResponderTakes`.

`RelationshipProofs`, from `RelationshipConstants`. A relationship belongs to one
share for ever (`OneShareEach`), so the responder's answer that it has nothing to
remove means that it does not have the relationship at all (`AbsentGone`); one
that nobody has asked to remove still has its row at the connector
(`UnaskedBound`); a synchronization that applies has both bindings as they were
when it was reserved (`SessionBound`).

`ObjectStoreProofs`, from `StoreAssumption`. `StoreInv` says that only the process in
the slot is between two steps (`Exclusive`), that who writes or removes a file
has the lock (`Guarded`), that the references a collector read are those of now
(`Fresh`), that what a round is about to name is stored or still to be fetched
(`Covered`), that an intent fits the limits with the conflicts of now
(`Intents`: nothing else adds conflicts while there is one, and budgets only
grow), and that a restore holds the lock the collector needs (`Restoring`).

`WatchProofs`, from `WatchConstants` (every path has an owner; a pipe holds at
least one frame). `Talk` says, of the types of frames only, where both ends are
and what may be between them: the places that go together (`Legal`), the frames
of each place (`ToConnector`, `ToResponder`), those that are only behind others
(`Needs`) or cannot be missing while the connection is there (`Present`), and
the order of a wire (`MayFollow`). Every step is summed up by the type it takes
and those it writes (`Turn`, `Speaks`), and a frame on a wire tells where the
ends are (`Placed`); a lost connection cuts both wires (`Cut`). `Cycling` adds the
deferred paths: the ends have the same cycle from the request of a round to the
last word on it (`SameCycles`), none is left between rounds (`FreshCycles`), and
the end that found an invalid path is one step ahead while the other has still
to hear of it (`ResponderAhead`, `ConnectorAhead`). `Beats` says that of a ping that
is unanswered one frame is on its way, with its number. `NoErrors` follows from
`Talk`, `Cycling` and `Beats`. `Sharing` is about the files: the scan an end plans
with is the other's of this round (`Theirs`), what has changed since a scan has
been noticed (`Scanned`), the responder has installed what the connector scanned
when the connector applies (`Installed`), and a generation that is ahead has left a
wake-up or a deadline (`Wakes`). `Covered` is what `QuietTold` says only of quiet
states: between rounds a path is shared, or something will start a round for it, or
both ends report it; while `Finished` is on its way the responder's paths are
compared with its scan instead.

Model-checked only are the liveness properties, which under fairness are out of
the prover's reach: `RequestServed`, `LocalServed`, `InstallSettles`, `Settles`,
`SessionEnds`, `StablePathsContinue` and `RemovalCompletes`.

No definition is RECURSIVE.

## 5. Known not to hold

`converge_inputs` refutes `InputsKept`: the connector materializes a merge under
its number n; the responder installs it, the connector does not, because its file
changed. Later versions of the connector cover number n, so the second of them
counts as a successor of the merge (`has_seen`, `model.rs` 260–266) and replaces
it, with the responder user's edit in it, and no conflict is kept.

The following statements of documents are properties of the modules that TLC
refutes with the configurations of the runs, `Install!DisplacedTracked` with
`MaxWrites = 2`; no run repeats them.

| property | what happens |
|---|---|
| `SyncQueue!HandoffKeepsTicket` | the client calls `release_for_reclaim` whether or not the daemon started the share (`main.rs` 4930), so a failed request loses the FIFO ticket that docs/2026-08-20-multi-share-scheduling-final-report.org:198 keeps |
| `Install!DeletionKept` | a deletion made between scan and installation: the error path stores a rescan under the pending intent (`sync.rs` 2140), and recovery installs the older plan over it (README.org:400) |
| `Install!StagingStaysOut` | `recover_displaced` (`sync.rs` 2442) exchanges an incomplete temporary into the tree when the user wrote the planned entry over it (docs/2026-07-14-alpha-implementation.org:83) |
| `Install!DisplacedTracked` | an intent retired at one path forgets the edit displaced at another (`sync.rs` 2126; docs/2026-07-14-v0.0.1-design.org:471) |
| `PairReservation!UnpairedNeverBlocks` | the daemon's row enters the line with no paired state (`state.rs` 3852) and stays there through connection retries, so later local requests wait while the peer is unreachable (docs/2026-08-20-multi-share-scheduling-design.org:155) |
| `OneShot!ConfirmedPlanApplies` | the preview leaves new versions without authenticators, so the fingerprint of the same plan differs after the confirmation and the user is asked again (`main.rs` 4706; docs/2026-08-20-multi-share-scheduling-final-report.org:163) |
| `Watch!QuietDone` | changes advertised during the repeated rounds of the start are drained and count as scheduled (`main.rs` 7682); what they left different is reported as unsettled until the audit (docs/2026-07-24-persistent-watch-protocol-design.org:195) |

Also met: a request that is not the head takes `sync.lock` for a moment
(`state.rs` 767; docs/2026-08-20-multi-share-scheduling-design.org:156 says only the
selected ticket may attempt it); after a rollback the temporary is removed without
a look at what it is (`sync.rs` 2494); `cleanup_scheduler_orphans` fails an enqueue
when a listed owner file has vanished (`state.rs` 4025); tickets are used again
because the column has no AUTOINCREMENT (`state.rs` 1719); a retired install adds
conflicts that were not counted at plan time, so it may be refused by the limits
and stay (`state.rs` 2719); `apply_worker_event` is not under the lifecycle lock, so
a start between the removal of the worker's entry and `set_blocked` leaves the
old error (`main.rs` 3162).

## 6. Plan

The daemon's process table: start, stop and retry of workers, blocked states,
the control socket.

## 7. Not modelled

The upgrade installer, the fsync wrappers and the command line are not
modelled: the first is a sequence of calls to the service manager and the file
system by one actor, the others have no state of their own. Within the modelled
parts these are left out, and why: directories that are not empty, symbolic
links and permissions (an entry is a content); power loss (a completed write is
durable, which is what `durability.rs` is for); the line algorithm of the merge
(a deterministic function of three texts, tested against its own reference);
sizes in bytes and pages of listings; ignore rules and limits of a scan;
authenticators except where a preview lacks them; the migration of earlier
databases and relationships; process control in the daemon.
