------------------------------- MODULE OneShot -------------------------------
(***************************************************************************)
(* One synchronization of a share by `flocal sync`: run_sync and           *)
(* run_sync_attempt of the connecting peer, serve_initial and serve_sync   *)
(* of the other, in src/src/main.rs.                                       *)
(*                                                                         *)
(* The ends exchange messages over two pipes.  A message that does not fit *)
(* in the pipe blocks its writer, and a blocked writer reads nothing: what *)
(* an end still has to write is its outbox, and it handles the next        *)
(* message only when the outbox is empty.  A connection may break at any   *)
(* point, and either process may give up (a deadline, an error, a kill).   *)
(*                                                                         *)
(* What is in a directory is the set of edits its files show; a scan also  *)
(* tells which of them the state database has not stored, whose versions a *)
(* preview leaves without authenticators.  Reconciling is the union (see   *)
(* module Converge for versions), the reservation one message each way     *)
(* (module PairReservation), an apply one step (module Install).           *)
(***************************************************************************)
EXTENDS Naturals, Sequences, FiniteSets, SequencesExt

CONSTANTS
  Edits,          \* what users write,
  EditsOf,        \* function from an end to the edits its user makes
  Existing,       \* the edits that are there before the first command
  Commands,       \* the forms in which the command is given
  Requests,       \* lists of the sizes of objects an end may ask for
  BatchObjects,   \* TRANSFER_BATCH_OBJECTS
  BatchBytes,     \* TRANSFER_BATCH_BYTES
  Records,        \* how many records a plan has
  MaxReports,     \* bound on the reports of a scan
  Capacity,       \* how many messages a pipe holds
  MaxAttempts, MaxFailures,
  None

C == "connector"
R == "responder"
Ends == {C, R}
Other(e) == IF e = C THEN R ELSE C

ASSUME OneShotConstants ==
  /\ EditsOf \in [Ends -> SUBSET Edits] /\ Existing \subseteq Edits
  /\ Commands \subseteq {"dry run", "yes", "ask"}
  /\ BatchObjects \in Nat \ {0} /\ BatchBytes \in Nat /\ Capacity \in Nat \ {0}
  /\ Requests \subseteq Seq(Nat)
  /\ MaxReports \in Nat /\ Records \in Nat /\ MaxAttempts \in Nat /\ MaxFailures \in Nat

(* What a scan finds, and what two of them make.                           *)
Scans == [content : SUBSET Edits, unstored : SUBSET Edits]
Plans == [local : Scans, remote : Scans]

(* None is none of the values that may take its place.                     *)
ASSUME NoneIsNothing ==
  /\ None \notin {"dry run", "yes", "ask", "ok"} \cup Scans \cup Plans
  /\ None \notin Nat /\ \A h \in SUBSET Edits : h # None

VARIABLES
  files, stored,      \* of each end: the edits on disk, and in its records
  acked,              \* the contents each end has acknowledged as shared
  initial,            \* the connector has completed a plan
  command, expected,  \* what the user asked for, the plan shown to the user
  result,             \* of the last command
  at,                 \* where each end is
  scan, plan,         \* what each end scanned, the plan it works on
  applied, slot,      \* the plan each end has applied; its permit
  wire, outbox, open, \* messages to each end, unwritten ones, the connection
  wanted,             \* the sizes of the objects each end still waits for
  giving,             \* the objects the connector sends, and how many are received
  batch,              \* what the responder asked for, where its batch began, and
                      \*   what it has got
  serving,            \* the flags of serve_sync
  told, heard,        \* the last report each end made, and accepted
  attempts, failures

disk    == <<files, stored, acked, initial>>
user    == <<command, expected, result, attempts>>
work    == <<scan, plan, applied, slot>>
pipes   == <<wire, outbox, open>>
objects == <<wanted, giving, batch>>
reports == <<told, heard>>
vars    == <<disk, user, at, work, pipes, objects, serving, reports, failures>>

NothingServed == [dry |-> FALSE, need |-> FALSE, snapshot |-> None, ready |-> FALSE,
                  applied |-> FALSE, heads |-> None]
NothingGiven == [sizes |-> <<>>, sent |-> 0]
NothingGot   == [sizes |-> <<>>, from |-> 0, got |-> 0, bytes |-> 0]
Nothing(x) == [e \in Ends |-> x]

(* A connection starts with nothing done on it.                            *)
Fresh(scan1, plan1, applied1, slot1, wanted1, giving1, batch1, serving1, told1, heard1) ==
  /\ scan1 = Nothing(None) /\ plan1 = Nothing(None)
  /\ applied1 = Nothing(None) /\ slot1 = Nothing("free")
  /\ wanted1 = Nothing(<<>>) /\ giving1 = NothingGiven
  /\ batch1 = NothingGot
  /\ serving1 = NothingServed /\ told1 = Nothing(0) /\ heard1 = [Nothing(0) EXCEPT ![C] = None]

Init ==
  /\ files = [e \in Ends |-> Existing \cap EditsOf[e]] /\ stored = Nothing({})
  /\ acked = Nothing({}) /\ initial = FALSE
  /\ command = None /\ expected = None /\ result = None /\ attempts = 0
  /\ at = Nothing("idle")
  /\ Fresh(scan, plan, applied, slot, wanted, giving, batch, serving, told, heard)
  /\ wire = Nothing(<<>>) /\ outbox = Nothing(<<>>) /\ open = FALSE
  /\ failures = 0

Go(e, p) == at' = [at EXCEPT ![e] = p]

----------------------------------------------------------------------------
(* Messages.                                                               *)

Message(type)        == [type |-> type, arg |-> None]
MessageOf(type, arg) == [type |-> type, arg |-> arg]

Waiting(e) == outbox[e] = <<>> /\ wire[e] # <<>>
Arg(e)     == Head(wire[e]).arg

(* To handle a message; to write without one.                              *)
Reply(e, msgs) ==
  /\ wire' = [wire EXCEPT ![e] = Tail(@)]
  /\ outbox' = [outbox EXCEPT ![e] = msgs] /\ UNCHANGED open
Consume(e) == Reply(e, <<>>)
Say(e, msgs) ==
  /\ outbox[e] = <<>> /\ outbox' = [outbox EXCEPT ![e] = msgs]
  /\ UNCHANGED <<wire, open>>

Write(e) ==
  /\ outbox[e] # <<>> /\ open /\ Len(wire[Other(e)]) < Capacity
  /\ wire' = [wire EXCEPT ![Other(e)] = Append(@, Head(outbox[e]))]
  /\ outbox' = [outbox EXCEPT ![e] = Tail(@)]
  /\ UNCHANGED <<disk, user, at, work, open, objects, serving, reports, failures>>

(* An end leaves.  The other end may still read some of what was written.  *)
Leave(e, p, kept) ==
  /\ Go(e, p) /\ open' = FALSE
  /\ wire' = [wire EXCEPT ![e] = <<>>, ![Other(e)] = kept]
  /\ outbox' = [outbox EXCEPT ![e] = <<>>]

----------------------------------------------------------------------------
(* What each end takes.                                                    *)

(* How many bytes a list of objects has.                                   *)
Bytes(sizes) == Cardinality(UNION {{k} \X (1 .. sizes[k]) : k \in DOMAIN sizes})

(* A receipt is due after each batch.  The one after the first n objects   *)
(* ends before the first that does not fit in it: transfer_batch_ends.     *)
BatchEnd(sizes, n) ==
  Min({m \in n + 1 .. Len(sizes) :
         \/ m = Len(sizes) \/ m - n = BatchObjects
         \/ Bytes(SubSeq(sizes, n + 1, m + 1)) > BatchBytes})

AtBatchEnd ==
  batch.from < Len(batch.sizes) /\ batch.got = BatchEnd(batch.sizes, batch.from)

(* validate_transfer_receipt: everything sent so far, and no more.         *)
ReceiptOf(sizes, n) == [objects |-> n, bytes |-> Bytes(SubSeq(sizes, 1, n))]

(* A report of the scan starts at zero and then advances; one of an apply  *)
(* counts records (ApplyProgressValidator).                                *)
Advances(n)  == IF heard[C] = None THEN n = 0 ELSE n > heard[C]
Counts(e, n) == n > heard[e] /\ n <= Records

(* Any other message, in any other place, is a protocol error and ends the *)
(* process.                                                                *)
ConnectorTakes(m) ==
  \/ at[C] = "opening" /\ m.type \in {"Reserved", "Error"}
  \/ at[C] = "scanning" /\ m.type = "ScanProgress" /\ Advances(m.arg)
  \/ at[C] = "scanning" /\ m.type \in {"Snapshot", "Error"} /\ heard[C] # None
  \/ at[C] = "objects" /\ m.type = "Object" /\ wanted[C] # <<>> /\ m.arg = Head(wanted[C])
  \/ at[C] = "objects" /\ m.type = "Done" /\ wanted[C] = <<>>
  \/ at[C] = "proposed" /\ m.type = "Need"
  \/ at[C] = "sending" /\ m.type = "Receipt"
       /\ m.arg = ReceiptOf(giving.sizes, BatchEnd(giving.sizes, giving.sent))
  \/ at[C] = "applying" /\ m.type = "ApplyProgress" /\ Counts(C, m.arg)
  \/ at[C] \in {"applying", "heads"} /\ m.type \in {"Heads", "Applied"}
  \/ at[C] \in {"proposed", "sending", "applying"} /\ m.type = "Error"
  \/ at[C] \in {"finish", "cancelled"} /\ m.type = "Done"

(* The loop of serve_sync.                                                 *)
ServeTakes(m) ==
  \/ m.type = "Need" /\ ~serving.need /\ serving.snapshot = None /\ ~serving.ready
  \/ m.type = "Snapshot" /\ serving.snapshot = None /\ ~serving.ready
  \/ m.type = "Plan" /\ serving.snapshot # None /\ ~serving.ready
  \/ m.type = "Object" /\ serving.ready /\ ~AtBatchEnd
       /\ wanted[R] # <<>> /\ m.arg = Head(wanted[R])
  \/ m.type = "BatchEnd" /\ serving.ready /\ AtBatchEnd
  \/ m.type = "Done" /\ serving.ready /\ wanted[R] = <<>> /\ batch.from = Len(batch.sizes)
  \/ m.type = "ApplyProgress" /\ serving.applied /\ serving.heads = None /\ Counts(R, m.arg)
  \/ m.type = "Heads" /\ serving.applied
  \/ m.type = "CommitAck" /\ serving.applied /\ serving.heads \subseteq stored[R]
  \/ m.type = "Cancel" /\ ~serving.ready

ResponderTakes(m) ==
  \/ at[R] = "idle" /\ m.type = "Sync"
  \/ at[R] = "waiting" /\ m.type = "ScanRequest"
  \/ at[R] = "serve" /\ ServeTakes(m)

Takes(e) == IF e = C THEN ConnectorTakes(Head(wire[C])) ELSE ResponderTakes(Head(wire[R]))

Gets(e, type) == Waiting(e) /\ Head(wire[e]).type = type /\ Takes(e)

----------------------------------------------------------------------------
(* Scans and plans.                                                        *)

Scanned(content, unstored) == [content |-> content, unstored |-> unstored]

(* preview_refresh leaves the records alone; refresh stores what it finds. *)
Preview(e) == Scanned(files[e], files[e] \ stored[e])
Refresh(e) == Scanned(files[e], {})

Scan(e, dry) ==
  /\ scan' = [scan EXCEPT ![e] = IF dry THEN Preview(e) ELSE Refresh(e)]
  /\ stored' = (IF dry THEN stored ELSE [stored EXCEPT ![e] = files[e]])

(* What sync_plan_fingerprint is taken of, and what the plan leads to.     *)
PlanOf(local, remote) == [local |-> local, remote |-> remote]
Outcome(p)            == p.local.content \cup p.remote.content

Applies(e) ==
  /\ files' = [files EXCEPT ![e] = @ \cup Outcome(plan[e])]
  /\ stored' = [stored EXCEPT ![e] = Outcome(plan[e])]
  /\ applied' = [applied EXCEPT ![e] = plan[e]]

----------------------------------------------------------------------------
(* The user.                                                               *)

(* The command asks for confirmation until an initial plan is complete.    *)
(* One given while the other end is still busy with the last one waits.    *)
Give(c) ==
  /\ command = None /\ attempts < MaxAttempts /\ at[R] \in {"idle", "ended", "failed"}
  /\ c \in Commands /\ (c = "ask" => ~initial)
  /\ command' = c /\ expected' = None /\ result' = None /\ applied' = Nothing(None)
  /\ UNCHANGED <<disk, attempts, at, scan, plan, slot, pipes, objects, serving, reports,
                 failures>>

Confirm ==
  /\ at[C] = "prompt" /\ Go(C, "idle")
  /\ UNCHANGED <<disk, user, work, pipes, objects, serving, reports, failures>>

Decline ==
  /\ at[C] = "prompt" /\ Go(C, "idle") /\ command' = None /\ result' = "declined"
  /\ UNCHANGED <<disk, expected, attempts, work, pipes, objects, serving, reports, failures>>

(* At any time, on either side.                                            *)
Edit(e, x) ==
  /\ x \in EditsOf[e] /\ \A o \in Ends : x \notin files[o]
  /\ files' = [files EXCEPT ![e] = @ \cup {x}]
  /\ UNCHANGED <<stored, acked, initial, user, at, work, pipes, objects, serving, reports,
                 failures>>

----------------------------------------------------------------------------
(* The connector, until it knows the plan.                                 *)

(* A dry run, or the preview before the user is asked.                     *)
DryRun == command = "dry run" \/ (command = "ask" /\ expected = None)

(* The process of the responder is another one in every connection; the    *)
(* session lock makes it wait for the one before.                          *)
Start ==
  /\ command # None /\ at[C] = "idle" /\ at[R] \in {"idle", "ended", "failed"}
  /\ attempts < MaxAttempts /\ attempts' = attempts + 1
  /\ at' = [Nothing("idle") EXCEPT ![C] = "opening"]
  /\ Fresh(scan', plan', applied', slot', wanted', giving', batch', serving', told', heard')
  /\ wire' = Nothing(<<>>) /\ open' = TRUE
  /\ outbox' = [Nothing(<<>>) EXCEPT ![C] = <<MessageOf("Sync", DryRun)>>]
  /\ UNCHANGED <<disk, command, expected, result, failures>>

ConnectorRest == UNCHANGED <<serving, told, failures>>

ConnectorScans ==
  /\ at[C] = "opening" /\ Gets(C, "Reserved") /\ Reply(C, <<Message("ScanRequest")>>)
  /\ slot' = [slot EXCEPT ![C] = "held"] /\ Scan(C, DryRun) /\ Go(C, "scanning")
  /\ UNCHANGED <<files, acked, initial, user, plan, applied, objects, heard>>
  /\ ConnectorRest

HearScan ==
  /\ at[C] = "scanning" /\ Gets(C, "ScanProgress") /\ Consume(C)
  /\ heard' = [heard EXCEPT ![C] = Arg(C)]
  /\ UNCHANGED <<disk, user, at, work, objects>> /\ ConnectorRest

(* The plan is made of both scans; the objects it misses are asked for.    *)
ConnectorPlans ==
  /\ at[C] = "scanning" /\ Gets(C, "Snapshot")
  /\ plan' = [plan EXCEPT ![C] = PlanOf(scan[C], Arg(C))]
  /\ \E sizes \in Requests :
       /\ Reply(C, <<MessageOf("Need", sizes)>>)
       /\ wanted' = [wanted EXCEPT ![C] = sizes]
  /\ Go(C, "objects")
  /\ UNCHANGED <<disk, user, scan, applied, slot, giving, batch, heard>> /\ ConnectorRest

ConnectorObject ==
  /\ at[C] = "objects" /\ Gets(C, "Object") /\ Consume(C)
  /\ wanted' = [wanted EXCEPT ![C] = Tail(@)]
  /\ UNCHANGED <<disk, user, at, work, giving, batch, heard>> /\ ConnectorRest

PlanReady == at[C] = "objects" /\ Gets(C, "Done")

(* A dry run, or a plan other than the one the user has confirmed.         *)
(* Mutant: only a dry run.                                                 *)
MustShowDryRun == DryRun

MustShow == DryRun \/ (expected # None /\ expected # plan[C])

ConnectorCancels ==
  /\ PlanReady /\ MustShow /\ Reply(C, <<Message("Cancel")>>) /\ Go(C, "cancelled")
  /\ UNCHANGED <<disk, user, work, objects, heard>> /\ ConnectorRest

ConnectorProposes ==
  /\ PlanReady /\ ~MustShow /\ Go(C, "proposed")
  /\ Reply(C, <<MessageOf("Snapshot", scan[C]), Message("Plan")>>)
  /\ UNCHANGED <<disk, user, work, objects, heard>> /\ ConnectorRest

----------------------------------------------------------------------------
(* The connector sends objects in batches, each answered by a receipt.     *)

(* What it writes of a list of objects, after the first n of them.         *)
Batch(sizes, n) ==
  IF n = Len(sizes) THEN <<Message("Done")>>
  ELSE [k \in 1 .. BatchEnd(sizes, n) - n |-> MessageOf("Object", sizes[n + k])]
         \o <<Message("BatchEnd")>>

SendsOrHears(sizes, n) == Go(C, IF n = Len(sizes) THEN "applying" ELSE "sending")

ConnectorSends ==
  /\ at[C] = "proposed" /\ Gets(C, "Need") /\ Reply(C, Batch(Arg(C), 0))
  /\ giving' = [sizes |-> Arg(C), sent |-> 0] /\ SendsOrHears(Arg(C), 0)
  /\ heard' = [heard EXCEPT ![C] = 0]
  /\ UNCHANGED <<disk, user, work, wanted, batch>> /\ ConnectorRest

ConnectorReceipt ==
  LET n == BatchEnd(giving.sizes, giving.sent)
  IN  /\ at[C] = "sending" /\ Gets(C, "Receipt")
      /\ Reply(C, Batch(giving.sizes, n))
      /\ giving' = [giving EXCEPT !.sent = n] /\ SendsOrHears(giving.sizes, n)
      /\ UNCHANGED <<disk, user, work, wanted, batch, heard>> /\ ConnectorRest

ConnectorHears ==
  /\ at[C] = "applying" /\ Gets(C, "ApplyProgress") /\ Consume(C)
  /\ heard' = [heard EXCEPT ![C] = Arg(C)]
  /\ UNCHANGED <<disk, user, at, work, objects>> /\ ConnectorRest

ConnectorHeads ==
  /\ at[C] \in {"applying", "heads"} /\ Gets(C, "Heads") /\ Consume(C) /\ Go(C, "heads")
  /\ UNCHANGED <<disk, user, work, objects, heard>> /\ ConnectorRest

(* The responder has applied the plan; the connector starts.               *)
ConnectorTurn ==
  /\ at[C] \in {"applying", "heads"} /\ Gets(C, "Applied") /\ Consume(C) /\ Go(C, "apply")
  /\ UNCHANGED <<disk, user, work, objects, heard>> /\ ConnectorRest

(* report_local_apply, apply_complete_plan_with_progress: a report of some *)
(* records before the last one is done.                                    *)
Reports(e) ==
  /\ \E n \in 1 .. Records :
       n > told[e] /\ Say(e, <<MessageOf("ApplyProgress", n)>>) /\ told' = [told EXCEPT ![e] = n]
  /\ UNCHANGED <<disk, user, at, work, objects, serving, heard, failures>>

ConnectorReports == at[C] = "apply" /\ Reports(C)

ConnectorApplies ==
  /\ at[C] = "apply" /\ outbox[C] = <<>> /\ Applies(C) /\ initial' = TRUE /\ Go(C, "commit")
  /\ UNCHANGED <<acked, user, scan, plan, slot, pipes, objects, heard>> /\ ConnectorRest

(* acknowledge_shared_heads, of the heads both ends have; then the other   *)
(* end is told.                                                            *)
Acknowledge(e, content) == acked' = [acked EXCEPT ![e] = @ \cup {content}]

(* Mutant: the other end is told, and nothing acknowledged.                *)
CommitsUnacknowledged ==
  /\ at[C] = "commit" /\ Go(C, "finish")
  /\ Say(C, <<MessageOf("Heads", Outcome(plan[C])), Message("CommitAck")>>)
  /\ UNCHANGED <<disk, user, work, objects, heard>> /\ ConnectorRest

ConnectorCommits ==
  /\ at[C] = "commit" /\ Acknowledge(C, Outcome(plan[C])) /\ Go(C, "finish")
  /\ Say(C, <<MessageOf("Heads", Outcome(plan[C])), Message("CommitAck")>>)
  /\ UNCHANGED <<files, stored, initial, user, work, objects, heard>> /\ ConnectorRest

(* Remote::finish: the confirmation of the other end, and its exit status. *)
Confirmed == Gets(C, "Done") /\ at[R] = "ended"

ConnectorFinishes ==
  /\ at[C] = "finish" /\ Confirmed /\ Leave(C, "idle", <<>>)
  /\ slot' = [slot EXCEPT ![C] = "finished"]
  /\ command' = None /\ result' = "ok"
  /\ UNCHANGED <<disk, expected, attempts, scan, plan, applied, objects, heard>> /\ ConnectorRest

ConnectorShows ==
  /\ at[C] = "cancelled" /\ Confirmed
  /\ Go(C, IF command = "dry run" THEN "idle" ELSE "prompt")
  /\ Consume(C) /\ slot' = [slot EXCEPT ![C] = "finished"]
  /\ expected' = plan[C]
  /\ IF command = "dry run" THEN command' = None /\ result' = "preview"
                            ELSE UNCHANGED <<command, result>>
  /\ UNCHANGED <<disk, attempts, scan, plan, applied, objects, heard>> /\ ConnectorRest

----------------------------------------------------------------------------
(* The responder: serve_initial.                                           *)

ResponderRest == UNCHANGED <<user, acked, initial, giving, heard, failures>>

Accept ==
  /\ at[R] = "idle" /\ Gets(R, "Sync") /\ Reply(R, <<Message("Reserved")>>)
  /\ serving' = [serving EXCEPT !.dry = Arg(R)]
  /\ slot' = [slot EXCEPT ![R] = "held"] /\ Go(R, "waiting")
  /\ UNCHANGED <<files, stored, scan, plan, applied, wanted, batch, told>> /\ ResponderRest

(* The binding, the lock or the reservation is denied: an error, and end. *)
Deny ==
  /\ at[R] = "idle" /\ Gets(R, "Sync") /\ Reply(R, <<Message("Error")>>) /\ Go(R, "leaving")
  /\ UNCHANGED <<files, stored, work, wanted, batch, serving, told>> /\ ResponderRest

BeginScan ==
  /\ at[R] = "waiting" /\ Gets(R, "ScanRequest") /\ Reply(R, <<MessageOf("ScanProgress", 0)>>)
  /\ Go(R, "scan")
  /\ UNCHANGED <<files, stored, work, wanted, batch, serving, told>> /\ ResponderRest

ReportScan ==
  /\ at[R] = "scan" /\ told[R] < MaxReports
  /\ told' = [told EXCEPT ![R] = @ + 1] /\ Say(R, <<MessageOf("ScanProgress", told[R] + 1)>>)
  /\ UNCHANGED <<files, stored, at, work, wanted, batch, serving>> /\ ResponderRest

ResponderScans ==
  /\ at[R] = "scan" /\ Scan(R, serving.dry) /\ Say(R, <<MessageOf("Snapshot", scan'[R])>>)
  /\ told' = [told EXCEPT ![R] = 0] /\ Go(R, "serve")
  /\ UNCHANGED <<files, plan, applied, slot, wanted, batch, serving>> /\ ResponderRest

ScanFails ==
  /\ at[R] = "scan" /\ Say(R, <<Message("Error")>>) /\ Go(R, "leaving")
  /\ UNCHANGED <<files, stored, work, wanted, batch, serving, told>> /\ ResponderRest

----------------------------------------------------------------------------
(* serve_sync: a loop over messages, with flags for what has been served.  *)

Serves(type) == at[R] = "serve" /\ Gets(R, type)
Serving      == UNCHANGED <<files, stored>> /\ ResponderRest

ServeNeed ==
  /\ Serves("Need") /\ serving' = [serving EXCEPT !.need = TRUE]
  /\ Reply(R, [k \in DOMAIN Arg(R) |-> MessageOf("Object", Arg(R)[k])] \o <<Message("Done")>>)
  /\ UNCHANGED <<at, work, wanted, batch, told>> /\ Serving

ServeSnapshot ==
  /\ Serves("Snapshot") /\ Consume(R)
  /\ serving' = [serving EXCEPT !.snapshot = Arg(R)]
  /\ UNCHANGED <<at, work, wanted, batch, told>> /\ Serving

(* The plan of the connector is the one the responder expects.             *)
ServePlan ==
  /\ Serves("Plan") /\ serving' = [serving EXCEPT !.ready = TRUE]
  /\ plan' = [plan EXCEPT ![R] = PlanOf(serving.snapshot, scan[R])]
  /\ \E sizes \in Requests :
       /\ Reply(R, <<MessageOf("Need", sizes)>>)
       /\ wanted' = [wanted EXCEPT ![R] = sizes]
       /\ batch' = [NothingGot EXCEPT !.sizes = sizes]
  /\ UNCHANGED <<at, scan, applied, slot, told>> /\ Serving

(* It does not fit the recovery limits: an error, and a regular end.       *)
PlanTooLarge ==
  /\ Serves("Plan") /\ Reply(R, <<Message("Error"), Message("Done")>>) /\ Go(R, "leaving")
  /\ slot' = [slot EXCEPT ![R] = "finished"]
  /\ UNCHANGED <<scan, plan, applied, wanted, batch, serving, told>> /\ Serving

ServeObject ==
  /\ Serves("Object") /\ Consume(R)
  /\ wanted' = [wanted EXCEPT ![R] = Tail(@)]
  /\ batch' = [batch EXCEPT !.got = @ + 1, !.bytes = @ + Arg(R)]
  /\ UNCHANGED <<at, work, serving, told>> /\ Serving

(* Mutant: the receipt counts the objects of its batch.                    *)
ReceiptOfBatch(b) == [objects |-> 1, bytes |-> b.bytes]

Receipt(b) == [objects |-> b.got, bytes |-> b.bytes]

ServeBatchEnd ==
  /\ Serves("BatchEnd")
  /\ Reply(R, <<MessageOf("Receipt", Receipt(batch))>>)
  /\ batch' = [batch EXCEPT !.from = batch.got]
  /\ UNCHANGED <<at, work, wanted, serving, told>> /\ Serving

ServeDone ==
  /\ Serves("Done") /\ Consume(R) /\ Go(R, "apply")
  /\ UNCHANGED <<work, wanted, batch, serving, told>> /\ Serving

ResponderReports == at[R] = "apply" /\ Reports(R)

(* The heads are those of the records the apply has stored.                *)
ResponderApplies ==
  /\ at[R] = "apply" /\ outbox[R] = <<>> /\ Applies(R) /\ Go(R, "serve")
  /\ Say(R, <<MessageOf("Heads", Outcome(plan[R])), Message("Applied")>>)
  /\ serving' = [serving EXCEPT !.applied = TRUE, !.ready = FALSE]
  /\ UNCHANGED <<scan, plan, slot, wanted, batch, told>> /\ ResponderRest

ApplyFails ==
  /\ at[R] = "apply" /\ Say(R, <<Message("Error")>>) /\ Go(R, "serve")
  /\ UNCHANGED <<work, wanted, batch, serving, told>> /\ Serving

HearApply ==
  /\ Serves("ApplyProgress") /\ Consume(R) /\ heard' = [heard EXCEPT ![R] = Arg(R)]
  /\ UNCHANGED <<disk, user, at, work, objects, serving, told, failures>>

ServeHeads ==
  /\ Serves("Heads") /\ Consume(R)
  /\ serving' = [serving EXCEPT !.heads = Arg(R)]
  /\ UNCHANGED <<at, work, wanted, batch, told>> /\ Serving

(* Mutant: the end is confirmed although nothing was acknowledged.         *)
ConfirmsUnacknowledged ==
  /\ Serves("CommitAck") /\ Reply(R, <<Message("Done")>>) /\ Go(R, "leaving")
  /\ slot' = [slot EXCEPT ![R] = "finished"]
  /\ UNCHANGED <<scan, plan, applied, wanted, batch, serving, told>> /\ Serving

(* validate_ack_heads, acknowledge_shared_heads, the end of the loop; the  *)
(* permit is given back before the end is confirmed.                       *)
ServeCommit ==
  /\ Serves("CommitAck")
  /\ Acknowledge(R, serving.heads)
  /\ Reply(R, <<Message("Done")>>) /\ Go(R, "leaving")
  /\ slot' = [slot EXCEPT ![R] = "finished"]
  /\ UNCHANGED <<files, stored, initial, user, scan, plan, applied, objects, serving, reports,
                 failures>>

ServeCancel ==
  /\ Serves("Cancel") /\ Reply(R, <<Message("Done")>>) /\ Go(R, "leaving")
  /\ slot' = [slot EXCEPT ![R] = "finished"]
  /\ UNCHANGED <<scan, plan, applied, wanted, batch, serving, told>> /\ Serving

(* Everything is written: the process ends.                                *)
ResponderLeaves ==
  /\ at[R] = "leaving" /\ outbox[R] = <<>> /\ Leave(R, "ended", wire[C])
  /\ UNCHANGED <<files, stored, work, wanted, batch, serving, told>> /\ ResponderRest

----------------------------------------------------------------------------
(* Failures.  After an error the command ends; what the other end wrote is *)
(* lost, and what was written to it may be lost.  The permit is finished   *)
(* or dropped, as the error allows; a killed process loses it.             *)

Gone(e, kept) ==
  /\ Leave(e, IF e = C THEN "idle" ELSE "failed", kept)
  /\ slot' = [slot EXCEPT ![e] = IF @ = "finished" THEN @ ELSE "lost"]
  /\ IF e = C THEN command' = None /\ result' = "failed" ELSE UNCHANGED <<command, result>>
  /\ UNCHANGED <<disk, expected, attempts, scan, plan, applied, objects, serving, reports>>

Running(e)   == at[e] \notin {"idle", "prompt", "ended", "failed"}
Listening(e) == Running(e) /\ at[e] \notin {"scan", "apply", "commit", "leaving"}

(* A deadline, an error of its own, or the process is killed.              *)
GiveUp(e) ==
  /\ Running(e) /\ failures < MaxFailures /\ failures' = failures + 1
  /\ \E n \in 0 .. Len(wire[Other(e)]) : Gone(e, SubSeq(wire[Other(e)], 1, n))

(* The connection breaks: the ends notice when they read or write.         *)
Break ==
  /\ open /\ failures < MaxFailures /\ failures' = failures + 1 /\ open' = FALSE
  /\ \E n \in 0 .. Len(wire[C]), m \in 0 .. Len(wire[R]) :
       wire' = [e \in Ends |-> SubSeq(wire[e], 1, IF e = C THEN n ELSE m)]
  /\ UNCHANGED <<disk, user, at, work, outbox, objects, serving, reports>>

(* Mutant: an end that is writing does not notice.                         *)
EndOfReading(e) ==
  /\ Running(e) /\ ~open /\ Listening(e) /\ wire[e] = <<>> /\ outbox[e] = <<>>
  /\ Gone(e, wire[Other(e)]) /\ UNCHANGED failures

EndOfInput(e) ==
  /\ Running(e) /\ ~open
  /\ outbox[e] # <<>> \/ (Listening(e) /\ wire[e] = <<>>)
  /\ Gone(e, wire[Other(e)]) /\ UNCHANGED failures

(* The other end has confirmed, and failed after that.                     *)
ExitFails ==
  /\ at[C] \in {"finish", "cancelled"} /\ Gets(C, "Done") /\ at[R] = "failed"
  /\ Gone(C, wire[R]) /\ UNCHANGED failures

(* An error the other end reports, where one is expected.                  *)
ConnectorFails ==
  /\ Gets(C, "Error") /\ Gone(C, wire[R]) /\ UNCHANGED failures

----------------------------------------------------------------------------

ConnectorHandles ==
  \/ ConnectorScans \/ HearScan \/ ConnectorPlans \/ ConnectorObject
  \/ ConnectorCancels \/ ConnectorProposes \/ ConnectorSends \/ ConnectorReceipt
  \/ ConnectorHears \/ ConnectorHeads \/ ConnectorTurn \/ ConnectorFails

ResponderHandles ==
  \/ BeginScan \/ ServeNeed \/ ServeSnapshot \/ ServePlan \/ PlanTooLarge
  \/ ServeObject \/ ServeBatchEnd \/ ServeDone \/ HearApply \/ ServeHeads
  \/ ServeCommit \/ ServeCancel

Connects ==
  \/ Start \/ ConnectorHandles \/ ConnectorReports \/ ConnectorApplies \/ ConnectorCommits
  \/ ConnectorFinishes \/ ConnectorShows \/ ExitFails

Responds ==
  \/ Accept \/ Deny \/ ResponderHandles \/ ReportScan \/ ResponderScans \/ ScanFails
  \/ ResponderReports \/ ResponderApplies \/ ApplyFails \/ ResponderLeaves

Steps(e) ==
  \/ (IF e = C THEN Connects ELSE Responds)
  \/ Write(e) \/ EndOfInput(e)

Next ==
  \/ \E c \in Commands : Give(c)
  \/ Confirm \/ Decline
  \/ \E e \in Ends, x \in Edits : Edit(e, x)
  \/ \E e \in Ends : Steps(e) \/ GiveUp(e)
  \/ Break

Spec == Init /\ [][Next]_vars

(* The processes keep going; the user may stop.                            *)
FairSpec == Spec /\ \A e \in Ends : WF_vars(Steps(e))

----------------------------------------------------------------------------
(* Properties.                                                             *)

(* What is applied, at either end, on behalf of a user who is asked is the *)
(* plan the user was shown last; a dry run applies nothing (run_sync, the  *)
(* comparison of fingerprints).                                            *)
AppliesWhatWasShown ==
  \A e \in Ends :
    applied[e] # None =>
      /\ command # "dry run"
      /\ command = "ask" => applied[e] = expected

(* What the responder has acknowledged as shared the connector has too, so *)
(* that no end merges from a base the other does not have.                 *)
AcknowledgedByBoth == acked[R] \subseteq acked[C]

(* A command that succeeds has left both ends with the same plan applied   *)
(* and acknowledged, and both permits given back.                          *)
SuccessMeansBoth ==
  result = "ok" =>
    /\ applied[C] = applied[R] /\ applied[C] # None
    /\ Outcome(applied[C]) \in acked[C] \cap acked[R]
    /\ \A e \in Ends : slot[e] = "finished"

(* Neither end ever meets a message it does not take: not in any order of  *)
(* reports, receipts and errors.                                           *)
NothingRefused == \A e \in Ends : Listening(e) /\ Waiting(e) => Takes(e)

(* Whatever fails, and however little a pipe holds, both processes end.    *)
SessionEnds == \A e \in Ends : Running(e) ~> ~Running(e)

(* Stated by docs/2026-08-20-multi-share-scheduling-final-report.org:164:  *)
(* a changed plan is shown and confirmed again.  A plan confirmed while    *)
(* neither directory changed should not be.                                *)
ConfirmedPlanApplies ==
  [][ConnectorCancels /\ expected # None =>
       Outcome(expected) # Outcome(plan[C])]_vars
============================================================================
