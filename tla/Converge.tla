------------------------------ MODULE Converge ------------------------------
(***************************************************************************)
(* Two ends of one relationship bring a path to agreement (the rounds of   *)
(* src/src/main.rs, scan.rs and the application of plans in sync.rs).      *)
(*                                                                         *)
(* Users edit, replace and delete the entry of either tree at any time.  A *)
(* round scans both trees, the connector computes the plan, and materializes *)
(* a merge under a sequence number of its own; the responder applies the   *)
(* plan first, then the connector, and what both then hold is acknowledged *)
(* as a base of later merges, by the connector before the responder.  The  *)
(* connection, or either process, may go at any step: what was done stays  *)
(* done.  An end that finds an entry its scan did not record keeps that    *)
(* entry, and the session starts over; a second time the path is deferred. *)
(*                                                                         *)
(* The application of a plan is one step here; its steps, and its crashes, *)
(* are those of the module Install.  Other paths show only in that the     *)
(* sequence numbers of the ends are theirs too.                            *)
(***************************************************************************)
EXTENDS Reconcile, FiniteSets

CONSTANTS
  Connector,   \* the end that computes plans and materializes merges
  Edits,       \* numbers: what one user edit adds to the content of a file;
               \* bounds the changes users make
  Times,       \* timestamps; the clocks of the ends need not agree
  MaxSeq,      \* bound on the sequence numbers of an end
  MaxBreaks    \* bound on lost connections

Responder == CHOOSE p \in Peers : p # Connector
Contents  == SUBSET Edits
Directory == [kind |-> "directory", content |-> {}]
Entries   == [kind : {"file"}, content : Contents] \cup {Absent, Directory}
Ids       == [peer : Peers, seq : Nat]
Bases     == [id : Ids, entry : Entries] \cup {NoBase}
Versions  == [peer : Peers, seq : Nat, time : Nat, seen : [Peers -> Nat],
              base : Bases, entry : Entries]
Merges    == [base : Bases, winner : Versions, loser : Versions]
Reasons   == {"destructive", "absent_base", "unequal_base", "overlap", "fallback"}
Conflicts == [inputs : SUBSET Versions, winner : Versions, reason : Reasons]

ASSUME TwoEnds ==
  /\ Connector \in Peers /\ \E p \in Peers : p # Connector /\ Peers = {Connector, p}
  /\ Edits \subseteq Nat /\ Times \subseteq Nat
  /\ NoVersion \notin Versions /\ NoMerge \notin Merges /\ NoConflict \notin Conflicts

VARIABLES
  disk,     \* the entry in each tree
  record,   \* the recorded version of each end
  sequence, \* the last sequence number each end has used
  head,     \* shared_heads: the base each end has acknowledged
  kept,     \* the recovery records of each end
  round,    \* where the round is
  scanned,  \* ends that have refreshed their records in this round
  plan,     \* what the connector decided
  cycle,    \* InvalidationCycle: "fresh", "retried", "deferred"
  breaks,   \* connections lost so far
  used,     \* history: the changes made
  waived,   \* history: the edits a user overwrote or deleted
  past,     \* history: the identities each end has moved on from
  common,   \* history: identities both ends have held at one time
  orphans,  \* history: merged versions the connector has not installed
  unseen    \* history: edits a successor of no orphan was taken to have seen

durable == <<record, sequence, head, kept>>
session == <<round, scanned, plan, cycle, breaks>>
history == <<used, waived, past, common, orphans, unseen>>
vars    == <<disk, durable, session, history>>

Outcome(rec, merge, conflict) == [record |-> rec, merge |-> merge, conflict |-> conflict]
NoPlan == Outcome(NoVersion, NoMerge, NoConflict)

Init ==
  /\ disk = [p \in Peers |-> Absent]
  /\ record = [p \in Peers |-> NoVersion]
  /\ sequence = [p \in Peers |-> 0]
  /\ head = [p \in Peers |-> NoBase] /\ kept = [p \in Peers |-> {}]
  /\ round = "idle" /\ scanned = {} /\ plan = NoPlan
  /\ cycle = "fresh" /\ breaks = 0
  /\ used = {} /\ waived = {} /\ past = [p \in Peers |-> {}]
  /\ common = {} /\ orphans = {} /\ unseen = {}

----------------------------------------------------------------------------
(* The users.                                                              *)

Give(p, entry) ==
  /\ disk' = [disk EXCEPT ![p] = entry]
  /\ waived' = waived \cup (disk[p].content \ entry.content)
                     \cup (used' \ (used \cup entry.content))

Change(e) == used' = used \cup {e} /\ \A f \in Edits : f \in used <=> f < e

(* An edit adds to the content, or replaces it.  Changes are numbered as   *)
(* they are made.                                                          *)
Edit(p, e, replaces) ==
  /\ Change(e)
  /\ Give(p, [kind |-> "file",
              content |-> {e} \cup (IF replaces THEN {} ELSE disk[p].content)])
  /\ UNCHANGED <<durable, session, past, common, orphans, unseen>>

(* The file is deleted, or a directory takes its name.                     *)
Remove(p, e, entry) ==
  /\ IsFile(disk[p]) /\ Change(e) /\ Give(p, entry)
  /\ UNCHANGED <<durable, session, past, common, orphans, unseen>>

----------------------------------------------------------------------------
(* A round, up to the plan.                                                *)

Scan(p, time) ==
  IF disk[p] = RecordedEntry(record[p]) THEN record[p]
  ELSE Successor(p, sequence[p] + 1, time, record[p], head[p], disk[p])

MovesOn(p) ==
  past' = IF record'[p] = record[p] \/ record[p] = NoVersion THEN past
          ELSE [past EXCEPT ![p] = @ \cup {Id(record[p])}]

(* Records of p become what the scan finds.                                *)
Rescan(p) ==
  \E time \in Times :
    /\ record' = [record EXCEPT ![p] = Scan(p, time)]
    /\ sequence' = [sequence EXCEPT ![p] =
                      IF record'[p] = record[p] THEN @ ELSE @ + 1]
    /\ sequence'[p] <= MaxSeq
    /\ MovesOn(p)

Refresh(p) ==
  /\ round = "idle" /\ p \notin scanned
  /\ Rescan(p)
  /\ scanned' = scanned \cup {p}
  /\ UNCHANGED <<disk, head, kept, round, plan, cycle, breaks,
                 used, waived, common, orphans, unseen>>

Decision == Decide(record[Connector], record[Responder])

(* The three-way merge of contents that are sets of edits.                 *)
ThreeWay(b, v, w) == (v \cap w) \cup (v \ b) \cup (w \ b)

(* materialize_merges.  Whether the edits of a candidate overlap, or make  *)
(* the merge engine give up, is in the contents: any outcome.              *)
Materialize(d) ==
  LET c == [m |-> d.merge, b |-> d.merge.base.entry.content,
            v |-> d.merge.winner.entry.content, w |-> d.merge.loser.entry.content]
      version(content) == Merged(Connector, sequence[Connector] + 1, c.m, content)
  IN  \/ plan' = Outcome(version(ThreeWay(c.b, c.v, c.w)), c.m, NoConflict)
      \/ plan' = Outcome(version(c.v), c.m, Conflict(c.m.winner, c.m.loser, "overlap"))
      \/ plan' = Outcome(c.m.winner, c.m, Conflict(c.m.winner, c.m.loser, "fallback"))

IsMerged(pl) == pl.merge # NoMerge /\ pl.record # pl.merge.winner

MakePlan ==
  /\ round = "idle" /\ scanned = Peers
  /\ IF Decision.merge = NoMerge
       THEN plan' = Decision /\ UNCHANGED <<sequence, orphans>>
       ELSE /\ Materialize(Decision)
            /\ sequence' = [sequence EXCEPT ![Connector] =
                              IF IsMerged(plan') THEN @ + 1 ELSE @]
            /\ sequence'[Connector] <= MaxSeq
            /\ orphans' = IF IsMerged(plan') THEN orphans \cup {Id(plan'.record)} ELSE orphans
  /\ round' = "planned"
  /\ UNCHANGED <<disk, record, head, kept, scanned, cycle, breaks,
                 used, waived, past, common, unseen>>

----------------------------------------------------------------------------
(* Applying it.                                                            *)

(* effective_plan, for the only path: a deferred path keeps the end's own  *)
(* record and its conflicts wait.                                          *)
Effective(p) ==
  IF cycle = "deferred" THEN Outcome(record[p], NoMerge, NoConflict) ELSE plan

(* Mutant: the next round uses the scans of this one.                      *)
CloseKeepingScans == round' = "idle" /\ UNCHANGED scanned /\ plan' = NoPlan

Close == round' = "idle" /\ scanned' = {} /\ plan' = NoPlan

(* Mutant: the conflict is not stored.                                     *)
RecoveryForgotten(c) == {}

Recovery(c) == IF c = NoConflict THEN {} ELSE {c}

(* A tombstone for a path with nothing recorded to delete touches nothing. *)
Untouched(p) ==
  /\ RecordedEntry(Effective(p).record) = Absent
  /\ RecordedEntry(record[p]) = Absent
  /\ Effective(p).record # record[p]

Undisturbed(p) == disk[p] = RecordedEntry(record[p]) \/ Untouched(p)

(* The record, the tree and the recovery records move together.  A         *)
(* tombstone for a path this end never recorded is not accepted.           *)
Install(p) ==
  LET e == Effective(p)
  IN  /\ cycle = "deferred" \/ Undisturbed(p)
      /\ record' = [record EXCEPT ![p] =
           IF @ = NoVersion /\ RecordedEntry(e.record) = Absent THEN @ ELSE e.record]
      /\ disk' = IF cycle = "deferred" \/ e.record = record[p] \/ Untouched(p) THEN disk
                 ELSE [disk EXCEPT ![p] = RecordedEntry(e.record)]
      /\ MovesOn(p)
      /\ kept' = [kept EXCEPT ![p] = @ \cup Recovery(e.conflict)]
      /\ common' = IF record'[Connector] = record'[Responder] /\ record'[p] # NoVersion
                     THEN common \cup {Id(record'[p])} ELSE common
      /\ unseen' = IF /\ record[p] # NoVersion /\ Id(record[p]) \in orphans
                      /\ record'[p] # record[p]
                      /\ HasSeen(record'[p], Id(record[p]))
                     THEN unseen \cup (record[p].entry.content \ record'[p].entry.content)
                     ELSE unseen

(* The entry is not the recorded one: it stays, a scan records it, the     *)
(* conflicts that scan confirms or finds are kept, and the round is called *)
(* off.                                                                    *)
Invalidate(p) ==
  /\ cycle # "deferred" /\ ~Undisturbed(p)
  /\ Rescan(p)
  /\ kept' = [kept EXCEPT ![p] = @
       \cup {c \in Recovery(plan.conflict) : c.winner = record'[p]}
       \cup Recovery(Decide(record'[p], plan.record).conflict)]
  /\ cycle' = IF cycle = "fresh" THEN "retried" ELSE "deferred"
  /\ Close
  /\ UNCHANGED <<disk, head, breaks, used, waived, common, orphans, unseen>>

ResponderApplies ==
  /\ round = "planned"
  /\ Install(Responder)
  /\ round' = "applied"
  /\ UNCHANGED <<sequence, head, scanned, plan, cycle, breaks,
                 used, waived, orphans>>

ResponderInvalidates == round = "planned" /\ Invalidate(Responder)

(* Mutant: each end acknowledges what it holds itself.                     *)
AcknowledgeOwn(p, rec) ==
  head' = [head EXCEPT ![p] = IF rec[p] = NoVersion THEN NoBase ELSE AsBase(rec[p])]

(* acknowledge_shared_heads: a head that is not acknowledged is forgotten. *)
Acknowledge(p, rec) ==
  head' = [head EXCEPT ![p] =
             IF rec[Connector] = rec[Responder] /\ rec[p] # NoVersion
               THEN AsBase(rec[p]) ELSE NoBase]

(* The connector applies, intersects its heads with those the responder    *)
(* reported, and acknowledges them.                                        *)
ConnectorApplies ==
  /\ round = "applied"
  /\ Install(Connector)
  /\ Acknowledge(Connector, record')
  /\ orphans' = orphans \ (IF record'[Connector] = NoVersion THEN {} ELSE {Id(record'[Connector])})
  /\ round' = "committed"
  /\ UNCHANGED <<sequence, scanned, plan, cycle, breaks, used, waived>>

ConnectorInvalidates == round = "applied" /\ Invalidate(Connector)

(* SyncFinished, or CommitAck, with the heads.                             *)
ResponderFinishes ==
  /\ round = "committed"
  /\ Acknowledge(Responder, record)
  /\ Close /\ cycle' = "fresh"
  /\ UNCHANGED <<disk, record, sequence, kept, breaks, history>>

(* The connection, or a process, is lost: the next session starts afresh.  *)
Break ==
  /\ breaks < MaxBreaks /\ breaks' = breaks + 1
  /\ round # "idle" \/ scanned # {} \/ cycle # "fresh"
  /\ Close /\ cycle' = "fresh"
  /\ UNCHANGED <<disk, durable, history>>

RoundStep ==
  \/ \E p \in Peers : Refresh(p)
  \/ MakePlan
  \/ ResponderApplies \/ ResponderInvalidates
  \/ ConnectorApplies \/ ConnectorInvalidates
  \/ ResponderFinishes

Next ==
  \/ \E p \in Peers, e \in Edits, replaces \in BOOLEAN : Edit(p, e, replaces)
  \/ \E p \in Peers, e \in Edits, entry \in {Absent, Directory} : Remove(p, e, entry)
  \/ RoundStep
  \/ Break

Spec     == Init /\ [][Next]_vars
(* Rounds are repeated: by every change, and by the audit.                 *)
FairSpec == Spec /\ WF_vars(RoundStep)
----------------------------------------------------------------------------
(* Properties.                                                             *)

(* Types of what the ends record, and of what a plan gives them.           *)
TypeOK ==
  /\ disk \in [Peers -> Entries] /\ sequence \in [Peers -> Nat]
  /\ record \in [Peers -> Versions \cup {NoVersion}] /\ head \in [Peers -> Bases]
  /\ plan.record \in Versions \cup {NoVersion}

Recoverable(e) ==
  \/ \E p \in Peers : e \in disk[p].content
  \/ \E p \in Peers : \E c \in kept[p] : \E v \in c.inputs : e \in v.entry.content

(* What a user wrote, and no user overwrote or deleted, is in a tree or in *)
(* a recovery record, whatever the other end wrote meanwhile, whichever    *)
(* end won, and wherever rounds broke off.  One gap is excepted: versions  *)
(* a merged version is wrongly taken to be an ancestor of (see             *)
(* InputsKept).                                                            *)
EditKept == \A e \in used \ (waived \cup unseen) : Recoverable(e)

(* Documented: divergent inputs are retained, without exception.  A merged *)
(* version whose own maker did not get to install it is not an ancestor of *)
(* that end's later versions, but has one of the sequence numbers they     *)
(* cover: the second of them replaces the merge, and the other end's edit  *)
(* in it, as if it had been seen.                                          *)
InputsKept == \A e \in used \ waived : Recoverable(e)

(* Three-way merges start from a version both ends really held at one      *)
(* time: an end that alone acknowledged it does not make it a base.        *)
BaseShared ==
  /\ \A p \in Peers : head[p] # NoBase => head[p].id \in common
  /\ plan.merge # NoMerge => plan.merge.base.id \in common

(* The responder, which computes the plan again from the two snapshots     *)
(* with their roles exchanged, accepts what the connector sends.           *)
PlanAccepted ==
  round = "planned" =>
    /\ Decide(record[Responder], record[Connector]) = Decision
    /\ IsMerged(plan) => PermittedMerge(plan.record, plan.merge, Connector)

(* An end never goes back to a version it has moved on from: neither an    *)
(* older plan, nor the other end's copy, nor a deferred path brings back   *)
(* what was edited, deleted or lost to a later write.                      *)
NoResurrection ==
  [][\A p \in Peers :
       record'[p] \notin {record[p], NoVersion} => Id(record'[p]) \notin past[p]]_vars

(* When the users are done, the trees become and stay equal.               *)
Settles == <>[](disk[Connector] = disk[Responder])
============================================================================
