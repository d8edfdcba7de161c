---------------------------- MODULE Relationship ----------------------------
(***************************************************************************)
(* How a directory of the connecting installation is paired with one of    *)
(* the responding installation, and how the pair is taken apart again:     *)
(* `sync add` and `sync remove` (src/src/main.rs), the requests they send  *)
(* and the rows of the shares table they change (src/src/state.rs).        *)
(*                                                                         *)
(* Commands run at the same time and may die anywhere; a request is with   *)
(* the responder whether or not the command that sent it still waits, and  *)
(* requests overtake each other.  A synchronization holds the permits of   *)
(* both installations (module PairReservation); one that is interrupted    *)
(* leaves an install intent at the end that was applying (module Install). *)
(*                                                                         *)
(* The shares of the connector are all paired with one directory of the    *)
(* responder.  `data` stands for all that an end keeps of a relationship:  *)
(* records, shared heads, unsettled paths, initial_complete.               *)
(***************************************************************************)
EXTENDS Naturals, FiniteSets

CONSTANTS
  Shares,        \* of the connector
  Commands,      \* the commands that run at the same time
  MaxRels,       \* bound on the relationships that are begun
  MaxRequests,   \* bound on the requests that are under way
  NoShare

Rels  == 1 .. MaxRels
NoRel == 0
Maybe == Rels \cup {NoRel}

ASSUME RelationshipConstants ==
  MaxRels \in Nat /\ MaxRequests \in Nat /\ NoShare \notin Shares

VARIABLES
  row,        \* the connector's row of each share
  root,       \* the responder's row of the directory
  command,    \* the commands of the connector
  requests,   \* what the responder has to handle
  session,    \* the synchronization of each share
  issued,     \* RelationshipId::generate
  asked,      \* ghost: the relationships someone has asked to remove
  warned,     \* ghost: those removed locally, with a warning
  late        \* ghost: those registered after they had been removed

vars == <<row, root, command, requests, session, issued, asked, warned, late>>

Unpaired == [rel |-> NoRel, complete |-> FALSE, removing |-> NoRel, data |-> NoRel, install |-> NoRel]
Idle     == [type |-> "none", share |-> NoShare, rel |-> NoRel, complete |-> FALSE, pc |-> "done"]
Closed   == [at |-> "off", rel |-> NoRel]

(* The directory may be missing, or kept from an earlier relationship.     *)
Init ==
  /\ row = [s \in Shares |-> Unpaired]
  /\ root = [share |-> NoShare, end |-> Unpaired]
  /\ command = [c \in Commands |-> Idle] /\ requests = {}
  /\ session = [s \in Shares |-> Closed]
  /\ issued = 0 /\ asked = {} /\ warned = {} /\ late = {}

ghosts == <<asked, warned, late>>

(* The permits of both installations belong to one synchronization.        *)
Permitted == \A s \in Shares : session[s].at \in {"off", "open"}

Finish(c)  == command' = [command EXCEPT ![c] = Idle]
Moves(c, pc) == command' = [command EXCEPT ![c].pc = pc]

(* The bindings decide; a marker stops everything but the removal.         *)
IsUnpaired(e) == e.rel = NoRel /\ e.removing = NoRel
IsBound(e, r) == e.rel = r /\ r # NoRel /\ e.removing = NoRel

----------------------------------------------------------------------------
(* `sync add`, at the connector.                                           *)

Request(type, c) == [type |-> type, share |-> command[c].share, rel |-> command[c].rel, from |-> {c}]

(* prepare_connector_registration: durable before it is sent.              *)
Add(c, s) ==
  /\ command[c] = Idle /\ Permitted /\ row[s].removing = NoRel /\ ~row[s].complete
  /\ \/ /\ IsUnpaired(row[s]) /\ issued < MaxRels
        /\ issued' = issued + 1 /\ row' = [row EXCEPT ![s].rel = issued']
     \/ row[s].rel # NoRel /\ UNCHANGED <<issued, row>>
  /\ command' = [command EXCEPT ![c] =
                   [type |-> "add", share |-> s, rel |-> row'[s].rel, complete |-> FALSE, pc |-> "send"]]
  /\ UNCHANGED <<root, requests, session, ghosts>>

Send(c) ==
  /\ command[c].pc = "send" /\ Cardinality(requests) < MaxRequests
  /\ requests' = requests \cup {Request(command[c].type, c)} /\ Moves(c, "wait")
  /\ UNCHANGED <<row, root, session, issued, ghosts>>

(* complete_connector_registration                                         *)
CompleteAdd(c) ==
  LET s == command[c].share
  IN  /\ command[c].pc = "registered" /\ Permitted /\ Finish(c)
      /\ row' = IF IsBound(row[s], command[c].rel) THEN [row EXCEPT ![s].complete = TRUE] ELSE row
      /\ UNCHANGED <<root, requests, session, issued, ghosts>>

----------------------------------------------------------------------------
(* `sync remove`, at the connector.                                        *)

(* prepare_managed_removal, for the binding that was previewed.  It needs  *)
(* no permit, and fails, the marker set, if a session holds the share.     *)
Remove(c, s, pc) ==
  /\ command[c] = Idle /\ row[s].rel # NoRel
  /\ pc = "send" => row[s].complete
  /\ row' = [row EXCEPT ![s].removing = row[s].rel]
  /\ asked' = asked \cup {row[s].rel}
  /\ command' = [command EXCEPT ![c] =
       IF session[s].at = "off"
       THEN [type |-> "remove", share |-> s, rel |-> row[s].rel, complete |-> row[s].complete, pc |-> pc]
       ELSE Idle]
  /\ UNCHANGED <<root, requests, session, issued, warned, late>>

(* Mutant: what was interrupted is left behind.                            *)
FinalizesAnyway(e, r, complete) == e.rel = r /\ e.complete = complete /\ e.removing = r

(* finalize_removal_locked                                                 *)
Finalizes(e, r, complete) ==
  e.rel = r /\ e.complete = complete /\ e.removing = r /\ e.install = NoRel

(* The install intents are not among what is deleted.                      *)
Detached(e) == [Unpaired EXCEPT !.install = e.install]

FinalizeRemoval(c) ==
  LET s == command[c].share
      r == command[c].rel
      done == Finalizes(row[s], r, command[c].complete)
  IN  /\ command[c].pc \in {"absent", "local"} /\ Permitted /\ Finish(c)
      /\ row' = IF done THEN [row EXCEPT ![s] = Detached(@)] ELSE row
      /\ warned' = IF done /\ command[c].pc = "local" THEN warned \cup {r} ELSE warned
      /\ UNCHANGED <<root, requests, session, issued, asked, late>>

(* A command fails, is killed, or has waited for too long.  What it has    *)
(* sent may still arrive.                                                  *)
GiveUp(c) ==
  /\ command[c] # Idle /\ Finish(c)
  /\ \/ requests' = {[q EXCEPT !.from = @ \ {c}] : q \in requests}
     \/ requests' = {q \in requests : c \notin q.from}
  /\ UNCHANGED <<row, root, session, issued, ghosts>>

----------------------------------------------------------------------------
(* handle_relationship_request, at the responder.                          *)

Answer(q, pc) ==
  /\ requests' = requests \ {q}
  /\ command' = [c \in Commands |->
       IF c \notin q.from THEN command[c]
       ELSE IF pc = "error" THEN Idle ELSE [command[c] EXCEPT !.pc = pc]]

(* ensure_unpaired_registration_state                                      *)
Unused(e) == IsUnpaired(e) /\ e.data = NoRel /\ e.install = NoRel

(* register_relationship_locked: the row of another share is renamed.      *)
Registers(q) ==
  \/ root.share = q.share /\ IsBound(root.end, q.rel)
  \/ Unused(root.end)

ServeAdd(q) ==
  /\ q \in requests /\ q.type = "add" /\ Permitted
  /\ IF Registers(q)
     THEN /\ root' = [share |-> q.share, end |-> [root.end EXCEPT !.rel = q.rel, !.complete = TRUE]]
          /\ Answer(q, "registered")
          /\ late' = IF q.rel \in asked THEN late \cup {q.rel} ELSE late
     ELSE Answer(q, "error") /\ UNCHANGED <<root, late>>
  /\ UNCHANGED <<row, session, issued, asked, warned>>

(* Mutant: any relationship of the share is the one that is meant.         *)
IsForShare(q) == root.share = q.share /\ root.end.rel # NoRel

(* prepare_incoming_removal_locked: all else is absent.                    *)
IsFor(q) ==
  /\ root.share = q.share /\ root.end.rel = q.rel
  /\ root.end.removing \in {NoRel, q.rel}

(* Mutant: what is not there cannot be removed.                            *)
AbsentIsError(q) == "error"

(* A second request is answered as the first one was.                      *)
AnswerToAbsent(q) == "absent"

(* Mutant: the removal is taken to be done, or will be.                    *)
BlockedIsAbsent(q) == "absent"

AnswerToBlocked(q) == "error"

Blocked(q) == root.share = q.share /\ root.end.install # NoRel

(* The permit is not given while an install of the share is interrupted.   *)
ServeRemove(q) ==
  /\ q \in requests /\ q.type = "remove" /\ Permitted
  /\ \/ Blocked(q) /\ Answer(q, AnswerToBlocked(q)) /\ UNCHANGED root
     \/ ~Blocked(q) /\ ~IsFor(q) /\ Answer(q, AnswerToAbsent(q)) /\ UNCHANGED root
     \/ ~Blocked(q) /\ IsFor(q) /\ Answer(q, "absent") /\ root' = [root EXCEPT !.end = Detached(@)]
  /\ UNCHANGED <<row, session, issued, ghosts>>

(* The marker and the removal are two transactions, with a death between.  *)
DieRemoving(q) ==
  /\ q \in requests /\ q.type = "remove" /\ Permitted /\ ~Blocked(q) /\ IsFor(q)
  /\ Answer(q, "error") /\ root' = [root EXCEPT !.end.removing = q.rel]
  /\ UNCHANGED <<row, session, issued, ghosts>>

(* `sync remove --local-only`, at the responder: marked, and then detached.*)
MarkRoot ==
  /\ root.end.rel # NoRel /\ root.end.removing = NoRel
  /\ root' = [root EXCEPT !.end.removing = root.end.rel] /\ asked' = asked \cup {root.end.rel}
  /\ UNCHANGED <<row, command, requests, session, issued, warned, late>>

DetachRoot ==
  /\ root.end.removing # NoRel /\ Permitted /\ session[root.share].at = "off"
  /\ Finalizes(root.end, root.end.removing, TRUE) /\ root' = [root EXCEPT !.end = Detached(@)]
  /\ UNCHANGED <<row, command, requests, session, issued, ghosts>>

----------------------------------------------------------------------------
(* Synchronization.                                                        *)

(* validate_final_sync_binding, at both ends, once both are reserved.      *)
FinalBinding(s, r) ==
  /\ IsBound(row[s], r) /\ row[s].complete
  /\ root.share = s /\ IsBound(root.end, r)

Goes(s, at) == session' = [session EXCEPT ![s].at = at]

(* validate_sync_binding, when the session begins.                         *)
Open(s) ==
  /\ session[s].at = "off" /\ row[s].complete
  /\ IsBound(row[s], row[s].rel) /\ root.share = s /\ IsBound(root.end, row[s].rel)
  /\ session' = [session EXCEPT ![s] = [at |-> "open", rel |-> row[s].rel]]
  /\ UNCHANGED <<row, root, command, requests, issued, ghosts>>

Applying(e, r) == [e EXCEPT !.install = r]
Applied(e, r)  == [e EXCEPT !.install = NoRel, !.data = r]

(* Both installations are reserved, and have recovered what they could;    *)
(* the responder applies, and then the connector.                          *)
Reserve(s) ==
  /\ session[s].at = "open" /\ Permitted
  /\ row[s].install = NoRel /\ root.end.install = NoRel
  /\ IF FinalBinding(s, session[s].rel)
     THEN root' = [root EXCEPT !.end = Applying(@, session[s].rel)] /\ Goes(s, "responding")
     ELSE session' = [session EXCEPT ![s] = Closed] /\ UNCHANGED root
  /\ UNCHANGED <<row, command, requests, issued, ghosts>>

ApplyRoot(s) ==
  /\ session[s].at = "responding" /\ Goes(s, "connector")
  /\ root' = [root EXCEPT !.end = Applied(@, session[s].rel)]
  /\ UNCHANGED <<row, command, requests, issued, ghosts>>

ApplyRow(s) ==
  /\ \/ /\ session[s].at = "connector" /\ Goes(s, "connecting")
        /\ row' = [row EXCEPT ![s] = Applying(@, session[s].rel)]
     \/ /\ session[s].at = "connecting" /\ Goes(s, "open")
        /\ row' = [row EXCEPT ![s] = Applied(@, session[s].rel)]
  /\ UNCHANGED <<root, command, requests, issued, ghosts>>

(* A session ends, for whatever reason.                                    *)
Close(s) ==
  /\ session[s].at # "off" /\ session' = [session EXCEPT ![s] = Closed]
  /\ UNCHANGED <<row, root, command, requests, issued, ghosts>>

(* Whoever has a permit recovers whatever was interrupted.                 *)
RecoverRow(s) ==
  /\ Permitted /\ row[s].install # NoRel /\ row' = [row EXCEPT ![s] = Applied(@, @.install)]
  /\ UNCHANGED <<root, command, requests, session, issued, ghosts>>

RecoverRoot ==
  /\ Permitted /\ root.end.install # NoRel
  /\ root' = [root EXCEPT !.end = Applied(@, @.install)]
  /\ UNCHANGED <<row, command, requests, session, issued, ghosts>>

----------------------------------------------------------------------------

Serves == \E q \in requests : ServeAdd(q) \/ ServeRemove(q)

Runs(c) == Send(c) \/ CompleteAdd(c) \/ FinalizeRemoval(c)

Syncs(s) == Reserve(s) \/ ApplyRoot(s) \/ ApplyRow(s) \/ Close(s)

(* A command or a request comes to nothing.                                *)
Dies == (\E c \in Commands : GiveUp(c)) \/ (\E q \in requests : DieRemoving(q))

Lives ==
  \/ \E c \in Commands, s \in Shares : Add(c, s) \/ \E pc \in {"send", "local"} : Remove(c, s, pc)
  \/ \E c \in Commands : Runs(c)
  \/ Serves \/ MarkRoot \/ DetachRoot
  \/ \E s \in Shares : Syncs(s) \/ RecoverRow(s)
  \/ RecoverRoot

Opens == \E s \in Shares : Open(s)

Next == Lives \/ Opens \/ Dies

Spec == Init /\ [][Next]_vars

(* A user who wants a relationship removed asks until it is.               *)
AsksAgain(s) ==
  /\ row[s].removing # NoRel
  /\ \E c \in Commands : Remove(c, s, IF row[s].complete THEN "send" ELSE "local")

(* A synchronization ends, and whoever waits for its permit gets it.       *)
Fairness ==
  /\ \A s \in Shares : SF_vars(AsksAgain(s)) /\ WF_vars(Syncs(s)) /\ SF_vars(RecoverRow(s))
  /\ \A c \in Commands : SF_vars(Runs(c))
  /\ SF_vars(Serves) /\ SF_vars(RecoverRoot)

----------------------------------------------------------------------------
(* Properties.                                                             *)

(* Nothing an end has of one relationship is taken for another one's: what *)
(* it keeps, or is about to install, is of the relationship it is bound to.*)
DataOfBinding ==
  \A e \in {row[s] : s \in Shares} \cup {root.end} :
    e.data \in {NoRel, e.rel} /\ e.install \in {NoRel, e.rel}

(* The responder stays bound to a relationship the connector has none of   *)
(* only if the command said so, or if a registration came after a removal. *)
StrandedOnlyWarned ==
  \A r \in 1 .. issued :
    root.end.rel = r /\ (\A s \in Shares : row[s].rel # r) => r \in warned \cup late

(* docs/2026-08-17-clean-relationship-removal-design.org:48: a delayed     *)
(* removal of an old relationship never detaches a newer one.              *)
OnlyAskedDetached ==
  [][root.end.rel # NoRel /\ root'.end.rel # root.end.rel => root.end.rel \in asked]_vars

(* A removal that was begun is finished, whatever became of the requests   *)
(* and the answers of its earlier attempts.                                *)
RemovalCompletes == []<>(\A s \in Shares : row[s].removing = NoRel)
=============================================================================
