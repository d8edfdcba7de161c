-------------------------------- MODULE Watch --------------------------------
(***************************************************************************)
(* A persistent watch of a share: persistent_watch_session of the          *)
(* connecting peer and serve_watch_open of the other (src/src/main.rs),    *)
(* with the watcher state, the debounce and the heartbeat of               *)
(* src/src/watch.rs.                                                       *)
(*                                                                         *)
(* Both ends watch their directory; the responder advertises changes, the  *)
(* connector runs rounds.  A round that meets a file that was changed      *)
(* after its scan is invalidated and repeated; a path that invalidates a   *)
(* repetition is deferred, and the round goes on without it.               *)
(*                                                                         *)
(* The content of a path is written by the users of one end only, so that  *)
(* the plan of a round is what that end has scanned (concurrent writes are *)
(* in module Converge); the reservation is one message each way (module    *)
(* PairReservation).  Generations are kept as what is compared: whether    *)
(* one is ahead of the other.                                              *)
(***************************************************************************)
EXTENDS Naturals, Sequences, FiniteSets

CONSTANTS
  Order,             \* the paths, in the order of their records
  OwnerOf,           \* the end whose users write each of them
  Hot,               \* the paths that are written all the time
  MaxEdits,          \* bound on the writes of a path that is not hot
  MaxMishaps,        \* bound on heartbeats, lost connections and lost watchers
  MaxQueued          \* how many frames of the responder a pipe holds

C == "connector"
R == "responder"
Ends == {C, R}
Other(e) == IF e = C THEN R ELSE C

Paths == {Order[k] : k \in DOMAIN Order}

ASSUME WatchConstants ==
  /\ OwnerOf \in [Paths -> Ends] /\ Hot \subseteq Paths
  /\ MaxEdits \in Nat /\ MaxMishaps \in Nat /\ MaxQueued \in Nat \ {0}

VARIABLES
  disk,        \* what each end has at each path
  edits,       \* the writes of each path so far
  event,       \* ends whose watcher has a write to report
  ahead,       \* ends whose generation is ahead of the advertised one (R),
               \*   of the scheduled one (C)
  token,       \* the wake-up in the channel of the responder
  due,         \* ends whose debounce has a deadline
  remoteAhead, \* the generation R advertised is ahead of the scheduled one
  at, startup, \* where each end is; the connector is in its startup round
  scan, theirs,\* what each end scanned, and got from the other
  cycle,       \* InvalidationCycle of each end
  unsettled,   \* of each end, kept in the state database
  wire, open,  \* the frames to each end, the connection
  awaiting, pings, failures

users   == <<disk, edits>>
signals == <<event, ahead, token, due, remoteAhead>>
round   == <<startup, scan, theirs, cycle, unsettled>>
beats   == <<awaiting, pings>>
vars    == <<users, signals, at, round, wire, open, beats, failures>>

Blank    == [p \in Paths |-> 0]
NewCycle == [retried |-> FALSE, deferred |-> {}]
None     == <<>>

Init ==
  /\ disk = [e \in Ends |-> Blank] /\ edits = Blank
  /\ event = [e \in Ends |-> FALSE] /\ ahead = event /\ due = event
  /\ token = FALSE /\ remoteAhead = FALSE
  /\ at = [e \in Ends |-> "off"] /\ startup = FALSE
  /\ scan = [e \in Ends |-> Blank] /\ theirs = scan
  /\ cycle = [e \in Ends |-> NewCycle] /\ unsettled = [e \in Ends |-> {}]
  /\ wire = [e \in Ends |-> <<>>] /\ open = FALSE
  /\ awaiting = 0 /\ pings = 0 /\ failures = 0

Spare == pings + failures < MaxMishaps

Go(e, p)   == at' = [at EXCEPT ![e] = p]
Set(f, e, x) == [f EXCEPT ![e] = x]

----------------------------------------------------------------------------
(* Frames.  What is written on a lost connection is gone.                  *)

Frame(type)        == [type |-> type, arg |-> None]
FrameOf(type, arg) == [type |-> type, arg |-> arg]
Arg(e)             == Head(wire[e]).arg

(* V2ReservationWire takes what was on its way before the responder began  *)
(* to serve a round.                                                       *)
(* Mutant: a Pong is a protocol error here, as it is later in a round.     *)
OnlyChanges == {"Changed"}

Drained == {"Changed", "Pong"}

(* The frames an end takes where it is.  Any other is an error of the      *)
(* protocol.                                                               *)
ConnectorExpects ==
  [off |-> {}, opening |-> {"Ready"}, idle |-> {"Changed", "Pong"},
   reserving |-> {"Reserved"} \cup Drained, scanned |-> {"Snapshot"}, objects |-> {"Done"},
   proposed |-> {"Need"}, applying |-> {"Applied", "Invalidated"}]

ResponderExpects ==
  [off |-> {"WatchOpen"}, ready |-> {"Ready"}, idle |-> {"Ping", "Reserve"}, reserved |-> {},
   serving |-> {"Need"}, planning |-> {"Plan"}, apply |-> {"Done"},
   applied |-> {"Finished", "Invalidated"}]

Expected(e) ==
  IF e = C THEN ConnectorExpects[at[C]] \cup {"Error"} ELSE ResponderExpects[at[R]]

Gets(e, type) ==
  wire[e] # <<>> /\ Head(wire[e]).type = type /\ type \in Expected(e)

Reply(e, frames) ==
  /\ wire' = [wire EXCEPT ![e] = Tail(@),
                          ![Other(e)] = IF open THEN @ \o frames ELSE @]
  /\ UNCHANGED open
Say(e, frames) ==
  /\ wire' = [wire EXCEPT ![Other(e)] = IF open THEN @ \o frames ELSE @]
  /\ UNCHANGED open

(* What was scanned is of no use after the round.                          *)
Forget(e) == scan' = Set(scan, e, Blank) /\ theirs' = Set(theirs, e, Blank)

(* A session ends, and with it the watcher and all that it has noticed.    *)
Leaves(e) ==
  /\ Go(e, "off") /\ Forget(e) /\ cycle' = Set(cycle, e, NewCycle)
  /\ event' = Set(event, e, FALSE) /\ ahead' = Set(ahead, e, FALSE) /\ due' = Set(due, e, FALSE)
  /\ token' = (token /\ e # R)
  /\ remoteAhead' = (remoteAhead /\ e # C) /\ awaiting' = (IF e = C THEN 0 ELSE awaiting)

----------------------------------------------------------------------------
(* Users and watchers.                                                     *)

(* A hot path changes between two contents, for ever.                      *)
Write(p) ==
  LET e == OwnerOf[p]
  IN  /\ p \in Hot \/ edits[p] < MaxEdits
      /\ disk' = [disk EXCEPT ![e][p] = IF p \in Hot THEN 1 - @ ELSE @ + 1]
      /\ edits' = IF p \in Hot THEN edits ELSE [edits EXCEPT ![p] = @ + 1]
      /\ event' = Set(event, e, at[e] # "off")
      /\ UNCHANGED <<ahead, token, due, remoteAhead, at, round, wire, open, beats, failures>>

(* WatchState::changed, called by the watcher of a running session: the    *)
(* generation first, then the wake-up, which a full channel drops.         *)
Deliver(e) ==
  /\ event[e] /\ event' = Set(event, e, FALSE)
  /\ ahead' = Set(ahead, e, TRUE)
  /\ token' = (token \/ e = R)
  /\ UNCHANGED <<users, due, remoteAhead, at, round, wire, open, beats, failures>>

----------------------------------------------------------------------------
(* A session begins: both ends create a watcher, and exchange the paths    *)
(* that are unsettled.                                                     *)

Connect ==
  /\ at[C] = "off" /\ at[R] = "off" /\ Go(C, "opening") /\ startup' = TRUE
  /\ wire' = [e \in Ends |-> IF e = R THEN <<Frame("WatchOpen")>> ELSE <<>>] /\ open' = TRUE
  /\ UNCHANGED <<users, signals, scan, theirs, cycle, unsettled, beats, failures>>

Accept ==
  /\ at[R] = "off" /\ Gets(R, "WatchOpen") /\ Go(R, "ready")
  /\ Reply(R, <<FrameOf("Ready", unsettled[R])>>)
  /\ UNCHANGED <<users, signals, round, beats, failures>>

Remember(e, ps) == unsettled' = [unsettled EXCEPT ![e] = @ \cup ps]

(* The startup round follows; it covers every local change so far.         *)
ConnectorReady ==
  /\ at[C] = "opening" /\ Gets(C, "Ready") /\ Go(C, "reserving")
  /\ Remember(C, Arg(C)) /\ ahead' = Set(ahead, C, FALSE)
  /\ Reply(C, <<FrameOf("Ready", unsettled[C] \cup Arg(C)), Frame("Reserve")>>)
  /\ UNCHANGED <<users, event, token, due, remoteAhead, startup, scan, theirs, cycle, beats, failures>>

ResponderReady ==
  /\ at[R] = "ready" /\ Gets(R, "Ready") /\ Go(R, "idle")
  /\ Remember(R, Arg(R)) /\ Reply(R, <<>>)
  /\ UNCHANGED <<users, signals, startup, scan, theirs, cycle, beats, failures>>

----------------------------------------------------------------------------
(* The responder between rounds.                                           *)

Notice ==
  /\ at[R] = "idle" /\ token /\ token' = FALSE /\ due' = Set(due, R, TRUE)
  /\ UNCHANGED <<users, event, ahead, remoteAhead, at, round, wire, open, beats, failures>>

Advertise ==
  /\ at[R] = "idle" /\ ahead[R] /\ due[R] /\ Len(wire[C]) < MaxQueued
  /\ ahead' = Set(ahead, R, FALSE) /\ due' = Set(due, R, FALSE)
  /\ Say(R, <<Frame("Changed")>>)
  /\ UNCHANGED <<users, event, token, remoteAhead, at, round, beats, failures>>

AnswerPing ==
  /\ at[R] = "idle" /\ Gets(R, "Ping") /\ Reply(R, <<FrameOf("Pong", Arg(R))>>)
  /\ UNCHANGED <<users, signals, at, round, beats, failures>>

(* Its watcher has lost events: it says so, and ends.                      *)
LoseWatcher ==
  /\ at[R] = "idle" /\ Spare /\ failures' = failures + 1
  /\ Leaves(R) /\ open' = FALSE
  /\ wire' = [e \in Ends |->
                IF e = C /\ open THEN Append(wire[C], Frame("Error"))
                ELSE IF e = C THEN wire[C] ELSE <<>>]
  /\ UNCHANGED <<users, startup, unsettled, pings>>

----------------------------------------------------------------------------
(* The connector between rounds.                                           *)

Schedule ==
  /\ at[C] = "idle" /\ (ahead[C] \/ remoteAhead)
  /\ ahead' = Set(ahead, C, FALSE) /\ remoteAhead' = FALSE /\ due' = Set(due, C, TRUE)
  /\ UNCHANGED <<users, event, token, at, round, wire, open, beats, failures>>

Begin ==
  /\ at[C] = "idle" /\ Go(C, "reserving") /\ Say(C, <<Frame("Reserve")>>)
  /\ UNCHANGED <<users, event, ahead, token, remoteAhead, round, beats, failures>>

RoundDue == due[C] /\ due' = Set(due, C, FALSE) /\ Begin

(* AuditSchedule: every 15 minutes.                                        *)
Audit == UNCHANGED due /\ Begin

Ping ==
  /\ at[C] = "idle" /\ awaiting = 0 /\ Spare
  /\ pings' = pings + 1 /\ awaiting' = pings + 1
  /\ Say(C, <<FrameOf("Ping", pings + 1)>>)
  /\ UNCHANGED <<users, signals, at, round, failures>>

HearPong ==
  /\ at[C] = "idle" /\ Gets(C, "Pong") /\ Arg(C) = awaiting /\ awaiting' = 0
  /\ Reply(C, <<>>)
  /\ UNCHANGED <<users, signals, at, round, pings, failures>>

HearChanged ==
  /\ at[C] = "idle" /\ Gets(C, "Changed") /\ remoteAhead' = TRUE /\ Reply(C, <<>>)
  /\ UNCHANGED <<users, event, ahead, token, due, at, round, beats, failures>>

----------------------------------------------------------------------------
(* A round, up to the plan.                                                *)

Drain ==
  /\ at[C] = "reserving" /\ \E type \in Drained : Gets(C, type)
  /\ remoteAhead' = (remoteAhead \/ Gets(C, "Changed")) /\ Reply(C, <<>>)
  /\ UNCHANGED <<users, event, ahead, token, due, at, round, beats, failures>>

ServeRound ==
  /\ at[R] = "idle" /\ Gets(R, "Reserve") /\ Go(R, "reserved") /\ Reply(R, <<Frame("Reserved")>>)
  /\ UNCHANGED <<users, signals, round, beats, failures>>

(* What the other end's users write it takes from their scan.              *)
Own(e)     == [p \in Paths |-> IF OwnerOf[p] = e THEN disk[e][p] ELSE 0]
Refresh(e) == scan' = Set(scan, e, Own(e))

ResponderScans ==
  /\ at[R] = "reserved" /\ Go(R, "serving") /\ Refresh(R)
  /\ Say(R, <<FrameOf("Snapshot", scan'[R])>>)
  /\ UNCHANGED <<users, signals, startup, theirs, cycle, unsettled, beats, failures>>

ConnectorScans ==
  /\ at[C] = "reserving" /\ Gets(C, "Reserved") /\ Go(C, "scanned") /\ Refresh(C)
  /\ Reply(C, <<>>)
  /\ UNCHANGED <<users, signals, startup, theirs, cycle, unsettled, beats, failures>>

Step(e, p, type, q, frames) ==
  /\ at[e] = p /\ Gets(e, type) /\ Go(e, q) /\ Reply(e, frames)

ConnectorPlans ==
  /\ Step(C, "scanned", "Snapshot", "objects", <<Frame("Need")>>)
  /\ theirs' = Set(theirs, C, Arg(C))
  /\ UNCHANGED <<users, signals, startup, scan, cycle, unsettled, beats, failures>>

ConnectorFetches ==
  /\ \/ Step(C, "objects", "Done", "proposed", <<FrameOf("Plan", scan[C])>>)
     \/ Step(C, "proposed", "Need", "applying", <<Frame("Done")>>)
  /\ UNCHANGED <<users, signals, round, beats, failures>>

ServeNeed ==
  /\ Step(R, "serving", "Need", "planning", <<Frame("Done")>>)
  /\ UNCHANGED <<users, signals, round, beats, failures>>

ServePlan ==
  /\ Step(R, "planning", "Plan", "apply", <<Frame("Need")>>)
  /\ theirs' = Set(theirs, R, Arg(R))
  /\ UNCHANGED <<users, signals, startup, scan, cycle, unsettled, beats, failures>>

----------------------------------------------------------------------------
(* Applying the plan, at one end and then at the other.                    *)

(* effective_plan: what is deferred is retained.                           *)
Planned(e) == Paths \ cycle[e].deferred

(* The paths that are no longer what the plan found them to be.            *)
Changed(e) == {p \in Planned(e) : OwnerOf[p] = e /\ disk[e][p] # scan[e][p]}

(* The other paths become what the other end scanned.                      *)
Install(e, ps) ==
  /\ disk' = [disk EXCEPT ![e] = [p \in Paths |->
                IF p \in ps /\ OwnerOf[p] # e THEN theirs[e][p] ELSE disk[e][p]]]
  /\ event' = Set(event, e, (event[e] \/ disk'[e] # disk[e]))

(* InvalidationCycle::observe: the first path is tried again.              *)
(* Mutant: so is every other.                                              *)
ObserveRetry(c, p) == [c EXCEPT !.retried = TRUE]

Observe(c, p) ==
  IF c.retried THEN [c EXCEPT !.deferred = @ \cup {p}] ELSE [c EXCEPT !.retried = TRUE]

(* Mutant: the invalidated path is not kept as unsettled.                  *)
InvalidatedOnly(e, p) == cycle' = [cycle EXCEPT ![e] = Observe(@, p)] /\ UNCHANGED unsettled

Invalidated(e, p) == Remember(e, {p}) /\ cycle' = [cycle EXCEPT ![e] = Observe(@, p)]

(* accepts_invalidation                                                    *)
Accepts(e, p) == p \in Planned(e)

(* The apply of one end stops at the first path that has changed; those    *)
(* before it are installed.                                                *)
Stops(e, k) ==
  LET before == {Order[j] : j \in 1 .. k - 1}
  IN  /\ Order[k] \in Changed(e) /\ before \cap Changed(e) = {}
      /\ Install(e, before \cap Planned(e)) /\ Invalidated(e, Order[k])

Applies(e) == Changed(e) = {} /\ Install(e, Planned(e))

(* Mutant: every completed round settles every path.                       *)
SettlesAll(e) == unsettled' = Set(unsettled, e, {})

Settles(e) ==
  unsettled' = IF cycle[e].deferred = {} THEN Set(unsettled, e, {}) ELSE unsettled

ResponderApplies ==
  /\ Step(R, "apply", "Done", "applied", <<Frame("Applied")>>) /\ Applies(R)
  /\ UNCHANGED <<edits, ahead, token, due, remoteAhead, round, beats, failures>>

ResponderStops ==
  /\ \E k \in DOMAIN Order :
       /\ Step(R, "apply", "Done", "idle", <<FrameOf("Invalidated", Order[k])>>)
       /\ Stops(R, k)
  /\ Forget(R)
  /\ UNCHANGED <<edits, ahead, token, due, remoteAhead, startup, beats, failures>>

(* Another round, in the same call.                                        *)
ConnectorRetries ==
  /\ Step(C, "applying", "Invalidated", "reserving", <<Frame("Reserve")>>)
  /\ Accepts(C, Arg(C)) /\ Invalidated(C, Arg(C))
  /\ Forget(C)
  /\ UNCHANGED <<users, signals, startup, beats, failures>>

ConnectorStops ==
  /\ \E k \in DOMAIN Order :
       /\ Step(C, "applying", "Applied", "reserving",
               <<FrameOf("Invalidated", Order[k]), Frame("Reserve")>>)
       /\ Stops(C, k)
  /\ Forget(C)
  /\ UNCHANGED <<edits, ahead, token, due, remoteAhead, startup, beats, failures>>

(* After the startup round the generation R advertised counts as scheduled.*)
ConnectorCompletes ==
  /\ Step(C, "applying", "Applied", "idle", <<Frame("Finished")>>)
  /\ Applies(C) /\ Settles(C) /\ cycle' = Set(cycle, C, NewCycle)
  /\ remoteAhead' = (remoteAhead /\ ~startup) /\ startup' = FALSE /\ awaiting' = 0
  /\ Forget(C)
  /\ UNCHANGED <<edits, ahead, token, due, pings, failures>>

(* Mutant: the cycle of the responder goes on.                             *)
SameCycle(c) == c

NextCycle(c) == NewCycle

ResponderCompletes ==
  /\ Step(R, "applied", "Finished", "idle", <<>>) /\ Settles(R)
  /\ cycle' = [cycle EXCEPT ![R] = NextCycle(@)]
  /\ Forget(R)
  /\ UNCHANGED <<users, signals, startup, beats, failures>>

ResponderRetries ==
  /\ Step(R, "applied", "Invalidated", "idle", <<>>)
  /\ Accepts(R, Arg(R)) /\ Invalidated(R, Arg(R))
  /\ Forget(R)
  /\ UNCHANGED <<users, signals, startup, beats, failures>>

----------------------------------------------------------------------------
(* The connection breaks; an end that reads on has its last frames.        *)

Break ==
  /\ open /\ Spare /\ failures' = failures + 1 /\ open' = FALSE
  /\ \E n \in 0 .. Len(wire[C]), m \in 0 .. Len(wire[R]) :
       wire' = [e \in Ends |-> SubSeq(wire[e], 1, IF e = C THEN n ELSE m)]
  /\ UNCHANGED <<users, signals, at, round, beats>>

(* An end leaves, at the end of its input or on an error of the other.     *)
End(e) ==
  /\ at[e] # "off" /\ ~open /\ wire[e] = <<>> /\ Leaves(e)
  /\ UNCHANGED <<users, startup, unsettled, wire, open, pings, failures>>

HearError ==
  /\ at[C] # "off" /\ Gets(C, "Error") /\ Leaves(C) /\ Reply(C, <<>>)
  /\ UNCHANGED <<users, startup, unsettled, pings, failures>>

----------------------------------------------------------------------------

ConnectorReads ==
  \/ ConnectorReady \/ HearPong \/ HearChanged \/ Drain \/ ConnectorScans \/ ConnectorPlans
  \/ ConnectorFetches \/ ConnectorRetries \/ ConnectorStops \/ ConnectorCompletes \/ HearError

ResponderReads ==
  \/ Accept \/ ResponderReady \/ AnswerPing \/ ServeRound \/ ServeNeed \/ ServePlan
  \/ ResponderApplies \/ ResponderStops \/ ResponderCompletes \/ ResponderRetries

(* The frame that has come is one the end takes.                           *)
Understands(e) ==
  /\ Head(wire[e]).type \in Expected(e)
  /\ at[e] = "idle" /\ Gets(e, "Pong") => Arg(e) = awaiting
  /\ Gets(e, "Invalidated") => Accepts(e, Arg(e))

Connects == Connect \/ ConnectorReads \/ Schedule \/ RoundDue \/ End(C)
Responds == ResponderReads \/ Notice \/ Advertise \/ ResponderScans \/ End(R)

Next ==
  \/ \E p \in Paths : Write(p)
  \/ \E e \in Ends : Deliver(e)
  \/ Connects \/ Responds \/ Audit \/ Ping \/ LoseWatcher \/ Break

Spec == Init /\ [][Next]_vars

(* Both processes keep going, watchers report, and the audit comes round.  *)
FairSpec ==
  /\ Spec
  /\ WF_vars(Connect) /\ WF_vars(ConnectorReads) /\ WF_vars(Schedule) /\ WF_vars(RoundDue)
  /\ WF_vars(ResponderReads) /\ WF_vars(Notice) /\ WF_vars(Advertise) /\ WF_vars(ResponderScans)
  /\ WF_vars(Audit) /\ \A e \in Ends : WF_vars(Deliver(e)) /\ WF_vars(End(e))

----------------------------------------------------------------------------
(* Properties.                                                             *)

(* No end meets a frame it takes for a protocol error, which would end the *)
(* watch for good: neither advertisements and pongs that cross the start   *)
(* of a round, nor an invalidated path the two ends do not agree about.    *)
NoProtocolError ==
  \A e \in Ends :
    at[e] \notin {"off", "reserved"} /\ wire[e] # <<>> => Understands(e)

(* Both ends leave out the same paths of a plan they apply, so that what   *)
(* is acknowledged as shared is what both have.                            *)
DeferredAgree ==
  at[C] = "applying" /\ at[R] \in {"apply", "applied"} =>
    Planned(C) = Planned(R)

(* A path that is left out is one that status reports as unsettled.        *)
DeferredUnsettled == \A e \in Ends : cycle[e].deferred \subseteq unsettled[e]

(* Nothing is on its way, at either end, that would start a round.         *)
Quiet ==
  /\ at = [e \in Ends |-> "idle"] /\ wire = [e \in Ends |-> <<>>] /\ open
  /\ event = [e \in Ends |-> FALSE] /\ ~(ahead[R] /\ (token \/ due[R]))
  /\ ~ahead[C] /\ ~due[C] /\ ~remoteAhead

(* When nothing is left to do, what the ends do not have in common is      *)
(* reported as unsettled, by both.                                         *)
QuietTold ==
  Quiet => \A p \in Paths :
             disk[C][p] = disk[R][p] \/ \A e \in Ends : p \in unsettled[e]

(* docs/2026-07-24-persistent-watch-protocol-design.org:196: work remains  *)
(* pending exactly when a generation is newer than the completed one; a    *)
(* callback racing a round cannot be erased.                               *)
QuietDone == Quiet => disk[C] = disk[R]

(* A path that is written all the time does not keep the changes of the    *)
(* others from reaching the other end.                                     *)
StablePathsContinue ==
  <>[](\A p \in Paths \ Hot : disk[C][p] = disk[R][p])
============================================================================
