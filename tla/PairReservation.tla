--------------------------- MODULE PairReservation ---------------------------
(***************************************************************************)
(* Reserving the installation slots of two peers for one synchronization   *)
(* (reserve_as_authority and reserve_as_higher_peer in src/src/main.rs,    *)
(* and the paired rows of sync_queue in src/src/state.rs).                 *)
(*                                                                         *)
(* Each installation has one slot, and a line of requests for it.  A       *)
(* request of a pair is not a candidate for the slot until both ends have  *)
(* prepared and committed it; the end with the lower peer identity, the    *)
(* authority, numbers the pairs, and takes its slot first.  What happens   *)
(* after the commit stands under a lease.  The rows of a process that dies *)
(* stay in the line until somebody sweeps them.                            *)
(*                                                                         *)
(* In place of its ticket, a row knows the rows ahead of it (module        *)
(* SyncQueue has tickets, owner files and locks).  The two ends exchange   *)
(* one message at a time, so the connection holds at most one.  Identities *)
(* and nonces, which bind messages to their connection, are left out with  *)
(* the reports of queue positions that keep a connection alive.            *)
(***************************************************************************)
EXTENDS Naturals

CONSTANTS
  Peers,      \* installations, numbered in the order of their identities
  Pairs,      \* relationships, of two installations each
  Low, High,  \* functions to the lower and the higher end of a pair
  Connector,  \* function to the end that connects
  Managed,    \* pairs whose connecting end is watched by the daemon
  Mortal,     \* ends <<pair, installation>> whose process may die,
  DiesIn,     \* and in which phases
  Locals,     \* requests that need no peer
  At,         \* function to the installation of a local request
  MaxResets,  \* MAX_PAIR_RESETS
  MaxOrder,   \* bound on the numbers an authority gives
  MaxCrashes, \* bound on the processes that die
  None

ASSUME PairsAreOrdered ==
  /\ Peers \subseteq Nat
  /\ Low \in [Pairs -> Peers] /\ High \in [Pairs -> Peers]
  /\ \A s \in Pairs : Low[s] < High[s] /\ Connector[s] \in {Low[s], High[s]}
  /\ Managed \subseteq Pairs
  /\ At \in [Locals -> Peers] /\ MaxResets \in Nat /\ MaxOrder \in Nat /\ MaxCrashes \in Nat

PairRow(s)     == [kind |-> "pair", of |-> s]
RecoveryRow(s) == [kind |-> "recovery", of |-> s]
LocalRow(l)    == [kind |-> "local", of |-> l]
Requests == [kind : {"pair", "recovery"}, of : Pairs] \cup [kind : {"local"}, of : Locals]

ASSUME NoneIsNoRequest == None \notin Requests

Ends(s)  == {Low[s], High[s]}

VARIABLES
  line,    \* the rows of each installation: a function on the requests in line
  active,  \* the request that has the slot
  intent,  \* installations with an unclassified install intent
  yielded, \* pairs an installation does not let in for a while
  phase,   \* what each end of each pair is doing
  wire,    \* the message between the ends
  closed,  \* pairs whose connection one end has given up
  resets,
  local,   \* what each local request is doing
  crashes

tables  == <<line, active, intent, yielded>>
session == <<phase, wire, closed, resets>>
vars    == <<tables, session, local, crashes>>

NoMessage == [type |-> "none", order |-> 0]

NewRow(state, order, acked) ==
  [state |-> state, order |-> order, acked |-> acked, dead |-> FALSE, ahead |-> {}]

Blank == NewRow("single", 0, FALSE)

Init ==
  /\ line = [p \in Peers |-> [r \in {} |-> Blank]] /\ active = [p \in Peers |-> None]
  /\ intent = {} /\ yielded = [p \in Peers |-> {}]
  /\ phase = [s \in Pairs |-> [p \in Ends(s) |-> "idle"]]
  /\ wire = [s \in Pairs |-> NoMessage] /\ closed = {}
  /\ resets = [s \in Pairs |-> 0]
  /\ local = [l \in Locals |-> "idle"] /\ crashes = 0

----------------------------------------------------------------------------
(* The line of an installation.  A row has the state of its pair: "single" *)
(* (the column is empty), "pending", "parked", "prepared" or "eligible".   *)

InLine(p)    == DOMAIN line[p]
Live(p)      == {r \in InLine(p) : ~line[p][r].dead}
Dead(p)      == InLine(p) \ Live(p)
Authority(s) == Low[s]

Before(p, q, r) == q \in line[p][r].ahead
Eligible(p, r)  == line[p][r].state = "eligible"
Numbered(p, r)  == line[p][r].state \in {"parked", "prepared", "eligible"}

OfAuthority(p, r, s) == Numbered(p, r) /\ Authority(r.of) = Authority(s)

(* The eligible row of its authority with the lowest order.                *)
IsAuthorityHead(p, r) ==
  ~\E q \in InLine(p) :
     /\ Eligible(p, q) /\ OfAuthority(p, q, r.of)
     /\ \/ line[p][q].order < line[p][r].order
        \/ line[p][q].order = line[p][r].order /\ Before(p, q, r)

(* eligible_candidates                                                     *)
Candidates(p) ==
  {r \in InLine(p) :
     line[p][r].state = "single" \/ (Eligible(p, r) /\ IsAuthorityHead(p, r))}

(* eligible_predecessors, of a row of a pair                               *)
Predecessors(p, r) ==
  {q \in Candidates(p) \ {r} :
     Before(p, q, r) \/ (OfAuthority(p, q, r.of) /\ line[p][q].order < line[p][r].order)}

Ready(p, s)  == active[p] = None /\ Predecessors(p, PairRow(s)) = {}
IsHead(p, r) == r \in Candidates(p) /\ ~\E q \in Candidates(p) : Before(p, q, r)

(* Rows leave the line, and the slot if they have it.                      *)
Cleared(p, R) == [active EXCEPT ![p] = IF @ \in R THEN None ELSE @]
Passed(row, R) == [row EXCEPT !.ahead = @ \ R]

Leaving(p, R) ==
  /\ line' = [line EXCEPT ![p] = [r \in InLine(p) \ R |-> Passed(line[p][r], R)]]
  /\ active' = Cleared(p, R)

Release(p, R) == Leaving(p, R \cap Live(p))

(* cleanup_stale_sync_queue                                                *)
SweepDead(p) == Leaving(p, Dead(p))

(* The sweep, then the new row at the end of the line.                     *)
Enter(p, r, row) ==
  /\ line' = [line EXCEPT ![p] = [q \in Live(p) \cup {r} |->
                IF q = r THEN [row EXCEPT !.ahead = Live(p)]
                         ELSE Passed(line[p][q], Dead(p))]]
  /\ active' = Cleared(p, Dead(p))

(* A row changes, and keeps its place.                                     *)
Change(p, r, row) ==
  line' = [line EXCEPT ![p][r] = [row EXCEPT !.ahead = line[p][r].ahead]]

Alter(p, r, row) == Change(p, r, row) /\ UNCHANGED active

Become(s, p, state) ==
  Alter(p, PairRow(s), [line[p][PairRow(s)] EXCEPT !.state = state])

(* A later completion, or the time, ends a yield.                          *)
Complete(p)      == yielded' = [yielded EXCEPT ![p] = {}]
MayEnter(p, s)   == s \notin yielded[p]

Go(s, p, ph)     == phase' = [phase EXCEPT ![s][p] = ph]
Send(s, type)    == wire' = [wire EXCEPT ![s] = [type |-> type, order |-> 0]]
Receive(s, type) == wire[s].type = type
Quiet(s)         == wire' = [wire EXCEPT ![s] = NoMessage]

----------------------------------------------------------------------------
(* Giving up: the rows of the process go, and the connection; after the    *)
(* commit the relationship yields.                                         *)

(* Mutant: the lease counts from the reservation, not from the commit.     *)
LeasedOnceReserved(ph) == ph \in {"reserved", "started"}

Leased(ph)  == ph \in {"committed", "reserved", "started"}
OwnRows(s)  == {PairRow(s), RecoveryRow(s)}

ForLow  == {"PendingAuthority", "ProxyAck", "PairPrepareAck", "PairResetAck",
            "PairCommitAck", "SyncStart"}
ForHigh == {"ProxyIssue", "PairPrepare", "PairReset", "PairCommit",
            "SyncReserved", "SyncAccepted"}
Incoming(s, p) == wire[s].type \in (IF p = Low[s] THEN ForLow ELSE ForHigh)

(* An end that has no session takes an opening message.                    *)
Opens(s, p) ==
  \/ p = Low[s] /\ Receive(s, "PendingAuthority")
  \/ p = High[s] /\ Connector[s] = Low[s] /\ Receive(s, "ProxyIssue")

(* The other end finds the connection closed, after a message that is on   *)
(* its way or before; when it has no session and none opens, nothing is    *)
(* left of the connection.                                                 *)
Hangup(s, p) ==
  LET over == \A q \in Ends(s) \ {p} : phase[s][q] \in {"idle", "managed"} /\ ~Opens(s, q)
  IN  /\ Go(s, p, "idle")
      /\ closed' = IF over THEN closed \ {s} ELSE closed \cup {s}
      /\ IF over \/ Incoming(s, p) THEN Quiet(s) ELSE UNCHANGED wire
      /\ resets' = [resets EXCEPT ![s] = IF p = Low[s] THEN 0 ELSE @]

Leave(s, p) ==
  /\ Hangup(s, p) /\ Release(p, OwnRows(s))
  /\ UNCHANGED <<intent, local, crashes>>

Yields(s, p) == yielded' = [yielded EXCEPT ![p] = @ \cup {s}]

GiveUp(s, p) ==
  /\ Leave(s, p)
  /\ IF Leased(phase[s][p]) THEN Yields(s, p) ELSE UNCHANGED yielded

(* The lease expires, or the other end is gone.                            *)
LeaseExpires(s, p) == Leased(phase[s][p]) /\ GiveUp(s, p)

Disconnected(s, p) ==
  /\ s \in closed /\ phase[s][p] \notin {"idle", "managed", "running"}
  /\ GiveUp(s, p)

----------------------------------------------------------------------------
(* A connection.  The daemon puts the request of its first round in the    *)
(* line before it connects, and gives it to the first round that reaches   *)
(* the reservation; any other request is made there.                       *)

(* start_managed_share, reconcile_watches: a row that a process has left   *)
(* behind is claimed in its place.                                         *)
ManagedEnqueue(s) ==
  LET p == Connector[s]
  IN  /\ s \in Managed /\ phase[s][p] = "idle"
      /\ \/ /\ PairRow(s) \in InLine(p)
            /\ Change(p, PairRow(s), Blank) /\ active' = Cleared(p, {PairRow(s)})
         \/ PairRow(s) \notin InLine(p) /\ Enter(p, PairRow(s), Blank)
      /\ Go(s, p, "managed")
      /\ UNCHANGED <<intent, yielded, wire, closed, resets, local, crashes>>

(* stop_and_cancel_managed_sync                                            *)
ManagedStop(s) ==
  LET p == Connector[s]
  IN  /\ phase[s][p] = "managed"
      /\ Release(p, OwnRows(s)) /\ Go(s, p, "idle")
      /\ UNCHANGED <<intent, yielded, wire, closed, resets, local, crashes>>

(* The connecting end reaches the reservation: the other end serves it, and*)
(* nothing is left of an earlier connection.                               *)
Connects(s) ==
  /\ phase[s][Connector[s]] \in {"idle", "managed"}
  /\ \A p \in Ends(s) \ {Connector[s]} : phase[s][p] = "idle"
  /\ closed' = closed \ {s}

(* The row of the round, new or converted.                                 *)
NewPlace(s, p, row) ==
  \/ phase[s][p] = "managed" /\ Alter(p, PairRow(s), row)
  \/ phase[s][p] # "managed" /\ Enter(p, PairRow(s), row)

(* The conversion is refused: the request is dropped.                      *)
ManagedRefused(s) ==
  LET p == Connector[s]
  IN  /\ phase[s][p] = "managed" /\ ~MayEnter(p, s)
      /\ Leave(s, p) /\ UNCHANGED yielded

(* One more than the highest number in the table, which may be the number  *)
(* of a pair that has left it.                                             *)
IsNextOrder(p, s, n) ==
  LET rows   == IF phase[s][p] = "managed" THEN InLine(p) ELSE Live(p)
      orders == {line[p][r].order : r \in {q \in rows : OfAuthority(p, q, s)}}
  IN  (n = 1 \/ n - 1 \in orders) /\ \A m \in orders : m < n

----------------------------------------------------------------------------
(* The authority.                                                          *)

(* enqueue_authoritative_sync, convert_managed_to_authoritative_parked     *)
LowNumbers(s) ==
  LET p == Low[s]
  IN  /\ MayEnter(p, s)
      /\ \E n \in 1 .. MaxOrder :
           IsNextOrder(p, s, n) /\ NewPlace(s, p, NewRow("parked", n, FALSE))
      /\ Go(s, p, "publish") /\ Quiet(s)
      /\ UNCHANGED <<intent, yielded, resets, local, crashes>>

LowConnects(s) == Connector[s] = Low[s] /\ Connects(s) /\ LowNumbers(s)

LowAccepts(s) ==
  /\ phase[s][Low[s]] = "idle" /\ Opens(s, Low[s])
  /\ LowNumbers(s) /\ UNCHANGED closed

LowRefuses(s) ==
  /\ phase[s][Low[s]] = "idle" /\ Opens(s, Low[s]) /\ ~MayEnter(Low[s], s)
  /\ closed' = (IF phase[s][High[s]] = "submitted" THEN closed \cup {s} ELSE closed \ {s})
  /\ Quiet(s)
  /\ UNCHANGED <<tables, phase, resets, local, crashes>>

(* next_unacknowledged_proxy: one proxy at a time, in the order of numbers.*)
(* Mutant: as they come.                                                   *)
IsNextProxyAlways(s) == TRUE

IsNextProxy(s) ==
  LET row == line[Low[s]]
  IN  ~\E r \in InLine(Low[s]) :
        Numbered(Low[s], r) /\ ~row[r].acked /\ row[r].order < row[PairRow(s)].order

LowPublish(s) ==
  /\ phase[s][Low[s]] = "publish" /\ IsNextProxy(s)
  /\ wire' = [wire EXCEPT ![s] =
                [type |-> "ProxyIssue", order |-> line[Low[s]][PairRow(s)].order]]
  /\ Go(s, Low[s], "issued")
  /\ UNCHANGED <<tables, closed, resets, local, crashes>>

(* What a step of the session leaves alone.                                *)
Rest == UNCHANGED <<intent, yielded, closed, local, crashes>>

LowAcknowledged(s) ==
  /\ phase[s][Low[s]] = "issued" /\ Receive(s, "ProxyAck") /\ Quiet(s)
  /\ Alter(Low[s], PairRow(s), [line[Low[s]][PairRow(s)] EXCEPT !.acked = TRUE])
  /\ Go(s, Low[s], "prepare") /\ Rest /\ UNCHANGED resets

LowPrepare(s) ==
  /\ phase[s][Low[s]] = "prepare" /\ Ready(Low[s], s)
  /\ Become(s, Low[s], "prepared") /\ Go(s, Low[s], "prepared") /\ Send(s, "PairPrepare")
  /\ Rest /\ UNCHANGED resets

(* recover_before_pair: a request of its own for the slot.                 *)
EnterRecovery(s, p) ==
  Enter(p, RecoveryRow(s), Blank) /\ Go(s, p, "recover")

LowPrepareAcked(s) ==
  /\ phase[s][Low[s]] = "prepared" /\ Receive(s, "PairPrepareAck") /\ Quiet(s)
  /\ EnterRecovery(s, Low[s]) /\ Rest /\ UNCHANGED resets

(* The request gets the slot, recovers, and completes.                     *)
Recovered(s, p) ==
  /\ phase[s][p] = "recover"
  /\ active[p] = None /\ IsHead(p, RecoveryRow(s))
  /\ Release(p, {RecoveryRow(s)}) /\ Complete(p)
  /\ intent' = intent \ {p}
  /\ UNCHANGED <<closed, resets, local, crashes>>

LowRecovered(s) == Recovered(s, Low[s]) /\ Go(s, Low[s], "commit") /\ UNCHANGED wire

(* commit_paired_sync: the row is still first, and nothing to recover.     *)
(* Mutant: what the row found when it was prepared is not looked at again. *)
MayCommitUnchecked(p, s) == p \notin intent

MayCommit(p, s) == Ready(p, s) /\ p \notin intent

LowCommit(s) ==
  /\ phase[s][Low[s]] = "commit" /\ MayCommit(Low[s], s)
  /\ Become(s, Low[s], "eligible") /\ Go(s, Low[s], "committed") /\ Send(s, "PairCommit")
  /\ Rest /\ UNCHANGED resets

LowReset(s) ==
  /\ phase[s][Low[s]] = "commit" /\ ~MayCommit(Low[s], s) /\ resets[s] < MaxResets
  /\ Become(s, Low[s], "parked") /\ Go(s, Low[s], "resetting") /\ Send(s, "PairReset")
  /\ resets' = [resets EXCEPT ![s] = @ + 1] /\ Rest

(* note_pair_reset                                                         *)
LowTooManyResets(s) ==
  /\ phase[s][Low[s]] = "commit" /\ ~MayCommit(Low[s], s) /\ resets[s] = MaxResets
  /\ GiveUp(s, Low[s])

LowResetAcked(s) ==
  /\ phase[s][Low[s]] = "resetting" /\ Receive(s, "PairResetAck") /\ Quiet(s)
  /\ Go(s, Low[s], "prepare") /\ UNCHANGED <<line, active, resets>> /\ Rest

(* wait_for_paired_permit, with the other end's answer in hand: recovery is*)
(* only checked.                                                           *)
Activate(s, p) ==
  /\ phase[s][p] = "committed"
  /\ active[p] = None /\ IsHead(p, PairRow(s)) /\ p \notin intent
  /\ active' = [active EXCEPT ![p] = PairRow(s)]
  /\ Rest /\ UNCHANGED <<line, resets>>

LowActivate(s) ==
  /\ Receive(s, "PairCommitAck") /\ Activate(s, Low[s])
  /\ Go(s, Low[s], "reserved") /\ Send(s, "SyncReserved")

LowStarts(s) ==
  /\ phase[s][Low[s]] = "reserved" /\ Receive(s, "SyncStart")
  /\ Go(s, Low[s], "running") /\ Send(s, "SyncAccepted")
  /\ UNCHANGED <<line, active, resets>> /\ Rest

----------------------------------------------------------------------------
(* The higher end.                                                         *)

(* enqueue_pending_authority, convert_managed_to_pending_authority         *)
HighConnects(s) ==
  LET p == High[s]
  IN  /\ Connector[s] = p /\ Connects(s) /\ MayEnter(p, s)
      /\ NewPlace(s, p, NewRow("pending", 0, FALSE))
      /\ Go(s, p, "submitted") /\ Send(s, "PendingAuthority")
      /\ UNCHANGED <<intent, yielded, resets, local, crashes>>

(* The index on authority and number admits one row of each.               *)
OrderIsFree(s, rows) ==
  ~\E q \in rows :
     OfAuthority(High[s], q, s) /\ line[High[s]][q].order = wire[s].order

ProxyRow(s) == NewRow("parked", wire[s].order, TRUE)

(* convert_pending_authority_to_parked: the row keeps its ticket.          *)
HighConvert(s) ==
  /\ phase[s][High[s]] = "submitted" /\ Receive(s, "ProxyIssue")
  /\ MayEnter(High[s], s) /\ OrderIsFree(s, InLine(High[s]))
  /\ Alter(High[s], PairRow(s), ProxyRow(s))
  /\ Go(s, High[s], "acked") /\ Send(s, "ProxyAck") /\ Rest /\ UNCHANGED resets

(* enqueue_parked_proxy                                                    *)
HighAccepts(s) ==
  /\ phase[s][High[s]] = "idle" /\ Opens(s, High[s])
  /\ MayEnter(High[s], s) /\ OrderIsFree(s, Live(High[s]))
  /\ Enter(High[s], PairRow(s), ProxyRow(s))
  /\ Go(s, High[s], "acked") /\ Send(s, "ProxyAck") /\ Rest /\ UNCHANGED resets

HighRefuses(s) ==
  /\ Receive(s, "ProxyIssue")
  /\ \/ phase[s][High[s]] = "submitted"
        /\ ~(MayEnter(High[s], s) /\ OrderIsFree(s, InLine(High[s])))
     \/ phase[s][High[s]] = "idle" /\ Opens(s, High[s])
        /\ ~(MayEnter(High[s], s) /\ OrderIsFree(s, Live(High[s])))
  /\ Leave(s, High[s]) /\ UNCHANGED yielded

HighPrepare(s) ==
  /\ phase[s][High[s]] = "acked" /\ Receive(s, "PairPrepare") /\ Ready(High[s], s)
  /\ Become(s, High[s], "prepared") /\ Go(s, High[s], "prepared") /\ Quiet(s)
  /\ Rest /\ UNCHANGED resets

HighRecovers(s) ==
  /\ phase[s][High[s]] = "prepared"
  /\ EnterRecovery(s, High[s]) /\ Rest /\ UNCHANGED <<wire, resets>>

HighRecovered(s) ==
  Recovered(s, High[s]) /\ Go(s, High[s], "answered") /\ Send(s, "PairPrepareAck")

HighReset(s) ==
  /\ phase[s][High[s]] = "answered" /\ Receive(s, "PairReset")
  /\ Become(s, High[s], "parked") /\ Go(s, High[s], "acked") /\ Send(s, "PairResetAck")
  /\ Rest /\ UNCHANGED resets

HighCommit(s) ==
  /\ phase[s][High[s]] = "answered" /\ Receive(s, "PairCommit") /\ MayCommit(High[s], s)
  /\ Become(s, High[s], "eligible") /\ Go(s, High[s], "committed") /\ Send(s, "PairCommitAck")
  /\ Rest /\ UNCHANGED resets

HighCommitFails(s) ==
  /\ phase[s][High[s]] = "answered" /\ Receive(s, "PairCommit") /\ ~MayCommit(High[s], s)
  /\ Leave(s, High[s]) /\ Yields(s, High[s])

(* Mutant: the higher end goes for its slot without waiting for the lower. *)
HighActivateEarly(s) ==
  Activate(s, High[s]) /\ Go(s, High[s], "started") /\ Send(s, "SyncStart")

HighActivate(s) ==
  /\ Receive(s, "SyncReserved") /\ Activate(s, High[s])
  /\ Go(s, High[s], "started") /\ Send(s, "SyncStart")

HighRuns(s) ==
  /\ phase[s][High[s]] = "started" /\ Receive(s, "SyncAccepted") /\ Quiet(s)
  /\ Go(s, High[s], "running") /\ UNCHANGED <<line, active, resets>> /\ Rest

----------------------------------------------------------------------------
(* The session, local requests, sweeps and deaths.                         *)

(* The permit is finished, or dropped with the session.                    *)
Finish(s, p) ==
  /\ phase[s][p] = "running" /\ Leave(s, p)
  /\ Complete(p) \/ UNCHANGED yielded

LocalEnqueue(l) ==
  /\ local[l] = "idle"
  /\ Enter(At[l], LocalRow(l), Blank)
  /\ local' = [local EXCEPT ![l] = "waiting"]
  /\ UNCHANGED <<intent, yielded, session, crashes>>

(* An install intent is recovered before the permit is given.              *)
LocalActivate(l) ==
  /\ local[l] = "waiting" /\ active[At[l]] = None /\ IsHead(At[l], LocalRow(l))
  /\ active' = [active EXCEPT ![At[l]] = LocalRow(l)]
  /\ local' = [local EXCEPT ![l] = "active"] /\ intent' = intent \ {At[l]}
  /\ UNCHANGED <<line, yielded, session, crashes>>

LocalFinish(l) ==
  /\ local[l] = "active"
  /\ Release(At[l], {LocalRow(l)}) /\ Complete(At[l])
  /\ local' = [local EXCEPT ![l] = "idle"]
  /\ UNCHANGED <<intent, session, crashes>>

(* Somebody who waits looks for dead rows from time to time.               *)
Waits(p) ==
  \/ \E s \in Pairs : p \in Ends(s) /\ phase[s][p] \in {"publish", "acked", "prepare", "recover", "committed"}
  \/ \E l \in Locals : At[l] = p /\ local[l] = "waiting"

Sweep(p) ==
  /\ Waits(p) /\ Dead(p) # {}
  /\ SweepDead(p)
  /\ UNCHANGED <<intent, yielded, session, local, crashes>>

Orphaned(row, gone) == [row EXCEPT !.dead = @ \/ gone]

(* A process that dies with the slot may leave an install intent.  (The    *)
(* deaths of other requests are in module SyncQueue.)                      *)
Crash(s, p) ==
  /\ phase[s][p] \in DiesIn /\ <<s, p>> \in Mortal
  /\ crashes < MaxCrashes /\ crashes' = crashes + 1
  /\ line' = [line EXCEPT ![p] = [r \in InLine(p) |->
                Orphaned(line[p][r], r \in OwnRows(s))]]
  /\ intent' \in IF active[p] = PairRow(s) THEN {intent, intent \cup {p}} ELSE {intent}
  /\ Hangup(s, p) /\ UNCHANGED <<active, yielded, local>>

YieldExpires(p) ==
  /\ yielded[p] # {} /\ Complete(p)
  /\ UNCHANGED <<line, active, intent, session, local, crashes>>

LowStep(s) ==
  \/ LowAccepts(s) \/ LowRefuses(s) \/ LowPublish(s) \/ LowAcknowledged(s)
  \/ LowPrepare(s) \/ LowPrepareAcked(s) \/ LowRecovered(s)
  \/ LowCommit(s) \/ LowReset(s) \/ LowTooManyResets(s) \/ LowResetAcked(s)
  \/ LowActivate(s) \/ LowStarts(s)

HighStep(s) ==
  \/ HighAccepts(s) \/ HighConvert(s) \/ HighRefuses(s)
  \/ HighPrepare(s) \/ HighRecovers(s) \/ HighRecovered(s)
  \/ HighReset(s) \/ HighCommit(s) \/ HighCommitFails(s)
  \/ HighActivate(s) \/ HighRuns(s)

EndStep(s, p) == LeaseExpires(s, p) \/ Disconnected(s, p) \/ Finish(s, p)

ConnectStep(s) ==
  \/ ManagedEnqueue(s) \/ ManagedStop(s) \/ ManagedRefused(s)
  \/ LowConnects(s) \/ HighConnects(s)

LocalStep(l) == LocalActivate(l) \/ LocalFinish(l)

Next ==
  \/ \E s \in Pairs : ConnectStep(s) \/ LowStep(s) \/ HighStep(s)
  \/ \E s \in Pairs : \E p \in Ends(s) : EndStep(s, p) \/ Crash(s, p)
  \/ \E l \in Locals : LocalEnqueue(l) \/ LocalStep(l)
  \/ \E p \in Peers : Sweep(p) \/ YieldExpires(p)

Spec == Init /\ [][Next]_vars

(* An installation serves its line: it waits for its permits, gives up what*)
(* outlives its lease or its connection, ends the sessions that run, sweeps*)
(* dead rows.  Nothing is asked of a peer or of a connection being made.   *)
FairSpec ==
  /\ Spec
  /\ \A s \in Pairs : /\ WF_vars(LowRecovered(s)) /\ WF_vars(HighRecovered(s))
                      /\ \A p \in Ends(s) : WF_vars(EndStep(s, p))
  /\ \A l \in Locals : WF_vars(LocalStep(l))
  /\ \A p \in Peers : WF_vars(Sweep(p))

----------------------------------------------------------------------------
Holds(s, p) == active[p] = PairRow(s) /\ phase[s][p] # "idle"

(* Slots are taken in the order of identities: the higher end has its slot *)
(* for a pair only when the lower has, so that no ring of installations    *)
(* waits for the slots of one another (reserve_as_higher_peer takes its    *)
(* permit after SyncReserved).                                             *)
LowerFirst ==
  \A s \in Pairs : Holds(s, High[s]) => Holds(s, Low[s]) \/ s \in closed

(* Of two eligible pairs of an authority, the one with the lower number has*)
(* the lower ticket, at each end: whoever prepared first, they cannot wait *)
(* for each other at one end and in the other order at the other           *)
(* (eligible_predecessors, asked when a row is prepared and again when it  *)
(* commits).                                                               *)
EligibleInOrder ==
  \A p \in Peers : \A a, b \in InLine(p) :
    /\ Eligible(p, a) /\ Eligible(p, b) /\ Authority(a.of) = Authority(b.of)
    /\ line[p][a].order < line[p][b].order
    => Before(p, a, b)

(* An authority has one number on its way at a time, so that its numbers   *)
(* reach its peers in their order (next_unacknowledged_proxy).             *)
OneProxyAtATime ==
  \A s, t \in Pairs :
    Low[s] = Low[t] /\ phase[s][Low[s]] = "issued" /\ phase[t][Low[t]] = "issued" => s = t

(* A request of one installation is served whatever a peer does, or does   *)
(* not do, after it has committed a reservation (sync::reservation_lease), *)
(* unless the request of a daemon that has no connection yet stands before *)
(* it.                                                                     *)
BehindManaged(l) ==
  \E s \in Pairs :
    /\ Connector[s] = At[l] /\ phase[s][At[l]] = "managed"
    /\ Before(At[l], PairRow(s), LocalRow(l))

LocalServed ==
  \A l \in Locals :
    local[l] = "waiting" ~> (local[l] = "waiting" => BehindManaged(l))

(* "unpaired network tickets are parked as described below and do not block*)
(* eligible work" (docs/2026-08-20-multi-share-scheduling-design.org): the *)
(* request of a pair that has no number yet blocks nobody.  The code puts  *)
(* the daemon's request in the line as an ordinary one, and keeps it there *)
(* for as long as the daemon tries to connect.                             *)
UnpairedNeverBlocks ==
  \A l \in Locals : local[l] = "waiting" ~> local[l] # "waiting"
=============================================================================
