----------------------- MODULE PairReservationProofs -----------------------
(***************************************************************************)
(* The type invariant of module PairReservation, and its three safety      *)
(* properties, for any installations, pairs and local requests, and any    *)
(* deaths.                                                                 *)
(*                                                                         *)
(* The argument.  A step moves the line of one installation: rows leave, a *)
(* row enters at the end, a row changes in its place, rows are orphaned    *)
(* (Left, Entered, Changed, Marked).  Each move keeps the line a linear    *)
(* order with one row of each number of an authority, and the eligible     *)
(* rows of an authority in the order of their numbers (LineOK).  The last  *)
(* holds when a row becomes eligible because it has no predecessor then:   *)
(* the head of its authority is a candidate, so it has a higher number     *)
(* than the new row and stands behind it, and the other eligible rows of   *)
(* the authority stand behind the head (ReadyInPlace).                     *)
(*                                                                         *)
(* An end has its rows in the line, and not orphaned, exactly while it has *)
(* a session, and the slot from the permit on (SessionOK); a step of one   *)
(* end leaves the rows of the others as they are (Untouched, SessionStep). *)
(* The number that is on its way is the lowest one not acknowledged        *)
(* (IssuedLowest), since a new number is the highest.  Of the connection,  *)
(* only this is needed: while nobody has given up, the higher end has its  *)
(* slot, or is told that it may take it, only if the lower has its own     *)
(* (Handshake).                                                            *)
(***************************************************************************)
EXTENDS PairReservation, WellFoundedInduction, TLAPS

States  == {"single", "pending", "parked", "prepared", "eligible"}
RowType == [state : States, order : Nat, acked : BOOLEAN, dead : BOOLEAN,
            ahead : SUBSET Requests]

LowPhases  == {"publish", "issued", "prepare", "commit", "resetting", "reserved"}
HighPhases == {"submitted", "acked", "answered", "started"}
Phases     == LowPhases \cup HighPhases
                \cup {"idle", "managed", "prepared", "recover", "committed", "running"}
Message    == [type : ForLow \cup ForHigh \cup {"none"}, order : Nat]

(* The lines, and the slots.                                               *)
TablesTyped ==
  /\ line = [p \in Peers |-> line[p]]
  /\ \A p \in Peers : InLine(p) \subseteq Requests /\ line[p] \in [InLine(p) -> RowType]
  /\ active \in [Peers -> Requests \cup {None}]

PhasesTyped ==
  /\ phase = [s \in Pairs |-> phase[s]]
  /\ \A s \in Pairs : phase[s] \in [Ends(s) -> Phases]

TypeOK ==
  /\ TablesTyped /\ PhasesTyped
  /\ intent \in SUBSET Peers /\ yielded \in [Peers -> SUBSET Pairs]
  /\ wire \in [Pairs -> Message] /\ closed \in SUBSET Pairs
  /\ resets \in [Pairs -> Nat]
  /\ local \in [Locals -> {"idle", "waiting", "active"}] /\ crashes \in Nat

(* Before is a linear order of the rows in line.                           *)
Ordered(p) ==
  /\ \A r \in InLine(p) : line[p][r].ahead \subseteq InLine(p) \ {r}
  /\ \A q, r \in InLine(p) : q # r => (Before(p, q, r) <=> ~Before(p, r, q))
  /\ \A q, r, t \in InLine(p) : Before(p, q, r) /\ Before(p, r, t) => Before(p, q, t)

(* The index on authority and number.                                      *)
NumbersUnique(p) ==
  \A q, r \in InLine(p) :
    /\ Numbered(p, q) /\ Numbered(p, r) /\ Authority(q.of) = Authority(r.of)
    /\ line[p][q].order = line[p][r].order
    => q = r

PairsNumbered(p) == \A r \in InLine(p) : Numbered(p, r) => r.kind = "pair"

(* EligibleInOrder at one installation.                                    *)
InOrder(p) ==
  \A a, b \in InLine(p) :
    /\ Eligible(p, a) /\ Eligible(p, b) /\ Authority(a.of) = Authority(b.of)
    /\ line[p][a].order < line[p][b].order
    => Before(p, a, b)

LineOK(p) == Ordered(p) /\ NumbersUnique(p) /\ PairsNumbered(p) /\ InOrder(p)

----------------------------------------------------------------------------
(* The least number of a set.                                              *)
LEMMA LeastNumber ==
  ASSUME NEW T \in SUBSET Nat, T # {}
  PROVE  \E x \in T : \A y \in T : x <= y
<1> DEFINE Less == OpToRel(<, Nat)
<1>1. PICK x \in T : \A y \in T : <<y, x>> \notin Less
  <2> HIDE DEF Less
  <2>1. IsWellFoundedOn(Less, Nat)
    BY NatLessThanWellFounded DEF Less
  <2> QED
    BY <2>1, WFMin
<1>2. \A y \in T : y < x => <<y, x>> \in Less
  BY DEF OpToRel
<1> HIDE DEF Less
<1>3. \A y \in T : ~(y < x)
  BY <1>1, <1>2
<1>4. x \in Nat /\ \A y \in T : y \in Nat
  OBVIOUS
<1>5. \A y \in T : x <= y
  BY <1>3, <1>4
<1> QED
  BY <1>5

(* Requests of different kinds, or of different pairs, are different.      *)
LEMMA RequestsApart ==
  /\ \A s \in Pairs : PairRow(s) \in Requests /\ RecoveryRow(s) \in Requests
  /\ \A l \in Locals : LocalRow(l) \in Requests
  /\ \A s \in Pairs : PairRow(s).kind = "pair" /\ PairRow(s).of = s
                      /\ RecoveryRow(s).kind = "recovery" /\ RecoveryRow(s).of = s
  /\ \A l \in Locals : LocalRow(l).kind = "local"
  /\ None \notin Requests
BY NoneIsNoRequest DEF Requests, PairRow, RecoveryRow, LocalRow

LEMMA RowsApart ==
  /\ \A s, t \in Pairs : PairRow(s) # RecoveryRow(t)
  /\ \A s, t \in Pairs : s # t => PairRow(s) # PairRow(t) /\ RecoveryRow(s) # RecoveryRow(t)
  /\ \A s \in Pairs, l \in Locals : LocalRow(l) \notin OwnRows(s)
  /\ \A k, l \in Locals : k # l => LocalRow(k) # LocalRow(l)
  /\ \A s \in Pairs, r \in Requests : r.kind = "pair" /\ r.of = s => r = PairRow(s)
BY DEF PairRow, RecoveryRow, LocalRow, OwnRows, Requests

LEMMA EndsOfPairs ==
  \A s \in Pairs : /\ Low[s] \in Peers /\ High[s] \in Peers /\ Low[s] # High[s]
                   /\ Connector[s] \in Ends(s) /\ Ends(s) \subseteq Peers
                   /\ Low[s] \in Ends(s) /\ High[s] \in Ends(s)
<1> TAKE s \in Pairs
<1>1. Low[s] \in Peers /\ High[s] \in Peers /\ Low[s] \in Nat /\ High[s] \in Nat
      /\ Low[s] < High[s] /\ Connector[s] \in {Low[s], High[s]}
  BY PairsAreOrdered
<1> QED
  BY <1>1 DEF Ends

----------------------------------------------------------------------------
(* The moves of a line.  Whatever a step does to a line is one of them.    *)

(* What a move leaves of a row.                                            *)
Same(a, b) == a.state = b.state /\ a.order = b.order /\ a.acked = b.acked /\ a.dead = b.dead

(* The other installations are left alone.                                 *)
Elsewhere(p) ==
  /\ TablesTyped'
  /\ \A o \in Peers \ {p} : line'[o] = line[o] /\ active'[o] = active[o]

Left(p, R) ==
  /\ Elsewhere(p) /\ active'[p] = IF active[p] \in R THEN None ELSE active[p]
  /\ InLine(p)' = InLine(p) \ R
  /\ \A q \in InLine(p) \ R : /\ Same(line'[p][q], line[p][q])
                              /\ line'[p][q].ahead = line[p][q].ahead \ R

Entered(p, r, row) ==
  /\ Elsewhere(p) /\ active'[p] = IF active[p] \in Dead(p) THEN None ELSE active[p]
  /\ InLine(p)' = Live(p) \cup {r}
  /\ Same(line'[p][r], row) /\ line'[p][r].ahead = Live(p)
  /\ \A q \in Live(p) \ {r} : /\ Same(line'[p][q], line[p][q])
                              /\ line'[p][q].ahead = line[p][q].ahead \ Dead(p)

Changed(p, r, row) ==
  /\ Elsewhere(p)
  /\ InLine(p)' = InLine(p)
  /\ Same(line'[p][r], row) /\ line'[p][r].ahead = line[p][r].ahead
  /\ \A q \in InLine(p) \ {r} : line'[p][q] = line[p][q]

LEMMA PassedRow ==
  ASSUME NEW row \in RowType, NEW R
  PROVE  /\ Passed(row, R) \in RowType
         /\ Same(Passed(row, R), row) /\ Passed(row, R).ahead = row.ahead \ R
BY DEF Passed, RowType, Same

LEMMA PlacedRow ==
  ASSUME NEW row \in RowType, NEW A \in SUBSET Requests
  PROVE  /\ [row EXCEPT !.ahead = A] \in RowType
         /\ Same([row EXCEPT !.ahead = A], row) /\ [row EXCEPT !.ahead = A].ahead = A
BY DEF RowType, Same

(* A line is replaced.                                                     *)
LEMMA LineReplaced ==
  ASSUME TablesTyped, NEW p \in Peers, NEW D \in SUBSET Requests, NEW L \in [D -> RowType],
         line' = [line EXCEPT ![p] = L], active' \in [Peers -> Requests \cup {None}],
         \A o \in Peers \ {p} : active'[o] = active[o]
  PROVE  Elsewhere(p) /\ line'[p] = L /\ InLine(p)' = D
<1>1. line' = [o \in Peers |-> line'[o]] /\ line'[p] = L
  BY DEF TablesTyped
<1>2. \A o \in Peers \ {p} : line'[o] = line[o]
  BY DEF TablesTyped
<1>3. InLine(p)' = D
  BY <1>1 DEF InLine
<1>4. \A o \in Peers : InLine(o)' \subseteq Requests /\ line'[o] \in [InLine(o)' -> RowType]
  <2> TAKE o \in Peers
  <2>1. CASE o = p
    BY <1>1, <1>3, <2>1
  <2>2. CASE o # p
    BY <1>2, <2>2 DEF TablesTyped, InLine
  <2> QED
    BY <2>1, <2>2
<1> QED
  BY <1>1, <1>2, <1>3, <1>4 DEF Elsewhere, TablesTyped

LEMMA ClearedSlot ==
  ASSUME TablesTyped, NEW p \in Peers, NEW R, active' = Cleared(p, R)
  PROVE  /\ active' \in [Peers -> Requests \cup {None}]
         /\ active'[p] = IF active[p] \in R THEN None ELSE active[p]
         /\ \A o \in Peers \ {p} : active'[o] = active[o]
BY DEF TablesTyped, Cleared

LEMMA LeavingMove ==
  ASSUME TablesTyped, NEW p \in Peers, NEW R, Leaving(p, R)
  PROVE  Left(p, R)
<1> DEFINE D == InLine(p) \ R
           L == [r \in D |-> Passed(line[p][r], R)]
<1>1. D \in SUBSET Requests /\ \A r \in D : line[p][r] \in RowType
  BY DEF TablesTyped
<1>2. L \in [D -> RowType]
  BY <1>1, PassedRow
<1>3. line' = [line EXCEPT ![p] = L] /\ active' = Cleared(p, R)
  BY DEF Leaving
<1> HIDE DEF L
<1>4. Elsewhere(p) /\ line'[p] = L /\ InLine(p)' = D
  BY <1>1, <1>2, <1>3, ClearedSlot, LineReplaced
<1>5. \A q \in D : Same(L[q], line[p][q]) /\ L[q].ahead = line[p][q].ahead \ R
  BY <1>1, PassedRow DEF L
<1> QED
  BY <1>3, <1>4, <1>5, ClearedSlot DEF Left

LEMMA EnterMove ==
  ASSUME TablesTyped, NEW p \in Peers, NEW r \in Requests, NEW row \in RowType,
         Enter(p, r, row)
  PROVE  Entered(p, r, row)
<1> DEFINE D == Live(p) \cup {r}
           L == [q \in D |-> IF q = r THEN [row EXCEPT !.ahead = Live(p)]
                                      ELSE Passed(line[p][q], Dead(p))]
<1>1. D \in SUBSET Requests /\ Live(p) \in SUBSET Requests
      /\ \A q \in Live(p) : line[p][q] \in RowType
  BY DEF TablesTyped, Live
<1>2. L \in [D -> RowType]
  BY <1>1, PassedRow, PlacedRow
<1>3. line' = [line EXCEPT ![p] = L] /\ active' = Cleared(p, Dead(p))
  BY DEF Enter
<1>4. /\ Same(L[r], row) /\ L[r].ahead = Live(p)
      /\ \A q \in Live(p) \ {r} : /\ Same(L[q], line[p][q])
                                  /\ L[q].ahead = line[p][q].ahead \ Dead(p)
  BY <1>1, PassedRow, PlacedRow
<1> HIDE DEF L
<1>5. Elsewhere(p) /\ line'[p] = L /\ InLine(p)' = D
  BY <1>1, <1>2, <1>3, ClearedSlot, LineReplaced
<1> QED
  BY <1>3, <1>4, <1>5, ClearedSlot DEF Entered

LEMMA ChangeMove ==
  ASSUME TablesTyped, NEW p \in Peers, NEW r \in InLine(p), NEW row \in RowType,
         Change(p, r, row), active' \in [Peers -> Requests \cup {None}],
         \A o \in Peers \ {p} : active'[o] = active[o]
  PROVE  Changed(p, r, row)
<1> DEFINE new == [row EXCEPT !.ahead = line[p][r].ahead]
           L   == [line[p] EXCEPT ![r] = new]
<1>1. InLine(p) \in SUBSET Requests /\ line[p] \in [InLine(p) -> RowType]
  BY DEF TablesTyped
<1>2. line[p][r].ahead \in SUBSET Requests
  BY <1>1 DEF RowType
<1>3. new \in RowType /\ Same(new, row) /\ new.ahead = line[p][r].ahead
  BY <1>2, PlacedRow
<1>4. line' = [line EXCEPT ![p][r] = new]
  BY DEF Change
<1> HIDE DEF new
<1>5. line' = [line EXCEPT ![p] = L]
  BY <1>4
<1>6. L \in [InLine(p) -> RowType] /\ L[r] = new
      /\ \A q \in InLine(p) \ {r} : L[q] = line[p][q]
  BY <1>1, <1>3
<1> HIDE DEF L
<1>7. Elsewhere(p) /\ line'[p] = L /\ InLine(p)' = InLine(p)
  BY <1>1, <1>5, <1>6, LineReplaced
<1> QED
  BY <1>3, <1>6, <1>7 DEF Changed


(* The rows of a process that died.                                        *)
MarkedRow(new, old, gone) ==
  /\ new.state = old.state /\ new.order = old.order /\ new.acked = old.acked
  /\ new.ahead = old.ahead /\ new.dead \in BOOLEAN
  /\ new.dead <=> old.dead \/ gone

Marked(p, R) ==
  /\ Elsewhere(p) /\ active' = active
  /\ InLine(p)' = InLine(p)
  /\ \A q \in InLine(p) : MarkedRow(line'[p][q], line[p][q], q \in R)

LEMMA DeadRow ==
  ASSUME NEW row \in RowType, NEW gone \in BOOLEAN
  PROVE  Orphaned(row, gone) \in RowType /\ MarkedRow(Orphaned(row, gone), row, gone)
<1>1. PICK b \in BOOLEAN : b = (row.dead \/ gone)
  OBVIOUS
<1>2. LET new == [row EXCEPT !.dead = b]
      IN  /\ new \in RowType /\ new.dead = b
          /\ new.state = row.state /\ new.order = row.order /\ new.acked = row.acked
          /\ new.ahead = row.ahead
  BY DEF RowType
<1> QED
  BY <1>1, <1>2 DEF MarkedRow, Orphaned

LEMMA MarkMove ==
  ASSUME TablesTyped, NEW p \in Peers, NEW R, UNCHANGED active,
         line' = [line EXCEPT ![p] = [r \in InLine(p) |-> Orphaned(line[p][r], r \in R)]]
  PROVE  Marked(p, R)
<1> DEFINE L == [r \in InLine(p) |-> Orphaned(line[p][r], r \in R)]
<1>1. InLine(p) \in SUBSET Requests /\ \A r \in InLine(p) : line[p][r] \in RowType
  BY DEF TablesTyped
<1>3. \A r \in InLine(p) : L[r] = Orphaned(line[p][r], r \in R)
  OBVIOUS
<1>4. line' = [line EXCEPT ![p] = L]
  OBVIOUS
<1>5. DOMAIN L = InLine(p) /\ L = [r \in InLine(p) |-> L[r]]
  OBVIOUS
<1> HIDE DEF L
<1>6. \A r \in InLine(p) : L[r] \in RowType /\ MarkedRow(L[r], line[p][r], r \in R)
  <2> TAKE r \in InLine(p)
  <2>1. line[p][r] \in RowType /\ (r \in R) \in BOOLEAN
    BY <1>1
  <2> QED
    BY <1>3, <2>1, DeadRow
<1>7. L \in [InLine(p) -> RowType]
  BY <1>5, <1>6
<1>8. active' \in [Peers -> Requests \cup {None}]
  BY DEF TablesTyped
<1>9. Elsewhere(p) /\ line'[p] = L /\ InLine(p)' = InLine(p)
  BY <1>1, <1>4, <1>7, <1>8, LineReplaced
<1> QED
  BY <1>6, <1>9 DEF Marked

----------------------------------------------------------------------------
(* The moves keep a line in order.                                         *)

LEMMA RowFields ==
  ASSUME TablesTyped, NEW p \in Peers, NEW r \in InLine(p)
  PROVE  /\ r \in Requests /\ line[p][r].order \in Nat /\ line[p][r].state \in States
         /\ line[p][r].ahead \in SUBSET Requests
         /\ line[p][r].dead \in BOOLEAN /\ line[p][r].acked \in BOOLEAN
BY DEF TablesTyped, RowType

LEMMA LeftLine ==
  ASSUME TablesTyped, NEW p \in Peers, LineOK(p), NEW R, Left(p, R)
  PROVE  LineOK(p)'
<1>1. /\ InLine(p)' = InLine(p) \ R
      /\ \A q \in InLine(p) \ R : /\ Same(line'[p][q], line[p][q])
                                  /\ line'[p][q].ahead = line[p][q].ahead \ R
  BY DEF Left
<1>2. Ordered(p)'
  BY <1>1 DEF LineOK, Ordered, Before
<1>3. NumbersUnique(p)' /\ PairsNumbered(p)'
  BY <1>1 DEF LineOK, NumbersUnique, PairsNumbered, Numbered, Same
<1>4. InOrder(p)'
  BY <1>1 DEF LineOK, InOrder, Eligible, Before, Same
<1> QED
  BY <1>2, <1>3, <1>4 DEF LineOK

LEMMA MarkedLine ==
  ASSUME TablesTyped, NEW p \in Peers, LineOK(p), NEW R, Marked(p, R)
  PROVE  LineOK(p)'
<1>1. /\ InLine(p)' = InLine(p)
      /\ \A q \in InLine(p) :
           /\ line'[p][q].state = line[p][q].state /\ line'[p][q].order = line[p][q].order
           /\ line'[p][q].ahead = line[p][q].ahead
  BY DEF Marked, MarkedRow
<1>2. Ordered(p)'
  BY <1>1 DEF LineOK, Ordered, Before
<1>3. NumbersUnique(p)' /\ PairsNumbered(p)'
  BY <1>1 DEF LineOK, NumbersUnique, PairsNumbered, Numbered
<1>4. InOrder(p)'
  BY <1>1 DEF LineOK, InOrder, Eligible, Before
<1> QED
  BY <1>2, <1>3, <1>4 DEF LineOK

(* A row may have a number that no other row of its authority has.         *)
NumberedState(row) == row.state \in {"parked", "prepared", "eligible"}

NumberFree(p, R, r, row) ==
  NumberedState(row) =>
    /\ r.kind = "pair"
    /\ \A q \in R \ {r} :
         Numbered(p, q) /\ Authority(q.of) = Authority(r.of) => line[p][q].order # row.order

LEMMA EnteredLine ==
  ASSUME TablesTyped, NEW p \in Peers, LineOK(p), NEW r \in Requests, NEW row,
         Entered(p, r, row), r \notin Live(p), row.state # "eligible",
         NumberFree(p, Live(p), r, row)
  PROVE  LineOK(p)'
<1>1. /\ InLine(p)' = Live(p) \cup {r}
      /\ Same(line'[p][r], row) /\ line'[p][r].ahead = Live(p)
      /\ \A q \in Live(p) : /\ q # r /\ Same(line'[p][q], line[p][q])
                            /\ line'[p][q].ahead = line[p][q].ahead \ Dead(p)
  BY DEF Entered
<1>2. Live(p) \subseteq InLine(p) /\ Live(p) = InLine(p) \ Dead(p)
  BY DEF Live, Dead
<1>3. Ordered(p)'
  <2>1. \A q \in InLine(p)' : line'[p][q].ahead \subseteq InLine(p)' \ {q}
    BY <1>1, <1>2 DEF LineOK, Ordered
  <2>2. \A q, t \in InLine(p)' : q # t => (Before(p, q, t)' <=> ~Before(p, t, q)')
    BY <1>1, <1>2 DEF LineOK, Ordered, Before
  <2>3. \A q, t, u \in InLine(p)' : Before(p, q, t)' /\ Before(p, t, u)' => Before(p, q, u)'
    BY <1>1, <1>2 DEF LineOK, Ordered, Before
  <2> QED
    BY <2>1, <2>2, <2>3 DEF Ordered, Before
<1>4. NumbersUnique(p)'
  BY <1>1, <1>2 DEF LineOK, NumbersUnique, Numbered, Same, NumberFree, NumberedState
<1>5. PairsNumbered(p)'
  BY <1>1, <1>2 DEF LineOK, PairsNumbered, Numbered, Same, NumberFree, NumberedState
<1>6. InOrder(p)'
  BY <1>1, <1>2 DEF LineOK, InOrder, Eligible, Before, Same
<1> QED
  BY <1>3, <1>4, <1>5, <1>6 DEF LineOK

(* The place of a row agrees with its number, among the eligible rows.     *)
InPlace(p, r) ==
  \A q \in InLine(p) \ {r} :
    Eligible(p, q) /\ Authority(q.of) = Authority(r.of) =>
      /\ line[p][q].order < line[p][r].order => Before(p, q, r)
      /\ line[p][r].order < line[p][q].order => Before(p, r, q)

LEMMA ChangedLine ==
  ASSUME TablesTyped, NEW p \in Peers, LineOK(p), NEW r \in InLine(p), NEW row,
         Changed(p, r, row), NumberFree(p, InLine(p), r, row),
         row.state = "eligible" => row.order = line[p][r].order /\ InPlace(p, r)
  PROVE  LineOK(p)'
<1>1. /\ InLine(p)' = InLine(p)
      /\ Same(line'[p][r], row) /\ line'[p][r].ahead = line[p][r].ahead
      /\ \A q \in InLine(p) \ {r} : line'[p][q] = line[p][q]
  BY DEF Changed
<1>2. \A q \in InLine(p) : line'[p][q].ahead = line[p][q].ahead
  BY <1>1
<1>3. Ordered(p)'
  BY <1>1, <1>2 DEF LineOK, Ordered, Before
<1>4. NumbersUnique(p)'
  BY <1>1 DEF LineOK, NumbersUnique, Numbered, Same, NumberFree, NumberedState
<1>5. PairsNumbered(p)'
  BY <1>1 DEF LineOK, PairsNumbered, Numbered, Same, NumberFree, NumberedState
<1>6. InOrder(p)'
  <2> SUFFICES ASSUME NEW a \in InLine(p), NEW b \in InLine(p),
                      Eligible(p, a)', Eligible(p, b)', Authority(a.of) = Authority(b.of),
                      line'[p][a].order < line'[p][b].order
               PROVE  Before(p, a, b)'
    BY <1>1 DEF InOrder, Authority
  <2>1. a # b
    <3>1. line'[p][a].order \in Nat
      BY <1>1, RowFields DEF Same, Changed, Elsewhere, TablesTyped, RowType
    <3> QED
      BY <3>1
  <2>2. CASE a # r /\ b # r
    BY <1>1, <2>2 DEF LineOK, InOrder, Eligible, Before
  <2>3. CASE a = r
    BY <1>1, <1>2, <2>1, <2>3 DEF InPlace, Eligible, Before, Same
  <2>4. CASE b = r
    BY <1>1, <1>2, <2>1, <2>4 DEF InPlace, Eligible, Before, Same
  <2> QED
    BY <2>2, <2>3, <2>4
<1> QED
  BY <1>3, <1>4, <1>5, <1>6 DEF LineOK

(* What makes a row eligible.  The eligible row of the authority with the  *)
(* lowest number is a candidate; it has a higher number than the ready row,*)
(* and stands behind it; the others stand behind that one.                 *)
LEMMA ReadyInPlace ==
  ASSUME TablesTyped, NEW p \in Peers, LineOK(p), NEW r \in InLine(p),
         Numbered(p, r), Predecessors(p, r) = {}
  PROVE  InPlace(p, r)
<1> SUFFICES ASSUME NEW q \in InLine(p) \ {r}, Eligible(p, q),
                    Authority(q.of) = Authority(r.of)
             PROVE  line[p][r].order < line[p][q].order /\ Before(p, r, q)
  <2>1. line[p][r].order \in Nat
    BY RowFields
  <2> QED
    BY <2>1, RowFields DEF InPlace
<1> DEFINE Rivals == {t \in InLine(p) : Eligible(p, t) /\ Authority(t.of) = Authority(r.of) /\ t # r}
           Orders == {line[p][t].order : t \in Rivals}
<1>1. Orders \in SUBSET Nat /\ Orders # {}
  BY RowFields
<1>2. PICK n \in Orders : \A m \in Orders : n <= m
  <2> HIDE DEF Orders
  <2> QED
    BY <1>1, LeastNumber
<1>3. PICK h \in Rivals : line[p][h].order = n
  OBVIOUS
<1>4. \A t \in Rivals : line[p][h].order <= line[p][t].order
  BY <1>2, <1>3
<1>5. line[p][h].order \in Nat /\ line[p][r].order \in Nat /\ line[p][q].order \in Nat
  BY RowFields
<1>6. line[p][h].order # line[p][r].order
  BY DEF LineOK, NumbersUnique, Numbered, Eligible
<1>7. line[p][r].order < line[p][h].order /\ Before(p, r, h)
  <2>1. CASE IsAuthorityHead(p, h)
    <3>1. h \in Candidates(p) \ {r}
      BY <2>1 DEF Candidates
    <3>2. ~Before(p, h, r) /\ ~(line[p][h].order < line[p][r].order)
      BY <3>1 DEF Predecessors, OfAuthority, Numbered, Eligible
    <3> QED
      BY <1>5, <1>6, <3>2 DEF LineOK, Ordered
  <2>2. CASE ~IsAuthorityHead(p, h)
    <3>1. PICK t \in InLine(p) : /\ Eligible(p, t) /\ Authority(t.of) = Authority(h.of)
                                 /\ \/ line[p][t].order < line[p][h].order
                                    \/ line[p][t].order = line[p][h].order /\ Before(p, t, h)
      BY <2>2 DEF IsAuthorityHead, OfAuthority
    <3>2. line[p][t].order \in Nat
      BY RowFields
    <3>3. CASE t = r
      BY <1>5, <1>6, <3>1, <3>3 DEF LineOK, InOrder
    <3>4. CASE t # r
      <4>1. line[p][h].order <= line[p][t].order
        BY <1>4, <3>1, <3>4
      <4>2. line[p][t].order = line[p][h].order /\ Before(p, t, h)
        BY <1>5, <3>1, <3>2, <4>1
      <4>3. t = h
        BY <3>1, <4>2 DEF LineOK, NumbersUnique, Numbered, Eligible
      <4> QED
        BY <4>2, <4>3 DEF LineOK, Ordered, Before
    <3> QED
      BY <3>3, <3>4
  <2> QED
    BY <2>1, <2>2
<1>8. q \in Rivals
  OBVIOUS
<1>9. line[p][h].order <= line[p][q].order
  BY <1>4, <1>8
<1>10. q = h \/ Before(p, h, q)
  <2>1. CASE line[p][h].order < line[p][q].order
    BY <2>1 DEF LineOK, InOrder
  <2>2. CASE line[p][h].order = line[p][q].order
    BY <2>2 DEF LineOK, NumbersUnique, Numbered, Eligible
  <2> QED
    BY <1>5, <1>9, <2>1, <2>2
<1> QED
  BY <1>5, <1>7, <1>9, <1>10 DEF LineOK, Ordered

----------------------------------------------------------------------------
(* Sessions and their rows.                                                *)

Granted    == {"reserved", "started", "running"}
Unnumbered == {"idle", "managed", "submitted"}

(* An end has its rows in line, and not dead, as long as it has a session; *)
(* the slot, from the permit on.                                           *)
SessionOK(s, p) ==
  /\ PairRow(s) \in Live(p) <=> phase[s][p] # "idle"
  /\ RecoveryRow(s) \in Live(p) <=> phase[s][p] = "recover"
  /\ phase[s][p] \notin Unnumbered => Numbered(p, PairRow(s))
  /\ phase[s][p] \in {"publish", "issued"} => ~line[p][PairRow(s)].acked
  /\ phase[s][p] # "idle" => (active[p] = PairRow(s) <=> phase[s][p] \in Granted)

SlotInLine(p) == active[p] \in InLine(p) \cup {None}

LocalOK(l) == LocalRow(l) \in Live(At[l]) <=> local[l] # "idle"

Unacked(p, r) == Numbered(p, r) /\ ~line[p][r].acked

(* The number on its way is the lowest that no peer has acknowledged.      *)
IssuedLowest(s) ==
  phase[s][Low[s]] = "issued" =>
    \A r \in InLine(Low[s]) :
      Unacked(Low[s], r) => line[Low[s]][PairRow(s)].order <= line[Low[s]][r].order

Core ==
  /\ TablesTyped /\ PhasesTyped /\ local \in [Locals -> {"idle", "waiting", "active"}]
  /\ \A p \in Peers : LineOK(p) /\ SlotInLine(p)
  /\ \A s \in Pairs : \A p \in Ends(s) : SessionOK(s, p)
  /\ \A l \in Locals : LocalOK(l)
  /\ \A s \in Pairs : IssuedLowest(s)

(* What a step of others leaves of a request.                              *)
Untouched(p, q) ==
  /\ q \in InLine(p)' => q \in InLine(p) /\ Same(line'[p][q], line[p][q])
  /\ q \in Live(p) => q \in InLine(p)' /\ (active'[p] = q <=> active[p] = q)

LEMMA StillLive ==
  ASSUME NEW p, NEW q, Untouched(p, q)
  PROVE  /\ q \in Live(p)' <=> q \in Live(p)
         /\ q \in InLine(p)' => /\ Numbered(p, q)' <=> Numbered(p, q)
                                /\ line'[p][q].acked = line[p][q].acked
                                /\ line'[p][q].order = line[p][q].order
BY DEF Untouched, Live, Same, Numbered

LEMMA ElsewhereUntouched ==
  ASSUME NEW p \in Peers, Elsewhere(p), NEW o \in Peers \ {p}, NEW q
  PROVE  Untouched(o, q)
BY DEF Elsewhere, Untouched, Live, InLine, Same

LEMMA LeftOthers ==
  ASSUME TablesTyped, NEW p \in Peers, NEW R, Left(p, R),
         NEW q \in Requests, q \notin R \/ q \notin Live(p)
  PROVE  Untouched(p, q)
BY RequestsApart DEF Left, Untouched, Live

LEMMA EnteredOthers ==
  ASSUME TablesTyped, NEW p \in Peers, NEW r, NEW row, Entered(p, r, row),
         NEW q \in Requests \ {r}
  PROVE  Untouched(p, q)
BY RequestsApart DEF Entered, Untouched, Live, Dead

LEMMA ChangedOthers ==
  ASSUME TablesTyped, NEW p \in Peers, NEW r, NEW row, Changed(p, r, row),
         NEW q \in Requests \ {r}, active'[p] = q <=> active[p] = q
  PROVE  Untouched(p, q)
BY DEF Changed, Untouched, Live, Same

LEMMA MarkedOthers ==
  ASSUME TablesTyped, NEW p \in Peers, NEW R, Marked(p, R), NEW q \in Requests \ R
  PROVE  Untouched(p, q)
<1>1. q \in InLine(p) => line'[p][q].dead = line[p][q].dead
  BY RowFields DEF Marked, MarkedRow
<1> QED
  BY <1>1 DEF Marked, MarkedRow, Untouched, Live, Same

LEMMA SessionKept ==
  ASSUME NEW s \in Pairs, NEW o \in Ends(s), SessionOK(s, o), phase'[s][o] = phase[s][o],
         Untouched(o, PairRow(s)), Untouched(o, RecoveryRow(s))
  PROVE  SessionOK(s, o)'
<1>1. PairRow(s) \in Live(o)' => PairRow(s) \in InLine(o)'
  BY DEF Live
<1>2. phase[s][o] # "idle" => (active'[o] = PairRow(s) <=> active[o] = PairRow(s))
  BY DEF SessionOK, Untouched
<1> QED
  BY <1>1, <1>2, StillLive DEF SessionOK, Unnumbered

LEMMA LocalKept ==
  ASSUME NEW l \in Locals, LocalOK(l), local'[l] = local[l], Untouched(At[l], LocalRow(l))
  PROVE  LocalOK(l)'
BY StillLive DEF LocalOK

(* A number that is new in the line is higher than the others of its       *)
(* authority, unless the peer has acknowledged it.                         *)
NewIsHighest(p, r) ==
  r \in InLine(p)' /\ Unacked(p, r)' =>
    \/ r \in InLine(p) /\ Unacked(p, r) /\ line'[p][r].order = line[p][r].order
    \/ /\ Authority(r.of) = p
       /\ \A q \in InLine(p)' :
            OfAuthority(p, q, r.of)' => line'[p][q].order <= line'[p][r].order

LEMMA IssuedKept ==
  ASSUME TablesTyped, TablesTyped', NEW s \in Pairs, IssuedLowest(s), SessionOK(s, Low[s]),
         phase'[s][Low[s]] = phase[s][Low[s]],
         NEW O, \A q \in Requests \ O : Untouched(Low[s], q), PairRow(s) \notin O,
         \A r \in O : NewIsHighest(Low[s], r)
  PROVE  IssuedLowest(s)'
<1> DEFINE p == Low[s]
           mine == PairRow(s)
<1> SUFFICES ASSUME phase'[s][p] = "issued", NEW r \in InLine(p)', Unacked(p, r)'
             PROVE  line'[p][mine].order <= line'[p][r].order
  BY DEF IssuedLowest
<1>1. mine \in Live(p) /\ Numbered(p, mine) /\ mine \in Requests /\ r \in Requests
  BY RequestsApart, EndsOfPairs DEF SessionOK, Unnumbered, TablesTyped
<1>2. mine \in InLine(p)' /\ mine \in InLine(p) /\ line'[p][mine].order = line[p][mine].order
      /\ Numbered(p, mine)'
  BY <1>1, StillLive DEF Untouched, Live
<1>3. ASSUME r \in InLine(p), Unacked(p, r), line'[p][r].order = line[p][r].order
      PROVE  line'[p][mine].order <= line'[p][r].order
  BY <1>2, <1>3 DEF IssuedLowest
<1>4. CASE r \notin O
  <2>1. r \in InLine(p) /\ Unacked(p, r) /\ line'[p][r].order = line[p][r].order
    BY <1>1, <1>4, StillLive DEF Untouched, Unacked
  <2> QED
    BY <1>3, <2>1
<1>5. CASE r \in O
  <2>1. ASSUME Authority(r.of) = p PROVE OfAuthority(p, mine, r.of)'
    BY <1>2, <2>1, RequestsApart DEF OfAuthority, Authority
  <2> QED
    BY <1>2, <1>3, <1>5, <2>1 DEF NewIsHighest
<1> QED
  BY <1>4, <1>5

(* A step of one end of a pair.                                            *)
LEMMA SessionStep ==
  ASSUME Core, NEW s \in Pairs, NEW p \in Ends(s), Elsewhere(p), LineOK(p)', SlotInLine(p)',
         PhasesTyped',
         \A q \in Requests \ OwnRows(s) : Untouched(p, q),
         \A t \in Pairs : \A o \in Ends(t) : t # s \/ o # p => phase'[t][o] = phase[t][o],
         local' = local, SessionOK(s, p)',
         NewIsHighest(p, PairRow(s)),
         phase'[s][p] = "issued" => IssuedLowest(s)'
  PROVE  Core'
<1>1. p \in Peers /\ TablesTyped /\ TablesTyped'
  BY EndsOfPairs DEF Core, Elsewhere
<1>2. \A o \in Peers, q \in Requests : o # p \/ q \notin OwnRows(s) => Untouched(o, q)
  BY <1>1, ElsewhereUntouched
<1>3. ASSUME NEW o \in Peers PROVE LineOK(o)' /\ SlotInLine(o)'
  <2>1. CASE o = p
    BY <2>1
  <2>2. CASE o # p
    <3>1. line'[o] = line[o] /\ LineOK(o) /\ active'[o] = active[o] /\ SlotInLine(o)
      BY <2>2 DEF Elsewhere, Core
    <3>2. LineOK(o)'
      BY <3>1 DEF LineOK, Ordered, NumbersUnique, PairsNumbered, InOrder,
                  InLine, Before, Numbered, Eligible
    <3> QED
      BY <3>1, <3>2 DEF SlotInLine, InLine
  <2> QED
    BY <2>1, <2>2
<1>4. ASSUME NEW t \in Pairs, NEW o \in Ends(t) PROVE SessionOK(t, o)'
  <2>1. CASE t = s /\ o = p
    BY <2>1
  <2>2. CASE t # s \/ o # p
    <3>1. o \in Peers /\ PairRow(t) \in Requests /\ RecoveryRow(t) \in Requests
      BY EndsOfPairs, RequestsApart
    <3>2. o # p \/ (PairRow(t) \notin OwnRows(s) /\ RecoveryRow(t) \notin OwnRows(s))
      BY <2>2, RowsApart DEF OwnRows
    <3>3. Untouched(o, PairRow(t)) /\ Untouched(o, RecoveryRow(t))
      BY <1>2, <3>1, <3>2
    <3> QED
      BY <2>2, <3>3, SessionKept DEF Core
  <2> QED
    BY <2>1, <2>2
<1>5. ASSUME NEW l \in Locals PROVE LocalOK(l)'
  <2>1. At[l] \in Peers /\ LocalRow(l) \in Requests /\ LocalRow(l) \notin OwnRows(s)
    BY PairsAreOrdered, RequestsApart, RowsApart
  <2> QED
    BY <1>2, <2>1, LocalKept DEF Core
<1>6. ASSUME NEW t \in Pairs PROVE IssuedLowest(t)'
  <2>1. Low[t] \in Peers /\ Low[t] \in Ends(t) /\ SessionOK(t, Low[t]) /\ IssuedLowest(t)
    BY EndsOfPairs DEF Core
  <2>2. CASE t = s /\ Low[t] = p
    BY <2>2 DEF IssuedLowest
  <2>3. CASE Low[t] # p
    <3> DEFINE O == {r \in OwnRows(s) : FALSE}
    <3>1. \A q \in Requests \ O : Untouched(Low[t], q)
      BY <1>2, <2>1, <2>3
    <3>2. phase'[t][Low[t]] = phase[t][Low[t]]
      BY <2>1, <2>3
    <3>3. O = {}
      OBVIOUS
    <3> HIDE DEF O
    <3>4. /\ PairRow(t) \notin O
          /\ \A r \in O : NewIsHighest(Low[t], r)
      BY <3>3
    <3> QED
      BY <1>1, <2>1, <3>1, <3>2, <3>4, IssuedKept
  <2>4. CASE t # s /\ Low[t] = p
    <3>1. PairRow(t) \notin OwnRows(s)
      BY <2>4, RowsApart DEF OwnRows
    <3>2. phase'[t][Low[t]] = phase[t][Low[t]]
      BY <2>1, <2>4
    <3>3. NewIsHighest(p, RecoveryRow(s))
      BY RequestsApart DEF LineOK, PairsNumbered, NewIsHighest, Unacked
    <3>4. \A r \in OwnRows(s) : NewIsHighest(p, r)
      BY <3>3 DEF OwnRows
    <3> QED
      BY <1>1, <2>1, <2>4, <3>1, <3>2, <3>4, IssuedKept
  <2> QED
    BY <2>2, <2>3, <2>4
<1>7. local' \in [Locals -> {"idle", "waiting", "active"}]
  BY DEF Core
<1> QED
  BY <1>1, <1>3, <1>4, <1>5, <1>6, <1>7 DEF Core

----------------------------------------------------------------------------
(* What the ends do to their rows and to the slots.                        *)

LEMMA GoesTo ==
  ASSUME PhasesTyped, NEW s \in Pairs, NEW p \in Ends(s), NEW ph \in Phases, Go(s, p, ph)
  PROVE  /\ PhasesTyped' /\ phase'[s][p] = ph
         /\ \A t \in Pairs : \A o \in Ends(t) : t # s \/ o # p => phase'[t][o] = phase[t][o]
<1>1. phase' = [phase EXCEPT ![s] = [phase[s] EXCEPT ![p] = ph]]
  BY DEF Go
<1>2. [phase[s] EXCEPT ![p] = ph] \in [Ends(s) -> Phases]
  BY DEF PhasesTyped
<1>3. /\ phase'[s] = [phase[s] EXCEPT ![p] = ph]
      /\ \A t \in Pairs \ {s} : phase'[t] = phase[t]
      /\ phase' = [t \in Pairs |-> phase'[t]]
  BY <1>1 DEF PhasesTyped
<1> QED
  BY <1>2, <1>3 DEF PhasesTyped

(* A row keeps its number and its acknowledgement.                         *)
LEMMA SameIsNotNew ==
  ASSUME NEW p, NEW r,
         r \in InLine(p)' => /\ r \in InLine(p) /\ line'[p][r].state = line[p][r].state
                             /\ line'[p][r].order = line[p][r].order
                             /\ line'[p][r].acked = line[p][r].acked
  PROVE  NewIsHighest(p, r)
BY DEF NewIsHighest, Unacked, Numbered

(* An end gives up, or finishes.                                           *)
LEMMA LeaveStep ==
  ASSUME Core, NEW s \in Pairs, NEW p \in Ends(s), Release(p, OwnRows(s)),
         Go(s, p, "idle"), local' = local
  PROVE  Core'
<1> DEFINE R == OwnRows(s) \cap Live(p)
<1>1. p \in Peers /\ TablesTyped /\ PhasesTyped /\ LineOK(p)
  BY EndsOfPairs DEF Core
<1>2. Left(p, R)
  BY <1>1, LeavingMove DEF Release
<1>3. LineOK(p)' /\ \A q \in Requests \ OwnRows(s) : Untouched(p, q)
  BY <1>1, <1>2, LeftLine, LeftOthers
<1>4. /\ PhasesTyped' /\ phase'[s][p] = "idle"
      /\ \A t \in Pairs : \A o \in Ends(t) : t # s \/ o # p => phase'[t][o] = phase[t][o]
  BY <1>1, GoesTo DEF Phases
<1>5. InLine(p)' = InLine(p) \ R /\ \A q \in InLine(p)' : Same(line'[p][q], line[p][q])
  BY <1>2 DEF Left
<1>6. PairRow(s) \notin Live(p)' /\ RecoveryRow(s) \notin Live(p)'
  BY <1>5 DEF Live, Same, OwnRows
<1>7. SessionOK(s, p)'
  BY <1>4, <1>6 DEF SessionOK, Unnumbered
<1>8. NewIsHighest(p, PairRow(s))
  BY <1>5, SameIsNotNew DEF Same
<1>9. SlotInLine(p)'
  BY <1>1, <1>2 DEF Core, SlotInLine, Left
<1> HIDE DEF R
<1> QED
  BY <1>2, <1>3, <1>4, <1>7, <1>8, <1>9, SessionStep DEF Left

(* The tables are left alone.                                              *)
LEMMA TablesKept ==
  ASSUME Core, NEW p \in Peers, line' = line
  PROVE  /\ LineOK(p)' /\ \A r : NewIsHighest(p, r)
         /\ active' = active =>
              Elsewhere(p) /\ SlotInLine(p)' /\ \A q : Untouched(p, q)
<1>1. TablesTyped /\ LineOK(p)
  BY DEF Core
<1>2. LineOK(p)'
  BY <1>1 DEF LineOK, Ordered, NumbersUnique, PairsNumbered, InOrder,
              InLine, Before, Numbered, Eligible
<1>3. \A r : NewIsHighest(p, r)
  BY DEF NewIsHighest, Unacked, Numbered, InLine
<1>4. ASSUME active' = active PROVE Elsewhere(p) /\ SlotInLine(p)' /\ \A q : Untouched(p, q)
  <2>1. SlotInLine(p)'
    BY <1>4 DEF Core, SlotInLine, InLine
  <2> QED
    BY <1>1, <1>4, <2>1 DEF Elsewhere, TablesTyped, Untouched, Live, InLine, Same
<1> QED
  BY <1>2, <1>3, <1>4

Settled == Phases \ {"idle", "managed", "submitted", "recover", "publish"}

(* A step of a session that only waits and sends.                          *)
LEMMA TalkStep ==
  ASSUME Core, NEW s \in Pairs, NEW p \in Ends(s), UNCHANGED <<line, active, local>>,
         NEW ph \in Settled, Go(s, p, ph),
         phase[s][p] \in Settled \/ phase[s][p] = "publish",
         phase[s][p] \in Granted <=> ph \in Granted,
         ph = "issued" => phase[s][p] = "publish" /\ p = Low[s] /\ IsNextProxy(s)
  PROVE  Core'
<1>1. p \in Peers /\ TablesTyped /\ PhasesTyped /\ SessionOK(s, p) /\ ph \in Phases
  BY EndsOfPairs DEF Core, Settled
<1>2. /\ LineOK(p)' /\ Elsewhere(p) /\ SlotInLine(p)' /\ NewIsHighest(p, PairRow(s))
      /\ \A q : Untouched(p, q)
  BY <1>1, TablesKept
<1>3. /\ PhasesTyped' /\ phase'[s][p] = ph
      /\ \A t \in Pairs : \A o \in Ends(t) : t # s \/ o # p => phase'[t][o] = phase[t][o]
  BY <1>1, GoesTo
<1>4. SessionOK(s, p)'
  <2>1. Live(p)' = Live(p)
    BY DEF Live, InLine
  <2>2. /\ Numbered(p, PairRow(s))' <=> Numbered(p, PairRow(s))
        /\ line'[p][PairRow(s)] = line[p][PairRow(s)] /\ active' = active
    BY DEF Numbered
  <2> QED
    BY <1>1, <1>3, <2>1, <2>2 DEF SessionOK, Unnumbered, Settled
<1>5. ASSUME phase'[s][p] = "issued" PROVE IssuedLowest(s)'
  <2>1. p = Low[s] /\ IsNextProxy(s)
    BY <1>3, <1>5
  <2>2. PairRow(s) \in InLine(p)
    BY <1>1 DEF SessionOK, Live, Settled
  <2> SUFFICES ASSUME NEW r \in InLine(p), Unacked(p, r)
               PROVE  line[p][PairRow(s)].order <= line[p][r].order
    BY <2>1 DEF IssuedLowest, InLine, Unacked, Numbered
  <2>3. line[p][r].order \in Nat /\ line[p][PairRow(s)].order \in Nat
    BY <1>1, <2>2, RowFields
  <2> QED
    BY <2>1, <2>3 DEF IsNextProxy, Unacked
<1> QED
  BY <1>2, <1>3, <1>4, <1>5, SessionStep

(* A permit.                                                               *)
LEMMA PermitStep ==
  ASSUME Core, NEW s \in Pairs, NEW p \in Ends(s), Activate(s, p),
         NEW ph \in {"reserved", "started"}, Go(s, p, ph)
  PROVE  Core'
<1>1. p \in Peers /\ TablesTyped /\ PhasesTyped /\ SessionOK(s, p) /\ ph \in Phases
  BY EndsOfPairs DEF Core, Phases, LowPhases, HighPhases
<1>2. /\ line' = line /\ local' = local /\ phase[s][p] = "committed"
      /\ active[p] = None /\ active' = [active EXCEPT ![p] = PairRow(s)]
  BY DEF Activate, Rest
<1>3. LineOK(p)' /\ NewIsHighest(p, PairRow(s))
  BY <1>1, <1>2, TablesKept
<1>4. active' \in [Peers -> Requests \cup {None}] /\ active'[p] = PairRow(s)
      /\ \A o \in Peers \ {p} : active'[o] = active[o]
  BY <1>1, <1>2, RequestsApart DEF TablesTyped
<1>5. Elsewhere(p)
  BY <1>1, <1>2, <1>4 DEF Elsewhere, TablesTyped, InLine
<1>6. \A q \in Requests \ OwnRows(s) : Untouched(p, q)
  BY <1>2, <1>4, RequestsApart DEF Untouched, Live, InLine, Same, OwnRows
<1>7. /\ PhasesTyped' /\ phase'[s][p] = ph
      /\ \A t \in Pairs : \A o \in Ends(t) : t # s \/ o # p => phase'[t][o] = phase[t][o]
  BY <1>1, GoesTo
<1>8. SessionOK(s, p)'
  <2>1. Live(p)' = Live(p) /\ (Numbered(p, PairRow(s))' <=> Numbered(p, PairRow(s)))
    BY <1>2 DEF Live, InLine, Numbered
  <2> QED
    BY <1>1, <1>2, <1>4, <1>7, <2>1 DEF SessionOK, Unnumbered, Granted
<1>9. SlotInLine(p)'
  BY <1>1, <1>2, <1>4 DEF SessionOK, SlotInLine, Live, InLine
<1> QED
  BY <1>2, <1>3, <1>5, <1>6, <1>7, <1>8, <1>9, SessionStep

(* A row of a session changes: only its state and its acknowledgement.     *)
LEMMA AlterStep ==
  ASSUME Core, NEW s \in Pairs, NEW p \in Ends(s), local' = local,
         NEW row \in RowType, Alter(p, PairRow(s), row),
         NEW ph \in Settled \ ({"issued"} \cup Granted), Go(s, p, ph),
         phase[s][p] \in Settled \ Granted,
         ~row.dead, row.order = line[p][PairRow(s)].order, NumberedState(row),
         line[p][PairRow(s)].acked => row.acked,
         row.state = "eligible" => Ready(p, s) \/ Eligible(p, PairRow(s))
  PROVE  Core'
<1> DEFINE r == PairRow(s)
<1>1. p \in Peers /\ TablesTyped /\ PhasesTyped /\ SessionOK(s, p) /\ ph \in Phases
      /\ LineOK(p) /\ SlotInLine(p)
  BY EndsOfPairs DEF Core, Settled
<1>2. r \in Live(p) /\ r \in InLine(p) /\ Numbered(p, r) /\ active[p] # r /\ r.kind = "pair"
  BY <1>1, RequestsApart DEF SessionOK, Live, Settled, Unnumbered
<1>3. active' = active /\ active \in [Peers -> Requests \cup {None}] /\ Change(p, r, row)
  BY <1>1 DEF Alter, TablesTyped
<1>4. Changed(p, r, row)
  BY <1>1, <1>2, <1>3, ChangeMove
<1>5. NumberFree(p, InLine(p), r, row)
  BY <1>1, <1>2 DEF NumberFree, NumberedState, LineOK, NumbersUnique
<1>6. row.state = "eligible" => InPlace(p, r)
  <2>1. Eligible(p, r) => InPlace(p, r)
    BY <1>1, <1>2 DEF LineOK, InOrder, InPlace
  <2>2. Ready(p, s) => InPlace(p, r)
    BY <1>1, <1>2, ReadyInPlace DEF Ready
  <2> QED
    BY <2>1, <2>2
<1>7. LineOK(p)'
  BY <1>1, <1>2, <1>4, <1>5, <1>6, ChangedLine
<1>8. \A q \in Requests \ {r} : Untouched(p, q)
  BY <1>1, <1>3, <1>4, ChangedOthers
<1>9. InLine(p)' = InLine(p) /\ Same(line'[p][r], row) /\ Elsewhere(p)
  BY <1>4 DEF Changed
<1>10. /\ PhasesTyped' /\ phase'[s][p] = ph
       /\ \A t \in Pairs : \A o \in Ends(t) : t # s \/ o # p => phase'[t][o] = phase[t][o]
  BY <1>1, GoesTo
<1>11. SessionOK(s, p)'
  <2>1. r \in Live(p)' /\ Numbered(p, r)'
    BY <1>2, <1>9 DEF Live, Same, Numbered, NumberedState
  <2>2. RecoveryRow(s) \notin Live(p)'
    BY <1>1, <1>8, StillLive, RequestsApart, RowsApart DEF SessionOK, Settled
  <2> QED
    BY <1>2, <1>3, <1>10, <2>1, <2>2 DEF SessionOK, Settled
<1>12. NewIsHighest(p, r)
  BY <1>2, <1>9, RowFields, <1>1 DEF NewIsHighest, Unacked, Same
<1>13. SlotInLine(p)'
  BY <1>1, <1>3, <1>9 DEF SlotInLine
<1>14. phase'[s][p] # "issued" /\ \A q \in Requests \ OwnRows(s) : Untouched(p, q)
  BY <1>8, <1>10 DEF OwnRows
<1> QED
  BY <1>7, <1>9, <1>10, <1>11, <1>12, <1>13, <1>14, SessionStep

NumberHigh(p, R, s, row) ==
  NumberedState(row) /\ ~row.acked =>
    /\ Authority(s) = p
    /\ \A q \in R \ {PairRow(s)} : OfAuthority(p, q, s) => line[p][q].order < row.order

(* A row of a pair is new in the line, or takes the place of one.          *)
LEMMA PlaceStep ==
  ASSUME Core, NEW s \in Pairs, NEW p \in Ends(s), local' = local,
         NEW row \in RowType, ~row.dead, row.state # "eligible",
         NEW ph \in {"managed", "submitted", "publish", "acked"}, Go(s, p, ph),
         phase[s][p] \in Unnumbered,
         ph \in {"publish", "acked"} => NumberedState(row),
         ph = "publish" => ~row.acked,
         NEW R, R = Live(p) \/ R = InLine(p),
         NumberFree(p, R, PairRow(s), row), NumberHigh(p, R, s, row),
         \/ R = Live(p) /\ phase[s][p] = "idle" /\ Enter(p, PairRow(s), row)
         \/ R = InLine(p) /\ phase[s][p] # "idle" /\ Alter(p, PairRow(s), row)
         \/ /\ R = InLine(p) /\ PairRow(s) \in InLine(p)
            /\ Change(p, PairRow(s), row) /\ active' = Cleared(p, {PairRow(s)})
  PROVE  Core'
<1> DEFINE r == PairRow(s)
<1>1. p \in Peers /\ TablesTyped /\ PhasesTyped /\ SessionOK(s, p) /\ ph \in Phases
      /\ LineOK(p) /\ SlotInLine(p) /\ r \in Requests
  BY EndsOfPairs, RequestsApart DEF Core, Phases, LowPhases, HighPhases
<1>2. \/ R = Live(p) /\ r \notin Live(p) /\ Entered(p, r, row)
      \/ /\ R = InLine(p) /\ r \in InLine(p) /\ Changed(p, r, row) /\ active'[p] # r
         /\ \A q \in Requests \ {r} : active'[p] = q <=> active[p] = q
  <2>1. CASE R = Live(p) /\ phase[s][p] = "idle" /\ Enter(p, r, row)
    BY <1>1, <2>1, EnterMove DEF SessionOK
  <2>2. CASE R = InLine(p) /\ phase[s][p] # "idle" /\ Alter(p, r, row)
    <3>1. r \in InLine(p) /\ active[p] # r
      BY <1>1, <2>2 DEF SessionOK, Live, Unnumbered, Granted
    <3>2. active' = active /\ active \in [Peers -> Requests \cup {None}] /\ Change(p, r, row)
      BY <1>1, <2>2 DEF Alter, TablesTyped
    <3>3. Changed(p, r, row)
      BY <1>1, <3>1, <3>2, ChangeMove
    <3> QED
      BY <2>2, <3>1, <3>2, <3>3
  <2>3. CASE /\ R = InLine(p) /\ r \in InLine(p)
             /\ Change(p, r, row) /\ active' = Cleared(p, {r})
    <3>1. /\ active' \in [Peers -> Requests \cup {None}]
          /\ active'[p] = IF active[p] \in {r} THEN None ELSE active[p]
          /\ \A o \in Peers \ {p} : active'[o] = active[o]
      BY <1>1, <2>3, ClearedSlot
    <3>2. Changed(p, r, row)
      BY <1>1, <2>3, <3>1, ChangeMove
    <3> QED
      BY <1>1, <2>3, <3>1, <3>2, RequestsApart
  <2> QED
    BY <2>1, <2>2, <2>3
<1>3. LineOK(p)'
  BY <1>1, <1>2, EnteredLine, ChangedLine
<1>4. \A q \in Requests \ {r} : Untouched(p, q)
  BY <1>1, <1>2, EnteredOthers, ChangedOthers
<1>5. /\ Elsewhere(p) /\ r \in InLine(p)' /\ Same(line'[p][r], row)
      /\ \A q \in InLine(p)' : q # r => q \in R
  BY <1>2 DEF Entered, Changed
<1>6. active'[p] # r /\ SlotInLine(p)'
  <2>1. CASE r \notin Live(p) /\ Entered(p, r, row)
    BY <1>1, <2>1, RequestsApart DEF SlotInLine, Entered, Live, Dead
  <2>2. CASE /\ Changed(p, r, row) /\ active'[p] # r
             /\ \A q \in Requests \ {r} : active'[p] = q <=> active[p] = q
    <3>1. active'[p] \in Requests \cup {None} /\ InLine(p)' = InLine(p)
      BY <1>1, <2>2 DEF Changed, Elsewhere, TablesTyped
    <3> QED
      BY <1>1, <2>2, <3>1, RequestsApart DEF SlotInLine, TablesTyped
  <2> QED
    BY <1>2, <2>1, <2>2
<1>7. /\ PhasesTyped' /\ phase'[s][p] = ph
      /\ \A t \in Pairs : \A o \in Ends(t) : t # s \/ o # p => phase'[t][o] = phase[t][o]
  BY <1>1, GoesTo
<1>8. SessionOK(s, p)'
  <2>1. r \in Live(p)' /\ (Numbered(p, r)' <=> NumberedState(row))
        /\ line'[p][r].acked = row.acked
    BY <1>5 DEF Live, Same, Numbered, NumberedState
  <2>2. RecoveryRow(s) \notin Live(p)'
    BY <1>1, <1>4, StillLive, RequestsApart, RowsApart DEF SessionOK, Unnumbered
  <2> QED
    BY <1>6, <1>7, <2>1, <2>2 DEF SessionOK, Unnumbered, Granted
<1>9. NewIsHighest(p, r)
  <2>1. R \subseteq InLine(p) /\ r.of = s
    BY RequestsApart DEF Live
  <2>2. Same(line'[p][r], row) /\ line'[p][r].order \in Nat
    BY <1>1, <1>5 DEF Elsewhere, TablesTyped, RowType
  <2>3. \A q \in InLine(p)' : q # r =>
           /\ q \in R /\ line[p][q].order \in Nat /\ line'[p][q].order = line[p][q].order
           /\ OfAuthority(p, q, s)' <=> OfAuthority(p, q, s)
    BY <1>1, <1>4, <1>5, <2>1, StillLive, RowFields DEF OfAuthority, Authority, Elsewhere, TablesTyped
  <2>4. SUFFICES ASSUME Unacked(p, r)'
                 PROVE  Authority(s) = p /\ \A q \in InLine(p)' :
                          OfAuthority(p, q, s)' => line'[p][q].order <= line'[p][r].order
    BY <2>1 DEF NewIsHighest, Authority
  <2>5. NumberedState(row) /\ ~row.acked
    BY <2>2, <2>4 DEF Unacked, Numbered, NumberedState, Same
  <2> QED
    BY <2>2, <2>3, <2>5 DEF NumberHigh, Same
<1>10. phase'[s][p] # "issued" /\ \A q \in Requests \ OwnRows(s) : Untouched(p, q)
  BY <1>4, <1>7 DEF OwnRows
<1> QED
  BY <1>3, <1>5, <1>6, <1>7, <1>8, <1>9, <1>10, SessionStep

LEMMA NewRowType ==
  ASSUME NEW state \in States, NEW n \in Nat, NEW b \in BOOLEAN
  PROVE  /\ NewRow(state, n, b) \in RowType
         /\ NewRow(state, n, b).state = state /\ NewRow(state, n, b).order = n
         /\ NewRow(state, n, b).acked = b /\ ~NewRow(state, n, b).dead
BY DEF NewRow, RowType

LEMMA BlankRow ==
  /\ Blank \in RowType /\ Blank.state = "single" /\ ~Blank.dead
  /\ \A p, R, r : NumberFree(p, R, r, Blank)
  /\ \A p, R, s : NumberHigh(p, R, s, Blank)
<1>1. Blank \in RowType /\ Blank.state = "single" /\ ~Blank.dead
  BY DEF Blank, NewRow, RowType, States
<1> QED
  BY <1>1 DEF NumberFree, NumberHigh, NumberedState

(* The request for the slot before a commit.                               *)
LEMMA EnterRecoveryStep ==
  ASSUME Core, NEW s \in Pairs, NEW p \in Ends(s), local' = local,
         phase[s][p] = "prepared", EnterRecovery(s, p)
  PROVE  Core'
<1> DEFINE r == RecoveryRow(s)
<1>1. p \in Peers /\ TablesTyped /\ PhasesTyped /\ SessionOK(s, p) /\ r \in Requests
      /\ LineOK(p) /\ SlotInLine(p) /\ PairRow(s) \in Requests /\ PairRow(s) # r
  BY EndsOfPairs, RequestsApart, RowsApart DEF Core
<1>2. Entered(p, r, Blank)
  BY <1>1, BlankRow, EnterMove DEF EnterRecovery
<1>3. r \notin Live(p)
  BY <1>1 DEF SessionOK
<1>4. LineOK(p)'
  BY <1>1, <1>2, <1>3, BlankRow, EnteredLine
<1>5. \A q \in Requests \ {r} : Untouched(p, q)
  BY <1>1, <1>2, EnteredOthers
<1>6. /\ PhasesTyped' /\ phase'[s][p] = "recover"
      /\ \A t \in Pairs : \A o \in Ends(t) : t # s \/ o # p => phase'[t][o] = phase[t][o]
  BY <1>1, GoesTo DEF EnterRecovery, Phases
<1>7. Elsewhere(p) /\ SlotInLine(p)' /\ r \in Live(p)'
  BY <1>1, <1>2, BlankRow DEF Entered, SlotInLine, Live, Dead, Same
<1>8. PairRow(s) \in Live(p) /\ PairRow(s) \in InLine(p)' /\ Untouched(p, PairRow(s))
  BY <1>1, <1>5 DEF SessionOK, Untouched
<1>9. SessionOK(s, p)'
  BY <1>1, <1>6, <1>7, <1>8, StillLive DEF SessionOK, Unnumbered, Granted, Untouched
<1>10. NewIsHighest(p, PairRow(s))
  BY <1>8, SameIsNotNew DEF Untouched, Same
<1>11. phase'[s][p] # "issued" /\ \A q \in Requests \ OwnRows(s) : Untouched(p, q)
  BY <1>5, <1>6 DEF OwnRows
<1> QED
  BY <1>4, <1>6, <1>7, <1>9, <1>10, <1>11, SessionStep

LEMMA LeaveRecoveryStep ==
  ASSUME Core, NEW s \in Pairs, NEW p \in Ends(s), local' = local,
         phase[s][p] = "recover", Release(p, {RecoveryRow(s)}),
         NEW ph \in {"commit", "answered"}, Go(s, p, ph)
  PROVE  Core'
<1> DEFINE r == RecoveryRow(s)
           R == {r} \cap Live(p)
<1>1. p \in Peers /\ TablesTyped /\ PhasesTyped /\ SessionOK(s, p) /\ r \in Requests
      /\ LineOK(p) /\ SlotInLine(p) /\ PairRow(s) \in Requests /\ PairRow(s) # r
  BY EndsOfPairs, RequestsApart, RowsApart DEF Core
<1>2. Left(p, R)
  BY <1>1, LeavingMove DEF Release
<1>3. LineOK(p)' /\ \A q \in Requests \ {r} : Untouched(p, q)
  BY <1>1, <1>2, LeftLine, LeftOthers
<1>4. /\ PhasesTyped' /\ phase'[s][p] = ph
      /\ \A t \in Pairs : \A o \in Ends(t) : t # s \/ o # p => phase'[t][o] = phase[t][o]
  BY <1>1, GoesTo DEF Phases, LowPhases, HighPhases
<1>5. Elsewhere(p) /\ SlotInLine(p)' /\ r \notin Live(p)'
  BY <1>1, <1>2 DEF Left, SlotInLine, Live, Same
<1>6. PairRow(s) \in Live(p) /\ PairRow(s) \in InLine(p)' /\ Untouched(p, PairRow(s))
  BY <1>1, <1>3 DEF SessionOK, Untouched
<1>7. SessionOK(s, p)'
  BY <1>1, <1>4, <1>5, <1>6, StillLive DEF SessionOK, Unnumbered, Granted, Untouched
<1>8. NewIsHighest(p, PairRow(s))
  BY <1>6, SameIsNotNew DEF Untouched, Same
<1>9. phase'[s][p] # "issued" /\ \A q \in Requests \ OwnRows(s) : Untouched(p, q)
  BY <1>3, <1>4 DEF OwnRows
<1> HIDE DEF R
<1> QED
  BY <1>3, <1>4, <1>5, <1>7, <1>8, <1>9, SessionStep

(* A process dies: its rows stay, and nobody has them.                     *)
LEMMA CrashStep ==
  ASSUME Core, NEW s \in Pairs, NEW p \in Ends(s), Crash(s, p)
  PROVE  Core'
<1>1. p \in Peers /\ TablesTyped /\ PhasesTyped /\ LineOK(p) /\ SlotInLine(p)
  BY EndsOfPairs DEF Core
<1>2. Marked(p, OwnRows(s)) /\ local' = local /\ Go(s, p, "idle")
  BY <1>1, MarkMove DEF Crash, Hangup
<1>3. LineOK(p)' /\ \A q \in Requests \ OwnRows(s) : Untouched(p, q)
  BY <1>1, <1>2, MarkedLine, MarkedOthers
<1>4. /\ PhasesTyped' /\ phase'[s][p] = "idle"
      /\ \A t \in Pairs : \A o \in Ends(t) : t # s \/ o # p => phase'[t][o] = phase[t][o]
  BY <1>1, <1>2, GoesTo DEF Phases
<1>5. Elsewhere(p) /\ SlotInLine(p)'
  BY <1>1, <1>2 DEF Marked, SlotInLine
<1>6. PairRow(s) \notin Live(p)' /\ RecoveryRow(s) \notin Live(p)'
  BY <1>2 DEF Marked, MarkedRow, Live, OwnRows
<1>7. SessionOK(s, p)'
  BY <1>4, <1>6 DEF SessionOK, Unnumbered
<1>8. NewIsHighest(p, PairRow(s))
  BY <1>2, SameIsNotNew DEF Marked, MarkedRow
<1> QED
  BY <1>2, <1>3, <1>4, <1>5, <1>7, <1>8, SessionStep

(* A step of a local request, or of a sweep.                               *)
LEMMA OtherStep ==
  ASSUME Core, NEW p \in Peers, Elsewhere(p), LineOK(p)', SlotInLine(p)', phase' = phase,
         NEW O, \A q \in Requests \ O : Untouched(p, q), \A r \in O : r.kind = "local",
         local' \in [Locals -> {"idle", "waiting", "active"}],
         \A l \in Locals : LocalRow(l) \in O => LocalOK(l)',
         \A l \in Locals : LocalRow(l) \notin O => local'[l] = local[l]
  PROVE  Core'
<1>1. TablesTyped /\ TablesTyped' /\ PhasesTyped'
  BY DEF Core, Elsewhere, PhasesTyped
<1>2. \A o \in Peers, q \in Requests : o # p \/ q \notin O => Untouched(o, q)
  BY <1>1, ElsewhereUntouched
<1>3. ASSUME NEW o \in Peers PROVE LineOK(o)' /\ SlotInLine(o)'
  <2>1. CASE o = p
    BY <2>1
  <2>2. CASE o # p
    <3>1. line'[o] = line[o] /\ LineOK(o) /\ active'[o] = active[o] /\ SlotInLine(o)
      BY <2>2 DEF Elsewhere, Core
    <3>2. LineOK(o)'
      BY <3>1 DEF LineOK, Ordered, NumbersUnique, PairsNumbered, InOrder,
                  InLine, Before, Numbered, Eligible
    <3> QED
      BY <3>1, <3>2 DEF SlotInLine, InLine
  <2> QED
    BY <2>1, <2>2
<1>4. ASSUME NEW t \in Pairs, NEW o \in Ends(t) PROVE SessionOK(t, o)'
  <2>1. o \in Peers /\ PairRow(t) \in Requests \ O /\ RecoveryRow(t) \in Requests \ O
    BY EndsOfPairs, RequestsApart
  <2>2. Untouched(o, PairRow(t)) /\ Untouched(o, RecoveryRow(t)) /\ SessionOK(t, o)
    BY <1>2, <2>1 DEF Core
  <2> QED
    BY <2>2, SessionKept
<1>5. ASSUME NEW l \in Locals PROVE LocalOK(l)'
  <2>1. At[l] \in Peers /\ LocalRow(l) \in Requests
    BY PairsAreOrdered, RequestsApart
  <2>2. CASE LocalRow(l) \in O
    BY <2>2
  <2>3. CASE LocalRow(l) \notin O
    BY <1>2, <2>1, <2>3, LocalKept DEF Core
  <2> QED
    BY <2>2, <2>3
<1>6. ASSUME NEW t \in Pairs PROVE IssuedLowest(t)'
  <2>1. /\ Low[t] \in Peers /\ SessionOK(t, Low[t]) /\ IssuedLowest(t)
        /\ PairRow(t) \notin O /\ phase'[t][Low[t]] = phase[t][Low[t]]
    BY EndsOfPairs, RequestsApart DEF Core
  <2>2. \A q \in Requests \ O : Untouched(Low[t], q)
    BY <1>2, <2>1
  <2>3. \A r \in O : NewIsHighest(Low[t], r)
    BY <1>3, <2>1 DEF LineOK, PairsNumbered, NewIsHighest, Unacked
  <2> QED
    BY <1>1, <2>1, <2>2, <2>3, IssuedKept
<1> QED
  BY <1>1, <1>3, <1>4, <1>5, <1>6 DEF Core

LEMMA LocalEnqueueStep ==
  ASSUME Core, NEW l \in Locals, LocalEnqueue(l)
  PROVE  Core'
<1> DEFINE p == At[l]
           r == LocalRow(l)
<1>1. /\ p \in Peers /\ TablesTyped /\ LineOK(p) /\ SlotInLine(p) /\ r \in Requests
      /\ r \notin Live(p)
  BY PairsAreOrdered, RequestsApart DEF Core, LocalOK, LocalEnqueue
<1>2. /\ Entered(p, r, Blank) /\ phase' = phase
      /\ local' = [local EXCEPT ![l] = "waiting"]
  BY <1>1, BlankRow, EnterMove DEF LocalEnqueue, session
<1>3. LineOK(p)' /\ \A q \in Requests \ {r} : Untouched(p, q)
  BY <1>1, <1>2, BlankRow, EnteredLine, EnteredOthers
<1>4. Elsewhere(p) /\ SlotInLine(p)' /\ r \in Live(p)'
  BY <1>1, <1>2, BlankRow DEF Entered, SlotInLine, Live, Dead, Same
<1>5. /\ local' \in [Locals -> {"idle", "waiting", "active"}]
      /\ local'[l] = "waiting" /\ \A k \in Locals \ {l} : local'[k] = local[k]
  BY <1>2 DEF Core
<1>6. LocalOK(l)'
  BY <1>4, <1>5 DEF LocalOK
<1>7. /\ \A k \in Locals : LocalRow(k) \in {r} => LocalOK(k)'
      /\ \A k \in Locals : LocalRow(k) \notin {r} => local'[k] = local[k]
  BY <1>5, <1>6, RowsApart
<1>8. \A q \in {r} : q.kind = "local"
  BY RequestsApart
<1> HIDE DEF r
<1> QED
  BY <1>1, <1>2, <1>3, <1>4, <1>5, <1>7, <1>8, OtherStep

LEMMA LocalActivateStep ==
  ASSUME Core, NEW l \in Locals, LocalActivate(l)
  PROVE  Core'
<1> DEFINE p == At[l]
           r == LocalRow(l)
<1>1. /\ p \in Peers /\ TablesTyped /\ LineOK(p) /\ SlotInLine(p) /\ r \in Requests
      /\ r \in Live(p)
  BY PairsAreOrdered, RequestsApart DEF Core, LocalOK, LocalActivate
<1>2. /\ line' = line /\ phase' = phase /\ active[p] = None
      /\ active' = [active EXCEPT ![p] = r] /\ local' = [local EXCEPT ![l] = "active"]
  BY DEF LocalActivate, session
<1>3. LineOK(p)'
  BY <1>1, <1>2, TablesKept
<1>4. /\ active' \in [Peers -> Requests \cup {None}] /\ active'[p] = r
      /\ \A o \in Peers \ {p} : active'[o] = active[o]
  BY <1>1, <1>2 DEF TablesTyped
<1>5. Elsewhere(p) /\ SlotInLine(p)' /\ r \in Live(p)'
  BY <1>1, <1>2, <1>4 DEF Elsewhere, TablesTyped, SlotInLine, InLine, Live
<1>6. \A q \in Requests \ {r} : Untouched(p, q)
  BY <1>2, <1>4, RequestsApart DEF Untouched, Live, InLine, Same
<1>7. /\ local' \in [Locals -> {"idle", "waiting", "active"}]
      /\ local'[l] = "active" /\ \A k \in Locals \ {l} : local'[k] = local[k]
  BY <1>2 DEF Core
<1>8. LocalOK(l)'
  BY <1>5, <1>7 DEF LocalOK
<1>9. /\ \A k \in Locals : LocalRow(k) \in {r} <=> k = l
      /\ \A q \in {r} : q.kind = "local"
  BY RowsApart, RequestsApart
<1> QED
  BY <1>1, <1>2, <1>3, <1>5, <1>6, <1>7, <1>8, <1>9, OtherStep

LEMMA LocalFinishStep ==
  ASSUME Core, NEW l \in Locals, LocalFinish(l)
  PROVE  Core'
<1> DEFINE p == At[l]
           r == LocalRow(l)
           R == {r} \cap Live(p)
<1>1. p \in Peers /\ TablesTyped /\ LineOK(p) /\ SlotInLine(p) /\ r \in Requests
  BY PairsAreOrdered, RequestsApart DEF Core
<1>2. Left(p, R) /\ phase' = phase /\ local' = [local EXCEPT ![l] = "idle"]
  BY <1>1, LeavingMove DEF LocalFinish, Release, session
<1>3. LineOK(p)' /\ \A q \in Requests \ {r} : Untouched(p, q)
  BY <1>1, <1>2, LeftLine, LeftOthers
<1>4. Elsewhere(p) /\ SlotInLine(p)' /\ r \notin Live(p)'
  BY <1>1, <1>2 DEF Left, SlotInLine, Live, Same
<1>5. /\ local' \in [Locals -> {"idle", "waiting", "active"}]
      /\ local'[l] = "idle" /\ \A k \in Locals \ {l} : local'[k] = local[k]
  BY <1>2 DEF Core
<1>6. LocalOK(l)'
  BY <1>4, <1>5 DEF LocalOK
<1>7. /\ \A k \in Locals : LocalRow(k) \in {r} => LocalOK(k)'
      /\ \A k \in Locals : LocalRow(k) \notin {r} => local'[k] = local[k]
      /\ \A q \in {r} : q.kind = "local"
  BY <1>5, <1>6, RowsApart, RequestsApart
<1> HIDE DEF R, r
<1> QED
  BY <1>1, <1>2, <1>3, <1>4, <1>5, <1>7, OtherStep

LEMMA SweepStep ==
  ASSUME Core, NEW p \in Peers, Sweep(p)
  PROVE  Core'
<1> DEFINE O == {q \in Requests : FALSE}
<1>1. TablesTyped /\ LineOK(p) /\ SlotInLine(p)
  BY DEF Core
<1>2. Left(p, Dead(p)) /\ phase' = phase /\ local' = local
  BY <1>1, LeavingMove DEF Sweep, SweepDead, session
<1>3. LineOK(p)' /\ \A q \in Requests \ O : Untouched(p, q)
  BY <1>1, <1>2, LeftLine, LeftOthers DEF Dead
<1>4. Elsewhere(p) /\ SlotInLine(p)'
  BY <1>1, <1>2 DEF Left, SlotInLine
<1>5. local' \in [Locals -> {"idle", "waiting", "active"}]
  BY <1>2 DEF Core
<1>6. \A q : q \notin O
  OBVIOUS
<1> HIDE DEF O
<1> QED
  BY <1>2, <1>3, <1>4, <1>5, <1>6, OtherStep

----------------------------------------------------------------------------
(* Every action is one of these steps.                                     *)

RestTyped ==
  /\ intent \in SUBSET Peers /\ yielded \in [Peers -> SUBSET Pairs]
  /\ wire \in [Pairs -> Message] /\ closed \in SUBSET Pairs
  /\ resets \in [Pairs -> Nat] /\ crashes \in Nat

LEMMA NothingStep ==
  ASSUME Core, UNCHANGED <<line, active, phase, local>>
  PROVE  Core'
<1>1. TablesTyped' /\ PhasesTyped' /\ local' \in [Locals -> {"idle", "waiting", "active"}]
  BY DEF Core, TablesTyped, PhasesTyped, InLine
<1>2. \A p \in Peers : LineOK(p)' /\ SlotInLine(p)' /\ \A q : Untouched(p, q)
  BY TablesKept
<1>3. \A s \in Pairs : \A p \in Ends(s) : SessionOK(s, p)'
  BY <1>2, EndsOfPairs, SessionKept DEF Core
<1>4. \A l \in Locals : LocalOK(l)'
  BY <1>2, PairsAreOrdered, LocalKept DEF Core
<1>5. \A s \in Pairs : IssuedLowest(s)'
  BY DEF Core, IssuedLowest, Unacked, Numbered, InLine
<1> QED
  BY <1>1, <1>2, <1>3, <1>4, <1>5 DEF Core

LEMMA SessionOfEnd ==
  ASSUME Core, NEW s \in Pairs, NEW p \in Ends(s)
  PROVE  /\ p \in Peers /\ SessionOK(s, p) /\ LineOK(p) /\ TablesTyped /\ phase[s][p] \in Phases
         /\ phase[s][p] # "idle" =>
              /\ PairRow(s) \in InLine(p) /\ line[p][PairRow(s)] \in RowType
              /\ ~line[p][PairRow(s)].dead
BY EndsOfPairs DEF Core, SessionOK, Live, TablesTyped, PhasesTyped

(* A number that is given is higher than the others of the authority.      *)
LEMMA NumberGiven ==
  ASSUME Core, NEW s \in Pairs, NEW n \in 1 .. MaxOrder, NEW R,
         R = (IF phase[s][Low[s]] = "managed" THEN InLine(Low[s]) ELSE Live(Low[s])),
         IsNextOrder(Low[s], s, n)
  PROVE  LET row == NewRow("parked", n, FALSE)
         IN  /\ row \in RowType /\ ~row.dead /\ row.state = "parked" /\ ~row.acked
             /\ NumberFree(Low[s], R, PairRow(s), row) /\ NumberHigh(Low[s], R, s, row)
<1> DEFINE p   == Low[s]
           row == NewRow("parked", n, FALSE)
<1>1. n \in Nat /\ p \in Peers /\ TablesTyped /\ R \subseteq InLine(p)
      /\ PairRow(s).kind = "pair" /\ PairRow(s).of = s
  BY PairsAreOrdered, EndsOfPairs, RequestsApart DEF Core, Live
<1>2. row \in RowType /\ row.state = "parked" /\ row.order = n /\ ~row.acked /\ ~row.dead
  BY <1>1 DEF NewRow, RowType, States
<1> HIDE DEF row
<1>3. ASSUME NEW q \in R, OfAuthority(p, q, s) PROVE line[p][q].order < n
  <2> DEFINE orders == {line[p][r].order : r \in {t \in R : OfAuthority(p, t, s)}}
  <2>1. \A m \in orders : m < n
    BY DEF IsNextOrder
  <2>2. line[p][q].order \in orders
    BY <1>3
  <2> QED
    BY <2>1, <2>2
<1>4. \A q \in R : line[p][q].order \in Nat
  BY <1>1, RowFields
<1>5. NumberFree(p, R, PairRow(s), row)
  BY <1>1, <1>2, <1>3, <1>4 DEF NumberFree, OfAuthority, Authority
<1>6. NumberHigh(p, R, s, row)
  BY <1>2, <1>3 DEF NumberHigh, Authority
<1> QED
  BY <1>2, <1>5, <1>6 DEF row

LEMMA LowNumbersStep ==
  ASSUME Core, NEW s \in Pairs, LowNumbers(s), phase[s][Low[s]] \in {"idle", "managed"}
  PROVE  Core'
<1> DEFINE p == Low[s]
           R == IF phase[s][p] = "managed" THEN InLine(p) ELSE Live(p)
<1>1. p \in Ends(s) /\ local' = local /\ Go(s, p, "publish")
  BY EndsOfPairs DEF LowNumbers
<1>2. PICK n \in 1 .. MaxOrder : IsNextOrder(p, s, n) /\ NewPlace(s, p, NewRow("parked", n, FALSE))
  BY DEF LowNumbers
<1> DEFINE row == NewRow("parked", n, FALSE)
<1>3. /\ row \in RowType /\ ~row.dead /\ row.state = "parked" /\ ~row.acked
      /\ NumberFree(p, R, PairRow(s), row) /\ NumberHigh(p, R, s, row)
  BY <1>2, NumberGiven
<1> HIDE DEF row
<1>4. NumberedState(row) /\ row.state # "eligible"
  BY <1>3 DEF NumberedState
<1>5. CASE phase[s][p] = "managed"
  <2>1. R = InLine(p) /\ Alter(p, PairRow(s), row)
    BY <1>2, <1>5 DEF NewPlace, row
  <2> QED
    BY <1>1, <1>3, <1>4, <1>5, <2>1, PlaceStep DEF Unnumbered
<1>6. CASE phase[s][p] = "idle"
  <2>1. R = Live(p) /\ Enter(p, PairRow(s), row)
    BY <1>2, <1>6 DEF NewPlace, row
  <2> QED
    BY <1>1, <1>3, <1>4, <1>6, <2>1, PlaceStep DEF Unnumbered
<1> QED
  BY <1>5, <1>6

LEMMA ConnectCore ==
  ASSUME Core, NEW s \in Pairs, ConnectStep(s)
  PROVE  Core'
<1>1. /\ Connector[s] \in Ends(s) /\ Low[s] \in Ends(s) /\ High[s] \in Ends(s)
  BY EndsOfPairs
<1>2. CASE ManagedEnqueue(s)
  <2> DEFINE p == Connector[s]
  <2>1. local' = local /\ Go(s, p, "managed") /\ phase[s][p] = "idle"
    BY <1>2 DEF ManagedEnqueue
  <2>2. CASE PairRow(s) \in InLine(p) /\ Change(p, PairRow(s), Blank) /\ active' = Cleared(p, {PairRow(s)})
    BY <1>1, <2>1, <2>2, BlankRow, PlaceStep DEF Unnumbered
  <2>3. CASE Enter(p, PairRow(s), Blank)
    BY <1>1, <2>1, <2>3, BlankRow, PlaceStep DEF Unnumbered
  <2> QED
    BY <1>2, <2>2, <2>3 DEF ManagedEnqueue
<1>3. CASE ManagedStop(s)
  BY <1>1, <1>3, LeaveStep DEF ManagedStop
<1>4. CASE ManagedRefused(s)
  BY <1>1, <1>4, LeaveStep DEF ManagedRefused, Leave, Hangup
<1>5. CASE LowConnects(s)
  BY <1>5, LowNumbersStep DEF LowConnects, Connects
<1>6. CASE HighConnects(s)
  <2> DEFINE p   == High[s]
             row == NewRow("pending", 0, FALSE)
  <2>1. /\ local' = local /\ Go(s, p, "submitted") /\ phase[s][p] \in {"idle", "managed"}
        /\ NewPlace(s, p, row)
    BY <1>6 DEF HighConnects, Connects
  <2>2. row \in RowType /\ row.state = "pending" /\ ~row.dead
    BY DEF NewRow, RowType, States
  <2> HIDE DEF row
  <2>3. \A R : NumberFree(p, R, PairRow(s), row) /\ NumberHigh(p, R, s, row)
    BY <2>2 DEF NumberFree, NumberHigh, NumberedState
  <2>4. CASE phase[s][p] = "idle"
    <3>1. Enter(p, PairRow(s), row)
      BY <2>1, <2>4 DEF NewPlace
    <3> QED
      BY <1>1, <2>1, <2>2, <2>3, <2>4, <3>1, PlaceStep DEF Unnumbered
  <2>5. CASE phase[s][p] = "managed"
    <3>1. Alter(p, PairRow(s), row)
      BY <2>1, <2>5 DEF NewPlace
    <3> QED
      BY <1>1, <2>1, <2>2, <2>3, <2>5, <3>1, PlaceStep DEF Unnumbered
  <2> QED
    BY <2>1, <2>4, <2>5
<1> QED
  BY <1>2, <1>3, <1>4, <1>5, <1>6 DEF ConnectStep

(* A row becomes prepared, eligible or parked.                             *)
LEMMA BecomeStep ==
  ASSUME Core, NEW s \in Pairs, NEW p \in Ends(s), local' = local,
         NEW state \in {"parked", "prepared", "eligible"}, Become(s, p, state),
         NEW ph \in Settled \ ({"issued"} \cup Granted), Go(s, p, ph),
         phase[s][p] \in Settled \ Granted,
         state = "eligible" => Ready(p, s)
  PROVE  Core'
<1> DEFINE old == line[p][PairRow(s)]
           row == [old EXCEPT !.state = state]
<1>1. old \in RowType /\ ~old.dead
  BY SessionOfEnd DEF Settled
<1>2. row \in RowType /\ row.state = state /\ row.order = old.order
      /\ row.acked = old.acked /\ ~row.dead
  BY <1>1 DEF RowType, States
<1>3. Alter(p, PairRow(s), row)
  BY DEF Become
<1> HIDE DEF row
<1>4. NumberedState(row)
  BY <1>2 DEF NumberedState
<1> QED
  BY <1>2, <1>3, <1>4, AlterStep

LEMMA LowCore ==
  ASSUME Core, NEW s \in Pairs, LowStep(s)
  PROVE  Core'
<1> DEFINE p == Low[s]
<1>1. p \in Ends(s)
  BY EndsOfPairs
<1>2. CASE LowAccepts(s)
  BY <1>2, LowNumbersStep DEF LowAccepts
<1>3. CASE LowRefuses(s)
  BY <1>3, NothingStep DEF LowRefuses, tables
<1>4. CASE LowPublish(s)
  BY <1>1, <1>4, TalkStep DEF LowPublish, tables, Settled, Phases, LowPhases, Granted
<1>5. CASE LowAcknowledged(s)
  <2> DEFINE old == line[p][PairRow(s)]
             row == [old EXCEPT !.acked = TRUE]
  <2>1. phase[s][p] = "issued" /\ local' = local /\ Go(s, p, "prepare")
        /\ Alter(p, PairRow(s), row)
    BY <1>5 DEF LowAcknowledged, Rest
  <2>2. old \in RowType /\ ~old.dead /\ Numbered(p, PairRow(s))
    BY <1>1, <2>1, SessionOfEnd DEF SessionOK, Unnumbered
  <2>3. row \in RowType /\ row.state = old.state /\ row.order = old.order
        /\ row.acked /\ ~row.dead
    BY <2>2 DEF RowType
  <2> HIDE DEF row
  <2>4. NumberedState(row)
    BY <2>2, <2>3 DEF NumberedState, Numbered
  <2>5. row.state = "eligible" => Eligible(p, PairRow(s))
    BY <2>3 DEF Eligible
  <2> QED
    BY <1>1, <2>1, <2>3, <2>4, <2>5, AlterStep DEF Settled, Phases, LowPhases, Granted
<1>6. CASE LowPrepare(s)
  BY <1>1, <1>6, BecomeStep DEF LowPrepare, Rest, Settled, Phases, LowPhases, Granted
<1>7. CASE LowPrepareAcked(s)
  BY <1>1, <1>7, EnterRecoveryStep DEF LowPrepareAcked, Rest
<1>8. CASE LowRecovered(s)
  BY <1>1, <1>8, LeaveRecoveryStep DEF LowRecovered, Recovered
<1>9. CASE LowCommit(s)
  BY <1>1, <1>9, BecomeStep DEF LowCommit, MayCommit, Rest, Settled, Phases, LowPhases, Granted
<1>10. CASE LowReset(s)
  BY <1>1, <1>10, BecomeStep DEF LowReset, Rest, Settled, Phases, LowPhases, Granted
<1>11. CASE LowTooManyResets(s)
  BY <1>1, <1>11, LeaveStep DEF LowTooManyResets, GiveUp, Leave, Hangup
<1>12. CASE LowResetAcked(s)
  BY <1>1, <1>12, TalkStep DEF LowResetAcked, Rest, Settled, Phases, LowPhases, Granted
<1>13. CASE LowActivate(s)
  BY <1>1, <1>13, PermitStep DEF LowActivate
<1>14. CASE LowStarts(s)
  BY <1>1, <1>14, TalkStep DEF LowStarts, Rest, Settled, Phases, LowPhases, Granted
<1> QED
  BY <1>2, <1>3, <1>4, <1>5, <1>6, <1>7, <1>8, <1>9, <1>10, <1>11, <1>12, <1>13, <1>14 DEF LowStep

(* The row of a proxy has a free number, and is acknowledged.              *)
LEMMA ProxyGiven ==
  ASSUME NEW s \in Pairs, wire[s].order \in Nat, NEW R, OrderIsFree(s, R)
  PROVE  /\ ProxyRow(s) \in RowType /\ ~ProxyRow(s).dead /\ ProxyRow(s).state # "eligible"
         /\ NumberedState(ProxyRow(s))
         /\ NumberFree(High[s], R, PairRow(s), ProxyRow(s))
         /\ NumberHigh(High[s], R, s, ProxyRow(s))
<1>1. /\ ProxyRow(s) \in RowType /\ ~ProxyRow(s).dead /\ ProxyRow(s).state = "parked"
      /\ ProxyRow(s).acked /\ ProxyRow(s).order = wire[s].order
  BY DEF ProxyRow, NewRow, RowType, States
<1>2. NumberFree(High[s], R, PairRow(s), ProxyRow(s))
  BY <1>1, RequestsApart DEF NumberFree, OrderIsFree, OfAuthority, Authority
<1> QED
  BY <1>1, <1>2 DEF NumberHigh, NumberedState

LEMMA HighCore ==
  ASSUME Core, RestTyped, NEW s \in Pairs, HighStep(s)
  PROVE  Core'
<1> DEFINE p == High[s]
<1>1. p \in Ends(s) /\ wire[s].order \in Nat
  BY EndsOfPairs DEF RestTyped, Message
<1>2. CASE HighAccepts(s)
  BY <1>1, <1>2, ProxyGiven, PlaceStep DEF HighAccepts, Rest, Unnumbered
<1>3. CASE HighConvert(s)
  BY <1>1, <1>3, ProxyGiven, PlaceStep DEF HighConvert, Rest, Unnumbered
<1>4. CASE HighRefuses(s)
  BY <1>1, <1>4, LeaveStep DEF HighRefuses, Leave, Hangup
<1>5. CASE HighPrepare(s)
  BY <1>1, <1>5, BecomeStep DEF HighPrepare, Rest, Settled, Phases, HighPhases, Granted
<1>6. CASE HighRecovers(s)
  BY <1>1, <1>6, EnterRecoveryStep DEF HighRecovers, Rest
<1>7. CASE HighRecovered(s)
  BY <1>1, <1>7, LeaveRecoveryStep DEF HighRecovered, Recovered
<1>8. CASE HighReset(s)
  BY <1>1, <1>8, BecomeStep DEF HighReset, Rest, Settled, Phases, HighPhases, Granted
<1>9. CASE HighCommit(s)
  BY <1>1, <1>9, BecomeStep DEF HighCommit, MayCommit, Rest, Settled, Phases, HighPhases, Granted
<1>10. CASE HighCommitFails(s)
  BY <1>1, <1>10, LeaveStep DEF HighCommitFails, Leave, Hangup
<1>11. CASE HighActivate(s)
  BY <1>1, <1>11, PermitStep DEF HighActivate
<1>12. CASE HighRuns(s)
  BY <1>1, <1>12, TalkStep DEF HighRuns, Rest, Settled, Phases, HighPhases, Granted
<1> QED
  BY <1>2, <1>3, <1>4, <1>5, <1>6, <1>7, <1>8, <1>9, <1>10, <1>11, <1>12 DEF HighStep

LEMMA EndCore ==
  ASSUME Core, NEW s \in Pairs, NEW p \in Ends(s), EndStep(s, p)
  PROVE  Core'
<1>1. Leave(s, p)
  BY DEF EndStep, LeaseExpires, Disconnected, Finish, GiveUp
<1> QED
  BY <1>1, LeaveStep DEF Leave, Hangup

LEMMA CoreStep ==
  ASSUME Core, RestTyped, [Next]_vars
  PROVE  Core'
<1>1. CASE UNCHANGED vars
  BY <1>1, NothingStep DEF vars, tables, session
<1>2. ASSUME NEW s \in Pairs, ConnectStep(s) \/ LowStep(s) \/ HighStep(s) PROVE Core'
  BY <1>2, ConnectCore, LowCore, HighCore
<1>3. ASSUME NEW s \in Pairs, NEW p \in Ends(s), EndStep(s, p) \/ Crash(s, p) PROVE Core'
  BY <1>3, EndCore, CrashStep
<1>4. ASSUME NEW l \in Locals, LocalEnqueue(l) \/ LocalStep(l) PROVE Core'
  BY <1>4, LocalEnqueueStep, LocalActivateStep, LocalFinishStep DEF LocalStep
<1>5. ASSUME NEW p \in Peers, Sweep(p) PROVE Core'
  BY <1>5, SweepStep
<1>6. ASSUME NEW p \in Peers, YieldExpires(p) PROVE Core'
  BY <1>6, NothingStep DEF YieldExpires, session
<1> QED
  BY <1>1, <1>2, <1>3, <1>4, <1>5, <1>6 DEF Next

LEMMA CoreInit ==
  ASSUME Init
  PROVE  Core
<1>1. /\ \A p \in Peers : line[p] = [r \in {} |-> Blank] /\ active[p] = None
      /\ line = [p \in Peers |-> line[p]]
      /\ \A s \in Pairs : \A p \in Ends(s) : phase[s][p] = "idle"
      /\ \A l \in Locals : local[l] = "idle"
  BY DEF Init
<1>2. \A p \in Peers : InLine(p) = {}
  BY <1>1 DEF InLine
<1>3. TablesTyped
  <2>1. \A p \in Peers : line[p] \in [InLine(p) -> RowType]
    BY <1>1, <1>2
  <2>2. active \in [Peers -> Requests \cup {None}]
    BY DEF Init
  <2> QED
    BY <1>1, <1>2, <2>1, <2>2 DEF TablesTyped
<1>4. PhasesTyped /\ local \in [Locals -> {"idle", "waiting", "active"}]
  BY DEF Init, PhasesTyped, Phases
<1>5. \A p \in Peers : LineOK(p) /\ SlotInLine(p) /\ Live(p) = {}
  BY <1>1, <1>2 DEF LineOK, Ordered, NumbersUnique, PairsNumbered, InOrder, SlotInLine, Live
<1>6. \A s \in Pairs : \A p \in Ends(s) : SessionOK(s, p)
  BY <1>1, <1>5, EndsOfPairs DEF SessionOK, Unnumbered
<1>7. \A l \in Locals : LocalOK(l)
  BY <1>1, <1>5, PairsAreOrdered DEF LocalOK
<1>8. \A s \in Pairs : IssuedLowest(s)
  BY <1>1, EndsOfPairs DEF IssuedLowest
<1> QED
  BY <1>3, <1>4, <1>5, <1>6, <1>7, <1>8 DEF Core

----------------------------------------------------------------------------
(* The connection.                                                         *)

(* While neither end has given up, the higher end has its slot, or is told *)
(* that it may take it, only when the lower has its own.                   *)
Handshake(s) ==
  /\ wire[s].type = "PendingAuthority" => phase[s][High[s]] \in Unnumbered
  /\ s \notin closed /\ (wire[s].type = "SyncReserved" \/ phase[s][High[s]] \in Granted)
     => phase[s][Low[s]] \in Granted

IInv == Core /\ RestTyped /\ \A s \in Pairs : Handshake(s)

LEMMA MessageTypes ==
  /\ [type |-> "none", order |-> 0] \in Message
  /\ \A type \in ForLow \cup ForHigh : [type |-> type, order |-> 0] \in Message
  /\ \A n \in Nat : [type |-> "ProxyIssue", order |-> n] \in Message
BY DEF Message, ForLow, ForHigh

LEMMA MessageSent ==
  ASSUME NEW s, NEW type \in ForLow \cup ForHigh, Send(s, type)
  PROVE  \E m \in Message : m.type = type /\ wire' = [wire EXCEPT ![s] = m]
BY MessageTypes DEF Send

(* A message is put on the wire, or taken from it, while an end moves on.  *)
LEMMA TalkKeeps ==
  ASSUME IInv, NEW s \in Pairs, NEW p \in Ends(s), NEW ph \in Phases, Go(s, p, ph),
         NEW m \in Message, wire' = [wire EXCEPT ![s] = m] \/ (UNCHANGED wire /\ m = wire[s]),
         closed' \in {closed, closed \cup {s}, closed \ {s}},
         LET high == IF p = High[s] THEN ph ELSE phase[s][High[s]]
             low  == IF p = Low[s] THEN ph ELSE phase[s][Low[s]]
         IN  /\ m.type = "PendingAuthority" => high \in Unnumbered
             /\ s \notin closed' /\ (m.type = "SyncReserved" \/ high \in Granted)
                => low \in Granted
  PROVE  /\ wire' \in [Pairs -> Message] /\ closed' \in SUBSET Pairs
         /\ \A t \in Pairs : Handshake(t)'
<1>1. PhasesTyped /\ wire \in [Pairs -> Message] /\ closed \in SUBSET Pairs
  BY DEF IInv, Core, RestTyped
<1>2. wire' \in [Pairs -> Message] /\ wire'[s] = m /\ \A t \in Pairs \ {s} : wire'[t] = wire[t]
  BY <1>1
<1>3. closed' \in SUBSET Pairs /\ \A t \in Pairs \ {s} : t \in closed' <=> t \in closed
  BY <1>1
<1>4. /\ phase'[s][High[s]] = (IF p = High[s] THEN ph ELSE phase[s][High[s]])
      /\ phase'[s][Low[s]] = (IF p = Low[s] THEN ph ELSE phase[s][Low[s]])
      /\ \A t \in Pairs \ {s} : \A o \in Ends(t) : phase'[t][o] = phase[t][o]
  BY <1>1, GoesTo, EndsOfPairs
<1>5. Handshake(s)'
  BY <1>2, <1>4 DEF Handshake
<1>6. ASSUME NEW t \in Pairs \ {s} PROVE Handshake(t)'
  BY <1>2, <1>3, <1>4, <1>6, EndsOfPairs DEF IInv, Handshake
<1> QED
  BY <1>2, <1>3, <1>5, <1>6

LEMMA HangupKeeps ==
  ASSUME IInv, NEW s \in Pairs, NEW p \in Ends(s), Hangup(s, p)
  PROVE  /\ wire' \in [Pairs -> Message] /\ closed' \in SUBSET Pairs /\ resets' \in [Pairs -> Nat]
         /\ \A t \in Pairs : Handshake(t)'
<1> DEFINE over == \A q \in Ends(s) \ {p} : phase[s][q] \in {"idle", "managed"} /\ ~Opens(s, q)
<1>1. /\ Go(s, p, "idle") /\ "idle" \in Phases
      /\ closed' = (IF over THEN closed \ {s} ELSE closed \cup {s})
      /\ (IF over \/ Incoming(s, p) THEN Quiet(s) ELSE UNCHANGED wire)
      /\ resets' = [resets EXCEPT ![s] = IF p = Low[s] THEN 0 ELSE @]
  BY DEF Hangup, Phases
<1>2. over => \A q \in Ends(s) \ {p} : phase[s][q] \in {"idle", "managed"}
  OBVIOUS
<1> HIDE DEF over
<1>3. /\ Handshake(s) /\ wire[s] \in Message /\ closed \in SUBSET Pairs /\ NoMessage \in Message
      /\ resets \in [Pairs -> Nat] /\ NoMessage.type = "none"
  BY MessageTypes DEF IInv, RestTyped, NoMessage
<1>4. p \in {Low[s], High[s]} /\ Low[s] # High[s] /\ Low[s] \in Ends(s) /\ High[s] \in Ends(s)
  BY EndsOfPairs DEF Ends
<1>5. PICK m \in Message : /\ wire' = [wire EXCEPT ![s] = m] \/ (UNCHANGED wire /\ m = wire[s])
                           /\ m.type = "none" \/ (~over /\ m = wire[s])
  <2>1. CASE over \/ Incoming(s, p)
    BY <1>1, <1>3, <2>1 DEF Quiet
  <2>2. CASE ~(over \/ Incoming(s, p))
    BY <1>1, <1>3, <2>2
  <2> QED
    BY <2>1, <2>2
<1>6. CASE over
  <2>1. m.type = "none" /\ s \notin closed' /\ closed' = closed \ {s}
    BY <1>1, <1>3, <1>5, <1>6
  <2>2. p # High[s] => phase[s][High[s]] \in {"idle", "managed"}
    BY <1>2, <1>4, <1>6
  <2> QED
    BY <1>1, <1>3, <2>1, <2>2, TalkKeeps, <1>5 DEF Granted
<1>7. CASE ~over
  <2>1. s \in closed' /\ closed' = closed \cup {s}
    BY <1>1, <1>7
  <2>2. m.type = "PendingAuthority" => phase[s][High[s]] \in Unnumbered
    BY <1>3, <1>5 DEF Handshake
  <2> QED
    BY <1>1, <1>3, <2>1, <2>2, TalkKeeps, <1>5 DEF Unnumbered
<1> QED
  BY <1>6, <1>7

Told == \A t \in Pairs : Handshake(t)'

WireTyped == wire' \in [Pairs -> Message] /\ closed' \in SUBSET Pairs

LEMMA LowTalks ==
  ASSUME IInv, NEW s \in Pairs, LowStep(s)
  PROVE  Told /\ WireTyped
<1> DEFINE p == Low[s]
<1> USE DEF Told, WireTyped
<1>1. /\ p \in Ends(s) /\ Handshake(s) /\ wire[s] \in Message /\ p # High[s]
      /\ NoMessage \in Message /\ NoMessage.type = "none"
      /\ closed \in {closed, closed \cup {s}, closed \ {s}}
  BY EndsOfPairs, MessageTypes DEF IInv, RestTyped, NoMessage
<1>2. CASE LowAccepts(s)
  <2>1. /\ Go(s, p, "publish") /\ Quiet(s) /\ closed' = closed
        /\ phase[s][High[s]] \in Unnumbered
    BY <1>1, <1>2 DEF LowAccepts, LowNumbers, Opens, Receive, Handshake
  <2> QED
    BY <1>1, <2>1, TalkKeeps DEF Quiet, Phases, LowPhases, Unnumbered, Granted
<1>3. CASE LowRefuses(s)
  <2>1. /\ closed' = closed \cup {s} \/ closed' = closed \ {s}
        /\ wire' = [wire EXCEPT ![s] = NoMessage] /\ phase' = phase
        /\ phase[s][High[s]] \in Unnumbered
    BY <1>1, <1>3 DEF LowRefuses, Opens, Receive, Handshake, Quiet
  <2>2. wire \in [Pairs -> Message] /\ closed \in SUBSET Pairs
    BY DEF IInv, RestTyped
  <2> QED
    BY <1>1, <2>1, <2>2 DEF IInv, Handshake, Unnumbered, Granted
<1>4. CASE LowPublish(s)
  <2> DEFINE m == [type |-> "ProxyIssue", order |-> line[p][PairRow(s)].order]
  <2>1. /\ Go(s, p, "issued") /\ phase[s][p] = "publish" /\ closed' = closed
        /\ wire' = [wire EXCEPT ![s] = m]
    BY <1>4 DEF LowPublish
  <2>2. line[p][PairRow(s)].order \in Nat
    BY <1>1, <2>1, SessionOfEnd DEF IInv, RowType
  <2>3. m \in Message /\ m.type = "ProxyIssue"
    BY <2>2, MessageTypes
  <2> HIDE DEF m
  <2> QED
    BY <1>1, <2>1, <2>3, TalkKeeps DEF Handshake, Phases, LowPhases, Granted
<1>5. CASE LowAcknowledged(s) \/ LowResetAcked(s) \/ LowPrepareAcked(s)
  <2>1. /\ Go(s, p, "prepare") \/ Go(s, p, "recover")
        /\ Quiet(s) /\ closed' = closed
        /\ phase[s][p] \in {"issued", "resetting", "prepared"}
    BY <1>5 DEF LowAcknowledged, LowResetAcked, LowPrepareAcked, EnterRecovery, Rest
  <2> QED
    BY <1>1, <2>1, TalkKeeps DEF Handshake, Quiet, Phases, LowPhases, Granted
<1>6. CASE LowPrepare(s) \/ LowCommit(s) \/ LowReset(s)
  <2>1. PICK ph \in {"prepared", "committed", "resetting"},
             type \in {"PairPrepare", "PairCommit", "PairReset"} : Go(s, p, ph) /\ Send(s, type)
    BY <1>6 DEF LowPrepare, LowCommit, LowReset
  <2>2. closed' = closed /\ phase[s][p] \in {"prepare", "commit"}
    BY <1>6 DEF LowPrepare, LowCommit, LowReset, Rest
  <2>3. PICK m \in Message : m.type = type /\ wire' = [wire EXCEPT ![s] = m]
    BY <2>1, MessageSent DEF ForHigh
  <2> QED
    BY <1>1, <2>1, <2>2, <2>3, TalkKeeps DEF Handshake, Phases, LowPhases, Granted
<1>7. CASE LowRecovered(s)
  <2>1. /\ Go(s, p, "commit") /\ UNCHANGED wire /\ closed' = closed
        /\ phase[s][p] = "recover"
    BY <1>7 DEF LowRecovered, Recovered
  <2> QED
    BY <1>1, <2>1, TalkKeeps DEF Handshake, Phases, LowPhases, Granted
<1>8. CASE LowTooManyResets(s)
  BY <1>1, <1>8, HangupKeeps DEF LowTooManyResets, GiveUp, Leave
<1>9. CASE LowActivate(s) \/ LowStarts(s)
  <2>1. PICK ph \in {"reserved", "running"}, type \in {"SyncReserved", "SyncAccepted"} :
          Go(s, p, ph) /\ Send(s, type)
    BY <1>9 DEF LowActivate, LowStarts
  <2>2. closed' = closed
    BY <1>9 DEF LowActivate, LowStarts, Activate, Rest
  <2>3. PICK m \in Message : m.type = type /\ wire' = [wire EXCEPT ![s] = m]
    BY <2>1, MessageSent DEF ForHigh
  <2> QED
    BY <1>1, <2>1, <2>2, <2>3, TalkKeeps DEF Handshake, Phases, LowPhases, Granted
<1> QED
  BY <1>2, <1>3, <1>4, <1>5, <1>6, <1>7, <1>8, <1>9 DEF LowStep

LEMMA HighTalks ==
  ASSUME IInv, NEW s \in Pairs, HighStep(s)
  PROVE  Told /\ WireTyped
<1> DEFINE p == High[s]
<1> USE DEF Told, WireTyped
<1>1. /\ p \in Ends(s) /\ Handshake(s) /\ wire[s] \in Message /\ p # Low[s]
      /\ NoMessage \in Message /\ NoMessage.type = "none"
      /\ closed \in {closed, closed \cup {s}, closed \ {s}}
  BY EndsOfPairs, MessageTypes DEF IInv, RestTyped, NoMessage
<1>2. CASE HighRefuses(s) \/ HighCommitFails(s)
  BY <1>1, <1>2, HangupKeeps DEF HighRefuses, HighCommitFails, Leave
<1>3. CASE HighAccepts(s) \/ HighConvert(s) \/ HighReset(s) \/ HighCommit(s) \/ HighRecovered(s)
  <2>1. PICK ph \in {"acked", "committed", "answered"},
             type \in {"ProxyAck", "PairResetAck", "PairCommitAck", "PairPrepareAck"} :
          Go(s, p, ph) /\ Send(s, type)
    BY <1>3 DEF HighAccepts, HighConvert, HighReset, HighCommit, HighRecovered
  <2>2. closed' = closed
    BY <1>3 DEF HighAccepts, HighConvert, HighReset, HighCommit, HighRecovered, Recovered, Rest
  <2>3. PICK m \in Message : m.type = type /\ wire' = [wire EXCEPT ![s] = m]
    BY <2>1, MessageSent DEF ForLow
  <2> QED
    BY <1>1, <2>1, <2>2, <2>3, TalkKeeps DEF Phases, HighPhases, Granted
<1>4. CASE HighPrepare(s)
  <2>1. /\ Go(s, p, "prepared") /\ wire' = [wire EXCEPT ![s] = NoMessage]
        /\ closed' \in {closed, closed \cup {s}, closed \ {s}}
    BY <1>4 DEF HighPrepare, Quiet, Rest
  <2>2. "prepared" \in Phases /\ "prepared" \notin Granted
    BY DEF Phases, Granted
  <2> QED
    BY <1>1, <2>1, <2>2, TalkKeeps
<1>5. CASE HighRecovers(s)
  <2>1. /\ Go(s, p, "recover") /\ UNCHANGED wire /\ closed' = closed
        /\ phase[s][p] = "prepared"
    BY <1>5 DEF HighRecovers, EnterRecovery, Rest
  <2> QED
    BY <1>1, <2>1, TalkKeeps DEF Handshake, Phases, Unnumbered, Granted
<1>6. CASE HighActivate(s)
  <2>1. /\ Go(s, p, "started") /\ Send(s, "SyncStart") /\ closed' = closed
        /\ wire[s].type = "SyncReserved"
    BY <1>6 DEF HighActivate, Receive, Activate, Rest
  <2>2. PICK m \in Message : m.type = "SyncStart" /\ wire' = [wire EXCEPT ![s] = m]
    BY <2>1, MessageSent DEF ForLow
  <2> QED
    BY <1>1, <2>1, <2>2, TalkKeeps DEF Handshake, Phases, HighPhases, Granted
<1>7. CASE HighRuns(s)
  <2>1. /\ Go(s, p, "running") /\ Quiet(s) /\ closed' = closed
        /\ phase[s][p] = "started"
    BY <1>7 DEF HighRuns, Rest
  <2> QED
    BY <1>1, <2>1, TalkKeeps DEF Handshake, Quiet, Phases, Granted
<1> QED
  BY <1>2, <1>3, <1>4, <1>5, <1>6, <1>7 DEF HighStep

LEMMA ConnectTalks ==
  ASSUME IInv, NEW s \in Pairs, ConnectStep(s)
  PROVE  Told /\ WireTyped
<1> USE DEF Told, WireTyped
<1>1. /\ Handshake(s) /\ wire[s] \in Message /\ Low[s] # High[s]
      /\ Connector[s] \in Ends(s) /\ Low[s] \in Ends(s) /\ High[s] \in Ends(s)
      /\ NoMessage \in Message /\ NoMessage.type = "none"
      /\ closed \in {closed, closed \cup {s}, closed \ {s}}
  BY EndsOfPairs, MessageTypes DEF IInv, RestTyped, NoMessage
<1>2. CASE ManagedEnqueue(s) \/ ManagedStop(s)
  <2> DEFINE p == Connector[s]
  <2>1. PICK ph \in {"idle", "managed"} : Go(s, p, ph)
    BY <1>2 DEF ManagedEnqueue, ManagedStop
  <2>2. /\ UNCHANGED <<wire, closed>> /\ phase[s][p] \in {"idle", "managed"}
    BY <1>2 DEF ManagedEnqueue, ManagedStop
  <2> QED
    BY <1>1, <2>1, <2>2, TalkKeeps DEF Handshake, Phases, Unnumbered, Granted
<1>3. CASE ManagedRefused(s)
  BY <1>1, <1>3, HangupKeeps DEF ManagedRefused, Leave
<1>4. CASE LowConnects(s)
  <2>1. /\ Go(s, Low[s], "publish") /\ Quiet(s) /\ closed' = closed \ {s}
        /\ phase[s][High[s]] = "idle"
    BY <1>1, <1>4 DEF LowConnects, LowNumbers, Connects
  <2> QED
    BY <1>1, <2>1, TalkKeeps DEF Quiet, Phases, LowPhases, Unnumbered, Granted
<1>5. CASE HighConnects(s)
  <2>1. /\ Go(s, High[s], "submitted") /\ Send(s, "PendingAuthority") /\ closed' = closed \ {s}
    BY <1>5 DEF HighConnects, Connects
  <2>2. PICK m \in Message : m.type = "PendingAuthority" /\ wire' = [wire EXCEPT ![s] = m]
    BY <2>1, MessageSent DEF ForLow
  <2> QED
    BY <1>1, <2>1, <2>2, TalkKeeps DEF Phases, HighPhases, Unnumbered, Granted
<1> QED
  BY <1>2, <1>3, <1>4, <1>5 DEF ConnectStep

(* The other variables.                                                    *)
OthersTyped ==
  /\ intent' \in SUBSET Peers /\ yielded' \in [Peers -> SUBSET Pairs]
  /\ resets' \in [Pairs -> Nat] /\ crashes' \in Nat

LEMMA LeaveTypes ==
  ASSUME IInv, NEW s \in Pairs, NEW p \in Ends(s), Leave(s, p),
         Yields(s, p) \/ Complete(p) \/ UNCHANGED yielded
  PROVE  OthersTyped
<1>1. RestTyped /\ p \in Peers
  BY EndsOfPairs DEF IInv
<1>2. yielded' \in [Peers -> SUBSET Pairs]
  BY <1>1 DEF RestTyped, Yields, Complete
<1> QED
  BY <1>1, <1>2, HangupKeeps DEF RestTyped, OthersTyped, Leave

LEMMA ConnectTypes ==
  ASSUME IInv, NEW s \in Pairs, ConnectStep(s)
  PROVE  OthersTyped
<1>1. RestTyped /\ Connector[s] \in Ends(s)
  BY EndsOfPairs DEF IInv
<1>2. CASE ManagedEnqueue(s) \/ ManagedStop(s) \/ LowConnects(s) \/ HighConnects(s)
  <2>1. UNCHANGED <<intent, yielded, resets, crashes>>
    BY <1>2 DEF ManagedEnqueue, ManagedStop, LowConnects, HighConnects, LowNumbers
  <2> QED
    BY <1>1, <2>1 DEF OthersTyped, RestTyped
<1>3. CASE ManagedRefused(s)
  BY <1>1, <1>3, LeaveTypes DEF ManagedRefused
<1> QED
  BY <1>2, <1>3 DEF ConnectStep

LEMMA LowTypes ==
  ASSUME IInv, NEW s \in Pairs, LowStep(s)
  PROVE  OthersTyped
<1>1. RestTyped /\ Low[s] \in Ends(s) /\ Low[s] \in Peers
  BY EndsOfPairs DEF IInv
<1>2. CASE LowRecovered(s)
  <2>1. /\ yielded' = [yielded EXCEPT ![Low[s]] = {}] /\ intent' = intent \ {Low[s]}
        /\ UNCHANGED <<resets, crashes>>
    BY <1>2 DEF LowRecovered, Recovered, Complete
  <2> QED
    BY <1>1, <2>1 DEF OthersTyped, RestTyped
<1>3. CASE LowTooManyResets(s)
  BY <1>1, <1>3, LeaveTypes DEF LowTooManyResets, GiveUp
<1>4. CASE LowReset(s)
  <2>1. UNCHANGED <<intent, yielded, crashes>> /\ resets' = [resets EXCEPT ![s] = @ + 1]
    BY <1>4 DEF LowReset, Rest
  <2> QED
    BY <1>1, <2>1 DEF OthersTyped, RestTyped
<1>5. CASE \/ LowAccepts(s) \/ LowRefuses(s) \/ LowPublish(s) \/ LowAcknowledged(s)
           \/ LowPrepare(s) \/ LowPrepareAcked(s) \/ LowCommit(s) \/ LowResetAcked(s)
           \/ LowActivate(s) \/ LowStarts(s)
  <2>1. UNCHANGED <<intent, yielded, resets, crashes>>
    BY <1>5 DEF LowAccepts, LowNumbers, LowRefuses, LowPublish, LowAcknowledged, LowPrepare,
                LowPrepareAcked, LowCommit, LowResetAcked, LowActivate, Activate, LowStarts,
                Rest, tables
  <2> QED
    BY <1>1, <2>1 DEF OthersTyped, RestTyped
<1> QED
  BY <1>2, <1>3, <1>4, <1>5 DEF LowStep

LEMMA HighTypes ==
  ASSUME IInv, NEW s \in Pairs, HighStep(s)
  PROVE  OthersTyped
<1>1. RestTyped /\ High[s] \in Ends(s) /\ High[s] \in Peers
  BY EndsOfPairs DEF IInv
<1>2. CASE HighRecovered(s)
  <2>1. /\ yielded' = [yielded EXCEPT ![High[s]] = {}] /\ intent' = intent \ {High[s]}
        /\ UNCHANGED <<resets, crashes>>
    BY <1>2 DEF HighRecovered, Recovered, Complete
  <2> QED
    BY <1>1, <2>1 DEF OthersTyped, RestTyped
<1>3. CASE HighRefuses(s) \/ HighCommitFails(s)
  BY <1>1, <1>3, LeaveTypes DEF HighRefuses, HighCommitFails
<1>4. CASE \/ HighAccepts(s) \/ HighConvert(s) \/ HighPrepare(s) \/ HighRecovers(s)
           \/ HighReset(s) \/ HighCommit(s) \/ HighActivate(s) \/ HighRuns(s)
  <2>1. UNCHANGED <<intent, yielded, resets, crashes>>
    BY <1>4 DEF HighAccepts, HighConvert, HighPrepare, HighRecovers, HighReset, HighCommit,
                HighActivate, Activate, HighRuns, Rest
  <2> QED
    BY <1>1, <2>1 DEF OthersTyped, RestTyped
<1> QED
  BY <1>2, <1>3, <1>4 DEF HighStep

(* What touches no connection.                                             *)
LEMMA QuietStep ==
  ASSUME IInv, UNCHANGED session
  PROVE  Told /\ WireTyped /\ resets' \in [Pairs -> Nat]
BY DEF IInv, RestTyped, Told, WireTyped, Handshake, session

LEMMA InvariantStep ==
  ASSUME IInv, [Next]_vars
  PROVE  IInv'
<1>1. Core /\ RestTyped /\ Core'
  BY CoreStep DEF IInv
<1>2. SUFFICES Told /\ WireTyped /\ OthersTyped
  BY <1>1 DEF IInv, RestTyped, Told, WireTyped, OthersTyped
<1>3. CASE UNCHANGED vars
  <2>1. UNCHANGED session /\ UNCHANGED <<intent, yielded, resets, crashes>>
    BY <1>3 DEF vars, tables, session
  <2> QED
    BY <1>1, <2>1, QuietStep DEF OthersTyped, RestTyped
<1>4. ASSUME NEW s \in Pairs, ConnectStep(s) \/ LowStep(s) \/ HighStep(s)
      PROVE  Told /\ WireTyped /\ OthersTyped
  BY <1>4, ConnectTalks, LowTalks, HighTalks, ConnectTypes, LowTypes, HighTypes
<1>5. ASSUME NEW s \in Pairs, NEW p \in Ends(s), EndStep(s, p)
      PROVE  Told /\ WireTyped /\ OthersTyped
  <2>1. Leave(s, p) /\ (Yields(s, p) \/ Complete(p) \/ UNCHANGED yielded)
    BY <1>5 DEF EndStep, LeaseExpires, Disconnected, Finish, GiveUp
  <2> QED
    BY <2>1, HangupKeeps, LeaveTypes DEF Leave, Told, WireTyped
<1>6. ASSUME NEW s \in Pairs, NEW p \in Ends(s), Crash(s, p)
      PROVE  Told /\ WireTyped /\ OthersTyped
  <2>1. /\ Hangup(s, p) /\ crashes' = crashes + 1 /\ UNCHANGED yielded /\ p \in Peers
        /\ intent' \in {intent, intent \cup {p}}
    BY <1>6, EndsOfPairs DEF Crash
  <2> QED
    BY <1>1, <2>1, HangupKeeps DEF Told, WireTyped, OthersTyped, RestTyped
<1>7. ASSUME NEW l \in Locals, LocalEnqueue(l) \/ LocalStep(l)
      PROVE  Told /\ WireTyped /\ OthersTyped
  <2>1. /\ UNCHANGED <<session, crashes>> /\ At[l] \in Peers
        /\ intent' \in {intent, intent \ {At[l]}} /\ (Complete(At[l]) \/ UNCHANGED yielded)
    BY <1>7, PairsAreOrdered DEF LocalEnqueue, LocalStep, LocalActivate, LocalFinish
  <2>2. yielded' \in [Peers -> SUBSET Pairs]
    BY <1>1, <2>1 DEF RestTyped, Complete
  <2> QED
    BY <1>1, <2>1, <2>2, QuietStep DEF OthersTyped, RestTyped
<1>8. ASSUME NEW p \in Peers, Sweep(p) \/ YieldExpires(p)
      PROVE  Told /\ WireTyped /\ OthersTyped
  <2>1. /\ UNCHANGED <<session, crashes, intent>> /\ (Complete(p) \/ UNCHANGED yielded)
    BY <1>8 DEF Sweep, YieldExpires
  <2>2. yielded' \in [Peers -> SUBSET Pairs]
    BY <1>1, <2>1 DEF RestTyped, Complete
  <2> QED
    BY <1>1, <2>1, <2>2, QuietStep DEF OthersTyped, RestTyped
<1> QED
  BY <1>3, <1>4, <1>5, <1>6, <1>7, <1>8 DEF Next

LEMMA InvariantInit ==
  ASSUME Init
  PROVE  IInv
<1>1. RestTyped
  BY MessageTypes DEF Init, RestTyped, NoMessage
<1>2. \A s \in Pairs : Handshake(s)
  BY EndsOfPairs DEF Init, Handshake, NoMessage, Granted
<1> QED
  BY <1>1, <1>2, CoreInit DEF IInv

LEMMA Invariance == Spec => []IInv
<1>1. Init => IInv
  BY InvariantInit
<1>2. IInv /\ [Next]_vars => IInv'
  BY InvariantStep
<1> QED
  BY <1>1, <1>2, PTL DEF Spec

----------------------------------------------------------------------------
(* The theorems.                                                           *)

(* Every variable keeps its type.                                          *)
THEOREM TypeCorrect == Spec => []TypeOK
<1>1. IInv => TypeOK
  BY DEF IInv, Core, RestTyped, TypeOK
<1> QED
  BY <1>1, Invariance, PTL

(* The higher end has its slot for a pair only when the lower has its own, *)
(* or one of them has given up: slots are taken in the order of identities.*)
THEOREM SlotsInOneOrder == Spec => []LowerFirst
<1>1. IInv => LowerFirst
  <2> SUFFICES ASSUME IInv, NEW s \in Pairs, Holds(s, High[s]), s \notin closed
               PROVE  Holds(s, Low[s])
    BY DEF LowerFirst
  <2>1. SessionOK(s, High[s]) /\ SessionOK(s, Low[s]) /\ Handshake(s)
    BY EndsOfPairs DEF IInv, Core
  <2>2. phase[s][High[s]] \in Granted
    BY <2>1 DEF SessionOK, Holds
  <2>3. phase[s][Low[s]] \in Granted
    BY <2>1, <2>2 DEF Handshake
  <2> QED
    BY <2>1, <2>3 DEF SessionOK, Holds, Granted
<1> QED
  BY <1>1, Invariance, PTL

(* At each installation the eligible pairs of an authority stand in the    *)
(* order of their numbers.                                                 *)
THEOREM NumbersAreServedInOrder == Spec => []EligibleInOrder
<1>1. IInv => EligibleInOrder
  BY DEF IInv, Core, LineOK, InOrder, EligibleInOrder
<1> QED
  BY <1>1, Invariance, PTL

(* An authority has one number on its way at a time.                       *)
THEOREM NumbersTravelAlone == Spec => []OneProxyAtATime
<1>1. IInv => OneProxyAtATime
  <2> SUFFICES ASSUME IInv, NEW s \in Pairs, NEW t \in Pairs, Low[s] = Low[t],
                      phase[s][Low[s]] = "issued", phase[t][Low[t]] = "issued"
               PROVE  s = t
    BY DEF OneProxyAtATime
  <2> DEFINE p == Low[s]
  <2>1. /\ p \in Peers /\ TablesTyped /\ LineOK(p)
        /\ SessionOK(s, p) /\ SessionOK(t, p) /\ IssuedLowest(s) /\ IssuedLowest(t)
    BY EndsOfPairs DEF IInv, Core
  <2>2. /\ PairRow(s) \in InLine(p) /\ Unacked(p, PairRow(s))
        /\ PairRow(t) \in InLine(p) /\ Unacked(p, PairRow(t))
    BY <2>1 DEF SessionOK, Live, Unnumbered, Unacked
  <2>3. line[p][PairRow(s)].order \in Nat /\ line[p][PairRow(t)].order \in Nat
    BY <2>1, <2>2, RowFields
  <2>4. line[p][PairRow(s)].order = line[p][PairRow(t)].order
    BY <2>1, <2>2, <2>3 DEF IssuedLowest
  <2>5. PairRow(s) = PairRow(t)
    BY <2>1, <2>2, <2>4, RequestsApart DEF LineOK, NumbersUnique, Unacked, Authority
  <2> QED
    BY <2>5, RowsApart
<1> QED
  BY <1>1, Invariance, PTL
=============================================================================
