---------------------------- MODULE WatchProofs ----------------------------
(***************************************************************************)
(* Proofs about a watch session, for any paths and owners, any number of   *)
(* writes, heartbeats and lost connections, and any length of the pipes.   *)
(*                                                                         *)
(* Most of an argument about a round is where the two ends are and which   *)
(* frames are between them.  Talk says it of the types of the frames alone *)
(* and of the order in which they may be on a wire (MayFollow); a step is  *)
(* summed up by what it takes and writes (Turn, Speaks), so that tables    *)
(* of types are all that its proof looks at.  A frame that is on a wire    *)
(* then tells where both ends are (Placed).                                *)
(*                                                                         *)
(* Cycling adds which paths each end defers: the ends agree from the       *)
(* request of a round to the last word on it, and the end that has found   *)
(* an invalid path is one step ahead until the other hears of it.  Beats   *)
(* is about the heartbeat.  Sharing is about the files: the scans that are *)
(* exchanged (Theirs), what has changed since a scan has been noticed      *)
(* (Scanned), and between rounds every path is shared, or a round will     *)
(* come for it, or both ends report it (Covered).                          *)
(***************************************************************************)
EXTENDS Watch, SequenceTheorems, TLAPS

Entries == [Paths -> Nat]
Cycles  == [retried : BOOLEAN, deferred : SUBSET Paths]

Plain  == {"WatchOpen", "Reserve", "Reserved", "Need", "Done", "Applied", "Finished", "Changed",
           "Error"}
Frames ==
  [type : Plain, arg : {None}] \cup [type : {"Ready"}, arg : SUBSET Paths]
    \cup [type : {"Ping", "Pong"}, arg : Nat] \cup [type : {"Snapshot", "Plan"}, arg : Entries]
    \cup [type : {"Invalidated"}, arg : Paths]

DataTyped ==
  /\ disk \in [Ends -> Entries] /\ edits \in Entries
  /\ \A p \in Hot : disk[OwnerOf[p]][p] \in {0, 1}
  /\ scan \in [Ends -> Entries] /\ theirs \in [Ends -> Entries]

SignalsTyped ==
  /\ event \in [Ends -> BOOLEAN] /\ ahead \in [Ends -> BOOLEAN] /\ due \in [Ends -> BOOLEAN]
  /\ token \in BOOLEAN /\ remoteAhead \in BOOLEAN

RoundTyped ==
  /\ startup \in BOOLEAN /\ cycle \in [Ends -> Cycles] /\ unsettled \in [Ends -> SUBSET Paths]
  /\ awaiting \in Nat /\ pings \in Nat /\ failures \in Nat

ConnectorPlaces ==
  {"off", "opening", "idle", "reserving", "scanned", "objects", "proposed", "applying"}
ResponderPlaces ==
  {"off", "ready", "idle", "reserved", "serving", "planning", "apply", "applied"}

AtTyped ==
  at = [e \in Ends |-> at[e]] /\ at[C] \in ConnectorPlaces /\ at[R] \in ResponderPlaces

WireTyped == wire \in [Ends -> Seq(Frames)] /\ open \in BOOLEAN

TypeOK == DataTyped /\ SignalsTyped /\ RoundTyped /\ AtTyped /\ WireTyped

----------------------------------------------------------------------------
(* Lemmas about the frames on a wire.                                      *)

(* Which frames can be on a wire before another one.                       *)
MayFollow(late, early) ==
  \/ late = "Changed"  /\ early \in {"Changed", "Pong", "Invalidated"}
  \/ late = "Pong"     /\ early \in {"Changed", "Pong"}
  \/ late = "Reserved" /\ early \in {"Changed", "Pong"}
  \/ late = "Snapshot" /\ early \in {"Changed", "Pong", "Reserved"}
  \/ late = "Error"    /\ early \in {"Changed", "Pong", "Invalidated"}
  \/ late = "Ping"     /\ early \in {"Ping", "Finished"}
  \/ late = "Reserve"  /\ early \in {"Ready", "Ping", "Finished", "Invalidated"}

InOrder(q) == \A j, k \in DOMAIN q : j < k => MayFollow(q[k].type, q[j].type)

Lone(q, t) == \A j, k \in DOMAIN q : q[j].type = t /\ q[k].type = t => j = k

LEMMA EndsAre ==
  /\ C \in Ends /\ R \in Ends /\ C # R /\ \A e \in Ends : e = C \/ e = R
  /\ Other(C) = R /\ Other(R) = C
BY DEF Ends, Other, C, R

(* What is left when the first frame is taken.                             *)
Rest(q, r) ==
  /\ Range(q) = {Head(q)} \cup Range(r) /\ Range(r) \subseteq Range(q)
  /\ InOrder(q) => InOrder(r) /\ \A m \in Range(r) : MayFollow(m.type, Head(q).type)
  /\ \A t : Lone(q, t) => Lone(r, t) /\ (Head(q).type = t => \A m \in Range(r) : m.type # t)

LEMMA TailOf ==
  ASSUME NEW q \in Seq(Frames), q # <<>>
  PROVE  Tail(q) \in Seq(Frames) /\ Head(q) \in Frames /\ Rest(q, Tail(q))
<1> DEFINE r == Tail(q)
<1>1. /\ Len(q) \in Nat \ {0} /\ Head(q) = q[1] /\ DOMAIN q = 1 .. Len(q)
      /\ r \in Seq(Frames) /\ Len(r) = Len(q) - 1 /\ DOMAIN r = 1 .. Len(r)
      /\ \A i \in 1 .. Len(r) : r[i] = q[i + 1]
  BY HeadTailProperties, LenProperties, EmptySeq
<1> HIDE DEF r
<1>2. /\ 1 \in DOMAIN q /\ \A i \in DOMAIN r : i + 1 \in DOMAIN q /\ 1 < i + 1 /\ r[i] = q[i + 1]
      /\ \A i \in DOMAIN q : i = 1 \/ (i - 1 \in DOMAIN r /\ r[i - 1] = q[i])
  BY <1>1
<1>3. Head(q) \in Range(q) /\ Range(r) \subseteq Range(q)
  BY <1>1, <1>2 DEF Range
<1>a. ASSUME NEW i \in DOMAIN q PROVE q[i] \in {Head(q)} \cup Range(r)
  <2>1. CASE i = 1
    BY <1>1, <2>1
  <2>2. CASE i - 1 \in DOMAIN r /\ r[i - 1] = q[i]
    BY <2>2 DEF Range
  <2> QED
    BY <1>2, <2>1, <2>2
<1>b. Range(q) = {Head(q)} \cup Range(r)
  BY <1>3, <1>a DEF Range
<1>4. ASSUME InOrder(q)
      PROVE  InOrder(r) /\ \A m \in Range(r) : MayFollow(m.type, Head(q).type)
  <2>1. InOrder(r)
    BY <1>1, <1>2, <1>4 DEF InOrder
  <2>2. \A i \in DOMAIN r : MayFollow(r[i].type, Head(q).type)
    BY <1>1, <1>2, <1>4 DEF InOrder
  <2> QED
    BY <2>1, <2>2 DEF Range
<1>5. ASSUME NEW t, Lone(q, t)
      PROVE  Lone(r, t) /\ (Head(q).type = t => \A m \in Range(r) : m.type # t)
  <2>1. Lone(r, t)
    BY <1>1, <1>2, <1>5 DEF Lone
  <2>2. Head(q).type = t => \A i \in DOMAIN r : r[i].type # t
    BY <1>1, <1>2, <1>5 DEF Lone
  <2> QED
    BY <2>1, <2>2 DEF Range
<1>6. Head(q) \in Frames
  BY <1>1, ElementOfSeq
<1> QED
  BY <1>1, <1>3, <1>b, <1>4, <1>5, <1>6 DEF r, Rest

(* What is left when the frames at the end are lost.                       *)
LEMMA PrefixOf ==
  ASSUME NEW q \in Seq(Frames), NEW n \in 0 .. Len(q)
  PROVE  LET r == SubSeq(q, 1, n)
         IN  /\ r \in Seq(Frames) /\ Range(r) \subseteq Range(q)
             /\ InOrder(q) => 
                  /\ InOrder(r)
                  /\ \A m \in Range(r) : \A l \in Range(q) :
                       m.type # l.type /\ ~MayFollow(l.type, m.type) => l \in Range(r)
             /\ \A t : Lone(q, t) => Lone(r, t)
<1> DEFINE r == SubSeq(q, 1, n)
<1>0. Len(q) \in Nat /\ n \in Nat /\ n <= Len(q) /\ DOMAIN q = 1 .. Len(q)
  BY LenProperties
<1>1. r \in Seq(Frames) /\ Len(r) = n /\ \A i \in 1 .. n : r[i] = q[i]
  <2>1. \A i \in 1 .. n : q[i] \in Frames
    BY <1>0, ElementOfSeq
  <2>2. n - 1 + 1 = n /\ (IF 1 <= n THEN n - 1 + 1 ELSE 0) = n /\ \A i \in 1 .. n : 1 + i - 1 = i
    BY <1>0
  <2> QED
    BY <1>0, <2>1, <2>2, SubSeqProperties
<1>2. DOMAIN r = 1 .. n
  BY <1>1, LenProperties
<1> HIDE DEF r
<1>3. /\ Range(r) \subseteq Range(q) /\ (InOrder(q) => InOrder(r))
      /\ \A t : Lone(q, t) => Lone(r, t)
  BY <1>0, <1>1, <1>2 DEF Range, InOrder, Lone
<1>4. ASSUME InOrder(q), NEW i \in DOMAIN r, NEW j \in DOMAIN q,
             r[i].type # q[j].type, ~MayFollow(q[j].type, r[i].type)
      PROVE  q[j] \in Range(r)
  <2>1. i \in DOMAIN q /\ r[i] = q[i] /\ i # j /\ ~(i < j)
    BY <1>0, <1>1, <1>2, <1>4 DEF InOrder
  <2>2. j \in DOMAIN r /\ r[j] = q[j]
    BY <1>0, <1>1, <1>2, <2>1
  <2> QED
    BY <2>2 DEF Range
<1>5. InOrder(q) => \A m \in Range(r) : \A l \in Range(q) :
        m.type # l.type /\ ~MayFollow(l.type, m.type) => l \in Range(r)
  BY <1>4 DEF Range
<1> QED
  BY <1>1, <1>3, <1>5 DEF r

(* What is there when frames are added.                                    *)
LEMMA Longer ==
  ASSUME NEW q \in Seq(Frames), NEW m \in Seq(Frames)
  PROVE  /\ q \o m \in Seq(Frames) /\ Range(q \o m) = Range(q) \cup Range(m)
         /\ InOrder(q) /\ InOrder(m) /\ (\A a \in Range(q), b \in Range(m) : MayFollow(b.type, a.type))
              => InOrder(q \o m)
         /\ \A t : Lone(q, t) /\ (\A b \in Range(m) : b.type # t) => Lone(q \o m, t)
         /\ \A t : (\A a \in Range(q) : a.type # t) /\ Lone(m, t) => Lone(q \o m, t)
<1> DEFINE r == q \o m
<1>0. Len(q) \in Nat /\ Len(m) \in Nat /\ DOMAIN q = 1 .. Len(q) /\ DOMAIN m = 1 .. Len(m)
  BY LenProperties
<1>1. /\ r \in Seq(Frames) /\ Len(r) = Len(q) + Len(m) /\ DOMAIN r = 1 .. Len(q) + Len(m)
      /\ \A i \in 1 .. Len(q) + Len(m) : r[i] = IF i <= Len(q) THEN q[i] ELSE m[i - Len(q)]
  BY ConcatProperties, LenProperties
<1>2. Range(r) = Range(q) \cup Range(m)
  BY RangeConcatenation
<1> HIDE DEF r
<1>3. \A i \in DOMAIN r : \/ i \in DOMAIN q /\ r[i] = q[i] /\ i <= Len(q)
                          \/ i - Len(q) \in DOMAIN m /\ r[i] = m[i - Len(q)] /\ i > Len(q)
  BY <1>0, <1>1
<1>a. \A i \in DOMAIN r : \/ i \in DOMAIN q /\ r[i] = q[i] /\ i <= Len(q) /\ q[i] \in Range(q)
                          \/ /\ i - Len(q) \in DOMAIN m /\ r[i] = m[i - Len(q)] /\ i > Len(q)
                             /\ m[i - Len(q)] \in Range(m)
  BY <1>3 DEF Range
<1>4. ASSUME InOrder(q), InOrder(m), \A a \in Range(q), b \in Range(m) : MayFollow(b.type, a.type)
      PROVE  InOrder(r)
  <2> SUFFICES ASSUME NEW j \in DOMAIN r, NEW k \in DOMAIN r, j < k
               PROVE  MayFollow(r[k].type, r[j].type)
    BY DEF InOrder
  <2>1. CASE j \in DOMAIN q /\ r[j] = q[j] /\ k \in DOMAIN q /\ r[k] = q[k]
    BY <1>4, <2>1 DEF InOrder
  <2>2. CASE r[j] \in Range(q) /\ r[k] \in Range(m)
    BY <1>4, <2>2
  <2>3. CASE /\ j - Len(q) \in DOMAIN m /\ r[j] = m[j - Len(q)]
             /\ k - Len(q) \in DOMAIN m /\ r[k] = m[k - Len(q)]
    <3>1. j - Len(q) < k - Len(q)
      BY <1>0, <1>1
    <3> QED
      BY <1>4, <2>3, <3>1 DEF InOrder
  <2>4. ~(j > Len(q) /\ k <= Len(q))
    BY <1>0, <1>1
  <2> QED
    BY <1>a, <2>1, <2>2, <2>3, <2>4
<1>5. ASSUME NEW t, Lone(q, t), \A b \in Range(m) : b.type # t PROVE Lone(r, t)
  BY <1>a, <1>5 DEF Lone
<1>6. ASSUME NEW t, \A a \in Range(q) : a.type # t, Lone(m, t) PROVE Lone(r, t)
  <2> SUFFICES ASSUME NEW i \in DOMAIN r, NEW j \in DOMAIN r, r[i].type = t, r[j].type = t
               PROVE  i = j
    BY DEF Lone
  <2>1. i - Len(q) \in DOMAIN m /\ j - Len(q) \in DOMAIN m /\ i - Len(q) = j - Len(q)
    BY <1>a, <1>6 DEF Lone
  <2> QED
    BY <1>0, <1>1, <2>1
<1> QED
  BY <1>1, <1>2, <1>4, <1>5, <1>6 DEF r

LEMMA Short ==
  ASSUME NEW a \in Frames, NEW b \in Frames
  PROVE  /\ <<>> \in Seq(Frames) /\ Range(<<>>) = {} /\ InOrder(<<>>) /\ \A t : Lone(<<>>, t)
         /\ <<a>> \in Seq(Frames) /\ Range(<<a>>) = {a} /\ InOrder(<<a>>) /\ \A t : Lone(<<a>>, t)
         /\ <<a, b>> \in Seq(Frames) /\ Range(<<a, b>>) = {a, b}
         /\ MayFollow(b.type, a.type) => InOrder(<<a, b>>)
         /\ \A t : a.type # b.type => Lone(<<a, b>>, t)
<1>1. DOMAIN <<>> = {} /\ DOMAIN <<a>> = {1} /\ DOMAIN <<a, b>> = {1, 2}
  OBVIOUS
<1>2. Range(<<>>) = {} /\ Range(<<a>>) = {a} /\ Range(<<a, b>>) = {a, b}
  BY DEF Range
<1>3. InOrder(<<>>) /\ InOrder(<<a>>) /\ (MayFollow(b.type, a.type) => InOrder(<<a, b>>))
  BY <1>1 DEF InOrder
<1>4. \A t : Lone(<<>>, t) /\ Lone(<<a>>, t) /\ (a.type # b.type => Lone(<<a, b>>, t))
  BY <1>1 DEF Lone
<1>5. <<>> \in Seq(Frames) /\ <<a>> \in Seq(Frames) /\ <<a, b>> \in Seq(Frames)
  OBVIOUS
<1> QED
  BY <1>2, <1>3, <1>4, <1>5

(* The answer to the first frame, and what an end writes by itself.        *)
Neat(f) == f \in Seq(Frames) /\ InOrder(f) /\ \A t : Lone(f, t)

More(q, r, f) ==
  /\ Range(r) = Range(q) \cup Range(f)
  /\ InOrder(q) /\ (\A a \in Range(q), b \in Range(f) : MayFollow(b.type, a.type)) => InOrder(r)
  /\ \A t : Lone(q, t) /\ (\A b \in Range(f) : b.type # t) => Lone(r, t)
  /\ \A t : (\A a \in Range(q) : a.type # t) => Lone(r, t)

Writes(e, f) ==
  IF open THEN More(wire[Other(e)], wire'[Other(e)], f) ELSE wire'[Other(e)] = wire[Other(e)]

LEMMA Written ==
  ASSUME NEW q \in Seq(Frames), NEW f, Neat(f)
  PROVE  q \o f \in Seq(Frames) /\ More(q, q \o f, f)
BY Longer DEF Neat, More

LEMMA Answers ==
  ASSUME WireTyped, NEW e \in Ends, wire[e] # <<>>, NEW f, Neat(f), Reply(e, f)
  PROVE  /\ wire' \in [Ends -> Seq(Frames)] /\ open' = open
         /\ Head(wire[e]) \in Frames /\ Head(wire[e]) \in Range(wire[e])
         /\ Rest(wire[e], wire'[e]) /\ Writes(e, f)
<1>1. Other(e) \in Ends /\ Other(e) # e /\ wire[e] \in Seq(Frames) /\ wire[Other(e)] \in Seq(Frames)
  BY EndsAre DEF WireTyped
<1>2. Tail(wire[e]) \in Seq(Frames) /\ Head(wire[e]) \in Frames /\ Rest(wire[e], Tail(wire[e]))
  BY <1>1, TailOf
<1>3. /\ wire[Other(e)] \o f \in Seq(Frames)
      /\ More(wire[Other(e)], wire[Other(e)] \o f, f)
  BY <1>1, Written
<1>4. /\ wire'[e] = Tail(wire[e])
      /\ wire'[Other(e)] = IF open THEN wire[Other(e)] \o f ELSE wire[Other(e)]
      /\ wire' = [d \in Ends |-> wire'[d]]
  BY <1>1 DEF Reply, WireTyped
<1>5. wire' \in [Ends -> Seq(Frames)]
  <2>1. \A d \in Ends : d = e \/ d = Other(e)
    BY DEF Ends, Other
  <2> QED
    BY <1>1, <1>2, <1>3, <1>4, <2>1
<1>6. Head(wire[e]) \in Range(wire[e])
  BY <1>2 DEF Rest
<1> QED
  BY <1>2, <1>3, <1>4, <1>5, <1>6 DEF Reply, Writes

LEMMA Says ==
  ASSUME WireTyped, NEW e \in Ends, NEW f, Neat(f), Say(e, f)
  PROVE  /\ wire' \in [Ends -> Seq(Frames)] /\ open' = open
         /\ wire'[e] = wire[e] /\ Writes(e, f)
<1>1. /\ Other(e) \in Ends /\ Other(e) # e /\ wire[Other(e)] \in Seq(Frames)
      /\ \A d \in Ends : d = e \/ d = Other(e)
  BY EndsAre DEF WireTyped, Ends, Other
<1>2. /\ wire[Other(e)] \o f \in Seq(Frames)
      /\ More(wire[Other(e)], wire[Other(e)] \o f, f)
  BY <1>1, Written
<1>3. /\ wire'[e] = wire[e]
      /\ wire'[Other(e)] = IF open THEN wire[Other(e)] \o f ELSE wire[Other(e)]
      /\ wire' = [d \in Ends |-> wire'[d]]
  BY <1>1 DEF Say, WireTyped
<1> QED
  BY <1>1, <1>2, <1>3 DEF Say, Writes, WireTyped

LEMMA FramesAre ==
  /\ \A t \in Plain : Frame(t) \in Frames /\ Frame(t).type = t
  /\ \A ps \in SUBSET Paths : FrameOf("Ready", ps) \in Frames
  /\ \A n \in Nat : FrameOf("Ping", n) \in Frames /\ FrameOf("Pong", n) \in Frames
  /\ \A x \in Entries : FrameOf("Snapshot", x) \in Frames /\ FrameOf("Plan", x) \in Frames
  /\ \A p \in Paths : FrameOf("Invalidated", p) \in Frames
  /\ \A t, x : FrameOf(t, x).type = t /\ FrameOf(t, x).arg = x
BY DEF Frames, Frame, FrameOf, Plain

LEMMA ArgumentsAre ==
  ASSUME NEW m \in Frames
  PROVE  /\ m.type = "Ready" => m.arg \in SUBSET Paths
         /\ m.type \in {"Ping", "Pong"} => m.arg \in Nat
         /\ m.type \in {"Snapshot", "Plan"} => m.arg \in Entries
         /\ m.type = "Invalidated" => m.arg \in Paths
BY DEF Frames, Plain

LEMMA NeatFrames ==
  /\ Neat(<<>>) /\ Range(<<>>) = {}
  /\ \A a \in Frames : Neat(<<a>>) /\ Range(<<a>>) = {a}
  /\ \A a, b \in Frames : MayFollow(b.type, a.type) /\ a.type # b.type =>
       Neat(<<a, b>>) /\ Range(<<a, b>>) = {a, b}
<1>0. Frame("Done") \in Frames
  BY FramesAre DEF Plain
<1>1. ASSUME NEW a \in Frames, NEW b \in Frames, MayFollow(b.type, a.type), a.type # b.type
      PROVE  \A t : Lone(<<a, b>>, t)
  BY <1>1, Short
<1> QED
  BY <1>0, <1>1, Short DEF Neat

----------------------------------------------------------------------------
(* Types.                                                                  *)

LEMMA Moves ==
  ASSUME AtTyped, NEW e \in Ends, NEW p, Go(e, p)
  PROVE  /\ at'[e] = p /\ (\A d \in Ends : d # e => at'[d] = at[d])
         /\ (e = C /\ p \in ConnectorPlaces) \/ (e = R /\ p \in ResponderPlaces) => AtTyped'
BY EndsAre DEF AtTyped, Go

(* Steps that write no file and notice nothing.                            *)
Same == UNCHANGED <<users, signals>>

LEMMA AnswerTyped ==
  ASSUME TypeOK, NEW e \in Ends, wire[e] # <<>>, NEW f, Neat(f), Reply(e, f)
  PROVE  WireTyped' /\ Arg(e) = Head(wire[e]).arg /\ Head(wire[e]) \in Frames
BY Answers DEF TypeOK, WireTyped, Arg

LEMMA SayTyped ==
  ASSUME TypeOK, NEW e \in Ends, NEW f, Neat(f), Say(e, f)
  PROVE  WireTyped'
BY Says DEF TypeOK, WireTyped

LEMMA OwnTyped == 
  ASSUME TypeOK, NEW e \in Ends
  PROVE  Own(e) \in Entries
BY DEF TypeOK, DataTyped, Own, Entries

LEMMA BlankTyped == Blank \in Entries /\ NewCycle \in Cycles
BY DEF Blank, Entries, NewCycle, Cycles

LEMMA ForgetTyped ==
  ASSUME DataTyped, NEW e \in Ends, Forget(e), UNCHANGED users
  PROVE  DataTyped'
BY BlankTyped DEF DataTyped, Forget, Set, users

LEMMA RefreshTyped ==
  ASSUME TypeOK, NEW e \in Ends, Refresh(e), UNCHANGED <<users, theirs>>
  PROVE  DataTyped' /\ scan'[e] = Own(e) /\ scan'[e] \in Entries
BY OwnTyped DEF TypeOK, DataTyped, Refresh, Set, users

LEMMA TheirsTyped ==
  ASSUME DataTyped, NEW e \in Ends, NEW x \in Entries, theirs' = Set(theirs, e, x),
         UNCHANGED <<users, scan>>
  PROVE  DataTyped'
BY DEF DataTyped, Set, users

LEMMA InstallTyped ==
  ASSUME TypeOK, NEW e \in Ends, NEW ps, Install(e, ps), UNCHANGED <<edits>>
  PROVE  /\ disk' \in [Ends -> Entries]
         /\ \A d \in Ends : \A p \in Paths :
              d # e \/ OwnerOf[p] = e \/ p \notin ps => disk'[d][p] = disk[d][p]
         /\ \A p \in Paths : OwnerOf[p] # e /\ p \in ps => disk'[e][p] = theirs[e][p]
         /\ \A p \in Hot : disk'[OwnerOf[p]][p] \in {0, 1}
         /\ event' \in [Ends -> BOOLEAN] /\ (\A d \in Ends : event[d] => event'[d])
<1> DEFINE x == [p \in Paths |-> IF p \in ps /\ OwnerOf[p] # e THEN theirs[e][p] ELSE disk[e][p]]
<1>1. x \in Entries
  BY DEF TypeOK, DataTyped, Entries
<1>2. disk' = [disk EXCEPT ![e] = x]
  BY DEF Install
<1>3. disk'[e] = x /\ \A d \in Ends : d # e => disk'[d] = disk[d]
  BY <1>2 DEF TypeOK, DataTyped
<1>4. disk' \in [Ends -> Entries]
  BY <1>1, <1>2 DEF TypeOK, DataTyped
<1>5. \A d \in Ends : \A p \in Paths :
        d # e \/ OwnerOf[p] = e \/ p \notin ps => disk'[d][p] = disk[d][p]
  BY <1>3
<1>6. \A p \in Paths : OwnerOf[p] # e /\ p \in ps => disk'[e][p] = theirs[e][p]
  BY <1>3
<1>7. \A p \in Hot : disk'[OwnerOf[p]][p] \in {0, 1}
  BY <1>5, WatchConstants DEF TypeOK, DataTyped
<1>8. event' \in [Ends -> BOOLEAN]
  <2>1. (event[e] \/ disk'[e] # disk[e]) \in BOOLEAN
    OBVIOUS
  <2> QED
    BY <2>1 DEF Install, Set, TypeOK, SignalsTyped
<1>9. \A d \in Ends : event[d] => event'[d]
  BY DEF Install, Set, TypeOK, SignalsTyped
<1> QED
  BY <1>4, <1>5, <1>6, <1>7, <1>8, <1>9

LEMMA CyclesTyped ==
  ASSUME TypeOK, NEW e \in Ends, NEW p \in Paths
  PROVE  /\ Observe(cycle[e], p) \in Cycles
         /\ Invalidated(e, p) =>
              cycle' \in [Ends -> Cycles] /\ unsettled' \in [Ends -> SUBSET Paths]
         /\ Settles(e) => unsettled' \in [Ends -> SUBSET Paths]
<1>1. Observe(cycle[e], p) \in Cycles
  BY DEF TypeOK, RoundTyped, Observe, Cycles
<1>2. Invalidated(e, p) => cycle' \in [Ends -> Cycles] /\ unsettled' \in [Ends -> SUBSET Paths]
  BY <1>1 DEF Invalidated, Remember, TypeOK, RoundTyped
<1>3. Settles(e) => unsettled' \in [Ends -> SUBSET Paths]
  BY DEF Settles, Set, TypeOK, RoundTyped
<1> QED
  BY <1>1, <1>2, <1>3

(* The frames that are written are of the types the other end may meet.    *)
Types(q) == {m.type : m \in Range(q)}

LEMMA Letters ==
  /\ Neat(<<>>) /\ Types(<<>>) = {} /\ Range(<<>>) = {}
  /\ \A a \in Frames : Neat(<<a>>) /\ Types(<<a>>) = {a.type} /\ Range(<<a>>) = {a}
  /\ \A ps \in SUBSET Paths :
       LET f == <<FrameOf("Ready", ps), Frame("Reserve")>>
       IN  /\ Neat(f) /\ Types(f) = {"Ready", "Reserve"}
           /\ Range(f) = {FrameOf("Ready", ps), Frame("Reserve")}
  /\ \A p \in Paths :
       LET f == <<FrameOf("Invalidated", p), Frame("Reserve")>>
       IN  /\ Neat(f) /\ Types(f) = {"Invalidated", "Reserve"}
           /\ Range(f) = {FrameOf("Invalidated", p), Frame("Reserve")}
<1>1. ASSUME NEW a \in Frames PROVE Neat(<<a>>) /\ Types(<<a>>) = {a.type} /\ Range(<<a>>) = {a}
  <2>1. Neat(<<a>>) /\ Range(<<a>>) = {a}
    BY NeatFrames
  <2> QED
    BY <2>1 DEF Types
<1>2. Neat(<<>>) /\ Types(<<>>) = {} /\ Range(<<>>) = {}
  BY NeatFrames DEF Types
<1>3. ASSUME NEW a \in Frames, NEW b \in Frames, b.type = "Reserve", a.type \in {"Ready", "Invalidated"}
      PROVE  Neat(<<a, b>>) /\ Range(<<a, b>>) = {a, b} /\ Types(<<a, b>>) = {a.type, b.type}
  <2>1. MayFollow(b.type, a.type) /\ a.type # b.type
    BY <1>3 DEF MayFollow
  <2>2. Neat(<<a, b>>) /\ Range(<<a, b>>) = {a, b}
    BY <2>1, NeatFrames
  <2> QED
    BY <2>2 DEF Types
<1>4. Frame("Reserve") \in Frames /\ Frame("Reserve").type = "Reserve"
  BY FramesAre DEF Plain
<1> QED
  BY <1>1, <1>2, <1>3, <1>4, FramesAre

LEMMA Untouched ==
  ASSUME TypeOK
  PROVE  /\ UNCHANGED <<users, scan, theirs>> => DataTyped'
         /\ UNCHANGED signals => SignalsTyped'
         /\ UNCHANGED <<startup, cycle, unsettled, beats, failures>> => RoundTyped'
         /\ UNCHANGED at => AtTyped'
         /\ UNCHANGED <<wire, open>> => WireTyped'
BY DEF TypeOK, DataTyped, SignalsTyped, RoundTyped, AtTyped, WireTyped, users, signals, beats

(* An end that has left.                                                   *)
LEMMA LeavesTyped ==
  ASSUME TypeOK, NEW e \in Ends, Leaves(e), UNCHANGED <<users, startup, unsettled, pings>>,
         failures' \in Nat
  PROVE  DataTyped' /\ SignalsTyped' /\ RoundTyped' /\ AtTyped'
<1>1. DataTyped'
  BY ForgetTyped DEF Leaves, TypeOK
<1>2. SignalsTyped'
  BY DEF Leaves, Set, TypeOK, SignalsTyped
<1>3. RoundTyped'
  BY BlankTyped DEF Leaves, Set, TypeOK, RoundTyped
<1>4. AtTyped'
  BY Moves, EndsAre DEF Leaves, TypeOK, ConnectorPlaces, ResponderPlaces
<1> QED
  BY <1>1, <1>2, <1>3, <1>4

(* The steps of users, of the watchers and of the debounce.                *)
LEMMA WriteTyped ==
  ASSUME TypeOK, NEW p \in Paths, Write(p)
  PROVE  TypeOK'
<1> DEFINE e == OwnerOf[p]
<1>0. e \in Ends
  BY WatchConstants
<1>1. UNCHANGED <<ahead, token, due, remoteAhead, at, round, wire, open, beats, failures>>
  BY DEF Write
<1>2. event' \in [Ends -> BOOLEAN]
  <2>1. (at[e] # "off") \in BOOLEAN
    OBVIOUS
  <2> QED
    BY <2>1 DEF Write, Set, TypeOK, SignalsTyped
<1>3. edits' \in Entries
  BY DEF Write, TypeOK, DataTyped, Entries
<1>4. disk[e][p] \in Nat /\ (p \in Hot => disk[e][p] \in {0, 1})
  BY <1>0 DEF TypeOK, DataTyped, Entries
<1> DEFINE x == IF p \in Hot THEN 1 - disk[e][p] ELSE disk[e][p] + 1
<1>5. x \in Nat /\ (p \in Hot => x \in {0, 1})
  BY <1>4
<1>6. disk' = [disk EXCEPT ![e] = [disk[e] EXCEPT ![p] = x]]
  BY DEF Write
<1> HIDE DEF x
<1>7. [disk[e] EXCEPT ![p] = x] \in Entries
  BY <1>0, <1>5 DEF TypeOK, DataTyped, Entries
<1>8. /\ disk' \in [Ends -> Entries] /\ disk'[e][p] = x
      /\ \A d \in Ends : \A o \in Paths : d # e \/ o # p => disk'[d][o] = disk[d][o]
  BY <1>0, <1>6, <1>7 DEF TypeOK, DataTyped, Entries
<1>9. \A o \in Hot : disk'[OwnerOf[o]][o] \in {0, 1}
  BY <1>5, <1>8, WatchConstants DEF TypeOK, DataTyped
<1>10. DataTyped'
  BY <1>1, <1>3, <1>8, <1>9 DEF TypeOK, DataTyped, round
<1>11. SignalsTyped'
  BY <1>1, <1>2 DEF TypeOK, SignalsTyped
<1> QED
  BY <1>1, <1>10, <1>11, Untouched DEF TypeOK, round

LEMMA SignalSteps ==
  ASSUME TypeOK, Schedule \/ Notice \/ \E e \in Ends : Deliver(e)
  PROVE  TypeOK'
<1>1. UNCHANGED <<users, at, round, wire, open, beats, failures>>
  BY DEF Schedule, Notice, Deliver
<1>2. SignalsTyped'
  <2>1. CASE Schedule
    BY <2>1 DEF Schedule, Set, TypeOK, SignalsTyped
  <2>2. CASE Notice
    BY <2>2 DEF Notice, Set, TypeOK, SignalsTyped
  <2>3. ASSUME NEW e \in Ends, Deliver(e) PROVE SignalsTyped'
    <3>1. (token \/ e = R) \in BOOLEAN
      OBVIOUS
    <3> QED
      BY <2>3, <3>1 DEF Deliver, Set, TypeOK, SignalsTyped
  <2> QED
    BY <2>1, <2>2, <2>3
<1> QED
  BY <1>1, <1>2, Untouched DEF TypeOK, round

(* The steps that take a frame.                                            *)
Argument(t, x) ==
  /\ t = "Ready" => x \in SUBSET Paths
  /\ t \in {"Ping", "Pong"} => x \in Nat
  /\ t \in {"Snapshot", "Plan"} => x \in Entries
  /\ t = "Invalidated" => x \in Paths

LEMMA Received ==
  ASSUME TypeOK, NEW e \in Ends, wire[e] # <<>>
  PROVE  /\ Head(wire[e]) \in Frames /\ Head(wire[e]) \in Range(wire[e])
         /\ Argument(Head(wire[e]).type, Arg(e))
<1>1. wire[e] \in Seq(Frames)
  BY DEF TypeOK, WireTyped
<1>2. Head(wire[e]) \in Frames /\ Head(wire[e]) \in Range(wire[e])
  BY <1>1, TailOf DEF Rest
<1> QED
  BY <1>2, ArgumentsAre DEF Argument, Arg

LEMMA StepTyped ==
  ASSUME TypeOK, NEW e \in Ends, NEW p, NEW t, NEW q, NEW f, Neat(f), Step(e, p, t, q, f),
         (e = C /\ q \in ConnectorPlaces) \/ (e = R /\ q \in ResponderPlaces)
  PROVE  AtTyped' /\ WireTyped' /\ Argument(t, Arg(e)) /\ Head(wire[e]).type = t
<1>1. wire[e] # <<>> /\ Head(wire[e]).type = t /\ Go(e, q) /\ Reply(e, f)
  BY DEF Step, Gets
<1>2. AtTyped'
  BY <1>1, Moves DEF TypeOK
<1> QED
  BY <1>1, <1>2, AnswerTyped, Received

LEMMA Stays ==
  ASSUME TypeOK, NEW e \in Ends, UNCHANGED at
  PROVE  Go(e, at[e])
BY DEF TypeOK, AtTyped, Go

LEMMA Written1 ==
  ASSUME TypeOK
  PROVE  /\ \A t \in Plain : Neat(<<Frame(t)>>) /\ Types(<<Frame(t)>>) = {t}
         /\ Neat(<<>>) /\ Types(<<>>) = {}
         /\ \A ps \in SUBSET Paths :
              Neat(<<FrameOf("Ready", ps)>>) /\ Types(<<FrameOf("Ready", ps)>>) = {"Ready"}
         /\ \A n \in Nat, t \in {"Ping", "Pong"} :
              Neat(<<FrameOf(t, n)>>) /\ Types(<<FrameOf(t, n)>>) = {t}
         /\ \A x \in Entries, t \in {"Snapshot", "Plan"} :
              Neat(<<FrameOf(t, x)>>) /\ Types(<<FrameOf(t, x)>>) = {t}
         /\ \A p \in Paths :
              Neat(<<FrameOf("Invalidated", p)>>)
                /\ Types(<<FrameOf("Invalidated", p)>>) = {"Invalidated"}
BY Letters, FramesAre

(* A session begins.                                                       *)
LEMMA BeginTyped ==
  ASSUME TypeOK, Connect \/ Accept \/ ConnectorReady \/ ResponderReady
  PROVE  TypeOK'
<1>1. CASE Connect
  <2>1. AtTyped'
    BY <1>1, Moves, EndsAre DEF Connect, TypeOK, ConnectorPlaces
  <2>2. WireTyped'
    <3>1. Frame("WatchOpen") \in Frames
      BY FramesAre DEF Plain
    <3> QED
      BY <1>1, <3>1 DEF Connect, TypeOK, WireTyped
  <2>3. RoundTyped'
    BY <1>1 DEF Connect, TypeOK, RoundTyped, beats
  <2> QED
    BY <1>1, <2>1, <2>2, <2>3, Untouched DEF Connect, TypeOK
<1>2. CASE Accept
  <2> DEFINE f == <<FrameOf("Ready", unsettled[R])>>
  <2>1. Neat(f)
    BY EndsAre, Written1 DEF TypeOK, RoundTyped
  <2>2. Step(R, "off", "WatchOpen", "ready", f)
    BY <1>2 DEF Accept, Step
  <2>3. AtTyped' /\ WireTyped'
    BY <2>1, <2>2, StepTyped, EndsAre DEF ResponderPlaces
  <2> QED
    BY <1>2, <2>3, Untouched DEF Accept, TypeOK, round
<1>3. CASE ConnectorReady
  <2> DEFINE f == <<FrameOf("Ready", unsettled[C] \cup Arg(C)), Frame("Reserve")>>
  <2>0. Arg(C) \in SUBSET Paths /\ unsettled[C] \in SUBSET Paths
    BY <1>3, Received, EndsAre DEF ConnectorReady, Gets, Argument, TypeOK, RoundTyped
  <2>1. Neat(f)
    BY <2>0, Letters
  <2>2. Step(C, "opening", "Ready", "reserving", f)
    BY <1>3 DEF ConnectorReady, Step
  <2>3. AtTyped' /\ WireTyped'
    BY <2>1, <2>2, StepTyped, EndsAre DEF ConnectorPlaces
  <2>4. RoundTyped'
    BY <1>3, <2>0 DEF ConnectorReady, Remember, TypeOK, RoundTyped, beats
  <2>5. SignalsTyped'
    BY <1>3 DEF ConnectorReady, Set, TypeOK, SignalsTyped
  <2> QED
    BY <1>3, <2>3, <2>4, <2>5, Untouched DEF ConnectorReady, TypeOK
<1>4. CASE ResponderReady
  <2>0. Arg(R) \in SUBSET Paths
    BY <1>4, Received, EndsAre DEF ResponderReady, Gets, Argument
  <2>2. Step(R, "ready", "Ready", "idle", <<>>)
    BY <1>4 DEF ResponderReady, Step
  <2>3. AtTyped' /\ WireTyped'
    BY <2>2, Written1, StepTyped, EndsAre DEF ResponderPlaces
  <2>4. RoundTyped'
    BY <1>4, <2>0 DEF ResponderReady, Remember, TypeOK, RoundTyped, beats
  <2> QED
    BY <1>4, <2>3, <2>4, Untouched DEF ResponderReady, TypeOK
<1> QED
  BY <1>1, <1>2, <1>3, <1>4

(* What the ends do between rounds.                                        *)
LEMMA IdleTyped ==
  ASSUME TypeOK, Advertise \/ AnswerPing \/ RoundDue \/ Audit \/ Ping \/ HearPong \/ HearChanged
  PROVE  TypeOK'
<1>1. CASE Advertise
  <2>1. WireTyped'
    BY <1>1, SayTyped, Written1, EndsAre DEF Advertise, Plain
  <2>2. SignalsTyped'
    BY <1>1 DEF Advertise, Set, TypeOK, SignalsTyped
  <2> QED
    BY <1>1, <2>1, <2>2, Untouched DEF Advertise, TypeOK, round
<1>2. CASE AnswerPing
  <2>0. Arg(R) \in Nat
    BY <1>2, Received, EndsAre DEF AnswerPing, Gets, Argument
  <2>1. Step(R, "idle", "Ping", "idle", <<FrameOf("Pong", Arg(R))>>)
    BY <1>2, Stays, EndsAre DEF AnswerPing, Step
  <2>2. AtTyped' /\ WireTyped'
    BY <2>0, <2>1, Written1, StepTyped, EndsAre DEF ResponderPlaces
  <2> QED
    BY <1>2, <2>2, Untouched DEF AnswerPing, TypeOK, round
<1>3. CASE RoundDue \/ Audit
  <2>1. WireTyped'
    BY <1>3, SayTyped, Written1, EndsAre DEF RoundDue, Audit, Begin, Plain
  <2>2. AtTyped'
    BY <1>3, Moves, EndsAre DEF RoundDue, Audit, Begin, TypeOK, ConnectorPlaces
  <2>3. SignalsTyped'
    BY <1>3 DEF RoundDue, Audit, Begin, Set, TypeOK, SignalsTyped
  <2> QED
    BY <1>3, <2>1, <2>2, <2>3, Untouched DEF RoundDue, Audit, Begin, TypeOK, round
<1>4. CASE Ping
  <2>0. pings + 1 \in Nat
    BY DEF TypeOK, RoundTyped
  <2>1. WireTyped'
    BY <1>4, <2>0, SayTyped, Written1, EndsAre DEF Ping
  <2>2. RoundTyped'
    BY <1>4, <2>0 DEF Ping, TypeOK, RoundTyped, round
  <2> QED
    BY <1>4, <2>1, <2>2, Untouched DEF Ping, TypeOK, round
<1>5. CASE HearPong
  <2>1. Step(C, "idle", "Pong", "idle", <<>>)
    BY <1>5, Stays, EndsAre DEF HearPong, Step
  <2>2. AtTyped' /\ WireTyped'
    BY <2>1, Written1, StepTyped, EndsAre DEF ConnectorPlaces
  <2>3. RoundTyped'
    BY <1>5 DEF HearPong, TypeOK, RoundTyped, round
  <2> QED
    BY <1>5, <2>2, <2>3, Untouched DEF HearPong, TypeOK, round
<1>6. CASE HearChanged
  <2>1. Step(C, "idle", "Changed", "idle", <<>>)
    BY <1>6, Stays, EndsAre DEF HearChanged, Step
  <2>2. AtTyped' /\ WireTyped'
    BY <2>1, Written1, StepTyped, EndsAre DEF ConnectorPlaces
  <2>3. SignalsTyped'
    BY <1>6 DEF HearChanged, TypeOK, SignalsTyped
  <2> QED
    BY <1>6, <2>2, <2>3, Untouched DEF HearChanged, TypeOK, round
<1> QED
  BY <1>1, <1>2, <1>3, <1>4, <1>5, <1>6

(* A round, up to the plan.                                                *)
LEMMA PlanTyped ==
  ASSUME TypeOK, \/ Drain \/ ServeRound \/ ResponderScans \/ ConnectorScans \/ ConnectorPlans
                 \/ ConnectorFetches \/ ServeNeed \/ ServePlan
  PROVE  TypeOK'
<1>1. CASE Drain
  <2>1. PICK type \in Drained : Step(C, "reserving", type, "reserving", <<>>)
    BY <1>1, Stays, EndsAre DEF Drain, Step
  <2>2. AtTyped' /\ WireTyped'
    BY <2>1, Written1, StepTyped, EndsAre DEF ConnectorPlaces
  <2>3. SignalsTyped'
    <3>1. remoteAhead' \in BOOLEAN
      BY <1>1 DEF Drain
    <3> QED
      BY <1>1, <3>1 DEF Drain, TypeOK, SignalsTyped
  <2> QED
    BY <1>1, <2>2, <2>3, Untouched DEF Drain, TypeOK, round
<1>2. CASE ServeRound
  <2>1. Step(R, "idle", "Reserve", "reserved", <<Frame("Reserved")>>)
    BY <1>2 DEF ServeRound, Step
  <2>2. AtTyped' /\ WireTyped'
    BY <2>1, Written1, StepTyped, EndsAre DEF ResponderPlaces, Plain
  <2> QED
    BY <1>2, <2>2, Untouched DEF ServeRound, TypeOK, round
<1>3. CASE ResponderScans
  <2>1. DataTyped' /\ scan'[R] \in Entries
    BY <1>3, RefreshTyped, EndsAre DEF ResponderScans
  <2>2. WireTyped'
    BY <1>3, <2>1, SayTyped, Written1, EndsAre DEF ResponderScans
  <2>3. AtTyped'
    BY <1>3, Moves, EndsAre DEF ResponderScans, TypeOK, ResponderPlaces
  <2> QED
    BY <1>3, <2>1, <2>2, <2>3, Untouched DEF ResponderScans, TypeOK
<1>4. CASE ConnectorScans
  <2>1. DataTyped'
    BY <1>4, RefreshTyped, EndsAre DEF ConnectorScans
  <2>2. Step(C, "reserving", "Reserved", "scanned", <<>>)
    BY <1>4 DEF ConnectorScans, Step
  <2>3. AtTyped' /\ WireTyped'
    BY <2>2, Written1, StepTyped, EndsAre DEF ConnectorPlaces
  <2> QED
    BY <1>4, <2>1, <2>3, Untouched DEF ConnectorScans, TypeOK
<1>5. CASE ConnectorPlans
  <2>1. Step(C, "scanned", "Snapshot", "objects", <<Frame("Need")>>)
    BY <1>5 DEF ConnectorPlans
  <2>2. AtTyped' /\ WireTyped' /\ Argument("Snapshot", Arg(C))
    BY <2>1, Written1, StepTyped, EndsAre DEF ConnectorPlaces, Plain
  <2>3. DataTyped'
    BY <1>5, <2>2, TheirsTyped, EndsAre DEF ConnectorPlans, Argument, TypeOK
  <2> QED
    BY <1>5, <2>2, <2>3, Untouched DEF ConnectorPlans, TypeOK
<1>6. CASE ConnectorFetches
  <2>0. scan[C] \in Entries
    BY EndsAre DEF TypeOK, DataTyped
  <2>1. CASE Step(C, "objects", "Done", "proposed", <<FrameOf("Plan", scan[C])>>)
    <3>1. AtTyped' /\ WireTyped'
      BY <2>0, <2>1, Written1, StepTyped, EndsAre DEF ConnectorPlaces
    <3> QED
      BY <1>6, <3>1, Untouched DEF ConnectorFetches, TypeOK, round
  <2>2. CASE Step(C, "proposed", "Need", "applying", <<Frame("Done")>>)
    <3>1. AtTyped' /\ WireTyped'
      BY <2>2, Written1, StepTyped, EndsAre DEF ConnectorPlaces, Plain
    <3> QED
      BY <1>6, <3>1, Untouched DEF ConnectorFetches, TypeOK, round
  <2> QED
    BY <1>6, <2>1, <2>2 DEF ConnectorFetches
<1>7. CASE ServeNeed
  <2>2. AtTyped' /\ WireTyped'
    BY <1>7, Written1, StepTyped, EndsAre DEF ServeNeed, ResponderPlaces, Plain
  <2> QED
    BY <1>7, <2>2, Untouched DEF ServeNeed, TypeOK, round
<1>8. CASE ServePlan
  <2>1. Step(R, "planning", "Plan", "apply", <<Frame("Need")>>)
    BY <1>8 DEF ServePlan
  <2>2. AtTyped' /\ WireTyped' /\ Argument("Plan", Arg(R))
    BY <2>1, Written1, StepTyped, EndsAre DEF ResponderPlaces, Plain
  <2>3. DataTyped'
    BY <1>8, <2>2, TheirsTyped, EndsAre DEF ServePlan, Argument, TypeOK
  <2> QED
    BY <1>8, <2>2, <2>3, Untouched DEF ServePlan, TypeOK
<1> QED
  BY <1>1, <1>2, <1>3, <1>4, <1>5, <1>6, <1>7, <1>8

(* Installing a plan, and forgetting what it was made of.                  *)
LEMMA InstalledTyped ==
  ASSUME TypeOK, NEW e \in Ends, NEW ps, Install(e, ps), UNCHANGED edits,
         Forget(e) \/ UNCHANGED <<scan, theirs>>, ahead' = ahead, token' = token, due' = due,
         remoteAhead' \in BOOLEAN
  PROVE  DataTyped' /\ SignalsTyped'
<1>1. /\ disk' \in [Ends -> Entries] /\ event' \in [Ends -> BOOLEAN]
      /\ \A p \in Hot : disk'[OwnerOf[p]][p] \in {0, 1}
  BY InstallTyped
<1>2. scan' \in [Ends -> Entries] /\ theirs' \in [Ends -> Entries]
  BY BlankTyped DEF Forget, Set, TypeOK, DataTyped
<1> QED
  BY <1>1, <1>2 DEF TypeOK, DataTyped, SignalsTyped

LEMMA ResponderAppliesTyped ==
  ASSUME TypeOK, ResponderApplies \/ ResponderStops \/ ResponderCompletes \/ ResponderRetries
  PROVE  TypeOK'
<1>1. CASE ResponderApplies
  <2>1. AtTyped' /\ WireTyped'
    BY <1>1, Written1, StepTyped, EndsAre DEF ResponderApplies, ResponderPlaces, Plain
  <2>2. DataTyped' /\ SignalsTyped'
    BY <1>1, InstalledTyped, EndsAre
    DEF ResponderApplies, Applies, round, TypeOK, SignalsTyped
  <2> QED
    BY <1>1, <2>1, <2>2, Untouched DEF ResponderApplies, TypeOK, round
<1>2. CASE ResponderStops
  <2>1. PICK k \in DOMAIN Order :
          /\ Step(R, "apply", "Done", "idle", <<FrameOf("Invalidated", Order[k])>>)
          /\ Stops(R, k)
    BY <1>2 DEF ResponderStops
  <2>2. Order[k] \in Paths
    BY DEF Paths
  <2>3. AtTyped' /\ WireTyped'
    BY <2>1, <2>2, Written1, StepTyped, EndsAre DEF ResponderPlaces
  <2>4. DataTyped' /\ SignalsTyped'
    BY <1>2, <2>1, InstalledTyped, EndsAre
    DEF ResponderStops, Stops, TypeOK, SignalsTyped
  <2>5. RoundTyped'
    BY <1>2, <2>1, <2>2, CyclesTyped, EndsAre DEF ResponderStops, Stops, TypeOK, RoundTyped, beats
  <2> QED
    BY <2>3, <2>4, <2>5 DEF TypeOK
<1>3. CASE ResponderCompletes
  <2>1. AtTyped' /\ WireTyped'
    BY <1>3, Written1, StepTyped, EndsAre DEF ResponderCompletes, ResponderPlaces
  <2>2. DataTyped'
    BY <1>3, ForgetTyped, EndsAre DEF ResponderCompletes, TypeOK
  <2>3. unsettled' \in [Ends -> SUBSET Paths]
    BY <1>3, EndsAre DEF ResponderCompletes, Settles, Set, TypeOK, RoundTyped
  <2>4. RoundTyped'
    BY <1>3, <2>3, BlankTyped, EndsAre DEF ResponderCompletes, NextCycle, TypeOK, RoundTyped, beats
  <2> QED
    BY <1>3, <2>1, <2>2, <2>4, Untouched DEF ResponderCompletes, TypeOK
<1>4. CASE ResponderRetries
  <2>1. AtTyped' /\ WireTyped' /\ Argument("Invalidated", Arg(R))
    BY <1>4, Written1, StepTyped, EndsAre DEF ResponderRetries, ResponderPlaces
  <2>2. DataTyped'
    BY <1>4, ForgetTyped, EndsAre DEF ResponderRetries, TypeOK
  <2>3. RoundTyped'
    BY <1>4, <2>1, CyclesTyped, EndsAre
    DEF ResponderRetries, Argument, TypeOK, RoundTyped, beats
  <2> QED
    BY <1>4, <2>1, <2>2, <2>3, Untouched DEF ResponderRetries, TypeOK
<1> QED
  BY <1>1, <1>2, <1>3, <1>4

LEMMA ConnectorAppliesTyped ==
  ASSUME TypeOK, ConnectorRetries \/ ConnectorStops \/ ConnectorCompletes
  PROVE  TypeOK'
<1>1. CASE ConnectorRetries
  <2>1. AtTyped' /\ WireTyped' /\ Argument("Invalidated", Arg(C))
    BY <1>1, Written1, StepTyped, EndsAre DEF ConnectorRetries, ConnectorPlaces, Plain
  <2>2. DataTyped'
    BY <1>1, ForgetTyped, EndsAre DEF ConnectorRetries, TypeOK
  <2>3. RoundTyped'
    BY <1>1, <2>1, CyclesTyped, EndsAre
    DEF ConnectorRetries, Argument, TypeOK, RoundTyped, beats
  <2> QED
    BY <1>1, <2>1, <2>2, <2>3, Untouched DEF ConnectorRetries, TypeOK
<1>2. CASE ConnectorStops
  <2>1. PICK k \in DOMAIN Order :
          /\ Step(C, "applying", "Applied", "reserving",
                  <<FrameOf("Invalidated", Order[k]), Frame("Reserve")>>)
          /\ Stops(C, k)
    BY <1>2 DEF ConnectorStops
  <2>2. Order[k] \in Paths
    BY DEF Paths
  <2>3. AtTyped' /\ WireTyped'
    BY <2>1, <2>2, Letters, StepTyped, EndsAre DEF ConnectorPlaces
  <2>4. DataTyped' /\ SignalsTyped'
    BY <1>2, <2>1, InstalledTyped, EndsAre
    DEF ConnectorStops, Stops, TypeOK, SignalsTyped
  <2>5. RoundTyped'
    BY <1>2, <2>1, <2>2, CyclesTyped, EndsAre DEF ConnectorStops, Stops, TypeOK, RoundTyped, beats
  <2> QED
    BY <2>3, <2>4, <2>5 DEF TypeOK
<1>3. CASE ConnectorCompletes
  <2>1. AtTyped' /\ WireTyped'
    BY <1>3, Written1, StepTyped, EndsAre DEF ConnectorCompletes, ConnectorPlaces, Plain
  <2>2. remoteAhead' \in BOOLEAN
    BY <1>3 DEF ConnectorCompletes
  <2>3. DataTyped' /\ SignalsTyped'
    BY <1>3, <2>2, InstalledTyped, EndsAre DEF ConnectorCompletes, Applies
  <2>4. unsettled' \in [Ends -> SUBSET Paths]
    BY <1>3, EndsAre DEF ConnectorCompletes, Settles, Set, TypeOK, RoundTyped
  <2>5. RoundTyped'
    BY <1>3, <2>4, BlankTyped, EndsAre DEF ConnectorCompletes, Set, TypeOK, RoundTyped
  <2> QED
    BY <2>1, <2>3, <2>5 DEF TypeOK
<1> QED
  BY <1>1, <1>2, <1>3

(* The end of a session.                                                   *)
LEMMA EndsTyped ==
  ASSUME TypeOK, LoseWatcher \/ Break \/ HearError \/ \E e \in Ends : End(e)
  PROVE  TypeOK'
<1>1. CASE LoseWatcher
  <2>1. DataTyped' /\ SignalsTyped' /\ RoundTyped' /\ AtTyped'
    <3>1. failures' \in Nat
      BY <1>1 DEF LoseWatcher, TypeOK, RoundTyped
    <3> QED
      BY <1>1, <3>1, LeavesTyped, EndsAre DEF LoseWatcher
  <2>2. Frame("Error") \in Frames
    BY FramesAre DEF Plain
  <2>3. wire[C] \in Seq(Frames) /\ Append(wire[C], Frame("Error")) \in Seq(Frames)
    BY <2>2, EndsAre, AppendProperties DEF TypeOK, WireTyped
  <2>4. WireTyped'
    <3>1. /\ wire'[C] \in Seq(Frames) /\ wire'[R] = <<>> /\ open' = FALSE
          /\ wire' = [e \in Ends |-> wire'[e]]
      BY <1>1, <2>3, EndsAre DEF LoseWatcher
    <3>2. <<>> \in Seq(Frames)
      BY <2>2, Short
    <3>3. \A e \in Ends : wire'[e] \in Seq(Frames)
      BY <3>1, <3>2, EndsAre
    <3> QED
      BY <3>1, <3>3 DEF WireTyped
  <2> QED
    BY <2>1, <2>4 DEF TypeOK
<1>2. CASE Break
  <2>1. PICK n \in 0 .. Len(wire[C]), m \in 0 .. Len(wire[R]) :
          wire' = [e \in Ends |-> SubSeq(wire[e], 1, IF e = C THEN n ELSE m)]
    BY <1>2 DEF Break
  <2>2. wire[C] \in Seq(Frames) /\ wire[R] \in Seq(Frames)
    BY EndsAre DEF TypeOK, WireTyped
  <2>3. SubSeq(wire[C], 1, n) \in Seq(Frames) /\ SubSeq(wire[R], 1, m) \in Seq(Frames)
    BY <2>2, PrefixOf
  <2>4. wire' \in [Ends -> Seq(Frames)]
    BY <2>1, <2>3, EndsAre
  <2>5. WireTyped'
    BY <1>2, <2>4 DEF Break, WireTyped
  <2>6. RoundTyped'
    BY <1>2 DEF Break, TypeOK, RoundTyped, round, beats
  <2> QED
    BY <1>2, <2>5, <2>6, Untouched DEF Break, TypeOK, round
<1>3. CASE HearError
  <2>1. DataTyped' /\ SignalsTyped' /\ RoundTyped' /\ AtTyped'
    BY <1>3, LeavesTyped, EndsAre DEF HearError, TypeOK, RoundTyped
  <2>2. WireTyped'
    BY <1>3, AnswerTyped, Written1, EndsAre DEF HearError, Gets
  <2> QED
    BY <2>1, <2>2 DEF TypeOK
<1>4. ASSUME NEW e \in Ends, End(e) PROVE TypeOK'
  <2>1. DataTyped' /\ SignalsTyped' /\ RoundTyped' /\ AtTyped'
    BY <1>4, LeavesTyped DEF End, TypeOK, RoundTyped
  <2> QED
    BY <1>4, <2>1, Untouched DEF End, TypeOK
<1> QED
  BY <1>1, <1>2, <1>3, <1>4

LEMMA InitTyped == Init => TypeOK
<1> SUFFICES ASSUME Init PROVE TypeOK
  OBVIOUS
<1>1. DataTyped
  BY BlankTyped, WatchConstants DEF Init, DataTyped, Blank
<1>2. SignalsTyped
  BY DEF Init, SignalsTyped
<1>3. RoundTyped
  BY BlankTyped DEF Init, RoundTyped
<1>4. AtTyped
  BY EndsAre DEF Init, AtTyped, ConnectorPlaces, ResponderPlaces
<1>5. WireTyped
  BY Letters DEF Neat, Init, WireTyped
<1> QED
  BY <1>1, <1>2, <1>3, <1>4, <1>5 DEF TypeOK

LEMMA StutterTyped == TypeOK /\ UNCHANGED vars => TypeOK'
BY Untouched DEF TypeOK, vars, round

(* The steps, by what they do.                                             *)
SignalStep == Schedule \/ Notice \/ \E e \in Ends : Deliver(e)
BeginStep  == Connect \/ Accept \/ ConnectorReady \/ ResponderReady
IdleStep   == Advertise \/ AnswerPing \/ RoundDue \/ Audit \/ Ping \/ HearPong \/ HearChanged
PlanStep ==
  \/ Drain \/ ServeRound \/ ResponderScans \/ ConnectorScans \/ ConnectorPlans
  \/ ConnectorFetches \/ ServeNeed \/ ServePlan
ResponderStep == ResponderApplies \/ ResponderStops \/ ResponderCompletes \/ ResponderRetries
ConnectorStep == ConnectorRetries \/ ConnectorStops \/ ConnectorCompletes
EndStep       == LoseWatcher \/ Break \/ HearError \/ \E e \in Ends : End(e)

LEMMA StepsAre ==
  Next => \/ \E p \in Paths : Write(p)
          \/ SignalStep \/ BeginStep \/ IdleStep \/ PlanStep \/ ResponderStep
          \/ ConnectorStep \/ EndStep
<1>1. Connects => \/ SignalStep \/ BeginStep \/ IdleStep \/ PlanStep \/ ConnectorStep \/ EndStep
  BY EndsAre DEF Connects, ConnectorReads, SignalStep, BeginStep, IdleStep, PlanStep,
     ConnectorStep, EndStep
<1>2. Responds => \/ SignalStep \/ BeginStep \/ IdleStep \/ PlanStep \/ ResponderStep \/ EndStep
  BY EndsAre DEF Responds, ResponderReads, SignalStep, BeginStep, IdleStep, PlanStep,
     ResponderStep, EndStep
<1>3. Audit \/ Ping => IdleStep
  BY DEF IdleStep
<1>4. LoseWatcher \/ Break => EndStep
  BY DEF EndStep
<1>5. (\E e \in Ends : Deliver(e)) => SignalStep
  BY DEF SignalStep
<1> QED
  BY <1>1, <1>2, <1>3, <1>4, <1>5 DEF Next

LEMMA NextTyped == TypeOK /\ [Next]_vars => TypeOK'
<1> SUFFICES ASSUME TypeOK, [Next]_vars PROVE TypeOK'
  OBVIOUS
<1>1. SignalStep => TypeOK'
  BY SignalSteps DEF SignalStep
<1>2. BeginStep => TypeOK'
  BY BeginTyped DEF BeginStep
<1>3. IdleStep => TypeOK'
  BY IdleTyped DEF IdleStep
<1>4. PlanStep => TypeOK'
  BY PlanTyped DEF PlanStep
<1>5. ResponderStep => TypeOK'
  BY ResponderAppliesTyped DEF ResponderStep
<1>6. ConnectorStep => TypeOK'
  BY ConnectorAppliesTyped DEF ConnectorStep
<1>7. EndStep => TypeOK'
  BY EndsTyped DEF EndStep
<1> QED
  BY <1>1, <1>2, <1>3, <1>4, <1>5, <1>6, <1>7, WriteTyped, StutterTyped, StepsAre

(* Every variable keeps its type: a frame carries what its type says.      *)
THEOREM TypeCorrect == Spec => []TypeOK
BY InitTyped, NextTyped, PTL DEF Spec

----------------------------------------------------------------------------
(* The conversation: where the ends are, and which frames are on their way *)
(* between them.                                                           *)

(* The frames of type t to one end, with the connector at c and the        *)
(* responder at r.                                                         *)
ToConnector(t, c, r) ==
  \/ t = "Ready"       /\ c = "opening"  /\ r \in {"ready", "off"}
  \/ t = "Changed"     /\ c \in {"idle", "reserving", "applying"}
                       /\ r \in {"idle", "reserved", "serving", "off"}
  \/ t = "Pong"        /\ c \in {"idle", "reserving"} /\ r \in {"idle", "reserved", "serving", "off"}
  \/ t = "Reserved"    /\ c = "reserving" /\ r \in {"reserved", "serving", "off"}
  \/ t = "Snapshot"    /\ c \in {"reserving", "scanned"} /\ r \in {"serving", "off"}
  \/ t = "Done"        /\ c = "objects"  /\ r \in {"planning", "off"}
  \/ t = "Need"        /\ c = "proposed" /\ r \in {"apply", "off"}
  \/ t = "Applied"     /\ c = "applying" /\ r \in {"applied", "off"}
  \/ t = "Invalidated" /\ c = "applying" /\ r \in {"idle", "off"}
  \/ t = "Error"       /\ c \in {"reserving", "idle", "applying"} /\ r = "off"

ToResponder(t, c, r) ==
  \/ t = "WatchOpen"   /\ r = "off"      /\ c \in {"opening", "off"}
  \/ t = "Ready"       /\ r = "ready"    /\ c \in {"reserving", "off"}
  \/ t = "Reserve"     /\ r \in {"ready", "idle", "applied"} /\ c \in {"reserving", "off"}
  \/ t = "Ping"        /\ r \in {"idle", "applied"} /\ c \in {"idle", "reserving", "off"}
  \/ t = "Need"        /\ r = "serving"  /\ c \in {"objects", "off"}
  \/ t = "Plan"        /\ r = "planning" /\ c \in {"proposed", "off"}
  \/ t = "Done"        /\ r = "apply"    /\ c \in {"applying", "off"}
  \/ t = "Finished"    /\ r = "applied"  /\ c \in {"idle", "reserving", "off"}
  \/ t = "Invalidated" /\ r = "applied"  /\ c \in {"reserving", "off"}

Legal(c, r) ==
  \/ c = "off" \/ r = "off"
  \/ c = "opening"   /\ r = "ready"
  \/ c = "reserving" /\ r \in {"ready", "applied", "idle", "reserved", "serving"}
  \/ c = "scanned"   /\ r \in {"reserved", "serving"}
  \/ c = "objects"   /\ r \in {"serving", "planning"}
  \/ c = "proposed"  /\ r \in {"planning", "apply"}
  \/ c = "applying"  /\ r \in {"apply", "applied", "idle"}
  \/ c = "idle"      /\ r \in {"applied", "idle"}

(* Frames that are only on their way behind others, or alone.              *)
Needs(c, r, tc, tr) ==
  /\ "WatchOpen" \in tr => tc = {}
  /\ c = "reserving" /\ "Snapshot" \in tc => "Reserved" \in tc
  /\ c = "applying" /\ ("Changed" \in tc \/ "Error" \in tc) => "Invalidated" \in tc
  /\ r = "ready" /\ "Reserve" \in tr => "Ready" \in tr
  /\ r = "applied" /\ "Ping" \in tr => "Finished" \in tr
  /\ r = "applied" /\ "Reserve" \in tr => "Finished" \in tr \/ "Invalidated" \in tr

(* Frames that cannot be lost while the connection is there.               *)
Present(c, r, tc, tr) ==
  /\ c # "off" /\ (r = "off" => c = "opening" /\ tc = {})
  /\ c = "reserving" /\ r \in {"reserved", "serving"} => "Reserved" \in tc
  /\ c = "applying" /\ r = "idle" => "Invalidated" \in tc
  /\ c = "idle" /\ r = "applied" => "Finished" \in tr

TalkOf(c, r, tc, tr, o) ==
  /\ Legal(c, r) /\ Needs(c, r, tc, tr) /\ (o => Present(c, r, tc, tr))
  /\ \A t \in tc : ToConnector(t, c, r)
  /\ \A t \in tr : ToResponder(t, c, r)

Talk ==
  /\ TalkOf(at[C], at[R], Types(wire[C]), Types(wire[R]), open)
  /\ InOrder(wire[C]) /\ InOrder(wire[R])

(* An end that was at p took a frame of type t, wrote frames of types ts   *)
(* and is at q.                                                            *)
Wrote(e, ts) ==
  LET o == Other(e)
  IN  /\ open' = open
      /\ Types(wire'[o]) = IF open THEN Types(wire[o]) \cup ts ELSE Types(wire[o])
      /\ (\A a \in Types(wire[o]), b \in ts : open => MayFollow(b, a)) => InOrder(wire'[o])

Took(e, t) ==
  /\ t \in Types(wire[e])
  /\ \A s \in Types(wire'[e]) : s \in Types(wire[e]) /\ MayFollow(s, t)
  /\ \A s \in Types(wire[e]) : s = t \/ s \in Types(wire'[e])
  /\ InOrder(wire'[e])

Turn(e, p, t, q, ts) ==
  at[e] = p /\ at'[e] = q /\ at'[Other(e)] = at[Other(e)] /\ Took(e, t) /\ Wrote(e, ts)

LEMMA WroteIs ==
  ASSUME Talk, NEW e \in Ends, NEW f, Neat(f), open' = open, Writes(e, f)
  PROVE  Wrote(e, Types(f))
<1> DEFINE o == Other(e)
<1>0. InOrder(wire[o])
  BY EndsAre DEF Talk
<1>1. CASE open
  <2>1. Range(wire'[o]) = Range(wire[o]) \cup Range(f)
    BY <1>1 DEF Writes, More
  <2>2. Types(wire'[o]) = Types(wire[o]) \cup Types(f)
    BY <2>1 DEF Types
  <2>3. ASSUME \A a \in Types(wire[o]), b \in Types(f) : open => MayFollow(b, a)
        PROVE  InOrder(wire'[o])
    <3>1. \A a \in Range(wire[o]), b \in Range(f) : MayFollow(b.type, a.type)
      BY <1>1, <2>3 DEF Types
    <3> QED
      BY <1>0, <1>1, <3>1 DEF Writes, More
  <2> QED
    BY <1>1, <2>2, <2>3 DEF Wrote
<1>2. CASE ~open
  BY <1>0, <1>2 DEF Writes, Wrote
<1> QED
  BY <1>1, <1>2

LEMMA TookIs ==
  ASSUME Talk, NEW e \in Ends, NEW t, Head(wire[e]).type = t, Head(wire[e]) \in Range(wire[e]),
         Rest(wire[e], wire'[e])
  PROVE  Took(e, t)
<1>0. InOrder(wire[e])
  BY EndsAre DEF Talk
<1>1. InOrder(wire'[e]) /\ \A m \in Range(wire'[e]) : MayFollow(m.type, t)
  BY <1>0 DEF Rest
<1>2. \A m \in Range(wire'[e]) : m \in Range(wire[e])
  BY DEF Rest
<1>3. \A m \in Range(wire[e]) : m = Head(wire[e]) \/ m \in Range(wire'[e])
  BY DEF Rest
<1> QED
  BY <1>1, <1>2, <1>3 DEF Took, Types

LEMMA TurnIs ==
  ASSUME TypeOK, Talk, NEW e \in Ends, NEW p, NEW t, NEW q, NEW f, Neat(f), Step(e, p, t, q, f)
  PROVE  Turn(e, p, t, q, Types(f))
<1>1. wire[e] # <<>> /\ Head(wire[e]).type = t /\ Go(e, q) /\ Reply(e, f) /\ at[e] = p
  BY DEF Step, Gets
<1>2. Rest(wire[e], wire'[e]) /\ Writes(e, f) /\ open' = open /\ Head(wire[e]) \in Range(wire[e])
  BY <1>1, Answers DEF TypeOK
<1>3. Took(e, t) /\ Wrote(e, Types(f))
  BY <1>1, <1>2, TookIs, WroteIs
<1>4. at'[e] = q /\ at'[Other(e)] = at[Other(e)]
  BY <1>1, Moves, EndsAre DEF TypeOK
<1> QED
  BY <1>1, <1>3, <1>4 DEF Turn

LEMMA SaidIs ==
  ASSUME TypeOK, Talk, NEW e \in Ends, NEW f, Neat(f), Say(e, f)
  PROVE  Wrote(e, Types(f)) /\ wire'[e] = wire[e]
BY Says, WroteIs DEF TypeOK

(* The frames the connector takes.                                         *)
LEMMA ConnectorTurns ==
  ASSUME Talk
  PROVE  /\ Turn(C, "opening", "Ready", "reserving", {"Ready", "Reserve"}) => Talk'
         /\ Turn(C, "idle", "Pong", "idle", {}) => Talk'
         /\ Turn(C, "idle", "Changed", "idle", {}) => Talk'
         /\ Turn(C, "reserving", "Changed", "reserving", {}) => Talk'
         /\ Turn(C, "reserving", "Pong", "reserving", {}) => Talk'
         /\ Turn(C, "reserving", "Reserved", "scanned", {}) => Talk'
         /\ Turn(C, "scanned", "Snapshot", "objects", {"Need"}) => Talk'
         /\ Turn(C, "objects", "Done", "proposed", {"Plan"}) => Talk'
         /\ Turn(C, "proposed", "Need", "applying", {"Done"}) => Talk'
         /\ Turn(C, "applying", "Invalidated", "reserving", {"Reserve"}) => Talk'
         /\ Turn(C, "applying", "Applied", "reserving", {"Invalidated", "Reserve"}) => Talk'
         /\ Turn(C, "applying", "Applied", "idle", {"Finished"}) => Talk'
<1> USE EndsAre DEF Turn, Took, Wrote, Talk, TalkOf, ToConnector, ToResponder, Legal, 
   Needs, Present, MayFollow
<1>1. ASSUME Turn(C, "opening", "Ready", "reserving", {"Ready", "Reserve"}) PROVE Talk'
  BY <1>1
<1>2. ASSUME Turn(C, "idle", "Pong", "idle", {}) PROVE Talk'
  BY <1>2
<1>3. ASSUME Turn(C, "idle", "Changed", "idle", {}) PROVE Talk'
  BY <1>3
<1>4. ASSUME Turn(C, "reserving", "Changed", "reserving", {}) PROVE Talk'
  BY <1>4
<1>5. ASSUME Turn(C, "reserving", "Pong", "reserving", {}) PROVE Talk'
  BY <1>5
<1>6. ASSUME Turn(C, "reserving", "Reserved", "scanned", {}) PROVE Talk'
  BY <1>6
<1>7. ASSUME Turn(C, "scanned", "Snapshot", "objects", {"Need"}) PROVE Talk'
  BY <1>7
<1>8. ASSUME Turn(C, "objects", "Done", "proposed", {"Plan"}) PROVE Talk'
  BY <1>8
<1>9. ASSUME Turn(C, "proposed", "Need", "applying", {"Done"}) PROVE Talk'
  BY <1>9
<1>10. ASSUME Turn(C, "applying", "Invalidated", "reserving", {"Reserve"}) PROVE Talk'
  BY <1>10
<1>11. ASSUME Turn(C, "applying", "Applied", "reserving", {"Invalidated", "Reserve"}) PROVE Talk'
  BY <1>11
<1>12. ASSUME Turn(C, "applying", "Applied", "idle", {"Finished"}) PROVE Talk'
  BY <1>12
<1> QED
  BY <1>1, <1>2, <1>3, <1>4, <1>5, <1>6, <1>7, <1>8, <1>9, <1>10, <1>11, <1>12

(* The frames the responder takes.                                         *)
LEMMA ResponderTurns ==
  ASSUME Talk
  PROVE  /\ Turn(R, "off", "WatchOpen", "ready", {"Ready"}) => Talk'
         /\ Turn(R, "ready", "Ready", "idle", {}) => Talk'
         /\ Turn(R, "idle", "Ping", "idle", {"Pong"}) => Talk'
         /\ Turn(R, "idle", "Reserve", "reserved", {"Reserved"}) => Talk'
         /\ Turn(R, "serving", "Need", "planning", {"Done"}) => Talk'
         /\ Turn(R, "planning", "Plan", "apply", {"Need"}) => Talk'
         /\ Turn(R, "apply", "Done", "applied", {"Applied"}) => Talk'
         /\ Turn(R, "apply", "Done", "idle", {"Invalidated"}) => Talk'
         /\ Turn(R, "applied", "Finished", "idle", {}) => Talk'
         /\ Turn(R, "applied", "Invalidated", "idle", {}) => Talk'
<1> USE EndsAre DEF Turn, Took, Wrote, Talk, TalkOf, ToConnector, ToResponder, Legal, 
   Needs, Present, MayFollow
<1>1. ASSUME Turn(R, "off", "WatchOpen", "ready", {"Ready"}) PROVE Talk'
  BY <1>1
<1>2. ASSUME Turn(R, "ready", "Ready", "idle", {}) PROVE Talk'
  BY <1>2
<1>3. ASSUME Turn(R, "idle", "Ping", "idle", {"Pong"}) PROVE Talk'
  BY <1>3
<1>4. ASSUME Turn(R, "idle", "Reserve", "reserved", {"Reserved"}) PROVE Talk'
  BY <1>4
<1>5. ASSUME Turn(R, "serving", "Need", "planning", {"Done"}) PROVE Talk'
  BY <1>5
<1>6. ASSUME Turn(R, "planning", "Plan", "apply", {"Need"}) PROVE Talk'
  BY <1>6
<1>7. ASSUME Turn(R, "apply", "Done", "applied", {"Applied"}) PROVE Talk'
  BY <1>7
<1>8. ASSUME Turn(R, "apply", "Done", "idle", {"Invalidated"}) PROVE Talk'
  BY <1>8
<1>9. ASSUME Turn(R, "applied", "Finished", "idle", {}) PROVE Talk'
  BY <1>9
<1>10. ASSUME Turn(R, "applied", "Invalidated", "idle", {}) PROVE Talk'
  BY <1>10
<1> QED
  BY <1>1, <1>2, <1>3, <1>4, <1>5, <1>6, <1>7, <1>8, <1>9, <1>10

(* The steps that take no frame.                                           *)
Speaks(e, p, q, ts) ==
  /\ at[e] = p /\ at'[e] = q /\ at'[Other(e)] = at[Other(e)]
  /\ wire'[e] = wire[e] /\ Wrote(e, ts)

LEMMA SpeaksTalk ==
  ASSUME Talk
  PROVE  /\ Speaks(R, "idle", "idle", {"Changed"}) => Talk'
         /\ Speaks(R, "reserved", "serving", {"Snapshot"}) => Talk'
         /\ Speaks(C, "idle", "reserving", {"Reserve"}) => Talk'
         /\ Speaks(C, "idle", "idle", {"Ping"}) => Talk'
<1> USE EndsAre DEF Speaks, Wrote, Talk, TalkOf, ToConnector, ToResponder, Legal, Needs, Present,
        MayFollow
<1>1. ASSUME Speaks(R, "idle", "idle", {"Changed"}) PROVE Talk'
  BY <1>1
<1>2. ASSUME Speaks(R, "reserved", "serving", {"Snapshot"}) PROVE Talk'
  BY <1>2
<1>3. ASSUME Speaks(C, "idle", "reserving", {"Reserve"}) PROVE Talk'
  BY <1>3
<1>4. ASSUME Speaks(C, "idle", "idle", {"Ping"}) PROVE Talk'
  BY <1>4
<1> QED
  BY <1>1, <1>2, <1>3, <1>4

LEMMA SpeaksAre ==
  ASSUME TypeOK, Talk
  PROVE  /\ Advertise => Speaks(R, "idle", "idle", {"Changed"})
         /\ ResponderScans => Speaks(R, "reserved", "serving", {"Snapshot"})
         /\ RoundDue \/ Audit => Speaks(C, "idle", "reserving", {"Reserve"})
         /\ Ping => Speaks(C, "idle", "idle", {"Ping"})
<1>1. ASSUME Advertise PROVE Speaks(R, "idle", "idle", {"Changed"})
  <2>1. Neat(<<Frame("Changed")>>) /\ Types(<<Frame("Changed")>>) = {"Changed"}
    BY Written1 DEF Plain
  <2>2. Wrote(R, {"Changed"}) /\ wire'[R] = wire[R]
    BY <1>1, <2>1, SaidIs, EndsAre DEF Advertise
  <2> QED
    BY <1>1, <2>2 DEF Advertise, Speaks
<1>2. ASSUME ResponderScans PROVE Speaks(R, "reserved", "serving", {"Snapshot"})
  <2>0. scan'[R] \in Entries
    BY <1>2, RefreshTyped, EndsAre DEF ResponderScans
  <2> DEFINE f == <<FrameOf("Snapshot", scan'[R])>>
  <2>1. Neat(f) /\ Types(f) = {"Snapshot"}
    BY <2>0, Written1
  <2>2. Say(R, f)
    BY <1>2 DEF ResponderScans
  <2> HIDE DEF f
  <2>3. Wrote(R, {"Snapshot"}) /\ wire'[R] = wire[R]
    BY <2>1, <2>2, SaidIs, EndsAre
  <2>4. at[R] = "reserved" /\ at'[R] = "serving" /\ at'[C] = at[C]
    BY <1>2, Moves, EndsAre DEF ResponderScans, TypeOK
  <2> QED
    BY <2>3, <2>4, EndsAre DEF Speaks
<1>3. ASSUME RoundDue \/ Audit PROVE Speaks(C, "idle", "reserving", {"Reserve"})
  <2>1. Neat(<<Frame("Reserve")>>) /\ Types(<<Frame("Reserve")>>) = {"Reserve"}
    BY Written1 DEF Plain
  <2>2. Begin
    BY <1>3 DEF RoundDue, Audit
  <2>3. Wrote(C, {"Reserve"}) /\ wire'[C] = wire[C]
    BY <2>1, <2>2, SaidIs, EndsAre DEF Begin
  <2>4. at[C] = "idle" /\ at'[C] = "reserving" /\ at'[R] = at[R]
    BY <2>2, Moves, EndsAre DEF Begin, TypeOK
  <2> QED
    BY <2>3, <2>4, EndsAre DEF Speaks
<1>4. ASSUME Ping PROVE Speaks(C, "idle", "idle", {"Ping"})
  <2> DEFINE f == <<FrameOf("Ping", pings + 1)>>
  <2>0. pings + 1 \in Nat
    BY DEF TypeOK, RoundTyped
  <2>1. Neat(f) /\ Types(f) = {"Ping"}
    BY <2>0, Written1
  <2>2. Wrote(C, {"Ping"}) /\ wire'[C] = wire[C]
    BY <1>4, <2>1, SaidIs, EndsAre DEF Ping
  <2> QED
    BY <1>4, <2>2 DEF Ping, Speaks
<1> QED
  BY <1>1, <1>2, <1>3, <1>4

LEMMA ConnectTalk ==
  ASSUME TypeOK, Talk, Connect
  PROVE  Talk'
<1>1. /\ wire'[R] = <<Frame("WatchOpen")>> /\ wire'[C] = <<>> /\ open' = TRUE
      /\ at'[C] = "opening" /\ at'[R] = "off"
  BY Moves, EndsAre DEF Connect, TypeOK
<1>2. /\ Types(<<Frame("WatchOpen")>>) = {"WatchOpen"} /\ InOrder(<<Frame("WatchOpen")>>)
      /\ Types(<<>>) = {} /\ InOrder(<<>>)
  BY Written1 DEF Plain, Neat
<1>3. /\ Types(wire'[R]) = {"WatchOpen"} /\ InOrder(wire'[R])
      /\ Types(wire'[C]) = {} /\ InOrder(wire'[C])
  BY <1>1, <1>2
<1> QED
  BY <1>1, <1>3 DEF Talk, TalkOf, ToConnector, ToResponder, Legal, Needs, Present

LEMMA LoseWatcherTalk ==
  ASSUME TypeOK, Talk, LoseWatcher
  PROVE  Talk'
<1>1. /\ at[R] = "idle" /\ at'[R] = "off" /\ at'[C] = at[C] /\ open' = FALSE /\ wire'[R] = <<>>
      /\ wire'[C] = IF open THEN Append(wire[C], Frame("Error")) ELSE wire[C]
  BY Moves, EndsAre DEF LoseWatcher, Leaves, TypeOK
<1>2. Types(<<>>) = {} /\ InOrder(<<>>)
  BY Written1 DEF Neat
<1>3. Types(wire'[R]) = {} /\ InOrder(wire'[R])
  BY <1>1, <1>2
<1>4. CASE open
  <2> DEFINE f == <<Frame("Error")>>
  <2>1. Neat(f) /\ Types(f) = {"Error"}
    BY Written1 DEF Plain
  <2>2. wire[C] \in Seq(Frames) /\ Frame("Error") \in Frames
    BY FramesAre, EndsAre DEF TypeOK, WireTyped, Plain
  <2>3. wire'[C] = wire[C] \o f
    BY <1>1, <1>4, <2>2, AppendIsConcat
  <2> HIDE DEF f
  <2>4. More(wire[C], wire'[C], f)
    BY <2>1, <2>2, <2>3, Written
  <2>5. Types(wire'[C]) = Types(wire[C]) \cup {"Error"}
    BY <2>1, <2>4 DEF More, Types
  <2>6. \A t \in Types(wire[C]) : MayFollow("Error", t)
    BY <1>1, <1>4 DEF Talk, TalkOf, ToConnector, Legal, Needs, Present, MayFollow
  <2>7. InOrder(wire'[C])
    <3>1. \A a \in Range(wire[C]), b \in Range(f) : MayFollow(b.type, a.type)
      <4>1. \A b \in Range(f) : b.type = "Error"
        BY <2>1 DEF Types
      <4>2. \A a \in Range(wire[C]) : a.type \in Types(wire[C])
        BY DEF Types
      <4> QED
        BY <2>6, <4>1, <4>2
    <3> QED
      BY <2>4, <3>1 DEF More, Talk
  <2> QED
    BY <1>1, <1>3, <1>4, <2>5, <2>7
    DEF Talk, TalkOf, ToConnector, ToResponder, Legal, Needs, Present
<1>5. CASE ~open
  BY <1>1, <1>3, <1>5 DEF Talk, TalkOf, ToConnector, ToResponder, Legal, Needs, Present
<1> QED
  BY <1>4, <1>5

(* A connection that breaks loses the last frames of each wire.            *)
Cut(q, r) ==
  /\ Types(r) \subseteq Types(q) /\ InOrder(r) /\ Range(r) \subseteq Range(q)
  /\ \A a \in Types(r), b \in Types(q) : a # b /\ ~MayFollow(b, a) => b \in Types(r)

LEMMA BreakIs ==
  ASSUME TypeOK, Talk, Break
  PROVE  /\ Cut(wire[C], wire'[C]) /\ Cut(wire[R], wire'[R]) /\ open' = FALSE /\ at' = at
         /\ \A e \in Ends : \A t : Lone(wire[e], t) => Lone(wire'[e], t)
<1>1. PICK n \in 0 .. Len(wire[C]), m \in 0 .. Len(wire[R]) :
        wire' = [e \in Ends |-> SubSeq(wire[e], 1, IF e = C THEN n ELSE m)]
  BY DEF Break
<1>2. wire'[C] = SubSeq(wire[C], 1, n) /\ wire'[R] = SubSeq(wire[R], 1, m)
  BY <1>1, EndsAre
<1>3. wire[C] \in Seq(Frames) /\ wire[R] \in Seq(Frames) /\ InOrder(wire[C]) /\ InOrder(wire[R])
  BY EndsAre DEF TypeOK, WireTyped, Talk
<1>4. ASSUME NEW q \in Seq(Frames), InOrder(q), NEW i \in 0 .. Len(q), NEW r, r = SubSeq(q, 1, i)
      PROVE  Cut(q, r) /\ \A t : Lone(q, t) => Lone(r, t)
  <2>1. /\ InOrder(r) /\ Range(r) \subseteq Range(q) /\ \A t : Lone(q, t) => Lone(r, t)
        /\ \A a \in Range(r) : \A b \in Range(q) :
             a.type # b.type /\ ~MayFollow(b.type, a.type) => b \in Range(r)
    BY <1>4, PrefixOf
  <2>2. Types(r) \subseteq Types(q)
    BY <2>1 DEF Types
  <2>3. \A a \in Types(r), b \in Types(q) : a # b /\ ~MayFollow(b, a) => b \in Types(r)
    BY <2>1 DEF Types
  <2> QED
    BY <2>1, <2>2, <2>3 DEF Cut
<1>5. /\ Cut(wire[C], wire'[C]) /\ (\A t : Lone(wire[C], t) => Lone(wire'[C], t))
      /\ Cut(wire[R], wire'[R]) /\ (\A t : Lone(wire[R], t) => Lone(wire'[R], t))
  BY <1>2, <1>3, <1>4
<1> QED
  BY <1>5, EndsAre DEF Break

LEMMA BreakTalk ==
  ASSUME TypeOK, Talk, Break
  PROVE  Talk'
<1>1. Cut(wire[C], wire'[C]) /\ Cut(wire[R], wire'[R]) /\ open' = FALSE /\ at' = at
  BY BreakIs
<1>2. Needs(at[C], at[R], Types(wire'[C]), Types(wire'[R]))
  BY <1>1 DEF Cut, MayFollow, Talk, TalkOf, Needs
<1> QED
  BY <1>1, <1>2 DEF Cut, Talk, TalkOf

(* An end that leaves, at the end of what it has to read.                  *)
LEMMA LeavesAt ==
  ASSUME TypeOK, NEW e \in Ends, Leaves(e)
  PROVE  at'[e] = "off" /\ at'[Other(e)] = at[Other(e)]
BY Moves, EndsAre DEF Leaves, TypeOK

LEMMA EndTalk ==
  ASSUME TypeOK, Talk, NEW e \in Ends, End(e)
  PROVE  Talk'
<1>1. at'[e] = "off" /\ at'[Other(e)] = at[Other(e)] /\ wire' = wire /\ open = FALSE /\ open' = open
  BY LeavesAt DEF End, TypeOK, WireTyped
<1>2. Types(wire[e]) = {}
  BY Written1 DEF End
<1> QED
  BY <1>1, <1>2, EndsAre DEF Talk, TalkOf, ToConnector, ToResponder, Legal, Needs, Present

LEMMA HearErrorTalk ==
  ASSUME TypeOK, Talk, HearError
  PROVE  Talk'
<1>1. at'[C] = "off" /\ at'[R] = at[R] /\ wire[C] # <<>> /\ Head(wire[C]).type = "Error"
  BY LeavesAt, EndsAre DEF HearError, Gets
<1>2. Reply(C, <<>>) /\ Neat(<<>>) /\ Types(<<>>) = {}
  BY Written1 DEF HearError
<1>3. Rest(wire[C], wire'[C]) /\ Writes(C, <<>>) /\ open' = open /\ Head(wire[C]) \in Range(wire[C])
  BY <1>1, <1>2, Answers, EndsAre DEF TypeOK
<1>4. Took(C, "Error") /\ Wrote(C, {})
  BY <1>1, <1>2, <1>3, TookIs, WroteIs, EndsAre
<1> QED
  BY <1>1, <1>4, EndsAre
  DEF Took, Wrote, Talk, TalkOf, ToConnector, ToResponder, Legal, Needs, Present, MayFollow

(* The steps that take a frame, and the frames they write.                 *)
LEMMA StepsOf ==
  ASSUME TypeOK
  PROVE  /\ HearPong => Step(C, "idle", "Pong", "idle", <<>>)
         /\ HearChanged => Step(C, "idle", "Changed", "idle", <<>>)
         /\ ConnectorScans => Step(C, "reserving", "Reserved", "scanned", <<>>)
         /\ ConnectorPlans => Step(C, "scanned", "Snapshot", "objects", <<Frame("Need")>>)
         /\ ConnectorRetries => Step(C, "applying", "Invalidated", "reserving", <<Frame("Reserve")>>)
         /\ ConnectorCompletes => Step(C, "applying", "Applied", "idle", <<Frame("Finished")>>)
         /\ ResponderReady => Step(R, "ready", "Ready", "idle", <<>>)
         /\ ServeRound => Step(R, "idle", "Reserve", "reserved", <<Frame("Reserved")>>)
         /\ ServeNeed => Step(R, "serving", "Need", "planning", <<Frame("Done")>>)
         /\ ServePlan => Step(R, "planning", "Plan", "apply", <<Frame("Need")>>)
         /\ ResponderApplies => Step(R, "apply", "Done", "applied", <<Frame("Applied")>>)
         /\ ResponderCompletes => Step(R, "applied", "Finished", "idle", <<>>)
         /\ ResponderRetries => Step(R, "applied", "Invalidated", "idle", <<>>)
<1>1. ASSUME HearPong PROVE Step(C, "idle", "Pong", "idle", <<>>)
  BY <1>1, Stays, EndsAre DEF HearPong, Step
<1>2. ASSUME HearChanged PROVE Step(C, "idle", "Changed", "idle", <<>>)
  BY <1>2, Stays, EndsAre DEF HearChanged, Step
<1>3. ASSUME ConnectorScans PROVE Step(C, "reserving", "Reserved", "scanned", <<>>)
  BY <1>3 DEF ConnectorScans, Step
<1>4. ASSUME ConnectorPlans PROVE Step(C, "scanned", "Snapshot", "objects", <<Frame("Need")>>)
  BY <1>4 DEF ConnectorPlans, Step
<1>5. ASSUME ConnectorRetries PROVE Step(C, "applying", "Invalidated", "reserving", <<Frame("Reserve")>>)
  BY <1>5 DEF ConnectorRetries, Step
<1>6. ASSUME ConnectorCompletes PROVE Step(C, "applying", "Applied", "idle", <<Frame("Finished")>>)
  BY <1>6 DEF ConnectorCompletes, Step
<1>7. ASSUME ResponderReady PROVE Step(R, "ready", "Ready", "idle", <<>>)
  BY <1>7 DEF ResponderReady, Step
<1>8. ASSUME ServeRound PROVE Step(R, "idle", "Reserve", "reserved", <<Frame("Reserved")>>)
  BY <1>8 DEF ServeRound, Step
<1>9. ASSUME ServeNeed PROVE Step(R, "serving", "Need", "planning", <<Frame("Done")>>)
  BY <1>9 DEF ServeNeed, Step
<1>10. ASSUME ServePlan PROVE Step(R, "planning", "Plan", "apply", <<Frame("Need")>>)
  BY <1>10 DEF ServePlan, Step
<1>11. ASSUME ResponderApplies PROVE Step(R, "apply", "Done", "applied", <<Frame("Applied")>>)
  BY <1>11 DEF ResponderApplies, Step
<1>12. ASSUME ResponderCompletes PROVE Step(R, "applied", "Finished", "idle", <<>>)
  BY <1>12 DEF ResponderCompletes, Step
<1>13. ASSUME ResponderRetries PROVE Step(R, "applied", "Invalidated", "idle", <<>>)
  BY <1>13 DEF ResponderRetries, Step
<1> QED
  BY <1>1, <1>2, <1>3, <1>4, <1>5, <1>6, <1>7, <1>8, <1>9, <1>10, <1>11, <1>12, <1>13

LEMMA TurnsOf ==
  ASSUME TypeOK, Talk
  PROVE  /\ HearPong => Turn(C, "idle", "Pong", "idle", {})
         /\ HearChanged => Turn(C, "idle", "Changed", "idle", {})
         /\ ConnectorScans => Turn(C, "reserving", "Reserved", "scanned", {})
         /\ ConnectorPlans => Turn(C, "scanned", "Snapshot", "objects", {"Need"})
         /\ ConnectorRetries => Turn(C, "applying", "Invalidated", "reserving", {"Reserve"})
         /\ ConnectorCompletes => Turn(C, "applying", "Applied", "idle", {"Finished"})
         /\ ResponderReady => Turn(R, "ready", "Ready", "idle", {})
         /\ ServeRound => Turn(R, "idle", "Reserve", "reserved", {"Reserved"})
         /\ ServeNeed => Turn(R, "serving", "Need", "planning", {"Done"})
         /\ ServePlan => Turn(R, "planning", "Plan", "apply", {"Need"})
         /\ ResponderApplies => Turn(R, "apply", "Done", "applied", {"Applied"})
         /\ ResponderCompletes => Turn(R, "applied", "Finished", "idle", {})
         /\ ResponderRetries => Turn(R, "applied", "Invalidated", "idle", {})
<1>1. ASSUME HearPong PROVE Turn(C, "idle", "Pong", "idle", {})
  <2>1. Step(C, "idle", "Pong", "idle", <<>>)
    BY <1>1, StepsOf
  <2>2. Neat(<<>>) /\ Types(<<>>) = {}
    BY Written1
  <2> QED
    BY <2>1, <2>2, TurnIs, EndsAre
<1>2. ASSUME HearChanged PROVE Turn(C, "idle", "Changed", "idle", {})
  <2>1. Step(C, "idle", "Changed", "idle", <<>>)
    BY <1>2, StepsOf
  <2>2. Neat(<<>>) /\ Types(<<>>) = {}
    BY Written1
  <2> QED
    BY <2>1, <2>2, TurnIs, EndsAre
<1>3. ASSUME ConnectorScans PROVE Turn(C, "reserving", "Reserved", "scanned", {})
  <2>1. Step(C, "reserving", "Reserved", "scanned", <<>>)
    BY <1>3, StepsOf
  <2>2. Neat(<<>>) /\ Types(<<>>) = {}
    BY Written1
  <2> QED
    BY <2>1, <2>2, TurnIs, EndsAre
<1>4. ASSUME ConnectorPlans PROVE Turn(C, "scanned", "Snapshot", "objects", {"Need"})
  <2>1. Step(C, "scanned", "Snapshot", "objects", <<Frame("Need")>>)
    BY <1>4, StepsOf
  <2>2. Neat(<<Frame("Need")>>) /\ Types(<<Frame("Need")>>) = {"Need"}
    BY Written1 DEF Plain
  <2> QED
    BY <2>1, <2>2, TurnIs, EndsAre
<1>5. ASSUME ConnectorRetries PROVE Turn(C, "applying", "Invalidated", "reserving", {"Reserve"})
  <2>1. Step(C, "applying", "Invalidated", "reserving", <<Frame("Reserve")>>)
    BY <1>5, StepsOf
  <2>2. Neat(<<Frame("Reserve")>>) /\ Types(<<Frame("Reserve")>>) = {"Reserve"}
    BY Written1 DEF Plain
  <2> QED
    BY <2>1, <2>2, TurnIs, EndsAre
<1>6. ASSUME ConnectorCompletes PROVE Turn(C, "applying", "Applied", "idle", {"Finished"})
  <2>1. Step(C, "applying", "Applied", "idle", <<Frame("Finished")>>)
    BY <1>6, StepsOf
  <2>2. Neat(<<Frame("Finished")>>) /\ Types(<<Frame("Finished")>>) = {"Finished"}
    BY Written1 DEF Plain
  <2> QED
    BY <2>1, <2>2, TurnIs, EndsAre
<1>7. ASSUME ResponderReady PROVE Turn(R, "ready", "Ready", "idle", {})
  <2>1. Step(R, "ready", "Ready", "idle", <<>>)
    BY <1>7, StepsOf
  <2>2. Neat(<<>>) /\ Types(<<>>) = {}
    BY Written1
  <2> QED
    BY <2>1, <2>2, TurnIs, EndsAre
<1>8. ASSUME ServeRound PROVE Turn(R, "idle", "Reserve", "reserved", {"Reserved"})
  <2>1. Step(R, "idle", "Reserve", "reserved", <<Frame("Reserved")>>)
    BY <1>8, StepsOf
  <2>2. Neat(<<Frame("Reserved")>>) /\ Types(<<Frame("Reserved")>>) = {"Reserved"}
    BY Written1 DEF Plain
  <2> QED
    BY <2>1, <2>2, TurnIs, EndsAre
<1>9. ASSUME ServeNeed PROVE Turn(R, "serving", "Need", "planning", {"Done"})
  <2>1. Step(R, "serving", "Need", "planning", <<Frame("Done")>>)
    BY <1>9, StepsOf
  <2>2. Neat(<<Frame("Done")>>) /\ Types(<<Frame("Done")>>) = {"Done"}
    BY Written1 DEF Plain
  <2> QED
    BY <2>1, <2>2, TurnIs, EndsAre
<1>10. ASSUME ServePlan PROVE Turn(R, "planning", "Plan", "apply", {"Need"})
  <2>1. Step(R, "planning", "Plan", "apply", <<Frame("Need")>>)
    BY <1>10, StepsOf
  <2>2. Neat(<<Frame("Need")>>) /\ Types(<<Frame("Need")>>) = {"Need"}
    BY Written1 DEF Plain
  <2> QED
    BY <2>1, <2>2, TurnIs, EndsAre
<1>11. ASSUME ResponderApplies PROVE Turn(R, "apply", "Done", "applied", {"Applied"})
  <2>1. Step(R, "apply", "Done", "applied", <<Frame("Applied")>>)
    BY <1>11, StepsOf
  <2>2. Neat(<<Frame("Applied")>>) /\ Types(<<Frame("Applied")>>) = {"Applied"}
    BY Written1 DEF Plain
  <2> QED
    BY <2>1, <2>2, TurnIs, EndsAre
<1>12. ASSUME ResponderCompletes PROVE Turn(R, "applied", "Finished", "idle", {})
  <2>1. Step(R, "applied", "Finished", "idle", <<>>)
    BY <1>12, StepsOf
  <2>2. Neat(<<>>) /\ Types(<<>>) = {}
    BY Written1
  <2> QED
    BY <2>1, <2>2, TurnIs, EndsAre
<1>13. ASSUME ResponderRetries PROVE Turn(R, "applied", "Invalidated", "idle", {})
  <2>1. Step(R, "applied", "Invalidated", "idle", <<>>)
    BY <1>13, StepsOf
  <2>2. Neat(<<>>) /\ Types(<<>>) = {}
    BY Written1
  <2> QED
    BY <2>1, <2>2, TurnIs, EndsAre
<1> QED
  BY <1>1, <1>2, <1>3, <1>4, <1>5, <1>6, <1>7, <1>8, <1>9, <1>10, <1>11, <1>12, <1>13

(* The others write what they know.                                        *)
LEMMA TurnsWith ==
  ASSUME TypeOK, Talk
  PROVE  /\ Accept => Turn(R, "off", "WatchOpen", "ready", {"Ready"})
         /\ ConnectorReady => Turn(C, "opening", "Ready", "reserving", {"Ready", "Reserve"})
         /\ AnswerPing => Turn(R, "idle", "Ping", "idle", {"Pong"})
         /\ Drain => \E t \in Drained : Turn(C, "reserving", t, "reserving", {})
         /\ ConnectorFetches => \/ Turn(C, "objects", "Done", "proposed", {"Plan"})
                                \/ Turn(C, "proposed", "Need", "applying", {"Done"})
         /\ ResponderStops => Turn(R, "apply", "Done", "idle", {"Invalidated"})
         /\ ConnectorStops =>
              Turn(C, "applying", "Applied", "reserving", {"Invalidated", "Reserve"})
<1>1. ASSUME Accept PROVE Turn(R, "off", "WatchOpen", "ready", {"Ready"})
  <2> DEFINE f == <<FrameOf("Ready", unsettled[R])>>
  <2>1. Neat(f) /\ Types(f) = {"Ready"}
    BY EndsAre, Written1 DEF TypeOK, RoundTyped
  <2>2. Step(R, "off", "WatchOpen", "ready", f)
    BY <1>1 DEF Accept, Step
  <2> QED
    BY <2>1, <2>2, TurnIs, EndsAre
<1>2. ASSUME ConnectorReady PROVE Turn(C, "opening", "Ready", "reserving", {"Ready", "Reserve"})
  <2> DEFINE f == <<FrameOf("Ready", unsettled[C] \cup Arg(C)), Frame("Reserve")>>
  <2>0. Arg(C) \in SUBSET Paths /\ unsettled[C] \in SUBSET Paths
    BY <1>2, Received, EndsAre DEF ConnectorReady, Gets, Argument, TypeOK, RoundTyped
  <2>1. Neat(f) /\ Types(f) = {"Ready", "Reserve"}
    BY <2>0, Letters
  <2>2. Step(C, "opening", "Ready", "reserving", f)
    BY <1>2 DEF ConnectorReady, Step
  <2> QED
    BY <2>1, <2>2, TurnIs, EndsAre
<1>3. ASSUME AnswerPing PROVE Turn(R, "idle", "Ping", "idle", {"Pong"})
  <2> DEFINE f == <<FrameOf("Pong", Arg(R))>>
  <2>0. Arg(R) \in Nat
    BY <1>3, Received, EndsAre DEF AnswerPing, Gets, Argument
  <2>1. Neat(f) /\ Types(f) = {"Pong"}
    BY <2>0, Written1
  <2>2. Step(R, "idle", "Ping", "idle", f)
    BY <1>3, Stays, EndsAre DEF AnswerPing, Step
  <2> QED
    BY <2>1, <2>2, TurnIs, EndsAre
<1>4. ASSUME Drain PROVE \E t \in Drained : Turn(C, "reserving", t, "reserving", {})
  <2>1. PICK t \in Drained : Step(C, "reserving", t, "reserving", <<>>)
    BY <1>4, Stays, EndsAre DEF Drain, Step
  <2>2. Neat(<<>>) /\ Types(<<>>) = {}
    BY Written1
  <2>3. Turn(C, "reserving", t, "reserving", {})
    BY <2>1, <2>2, TurnIs, EndsAre
  <2> QED
    BY <2>3
<1>5. ASSUME ConnectorFetches
      PROVE  \/ Turn(C, "objects", "Done", "proposed", {"Plan"})
             \/ Turn(C, "proposed", "Need", "applying", {"Done"})
  <2>1. CASE Step(C, "objects", "Done", "proposed", <<FrameOf("Plan", scan[C])>>)
    <3>1. scan[C] \in Entries
      BY EndsAre DEF TypeOK, DataTyped
    <3> DEFINE f == <<FrameOf("Plan", scan[C])>>
    <3>2. Neat(f) /\ Types(f) = {"Plan"}
      BY <3>1, Written1
    <3> QED
      BY <2>1, <3>2, TurnIs, EndsAre
  <2>2. CASE Step(C, "proposed", "Need", "applying", <<Frame("Done")>>)
    <3>1. Neat(<<Frame("Done")>>) /\ Types(<<Frame("Done")>>) = {"Done"}
      BY Written1 DEF Plain
    <3> QED
      BY <2>2, <3>1, TurnIs, EndsAre
  <2> QED
    BY <1>5, <2>1, <2>2 DEF ConnectorFetches
<1>6. ASSUME ResponderStops PROVE Turn(R, "apply", "Done", "idle", {"Invalidated"})
  <2>1. PICK k \in DOMAIN Order :
          Step(R, "apply", "Done", "idle", <<FrameOf("Invalidated", Order[k])>>)
    BY <1>6 DEF ResponderStops
  <2> DEFINE f == <<FrameOf("Invalidated", Order[k])>>
  <2>2. Neat(f) /\ Types(f) = {"Invalidated"}
    BY Written1 DEF Paths
  <2> QED
    BY <2>1, <2>2, TurnIs, EndsAre
<1>7. ASSUME ConnectorStops
      PROVE  Turn(C, "applying", "Applied", "reserving", {"Invalidated", "Reserve"})
  <2> DEFINE f(k) == <<FrameOf("Invalidated", Order[k]), Frame("Reserve")>>
  <2>1. PICK k \in DOMAIN Order : Step(C, "applying", "Applied", "reserving", f(k))
    BY <1>7 DEF ConnectorStops
  <2>2. Neat(f(k)) /\ Types(f(k)) = {"Invalidated", "Reserve"}
    BY Letters DEF Paths
  <2> QED
    BY <2>1, <2>2, TurnIs, EndsAre
<1> QED
  BY <1>1, <1>2, <1>3, <1>4, <1>5, <1>6, <1>7

(* The steps that neither move an end nor touch a wire.                    *)
LEMMA SilentTalk ==
  ASSUME Talk, UNCHANGED <<at, wire, open>>
  PROVE  Talk'
BY DEF Talk, TalkOf

LEMMA NextTalk ==
  ASSUME TypeOK, Talk, [Next]_vars
  PROVE  Talk'
<1>1. ASSUME SignalStep \/ UNCHANGED vars \/ \E p \in Paths : Write(p) PROVE Talk'
  BY <1>1, SilentTalk DEF SignalStep, Schedule, Notice, Deliver, Write, vars
<1>2. ASSUME BeginStep PROVE Talk'
  BY <1>2, ConnectTalk, TurnsOf, TurnsWith, ConnectorTurns, ResponderTurns DEF BeginStep
<1>3. ASSUME IdleStep PROVE Talk'
  BY <1>3, SpeaksAre, SpeaksTalk, TurnsOf, TurnsWith, ConnectorTurns, ResponderTurns DEF IdleStep
<1>4. ASSUME PlanStep PROVE Talk'
  BY <1>4, SpeaksAre, SpeaksTalk, TurnsOf, TurnsWith, ConnectorTurns, ResponderTurns
  DEF PlanStep, Drained
<1>5. ASSUME ResponderStep \/ ConnectorStep PROVE Talk'
  BY <1>5, TurnsOf, TurnsWith, ConnectorTurns, ResponderTurns DEF ResponderStep, ConnectorStep
<1>6. ASSUME EndStep PROVE Talk'
  BY <1>6, LoseWatcherTalk, BreakTalk, HearErrorTalk, EndTalk DEF EndStep
<1> QED
  BY <1>1, <1>2, <1>3, <1>4, <1>5, <1>6, StepsAre

LEMMA InitTalk == Init => Talk
<1> SUFFICES ASSUME Init PROVE Talk
  OBVIOUS
<1>1. at[C] = "off" /\ at[R] = "off" /\ wire[C] = <<>> /\ wire[R] = <<>> /\ open = FALSE
  BY EndsAre DEF Init
<1>2. Types(wire[C]) = {} /\ Types(wire[R]) = {} /\ InOrder(wire[C]) /\ InOrder(wire[R])
  BY <1>1, Written1, InitTyped DEF Neat
<1> QED
  BY <1>1, <1>2 DEF Talk, TalkOf, Legal, Needs

----------------------------------------------------------------------------
(* The cycles of the two ends.                                             *)

(* A path that is called invalid is one the other end has not left out.    *)
InvalidatedPlanned ==
  \A e \in Ends : \A m \in Range(wire[e]) : m.type = "Invalidated" => m.arg \in Planned(e)

(* From the request of a round to the last word on it, the cycles are      *)
(* equal.                                                                  *)
Together(c, r) ==
  \/ c = "reserving" /\ r \in {"reserved", "serving"}
  \/ c \in {"scanned", "objects", "proposed", "applying"}
     /\ r \in {"reserved", "serving", "planning", "apply", "applied"}

SameCycles == Together(at[C], at[R]) => cycle[C] = cycle[R]

FreshCycles ==
  /\ at[C] \in {"off", "opening", "idle"} => cycle[C] = NewCycle
  /\ at[R] \in {"off", "ready"} => cycle[R] = NewCycle
  /\ open /\ at[C] = "idle" /\ at[R] = "idle" => cycle[R] = NewCycle

(* The end that has seen the invalid path is one step ahead.               *)
ResponderAhead ==
  \A m \in Range(wire[C]) :
    m.type = "Invalidated" /\ at[R] = "idle" => cycle[R] = Observe(cycle[C], m.arg)

ConnectorAhead ==
  at[C] = "reserving" /\ "Reserve" \in Types(wire[R]) =>
    /\ at[R] \in {"ready", "idle"} => cycle[C] = cycle[R]
    /\ at[R] = "applied" =>
         \A m \in Range(wire[R]) :
           /\ m.type = "Invalidated" => cycle[C] = Observe(cycle[R], m.arg)
           /\ m.type = "Finished" => cycle[C] = NewCycle

Cycling ==
  InvalidatedPlanned /\ SameCycles /\ FreshCycles /\ ResponderAhead /\ ConnectorAhead

(* Where the frames on a wire place the two ends.                          *)
Placed ==
  /\ \A m \in Range(wire[C]) : ToConnector(m.type, at[C], at[R]) /\ m.type \in Types(wire[C])
  /\ \A m \in Range(wire[R]) : ToResponder(m.type, at[C], at[R]) /\ m.type \in Types(wire[R])
  /\ \A t \in Types(wire[C]) : ToConnector(t, at[C], at[R])
  /\ \A t \in Types(wire[R]) : ToResponder(t, at[C], at[R])
  /\ Legal(at[C], at[R]) /\ (open => at[C] # "off" /\ (at[R] = "off" => at[C] = "opening"))

LEMMA PlacedIs == (Talk => Placed) /\ (Talk' => Placed')
BY DEF Talk, TalkOf, Present, Placed, Types

(* The frames themselves, when one is taken and others are written.        *)
Passed(e, f) ==
  /\ Head(wire[e]) \in Range(wire[e]) /\ Arg(e) = Head(wire[e]).arg
  /\ \A m \in Range(wire'[e]) : m \in Range(wire[e]) /\ MayFollow(m.type, Head(wire[e]).type)
  /\ \A m \in Range(wire'[Other(e)]) : m \in Range(wire[Other(e)]) \/ (open /\ m \in Range(f))

LEMMA PassedIs ==
  ASSUME TypeOK, Talk, NEW e \in Ends, wire[e] # <<>>, NEW f, Neat(f), Reply(e, f)
  PROVE  Passed(e, f)
<1>1. Rest(wire[e], wire'[e]) /\ Writes(e, f) /\ Head(wire[e]) \in Range(wire[e])
  BY Answers DEF TypeOK
<1>2. \A m \in Range(wire'[e]) : m \in Range(wire[e]) /\ MayFollow(m.type, Head(wire[e]).type)
  BY <1>1, EndsAre DEF Rest, Talk
<1>3. \A m \in Range(wire'[Other(e)]) : m \in Range(wire[Other(e)]) \/ (open /\ m \in Range(f))
  BY <1>1 DEF Writes, More
<1> QED
  BY <1>1, <1>2, <1>3 DEF Passed, Arg

LEMMA CycleMoves ==
  ASSUME TypeOK, NEW e \in Ends, NEW p
  PROVE  /\ Invalidated(e, p) =>
              /\ cycle'[e] = Observe(cycle[e], p) /\ cycle'[Other(e)] = cycle[Other(e)]
              /\ unsettled'[e] = unsettled[e] \cup {p} /\ unsettled'[Other(e)] = unsettled[Other(e)]
         /\ cycle' = Set(cycle, e, NewCycle) =>
              cycle'[e] = NewCycle /\ cycle'[Other(e)] = cycle[Other(e)]
BY EndsAre DEF Invalidated, Remember, Set, TypeOK, RoundTyped

(* Steps that keep the cycles.                                             *)
Keeps(e, p, t, q, ts, f) == Turn(e, p, t, q, ts) /\ Passed(e, f) /\ cycle' = cycle

LEMMA KeepsIs ==
  ASSUME TypeOK, Talk, NEW e \in Ends, NEW p, NEW t, NEW q, NEW f, Neat(f), Step(e, p, t, q, f),
         cycle' = cycle
  PROVE  Keeps(e, p, t, q, Types(f), f)
BY TurnIs, PassedIs DEF Keeps, Step, Gets

LEMMA KeepsCycling ==
  ASSUME Talk, Cycling, Talk', NEW f, \A m \in Range(f) : m.type \in Types(f) /\ m.type # "Invalidated"
  PROVE  /\ Keeps(C, "opening", "Ready", "reserving", Types(f), f) => Cycling'
         /\ \A t : Keeps(C, "idle", t, "idle", Types(f), f) => Cycling'
         /\ \A t : Keeps(C, "reserving", t, "reserving", {}, f) => Cycling'
         /\ Keeps(C, "reserving", "Reserved", "scanned", {}, f) => Cycling'
         /\ Keeps(C, "scanned", "Snapshot", "objects", Types(f), f) => Cycling'
         /\ Keeps(C, "objects", "Done", "proposed", Types(f), f) => Cycling'
         /\ Keeps(C, "proposed", "Need", "applying", Types(f), f) => Cycling'
<1>0. Placed /\ Placed'
  BY PlacedIs
<1> USE <1>0, EndsAre DEF Keeps, Turn, Took, Wrote, Passed, Placed, ToConnector, ToResponder, Legal,
        Together, Cycling, InvalidatedPlanned, SameCycles, FreshCycles, ResponderAhead,
        ConnectorAhead, Planned
<1>1. ASSUME Keeps(C, "opening", "Ready", "reserving", Types(f), f) PROVE Cycling'
  BY <1>1
<1>2. ASSUME NEW t, Keeps(C, "idle", t, "idle", Types(f), f) PROVE Cycling'
  BY <1>2
<1>3. ASSUME NEW t, Keeps(C, "reserving", t, "reserving", {}, f) PROVE Cycling'
  BY <1>3
<1>4. ASSUME Keeps(C, "reserving", "Reserved", "scanned", {}, f) PROVE Cycling'
  BY <1>4
<1>5. ASSUME Keeps(C, "scanned", "Snapshot", "objects", Types(f), f) PROVE Cycling'
  BY <1>5
<1>6. ASSUME Keeps(C, "objects", "Done", "proposed", Types(f), f) PROVE Cycling'
  BY <1>6
<1>7. ASSUME Keeps(C, "proposed", "Need", "applying", Types(f), f) PROVE Cycling'
  BY <1>7
<1> QED
  BY <1>1, <1>2, <1>3, <1>4, <1>5, <1>6, <1>7

LEMMA ResponderKeeps ==
  ASSUME Talk, Cycling, Talk', NEW f, \A m \in Range(f) : m.type \in Types(f) /\ m.type # "Invalidated"
  PROVE  /\ Keeps(R, "off", "WatchOpen", "ready", Types(f), f) => Cycling'
         /\ Keeps(R, "ready", "Ready", "idle", Types(f), f) => Cycling'
         /\ Keeps(R, "idle", "Ping", "idle", Types(f), f) => Cycling'
         /\ Keeps(R, "idle", "Reserve", "reserved", Types(f), f) => Cycling'
         /\ Keeps(R, "serving", "Need", "planning", Types(f), f) => Cycling'
         /\ Keeps(R, "planning", "Plan", "apply", Types(f), f) => Cycling'
         /\ Keeps(R, "apply", "Done", "applied", Types(f), f) => Cycling'
<1>0. Placed /\ Placed'
  BY PlacedIs
<1> USE <1>0, EndsAre DEF Keeps, Turn, Took, Wrote, Passed, Placed, ToConnector, ToResponder, Legal,
        Together, Cycling, InvalidatedPlanned, SameCycles, FreshCycles, ResponderAhead,
        ConnectorAhead, Planned
<1>1. ASSUME Keeps(R, "off", "WatchOpen", "ready", Types(f), f) PROVE Cycling'
  BY <1>1
<1>2. ASSUME Keeps(R, "ready", "Ready", "idle", Types(f), f) PROVE Cycling'
  BY <1>2
<1>3. ASSUME Keeps(R, "idle", "Ping", "idle", Types(f), f) PROVE Cycling'
  BY <1>3
<1>4. ASSUME Keeps(R, "idle", "Reserve", "reserved", Types(f), f) PROVE Cycling'
  BY <1>4
<1>5. ASSUME Keeps(R, "serving", "Need", "planning", Types(f), f) PROVE Cycling'
  BY <1>5
<1>6. ASSUME Keeps(R, "planning", "Plan", "apply", Types(f), f) PROVE Cycling'
  BY <1>6
<1>7. ASSUME Keeps(R, "apply", "Done", "applied", Types(f), f) PROVE Cycling'
  BY <1>7
<1> QED
  BY <1>1, <1>2, <1>3, <1>4, <1>5, <1>6, <1>7

(* The steps that only write.                                              *)
Adds(e, f) ==
  /\ wire'[e] = wire[e]
  /\ \A m \in Range(wire'[Other(e)]) : m \in Range(wire[Other(e)]) \/ (open /\ m \in Range(f))

LEMMA AddsIs ==
  ASSUME TypeOK, NEW e \in Ends, NEW f, Neat(f), Say(e, f)
  PROVE  Adds(e, f)
<1>1. wire'[e] = wire[e] /\ Writes(e, f)
  BY Says DEF TypeOK
<1> QED
  BY <1>1 DEF Adds, Writes, More

LEMMA SpeaksCycling ==
  ASSUME TypeOK, Talk, Cycling, Talk', Advertise \/ ResponderScans \/ RoundDue \/ Audit \/ Ping
  PROVE  Cycling'
<1>0. Placed /\ Placed'
  BY PlacedIs
<1> USE <1>0, EndsAre DEF Speaks, Adds, Wrote, Placed, ToConnector, ToResponder, Legal,
        Together, Cycling, InvalidatedPlanned, SameCycles, FreshCycles, ResponderAhead,
        ConnectorAhead, Planned
<1>1. CASE Advertise
  <2> DEFINE f == <<Frame("Changed")>>
  <2>1. Neat(f) /\ Types(f) = {"Changed"}
    BY Written1 DEF Plain
  <2>2. Adds(R, f) /\ Speaks(R, "idle", "idle", {"Changed"}) /\ cycle' = cycle
    BY <1>1, <2>1, AddsIs, SpeaksAre DEF Advertise, round
  <2>3. \A m \in Range(f) : m.type = "Changed"
    BY <2>1 DEF Types
  <2> HIDE DEF f
  <2> QED
    BY <2>2, <2>3
<1>2. CASE ResponderScans
  <2>0. scan'[R] \in Entries
    BY <1>2, RefreshTyped DEF ResponderScans
  <2> DEFINE f == <<FrameOf("Snapshot", scan'[R])>>
  <2>1. Neat(f) /\ Types(f) = {"Snapshot"}
    BY <2>0, Written1
  <2>2. Say(R, f) /\ cycle' = cycle
    BY <1>2 DEF ResponderScans
  <2>3. \A m \in Range(f) : m.type = "Snapshot"
    BY <2>1 DEF Types
  <2> HIDE DEF f
  <2>4. Adds(R, f) /\ Speaks(R, "reserved", "serving", {"Snapshot"})
    BY <1>2, <2>1, <2>2, AddsIs, SpeaksAre
  <2> QED
    BY <2>2, <2>3, <2>4
<1>3. CASE RoundDue \/ Audit
  <2> DEFINE f == <<Frame("Reserve")>>
  <2>1. Neat(f) /\ Types(f) = {"Reserve"}
    BY Written1 DEF Plain
  <2>2. Adds(C, f) /\ Speaks(C, "idle", "reserving", {"Reserve"}) /\ cycle' = cycle
    BY <1>3, <2>1, AddsIs, SpeaksAre DEF RoundDue, Audit, Begin, round
  <2>3. \A m \in Range(f) : m.type = "Reserve"
    BY <2>1 DEF Types
  <2> HIDE DEF f
  <2> QED
    BY <2>2, <2>3
<1>4. CASE Ping
  <2> DEFINE f == <<FrameOf("Ping", pings + 1)>>
  <2>0. pings + 1 \in Nat
    BY DEF TypeOK, RoundTyped
  <2>1. Neat(f) /\ Types(f) = {"Ping"}
    BY <2>0, Written1
  <2>2. Adds(C, f) /\ Speaks(C, "idle", "idle", {"Ping"}) /\ cycle' = cycle
    BY <1>4, <2>1, AddsIs, SpeaksAre DEF Ping, round
  <2>3. \A m \in Range(f) : m.type = "Ping"
    BY <2>1 DEF Types
  <2> HIDE DEF f
  <2> QED
    BY <2>2, <2>3
<1> QED
  BY <1>1, <1>2, <1>3, <1>4

(* The steps that change a cycle.                                          *)
LEMMA StopsAre ==
  ASSUME TypeOK, NEW e \in Ends, NEW k \in DOMAIN Order, Stops(e, k)
  PROVE  /\ Order[k] \in Planned(e) /\ Order[k] \in Paths /\ Invalidated(e, Order[k])
         /\ OwnerOf[Order[k]] = e
BY DEF Stops, Changed, Planned, Paths

LEMMA ResponderStopsCycling ==
  ASSUME TypeOK, Talk, Cycling, Talk', ResponderStops
  PROVE  Cycling'
<1> DEFINE f(k) == <<FrameOf("Invalidated", Order[k])>>
<1>0. Placed /\ Placed'
  BY PlacedIs
<1>1. PICK k \in DOMAIN Order : Step(R, "apply", "Done", "idle", f(k)) /\ Stops(R, k)
  BY DEF ResponderStops
<1>2. Order[k] \in Planned(R) /\ Order[k] \in Paths /\ Invalidated(R, Order[k])
  BY <1>1, StopsAre, EndsAre
<1>3. Neat(f(k)) /\ Range(f(k)) = {FrameOf("Invalidated", Order[k])}
  BY <1>2, Letters, FramesAre
<1>4. Turn(R, "apply", "Done", "idle", {"Invalidated"}) /\ Passed(R, f(k))
  BY <1>1, <1>3, TurnsWith, PassedIs, EndsAre DEF Step, Gets
<1>5. cycle'[R] = Observe(cycle[R], Order[k]) /\ cycle'[C] = cycle[C]
  BY <1>2, CycleMoves, EndsAre
<1>6. \A m \in Range(f(k)) : m.arg = Order[k]
  BY <1>3, FramesAre
<1> HIDE DEF f
<1> QED
  BY <1>0, <1>2, <1>4, <1>5, <1>6, EndsAre
  DEF Turn, Took, Wrote, Passed, Placed, ToConnector, ToResponder, Legal, Together, Cycling,
      InvalidatedPlanned, SameCycles, FreshCycles, ResponderAhead, ConnectorAhead, Planned

LEMMA ConnectorStopsCycling ==
  ASSUME TypeOK, Talk, Cycling, Talk', ConnectorStops
  PROVE  Cycling'
<1> DEFINE f(k) == <<FrameOf("Invalidated", Order[k]), Frame("Reserve")>>
<1>0. Placed /\ Placed'
  BY PlacedIs
<1>1. PICK k \in DOMAIN Order : Step(C, "applying", "Applied", "reserving", f(k)) /\ Stops(C, k)
  BY DEF ConnectorStops
<1>2. Order[k] \in Planned(C) /\ Order[k] \in Paths /\ Invalidated(C, Order[k])
  BY <1>1, StopsAre, EndsAre
<1>3. Neat(f(k)) /\ Range(f(k)) = {FrameOf("Invalidated", Order[k]), Frame("Reserve")}
  BY <1>2, Letters
<1>4. Turn(C, "applying", "Applied", "reserving", {"Invalidated", "Reserve"}) /\ Passed(C, f(k))
  BY <1>1, <1>3, TurnsWith, PassedIs, EndsAre DEF Step, Gets
<1>5. cycle'[C] = Observe(cycle[C], Order[k]) /\ cycle'[R] = cycle[R]
  BY <1>2, CycleMoves, EndsAre
<1>6. \A m \in Range(f(k)) :
        m.type \in {"Invalidated", "Reserve"} /\ (m.type = "Invalidated" => m.arg = Order[k])
  BY <1>3, FramesAre DEF Plain
<1> HIDE DEF f
<1> QED
  BY <1>0, <1>2, <1>4, <1>5, <1>6, EndsAre
  DEF Turn, Took, Wrote, Passed, Placed, ToConnector, ToResponder, Legal, Together, Cycling,
      InvalidatedPlanned, SameCycles, FreshCycles, ResponderAhead, ConnectorAhead, Planned

LEMMA RetriesCycling ==
  ASSUME TypeOK, Talk, Cycling, Talk', ConnectorRetries \/ ResponderRetries
  PROVE  Cycling'
<1>0. Placed /\ Placed'
  BY PlacedIs
<1> USE EndsAre DEF Turn, Took, Wrote, Passed, Placed, ToConnector, ToResponder, Legal, Together,
        Cycling, InvalidatedPlanned, SameCycles, FreshCycles, ResponderAhead, ConnectorAhead,
        Planned
<1>1. CASE ConnectorRetries
  <2> DEFINE f == <<Frame("Reserve")>>
  <2>1. Neat(f) /\ Types(f) = {"Reserve"}
    BY Written1 DEF Plain
  <2>2. /\ Turn(C, "applying", "Invalidated", "reserving", {"Reserve"}) /\ Passed(C, f)
        /\ Head(wire[C]).type = "Invalidated" /\ Invalidated(C, Arg(C))
    BY <1>1, <2>1, TurnsOf, PassedIs DEF ConnectorRetries, Step, Gets
  <2>3. cycle'[C] = Observe(cycle[C], Arg(C)) /\ cycle'[R] = cycle[R]
    BY <2>2, CycleMoves
  <2>4. \A m \in Range(f) : m.type = "Reserve"
    BY <2>1 DEF Types
  <2> HIDE DEF f
  <2>5. \A m \in Range(wire'[C]) : m.type # "Invalidated"
    BY <2>2 DEF MayFollow
  <2> QED
    BY <1>0, <2>2, <2>3, <2>4, <2>5
<1>2. CASE ResponderRetries
  <2>1. Neat(<<>>) /\ Types(<<>>) = {} /\ Range(<<>>) = {}
    BY Letters
  <2>2. /\ Turn(R, "applied", "Invalidated", "idle", {}) /\ Passed(R, <<>>)
        /\ Head(wire[R]).type = "Invalidated" /\ Invalidated(R, Arg(R))
    BY <1>2, <2>1, TurnsOf, PassedIs DEF ResponderRetries, Step, Gets
  <2>3. cycle'[R] = Observe(cycle[R], Arg(R)) /\ cycle'[C] = cycle[C]
    BY <2>2, CycleMoves
  <2>5. \A m \in Range(wire'[R]) : m.type # "Invalidated"
    BY <2>2 DEF MayFollow
  <2> QED
    BY <1>0, <2>1, <2>2, <2>3, <2>5
<1> QED
  BY <1>1, <1>2

LEMMA CompletesCycling ==
  ASSUME TypeOK, Talk, Cycling, Talk', ConnectorCompletes \/ ResponderCompletes
  PROVE  Cycling'
<1>0. Placed /\ Placed'
  BY PlacedIs
<1> USE EndsAre DEF Turn, Took, Wrote, Passed, Placed, ToConnector, ToResponder, Legal, Together,
        Cycling, InvalidatedPlanned, SameCycles, FreshCycles, ResponderAhead, ConnectorAhead,
        Planned
<1>1. CASE ConnectorCompletes
  <2> DEFINE f == <<Frame("Finished")>>
  <2>1. Neat(f) /\ Types(f) = {"Finished"}
    BY Written1 DEF Plain
  <2>2. Turn(C, "applying", "Applied", "idle", {"Finished"}) /\ Passed(C, f)
    BY <1>1, <2>1, TurnsOf, PassedIs DEF ConnectorCompletes, Step, Gets
  <2>3. cycle'[C] = NewCycle /\ cycle'[R] = cycle[R]
    BY <1>1, CycleMoves DEF ConnectorCompletes
  <2>4. \A m \in Range(f) : m.type = "Finished"
    BY <2>1 DEF Types
  <2> HIDE DEF f
  <2> QED
    BY <1>0, <2>2, <2>3, <2>4
<1>2. CASE ResponderCompletes
  <2>1. Neat(<<>>) /\ Types(<<>>) = {} /\ Range(<<>>) = {}
    BY Letters
  <2>2. /\ Turn(R, "applied", "Finished", "idle", {}) /\ Passed(R, <<>>)
        /\ Head(wire[R]).type = "Finished"
    BY <1>2, <2>1, TurnsOf, PassedIs DEF ResponderCompletes, Step, Gets
  <2>3. cycle'[R] = NewCycle /\ cycle'[C] = cycle[C]
    BY <1>2 DEF ResponderCompletes, NextCycle, TypeOK, RoundTyped
  <2>4. \A m \in Range(wire'[R]) : m.type # "Invalidated"
    BY <2>2 DEF MayFollow
  <2> QED
    BY <1>0, <2>1, <2>2, <2>3, <2>4
<1> QED
  BY <1>1, <1>2

LEMMA KeptCycling ==
  ASSUME TypeOK, Talk, Cycling, Talk', NEW f, Neat(f), "Invalidated" \notin Types(f), cycle' = cycle,
         \/ Step(C, "opening", "Ready", "reserving", f)
         \/ \E t \in Drained : Step(C, "idle", t, "idle", f)
         \/ (\E t \in Drained : Step(C, "reserving", t, "reserving", f)) /\ Types(f) = {}
         \/ Step(C, "reserving", "Reserved", "scanned", f) /\ Types(f) = {}
         \/ Step(C, "scanned", "Snapshot", "objects", f)
         \/ Step(C, "objects", "Done", "proposed", f)
         \/ Step(C, "proposed", "Need", "applying", f)
         \/ Step(R, "off", "WatchOpen", "ready", f)
         \/ Step(R, "ready", "Ready", "idle", f)
         \/ Step(R, "idle", "Ping", "idle", f)
         \/ Step(R, "idle", "Reserve", "reserved", f)
         \/ Step(R, "serving", "Need", "planning", f)
         \/ Step(R, "planning", "Plan", "apply", f)
         \/ Step(R, "apply", "Done", "applied", f)
  PROVE  Cycling'
<1>0. \A m \in Range(f) : m.type \in Types(f) /\ m.type # "Invalidated"
  BY DEF Types
<1>1. \A e \in Ends : \A p, t, q : Step(e, p, t, q, f) => Keeps(e, p, t, q, Types(f), f)
  BY KeepsIs
<1>2. CASE Step(C, "opening", "Ready", "reserving", f)
  BY <1>0, <1>1, <1>2, KeepsCycling, EndsAre
<1>3. ASSUME NEW t \in Drained, Step(C, "idle", t, "idle", f) PROVE Cycling'
  BY <1>0, <1>1, <1>3, KeepsCycling, EndsAre
<1>4. ASSUME NEW t \in Drained, Step(C, "reserving", t, "reserving", f), Types(f) = {} PROVE Cycling'
  BY <1>0, <1>1, <1>4, KeepsCycling, EndsAre
<1>5. CASE Step(C, "reserving", "Reserved", "scanned", f) /\ Types(f) = {}
  BY <1>0, <1>1, <1>5, KeepsCycling, EndsAre
<1>6. CASE Step(C, "scanned", "Snapshot", "objects", f)
  BY <1>0, <1>1, <1>6, KeepsCycling, EndsAre
<1>7. CASE Step(C, "objects", "Done", "proposed", f)
  BY <1>0, <1>1, <1>7, KeepsCycling, EndsAre
<1>8. CASE Step(C, "proposed", "Need", "applying", f)
  BY <1>0, <1>1, <1>8, KeepsCycling, EndsAre
<1>9. CASE Step(R, "off", "WatchOpen", "ready", f)
  BY <1>0, <1>1, <1>9, ResponderKeeps, EndsAre
<1>10. CASE Step(R, "ready", "Ready", "idle", f)
  BY <1>0, <1>1, <1>10, ResponderKeeps, EndsAre
<1>11. CASE Step(R, "idle", "Ping", "idle", f)
  BY <1>0, <1>1, <1>11, ResponderKeeps, EndsAre
<1>12. CASE Step(R, "idle", "Reserve", "reserved", f)
  BY <1>0, <1>1, <1>12, ResponderKeeps, EndsAre
<1>13. CASE Step(R, "serving", "Need", "planning", f)
  BY <1>0, <1>1, <1>13, ResponderKeeps, EndsAre
<1>14. CASE Step(R, "planning", "Plan", "apply", f)
  BY <1>0, <1>1, <1>14, ResponderKeeps, EndsAre
<1>15. CASE Step(R, "apply", "Done", "applied", f)
  BY <1>0, <1>1, <1>15, ResponderKeeps, EndsAre
<1> QED
  BY <1>2, <1>3, <1>4, <1>5, <1>6, <1>7, <1>8, <1>9, <1>10, <1>11, <1>12, <1>13, <1>14, <1>15

LEMMA RoundsCycling ==
  ASSUME TypeOK, Talk, Cycling, Talk', BeginStep \/ IdleStep \/ PlanStep
  PROVE  Cycling'
<1>1. CASE Connect
  <2>1. /\ wire'[R] = <<Frame("WatchOpen")>> /\ wire'[C] = <<>> /\ cycle' = cycle
        /\ at'[C] = "opening" /\ at'[R] = "off" /\ at[C] = "off" /\ at[R] = "off"
    BY <1>1, Moves, EndsAre DEF Connect, TypeOK
  <2>2. Range(wire'[C]) = {} /\ Range(wire'[R]) = {Frame("WatchOpen")}
    BY <2>1, Letters, FramesAre DEF Plain
  <2>3. Frame("WatchOpen").type = "WatchOpen"
    BY FramesAre DEF Plain
  <2> QED
    BY <2>1, <2>2, <2>3, EndsAre
    DEF Cycling, InvalidatedPlanned, SameCycles, FreshCycles, ResponderAhead, ConnectorAhead,
        Together
<1>2. CASE Accept
  <2> DEFINE f == <<FrameOf("Ready", unsettled[R])>>
  <2>1. Neat(f) /\ Types(f) = {"Ready"}
    BY EndsAre, Written1 DEF TypeOK, RoundTyped
  <2>2. Step(R, "off", "WatchOpen", "ready", f) /\ cycle' = cycle
    BY <1>2 DEF Accept, Step, round
  <2> QED
    BY <2>1, <2>2, KeptCycling
<1>3. CASE ConnectorReady
  <2> DEFINE f == <<FrameOf("Ready", unsettled[C] \cup Arg(C)), Frame("Reserve")>>
  <2>0. Arg(C) \in SUBSET Paths /\ unsettled[C] \in SUBSET Paths
    BY <1>3, Received, EndsAre DEF ConnectorReady, Gets, Argument, TypeOK, RoundTyped
  <2>1. Neat(f) /\ Types(f) = {"Ready", "Reserve"}
    BY <2>0, Letters
  <2>2. Step(C, "opening", "Ready", "reserving", f) /\ cycle' = cycle
    BY <1>3 DEF ConnectorReady, Step
  <2> QED
    BY <2>1, <2>2, KeptCycling
<1>4. CASE AnswerPing
  <2> DEFINE f == <<FrameOf("Pong", Arg(R))>>
  <2>0. Arg(R) \in Nat
    BY <1>4, Received, EndsAre DEF AnswerPing, Gets, Argument
  <2>1. Neat(f) /\ Types(f) = {"Pong"}
    BY <2>0, Written1
  <2>2. Step(R, "idle", "Ping", "idle", f) /\ cycle' = cycle
    BY <1>4, Stays, EndsAre DEF AnswerPing, Step, round
  <2> QED
    BY <2>1, <2>2, KeptCycling
<1>5. CASE ResponderReady \/ HearPong \/ HearChanged \/ Drain \/ ConnectorScans
  <2>1. Neat(<<>>) /\ Types(<<>>) = {}
    BY Letters
  <2>2. cycle' = cycle
    BY <1>5 DEF ResponderReady, HearPong, HearChanged, Drain, ConnectorScans, round
  <2>3. Drain => \E t \in Drained : Step(C, "reserving", t, "reserving", <<>>)
    BY Stays, EndsAre DEF Drain, Step
  <2>4. HearPong \/ HearChanged => \E t \in Drained : Step(C, "idle", t, "idle", <<>>)
    BY StepsOf DEF Drained
  <2>5. ResponderReady => Step(R, "ready", "Ready", "idle", <<>>)
    BY StepsOf
  <2>6. ConnectorScans => Step(C, "reserving", "Reserved", "scanned", <<>>)
    BY StepsOf
  <2> QED
    BY <1>5, <2>1, <2>2, <2>3, <2>4, <2>5, <2>6, KeptCycling
<1>6. CASE ServeRound
  <2>1. Neat(<<Frame("Reserved")>>) /\ Types(<<Frame("Reserved")>>) = {"Reserved"}
    BY Written1 DEF Plain
  <2>2. Step(R, "idle", "Reserve", "reserved", <<Frame("Reserved")>>) /\ cycle' = cycle
    BY <1>6 DEF ServeRound, Step, round
  <2> QED
    BY <2>1, <2>2, KeptCycling
<1>7. CASE ConnectorPlans \/ ServePlan
  <2>1. Neat(<<Frame("Need")>>) /\ Types(<<Frame("Need")>>) = {"Need"}
    BY Written1 DEF Plain
  <2>2. \/ Step(C, "scanned", "Snapshot", "objects", <<Frame("Need")>>)
        \/ Step(R, "planning", "Plan", "apply", <<Frame("Need")>>)
    BY <1>7 DEF ConnectorPlans, ServePlan
  <2>3. cycle' = cycle
    BY <1>7 DEF ConnectorPlans, ServePlan
  <2> QED
    BY <2>1, <2>2, <2>3, KeptCycling
<1>8. CASE ConnectorFetches \/ ServeNeed
  <2>1. Neat(<<Frame("Done")>>) /\ Types(<<Frame("Done")>>) = {"Done"}
    BY Written1 DEF Plain
  <2>2. Neat(<<FrameOf("Plan", scan[C])>>) /\ Types(<<FrameOf("Plan", scan[C])>>) = {"Plan"}
    BY Written1, EndsAre DEF TypeOK, DataTyped
  <2>3. \/ Step(C, "proposed", "Need", "applying", <<Frame("Done")>>)
        \/ Step(R, "serving", "Need", "planning", <<Frame("Done")>>)
        \/ Step(C, "objects", "Done", "proposed", <<FrameOf("Plan", scan[C])>>)
    BY <1>8 DEF ConnectorFetches, ServeNeed
  <2>4. cycle' = cycle
    BY <1>8 DEF ConnectorFetches, ServeNeed, round
  <2>5. CASE \/ Step(C, "proposed", "Need", "applying", <<Frame("Done")>>)
             \/ Step(R, "serving", "Need", "planning", <<Frame("Done")>>)
    BY <2>1, <2>4, <2>5, KeptCycling
  <2>6. CASE Step(C, "objects", "Done", "proposed", <<FrameOf("Plan", scan[C])>>)
    <3> DEFINE f == <<FrameOf("Plan", scan[C])>>
    <3>1. Neat(f) /\ Types(f) = {"Plan"} /\ Step(C, "objects", "Done", "proposed", f)
      BY <2>2, <2>6
    <3> HIDE DEF f
    <3> QED
      BY <2>4, <3>1, KeptCycling
  <2> QED
    BY <2>3, <2>5, <2>6
<1> QED
  BY <1>1, <1>2, <1>3, <1>4, <1>5, <1>6, <1>7, <1>8, SpeaksCycling DEF BeginStep, IdleStep, PlanStep

LEMMA ResponderAppliesCycling ==
  ASSUME TypeOK, Talk, Cycling, Talk', ResponderApplies
  PROVE  Cycling'
<1>1. Neat(<<Frame("Applied")>>) /\ Types(<<Frame("Applied")>>) = {"Applied"}
  BY Written1 DEF Plain
<1>2. Step(R, "apply", "Done", "applied", <<Frame("Applied")>>) /\ cycle' = cycle
  BY DEF ResponderApplies, round
<1> QED
  BY <1>1, <1>2, KeptCycling

LEMMA LoseWatcherIs ==
  ASSUME TypeOK, LoseWatcher
  PROVE  /\ at[R] = "idle" /\ at'[R] = "off" /\ at'[C] = at[C] /\ open' = FALSE
         /\ cycle'[R] = NewCycle /\ cycle'[C] = cycle[C]
         /\ Range(wire'[R]) = {} /\ Types(wire'[R]) = {}
         /\ \A m \in Range(wire'[C]) : m \in Range(wire[C]) \/ m.type = "Error"
<1>1. Leaves(R) /\ wire'[R] = <<>> /\ open' = FALSE /\ at[R] = "idle"
  BY EndsAre DEF LoseWatcher
<1>2. at'[R] = "off" /\ at'[C] = at[C] /\ cycle'[R] = NewCycle /\ cycle'[C] = cycle[C]
  BY <1>1, LeavesAt, CycleMoves, EndsAre DEF Leaves
<1>3. Range(<<>>) = {} /\ Types(<<>>) = {}
  BY Letters
<1>4. Range(wire'[R]) = {} /\ Types(wire'[R]) = {}
  BY <1>1, <1>3
<1>5. \A m \in Range(wire'[C]) : m \in Range(wire[C]) \/ m.type = "Error"
  <2>1. /\ wire[C] \in Seq(Frames) /\ <<Frame("Error")>> \in Seq(Frames)
        /\ Frame("Error") \in Frames /\ Frame("Error").type = "Error"
        /\ Range(<<Frame("Error")>>) = {Frame("Error")}
    BY FramesAre, Letters, EndsAre DEF TypeOK, WireTyped, Plain, Neat
  <2>2. wire'[C] = wire[C] \/ wire'[C] = wire[C] \o <<Frame("Error")>>
    BY <2>1, AppendIsConcat, EndsAre DEF LoseWatcher
  <2>3. Range(wire[C] \o <<Frame("Error")>>) = Range(wire[C]) \cup {Frame("Error")}
    BY <2>1, Longer
  <2> QED
    BY <2>1, <2>2, <2>3
<1> QED
  BY <1>1, <1>2, <1>4, <1>5

LEMMA EndsCycling ==
  ASSUME TypeOK, Talk, Cycling, Talk', EndStep
  PROVE  Cycling'
<1>0. Placed /\ Placed'
  BY PlacedIs
<1> USE <1>0, EndsAre DEF Placed, ToConnector, ToResponder, Legal,
        Together, Cycling, InvalidatedPlanned, SameCycles, FreshCycles, ResponderAhead,
        ConnectorAhead, Planned
<1>1. CASE LoseWatcher
  BY <1>1, LoseWatcherIs
<1>2. CASE Break
  <2>1. /\ Cut(wire[C], wire'[C]) /\ Cut(wire[R], wire'[R]) /\ open' = FALSE /\ at' = at
        /\ cycle' = cycle
    BY <1>2, BreakIs DEF Break, round
  <2>2. /\ Range(wire'[C]) \subseteq Range(wire[C]) /\ Range(wire'[R]) \subseteq Range(wire[R])
        /\ Types(wire'[R]) \subseteq Types(wire[R])
    BY <2>1 DEF Cut
  <2> QED
    BY <2>1, <2>2
<1>3. CASE HearError
  <2>1. /\ at'[C] = "off" /\ at'[R] = at[R] /\ cycle'[C] = NewCycle /\ cycle'[R] = cycle[R]
    BY <1>3, LeavesAt, CycleMoves DEF HearError, Leaves
  <2>2. Neat(<<>>) /\ Range(<<>>) = {}
    BY Letters
  <2>3. Passed(C, <<>>) /\ Head(wire[C]).type = "Error"
    BY <1>3, <2>2, PassedIs DEF HearError, Gets
  <2>4. Range(wire'[C]) = {}
    BY <2>3 DEF Passed, MayFollow
  <2>5. \A m \in Range(wire'[R]) : m \in Range(wire[R])
    BY <2>2, <2>3 DEF Passed
  <2>6. open' = open
    BY <1>3 DEF HearError, Reply
  <2> QED
    BY <2>1, <2>4, <2>5, <2>6
<1>4. ASSUME NEW e \in Ends, End(e) PROVE Cycling'
  <2>1. /\ at'[e] = "off" /\ at'[Other(e)] = at[Other(e)] /\ wire' = wire /\ open' = open
        /\ cycle'[e] = NewCycle /\ cycle'[Other(e)] = cycle[Other(e)] /\ wire[e] = <<>> /\ ~open
    BY <1>4, LeavesAt, CycleMoves DEF End, Leaves
  <2>2. Range(wire[e]) = {} /\ Types(wire[e]) = {}
    BY <2>1, Letters
  <2>3. CASE e = C
    BY <2>1, <2>2, <2>3
  <2>4. CASE e = R
    BY <2>1, <2>2, <2>4
  <2> QED
    BY <2>3, <2>4
<1> QED
  BY <1>1, <1>2, <1>3, <1>4 DEF EndStep

LEMMA NextCycling ==
  ASSUME TypeOK, Talk, Cycling, [Next]_vars
  PROVE  Cycling'
<1>0. Talk'
  BY NextTalk
<1>1. ASSUME SignalStep \/ UNCHANGED vars \/ \E p \in Paths : Write(p) PROVE Cycling'
  <2>1. UNCHANGED <<at, wire, open, cycle>>
    BY <1>1 DEF SignalStep, Schedule, Notice, Deliver, Write, vars, round
  <2> QED
    BY <2>1 DEF Cycling, InvalidatedPlanned, SameCycles, FreshCycles, ResponderAhead,
       ConnectorAhead, Planned
<1> QED
  BY <1>0, <1>1, StepsAre, RoundsCycling, ResponderAppliesCycling, ResponderStopsCycling,
     ConnectorStopsCycling, RetriesCycling, CompletesCycling, EndsCycling
  DEF ResponderStep, ConnectorStep

LEMMA InitCycling == Init => Cycling
<1> SUFFICES ASSUME Init PROVE Cycling
  OBVIOUS
<1>1. /\ at[C] = "off" /\ at[R] = "off" /\ wire[C] = <<>> /\ wire[R] = <<>>
      /\ cycle[C] = NewCycle /\ cycle[R] = NewCycle
  BY EndsAre DEF Init
<1>2. Range(wire[C]) = {} /\ Range(wire[R]) = {}
  BY <1>1, Letters
<1> QED
  BY <1>1, <1>2, EndsAre
  DEF Cycling, InvalidatedPlanned, SameCycles, FreshCycles, ResponderAhead, ConnectorAhead,
      Together

(* A deferred path is one that was invalidated, and is kept as unsettled.  *)
LEMMA NextUnsettled ==
  ASSUME TypeOK, DeferredUnsettled, [Next]_vars
  PROVE  DeferredUnsettled'
<1>1. CASE UNCHANGED <<cycle, unsettled>>
  BY <1>1 DEF DeferredUnsettled
<1>2. ASSUME NEW e \in Ends, NEW p, Invalidated(e, p) PROVE DeferredUnsettled'
  <2>1. Observe(cycle[e], p).deferred \subseteq cycle[e].deferred \cup {p}
    BY DEF Observe, TypeOK, RoundTyped, Cycles
  <2>2. \A d \in Ends : d # e => d = Other(e)
    BY DEF Ends, Other
  <2> QED
    BY <1>2, <2>1, <2>2, CycleMoves DEF DeferredUnsettled
<1>3. ASSUME NEW e \in Ends, cycle' = Set(cycle, e, NewCycle), unsettled' = unsettled \/ Settles(e)
      PROVE  DeferredUnsettled'
  <2>1. cycle'[e].deferred = {} /\ \A d \in Ends : d # e => cycle'[d] = cycle[d]
    BY <1>3 DEF Set, NewCycle, TypeOK, RoundTyped
  <2>2. \A d \in Ends : d # e => unsettled'[d] = unsettled[d]
    BY <1>3 DEF Settles, Set, TypeOK, RoundTyped
  <2> QED
    BY <2>1, <2>2 DEF DeferredUnsettled
<1>4. ASSUME NEW e \in Ends, NEW ps, Remember(e, ps), cycle' = cycle PROVE DeferredUnsettled'
  BY <1>4 DEF DeferredUnsettled, Remember, TypeOK, RoundTyped
<1>5. ASSUME UNCHANGED vars \/ SignalStep \/ (\E p \in Paths : Write(p)) \/ IdleStep \/ PlanStep
             \/ Connect \/ Accept \/ ResponderApplies \/ Break
      PROVE  UNCHANGED <<cycle, unsettled>>
  BY <1>5
  DEF vars, round, SignalStep, Schedule, Notice, Deliver, Write, IdleStep, Advertise, AnswerPing,
      RoundDue, Audit, Begin, Ping, HearPong, HearChanged, PlanStep, Drain, ServeRound,
      ResponderScans, ConnectorScans, ConnectorPlans, ConnectorFetches, ServeNeed, ServePlan,
      Connect, Accept, ResponderApplies, Break
<1>6. ASSUME ConnectorReady \/ ResponderReady PROVE DeferredUnsettled'
  BY <1>4, <1>6, EndsAre DEF ConnectorReady, ResponderReady
<1>7. ASSUME ResponderStops \/ ConnectorStops \/ ConnectorRetries \/ ResponderRetries
      PROVE  DeferredUnsettled'
  BY <1>2, <1>7, EndsAre DEF ResponderStops, ConnectorStops, Stops, ConnectorRetries, ResponderRetries
<1>8. ASSUME ConnectorCompletes \/ ResponderCompletes PROVE DeferredUnsettled'
  <2>1. ResponderCompletes => cycle' = Set(cycle, R, NewCycle)
    BY DEF ResponderCompletes, NextCycle, Set
  <2> QED
    BY <1>3, <1>8, <2>1, EndsAre DEF ConnectorCompletes, ResponderCompletes
<1>9. ASSUME LoseWatcher \/ HearError \/ \E e \in Ends : End(e) PROVE DeferredUnsettled'
  BY <1>3, <1>9, EndsAre DEF LoseWatcher, HearError, End, Leaves
<1> QED
  BY <1>1, <1>5, <1>6, <1>7, <1>8, <1>9, StepsAre
  DEF BeginStep, ResponderStep, ConnectorStep, EndStep

(* The frames and the cycles together.                                     *)
Agreeing == TypeOK /\ Talk /\ Cycling /\ DeferredUnsettled

LEMMA InitAgreeing == Init => Agreeing
<1>1. Init => DeferredUnsettled
  BY DEF Init, DeferredUnsettled, NewCycle
<1> QED
  BY <1>1, InitTyped, InitTalk, InitCycling DEF Agreeing

LEMMA NextAgreeing == Agreeing /\ [Next]_vars => Agreeing'
BY NextTyped, NextTalk, NextCycling, NextUnsettled DEF Agreeing

(* A path that is left out of a plan is reported as unsettled until a      *)
(* round leaves out none (Remember and Settles).                           *)
THEOREM DeferredAreUnsettled == Spec => []DeferredUnsettled
<1>1. Agreeing => DeferredUnsettled
  BY DEF Agreeing
<1> QED
  BY <1>1, InitAgreeing, NextAgreeing, PTL DEF Spec

(* The two ends never apply plans that leave out different paths, whatever *)
(* was invalidated, repeated or lost before.                               *)
THEOREM PlansAgree == Spec => []DeferredAgree
<1>1. Agreeing => DeferredAgree
  BY DEF Agreeing, Cycling, SameCycles, Together, DeferredAgree, Planned
<1> QED
  BY <1>1, InitAgreeing, NextAgreeing, PTL DEF Spec

----------------------------------------------------------------------------
(* The heartbeat.                                                          *)

(* Of a ping that is unanswered there is one frame on its way.             *)
Beats ==
  at[C] = "idle" =>
    /\ \A m \in Range(wire[C]) : m.type = "Pong" => m.arg = awaiting /\ awaiting # 0
    /\ \A m \in Range(wire[R]) : m.type = "Ping" => m.arg = awaiting /\ awaiting # 0
    /\ ~("Pong" \in Types(wire[C]) /\ "Ping" \in Types(wire[R]))
    /\ Lone(wire[C], "Pong") /\ Lone(wire[R], "Ping")

LEMMA BeatsKept ==
  ASSUME Beats, at'[C] = "idle" => at[C] = "idle", awaiting' = awaiting,
         \A m \in Range(wire'[C]) : m \in Range(wire[C]) \/ m.type # "Pong",
         \A m \in Range(wire'[R]) : m \in Range(wire[R]) \/ m.type # "Ping",
         Lone(wire[C], "Pong") => Lone(wire'[C], "Pong"),
         Lone(wire[R], "Ping") => Lone(wire'[R], "Ping")
  PROVE  Beats'
BY DEF Beats, Types

(* The frames that are left are alone as before; so are new ones.          *)
LEMMA LoneKept ==
  ASSUME TypeOK, NEW e \in Ends, NEW f, Neat(f), open' = open, NEW t
  PROVE  /\ Rest(wire[e], wire'[e]) /\ Lone(wire[e], t) =>
              /\ Lone(wire'[e], t)
              /\ Head(wire[e]).type = t => \A m \in Range(wire'[e]) : m.type # t
         /\ Writes(e, f) /\ Lone(wire[Other(e)], t)
              /\ (t \notin Types(f) \/ \A m \in Range(wire[Other(e)]) : m.type # t) =>
              Lone(wire'[Other(e)], t)
<1>1. ASSUME Rest(wire[e], wire'[e]), Lone(wire[e], t)
      PROVE  /\ Lone(wire'[e], t)
             /\ Head(wire[e]).type = t => \A m \in Range(wire'[e]) : m.type # t
  BY <1>1 DEF Rest
<1>2. ASSUME Writes(e, f), Lone(wire[Other(e)], t),
             t \notin Types(f) \/ \A m \in Range(wire[Other(e)]) : m.type # t
      PROVE  Lone(wire'[Other(e)], t)
  <2>1. CASE ~open
    BY <1>2, <2>1 DEF Writes
  <2>2. CASE open
    <3>1. t \notin Types(f) => \A m \in Range(f) : m.type # t
      BY DEF Types
    <3> QED
      BY <1>2, <2>2, <3>1 DEF Writes, More
  <2> QED
    BY <2>1, <2>2
<1> QED
  BY <1>1, <1>2

LEMMA ReplyBeats ==
  ASSUME TypeOK, Talk, Beats, NEW e \in Ends, wire[e] # <<>>, NEW f, Neat(f), Reply(e, f),
         "Ping" \notin Types(f), "Pong" \notin Types(f),
         at'[C] = "idle" => at[C] = "idle", awaiting' = awaiting
  PROVE  Beats'
<1>1. Passed(e, f) /\ open' = open /\ Rest(wire[e], wire'[e]) /\ Writes(e, f)
  BY PassedIs, Answers DEF TypeOK
<1>2. \A m \in Range(f) : m.type # "Ping" /\ m.type # "Pong"
  BY DEF Types
<1>3. \A t \in {"Ping", "Pong"}, d \in Ends : Lone(wire[d], t) => Lone(wire'[d], t)
  <2>1. \A d \in Ends : d = e \/ d = Other(e)
    BY DEF Ends, Other
  <2> QED
    BY <1>1, <2>1, LoneKept
<1>4. \A d \in Ends : \A m \in Range(wire'[d]) :
        m \in Range(wire[d]) \/ (m.type # "Ping" /\ m.type # "Pong")
  <2>1. \A d \in Ends : d = e \/ d = Other(e)
    BY DEF Ends, Other
  <2> QED
    BY <1>1, <1>2, <2>1 DEF Passed
<1> QED
  BY <1>3, <1>4, BeatsKept, EndsAre

(* Steps that find or leave the connector where no heartbeat is kept.      *)
LEMMA BeatsApart ==
  ASSUME Talk
  PROVE  /\ at'[C] # "idle" => Beats'
         /\ \A p, t, q, ts : Turn(C, p, t, q, ts) /\ q # "idle" => Beats'
         /\ \A p, t, q, ts :
              Turn(R, p, t, q, ts) /\ t \notin {"Ping", "Finished"} => Beats'
         /\ Speaks(R, "reserved", "serving", {"Snapshot"}) => Beats'
         /\ Speaks(C, "idle", "reserving", {"Reserve"}) => Beats'
<1>0. Placed
  BY PlacedIs
<1>1. at'[C] # "idle" => Beats'
  BY DEF Beats
<1>2. ASSUME NEW p, NEW t, NEW q, NEW ts, Turn(C, p, t, q, ts), q # "idle" PROVE at'[C] # "idle"
  BY <1>2 DEF Turn
<1>3. ASSUME NEW p, NEW t, NEW q, NEW ts, Turn(R, p, t, q, ts), t \notin {"Ping", "Finished"}
      PROVE  at'[C] # "idle"
  BY <1>0, <1>3, EndsAre DEF Turn, Took, Placed, ToResponder
<1>4. Speaks(R, "reserved", "serving", {"Snapshot"}) => at'[C] # "idle"
  BY <1>0, EndsAre DEF Speaks, Placed, Legal
<1>5. Speaks(C, "idle", "reserving", {"Reserve"}) => at'[C] # "idle"
  BY DEF Speaks
<1> QED
  BY <1>1, <1>2, <1>3, <1>4, <1>5

LEMMA PingBeats ==
  ASSUME TypeOK, Talk, Beats, Ping
  PROVE  Beats'
<1> DEFINE f == <<FrameOf("Ping", pings + 1)>>
<1>0. pings + 1 \in Nat /\ pings + 1 # 0
  BY DEF TypeOK, RoundTyped
<1>1. Neat(f) /\ Types(f) = {"Ping"} /\ Range(f) = {FrameOf("Ping", pings + 1)}
  BY <1>0, Letters, FramesAre
<1>2. Say(C, f) /\ at' = at /\ at[C] = "idle" /\ awaiting = 0 /\ awaiting' = pings + 1
  BY DEF Ping
<1>3. \A m \in Range(f) : m.type = "Ping" /\ m.arg = pings + 1
  BY <1>1, FramesAre
<1> HIDE DEF f
<1>4. Adds(C, f) /\ wire'[C] = wire[C] /\ Writes(C, f) /\ open' = open
  BY <1>1, <1>2, AddsIs, Says, EndsAre DEF TypeOK
<1>5. /\ \A m \in Range(wire[C]) : m.type # "Pong"
      /\ \A m \in Range(wire[R]) : m.type # "Ping"
      /\ Lone(wire[C], "Pong") /\ Lone(wire[R], "Ping")
  BY <1>2 DEF Beats
<1>6. "Pong" \notin Types(wire[C])
  BY <1>5 DEF Types
<1>7. Lone(wire'[R], "Ping")
  BY <1>1, <1>4, <1>5, LoneKept, EndsAre
<1>8. \A m \in Range(wire'[R]) : m.type = "Ping" => m.arg = pings + 1
  BY <1>3, <1>4, <1>5, EndsAre DEF Adds
<1> QED
  BY <1>0, <1>2, <1>4, <1>5, <1>6, <1>7, <1>8 DEF Beats

LEMMA HearPongBeats ==
  ASSUME TypeOK, Talk, Beats, HearPong
  PROVE  Beats'
<1>0. Neat(<<>>) /\ Types(<<>>) = {} /\ Range(<<>>) = {}
  BY Letters
<1>1. /\ at[C] = "idle" /\ wire[C] # <<>> /\ Head(wire[C]).type = "Pong" /\ Reply(C, <<>>)
      /\ awaiting' = 0 /\ at' = at
  BY DEF HearPong, Gets
<1>2. /\ Passed(C, <<>>) /\ Rest(wire[C], wire'[C]) /\ Writes(C, <<>>) /\ open' = open
      /\ Head(wire[C]) \in Range(wire[C])
  BY <1>0, <1>1, PassedIs, Answers, EndsAre DEF TypeOK
<1>3. "Pong" \in Types(wire[C])
  BY <1>1, <1>2 DEF Types
<1>4. \A m \in Range(wire[R]) : m.type # "Ping"
  BY <1>1, <1>3 DEF Beats, Types
<1>5. Lone(wire[C], "Pong") /\ Lone(wire[R], "Ping")
  BY <1>1 DEF Beats
<1>6. Lone(wire'[C], "Pong") /\ \A m \in Range(wire'[C]) : m.type # "Pong"
  BY <1>0, <1>1, <1>2, <1>5, LoneKept, EndsAre
<1>7. Lone(wire'[R], "Ping")
  BY <1>0, <1>2, <1>5, LoneKept, EndsAre
<1>8. \A m \in Range(wire'[R]) : m.type # "Ping"
  BY <1>0, <1>2, <1>4, EndsAre DEF Passed
<1>9. "Pong" \notin Types(wire'[C])
  BY <1>6 DEF Types
<1> QED
  BY <1>6, <1>7, <1>8, <1>9 DEF Beats

LEMMA AnswerPingBeats ==
  ASSUME TypeOK, Talk, Beats, AnswerPing
  PROVE  Beats'
<1> DEFINE f == <<FrameOf("Pong", Arg(R))>>
<1>0. Arg(R) \in Nat
  BY Received, EndsAre DEF AnswerPing, Gets, Argument
<1>1. Neat(f) /\ Types(f) = {"Pong"} /\ Range(f) = {FrameOf("Pong", Arg(R))}
  BY <1>0, Letters, FramesAre
<1>2. /\ wire[R] # <<>> /\ Head(wire[R]).type = "Ping" /\ Reply(R, f) /\ awaiting' = awaiting
      /\ at' = at
  BY DEF AnswerPing, Gets, beats
<1>3. \A m \in Range(f) : m.type = "Pong" /\ m.arg = Head(wire[R]).arg
  BY <1>1, FramesAre DEF Arg
<1> HIDE DEF f
<1>4. /\ Passed(R, f) /\ Rest(wire[R], wire'[R]) /\ Writes(R, f) /\ open' = open
      /\ Head(wire[R]) \in Range(wire[R])
  BY <1>1, <1>2, PassedIs, Answers, EndsAre DEF TypeOK
<1> SUFFICES ASSUME at[C] = "idle" PROVE Beats'
  BY <1>2 DEF Beats
<1>5. "Ping" \in Types(wire[R])
  BY <1>2, <1>4 DEF Types
<1>6. \A m \in Range(wire[C]) : m.type # "Pong"
  BY <1>5 DEF Beats, Types
<1>7. Lone(wire[C], "Pong") /\ Lone(wire[R], "Ping")
  BY DEF Beats
<1>8. Lone(wire'[C], "Pong")
  BY <1>1, <1>4, <1>6, <1>7, LoneKept, EndsAre
<1>9. Lone(wire'[R], "Ping") /\ \A m \in Range(wire'[R]) : m.type # "Ping"
  BY <1>1, <1>2, <1>4, <1>7, LoneKept, EndsAre
<1>10. Head(wire[R]).arg = awaiting /\ awaiting # 0
  BY <1>2, <1>4 DEF Beats
<1>11. \A m \in Range(wire'[C]) : m.type = "Pong" => m.arg = awaiting
  BY <1>3, <1>4, <1>6, <1>10, EndsAre DEF Passed
<1>12. "Ping" \notin Types(wire'[R])
  BY <1>9 DEF Types
<1> QED
  BY <1>2, <1>8, <1>9, <1>10, <1>11, <1>12 DEF Beats

LEMMA CompletesBeats ==
  ASSUME TypeOK, Talk, Talk', Beats, ConnectorCompletes
  PROVE  Beats'
<1> DEFINE f == <<Frame("Finished")>>
<1>0. Placed /\ Placed'
  BY PlacedIs
<1>1. Neat(f) /\ Types(f) = {"Finished"}
  BY Written1 DEF Plain
<1>2. Turn(C, "applying", "Applied", "idle", {"Finished"})
  BY TurnsOf
<1>3. wire[C] # <<>> /\ Head(wire[C]).type = "Applied" /\ Reply(C, f)
  BY DEF ConnectorCompletes, Step, Gets
<1>4. /\ Passed(C, f) /\ Rest(wire[C], wire'[C]) /\ Writes(C, f) /\ open' = open
      /\ wire' \in [Ends -> Seq(Frames)]
  BY <1>1, <1>3, PassedIs, Answers, EndsAre DEF TypeOK
<1>5. \A m \in Range(f) : m.type = "Finished"
  BY <1>1 DEF Types
<1> HIDE DEF f
<1>6. Range(wire'[C]) = {}
  BY <1>3, <1>4 DEF Passed, MayFollow
<1>7. \A m \in Range(wire'[R]) : m.type # "Ping"
  BY <1>0, <1>2, <1>4, <1>5, EndsAre DEF Passed, Turn, Placed, ToResponder
<1>8. ASSUME NEW q, NEW t, \A m \in Range(q) : m.type # t PROVE Lone(q, t)
  BY <1>8 DEF Lone, Range
<1>9. Lone(wire'[C], "Pong") /\ Lone(wire'[R], "Ping")
  BY <1>6, <1>7, <1>8
<1>10. "Pong" \notin Types(wire'[C])
  BY <1>6 DEF Types
<1> QED
  BY <1>6, <1>7, <1>9, <1>10 DEF Beats

LEMMA EndsBeats ==
  ASSUME TypeOK, Talk, Beats, EndStep
  PROVE  Beats'
<1>1. CASE LoseWatcher
  <2>1. /\ at'[C] = at[C] /\ Range(wire'[R]) = {}
        /\ \A m \in Range(wire'[C]) : m \in Range(wire[C]) \/ m.type = "Error"
    BY <1>1, LoseWatcherIs
  <2>2. Lone(wire'[R], "Ping")
    BY <2>1 DEF Lone, Range
  <2>3. awaiting' = awaiting
    BY <1>1, EndsAre DEF LoseWatcher, Leaves
  <2>4. Lone(wire[C], "Pong") => Lone(wire'[C], "Pong")
    <3> DEFINE f == <<Frame("Error")>>
    <3>1. /\ wire[C] \in Seq(Frames) /\ Frame("Error") \in Frames /\ Neat(f)
          /\ Types(f) = {"Error"}
      BY FramesAre, Written1, EndsAre DEF TypeOK, WireTyped, Plain
    <3>2. wire'[C] = wire[C] \/ wire'[C] = wire[C] \o f
      BY <1>1, <3>1, AppendIsConcat, EndsAre DEF LoseWatcher
    <3> HIDE DEF f
    <3>3. More(wire[C], wire[C] \o f, f) /\ \A m \in Range(f) : m.type # "Pong"
      BY <3>1, Written DEF Types
    <3> QED
      BY <3>2, <3>3 DEF More
  <2> QED
    BY <2>1, <2>2, <2>3, <2>4, BeatsKept
<1>2. CASE Break
  <2>1. /\ Cut(wire[C], wire'[C]) /\ Cut(wire[R], wire'[R]) /\ at' = at
        /\ \A e \in Ends : \A t : Lone(wire[e], t) => Lone(wire'[e], t)
    BY <1>2, BreakIs
  <2>2. Lone(wire[C], "Pong") => Lone(wire'[C], "Pong")
    BY <1>2, BreakIs, EndsAre
  <2>3. Lone(wire[R], "Ping") => Lone(wire'[R], "Ping")
    BY <1>2, BreakIs, EndsAre
  <2>4. awaiting' = awaiting
    BY <1>2 DEF Break, beats
  <2> QED
    BY <2>1, <2>2, <2>3, <2>4, BeatsKept DEF Cut
<1>3. CASE HearError \/ End(C)
  <2>1. at'[C] = "off"
    BY <1>3, LeavesAt, EndsAre DEF HearError, End
  <2> QED
    BY <2>1, BeatsApart
<1>4. CASE End(R)
  <2>1. at'[C] = at[C] /\ awaiting' = awaiting /\ wire' = wire
    BY <1>4, LeavesAt, EndsAre DEF End, Leaves
  <2> QED
    BY <2>1, BeatsKept
<1> QED
  BY <1>1, <1>2, <1>3, <1>4, EndsAre DEF EndStep

LEMMA NextBeats ==
  ASSUME Agreeing, Beats, [Next]_vars
  PROVE  Beats'
<1>0. TypeOK /\ Talk /\ Talk'
  BY NextTalk DEF Agreeing
<1>1. CASE SignalStep \/ UNCHANGED vars \/ \E p \in Paths : Write(p)
  <2>1. UNCHANGED <<at, wire, awaiting>>
    BY <1>1 DEF SignalStep, Schedule, Notice, Deliver, Write, vars, beats
  <2> QED
    BY <2>1, BeatsKept
<1>2. CASE BeginStep
  <2>1. CASE Connect
    BY <1>0, <2>1, Moves, BeatsApart, EndsAre DEF Connect, TypeOK
  <2>2. CASE Accept
    BY <1>0, <2>2, TurnsWith, BeatsApart
  <2>3. CASE ConnectorReady
    BY <1>0, <2>3, TurnsWith, BeatsApart
  <2>4. CASE ResponderReady
    BY <1>0, <2>4, TurnsOf, BeatsApart
  <2> QED
    BY <1>2, <2>1, <2>2, <2>3, <2>4 DEF BeginStep
<1>3. CASE IdleStep
  <2>1. CASE Advertise
    <3> DEFINE f == <<Frame("Changed")>>
    <3>1. Neat(f) /\ Types(f) = {"Changed"}
      BY <1>0, Written1 DEF Plain
    <3>2. Say(R, f) /\ at' = at /\ awaiting' = awaiting
      BY <2>1 DEF Advertise, beats
    <3> HIDE DEF f
    <3>3. Adds(R, f) /\ Writes(R, f) /\ open' = open /\ wire'[R] = wire[R]
      BY <1>0, <3>1, <3>2, AddsIs, Says, EndsAre DEF TypeOK
    <3>4. Lone(wire[C], "Pong") => Lone(wire'[C], "Pong")
      BY <1>0, <3>1, <3>3, LoneKept, EndsAre
    <3>5. \A m \in Range(f) : m.type # "Pong"
      BY <3>1 DEF Types
    <3> QED
      BY <3>2, <3>3, <3>4, <3>5, BeatsKept, EndsAre DEF Adds
  <2>2. CASE RoundDue \/ Audit
    BY <1>0, <2>2, SpeaksAre, BeatsApart
  <2>3. CASE HearChanged
    <3>1. Neat(<<>>) /\ Types(<<>>) = {}
      BY Letters
    <3>2. Reply(C, <<>>) /\ wire[C] # <<>> /\ at' = at /\ awaiting' = awaiting
      BY <2>3 DEF HearChanged, Gets, beats
    <3> QED
      BY <1>0, <3>1, <3>2, ReplyBeats, EndsAre
  <2> QED
    BY <1>0, <1>3, <2>1, <2>2, <2>3, PingBeats, HearPongBeats, AnswerPingBeats DEF IdleStep
<1>4. CASE PlanStep
  <2>1. CASE Drain
    BY <1>0, <2>1, TurnsWith, BeatsApart
  <2>2. CASE ServeRound \/ ConnectorScans \/ ConnectorPlans \/ ServeNeed \/ ServePlan
    <3>1. \/ Turn(R, "idle", "Reserve", "reserved", {"Reserved"})
          \/ Turn(C, "reserving", "Reserved", "scanned", {})
          \/ Turn(C, "scanned", "Snapshot", "objects", {"Need"})
          \/ Turn(R, "serving", "Need", "planning", {"Done"})
          \/ Turn(R, "planning", "Plan", "apply", {"Need"})
      BY <1>0, <2>2, TurnsOf
    <3> QED
      BY <1>0, <3>1, BeatsApart
  <2>3. CASE ResponderScans
    BY <1>0, <2>3, SpeaksAre, BeatsApart
  <2>4. CASE ConnectorFetches
    <3>1. \/ Turn(C, "objects", "Done", "proposed", {"Plan"})
          \/ Turn(C, "proposed", "Need", "applying", {"Done"})
      BY <1>0, <2>4, TurnsWith
    <3> QED
      BY <1>0, <3>1, BeatsApart
  <2> QED
    BY <1>4, <2>1, <2>2, <2>3, <2>4 DEF PlanStep
<1>5. CASE ResponderStep
  <2>1. CASE ResponderCompletes
    <3>1. Neat(<<>>) /\ Types(<<>>) = {}
      BY Letters
    <3>2. Reply(R, <<>>) /\ wire[R] # <<>> /\ Go(R, "idle") /\ awaiting' = awaiting
      BY <2>1 DEF ResponderCompletes, Step, Gets, beats
    <3>3. at'[C] = at[C]
      BY <1>0, <3>2, Moves, EndsAre DEF TypeOK
    <3> QED
      BY <1>0, <3>1, <3>2, <3>3, ReplyBeats, EndsAre
  <2>2. CASE ResponderApplies \/ ResponderStops \/ ResponderRetries
    <3>1. \/ Turn(R, "apply", "Done", "applied", {"Applied"})
          \/ Turn(R, "apply", "Done", "idle", {"Invalidated"})
          \/ Turn(R, "applied", "Invalidated", "idle", {})
      BY <1>0, <2>2, TurnsOf, TurnsWith
    <3> QED
      BY <1>0, <3>1, BeatsApart
  <2> QED
    BY <1>5, <2>1, <2>2 DEF ResponderStep
<1>6. CASE ConnectorStep
  <2>1. CASE ConnectorRetries \/ ConnectorStops
    <3>1. \/ Turn(C, "applying", "Invalidated", "reserving", {"Reserve"})
          \/ Turn(C, "applying", "Applied", "reserving", {"Invalidated", "Reserve"})
      BY <1>0, <2>1, TurnsOf, TurnsWith
    <3> QED
      BY <1>0, <3>1, BeatsApart
  <2> QED
    BY <1>0, <1>6, <2>1, CompletesBeats DEF ConnectorStep
<1>7. CASE EndStep
  BY <1>0, <1>7, EndsBeats
<1> QED
  BY <1>1, <1>2, <1>3, <1>4, <1>5, <1>6, <1>7, StepsAre

(* What an end may meet, wherever it is.                                   *)
Conversing == Agreeing /\ Beats

LEMMA InitConversing == Init => Conversing
<1>1. Init => Beats
  BY EndsAre DEF Init, Beats
<1> QED
  BY <1>1, InitAgreeing DEF Conversing

LEMMA NextConversing == Conversing /\ [Next]_vars => Conversing'
BY NextAgreeing, NextBeats DEF Conversing

LEMMA ConnectorUnderstands ==
  ASSUME Conversing, at[C] # "off", wire[C] # <<>>
  PROVE  Understands(C)
<1> DEFINE h == Head(wire[C])
<1>0. TypeOK /\ Talk /\ Cycling /\ Beats /\ Placed
  BY PlacedIs DEF Conversing, Agreeing
<1>1. wire[C] \in Seq(Frames) /\ h \in Frames /\ Rest(wire[C], Tail(wire[C]))
  BY <1>0, TailOf, EndsAre DEF TypeOK, WireTyped
<1>2. /\ h \in Range(wire[C]) /\ Range(wire[C]) = {h} \cup Range(Tail(wire[C]))
      /\ \A m \in Range(Tail(wire[C])) : MayFollow(m.type, h.type)
  BY <1>0, <1>1 DEF Rest, Talk
<1> HIDE DEF h
<1>3. \A t \in Types(wire[C]) : t = h.type \/ MayFollow(t, h.type)
  BY <1>2 DEF Types
<1>4. ToConnector(h.type, at[C], at[R])
  BY <1>0, <1>2 DEF Placed
<1>5. Needs(at[C], at[R], Types(wire[C]), Types(wire[R])) /\ h.type \in Types(wire[C])
  BY <1>0, <1>2 DEF Talk, TalkOf, Placed
<1>6. at[C] = "reserving" => h.type # "Snapshot"
  BY <1>3, <1>5 DEF Needs, MayFollow
<1>7. at[C] = "applying" => h.type # "Changed"
  BY <1>3, <1>5 DEF Needs, MayFollow
<1>8. h.type \in Expected(C)
  BY <1>0, <1>4, <1>6, <1>7, EndsAre
  DEF ToConnector, Expected, ConnectorExpects, Drained, TypeOK, AtTyped, ConnectorPlaces
<1>9. at[C] = "idle" /\ Gets(C, "Pong") => Arg(C) = awaiting
  BY <1>0, <1>2 DEF Gets, Beats, Arg, h
<1>10. Gets(C, "Invalidated") => Accepts(C, Arg(C))
  BY <1>0, <1>2, EndsAre DEF Gets, Accepts, Arg, Cycling, InvalidatedPlanned, h
<1> QED
  BY <1>8, <1>9, <1>10 DEF Understands, h

LEMMA ResponderUnderstands ==
  ASSUME Conversing, at[R] \notin {"off", "reserved"}, wire[R] # <<>>
  PROVE  Understands(R)
<1> DEFINE h == Head(wire[R])
<1>0. TypeOK /\ Talk /\ Cycling /\ Beats /\ Placed
  BY PlacedIs DEF Conversing, Agreeing
<1>1. wire[R] \in Seq(Frames) /\ h \in Frames /\ Rest(wire[R], Tail(wire[R]))
  BY <1>0, TailOf, EndsAre DEF TypeOK, WireTyped
<1>2. /\ h \in Range(wire[R]) /\ Range(wire[R]) = {h} \cup Range(Tail(wire[R]))
      /\ \A m \in Range(Tail(wire[R])) : MayFollow(m.type, h.type)
  BY <1>0, <1>1 DEF Rest, Talk
<1> HIDE DEF h
<1>3. \A t \in Types(wire[R]) : t = h.type \/ MayFollow(t, h.type)
  BY <1>2 DEF Types
<1>4. ToResponder(h.type, at[C], at[R])
  BY <1>0, <1>2 DEF Placed
<1>5. Needs(at[C], at[R], Types(wire[C]), Types(wire[R])) /\ h.type \in Types(wire[R])
  BY <1>0, <1>2 DEF Talk, TalkOf, Placed
<1>6. /\ at[R] = "ready" => h.type # "Reserve"
      /\ at[R] = "applied" => h.type # "Ping" /\ h.type # "Reserve"
  BY <1>3, <1>5 DEF Needs, MayFollow
<1>8. h.type \in Expected(R)
  BY <1>0, <1>4, <1>6, EndsAre
  DEF ToResponder, Expected, ResponderExpects, TypeOK, AtTyped, ResponderPlaces
<1>9. ~Gets(R, "Pong")
  BY <1>4 DEF Gets, ToResponder, h
<1>10. Gets(R, "Invalidated") => Accepts(R, Arg(R))
  BY <1>0, <1>2, EndsAre DEF Gets, Accepts, Arg, Cycling, InvalidatedPlanned, h
<1> QED
  BY <1>8, <1>9, <1>10 DEF Understands, h

(* Whatever has come to an end is a frame it takes where it is: no         *)
(* advertisement, heartbeat, invalidation or lost connection makes either  *)
(* end call the other's frame an error of the protocol.                    *)
THEOREM NoErrors == Spec => []NoProtocolError
<1>1. Conversing => NoProtocolError
  BY ConnectorUnderstands, ResponderUnderstands, EndsAre DEF NoProtocolError
<1> QED
  BY <1>1, InitConversing, NextConversing, PTL DEF Spec

----------------------------------------------------------------------------
(* What the ends have of each other's files.                               *)

(* The scan an end plans and applies with is the other's.                  *)
Theirs ==
  /\ \A m \in Range(wire[C]) : m.type = "Snapshot" /\ at[R] = "serving" => m.arg = scan[R]
  /\ at[C] \in {"objects", "proposed", "applying"}
       /\ at[R] \in {"serving", "planning", "apply", "applied"} => theirs[C] = scan[R]
  /\ \A m \in Range(wire[R]) : m.type = "Plan" /\ at[C] = "proposed" => m.arg = scan[C]
  /\ at[C] \in {"proposed", "applying"} /\ at[R] \in {"apply", "applied"} => theirs[R] = scan[C]

(* A file that is no longer what was scanned has been noticed.             *)
Holding(e) ==
  IF e = C THEN {"scanned", "objects", "proposed", "applying"}
  ELSE {"serving", "planning", "apply", "applied"}

Scanned ==
  \A e \in Ends : at[e] \in Holding(e) =>
    \A p \in Paths : OwnerOf[p] = e => disk[e][p] = scan[e][p] \/ event[e] \/ ahead[e]

(* The responder has what the connector scanned, once it has applied.      *)
Installed ==
  at[C] = "applying" /\ at[R] = "applied" =>
    \A p \in Planned(R) : OwnerOf[p] = C => disk[R][p] = scan[C][p]

(* A generation that is ahead has left a wake-up or a deadline.            *)
Wakes == ahead[R] => token \/ due[R]

(* What will start a round for a change at each end.                       *)
ConnectorStirs == event[C] \/ ahead[C] \/ due[C]
ResponderStirs ==
  event[R] \/ ahead[R] \/ "Changed" \in Types(wire[C]) \/ remoteAhead \/ due[C]
Stirs(e) == IF e = C THEN ConnectorStirs ELSE ResponderStirs

(* Between rounds the ends have each path in common, or a round will come  *)
(* for it, or both report it; while the responder has not heard that the   *)
(* round is finished, its own paths are compared with its scan.            *)
Covered ==
  open /\ at[C] = "idle" =>
    /\ at[R] = "applied" =>
         /\ \A p \in Planned(R) :
              /\ OwnerOf[p] = C => disk[R][p] = disk[C][p] \/ ConnectorStirs
              /\ OwnerOf[p] = R => disk[C][p] = scan[R][p]
         /\ cycle[R].deferred \subseteq unsettled[C]
    /\ at[R] = "idle" =>
         \A p \in Paths : disk[C][p] = disk[R][p] \/ Stirs(OwnerOf[p])
                            \/ \A e \in Ends : p \in unsettled[e]

Sharing == Theirs /\ Scanned /\ Installed /\ Wakes /\ Covered

LEMMA ForgetIs ==
  ASSUME TypeOK, NEW e \in Ends, Forget(e)
  PROVE  scan'[Other(e)] = scan[Other(e)] /\ theirs'[Other(e)] = theirs[Other(e)]
BY EndsAre DEF Forget, Set, TypeOK, DataTyped

LEMMA InstallIs ==
  ASSUME TypeOK, NEW e \in Ends, NEW ps, Install(e, ps), UNCHANGED edits
  PROVE  /\ disk'[Other(e)] = disk[Other(e)] /\ event'[Other(e)] = event[Other(e)]
         /\ event[e] => event'[e]
         /\ \A p \in Paths : OwnerOf[p] = e => disk'[e][p] = disk[e][p]
         /\ \A p \in Paths : OwnerOf[p] # e /\ p \in ps => disk'[e][p] = theirs[e][p]
<1>1. disk'[Other(e)] = disk[Other(e)] /\ event'[Other(e)] = event[Other(e)]
  BY EndsAre DEF Install, Set, TypeOK, DataTyped, SignalsTyped
<1>2. /\ \A p \in Paths : OwnerOf[p] = e => disk'[e][p] = disk[e][p]
      /\ \A p \in Paths : OwnerOf[p] # e /\ p \in ps => disk'[e][p] = theirs[e][p]
      /\ event[e] => event'[e]
  BY InstallTyped
<1> QED
  BY <1>1, <1>2

(* An end that is gone has nothing to say.                                 *)
LEMMA LeavesIs ==
  ASSUME TypeOK, NEW e \in Ends, Leaves(e)
  PROVE  LET o == Other(e)
         IN  /\ at'[e] = "off" /\ at'[o] = at[o] /\ scan'[o] = scan[o] /\ theirs'[o] = theirs[o]
             /\ event'[o] = event[o] /\ ahead'[o] = ahead[o] /\ due'[o] = due[o]
             /\ ~ahead'[e] /\ (e = C => token' = token)
<1>1. at'[e] = "off" /\ at'[Other(e)] = at[Other(e)]
  BY LeavesAt
<1>2. scan'[Other(e)] = scan[Other(e)] /\ theirs'[Other(e)] = theirs[Other(e)]
  BY ForgetIs DEF Leaves
<1>3. /\ event'[Other(e)] = event[Other(e)] /\ ahead'[Other(e)] = ahead[Other(e)]
      /\ due'[Other(e)] = due[Other(e)] /\ ~ahead'[e]
  BY EndsAre DEF Leaves, Set, TypeOK, SignalsTyped
<1>4. e = C => token' = token
  BY EndsAre DEF Leaves, TypeOK, SignalsTyped
<1> QED
  BY <1>1, <1>2, <1>3, <1>4

----------------------------------------------------------------------------
(* The scans that are exchanged.                                           *)

(* Where no scan is compared.                                              *)
LEMMA TheirsApart ==
  ASSUME Talk', \/ at'[R] \in {"off", "ready", "idle", "reserved"}
                \/ at'[C] \in {"off", "opening", "idle"}
                \/ at'[C] = "reserving" /\ at'[R] # "serving"
  PROVE  Theirs'
<1>0. Placed'
  BY PlacedIs
<1> QED
  BY <1>0 DEF Placed, Theirs, ToConnector, ToResponder

LEMMA TheirsKept ==
  ASSUME Theirs, UNCHANGED <<at, scan, theirs>>,
         \A m \in Range(wire'[C]) : m \in Range(wire[C]) \/ m.type # "Snapshot",
         \A m \in Range(wire'[R]) : m \in Range(wire[R]) \/ m.type # "Plan"
  PROVE  Theirs'
BY DEF Theirs

LEMMA ExchangeTheirs ==
  ASSUME TypeOK, Talk, Talk', Theirs, \/ ResponderScans \/ ConnectorScans \/ ConnectorPlans
                 \/ ConnectorFetches \/ ServeNeed \/ ServePlan \/ ResponderApplies \/ Drain
  PROVE  Theirs'
<1>0. Placed /\ Placed'
  BY PlacedIs
<1>1. CASE ResponderScans
  <2>0. scan'[R] \in Entries /\ scan'[C] = scan[C] /\ theirs' = theirs
    BY <1>1, RefreshTyped, EndsAre DEF ResponderScans, Refresh, Set, TypeOK, DataTyped
  <2> DEFINE f == <<FrameOf("Snapshot", scan'[R])>>
  <2>1. Neat(f) /\ Types(f) = {"Snapshot"} /\ Range(f) = {FrameOf("Snapshot", scan'[R])}
    BY <2>0, Written1, Letters, FramesAre
  <2>2. Say(R, f)
    BY <1>1 DEF ResponderScans
  <2>3. \A m \in Range(f) : m.type = "Snapshot" /\ m.arg = scan'[R]
    BY <2>1, FramesAre
  <2> HIDE DEF f
  <2>4. Adds(R, f) /\ Speaks(R, "reserved", "serving", {"Snapshot"})
    BY <1>1, <2>1, <2>2, AddsIs, SpeaksAre, EndsAre
  <2> QED
    BY <1>0, <2>0, <2>3, <2>4, EndsAre
    DEF Adds, Speaks, Placed, ToConnector, ToResponder, Legal, Theirs
<1>2. CASE ConnectorScans
  <2>1. Turn(C, "reserving", "Reserved", "scanned", {}) /\ Passed(C, <<>>)
    BY <1>2, TurnsOf, PassedIs, Letters, EndsAre DEF ConnectorScans, Gets
  <2>2. Range(<<>>) = {} /\ scan'[R] = scan[R]
    BY <1>2, Letters, EndsAre DEF ConnectorScans, Refresh, Set, TypeOK, DataTyped
  <2> QED
    BY <1>0, <2>1, <2>2, EndsAre DEF Passed, Turn, Placed, ToConnector, ToResponder, Legal, Theirs
<1>3. CASE ConnectorPlans
  <2> DEFINE f == <<Frame("Need")>>
  <2>1. Neat(f) /\ Types(f) = {"Need"}
    BY Written1 DEF Plain
  <2>2. /\ Turn(C, "scanned", "Snapshot", "objects", {"Need"}) /\ Passed(C, f)
        /\ Head(wire[C]).type = "Snapshot"
    BY <1>3, <2>1, TurnsOf, PassedIs, EndsAre DEF ConnectorPlans, Step, Gets
  <2>3. scan' = scan /\ theirs'[C] = Head(wire[C]).arg
    BY <1>3, <2>2, EndsAre DEF ConnectorPlans, Set, TypeOK, DataTyped, Passed
  <2> HIDE DEF f
  <2> QED
    BY <1>0, <2>2, <2>3, EndsAre DEF Passed, Turn, Placed, ToConnector, ToResponder, Legal, Theirs
<1>4. CASE ConnectorFetches
  <2>0. scan' = scan /\ theirs' = theirs
    BY <1>4 DEF ConnectorFetches, round
  <2>1. CASE Step(C, "objects", "Done", "proposed", <<FrameOf("Plan", scan[C])>>)
    <3> DEFINE f == <<FrameOf("Plan", scan[C])>>
    <3>1. Neat(f) /\ Types(f) = {"Plan"} /\ Range(f) = {FrameOf("Plan", scan[C])}
      BY Written1, Letters, FramesAre, EndsAre DEF TypeOK, DataTyped
    <3>2. \A m \in Range(f) : m.arg = scan[C]
      BY <3>1, FramesAre
    <3>3. Turn(C, "objects", "Done", "proposed", {"Plan"}) /\ Passed(C, f)
      BY <2>1, <3>1, TurnIs, PassedIs, EndsAre DEF Step, Gets
    <3> HIDE DEF f
    <3> QED
      BY <1>0, <2>0, <3>2, <3>3, EndsAre
      DEF Passed, Turn, Took, Placed, ToConnector, ToResponder, Legal, Theirs
  <2>2. CASE Step(C, "proposed", "Need", "applying", <<Frame("Done")>>)
    <3> DEFINE f == <<Frame("Done")>>
    <3>1. Neat(f) /\ Types(f) = {"Done"}
      BY Written1 DEF Plain
    <3>3. Turn(C, "proposed", "Need", "applying", {"Done"}) /\ Passed(C, f)
      BY <2>2, <3>1, TurnIs, PassedIs, EndsAre DEF Step, Gets
    <3> HIDE DEF f
    <3> QED
      BY <1>0, <2>0, <3>3, EndsAre
      DEF Passed, Turn, Took, Placed, ToConnector, ToResponder, Legal, Theirs
  <2> QED
    BY <1>4, <2>1, <2>2 DEF ConnectorFetches
<1>5. CASE ServeNeed
  <2> DEFINE f == <<Frame("Done")>>
  <2>1. Neat(f) /\ Types(f) = {"Done"}
    BY Written1 DEF Plain
  <2>2. /\ Turn(R, "serving", "Need", "planning", {"Done"}) /\ Passed(R, f)
        /\ scan' = scan /\ theirs' = theirs
    BY <1>5, <2>1, TurnsOf, PassedIs, EndsAre DEF ServeNeed, Step, Gets, round
  <2> HIDE DEF f
  <2> QED
    BY <1>0, <2>2, EndsAre
    DEF Passed, Turn, Took, Placed, ToConnector, ToResponder, Legal, Theirs
<1>6. CASE ServePlan
  <2> DEFINE f == <<Frame("Need")>>
  <2>1. Neat(f) /\ Types(f) = {"Need"}
    BY Written1 DEF Plain
  <2>2. /\ Turn(R, "planning", "Plan", "apply", {"Need"}) /\ Passed(R, f)
        /\ Head(wire[R]).type = "Plan" /\ scan' = scan
    BY <1>6, <2>1, TurnsOf, PassedIs, EndsAre DEF ServePlan, Step, Gets
  <2>3. theirs'[R] = Head(wire[R]).arg /\ theirs'[C] = theirs[C]
    BY <1>6, <2>2, EndsAre DEF ServePlan, Set, TypeOK, DataTyped, Passed
  <2> HIDE DEF f
  <2> QED
    BY <1>0, <2>2, <2>3, EndsAre
    DEF Passed, Turn, Took, Placed, ToConnector, ToResponder, Legal, Theirs
<1>7. CASE ResponderApplies
  <2>2. Turn(R, "apply", "Done", "applied", {"Applied"}) /\ scan' = scan /\ theirs' = theirs
    BY <1>7, TurnsOf DEF ResponderApplies, round
  <2> QED
    BY <1>0, <2>2, EndsAre
    DEF Turn, Took, Placed, ToConnector, ToResponder, Legal, Theirs
<1>8. CASE Drain
  <2>1. /\ Passed(C, <<>>) /\ UNCHANGED <<at, scan, theirs>> /\ Range(<<>>) = {}
    BY <1>8, PassedIs, Letters, EndsAre DEF Drain, Gets, round
  <2> QED
    BY <2>1, TheirsKept, EndsAre DEF Passed
<1> QED
  BY <1>1, <1>2, <1>3, <1>4, <1>5, <1>6, <1>7, <1>8

LEMMA NextTheirs ==
  ASSUME TypeOK, Talk, Theirs, [Next]_vars
  PROVE  Theirs'
<1>0. Talk' /\ Placed /\ Placed'
  BY NextTalk, PlacedIs
<1>1. CASE SignalStep \/ UNCHANGED vars \/ \E p \in Paths : Write(p)
  <2>1. UNCHANGED <<at, wire, scan, theirs>>
    BY <1>1 DEF SignalStep, Schedule, Notice, Deliver, Write, vars, round
  <2> QED
    BY <2>1, TheirsKept
<1>2. CASE BeginStep
  <2>1. Connect => at'[C] = "opening"
    BY Moves, EndsAre DEF Connect, TypeOK
  <2>2. Accept \/ ResponderReady => at'[R] \in {"ready", "idle"}
    BY TurnsOf, TurnsWith DEF Turn
  <2>3. ConnectorReady => at'[C] = "reserving" /\ at'[R] # "serving"
    BY <1>0, TurnsWith, EndsAre DEF Turn, Took, Placed, ToConnector
  <2> QED
    BY <1>0, <1>2, <2>1, <2>2, <2>3, TheirsApart DEF BeginStep
<1>3. CASE IdleStep
  <2>1. Advertise \/ AnswerPing \/ Ping \/ HearPong \/ HearChanged =>
          at'[R] = "idle" \/ at'[C] = "idle"
    BY DEF Advertise, AnswerPing, Ping, HearPong, HearChanged, round
  <2>2. RoundDue \/ Audit => at'[C] = "reserving" /\ at'[R] # "serving"
    BY <1>0, SpeaksAre, EndsAre DEF Speaks, Placed, Legal
  <2> QED
    BY <1>0, <1>3, <2>1, <2>2, TheirsApart DEF IdleStep
<1>4. CASE PlanStep
  <2>1. ServeRound => at'[R] = "reserved"
    BY TurnsOf DEF Turn
  <2> QED
    BY <1>0, <1>4, <2>1, TheirsApart, ExchangeTheirs DEF PlanStep
<1>5. CASE ResponderStep
  <2>1. ResponderStops \/ ResponderCompletes \/ ResponderRetries => at'[R] = "idle"
    BY TurnsOf, TurnsWith DEF Turn
  <2> QED
    BY <1>0, <1>5, <2>1, TheirsApart, ExchangeTheirs DEF ResponderStep
<1>6. CASE ConnectorStep
  <2>1. ConnectorCompletes => at'[C] = "idle"
    BY TurnsOf DEF Turn
  <2>2. ConnectorRetries => at'[C] = "reserving" /\ at'[R] # "serving"
    BY <1>0, TurnsOf, EndsAre DEF Turn, Took, Placed, ToConnector
  <2>3. ConnectorStops => at'[C] = "reserving" /\ at'[R] # "serving"
    BY <1>0, TurnsWith, EndsAre DEF Turn, Took, Placed, ToConnector
  <2> QED
    BY <1>0, <1>6, <2>1, <2>2, <2>3, TheirsApart DEF ConnectorStep
<1>7. CASE EndStep
  <2>1. LoseWatcher \/ End(R) => at'[R] = "off"
    BY LeavesAt, EndsAre DEF LoseWatcher, End
  <2>2. HearError \/ End(C) => at'[C] = "off"
    BY LeavesAt, EndsAre DEF HearError, End
  <2>3. Break => Theirs'
    <3>1. Break => Cut(wire[C], wire'[C]) /\ Cut(wire[R], wire'[R]) /\ UNCHANGED <<at, scan, theirs>>
      BY BreakIs DEF Break, round
    <3> QED
      BY <3>1, TheirsKept DEF Cut
  <2> QED
    BY <1>0, <1>7, <2>1, <2>2, <2>3, TheirsApart, EndsAre DEF EndStep
<1> QED
  BY <1>1, <1>2, <1>3, <1>4, <1>5, <1>6, <1>7, StepsAre

----------------------------------------------------------------------------
(* The steps of one end leave the other's state alone.                     *)

Apart(e) ==
  /\ at'[e] = at[e] /\ disk'[e] = disk[e] /\ scan'[e] = scan[e]
  /\ event'[e] = event[e] /\ ahead'[e] = ahead[e]
  /\ cycle'[e] = cycle[e] /\ unsettled'[e] = unsettled[e]

OfConnector ==
  \/ Connect \/ ConnectorReady \/ Schedule \/ RoundDue \/ Audit \/ Ping \/ HearPong \/ HearChanged
  \/ Drain \/ ConnectorScans \/ ConnectorPlans \/ ConnectorFetches \/ ConnectorStep
  \/ HearError \/ End(C)

OfResponder ==
  \/ Accept \/ ResponderReady \/ Notice \/ Advertise \/ AnswerPing \/ ServeRound \/ ResponderScans
  \/ ServeNeed \/ ServePlan \/ ResponderStep \/ LoseWatcher \/ End(R)

OfBoth == UNCHANGED vars \/ Break \/ (\E e \in Ends : Deliver(e)) \/ \E p \in Paths : Write(p)

LEMMA OneOf == [Next]_vars => OfConnector \/ OfResponder \/ OfBoth
<1>1. Next => OfConnector \/ OfResponder \/ OfBoth
  <2>1. SignalStep => OfConnector \/ OfResponder \/ OfBoth
    BY DEF SignalStep, OfConnector, OfResponder, OfBoth
  <2>2. BeginStep \/ IdleStep \/ PlanStep => OfConnector \/ OfResponder
    BY DEF BeginStep, IdleStep, PlanStep, OfConnector, OfResponder
  <2>3. ResponderStep \/ ConnectorStep => OfConnector \/ OfResponder
    BY DEF OfConnector, OfResponder
  <2>4. EndStep => OfConnector \/ OfResponder \/ OfBoth
    BY EndsAre DEF EndStep, OfConnector, OfResponder, OfBoth
  <2>5. (\E p \in Paths : Write(p)) => OfBoth
    BY DEF OfBoth
  <2> QED
    BY <2>1, <2>2, <2>3, <2>4, <2>5, StepsAre
<1>2. UNCHANGED vars => OfBoth
  BY DEF OfBoth
<1> QED
  BY <1>1, <1>2

LEMMA SetElsewhere ==
  ASSUME TypeOK, NEW e \in Ends, NEW x
  PROVE  /\ ahead' = Set(ahead, e, x) => ahead'[Other(e)] = ahead[Other(e)]
         /\ event' = Set(event, e, x) => event'[Other(e)] = event[Other(e)]
         /\ scan' = Set(scan, e, x) => scan'[Other(e)] = scan[Other(e)]
         /\ cycle' = Set(cycle, e, x) => cycle'[Other(e)] = cycle[Other(e)]
BY EndsAre DEF Set, TypeOK, SignalsTyped, DataTyped, RoundTyped

LEMMA GoesApart ==
  ASSUME TypeOK, NEW e \in Ends, NEW p, Go(e, p)
  PROVE  at'[Other(e)] = at[Other(e)]
BY Moves, EndsAre DEF TypeOK

(* What an end remembers, invalidates or settles is its own.               *)
LEMMA OwnRound ==
  ASSUME TypeOK, NEW e \in Ends
  PROVE  /\ \A ps : Remember(e, ps) => unsettled'[Other(e)] = unsettled[Other(e)]
         /\ Settles(e) => unsettled'[Other(e)] = unsettled[Other(e)]
         /\ \A p : Invalidated(e, p) =>
              cycle'[Other(e)] = cycle[Other(e)] /\ unsettled'[Other(e)] = unsettled[Other(e)]
BY EndsAre, CycleMoves DEF Remember, Settles, Set, TypeOK, RoundTyped

LEMMA ConnectorAlone ==
  ASSUME TypeOK, OfConnector
  PROVE  Apart(R)
<1>0. Other(C) = R /\ C \in Ends
  BY EndsAre
<1>1. CASE Connect
  BY <1>0, <1>1, GoesApart DEF Connect, Apart, users, signals
<1>2. CASE ConnectorReady
  BY <1>0, <1>2, GoesApart, SetElsewhere, OwnRound DEF ConnectorReady, Apart, users
<1>3. CASE Schedule
  BY <1>0, <1>3, SetElsewhere DEF Schedule, Apart, users, round
<1>4. CASE RoundDue \/ Audit
  BY <1>0, <1>4, GoesApart DEF RoundDue, Audit, Begin, Apart, users, round
<1>5. CASE Ping \/ HearPong \/ HearChanged \/ Drain
  BY <1>5 DEF Ping, HearPong, HearChanged, Drain, Apart, users, signals, round
<1>6. CASE ConnectorScans
  BY <1>0, <1>6, GoesApart, SetElsewhere DEF ConnectorScans, Refresh, Apart, users, signals
<1>7. CASE ConnectorPlans \/ ConnectorFetches
  BY <1>0, <1>7, GoesApart DEF ConnectorPlans, ConnectorFetches, Step, Apart, users, signals, round
<1>8. CASE ConnectorRetries
  BY <1>0, <1>8, GoesApart, ForgetIs, OwnRound DEF ConnectorRetries, Step, Apart, users, signals
<1>9. CASE ConnectorStops
  <2>1. PICK k \in DOMAIN Order :
          Step(C, "applying", "Applied", "reserving",
               <<FrameOf("Invalidated", Order[k]), Frame("Reserve")>>) /\ Stops(C, k)
    BY <1>9 DEF ConnectorStops
  <2>2. Forget(C) /\ UNCHANGED <<edits, ahead>>
    BY <1>9 DEF ConnectorStops
  <2> QED
    BY <1>0, <2>1, <2>2, GoesApart, ForgetIs, OwnRound, InstallIs DEF Stops, Step, Apart
<1>10. CASE ConnectorCompletes
  BY <1>0, <1>10, GoesApart, ForgetIs, OwnRound, InstallIs, SetElsewhere
  DEF ConnectorCompletes, Applies, Step, Apart
<1>11. CASE HearError \/ End(C)
  BY <1>0, <1>11, LeavesIs, CycleMoves DEF HearError, End, Leaves, Apart, users
<1> QED
  BY <1>1, <1>2, <1>3, <1>4, <1>5, <1>6, <1>7, <1>8, <1>9, <1>10, <1>11
  DEF OfConnector, ConnectorStep

LEMMA ResponderAlone ==
  ASSUME TypeOK, OfResponder
  PROVE  Apart(C)
<1>0. Other(R) = C /\ R \in Ends
  BY EndsAre
<1>1. CASE Accept
  BY <1>0, <1>1, GoesApart DEF Accept, Apart, users, signals, round
<1>2. CASE ResponderReady
  BY <1>0, <1>2, GoesApart, OwnRound DEF ResponderReady, Apart, users, signals
<1>3. CASE Notice \/ AnswerPing
  BY <1>3 DEF Notice, AnswerPing, Apart, users, signals, round
<1>4. CASE Advertise
  BY <1>0, <1>4, SetElsewhere DEF Advertise, Apart, users, round
<1>5. CASE ServeRound \/ ServeNeed \/ ServePlan
  BY <1>0, <1>5, GoesApart DEF ServeRound, ServeNeed, ServePlan, Step, Apart, users, signals, round
<1>6. CASE ResponderScans
  BY <1>0, <1>6, GoesApart, SetElsewhere DEF ResponderScans, Refresh, Apart, users, signals
<1>7. CASE ResponderApplies
  BY <1>0, <1>7, GoesApart, InstallIs DEF ResponderApplies, Applies, Step, Apart, round
<1>8. CASE ResponderStops
  <2>1. PICK k \in DOMAIN Order :
          Step(R, "apply", "Done", "idle", <<FrameOf("Invalidated", Order[k])>>) /\ Stops(R, k)
    BY <1>8 DEF ResponderStops
  <2>2. Forget(R) /\ UNCHANGED <<edits, ahead>>
    BY <1>8 DEF ResponderStops
  <2> QED
    BY <1>0, <2>1, <2>2, GoesApart, ForgetIs, OwnRound, InstallIs DEF Stops, Step, Apart
<1>9. CASE ResponderCompletes
  <2>1. cycle' = Set(cycle, R, NewCycle)
    BY <1>9 DEF ResponderCompletes, NextCycle, Set
  <2> QED
    BY <1>0, <1>9, <2>1, GoesApart, ForgetIs, OwnRound, SetElsewhere
    DEF ResponderCompletes, Step, Apart, users, signals
<1>10. CASE ResponderRetries
  BY <1>0, <1>10, GoesApart, ForgetIs, OwnRound DEF ResponderRetries, Step, Apart, users, signals
<1>11. CASE LoseWatcher \/ End(R)
  BY <1>0, <1>11, LeavesIs, CycleMoves DEF LoseWatcher, End, Leaves, Apart, users
<1> QED
  BY <1>1, <1>2, <1>3, <1>4, <1>5, <1>6, <1>7, <1>8, <1>9, <1>10, <1>11
  DEF OfResponder, ResponderStep

----------------------------------------------------------------------------
(* Scans that are out of date, plans that are installed, and wake-ups.     *)

ScannedAt(e) ==
  at[e] \in Holding(e) =>
    \A p \in Paths : OwnerOf[p] = e => disk[e][p] = scan[e][p] \/ event[e] \/ ahead[e]

LEMMA ScannedKept ==
  ASSUME NEW e \in Ends, ScannedAt(e), at'[e] \in Holding(e) => at[e] \in Holding(e),
         scan'[e] = scan[e], \A p \in Paths : OwnerOf[p] = e => disk'[e][p] = disk[e][p],
         event[e] \/ ahead[e] => event'[e] \/ ahead'[e]
  PROVE  ScannedAt(e)'
BY DEF ScannedAt, Holding

LEMMA ScansHold ==
  ASSUME TypeOK, NEW e \in Ends, Refresh(e), disk' = disk
  PROVE  ScannedAt(e)'
<1>1. scan'[e] = Own(e)
  BY DEF Refresh, Set, TypeOK, DataTyped
<1> QED
  BY <1>1 DEF ScannedAt, Own

(* Where each step takes the connector, and the responder.                 *)
LEMMA ConnectorGoes ==
  ASSUME TypeOK, Talk, OfConnector
  PROVE  \/ at'[C] \in {"off", "opening", "reserving", "idle"}
         \/ ConnectorScans /\ at'[C] = "scanned"
         \/ ConnectorPlans /\ at[C] = "scanned" /\ at'[C] = "objects"
         \/ ConnectorFetches /\ at[C] = "objects" /\ at'[C] = "proposed"
         \/ ConnectorFetches /\ at[C] = "proposed" /\ at'[C] = "applying" /\ at[R] # "applied"
<1>0. Placed
  BY PlacedIs
<1>1. Connect => at'[C] = "opening"
  BY Moves, EndsAre DEF Connect, TypeOK
<1>2. ConnectorReady \/ Drain \/ ConnectorStops => at'[C] = "reserving"
  BY TurnsWith DEF Turn
<1>3. Schedule => at'[C] = "idle"
  BY DEF Schedule
<1>4. RoundDue \/ Audit => at'[C] = "reserving"
  BY SpeaksAre DEF Speaks
<1>5. Ping => at'[C] = "idle"
  BY DEF Ping
<1>6. HearPong \/ HearChanged \/ ConnectorCompletes => at'[C] = "idle"
  BY TurnsOf DEF Turn
<1>7. ConnectorScans => at'[C] = "scanned"
  BY TurnsOf DEF Turn
<1>8. ConnectorPlans => at[C] = "scanned" /\ at'[C] = "objects"
  BY TurnsOf DEF Turn
<1>9. ASSUME ConnectorFetches
      PROVE  \/ at[C] = "objects" /\ at'[C] = "proposed"
             \/ at[C] = "proposed" /\ at'[C] = "applying" /\ at[R] # "applied"
  <2>1. \/ Turn(C, "objects", "Done", "proposed", {"Plan"})
        \/ Turn(C, "proposed", "Need", "applying", {"Done"})
    BY <1>9, TurnsWith
  <2> QED
    BY <1>0, <2>1 DEF Turn, Took, Placed, ToConnector
<1>10. ConnectorRetries => at'[C] = "reserving"
  BY TurnsOf DEF Turn
<1>11. HearError \/ End(C) => at'[C] = "off"
  BY LeavesAt, EndsAre DEF HearError, End
<1> QED
  BY <1>1, <1>2, <1>3, <1>4, <1>5, <1>6, <1>7, <1>8, <1>9, <1>10, <1>11
  DEF OfConnector, ConnectorStep

LEMMA ResponderGoes ==
  ASSUME TypeOK, Talk, OfResponder
  PROVE  \/ at'[R] \in {"off", "ready", "idle", "reserved"}
         \/ ResponderScans /\ at'[R] = "serving"
         \/ ServeNeed /\ at[R] = "serving" /\ at'[R] = "planning"
         \/ ServePlan /\ at[R] = "planning" /\ at'[R] = "apply"
         \/ ResponderApplies /\ at[R] = "apply" /\ at'[R] = "applied"
<1>1. Accept => at'[R] = "ready"
  BY TurnsWith DEF Turn
<1>2. ResponderReady \/ ResponderCompletes \/ ResponderRetries => at'[R] = "idle"
  BY TurnsOf DEF Turn
<1>3. Notice \/ Advertise \/ AnswerPing => at'[R] = "idle"
  BY DEF Notice, Advertise, AnswerPing
<1>4. ServeRound => at'[R] = "reserved"
  BY TurnsOf DEF Turn
<1>5. ResponderScans => at'[R] = "serving"
  BY SpeaksAre DEF Speaks
<1>6. ServeNeed => at[R] = "serving" /\ at'[R] = "planning"
  BY TurnsOf DEF Turn
<1>7. ServePlan => at[R] = "planning" /\ at'[R] = "apply"
  BY TurnsOf DEF Turn
<1>8. ResponderApplies => at[R] = "apply" /\ at'[R] = "applied"
  BY TurnsOf DEF Turn
<1>9. ResponderStops => at'[R] = "idle"
  BY TurnsWith DEF Turn
<1>10. LoseWatcher \/ End(R) => at'[R] = "off"
  BY LeavesAt, EndsAre DEF LoseWatcher, End
<1> QED
  BY <1>1, <1>2, <1>3, <1>4, <1>5, <1>6, <1>7, <1>8, <1>9, <1>10 DEF OfResponder, ResponderStep

(* What a write changes, and what the delivery of an event.                *)
LEMMA WriteIs ==
  ASSUME TypeOK, NEW p \in Paths, Write(p)
  PROVE  LET e == OwnerOf[p]
         IN  /\ e \in Ends /\ (event'[e] <=> at[e] # "off")
             /\ \A d \in Ends : d # e => event'[d] = event[d] /\ disk'[d] = disk[d]
             /\ \A d \in Ends : \A o \in Paths : o # p => disk'[d][o] = disk[d][o]
             /\ UNCHANGED <<ahead, token, due, remoteAhead, at, round, wire, open>>
<1> DEFINE e == OwnerOf[p]
<1>1. e \in Ends
  BY WatchConstants
<1>2. \A d \in Ends : d # e => event'[d] = event[d] /\ disk'[d] = disk[d]
  BY <1>1 DEF Write, Set, TypeOK, SignalsTyped, DataTyped
<1>3. event'[e] <=> at[e] # "off"
  BY <1>1 DEF Write, Set, TypeOK, SignalsTyped
<1>4. \A o \in Paths : o # p => disk'[e][o] = disk[e][o]
  BY <1>1 DEF Write, TypeOK, DataTyped, Entries
<1> QED
  BY <1>1, <1>2, <1>3, <1>4 DEF Write

LEMMA DeliverIs ==
  ASSUME TypeOK, NEW e \in Ends, Deliver(e)
  PROVE  /\ ahead'[e] /\ (e = R => token') /\ (token => token')
         /\ \A d \in Ends : d # e => event'[d] = event[d] /\ ahead'[d] = ahead[d]
         /\ \A d \in Ends : ahead[d] => ahead'[d]
         /\ UNCHANGED <<users, due, remoteAhead, at, round, wire, open>>
BY DEF Deliver, Set, TypeOK, SignalsTyped

LEMMA NextScanned ==
  ASSUME TypeOK, Talk, Scanned, [Next]_vars
  PROVE  Scanned'
<1>0. ScannedAt(C) /\ ScannedAt(R)
  BY EndsAre DEF Scanned, ScannedAt
<1> SUFFICES ScannedAt(C)' /\ ScannedAt(R)'
  BY EndsAre DEF Scanned, ScannedAt
<1>a. ASSUME NEW e \in Ends, ScannedAt(e), Apart(e) PROVE ScannedAt(e)'
  BY <1>a, ScannedKept DEF Apart
<1>1. CASE OfConnector
  <2>1. ScannedAt(R)'
    BY <1>0, <1>1, <1>a, ConnectorAlone, EndsAre
  <2>2. ASSUME at'[C] \in {"off", "opening", "reserving", "idle"} PROVE ScannedAt(C)'
    BY <2>2 DEF ScannedAt, Holding
  <2>3. ASSUME ConnectorScans PROVE ScannedAt(C)'
    BY <2>3, ScansHold, EndsAre DEF ConnectorScans, users
  <2>4. ASSUME ConnectorPlans \/ ConnectorFetches PROVE ScannedAt(C)'
    <3>1. /\ UNCHANGED <<disk, scan, event, ahead>>
          /\ at[C] \in {"scanned", "objects", "proposed"}
      BY <2>4 DEF ConnectorPlans, ConnectorFetches, Step, users, signals, round
    <3> QED
      BY <1>0, <3>1, ScannedKept, EndsAre DEF Holding
  <2> QED
    BY <1>1, <2>1, <2>2, <2>3, <2>4, ConnectorGoes
<1>2. CASE OfResponder
  <2>1. ScannedAt(C)'
    BY <1>0, <1>2, <1>a, ResponderAlone, EndsAre
  <2>2. ASSUME at'[R] \in {"off", "ready", "idle", "reserved"} PROVE ScannedAt(R)'
    BY <2>2, EndsAre DEF ScannedAt, Holding
  <2>3. ASSUME ResponderScans PROVE ScannedAt(R)'
    BY <2>3, ScansHold, EndsAre DEF ResponderScans, users
  <2>4. ASSUME ServeNeed \/ ServePlan PROVE ScannedAt(R)'
    <3>1. UNCHANGED <<disk, scan, event, ahead>> /\ at[R] \in {"serving", "planning"}
      BY <2>4 DEF ServeNeed, ServePlan, Step, users, signals, round
    <3> QED
      BY <1>0, <3>1, ScannedKept, EndsAre DEF Holding
  <2>5. ASSUME ResponderApplies PROVE ScannedAt(R)'
    <3>1. UNCHANGED <<scan, ahead>> /\ at[R] = "apply" /\ Install(R, Planned(R)) /\ UNCHANGED edits
      BY <2>5 DEF ResponderApplies, Applies, Step, round
    <3>2. /\ event[R] => event'[R]
          /\ \A p \in Paths : OwnerOf[p] = R => disk'[R][p] = disk[R][p]
      BY <3>1, InstallIs, EndsAre
    <3>3. at[R] \in Holding(R)
      BY <3>1, EndsAre DEF Holding
    <3> QED
      BY <1>0, <3>1, <3>2, <3>3, ScannedKept, EndsAre
  <2> QED
    BY <1>2, <2>1, <2>2, <2>3, <2>4, <2>5, ResponderGoes
<1>3. CASE OfBoth
  <2>1. CASE UNCHANGED vars \/ Break
    <3>1. UNCHANGED <<at, disk, scan, event, ahead>>
      BY <2>1 DEF vars, Break, users, signals, round
    <3>2. ScannedAt(C)'
      BY <1>0, <3>1, ScannedKept, EndsAre
    <3>3. ScannedAt(R)'
      BY <1>0, <3>1, ScannedKept, EndsAre
    <3> QED
      BY <3>2, <3>3
  <2>2. ASSUME NEW e \in Ends, Deliver(e) PROVE Scanned'
    <3>1. /\ UNCHANGED <<at, disk, scan>> /\ \A d \in Ends : ahead[d] => ahead'[d]
          /\ \A d \in Ends : event[d] => event'[d] \/ ahead'[d]
      BY <2>2, DeliverIs DEF users, round
    <3>2. ScannedAt(C)'
      BY <1>0, <3>1, ScannedKept, EndsAre
    <3>3. ScannedAt(R)'
      BY <1>0, <3>1, ScannedKept, EndsAre
    <3> QED
      BY <3>2, <3>3, EndsAre DEF Scanned, ScannedAt
  <2>3. ASSUME NEW p \in Paths, Write(p) PROVE Scanned'
    <3>1. /\ UNCHANGED <<at, scan, ahead>> /\ OwnerOf[p] \in Ends
          /\ (event'[OwnerOf[p]] <=> at[OwnerOf[p]] # "off")
          /\ \A d \in Ends : d # OwnerOf[p] => event'[d] = event[d] /\ disk'[d] = disk[d]
      BY <2>3, WriteIs DEF round
    <3>2. \A d \in Ends : d # OwnerOf[p] => ScannedAt(d)'
      BY <1>0, <3>1, ScannedKept, EndsAre
    <3>3. ScannedAt(OwnerOf[p])'
      BY <3>1 DEF ScannedAt, Holding
    <3> QED
      BY <3>2, <3>3, EndsAre DEF Scanned, ScannedAt
  <2> QED
    BY <1>3, <2>1, <2>2, <2>3, EndsAre DEF OfBoth, Scanned, ScannedAt
<1> QED
  BY <1>1, <1>2, <1>3, OneOf

LEMMA NextInstalled ==
  ASSUME Agreeing, Theirs, Installed, [Next]_vars
  PROVE  Installed'
<1>0. TypeOK /\ Talk /\ Placed
  BY PlacedIs DEF Agreeing
<1>1. CASE OfConnector
  <2>1. at'[R] = at[R]
    BY <1>0, <1>1, ConnectorAlone DEF Apart
  <2>2. at'[C] # "applying" \/ at'[R] # "applied"
    BY <1>0, <1>1, <2>1, ConnectorGoes
  <2> QED
    BY <2>2 DEF Installed
<1>2. CASE OfResponder
  <2>1. CASE at'[R] # "applied"
    BY <2>1 DEF Installed
  <2>2. CASE ResponderApplies /\ at[R] = "apply"
    <3>1. /\ Install(R, Planned(R)) /\ UNCHANGED <<edits, cycle, scan>>
      BY <2>2 DEF ResponderApplies, Applies, round
    <3>2. Planned(R)' = Planned(R) /\ Planned(R) \subseteq Paths
      BY <3>1 DEF Planned
    <3>3. \A p \in Planned(R) : OwnerOf[p] = C => disk'[R][p] = theirs[R][p]
      BY <1>0, <3>1, <3>2, InstallIs, EndsAre
    <3>4. at'[C] = at[C]
      BY <1>0, <1>2, ResponderAlone DEF Apart
    <3> QED
      BY <2>2, <3>1, <3>2, <3>3, <3>4 DEF Installed, Theirs
  <2> QED
    BY <1>0, <1>2, <2>1, <2>2, ResponderGoes
<1>3. CASE OfBoth
  <2>1. CASE UNCHANGED vars \/ Break
    BY <2>1 DEF vars, Break, users, round, Installed, Planned
  <2>2. ASSUME NEW e \in Ends, Deliver(e) PROVE Installed'
    BY <2>2 DEF Deliver, users, round, Installed, Planned
  <2>3. ASSUME NEW p \in Paths, Write(p) PROVE Installed'
    <3>1. /\ UNCHANGED <<at, scan, cycle>>
          /\ \A o \in Paths : OwnerOf[o] = C => disk'[R][o] = disk[R][o]
      BY <1>0, <2>3, WriteIs, EndsAre DEF round
    <3> QED
      BY <3>1 DEF Installed, Planned
  <2> QED
    BY <1>3, <2>1, <2>2, <2>3 DEF OfBoth
<1> QED
  BY <1>1, <1>2, <1>3, OneOf

LEMMA NextWakes ==
  ASSUME TypeOK, Wakes, [Next]_vars
  PROVE  Wakes'
<1>a. \A x : due' = Set(due, C, x) => due'[R] = due[R]
  BY EndsAre DEF Set, TypeOK, SignalsTyped
<1>1. CASE OfConnector
  <2>1. ahead'[R] = ahead[R]
    BY <1>1, ConnectorAlone DEF Apart
  <2>2. HearError \/ End(C) => token' = token /\ due'[R] = due[R]
    BY LeavesIs, EndsAre DEF HearError, End
  <2>3. token' = token /\ due'[R] = due[R]
    BY <1>1, <1>a, <2>2
    DEF OfConnector, ConnectorStep, Connect, ConnectorReady, Schedule, RoundDue, Audit, Begin, Ping,
        HearPong, HearChanged, Drain, ConnectorScans, ConnectorPlans, ConnectorFetches,
        ConnectorRetries, ConnectorStops, ConnectorCompletes, signals
  <2> QED
    BY <2>1, <2>3 DEF Wakes
<1>2. CASE OfResponder
  <2>1. CASE LoseWatcher \/ End(R)
    BY <2>1, LeavesIs, EndsAre DEF LoseWatcher, End, Wakes
  <2>2. CASE Notice \/ Advertise
    <3>1. Notice => due'[R]
      BY EndsAre DEF Notice, Set, TypeOK, SignalsTyped
    <3>2. Advertise => ~ahead'[R]
      BY EndsAre DEF Advertise, Set, TypeOK, SignalsTyped
    <3> QED
      BY <2>2, <3>1, <3>2 DEF Wakes
  <2>3. CASE ~(LoseWatcher \/ End(R) \/ Notice \/ Advertise)
    <3>1. UNCHANGED <<ahead, token, due>>
      BY <1>2, <2>3
      DEF OfResponder, ResponderStep, Accept, ResponderReady, AnswerPing, ServeRound,
          ResponderScans, ServeNeed, ServePlan, ResponderApplies, ResponderStops,
          ResponderCompletes, ResponderRetries, signals
    <3> QED
      BY <3>1 DEF Wakes
  <2> QED
    BY <2>1, <2>2, <2>3
<1>3. CASE OfBoth
  <2>1. CASE UNCHANGED vars \/ Break
    BY <2>1 DEF vars, Break, signals, Wakes
  <2>2. ASSUME NEW e \in Ends, Deliver(e) PROVE Wakes'
    BY <2>2, DeliverIs, EndsAre DEF Wakes
  <2>3. ASSUME NEW p \in Paths, Write(p) PROVE Wakes'
    BY <2>3 DEF Write, Wakes
  <2> QED
    BY <1>3, <2>1, <2>2, <2>3 DEF OfBoth
<1> QED
  BY <1>1, <1>2, <1>3, OneOf

----------------------------------------------------------------------------
(* What is not shared between rounds.                                      *)

LEMMA CoveredKept ==
  ASSUME Covered, UNCHANGED <<at, disk, scan, cycle, unsettled>>, open' => open,
         ConnectorStirs => ConnectorStirs',
         open' /\ ResponderStirs => ResponderStirs'
  PROVE  Covered'
<1>1. \A p : open' /\ Stirs(OwnerOf[p]) => Stirs(OwnerOf[p])'
  BY DEF Stirs
<1>2. Planned(R)' = Planned(R)
  BY DEF Planned
<1> HIDE DEF Stirs, ConnectorStirs, Planned
<1> QED
  BY <1>1, <1>2 DEF Covered

LEMMA CoveredApart ==
  ASSUME at'[C] # "idle" \/ at'[R] \notin {"applied", "idle"} \/ ~open'
  PROVE  Covered'
BY DEF Covered

LEMMA WriteCovered ==
  ASSUME TypeOK, Covered, NEW p \in Paths, Write(p)
  PROVE  Covered'
<1> DEFINE e == OwnerOf[p]
<1>1. /\ e \in Ends /\ (event'[e] <=> at[e] # "off")
      /\ \A d \in Ends : d # e => event'[d] = event[d] /\ disk'[d] = disk[d]
      /\ \A d \in Ends : \A o \in Paths : o # p => disk'[d][o] = disk[d][o]
      /\ UNCHANGED <<ahead, due, remoteAhead, at, scan, cycle, unsettled, wire, open>>
  BY WriteIs DEF round
<1>2. Planned(R)' = Planned(R) /\ Planned(R) \subseteq Paths
  BY <1>1 DEF Planned
<1> SUFFICES ASSUME open, at[C] = "idle", at[R] \in {"applied", "idle"} PROVE Covered'
  BY <1>1, CoveredApart
<1>3. event'[e] /\ (e = C \/ e = R)
  BY <1>1, EndsAre
<1>4. Stirs(e)'
  BY <1>3 DEF Stirs, ConnectorStirs, ResponderStirs
<1>5. \A d \in Ends : d # e /\ Stirs(d) => Stirs(d)'
  BY <1>1, EndsAre DEF Stirs, ConnectorStirs, ResponderStirs
<1>6. Stirs(C) = ConnectorStirs /\ Stirs(C)' = ConnectorStirs'
  BY DEF Stirs
<1>7. ASSUME NEW q \in Paths, OwnerOf[q] # e
      PROVE  /\ \A d \in Ends : disk'[d][q] = disk[d][q]
             /\ Stirs(OwnerOf[q]) => Stirs(OwnerOf[q])'
  BY <1>1, <1>5, <1>7, WatchConstants
<1>8. ASSUME NEW q \in Paths, OwnerOf[q] = e
      PROVE  /\ Stirs(OwnerOf[q])' /\ \A d \in Ends : d # e => disk'[d][q] = disk[d][q]
  BY <1>1, <1>4, <1>8
<1> HIDE DEF e, Stirs, ConnectorStirs
<1>9. CASE at[R] = "applied"
  <2>1. cycle'[R].deferred \subseteq unsettled'[C]
    BY <1>1, <1>9 DEF Covered
  <2>2. ASSUME NEW q \in Planned(R), OwnerOf[q] = C
        PROVE  disk'[R][q] = disk'[C][q] \/ ConnectorStirs'
    BY <1>2, <1>6, <1>7, <1>8, <1>9, <2>2, EndsAre DEF Covered
  <2>3. ASSUME NEW q \in Planned(R), OwnerOf[q] = R
        PROVE  disk'[C][q] = scan'[R][q]
    BY <1>1, <1>2, <1>7, <1>8, <1>9, <2>3, EndsAre DEF Covered
  <2> QED
    BY <1>1, <1>2, <1>9, <2>1, <2>2, <2>3 DEF Covered
<1>10. CASE at[R] = "idle"
  <2>1. ASSUME NEW q \in Paths
        PROVE  \/ disk'[C][q] = disk'[R][q] \/ Stirs(OwnerOf[q])'
               \/ \A d \in Ends : q \in unsettled'[d]
    BY <1>1, <1>7, <1>8, <1>10, EndsAre DEF Covered
  <2> QED
    BY <1>1, <1>10, <2>1 DEF Covered
<1> QED
  BY <1>9, <1>10

LEMMA SettlesKeeps ==
  ASSUME TypeOK, NEW e \in Ends, Settles(e), cycle[e].deferred \subseteq unsettled[e]
  PROVE  cycle[e].deferred \subseteq unsettled'[e]
BY DEF Settles, TypeOK, RoundTyped

LEMMA ConnectorCompletesCovered ==
  ASSUME Agreeing, Theirs, Installed, ConnectorCompletes
  PROVE  Covered'
<1>0. TypeOK /\ Talk /\ Placed /\ SameCycles
  BY PlacedIs DEF Agreeing, Cycling
<1>1. /\ at[C] = "applying" /\ "Applied" \in Types(wire[C]) /\ at'[C] = "idle" /\ at'[R] = at[R]
      /\ open' = open
  BY <1>0, TurnsOf, EndsAre DEF Turn, Took, Wrote
<1> SUFFICES ASSUME open PROVE Covered'
  BY <1>1, CoveredApart
<1>2. at[R] = "applied"
  BY <1>0, <1>1 DEF Placed, ToConnector
<1>3. Apart(R)
  BY <1>0, ConnectorAlone DEF OfConnector, ConnectorStep
<1>4. cycle[C] = cycle[R] /\ Planned(C) = Planned(R) /\ Planned(R)' = Planned(R)
      /\ Planned(R) \subseteq Paths
  BY <1>0, <1>1, <1>2, <1>3 DEF SameCycles, Together, Planned, Apart
<1>5. Install(C, Planned(C)) /\ Changed(C) = {} /\ Settles(C) /\ UNCHANGED edits
  BY DEF ConnectorCompletes, Applies
<1>6. ASSUME NEW p \in Planned(R), OwnerOf[p] = C PROVE disk'[R][p] = disk'[C][p]
  <2>1. disk'[R][p] = scan[C][p]
    BY <1>1, <1>2, <1>3, <1>6 DEF Installed, Apart
  <2>2. disk'[C][p] = disk[C][p]
    BY <1>0, <1>4, <1>5, <1>6, InstallIs, EndsAre
  <2>3. disk[C][p] = scan[C][p]
    BY <1>4, <1>5, <1>6 DEF Changed
  <2> QED
    BY <2>1, <2>2, <2>3
<1>7. ASSUME NEW p \in Planned(R), OwnerOf[p] = R PROVE disk'[C][p] = scan'[R][p]
  <2>1. disk'[C][p] = theirs[C][p]
    BY <1>0, <1>4, <1>5, <1>7, InstallIs, EndsAre
  <2>2. theirs[C] = scan[R] /\ scan'[R] = scan[R]
    BY <1>1, <1>2, <1>3 DEF Theirs, Apart
  <2> QED
    BY <2>1, <2>2
<1>8. cycle'[R].deferred \subseteq unsettled'[C]
  BY <1>0, <1>3, <1>4, <1>5, SettlesKeeps, EndsAre DEF Agreeing, DeferredUnsettled, Apart
<1> QED
  BY <1>1, <1>2, <1>4, <1>6, <1>7, <1>8 DEF Covered

LEMMA ResponderCompletesCovered ==
  ASSUME Agreeing, Scanned, Covered, ResponderCompletes
  PROVE  Covered'
<1>0. TypeOK /\ Talk
  BY DEF Agreeing
<1>1. at[R] = "applied" /\ at'[R] = "idle" /\ at'[C] = at[C] /\ open' = open
  BY <1>0, TurnsOf, EndsAre DEF Turn, Wrote
<1> SUFFICES ASSUME open, at[C] = "idle" PROVE Covered'
  BY <1>1, CoveredApart
<1>2. UNCHANGED <<disk, event, ahead, due, remoteAhead>> /\ Settles(R)
  BY DEF ResponderCompletes, users, signals
<1>3. unsettled'[C] = unsettled[C]
  BY <1>0, <1>2, OwnRound, EndsAre
<1>4. ASSUME NEW p \in Paths, p \notin Planned(R) PROVE \A e \in Ends : p \in unsettled'[e]
  <2>1. p \in cycle[R].deferred
    BY <1>4 DEF Planned
  <2>2. p \in unsettled'[C]
    BY <1>1, <1>3, <2>1 DEF Covered
  <2>3. p \in unsettled'[R]
    BY <1>0, <1>2, <2>1, SettlesKeeps, EndsAre DEF Agreeing, DeferredUnsettled
  <2> QED
    BY <2>2, <2>3, EndsAre
<1>5. ASSUME NEW p \in Planned(R), OwnerOf[p] = C
      PROVE  disk'[C][p] = disk'[R][p] \/ Stirs(OwnerOf[p])'
  BY <1>1, <1>2, <1>5 DEF Covered, Stirs, ConnectorStirs
<1>6. ASSUME NEW p \in Planned(R), OwnerOf[p] = R
      PROVE  disk'[C][p] = disk'[R][p] \/ Stirs(OwnerOf[p])'
  <2>1. disk[R][p] = scan[R][p] \/ event[R] \/ ahead[R]
    BY <1>1, <1>6, EndsAre DEF Scanned, Holding, Planned
  <2>2. disk[C][p] = scan[R][p]
    BY <1>1, <1>6 DEF Covered
  <2> QED
    BY <1>2, <1>6, <2>1, <2>2, EndsAre DEF Stirs, ResponderStirs
<1>7. \A p \in Paths : OwnerOf[p] = C \/ OwnerOf[p] = R
  BY WatchConstants, EndsAre
<1> HIDE DEF Stirs
<1> QED
  BY <1>1, <1>4, <1>5, <1>6, <1>7 DEF Covered

LEMMA NextCovered ==
  ASSUME Agreeing, Theirs, Scanned, Installed, Covered, [Next]_vars
  PROVE  Covered'
<1>0. TypeOK /\ Talk /\ Placed
  BY PlacedIs DEF Agreeing
<1>1. CASE OfConnector
  <2>1. Connect => at'[C] # "idle"
    BY <1>0, Moves, EndsAre DEF Connect, TypeOK
  <2>2. ConnectorReady \/ Drain \/ ConnectorStops \/ ConnectorFetches => at'[C] # "idle"
    BY <1>0, TurnsWith DEF Turn
  <2>3. RoundDue \/ Audit => at'[C] # "idle"
    BY <1>0, SpeaksAre DEF Speaks
  <2>4. ConnectorScans \/ ConnectorPlans \/ ConnectorRetries => at'[C] # "idle"
    BY <1>0, TurnsOf DEF Turn
  <2>5. HearError \/ End(C) => at'[C] # "idle"
    BY <1>0, LeavesAt, EndsAre DEF HearError, End
  <2>6. ASSUME Schedule PROVE Covered'
    <3>1. due'[C]
      BY <1>0, <2>6, EndsAre DEF Schedule, Set, TypeOK, SignalsTyped
    <3>2. ConnectorStirs' /\ ResponderStirs'
      BY <3>1 DEF ConnectorStirs, ResponderStirs
    <3>3. UNCHANGED <<at, disk, scan, cycle, unsettled, open>>
      BY <2>6 DEF Schedule, users, round
    <3> QED
      BY <3>2, <3>3, CoveredKept
  <2>7. ASSUME Ping PROVE Covered'
    <3>1. UNCHANGED <<at, disk, scan, cycle, unsettled, event, ahead, due, remoteAhead>>
      BY <2>7 DEF Ping, users, round, signals
    <3>2. wire'[C] = wire[C] /\ open' = open
      BY <1>0, <2>7, SpeaksAre DEF Speaks, Wrote
    <3> QED
      BY <3>1, <3>2, CoveredKept DEF ConnectorStirs, ResponderStirs
  <2>8. ASSUME HearPong \/ HearChanged PROVE Covered'
    <3>1. /\ UNCHANGED <<at, disk, scan, cycle, unsettled, event, ahead, due>>
          /\ remoteAhead => remoteAhead'
      BY <2>8 DEF HearPong, HearChanged, users, round, signals
    <3>2. open' = open /\ ("Changed" \in Types(wire[C]) => remoteAhead' \/ "Changed" \in Types(wire'[C]))
      BY <1>0, <2>8, TurnsOf DEF Turn, Took, Wrote, HearChanged
    <3> QED
      BY <3>1, <3>2, CoveredKept DEF ConnectorStirs, ResponderStirs
  <2> QED
    BY <1>1, <2>1, <2>2, <2>3, <2>4, <2>5, <2>6, <2>7, <2>8, CoveredApart, ConnectorCompletesCovered
    DEF OfConnector, ConnectorStep
<1>2. CASE OfResponder
  <2>1. Accept => at'[R] \notin {"applied", "idle"}
    BY <1>0, TurnsWith DEF Turn
  <2>2. ServeRound \/ ServeNeed \/ ServePlan => at'[R] \notin {"applied", "idle"}
    BY <1>0, TurnsOf DEF Turn
  <2>3. ResponderScans => at'[R] \notin {"applied", "idle"}
    BY <1>0, SpeaksAre DEF Speaks
  <2>4. LoseWatcher \/ End(R) => at'[R] \notin {"applied", "idle"}
    BY <1>0, LeavesAt, EndsAre DEF LoseWatcher, End
  <2>5. ResponderReady \/ ResponderApplies \/ ResponderRetries => at'[C] # "idle"
    BY <1>0, TurnsOf, EndsAre DEF Turn, Took, Placed, ToResponder
  <2>6. ResponderStops => at'[C] # "idle"
    BY <1>0, TurnsWith, EndsAre DEF Turn, Took, Placed, ToResponder
  <2>7. ASSUME Notice PROVE Covered'
    <3>1. /\ UNCHANGED <<at, disk, scan, cycle, unsettled, open, event, ahead, remoteAhead, wire>>
          /\ due'[C] = due[C]
      BY <1>0, <2>7, EndsAre DEF Notice, Set, users, round, TypeOK, SignalsTyped
    <3> QED
      BY <3>1, CoveredKept DEF ConnectorStirs, ResponderStirs
  <2>8. ASSUME Advertise PROVE Covered'
    <3>1. /\ UNCHANGED <<at, disk, scan, cycle, unsettled, event, remoteAhead>>
          /\ ahead'[C] = ahead[C] /\ due'[C] = due[C]
      BY <1>0, <2>8, EndsAre DEF Advertise, Set, users, round, TypeOK, SignalsTyped
    <3>2. open' = open /\ (open => "Changed" \in Types(wire'[C]))
      BY <1>0, <2>8, SpeaksAre, EndsAre DEF Speaks, Wrote
    <3> QED
      BY <3>1, <3>2, CoveredKept DEF ConnectorStirs, ResponderStirs
  <2>9. ASSUME AnswerPing PROVE Covered'
    <3>1. UNCHANGED <<at, disk, scan, cycle, unsettled, event, ahead, due, remoteAhead>>
      BY <2>9 DEF AnswerPing, users, round, signals
    <3>2. open' = open /\ Types(wire[C]) \subseteq Types(wire'[C])
      BY <1>0, <2>9, TurnsWith, EndsAre DEF Turn, Wrote
    <3> QED
      BY <3>1, <3>2, CoveredKept DEF ConnectorStirs, ResponderStirs
  <2> QED
    BY <1>2, <2>1, <2>2, <2>3, <2>4, <2>5, <2>6, <2>7, <2>8, <2>9, CoveredApart,
       ResponderCompletesCovered
    DEF OfResponder, ResponderStep
<1>3. CASE OfBoth
  <2>1. CASE UNCHANGED vars
    BY <2>1, CoveredKept DEF vars, users, signals, round, ConnectorStirs, ResponderStirs
  <2>2. CASE Break
    BY <2>2, CoveredApart DEF Break
  <2>3. ASSUME NEW e \in Ends, Deliver(e) PROVE Covered'
    <3>1. /\ UNCHANGED <<at, disk, scan, cycle, unsettled, open, due, remoteAhead, wire>>
          /\ \A d \in Ends : event[d] \/ ahead[d] => event'[d] \/ ahead'[d]
      BY <1>0, <2>3, DeliverIs DEF users, round
    <3> QED
      BY <3>1, CoveredKept, EndsAre DEF ConnectorStirs, ResponderStirs
  <2>4. ASSUME NEW p \in Paths, Write(p) PROVE Covered'
    BY <1>0, <2>4, WriteCovered
  <2> QED
    BY <1>3, <2>1, <2>2, <2>3, <2>4 DEF OfBoth
<1> QED
  BY <1>1, <1>2, <1>3, OneOf

(* Everything together.                                                    *)
InStep == Agreeing /\ Sharing

LEMMA InitInStep == Init => InStep
<1>1. ASSUME Init PROVE Sharing
  <2>1. /\ at[C] = "off" /\ at[R] = "off" /\ ahead[R] = FALSE /\ wire[C] = <<>> /\ wire[R] = <<>>
    BY <1>1, EndsAre DEF Init
  <2>2. Range(<<>>) = {}
    BY Letters
  <2> QED
    BY <2>1, <2>2, EndsAre DEF Sharing, Theirs, Scanned, Installed, Wakes, Covered, Holding
<1> QED
  BY <1>1, InitAgreeing DEF InStep

LEMMA NextInStep == InStep /\ [Next]_vars => InStep'
<1> SUFFICES ASSUME InStep, [Next]_vars PROVE InStep'
  OBVIOUS
<1>1. Agreeing /\ TypeOK /\ Talk /\ Theirs /\ Scanned /\ Installed /\ Wakes /\ Covered
  BY DEF InStep, Agreeing, Sharing
<1>2. Agreeing'
  BY <1>1, NextAgreeing
<1>3. Theirs' /\ Scanned' /\ Installed' /\ Wakes' /\ Covered'
  BY <1>1, NextTheirs, NextScanned, NextInstalled, NextWakes, NextCovered
<1> QED
  BY <1>2, <1>3 DEF InStep, Sharing

(* When no event, deadline or frame is left that would start a round, a    *)
(* path is the same at both ends or both report it as unsettled: no change *)
(* is forgotten by the generations, the advertisements and the rounds that *)
(* cross them.                                                             *)
THEOREM QuietIsTold == Spec => []QuietTold
<1>1. ASSUME InStep, Quiet, NEW p \in Paths
      PROVE  disk[C][p] = disk[R][p] \/ \A e \in Ends : p \in unsettled[e]
  <2>1. /\ at[C] = "idle" /\ at[R] = "idle" /\ wire[C] = <<>> /\ open
        /\ ~event[C] /\ ~event[R]
    BY <1>1, EndsAre DEF Quiet
  <2>2. ~ahead[C] /\ ~ahead[R] /\ ~due[C] /\ ~remoteAhead
    BY <1>1 DEF Quiet, InStep, Sharing, Wakes
  <2>3. Types(wire[C]) = {}
    BY <2>1, Letters
  <2>4. ~Stirs(OwnerOf[p])
    BY <2>1, <2>2, <2>3 DEF Stirs, ConnectorStirs, ResponderStirs
  <2> QED
    BY <1>1, <2>1, <2>4 DEF InStep, Sharing, Covered
<1>2. InStep => QuietTold
  BY <1>1 DEF QuietTold
<1> QED
  BY <1>2, InitInStep, NextInStep, PTL DEF Spec
=============================================================================
