--------------------------- MODULE ConvergeProofs ---------------------------
(***************************************************************************)
(* Proofs about the convergence of two ends, for any edits, clocks and     *)
(* lost connections.                                                       *)
(*                                                                         *)
(* A version is made with a sequence number its maker has not used, so     *)
(* nothing can have seen it before; two versions that are about never have *)
(* seen each other, and everything that depends on who asks is symmetric   *)
(* (ConvergeInv).                                                          *)
(*                                                                         *)
(* What replaced a version that the other end still holds has seen it, so  *)
(* it wins against it, and no plan takes an end back to what it has moved  *)
(* on from (HistoryInv).                                                   *)
(*                                                                         *)
(* A version has the edits of its base and of the versions it has seen,    *)
(* except of a merge that its maker never installed; the tree of an end    *)
(* shows the edits of its record.  So an edit that a plan takes from an    *)
(* end is in the other version, in a recovery record, or one that a user   *)
(* gave up (EditsInv).                                                     *)
(***************************************************************************)
EXTENDS Converge, TLAPS

(* The versions a round can still use.                                     *)
Alive == {v \in {record[p] : p \in Peers} \cup {plan.record} : v # NoVersion}

(* Numbers are taken from the counters of their peers.                     *)
Numbered == \A v \in Alive :
  v.seq <= sequence[v.peer] /\ \A p \in Peers : v.seen[p] <= sequence[p]

(* An identity is that of one version, and no two versions have seen each  *)
(* other.                                                                  *)
Ordered(v, w) ==
  /\ Id(v) = Id(w) => v = w
  /\ HasSeen(v, Id(w)) /\ HasSeen(w, Id(v)) => v = w

Causal == \A v, w \in Alive : Ordered(v, w)

(* Bases and equal records are versions both ends have held.               *)
BasesHeld ==
  /\ \A v \in Alive : v.base # NoBase => v.base.id \in common
  /\ record[Connector] = record[Responder] /\ record[Connector] # NoVersion =>
       Id(record[Connector]) \in common

(* What a merge was planned as.                                            *)
MergePlanned == IsMerged(plan) => PermittedMerge(plan.record, plan.merge, Connector)

ConvergeInv == TypeOK /\ Numbered /\ Causal /\ BasesHeld /\ BaseShared /\ MergePlanned

----------------------------------------------------------------------------
(* Lemmas about versions.                                                  *)

LEMMA EndsAre ==
  Responder \in Peers /\ Responder # Connector /\ Peers = {Connector, Responder}
<1>1. PICK p \in Peers : p # Connector /\ Peers = {Connector, p}
  BY TwoEnds
<1>2. Responder \in Peers /\ Responder # Connector
  BY <1>1 DEF Responder
<1> QED
  BY <1>1, <1>2

(* The last write wins whichever end is asked.                             *)
LEMMA WinnerSymmetric ==
  ASSUME NEW v \in Versions, NEW w \in Versions, Ordered(v, w)
  PROVE  Winner(v, w) = Winner(w, v) /\ Loser(v, w) = Loser(w, v)
<1>1. /\ v.time \in Nat /\ w.time \in Nat /\ v.seq \in Nat /\ w.seq \in Nat
      /\ v.peer \in Nat /\ w.peer \in Nat
  BY PeersAreNumbers DEF Versions
<1>2. CASE v.peer = w.peer /\ v.seq = w.seq
  BY <1>2 DEF Ordered, Id, Winner, Loser
<1>3. CASE ~ (v.peer = w.peer /\ v.seq = w.seq)
  BY <1>1, <1>3 DEF Winner, Loser, AtLeast
<1> QED
  BY <1>2, <1>3

LEMMA DivergentSymmetric ==
  ASSUME NEW v \in Versions, NEW w \in Versions, Ordered(v, w)
  PROVE  Divergent(v, w) = Divergent(w, v)
<1>1. Winner(v, w) = Winner(w, v) /\ Loser(v, w) = Loser(w, v)
  BY WinnerSymmetric
<1>2. {v, w} = {w, v} /\ {v.base, w.base} = {w.base, v.base}
  OBVIOUS
<1>3. {x \in {v, w} : IsFile(x.entry)} = {x \in {w, v} : IsFile(x.entry)}
  OBVIOUS
<1>4. SameBase(v, w) <=> SameBase(w, v)
  BY DEF SameBase
<1> QED
  BY <1>1, <1>2, <1>3, <1>4 DEF Divergent

(* Two ends that hold v and w decide the same, whichever of them computes  *)
(* it: the merge, the winner and the conflict.                             *)
LEMMA DecideSymmetric ==
  ASSUME NEW v \in Versions \cup {NoVersion}, NEW w \in Versions \cup {NoVersion},
         v # NoVersion /\ w # NoVersion => Ordered(v, w)
  PROVE  Decide(v, w) = Decide(w, v)
<1>1. CASE v = NoVersion \/ w = NoVersion
  BY <1>1 DEF Decide
<1>2. CASE v # NoVersion /\ w # NoVersion
  <2>1. v \in Versions /\ w \in Versions /\ Ordered(v, w)
    BY <1>2
  <2>2. CASE HasSeen(v, Id(w)) \/ HasSeen(w, Id(v))
    BY <1>2, <2>1, <2>2 DEF Decide, Ordered
  <2>3. CASE ~ (HasSeen(v, Id(w)) \/ HasSeen(w, Id(v)))
    BY <1>2, <2>1, <2>3, WinnerSymmetric, DivergentSymmetric DEF Decide
  <2> QED
    BY <2>2, <2>3
<1> QED
  BY <1>1, <1>2

(* A decision adopts one of the two versions, and merges the two from a    *)
(* base of theirs.                                                         *)
LEMMA DecideFrom ==
  ASSUME NEW v \in Versions \cup {NoVersion}, NEW w \in Versions \cup {NoVersion}
  PROVE  /\ Decide(v, w).record \in {v, w}
         /\ Decide(v, w).merge # NoMerge =>
              /\ v \in Versions /\ w \in Versions
              /\ Decide(v, w).merge.winner \in {v, w} /\ Decide(v, w).merge.loser \in {v, w}
              /\ Decide(v, w).merge.base = Decide(v, w).merge.winner.base
              /\ Decide(v, w).merge.base # NoBase
<1>1. Winner(v, w) \in {v, w} /\ Loser(v, w) \in {v, w}
  BY DEF Winner, Loser
<1>2. CASE Decide(v, w) \in {Adopt(v), Adopt(w), Adopt(Winner(v, w))}
  BY <1>1, <1>2 DEF Adopt
<1>3. CASE Decide(v, w) = Divergent(v, w) /\ v # NoVersion /\ w # NoVersion
  <2>1. Divergent(v, w).record = Winner(v, w)
    BY DEF Divergent
  <2>2. \/ Divergent(v, w).merge = NoMerge
        \/ /\ SameBase(v, w)
           /\ Divergent(v, w).merge =
                [base |-> Winner(v, w).base, winner |-> Winner(v, w), loser |-> Loser(v, w)]
    BY DEF Divergent
  <2> QED
    BY <1>1, <1>3, <2>1, <2>2 DEF SameBase
<1> QED
  BY <1>2, <1>3 DEF Decide

----------------------------------------------------------------------------
(* New versions.                                                           *)

(* A version with the next number of its maker, that has seen only what    *)
(* there is, on a base both ends have held.                                *)
Fresh(n, p) ==
  /\ n \in Versions /\ n.peer = p /\ n.seq = sequence[p] + 1
  /\ \A q \in Peers : n.seen[q] <= sequence[q]
  /\ n.base # NoBase => n.base.id \in common

LEMMA AsBaseType ==
  ASSUME NEW v \in Versions
  PROVE  AsBase(v) \in Bases /\ (AsBase(v) # NoBase => AsBase(v).id = Id(v))
  BY DEF AsBase, Id, Versions, Bases, Ids

LEMMA RememberType ==
  ASSUME NEW seen \in [Peers -> Nat], NEW v \in Versions
  PROVE  /\ Remember(seen, Id(v)) \in [Peers -> Nat]
         /\ \A q \in Peers : Remember(seen, Id(v))[q] \in {seen[q], v.seq}
         /\ Remember(seen, Id(v))[v.peer] = Larger(seen[v.peer], v.seq)
         /\ \A q \in Peers : q # v.peer => Remember(seen, Id(v))[q] = seen[q]
<1>1. v.peer \in Peers /\ v.seq \in Nat /\ Id(v).peer = v.peer /\ Id(v).seq = v.seq
  BY DEF Versions, Id
<1> QED
  BY <1>1 DEF Remember, Larger

LEMMA NothingSeenType ==
  NothingSeen \in [Peers -> Nat] /\ \A q \in Peers : NothingSeen[q] = 0
  BY DEF NothingSeen

LEMMA EntryTypes == Absent \in Entries /\ \A v \in Versions \cup {NoVersion} : RecordedEntry(v) \in Entries
  BY DEF RecordedEntry, Entries, Versions

LEMMA SuccessorFresh ==
  ASSUME TypeOK, Numbered, BasesHeld, BaseShared,
         NEW p \in Peers, NEW time \in Times
  PROVE  Fresh(Successor(p, sequence[p] + 1, time, record[p], head[p], disk[p]), p)
<1> DEFINE n == Successor(p, sequence[p] + 1, time, record[p], head[p], disk[p])
           old == record[p]
           seen == IF old = NoVersion THEN NothingSeen ELSE Remember(old.seen, Id(old))
           base == IF disk[p] = Absent THEN NoBase ELSE NextBase(p, old, head[p])
<1>1. n = [peer |-> p, seq |-> sequence[p] + 1, time |-> time, entry |-> disk[p],
           seen |-> seen, base |-> base]
  BY DEF Successor
<1>2. old \in Versions \cup {NoVersion} /\ sequence[p] \in Nat /\ disk[p] \in Entries
      /\ time \in Nat /\ head[p] \in Bases /\ \A q \in Peers : sequence[q] \in Nat
  BY TwoEnds DEF TypeOK
<1>3. seen \in [Peers -> Nat] /\ \A q \in Peers : seen[q] <= sequence[q]
  <2>1. CASE old = NoVersion
    BY <1>2, <2>1, NothingSeenType
  <2>2. CASE old # NoVersion
    <3>1. old \in Alive /\ old \in Versions /\ old.seen \in [Peers -> Nat] /\ old.seq \in Nat
          /\ old.peer \in Peers
      BY <1>2, <2>2 DEF Alive, Versions
    <3>2. old.seq <= sequence[old.peer] /\ \A q \in Peers : old.seen[q] <= sequence[q]
      BY <3>1 DEF Numbered
    <3> QED
      BY <1>2, <2>2, <3>1, <3>2, RememberType DEF Larger
  <2> QED
    BY <2>1, <2>2
<1>4. base \in Bases /\ (base # NoBase => base.id \in common)
  <2>1. CASE base = NoBase
    BY <2>1 DEF Bases
  <2>2. CASE base # NoBase /\ old # NoVersion /\ base = AsBase(old) /\ head[p] = AsBase(old)
    BY <1>2, <2>2, AsBaseType DEF BaseShared
  <2>3. CASE base # NoBase /\ old # NoVersion /\ base = old.base
    <3>1. old \in Alive /\ old \in Versions
      BY <1>2, <2>3 DEF Alive
    <3> QED
      BY <2>3, <3>1 DEF BasesHeld, Versions
  <2> QED
    BY <2>1, <2>2, <2>3 DEF NextBase
<1> HIDE DEF seen, base
<1>5. n \in Versions
  BY <1>1, <1>2, <1>3, <1>4 DEF Versions
<1> QED
  BY <1>1, <1>3, <1>4, <1>5 DEF Fresh

LEMMA MergedFresh ==
  ASSUME TypeOK, Numbered, NEW m, m.winner \in Alive \cap Versions, m.loser \in Alive \cap Versions,
         m.base = m.winner.base, m.base # NoBase => m.base.id \in common,
         NEW content \in Contents
  PROVE  /\ Fresh(Merged(Connector, sequence[Connector] + 1, m, content), Connector)
         /\ PermittedMerge(Merged(Connector, sequence[Connector] + 1, m, content), m, Connector)
<1> DEFINE n == Merged(Connector, sequence[Connector] + 1, m, content)
           seen1 == RememberVersion(NothingSeen, m.winner)
           seen == RememberVersion(seen1, m.loser)
<1>1. n = [peer |-> Connector, seq |-> sequence[Connector] + 1,
           time |-> Larger(m.winner.time, m.loser.time), seen |-> seen, base |-> m.base,
           entry |-> [kind |-> "file", content |-> content]]
  BY DEF Merged
<1>2. Connector \in Peers /\ \A q \in Peers : sequence[q] \in Nat
  BY TwoEnds DEF TypeOK
<1>3. ASSUME NEW s \in [Peers -> Nat], NEW v \in Alive \cap Versions,
             \A q \in Peers : s[q] <= sequence[q]
      PROVE  /\ RememberVersion(s, v) \in [Peers -> Nat]
             /\ \A q \in Peers : RememberVersion(s, v)[q] <= sequence[q]
  <2> DEFINE both == [q \in Peers |-> Larger(s[q], v.seen[q])]
  <2>1. v.seen \in [Peers -> Nat] /\ v.seq \in Nat /\ v.peer \in Peers
        /\ v.seq <= sequence[v.peer] /\ \A q \in Peers : v.seen[q] <= sequence[q]
    BY DEF Versions, Numbered
  <2>2. both \in [Peers -> Nat] /\ \A q \in Peers : both[q] <= sequence[q]
    BY <1>3, <2>1 DEF Larger
  <2> HIDE DEF both
  <2>3. /\ Remember(both, Id(v)) \in [Peers -> Nat]
        /\ \A q \in Peers : Remember(both, Id(v))[q] <= sequence[q]
    BY <1>2, <2>1, <2>2, RememberType DEF Larger
  <2> QED
    BY <2>3 DEF RememberVersion, both
<1>4. seen1 \in [Peers -> Nat] /\ \A q \in Peers : seen1[q] <= sequence[q]
  BY <1>2, <1>3, NothingSeenType
<1>5. seen \in [Peers -> Nat] /\ \A q \in Peers : seen[q] <= sequence[q]
  BY <1>3, <1>4
<1>6. Larger(m.winner.time, m.loser.time) \in Nat /\ m.base \in Bases
  BY DEF Larger, Versions
<1> HIDE DEF seen
<1>7. n \in Versions
  BY <1>1, <1>2, <1>5, <1>6 DEF Versions, Entries
<1>8. Fresh(n, Connector)
  BY <1>1, <1>5, <1>7 DEF Fresh
<1>9. \A v \in {m.winner, m.loser} : v.peer = Connector => n.seq > v.seq
  BY <1>1, <1>2 DEF Numbered, Versions
<1>10. IsFile(n.entry) /\ n = Merged(Connector, n.seq, m, n.entry.content)
  BY <1>1 DEF IsFile, Merged
<1> QED
  BY <1>8, <1>9, <1>10 DEF PermittedMerge

(* Nothing has seen a fresh version, and it is none of those that are      *)
(* about.                                                                  *)
LEMMA FreshOrdered ==
  ASSUME Numbered, sequence \in [Peers -> Nat], NEW p \in Peers, NEW n, Fresh(n, p),
         NEW v \in Alive \cap Versions
  PROVE  Ordered(n, v) /\ Ordered(v, n) /\ Id(n) # Id(v)
<1>1. v.seq <= sequence[v.peer] /\ v.seen[p] <= sequence[p] /\ v.seen[p] \in Nat /\ v.seq \in Nat
  BY DEF Numbered, Versions
<1>2. n.peer = p /\ n.seq = sequence[p] + 1 /\ sequence[p] \in Nat
  BY DEF Fresh
<1>3. Id(n) # Id(v)
  BY <1>1, <1>2 DEF Id
<1>4. ~ HasSeen(v, Id(n))
  BY <1>1, <1>2, <1>3 DEF HasSeen, Id
<1> QED
  BY <1>3, <1>4 DEF Ordered

----------------------------------------------------------------------------
(* What is about from one state to the next.                               *)

USE DEF vars, durable, session, history

HeldByBoth ==
  record[Connector] = record[Responder] /\ record[Connector] # NoVersion =>
    Id(record[Connector]) \in common

AliveBases == \A v \in Alive : v.base # NoBase => v.base.id \in common

LEMMA AliveTyped == TypeOK => Alive \subseteq Versions
  BY DEF TypeOK, Alive

LEMMA AliveShrinks ==
  ASSUME TypeOK, sequence' \in [Peers -> Nat], Numbered, Causal, AliveBases, Alive' \subseteq Alive,
         \A q \in Peers : sequence[q] <= sequence'[q], common \subseteq common'
  PROVE  Numbered' /\ Causal' /\ AliveBases'
<1>1. \A v \in Alive : v.peer \in Peers /\ v.seq \in Nat /\ v.seen \in [Peers -> Nat]
  BY AliveTyped DEF Versions
<1>2. \A q \in Peers : sequence[q] \in Nat /\ sequence'[q] \in Nat
  BY DEF TypeOK
<1>3. Numbered'
  <2> SUFFICES ASSUME NEW v \in Alive'
               PROVE  v.seq <= sequence'[v.peer] /\ \A p \in Peers : v.seen[p] <= sequence'[p]
    BY DEF Numbered
  <2>1. v \in Alive /\ v.seq <= sequence[v.peer] /\ \A p \in Peers : v.seen[p] <= sequence[p]
    BY DEF Numbered
  <2> QED
    BY <1>1, <1>2, <2>1
<1>4. Causal'
  BY DEF Causal, Ordered
<1>5. AliveBases'
  BY DEF AliveBases
<1> QED
  BY <1>3, <1>4, <1>5

LEMMA AliveGains ==
  ASSUME TypeOK, Numbered, Causal, AliveBases, NEW p \in Peers, NEW n, Fresh(n, p),
         Alive' \subseteq Alive \cup {n},
         sequence' = [sequence EXCEPT ![p] = @ + 1], common' = common
  PROVE  Numbered' /\ Causal' /\ AliveBases' /\ n \notin Alive
<1>1. Alive \subseteq Versions /\ n \in Versions
  BY AliveTyped DEF Fresh
<1>2. \A q \in Peers : sequence[q] \in Nat /\ sequence'[q] \in Nat /\ sequence[q] <= sequence'[q]
  BY DEF TypeOK
<1>3. sequence'[p] = sequence[p] + 1
  BY DEF TypeOK
<1>4. \A v \in Alive : Ordered(n, v) /\ Ordered(v, n) /\ Id(n) # Id(v)
  BY <1>1, FreshOrdered DEF TypeOK
<1>5. Numbered'
  <2> SUFFICES ASSUME NEW v \in Alive'
               PROVE  v.seq <= sequence'[v.peer] /\ \A q \in Peers : v.seen[q] <= sequence'[q]
    BY DEF Numbered
  <2>1. v.peer \in Peers /\ v.seq \in Nat /\ \A q \in Peers : v.seen[q] \in Nat
    BY <1>1 DEF Versions
  <2>2. CASE v \in Alive
    BY <1>2, <2>1, <2>2 DEF Numbered
  <2>3. CASE v = n
    BY <1>2, <1>3, <2>1, <2>3 DEF Fresh
  <2> QED
    BY <2>2, <2>3
<1>6. Causal'
  <2> SUFFICES ASSUME NEW v \in Alive', NEW w \in Alive' PROVE Ordered(v, w)
    BY DEF Causal, Ordered, HasSeen, Id
  <2>1. CASE v \in Alive /\ w \in Alive
    BY <2>1 DEF Causal
  <2>2. CASE v = n /\ w = n
    BY <2>2 DEF Ordered
  <2> QED
    BY <1>4, <2>1, <2>2
<1>7. AliveBases'
  BY DEF AliveBases, Fresh
<1> QED
  BY <1>4, <1>5, <1>6, <1>7

(* What a rescan does.                                                     *)
LEMMA RescanStep ==
  ASSUME ConvergeInv, NEW p \in Peers, Rescan(p), plan' \in {plan, NoPlan}, common' = common
  PROVE  /\ record' \in [Peers -> Versions \cup {NoVersion}] /\ sequence' \in [Peers -> Nat]
         /\ Numbered' /\ Causal' /\ AliveBases' /\ HeldByBoth'
<1> USE DEF ConvergeInv
<1>1. PICK time \in Times :
        /\ record' = [record EXCEPT ![p] = Scan(p, time)]
        /\ sequence' = [sequence EXCEPT ![p] = IF record'[p] = record[p] THEN @ ELSE @ + 1]
  BY DEF Rescan
<1>2. record \in [Peers -> Versions \cup {NoVersion}] /\ sequence \in [Peers -> Nat]
      /\ \A q \in Peers : sequence[q] \in Nat
  BY DEF TypeOK
<1>3. AliveBases /\ HeldByBoth
  BY DEF BasesHeld, AliveBases, HeldByBoth
<1>4. plan'.record \in {plan.record, NoVersion}
  BY DEF NoPlan, Outcome
<1>5. CASE record'[p] = record[p]
  <2>1. record' = record /\ sequence' = sequence
    BY <1>1, <1>2, <1>5
  <2>2. Alive' \subseteq Alive
    BY <1>4, <2>1 DEF Alive
  <2>3. Numbered' /\ Causal' /\ AliveBases'
    BY <1>2, <1>3, <2>1, <2>2, AliveShrinks
  <2> QED
    BY <1>2, <1>3, <2>1, <2>3 DEF HeldByBoth
<1>6. CASE record'[p] # record[p]
  <2> DEFINE n == Successor(p, sequence[p] + 1, time, record[p], head[p], disk[p])
  <2>1. record' = [record EXCEPT ![p] = n]
    BY <1>1, <1>2, <1>6 DEF Scan
  <2>2. Fresh(n, p)
    BY SuccessorFresh
  <2> HIDE DEF n
  <2>3. sequence' = [sequence EXCEPT ![p] = @ + 1]
    BY <1>1, <1>6
  <2>4. Alive' \subseteq Alive \cup {n}
    BY <1>2, <1>4, <2>1 DEF Alive
  <2>5. Numbered' /\ Causal' /\ AliveBases' /\ n \notin Alive
    BY <1>3, <2>2, <2>3, <2>4, AliveGains
  <2>6. record' \in [Peers -> Versions \cup {NoVersion}] /\ sequence' \in [Peers -> Nat]
    BY <1>2, <2>1, <2>2, <2>3 DEF Fresh
  <2>7. HeldByBoth'
    <3>1. PICK q \in Peers : q # p /\ Peers = {p, q}
      BY EndsAre
    <3>2. record'[p] = n /\ record'[q] = record[q] /\ (record[q] = NoVersion \/ record[q] \in Alive)
      BY <1>2, <2>1, <3>1 DEF Alive
    <3>3. n # NoVersion
      BY <2>2, TwoEnds DEF Fresh
    <3>4. record'[p] # record'[q]
      BY <2>5, <3>2, <3>3
    <3> QED
      BY <3>1, <3>4, EndsAre DEF HeldByBoth
  <2> QED
    BY <2>5, <2>6, <2>7
<1> QED
  BY <1>5, <1>6

(* A step that makes no version: the ends hold and plan what was about.    *)
LEMMA QuietStep ==
  ASSUME ConvergeInv, record' = record, plan' \in {plan, NoPlan},
         sequence' = sequence, common' = common
  PROVE  Numbered' /\ Causal' /\ AliveBases' /\ HeldByBoth'
<1> USE DEF ConvergeInv
<1>1. AliveBases /\ HeldByBoth /\ plan'.record \in {plan.record, NoVersion}
  BY DEF BasesHeld, AliveBases, HeldByBoth, NoPlan, Outcome
<1>2. Alive' \subseteq Alive
  BY <1>1 DEF Alive
<1>3. Numbered' /\ Causal' /\ AliveBases'
  BY <1>1, <1>2, AliveShrinks DEF TypeOK
<1> QED
  BY <1>1, <1>3 DEF HeldByBoth

(* What every step but MakePlan leaves of the plan.                        *)
LEMMA PlanStays ==
  ASSUME ConvergeInv, plan' \in {plan, NoPlan}, common \subseteq common'
  PROVE  /\ plan'.record \in Versions \cup {NoVersion} /\ MergePlanned'
         /\ plan'.merge # NoMerge => plan'.merge.base.id \in common'
<1>1. plan'.record \in Versions \cup {NoVersion}
  BY DEF ConvergeInv, TypeOK, NoPlan, Outcome
<1>2. CASE plan' = plan
  BY <1>1, <1>2 DEF ConvergeInv, MergePlanned, IsMerged, PermittedMerge, BaseShared
<1>3. CASE plan' = NoPlan
  <2>1. plan'.merge = NoMerge
    BY <1>3 DEF NoPlan, Outcome
  <2> QED
    BY <1>1, <2>1 DEF MergePlanned, IsMerged
<1> QED
  BY <1>2, <1>3

LEMMA InvFrom ==
  ASSUME TypeOK', Numbered', Causal', AliveBases', HeldByBoth', MergePlanned',
         \A p \in Peers : head'[p] # NoBase => head'[p].id \in common',
         plan'.merge # NoMerge => plan'.merge.base.id \in common'
  PROVE  ConvergeInv'
  BY DEF ConvergeInv, BasesHeld, AliveBases, HeldByBoth, BaseShared

LEMMA EditEntries ==
  ASSUME disk \in [Peers -> Entries], NEW p \in Peers, NEW e \in Edits, NEW replaces \in BOOLEAN
  PROVE  [kind |-> "file",
          content |-> {e} \cup (IF replaces THEN {} ELSE disk[p].content)] \in Entries
<1>1. disk[p].content \subseteq Edits
  BY DEF Entries, Contents, Absent, Directory
<1> QED
  BY <1>1 DEF Entries, Contents

LEMMA UsersStep ==
  ASSUME ConvergeInv,
         \/ \E p \in Peers, e \in Edits, replaces \in BOOLEAN : Edit(p, e, replaces)
         \/ \E p \in Peers, e \in Edits, entry \in {Absent, Directory} : Remove(p, e, entry)
  PROVE  ConvergeInv'
<1>1. UNCHANGED <<record, sequence, head, plan, common>>
  BY DEF Edit, Remove
<1>2. disk' \in [Peers -> Entries]
  <2>1. CASE \E p \in Peers, e \in Edits, replaces \in BOOLEAN : Edit(p, e, replaces)
    BY <2>1, EditEntries DEF Edit, Give, ConvergeInv, TypeOK
  <2>2. CASE \E p \in Peers, e \in Edits, entry \in {Absent, Directory} : Remove(p, e, entry)
    <3>1. Absent \in Entries /\ Directory \in Entries
      BY DEF Entries
    <3> QED
      BY <2>2, <3>1 DEF Remove, Give, ConvergeInv, TypeOK
  <2> QED
    BY <2>1, <2>2
<1>3. Numbered' /\ Causal' /\ AliveBases' /\ HeldByBoth'
  BY <1>1, QuietStep
<1>4. MergePlanned' /\ (plan'.merge # NoMerge => plan'.merge.base.id \in common')
  BY <1>1, PlanStays
<1>5. TypeOK' /\ \A p \in Peers : head'[p] # NoBase => head'[p].id \in common'
  BY <1>1, <1>2 DEF ConvergeInv, TypeOK, BaseShared
<1> QED
  BY <1>3, <1>4, <1>5, InvFrom

LEMMA RescanSteps ==
  ASSUME ConvergeInv, NEW p \in Peers, Rescan(p), plan' \in {plan, NoPlan},
         UNCHANGED <<disk, head, common>>
  PROVE  ConvergeInv'
<1>1. /\ record' \in [Peers -> Versions \cup {NoVersion}] /\ sequence' \in [Peers -> Nat]
      /\ Numbered' /\ Causal' /\ AliveBases' /\ HeldByBoth'
  BY RescanStep
<1>2. /\ plan'.record \in Versions \cup {NoVersion} /\ MergePlanned'
      /\ plan'.merge # NoMerge => plan'.merge.base.id \in common'
  BY PlanStays
<1>3. TypeOK' /\ \A q \in Peers : head'[q] # NoBase => head'[q].id \in common'
  BY <1>1, <1>2 DEF ConvergeInv, TypeOK, BaseShared
<1> QED
  BY <1>1, <1>2, <1>3, InvFrom

LEMMA PlanStep == ConvergeInv /\ MakePlan => ConvergeInv'
<1> SUFFICES ASSUME ConvergeInv, MakePlan PROVE ConvergeInv'
  OBVIOUS
<1> DEFINE v == record[Connector]
           w == record[Responder]
           d == Decide(v, w)
<1>0. Decision = d
  BY DEF Decision
<1>1. v \in Versions \cup {NoVersion} /\ w \in Versions \cup {NoVersion}
  BY EndsAre, TwoEnds DEF ConvergeInv, TypeOK
<1>2. /\ d.record \in {v, w}
      /\ d.merge # NoMerge =>
           /\ v \in Versions /\ w \in Versions
           /\ d.merge.winner \in {v, w} /\ d.merge.loser \in {v, w}
           /\ d.merge.base = d.merge.winner.base /\ d.merge.base # NoBase
  BY <1>1, DecideFrom
<1>3. UNCHANGED <<disk, record, head, common>>
  BY DEF MakePlan
<1>4. AliveBases /\ HeldByBoth
  BY DEF ConvergeInv, BasesHeld, AliveBases, HeldByBoth
<1> HIDE DEF d
<1>5. CASE d.merge = NoMerge
  <2>1. plan' = d /\ sequence' = sequence
    BY <1>0, <1>5 DEF MakePlan
  <2>2. Alive' \subseteq Alive
    BY <1>2, <1>3, <2>1, EndsAre DEF Alive
  <2>3. Numbered' /\ Causal' /\ AliveBases'
    BY <1>3, <1>4, <2>1, <2>2, AliveShrinks DEF ConvergeInv, TypeOK
  <2>4. HeldByBoth' /\ MergePlanned'
    BY <1>3, <1>4, <1>5, <2>1 DEF HeldByBoth, MergePlanned, IsMerged
  <2>5. TypeOK' /\ \A q \in Peers : head'[q] # NoBase => head'[q].id \in common'
    BY <1>1, <1>2, <1>3, <2>1 DEF ConvergeInv, TypeOK, BaseShared
  <2> QED
    BY <1>5, <2>1, <2>3, <2>4, <2>5, InvFrom
<1>6. CASE d.merge # NoMerge
  <2> DEFINE m == d.merge
             version(content) == Merged(Connector, sequence[Connector] + 1, m, content)
  <2>1. /\ v \in Alive \cap Versions /\ w \in Alive \cap Versions
        /\ m.winner \in Alive \cap Versions /\ m.loser \in Alive \cap Versions
    BY <1>1, <1>2, <1>6, EndsAre, TwoEnds DEF Alive
  <2>2. m.base = m.winner.base /\ m.base # NoBase /\ m.base.id \in common
    BY <1>2, <1>4, <1>6, <2>1 DEF AliveBases
  <2>3. sequence' = [sequence EXCEPT ![Connector] = IF IsMerged(plan') THEN @ + 1 ELSE @]
    BY <1>0, <1>6 DEF MakePlan
  <2>4. /\ m.base.entry.content \subseteq Edits
        /\ m.winner.entry.content \subseteq Edits /\ m.loser.entry.content \subseteq Edits
    <3>1. m.winner.entry \in Entries /\ m.loser.entry \in Entries /\ m.base.entry \in Entries
      BY <2>1, <2>2 DEF Versions, Bases
    <3> QED
      BY <3>1 DEF Entries, Contents, Absent, Directory
  <2>5. /\ plan'.merge = m
        /\ \/ plan'.record = m.winner
           \/ \E content \in Contents : plan'.record = version(content)
    <3>1. ThreeWay(m.base.entry.content, m.winner.entry.content, m.loser.entry.content) \in Contents
          /\ m.winner.entry.content \in Contents
      BY <2>4 DEF ThreeWay, Contents
    <3>2. Materialize(d)
      BY <1>0, <1>6 DEF MakePlan
    <3> QED
      BY <3>1, <3>2 DEF Materialize, Outcome
  <2> HIDE DEF m
  <2>6. /\ \A q \in Peers : head'[q] # NoBase => head'[q].id \in common'
        /\ plan'.merge.base.id \in common'
    BY <1>3, <2>2, <2>5 DEF ConvergeInv, BaseShared
  <2>7. HeldByBoth'
    BY <1>3, <1>4 DEF HeldByBoth
  <2>8. CASE plan'.record = m.winner
    <3>1. sequence' = sequence /\ ~ IsMerged(plan')
      BY <2>3, <2>5, <2>8 DEF IsMerged, ConvergeInv, TypeOK
    <3>2. Alive' \subseteq Alive
      BY <1>3, <2>1, <2>8 DEF Alive
    <3>3. Numbered' /\ Causal' /\ AliveBases'
      BY <1>3, <1>4, <3>1, <3>2, AliveShrinks DEF ConvergeInv, TypeOK
    <3>4. TypeOK' /\ MergePlanned'
      BY <1>3, <2>1, <2>8, <3>1 DEF ConvergeInv, TypeOK, MergePlanned
    <3> QED
      BY <2>6, <2>7, <3>3, <3>4, InvFrom
  <2>9. ASSUME NEW content \in Contents, plan'.record = version(content)
        PROVE  ConvergeInv'
    <3> DEFINE n == version(content)
    <3>1. Fresh(n, Connector) /\ PermittedMerge(n, m, Connector)
      BY <2>1, <2>2, MergedFresh DEF ConvergeInv
    <3> HIDE DEF n
    <3>2. n # m.winner
      BY <2>1, <3>1, FreshOrdered, TwoEnds DEF ConvergeInv, TypeOK
    <3>3. IsMerged(plan') /\ sequence' = [sequence EXCEPT ![Connector] = @ + 1]
      <4>1. m # NoMerge
        BY <1>6 DEF m
      <4>2. plan'.record = n
        BY <2>9 DEF n
      <4>3. IsMerged(plan')
        BY <2>5, <3>2, <4>1, <4>2 DEF IsMerged
      <4> QED
        BY <2>3, <4>3
    <3>4. Alive' \subseteq Alive \cup {n}
      BY <1>3, <2>9 DEF Alive, n
    <3>5. Numbered' /\ Causal' /\ AliveBases'
      BY <1>3, <1>4, <3>1, <3>3, <3>4, AliveGains, TwoEnds DEF ConvergeInv
    <3>6. plan'.record = n
      BY <2>9 DEF n
    <3>7. TypeOK'
      BY <1>3, <3>1, <3>3, <3>6, TwoEnds DEF ConvergeInv, TypeOK, Fresh
    <3>8. MergePlanned'
      BY <2>5, <3>1, <3>6 DEF MergePlanned
    <3> QED
      BY <2>6, <2>7, <3>5, <3>7, <3>8, InvFrom
  <2> QED
    BY <2>5, <2>8, <2>9
<1> QED
  BY <1>5, <1>6

(* An end installs the plan, or keeps its record.                          *)
LEMMA InstallStep ==
  ASSUME ConvergeInv, NEW p \in Peers, Install(p), UNCHANGED <<sequence, plan>>
  PROVE  /\ record' \in [Peers -> Versions \cup {NoVersion}] /\ disk' \in [Peers -> Entries]
         /\ Numbered' /\ Causal' /\ AliveBases' /\ HeldByBoth' /\ common \subseteq common'
<1> DEFINE e == Effective(p)
<1>1. record \in [Peers -> Versions \cup {NoVersion}] /\ disk \in [Peers -> Entries]
      /\ plan.record \in Versions \cup {NoVersion}
  BY DEF ConvergeInv, TypeOK
<1>2. e.record \in {record[p], plan.record}
  BY DEF Effective, Outcome
<1>3. PICK r \in {record[p], plan.record} : record' = [record EXCEPT ![p] = r]
  BY <1>2 DEF Install
<1>4. /\ \/ disk' = disk
         \/ disk' = [disk EXCEPT ![p] = RecordedEntry(e.record)]
      /\ common' = IF record'[Connector] = record'[Responder] /\ record'[p] # NoVersion
                     THEN common \cup {Id(record'[p])} ELSE common
  BY DEF Install
<1>5. disk' \in [Peers -> Entries]
  BY <1>1, <1>2, <1>4, EntryTypes
<1>6. record' \in [Peers -> Versions \cup {NoVersion}]
  BY <1>1, <1>3
<1>7. common \subseteq common' /\ Alive' \subseteq Alive
  BY <1>1, <1>3, <1>4 DEF Alive
<1>8. Numbered' /\ Causal' /\ AliveBases'
  BY <1>7, AliveShrinks DEF ConvergeInv, TypeOK, BasesHeld, AliveBases
<1>9. HeldByBoth'
  BY <1>4, EndsAre DEF HeldByBoth
<1> QED
  BY <1>5, <1>6, <1>7, <1>8, <1>9

(* Both acknowledge only what both hold.                                   *)
LEMMA AcknowledgeStep ==
  ASSUME ConvergeInv, NEW p \in Peers, Acknowledge(p, record'), HeldByBoth',
         record' \in [Peers -> Versions \cup {NoVersion}], common \subseteq common'
  PROVE  /\ head' \in [Peers -> Bases]
         /\ \A q \in Peers : head'[q] # NoBase => head'[q].id \in common'
<1>1. PICK base : /\ head' = [head EXCEPT ![p] = base]
                  /\ \/ base = NoBase
                     \/ /\ record'[Connector] = record'[Responder] /\ record'[p] # NoVersion
                        /\ base = AsBase(record'[p])
  BY DEF Acknowledge
<1>2. head \in [Peers -> Bases] /\ \A q \in Peers : head[q] # NoBase => head[q].id \in common
  BY DEF ConvergeInv, TypeOK, BaseShared
<1>3. base \in Bases /\ (base # NoBase => base.id \in common')
  <2>1. CASE base = NoBase
    BY <2>1 DEF Bases
  <2>2. CASE base # NoBase
    <3>1. record'[p] \in Versions /\ base = AsBase(record'[p])
          /\ record'[p] = record'[Connector] /\ record'[Connector] = record'[Responder]
      BY <1>1, <2>2, EndsAre
    <3>2. Id(record'[p]) \in common'
      BY <1>1, <2>2, <3>1 DEF HeldByBoth
    <3> QED
      BY <2>2, <3>1, <3>2, AsBaseType
  <2> QED
    BY <2>1, <2>2
<1> QED
  BY <1>1, <1>2, <1>3

LEMMA ApplySteps == ConvergeInv /\ (ResponderApplies \/ ConnectorApplies) => ConvergeInv'
<1> SUFFICES ASSUME ConvergeInv, ResponderApplies \/ ConnectorApplies PROVE ConvergeInv'
  OBVIOUS
<1>1. PICK p \in Peers : Install(p)
  BY EndsAre, TwoEnds DEF ResponderApplies, ConnectorApplies
<1>2. UNCHANGED <<sequence, plan>>
  BY DEF ResponderApplies, ConnectorApplies
<1>3. /\ record' \in [Peers -> Versions \cup {NoVersion}] /\ disk' \in [Peers -> Entries]
      /\ Numbered' /\ Causal' /\ AliveBases' /\ HeldByBoth' /\ common \subseteq common'
  BY <1>1, <1>2, InstallStep
<1>4. /\ head' \in [Peers -> Bases]
      /\ \A q \in Peers : head'[q] # NoBase => head'[q].id \in common'
  <2>1. CASE ResponderApplies
    BY <1>3, <2>1 DEF ResponderApplies, ConvergeInv, TypeOK, BaseShared
  <2>2. CASE ConnectorApplies
    <3>1. Acknowledge(Connector, record')
      BY <2>2 DEF ConnectorApplies
    <3> QED
      BY <1>3, <3>1, AcknowledgeStep, TwoEnds
  <2> QED
    BY <2>1, <2>2
<1>5. /\ plan'.record \in Versions \cup {NoVersion} /\ MergePlanned'
      /\ plan'.merge # NoMerge => plan'.merge.base.id \in common'
  BY <1>2, <1>3, PlanStays
<1>6. TypeOK'
  BY <1>2, <1>3, <1>4, <1>5 DEF ConvergeInv, TypeOK
<1> QED
  BY <1>3, <1>4, <1>5, <1>6, InvFrom

LEMMA FinishStep == ConvergeInv /\ ResponderFinishes => ConvergeInv'
<1> SUFFICES ASSUME ConvergeInv, ResponderFinishes PROVE ConvergeInv'
  OBVIOUS
<1>1. UNCHANGED <<disk, record, sequence, common>> /\ plan' = NoPlan
  BY DEF ResponderFinishes, Close
<1>2. Numbered' /\ Causal' /\ AliveBases' /\ HeldByBoth'
  BY <1>1, QuietStep
<1>3. Acknowledge(Responder, record')
  BY <1>1 DEF ResponderFinishes, Acknowledge
<1>4. /\ head' \in [Peers -> Bases]
      /\ \A q \in Peers : head'[q] # NoBase => head'[q].id \in common'
  BY <1>1, <1>2, <1>3, AcknowledgeStep, EndsAre DEF ConvergeInv, TypeOK
<1>5. /\ plan'.record \in Versions \cup {NoVersion} /\ MergePlanned'
      /\ plan'.merge # NoMerge => plan'.merge.base.id \in common'
  BY <1>1, PlanStays
<1>6. TypeOK'
  BY <1>1, <1>4, <1>5 DEF ConvergeInv, TypeOK
<1> QED
  BY <1>2, <1>4, <1>5, <1>6, InvFrom

LEMMA BreakStep ==
  ASSUME ConvergeInv, UNCHANGED <<disk, durable, common>>, plan' \in {plan, NoPlan}
  PROVE  ConvergeInv'
<1>1. Numbered' /\ Causal' /\ AliveBases' /\ HeldByBoth'
  BY QuietStep
<1>2. /\ plan'.record \in Versions \cup {NoVersion} /\ MergePlanned'
      /\ plan'.merge # NoMerge => plan'.merge.base.id \in common'
  BY PlanStays
<1>3. TypeOK' /\ \A p \in Peers : head'[p] # NoBase => head'[p].id \in common'
  BY <1>2 DEF ConvergeInv, TypeOK, BaseShared
<1> QED
  BY <1>1, <1>2, <1>3, InvFrom

----------------------------------------------------------------------------
(* The invariant, and what follows from it.                                *)

LEMMA InitInv == Init => ConvergeInv
<1> SUFFICES ASSUME Init PROVE ConvergeInv
  OBVIOUS
<1>1. plan = NoPlan /\ plan.record = NoVersion /\ plan.merge = NoMerge
  BY DEF Init, NoPlan, Outcome
<1>2. Alive = {}
  BY <1>1 DEF Init, Alive
<1>3. TypeOK
  BY <1>1, EntryTypes DEF Init, TypeOK, Bases
<1>4. record[Connector] = NoVersion
  BY TwoEnds DEF Init
<1>5. Numbered /\ Causal /\ BasesHeld /\ BaseShared /\ MergePlanned
  BY <1>1, <1>2, <1>4 DEF Init, Numbered, Causal, BasesHeld, BaseShared, MergePlanned, IsMerged
<1> QED
  BY <1>3, <1>5 DEF ConvergeInv

LEMMA NextInv == ConvergeInv /\ [Next]_vars => ConvergeInv'
<1> SUFFICES ASSUME ConvergeInv, [Next]_vars PROVE ConvergeInv'
  OBVIOUS
<1>1. CASE \/ \E p \in Peers, e \in Edits, replaces \in BOOLEAN : Edit(p, e, replaces)
           \/ \E p \in Peers, e \in Edits, entry \in {Absent, Directory} : Remove(p, e, entry)
  BY <1>1, UsersStep
<1>2. CASE \E p \in Peers : Refresh(p)
  <2>1. PICK p \in Peers : Rescan(p)
    BY <1>2 DEF Refresh
  <2>2. UNCHANGED <<disk, head, common, plan>>
    BY <1>2 DEF Refresh
  <2> QED
    BY <2>1, <2>2, RescanSteps
<1>3. CASE MakePlan
  BY <1>3, PlanStep
<1>4. CASE ResponderApplies \/ ConnectorApplies
  BY <1>4, ApplySteps
<1>5. CASE ResponderInvalidates \/ ConnectorInvalidates
  <2>1. PICK p \in Peers : Invalidate(p)
    BY <1>5, EndsAre, TwoEnds DEF ResponderInvalidates, ConnectorInvalidates
  <2>2. Rescan(p) /\ plan' = NoPlan /\ UNCHANGED <<disk, head, common>>
    BY <2>1 DEF Invalidate, Close
  <2> QED
    BY <2>2, RescanSteps
<1>6. CASE ResponderFinishes
  BY <1>6, FinishStep
<1>7. CASE Break
  <2>1. UNCHANGED <<disk, durable, common>> /\ plan' = NoPlan
    BY <1>7 DEF Break, Close
  <2> QED
    BY <2>1, BreakStep
<1>8. CASE UNCHANGED vars
  BY <1>8, BreakStep
<1> QED
  BY <1>1, <1>2, <1>3, <1>4, <1>5, <1>6, <1>7, <1>8, Zenon DEF Next, RoundStep

(* The inductive invariant: identities are of one version each, and no two *)
(* versions have seen each other, whatever the users and the lines do.     *)
THEOREM Invariance == Spec => []ConvergeInv
  BY InitInv, NextInv, PTL DEF Spec

(* Types, for any edits, clocks and breaks.                                *)
THEOREM TypeCorrect == Spec => []TypeOK
<1>1. ConvergeInv => TypeOK
  BY DEF ConvergeInv
<1> QED
  BY <1>1, Invariance, PTL

(* Merges start from what both ends have held (BaseShared), whichever      *)
(* acknowledgements were lost.                                             *)
THEOREM BasesAreShared == Spec => []BaseShared
<1>1. ConvergeInv => BaseShared
  BY DEF ConvergeInv
<1> QED
  BY <1>1, Invariance, PTL

(* The responder's own computation agrees with the connector's plan        *)
(* (PlanAccepted): no round is refused because the roles are exchanged,    *)
(* for any histories of the two ends.                                      *)
THEOREM PlansAreAccepted == Spec => []PlanAccepted
<1>1. ConvergeInv => PlanAccepted
  <2> SUFFICES ASSUME ConvergeInv PROVE PlanAccepted
    OBVIOUS
  <2>1. /\ record[Connector] \in Versions \cup {NoVersion}
        /\ record[Responder] \in Versions \cup {NoVersion}
    BY EndsAre, TwoEnds DEF ConvergeInv, TypeOK
  <2>2. record[Connector] # NoVersion /\ record[Responder] # NoVersion =>
          Ordered(record[Connector], record[Responder])
    BY EndsAre, TwoEnds DEF ConvergeInv, Causal, Alive
  <2>3. Decide(record[Connector], record[Responder]) = Decide(record[Responder], record[Connector])
    BY <2>1, <2>2, DecideSymmetric
  <2> QED
    BY <2>3 DEF ConvergeInv, MergePlanned, PlanAccepted, Decision
<1> QED
  BY <1>1, Invariance, PTL
----------------------------------------------------------------------------
(* Versions that an end has moved on from.                                 *)

(* They are numbered, and there are none before the first record.          *)
PastNumbered ==
  \A p \in Peers :
    /\ \A id \in past[p] : id \in Ids /\ id.seq <= sequence[id.peer]
    /\ record[p] = NoVersion => past[p] = {}

(* If the other end still holds such a version, what the end holds now has *)
(* seen it.                                                                *)
MovedOn ==
  \A p, q \in Peers :
    record[q] # NoVersion /\ Id(record[q]) \in past[p] => HasSeen(record[p], Id(record[q]))

(* A merged version that neither end has installed.                        *)
NewMerge(n) ==
  /\ n # NoVersion /\ Id(n) \in orphans
  /\ \A p \in Peers :
       record[p] # NoVersion /\ Id(n) \notin past[p] /\ HasSeen(n, Id(record[p]))

(* p keeps its record, and q does not go back to it.                       *)
Adopts(p, q) ==
  /\ plan.record = record[p]
  /\ record[p] # NoVersion \/ record[q] = NoVersion
  /\ record[p] # NoVersion /\ Id(record[p]) \in past[q] => record[p] = record[q]

(* What a round can ask of the ends that have not applied its plan yet.    *)
PlanForm ==
  /\ round = "planned" =>
       NewMerge(plan.record) \/ Adopts(Connector, Responder) \/ Adopts(Responder, Connector)
  /\ round = "applied" /\ cycle # "deferred" =>
       \/ plan.record = record[Connector]
       \/ /\ plan.record = record[Responder] /\ record[Responder] # NoVersion
          /\ Id(record[Responder]) \notin past[Connector]

PastTyped == past \in [Peers -> SUBSET Ids]

PastInv == PastTyped /\ PastNumbered /\ MovedOn
HistoryInv == PastInv /\ PlanForm

(* No end goes back.                                                       *)
NoneGoesBack ==
  \A p \in Peers :
    record'[p] \notin {record[p], NoVersion} => Id(record'[p]) \notin past[p]

LEMMA Numbers ==
  ASSUME ConvergeInv
  PROVE  /\ sequence \in [Peers -> Nat] /\ record \in [Peers -> Versions \cup {NoVersion}]
         /\ \A p \in Peers : record[p] # NoVersion =>
              record[p] \in Versions /\ record[p] \in Alive /\ Id(record[p]) \in Ids
              /\ record[p].seq <= sequence[record[p].peer]
<1>1. TypeOK /\ Numbered
  BY DEF ConvergeInv
<1>2. \A p \in Peers : record[p] # NoVersion => record[p] \in Alive /\ record[p] \in Versions
  BY <1>1 DEF Alive, TypeOK
<1>3. \A v \in Versions : Id(v) \in Ids
  BY DEF Versions, Id, Ids
<1> QED
  BY <1>1, <1>2, <1>3 DEF Numbered, TypeOK

(* An end moves on to r: what this asks of r.                              *)
LEMMA MovingOn ==
  ASSUME ConvergeInv, PastInv, NEW p \in Peers, NEW q \in Peers, p # q, Peers = {p, q},
         NEW r, record' = [record EXCEPT ![p] = r], MovesOn(p),
         sequence' \in [Peers -> Nat], \A o \in Peers : sequence[o] <= sequence'[o],
         r # record[p] => r # NoVersion /\ Id(r) \notin past[p],
         r # record[p] => Id(r) \notin past[q] \/ r = record[q],
         r # record[p] /\ record[q] # NoVersion /\ record[p] # NoVersion
           /\ HasSeen(record[p], Id(record[q])) => HasSeen(r, Id(record[q]))
  PROVE  PastInv' /\ NoneGoesBack
<1> DEFINE old == record[p]
<1>1. record'[p] = r /\ record'[q] = record[q] /\ past \in [Peers -> SUBSET Ids]
      /\ sequence \in [Peers -> Nat]
  BY Numbers DEF PastInv, PastTyped
<1>2. \A v : HasSeen(v, Id(v))
  BY DEF HasSeen
<1>3. NoneGoesBack
  BY <1>1 DEF NoneGoesBack
<1>4. CASE r = old \/ old = NoVersion
  <2>1. past' = past
    BY <1>1, <1>4 DEF MovesOn
  <2>2. PastNumbered'
    <3> SUFFICES ASSUME NEW o \in Peers
                 PROVE  /\ \A id \in past[o] : id \in Ids /\ id.seq <= sequence'[id.peer]
                        /\ record'[o] = NoVersion => past[o] = {}
      BY <2>1 DEF PastNumbered
    <3>1. \A id \in past[o] : id.peer \in Peers /\ id.seq \in Nat /\ id \in Ids
      BY <1>1 DEF Ids
    <3>2. \A id \in past[o] : id.seq <= sequence[id.peer]
      BY DEF PastInv, PastNumbered
    <3>3. \A id \in past[o] : id.seq <= sequence'[id.peer]
      BY <1>1, <3>1, <3>2
    <3>4. record'[o] = NoVersion => record[o] = NoVersion
      BY <1>1
    <3>5. record[o] = NoVersion => past[o] = {}
      BY DEF PastInv, PastNumbered
    <3> QED
      BY <3>1, <3>3, <3>4, <3>5
  <2>3. MovedOn'
    <3>1. old = NoVersion => past[p] = {}
      BY DEF PastInv, PastNumbered
    <3>2. record[q] # NoVersion /\ Id(record[q]) \in past[p] => HasSeen(old, Id(record[q]))
      BY DEF PastInv, MovedOn
    <3>3. old # NoVersion /\ Id(old) \in past[q] => HasSeen(record[q], Id(old))
      BY DEF PastInv, MovedOn
    <3>4. record[q] # NoVersion /\ Id(record[q]) \in past[p] => HasSeen(r, Id(record[q]))
      BY <1>4, <3>1, <3>2
    <3>5. r # NoVersion /\ Id(r) \in past[q] => HasSeen(record[q], Id(r))
      BY <1>2, <3>3
    <3> QED
      BY <1>1, <1>2, <2>1, <3>4, <3>5 DEF MovedOn
  <2> QED
    BY <1>1, <1>3, <2>1, <2>2, <2>3 DEF PastInv, PastTyped
<1>5. CASE r # old /\ old # NoVersion
  <2>1. past' = [past EXCEPT ![p] = past[p] \cup {Id(old)}] /\ Id(old) \in Ids
        /\ old.seq <= sequence[old.peer]
    BY <1>1, <1>5, Numbers DEF MovesOn
  <2>2. past'[p] = past[p] \cup {Id(old)} /\ past'[q] = past[q] /\ past' \in [Peers -> SUBSET Ids]
    BY <1>1, <2>1
  <2>3. PastNumbered'
    <3> SUFFICES ASSUME NEW o \in Peers
                 PROVE  /\ \A id \in past'[o] : id \in Ids /\ id.seq <= sequence'[id.peer]
                        /\ record'[o] = NoVersion => past'[o] = {}
      BY DEF PastNumbered
    <3>1. \A id \in past'[o] : id.peer \in Peers /\ id.seq \in Nat /\ id \in Ids
      BY <2>2 DEF Ids
    <3>2. \A id \in past'[o] : id.seq <= sequence[id.peer]
      BY <2>1, <2>2 DEF PastInv, PastNumbered, Id
    <3>3. \A id \in past'[o] : id.seq <= sequence'[id.peer]
      BY <1>1, <3>1, <3>2
    <3>4. record'[o] = NoVersion => past'[o] = {}
      BY <1>1, <1>5, <2>2 DEF PastInv, PastNumbered
    <3> QED
      BY <3>1, <3>3, <3>4
  <2>4. MovedOn'
    <3>1. record[q] # NoVersion /\ Id(record[q]) \in past[p] => HasSeen(old, Id(record[q]))
      BY DEF PastInv, MovedOn
    <3>2. record[q] # NoVersion /\ Id(record[q]) = Id(old) => HasSeen(old, Id(record[q]))
      BY DEF HasSeen
    <3>3. record[q] # NoVersion /\ Id(record[q]) \in past'[p] => HasSeen(r, Id(record[q]))
      BY <1>5, <2>2, <3>1, <3>2
    <3>4. r # NoVersion /\ Id(r) \in past[q] => HasSeen(record[q], Id(r))
      BY <1>2, <1>5
    <3> QED
      BY <1>1, <1>2, <2>2, <3>3, <3>4 DEF MovedOn
  <2> QED
    BY <1>3, <2>2, <2>3, <2>4 DEF PastInv, PastTyped
<1> QED
  BY <1>4, <1>5

(* A successor has seen what its predecessor had.                          *)
LEMMA SuccessorSees ==
  ASSUME NEW p, NEW seq, NEW time, NEW old \in Versions, NEW base, NEW entry, NEW w \in Versions,
         HasSeen(old, Id(w))
  PROVE  HasSeen(Successor(p, seq, time, old, base, entry), Id(w))
<1> DEFINE n == Successor(p, seq, time, old, base, entry)
<1>1. CASE old = NoVersion
  BY <1>1, TwoEnds
<1>2. CASE old # NoVersion
  <2>1. n.seen = Remember(old.seen, Id(old))
    BY <1>2 DEF Successor
  <2>2. /\ old.seen \in [Peers -> Nat] /\ old.seq \in Nat /\ old.peer \in Peers
        /\ w.peer \in Peers /\ w.seq \in Nat
        /\ Id(w).peer = w.peer /\ Id(w).seq = w.seq
    BY DEF Versions, Id
  <2>3. /\ n.seen[old.peer] = Larger(old.seen[old.peer], old.seq)
        /\ \A q \in Peers : q # old.peer => n.seen[q] = old.seen[q]
    BY <2>1, <2>2, RememberType
  <2>6. n = Successor(p, seq, time, old, base, entry)
    OBVIOUS
  <2> HIDE DEF n
  <2>4. CASE Id(old) = Id(w)
    <3>1. old.peer = w.peer /\ old.seq = w.seq
      BY <2>4 DEF Id
    <3>2. n.seen[w.peer] >= w.seq
      BY <2>2, <2>3, <3>1 DEF Larger
    <3> QED
      BY <2>2, <2>6, <3>2 DEF HasSeen
  <2>5. CASE old.seen[w.peer] >= w.seq
    <3>1. n.seen[w.peer] >= w.seq
      BY <2>2, <2>3, <2>5 DEF Larger
    <3> QED
      BY <2>2, <2>6, <3>1 DEF HasSeen
  <2> QED
    BY <2>2, <2>4, <2>5, <2>6 DEF HasSeen
<1> QED
  BY <1>1, <1>2

(* What a rescan makes of the record of p.                                 *)
LEMMA RescanMakes ==
  ASSUME ConvergeInv, NEW p \in Peers, Rescan(p)
  PROVE  \E n :
           /\ record' = [record EXCEPT ![p] = n] /\ MovesOn(p)
           /\ sequence' \in [Peers -> Nat] /\ \A o \in Peers : sequence[o] <= sequence'[o]
           /\ \/ n = record[p] /\ RecordedEntry(n) = disk[p]
              \/ /\ \E time \in Times :
                      n = Successor(p, sequence[p] + 1, time, record[p], head[p], disk[p])
                 /\ Fresh(n, p) /\ sequence'[p] = sequence[p] + 1
<1>1. PICK time \in Times :
        /\ record' = [record EXCEPT ![p] = Scan(p, time)]
        /\ sequence' = [sequence EXCEPT ![p] = IF record'[p] = record[p] THEN @ ELSE @ + 1]
        /\ MovesOn(p)
  BY DEF Rescan
<1>2. record \in [Peers -> Versions \cup {NoVersion}] /\ sequence \in [Peers -> Nat]
  BY Numbers
<1>3. sequence' \in [Peers -> Nat] /\ \A o \in Peers : sequence[o] <= sequence'[o]
  <2>1. sequence' \in {sequence, [sequence EXCEPT ![p] = sequence[p] + 1]}
    BY <1>1, <1>2
  <2> QED
    BY <1>2, <2>1
<1>4. CASE disk[p] = RecordedEntry(record[p])
  BY <1>1, <1>3, <1>4 DEF Scan
<1>5. CASE disk[p] # RecordedEntry(record[p])
  <2> DEFINE n == Successor(p, sequence[p] + 1, time, record[p], head[p], disk[p])
  <2>1. Scan(p, time) = n
    BY <1>5 DEF Scan
  <2>2. Fresh(n, p)
    BY SuccessorFresh DEF ConvergeInv
  <2>3. n # record[p]
    <3>1. n.seq = sequence[p] + 1 /\ n.peer = p
      BY DEF Successor
    <3>2. n # NoVersion
      BY <2>2, TwoEnds DEF Fresh
    <3> HIDE DEF n
    <3> QED
      BY <1>2, <3>1, <3>2, Numbers DEF Versions
  <2> HIDE DEF n
  <2>4. record'[p] = n /\ sequence'[p] = sequence[p] + 1
    BY <1>1, <1>2, <2>1, <2>3
  <2>5. record' = [record EXCEPT ![p] = n]
    BY <1>1, <2>1
  <2>6. n = Successor(p, sequence[p] + 1, time, record[p], head[p], disk[p])
    BY DEF n
  <2> QED
    BY <1>1, <1>3, <2>2, <2>4, <2>5, <2>6
<1> QED
  BY <1>4, <1>5

(* A fresh identity is none that an end has moved on from.                 *)
LEMMA FreshIsNew ==
  ASSUME ConvergeInv, PastInv, NEW p \in Peers, NEW n, Fresh(n, p)
  PROVE  n # NoVersion /\ \A q \in Peers : Id(n) \notin past[q]
<1>1. n.peer = p /\ n.seq = sequence[p] + 1 /\ sequence[p] \in Nat /\ Id(n).peer = p
      /\ Id(n).seq = sequence[p] + 1
  BY Numbers DEF Fresh, Id
<1>2. \A q \in Peers : Id(n) \in past[q] => Id(n).seq <= sequence[p]
  BY <1>1 DEF PastInv, PastNumbered
<1> QED
  BY <1>1, <1>2, TwoEnds DEF Fresh

LEMMA RescanPast ==
  ASSUME ConvergeInv, PastInv, NEW p \in Peers, Rescan(p)
  PROVE  PastInv' /\ NoneGoesBack
<1>1. PICK q \in Peers : q # p /\ Peers = {p, q}
  BY EndsAre
<1>2. PICK n :
           /\ record' = [record EXCEPT ![p] = n] /\ MovesOn(p)
           /\ sequence' \in [Peers -> Nat] /\ \A o \in Peers : sequence[o] <= sequence'[o]
           /\ \/ n = record[p] /\ RecordedEntry(n) = disk[p]
              \/ /\ \E time \in Times :
                      n = Successor(p, sequence[p] + 1, time, record[p], head[p], disk[p])
                 /\ Fresh(n, p) /\ sequence'[p] = sequence[p] + 1
  BY RescanMakes
<1>3. n # record[p] => n # NoVersion /\ Id(n) \notin past[p] /\ Id(n) \notin past[q]
  BY <1>2, FreshIsNew
<1>4. n # record[p] /\ record[q] # NoVersion /\ record[p] # NoVersion
        /\ HasSeen(record[p], Id(record[q])) => HasSeen(n, Id(record[q]))
  BY <1>2, Numbers, SuccessorSees
<1> QED
  BY <1>1, <1>2, <1>3, <1>4, MovingOn

(* Of two versions one of which has seen the other, that one is taken.     *)
LEMMA DecideSeen ==
  ASSUME NEW v \in Versions, NEW w \in Versions, Ordered(v, w)
  PROVE  /\ HasSeen(v, Id(w)) => Decide(v, w) = Adopt(v)
         /\ HasSeen(w, Id(v)) => Decide(v, w) = Adopt(w)
  BY TwoEnds DEF Decide, Ordered

(* A merge is one of the two versions, with a base of both.                *)
LEMMA DecideMerges ==
  ASSUME NEW v \in Versions \cup {NoVersion}, NEW w \in Versions \cup {NoVersion},
         Decide(v, w).merge # NoMerge
  PROVE  /\ v \in Versions /\ w \in Versions
         /\ {Decide(v, w).merge.winner, Decide(v, w).merge.loser} = {v, w}
         /\ Decide(v, w).merge.base = v.base /\ v.base = w.base /\ v.base # NoBase
         /\ ~ HasSeen(v, Id(w)) /\ ~ HasSeen(w, Id(v))
<1>1. \A x : Adopt(x).merge = NoMerge
  BY DEF Adopt
<1>2. Decide(v, w) = Divergent(v, w) /\ v # NoVersion /\ w # NoVersion
      /\ ~ HasSeen(v, Id(w)) /\ ~ HasSeen(w, Id(v))
  BY <1>1 DEF Decide
<1>3. SameBase(v, w)
      /\ Divergent(v, w).merge =
           [base |-> Winner(v, w).base, winner |-> Winner(v, w), loser |-> Loser(v, w)]
  BY <1>2 DEF Divergent
<1>4. \/ Winner(v, w) = v /\ Loser(v, w) = w
      \/ Winner(v, w) = w /\ Loser(v, w) = v
  BY DEF Winner, Loser
<1>5. Decide(v, w).merge.winner = Winner(v, w) /\ Decide(v, w).merge.loser = Loser(v, w)
      /\ Decide(v, w).merge.base = Winner(v, w).base
  BY <1>2, <1>3
<1>6. v.base = w.base /\ v.base # NoBase
  BY <1>3 DEF SameBase
<1> QED
  BY <1>2, <1>4, <1>5, <1>6

LEMMA RememberSees ==
  ASSUME NEW s \in [Peers -> Nat], NEW v \in Versions
  PROVE  /\ RememberVersion(s, v) \in [Peers -> Nat]
         /\ \A q \in Peers : RememberVersion(s, v)[q] >= s[q]
         /\ RememberVersion(s, v)[v.peer] >= v.seq
<1> DEFINE both == [q \in Peers |-> Larger(s[q], v.seen[q])]
<1>1. v.seen \in [Peers -> Nat] /\ v.seq \in Nat /\ v.peer \in Peers
  BY DEF Versions
<1>2. both \in [Peers -> Nat] /\ \A q \in Peers : both[q] >= s[q]
  BY <1>1 DEF Larger
<1> HIDE DEF both
<1>3. /\ Remember(both, Id(v)) \in [Peers -> Nat]
      /\ \A q \in Peers : Remember(both, Id(v))[q] >= both[q]
      /\ Remember(both, Id(v))[v.peer] >= v.seq
  <2> DEFINE after == Remember(both, Id(v))
  <2>1. /\ after \in [Peers -> Nat] /\ after[v.peer] = Larger(both[v.peer], v.seq)
        /\ \A q \in Peers : q # v.peer => after[q] = both[q]
    BY <1>1, <1>2, RememberType
  <2> HIDE DEF after
  <2>2. after[v.peer] >= v.seq /\ \A q \in Peers : after[q] >= both[q]
    BY <1>1, <1>2, <2>1 DEF Larger
  <2> QED
    BY <2>1, <2>2 DEF after
<1>5. \A q \in Peers : Remember(both, Id(v))[q] >= s[q]
  <2> DEFINE after == Remember(both, Id(v))
  <2>1. after \in [Peers -> Nat] /\ \A q \in Peers : after[q] >= both[q]
    BY <1>3
  <2> HIDE DEF after
  <2>2. ASSUME NEW q \in Peers PROVE after[q] >= s[q]
    <3>1. after[q] \in Nat /\ both[q] \in Nat /\ s[q] \in Nat
      BY <1>2, <2>1
    <3>2. after[q] >= both[q] /\ both[q] >= s[q]
      BY <1>2, <2>1
    <3> QED
      BY <3>1, <3>2
  <2> QED
    BY <2>2 DEF after
<1>6. RememberVersion(s, v) = Remember(both, Id(v))
  BY DEF RememberVersion, both
<1> QED
  BY <1>3, <1>5, <1>6

(* A merged version has seen what it was made of.                          *)
LEMMA MergedSees ==
  ASSUME NEW p, NEW seq, NEW m, NEW content, m.winner \in Versions, m.loser \in Versions,
         NEW x \in {m.winner, m.loser}
  PROVE  HasSeen(Merged(p, seq, m, content), Id(x))
<1> DEFINE n == Merged(p, seq, m, content)
           seen1 == RememberVersion(NothingSeen, m.winner)
<1>1. n.seen = RememberVersion(seen1, m.loser)
  BY DEF Merged
<1>2. /\ seen1 \in [Peers -> Nat] /\ seen1[m.winner.peer] >= m.winner.seq
      /\ m.winner.peer \in Peers /\ m.winner.seq \in Nat
  BY NothingSeenType, RememberSees DEF Versions
<1> HIDE DEF seen1
<1>3. /\ n.seen \in [Peers -> Nat] /\ \A q \in Peers : n.seen[q] >= seen1[q]
      /\ n.seen[m.loser.peer] >= m.loser.seq
  BY <1>1, <1>2, RememberSees
<1>4. n.seen[m.winner.peer] >= m.winner.seq
  <2>1. /\ n.seen[m.winner.peer] \in Nat /\ seen1[m.winner.peer] \in Nat
        /\ n.seen[m.winner.peer] >= seen1[m.winner.peer]
    BY <1>2, <1>3
  <2> QED
    BY <1>2, <2>1
<1>5. Id(x).peer = x.peer /\ Id(x).seq = x.seq
  BY DEF Id
<1> HIDE DEF n
<1>6. HasSeen(n, Id(x))
  BY <1>3, <1>4, <1>5 DEF HasSeen
<1> QED
  BY <1>6 DEF n

(* What a plan can be: a decision, or the outcome of a merge.              *)
LEMMA PlanMade ==
  ASSUME ConvergeInv, PastInv, MakePlan
  PROVE  \/ plan' = Decision /\ Decision.merge = NoMerge /\ sequence' = sequence
            /\ orphans' = orphans
         \/ /\ Decision.merge # NoMerge /\ Materialize(Decision)
            /\ plan'.record = Decision.merge.winner /\ sequence' = sequence
            /\ orphans' = orphans
         \/ /\ Decision.merge # NoMerge /\ Materialize(Decision)
            /\ \E content \in Contents :
                 plan'.record = Merged(Connector, sequence[Connector] + 1, Decision.merge, content)
            /\ Fresh(plan'.record, Connector)
            /\ sequence' = [sequence EXCEPT ![Connector] = @ + 1]
            /\ orphans' = orphans \cup {Id(plan'.record)}
<1> DEFINE v == record[Connector]
           w == record[Responder]
<1>1. v \in Versions \cup {NoVersion} /\ w \in Versions \cup {NoVersion}
  BY Numbers, EndsAre, TwoEnds
<1>2. CASE Decision.merge = NoMerge
  BY <1>2 DEF MakePlan
<1>3. CASE Decision.merge # NoMerge
  <2> DEFINE m == Decision.merge
  <2>1. /\ v \in Versions /\ w \in Versions /\ {m.winner, m.loser} = {v, w}
        /\ m.base = v.base /\ v.base = w.base /\ v.base # NoBase
    BY <1>1, <1>3, DecideMerges DEF Decision
  <2>2. v \in Alive /\ w \in Alive /\ m.winner \in Versions /\ m.winner \in Alive
        /\ m.loser \in Versions /\ m.loser \in Alive
    BY <2>1, TwoEnds, Numbers, EndsAre
  <2>3. m.base = m.winner.base /\ m.base.id \in common
    BY <2>1, <2>2 DEF ConvergeInv, BasesHeld
  <2>4. /\ Materialize(Decision)
        /\ sequence' = [sequence EXCEPT ![Connector] = IF IsMerged(plan') THEN @ + 1 ELSE @]
        /\ orphans' = IF IsMerged(plan') THEN orphans \cup {Id(plan'.record)} ELSE orphans
    BY <1>3 DEF MakePlan
  <2>5. m.base.entry.content \in Contents /\ m.winner.entry.content \in Contents
        /\ m.loser.entry.content \in Contents
    <3>1. m.winner.entry \in Entries /\ m.loser.entry \in Entries /\ m.base.entry \in Entries
      BY <2>1, <2>2 DEF Versions, Bases
    <3> QED
      BY <3>1 DEF Entries, Contents, Absent, Directory
  <2>6. /\ plan'.merge = m
        /\ \/ plan'.record = m.winner
           \/ \E content \in Contents :
                plan'.record = Merged(Connector, sequence[Connector] + 1, m, content)
    <3>1. ThreeWay(m.base.entry.content, m.winner.entry.content, m.loser.entry.content) \in Contents
      BY <2>5 DEF ThreeWay, Contents
    <3> QED
      BY <2>4, <2>5, <3>1 DEF Materialize, Outcome
  <2>7. CASE plan'.record = m.winner
    <3>1. ~ IsMerged(plan')
      BY <2>6, <2>7 DEF IsMerged
    <3>2. sequence' = sequence
      BY <2>4, <3>1, Numbers
    <3> QED
      BY <1>3, <2>4, <2>7, <3>1, <3>2
  <2>8. ASSUME NEW content \in Contents,
               plan'.record = Merged(Connector, sequence[Connector] + 1, m, content)
        PROVE  /\ Fresh(plan'.record, Connector) /\ IsMerged(plan')
    <3>1. Fresh(plan'.record, Connector)
      BY <2>2, <2>3, <2>8, MergedFresh DEF ConvergeInv
    <3>2. plan'.record # m.winner
      BY <2>2, <3>1, FreshOrdered, Numbers, TwoEnds DEF ConvergeInv
    <3> QED
      BY <1>3, <2>6, <3>1, <3>2 DEF IsMerged
  <2> QED
    BY <1>3, <2>4, <2>6, <2>7, <2>8
<1> QED
  BY <1>2, <1>3

LEMMA PlanHistory == ConvergeInv /\ PastInv /\ MakePlan => HistoryInv' /\ NoneGoesBack
<1> SUFFICES ASSUME ConvergeInv, PastInv, MakePlan PROVE HistoryInv' /\ NoneGoesBack
  OBVIOUS
<1> DEFINE v == record[Connector]
           w == record[Responder]
<1>1. UNCHANGED <<record, past>> /\ round' = "planned"
  BY DEF MakePlan
<1>2. v \in Versions \cup {NoVersion} /\ w \in Versions \cup {NoVersion}
      /\ (v # NoVersion => v \in Alive) /\ (w # NoVersion => w \in Alive)
  BY Numbers, EndsAre, TwoEnds
<1>3. v # NoVersion /\ w # NoVersion => Ordered(v, w) /\ v \in Versions /\ w \in Versions
  BY <1>2 DEF ConvergeInv, Causal
<1>4. Connector \in Peers /\ Responder \in Peers
  BY EndsAre, TwoEnds
<1>5. /\ w # NoVersion /\ Id(w) \in past[Connector] => v # NoVersion /\ HasSeen(v, Id(w))
      /\ v # NoVersion /\ Id(v) \in past[Responder] => w # NoVersion /\ HasSeen(w, Id(v))
  BY <1>4 DEF PastInv, PastNumbered, MovedOn
<1>6. /\ w # NoVersion /\ Id(w) \in past[Connector] => Decision = Adopt(v)
      /\ v # NoVersion /\ Id(v) \in past[Responder] => Decision = Adopt(w)
  BY <1>3, <1>5, DecideSeen DEF Decision
<1>7. Adopt(v).record = v /\ Adopt(w).record = w /\ Adopt(v).merge = NoMerge /\ Adopt(w).merge = NoMerge
  BY DEF Adopt
<1>8. (v = NoVersion => Decision.record = w) /\ (w = NoVersion => Decision.record = v)
  BY <1>7 DEF Decision, Decide
<1>9. Decision.record \in {v, w}
  BY <1>2, DecideFrom DEF Decision
<1>10. sequence' \in [Peers -> Nat] /\ \A o \in Peers : sequence[o] <= sequence'[o]
  <2>1. sequence' \in {sequence, [sequence EXCEPT ![Connector] = sequence[Connector] + 1]}
    BY PlanMade
  <2> QED
    BY <1>4, <2>1, Numbers
<1>11. PastInv'
  <2>1. PastNumbered'
    <3> SUFFICES ASSUME NEW o \in Peers, NEW id \in past[o]
                 PROVE  id \in Ids /\ id.seq <= sequence'[id.peer]
      BY <1>1 DEF PastNumbered, PastInv
    <3>1. id \in Ids /\ id.seq <= sequence[id.peer]
      BY DEF PastInv, PastNumbered
    <3>2. id.peer \in Peers /\ id.seq \in Nat
      BY <3>1 DEF Ids
    <3> QED
      BY <1>10, <3>1, <3>2, Numbers
  <2> QED
    BY <1>1, <2>1 DEF PastInv, PastTyped, MovedOn
<1>12. NoneGoesBack
  BY <1>1 DEF NoneGoesBack
<1>13. PlanForm'
  <2> SUFFICES NewMerge(plan.record)' \/ Adopts(Connector, Responder)' \/ Adopts(Responder, Connector)'
    BY <1>1 DEF PlanForm
  <2>1. CASE plan' = Decision
    BY <1>1, <1>6, <1>7, <1>8, <1>9, <2>1 DEF Adopts
  <2>2. CASE Decision.merge # NoMerge /\ plan'.record = Decision.merge.winner
    <3>1. v \in Versions /\ w \in Versions /\ Decision.merge.winner \in {v, w}
      BY <1>2, <2>2, DecideMerges DEF Decision
    <3> QED
      BY <1>1, <1>6, <1>7, <2>2, <3>1, TwoEnds DEF Adopts
  <2>3. CASE /\ Decision.merge # NoMerge
             /\ \E content \in Contents :
                  plan'.record = Merged(Connector, sequence[Connector] + 1, Decision.merge, content)
             /\ Fresh(plan'.record, Connector)
             /\ orphans' = orphans \cup {Id(plan'.record)}
    <3>1. v \in Versions /\ w \in Versions /\ {Decision.merge.winner, Decision.merge.loser} = {v, w}
      BY <1>2, <2>3, DecideMerges DEF Decision
    <3>2. HasSeen(plan'.record, Id(v)) /\ HasSeen(plan'.record, Id(w))
      BY <2>3, <3>1, MergedSees
    <3>3. plan'.record # NoVersion /\ \A q \in Peers : Id(plan'.record) \notin past[q]
      BY <1>4, <2>3, FreshIsNew
    <3>4. \A o \in Peers : o = Connector \/ o = Responder
      BY EndsAre
    <3> QED
      BY <1>1, <2>3, <3>1, <3>2, <3>3, <3>4, TwoEnds DEF NewMerge
  <2> QED
    BY <2>1, <2>2, <2>3, PlanMade
<1> QED
  BY <1>11, <1>12, <1>13 DEF HistoryInv

(* An end installs the plan.                                               *)
LEMMA InstallMakes ==
  ASSUME ConvergeInv, NEW p \in Peers, Install(p)
  PROVE  \E r : /\ record' = [record EXCEPT ![p] = r]
                /\ \/ r = record[p]
                   \/ r = plan.record /\ cycle # "deferred"
                /\ cycle # "deferred" =>
                     r = plan.record \/ (record[p] = NoVersion /\ RecordedEntry(plan.record) = Absent)
<1>1. Effective(p).record = IF cycle = "deferred" THEN record[p] ELSE plan.record
  BY DEF Effective, Outcome
<1> QED
  BY <1>1 DEF Install

LEMMA InstallPast ==
  ASSUME ConvergeInv, HistoryInv, NEW p \in Peers, NEW q \in Peers, p # q, Peers = {p, q},
         Install(p), sequence' = sequence,
         \/ p = Responder /\ round = "planned"
         \/ p = Connector /\ round = "applied"
  PROVE  PastInv' /\ NoneGoesBack
<1>1. PICK r : /\ record' = [record EXCEPT ![p] = r]
               /\ r = record[p] \/ (r = plan.record /\ cycle # "deferred")
  BY InstallMakes
<1>2. MovesOn(p)
  BY DEF Install
<1>3. sequence' \in [Peers -> Nat] /\ \A o \in Peers : sequence[o] <= sequence'[o]
  BY Numbers
<1>4. q \in {Connector, Responder}
  BY EndsAre
<1>5. \A x : HasSeen(x, Id(x))
  BY DEF HasSeen
<1>6. r # record[p] =>
        /\ r # NoVersion /\ Id(r) \notin past[p]
        /\ Id(r) \notin past[q] \/ r = record[q]
        /\ record[q] # NoVersion => HasSeen(r, Id(record[q]))
  BY <1>1, <1>4, <1>5 DEF HistoryInv, PlanForm, NewMerge, Adopts
<1> QED
  BY <1>1, <1>2, <1>3, <1>6, MovingOn DEF HistoryInv

LEMMA ApplyHistory ==
  ConvergeInv /\ HistoryInv /\ (ResponderApplies \/ ConnectorApplies) => HistoryInv' /\ NoneGoesBack
<1> SUFFICES ASSUME ConvergeInv, HistoryInv, ResponderApplies \/ ConnectorApplies
             PROVE  HistoryInv' /\ NoneGoesBack
  OBVIOUS
<1>0. Connector \in Peers /\ Responder \in Peers /\ Responder # Connector /\ Peers = {Connector, Responder}
      /\ Peers = {Responder, Connector}
  BY EndsAre, TwoEnds
<1>1. CASE ResponderApplies
  <2>1. Install(Responder) /\ round = "planned" /\ round' = "applied"
        /\ UNCHANGED <<sequence, plan, cycle, orphans>>
    BY <1>1 DEF ResponderApplies
  <2>2. PastInv' /\ NoneGoesBack
    BY <1>0, <2>1, InstallPast
  <2>3. PICK r : /\ record' = [record EXCEPT ![Responder] = r]
                 /\ cycle # "deferred" => \/ r = plan.record
                                          \/ record[Responder] = NoVersion /\ r = record[Responder]
    <3>1. PICK r : /\ record' = [record EXCEPT ![Responder] = r]
                   /\ \/ r = record[Responder]
                      \/ r = plan.record /\ cycle # "deferred"
                   /\ cycle # "deferred" =>
                        \/ r = plan.record
                        \/ record[Responder] = NoVersion /\ RecordedEntry(plan.record) = Absent
      BY <1>0, <2>1, InstallMakes
    <3> QED
      BY <3>1
  <2>4. record'[Responder] = r /\ record'[Connector] = record[Connector]
        /\ past'[Connector] = past[Connector]
    <3>1. record \in [Peers -> Versions \cup {NoVersion}] /\ past \in [Peers -> SUBSET Ids]
      BY Numbers DEF HistoryInv, PastInv, PastTyped
    <3>2. MovesOn(Responder)
      BY <2>1 DEF Install
    <3> QED
      BY <1>0, <2>3, <3>1, <3>2 DEF MovesOn
  <2>5. PlanForm'
    <3> SUFFICES ASSUME cycle # "deferred"
                 PROVE  \/ plan.record = record[Connector]
                        \/ /\ plan.record = r /\ r # NoVersion
                           /\ Id(r) \notin past[Connector]
      BY <2>1, <2>4 DEF PlanForm
    <3>1. CASE NewMerge(plan.record)
      BY <1>0, <2>3, <3>1 DEF NewMerge
    <3>2. CASE Adopts(Connector, Responder)
      BY <3>2 DEF Adopts
    <3>3. CASE Adopts(Responder, Connector)
      BY <2>3, <3>3 DEF Adopts
    <3> QED
      BY <2>1, <3>1, <3>2, <3>3 DEF HistoryInv, PlanForm
  <2> QED
    BY <2>2, <2>5 DEF HistoryInv
<1>2. CASE ConnectorApplies
  <2>1. Install(Connector) /\ round = "applied" /\ round' = "committed"
        /\ UNCHANGED <<sequence, plan, cycle>>
    BY <1>2 DEF ConnectorApplies
  <2>2. PastInv' /\ NoneGoesBack
    BY <1>0, <2>1, InstallPast
  <2>3. PlanForm'
    BY <2>1 DEF PlanForm
  <2> QED
    BY <2>2, <2>3 DEF HistoryInv
<1> QED
  BY <1>1, <1>2

LEMMA InitHistory == Init => HistoryInv
  BY DEF Init, HistoryInv, PastInv, PastTyped, PastNumbered, MovedOn, PlanForm, Id

LEMMA NextHistory == ConvergeInv /\ HistoryInv /\ [Next]_vars => HistoryInv' /\ NoneGoesBack
<1> SUFFICES ASSUME ConvergeInv, HistoryInv, [Next]_vars PROVE HistoryInv' /\ NoneGoesBack
  OBVIOUS
<1> USE DEF HistoryInv
<1>0. ASSUME UNCHANGED <<record, past, sequence>>,
             round' = "idle" \/ UNCHANGED <<round, plan, cycle, orphans>>
      PROVE  HistoryInv' /\ NoneGoesBack
  BY <1>0 DEF PastInv, PastTyped, PastNumbered, MovedOn, PlanForm, NewMerge, Adopts, NoneGoesBack
<1>1. CASE \/ \E p \in Peers, e \in Edits, replaces \in BOOLEAN : Edit(p, e, replaces)
           \/ \E p \in Peers, e \in Edits, entry \in {Absent, Directory} : Remove(p, e, entry)
  BY <1>0, <1>1 DEF Edit, Remove
<1>2. CASE \E p \in Peers : Refresh(p)
  <2>1. PICK p \in Peers : Rescan(p) /\ round = "idle" /\ round' = round
    BY <1>2 DEF Refresh
  <2>2. PlanForm'
    BY <2>1 DEF PlanForm
  <2> QED
    BY <2>1, <2>2, RescanPast
<1>3. CASE MakePlan
  BY <1>3, PlanHistory
<1>4. CASE ResponderApplies \/ ConnectorApplies
  BY <1>4, ApplyHistory
<1>5. CASE ResponderInvalidates \/ ConnectorInvalidates
  <2>1. PICK p \in Peers : Rescan(p) /\ round' = "idle"
    BY <1>5, EndsAre, TwoEnds DEF ResponderInvalidates, ConnectorInvalidates, Invalidate, Close
  <2>2. PlanForm'
    BY <2>1 DEF PlanForm
  <2> QED
    BY <2>1, <2>2, RescanPast
<1>6. CASE ResponderFinishes
  BY <1>0, <1>6 DEF ResponderFinishes, Close
<1>7. CASE Break
  BY <1>0, <1>7 DEF Break, Close
<1>8. CASE UNCHANGED vars
  BY <1>0, <1>8
<1> QED
  BY <1>1, <1>2, <1>3, <1>4, <1>5, <1>6, <1>7, <1>8, Zenon DEF Next, RoundStep

(* No end goes back to a version it has moved on from (NoResurrection),    *)
(* however rounds break off and plans go stale: if the other end still     *)
(* holds it, what replaced it has seen it, and wins.                       *)
THEOREM NothingComesBack == Spec => NoResurrection
<1>1. Init => ConvergeInv /\ HistoryInv
  BY InitInv, InitHistory
<1>2. ConvergeInv /\ HistoryInv /\ [Next]_vars => (ConvergeInv /\ HistoryInv)'
  BY NextInv, NextHistory
<1>3. ConvergeInv /\ HistoryInv /\ [Next]_vars =>
        [\A p \in Peers :
           record'[p] \notin {record[p], NoVersion} => Id(record'[p]) \notin past[p]]_vars
  BY NextHistory DEF NoneGoesBack
<1> QED
  BY <1>1, <1>2, <1>3, PTL DEF Spec, NoResurrection

----------------------------------------------------------------------------
(* What the users wrote.                                                   *)

Stored(e) == \E p \in Peers : \E c \in kept[p] : \E v \in c.inputs : e \in v.entry.content

(* The edit needs no tree: a user gave it up, a recovery record has it, or *)
(* it fell into the known gap.                                             *)
Lost(e) == e \in waived \/ e \in unseen \/ Stored(e)

EditsOf(v) == RecordedEntry(v).content

(* A scan has seen what was written since, or a user took it away.         *)
DiskFollows == \A p \in Peers : \A e \in EditsOf(record[p]) : e \in disk[p].content \/ Lost(e)

UsedThere == \A e \in used : (\E p \in Peers : e \in disk[p].content) \/ Lost(e)

(* A version contains the edits of its base, and of those it has seen.     *)
BaseCovered ==
  \A v \in Alive : v.base # NoBase =>
    \A e \in v.base.entry.content : e \in v.entry.content \/ Lost(e)

SeenCovered ==
  \A p, q \in Peers :
    /\ record[p] # NoVersion /\ record[q] # NoVersion
    /\ HasSeen(record[p], Id(record[q])) /\ Id(record[q]) \notin orphans
    => \A e \in EditsOf(record[q]) : e \in EditsOf(record[p]) \/ Lost(e)

Later == \A v \in Alive : v.seen[v.peer] < v.seq

(* A version an end holds was held by its maker, or is a merge its maker   *)
(* has not installed.                                                      *)
MadeBy ==
  \A p, q \in Peers : p # q /\ record[q] # NoVersion /\ record[q].peer = p =>
    Id(record[q]) \in past[p] \cup orphans \/ record[p] = record[q]

(* Merges the connector has not installed.  If the responder holds one,    *)
(* then what the connector holds went into it or was made after it.        *)
Orphans ==
  /\ \A id \in orphans : id.peer = Connector /\ id.seq \in Nat /\ id.seq <= sequence[Connector]
  /\ record[Connector] # NoVersion => Id(record[Connector]) \notin orphans
  /\ record[Responder] # NoVersion /\ Id(record[Responder]) \in orphans =>
       /\ record[Connector] # NoVersion
       /\ \/ HasSeen(record[Responder], Id(record[Connector]))
          \/ record[Connector].peer = Connector /\ record[Connector].seq > record[Responder].seq

(* Who has yet to apply the plan, and what the plan takes from them.       *)
Pending == {p \in Peers : round = "planned" \/ (round = "applied" /\ p = Connector)}

Offered(e) == plan.conflict # NoConflict /\ \E v \in plan.conflict.inputs : e \in v.entry.content

Taken(p) ==
  \/ Id(record[p]) \in orphans /\ plan.record # NoVersion /\ HasSeen(plan.record, Id(record[p]))
  \/ \A e \in EditsOf(record[p]) : e \in EditsOf(plan.record) \/ Lost(e) \/ Offered(e)

PlanCovers == \A p \in Pending : record[p] # NoVersion => Taken(p)

KeptTyped == kept = [p \in Peers |-> kept[p]]

TreesInv    == DiskFollows /\ UsedThere
VersionsInv == BaseCovered /\ SeenCovered /\ Later /\ MadeBy /\ Orphans /\ PlanCovers
EditsInv    == KeptTyped /\ TreesInv /\ VersionsInv

(* Nothing that was accounted for is forgotten.                            *)
NoneForgotten == \A e : Lost(e) => Lost(e)'

LEMMA LostStays ==
  ASSUME waived \subseteq waived', unseen \subseteq unseen', \A p \in Peers : kept[p] \subseteq kept'[p]
  PROVE  NoneForgotten
  BY DEF NoneForgotten, Lost, Stored

(* A step that makes no version and leaves the records alone.              *)
LEMMA VersionsStay ==
  ASSUME ConvergeInv, VersionsInv, NoneForgotten, UNCHANGED <<record, past, orphans>>,
         sequence' \in [Peers -> Nat], \A o \in Peers : sequence[o] <= sequence'[o],
         plan' \in {plan, NoPlan}, plan' = plan \/ Pending' = {}, Pending' \subseteq Pending
  PROVE  VersionsInv'
<1> USE DEF VersionsInv
<1>1. plan'.record \in {plan.record, NoVersion}
  BY DEF NoPlan, Outcome
<1>2. Alive' \subseteq Alive
  BY <1>1 DEF Alive
<1>3. BaseCovered'
  BY <1>2 DEF BaseCovered, NoneForgotten
<1>4. Later'
  BY <1>2 DEF Later
<1>5. SeenCovered'
  BY DEF SeenCovered, NoneForgotten
<1>6. MadeBy'
  BY DEF MadeBy
<1>7. Orphans'
  <2>1. \A id \in orphans : id.seq <= sequence'[Connector]
    <3>1. sequence[Connector] \in Nat /\ sequence'[Connector] \in Nat
          /\ sequence[Connector] <= sequence'[Connector]
      BY Numbers, TwoEnds
    <3> QED
      BY <3>1 DEF Orphans
  <2> QED
    BY <2>1 DEF Orphans
<1>8. PlanCovers'
  <2>1. CASE plan' = plan
    <3> SUFFICES ASSUME NEW p \in Pending', record[p] # NoVersion PROVE Taken(p)'
      BY DEF PlanCovers
    <3>1. Taken(p)
      BY DEF PlanCovers
    <3> QED
      BY <2>1, <3>1 DEF Taken, Offered, NoneForgotten
  <2>2. CASE Pending' = {}
    BY <2>2 DEF PlanCovers
  <2> QED
    BY <2>1, <2>2
<1> QED
  BY <1>3, <1>4, <1>5, <1>6, <1>7, <1>8

LEMMA TreesStay ==
  ASSUME TreesInv, NoneForgotten, UNCHANGED <<record, disk, used>>
  PROVE  TreesInv'
  BY DEF TreesInv, DiskFollows, UsedThere, NoneForgotten

(* The users.                                                              *)
LEMMA UsersEdits ==
  ASSUME ConvergeInv, EditsInv,
         \/ \E p \in Peers, e \in Edits, replaces \in BOOLEAN : Edit(p, e, replaces)
         \/ \E p \in Peers, e \in Edits, entry \in {Absent, Directory} : Remove(p, e, entry)
  PROVE  EditsInv'
<1>1. PICK p \in Peers, e \in Edits, entry \in Entries : Give(p, entry) /\ Change(e)
  <2>1. Absent \in Entries /\ Directory \in Entries
    BY DEF Entries
  <2> QED
    BY <2>1, EditEntries DEF Edit, Remove, ConvergeInv, TypeOK
<1>2. UNCHANGED <<durable, session, past, common, orphans, unseen>>
  BY DEF Edit, Remove
<1>3. /\ disk' = [disk EXCEPT ![p] = entry]
      /\ waived' = waived \cup (disk[p].content \ entry.content) \cup (used' \ (used \cup entry.content))
      /\ used' = used \cup {e} /\ disk \in [Peers -> Entries]
  BY <1>1 DEF Give, Change, ConvergeInv, TypeOK
<1>4. NoneForgotten
  BY <1>2, <1>3, LostStays
<1>5. \A o \in Peers : \A f \in disk[o].content : f \in disk'[o].content \/ Lost(f)'
  <2>1. \A f \in disk[p].content : f \in entry.content \/ f \in waived'
    BY <1>3
  <2> QED
    BY <1>3, <2>1 DEF Lost
<1>6. DiskFollows'
  BY <1>2, <1>4, <1>5 DEF EditsInv, TreesInv, DiskFollows, NoneForgotten
<1>7. UsedThere'
  <2> SUFFICES ASSUME NEW f \in used' PROVE (\E o \in Peers : f \in disk'[o].content) \/ Lost(f)'
    BY DEF UsedThere
  <2>1. CASE f \in used
    BY <1>4, <1>5, <2>1 DEF EditsInv, TreesInv, UsedThere, NoneForgotten
  <2>2. CASE f \notin used
    <3>1. f \in entry.content \/ f \in waived'
      BY <1>3, <2>2
    <3> QED
      BY <1>3, <3>1 DEF Lost
  <2> QED
    BY <2>1, <2>2
<1>8. VersionsInv'
  BY <1>2, <1>4, VersionsStay, Numbers DEF EditsInv, Pending
<1> QED
  BY <1>2, <1>6, <1>7, <1>8 DEF EditsInv, TreesInv, KeptTyped

(* What a successor has seen, its predecessor had, but for older versions  *)
(* of the predecessor's own maker.                                         *)
LEMMA SuccessorSaw ==
  ASSUME NEW p, NEW seq, NEW time, NEW old \in Versions, NEW base, NEW entry, NEW w \in Versions,
         HasSeen(Successor(p, seq, time, old, base, entry), Id(w)),
         Id(Successor(p, seq, time, old, base, entry)) # Id(w)
  PROVE  HasSeen(old, Id(w)) \/ (old.peer = w.peer /\ w.seq < old.seq)
<1> DEFINE n == Successor(p, seq, time, old, base, entry)
<1>1. n.seen = Remember(old.seen, Id(old))
  BY TwoEnds DEF Successor
<1>2. /\ old.seen \in [Peers -> Nat] /\ old.seq \in Nat /\ old.peer \in Peers
      /\ w.peer \in Peers /\ w.seq \in Nat
      /\ Id(w) = [peer |-> w.peer, seq |-> w.seq] /\ Id(old) = [peer |-> old.peer, seq |-> old.seq]
  BY DEF Versions, Id
<1>3. /\ n.seen[old.peer] = Larger(old.seen[old.peer], old.seq)
      /\ \A q \in Peers : q # old.peer => n.seen[q] = old.seen[q]
  BY <1>1, <1>2, RememberType
<1>4. n.seen[w.peer] >= w.seq
  BY <1>2 DEF HasSeen
<1> HIDE DEF n
<1>5. CASE w.peer # old.peer
  <2>1. old.seen[w.peer] >= w.seq
    BY <1>2, <1>3, <1>4, <1>5
  <2> QED
    BY <1>2, <2>1 DEF HasSeen
<1>6. CASE w.peer = old.peer
  <2>1. old.seen[w.peer] >= w.seq \/ old.seq >= w.seq
    BY <1>2, <1>3, <1>4, <1>6 DEF Larger
  <2>2. old.seq = w.seq => Id(old) = Id(w)
    BY <1>2, <1>6
  <2> QED
    BY <1>2, <1>6, <2>1, <2>2 DEF HasSeen
<1> QED
  BY <1>5, <1>6

LEMMA FirstSaw ==
  ASSUME NEW p, NEW seq, NEW time, NEW base, NEW entry, NEW w \in Versions,
         HasSeen(Successor(p, seq, time, NoVersion, base, entry), Id(w)),
         Id(Successor(p, seq, time, NoVersion, base, entry)) # Id(w)
  PROVE  w.seq = 0
<1> DEFINE n == Successor(p, seq, time, NoVersion, base, entry)
<1>1. n.seen = NothingSeen
  BY DEF Successor
<1>2. w.peer \in Peers /\ w.seq \in Nat /\ Id(w).peer = w.peer /\ Id(w).seq = w.seq
  BY DEF Versions, Id
<1>3. n.seen[w.peer] >= w.seq
  BY <1>2 DEF HasSeen
<1> QED
  BY <1>1, <1>2, <1>3, NothingSeenType

(* What the record of p had seen of the other end's, when its successor    *)
(* has: the gap that merges leave apart, all of it.                        *)
LEMMA SeenBefore ==
  ASSUME ConvergeInv, HistoryInv, VersionsInv, NEW p \in Peers, NEW q \in Peers, p # q,
         Peers = {p, q}, record[p] # NoVersion, record[q] # NoVersion,
         Id(record[q]) \notin orphans,
         HasSeen(record[p], Id(record[q]))
           \/ (record[p].peer = record[q].peer /\ record[q].seq < record[p].seq)
  PROVE  HasSeen(record[p], Id(record[q]))
<1> DEFINE old == record[p]
           w == record[q]
<1>1. /\ old \in Versions /\ w \in Versions /\ old \in Alive /\ w \in Alive
      /\ old.peer \in Peers /\ old.seq \in Nat /\ w.seq \in Nat
      /\ Id(w) = [peer |-> w.peer, seq |-> w.seq] /\ Id(old) = [peer |-> old.peer, seq |-> old.seq]
  BY Numbers DEF Versions, Id
<1>2. w.seen[w.peer] < w.seq /\ w.seen[w.peer] \in Nat
  BY <1>1 DEF VersionsInv, Later, Versions
<1>3. SUFFICES ASSUME old.peer = w.peer, w.seq < old.seq PROVE HasSeen(old, Id(w))
  OBVIOUS
<1>4. \A x : HasSeen(x, Id(x))
  BY DEF HasSeen
<1>5. CASE old.peer = p
  <2>1. Id(w) \in past[p] \cup orphans \/ old = w
    BY <1>3, <1>5 DEF VersionsInv, MadeBy
  <2>2. Id(w) \in past[p] => HasSeen(old, Id(w))
    BY DEF HistoryInv, PastInv, MovedOn
  <2> QED
    BY <1>4, <2>1, <2>2
<1>6. CASE old.peer = q
  <2>1. Id(old) \in past[q] \cup orphans \/ w = old
    BY <1>6 DEF VersionsInv, MadeBy
  <2>2. CASE Id(old) \in past[q]
    <3>1. HasSeen(w, Id(old))
      BY <2>2 DEF HistoryInv, PastInv, MovedOn
    <3>2. Id(w) = Id(old) \/ w.seen[w.peer] >= old.seq
      BY <1>1, <1>3, <3>1 DEF HasSeen
    <3> QED
      BY <1>1, <1>2, <1>3, <1>4, <3>2
  <2>3. CASE Id(old) \in orphans
    <3>1. old.peer = Connector
      BY <1>1, <2>3 DEF VersionsInv, Orphans
    <3>2. q = Connector /\ p = Responder
      BY <1>6, <3>1, EndsAre
    <3>3. HasSeen(old, Id(w)) \/ w.seq > old.seq
      BY <2>3, <3>2 DEF VersionsInv, Orphans
    <3> QED
      BY <1>1, <1>3, <3>3
  <2> QED
    BY <1>4, <2>1, <2>2, <2>3
<1> QED
  BY <1>1, <1>5, <1>6

(* A scan.                                                                 *)
LEMMA RescanEdits ==
  ASSUME ConvergeInv, HistoryInv, TreesInv, VersionsInv, NEW p \in Peers, Rescan(p),
         UNCHANGED <<disk, used, orphans>>, NoneForgotten,
         plan' \in {plan, NoPlan}, round' = "idle"
  PROVE  TreesInv' /\ VersionsInv'
<1>1. PICK q \in Peers : q # p /\ Peers = {p, q}
  BY EndsAre
<1>2. PICK n :
           /\ record' = [record EXCEPT ![p] = n] /\ MovesOn(p)
           /\ sequence' \in [Peers -> Nat] /\ \A o \in Peers : sequence[o] <= sequence'[o]
           /\ \/ n = record[p] /\ RecordedEntry(n) = disk[p]
              \/ /\ \E time \in Times :
                      n = Successor(p, sequence[p] + 1, time, record[p], head[p], disk[p])
                 /\ Fresh(n, p) /\ sequence'[p] = sequence[p] + 1
  BY RescanMakes
<1>3. /\ record \in [Peers -> Versions \cup {NoVersion}] /\ past \in [Peers -> SUBSET Ids]
      /\ record'[p] = n /\ record'[q] = record[q]
  BY <1>1, <1>2, Numbers DEF HistoryInv, PastInv, PastTyped
<1>4. Pending' = {}
  BY DEF Pending
<1>5. CASE n = record[p]
  <2>1. record' = record /\ past' = past
    BY <1>2, <1>3, <1>5 DEF MovesOn
  <2> QED
    BY <1>2, <1>4, <2>1, VersionsStay, TreesStay
<1>6. CASE n # record[p]
  <2> DEFINE old == record[p]
             w == record[q]
  <2>1. PICK time \in Times : n = Successor(p, sequence[p] + 1, time, old, head[p], disk[p])
    BY <1>2, <1>6
  <2>2. /\ n.peer = p /\ n.entry = disk[p] /\ n.seq = sequence[p] + 1 /\ Fresh(n, p)
        /\ sequence'[p] = sequence[p] + 1
        /\ n.base = IF disk[p] = Absent THEN NoBase ELSE NextBase(p, old, head[p])
    BY <1>2, <1>6, <2>1 DEF Successor
  <2>3. n \in Versions /\ n # NoVersion /\ sequence[p] \in Nat /\ sequence \in [Peers -> Nat]
        /\ n.seen[p] \in Nat /\ n.seen[p] <= sequence[p] /\ EditsOf(n) = disk[p].content
    BY <2>2, Numbers, TwoEnds DEF Fresh, Versions, EditsOf, RecordedEntry
  <2>4. /\ old # NoVersion => old \in Versions /\ old \in Alive
        /\ w # NoVersion => w \in Versions /\ w \in Alive
        /\ \A e \in EditsOf(old) : e \in disk[p].content \/ Lost(e)
        /\ old # NoVersion => EditsOf(old) = old.entry.content
    BY Numbers DEF TreesInv, DiskFollows, EditsOf, RecordedEntry
  <2>5. Alive' \subseteq Alive \cup {n}
    <3>1. plan'.record \in {plan.record, NoVersion}
      BY DEF NoPlan, Outcome
    <3> QED
      BY <1>1, <1>3, <3>1 DEF Alive
  <2>6. past' = IF old = NoVersion THEN past ELSE [past EXCEPT ![p] = @ \cup {Id(old)}]
    BY <1>2, <1>3, <1>6 DEF MovesOn
  <2>7. TreesInv'
    <3>1. DiskFollows'
      <4> SUFFICES ASSUME NEW o \in Peers, NEW e \in EditsOf(record'[o])
                   PROVE  e \in disk[o].content \/ Lost(e)'
        BY DEF DiskFollows
      <4> QED
        BY <1>1, <1>3, <2>3 DEF TreesInv, DiskFollows, NoneForgotten
    <3> QED
      BY <3>1 DEF TreesInv, UsedThere, NoneForgotten
  <2>8. BaseCovered'
    <3> SUFFICES ASSUME NEW v \in Alive', v.base # NoBase, NEW e \in v.base.entry.content
                 PROVE  e \in v.entry.content \/ Lost(e)'
      BY DEF BaseCovered
    <3>1. CASE v \in Alive
      BY <3>1 DEF VersionsInv, BaseCovered, NoneForgotten
    <3>2. CASE v = n
      <4>1. old # NoVersion /\ (n.base = AsBase(old) \/ n.base = old.base)
        BY <2>2, <3>2 DEF NextBase
      <4>2. e \in old.entry.content \/ Lost(e)
        <5>1. CASE n.base = AsBase(old)
          BY <3>2, <5>1 DEF AsBase
        <5>2. CASE n.base = old.base
          BY <2>4, <3>2, <4>1, <5>2 DEF VersionsInv, BaseCovered
        <5> QED
          BY <4>1, <5>1, <5>2
      <4> QED
        BY <2>2, <2>4, <3>2, <4>1, <4>2 DEF NoneForgotten
    <3> QED
      BY <2>5, <3>1, <3>2
  <2>9. Later'
    BY <2>2, <2>3, <2>5 DEF VersionsInv, Later
  <2>10. MadeBy'
    <3>1. w # NoVersion /\ w.peer = p => Id(w) \in past'[p] \cup orphans
      <4>1. w # NoVersion /\ w.peer = p => Id(w) \in past[p] \cup orphans \/ old = w
        BY <1>1 DEF VersionsInv, MadeBy
      <4>2. past[p] \subseteq past'[p] /\ (old # NoVersion => Id(old) \in past'[p])
        BY <1>3, <2>6
      <4> QED
        BY <4>1, <4>2
    <3>2. n.peer # q
      BY <1>1, <2>2
    <3> QED
      BY <1>1, <1>3, <3>1, <3>2 DEF MadeBy
  <2>11. Orphans'
    <3> DEFINE C == Connector
               R == Responder
    <3>1. C \in Peers /\ R \in Peers /\ C # R /\ sequence[C] \in Nat /\ sequence'[C] \in Nat
          /\ sequence[C] <= sequence'[C]
      BY <1>2, <2>3, EndsAre, TwoEnds
    <3>2. \A id \in orphans : id.peer = C /\ id.seq \in Nat /\ id.seq <= sequence[C]
      BY DEF VersionsInv, Orphans
    <3>3. \A id \in orphans : id.seq <= sequence'[C]
      BY <3>1, <3>2
    <3>4. Id(n).peer = p /\ Id(n).seq = sequence[p] + 1
      BY <2>2 DEF Id
    <3>5. Id(n) \notin orphans
      BY <2>3, <3>2, <3>4
    <3>6. CASE p = C
      <4>1. q = R
        BY <1>1, <3>1, <3>6
      <4>2. w # NoVersion /\ Id(w) \in orphans => n.seq > w.seq
        BY <2>2, <2>3, <3>2, <3>6 DEF Id
      <4> QED
        BY <1>3, <2>2, <2>3, <3>2, <3>3, <3>5, <3>6, <4>1, <4>2 DEF Orphans
    <3>7. CASE p = R
      <4>1. q = C
        BY <1>1, <3>1, <3>7
      <4> QED
        BY <1>3, <3>2, <3>3, <3>5, <3>7, <4>1 DEF VersionsInv, Orphans
    <3> QED
      BY <3>6, <3>7, EndsAre
  <2>12. SeenCovered'
    <3>1. ASSUME w # NoVersion, HasSeen(n, Id(w)), Id(w) \notin orphans, NEW e \in EditsOf(w)
          PROVE  e \in disk[p].content \/ Lost(e)
      <4>1. w \in Alive \cap Versions /\ Id(n) # Id(w)
        BY <2>2, <2>3, <2>4, <3>1, FreshOrdered DEF ConvergeInv
      <4>2. old # NoVersion
        <5> SUFFICES ASSUME old = NoVersion PROVE FALSE
          OBVIOUS
        <5>1. w.seq = 0
          BY <2>1, <3>1, <4>1, FirstSaw
        <5>2. w.seen[w.peer] \in Nat /\ w.seen[w.peer] < w.seq
          BY <4>1 DEF VersionsInv, Later, Versions
        <5> QED
          BY <5>1, <5>2
      <4>3. HasSeen(old, Id(w)) \/ (old.peer = w.peer /\ w.seq < old.seq)
        BY <2>1, <2>4, <3>1, <4>1, <4>2, SuccessorSaw
      <4>4. HasSeen(old, Id(w))
        BY <1>1, <3>1, <4>2, <4>3, SeenBefore
      <4>5. e \in EditsOf(old) \/ Lost(e)
        BY <3>1, <4>2, <4>4 DEF VersionsInv, SeenCovered
      <4> QED
        BY <2>4, <4>5
    <3>2. w # NoVersion => ~ HasSeen(w, Id(n))
      <4> SUFFICES ASSUME w # NoVersion PROVE ~ HasSeen(w, Id(n))
        OBVIOUS
      <4>1. Id(n) # Id(w) /\ w.seen[p] <= sequence[p] /\ w.seen[p] \in Nat
        BY <2>2, <2>3, <2>4, FreshOrdered DEF ConvergeInv, Numbered, Versions
      <4> QED
        BY <2>2, <2>3, <4>1 DEF HasSeen, Id
    <3>3. SUFFICES ASSUME NEW a \in Peers, NEW b \in Peers,
                          record'[a] # NoVersion, record'[b] # NoVersion,
                          HasSeen(record'[a], Id(record'[b])), Id(record'[b]) \notin orphans,
                          NEW e \in EditsOf(record'[b])
                   PROVE  e \in EditsOf(record'[a]) \/ Lost(e)'
      BY DEF SeenCovered
    <3>4. CASE a = b
      BY <3>3, <3>4
    <3>5. CASE a = p /\ b = q
      BY <1>3, <2>3, <3>1, <3>3, <3>5 DEF NoneForgotten
    <3>6. CASE a = q /\ b = p
      BY <1>3, <3>2, <3>3, <3>6
    <3> QED
      BY <1>1, <3>4, <3>5, <3>6
  <2>13. PlanCovers'
    BY <1>4 DEF PlanCovers
  <2> QED
    BY <2>7, <2>8, <2>9, <2>10, <2>11, <2>12, <2>13 DEF VersionsInv
<1> QED
  BY <1>5, <1>6

(* The inputs of a merge, and what becomes of the edits of their base.     *)
LEMMA MergeInputs ==
  ASSUME ConvergeInv, VersionsInv, MakePlan, Decision.merge # NoMerge
  PROVE  LET m == Decision.merge
             b == m.base.entry.content
             version(content) == Merged(Connector, sequence[Connector] + 1, m, content)
         IN  /\ record[Connector] \in Versions /\ record[Responder] \in Versions
             /\ {m.winner, m.loser} = {record[Connector], record[Responder]}
             /\ m.base # NoBase
             /\ \A e \in b : /\ e \in m.winner.entry.content \/ Lost(e)
                             /\ e \in m.loser.entry.content \/ Lost(e)
             /\ ThreeWay(b, m.winner.entry.content, m.loser.entry.content) \in Contents
             /\ m.winner.entry.content \in Contents
             /\ \A content \in Contents : Fresh(version(content), Connector)
             /\ \/ plan' = Outcome(version(ThreeWay(b, m.winner.entry.content, m.loser.entry.content)),
                                  m, NoConflict)
                \/ plan' = Outcome(version(m.winner.entry.content), m,
                                  Conflict(m.winner, m.loser, "overlap"))
                \/ plan' = Outcome(m.winner, m, Conflict(m.winner, m.loser, "fallback"))
<1> DEFINE v == record[Connector]
           w == record[Responder]
           m == Decision.merge
           b == m.base.entry.content
           version(content) == Merged(Connector, sequence[Connector] + 1, m, content)
<1>1. v \in Versions \cup {NoVersion} /\ w \in Versions \cup {NoVersion}
  BY Numbers, EndsAre, TwoEnds
<1>2. /\ v \in Versions /\ w \in Versions /\ {m.winner, m.loser} = {v, w}
      /\ m.base = v.base /\ v.base = w.base /\ v.base # NoBase
  BY <1>1, DecideMerges DEF Decision
<1>3. v \in Alive /\ w \in Alive /\ m.winner \in Alive \cap Versions /\ m.loser \in Alive \cap Versions
      /\ m.winner.base = m.base /\ m.loser.base = m.base
  BY <1>2, TwoEnds, Numbers, EndsAre
<1>4. m.base.id \in common
  BY <1>2, <1>3 DEF ConvergeInv, BasesHeld
<1>5. /\ b \in Contents /\ m.winner.entry.content \in Contents
      /\ m.loser.entry.content \in Contents
  <2>1. m.winner.entry \in Entries /\ m.loser.entry \in Entries /\ m.base.entry \in Entries
    BY <1>2, <1>3 DEF Versions, Bases
  <2> QED
    BY <2>1 DEF Entries, Contents, Absent, Directory
<1>6. ThreeWay(b, m.winner.entry.content, m.loser.entry.content) \in Contents
  BY <1>5 DEF ThreeWay, Contents
<1>7. \A e \in b : /\ e \in m.winner.entry.content \/ Lost(e)
                   /\ e \in m.loser.entry.content \/ Lost(e)
  BY <1>2, <1>3 DEF VersionsInv, BaseCovered
<1>8. \A content \in Contents : Fresh(version(content), Connector)
  BY <1>3, <1>4, MergedFresh DEF ConvergeInv
<1>9. Materialize(Decision)
  BY DEF MakePlan
<1> QED
  BY <1>2, <1>5, <1>6, <1>7, <1>8, <1>9 DEF Materialize

(* A plan covers what both ends hold: what it takes from one of them is in *)
(* its record, in its conflict, or accounted for.                          *)
LEMMA PlanCovered ==
  ASSUME ConvergeInv, HistoryInv, VersionsInv, MakePlan, NEW p \in Peers, record[p] # NoVersion
  PROVE  \/ /\ Id(record[p]) \in orphans /\ plan'.record # NoVersion
            /\ HasSeen(plan'.record, Id(record[p]))
         \/ \A e \in EditsOf(record[p]) :
              \/ e \in EditsOf(plan'.record) \/ Lost(e)
              \/ /\ plan'.conflict # NoConflict
                 /\ \E v \in plan'.conflict.inputs : e \in v.entry.content
<1> DEFINE v == record[Connector]
           w == record[Responder]
           x == record[p]
           Shown(pl) ==
             \A e \in EditsOf(x) :
               \/ e \in EditsOf(pl.record) \/ Lost(e)
               \/ pl.conflict # NoConflict /\ \E u \in pl.conflict.inputs : e \in u.entry.content
           Seen(y) == Id(x) \in orphans /\ y # NoVersion /\ HasSeen(y, Id(x))
<1>1. /\ Connector \in Peers /\ Responder \in Peers /\ Peers = {Connector, Responder}
      /\ v \in Versions \cup {NoVersion} /\ w \in Versions \cup {NoVersion}
      /\ x \in {v, w} /\ x \in Versions
      /\ v # NoVersion => v \in Alive
      /\ w # NoVersion => w \in Alive
  BY Numbers, EndsAre, TwoEnds
<1>2. \A y \in Versions : y # NoVersion /\ EditsOf(y) = y.entry.content /\ y.entry \in Entries
  BY TwoEnds DEF EditsOf, RecordedEntry, Versions
<1>3. ASSUME NEW y \in {v, w}, y # NoVersion, HasSeen(y, Id(x))
      PROVE  Seen(y) \/ \A e \in EditsOf(x) : e \in EditsOf(y) \/ Lost(e)
  BY <1>1, <1>3 DEF VersionsInv, SeenCovered
<1>4. ASSUME NEW win \in {v, w}, NEW los \in {v, w}, {win, los} = {v, w}, NEW reason \in Reasons,
             v # NoVersion, w # NoVersion
      PROVE  /\ Conflict(win, los, reason) # NoConflict
             /\ \A e \in EditsOf(x) :
                  \E u \in Conflict(win, los, reason).inputs : e \in u.entry.content
  <2>1. Conflict(win, los, reason).inputs = {v, w} /\ win \in Versions /\ los \in Versions
    BY <1>1, <1>4 DEF Conflict
  <2>2. Conflict(win, los, reason) \in Conflicts
    BY <2>1 DEF Conflict, Conflicts
  <2> QED
    BY <1>1, <1>2, <2>1, <2>2, TwoEnds
<1>5. CASE Decision.merge = NoMerge
  <2>1. plan' = Decision
    BY <1>5 DEF MakePlan
  <2>2. \A y : Adopt(y).record = y
    BY DEF Adopt
  <2>3. SUFFICES Seen(Decision.record) \/ Shown(Decision)
    BY <2>1
  <2>4. CASE v = NoVersion \/ w = NoVersion
    <3>1. Decision.record = x
      BY <1>1, <1>2, <2>2, <2>4 DEF Decision, Decide
    <3> QED
      BY <3>1
  <2>5. CASE v # NoVersion /\ w # NoVersion
    <3>1. v \in Versions /\ w \in Versions /\ \A y : HasSeen(y, Id(y))
      BY <1>1, <2>5 DEF HasSeen
    <3>2. CASE HasSeen(v, Id(w))
      <4>1. Decision.record = v
        BY <2>2, <2>5, <3>2 DEF Decision, Decide
      <4> QED
        BY <1>1, <1>3, <2>5, <3>1, <3>2, <4>1
    <3>3. CASE ~ HasSeen(v, Id(w)) /\ HasSeen(w, Id(v))
      <4>1. Decision.record = w
        BY <2>2, <2>5, <3>3 DEF Decision, Decide
      <4> QED
        BY <1>1, <1>3, <2>5, <3>1, <3>3, <4>1
    <3>4. CASE ~ HasSeen(v, Id(w)) /\ ~ HasSeen(w, Id(v)) /\ v.entry = w.entry
      <4>1. Decision.record \in {v, w}
        BY <1>1, DecideFrom DEF Decision
      <4>2. EditsOf(Decision.record) = EditsOf(x)
        BY <1>1, <1>2, <3>1, <3>4, <4>1
      <4> QED
        BY <4>2
    <3>5. CASE ~ HasSeen(v, Id(w)) /\ ~ HasSeen(w, Id(v)) /\ v.entry # w.entry
      <4> DEFINE win == Winner(v, w)
                 los == Loser(v, w)
                 files == {y \in {v, w} : IsFile(y.entry)}
      <4>1. Decision = Divergent(v, w)
        BY <2>5, <3>5 DEF Decision, Decide
      <4>2. win \in {v, w} /\ los \in {v, w} /\ {win, los} = {v, w}
        BY DEF Winner, Loser
      <4>3. ~ (files = {v, w} /\ SameBase(v, w))
        <5> SUFFICES ASSUME files = {v, w}, SameBase(v, w) PROVE FALSE
          OBVIOUS
        <5>1. Decision.merge = [base |-> win.base, winner |-> win, loser |-> los]
          BY <4>1 DEF Divergent
        <5>2. win \in Versions /\ los \in Versions /\ win.base \in Bases
          BY <3>1, <4>2 DEF Versions
        <5>3. Decision.merge \in Merges
          BY <5>1, <5>2 DEF Merges
        <5> QED
          BY <1>5, <5>3, TwoEnds
      <4>4. CASE files = {}
        <5>1. x.entry \in Entries /\ ~ IsFile(x.entry)
          BY <1>1, <1>2, <4>4
        <5>2. x.entry.content = {}
          BY <5>1 DEF Entries, IsFile, Absent, Directory
        <5> QED
          BY <1>1, <1>2, <5>2
      <4>5. CASE files # {}
        <5>1. PICK reason \in Reasons : Decision.conflict = Conflict(win, los, reason)
          <6> DEFINE reason == IF files # {v, w} THEN "destructive"
                               ELSE IF NoBase \in {v.base, w.base} THEN "absent_base"
                               ELSE "unequal_base"
          <6>1. Decision.conflict = Conflict(win, los, reason)
            BY <4>1, <4>3, <4>5 DEF Divergent
          <6>2. reason \in Reasons
            BY DEF Reasons
          <6> QED
            BY <6>1, <6>2
        <5> HIDE DEF win, los
        <5>2. /\ Decision.conflict # NoConflict
              /\ \A e \in EditsOf(x) :
                   \E u \in Decision.conflict.inputs : e \in u.entry.content
          BY <1>4, <2>5, <4>2, <5>1
        <5> QED
          BY <5>2
      <4> QED
        BY <4>4, <4>5
    <3> QED
      BY <3>2, <3>3, <3>4, <3>5
  <2> QED
    BY <2>4, <2>5
<1>6. CASE Decision.merge # NoMerge
  <2> DEFINE m == Decision.merge
             b == m.base.entry.content
             three == ThreeWay(b, m.winner.entry.content, m.loser.entry.content)
             n == Merged(Connector, sequence[Connector] + 1, m, three)
  <2>1. /\ v \in Versions /\ w \in Versions /\ {m.winner, m.loser} = {v, w}
        /\ \A e \in b : /\ e \in m.winner.entry.content \/ Lost(e)
                        /\ e \in m.loser.entry.content \/ Lost(e)
        /\ three \in Contents /\ Fresh(n, Connector)
        /\ \/ plan' = Outcome(n, m, NoConflict)
           \/ \E reason \in {"overlap", "fallback"} :
                plan'.conflict = Conflict(m.winner, m.loser, reason)
    BY <1>6, MergeInputs DEF Outcome
  <2>2. v # NoVersion /\ w # NoVersion /\ m.winner \in {v, w} /\ m.loser \in {v, w}
    BY <1>2, <2>1
  <2>3. CASE plan' = Outcome(n, m, NoConflict)
    <3>1. n.entry.content = three /\ n \in Versions
      BY <2>1 DEF Fresh, Merged
    <3>2. x \in {m.winner, m.loser}
      BY <1>1, <2>1
    <3>3. \A e \in x.entry.content : e \in three \/ Lost(e)
      BY <2>1, <3>2 DEF ThreeWay
    <3>4. plan'.record = n
      BY <2>3 DEF Outcome
    <3> HIDE DEF n, three
    <3>5. EditsOf(plan'.record) = three /\ EditsOf(x) = x.entry.content
      BY <1>1, <1>2, <3>1, <3>4
    <3> QED
      BY <3>3, <3>5
  <2>4. ASSUME NEW reason \in {"overlap", "fallback"},
               plan'.conflict = Conflict(m.winner, m.loser, reason)
        PROVE  Shown(plan')
    <3>1. reason \in Reasons
      BY DEF Reasons
    <3> HIDE DEF m
    <3>2. /\ plan'.conflict # NoConflict
          /\ \A e \in EditsOf(x) : \E u \in plan'.conflict.inputs : e \in u.entry.content
      BY <1>4, <2>1, <2>2, <2>4, <3>1
    <3> QED
      BY <3>2
  <2> QED
    BY <2>1, <2>3, <2>4
<1> QED
  BY <1>5, <1>6

LEMMA PlanEdits ==
  ASSUME ConvergeInv, HistoryInv, EditsInv, MakePlan
  PROVE  EditsInv'
<1> USE DEF EditsInv, VersionsInv
<1>1. UNCHANGED <<disk, record, kept, used, waived, past, unseen>> /\ round' = "planned"
  BY DEF MakePlan
<1>2. NoneForgotten
  BY <1>1, LostStays
<1>3. TreesInv' /\ KeptTyped'
  BY <1>1, <1>2, TreesStay DEF KeptTyped
<1>4. \A e : Lost(e) => Lost(e)'
  BY <1>2 DEF NoneForgotten
<1>5. PlanCovers'
  <2> SUFFICES ASSUME NEW p \in Peers, record[p] # NoVersion PROVE Taken(p)'
    BY <1>1 DEF PlanCovers, Pending
  <2>1. orphans \subseteq orphans'
    BY PlanMade DEF HistoryInv
  <2>2. \/ /\ Id(record[p]) \in orphans /\ plan'.record # NoVersion
           /\ HasSeen(plan'.record, Id(record[p]))
        \/ \A e \in EditsOf(record[p]) :
              \/ e \in EditsOf(plan'.record) \/ Lost(e)
              \/ /\ plan'.conflict # NoConflict
                 /\ \E v \in plan'.conflict.inputs : e \in v.entry.content
    BY PlanCovered
  <2> QED
    BY <1>1, <1>4, <2>1, <2>2 DEF Taken, Offered
<1>6. CASE plan'.record \in {record[Connector], record[Responder]}
           /\ sequence' = sequence /\ orphans' = orphans
  <2>1. Alive' \subseteq Alive
    BY <1>1, <1>6, EndsAre, TwoEnds DEF Alive
  <2>2. BaseCovered' /\ Later'
    BY <1>4, <2>1 DEF BaseCovered, Later
  <2>3. SeenCovered' /\ MadeBy' /\ Orphans'
    BY <1>1, <1>4, <1>6 DEF SeenCovered, MadeBy, Orphans
  <2> QED
    BY <1>3, <1>5, <2>2, <2>3
<1>7. CASE /\ Decision.merge # NoMerge /\ Fresh(plan'.record, Connector)
           /\ sequence' = [sequence EXCEPT ![Connector] = @ + 1]
           /\ orphans' = orphans \cup {Id(plan'.record)}
  <2> DEFINE n == plan'.record
  <2>1. /\ n \in Versions /\ n # NoVersion /\ n.peer = Connector /\ n.seq = sequence[Connector] + 1
        /\ n.seen[Connector] <= sequence[Connector] /\ n.seen[Connector] \in Nat
        /\ sequence[Connector] \in Nat /\ sequence'[Connector] = sequence[Connector] + 1
        /\ Id(n).peer = Connector /\ Id(n).seq = sequence[Connector] + 1
    BY <1>7, Numbers, TwoEnds DEF Fresh, Versions, Id
  <2>2. Alive' \subseteq Alive \cup {n}
    BY <1>1 DEF Alive
  <2>3. \A e \in n.base.entry.content : e \in n.entry.content \/ Lost(e)
    <3> DEFINE m == Decision.merge
               b == m.base.entry.content
               version(content) == Merged(Connector, sequence[Connector] + 1, m, content)
    <3>1. /\ \A e \in b : /\ e \in m.winner.entry.content \/ Lost(e)
                          /\ e \in m.loser.entry.content \/ Lost(e)
          /\ \/ n = version(ThreeWay(b, m.winner.entry.content, m.loser.entry.content))
             \/ n = version(m.winner.entry.content)
             \/ n = m.winner
          /\ m.winner \in Alive \cap Versions
      <4>1. m.winner \in {record[Connector], record[Responder]}
            /\ record[Connector] \in Versions /\ record[Responder] \in Versions
        BY <1>7, MergeInputs
      <4>2. m.winner \in Alive \cap Versions
        BY <4>1, Numbers, EndsAre, TwoEnds
      <4> QED
        BY <1>7, <4>2, MergeInputs DEF Outcome
    <3>2. n # m.winner
      BY <1>7, <3>1, FreshOrdered, Numbers, TwoEnds DEF ConvergeInv
    <3>3. \A content : version(content).entry.content = content /\ version(content).base = m.base
      BY DEF Merged
    <3> HIDE DEF version, n
    <3>4. \A e \in b : e \in n.entry.content \/ Lost(e)
      BY <3>1, <3>2, <3>3 DEF ThreeWay
    <3>5. n.base = m.base
      BY <3>1, <3>2, <3>3
    <3> QED
      BY <3>4, <3>5
  <2> HIDE DEF n
  <2>4. BaseCovered'
    BY <1>4, <2>2, <2>3 DEF BaseCovered
  <2>5. Later'
    BY <2>1, <2>2 DEF Later
  <2>6. orphans' = orphans \cup {Id(n)}
    BY <1>7 DEF n
  <2>7. SeenCovered' /\ MadeBy'
    BY <1>1, <1>4, <2>6 DEF SeenCovered, MadeBy
  <2>8. Orphans'
    <3>1. \A p \in Peers : record[p] # NoVersion => Id(record[p]) # Id(n)
      BY <1>7, FreshOrdered, Numbers, TwoEnds DEF n, ConvergeInv
    <3>2. \A id \in orphans' : id.peer = Connector /\ id.seq \in Nat /\ id.seq <= sequence'[Connector]
      BY <2>1, <2>6 DEF Orphans
    <3> QED
      BY <1>1, <2>6, <3>1, <3>2, EndsAre, TwoEnds DEF Orphans
  <2> QED
    BY <1>3, <1>5, <2>4, <2>5, <2>7, <2>8
<1> QED
  <2>1. Decision.merge = NoMerge => Decision.record \in {record[Connector], record[Responder]}
    BY Numbers, EndsAre, TwoEnds, DecideFrom DEF Decision
  <2>2. Decision.merge # NoMerge =>
          Decision.merge.winner \in {record[Connector], record[Responder]}
    BY MergeInputs
  <2> QED
    BY <1>6, <1>7, <2>1, <2>2, PlanMade DEF HistoryInv

----------------------------------------------------------------------------
(* The plan is applied.                                                    *)

(* What an end gives up for the plan is accounted for.                     *)
LEMMA InstallCovered ==
  ASSUME ConvergeInv, EditsInv, NEW p \in Pending, Install(p), UNCHANGED waived
  PROVE  /\ NoneForgotten /\ KeptTyped'
         /\ cycle # "deferred" => \A e : Offered(e) => Lost(e)'
         /\ \A e \in EditsOf(record[p]) : e \in EditsOf(record'[p]) \/ Lost(e)'
<1> DEFINE old == record[p]
           x == Effective(p)
<1>0. p \in Peers
  BY DEF Pending
<1>1. /\ kept' = [kept EXCEPT ![p] = @ \cup Recovery(x.conflict)]
      /\ kept = [o \in Peers |-> kept[o]]
      /\ unseen' = IF old # NoVersion /\ Id(old) \in orphans /\ record'[p] # old
                      /\ HasSeen(record'[p], Id(old))
                   THEN unseen \cup (old.entry.content \ record'[p].entry.content)
                   ELSE unseen
  BY DEF Install, EditsInv, KeptTyped
<1>2. /\ KeptTyped' /\ kept'[p] = kept[p] \cup Recovery(x.conflict)
      /\ \A o \in Peers : kept[o] \subseteq kept'[o]
  BY <1>0, <1>1 DEF KeptTyped
<1>3. unseen \subseteq unseen'
  BY <1>1
<1>4. NoneForgotten
  BY <1>2, <1>3, LostStays
<1>5. ASSUME cycle # "deferred", NEW e, Offered(e) PROVE Lost(e)'
  <2>1. x = plan
    BY <1>5 DEF Effective
  <2>2. plan.conflict \in kept'[p]
    BY <1>2, <1>5, <2>1 DEF Offered, Recovery
  <2> QED
    BY <1>0, <1>5, <2>2 DEF Offered, Lost, Stored
<1>6. ASSUME NEW e \in EditsOf(old), e \notin EditsOf(record'[p])
      PROVE  Lost(e)'
  <2>1. record'[p] # old
    BY <1>6
  <2>2. record'[p] = plan.record /\ cycle # "deferred"
    <3>1. PICK r : /\ record' = [record EXCEPT ![p] = r]
                   /\ r = old \/ (r = plan.record /\ cycle # "deferred")
      BY <1>0, InstallMakes
    <3> QED
      BY <1>0, <2>1, <3>1, Numbers
  <2>3. old # NoVersion
    BY <1>6 DEF EditsOf, RecordedEntry, Absent
  <2>4. Taken(p)
    BY <2>3 DEF EditsInv, VersionsInv, PlanCovers
  <2>5. CASE /\ Id(old) \in orphans /\ plan.record # NoVersion
             /\ HasSeen(plan.record, Id(old))
    <3>1. EditsOf(old) = old.entry.content /\ EditsOf(record'[p]) = record'[p].entry.content
      BY <2>2, <2>3, <2>5 DEF EditsOf, RecordedEntry
    <3>2. e \in unseen'
      BY <1>1, <1>6, <2>1, <2>2, <2>3, <2>5, <3>1
    <3> QED
      BY <3>2 DEF Lost
  <2>6. CASE e \in EditsOf(plan.record) \/ Lost(e) \/ Offered(e)
    BY <1>4, <1>5, <1>6, <2>2, <2>6 DEF NoneForgotten
  <2> QED
    BY <1>6, <2>4, <2>5, <2>6 DEF Taken
<1> QED
  BY <1>2, <1>4, <1>5, <1>6

LEMMA InstallTrees ==
  ASSUME ConvergeInv, EditsInv, NEW p \in Pending, Install(p), UNCHANGED <<waived, used>>
  PROVE  TreesInv'
<1> DEFINE old == record[p]
<1>0. p \in Peers
  BY DEF Pending
<1>1. /\ NoneForgotten
      /\ \A e \in EditsOf(old) : e \in EditsOf(record'[p]) \/ Lost(e)'
  BY InstallCovered
<1>2. PICK r : /\ record' = [record EXCEPT ![p] = r]
               /\ r = old \/ (r = plan.record /\ cycle # "deferred")
               /\ cycle # "deferred" =>
                    r = plan.record \/ (old = NoVersion /\ RecordedEntry(plan.record) = Absent)
  BY <1>0, InstallMakes
<1>3. /\ record'[p] = r /\ \A o \in Peers : o # p => record'[o] = record[o]
      /\ disk \in [Peers -> Entries]
  BY <1>0, <1>2, Numbers DEF ConvergeInv, TypeOK
<1>4. \/ disk' = disk /\ (r = old \/ EditsOf(r) = {})
      \/ /\ disk[p] = RecordedEntry(old) /\ disk' = [disk EXCEPT ![p] = RecordedEntry(r)]
  <2>1. CASE cycle = "deferred"
    BY <1>2, <2>1 DEF Install
  <2>2. CASE cycle # "deferred"
    <3>1. Effective(p) = plan
      BY <2>2 DEF Effective
    <3>2. CASE plan.record = old
      BY <1>2, <2>2, <3>1, <3>2 DEF Install
    <3>3. CASE plan.record # old /\ Untouched(p)
      <4>1. disk' = disk
        BY <3>1, <3>3 DEF Install
      <4>2. RecordedEntry(plan.record) = Absent
        BY <3>1, <3>3 DEF Untouched
      <4> QED
        BY <1>2, <4>1, <4>2 DEF EditsOf, Absent
    <3>4. CASE plan.record # old /\ ~ Untouched(p)
      <4>1. disk' = [disk EXCEPT ![p] = RecordedEntry(plan.record)] /\ disk[p] = RecordedEntry(old)
        BY <2>2, <3>1, <3>4 DEF Install, Undisturbed
      <4>2. r = plan.record
        <5>1. old = NoVersion /\ RecordedEntry(plan.record) = Absent => Untouched(p)
          BY <3>1, <3>4 DEF Untouched, RecordedEntry
        <5> QED
          BY <1>2, <2>2, <3>4, <5>1
      <4> QED
        BY <4>1, <4>2
    <3> QED
      BY <3>2, <3>3, <3>4
  <2> QED
    BY <2>1, <2>2
<1>5. CASE disk' = disk /\ (r = old \/ EditsOf(r) = {})
  BY <1>0, <1>1, <1>3, <1>5 DEF EditsInv, TreesInv, DiskFollows, UsedThere, NoneForgotten
<1>6. CASE disk[p] = RecordedEntry(old) /\ disk' = [disk EXCEPT ![p] = RecordedEntry(r)]
  <2>1. disk'[p].content = EditsOf(r) /\ disk[p].content = EditsOf(old)
        /\ \A o \in Peers : o # p => disk'[o] = disk[o]
    BY <1>0, <1>3, <1>6 DEF EditsOf
  <2>2. DiskFollows'
    BY <1>0, <1>1, <1>3, <2>1 DEF EditsInv, TreesInv, DiskFollows, NoneForgotten
  <2>3. UsedThere'
    <3> SUFFICES ASSUME NEW e \in used, NEW o \in Peers, e \in disk[o].content
                 PROVE  (\E q \in Peers : e \in disk'[q].content) \/ Lost(e)'
      BY <1>1 DEF EditsInv, TreesInv, UsedThere, NoneForgotten
    <3> QED
      BY <1>0, <1>1, <1>3, <2>1
  <2> QED
    BY <2>2, <2>3 DEF TreesInv
<1> QED
  BY <1>4, <1>5, <1>6

LEMMA ResponderEdits ==
  ASSUME ConvergeInv, HistoryInv, EditsInv, ResponderApplies
  PROVE  EditsInv'
<1> USE DEF EditsInv, VersionsInv
<1> DEFINE C == Connector
           R == Responder
           a == record[C]
           old == record[R]
           r == record'[R]
<1>0. C \in Peers /\ R \in Peers /\ R # C /\ Peers = {C, R}
  BY EndsAre, TwoEnds
<1>1. /\ Install(R) /\ round = "planned" /\ round' = "applied"
      /\ UNCHANGED <<sequence, plan, cycle, used, waived, orphans>>
  BY DEF ResponderApplies
<1>2. R \in Pending /\ C \in Pending /\ Pending' = {C}
  BY <1>0, <1>1 DEF Pending
<1>3. /\ NoneForgotten /\ KeptTyped' /\ TreesInv'
      /\ cycle # "deferred" => \A e : Offered(e) => Lost(e)'
  BY <1>1, <1>2, InstallCovered, InstallTrees
<1>4. \A e : Lost(e) => Lost(e)'
  BY <1>3 DEF NoneForgotten
<1>5. /\ record'[C] = a
      /\ r = old \/ (r = plan.record /\ cycle # "deferred")
      /\ past'[C] = past[C] /\ past[R] \subseteq past'[R]
      /\ r # old /\ old # NoVersion => Id(old) \in past'[R]
  <2>1. PICK y : /\ record' = [record EXCEPT ![R] = y]
                 /\ y = old \/ (y = plan.record /\ cycle # "deferred")
    BY <1>0, <1>1, InstallMakes
  <2>2. record'[R] = y /\ record'[C] = a /\ past \in [Peers -> SUBSET Ids]
    BY <1>0, <2>1, Numbers DEF HistoryInv, PastInv, PastTyped
  <2>3. MovesOn(R)
    BY <1>1 DEF Install
  <2> QED
    BY <1>0, <2>1, <2>2, <2>3 DEF MovesOn
<1>6. r # old =>
        \/ /\ a # NoVersion /\ Id(r) \in orphans /\ HasSeen(r, Id(a))
           /\ r # NoVersion
        \/ r = a /\ a # NoVersion
  BY <1>0, <1>1, <1>5 DEF HistoryInv, PlanForm, NewMerge, Adopts
<1>7. Alive' \subseteq Alive
  BY <1>0, <1>1, <1>5 DEF Alive
<1> HIDE DEF C, R, a, old, r
<1>8. BaseCovered' /\ Later'
  BY <1>4, <1>7 DEF BaseCovered, Later
<1>9. PlanCovers'
  <2>1. a # NoVersion => Taken(C)
    BY <1>2 DEF PlanCovers, a
  <2>2. a # NoVersion => Taken(C)'
    BY <1>1, <1>4, <1>5, <2>1 DEF Taken, Offered, a
  <2> QED
    BY <1>2, <1>5, <2>2 DEF PlanCovers
<1>10. MadeBy'
  <2>1. r # NoVersion /\ r.peer = C => Id(r) \in past[C] \cup orphans \/ a = r
    BY <1>0, <1>6 DEF MadeBy, a, old
  <2>2. a # NoVersion /\ a.peer = R => Id(a) \in past'[R] \cup orphans \/ r = a
    BY <1>0, <1>5 DEF MadeBy, a, old
  <2> QED
    BY <1>0, <1>1, <1>5, <2>1, <2>2 DEF MadeBy, r
<1>11. Orphans'
  BY <1>0, <1>1, <1>5, <1>6 DEF Orphans, C, R, a, r, old
<1>12. SeenCovered'
  <2> SUFFICES ASSUME NEW x \in Peers, NEW y \in Peers, x # y,
                      record'[x] # NoVersion, record'[y] # NoVersion,
                      HasSeen(record'[x], Id(record'[y])), Id(record'[y]) \notin orphans,
                      NEW e \in EditsOf(record'[y])
               PROVE  e \in EditsOf(record'[x]) \/ Lost(e)'
    BY <1>1 DEF SeenCovered
  <2>1. CASE r = old
    <3>1. record'[x] = record[x] /\ record'[y] = record[y]
      BY <1>0, <1>5, <2>1 DEF r, old, a
    <3> QED
      BY <1>4, <3>1 DEF SeenCovered
  <2>2. CASE r # old /\ r = a
    BY <1>0, <1>5, <2>2 DEF r, a
  <2>3. CASE r # old /\ r # a
    <3>1. Id(r) \in orphans /\ r = plan.record /\ cycle # "deferred"
      BY <1>5, <1>6, <2>3
    <3>2. x = R /\ y = C
      BY <1>0, <3>1 DEF r
    <3>3. record'[x] = plan.record /\ record'[y] = a /\ a = record[C]
      BY <1>5, <3>1, <3>2 DEF r, a
    <3>4. Taken(C)
      BY <1>2, <3>3 DEF PlanCovers
    <3>5. e \in EditsOf(plan.record) \/ Lost(e) \/ Offered(e)
      BY <3>3, <3>4 DEF Taken
    <3> QED
      BY <1>3, <1>4, <3>1, <3>3, <3>5
  <2> QED
    BY <2>1, <2>2, <2>3
<1> QED
  BY <1>3, <1>8, <1>9, <1>10, <1>11, <1>12

LEMMA ConnectorEdits ==
  ASSUME ConvergeInv, HistoryInv, EditsInv, ConnectorApplies
  PROVE  EditsInv'
<1> USE DEF EditsInv
<1> DEFINE C == Connector
           R == Responder
           old == record[C]
           b == record[R]
           r == record'[C]
<1>0. C \in Peers /\ R \in Peers /\ R # C /\ Peers = {C, R}
  BY EndsAre, TwoEnds
<1>1. /\ Install(C) /\ round = "applied" /\ round' = "committed"
      /\ UNCHANGED <<sequence, plan, cycle, used, waived>>
      /\ orphans' = orphans \ (IF r = NoVersion THEN {} ELSE {Id(r)})
  BY DEF ConnectorApplies
<1>2. C \in Pending /\ Pending' = {}
  BY <1>0, <1>1 DEF Pending
<1>3. NoneForgotten /\ KeptTyped' /\ TreesInv'
  BY <1>1, <1>2, InstallCovered, InstallTrees
<1>4. /\ record' = [record EXCEPT ![C] = r] /\ record'[R] = b
      /\ r = old \/ (r = plan.record /\ cycle # "deferred")
  <2>1. PICK y : /\ record' = [record EXCEPT ![C] = y]
                 /\ y = old \/ (y = plan.record /\ cycle # "deferred")
    BY <1>0, <1>1, InstallMakes
  <2> QED
    BY <1>0, <2>1, Numbers
<1>5. CASE r = old
  <2>1. record' = record
    BY <1>0, <1>4, <1>5, Numbers
  <2>2. past' = past
    BY <1>1, <2>1 DEF Install, MovesOn
  <2>3. orphans' = orphans
    BY <1>1, <1>5 DEF VersionsInv, Orphans
  <2>4. sequence' \in [Peers -> Nat] /\ \A o \in Peers : sequence[o] <= sequence'[o]
    BY <1>1, Numbers
  <2>5. VersionsInv'
    BY <1>1, <1>2, <1>3, <2>1, <2>2, <2>3, <2>4, VersionsStay
  <2> QED
    BY <1>3, <2>5
<1>6. CASE r # old
  <2>1. r = b /\ b # NoVersion
    BY <1>1, <1>4, <1>6 DEF HistoryInv, PlanForm
  <2>2. \A p \in Peers : record'[p] = b
    BY <1>0, <1>4, <2>1
  <2>3. Alive' \subseteq Alive
    BY <1>0, <1>1, <2>2 DEF Alive
  <2>4. BaseCovered' /\ Later'
    BY <1>3, <2>3 DEF VersionsInv, BaseCovered, Later, NoneForgotten
  <2>5. SeenCovered' /\ MadeBy'
    BY <2>2 DEF SeenCovered, MadeBy
  <2>6. Orphans'
    BY <1>0, <1>1, <2>1, <2>2 DEF VersionsInv, Orphans
  <2>7. PlanCovers'
    BY <1>2 DEF PlanCovers
  <2> QED
    BY <1>3, <2>4, <2>5, <2>6, <2>7 DEF VersionsInv
<1> QED
  BY <1>5, <1>6

LEMMA InitEdits == Init => EditsInv
<1> SUFFICES ASSUME Init PROVE EditsInv
  OBVIOUS
<1>1. plan.record = NoVersion /\ \A p \in Peers : record[p] = NoVersion
  BY DEF Init, NoPlan, Outcome
<1>2. Alive = {} /\ Pending = {}
  BY <1>1 DEF Init, Alive, Pending
<1>3. TreesInv
  BY <1>1 DEF Init, TreesInv, DiskFollows, UsedThere, EditsOf, RecordedEntry, Absent
<1>4. VersionsInv
  BY <1>1, <1>2, EndsAre, TwoEnds DEF Init, VersionsInv, BaseCovered, SeenCovered, Later, MadeBy,
    Orphans, PlanCovers
<1> QED
  BY <1>3, <1>4 DEF Init, EditsInv, KeptTyped

LEMMA NextEdits == ConvergeInv /\ HistoryInv /\ EditsInv /\ [Next]_vars => EditsInv'
<1> SUFFICES ASSUME ConvergeInv, HistoryInv, EditsInv, [Next]_vars PROVE EditsInv'
  OBVIOUS
<1>0. ASSUME UNCHANGED <<disk, record, sequence, kept, history>>,
             (round' = "idle" /\ plan' = NoPlan) \/ UNCHANGED <<round, plan>>
      PROVE  EditsInv'
  <2>1. NoneForgotten
    BY <1>0, LostStays
  <2>2. Pending' \subseteq Pending /\ (plan' = plan \/ Pending' = {}) /\ plan' \in {plan, NoPlan}
    BY <1>0 DEF Pending
  <2>3. sequence' \in [Peers -> Nat] /\ \A o \in Peers : sequence[o] <= sequence'[o]
    BY <1>0, Numbers
  <2>4. VersionsInv'
    BY <1>0, <2>1, <2>2, <2>3, VersionsStay DEF EditsInv
  <2> QED
    BY <1>0, <2>1, <2>4, TreesStay DEF EditsInv, KeptTyped
<1>1. CASE \/ \E p \in Peers, e \in Edits, replaces \in BOOLEAN : Edit(p, e, replaces)
           \/ \E p \in Peers, e \in Edits, entry \in {Absent, Directory} : Remove(p, e, entry)
  BY <1>1, UsersEdits
<1>2. CASE \E p \in Peers : Refresh(p)
  <2>1. PICK p \in Peers : Refresh(p)
    BY <1>2
  <2>2. Rescan(p) /\ round' = "idle" /\ UNCHANGED <<disk, used, orphans, kept, waived, unseen, plan>>
    BY <2>1 DEF Refresh
  <2>3. NoneForgotten /\ KeptTyped'
    BY <2>2, LostStays DEF EditsInv, KeptTyped
  <2> QED
    BY <2>2, <2>3, RescanEdits DEF EditsInv
<1>3. CASE MakePlan
  BY <1>3, PlanEdits
<1>4. CASE ResponderApplies
  BY <1>4, ResponderEdits
<1>5. CASE ConnectorApplies
  BY <1>5, ConnectorEdits
<1>6. CASE ResponderInvalidates \/ ConnectorInvalidates
  <2>1. PICK p \in Peers : Invalidate(p)
    BY <1>6, EndsAre, TwoEnds DEF ResponderInvalidates, ConnectorInvalidates
  <2>2. Rescan(p) /\ round' = "idle" /\ plan' = NoPlan
        /\ UNCHANGED <<disk, used, orphans, waived, unseen>>
    BY <2>1 DEF Invalidate, Close
  <2>3. PICK more : kept' = [kept EXCEPT ![p] = kept[p] \cup more]
    <3>1. kept' = [kept EXCEPT ![p] = kept[p]
            \cup ({c \in Recovery(plan.conflict) : c.winner = record'[p]}
                  \cup Recovery(Decide(record'[p], plan.record).conflict))]
      BY <2>1 DEF Invalidate
    <3> QED
      BY <3>1
  <2>4. KeptTyped' /\ \A o \in Peers : kept[o] \subseteq kept'[o]
    BY <2>3 DEF EditsInv, KeptTyped
  <2>5. NoneForgotten
    BY <2>2, <2>4, LostStays
  <2> QED
    BY <2>2, <2>4, <2>5, RescanEdits DEF EditsInv
<1>7. CASE ResponderFinishes
  BY <1>0, <1>7 DEF ResponderFinishes, Close
<1>8. CASE Break
  BY <1>0, <1>8 DEF Break, Close
<1>9. CASE UNCHANGED vars
  BY <1>0, <1>9
<1> QED
  BY <1>1, <1>2, <1>3, <1>4, <1>5, <1>6, <1>7, <1>8, <1>9, Zenon DEF Next, RoundStep

(* What a user wrote, and no user took away, is in a tree or in a recovery *)
(* record (EditKept), outside the known gap, whatever was merged, lost to  *)
(* the other end, deferred or cut off: a version contains the edits of     *)
(* those it has seen, and of its base, but for the ones accounted for.     *)
THEOREM EditsSurvive == Spec => []EditKept
<1>1. Init => ConvergeInv /\ HistoryInv /\ EditsInv
  BY InitInv, InitHistory, InitEdits
<1>2. ConvergeInv /\ HistoryInv /\ EditsInv /\ [Next]_vars
        => (ConvergeInv /\ HistoryInv /\ EditsInv)'
  BY NextInv, NextHistory, NextEdits
<1>3. EditsInv => EditKept
  BY DEF EditsInv, TreesInv, UsedThere, Lost, Stored, EditKept, Recoverable
<1> QED
  BY <1>1, <1>2, <1>3, PTL DEF Spec
=============================================================================
