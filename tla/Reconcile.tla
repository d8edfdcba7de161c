----------------------------- MODULE Reconcile -----------------------------
(***************************************************************************)
(* Versions of one path and their reconciliation (src/src/model.rs,        *)
(* src/src/reconcile.rs, src/src/sync.rs, src/src/scan.rs).                *)
(*                                                                         *)
(* A version names the peer that made it and the sequence number it had    *)
(* there, what it has seen of each peer, the shared version its content    *)
(* grew from, a timestamp, and the entry itself.  `seen' holds at most one *)
(* identity per peer, so it is a function to sequence numbers in which 0   *)
(* says that nothing of that peer was seen.  Of an entry only the kind and *)
(* the content matter: sizes, modes and link targets are part of the       *)
(* content.  Authenticators (functions of what they authenticate) and the  *)
(* records of releases that had none are left out.                         *)
(***************************************************************************)
EXTENDS Naturals

CONSTANTS
  Peers,      \* the two ends, numbered in the order of their identities
  NoVersion,  \* no record of the path
  NoBase,
  NoConflict,
  NoMerge

ASSUME PeersAreNumbers == Peers \subseteq Nat

Absent    == [kind |-> "tombstone", content |-> {}]
IsFile(e) == e.kind = "file"

Id(v)     == [peer |-> v.peer, seq |-> v.seq]
AsBase(v) == IF IsFile(v.entry) THEN [id |-> Id(v), entry |-> v.entry] ELSE NoBase

(* Mutant: one version too few.                                            *)
HasSeenOlder(v, id) == Id(v) = id \/ v.seen[id.peer] > id.seq

HasSeen(v, id) == Id(v) = id \/ v.seen[id.peer] >= id.seq

(* Mutant: no order between versions of one time.                          *)
AtLeastByTime(v, w) == v.time >= w.time

(* Last write wins: the timestamp, then the peer, then the sequence.       *)
AtLeast(v, w) ==
  \/ v.time > w.time
  \/ v.time = w.time /\ v.peer > w.peer
  \/ v.time = w.time /\ v.peer = w.peer /\ v.seq >= w.seq

Winner(v, w) == IF AtLeast(v, w) THEN v ELSE w
Loser(v, w)  == IF AtLeast(v, w) THEN w ELSE v

(* A conflict keeps both inputs, in an order that does not depend on which *)
(* end computes it: a set.                                                 *)
Conflict(winner, loser, reason) ==
  [inputs |-> {winner, loser}, winner |-> winner, reason |-> reason]

SameBase(v, w) ==
  /\ v.base # NoBase /\ v.base = w.base
  /\ HasSeen(v, v.base.id) /\ HasSeen(w, v.base.id)

(* Two versions neither of which has seen the other, with unequal entries. *)
Divergent(v, w) ==
  LET win == Winner(v, w)
      los == Loser(v, w)
      files == {x \in {v, w} : IsFile(x.entry)}
  IN  [ record   |-> win,
        merge    |-> IF files = {v, w} /\ SameBase(v, w)
                       THEN [base |-> win.base, winner |-> win, loser |-> los]
                       ELSE NoMerge,
        conflict |->
          IF files = {} \/ (files = {v, w} /\ SameBase(v, w)) THEN NoConflict
          ELSE Conflict(win, los,
                 IF files # {v, w} THEN "destructive"
                 ELSE IF NoBase \in {v.base, w.base} THEN "absent_base"
                 ELSE "unequal_base") ]

Adopt(v) == [record |-> v, merge |-> NoMerge, conflict |-> NoConflict]

(* reconcile: what becomes of one path of which the ends hold v and w.     *)
Decide(v, w) ==
  IF v = NoVersion THEN Adopt(w)
  ELSE IF w = NoVersion \/ HasSeen(v, Id(w)) THEN Adopt(v)
  ELSE IF HasSeen(w, Id(v)) THEN Adopt(w)
  ELSE IF v.entry = w.entry THEN Adopt(Winner(v, w))
  ELSE Divergent(v, w)

----------------------------------------------------------------------------
(* Making versions.                                                        *)

Larger(m, n) == IF m >= n THEN m ELSE n

(* remember, remember_version: only the highest sequence of a peer stays.  *)
Remember(seen, id)        == [seen EXCEPT ![id.peer] = Larger(@, id.seq)]
RememberVersion(seen, v)  ==
  Remember([p \in Peers |-> Larger(seen[p], v.seen[p])], Id(v))
NothingSeen == [p \in Peers |-> 0]

(* The base a scan gives a successor of old: old itself when both ends     *)
(* acknowledged it, else the base of an unshared local version.            *)
NextBase(peer, old, head) ==
  IF old = NoVersion THEN NoBase
  ELSE IF head = AsBase(old) THEN AsBase(old)
  ELSE IF old.peer = peer THEN old.base
  ELSE NoBase

(* A scan that finds an entry the record does not have makes its version;  *)
(* a deletion starts without a base.                                       *)
Successor(peer, seq, time, old, head, entry) ==
  [ peer  |-> peer, seq |-> seq, time |-> time, entry |-> entry,
    seen  |-> IF old = NoVersion THEN NothingSeen ELSE Remember(old.seen, Id(old)),
    base  |-> IF entry = Absent THEN NoBase ELSE NextBase(peer, old, head) ]

RecordedEntry(v) == IF v = NoVersion THEN Absent ELSE v.entry

(* materialize_merges: the version of a merged file.                       *)
Merged(peer, seq, m, content) ==
  [ peer |-> peer, seq |-> seq,
    time |-> Larger(m.winner.time, m.loser.time),
    seen |-> RememberVersion(RememberVersion(NothingSeen, m.winner), m.loser),
    base |-> m.base,
    entry |-> [kind |-> "file", content |-> content] ]

(* validate_materialized_plan_shape, for one merged path: what the         *)
(* responder requires of the connector's version.                          *)
PermittedMerge(r, m, connector) ==
  LET own == {v \in {m.winner, m.loser} : v.peer = connector}
  IN  /\ IsFile(r.entry)
      /\ r = Merged(connector, r.seq, m, r.entry.content)
      /\ \A v \in own : r.seq > v.seq
============================================================================
