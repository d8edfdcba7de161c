----------------------------- MODULE MCConverge -----------------------------
(* Two ends and a few edits: from two empty trees, or from two ends that   *)
(* have synchronized and acknowledged a first edit of the responder.       *)
EXTENDS Converge

First == [peer |-> Responder, seq |-> 1, time |-> 1, seen |-> NothingSeen,
          base |-> NoBase, entry |-> [kind |-> "file", content |-> {1}]]

Synchronized ==
  /\ disk = [p \in Peers |-> First.entry]
  /\ record = [p \in Peers |-> First]
  /\ sequence = [p \in Peers |-> IF p = Responder THEN 1 ELSE 0]
  /\ head = [p \in Peers |-> AsBase(First)] /\ kept = [p \in Peers |-> {}]
  /\ round = "idle" /\ scanned = {} /\ plan = NoPlan
  /\ cycle = "fresh" /\ breaks = 0
  /\ used = {1} /\ waived = {} /\ past = [p \in Peers |-> {}]
  /\ common = {Id(First)} /\ orphans = {} /\ unseen = {}

MCSpec == Synchronized /\ [][Next]_vars

MCFairSpec == (Init \/ Synchronized) /\ [][Next]_vars /\ WF_vars(RoundStep)
============================================================================
