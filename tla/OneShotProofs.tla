--------------------------- MODULE OneShotProofs ---------------------------
(***************************************************************************)
(* Proofs about module OneShot, for any edits, capacity of the pipes, size *)
(* of the batches, number of reports, and number of commands and failures. *)
(*                                                                         *)
(* The queue of an end is what has been written to it or can still be: a   *)
(* write moves nothing in or out of it, an answer takes its head and adds  *)
(* to the other queue, a failure cuts both.  The inductive invariant       *)
(* Session says what the queues may hold for each place the connector is   *)
(* at, and what each end may conclude: while the connector plans, the      *)
(* responder has been told nothing it could apply; the plan is made of     *)
(* both scans of this connection, and is proposed only if the user agrees; *)
(* the one Plan makes the responder's plan the connector's; heads come     *)
(* before the message that acknowledges them and after the connector's own *)
(* acknowledgement; a Done is the end of a list of objects or of the       *)
(* responder.  Most steps are calm, they tell neither end any of this, and *)
(* are covered by CalmStep; the others each have a lemma.                  *)
(*                                                                         *)
(* The second invariant, Polite, gives each queue its whole shape: a       *)
(* stream of rising reports and its end, a batch of the objects its reader *)
(* waits for, heads between reports and an acknowledgement.  While the     *)
(* ends are connected only one of them has something to say (Paired), so   *)
(* that an answer joins an empty queue or the reports before it.  What     *)
(* stands first in a queue of such a shape is what its reader takes.       *)
(***************************************************************************)
EXTENDS OneShot, SequenceTheorems, FiniteSetTheorems, WellFoundedInduction, TLAPS

Early == {"opening", "scanning", "objects", "cancelled"}
Late  == {"proposed", "sending", "applying", "heads", "apply", "commit", "finish"}
Begun == {"idle", "waiting", "scan"}
Over  == {"ended", "failed"}

Signals == {"ScanRequest", "Reserved", "Done", "Plan", "Cancel", "BatchEnd", "Applied",
            "CommitAck", "Error"}
Messages ==
  [type : Signals, arg : {None}] \cup [type : {"Sync"}, arg : BOOLEAN]
    \cup [type : {"ScanProgress", "ApplyProgress", "Object"}, arg : Nat]
    \cup [type : {"Need"}, arg : Seq(Nat)] \cup [type : {"Snapshot"}, arg : Scans]
    \cup [type : {"Heads"}, arg : SUBSET Edits]
    \cup [type : {"Receipt"}, arg : [objects : Nat, bytes : Nat]]

PipesTyped ==
  /\ wire \in [Ends -> Seq(Messages)] /\ outbox \in [Ends -> Seq(Messages)]
  /\ open \in BOOLEAN

(* What has been written to an end, or can still be.                       *)
Queue(e) == wire[e] \o (IF open THEN outbox[Other(e)] ELSE <<>>)

----------------------------------------------------------------------------
(* Lemmas about sequences of messages.                                     *)

Has(q, t) == \E k \in DOMAIN q : q[k].type = t

PlanOnce(q) == \A j, k \in DOMAIN q : q[j].type = "Plan" /\ q[k].type = "Plan" => j = k
DoneLast(q) == \A k \in DOMAIN q : q[k].type = "Done" => k = Len(q)
HeadsFirst(q) ==
  \A k \in DOMAIN q : q[k].type = "CommitAck" => \E j \in 1 .. k - 1 : q[j].type = "Heads"

(* A message was taken from the front, or some were lost at the end.       *)
LEMMA TailOf ==
  ASSUME NEW q \in Seq(Messages), q # <<>>
  PROVE  /\ Head(q) \in Range(q) /\ Range(Tail(q)) \subseteq Range(q)
         /\ Head(q).type = "Plan" /\ PlanOnce(q) => ~Has(Tail(q), "Plan")
         /\ PlanOnce(q) => PlanOnce(Tail(q))
         /\ Head(q).type = "Done" /\ DoneLast(q) => Tail(q) = <<>>
         /\ DoneLast(q) => DoneLast(Tail(q))
         /\ HeadsFirst(q) => Head(q).type # "CommitAck"
         /\ HeadsFirst(q) /\ Head(q).type # "Heads" => HeadsFirst(Tail(q))
<1> DEFINE t == Tail(q)
<1>1. /\ Len(q) \in Nat \ {0} /\ Head(q) = q[1] /\ DOMAIN q = 1 .. Len(q)
      /\ t \in Seq(Messages) /\ Len(t) = Len(q) - 1 /\ DOMAIN t = 1 .. Len(t)
      /\ \A i \in 1 .. Len(t) : t[i] = q[i + 1]
  BY HeadTailProperties, LenProperties, EmptySeq
<1> HIDE DEF t
<1>a. 1 \in DOMAIN q /\ \A i \in DOMAIN t : i + 1 \in DOMAIN q /\ t[i] = q[i + 1]
  BY <1>1
<1>2. Head(q) \in Range(q) /\ Range(t) \subseteq Range(q)
  BY <1>1, <1>a DEF Range
<1>3. PlanOnce(q) => PlanOnce(t) /\ (Head(q).type = "Plan" => ~Has(t, "Plan"))
  BY <1>1, <1>a DEF PlanOnce, Has
<1>4. Head(q).type = "Done" /\ DoneLast(q) => t = <<>>
  BY <1>1, EmptySeq DEF DoneLast
<1>5. DoneLast(q) => DoneLast(t)
  BY <1>1 DEF DoneLast
<1>6. HeadsFirst(q) => Head(q).type # "CommitAck"
  BY <1>1 DEF HeadsFirst
<1>7. ASSUME HeadsFirst(q), Head(q).type # "Heads" PROVE HeadsFirst(t)
  <2> SUFFICES ASSUME NEW k \in 1 .. Len(t), t[k].type = "CommitAck"
               PROVE  \E j \in 1 .. k - 1 : t[j].type = "Heads"
    BY <1>1 DEF HeadsFirst
  <2>1. PICK j \in 1 .. k : q[j].type = "Heads"
    <3>1. k + 1 \in DOMAIN q /\ q[k + 1].type = "CommitAck" /\ k + 1 - 1 = k
      BY <1>1
    <3> QED
      BY <1>7, <3>1 DEF HeadsFirst
  <2>2. j - 1 \in 1 .. k - 1 /\ t[j - 1] = q[j]
    BY <1>1, <1>7, <2>1
  <2> QED
    BY <2>1, <2>2
<1> QED
  BY <1>2, <1>3, <1>4, <1>5, <1>6, <1>7 DEF t

LEMMA PrefixOf ==
  ASSUME NEW q \in Seq(Messages), NEW n \in 0 .. Len(q)
  PROVE  LET r == SubSeq(q, 1, n)
         IN  /\ r \in Seq(Messages) /\ Range(r) \subseteq Range(q)
             /\ PlanOnce(q) => PlanOnce(r)
             /\ DoneLast(q) => DoneLast(r)
             /\ HeadsFirst(q) => HeadsFirst(r)
<1> DEFINE r == SubSeq(q, 1, n)
<1>0. Len(q) \in Nat /\ n \in Nat /\ n <= Len(q) /\ DOMAIN q = 1 .. Len(q)
  BY LenProperties
<1>1. r \in Seq(Messages) /\ Len(r) = n /\ \A i \in 1 .. n : r[i] = q[i]
  <2>1. \A i \in 1 .. n : q[i] \in Messages
    BY <1>0, ElementOfSeq
  <2>2. n - 1 + 1 = n /\ (IF 1 <= n THEN n - 1 + 1 ELSE 0) = n /\ \A i \in 1 .. n : 1 + i - 1 = i
    BY <1>0
  <2> QED
    BY <1>0, <2>1, <2>2, SubSeqProperties
<1>2. DOMAIN r = 1 .. n
  BY <1>1, LenProperties
<1> HIDE DEF r
<1>3. Range(r) \subseteq Range(q) /\ (PlanOnce(q) => PlanOnce(r)) /\ (DoneLast(q) => DoneLast(r))
  BY <1>0, <1>1, <1>2 DEF Range, PlanOnce, DoneLast
<1>4. ASSUME HeadsFirst(q) PROVE HeadsFirst(r)
  <2> SUFFICES ASSUME NEW k \in 1 .. n, r[k].type = "CommitAck"
               PROVE  \E j \in 1 .. k - 1 : r[j].type = "Heads"
    BY <1>2 DEF HeadsFirst
  <2>1. PICK j \in 1 .. k - 1 : q[j].type = "Heads"
    BY <1>0, <1>1, <1>4 DEF HeadsFirst
  <2> QED
    BY <1>0, <1>1, <2>1
<1> QED
  BY <1>1, <1>3, <1>4 DEF r

LEMMA Longer ==
  ASSUME NEW q \in Seq(Messages), NEW m \in Seq(Messages)
  PROVE  /\ q \o m \in Seq(Messages) /\ Range(q \o m) = Range(q) \cup Range(m)
         /\ PlanOnce(q) /\ ~Has(m, "Plan") => PlanOnce(q \o m)
         /\ ~Has(q, "Plan") /\ PlanOnce(m) => PlanOnce(q \o m)
         /\ ~Has(q, "Done") /\ DoneLast(m) => DoneLast(q \o m)
         /\ HeadsFirst(q) /\ HeadsFirst(m) => HeadsFirst(q \o m)
<1> DEFINE r == q \o m
<1>0. Len(q) \in Nat /\ Len(m) \in Nat /\ DOMAIN q = 1 .. Len(q) /\ DOMAIN m = 1 .. Len(m)
  BY LenProperties
<1>1. /\ r \in Seq(Messages) /\ Len(r) = Len(q) + Len(m) /\ DOMAIN r = 1 .. Len(q) + Len(m)
      /\ \A i \in 1 .. Len(q) + Len(m) : r[i] = IF i <= Len(q) THEN q[i] ELSE m[i - Len(q)]
  BY ConcatProperties, LenProperties
<1>2. Range(r) = Range(q) \cup Range(m)
  BY RangeConcatenation
<1> HIDE DEF r
<1>3. \A i \in DOMAIN r : \/ i \in DOMAIN q /\ r[i] = q[i]
                          \/ i - Len(q) \in DOMAIN m /\ r[i] = m[i - Len(q)] /\ i > Len(q)
  BY <1>0, <1>1
<1>4. PlanOnce(q) /\ ~Has(m, "Plan") => PlanOnce(r)
  BY <1>3 DEF PlanOnce, Has
<1>5. ~Has(q, "Plan") /\ PlanOnce(m) => PlanOnce(r)
  <2> SUFFICES ASSUME ~Has(q, "Plan"), PlanOnce(m), NEW i \in DOMAIN r, NEW j \in DOMAIN r,
                      r[i].type = "Plan", r[j].type = "Plan"
               PROVE  i = j
    BY DEF PlanOnce
  <2>1. i - Len(q) \in DOMAIN m /\ j - Len(q) \in DOMAIN m /\ i - Len(q) = j - Len(q)
    BY <1>3 DEF PlanOnce, Has
  <2> QED
    BY <1>0, <1>1, <2>1
<1>6. ~Has(q, "Done") /\ DoneLast(m) => DoneLast(r)
  <2> SUFFICES ASSUME ~Has(q, "Done"), DoneLast(m), NEW i \in DOMAIN r, r[i].type = "Done"
               PROVE  i = Len(r)
    BY DEF DoneLast
  <2>1. i - Len(q) \in DOMAIN m /\ i - Len(q) = Len(m)
    BY <1>3 DEF DoneLast, Has
  <2> QED
    <3>1. i \in Nat /\ Len(r) = Len(q) + Len(m)
      BY <1>0, <1>1
    <3> QED
      BY <1>0, <2>1, <3>1
<1>7. ASSUME HeadsFirst(q), HeadsFirst(m) PROVE HeadsFirst(r)
  <2> SUFFICES ASSUME NEW k \in DOMAIN r, r[k].type = "CommitAck"
               PROVE  \E j \in 1 .. k - 1 : r[j].type = "Heads"
    BY DEF HeadsFirst
  <2>1. CASE k \in DOMAIN q /\ r[k] = q[k]
    <3>1. PICK j \in 1 .. k - 1 : q[j].type = "Heads"
      BY <1>7, <2>1 DEF HeadsFirst
    <3>2. r[j] = q[j]
      BY <1>0, <1>1, <2>1
    <3> QED
      BY <3>1, <3>2
  <2>2. CASE k - Len(q) \in DOMAIN m /\ r[k] = m[k - Len(q)] /\ k > Len(q)
    <3>1. PICK j \in 1 .. k - Len(q) - 1 : m[j].type = "Heads"
      BY <1>7, <2>2 DEF HeadsFirst
    <3>2. k \in Nat /\ j \in Nat /\ j + Len(q) \in 1 .. k - 1
      BY <1>0, <1>1, <2>2
    <3>3. /\ j + Len(q) \in 1 .. Len(q) + Len(m) /\ ~(j + Len(q) <= Len(q))
          /\ j + Len(q) - Len(q) = j
      BY <1>0, <1>1, <2>2, <3>2
    <3>4. r[j + Len(q)] = m[j]
      BY <1>1, <3>3
    <3> QED
      BY <3>1, <3>2, <3>4
  <2> QED
    BY <1>3, <2>1, <2>2
<1> QED
  BY <1>1, <1>2, <1>4, <1>5, <1>6, <1>7 DEF r

----------------------------------------------------------------------------
(* What the steps do to the queues.                                        *)

LEMMA EndsAre ==
  /\ C \in Ends /\ R \in Ends /\ C # R /\ \A e \in Ends : e = C \/ e = R
  /\ Other(C) = R /\ Other(R) = C
  /\ \A e \in Ends : Other(e) \in Ends /\ Other(e) # e /\ Other(Other(e)) = e
BY DEF Ends, Other, C, R

LEMMA PrefixInQueue ==
  ASSUME NEW w \in Seq(Messages), NEW x \in Seq(Messages), NEW n \in 0 .. Len(w)
  PROVE  n \in 0 .. Len(w \o x) /\ SubSeq(w, 1, n) = SubSeq(w \o x, 1, n)
<1> DEFINE q == w \o x
<1>1. /\ Len(w) \in Nat /\ Len(x) \in Nat /\ q \in Seq(Messages) /\ Len(q) = Len(w) + Len(x)
      /\ \A i \in 1 .. Len(w) + Len(x) : q[i] = IF i <= Len(w) THEN w[i] ELSE x[i - Len(w)]
  BY ConcatProperties, LenProperties
<1> HIDE DEF q
<1>2. n \in 0 .. Len(q) /\ n \in Int /\ 1 \in Int
  BY <1>1
<1>3. \A i \in 1 .. n : q[i] = w[i] /\ i \in 1 .. Len(w) /\ 1 + i - 1 = i
  BY <1>1
<1>4. (\A i \in 1 .. n : w[i] \in Messages) /\ \A i \in 1 .. n : q[i] \in Messages
  BY <1>3, ElementOfSeq
<1> DEFINE a == SubSeq(w, 1, n)
           b == SubSeq(q, 1, n)
<1>5. /\ a \in Seq(Messages) /\ Len(a) = IF 1 <= n THEN n - 1 + 1 ELSE 0
      /\ \A i \in 1 .. n - 1 + 1 : a[i] = w[1 + i - 1]
  BY <1>2, <1>4, SubSeqProperties
<1>6. /\ b \in Seq(Messages) /\ Len(b) = IF 1 <= n THEN n - 1 + 1 ELSE 0
      /\ \A i \in 1 .. n - 1 + 1 : b[i] = q[1 + i - 1]
  BY <1>2, <1>4, SubSeqProperties
<1> HIDE DEF a, b
<1>7. n - 1 + 1 = n /\ (IF 1 <= n THEN n - 1 + 1 ELSE 0) = n
  BY <1>1
<1>8. a = b
  BY <1>3, <1>5, <1>6, <1>7, SeqEqual
<1> QED
  BY <1>2, <1>8 DEF a, b, q

LEMMA TailOfQueue ==
  ASSUME NEW w \in Seq(Messages), w # <<>>, NEW x \in Seq(Messages)
  PROVE  /\ w \o x \in Seq(Messages) /\ w \o x # <<>>
         /\ Head(w \o x) = Head(w) /\ Tail(w \o x) = Tail(w) \o x
<1> DEFINE q == w \o x
           a == Tail(q)
           b == Tail(w)
           t == b \o x
           n == Len(w)
           m == Len(x)
<1>1. /\ n \in Nat \ {0} /\ m \in Nat /\ Head(w) = w[1]
      /\ b \in Seq(Messages) /\ Len(b) = n - 1 /\ \A i \in 1 .. n - 1 : b[i] = w[i + 1]
  BY EmptySeq, LenProperties, HeadTailProperties
<1>2. /\ q \in Seq(Messages) /\ Len(q) = n + m
      /\ \A i \in 1 .. n + m : q[i] = IF i <= n THEN w[i] ELSE x[i - n]
  BY ConcatProperties
<1>3. /\ t \in Seq(Messages) /\ Len(t) = Len(b) + m
      /\ \A i \in 1 .. Len(b) + m : t[i] = IF i <= Len(b) THEN b[i] ELSE x[i - Len(b)]
  <2> HIDE DEF b
  <2> QED
    BY <1>1, ConcatProperties
<1> HIDE DEF q, b, t, n, m
<1>4. q # <<>> /\ Head(q) = q[1] /\ q[1] = w[1]
  BY <1>1, <1>2, EmptySeq
<1>5. /\ a \in Seq(Messages) /\ Len(a) = n + m - 1 /\ \A i \in 1 .. n + m - 1 : a[i] = q[i + 1]
  <2>1. a \in Seq(Messages) /\ Len(a) = Len(q) - 1 /\ \A i \in 1 .. Len(a) : a[i] = q[i + 1]
    BY <1>2, <1>4, HeadTailProperties
  <2> HIDE DEF a
  <2> QED
    BY <1>1, <1>2, <2>1
<1> HIDE DEF a
<1>6. Len(a) = Len(t)
  BY <1>1, <1>3, <1>5
<1>7. ASSUME NEW i \in 1 .. Len(a) PROVE a[i] = t[i]
  <2>0. PICK j \in Int : j = i + 1
    BY <1>1, <1>5
  <2>1. /\ i \in 1 .. n + m - 1 /\ j \in 1 .. n + m /\ i \in 1 .. Len(b) + m
        /\ j - n = i - Len(b) /\ (j <= n <=> i <= Len(b)) /\ (i <= Len(b) => i \in 1 .. n - 1)
    BY <1>1, <1>5, <2>0
  <2>2. a[i] = q[j]
    BY <1>5, <2>0, <2>1
  <2>3. q[j] = IF j <= n THEN w[j] ELSE x[j - n]
    BY <1>2, <2>1
  <2>4. t[i] = IF i <= Len(b) THEN b[i] ELSE x[i - Len(b)]
    BY <1>3, <2>1
  <2>5. i <= Len(b) => b[i] = w[j]
    BY <1>1, <2>0, <2>1
  <2> QED
    BY <2>1, <2>2, <2>3, <2>4, <2>5
<1>8. a = t
  BY <1>3, <1>5, <1>6, <1>7, SeqEqual
<1> QED
  BY <1>1, <1>2, <1>4, <1>8 DEF q, a, b, t

LEMMA QueueTyped == PipesTyped => \A e \in Ends : Queue(e) \in Seq(Messages)
<1> SUFFICES ASSUME PipesTyped, NEW e \in Ends PROVE Queue(e) \in Seq(Messages)
  OBVIOUS
<1>1. wire[e] \in Seq(Messages) /\ outbox[Other(e)] \in Seq(Messages) /\ <<>> \in Seq(Messages)
  BY EndsAre, EmptySeq DEF PipesTyped
<1> QED
  BY <1>1, ConcatProperties DEF Queue

(* The head of a queue is handled, and its answer written.                 *)
LEMMA Handled ==
  ASSUME PipesTyped, NEW e \in Ends, Waiting(e), NEW msgs \in Seq(Messages), Reply(e, msgs)
  PROVE  /\ PipesTyped' /\ Queue(e) \in Seq(Messages) /\ Queue(e) # <<>>
         /\ Head(Queue(e)) = Head(wire[e]) /\ Queue(e)' = Tail(Queue(e))
         /\ Queue(Other(e))' \in {Queue(Other(e)), Queue(Other(e)) \o msgs}
         /\ Queue(Other(e))' = (IF open THEN Queue(Other(e)) \o msgs ELSE Queue(Other(e)))
         /\ open' = open
<1> DEFINE o == Other(e)
           x == IF open THEN outbox[o] ELSE <<>>
<1>0. o \in Ends /\ o # e /\ Other(o) = e
  BY EndsAre
<1>1. /\ wire[e] \in Seq(Messages) /\ wire[o] \in Seq(Messages) /\ x \in Seq(Messages)
      /\ wire[e] # <<>> /\ outbox[e] = <<>>
  BY <1>0, EmptySeq DEF PipesTyped, Waiting
<1>2. Tail(wire[e]) \in Seq(Messages)
  BY <1>1, HeadTailProperties
<1>3. /\ wire' = [wire EXCEPT ![e] = Tail(wire[e])] /\ outbox' = [outbox EXCEPT ![e] = msgs]
      /\ open' = open
  BY DEF Reply
<1>4. PipesTyped'
  BY <1>2, <1>3 DEF PipesTyped
<1>5. /\ wire'[e] = Tail(wire[e]) /\ wire'[o] = wire[o]
      /\ outbox'[e] = msgs /\ outbox'[o] = outbox[o]
  BY <1>0, <1>3 DEF PipesTyped
<1>6. Queue(e) = wire[e] \o x /\ Queue(e)' = Tail(wire[e]) \o x
  BY <1>3, <1>5 DEF Queue
<1>7. /\ wire[e] \o x \in Seq(Messages) /\ wire[e] \o x # <<>>
      /\ Head(wire[e] \o x) = Head(wire[e]) /\ Tail(wire[e] \o x) = Tail(wire[e]) \o x
  BY <1>1, TailOfQueue
<1>8. /\ Queue(o)' \in {Queue(o), Queue(o) \o msgs}
      /\ Queue(o)' = IF open THEN Queue(o) \o msgs ELSE Queue(o)
  <2>1. Queue(o) = wire[o]
    BY <1>0, <1>1, ConcatEmptySeq, EmptySeq DEF Queue
  <2>2. Queue(o)' = wire[o] \o (IF open THEN msgs ELSE <<>>)
    BY <1>0, <1>3, <1>5 DEF Queue
  <2> QED
    BY <1>1, <2>1, <2>2, ConcatEmptySeq
<1>9. /\ Queue(e) \in Seq(Messages) /\ Queue(e) # <<>>
      /\ Head(Queue(e)) = Head(wire[e]) /\ Queue(e)' = Tail(Queue(e))
  <2> HIDE DEF x
  <2> QED
    BY <1>6, <1>7
<1> QED
  BY <1>3, <1>4, <1>8, <1>9

LEMMA Written ==
  ASSUME PipesTyped, NEW e \in Ends, NEW msgs \in Seq(Messages), Say(e, msgs)
  PROVE  /\ PipesTyped' /\ Queue(e)' = Queue(e) /\ Queue(e) \in Seq(Messages)
         /\ Queue(Other(e))' \in {Queue(Other(e)), Queue(Other(e)) \o msgs}
         /\ Queue(Other(e))' = (IF open THEN Queue(Other(e)) \o msgs ELSE Queue(Other(e)))
         /\ open' = open
<1> DEFINE o == Other(e)
<1>0. o \in Ends /\ o # e /\ Other(o) = e
  BY EndsAre
<1>1. /\ wire' = wire /\ outbox' = [outbox EXCEPT ![e] = msgs] /\ open' = open
      /\ outbox[e] = <<>> /\ wire[o] \in Seq(Messages)
  BY <1>0 DEF Say, PipesTyped
<1>2. PipesTyped' /\ outbox'[e] = msgs /\ outbox'[o] = outbox[o]
  BY <1>0, <1>1 DEF PipesTyped
<1>3. Queue(e)' = Queue(e) /\ Queue(o) = wire[o] \o <<>>
      /\ Queue(o)' = wire[o] \o (IF open THEN msgs ELSE <<>>)
  BY <1>0, <1>1, <1>2 DEF Queue
<1> QED
  BY <1>0, <1>1, <1>2, <1>3, ConcatEmptySeq, QueueTyped

(* Writing moves a message on; nothing is lost.                            *)
LEMMA Transmitted ==
  ASSUME PipesTyped, NEW e \in Ends, Write(e)
  PROVE  PipesTyped' /\ \A x \in Ends : Queue(x)' = Queue(x)
<1> DEFINE o == Other(e)
           w == wire[o]
           b == outbox[e]
<1>0. o \in Ends /\ o # e /\ Other(o) = e
  BY EndsAre
<1>1. /\ wire' = [wire EXCEPT ![o] = Append(w, Head(b))]
      /\ outbox' = [outbox EXCEPT ![e] = Tail(b)] /\ open /\ open'
      /\ b # <<>> /\ w \in Seq(Messages) /\ b \in Seq(Messages)
  BY <1>0 DEF Write, PipesTyped
<1>2. /\ Head(b) \in Messages /\ Tail(b) \in Seq(Messages) /\ Append(w, Head(b)) \in Seq(Messages)
  BY <1>1, HeadTailProperties, AppendProperties
<1>3. PipesTyped'
  BY <1>0, <1>1, <1>2 DEF PipesTyped
<1>4. /\ wire'[o] = Append(w, Head(b)) /\ wire'[e] = wire[e]
      /\ outbox'[e] = Tail(b) /\ outbox'[o] = outbox[o]
  BY <1>0, <1>1 DEF PipesTyped
<1>5. Queue(e)' = Queue(e)
  BY <1>0, <1>1, <1>4 DEF Queue
<1>6. Append(w, Head(b)) \o Tail(b) = w \o b
  <2> HIDE DEF w, b
  <2>1. <<Head(b)>> \in Seq(Messages)
    BY <1>2
  <2>2. Append(w, Head(b)) = w \o <<Head(b)>>
    BY <1>1, <1>2, AppendIsConcat
  <2>3. <<Head(b)>> \o Tail(b) = b
    <3>1. Len(b) \in Nat \ {0} /\ Head(b) = b[1]
      BY <1>1, EmptySeq
    <3>2. /\ Head(b) \in Messages /\ Tail(b) \in Seq(Messages) /\ Len(Tail(b)) = Len(b) - 1
          /\ \A i \in 1 .. Len(b) - 1 : Tail(b)[i] = b[i + 1]
      BY <1>1, HeadTailProperties
    <3>3. Len(<<Head(b)>>) = 1 /\ <<Head(b)>>[1] = Head(b)
      OBVIOUS
    <3> DEFINE c == <<Head(b)>> \o Tail(b)
    <3>4. /\ c \in Seq(Messages) /\ Len(c) = 1 + (Len(b) - 1)
          /\ \A i \in 1 .. 1 + (Len(b) - 1) :
               c[i] = IF i <= 1 THEN <<Head(b)>>[i] ELSE Tail(b)[i - 1]
      BY <2>1, <3>2, <3>3, ConcatProperties
    <3> HIDE DEF c
    <3>5. Len(c) = Len(b)
      BY <3>1, <3>4
    <3>6. ASSUME NEW i \in 1 .. Len(c) PROVE c[i] = b[i]
      <4>1. CASE i = 1
        BY <3>1, <3>3, <3>4, <3>5, <4>1
      <4>2. CASE i # 1
        <5>1. i - 1 \in 1 .. Len(b) - 1 /\ i - 1 + 1 = i /\ ~(i <= 1) /\ i \in 1 .. 1 + (Len(b) - 1)
          BY <3>1, <3>5, <4>2
        <5> QED
          BY <3>2, <3>4, <5>1
      <4> QED
        BY <4>1, <4>2
    <3>7. c = b
      BY <1>1, <3>4, <3>5, <3>6, SeqEqual
    <3> QED
      BY <3>7 DEF c
  <2> QED
    BY <1>1, <1>2, <2>1, <2>2, <2>3, ConcatAssociative
<1>7. Queue(o)' = Queue(o)
  BY <1>0, <1>1, <1>4, <1>6 DEF Queue
<1> QED
  BY <1>3, <1>5, <1>7, EndsAre

(* Some of what was written last is lost.                                  *)
Lossy == \A e \in Ends : \E n \in 0 .. Len(Queue(e)) : Queue(e)' = SubSeq(Queue(e), 1, n)

LEMMA Truncated ==
  ASSUME PipesTyped, ~open', NEW e \in Ends, NEW n \in 0 .. Len(wire[e]),
         wire'[e] = SubSeq(wire[e], 1, n)
  PROVE  \E k \in 0 .. Len(Queue(e)) : Queue(e)' = SubSeq(Queue(e), 1, k)
<1> DEFINE w == wire[e]
           x == IF open THEN outbox[Other(e)] ELSE <<>>
           s == SubSeq(w, 1, n)
<1>1. w \in Seq(Messages) /\ x \in Seq(Messages) /\ s \in Seq(Messages)
  <2>1. w \in Seq(Messages) /\ x \in Seq(Messages)
    BY EndsAre, EmptySeq DEF PipesTyped
  <2> QED
    BY <2>1, PrefixOf
<1>2. Queue(e) = w \o x /\ Queue(e)' = s \o <<>>
  BY DEF Queue
<1>3. n \in 0 .. Len(w \o x) /\ s = SubSeq(w \o x, 1, n)
  BY <1>1, PrefixInQueue
<1>4. s \o <<>> = s
  <2> HIDE DEF s
  <2> QED
    BY <1>1, ConcatEmptySeq
<1> HIDE DEF w, x, s
<1> QED
  BY <1>2, <1>3, <1>4

LEMMA WholeAndNone ==
  ASSUME NEW w \in Seq(Messages)
  PROVE  /\ \E n \in 0 .. Len(w) : w = SubSeq(w, 1, n)
         /\ \E n \in 0 .. Len(w) : <<>> = SubSeq(w, 1, n)
<1>1. Len(w) \in Nat
  BY LenProperties
<1>2. w = SubSeq(w, 1, Len(w)) /\ <<>> = SubSeq(w, 1, 0)
  BY <1>1, SubSeqFull, SubSeqEmpty
<1>3. Len(w) \in 0 .. Len(w) /\ 0 \in 0 .. Len(w)
  BY <1>1
<1>4. \E n \in 0 .. Len(w) : w = SubSeq(w, 1, n)
  BY <1>2, <1>3, Zenon
<1>5. \E n \in 0 .. Len(w) : <<>> = SubSeq(w, 1, n)
  BY <1>2, <1>3, Zenon
<1> QED
  BY <1>4, <1>5

LEMMA Parted ==
  ASSUME PipesTyped, NEW e \in Ends, NEW p, NEW kept, Leave(e, p, kept),
         \E n \in 0 .. Len(wire[Other(e)]) : kept = SubSeq(wire[Other(e)], 1, n)
  PROVE  PipesTyped' /\ Lossy /\ Queue(e)' = <<>>
<1> DEFINE o == Other(e)
<1>0. o \in Ends /\ o # e /\ Other(o) = e /\ \A x \in Ends : x = e \/ x = o
  BY EndsAre
<1>1. PICK n \in 0 .. Len(wire[o]) : kept = SubSeq(wire[o], 1, n)
  OBVIOUS
<1>2. /\ wire' = [wire EXCEPT ![e] = <<>>, ![o] = kept] /\ outbox' = [outbox EXCEPT ![e] = <<>>]
      /\ open' = FALSE
  BY DEF Leave
<1>3. wire[o] \in Seq(Messages) /\ wire[e] \in Seq(Messages) /\ <<>> \in Seq(Messages)
  BY <1>0, EmptySeq DEF PipesTyped
<1>4. kept \in Seq(Messages)
  BY <1>1, <1>3, PrefixOf
<1>5. PipesTyped' /\ wire'[e] = <<>> /\ wire'[o] = kept
  BY <1>0, <1>2, <1>3, <1>4 DEF PipesTyped
<1>6. \E k \in 0 .. Len(Queue(o)) : Queue(o)' = SubSeq(Queue(o), 1, k)
  BY <1>0, <1>1, <1>2, <1>5, Truncated
<1>7. \E k \in 0 .. Len(Queue(e)) : Queue(e)' = SubSeq(Queue(e), 1, k)
  <2>1. PICK k \in 0 .. Len(wire[e]) : <<>> = SubSeq(wire[e], 1, k)
    BY <1>3, WholeAndNone
  <2> QED
    BY <1>2, <1>5, <2>1, Truncated
<1>8. Queue(e)' = <<>>
  BY <1>2, <1>3, <1>5, ConcatEmptySeq DEF Queue
<1> QED
  BY <1>0, <1>5, <1>6, <1>7, <1>8 DEF Lossy

LEMMA Broken ==
  ASSUME PipesTyped, Break
  PROVE  PipesTyped' /\ Lossy
<1>1. PICK n \in 0 .. Len(wire[C]), m \in 0 .. Len(wire[R]) :
        wire' = [e \in Ends |-> SubSeq(wire[e], 1, IF e = C THEN n ELSE m)]
  BY DEF Break
<1>2. outbox' = outbox /\ open' = FALSE
  BY DEF Break
<1>3. ASSUME NEW e \in Ends
      PROVE  \E k \in 0 .. Len(wire[e]) : wire'[e] = SubSeq(wire[e], 1, k)
                                          /\ SubSeq(wire[e], 1, k) \in Seq(Messages)
  <2>1. wire[e] \in Seq(Messages) /\ (e = C \/ e = R)
    BY <1>3, EndsAre DEF PipesTyped
  <2>2. PICK k \in 0 .. Len(wire[e]) : k = IF e = C THEN n ELSE m
    BY <2>1
  <2>3. wire'[e] = SubSeq(wire[e], 1, k)
    BY <1>1, <1>3, <2>2
  <2> QED
    BY <2>1, <2>3, PrefixOf
<1>4. wire' \in [Ends -> Seq(Messages)]
  <2>1. DOMAIN wire' = Ends /\ wire' = [e \in Ends |-> wire'[e]]
    BY <1>1
  <2> QED
    BY <1>3, <2>1
<1>5. PipesTyped'
  BY <1>2, <1>4 DEF PipesTyped
<1>6. Lossy
  BY <1>2, <1>3, Truncated DEF Lossy
<1> QED
  BY <1>5, <1>6
----------------------------------------------------------------------------
(* Messages.                                                               *)

LEMMA MessagesAre ==
  /\ \A t \in Signals : Message(t) \in Messages
  /\ \A t \in {"ScanProgress", "ApplyProgress", "Object"}, n \in Nat : MessageOf(t, n) \in Messages
  /\ \A b \in BOOLEAN : MessageOf("Sync", b) \in Messages
  /\ \A q \in Seq(Nat) : MessageOf("Need", q) \in Messages
  /\ \A s \in Scans : MessageOf("Snapshot", s) \in Messages
  /\ \A h \in SUBSET Edits : MessageOf("Heads", h) \in Messages
  /\ \A r \in [objects : Nat, bytes : Nat] : MessageOf("Receipt", r) \in Messages
BY DEF Messages, Message, MessageOf

LEMMA ArgumentsAre ==
  ASSUME NEW m \in Messages
  PROVE  /\ m.type = "Sync" => m.arg \in BOOLEAN
         /\ m.type \in {"ScanProgress", "ApplyProgress", "Object"} => m.arg \in Nat
         /\ m.type = "Need" => m.arg \in Seq(Nat)
         /\ m.type = "Snapshot" => m.arg \in Scans
         /\ m.type = "Heads" => m.arg \in SUBSET Edits
BY DEF Messages, Signals

(* The least number of a set.                                              *)
LEMMA LeastNumber ==
  ASSUME NEW T \in SUBSET Nat, T # {}
  PROVE  \E x \in T : \A y \in T : x <= y
<1> DEFINE Less == OpToRel(<, Nat)
<1>1. PICK x \in T : \A y \in T : <<y, x>> \notin Less
  <2> HIDE DEF Less
  <2>1. IsWellFoundedOn(Less, Nat)
    BY NatLessThanWellFounded DEF Less
  <2> QED
    BY <2>1, WFMin
<1>2. \A y \in T : y < x => <<y, x>> \in Less
  BY DEF OpToRel
<1> HIDE DEF Less
<1>3. \A y \in T : ~(y < x)
  BY <1>1, <1>2
<1>4. x \in Nat /\ \A y \in T : y \in Nat
  OBVIOUS
<1>5. \A y \in T : x <= y
  BY <1>3, <1>4
<1> QED
  BY <1>5

(* A batch is cut at or before the end of the objects.                     *)
LEMMA BatchEnds ==
  ASSUME NEW sizes \in Seq(Nat), NEW n \in Nat, n < Len(sizes)
  PROVE  BatchEnd(sizes, n) \in n + 1 .. Len(sizes)
<1> DEFINE T == {m \in n + 1 .. Len(sizes) :
                   \/ m = Len(sizes) \/ m - n = BatchObjects
                   \/ Bytes(SubSeq(sizes, n + 1, m + 1)) > BatchBytes}
<1>0. Len(sizes) \in Nat /\ Len(sizes) \in T /\ T \subseteq Nat
  BY LenProperties
<1>1. T \subseteq n + 1 .. Len(sizes) /\ BatchEnd(sizes, n) = Min(T)
  BY DEF BatchEnd
<1> HIDE DEF T
<1>2. PICK x \in T : \A y \in T : x <= y
  BY <1>0, LeastNumber
<1>3. Min(T) \in T
  BY <1>2 DEF Min
<1> QED
  BY <1>1, <1>3

LEMMA BatchTyped ==
  ASSUME NEW sizes \in Seq(Nat), NEW n \in Nat, n <= Len(sizes)
  PROVE  /\ Batch(sizes, n) \in Seq(Messages)
         /\ \A m \in Range(Batch(sizes, n)) : m.type \in {"Done", "Object", "BatchEnd"}
<1>0. Len(sizes) \in Nat /\ sizes \in [1 .. Len(sizes) -> Nat]
  BY LenProperties
<1>1. CASE n = Len(sizes)
  <2>1. Batch(sizes, n) = <<Message("Done")>>
    BY <1>1 DEF Batch
  <2>2. Message("Done") \in Messages /\ Message("Done").type = "Done"
    BY MessagesAre DEF Signals, Message
  <2> QED
    BY <2>1, <2>2 DEF Range
<1>2. CASE n # Len(sizes)
  <2>0. n < Len(sizes)
    <3> DEFINE l == Len(sizes)
    <3> HIDE DEF l
    <3>1. l \in Nat /\ n <= l /\ n # l => n < l
      OBVIOUS
    <3> QED
      BY <1>0, <1>2, <3>1 DEF l
  <2> DEFINE b == BatchEnd(sizes, n)
             f == [k \in 1 .. b - n |-> MessageOf("Object", sizes[n + k])]
             g == <<Message("BatchEnd")>>
  <2>1. b \in Nat /\ b - n \in Nat /\ b <= Len(sizes)
    <3>1. b \in n + 1 .. Len(sizes)
      BY <2>0, BatchEnds
    <3> HIDE DEF b
    <3> QED
      BY <1>0, <3>1
  <2>2. Batch(sizes, n) = f \o g
    BY <1>2 DEF Batch
  <2>3. ASSUME NEW k \in 1 .. b - n
        PROVE  MessageOf("Object", sizes[n + k]) \in Messages
    <3>1. n + k \in 1 .. Len(sizes)
      BY <1>0, <2>1
    <3> QED
      BY <1>0, <3>1, MessagesAre
  <2>4. f \in [1 .. b - n -> Messages] /\ \A k \in 1 .. b - n : f[k].type = "Object"
    BY <2>3 DEF MessageOf
  <2>5. f \in Seq(Messages) /\ \A m \in Range(f) : m.type = "Object"
    <3> HIDE DEF f, b
    <3>1. f \in Seq(Messages)
      BY <2>1, <2>4, SeqDef
    <3>2. DOMAIN f = 1 .. b - n
      BY <2>4
    <3> QED
      BY <2>4, <3>1, <3>2 DEF Range
  <2>6. g \in Seq(Messages) /\ \A m \in Range(g) : m.type = "BatchEnd"
    <3>1. Message("BatchEnd") \in Messages /\ Message("BatchEnd").type = "BatchEnd"
      BY MessagesAre DEF Signals, Message
    <3> QED
      BY <3>1 DEF Range
  <2> HIDE DEF f, g
  <2>7. f \o g \in Seq(Messages) /\ Range(f \o g) = Range(f) \cup Range(g)
    BY <2>5, <2>6, Longer
  <2> QED
    BY <2>2, <2>5, <2>6, <2>7
<1> QED
  BY <1>1, <1>2

(* The answer to a request for objects.                                    *)
LEMMA ObjectsTyped ==
  ASSUME NEW sizes \in Seq(Nat)
  PROVE  LET f == [k \in DOMAIN sizes |-> MessageOf("Object", sizes[k])]
             q == f \o <<Message("Done")>>
         IN  /\ q \in Seq(Messages) /\ DoneLast(q)
             /\ \A m \in Range(q) : m.type \in {"Object", "Done"}
<1> DEFINE f == [k \in DOMAIN sizes |-> MessageOf("Object", sizes[k])]
           g == <<Message("Done")>>
<1>0. Len(sizes) \in Nat /\ sizes \in [1 .. Len(sizes) -> Nat] /\ DOMAIN sizes = 1 .. Len(sizes)
  BY LenProperties
<1>1. f \in [1 .. Len(sizes) -> Messages] /\ \A k \in 1 .. Len(sizes) : f[k].type = "Object"
  BY <1>0, MessagesAre DEF MessageOf
<1>2. f \in Seq(Messages) /\ DOMAIN f = 1 .. Len(sizes)
  <2> HIDE DEF f
  <2> QED
    BY <1>0, <1>1, SeqDef
<1>3. g \in Seq(Messages) /\ DoneLast(g) /\ \A m \in Range(g) : m.type = "Done"
  <2>1. Message("Done") \in Messages /\ Message("Done").type = "Done"
    BY MessagesAre DEF Signals, Message
  <2> QED
    BY <2>1 DEF Range, DoneLast
<1> HIDE DEF f, g
<1>4. ~Has(f, "Done") /\ \A m \in Range(f) : m.type = "Object"
  BY <1>1, <1>2 DEF Has, Range
<1>5. /\ f \o g \in Seq(Messages) /\ Range(f \o g) = Range(f) \cup Range(g)
      /\ DoneLast(f \o g)
  BY <1>2, <1>3, <1>4, Longer
<1>6. \A m \in Range(f \o g) : m.type \in {"Object", "Done"}
  BY <1>3, <1>4, <1>5
<1> QED
  BY <1>5, <1>6 DEF f, g

----------------------------------------------------------------------------
(* Types.                                                                  *)

ConnectorPlaces == {"idle", "prompt"} \cup Early \cup Late
ResponderPlaces == Begun \cup {"serve", "apply", "leaving"} \cup Over

DirectoriesTyped ==
  /\ files \in [Ends -> SUBSET Edits] /\ stored \in [Ends -> SUBSET Edits]
  /\ acked \in [Ends -> SUBSET SUBSET Edits] /\ initial \in BOOLEAN

UserTyped ==
  /\ command \in Commands \cup {None} /\ expected \in Plans \cup {None}
  /\ result \in {None, "declined", "preview", "failed", "ok"}
  /\ attempts \in Nat /\ failures \in Nat

PlacesTyped ==
  /\ at \in [Ends -> ConnectorPlaces \cup ResponderPlaces]
  /\ at[C] \in ConnectorPlaces /\ at[R] \in ResponderPlaces
  /\ slot \in [Ends -> {"free", "held", "finished", "lost"}]

(* Where an end works on a scan or a plan, it has one.                     *)
PlansTyped ==
  /\ scan \in [Ends -> Scans \cup {None}] /\ plan \in [Ends -> Plans \cup {None}]
  /\ applied \in [Ends -> Plans \cup {None}]
  /\ serving \in [dry : BOOLEAN, need : BOOLEAN, snapshot : Scans \cup {None},
                  ready : BOOLEAN, applied : BOOLEAN, heads : (SUBSET Edits) \cup {None}]
  /\ at[C] \in (Early \ {"opening"}) \cup Late => scan[C] \in Scans
  /\ at[C] \in {"objects", "cancelled"} \cup Late => plan[C] \in Plans
  /\ at[R] \in {"serve", "apply"} => scan[R] \in Scans
  /\ serving.ready => plan[R] \in Plans
  /\ at[R] = "apply" => serving.ready

TransfersTyped ==
  /\ wanted \in [Ends -> Seq(Nat)]
  /\ giving \in [sizes : Seq(Nat), sent : Nat] /\ giving.sent <= Len(giving.sizes)
  /\ at[C] = "sending" => giving.sent < Len(giving.sizes)
  /\ batch \in [sizes : Seq(Nat), from : Nat, got : Nat, bytes : Nat]
  /\ told \in [Ends -> Nat] /\ heard \in [Ends -> Nat \cup {None}]

TypeOK ==
  /\ PipesTyped /\ DirectoriesTyped /\ UserTyped /\ PlacesTyped /\ PlansTyped
  /\ TransfersTyped

LEMMA Received ==
  ASSUME PipesTyped, NEW e \in Ends, NEW t, Gets(e, t)
  PROVE  /\ Waiting(e) /\ Head(wire[e]) \in Messages
         /\ t = "Sync" => Arg(e) \in BOOLEAN
         /\ t \in {"ScanProgress", "ApplyProgress", "Object"} => Arg(e) \in Nat
         /\ t = "Need" => Arg(e) \in Seq(Nat)
         /\ t = "Snapshot" => Arg(e) \in Scans
         /\ t = "Heads" => Arg(e) \in SUBSET Edits
<1>1. Waiting(e) /\ wire[e] \in Seq(Messages) /\ wire[e] # <<>>
  BY DEF PipesTyped, Gets, Waiting
<1>2. Head(wire[e]) \in Messages
  BY <1>1, HeadTailProperties
<1> QED
  BY <1>1, <1>2, ArgumentsAre DEF Gets, Arg

LEMMA Short ==
  /\ <<>> \in Seq(Messages) /\ \A a \in Messages : <<a>> \in Seq(Messages)
  /\ \A a, b \in Messages : <<a, b>> \in Seq(Messages)
BY EmptySeq

(* What the two ends may answer or write.                                  *)
LEMMA AnswersTyped ==
  ASSUME PipesTyped, NEW e \in Ends
  PROVE  /\ Waiting(e) /\ Consume(e) => PipesTyped'
         /\ \A a \in Messages : Waiting(e) /\ Reply(e, <<a>>) => PipesTyped'
         /\ \A a, b \in Messages : Waiting(e) /\ Reply(e, <<a, b>>) => PipesTyped'
         /\ \A a \in Messages : Say(e, <<a>>) => PipesTyped'
         /\ \A a, b \in Messages : Say(e, <<a, b>>) => PipesTyped'
BY Short, Handled, Written DEF Consume

LEMMA ScansTyped ==
  ASSUME DirectoriesTyped, NEW e \in Ends
  PROVE  /\ Preview(e) \in Scans /\ Refresh(e) \in Scans
         /\ \A p \in Plans : Outcome(p) \in SUBSET Edits
         /\ \A a, b \in Scans : PlanOf(a, b) \in Plans
<1>1. files[e] \in SUBSET Edits /\ files[e] \ stored[e] \in SUBSET Edits /\ {} \in SUBSET Edits
  BY DEF DirectoriesTyped
<1> QED
  BY <1>1 DEF Preview, Refresh, Scanned, Scans, Plans, Outcome, PlanOf

LEMMA ConnectorTyped ==
  ASSUME TypeOK
  PROVE  (\/ ConnectorScans \/ HearScan \/ ConnectorPlans \/ ConnectorObject \/ ConnectorCancels
          \/ ConnectorProposes \/ ConnectorHears \/ ConnectorHeads \/ ConnectorTurn
          \/ ConnectorReports \/ ConnectorApplies \/ ConnectorCommits \/ ConnectorShows) => TypeOK'
<1> USE DEF TypeOK
<1>1. ASSUME ConnectorScans PROVE TypeOK'
  <2>1. PipesTyped'
    BY <1>1, MessagesAre, Received, AnswersTyped, EndsAre DEF ConnectorScans, Signals, Gets, Waiting
  <2>2. DirectoriesTyped' /\ UserTyped' /\ TransfersTyped'
    BY <1>1, ScansTyped, Received, EndsAre
       DEF ConnectorScans, DirectoriesTyped, UserTyped, PlansTyped, TransfersTyped, disk,
           user, work, pipes, objects, reports, Scan, Go, ConnectorRest
  <2>3. PlacesTyped' /\ PlansTyped'
    BY <1>1, ScansTyped, Received, EndsAre
       DEF ConnectorScans, PlacesTyped, PlansTyped, disk, user, work, pipes, objects,
           reports, ConnectorPlaces, ResponderPlaces, Early, Late, Begun, Over, Scan, Go,
           ConnectorRest
  <2> QED
    BY <2>1, <2>2, <2>3
<1>2. ASSUME HearScan PROVE TypeOK'
  <2>1. PipesTyped'
    BY <1>2, MessagesAre, Received, AnswersTyped, EndsAre DEF HearScan
  <2>2. DirectoriesTyped' /\ UserTyped' /\ TransfersTyped'
    BY <1>2, Received, EndsAre
       DEF HearScan, DirectoriesTyped, UserTyped, PlansTyped, TransfersTyped, disk, user,
           work, pipes, objects, reports, ConnectorRest
  <2>3. PlacesTyped' /\ PlansTyped'
    BY <1>2, Received, EndsAre
       DEF HearScan, PlacesTyped, PlansTyped, disk, user, work, pipes, objects, reports,
           ConnectorPlaces, ResponderPlaces, Early, Late, Begun, Over, ConnectorRest
  <2> QED
    BY <2>1, <2>2, <2>3
<1>3. ASSUME ConnectorPlans PROVE TypeOK'
  <2>0. Requests \subseteq Seq(Nat)
    BY OneShotConstants
  <2>1. PipesTyped'
    BY <1>3, MessagesAre, Received, AnswersTyped, EndsAre, <2>0 DEF ConnectorPlans
  <2>2. DirectoriesTyped' /\ UserTyped' /\ TransfersTyped'
    BY <1>3, ScansTyped, Received, EndsAre, <2>0
       DEF ConnectorPlans, DirectoriesTyped, UserTyped, PlansTyped, TransfersTyped, disk,
           user, work, pipes, objects, reports, Go, ConnectorRest
  <2>3. PlacesTyped' /\ PlansTyped'
    BY <1>3, ScansTyped, Received, EndsAre, <2>0
       DEF ConnectorPlans, PlacesTyped, PlansTyped, disk, user, work, pipes, objects,
           reports, ConnectorPlaces, ResponderPlaces, Early, Late, Begun, Over, Go,
           ConnectorRest
  <2> QED
    BY <2>1, <2>2, <2>3
<1>4. ASSUME ConnectorObject PROVE TypeOK'
  <2>1. PipesTyped'
    BY <1>4, MessagesAre, Received, AnswersTyped, EndsAre DEF ConnectorObject
  <2>2. DirectoriesTyped' /\ UserTyped' /\ TransfersTyped'
    BY <1>4, HeadTailProperties, EndsAre
       DEF ConnectorObject, Gets, Takes, ConnectorTakes, DirectoriesTyped, UserTyped, PlansTyped, TransfersTyped, disk,
           user, work, pipes, objects, reports, ConnectorRest
  <2>3. PlacesTyped' /\ PlansTyped'
    BY <1>4, HeadTailProperties, EndsAre
       DEF ConnectorObject, PlacesTyped, PlansTyped, disk, user, work, pipes, objects,
           reports, ConnectorPlaces, ResponderPlaces, Early, Late, Begun, Over,
           ConnectorRest
  <2> QED
    BY <2>1, <2>2, <2>3
<1>5. ASSUME ConnectorCancels PROVE TypeOK'
  <2>1. PipesTyped'
    BY <1>5, MessagesAre, Received, AnswersTyped, EndsAre DEF ConnectorCancels, Signals, PlanReady
  <2>2. DirectoriesTyped' /\ UserTyped' /\ TransfersTyped'
    BY <1>5, EndsAre
       DEF ConnectorCancels, DirectoriesTyped, UserTyped, PlansTyped, TransfersTyped, disk,
           user, work, pipes, objects, reports, PlanReady, Go, ConnectorRest
  <2>3. PlacesTyped' /\ PlansTyped'
    BY <1>5, EndsAre
       DEF ConnectorCancels, PlacesTyped, PlansTyped, disk, user, work, pipes, objects,
           reports, ConnectorPlaces, ResponderPlaces, Early, Late, Begun, Over, PlanReady,
           Go, ConnectorRest
  <2> QED
    BY <2>1, <2>2, <2>3
<1>6. ASSUME ConnectorProposes PROVE TypeOK'
  <2>1. PipesTyped'
    BY <1>6, MessagesAre, Received, AnswersTyped, EndsAre
       DEF ConnectorProposes, Signals, PlanReady, PlansTyped, Early, Late
  <2>2. DirectoriesTyped' /\ UserTyped'
    BY <1>6, EndsAre
       DEF ConnectorProposes, DirectoriesTyped, UserTyped, PlansTyped, disk, user, work,
           pipes, objects, reports, PlanReady, Go, ConnectorRest
  <2>4. TransfersTyped'
    BY <1>6, EndsAre
       DEF ConnectorProposes, TransfersTyped, disk, user, work, pipes, objects, reports,
           PlanReady, Go, ConnectorRest
  <2>3. PlacesTyped' /\ PlansTyped'
    BY <1>6, EndsAre
       DEF ConnectorProposes, PlacesTyped, PlansTyped, disk, user, work, pipes, objects,
           reports, ConnectorPlaces, ResponderPlaces, Early, Late, Begun, Over, PlanReady,
           Go, ConnectorRest
  <2> QED
    BY <2>1, <2>2, <2>3, <2>4
<1>7. ASSUME ConnectorHears PROVE TypeOK'
  <2>1. PipesTyped'
    BY <1>7, MessagesAre, Received, AnswersTyped, EndsAre DEF ConnectorHears
  <2>2. DirectoriesTyped' /\ UserTyped' /\ TransfersTyped'
    BY <1>7, Received, EndsAre
       DEF ConnectorHears, DirectoriesTyped, UserTyped, PlansTyped, TransfersTyped, disk,
           user, work, pipes, objects, reports, ConnectorRest
  <2>3. PlacesTyped' /\ PlansTyped'
    BY <1>7, Received, EndsAre
       DEF ConnectorHears, PlacesTyped, PlansTyped, disk, user, work, pipes, objects,
           reports, ConnectorPlaces, ResponderPlaces, Early, Late, Begun, Over,
           ConnectorRest
  <2> QED
    BY <2>1, <2>2, <2>3
<1>8. ASSUME ConnectorHeads PROVE TypeOK'
  <2>1. PipesTyped'
    BY <1>8, MessagesAre, Received, AnswersTyped, EndsAre DEF ConnectorHeads
  <2>2. DirectoriesTyped' /\ UserTyped' /\ TransfersTyped'
    BY <1>8, EndsAre
       DEF ConnectorHeads, DirectoriesTyped, UserTyped, PlansTyped, TransfersTyped, disk,
           user, work, pipes, objects, reports, Go, ConnectorRest
  <2>3. PlacesTyped' /\ PlansTyped'
    BY <1>8, EndsAre
       DEF ConnectorHeads, PlacesTyped, PlansTyped, disk, user, work, pipes, objects,
           reports, ConnectorPlaces, ResponderPlaces, Early, Late, Begun, Over, Go,
           ConnectorRest
  <2> QED
    BY <2>1, <2>2, <2>3
<1>9. ASSUME ConnectorTurn PROVE TypeOK'
  <2>1. PipesTyped'
    BY <1>9, MessagesAre, Received, AnswersTyped, EndsAre DEF ConnectorTurn
  <2>2. DirectoriesTyped' /\ UserTyped' /\ TransfersTyped'
    BY <1>9, EndsAre
       DEF ConnectorTurn, DirectoriesTyped, UserTyped, PlansTyped, TransfersTyped, disk,
           user, work, pipes, objects, reports, Go, ConnectorRest
  <2>3. PlacesTyped' /\ PlansTyped'
    BY <1>9, EndsAre
       DEF ConnectorTurn, PlacesTyped, PlansTyped, disk, user, work, pipes, objects,
           reports, ConnectorPlaces, ResponderPlaces, Early, Late, Begun, Over, Go,
           ConnectorRest
  <2> QED
    BY <2>1, <2>2, <2>3
<1>10. ASSUME ConnectorReports PROVE TypeOK'
  <2>1. PipesTyped'
    BY <1>10, MessagesAre, Received, AnswersTyped, EndsAre DEF ConnectorReports, Reports
  <2>2. DirectoriesTyped' /\ UserTyped' /\ TransfersTyped'
    BY <1>10, EndsAre
       DEF ConnectorReports, DirectoriesTyped, UserTyped, PlansTyped, TransfersTyped, disk,
           user, work, pipes, objects, reports, Reports
  <2>3. PlacesTyped' /\ PlansTyped'
    BY <1>10, EndsAre
       DEF ConnectorReports, PlacesTyped, PlansTyped, disk, user, work, pipes, objects,
           reports, ConnectorPlaces, ResponderPlaces, Early, Late, Begun, Over, Reports
  <2> QED
    BY <2>1, <2>2, <2>3
<1>11. ASSUME ConnectorApplies PROVE TypeOK'
  <2>0. plan[C] \in Plans
    BY <1>11 DEF ConnectorApplies, PlansTyped, Late
  <2>1. PipesTyped'
    BY <1>11 DEF ConnectorApplies, pipes, PipesTyped
  <2>2. DirectoriesTyped' /\ UserTyped' /\ TransfersTyped'
    BY <1>11, ScansTyped, EndsAre, <2>0
       DEF ConnectorApplies, DirectoriesTyped, UserTyped, PlansTyped, TransfersTyped, disk,
           user, work, pipes, objects, reports, Applies, Go, ConnectorRest
  <2>3. PlacesTyped' /\ PlansTyped'
    BY <1>11, ScansTyped, EndsAre, <2>0
       DEF ConnectorApplies, PlacesTyped, PlansTyped, disk, user, work, pipes, objects,
           reports, ConnectorPlaces, ResponderPlaces, Early, Late, Begun, Over, Applies, Go,
           ConnectorRest
  <2> QED
    BY <2>1, <2>2, <2>3
<1>12. ASSUME ConnectorCommits PROVE TypeOK'
  <2>0. plan[C] \in Plans
    BY <1>12 DEF ConnectorCommits, PlansTyped, Late
  <2>1. PipesTyped'
    BY <1>12, MessagesAre, Received, AnswersTyped, EndsAre, ScansTyped, <2>0
       DEF ConnectorCommits, Signals
  <2>2. DirectoriesTyped' /\ UserTyped' /\ TransfersTyped'
    BY <1>12, ScansTyped, EndsAre, <2>0
       DEF ConnectorCommits, DirectoriesTyped, UserTyped, PlansTyped, TransfersTyped, disk,
           user, work, pipes, objects, reports, Acknowledge, Go, ConnectorRest
  <2>3. PlacesTyped' /\ PlansTyped'
    BY <1>12, ScansTyped, EndsAre, <2>0
       DEF ConnectorCommits, PlacesTyped, PlansTyped, disk, user, work, pipes, objects,
           reports, ConnectorPlaces, ResponderPlaces, Early, Late, Begun, Over, Acknowledge,
           Go, ConnectorRest
  <2> QED
    BY <2>1, <2>2, <2>3
<1>13. ASSUME ConnectorShows PROVE TypeOK'
  <2>0. /\ \E p \in {"idle", "prompt"} : at' = [at EXCEPT ![C] = p]
        /\ command' \in {command, None} /\ result' \in {result, "preview"} /\ expected' = plan[C]
        /\ slot' = [slot EXCEPT ![C] = "finished"]
        /\ UNCHANGED <<disk, attempts, scan, plan, applied, objects, heard, serving, told, failures>>
    BY <1>13 DEF ConnectorShows, Go, ConnectorRest
  <2>1. PipesTyped'
    BY <1>13, MessagesAre, Received, AnswersTyped, EndsAre DEF ConnectorShows, Confirmed
  <2>2. DirectoriesTyped' /\ UserTyped'
    BY EndsAre, <2>0
       DEF DirectoriesTyped, UserTyped, PlansTyped, disk, user, work, pipes, objects, reports, Go
  <2>4. TransfersTyped'
    BY EndsAre, <2>0
       DEF TransfersTyped, disk, user, work, pipes, objects, reports, Go
  <2>3. PlacesTyped' /\ PlansTyped'
    BY EndsAre, <2>0
       DEF PlacesTyped, PlansTyped, disk, user, work, pipes, objects, reports,
           ConnectorPlaces, ResponderPlaces, Early, Late, Begun, Over, Go
  <2> QED
    BY <2>1, <2>2, <2>3, <2>4
<1> QED
  BY <1>1, <1>2, <1>3, <1>4, <1>5, <1>6, <1>7, <1>8, <1>9, <1>10, <1>11, <1>12, <1>13

LEMMA ResponderTyped ==
  ASSUME TypeOK
  PROVE  (\/ Accept \/ Deny \/ BeginScan \/ ReportScan \/ ResponderScans \/ ScanFails
          \/ ServeNeed \/ ServeSnapshot \/ ServePlan \/ PlanTooLarge \/ ServeObject
          \/ ServeBatchEnd \/ ServeDone \/ ResponderReports \/ ResponderApplies \/ ApplyFails
          \/ HearApply \/ ServeHeads \/ ServeCommit \/ ServeCancel) => TypeOK'
<1> USE DEF TypeOK
<1>1. ASSUME Accept PROVE TypeOK'
  <2>1. PipesTyped'
    BY <1>1, MessagesAre, Received, AnswersTyped, EndsAre DEF Accept, Signals
  <2>2. DirectoriesTyped' /\ UserTyped' /\ TransfersTyped'
    BY <1>1, Received, EndsAre
       DEF Accept, DirectoriesTyped, UserTyped, PlansTyped, TransfersTyped, disk, user,
           work, pipes, objects, reports, Go, ResponderRest
  <2>3. PlacesTyped' /\ PlansTyped'
    BY <1>1, Received, EndsAre
       DEF Accept, PlacesTyped, PlansTyped, disk, user, work, pipes, objects, reports,
           ConnectorPlaces, ResponderPlaces, Early, Late, Begun, Over, Go, ResponderRest
  <2> QED
    BY <2>1, <2>2, <2>3
<1>2. ASSUME Deny PROVE TypeOK'
  <2>1. PipesTyped'
    BY <1>2, MessagesAre, Received, AnswersTyped, EndsAre DEF Deny, Signals
  <2>2. DirectoriesTyped' /\ UserTyped' /\ TransfersTyped'
    BY <1>2, EndsAre
       DEF Deny, DirectoriesTyped, UserTyped, PlansTyped, TransfersTyped, disk, user, work,
           pipes, objects, reports, Go, ResponderRest
  <2>3. PlacesTyped' /\ PlansTyped'
    BY <1>2, EndsAre
       DEF Deny, PlacesTyped, PlansTyped, disk, user, work, pipes, objects, reports,
           ConnectorPlaces, ResponderPlaces, Early, Late, Begun, Over, Go, ResponderRest
  <2> QED
    BY <2>1, <2>2, <2>3
<1>3. ASSUME BeginScan PROVE TypeOK'
  <2>1. PipesTyped'
    BY <1>3, MessagesAre, Received, AnswersTyped, EndsAre DEF BeginScan, Signals
  <2>2. DirectoriesTyped' /\ UserTyped' /\ TransfersTyped'
    BY <1>3, EndsAre
       DEF BeginScan, DirectoriesTyped, UserTyped, PlansTyped, TransfersTyped, disk, user,
           work, pipes, objects, reports, Go, ResponderRest
  <2>3. PlacesTyped' /\ PlansTyped'
    BY <1>3, EndsAre
       DEF BeginScan, PlacesTyped, PlansTyped, disk, user, work, pipes, objects, reports,
           ConnectorPlaces, ResponderPlaces, Early, Late, Begun, Over, Go, ResponderRest
  <2> QED
    BY <2>1, <2>2, <2>3
<1>4. ASSUME ReportScan PROVE TypeOK'
  <2>0. told[R] + 1 \in Nat
    BY EndsAre DEF TransfersTyped
  <2>1. PipesTyped'
    BY <1>4, MessagesAre, Received, AnswersTyped, EndsAre, <2>0 DEF ReportScan
  <2>2. DirectoriesTyped' /\ UserTyped' /\ TransfersTyped'
    BY <1>4, EndsAre, <2>0
       DEF ReportScan, DirectoriesTyped, UserTyped, PlansTyped, TransfersTyped, disk, user,
           work, pipes, objects, reports, ResponderRest
  <2>3. PlacesTyped' /\ PlansTyped'
    BY <1>4, EndsAre, <2>0
       DEF ReportScan, PlacesTyped, PlansTyped, disk, user, work, pipes, objects, reports,
           ConnectorPlaces, ResponderPlaces, Early, Late, Begun, Over, ResponderRest
  <2> QED
    BY <2>1, <2>2, <2>3
<1>5. ASSUME ResponderScans PROVE TypeOK'
  <2>0. scan'[R] \in Scans /\ scan' = [scan EXCEPT ![R] = scan'[R]]
    BY <1>5, ScansTyped, EndsAre DEF ResponderScans, Scan, PlansTyped
  <2>1. PipesTyped'
    BY <1>5, MessagesAre, Received, AnswersTyped, EndsAre, <2>0 DEF ResponderScans
  <2>2. DirectoriesTyped' /\ UserTyped' /\ TransfersTyped'
    BY <1>5, ScansTyped, EndsAre, <2>0
       DEF ResponderScans, DirectoriesTyped, UserTyped, PlansTyped, TransfersTyped, disk,
           user, work, pipes, objects, reports, Scan, Go, ResponderRest
  <2>3. PlacesTyped' /\ PlansTyped'
    BY <1>5, ScansTyped, EndsAre, <2>0
       DEF ResponderScans, PlacesTyped, PlansTyped, disk, user, work, pipes, objects,
           reports, ConnectorPlaces, ResponderPlaces, Early, Late, Begun, Over, Scan, Go,
           ResponderRest
  <2> QED
    BY <2>1, <2>2, <2>3
<1>6. ASSUME ScanFails PROVE TypeOK'
  <2>1. PipesTyped'
    BY <1>6, MessagesAre, Received, AnswersTyped, EndsAre DEF ScanFails, Signals
  <2>2. DirectoriesTyped' /\ UserTyped' /\ TransfersTyped'
    BY <1>6, EndsAre
       DEF ScanFails, DirectoriesTyped, UserTyped, PlansTyped, TransfersTyped, disk, user,
           work, pipes, objects, reports, Go, ResponderRest
  <2>3. PlacesTyped' /\ PlansTyped'
    BY <1>6, EndsAre
       DEF ScanFails, PlacesTyped, PlansTyped, disk, user, work, pipes, objects, reports,
           ConnectorPlaces, ResponderPlaces, Early, Late, Begun, Over, Go, ResponderRest
  <2> QED
    BY <2>1, <2>2, <2>3
<1>7. ASSUME ServeNeed PROVE TypeOK'
  <2>1. PipesTyped'
    BY <1>7, Received, ObjectsTyped, Handled, EndsAre DEF ServeNeed, Serves
  <2>2. DirectoriesTyped' /\ UserTyped' /\ TransfersTyped'
    BY <1>7, EndsAre
       DEF ServeNeed, DirectoriesTyped, UserTyped, PlansTyped, TransfersTyped, disk, user,
           work, pipes, objects, reports, Serves, Serving, ResponderRest
  <2>3. PlacesTyped' /\ PlansTyped'
    BY <1>7, EndsAre
       DEF ServeNeed, PlacesTyped, PlansTyped, disk, user, work, pipes, objects, reports,
           ConnectorPlaces, ResponderPlaces, Early, Late, Begun, Over, Serves, Serving,
           ResponderRest
  <2> QED
    BY <2>1, <2>2, <2>3
<1>8. ASSUME ServeSnapshot PROVE TypeOK'
  <2>1. PipesTyped'
    BY <1>8, MessagesAre, Received, AnswersTyped, EndsAre DEF ServeSnapshot, Serves
  <2>2. DirectoriesTyped' /\ UserTyped' /\ TransfersTyped'
    BY <1>8, Received, EndsAre
       DEF ServeSnapshot, DirectoriesTyped, UserTyped, PlansTyped, TransfersTyped, disk,
           user, work, pipes, objects, reports, Serves, Serving, ResponderRest
  <2>3. PlacesTyped' /\ PlansTyped'
    BY <1>8, Received, EndsAre
       DEF ServeSnapshot, PlacesTyped, PlansTyped, disk, user, work, pipes, objects,
           reports, ConnectorPlaces, ResponderPlaces, Early, Late, Begun, Over, Serves,
           Serving, ResponderRest
  <2> QED
    BY <2>1, <2>2, <2>3
<1>9. ASSUME ServePlan PROVE TypeOK'
  <2>0. Requests \subseteq Seq(Nat)
    BY OneShotConstants
  <2>a. serving.snapshot \in Scans /\ scan[R] \in Scans
    BY <1>9, EndsAre DEF ServePlan, Serves, PlansTyped, Gets, Takes, ResponderTakes, ServeTakes
  <2>b. PICK sizes \in Seq(Nat) : /\ wanted' = [wanted EXCEPT ![R] = sizes]
                                  /\ batch' = [NothingGot EXCEPT !.sizes = sizes]
    BY <1>9, <2>0 DEF ServePlan
  <2>c. batch' = [sizes |-> sizes, from |-> 0, got |-> 0, bytes |-> 0] /\ giving' = giving /\ at' = at
        /\ told' = told /\ heard' = heard
    BY <1>9, <2>b DEF ServePlan, NothingGot, Serving, ResponderRest
  <2>d. batch' \in [sizes : Seq(Nat), from : Nat, got : Nat, bytes : Nat]
    BY <2>c
  <2>1. PipesTyped'
    BY <1>9, MessagesAre, Received, AnswersTyped, EndsAre, <2>0 DEF ServePlan, Serves
  <2>2. DirectoriesTyped' /\ UserTyped'
    BY <1>9, ScansTyped, EndsAre, <2>0, <2>a
       DEF ServePlan, DirectoriesTyped, UserTyped, PlansTyped, disk, user, work, pipes,
           objects, reports, Serves, Serving, ResponderRest, NothingGot
  <2>4. TransfersTyped'
    BY <2>b, <2>c, <2>d, EndsAre DEF TransfersTyped
  <2>3. PlacesTyped'
    BY <1>9, <2>c DEF ServePlan, PlacesTyped, work
  <2>5. PlansTyped'
    <3>1. /\ plan' = [plan EXCEPT ![R] = PlanOf(serving.snapshot, scan[R])]
          /\ PlanOf(serving.snapshot, scan[R]) \in Plans
          /\ serving' = [serving EXCEPT !.ready = TRUE] /\ UNCHANGED <<at, scan, applied>>
      BY <1>9, <2>a, ScansTyped, EndsAre DEF ServePlan
    <3>2. plan'[R] \in Plans /\ plan'[C] = plan[C] /\ plan' \in [Ends -> Plans \cup {None}]
      BY <3>1, EndsAre DEF PlansTyped
    <3> QED
      BY <3>1, <3>2 DEF PlansTyped
  <2> QED
    BY <2>1, <2>2, <2>3, <2>4, <2>5
<1>10. ASSUME PlanTooLarge PROVE TypeOK'
  <2>1. PipesTyped'
    BY <1>10, MessagesAre, Received, AnswersTyped, EndsAre
       DEF PlanTooLarge, Signals, Serves
  <2>2. DirectoriesTyped' /\ UserTyped' /\ TransfersTyped'
    BY <1>10, EndsAre
       DEF PlanTooLarge, DirectoriesTyped, UserTyped, PlansTyped, TransfersTyped, disk,
           user, work, pipes, objects, reports, Serves, Go, Serving,
           ResponderRest
  <2>3. PlacesTyped' /\ PlansTyped'
    BY <1>10, EndsAre
       DEF PlanTooLarge, PlacesTyped, PlansTyped, disk, user, work, pipes, objects, reports,
           ConnectorPlaces, ResponderPlaces, Early, Late, Begun, Over, Serves,
           Go, Serving, ResponderRest
  <2> QED
    BY <2>1, <2>2, <2>3
<1>11. ASSUME ServeObject PROVE TypeOK'
  <2>0. Tail(wanted[R]) \in Seq(Nat) /\ Arg(R) \in Nat
    BY <1>11, Received, HeadTailProperties, EndsAre
       DEF ServeObject, Serves, TransfersTyped, Gets, Takes, ResponderTakes, ServeTakes
  <2>a. batch.got + 1 \in Nat /\ batch.bytes + Arg(R) \in Nat
    <3>1. batch.got \in Nat /\ batch.bytes \in Nat
      BY DEF TransfersTyped
    <3> QED
      BY <2>0, <3>1
  <2>1. PipesTyped'
    BY <1>11, MessagesAre, Received, AnswersTyped, EndsAre DEF ServeObject, Serves
  <2>2. DirectoriesTyped' /\ UserTyped'
    BY <1>11, EndsAre, <2>0, <2>a
       DEF ServeObject, DirectoriesTyped, UserTyped, PlansTyped, disk, user, work, pipes,
           objects, reports, Serves, Serving, ResponderRest
  <2>4. TransfersTyped'
    BY <1>11, EndsAre, <2>0, <2>a
       DEF ServeObject, TransfersTyped, disk, user, work, pipes, objects, reports, Serves,
           Serving, ResponderRest
  <2>3. PlacesTyped' /\ PlansTyped'
    BY <1>11, EndsAre, <2>0, <2>a
       DEF ServeObject, PlacesTyped, PlansTyped, disk, user, work, pipes, objects, reports,
           ConnectorPlaces, ResponderPlaces, Early, Late, Begun, Over, Serves, Serving,
           ResponderRest
  <2> QED
    BY <2>1, <2>2, <2>3, <2>4
<1>12. ASSUME ServeBatchEnd PROVE TypeOK'
  <2>0. Receipt(batch) \in [objects : Nat, bytes : Nat]
    BY DEF Receipt, TransfersTyped
  <2>1. PipesTyped'
    BY <1>12, MessagesAre, Received, AnswersTyped, EndsAre, <2>0 DEF ServeBatchEnd, Serves
  <2>2. DirectoriesTyped' /\ UserTyped' /\ TransfersTyped'
    BY <1>12, EndsAre
       DEF ServeBatchEnd, DirectoriesTyped, UserTyped, PlansTyped, TransfersTyped, disk,
           user, work, pipes, objects, reports, Serves, Serving, ResponderRest
  <2>3. PlacesTyped' /\ PlansTyped'
    BY <1>12, EndsAre
       DEF ServeBatchEnd, PlacesTyped, PlansTyped, disk, user, work, pipes, objects,
           reports, ConnectorPlaces, ResponderPlaces, Early, Late, Begun, Over, Serves,
           Serving, ResponderRest
  <2> QED
    BY <2>1, <2>2, <2>3
<1>13. ASSUME ServeDone PROVE TypeOK'
  <2>1. PipesTyped'
    BY <1>13, MessagesAre, Received, AnswersTyped, EndsAre DEF ServeDone, Serves
  <2>2. DirectoriesTyped' /\ UserTyped' /\ TransfersTyped'
    BY <1>13, EndsAre
       DEF ServeDone, DirectoriesTyped, UserTyped, PlansTyped, TransfersTyped, disk, user,
           work, pipes, objects, reports, Serves, Serving, Go, ResponderRest
  <2>3. PlacesTyped' /\ PlansTyped'
    BY <1>13, EndsAre
       DEF ServeDone, Gets, Takes, ResponderTakes, ServeTakes, PlacesTyped, PlansTyped, disk, user, work, pipes, objects, reports,
           ConnectorPlaces, ResponderPlaces, Early, Late, Begun, Over, Serves, Serving, Go,
           ResponderRest
  <2> QED
    BY <2>1, <2>2, <2>3
<1>14. ASSUME ResponderReports PROVE TypeOK'
  <2>1. PipesTyped'
    BY <1>14, MessagesAre, Received, AnswersTyped, EndsAre DEF ResponderReports, Reports
  <2>2. DirectoriesTyped' /\ UserTyped' /\ TransfersTyped'
    BY <1>14, EndsAre
       DEF ResponderReports, DirectoriesTyped, UserTyped, PlansTyped, TransfersTyped, disk,
           user, work, pipes, objects, reports, Reports
  <2>3. PlacesTyped' /\ PlansTyped'
    BY <1>14, EndsAre
       DEF ResponderReports, PlacesTyped, PlansTyped, disk, user, work, pipes, objects,
           reports, ConnectorPlaces, ResponderPlaces, Early, Late, Begun, Over, Reports
  <2> QED
    BY <2>1, <2>2, <2>3
<1>15. ASSUME ResponderApplies PROVE TypeOK'
  <2>0. plan[R] \in Plans
    BY <1>15 DEF ResponderApplies, PlansTyped
  <2>1. PipesTyped'
    BY <1>15, MessagesAre, Received, AnswersTyped, EndsAre, ScansTyped, <2>0
       DEF ResponderApplies, Signals
  <2>2. DirectoriesTyped' /\ UserTyped' /\ TransfersTyped'
    BY <1>15, ScansTyped, EndsAre, <2>0
       DEF ResponderApplies, DirectoriesTyped, UserTyped, PlansTyped, TransfersTyped, disk,
           user, work, pipes, objects, reports, Applies, Go, ResponderRest
  <2>3. PlacesTyped' /\ PlansTyped'
    BY <1>15, ScansTyped, EndsAre, <2>0
       DEF ResponderApplies, PlacesTyped, PlansTyped, disk, user, work, pipes, objects,
           reports, ConnectorPlaces, ResponderPlaces, Early, Late, Begun, Over, Applies, Go,
           ResponderRest
  <2> QED
    BY <2>1, <2>2, <2>3
<1>16. ASSUME ApplyFails PROVE TypeOK'
  <2>1. PipesTyped'
    BY <1>16, MessagesAre, Received, AnswersTyped, EndsAre DEF ApplyFails, Signals
  <2>2. DirectoriesTyped' /\ UserTyped' /\ TransfersTyped'
    BY <1>16, EndsAre
       DEF ApplyFails, DirectoriesTyped, UserTyped, PlansTyped, TransfersTyped, disk, user,
           work, pipes, objects, reports, Go, Serving, ResponderRest
  <2>3. PlacesTyped' /\ PlansTyped'
    BY <1>16, EndsAre
       DEF ApplyFails, PlacesTyped, PlansTyped, disk, user, work, pipes, objects, reports,
           ConnectorPlaces, ResponderPlaces, Early, Late, Begun, Over, Go, Serving,
           ResponderRest
  <2> QED
    BY <2>1, <2>2, <2>3
<1>17. ASSUME HearApply PROVE TypeOK'
  <2>1. PipesTyped'
    BY <1>17, MessagesAre, Received, AnswersTyped, EndsAre DEF HearApply, Serves
  <2>2. DirectoriesTyped' /\ UserTyped' /\ TransfersTyped'
    BY <1>17, Received, EndsAre
       DEF HearApply, DirectoriesTyped, UserTyped, PlansTyped, TransfersTyped, disk, user,
           work, pipes, objects, reports, Serves
  <2>3. PlacesTyped' /\ PlansTyped'
    BY <1>17, Received, EndsAre
       DEF HearApply, PlacesTyped, PlansTyped, disk, user, work, pipes, objects, reports,
           ConnectorPlaces, ResponderPlaces, Early, Late, Begun, Over, Serves
  <2> QED
    BY <2>1, <2>2, <2>3
<1>18. ASSUME ServeHeads PROVE TypeOK'
  <2>1. PipesTyped'
    BY <1>18, MessagesAre, Received, AnswersTyped, EndsAre DEF ServeHeads, Serves
  <2>2. DirectoriesTyped' /\ UserTyped' /\ TransfersTyped'
    BY <1>18, Received, EndsAre
       DEF ServeHeads, DirectoriesTyped, UserTyped, PlansTyped, TransfersTyped, disk, user,
           work, pipes, objects, reports, Serves, Serving, ResponderRest
  <2>3. PlacesTyped' /\ PlansTyped'
    BY <1>18, Received, EndsAre
       DEF ServeHeads, PlacesTyped, PlansTyped, disk, user, work, pipes, objects, reports,
           ConnectorPlaces, ResponderPlaces, Early, Late, Begun, Over, Serves, Serving,
           ResponderRest
  <2> QED
    BY <2>1, <2>2, <2>3
<1>19. ASSUME ServeCommit PROVE TypeOK'
  <2>0. serving.heads \in SUBSET Edits
    BY <1>19, EndsAre DEF ServeCommit, Serves, Gets, Takes, ResponderTakes, ServeTakes, DirectoriesTyped
  <2>1. PipesTyped'
    BY <1>19, MessagesAre, Received, AnswersTyped, EndsAre DEF ServeCommit, Signals, Serves
  <2>2. DirectoriesTyped' /\ UserTyped' /\ TransfersTyped'
    BY <1>19, EndsAre, <2>0
       DEF ServeCommit, DirectoriesTyped, UserTyped, PlansTyped, TransfersTyped, disk, user,
           work, pipes, objects, reports, Serves, Acknowledge, Go
  <2>3. PlacesTyped' /\ PlansTyped'
    BY <1>19, EndsAre, <2>0
       DEF ServeCommit, PlacesTyped, PlansTyped, disk, user, work, pipes, objects, reports,
           ConnectorPlaces, ResponderPlaces, Early, Late, Begun, Over, Serves, Acknowledge,
           Go
  <2> QED
    BY <2>1, <2>2, <2>3
<1>20. ASSUME ServeCancel PROVE TypeOK'
  <2>1. PipesTyped'
    BY <1>20, MessagesAre, Received, AnswersTyped, EndsAre DEF ServeCancel, Signals, Serves
  <2>2. DirectoriesTyped' /\ UserTyped' /\ TransfersTyped'
    BY <1>20, EndsAre
       DEF ServeCancel, DirectoriesTyped, UserTyped, PlansTyped, TransfersTyped, disk, user,
           work, pipes, objects, reports, Serves, Go, Serving, ResponderRest
  <2>3. PlacesTyped' /\ PlansTyped'
    BY <1>20, EndsAre
       DEF ServeCancel, PlacesTyped, PlansTyped, disk, user, work, pipes, objects, reports,
           ConnectorPlaces, ResponderPlaces, Early, Late, Begun, Over, Serves, Go, Serving,
           ResponderRest
  <2> QED
    BY <2>1, <2>2, <2>3
<1> QED
  BY <1>1, <1>2, <1>3, <1>4, <1>5, <1>6, <1>7, <1>8, <1>9, <1>10, <1>11, <1>12, <1>13,
     <1>14, <1>15, <1>16, <1>17, <1>18, <1>19, <1>20

(* The ends leave.                                                         *)
LEMMA GoneTyped ==
  ASSUME TypeOK, NEW e \in Ends, NEW kept, Gone(e, kept), failures' \in Nat,
         \E n \in 0 .. Len(wire[Other(e)]) : kept = SubSeq(wire[Other(e)], 1, n)
  PROVE  TypeOK' /\ Lossy
<1> USE DEF TypeOK
<1>1. PipesTyped' /\ Lossy
  BY Parted DEF Gone
<1>2. /\ at' = [at EXCEPT ![e] = IF e = C THEN "idle" ELSE "failed"]
      /\ slot' = [slot EXCEPT ![e] = IF slot[e] = "finished" THEN slot[e] ELSE "lost"]
      /\ command' \in {command, None} /\ result' \in {result, "failed"}
      /\ UNCHANGED <<disk, expected, attempts, scan, plan, applied, objects, serving, reports>>
  BY DEF Gone, Leave, Go
<1>3. DirectoriesTyped' /\ UserTyped'
  BY <1>2, EndsAre DEF DirectoriesTyped, UserTyped, disk
<1>4. PlacesTyped'
  BY <1>2, EndsAre DEF PlacesTyped, ConnectorPlaces, ResponderPlaces, Over
<1>5. PlansTyped'
  BY <1>2, EndsAre DEF PlansTyped, PlacesTyped, ConnectorPlaces, ResponderPlaces, Early, Late, Over
<1>6. TransfersTyped'
  <2>1. at'[C] = "sending" => at[C] = "sending"
    BY <1>2, EndsAre DEF PlacesTyped
  <2> QED
    BY <1>2, <2>1 DEF TransfersTyped, objects, reports
<1> QED
  BY <1>1, <1>3, <1>4, <1>5, <1>6

(* What is kept of the messages to the other end.                          *)
LEMMA KeptIsPrefix ==
  ASSUME PipesTyped, NEW e \in Ends
  PROVE  \E n \in 0 .. Len(wire[e]) : wire[e] = SubSeq(wire[e], 1, n)
BY WholeAndNone DEF PipesTyped

Departs(e) ==
  /\ Running(e) /\ failures' \in Nat
  /\ \E kept :
       Gone(e, kept) /\ \E n \in 0 .. Len(wire[Other(e)]) : kept = SubSeq(wire[Other(e)], 1, n)

LEMMA Departures ==
  ASSUME TypeOK
  PROVE  /\ \A e \in Ends : GiveUp(e) \/ EndOfInput(e) => Departs(e)
         /\ ExitFails \/ ConnectorFails => Departs(C)
<1> USE DEF TypeOK
<1>1. ASSUME NEW e \in Ends, GiveUp(e) PROVE Departs(e)
  <2>1. failures' \in Nat
    BY <1>1 DEF GiveUp, UserTyped
  <2> QED
    BY <1>1, <2>1 DEF GiveUp, Departs
<1>2. ASSUME NEW e \in Ends, Running(e), Gone(e, wire[Other(e)]), UNCHANGED failures
      PROVE  Departs(e)
  <2>1. \E n \in 0 .. Len(wire[Other(e)]) : wire[Other(e)] = SubSeq(wire[Other(e)], 1, n)
    BY KeptIsPrefix, EndsAre
  <2>2. failures' \in Nat
    BY <1>2 DEF UserTyped
  <2> QED
    BY <1>2, <2>1, <2>2 DEF Departs
<1>3. (\A e \in Ends : EndOfInput(e) => Departs(e)) /\ (ExitFails \/ ConnectorFails => Departs(C))
  <2>1. at[C] \in {"finish", "cancelled", "opening", "scanning", "proposed", "sending", "applying"}
          => Running(C)
    BY DEF Running
  <2> QED
    BY <1>2, <2>1, EndsAre DEF EndOfInput, ExitFails, ConnectorFails, Gets, Takes, ConnectorTakes
<1> QED
  BY <1>1, <1>3

LEMMA LeavesTyped ==
  ASSUME TypeOK, ResponderLeaves
  PROVE  TypeOK' /\ Lossy
<1> USE DEF TypeOK
<1>1. \E n \in 0 .. Len(wire[C]) : wire[C] = SubSeq(wire[C], 1, n)
  BY KeptIsPrefix, EndsAre
<1>2. PipesTyped' /\ Lossy
  BY <1>1, Parted, EndsAre DEF ResponderLeaves
<1>3. /\ at' = [at EXCEPT ![R] = "ended"]
      /\ UNCHANGED <<disk, user, work, objects, serving, reports, failures>>
  BY DEF ResponderLeaves, Leave, Go, ResponderRest, disk, work, objects, reports
<1>4. DirectoriesTyped' /\ UserTyped' /\ TransfersTyped'
  BY <1>3, EndsAre DEF DirectoriesTyped, UserTyped, TransfersTyped, disk, user, objects, reports
<1>5. PlacesTyped' /\ PlansTyped'
  BY <1>3, EndsAre DEF PlacesTyped, PlansTyped, ResponderPlaces, Over, work
<1> QED
  BY <1>2, <1>4, <1>5

LEMMA FinishesTyped ==
  ASSUME TypeOK, ConnectorFinishes
  PROVE  TypeOK' /\ Lossy
<1> USE DEF TypeOK
<1>1. \E n \in 0 .. Len(wire[R]) : <<>> = SubSeq(wire[R], 1, n)
  BY WholeAndNone, EndsAre DEF PipesTyped
<1>2. PipesTyped' /\ Lossy
  BY <1>1, Parted, EndsAre DEF ConnectorFinishes
<1>3. /\ at' = [at EXCEPT ![C] = "idle"] /\ slot' = [slot EXCEPT ![C] = "finished"]
      /\ command' = None /\ result' = "ok"
      /\ UNCHANGED <<disk, expected, attempts, scan, plan, applied, objects, serving, reports, failures>>
  BY DEF ConnectorFinishes, Leave, Go, ConnectorRest, reports
<1>4. DirectoriesTyped' /\ UserTyped' /\ TransfersTyped'
  BY <1>3, EndsAre DEF DirectoriesTyped, UserTyped, TransfersTyped, disk, objects, reports
<1>5. PlacesTyped'
  BY <1>3, EndsAre DEF PlacesTyped, ConnectorPlaces
<1>6. PlansTyped'
  BY <1>3, EndsAre DEF PlansTyped, Early, Late
<1> QED
  BY <1>2, <1>4, <1>5, <1>6

(* Objects are sent in batches.                                            *)
LEMMA SendsTyped ==
  ASSUME TypeOK, ConnectorSends \/ ConnectorReceipt
  PROVE  TypeOK'
<1> USE DEF TypeOK
<1> DEFINE sizes == IF ConnectorSends THEN Arg(C) ELSE giving.sizes
           n == IF ConnectorSends THEN 0 ELSE BatchEnd(giving.sizes, giving.sent)
<1>1. CASE ConnectorSends
  <2>1. Waiting(C) /\ Arg(C) \in Seq(Nat) /\ Len(Arg(C)) \in Nat
    BY <1>1, Received, EndsAre, LenProperties DEF ConnectorSends
  <2>2. Batch(Arg(C), 0) \in Seq(Messages)
    BY <2>1, BatchTyped
  <2>3. PipesTyped'
    BY <1>1, <2>1, <2>2, Handled, EndsAre DEF ConnectorSends
  <2>4. DirectoriesTyped' /\ UserTyped'
    BY <1>1 DEF ConnectorSends, ConnectorRest, DirectoriesTyped, UserTyped, disk, user
  <2>5. PlacesTyped'
    BY <1>1, EndsAre DEF ConnectorSends, SendsOrHears, Go, PlacesTyped, ConnectorPlaces, Late, work
  <2>6. PlansTyped'
    BY <1>1, EndsAre
       DEF ConnectorSends, ConnectorRest, SendsOrHears, Go, PlansTyped, PlacesTyped, Late, work
  <2>7. TransfersTyped'
    <3>1. /\ giving' = [sizes |-> Arg(C), sent |-> 0] /\ heard' = [heard EXCEPT ![C] = 0]
          /\ UNCHANGED <<wanted, batch, told>>
          /\ at' = [at EXCEPT ![C] = IF 0 = Len(Arg(C)) THEN "applying" ELSE "sending"]
      BY <1>1 DEF ConnectorSends, ConnectorRest, SendsOrHears, Go
    <3>2. giving'.sizes = Arg(C) /\ giving'.sent = 0
      BY <3>1
    <3>3. at'[C] = "sending" => 0 # Len(Arg(C))
      BY <3>1, EndsAre DEF PlacesTyped
    <3>4. 0 <= Len(Arg(C)) /\ (at'[C] = "sending" => 0 < Len(Arg(C)))
      <4> DEFINE l == Len(Arg(C))
      <4> HIDE DEF l
      <4>1. l \in Nat /\ (at'[C] = "sending" => 0 # l)
        BY <2>1, <3>3 DEF l
      <4>2. 0 <= l /\ (at'[C] = "sending" => 0 < l)
        BY <4>1
      <4> QED
        BY <4>2 DEF l
    <3> QED
      BY <2>1, <3>1, <3>2, <3>4, EndsAre DEF TransfersTyped
  <2> QED
    BY <2>3, <2>4, <2>5, <2>6, <2>7
<1>2. CASE ConnectorReceipt
  <2> DEFINE b == BatchEnd(giving.sizes, giving.sent)
             l == Len(giving.sizes)
  <2>1. /\ Waiting(C) /\ giving.sizes \in Seq(Nat) /\ l \in Nat
        /\ giving.sent \in Nat /\ giving.sent < l
    BY <1>2, Received, EndsAre, LenProperties DEF ConnectorReceipt, TransfersTyped
  <2>2. b \in Nat /\ b <= l
    <3>1. b \in giving.sent + 1 .. l
      BY <2>1, BatchEnds
    <3> HIDE DEF b, l
    <3> QED
      BY <2>1, <3>1
  <2>3. Batch(giving.sizes, b) \in Seq(Messages)
    <3> HIDE DEF b
    <3> QED
      BY <2>1, <2>2, BatchTyped
  <2>4. /\ Reply(C, Batch(giving.sizes, b)) /\ giving' = [giving EXCEPT !.sent = b]
        /\ at' = [at EXCEPT ![C] = IF b = l THEN "applying" ELSE "sending"] /\ at[C] = "sending"
        /\ UNCHANGED <<disk, user, work, wanted, batch, heard, serving, told, failures>>
    BY <1>2 DEF ConnectorReceipt, ConnectorRest, SendsOrHears, Go
  <2> HIDE DEF b
  <2>5. PipesTyped'
    BY <2>1, <2>3, <2>4, Handled, EndsAre
  <2>6. DirectoriesTyped' /\ UserTyped'
    BY <2>4 DEF DirectoriesTyped, UserTyped, disk, user
  <2>7. PlacesTyped'
    BY <2>4, EndsAre DEF PlacesTyped, ConnectorPlaces, Late, work
  <2>8. PlansTyped'
    BY <2>4, EndsAre DEF PlansTyped, PlacesTyped, Late, work
  <2>9. TransfersTyped'
    <3>1. giving'.sizes = giving.sizes /\ giving'.sent = b
      BY <2>4 DEF TransfersTyped
    <3>2. at'[C] = "sending" => b # l
      BY <2>4, EndsAre DEF PlacesTyped
    <3>3. at'[C] = "sending" => b < l
      <4> HIDE DEF l
      <4> QED
        BY <2>1, <2>2, <3>2
    <3> QED
      BY <2>2, <2>4, <3>1, <3>3 DEF TransfersTyped
  <2> QED
    BY <2>5, <2>6, <2>7, <2>8, <2>9
<1> QED
  BY <1>1, <1>2

(* The user, the pipes and a new connection.                               *)
LEMMA StartTyped ==
  ASSUME TypeOK, Start
  PROVE  TypeOK'
<1> USE DEF TypeOK
<1>1. /\ at' = [e \in Ends |-> IF e = C THEN "opening" ELSE "idle"] /\ attempts' = attempts + 1
      /\ outbox' = [e \in Ends |-> IF e = C THEN <<MessageOf("Sync", DryRun)>> ELSE <<>>]
      /\ wire' = [e \in Ends |-> <<>>] /\ open' = TRUE
      /\ UNCHANGED <<disk, command, expected, result, failures>>
  BY EndsAre DEF Start, Nothing
<1>2. /\ scan' = [e \in Ends |-> None] /\ plan' = [e \in Ends |-> None]
      /\ applied' = [e \in Ends |-> None] /\ slot' = [e \in Ends |-> "free"]
      /\ wanted' = [e \in Ends |-> <<>>] /\ giving' = NothingGiven /\ batch' = NothingGot
      /\ serving' = NothingServed /\ told' = [e \in Ends |-> 0]
      /\ heard' = [e \in Ends |-> IF e = C THEN None ELSE 0]
  BY EndsAre DEF Start, Fresh, Nothing
<1>3. PipesTyped'
  <2>1. MessageOf("Sync", DryRun) \in Messages
    BY MessagesAre DEF DryRun
  <2> QED
    BY <1>1, <2>1, Short DEF PipesTyped
<1>4. DirectoriesTyped' /\ UserTyped' /\ PlacesTyped'
  BY <1>1, <1>2, EndsAre
     DEF DirectoriesTyped, UserTyped, PlacesTyped, disk, ConnectorPlaces, ResponderPlaces,
         Early, Begun
<1>5. PlansTyped'
  BY <1>1, <1>2, EndsAre DEF PlansTyped, NothingServed, Early, Late
<1>6. TransfersTyped'
  <2>1. <<>> \in Seq(Nat) /\ Len(<<>>) = 0
    BY EmptySeq
  <2> QED
    BY <1>1, <1>2, <2>1, EndsAre DEF TransfersTyped, NothingGiven, NothingGot
<1> QED
  BY <1>3, <1>4, <1>5, <1>6

LEMMA OthersTyped ==
  ASSUME TypeOK
  PROVE  /\ \A c \in Commands : Give(c) => TypeOK'
         /\ Confirm \/ Decline => TypeOK'
         /\ \A e \in Ends, x \in Edits : Edit(e, x) => TypeOK'
         /\ \A e \in Ends : Write(e) => TypeOK'
         /\ Break => TypeOK' /\ Lossy
         /\ UNCHANGED vars => TypeOK'
<1> USE DEF TypeOK
<1> USE DEF disk, user, work, pipes, objects, reports
<1>1. ASSUME NEW c \in Commands, Give(c) PROVE TypeOK'
  <2>1. PipesTyped' /\ DirectoriesTyped' /\ UserTyped' /\ PlacesTyped' /\ TransfersTyped'
    BY <1>1 DEF Give, PipesTyped, DirectoriesTyped, UserTyped, PlacesTyped, TransfersTyped
  <2>2. PlansTyped'
    BY <1>1 DEF Give, Nothing, PlansTyped
  <2> QED
    BY <2>1, <2>2
<1>2. ASSUME Confirm \/ Decline PROVE TypeOK'
  <2>1. /\ at' = [at EXCEPT ![C] = "idle"] /\ command' \in {command, None}
        /\ result' \in {result, "declined"}
        /\ UNCHANGED <<disk, expected, attempts, work, pipes, objects, serving, reports, failures>>
    BY <1>2 DEF Confirm, Decline, Go
  <2>2. PipesTyped' /\ DirectoriesTyped' /\ UserTyped'
    BY <2>1 DEF PipesTyped, DirectoriesTyped, UserTyped
  <2>3. PlacesTyped' /\ PlansTyped'
    BY <2>1, EndsAre DEF PlacesTyped, PlansTyped, ConnectorPlaces, Early, Late
  <2>4. at'[C] = "idle"
    BY <2>1, EndsAre DEF PlacesTyped
  <2>5. TransfersTyped'
    BY <2>1, <2>4 DEF TransfersTyped
  <2> QED
    BY <2>2, <2>3, <2>5
<1>3. ASSUME NEW e \in Ends, NEW x \in Edits, Edit(e, x) PROVE TypeOK'
  <2>1. DirectoriesTyped'
    BY <1>3 DEF Edit, DirectoriesTyped
  <2> QED
    <3>1. UNCHANGED <<stored, acked, initial, user, at, work, pipes, objects, serving, reports, failures>>
      BY <1>3 DEF Edit
    <3>2. PipesTyped' /\ UserTyped' /\ PlacesTyped'
      BY <3>1 DEF PipesTyped, UserTyped, PlacesTyped
    <3>3. PlansTyped' /\ TransfersTyped'
      BY <3>1 DEF PlansTyped, TransfersTyped
    <3> QED
      BY <2>1, <3>2, <3>3
<1>4. ASSUME NEW e \in Ends, Write(e) PROVE TypeOK'
  <2>1. PipesTyped'
    BY <1>4, Transmitted
  <2> QED
    <3>1. UNCHANGED <<disk, user, failures, at, work, objects, serving, reports>>
      BY <1>4 DEF Write
    <3>2. DirectoriesTyped' /\ UserTyped' /\ PlacesTyped'
      BY <3>1 DEF DirectoriesTyped, UserTyped, PlacesTyped
    <3>3. PlansTyped' /\ TransfersTyped'
      BY <3>1 DEF PlansTyped, TransfersTyped
    <3> QED
      BY <2>1, <3>2, <3>3
<1>5. ASSUME Break PROVE TypeOK' /\ Lossy
  <2>1. PipesTyped' /\ Lossy
    BY <1>5, Broken
  <2> QED
    <3>1. failures' \in Nat /\ UNCHANGED <<disk, user, at, work, objects, serving, reports>>
      BY <1>5 DEF Break, UserTyped
    <3>2. DirectoriesTyped' /\ UserTyped' /\ PlacesTyped'
      BY <3>1 DEF DirectoriesTyped, UserTyped, PlacesTyped
    <3>3. PlansTyped' /\ TransfersTyped'
      BY <3>1 DEF PlansTyped, TransfersTyped
    <3> QED
      BY <2>1, <3>2, <3>3
<1>6. ASSUME UNCHANGED vars PROVE TypeOK'
  <2>1. UNCHANGED <<disk, user, failures, at, work, pipes, objects, serving, reports>>
    BY <1>6 DEF vars
  <2>2. PipesTyped' /\ DirectoriesTyped' /\ UserTyped' /\ PlacesTyped'
    BY <2>1 DEF PipesTyped, DirectoriesTyped, UserTyped, PlacesTyped
  <2>3. PlansTyped' /\ TransfersTyped'
    BY <2>1 DEF PlansTyped, TransfersTyped
  <2> QED
    BY <2>2, <2>3
<1> QED
  BY <1>1, <1>2, <1>3, <1>4, <1>5, <1>6

LEMMA InitTyped == Init => TypeOK
<1> SUFFICES ASSUME Init PROVE TypeOK
  OBVIOUS
<1>1. <<>> \in Seq(Messages) /\ <<>> \in Seq(Nat) /\ Len(<<>>) = 0
  BY EmptySeq
<1>2. PipesTyped /\ DirectoriesTyped /\ UserTyped
  BY <1>1, OneShotConstants DEF Init, Nothing, PipesTyped, DirectoriesTyped, UserTyped
<1>3. PlacesTyped
  BY EndsAre DEF Init, Fresh, Nothing, PlacesTyped, ConnectorPlaces, ResponderPlaces, Begun
<1>4. PlansTyped
  BY EndsAre DEF Init, Fresh, Nothing, PlansTyped, NothingServed, Early, Late
<1>5. TransfersTyped
  BY <1>1, EndsAre DEF Init, Fresh, Nothing, TransfersTyped, NothingGiven, NothingGot
<1> QED
  BY <1>2, <1>3, <1>4, <1>5 DEF TypeOK

----------------------------------------------------------------------------
(* The steps, grouped by what they have in common.                         *)

Progresses ==
  \/ HearScan \/ ConnectorObject \/ ConnectorHears \/ ConnectorHeads \/ ConnectorReports
  \/ Accept \/ Deny \/ BeginScan \/ ReportScan \/ ScanFails \/ ServeObject \/ ServeBatchEnd
  \/ ServeDone \/ ResponderReports \/ ApplyFails \/ HearApply

ConnectorTurns ==
  \/ ConnectorScans \/ ConnectorPlans \/ ConnectorCancels \/ ConnectorProposes \/ ConnectorTurn
  \/ ConnectorApplies \/ ConnectorCommits \/ ConnectorShows

ResponderTurns ==
  \/ ResponderScans \/ ServeNeed \/ ServeSnapshot \/ ServePlan \/ PlanTooLarge
  \/ ResponderApplies \/ ServeHeads \/ ServeCommit \/ ServeCancel

LEMMA NextIs ==
  ASSUME TypeOK, [Next]_vars
  PROVE  \/ Progresses \/ ConnectorTurns \/ ResponderTurns
         \/ ConnectorSends \/ ConnectorReceipt \/ ResponderLeaves \/ ConnectorFinishes
         \/ Start \/ (\E c \in Commands : Give(c)) \/ Confirm \/ Decline
         \/ (\E e \in Ends, x \in Edits : Edit(e, x)) \/ (\E e \in Ends : Write(e) \/ Departs(e))
         \/ Break \/ UNCHANGED vars
<1>1. CASE \E e \in Ends : Steps(e) \/ GiveUp(e)
  <2>1. PICK e \in Ends : Steps(e) \/ GiveUp(e)
    BY <1>1
  <2>2. CASE GiveUp(e) \/ EndOfInput(e) \/ ExitFails \/ ConnectorFails
    BY <2>2, Departures, EndsAre
  <2>3. CASE Connects /\ ~ExitFails /\ ~ConnectorFails
    BY <2>3 DEF Connects, ConnectorHandles, Progresses, ConnectorTurns
  <2>4. CASE Responds
    BY <2>4 DEF Responds, ResponderHandles, Progresses, ResponderTurns
  <2> QED
    BY <2>1, <2>2, <2>3, <2>4 DEF Steps
<1> QED
  BY <1>1 DEF Next

LEMMA StepTyped == TypeOK /\ [Next]_vars => TypeOK'
<1> SUFFICES ASSUME TypeOK, [Next]_vars PROVE TypeOK'
  OBVIOUS
<1>1. CASE Progresses \/ ConnectorTurns \/ ResponderTurns
  BY <1>1, ConnectorTyped, ResponderTyped DEF Progresses, ConnectorTurns, ResponderTurns
<1>2. CASE \E e \in Ends : Write(e) \/ Departs(e)
  BY <1>2, OthersTyped, GoneTyped DEF Departs
<1> QED
  BY <1>1, <1>2, NextIs, SendsTyped, LeavesTyped, FinishesTyped, StartTyped, OthersTyped

(* What the ends exchange, and what each keeps of it, is of the type its   *)
(* handler reads, in every order of messages and failures.                 *)
THEOREM TypeCorrect == Spec => []TypeOK
<1>1. Init => TypeOK
  BY InitTyped
<1>2. TypeOK /\ [Next]_vars => TypeOK'
  BY StepTyped
<1> QED
  BY <1>1, <1>2, PTL DEF Spec

----------------------------------------------------------------------------
(* The session: what the ends know of each other.                          *)

Coming(e, t) == \E m \in Range(Queue(e)) : m.type = t

(* A connection is for a command.                                          *)
Asked == at[C] # "idle" => command # None

(* Until the connector proposes its plan, the responder is told nothing.   *)
Allowed ==
  {"Sync", "ScanRequest"} \cup (IF at[C] \in {"objects", "cancelled"} THEN {"Need"} ELSE {})
    \cup (IF at[C] = "cancelled" THEN {"Cancel"} ELSE {})

Confined ==
  /\ at[C] \in Early => /\ serving.snapshot = None
                        /\ \A m \in Range(Queue(R)) : m.type \in Allowed
  /\ at[C] \in {"opening", "scanning"} => ~serving.need

(* The plan is made of what the two ends scanned for this connection.      *)
Planned ==
  \/ at[C] \in {"objects", "cancelled"} \cup Late
  \/ serving.snapshot # None \/ Coming(R, "Snapshot")

PlanMade == Planned => at[R] \notin Begun /\ plan[C] = PlanOf(scan[C], scan[R])

Snapshots ==
  /\ \A m \in Range(Queue(C)) : m.type = "Snapshot" => m.arg = scan[R] /\ at[R] \notin Begun
  /\ \A m \in Range(Queue(R)) : m.type = "Snapshot" => m.arg = scan[C]
  /\ serving.snapshot \in {None, scan[C]}

(* It was proposed because the user agrees.                                *)
Agreed ==
  /\ (serving.snapshot # None \/ Coming(R, "Snapshot")) /\ at[R] \notin Over
       => command = None \/ at[C] \in Late
  /\ at[C] \in Late => ~MustShow

(* The responder works on the plan of the connector, and on it alone.      *)
Served ==
  /\ serving.ready \/ serving.applied =>
       serving.snapshot # None /\ plan[R] = plan[C] /\ ~Coming(R, "Plan")
  /\ PlanOnce(Queue(R))

OnePlan ==
  \A e \in Ends :
    applied[e] # None => applied[e] = plan[C] /\ (command = None \/ at[C] \in Late)

(* Heads come before what acknowledges them, and are the connector's.      *)
Told == serving.heads = Outcome(plan[C]) /\ serving.heads \in acked[C]

HeadsCome ==
  /\ \A m \in Range(Queue(R)) : m.type = "Heads" => m.arg = Outcome(plan[C]) /\ m.arg \in acked[C]
  /\ at[R] \notin Over => HeadsFirst(Queue(R)) \/ Told

(* What the connector has been told is so.                                 *)
Tells ==
  /\ at[C] \in {"apply", "commit", "finish"} => serving.applied
  /\ at[C] # "idle" /\ serving.applied => applied[R] # None
  /\ at[C] # "idle" /\ Coming(C, "Applied") => serving.applied
  /\ at[C] \in {"commit", "finish"} => applied[C] # None
  /\ at[C] = "finish" => Outcome(plan[C]) \in acked[C]
  /\ at[C] \in Late => ~Coming(R, "Cancel") /\ serving.need

Shared == Outcome(plan[C]) \in acked[R] /\ slot[R] = "finished"

(* A Done answers the request for objects, or is the end of the responder. *)
DoneCounts ==
  /\ (at[C] \in {"opening", "scanning"} /\ Coming(C, "Snapshot")) \/ at[C] = "objects"
       => at[R] \in {"serve", "failed"}
  /\ at[C] \in {"opening", "scanning"} => ~Coming(C, "Done")
  /\ at[C] = "objects" => DoneLast(Queue(C)) /\ (Coming(C, "Done") => serving.need)
  /\ at[C] \in Late /\ Coming(C, "Done") =>
       at[R] \in {"leaving", "ended", "failed"} /\ (serving.applied => Shared)

Succeeded ==
  result = "ok" =>
    /\ command = None /\ at[C] = "idle" /\ at[R] = "ended"
    /\ applied[C] = plan[C] /\ applied[R] = plan[C] /\ plan[C] \in Plans
    /\ Outcome(plan[C]) \in acked[C] /\ Shared /\ slot[C] = "finished"

Session ==
  /\ Asked /\ Confined /\ PlanMade /\ Snapshots /\ Agreed /\ Served /\ OnePlan /\ HeadsCome
  /\ Tells /\ DoneCounts /\ Succeeded /\ AcknowledgedByBoth

(* A step that tells neither end anything the session depends on.          *)
Talking == {"proposed", "sending", "applying", "heads"}

QueuesCalm ==
  /\ \A m \in Range(Queue(C)') :
       m \in Range(Queue(C)) \/ m.type \notin {"Snapshot", "Done", "Applied"}
  /\ \A m \in Range(Queue(R)') :
       m \in Range(Queue(R)) \/ m.type \notin {"Snapshot", "Plan", "Heads", "CommitAck", "Cancel"}
  /\ at[C] \in Early => Range(Queue(R)') \subseteq Range(Queue(R))
  /\ at[C] = "objects" /\ DoneLast(Queue(C)) => DoneLast(Queue(C)')
  /\ PlanOnce(Queue(R)) => PlanOnce(Queue(R)')
  /\ HeadsFirst(Queue(R)) => HeadsFirst(Queue(R)')

Calm ==
  /\ UNCHANGED <<acked, command, expected, result, scan, plan, applied>>
  /\ serving'.need = serving.need /\ serving'.snapshot = serving.snapshot
  /\ serving'.ready = serving.ready /\ serving'.applied = serving.applied
  /\ serving'.heads = serving.heads
  /\ \/ at'[C] = at[C] \/ (at[C] \in Talking /\ at'[C] \in Talking)
     \/ at[C] = "prompt" /\ at'[C] = "idle"
  /\ \/ at'[R] = at[R] \/ (at[R] \in Begun /\ at'[R] \in Begun \cup {"leaving"})
     \/ (at[R] = "serve" /\ at'[R] = "apply" /\ serving.ready)
     \/ (at[R] = "apply" /\ at'[R] = "serve") \/ (at[R] = "leaving" /\ at'[R] = "ended")
     \/ (at[R] \notin Over /\ at'[R] = "failed")
  /\ slot[C] = "finished" /\ at[C] = "idle" => slot'[C] = "finished"
  /\ slot[R] = "finished" /\ at[R] \notin Begun => slot'[R] = "finished"
  /\ QueuesCalm

LEMMA CalmStep ==
  ASSUME TypeOK, Session, Calm
  PROVE  Session'
<1> USE DEF QueuesCalm
<1>0. /\ \A t \in {"Snapshot", "Done", "Applied"} : Coming(C, t)' => Coming(C, t)
      /\ \A t \in {"Snapshot", "Plan", "Heads", "CommitAck", "Cancel"} : Coming(R, t)' => Coming(R, t)
  BY DEF Calm, Coming
<1>1. Asked' /\ AcknowledgedByBoth'
  BY DEF Session, Calm, Asked, AcknowledgedByBoth, Talking
<1>2. Confined'
  BY DEF Session, Calm, Confined, Talking, Early, Allowed
<1>3. PlanMade'
  BY <1>0 DEF Session, Calm, PlanMade, Planned, PlanOf, Talking, Late, Begun, Over
<1>4. Snapshots'
  BY DEF Session, Calm, Snapshots, Begun
<1>5. Agreed'
  BY <1>0 DEF Session, Calm, Agreed, MustShow, DryRun, Talking, Late, Over, Begun
<1>6. Served'
  BY <1>0 DEF Session, Calm, Served
<1>7. OnePlan'
  BY DEF Session, Calm, OnePlan, Talking, Late
<1>8. HeadsCome'
  BY DEF Session, Calm, HeadsCome, Told, Outcome, Over, Begun
<1>9. Tells'
  BY <1>0 DEF Session, Calm, Tells, Outcome, Talking, Late
<1>10. DoneCounts'
  <2>1. serving.ready => at[C] \notin Early
    BY DEF Session, Served, Confined
  <2>2. /\ at'[C] \in Early \/ at[C] \in Early => at'[C] = at[C]
        /\ at'[C] \in Late <=> at[C] \in Late
    BY DEF Calm, Talking, Early, Late
  <2>3. at[R] \in {"serve", "failed"} /\ at[C] \in Early => at'[R] \in {"serve", "failed"}
    BY <2>1 DEF Calm, Begun, Over
  <2>4. at[R] \in {"leaving", "ended", "failed"} =>
          at'[R] \in {"leaving", "ended", "failed"} /\ at[R] \notin Begun
    BY DEF Calm, Begun, Over
  <2>5. Shared /\ at[R] \notin Begun => Shared'
    BY DEF Calm, Shared, Outcome
  <2>6. at'[C] \in {"opening", "scanning", "objects"} => at'[C] = at[C] /\ at[C] \in Early
    BY <2>2 DEF Early
  <2> QED
    BY <1>0, <2>2, <2>3, <2>4, <2>5, <2>6 DEF Session, DoneCounts, Calm
<1>11. Succeeded'
  BY DEF Session, Succeeded, Calm, Shared, Outcome, Talking, Begun, Over
<1> QED
  BY <1>1, <1>2, <1>3, <1>4, <1>5, <1>6, <1>7, <1>8, <1>9, <1>10, <1>11 DEF Session

(* The connector goes: nothing is told it any more.                        *)
Abandoned ==
  /\ at'[C] = "idle" /\ at'[R] = at[R] /\ command' = None /\ result' \in {"declined", "failed"}
  /\ UNCHANGED <<acked, scan, plan, applied, serving>>
  /\ Range(Queue(C)') \subseteq Range(Queue(C)) /\ Range(Queue(R)') \subseteq Range(Queue(R))
  /\ PlanOnce(Queue(R)) => PlanOnce(Queue(R)')
  /\ HeadsFirst(Queue(R)) => HeadsFirst(Queue(R)')

LEMMA EndStep ==
  ASSUME TypeOK, Session, Abandoned
  PROVE  Session'
<1>0. /\ \A t : Coming(C, t)' => Coming(C, t)
      /\ \A t : Coming(R, t)' => Coming(R, t)
  BY DEF Abandoned, Coming
<1>1. Asked' /\ AcknowledgedByBoth' /\ Confined' /\ Agreed' /\ Tells' /\ DoneCounts' /\ Succeeded'
  BY DEF Session, Abandoned, Asked, AcknowledgedByBoth, Confined, Agreed, Tells, DoneCounts,
         Succeeded,
         Early, Late
<1>3. PlanMade'
  BY <1>0 DEF Session, Abandoned, PlanMade, Planned, PlanOf, Late
<1>4. Snapshots'
  BY DEF Session, Abandoned, Snapshots
<1>6. Served'
  BY <1>0 DEF Session, Abandoned, Served
<1>7. OnePlan'
  BY DEF Session, Abandoned, OnePlan
<1>8. HeadsCome'
  BY DEF Session, Abandoned, HeadsCome, Told, Outcome
<1> QED
  BY <1>1, <1>3, <1>4, <1>6, <1>7, <1>8 DEF Session

LEMMA HasIs ==
  ASSUME NEW q \in Seq(Messages), NEW t
  PROVE  /\ Has(q, t) <=> \E m \in Range(q) : m.type = t
         /\ ~Has(q, "CommitAck") => HeadsFirst(q)
         /\ ~Has(q, "Plan") => PlanOnce(q)
         /\ ~Has(q, "Done") => DoneLast(q)
BY DEF Has, Range, HeadsFirst, PlanOnce, DoneLast

(* What one end's step does to the queues.                                 *)
LEMMA QueuesAfter ==
  ASSUME PipesTyped, NEW e \in Ends, NEW msgs \in Seq(Messages),
         (Waiting(e) /\ Reply(e, msgs)) \/ Say(e, msgs)
  PROVE  LET o == Other(e)
         IN  /\ Queue(e) \in Seq(Messages) /\ Queue(o) \in Seq(Messages)
             /\ Range(Queue(e)') \subseteq Range(Queue(e))
             /\ Range(Queue(o)') \subseteq Range(Queue(o)) \cup Range(msgs)
             /\ PlanOnce(Queue(e)) => PlanOnce(Queue(e)')
             /\ DoneLast(Queue(e)) => DoneLast(Queue(e)')
             /\ HeadsFirst(Queue(e)) /\ (Say(e, msgs) \/ Head(wire[e]).type # "Heads")
                  => HeadsFirst(Queue(e)')
             /\ PlanOnce(Queue(o)) /\ ~Has(msgs, "Plan") => PlanOnce(Queue(o)')
             /\ ~Has(Queue(o), "Plan") /\ PlanOnce(msgs) => PlanOnce(Queue(o)')
             /\ ~Has(Queue(o), "Done") /\ DoneLast(msgs) => DoneLast(Queue(o)')
             /\ HeadsFirst(Queue(o)) /\ HeadsFirst(msgs) => HeadsFirst(Queue(o)')
<1> DEFINE o == Other(e)
<1>0. o \in Ends /\ Queue(e) \in Seq(Messages) /\ Queue(o) \in Seq(Messages)
  BY QueueTyped, EndsAre
<1>1. Queue(o)' \in {Queue(o), Queue(o) \o msgs}
  BY Handled, Written
<1>2. \/ Queue(e)' = Queue(e)
      \/ /\ ~Say(e, msgs) /\ Queue(e)' = Tail(Queue(e)) /\ Queue(e) # <<>>
         /\ Head(Queue(e)) = Head(wire[e])
  BY Handled, Written
<1>3. ~Has(Queue(o), "Done") => DoneLast(Queue(o))
  BY <1>0, HasIs
<1>4. ~Has(Queue(o), "Plan") => PlanOnce(Queue(o))
  BY <1>0, HasIs
<1> HIDE DEF o
<1> DEFINE q == Queue(e)
           r == Queue(o)
<1>5. /\ Range(Queue(o)') \subseteq Range(r) \cup Range(msgs)
      /\ PlanOnce(r) /\ ~Has(msgs, "Plan") => PlanOnce(Queue(o)')
      /\ ~Has(r, "Plan") /\ PlanOnce(msgs) => PlanOnce(Queue(o)')
      /\ ~Has(r, "Done") /\ DoneLast(msgs) => DoneLast(Queue(o)')
      /\ HeadsFirst(r) /\ HeadsFirst(msgs) => HeadsFirst(Queue(o)')
  BY <1>0, <1>1, <1>3, <1>4, Longer
<1>6. /\ Range(Queue(e)') \subseteq Range(q)
      /\ PlanOnce(q) => PlanOnce(Queue(e)')
      /\ DoneLast(q) => DoneLast(Queue(e)')
      /\ HeadsFirst(q) /\ (Say(e, msgs) \/ Head(wire[e]).type # "Heads") => HeadsFirst(Queue(e)')
  BY <1>0, <1>2, TailOf
<1> QED
  BY <1>0, <1>5, <1>6 DEF o

LEMMA ConnectorCalm ==
  ASSUME PipesTyped, NEW msgs \in Seq(Messages),
         (Waiting(C) /\ Reply(C, msgs)) \/ Say(C, msgs),
         \A x \in Range(msgs) : x.type \notin {"Snapshot", "Plan", "Heads", "CommitAck", "Cancel"},
         at[C] \in Early => msgs = <<>>
  PROVE  QueuesCalm
<1>1. ~Has(msgs, "Plan") /\ HeadsFirst(msgs)
  BY HasIs
<1>2. /\ Range(Queue(C)') \subseteq Range(Queue(C))
      /\ Range(Queue(R)') \subseteq Range(Queue(R)) \cup Range(msgs)
      /\ DoneLast(Queue(C)) => DoneLast(Queue(C)')
      /\ PlanOnce(Queue(R)) => PlanOnce(Queue(R)')
      /\ HeadsFirst(Queue(R)) => HeadsFirst(Queue(R)')
  BY <1>1, QueuesAfter, EndsAre
<1>3. at[C] \in Early => Range(msgs) = {}
  BY DEF Range
<1> QED
  BY <1>2, <1>3 DEF QueuesCalm

LEMMA ResponderCalm ==
  ASSUME PipesTyped, NEW msgs \in Seq(Messages),
         \/ Waiting(R) /\ Head(wire[R]).type # "Heads" /\ Reply(R, msgs)
         \/ Say(R, msgs),
         \A x \in Range(msgs) : x.type \notin {"Snapshot", "Done", "Applied"},
         at[C] # "objects"
  PROVE  QueuesCalm
<1>1. /\ Range(Queue(R)') \subseteq Range(Queue(R))
      /\ Range(Queue(C)') \subseteq Range(Queue(C)) \cup Range(msgs)
      /\ PlanOnce(Queue(R)) => PlanOnce(Queue(R)')
      /\ HeadsFirst(Queue(R)) => HeadsFirst(Queue(R)')
  BY QueuesAfter, EndsAre
<1> QED
  BY <1>1 DEF QueuesCalm

LEMMA LossyCalm ==
  ASSUME PipesTyped, Lossy
  PROVE  /\ QueuesCalm
         /\ Range(Queue(C)') \subseteq Range(Queue(C)) /\ Range(Queue(R)') \subseteq Range(Queue(R))
<1>1. ASSUME NEW e \in Ends
      PROVE  /\ Range(Queue(e)') \subseteq Range(Queue(e))
             /\ PlanOnce(Queue(e)) => PlanOnce(Queue(e)')
             /\ DoneLast(Queue(e)) => DoneLast(Queue(e)')
             /\ HeadsFirst(Queue(e)) => HeadsFirst(Queue(e)')
  <2>1. Queue(e) \in Seq(Messages)
    BY QueueTyped
  <2>2. PICK n \in 0 .. Len(Queue(e)) : Queue(e)' = SubSeq(Queue(e), 1, n)
    BY DEF Lossy
  <2> DEFINE q == Queue(e)
             r == SubSeq(q, 1, n)
  <2>3. /\ Range(r) \subseteq Range(q) /\ (PlanOnce(q) => PlanOnce(r))
        /\ (DoneLast(q) => DoneLast(r)) /\ (HeadsFirst(q) => HeadsFirst(r))
    <3> HIDE DEF q
    <3>1. q \in Seq(Messages) /\ n \in 0 .. Len(q)
      BY <2>1 DEF q
    <3> QED
      BY <3>1, PrefixOf
  <2>4. Queue(e)' = r
    BY <2>2
  <2> HIDE DEF r, q
  <2>5. /\ Range(Queue(e)') \subseteq Range(q) /\ (PlanOnce(q) => PlanOnce(Queue(e)'))
        /\ (DoneLast(q) => DoneLast(Queue(e)')) /\ (HeadsFirst(q) => HeadsFirst(Queue(e)'))
    BY <2>3, <2>4
  <2> QED
    BY <2>5 DEF q
<1> QED
  BY <1>1, EndsAre DEF QueuesCalm

LEMMA ShortRanges ==
  Range(<<>>) = {} /\ (\A a : Range(<<a>>) = {a}) /\ \A a, b : Range(<<a, b>>) = {a, b}
BY DEF Range

LEMMA OneMessageCalm ==
  ASSUME PipesTyped, NEW m \in Messages
  PROVE  /\ Say(C, <<m>>) /\ m.type = "ApplyProgress" /\ at[C] \notin Early => QueuesCalm
         /\ (/\ Say(R, <<m>>) \/ (Waiting(R) /\ Head(wire[R]).type # "Heads" /\ Reply(R, <<m>>))
             /\ m.type \notin {"Snapshot", "Done", "Applied"} /\ at[C] # "objects")
            => QueuesCalm
<1>1. <<m>> \in Seq(Messages) /\ Range(<<m>>) = {m}
  BY Short, ShortRanges
<1>2. ASSUME Say(C, <<m>>), m.type = "ApplyProgress", at[C] \notin Early PROVE QueuesCalm
  BY <1>1, <1>2, ConnectorCalm
<1>3. ASSUME Say(R, <<m>>) \/ (Waiting(R) /\ Head(wire[R]).type # "Heads" /\ Reply(R, <<m>>)),
             m.type \notin {"Snapshot", "Done", "Applied"}, at[C] # "objects"
      PROVE  QueuesCalm
  BY <1>1, <1>3, ResponderCalm
<1> QED
  BY <1>2, <1>3

LEMMA HeadIn ==
  ASSUME PipesTyped, NEW e \in Ends, Waiting(e)
  PROVE  Head(wire[e]) \in Range(Queue(e))
<1> DEFINE x == IF open THEN outbox[Other(e)] ELSE <<>>
<1>1. wire[e] \in Seq(Messages) /\ x \in Seq(Messages) /\ wire[e] # <<>> /\ Queue(e) = wire[e] \o x
  BY EndsAre, EmptySeq DEF PipesTyped, Waiting, Queue
<1> HIDE DEF x
<1>2. /\ wire[e] \o x \in Seq(Messages) /\ wire[e] \o x # <<>>
      /\ Head(wire[e] \o x) = Head(wire[e])
  BY <1>1, TailOfQueue
<1> QED
  BY <1>1, <1>2, TailOf

(* While the connector plans, the responder serves and is told little.     *)
LEMMA Quiet ==
  ASSUME TypeOK, Session, at[C] \in Early
  PROVE  /\ at[C] = "objects" => at[R] \in {"serve", "failed"}
         /\ \A t : Gets(R, t) => t \in Allowed
BY HeadIn, EndsAre DEF TypeOK, Session, DoneCounts, Confined, Gets

(* Progress, and what else tells neither end anything.                     *)
LEMMA ProgressIsCalm ==
  ASSUME TypeOK, Session, Progresses
  PROVE  Calm
<1> USE DEF TypeOK, disk, user, work, objects
<1>0. /\ PipesTyped /\ <<>> \in Seq(Messages)
      /\ at \in [Ends -> ConnectorPlaces \cup ResponderPlaces]
      /\ slot \in [Ends -> {"free", "held", "finished", "lost"}]
      /\ "objects" \in Early /\ "scanning" \in Early
  BY EmptySeq DEF PlacesTyped, Early
<1>1. ASSUME HearScan PROVE Calm
  <2>3. QueuesCalm
    BY <1>0, <1>1, ConnectorCalm, ShortRanges DEF HearScan, Consume, Gets
  <2> QED
    BY <1>0, <1>1, <2>3, EndsAre DEF Calm, HearScan, ConnectorRest
<1>2. ASSUME ConnectorObject PROVE Calm
  <2>3. QueuesCalm
    BY <1>0, <1>2, ConnectorCalm, ShortRanges DEF ConnectorObject, Consume, Gets
  <2> QED
    BY <1>0, <1>2, <2>3, EndsAre DEF Calm, ConnectorObject, ConnectorRest
<1>3. ASSUME ConnectorHears PROVE Calm
  <2>3. QueuesCalm
    BY <1>0, <1>3, ConnectorCalm, ShortRanges DEF ConnectorHears, Consume, Gets
  <2> QED
    BY <1>0, <1>3, <2>3, EndsAre DEF Calm, ConnectorHears, ConnectorRest
<1>4. ASSUME ConnectorHeads PROVE Calm
  <2>3. QueuesCalm
    BY <1>0, <1>4, ConnectorCalm, ShortRanges DEF ConnectorHeads, Consume, Gets
  <2> QED
    BY <1>0, <1>4, <2>3, EndsAre DEF Calm, ConnectorHeads, Go, ConnectorRest, Talking
<1>5. ASSUME ConnectorReports PROVE Calm
  <2>1. PICK n \in Nat : Say(C, <<MessageOf("ApplyProgress", n)>>)
    BY <1>5 DEF ConnectorReports, Reports
  <2>2. MessageOf("ApplyProgress", n) \in Messages
    BY MessagesAre
  <2>3. QueuesCalm
    BY <1>0, <1>5, <2>1, <2>2, OneMessageCalm DEF ConnectorReports, MessageOf, Early
  <2> QED
    BY <1>0, <1>5, <2>3, EndsAre DEF Calm, ConnectorReports, Reports
<1>6. ASSUME Accept PROVE Calm
  <2>1. at[C] # "objects"
    BY <1>0, <1>6, Quiet DEF Accept, Allowed
  <2>2. Message("Reserved") \in Messages
    BY MessagesAre DEF Signals
  <2>3. QueuesCalm
    BY <1>0, <1>6, <2>1, <2>2, OneMessageCalm DEF Accept, Gets, Message, MessageOf
  <2> QED
    BY <1>0, <1>6, <2>3, EndsAre DEF Calm, Accept, ResponderRest, Go, Begun
<1>7. ASSUME Deny PROVE Calm
  <2>1. at[C] # "objects"
    BY <1>0, <1>7, Quiet DEF Deny, Allowed
  <2>2. Message("Error") \in Messages
    BY MessagesAre DEF Signals
  <2>3. QueuesCalm
    BY <1>0, <1>7, <2>1, <2>2, OneMessageCalm DEF Deny, Gets, Message, MessageOf
  <2> QED
    BY <1>0, <1>7, <2>3, EndsAre DEF Calm, Deny, ResponderRest, Go, Begun
<1>8. ASSUME BeginScan PROVE Calm
  <2>1. at[C] # "objects"
    BY <1>0, <1>8, Quiet DEF BeginScan, Allowed
  <2>2. MessageOf("ScanProgress", 0) \in Messages
    BY MessagesAre DEF Signals
  <2>3. QueuesCalm
    BY <1>0, <1>8, <2>1, <2>2, OneMessageCalm DEF BeginScan, Gets, Message, MessageOf
  <2> QED
    BY <1>0, <1>8, <2>3, EndsAre DEF Calm, BeginScan, ResponderRest, Go, Begun
<1>9. ASSUME ReportScan PROVE Calm
  <2>1. at[C] # "objects"
    BY <1>0, <1>9, Quiet DEF ReportScan, Allowed
  <2>a. told[R] + 1 \in Nat
    BY EndsAre DEF TransfersTyped, Receipt
  <2>2. MessageOf("ScanProgress", told[R] + 1) \in Messages
    BY MessagesAre, <2>a DEF Signals
  <2>3. QueuesCalm
    BY <1>0, <1>9, <2>1, <2>a, <2>2, OneMessageCalm DEF ReportScan, Gets, Message, MessageOf
  <2> QED
    BY <1>0, <1>9, <2>3, EndsAre DEF Calm, ReportScan, ResponderRest
<1>10. ASSUME ScanFails PROVE Calm
  <2>1. at[C] # "objects"
    BY <1>0, <1>10, Quiet DEF ScanFails, Allowed
  <2>2. Message("Error") \in Messages
    BY MessagesAre DEF Signals
  <2>3. QueuesCalm
    BY <1>0, <1>10, <2>1, <2>2, OneMessageCalm DEF ScanFails, Gets, Message, MessageOf
  <2> QED
    BY <1>0, <1>10, <2>3, EndsAre DEF Calm, ScanFails, ResponderRest, Go, Begun
<1>11. ASSUME ServeObject PROVE Calm
  <2>1. at[C] # "objects"
    BY <1>0, <1>11, Quiet DEF ServeObject, Serves, Allowed
  <2>3. QueuesCalm
    BY <1>0, <1>11, <2>1, ResponderCalm, ShortRanges DEF ServeObject, Serves, Consume, Gets
  <2> QED
    BY <1>0, <1>11, <2>3, EndsAre DEF Calm, ServeObject, Serves, Serving, ResponderRest
<1>12. ASSUME ServeBatchEnd PROVE Calm
  <2>1. at[C] # "objects"
    BY <1>0, <1>12, Quiet DEF ServeBatchEnd, Serves, Allowed
  <2>a. Receipt(batch) \in [objects : Nat, bytes : Nat]
    BY EndsAre DEF TransfersTyped, Receipt
  <2>2. MessageOf("Receipt", Receipt(batch)) \in Messages
    BY MessagesAre, <2>a DEF Signals
  <2>3. QueuesCalm
    BY <1>0, <1>12, <2>1, <2>a, <2>2, OneMessageCalm
       DEF ServeBatchEnd, Serves, Gets, Message, MessageOf
  <2> QED
    BY <1>0, <1>12, <2>3, EndsAre DEF Calm, ServeBatchEnd, Serves, Serving, ResponderRest
<1>13. ASSUME ServeDone PROVE Calm
  <2>1. at[C] # "objects"
    BY <1>0, <1>13, Quiet DEF ServeDone, Serves, Allowed
  <2>3. QueuesCalm
    BY <1>0, <1>13, <2>1, ResponderCalm, ShortRanges DEF ServeDone, Serves, Consume, Gets
  <2> QED
    BY <1>0, <1>13, <2>3, EndsAre
       DEF Calm, ServeDone, Serves, Serving, ResponderRest, Go, Gets, Takes, ResponderTakes, ServeTakes
<1>14. ASSUME ResponderReports PROVE Calm
  <2>1. at[C] # "objects"
    BY <1>0, <1>14, Quiet DEF ResponderReports, Allowed
  <2>a. PICK n \in Nat : Say(R, <<MessageOf("ApplyProgress", n)>>)
    BY <1>14 DEF ResponderReports, Reports
  <2>2. MessageOf("ApplyProgress", n) \in Messages
    BY MessagesAre DEF Signals
  <2>3. QueuesCalm
    BY <1>0, <1>14, <2>1, <2>a, <2>2, OneMessageCalm DEF ResponderReports, Gets, Message, MessageOf
  <2> QED
    BY <1>0, <1>14, <2>3, EndsAre DEF Calm, ResponderReports, Reports
<1>15. ASSUME ApplyFails PROVE Calm
  <2>1. at[C] # "objects"
    BY <1>0, <1>15, Quiet DEF ApplyFails, Allowed
  <2>2. Message("Error") \in Messages
    BY MessagesAre DEF Signals
  <2>3. QueuesCalm
    BY <1>0, <1>15, <2>1, <2>2, OneMessageCalm DEF ApplyFails, Gets, Message, MessageOf
  <2> QED
    BY <1>0, <1>15, <2>3, EndsAre DEF Calm, ApplyFails, Serving, ResponderRest, Go
<1>16. ASSUME HearApply PROVE Calm
  <2>1. at[C] # "objects"
    BY <1>0, <1>16, Quiet DEF HearApply, Serves, Allowed
  <2>3. QueuesCalm
    BY <1>0, <1>16, <2>1, ResponderCalm, ShortRanges DEF HearApply, Serves, Consume, Gets
  <2> QED
    BY <1>0, <1>16, <2>3, EndsAre DEF Calm, HearApply, Serves
<1> QED
  BY <1>1, <1>2, <1>3, <1>4, <1>5, <1>6, <1>7, <1>8, <1>9, <1>10, <1>11, <1>12, <1>13,
     <1>14, <1>15, <1>16
     DEF Progresses

LEMMA BatchesAreCalm ==
  ASSUME TypeOK, Session, ConnectorSends \/ ConnectorReceipt
  PROVE  Calm
<1> USE DEF TypeOK, disk, user, work, objects
<1>0. PipesTyped /\ at \in [Ends -> ConnectorPlaces \cup ResponderPlaces]
  BY DEF PlacesTyped
<1>1. ASSUME NEW sizes \in Seq(Nat), NEW n \in Nat, n <= Len(sizes), Waiting(C),
             Reply(C, Batch(sizes, n)), SendsOrHears(sizes, n), at[C] \in {"proposed", "sending"},
             UNCHANGED <<disk, user, work, serving>>
      PROVE  Calm
  <2>1. /\ Batch(sizes, n) \in Seq(Messages)
        /\ \A m \in Range(Batch(sizes, n)) : m.type \in {"Done", "Object", "BatchEnd"}
    BY <1>1, BatchTyped
  <2>2. QueuesCalm
    BY <1>0, <1>1, <2>1, ConnectorCalm DEF Early
  <2> QED
    BY <1>0, <1>1, <2>2, EndsAre DEF Calm, SendsOrHears, Go, Talking
<1>2. CASE ConnectorSends
  <2>1. Waiting(C) /\ Arg(C) \in Seq(Nat) /\ 0 <= Len(Arg(C))
    BY <1>0, <1>2, Received, EndsAre, LenProperties DEF ConnectorSends
  <2> QED
    BY <1>1, <1>2, <2>1 DEF ConnectorSends, ConnectorRest
<1>3. CASE ConnectorReceipt
  <2> DEFINE b == BatchEnd(giving.sizes, giving.sent)
             l == Len(giving.sizes)
  <2>1. /\ Waiting(C) /\ giving.sizes \in Seq(Nat) /\ l \in Nat
        /\ giving.sent \in Nat /\ giving.sent < l
    BY <1>0, <1>3, Received, EndsAre, LenProperties DEF ConnectorReceipt, TransfersTyped
  <2>2. b \in Nat /\ b <= l
    <3>1. b \in giving.sent + 1 .. l
      BY <2>1, BatchEnds
    <3> HIDE DEF b, l
    <3> QED
      BY <2>1, <3>1
  <2>3. /\ Reply(C, Batch(giving.sizes, b)) /\ SendsOrHears(giving.sizes, b)
        /\ at[C] = "sending" /\ UNCHANGED <<disk, user, work, serving>>
    BY <1>3 DEF ConnectorReceipt, ConnectorRest
  <2> HIDE DEF b
  <2> QED
    BY <1>1, <2>1, <2>2, <2>3
<1> QED
  BY <1>2, <1>3

(* The pipes, the responder's end, and the directories.                    *)
LEMMA OthersAreCalm ==
  ASSUME TypeOK, Session
  PROVE  /\ ResponderLeaves \/ Departs(R) \/ Break \/ Confirm \/ UNCHANGED vars => Calm
         /\ \A e \in Ends, x \in Edits : Edit(e, x) => Calm
         /\ \A e \in Ends : Write(e) => Calm
         /\ Decline \/ Departs(C) => Abandoned
<1> USE DEF TypeOK, disk, user, work, objects, reports
<1>0. PipesTyped /\ at \in [Ends -> ConnectorPlaces \cup ResponderPlaces]
      /\ slot \in [Ends -> {"free", "held", "finished", "lost"}]
  BY DEF PlacesTyped
<1>a. UNCHANGED pipes => Queue(C)' = Queue(C) /\ Queue(R)' = Queue(R)
  BY DEF Queue, pipes
<1>b. Queue(C)' = Queue(C) /\ Queue(R)' = Queue(R) => QueuesCalm
  BY DEF QueuesCalm
<1>1. ASSUME ResponderLeaves PROVE Calm
  <2>1. QueuesCalm
    BY <1>1, LeavesTyped, LossyCalm
  <2> QED
    BY <1>0, <1>1, <2>1, EndsAre DEF Calm, ResponderLeaves, Leave, Go, ResponderRest
<1>2. ASSUME NEW e \in Ends, Departs(e)
      PROVE  /\ at' = [at EXCEPT ![e] = IF e = C THEN "idle" ELSE "failed"]
             /\ \A x \in Ends : slot[x] = "finished" => slot'[x] = "finished"
             /\ UNCHANGED <<acked, expected, scan, plan, applied, serving>>
             /\ IF e = C THEN command' = None /\ result' = "failed"
                         ELSE UNCHANGED <<command, result>>
             /\ Lossy
  <2>1. PICK kept :
          Gone(e, kept) /\ \E n \in 0 .. Len(wire[Other(e)]) : kept = SubSeq(wire[Other(e)], 1, n)
    BY <1>2 DEF Departs
  <2>2. Lossy
    BY <1>2, <2>1, GoneTyped DEF Departs
  <2>3. slot' = [slot EXCEPT ![e] = IF slot[e] = "finished" THEN slot[e] ELSE "lost"]
    BY <2>1 DEF Gone
  <2> QED
    BY <1>0, <2>1, <2>2, <2>3 DEF Gone, Leave, Go
<1>3. ASSUME Departs(R), at[R] \notin Over PROVE Calm
  <2>1. QueuesCalm
    BY <1>2, <1>3, LossyCalm, EndsAre
  <2> QED
    BY <1>0, <1>2, <1>3, <2>1, EndsAre DEF Calm
<1>4. ASSUME Break PROVE Calm
  <2>1. QueuesCalm
    BY <1>4, Broken, LossyCalm
  <2> QED
    BY <1>4, <2>1 DEF Calm, Break
<1>5. ASSUME Confirm PROVE Calm
  BY <1>0, <1>5, <1>a, <1>b, EndsAre DEF Calm, Confirm, Go
<1>6. ASSUME UNCHANGED vars PROVE Calm
  BY <1>6, <1>a, <1>b DEF Calm, vars
<1>7. ASSUME NEW e \in Ends, NEW x \in Edits, Edit(e, x) PROVE Calm
  BY <1>7, <1>a, <1>b DEF Calm, Edit
<1>8. ASSUME NEW e \in Ends, Write(e) PROVE Calm
  <2>1. Queue(C)' = Queue(C) /\ Queue(R)' = Queue(R)
    BY <1>8, Transmitted, EndsAre
  <2> QED
    BY <1>8, <1>b, <2>1 DEF Calm, Write
<1>9. ASSUME Decline PROVE Abandoned
  BY <1>0, <1>9, <1>a, EndsAre DEF Abandoned, Decline, Go
<1>10. ASSUME Departs(C) PROVE Abandoned
  <2>1. QueuesCalm /\ Range(Queue(C)') \subseteq Range(Queue(C))
        /\ Range(Queue(R)') \subseteq Range(Queue(R))
    BY <1>2, <1>10, LossyCalm, EndsAre
  <2>2. at'[C] = "idle" /\ at'[R] = at[R]
    BY <1>0, <1>2, <1>10, EndsAre
  <2> QED
    BY <1>2, <1>10, <2>1, <2>2, EndsAre DEF Abandoned, QueuesCalm
<1> QED
  <2>1. Departs(R) => at[R] \notin Over
    BY DEF Departs, Running, Over
  <2> QED
    BY <1>1, <1>3, <1>4, <1>5, <1>6, <1>7, <1>8, <1>9, <1>10, <2>1

----------------------------------------------------------------------------
(* The steps the session depends on.                                       *)

LEMMA ConnectorWrites ==
  ASSUME PipesTyped, NEW m \in Messages, m.type \notin {"Plan", "CommitAck"}, Waiting(C),
         Reply(C, <<m>>)
  PROVE  /\ Range(Queue(C)') \subseteq Range(Queue(C))
         /\ Range(Queue(R)') \subseteq Range(Queue(R)) \cup {m}
         /\ PlanOnce(Queue(R)) => PlanOnce(Queue(R)')
         /\ HeadsFirst(Queue(R)) => HeadsFirst(Queue(R)')
         /\ DoneLast(Queue(C)) => DoneLast(Queue(C)')
<1>1. <<m>> \in Seq(Messages) /\ Range(<<m>>) = {m}
  BY Short, ShortRanges
<1>2. ~Has(<<m>>, "Plan") /\ HeadsFirst(<<m>>)
  BY <1>1, HasIs
<1> QED
  BY <1>1, <1>2, QueuesAfter, EndsAre

LEMMA Consumes ==
  ASSUME PipesTyped, NEW e \in Ends, Waiting(e), Reply(e, <<>>)
  PROVE  /\ \A x \in Ends : /\ Range(Queue(x)') \subseteq Range(Queue(x))
                            /\ PlanOnce(Queue(x)) => PlanOnce(Queue(x)')
         /\ DoneLast(Queue(C)) => DoneLast(Queue(C)')
         /\ e = C => (HeadsFirst(Queue(R)) => HeadsFirst(Queue(R)'))
<1>1. <<>> \in Seq(Messages) /\ Range(<<>>) = {}
  BY EmptySeq, ShortRanges
<1>2. ~Has(<<>>, "Plan") /\ HeadsFirst(<<>>)
  BY <1>1, HasIs
<1>3. /\ Range(Queue(e)') \subseteq Range(Queue(e))
      /\ Range(Queue(Other(e))') \subseteq Range(Queue(Other(e)))
      /\ PlanOnce(Queue(e)) => PlanOnce(Queue(e)')
      /\ PlanOnce(Queue(Other(e))) => PlanOnce(Queue(Other(e))')
      /\ DoneLast(Queue(e)) => DoneLast(Queue(e)')
      /\ HeadsFirst(Queue(Other(e))) => HeadsFirst(Queue(Other(e))')
  BY <1>1, <1>2, QueuesAfter
<1>4. \A x \in Ends : x = e \/ x = Other(e)
  BY EndsAre
<1>5. e = R => Queue(C)' \in {Queue(C), Queue(C) \o <<>>}
  BY <1>1, Handled, EndsAre
<1>6. Queue(C) \o <<>> = Queue(C)
  BY QueueTyped, EndsAre, ConcatEmptySeq
<1>7. /\ Range(Queue(C)') \subseteq Range(Queue(C)) /\ Range(Queue(R)') \subseteq Range(Queue(R))
      /\ (PlanOnce(Queue(C)) => PlanOnce(Queue(C)')) /\ (PlanOnce(Queue(R)) => PlanOnce(Queue(R)'))
  <2>1. e = C \/ e = R
    BY EndsAre
  <2>2. CASE e = C
    BY <1>3, <2>2, EndsAre
  <2>3. CASE e = R
    BY <1>3, <2>3, EndsAre
  <2> QED
    BY <2>1, <2>2, <2>3
<1>8. DoneLast(Queue(C)) => DoneLast(Queue(C)')
  <2>1. CASE e = C
    BY <1>3, <2>1
  <2>2. CASE e = R
    BY <1>5, <1>6, <2>2
  <2> QED
    BY <2>1, <2>2, EndsAre
<1>9. e = C => (HeadsFirst(Queue(R)) => HeadsFirst(Queue(R)'))
  BY <1>3, EndsAre
<1>10. ASSUME NEW x \in Ends
       PROVE  /\ Range(Queue(x)') \subseteq Range(Queue(x))
              /\ PlanOnce(Queue(x)) => PlanOnce(Queue(x)')
  <2>1. CASE x = C
    BY <1>7, <2>1
  <2>2. CASE x = R
    BY <1>7, <2>2
  <2> QED
    BY <2>1, <2>2, EndsAre
<1> QED
  BY <1>8, <1>9, <1>10

LEMMA ConnectorScansSession ==
  ASSUME TypeOK, Session, ConnectorScans
  PROVE  Session'
<1> USE DEF TypeOK, disk, user, work, objects, reports
<1>1. /\ Waiting(C) /\ Reply(C, <<Message("ScanRequest")>>) /\ at[C] = "opening"
      /\ at' = [at EXCEPT ![C] = "scanning"] /\ \E s : scan' = [scan EXCEPT ![C] = s]
      /\ UNCHANGED <<acked, command, expected, result, plan, applied, serving>>
  BY DEF ConnectorScans, ConnectorRest, Scan, Gets, Go
<1>2. at'[C] = "scanning" /\ at'[R] = at[R] /\ scan'[R] = scan[R]
  BY <1>1, EndsAre DEF PlacesTyped, PlansTyped
<1>3. /\ Range(Queue(C)') \subseteq Range(Queue(C))
      /\ Range(Queue(R)') \subseteq Range(Queue(R)) \cup {Message("ScanRequest")}
      /\ PlanOnce(Queue(R)) => PlanOnce(Queue(R)')
      /\ HeadsFirst(Queue(R)) => HeadsFirst(Queue(R)')
      /\ DoneLast(Queue(C)) => DoneLast(Queue(C)')
  BY <1>1, ConnectorWrites, MessagesAre DEF Signals, Message
<1>4. /\ \A t : Coming(C, t)' => Coming(C, t)
      /\ \A t : Coming(R, t)' => Coming(R, t) \/ t \in {"ScanRequest"}
  BY <1>3 DEF Coming, Message
<1>a. Asked'
  BY <1>1, <1>2, <1>3, <1>4 DEF Session, Asked
<1>b. Confined'
  BY <1>1, <1>2, <1>3, <1>4 DEF Session, Confined, Early, Allowed, Message
<1>c. PlanMade'
  BY <1>1, <1>2, <1>3, <1>4
     DEF Session, PlanMade, Planned, PlanOf, Late, Begun, Confined, Early, Allowed, Coming
<1>d. Snapshots'
  BY <1>1, <1>2, <1>3, <1>4 DEF Session, Snapshots, Begun, Message, Confined, Early, Allowed
<1>e. Agreed'
  BY <1>1, <1>2, <1>3, <1>4
     DEF Session, Agreed, MustShow, DryRun, Late, Over, Confined, Early, Allowed, Coming
<1>f. Served'
  BY <1>1, <1>2, <1>3, <1>4 DEF Session, Served
<1>g. OnePlan'
  BY <1>1, <1>2, <1>3, <1>4 DEF Session, OnePlan, Late
<1>h. HeadsCome'
  BY <1>1, <1>2, <1>3, <1>4 DEF Session, HeadsCome, Told, Outcome, Over, Message
<1>i. Tells'
  BY <1>1, <1>2, <1>3, <1>4 DEF Session, Tells, Outcome, Late
<1>j. DoneCounts'
  BY <1>1, <1>2, <1>3, <1>4 DEF Session, DoneCounts, Shared, Outcome, Late
<1>k. Succeeded'
  BY <1>1, <1>2, <1>3, <1>4 DEF Session, Succeeded, Shared, Outcome, Asked
<1>l. AcknowledgedByBoth'
  BY <1>1, <1>2, <1>3, <1>4 DEF Session, AcknowledgedByBoth
<1> QED
  BY <1>a, <1>b, <1>c, <1>d, <1>e, <1>f, <1>g, <1>h, <1>i, <1>j, <1>k, <1>l DEF Session

LEMMA ConnectorPlansSession ==
  ASSUME TypeOK, Session, ConnectorPlans
  PROVE  Session'
<1> USE DEF TypeOK, disk, user, work, objects, reports
<1>1. PICK sizes \in Seq(Nat) : Reply(C, <<MessageOf("Need", sizes)>>)
  BY OneShotConstants DEF ConnectorPlans
<1>2. /\ Waiting(C) /\ at[C] = "scanning" /\ at' = [at EXCEPT ![C] = "objects"]
      /\ Head(wire[C]).type = "Snapshot"
      /\ plan' = [plan EXCEPT ![C] = PlanOf(scan[C], Head(wire[C]).arg)]
      /\ UNCHANGED <<acked, command, expected, result, scan, applied, serving>>
  BY DEF ConnectorPlans, ConnectorRest, Gets, Go, Arg
<1>3. Head(wire[C]) \in Range(Queue(C)) /\ Coming(C, "Snapshot")
  BY <1>2, HeadIn, EndsAre DEF Coming
<1>4. at'[C] = "objects" /\ at'[R] = at[R] /\ plan'[C] = PlanOf(scan[C], scan[R]) /\ plan'[R] = plan[R]
  BY <1>2, <1>3, EndsAre DEF PlacesTyped, PlansTyped, Session, Snapshots
<1>5. /\ Range(Queue(C)') \subseteq Range(Queue(C))
      /\ Range(Queue(R)') \subseteq Range(Queue(R)) \cup {MessageOf("Need", sizes)}
      /\ PlanOnce(Queue(R)) => PlanOnce(Queue(R)')
      /\ HeadsFirst(Queue(R)) => HeadsFirst(Queue(R)')
      /\ DoneLast(Queue(C)) => DoneLast(Queue(C)')
  BY <1>1, <1>2, ConnectorWrites, MessagesAre DEF MessageOf
<1>6. /\ \A t : Coming(C, t)' => Coming(C, t)
      /\ \A t : Coming(R, t)' => Coming(R, t) \/ t \in {"Need"}
  BY <1>5 DEF Coming, MessageOf
<1>7. serving.snapshot = None /\ \A e \in Ends : applied[e] = None
  BY <1>2 DEF Session, Confined, OnePlan, Asked, Early, Late
<1>8. ~Coming(R, "Snapshot") /\ ~Coming(R, "Heads") /\ HeadsFirst(Queue(R)')
  <2>1. ~Coming(R, "Snapshot") /\ ~Coming(R, "Heads") /\ ~Coming(R, "CommitAck")
    BY <1>2 DEF Session, Confined, Early, Allowed, Coming
  <2>2. Queue(R) \in Seq(Messages)
    BY QueueTyped, EndsAre
  <2>3. HeadsFirst(Queue(R))
    BY <2>1, <2>2, HasIs DEF Coming
  <2> QED
    BY <1>5, <2>1, <2>3
<1>9. ~Coming(C, "Done")' /\ DoneLast(Queue(C)')
  <2>1. ~Coming(C, "Done")
    BY <1>2 DEF Session, DoneCounts
  <2>2. DoneLast(Queue(C))
    BY <2>1, QueueTyped, EndsAre, HasIs DEF Coming
  <2> QED
    BY <1>5, <1>6, <2>1, <2>2
<1>a. Asked'
  BY <1>1, <1>2, <1>3, <1>4, <1>5, <1>6, <1>7, <1>8, <1>9 DEF Session, Asked
<1>b. Confined'
  BY <1>1, <1>2, <1>3, <1>4, <1>5, <1>6, <1>7, <1>8, <1>9
     DEF Session, Confined, Early, Allowed, MessageOf
<1>c. PlanMade'
  BY <1>1, <1>2, <1>3, <1>4, <1>5, <1>6, <1>7, <1>8, <1>9
     DEF Session, PlanMade, Planned, PlanOf, Late, Begun, Snapshots
<1>d. Snapshots'
  BY <1>1, <1>2, <1>3, <1>4, <1>5, <1>6, <1>7, <1>8, <1>9 DEF Session, Snapshots, Begun, MessageOf
<1>e. Agreed'
  BY <1>1, <1>2, <1>3, <1>4, <1>5, <1>6, <1>7, <1>8, <1>9
     DEF Session, Agreed, MustShow, DryRun, Late, Over
<1>f. Served'
  BY <1>1, <1>2, <1>3, <1>4, <1>5, <1>6, <1>7, <1>8, <1>9 DEF Session, Served
<1>g. OnePlan'
  BY <1>1, <1>2, <1>3, <1>4, <1>5, <1>6, <1>7, <1>8, <1>9 DEF Session, OnePlan, Late
<1>h. HeadsCome'
  BY <1>1, <1>2, <1>3, <1>4, <1>5, <1>6, <1>7, <1>8, <1>9
     DEF Session, HeadsCome, Told, Outcome, Over, MessageOf, Coming
<1>i. Tells'
  BY <1>1, <1>2, <1>3, <1>4, <1>5, <1>6, <1>7, <1>8, <1>9 DEF Session, Tells, Outcome, Late
<1>j. DoneCounts'
  BY <1>1, <1>2, <1>3, <1>4, <1>5, <1>6, <1>7, <1>8, <1>9
     DEF Session, DoneCounts, Shared, Outcome, Late
<1>k. Succeeded'
  BY <1>1, <1>2, <1>3, <1>4, <1>5, <1>6, <1>7, <1>8, <1>9
     DEF Session, Succeeded, Shared, Outcome, Asked
<1>l. AcknowledgedByBoth'
  BY <1>1, <1>2, <1>3, <1>4, <1>5, <1>6, <1>7, <1>8, <1>9 DEF Session, AcknowledgedByBoth
<1> QED
  BY <1>a, <1>b, <1>c, <1>d, <1>e, <1>f, <1>g, <1>h, <1>i, <1>j, <1>k, <1>l DEF Session

LEMMA ConnectorCancelsSession ==
  ASSUME TypeOK, Session, ConnectorCancels
  PROVE  Session'
<1> USE DEF TypeOK, disk, user, work, objects, reports
<1>1. /\ Waiting(C) /\ Reply(C, <<Message("Cancel")>>) /\ at[C] = "objects"
      /\ at' = [at EXCEPT ![C] = "cancelled"]
      /\ UNCHANGED <<acked, command, expected, result, scan, plan, applied, serving>>
  BY DEF ConnectorCancels, PlanReady, ConnectorRest, Gets, Go
<1>2. at'[C] = "cancelled" /\ at'[R] = at[R]
  BY <1>1, EndsAre DEF PlacesTyped
<1>3. /\ Range(Queue(C)') \subseteq Range(Queue(C))
      /\ Range(Queue(R)') \subseteq Range(Queue(R)) \cup {Message("Cancel")}
      /\ PlanOnce(Queue(R)) => PlanOnce(Queue(R)')
      /\ HeadsFirst(Queue(R)) => HeadsFirst(Queue(R)')
      /\ DoneLast(Queue(C)) => DoneLast(Queue(C)')
  BY <1>1, ConnectorWrites, MessagesAre DEF Signals, Message
<1>4. /\ \A t : Coming(C, t)' => Coming(C, t)
      /\ \A t : Coming(R, t)' => Coming(R, t) \/ t \in {"Cancel"}
  BY <1>3 DEF Coming, Message
<1>a. Asked'
  BY <1>1, <1>2, <1>3, <1>4 DEF Session, Asked
<1>b. Confined'
  BY <1>1, <1>2, <1>3, <1>4 DEF Session, Confined, Early, Allowed, Message
<1>c. PlanMade'
  BY <1>1, <1>2, <1>3, <1>4 DEF Session, PlanMade, Planned, PlanOf, Late, Begun
<1>d. Snapshots'
  BY <1>1, <1>2, <1>3, <1>4 DEF Session, Snapshots, Begun, Message
<1>e. Agreed'
  BY <1>1, <1>2, <1>3, <1>4
     DEF Session, Agreed, MustShow, DryRun, Late, Over, Confined, Early, Allowed, Coming
<1>f. Served'
  BY <1>1, <1>2, <1>3, <1>4 DEF Session, Served
<1>g. OnePlan'
  BY <1>1, <1>2, <1>3, <1>4 DEF Session, OnePlan, Late
<1>h. HeadsCome'
  BY <1>1, <1>2, <1>3, <1>4 DEF Session, HeadsCome, Told, Outcome, Over, Message
<1>i. Tells'
  BY <1>1, <1>2, <1>3, <1>4 DEF Session, Tells, Outcome, Late
<1>j. DoneCounts'
  BY <1>1, <1>2, <1>3, <1>4 DEF Session, DoneCounts, Shared, Outcome, Late
<1>k. Succeeded'
  BY <1>1, <1>2, <1>3, <1>4 DEF Session, Succeeded, Shared, Outcome, Asked
<1>l. AcknowledgedByBoth'
  BY <1>1, <1>2, <1>3, <1>4 DEF Session, AcknowledgedByBoth
<1> QED
  BY <1>a, <1>b, <1>c, <1>d, <1>e, <1>f, <1>g, <1>h, <1>i, <1>j, <1>k, <1>l DEF Session

LEMMA ConnectorProposesSession ==
  ASSUME TypeOK, Session, ConnectorProposes
  PROVE  Session'
<1> USE DEF TypeOK, disk, user, work, objects, reports
<1>1. /\ Waiting(C) /\ Reply(C, <<MessageOf("Snapshot", scan[C]), Message("Plan")>>)
      /\ at[C] = "objects"
      /\ at' = [at EXCEPT ![C] = "proposed"] /\ Head(wire[C]).type = "Done" /\ ~MustShow
      /\ UNCHANGED <<acked, command, expected, result, scan, plan, applied, serving>>
  BY DEF ConnectorProposes, PlanReady, ConnectorRest, Gets, Go
<1>2. at'[C] = "proposed" /\ at'[R] = at[R]
  BY <1>1, EndsAre DEF PlacesTyped
<1>3. /\ serving.snapshot = None /\ ~Coming(R, "Plan") /\ ~Coming(R, "CommitAck")
      /\ ~Coming(R, "Cancel")
      /\ HeadsFirst(Queue(R))
  <2>1. /\ serving.snapshot = None /\ ~Coming(R, "Plan") /\ ~Coming(R, "CommitAck")
        /\ ~Coming(R, "Cancel")
    BY <1>1 DEF Session, Confined, Early, Allowed, Coming
  <2>2. Queue(R) \in Seq(Messages)
    BY QueueTyped, EndsAre
  <2>3. HeadsFirst(Queue(R))
    BY <2>1, <2>2, HasIs DEF Coming
  <2> QED
    BY <2>1, <2>3
<1>4. /\ Queue(C)' = <<>> /\ Coming(C, "Done")
      /\ Range(Queue(R)') \subseteq Range(Queue(R)) \cup {MessageOf("Snapshot", scan[C]), Message("Plan")}
      /\ PlanOnce(Queue(R)') /\ HeadsFirst(Queue(R)')
  <2> DEFINE a == MessageOf("Snapshot", scan[C])
             b == Message("Plan")
  <2>1. a \in Messages /\ b \in Messages /\ a.type = "Snapshot" /\ b.type = "Plan"
    <3>1. scan[C] \in Scans
      BY <1>1 DEF PlansTyped, Early
    <3> QED
      BY <3>1, MessagesAre DEF Signals, Message, MessageOf
  <2>2. Reply(C, <<a, b>>)
    BY <1>1
  <2> HIDE DEF a, b
  <2>3. <<a, b>> \in Seq(Messages) /\ Range(<<a, b>>) = {a, b} /\ PlanOnce(<<a, b>>)
    BY <2>1, Short, ShortRanges DEF PlanOnce
  <2>4. HeadsFirst(<<a, b>>)
    BY <2>1, <2>3, HasIs
  <2>5. Queue(R) \in Seq(Messages) /\ ~Has(Queue(R), "Plan")
    BY <1>3, QueueTyped, EndsAre, HasIs DEF Coming
  <2>6. /\ Range(Queue(R)') \subseteq Range(Queue(R)) \cup {a, b}
        /\ PlanOnce(Queue(R)') /\ HeadsFirst(Queue(R)')
    BY <1>1, <1>3, <2>2, <2>3, <2>4, <2>5, QueuesAfter, EndsAre
  <2>7. /\ Queue(C) \in Seq(Messages) /\ Queue(C) # <<>> /\ Head(Queue(C)).type = "Done"
        /\ Queue(C)' = Tail(Queue(C)) /\ DoneLast(Queue(C))
    BY <1>1, <2>2, <2>3, Handled, EndsAre DEF Session, DoneCounts
  <2>8. Queue(C)' = <<>> /\ Head(Queue(C)) \in Range(Queue(C))
    BY <2>7, TailOf
  <2> QED
    BY <2>6, <2>7, <2>8 DEF a, b, Coming
<1>5. /\ \A t : Coming(C, t)' => Coming(C, t)
      /\ \A t : Coming(R, t)' => Coming(R, t) \/ t \in {"Snapshot", "Plan"}
  BY <1>4, ShortRanges DEF Coming, Message, MessageOf
<1>6. ~Coming(C, "Applied")' /\ ~Coming(C, "Done")' 
  BY <1>4, ShortRanges DEF Coming
<1>a. Asked'
  BY <1>1, <1>2, <1>3, <1>4, <1>5, <1>6 DEF Session, Asked
<1>b. Confined'
  BY <1>1, <1>2, <1>3, <1>4, <1>5, <1>6 DEF Session, Confined, Early, Allowed
<1>c. PlanMade'
  BY <1>1, <1>2, <1>3, <1>4, <1>5, <1>6 DEF Session, PlanMade, Planned, PlanOf, Late, Begun
<1>d. Snapshots'
  BY <1>1, <1>2, <1>3, <1>4, <1>5, <1>6, ShortRanges
     DEF Session, Snapshots, Begun, Message, MessageOf
<1>e. Agreed'
  BY <1>1, <1>2, <1>3, <1>4, <1>5, <1>6 DEF Session, Agreed, MustShow, DryRun, Late, Over
<1>f. Served'
  BY <1>1, <1>2, <1>3, <1>4, <1>5, <1>6 DEF Session, Served
<1>g. OnePlan'
  BY <1>1, <1>2, <1>3, <1>4, <1>5, <1>6 DEF Session, OnePlan, Late
<1>h. HeadsCome'
  BY <1>1, <1>2, <1>3, <1>4, <1>5, <1>6
     DEF Session, HeadsCome, Told, Outcome, Over, Message, MessageOf
<1>i. Tells'
  BY <1>1, <1>2, <1>3, <1>4, <1>5, <1>6 DEF Session, Tells, Outcome, Late, DoneCounts
<1>j. DoneCounts'
  BY <1>1, <1>2, <1>3, <1>4, <1>5, <1>6 DEF Session, DoneCounts, Shared, Outcome, Late
<1>k. Succeeded'
  BY <1>1, <1>2, <1>3, <1>4, <1>5, <1>6 DEF Session, Succeeded, Shared, Outcome, Asked
<1>l. AcknowledgedByBoth'
  BY <1>1, <1>2, <1>3, <1>4, <1>5, <1>6 DEF Session, AcknowledgedByBoth
<1> QED
  BY <1>a, <1>b, <1>c, <1>d, <1>e, <1>f, <1>g, <1>h, <1>i, <1>j, <1>k, <1>l DEF Session

LEMMA ConnectorTurnSession ==
  ASSUME TypeOK, Session, ConnectorTurn
  PROVE  Session'
<1> USE DEF TypeOK, disk, user, work, objects, reports
<1>1. /\ Waiting(C) /\ Reply(C, <<>>) /\ at[C] \in {"applying", "heads"}
      /\ at' = [at EXCEPT ![C] = "apply"] /\ Head(wire[C]).type = "Applied"
      /\ UNCHANGED <<acked, command, expected, result, scan, plan, applied, slot, serving>>
  BY DEF ConnectorTurn, ConnectorRest, Gets, Go, Consume
<1>2. at'[C] = "apply" /\ at'[R] = at[R]
  BY <1>1, EndsAre DEF PlacesTyped
<1>3. /\ Range(Queue(C)') \subseteq Range(Queue(C))
      /\ Range(Queue(R)') \subseteq Range(Queue(R))
      /\ PlanOnce(Queue(R)) => PlanOnce(Queue(R)')
      /\ HeadsFirst(Queue(R)) => HeadsFirst(Queue(R)')
      /\ DoneLast(Queue(C)) => DoneLast(Queue(C)')
  BY <1>1, Consumes, EndsAre
<1>4. /\ \A t : Coming(C, t)' => Coming(C, t)
      /\ \A t : Coming(R, t)' => Coming(R, t)
  BY <1>3 DEF Coming, Message
<1>5. serving.applied
  BY <1>1, HeadIn, EndsAre DEF Session, Tells, Coming
<1>a. Asked'
  BY <1>1, <1>2, <1>3, <1>4, <1>5 DEF Session, Asked
<1>b. Confined'
  BY <1>1, <1>2, <1>3, <1>4, <1>5 DEF Session, Confined, Early, Allowed
<1>c. PlanMade'
  BY <1>1, <1>2, <1>3, <1>4, <1>5 DEF Session, PlanMade, Planned, PlanOf, Late, Begun
<1>d. Snapshots'
  BY <1>1, <1>2, <1>3, <1>4, <1>5 DEF Session, Snapshots, Begun
<1>e. Agreed'
  BY <1>1, <1>2, <1>3, <1>4, <1>5 DEF Session, Agreed, MustShow, DryRun, Late, Over
<1>f. Served'
  BY <1>1, <1>2, <1>3, <1>4, <1>5 DEF Session, Served
<1>g. OnePlan'
  BY <1>1, <1>2, <1>3, <1>4, <1>5 DEF Session, OnePlan, Late
<1>h. HeadsCome'
  BY <1>1, <1>2, <1>3, <1>4, <1>5 DEF Session, HeadsCome, Told, Outcome, Over
<1>i. Tells'
  BY <1>1, <1>2, <1>3, <1>4, <1>5 DEF Session, Tells, Outcome, Late
<1>j. DoneCounts'
  BY <1>1, <1>2, <1>3, <1>4, <1>5 DEF Session, DoneCounts, Shared, Outcome, Late
<1>k. Succeeded'
  BY <1>1, <1>2, <1>3, <1>4, <1>5 DEF Session, Succeeded, Shared, Outcome, Asked
<1>l. AcknowledgedByBoth'
  BY <1>1, <1>2, <1>3, <1>4, <1>5 DEF Session, AcknowledgedByBoth
<1> QED
  BY <1>a, <1>b, <1>c, <1>d, <1>e, <1>f, <1>g, <1>h, <1>i, <1>j, <1>k, <1>l DEF Session

LEMMA ConnectorAppliesSession ==
  ASSUME TypeOK, Session, ConnectorApplies
  PROVE  Session'
<1> USE DEF TypeOK, disk, user, work, objects, reports
<1>1. /\ at[C] = "apply" /\ at' = [at EXCEPT ![C] = "commit"]
      /\ applied' = [applied EXCEPT ![C] = plan[C]]
      /\ UNCHANGED <<acked, command, expected, result, scan, plan, slot, serving, pipes>>
  BY DEF ConnectorApplies, ConnectorRest, Applies, Go
<1>2. /\ at'[C] = "commit" /\ at'[R] = at[R] /\ applied'[C] = plan[C] /\ applied'[R] = applied[R]
      /\ plan[C] # None
  BY <1>1, EndsAre, NoneIsNothing DEF PlacesTyped, PlansTyped, Late
<1>3. Queue(C)' = Queue(C) /\ Queue(R)' = Queue(R)
  BY <1>1 DEF Queue, pipes
<1>4. /\ \A t : Coming(C, t)' => Coming(C, t)
      /\ \A t : Coming(R, t)' => Coming(R, t)
  BY <1>3 DEF Coming
<1>a. Asked'
  BY <1>1, <1>2, <1>3, <1>4 DEF Session, Asked
<1>b. Confined'
  BY <1>1, <1>2, <1>3, <1>4 DEF Session, Confined, Early, Allowed
<1>c. PlanMade'
  BY <1>1, <1>2, <1>3, <1>4 DEF Session, PlanMade, Planned, PlanOf, Late, Begun
<1>d. Snapshots'
  BY <1>1, <1>2, <1>3, <1>4 DEF Session, Snapshots, Begun
<1>e. Agreed'
  BY <1>1, <1>2, <1>3, <1>4 DEF Session, Agreed, MustShow, DryRun, Late, Over
<1>f. Served'
  BY <1>1, <1>2, <1>3, <1>4 DEF Session, Served
<1>g. OnePlan'
  BY <1>1, <1>2, <1>3, <1>4, EndsAre DEF Session, OnePlan, Late
<1>h. HeadsCome'
  BY <1>1, <1>2, <1>3, <1>4 DEF Session, HeadsCome, Told, Outcome, Over
<1>i. Tells'
  BY <1>1, <1>2, <1>3, <1>4 DEF Session, Tells, Outcome, Late
<1>j. DoneCounts'
  BY <1>1, <1>2, <1>3, <1>4 DEF Session, DoneCounts, Shared, Outcome, Late, Outcome
<1>k. Succeeded'
  BY <1>1, <1>2, <1>3, <1>4 DEF Session, Succeeded, Shared, Outcome, Asked
<1>l. AcknowledgedByBoth'
  BY <1>1, <1>2, <1>3, <1>4 DEF Session, AcknowledgedByBoth
<1> QED
  BY <1>a, <1>b, <1>c, <1>d, <1>e, <1>f, <1>g, <1>h, <1>i, <1>j, <1>k, <1>l DEF Session

LEMMA ConnectorCommitsSession ==
  ASSUME TypeOK, Session, ConnectorCommits
  PROVE  Session'
<1> USE DEF TypeOK, disk, user, work, objects, reports
<1>1. /\ Say(C, <<MessageOf("Heads", Outcome(plan[C])), Message("CommitAck")>>) /\ at[C] = "commit"
      /\ at' = [at EXCEPT ![C] = "finish"]
      /\ acked' = [acked EXCEPT ![C] = acked[C] \cup {Outcome(plan[C])}]
      /\ UNCHANGED <<command, expected, result, scan, plan, applied, serving>>
  BY DEF ConnectorCommits, ConnectorRest, Acknowledge, Go
<1>2. /\ at'[C] = "finish" /\ at'[R] = at[R] /\ acked'[C] = acked[C] \cup {Outcome(plan[C])}
      /\ acked'[R] = acked[R] /\ UNCHANGED slot
  BY <1>1, EndsAre DEF PlacesTyped, DirectoriesTyped, ConnectorCommits
<1>3. /\ Range(Queue(C)') \subseteq Range(Queue(C))
      /\ Range(Queue(R)') \subseteq Range(Queue(R)) \cup {MessageOf("Heads", Outcome(plan[C])), Message("CommitAck")}
      /\ PlanOnce(Queue(R)) => PlanOnce(Queue(R)')
      /\ HeadsFirst(Queue(R)) => HeadsFirst(Queue(R)')
  <2> DEFINE a == MessageOf("Heads", Outcome(plan[C]))
             b == Message("CommitAck")
  <2>1. a \in Messages /\ b \in Messages /\ a.type = "Heads" /\ b.type = "CommitAck"
    <3>1. plan[C] \in Plans
      BY <1>1 DEF PlansTyped, Late
    <3>2. Outcome(plan[C]) \in SUBSET Edits
      BY <3>1, ScansTyped, EndsAre
    <3> QED
      BY <3>2, MessagesAre DEF Signals, Message, MessageOf
  <2>2. Say(C, <<a, b>>)
    BY <1>1
  <2> HIDE DEF a, b
  <2>3. <<a, b>> \in Seq(Messages) /\ Range(<<a, b>>) = {a, b} /\ HeadsFirst(<<a, b>>)
    BY <2>1, Short, ShortRanges DEF HeadsFirst
  <2>4. ~Has(<<a, b>>, "Plan")
    <3>1. \A m \in Range(<<a, b>>) : m.type # "Plan"
      BY <2>1, <2>3
    <3> QED
      BY <2>3, <3>1, HasIs
  <2>5. /\ Range(Queue(C)') \subseteq Range(Queue(C))
        /\ Range(Queue(R)') \subseteq Range(Queue(R)) \cup {a, b}
        /\ PlanOnce(Queue(R)) => PlanOnce(Queue(R)')
        /\ HeadsFirst(Queue(R)) => HeadsFirst(Queue(R)')
    BY <2>2, <2>3, <2>4, QueuesAfter, EndsAre
  <2> QED
    BY <2>5 DEF a, b
<1>4. /\ \A t : Coming(C, t)' => Coming(C, t)
      /\ \A t : Coming(R, t)' => Coming(R, t) \/ t \in {"Heads", "CommitAck"}
  BY <1>3 DEF Coming, Message, MessageOf
<1>a. Asked'
  BY <1>1, <1>2, <1>3, <1>4 DEF Session, Asked
<1>b. Confined'
  BY <1>1, <1>2, <1>3, <1>4 DEF Session, Confined, Early, Allowed
<1>c. PlanMade'
  BY <1>1, <1>2, <1>3, <1>4 DEF Session, PlanMade, Planned, PlanOf, Late, Begun
<1>d. Snapshots'
  BY <1>1, <1>2, <1>3, <1>4 DEF Session, Snapshots, Begun, Message, MessageOf
<1>e. Agreed'
  BY <1>1, <1>2, <1>3, <1>4 DEF Session, Agreed, MustShow, DryRun, Late, Over
<1>f. Served'
  BY <1>1, <1>2, <1>3, <1>4 DEF Session, Served
<1>g. OnePlan'
  BY <1>1, <1>2, <1>3, <1>4 DEF Session, OnePlan, Late
<1>h. HeadsCome'
  BY <1>1, <1>2, <1>3, <1>4 DEF Session, HeadsCome, Told, Outcome, Over, Message, MessageOf
<1>i. Tells'
  BY <1>1, <1>2, <1>3, <1>4 DEF Session, Tells, Outcome, Late
<1>j. DoneCounts'
  BY <1>1, <1>2, <1>3, <1>4 DEF Session, DoneCounts, Shared, Outcome, Late
<1>k. Succeeded'
  BY <1>1, <1>2, <1>3, <1>4 DEF Session, Succeeded, Shared, Outcome, Asked
<1>l. AcknowledgedByBoth'
  BY <1>1, <1>2, <1>3, <1>4 DEF Session, AcknowledgedByBoth
<1> QED
  BY <1>a, <1>b, <1>c, <1>d, <1>e, <1>f, <1>g, <1>h, <1>i, <1>j, <1>k, <1>l DEF Session

LEMMA ConnectorShowsSession ==
  ASSUME TypeOK, Session, ConnectorShows
  PROVE  Session'
<1> USE DEF TypeOK, disk, user, work, objects, reports
<1>1. /\ Waiting(C) /\ Reply(C, <<>>) /\ at[C] = "cancelled"
      /\ \E p \in {"idle", "prompt"} :
           at' = [at EXCEPT ![C] = p] /\ (p = "prompt" => command' = command)
      /\ slot' = [slot EXCEPT ![C] = "finished"] /\ result' \in {result, "preview"}
      /\ UNCHANGED <<acked, scan, plan, applied, serving>>
  BY DEF ConnectorShows, Confirmed, ConnectorRest, Gets, Go, Consume
<1>2. /\ at'[C] \in {"idle", "prompt"} /\ at'[R] = at[R]
      /\ (at'[C] = "prompt" => command' = command)
      /\ command # None
  BY <1>1, EndsAre DEF PlacesTyped, Session, Asked
<1>3. /\ Range(Queue(C)') \subseteq Range(Queue(C))
      /\ Range(Queue(R)') \subseteq Range(Queue(R))
      /\ PlanOnce(Queue(R)) => PlanOnce(Queue(R)')
      /\ HeadsFirst(Queue(R)) => HeadsFirst(Queue(R)')
      /\ DoneLast(Queue(C)) => DoneLast(Queue(C)')
  BY <1>1, Consumes, EndsAre
<1>4. /\ \A t : Coming(C, t)' => Coming(C, t)
      /\ \A t : Coming(R, t)' => Coming(R, t)
  BY <1>3 DEF Coming, Message
<1>5. /\ serving.snapshot = None /\ ~Coming(R, "Snapshot") /\ ~serving.applied
      /\ \A e \in Ends : applied[e] = None
  BY <1>1, <1>2 DEF Session, Served, Confined, OnePlan, Early, Late, Allowed, Coming
<1>a. Asked'
  BY <1>1, <1>2, <1>3, <1>4, <1>5 DEF Session, Asked
<1>b. Confined'
  BY <1>1, <1>2, <1>3, <1>4, <1>5 DEF Session, Confined, Early, Allowed
<1>c. PlanMade'
  BY <1>1, <1>2, <1>3, <1>4, <1>5 DEF Session, PlanMade, Planned, PlanOf, Late, Begun
<1>d. Snapshots'
  BY <1>1, <1>2, <1>3, <1>4, <1>5 DEF Session, Snapshots, Begun
<1>e. Agreed'
  BY <1>1, <1>2, <1>3, <1>4, <1>5 DEF Session, Agreed, MustShow, DryRun, Late, Over
<1>f. Served'
  BY <1>1, <1>2, <1>3, <1>4, <1>5 DEF Session, Served
<1>g. OnePlan'
  BY <1>1, <1>2, <1>3, <1>4, <1>5 DEF Session, OnePlan, Late
<1>h. HeadsCome'
  BY <1>1, <1>2, <1>3, <1>4, <1>5 DEF Session, HeadsCome, Told, Outcome, Over
<1>i. Tells'
  BY <1>1, <1>2, <1>3, <1>4, <1>5 DEF Session, Tells, Outcome, Late
<1>j. DoneCounts'
  BY <1>1, <1>2, <1>3, <1>4, <1>5 DEF Session, DoneCounts, Shared, Outcome, Late
<1>k. Succeeded'
  BY <1>1, <1>2, <1>3, <1>4, <1>5 DEF Session, Succeeded, Shared, Outcome
<1>l. AcknowledgedByBoth'
  BY <1>1, <1>2, <1>3, <1>4, <1>5 DEF Session, AcknowledgedByBoth
<1> QED
  BY <1>a, <1>b, <1>c, <1>d, <1>e, <1>f, <1>g, <1>h, <1>i, <1>j, <1>k, <1>l DEF Session

LEMMA ResponderWrites ==
  ASSUME PipesTyped, NEW msgs \in Seq(Messages),
         Say(R, msgs) \/ (Waiting(R) /\ Head(wire[R]).type # "Heads" /\ Reply(R, msgs))
  PROVE  /\ Range(Queue(R)') \subseteq Range(Queue(R))
         /\ Range(Queue(C)') \subseteq Range(Queue(C)) \cup Range(msgs)
         /\ PlanOnce(Queue(R)) => PlanOnce(Queue(R)')
         /\ HeadsFirst(Queue(R)) => HeadsFirst(Queue(R)')
BY QueuesAfter, EndsAre

LEMMA ResponderScansSession ==
  ASSUME TypeOK, Session, ResponderScans
  PROVE  Session'
<1> USE DEF TypeOK, disk, user, work, objects, reports
<1>1. PICK s \in Scans : /\ Say(R, <<MessageOf("Snapshot", s)>>) /\ scan' = [scan EXCEPT ![R] = s]
                        /\ at[R] = "scan" /\ at' = [at EXCEPT ![R] = "serve"]
                        /\ UNCHANGED <<acked, command, expected, result, plan, applied, slot, serving>>
  <2>1. Preview(R) \in Scans /\ Refresh(R) \in Scans
    BY ScansTyped, EndsAre
  <2>2. PICK s \in Scans : scan' = [scan EXCEPT ![R] = s]
    BY <2>1 DEF ResponderScans, Scan
  <2>3. scan'[R] = s
    BY <2>2, EndsAre DEF PlansTyped
  <2> QED
    BY <2>2, <2>3 DEF ResponderScans, ResponderRest, Go
<1>2. at'[R] = "serve" /\ at'[C] = at[C] /\ scan'[R] = s /\ scan'[C] = scan[C]
  BY <1>1, EndsAre DEF PlacesTyped, PlansTyped
<1>3. /\ Range(Queue(R)') \subseteq Range(Queue(R))
      /\ Range(Queue(C)') \subseteq Range(Queue(C)) \cup {MessageOf("Snapshot", s)}
      /\ PlanOnce(Queue(R)) => PlanOnce(Queue(R)')
      /\ HeadsFirst(Queue(R)) => HeadsFirst(Queue(R)')
  <2> DEFINE a == MessageOf("Snapshot", s)
  <2>1. a \in Messages
    BY MessagesAre
  <2>2. <<a>> \in Seq(Messages) /\ Range(<<a>>) = {a}
    BY <2>1, Short, ShortRanges
  <2> QED
    BY <1>1, <2>2, ResponderWrites
<1>4. /\ \A t : Coming(C, t)' => Coming(C, t) \/ t \in {"Snapshot"}
      /\ \A t : Coming(R, t)' => Coming(R, t)
  BY <1>3 DEF Coming, MessageOf
<1>5. ~Planned /\ at[C] # "objects" /\ \A m \in Range(Queue(C)) : m.type # "Snapshot"
  BY <1>1 DEF Session, PlanMade, DoneCounts, Snapshots, Begun
<1>6. ~serving.ready /\ ~serving.applied /\ at[C] \notin Late
  BY <1>5 DEF Session, Served, Planned
<1>a. Asked'
  BY <1>1, <1>2, <1>3, <1>4, <1>5, <1>6 DEF Session, Asked
<1>b. Confined'
  BY <1>1, <1>2, <1>3, <1>4, <1>5, <1>6 DEF Session, Confined, Early, Allowed
<1>c. PlanMade'
  BY <1>1, <1>2, <1>3, <1>4, <1>5, <1>6
     DEF Session, PlanMade, Planned, PlanOf, Late, Begun, MessageOf
<1>d. Snapshots'
  BY <1>1, <1>2, <1>3, <1>4, <1>5, <1>6 DEF Session, Snapshots, Begun, MessageOf, Planned
<1>e. Agreed'
  BY <1>1, <1>2, <1>3, <1>4, <1>5, <1>6 DEF Session, Agreed, MustShow, DryRun, Late, Over
<1>f. Served'
  BY <1>1, <1>2, <1>3, <1>4, <1>5, <1>6 DEF Session, Served
<1>g. OnePlan'
  BY <1>1, <1>2, <1>3, <1>4, <1>5, <1>6 DEF Session, OnePlan, Late
<1>h. HeadsCome'
  BY <1>1, <1>2, <1>3, <1>4, <1>5, <1>6 DEF Session, HeadsCome, Told, Outcome, Over
<1>i. Tells'
  BY <1>1, <1>2, <1>3, <1>4, <1>5, <1>6 DEF Session, Tells, Outcome, Late
<1>j. DoneCounts'
  BY <1>1, <1>2, <1>3, <1>4, <1>5, <1>6 DEF Session, DoneCounts, Shared, Outcome, Late
<1>k. Succeeded'
  BY <1>1, <1>2, <1>3, <1>4, <1>5, <1>6 DEF Session, Succeeded, Shared, Outcome
<1>l. AcknowledgedByBoth'
  BY <1>1, <1>2, <1>3, <1>4, <1>5, <1>6 DEF Session, AcknowledgedByBoth
<1> QED
  BY <1>a, <1>b, <1>c, <1>d, <1>e, <1>f, <1>g, <1>h, <1>i, <1>j, <1>k, <1>l DEF Session

LEMMA ServeNeedSession ==
  ASSUME TypeOK, Session, ServeNeed
  PROVE  Session'
<1> USE DEF TypeOK, disk, user, work, objects, reports
<1>1. /\ Waiting(R) /\ Head(wire[R]).type = "Need" /\ Gets(R, "Need") /\ ~serving.need
      /\ serving.snapshot = None
      /\ serving' = [serving EXCEPT !.need = TRUE] /\ at[R] = "serve"
      /\ UNCHANGED <<at, acked, command, expected, result, scan, plan, applied, slot>>
  BY EndsAre DEF ServeNeed, Serves, Serving, ResponderRest, Gets, Takes, ResponderTakes, ServeTakes
<1>2. /\ serving'.need /\ serving'.snapshot = serving.snapshot /\ serving'.ready = serving.ready
      /\ serving'.applied = serving.applied /\ serving'.heads = serving.heads
  BY <1>1 DEF PlansTyped
<1>3. /\ at[C] \notin {"opening", "scanning"} /\ at[C] \notin Late
      /\ at[C] = "objects" => ~Coming(C, "Done")
  BY <1>1, Quiet DEF Session, Tells, DoneCounts, Allowed, Early
<1>4. PICK msgs \in Seq(Messages) : /\ Reply(R, msgs) /\ DoneLast(msgs)
                                    /\ \A m \in Range(msgs) : m.type \in {"Object", "Done"}
  <2>1. Arg(R) \in Seq(Nat)
    BY <1>1, Received, EndsAre
  <2> QED
    BY <2>1, ObjectsTyped DEF ServeNeed
<1>5. /\ Range(Queue(R)') \subseteq Range(Queue(R))
      /\ Range(Queue(C)') \subseteq Range(Queue(C)) \cup Range(msgs)
      /\ PlanOnce(Queue(R)) => PlanOnce(Queue(R)')
      /\ HeadsFirst(Queue(R)) => HeadsFirst(Queue(R)')
  BY <1>1, <1>4, ResponderWrites
<1>6. /\ \A t : Coming(C, t)' => Coming(C, t) \/ t \in {"Object", "Done"}
      /\ \A t : Coming(R, t)' => Coming(R, t)
  BY <1>4, <1>5 DEF Coming
<1>7. at[C] = "objects" => DoneLast(Queue(C)')
  <2>1. at[C] = "objects" => ~Has(Queue(C), "Done")
    BY <1>3, QueueTyped, EndsAre, HasIs DEF Coming
  <2> QED
    BY <1>1, <1>4, <2>1, QueuesAfter, EndsAre
<1>a. Asked'
  BY <1>1, <1>2, <1>3, <1>4, <1>5, <1>6, <1>7 DEF Session, Asked
<1>b. Confined'
  BY <1>1, <1>2, <1>3, <1>4, <1>5, <1>6, <1>7 DEF Session, Confined, Early, Allowed
<1>c. PlanMade'
  BY <1>1, <1>2, <1>3, <1>4, <1>5, <1>6, <1>7 DEF Session, PlanMade, Planned, PlanOf, Late, Begun
<1>d. Snapshots'
  BY <1>1, <1>2, <1>3, <1>4, <1>5, <1>6, <1>7 DEF Session, Snapshots, Begun
<1>e. Agreed'
  BY <1>1, <1>2, <1>3, <1>4, <1>5, <1>6, <1>7 DEF Session, Agreed, MustShow, DryRun, Late, Over
<1>f. Served'
  BY <1>1, <1>2, <1>3, <1>4, <1>5, <1>6, <1>7 DEF Session, Served
<1>g. OnePlan'
  BY <1>1, <1>2, <1>3, <1>4, <1>5, <1>6, <1>7 DEF Session, OnePlan, Late
<1>h. HeadsCome'
  BY <1>1, <1>2, <1>3, <1>4, <1>5, <1>6, <1>7 DEF Session, HeadsCome, Told, Outcome, Over
<1>i. Tells'
  BY <1>1, <1>2, <1>3, <1>4, <1>5, <1>6, <1>7 DEF Session, Tells, Outcome, Late
<1>j. DoneCounts'
  BY <1>1, <1>2, <1>3, <1>4, <1>5, <1>6, <1>7 DEF Session, DoneCounts, Shared, Outcome, Late
<1>k. Succeeded'
  BY <1>1, <1>2, <1>3, <1>4, <1>5, <1>6, <1>7 DEF Session, Succeeded, Shared, Outcome
<1>l. AcknowledgedByBoth'
  BY <1>1, <1>2, <1>3, <1>4, <1>5, <1>6, <1>7 DEF Session, AcknowledgedByBoth
<1> QED
  BY <1>a, <1>b, <1>c, <1>d, <1>e, <1>f, <1>g, <1>h, <1>i, <1>j, <1>k, <1>l DEF Session

LEMMA ServeSnapshotSession ==
  ASSUME TypeOK, Session, ServeSnapshot
  PROVE  Session'
<1> USE DEF TypeOK, disk, user, work, objects, reports
<1>1. /\ Waiting(R) /\ Head(wire[R]).type = "Snapshot" /\ serving.snapshot = None /\ at[R] = "serve"
      /\ serving' = [serving EXCEPT !.snapshot = Head(wire[R]).arg] /\ Reply(R, <<>>)
      /\ UNCHANGED <<at, acked, command, expected, result, scan, plan, applied, slot>>
  BY EndsAre DEF ServeSnapshot, Serves, Serving, ResponderRest, Arg, Consume, Gets, Takes, ResponderTakes, ServeTakes
<1>2. /\ Head(wire[R]) \in Range(Queue(R)) /\ Coming(R, "Snapshot") /\ Head(wire[R]).arg = scan[C]
  BY <1>1, HeadIn, EndsAre DEF Coming, Session, Snapshots
<1>3. /\ serving'.need = serving.need /\ serving'.snapshot = scan[C]
      /\ serving'.ready = serving.ready
      /\ serving'.applied = serving.applied /\ serving'.heads = serving.heads
  BY <1>1, <1>2 DEF PlansTyped
<1>4. /\ Range(Queue(R)') \subseteq Range(Queue(R))
      /\ Range(Queue(C)') \subseteq Range(Queue(C))
      /\ PlanOnce(Queue(R)) => PlanOnce(Queue(R)')
      /\ HeadsFirst(Queue(R)) => HeadsFirst(Queue(R)')
  BY <1>1, EmptySeq, ShortRanges, ResponderWrites
<1>5. /\ \A t : Coming(C, t)' => Coming(C, t)
      /\ \A t : Coming(R, t)' => Coming(R, t)
  BY <1>4 DEF Coming
<1>6. DoneLast(Queue(C)) => DoneLast(Queue(C)')
  BY <1>1, Consumes, EndsAre
<1>7. at[C] \notin Early /\ ~serving.ready /\ ~serving.applied
  BY <1>1, <1>2 DEF Session, Confined, Allowed, Coming, Served
<1>a. Asked'
  BY <1>1, <1>2, <1>3, <1>4, <1>5, <1>6, <1>7 DEF Session, Asked
<1>b. Confined'
  BY <1>1, <1>2, <1>3, <1>4, <1>5, <1>6, <1>7 DEF Session, Confined, Early, Allowed
<1>c. PlanMade'
  BY <1>1, <1>2, <1>3, <1>4, <1>5, <1>6, <1>7 DEF Session, PlanMade, Planned, PlanOf, Late, Begun
<1>d. Snapshots'
  BY <1>1, <1>2, <1>3, <1>4, <1>5, <1>6, <1>7 DEF Session, Snapshots, Begun
<1>e. Agreed'
  BY <1>1, <1>2, <1>3, <1>4, <1>5, <1>6, <1>7 DEF Session, Agreed, MustShow, DryRun, Late, Over
<1>f. Served'
  BY <1>1, <1>2, <1>3, <1>4, <1>5, <1>6, <1>7 DEF Session, Served
<1>g. OnePlan'
  BY <1>1, <1>2, <1>3, <1>4, <1>5, <1>6, <1>7 DEF Session, OnePlan, Late
<1>h. HeadsCome'
  BY <1>1, <1>2, <1>3, <1>4, <1>5, <1>6, <1>7 DEF Session, HeadsCome, Told, Outcome, Over
<1>i. Tells'
  BY <1>1, <1>2, <1>3, <1>4, <1>5, <1>6, <1>7 DEF Session, Tells, Outcome, Late
<1>j. DoneCounts'
  BY <1>1, <1>2, <1>3, <1>4, <1>5, <1>6, <1>7 DEF Session, DoneCounts, Shared, Outcome, Late, Early
<1>k. Succeeded'
  BY <1>1, <1>2, <1>3, <1>4, <1>5, <1>6, <1>7 DEF Session, Succeeded, Shared, Outcome
<1>l. AcknowledgedByBoth'
  BY <1>1, <1>2, <1>3, <1>4, <1>5, <1>6, <1>7 DEF Session, AcknowledgedByBoth
<1> QED
  BY <1>a, <1>b, <1>c, <1>d, <1>e, <1>f, <1>g, <1>h, <1>i, <1>j, <1>k, <1>l DEF Session

LEMMA ServePlanSession ==
  ASSUME TypeOK, Session, ServePlan
  PROVE  Session'
<1> USE DEF TypeOK, disk, user, work, objects, reports
<1>1. PICK sizes \in Seq(Nat) : Reply(R, <<MessageOf("Need", sizes)>>) /\ Waiting(R) /\ Head(wire[R]).type = "Plan"
  BY OneShotConstants DEF ServePlan, Serves, Gets
<1>2. /\ serving.snapshot # None /\ ~serving.ready /\ at[R] = "serve"
      /\ serving' = [serving EXCEPT !.ready = TRUE]
      /\ plan' = [plan EXCEPT ![R] = PlanOf(serving.snapshot, scan[R])]
      /\ UNCHANGED <<at, acked, command, expected, result, scan, applied, slot>>
  BY EndsAre DEF ServePlan, Serves, Serving, ResponderRest, Gets, Takes, ResponderTakes, ServeTakes
<1>3. plan'[C] = plan[C] /\ plan'[R] = plan[C]
  BY <1>2, EndsAre DEF Session, Snapshots, PlanMade, Planned, PlansTyped
<1>4. /\ serving'.need = serving.need /\ serving'.snapshot = serving.snapshot
      /\ serving'.ready = TRUE
      /\ serving'.applied = serving.applied /\ serving'.heads = serving.heads
  BY <1>2 DEF PlansTyped
<1>5. /\ Range(Queue(R)') \subseteq Range(Queue(R))
      /\ Range(Queue(C)') \subseteq Range(Queue(C)) \cup {MessageOf("Need", sizes)}
      /\ PlanOnce(Queue(R)) => PlanOnce(Queue(R)')
      /\ HeadsFirst(Queue(R)) => HeadsFirst(Queue(R)')
  <2> DEFINE a == MessageOf("Need", sizes)
  <2>1. a \in Messages
    BY MessagesAre
  <2>2. <<a>> \in Seq(Messages) /\ Range(<<a>>) = {a}
    BY <2>1, Short, ShortRanges
  <2> QED
    BY <1>1, <2>2, ResponderWrites
<1>6. /\ \A t : Coming(C, t)' => Coming(C, t) \/ t \in {"Need"}
      /\ \A t : Coming(R, t)' => Coming(R, t)
  BY <1>5 DEF Coming, MessageOf
<1>7. ~Coming(R, "Plan")' /\ Coming(R, "Plan")
  <2>1. MessageOf("Need", sizes) \in Messages
    BY MessagesAre
  <2>2. /\ Queue(R) \in Seq(Messages) /\ Queue(R) # <<>> /\ Head(Queue(R)).type = "Plan"
        /\ Queue(R)' = Tail(Queue(R)) /\ PlanOnce(Queue(R))
    BY <1>1, <2>1, Short, Handled, EndsAre DEF Session, Served
  <2>3. Tail(Queue(R)) \in Seq(Messages)
    BY <2>2, HeadTailProperties
  <2>4. ~Has(Tail(Queue(R)), "Plan") /\ Head(Queue(R)) \in Range(Queue(R))
    BY <2>2, TailOf
  <2>5. ~\E m \in Range(Tail(Queue(R))) : m.type = "Plan"
    BY <2>3, <2>4, HasIs
  <2> QED
    BY <2>2, <2>4, <2>5 DEF Coming
<1>8. at[C] \notin Early /\ ~serving.applied
  BY <1>2, <1>7 DEF Session, Confined, Served
<1>a. Asked'
  BY <1>1, <1>2, <1>3, <1>4, <1>5, <1>6, <1>7, <1>8 DEF Session, Asked
<1>b. Confined'
  BY <1>1, <1>2, <1>3, <1>4, <1>5, <1>6, <1>7, <1>8 DEF Session, Confined, Early, Allowed
<1>c. PlanMade'
  BY <1>1, <1>2, <1>3, <1>4, <1>5, <1>6, <1>7, <1>8
     DEF Session, PlanMade, Planned, PlanOf, Late, Begun
<1>d. Snapshots'
  BY <1>1, <1>2, <1>3, <1>4, <1>5, <1>6, <1>7, <1>8 DEF Session, Snapshots, Begun, MessageOf
<1>e. Agreed'
  BY <1>1, <1>2, <1>3, <1>4, <1>5, <1>6, <1>7, <1>8
     DEF Session, Agreed, MustShow, DryRun, Late, Over
<1>f. Served'
  BY <1>1, <1>2, <1>3, <1>4, <1>5, <1>6, <1>7, <1>8 DEF Session, Served
<1>g. OnePlan'
  BY <1>1, <1>2, <1>3, <1>4, <1>5, <1>6, <1>7, <1>8 DEF Session, OnePlan, Late
<1>h. HeadsCome'
  BY <1>1, <1>2, <1>3, <1>4, <1>5, <1>6, <1>7, <1>8 DEF Session, HeadsCome, Told, Outcome, Over
<1>i. Tells'
  BY <1>1, <1>2, <1>3, <1>4, <1>5, <1>6, <1>7, <1>8 DEF Session, Tells, Outcome, Late
<1>j. DoneCounts'
  BY <1>1, <1>2, <1>3, <1>4, <1>5, <1>6, <1>7, <1>8
     DEF Session, DoneCounts, Shared, Outcome, Late, Early
<1>k. Succeeded'
  BY <1>1, <1>2, <1>3, <1>4, <1>5, <1>6, <1>7, <1>8 DEF Session, Succeeded, Shared, Outcome
<1>l. AcknowledgedByBoth'
  BY <1>1, <1>2, <1>3, <1>4, <1>5, <1>6, <1>7, <1>8 DEF Session, AcknowledgedByBoth
<1> QED
  BY <1>a, <1>b, <1>c, <1>d, <1>e, <1>f, <1>g, <1>h, <1>i, <1>j, <1>k, <1>l DEF Session

LEMMA PlanTooLargeSession ==
  ASSUME TypeOK, Session, PlanTooLarge
  PROVE  Session'
<1> USE DEF TypeOK, disk, user, work, objects, reports
<1>1. /\ Waiting(R) /\ Head(wire[R]).type = "Plan"
      /\ Reply(R, <<Message("Error"), Message("Done")>>)
      /\ serving.snapshot # None /\ at[R] = "serve" /\ at' = [at EXCEPT ![R] = "leaving"]
      /\ UNCHANGED <<acked, command, expected, result, scan, plan, applied, serving>>
  BY EndsAre DEF PlanTooLarge, Serves, Serving, ResponderRest, Go, Gets, Takes, ResponderTakes, ServeTakes
<1>2. at'[R] = "leaving" /\ at'[C] = at[C]
  BY <1>1, EndsAre DEF PlacesTyped
<1>3. /\ Range(Queue(R)') \subseteq Range(Queue(R))
      /\ Range(Queue(C)') \subseteq Range(Queue(C)) \cup {Message("Error"), Message("Done")}
      /\ PlanOnce(Queue(R)) => PlanOnce(Queue(R)')
      /\ HeadsFirst(Queue(R)) => HeadsFirst(Queue(R)')
  <2> DEFINE a == Message("Error")
             b == Message("Done")
  <2>1. a \in Messages /\ b \in Messages
    BY MessagesAre DEF Signals
  <2>2. <<a, b>> \in Seq(Messages) /\ Range(<<a, b>>) = {a, b}
    BY <2>1, Short, ShortRanges
  <2> QED
    BY <1>1, <2>2, ResponderWrites
<1>4. /\ \A t : Coming(C, t)' => Coming(C, t) \/ t \in {"Error", "Done"}
      /\ \A t : Coming(R, t)' => Coming(R, t)
  BY <1>3 DEF Coming, Message
<1>5. Coming(R, "Plan")
  BY <1>1, HeadIn, EndsAre DEF Coming
<1>6. at[C] \notin Early /\ ~serving.applied
  BY <1>1, <1>5 DEF Session, Confined, Served
<1>a. Asked'
  BY <1>1, <1>2, <1>3, <1>4, <1>5, <1>6 DEF Session, Asked
<1>b. Confined'
  BY <1>1, <1>2, <1>3, <1>4, <1>5, <1>6 DEF Session, Confined, Early, Allowed
<1>c. PlanMade'
  BY <1>1, <1>2, <1>3, <1>4, <1>5, <1>6 DEF Session, PlanMade, Planned, PlanOf, Late, Begun
<1>d. Snapshots'
  BY <1>1, <1>2, <1>3, <1>4, <1>5, <1>6 DEF Session, Snapshots, Begun, Message
<1>e. Agreed'
  BY <1>1, <1>2, <1>3, <1>4, <1>5, <1>6 DEF Session, Agreed, MustShow, DryRun, Late, Over
<1>f. Served'
  BY <1>1, <1>2, <1>3, <1>4, <1>5, <1>6 DEF Session, Served
<1>g. OnePlan'
  BY <1>1, <1>2, <1>3, <1>4, <1>5, <1>6 DEF Session, OnePlan, Late
<1>h. HeadsCome'
  BY <1>1, <1>2, <1>3, <1>4, <1>5, <1>6 DEF Session, HeadsCome, Told, Outcome, Over
<1>i. Tells'
  BY <1>1, <1>2, <1>3, <1>4, <1>5, <1>6 DEF Session, Tells, Outcome, Late
<1>j. DoneCounts'
  BY <1>1, <1>2, <1>3, <1>4, <1>5, <1>6 DEF Session, DoneCounts, Shared, Outcome, Late, Early
<1>k. Succeeded'
  BY <1>1, <1>2, <1>3, <1>4, <1>5, <1>6 DEF Session, Succeeded, Shared, Outcome
<1>l. AcknowledgedByBoth'
  BY <1>1, <1>2, <1>3, <1>4, <1>5, <1>6 DEF Session, AcknowledgedByBoth
<1> QED
  BY <1>a, <1>b, <1>c, <1>d, <1>e, <1>f, <1>g, <1>h, <1>i, <1>j, <1>k, <1>l DEF Session

LEMMA ResponderAppliesSession ==
  ASSUME TypeOK, Session, ResponderApplies
  PROVE  Session'
<1> USE DEF TypeOK, disk, user, work, objects, reports
<1>1. /\ Say(R, <<MessageOf("Heads", Outcome(plan[R])), Message("Applied")>>) /\ at[R] = "apply"
      /\ at' = [at EXCEPT ![R] = "serve"] /\ applied' = [applied EXCEPT ![R] = plan[R]]
      /\ serving' = [serving EXCEPT !.applied = TRUE, !.ready = FALSE]
      /\ UNCHANGED <<acked, command, expected, result, scan, plan, slot>>
  BY DEF ResponderApplies, Applies, ResponderRest, Go
<1>2. /\ serving.ready /\ plan[R] \in Plans /\ plan[R] = plan[C] /\ plan[C] # None
      /\ serving.snapshot # None /\ ~Coming(R, "Plan")
  BY <1>1, NoneIsNothing DEF PlansTyped, Session, Served
<1>3. at'[R] = "serve" /\ at'[C] = at[C] /\ applied'[R] = plan[C] /\ applied'[C] = applied[C]
  BY <1>1, <1>2, EndsAre DEF PlacesTyped, PlansTyped
<1>4. /\ serving'.need = serving.need /\ serving'.snapshot = serving.snapshot
      /\ serving'.ready = FALSE
      /\ serving'.applied = TRUE /\ serving'.heads = serving.heads
  BY <1>1 DEF PlansTyped
<1>5. /\ Range(Queue(R)') \subseteq Range(Queue(R))
      /\ Range(Queue(C)') \subseteq Range(Queue(C)) \cup {MessageOf("Heads", Outcome(plan[R])), Message("Applied")}
      /\ PlanOnce(Queue(R)) => PlanOnce(Queue(R)')
      /\ HeadsFirst(Queue(R)) => HeadsFirst(Queue(R)')
  <2> DEFINE a == MessageOf("Heads", Outcome(plan[R]))
             b == Message("Applied")
  <2>1. a \in Messages /\ b \in Messages
    BY <1>2, ScansTyped, EndsAre, MessagesAre DEF Signals
  <2>2. <<a, b>> \in Seq(Messages) /\ Range(<<a, b>>) = {a, b}
    BY <2>1, Short, ShortRanges
  <2> QED
    BY <1>1, <2>2, ResponderWrites
<1>6. /\ \A t : Coming(C, t)' => Coming(C, t) \/ t \in {"Heads", "Applied"}
      /\ \A t : Coming(R, t)' => Coming(R, t)
  BY <1>5 DEF Coming, Message, MessageOf
<1>7. at[C] \notin Early /\ (command = None \/ at[C] \in Late)
  BY <1>1, <1>2 DEF Session, Confined, Agreed, Over
<1>a. Asked'
  BY <1>1, <1>2, <1>3, <1>4, <1>5, <1>6, <1>7 DEF Session, Asked
<1>b. Confined'
  BY <1>1, <1>2, <1>3, <1>4, <1>5, <1>6, <1>7 DEF Session, Confined, Early, Allowed
<1>c. PlanMade'
  BY <1>1, <1>2, <1>3, <1>4, <1>5, <1>6, <1>7 DEF Session, PlanMade, Planned, PlanOf, Late, Begun
<1>d. Snapshots'
  BY <1>1, <1>2, <1>3, <1>4, <1>5, <1>6, <1>7 DEF Session, Snapshots, Begun, Message, MessageOf
<1>e. Agreed'
  BY <1>1, <1>2, <1>3, <1>4, <1>5, <1>6, <1>7 DEF Session, Agreed, MustShow, DryRun, Late, Over
<1>f. Served'
  BY <1>1, <1>2, <1>3, <1>4, <1>5, <1>6, <1>7 DEF Session, Served
<1>g. OnePlan'
  BY <1>1, <1>2, <1>3, <1>4, <1>5, <1>6, <1>7, EndsAre DEF Session, OnePlan, Late
<1>h. HeadsCome'
  BY <1>1, <1>2, <1>3, <1>4, <1>5, <1>6, <1>7 DEF Session, HeadsCome, Told, Outcome, Over
<1>i. Tells'
  BY <1>1, <1>2, <1>3, <1>4, <1>5, <1>6, <1>7 DEF Session, Tells, Outcome, Late
<1>j. DoneCounts'
  BY <1>1, <1>2, <1>3, <1>4, <1>5, <1>6, <1>7 DEF Session, DoneCounts, Shared, Outcome, Late, Early
<1>k. Succeeded'
  BY <1>1, <1>2, <1>3, <1>4, <1>5, <1>6, <1>7 DEF Session, Succeeded, Shared, Outcome
<1>l. AcknowledgedByBoth'
  BY <1>1, <1>2, <1>3, <1>4, <1>5, <1>6, <1>7 DEF Session, AcknowledgedByBoth
<1> QED
  BY <1>a, <1>b, <1>c, <1>d, <1>e, <1>f, <1>g, <1>h, <1>i, <1>j, <1>k, <1>l DEF Session

LEMMA ServeHeadsSession ==
  ASSUME TypeOK, Session, ServeHeads
  PROVE  Session'
<1> USE DEF TypeOK, disk, user, work, objects, reports
<1>1. /\ Waiting(R) /\ Head(wire[R]).type = "Heads" /\ Reply(R, <<>>) /\ at[R] = "serve"
      /\ serving' = [serving EXCEPT !.heads = Head(wire[R]).arg]
      /\ UNCHANGED <<at, acked, command, expected, result, scan, plan, applied, slot>>
  BY DEF ServeHeads, Serves, Serving, ResponderRest, Gets, Arg, Consume
<1>2. Head(wire[R]).arg = Outcome(plan[C]) /\ Head(wire[R]).arg \in acked[C]
  BY <1>1, HeadIn, EndsAre DEF Session, HeadsCome
<1>3. /\ serving'.need = serving.need /\ serving'.snapshot = serving.snapshot
      /\ serving'.ready = serving.ready
      /\ serving'.applied = serving.applied /\ serving'.heads = Outcome(plan[C])
  BY <1>1, <1>2 DEF PlansTyped
<1>4. /\ Range(Queue(R)') \subseteq Range(Queue(R)) /\ Range(Queue(C)') \subseteq Range(Queue(C))
      /\ PlanOnce(Queue(R)) => PlanOnce(Queue(R)')
      /\ DoneLast(Queue(C)) => DoneLast(Queue(C)')
  BY <1>1, Consumes, EndsAre
<1>5. /\ \A t : Coming(C, t)' => Coming(C, t)
      /\ \A t : Coming(R, t)' => Coming(R, t)
  BY <1>4 DEF Coming
<1>a. Asked'
  BY <1>1, <1>2, <1>3, <1>4, <1>5 DEF Session, Asked
<1>b. Confined'
  BY <1>1, <1>2, <1>3, <1>4, <1>5 DEF Session, Confined, Early, Allowed
<1>c. PlanMade'
  BY <1>1, <1>2, <1>3, <1>4, <1>5 DEF Session, PlanMade, Planned, PlanOf, Late, Begun
<1>d. Snapshots'
  BY <1>1, <1>2, <1>3, <1>4, <1>5 DEF Session, Snapshots, Begun
<1>e. Agreed'
  BY <1>1, <1>2, <1>3, <1>4, <1>5 DEF Session, Agreed, MustShow, DryRun, Late, Over
<1>f. Served'
  BY <1>1, <1>2, <1>3, <1>4, <1>5 DEF Session, Served
<1>g. OnePlan'
  BY <1>1, <1>2, <1>3, <1>4, <1>5 DEF Session, OnePlan, Late
<1>h. HeadsCome'
  BY <1>1, <1>2, <1>3, <1>4, <1>5 DEF Session, HeadsCome, Told, Outcome, Over
<1>i. Tells'
  BY <1>1, <1>2, <1>3, <1>4, <1>5 DEF Session, Tells, Outcome, Late
<1>j. DoneCounts'
  BY <1>1, <1>2, <1>3, <1>4, <1>5 DEF Session, DoneCounts, Shared, Outcome, Late
<1>k. Succeeded'
  BY <1>1, <1>2, <1>3, <1>4, <1>5 DEF Session, Succeeded, Shared, Outcome
<1>l. AcknowledgedByBoth'
  BY <1>1, <1>2, <1>3, <1>4, <1>5 DEF Session, AcknowledgedByBoth
<1> QED
  BY <1>a, <1>b, <1>c, <1>d, <1>e, <1>f, <1>g, <1>h, <1>i, <1>j, <1>k, <1>l DEF Session

LEMMA ServeCommitSession ==
  ASSUME TypeOK, Session, ServeCommit
  PROVE  Session'
<1> USE DEF TypeOK, disk, user, work, objects, reports
<1>1. /\ Waiting(R) /\ Head(wire[R]).type = "CommitAck" /\ Reply(R, <<Message("Done")>>)
      /\ Gets(R, "CommitAck") /\ at[R] = "serve"
      /\ at' = [at EXCEPT ![R] = "leaving"] /\ slot' = [slot EXCEPT ![R] = "finished"]
      /\ acked' = [acked EXCEPT ![R] = acked[R] \cup {serving.heads}]
      /\ UNCHANGED <<command, expected, result, scan, plan, applied, serving>>
  BY DEF ServeCommit, Serves, Acknowledge, Gets, Go
<1>2. /\ at'[R] = "leaving" /\ at'[C] = at[C] /\ slot'[R] = "finished"
      /\ acked'[R] = acked[R] \cup {serving.heads} /\ acked'[C] = acked[C]
  BY <1>1, EndsAre DEF PlacesTyped, DirectoriesTyped
<1>3. /\ Range(Queue(R)') \subseteq Range(Queue(R))
      /\ Range(Queue(C)') \subseteq Range(Queue(C)) \cup {Message("Done")}
      /\ PlanOnce(Queue(R)) => PlanOnce(Queue(R)')
      /\ HeadsFirst(Queue(R)) => HeadsFirst(Queue(R)')
  <2> DEFINE a == Message("Done")
  <2>1. a \in Messages
    BY MessagesAre DEF Signals
  <2>2. <<a>> \in Seq(Messages) /\ Range(<<a>>) = {a}
    BY <2>1, Short, ShortRanges
  <2> QED
    BY <1>1, <2>2, ResponderWrites
<1>4. /\ \A t : Coming(C, t)' => Coming(C, t) \/ t \in {"Done"}
      /\ \A t : Coming(R, t)' => Coming(R, t)
  BY <1>3 DEF Coming, Message
<1>5. Told
  <2>1. Message("Done") \in Messages
    BY MessagesAre DEF Signals
  <2>2. /\ Queue(R) \in Seq(Messages) /\ Queue(R) # <<>> /\ Head(Queue(R)).type = "CommitAck"
    BY <1>1, <2>1, Short, Handled, EndsAre
  <2>3. ~HeadsFirst(Queue(R))
    BY <2>2, TailOf
  <2> QED
    BY <1>1, <2>3 DEF Session, HeadsCome, Over
<1>6. at[C] \notin Early
  BY <1>1, Quiet DEF Allowed
<1>a. Asked'
  BY <1>1, <1>2, <1>3, <1>4, <1>5, <1>6 DEF Session, Asked
<1>b. Confined'
  BY <1>1, <1>2, <1>3, <1>4, <1>5, <1>6 DEF Session, Confined, Early, Allowed
<1>c. PlanMade'
  BY <1>1, <1>2, <1>3, <1>4, <1>5, <1>6 DEF Session, PlanMade, Planned, PlanOf, Late, Begun
<1>d. Snapshots'
  BY <1>1, <1>2, <1>3, <1>4, <1>5, <1>6 DEF Session, Snapshots, Begun, Message
<1>e. Agreed'
  BY <1>1, <1>2, <1>3, <1>4, <1>5, <1>6 DEF Session, Agreed, MustShow, DryRun, Late, Over
<1>f. Served'
  BY <1>1, <1>2, <1>3, <1>4, <1>5, <1>6 DEF Session, Served
<1>g. OnePlan'
  BY <1>1, <1>2, <1>3, <1>4, <1>5, <1>6 DEF Session, OnePlan, Late
<1>h. HeadsCome'
  BY <1>1, <1>2, <1>3, <1>4, <1>5, <1>6 DEF Session, HeadsCome, Told, Outcome, Over
<1>i. Tells'
  BY <1>1, <1>2, <1>3, <1>4, <1>5, <1>6 DEF Session, Tells, Outcome, Late
<1>j. DoneCounts'
  BY <1>1, <1>2, <1>3, <1>4, <1>5, <1>6 DEF Session, DoneCounts, Shared, Outcome, Late, Early, Told
<1>k. Succeeded'
  BY <1>1, <1>2, <1>3, <1>4, <1>5, <1>6 DEF Session, Succeeded, Shared, Outcome
<1>l. AcknowledgedByBoth'
  BY <1>1, <1>2, <1>3, <1>4, <1>5, <1>6 DEF Session, AcknowledgedByBoth, Told
<1> QED
  BY <1>a, <1>b, <1>c, <1>d, <1>e, <1>f, <1>g, <1>h, <1>i, <1>j, <1>k, <1>l DEF Session

LEMMA ServeCancelSession ==
  ASSUME TypeOK, Session, ServeCancel
  PROVE  Session'
<1> USE DEF TypeOK, disk, user, work, objects, reports
<1>1. /\ Waiting(R) /\ Head(wire[R]).type = "Cancel" /\ Reply(R, <<Message("Done")>>)
      /\ Gets(R, "Cancel") /\ at[R] = "serve"
      /\ at' = [at EXCEPT ![R] = "leaving"]
      /\ UNCHANGED <<acked, command, expected, result, scan, plan, applied, serving>>
  BY DEF ServeCancel, Serves, Serving, ResponderRest, Gets, Go
<1>2. at'[R] = "leaving" /\ at'[C] = at[C]
  BY <1>1, EndsAre DEF PlacesTyped
<1>3. /\ Range(Queue(R)') \subseteq Range(Queue(R))
      /\ Range(Queue(C)') \subseteq Range(Queue(C)) \cup {Message("Done")}
      /\ PlanOnce(Queue(R)) => PlanOnce(Queue(R)')
      /\ HeadsFirst(Queue(R)) => HeadsFirst(Queue(R)')
  <2> DEFINE a == Message("Done")
  <2>1. a \in Messages
    BY MessagesAre DEF Signals
  <2>2. <<a>> \in Seq(Messages) /\ Range(<<a>>) = {a}
    BY <2>1, Short, ShortRanges
  <2> QED
    BY <1>1, <2>2, ResponderWrites
<1>4. /\ \A t : Coming(C, t)' => Coming(C, t) \/ t \in {"Done"}
      /\ \A t : Coming(R, t)' => Coming(R, t)
  BY <1>3 DEF Coming, Message
<1>5. Coming(R, "Cancel") /\ Gets(R, "Cancel")
  BY <1>1, HeadIn, EndsAre DEF Coming
<1>6. at[C] \notin {"opening", "scanning", "objects"} /\ at[C] \notin Late
  BY <1>5, Quiet DEF Allowed, Early, Session, Tells
<1>a. Asked'
  BY <1>1, <1>2, <1>3, <1>4, <1>5, <1>6 DEF Session, Asked
<1>b. Confined'
  BY <1>1, <1>2, <1>3, <1>4, <1>5, <1>6 DEF Session, Confined, Early, Allowed
<1>c. PlanMade'
  BY <1>1, <1>2, <1>3, <1>4, <1>5, <1>6 DEF Session, PlanMade, Planned, PlanOf, Late, Begun
<1>d. Snapshots'
  BY <1>1, <1>2, <1>3, <1>4, <1>5, <1>6 DEF Session, Snapshots, Begun, Message
<1>e. Agreed'
  BY <1>1, <1>2, <1>3, <1>4, <1>5, <1>6 DEF Session, Agreed, MustShow, DryRun, Late, Over
<1>f. Served'
  BY <1>1, <1>2, <1>3, <1>4, <1>5, <1>6 DEF Session, Served
<1>g. OnePlan'
  BY <1>1, <1>2, <1>3, <1>4, <1>5, <1>6 DEF Session, OnePlan, Late
<1>h. HeadsCome'
  BY <1>1, <1>2, <1>3, <1>4, <1>5, <1>6 DEF Session, HeadsCome, Told, Outcome, Over
<1>i. Tells'
  BY <1>1, <1>2, <1>3, <1>4, <1>5, <1>6 DEF Session, Tells, Outcome, Late
<1>j. DoneCounts'
  BY <1>1, <1>2, <1>3, <1>4, <1>5, <1>6 DEF Session, DoneCounts, Shared, Outcome, Late
<1>k. Succeeded'
  BY <1>1, <1>2, <1>3, <1>4, <1>5, <1>6 DEF Session, Succeeded, Shared, Outcome
<1>l. AcknowledgedByBoth'
  BY <1>1, <1>2, <1>3, <1>4, <1>5, <1>6 DEF Session, AcknowledgedByBoth
<1> QED
  BY <1>a, <1>b, <1>c, <1>d, <1>e, <1>f, <1>g, <1>h, <1>i, <1>j, <1>k, <1>l DEF Session

LEMMA ConnectorFinishesSession ==
  ASSUME TypeOK, Session, ConnectorFinishes
  PROVE  Session'
<1> USE DEF TypeOK, disk, user, work, objects, reports
<1>1. /\ Gets(C, "Done") /\ at[C] = "finish" /\ at[R] = "ended" /\ at' = [at EXCEPT ![C] = "idle"]
      /\ slot' = [slot EXCEPT ![C] = "finished"] /\ command' = None
      /\ UNCHANGED <<acked, expected, scan, plan, applied, serving>>
  BY DEF ConnectorFinishes, Confirmed, Leave, Go, ConnectorRest
<1>2. /\ at'[C] = "idle" /\ at'[R] = "ended" /\ slot'[C] = "finished" /\ slot'[R] = slot[R]
  BY <1>1, EndsAre DEF PlacesTyped
<1>3. /\ Range(Queue(C)') \subseteq Range(Queue(C)) /\ Range(Queue(R)') \subseteq Range(Queue(R))
      /\ PlanOnce(Queue(R)) => PlanOnce(Queue(R)')
      /\ HeadsFirst(Queue(R)) => HeadsFirst(Queue(R)')
  BY FinishesTyped, LossyCalm DEF QueuesCalm
<1>4. /\ \A t : Coming(C, t)' => Coming(C, t)
      /\ \A t : Coming(R, t)' => Coming(R, t)
  BY <1>3 DEF Coming
<1>5. Coming(C, "Done")
  BY <1>1, HeadIn, EndsAre DEF Coming, Gets
<1>6. /\ serving.applied /\ applied[R] = plan[C] /\ applied[C] = plan[C] /\ plan[C] \in Plans
      /\ Outcome(plan[C]) \in acked[C] /\ Shared
  BY <1>1, <1>5, EndsAre DEF Session, Tells, DoneCounts, OnePlan, Late, PlansTyped
<1>a. Asked'
  BY <1>1, <1>2, <1>3, <1>4, <1>5, <1>6 DEF Session, Asked
<1>b. Confined'
  BY <1>1, <1>2, <1>3, <1>4, <1>5, <1>6 DEF Session, Confined, Early, Allowed
<1>c. PlanMade'
  BY <1>1, <1>2, <1>3, <1>4, <1>5, <1>6 DEF Session, PlanMade, Planned, PlanOf, Late, Begun
<1>d. Snapshots'
  BY <1>1, <1>2, <1>3, <1>4, <1>5, <1>6 DEF Session, Snapshots, Begun
<1>e. Agreed'
  BY <1>1, <1>2, <1>3, <1>4, <1>5, <1>6 DEF Session, Agreed, MustShow, DryRun, Late, Over
<1>f. Served'
  BY <1>1, <1>2, <1>3, <1>4, <1>5, <1>6 DEF Session, Served
<1>g. OnePlan'
  BY <1>1, <1>2, <1>3, <1>4, <1>5, <1>6 DEF Session, OnePlan, Late
<1>h. HeadsCome'
  BY <1>1, <1>2, <1>3, <1>4, <1>5, <1>6 DEF Session, HeadsCome, Told, Outcome, Over
<1>i. Tells'
  BY <1>1, <1>2, <1>3, <1>4, <1>5, <1>6 DEF Session, Tells, Outcome, Late
<1>j. DoneCounts'
  BY <1>1, <1>2, <1>3, <1>4, <1>5, <1>6 DEF Session, DoneCounts, Shared, Outcome, Late
<1>k. Succeeded'
  BY <1>1, <1>2, <1>3, <1>4, <1>5, <1>6 DEF Session, Succeeded, Shared, Outcome
<1>l. AcknowledgedByBoth'
  BY <1>1, <1>2, <1>3, <1>4, <1>5, <1>6 DEF Session, AcknowledgedByBoth
<1> QED
  BY <1>a, <1>b, <1>c, <1>d, <1>e, <1>f, <1>g, <1>h, <1>i, <1>j, <1>k, <1>l DEF Session

(* A command is given, and a connection started, where none is left.       *)
LEMMA GiveSession ==
  ASSUME TypeOK, Session, NEW c \in Commands, Give(c)
  PROVE  Session'
<1>1. /\ at[C] = "idle" /\ at[R] \in {"idle", "ended", "failed"} /\ applied' = [e \in Ends |-> None]
      /\ result' = None /\ command' = c /\ c # None
      /\ UNCHANGED <<acked, at, scan, plan, slot, pipes, serving>>
  BY NoneIsNothing, OneShotConstants DEF Session, Asked, Give, Nothing, disk
<1>2. Queue(C)' = Queue(C) /\ Queue(R)' = Queue(R)
  BY <1>1 DEF Queue, pipes
<1>3. \A t : (Coming(C, t)' <=> Coming(C, t)) /\ (Coming(R, t)' <=> Coming(R, t))
  BY <1>2 DEF Coming
<1>4. Asked' /\ Confined' /\ AcknowledgedByBoth'
  BY <1>1 DEF Session, Asked, Confined, AcknowledgedByBoth, Early
<1>5. PlanMade' /\ Snapshots'
  BY <1>1, <1>2, <1>3 DEF Session, PlanMade, Planned, PlanOf, Snapshots
<1>6. Agreed'
  BY <1>1, <1>3 DEF Session, Agreed, PlanMade, Planned, Begun, Over, Late
<1>7. Served'
  BY <1>1, <1>2, <1>3 DEF Session, Served
<1>8. HeadsCome'
  BY <1>1, <1>2 DEF Session, HeadsCome, Told, Outcome
<1>9. OnePlan' /\ Tells' /\ DoneCounts' /\ Succeeded'
  BY <1>1, NoneIsNothing DEF Session, OnePlan, Tells, DoneCounts, Succeeded, Late
<1> QED
  BY <1>4, <1>5, <1>6, <1>7, <1>8, <1>9 DEF Session

LEMMA StartSession ==
  ASSUME TypeOK, Session, Start
  PROVE  Session'
<1>1. /\ command # None /\ at' = [e \in Ends |-> IF e = C THEN "opening" ELSE "idle"]
      /\ outbox' = [e \in Ends |-> IF e = C THEN <<MessageOf("Sync", DryRun)>> ELSE <<>>]
      /\ wire' = [e \in Ends |-> <<>>] /\ open' = TRUE
      /\ UNCHANGED <<acked, command, expected, result>>
      /\ applied' = [e \in Ends |-> None] /\ serving' = NothingServed
  BY EndsAre DEF Start, Fresh, Nothing, disk
<1>2. at'[C] = "opening" /\ at'[R] = "idle"
  BY <1>1, EndsAre
<1>3. Queue(C)' = <<>> /\ Queue(R)' = <<MessageOf("Sync", DryRun)>>
  <2>1. MessageOf("Sync", DryRun) \in Messages
    BY MessagesAre DEF DryRun
  <2>2. Queue(C)' = <<>> \o <<>> /\ Queue(R)' = <<>> \o <<MessageOf("Sync", DryRun)>>
    BY <1>1, EndsAre DEF Queue
  <2> HIDE DEF Queue
  <2> QED
    BY <2>1, <2>2, Short, ConcatEmptySeq
<1>4. /\ Range(Queue(C)') = {} /\ \A m \in Range(Queue(R)') : m.type = "Sync"
      /\ PlanOnce(Queue(R)') /\ HeadsFirst(Queue(R)')
  <2> DEFINE a == MessageOf("Sync", DryRun)
  <2>1. a \in Messages /\ a.type = "Sync"
    BY MessagesAre DEF DryRun, MessageOf
  <2>2. Queue(C)' = <<>> /\ Queue(R)' = <<a>>
    BY <1>3
  <2> HIDE DEF a
  <2>3. <<a>> \in Seq(Messages) /\ Range(<<a>>) = {a} /\ Range(<<>>) = {}
    BY <2>1, Short, ShortRanges
  <2>4. ~Has(<<a>>, "Plan") /\ ~Has(<<a>>, "CommitAck")
    BY <2>1, <2>3, HasIs
  <2>5. PlanOnce(<<a>>) /\ HeadsFirst(<<a>>)
    BY <2>3, <2>4, HasIs
  <2> QED
    BY <2>1, <2>2, <2>3, <2>5
<1>5. \A t : ~Coming(C, t)' /\ (Coming(R, t)' => t = "Sync")
  BY <1>4 DEF Coming
<1>6. /\ serving'.snapshot = None /\ ~serving'.need /\ ~serving'.ready /\ ~serving'.applied
  BY <1>1 DEF NothingServed
<1>7. Asked' /\ AcknowledgedByBoth' /\ Succeeded'
  BY <1>1, <1>2 DEF Session, Asked, AcknowledgedByBoth, Succeeded
<1>8. Confined' /\ Snapshots' /\ Served'
  BY <1>2, <1>4, <1>5, <1>6 DEF Confined, Allowed, Early, Snapshots, Served
<1>9. PlanMade' /\ Agreed' /\ DoneCounts'
  BY <1>2, <1>4, <1>5, <1>6 DEF PlanMade, Planned, Agreed, DoneCounts, Late
<1>10. OnePlan' /\ Tells'
  BY <1>1, <1>2, <1>5, <1>6 DEF OnePlan, Tells, Late
<1>11. HeadsCome'
  BY <1>4 DEF HeadsCome
<1> QED
  BY <1>7, <1>8, <1>9, <1>10, <1>11 DEF Session

LEMMA InitSession == Init => Session
<1> SUFFICES ASSUME Init PROVE Session
  OBVIOUS
<1>1. /\ at = [e \in Ends |-> "idle"] /\ command = None /\ result = None
      /\ acked = [e \in Ends |-> {}] /\ applied = [e \in Ends |-> None] /\ serving = NothingServed
      /\ wire = [e \in Ends |-> <<>>] /\ open = FALSE
  BY DEF Init, Fresh, Nothing
<1>2. at[C] = "idle" /\ at[R] = "idle" /\ acked[R] = {}
  BY <1>1, EndsAre
<1>3. \A e \in Ends : Queue(e) = <<>>
  <2>1. \A e \in Ends : Queue(e) = <<>> \o <<>>
    BY <1>1 DEF Queue
  <2>2. <<>> \in Seq(Messages) /\ <<>> \o <<>> = <<>>
    BY EmptySeq, ConcatEmptySeq
  <2> QED
    BY <2>1, <2>2
<1>4. /\ Range(Queue(C)) = {} /\ Range(Queue(R)) = {} /\ PlanOnce(Queue(R)) /\ HeadsFirst(Queue(R))
  BY <1>3, EndsAre, Short, ShortRanges, HasIs
<1>5. \A t : ~Coming(C, t) /\ ~Coming(R, t)
  BY <1>4 DEF Coming
<1>6. serving.snapshot = None /\ ~serving.ready /\ ~serving.applied
  BY <1>1 DEF NothingServed
<1>7. Asked /\ Confined /\ PlanMade /\ Snapshots /\ Agreed /\ Served
  BY <1>1, <1>2, <1>4, <1>5, <1>6
     DEF Asked, Confined, PlanMade, Planned, Snapshots, Agreed, Served, Early, Late
<1>8. OnePlan /\ HeadsCome /\ Tells /\ DoneCounts /\ Succeeded /\ AcknowledgedByBoth
  BY <1>1, <1>2, <1>4, NoneIsNothing
     DEF OnePlan, HeadsCome, Tells, DoneCounts, Succeeded, AcknowledgedByBoth, Late
<1> QED
  BY <1>7, <1>8 DEF Session

LEMMA StepSession == TypeOK /\ Session /\ [Next]_vars => Session'
<1> SUFFICES ASSUME TypeOK, Session, [Next]_vars PROVE Session'
  OBVIOUS
<1>1. CASE Progresses \/ ConnectorSends \/ ConnectorReceipt
  BY <1>1, ProgressIsCalm, BatchesAreCalm, CalmStep
<1>2. CASE \/ ResponderLeaves \/ Confirm \/ Break \/ UNCHANGED vars
           \/ \E e \in Ends, x \in Edits : Edit(e, x)
           \/ \E e \in Ends : Write(e)
  BY <1>2, OthersAreCalm, CalmStep
<1>3. CASE Decline \/ \E e \in Ends : Departs(e)
  BY <1>3, OthersAreCalm, CalmStep, EndStep, EndsAre
<1>4. CASE ConnectorTurns
  BY <1>4, ConnectorScansSession, ConnectorPlansSession, ConnectorCancelsSession,
     ConnectorProposesSession, ConnectorTurnSession, ConnectorAppliesSession,
     ConnectorCommitsSession, ConnectorShowsSession DEF ConnectorTurns
<1>5. CASE ResponderTurns
  BY <1>5, ResponderScansSession, ServeNeedSession, ServeSnapshotSession, ServePlanSession,
     PlanTooLargeSession, ResponderAppliesSession, ServeHeadsSession, ServeCommitSession,
     ServeCancelSession DEF ResponderTurns
<1>6. CASE ConnectorFinishes \/ Start \/ \E c \in Commands : Give(c)
  BY <1>6, ConnectorFinishesSession, StartSession, GiveSession
<1> QED
  BY <1>1, <1>2, <1>3, <1>4, <1>5, <1>6, NextIs

THEOREM SessionHolds == Spec => [](TypeOK /\ Session)
<1>1. Init => TypeOK /\ Session
  BY InitTyped, InitSession
<1>2. TypeOK /\ Session /\ [Next]_vars => (TypeOK /\ Session)'
  BY StepTyped, StepSession
<1> QED
  BY <1>1, <1>2, PTL DEF Spec

----------------------------------------------------------------------------
(* The theorems.                                                           *)

(* Whatever the interleaving of the two processes, the pipes and the       *)
(* users' edits, and wherever a connection breaks or a process is killed:  *)
(* no end applies a plan the user has not agreed to.                       *)
THEOREM NothingUnseenApplied == Spec => []AppliesWhatWasShown
<1>1. TypeOK /\ Session => AppliesWhatWasShown
  <2> SUFFICES ASSUME TypeOK, Session, NEW e \in Ends, applied[e] # None
               PROVE  command # "dry run" /\ (command = "ask" => applied[e] = expected)
    BY DEF AppliesWhatWasShown
  <2>1. applied[e] = plan[C] /\ (command = None \/ ~MustShow)
    BY DEF Session, OnePlan, Agreed
  <2> QED
    BY <2>1, NoneIsNothing DEF MustShow, DryRun
<1> QED
  BY <1>1, SessionHolds, PTL

(* What the responder counts as shared the connector does: the heads it    *)
(* acknowledges were acknowledged before they were sent.                   *)
THEOREM ConnectorAcknowledgesFirst == Spec => []AcknowledgedByBoth
<1>1. Session => AcknowledgedByBoth
  BY DEF Session
<1> QED
  BY <1>1, SessionHolds, PTL

(* When the user is told that the share is synchronized, both ends have    *)
(* applied one plan and acknowledged it, and hold no permit any more.      *)
THEOREM SuccessIsOfBoth == Spec => []SuccessMeansBoth
<1>1. TypeOK /\ Session => SuccessMeansBoth
  <2> SUFFICES ASSUME TypeOK, Session, result = "ok" PROVE SuccessMeansBoth
    BY DEF SuccessMeansBoth
  <2>1. /\ applied[C] = plan[C] /\ applied[R] = plan[C] /\ plan[C] \in Plans
        /\ Outcome(plan[C]) \in acked[C] /\ Outcome(plan[C]) \in acked[R]
        /\ slot[C] = "finished" /\ slot[R] = "finished"
    BY DEF Session, Succeeded, Shared
  <2> QED
    BY <2>1, NoneIsNothing, EndsAre DEF SuccessMeansBoth
<1> QED
  BY <1>1, SessionHolds, PTL

----------------------------------------------------------------------------
(* What is on its way to each end fits the place where the end is.         *)

(* Messages of one type at most, and of a few types at that.               *)
Single(q, T) == Len(q) <= 1 /\ \A k \in DOMAIN q : q[k].type \in T

(* Reports of type t, each of more than the one before and of a number in  *)
(* S; then one message of a type in T.                                     *)
Rising(q, t) ==
  \A j, k \in DOMAIN q : j < k /\ q[j].type = t /\ q[k].type = t => q[j].arg < q[k].arg

Stream(q, t, S, T) ==
  /\ Rising(q, t)
  /\ \A k \in DOMAIN q : (q[k].type = t /\ q[k].arg \in S) \/ (q[k].type \in T /\ k = Len(q))

(* Reports, then Heads, then the message that is last.                     *)
Closing(q, S, last) ==
  /\ Rising(q, "ApplyProgress")
  /\ \A k \in DOMAIN q :
       \/ q[k].type = "ApplyProgress" /\ q[k].arg \in S
       \/ q[k].type = "Heads" /\ (k = Len(q) \/ (k + 1 = Len(q) /\ q[k + 1].type = last))
       \/ q[k].type = last /\ k = Len(q) /\ k # 1 /\ q[k - 1].type = "Heads"

(* The first n objects of a list, then the message that ends them.         *)
Transfer(q, sizes, n, end) ==
  \A k \in DOMAIN q :
    \/ k <= n /\ q[k].type = "Object" /\ q[k].arg = sizes[k]
    \/ k = n + 1 /\ k = Len(q) /\ q[k].type = end

Proposal(q) ==
  Len(q) <= 2 /\ \A k \in DOMAIN q : q[k].type = IF k = 1 THEN "Snapshot" ELSE "Plan"

Only(q, T)     == \A m \in Range(q) : m.type \in T
Reported(q, n) == \A m \in Range(q) : m.arg <= n

(* What may be on its way to the connector, where it is.                   *)
Unheard == (IF heard[C] = None THEN 0 ELSE heard[C] + 1) .. MaxReports
Left(e) == heard[e] + 1 .. Records

ConnectorFits(q) ==
  /\ at[C] = "opening" => heard[C] = None /\ Single(q, {"Reserved", "Error"})
  /\ at[C] = "scanning" =>
       /\ Stream(q, "ScanProgress", Unheard, {"Snapshot", "Error"})
       /\ heard[C] = None /\ q # <<>> => q[1].type = "ScanProgress" /\ q[1].arg = 0
  /\ at[C] = "objects" => Transfer(q, wanted[C], Len(wanted[C]), "Done")
  /\ at[C] \in {"cancelled", "finish"} => Single(q, {"Done"})
  /\ at[C] = "proposed" => Single(q, {"Need"}) \/ (q # <<>> => q[1].type = "Error")
  /\ at[C] = "sending" =>
       /\ heard[C] = 0 /\ Single(q, {"Receipt"})
       /\ \A m \in Range(q) :
            m.arg = ReceiptOf(giving.sizes, BatchEnd(giving.sizes, giving.sent))
  /\ at[C] = "applying" =>
       /\ heard[C] # None
       /\ Stream(q, "ApplyProgress", Left(C), {"Error"}) \/ Closing(q, Left(C), "Applied")
  /\ at[C] = "heads" => Single(q, {"Applied"})
  /\ at[C] \in {"apply", "commit"} => q = <<>>

(* How far the responder has been served.                                  *)
Where ==
  IF at[R] # "serve" THEN at[R]
  ELSE IF serving.applied THEN (IF serving.heads = None THEN "hears" ELSE "acknowledges")
  ELSE IF serving.ready THEN "receives"
  ELSE IF serving.snapshot # None THEN "compares"
  ELSE IF serving.need THEN "chooses" ELSE "gives"

Missing == BatchEnd(batch.sizes, batch.from) - batch.got

ResponderFits(q) ==
  /\ Where = "idle" => Single(q, {"Sync"})
  /\ Where = "waiting" => Single(q, {"ScanRequest"})
  /\ Where \in {"scan", "apply"} => q = <<>>
  /\ Where = "gives" => Single(q, {"Need"})
  /\ Where = "chooses" => Single(q, {"Cancel"}) \/ Proposal(q)
  /\ Where = "compares" => Single(q, {"Plan"})
  /\ Where = "receives" =>
       IF batch.from < Len(batch.sizes) THEN Transfer(q, wanted[R], Missing, "BatchEnd")
                                        ELSE Single(q, {"Done"})
  /\ Where = "hears" => Closing(q, Left(R), "CommitAck")
  /\ Where = "acknowledges" => Single(q, {"CommitAck"})

(* What the responder keeps agrees with itself.                            *)
Flags ==
  /\ at[R] \in {"idle", "waiting", "scan"} =>
       ~serving.need /\ serving.snapshot = None /\ ~serving.ready /\ ~serving.applied
  /\ ~serving.applied => serving.heads = None /\ heard[R] = 0
  /\ heard[R] \in Nat
  /\ ~(serving.ready /\ serving.applied)

Gathered ==
  serving.ready =>
    /\ batch.from <= batch.got /\ batch.got <= Len(batch.sizes)
    /\ Len(wanted[R]) = Len(batch.sizes) - batch.got
    /\ \A k \in DOMAIN wanted[R] : wanted[R][k] = batch.sizes[batch.got + k]
    /\ batch.bytes = Bytes(SubSeq(batch.sizes, 1, batch.got))
    /\ batch.from < Len(batch.sizes) => batch.got <= BatchEnd(batch.sizes, batch.from)

HeadsKept ==
  at[R] = "serve" /\ serving.applied =>
    stored[R] = Outcome(plan[R]) /\ serving.heads \in {None, Outcome(plan[R])}

(* Where the ends can be while they are connected: one of them speaks.     *)
Paired(q, r) ==
  \/ Where = "leaving"
  \/ at[C] = "opening" /\ Where = "idle" /\ q = <<>>
  \/ at[C] = "opening" /\ Where = "waiting" /\ r = <<>>
  \/ at[C] = "scanning" /\ Where = "waiting" /\ q = <<>> /\ heard[C] = None
  \/ at[C] = "scanning" /\ Where = "scan" /\ Only(q, {"ScanProgress"}) /\ Reported(q, told[R])
       /\ IF heard[C] = None THEN q # <<>> ELSE heard[C] <= told[R]
  \/ at[C] = "scanning" /\ Where = "gives" /\ r = <<>>
  \/ at[C] = "objects" /\ Where = "gives" /\ q = <<>> /\ \A m \in Range(r) : m.arg = wanted[C]
  \/ at[C] = "objects" /\ Where = "chooses" /\ r = <<>>
  \/ at[C] = "cancelled" /\ Where = "chooses" /\ q = <<>> /\ Only(r, {"Cancel"})
  \/ at[C] = "proposed" /\ Where = "chooses" /\ q = <<>> /\ Only(r, {"Snapshot", "Plan"})
  \/ at[C] = "proposed" /\ Where = "compares" /\ q = <<>>
  \/ at[C] = "proposed" /\ Where = "receives" /\ r = <<>>
       /\ batch.from = 0 /\ batch.got = 0 /\ \A m \in Range(q) : m.arg = batch.sizes
  \/ at[C] = "sending" /\ Where = "receives" /\ q = <<>>
       /\ giving.sizes = batch.sizes /\ giving.sent = batch.from
  \/ at[C] = "sending" /\ Where = "receives" /\ r = <<>> /\ giving.sizes = batch.sizes
       /\ batch.from = BatchEnd(giving.sizes, giving.sent) /\ batch.got = batch.from
  \/ at[C] = "applying" /\ Where = "receives" /\ q = <<>> /\ heard[C] = 0
       /\ batch.from = Len(batch.sizes)
  \/ at[C] = "applying" /\ Where = "apply" /\ Only(q, {"ApplyProgress"})
       /\ Reported(q, told[R]) /\ heard[C] <= told[R]
  \/ at[C] = "applying" /\ Where = "receives" /\ r = <<>> /\ Only(q, {"ApplyProgress", "Error"})
  \/ at[C] \in {"applying", "heads"} /\ Where = "hears" /\ r = <<>> /\ heard[R] = 0
  \/ at[C] \in {"apply", "commit"} /\ Where = "hears" /\ q = <<>>
       /\ Only(r, {"ApplyProgress"}) /\ Reported(r, told[C]) /\ heard[R] <= told[C]
  \/ at[C] = "finish" /\ Where \in {"hears", "acknowledges"} /\ q = <<>>

Polite ==
  /\ ConnectorFits(Queue(C)) /\ ResponderFits(Queue(R)) /\ Flags /\ Gathered /\ HeadsKept
  /\ open => Paired(Queue(C), Queue(R))

(* How the shapes of a queue change.                                       *)
LEMMA TailIs ==
  ASSUME NEW q \in Seq(Messages), q # <<>>
  PROVE  /\ Len(q) \in Nat \ {0} /\ DOMAIN q = 1 .. Len(q) /\ Head(q) = q[1] /\ 1 \in DOMAIN q
         /\ Tail(q) \in Seq(Messages) /\ Len(Tail(q)) = Len(q) - 1
         /\ DOMAIN Tail(q) = 1 .. Len(q) - 1
         /\ \A k \in 1 .. Len(q) - 1 : Tail(q)[k] = q[k + 1] /\ k + 1 \in DOMAIN q
         /\ Len(q) <= 1 => Tail(q) = <<>>
<1>1. /\ Len(q) \in Nat \ {0} /\ DOMAIN q = 1 .. Len(q) /\ Head(q) = q[1]
      /\ Tail(q) \in Seq(Messages) /\ Len(Tail(q)) = Len(q) - 1
      /\ \A k \in 1 .. Len(Tail(q)) : Tail(q)[k] = q[k + 1]
  BY HeadTailProperties, LenProperties, EmptySeq
<1>2. DOMAIN Tail(q) = 1 .. Len(Tail(q))
  BY <1>1, LenProperties
<1>3. Len(q) <= 1 => Tail(q) = <<>>
  BY <1>1, EmptySeq
<1> QED
  BY <1>1, <1>2, <1>3

LEMMA SingleTail ==
  ASSUME NEW q \in Seq(Messages), q # <<>>, NEW T, Single(q, T)
  PROVE  Tail(q) = <<>> /\ Head(q).type \in T
BY TailIs DEF Single

LEMMA StreamTail ==
  ASSUME NEW q \in Seq(Messages), q # <<>>, NEW t, NEW a \in Nat, NEW b \in Nat, NEW T, t \notin T,
         Stream(q, t, a .. b, T)
  PROVE  /\ Head(q).type = t => /\ Head(q).arg \in a .. b
                                /\ Stream(Tail(q), t, Head(q).arg + 1 .. b, T)
         /\ Head(q).type # t => Head(q).type \in T /\ Tail(q) = <<>>
<1> DEFINE r == Tail(q)
<1>1. /\ Len(q) \in Nat \ {0} /\ DOMAIN q = 1 .. Len(q) /\ Head(q) = q[1] /\ 1 \in DOMAIN q
      /\ Len(r) = Len(q) - 1 /\ DOMAIN r = 1 .. Len(q) - 1
      /\ \A k \in 1 .. Len(q) - 1 : r[k] = q[k + 1] /\ k + 1 \in DOMAIN q
      /\ Len(q) <= 1 => r = <<>>
  BY TailIs
<1> HIDE DEF r
<1>2. ASSUME q[1].type = t PROVE q[1].arg \in a .. b /\ Stream(r, t, q[1].arg + 1 .. b, T)
  <2>1. q[1].arg \in a .. b
    BY <1>1, <1>2 DEF Stream
  <2>2. Rising(r, t)
    <3> SUFFICES ASSUME NEW j \in DOMAIN r, NEW k \in DOMAIN r, j < k, r[j].type = t, r[k].type = t
                 PROVE  r[j].arg < r[k].arg
      BY DEF Rising
    <3>1. /\ r[j] = q[j + 1] /\ r[k] = q[k + 1] /\ j + 1 \in DOMAIN q /\ k + 1 \in DOMAIN q
          /\ j + 1 < k + 1
      BY <1>1
    <3> QED
      BY <3>1 DEF Stream, Rising
  <2>3. ASSUME NEW k \in DOMAIN r
        PROVE  (r[k].type = t /\ r[k].arg \in q[1].arg + 1 .. b) \/ (r[k].type \in T /\ k = Len(r))
    <3>1. r[k] = q[k + 1] /\ k + 1 \in DOMAIN q /\ 1 < k + 1 /\ (k + 1 = Len(q) => k = Len(r))
      BY <1>1
    <3>2. q[k + 1].type = t => q[k + 1].arg \in a .. b /\ q[1].arg < q[k + 1].arg
      BY <1>1, <1>2, <3>1 DEF Stream, Rising
    <3>3. q[k + 1].type = t => q[k + 1].arg \in q[1].arg + 1 .. b
      BY <2>1, <3>2
    <3> QED
      BY <3>1, <3>3 DEF Stream
  <2> QED
    BY <2>1, <2>2, <2>3 DEF Stream
<1>3. q[1].type # t => q[1].type \in T /\ Len(q) = 1
  BY <1>1 DEF Stream
<1> QED
  BY <1>1, <1>2, <1>3 DEF r

LEMMA ClosingTail ==
  ASSUME NEW q \in Seq(Messages), q # <<>>, NEW a \in Nat, NEW b \in Nat,
         NEW last \in {"Applied", "CommitAck"}, Closing(q, a .. b, last)
  PROVE  /\ Head(q).type \in {"ApplyProgress", "Heads"}
         /\ Head(q).type = "ApplyProgress" => /\ Head(q).arg \in a .. b
                                              /\ Closing(Tail(q), Head(q).arg + 1 .. b, last)
         /\ Head(q).type = "Heads" => Single(Tail(q), {last})
<1> DEFINE r == Tail(q)
<1>1. /\ Len(q) \in Nat \ {0} /\ DOMAIN q = 1 .. Len(q) /\ Head(q) = q[1] /\ 1 \in DOMAIN q
      /\ Len(r) = Len(q) - 1 /\ DOMAIN r = 1 .. Len(q) - 1
      /\ \A k \in 1 .. Len(q) - 1 : r[k] = q[k + 1] /\ k + 1 \in DOMAIN q
      /\ Len(q) <= 1 => r = <<>>
  BY TailIs
<1> HIDE DEF r
<1>2. q[1].type \in {"ApplyProgress", "Heads"}
  BY <1>1 DEF Closing
<1>3. ASSUME q[1].type = "ApplyProgress" PROVE q[1].arg \in a .. b /\ Closing(r, q[1].arg + 1 .. b, last)
  <2>1. q[1].arg \in a .. b
    BY <1>1, <1>3 DEF Closing
  <2>2. Rising(r, "ApplyProgress")
    <3> SUFFICES ASSUME NEW j \in DOMAIN r, NEW k \in DOMAIN r, j < k, r[j].type = "ApplyProgress", r[k].type = "ApplyProgress"
                 PROVE  r[j].arg < r[k].arg
      BY DEF Rising
    <3>1. /\ r[j] = q[j + 1] /\ r[k] = q[k + 1] /\ j + 1 \in DOMAIN q /\ k + 1 \in DOMAIN q
          /\ j + 1 < k + 1
      BY <1>1
    <3> QED
      BY <3>1 DEF Closing, Rising
  <2>3. ASSUME NEW k \in DOMAIN r
        PROVE  \/ r[k].type = "ApplyProgress" /\ r[k].arg \in q[1].arg + 1 .. b
               \/ r[k].type = "Heads" /\ (k = Len(r) \/ (k + 1 = Len(r) /\ r[k + 1].type = last))
               \/ r[k].type = last /\ k = Len(r) /\ k # 1 /\ r[k - 1].type = "Heads"
    <3>1. /\ k \in 1 .. Len(q) - 1 /\ r[k] = q[k + 1] /\ k + 1 \in DOMAIN q /\ 1 < k + 1
          /\ (k + 1 = Len(q) <=> k = Len(r)) /\ (k + 1 + 1 = Len(q) <=> k + 1 = Len(r))
      BY <1>1
    <3>2. CASE q[k + 1].type = "ApplyProgress"
      <4>1. q[k + 1].arg \in a .. b /\ q[1].arg < q[k + 1].arg
        BY <1>1, <1>3, <3>1, <3>2 DEF Closing, Rising
      <4> QED
        BY <2>1, <3>1, <3>2, <4>1
    <3>3. CASE q[k + 1].type = "Heads"
      <4>1. k + 1 = Len(q) \/ (k + 1 + 1 = Len(q) /\ q[k + 1 + 1].type = last)
        BY <1>1, <3>1, <3>3 DEF Closing
      <4>2. k + 1 + 1 = Len(q) => r[k + 1] = q[k + 1 + 1]
        BY <1>1, <3>1
      <4> QED
        BY <3>1, <3>3, <4>1, <4>2
    <3>4. CASE q[k + 1].type = last
      <4>1. k + 1 = Len(q) /\ q[k + 1 - 1].type = "Heads"
        BY <1>1, <3>1, <3>4 DEF Closing
      <4>2. k + 1 - 1 = k /\ q[k].type = "Heads"
        BY <3>1, <4>1
      <4>3. k # 1 /\ k - 1 \in 1 .. Len(q) - 1 /\ r[k - 1] = q[k - 1 + 1] /\ k - 1 + 1 = k
        BY <1>1, <1>3, <3>1, <4>2
      <4> QED
        BY <3>1, <3>4, <4>1, <4>2, <4>3
    <3>5. q[k + 1].type \in {"ApplyProgress", "Heads", last}
      BY <1>1, <3>1 DEF Closing
    <3> QED
      BY <3>2, <3>3, <3>4, <3>5
  <2> QED
    BY <2>1, <2>2, <2>3 DEF Closing
<1>4. ASSUME q[1].type = "Heads" PROVE Single(r, {last})
  <2>1. Len(q) = 1 \/ (Len(q) = 2 /\ q[2].type = last)
    <3>1. 1 = Len(q) \/ (1 + 1 = Len(q) /\ q[1 + 1].type = last)
      BY <1>1, <1>4 DEF Closing
    <3> QED
      BY <3>1
  <2>2. Len(r) <= 1 /\ \A k \in DOMAIN r : r[k] = q[2] /\ Len(q) = 2
    BY <1>1, <2>1
  <2> QED
    BY <2>1, <2>2 DEF Single
<1> QED
  BY <1>1, <1>2, <1>3, <1>4 DEF r

LEMMA TransferTail ==
  ASSUME NEW q \in Seq(Messages), q # <<>>, NEW sizes \in Seq(Nat), NEW n \in Nat, n <= Len(sizes),
         NEW end \in {"Done", "BatchEnd"}, Transfer(q, sizes, n, end)
  PROVE  /\ Head(q).type \in {"Object", end}
         /\ Head(q).type = "Object" =>
              /\ n > 0 /\ sizes # <<>> /\ Head(q).arg = Head(sizes)
              /\ Transfer(Tail(q), Tail(sizes), n - 1, end)
         /\ Head(q).type = end => n = 0 /\ Tail(q) = <<>>
<1> DEFINE r == Tail(q)
           s == Tail(sizes)
<1>1. /\ Len(q) \in Nat \ {0} /\ DOMAIN q = 1 .. Len(q) /\ Head(q) = q[1] /\ 1 \in DOMAIN q
      /\ Len(r) = Len(q) - 1 /\ DOMAIN r = 1 .. Len(q) - 1
      /\ \A k \in 1 .. Len(q) - 1 : r[k] = q[k + 1] /\ k + 1 \in DOMAIN q
      /\ Len(q) <= 1 => r = <<>>
  BY TailIs
<1>2. /\ Len(sizes) \in Nat /\ (Len(sizes) > 0 => sizes # <<>>)
      /\ sizes # <<>> => Head(sizes) = sizes[1] /\ \A k \in 1 .. Len(sizes) - 1 : s[k] = sizes[k + 1]
  BY HeadTailProperties, LenProperties, EmptySeq
<1> HIDE DEF r, s
<1>3. q[1].type \in {"Object", end}
  BY <1>1 DEF Transfer
<1>4. ASSUME q[1].type = "Object"
      PROVE  n > 0 /\ sizes # <<>> /\ q[1].arg = Head(sizes) /\ Transfer(r, s, n - 1, end)
  <2>1. n > 0 /\ q[1].arg = sizes[1]
    BY <1>1, <1>4 DEF Transfer
  <2>2. ASSUME NEW k \in DOMAIN r
        PROVE  \/ k <= n - 1 /\ r[k].type = "Object" /\ r[k].arg = s[k]
               \/ k = n - 1 + 1 /\ k = Len(r) /\ r[k].type = end
    <3>1. k \in 1 .. Len(q) - 1 /\ r[k] = q[k + 1] /\ k + 1 \in DOMAIN q
      BY <1>1
    <3>2. \/ k + 1 <= n /\ q[k + 1].type = "Object" /\ q[k + 1].arg = sizes[k + 1]
          \/ k + 1 = n + 1 /\ k + 1 = Len(q) /\ q[k + 1].type = end
      BY <3>1 DEF Transfer
    <3>3. ASSUME k + 1 <= n PROVE s[k] = sizes[k + 1]
      <4> DEFINE l == Len(sizes)
      <4>1. l \in Nat /\ n \in Nat /\ n <= l /\ k \in Nat /\ k >= 1
        BY <1>1, <1>2, <3>1
      <4> HIDE DEF l
      <4>2. k \in 1 .. l - 1 /\ l > 0
        BY <3>3, <4>1
      <4> QED
        BY <1>2, <4>2 DEF l
    <3> QED
      BY <1>1, <3>1, <3>2, <3>3
  <2> QED
    BY <1>2, <2>1, <2>2 DEF Transfer
<1>5. q[1].type = end => n = 0 /\ Len(q) = 1
  BY <1>1 DEF Transfer
<1> QED
  BY <1>1, <1>3, <1>4, <1>5 DEF r, s

LEMMA ProposalTail ==
  ASSUME NEW q \in Seq(Messages), q # <<>>, Proposal(q)
  PROVE  Head(q).type = "Snapshot" /\ Single(Tail(q), {"Plan"})
<1>1. /\ Len(q) \in Nat \ {0} /\ DOMAIN q = 1 .. Len(q) /\ Head(q) = q[1] /\ 1 \in DOMAIN q
      /\ Len(Tail(q)) = Len(q) - 1 /\ DOMAIN Tail(q) = 1 .. Len(q) - 1
      /\ \A k \in 1 .. Len(q) - 1 : Tail(q)[k] = q[k + 1] /\ k + 1 \in DOMAIN q
  BY TailIs
<1>2. Head(q).type = "Snapshot" /\ Len(Tail(q)) <= 1
  BY <1>1 DEF Proposal
<1>3. ASSUME NEW k \in DOMAIN Tail(q) PROVE Tail(q)[k].type = "Plan"
  BY <1>1 DEF Proposal
<1> QED
  BY <1>2, <1>3 DEF Single

(* The beginning of a queue is of the same shape.                          *)
LEMMA PrefixShapes ==
  ASSUME NEW q \in Seq(Messages), NEW n \in 0 .. Len(q)
  PROVE  LET r == SubSeq(q, 1, n)
         IN  /\ Range(r) \subseteq Range(q) /\ (q = <<>> => r = <<>>)
             /\ r # <<>> => q # <<>> /\ r[1] = q[1]
             /\ \A T : Single(q, T) => Single(r, T)
             /\ \A t, S, T : Stream(q, t, S, T) => Stream(r, t, S, T)
             /\ \A S, last : Closing(q, S, last) => Closing(r, S, last)
             /\ \A sizes, m, end : Transfer(q, sizes, m, end) => Transfer(r, sizes, m, end)
             /\ Proposal(q) => Proposal(r)
<1> DEFINE r == SubSeq(q, 1, n)
<1>0. Len(q) \in Nat /\ n \in Nat /\ n <= Len(q) /\ DOMAIN q = 1 .. Len(q)
  BY LenProperties
<1>1. r \in Seq(Messages) /\ Len(r) = n /\ \A i \in 1 .. n : r[i] = q[i]
  <2>1. \A i \in 1 .. n : q[i] \in Messages
    BY <1>0, ElementOfSeq
  <2>2. n - 1 + 1 = n /\ (IF 1 <= n THEN n - 1 + 1 ELSE 0) = n /\ \A i \in 1 .. n : 1 + i - 1 = i
    BY <1>0
  <2> QED
    BY <1>0, <2>1, <2>2, SubSeqProperties
<1>2. DOMAIN r = 1 .. n
  BY <1>1, LenProperties
<1>3. (r = <<>> <=> n = 0) /\ (q = <<>> <=> Len(q) = 0)
  BY <1>0, <1>1, EmptySeq
<1> HIDE DEF r
<1>4. Range(r) \subseteq Range(q) /\ (q = <<>> => r = <<>>) /\ (r # <<>> => q # <<>> /\ r[1] = q[1])
  BY <1>0, <1>1, <1>2, <1>3 DEF Range
<1>5. ASSUME NEW T, Single(q, T) PROVE Single(r, T)
  BY <1>0, <1>1, <1>2, <1>5 DEF Single
<1>6. ASSUME NEW t, Rising(q, t) PROVE Rising(r, t)
  BY <1>0, <1>1, <1>2, <1>6 DEF Rising
<1>7. ASSUME NEW t, NEW S, NEW T, Stream(q, t, S, T) PROVE Stream(r, t, S, T)
  BY <1>0, <1>1, <1>2, <1>6, <1>7 DEF Stream
<1>8. ASSUME NEW S, NEW last, Closing(q, S, last) PROVE Closing(r, S, last)
  <2>1. Rising(r, "ApplyProgress")
    BY <1>6, <1>8 DEF Closing
  <2>2. ASSUME NEW k \in 1 .. n
        PROVE  \/ r[k].type = "ApplyProgress" /\ r[k].arg \in S
               \/ r[k].type = "Heads" /\ (k = Len(r) \/ (k + 1 = Len(r) /\ r[k + 1].type = last))
               \/ r[k].type = last /\ k = Len(r) /\ k # 1 /\ r[k - 1].type = "Heads"
    <3>1. /\ k \in DOMAIN q /\ r[k] = q[k] /\ (k < n => k + 1 \in 1 .. n /\ r[k + 1] = q[k + 1])
          /\ k # 1 => k - 1 \in 1 .. n /\ r[k - 1] = q[k - 1]
      BY <1>0, <1>1
    <3>2. \/ q[k].type = "ApplyProgress" /\ q[k].arg \in S
          \/ q[k].type = "Heads" /\ (k = Len(q) \/ (k + 1 = Len(q) /\ q[k + 1].type = last))
          \/ q[k].type = last /\ k = Len(q) /\ k # 1 /\ q[k - 1].type = "Heads"
      BY <1>8, <3>1 DEF Closing
    <3>3. (k = Len(q) => k = n) /\ (k + 1 = Len(q) => k = n \/ k + 1 = n)
      <4> DEFINE l == Len(q)
      <4>1. l \in Nat /\ n \in Nat /\ n <= l /\ k \in 1 .. n
        BY <1>0
      <4> HIDE DEF l
      <4>2. (k = l => k = n) /\ (k + 1 = l => k = n \/ k + 1 = n)
        BY <4>1
      <4> QED
        BY <4>2 DEF l
    <3> QED
      BY <1>0, <1>1, <3>1, <3>2, <3>3
  <2> QED
    BY <1>2, <2>1, <2>2 DEF Closing
<1>9. ASSUME NEW sizes, NEW m, NEW end, Transfer(q, sizes, m, end) PROVE Transfer(r, sizes, m, end)
  BY <1>0, <1>1, <1>2, <1>9 DEF Transfer
<1>10. ASSUME Proposal(q) PROVE Proposal(r)
  BY <1>0, <1>1, <1>2, <1>10 DEF Proposal
<1> QED
  BY <1>4, <1>5, <1>7, <1>8, <1>9, <1>10 DEF r

(* Short queues.                                                           *)
LEMMA EmptyShapes ==
  /\ \A T : Single(<<>>, T)
  /\ \A t, S, T : Stream(<<>>, t, S, T)
  /\ \A S, last : Closing(<<>>, S, last)
  /\ \A sizes, n, end : Transfer(<<>>, sizes, n, end)
  /\ Proposal(<<>>) /\ \A T : Only(<<>>, T)
  /\ \A n : Reported(<<>>, n)
  /\ Range(<<>>) = {}
<1>1. Len(<<>>) = 0 /\ DOMAIN <<>> = {} /\ Range(<<>>) = {}
  BY ShortRanges
<1> QED
  BY <1>1 DEF Single, Stream, Closing, Transfer, Proposal, Only, Reported, Rising

LEMMA ShortShapes ==
  /\ \A m, T : m.type \in T => Single(<<m>>, T)
  /\ \A m, T : m.type \in T => Only(<<m>>, T)
  /\ \A a, b : a.type = "Snapshot" /\ b.type = "Plan" =>
       Proposal(<<a, b>>) /\ Only(<<a, b>>, {"Snapshot", "Plan"})
<1>1. \A m, T : m.type \in T => Single(<<m>>, T)
  BY DEF Single
<1>2. \A m, T : m.type \in T => Only(<<m>>, T)
  BY ShortRanges DEF Only
<1>3. \A a, b : a.type = "Snapshot" /\ b.type = "Plan" => Proposal(<<a, b>>)
  BY DEF Proposal
<1>4. \A a, b : a.type = "Snapshot" /\ b.type = "Plan" => Only(<<a, b>>, {"Snapshot", "Plan"})
  BY ShortRanges DEF Only
<1> QED
  BY <1>1, <1>2, <1>3, <1>4

(* Reports are added to reports.                                           *)
LEMMA StreamGrows ==
  ASSUME NEW q \in Seq(Messages), NEW t, NEW a \in Nat, NEW b \in Nat, NEW T, t \notin T,
         NEW n \in Nat, NEW m \in Messages,
         Stream(q, t, a .. b, T), Only(q, {t}), Reported(q, n)
  PROVE  LET r == q \o <<m>>
         IN  /\ r # <<>> /\ (q # <<>> => r[1] = q[1]) /\ (q = <<>> => r[1] = m)
             /\ Range(r) = Range(q) \cup {m}
             /\ m.type = t /\ m.arg \in a .. b /\ n < m.arg =>
                  Stream(r, t, a .. b, T) /\ Only(r, {t}) /\ Reported(r, m.arg)
             /\ m.type \in T => Stream(r, t, a .. b, T)
<1> DEFINE r == q \o <<m>>
           l == Len(q)
<1>1. /\ l \in Nat /\ DOMAIN q = 1 .. l /\ r \in Seq(Messages) /\ DOMAIN r = 1 .. l + 1
      /\ Len(r) = l + 1 /\ (\A k \in 1 .. l : r[k] = q[k]) /\ r[l + 1] = m
      /\ Range(r) = Range(q) \cup {m} /\ (q = <<>> <=> l = 0)
  <2>1. <<m>> \in Seq(Messages) /\ Len(<<m>>) = 1 /\ <<m>>[1] = m /\ Range(<<m>>) = {m}
    BY Short, ShortRanges
  <2>2. l \in Nat /\ DOMAIN q = 1 .. l /\ (q = <<>> <=> l = 0)
    BY LenProperties, EmptySeq
  <2>3. /\ r \in Seq(Messages) /\ Len(r) = l + 1
        /\ \A k \in 1 .. l + 1 : r[k] = IF k <= l THEN q[k] ELSE <<m>>[k - l]
    BY <2>1, ConcatProperties
  <2>4. Range(r) = Range(q) \cup {m}
    BY <2>1, Longer
  <2> HIDE DEF r, l
  <2>5. DOMAIN r = 1 .. l + 1
    BY <2>3, LenProperties
  <2>6. (\A k \in 1 .. l : r[k] = q[k]) /\ r[l + 1] = m
    BY <2>1, <2>2, <2>3
  <2> QED
    BY <2>2, <2>3, <2>4, <2>5, <2>6
<1>2. r # <<>>
  BY <1>1, EmptySeq
<1> HIDE DEF r, l
<1>3. (q # <<>> => r[1] = q[1]) /\ (q = <<>> => r[1] = m)
  BY <1>1
<1>4. \A k \in 1 .. l : q[k].type = t /\ q[k].arg \in a .. b /\ q[k].arg <= n
  BY <1>1 DEF Only, Reported, Range, Stream
<1>5. ASSUME m.type = t, m.arg \in a .. b, n < m.arg
      PROVE  Stream(r, t, a .. b, T) /\ Only(r, {t}) /\ Reported(r, m.arg)
  <2>1. Rising(r, t)
    <3> SUFFICES ASSUME NEW j \in 1 .. l + 1, NEW k \in 1 .. l + 1, j < k PROVE r[j].arg < r[k].arg
      BY <1>1 DEF Rising
    <3>1. CASE k = l + 1
      <4>1. j \in 1 .. l /\ r[j] = q[j] /\ r[k] = m
        BY <1>1, <3>1
      <4> QED
        BY <1>4, <1>5, <4>1
    <3>2. CASE k # l + 1
      <4>1. j \in 1 .. l /\ k \in 1 .. l /\ r[j] = q[j] /\ r[k] = q[k]
        BY <1>1, <3>2
      <4> QED
        BY <1>1, <1>4, <4>1 DEF Stream, Rising
    <3> QED
      BY <3>1, <3>2
  <2>2. ASSUME NEW k \in 1 .. l + 1 PROVE r[k].type = t /\ r[k].arg \in a .. b
    <3>1. CASE k = l + 1
      BY <1>1, <1>5, <3>1
    <3>2. CASE k # l + 1
      <4>1. k \in 1 .. l /\ r[k] = q[k]
        BY <1>1, <3>2
      <4> QED
        BY <1>4, <4>1
    <3> QED
      BY <3>1, <3>2
  <2>3. ASSUME NEW x \in Range(q) PROVE x.arg <= m.arg /\ x.type = t
    <3>1. PICK k \in 1 .. l : x = q[k]
      BY <1>1 DEF Range
    <3> QED
      BY <1>4, <1>5, <3>1
  <2>4. m.arg <= m.arg
    BY <1>5
  <2>5. Only(r, {t}) /\ Reported(r, m.arg)
    BY <1>1, <1>5, <2>3, <2>4 DEF Only, Reported
  <2> QED
    BY <1>1, <2>1, <2>2, <2>5 DEF Stream
<1>6. ASSUME m.type \in T PROVE Stream(r, t, a .. b, T)
  <2>1. Rising(r, t)
    <3> SUFFICES ASSUME NEW j \in 1 .. l + 1, NEW k \in 1 .. l + 1, j < k, r[k].type = t
                 PROVE  r[j].arg < r[k].arg
      BY <1>1 DEF Rising
    <3>1. j \in 1 .. l /\ k \in 1 .. l /\ r[j] = q[j] /\ r[k] = q[k]
      BY <1>1, <1>6
    <3> QED
      BY <1>1, <1>4, <3>1 DEF Stream, Rising
  <2>2. ASSUME NEW k \in 1 .. l + 1
        PROVE  (r[k].type = t /\ r[k].arg \in a .. b) \/ (r[k].type \in T /\ k = Len(r))
    <3>1. CASE k = l + 1
      BY <1>1, <1>6, <3>1
    <3>2. CASE k # l + 1
      <4>1. k \in 1 .. l /\ r[k] = q[k]
        BY <1>1, <3>2
      <4> QED
        BY <1>4, <4>1
    <3> QED
      BY <3>1, <3>2
  <2> QED
    BY <1>1, <2>1, <2>2 DEF Stream
<1> QED
  BY <1>1, <1>2, <1>3, <1>5, <1>6 DEF r

LEMMA StreamIsClosing ==
  ASSUME NEW q \in Seq(Messages), Only(q, {"ApplyProgress"}), NEW S, NEW T,
         "ApplyProgress" \notin T, NEW last \in {"Applied", "CommitAck"}
  PROVE  Stream(q, "ApplyProgress", S, T) <=> Closing(q, S, last)
<1>1. \A k \in DOMAIN q : q[k].type = "ApplyProgress"
  BY DEF Only, Range
<1>2. last # "ApplyProgress" /\ "Heads" # "ApplyProgress"
  OBVIOUS
<1>3. ASSUME Stream(q, "ApplyProgress", S, T) PROVE Closing(q, S, last)
  <2>1. \A k \in DOMAIN q : q[k].type = "ApplyProgress" /\ q[k].arg \in S
    BY <1>1, <1>3 DEF Stream
  <2> QED
    BY <1>3, <2>1 DEF Stream, Closing
<1>4. ASSUME Closing(q, S, last) PROVE Stream(q, "ApplyProgress", S, T)
  <2>1. \A k \in DOMAIN q : q[k].type = "ApplyProgress" /\ q[k].arg \in S
    BY <1>1, <1>2, <1>4 DEF Closing
  <2> QED
    BY <1>4, <2>1 DEF Stream, Closing
<1> QED
  BY <1>3, <1>4

LEMMA ClosingEnds ==
  ASSUME NEW q \in Seq(Messages), NEW S, NEW last \in {"Applied", "CommitAck"},
         Closing(q, S, last), Only(q, {"ApplyProgress"}),
         NEW h \in Messages, h.type = "Heads", NEW z \in Messages, z.type = last
  PROVE  Closing(q \o <<h, z>>, S, last)
<1> DEFINE m == <<h, z>>
           r == q \o m
           l == Len(q)
<1>1. /\ l \in Nat /\ DOMAIN q = 1 .. l /\ r \in Seq(Messages) /\ DOMAIN r = 1 .. l + 2
      /\ Len(r) = l + 2 /\ (\A k \in 1 .. l : r[k] = q[k]) /\ r[l + 1] = h /\ r[l + 2] = z
  <2>1. m \in Seq(Messages) /\ Len(m) = 2 /\ m[1] = h /\ m[2] = z
    <3>1. m \in Seq(Messages)
      BY Short
    <3>2. Len(m) = 2 /\ m[1] = h /\ m[2] = z
      OBVIOUS
    <3> QED
      BY <3>1, <3>2
  <2>2. l \in Nat /\ DOMAIN q = 1 .. l
    BY LenProperties
  <2> HIDE DEF m
  <2>3. /\ r \in Seq(Messages) /\ Len(r) = l + 2
        /\ \A k \in 1 .. l + 2 : r[k] = IF k <= l THEN q[k] ELSE m[k - l]
    <3>1. /\ q \o m \in Seq(Messages) /\ Len(q \o m) = Len(q) + Len(m)
          /\ \A k \in 1 .. Len(q) + Len(m) :
               (q \o m)[k] = IF k <= Len(q) THEN q[k] ELSE m[k - Len(q)]
      BY <2>1, ConcatProperties
    <3> QED
      BY <2>1, <3>1
  <2> HIDE DEF r, l
  <2>4. DOMAIN r = 1 .. l + 2
    BY <2>3, LenProperties
  <2>5. (\A k \in 1 .. l : r[k] = q[k]) /\ r[l + 1] = m[1] /\ r[l + 2] = m[2]
    <3>1. l + 1 \in 1 .. l + 2 /\ l + 2 \in 1 .. l + 2 /\ l + 1 - l = 1 /\ l + 2 - l = 2
      BY <2>2
    <3> QED
      BY <2>2, <2>3, <3>1
  <2> QED
    BY <2>1, <2>2, <2>3, <2>4, <2>5
<1> HIDE DEF r, l
<1>2. \A k \in 1 .. l : q[k].type = "ApplyProgress" /\ q[k].arg \in S
  BY <1>1 DEF Only, Range, Closing
<1>3. Rising(r, "ApplyProgress")
  <2> SUFFICES ASSUME NEW j \in 1 .. l + 2, NEW k \in 1 .. l + 2, j < k,
                      r[k].type = "ApplyProgress"
               PROVE  r[j].arg < r[k].arg
    BY <1>1 DEF Rising
  <2>1. k # l + 1 /\ k # l + 2
    BY <1>1
  <2>2. j \in 1 .. l /\ k \in 1 .. l /\ r[j] = q[j] /\ r[k] = q[k]
    BY <1>1, <2>1
  <2> QED
    BY <1>1, <1>2, <2>2 DEF Closing, Rising
<1>4. ASSUME NEW k \in 1 .. l + 2
      PROVE  \/ r[k].type = "ApplyProgress" /\ r[k].arg \in S
             \/ r[k].type = "Heads" /\ (k = Len(r) \/ (k + 1 = Len(r) /\ r[k + 1].type = last))
             \/ r[k].type = last /\ k = Len(r) /\ k # 1 /\ r[k - 1].type = "Heads"
  <2>1. CASE k = l + 1
    <3>1. k + 1 = l + 2
      BY <1>1, <2>1
    <3> QED
      BY <1>1, <2>1, <3>1
  <2>2. CASE k = l + 2
    <3>1. k - 1 = l + 1 /\ k # 1
      BY <1>1, <2>2
    <3> QED
      BY <1>1, <2>2, <3>1
  <2>3. CASE k # l + 1 /\ k # l + 2
    <3>1. k \in 1 .. l /\ r[k] = q[k]
      BY <1>1, <2>3
    <3> QED
      BY <1>2, <3>1
  <2> QED
    BY <2>1, <2>2, <2>3
<1> QED
  BY <1>1, <1>3, <1>4 DEF r, Closing

LEMMA Joined ==
  ASSUME NEW q \in Seq(Messages), NEW m \in Seq(Messages)
  PROVE  /\ q \o m \in Seq(Messages) /\ Len(q \o m) = Len(q) + Len(m)
         /\ \A i \in 1 .. Len(q) + Len(m) :
              (q \o m)[i] = IF i <= Len(q) THEN q[i] ELSE m[i - Len(q)]
BY ConcatProperties

(* The objects of a list, and the end of it.                               *)
LEMMA ListFits ==
  ASSUME NEW sizes \in Seq(Nat), NEW n \in Nat, NEW end, NEW f \in Seq(Messages), Len(f) = n,
         n <= Len(sizes), Message(end) \in Messages,
         \A k \in 1 .. n : f[k].type = "Object" /\ f[k].arg = sizes[k]
  PROVE  Transfer(f \o <<Message(end)>>, sizes, n, end)
<1> DEFINE g == <<Message(end)>>
           q == f \o g
<1>1. g \in Seq(Messages) /\ Len(g) = 1 /\ g[1].type = end
  <2>1. g \in Seq(Messages)
    BY Short
  <2> QED
    BY <2>1 DEF Message
<1> HIDE DEF g
<1>2. /\ q \in Seq(Messages) /\ Len(q) = n + 1
      /\ \A k \in 1 .. n + 1 : q[k] = IF k <= n THEN f[k] ELSE g[k - n]
  <2>1. /\ f \o g \in Seq(Messages) /\ Len(f \o g) = Len(f) + Len(g)
        /\ \A k \in 1 .. Len(f) + Len(g) :
             (f \o g)[k] = IF k <= Len(f) THEN f[k] ELSE g[k - Len(f)]
    BY <1>1, Joined
  <2>2. Len(f) = n /\ Len(f) + Len(g) = n + 1
    BY <1>1
  <2>3. f \o g = q
    BY DEF q
  <2> HIDE DEF q
  <2>4. /\ q \in Seq(Messages) /\ Len(q) = Len(f) + Len(g)
        /\ \A k \in 1 .. Len(f) + Len(g) : q[k] = IF k <= Len(f) THEN f[k] ELSE g[k - Len(f)]
    BY <2>1, <2>3, Zenon
  <2> QED
    BY <2>2, <2>4
<1> HIDE DEF q
<1>3. DOMAIN q = 1 .. n + 1
  BY <1>2, LenProperties
<1>4. ASSUME NEW k \in 1 .. n + 1
      PROVE  \/ k <= n /\ q[k].type = "Object" /\ q[k].arg = sizes[k]
             \/ k = n + 1 /\ k = Len(q) /\ q[k].type = end
  <2>1. CASE k <= n
    <3>1. k \in 1 .. n /\ q[k] = f[k]
      BY <1>2, <2>1
    <3> QED
      BY <2>1, <3>1
  <2>2. CASE ~(k <= n)
    <3>1. k = n + 1 /\ k - n = 1
      BY <2>2
    <3>2. q[k] = g[1]
      BY <1>2, <2>2, <3>1
    <3> QED
      BY <1>1, <1>2, <3>1, <3>2
  <2> QED
    BY <2>1, <2>2
<1> QED
  BY <1>3, <1>4 DEF Transfer, q, g

(* The answer to a request for objects is what is asked for.               *)
LEMMA AnswerFits ==
  ASSUME NEW sizes \in Seq(Nat)
  PROVE  Transfer([k \in DOMAIN sizes |-> MessageOf("Object", sizes[k])] \o <<Message("Done")>>,
                  sizes, Len(sizes), "Done")
<1> DEFINE f == [k \in DOMAIN sizes |-> MessageOf("Object", sizes[k])]
           n == Len(sizes)
<1>0. n \in Nat /\ sizes \in [1 .. n -> Nat] /\ DOMAIN sizes = 1 .. n
  BY LenProperties
<1>1. f \in [1 .. n -> Messages]
      /\ \A k \in 1 .. n : f[k].type = "Object" /\ f[k].arg = sizes[k]
  BY <1>0, MessagesAre DEF MessageOf
<1>2. f \in Seq(Messages) /\ Len(f) = n
  <2> HIDE DEF f, n
  <2>1. f \in Seq(Messages) /\ DOMAIN f = 1 .. n
    BY <1>0, <1>1, SeqDef
  <2> QED
    BY <1>0, <2>1, LenProperties
<1>3. Message("Done") \in Messages /\ n <= n
  BY <1>0, MessagesAre DEF Signals
<1> HIDE DEF f
<1>4. Transfer(f \o <<Message("Done")>>, sizes, n, "Done")
  BY <1>0, <1>1, <1>2, <1>3, ListFits
<1> QED
  BY <1>4 DEF f

(* A batch is what its reader still waits for, up to the end of the batch. *)
LEMMA BatchFits ==
  ASSUME NEW sizes \in Seq(Nat), NEW n \in Nat, n < Len(sizes), NEW w \in Seq(Nat),
         Len(w) = Len(sizes) - n, \A k \in DOMAIN w : w[k] = sizes[n + k]
  PROVE  Transfer(Batch(sizes, n), w, BatchEnd(sizes, n) - n, "BatchEnd")
<1> DEFINE b == BatchEnd(sizes, n)
           c == b - n
           f == [k \in 1 .. c |-> MessageOf("Object", sizes[n + k])]
<1>0. Len(sizes) \in Nat /\ sizes \in [1 .. Len(sizes) -> Nat] /\ DOMAIN w = 1 .. Len(w)
  BY LenProperties
<1>1. b \in n + 1 .. Len(sizes)
  BY BatchEnds
<1>2. Batch(sizes, n) = f \o <<Message("BatchEnd")>>
  <2>1. n # Len(sizes)
    BY <1>0
  <2> QED
    BY <2>1 DEF Batch
<1> HIDE DEF b
<1>3. c \in Nat /\ c <= Len(w) /\ \A k \in 1 .. c : n + k \in 1 .. Len(sizes) /\ k \in DOMAIN w
  BY <1>0, <1>1
<1>4. /\ f \in [1 .. c -> Messages]
      /\ \A k \in 1 .. c : f[k].type = "Object" /\ f[k].arg = w[k]
  BY <1>0, <1>3, MessagesAre DEF MessageOf
<1>5. f \in Seq(Messages) /\ Len(f) = c
  <2> HIDE DEF f, c
  <2>0. c \in Nat /\ f \in [1 .. c -> Messages]
    BY <1>3, <1>4
  <2>1. f \in Seq(Messages)
    BY <2>0, SeqDef
  <2>2. DOMAIN f = 1 .. c
    BY <2>0
  <2> QED
    BY <1>3, <2>1, <2>2, LenProperties
<1>6. Message("BatchEnd") \in Messages
  BY MessagesAre DEF Signals
<1> HIDE DEF f, c
<1>7. Transfer(f \o <<Message("BatchEnd")>>, w, c, "BatchEnd")
  BY <1>3, <1>4, <1>5, <1>6, ListFits
<1> QED
  BY <1>2, <1>7 DEF c, b

(* The bytes of a list, object by object.                                  *)
LEMMA BytesGrow ==
  ASSUME NEW s \in Seq(Nat)
  PROVE  /\ Bytes(SubSeq(s, 1, 0)) = 0
         /\ \A n \in 0 .. Len(s) - 1 :
              Bytes(SubSeq(s, 1, n + 1)) = Bytes(SubSeq(s, 1, n)) + s[n + 1]
<1>0. Len(s) \in Nat /\ \A i \in 1 .. Len(s) : s[i] \in Nat
  BY LenProperties, ElementOfSeq
<1> DEFINE B(k) == {k} \X (1 .. s[k])
           U(n) == UNION {B(k) : k \in 1 .. n}
<1>1. ASSUME NEW n \in 0 .. Len(s)
      PROVE  Bytes(SubSeq(s, 1, n)) = Cardinality(U(n))
  <2> DEFINE p == SubSeq(s, 1, n)
  <2>1. \A i \in 1 .. n : s[1 + i - 1] \in Nat /\ s[1 + i - 1] = s[i]
    BY <1>0
  <2>2. p \in Seq(Nat) /\ Len(p) = n /\ \A i \in 1 .. n : p[i] = s[i]
    <3>1. n - 1 + 1 = n /\ (IF 1 <= n THEN n - 1 + 1 ELSE 0) = n /\ n \in Int
      BY <1>0
    <3>2. \A i \in 1 .. n : s[i] \in Nat
      BY <1>0
    <3> QED
      BY <1>0, <2>1, <3>1, <3>2, SubSeqProperties
  <2> HIDE DEF p
  <2>3. DOMAIN p = 1 .. n
    BY <2>2, LenProperties
  <2>4. {{k} \X (1 .. p[k]) : k \in DOMAIN p} = {B(k) : k \in 1 .. n}
    BY <2>2, <2>3
  <2>5. Bytes(p) = Cardinality(U(n))
    BY <2>4 DEF Bytes
  <2> QED
    BY <2>5 DEF p
<1>2. ASSUME NEW k \in 1 .. Len(s)
      PROVE  IsFiniteSet(B(k)) /\ Cardinality(B(k)) = s[k]
  <2>1. s[k] \in Nat /\ k \in Int
    BY <1>0
  <2>2. IsFiniteSet({k}) /\ Cardinality({k}) = 1
    BY FS_Singleton
  <2>3. IsFiniteSet(1 .. s[k]) /\ Cardinality(1 .. s[k]) = s[k]
    <3> DEFINE x == s[k]
    <3> HIDE DEF x
    <3>1. x \in Nat => IsFiniteSet(1 .. x) /\ Cardinality(1 .. x) = x
      BY FS_Interval
    <3> QED
      BY <2>1, <3>1 DEF x
  <2>4. IsFiniteSet({k} \X (1 .. s[k])) /\ Cardinality({k} \X (1 .. s[k])) = 1 * s[k]
    BY <2>2, <2>3, FS_Product
  <2> QED
    BY <2>1, <2>4
<1>3. ASSUME NEW n \in 0 .. Len(s) PROVE IsFiniteSet(U(n))
  <2> DEFINE F == {B(k) : k \in 1 .. n}
  <2>1. IsFiniteSet(1 .. n)
    BY <1>0, FS_Interval
  <2>2. IsFiniteSet(F)
    <3> DEFINE f == [k \in 1 .. n |-> B(k)]
    <3>1. f \in Surjection(1 .. n, F)
      <4>1. f \in [1 .. n -> F]
        OBVIOUS
      <4>2. \A T \in F : \E k \in 1 .. n : f[k] = T
        OBVIOUS
      <4> HIDE DEF f, F
      <4> QED
        BY <4>1, <4>2 DEF Surjection
    <3> HIDE DEF f, F
    <3> QED
      BY <2>1, <3>1, FS_Surjection
  <2>3. \A T \in F : IsFiniteSet(T)
    <3>1. ASSUME NEW k \in 1 .. n PROVE IsFiniteSet(B(k))
      <4>1. k \in 1 .. Len(s)
        BY <1>0
      <4> QED
        BY <1>2, <4>1
    <3> HIDE DEF B
    <3> QED
      BY <3>1
  <2> QED
    BY <2>2, <2>3, FS_UNION
<1>4. Cardinality(U(0)) = 0
  <2>1. U(0) = {}
    OBVIOUS
  <2> QED
    BY <2>1, FS_EmptySet
<1>5. ASSUME NEW n \in 0 .. Len(s) - 1
      PROVE  Cardinality(U(n + 1)) = Cardinality(U(n)) + s[n + 1]
  <2>1. n + 1 \in 1 .. Len(s) /\ n + 1 \in 0 .. Len(s) /\ n \in 0 .. Len(s)
    BY <1>0
  <2>2. 1 .. n + 1 = (1 .. n) \cup {n + 1}
    BY <1>0
  <2>3. U(n + 1) = U(n) \cup B(n + 1)
    BY <2>2
  <2>4. U(n) \cap B(n + 1) = {}
    BY <1>0
  <2>5. /\ IsFiniteSet(U(n)) /\ IsFiniteSet(B(n + 1)) /\ Cardinality(B(n + 1)) = s[n + 1]
        /\ Cardinality(U(n)) \in Nat /\ s[n + 1] \in Nat
    BY <1>0, <1>2, <1>3, <2>1, FS_CardinalityType
  <2> DEFINE X == U(n)
             Y == B(n + 1)
  <2>6. Cardinality(X \cup Y) = Cardinality(X) + Cardinality(Y) - Cardinality(X \cap Y)
    <3> HIDE DEF X, Y
    <3>1. IsFiniteSet(X) /\ IsFiniteSet(Y)
      BY <2>5 DEF X, Y
    <3> QED
      BY <3>1, FS_Union
  <2>7. Cardinality({}) = 0
    BY FS_EmptySet
  <2>8. Cardinality(X \cap Y) = 0
    BY <2>4, <2>7
  <2>9. Cardinality(X) \in Nat /\ Cardinality(Y) = s[n + 1] /\ s[n + 1] \in Nat
    BY <2>5
  <2>10. Cardinality(U(n + 1)) = Cardinality(X \cup Y)
    BY <2>3
  <2> HIDE DEF U, B, X, Y
  <2>11. Cardinality(U(n + 1)) = Cardinality(X) + s[n + 1]
    BY <2>6, <2>8, <2>9, <2>10
  <2> QED
    BY <2>11 DEF X
<1> HIDE DEF U, B
<1>6. 0 \in 0 .. Len(s)
  BY <1>0
<1>7. ASSUME NEW n \in 0 .. Len(s) - 1
      PROVE  Bytes(SubSeq(s, 1, n + 1)) = Bytes(SubSeq(s, 1, n)) + s[n + 1]
  <2>1. n + 1 \in 0 .. Len(s) /\ n \in 0 .. Len(s)
    BY <1>0
  <2>2. Bytes(SubSeq(s, 1, n + 1)) = Cardinality(U(n + 1)) /\ Bytes(SubSeq(s, 1, n)) = Cardinality(U(n))
    BY <1>1, <2>1
  <2> QED
    BY <1>5, <2>2
<1>8. Bytes(SubSeq(s, 1, 0)) = 0
  BY <1>1, <1>4, <1>6
<1> QED
  BY <1>7, <1>8

(* One report is a stream.                                                 *)
LEMMA FirstReport ==
  ASSUME NEW m, NEW t, NEW S, NEW T, m.type = t, m.arg \in S
  PROVE  Stream(<<m>>, t, S, T) /\ Only(<<m>>, {t}) /\ Range(<<m>>) = {m}
<1>1. DOMAIN <<m>> = 1 .. 1 /\ <<m>>[1] = m /\ Len(<<m>>) = 1
  OBVIOUS
<1>2. Range(<<m>>) = {m}
  BY ShortRanges
<1> QED
  BY <1>1, <1>2 DEF Stream, Rising, Only

LEMMA NumbersTyped ==
  ASSUME TypeOK
  PROVE  /\ heard[C] \in Nat \cup {None} /\ heard[R] \in Nat \cup {None}
         /\ told[C] \in Nat /\ told[R] \in Nat
         /\ wanted[C] \in Seq(Nat) /\ wanted[R] \in Seq(Nat)
         /\ MaxReports \in Nat /\ Records \in Nat
         /\ (IF heard[C] = None THEN 0 ELSE heard[C] + 1) \in Nat
<1>1. /\ heard[C] \in Nat \cup {None} /\ heard[R] \in Nat \cup {None}
      /\ told[C] \in Nat /\ told[R] \in Nat
      /\ wanted[C] \in Seq(Nat) /\ wanted[R] \in Seq(Nat)
  BY EndsAre DEF TypeOK, TransfersTyped
<1>2. MaxReports \in Nat /\ Records \in Nat
  BY OneShotConstants
<1>3. (IF heard[C] = None THEN 0 ELSE heard[C] + 1) \in Nat
  BY <1>1
<1> QED
  BY <1>1, <1>2, <1>3

(* What each end keeps in a step of the other.                             *)
ResponderStays ==
  /\ at'[R] = at[R] /\ serving' = serving /\ batch' = batch /\ wanted'[R] = wanted[R]
  /\ heard'[R] = heard[R] /\ told'[R] = told[R] /\ plan'[R] = plan[R] /\ stored'[R] = stored[R]

ConnectorStays ==
  /\ at'[C] = at[C] /\ giving' = giving /\ wanted'[C] = wanted[C]
  /\ heard'[C] = heard[C] /\ told'[C] = told[C]

LEMMA ResponderKept ==
  ASSUME ResponderStays
  PROVE  /\ Where' = Where /\ Flags = Flags' /\ Gathered = Gathered' /\ HeadsKept = HeadsKept'
         /\ Queue(R)' = Queue(R) => ResponderFits(Queue(R))' = ResponderFits(Queue(R))
         /\ Where = "leaving" => ResponderFits(Queue(R))'
<1>1. Where' = Where
  BY DEF ResponderStays, Where
<1>2. Flags = Flags' /\ Gathered = Gathered' /\ HeadsKept = HeadsKept'
  BY DEF ResponderStays, Flags, Gathered, HeadsKept
<1>3. Missing' = Missing /\ Left(R)' = Left(R)
  BY DEF ResponderStays, Missing, Left
<1>4. ASSUME Queue(R)' = Queue(R) PROVE ResponderFits(Queue(R))' = ResponderFits(Queue(R))
  BY <1>1, <1>3, <1>4 DEF ResponderStays, ResponderFits
<1>5. Where = "leaving" => ResponderFits(Queue(R))'
  BY <1>1 DEF ResponderFits
<1> QED
  BY <1>1, <1>2, <1>4, <1>5

LEMMA ConnectorKept ==
  ASSUME ConnectorStays, Queue(C)' = Queue(C)
  PROVE  ConnectorFits(Queue(C))' = ConnectorFits(Queue(C))
<1>1. Unheard' = Unheard /\ Left(C)' = Left(C)
  BY DEF ConnectorStays, Unheard, Left
<1> QED
  BY <1>1 DEF ConnectorStays, ConnectorFits

(* A message is taken and answered, or something is said.                  *)
LEMMA Taken ==
  ASSUME PipesTyped, NEW e \in Ends, NEW t, Gets(e, t), NEW msgs \in Seq(Messages), Reply(e, msgs)
  PROVE  LET q == Queue(e)
             o == Other(e)
         IN  /\ q \in Seq(Messages) /\ q # <<>> /\ Queue(e)' = Tail(q)
             /\ Head(q).type = t /\ Head(q).arg = Arg(e) /\ Head(q) \in Messages /\ q[1] = Head(q)
             /\ Head(q) \in Range(q) /\ Range(Tail(q)) \subseteq Range(q) /\ Tail(q) \in Seq(Messages)
             /\ (e = C => ConnectorTakes(Head(q))) /\ (e = R => ResponderTakes(Head(q)))
             /\ Queue(o) \in Seq(Messages) /\ open' = open
             /\ open => Queue(o)' = Queue(o) \o msgs
             /\ ~open \/ msgs = <<>> => Queue(o)' = Queue(o)
<1> DEFINE q == Queue(e)
           o == Other(e)
<1>1. /\ q \in Seq(Messages) /\ q # <<>> /\ Head(q) = Head(wire[e]) /\ Queue(e)' = Tail(q)
      /\ Queue(o)' = (IF open THEN Queue(o) \o msgs ELSE Queue(o)) /\ open' = open
  BY Handled DEF Gets
<1>2. Queue(o) \in Seq(Messages)
  BY QueueTyped, EndsAre
<1>3. msgs = <<>> => Queue(o) \o msgs = Queue(o)
  BY <1>2, ConcatEmptySeq
<1>4. Head(wire[e]) \in Messages
  BY Received
<1>5. /\ Head(wire[e]).type = t /\ Head(wire[e]).arg = Arg(e)
      /\ (e = C => ConnectorTakes(Head(wire[e]))) /\ (e = R => ResponderTakes(Head(wire[e])))
  BY EndsAre DEF Gets, Arg, Takes
<1> HIDE DEF q, o
<1>6. Head(q) \in Range(q) /\ Range(Tail(q)) \subseteq Range(q) /\ q[1] = Head(q)
      /\ Tail(q) \in Seq(Messages)
  BY <1>1, TailOf, TailIs
<1>7. /\ open => Queue(o)' = Queue(o) \o msgs
      /\ ~open \/ msgs = <<>> => Queue(o)' = Queue(o)
  BY <1>1, <1>3
<1>8. /\ q \in Seq(Messages) /\ q # <<>> /\ Queue(e)' = Tail(q)
      /\ Head(q).type = t /\ Head(q).arg = Arg(e) /\ Head(q) \in Messages
      /\ (e = C => ConnectorTakes(Head(q))) /\ (e = R => ResponderTakes(Head(q)))
      /\ open' = open
  BY <1>1, <1>4, <1>5
<1> QED
  BY <1>2, <1>6, <1>7, <1>8 DEF q, o

LEMMA Said ==
  ASSUME PipesTyped, NEW e \in Ends, NEW msgs \in Seq(Messages), Say(e, msgs)
  PROVE  LET o == Other(e)
         IN  /\ Queue(e)' = Queue(e) /\ Queue(e) \in Seq(Messages) /\ Queue(o) \in Seq(Messages)
             /\ open' = open
             /\ open => Queue(o)' = Queue(o) \o msgs
             /\ ~open \/ msgs = <<>> => Queue(o)' = Queue(o)
<1> DEFINE o == Other(e)
<1>1. /\ Queue(e)' = Queue(e) /\ Queue(e) \in Seq(Messages)
      /\ Queue(o)' = (IF open THEN Queue(o) \o msgs ELSE Queue(o)) /\ open' = open
  BY Written
<1>2. Queue(o) \in Seq(Messages)
  BY QueueTyped, EndsAre
<1> HIDE DEF o
<1>3. msgs = <<>> => Queue(o) \o msgs = Queue(o)
  BY <1>2, ConcatEmptySeq
<1> QED
  BY <1>1, <1>2, <1>3 DEF o

(* The other end's side of a step, if it is there to be told.              *)
LEMMA ConnectorMoves ==
  ASSUME Polite, ResponderStays, open' = open,
         ConnectorFits(Queue(C))', ~open => Queue(R)' = Queue(R),
         open /\ Where # "leaving" =>
           ResponderFits(Queue(R))' /\ Paired(Queue(C), Queue(R))'
  PROVE  Polite'
<1>1. Flags' /\ Gathered' /\ HeadsKept'
  BY ResponderKept DEF Polite
<1>2. ResponderFits(Queue(R))'
  BY ResponderKept DEF Polite
<1>3. Where = "leaving" => Paired(Queue(C), Queue(R))'
  BY ResponderKept DEF Paired
<1> QED
  BY <1>1, <1>2, <1>3 DEF Polite

LEMMA ResponderMoves ==
  ASSUME Polite, ConnectorStays, open' = open,
         ResponderFits(Queue(R))', Flags', Gathered', HeadsKept',
         ~open => Queue(C)' = Queue(C),
         open => ConnectorFits(Queue(C))',
         open /\ Where' # "leaving" => Paired(Queue(C), Queue(R))'
  PROVE  Polite'
<1>1. ConnectorFits(Queue(C))'
  BY ConnectorKept DEF Polite
<1>2. Where' = "leaving" => Paired(Queue(C), Queue(R))'
  BY DEF Paired
<1> QED
  BY <1>1, <1>2 DEF Polite

----------------------------------------------------------------------------
(* The connector's steps.                                                  *)

LEMMA ConnectorScansPolite ==
  ASSUME TypeOK, Polite, ConnectorScans
  PROVE  Polite'
<1> DEFINE q == Queue(C)
           r == Queue(R)
           m == Message("ScanRequest")
<1>1. <<m>> \in Seq(Messages) /\ m.type = "ScanRequest"
  BY Short, MessagesAre DEF Signals, Message
<1>2. Gets(C, "Reserved") /\ Reply(C, <<m>>) /\ at[C] = "opening"
  BY DEF ConnectorScans
<1> HIDE DEF m
<1>3. /\ q \in Seq(Messages) /\ q # <<>> /\ Queue(C)' = Tail(q) /\ open' = open
      /\ Head(q).type = "Reserved"
      /\ r \in Seq(Messages) /\ (open => Queue(R)' = r \o <<m>>) /\ (~open => Queue(R)' = r)
  BY <1>1, <1>2, Taken, EndsAre DEF TypeOK
<1>4. at'[C] = "scanning" /\ heard' = heard /\ ResponderStays
  BY EndsAre DEF ConnectorScans, Go, Scan, DryRun, ConnectorRest, ResponderStays, disk, user, work, objects, TypeOK,
       PlacesTyped, DirectoriesTyped
<1>5. ConnectorFits(q) /\ (open => Paired(q, r))
  BY DEF Polite
<1> HIDE DEF q, r
<1>6. Queue(C)' = <<>> /\ heard'[C] = None
  BY <1>2, <1>3, <1>4, <1>5, SingleTail DEF ConnectorFits
<1>7. ConnectorFits(Queue(C))'
  BY <1>4, <1>6, EmptyShapes DEF ConnectorFits
<1>8. ASSUME open, Where # "leaving" PROVE ResponderFits(Queue(R))' /\ Paired(Queue(C), Queue(R))'
  <2>1. Where = "waiting" /\ r = <<>>
    BY <1>2, <1>3, <1>5, <1>8 DEF Paired
  <2>2. Where' = "waiting" /\ Queue(R)' = <<m>>
    BY <1>1, <1>3, <1>4, <1>8, <2>1, ResponderKept, ConcatEmptySeq
  <2>3. Single(<<m>>, {"ScanRequest"})
    BY <1>1, ShortShapes
  <2> QED
    BY <1>4, <1>6, <2>2, <2>3 DEF ResponderFits, Paired
<1> QED
  BY <1>3, <1>4, <1>7, <1>8, ConnectorMoves DEF r

LEMMA HearScanPolite ==
  ASSUME TypeOK, Polite, HearScan
  PROVE  Polite'
<1> DEFINE q == Queue(C)
           r == Queue(R)
           n == Arg(C)
<1>1. <<>> \in Seq(Messages)
  BY Short
<1>2. Gets(C, "ScanProgress") /\ Reply(C, <<>>) /\ at[C] = "scanning"
  BY DEF HearScan, Consume
<1>3. /\ q \in Seq(Messages) /\ q # <<>> /\ Queue(C)' = Tail(q) /\ open' = open
      /\ Head(q).type = "ScanProgress" /\ Head(q).arg = n /\ Head(q) \in Range(q)
      /\ Range(Tail(q)) \subseteq Range(q) /\ ConnectorTakes(Head(q))
      /\ r \in Seq(Messages) /\ Queue(R)' = r
  BY <1>1, <1>2, Taken, EndsAre DEF TypeOK
<1>4. at' = at /\ heard' = [heard EXCEPT ![C] = n] /\ told' = told /\ ResponderStays
  BY EndsAre DEF HearScan, ConnectorRest, ResponderStays, disk, user, work, objects, TypeOK, TransfersTyped
<1>5. ConnectorFits(q) /\ ResponderFits(r) /\ (open => Paired(q, r))
  BY DEF Polite
<1>6. heard'[C] = n /\ n \in Nat /\ n # None
  BY <1>2, <1>4, Received, EndsAre, NoneIsNothing DEF TypeOK, TransfersTyped
<1> HIDE DEF q, r, n
<1>7. Stream(Tail(q), "ScanProgress", n + 1 .. MaxReports, {"Snapshot", "Error"})
  <2> DEFINE a == IF heard[C] = None THEN 0 ELSE heard[C] + 1
  <2>1. a \in Nat /\ MaxReports \in Nat
    BY NumbersTyped
  <2>2. Stream(q, "ScanProgress", a .. MaxReports, {"Snapshot", "Error"})
    BY <1>2, <1>5 DEF ConnectorFits, Unheard
  <2> HIDE DEF a
  <2> QED
    BY <1>3, <2>1, <2>2, StreamTail
<1>8. ConnectorFits(Queue(C))'
  <2>1. Unheard' = n + 1 .. MaxReports
    BY <1>6 DEF Unheard
  <2> QED
    BY <1>2, <1>3, <1>4, <1>6, <1>7, <2>1 DEF ConnectorFits
<1>9. ASSUME open, Where # "leaving" PROVE ResponderFits(Queue(R))' /\ Paired(Queue(C), Queue(R))'
  <2>1. ResponderFits(Queue(R))' /\ Where' = Where
    BY <1>3, <1>4, <1>5, ResponderKept DEF r
  <2>2. \/ Where = "scan" /\ Only(q, {"ScanProgress"}) /\ Reported(q, told[R])
        \/ Where = "gives" /\ r = <<>>
    BY <1>2, <1>3, <1>5, <1>9 DEF Paired
  <2>3. CASE Where = "scan" /\ Only(q, {"ScanProgress"}) /\ Reported(q, told[R])
    <3>1. Only(Tail(q), {"ScanProgress"}) /\ Reported(Tail(q), told[R]) /\ n <= told[R]
      BY <1>3, <2>3 DEF Only, Reported
    <3> QED
      BY <1>2, <1>3, <1>4, <1>6, <2>1, <2>3, <3>1 DEF Paired
  <2> QED
    BY <1>2, <1>3, <1>4, <2>1, <2>2, <2>3 DEF Paired
<1> QED
  BY <1>3, <1>4, <1>8, <1>9, ConnectorMoves DEF r

LEMMA ConnectorPlansPolite ==
  ASSUME TypeOK, Polite, ConnectorPlans
  PROVE  Polite'
<1> DEFINE q == Queue(C)
           r == Queue(R)
<1>1. PICK sizes \in Requests : /\ Reply(C, <<MessageOf("Need", sizes)>>)
                                /\ wanted' = [wanted EXCEPT ![C] = sizes]
  BY DEF ConnectorPlans
<1> DEFINE m == MessageOf("Need", sizes)
<1>2. <<m>> \in Seq(Messages) /\ m.type = "Need" /\ m.arg = sizes
  BY Short, MessagesAre, OneShotConstants DEF MessageOf
<1>3. Gets(C, "Snapshot") /\ at[C] = "scanning"
  BY DEF ConnectorPlans
<1> HIDE DEF m
<1>4. /\ q \in Seq(Messages) /\ q # <<>> /\ Queue(C)' = Tail(q) /\ open' = open
      /\ Head(q).type = "Snapshot" /\ Head(q) \in Range(q)
      /\ r \in Seq(Messages) /\ (open => Queue(R)' = r \o <<m>>) /\ (~open => Queue(R)' = r)
  BY <1>1, <1>2, <1>3, Taken, EndsAre DEF TypeOK, m
<1>5. at'[C] = "objects" /\ wanted'[C] = sizes /\ ResponderStays
  BY <1>1, EndsAre DEF ConnectorPlans, Go, ConnectorRest, ResponderStays, disk, user, TypeOK,
       PlacesTyped, TransfersTyped, PlansTyped
<1>6. ConnectorFits(q) /\ (open => Paired(q, r))
  BY DEF Polite
<1> HIDE DEF q, r
<1>7. Queue(C)' = <<>>
  <2> DEFINE a == IF heard[C] = None THEN 0 ELSE heard[C] + 1
  <2>1. a \in Nat /\ MaxReports \in Nat
    BY NumbersTyped
  <2>2. Stream(q, "ScanProgress", a .. MaxReports, {"Snapshot", "Error"})
    BY <1>3, <1>6 DEF ConnectorFits, Unheard
  <2> HIDE DEF a
  <2>3. "ScanProgress" \notin {"Snapshot", "Error"}
    OBVIOUS
  <2> QED
    BY <1>4, <2>1, <2>2, <2>3, StreamTail
<1>8. ConnectorFits(Queue(C))'
  BY <1>5, <1>7, EmptyShapes DEF ConnectorFits
<1>9. ASSUME open, Where # "leaving" PROVE ResponderFits(Queue(R))' /\ Paired(Queue(C), Queue(R))'
  <2>1. Where = "gives" /\ r = <<>>
    BY <1>3, <1>4, <1>6, <1>9 DEF Paired, Only
  <2>2. Where' = "gives" /\ Queue(R)' = <<m>>
    BY <1>2, <1>4, <1>5, <1>9, <2>1, ResponderKept, ConcatEmptySeq
  <2>3. Single(<<m>>, {"Need"}) /\ Range(<<m>>) = {m}
    BY <1>2, ShortShapes, ShortRanges
  <2> QED
    BY <1>2, <1>5, <1>7, <2>2, <2>3 DEF ResponderFits, Paired
<1> QED
  BY <1>4, <1>5, <1>8, <1>9, ConnectorMoves DEF r

LEMMA ConnectorObjectPolite ==
  ASSUME TypeOK, Polite, ConnectorObject
  PROVE  Polite'
<1> DEFINE q == Queue(C)
           r == Queue(R)
           w == wanted[C]
<1>1. <<>> \in Seq(Messages)
  BY Short
<1>2. Gets(C, "Object") /\ Reply(C, <<>>) /\ at[C] = "objects"
  BY DEF ConnectorObject, Consume
<1>3. /\ q \in Seq(Messages) /\ q # <<>> /\ Queue(C)' = Tail(q) /\ open' = open
      /\ Head(q).type = "Object"
      /\ r \in Seq(Messages) /\ Queue(R)' = r
  BY <1>1, <1>2, Taken, EndsAre DEF TypeOK
<1>4. at' = at /\ wanted' = [wanted EXCEPT ![C] = Tail(w)] /\ ResponderStays
  BY EndsAre DEF ConnectorObject, ConnectorRest, ResponderStays, disk, user, work, TypeOK, TransfersTyped
<1>5. ConnectorFits(q) /\ ResponderFits(r) /\ (open => Paired(q, r))
  BY DEF Polite
<1>6. wanted'[C] = Tail(w) /\ w \in Seq(Nat)
  BY <1>4, NumbersTyped, EndsAre DEF TypeOK, TransfersTyped
<1> HIDE DEF q, r
<1>7. Transfer(q, w, Len(w), "Done")
  BY <1>2, <1>5 DEF ConnectorFits
<1> HIDE DEF w
<1>8. w # <<>> /\ Transfer(Tail(q), Tail(w), Len(w) - 1, "Done")
  <2>1. Len(w) \in Nat /\ Len(w) <= Len(w)
    BY <1>6, LenProperties
  <2> QED
    BY <1>3, <1>6, <1>7, <2>1, TransferTail
<1>9. Len(Tail(w)) = Len(w) - 1
  BY <1>6, <1>8, HeadTailProperties
<1>10. ConnectorFits(Queue(C))'
  BY <1>2, <1>3, <1>4, <1>6, <1>8, <1>9 DEF ConnectorFits
<1>11. ASSUME open, Where # "leaving" PROVE ResponderFits(Queue(R))' /\ Paired(Queue(C), Queue(R))'
  <2>1. ResponderFits(Queue(R))' /\ Where' = Where
    BY <1>3, <1>4, <1>5, ResponderKept DEF r
  <2>2. Where = "chooses" /\ r = <<>>
    BY <1>2, <1>3, <1>5, <1>11 DEF Paired
  <2> QED
    BY <1>2, <1>3, <1>4, <2>1, <2>2 DEF Paired
<1> QED
  BY <1>3, <1>4, <1>10, <1>11, ConnectorMoves DEF r

(* The list of objects is complete.                                        *)
LEMMA ListEnds ==
  ASSUME TypeOK, Polite, Gets(C, "Done"), at[C] = "objects", NEW msgs \in Seq(Messages),
         Reply(C, msgs)
  PROVE  /\ Queue(C)' = <<>> /\ open' = open /\ (~open => Queue(R)' = Queue(R))
         /\ open /\ Where # "leaving" => Where = "chooses" /\ Queue(R)' = msgs
<1> DEFINE q == Queue(C)
           r == Queue(R)
           w == wanted[C]
<1>1. /\ q \in Seq(Messages) /\ q # <<>> /\ Queue(C)' = Tail(q) /\ open' = open
      /\ Head(q).type = "Done"
      /\ r \in Seq(Messages) /\ (open => Queue(R)' = r \o msgs) /\ (~open => Queue(R)' = r)
  BY Taken, EndsAre DEF TypeOK
<1>2. ConnectorFits(q) /\ (open => Paired(q, r))
  BY DEF Polite
<1>3. w \in Seq(Nat)
  BY NumbersTyped
<1> HIDE DEF q, r
<1>4. Transfer(q, w, Len(w), "Done")
  BY <1>2 DEF ConnectorFits
<1> HIDE DEF w
<1>5. Tail(q) = <<>>
  <2>1. Len(w) \in Nat /\ Len(w) <= Len(w)
    BY <1>3, LenProperties
  <2> QED
    BY <1>1, <1>3, <1>4, <2>1, TransferTail
<1>6. ASSUME open, Where # "leaving" PROVE Where = "chooses" /\ r = <<>>
  BY <1>1, <1>2, <1>6 DEF Paired
<1> QED
  BY <1>1, <1>5, <1>6, ConcatEmptySeq DEF r

LEMMA ConnectorCancelsPolite ==
  ASSUME TypeOK, Polite, ConnectorCancels
  PROVE  Polite'
<1> DEFINE m == Message("Cancel")
<1>1. <<m>> \in Seq(Messages) /\ m.type = "Cancel"
  BY Short, MessagesAre DEF Signals, Message
<1>2. Gets(C, "Done") /\ at[C] = "objects" /\ Reply(C, <<m>>)
  BY DEF ConnectorCancels, PlanReady
<1> HIDE DEF m
<1>3. /\ Queue(C)' = <<>> /\ open' = open /\ (~open => Queue(R)' = Queue(R))
      /\ open /\ Where # "leaving" => Where = "chooses" /\ Queue(R)' = <<m>>
  BY <1>1, <1>2, ListEnds
<1>4. at'[C] = "cancelled" /\ ResponderStays
  BY EndsAre DEF ConnectorCancels, Go, ConnectorRest, ResponderStays, disk, user, work, objects, TypeOK,
       PlacesTyped
<1>5. ConnectorFits(Queue(C))'
  BY <1>3, <1>4, EmptyShapes DEF ConnectorFits
<1>6. ASSUME open, Where # "leaving" PROVE ResponderFits(Queue(R))' /\ Paired(Queue(C), Queue(R))'
  <2>1. Where' = "chooses" /\ Queue(R)' = <<m>>
    BY <1>3, <1>4, <1>6, ResponderKept
  <2>2. Single(<<m>>, {"Cancel"}) /\ Only(<<m>>, {"Cancel"})
    BY <1>1, ShortShapes
  <2> QED
    BY <1>3, <1>4, <2>1, <2>2 DEF ResponderFits, Paired
<1> QED
  BY <1>3, <1>4, <1>5, <1>6, ConnectorMoves

LEMMA ConnectorProposesPolite ==
  ASSUME TypeOK, Polite, ConnectorProposes
  PROVE  Polite'
<1> DEFINE a == MessageOf("Snapshot", scan[C])
           b == Message("Plan")
<1>1. Gets(C, "Done") /\ at[C] = "objects" /\ Reply(C, <<a, b>>)
  BY DEF ConnectorProposes, PlanReady
<1>2. a \in Messages /\ b \in Messages /\ a.type = "Snapshot" /\ b.type = "Plan"
  <2>1. scan[C] \in Scans
    BY <1>1 DEF TypeOK, PlansTyped, Early
  <2> QED
    BY <2>1, MessagesAre DEF Signals, Message, MessageOf
<1> HIDE DEF a, b
<1>3. <<a, b>> \in Seq(Messages)
  BY <1>2, Short
<1>4. /\ Queue(C)' = <<>> /\ open' = open /\ (~open => Queue(R)' = Queue(R))
      /\ open /\ Where # "leaving" => Where = "chooses" /\ Queue(R)' = <<a, b>>
  BY <1>1, <1>3, ListEnds
<1>5. at'[C] = "proposed" /\ ResponderStays
  BY EndsAre DEF ConnectorProposes, Go, ConnectorRest, ResponderStays, disk, user, work, objects, TypeOK,
       PlacesTyped
<1>6. ConnectorFits(Queue(C))'
  BY <1>4, <1>5, EmptyShapes DEF ConnectorFits
<1>7. ASSUME open, Where # "leaving" PROVE ResponderFits(Queue(R))' /\ Paired(Queue(C), Queue(R))'
  <2>1. Where' = "chooses" /\ Queue(R)' = <<a, b>>
    BY <1>4, <1>5, <1>7, ResponderKept
  <2>2. Proposal(<<a, b>>) /\ Only(<<a, b>>, {"Snapshot", "Plan"})
    BY <1>2, ShortShapes
  <2> QED
    BY <1>4, <1>5, <2>1, <2>2 DEF ResponderFits, Paired
<1> QED
  BY <1>4, <1>5, <1>6, <1>7, ConnectorMoves

LEMMA ConnectorHearsPolite ==
  ASSUME TypeOK, Polite, ConnectorHears
  PROVE  Polite'
<1> DEFINE q == Queue(C)
           r == Queue(R)
           n == Arg(C)
<1>1. <<>> \in Seq(Messages)
  BY Short
<1>2. Gets(C, "ApplyProgress") /\ Reply(C, <<>>) /\ at[C] = "applying"
  BY DEF ConnectorHears, Consume
<1>3. /\ q \in Seq(Messages) /\ q # <<>> /\ Queue(C)' = Tail(q) /\ open' = open
      /\ Head(q).type = "ApplyProgress" /\ Head(q).arg = n /\ Head(q) \in Range(q)
      /\ Range(Tail(q)) \subseteq Range(q)
      /\ r \in Seq(Messages) /\ Queue(R)' = r
  BY <1>1, <1>2, Taken, EndsAre DEF TypeOK
<1>4. at' = at /\ heard' = [heard EXCEPT ![C] = n] /\ told' = told /\ batch' = batch /\ ResponderStays
  BY EndsAre DEF ConnectorHears, ConnectorRest, ResponderStays, disk, user, work, objects, TypeOK, TransfersTyped
<1>5. ConnectorFits(q) /\ ResponderFits(r) /\ (open => Paired(q, r))
  BY DEF Polite
<1>6. heard'[C] = n /\ n \in Nat /\ n # None
  BY <1>2, <1>4, Received, EndsAre, NoneIsNothing DEF TypeOK, TransfersTyped
<1> HIDE DEF q, r, n
<1>7. \/ Stream(Tail(q), "ApplyProgress", n + 1 .. Records, {"Error"})
      \/ Closing(Tail(q), n + 1 .. Records, "Applied")
  <2> DEFINE a == heard[C] + 1
  <2>1. a \in Nat /\ Records \in Nat
    BY <1>2, <1>5, NumbersTyped DEF ConnectorFits
  <2>2. \/ Stream(q, "ApplyProgress", a .. Records, {"Error"})
        \/ Closing(q, a .. Records, "Applied")
    BY <1>2, <1>5 DEF ConnectorFits, Left
  <2> HIDE DEF a
  <2>3. "ApplyProgress" \notin {"Error"}
    OBVIOUS
  <2>4. CASE Stream(q, "ApplyProgress", a .. Records, {"Error"})
    BY <1>3, <2>1, <2>3, <2>4, StreamTail
  <2>5. CASE Closing(q, a .. Records, "Applied")
    BY <1>3, <2>1, <2>5, ClosingTail
  <2> QED
    BY <2>2, <2>4, <2>5
<1>8. ConnectorFits(Queue(C))'
  <2>1. Left(C)' = n + 1 .. Records
    BY <1>6 DEF Left
  <2> QED
    BY <1>2, <1>3, <1>4, <1>6, <1>7, <2>1 DEF ConnectorFits
<1>9. ASSUME open, Where # "leaving" PROVE ResponderFits(Queue(R))' /\ Paired(Queue(C), Queue(R))'
  <2>1. ResponderFits(Queue(R))' /\ Where' = Where
    BY <1>3, <1>4, <1>5, ResponderKept DEF r
  <2>2. \/ Where = "apply" /\ Only(q, {"ApplyProgress"}) /\ Reported(q, told[R])
        \/ Where = "receives" /\ r = <<>> /\ Only(q, {"ApplyProgress", "Error"})
        \/ Where = "hears" /\ r = <<>> /\ heard[R] = 0
    BY <1>2, <1>3, <1>5, <1>9 DEF Paired
  <2>3. CASE Where = "apply" /\ Only(q, {"ApplyProgress"}) /\ Reported(q, told[R])
    <3>1. Only(Tail(q), {"ApplyProgress"}) /\ Reported(Tail(q), told[R]) /\ n <= told[R]
      BY <1>3, <2>3 DEF Only, Reported
    <3> QED
      BY <1>2, <1>3, <1>4, <1>6, <2>1, <2>3, <3>1 DEF Paired
  <2>4. CASE Where = "receives" /\ r = <<>> /\ Only(q, {"ApplyProgress", "Error"})
    <3>1. Only(Tail(q), {"ApplyProgress", "Error"})
      BY <1>3, <2>4 DEF Only
    <3> QED
      BY <1>2, <1>3, <1>4, <2>1, <2>4, <3>1 DEF Paired
  <2>5. CASE Where = "hears" /\ r = <<>> /\ heard[R] = 0
    <3>1. heard'[R] = 0
      BY <1>4, <2>5 DEF ResponderStays
    <3> QED
      BY <1>2, <1>3, <1>4, <2>1, <2>5, <3>1 DEF Paired
  <2> QED
    BY <2>2, <2>3, <2>4, <2>5
<1> QED
  BY <1>3, <1>4, <1>8, <1>9, ConnectorMoves DEF r

LEMMA NumbersAre == \A n \in Nat : n # None
BY NoneIsNothing

LEMMA WhereIs ==
  ASSUME TypeOK
  PROVE  /\ at[R] # "serve" => Where = at[R]
         /\ at[R] = "serve" =>
              Where \in {"gives", "chooses", "compares", "receives", "hears", "acknowledges"}
         /\ Where \in Begun \cup {"apply", "leaving"} \cup Over => at[R] = Where
         /\ Where = "gives" =>
              /\ at[R] = "serve" /\ ~serving.applied /\ ~serving.ready /\ serving.snapshot = None
              /\ ~serving.need
         /\ Where = "chooses" =>
              /\ at[R] = "serve" /\ ~serving.applied /\ ~serving.ready /\ serving.snapshot = None
              /\ serving.need
         /\ Where = "compares" =>
              at[R] = "serve" /\ ~serving.applied /\ ~serving.ready /\ serving.snapshot # None
         /\ Where = "receives" => at[R] = "serve" /\ ~serving.applied /\ serving.ready
         /\ Where = "hears" => at[R] = "serve" /\ serving.applied /\ serving.heads = None
         /\ Where = "acknowledges" => at[R] = "serve" /\ serving.applied /\ serving.heads # None
<1>1. at[R] \in Begun \cup {"serve", "apply", "leaving"} \cup Over
  BY DEF TypeOK, PlacesTyped, ResponderPlaces
<1> QED
  BY <1>1 DEF Where, Begun, Over

(* The connector gives a batch, or says that there is nothing more.        *)
LEMMA BatchPolite ==
  ASSUME TypeOK, Polite, ResponderStays, open' = open, Queue(C)' = <<>>,
         NEW s \in Seq(Nat), NEW n \in Nat, n <= Len(s), giving' = [sizes |-> s, sent |-> n],
         at'[C] = IF n = Len(s) THEN "applying" ELSE "sending", heard'[C] = 0,
         ~open => Queue(R)' = Queue(R),
         open /\ Where # "leaving" =>
           /\ Where = "receives" /\ batch.sizes = s /\ batch.from = n /\ batch.got = n
           /\ Queue(R)' = Batch(s, n)
  PROVE  Polite'
<1>0. Len(s) \in Nat /\ 0 # None
  <2>1. Len(s) \in Nat
    BY LenProperties
  <2>2. 0 # None
    BY NumbersAre
  <2> QED
    BY <2>1, <2>2
<1>1. ConnectorFits(Queue(C))'
  BY <1>0, EmptyShapes DEF ConnectorFits
<1>2. ASSUME open, Where # "leaving" PROVE ResponderFits(Queue(R))' /\ Paired(Queue(C), Queue(R))'
  <2>1. Where' = "receives" /\ batch' = batch /\ wanted'[R] = wanted[R]
    BY <1>2, ResponderKept DEF ResponderStays
  <2>2. CASE n = Len(s)
    <3>1. Queue(R)' = <<Message("Done")>>
      BY <1>2, <2>2 DEF Batch
    <3>2. Single(<<Message("Done")>>, {"Done"})
      BY ShortShapes DEF Message
    <3>3. ~(batch'.from < Len(batch'.sizes))
      BY <1>0, <1>2, <2>1, <2>2
    <3>4. ResponderFits(Queue(R))'
      BY <2>1, <3>1, <3>2, <3>3 DEF ResponderFits
    <3>5. at'[C] = "applying" /\ batch'.from = Len(batch'.sizes)
      BY <1>2, <2>1, <2>2
    <3> QED
      BY <2>1, <3>4, <3>5 DEF Paired
  <2>3. CASE n # Len(s)
    <3>1. n < Len(s)
      BY <1>0, <2>3
    <3>2. serving.ready
      BY <1>2, WhereIs
    <3>3. Len(wanted[R]) = Len(s) - n /\ \A k \in DOMAIN wanted[R] : wanted[R][k] = s[n + k]
      BY <1>2, <3>2 DEF Polite, Gathered
    <3>4. Transfer(Batch(s, n), wanted[R], BatchEnd(s, n) - n, "BatchEnd")
      BY <3>1, <3>3, NumbersTyped, BatchFits
    <3>5. batch'.from < Len(batch'.sizes) /\ Missing' = BatchEnd(s, n) - n
      BY <1>2, <2>1, <3>1 DEF Missing
    <3>6. ResponderFits(Queue(R))'
      BY <1>2, <2>1, <3>4, <3>5 DEF ResponderFits
    <3>7. at'[C] = "sending" /\ giving'.sizes = batch'.sizes /\ giving'.sent = batch'.from
      BY <1>2, <2>1, <2>3
    <3> QED
      BY <2>1, <3>6, <3>7 DEF Paired
  <2> QED
    BY <2>2, <2>3
<1> QED
  BY <1>1, <1>2, ConnectorMoves

LEMMA ConnectorSendsPolite ==
  ASSUME TypeOK, Polite, ConnectorSends
  PROVE  Polite'
<1> DEFINE q == Queue(C)
           r == Queue(R)
           s == Arg(C)
           b == Batch(s, 0)
<1>1. Gets(C, "Need") /\ at[C] = "proposed" /\ Reply(C, b)
  BY DEF ConnectorSends
<1>2. s \in Seq(Nat)
  BY <1>1, Received, EndsAre DEF TypeOK
<1> HIDE DEF s
<1>3. b \in Seq(Messages) /\ 0 <= Len(s) /\ Len(s) \in Nat
  <2>1. Len(s) \in Nat
    BY <1>2, LenProperties
  <2> QED
    BY <1>2, <2>1, BatchTyped
<1> HIDE DEF b
<1>4. /\ q \in Seq(Messages) /\ q # <<>> /\ Queue(C)' = Tail(q) /\ open' = open
      /\ Head(q).type = "Need" /\ Head(q).arg = s /\ Head(q) \in Range(q) /\ q[1] = Head(q)
      /\ r \in Seq(Messages) /\ (open => Queue(R)' = r \o b) /\ (~open => Queue(R)' = r)
  BY <1>1, <1>3, Taken, EndsAre DEF TypeOK, s
<1>5. /\ at'[C] = (IF 0 = Len(s) THEN "applying" ELSE "sending") /\ heard'[C] = 0
      /\ giving' = [sizes |-> s, sent |-> 0] /\ ResponderStays
  BY EndsAre DEF ConnectorSends, SendsOrHears, Go, ConnectorRest, ResponderStays, disk, user, work,
       TypeOK, PlacesTyped, TransfersTyped, s
<1>6. ConnectorFits(q) /\ (open => Paired(q, r))
  BY DEF Polite
<1> HIDE DEF q, r
<1>7. Queue(C)' = <<>>
  <2>1. Single(q, {"Need"})
    BY <1>1, <1>4, <1>6 DEF ConnectorFits
  <2> QED
    BY <1>4, <2>1, SingleTail
<1>8. ASSUME open, Where # "leaving"
      PROVE  /\ Where = "receives" /\ batch.sizes = s /\ batch.from = 0 /\ batch.got = 0
             /\ Queue(R)' = Batch(s, 0)
  <2>1. Where = "receives" /\ r = <<>> /\ batch.from = 0 /\ batch.got = 0
        /\ \A m \in Range(q) : m.arg = batch.sizes
    BY <1>1, <1>4, <1>6, <1>8 DEF Paired
  <2>2. Queue(R)' = b
    BY <1>3, <1>4, <1>8, <2>1, ConcatEmptySeq
  <2> QED
    BY <1>4, <2>1, <2>2 DEF b
<1>9. ~open => Queue(R)' = Queue(R)
  BY <1>4 DEF r
<1> QED
  BY <1>2, <1>3, <1>4, <1>5, <1>7, <1>8, <1>9, BatchPolite

LEMMA ConnectorReceiptPolite ==
  ASSUME TypeOK, Polite, ConnectorReceipt
  PROVE  Polite'
<1> DEFINE q == Queue(C)
           r == Queue(R)
           s == giving.sizes
           n == BatchEnd(s, giving.sent)
           b == Batch(s, n)
<1>1. Gets(C, "Receipt") /\ at[C] = "sending" /\ Reply(C, b)
  BY DEF ConnectorReceipt
<1>2. s \in Seq(Nat) /\ giving.sent \in Nat /\ giving.sent < Len(s)
  BY <1>1 DEF TypeOK, TransfersTyped
<1>3. n \in Nat /\ n <= Len(s)
  <2>1. n \in giving.sent + 1 .. Len(s) /\ Len(s) \in Nat
    BY <1>2, BatchEnds, LenProperties
  <2> HIDE DEF n, s
  <2> QED
    BY <1>2, <2>1
<1>4. b \in Seq(Messages)
  <2> HIDE DEF n, s
  <2> QED
    BY <1>2, <1>3, BatchTyped
<1>5. /\ at'[C] = (IF n = Len(s) THEN "applying" ELSE "sending") /\ heard' = heard
      /\ giving' = [sizes |-> s, sent |-> n] /\ ResponderStays
  <2>1. giving' = [giving EXCEPT !.sent = n] /\ Go(C, IF n = Len(s) THEN "applying" ELSE "sending")
    BY DEF ConnectorReceipt, SendsOrHears
  <2>2. heard' = heard /\ ResponderStays
    BY <2>1, EndsAre DEF ConnectorReceipt, Go, ConnectorRest, ResponderStays, disk, user, work, TypeOK,
         PlacesTyped
  <2>3. giving' = [sizes |-> s, sent |-> n]
    BY <2>1 DEF TypeOK, TransfersTyped
  <2> HIDE DEF n, s
  <2>4. at'[C] = (IF n = Len(s) THEN "applying" ELSE "sending")
    BY <2>1, EndsAre DEF Go, TypeOK, PlacesTyped
  <2> QED
    BY <2>2, <2>3, <2>4
<1> HIDE DEF b
<1>6. /\ q \in Seq(Messages) /\ q # <<>> /\ Queue(C)' = Tail(q) /\ open' = open
      /\ r \in Seq(Messages) /\ (open => Queue(R)' = r \o b) /\ (~open => Queue(R)' = r)
  BY <1>1, <1>4, Taken, EndsAre DEF TypeOK
<1>7. ConnectorFits(q) /\ (open => Paired(q, r))
  BY DEF Polite
<1> HIDE DEF q, r
<1>8. Queue(C)' = <<>> /\ heard'[C] = 0
  <2>1. Single(q, {"Receipt"}) /\ heard[C] = 0
    BY <1>1, <1>7 DEF ConnectorFits
  <2> QED
    BY <1>5, <1>6, <2>1, SingleTail
<1>9. ASSUME open, Where # "leaving"
      PROVE  /\ Where = "receives" /\ batch.sizes = s /\ batch.from = n /\ batch.got = n
             /\ Queue(R)' = Batch(s, n)
  <2>1. /\ Where = "receives" /\ r = <<>> /\ batch.sizes = s
        /\ batch.from = n /\ batch.got = batch.from
    BY <1>1, <1>6, <1>7, <1>9 DEF Paired
  <2>2. Queue(R)' = b
    BY <1>4, <1>6, <1>9, <2>1, ConcatEmptySeq
  <2> QED
    BY <2>1, <2>2 DEF b
<1>10. ~open => Queue(R)' = Queue(R)
  BY <1>6 DEF r
<1> HIDE DEF s, n
<1> QED
  BY <1>2, <1>3, <1>5, <1>6, <1>8, <1>9, <1>10, BatchPolite DEF b

(* The heads and the end of the apply are taken.                           *)
LEMMA ConnectorHeadsPolite ==
  ASSUME TypeOK, Polite, ConnectorHeads \/ ConnectorTurn
  PROVE  Polite'
<1> DEFINE q == Queue(C)
           r == Queue(R)
<1>1. PICK t \in {"Heads", "Applied"} :
        /\ Gets(C, t) /\ Reply(C, <<>>) /\ at[C] \in {"applying", "heads"}
        /\ Go(C, IF t = "Heads" THEN "heads" ELSE "apply")
  BY DEF ConnectorHeads, ConnectorTurn, Consume
<1>2. <<>> \in Seq(Messages)
  BY Short
<1>3. /\ q \in Seq(Messages) /\ q # <<>> /\ Queue(C)' = Tail(q) /\ open' = open
      /\ Head(q).type = t /\ Head(q) \in Range(q)
      /\ r \in Seq(Messages) /\ Queue(R)' = r
  BY <1>1, <1>2, Taken, EndsAre DEF TypeOK
<1>4. /\ at'[C] = (IF t = "Heads" THEN "heads" ELSE "apply") /\ heard' = heard /\ told' = told
      /\ ResponderStays
  BY <1>1, EndsAre DEF ConnectorHeads, ConnectorTurn, Go, ConnectorRest, ResponderStays, disk, user, work,
       objects, TypeOK, PlacesTyped
<1>5. ConnectorFits(q) /\ ResponderFits(r) /\ (open => Paired(q, r))
  BY DEF Polite
<1> HIDE DEF q, r
<1>6. IF t = "Heads" THEN Single(Tail(q), {"Applied"}) ELSE Tail(q) = <<>>
  <2>1. CASE at[C] = "heads"
    <3>1. Single(q, {"Applied"})
      BY <1>5, <2>1 DEF ConnectorFits
    <3>2. Tail(q) = <<>> /\ Head(q).type \in {"Applied"}
      BY <1>3, <3>1, SingleTail
    <3> QED
      BY <1>3, <3>2
  <2>2. CASE at[C] = "applying"
    <3> DEFINE a == heard[C] + 1
    <3>1. a \in Nat /\ Records \in Nat
      BY <1>5, <2>2, NumbersTyped DEF ConnectorFits
    <3>2. \/ Stream(q, "ApplyProgress", a .. Records, {"Error"})
          \/ Closing(q, a .. Records, "Applied")
      BY <1>5, <2>2 DEF ConnectorFits, Left
    <3> HIDE DEF a
    <3>3. CASE Stream(q, "ApplyProgress", a .. Records, {"Error"})
      <4>1. "ApplyProgress" \notin {"Error"}
        OBVIOUS
      <4>2. Head(q).type \in {"ApplyProgress", "Error"}
        BY <1>3, <3>1, <3>3, <4>1, StreamTail
      <4> QED
        BY <1>1, <1>3, <4>2
    <3>4. CASE Closing(q, a .. Records, "Applied")
      BY <1>3, <3>1, <3>4, ClosingTail
    <3> QED
      BY <3>2, <3>3, <3>4
  <2> QED
    BY <1>1, <2>1, <2>2
<1>7. ConnectorFits(Queue(C))'
  BY <1>1, <1>3, <1>4, <1>6 DEF ConnectorFits
<1>8. ASSUME open, Where # "leaving" PROVE ResponderFits(Queue(R))' /\ Paired(Queue(C), Queue(R))'
  <2>1. ResponderFits(Queue(R))' /\ Where' = Where
    BY <1>3, <1>4, <1>5, ResponderKept DEF r
  <2>2. Where = "hears" /\ r = <<>> /\ heard[R] = 0
    BY <1>1, <1>3, <1>5, <1>8 DEF Paired, Only
  <2>3. Only(<<>>, {"ApplyProgress"}) /\ Reported(<<>>, told[C]) /\ 0 <= told[C]
    BY EmptyShapes, NumbersTyped
  <2>4. CASE t = "Heads"
    BY <1>3, <1>4, <2>1, <2>2, <2>4 DEF Paired
  <2>5. CASE t # "Heads"
    <3>1. at'[C] = "apply" /\ Queue(C)' = <<>> /\ Queue(R)' = <<>> /\ told'[C] = told[C]
          /\ heard'[R] = 0
      BY <1>3, <1>4, <1>6, <2>2, <2>5
    <3> QED
      BY <2>1, <2>2, <2>3, <3>1 DEF Paired
  <2> QED
    BY <2>4, <2>5
<1> QED
  BY <1>3, <1>4, <1>7, <1>8, ConnectorMoves DEF r

LEMMA ConnectorReportsPolite ==
  ASSUME TypeOK, Polite, ConnectorReports
  PROVE  Polite'
<1> DEFINE q == Queue(C)
           r == Queue(R)
<1>1. PICK n \in 1 .. Records : /\ n > told[C] /\ Say(C, <<MessageOf("ApplyProgress", n)>>)
                                /\ told' = [told EXCEPT ![C] = n]
  BY DEF ConnectorReports, Reports
<1> DEFINE m == MessageOf("ApplyProgress", n)
<1>2. <<m>> \in Seq(Messages) /\ m \in Messages /\ m.type = "ApplyProgress" /\ m.arg = n
  BY Short, MessagesAre DEF MessageOf
<1>3. Say(C, <<m>>)
  BY <1>1
<1> HIDE DEF m
<1>4. /\ Queue(C)' = q /\ r \in Seq(Messages) /\ open' = open
      /\ (open => Queue(R)' = r \o <<m>>) /\ (~open => Queue(R)' = r)
  BY <1>2, <1>3, Said, EndsAre DEF TypeOK
<1>5. at[C] = "apply" /\ at'[C] = "apply" /\ told'[C] = n /\ heard' = heard /\ ResponderStays
  BY <1>1, EndsAre DEF ConnectorReports, Reports, ResponderStays, disk, user, work, objects, TypeOK,
       TransfersTyped
<1>6. /\ ConnectorFits(q) /\ ResponderFits(r) /\ (open => Paired(q, r)) /\ heard[R] \in Nat
  BY DEF Polite, Flags
<1>7. told[C] \in Nat /\ Records \in Nat /\ n \in Nat
  BY <1>1, NumbersTyped
<1> HIDE DEF q, r
<1>8. ConnectorFits(Queue(C))'
  BY <1>4, <1>5, <1>6 DEF ConnectorFits
<1>9. ASSUME open, Where # "leaving" PROVE ResponderFits(Queue(R))' /\ Paired(Queue(C), Queue(R))'
  <2>1. /\ Where = "hears" /\ q = <<>> /\ Only(r, {"ApplyProgress"}) /\ Reported(r, told[C])
        /\ heard[R] <= told[C]
    BY <1>5, <1>6, <1>9 DEF Paired
  <2>2. Where' = "hears" /\ heard'[R] = heard[R] /\ Queue(R)' = r \o <<m>>
    BY <1>4, <1>5, <1>9, <2>1, ResponderKept
  <2> DEFINE a == heard[R] + 1
  <2>3. a \in Nat /\ n \in a .. Records /\ Left(R) = a .. Records /\ Left(R)' = a .. Records
    BY <1>1, <1>6, <1>7, <2>1, <2>2 DEF Left
  <2>4. Closing(r, a .. Records, "CommitAck")
    BY <1>6, <2>1, <2>3 DEF ResponderFits
  <2> HIDE DEF a
  <2>5. "ApplyProgress" \notin {"Error"}
    OBVIOUS
  <2>6. Stream(r, "ApplyProgress", a .. Records, {"Error"})
    BY <1>4, <2>1, <2>4, <2>5, StreamIsClosing
  <2> DEFINE z == r \o <<m>>
  <2>7. /\ Stream(z, "ApplyProgress", a .. Records, {"Error"}) /\ Only(z, {"ApplyProgress"})
        /\ Reported(z, n)
    <3>1. /\ r \in Seq(Messages) /\ a \in Nat /\ Records \in Nat /\ told[C] \in Nat
          /\ m \in Messages /\ m.type = "ApplyProgress" /\ m.arg \in a .. Records /\ told[C] < m.arg
      BY <1>1, <1>2, <1>4, <1>7, <2>3
    <3>2. /\ Stream(z, "ApplyProgress", a .. Records, {"Error"}) /\ Only(z, {"ApplyProgress"})
          /\ Reported(z, m.arg)
      BY <2>1, <2>5, <2>6, <3>1, StreamGrows
    <3> QED
      BY <1>2, <3>2
  <2>8. z \in Seq(Messages)
    BY <1>2, <1>4, Joined
  <2> HIDE DEF z
  <2>9. Closing(z, a .. Records, "CommitAck")
    BY <2>5, <2>7, <2>8, StreamIsClosing
  <2>10. Queue(R)' = z /\ heard'[R] <= n
    BY <1>1, <1>6, <1>7, <2>1, <2>2 DEF z
  <2>11. ResponderFits(Queue(R))'
    BY <2>2, <2>3, <2>9, <2>10 DEF ResponderFits
  <2> QED
    BY <1>4, <1>5, <2>1, <2>2, <2>7, <2>10, <2>11 DEF Paired
<1> QED
  BY <1>4, <1>5, <1>8, <1>9, ConnectorMoves DEF r

LEMMA QueuesKept ==
  ASSUME wire' = wire, outbox' = outbox, open' = open
  PROVE  Queue(C)' = Queue(C) /\ Queue(R)' = Queue(R)
BY DEF Queue

LEMMA ConnectorAppliesPolite ==
  ASSUME TypeOK, Polite, ConnectorApplies
  PROVE  Polite'
<1>1. Queue(C)' = Queue(C) /\ Queue(R)' = Queue(R) /\ open' = open
  BY QueuesKept DEF ConnectorApplies, pipes
<1>2. at[C] = "apply" /\ at'[C] = "commit" /\ heard' = heard /\ told' = told /\ ResponderStays
  BY EndsAre DEF ConnectorApplies, Applies, Go, ConnectorRest, ResponderStays, user, objects, TypeOK,
       PlacesTyped, DirectoriesTyped
<1>3. ConnectorFits(Queue(C))'
  BY <1>1, <1>2 DEF Polite, ConnectorFits
<1>4. ResponderFits(Queue(R))' /\ Where' = Where
  BY <1>1, <1>2, ResponderKept DEF Polite
<1>5. ASSUME open, Where # "leaving" PROVE Paired(Queue(C), Queue(R))'
  <2>1. /\ Where = "hears" /\ Queue(C) = <<>> /\ Only(Queue(R), {"ApplyProgress"})
        /\ Reported(Queue(R), told[C]) /\ heard[R] <= told[C]
    BY <1>2, <1>5 DEF Polite, Paired
  <2> QED
    BY <1>1, <1>2, <1>4, <2>1 DEF Paired
<1> QED
  BY <1>1, <1>2, <1>3, <1>4, <1>5, ConnectorMoves

LEMMA ConnectorCommitsPolite ==
  ASSUME TypeOK, Polite, ConnectorCommits
  PROVE  Polite'
<1> DEFINE q == Queue(C)
           r == Queue(R)
           h == MessageOf("Heads", Outcome(plan[C]))
           z == Message("CommitAck")
<1>1. at[C] = "commit" /\ Say(C, <<h, z>>)
  BY DEF ConnectorCommits
<1>2. h \in Messages /\ z \in Messages /\ h.type = "Heads" /\ z.type = "CommitAck"
  <2>1. Outcome(plan[C]) \in SUBSET Edits
    BY <1>1, ScansTyped, EndsAre DEF TypeOK, PlansTyped, Late
  <2> QED
    BY <2>1, MessagesAre DEF Signals, Message, MessageOf
<1> HIDE DEF h, z
<1>3. <<h, z>> \in Seq(Messages)
  BY <1>2, Short
<1>4. /\ Queue(C)' = q /\ r \in Seq(Messages) /\ open' = open
      /\ (open => Queue(R)' = r \o <<h, z>>) /\ (~open => Queue(R)' = r)
  BY <1>1, <1>3, Said, EndsAre DEF TypeOK
<1>5. at'[C] = "finish" /\ heard' = heard /\ ResponderStays
  BY EndsAre DEF ConnectorCommits, Go, ConnectorRest, ResponderStays, user, work, objects, TypeOK,
       PlacesTyped
<1>6. ConnectorFits(q) /\ ResponderFits(r) /\ (open => Paired(q, r))
  BY DEF Polite
<1> HIDE DEF q, r
<1>7. ConnectorFits(Queue(C))'
  <2>1. q = <<>>
    BY <1>1, <1>6 DEF ConnectorFits
  <2> QED
    BY <1>4, <1>5, <2>1, EmptyShapes DEF ConnectorFits
<1>8. ASSUME open, Where # "leaving" PROVE ResponderFits(Queue(R))' /\ Paired(Queue(C), Queue(R))'
  <2>1. Where = "hears" /\ q = <<>> /\ Only(r, {"ApplyProgress"})
    BY <1>1, <1>6, <1>8 DEF Paired
  <2>2. Where' = "hears" /\ Left(R)' = Left(R) /\ Queue(R)' = r \o <<h, z>>
    BY <1>4, <1>5, <1>8, <2>1, ResponderKept DEF Left
  <2>3. Closing(r, Left(R), "CommitAck")
    BY <1>6, <2>1 DEF ResponderFits
  <2>4. Closing(r \o <<h, z>>, Left(R), "CommitAck")
    BY <1>2, <1>4, <2>1, <2>3, ClosingEnds
  <2>5. ResponderFits(Queue(R))'
    BY <2>2, <2>4 DEF ResponderFits
  <2> QED
    BY <1>4, <1>5, <2>1, <2>2, <2>5 DEF Paired
<1> QED
  BY <1>4, <1>5, <1>7, <1>8, ConnectorMoves DEF r

LEMMA ConnectorShowsPolite ==
  ASSUME TypeOK, Polite, ConnectorShows
  PROVE  Polite'
<1>1. Gets(C, "Done") /\ Reply(C, <<>>) /\ at[R] = "ended"
  BY DEF ConnectorShows, Confirmed, Consume
<1>2. <<>> \in Seq(Messages)
  BY Short
<1>3. Queue(R)' = Queue(R) /\ open' = open
  BY <1>1, <1>2, Taken, EndsAre DEF TypeOK
<1>4. at'[C] \in {"idle", "prompt"} /\ ResponderStays
  BY EndsAre DEF ConnectorShows, Go, ConnectorRest, ResponderStays, disk, objects, TypeOK,
       PlacesTyped
<1>5. ConnectorFits(Queue(C))'
  BY <1>4 DEF ConnectorFits
<1>6. Where = "ended"
  BY <1>1 DEF Where
<1>7. ~open
  BY <1>6 DEF Polite, Paired
<1> QED
  BY <1>3, <1>4, <1>5, <1>7, ConnectorMoves

LEMMA ResponderTook ==
  ASSUME PipesTyped, NEW t, Gets(R, t), NEW msgs \in Seq(Messages), Reply(R, msgs)
  PROVE  /\ Queue(R) \in Seq(Messages) /\ Queue(R) # <<>> /\ Queue(R)' = Tail(Queue(R))
         /\ Head(Queue(R)).type = t /\ Head(Queue(R)).arg = Arg(R) /\ Head(Queue(R)) \in Messages
         /\ Head(Queue(R)) \in Range(Queue(R)) /\ Range(Tail(Queue(R))) \subseteq Range(Queue(R))
         /\ ResponderTakes(Head(Queue(R)))
         /\ Queue(C) \in Seq(Messages) /\ open' = open
         /\ open => Queue(C)' = Queue(C) \o msgs
         /\ ~open \/ msgs = <<>> => Queue(C)' = Queue(C)
<1>1. R \in Ends /\ Other(R) = C
  BY EndsAre
<1> QED
  BY <1>1, Taken

LEMMA ScanGrows ==
  ASSUME NEW q \in Seq(Messages), NEW a \in Nat, NEW b \in Nat, NEW n \in Nat, NEW m \in Messages,
         Stream(q, "ScanProgress", a .. b, {"Snapshot", "Error"}),
         Only(q, {"ScanProgress"}), Reported(q, n)
  PROVE  LET z == q \o <<m>>
         IN  /\ z # <<>> /\ (q # <<>> => z[1] = q[1])
             /\ m.type = "ScanProgress" /\ m.arg \in a .. b /\ n < m.arg =>
                  /\ Stream(z, "ScanProgress", a .. b, {"Snapshot", "Error"})
                  /\ Only(z, {"ScanProgress"}) /\ Reported(z, m.arg)
             /\ m.type \in {"Snapshot", "Error"} =>
                  Stream(z, "ScanProgress", a .. b, {"Snapshot", "Error"})
<1> DEFINE t == "ScanProgress"
           T == {"Snapshot", "Error"}
           z == q \o <<m>>
<1>1. t \notin T /\ Stream(q, t, a .. b, T) /\ Only(q, {t})
  OBVIOUS
<1> HIDE DEF t, T
<1>2. z # <<>>
  BY <1>1, StreamGrows
<1>5. q # <<>> => z[1] = q[1]
  BY <1>1, StreamGrows
<1>3. ASSUME m.type = t, m.arg \in a .. b, n < m.arg
      PROVE  Stream(z, t, a .. b, T) /\ Only(z, {t}) /\ Reported(z, m.arg)
  BY <1>1, <1>3, StreamGrows
<1>4. m.type \in T => Stream(z, t, a .. b, T)
  BY <1>1, StreamGrows
<1> QED
  BY <1>2, <1>3, <1>4, <1>5 DEF t, T

LEMMA ApplyGrows ==
  ASSUME NEW q \in Seq(Messages), NEW a \in Nat, NEW b \in Nat, NEW n \in Nat, NEW m \in Messages,
         Stream(q, "ApplyProgress", a .. b, {"Error"}), Only(q, {"ApplyProgress"}), Reported(q, n)
  PROVE  LET z == q \o <<m>>
         IN  /\ Range(z) = Range(q) \cup {m}
             /\ m.type = "ApplyProgress" /\ m.arg \in a .. b /\ n < m.arg =>
                  /\ Stream(z, "ApplyProgress", a .. b, {"Error"})
                  /\ Only(z, {"ApplyProgress"}) /\ Reported(z, m.arg)
             /\ m.type = "Error" => Stream(z, "ApplyProgress", a .. b, {"Error"})
<1> DEFINE t == "ApplyProgress"
           T == {"Error"}
           z == q \o <<m>>
<1>1. t \notin T /\ Stream(q, t, a .. b, T) /\ Only(q, {t})
  OBVIOUS
<1> HIDE DEF t, T
<1>2. Range(z) = Range(q) \cup {m}
  BY Short, ShortRanges, Longer
<1>3. ASSUME m.type = t, m.arg \in a .. b, n < m.arg
      PROVE  Stream(z, t, a .. b, T) /\ Only(z, {t}) /\ Reported(z, m.arg)
  BY <1>1, <1>3, StreamGrows
<1>4. m.type \in T => Stream(z, t, a .. b, T)
  BY <1>1, StreamGrows
<1> QED
  BY <1>2, <1>3, <1>4 DEF t, T

----------------------------------------------------------------------------
(* The responder's steps, until it serves.                                 *)

LEMMA AcceptPolite ==
  ASSUME TypeOK, Polite, Accept \/ Deny
  PROVE  Polite'
<1> DEFINE q == Queue(C)
           r == Queue(R)
<1>1. PICK t \in {"Reserved", "Error"} :
        /\ Gets(R, "Sync") /\ at[R] = "idle" /\ Reply(R, <<Message(t)>>)
        /\ Go(R, IF t = "Error" THEN "leaving" ELSE "waiting")
  BY DEF Accept, Deny
<1> DEFINE m == Message(t)
<1>2. <<m>> \in Seq(Messages) /\ m.type = t
  BY Short, MessagesAre DEF Signals, Message
<1>3. Reply(R, <<m>>)
  BY <1>1
<1> HIDE DEF m
<1>4. /\ r \in Seq(Messages) /\ r # <<>> /\ Queue(R)' = Tail(r) /\ open' = open
      /\ q \in Seq(Messages) /\ (open => Queue(C)' = q \o <<m>>) /\ (~open => Queue(C)' = q)
  BY <1>1, <1>2, <1>3, ResponderTook DEF TypeOK
<1>5. /\ at'[R] = (IF t = "Error" THEN "leaving" ELSE "waiting")
      /\ heard' = heard /\ batch' = batch /\ wanted' = wanted /\ ConnectorStays
      /\ serving'.need = serving.need /\ serving'.snapshot = serving.snapshot
      /\ serving'.ready = serving.ready /\ serving'.applied = serving.applied
      /\ serving'.heads = serving.heads
  BY <1>1, EndsAre DEF Accept, Deny, Go, ResponderRest, ConnectorStays, user, TypeOK, PlacesTyped, PlansTyped
<1>6. ConnectorFits(q) /\ ResponderFits(r) /\ Flags /\ Gathered /\ (open => Paired(q, r))
  BY DEF Polite
<1>7. Flags' /\ Gathered' /\ HeadsKept'
  BY <1>1, <1>5, <1>6 DEF Flags, Gathered, HeadsKept
<1>8. Where' = at'[R] /\ Where = "idle"
  BY <1>1, <1>5 DEF Where
<1> HIDE DEF q, r
<1>9. Queue(R)' = <<>>
  BY <1>4, <1>6, <1>8, SingleTail DEF ResponderFits
<1>10. ResponderFits(Queue(R))'
  BY <1>5, <1>8, <1>9, EmptyShapes DEF ResponderFits
<1>11. ASSUME open PROVE at[C] = "opening" /\ q = <<>>
  BY <1>4, <1>6, <1>8, <1>11 DEF Paired
<1>12. ASSUME open PROVE ConnectorFits(Queue(C))'
  <2>1. Queue(C)' = <<m>> /\ at'[C] = "opening" /\ heard'[C] = None
    BY <1>2, <1>4, <1>5, <1>6, <1>11, <1>12, ConcatEmptySeq DEF ConnectorFits, ConnectorStays
  <2>2. Single(<<m>>, {"Reserved", "Error"})
    BY <1>2, ShortShapes
  <2> QED
    BY <2>1, <2>2 DEF ConnectorFits
<1>13. open /\ Where' # "leaving" => Paired(Queue(C), Queue(R))'
  BY <1>5, <1>8, <1>9, <1>11 DEF Paired, ConnectorStays
<1>14. ~open => Queue(C)' = Queue(C)
  BY <1>4 DEF q
<1> QED
  BY <1>4, <1>5, <1>7, <1>10, <1>12, <1>13, <1>14, ResponderMoves

LEMMA BeginScanPolite ==
  ASSUME TypeOK, Polite, BeginScan
  PROVE  Polite'
<1> DEFINE q == Queue(C)
           r == Queue(R)
           m == MessageOf("ScanProgress", 0)
<1>1. Gets(R, "ScanRequest") /\ at[R] = "waiting" /\ Reply(R, <<m>>)
  BY DEF BeginScan
<1>2. <<m>> \in Seq(Messages) /\ m.type = "ScanProgress" /\ m.arg = 0
  BY Short, MessagesAre DEF MessageOf
<1> HIDE DEF m
<1>3. /\ r \in Seq(Messages) /\ r # <<>> /\ Queue(R)' = Tail(r) /\ open' = open
      /\ q \in Seq(Messages) /\ (open => Queue(C)' = q \o <<m>>) /\ (~open => Queue(C)' = q)
  BY <1>1, <1>2, ResponderTook DEF TypeOK
<1>4. /\ at'[R] = "scan" /\ heard' = heard /\ batch' = batch /\ wanted' = wanted /\ ConnectorStays
      /\ serving' = serving /\ told' = told
  BY <1>1, EndsAre DEF BeginScan, Go, ResponderRest, ConnectorStays, work, user, TypeOK, PlacesTyped
<1>5. ConnectorFits(q) /\ ResponderFits(r) /\ Flags /\ Gathered /\ (open => Paired(q, r))
  BY DEF Polite
<1>6. Flags' /\ Gathered' /\ HeadsKept'
  BY <1>1, <1>4, <1>5 DEF Flags, Gathered, HeadsKept
<1>7. Where' = "scan" /\ Where = "waiting"
  BY <1>1, <1>4 DEF Where
<1> HIDE DEF q, r
<1>8. Queue(R)' = <<>>
  BY <1>3, <1>5, <1>7, SingleTail DEF ResponderFits
<1>9. ResponderFits(Queue(R))'
  BY <1>7, <1>8 DEF ResponderFits
<1>10. ASSUME open
       PROVE  at'[C] = "scanning" /\ heard'[C] = None /\ Queue(C)' = <<m>>
  <2>1. at[C] = "scanning" /\ q = <<>> /\ heard[C] = None
    BY <1>3, <1>5, <1>7, <1>10 DEF Paired
  <2> QED
    BY <1>2, <1>3, <1>4, <1>10, <2>1, ConcatEmptySeq DEF ConnectorStays
<1>11. /\ Only(<<m>>, {"ScanProgress"}) /\ <<m>> # <<>> /\ <<m>>[1] = m
       /\ Stream(<<m>>, "ScanProgress", 0 .. MaxReports, {"Snapshot", "Error"})
       /\ Reported(<<m>>, told[R])
  <2>1. 0 \in 0 .. MaxReports /\ 0 <= told[R]
    BY NumbersTyped
  <2>2. /\ Only(<<m>>, {"ScanProgress"}) /\ Range(<<m>>) = {m}
        /\ Stream(<<m>>, "ScanProgress", 0 .. MaxReports, {"Snapshot", "Error"})
    BY <1>2, <2>1, FirstReport
  <2>3. <<m>> # <<>> /\ <<m>>[1] = m
    OBVIOUS
  <2>4. Reported(<<m>>, told[R])
    BY <1>2, <2>1, <2>2 DEF Reported
  <2> QED
    BY <2>2, <2>3, <2>4
<1>12. open => ConnectorFits(Queue(C))'
  BY <1>2, <1>10, <1>11 DEF ConnectorFits, Unheard
<1>13. open => Paired(Queue(C), Queue(R))'
  BY <1>4, <1>7, <1>10, <1>11 DEF Paired
<1>14. ~open => Queue(C)' = Queue(C)
  BY <1>3 DEF q
<1> QED
  BY <1>3, <1>4, <1>6, <1>9, <1>12, <1>13, <1>14, ResponderMoves

LEMMA ReportScanPolite ==
  ASSUME TypeOK, Polite, ReportScan
  PROVE  Polite'
<1> DEFINE q == Queue(C)
           r == Queue(R)
           n == told[R] + 1
           m == MessageOf("ScanProgress", n)
<1>1. at[R] = "scan" /\ told[R] < MaxReports /\ Say(R, <<m>>)
  BY DEF ReportScan
<1>2. told[R] \in Nat /\ n \in Nat /\ MaxReports \in Nat /\ n <= MaxReports
  BY <1>1, NumbersTyped
<1>3. <<m>> \in Seq(Messages) /\ m \in Messages /\ m.type = "ScanProgress" /\ m.arg = n
  BY <1>2, Short, MessagesAre DEF MessageOf
<1> HIDE DEF m
<1>4. /\ r \in Seq(Messages) /\ Queue(R)' = r /\ open' = open
      /\ q \in Seq(Messages) /\ (open => Queue(C)' = q \o <<m>>) /\ (~open => Queue(C)' = q)
  BY <1>1, <1>3, Said, EndsAre DEF TypeOK
<1>5. /\ at' = at /\ heard' = heard /\ batch' = batch /\ wanted' = wanted /\ ConnectorStays
      /\ serving' = serving /\ told'[R] = n
  BY EndsAre DEF ReportScan, ResponderRest, ConnectorStays, work, user, TypeOK, TransfersTyped
<1>6. ConnectorFits(q) /\ ResponderFits(r) /\ Flags /\ Gathered /\ HeadsKept /\ (open => Paired(q, r))
  BY DEF Polite
<1>7. Flags' /\ Gathered' /\ HeadsKept'
  BY <1>1, <1>5, <1>6 DEF Flags, Gathered, HeadsKept
<1>8. Where' = "scan" /\ Where = "scan"
  BY <1>1, <1>5 DEF Where
<1> HIDE DEF q, r, n
<1>9. ResponderFits(Queue(R))'
  BY <1>4, <1>6, <1>8 DEF ResponderFits
<1>10. ASSUME open
       PROVE  ConnectorFits(Queue(C))' /\ Paired(Queue(C), Queue(R))'
  <2>1. /\ at[C] = "scanning" /\ Only(q, {"ScanProgress"}) /\ Reported(q, told[R])
        /\ IF heard[C] = None THEN q # <<>> ELSE heard[C] <= told[R]
    BY <1>6, <1>8, <1>10 DEF Paired
  <2> DEFINE a == IF heard[C] = None THEN 0 ELSE heard[C] + 1
             z == q \o <<m>>
  <2>2. /\ Stream(q, "ScanProgress", a .. MaxReports, {"Snapshot", "Error"})
        /\ heard[C] = None /\ q # <<>> => q[1].type = "ScanProgress" /\ q[1].arg = 0
    BY <1>6, <2>1 DEF ConnectorFits, Unheard
  <2>3. a \in Nat /\ n \in a .. MaxReports /\ told[R] < n
    BY <1>2, <2>1, NumbersTyped DEF n
  <2>4. Unheard' = a .. MaxReports
    BY <1>5 DEF Unheard
  <2> HIDE DEF a
  <2>5. "ScanProgress" \notin {"Snapshot", "Error"}
    OBVIOUS
  <2>6. m.arg \in a .. MaxReports /\ told[R] < m.arg
    BY <1>3, <2>3
  <2>7. /\ Stream(z, "ScanProgress", a .. MaxReports, {"Snapshot", "Error"})
        /\ Only(z, {"ScanProgress"}) /\ Reported(z, m.arg) /\ z # <<>>
        /\ q # <<>> => z[1] = q[1]
    BY <1>2, <1>3, <1>4, <2>1, <2>2, <2>3, <2>5, <2>6, ScanGrows
  <2> HIDE DEF z
  <2>8. Queue(C)' = z
    BY <1>4, <1>10 DEF z
  <2>9. ConnectorFits(Queue(C))'
    BY <1>5, <2>1, <2>2, <2>4, <2>7, <2>8 DEF ConnectorFits
  <2>10. IF heard[C] = None THEN z # <<>> ELSE heard[C] <= n
    BY <1>2, <2>1, <2>3, <2>7, NumbersTyped
  <2>11. Paired(Queue(C), Queue(R))'
    BY <1>3, <1>5, <1>8, <2>1, <2>7, <2>8, <2>10 DEF Paired
  <2> QED
    BY <2>9, <2>11
<1>11. ~open => Queue(C)' = Queue(C)
  BY <1>4 DEF q
<1> QED
  BY <1>4, <1>5, <1>7, <1>9, <1>10, <1>11, ResponderMoves

(* The end of the scan, with or without a result.                          *)
LEMMA ScanEndsPolite ==
  ASSUME TypeOK, Polite, ResponderScans \/ ScanFails
  PROVE  Polite'
<1> DEFINE q == Queue(C)
           r == Queue(R)
<1>1. PICK m : /\ at[R] = "scan" /\ Say(R, <<m>>) /\ m \in Messages
               /\ \/ ResponderScans /\ m.type = "Snapshot" /\ Go(R, "serve")
                  \/ ScanFails /\ m.type = "Error" /\ Go(R, "leaving")
  <2>1. CASE ScanFails
    <3>1. Message("Error") \in Messages /\ Message("Error").type = "Error"
      BY MessagesAre DEF Signals, Message
    <3> QED
      BY <2>1, <3>1 DEF ScanFails
  <2>2. CASE ResponderScans
    <3>1. scan'[R] \in Scans
      BY <2>2, ScansTyped, EndsAre DEF ResponderScans, Scan, TypeOK, PlansTyped
    <3>2. /\ MessageOf("Snapshot", scan'[R]) \in Messages
          /\ MessageOf("Snapshot", scan'[R]).type = "Snapshot"
      BY <3>1, MessagesAre DEF MessageOf
    <3> QED
      BY <2>2, <3>2 DEF ResponderScans
  <2> QED
    BY <2>1, <2>2
<1>2. <<m>> \in Seq(Messages)
  BY <1>1, Short
<1>3. /\ r \in Seq(Messages) /\ Queue(R)' = r /\ open' = open
      /\ q \in Seq(Messages) /\ (open => Queue(C)' = q \o <<m>>) /\ (~open => Queue(C)' = q)
  BY <1>1, <1>2, Said, EndsAre DEF TypeOK
<1>4. /\ at'[R] \in {"serve", "leaving"} /\ heard' = heard /\ batch' = batch /\ wanted' = wanted
      /\ ConnectorStays /\ serving' = serving
      /\ at'[R] = "serve" => m.type = "Snapshot"
  BY <1>1, EndsAre DEF ResponderScans, ScanFails, Go, ResponderRest, ConnectorStays, work, user, TypeOK,
       PlacesTyped, TransfersTyped
<1>5. ConnectorFits(q) /\ ResponderFits(r) /\ Flags /\ Gathered /\ (open => Paired(q, r))
  BY DEF Polite
<1>6. Flags' /\ Gathered' /\ HeadsKept'
  BY <1>1, <1>4, <1>5 DEF Flags, Gathered, HeadsKept
<1>7. Where = "scan" /\ Where' = IF at'[R] = "serve" THEN "gives" ELSE "leaving"
  BY <1>1, <1>4, <1>5 DEF Where, Flags
<1> HIDE DEF q, r
<1>8. Queue(R)' = <<>>
  BY <1>3, <1>5, <1>7 DEF ResponderFits
<1>9. ResponderFits(Queue(R))'
  BY <1>4, <1>7, <1>8, EmptyShapes DEF ResponderFits
<1>10. ASSUME open PROVE ConnectorFits(Queue(C))' /\ at'[C] = "scanning"
  <2>1. /\ at[C] = "scanning" /\ Only(q, {"ScanProgress"}) /\ Reported(q, told[R])
        /\ heard[C] = None => q # <<>>
    BY <1>5, <1>7, <1>10 DEF Paired
  <2> DEFINE a == IF heard[C] = None THEN 0 ELSE heard[C] + 1
             z == q \o <<m>>
  <2>2. /\ Stream(q, "ScanProgress", a .. MaxReports, {"Snapshot", "Error"})
        /\ heard[C] = None => q[1].type = "ScanProgress" /\ q[1].arg = 0
    BY <1>5, <2>1 DEF ConnectorFits, Unheard
  <2>3. a \in Nat /\ MaxReports \in Nat /\ told[R] \in Nat
    BY NumbersTyped
  <2>4. Unheard' = a .. MaxReports
    BY <1>4 DEF Unheard
  <2> HIDE DEF a
  <2>5. "ScanProgress" \notin {"Snapshot", "Error"} /\ m.type \in {"Snapshot", "Error"}
    BY <1>1
  <2>6. /\ Stream(z, "ScanProgress", a .. MaxReports, {"Snapshot", "Error"})
        /\ q # <<>> => z[1] = q[1]
    BY <1>1, <1>3, <2>1, <2>2, <2>3, <2>5, ScanGrows
  <2> HIDE DEF z
  <2>7. Queue(C)' = z
    BY <1>3, <1>10 DEF z
  <2>8. at'[C] = "scanning" /\ heard'[C] = heard[C]
    BY <1>4, <2>1 DEF ConnectorStays
  <2> QED
    BY <2>1, <2>2, <2>4, <2>6, <2>7, <2>8 DEF ConnectorFits
<1>11. open /\ Where' # "leaving" => Paired(Queue(C), Queue(R))'
  BY <1>7, <1>8, <1>10 DEF Paired
<1>12. ~open => Queue(C)' = Queue(C)
  BY <1>3 DEF q
<1> QED
  BY <1>3, <1>4, <1>6, <1>9, <1>10, <1>11, <1>12, ResponderMoves

----------------------------------------------------------------------------
(* The responder's steps while it serves.                                  *)

(* How many objects are missing from the batch.                            *)
LEMMA MissingIs ==
  ASSUME TypeOK, Polite, Where = "receives"
  PROVE  /\ batch.sizes \in Seq(Nat) /\ Len(batch.sizes) \in Nat
         /\ batch.from \in Nat /\ batch.got \in Nat /\ batch.bytes \in Nat
         /\ batch.from <= batch.got /\ batch.got <= Len(batch.sizes)
         /\ Len(wanted[R]) = Len(batch.sizes) - batch.got
         /\ batch.from < Len(batch.sizes) =>
              /\ BatchEnd(batch.sizes, batch.from) \in batch.from + 1 .. Len(batch.sizes)
              /\ Missing \in Nat /\ Missing <= Len(wanted[R])
              /\ Missing = 0 <=> batch.got = BatchEnd(batch.sizes, batch.from)
<1> DEFINE l == Len(batch.sizes)
           e == BatchEnd(batch.sizes, batch.from)
<1>1. /\ batch.sizes \in Seq(Nat) /\ batch.from \in Nat /\ batch.got \in Nat /\ batch.bytes \in Nat
      /\ l \in Nat
  <2>1. batch \in [sizes : Seq(Nat), from : Nat, got : Nat, bytes : Nat]
    BY DEF TypeOK, TransfersTyped
  <2> QED
    BY <2>1, LenProperties
<1>2. serving.ready
  BY WhereIs
<1>3. /\ batch.from <= batch.got /\ batch.got <= l /\ Len(wanted[R]) = l - batch.got
      /\ batch.from < l => batch.got <= e
  BY <1>2 DEF Polite, Gathered
<1>4. batch.from < l => e \in batch.from + 1 .. l
  BY <1>1, BatchEnds
<1> HIDE DEF l, e
<1>5. Missing = e - batch.got
  BY DEF Missing, e
<1>6. batch.from < l => /\ Missing \in Nat /\ Missing <= Len(wanted[R])
                        /\ Missing = 0 <=> batch.got = e
  BY <1>1, <1>3, <1>4, <1>5
<1> QED
  BY <1>1, <1>3, <1>4, <1>6 DEF l, e

(* What may come next, where the responder is served.                      *)
LEMMA ServedNext ==
  ASSUME TypeOK, Polite, at[R] = "serve", NEW q \in Seq(Messages), q = Queue(R), q # <<>>
  PROVE  /\ Where = "gives" => Head(q).type = "Need" /\ Tail(q) = <<>>
         /\ Where = "chooses" => \/ Head(q).type = "Cancel" /\ Tail(q) = <<>>
                                 \/ Head(q).type = "Snapshot" /\ Single(Tail(q), {"Plan"})
         /\ Where = "compares" => Head(q).type = "Plan" /\ Tail(q) = <<>>
         /\ Where = "receives" /\ batch.from < Len(batch.sizes) =>
              \/ /\ Head(q).type = "Object" /\ Missing > 0
                 /\ wanted[R] # <<>> /\ Head(q).arg = Head(wanted[R])
                 /\ Transfer(Tail(q), Tail(wanted[R]), Missing - 1, "BatchEnd")
              \/ Head(q).type = "BatchEnd" /\ Missing = 0 /\ Tail(q) = <<>>
         /\ Where = "receives" /\ ~(batch.from < Len(batch.sizes)) =>
              Head(q).type = "Done" /\ Tail(q) = <<>>
         /\ Where = "hears" =>
              \/ /\ Head(q).type = "ApplyProgress" /\ Head(q).arg \in Left(R)
                 /\ Closing(Tail(q), Head(q).arg + 1 .. Records, "CommitAck")
              \/ Head(q).type = "Heads" /\ Single(Tail(q), {"CommitAck"})
         /\ Where = "acknowledges" => Head(q).type = "CommitAck" /\ Tail(q) = <<>>
<1>1. ResponderFits(q) /\ heard[R] \in Nat
  BY DEF Polite, Flags
<1>2. ASSUME NEW T, Single(q, T) PROVE Tail(q) = <<>> /\ Head(q).type \in T
  BY <1>2, SingleTail
<1>3. Where = "gives" => Head(q).type = "Need" /\ Tail(q) = <<>>
  <2>1. Where = "gives" => Single(q, {"Need"})
    BY <1>1 DEF ResponderFits
  <2> QED
    BY <1>2, <2>1
<1>4. Where = "chooses" => \/ Head(q).type = "Cancel" /\ Tail(q) = <<>>
                           \/ Head(q).type = "Snapshot" /\ Single(Tail(q), {"Plan"})
  <2>1. Where = "chooses" => Single(q, {"Cancel"}) \/ Proposal(q)
    BY <1>1 DEF ResponderFits
  <2>2. Proposal(q) => Head(q).type = "Snapshot" /\ Single(Tail(q), {"Plan"})
    BY ProposalTail
  <2> QED
    BY <1>2, <2>1, <2>2
<1>5. Where = "compares" => Head(q).type = "Plan" /\ Tail(q) = <<>>
  <2>1. Where = "compares" => Single(q, {"Plan"})
    BY <1>1 DEF ResponderFits
  <2> QED
    BY <1>2, <2>1
<1>6. ASSUME Where = "receives", batch.from < Len(batch.sizes)
      PROVE  \/ /\ Head(q).type = "Object" /\ Missing > 0
                /\ wanted[R] # <<>> /\ Head(q).arg = Head(wanted[R])
                /\ Transfer(Tail(q), Tail(wanted[R]), Missing - 1, "BatchEnd")
             \/ Head(q).type = "BatchEnd" /\ Missing = 0 /\ Tail(q) = <<>>
  <2>1. Transfer(q, wanted[R], Missing, "BatchEnd")
    BY <1>1, <1>6 DEF ResponderFits
  <2>2. Missing \in Nat /\ Missing <= Len(wanted[R]) /\ wanted[R] \in Seq(Nat)
    BY <1>6, MissingIs, NumbersTyped
  <2> QED
    BY <2>1, <2>2, TransferTail
<1>7. Where = "receives" /\ ~(batch.from < Len(batch.sizes)) =>
        Head(q).type = "Done" /\ Tail(q) = <<>>
  <2>1. Where = "receives" /\ ~(batch.from < Len(batch.sizes)) => Single(q, {"Done"})
    BY <1>1 DEF ResponderFits
  <2> QED
    BY <1>2, <2>1
<1>8. ASSUME Where = "hears"
      PROVE  \/ /\ Head(q).type = "ApplyProgress" /\ Head(q).arg \in Left(R)
                /\ Closing(Tail(q), Head(q).arg + 1 .. Records, "CommitAck")
             \/ Head(q).type = "Heads" /\ Single(Tail(q), {"CommitAck"})
  <2> DEFINE a == heard[R] + 1
  <2>1. Closing(q, a .. Records, "CommitAck") /\ Left(R) = a .. Records
    BY <1>1, <1>8 DEF ResponderFits, Left
  <2>2. a \in Nat /\ Records \in Nat
    BY <1>1, NumbersTyped
  <2> HIDE DEF a
  <2> QED
    BY <2>1, <2>2, ClosingTail
<1>9. Where = "acknowledges" => Head(q).type = "CommitAck" /\ Tail(q) = <<>>
  <2>1. Where = "acknowledges" => Single(q, {"CommitAck"})
    BY <1>1 DEF ResponderFits
  <2> QED
    BY <1>2, <2>1
<1> QED
  BY <1>3, <1>4, <1>5, <1>6, <1>7, <1>8, <1>9

(* Where the responder is when it takes a message.                         *)
LEMMA ServedWhere ==
  ASSUME TypeOK, Polite, NEW t, Serves(t), NEW q \in Seq(Messages), q = Queue(R), q # <<>>,
         Head(q).type = t
  PROVE  /\ t = "Need" => Where = "gives"
         /\ t \in {"Snapshot", "Cancel"} => Where = "chooses"
         /\ t = "Plan" => Where = "compares"
         /\ t \in {"Object", "BatchEnd"} => Where = "receives" /\ batch.from < Len(batch.sizes)
         /\ t = "Done" => Where = "receives" /\ ~(batch.from < Len(batch.sizes))
         /\ t \in {"ApplyProgress", "Heads"} => Where = "hears"
         /\ t = "CommitAck" => Where = "acknowledges"
<1>1. at[R] = "serve"
  BY DEF Serves
<1>2. Where \in {"gives", "chooses", "compares", "receives", "hears", "acknowledges"}
  BY <1>1, WhereIs
<1> QED
  BY <1>1, <1>2, ServedNext

LEMMA ServeNeedPolite ==
  ASSUME TypeOK, Polite, ServeNeed
  PROVE  Polite'
<1> DEFINE q == Queue(C)
           r == Queue(R)
           s == Arg(R)
           b == [k \in DOMAIN s |-> MessageOf("Object", s[k])] \o <<Message("Done")>>
<1>1. Serves("Need") /\ Gets(R, "Need") /\ Reply(R, b)
  BY DEF ServeNeed, Serves
<1>2. s \in Seq(Nat)
  BY <1>1, Received, EndsAre DEF TypeOK
<1> HIDE DEF s
<1>3. b \in Seq(Messages) /\ Transfer(b, s, Len(s), "Done")
  BY <1>2, ObjectsTyped, AnswerFits
<1> HIDE DEF b
<1>4. /\ r \in Seq(Messages) /\ r # <<>> /\ Queue(R)' = Tail(r) /\ open' = open
      /\ Head(r).type = "Need" /\ Head(r).arg = s /\ Head(r) \in Range(r)
      /\ q \in Seq(Messages) /\ (open => Queue(C)' = q \o b) /\ (~open => Queue(C)' = q)
  BY <1>1, <1>3, ResponderTook DEF TypeOK, s
<1>5. /\ at' = at /\ heard' = heard /\ batch' = batch /\ wanted' = wanted /\ ConnectorStays
      /\ serving' = [serving EXCEPT !.need = TRUE]
  BY DEF ServeNeed, Serving, ResponderRest, ConnectorStays, work, user
<1>6. ConnectorFits(q) /\ ResponderFits(r) /\ Flags /\ Gathered /\ (open => Paired(q, r))
  BY DEF Polite
<1>7. Where = "gives" /\ Tail(r) = <<>> /\ at[R] = "serve"
  BY <1>1, <1>4, ServedWhere, ServedNext DEF Serves
<1>8. /\ serving'.need /\ serving'.snapshot = None /\ ~serving'.ready /\ ~serving'.applied
      /\ serving'.heads = serving.heads
  BY <1>5, <1>7, WhereIs DEF TypeOK, PlansTyped
<1>9. Flags' /\ Gathered' /\ HeadsKept'
  BY <1>5, <1>6, <1>7, <1>8, WhereIs DEF Flags, Gathered, HeadsKept
<1>10. Where' = "chooses"
  BY <1>5, <1>7, <1>8 DEF Where
<1> HIDE DEF q, r
<1>11. ResponderFits(Queue(R))'
  BY <1>4, <1>7, <1>10, EmptyShapes DEF ResponderFits
<1>12. ASSUME open
       PROVE  at'[C] = "objects" /\ Queue(C)' = b /\ wanted'[C] = s
  <2>1. at[C] = "objects" /\ q = <<>> /\ s = wanted[C]
    BY <1>4, <1>6, <1>7, <1>12 DEF Paired
  <2> QED
    BY <1>3, <1>4, <1>5, <1>12, <2>1, ConcatEmptySeq
<1>13. open => ConnectorFits(Queue(C))'
  BY <1>3, <1>12 DEF ConnectorFits
<1>14. open => Paired(Queue(C), Queue(R))'
  BY <1>4, <1>7, <1>10, <1>12 DEF Paired
<1>15. ~open => Queue(C)' = Queue(C)
  BY <1>4 DEF q
<1> QED
  BY <1>4, <1>5, <1>9, <1>11, <1>13, <1>14, <1>15, ResponderMoves

LEMMA ServeSnapshotPolite ==
  ASSUME TypeOK, Polite, ServeSnapshot
  PROVE  Polite'
<1> DEFINE q == Queue(C)
           r == Queue(R)
<1>1. Serves("Snapshot") /\ Gets(R, "Snapshot") /\ Reply(R, <<>>) /\ <<>> \in Seq(Messages)
  BY Short DEF ServeSnapshot, Serves, Consume
<1>2. Arg(R) # None
  BY <1>1, Received, EndsAre, NoneIsNothing DEF TypeOK
<1>3. /\ r \in Seq(Messages) /\ r # <<>> /\ Queue(R)' = Tail(r) /\ open' = open
      /\ Head(r).type = "Snapshot" /\ Queue(C)' = q
  BY <1>1, ResponderTook DEF TypeOK
<1>4. /\ at' = at /\ heard' = heard /\ batch' = batch /\ wanted' = wanted /\ ConnectorStays
      /\ serving' = [serving EXCEPT !.snapshot = Arg(R)]
  BY DEF ServeSnapshot, Serving, ResponderRest, ConnectorStays, work, user
<1>5. ConnectorFits(q) /\ ResponderFits(r) /\ Flags /\ Gathered /\ (open => Paired(q, r))
  BY DEF Polite
<1>6. Where = "chooses" /\ Single(Tail(r), {"Plan"}) /\ at[R] = "serve"
  BY <1>1, <1>3, ServedWhere, ServedNext DEF Serves
<1>7. /\ serving'.snapshot # None /\ ~serving'.ready /\ ~serving'.applied
      /\ serving'.heads = serving.heads
  BY <1>2, <1>4, <1>6, WhereIs DEF TypeOK, PlansTyped
<1>8. Flags' /\ Gathered' /\ HeadsKept'
  BY <1>4, <1>5, <1>6, <1>7, WhereIs DEF Flags, Gathered, HeadsKept
<1>9. Where' = "compares"
  BY <1>4, <1>6, <1>7 DEF Where
<1> HIDE DEF q, r
<1>10. ResponderFits(Queue(R))'
  BY <1>3, <1>6, <1>9 DEF ResponderFits
<1>11. open => at[C] = "proposed" /\ q = <<>>
  <2>1. r[1] \in Range(r) /\ r[1].type = "Snapshot"
    BY <1>3, TailOf, TailIs
  <2> QED
    BY <1>3, <1>5, <1>6, <2>1 DEF Paired, Only
<1>12. open => ConnectorFits(Queue(C))'
  BY <1>3, <1>4, <1>11, EmptyShapes DEF ConnectorFits
<1>13. open => Paired(Queue(C), Queue(R))'
  BY <1>3, <1>4, <1>9, <1>11 DEF Paired
<1>14. ~open => Queue(C)' = Queue(C)
  BY <1>3 DEF q
<1> QED
  BY <1>3, <1>4, <1>8, <1>10, <1>12, <1>13, <1>14, ResponderMoves

LEMMA ServePlanPolite ==
  ASSUME TypeOK, Polite, ServePlan
  PROVE  Polite'
<1> DEFINE q == Queue(C)
           r == Queue(R)
<1>1. PICK sizes \in Requests : /\ Reply(R, <<MessageOf("Need", sizes)>>)
                                /\ wanted' = [wanted EXCEPT ![R] = sizes]
                                /\ batch' = [NothingGot EXCEPT !.sizes = sizes]
  BY DEF ServePlan
<1> DEFINE m == MessageOf("Need", sizes)
<1>2. sizes \in Seq(Nat) /\ <<m>> \in Seq(Messages) /\ m.type = "Need" /\ m.arg = sizes
  BY Short, MessagesAre, OneShotConstants DEF MessageOf
<1>3. Serves("Plan") /\ Gets(R, "Plan") /\ Reply(R, <<m>>)
  BY <1>1 DEF ServePlan, Serves
<1> HIDE DEF m
<1>4. /\ r \in Seq(Messages) /\ r # <<>> /\ Queue(R)' = Tail(r) /\ open' = open
      /\ Head(r).type = "Plan"
      /\ q \in Seq(Messages) /\ (open => Queue(C)' = q \o <<m>>) /\ (~open => Queue(C)' = q)
  BY <1>2, <1>3, ResponderTook DEF TypeOK
<1>5. /\ at' = at /\ heard' = heard /\ wanted'[R] = sizes /\ ConnectorStays
      /\ serving' = [serving EXCEPT !.ready = TRUE]
      /\ batch' = [sizes |-> sizes, from |-> 0, got |-> 0, bytes |-> 0]
  BY <1>1, EndsAre DEF ServePlan, Serving, ResponderRest, ConnectorStays, work, user, TypeOK, TransfersTyped,
       NothingGot
<1>6. ConnectorFits(q) /\ ResponderFits(r) /\ Flags /\ (open => Paired(q, r))
  BY DEF Polite
<1>7. Where = "compares" /\ Tail(r) = <<>> /\ at[R] = "serve"
  BY <1>3, <1>4, ServedWhere, ServedNext DEF Serves
<1>8. serving'.ready /\ ~serving'.applied /\ serving'.heads = serving.heads
  BY <1>5, <1>7, WhereIs DEF TypeOK, PlansTyped
<1>9. Flags' /\ HeadsKept'
  BY <1>5, <1>6, <1>7, <1>8, WhereIs DEF Flags, HeadsKept
<1>10. Gathered'
  <2>1. Len(sizes) \in Nat /\ Bytes(SubSeq(sizes, 1, 0)) = 0
    BY <1>2, LenProperties, BytesGrow
  <2>2. 0 < Len(sizes) => BatchEnd(sizes, 0) \in 0 + 1 .. Len(sizes)
    BY <1>2, BatchEnds
  <2>3. 0 < Len(sizes) => 0 <= BatchEnd(sizes, 0)
    BY <2>2
  <2>4. \A k \in DOMAIN sizes : sizes[k] = sizes[0 + k]
    BY <1>2, LenProperties
  <2>5. 0 <= 0 /\ 0 <= Len(sizes) /\ Len(sizes) = Len(sizes) - 0
    BY <2>1
  <2> QED
    BY <1>5, <2>1, <2>3, <2>4, <2>5 DEF Gathered
<1>11. Where' = "receives"
  BY <1>5, <1>7, <1>8 DEF Where
<1> HIDE DEF q, r
<1>12. ResponderFits(Queue(R))'
  BY <1>4, <1>7, <1>11, EmptyShapes DEF ResponderFits
<1>13. ASSUME open PROVE at'[C] = "proposed" /\ Queue(C)' = <<m>>
  <2>1. at[C] = "proposed" /\ q = <<>>
    BY <1>4, <1>6, <1>7, <1>13 DEF Paired
  <2> QED
    BY <1>2, <1>4, <1>5, <1>13, <2>1, ConcatEmptySeq
<1>14. Single(<<m>>, {"Need"}) /\ Range(<<m>>) = {m}
  BY <1>2, ShortShapes, ShortRanges
<1>15. open => ConnectorFits(Queue(C))'
  BY <1>13, <1>14 DEF ConnectorFits
<1>16. open => Paired(Queue(C), Queue(R))'
  BY <1>2, <1>4, <1>5, <1>7, <1>11, <1>13, <1>14 DEF Paired
<1>17. ~open => Queue(C)' = Queue(C)
  BY <1>4 DEF q
<1> QED
  BY <1>4, <1>5, <1>9, <1>10, <1>12, <1>15, <1>16, <1>17, ResponderMoves

(* The responder leaves with a last word.                                  *)
LEMMA LeavingPolite ==
  ASSUME TypeOK, Polite, NEW t, Gets(R, t), at[R] = "serve", NEW msgs \in Seq(Messages),
         Reply(R, msgs), Go(R, "leaving"),
         UNCHANGED <<wanted, giving, batch, serving, heard, told>>,
         open => ConnectorFits(Queue(C))'
  PROVE  Polite'
<1>1. open' = open /\ (~open => Queue(C)' = Queue(C))
  BY ResponderTook DEF TypeOK
<1>2. at'[R] = "leaving" /\ ConnectorStays
  BY EndsAre DEF Go, ConnectorStays, TypeOK, PlacesTyped
<1>3. Where' = "leaving"
  BY <1>2 DEF Where
<1>4. Flags' /\ Gathered' /\ HeadsKept' /\ ResponderFits(Queue(R))'
  BY <1>2, <1>3 DEF Polite, Flags, Gathered, HeadsKept, ResponderFits
<1> QED
  BY <1>1, <1>2, <1>3, <1>4, ResponderMoves

LEMMA PlanTooLargePolite ==
  ASSUME TypeOK, Polite, PlanTooLarge
  PROVE  Polite'
<1> DEFINE q == Queue(C)
           r == Queue(R)
           a == Message("Error")
           b == Message("Done")
<1>1. Serves("Plan") /\ Gets(R, "Plan") /\ Reply(R, <<a, b>>) /\ Go(R, "leaving") /\ at[R] = "serve"
  BY DEF PlanTooLarge, Serves
<1>2. <<a, b>> \in Seq(Messages) /\ a.type = "Error"
  BY Short, MessagesAre DEF Signals, Message
<1> HIDE DEF a, b
<1>3. /\ r \in Seq(Messages) /\ r # <<>> /\ Head(r).type = "Plan"
      /\ q \in Seq(Messages) /\ (open => Queue(C)' = q \o <<a, b>>)
  BY <1>1, <1>2, ResponderTook DEF TypeOK
<1>4. Where = "compares"
  BY <1>1, <1>3, ServedWhere
<1>5. open => Paired(q, r)
  BY DEF Polite
<1> HIDE DEF q, r
<1>6. ASSUME open PROVE ConnectorFits(Queue(C))'
  <2>1. at[C] = "proposed" /\ q = <<>>
    BY <1>3, <1>4, <1>5, <1>6 DEF Paired
  <2>2. Queue(C)' = <<a, b>>
    BY <1>2, <1>3, <1>6, <2>1, ConcatEmptySeq
  <2>3. at'[C] = "proposed"
    BY <1>1, <2>1, EndsAre DEF Go, TypeOK, PlacesTyped
  <2>4. <<a, b>>[1] = a
    OBVIOUS
  <2> QED
    BY <1>2, <2>2, <2>3, <2>4 DEF ConnectorFits
<1>7. UNCHANGED <<wanted, giving, batch, serving, heard, told>>
  BY DEF PlanTooLarge, Serving, ResponderRest
<1> QED
  BY <1>1, <1>2, <1>6, <1>7, LeavingPolite

(* The end is confirmed.                                                   *)
LEMMA ServeEndPolite ==
  ASSUME TypeOK, Polite, ServeCancel \/ ServeCommit
  PROVE  Polite'
<1> DEFINE q == Queue(C)
           r == Queue(R)
           m == Message("Done")
<1>1. PICK t \in {"Cancel", "CommitAck"} :
        Serves(t) /\ Gets(R, t) /\ Reply(R, <<m>>) /\ Go(R, "leaving") /\ at[R] = "serve"
  BY DEF ServeCancel, ServeCommit, Serves
<1>2. <<m>> \in Seq(Messages) /\ m.type = "Done"
  BY Short, MessagesAre DEF Signals, Message
<1> HIDE DEF m
<1>3. /\ r \in Seq(Messages) /\ r # <<>> /\ Head(r).type = t /\ Head(r) \in Range(r)
      /\ q \in Seq(Messages) /\ (open => Queue(C)' = q \o <<m>>)
  BY <1>1, <1>2, ResponderTook DEF TypeOK
<1>4. /\ t = "Cancel" => Where = "chooses"
      /\ t = "CommitAck" => Where = "acknowledges"
  BY <1>1, <1>3, ServedWhere
<1>5. open => Paired(q, r)
  BY DEF Polite
<1> HIDE DEF q, r
<1>6. ASSUME open PROVE ConnectorFits(Queue(C))'
  <2>1. at[C] \in {"cancelled", "finish"} /\ q = <<>>
    BY <1>1, <1>3, <1>4, <1>5, <1>6 DEF Paired, Only
  <2>2. Queue(C)' = <<m>>
    BY <1>2, <1>3, <1>6, <2>1, ConcatEmptySeq
  <2>3. at'[C] = at[C]
    BY <1>1, EndsAre DEF Go, TypeOK, PlacesTyped
  <2>4. Single(<<m>>, {"Done"})
    BY <1>2, ShortShapes
  <2> QED
    BY <2>1, <2>2, <2>3, <2>4 DEF ConnectorFits
<1>7. UNCHANGED <<wanted, giving, batch, serving, heard, told>>
  BY DEF ServeCancel, ServeCommit, Serving, ResponderRest, objects, reports
<1> QED
  BY <1>1, <1>2, <1>6, <1>7, LeavingPolite

LEMMA ListTail ==
  ASSUME NEW w \in Seq(Nat), w # <<>>
  PROVE  /\ Len(Tail(w)) = Len(w) - 1 /\ Head(w) = w[1] /\ 1 \in DOMAIN w
         /\ DOMAIN Tail(w) = 1 .. Len(w) - 1 /\ \A k \in 1 .. Len(w) - 1 : Tail(w)[k] = w[k + 1]
         /\ Len(w) \in Nat \ {0} /\ DOMAIN w = 1 .. Len(w)
<1>1. /\ Len(Tail(w)) = Len(w) - 1 /\ Tail(w) \in Seq(Nat) /\ Head(w) = w[1]
      /\ \A k \in 1 .. Len(w) - 1 : Tail(w)[k] = w[k + 1]
      /\ Len(w) \in Nat \ {0} /\ DOMAIN w = 1 .. Len(w)
  BY HeadTailProperties, LenProperties, EmptySeq
<1>2. DOMAIN Tail(w) = 1 .. Len(Tail(w))
  BY <1>1, LenProperties
<1> QED
  BY <1>1, <1>2

LEMMA ServeObjectPolite ==
  ASSUME TypeOK, Polite, ServeObject
  PROVE  Polite'
<1> DEFINE q == Queue(C)
           r == Queue(R)
           s == batch.sizes
           w == wanted[R]
           e == BatchEnd(s, batch.from)
<1>1. Serves("Object") /\ Gets(R, "Object") /\ Reply(R, <<>>) /\ <<>> \in Seq(Messages)
  BY Short DEF ServeObject, Serves, Consume
<1>2. /\ r \in Seq(Messages) /\ r # <<>> /\ Queue(R)' = Tail(r) /\ open' = open
      /\ Head(r).type = "Object" /\ Head(r).arg = Arg(R) /\ Queue(C)' = q
  BY <1>1, ResponderTook DEF TypeOK
<1>3. /\ Where = "receives" /\ batch.from < Len(s) /\ at[R] = "serve" /\ Missing > 0 /\ w # <<>>
      /\ Arg(R) = Head(w) /\ Transfer(Tail(r), Tail(w), Missing - 1, "BatchEnd")
  BY <1>1, <1>2, ServedWhere, ServedNext DEF Serves
<1>4. /\ at' = at /\ heard' = heard /\ serving' = serving /\ stored' = stored /\ plan' = plan
      /\ wanted'[R] = Tail(w) /\ ConnectorStays
      /\ batch' = [batch EXCEPT !.got = batch.got + 1, !.bytes = batch.bytes + Arg(R)]
  BY EndsAre DEF ServeObject, Serving, ResponderRest, ConnectorStays, work, user, TypeOK, TransfersTyped
<1>5. /\ s \in Seq(Nat) /\ Len(s) \in Nat /\ batch.from \in Nat /\ batch.got \in Nat
      /\ batch.from <= batch.got /\ batch.got <= Len(s) /\ Len(w) = Len(s) - batch.got
      /\ e \in batch.from + 1 .. Len(s) /\ Missing \in Nat /\ Missing = e - batch.got
      /\ w \in Seq(Nat)
  BY <1>3, MissingIs, NumbersTyped DEF Missing
<1>6. /\ ConnectorFits(q) /\ Flags /\ Gathered /\ HeadsKept /\ (open => Paired(q, r))
      /\ serving.ready /\ ~serving.applied
  BY <1>3, WhereIs DEF Polite
<1>7. /\ batch'.sizes = s /\ batch'.from = batch.from /\ batch'.got = batch.got + 1
      /\ batch'.bytes = batch.bytes + Head(w)
  BY <1>3, <1>4 DEF TypeOK, TransfersTyped
<1>8. /\ Len(Tail(w)) = Len(w) - 1 /\ Head(w) = w[1] /\ 1 \in DOMAIN w
      /\ DOMAIN Tail(w) = 1 .. Len(w) - 1 /\ \A k \in 1 .. Len(w) - 1 : Tail(w)[k] = w[k + 1]
      /\ Len(w) \in Nat \ {0} /\ DOMAIN w = 1 .. Len(w)
  BY <1>3, <1>5, ListTail
<1>9. Gathered'
  <2> DEFINE g == batch.got
  <2>1. /\ g \in 0 .. Len(s) - 1 /\ g + 1 <= Len(s) /\ g + 1 <= e /\ batch.from <= g + 1
        /\ Len(Tail(w)) = Len(s) - (g + 1)
    <3> DEFINE l == Len(s)
               v == Len(w)
    <3>1. /\ batch.from < l /\ Missing > 0 /\ l \in Nat /\ batch.from \in Nat /\ g \in Nat
          /\ batch.from <= g /\ g <= l /\ v = l - g /\ e \in batch.from + 1 .. l
          /\ Missing \in Nat /\ Missing = e - g /\ Len(Tail(w)) = v - 1 /\ v \in Nat \ {0}
      BY <1>3, <1>5, <1>8
    <3> HIDE DEF l, v, e, g
    <3>2. /\ g \in 0 .. l - 1 /\ g + 1 <= l /\ g + 1 <= e /\ batch.from <= g + 1
          /\ Len(Tail(w)) = l - (g + 1)
      BY <3>1
    <3> QED
      BY <3>2 DEF l
  <2>2. \A k \in DOMAIN w : w[k] = s[g + k]
    BY <1>6 DEF Gathered
  <2>3. Bytes(SubSeq(s, 1, g + 1)) = batch.bytes + Head(w)
    <3>1. Bytes(SubSeq(s, 1, g + 1)) = Bytes(SubSeq(s, 1, g)) + s[g + 1]
      BY <1>5, <2>1, BytesGrow
    <3>2. batch.bytes = Bytes(SubSeq(s, 1, g))
      BY <1>6 DEF Gathered
    <3> QED
      BY <1>8, <2>2, <3>1, <3>2
  <2>4. ASSUME NEW k \in DOMAIN Tail(w) PROVE Tail(w)[k] = s[g + 1 + k]
    <3>1. k \in 1 .. Len(w) - 1 /\ g \in Nat /\ Len(w) \in Nat \ {0} /\ DOMAIN w = 1 .. Len(w)
      BY <1>5, <1>8
    <3>2. k + 1 \in DOMAIN w /\ g + (k + 1) = g + 1 + k
      <4> HIDE DEF g, w
      <4> QED
        BY <3>1
    <3> QED
      BY <1>8, <2>2, <3>1, <3>2
  <2> HIDE DEF g, e, w, s
  <2>5. batch'.sizes = s /\ batch'.from = batch.from /\ batch'.got = g + 1
        /\ batch'.bytes = batch.bytes + Head(w) /\ wanted'[R] = Tail(w)
    BY <1>4, <1>7 DEF g
  <2>6. batch'.from < Len(batch'.sizes) => batch'.got <= BatchEnd(batch'.sizes, batch'.from)
    BY <2>1, <2>5 DEF e
  <2> QED
    BY <2>1, <2>3, <2>4, <2>5, <2>6 DEF Gathered
<1>10. Where' = "receives" /\ Flags' /\ HeadsKept'
  BY <1>3, <1>4, <1>6 DEF Where, Flags, HeadsKept
<1>11. Missing' = Missing - 1
  <2> HIDE DEF e
  <2>1. Missing' = e - (batch.got + 1)
    BY <1>7 DEF Missing, e
  <2> QED
    BY <1>5, <2>1
<1> HIDE DEF q, r
<1>12. ResponderFits(Queue(R))'
  BY <1>2, <1>3, <1>4, <1>7, <1>10, <1>11 DEF ResponderFits
<1>13. ASSUME open PROVE Paired(Queue(C), Queue(R))' /\ at[C] = "sending"
  <2>1. /\ at[C] = "sending" /\ q = <<>> /\ giving.sizes = s /\ giving.sent = batch.from
    <3>1. batch.from # Len(s)
      BY <1>3, <1>5
    <3>2. \/ at[C] = "sending" /\ q = <<>> /\ giving.sizes = s /\ giving.sent = batch.from
          \/ r = <<>> \/ batch.from = Len(s)
      BY <1>3, <1>6, <1>13 DEF Paired
    <3> QED
      BY <1>2, <3>1, <3>2
  <2> QED
    BY <1>2, <1>4, <1>7, <1>10, <2>1 DEF Paired, ConnectorStays
<1>14. open => ConnectorFits(Queue(C))'
  <2>1. ConnectorFits(Queue(C))' = ConnectorFits(Queue(C))
    BY <1>2, <1>4, ConnectorKept DEF q
  <2> QED
    BY <1>6, <2>1 DEF q
<1>15. ~open => Queue(C)' = Queue(C)
  BY <1>2 DEF q
<1> QED
  BY <1>2, <1>4, <1>9, <1>10, <1>12, <1>13, <1>14, <1>15, ResponderMoves

LEMMA ServeBatchEndPolite ==
  ASSUME TypeOK, Polite, ServeBatchEnd
  PROVE  Polite'
<1> DEFINE q == Queue(C)
           r == Queue(R)
           s == batch.sizes
           e == BatchEnd(s, batch.from)
           m == MessageOf("Receipt", Receipt(batch))
<1>1. Serves("BatchEnd") /\ Gets(R, "BatchEnd") /\ Reply(R, <<m>>)
  BY DEF ServeBatchEnd, Serves
<1>2. /\ <<m>> \in Seq(Messages) /\ m.type = "Receipt"
      /\ m.arg = [objects |-> batch.got, bytes |-> batch.bytes]
  <2>1. Receipt(batch) \in [objects : Nat, bytes : Nat]
    BY DEF Receipt, TypeOK, TransfersTyped
  <2> QED
    BY <2>1, Short, MessagesAre DEF MessageOf, Receipt
<1> HIDE DEF m
<1>3. /\ r \in Seq(Messages) /\ r # <<>> /\ Queue(R)' = Tail(r) /\ open' = open
      /\ Head(r).type = "BatchEnd"
      /\ q \in Seq(Messages) /\ (open => Queue(C)' = q \o <<m>>) /\ (~open => Queue(C)' = q)
  BY <1>1, <1>2, ResponderTook DEF TypeOK
<1>4. /\ Where = "receives" /\ batch.from < Len(s) /\ at[R] = "serve" /\ Missing = 0
      /\ Tail(r) = <<>>
  BY <1>1, <1>3, ServedWhere, ServedNext DEF Serves
<1>5. /\ at' = at /\ heard' = heard /\ serving' = serving /\ stored' = stored /\ plan' = plan
      /\ wanted' = wanted /\ ConnectorStays /\ batch' = [batch EXCEPT !.from = batch.got]
  BY DEF ServeBatchEnd, Serving, ResponderRest, ConnectorStays, work, user
<1>6. /\ s \in Seq(Nat) /\ Len(s) \in Nat /\ batch.from \in Nat /\ batch.got \in Nat
      /\ batch.got <= Len(s) /\ batch.got = e
  BY <1>4, MissingIs
<1>7. /\ ConnectorFits(q) /\ Flags /\ Gathered /\ HeadsKept /\ (open => Paired(q, r))
      /\ serving.ready /\ ~serving.applied
  BY <1>4, WhereIs DEF Polite
<1>8. /\ batch'.sizes = s /\ batch'.from = e /\ batch'.got = e /\ batch'.bytes = batch.bytes
  BY <1>5, <1>6 DEF TypeOK, TransfersTyped
<1>9. Gathered'
  <2>1. e < Len(s) => e <= BatchEnd(s, e)
    <3> HIDE DEF e
    <3>1. e < Len(s) => BatchEnd(s, e) \in e + 1 .. Len(s)
      BY <1>6, BatchEnds
    <3> QED
      BY <1>6, <3>1
  <2>2. /\ Len(wanted[R]) = Len(s) - e /\ \A k \in DOMAIN wanted[R] : wanted[R][k] = s[e + k]
        /\ batch.bytes = Bytes(SubSeq(s, 1, e))
    BY <1>6, <1>7 DEF Gathered
  <2>3. e <= e /\ e <= Len(s)
    BY <1>6
  <2> HIDE DEF e, s
  <2> QED
    BY <1>5, <1>8, <2>1, <2>2, <2>3 DEF Gathered
<1>10. Where' = "receives" /\ Flags' /\ HeadsKept'
  BY <1>4, <1>5, <1>7 DEF Where, Flags, HeadsKept
<1> HIDE DEF q, r, e
<1>11. ResponderFits(Queue(R))'
  BY <1>3, <1>4, <1>10, EmptyShapes DEF ResponderFits
<1>12. ASSUME open
       PROVE  /\ at'[C] = "sending" /\ Queue(C)' = <<m>> /\ giving' = giving /\ giving.sizes = s
              /\ giving.sent = batch.from /\ heard'[C] = 0
  <2>1. at[C] = "sending" /\ q = <<>> /\ giving.sizes = s /\ giving.sent = batch.from
    <3>1. batch.from # Len(s)
      BY <1>4, <1>6
    <3>2. \/ at[C] = "sending" /\ q = <<>> /\ giving.sizes = s /\ giving.sent = batch.from
          \/ r = <<>> \/ batch.from = Len(s)
      BY <1>4, <1>7, <1>12 DEF Paired
    <3> QED
      BY <1>3, <3>1, <3>2
  <2>2. heard[C] = 0
    BY <1>7, <2>1 DEF ConnectorFits
  <2> QED
    BY <1>2, <1>3, <1>5, <1>12, <2>1, <2>2, ConcatEmptySeq DEF ConnectorStays
<1>13. Single(<<m>>, {"Receipt"}) /\ Range(<<m>>) = {m}
  BY <1>2, ShortShapes, ShortRanges
<1>14. ASSUME open PROVE ConnectorFits(Queue(C))'
  <2>1. m.arg = ReceiptOf(s, e)
    BY <1>2, <1>6, <1>7 DEF Gathered, ReceiptOf
  <2>2. m.arg = ReceiptOf(giving'.sizes, BatchEnd(giving'.sizes, giving'.sent))
    BY <1>12, <1>14, <2>1 DEF e
  <2> QED
    BY <1>12, <1>13, <1>14, <2>2 DEF ConnectorFits
<1>15. ASSUME open PROVE Paired(Queue(C), Queue(R))'
  <2>1. batch'.from = BatchEnd(giving'.sizes, giving'.sent) /\ batch'.got = batch'.from
        /\ giving'.sizes = batch'.sizes
    BY <1>8, <1>12, <1>15 DEF e
  <2> QED
    BY <1>3, <1>4, <1>10, <1>12, <1>15, <2>1 DEF Paired
<1>16. ~open => Queue(C)' = Queue(C)
  BY <1>3 DEF q
<1> QED
  BY <1>3, <1>5, <1>9, <1>10, <1>11, <1>14, <1>15, <1>16, ResponderMoves

LEMMA ServeDonePolite ==
  ASSUME TypeOK, Polite, ServeDone
  PROVE  Polite'
<1> DEFINE q == Queue(C)
           r == Queue(R)
<1>1. Serves("Done") /\ Gets(R, "Done") /\ Reply(R, <<>>) /\ <<>> \in Seq(Messages)
  BY Short DEF ServeDone, Serves, Consume
<1>2. /\ r \in Seq(Messages) /\ r # <<>> /\ Queue(R)' = Tail(r) /\ open' = open
      /\ Head(r).type = "Done" /\ Queue(C)' = q
  BY <1>1, ResponderTook DEF TypeOK
<1>3. /\ Where = "receives" /\ ~(batch.from < Len(batch.sizes)) /\ at[R] = "serve" /\ Tail(r) = <<>>
  BY <1>1, <1>2, ServedWhere, ServedNext DEF Serves
<1>4. /\ at'[R] = "apply" /\ heard' = heard /\ told' = told /\ serving' = serving
      /\ wanted' = wanted /\ batch' = batch /\ ConnectorStays
  BY EndsAre DEF ServeDone, Go, Serving, ResponderRest, ConnectorStays, work, user, TypeOK, PlacesTyped
<1>5. ConnectorFits(q) /\ Flags /\ Gathered /\ (open => Paired(q, r)) /\ ~serving.applied
  BY <1>3, WhereIs DEF Polite
<1>6. Where' = "apply" /\ Flags' /\ Gathered' /\ HeadsKept'
  BY <1>3, <1>4, <1>5 DEF Where, Flags, Gathered, HeadsKept
<1> HIDE DEF q, r
<1>7. ResponderFits(Queue(R))'
  BY <1>2, <1>3, <1>6 DEF ResponderFits
<1>8. open => at[C] = "applying" /\ q = <<>> /\ heard[C] = 0
  <2>1. ~(at[C] = "sending" /\ giving.sizes = batch.sizes /\ giving.sent = batch.from)
    BY <1>3 DEF TypeOK, TransfersTyped
  <2> QED
    BY <1>2, <1>3, <1>5, <2>1 DEF Paired
<1>9. open => Paired(Queue(C), Queue(R))'
  <2>1. 0 <= told[R] /\ Only(<<>>, {"ApplyProgress"}) /\ Reported(<<>>, told[R])
    BY EmptyShapes, NumbersTyped
  <2> QED
    BY <1>2, <1>4, <1>6, <1>8, <2>1 DEF Paired, ConnectorStays
<1>10. open => ConnectorFits(Queue(C))'
  <2>1. ConnectorFits(Queue(C))' = ConnectorFits(Queue(C))
    BY <1>2, <1>4, ConnectorKept DEF q
  <2> QED
    BY <1>5, <2>1 DEF q
<1>11. ~open => Queue(C)' = Queue(C)
  BY <1>2 DEF q
<1> QED
  BY <1>2, <1>4, <1>6, <1>7, <1>9, <1>10, <1>11, ResponderMoves

----------------------------------------------------------------------------
(* The responder's steps while it applies, and after.                      *)

LEMMA ApplyingIs ==
  ASSUME TypeOK, Polite, at[R] = "apply"
  PROVE  /\ Where = "apply" /\ serving.ready /\ ~serving.applied /\ serving.heads = None
         /\ heard[R] = 0 /\ Queue(R) = <<>>
         /\ open => /\ at[C] = "applying" /\ Only(Queue(C), {"ApplyProgress"})
                    /\ Reported(Queue(C), told[R]) /\ heard[C] \in Nat /\ heard[C] <= told[R]
                    /\ Stream(Queue(C), "ApplyProgress", Left(C), {"Error"})
                    /\ Closing(Queue(C), Left(C), "Applied")
<1>1. Where = "apply" /\ serving.ready
  BY DEF Where, TypeOK, PlansTyped
<1>2. ~serving.applied /\ serving.heads = None /\ heard[R] = 0
  BY <1>1 DEF Polite, Flags
<1>3. Queue(R) = <<>>
  BY <1>1 DEF Polite, ResponderFits
<1> DEFINE q == Queue(C)
<1>4. ASSUME open
      PROVE  /\ at[C] = "applying" /\ Only(q, {"ApplyProgress"}) /\ Reported(q, told[R])
             /\ heard[C] \in Nat /\ heard[C] <= told[R]
             /\ Stream(q, "ApplyProgress", Left(C), {"Error"}) /\ Closing(q, Left(C), "Applied")
  <2>1. q \in Seq(Messages)
    BY QueueTyped, EndsAre DEF TypeOK
  <2>2. Paired(q, Queue(R)) /\ ConnectorFits(q)
    BY <1>4 DEF Polite
  <2> HIDE DEF q
  <2>3. /\ at[C] = "applying" /\ Only(q, {"ApplyProgress"}) /\ Reported(q, told[R])
        /\ heard[C] <= told[R]
    BY <1>1, <2>2 DEF Paired
  <2>4. /\ heard[C] # None
        /\ Stream(q, "ApplyProgress", Left(C), {"Error"}) \/ Closing(q, Left(C), "Applied")
    BY <2>2, <2>3 DEF ConnectorFits
  <2>5. heard[C] \in Nat
    BY <2>4, NumbersTyped
  <2>6. "ApplyProgress" \notin {"Error"}
    OBVIOUS
  <2>7. Stream(q, "ApplyProgress", Left(C), {"Error"}) <=> Closing(q, Left(C), "Applied")
    BY <2>1, <2>3, <2>6, StreamIsClosing
  <2> QED
    BY <2>3, <2>4, <2>5, <2>7
<1> QED
  BY <1>1, <1>2, <1>3, <1>4

LEMMA ResponderReportsPolite ==
  ASSUME TypeOK, Polite, ResponderReports
  PROVE  Polite'
<1> DEFINE q == Queue(C)
           r == Queue(R)
<1>1. PICK n \in 1 .. Records : /\ n > told[R] /\ Say(R, <<MessageOf("ApplyProgress", n)>>)
                                /\ told' = [told EXCEPT ![R] = n]
  BY DEF ResponderReports, Reports
<1> DEFINE m == MessageOf("ApplyProgress", n)
<1>2. <<m>> \in Seq(Messages) /\ m \in Messages /\ m.type = "ApplyProgress" /\ m.arg = n
  BY Short, MessagesAre DEF MessageOf
<1>3. Say(R, <<m>>)
  BY <1>1
<1> HIDE DEF m
<1>4. /\ Queue(R)' = r /\ q \in Seq(Messages) /\ open' = open
      /\ (open => Queue(C)' = q \o <<m>>) /\ (~open => Queue(C)' = q)
  BY <1>2, <1>3, Said, EndsAre DEF TypeOK
<1>5. /\ at[R] = "apply" /\ at' = at /\ told'[R] = n /\ heard' = heard /\ serving' = serving
      /\ wanted' = wanted /\ batch' = batch /\ ConnectorStays
  BY <1>1, EndsAre DEF ResponderReports, Reports, ConnectorStays, disk, user, work, objects, TypeOK,
       TransfersTyped
<1>6. /\ Where = "apply" /\ r = <<>> /\ ~serving.applied /\ serving.ready /\ Flags /\ Gathered
      /\ open => /\ at[C] = "applying" /\ Only(q, {"ApplyProgress"}) /\ Reported(q, told[R])
                 /\ heard[C] \in Nat /\ heard[C] <= told[R]
                 /\ Stream(q, "ApplyProgress", Left(C), {"Error"})
  BY <1>5, ApplyingIs DEF Polite
<1>7. told[R] \in Nat /\ Records \in Nat /\ n \in Nat
  BY <1>1, NumbersTyped
<1>8. Where' = "apply" /\ Flags' /\ Gathered' /\ HeadsKept'
  BY <1>5, <1>6 DEF Where, Flags, Gathered, HeadsKept
<1> HIDE DEF q, r
<1>9. ResponderFits(Queue(R))'
  BY <1>4, <1>6, <1>8 DEF ResponderFits
<1>10. ASSUME open PROVE ConnectorFits(Queue(C))' /\ Paired(Queue(C), Queue(R))'
  <2> DEFINE a == heard[C] + 1
             z == q \o <<m>>
  <2>1. a \in Nat /\ n \in a .. Records /\ Left(C) = a .. Records /\ Left(C)' = a .. Records
        /\ heard[C] <= n
    BY <1>1, <1>5, <1>6, <1>7, <1>10 DEF Left
  <2>2. Stream(q, "ApplyProgress", a .. Records, {"Error"})
    BY <1>6, <1>10, <2>1
  <2> HIDE DEF a
  <2>3. m.arg \in a .. Records /\ told[R] < m.arg
    BY <1>1, <1>2, <1>7, <2>1
  <2>4. /\ Stream(z, "ApplyProgress", a .. Records, {"Error"})
        /\ Only(z, {"ApplyProgress"}) /\ Reported(z, m.arg)
    BY <1>2, <1>4, <1>6, <1>7, <1>10, <2>1, <2>2, <2>3, ApplyGrows
  <2>5. Queue(C)' = z /\ at'[C] = "applying" /\ heard'[C] = heard[C] /\ heard[C] # None
    BY <1>4, <1>5, <1>6, <1>10, NumbersAre
  <2> HIDE DEF z
  <2>6. ConnectorFits(Queue(C))'
    BY <2>1, <2>4, <2>5 DEF ConnectorFits
  <2>7. Paired(Queue(C), Queue(R))'
    BY <1>2, <1>5, <1>8, <2>1, <2>4, <2>5 DEF Paired
  <2> QED
    BY <2>6, <2>7
<1>11. ~open => Queue(C)' = Queue(C)
  BY <1>4 DEF q
<1> QED
  BY <1>4, <1>5, <1>8, <1>9, <1>10, <1>11, ResponderMoves

LEMMA ResponderAppliesPolite ==
  ASSUME TypeOK, Polite, ResponderApplies
  PROVE  Polite'
<1> DEFINE q == Queue(C)
           r == Queue(R)
           h == MessageOf("Heads", Outcome(plan[R]))
           z == Message("Applied")
<1>1. at[R] = "apply" /\ Say(R, <<h, z>>)
  BY DEF ResponderApplies
<1>2. /\ Where = "apply" /\ r = <<>> /\ ~serving.applied /\ serving.ready /\ serving.heads = None
      /\ heard[R] = 0
      /\ open => /\ at[C] = "applying" /\ Only(q, {"ApplyProgress"}) /\ heard[C] \in Nat
                 /\ Closing(q, Left(C), "Applied")
  BY <1>1, ApplyingIs
<1>3. h \in Messages /\ z \in Messages /\ h.type = "Heads" /\ z.type = "Applied"
  <2>1. Outcome(plan[R]) \in SUBSET Edits
    BY <1>2, ScansTyped, EndsAre DEF TypeOK, PlansTyped
  <2> QED
    BY <2>1, MessagesAre DEF Signals, Message, MessageOf
<1> HIDE DEF h, z
<1>4. <<h, z>> \in Seq(Messages)
  BY <1>3, Short
<1>5. /\ Queue(R)' = r /\ q \in Seq(Messages) /\ open' = open
      /\ (open => Queue(C)' = q \o <<h, z>>) /\ (~open => Queue(C)' = q)
  BY <1>1, <1>4, Said, EndsAre DEF TypeOK
<1>6. /\ at'[R] = "serve" /\ heard' = heard /\ ConnectorStays
      /\ serving' = [serving EXCEPT !.applied = TRUE, !.ready = FALSE]
      /\ stored'[R] = Outcome(plan[R]) /\ plan' = plan
  BY <1>1, EndsAre DEF ResponderApplies, Applies, Go, ResponderRest, ConnectorStays, user, TypeOK,
       PlacesTyped, DirectoriesTyped
<1>7. serving'.applied /\ ~serving'.ready /\ serving'.heads = None
  BY <1>2, <1>6 DEF TypeOK, PlansTyped
<1>8. Where' = "hears"
  BY <1>6, <1>7 DEF Where
<1>9. Flags' /\ Gathered'
  BY <1>2, <1>6, <1>7 DEF Flags, Gathered
<1>10. HeadsKept'
  BY <1>6, <1>7 DEF HeadsKept, Outcome
<1> HIDE DEF q, r
<1>11. ResponderFits(Queue(R))'
  BY <1>2, <1>5, <1>8, EmptyShapes DEF ResponderFits
<1>12. ASSUME open PROVE ConnectorFits(Queue(C))' /\ at'[C] = "applying"
  <2>1. Queue(C)' = q \o <<h, z>> /\ at'[C] = "applying" /\ heard'[C] = heard[C] /\ heard[C] # None
    BY <1>2, <1>5, <1>6, <1>12, NumbersAre DEF ConnectorStays
  <2>2. Left(C)' = Left(C)
    BY <1>6 DEF Left
  <2>3. Closing(q \o <<h, z>>, Left(C), "Applied")
    BY <1>2, <1>3, <1>5, <1>12, ClosingEnds
  <2> QED
    BY <2>1, <2>2, <2>3 DEF ConnectorFits
<1>13. open => Paired(Queue(C), Queue(R))'
  BY <1>2, <1>5, <1>6, <1>8, <1>12 DEF Paired
<1>14. ~open => Queue(C)' = Queue(C)
  BY <1>5 DEF q
<1> QED
  BY <1>5, <1>6, <1>9, <1>10, <1>11, <1>12, <1>13, <1>14, ResponderMoves

LEMMA ApplyFailsPolite ==
  ASSUME TypeOK, Polite, ApplyFails
  PROVE  Polite'
<1> DEFINE q == Queue(C)
           r == Queue(R)
           m == Message("Error")
<1>1. at[R] = "apply" /\ Say(R, <<m>>)
  BY DEF ApplyFails
<1>2. <<m>> \in Seq(Messages) /\ m \in Messages /\ m.type = "Error"
  BY Short, MessagesAre DEF Signals, Message
<1> HIDE DEF m
<1>3. /\ Queue(R)' = r /\ q \in Seq(Messages) /\ open' = open
      /\ (open => Queue(C)' = q \o <<m>>) /\ (~open => Queue(C)' = q)
  BY <1>1, <1>2, Said, EndsAre DEF TypeOK
<1>4. /\ at'[R] = "serve" /\ heard' = heard /\ serving' = serving /\ wanted' = wanted
      /\ batch' = batch /\ ConnectorStays
  BY <1>1, EndsAre DEF ApplyFails, Go, Serving, ResponderRest, ConnectorStays, work, user, TypeOK,
       PlacesTyped
<1>5. /\ r = <<>> /\ ~serving.applied /\ serving.ready /\ Flags /\ Gathered
      /\ open => /\ at[C] = "applying" /\ Only(q, {"ApplyProgress"}) /\ Reported(q, told[R])
                 /\ heard[C] \in Nat /\ Stream(q, "ApplyProgress", Left(C), {"Error"})
  BY <1>1, ApplyingIs DEF Polite
<1>6. Where' = "receives" /\ Flags' /\ Gathered' /\ HeadsKept'
  BY <1>4, <1>5 DEF Where, Flags, Gathered, HeadsKept
<1> HIDE DEF q, r
<1>7. ResponderFits(Queue(R))'
  BY <1>3, <1>5, <1>6, EmptyShapes DEF ResponderFits
<1>8. ASSUME open PROVE ConnectorFits(Queue(C))' /\ Paired(Queue(C), Queue(R))'
  <2> DEFINE a == heard[C] + 1
             z == q \o <<m>>
  <2>1. a \in Nat /\ Left(C) = a .. Records /\ Left(C)' = a .. Records /\ told[R] \in Nat
        /\ Records \in Nat
    BY <1>4, <1>5, <1>8, NumbersTyped DEF Left
  <2>2. Stream(q, "ApplyProgress", a .. Records, {"Error"})
    BY <1>5, <1>8, <2>1
  <2> HIDE DEF a
  <2>3. Stream(z, "ApplyProgress", a .. Records, {"Error"}) /\ Range(z) = Range(q) \cup {m}
    BY <1>2, <1>3, <1>5, <1>8, <2>1, <2>2, ApplyGrows
  <2>4. Only(z, {"ApplyProgress", "Error"})
    BY <1>2, <1>5, <1>8, <2>3 DEF Only
  <2>5. Queue(C)' = z /\ at'[C] = "applying" /\ heard'[C] = heard[C] /\ heard[C] # None
    BY <1>3, <1>4, <1>5, <1>8, NumbersAre DEF ConnectorStays
  <2> HIDE DEF z
  <2>6. ConnectorFits(Queue(C))'
    BY <2>1, <2>3, <2>5 DEF ConnectorFits
  <2>7. Paired(Queue(C), Queue(R))'
    BY <1>3, <1>5, <1>6, <2>4, <2>5 DEF Paired
  <2> QED
    BY <2>6, <2>7
<1>9. ~open => Queue(C)' = Queue(C)
  BY <1>3 DEF q
<1> QED
  BY <1>3, <1>4, <1>6, <1>7, <1>8, <1>9, ResponderMoves

LEMMA HearApplyPolite ==
  ASSUME TypeOK, Polite, HearApply
  PROVE  Polite'
<1> DEFINE q == Queue(C)
           r == Queue(R)
           n == Arg(R)
<1>1. Serves("ApplyProgress") /\ Gets(R, "ApplyProgress") /\ Reply(R, <<>>) /\ <<>> \in Seq(Messages)
  BY Short DEF HearApply, Serves, Consume
<1>2. n \in Nat
  BY <1>1, Received, EndsAre DEF TypeOK
<1>3. /\ r \in Seq(Messages) /\ r # <<>> /\ Queue(R)' = Tail(r) /\ open' = open
      /\ Head(r).type = "ApplyProgress" /\ Head(r).arg = n /\ Queue(C)' = q
      /\ Head(r) \in Range(r) /\ Range(Tail(r)) \subseteq Range(r)
  BY <1>1, ResponderTook DEF TypeOK
<1>4. /\ at' = at /\ heard'[R] = n /\ serving' = serving /\ stored' = stored /\ plan' = plan
      /\ wanted' = wanted /\ batch' = batch /\ told' = told /\ ConnectorStays
  BY EndsAre DEF HearApply, ConnectorStays, disk, user, work, objects, TypeOK, TransfersTyped
<1> HIDE DEF n
<1>5. /\ Where = "hears" /\ at[R] = "serve"
      /\ Head(r).arg \in Left(R) /\ Closing(Tail(r), Head(r).arg + 1 .. Records, "CommitAck")
  BY <1>1, <1>3, ServedWhere, ServedNext DEF Serves
<1>6. ConnectorFits(q) /\ Flags /\ Gathered /\ HeadsKept /\ (open => Paired(q, r)) /\ serving.applied
  BY <1>5, WhereIs DEF Polite
<1>7. Where' = "hears" /\ Flags' /\ Gathered' /\ HeadsKept'
  BY <1>2, <1>4, <1>5, <1>6 DEF Where, Flags, Gathered, HeadsKept, Outcome
<1> HIDE DEF q, r
<1>8. ResponderFits(Queue(R))'
  <2>1. Left(R)' = n + 1 .. Records
    BY <1>4 DEF Left
  <2> QED
    BY <1>3, <1>5, <1>7, <2>1 DEF ResponderFits
<1>9. ASSUME open PROVE Paired(Queue(C), Queue(R))'
  <2>1. \/ /\ at[C] \in {"apply", "commit"} /\ q = <<>> /\ Only(r, {"ApplyProgress"})
           /\ Reported(r, told[C])
        \/ at[C] = "finish" /\ q = <<>>
    BY <1>3, <1>5, <1>6, <1>9 DEF Paired
  <2>2. /\ Only(r, {"ApplyProgress"}) => Only(Tail(r), {"ApplyProgress"})
        /\ Reported(r, told[C]) => Reported(Tail(r), told[C]) /\ n <= told[C]
    BY <1>3 DEF Only, Reported
  <2> QED
    BY <1>3, <1>4, <1>7, <2>1, <2>2 DEF Paired, ConnectorStays
<1>10. open => ConnectorFits(Queue(C))'
  <2>1. ConnectorFits(Queue(C))' = ConnectorFits(Queue(C))
    BY <1>3, <1>4, ConnectorKept DEF q
  <2> QED
    BY <1>6, <2>1 DEF q
<1>11. ~open => Queue(C)' = Queue(C)
  BY <1>3 DEF q
<1> QED
  BY <1>3, <1>4, <1>7, <1>8, <1>9, <1>10, <1>11, ResponderMoves

(* The heads the responder hears are of what it has applied.               *)
LEMMA ServeHeadsPolite ==
  ASSUME TypeOK, Session, Polite, ServeHeads
  PROVE  Polite'
<1> DEFINE q == Queue(C)
           r == Queue(R)
<1>1. Serves("Heads") /\ Gets(R, "Heads") /\ Reply(R, <<>>) /\ <<>> \in Seq(Messages)
  BY Short DEF ServeHeads, Serves, Consume
<1>2. Arg(R) \in SUBSET Edits /\ Arg(R) # None
  BY <1>1, Received, EndsAre, NoneIsNothing DEF TypeOK
<1>3. /\ r \in Seq(Messages) /\ r # <<>> /\ Queue(R)' = Tail(r) /\ open' = open
      /\ Head(r).type = "Heads" /\ Head(r).arg = Arg(R) /\ Queue(C)' = q /\ Head(r) \in Range(r)
  BY <1>1, ResponderTook DEF TypeOK
<1>4. Where = "hears" /\ at[R] = "serve" /\ Single(Tail(r), {"CommitAck"})
  BY <1>1, <1>3, ServedWhere, ServedNext DEF Serves
<1>5. /\ at' = at /\ heard' = heard /\ stored' = stored /\ plan' = plan
      /\ wanted' = wanted /\ batch' = batch /\ told' = told /\ ConnectorStays
      /\ serving' = [serving EXCEPT !.heads = Arg(R)]
  BY DEF ServeHeads, Serving, ResponderRest, ConnectorStays, work, user
<1>6. ConnectorFits(q) /\ Flags /\ Gathered /\ HeadsKept /\ (open => Paired(q, r)) /\ serving.applied
  BY <1>4, WhereIs DEF Polite
<1>7. /\ serving'.applied /\ serving'.ready = serving.ready /\ serving'.need = serving.need
      /\ serving'.snapshot = serving.snapshot /\ serving'.heads = Arg(R)
  BY <1>5, <1>6 DEF TypeOK, PlansTyped
<1>8. Arg(R) = Outcome(plan[R])
  <2>1. Arg(R) = Outcome(plan[C])
    BY <1>3 DEF Session, HeadsCome
  <2> QED
    BY <1>6, <2>1 DEF Session, Served
<1>9. Where' = "acknowledges"
  BY <1>2, <1>4, <1>5, <1>7 DEF Where
<1>10. Flags' /\ Gathered'
  BY <1>4, <1>5, <1>6, <1>7 DEF Flags, Gathered
<1>11. HeadsKept'
  BY <1>4, <1>5, <1>6, <1>7, <1>8 DEF HeadsKept, Outcome
<1> HIDE DEF q, r
<1>12. ResponderFits(Queue(R))'
  BY <1>3, <1>4, <1>9 DEF ResponderFits
<1>13. open => Paired(Queue(C), Queue(R))'
  <2>1. open => at[C] = "finish" /\ q = <<>>
    BY <1>3, <1>4, <1>6 DEF Paired, Only
  <2> QED
    BY <1>3, <1>5, <1>9, <2>1 DEF Paired
<1>14. open => ConnectorFits(Queue(C))'
  <2>1. ConnectorFits(Queue(C))' = ConnectorFits(Queue(C))
    BY <1>3, <1>5, ConnectorKept DEF q
  <2> QED
    BY <1>6, <2>1 DEF q
<1>15. ~open => Queue(C)' = Queue(C)
  BY <1>3 DEF q
<1> QED
  BY <1>3, <1>5, <1>10, <1>11, <1>12, <1>13, <1>14, <1>15, ResponderMoves

----------------------------------------------------------------------------
(* Steps that send nothing, and steps that lose something.                 *)

LEMMA NothingSaid ==
  ASSUME Polite, ConnectorStays, ResponderStays, open' = open,
         Queue(C)' = Queue(C), Queue(R)' = Queue(R)
  PROVE  Polite'
<1>1. ConnectorFits(Queue(C))'
  BY ConnectorKept DEF Polite
<1>2. Where' = Where /\ ResponderFits(Queue(R))'
  BY ResponderKept DEF Polite
<1>3. open => Paired(Queue(C), Queue(R))'
  BY <1>2 DEF Polite, Paired, ConnectorStays, ResponderStays
<1> QED
  BY <1>1, <1>2, <1>3, ConnectorMoves

LEMMA FitsCut ==
  ASSUME NEW q \in Seq(Messages), NEW n \in 0 .. Len(q)
  PROVE  /\ ConnectorFits(q) => ConnectorFits(SubSeq(q, 1, n))
         /\ ResponderFits(q) => ResponderFits(SubSeq(q, 1, n))
<1> DEFINE r == SubSeq(q, 1, n)
<1>1. /\ Range(r) \subseteq Range(q) /\ (q = <<>> => r = <<>>) /\ (r # <<>> => q # <<>> /\ r[1] = q[1])
      /\ Proposal(q) => Proposal(r)
  BY PrefixShapes
<1>2. \A T : Single(q, T) => Single(r, T)
  BY PrefixShapes
<1>3. \A t, S, T : Stream(q, t, S, T) => Stream(r, t, S, T)
  BY PrefixShapes
<1>4. \A S, last : Closing(q, S, last) => Closing(r, S, last)
  BY PrefixShapes
<1>5. \A sizes, m, end : Transfer(q, sizes, m, end) => Transfer(r, sizes, m, end)
  BY PrefixShapes
<1> HIDE DEF r
<1>6. ASSUME ConnectorFits(q) PROVE ConnectorFits(r)
  BY <1>1, <1>2, <1>3, <1>4, <1>5, <1>6 DEF ConnectorFits
<1>7. ASSUME ResponderFits(q) PROVE ResponderFits(r)
  BY <1>1, <1>2, <1>4, <1>5, <1>7 DEF ResponderFits
<1> QED
  BY <1>6, <1>7 DEF r

LEMMA CutPolite ==
  ASSUME PipesTyped, Polite, Lossy, ~open', ConnectorStays \/ at'[C] = "idle",
         \/ ResponderStays
         \/ at'[R] \in Over /\ UNCHANGED <<serving, wanted, batch, heard>>
  PROVE  Polite'
<1>1. ConnectorFits(Queue(C))'
  <2>1. CASE ConnectorStays
    <3>1. PICK n \in 0 .. Len(Queue(C)) : Queue(C)' = SubSeq(Queue(C), 1, n)
      BY EndsAre DEF Lossy
    <3>2. ConnectorFits(SubSeq(Queue(C), 1, n))
      BY QueueTyped, EndsAre, FitsCut DEF Polite
    <3> DEFINE z == SubSeq(Queue(C), 1, n)
    <3> HIDE DEF z
    <3>3. Queue(C)' = z /\ ConnectorFits(z)
      BY <3>1, <3>2 DEF z
    <3> QED
      BY <2>1, <3>3 DEF ConnectorFits, ConnectorStays, Left, Unheard
  <2>2. CASE at'[C] = "idle"
    BY <2>2 DEF ConnectorFits
  <2> QED
    BY <2>1, <2>2
<1>2. ResponderFits(Queue(R))' /\ Flags' /\ Gathered' /\ HeadsKept'
  <2>1. CASE ResponderStays
    <3>1. PICK n \in 0 .. Len(Queue(R)) : Queue(R)' = SubSeq(Queue(R), 1, n)
      BY EndsAre DEF Lossy
    <3>2. ResponderFits(SubSeq(Queue(R), 1, n))
      BY QueueTyped, EndsAre, FitsCut DEF Polite
    <3> DEFINE z == SubSeq(Queue(R), 1, n)
    <3> HIDE DEF z
    <3>3. Queue(R)' = z /\ ResponderFits(z)
      BY <3>1, <3>2 DEF z
    <3>4. Where' = Where /\ Flags' /\ Gathered' /\ HeadsKept'
      BY <2>1, ResponderKept DEF Polite
    <3>5. ResponderFits(Queue(R))'
      BY <2>1, <3>3, <3>4 DEF ResponderFits, ResponderStays, Left, Missing
    <3> QED
      BY <3>4, <3>5
  <2>2. CASE at'[R] \in Over /\ UNCHANGED <<serving, wanted, batch, heard>>
    <3>1. Where' \in Over
      BY <2>2 DEF Where, Over
    <3> QED
      BY <2>2, <3>1 DEF Polite, ResponderFits, Flags, Gathered, HeadsKept, Over
  <2> QED
    BY <2>1, <2>2
<1> QED
  BY <1>1, <1>2 DEF Polite

LEMMA LeavesPolite ==
  ASSUME TypeOK, Polite
  PROVE  /\ Departs(C) \/ ConnectorFinishes => Polite'
         /\ Departs(R) \/ ResponderLeaves => Polite'
         /\ Break => Polite'
<1>0. PipesTyped /\ at \in [Ends -> ConnectorPlaces \cup ResponderPlaces]
  BY DEF TypeOK, PlacesTyped
<1>1. ASSUME NEW e \in Ends, Departs(e)
      PROVE  /\ at' = [at EXCEPT ![e] = IF e = C THEN "idle" ELSE "failed"]
             /\ UNCHANGED <<disk, plan, objects, serving, reports>> /\ Lossy /\ ~open'
  <2>1. PICK kept :
          Gone(e, kept) /\ \E n \in 0 .. Len(wire[Other(e)]) : kept = SubSeq(wire[Other(e)], 1, n)
    BY <1>1 DEF Departs
  <2>2. Lossy
    BY <1>1, <2>1, GoneTyped DEF Departs
  <2> QED
    BY <2>1, <2>2 DEF Gone, Leave, Go
<1>2. ASSUME Departs(C) \/ ConnectorFinishes PROVE Polite'
  <2>1. /\ at' = [at EXCEPT ![C] = "idle"] /\ UNCHANGED <<disk, plan, objects, serving, reports>>
        /\ Lossy /\ ~open'
    <3>1. CASE Departs(C)
      BY <1>1, <3>1, EndsAre
    <3>2. CASE ConnectorFinishes
      <4>1. Lossy
        BY <3>2, FinishesTyped
      <4> QED
        BY <3>2, <4>1 DEF ConnectorFinishes, Leave, Go, ConnectorRest, reports
    <3> QED
      BY <1>2, <3>1, <3>2
  <2>2. at'[C] = "idle" /\ ResponderStays
    BY <1>0, <2>1, EndsAre DEF ResponderStays, disk, objects, reports
  <2> QED
    BY <1>0, <2>1, <2>2, CutPolite
<1>3. ASSUME Departs(R) \/ ResponderLeaves PROVE Polite'
  <2>1. /\ at' = [at EXCEPT ![R] = IF ResponderLeaves THEN "ended" ELSE "failed"]
        /\ UNCHANGED <<objects, serving, reports>> /\ Lossy /\ ~open'
    <3>1. CASE Departs(R) /\ ~ResponderLeaves
      BY <1>1, <3>1, EndsAre
    <3>2. CASE ResponderLeaves
      <4>1. Lossy
        BY <3>2, LeavesTyped
      <4> QED
        BY <3>2, <4>1 DEF ResponderLeaves, Leave, Go, ResponderRest, objects, reports
    <3> QED
      BY <1>3, <3>1, <3>2
  <2>2. at'[R] \in Over /\ UNCHANGED <<serving, wanted, batch, heard>> /\ ConnectorStays
    BY <1>0, <2>1, EndsAre DEF ConnectorStays, objects, reports, Over
  <2> QED
    BY <1>0, <2>1, <2>2, CutPolite
<1>4. ASSUME Break PROVE Polite'
  <2>1. Lossy
    BY <1>0, <1>4, Broken
  <2>2. ~open' /\ ConnectorStays /\ ResponderStays
    BY <1>4 DEF Break, ConnectorStays, ResponderStays, disk, work, objects, reports
  <2> QED
    BY <1>0, <2>1, <2>2, CutPolite
<1> QED
  BY <1>2, <1>3, <1>4

LEMMA UsersArePolite ==
  ASSUME TypeOK, Polite
  PROVE  /\ \A c \in Commands : Give(c) => Polite'
         /\ Confirm \/ Decline => Polite'
         /\ \A e \in Ends, x \in Edits : Edit(e, x) => Polite'
         /\ \A e \in Ends : Write(e) => Polite'
         /\ UNCHANGED vars => Polite'
<1> USE DEF disk, user, work, pipes, objects, reports
<1>a. UNCHANGED pipes => Queue(C)' = Queue(C) /\ Queue(R)' = Queue(R) /\ open' = open
  BY QueuesKept
<1>1. ASSUME NEW c \in Commands, Give(c) PROVE Polite'
  <2>1. UNCHANGED pipes /\ ConnectorStays /\ ResponderStays
    BY <1>1 DEF Give, ConnectorStays, ResponderStays
  <2> QED
    BY <1>a, <2>1, NothingSaid
<1>2. ASSUME Confirm \/ Decline PROVE Polite'
  <2>1. at[C] = "prompt" /\ at'[C] = "idle" /\ UNCHANGED pipes /\ ResponderStays
    BY <1>2, EndsAre DEF Confirm, Decline, Go, ResponderStays, TypeOK, PlacesTyped
  <2>2. ConnectorFits(Queue(C))'
    BY <2>1 DEF ConnectorFits
  <2>3. ~open \/ Where = "leaving"
    BY <2>1 DEF Polite, Paired
  <2> QED
    BY <1>a, <2>1, <2>2, <2>3, ConnectorMoves
<1>3. ASSUME NEW e \in Ends, NEW x \in Edits, Edit(e, x) PROVE Polite'
  <2>1. UNCHANGED pipes /\ ConnectorStays /\ ResponderStays
    BY <1>3 DEF Edit, ConnectorStays, ResponderStays
  <2> QED
    BY <1>a, <2>1, NothingSaid
<1>4. ASSUME NEW e \in Ends, Write(e) PROVE Polite'
  <2>1. Queue(C)' = Queue(C) /\ Queue(R)' = Queue(R)
    BY <1>4, Transmitted, EndsAre DEF TypeOK
  <2>2. open' = open /\ ConnectorStays /\ ResponderStays
    BY <1>4 DEF Write, ConnectorStays, ResponderStays
  <2> QED
    BY <2>1, <2>2, NothingSaid
<1>5. ASSUME UNCHANGED vars PROVE Polite'
  <2>1. UNCHANGED pipes /\ ConnectorStays /\ ResponderStays
    BY <1>5 DEF vars, ConnectorStays, ResponderStays
  <2> QED
    BY <1>a, <2>1, NothingSaid
<1> QED
  BY <1>1, <1>2, <1>3, <1>4, <1>5

LEMMA StartPolite ==
  ASSUME TypeOK, Start
  PROVE  Polite'
<1> DEFINE m == MessageOf("Sync", DryRun)
<1>1. /\ at' = [e \in Ends |-> IF e = C THEN "opening" ELSE "idle"]
      /\ outbox' = [e \in Ends |-> IF e = C THEN <<m>> ELSE <<>>]
      /\ wire' = [e \in Ends |-> <<>>] /\ open' = TRUE /\ serving' = NothingServed
      /\ heard' = [e \in Ends |-> IF e = C THEN None ELSE 0]
  BY EndsAre DEF Start, Fresh, Nothing
<1>2. at'[C] = "opening" /\ at'[R] = "idle" /\ heard'[C] = None /\ heard'[R] = 0 /\ open'
  BY <1>1, EndsAre
<1>3. m \in Messages /\ m.type = "Sync"
  BY MessagesAre DEF DryRun, MessageOf
<1> HIDE DEF m
<1>4. Queue(C)' = <<>> /\ Queue(R)' = <<m>>
  <2>1. Queue(C)' = <<>> \o <<>> /\ Queue(R)' = <<>> \o <<m>>
    BY <1>1, EndsAre DEF Queue
  <2> QED
    BY <1>3, <2>1, Short, ConcatEmptySeq
<1>5. /\ ~serving'.need /\ serving'.snapshot = None /\ ~serving'.ready /\ ~serving'.applied
      /\ serving'.heads = None
  BY <1>1 DEF NothingServed
<1>6. Where' = "idle"
  BY <1>2 DEF Where
<1>7. Single(<<m>>, {"Sync"}) /\ Single(<<>>, {"Reserved", "Error"})
  BY <1>3, ShortShapes, EmptyShapes
<1>8. ConnectorFits(Queue(C))' /\ ResponderFits(Queue(R))'
  BY <1>2, <1>4, <1>6, <1>7 DEF ConnectorFits, ResponderFits
<1>9. Flags' /\ Gathered' /\ HeadsKept'
  BY <1>2, <1>5 DEF Flags, Gathered, HeadsKept
<1>10. Paired(Queue(C), Queue(R))'
  BY <1>2, <1>4, <1>6 DEF Paired
<1> QED
  BY <1>8, <1>9, <1>10 DEF Polite

LEMMA InitPolite == Init => Polite
<1> SUFFICES ASSUME Init PROVE Polite
  OBVIOUS
<1>1. /\ at = [e \in Ends |-> "idle"] /\ serving = NothingServed /\ open = FALSE
      /\ wire = [e \in Ends |-> <<>>]
      /\ heard = [e \in Ends |-> IF e = C THEN None ELSE 0]
  BY EndsAre DEF Init, Fresh, Nothing
<1>2. at[C] = "idle" /\ at[R] = "idle" /\ heard[R] = 0 /\ ~open
  BY <1>1, EndsAre
<1>3. Queue(R) = <<>>
  <2>1. Queue(R) = <<>> \o <<>>
    BY <1>1, EndsAre DEF Queue
  <2> QED
    BY <2>1, EmptySeq, ConcatEmptySeq
<1>4. /\ ~serving.need /\ serving.snapshot = None /\ ~serving.ready /\ ~serving.applied
      /\ serving.heads = None
  BY <1>1 DEF NothingServed
<1>5. Where = "idle"
  BY <1>2 DEF Where
<1>6. ConnectorFits(Queue(C)) /\ ResponderFits(Queue(R))
  BY <1>2, <1>3, <1>5, EmptyShapes DEF ConnectorFits, ResponderFits
<1>7. Flags /\ Gathered /\ HeadsKept
  BY <1>2, <1>4 DEF Flags, Gathered, HeadsKept
<1> QED
  BY <1>2, <1>6, <1>7 DEF Polite

LEMMA StepPolite == TypeOK /\ Session /\ Polite /\ [Next]_vars => Polite'
<1> SUFFICES ASSUME TypeOK, Session, Polite, [Next]_vars PROVE Polite'
  OBVIOUS
<1>1. CASE Progresses
  BY <1>1, HearScanPolite, ConnectorObjectPolite, ConnectorHearsPolite, ConnectorHeadsPolite,
     ConnectorReportsPolite, AcceptPolite, BeginScanPolite, ReportScanPolite, ScanEndsPolite,
     ServeObjectPolite, ServeBatchEndPolite, ServeDonePolite, ResponderReportsPolite,
     ApplyFailsPolite, HearApplyPolite DEF Progresses
<1>2. CASE ConnectorTurns
  BY <1>2, ConnectorScansPolite, ConnectorPlansPolite, ConnectorCancelsPolite,
     ConnectorProposesPolite, ConnectorHeadsPolite, ConnectorAppliesPolite,
     ConnectorCommitsPolite, ConnectorShowsPolite DEF ConnectorTurns
<1>3. CASE ResponderTurns
  BY <1>3, ScanEndsPolite, ServeNeedPolite, ServeSnapshotPolite, ServePlanPolite,
     PlanTooLargePolite, ResponderAppliesPolite, ServeHeadsPolite, ServeEndPolite
     DEF ResponderTurns
<1>4. CASE ConnectorSends \/ ConnectorReceipt \/ Start
  BY <1>4, ConnectorSendsPolite, ConnectorReceiptPolite, StartPolite
<1>5. CASE \/ ResponderLeaves \/ ConnectorFinishes \/ Break
           \/ \E e \in Ends : Departs(e)
  BY <1>5, LeavesPolite, EndsAre
<1>6. CASE \/ Confirm \/ Decline \/ UNCHANGED vars \/ \E c \in Commands : Give(c)
           \/ \E e \in Ends, x \in Edits : Edit(e, x)
           \/ \E e \in Ends : Write(e)
  BY <1>6, UsersArePolite
<1> QED
  BY <1>1, <1>2, <1>3, <1>4, <1>5, <1>6, NextIs

THEOREM PoliteHolds == Spec => [](TypeOK /\ Session /\ Polite)
<1>1. Init => Polite
  BY InitPolite
<1>2. TypeOK /\ Session /\ Polite /\ [Next]_vars => Polite'
  BY StepPolite
<1> QED
  BY <1>1, <1>2, SessionHolds, PTL DEF Spec

(* What stands first is taken.                                             *)
LEMMA ConnectorIsServed ==
  ASSUME TypeOK, Polite, Listening(C), NEW q \in Seq(Messages), q = Queue(C), q # <<>>
  PROVE  ConnectorTakes(Head(q))
<1>1. ConnectorFits(q) /\ at[C] \in ConnectorPlaces /\ at[C] \notin {"idle", "prompt", "commit"}
  BY DEF Polite, TypeOK, PlacesTyped, Listening, Running
<1>2. ASSUME NEW T, Single(q, T) PROVE Head(q).type \in T
  BY <1>2, SingleTail
<1>3. q[1] = Head(q) /\ Head(q) \in Range(q)
  BY TailIs, TailOf
<1>4. CASE at[C] = "opening"
  <2>1. Single(q, {"Reserved", "Error"})
    BY <1>1, <1>4 DEF ConnectorFits
  <2> QED
    BY <1>2, <1>4, <2>1 DEF ConnectorTakes
<1>5. CASE at[C] = "scanning"
  <2> DEFINE a == IF heard[C] = None THEN 0 ELSE heard[C] + 1
  <2>1. /\ Stream(q, "ScanProgress", a .. MaxReports, {"Snapshot", "Error"})
        /\ heard[C] = None => Head(q).type = "ScanProgress" /\ Head(q).arg = 0
    BY <1>1, <1>3, <1>5 DEF ConnectorFits, Unheard
  <2>2. a \in Nat /\ MaxReports \in Nat /\ (heard[C] # None => heard[C] \in Nat /\ a = heard[C] + 1)
    BY NumbersTyped
  <2> HIDE DEF a
  <2>3. "ScanProgress" \notin {"Snapshot", "Error"}
    OBVIOUS
  <2>4. /\ Head(q).type = "ScanProgress" => Head(q).arg \in a .. MaxReports
        /\ Head(q).type # "ScanProgress" => Head(q).type \in {"Snapshot", "Error"}
    BY <2>1, <2>2, <2>3, StreamTail
  <2>5. Head(q).type = "ScanProgress" => Advances(Head(q).arg)
    BY <2>1, <2>2, <2>4 DEF Advances
  <2> QED
    BY <1>5, <2>1, <2>4, <2>5 DEF ConnectorTakes
<1>6. CASE at[C] = "objects"
  <2> DEFINE l == Len(wanted[C])
  <2>1. Transfer(q, wanted[C], l, "Done") /\ wanted[C] \in Seq(Nat)
    BY <1>1, <1>6, NumbersTyped DEF ConnectorFits
  <2>2. l \in Nat /\ l <= Len(wanted[C]) /\ (l = 0 => wanted[C] = <<>>)
    BY <2>1, LenProperties, EmptySeq
  <2> HIDE DEF l
  <2>3. /\ Head(q).type \in {"Object", "Done"}
        /\ Head(q).type = "Object" => wanted[C] # <<>> /\ Head(q).arg = Head(wanted[C])
        /\ Head(q).type = "Done" => l = 0
    BY <2>1, <2>2, TransferTail
  <2> QED
    BY <1>6, <2>2, <2>3 DEF ConnectorTakes
<1>7. CASE at[C] \in {"cancelled", "finish"}
  <2>1. Single(q, {"Done"})
    BY <1>1, <1>7 DEF ConnectorFits
  <2> QED
    BY <1>2, <1>7, <2>1 DEF ConnectorTakes
<1>8. CASE at[C] = "proposed"
  <2>1. Single(q, {"Need"}) \/ Head(q).type = "Error"
    BY <1>1, <1>3, <1>8 DEF ConnectorFits
  <2>2. Head(q).type \in {"Need", "Error"}
    BY <1>2, <2>1
  <2> QED
    BY <1>8, <2>2 DEF ConnectorTakes
<1>9. CASE at[C] = "sending"
  <2>1. Single(q, {"Receipt"}) /\ Head(q).arg = ReceiptOf(giving.sizes, BatchEnd(giving.sizes, giving.sent))
    BY <1>1, <1>3, <1>9 DEF ConnectorFits
  <2>2. Head(q).type \in {"Receipt"}
    BY <1>2, <2>1
  <2> QED
    BY <1>9, <2>1, <2>2 DEF ConnectorTakes
<1>10. CASE at[C] = "applying"
  <2> DEFINE a == heard[C] + 1
  <2>1. /\ heard[C] # None
        /\ \/ Stream(q, "ApplyProgress", a .. Records, {"Error"})
           \/ Closing(q, a .. Records, "Applied")
    BY <1>1, <1>10 DEF ConnectorFits, Left
  <2>2. a \in Nat /\ Records \in Nat /\ heard[C] \in Nat /\ a = heard[C] + 1
    BY <2>1, NumbersTyped
  <2> HIDE DEF a
  <2>3. /\ Head(q).type \in {"ApplyProgress", "Heads", "Error"}
        /\ Head(q).type = "ApplyProgress" => Head(q).arg \in a .. Records
    <3>1. "ApplyProgress" \notin {"Error"}
      OBVIOUS
    <3>2. Stream(q, "ApplyProgress", a .. Records, {"Error"}) =>
            /\ Head(q).type \in {"ApplyProgress", "Error"}
            /\ Head(q).type = "ApplyProgress" => Head(q).arg \in a .. Records
      BY <2>2, <3>1, StreamTail
    <3>3. Closing(q, a .. Records, "Applied") =>
            /\ Head(q).type \in {"ApplyProgress", "Heads"}
            /\ Head(q).type = "ApplyProgress" => Head(q).arg \in a .. Records
      BY <2>2, ClosingTail
    <3> QED
      BY <2>1, <3>2, <3>3
  <2>4. Head(q).type = "ApplyProgress" => Counts(C, Head(q).arg)
    BY <2>2, <2>3 DEF Counts
  <2> QED
    BY <1>10, <2>3, <2>4 DEF ConnectorTakes
<1>11. CASE at[C] = "heads"
  <2>1. Single(q, {"Applied"})
    BY <1>1, <1>11 DEF ConnectorFits
  <2> QED
    BY <1>2, <1>11, <2>1 DEF ConnectorTakes
<1>12. at[C] # "apply"
  BY DEF Listening
<1> QED
  BY <1>1, <1>4, <1>5, <1>6, <1>7, <1>8, <1>9, <1>10, <1>11, <1>12 DEF ConnectorPlaces, Early, Late

LEMMA ResponderIsServed ==
  ASSUME TypeOK, Polite, Listening(R), NEW q \in Seq(Messages), q = Queue(R), q # <<>>
  PROVE  ResponderTakes(Head(q))
<1>1. ResponderFits(q) /\ at[R] \in {"idle", "waiting", "serve"}
  BY DEF Polite, TypeOK, PlacesTyped, Listening, Running, ResponderPlaces, Begun, Over
<1>2. CASE at[R] \in {"idle", "waiting"}
  <2>1. Where = at[R]
    BY <1>2 DEF Where
  <2>2. /\ at[R] = "idle" => Single(q, {"Sync"})
        /\ at[R] = "waiting" => Single(q, {"ScanRequest"})
    BY <1>1, <2>1 DEF ResponderFits
  <2>3. /\ at[R] = "idle" => Head(q).type \in {"Sync"}
        /\ at[R] = "waiting" => Head(q).type \in {"ScanRequest"}
    BY <2>2, SingleTail
  <2> QED
    BY <1>2, <2>3 DEF ResponderTakes
<1>3. CASE at[R] = "serve"
  <2> DEFINE m == Head(q)
  <2> SUFFICES ServeTakes(m)
    BY <1>3 DEF ResponderTakes
  <2>1. Where \in {"gives", "chooses", "compares", "receives", "hears", "acknowledges"}
    BY <1>3, WhereIs
  <2>2. CASE Where \in {"gives", "chooses", "compares"}
    <3>1. /\ Where = "gives" => m.type = "Need"
          /\ Where = "chooses" => m.type \in {"Cancel", "Snapshot"}
          /\ Where = "compares" => m.type = "Plan"
      BY <1>3, ServedNext
    <3>2. /\ ~serving.ready /\ (Where = "compares" <=> serving.snapshot # None)
          /\ Where = "gives" => ~serving.need
      BY <2>2, WhereIs
    <3> QED
      BY <2>2, <3>1, <3>2 DEF ServeTakes
  <2>3. CASE Where = "receives"
    <3>1. /\ batch.from < Len(batch.sizes) =>
               \/ /\ m.type = "Object" /\ Missing > 0
                  /\ wanted[R] # <<>> /\ m.arg = Head(wanted[R])
               \/ m.type = "BatchEnd" /\ Missing = 0
          /\ ~(batch.from < Len(batch.sizes)) => m.type = "Done"
      BY <1>3, <2>3, ServedNext
    <3>2. serving.ready
      BY <2>3, WhereIs
    <3> DEFINE l == Len(batch.sizes)
    <3>3. /\ l \in Nat /\ batch.from \in Nat /\ batch.got \in Nat /\ batch.from <= batch.got
          /\ batch.got <= l /\ Len(wanted[R]) = l - batch.got
          /\ batch.from < l => (Missing = 0 <=> batch.got = BatchEnd(batch.sizes, batch.from))
      BY <2>3, MissingIs
    <3>4. CASE batch.from < l
      <4>1. Missing > 0 => Missing # 0
        OBVIOUS
      <4> QED
        BY <3>1, <3>2, <3>3, <3>4, <4>1 DEF ServeTakes, AtBatchEnd
    <3>5. CASE ~(batch.from < l)
      <4>1. m.type = "Done"
        BY <3>1, <3>5
      <4>2. batch.from = Len(batch.sizes) /\ wanted[R] = <<>>
        <5> HIDE DEF l
        <5>1. batch.from = l /\ Len(wanted[R]) = 0
          BY <3>3, <3>5
        <5> QED
          BY <5>1, NumbersTyped, EmptySeq DEF l
      <4> QED
        BY <3>2, <4>1, <4>2 DEF ServeTakes
    <3> QED
      BY <3>4, <3>5
  <2>4. CASE Where = "hears"
    <3>1. (m.type = "ApplyProgress" /\ m.arg \in Left(R)) \/ m.type = "Heads"
      BY <1>3, <2>4, ServedNext
    <3>2. serving.applied /\ serving.heads = None
      BY <2>4, WhereIs
    <3>3. m.arg \in Left(R) => Counts(R, m.arg)
      BY NumbersTyped DEF Left, Counts, Polite, Flags
    <3> QED
      BY <3>1, <3>2, <3>3 DEF ServeTakes
  <2>5. CASE Where = "acknowledges"
    <3>1. m.type = "CommitAck"
      BY <1>3, <2>5, ServedNext
    <3>2. serving.applied /\ serving.heads # None
      BY <2>5, WhereIs
    <3>3. serving.heads \subseteq stored[R]
      BY <1>3, <3>2 DEF Polite, HeadsKept
    <3> QED
      BY <3>1, <3>2, <3>3 DEF ServeTakes
  <2> QED
    BY <2>1, <2>2, <2>3, <2>4, <2>5
<1> QED
  BY <1>1, <1>2, <1>3

(* Neither end is ever sent a message that it does not take where it is,   *)
(* with the number it must carry: whatever the order of scan reports,      *)
(* batches, receipts and apply reports, however little a pipe holds, and   *)
(* wherever the connection breaks or the other end fails.                  *)
THEOREM NothingIsRefused == Spec => []NothingRefused
<1>1. TypeOK /\ Session /\ Polite => NothingRefused
  <2> SUFFICES ASSUME TypeOK, Polite, NEW e \in Ends, Listening(e), Waiting(e) PROVE Takes(e)
    BY DEF NothingRefused
  <2> DEFINE x == IF open THEN outbox[Other(e)] ELSE <<>>
  <2>1. wire[e] \in Seq(Messages) /\ wire[e] # <<>> /\ x \in Seq(Messages)
    BY EndsAre, EmptySeq DEF TypeOK, PipesTyped, Waiting
  <2>2. Queue(e) = wire[e] \o x
    BY DEF Queue
  <2> HIDE DEF x
  <2>3. Queue(e) \in Seq(Messages) /\ Queue(e) # <<>> /\ Head(Queue(e)) = Head(wire[e])
    BY <2>1, <2>2, TailOfQueue
  <2> QED
    BY <2>3, ConnectorIsServed, ResponderIsServed, EndsAre DEF Takes
<1> QED
  BY <1>1, PoliteHolds, PTL
=============================================================================
