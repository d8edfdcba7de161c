------------------------- MODULE RelationshipProofs -------------------------
(***************************************************************************)
(* That nothing of one relationship is taken for another one's, that a     *)
(* late removal detaches nothing newer, and that the responder is left     *)
(* with a relationship that the connector has dropped only where someone   *)
(* was told: for any numbers of shares, commands, requests and             *)
(* relationships, in any order and with any deaths.                        *)
(*                                                                         *)
(* The argument.  A relationship belongs to one share for ever             *)
(* (OneShareEach), so the responder's "absent" means that it does not have *)
(* the relationship at all, and it stays without it unless a registration  *)
(* comes late (AbsentGone).  A relationship that nobody has asked to       *)
(* remove still has its row at the connector (UnaskedBound), and a         *)
(* synchronization that applies keeps both bindings as they were when it   *)
(* was reserved (SessionBound).                                            *)
(***************************************************************************)
EXTENDS Relationship, TLAPS

CommandSteps == {"done", "send", "wait", "registered", "absent", "local"}

End     == [rel : Maybe, complete : BOOLEAN, removing : Maybe, data : Maybe, install : Maybe]
Command == [type : {"none", "add", "remove"}, share : Shares \cup {NoShare}, rel : Maybe,
            complete : BOOLEAN, pc : CommandSteps]
Message == [type : {"add", "remove"}, share : Shares, rel : Rels, from : SUBSET Commands]
Session == [at : {"off", "open", "responding", "connector", "connecting"}, rel : Maybe]

TypeOK ==
  /\ row \in [Shares -> End]
  /\ root \in [share : Shares \cup {NoShare}, end : End]
  /\ command \in [Commands -> Command]
  /\ requests \subseteq Message
  /\ session \in [Shares -> Session]
  /\ issued \in Maybe
  /\ asked \subseteq Maybe /\ warned \subseteq Maybe /\ late \subseteq Maybe

(* A command that sends has something to send.                             *)
Sends ==
  \A c \in Commands :
    /\ command[c].pc = "send" => command[c].type # "none"
    /\ command[c].type # "none" => command[c].share \in Shares /\ command[c].rel # NoRel

(* The commands that a request is from wait for its answer, and for no     *)
(* other one.                                                              *)
Waits ==
  /\ \A q \in requests : \A c \in q.from :
       /\ command[c].pc = "wait" /\ command[c].type = q.type
       /\ command[c].share = q.share /\ command[c].rel = q.rel
  /\ \A p, q \in requests : p.from \cap q.from # {} => p = q

(* Nothing names a relationship that is still to be begun.                 *)
Issued ==
  /\ \A s \in Shares : row[s].rel <= issued
  /\ root.end.rel <= issued
  /\ \A c \in Commands : command[c].rel <= issued
  /\ \A q \in requests : q.rel <= issued

(* A relationship is one of one share, wherever it is named.               *)
ShareOfEach(f) ==
  /\ \A s \in Shares : row[s].rel # NoRel => f[row[s].rel] = s
  /\ root.end.rel # NoRel => f[root.end.rel] = root.share
  /\ \A c \in Commands : command[c].rel # NoRel => f[command[c].rel] = command[c].share
  /\ \A q \in requests : f[q.rel] = q.share

OneShareEach == \E f \in [Rels -> Shares \cup {NoShare}] : ShareOfEach(f)

(* What is being removed, someone has asked to remove.                     *)
Asked ==
  /\ \A c \in Commands : command[c].type = "remove" => command[c].rel \in asked
  /\ \A q \in requests : q.type = "remove" => q.rel \in asked
  /\ root.end.removing \in {NoRel, root.end.rel}
  /\ root.end.removing # NoRel => root.end.removing \in asked

(* What nobody has asked to remove, the connector has.                     *)
UnaskedBound == \A r \in 1 .. issued : r \notin asked => \E s \in Shares : row[s].rel = r

(* What the responder has called absent is absent, or came back late.      *)
AbsentGone ==
  \A c \in Commands :
    /\ command[c].pc \in {"absent", "local"} => command[c].type = "remove"
    /\ command[c].pc = "absent" => root.end.rel # command[c].rel \/ command[c].rel \in late

(* A synchronization that applies is of the relationship of both ends.     *)
SessionBound ==
  \A s \in Shares : session[s].at \notin {"off", "open"} =>
    row[s].rel = session[s].rel /\ root.end.rel = session[s].rel

IInv ==
  /\ TypeOK /\ Sends /\ Waits /\ Issued /\ OneShareEach /\ Asked /\ UnaskedBound
  /\ AbsentGone /\ SessionBound /\ DataOfBinding /\ StrandedOnlyWarned

(* DataOfBinding, of one end.                                              *)
OwnData(e) == e.data \in {NoRel, e.rel} /\ e.install \in {NoRel, e.rel}

USE RelationshipConstants DEF Rels, NoRel, Maybe, ghosts, Idle, Unpaired, Closed

----------------------------------------------------------------------------
(* The ends.                                                               *)

LEMMA DataOfEnds ==
  /\ DataOfBinding <=> OwnData(root.end) /\ \A s \in Shares : OwnData(row[s])
  /\ DataOfBinding' <=> OwnData(root'.end) /\ \A s \in Shares : OwnData(row'[s])
  BY DEF DataOfBinding, OwnData

LEMMA EndUpdates ==
  ASSUME NEW e \in End, NEW r \in Maybe
  PROVE  /\ [e EXCEPT !.complete = TRUE] \in End
         /\ [e EXCEPT !.complete = TRUE].rel = e.rel
         /\ [e EXCEPT !.complete = TRUE].removing = e.removing
         /\ OwnData(e) => OwnData([e EXCEPT !.complete = TRUE])
         /\ [e EXCEPT !.removing = r] \in End
         /\ [e EXCEPT !.removing = r].rel = e.rel
         /\ [e EXCEPT !.removing = r].removing = r
         /\ OwnData(e) => OwnData([e EXCEPT !.removing = r])
  BY DEF End, OwnData

LEMMA EndInstalls ==
  ASSUME NEW e \in End, NEW r \in Maybe
  PROVE  /\ Applying(e, r) \in End /\ Applying(e, r).rel = e.rel
         /\ Applying(e, r).removing = e.removing
         /\ OwnData(e) /\ r \in {NoRel, e.rel} => OwnData(Applying(e, r))
         /\ Applied(e, r) \in End /\ Applied(e, r).rel = e.rel
         /\ Applied(e, r).removing = e.removing
         /\ OwnData(e) /\ r \in {NoRel, e.rel} => OwnData(Applied(e, r))
         /\ Detached(e) \in End /\ Detached(e).rel = NoRel /\ Detached(e).removing = NoRel
         /\ e.install = NoRel => OwnData(Detached(e))
  BY DEF End, OwnData, Applying, Applied, Detached

----------------------------------------------------------------------------
(* Commands, requests and answers.                                         *)

(* What changes of a command but its place is that it ends.                *)
SameCommand(c) ==
  /\ command'[c].type = command[c].type /\ command'[c].share = command[c].share
  /\ command'[c].rel = command[c].rel /\ command'[c].complete = command[c].complete

(* A command ends.                                                         *)
LEMMA Finishing ==
  ASSUME TypeOK, NEW c \in Commands, Finish(c)
  PROVE  /\ command' \in [Commands -> Command] /\ command'[c] = Idle
         /\ \A d \in Commands \ {c} : command'[d] = command[d]
  BY DEF TypeOK, Finish, Command, CommandSteps

(* A command goes on.                                                      *)
LEMMA Moving ==
  ASSUME TypeOK, NEW c \in Commands, NEW pc \in CommandSteps, Moves(c, pc)
  PROVE  /\ command' \in [Commands -> Command] /\ command'[c].pc = pc /\ SameCommand(c)
         /\ \A d \in Commands \ {c} : command'[d] = command[d]
<1>1. command[c] \in Command /\ command'[c] = [command[c] EXCEPT !.pc = pc]
  BY DEF TypeOK, Moves
<1>2. command'[c] \in Command /\ command'[c].pc = pc /\ SameCommand(c)
  BY <1>1 DEF Command, SameCommand
<1>3. \A d \in Commands \ {c} : command'[d] = command[d]
  BY DEF TypeOK, Moves
<1> QED
  BY <1>2, <1>3 DEF TypeOK, Moves

(* What an answer does to the commands.                                    *)
Reached(q, pc) ==
  \A c \in Commands :
    \/ command'[c] = command[c] /\ c \notin q.from
    \/ command'[c] = Idle
    \/ /\ SameCommand(c) /\ command'[c].pc = pc /\ c \in q.from /\ pc # "error"
       /\ command[c].type = q.type /\ command[c].share = q.share /\ command[c].rel = q.rel

(* The commands that an answer reaches go on or end; nobody else waits for *)
(* it.                                                                     *)
LEMMA Answering ==
  ASSUME TypeOK, Waits, NEW q \in requests, NEW pc \in {"error", "registered", "absent"},
         Answer(q, pc)
  PROVE  /\ command' \in [Commands -> Command] /\ requests' = requests \ {q}
         /\ Waits'
         /\ Reached(q, pc)
<1>1. requests' = requests \ {q}
  BY DEF Answer
<1>2. ASSUME NEW c \in Commands, c \in q.from, pc # "error"
      PROVE  /\ SameCommand(c) /\ command'[c].pc = pc /\ command'[c] \in Command
  <2>1. command[c] \in Command /\ command'[c] = [command[c] EXCEPT !.pc = pc]
    BY <1>2 DEF TypeOK, Answer
  <2>2. pc \in CommandSteps
    BY <1>2 DEF CommandSteps
  <2>3. [command[c] EXCEPT !.pc = pc] \in Command
    BY <2>1, <2>2 DEF Command
  <2> QED
    BY <2>1, <2>3 DEF Command, SameCommand
<1>3. \A c \in Commands :
        /\ c \notin q.from => command'[c] = command[c]
        /\ c \in q.from /\ pc = "error" => command'[c] = Idle
  BY DEF Answer
<1>4. command' \in [Commands -> Command]
  <2>1. Idle \in Command
    BY DEF Command, CommandSteps
  <2>2. \A c \in Commands : command'[c] \in Command
    BY <1>2, <1>3, <2>1 DEF TypeOK
  <2> QED
    BY <2>2 DEF Answer
<1>5. Reached(q, pc)
  BY <1>2, <1>3 DEF Waits, Reached
<1>6. \A p \in requests' : \A c \in p.from : c \in Commands /\ c \notin q.from
  BY <1>1 DEF Waits, TypeOK, Message
<1>7. Waits'
  BY <1>1, <1>3, <1>6 DEF Waits
<1> QED
  BY <1>1, <1>4, <1>5, <1>7

----------------------------------------------------------------------------
(* Steps that leave the bindings alone.                                    *)

BindingsKept ==
  /\ \A s \in Shares : row'[s].rel = row[s].rel
  /\ root'.end.rel = root.end.rel /\ root'.share = root.share
  /\ issued' = issued /\ asked \subseteq asked' /\ warned' = warned /\ late' = late

(* Commands go on or end, and what is requested is theirs.                 *)
CommandsGoOn ==
  /\ \A c \in Commands :
       \/ command'[c] = Idle
       \/ SameCommand(c) /\ (command'[c].pc = command[c].pc \/ command'[c].pc \notin {"absent", "local"})
  /\ \A q \in requests' :
       \/ \E p \in requests : q.type = p.type /\ q.share = p.share /\ q.rel = p.rel
       \/ \E c \in Commands : /\ q.type = command[c].type /\ q.share = command[c].share
                              /\ q.rel = command[c].rel

LEMMA KeptBindings ==
  ASSUME IInv, BindingsKept, CommandsGoOn, requests' \subseteq Message
  PROVE  /\ Issued' /\ OneShareEach' /\ UnaskedBound' /\ AbsentGone' /\ StrandedOnlyWarned'
         /\ \A c \in Commands : command'[c].type = "remove" => command'[c].rel \in asked'
         /\ \A q \in requests' : q.type = "remove" => q.rel \in asked'
<1> USE DEF BindingsKept, CommandsGoOn, SameCommand, IInv
<1>1. Issued'
  <2>1. issued \in Nat /\ Idle.rel <= issued
    BY DEF TypeOK
  <2>2. \A c \in Commands : command'[c].rel <= issued
    BY <2>1 DEF Issued
  <2>3. \A q \in requests' : q.rel <= issued
    BY DEF Issued
  <2> QED
    BY <2>2, <2>3 DEF Issued
<1>2. OneShareEach'
  <2>1. PICK f \in [Rels -> Shares \cup {NoShare}] : ShareOfEach(f)
    BY DEF OneShareEach
  <2>2. ASSUME NEW q \in requests', q.rel # NoRel PROVE f[q.rel] = q.share
    BY <2>1, <2>2 DEF ShareOfEach
  <2>3. ShareOfEach(f)'
    BY <2>1, <2>2 DEF ShareOfEach, Message
  <2> QED
    BY <2>1, <2>3 DEF OneShareEach
<1>3. UnaskedBound'
  BY DEF UnaskedBound
<1>4. AbsentGone'
  BY DEF AbsentGone
<1>5. StrandedOnlyWarned'
  BY DEF StrandedOnlyWarned
<1>6. /\ \A c \in Commands : command'[c].type = "remove" => command'[c].rel \in asked'
      /\ \A q \in requests' : q.type = "remove" => q.rel \in asked'
  BY DEF Asked
<1> QED
  BY <1>1, <1>2, <1>3, <1>4, <1>5, <1>6

----------------------------------------------------------------------------
(* The commands.                                                           *)

LEMMA SendStep == ASSUME IInv, NEW c \in Commands, Send(c) PROVE IInv'
<1> USE DEF Send, IInv
<1>1. /\ command' \in [Commands -> Command] /\ command'[c].pc = "wait" /\ SameCommand(c)
      /\ \A d \in Commands \ {c} : command'[d] = command[d]
  BY Moving DEF CommandSteps
<1>2. command[c] \in Command /\ command[c].rel \in Rels /\ command[c].share \in Shares
      /\ command[c].type \in {"add", "remove"}
  BY DEF TypeOK, Command, Sends
<1>3. PICK q : /\ q = Request(command[c].type, c) /\ requests' = requests \cup {q}
  OBVIOUS
<1>4. /\ q.type = command[c].type /\ q.share = command[c].share /\ q.rel = command[c].rel
      /\ q.from = {c} /\ q \in Message
  BY <1>2, <1>3 DEF Request, Message
<1>5. BindingsKept
  BY DEF BindingsKept
<1>6. CommandsGoOn
  BY <1>1, <1>3, <1>4 DEF CommandsGoOn, SameCommand
<1>7. TypeOK'
  BY <1>1, <1>3, <1>4 DEF TypeOK
<1>8. Sends'
  BY <1>1 DEF Sends, SameCommand
<1>9. Waits'
  <2>1. \A p \in requests : c \notin p.from
    BY DEF Waits
  <2>2. \A p \in requests : \A d \in p.from : d \in Commands
    BY DEF TypeOK, Message
  <2> QED
    BY <1>1, <1>3, <1>4, <2>1, <2>2 DEF Waits, SameCommand
<1>10. /\ Issued' /\ OneShareEach' /\ UnaskedBound' /\ AbsentGone' /\ StrandedOnlyWarned'
       /\ \A d \in Commands : command'[d].type = "remove" => command'[d].rel \in asked'
       /\ \A p \in requests' : p.type = "remove" => p.rel \in asked'
  BY <1>5, <1>6, <1>7, KeptBindings DEF TypeOK
<1>11. Asked' /\ SessionBound' /\ DataOfBinding'
  BY <1>10 DEF Asked, SessionBound, DataOfBinding
<1> QED
  BY <1>7, <1>8, <1>9, <1>10, <1>11

LEMMA CompleteAddStep == ASSUME IInv, NEW c \in Commands, CompleteAdd(c) PROVE IInv'
<1> USE DEF CompleteAdd, IInv
<1>1. /\ command' \in [Commands -> Command] /\ command'[c] = Idle
      /\ \A d \in Commands \ {c} : command'[d] = command[d]
  BY Finishing
<1>2. /\ row' \in [Shares -> End]
      /\ \A s \in Shares : row'[s].rel = row[s].rel /\ (OwnData(row[s]) => OwnData(row'[s]))
  <2>1. ASSUME NEW s \in Shares
        PROVE  /\ row'[s] \in End /\ row'[s].rel = row[s].rel
               /\ OwnData(row[s]) => OwnData(row'[s])
    <3>1. row[s] \in End /\ (row'[s] = row[s] \/ row'[s] = [row[s] EXCEPT !.complete = TRUE])
      BY DEF TypeOK
    <3>2. CASE row'[s] = row[s]
      BY <3>1, <3>2 DEF OwnData
    <3>3. CASE row'[s] = [row[s] EXCEPT !.complete = TRUE]
      BY <3>1, <3>3, EndUpdates DEF OwnData
    <3> QED
      BY <3>1, <3>2, <3>3
  <2> QED
    BY <2>1 DEF TypeOK
<1>3. BindingsKept
  BY <1>2 DEF BindingsKept
<1>4. CommandsGoOn
  BY <1>1 DEF CommandsGoOn, SameCommand
<1>5. TypeOK'
  BY <1>1, <1>2 DEF TypeOK
<1>6. Sends'
  BY <1>1 DEF Sends
<1>7. Waits'
  BY <1>1 DEF Waits, TypeOK, Message
<1>8. /\ Issued' /\ OneShareEach' /\ UnaskedBound' /\ AbsentGone' /\ StrandedOnlyWarned'
      /\ \A d \in Commands : command'[d].type = "remove" => command'[d].rel \in asked'
      /\ \A p \in requests' : p.type = "remove" => p.rel \in asked'
  BY <1>3, <1>4, <1>5, KeptBindings DEF TypeOK
<1>9. Asked'
  BY <1>8 DEF Asked
<1>10. SessionBound'
  BY <1>2 DEF SessionBound
<1>11. DataOfBinding'
  BY <1>2, DataOfEnds
<1> QED
  BY <1>5, <1>6, <1>7, <1>8, <1>9, <1>10, <1>11

LEMMA GiveUpStep == ASSUME IInv, NEW c \in Commands, GiveUp(c) PROVE IInv'
<1> USE DEF GiveUp, IInv
<1>1. /\ command' \in [Commands -> Command] /\ command'[c] = Idle
      /\ \A d \in Commands \ {c} : command'[d] = command[d]
  BY Finishing
<1>2. ASSUME NEW q \in requests'
      PROVE  /\ q \in Message /\ c \notin q.from
             /\ \E p \in requests : /\ q.type = p.type /\ q.share = p.share /\ q.rel = p.rel
                                    /\ q.from = p.from \ {c}
                                    /\ q = [p EXCEPT !.from = @ \ {c}]
  <2>1. PICK p \in requests : q = [p EXCEPT !.from = @ \ {c}]
    <3>1. CASE requests' = {[p EXCEPT !.from = @ \ {c}] : p \in requests}
      BY <3>1
    <3>2. CASE requests' = {p \in requests : c \notin p.from}
      <4>1. q \in requests /\ c \notin q.from /\ q \in Message
        BY <3>2 DEF TypeOK
      <4>2. q = [q EXCEPT !.from = @ \ {c}]
        BY <4>1 DEF Message
      <4> QED
        BY <4>1, <4>2
    <3> QED
      BY <3>1, <3>2
  <2>2. p \in Message
    BY DEF TypeOK
  <2>3. /\ q.type = p.type /\ q.share = p.share /\ q.rel = p.rel /\ q.from = p.from \ {c}
        /\ q \in Message
    BY <2>1, <2>2 DEF Message
  <2> QED
    BY <2>1, <2>3
<1>3. BindingsKept
  BY DEF BindingsKept
<1>4. CommandsGoOn
  BY <1>1, <1>2 DEF CommandsGoOn, SameCommand
<1>5. TypeOK'
  BY <1>1, <1>2 DEF TypeOK
<1>6. Sends'
  BY <1>1 DEF Sends
<1>7. Waits'
  <2>1. ASSUME NEW q \in requests', NEW d \in q.from
        PROVE  /\ command'[d].pc = "wait" /\ command'[d].type = q.type
               /\ command'[d].share = q.share /\ command'[d].rel = q.rel
    BY <1>1, <1>2, <2>1 DEF Waits, Message
  <2>2. ASSUME NEW p \in requests', NEW q \in requests', p.from \cap q.from # {}
        PROVE  p = q
    <3>1. PICK p0 \in requests : p.from = p0.from \ {c} /\ p = [p0 EXCEPT !.from = @ \ {c}]
      BY <1>2
    <3>2. PICK q0 \in requests : q.from = q0.from \ {c} /\ q = [q0 EXCEPT !.from = @ \ {c}]
      BY <1>2
    <3>3. p0.from \cap q0.from # {}
      BY <2>2, <3>1, <3>2
    <3>4. p0 = q0
      BY <3>3 DEF Waits
    <3> QED
      BY <3>1, <3>2, <3>4
  <2> QED
    BY <2>1, <2>2 DEF Waits
<1>8. /\ Issued' /\ OneShareEach' /\ UnaskedBound' /\ AbsentGone' /\ StrandedOnlyWarned'
      /\ \A d \in Commands : command'[d].type = "remove" => command'[d].rel \in asked'
      /\ \A p \in requests' : p.type = "remove" => p.rel \in asked'
  BY <1>3, <1>4, <1>5, KeptBindings DEF TypeOK
<1>9. Asked' /\ SessionBound' /\ DataOfBinding'
  BY <1>8 DEF Asked, SessionBound, DataOfBinding
<1> QED
  BY <1>5, <1>6, <1>7, <1>8, <1>9

(* A relationship that is begun is named by nobody yet.                    *)
LEMMA AddStep == ASSUME IInv, NEW c \in Commands, NEW s \in Shares, Add(c, s) PROVE IInv'
<1> USE DEF Add, IInv
<1>1. /\ command[c] = Idle /\ UNCHANGED <<root, requests, session, asked, warned, late>>
      /\ Permitted /\ \A d \in Commands \ {c} : command'[d] = command[d]
  BY DEF TypeOK
<1>2. issued \in Nat /\ issued \in Maybe /\ row[s] \in End /\ root.end \in End
  BY DEF TypeOK
<1>3. /\ row' \in [Shares -> End] /\ row'[s].rel \in Rels /\ OwnData(row'[s])
      /\ \A q \in Shares \ {s} : row'[q] = row[q]
      /\ \/ issued' = issued + 1 /\ row'[s].rel = issued' /\ row[s].rel = NoRel
         \/ issued' = issued /\ row'[s].rel = row[s].rel
      /\ issued' \in Maybe
  <2>1. CASE IsUnpaired(row[s]) /\ issued < MaxRels
             /\ issued' = issued + 1 /\ row' = [row EXCEPT ![s].rel = issued']
    <3>1. row'[s] = [row[s] EXCEPT !.rel = issued'] /\ issued' \in Rels
      BY <1>2, <2>1 DEF TypeOK
    <3>2. row'[s] \in End /\ row'[s].rel = issued' /\ row[s].rel = NoRel
      BY <1>2, <2>1, <3>1 DEF End, IsUnpaired
    <3>3. OwnData(row'[s])
      BY <1>2, <3>1, <3>2, DataOfEnds DEF End, OwnData
    <3> QED
      BY <2>1, <3>1, <3>2, <3>3 DEF TypeOK
  <2>2. CASE row[s].rel # NoRel /\ UNCHANGED <<issued, row>>
    BY <1>2, <2>2, DataOfEnds DEF TypeOK, End
  <2> QED
    BY <2>1, <2>2
<1>4. /\ command' \in [Commands -> Command] /\ command'[c].type = "add"
      /\ command'[c].share = s /\ command'[c].rel = row'[s].rel /\ command'[c].pc = "send"
  BY <1>3 DEF TypeOK, Command, CommandSteps
<1>5. TypeOK'
  BY <1>1, <1>3, <1>4 DEF TypeOK
<1>6. Sends' /\ Asked'
  BY <1>1, <1>3, <1>4 DEF Sends, Asked
<1>7. Waits'
  BY <1>1, <1>4 DEF Waits, TypeOK, Message
<1>8. Issued'
  <2>1. issued' \in Nat /\ issued <= issued'
    BY <1>2, <1>3
  <2>2. \A n \in Maybe : n <= issued => n <= issued'
    BY <1>2, <2>1
  <2>3. \A q \in Shares : row'[q].rel <= issued'
    BY <1>3, <2>2 DEF Issued, TypeOK, End
  <2>4. \A d \in Commands : command'[d].rel <= issued'
    BY <1>1, <1>4, <2>2, <2>3 DEF Issued, TypeOK, Command
  <2>5. (\A q \in requests : q.rel <= issued') /\ root.end.rel <= issued'
    BY <1>2, <2>2 DEF Issued, TypeOK, Message, End
  <2> QED
    BY <1>1, <2>3, <2>4, <2>5 DEF Issued
<1>9. OneShareEach'
  <2>1. PICK f \in [Rels -> Shares \cup {NoShare}] : ShareOfEach(f)
    BY DEF OneShareEach
  <2> DEFINE r == row'[s].rel
             g == [f EXCEPT ![r] = s]
  <2>2. g \in [Rels -> Shares \cup {NoShare}] /\ g[r] = s /\ \A q \in Rels \ {r} : g[q] = f[q]
    BY <1>3
  <2>3. (r = row[s].rel /\ g = f) \/ \A q \in Rels : q <= issued => q # r
    BY <1>2, <1>3, <2>1 DEF ShareOfEach
  <2>4. \A q \in Rels : q <= issued => g[q] = f[q]
    BY <2>2, <2>3
  <2>5. \A q \in Shares : row'[q].rel # NoRel => g[row'[q].rel] = q
    BY <1>3, <2>1, <2>2, <2>4 DEF ShareOfEach, Issued, TypeOK, End
  <2>6. root'.end.rel # NoRel => g[root'.end.rel] = root'.share
    BY <1>1, <1>2, <2>1, <2>4 DEF ShareOfEach, Issued, End
  <2>7. \A d \in Commands : command'[d].rel # NoRel => g[command'[d].rel] = command'[d].share
    BY <1>1, <1>4, <2>1, <2>2, <2>4 DEF ShareOfEach, Issued, TypeOK, Command
  <2>8. \A q \in requests' : g[q.rel] = q.share
    BY <1>1, <2>1, <2>4 DEF ShareOfEach, Issued, TypeOK, Message
  <2> QED
    BY <2>2, <2>5, <2>6, <2>7, <2>8 DEF OneShareEach, ShareOfEach
<1>10. UnaskedBound'
  BY <1>1, <1>2, <1>3 DEF UnaskedBound, TypeOK
<1>11. AbsentGone'
  BY <1>1, <1>4 DEF AbsentGone
<1>12. SessionBound'
  BY <1>1, <1>3 DEF SessionBound, Permitted
<1>13. DataOfBinding'
  BY <1>1, <1>3, DataOfEnds
<1>14. StrandedOnlyWarned'
  BY <1>1, <1>2, <1>3 DEF StrandedOnlyWarned, Issued, TypeOK
<1> QED
  BY <1>5, <1>6, <1>7, <1>8, <1>9, <1>10, <1>11, <1>12, <1>13, <1>14

(* The marker of a removal is of the relationship it asks to remove.       *)
LEMMA RemoveStep ==
  ASSUME IInv, NEW c \in Commands, NEW s \in Shares, NEW pc \in {"send", "local"},
         Remove(c, s, pc)
  PROVE  IInv'
<1> USE DEF Remove, IInv
<1>1. /\ command[c] = Idle /\ UNCHANGED <<root, requests, session, issued, warned, late>>
      /\ \A d \in Commands \ {c} : command'[d] = command[d]
      /\ asked' = asked \cup {row[s].rel} /\ row[s].rel # NoRel
      /\ row[s] \in End
  BY DEF TypeOK
<1>2. /\ row' \in [Shares -> End]
      /\ \A q \in Shares : row'[q].rel = row[q].rel /\ OwnData(row'[q])
  <2>1. row'[s] = [row[s] EXCEPT !.removing = row[s].rel]
    BY DEF TypeOK
  <2>2. row[s].rel \in Maybe /\ OwnData(row[s])
    BY <1>1, DataOfEnds DEF End
  <2>3. row'[s] \in End /\ row'[s].rel = row[s].rel /\ OwnData(row'[s])
    BY <1>1, <2>1, <2>2 DEF End, OwnData
  <2> QED
    BY <2>3, DataOfEnds DEF TypeOK
<1>3. /\ command' \in [Commands -> Command]
      /\ \/ command'[c] = Idle
         \/ /\ command'[c].type = "remove" /\ command'[c].share = s
            /\ command'[c].rel = row[s].rel /\ command'[c].pc = pc
  BY <1>1 DEF TypeOK, Command, CommandSteps, End
<1>4. TypeOK'
  BY <1>1, <1>2, <1>3 DEF TypeOK, End
<1>5. Sends'
  BY <1>1, <1>3 DEF Sends
<1>6. Waits'
  BY <1>1, <1>3 DEF Waits, TypeOK, Message
<1>7. Issued'
  BY <1>1, <1>2, <1>3 DEF Issued, TypeOK
<1>8. OneShareEach'
  <2>1. PICK f \in [Rels -> Shares \cup {NoShare}] : ShareOfEach(f)
    BY DEF OneShareEach
  <2>2. ShareOfEach(f)'
    BY <1>1, <1>2, <1>3, <2>1 DEF ShareOfEach
  <2> QED
    BY <2>1, <2>2 DEF OneShareEach
<1>9. Asked'
  BY <1>1, <1>3 DEF Asked
<1>10. UnaskedBound'
  BY <1>1, <1>2 DEF UnaskedBound
<1>11. AbsentGone'
  BY <1>1, <1>3 DEF AbsentGone
<1>12. SessionBound'
  BY <1>1, <1>2 DEF SessionBound
<1>13. DataOfBinding'
  BY <1>1, <1>2, DataOfEnds
<1>14. StrandedOnlyWarned'
  BY <1>1, <1>2 DEF StrandedOnlyWarned
<1> QED
  BY <1>4, <1>5, <1>6, <1>7, <1>8, <1>9, <1>10, <1>11, <1>12, <1>13, <1>14

(* The row goes only once the responder's has, or with a warning.          *)
LEMMA FinalizeRemovalStep == ASSUME IInv, NEW c \in Commands, FinalizeRemoval(c) PROVE IInv'
<1> USE DEF FinalizeRemoval, IInv
<1> DEFINE s == command[c].share
           r == command[c].rel
           done == Finalizes(row[s], r, command[c].complete)
<1>1. /\ command' \in [Commands -> Command] /\ command'[c] = Idle
      /\ \A d \in Commands \ {c} : command'[d] = command[d]
  BY Finishing
<1>2. /\ command[c].type = "remove" /\ r \in asked /\ Permitted
      /\ command[c].pc = "absent" => root.end.rel # r \/ r \in late
      /\ command[c].pc = "local" \/ command[c].pc = "absent"
      /\ UNCHANGED <<root, requests, session, issued, asked, late>>
  BY DEF AbsentGone, Asked
<1>3. /\ row' \in [Shares -> End] /\ \A q \in Shares : OwnData(row'[q])
      /\ \A q \in Shares : \/ row'[q].rel = row[q].rel
                           \/ row'[q].rel = NoRel /\ row[q].rel = r /\ done
  <2>1. ASSUME NEW q \in Shares
        PROVE  /\ row'[q] \in End /\ OwnData(row'[q])
               /\ \/ row'[q].rel = row[q].rel
                  \/ row'[q].rel = NoRel /\ row[q].rel = r /\ done
    <3>1. row[q] \in End /\ OwnData(row[q])
      BY DataOfEnds DEF TypeOK
    <3>2. row'[q] = row[q] \/ (q = s /\ done /\ row'[q] = Detached(row[q]))
      BY DEF TypeOK
    <3>3. CASE q = s /\ done /\ row'[q] = Detached(row[q])
      BY <3>1, <3>3, EndInstalls DEF Finalizes
    <3> QED
      BY <3>1, <3>2, <3>3
  <2> QED
    BY <2>1 DEF TypeOK
<1>4. /\ warned' \subseteq Maybe /\ warned \subseteq warned'
      /\ done /\ command[c].pc = "local" => r \in warned'
  BY DEF TypeOK, Command
<1>5. TypeOK'
  BY <1>1, <1>2, <1>3, <1>4 DEF TypeOK
<1>6. Sends' /\ Asked'
  BY <1>1, <1>2 DEF Sends, Asked
<1>7. Waits'
  BY <1>1, <1>2 DEF Waits, TypeOK, Message
<1>8. Issued'
  <2>1. issued \in Nat /\ Idle.rel <= issued
    BY DEF TypeOK
  <2>2. (\A d \in Commands : command'[d].rel <= issued) /\ \A q \in Shares : row'[q].rel <= issued
    BY <1>1, <1>3, <2>1 DEF Issued
  <2> QED
    BY <1>2, <2>2 DEF Issued
<1>9. OneShareEach'
  <2>1. PICK f \in [Rels -> Shares \cup {NoShare}] : ShareOfEach(f)
    BY DEF OneShareEach
  <2>2. ShareOfEach(f)'
    BY <1>1, <1>2, <1>3, <2>1 DEF ShareOfEach
  <2> QED
    BY <2>1, <2>2 DEF OneShareEach
<1>10. UnaskedBound'
  BY <1>2, <1>3 DEF UnaskedBound
<1>11. AbsentGone'
  BY <1>1, <1>2 DEF AbsentGone
<1>12. SessionBound'
  BY <1>2, <1>3 DEF SessionBound, Permitted
<1>13. DataOfBinding'
  BY <1>2, <1>3, DataOfEnds
<1>14. StrandedOnlyWarned'
  BY <1>2, <1>3, <1>4 DEF StrandedOnlyWarned
<1> QED
  BY <1>5, <1>6, <1>7, <1>8, <1>9, <1>10, <1>11, <1>12, <1>13, <1>14

----------------------------------------------------------------------------
(* The responder.                                                          *)

(* What an answer does to the commands it reaches.                         *)
LEMMA AnsweredCommands ==
  ASSUME IInv, NEW q \in requests, NEW pc \in {"error", "registered", "absent"}, Answer(q, pc)
  PROVE  /\ command' \in [Commands -> Command] /\ requests' = requests \ {q}
         /\ Sends' /\ Waits'
         /\ \A c \in Commands :
              \/ command'[c] = Idle
              \/ /\ SameCommand(c)
                 /\ \/ command'[c].pc = command[c].pc
                    \/ command'[c].pc = pc /\ command[c].type = q.type /\ command[c].rel = q.rel
         /\ pc # "absent" => CommandsGoOn
<1>1. /\ command' \in [Commands -> Command] /\ requests' = requests \ {q} /\ Waits'
      /\ Reached(q, pc)
  BY Answering DEF IInv
<1>2. Sends'
  BY <1>1 DEF Sends, SameCommand, Reached, IInv
<1>3. \A c \in Commands :
        \/ command'[c] = Idle
        \/ /\ SameCommand(c)
           /\ \/ command'[c].pc = command[c].pc
              \/ command'[c].pc = pc /\ command[c].type = q.type /\ command[c].rel = q.rel
  BY <1>1 DEF SameCommand, Reached
<1>4. pc # "absent" => CommandsGoOn
  BY <1>1, <1>3 DEF CommandsGoOn
<1> QED
  BY <1>1, <1>2, <1>3, <1>4

(* A registration is of the relationship that the responder has already,   *)
(* or comes when it has none.                                              *)
LEMMA ServeAddStep == ASSUME IInv, NEW q \in requests, ServeAdd(q) PROVE IInv'
<1> USE DEF ServeAdd, IInv
<1>1. CASE Registers(q)
  <2>1. /\ command' \in [Commands -> Command] /\ requests' = requests \ {q} /\ Sends' /\ Waits'
        /\ \A c \in Commands :
             \/ command'[c] = Idle
             \/ /\ SameCommand(c)
                /\ \/ command'[c].pc = command[c].pc
                   \/ command'[c].pc = "registered" /\ command[c].type = q.type
                      /\ command[c].rel = q.rel
    BY <1>1, AnsweredCommands
  <2>2. /\ q \in Message /\ q.type = "add" /\ q.rel \in Rels /\ q.share \in Shares
        /\ root.end \in End /\ UNCHANGED <<row, session, issued, asked, warned>> /\ Permitted
    BY DEF TypeOK, Message
  <2>3. PICK e : /\ e = [root.end EXCEPT !.rel = q.rel, !.complete = TRUE]
                 /\ root' = [share |-> q.share, end |-> e]
    BY <1>1
  <2>4. /\ root.end.rel = q.rel \/ root.end.rel = NoRel
        /\ root.end.removing = NoRel
        /\ root.end.rel = NoRel => root.end.data = NoRel /\ root.end.install = NoRel
    BY <1>1, <2>2 DEF Registers, Unused, IsUnpaired, IsBound
  <2>5. /\ e \in End /\ e.rel = q.rel /\ e.removing = NoRel /\ OwnData(e)
    <3>1. OwnData(root.end)
      BY DataOfEnds
    <3>2. e \in End /\ e.rel = q.rel /\ e.removing = root.end.removing
          /\ e.data = root.end.data /\ e.install = root.end.install
      BY <2>2, <2>3 DEF End
    <3> QED
      BY <2>4, <3>1, <3>2 DEF OwnData
  <2>6. root'.end = e /\ root'.share = q.share
    BY <2>3
  <2>7. late' = (IF q.rel \in asked THEN late \cup {q.rel} ELSE late) /\ late \subseteq late'
    BY <1>1
  <2>8. TypeOK'
    BY <2>1, <2>2, <2>3, <2>5, <2>7 DEF TypeOK
  <2>9. Issued'
    <3>1. issued \in Nat /\ Idle.rel <= issued
      BY DEF TypeOK
    <3>2. \A c \in Commands : command'[c].rel <= issued
      BY <2>1, <3>1 DEF Issued, SameCommand
    <3> QED
      BY <2>1, <2>2, <2>5, <2>6, <3>2 DEF Issued
  <2>10. OneShareEach'
    <3>1. PICK f \in [Rels -> Shares \cup {NoShare}] : ShareOfEach(f)
      BY DEF OneShareEach
    <3>2. ShareOfEach(f)'
      BY <2>1, <2>2, <2>5, <2>6, <3>1 DEF ShareOfEach, SameCommand
    <3> QED
      BY <3>1, <3>2 DEF OneShareEach
  <2>11. Asked'
    BY <2>1, <2>2, <2>5, <2>6 DEF Asked, SameCommand
  <2>12. UnaskedBound'
    BY <2>2 DEF UnaskedBound
  <2>13. AbsentGone'
    <3> SUFFICES ASSUME NEW c \in Commands, command'[c] # Idle
                 PROVE  /\ command'[c].pc \in {"absent", "local"} => command'[c].type = "remove"
                        /\ command'[c].pc = "absent" =>
                             e.rel # command'[c].rel \/ command'[c].rel \in late'
      BY <2>6 DEF AbsentGone
    <3>1. CASE command'[c].pc = command[c].pc
      <4>1. SameCommand(c)
        BY <2>1
      <4>2. command[c].type = "remove" => command[c].rel \in asked
        BY DEF Asked
      <4> QED
        BY <2>5, <2>7, <3>1, <4>1, <4>2 DEF AbsentGone, SameCommand
    <3> QED
      BY <2>1, <3>1
  <2>14. SessionBound'
    BY <2>2 DEF SessionBound, Permitted
  <2>15. DataOfBinding'
    BY <2>2, <2>5, <2>6, DataOfEnds
  <2>16. StrandedOnlyWarned'
    <3>1. q.rel \in 1 .. issued
      BY <2>2 DEF Issued, TypeOK
    <3>2. q.rel \in asked => q.rel \in late'
      BY <2>7
    <3> QED
      BY <2>2, <2>5, <2>6, <3>1, <3>2 DEF StrandedOnlyWarned, UnaskedBound
  <2> QED
    BY <2>1, <2>8, <2>9, <2>10, <2>11, <2>12, <2>13, <2>14, <2>15, <2>16
<1>2. CASE ~ Registers(q)
  <2>1. /\ command' \in [Commands -> Command] /\ requests' = requests \ {q} /\ Sends' /\ Waits'
        /\ CommandsGoOn
    BY <1>2, AnsweredCommands
  <2>2. UNCHANGED <<row, root, session, issued, asked, warned, late>> /\ BindingsKept
    BY <1>2 DEF BindingsKept
  <2>3. TypeOK'
    BY <2>1, <2>2 DEF TypeOK
  <2>4. /\ Issued' /\ OneShareEach' /\ UnaskedBound' /\ AbsentGone' /\ StrandedOnlyWarned'
        /\ \A d \in Commands : command'[d].type = "remove" => command'[d].rel \in asked'
        /\ \A p \in requests' : p.type = "remove" => p.rel \in asked'
    BY <2>1, <2>2, <2>3, KeptBindings DEF TypeOK
  <2>5. Asked' /\ SessionBound' /\ DataOfBinding'
    BY <2>2, <2>4 DEF Asked, SessionBound, DataOfBinding
  <2> QED
    BY <2>1, <2>3, <2>4, <2>5
<1> QED
  BY <1>1, <1>2

(* Steps that change the responder's row, or only some of its fields, and  *)
(* leave the connector and its commands alone.                             *)
LEMMA RootStep ==
  ASSUME IInv, NEW e \in End, root' = [root EXCEPT !.end = e],
         \/ e.rel = root.end.rel
         \/ e.rel = NoRel /\ Permitted,
         OwnData(e), e.removing \in {NoRel, e.rel}, e.removing \in asked' \cup {NoRel},
         command' \in [Commands -> Command], requests' \subseteq requests, Sends', Waits',
         \A c \in Commands :
           \/ command'[c] = Idle
           \/ /\ SameCommand(c)
              /\ \/ command'[c].pc = command[c].pc
                 \/ /\ command'[c].pc \in {"registered", "absent"}
                    /\ command'[c].pc = "absent" =>
                         command[c].type = "remove" /\ e.rel # command[c].rel,
         UNCHANGED <<row, session, issued, warned, late>>, asked \subseteq asked',
         asked' \subseteq Maybe
  PROVE  IInv'
<1> USE DEF IInv
<1>1. root'.end = e /\ root'.share = root.share /\ root.end \in End
  BY DEF TypeOK
<1>2. TypeOK'
  BY <1>1 DEF TypeOK
<1>3. Issued'
  <2>1. issued \in Nat /\ Idle.rel <= issued /\ NoRel <= issued
    BY DEF TypeOK
  <2>2. \A c \in Commands : command'[c].rel <= issued
    BY <2>1 DEF Issued, SameCommand
  <2> QED
    BY <1>1, <2>1, <2>2 DEF Issued
<1>4. OneShareEach'
  <2>1. PICK f \in [Rels -> Shares \cup {NoShare}] : ShareOfEach(f)
    BY DEF OneShareEach
  <2>2. ShareOfEach(f)'
    BY <1>1, <2>1 DEF ShareOfEach, SameCommand
  <2> QED
    BY <2>1, <2>2 DEF OneShareEach
<1>5. Asked'
  BY <1>1 DEF Asked, SameCommand
<1>6. UnaskedBound'
  BY DEF UnaskedBound
<1>7. AbsentGone'
  <2> SUFFICES ASSUME NEW c \in Commands, command'[c] # Idle
               PROVE  /\ command'[c].pc \in {"absent", "local"} => command'[c].type = "remove"
                      /\ command'[c].pc = "absent" =>
                           e.rel # command'[c].rel \/ command'[c].rel \in late
    BY <1>1 DEF AbsentGone
  <2>1. command'[c].type = command[c].type /\ command'[c].rel = command[c].rel
    BY DEF SameCommand
  <2>2. command[c].type = "remove" => command[c].rel # NoRel
    BY DEF Sends
  <2> QED
    BY <2>1, <2>2 DEF AbsentGone
<1>8. SessionBound'
  BY <1>1 DEF SessionBound, Permitted
<1>9. DataOfBinding'
  BY <1>1, DataOfEnds
<1>10. StrandedOnlyWarned'
  BY <1>1 DEF StrandedOnlyWarned
<1> QED
  BY <1>2, <1>3, <1>4, <1>5, <1>6, <1>7, <1>8, <1>9, <1>10

(* No relationship of a command or a request is another share's.           *)
LEMMA SameShare ==
  ASSUME IInv, NEW q \in requests, q.rel = root.end.rel
  PROVE  q.share = root.share
<1>1. PICK f \in [Rels -> Shares \cup {NoShare}] : ShareOfEach(f)
  BY DEF IInv, OneShareEach
<1>2. q.rel # NoRel
  BY DEF IInv, TypeOK, Message
<1> QED
  BY <1>1, <1>2 DEF ShareOfEach

(* The answer is "absent" when the responder does not have the             *)
(* relationship, or no longer.                                             *)
LEMMA ServeRemoveStep == ASSUME IInv, NEW q \in requests, ServeRemove(q) PROVE IInv'
<1> USE DEF IInv
<1>1. /\ q \in Message /\ root.end \in End /\ root \in [share : Shares \cup {NoShare}, end : End]
      /\ OwnData(root.end) /\ q.type = "remove" /\ Permitted
      /\ UNCHANGED <<row, session, issued, asked, warned, late>> /\ asked \subseteq Maybe
  BY DataOfEnds DEF TypeOK, ServeRemove
<1>2. root = [root EXCEPT !.end = root.end]
  BY <1>1
<1>3. CASE Blocked(q) /\ Answer(q, "error") /\ UNCHANGED root
  <2>1. /\ command' \in [Commands -> Command] /\ requests' = requests \ {q} /\ Sends' /\ Waits'
        /\ \A c \in Commands :
             \/ command'[c] = Idle
             \/ /\ SameCommand(c)
                /\ \/ command'[c].pc = command[c].pc
                   \/ command'[c].pc = "error" /\ command[c].type = q.type /\ command[c].rel = q.rel
        /\ CommandsGoOn
    BY <1>3, AnsweredCommands
  <2>2. BindingsKept
    BY <1>1, <1>3 DEF BindingsKept
  <2>3. TypeOK'
    BY <1>1, <1>3, <2>1 DEF TypeOK
  <2>4. /\ Issued' /\ OneShareEach' /\ UnaskedBound' /\ AbsentGone' /\ StrandedOnlyWarned'
        /\ \A d \in Commands : command'[d].type = "remove" => command'[d].rel \in asked'
        /\ \A p \in requests' : p.type = "remove" => p.rel \in asked'
    BY <2>1, <2>2, <2>3, KeptBindings DEF TypeOK
  <2>5. Asked' /\ SessionBound' /\ DataOfBinding'
    BY <1>1, <1>3, <2>4 DEF Asked, SessionBound, DataOfBinding
  <2> QED
    BY <2>1, <2>3, <2>4, <2>5
<1>4. ASSUME NEW e \in End, root' = [root EXCEPT !.end = e], OwnData(e), Answer(q, "absent"),
             e.rel = root.end.rel \/ e.rel = NoRel, e.rel # q.rel,
             e.removing \in {NoRel, e.rel}, e.removing \in asked \cup {NoRel}
      PROVE  IInv'
  <2>1. /\ command' \in [Commands -> Command] /\ requests' = requests \ {q} /\ Sends' /\ Waits'
        /\ \A c \in Commands :
             \/ command'[c] = Idle
             \/ /\ SameCommand(c)
                /\ \/ command'[c].pc = command[c].pc
                   \/ command'[c].pc = "absent" /\ command[c].type = q.type /\ command[c].rel = q.rel
    BY <1>4, AnsweredCommands
  <2>2. \A c \in Commands :
          \/ command'[c] = Idle
          \/ /\ SameCommand(c)
             /\ \/ command'[c].pc = command[c].pc
                \/ /\ command'[c].pc \in {"registered", "absent"}
                   /\ command'[c].pc = "absent" =>
                        command[c].type = "remove" /\ e.rel # command[c].rel
    BY <1>1, <1>4, <2>1
  <2> QED
    BY <1>1, <1>4, <2>1, <2>2, RootStep
<1>5. CASE ~ Blocked(q) /\ ~ IsFor(q) /\ Answer(q, "absent") /\ UNCHANGED root
  <2>1. root.end.removing \in {NoRel, root.end.rel} /\ root.end.removing \in asked \cup {NoRel}
    BY DEF Asked
  <2>2. root.end.rel # q.rel
    BY <1>5, <2>1, SameShare DEF IsFor
  <2> QED
    BY <1>1, <1>2, <1>4, <1>5, <2>1, <2>2
<1>6. CASE /\ ~ Blocked(q) /\ IsFor(q) /\ Answer(q, "absent")
           /\ root' = [root EXCEPT !.end = Detached(root.end)]
  <2>1. root.end.install = NoRel
    BY <1>6 DEF Blocked, IsFor
  <2>2. /\ Detached(root.end) \in End /\ Detached(root.end).rel = NoRel
        /\ Detached(root.end).removing = NoRel /\ OwnData(Detached(root.end))
    BY <1>1, <2>1, EndInstalls
  <2>3. q.rel # NoRel
    BY <1>1 DEF Message
  <2> QED
    BY <1>4, <1>6, <2>2, <2>3
<1> QED
  BY <1>3, <1>5, <1>6 DEF ServeRemove, AnswerToBlocked, AnswerToAbsent

LEMMA DieRemovingStep == ASSUME IInv, NEW q \in requests, DieRemoving(q) PROVE IInv'
<1> USE DEF IInv
<1> DEFINE e == [root.end EXCEPT !.removing = q.rel]
<1>1. /\ q \in Message /\ root.end \in End /\ OwnData(root.end) /\ q.type = "remove"
      /\ q.rel = root.end.rel /\ q.rel \in asked /\ root' = [root EXCEPT !.end = e]
      /\ UNCHANGED <<row, session, issued, asked, warned, late>> /\ asked \subseteq Maybe
      /\ Answer(q, "error")
  BY DataOfEnds DEF TypeOK, DieRemoving, IsFor, Asked, ghosts
<1>2. e \in End /\ e.rel = root.end.rel /\ e.removing = q.rel /\ OwnData(e)
  BY <1>1 DEF End, OwnData, Message
<1>3. /\ command' \in [Commands -> Command] /\ requests' = requests \ {q} /\ Sends' /\ Waits'
      /\ \A c \in Commands :
           \/ command'[c] = Idle
           \/ /\ SameCommand(c)
              /\ \/ command'[c].pc = command[c].pc
                 \/ command'[c].pc = "error" /\ command[c].type = q.type /\ command[c].rel = q.rel
  BY <1>1, AnsweredCommands
<1>4. \A c \in Commands : command'[c].pc # "error"
  BY <1>3 DEF Command, CommandSteps
<1> HIDE DEF e
<1> QED
  BY <1>1, <1>2, <1>3, <1>4, RootStep

LEMMA RootRemovalStep == ASSUME IInv, MarkRoot \/ DetachRoot PROVE IInv'
<1> USE DEF IInv
<1>1. /\ root.end \in End /\ OwnData(root.end) /\ asked \subseteq Maybe
      /\ UNCHANGED <<row, command, requests, session, issued, warned, late>>
      /\ command \in [Commands -> Command]
  BY DataOfEnds DEF TypeOK, MarkRoot, DetachRoot
<1>2. Sends' /\ Waits' /\ \A c \in Commands : SameCommand(c) /\ command'[c].pc = command[c].pc
  BY <1>1 DEF Sends, Waits, SameCommand
<1>3. CASE MarkRoot
  <2> DEFINE e == [root.end EXCEPT !.removing = root.end.rel]
  <2>1. root' = [root EXCEPT !.end = e] /\ asked' = asked \cup {root.end.rel}
    BY <1>3 DEF MarkRoot
  <2>2. e \in End /\ e.rel = root.end.rel /\ e.removing = root.end.rel /\ OwnData(e)
        /\ root.end.rel \in Maybe
    BY <1>1 DEF End, OwnData
  <2> HIDE DEF e
  <2> QED
    BY <1>1, <1>2, <2>1, <2>2, RootStep
<1>4. CASE DetachRoot
  <2> DEFINE e == Detached(root.end)
  <2>1. root' = [root EXCEPT !.end = e] /\ asked' = asked /\ Permitted /\ root.end.install = NoRel
    BY <1>4 DEF DetachRoot, Finalizes
  <2>2. e \in End /\ e.rel = NoRel /\ e.removing = NoRel /\ OwnData(e)
    BY <1>1, <2>1, EndInstalls
  <2> HIDE DEF e
  <2> QED
    BY <1>1, <1>2, <2>1, <2>2, RootStep
<1> QED
  BY <1>3, <1>4

----------------------------------------------------------------------------
(* Synchronization.                                                        *)

(* Steps that neither bind nor mark.                                       *)
LEMMA SyncStep ==
  ASSUME IInv, UNCHANGED <<command, requests, issued, asked, warned, late>>,
         row' \in [Shares -> End], root' \in [share : Shares \cup {NoShare}, end : End],
         session' \in [Shares -> Session],
         \A s \in Shares : row'[s].rel = row[s].rel /\ OwnData(row'[s]),
         root'.share = root.share, root'.end.rel = root.end.rel,
         root'.end.removing = root.end.removing, OwnData(root'.end),
         SessionBound'
  PROVE  IInv'
<1> USE DEF IInv
<1>1. TypeOK'
  BY DEF TypeOK
<1>2. BindingsKept
  BY DEF BindingsKept
<1>3. CommandsGoOn
  BY DEF CommandsGoOn, SameCommand
<1>4. /\ Issued' /\ OneShareEach' /\ UnaskedBound' /\ AbsentGone' /\ StrandedOnlyWarned'
      /\ \A d \in Commands : command'[d].type = "remove" => command'[d].rel \in asked'
      /\ \A p \in requests' : p.type = "remove" => p.rel \in asked'
  BY <1>1, <1>2, <1>3, KeptBindings DEF TypeOK
<1>5. Asked' /\ Sends' /\ Waits'
  BY DEF Asked, Sends, Waits
<1>6. DataOfBinding'
  BY DataOfEnds
<1> QED
  BY <1>1, <1>4, <1>5, <1>6

(* One end installs something of the relationship it is bound to.          *)
LEMMA RootInstalls ==
  ASSUME IInv, NEW r \in {NoRel, root.end.rel}, NEW e \in {Applying(root.end, r), Applied(root.end, r)},
         root' = [root EXCEPT !.end = e]
  PROVE  /\ root' \in [share : Shares \cup {NoShare}, end : End]
         /\ root'.share = root.share /\ root'.end.rel = root.end.rel
         /\ root'.end.removing = root.end.removing /\ OwnData(root'.end)
<1>1. root.end \in End /\ OwnData(root.end) /\ root \in [share : Shares \cup {NoShare}, end : End]
  BY DataOfEnds DEF IInv, TypeOK
<1>2. r \in Maybe
  BY <1>1 DEF End
<1>3. e \in End /\ e.rel = root.end.rel /\ e.removing = root.end.removing /\ OwnData(e)
  <2>1. CASE e = Applying(root.end, r)
    BY <1>1, <1>2, <2>1, EndInstalls
  <2>2. CASE e = Applied(root.end, r)
    BY <1>1, <1>2, <2>2, EndInstalls
  <2> QED
    BY <2>1, <2>2
<1>4. root'.share = root.share /\ root'.end = e
  BY <1>1
<1> QED
  BY <1>1, <1>3, <1>4

LEMMA RowInstalls ==
  ASSUME IInv, NEW s \in Shares, NEW r \in {NoRel, row[s].rel},
         NEW e \in {Applying(row[s], r), Applied(row[s], r)}, row' = [row EXCEPT ![s] = e]
  PROVE  /\ row' \in [Shares -> End]
         /\ \A q \in Shares : row'[q].rel = row[q].rel /\ OwnData(row'[q])
<1>1. row \in [Shares -> End] /\ \A q \in Shares : OwnData(row[q])
  BY DataOfEnds DEF IInv, TypeOK
<1>2. r \in Maybe
  BY <1>1 DEF End
<1>3. e \in End /\ e.rel = row[s].rel /\ OwnData(e)
  BY <1>1, <1>2, EndInstalls
<1> QED
  BY <1>1, <1>3

(* A share that applies: there is no other one, as its permits are taken.  *)
LEMMA SyncsStep ==
  ASSUME IInv, NEW s \in Shares, Open(s) \/ Syncs(s) \/ RecoverRow(s)
  PROVE  IInv'
<1> USE DEF IInv
<1>1. /\ row \in [Shares -> End] /\ root \in [share : Shares \cup {NoShare}, end : End]
      /\ session \in [Shares -> Session] /\ session[s].rel \in Maybe
      /\ OwnData(root.end) /\ \A q \in Shares : OwnData(row[q])
  BY DataOfEnds DEF TypeOK, Session
<1>2. ASSUME NEW at \in {"off", "open", "responding", "connector", "connecting"}, Goes(s, at)
      PROVE  /\ session' \in [Shares -> Session]
             /\ session'[s].at = at /\ session'[s].rel = session[s].rel
             /\ \A q \in Shares \ {s} : session'[q] = session[q]
  <2>1. session[s] \in Session /\ session'[s] = [session[s] EXCEPT !.at = at]
    BY <1>1, <1>2 DEF Goes
  <2>2. session'[s] \in Session /\ session'[s].at = at /\ session'[s].rel = session[s].rel
    BY <2>1 DEF Session
  <2> QED
    BY <1>1, <1>2, <2>2 DEF Goes
<1>3. CASE Open(s)
  <2>1. UNCHANGED <<row, root, command, requests, issued, asked, warned, late>>
    BY <1>3 DEF Open
  <2>2. session' \in [Shares -> Session] /\ SessionBound'
    BY <1>1, <1>3 DEF Open, Session, SessionBound, End
  <2> QED
    BY <1>1, <2>1, <2>2, SyncStep
<1>4. CASE Close(s)
  <2>1. UNCHANGED <<row, root, command, requests, issued, asked, warned, late>>
    BY <1>4 DEF Close
  <2>2. session' \in [Shares -> Session] /\ SessionBound'
    BY <1>1, <1>4 DEF Close, Session, SessionBound
  <2> QED
    BY <1>1, <2>1, <2>2, SyncStep
<1>5. CASE Reserve(s)
  <2>1. UNCHANGED <<row, command, requests, issued, asked, warned, late>> /\ Permitted
    BY <1>5 DEF Reserve
  <2>2. CASE FinalBinding(s, session[s].rel)
    <3>1. /\ root' = [root EXCEPT !.end = Applying(root.end, session[s].rel)]
          /\ Goes(s, "responding")
          /\ root.end.rel = session[s].rel /\ row[s].rel = session[s].rel
      BY <1>5, <2>2 DEF Reserve, FinalBinding, IsBound
    <3>2. /\ root' \in [share : Shares \cup {NoShare}, end : End]
          /\ root'.share = root.share /\ root'.end.rel = root.end.rel
          /\ root'.end.removing = root.end.removing /\ OwnData(root'.end)
      BY <3>1, RootInstalls
    <3>3. SessionBound'
      BY <1>2, <2>1, <3>1, <3>2 DEF SessionBound, Permitted
    <3> QED
      BY <1>1, <1>2, <2>1, <3>1, <3>2, <3>3, SyncStep
  <2>3. CASE ~ FinalBinding(s, session[s].rel)
    <3>1. session' = [session EXCEPT ![s] = Closed] /\ root' = root
      BY <1>5, <2>3 DEF Reserve
    <3>2. session' \in [Shares -> Session] /\ SessionBound'
      BY <1>1, <2>1, <3>1 DEF Session, SessionBound
    <3> QED
      BY <1>1, <2>1, <3>1, <3>2, SyncStep
  <2> QED
    BY <2>2, <2>3
<1>6. CASE ApplyRoot(s)
  <2>1. /\ UNCHANGED <<row, command, requests, issued, asked, warned, late>>
        /\ root' = [root EXCEPT !.end = Applied(root.end, session[s].rel)]
        /\ Goes(s, "connector") /\ session[s].at = "responding"
    BY <1>6 DEF ApplyRoot
  <2>2. root.end.rel = session[s].rel
    BY <2>1 DEF SessionBound
  <2>3. /\ root' \in [share : Shares \cup {NoShare}, end : End]
        /\ root'.share = root.share /\ root'.end.rel = root.end.rel
        /\ root'.end.removing = root.end.removing /\ OwnData(root'.end)
    BY <2>1, <2>2, RootInstalls
  <2>4. SessionBound'
    BY <1>2, <2>1, <2>3 DEF SessionBound
  <2> QED
    BY <1>1, <1>2, <2>1, <2>3, <2>4, SyncStep
<1>7. CASE ApplyRow(s)
  <2>1. /\ UNCHANGED <<root, command, requests, issued, asked, warned, late>>
        /\ \/ /\ Goes(s, "connecting") /\ session[s].at = "connector"
              /\ row' = [row EXCEPT ![s] = Applying(row[s], session[s].rel)]
           \/ /\ Goes(s, "open") /\ session[s].at = "connecting"
              /\ row' = [row EXCEPT ![s] = Applied(row[s], session[s].rel)]
    BY <1>7 DEF ApplyRow
  <2>2. row[s].rel = session[s].rel
    BY <2>1 DEF SessionBound
  <2>3. /\ row' \in [Shares -> End]
        /\ \A q \in Shares : row'[q].rel = row[q].rel /\ OwnData(row'[q])
    BY <2>1, <2>2, RowInstalls
  <2>4. session' \in [Shares -> Session] /\ SessionBound'
    BY <1>2, <2>1, <2>3 DEF SessionBound
  <2> QED
    BY <1>1, <2>1, <2>3, <2>4, SyncStep
<1>8. CASE RecoverRow(s)
  <2>1. /\ UNCHANGED <<root, command, requests, session, issued, asked, warned, late>>
        /\ row' = [row EXCEPT ![s] = Applied(row[s], row[s].install)]
    BY <1>8 DEF RecoverRow
  <2>2. /\ row' \in [Shares -> End]
        /\ \A q \in Shares : row'[q].rel = row[q].rel /\ OwnData(row'[q])
    BY <1>1, <2>1, RowInstalls DEF OwnData
  <2>3. SessionBound'
    BY <2>1, <2>2 DEF SessionBound
  <2> QED
    BY <1>1, <2>1, <2>2, <2>3, SyncStep
<1> QED
  BY <1>3, <1>4, <1>5, <1>6, <1>7, <1>8 DEF Syncs

LEMMA RecoverRootStep == ASSUME IInv, RecoverRoot PROVE IInv'
<1> USE DEF IInv
<1>1. /\ UNCHANGED <<row, command, requests, session, issued, asked, warned, late>>
      /\ root' = [root EXCEPT !.end = Applied(root.end, root.end.install)]
  BY DEF RecoverRoot
<1>2. /\ row \in [Shares -> End] /\ session \in [Shares -> Session]
      /\ OwnData(root.end) /\ \A q \in Shares : OwnData(row[q])
  BY DataOfEnds DEF TypeOK
<1>3. /\ root' \in [share : Shares \cup {NoShare}, end : End]
      /\ root'.share = root.share /\ root'.end.rel = root.end.rel
      /\ root'.end.removing = root.end.removing /\ OwnData(root'.end)
  BY <1>1, <1>2, RootInstalls DEF OwnData
<1>4. SessionBound'
  BY <1>1, <1>3 DEF SessionBound
<1> QED
  BY <1>1, <1>2, <1>3, <1>4, SyncStep

----------------------------------------------------------------------------
(* The invariant.                                                          *)

LEMMA InitInv == Init => IInv
<1> SUFFICES ASSUME Init PROVE IInv
  OBVIOUS
<1> USE DEF Init
<1>1. TypeOK
  BY DEF TypeOK, End, Command, CommandSteps, Session, Message
<1>2. Sends /\ Waits /\ Issued /\ Asked /\ UnaskedBound /\ AbsentGone /\ SessionBound
  BY DEF Sends, Waits, Issued, Asked, UnaskedBound, AbsentGone, SessionBound
<1>3. OneShareEach
  <2>1. ShareOfEach([r \in Rels |-> NoShare])
    BY DEF ShareOfEach
  <2> QED
    BY <2>1 DEF OneShareEach
<1>4. DataOfBinding /\ StrandedOnlyWarned
  BY DEF DataOfBinding, StrandedOnlyWarned
<1> QED
  BY <1>1, <1>2, <1>3, <1>4 DEF IInv

LEMMA NextInv == IInv /\ [Next]_vars => IInv'
<1> SUFFICES ASSUME IInv, [Next]_vars PROVE IInv'
  OBVIOUS
<1>1. CASE UNCHANGED vars
  <2>1. /\ TypeOK' /\ Sends' /\ Waits' /\ Issued' /\ Asked' /\ UnaskedBound' /\ AbsentGone'
        /\ SessionBound' /\ DataOfBinding' /\ StrandedOnlyWarned'
    BY <1>1 DEF vars, IInv, TypeOK, Sends, Waits, Issued, Asked, UnaskedBound, AbsentGone,
      SessionBound, DataOfBinding, StrandedOnlyWarned
  <2>2. OneShareEach'
    BY <1>1 DEF vars, IInv, OneShareEach, ShareOfEach
  <2> QED
    BY <2>1, <2>2 DEF IInv
<1>2. ASSUME NEW c \in Commands, NEW s \in Shares,
             Add(c, s) \/ \E pc \in {"send", "local"} : Remove(c, s, pc)
      PROVE  IInv'
  BY <1>2, AddStep, RemoveStep
<1>3. ASSUME NEW c \in Commands, Runs(c) PROVE IInv'
  BY <1>3, SendStep, CompleteAddStep, FinalizeRemovalStep DEF Runs
<1>4. CASE Serves
  BY <1>4, ServeAddStep, ServeRemoveStep DEF Serves
<1>5. CASE Lives
  BY <1>2, <1>3, <1>4, <1>5, RootRemovalStep, SyncsStep, RecoverRootStep
    DEF Lives
<1>6. CASE Opens \/ Dies
  BY <1>6, SyncsStep, GiveUpStep, DieRemovingStep DEF Opens, Dies
<1> QED
  BY <1>1, <1>5, <1>6 DEF Next

----------------------------------------------------------------------------
(* The theorems.                                                           *)

(* The rows, commands, requests and sessions keep their types.             *)
THEOREM TypeCorrect == Spec => []TypeOK
<1>1. IInv => TypeOK
  BY DEF IInv
<1> QED
  BY <1>1, InitInv, NextInv, PTL DEF Spec

(* Records, shared heads and interrupted installs of one relationship are  *)
(* never taken for another one's: a directory is bound anew only once it   *)
(* has nothing left of what it was bound to.                               *)
THEOREM DataStaysItsOwn == Spec => []DataOfBinding
<1>1. IInv => DataOfBinding
  BY DEF IInv
<1> QED
  BY <1>1, InitInv, NextInv, PTL DEF Spec

(* The connector forgets a relationship that the responder still has only  *)
(* with a warning, or before a registration that comes late.               *)
THEOREM StrandingIsTold == Spec => []StrandedOnlyWarned
<1>1. IInv => StrandedOnlyWarned
  BY DEF IInv
<1> QED
  BY <1>1, InitInv, NextInv, PTL DEF Spec

(* A removal that comes late detaches nothing that nobody has asked to     *)
(* remove, above all no newer relationship of the same directory.          *)
THEOREM LateRemovalsAreHarmless == Spec => OnlyAskedDetached
<1>1. IInv /\ [Next]_vars =>
        [root.end.rel # NoRel /\ root'.end.rel # root.end.rel => root.end.rel \in asked]_vars
  <2> SUFFICES ASSUME IInv, Next, root.end.rel # NoRel, root'.end.rel # root.end.rel
               PROVE  root.end.rel \in asked
    BY DEF vars
  <2> USE DEF IInv
  <2>1. root' # root
    OBVIOUS
  <2>2. root \in [share : Shares \cup {NoShare}, end : End] /\ root.end \in End
    BY DEF TypeOK
  <2>3. ASSUME NEW q \in requests, ServeAdd(q) PROVE FALSE
    <3>1. Registers(q) /\ root' = [share |-> q.share,
                                  end |-> [root.end EXCEPT !.rel = q.rel, !.complete = TRUE]]
      BY <2>1, <2>3 DEF ServeAdd
    <3>2. root.end.rel = q.rel
      BY <3>1 DEF Registers, IsBound, Unused, IsUnpaired
    <3> QED
      BY <2>2, <3>1, <3>2 DEF End
  <2>4. ASSUME NEW q \in requests, ServeRemove(q) PROVE root.end.rel \in asked
    BY <2>1, <2>4 DEF ServeRemove, IsFor, Asked
  <2>5. ASSUME NEW q \in requests, DieRemoving(q) PROVE FALSE
    BY <2>2, <2>5 DEF DieRemoving, End
  <2>6. CASE MarkRoot
    BY <2>2, <2>6 DEF MarkRoot, End
  <2>7. CASE DetachRoot
    BY <2>7 DEF DetachRoot, Asked
  <2>8. ASSUME NEW s \in Shares, Reserve(s) \/ ApplyRoot(s) PROVE FALSE
    <3>1. \/ root' = [root EXCEPT !.end = Applying(root.end, session[s].rel)]
          \/ root' = [root EXCEPT !.end = Applied(root.end, session[s].rel)]
      BY <2>1, <2>8 DEF Reserve, ApplyRoot
    <3>2. session[s].rel \in Maybe
      BY DEF TypeOK, Session
    <3>3. /\ Applying(root.end, session[s].rel).rel = root.end.rel
          /\ Applied(root.end, session[s].rel).rel = root.end.rel
      BY <2>2, <3>2, EndInstalls
    <3> QED
      BY <2>2, <3>1, <3>3
  <2>9. CASE RecoverRoot
    BY <2>2, <2>9 DEF RecoverRoot, Applied, End
  <2> QED
    BY <2>1, <2>3, <2>4, <2>5, <2>6, <2>7, <2>8, <2>9
      DEF Next, Lives, Opens, Dies, Serves, Syncs, Runs, Add, Remove, Send, CompleteAdd,
          FinalizeRemoval, GiveUp, Open, ApplyRow, Close, RecoverRow
<1> QED
  BY <1>1, InitInv, NextInv, PTL DEF Spec, OnlyAskedDetached
=============================================================================
