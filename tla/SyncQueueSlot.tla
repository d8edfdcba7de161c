--------------------------- MODULE SyncQueueSlot ---------------------------
(* The slot that the scheduler of an installation offers its clients, read *)
(* from the table alone: the line is the order of the tickets, the owner   *)
(* is the active row.                                                      *)
EXTENDS SyncQueue

Before(t) == {u \in rows : queue[u].ticket < queue[t].ticket}

LineOfTable  == [t \in rows |-> Before(t)]
OwnerOfTable == IF NoneActive THEN NoToken ELSE CHOOSE t \in Active : TRUE

Slot == INSTANCE InstallationSlot WITH
  Requests  <- Tokens,
  NoRequest <- NoToken,
  line      <- LineOfTable,
  owner     <- OwnerOfTable

(* Every step of every process is a step of the slot or leaves it alone:   *)
(* grants go to the head of the line only, and nothing but its own leaving *)
(* or rejoining moves a request (state.rs 689-983 and 3817-4043).          *)
ImplementsSlot == Slot!Spec
============================================================================
