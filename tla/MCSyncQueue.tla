---------------------------- MODULE MCSyncQueue ----------------------------
(* Small instances of the installation scheduler, and of the slot it       *)
(* offers.                                                                 *)
EXTENDS SyncQueueSlot, TLC

ClientSymmetry == Permutations(Clients) \cup Permutations(Tokens)
============================================================================
