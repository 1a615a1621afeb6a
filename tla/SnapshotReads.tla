---------------------------- MODULE SnapshotReads ----------------------------
(***************************************************************************)
(* What CachedDatabase::get_one promises its callers, with no cache in     *)
(* sight: a reader works on the snapshot that was the node's last when its *)
(* transaction began, and an answer is the entry of that snapshot, empty   *)
(* bytes, or no answer at all.  A commit never touches a snapshot that a   *)
(* reader can have.                                                        *)
(***************************************************************************)
EXTENDS Integers

CONSTANTS Readers, ReadKeys, Keys, Bytes, Views, FirstView, LastView, Empty, None

VARIABLES db, head, reads

vars == <<db, head, reads>>

Init ==
  /\ db \in [Views -> [Keys -> Bytes]]
  /\ head = FirstView
  /\ reads = [r \in Readers |->
                [pc |-> "idle", view |-> FirstView, key |-> None, ret |-> None]]

Commit ==
  /\ head < LastView
  /\ head' = head + 1
  /\ \E snapshot \in [Keys -> Bytes] : db' = [db EXCEPT ![head + 1] = snapshot]
  /\ UNCHANGED reads

Begin(r) ==
  /\ reads[r].pc = "idle"
  /\ reads' = [reads EXCEPT ![r] = [pc |-> @.pc, view |-> head,
                                    key |-> @.key, ret |-> None]]
  /\ UNCHANGED <<db, head>>

Ask(r) ==
  /\ reads[r].pc = "idle"
  /\ \E k \in ReadKeys :
       reads' = [reads EXCEPT ![r] = [pc |-> "busy", view |-> @.view,
                                      key |-> k, ret |-> None]]
  /\ UNCHANGED <<db, head>>

Answer(r) ==
  /\ reads[r].pc = "busy"
  /\ \E value \in {db[reads[r].view][reads[r].key], Empty, None} :
       reads' = [reads EXCEPT ![r] = [pc |-> "idle", view |-> @.view,
                                      key |-> @.key, ret |-> value]]
  /\ UNCHANGED <<db, head>>

Next == Commit \/ \E r \in Readers : Begin(r) \/ Ask(r) \/ Answer(r)

Spec == Init /\ [][Next]_vars

=============================================================================
