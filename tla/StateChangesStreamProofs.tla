----------------------- MODULE StateChangesStreamProofs -----------------------
(***************************************************************************)
(* Proofs about StateChangesStream, for any number of commits and any ways *)
(* in which the node and the transport end its calls.                      *)
(***************************************************************************)
EXTENDS StateChangesStream, TLAPS

\* Time for the larger leaves.
USE SMTT(30), ZenonT(60)

\* Types and order together are inductive: the order of the queue needs its
\* elements to be numbers, and a commit appends a view above all others.
OrderInv == TypeOK /\ QueueInOrder

\* The views are positive numbers.
LEMMA ViewsAreNats == \A v \in Views : v \in Nat
BY MaxViewAssumption DEF Views

\* The loop starts with nothing queued.
LEMMA InitInOrder == Init => OrderInv
BY MaxViewAssumption DEF Init, OrderInv, TypeOK, QueueInOrder, Call

\* A commit appends the newest view.
LEMMA CommitInOrder == OrderInv /\ Commit => OrderInv'
<1> SUFFICES ASSUME OrderInv, Commit PROVE OrderInv'
  OBVIOUS
<1> USE DEF OrderInv
<1>1. /\ head \in Nat /\ head + 1 \in Views /\ head' = head + 1 /\ applied \in Nat
      /\ UNCHANGED <<pc, slot, closer, applied>>
  BY MaxViewAssumption DEF Commit, TypeOK, Views
<1>2. CASE rpc' = rpc
  <2>1. rpc.queue \in Seq(Views)
    BY DEF TypeOK, Call
  <2>2. \A i \in 1 .. Len(rpc.queue) : rpc.queue[i] \in Views
    BY <2>1
  <2>3. \A i \in 1 .. Len(rpc.queue) : rpc.queue[i] <= head + 1
    BY <1>1, <2>2, MaxViewAssumption DEF QueueInOrder, Views
  <2>4. TypeOK'
    BY <1>1, <1>2, MaxViewAssumption DEF TypeOK, Views
  <2>5. QueueInOrder'
    BY <1>1, <1>2, <2>3 DEF QueueInOrder
  <2> QED BY <2>4, <2>5
<1>3. CASE rpc' = [rpc EXCEPT !.queue = Append(@, head + 1)]
  <2> DEFINE q == rpc.queue
  <2>1. q \in Seq(Views) /\ Len(q) \in Nat /\ Append(q, head + 1) \in Seq(Views)
    BY <1>1 DEF TypeOK, Call
  <2>2. /\ rpc'.queue = Append(q, head + 1) /\ rpc'.status = rpc.status
        /\ rpc' \in Call
    BY <1>3, <2>1 DEF TypeOK, Call
  <2>3. /\ Len(rpc'.queue) = Len(q) + 1
        /\ \A i \in 1 .. Len(q) : rpc'.queue[i] = q[i] /\ q[i] \in Nat /\ q[i] <= head
        /\ rpc'.queue[Len(q) + 1] = head + 1
    BY <2>1, <2>2, ViewsAreNats DEF QueueInOrder
  <2>4. \A i \in 1 .. Len(rpc'.queue) : i \in 1 .. Len(q) \/ i = Len(q) + 1
    BY <2>1, <2>3
  <2>5. TypeOK'
    BY <1>1, <2>2, MaxViewAssumption DEF TypeOK, Views
  <2>6. QueueInOrder'
    <3>0. applied' <= head'
      BY <1>1 DEF QueueInOrder
    <3> SUFFICES ASSUME NEW i \in 1 .. Len(rpc'.queue)
                 PROVE  /\ applied' < rpc'.queue[i]
                        /\ rpc'.queue[i] <= head'
                        /\ \A j \in 1 .. Len(rpc'.queue) :
                             i < j => rpc'.queue[i] < rpc'.queue[j]
      BY <3>0 DEF QueueInOrder
    <3>1. CASE i \in 1 .. Len(q)
      <4>1. applied < q[i] /\ q[i] <= head /\ q[i] \in Nat /\ rpc'.queue[i] = q[i]
        BY <2>3, <3>1 DEF QueueInOrder
      <4>2. ASSUME NEW j \in 1 .. Len(q), i < j PROVE rpc'.queue[i] < rpc'.queue[j]
        BY <2>3, <3>1, <4>2 DEF QueueInOrder
      <4>3. rpc'.queue[i] < rpc'.queue[Len(q) + 1]
        BY <1>1, <2>3, <4>1
      <4> QED BY <1>1, <2>4, <4>1, <4>2, <4>3
    <3>2. CASE i = Len(q) + 1
      <4>1. \A j \in 1 .. Len(rpc'.queue) : ~(i < j)
        BY <2>1, <2>3, <3>2
      <4> QED BY <1>1, <2>3, <3>2, <4>1 DEF QueueInOrder
    <3> QED BY <2>4, <3>1, <3>2
  <2> QED BY <2>5, <2>6
<1> QED BY <1>2, <1>3 DEF Commit

\* A batch read is the oldest of the queue: those left are newer.
LEMMA ReadBatchInOrder ==
  OrderInv /\ ReadBatch => OrderInv' /\ applied < applied' /\ applied' <= head
<1> SUFFICES ASSUME OrderInv, ReadBatch
             PROVE  OrderInv' /\ applied < applied' /\ applied' <= head
  OBVIOUS
<1> USE DEF OrderInv
<1> DEFINE q == rpc.queue
<1>1. /\ q \in Seq(Views) /\ q # <<>> /\ Len(q) \in Nat \ {0}
      /\ Tail(q) \in Seq(Views) /\ Len(Tail(q)) = Len(q) - 1
      /\ \A i \in 1 .. Len(q) - 1 : Tail(q)[i] = q[i + 1]
      /\ Head(q) = q[1] /\ q[1] \in Views
  <2>1. q \in Seq(Views) /\ q # <<>>
    BY DEF ReadBatch, TypeOK, Call
  <2> HIDE DEF q
  <2> QED BY <2>1
<1>2. /\ applied' = q[1] /\ rpc' \in Call /\ rpc'.queue = Tail(q)
      /\ UNCHANGED <<pc, slot, closer, head>>
  BY <1>1 DEF ReadBatch, TypeOK, Call
<1>3. TypeOK'
  BY <1>1, <1>2, MaxViewAssumption DEF TypeOK, Views
<1>4. applied < q[1] /\ q[1] <= head
  BY <1>1 DEF QueueInOrder
<1>5. ASSUME NEW i \in 1 .. Len(q) - 1
      PROVE  /\ q[1] < Tail(q)[i]
             /\ Tail(q)[i] <= head
             /\ \A j \in 1 .. Len(q) - 1 : i < j => Tail(q)[i] < Tail(q)[j]
  <2>1. i + 1 \in 1 .. Len(q) /\ 1 < i + 1 /\ 1 \in 1 .. Len(q)
    BY <1>1
  <2>2. q[1] < q[i + 1] /\ q[i + 1] <= head
    BY <2>1 DEF QueueInOrder
  <2>3. ASSUME NEW j \in 1 .. Len(q) - 1, i < j PROVE q[i + 1] < q[j + 1]
    <3>1. j + 1 \in 1 .. Len(q) /\ i + 1 < j + 1
      BY <1>1, <2>3
    <3> QED BY <2>1, <3>1 DEF QueueInOrder
  <2> QED BY <1>1, <2>2, <2>3
<1>6. QueueInOrder'
  BY <1>1, <1>2, <1>4, <1>5 DEF QueueInOrder
<1> QED BY <1>2, <1>3, <1>4, <1>6

\* The other steps leave the queue alone, or replace it by an empty one.
LEMMA OtherStepsInOrder ==
  ASSUME OrderInv,
         \/ EndCall \/ Register \/ RequestSucceeds \/ RequestFails \/ ReadFails
         \/ ArmTimer \/ TimerExpires \/ WaitAborted
         \/ Close \/ CancelTimer \/ CancelCall \/ UNCHANGED vars
  PROVE  OrderInv' /\ UNCHANGED <<head, applied>>
<1> USE DEF OrderInv
<1>1. /\ UNCHANGED <<head, applied>>
      /\ rpc'.queue \in {rpc.queue, <<>>} /\ rpc' \in Call
  <2>1. CASE EndCall
    BY <2>1, ServerEndsAssumption DEF EndCall, TypeOK, Call
  <2>2. CASE CancelCall
    BY <2>2 DEF CancelCall, TypeOK, Call
  <2>3. CASE Register
    BY <2>3 DEF Register, Call
  <2> QED BY <2>1, <2>2, <2>3 DEF RequestSucceeds, RequestFails, ReadFails, ArmTimer,
            TimerExpires, WaitAborted, Close, CancelTimer, vars, TypeOK
<1>2. closer' \in [pc: {"idle", "cancel_timer", "cancel_call", "done"},
                   target: {"none", "last", "old"}]
  <2>1. CASE Register
    BY <2>1 DEF Register, TypeOK
  <2>2. CASE Close \/ CancelTimer \/ CancelCall
    BY <2>2 DEF Close, CancelTimer, CancelCall, TypeOK
  <2> QED BY <2>1, <2>2 DEF EndCall, RequestSucceeds, RequestFails, ReadFails,
            ArmTimer, TimerExpires, WaitAborted, vars, TypeOK
<1>3. /\ pc' \in {"spawned", "requesting", "reading", "backoff", "waiting",
                  "retrying", "aborted", "ended"}
      /\ slot' \in {"none", "last"}
  BY DEF EndCall, Register, RequestSucceeds, RequestFails, ReadFails, AfterFailure,
         ArmTimer, TimerExpires, WaitAborted, Close, CancelTimer, CancelCall, vars, TypeOK
<1>4. TypeOK'
  BY <1>1, <1>2, <1>3 DEF TypeOK
<1>5. QueueInOrder'
  <2>1. CASE rpc'.queue = rpc.queue
    BY <1>1, <2>1 DEF QueueInOrder
  <2>2. CASE rpc'.queue = <<>>
    BY <1>1, <2>2 DEF QueueInOrder
  <2> QED BY <1>1, <2>1, <2>2
<1> QED BY <1>1, <1>4, <1>5

\* Every step keeps types and order.
LEMMA NextInOrder == OrderInv /\ [Next]_vars => OrderInv'
BY CommitInOrder, ReadBatchInOrder, OtherStepsInOrder DEF Next, LoopNext

-----------------------------------------------------------------------------

\* Types and the order of the waiting batches hold in every reachable state.
THEOREM OrderInvariant == Spec => []OrderInv
<1>1. Init => OrderInv
  BY InitInOrder
<1>2. OrderInv /\ [Next]_vars => OrderInv'
  BY NextInOrder
<1> QED BY <1>1, <1>2, PTL DEF Spec

\* Every variable of the stream has its type.
THEOREM TypeCorrect == Spec => []TypeOK
<1>1. OrderInv => TypeOK
  BY DEF OrderInv
<1> QED BY <1>1, OrderInvariant, PTL

\* The batches waiting on the call are in order and newer than those applied.
THEOREM QueueOrder == Spec => []QueueInOrder
<1>1. OrderInv => QueueInOrder
  BY DEF OrderInv
<1> QED BY <1>1, OrderInvariant, PTL

\* on_new_block gets batches of increasing, committed views, through any number
\* of failures and registrations.
THEOREM FeedOrder == Spec => BatchesInOrder
<1>1. OrderInv /\ [Next]_vars
        => [applied' # applied => applied < applied' /\ applied' <= head]_vars
  <2> SUFFICES ASSUME OrderInv, [Next]_vars, applied' # applied
               PROVE  applied < applied' /\ applied' <= head
    OBVIOUS
  <2>1. CASE ReadBatch
    BY <2>1, ReadBatchInOrder
  <2>2. CASE Commit
    BY <2>2 DEF Commit
  <2> QED BY <2>1, <2>2, OtherStepsInOrder DEF Next, LoopNext
<1> QED BY <1>1, OrderInvariant, PTL DEF Spec, BatchesInOrder

-----------------------------------------------------------------------------
(***************************************************************************)
(* The end of the loop.                                                    *)
(***************************************************************************)

\* close() was called, or the node may cancel by itself.
Closing == closer.pc # "idle" \/ "cancelled" \in ServerEnds

\* A call is cancelled, and the wait for the timer aborted, by a close() only:
\* the two ways in which the loop comes to its end.
EndInv == rpc.status = "cancelled" \/ pc \in {"aborted", "ended"} => Closing

\* A call that is cancelled, or a wait aborted, goes back to a close().
LEMMA NextEnds == OrderInv /\ EndInv /\ [Next]_vars => EndInv'
<1> SUFFICES ASSUME OrderInv, EndInv, [Next]_vars PROVE EndInv'
  OBVIOUS
<1>1. /\ rpc \in Call
      /\ closer \in [pc: {"idle", "cancel_timer", "cancel_call", "done"},
                     target: {"none", "last", "old"}]
  BY DEF OrderInv, TypeOK
<1>2. CASE Commit
  <2>1. rpc'.status = rpc.status /\ UNCHANGED <<pc, closer>>
    BY <1>1, <1>2 DEF Commit, Call
  <2> QED BY <2>1 DEF EndInv, Closing
<1>3. CASE EndCall
  <2>1. rpc'.status \in ServerEnds /\ UNCHANGED <<pc, closer>>
    BY <1>1, <1>3 DEF EndCall, Call
  <2> QED BY <2>1 DEF EndInv, Closing
<1>4. CASE Register
  <2>1. rpc'.status = "none" /\ pc' = "requesting"
    BY <1>4 DEF Register
  <2> QED BY <2>1 DEF EndInv
<1>5. CASE RequestSucceeds \/ ArmTimer \/ TimerExpires \/ WaitAborted
  BY <1>5 DEF RequestSucceeds, ArmTimer, TimerExpires, WaitAborted, EndInv, Closing
<1>6. CASE RequestFails \/ ReadFails
  <2>1. UNCHANGED <<rpc, closer>> /\ (pc' = "ended" => rpc.status = "cancelled")
        /\ pc' \in {"ended", "backoff"}
    BY <1>6 DEF RequestFails, ReadFails, AfterFailure
  <2> QED BY <2>1 DEF EndInv, Closing
<1>7. CASE ReadBatch
  <2>1. rpc'.status = rpc.status /\ UNCHANGED <<pc, closer>>
    BY <1>1, <1>7 DEF ReadBatch, Call
  <2> QED BY <2>1 DEF EndInv, Closing
<1>8. CASE Close \/ CancelTimer \/ CancelCall
  <2>1. closer'.pc # "idle"
    BY <1>1, <1>8 DEF Close, CancelTimer, CancelCall
  <2> QED BY <2>1 DEF EndInv, Closing
<1>9. CASE UNCHANGED vars
  BY <1>9 DEF vars, EndInv, Closing
<1> QED BY <1>2, <1>3, <1>4, <1>5, <1>6, <1>7, <1>8, <1>9 DEF Next, LoopNext

\* run() returns only after a close(), or because the node reported CANCELLED,
\* whatever the failures, the timers and the moment at which close() comes.
THEOREM EndsAfterClose == Spec => []EndsOnlyOnClose
<1>1. Init => EndInv
  BY DEF Init, EndInv
<1>2. EndInv => EndsOnlyOnClose
  BY DEF EndInv, Closing, EndsOnlyOnClose
<1> QED BY <1>1, <1>2, NextEnds, OrderInvariant, PTL DEF Spec

=============================================================================
