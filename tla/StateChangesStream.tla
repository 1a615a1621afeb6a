-------------------------- MODULE StateChangesStream --------------------------
(***************************************************************************)
(* StateChangesStream (ethdb/kv/state_changes_stream.cpp) over one         *)
(* ServerStreamingRpc at a time (grpc/server_streaming_rpc.hpp): the loop  *)
(* that registers at the node for state changes, hands every batch to      *)
(* on_new_block, waits and registers again after a failure, and ends when  *)
(* it is cancelled.                                                        *)
(*                                                                         *)
(* close() runs on another thread, the one that handles the signals: it    *)
(* emits on the cancellation slot, whose handler cancels the retry timer   *)
(* and then the call bound at the last registration.                       *)
(*                                                                         *)
(* The node and gRPC are external: the first of a server end, a transport  *)
(* failure and a TryCancel settles the status of a call.                   *)
(***************************************************************************)
EXTENDS Integers, Sequences

CONSTANTS
  ServerEnds,  \* how the node or the transport may end a call
  MaxView      \* bound: last view the node commits

ASSUME ServerEndsAssumption == ServerEnds \subseteq {"ok", "error", "cancelled"}
ASSUME MaxViewAssumption == MaxView \in Nat

VARIABLES
  pc,       \* where the coroutine of run() is
  slot,     \* the call the cancellation slot's handler is bound to
  rpc,      \* the last call: its status and the batches not yet read
  closer,   \* the thread that runs close(), and the call its handler cancels
  head,     \* the last committed view (external)
  applied   \* the view of the last batch given to on_new_block

vars == <<pc, slot, rpc, closer, head, applied>>

\* The views whose batches the node may send.
Views == 1 .. MaxView

\* A call: how it ended, and the views of the batches sent and not yet read.
Call == [status: {"none", "ok", "error", "cancelled"}, queue: Seq(Views)]

-----------------------------------------------------------------------------
(***************************************************************************)
(* The node (external).                                                    *)
(***************************************************************************)

\* A commit sends its batch to the registered call, if there is one.
Commit ==
  /\ head < MaxView
  /\ head' = head + 1
  /\ rpc' = IF pc = "reading" /\ rpc.status = "none"
            THEN [rpc EXCEPT !.queue = Append(@, head + 1)]
            ELSE rpc
  /\ UNCHANGED <<pc, slot, closer, applied>>

\* The node, or the transport, ends the call.
EndCall ==
  /\ pc \in {"requesting", "reading"}
  /\ rpc.status = "none"
  /\ \E status \in ServerEnds : rpc' = [rpc EXCEPT !.status = status]
  /\ UNCHANGED <<pc, slot, closer, head, applied>>

-----------------------------------------------------------------------------
(***************************************************************************)
(* The loop of run().                                                      *)
(***************************************************************************)

\* Faulty variant: nothing is registered after a failure.
RegisterOnce ==
  /\ pc = "spawned"
  /\ pc' = "requesting"
  /\ slot' = "last"
  /\ UNCHANGED <<rpc, closer, head, applied>>

\* The top of the loop: a new call, the slot bound to it, the request started.
\* Binding the slot replaces the handler in place; a handler that runs on the
\* other thread goes on with the old call or with the new one.
Register ==
  /\ pc \in {"spawned", "retrying"}
  /\ pc' = "requesting"
  /\ slot' = "last"
  /\ rpc' = [status |-> "none", queue |-> <<>>]
  /\ closer' \in {closer} \cup
       {[closer EXCEPT !.target = "old"] : t \in {closer.target} \cap {"last"}}
  /\ UNCHANGED <<head, applied>>

\* The request is on its way: the stream is opened.
RequestSucceeds ==
  /\ pc = "requesting"
  /\ rpc.status \in {"none", "ok"}
  /\ pc' = "reading"
  /\ UNCHANGED <<slot, rpc, closer, head, applied>>

\* A cancelled call ends the loop, any other failure leads to the timer.
AfterFailure(status) == IF status = "cancelled" THEN "ended" ELSE "backoff"

\* The request fails, and Finish has fetched the status.
RequestFails ==
  /\ pc = "requesting"
  /\ rpc.status \in {"error", "cancelled"}
  /\ pc' = AfterFailure(rpc.status)
  /\ UNCHANGED <<slot, rpc, closer, head, applied>>

\* A batch is read and given to on_new_block.
ReadBatch ==
  /\ pc = "reading"
  /\ rpc.status # "cancelled"
  /\ rpc.queue # <<>>
  /\ applied' = Head(rpc.queue)
  /\ rpc' = [rpc EXCEPT !.queue = Tail(@)]
  /\ UNCHANGED <<pc, slot, closer, head>>

\* Faulty variant: a graceful end of the server passes for an empty batch.
ReadFailsAsBatch ==
  /\ pc = "reading"
  /\ rpc.status # "none"
  /\ rpc.status = "ok" => rpc.queue = <<>>
  /\ pc' = IF rpc.status = "ok" THEN pc ELSE AfterFailure(rpc.status)
  /\ applied' = IF rpc.status = "ok" THEN 0 ELSE applied
  /\ UNCHANGED <<slot, rpc, closer, head>>

\* The read fails, and Finish has fetched the status: a graceful end of the
\* server, which comes after its last batch, is turned into ABORTED.
ReadFails ==
  /\ pc = "reading"
  /\ rpc.status # "none"
  /\ rpc.status = "ok" => rpc.queue = <<>>
  /\ pc' = AfterFailure(IF rpc.status = "ok" THEN "aborted" ELSE rpc.status)
  /\ UNCHANGED <<slot, rpc, closer, head, applied>>

\* The timer is set and waited for; it expires and the loop starts over; or the
\* wait was aborted and the loop ends.
ArmTimer ==
  /\ pc = "backoff"
  /\ pc' = "waiting"
  /\ UNCHANGED <<slot, rpc, closer, head, applied>>

TimerExpires ==
  /\ pc = "waiting"
  /\ pc' = "retrying"
  /\ UNCHANGED <<slot, rpc, closer, head, applied>>

WaitAborted ==
  /\ pc = "aborted"
  /\ pc' = "ended"
  /\ UNCHANGED <<slot, rpc, closer, head, applied>>

-----------------------------------------------------------------------------
(***************************************************************************)
(* close(), on the thread that handles the signals.                        *)
(***************************************************************************)

\* The signal is emitted: without a handler in the slot that is all.
Close ==
  /\ closer.pc = "idle"
  /\ closer' = IF slot = "none" THEN [pc |-> "done", target |-> "none"]
               ELSE [pc |-> "cancel_timer", target |-> slot]
  /\ UNCHANGED <<pc, slot, rpc, head, applied>>

\* retry_timer_.cancel(): only a pending wait is aborted.
CancelTimer ==
  /\ closer.pc = "cancel_timer"
  /\ closer' = [closer EXCEPT !.pc = "cancel_call"]
  /\ pc' = IF pc = "waiting" THEN "aborted" ELSE pc
  /\ UNCHANGED <<slot, rpc, head, applied>>

\* Faulty variants: the handler forgets the call; it aborts it.
CancelCallForgotten ==
  /\ closer.pc = "cancel_call"
  /\ closer' = [pc |-> "done", target |-> "none"]
  /\ UNCHANGED <<pc, slot, rpc, head, applied>>

\* state_changes_rpc->cancel(): a call that has its status keeps it.
CancelCall ==
  /\ closer.pc = "cancel_call"
  /\ closer' = [pc |-> "done", target |-> "none"]
  /\ rpc' = IF closer.target = "last" /\ rpc.status = "none"
            THEN [rpc EXCEPT !.status = "cancelled"]
            ELSE rpc
  /\ UNCHANGED <<pc, slot, head, applied>>

-----------------------------------------------------------------------------
Init ==
  /\ pc = "spawned"
  /\ slot = "none"
  /\ rpc = [status |-> "none", queue |-> <<>>]
  /\ closer = [pc |-> "idle", target |-> "none"]
  /\ head = 0
  /\ applied = 0

LoopNext ==
  \/ Register \/ RequestSucceeds \/ RequestFails \/ ReadBatch \/ ReadFails
  \/ ArmTimer \/ TimerExpires \/ WaitAborted

Next == Commit \/ EndCall \/ LoopNext \/ Close \/ CancelTimer \/ CancelCall

Spec == Init /\ [][Next]_vars

\* The coroutine, the timer and close() run; the node accepts a registration if
\* it gets one again and again.  Nobody owes a commit, an end or a close.
Fairness ==
  /\ WF_vars(LoopNext)
  /\ SF_vars(RequestSucceeds)
  /\ WF_vars(CancelTimer \/ CancelCall)

FairSpec == Spec /\ Fairness

-----------------------------------------------------------------------------
(***************************************************************************)
(* Properties.                                                             *)
(***************************************************************************)

\* Every variable has its type.
TypeOK ==
  /\ pc \in {"spawned", "requesting", "reading", "backoff", "waiting",
             "retrying", "aborted", "ended"}
  /\ slot \in {"none", "last"}
  /\ rpc \in Call
  /\ closer \in [pc: {"idle", "cancel_timer", "cancel_call", "done"},
                 target: {"none", "last", "old"}]
  /\ head \in 0 .. MaxView
  /\ applied \in 0 .. MaxView

\* The batches waiting on a call are newer than every batch applied, also by
\* the calls before it, and in the order of their commits.
QueueInOrder ==
  /\ applied <= head
  /\ \A i \in 1 .. Len(rpc.queue) :
       /\ applied < rpc.queue[i]
       /\ rpc.queue[i] <= head
       /\ \A j \in 1 .. Len(rpc.queue) : i < j => rpc.queue[i] < rpc.queue[j]

\* on_new_block gets batches of increasing views, through any number of failures
\* and registrations, and never one of a view not yet committed: what the cache
\* takes for granted of its feed.
BatchesInOrder == [][applied' # applied => applied < applied' /\ applied' <= head]_vars

\* run() returns only after a close(), unless the node itself reports CANCELLED:
\* no failure of a call and no expiry of the timer stops the loop.
EndsOnlyOnClose == pc = "ended" => closer.pc # "idle" \/ "cancelled" \in ServerEnds

\* The loop survives every failure: after it the stream is open again in the
\* end, or the loop has ended, and it ends only after a close().
SurvivesFailures ==
  /\ pc = "backoff" ~> pc \in {"reading", "ended"}
  /\ []EndsOnlyOnClose

\* A close() whose handler is bound to the last call ends run(), unless that call
\* has failed by itself, or fails before it is cancelled.
CloseStopsHealthyLoop ==
  closer.pc = "cancel_timer" /\ closer.target = "last"
    ~> (pc = "ended" \/ rpc.status \in {"ok", "error"})

\* close() stops the loop ("Close down the stream, stopping the register-and-
\* receive loop"): once it has found the handler, run() ends.
CloseStopsLoop == closer.pc = "cancel_timer" ~> pc = "ended"

=============================================================================
