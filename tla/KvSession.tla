------------------------------ MODULE KvSession ------------------------------
(***************************************************************************)
(* One remote transaction: RemoteTransaction (ethdb/kv/remote_transaction  *)
(* .cpp) and its RemoteCursors over one BidiStreamingRpc (grpc/            *)
(* bidi_streaming_rpc.hpp), from RemoteDatabase::begin to close().         *)
(*                                                                         *)
(* The client is one coroutine: it opens the transaction, gets cursors and *)
(* moves them, one request and one reply at a time, and closes.  An        *)
(* exception takes a handler to its catch block and to close(); the reads  *)
(* that the EVM makes through RemoteState catch it and the EVM goes on.    *)
(*                                                                         *)
(* The node and gRPC are external.  A call may be finished once: a second  *)
(* Finish is a misuse that ends the program.                               *)
(***************************************************************************)
EXTENDS Integers, Sequences

CONSTANTS
  Tables,       \* names of tables
  None,         \* no cursor in the maps
  ServerEnds,   \* the statuses with which the node may end a call by itself
  MaxRequests   \* bound: requests of the session

ASSUME ServerEndsAssumption == ServerEnds \subseteq {"ok", "error"}
ASSUME MaxRequestsAssumption == MaxRequests \in Nat \ {0}
ASSUME NoneAssumption == None \notin Nat

\* The keys of cursors_ and of dup_cursors_.
CursorKeys == Tables \X {"plain", "dup"}

VARIABLES
  caller,    \* a handler, or the EVM behind RemoteState
  pc,        \* where the coroutine is
  target,    \* the cursor it gets or moves
  txId,      \* tx_id_: 1 is the id that the node gives
  cursors,   \* cursors_ and dup_cursors_: the cursor_id_ of each
  result,    \* the last operation: its request, the request its reply answers
  pending,   \* the gRPC operation under way
  status,    \* status_
  finishes,  \* how often Finish has been called
  reply,     \* reply_
  sent,      \* number of requests so far
  wire,      \* what is under way: nothing, the last request, its reply
  ended,     \* how the node has ended the call
  opened,    \* the cursors that the node has opened, by their ids
  answer     \* the node's last reply

clientVars == <<caller, pc, target, txId, cursors, result>>
rpcVars == <<pending, status, finishes, reply>>
nodeVars == <<wire, ended, opened, answer>>
vars == <<clientVars, rpcVars, sent, nodeVars>>

\* remote::Pair: the request it answers, the transaction and the cursor id.
Pair(request, txid, cursor) ==
  [answers |-> request, txid |-> txid, cursor |-> cursor]

\* A new RemoteTransaction; tx_id_ has no initializer.
Init ==
  /\ caller \in {"handler", "evm"}
  /\ pc = "start"
  /\ target \in CursorKeys
  /\ txId \in 0 .. 2
  /\ cursors = [c \in CursorKeys |-> None]
  /\ result = [asked |-> 0, answered |-> 0]
  /\ pending = "none"
  /\ status = "unset"
  /\ finishes = 0
  /\ reply = Pair(0, 0, 0)
  /\ sent = 0
  /\ wire = "nothing"
  /\ ended = "none"
  /\ opened = <<>>
  /\ answer = Pair(0, 0, 0)

-----------------------------------------------------------------------------
(***************************************************************************)
(* How an operation of the BidiStreamingRpc ends in the coroutine.         *)
(***************************************************************************)

\* What close() leaves of the cursors: dup_cursors_ is not cleared.
ClearedCursors == [c \in CursorKeys |-> IF c[2] = "plain" THEN None ELSE cursors[c]]

\* request_and_read returns pair to open().
OpenReturns(pair) ==
  /\ pc = "opening"
  /\ pc' = "idle"
  /\ txId' = pair.txid
  /\ result' = [asked |-> sent, answered |-> pair.answers]
  /\ UNCHANGED <<caller, target, cursors>>

\* Faulty variant: a dup-sorted cursor is kept in the map of the plain ones.
GetCursorReturnsToOneMap(pair) ==
  /\ pc = "getting"
  /\ pc' = "idle"
  /\ cursors' = [cursors EXCEPT ![<<target[1], "plain">>] = pair.cursor]
  /\ result' = [asked |-> sent, answered |-> pair.answers]
  /\ UNCHANGED <<caller, target, txId>>

\* write_and_read returns pair to open_cursor: get_cursor keeps the cursor.
GetCursorReturns(pair) ==
  /\ pc = "getting"
  /\ pc' = "idle"
  /\ cursors' = [cursors EXCEPT ![target] = pair.cursor]
  /\ result' = [asked |-> sent, answered |-> pair.answers]
  /\ UNCHANGED <<caller, target, txId>>

\* write_and_read returns pair to the operation on a cursor.
MoveReturns(pair) ==
  /\ pc = "moving"
  /\ pc' = "idle"
  /\ result' = [asked |-> sent, answered |-> pair.answers]
  /\ UNCHANGED <<caller, target, txId, cursors>>

\* writes_done_and_finish returns to close().
CloseReturns ==
  /\ pc = "closing"
  /\ pc' = "done"
  /\ txId' = 0
  /\ cursors' = ClearedCursors
  /\ UNCHANGED <<caller, target, result>>

Returns(pair) ==
  \/ OpenReturns(pair)
  \/ GetCursorReturns(pair)
  \/ MoveReturns(pair)
  \/ CloseReturns

\* The operation throws: begin() and close() give up, a handler's read goes to
\* its catch block, a read of RemoteState returns nothing and the EVM goes on.
Throws ==
  /\ pc' = IF pc \in {"opening", "closing"} THEN "done"
           ELSE IF caller = "evm" THEN "idle" ELSE "caught"
  /\ UNCHANGED <<caller, target, txId, cursors, result>>

\* Finish::initiate, with a default status_.
Finish ==
  /\ finishes' = finishes + 1
  /\ status' = "ok"
  /\ IF finishes = 0
     THEN pending' = "finish" /\ UNCHANGED pc
     ELSE pending' = "none" /\ pc' = "crashed"
  /\ UNCHANGED <<caller, target, txId, cursors, result, reply>>

-----------------------------------------------------------------------------
(***************************************************************************)
(* The coroutine.                                                          *)
(***************************************************************************)

\* begin(): open() requests the call and reads the transaction id.
Open ==
  /\ pc = "start"
  /\ pc' = "opening"
  /\ pending' = "request"
  /\ sent' = sent + 1
  /\ UNCHANGED <<caller, target, txId, cursors, result, status, finishes, reply, nodeVars>>

\* Whether get_cursor opens a cursor: there is none of this kind on the table.
Absent(c) == cursors[c] = None

\* get_cursor and open_cursor: a message OPEN or OPEN_DUP_SORT is written.
GetCursor(c) ==
  /\ pc = "idle"
  /\ Absent(c)
  /\ sent < MaxRequests
  /\ pc' = "getting"
  /\ target' = c
  /\ pending' = "write"
  /\ sent' = sent + 1
  /\ UNCHANGED <<caller, txId, cursors, result, status, finishes, reply, nodeVars>>

\* seek, seek_exact, next, next_dup, seek_both or seek_both_exact on a cursor
\* that get_cursor has returned.
MoveCursor(c) ==
  /\ pc = "idle"
  /\ cursors[c] # None
  /\ sent < MaxRequests
  /\ pc' = "moving"
  /\ target' = c
  /\ pending' = "write"
  /\ sent' = sent + 1
  /\ UNCHANGED <<caller, txId, cursors, result, status, finishes, reply, nodeVars>>

\* Faulty variant: status_ is not looked at.
CloseAnyway ==
  /\ pc \in {"idle", "caught"}
  /\ pc' = "closing"
  /\ pending' = "writes_done"
  /\ UNCHANGED <<caller, target, txId, cursors, result, status, finishes, reply, sent, nodeVars>>

\* close() of a call without a status_: WritesDone first.
Close ==
  /\ pc \in {"idle", "caught"}
  /\ status = "unset"
  /\ pc' = "closing"
  /\ pending' = "writes_done"
  /\ UNCHANGED <<caller, target, txId, cursors, result, status, finishes, reply, sent, nodeVars>>

\* close() of a call that has its status_: it returns or throws at once.
CloseFinished ==
  /\ pc \in {"idle", "caught"}
  /\ status # "unset"
  /\ pc' = "done"
  /\ txId' = IF status = "ok" THEN 0 ELSE txId
  /\ cursors' = IF status = "ok" THEN ClearedCursors ELSE cursors
  /\ UNCHANGED <<caller, target, result, rpcVars, sent, nodeVars>>

-----------------------------------------------------------------------------
(***************************************************************************)
(* The BidiStreamingRpc: completions of its gRPC operations.               *)
(***************************************************************************)

\* The request or the write is done: the reply is read next.  To a call that
\* has ended a write may still seem to succeed, until it is finished.
SendSucceeds ==
  /\ pending \in {"request", "write"}
  /\ finishes = 0
  /\ pending' = "read"
  /\ wire' = IF ended = "none" THEN "request" ELSE "nothing"
  /\ UNCHANGED <<clientVars, status, finishes, reply, sent, ended, opened, answer>>

\* The request or the write fails: the call is finished for its status.
SendFails ==
  /\ pending \in {"request", "write"}
  /\ ended # "none"
  /\ Finish
  /\ UNCHANGED <<sent, nodeVars>>

\* The reply is read into reply_ and returned.
ReadSucceeds ==
  /\ pending = "read"
  /\ wire = "reply"
  /\ pending' = "none"
  /\ reply' = answer
  /\ wire' = "nothing"
  /\ Returns(answer)
  /\ UNCHANGED <<status, finishes, sent, ended, opened, answer>>

\* Faulty variant: a failed read is repeated.
ReadFailsRepeated ==
  /\ pending = "read"
  /\ ended # "none"
  /\ UNCHANGED vars

\* Faulty variant: a failed read completes with reply_ as it is.
ReadFailsUnnoticed ==
  /\ pending = "read"
  /\ ended # "none"
  /\ pending' = "none"
  /\ Returns(reply)
  /\ UNCHANGED <<status, finishes, reply, sent, nodeVars>>

\* The call has ended: a failed call may drop a reply that was under way.
ReadFails ==
  /\ pending = "read"
  /\ ended # "none"
  /\ ended = "ok" => wire # "reply"
  /\ Finish
  /\ UNCHANGED <<sent, nodeVars>>

\* Faulty variant: close() ends without Finish.
WritesDoneOnly ==
  /\ pending = "writes_done"
  /\ pending' = "none"
  /\ CloseReturns
  /\ UNCHANGED <<status, finishes, reply, sent, nodeVars>>

\* WritesDone is done, well or not: the call is finished.
WritesDone ==
  /\ pending = "writes_done"
  /\ Finish
  /\ UNCHANGED <<sent, nodeVars>>

\* The status is OK: the operation returns, with whatever reply_ holds.
FinishedOk ==
  /\ pending = "finish"
  /\ ended = "ok"
  /\ pending' = "none"
  /\ status' = "ok"
  /\ Returns(reply)
  /\ UNCHANGED <<finishes, reply, sent, nodeVars>>

\* The status is not OK, or Finish itself has failed: the operation throws.
FinishedWithError ==
  /\ pending = "finish"
  /\ ended # "none"
  /\ pending' = "none"
  /\ status' = "error"
  /\ Throws
  /\ UNCHANGED <<finishes, reply, sent, nodeVars>>

-----------------------------------------------------------------------------
(***************************************************************************)
(* The node (external).                                                    *)
(***************************************************************************)

\* The node answers: with a new transaction, with a new cursor, or with the
\* entry that a cursor moves to.
Answer ==
  /\ wire = "request"
  /\ wire' = "reply"
  /\ opened' = IF pc = "getting" THEN Append(opened, target) ELSE opened
  /\ answer' = Pair(sent, IF pc = "opening" THEN 1 ELSE 0,
                    IF pc = "getting" THEN Len(opened) + 1 ELSE 0)
  /\ UNCHANGED <<clientVars, rpcVars, sent, ended>>

\* The node ends the call by itself, or the connection is lost.  A call that it
\* has not received can only fail.
EndCall(how) ==
  /\ pc \notin {"start", "done", "crashed"}
  /\ ended = "none"
  /\ pending = "request" => how = "error"
  /\ ended' = how
  /\ wire' = IF wire = "request" THEN "nothing" ELSE wire
  /\ UNCHANGED <<clientVars, rpcVars, sent, opened, answer>>

\* The node ends the call that the client has closed.
EndClosedCall ==
  /\ pc = "closing"
  /\ pending = "finish"
  /\ ended = "none"
  /\ ended' = "ok"
  /\ UNCHANGED <<clientVars, rpcVars, sent, wire, opened, answer>>

-----------------------------------------------------------------------------
\* The session is over.
Over ==
  /\ pc \in {"done", "crashed"}
  /\ UNCHANGED vars

Rpc ==
  \/ SendSucceeds
  \/ SendFails
  \/ ReadSucceeds
  \/ ReadFails
  \/ WritesDone
  \/ FinishedOk
  \/ FinishedWithError

Next ==
  \/ Open
  \/ \E c \in CursorKeys : GetCursor(c) \/ MoveCursor(c)
  \/ Close
  \/ CloseFinished
  \/ Rpc
  \/ Answer
  \/ \E how \in ServerEnds : EndCall(how)
  \/ EndClosedCall
  \/ Over

\* gRPC completes its operations, and the node answers a request and ends a
\* call that was closed: the code sets no deadline of its own on the call.
Fairness ==
  /\ WF_vars(Rpc)
  /\ WF_vars(Answer)
  /\ WF_vars(EndClosedCall)

Spec == Init /\ [][Next]_vars /\ Fairness

-----------------------------------------------------------------------------
\* Types.
TypeOK ==
  /\ caller \in {"handler", "evm"}
  /\ pc \in {"start", "opening", "idle", "getting", "moving", "caught",
             "closing", "done", "crashed"}
  /\ target \in CursorKeys
  /\ txId \in 0 .. 2
  /\ cursors \in [CursorKeys -> Nat \cup {None}]
  /\ result \in [asked: Nat, answered: Nat]
  /\ pending \in {"none", "request", "write", "read", "writes_done", "finish"}
  /\ status \in {"unset", "ok", "error"}
  /\ finishes \in Nat
  /\ reply \in [answers: Nat, txid: {0, 1}, cursor: Nat]
  /\ sent \in Nat
  /\ wire \in {"nothing", "request", "reply"}
  /\ ended \in {"none", "ok", "error"}
  /\ opened \in Seq(CursorKeys)
  /\ answer \in [answers: Nat, txid: {0, 1}, cursor: Nat]

\* An operation that returns has the reply to its own request, never what
\* reply_ kept of an earlier one (ReadNext), also after reads that failed.
AnswersMatch == result.answered = result.asked

\* A cursor in cursors_ or dup_cursors_ has the id of the node's cursor on that
\* table, of that kind: no two keys share one (get_cursor, open_cursor).
CursorsAreTheNodes ==
  pc # "done" =>
    \A c \in CursorKeys :
      cursors[c] # None => cursors[c] \in DOMAIN opened /\ opened[cursors[c]] = c

\* The node keeps one cursor for each table and kind, as get_cursor looks in the
\* map of the kind before it opens one.
OneCursorEach ==
  \A i, j \in DOMAIN opened : opened[i] = opened[j] => i = j

\* The call is finished at most once: by the first operation that fails, or by
\* close(), which looks at status_ (WritesDoneAndFinish); a handler, unlike the
\* EVM behind RemoteState, does nothing else after a failure.
FinishedOnce == caller = "handler" => finishes <= 1

\* A session that is over has left no call open: it has called Finish and the
\* call has ended, on every path of begin(), of a read that throws and of close().
CallReleased ==
  pc = "done" => finishes = 1 /\ pending = "none" /\ ended # "none"

\* A transaction is used under the id that the node gave it, which is the view
\* that the state cache reads (open).
UsedUnderNodeId == pc \in {"idle", "getting", "moving", "closing"} => txId = 1

\* Every operation ends: the coroutine is not left waiting in the rpc.
OperationsEnd ==
  pc \in {"opening", "getting", "moving", "closing"} ~>
    pc \in {"idle", "caught", "done", "crashed"}

=============================================================================
