--------------------------- MODULE KvSessionProofs ---------------------------
(***************************************************************************)
(* Proofs about one remote transaction, for any tables and any number of   *)
(* requests, over a node that ends a call by itself only with an error.    *)
(*                                                                         *)
(* SessionInv says where the call can be when the coroutine is at a point. *)
(* AnswersMatch needs that the reply under way belongs to the last request *)
(* and that the status OK comes only to close(); CursorsAreTheNodes needs  *)
(* the same of the cursor that the reply carries.  That the call is        *)
(* finished once by a handler, and released by every transaction that is   *)
(* over, needs where the call is at each point of the coroutine:           *)
(* ReleaseInv.                                                             *)
(***************************************************************************)
EXTENDS KvSession, TLAPS

\* Time for the larger leaves.
USE SMTT(30), ZenonT(60)

\* What the node has under way for the read that is pending.
SessionInv ==
  /\ TypeOK
  /\ pending \in {"request", "write", "read"} => pc \in {"opening", "getting", "moving"}
  /\ pending = "writes_done" => pc = "closing"
  /\ pending = "finish" => pc \in {"opening", "getting", "moving", "closing"}
  /\ pc = "closing" => pending \in {"writes_done", "finish"}
  /\ wire = "request" => pending = "read" /\ ended = "none"
  /\ ended = "ok" => pc = "done" \/ (pc = "closing" /\ pending = "finish")
  /\ pending = "read" /\ wire = "reply" => answer.answers = sent
  /\ pending = "read" /\ wire = "reply" /\ pc = "getting" =>
       answer.cursor \in DOMAIN opened /\ opened[answer.cursor] = target
  /\ AnswersMatch
  /\ CursorsAreTheNodes

\* Where the call is at every point of the coroutine.  Only the EVM comes back to
\* a call that is finished.
ReleaseInv ==
  /\ SessionInv
  /\ FinishedOnce
  /\ CallReleased
  /\ UsedUnderNodeId
  /\ pc = "crashed" => caller = "evm"
  /\ pc # "crashed" => finishes <= 1
  /\ pc \in {"opening", "getting", "moving", "closing"} => pending # "none"
  /\ pc \in {"start", "idle", "caught", "done", "crashed"} => pending = "none"
  /\ (finishes = 0) <=> (status = "unset")
  /\ pending = "finish" => finishes = 1
  /\ pending \in {"request", "read", "writes_done"} => finishes = 0
  /\ pc = "start" => finishes = 0
  /\ pc = "caught" => finishes = 1
  /\ pc = "idle" \/ pending = "write" => finishes = 0 \/ caller = "evm"
  /\ finishes = 1 /\ pending # "finish" => ended # "none"
  /\ pending = "request" => pc = "opening"
  /\ pc = "opening" /\ pending = "read" /\ wire = "reply" => answer.txid = 1

\* The cursors that the node has opened are those of the maps, and the one that
\* is on its way.
OpenedInv ==
  /\ SessionInv
  /\ OneCursorEach
  /\ pc = "getting" => cursors[target] = None
  /\ ended = "none" /\ pc \in {"opening", "idle", "getting", "moving"} =>
       \A i \in DOMAIN opened :
         \/ cursors[opened[i]] # None
         \/ pc = "getting" /\ pending = "read" /\ wire = "reply" /\ opened[i] = target
  /\ wire = "reply" /\ ended = "none" => pending = "read"
  /\ pc \in {"start", "opening"} => opened = <<>>
  /\ pending = "finish" /\ pc # "closing" => ended # "none"

-----------------------------------------------------------------------------
\* Types are kept by every step.
LEMMA TypeStep == TypeOK /\ [Next]_vars => TypeOK'
<1> SUFFICES ASSUME TypeOK, [Next]_vars PROVE TypeOK'
  OBVIOUS
<1> USE DEF TypeOK, nodeVars, clientVars, rpcVars
<1>1. CASE Open
  BY <1>1 DEF Open
<1>2. ASSUME NEW c \in CursorKeys, GetCursor(c) PROVE TypeOK'
  BY <1>2 DEF GetCursor
<1>3. ASSUME NEW c \in CursorKeys, MoveCursor(c) PROVE TypeOK'
  BY <1>3 DEF MoveCursor
<1>4. CASE Close
  BY <1>4 DEF Close
<1>5. CASE CloseFinished
  BY <1>5 DEF CloseFinished, ClearedCursors
<1>6. CASE SendSucceeds
  BY <1>6 DEF SendSucceeds
<1>7. CASE SendFails
  BY <1>7 DEF SendFails, Finish
<1>8. ASSUME NEW pair \in [answers: Nat, txid: {0, 1}, cursor: Nat], Returns(pair)
      PROVE  /\ caller' = caller
             /\ pc' \in {"idle", "done"}
             /\ target' \in CursorKeys
             /\ txId' \in 0 .. 2
             /\ cursors' \in [CursorKeys -> Nat \cup {None}]
             /\ result' \in [asked: Nat, answered: Nat]
  BY <1>8 DEF Returns, OpenReturns, GetCursorReturns, MoveReturns, CloseReturns, ClearedCursors
<1>9. CASE ReadSucceeds
  BY <1>8, <1>9 DEF ReadSucceeds
<1>10. CASE ReadFails
  BY <1>10 DEF ReadFails, Finish
<1>11. CASE WritesDone
  BY <1>11 DEF WritesDone, Finish
<1>12. CASE FinishedOk
  BY <1>8, <1>12 DEF FinishedOk
<1>13. CASE FinishedWithError
  BY <1>13 DEF FinishedWithError, Throws
<1>14. CASE Answer
  BY <1>14 DEF Answer, Pair
<1>15. ASSUME NEW how \in ServerEnds, EndCall(how) PROVE TypeOK'
  BY <1>15, ServerEndsAssumption DEF EndCall
<1>16. CASE EndClosedCall
  BY <1>16 DEF EndClosedCall
<1>17. CASE UNCHANGED vars
  BY <1>17 DEF vars
<1> QED
  BY <1>1, <1>2, <1>3, <1>4, <1>5, <1>6, <1>7, <1>9, <1>10, <1>11, <1>12, <1>13,
     <1>14, <1>15, <1>16, <1>17 DEF Next, Rpc, Over

\* A new RemoteTransaction has its types.
LEMMA TypeInit == Init => TypeOK
BY DEF Init, TypeOK, Pair

\* Every variable of the session keeps its type (RemoteTransaction, RemoteCursor
\* and BidiStreamingRpc).
THEOREM TypeCorrect == Spec => []TypeOK
BY TypeInit, TypeStep, PTL DEF Spec

-----------------------------------------------------------------------------
\* The invariant of the session is kept by every step.
LEMMA SessionStep ==
  ASSUME "ok" \notin ServerEnds, SessionInv, [Next]_vars
  PROVE  SessionInv'
<1>0. TypeOK /\ TypeOK'
  BY TypeStep DEF SessionInv
<1> USE <1>0 DEF TypeOK, SessionInv, AnswersMatch, CursorsAreTheNodes, nodeVars, clientVars, rpcVars
<1> USE NoneAssumption
<1>1. CASE Open
  BY <1>1 DEF Open
<1>2. ASSUME NEW c \in CursorKeys, GetCursor(c) PROVE SessionInv'
  BY <1>2 DEF GetCursor
<1>3. ASSUME NEW c \in CursorKeys, MoveCursor(c) PROVE SessionInv'
  BY <1>3 DEF MoveCursor
<1>4. CASE Close
  BY <1>4 DEF Close
<1>5. CASE CloseFinished
  BY <1>5 DEF CloseFinished
<1>6. CASE SendSucceeds
  BY <1>6 DEF SendSucceeds
<1>7. CASE SendFails
  BY <1>7 DEF SendFails, Finish
<1>8. CASE ReadSucceeds
  <2>1. CASE OpenReturns(answer)
    BY <1>8, <2>1 DEF ReadSucceeds, OpenReturns
  <2>2. CASE GetCursorReturns(answer)
    BY <1>8, <2>2 DEF ReadSucceeds, GetCursorReturns
  <2>3. CASE MoveReturns(answer)
    BY <1>8, <2>3 DEF ReadSucceeds, MoveReturns
  <2>4. CASE CloseReturns
    BY <1>8, <2>4 DEF ReadSucceeds, CloseReturns
  <2> QED
    BY <1>8, <2>1, <2>2, <2>3, <2>4 DEF ReadSucceeds, Returns
<1>9. CASE ReadFails
  BY <1>9 DEF ReadFails, Finish
<1>10. CASE WritesDone
  BY <1>10 DEF WritesDone, Finish
<1>11. CASE FinishedOk
  BY <1>11 DEF FinishedOk, Returns, OpenReturns, GetCursorReturns, MoveReturns, CloseReturns
<1>12. CASE FinishedWithError
  BY <1>12 DEF FinishedWithError, Throws
<1>13. CASE Answer
  BY <1>13 DEF Answer, Pair
<1>14. ASSUME NEW how \in ServerEnds, EndCall(how) PROVE SessionInv'
  BY <1>14, ServerEndsAssumption DEF EndCall
<1>15. CASE EndClosedCall
  BY <1>15 DEF EndClosedCall
<1>16. CASE UNCHANGED vars
  BY <1>16 DEF vars
<1> QED
  BY <1>1, <1>2, <1>3, <1>4, <1>5, <1>6, <1>7, <1>8, <1>9, <1>10, <1>11, <1>12,
     <1>13, <1>14, <1>15, <1>16 DEF Next, Rpc, Over

\* A new RemoteTransaction satisfies the invariant.
LEMMA SessionInit == Init => SessionInv
BY TypeInit DEF Init, SessionInv, AnswersMatch, CursorsAreTheNodes, Pair

\* Replies and cursors under way belong to the operation that waits for them, at
\* every point of a session (BidiStreamingRpc).
THEOREM SessionInvariant ==
  ASSUME "ok" \notin ServerEnds
  PROVE  Spec => []SessionInv
<1>1. SessionInv /\ [Next]_vars => SessionInv'
  BY SessionStep
<1> QED
  BY <1>1, SessionInit, PTL DEF Spec

\* An operation of RemoteTransaction or RemoteCursor that returns has the reply to
\* its own request, whether or not the client goes on after failed reads.
THEOREM Answers ==
  ASSUME "ok" \notin ServerEnds
  PROVE  Spec => []AnswersMatch
<1>1. SessionInv => AnswersMatch
  BY DEF SessionInv
<1> QED
  BY <1>1, SessionInvariant, PTL

\* A cursor that get_cursor returns is the node's cursor on that table and of that
\* kind.
THEOREM Cursors ==
  ASSUME "ok" \notin ServerEnds
  PROVE  Spec => []CursorsAreTheNodes
<1>1. SessionInv => CursorsAreTheNodes
  BY DEF SessionInv
<1> QED
  BY <1>1, SessionInvariant, PTL

-----------------------------------------------------------------------------
\* ReleaseInv is kept by every step.
LEMMA ReleaseStep ==
  ASSUME "ok" \notin ServerEnds, ReleaseInv, [Next]_vars
  PROVE  ReleaseInv'
<1>0. SessionInv /\ SessionInv'
  BY SessionStep DEF ReleaseInv
<1> USE <1>0 DEF TypeOK, SessionInv, ReleaseInv, FinishedOnce, CallReleased, UsedUnderNodeId,
                 nodeVars, clientVars, rpcVars
<1>1. CASE Open
  BY <1>1 DEF Open
<1>2. ASSUME NEW c \in CursorKeys, GetCursor(c) PROVE ReleaseInv'
  BY <1>2 DEF GetCursor
<1>3. ASSUME NEW c \in CursorKeys, MoveCursor(c) PROVE ReleaseInv'
  BY <1>3 DEF MoveCursor
<1>4. CASE Close
  BY <1>4 DEF Close
<1>5. CASE CloseFinished
  BY <1>5 DEF CloseFinished
<1>6. CASE SendSucceeds
  BY <1>6 DEF SendSucceeds
<1>7. CASE SendFails
  BY <1>7 DEF SendFails, Finish
<1>8. CASE ReadSucceeds
  <2>1. CASE OpenReturns(answer)
    BY <1>8, <2>1 DEF ReadSucceeds, OpenReturns
  <2>2. CASE GetCursorReturns(answer)
    BY <1>8, <2>2 DEF ReadSucceeds, GetCursorReturns
  <2>3. CASE MoveReturns(answer)
    BY <1>8, <2>3 DEF ReadSucceeds, MoveReturns
  <2>4. CASE CloseReturns
    BY <1>8, <2>4 DEF ReadSucceeds, CloseReturns
  <2> QED
    BY <1>8, <2>1, <2>2, <2>3, <2>4 DEF ReadSucceeds, Returns
<1>9. CASE ReadFails
  BY <1>9 DEF ReadFails, Finish
<1>10. CASE WritesDone
  BY <1>10 DEF WritesDone, Finish
<1>11. CASE FinishedOk
  BY <1>11 DEF FinishedOk, Returns, OpenReturns, GetCursorReturns, MoveReturns, CloseReturns
<1>12. CASE FinishedWithError
  BY <1>12 DEF FinishedWithError, Throws
<1>13. CASE Answer
  BY <1>13 DEF Answer, Pair
<1>14. ASSUME NEW how \in ServerEnds, EndCall(how) PROVE ReleaseInv'
  BY <1>14, ServerEndsAssumption DEF EndCall
<1>15. CASE EndClosedCall
  BY <1>15 DEF EndClosedCall
<1>16. CASE UNCHANGED vars
  BY <1>16 DEF vars
<1> QED
  BY <1>1, <1>2, <1>3, <1>4, <1>5, <1>6, <1>7, <1>8, <1>9, <1>10, <1>11, <1>12,
     <1>13, <1>14, <1>15, <1>16 DEF Next, Rpc, Over

\* A new RemoteTransaction has no call to release.
LEMMA ReleaseInit == Init => ReleaseInv
BY SessionInit DEF Init, ReleaseInv, FinishedOnce, CallReleased, UsedUnderNodeId

\* Where the call of a transaction is, at every point from begin() to the end of
\* close().
THEOREM ReleaseInvariant ==
  ASSUME "ok" \notin ServerEnds
  PROVE  Spec => []ReleaseInv
<1>1. ReleaseInv /\ [Next]_vars => ReleaseInv'
  BY ReleaseStep
<1> QED
  BY <1>1, ReleaseInit, PTL DEF Spec

\* A handler's transaction calls Finish at most once (WritesDoneAndFinish looks at
\* status_).
THEOREM FinishOnce ==
  ASSUME "ok" \notin ServerEnds
  PROVE  Spec => []FinishedOnce
<1>1. ReleaseInv => FinishedOnce
  BY DEF ReleaseInv
<1> QED
  BY <1>1, ReleaseInvariant, PTL

\* A transaction that is over has finished its call, however begin(),
\* its reads and close() ended.
THEOREM Release ==
  ASSUME "ok" \notin ServerEnds
  PROVE  Spec => []CallReleased
<1>1. ReleaseInv => CallReleased
  BY DEF ReleaseInv
<1> QED
  BY <1>1, ReleaseInvariant, PTL

\* A client reads under the transaction id that the node gave (open).
THEOREM NodeId ==
  ASSUME "ok" \notin ServerEnds
  PROVE  Spec => []UsedUnderNodeId
<1>1. ReleaseInv => UsedUnderNodeId
  BY DEF ReleaseInv
<1> QED
  BY <1>1, ReleaseInvariant, PTL

-----------------------------------------------------------------------------
\* The cursors of the node and those of the maps.
LEMMA OpenedStep ==
  ASSUME "ok" \notin ServerEnds, OpenedInv, [Next]_vars
  PROVE  OpenedInv'
<1>0. SessionInv /\ SessionInv'
  BY SessionStep DEF OpenedInv
<1> USE <1>0 DEF TypeOK, SessionInv, OpenedInv, OneCursorEach, nodeVars, clientVars, rpcVars
<1> USE NoneAssumption
<1>1. CASE Open
  BY <1>1 DEF Open
<1>2. ASSUME NEW c \in CursorKeys, GetCursor(c) PROVE OpenedInv'
  BY <1>2 DEF GetCursor, Absent
<1>3. ASSUME NEW c \in CursorKeys, MoveCursor(c) PROVE OpenedInv'
  BY <1>3 DEF MoveCursor
<1>4. CASE Close
  BY <1>4 DEF Close
<1>5. CASE CloseFinished
  BY <1>5 DEF CloseFinished
<1>6. CASE SendSucceeds
  BY <1>6 DEF SendSucceeds
<1>7. CASE SendFails
  BY <1>7 DEF SendFails, Finish
<1>8. CASE ReadSucceeds
  <2>1. CASE OpenReturns(answer)
    BY <1>8, <2>1 DEF ReadSucceeds, OpenReturns
  <2>2. CASE GetCursorReturns(answer)
    BY <1>8, <2>2 DEF ReadSucceeds, GetCursorReturns
  <2>3. CASE MoveReturns(answer)
    BY <1>8, <2>3 DEF ReadSucceeds, MoveReturns
  <2>4. CASE CloseReturns
    BY <1>8, <2>4 DEF ReadSucceeds, CloseReturns
  <2> QED
    BY <1>8, <2>1, <2>2, <2>3, <2>4 DEF ReadSucceeds, Returns
<1>9. CASE ReadFails
  BY <1>9 DEF ReadFails, Finish
<1>10. CASE WritesDone
  BY <1>10 DEF WritesDone, Finish
<1>11. CASE FinishedOk
  BY <1>11 DEF FinishedOk, Returns, OpenReturns, GetCursorReturns, MoveReturns, CloseReturns
<1>12. CASE FinishedWithError
  BY <1>12 DEF FinishedWithError, Throws
<1>13. CASE Answer
  <2>1. CASE pc = "getting"
    <3>1. opened' = Append(opened, target) /\ UNCHANGED <<pc, cursors, target, pending, ended>>
      BY <1>13, <2>1, ZenonT(60) DEF Answer
    <3>2. \A i \in DOMAIN opened : cursors[opened[i]] # None /\ opened[i] # target
      BY <1>13, <2>1, ZenonT(60) DEF Answer
    <3>3. wire = "request" /\ wire' = "reply" /\ pending = "read"
      BY <1>13, ZenonT(60) DEF Answer
    <3>4. opened \in Seq(CursorKeys) /\ target \in CursorKeys
      BY <2>1, ZenonT(60)
    <3>5. /\ DOMAIN opened' = DOMAIN opened \cup {Len(opened) + 1}
          /\ opened'[Len(opened) + 1] = target
          /\ \A i \in DOMAIN opened : opened'[i] = opened[i]
      BY ONLY <3>1, <3>4
    <3>6. OneCursorEach'
      <4>1. \A i, j \in DOMAIN opened : opened[i] = opened[j] => i = j
        BY ZenonT(60)
      <4> QED BY ONLY <3>2, <3>5, <4>1, ZenonT(60) DEF OneCursorEach
    <3>7. \A i \in DOMAIN opened' : cursors'[opened'[i]] # None \/ opened'[i] = target'
      BY <3>1, <3>2, <3>5, ZenonT(60)
    <3>8. pc' = "getting" /\ pending' = "read" /\ wire' = "reply" /\ cursors'[target'] = None
      BY <2>1, <3>1, <3>3, ZenonT(60)
    <3> QED BY <3>6, <3>7, <3>8, ZenonT(60)
  <2>2. CASE pc # "getting"
    BY <1>13, <2>2, ZenonT(60) DEF Answer
  <2> QED BY <2>1, <2>2, ZenonT(60)
<1>14. ASSUME NEW how \in ServerEnds, EndCall(how) PROVE OpenedInv'
  BY <1>14, ServerEndsAssumption DEF EndCall
<1>15. CASE EndClosedCall
  BY <1>15 DEF EndClosedCall
<1>16. CASE UNCHANGED vars
  BY <1>16 DEF vars
<1> QED
  BY <1>1, <1>2, <1>3, <1>4, <1>5, <1>6, <1>7, <1>8, <1>9, <1>10, <1>11, <1>12,
     <1>13, <1>14, <1>15, <1>16 DEF Next, Rpc, Over

\* A new RemoteTransaction has no cursors.
LEMMA OpenedInit == Init => OpenedInv
BY SessionInit DEF Init, OpenedInv, OneCursorEach

\* The node's cursors are those that get_cursor keeps, and the one on its way.
THEOREM OpenedInvariant ==
  ASSUME "ok" \notin ServerEnds
  PROVE  Spec => []OpenedInv
<1>1. OpenedInv /\ [Next]_vars => OpenedInv'
  BY OpenedStep
<1> QED
  BY <1>1, OpenedInit, PTL DEF Spec

\* get_cursor makes the node open one cursor for each table and kind, whatever
\* fails in between.
THEOREM OneCursor ==
  ASSUME "ok" \notin ServerEnds
  PROVE  Spec => []OneCursorEach
<1>1. OpenedInv => OneCursorEach
  BY DEF OpenedInv
<1> QED
  BY <1>1, OpenedInvariant, PTL

=============================================================================
