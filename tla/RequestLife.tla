----------------------------- MODULE RequestLife ----------------------------
(***************************************************************************)
(* The life of a JSON-RPC request in RequestHandler (http/                 *)
(* request_handler.cpp): it is dispatched to its handler, the handler runs *)
(* step by step, each await ends well or with an exception, and what the   *)
(* handler leaves becomes the reply.  A streamed reply goes out in chunks  *)
(* while the handler runs.                                                 *)
(*                                                                         *)
(* Every await may fail.  A call of a service fails with a system_error; a *)
(* read also computes, and may fail with every kind of exception that the  *)
(* catch clauses know.  A streamed reply is written with a throwing call   *)
(* (SocketWriter::write), which fails once the client has left; from a     *)
(* callback of the EVM, which is noexcept, that ends the process.          *)
(***************************************************************************)
EXTENDS RpcApiTable, JsonStream

CONSTANT Methods    \* the methods that clients ask for

VARIABLES pc,       \* "idle", "json" and "stream" while a handler runs, "done", "terminated"
          method,   \* the method of the request
          todo,     \* the steps the handler has yet to take
          tx,       \* its transaction: "none", "open", "closed", "broken" by a failed close
          misused,  \* the transaction was used when not open, or closed twice
          reply,    \* "none", "result" or "error"
          escaped,  \* an exception has left the handler
          torn,     \* an exception was thrown inside the result of a streamed reply
          stack,    \* stack_ of the json::Stream
          writer,   \* the ChunksWriter: its buffer
          client,   \* the reader of a streamed reply: the document, and if it has ended
          lost      \* a write to the socket has failed: the client has left

vars == <<pc, method, todo, tx, misused, reply, escaped, torn, stack, writer, client, lost>>

Init ==
  /\ pc = "idle" /\ method = "none" /\ todo = <<>>
  /\ tx = "none" /\ misused = FALSE
  /\ reply = "none" /\ escaped = FALSE /\ torn = FALSE
  /\ stack = <<>> /\ writer = NewWriter /\ client = [doc |-> Nothing, ended |-> FALSE]
  /\ lost = FALSE

-----------------------------------------------------------------------------
(* Dispatch.                                                               *)

\* The JSON handlers are looked up first, then the stream handlers.  A stream
\* handler is not called if write_headers fails.
Dispatch(m) ==
  /\ pc \in {"idle", "done"} /\ m \in Methods
  /\ method' = m
  /\ \/ /\ m \in DOMAIN method_handlers
        /\ pc' = "json" /\ todo' = method_handlers[m] /\ reply' = "none" /\ lost' = FALSE
     \/ /\ m \notin DOMAIN method_handlers /\ m \in DOMAIN stream_handlers
        /\ pc' = "stream" /\ reply' = "none"
        /\ \/ todo' = stream_handlers[m] /\ lost' = FALSE
           \/ todo' = <<>> /\ lost' = TRUE
     \/ /\ m \notin DOMAIN method_handlers \cup DOMAIN stream_handlers
        /\ pc' = "done" /\ todo' = <<>> /\ reply' = "error" /\ lost' = FALSE
  /\ tx' = "none" /\ misused' = FALSE /\ escaped' = lost' /\ torn' = FALSE
  /\ stack' = <<>> /\ writer' = NewWriter /\ client' = [doc |-> Nothing, ended |-> FALSE]

-----------------------------------------------------------------------------
(* Control: the next step of the handler.                                  *)

Running(op) == pc \in {"json", "stream"} /\ todo # <<>> /\ Head(todo).op = op

Proceed == todo' = Tail(todo)

\* Containers of the stream that are open: more than one inside the result.
Depth == Len(SelectSeq(stack, LAMBDA s : s \in {"object_open", "array_open"}))

\* An exception: the first end of a try block to come has the catch clauses.
Raise(e) ==
  LET ends == {i \in DOMAIN todo : todo[i].op = "endtry"}
      next == CHOOSE i \in ends : \A j \in ends : i <= j
  IN /\ torn' = (torn \/ Depth > 1)
     /\ IF ends = {} THEN escaped' = TRUE /\ todo' = <<>>
        ELSE /\ todo' = todo[next].catches[e] \o SubSeq(todo, next + 1, Len(todo))
             /\ UNCHANGED escaped

TryStep ==
  /\ Running("try")
  /\ LET try == Head(todo)
     IN todo' = try.body \o <<[op |-> "endtry", catches |-> try.catches]>> \o Tail(todo)
  /\ UNCHANGED <<pc, method, tx, misused, reply, escaped, torn, stack, writer, client, lost>>

EndTryStep ==
  /\ Running("endtry") /\ Proceed
  /\ UNCHANGED <<pc, method, tx, misused, reply, escaped, torn, stack, writer, client, lost>>

ChooseStep ==
  /\ Running("choose")
  /\ \E body \in Head(todo).bodies : todo' = body \o Tail(todo)
  /\ UNCHANGED <<pc, method, tx, misused, reply, escaped, torn, stack, writer, client, lost>>

ReturnStep ==
  /\ Running("return") /\ todo' = <<>>
  /\ UNCHANGED <<pc, method, tx, misused, reply, escaped, torn, stack, writer, client, lost>>

ThrowStep ==
  /\ Running("throw") /\ Raise(Head(todo).exception)
  /\ UNCHANGED <<pc, method, tx, misused, reply, stack, writer, client, lost>>

-----------------------------------------------------------------------------
(* Awaits.                                                                 *)

ProceedOrRaise(exceptions) ==
  \/ Proceed /\ UNCHANGED <<escaped, torn>>
  \/ \E e \in exceptions : Raise(e)

SystemError == "exception"

\* A conversion, or a call of the backend, the pool or the miner.
OtherAwait ==
  /\ \/ Running("convert") /\ ProceedOrRaise(Exceptions)
     \/ Running("await") /\ ProceedOrRaise({SystemError})
  /\ UNCHANGED <<pc, method, tx, misused, reply, stack, writer, client, lost>>

BeginStep ==
  /\ Running("begin")
  /\ \/ Proceed /\ tx' = "open" /\ UNCHANGED <<escaped, torn>>
     \/ Raise(SystemError) /\ UNCHANGED tx
  /\ UNCHANGED <<pc, method, misused, reply, stack, writer, client, lost>>

ReadStep ==
  /\ Running("read")
  /\ misused' = (misused \/ tx # "open")
  /\ ProceedOrRaise(Exceptions)
  /\ UNCHANGED <<pc, method, tx, reply, stack, writer, client, lost>>

ExecuteStep ==
  /\ Running("execute") /\ Proceed
  /\ misused' = (misused \/ tx # "open")
  /\ UNCHANGED <<pc, method, tx, reply, escaped, torn, stack, writer, client, lost>>

\* A close that fails may be tried again.
CloseStep ==
  /\ Running("close")
  /\ misused' = (misused \/ tx \notin {"open", "broken"})
  /\ \/ Proceed /\ tx' = "closed" /\ UNCHANGED <<escaped, torn>>
     \/ Raise(SystemError) /\ tx' = "broken"
  /\ UNCHANGED <<pc, method, reply, stack, writer, client, lost>>

-----------------------------------------------------------------------------
(* Replies.                                                                *)

ReplyStep ==
  /\ Running("result") \/ Running("error")
  /\ Proceed /\ reply' = Head(todo).op
  /\ UNCHANGED <<pc, method, tx, misused, escaped, torn, stack, writer, client, lost>>

\* The client checks the size of a chunk, and takes nothing after the last.
ReadChunk(c, chunk) ==
  CASE c.ended \/ chunk.size # Len(chunk.data) -> [c EXCEPT !.doc = Bad(@)]
    [] chunk = FinalChunk                      -> [c EXCEPT !.ended = TRUE]
    [] OTHER                                   -> [c EXCEPT !.doc = AcceptAll(@, chunk.data)]

Transmit(w) ==
  /\ writer' = [w EXCEPT !.sent = <<>>]
  /\ client' = FoldLeft(ReadChunk, client, w.sent)

StreamOp(op) ==
  CASE op = "open_object"            -> open_object(stack)
    [] op = "close_object"           -> close_object(stack)
    [] op = "open_array"             -> open_array(stack)
    [] op = "close_array"            -> close_array(stack)
    [] op = "name"                   -> write_name(stack)
    [] op \in {"field", "error_field"} -> write_field(stack)
    [] op \in {"write_json", "log_json"} -> write_json(stack)

StreamOps == {"open_object", "close_object", "open_array", "close_array", "name", "field",
              "error_field", "write_json", "log_json"}

\* The socket takes what was sent, or the write of some chunk throws.  The
\* buffer then stays full: every later write comes to a flush, and throws again.
SendFails(w) ==
  \E k \in DOMAIN w.sent :
    /\ lost => k = 1
    /\ writer' = [buffer |-> w.sent[k].data, sent |-> <<>>]
    /\ client' = FoldLeft(ReadChunk, client, SubSeq(w.sent, 1, k - 1))
    /\ lost' = TRUE

StreamStep ==
  /\ \E op \in StreamOps :
       LET written == WriteAll(writer, StreamOp(op).out)
       IN /\ Running(op) /\ pc = "stream"
          /\ \/ /\ written.sent = <<>> \/ ~lost
                /\ Proceed /\ Transmit(written) /\ stack' = StreamOp(op).stack
                /\ UNCHANGED <<pc, escaped, torn, lost>>
             \/ /\ op # "log_json" /\ SendFails(written) /\ Raise(SystemError)
                /\ UNCHANGED <<pc, stack>>
             \/ /\ op = "log_json" /\ SendFails(written) /\ pc' = "terminated"
                /\ UNCHANGED <<todo, escaped, torn, stack>>
  /\ UNCHANGED <<method, tx, misused, reply>>

-----------------------------------------------------------------------------
(* The handler has returned, or an exception has left it.                  *)

\* Faulty variant: an exception that leaves the handler sets no reply.
FinishJsonSilent ==
  /\ pc = "json" /\ todo = <<>>
  /\ pc' = "done" /\ reply' = IF escaped THEN "none" ELSE reply
  /\ UNCHANGED <<method, todo, tx, misused, escaped, torn, stack, writer, client, lost>>

\* An exception becomes an error reply; else the reply is what the handler set.
FinishJson ==
  /\ pc = "json" /\ todo = <<>>
  /\ pc' = "done" /\ reply' = IF escaped THEN "error" ELSE reply
  /\ UNCHANGED <<method, todo, tx, misused, escaped, torn, stack, writer, client, lost>>

\* The stream is closed; after an exception it is not, and nothing is sent.
FinishStream ==
  /\ pc = "stream" /\ todo = <<>>
  /\ pc' = "done"
  /\ \/ escaped /\ UNCHANGED <<writer, client, lost>>
     \/ ~escaped /\ Transmit(close(writer)) /\ UNCHANGED lost
     \/ ~escaped /\ SendFails(close(writer))
  /\ UNCHANGED <<method, todo, tx, misused, reply, escaped, torn, stack>>

Next ==
  \/ \E m \in Methods : Dispatch(m)
  \/ TryStep \/ EndTryStep \/ ChooseStep \/ ReturnStep \/ ThrowStep
  \/ OtherAwait \/ BeginStep \/ ReadStep \/ ExecuteStep \/ CloseStep
  \/ ReplyStep \/ StreamStep
  \/ FinishJson \/ FinishStream

Spec == Init /\ [][Next]_vars

-----------------------------------------------------------------------------
(* Properties.                                                             *)

\* A handler reads and executes only between begin() and close(), closes its
\* transaction once, or again if a close has failed, and has closed it when it
\* returns: on all its paths with early returns, catch clauses and failed
\* awaits, every way out of a try block that follows begin() leads to
\* tx->close() (the handlers have no RAII for it).  The one exception is a
\* streamed reply whose client has left: the catch clause of the failed write
\* writes the error, which throws past tx->close().
TransactionReleased == ~misused /\ (pc = "done" /\ tx = "open" => lost)

\* A request for a JSON method has an answer on every path: the handler has set
\* a result or an error, or the exception that left it has become an error.  An
\* error once given is not replaced by a result.  (eth_callBundle is an
\* exception: after "invalid transaction hash" it goes on to its result.)
EveryRequestIsAnswered ==
  /\ [](pc = "done" /\ method \notin DOMAIN stream_handlers => reply # "none")
  /\ [][reply = "error" /\ pc = "json" /\ method # "eth_callBundle" => reply' = "error"]_vars

\* What a client reads of a streamed reply is JSON at every moment, with commas,
\* brackets and chunk sizes in order, however the tokens fall into chunks; and
\* when the handler has returned the document is complete and the last chunk
\* sent, unless the client has left.  Exceptions inside the result (torn) are
\* left out: the error is then written where no field may stand.
StreamedReplyIsJson ==
  ~torn => /\ client.doc.want # "bad"
           /\ pc = "done" /\ method \in DOMAIN stream_handlers /\ ~escaped /\ ~lost
                => Complete(client.doc) /\ client.ended
=============================================================================
