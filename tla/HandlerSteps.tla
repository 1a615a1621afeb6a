---------------------------- MODULE HandlerSteps ----------------------------
(***************************************************************************)
(* The steps that API handlers are made of.  A handler is a sequence of    *)
(* steps, and the modules of the APIs (EthApi, DebugApi, ...) define one    *)
(* for each handle_... method of commands/: what it awaits, in which       *)
(* order, where it returns early, and what its catch clauses do.  What a   *)
(* step does is defined in RequestLife.                                    *)
(*                                                                         *)
(* The data a handler computes is left out: a condition on data is a       *)
(* choice between its outcomes, and a loop over data is a choice of the    *)
(* number of its rounds, up to two.                                        *)
(***************************************************************************)
EXTENDS Naturals, Sequences

\* std::invalid_argument, any other std::exception, and anything else.
Exceptions == {"invalid_argument", "exception", "other"}

Step(op) == [op |-> op]

Begin   == Step("begin")     \* co_await database_->begin()
Close   == Step("close")     \* co_await tx->close()
Read    == Step("read")      \* co_await of a read through the transaction
Execute == Step("execute")   \* co_await executor.call(...): its reads do not throw
Await   == Step("await")     \* co_await of another service: backend, pool, miner
Convert == Step("convert")   \* params[i].get<T>() and the like: may throw
Return  == Step("return")    \* co_return
Result  == Step("result")    \* reply = make_json_content(...)
Error   == Step("error")     \* reply = make_json_error(...)

Throw(e)           == [op |-> "throw", exception |-> e]
Choose(bodies)     == [op |-> "choose", bodies |-> bodies]
Try(body, catches) == [op |-> "try", body |-> body, catches |-> catches]

\* Operations of json::Stream.
OpenObject  == Step("open_object")
CloseObject == Step("close_object")
OpenArray   == Step("open_array")
CloseArray  == Step("close_array")
Name        == Step("name")          \* write_field(name)
Field       == Step("field")         \* write_field(name, value)
ErrorField  == Step("error_field")   \* write_field("error", error)
WriteJson   == Step("write_json")
LogJson     == Step("log_json")      \* write_json from a callback of the EVM

-----------------------------------------------------------------------------
(* Common shapes.                                                          *)

\* if (...) { return with this step } else go on
ReturnIf(step) == Choose({<<>>, <<step, Return>>})

Repeat(body) == Choose({<<>>, body, body \o body})

\* The count of the parameters is wrong, or they are converted.
Params == <<ReturnIf(Error), Convert>>

StreamParams == <<ReturnIf(WriteJson), Convert>>

ErrorOnAny == [e \in Exceptions |-> <<Error>>]

\* catch (const std::invalid_argument&) gives empty content.
EmptyOnInvalid == [ErrorOnAny EXCEPT !["invalid_argument"] = <<Result>>]

\* catch (const std::exception&) gives empty content.
EmptyOnException == [EmptyOnInvalid EXCEPT !["exception"] = <<Result>>]

\* Faulty variant: the close is inside the try, and skipped by an exception.
InTransactionUntilException(body, catches) == <<Begin, Try(Append(body, Close), catches)>>

\* Open a transaction, work, and close it on every way out of the work.
InTransaction(body, catches) == <<Begin, Try(body, catches), Close>>

\* The value is there, or the answer is empty.
Either(one, other) == Choose({one, other})
=============================================================================
