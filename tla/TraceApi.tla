------------------------------ MODULE TraceApi ------------------------------
(***************************************************************************)
(* The handlers of TraceRpcApi (commands/trace_api.cpp) and the            *)
(* TraceCallExecutor they use (core/evm_trace.cpp), as to what it awaits   *)
(* and writes.                                                             *)
(***************************************************************************)
EXTENDS HandlerSteps

\* The chain configuration, the transactions before, and the traced one.
execute == <<Read, Repeat(<<Execute>>), Execute>>

trace_calls == <<Read, Repeat(<<Execute>>)>>

trace_block_transactions == <<Read, Repeat(<<Execute>>)>>

trace_transaction == execute

\* The reward of the block needs the chain configuration, and is last.
trace_block == trace_block_transactions \o <<Choose({<<>>, <<Read>>})>>

TraceOrError == Choose({<<Result>>, <<Error>>})

handle_trace_call ==
  Params \o InTransaction(<<Read, Read>> \o execute \o <<TraceOrError>>, ErrorOnAny)

handle_trace_call_many ==
  Params \o InTransaction(<<Read, Read>> \o trace_calls \o <<TraceOrError>>, ErrorOnAny)

\* Not hex, not RLP, above the cap, not protected, no sender; then the config.
handle_trace_raw_transaction ==
  Params \o <<ReturnIf(Error), ReturnIf(Error), ReturnIf(Error), ReturnIf(Error), ReturnIf(Error),
              Convert>>
         \o InTransaction(<<Read, Read>> \o execute \o <<TraceOrError>>, ErrorOnAny)

handle_trace_replay_block_transactions ==
  Params \o InTransaction(<<Read>> \o trace_block_transactions \o <<Result>>, ErrorOnAny)

handle_trace_replay_transaction ==
  Params \o InTransaction(<<Read, Either(<<Error>>, execute \o <<TraceOrError>>)>>, ErrorOnAny)

handle_trace_block == Params \o InTransaction(<<Read>> \o trace_block \o <<Result>>, ErrorOnAny)

\* More than one index has no answer.
handle_trace_get ==
  Params \o <<ReturnIf(Result)>>
         \o InTransaction(<<Read, Either(<<Result>>, trace_transaction \o <<Result>>)>>,
                          EmptyOnException)

handle_trace_transaction ==
  Params \o InTransaction(<<Read, Either(<<Result>>, trace_transaction \o <<Result>>)>>,
                          EmptyOnException)

-----------------------------------------------------------------------------
(* trace_filter is streamed.                                               *)

\* A block: its traces are computed, then the ones that match are written.
FilteredBlock ==
  trace_block_transactions \o <<Repeat(<<WriteJson>>), Choose({<<>>, <<Read, WriteJson>>})>>

\* The next block is read, unless it is the last one, which is known, or the
\* count is used up and the loop ends.
NextBlock == Choose({<<>>, <<Read>>})

\* The loop runs from the first block to the last, and then reads one more.
trace_filter ==
  <<Read, Read,
    Either(<<ErrorField>>,
           <<Name, OpenArray>> \o FilteredBlock \o <<NextBlock>> \o
           <<Choose({<<>>, FilteredBlock \o <<NextBlock>>}), CloseArray>>)>>

handle_trace_filter ==
  StreamParams \o
  <<OpenObject, Field, Field, Begin, Try(trace_filter, [e \in Exceptions |-> <<ErrorField>>]),
    CloseObject, Close>>
=============================================================================
