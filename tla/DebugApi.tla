------------------------------ MODULE DebugApi ------------------------------
(***************************************************************************)
(* The handlers of DebugRpcApi (commands/debug_api.cpp) and what           *)
(* DebugExecutor writes on their stream (core/evm_debug.cpp).              *)
(***************************************************************************)
EXTENDS HandlerSteps

handle_debug_account_range ==
  Params \o InTransaction(<<Read, Repeat(<<Read>>), Result>>, ErrorOnAny)

\* The latest block, a start after it is thrown out, and a walk.
get_modified_accounts ==
  <<Read, Choose({<<>>, <<Throw("invalid_argument")>>, <<Read>>})>>

handle_debug_get_modified_accounts_by_number ==
  Params \o InTransaction(<<Read, Read>> \o get_modified_accounts \o <<Result>>, ErrorOnAny)

handle_debug_get_modified_accounts_by_hash ==
  Params \o InTransaction(<<Read, Read>> \o get_modified_accounts \o <<Result>>, ErrorOnAny)

handle_debug_storage_range_at ==
  Params \o InTransaction(<<Read, Repeat(<<Read>>), Result>>, ErrorOnAny)

-----------------------------------------------------------------------------
(* Streamed traces.                                                        *)

\* The instructions are written while the transaction executes, by the
\* callbacks of DebugTracer, the last ones by flush_logs.
struct_logs ==
  <<Name, OpenArray, Execute, Repeat(<<LogJson>>), Choose({<<>>, <<WriteJson>>}), CloseArray>>

\* A transaction of the block, after those before it.
execute_transaction ==
  <<Read, Repeat(<<Execute>>)>> \o struct_logs \o <<Choose({<<>>, <<Field, Field, Field>>})>>

\* All the transactions of the block.
execute_block ==
  <<Read, Repeat(
      <<OpenObject, Name, OpenObject>> \o struct_logs \o
      <<Choose({<<Field>>, <<Field, Field, Field>>}), CloseObject, CloseObject>>)>>

\* The members id and jsonrpc are written before the transaction is opened.
Streamed(body, catches) ==
  StreamParams \o <<OpenObject, Field, Field, Begin, Try(body, catches), CloseObject, Close>>

ErrorFieldOnAny == [e \in Exceptions |-> <<ErrorField>>]

\* A failed pre-check is reported beside the result.
TraceResult ==
  <<Name, OpenObject>> \o execute_transaction \o <<CloseObject, Choose({<<>>, <<ErrorField>>})>>

handle_debug_trace_transaction ==
  Streamed(<<Read, Either(<<ErrorField>>, TraceResult)>>, ErrorFieldOnAny)

handle_debug_trace_call == Streamed(<<Read, Read>> \o TraceResult, ErrorFieldOnAny)

TraceBlock ==
  Streamed(<<Read, Name, OpenArray>> \o execute_block \o <<CloseArray>>, ErrorFieldOnAny)

handle_debug_trace_block_by_number == TraceBlock

handle_debug_trace_block_by_hash == TraceBlock
=============================================================================
