------------------------------- MODULE EthApi -------------------------------
(***************************************************************************)
(* The handlers of EthereumRpcApi (commands/eth_api.cpp).                  *)
(***************************************************************************)
EXTENDS HandlerSteps

(* Chain and protocol.                                                     *)

handle_eth_block_number == InTransaction(<<Read, Result>>, ErrorOnAny)

handle_eth_chain_id == InTransaction(<<Read, Result>>, ErrorOnAny)

handle_eth_protocol_version == <<Try(<<Await, Result>>, ErrorOnAny)>>

handle_eth_syncing ==
  InTransaction(<<Read, Read, Either(<<Result>>, <<Repeat(<<Read>>), Result>>)>>, ErrorOnAny)

\* The block, the sampled blocks, and the block again for its base fee.
handle_eth_gas_price == InTransaction(<<Read, Repeat(<<Read>>), Read, Result>>, ErrorOnAny)

(* Blocks, uncles and transactions.                                        *)

handle_eth_get_block_by_hash == Params \o InTransaction(<<Read, Read, Result>>, EmptyOnInvalid)

handle_eth_get_block_by_number ==
  Params \o InTransaction(<<Read, Read, Read, Result>>, EmptyOnInvalid)

handle_eth_get_block_transaction_count_by_hash ==
  Params \o InTransaction(<<Read, Result>>, ErrorOnAny)

handle_eth_get_block_transaction_count_by_number ==
  Params \o InTransaction(<<Read, Read, Result>>, ErrorOnAny)

handle_eth_get_uncle_by_block_hash_and_index ==
  Params \o InTransaction(<<Read, Convert, Either(<<Result>>, <<Read, Result>>)>>, ErrorOnAny)

handle_eth_get_uncle_by_block_number_and_index ==
  Params \o InTransaction(<<Read, Read, Convert, Either(<<Result>>, <<Read, Result>>)>>, ErrorOnAny)

handle_eth_get_uncle_count_by_block_hash == Params \o InTransaction(<<Read, Result>>, ErrorOnAny)

handle_eth_get_uncle_count_by_block_number ==
  Params \o InTransaction(<<Read, Read, Result>>, ErrorOnAny)

\* In the chain, or else in the pool; what the pool has may not decode.
handle_eth_get_transaction_by_hash ==
  Params \o InTransaction(
    <<Read, Either(<<Result>>, <<Await, Choose({<<Result>>, <<Error>>})>>)>>, EmptyOnInvalid)

handle_eth_get_raw_transaction_by_hash ==
  Params \o InTransaction(
    <<Read, Either(<<Result>>, <<Await, Choose({<<Result>>, <<Error>>})>>)>>, EmptyOnInvalid)

handle_eth_get_transaction_by_block_hash_and_index ==
  Params \o InTransaction(<<Read, Convert, Result>>, ErrorOnAny)

handle_eth_get_raw_transaction_by_block_hash_and_index ==
  Params \o InTransaction(<<Read, Convert, Result>>, EmptyOnInvalid)

handle_eth_get_transaction_by_block_number_and_index ==
  Params \o InTransaction(<<Read, Read, Convert, Result>>, ErrorOnAny)

handle_eth_get_raw_transaction_by_block_number_and_index ==
  Params \o InTransaction(<<Read, Read, Convert, Result>>, EmptyOnInvalid)

\* Receipts and transactions differ in number, or the hash is not there: thrown.
handle_eth_get_transaction_receipt ==
  Params \o InTransaction(
    <<Read, Read, Choose({<<>>, <<Throw("invalid_argument")>>}), Result>>, EmptyOnInvalid)

(* State and execution.                                                    *)

\* Chain, block, header and account, then the executions of the search.  An
\* EstimateGasException is one of the exceptions that give an error.
handle_eth_estimate_gas ==
  Params \o InTransaction(
    <<Read, Read, Read, Repeat(<<Read>>), Repeat(<<Execute>>),
      Choose({<<>>, <<Throw("exception")>>}), Result>>, ErrorOnAny)

handle_eth_get_balance == Params \o InTransaction(<<Read, Read, Result>>, ErrorOnAny)

handle_eth_get_code ==
  Params \o InTransaction(<<Read, Read, Either(<<Read, Result>>, <<Result>>)>>, ErrorOnAny)

handle_eth_get_transaction_count == Params \o InTransaction(<<Read, Read, Result>>, ErrorOnAny)

handle_eth_get_storage_at ==
  Params \o InTransaction(<<Read, Read, Either(<<Read, Result>>, <<Result>>)>>, ErrorOnAny)

\* A failed pre-check and a revert are errors.
handle_eth_call ==
  Params \o InTransaction(
    <<Read, Read, Read, Execute, Choose({<<Result>>, <<Error>>})>>, ErrorOnAny)

\* The nonce for the created address comes from the pool or from the state.
CallNonce == Choose({<<>>, <<Await>>, <<Await, Read>>})

\* Executions until the list is stable: two that change it at most here.
handle_eth_create_access_list ==
  Params \o InTransaction(
    <<Read, Read, Read, CallNonce, Repeat(<<Execute>>), Execute, Choose({<<Result>>, <<Error>>})>>,
    ErrorOnAny)

\* A transaction that is not found sets an error and leaves the loop, but only
\* a failed pre-check and the timeout set the flag that keeps the error.
handle_eth_call_bundle ==
  <<ReturnIf(Error), Convert, ReturnIf(Error)>> \o InTransaction(
    <<Read, Read, Read, Repeat(<<Read, Execute>>),
      Choose({<<Result>>, <<Read, Error, Result>>, <<Read, Execute, Error>>})>>, ErrorOnAny)

(* Filters, and methods that answer 0.                                     *)

AnswerZero == InTransaction(<<Result>>, ErrorOnAny)

handle_eth_new_filter == AnswerZero

handle_eth_new_block_filter == AnswerZero

handle_eth_new_pending_transaction_filter == AnswerZero

handle_eth_get_filter_changes == AnswerZero

handle_eth_uninstall_filter == AnswerZero

handle_eth_send_transaction == AnswerZero

handle_eth_sign_transaction == AnswerZero

handle_eth_get_proof == AnswerZero

handle_eth_subscribe == AnswerZero

handle_eth_unsubscribe == AnswerZero

\* The hash is not hex: the transaction is closed inside the try.  Blocks given
\* by number need no read, tags do.
LogRange == Choose({<<Error, Close, Return>>, <<Convert>>, <<Read>>, <<Read, Read>>})

\* No block can match: the same.  Else the logs of each block, and the block.
handle_eth_get_logs ==
  Params \o InTransaction(
    <<LogRange, Repeat(<<Read>>), Choose({<<>>, <<Result, Close, Return>>}),
      Repeat(<<Read, Read>>), Result>>, EmptyOnInvalid)

(* Transactions and mining: no database transaction.                       *)

\* Not hex, not RLP, above the fee cap, not replay protected; the pool refuses
\* it; and only then the sender is recovered.
handle_eth_send_raw_transaction ==
  <<ReturnIf(Error), Convert, ReturnIf(Error), ReturnIf(Error), ReturnIf(Error), ReturnIf(Error),
    Await, ReturnIf(Error), ReturnIf(Error), Result>>

handle_eth_mining == <<Try(<<Await, Result>>, ErrorOnAny)>>

handle_eth_coinbase == <<Try(<<Await, Result>>, ErrorOnAny)>>

handle_eth_hashrate == <<Try(<<Await, Result>>, ErrorOnAny)>>

handle_eth_submit_hashrate == <<ReturnIf(Error), Try(<<Convert, Await, Result>>, ErrorOnAny)>>

handle_eth_get_work == <<Try(<<Await, Result>>, ErrorOnAny)>>

handle_eth_submit_work ==
  <<ReturnIf(Error), Try(<<Convert, ReturnIf(Error), Convert, Await, Result>>, ErrorOnAny)>>
=============================================================================
