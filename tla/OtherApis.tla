----------------------------- MODULE OtherApis ------------------------------
(***************************************************************************)
(* The handlers of the erigon, engine, parity, ots, txpool, net and web3   *)
(* namespaces (commands/).                                                 *)
(***************************************************************************)
EXTENDS HandlerSteps

(* ErigonRpcApi.                                                           *)

\* The first and last headers, then the search, then the block.
handle_erigon_get_block_by_timestamp ==
  Params \o InTransaction(
    <<Read, Read, Either(<<>>, <<Repeat(<<Read>>), Read>>), Read, Read, Result>>, ErrorOnAny)

handle_erigon_get_header_by_hash == Params \o InTransaction(<<Read, Result>>, ErrorOnAny)

\* The pending block is not known.
handle_erigon_get_header_by_number ==
  Params \o <<ReturnIf(Error)>> \o InTransaction(<<Read, Read, Result>>, ErrorOnAny)

handle_erigon_get_logs_by_hash == Params \o InTransaction(<<Read, Read, Result>>, ErrorOnAny)

handle_erigon_forks == InTransaction(<<Read, Result>>, ErrorOnAny)

\* Without ethash there is no issuance; tips need a base fee.
handle_erigon_watch_the_burn ==
  Params \o InTransaction(
    <<Read, Either(<<>>, <<Read, Read, Read, Read, Choose({<<>>, <<Read>>})>>), Result>>, ErrorOnAny)

handle_erigon_block_number == Params \o InTransaction(<<Read, Result>>, ErrorOnAny)

handle_erigon_cumulative_chain_traffic ==
  Params \o InTransaction(<<Read, Read, Read, Result>>, EmptyOnException)

handle_erigon_node_info == <<Try(<<Await, Result>>, ErrorOnAny)>>

(* EngineRpcApi.                                                           *)

handle_engine_get_payload_v1 == <<ReturnIf(Error), Try(<<Convert, Await, Result>>, ErrorOnAny)>>

handle_engine_new_payload_v1 == <<ReturnIf(Error), Try(<<Convert, Await, Result>>, ErrorOnAny)>>

\* An empty safe or finalized hash, then with or without payload attributes.
handle_engine_forkchoice_updated_v1 ==
  <<ReturnIf(Error),
    Try(<<Convert, ReturnIf(Error), ReturnIf(Error), Either(<<>>, <<Convert>>), Await, Result>>,
        ErrorOnAny)>>

\* The three mismatches return from inside the try.
handle_engine_exchange_transition_configuration_v1 ==
  Params \o InTransaction(
    <<Read, ReturnIf(Error), ReturnIf(Error), ReturnIf(Error), Result>>, ErrorOnAny)

(* ParityRpcApi, OtsRpcApi.                                                *)

handle_parity_get_block_receipts ==
  Params \o InTransaction(<<Read, Read, Read, Result>>, EmptyOnInvalid)

\* No account is a domain_error; then one key per move of the cursor.
handle_parity_list_storage_keys ==
  Params \o InTransaction(
    <<Read, Read, Choose({<<>>, <<Throw("exception")>>}), Read, Read, Repeat(<<Read>>), Result>>,
    EmptyOnInvalid)

handle_ots_get_api_level == <<Result>>

handle_ots_has_code ==
  Params \o InTransaction(<<Read, Read, Read, Either(<<Read, Result>>, <<Result>>)>>, ErrorOnAny)

(* TxPoolRpcApi, NetRpcApi, Web3RpcApi.                                    *)

handle_txpool_status == <<Try(<<Await, Result>>, ErrorOnAny)>>

\* A transaction of the pool that does not decode makes the answer an error.
handle_txpool_content == <<Try(<<Await, Choose({<<Result>>, <<Error>>})>>, ErrorOnAny)>>

handle_net_listening == <<Result>>

handle_net_peer_count == <<Try(<<Await, Result>>, ErrorOnAny)>>

handle_net_version == <<Try(<<Await, Result>>, ErrorOnAny)>>

handle_web3_client_version == <<Try(<<Await, Result>>, ErrorOnAny)>>

handle_web3_sha3 == Params \o <<ReturnIf(Error), Result>>
=============================================================================
