---------------------------- MODULE RpcApiTable -----------------------------
(***************************************************************************)
(* The table of the handlers by method (commands/rpc_api_table.cpp): one   *)
(* map for the handlers that return a reply, one for those that stream it. *)
(* The steps of each handler are in the modules of the APIs.               *)
(***************************************************************************)
EXTENDS EthApi, DebugApi, TraceApi, OtherApis, TLC

CONSTANT ApiSpec    \* the namespaces of the api_spec setting

ASSUME ApiSpecAssumption ==
  ApiSpec \subseteq {"debug", "eth", "net", "parity", "erigon", "trace", "web3", "engine", "txpool",
                     "ots"}

add_debug_handlers ==
  [debug_accountRange |-> handle_debug_account_range,
   debug_getModifiedAccountsByNumber |-> handle_debug_get_modified_accounts_by_number,
   debug_getModifiedAccountsByHash |-> handle_debug_get_modified_accounts_by_hash,
   debug_storageRangeAt |-> handle_debug_storage_range_at]

add_debug_streams ==
  [debug_traceCall |-> handle_debug_trace_call,
   debug_traceTransaction |-> handle_debug_trace_transaction,
   debug_traceBlockByNumber |-> handle_debug_trace_block_by_number,
   debug_traceBlockByHash |-> handle_debug_trace_block_by_hash]

add_eth_handlers ==
  [eth_blockNumber |-> handle_eth_block_number,
   eth_chainId |-> handle_eth_chain_id,
   eth_protocolVersion |-> handle_eth_protocol_version,
   eth_syncing |-> handle_eth_syncing,
   eth_gasPrice |-> handle_eth_gas_price,
   eth_getBlockByHash |-> handle_eth_get_block_by_hash,
   eth_getBlockByNumber |-> handle_eth_get_block_by_number,
   eth_getBlockTransactionCountByHash |-> handle_eth_get_block_transaction_count_by_hash,
   eth_getBlockTransactionCountByNumber |-> handle_eth_get_block_transaction_count_by_number,
   eth_getUncleByBlockHashAndIndex |-> handle_eth_get_uncle_by_block_hash_and_index,
   eth_getUncleByBlockNumberAndIndex |-> handle_eth_get_uncle_by_block_number_and_index,
   eth_getUncleCountByBlockHash |-> handle_eth_get_uncle_count_by_block_hash,
   eth_getUncleCountByBlockNumber |-> handle_eth_get_uncle_count_by_block_number,
   eth_getTransactionByHash |-> handle_eth_get_transaction_by_hash,
   eth_getTransactionByBlockHashAndIndex |-> handle_eth_get_transaction_by_block_hash_and_index,
   eth_getTransactionByBlockNumberAndIndex |-> handle_eth_get_transaction_by_block_number_and_index,
   eth_getRawTransactionByHash |-> handle_eth_get_raw_transaction_by_hash,
   eth_getRawTransactionByBlockHashAndIndex |-> handle_eth_get_raw_transaction_by_block_hash_and_index,
   eth_getRawTransactionByBlockNumberAndIndex |-> handle_eth_get_raw_transaction_by_block_number_and_index,
   eth_getTransactionReceipt |-> handle_eth_get_transaction_receipt,
   eth_estimateGas |-> handle_eth_estimate_gas,
   eth_getBalance |-> handle_eth_get_balance,
   eth_getCode |-> handle_eth_get_code,
   eth_getTransactionCount |-> handle_eth_get_transaction_count,
   eth_getStorageAt |-> handle_eth_get_storage_at,
   eth_call |-> handle_eth_call,
   eth_callBundle |-> handle_eth_call_bundle,
   eth_createAccessList |-> handle_eth_create_access_list,
   eth_newFilter |-> handle_eth_new_filter,
   eth_newBlockFilter |-> handle_eth_new_block_filter,
   eth_newPendingTransactionFilter |-> handle_eth_new_pending_transaction_filter,
   eth_getFilterChanges |-> handle_eth_get_filter_changes,
   eth_uninstallFilter |-> handle_eth_uninstall_filter,
   eth_getLogs |-> handle_eth_get_logs,
   eth_sendRawTransaction |-> handle_eth_send_raw_transaction,
   eth_sendTransaction |-> handle_eth_send_transaction,
   eth_signTransaction |-> handle_eth_sign_transaction,
   eth_getProof |-> handle_eth_get_proof,
   eth_mining |-> handle_eth_mining,
   eth_coinbase |-> handle_eth_coinbase,
   eth_hashrate |-> handle_eth_hashrate,
   eth_submitHashrate |-> handle_eth_submit_hashrate,
   eth_getWork |-> handle_eth_get_work,
   eth_submitWork |-> handle_eth_submit_work,
   eth_subscribe |-> handle_eth_subscribe,
   eth_unsubscribe |-> handle_eth_unsubscribe,
   eth_getBlockReceipts |-> handle_parity_get_block_receipts]

add_net_handlers ==
  [net_listening |-> handle_net_listening,
   net_peerCount |-> handle_net_peer_count,
   net_version |-> handle_net_version]

add_parity_handlers ==
  [parity_getBlockReceipts |-> handle_parity_get_block_receipts,
   parity_listStorageKeys |-> handle_parity_list_storage_keys]

add_erigon_handlers ==
  [erigon_getBlockByTimestamp |-> handle_erigon_get_block_by_timestamp,
   erigon_getHeaderByHash |-> handle_erigon_get_header_by_hash,
   erigon_getHeaderByNumber |-> handle_erigon_get_header_by_number,
   erigon_getLogsByHash |-> handle_erigon_get_logs_by_hash,
   erigon_forks |-> handle_erigon_forks,
   erigon_watchTheBurn |-> handle_erigon_watch_the_burn,
   erigon_cumulativeChainTraffic |-> handle_erigon_cumulative_chain_traffic,
   erigon_blockNumber |-> handle_erigon_block_number,
   erigon_nodeInfo |-> handle_erigon_node_info]

add_trace_handlers ==
  [trace_call |-> handle_trace_call,
   trace_callMany |-> handle_trace_call_many,
   trace_rawTransaction |-> handle_trace_raw_transaction,
   trace_replayBlockTransactions |-> handle_trace_replay_block_transactions,
   trace_replayTransaction |-> handle_trace_replay_transaction,
   trace_block |-> handle_trace_block,
   trace_get |-> handle_trace_get,
   trace_transaction |-> handle_trace_transaction]

add_trace_streams ==
  [trace_filter |-> handle_trace_filter]

add_web3_handlers ==
  [web3_clientVersion |-> handle_web3_client_version,
   web3_sha3 |-> handle_web3_sha3]

add_engine_handlers ==
  [engine_getPayloadV1 |-> handle_engine_get_payload_v1,
   engine_newPayloadV1 |-> handle_engine_new_payload_v1,
   engine_forkchoiceUpdatedV1 |-> handle_engine_forkchoice_updated_v1,
   engine_exchangeTransitionConfigurationV1 |-> handle_engine_exchange_transition_configuration_v1]

add_txpool_handlers ==
  [txpool_status |-> handle_txpool_status,
   txpool_content |-> handle_txpool_content]

add_ots_handlers ==
  [ots_getApiLevel |-> handle_ots_get_api_level,
   ots_hasCode |-> handle_ots_has_code]

-----------------------------------------------------------------------------
NoHandlers == <<>>

\* add_handlers: the handlers of a namespace that the setting names.
Added(namespace, handlers) == IF namespace \in ApiSpec THEN handlers ELSE NoHandlers

method_handlers ==
  Added("debug", add_debug_handlers) @@ Added("eth", add_eth_handlers) @@
  Added("net", add_net_handlers) @@ Added("parity", add_parity_handlers) @@
  Added("erigon", add_erigon_handlers) @@ Added("trace", add_trace_handlers) @@
  Added("web3", add_web3_handlers) @@ Added("engine", add_engine_handlers) @@
  Added("txpool", add_txpool_handlers) @@ Added("ots", add_ots_handlers)

stream_handlers == Added("debug", add_debug_streams) @@ Added("trace", add_trace_streams)
=============================================================================
