----------------------------- MODULE LogSearch -----------------------------
(***************************************************************************)
(* eth_getLogs: the blocks that may hold a match are found in two indexes, *)
(* by topic and by address, kept in shards of block numbers; the logs of   *)
(* these blocks are then filtered one by one.                              *)
(*                                                                         *)
(* A filter is [addresses, topics]: addresses is NoAddresses or a set,     *)
(* topics NoTopics or a sequence of sets, one for each position.           *)
(***************************************************************************)
EXTENDS DbTables

CONSTANTS NoAddresses, NoTopics

\* Faulty variant of bitmap_get: only the first shard is read.
BitmapGetFirst(table, key, from_block, to_block) ==
    LET chuncks == walk(table, <<key, from_block>>, 1, table)
    IN  UNION {chuncks[i].value : i \in DOMAIN chuncks}

\* ethdb::bitmap::get: the union of the shards from from_block on, up to the first that
\* reaches to_block.  It may hold blocks outside the range.
bitmap_get(table, key, from_block, to_block) ==
    LET chuncks == walk(table, <<key, from_block>>, 1, {e \in table : e.key[2] >= to_block})
    IN  UNION {chuncks[i].value : i \in DOMAIN chuncks}

\* A position that no log satisfies is left out here, and one that empties the result starts
\* it again: the bitmap may name more blocks than match, never less.
RECURSIVE TopicsBitmap(_, _, _, _, _)
TopicsBitmap(db, topics, start, end, result_bitmap) ==
    IF topics = <<>> THEN result_bitmap
    ELSE LET subtopic_bitmap ==
                 UNION {bitmap_get(db.logTopics, t, start, end) : t \in Head(topics)}
         IN  TopicsBitmap(db, Tail(topics), start, end,
                          IF subtopic_bitmap = {} THEN result_bitmap
                          ELSE IF result_bitmap = {} THEN subtopic_bitmap
                          ELSE result_bitmap \cap subtopic_bitmap)

get_topics_bitmap(db, topics, start, end) == TopicsBitmap(db, topics, start, end, {})

get_addresses_bitmap(db, addresses, start, end) ==
    UNION {bitmap_get(db.logAddresses, a, start, end) : a \in addresses}

\* filter_logs on one log; no topic at a position is a wildcard.
Matches(log, filter) ==
    /\ filter.addresses # NoAddresses => log.address \in filter.addresses
    /\ filter.topics # NoTopics =>
          /\ Len(filter.topics) <= Len(log.topics)
          /\ \A i \in DOMAIN filter.topics :
                filter.topics[i] = {} \/ log.topics[i] \in filter.topics[i]

filter_logs(logs, filter) == SelectSeq(logs, LAMBDA log : Matches(log, filter))

\* The logs of a block carry an index that counts over all its transactions.
RECURSIVE BlockLogs(_, _, _)
BlockLogs(chunks, filter, log_index) ==
    IF chunks = <<>> THEN <<>>
    ELSE LET chunck_logs == Head(chunks).value
             indexed == [i \in DOMAIN chunck_logs |->
                            [address |-> chunck_logs[i].address,
                             topics |-> chunck_logs[i].topics,
                             index |-> log_index + i - 1,
                             block_number |-> Head(chunks).key[1],
                             tx_index |-> Head(chunks).key[2]]]
         IN  filter_logs(indexed, filter)
             \o BlockLogs(Tail(chunks), filter, log_index + Len(chunck_logs))

RECURSIVE LogsOf(_, _, _)
LogsOf(db, block_numbers, filter) ==
    IF block_numbers = {} THEN <<>>
    ELSE LET b == CHOOSE b \in block_numbers : \A c \in block_numbers : b <= c
         IN  BlockLogs(for_prefix(db.logs, <<b>>), filter, 0)
             \o LogsOf(db, block_numbers \ {b}, filter)

get_logs(db, filter, start, end) ==
    LET with_topics ==
            IF filter.topics = NoTopics THEN start .. end
            ELSE (start .. end) \cap get_topics_bitmap(db, filter.topics, start, end)
        block_numbers ==
            IF filter.addresses = NoAddresses THEN with_topics
            ELSE with_topics \cap get_addresses_bitmap(db, filter.addresses, start, end)
    IN  LogsOf(db, block_numbers, filter)

(***************************************************************************)
(* read_receipts: the receipts of a block with their logs, and the fields  *)
(* derived from their place in the block.                                  *)
(***************************************************************************)
\* read_raw_receipts: the logs are attached by the transaction index of their key.
RawLogs(db, b, tx) ==
    LET chunks == walk(db.logs, <<b, 0>>, 1, {})
        of_tx == {i \in DOMAIN chunks : chunks[i].key[2] = tx}
    IN  IF of_tx = {} THEN <<>> ELSE chunks[CHOOSE i \in of_tx : TRUE].value

\* The number of logs of the transactions before tx.
RECURSIVE LogsBefore(_, _, _)
LogsBefore(db, b, tx) ==
    IF tx = 0 THEN 0 ELSE LogsBefore(db, b, tx - 1) + Len(RawLogs(db, b, tx - 1))

\* The receipts of block b, which has txn_count transactions; NullOpt stands for the exception
\* of a block whose receipts are not as many.
read_receipts(db, b, txn_count) ==
    LET cumulative == get_one(db.receipts, <<b>>)
        receipts ==
            [i \in DOMAIN cumulative |->
                [tx_index |-> i - 1,
                 gas_used |-> IF i = 1 THEN cumulative[i] ELSE cumulative[i] - cumulative[i - 1],
                 logs |-> LET raw == RawLogs(db, b, i - 1)
                          IN  [j \in DOMAIN raw |->
                                  [address |-> raw[j].address, topics |-> raw[j].topics,
                                   index |-> LogsBefore(db, b, i - 1) + j - 1,
                                   block_number |-> b, tx_index |-> i - 1]]]]
    IN  IF Len(cumulative) # txn_count THEN NullOpt ELSE Opt(receipts)
=============================================================================
