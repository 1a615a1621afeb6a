---------------------------- MODULE StateReader ----------------------------
(***************************************************************************)
(* The state of an earlier block: StateReader reads one account or slot,   *)
(* AccountWalker and StorageWalker list them, AccountDumper pages through  *)
(* the accounts (debug_accountRange, debug_storageRangeAt).                *)
(*                                                                         *)
(* The node keeps the present state (db.plain), and for each block the     *)
(* values it overwrote (the change sets).  db.accountHistory and           *)
(* db.storageHistory say in which blocks a key was overwritten, in shards  *)
(* named by their last block.  The state before block n is therefore the   *)
(* value that the first change from n on overwrote, or the present one.    *)
(*                                                                         *)
(* An account is <<balance, incarnation, code hash>>, with code hash 0 for *)
(* kEmptyHash; <<>> is no account.                                         *)
(***************************************************************************)
EXTENDS DbTables

\* silkworm::db::bitmap::seek (external): the first block of the shard from n on.
bitmap_seek(bitmap, n) ==
    LET from == {b \in bitmap : b >= n}
    IN  IF from = {} THEN NullOpt
        ELSE Opt(CHOOSE b \in from : \A c \in from : b <= c)

(***************************************************************************)
(* StateReader                                                             *)
(***************************************************************************)
read_historical_account(db, a, n) ==
    LET kv_pair == get(db.accountHistory, <<a, n>>)
        change_block == bitmap_seek(kv_pair.value, n)
    IN  IF Prefix(kv_pair.key, 1) # <<a>> THEN NullOpt
        ELSE IF ~change_block.has THEN NullOpt
        ELSE get_both_range(db.accountChanges, <<change_block.value>>, <<a>>)

RestoredCodeHash(db, a, account) ==
    IF account[2] > 0 /\ account[3] = 0
    THEN LET code_hash == get_one(db.contractCode, <<a, account[2]>>)
         IN  IF Len(code_hash) = 1 THEN code_hash[1] ELSE 0
    ELSE account[3]

read_account(db, a, n) ==
    LET historical == read_historical_account(db, a, n)
        encoded == IF historical.has THEN historical.value ELSE get_one(db.plain, <<a>>)
    IN  IF encoded = <<>> THEN <<>>
        ELSE [encoded EXCEPT ![3] = RestoredCodeHash(db, a, encoded)]

read_historical_storage(db, a, inc, loc, n) ==
    LET kv_pair == get(db.storageHistory, <<a, loc, n>>)
        change_block == bitmap_seek(kv_pair.value, n)
    IN  IF Prefix(kv_pair.key, 2) # <<a, loc>> THEN NullOpt
        ELSE IF ~change_block.has THEN NullOpt
        ELSE get_both_range(db.storageChanges, <<change_block.value, a, inc>>, <<loc>>)

\* The value copied to the end of 32 zero bytes: no bytes are the value 0.
read_storage(db, a, inc, loc, n) ==
    LET historical == read_historical_storage(db, a, inc, loc, n)
        value == IF historical.has THEN historical
                 ELSE get_both_range(db.plain, <<a, inc>>, <<loc>>)
    IN  IF value.value = <<>> THEN 0 ELSE value.value[1]

\* kEmptyHash has no code; <<>> is std::nullopt.
read_code(db, code_hash) ==
    IF code_hash = 0 THEN <<>> ELSE get_one(db.code, <<code_hash>>)

(***************************************************************************)
(* AccountWalker.  The present accounts (ps) and the history shards (s)    *)
(* are merged by address.                                                  *)
(***************************************************************************)
\* next(cursor, len): storage entries, whose keys are longer, are skipped.
RECURSIVE SkipStorage(_, _)
SkipStorage(db, kv) ==
    IF Len(kv.key) > 1 THEN SkipStorage(db, cursor_next(db.plain, kv)) ELSE kv

NextAccount(db, kv) == SkipStorage(db, cursor_next(db.plain, kv))

SplitHistory(e) == split_key_value(e, <<>>, 1, 2)

\* seek(split_cursor, number): the first shard that reaches block n, of any address.
RECURSIVE SeekShard(_, _, _)
SeekShard(db, skv, n) ==
    IF skv.key2 = <<>> \/ skv.key2[1] >= n THEN skv
    ELSE SeekShard(db, SplitHistory(cursor_next(db.accountHistory, skv.at)), n)

\* Faulty variant of NextShard: shards that end before block n are not skipped.
RECURSIVE NextShardAnyBlock(_, _, _, _)
NextShardAnyBlock(db, skv, n, addr) ==
    LET then == SplitHistory(cursor_next(db.accountHistory, skv.at))
    IN  IF then.key1 = addr /\ addr # <<>> THEN NextShardAnyBlock(db, then, n, addr) ELSE then

\* next(split_cursor, number, block, addr): the first such shard of another address than addr.
RECURSIVE NextShard(_, _, _, _)
NextShard(db, skv, n, addr) ==
    LET then == SplitHistory(cursor_next(db.accountHistory, skv.at))
    IN  IF then.key1 = <<>> THEN NoSplit
        ELSE IF then.key1 = addr \/ then.key2[1] < n THEN NextShard(db, then, n, addr)
        ELSE then

\* dump_accounts' collector: out.next is the first address that found no room.
CollectAccount(out, k, v, max_result) ==
    IF max_result > 0 /\ Len(out.items) >= max_result
    THEN [out EXCEPT !.next = k, !.go_on = FALSE]
    ELSE [out EXCEPT !.items = Append(@, [key |-> k, value |-> v])]

\* One turn of the loop of walk_of_accounts.  Where only present accounts are left, parse()
\* gets no bytes and throws; where only shards are left, the collector gets empty keys.
RECURSIVE AccountTurns(_, _, _, _, _, _)
AccountTurns(db, n, ps, s, out, max_result) ==
    LET less == Less(ps.key, s.key1)
        same == ps.key = s.key1
        found == bitmap_seek(s.value, n)
        data == cursor_seek_both(db.accountChanges, <<found.value>>, s.key1).value
        collected ==
            IF less THEN CollectAccount(out, ps.key, ps.value, max_result)
            ELSE IF s.key1 = <<>> THEN [out EXCEPT !.thrown = TRUE, !.go_on = FALSE]
            ELSE IF found.has
                 THEN IF Len(data) > 1
                      THEN CollectAccount(out, s.key1, Suffix(data, 1), max_result)
                      ELSE out
            ELSE IF same THEN CollectAccount(out, ps.key, ps.value, max_result)
            ELSE out
    IN  IF ps.key = <<>> /\ s.key1 = <<>> THEN out
        ELSE IF ~collected.go_on THEN collected
        ELSE AccountTurns(db, n,
                          IF less \/ same THEN NextAccount(db, ps) ELSE ps,
                          IF less THEN s ELSE NextShard(db, s, n, s.key1),
                          collected, max_result)

walk_of_accounts(db, n, start, max_result) ==
    LET ps == SkipStorage(db, cursor_seek(db.plain, <<start>>))
        s == SeekShard(db, SplitHistory(cursor_seek(db.accountHistory, <<start>>)), n)
        out == [items |-> <<>>, next |-> <<>>, go_on |-> TRUE, thrown |-> FALSE]
    IN  IF ps.key = <<>> THEN out ELSE AccountTurns(db, n, ps, s, out, max_result)

(***************************************************************************)
(* AccountDumper, for the accounts after block n.  load_accounts restores  *)
(* the code hash, but looks the code up by the hash as it was stored.      *)
(***************************************************************************)
dump_accounts(db, n, start, max_result) ==
    LET out == walk_of_accounts(db, n + 1, start, max_result)
        Loaded(kv) ==
            [address |-> kv.key[1], balance |-> kv.value[1], incarnation |-> kv.value[2],
             code_hash |-> RestoredCodeHash(db, kv.key[1], kv.value),
             code |-> read_code(db, kv.value[3])]
    IN  [accounts |-> [i \in DOMAIN out.items |-> Loaded(out.items[i])],
         next |-> out.next, thrown |-> out.thrown]
=============================================================================
