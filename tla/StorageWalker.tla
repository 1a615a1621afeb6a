--------------------------- MODULE StorageWalker ---------------------------
(***************************************************************************)
(* StorageWalker: the slots of one account as they were before block n,    *)
(* for debug_storageRangeAt.  ps is the split cursor over the present      *)
(* slots, sh the one over the history shards, h_loc the location of sh.    *)
(***************************************************************************)
EXTENDS StateReader

SplitSlots(a, inc, e) == SplitDup(e, <<a, inc>>, 1, 1)

SplitShards(a, e) == split_key_value(e, <<a>>, 1, 2)

\* next(cursor, number)
RECURSIVE NextReaching(_, _, _, _)
NextReaching(db, a, sh, n) ==
    LET then == SplitShards(a, cursor_next(db.storageHistory, sh.at))
    IN  IF then.key2 = <<>> \/ then.key3[1] >= n THEN then
        ELSE NextReaching(db, a, then, n)

\* next(cursor, number, block, loc): the first shard of another location that reaches n.
RECURSIVE NextLocation(_, _, _, _, _)
NextLocation(db, a, sh, n, loc) ==
    LET then == SplitShards(a, cursor_next(db.storageHistory, sh.at))
    IN  IF then.key2 = <<>> THEN NoSplit
        ELSE IF then.key2 = loc \/ then.key3[1] < n THEN NextLocation(db, a, then, n, loc)
        ELSE then

\* The walker of storage_range_at: a set ordered by location, in which the first value of a
\* location stays, and one item more than was asked for.  The address of an exhausted ps is
\* the zero address, which ends the walk.
CollectSlot(out, addr, loc, data, max_result) ==
    IF addr = <<>> THEN [out EXCEPT !.go_on = FALSE]
    ELSE IF data = <<>> \/ \E i \in DOMAIN out.items : out.items[i].loc = loc[1] THEN out
    ELSE [items |-> Append(out.items, [loc |-> loc[1], value |-> data[1]]),
          go_on |-> Len(out.items) + 1 <= max_result]

\* One turn of the loop of walk_of_storages.  A historical value is collected under the
\* location of ps, as the code does it.
RECURSIVE SlotTurns(_, _, _, _, _, _, _, _, _)
SlotTurns(db, n, a, inc, ps, sh, h_loc, out, max_result) ==
    LET same == ps.key1 = sh.key1 /\ ps.key2 = h_loc
        less == Less(ps.key1, sh.key1) \/ (ps.key1 = sh.key1 /\ Less(ps.key2, h_loc))
        found == IF sh.key1 = <<>> THEN NullOpt ELSE bitmap_seek(sh.value, n)
        data == cursor_seek_both(db.storageChanges, <<found.value, a, inc>>, h_loc).value
        collected ==
            IF less THEN CollectSlot(out, ps.key1, ps.key2, ps.value, max_result)
            ELSE IF found.has
                 THEN IF Len(data) > 1
                      THEN CollectSlot(out, ps.key1, ps.key2, Suffix(data, 1), max_result)
                      ELSE out
            ELSE IF same THEN CollectSlot(out, ps.key1, ps.key2, ps.value, max_result)
            ELSE out
        then == IF less THEN sh ELSE NextLocation(db, a, sh, n, h_loc)
    IN  IF ps.key1 = <<>> /\ sh.key1 = <<>> THEN out
        ELSE IF ~collected.go_on THEN collected
        ELSE SlotTurns(db, n, a, inc,
                       IF less \/ same
                       THEN SplitSlots(a, inc, cursor_next_dup(db.plain, ps.at))
                       ELSE ps,
                       then, IF less THEN h_loc ELSE then.key2, collected, max_result)

walk_of_storages(db, n, a, loc, inc, max_result) ==
    LET ps == SplitSlots(a, inc, cursor_seek_both(db.plain, <<a, inc>>, <<loc>>))
        first == SplitShards(a, cursor_seek(db.storageHistory, <<a, loc>>))
        sh == IF first.key3 # <<>> /\ first.key3[1] < n
              THEN NextReaching(db, a, first, n) ELSE first
    IN  SlotTurns(db, n, a, inc, ps, sh, first.key2,
                  [items |-> <<>>, go_on |-> TRUE], max_result)

\* max_result comes as a uint64_t, is narrowed to an int16_t and compared with a size: what is
\* negative then is more than any number of slots.
NoLimit == 2^30

Narrowed(max_result) ==
    IF max_result % 2^16 < 2^15 THEN max_result % 2^16 ELSE NoLimit


\* The slots before block n + 1.  The incarnation is that of the present account.
storage_range_at(db, n, a, start, max_result) ==
    walk_of_storages(db, n + 1, a, start, get_one(db.plain, <<a>>)[2],
                     Narrowed(max_result)).items

\* debug_storageRangeAt: a page of max_result slots and the location of the next page.  The
\* handler itself compares with the max_result it was given.
StoragePage(db, n, a, start, max_result) ==
    LET items == storage_range_at(db, n - 1, a, start, max_result)
    IN  [storage |-> Prefix(items, max_result),
         nextKey |-> IF Len(items) > max_result THEN items[Len(items)].loc ELSE 0]

(***************************************************************************)
(* get_modified_accounts: the addresses in the change sets of the blocks   *)
(* from..to, by a walk that stops at the first entry after them.           *)
(***************************************************************************)
get_modified_accounts(db, from, to) ==
    LET after == {e \in db.accountChanges : e.key[1] > to}
        walked == walk(db.accountChanges, <<from>>, 0, after)
    IN  IF from > to THEN {}
        ELSE {walked[i].value[1] : i \in {j \in DOMAIN walked : walked[j].key[1] <= to}}
=============================================================================
