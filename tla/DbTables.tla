------------------------------ MODULE DbTables ------------------------------
(***************************************************************************)
(* Cursors over the tables of the node's database, and the readers built   *)
(* on them: TransactionDatabase and the two split cursors.                 *)
(*                                                                         *)
(* A key is a tuple of numbers, one for each part of the byte key (an      *)
(* address, a location, a block number), and is ordered as the bytes are.  *)
(* Every caller matches and splits keys at the borders of parts, so bits   *)
(* and bytes are counted in parts, and the mask of a partial byte, always  *)
(* 0xff, is left out.  A table is a set of entries; a cursor is the entry  *)
(* it stands on, or NoEntry past the end.                                  *)
(***************************************************************************)
EXTENDS Naturals, Sequences, FiniteSets

\* The order of byte strings: a proper prefix comes first.
Less(s, t) ==
    \E n \in 0 .. Len(s) :
        /\ n < Len(t)
        /\ \A i \in 1 .. n : s[i] = t[i]
        /\ n = Len(s) \/ (n < Len(s) /\ s[n + 1] < t[n + 1])

\* ByteView::substr(0, n), which stops at the end.
Prefix(s, n) == SubSeq(s, 1, IF n < Len(s) THEN n ELSE Len(s))

\* substr(n), for n up to the length.
Suffix(s, n) == SubSeq(s, n + 1, Len(s))

NoEntry == [key |-> <<>>, value |-> <<>>]

\* The order of the entries of a table: by key, then by value (dup-sort tables).
Before(e, f) ==
    Less(e.key, f.key) \/ (e.key = f.key /\ e.value # f.value /\ Less(e.value, f.value))

First(entries) ==
    IF entries = {} THEN NoEntry
    ELSE CHOOSE e \in entries : \A f \in entries \ {e} : Before(e, f)

(***************************************************************************)
(* The node's cursors (external): what the operations of Cursor and        *)
(* CursorDupSort return.                                                   *)
(***************************************************************************)
cursor_seek(table, key) == First({e \in table : ~Less(e.key, key)})

cursor_seek_exact(table, key) == First({e \in table : e.key = key})

cursor_next(table, at) ==
    IF at.key = <<>> THEN NoEntry ELSE First({e \in table : Before(at, e)})

cursor_seek_both(table, key, subkey) ==
    First({e \in table : e.key = key /\ ~Less(e.value, subkey)})

cursor_next_dup(table, at) == First({e \in table : e.key = at.key /\ Before(at, e)})

(***************************************************************************)
(* TransactionDatabase.  get returns the first entry from the key on, not  *)
(* the entry of the key: the caller compares.                              *)
(***************************************************************************)
get(table, key) == cursor_seek(table, key)

get_one(table, key) == cursor_seek_exact(table, key).value

\* std::nullopt, where a value may be empty.
NullOpt == [has |-> FALSE, value |-> <<>>]
Opt(v) == [has |-> TRUE, value |-> v]

\* Faulty variant of get_both_range: the lower bound is taken for a match.
GetBothRangeUnchecked(table, key, subkey) ==
    LET value == cursor_seek_both(table, key, subkey).value
    IN  IF value = <<>> THEN NullOpt ELSE Opt(Suffix(value, Len(subkey)))

get_both_range(table, key, subkey) ==
    LET value == cursor_seek_both(table, key, subkey).value
    IN  IF Prefix(value, Len(subkey)) # subkey THEN NullOpt
        ELSE Opt(Suffix(value, Len(subkey)))

\* walk: the entries from start_key on that share its first `fixed` parts, up to and with
\* the first of `stops`, those on which the walker returns false.
RECURSIVE WalkFrom(_, _, _, _, _)
WalkFrom(table, at, start_key, fixed, stops) ==
    IF \/ at.key = <<>>
       \/ Len(at.key) < fixed
       \/ Prefix(at.key, fixed) # Prefix(start_key, fixed)
    THEN <<>>
    ELSE IF at \in stops THEN <<at>>
    ELSE <<at>> \o WalkFrom(table, cursor_next(table, at), start_key, fixed, stops)

walk(table, start_key, fixed, stops) ==
    WalkFrom(table, cursor_seek(table, start_key), start_key, fixed, stops)

for_prefix(table, prefix) == walk(table, prefix, Len(prefix), {})

(***************************************************************************)
(* SplitCursor: the entries whose key begins as key_ does, cut in parts.   *)
(* `at` is where the inner cursor stands, which goes on past a mismatch.   *)
(***************************************************************************)
match_key(key, first_bytes) ==
    Len(key) > 0 /\ Prefix(key, Len(first_bytes)) = first_bytes

NoSplit == [key1 |-> <<>>, key2 |-> <<>>, key3 |-> <<>>, value |-> <<>>, at |-> NoEntry]

\* key2 and key3 begin after part2_start and part3_start parts; the caller cuts key1 where
\* key2 begins.
split_key_value(e, first_bytes, part2_start, part3_start) ==
    IF ~match_key(e.key, first_bytes) THEN [NoSplit EXCEPT !.at = e]
    ELSE [key1 |-> Prefix(e.key, part2_start),
          key2 |-> IF Len(e.key) > part2_start
                   THEN Prefix(Suffix(e.key, part2_start), part3_start - part2_start)
                   ELSE <<>>,
          key3 |-> IF Len(e.key) > part3_start THEN Suffix(e.key, part3_start) ELSE <<>>,
          value |-> e.value, at |-> e]

\* SplitCursorDupSort: the value begins with the second part of the key.
SplitDup(e, key, part1_end, value_offset) ==
    IF e.key # key \/ Len(e.value) < value_offset
    THEN [NoSplit EXCEPT !.at = e]
    ELSE [key1 |-> Prefix(key, part1_end), key2 |-> Prefix(e.value, value_offset),
          key3 |-> <<>>, value |-> Suffix(e.value, value_offset), at |-> e]
=============================================================================
