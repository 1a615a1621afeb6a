---------------------------- MODULE StateHistory ----------------------------
(***************************************************************************)
(* A node that executes blocks and keeps the tables that StateReader, the  *)
(* walkers and the log search read.  `past` is what the tables stand for:  *)
(* the state before the first block and after each block, and what each    *)
(* block did.  The node is external: its tables are modelled from how the  *)
(* code reads them.                                                        *)
(***************************************************************************)
EXTENDS StorageWalker, LogSearch

CONSTANTS
    Addresses, Locations, Values,   \* sets of positive numbers
    MaxBlocks,      \* how many blocks are executed
    MaxTxs,         \* the transactions of a block
    MaxChainTxs,    \* the transactions of all blocks
    ShardSize,      \* the block numbers of a full shard
    Filters,        \* the log filters asked for
    MaxPage         \* the largest page asked for

VARIABLES
    past,    \* past[n + 1] is the state before block n
    db       \* the tables

vars == <<past, db>>

\* The key of the shard that still grows: the largest block number.
LastShard == 1000

None == <<>>

Slots == Addresses \X (1 .. MaxBlocks + 1) \X Locations

\* The hash of the code that the account a got with its incarnation; the code is its hash + 1.
CodeHash(a, inc) == 100 * a + inc

(***************************************************************************)
(* The transactions, and what a block makes of the state.  A contract that *)
(* is destroyed leaves its slots behind, under its incarnation; a later    *)
(* one at the same address has a greater incarnation.                      *)
(***************************************************************************)
Transactions ==
    [kind : {"credit", "deploy", "destroy"}, a : Addresses]
        \cup [kind : {"store"}, a : Addresses, loc : Locations, v : Values \cup {0}]

Allowed(st, t) ==
    LET account == st.acct[t.a]
        inc == IF account = None THEN 0 ELSE account[2]
    IN  CASE t.kind = "credit" -> account = None \/ account[1] = 1
          [] t.kind = "deploy" -> inc = 0
          [] t.kind = "destroy" -> inc > 0
          [] t.kind = "store" -> inc > 0 /\ st.slot[<<t.a, inc, t.loc>>] # t.v

Apply(st, t) ==
    LET account == st.acct[t.a]
        inc == st.last[t.a] + 1
        balance == IF account = None THEN 1 ELSE account[1]
    IN  CASE t.kind = "credit" ->
               [st EXCEPT !.acct[t.a] = IF account = None THEN <<1, 0, 0>>
                                        ELSE <<2, account[2], account[3]>>]
          [] t.kind = "deploy" ->
               [st EXCEPT !.acct[t.a] = <<balance, inc, CodeHash(t.a, inc)>>,
                          !.last[t.a] = inc]
          [] t.kind = "destroy" -> [st EXCEPT !.acct[t.a] = None]
          [] t.kind = "store" -> [st EXCEPT !.slot[<<t.a, account[2], t.loc>>] = t.v]

\* A store emits a log with its location and its value as topics.
TxLogs(t) ==
    IF t.kind = "store" THEN <<[address |-> t.a, topics |-> <<t.loc, t.v>>]>> ELSE <<>>

(***************************************************************************)
(* The tables after a block number n with transactions txs.                *)
(***************************************************************************)
\* A set of block numbers cut in shards: [key, value], the key after `prefix`.
Shards(prefix, blocks) ==
    LET Place(b) == Cardinality({c \in blocks : c < b})
        last == IF blocks = {} THEN 0 ELSE (Cardinality(blocks) - 1) \div ShardSize
        Chunk(k) == {b \in blocks : Place(b) \div ShardSize = k}
        Key(k) == IF k = last THEN LastShard
                  ELSE CHOOSE b \in Chunk(k) : \A c \in Chunk(k) : c <= b
    IN  IF blocks = {} THEN {}
        ELSE {[key |-> Append(prefix, Key(k)), value |-> Chunk(k)] : k \in 0 .. last}

\* The block numbers that a table has for a prefix.
Listed(table, prefix) ==
    UNION {e.value : e \in {f \in table : Prefix(f.key, Len(prefix)) = prefix}}

\* The table with block n added for each of the prefixes.
Indexed(table, prefixes, n) ==
    {e \in table : Prefix(e.key, Len(e.key) - 1) \notin prefixes}
        \cup UNION {Shards(p, Listed(table, p) \cup {n}) : p \in prefixes}

\* An account in a change set has no code hash.
Stored(account) == IF account = None THEN <<>> ELSE <<account[1], account[2], 0>>

Plain(st) ==
    {[key |-> <<a>>, value |-> st.acct[a]] : a \in {b \in Addresses : st.acct[b] # None}}
        \cup {[key |-> <<s[1], s[2]>>, value |-> <<s[3], st.slot[s]>>] :
                s \in {r \in Slots : st.slot[r] # 0}}

AfterBlock(old, st, txs, n) ==
    LET accts == {a \in Addresses : st.acct[a] # old.acct[a]}
        slots == {s \in Slots : st.slot[s] # old.slot[s]}
        logs == {i \in DOMAIN txs : TxLogs(txs[i]) # <<>>}
    IN  [plain |-> Plain(st),
         contractCode |-> {[key |-> <<a, i>>, value |-> <<CodeHash(a, i)>>] :
                             a \in Addresses, i \in 1 .. (MaxBlocks + 1)},
         code |-> {[key |-> <<CodeHash(a, i)>>, value |-> <<CodeHash(a, i) + 1>>] :
                             a \in Addresses, i \in 1 .. (MaxBlocks + 1)},
         accountChanges |-> db.accountChanges \cup
             {[key |-> <<n>>, value |-> <<a>> \o Stored(old.acct[a])] : a \in accts},
         storageChanges |-> db.storageChanges \cup
             {[key |-> <<n, s[1], s[2]>>,
               value |-> IF old.slot[s] = 0 THEN <<s[3]>> ELSE <<s[3], old.slot[s]>>] :
                 s \in slots},
         accountHistory |-> Indexed(db.accountHistory, {<<a>> : a \in accts}, n),
         storageHistory |-> Indexed(db.storageHistory, {<<s[1], s[3]>> : s \in slots}, n),
         logs |-> db.logs \cup {[key |-> <<n, i - 1>>, value |-> TxLogs(txs[i])] : i \in logs},
         logTopics |-> Indexed(db.logTopics,
             UNION {{<<txs[i].loc>>, <<txs[i].v>>} : i \in logs}, n),
         logAddresses |-> Indexed(db.logAddresses, {<<txs[i].a>> : i \in logs}, n),
         receipts |-> db.receipts \cup
             {[key |-> <<n>>, value |-> [i \in DOMAIN txs |-> 2 * i]]}]

NoState == [acct |-> [a \in Addresses |-> None], slot |-> [s \in Slots |-> 0],
            last |-> [a \in Addresses |-> 0], txs |-> <<>>]

NoTables ==
    [t \in {"plain", "contractCode", "code", "accountChanges", "storageChanges",
            "accountHistory", "storageHistory", "logs", "logTopics", "logAddresses",
            "receipts"} |-> {}]

Init == past = <<NoState>> /\ db = NoTables

RECURSIVE Runs(_, _)
Runs(st, k) ==
    {[st |-> st, txs |-> <<>>]} \cup
    IF k = 0 THEN {}
    ELSE UNION {{[st |-> r.st, txs |-> <<t>> \o r.txs] : r \in Runs(Apply(st, t), k - 1)} :
                  t \in {u \in Transactions : Allowed(st, u)}}

\* The number of the block to come; block 0 sets up the first accounts.
Height == Len(past) - 1

\* The transactions of the blocks so far.
Executed == Cardinality(UNION {{i} \X DOMAIN past[i].txs : i \in DOMAIN past})

ExecuteBlock ==
    /\ Height < MaxBlocks
    /\ \E r \in Runs(past[Len(past)], MaxTxs) :
          /\ r.txs # <<>> /\ Executed + Len(r.txs) <= MaxChainTxs
          /\ past' = Append(past, [r.st EXCEPT !.txs = r.txs])
          /\ db' = AfterBlock(past[Len(past)], r.st, r.txs, Height)

Next == ExecuteBlock

Spec == Init /\ [][Next]_vars

(***************************************************************************)
(* Properties                                                              *)
(***************************************************************************)
\* What the history says of the state before any block, whatever was destroyed, created again
\* or overwritten since, and wherever the borders of the shards lie.  StateReader gives the
\* account with balance, incarnation and code hash.  A slot, read as the handlers do with the
\* incarnation the account had at that block, has the value it had then, also if a later
\* incarnation overwrote the same location.  debug_getModifiedAccountsByNumber names exactly
\* the addresses that some block of the range changed.
HistoricalState ==
    /\ \A n \in 0 .. Height, a \in Addresses :
          LET account == read_account(db, a, n)
          IN  /\ account = past[n + 1].acct[a]
              /\ (account # None /\ account[2] > 0) =>
                    \A loc \in Locations :
                       read_storage(db, a, account[2], loc, n)
                           = past[n + 1].slot[<<a, account[2], loc>>]
    /\ \A from, to \in 0 .. Height - 1 :
          get_modified_accounts(db, from, to) =
              {a \in Addresses : \E n \in from .. to : past[n + 1].acct[a] # past[n + 2].acct[a]}

RECURSIVE Ascending(_)
Ascending(numbers) ==
    IF numbers = {} THEN <<>>
    ELSE LET m == CHOOSE m \in numbers : \A k \in numbers : m <= k
         IN  <<m>> \o Ascending(numbers \ {m})

\* The last address from start on that was ever used is in use.  Otherwise walk_of_accounts
\* runs out of present accounts before it runs out of shards, and collects empty keys.
LastAddressStays(start) ==
    LET used == {e.key[1] : e \in db.accountHistory}
        from == {a \in used : a >= start}
    IN  \A a \in from : (\A b \in from : b <= a) => get_one(db.plain, <<a>>) # <<>>

\* debug_accountRange: a page has the accounts after block n from the start address on, with
\* the balances and code hashes they had then, and names the address the next page begins
\* with: no account is lost or repeated between two pages.
AccountPages ==
    \A n \in 0 .. Height - 1, start \in Addresses, max_result \in 1 .. MaxPage :
        LastAddressStays(start) =>
            LET then == past[n + 2].acct
                expected == Ascending({a \in Addresses : a >= start /\ then[a] # None})
                dump == dump_accounts(db, n, start, max_result)
            IN  /\ ~dump.thrown
                /\ Len(dump.accounts) = Len(Prefix(expected, max_result))
                /\ \A i \in DOMAIN dump.accounts :
                      LET d == dump.accounts[i]
                      IN  /\ d.address = expected[i]
                          /\ <<d.balance, d.incarnation, d.code_hash>> = then[d.address]
                /\ dump.next = IF Len(expected) > max_result
                               THEN <<expected[max_result + 1]>> ELSE <<>>

\* The account had its present incarnation before block n, and every location from start on
\* that was ever written is set now.  Otherwise walk_of_storages reports the old value of a
\* location that was cleared under the name of the next one.
SlotsStay(a, n, start) ==
    LET now == past[Len(past)]
    IN  /\ now.acct[a] # None /\ now.acct[a][2] > 0
        /\ past[n + 1].acct[a] # None /\ past[n + 1].acct[a][2] = now.acct[a][2]
        /\ \A e \in db.storageHistory :
              (e.key[1] = a /\ e.key[2] >= start) => now.slot[<<a, now.acct[a][2], e.key[2]>>] # 0

\* The sizes asked for, up to where 16 bits end: those below 2^15 keep their value, from there
\* to 2^16 they are no limit to the walk, and from 2^16 on they begin again at 0.
PageSizes == 0 .. MaxPage \cup {2^15, 2^16 - 1} \cup {2^16 + i : i \in 0 .. MaxPage}


\* The logs of block n as they were emitted, with their places in the block.
RECURSIVE Emitted(_, _, _, _)
Emitted(n, txs, i, log_index) ==
    IF i > Len(txs) THEN <<>>
    ELSE LET logs == TxLogs(txs[i])
         IN  [j \in DOMAIN logs |->
                [address |-> logs[j].address, topics |-> logs[j].topics,
                 index |-> log_index + j - 1, block_number |-> n, tx_index |-> i - 1]]
             \o Emitted(n, txs, i + 1, log_index + Len(logs))

RECURSIVE EmittedIn(_, _)
EmittedIn(from, to) ==
    IF from > to THEN <<>> ELSE Emitted(from, past[from + 2].txs, 1, 0) \o EmittedIn(from + 1, to)

\* A filter of wildcards only names no block, and finds nothing.
OnlyWildcards(filter) ==
    filter.topics # NoTopics /\ \A i \in DOMAIN filter.topics : filter.topics[i] = {}

\* eth_getLogs finds every log of the range that the filter matches, in order and with its
\* place, though the indexes are read shard by shard and only name candidate blocks; and a log
\* has the same place in its block if it comes with the receipts of the block, where other
\* code numbers the logs.
LogsFound ==
    /\ \A from, to \in 0 .. Height - 1 :
          from <= to =>
              LET emitted == EmittedIn(from, to)
              IN  \A filter \in Filters :
                     ~OnlyWildcards(filter) =>
                         get_logs(db, filter, from, to) = filter_logs(emitted, filter)
    /\ \A n \in 0 .. Height - 1 :
          LET receipts == read_receipts(db, n, Len(past[n + 2].txs))
              RECURSIVE All(_)
              All(i) == IF i = 0 THEN <<>> ELSE All(i - 1) \o receipts.value[i].logs
          IN  receipts.has /\ All(Len(receipts.value)) = EmittedIn(n, n)
=============================================================================
