----------------------------- MODULE ChainReads -----------------------------
(***************************************************************************)
(* Blocks read by concurrent requests through the one block cache that all *)
(* contexts share (core/cached_chain.cpp, common/block_cache.hpp), while   *)
(* the node extends and reorganises the chain.                             *)
(*                                                                         *)
(* A request reads from the snapshot of its transaction.  Its reads change *)
(* nothing and may be taken together; get and insert of the cache are      *)
(* steps of their own, each under the cache's mutex, with other requests   *)
(* and commits of the node in between.                                     *)
(***************************************************************************)
EXTENDS ChainTables

CONSTANTS
    Readers,      \* requests under way
    AskedBlocks, AskedTransactions,   \* bound: the hashes that requests name
    Capacity,     \* of the cache, 1024 in the code
    MaxCommits    \* bound: commits of the node

ASSUME CapacityAssumption == Capacity \in Nat \ {0}

VARIABLES
    db,        \* the node's last commit
    commits,
    cache,     \* BlockCache: blocks, the most recently used first
    readers,   \* of each request: [pc, request, snapshot, hash, block]
    misread    \* history: blocks read from a snapshot in which they were not canonical

vars == <<db, commits, cache, readers, misread>>

NoBlock == <<>>
Idle == [pc |-> "idle", request |-> <<"none">>, snapshot |-> None, hash |-> None,
         block |-> NoBlock]

NoForkchoice == [finalized |-> None, head |-> None, safe |-> None]

Init ==
    /\ db = [head |-> Genesis, known |-> {Genesis}, executed |-> 0,
             forkchoice |-> NoForkchoice]
    /\ commits = 0 /\ cache = <<>> /\ misread = {}
    /\ readers = [r \in Readers |-> Idle]

(***************************************************************************)
(* The node (external).  A commit makes some block the head, with none,    *)
(* one or all of the hashes of a fork choice.  The head of a fork choice   *)
(* is executed; without one, the execution may be one block behind.        *)
(***************************************************************************)
Forkchoices(head) ==
    LET before == IF head = Genesis THEN Genesis ELSE parent_hash[head]
    IN  {NoForkchoice,
         [NoForkchoice EXCEPT !.head = head],
         [finalized |-> Genesis, head |-> head, safe |-> before]}

Commit ==
    /\ commits < MaxCommits
    /\ commits' = commits + 1
    /\ \E head \in Blocks, behind \in {0, 1} :
          \E forkchoice \in Forkchoices(head) :
             /\ behind <= IF forkchoice = NoForkchoice THEN number[head] ELSE 0
             /\ db' = [head |-> head,
                       known |-> db.known \cup Ancestors[head],
                       executed |-> number[head] - behind, forkchoice |-> forkchoice]
    /\ UNCHANGED <<cache, readers, misread>>

(***************************************************************************)
(* The cache: boost's lru_cache (external) under a mutex.                  *)
(***************************************************************************)
Cached(h) == {i \in DOMAIN cache : cache[i].hash = h}

Without(s, h) == SelectSeq(s, LAMBDA b : b.hash # h)

\* A hit becomes the most recently used.
cache_get(h) ==
    IF Cached(h) = {} THEN cache
    ELSE LET i == CHOOSE i \in Cached(h) : TRUE IN <<cache[i]>> \o Without(cache, h)

\* Faulty variant of cache_insert: a block that is there already is entered again.
CacheInsertAgain(block) ==
    <<block>> \o SubSeq(cache, 1, IF Len(cache) < Capacity THEN Len(cache) ELSE Capacity - 1)

\* A block that is there already stays as it is; a full cache loses the last.
cache_insert(block) ==
    IF Cached(block.hash) # {} THEN cache
    ELSE <<block>> \o SubSeq(cache, 1, IF Len(cache) < Capacity THEN Len(cache)
                                       ELSE Capacity - 1)

(***************************************************************************)
(* cached_chain.cpp                                                        *)
(***************************************************************************)
Requests ==
    {<<"number", number[h]>> : h \in Blocks} \cup {<<"hash", h>> : h \in AskedBlocks}
    \cup {<<"tag", tag>> : tag \in Tags} \cup {<<"transaction", t>> : t \in AskedTransactions}

\* A tag is the number it stands for in the snapshot.
ByNumber(snapshot, request) ==
    IF request[1] \in {"tag", "number"}
    THEN <<"number", get_block_number(snapshot, request)[1]>>
    ELSE request

\* The hash of the block that a request asks for, found in its snapshot: as given, or that of
\* the canonical block with a number, or with the number of a transaction.
Resolve(snapshot, request) ==
    LET n == IF request[1] = "number" THEN <<request[2]>>
             ELSE read_block_number_by_transaction_hash(snapshot, request[2])
    IN  IF request[1] = "hash" THEN <<request[2]>>
        ELSE IF n = Throw THEN Throw
        ELSE read_canonical_block_hash(snapshot, n[1])

\* An exception ends the request.  The fork choice is not read again.
read_block_by_number_or_hash(r) ==
    /\ readers[r].pc = "idle"
    /\ \E request \in {ByNumber(db, asked) : asked \in Requests} :
          LET found == Resolve(db, request)
          IN  readers' = [readers EXCEPT ![r] =
                  IF found = Throw THEN Idle
                  ELSE [pc |-> "get", request |-> request,
                        snapshot |-> [db EXCEPT !.forkchoice = NoForkchoice],
                        hash |-> found[1], block |-> NoBlock]]
    /\ UNCHANGED <<db, commits, cache, misread>>

GetCached(r) ==
    /\ readers[r].pc = "get"
    /\ LET h == readers[r].hash
       IN  /\ cache' = cache_get(h)
           /\ readers' = [readers EXCEPT ![r] =
                  IF Cached(h) = {} THEN [@ EXCEPT !.pc = "read"]
                  ELSE [@ EXCEPT !.pc = "done", !.block = <<cache'[1]>>]]
    /\ UNCHANGED <<db, commits, misread>>

\* A block asked for by its hash has its number looked up first.
ReadBlock(r) ==
    /\ readers[r].pc = "read"
    /\ LET h == readers[r].hash
           snapshot == readers[r].snapshot
           n == read_header_number(snapshot, h)
           block == IF n = Throw THEN Throw ELSE read_block(snapshot, h, n[1])
       IN  /\ readers' = [readers EXCEPT ![r] =
                  IF block = Throw THEN Idle
                  ELSE [@ EXCEPT !.pc = "insert", !.block = block]]
           /\ misread' = IF block # Throw /\ h \notin Chain(snapshot)
                         THEN misread \cup {h} ELSE misread
    /\ UNCHANGED <<db, commits, cache>>

\* Blocks without transactions are not kept.
InsertCached(r) ==
    /\ readers[r].pc = "insert"
    /\ LET block == readers[r].block[1]
       IN  cache' = IF Len(block.transactions) # 0 THEN cache_insert(block) ELSE cache
    /\ readers' = [readers EXCEPT ![r].pc = "done"]
    /\ UNCHANGED <<db, commits, misread>>

\* read_transaction_by_hash: where the transaction is in the block, if it is.
TransactionIndex(block, t) == {i \in DOMAIN block.transactions : block.transactions[i].hash = t}

\* A read that fails, and the answer: the transaction ends.
End(r) ==
    /\ readers[r].pc \in {"read", "done"}
    /\ readers' = [readers EXCEPT ![r] = Idle]
    /\ UNCHANGED <<db, commits, cache, misread>>

Work(r) == GetCached(r) \/ ReadBlock(r) \/ InsertCached(r) \/ End(r)

Next == Commit \/ \E r \in Readers : read_block_by_number_or_hash(r) \/ Work(r)

Spec == Init /\ [][Next]_vars

(***************************************************************************)
(* Properties                                                              *)
(***************************************************************************)
\* The cache holds at most Capacity blocks, each once though two requests may insert it, and
\* none that was read without its transactions.
CacheInOrder ==
    /\ Len(cache) <= Capacity
    /\ \A i \in DOMAIN cache :
          /\ cache[i].hash \in Blocks /\ Len(cache[i].transactions) > 0
          /\ \A j \in DOMAIN cache : cache[i].hash = cache[j].hash => i = j

\* The block has its own transactions, each with its own sender or none.
Own(block) ==
    /\ block.number = number[block.hash]
    /\ Len(block.transactions) = Len(transactions[block.hash])
    /\ \A i \in DOMAIN block.transactions :
          /\ block.transactions[i].hash = transactions[block.hash][i]
          /\ block.transactions[i].from \in {sender[transactions[block.hash][i]], None}

\* A request gets the block that its own snapshot names, whole and with the right senders,
\* even if another request put it in the cache before or after a reorganisation, and a
\* transaction that the index names is found in it, in its position; unless a request has read
\* that block while it was not canonical: read_body then takes the transactions of others.
AnswersOwnBlock ==
    \A r \in Readers :
        readers[r].pc = "done" =>
            LET block == readers[r].block[1]
                request == readers[r].request
            IN  /\ block.hash = readers[r].hash
                /\ request[1] # "hash" => block.hash \in Chain(readers[r].snapshot)
                /\ request[1] = "number" => block.number = request[2]
                /\ block.hash \notin misread => Own(block)
                /\ (request[1] = "transaction" /\ block.hash \notin misread) =>
                      /\ TransactionIndex(block, request[2]) # {}
                      /\ \A i \in TransactionIndex(block, request[2]) :
                            transactions[block.hash][i] = request[2]

\* No request is under way.  What a snapshot says does not depend on requests, and the node
\* commits without regard to them: these states show every commit.
Quiet == \A r \in Readers : readers[r] = Idle

\* What the tags say in every snapshot.  finalized, safe and latest are in this order, with no
\* fork choice or a whole one (with a head alone, finalized is the head: the search for the
\* absent key finds the next).  The latest state is read for the last executed block and for no
\* other canonical one, whichever way a request names it: the two tests of blocks.cpp, by the
\* execution stage and by the fork choice, agree.
TagsAgree ==
    Quiet =>
        /\ (db.forkchoice.head = None \/ db.forkchoice.finalized # None) =>
              LET n == [tag \in Tags |-> get_block_number(db, <<"tag", tag>>)[1]]
              IN  /\ n["earliest"] <= n["finalized"] /\ n["finalized"] <= n["safe"]
                  /\ n["safe"] <= n["latest"] /\ n["latest"] <= get_highest_block_number(db)
        /\ \A tag \in Tags :
              LET found == get_block_number(db, <<"tag", tag>>)
              IN  found[2] => found[1] = db.executed
        /\ \A h \in Chain(db) :
              /\ get_block_number(db, <<"number", number[h]>>)[2] <=> number[h] = db.executed
              /\ IsLatestNumber(db, number[h]) <=> is_latest_block_number(db, number[h])
              /\ IsLatestHash(db, h) <=> is_latest_block_number(db, number[h])
=============================================================================
