---------------------------- MODULE ChainTables ----------------------------
(***************************************************************************)
(* What one snapshot of the node's database says of the chain              *)
(* (core/rawdb/chain.cpp, core/blocks.cpp, stagedsync/stages.cpp).         *)
(*                                                                         *)
(* A snapshot is [head, known, executed, forkchoice]: the last canonical   *)
(* block, the blocks that are stored, the progress of the stages after the *)
(* bodies, and what the consensus client said last.  The tables are        *)
(* derived from it (external).  Transactions have numbers in the order of  *)
(* the canonical chain, with an unused number before and after those of a  *)
(* block.  A block that leaves the chain keeps its body, but not its       *)
(* transactions (cached_chain.cpp:32).                                     *)
(*                                                                         *)
(* Throw stands for an exception, where a value is missing.                *)
(***************************************************************************)
EXTENDS DbTables

CONSTANTS
    Blocks, Genesis,   \* block hashes
    parent_hash,       \* the parent of each block but the first
    transactions,      \* the transactions of each block, a sequence of hashes
    sender,            \* of each transaction
    None               \* no block, no sender

Throw == <<>>

\* A block and its ancestors.
Ancestors[h \in Blocks] == {h} \cup (IF h = Genesis THEN {} ELSE Ancestors[parent_hash[h]])

Chain(db) == Ancestors[db.head]

number[h \in Blocks] == IF h = Genesis THEN 0 ELSE number[parent_hash[h]] + 1

base_txn_id[h \in Blocks] ==
    IF h = Genesis THEN 0
    ELSE base_txn_id[parent_hash[h]] + Len(transactions[parent_hash[h]]) + 2

kCanonicalHashes(db) == {[key |-> <<number[h]>>, value |-> <<h>>] : h \in Chain(db)}

kHeaderNumbers(db) == {[key |-> <<h>>, value |-> <<number[h]>>] : h \in db.known}

kHeaders(db) == {[key |-> <<number[h], h>>, value |-> <<h>>] : h \in db.known}

kBlockBodies(db) ==
    {[key |-> <<number[h], h>>, value |-> <<base_txn_id[h], Len(transactions[h]) + 2>>] :
        h \in db.known}

kSenders(db) ==
    {[key |-> <<number[h], h>>,
      value |-> [i \in DOMAIN transactions[h] |-> sender[transactions[h][i]]]] :
        h \in {k \in db.known : number[k] <= db.executed}}

kEthTx(db) ==
    UNION {{[key |-> <<base_txn_id[h] + i>>, value |-> <<transactions[h][i]>>] :
               i \in DOMAIN transactions[h]} : h \in Chain(db)}

kTxLookup(db) ==
    UNION {{[key |-> <<transactions[h][i]>>, value |-> <<number[h]>>] :
               i \in DOMAIN transactions[h]} :
              h \in {k \in Chain(db) : number[k] <= db.executed}}

\* The keys of LastForkchoice in the order of their bytes.
kFinalizedBlockHash == <<1>>
kHeadBlockHash == <<2>>
kSafeBlockHash == <<3>>

kLastForkchoice(db) ==
    {e \in {[key |-> kFinalizedBlockHash, value |-> <<db.forkchoice.finalized>>],
            [key |-> kHeadBlockHash, value |-> <<db.forkchoice.head>>],
            [key |-> kSafeBlockHash, value |-> <<db.forkchoice.safe>>]} : e.value # <<None>>}

\* The stages, in the order of their names; the headers run ahead of the others.
kExecution == <<1>>
kHeadersStage == <<2>>

kSyncStageProgress(db) ==
    {[key |-> kExecution, value |-> <<db.executed>>],
     [key |-> kHeadersStage, value |-> <<number[db.head]>>]}

(***************************************************************************)
(* rawdb/chain.cpp                                                         *)
(***************************************************************************)
read_header_number(db, block_hash) == get_one(kHeaderNumbers(db), <<block_hash>>)

read_canonical_block_hash(db, block_number) == get_one(kCanonicalHashes(db), <<block_number>>)

read_block_number_by_transaction_hash(db, t) == get_one(kTxLookup(db), <<t>>)

read_header(db, block_hash, block_number) == get_one(kHeaders(db), <<block_number, block_hash>>)

read_senders(db, block_hash, block_number) == get_one(kSenders(db), <<block_number, block_hash>>)

\* Faulty variant of read_canonical_transactions: one transaction too many.
CanonicalTransactionsPast(db, base, txn_count) ==
    IF txn_count = 0 THEN <<>>
    ELSE LET from == {e \in kEthTx(db) : e.key[1] >= base}
             UpTo(e) == Cardinality({f \in from : f.key[1] <= e.key[1]})
             txns == walk(kEthTx(db), <<base>>, 0, {e \in from : UpTo(e) = txn_count + 1})
         IN  [i \in DOMAIN txns |-> txns[i].value[1]]

\* The walk has no prefix to keep to: it takes txn_count transactions from base on, whatever
\* their numbers are.
read_canonical_transactions(db, base, txn_count) ==
    IF txn_count = 0 THEN <<>>
    ELSE LET from == {e \in kEthTx(db) : e.key[1] >= base}
             UpTo(e) == Cardinality({f \in from : f.key[1] <= e.key[1]})
             txns == walk(kEthTx(db), <<base>>, 0, {e \in from : UpTo(e) = txn_count})
         IN  [i \in DOMAIN txns |-> txns[i].value[1]]

\* A transaction with its sender; without one, it is recovered from the signature later.
read_body(db, block_hash, block_number) ==
    LET stored_body == get_one(kBlockBodies(db), <<block_number, block_hash>>)
        txns == read_canonical_transactions(db, stored_body[1] + 1, stored_body[2] - 2)
        senders == read_senders(db, block_hash, block_number)
    IN  [i \in DOMAIN txns |->
            [hash |-> txns[i], from |-> IF Len(senders) = Len(txns) THEN senders[i] ELSE None]]

\* The block, or Throw if its header is missing.  Header and body are stored together.
read_block(db, block_hash, block_number) ==
    IF read_header(db, block_hash, block_number) = Throw THEN Throw
    ELSE <<[hash |-> block_hash, number |-> block_number,
            transactions |-> read_body(db, block_hash, block_number)]>>

(***************************************************************************)
(* blocks.cpp.  The reader's get is a search for the first key that is not *)
(* less: an absent key finds the entry of the next one.                    *)
(***************************************************************************)
get_sync_stage_progress(db, stage_key) ==
    LET value == get(kSyncStageProgress(db), stage_key).value
    IN  IF value = <<>> THEN 0 ELSE value[1]

get_latest_executed_block_number(db) == get_sync_stage_progress(db, kExecution)

get_highest_block_number(db) == get_sync_stage_progress(db, kHeadersStage)

\* The number of a header read by its hash.
HeaderNumberOf(db, block_hash) == read_header_number(db, block_hash)[1]

\* Faulty variant of get_latest_block_number: headers count before they are executed.
LatestHeaderNumber(db) ==
    LET head_block_hash_data == get(kLastForkchoice(db), kHeadBlockHash).value
    IN  IF head_block_hash_data # <<>> THEN HeaderNumberOf(db, head_block_hash_data[1])
        ELSE get_highest_block_number(db)

get_latest_block_number(db) ==
    LET head_block_hash_data == get(kLastForkchoice(db), kHeadBlockHash).value
    IN  IF head_block_hash_data # <<>> THEN HeaderNumberOf(db, head_block_hash_data[1])
        ELSE get_latest_executed_block_number(db)

get_forkchoice_finalized_block_number(db) ==
    LET data == get(kLastForkchoice(db), kFinalizedBlockHash).value
    IN  IF data = <<>> THEN 0 ELSE HeaderNumberOf(db, data[1])

get_forkchoice_safe_block_number(db) ==
    LET data == get(kLastForkchoice(db), kSafeBlockHash).value
    IN  IF data = <<>> THEN 0 ELSE HeaderNumberOf(db, data[1])

Tags == {"earliest", "latest", "pending", "finalized", "safe", "latestExecuted"}

is_latest_block_number(db, block_number) == get_latest_executed_block_number(db) = block_number

\* get_block_number with latest_required, for <<"tag", tag>> or <<"number", n>>: the number,
\* and whether the latest state may be read for it.
get_block_number(db, block_id) ==
    LET Checked(n) == <<n, is_latest_block_number(db, n)>>
        tag == block_id[2]
    IN  IF block_id[1] = "number" THEN Checked(block_id[2])
        ELSE CASE tag = "earliest" -> <<0, FALSE>>
               [] tag \in {"latest", "pending"} -> <<get_latest_block_number(db), TRUE>>
               [] tag = "finalized" -> Checked(get_forkchoice_finalized_block_number(db))
               [] tag = "safe" -> Checked(get_forkchoice_safe_block_number(db))
               [] tag = "latestExecuted" -> <<get_latest_executed_block_number(db), TRUE>>

\* is_latest_block_number of a block given by its number or its hash.
IsLatestNumber(db, n) == n = get_latest_block_number(db)
IsLatestHash(db, h) == read_header_number(db, h)[1] = get_latest_block_number(db)
=============================================================================
