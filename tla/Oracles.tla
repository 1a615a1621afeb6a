------------------------------ MODULE Oracles ------------------------------
(***************************************************************************)
(* Answers that are found by searching.                                    *)
(*                                                                         *)
(*   "timestamp"  erigon_getBlockByTimestamp: binary_search over headers.  *)
(*   "estimate"   EstimateGasOracle: bisection over the gas limit, with    *)
(*                one execution of the transaction at each step.           *)
(*   "price"      GasPriceOracle: the cheap transactions of the last       *)
(*                blocks, and a percentile of them.                        *)
(*                                                                         *)
(* A request waits between the steps for a header, an execution or a       *)
(* block.  The two bisections share lo and hi: i and j of binary_search.   *)
(***************************************************************************)
EXTENDS Integers, Sequences, FiniteSets, Functions

CONSTANTS
    MaxHead, MaxTime,          \* bounds: the number of the last block, timestamps
    kTxGas, kGasCap, MaxGas,   \* the gas of a plain transfer, the cap, and a bound on inputs
    Word,                      \* an int64_t holds numbers modulo Word
    Prices, MaxTxs,            \* the prices and the number of transactions of a block
    kDefaultMinPrice, kDefaultMaxPrice, kSamples, kMaxSamples, kPercentile

ASSUME BlocksAssumption == MaxHead \in Nat /\ MaxTime \in Nat
ASSUME GasAssumption ==
    /\ kTxGas \in Nat \ {0} /\ kGasCap \in Nat /\ MaxGas \in Nat /\ Word \in Nat \ {0}
ASSUME PriceAssumption ==
    /\ Prices \subseteq Nat /\ MaxTxs \in Nat
    /\ kDefaultMinPrice \in Nat /\ kDefaultMaxPrice \in Nat
    /\ kDefaultMinPrice <= kDefaultMaxPrice
    /\ kSamples \in Nat \ {0} /\ kMaxSamples \in Nat \ {0} /\ kPercentile \in 0 .. 100

kDefaultPrice == 0

VARIABLES
    kind,        \* the request
    pc,          \* "start", "search", "done", "error"
    head, time,  \* the number of the current header, the timestamp of each header
    timestamp,   \* what is asked for
    lo, hi,      \* the interval that is left
    cap,         \* the first value of hi
    succeeded,   \* the gas limits with which an execution succeeded
    failed,      \* and with which it did not
    block,       \* the block to be sampled next
    tx_prices,   \* the samples
    result

chain == <<head, time, timestamp>>
gas == <<cap, succeeded, failed>>
price == <<block, tx_prices>>
vars == <<kind, pc, chain, lo, hi, gas, price, result>>

\* Headers get later from block to block.
Times == {t \in [0 .. head -> 0 .. MaxTime] : \A b \in 1 .. head : t[b - 1] < t[b]}

\* The blocks matter where they are searched.
Init ==
    /\ kind \in {"timestamp", "estimate", "price"}
    /\ pc = "start"
    /\ head \in 0 .. MaxHead
    /\ time \in Times
    /\ timestamp \in 0 .. MaxTime
    /\ kind # "timestamp" => time = [b \in 0 .. head |-> b] /\ timestamp = 0
    /\ kind = "estimate" => head = 0
    /\ lo = 0 /\ hi = 0 /\ cap = 0 /\ result = 0
    /\ succeeded = {} /\ failed = {}
    /\ block = head /\ tx_prices = <<>>

\* A read that fails ends the request with an error reply.
Throw ==
    /\ pc \in {"start", "search"}
    /\ pc' = "error"
    /\ UNCHANGED <<kind, chain, lo, hi, gas, price, result>>

Return(r) == pc' = "done" /\ result' = r

(***************************************************************************)
(* erigon_getBlockByTimestamp                                              *)
(***************************************************************************)
StartTimestamp ==
    /\ kind = "timestamp" /\ pc = "start"
    /\ \/ /\ time[head] <= timestamp
          /\ Return(head)
          /\ UNCHANGED <<lo, hi>>
       \/ /\ time[head] > timestamp
          /\ time[0] >= timestamp
          /\ Return(0)
          /\ UNCHANGED <<lo, hi>>
       \/ /\ time[head] > timestamp
          /\ time[0] < timestamp
          /\ pc' = "search" /\ lo' = 0 /\ hi' = head
          /\ UNCHANGED result
    /\ UNCHANGED <<kind, chain, gas, price>>

\* Faulty variant of binary_search: the upper half is cut off with m in it.
BinarySearchSkips ==
    /\ kind = "timestamp" /\ pc = "search" /\ lo < hi
    /\ LET m == lo + (hi - lo) \div 2
       IN  IF time[m] >= timestamp
           THEN hi' = (IF m > lo THEN m - 1 ELSE m) /\ UNCHANGED lo
           ELSE lo' = m + 1 /\ UNCHANGED hi
    /\ UNCHANGED <<kind, pc, chain, gas, price, result>>

\* Faulty variant of binary_search: the lower half is kept with m in it.
BinarySearchStays ==
    /\ kind = "timestamp" /\ pc = "search" /\ lo < hi
    /\ LET m == lo + (hi - lo) \div 2
       IN  IF time[m] >= timestamp
           THEN hi' = m /\ UNCHANGED lo
           ELSE lo' = m /\ UNCHANGED hi
    /\ UNCHANGED <<kind, pc, chain, gas, price, result>>

\* One turn of the loop of binary_search; the predicate reads the header m.
binary_search ==
    /\ kind = "timestamp" /\ pc = "search" /\ lo < hi
    /\ LET m == lo + (hi - lo) \div 2
       IN  IF time[m] >= timestamp
           THEN hi' = m /\ UNCHANGED lo
           ELSE lo' = m + 1 /\ UNCHANGED hi
    /\ UNCHANGED <<kind, pc, chain, gas, price, result>>

MatchTimestamp ==
    /\ kind = "timestamp" /\ pc = "search" /\ lo >= hi
    /\ Return(IF time[lo] > timestamp THEN lo - 1 ELSE lo)
    /\ UNCHANGED <<kind, chain, lo, hi, gas, price>>

(***************************************************************************)
(* EstimateGasOracle                                                       *)
(***************************************************************************)
\* The gas of the call if it is enough for a transfer, or else the limit of the block; then
\* what the balance pays for, if the call has a price; and not more than the cap.  An account
\* that does not exist has any balance (the code reads an empty optional).
estimate_gas ==
    /\ kind = "estimate" /\ pc = "start"
    /\ \E call_gas, gas_limit, gas_price, balance, value \in 0 .. MaxGas :
          LET asked == IF call_gas >= kTxGas THEN call_gas ELSE gas_limit
              allowance == ((balance - value) \div gas_price) % Word
              funded == IF gas_price # 0 /\ asked > allowance THEN allowance ELSE asked
              capped == IF funded > kGasCap THEN kGasCap ELSE funded
          IN  IF gas_price # 0 /\ value > balance
              THEN pc' = "error" /\ UNCHANGED <<lo, hi, cap>>
              ELSE pc' = "search" /\ lo' = kTxGas - 1 /\ hi' = capped /\ cap' = capped
    /\ UNCHANGED <<kind, chain, succeeded, failed, price, result>>

\* try_execution with gas limit g: a refusal before the execution and a lack of balance count
\* as failures, any other error ends the request.
Executes(g) == succeeded' = succeeded \cup {g} /\ UNCHANGED failed
Fails(g) == failed' = failed \cup {g} /\ UNCHANGED succeeded

\* Faulty variant of Bisect: the limit after the one that failed is taken to have failed.
BisectPastMid ==
    /\ kind = "estimate" /\ pc = "search" /\ lo + 1 < hi
    /\ LET mid == (hi + lo) \div 2
       IN  \/ Fails(mid) /\ lo' = mid + 1 /\ UNCHANGED hi
           \/ Executes(mid) /\ hi' = mid /\ UNCHANGED lo
    /\ UNCHANGED <<kind, pc, chain, cap, price, result>>

Bisect ==
    /\ kind = "estimate" /\ pc = "search" /\ lo + 1 < hi
    /\ LET mid == (hi + lo) \div 2
       IN  \/ Fails(mid) /\ lo' = mid /\ UNCHANGED hi
           \/ Executes(mid) /\ hi' = mid /\ UNCHANGED lo
    /\ UNCHANGED <<kind, pc, chain, cap, price, result>>

\* A hi that no execution was tried with is tried now.
EndBisection ==
    /\ kind = "estimate" /\ pc = "search" /\ lo + 1 >= hi
    /\ \/ hi # cap /\ Return(hi) /\ UNCHANGED <<succeeded, failed>>
       \/ hi = cap /\ Executes(hi) /\ Return(hi)
       \/ hi = cap /\ Fails(hi) /\ pc' = "error" /\ UNCHANGED result
    /\ UNCHANGED <<kind, chain, lo, hi, cap, price>>

(***************************************************************************)
(* GasPriceOracle.  A block is a sequence of transactions, [price,         *)
(* coinbase], coinbase for those that the miner of the block sent.         *)
(***************************************************************************)
Blocks == UNION {[1 .. k -> [price : Prices, coinbase : BOOLEAN]] : k \in 0 .. MaxTxs}

\* std::sort of the numbers f[i]: the one at position n has fewer than n below it, and with
\* its equals it fills the positions up to n.
Sorted(f) ==
    [n \in 1 .. Cardinality(DOMAIN f) |->
        CHOOSE v \in Range(f) :
            /\ Cardinality({i \in DOMAIN f : f[i] < v}) < n
            /\ Cardinality({i \in DOMAIN f : f[i] <= v}) >= n]

Cheapest(f, limit) ==
    LET size == Cardinality(DOMAIN f)
    IN  SubSeq(Sorted(f), 1, IF size < limit THEN size ELSE limit)

\* The priority fees that count, the kSamples lowest of them.
BlockPrices(txs) ==
    LET counted == {i \in DOMAIN txs : txs[i].price >= kDefaultMinPrice /\ ~txs[i].coinbase}
    IN  Cheapest([i \in counted |-> txs[i].price], kSamples)

\* Faulty variant of load_block_prices: the fees of all transactions count.
LoadAllPrices ==
    /\ kind = "price" /\ pc \in {"start", "search"}
    /\ Len(tx_prices) < kMaxSamples /\ block > 0
    /\ \E txs \in Blocks :
          tx_prices' = tx_prices \o Cheapest([i \in DOMAIN txs |-> txs[i].price], kSamples)
    /\ block' = block - 1 /\ pc' = "search"
    /\ UNCHANGED <<kind, chain, lo, hi, gas, result>>

load_block_prices ==
    /\ kind = "price" /\ pc \in {"start", "search"}
    /\ Len(tx_prices) < kMaxSamples /\ block > 0
    /\ \E txs \in Blocks : tx_prices' = tx_prices \o BlockPrices(txs)
    /\ block' = block - 1 /\ pc' = "search"
    /\ UNCHANGED <<kind, chain, lo, hi, gas, result>>

suggested_price ==
    /\ kind = "price" /\ pc \in {"start", "search"}
    /\ ~(Len(tx_prices) < kMaxSamples /\ block > 0)
    /\ LET position == ((Len(tx_prices) - 1) * kPercentile) \div 100
           picked == IF tx_prices = <<>> THEN kDefaultPrice
                     ELSE Sorted(tx_prices)[position + 1]
       IN  Return(IF picked > kDefaultMaxPrice THEN kDefaultMaxPrice ELSE picked)
    /\ UNCHANGED <<kind, chain, lo, hi, gas, price>>

\* Reads and executions end.  No failure is owed.
Work ==
    \/ StartTimestamp \/ binary_search \/ MatchTimestamp
    \/ estimate_gas \/ Bisect \/ EndBisection
    \/ load_block_prices \/ suggested_price

Next == Work \/ Throw

Spec == Init /\ [][Next]_vars /\ WF_vars(Work)

(***************************************************************************)
(* Properties                                                              *)
(***************************************************************************)
\* erigon_getBlockByTimestamp answers with the last block that is not later than the
\* timestamp, or with block 0 if all are later.
TimestampFound ==
    (kind = "timestamp" /\ pc = "done") =>
        /\ result = 0 \/ time[result] <= timestamp
        /\ result = head \/ time[result + 1] > timestamp

\* What the comment on the search says (erigon_api.cpp:78): the answer is the lowest block
\* whose timestamp is greater or equal, if there is one.  The step back after the search makes
\* it fail for a timestamp between those of two blocks.
LowestAtOrAfter ==
    (kind = "timestamp" /\ pc = "done" /\ time[head] >= timestamp) =>
        /\ time[result] >= timestamp
        /\ \A b \in 0 .. head : b < result => time[b] < timestamp

\* An estimate is a gas limit with which an execution succeeded, whatever the executor did
\* with the other limits, and it is least: with one unit of gas less the execution failed, or
\* the transaction would get less than a plain transfer costs.
EstimateExact ==
    (kind = "estimate" /\ pc = "done") =>
        /\ result \in succeeded
        /\ result <= kTxGas \/ result - 1 \in failed

\* The suggested price is the default if no transaction counts in any block, and otherwise
\* between the least price that counts and the maximum, with at most kPercentile of the
\* samples below it; blocks are read only as long as samples are missing.
PriceFromSamples ==
    (kind = "price" /\ pc = "done") =>
        /\ Len(tx_prices) < kMaxSamples + kSamples
        /\ tx_prices = <<>> => result = kDefaultPrice /\ block = 0
        /\ tx_prices # <<>> =>
              /\ result >= kDefaultMinPrice /\ result <= kDefaultMaxPrice
              /\ \A i \in DOMAIN tx_prices : tx_prices[i] >= kDefaultMinPrice
              /\ LET below == {i \in DOMAIN tx_prices : tx_prices[i] < result}
                 IN  Cardinality(below) * 100 <= (Len(tx_prices) - 1) * kPercentile

\* Every search ends: each turn makes the interval smaller, or takes a block.
SearchesEnd == <>(pc \in {"done", "error"})
=============================================================================
