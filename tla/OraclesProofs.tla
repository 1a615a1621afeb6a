--------------------------- MODULE OraclesProofs ---------------------------
(***************************************************************************)
(* The two bisections of Oracles are right for every chain, every gas      *)
(* limit and every executor, and the suggested price for all blocks.       *)
(***************************************************************************)
EXTENDS Oracles, TLAPS, FiniteSetTheorems

\* Time for the larger leaves.
USE SMTT(30), ZenonT(60)

Chain ==
    /\ head \in Nat /\ timestamp \in Nat
    /\ time \in [0 .. head -> Nat]
    /\ \A b \in 1 .. head : time[b - 1] < time[b]

Numbers ==
    /\ pc \in {"start", "search", "done", "error"}
    /\ lo \in Nat /\ hi \in Nat /\ cap \in Nat
    /\ kind # "price" => result \in Nat
    /\ block \in 0 .. head

\* The first header that is not before the timestamp is in lo .. hi.
HeaderBetween ==
    (kind = "timestamp" /\ pc = "search") =>
        /\ lo <= hi /\ hi <= head
        /\ time[0] < timestamp
        /\ lo = 0 \/ time[lo - 1] < timestamp
        /\ time[hi] >= timestamp

\* The execution fails with lo, or lo is below a transfer; it succeeds with hi, or hi is the
\* cap and has not been tried.
LimitBetween ==
    (kind = "estimate" /\ pc = "search") =>
        /\ hi <= kGasCap /\ hi <= cap
        /\ hi = cap \/ hi \in succeeded
        /\ lo = kTxGas - 1 \/ (lo \in failed /\ lo < hi)

Bounds ==
    /\ kind = "timestamp" => (lo <= head /\ hi <= head /\ result <= head)
    /\ kind = "estimate" => (hi <= kGasCap /\ hi <= cap)

SearchInv ==
    /\ Chain /\ Numbers /\ Bounds
    /\ HeaderBetween /\ TimestampFound
    /\ LimitBetween /\ EstimateExact

\* The midpoints that the two loops compute lie in the interval.
LEMMA Midpoint ==
    ASSUME NEW l \in Nat, NEW h \in Nat, l < h
    PROVE  /\ l + (h - l) \div 2 \in Nat
           /\ l <= l + (h - l) \div 2 /\ l + (h - l) \div 2 < h
           /\ (h + l) \div 2 \in Nat
           /\ l <= (h + l) \div 2 /\ (h + l) \div 2 < h
           /\ l + 1 < h => l < (h + l) \div 2
  BY Z3

\* What an int64_t holds is not negative here: the allowance is compared as unsigned.
LEMMA Wrapped == ASSUME NEW i \in Int PROVE i % Word \in Nat
  BY GasAssumption, Z3

\* All searches begin in order.
LEMMA InitInv == Init => SearchInv
<1> SUFFICES ASSUME Init PROVE SearchInv
  OBVIOUS
<1>1. Chain
  BY BlocksAssumption DEF Init, Chain, Times
<1>2. Numbers
  BY <1>1 DEF Init, Numbers, Chain
<1>3. Bounds
  BY <1>1, GasAssumption DEF Init, Bounds, Chain
<1>4. HeaderBetween /\ TimestampFound /\ LimitBetween /\ EstimateExact
  BY DEF Init, HeaderBetween, TimestampFound, LimitBetween, EstimateExact
<1> QED
  BY <1>1, <1>2, <1>3, <1>4 DEF SearchInv

\* The steps of a search by timestamp keep the invariant.
LEMMA TimestampSteps ==
    ASSUME SearchInv, StartTimestamp \/ binary_search \/ MatchTimestamp
    PROVE  SearchInv'
<1> USE DEF SearchInv
<1>0. Chain' /\ kind = "timestamp" /\ kind' = kind
  BY DEF Chain, StartTimestamp, binary_search, MatchTimestamp, chain
<1>1. CASE StartTimestamp
  <2>1. Numbers' /\ Bounds'
    BY <1>0, <1>1 DEF StartTimestamp, Return, chain, gas, price, Numbers, Bounds, Chain
  <2>2. HeaderBetween'
    BY <1>0, <1>1 DEF StartTimestamp, Return, chain, HeaderBetween, Chain
  <2>3. TimestampFound'
    BY <1>0, <1>1 DEF StartTimestamp, Return, chain, TimestampFound, Chain, Numbers
  <2> QED
    BY <1>0, <2>1, <2>2, <2>3 DEF LimitBetween, EstimateExact
<1>2. CASE binary_search
  <2> DEFINE m == lo + (hi - lo) \div 2
  <2>1. m \in Nat /\ lo <= m /\ m < hi
    BY <1>2, Midpoint DEF binary_search, Numbers
  <2> HIDE DEF m
  <2>2. CASE time[m] >= timestamp
    <3>1. hi' = m /\ lo' = lo /\ pc' = "search" /\ result' = result
      BY <1>2, <2>2 DEF binary_search, m
    <3>2. UNCHANGED <<chain, cap, block>>
      BY <1>2 DEF binary_search, gas, price
    <3> QED
      BY <1>0, <1>2, <2>1, <2>2, <3>1, <3>2
      DEF binary_search, chain, Numbers, Bounds, Chain, HeaderBetween, TimestampFound,
          LimitBetween, EstimateExact
  <2>3. CASE ~(time[m] >= timestamp)
    <3>1. lo' = m + 1 /\ hi' = hi /\ pc' = "search" /\ result' = result
      BY <1>2, <2>3 DEF binary_search, m
    <3>2. UNCHANGED <<chain, cap, block>>
      BY <1>2 DEF binary_search, gas, price
    <3>3. time[m] < timestamp
      <4>1. hi \in Nat /\ hi <= head /\ head \in Nat
        BY <1>0, <1>2 DEF binary_search, HeaderBetween, Chain, Numbers
      <4>2. m \in 0 .. head
        BY <2>1, <4>1
      <4>3. time[m] \in Nat /\ timestamp \in Nat
        BY <4>2 DEF Chain
      <4> QED
        BY <2>3, <4>3
    <3>4. HeaderBetween'
      BY <1>0, <1>2, <2>1, <3>1, <3>2, <3>3
      DEF binary_search, chain, Numbers, Chain, HeaderBetween
    <3> QED
      BY <1>0, <1>2, <2>1, <3>1, <3>2, <3>4
      DEF binary_search, chain, Numbers, Bounds, Chain, HeaderBetween, TimestampFound,
          LimitBetween, EstimateExact
  <2> QED
    BY <2>2, <2>3
<1>3. CASE MatchTimestamp
  <2>1. lo = hi /\ lo \in 0 .. head
    BY <1>0, <1>3 DEF MatchTimestamp, HeaderBetween, Numbers, Chain
  <2>2. time[lo] > timestamp => lo > 0
    BY <1>0, <1>3, <2>1 DEF MatchTimestamp, HeaderBetween, Chain
  <2>3. Numbers' /\ Bounds'
    BY <1>0, <1>3, <2>1, <2>2
    DEF MatchTimestamp, Return, chain, gas, price, Numbers, Bounds, Chain
  <2>4. TimestampFound'
    BY <1>0, <1>3, <2>1, <2>2
    DEF MatchTimestamp, Return, chain, TimestampFound, Chain, Numbers, HeaderBetween
  <2> QED
    BY <1>0, <1>3, <2>3, <2>4
    DEF MatchTimestamp, Return, HeaderBetween, LimitBetween, EstimateExact
<1> QED
  BY <1>1, <1>2, <1>3

\* The steps of an estimate keep the invariant.
LEMMA EstimateSteps ==
    ASSUME SearchInv, estimate_gas \/ Bisect \/ EndBisection
    PROVE  SearchInv'
<1> USE DEF SearchInv
<1>0. Chain' /\ kind = "estimate" /\ kind' = kind /\ head' = head
  BY DEF Chain, estimate_gas, Bisect, EndBisection, chain
<1>1. CASE estimate_gas
  <2>1. CASE pc' = "error" /\ UNCHANGED <<lo, hi, cap>>
    BY <1>0, <1>1, <2>1
    DEF estimate_gas, price, Numbers, Bounds, Chain, HeaderBetween, TimestampFound,
        LimitBetween, EstimateExact
  <2>2. ASSUME NEW call_gas \in 0 .. MaxGas, NEW gas_limit \in 0 .. MaxGas,
               NEW gas_price \in 0 .. MaxGas, NEW balance \in 0 .. MaxGas,
               NEW value \in 0 .. MaxGas,
               ~(gas_price # 0 /\ value > balance)
        PROVE  LET asked == IF call_gas >= kTxGas THEN call_gas ELSE gas_limit
                   allowance == ((balance - value) \div gas_price) % Word
                   funded == IF gas_price # 0 /\ asked > allowance THEN allowance ELSE asked
                   capped == IF funded > kGasCap THEN kGasCap ELSE funded
               IN  capped \in Nat /\ capped <= kGasCap
    <3> DEFINE allowance == ((balance - value) \div gas_price) % Word
    <3>1. gas_price # 0 => allowance \in Nat
      BY Wrapped, GasAssumption
    <3> HIDE DEF allowance
    <3> QED
      BY <3>1, GasAssumption DEF allowance
  <2>3. CASE /\ pc' = "search" /\ lo' = kTxGas - 1 /\ hi' = cap'
             /\ cap' \in Nat /\ cap' <= kGasCap
    BY <1>0, <1>1, <2>3, GasAssumption
    DEF estimate_gas, price, Numbers, Bounds, Chain, HeaderBetween, TimestampFound,
        LimitBetween, EstimateExact
  <2> QED
    BY <1>1, <2>1, <2>2, <2>3 DEF estimate_gas
<1>2. CASE Bisect
  <2> DEFINE mid == (hi + lo) \div 2
  <2>1. mid \in Nat /\ lo < mid /\ mid < hi
    BY <1>2, Midpoint DEF Bisect, Numbers
  <2> HIDE DEF mid
  <2>2. pc' = pc /\ pc = "search" /\ cap' = cap /\ block' = block /\ result' = result
    BY <1>2 DEF Bisect, price
  <2>3. CASE Fails(mid) /\ lo' = mid /\ UNCHANGED hi
    BY <1>0, <2>1, <2>2, <2>3, GasAssumption
    DEF Fails, Numbers, Bounds, Chain, HeaderBetween, TimestampFound, LimitBetween,
        EstimateExact
  <2>4. CASE Executes(mid) /\ hi' = mid /\ UNCHANGED lo
    BY <1>0, <2>1, <2>2, <2>4, GasAssumption
    DEF Executes, Numbers, Bounds, Chain, HeaderBetween, TimestampFound, LimitBetween,
        EstimateExact
  <2> QED
    BY <1>2, <2>3, <2>4 DEF Bisect, mid
<1>3. CASE EndBisection
  <2>1. pc = "search" /\ lo + 1 >= hi /\ UNCHANGED <<lo, hi, cap, block>>
    BY <1>3 DEF EndBisection, price
  <2>2. hi <= kTxGas \/ hi - 1 \in failed
    BY <1>0, <2>1, GasAssumption DEF LimitBetween, Numbers
  <2>3. CASE hi # cap /\ Return(hi) /\ UNCHANGED <<succeeded, failed>>
    BY <1>0, <2>1, <2>2, <2>3
    DEF Return, Numbers, Bounds, Chain, HeaderBetween, TimestampFound, LimitBetween,
        EstimateExact
  <2>4. CASE hi = cap /\ Executes(hi) /\ Return(hi)
    BY <1>0, <2>1, <2>2, <2>4
    DEF Executes, Return, Numbers, Bounds, Chain, HeaderBetween, TimestampFound,
        LimitBetween, EstimateExact
  <2>5. CASE hi = cap /\ Fails(hi) /\ pc' = "error" /\ UNCHANGED result
    BY <1>0, <2>1, <2>5
    DEF Numbers, Bounds, Chain, HeaderBetween, TimestampFound, LimitBetween,
        EstimateExact
  <2> QED
    BY <1>3, <2>3, <2>4, <2>5 DEF EndBisection
<1> QED
  BY <1>1, <1>2, <1>3

\* Every step keeps the invariant.
LEMMA StepInv == SearchInv /\ [Next]_vars => SearchInv'
<1> SUFFICES ASSUME SearchInv, [Next]_vars PROVE SearchInv'
  OBVIOUS
<1>1. CASE StartTimestamp \/ binary_search \/ MatchTimestamp
  BY <1>1, TimestampSteps
<1>2. CASE estimate_gas \/ Bisect \/ EndBisection
  BY <1>2, EstimateSteps
<1>3. CASE load_block_prices \/ suggested_price
  <2>1. CASE load_block_prices
    BY <2>1
    DEF load_block_prices, chain, gas, SearchInv, Numbers, Bounds, Chain, HeaderBetween,
        TimestampFound, LimitBetween, EstimateExact
  <2>2. CASE suggested_price
    <3>1. kind = "price" /\ pc' = "done" /\ UNCHANGED <<kind, chain, lo, hi, gas, price>>
      BY <2>2 DEF suggested_price, Return
    <3> QED
      BY <3>1
      DEF chain, gas, price, SearchInv, Numbers, Bounds, Chain, HeaderBetween,
          TimestampFound, LimitBetween, EstimateExact
  <2> QED
    BY <1>3, <2>1, <2>2
<1>4. CASE Throw
  BY <1>4
  DEF Throw, chain, gas, price, SearchInv, Numbers, Bounds, Chain, HeaderBetween,
      TimestampFound, LimitBetween, EstimateExact
<1>5. CASE UNCHANGED vars
  BY <1>5
  DEF vars, chain, gas, price, SearchInv, Numbers, Bounds, Chain, HeaderBetween,
      TimestampFound, LimitBetween, EstimateExact
<1> QED
  BY <1>1, <1>2, <1>3, <1>4, <1>5 DEF Next, Work

\* The loop invariant of the searches holds in every state.
LEMMA Invariance == Spec => []SearchInv
  BY InitInv, StepInv, PTL DEF Spec

\* getBlockByTimestamp finds the last header that is not later than the timestamp, on every
\* chain with increasing times.
THEOREM Timestamps == Spec => []TimestampFound
  BY Invariance, PTL DEF SearchInv

\* The gas limit that eth_estimateGas returns was executed and succeeded, whatever the
\* executions of the other limits did; one less was executed and failed, or is below the gas
\* of a transfer.
THEOREM Estimates == Spec => []EstimateExact
  BY Invariance, PTL DEF SearchInv

(***************************************************************************)
(* The suggested price                                                     *)
(***************************************************************************)
\* The places of f that hold less than v, and at most v.
Below(f, v) == {i \in DOMAIN f : f[i] < v}
UpTo(f, v) == {i \in DOMAIN f : f[i] <= v}

\* Numbers have a least one among them.
LEMMA LeastNumber ==
    ASSUME NEW T, T \subseteq Nat, T # {}
    PROVE  \E m \in T : \A k \in T : m <= k
<1>1. IsWellFoundedOn(OpToRel(<, Nat), Nat)
  BY NatLessThanWellFounded
<1>2. PICK m \in T : \A k \in T : ~(<<k, m>> \in OpToRel(<, Nat))
  BY <1>1, WFMin, ZenonT(60)
<1>3. ASSUME NEW k \in T PROVE m <= k
  <2>1. k \in Nat /\ m \in Nat
    OBVIOUS
  <2>2. ~(k < m)
    BY <1>2, <2>1 DEF OpToRel
  <2> QED
    BY <2>1, <2>2
<1> QED
  BY <1>3

\* Counting the elements below a number, or up to it.
LEMMA Counts ==
    ASSUME NEW D, IsFiniteSet(D), NEW f \in [D -> Nat], NEW v
    PROVE  /\ IsFiniteSet(Below(f, v)) /\ Below(f, v) \subseteq D
           /\ IsFiniteSet(UpTo(f, v)) /\ UpTo(f, v) \subseteq D
           /\ Cardinality(Below(f, v)) \in Nat /\ Cardinality(UpTo(f, v)) \in Nat
           /\ Cardinality(D) \in Nat
<1>1. Below(f, v) \in SUBSET D /\ UpTo(f, v) \in SUBSET D
  BY DEF Below, UpTo
<1>2. IsFiniteSet(Below(f, v)) /\ IsFiniteSet(UpTo(f, v))
  BY <1>1, FS_Subset
<1> QED
  BY <1>1, <1>2, FS_CardinalityType

\* Among finitely many numbers there is one for every position of their order.
LEMMA EveryPosition ==
    ASSUME NEW D, IsFiniteSet(D), NEW f \in [D -> Nat], NEW n \in 1 .. Cardinality(D)
    PROVE  \E i \in D : Cardinality(Below(f, f[i])) < n /\ Cardinality(UpTo(f, f[i])) >= n
<1> DEFINE B(i) == Cardinality(Below(f, f[i]))
           U(i) == Cardinality(UpTo(f, f[i]))
           Low == {i \in D : B(i) < n}
<1>1. Cardinality(D) \in Nat /\ n \in Nat /\ n > 0 /\ n <= Cardinality(D)
  BY FS_CardinalityType
<1>2. \A i \in D : B(i) \in Nat /\ U(i) \in Nat /\ f[i] \in Nat
  BY Counts
<1>3. \A S \in SUBSET D : S # {} => \E i \in S : \A j \in S : f[i] <= f[j]
  <2> SUFFICES ASSUME NEW S \in SUBSET D, S # {}
               PROVE  \E i \in S : \A j \in S : f[i] <= f[j]
    OBVIOUS
  <2> DEFINE T == {f[i] : i \in S}
  <2>1. T \subseteq Nat /\ T # {}
    OBVIOUS
  <2>2. PICK m \in T : \A k \in T : m <= k
    BY <2>1, LeastNumber
  <2> QED
    BY <2>2, ZenonT(60)
<1>4. Low # {}
  <2>1. D # {}
    BY <1>1, FS_EmptySet
  <2>2. PICK i \in D : \A j \in D : f[i] <= f[j]
    BY <1>3, <2>1
  <2>3. ASSUME NEW j \in D PROVE ~(f[j] < f[i])
    BY <1>2, <2>2
  <2>4. Below(f, f[i]) = {}
    BY <2>3, ZenonT(60) DEF Below
  <2>5. B(i) = 0
    BY <2>4, FS_EmptySet
  <2> QED
    BY <1>1, <2>5
<1>5. PICK i \in Low : \A j \in Low : B(j) <= B(i)
  <2> DEFINE T == {n - B(i) : i \in Low}
  <2>1. T \subseteq Nat /\ T # {}
    <3>1. \A i \in Low : n - B(i) \in Nat
      BY <1>1, <1>2
    <3> QED
      BY <1>4, <3>1
  <2>2. PICK m \in T : \A k \in T : m <= k
    BY <2>1, LeastNumber
  <2>3. PICK i \in Low : m = n - B(i)
    OBVIOUS
  <2>4. ASSUME NEW j \in Low PROVE B(j) <= B(i)
    <3>1. n - B(i) <= n - B(j)
      BY <2>2, <2>3
    <3>2. B(i) \in Nat /\ B(j) \in Nat
      BY <1>2
    <3> QED
      BY <1>1, <3>1, <3>2
  <2> QED
    BY <2>4
<1>6. B(i) < n /\ i \in D
  OBVIOUS
<1>7. CASE U(i) < n
  <2>1. UpTo(f, f[i]) # D
    BY <1>1, <1>2, <1>6, <1>7
  <2> DEFINE Rest == {j \in D : f[i] < f[j]}
  <2>2. \A j \in D : j \in UpTo(f, f[i]) <=> ~(f[i] < f[j])
    BY <1>2, <1>6 DEF UpTo
  <2>3. Rest # {}
    <3>1. UpTo(f, f[i]) \subseteq D
      BY Counts
    <3> QED
      BY <2>1, <2>2, <3>1
  <2>4. PICK j \in Rest : \A k \in Rest : f[j] <= f[k]
    BY <1>3, <2>3
  <2>5. j \in D /\ f[i] < f[j]
    OBVIOUS
  <2>6. ASSUME NEW k \in D PROVE f[k] < f[j] <=> f[k] <= f[i]
    <3>1. f[i] \in Nat /\ f[j] \in Nat /\ f[k] \in Nat
      BY <1>2, <1>6, <2>5
    <3>2. CASE f[i] < f[k]
      <4>1. f[j] <= f[k]
        BY <2>4, <3>2
      <4> QED
        BY <3>1, <3>2, <4>1
    <3>3. CASE ~(f[i] < f[k])
      BY <3>1, <2>5, <3>3
    <3> QED
      BY <3>2, <3>3
  <2>7. Below(f, f[j]) = UpTo(f, f[i])
    BY <2>6, ZenonT(60) DEF Below, UpTo
  <2>8. j \in Low /\ B(j) = U(i)
    BY <1>7, <2>5, <2>7
  <2>9. U(i) <= B(i)
    BY <1>5, <2>8
  <2>10. Below(f, f[i]) \subseteq UpTo(f, f[i]) /\ i \in UpTo(f, f[i]) /\ i \notin Below(f, f[i])
    BY <1>2, <1>6 DEF Below, UpTo
  <2>11. IsFiniteSet(UpTo(f, f[i]))
    BY Counts
  <2>12. B(i) <= U(i) /\ B(i) # U(i)
    BY <2>10, <2>11, FS_Subset
  <2> QED
    BY <1>2, <1>6, <2>9, <2>12
<1>8. CASE ~(U(i) < n)
  BY <1>1, <1>2, <1>6, <1>8
<1> QED
  BY <1>7, <1>8

\* What std::sort puts at a position.
LEMMA SortedAt ==
    ASSUME NEW D, IsFiniteSet(D), NEW f \in [D -> Nat], NEW n \in 1 .. Cardinality(D)
    PROVE  /\ \E i \in D : Sorted(f)[n] = f[i]
           /\ Cardinality(Below(f, Sorted(f)[n])) < n
<1> DEFINE P(v) == Cardinality(Below(f, v)) < n /\ Cardinality(UpTo(f, v)) >= n
<1>1. DOMAIN f = D
  OBVIOUS
<1>2. Sorted(f)[n] = CHOOSE v \in Range(f) : P(v)
  BY <1>1 DEF Sorted, Below, UpTo
<1>3. \E v \in Range(f) : P(v)
  BY <1>1, EveryPosition, ZenonT(60) DEF Range
<1> HIDE DEF P
<1>4. Sorted(f)[n] \in Range(f) /\ P(Sorted(f)[n])
  BY <1>2, <1>3, ZenonT(60)
<1> QED
  BY <1>1, <1>4 DEF Range, P

\* A block adds at most kSamples prices, all of them prices that count.
LEMMA BlockSamples ==
    ASSUME NEW txs \in Blocks
    PROVE  /\ BlockPrices(txs) \in Seq(Nat)
           /\ Len(BlockPrices(txs)) <= kSamples
           /\ \A n \in DOMAIN BlockPrices(txs) : BlockPrices(txs)[n] >= kDefaultMinPrice
<1> DEFINE D == {i \in DOMAIN txs : txs[i].price >= kDefaultMinPrice /\ ~txs[i].coinbase}
           f == [i \in D |-> txs[i].price]
           size == Cardinality(D)
           shown == IF size < kSamples THEN size ELSE kSamples
<1>1. PICK k \in 0 .. MaxTxs : txs \in [1 .. k -> [price : Prices, coinbase : BOOLEAN]]
  BY DEF Blocks
<1>2. IsFiniteSet(1 .. k)
  BY <1>1, FS_Interval, PriceAssumption
<1>3. IsFiniteSet(D) /\ size \in Nat
  <2>1. D \in SUBSET (1 .. k)
    BY <1>1
  <2>2. IsFiniteSet(D)
    BY <1>2, <2>1, FS_Subset
  <2> QED
    BY <2>2, FS_CardinalityType
<1>4. f \in [D -> Nat] /\ \A i \in D : f[i] >= kDefaultMinPrice
  BY <1>1, PriceAssumption
<1>5. DOMAIN f = D /\ BlockPrices(txs) = SubSeq(Sorted(f), 1, shown)
  BY DEF BlockPrices, Cheapest
<1>6. shown \in Nat /\ shown <= size /\ shown <= kSamples
  BY <1>3, PriceAssumption
<1> HIDE DEF D, f, size, shown
<1>7. ASSUME NEW n \in 1 .. size
      PROVE  Sorted(f)[n] \in Nat /\ Sorted(f)[n] >= kDefaultMinPrice
  <2>1. PICK i \in D : Sorted(f)[n] = f[i]
    BY <1>3, <1>4, SortedAt, ZenonT(60) DEF size
  <2> QED
    BY <1>4, <2>1
<1>8. Sorted(f) \in Seq(Nat) /\ Len(Sorted(f)) = size
  <2>1. Sorted(f) \in [1 .. size -> Nat]
    BY <1>5, <1>7 DEF Sorted, size
  <2> QED
    BY <1>3, <2>1
<1>9. /\ SubSeq(Sorted(f), 1, shown) \in Seq(Nat)
      /\ Len(SubSeq(Sorted(f), 1, shown)) = shown
      /\ \A n \in 1 .. shown : SubSeq(Sorted(f), 1, shown)[n] = Sorted(f)[n]
  BY <1>6, <1>8, <1>3
<1>10. DOMAIN BlockPrices(txs) = 1 .. shown
  BY <1>5, <1>9
<1>11. ASSUME NEW n \in 1 .. shown PROVE BlockPrices(txs)[n] >= kDefaultMinPrice
  <2>1. n \in 1 .. size
    BY <1>3, <1>6
  <2> QED
    BY <1>5, <1>7, <1>9, <2>1
<1> QED
  BY <1>5, <1>6, <1>9, <1>10, <1>11

\* The position of the percentile is one of the samples.
LEMMA Position ==
    ASSUME NEW k \in Nat \ {0}
    PROVE  /\ ((k - 1) * kPercentile) \div 100 \in Nat
           /\ ((k - 1) * kPercentile) \div 100 < k
           /\ (((k - 1) * kPercentile) \div 100) * 100 <= (k - 1) * kPercentile
<1>1. (k - 1) * kPercentile \in Nat /\ (k - 1) * kPercentile <= (k - 1) * 100
  BY PriceAssumption
<1> DEFINE x == (k - 1) * kPercentile
<1> HIDE DEF x
<1>2. x \in Nat /\ x <= (k - 1) * 100
  BY <1>1 DEF x
<1>3. x \div 100 \in Nat /\ x \div 100 < k /\ (x \div 100) * 100 <= x
  BY <1>2
<1> QED
  BY <1>3 DEF x

\* The samples are prices that count, and fewer than a block beyond the number wanted.
SamplesCount ==
    /\ tx_prices \in Seq(Nat)
    /\ Len(tx_prices) < kMaxSamples + kSamples
    /\ \A i \in DOMAIN tx_prices : tx_prices[i] >= kDefaultMinPrice

PriceInv == SamplesCount /\ PriceFromSamples

\* The price that is returned is within the limits, and at its place among the samples.
LEMMA PricePicked ==
    ASSUME SamplesCount, block \in Nat, suggested_price
    PROVE  PriceFromSamples'
<1>1. /\ tx_prices' = tx_prices /\ block' = block
      /\ ~(Len(tx_prices) < kMaxSamples /\ block > 0)
  BY DEF suggested_price, price
<1>2. CASE tx_prices = <<>>
  <2>1. result' = kDefaultPrice
    BY <1>2, PriceAssumption DEF suggested_price, Return, kDefaultPrice
  <2>2. block = 0
    BY <1>1, <1>2, PriceAssumption
  <2> QED
    BY <1>1, <1>2, <2>1, <2>2 DEF PriceFromSamples, SamplesCount
<1>3. CASE tx_prices # <<>>
  <2> DEFINE k == Len(tx_prices)
             x == (k - 1) * kPercentile
             position == x \div 100
             picked == Sorted(tx_prices)[position + 1]
  <2>1. k \in Nat \ {0} /\ tx_prices \in [1 .. k -> Nat]
    BY <1>3 DEF SamplesCount
  <2>2. position \in Nat /\ position < k /\ position * 100 <= x
    BY <2>1, Position
  <2>3. result' = (IF picked > kDefaultMaxPrice THEN kDefaultMaxPrice ELSE picked)
    BY <1>3 DEF suggested_price, Return
  <2> HIDE DEF position, picked
  <2>4. IsFiniteSet(1 .. k) /\ Cardinality(1 .. k) = k
    BY <2>1, FS_Interval
  <2>5. position + 1 \in 1 .. Cardinality(1 .. k)
    BY <2>1, <2>2, <2>4
  <2>6. /\ \E i \in 1 .. k : picked = tx_prices[i]
        /\ Cardinality(Below(tx_prices, picked)) < position + 1
    BY <2>1, <2>4, <2>5, SortedAt, ZenonT(60) DEF picked
  <2>7. picked \in Nat /\ picked >= kDefaultMinPrice
    BY <2>1, <2>6 DEF SamplesCount
  <2>8. /\ result' \in Nat /\ result' <= picked
        /\ result' >= kDefaultMinPrice /\ result' <= kDefaultMaxPrice
    BY <2>3, <2>7, PriceAssumption
  <2> DEFINE few == {i \in DOMAIN tx_prices : tx_prices[i] < result'}
  <2>9. Cardinality(few) * 100 <= x
    <3>1. few \in SUBSET Below(tx_prices, picked)
      BY <2>1, <2>7, <2>8 DEF Below
    <3>2. /\ IsFiniteSet(Below(tx_prices, picked))
          /\ Cardinality(Below(tx_prices, picked)) \in Nat
      BY <2>1, <2>4, Counts
    <3>3. IsFiniteSet(few) /\ Cardinality(few) <= Cardinality(Below(tx_prices, picked))
      BY <3>1, <3>2, FS_Subset
    <3>4. Cardinality(few) \in Nat
      BY <3>3, FS_CardinalityType
    <3>5. x \in Nat
      BY <2>1, PriceAssumption
    <3> HIDE DEF few, x, k
    <3> QED
      BY <2>2, <2>6, <3>2, <3>3, <3>4, <3>5
  <2> QED
    BY <1>1, <1>3, <2>8, <2>9 DEF PriceFromSamples, SamplesCount
<1> QED
  BY <1>2, <1>3

\* Every step keeps the samples and the price in order.
LEMMA StepPrices == SearchInv /\ PriceInv /\ [Next]_vars => PriceInv'
<1> SUFFICES ASSUME SearchInv, PriceInv, [Next]_vars PROVE PriceInv'
  OBVIOUS
<1>1. CASE load_block_prices
  <2>1. PICK txs \in Blocks : tx_prices' = tx_prices \o BlockPrices(txs)
    BY <1>1 DEF load_block_prices
  <2> DEFINE more == BlockPrices(txs)
  <2>2. /\ more \in Seq(Nat) /\ Len(more) <= kSamples
        /\ \A n \in DOMAIN more : more[n] >= kDefaultMinPrice
    BY BlockSamples
  <2> HIDE DEF more
  <2>3. tx_prices \in Seq(Nat) /\ tx_prices' = tx_prices \o more /\ Len(tx_prices) < kMaxSamples
    BY <1>1, <2>1 DEF load_block_prices, more, PriceInv, SamplesCount
  <2>4. tx_prices' \in Seq(Nat) /\ Len(tx_prices') < kMaxSamples + kSamples
    BY <2>2, <2>3, PriceAssumption
  <2>5. ASSUME NEW i \in DOMAIN tx_prices' PROVE tx_prices'[i] >= kDefaultMinPrice
    <3>1. CASE i <= Len(tx_prices)
      <4>1. i \in DOMAIN tx_prices /\ tx_prices'[i] = tx_prices[i]
        BY <2>2, <2>3, <2>5, <3>1
      <4> QED
        BY <4>1 DEF PriceInv, SamplesCount
    <3>2. CASE ~(i <= Len(tx_prices))
      <4>1. /\ i - Len(tx_prices) \in DOMAIN more
            /\ tx_prices'[i] = more[i - Len(tx_prices)]
        BY <2>2, <2>3, <2>5, <3>2
      <4> QED
        BY <2>2, <4>1
    <3> QED
      BY <3>1, <3>2
  <2>6. SamplesCount'
    BY <2>4, <2>5 DEF SamplesCount
  <2>7. PriceFromSamples'
    BY <1>1 DEF load_block_prices, PriceFromSamples
  <2> QED
    BY <2>6, <2>7 DEF PriceInv
<1>2. CASE suggested_price
  <2>1. block \in Nat
    BY DEF SearchInv, Numbers, Chain
  <2>2. PriceFromSamples'
    BY <1>2, <2>1, PricePicked DEF PriceInv
  <2>3. SamplesCount'
    BY <1>2 DEF suggested_price, price, PriceInv, SamplesCount
  <2> QED
    BY <2>2, <2>3 DEF PriceInv
<1>3. CASE /\ UNCHANGED price /\ kind' = kind
           /\ kind # "price" \/ pc' = "error" \/ UNCHANGED <<pc, result>>
  BY <1>3 DEF price, PriceInv, SamplesCount, PriceFromSamples
<1>4. CASE StartTimestamp \/ binary_search \/ MatchTimestamp
  BY <1>3, <1>4 DEF StartTimestamp, binary_search, MatchTimestamp
<1>5. CASE estimate_gas \/ Bisect \/ EndBisection
  BY <1>3, <1>5 DEF estimate_gas, Bisect, EndBisection
<1>6. CASE Throw \/ UNCHANGED vars
  BY <1>3, <1>6 DEF Throw, vars
<1> QED
  BY <1>1, <1>2, <1>4, <1>5, <1>6 DEF Next, Work

\* GasPriceOracle: for any blocks, the price that is suggested is within its limits and at
\* most the percentile of the samples is below it, and no more than a block's samples beyond
\* kMaxSamples are read.
THEOREM Suggestions == Spec => []PriceFromSamples
<1>1. Init => PriceInv
  BY PriceAssumption DEF Init, PriceInv, SamplesCount, PriceFromSamples
<1> QED
  BY <1>1, Invariance, StepPrices, PTL DEF Spec, PriceInv
=============================================================================
