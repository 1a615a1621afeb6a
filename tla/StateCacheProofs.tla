--------------------------- MODULE StateCacheProofs ---------------------------
(***************************************************************************)
(* Proofs about StateCache, for any readers, threads, keys, limits and     *)
(* number of views: the entries of a view are those of its snapshot, and   *)
(* the callers of get_one see the reads of SnapshotReads.                  *)
(***************************************************************************)
EXTENDS StateCache, TLAPS, FiniteSetTheorems

\* Time for the larger leaves.
USE SMTT(30), ZenonT(60)

(***************************************************************************)
(* Lemmas on the data.                                                     *)
(***************************************************************************)

\* A root that get_root creates has the type of a root and no entry.
LEMMA NewRootType ==
  /\ NewRoot \in CoherentStateRoot
  /\ \A k \in Keys : NewRoot.cache[k] = None
BY DEF NewRoot, CoherentStateRoot

\* A root that get_root creates is neither ready nor canonical.
LEMMA NewRootFlags == ~NewRoot.ready /\ ~NewRoot.canonical
BY DEF NewRoot

\* The id before any batch, 0, is a view id and precedes the first view.
LEMMA FirstIds == 0 \in ViewIds /\ 0 \in Nat /\ FirstView \in Nat /\ 0 <= FirstView
BY BoundAssumption DEF ViewIds

\* The length of a list of keys is a natural number.
LEMMA LengthInNat == \A s \in Seq(Keys) : Len(s) \in Nat
OBVIOUS

\* The order of lengths and limits.
LEMMA LengthOrder ==
  /\ \A a, b, c \in Nat : a <= b /\ b <= c => a <= c
  /\ \A a, b, c \in Nat : a < b /\ b <= c => a < c /\ a <= c
  /\ \A a, b \in Nat : ~(a > b) => a <= b
OBVIOUS

\* No view comes after itself.
LEMMA AfterOther == \A u, v \in Int : u > v => u # v
OBVIOUS

\* The view that the state stream applies is a committed one.
LEMMA StreamView == \A s \in Stream : s.view \in Views
BY DEF Stream

\* The views the node commits are view ids, and no view wraps to its previous.
LEMMA ViewsAreIds ==
  /\ Views \subseteq ViewIds
  /\ \A v \in Views : v \in Nat /\ v # IdSpace - 1
  /\ \A v \in Views : (v - 1) % IdSpace \in Views => (v - 1) % IdSpace = v - 1
<1>1. Views \subseteq ViewIds /\ \A v \in Views : v \in Nat /\ v # IdSpace - 1
  BY BoundAssumption DEF Views, ViewIds
<1>2. ASSUME NEW v \in Views, (v - 1) % IdSpace \in Views
      PROVE  (v - 1) % IdSpace = v - 1
  <2>1. IdSpace \in Nat /\ IdSpace > 1 /\ v \in 0 .. IdSpace - 1
    BY <1>1, BoundAssumption DEF ViewIds
  <2>2. CASE v = 0
    <3>1. (0 - 1) % IdSpace = IdSpace - 1
      BY <2>1, SMT
    <3> QED BY <3>1, <2>2, <1>1, <1>2, ZenonT(60)
  <2>3. CASE v # 0
    <3>1. v - 1 \in 0 .. IdSpace - 1
      BY <2>1, <2>3
    <3> QED BY <3>1, <2>1, SMT
  <2> QED BY <2>2, <2>3
<1> QED BY <1>1, <1>2

\* add and add_code: the entries of the other views and the flags stay, and an
\* entry of the view is the new value, the old entry, or evicted.
LEMMA AddEffect ==
  ASSUME StateTypeOK, NEW v \in ViewIds, NEW k \in Keys, NEW value \in Bytes,
         Add(v, k, value)
  PROVE  /\ roots' \in [ViewIds -> CoherentStateRoot]
         /\ \A id \in ViewIds : id # v => roots'[id] = roots[id]
         /\ roots'[v].cache[k] \in {value, None}
         /\ \A j \in Keys : j # k => roots'[v].cache[j] \in {roots[v].cache[j], None}
         /\ faults' \subseteq Faults
<1> DEFINE added == [roots[v].cache EXCEPT ![k] = value]
<1>1. roots[v] \in CoherentStateRoot
  BY DEF StateTypeOK
<1>2. /\ added \in [Keys -> Bytes \cup {None}]
      /\ added[k] = value
      /\ \A j \in Keys : j # k => added[j] = roots[v].cache[j]
  BY <1>1 DEF CoherentStateRoot
<1>3. ASSUME NEW c \in [Keys -> Bytes \cup {None}],
             \A j \in Keys : c[j] \in {added[j], None},
             roots' = [roots EXCEPT ![v].cache = c]
      PROVE  /\ roots' \in [ViewIds -> CoherentStateRoot]
             /\ \A id \in ViewIds : id # v => roots'[id] = roots[id]
             /\ roots'[v].cache[k] \in {value, None}
             /\ \A j \in Keys : j # k => roots'[v].cache[j] \in {roots[v].cache[j], None}
  <2>1. roots'[v] = [roots[v] EXCEPT !.cache = c]
    BY <1>3 DEF StateTypeOK
  <2>2. roots'[v] \in CoherentStateRoot /\ roots'[v].cache = c
    BY <2>1, <1>1 DEF CoherentStateRoot
  <2>3. \A id \in ViewIds : id # v => roots'[id] = roots[id]
    BY <1>3 DEF StateTypeOK
  <2>4. roots' \in [ViewIds -> CoherentStateRoot]
    BY <1>3, <2>2, <2>3 DEF StateTypeOK
  <2> QED BY <2>2, <2>3, <2>4, <1>2, <1>3
<1>4. CASE latestId # v
  <2>1. roots' = [roots EXCEPT ![v].cache = added] /\ faults' = faults
    BY <1>4 DEF Add
  <2> HIDE DEF added
  <2>2. \A j \in Keys : added[j] \in {added[j], None}
    OBVIOUS
  <2> QED BY <2>1, <2>2, <1>2, <1>3, ZenonT(60) DEF StateTypeOK
<1>5. CASE latestId = v
  <2> DEFINE t == TableOf(k)
             Listed(replaced) == <<k>> \o Remove(evictions[t], replaced)
  <2>1. PICK replaced \in ReplacedKeys(roots[v].cache, k) :
          /\ roots' = [roots EXCEPT ![v].cache =
                         IF Len(Listed(replaced)) > MaxKeys(t)
                         THEN [added EXCEPT ![Last(Listed(replaced))] = None]
                         ELSE added]
          /\ faults' = faults
               \cup {f \in {"misread_slot"} : roots[v].cache[k] # None /\ replaced # k}
               \cup {f \in {"assertion"} : /\ Len(Listed(replaced)) > MaxKeys(t)
                                           /\ added[Last(Listed(replaced))] = None}
    BY <1>5 DEF Add
  <2> DEFINE c == IF Len(Listed(replaced)) > MaxKeys(t)
                  THEN [added EXCEPT ![Last(Listed(replaced))] = None]
                  ELSE added
  <2>2. c \in [Keys -> Bytes \cup {None}] /\ \A j \in Keys : c[j] \in {added[j], None}
    <3> HIDE DEF added, Listed
    <3> QED BY <1>2, ZenonT(60)
  <2>3. roots' = [roots EXCEPT ![v].cache = c]
    BY <2>1
  <2>4. faults' \subseteq Faults
    <3> HIDE DEF added, Listed
    <3> QED BY <2>1 DEF StateTypeOK, Faults
  <2> HIDE DEF c, added
  <2> QED BY <2>2, <2>3, <2>4, <1>3, ZenonT(60)
<1> QED BY <1>4, <1>5

(***************************************************************************)
(* CoherenceInv is inductive: one lemma per action.                        *)
(***************************************************************************)

\* The cache starts empty, so nothing in it can be wrong.
LEMMA InitCoherent == Init => CoherenceInv
<1> SUFFICES ASSUME Init PROVE CoherenceInv
  OBVIOUS
<1>1. FirstView \in Views /\ FirstView \in Nat /\ <<>> \in Seq(Views)
      /\ <<FirstView>> \in Seq(Views) /\ <<>> \in Seq(Write)
  BY BoundAssumption DEF Views, ViewIds
<1>2. db \in [Views -> [Keys -> Bytes]]
  BY DEF Init
<1>3. inflight \in Seq(Views) /\ \A i \in 1 .. Len(inflight) : inflight[i] <= head
  <2>1. CASE inflight = <<>>
    BY <1>1, <2>1
  <2>2. CASE inflight = <<FirstView>>
    BY <1>1, <2>2 DEF Init
  <2> QED BY <2>1, <2>2 DEF Init
<1>4. roots \in [ViewIds -> CoherentStateRoot]
  BY NewRootType DEF Init
<1>5. StateTypeOK
  BY <1>1, <1>2, <1>3, <1>4 DEF Init, StateTypeOK, Stream, Reader
<1>6. ViewsCommitted
  BY <1>1, <1>3 DEF Init, ViewsCommitted
<1>7. LockExclusive /\ StorageUncached /\ BatchInProgress /\ ReadersHaveKeys
  BY DEF Init, LockExclusive, SharedHeld, ExclusiveHeld, StorageUncached,
         BatchInProgress, ReadersHaveKeys
<1>8. CacheCoherent /\ HeldRootIsLive
  BY DEF Init, CacheCoherent, HeldRootIsLive
<1>9. ReadsNeverStale
  BY NoneAssumption DEF Init, ReadsNeverStale, Bytes
<1> QED BY <1>5, <1>6, <1>7, <1>8, <1>9 DEF CoherenceInv

\* A commit adds a snapshot and leaves those of the committed views alone.
LEMMA CommitCoherent == CoherenceInv /\ Commit => CoherenceInv'
<1> SUFFICES ASSUME CoherenceInv, Commit PROVE CoherenceInv'
  OBVIOUS
<1> USE DEF CoherenceInv
<1>1. /\ head \in Nat /\ head + 1 \in Views /\ head' = head + 1
      /\ \A v \in Views : v <= head => v <= head' /\ v # head + 1
  BY BoundAssumption DEF Commit, StateTypeOK, Views, ViewIds
<1>2. PICK snapshot \in [Keys -> Bytes] : db' = [db EXCEPT ![head + 1] = snapshot]
  BY ZenonT(60) DEF Commit
<1>3. db' \in [Views -> [Keys -> Bytes]] /\ \A v \in Views : v <= head => db'[v] = db[v]
  BY <1>1, <1>2 DEF StateTypeOK
<1>4. UNCHANGED <<live, roots, latestId, evictions, stream, readers, faults>>
  BY DEF Commit, cache
<1>5. inflight' \in Seq(Views) /\ \A i \in 1 .. Len(inflight') : inflight'[i] <= head'
  <2>1. CASE inflight' = inflight
    <3>1. \A i \in 1 .. Len(inflight) : inflight[i] \in Views /\ inflight[i] <= head
      BY DEF StateTypeOK, ViewsCommitted
    <3> QED BY <2>1, <3>1, <1>1, ZenonT(60) DEF StateTypeOK
  <2>2. CASE inflight' = Append(inflight, head + 1)
    <3>1. \A i \in 1 .. Len(inflight) : inflight[i] \in Views /\ inflight[i] <= head
      BY DEF StateTypeOK, ViewsCommitted
    <3>2. /\ inflight' \in Seq(Views) /\ Len(inflight') = Len(inflight) + 1
          /\ \A i \in 1 .. Len(inflight) : inflight'[i] = inflight[i]
          /\ inflight'[Len(inflight) + 1] = head + 1 /\ Len(inflight) \in Nat
      BY <2>2, <1>1 DEF StateTypeOK
    <3>3. \A i \in 1 .. Len(inflight') : i \in 1 .. Len(inflight) \/ i = Len(inflight) + 1
      BY <3>2
    <3>4. head + 1 <= head'
      BY <1>1
    <3> QED BY <3>1, <3>2, <3>3, <3>4, <1>1
  <2> QED BY <2>1, <2>2 DEF Commit
<1>6. StateTypeOK'
  BY <1>1, <1>3, <1>4, <1>5 DEF StateTypeOK
<1>7. ViewsCommitted'
  BY <1>1, <1>4, <1>5, ZenonT(60) DEF StateTypeOK, Stream, Reader, ViewsCommitted
<1>8. LockExclusive' /\ StorageUncached' /\ ReadersHaveKeys' /\ HeldRootIsLive'
  BY <1>4 DEF LockExclusive, SharedHeld, ExclusiveHeld, StorageUncached,
              ReadersHaveKeys, HeldRootIsLive
<1>9. BatchInProgress'
  BY <1>3, <1>4 DEF StateTypeOK, Stream, ViewsCommitted, BatchInProgress, WritesKey
<1>10. CacheCoherent'
  BY <1>3, <1>4 DEF StateTypeOK, ViewsCommitted, CacheCoherent
<1>11. ReadsNeverStale'
  BY <1>3, <1>4 DEF StateTypeOK, Reader, ViewsCommitted, ReadsNeverStale
<1> QED BY <1>6, <1>7, <1>8, <1>9, <1>10, <1>11

\* Receiving a batch changes neither the cache nor the snapshots.
LEMMA ReceiveBatchCoherent == CoherenceInv /\ ReceiveBatch => CoherenceInv'
<1> SUFFICES ASSUME CoherenceInv, ReceiveBatch PROVE CoherenceInv'
  OBVIOUS
<1> USE DEF CoherenceInv
<1>1. UNCHANGED <<db, head, live, roots, latestId, evictions, readers, faults>>
  BY DEF ReceiveBatch, cache
<1>2. /\ inflight' \in Seq(Views)
      /\ \A i \in 1 .. Len(inflight') : inflight'[i] <= head
      /\ Head(inflight) \in Views /\ Head(inflight) <= head
  <2>1. inflight \in Seq(Views) /\ inflight # <<>> /\ inflight' = Tail(inflight)
        /\ \A i \in 1 .. Len(inflight) : inflight[i] <= head
    BY DEF ReceiveBatch, StateTypeOK, ViewsCommitted
  <2> QED BY <2>1
<1>3. /\ stream' \in Stream
      /\ stream'.view <= head /\ stream'.pc # "applying"
  BY <1>2, ZenonT(60) DEF ReceiveBatch, StateTypeOK, Stream, ViewsCommitted
<1>4. StateTypeOK' /\ ViewsCommitted'
  BY <1>1, <1>2, <1>3, ZenonT(60) DEF StateTypeOK, ViewsCommitted
<1>5. LockExclusive' /\ StorageUncached' /\ BatchInProgress' /\ ReadersHaveKeys'
      /\ HeldRootIsLive' /\ ReadsNeverStale'
  BY <1>1, <1>3 DEF LockExclusive, SharedHeld, ExclusiveHeld, StorageUncached,
       BatchInProgress, ReadersHaveKeys, HeldRootIsLive, ReadsNeverStale
<1>6. CacheCoherent'
  BY <1>1 DEF ReceiveBatch, CacheCoherent
<1> QED BY <1>4, <1>5, <1>6

\* advance_root: the new root holds entries of its own view, or those of the
\* previous view, whose differences the batch is about to write.
LEMMA AdvanceRootCoherent == CoherenceInv /\ AdvanceRoot => CoherenceInv'
<1> SUFFICES ASSUME CoherenceInv, AdvanceRoot PROVE CoherenceInv'
  OBVIOUS
<1> USE DEF CoherenceInv
<1> DEFINE v == stream.view
           prev == PreviousId(v)
           own == IF v \in live THEN roots[v] ELSE NewRoot
           inherits == prev \in live /\ roots[prev].canonical
           root == [own EXCEPT !.cache = IF inherits THEN roots[prev].cache ELSE @,
                               !.canonical = TRUE]
           kept == EvictRoots(live \cup {v}, v)
<1>1. /\ v \in Views /\ v \in ViewIds /\ v <= head /\ live \subseteq ViewIds
      /\ stream.pc = "locking"
  BY ViewsAreIds DEF AdvanceRoot, StateTypeOK, Stream, ViewsCommitted
<1>2. /\ live' = kept
      /\ roots' = [id \in ViewIds |-> IF id \notin kept THEN NewRoot
                                      ELSE IF id = v THEN root ELSE roots[id]]
      /\ latestId' = v
      /\ readers' = [r \in Readers |->
                       IF readers[r].pc = "relocking" /\ readers[r].view \notin kept
                       THEN [readers[r] EXCEPT !.dangling = TRUE]
                       ELSE readers[r]]
      /\ faults' = faults \cup {f \in {"erased_root"} : v \notin kept}
      /\ UNCHANGED <<db, head, inflight>>
  BY DEF AdvanceRoot, node
<1>3. PICK todo \in UNION {[1 .. n -> Write] : n \in 0 .. MaxBatch} :
        IsBatchOf(todo, v) /\ stream' = [stream EXCEPT !.pc = "applying", !.todo = todo]
  BY ZenonT(60) DEF AdvanceRoot
<1>4. todo \in Seq(Write)
  BY <1>3, BoundAssumption
<1>5. ~SharedHeld
  BY DEF AdvanceRoot, CanLockUnique
<1>6. kept \subseteq live \cup {v}
  BY DEF EvictRoots
<1>7. own \in CoherentStateRoot /\ own.cache \in [Keys -> Bytes \cup {None}]
  BY <1>1, NewRootType DEF StateTypeOK, CoherentStateRoot
<1>8. \A k \in Keys : own.cache[k] \in {None, db[v][k]}
  BY <1>1, NewRootType DEF CacheCoherent
<1>9. /\ root \in CoherentStateRoot
      /\ root.cache = IF inherits THEN roots[prev].cache ELSE own.cache
  <2>1. inherits => roots[prev] \in CoherentStateRoot
    BY <1>1 DEF StateTypeOK
  <2> HIDE DEF own, inherits, prev
  <2> QED BY <1>7, <2>1, ZenonT(60) DEF CoherentStateRoot
<1> HIDE DEF root, own, kept
<1>10. stream' \in Stream
       /\ stream'.pc = "applying" /\ stream'.view = v /\ stream'.todo = todo
  BY <1>3, <1>4, <1>1, ZenonT(60) DEF StateTypeOK, Stream
<1>11. roots' \in [ViewIds -> CoherentStateRoot]
  BY <1>2, <1>9, NewRootType DEF StateTypeOK
<1>12. /\ readers' \in [Readers -> Reader]
       /\ \A r \in Readers : /\ readers'[r].pc = readers[r].pc
                             /\ readers'[r].view = readers[r].view
                             /\ readers'[r].key = readers[r].key
                             /\ readers'[r].ret = readers[r].ret
  <2>1. ASSUME NEW r \in Readers
        PROVE  /\ readers'[r] \in Reader
               /\ readers'[r].pc = readers[r].pc
               /\ readers'[r].view = readers[r].view
               /\ readers'[r].key = readers[r].key
               /\ readers'[r].ret = readers[r].ret
    <3>1. readers[r] \in Reader
      BY DEF StateTypeOK
    <3>2. readers'[r] \in {readers[r], [readers[r] EXCEPT !.dangling = TRUE]}
      BY <1>2
    <3> QED BY <3>1, <3>2, ZenonT(60) DEF Reader
  <2> QED BY <1>2, <2>1
<1>13. StateTypeOK'
  <2>1. live' \subseteq Views /\ latestId' \in Views
    BY <1>1, <1>2, <1>6 DEF StateTypeOK
  <2>2. faults' \subseteq Faults
    BY <1>2 DEF StateTypeOK, Faults
  <2> QED BY <1>2, <1>10, <1>11, <1>12, <2>1, <2>2 DEF StateTypeOK
<1>14. ViewsCommitted'
  BY <1>1, <1>2, <1>6, <1>10, <1>12 DEF ViewsCommitted
<1>15. LockExclusive' /\ HeldRootIsLive' /\ ReadersHaveKeys' /\ ReadsNeverStale'
  <2>1. \A r \in Readers : readers'[r].pc \notin {"hit", "awaiting"}
    BY <1>5, <1>12 DEF SharedHeld
  <2>2. LockExclusive' /\ HeldRootIsLive'
    BY <2>1 DEF LockExclusive, SharedHeld, HeldRootIsLive
  <2>3. ReadersHaveKeys' /\ ReadsNeverStale'
    BY <1>2, <1>12 DEF ReadersHaveKeys, ReadsNeverStale
  <2> QED BY <2>2, <2>3
<1>16. StorageUncached'
  <2> SUFFICES ASSUME ~WithStorage, NEW id \in live', NEW k \in StorageKeys
               PROVE  roots'[id].cache[k] = None
    BY DEF StorageUncached
  <2>1. k \in Keys /\ id \in kept /\ id \in ViewIds
    BY <1>1, <1>2, <1>6 DEF Keys
  <2>2. own.cache[k] = None
    BY <2>1, NewRootType DEF own, StorageUncached
  <2>3. root.cache[k] = None
    BY <1>9, <2>2 DEF StorageUncached
  <2> QED BY <1>2, <1>6, <2>1, <2>3 DEF StorageUncached
<1>17. CacheCoherent'
  <2> SUFFICES ASSUME NEW id \in live', id # v, NEW k \in Keys
               PROVE  roots'[id].cache[k] \in {None, db'[id][k]}
    BY <1>10 DEF CacheCoherent
  <2>1. id \in live /\ id \in ViewIds /\ roots'[id] = roots[id] /\ db' = db
    BY <1>1, <1>2, <1>6
  <2> QED BY <1>1, <2>1 DEF CacheCoherent
<1>18. BatchInProgress'
  <2>1. ASSUME NEW k \in Keys
        PROVE  roots'[v].cache[k] \in {None, db[v][k]} \/ WritesKey(todo, k)
    <3>1. CASE v \notin kept
      BY <3>1, <1>1, <1>2, NewRootType
    <3>2. CASE v \in kept /\ ~inherits
      BY <3>2, <1>1, <1>2, <1>8, <1>9
    <3>3. CASE v \in kept /\ inherits
      <4>1. prev = v - 1 /\ prev \in Views
        BY <3>3, <1>1, ViewsAreIds DEF StateTypeOK, PreviousId
      <4>2. roots[prev].cache[k] \in {None, db[prev][k]}
        BY <3>3, <1>1 DEF CacheCoherent
      <4>3. roots'[v].cache[k] = roots[prev].cache[k]
        BY <3>3, <1>1, <1>2, <1>9
      <4>4. CASE k \in StorageKeys /\ ~WithStorage
        BY <4>3, <4>4, <3>3 DEF StorageUncached
      <4>5. CASE db[v - 1][k] = db[v][k] \/ WritesKey(todo, k)
        BY <4>1, <4>2, <4>3, <4>5
      <4> QED BY <1>3, <4>1, <4>4, <4>5 DEF IsBatchOf
    <3> QED BY <3>1, <3>2, <3>3
  <2>2. \A i \in DOMAIN todo : \/ todo[i].value = db[v][todo[i].key]
                               \/ \E j \in DOMAIN todo : j > i /\ todo[j].key = todo[i].key
    BY <1>3 DEF IsBatchOf
  <2>3. db' = db
    BY <1>2
  <2> HIDE DEF v, CoherenceInv
  <2> QED BY <1>10, <2>1, <2>2, <2>3, ZenonT(60) DEF BatchInProgress, WritesKey
<1> QED BY <1>13, <1>14, <1>15, <1>16, <1>17, <1>18

\* A write of the batch: the entry written is the snapshot's, unless a later
\* write of the same key is still to come.
LEMMA ProcessChangeCoherent == CoherenceInv /\ ProcessChange => CoherenceInv'
<1> SUFFICES ASSUME CoherenceInv, ProcessChange PROVE CoherenceInv'
  OBVIOUS
<1> USE DEF CoherenceInv
<1> DEFINE v == stream.view
           todo == stream.todo
           k == Head(todo).key
           value == Head(todo).value
<1>1. /\ v \in Views /\ v \in ViewIds /\ stream.pc = "applying" /\ live \subseteq ViewIds
      /\ todo \in Seq(Write) /\ todo # <<>>
  BY ViewsAreIds DEF ProcessChange, StateTypeOK, Stream
<1>2. /\ Add(v, k, value)
      /\ stream' = [stream EXCEPT !.todo = Tail(@)]
      /\ UNCHANGED <<db, head, inflight, live, latestId, readers>>
  BY DEF ProcessChange, node
<1>3. /\ Tail(todo) \in Seq(Write) /\ Len(todo) \in Nat \ {0}
      /\ DOMAIN todo = 1 .. Len(todo) /\ DOMAIN Tail(todo) = 1 .. Len(todo) - 1
      /\ \A i \in 1 .. Len(todo) - 1 : Tail(todo)[i] = todo[i + 1]
      /\ todo[1] = Head(todo) /\ Head(todo) \in Write
  BY <1>1
<1>4. k \in Keys /\ value \in Bytes /\ (k \in StorageKeys => WithStorage)
  BY <1>3, KeysAssumption DEF Write, Keys
<1> HIDE DEF k, value, todo
<1>5. /\ roots' \in [ViewIds -> CoherentStateRoot]
      /\ \A id \in ViewIds : id # v => roots'[id] = roots[id]
      /\ roots'[v].cache[k] \in {value, None}
      /\ \A j \in Keys : j # k => roots'[v].cache[j] \in {roots[v].cache[j], None}
      /\ faults' \subseteq Faults
  BY <1>1, <1>2, <1>4, AddEffect
<1>6. stream' \in Stream /\ stream'.pc = "applying" /\ stream'.view = v
      /\ stream'.todo = Tail(todo)
  BY <1>1, <1>2, <1>3, ZenonT(60) DEF StateTypeOK, Stream, todo
<1>7. StateTypeOK' /\ ViewsCommitted'
  BY <1>2, <1>5, <1>6 DEF StateTypeOK, ViewsCommitted
<1>8. LockExclusive' /\ HeldRootIsLive' /\ ReadersHaveKeys' /\ ReadsNeverStale'
  <2>1. ~SharedHeld /\ ~SharedHeld'
    BY <1>1, <1>2 DEF LockExclusive, ExclusiveHeld, SharedHeld
  <2> QED BY <1>2, <2>1 DEF LockExclusive, SharedHeld, HeldRootIsLive,
            ReadersHaveKeys, ReadsNeverStale
<1>9. StorageUncached'
  <2> SUFFICES ASSUME ~WithStorage, NEW id \in live', NEW j \in StorageKeys
               PROVE  roots'[id].cache[j] = None
    BY DEF StorageUncached
  <2>1. roots[id].cache[j] = None /\ id \in ViewIds /\ j \in Keys /\ j # k
    BY <1>1, <1>2, <1>4 DEF StorageUncached, Keys
  <2> QED BY <1>5, <2>1
<1>10. CacheCoherent'
  <2> SUFFICES ASSUME NEW id \in live', id # v, NEW j \in Keys
               PROVE  roots'[id].cache[j] \in {None, db'[id][j]}
    BY <1>6 DEF CacheCoherent
  <2> QED BY <1>1, <1>2, <1>5 DEF CacheCoherent
<1>11. BatchInProgress'
  <2>1. ASSUME NEW j \in Keys, WritesKey(todo, j), ~WritesKey(Tail(todo), j)
        PROVE  j = k /\ value = db[v][k]
    <3>1. PICK i \in 1 .. Len(todo) : todo[i].key = j
      BY <1>3, <2>1 DEF WritesKey
    <3>2. ASSUME NEW n \in 1 .. Len(todo), n # 1 PROVE todo[n].key # j
      <4>1. n - 1 \in 1 .. Len(todo) - 1 /\ (n - 1) + 1 = n
        BY <1>3, <3>2
      <4> QED BY <4>1, <1>3, <2>1, ZenonT(60) DEF WritesKey
    <3>3. i = 1 /\ j = k
      BY <3>1, <3>2, <1>3 DEF k
    <3>4. ~ \E n \in DOMAIN todo : n > 1 /\ todo[n].key = todo[1].key
      BY <3>2, <3>1, <3>3, <1>3
    <3>5. todo[1].value = db[v][todo[1].key]
      <4>1. 1 \in DOMAIN todo
        BY <1>3
      <4> QED BY <3>4, <4>1, <1>1, ZenonT(60) DEF BatchInProgress, todo
    <3> QED BY <3>3, <3>5, <1>3 DEF k, value
  <2>2. ASSUME NEW j \in Keys
        PROVE  roots'[v].cache[j] \in {None, db[v][j]} \/ WritesKey(Tail(todo), j)
    <3>1. CASE WritesKey(todo, j)
      BY <3>1, <2>1, <1>5
    <3>2. CASE ~WritesKey(todo, j)
      <4>1. j # k
        BY <3>2, <1>3 DEF WritesKey, k
      <4>2. roots[v].cache[j] \in {None, db[v][j]}
        BY <3>2, <1>1 DEF BatchInProgress, todo
      <4> QED BY <4>1, <4>2, <1>5
    <3> QED BY <3>1, <3>2
  <2>3. ASSUME NEW i \in 1 .. Len(todo) - 1,
               Tail(todo)[i].value # db[v][Tail(todo)[i].key]
        PROVE  \E j \in 1 .. Len(todo) - 1 : j > i /\ Tail(todo)[j].key = Tail(todo)[i].key
    <3>1. i + 1 \in DOMAIN todo /\ Tail(todo)[i] = todo[i + 1]
      BY <1>3
    <3>2. PICK n \in DOMAIN todo : n > i + 1 /\ todo[n].key = todo[i + 1].key
      BY <3>1, <2>3, <1>1 DEF BatchInProgress, todo
    <3>3. n - 1 \in 1 .. Len(todo) - 1 /\ n - 1 > i /\ (n - 1) + 1 = n
      BY <3>2, <1>3
    <3> QED BY <3>1, <3>2, <3>3, <1>3
  <2>4. /\ \A j \in Keys : \/ roots'[stream'.view].cache[j] \in {None, db'[stream'.view][j]}
                           \/ WritesKey(stream'.todo, j)
        /\ DOMAIN stream'.todo = 1 .. Len(todo) - 1
    BY <1>2, <1>3, <1>6, <2>2, ZenonT(60)
  <2>5. \A i \in DOMAIN stream'.todo :
           \/ stream'.todo[i].value = db'[stream'.view][stream'.todo[i].key]
           \/ \E j \in DOMAIN stream'.todo :
                j > i /\ stream'.todo[j].key = stream'.todo[i].key
    <3>1. \A i \in 1 .. Len(todo) - 1 :
            \/ Tail(todo)[i].value = db[v][Tail(todo)[i].key]
            \/ \E j \in 1 .. Len(todo) - 1 : j > i /\ Tail(todo)[j].key = Tail(todo)[i].key
      BY <2>3
    <3>2. stream'.todo = Tail(todo) /\ stream'.view = v /\ db' = db
      BY <1>2, <1>6
    <3> HIDE DEF v
    <3> QED BY <3>1, <3>2, <2>4, ZenonT(60)
  <2> QED BY <2>4, <2>5 DEF BatchInProgress, WritesKey
<1> QED BY <1>7, <1>8, <1>9, <1>10, <1>11

\* When no write is left the view is coherent, and is published.
LEMMA PublishRootCoherent == CoherenceInv /\ PublishRoot => CoherenceInv'
<1> SUFFICES ASSUME CoherenceInv, PublishRoot PROVE CoherenceInv'
  OBVIOUS
<1> USE DEF CoherenceInv
<1> DEFINE v == stream.view
<1>1. /\ v \in Views /\ v \in ViewIds /\ stream.pc = "applying" /\ stream.todo = <<>>
      /\ live \subseteq ViewIds
  BY ViewsAreIds DEF PublishRoot, StateTypeOK, Stream
<1>2. /\ roots' = [roots EXCEPT ![v].ready = TRUE]
      /\ stream' = [stream EXCEPT !.pc = "reading"]
      /\ UNCHANGED <<db, head, inflight, live, latestId, readers, faults>>
  BY DEF PublishRoot, node
<1>3. /\ roots' \in [ViewIds -> CoherentStateRoot]
      /\ \A id \in ViewIds : roots'[id].cache = roots[id].cache
  <2>1. /\ roots'[v] = [roots[v] EXCEPT !.ready = TRUE]
        /\ \A id \in ViewIds : id # v => roots'[id] = roots[id]
    BY <1>1, <1>2, ZenonT(60) DEF StateTypeOK
  <2>2. roots[v] \in CoherentStateRoot
    BY <1>1 DEF StateTypeOK
  <2>3. roots'[v] \in CoherentStateRoot /\ roots'[v].cache = roots[v].cache
    BY <2>1, <2>2, ZenonT(60) DEF CoherentStateRoot
  <2>4. roots' = [id \in ViewIds |-> roots'[id]]
    BY <1>2, ZenonT(60) DEF StateTypeOK
  <2>5. \A id \in ViewIds : roots'[id] \in CoherentStateRoot
    BY <2>1, <2>3, ZenonT(60) DEF StateTypeOK
  <2> QED BY <2>1, <2>3, <2>4, <2>5, ZenonT(60)
<1>4. stream' \in Stream /\ stream'.pc = "reading" /\ stream'.view = v
  BY <1>2, ZenonT(60) DEF StateTypeOK, Stream
<1>5. StateTypeOK' /\ ViewsCommitted'
  BY <1>2, <1>3, <1>4, ZenonT(60) DEF StateTypeOK, ViewsCommitted
<1>6. LockExclusive' /\ HeldRootIsLive' /\ ReadersHaveKeys' /\ ReadsNeverStale'
      /\ BatchInProgress'
  <2>1. ~SharedHeld /\ ~SharedHeld'
    BY <1>1, <1>2 DEF LockExclusive, ExclusiveHeld, SharedHeld
  <2> QED BY <1>2, <1>4, <2>1 DEF LockExclusive, SharedHeld, HeldRootIsLive,
            ReadersHaveKeys, ReadsNeverStale, BatchInProgress
<1>7. StorageUncached'
  BY <1>1, <1>2, <1>3 DEF StorageUncached
<1>8. CacheCoherent'
  <2>1. \A k \in Keys : roots[v].cache[k] \in {None, db[v][k]}
    BY <1>1 DEF BatchInProgress, WritesKey
  <2> QED BY <1>1, <1>2, <1>3, <2>1, ZenonT(60) DEF CacheCoherent
<1> QED BY <1>5, <1>6, <1>7, <1>8

(***************************************************************************)
(* The steps of the readers.  Those that leave the cache and the stream    *)
(* alone have the record of the reader to account for and nothing else.    *)
(***************************************************************************)

\* A step that changes only the record of one reader, and maybe the eviction
\* lists and the faults, keeps the invariant when the new record fits the cache.
LEMMA ReaderStepCoherent ==
  ASSUME CoherenceInv, NEW r \in Readers, NEW new \in Reader,
         readers' = [readers EXCEPT ![r] = new],
         UNCHANGED <<db, head, inflight, live, roots, latestId, stream>>,
         faults' \subseteq Faults,
         new.view <= head,
         new.pc # "idle" => new.key # None,
         new.ret \in Values => new.ret = db[new.view][new.key],
         new.pc \in {"hit", "awaiting"} =>
           /\ ~ExclusiveHeld
           /\ new.view \in live
           /\ new.pc = "hit" => roots[new.view].cache[new.key] # None
  PROVE  CoherenceInv'
<1> USE DEF CoherenceInv
<1>1. readers' \in [Readers -> Reader] /\ readers'[r] = new
      /\ \A s \in Readers : s # r => readers'[s] = readers[s]
  BY DEF StateTypeOK
<1>2. StateTypeOK'
  BY <1>1, ZenonT(60) DEF StateTypeOK
<1>3. ViewsCommitted' /\ ReadersHaveKeys' /\ ReadsNeverStale'
  BY <1>1, ZenonT(60) DEF ViewsCommitted, ReadersHaveKeys, ReadsNeverStale
<1>4. LockExclusive' /\ HeldRootIsLive'
  BY <1>1, ZenonT(60) DEF LockExclusive, SharedHeld, ExclusiveHeld, HeldRootIsLive
<1>5. StorageUncached' /\ CacheCoherent'
  BY ZenonT(60) DEF StorageUncached, CacheCoherent
<1>6. BatchInProgress'
  BY DEF BatchInProgress, WritesKey
<1> QED BY <1>2, <1>3, <1>4, <1>5, <1>6

\* Opening a transaction, calling get_one, and the reads that end without
\* touching the cache: fallback, missing root, failure.
LEMMA QuietStepsCoherent ==
  ASSUME CoherenceInv, NEW r \in Readers,
         BeginTransaction(r) \/ GetOne(r) \/ FallbackRead(r) \/ GetNoRoot(r) \/ ReadFails(r)
  PROVE  CoherenceInv'
<1> USE DEF CoherenceInv
<1>1. /\ readers[r] \in Reader /\ readers[r].view <= head /\ readers \in [Readers -> Reader]
      /\ readers[r].pc # "idle" => readers[r].key # None
      /\ head \in Views /\ head <= head /\ faults \subseteq Faults
  BY ViewsAreIds DEF StateTypeOK, ViewsCommitted, ReadersHaveKeys
<1>2. CASE BeginTransaction(r)
  <2> DEFINE new == [readers[r] EXCEPT !.view = head, !.ret = None]
  <2>1. readers' = [readers EXCEPT ![r] = new] /\ readers[r].pc = "idle"
    BY <1>1, <1>2, ZenonT(60) DEF BeginTransaction
  <2>2. /\ new \in Reader /\ new.view <= head /\ new.pc = "idle" /\ new.ret \notin Values
    BY <1>1, <2>1, NoneAssumption, ZenonT(60) DEF Reader, Bytes
  <2> HIDE DEF new
  <2> QED BY <1>1, <1>2, <2>1, <2>2, ReaderStepCoherent, ZenonT(60)
          DEF BeginTransaction, node, cache
<1>3. CASE GetOne(r)
  <2>1. PICK k \in AccountKeys \cup CodeKeys :
          readers' = [readers EXCEPT ![r].pc = "locking_view", ![r].key = k, ![r].ret = None]
    BY <1>3, ZenonT(60) DEF GetOne
  <2> DEFINE new == [readers[r] EXCEPT !.pc = "locking_view", !.key = k, !.ret = None]
  <2>2. readers' = [readers EXCEPT ![r] = new]
    BY <1>1, <2>1, ZenonT(60)
  <2>3. /\ new \in Reader /\ new.view <= head /\ new.pc = "locking_view"
        /\ new.key # None /\ new.ret \notin Values
    BY <1>1, NoneAssumption, ZenonT(60) DEF Reader, Bytes, Keys
  <2> HIDE DEF new
  <2> QED BY <1>1, <1>3, <2>2, <2>3, ReaderStepCoherent, ZenonT(60) DEF GetOne, node, cache
<1>4. ASSUME NEW value \in Bytes \cup {None}, Return(r, value),
             UNCHANGED <<node, cache, stream, faults>>,
             value \in Values => value = db[readers[r].view][readers[r].key]
      PROVE  CoherenceInv'
  <2> DEFINE new == [readers[r] EXCEPT !.pc = "idle", !.ret = value]
  <2>1. readers' = [readers EXCEPT ![r] = new]
    BY <1>1, <1>4, ZenonT(60) DEF Return
  <2>2. /\ new \in Reader /\ new.view = readers[r].view /\ new.key = readers[r].key
        /\ new.pc = "idle" /\ new.ret = value
    BY <1>1, ZenonT(60) DEF Reader
  <2> HIDE DEF new
  <2> QED BY <1>1, <1>4, <2>1, <2>2, ReaderStepCoherent, ZenonT(60) DEF node, cache
<1>5. CASE FallbackRead(r)
  <2>1. readers[r].view \in Views /\ readers[r].key \in Keys
    BY <1>1, <1>5 DEF Reader, FallbackRead, Keys
  <2>2. db[readers[r].view][readers[r].key] \in Bytes
    BY <2>1 DEF StateTypeOK
  <2> QED BY <1>4, <1>5, <2>2, ZenonT(60) DEF FallbackRead
<1>6. CASE GetNoRoot(r)
  BY <1>4, <1>6, EmptyAssumption, ZenonT(60) DEF GetNoRoot, Bytes
<1>7. CASE ReadFails(r)
  BY <1>4, <1>7, NoneAssumption DEF ReadFails, Bytes
<1> QED BY <1>2, <1>3, <1>5, <1>6, <1>7

\* get_view: a root it creates is empty.
LEMMA GetViewCoherent ==
  ASSUME CoherenceInv, NEW r \in Readers, GetView(r)
  PROVE  CoherenceInv'
<1> USE DEF CoherenceInv
<1> DEFINE v == readers[r].view
           root == IF v \in live THEN roots[v] ELSE NewRoot
           new == [readers[r] EXCEPT !.pc = IF root.ready THEN "has_view" ELSE "fallback"]
<1>1. /\ readers[r] \in Reader /\ readers \in [Readers -> Reader]
      /\ v \in Views /\ v \in ViewIds /\ v <= head /\ live \subseteq ViewIds
      /\ readers[r].pc = "locking_view" /\ readers[r].key # None
  BY ViewsAreIds DEF GetView, StateTypeOK, Reader, ViewsCommitted, ReadersHaveKeys
<1>2. /\ live' = live \cup {v} /\ roots' = [roots EXCEPT ![v] = root]
      /\ UNCHANGED <<db, head, inflight, latestId, stream, faults>>
      /\ stream.pc # "applying"
  BY DEF GetView, node, CanLockUnique, ExclusiveHeld
<1>3. readers' = [readers EXCEPT ![r] = new]
  BY <1>1, ZenonT(60) DEF GetView
<1>4. /\ root \in CoherentStateRoot
      /\ v \notin live => \A k \in Keys : root.cache[k] = None
      /\ v \in live => root = roots[v]
  BY <1>1, NewRootType DEF StateTypeOK
<1>5. /\ new \in Reader /\ new.view = v /\ new.key = readers[r].key
      /\ new.ret = readers[r].ret /\ new.pc \in {"has_view", "fallback"}
  BY <1>1, ZenonT(60) DEF Reader
<1> HIDE DEF root, new
<1>6. /\ roots' \in [ViewIds -> CoherentStateRoot] /\ roots'[v] = root
      /\ \A id \in ViewIds : id # v => roots'[id] = roots[id]
  BY <1>1, <1>2, <1>4 DEF StateTypeOK
<1>7. readers' \in [Readers -> Reader] /\ readers'[r] = new
      /\ \A s \in Readers : s # r => readers'[s] = readers[s]
  BY <1>1, <1>3, <1>5, ZenonT(60)
<1>8. StateTypeOK' /\ ViewsCommitted'
  BY <1>1, <1>2, <1>5, <1>6, <1>7 DEF StateTypeOK, ViewsCommitted
<1>9. LockExclusive' /\ BatchInProgress'
  BY <1>2, ZenonT(60) DEF LockExclusive, ExclusiveHeld, BatchInProgress
<1>10. HeldRootIsLive'
  <2>1. \A s \in Readers : readers[s].pc \notin {"hit", "awaiting"}
    BY ZenonT(60) DEF GetView, CanLockUnique, SharedHeld
  <2> QED BY <1>5, <1>7, <2>1 DEF HeldRootIsLive
<1>11. ReadersHaveKeys' /\ ReadsNeverStale'
  BY <1>1, <1>2, <1>5, <1>7 DEF ReadersHaveKeys, ReadsNeverStale
<1>12. StorageUncached'
  <2> SUFFICES ASSUME ~WithStorage, NEW id \in live', NEW j \in StorageKeys
               PROVE  roots'[id].cache[j] = None
    BY DEF StorageUncached
  <2>1. j \in Keys /\ (id \in live => roots[id].cache[j] = None)
    BY ZenonT(60) DEF StorageUncached, Keys
  <2>2. CASE id = v
    BY <1>4, <1>6, <2>1, <2>2
  <2>3. CASE id # v
    <3>1. id \in live /\ id \in ViewIds
      BY <1>1, <1>2, <2>3
    <3> QED BY <1>6, <2>1, <2>3, <3>1
  <2> QED BY <2>2, <2>3
<1>13. CacheCoherent'
  <2> SUFFICES ASSUME NEW id \in live', NEW j \in Keys
               PROVE  roots'[id].cache[j] \in {None, db'[id][j]}
    BY ZenonT(60) DEF CacheCoherent
  <2>1. id \in live => roots[id].cache[j] \in {None, db[id][j]}
    BY <1>2 DEF CacheCoherent
  <2>2. CASE id = v
    BY <1>2, <1>4, <1>6, <2>1, <2>2, ZenonT(60)
  <2>3. CASE id # v
    <3>1. id \in live /\ id \in ViewIds
      BY <1>1, <1>2, <2>3
    <3> QED BY <1>2, <1>6, <2>1, <2>3, <3>1
  <2> QED BY <2>2, <2>3, ZenonT(60)
<1> QED BY <1>8, <1>9, <1>10, <1>11, <1>12, <1>13

\* A hit, before and after the key has moved in its list, and the start of a
\* miss: the root found is live, and its entry is the snapshot's.
LEMMA GetCoherent ==
  ASSUME CoherenceInv, NEW r \in Readers,
         GetHit(r) \/ HitPushFront(r) \/ GetMiss(r) \/ MissRead(r)
  PROVE  CoherenceInv'
<1> USE DEF CoherenceInv
<1> DEFINE v == readers[r].view
           k == readers[r].key
           Moved(pc) == [readers[r] EXCEPT !.pc = pc]
           Answered(value) == [readers[r] EXCEPT !.pc = "idle", !.ret = value]
<1>1. /\ readers[r] \in Reader /\ readers \in [Readers -> Reader]
      /\ v \in Views /\ v \in ViewIds /\ v <= head /\ faults \subseteq Faults
      /\ k \in Keys /\ k # None
      /\ readers[r].ret \in Values => readers[r].ret = db[v][k]
  <2>1. readers[r].pc # "idle" /\ readers[r] \in Reader /\ readers \in [Readers -> Reader]
    BY ZenonT(60) DEF GetHit, HitPushFront, GetMiss, MissRead, StateTypeOK
  <2>2. v \in Views /\ v \in ViewIds /\ k \in AccountKeys \cup CodeKeys \cup {None}
    BY <2>1, ViewsAreIds DEF Reader
  <2> QED BY <2>1, <2>2 DEF StateTypeOK, ViewsCommitted, ReadersHaveKeys, ReadsNeverStale, Keys
<1>2. ASSUME NEW pc \in {"hit", "awaiting", "relocking"},
             readers' = [readers EXCEPT ![r].pc = pc],
             UNCHANGED <<db, head, inflight, live, roots, latestId, stream>>,
             faults' \subseteq Faults,
             pc \in {"hit", "awaiting"} =>
               /\ ~ExclusiveHeld /\ v \in live
               /\ pc = "hit" => roots[v].cache[k] # None
      PROVE  CoherenceInv'
  <2>1. readers' = [readers EXCEPT ![r] = Moved(pc)]
    BY <1>1, <1>2
  <2>2. /\ Moved(pc) \in Reader /\ Moved(pc).pc = pc /\ Moved(pc).view = v
        /\ Moved(pc).key = k /\ Moved(pc).ret = readers[r].ret
    BY <1>1, <1>2 DEF Reader
  <2> DEFINE new == Moved(pc)
  <2>3. /\ new \in Reader /\ readers' = [readers EXCEPT ![r] = new] /\ new.view <= head
        /\ new.pc # "idle" => new.key # None
        /\ new.ret \in Values => new.ret = db[new.view][new.key]
        /\ new.pc \in {"hit", "awaiting"} =>
             /\ ~ExclusiveHeld
             /\ new.view \in live
             /\ new.pc = "hit" => roots[new.view].cache[new.key] # None
    <3> HIDE DEF Moved
    <3> QED BY <1>1, <1>2, <2>1, <2>2, ZenonT(60)
  <2> HIDE DEF new
  <2> QED BY <1>2, <2>3, ReaderStepCoherent, ZenonT(60)
<1>3. ASSUME NEW value \in Bytes, Return(r, value),
             UNCHANGED <<db, head, inflight, live, roots, latestId, stream>>,
             faults' \subseteq Faults, value \in Values => value = db[v][k]
      PROVE  CoherenceInv'
  <2>1. readers' = [readers EXCEPT ![r] = Answered(value)]
    BY <1>1, <1>3, ZenonT(60) DEF Return
  <2>2. /\ Answered(value) \in Reader /\ Answered(value).pc = "idle"
        /\ Answered(value).view = v /\ Answered(value).key = k
        /\ Answered(value).ret = value
    BY <1>1, <1>3, ZenonT(60) DEF Reader
  <2> HIDE DEF Answered
  <2> QED BY <1>1, <1>3, <2>1, <2>2, ReaderStepCoherent, ZenonT(60)
<1>4. db[v][k] \in Bytes
  BY <1>1 DEF StateTypeOK
<1>5. CASE GetHit(r)
  <2>1. /\ v \in live /\ ~ExclusiveHeld /\ roots[v].cache[k] # None
        /\ UNCHANGED <<db, head, inflight, live, roots, latestId, stream>>
    BY <1>5, ZenonT(60) DEF GetHit, Entry, node, CanLockShared
  <2>2. roots[v].cache[k] = db[v][k]
    BY <1>1, <2>1 DEF CacheCoherent, ExclusiveHeld
  <2>3. CASE v = latestId
    <3>1. readers' = [readers EXCEPT ![r].pc = "hit"] /\ faults' \subseteq Faults
      BY <1>1, <1>5, <2>3, ZenonT(60) DEF GetHit, Entry, Faults
    <3> QED BY <1>2, <2>1, <3>1
  <2>4. CASE v # latestId
    <3>1. Return(r, db[v][k]) /\ faults' \subseteq Faults
      BY <1>1, <1>5, <2>2, <2>4 DEF GetHit, Entry
    <3> QED BY <1>3, <1>4, <2>1, <3>1, ZenonT(60)
  <2> QED BY <2>3, <2>4, ZenonT(60)
<1>6. CASE HitPushFront(r)
  <2>1. v \in live /\ roots[v].cache[k] # None /\ ~ExclusiveHeld
    BY <1>6, ZenonT(60) DEF HitPushFront, Entry, HeldRootIsLive, LockExclusive, SharedHeld
  <2>2. roots[v].cache[k] = db[v][k]
    BY <1>1, <2>1, ZenonT(60) DEF CacheCoherent, ExclusiveHeld
  <2>3. /\ Return(r, db[v][k])
        /\ UNCHANGED <<db, head, inflight, live, roots, latestId, stream, faults>>
    BY <1>6, <2>2, ZenonT(60) DEF HitPushFront, Entry, node
  <2> QED BY <1>1, <1>3, <1>4, <2>3, ZenonT(60)
<1>7. CASE GetMiss(r)
  BY <1>1, <1>2, <1>7 DEF GetMiss, CanLockShared, node, cache
<1>8. CASE MissRead(r)
  <2>1. UNCHANGED <<db, head, inflight, live, roots, latestId, stream, faults>>
    BY <1>8 DEF MissRead, node, cache
  <2>2. CASE db[v][k] = Empty
    BY <1>1, <1>3, <1>4, <1>8, <2>1, <2>2 DEF MissRead
  <2>3. CASE db[v][k] # Empty
    BY <1>1, <1>2, <1>8, <2>1, <2>3 DEF MissRead
  <2> QED BY <2>2, <2>3, ZenonT(60)
<1> QED BY <1>5, <1>6, <1>7, <1>8, ZenonT(60)

\* The end of a miss: the value added is the entry of the reader's snapshot.
LEMMA MissAddCoherent ==
  ASSUME CoherenceInv, NEW r \in Readers, MissAdd(r)
  PROVE  CoherenceInv'
<1> USE DEF CoherenceInv
<1> DEFINE v == readers[r].view
           k == readers[r].key
           new == [readers[r] EXCEPT !.pc = "idle", !.ret = db[v][k], !.dangling = FALSE]
<1>1. /\ readers[r] \in Reader /\ readers \in [Readers -> Reader]
      /\ v \in Views /\ v \in ViewIds /\ v <= head /\ live \subseteq ViewIds
      /\ k \in AccountKeys \cup CodeKeys /\ k \in Keys
  BY ViewsAreIds DEF MissAdd, StateTypeOK, Reader, ViewsCommitted, ReadersHaveKeys, Keys
<1>2. db[v][k] \in Bytes
  BY <1>1 DEF StateTypeOK
<1>3. /\ UNCHANGED <<db, head, inflight, live, latestId, stream>>
      /\ stream.pc # "applying"
      /\ \A s \in Readers : readers[s].pc \notin {"hit", "awaiting"}
  BY DEF MissAdd, node, CanLockUnique, ExclusiveHeld, SharedHeld
<1>4. readers' = [readers EXCEPT ![r] = new]
  BY <1>1, ZenonT(60) DEF MissAdd
<1>5. new \in Reader /\ new.view = v /\ new.key = k /\ new.ret = db[v][k] /\ new.pc = "idle"
  BY <1>1, <1>2, ZenonT(60) DEF Reader
<1> HIDE DEF new
<1>6. /\ roots' \in [ViewIds -> CoherentStateRoot]
      /\ \A id \in ViewIds : id # v => roots'[id] = roots[id]
      /\ \A j \in Keys : \/ roots'[v].cache[j] \in {roots[v].cache[j], None}
                         \/ j = k /\ roots'[v].cache[j] = db[v][k]
      /\ faults' \subseteq Faults
  <2>1. CASE readers[r].dangling
    BY <2>1, ZenonT(60) DEF MissAdd, StateTypeOK, Faults
  <2>2. CASE ~readers[r].dangling
    <3>1. Add(v, k, db[v][k])
      BY <2>2 DEF MissAdd
    <3> HIDE DEF v, k, CoherenceInv
    <3>2. StateTypeOK
      BY ZenonT(60) DEF CoherenceInv
    <3>3. /\ roots' \in [ViewIds -> CoherentStateRoot]
          /\ \A id \in ViewIds : id # v => roots'[id] = roots[id]
          /\ roots'[v].cache[k] \in {db[v][k], None}
          /\ \A j \in Keys : j # k => roots'[v].cache[j] \in {roots[v].cache[j], None}
          /\ faults' \subseteq Faults
      BY <1>1, <1>2, <3>1, <3>2, AddEffect, ZenonT(60)
    <3> QED BY <1>1, <3>3
  <2> QED BY <2>1, <2>2, ZenonT(60)
<1>7. readers' \in [Readers -> Reader] /\ readers'[r] = new
      /\ \A s \in Readers : s # r => readers'[s] = readers[s]
  BY <1>1, <1>4, <1>5
<1>8. StateTypeOK' /\ ViewsCommitted'
  BY <1>1, <1>3, <1>5, <1>6, <1>7, ZenonT(60) DEF StateTypeOK, ViewsCommitted
<1>9. LockExclusive' /\ BatchInProgress'
  BY <1>3, ZenonT(60) DEF LockExclusive, ExclusiveHeld, BatchInProgress
<1>10. HeldRootIsLive'
  BY <1>3, <1>5, <1>7, ZenonT(60) DEF HeldRootIsLive
<1>11. ReadersHaveKeys' /\ ReadsNeverStale'
  BY <1>1, <1>3, <1>5, <1>7 DEF ReadersHaveKeys, ReadsNeverStale
<1>12. StorageUncached'
  <2> SUFFICES ASSUME ~WithStorage, NEW id \in live', NEW j \in StorageKeys
               PROVE  roots'[id].cache[j] = None
    BY DEF StorageUncached
  <2>1. roots[id].cache[j] = None /\ id \in ViewIds /\ j \in Keys /\ j # k
    BY <1>1, <1>3, KeysAssumption DEF StorageUncached, Keys
  <2> QED BY <1>6, <2>1, ZenonT(60)
<1>13. CacheCoherent'
  <2> SUFFICES ASSUME NEW id \in live', NEW j \in Keys
               PROVE  roots'[id].cache[j] \in {None, db'[id][j]}
    BY DEF CacheCoherent
  <2>1. roots[id].cache[j] \in {None, db[id][j]} /\ id \in ViewIds
    BY <1>1, <1>3, ZenonT(60) DEF CacheCoherent
  <2> QED BY <1>3, <1>6, <2>1, ZenonT(60)
<1> QED BY <1>8, <1>9, <1>10, <1>11, <1>12, <1>13

\* Every step keeps the invariant.
LEMMA NextCoherent == CoherenceInv /\ [Next]_vars => CoherenceInv'
<1> SUFFICES ASSUME CoherenceInv, [Next]_vars PROVE CoherenceInv'
  OBVIOUS
<1>1. CASE Commit
  BY <1>1, CommitCoherent
<1>2. CASE StreamNext
  BY <1>2, ReceiveBatchCoherent, AdvanceRootCoherent, ProcessChangeCoherent,
     PublishRootCoherent DEF StreamNext
<1>3. ASSUME NEW r \in Readers, ReaderNext(r) PROVE CoherenceInv'
  BY <1>3, QuietStepsCoherent, GetViewCoherent, GetCoherent, MissAddCoherent
     DEF ReaderNext
<1>4. CASE UNCHANGED vars
  <2> USE <1>4 DEF vars, CoherenceInv
  <2>1. StateTypeOK' /\ ViewsCommitted' /\ ReadersHaveKeys'
    BY DEF StateTypeOK, ViewsCommitted, ReadersHaveKeys
  <2>2. LockExclusive' /\ HeldRootIsLive'
    BY ZenonT(60) DEF LockExclusive, SharedHeld, ExclusiveHeld, HeldRootIsLive
  <2>3. StorageUncached' /\ CacheCoherent'
    BY ZenonT(60) DEF StorageUncached, CacheCoherent
  <2>4. BatchInProgress'
    BY DEF BatchInProgress, WritesKey
  <2>5. ReadsNeverStale'
    BY ZenonT(60) DEF ReadsNeverStale
  <2> QED BY <2>1, <2>2, <2>3, <2>4, <2>5
<1> QED BY <1>1, <1>2, <1>3, <1>4 DEF Next, Ended

-----------------------------------------------------------------------------

\* The inductive invariant of the cache holds in every reachable state.
THEOREM CoherenceInvariant == Spec => []CoherenceInv
<1>1. Init => CoherenceInv
  BY InitCoherent
<1>2. CoherenceInv /\ [Next]_vars => CoherenceInv'
  BY NextCoherent
<1> QED BY <1>1, <1>2, PTL DEF Spec

\* Types: every variable but the eviction lists has its type.
THEOREM TypeCorrect == Spec => []StateTypeOK
<1>1. CoherenceInv => StateTypeOK
  BY DEF CoherenceInv
<1> QED BY <1>1, CoherenceInvariant, PTL

\* Coherence: an entry of a view is the entry of its snapshot, however batches
\* were lost and whatever on_new_block inherited, add added or evicted.
THEOREM Coherence == Spec => []CacheCoherent
<1>1. CoherenceInv => CacheCoherent
  BY DEF CoherenceInv
<1> QED BY <1>1, CoherenceInvariant, PTL

\* get_one never answers with the value of another snapshot.
THEOREM NeverStale == Spec => []ReadsNeverStale
<1>1. CoherenceInv => ReadsNeverStale
  BY DEF CoherenceInv
<1> QED BY <1>1, CoherenceInvariant, PTL

\* The references that get keeps across its database read stay valid.
THEOREM HeldRoots == Spec => []HeldRootIsLive
<1>1. CoherenceInv => HeldRootIsLive
  BY DEF CoherenceInv
<1> QED BY <1>1, CoherenceInvariant, PTL

(***************************************************************************)
(* StateCache implements SnapshotReads: one lemma per kind of step.        *)
(***************************************************************************)


\* The start of get_one's callers is the start of the abstract readers.
LEMMA InitRefines == Init => Abstract!Init
<1> SUFFICES ASSUME Init PROVE Abstract!Init
  OBVIOUS
<1>1. db \in [Views -> [Keys -> Bytes]] /\ head = FirstView
  BY ZenonT(60) DEF Init
<1>2. reads = [r \in Readers |->
                 [pc |-> "idle", view |-> FirstView, key |-> None, ret |-> None]]
  BY DEF Init, reads
<1> QED BY <1>1, <1>2 DEF Abstract!Init

\* A step inside get_one that gives no answer is invisible to its callers.
LEMMA InternalStepRefines ==
  ASSUME StateTypeOK, NEW r \in Readers, NEW pc,
         readers[r].pc # "idle", pc # "idle",
         readers' = [readers EXCEPT ![r].pc = pc]
  PROVE  reads' = reads
<1>1. \A s \in Readers : /\ readers[s] \in Reader
                         /\ readers'[s].view = readers[s].view
                         /\ readers'[s].key = readers[s].key
                         /\ readers'[s].ret = readers[s].ret
                         /\ readers'[s].pc = "idle" <=> readers[s].pc = "idle"
  BY DEF StateTypeOK, Reader
<1> QED BY <1>1 DEF reads

\* A step that ends get_one is the abstract answer, when the value is one the
\* abstract reader may have.
LEMMA AnswerRefines ==
  ASSUME StateTypeOK, NEW r \in Readers, NEW value, NEW new \in Reader,
         readers[r].pc # "idle", new.pc = "idle", new.ret = value,
         new.view = readers[r].view, new.key = readers[r].key,
         readers' = [readers EXCEPT ![r] = new],
         value \in {db[readers[r].view][readers[r].key], Empty, None},
         UNCHANGED <<db, head>>
  PROVE  Abstract!Answer(r)
<1>1. /\ readers'[r] = new
      /\ \A s \in Readers : s # r => readers'[s] = readers[s]
  BY DEF StateTypeOK
<1>2. reads[r].pc = "busy" /\ reads[r].view = readers[r].view /\ reads[r].key = readers[r].key
  BY ZenonT(60) DEF reads
<1>3. reads' = [reads EXCEPT ![r] = [pc |-> "idle", view |-> reads[r].view,
                                     key |-> reads[r].key, ret |-> value]]
  <2>1. reads'[r] = [pc |-> "idle", view |-> readers[r].view, key |-> readers[r].key,
                     ret |-> value]
    BY <1>1, ZenonT(60) DEF reads
  <2>2. \A s \in Readers : s # r => reads'[s] = reads[s]
    BY <1>1, ZenonT(60) DEF reads
  <2>3. reads' = [s \in Readers |-> reads'[s]] /\ reads = [s \in Readers |-> reads[s]]
    BY DEF reads
  <2> QED BY <1>2, <2>1, <2>2, <2>3
<1> QED BY <1>2, <1>3, ZenonT(60) DEF Abstract!Answer

\* A commit of the node is the abstract commit.
LEMMA CommitRefines == StateTypeOK /\ Commit => Abstract!Commit
BY ZenonT(60) DEF Commit, Abstract!Commit, reads

\* Every step of a reader is a step of its abstract reader, or none.
LEMMA ReaderRefines ==
  ASSUME CoherenceInv, NEW r \in Readers, ReaderNext(r)
  PROVE  Abstract!Begin(r) \/ Abstract!Ask(r) \/ Abstract!Answer(r)
           \/ UNCHANGED <<db, head, reads>>
<1> DEFINE v == readers[r].view
           k == readers[r].key
<1>1. StateTypeOK /\ readers[r] \in Reader /\ readers \in [Readers -> Reader]
  BY DEF CoherenceInv, StateTypeOK
<1>2. ASSUME NEW value \in Bytes \cup {None}, Return(r, value), readers[r].pc # "idle",
             value \in {db[v][k], Empty, None}, UNCHANGED <<db, head>>
      PROVE  Abstract!Answer(r)
  <2> DEFINE new == [readers[r] EXCEPT !.pc = "idle", !.ret = value]
  <2>1. readers' = [readers EXCEPT ![r] = new]
    BY <1>1, <1>2, ZenonT(60) DEF Return
  <2>2. new \in Reader /\ new.pc = "idle" /\ new.ret = value /\ new.view = v /\ new.key = k
    BY <1>1, ZenonT(60) DEF Reader
  <2> HIDE DEF new
  <2> QED BY <1>1, <1>2, <2>1, <2>2, AnswerRefines, ZenonT(60)
<1>3. ASSUME readers[r].pc # "idle" PROVE db[v][k] \in Bytes
  <2>1. v \in Views /\ k \in Keys
    BY <1>1, <1>3 DEF CoherenceInv, ReadersHaveKeys, Reader, Keys
  <2> QED BY <2>1, <1>1 DEF StateTypeOK
<1>4. CASE BeginTransaction(r)
  <2>1. reads[r].pc = "idle" /\ UNCHANGED <<db, head>>
    BY <1>4 DEF BeginTransaction, reads, node
  <2>2. readers' = [readers EXCEPT ![r].view = head, ![r].ret = None]
    BY <1>4 DEF BeginTransaction
  <2>3. /\ readers'[r].view = head /\ readers'[r].ret = None
        /\ readers'[r].pc = readers[r].pc /\ readers'[r].key = readers[r].key
        /\ \A s \in Readers : s # r => readers'[s] = readers[s]
    BY <2>2, <1>1 DEF Reader
  <2>4. reads' = [reads EXCEPT ![r] = [pc |-> @.pc, view |-> head,
                                       key |-> @.key, ret |-> None]]
    BY <2>3, <1>1, ZenonT(60) DEF reads, Reader
  <2> QED BY <2>1, <2>4 DEF Abstract!Begin
<1>5. CASE GetOne(r)
  <2>1. reads[r].pc = "idle" /\ UNCHANGED <<db, head>>
    BY <1>5 DEF GetOne, reads, node
  <2>2. PICK key \in AccountKeys \cup CodeKeys :
          readers' = [readers EXCEPT ![r].pc = "locking_view", ![r].key = key, ![r].ret = None]
    BY <1>5, ZenonT(60) DEF GetOne
  <2>3. /\ readers'[r].pc = "locking_view" /\ readers'[r].key = key
        /\ readers'[r].ret = None /\ readers'[r].view = readers[r].view
        /\ \A s \in Readers : s # r => readers'[s] = readers[s]
    BY <2>2, <1>1 DEF Reader
  <2>4. reads' = [reads EXCEPT ![r] = [pc |-> "busy", view |-> @.view,
                                       key |-> key, ret |-> None]]
    BY <2>3, <1>1, ZenonT(60) DEF reads, Reader
  <2> QED BY <2>1, <2>4, ZenonT(60) DEF Abstract!Ask
<1>6. CASE GetView(r)
  BY <1>1, <1>6, InternalStepRefines, ZenonT(60) DEF GetView, node
<1>7. CASE FallbackRead(r)
  BY <1>2, <1>3, <1>7, ZenonT(60) DEF FallbackRead, node
<1>8. CASE GetNoRoot(r)
  BY <1>2, <1>8, ZenonT(60) DEF GetNoRoot, node, Bytes
<1>9. CASE GetHit(r)
  <2>1. roots[v].cache[k] = db[v][k] /\ readers[r].pc = "has_view" /\ UNCHANGED <<db, head>>
    <3>1. /\ v \in live /\ stream.pc # "applying" /\ roots[v].cache[k] # None
          /\ readers[r].pc = "has_view" /\ UNCHANGED <<db, head>>
      BY <1>9 DEF GetHit, Entry, CanLockShared, ExclusiveHeld, node
    <3>2. k \in Keys
      BY <1>1, <3>1 DEF CoherenceInv, ReadersHaveKeys, Reader, Keys
    <3> QED BY <3>1, <3>2 DEF CoherenceInv, CacheCoherent
  <2>2. CASE v = latestId
    BY <1>1, <1>9, <2>1, <2>2, InternalStepRefines DEF GetHit, Entry
  <2>3. CASE v # latestId
    BY <1>2, <1>3, <1>9, <2>1, <2>3 DEF GetHit, Entry
  <2> QED BY <2>2, <2>3, ZenonT(60)
<1>10. CASE HitPushFront(r)
  <2>1. roots[v].cache[k] = db[v][k] /\ readers[r].pc = "hit" /\ UNCHANGED <<db, head>>
    <3>1. readers[r].pc = "hit" /\ UNCHANGED <<db, head>>
      BY <1>10, ZenonT(60) DEF HitPushFront, Entry, node
    <3>2. v \in live /\ stream.pc # "applying" /\ roots[v].cache[k] # None
      BY <3>1 DEF CoherenceInv, HeldRootIsLive, LockExclusive, SharedHeld, ExclusiveHeld
    <3>3. k \in Keys
      BY <1>1, <3>1 DEF CoherenceInv, ReadersHaveKeys, Reader, Keys
    <3> QED BY <3>1, <3>2, <3>3 DEF CoherenceInv, CacheCoherent
  <2> QED BY <1>2, <1>3, <1>10, <2>1, ZenonT(60) DEF HitPushFront, Entry
<1>11. CASE GetMiss(r)
  BY <1>1, <1>11, InternalStepRefines, ZenonT(60) DEF GetMiss, node
<1>12. CASE MissRead(r)
  <2>1. CASE db[v][k] = Empty
    BY <1>2, <1>12, <2>1 DEF MissRead, node, Bytes
  <2>2. CASE db[v][k] # Empty
    BY <1>1, <1>12, <2>2, InternalStepRefines DEF MissRead, node
  <2> QED BY <2>1, <2>2
<1>13. CASE MissAdd(r)
  <2> DEFINE new == [readers[r] EXCEPT !.pc = "idle", !.ret = db[v][k], !.dangling = FALSE]
  <2>1. /\ readers' = [readers EXCEPT ![r] = new] /\ readers[r].pc = "relocking"
        /\ UNCHANGED <<db, head>>
    BY <1>1, <1>13, ZenonT(60) DEF MissAdd, node
  <2>2. /\ new \in Reader /\ new.pc = "idle" /\ new.ret = db[v][k]
        /\ new.view = v /\ new.key = k
    BY <1>1, <1>3, <2>1, ZenonT(60) DEF Reader
  <2> HIDE DEF new
  <2> QED BY <1>1, <2>1, <2>2, AnswerRefines, ZenonT(60)
<1>14. CASE ReadFails(r)
  BY <1>2, <1>14 DEF ReadFails, node
<1> QED BY <1>4, <1>5, <1>6, <1>7, <1>8, <1>9, <1>10, <1>11, <1>12, <1>13, <1>14
        DEF ReaderNext

\* A step of the stream changes no answer and no snapshot.
LEMMA StreamRefines ==
  ASSUME CoherenceInv, StreamNext
  PROVE  UNCHANGED <<db, head, reads>>
<1>1. CASE ReceiveBatch
  BY <1>1 DEF ReceiveBatch, reads
<1>2. CASE AdvanceRoot
  <2>1. \A r \in Readers : readers[r] \in Reader
    BY DEF CoherenceInv, StateTypeOK
  <2>2. \A r \in Readers : readers'[r] \in {readers[r], [readers[r] EXCEPT !.dangling = TRUE]}
    BY <1>2 DEF AdvanceRoot
  <2>3. \A r \in Readers : /\ readers'[r].pc = readers[r].pc
                           /\ readers'[r].view = readers[r].view
                           /\ readers'[r].key = readers[r].key
                           /\ readers'[r].ret = readers[r].ret
    BY <2>1, <2>2 DEF Reader
  <2> QED BY <1>2, <2>3 DEF AdvanceRoot, reads, node
<1>3. CASE ProcessChange
  BY <1>3 DEF ProcessChange, reads, node
<1>4. CASE PublishRoot
  BY <1>4 DEF PublishRoot, reads, node
<1> QED BY <1>1, <1>2, <1>3, <1>4 DEF StreamNext

\* Every step of the cache is a step of SnapshotReads, or none.
LEMMA NextRefines ==
  CoherenceInv /\ [Next]_vars => [Abstract!Next]_(Abstract!vars)
<1> SUFFICES ASSUME CoherenceInv, [Next]_vars
             PROVE  Abstract!Next \/ UNCHANGED <<db, head, reads>>
  BY DEF Abstract!vars
<1>1. CASE Commit
  BY <1>1, CommitRefines DEF CoherenceInv, Abstract!Next
<1>2. CASE StreamNext
  BY <1>2, StreamRefines
<1>3. ASSUME NEW r \in Readers, ReaderNext(r)
      PROVE  Abstract!Next \/ UNCHANGED <<db, head, reads>>
  BY <1>3, ReaderRefines DEF Abstract!Next
<1>4. CASE UNCHANGED vars
  BY <1>4 DEF vars, reads
<1> QED BY <1>1, <1>2, <1>3, <1>4 DEF Next, Ended

-----------------------------------------------------------------------------

\* Through the cache get_one keeps the promise of SnapshotReads: its callers
\* see the one snapshot of their transaction, for any number of readers, views
\* and keys, and whatever the races on the eviction lists do.
THEOREM Refinement == Spec => ImplementsSnapshotReads
<1>1. Init => Abstract!Init
  BY InitRefines
<1>2. CoherenceInv /\ [Next]_vars => [Abstract!Next]_(Abstract!vars)
  BY NextRefines
<1> QED BY <1>1, <1>2, CoherenceInvariant, PTL
        DEF Spec, ImplementsSnapshotReads, Abstract!Spec

\* evict_roots for the view after the latest one: of the views up to it, at most
\* max_views are kept.
LEMMA EvictRootsBound ==
  ASSUME latestId \in Nat, latestId >= MaxViews - 1, latestId + 1 < IdSpace,
         NEW ids, IsFiniteSet(ids), ids \subseteq Nat
  PROVE  Cardinality({id \in EvictRoots(ids, latestId + 1) : id <= latestId + 1}) <= MaxViews
<1> DEFINE next == latestId + 1
           bound == latestId - MaxViews + 1
           kept == EvictRoots(ids, next)
           older == {id \in kept : id <= next}
<1>1. MaxViews \in Nat \ {0} /\ IdSpace \in Nat /\ next \in Nat \ {0} /\ bound \in 0 .. IdSpace - 1
  BY ConfigAssumption, BoundAssumption
<1>2. bound % IdSpace = bound
  BY <1>1, SMT
<1>3. CASE Cardinality(ids) <= MaxViews
  <2>1. older \in SUBSET ids
    BY <1>3 DEF EvictRoots
  <2> HIDE DEF older
  <2>2. /\ Cardinality(older) <= Cardinality(ids)
        /\ Cardinality(older) \in Nat /\ Cardinality(ids) \in Nat
    BY <2>1, FS_Subset, FS_CardinalityType, ZenonT(60)
  <2>3. Cardinality(older) <= MaxViews
    BY <1>1, <1>3, <2>2
  <2> QED BY <2>3 DEF older
<1>4. CASE ~(Cardinality(ids) <= MaxViews)
  <2>1. kept = {id \in ids : id > bound}
    BY <1>1, <1>2, <1>4, ZenonT(60) DEF EvictRoots
  <2>2. ASSUME NEW id \in older PROVE id \in bound + 1 .. next
    <3>1. id \in Nat /\ id > bound /\ id <= next
      BY <2>1, ZenonT(60)
    <3> QED BY <1>1, <3>1
  <2> HIDE DEF older
  <2>3. IsFiniteSet(bound + 1 .. next) /\ Cardinality(bound + 1 .. next) = MaxViews
    BY <1>1, FS_Interval
  <2>4. Cardinality(older) <= MaxViews
    BY <2>2, <2>3, FS_Subset, ZenonT(60)
  <2> QED BY <2>4 DEF older
<1> QED BY <1>3, <1>4

\* The latest view changes only in advance_root.
LEMMA OnlyAdvanceMoves == ASSUME [Next]_vars PROVE AdvanceRoot \/ UNCHANGED latestId
<1>1. CASE Commit
  BY <1>1, ZenonT(60) DEF Commit, cache
<1>2. CASE ReceiveBatch
  BY <1>2, ZenonT(60) DEF ReceiveBatch, cache
<1>3. CASE ProcessChange
  BY <1>3, ZenonT(60) DEF ProcessChange, Add
<1>4. CASE PublishRoot
  BY <1>4, ZenonT(60) DEF PublishRoot
<1>5. ASSUME NEW r \in Readers, BeginTransaction(r) PROVE UNCHANGED latestId
  BY <1>5, ZenonT(60) DEF BeginTransaction, cache
<1>6. ASSUME NEW r \in Readers, GetOne(r) PROVE UNCHANGED latestId
  BY <1>6, ZenonT(60) DEF GetOne, cache
<1>7. ASSUME NEW r \in Readers, GetView(r) PROVE UNCHANGED latestId
  BY <1>7, ZenonT(60) DEF GetView
<1>8. ASSUME NEW r \in Readers, FallbackRead(r) PROVE UNCHANGED latestId
  BY <1>8, ZenonT(60) DEF FallbackRead, cache
<1>9. ASSUME NEW r \in Readers, GetNoRoot(r) PROVE UNCHANGED latestId
  BY <1>9, ZenonT(60) DEF GetNoRoot, cache
<1>10. ASSUME NEW r \in Readers, GetHit(r) PROVE UNCHANGED latestId
  BY <1>10, ZenonT(60) DEF GetHit
<1>11. ASSUME NEW r \in Readers, HitPushFront(r) PROVE UNCHANGED latestId
  BY <1>11, ZenonT(60) DEF HitPushFront
<1>12. ASSUME NEW r \in Readers, GetMiss(r) PROVE UNCHANGED latestId
  BY <1>12, ZenonT(60) DEF GetMiss, cache
<1>13. ASSUME NEW r \in Readers, MissRead(r) PROVE UNCHANGED latestId
  BY <1>13, ZenonT(60) DEF MissRead, cache
<1>14. ASSUME NEW r \in Readers, MissAdd(r) PROVE UNCHANGED latestId
  BY <1>14, ZenonT(60) DEF MissAdd, Add
<1>15. ASSUME NEW r \in Readers, ReadFails(r) PROVE UNCHANGED latestId
  BY <1>15, ZenonT(60) DEF ReadFails, cache
<1>16. CASE StreamNext
  BY <1>16, <1>2, <1>3, <1>4, ZenonT(60) DEF StreamNext
<1>17. ASSUME NEW r \in Readers, ReaderNext(r) PROVE UNCHANGED latestId
  BY <1>17, <1>5, <1>6, <1>7, <1>8, <1>9, <1>10, <1>11, <1>12, <1>13, <1>14, <1>15, ZenonT(60)
  DEF ReaderNext
<1>18. CASE UNCHANGED vars
  BY <1>18, ZenonT(60) DEF vars
<1> QED BY <1>1, <1>16, <1>17, <1>18, ZenonT(60) DEF Next, Ended

\* max_views bounds the older views, although evict_roots counts ids and its
\* subtraction wraps: when a batch follows the one of its parent, at most
\* max_views views are left up to its own.
THEOREM BoundedViews == Spec => ViewsBounded
<1> DEFINE Bounded == latestId' = latestId + 1 /\ latestId >= MaxViews - 1
                        => Cardinality({id \in live' : id <= latestId'}) <= MaxViews
<1>1. ASSUME CoherenceInv, [Next]_vars, latestId' = latestId + 1, latestId >= MaxViews - 1
      PROVE  Cardinality({id \in live' : id <= latestId'}) <= MaxViews
  <2>1. latestId \in Nat /\ latestId # latestId'
    BY <1>1, ViewsAreIds DEF CoherenceInv, StateTypeOK
  <2>2. AdvanceRoot
    <3>1. ~ UNCHANGED latestId
      BY <2>1
    <3> QED BY <1>1, <3>1, OnlyAdvanceMoves, ZenonT(60)
  <2> DEFINE ids == live \cup {latestId + 1}
  <2>3. stream.view = latestId + 1 /\ live' = EvictRoots(ids, latestId + 1)
    BY <1>1, <2>2, ZenonT(60) DEF AdvanceRoot
  <2>4. ids \subseteq Views
    BY <1>1, <2>3 DEF CoherenceInv, StateTypeOK, Stream
  <2>5. IsFiniteSet(ids) /\ ids \subseteq Nat /\ latestId + 1 < IdSpace
    <3>1. IsFiniteSet(Views) /\ Views \subseteq Nat
      BY FS_Interval, BoundAssumption DEF Views, ViewIds
    <3>2. latestId + 1 \in Views
      BY <2>4
    <3> QED BY <2>4, <3>1, <3>2, FS_Subset, BoundAssumption DEF Views, ViewIds
  <2> HIDE DEF ids
  <2>6. Cardinality({id \in EvictRoots(ids, latestId + 1) : id <= latestId + 1}) <= MaxViews
    BY <1>1, <2>1, <2>5, EvictRootsBound, ZenonT(60)
  <2> QED BY <1>1, <2>3, <2>6
<1>2. CoherenceInv /\ [Next]_vars => [Bounded]_vars
  BY <1>1
<1> QED BY <1>2, CoherenceInvariant, PTL DEF Spec, ViewsBounded

(***************************************************************************)
(* The eviction lists.                                                     *)
(***************************************************************************)

\* View v has not been the latest: its batch has not come.
Unadvanced(v) == v > latestId \/ (latestId = 0 /\ ~roots[0].canonical)

\* Batches come in the order of their views, and a view that has had none is empty.
ViewsInOrder ==
  /\ latestId <= head
  /\ \A v \in ViewIds : v \notin live \/ Unadvanced(v) => roots[v] = NewRoot
  /\ \A i \in 1 .. Len(inflight) : Unadvanced(inflight[i])
  /\ \A i, j \in 1 .. Len(inflight) : i < j => inflight[i] < inflight[j]
  /\ stream.pc = "locking" =>
        Unadvanced(stream.view) /\ \A i \in 1 .. Len(inflight) : stream.view < inflight[i]
  /\ stream.pc = "applying" =>
        stream.view = latestId /\ latestId \in live /\ roots[latestId].canonical

\* A view that is used has had its batch, and a key is only moved in the latest.
ReadersInOrder ==
  \A r \in Readers :
    /\ readers[r].pc \in {"has_view", "hit", "awaiting", "relocking"} =>
          ~Unadvanced(readers[r].view)
    /\ readers[r].pc = "hit" => readers[r].view = latestId
    /\ readers[r].pc = "relocking" => readers[r].dangling \/ readers[r].view \in live

\* A reader is moving a key of table t.
Moving(t) == \E r \in Readers : readers[r].pc = "hit" /\ TableOf(readers[r].key) = t

\* The list of table t: the keys of the latest view but the one being moved.
ListExact(t) ==
  /\ evictions[t] \in Seq(Keys)
  /\ IsInjective(evictions[t])
  /\ Range(evictions[t]) = CachedIn(roots[latestId].cache, t) \ Unlisted(t)
  /\ Len(evictions[t]) <= MaxKeys(t)
  /\ Moving(t) => Len(evictions[t]) < MaxKeys(t)
  /\ \A r, s \in Readers :
        /\ readers[r].pc = "hit" /\ TableOf(readers[r].key) = t
        /\ readers[s].pc = "hit" /\ TableOf(readers[s].key) = t
        => r = s

ListsExact ==
  /\ ViewsInOrder /\ ReadersInOrder
  /\ DOMAIN evictions = Tables
  /\ \A t \in Tables : ListExact(t)

ListInv == faults = {} => ListsExact

\* Numbering the elements of a finite set of naturals in their order is a bijection.
LEMMA RanksAreBijective ==
  ASSUME NEW kept, kept \subseteq Nat, IsFiniteSet(kept)
  PROVE  LET rank == [i \in kept |-> Cardinality({j \in kept : j <= i})]
         IN  /\ Cardinality(kept) \in Nat
             /\ rank \in [kept -> 1 .. Cardinality(kept)]
             /\ \A i, j \in kept : rank[i] = rank[j] => i = j
             /\ \A n \in 1 .. Cardinality(kept) : \E i \in kept : rank[i] = n
<1> DEFINE UpTo(i) == {j \in kept : j <= i}
           N == Cardinality(kept)
           rank == [i \in kept |-> Cardinality(UpTo(i))]
<1>1. N \in Nat
  BY FS_CardinalityType
<1>2. ASSUME NEW i \in kept
      PROVE  IsFiniteSet(UpTo(i)) /\ Cardinality(UpTo(i)) \in 1 .. N
  <2>1. UpTo(i) \in SUBSET kept /\ i \in UpTo(i)
    OBVIOUS
  <2> HIDE DEF UpTo
  <2>2. IsFiniteSet(UpTo(i)) /\ Cardinality(UpTo(i)) <= N
    BY <2>1, FS_Subset
  <2>3. Cardinality(UpTo(i)) \in Nat /\ Cardinality(UpTo(i)) # 0
    BY <2>1, <2>2, FS_CardinalityType, FS_EmptySet
  <2> QED BY <1>1, <2>2, <2>3
<1>3. ASSUME NEW i \in kept, NEW j \in kept, i < j
      PROVE  Cardinality(UpTo(i)) # Cardinality(UpTo(j))
  <2>1. ASSUME NEW x \in UpTo(i) PROVE x \in UpTo(j)
    BY <1>3
  <2>2. j \in UpTo(j) /\ j \notin UpTo(i)
    BY <1>3
  <2> HIDE DEF UpTo
  <2>3. UpTo(i) \in SUBSET UpTo(j) /\ UpTo(i) # UpTo(j)
    BY <2>1, <2>2
  <2> QED BY <1>2, <2>3, FS_Subset
<1>4. \A i, j \in kept : rank[i] = rank[j] => i = j
  BY <1>3
<1>5. rank \in [kept -> 1 .. N]
  BY <1>2
<1> HIDE DEF rank, N
<1>6. rank \in Injection(kept, 1 .. N)
  BY <1>4, <1>5 DEF Injection, IsInjective
<1>7. IsFiniteSet(1 .. N) /\ Cardinality(1 .. N) = N
  BY <1>1, FS_Interval
<1>8. rank \in Surjection(kept, 1 .. N)
  BY <1>6, <1>7, FS_Injection DEF N
<1>9. \A n \in 1 .. N : \E i \in kept : rank[i] = n
  BY <1>8, ZenonT(60) DEF Surjection
<1> QED BY <1>1, <1>4, <1>5, <1>9 DEF rank, N

\* list::remove takes away all copies of an element and nothing else.
LEMMA RemoveEffect ==
  ASSUME NEW S, NEW s \in Seq(S), NEW e
  PROVE  /\ Remove(s, e) \in Seq(S)
         /\ Range(Remove(s, e)) = Range(s) \ {e}
         /\ IsInjective(s) => IsInjective(Remove(s, e))
         /\ Len(Remove(s, e)) <= Len(s)
         /\ e \in Range(s) => Len(Remove(s, e)) < Len(s)
<1> DEFINE kept == {i \in DOMAIN s : s[i] # e}
           N == Cardinality(kept)
           rank == [i \in kept |-> Cardinality({j \in kept : j <= i})]
           Nth(n) == CHOOSE i \in kept : Cardinality({j \in kept : j <= i}) = n
           t == [n \in 1 .. N |-> s[Nth(n)]]
<1>1. /\ kept \in SUBSET (1 .. Len(s)) /\ kept \subseteq Nat /\ Len(s) \in Nat
      /\ \A i \in kept : s[i] \in S
  OBVIOUS
<1>2. IsFiniteSet(1 .. Len(s)) /\ Cardinality(1 .. Len(s)) = Len(s)
  <2> DEFINE L == Len(s)
  <2>1. L \in Nat
    BY <1>1
  <2> HIDE DEF L
  <2>2. IsFiniteSet(1 .. L) /\ Cardinality(1 .. L) = L
    BY <2>1, FS_Interval
  <2> QED BY <2>2 DEF L
<1>3. IsFiniteSet(kept) /\ N <= Len(s) /\ (N = Len(s) => kept = 1 .. Len(s))
  <2> HIDE DEF kept
  <2> QED BY <1>1, <1>2, FS_Subset, ZenonT(60)
<1>4. /\ N \in Nat
      /\ rank \in [kept -> 1 .. N]
      /\ \A i, j \in kept : rank[i] = rank[j] => i = j
      /\ \A n \in 1 .. N : \E i \in kept : rank[i] = n
  <2> HIDE DEF kept
  <2> QED BY <1>1, <1>3, RanksAreBijective, ZenonT(60)
<1>5. ASSUME NEW n \in 1 .. N PROVE Nth(n) \in kept /\ rank[Nth(n)] = n
  <2>1. \E i \in kept : Cardinality({j \in kept : j <= i}) = n
    <3> HIDE DEF kept
    <3> QED BY <1>4, ZenonT(60)
  <2> HIDE DEF kept
  <2> QED BY <2>1, ZenonT(60)
<1>6. ASSUME NEW i \in kept PROVE rank[i] \in 1 .. N /\ Nth(rank[i]) = i
  <2> HIDE DEF kept, rank, N, Nth
  <2> QED BY <1>4, <1>5
<1>7. Remove(s, e) = t
  BY ZenonT(60) DEF Remove
<1> HIDE DEF Nth, rank, N
<1>8. t \in Seq(S) /\ Len(t) = N /\ DOMAIN t = 1 .. N
  <2>1. \A n \in 1 .. N : s[Nth(n)] \in S
    BY <1>1, <1>5
  <2> QED BY <1>4, <2>1
<1>9. Range(t) = Range(s) \ {e}
  <2>1. ASSUME NEW n \in 1 .. N PROVE s[Nth(n)] \in Range(s) \ {e}
    BY <1>5 DEF Range
  <2>2. ASSUME NEW i \in DOMAIN s, s[i] # e PROVE \E n \in 1 .. N : t[n] = s[i]
    <3>1. i \in kept
      BY <2>2
    <3> QED BY <1>6, <3>1
  <2> QED BY <1>8, <2>1, <2>2 DEF Range
<1>10. ASSUME IsInjective(s) PROVE IsInjective(t)
  <2> SUFFICES ASSUME NEW m \in 1 .. N, NEW n \in 1 .. N, t[m] = t[n] PROVE m = n
    BY <1>8 DEF IsInjective
  <2>1. s[Nth(m)] = s[Nth(n)] /\ Nth(m) \in DOMAIN s /\ Nth(n) \in DOMAIN s
    BY <1>5
  <2>2. Nth(m) = Nth(n)
    BY <1>10, <2>1 DEF IsInjective
  <2> QED BY <1>5, <2>2
<1>11. e \in Range(s) => N # Len(s)
  BY <1>3 DEF Range
<1> QED BY <1>1, <1>3, <1>4, <1>7, <1>8, <1>9, <1>10, <1>11

\* push_front of a key that is not in the list.
LEMMA PushFrontEffect ==
  ASSUME NEW S, NEW s \in Seq(S), NEW e \in S, e \notin Range(s), IsInjective(s)
  PROVE  /\ <<e>> \o s \in Seq(S)
         /\ IsInjective(<<e>> \o s)
         /\ Range(<<e>> \o s) = Range(s) \cup {e}
         /\ Len(<<e>> \o s) = Len(s) + 1
<1> DEFINE p == <<e>> \o s
<1>1. /\ p \in Seq(S) /\ Len(p) = Len(s) + 1 /\ Len(s) \in Nat
      /\ p[1] = e /\ \A i \in 1 .. Len(s) : p[i + 1] = s[i]
  OBVIOUS
<1>2. DOMAIN p = 1 .. Len(s) + 1 /\ DOMAIN s = 1 .. Len(s)
  BY <1>1
<1>3. \A i \in 2 .. Len(s) + 1 : i - 1 \in 1 .. Len(s) /\ p[i] = s[i - 1]
  BY <1>1
<1> HIDE DEF p
<1>4. IsInjective(p)
  <2> SUFFICES ASSUME NEW i \in 1 .. Len(s) + 1, NEW j \in 1 .. Len(s) + 1, p[i] = p[j]
               PROVE  i = j
    BY <1>2 DEF IsInjective
  <2>1. CASE i = 1 \/ j = 1
    <3>1. \A n \in 2 .. Len(s) + 1 : p[n] # e
      BY <1>2, <1>3 DEF Range
    <3> QED BY <1>1, <2>1, <3>1
  <2>2. CASE i # 1 /\ j # 1
    <3>1. i - 1 \in 1 .. Len(s) /\ j - 1 \in 1 .. Len(s) /\ s[i - 1] = s[j - 1]
      BY <1>1, <1>3, <2>2
    <3>2. i - 1 = j - 1
      BY <1>2, <3>1 DEF IsInjective
    <3> QED BY <3>2
  <2> QED BY <2>1, <2>2
<1>5. Range(p) = Range(s) \cup {e}
  <2>1. ASSUME NEW i \in 1 .. Len(s) + 1 PROVE p[i] \in Range(s) \cup {e}
    <3>1. CASE i = 1
      BY <1>1, <3>1
    <3>2. CASE i # 1
      <4>1. i - 1 \in DOMAIN s /\ p[i] = s[i - 1]
        BY <1>1, <1>2, <1>3, <3>2
      <4> QED BY <4>1 DEF Range
    <3> QED BY <3>1, <3>2
  <2>2. ASSUME NEW i \in 1 .. Len(s) PROVE s[i] \in Range(p)
    <3>1. i + 1 \in DOMAIN p /\ p[i + 1] = s[i]
      BY <1>1, <1>2
    <3> QED BY <3>1 DEF Range
  <2>3. e \in Range(p)
    BY <1>1, <1>2 DEF Range
  <2> QED BY <1>2, <2>1, <2>2, <2>3 DEF Range
<1> QED BY <1>1, <1>4, <1>5 DEF p

\* pop_back.
LEMMA FrontEffect ==
  ASSUME NEW S, NEW s \in Seq(S), Len(s) > 0, IsInjective(s)
  PROVE  /\ Front(s) \in Seq(S)
         /\ IsInjective(Front(s))
         /\ Range(Front(s)) = Range(s) \ {Last(s)}
         /\ Len(Front(s)) = Len(s) - 1
         /\ Last(s) \in Range(s)
<1> DEFINE p == Front(s)
           n == Len(s)
<1>1. n \in Nat /\ n > 0 /\ DOMAIN s = 1 .. n
  OBVIOUS
<1>2. p \in Seq(S) /\ Len(p) = n - 1 /\ \A i \in 1 .. n - 1 : p[i] = s[i]
  <2>1. n - 1 \in Nat /\ \A i \in 1 .. n - 1 : s[i] \in S
    BY <1>1
  <2>2. SubSeq(s, 1, n - 1) = [i \in 1 .. n - 1 |-> s[i]]
    BY <1>1, <2>1
  <2> HIDE DEF n
  <2>3. [i \in 1 .. n - 1 |-> s[i]] \in Seq(S) /\ Len([i \in 1 .. n - 1 |-> s[i]]) = n - 1
    BY <2>1
  <2> QED BY <2>2, <2>3, ZenonT(60) DEF Front, n
<1>3. DOMAIN p = 1 .. n - 1
  BY <1>1, <1>2
<1>4. Last(s) = s[n]
  BY DEF Last
<1> HIDE DEF p, n
<1>5. IsInjective(p)
  BY <1>1, <1>2, <1>3 DEF IsInjective
<1>6. ASSUME NEW i \in 1 .. n - 1 PROVE p[i] \in Range(s) \ {s[n]}
  BY <1>1, <1>2 DEF Range, IsInjective
<1>7. ASSUME NEW i \in 1 .. n, s[i] # s[n] PROVE s[i] \in Range(p)
  <2>1. i \in 1 .. n - 1 /\ p[i] = s[i]
    BY <1>1, <1>2, <1>7
  <2> QED BY <1>3, <2>1 DEF Range
<1>8. s[n] \in Range(s)
  BY <1>1 DEF Range
<1>9. Range(p) = Range(s) \ {s[n]}
  <2>1. ASSUME NEW x \in Range(p) PROVE x \in Range(s) \ {s[n]}
    BY <1>3, <1>6 DEF Range
  <2>2. ASSUME NEW x \in Range(s), x # s[n] PROVE x \in Range(p)
    BY <1>1, <1>7, <2>2 DEF Range
  <2> QED BY <2>1, <2>2
<1> QED BY <1>2, <1>4, <1>5, <1>8, <1>9 DEF p, n

\* A step that leaves the lists, the latest entries and the hits alone.
LEMMA ListsKept ==
  ASSUME \A t \in Tables : ListExact(t),
         evictions' = evictions,
         roots'[latestId'].cache = roots[latestId].cache,
         \A r \in Readers : /\ readers'[r].pc = "hit" <=> readers[r].pc = "hit"
                            /\ readers[r].pc = "hit" => readers'[r].key = readers[r].key
  PROVE  \A t \in Tables : ListExact(t)'
<1> SUFFICES ASSUME NEW t \in Tables PROVE ListExact(t)'
  OBVIOUS
<1>1. Unlisted(t)' = Unlisted(t)
  BY ZenonT(60) DEF Unlisted
<1>2. (Moving(t)' <=> Moving(t)) /\ Moving(t) \in BOOLEAN
  BY ZenonT(60) DEF Moving
<1>3. CachedIn(roots[latestId].cache, t)' = CachedIn(roots[latestId].cache, t)
  BY DEF CachedIn
<1>4. \A r, s \in Readers :
        /\ readers'[r].pc = "hit" /\ TableOf(readers'[r].key) = t
        /\ readers'[s].pc = "hit" /\ TableOf(readers'[s].key) = t
        => r = s
  <2> SUFFICES ASSUME NEW r \in Readers, NEW s \in Readers,
                      readers'[r].pc = "hit", TableOf(readers'[r].key) = t,
                      readers'[s].pc = "hit", TableOf(readers'[s].key) = t
               PROVE  r = s
    BY ZenonT(60)
  <2>1. /\ readers[r].pc = "hit" /\ TableOf(readers[r].key) = t
        /\ readers[s].pc = "hit" /\ TableOf(readers[s].key) = t
    BY ZenonT(60)
  <2> QED BY <2>1, ZenonT(60) DEF ListExact
<1> QED BY <1>1, <1>2, <1>3, <1>4, ZenonT(60) DEF ListExact, MaxKeys, TableOf

\* No key is being moved: the lists are those of the latest entries.
LEMMA NoneMoving ==
  ASSUME \A r \in Readers : readers[r].pc # "hit", NEW t \in Tables
  PROVE  Unlisted(t) = {} /\ ~Moving(t)
BY DEF Unlisted, Moving

\* The same, stated of a table whose list and entries stay.
LEMMA ListsOfOther ==
  ASSUME NEW t \in Tables, ListExact(t), evictions'[t] = evictions[t],
         CachedIn(roots'[latestId'].cache, t) = CachedIn(roots[latestId].cache, t),
         \A r \in Readers : readers[r].pc # "hit",
         \A r \in Readers : readers'[r].pc # "hit"
  PROVE  ListExact(t)'
<1>1. Unlisted(t) = {} /\ ~Moving(t) /\ Unlisted(t)' = {} /\ ~Moving(t)'
  BY ZenonT(60) DEF Unlisted, Moving
<1> QED BY <1>1, ZenonT(60) DEF ListExact, CachedIn

\* add and add_code leave the flags of the views alone.
LEMMA AddKeepsFlags ==
  ASSUME StateTypeOK, NEW v \in ViewIds, NEW k \in Keys, NEW value \in Bytes,
         Add(v, k, value)
  PROVE  \A id \in ViewIds : roots'[id].canonical = roots[id].canonical
<1>1. \E c : roots' = [roots EXCEPT ![v].cache = c]
  BY ZenonT(60) DEF Add
<1> QED BY <1>1 DEF StateTypeOK, CoherentStateRoot

\* What add lists: the key in front of the others, each entry once.
LEMMA ListedByAdd ==
  ASSUME StateTypeOK, NEW k \in Keys, NEW value \in Bytes,
         ListExact(TableOf(k)), \A r \in Readers : readers[r].pc # "hit",
         NEW replaced \in ReplacedKeys(roots[latestId].cache, k),
         roots[latestId].cache[k] # None => replaced = k
  PROVE  LET t == TableOf(k)
             listed == <<k>> \o Remove(evictions[t], replaced)
             added == [roots[latestId].cache EXCEPT ![k] = value]
         IN  /\ listed \in Seq(Keys) /\ IsInjective(listed)
             /\ Range(listed) = CachedIn(added, t)
             /\ Len(listed) \in 1 .. MaxKeys(t) + 1
<1> DEFINE t == TableOf(k)
           before == roots[latestId].cache
           list == evictions[t]
           rest == Remove(list, replaced)
           added == [before EXCEPT ![k] = value]
<1>1. t \in Tables /\ MaxKeys(t) \in Nat
  BY ConfigAssumption DEF TableOf, Tables, MaxKeys
<1>2. latestId \in ViewIds /\ before \in [Keys -> Bytes \cup {None}]
  BY ViewsAreIds, BoundAssumption DEF StateTypeOK, CoherentStateRoot, ViewIds
<1>3. /\ list \in Seq(Keys) /\ IsInjective(list)
      /\ Range(list) = CachedIn(before, t) /\ Len(list) <= MaxKeys(t)
  <2>1. Unlisted(t) = {} /\ ~Moving(t)
    BY <1>1, NoneMoving, ZenonT(60)
  <2>2. Range(list) = CachedIn(before, t) \ {}
    BY <2>1, ZenonT(60) DEF ListExact
  <2> QED BY <2>2, ZenonT(60) DEF ListExact
<1>4. k \in CachedIn(before, t) <=> before[k] # None
  BY ZenonT(60) DEF CachedIn
<1>5. replaced = IF before[k] # None THEN k ELSE None
  BY <1>4, ZenonT(60) DEF ReplacedKeys
<1>6. /\ rest \in Seq(Keys) /\ IsInjective(rest) /\ Range(rest) = Range(list) \ {replaced}
      /\ Len(rest) <= Len(list)
      /\ replaced \in Range(list) => Len(rest) < Len(list)
  <2> HIDE DEF list
  <2> QED BY <1>3, RemoveEffect, ZenonT(60)
<1>7. Range(rest) = CachedIn(before, t) \ {k} /\ Len(rest) <= MaxKeys(t)
  <2>1. None \notin CachedIn(before, t)
    BY NoneAssumption, ZenonT(60) DEF CachedIn
  <2>2. Len(rest) \in Nat /\ Len(list) \in Nat
    BY <1>3, <1>6, LengthInNat, ZenonT(60)
  <2>3. CachedIn(before, t) \ {replaced} = CachedIn(before, t) \ {k}
    BY <1>4, <1>5, <2>1, ZenonT(60)
  <2> HIDE DEF rest, list
  <2>4. Range(rest) = CachedIn(before, t) \ {k}
    BY <1>3, <1>6, <2>3, ZenonT(60)
  <2>5. Len(rest) <= MaxKeys(t)
    BY <1>1, <1>3, <1>6, <2>2, LengthOrder, ZenonT(60)
  <2> QED BY <2>4, <2>5, ZenonT(60)
<1>8. CachedIn(added, t) = (CachedIn(before, t) \ {k}) \cup {k}
  <2>1. value # None
    BY NoneAssumption, ZenonT(60)
  <2> QED BY <1>2, <2>1 DEF CachedIn
<1> HIDE DEF rest, added
<1>9. /\ <<k>> \o rest \in Seq(Keys) /\ IsInjective(<<k>> \o rest)
      /\ Range(<<k>> \o rest) = Range(rest) \cup {k} /\ Len(<<k>> \o rest) = Len(rest) + 1
  <2>1. k \notin Range(rest)
    BY <1>7, ZenonT(60)
  <2>2. k \in Keys
    BY ZenonT(60)
  <2> QED BY ONLY <1>6, <2>1, <2>2, PushFrontEffect
<1>10. Len(<<k>> \o rest) \in 1 .. MaxKeys(t) + 1
  <2> DEFINE n == Len(rest)
             m == MaxKeys(t)
  <2>1. n \in Nat /\ m \in Nat /\ n <= m
    BY <1>1, <1>6, <1>7, LengthInNat, ZenonT(60)
  <2>2. Len(<<k>> \o rest) = n + 1
    BY <1>9, ZenonT(60)
  <2> HIDE DEF n, m
  <2>3. n + 1 \in 1 .. m + 1
    BY ONLY <2>1
  <2> QED BY <2>2, <2>3, ZenonT(60) DEF m
<1>11. Range(<<k>> \o rest) = CachedIn(added, t)
  BY <1>7, <1>8, <1>9, ZenonT(60)
<1> QED BY <1>9, <1>10, <1>11 DEF rest, added

\* add and add_code: without a misread slot the lists stay exact.
LEMMA AddLists ==
  ASSUME StateTypeOK, NEW v \in ViewIds, NEW k \in Keys, NEW value \in Bytes,
         Add(v, k, value), faults' = {}, latestId' = latestId,
         DOMAIN evictions = Tables, \A t \in Tables : ListExact(t),
         \A r \in Readers : readers[r].pc # "hit",
         \A r \in Readers : readers'[r].pc # "hit"
  PROVE  DOMAIN evictions' = Tables /\ \A t \in Tables : ListExact(t)'
<1>0. latestId \in ViewIds /\ roots[latestId] \in CoherentStateRoot
  <2>1. 0 \in ViewIds
    BY BoundAssumption DEF ViewIds
  <2>2. latestId \in Views \cup {0} /\ roots \in [ViewIds -> CoherentStateRoot]
    BY ZenonT(60) DEF StateTypeOK
  <2> QED BY <2>1, <2>2, ViewsAreIds, ZenonT(60)
<1>1. CASE latestId # v
  <2>1. evictions' = evictions /\ roots'[latestId] = roots[latestId]
    BY <1>0, <1>1, AddEffect, ZenonT(60) DEF Add
  <2> QED BY <2>1, ListsKept, ZenonT(60)
<1>2. CASE latestId = v
  <2> DEFINE t == TableOf(k)
             before == roots[v].cache
             added == [before EXCEPT ![k] = value]
             Listed(replaced) == <<k>> \o Remove(evictions[t], replaced)
  <2>1. PICK replaced \in ReplacedKeys(before, k) :
          /\ evictions' = [evictions EXCEPT ![t] =
                             IF Len(Listed(replaced)) > MaxKeys(t)
                             THEN Front(Listed(replaced)) ELSE Listed(replaced)]
          /\ roots' = [roots EXCEPT ![v].cache =
                         IF Len(Listed(replaced)) > MaxKeys(t)
                         THEN [added EXCEPT ![Last(Listed(replaced))] = None]
                         ELSE added]
          /\ faults' = faults
               \cup {f \in {"misread_slot"} : before[k] # None /\ replaced # k}
               \cup {f \in {"assertion"} : /\ Len(Listed(replaced)) > MaxKeys(t)
                                           /\ added[Last(Listed(replaced))] = None}
    BY <1>2 DEF Add
  <2> DEFINE listed == Listed(replaced)
             excess == Len(listed) > MaxKeys(t)
             list == IF excess THEN Front(listed) ELSE listed
             c == IF excess THEN [added EXCEPT ![Last(listed)] = None] ELSE added
  <2>2. t \in Tables /\ MaxKeys(t) \in Nat
    BY ConfigAssumption DEF TableOf, Tables, MaxKeys
  <2>3. before[k] # None => replaced = k
    <3> HIDE DEF Listed, added
    <3> QED BY <2>1, ZenonT(60)
  <2>4. /\ listed \in Seq(Keys) /\ IsInjective(listed)
        /\ Range(listed) = CachedIn(added, t)
        /\ Len(listed) \in 1 .. MaxKeys(t) + 1
    BY <1>2, <2>2, <2>3, ListedByAdd, ZenonT(60)
  <2>5. evictions' = [evictions EXCEPT ![t] = list] /\ roots' = [roots EXCEPT ![v].cache = c]
    BY <2>1, ZenonT(60)
  <2>6. added \in [Keys -> Bytes \cup {None}] /\ \A j \in Keys : j # k => added[j] = before[j]
    BY <1>0, <1>2 DEF CoherentStateRoot
  <2> HIDE DEF added, Listed, listed
  <2>7. /\ list \in Seq(Keys) /\ IsInjective(list) /\ Len(list) <= MaxKeys(t)
        /\ Range(list) = CachedIn(c, t)
        /\ \A u \in Tables \ {t} : CachedIn(c, u) = CachedIn(before, u)
    <3>0. \A u \in Tables \ {t} : CachedIn(added, u) = CachedIn(before, u)
      BY <2>6, ZenonT(60) DEF CachedIn
    <3> DEFINE n == Len(listed)
               m == MaxKeys(t)
    <3> HIDE DEF n, m
    <3>i. n \in Nat /\ m \in Nat /\ n > 0 /\ n <= m + 1
      <4>1. n \in 1 .. m + 1 /\ m \in Nat
        BY <2>2, <2>4, ZenonT(60) DEF n, m
      <4> QED BY <4>1
    <3>1. CASE ~excess
      <4>1. Len(listed) <= MaxKeys(t)
        BY <3>i, <3>1, LengthOrder, ZenonT(60) DEF n, m
      <4>2. list = listed /\ c = added
        BY <3>1, ZenonT(60)
      <4> QED BY <2>4, <3>0, <4>1, <4>2, ZenonT(60)
    <3>2. CASE excess
      <4>1. /\ Front(listed) \in Seq(Keys) /\ IsInjective(Front(listed))
            /\ Range(Front(listed)) = Range(listed) \ {Last(listed)}
            /\ Len(Front(listed)) = Len(listed) - 1
            /\ Last(listed) \in Range(listed)
        <5>1. Len(listed) > 0
          BY <3>i DEF n
        <5> QED BY <2>4, <5>1, FrontEffect, ZenonT(60)
      <4>2. Len(Front(listed)) <= MaxKeys(t)
        <5>1. Len(Front(listed)) = n - 1
          BY <4>1, ZenonT(60) DEF n
        <5>2. n - 1 <= m
          BY <3>i
        <5> QED BY <5>1, <5>2, ZenonT(60) DEF m
      <4>3. c = [added EXCEPT ![Last(listed)] = None] /\ list = Front(listed)
        BY <3>2, ZenonT(60)
      <4>4. Last(listed) \in CachedIn(added, t)
        BY <2>4, <4>1, ZenonT(60)
      <4> HIDE DEF list, c
      <4>5. CachedIn(c, t) = CachedIn(added, t) \ {Last(listed)}
        BY <2>6, <4>3, <4>4, ZenonT(60) DEF CachedIn
      <4>6. \A u \in Tables \ {t} : CachedIn(c, u) = CachedIn(added, u)
        BY <2>6, <4>3, <4>4, ZenonT(60) DEF CachedIn
      <4> QED BY <2>4, <3>0, <4>1, <4>2, <4>3, <4>5, <4>6, ZenonT(60)
    <3> QED BY <3>1, <3>2, ZenonT(60)
  <2> HIDE DEF list, c
  <2>8. roots'[latestId].cache = c
    BY <1>0, <1>2, <2>5 DEF StateTypeOK, CoherentStateRoot
  <2>9. evictions'[t] = list /\ \A u \in Tables \ {t} : evictions'[u] = evictions[u]
    BY <2>2, <2>5
  <2>10. ListExact(t)'
    <3>1. Unlisted(t)' = {} /\ ~Moving(t)'
      BY ZenonT(60) DEF Unlisted, Moving
    <3>2. CachedIn(roots[latestId].cache, t)' = CachedIn(c, t)
      BY <2>8, ZenonT(60) DEF CachedIn
    <3>3. Range(list) = CachedIn(roots[latestId].cache, t)' \ Unlisted(t)'
      BY <2>7, <3>1, <3>2, ZenonT(60)
    <3> QED BY <2>7, <2>9, <3>1, <3>3, ZenonT(60) DEF ListExact
  <2>11. ASSUME NEW u \in Tables \ {t} PROVE ListExact(u)'
    BY <1>2, <2>7, <2>8, <2>9, ListsOfOther, ZenonT(60)
  <2> QED BY <2>5, <2>10, <2>11
<1> QED BY <1>1, <1>2, ZenonT(60)

\* Whether a view has had its batch depends on the latest view only.
LEMMA UnadvancedKept ==
  ASSUME latestId' = latestId, roots'[0].canonical = roots[0].canonical
  PROVE  \A v : Unadvanced(v)' = Unadvanced(v)
BY DEF Unadvanced

\* The first batch finds nothing cached, listed or being read.
LEMMA InitLists == Init => ListInv
<1> SUFFICES ASSUME Init PROVE ListsExact
  BY ZenonT(60) DEF ListInv
<1>1. /\ head = FirstView /\ latestId = 0 /\ roots = [id \in ViewIds |-> NewRoot]
      /\ evictions = [t \in Tables |-> <<>>] /\ stream.pc = "reading"
      /\ \A r \in Readers : readers[r].pc = "idle"
  BY DEF Init
<1>2. FirstView \in Nat /\ 0 \in ViewIds
  BY FirstIds, ZenonT(60)
<1>3. \A v \in ViewIds : roots[v] = NewRoot
  BY <1>1, ZenonT(60)
<1>4. Len(inflight) \in {0, 1}
  <2>1. inflight = <<>> \/ inflight = <<FirstView>>
    BY ZenonT(60) DEF Init
  <2> QED BY <2>1
<1>5. Unadvanced(FirstView) /\ \A i \in 1 .. Len(inflight) : Unadvanced(inflight[i])
  <2>1. ~roots[0].canonical
    BY <1>2, <1>3, NewRootFlags, ZenonT(60)
  <2> QED BY <1>1, <2>1, ZenonT(60) DEF Unadvanced
<1>6. ViewsInOrder
  <2>1. \A i, j \in 1 .. Len(inflight) : i < j => inflight[i] < inflight[j]
    BY <1>4
  <2>2. latestId <= head
    BY <1>1, FirstIds, ZenonT(60)
  <2> QED BY <1>1, <1>3, <1>5, <2>1, <2>2, ZenonT(60) DEF ViewsInOrder
<1>7. ReadersInOrder
  BY <1>1 DEF ReadersInOrder
<1>8. ASSUME NEW t \in Tables PROVE ListExact(t)
  <2>1. Unlisted(t) = {} /\ ~Moving(t)
    BY <1>1, NoneMoving, ZenonT(60)
  <2>2. CachedIn(roots[latestId].cache, t) = {}
    BY <1>1, <1>2 DEF CachedIn, NewRoot
  <2>3. evictions[t] = <<>> /\ <<>> \in Seq(Keys) /\ MaxKeys(t) \in Nat
    <3>1. evictions[t] = <<>>
      BY <1>1, ZenonT(60)
    <3>2. <<>> \in Seq(Keys) /\ MaxKeys(t) \in Nat
      BY ONLY ConfigAssumption DEF MaxKeys
    <3> QED BY <3>1, <3>2, ZenonT(60)
  <2>4. IsInjective(<<>>) /\ Range(<<>>) = {} /\ Len(<<>>) = 0
    BY DEF IsInjective, Range
  <2>5. 0 <= MaxKeys(t)
    BY <2>3
  <2>6. \A r \in Readers : readers[r].pc # "hit"
    BY <1>1, ZenonT(60)
  <2>7. Range(evictions[t]) = CachedIn(roots[latestId].cache, t) \ Unlisted(t)
    BY <2>1, <2>2, <2>3, <2>4
  <2> QED BY <2>1, <2>3, <2>4, <2>5, <2>6, <2>7, ZenonT(60) DEF ListExact
<1> QED BY <1>1, <1>6, <1>7, <1>8 DEF ListsExact

\* A commit adds a view that has had no batch.
LEMMA CommitLists ==
  ASSUME CoherenceInv, ListsExact, Commit
  PROVE  ListsExact'
<1> USE DEF ListsExact
<1>1. /\ head' = head + 1 /\ inflight' \in {inflight, Append(inflight, head + 1)}
      /\ UNCHANGED <<live, roots, latestId, evictions, stream, readers>>
  BY ZenonT(60) DEF Commit, cache
<1>2. head \in Nat /\ latestId \in Nat /\ inflight \in Seq(Views) /\ Views \subseteq Nat
  BY ViewsAreIds DEF CoherenceInv, StateTypeOK
<1>3. \A v : Unadvanced(v)' = Unadvanced(v)
  BY <1>1, UnadvancedKept
<1>4. latestId <= head /\ Unadvanced(head + 1)
  BY <1>2 DEF ViewsInOrder, Unadvanced
<1>5. ViewsInOrder'
  <2>1. CASE inflight' = inflight
    <3>1. latestId <= head + 1
      BY ONLY <1>2, <1>4
    <3> QED BY <1>1, <1>3, <2>1, <3>1, ZenonT(60) DEF ViewsInOrder
  <2>2. CASE inflight' = Append(inflight, head + 1)
    <3>1. /\ Len(inflight') = Len(inflight) + 1 /\ inflight'[Len(inflight) + 1] = head + 1
          /\ \A i \in 1 .. Len(inflight) : inflight'[i] = inflight[i]
          /\ Len(inflight) \in Nat /\ \A i \in 1 .. Len(inflight) : inflight[i] \in Nat
      <4>0. Len(inflight) \in Nat /\ \A i \in 1 .. Len(inflight) : inflight[i] \in Views
        BY <1>2
      <4>1. Len(inflight) \in Nat /\ \A i \in 1 .. Len(inflight) : inflight[i] \in Nat
        BY <1>2, <4>0, ZenonT(60)
      <4>2. \A i \in 1 .. Len(inflight) : inflight'[i] = inflight[i]
        BY <1>2, <2>2
      <4> QED BY <1>2, <2>2, <4>1, <4>2
    <3>2. stream.view \in Nat
      BY <1>2, ZenonT(60) DEF CoherenceInv, StateTypeOK, Stream
    <3>3. stream.view < head + 1 /\ \A i \in 1 .. Len(inflight) : inflight[i] < head + 1
      BY <1>2, <3>1, <3>2 DEF CoherenceInv, ViewsCommitted
    <3>4. \A i \in 1 .. Len(inflight') : Unadvanced(inflight'[i])
      BY <1>4, <3>1 DEF ViewsInOrder
    <3>5. \A i, j \in 1 .. Len(inflight') : i < j => inflight'[i] < inflight'[j]
      BY <3>1, <3>3 DEF ViewsInOrder
    <3>6. stream.pc = "locking" =>
            \A i \in 1 .. Len(inflight') : stream.view < inflight'[i]
      BY <3>1, <3>3 DEF ViewsInOrder
    <3>7. latestId <= head'
      BY <1>1, <1>2, <1>4
    <3> HIDE <2>2
    <3> QED BY <1>1, <1>3, <3>4, <3>5, <3>6, <3>7, ZenonT(60) DEF ViewsInOrder
  <2> QED BY <1>1, <2>1, <2>2, ZenonT(60)
<1>6. ReadersInOrder'
  BY <1>1, <1>3, ZenonT(60) DEF ReadersInOrder
<1>7. \A t \in Tables : ListExact(t)'
  BY <1>1, ListsKept
<1> QED BY <1>1, <1>5, <1>6, <1>7

\* A batch is taken from the front of those in flight.
LEMMA ReceiveBatchLists ==
  ASSUME CoherenceInv, ListsExact, ReceiveBatch
  PROVE  ListsExact'
<1> USE DEF ListsExact
<1>1. /\ inflight # <<>> /\ inflight' = Tail(inflight) /\ stream.pc = "reading"
      /\ UNCHANGED <<head, live, roots, latestId, evictions, readers>>
      /\ stream' = stream \/ stream' = [stream EXCEPT !.pc = "locking", !.view = Head(inflight)]
  BY ZenonT(60) DEF ReceiveBatch, cache
<1>2. inflight \in Seq(Views) /\ stream \in Stream
  BY DEF CoherenceInv, StateTypeOK
<1>3. \A v : Unadvanced(v)' = Unadvanced(v)
  BY <1>1, UnadvancedKept
<1>4. /\ Len(inflight) \in Nat \ {0} /\ Len(inflight') = Len(inflight) - 1
      /\ Head(inflight) = inflight[1]
      /\ \A i \in 1 .. Len(inflight') : inflight'[i] = inflight[i + 1]
  BY <1>1, <1>2
<1>5. ViewsInOrder'
  <2>1. /\ \A i \in 1 .. Len(inflight') : Unadvanced(inflight'[i])
        /\ \A i, j \in 1 .. Len(inflight') : i < j => inflight'[i] < inflight'[j]
    BY <1>4 DEF ViewsInOrder
  <2>2. stream'.pc \in {"reading", "locking"}
    BY <1>1, <1>2, ZenonT(60) DEF Stream
  <2>3. stream'.pc = "locking" =>
          Unadvanced(stream'.view) /\ \A i \in 1 .. Len(inflight') : stream'.view < inflight'[i]
    <3> SUFFICES ASSUME stream'.pc = "locking"
                 PROVE  /\ Unadvanced(stream'.view)
                        /\ \A i \in 1 .. Len(inflight') : stream'.view < inflight'[i]
      OBVIOUS
    <3>1. stream'.view = inflight[1]
      BY <1>1, <1>2, <1>4, ZenonT(60) DEF Stream
    <3> QED BY <1>4, <3>1 DEF ViewsInOrder
  <2> QED BY <1>1, <1>3, <2>1, <2>2, <2>3, ZenonT(60) DEF ViewsInOrder
<1>6. ReadersInOrder'
  BY <1>1, <1>3, ZenonT(60) DEF ReadersInOrder
<1>7. \A t \in Tables : ListExact(t)'
  BY <1>1, ListsKept, ZenonT(60)
<1> QED BY <1>1, <1>5, <1>6, <1>7

\* A reader's step outside the cache.
LEMMA ReaderStepLists ==
  ASSUME ListsExact, NEW r \in Readers,
         UNCHANGED <<head, inflight, live, roots, latestId, evictions, stream>>,
         \A s \in Readers : s # r => readers'[s] = readers[s],
         readers[r].pc # "hit",
         \/ readers'[r].pc \in {"idle", "locking_view", "fallback"}
         \/ /\ readers[r].pc \in {"has_view", "awaiting"} /\ readers[r].view \in live
            /\ readers'[r].pc \in {"awaiting", "relocking"}
            /\ readers'[r].view = readers[r].view
  PROVE  ListsExact'
<1> USE DEF ListsExact
<1>1. \A v : Unadvanced(v)' = Unadvanced(v)
  BY UnadvancedKept
<1>2. ViewsInOrder'
  BY <1>1, ZenonT(60) DEF ViewsInOrder
<1>3. ASSUME NEW s \in Readers
      PROVE  /\ readers'[s].pc \in {"has_view", "hit", "awaiting", "relocking"} =>
                  ~Unadvanced(readers'[s].view)
             /\ readers'[s].pc = "hit" => readers'[s].view = latestId
             /\ readers'[s].pc = "relocking" =>
                  readers'[s].dangling \/ readers'[s].view \in live
  <2>1. CASE s # r
    BY <2>1, ZenonT(60) DEF ReadersInOrder
  <2>2. CASE s = r
    BY <2>2 DEF ReadersInOrder
  <2> QED BY <2>1, <2>2, ZenonT(60)
<1>4. ReadersInOrder'
  BY <1>1, <1>3, ZenonT(60) DEF ReadersInOrder
<1>5. readers'[r].pc # "hit"
  OBVIOUS
<1>6. \A t \in Tables : ListExact(t)'
  BY <1>5, ListsKept, ZenonT(60)
<1> QED BY <1>2, <1>4, <1>6, ZenonT(60)

\* The steps of get_one that leave the cache alone.
LEMMA QuietStepsList ==
  ASSUME CoherenceInv, ListsExact, NEW r \in Readers,
         \/ BeginTransaction(r) \/ GetOne(r) \/ FallbackRead(r) \/ GetNoRoot(r)
         \/ GetMiss(r) \/ MissRead(r) \/ ReadFails(r)
  PROVE  ListsExact'
<1>1. readers \in [Readers -> Reader]
  BY DEF CoherenceInv, StateTypeOK
<1>2. UNCHANGED <<head, inflight, live, roots, latestId, evictions, stream>>
  BY ZenonT(60) DEF BeginTransaction, GetOne, FallbackRead, GetNoRoot, GetMiss, MissRead, ReadFails,
               node, cache
<1>3. CASE BeginTransaction(r)
  <2>1. /\ readers[r].pc = "idle"
        /\ readers' = [readers EXCEPT ![r].view = head, ![r].ret = None]
    BY <1>3 DEF BeginTransaction
  <2>2. readers'[r].pc = "idle" /\ \A s \in Readers : s # r => readers'[s] = readers[s]
    BY <1>1, <2>1 DEF Reader
  <2> QED BY <1>2, <2>1, <2>2, ReaderStepLists, ZenonT(60)
<1>4. CASE GetOne(r)
  <2>1. PICK k : /\ readers[r].pc = "idle"
                 /\ readers' = [readers EXCEPT ![r].pc = "locking_view", ![r].key = k,
                                               ![r].ret = None]
    BY <1>4, ZenonT(60) DEF GetOne
  <2>2. readers'[r].pc = "locking_view" /\ \A s \in Readers : s # r => readers'[s] = readers[s]
    BY <1>1, <2>1 DEF Reader
  <2> QED BY <1>2, <2>1, <2>2, ReaderStepLists, ZenonT(60)
<1>5. ASSUME NEW value, readers[r].pc # "hit", Return(r, value) PROVE ListsExact'
  <2>1. readers'[r].pc = "idle" /\ \A s \in Readers : s # r => readers'[s] = readers[s]
    BY <1>1, <1>5, ZenonT(60) DEF Return, Reader
  <2> QED BY <1>2, <1>5, <2>1, ReaderStepLists, ZenonT(60)
<1>6. CASE FallbackRead(r) \/ GetNoRoot(r) \/ ReadFails(r)
  <2>1. readers[r].pc # "hit" /\ \E value : Return(r, value)
    BY <1>6, ZenonT(60) DEF FallbackRead, GetNoRoot, ReadFails
  <2> QED BY <1>5, <2>1
<1>7. ASSUME NEW p \in {"awaiting", "relocking"}, readers[r].pc \in {"has_view", "awaiting"},
             readers[r].view \in live, readers' = [readers EXCEPT ![r].pc = p]
      PROVE  ListsExact'
  <2>1. /\ readers'[r].pc = p /\ readers'[r].view = readers[r].view
        /\ \A s \in Readers : s # r => readers'[s] = readers[s]
    BY <1>1, <1>7 DEF Reader
  <2> QED BY <1>2, <1>7, <2>1, ReaderStepLists
<1>8. CASE GetMiss(r)
  BY <1>7, <1>8 DEF GetMiss
<1>9. CASE MissRead(r)
  <2>1. readers[r].pc = "awaiting" /\ readers[r].view \in live
    BY <1>9 DEF MissRead, CoherenceInv, HeldRootIsLive
  <2>2. \/ Return(r, Empty)
        \/ readers' = [readers EXCEPT ![r].pc = "relocking"]
    BY <1>9 DEF MissRead
  <2> QED BY <1>5, <1>7, <2>1, <2>2
<1> QED BY <1>3, <1>4, <1>6, <1>8, <1>9

\* get_view: a root that is missing is empty, and one that is ready has had its batch.
LEMMA GetViewLists ==
  ASSUME CoherenceInv, ListsExact, NEW r \in Readers, GetView(r)
  PROVE  ListsExact'
<1> USE DEF ListsExact
<1> DEFINE v == readers[r].view
           root == IF v \in live THEN roots[v] ELSE NewRoot
<1>1. readers \in [Readers -> Reader] /\ roots \in [ViewIds -> CoherentStateRoot] /\ v \in ViewIds
  BY ViewsAreIds DEF CoherenceInv, StateTypeOK, Reader
<1>2. /\ readers[r].pc = "locking_view" /\ live' = live \cup {v}
      /\ roots' = [roots EXCEPT ![v] = root]
      /\ readers' = [readers EXCEPT ![r].pc = IF root.ready THEN "has_view" ELSE "fallback"]
      /\ UNCHANGED <<head, inflight, latestId, evictions, stream>>
  BY ZenonT(60) DEF GetView, node
<1>3. roots[v] = root
  BY <1>1 DEF ViewsInOrder
<1>4. roots' = roots
  BY <1>1, <1>2, <1>3, ZenonT(60)
<1>5. root.ready => ~Unadvanced(v)
  BY <1>1, <1>3, NewRootFlags, ZenonT(60) DEF ViewsInOrder
<1> HIDE DEF root
<1>6. \A u : Unadvanced(u)' = Unadvanced(u)
  BY <1>2, <1>4, UnadvancedKept
<1>7. ViewsInOrder'
  BY <1>2, <1>4, <1>6, ZenonT(60) DEF ViewsInOrder
<1>8. /\ readers'[r].view = v
      /\ readers'[r].pc = IF root.ready THEN "has_view" ELSE "fallback"
      /\ \A s \in Readers : s # r => readers'[s] = readers[s]
  BY <1>1, <1>2 DEF Reader
<1>9. ReadersInOrder'
  <2> SUFFICES ASSUME NEW s \in Readers
               PROVE  /\ readers'[s].pc \in {"has_view", "hit", "awaiting", "relocking"} =>
                           ~Unadvanced(readers'[s].view)
                      /\ readers'[s].pc = "hit" => readers'[s].view = latestId
                      /\ readers'[s].pc = "relocking" =>
                           readers'[s].dangling \/ readers'[s].view \in live'
    BY <1>2, <1>6, ZenonT(60) DEF ReadersInOrder
  <2>1. CASE s # r
    <3>1. readers'[s] = readers[s] /\ \A u \in live : u \in live'
      BY <1>2, <1>8, <2>1
    <3> QED BY <3>1, ZenonT(60) DEF ReadersInOrder
  <2>2. CASE s = r
    BY <1>5, <1>8, <2>2, ZenonT(60)
  <2> QED BY <2>1, <2>2, ZenonT(60)
<1>10. readers'[r].pc # "hit"
  BY <1>8, ZenonT(60)
<1>11. \A t \in Tables : ListExact(t)'
  BY <1>2, <1>4, <1>8, <1>10, ListsKept
<1> QED BY <1>2, <1>7, <1>9, <1>11, ZenonT(60)

\* The readers of the other keys while r moves its key, or has moved it.
LEMMA HitReaders ==
  ASSUME NEW r \in Readers, NEW t \in Tables, TableOf(readers[r].key) = t,
         readers[r].key \in Keys, readers'[r].key = readers[r].key,
         \A s \in Readers : s # r => readers'[s] = readers[s],
         readers[r].pc # "hit", readers'[r].pc = "hit"
  PROVE  /\ Unlisted(t)' = Unlisted(t) \cup {readers[r].key}
         /\ Moving(t)'
         /\ \A u \in Tables : u # t => Unlisted(u)' = Unlisted(u) /\ (Moving(u)' <=> Moving(u))
<1>1. Moving(t)'
  BY DEF Moving
<1>2. ASSUME NEW u \in Tables, u # t PROVE Moving(u)' <=> Moving(u)
  BY <1>2, ZenonT(60) DEF Moving
<1>3. ASSUME NEW u \in Tables, NEW k
      PROVE  k \in Unlisted(u)' <=> k \in Unlisted(u) \/ (u = t /\ k = readers[r].key)
  BY ZenonT(60) DEF Unlisted
<1> QED BY <1>1, <1>2, <1>3, ZenonT(60)

\* get, hit: the key leaves its list for a moment.
LEMMA GetHitLists ==
  ASSUME CoherenceInv, ListsExact, NEW r \in Readers, GetHit(r), faults' = {}
  PROVE  ListsExact'
<1> USE DEF ListsExact
<1> DEFINE v == readers[r].view
           k == readers[r].key
<1>1. readers \in [Readers -> Reader]
  BY DEF CoherenceInv, StateTypeOK
<1>2. /\ readers[r].pc = "has_view" /\ v \in live /\ roots[v].cache[k] # None
      /\ UNCHANGED <<head, inflight, live, roots, latestId, stream>>
  BY ZenonT(60) DEF GetHit, node
<1>3. k \in Keys
  BY <1>1, <1>2 DEF CoherenceInv, ReadersHaveKeys, Reader, Keys
<1> PICK t \in Tables : TableOf(k) = t
  BY DEF TableOf, Tables
<1>4. CASE v # latestId
  <2>1. Return(r, Entry(v, k)) /\ evictions' = evictions
    BY <1>4 DEF GetHit
  <2>2. readers'[r].pc = "idle" /\ \A s \in Readers : s # r => readers'[s] = readers[s]
    BY <1>1, <2>1 DEF Return, Reader
  <2> QED BY <1>2, <2>1, <2>2, ReaderStepLists, ZenonT(60)
<1>5. CASE v = latestId
  <2>1. /\ evictions' = [evictions EXCEPT ![t] = Remove(@, k)]
        /\ readers' = [readers EXCEPT ![r].pc = "hit"]
        /\ ~\E s \in Readers : readers[s].pc = "hit" /\ TableOf(readers[s].key) = t
    BY <1>5 DEF GetHit
  <2>2. /\ readers'[r].pc = "hit" /\ readers'[r].view = v /\ readers'[r].key = k
        /\ \A s \in Readers : s # r => readers'[s] = readers[s]
    BY <1>1, <2>1 DEF Reader
  <2>3. \A u : Unadvanced(u)' = Unadvanced(u)
    BY <1>2, UnadvancedKept, ZenonT(60)
  <2>4. ViewsInOrder'
    BY <1>2, <2>3, ZenonT(60) DEF ViewsInOrder
  <2>5. ASSUME NEW s \in Readers
        PROVE  /\ readers'[s].pc \in {"has_view", "hit", "awaiting", "relocking"} =>
                    ~Unadvanced(readers'[s].view)
               /\ readers'[s].pc = "hit" => readers'[s].view = latestId
               /\ readers'[s].pc = "relocking" =>
                    readers'[s].dangling \/ readers'[s].view \in live
    <3>1. CASE s # r
      BY <2>2, <3>1, ZenonT(60) DEF ReadersInOrder
    <3>2. CASE s = r
      BY <1>2, <1>5, <2>2, <3>2, ZenonT(60) DEF ReadersInOrder
    <3> QED BY <3>1, <3>2, ZenonT(60)
  <2>6. ReadersInOrder'
    BY <1>2, <2>3, <2>5, ZenonT(60) DEF ReadersInOrder
  <2>7. /\ Unlisted(t)' = Unlisted(t) \cup {k} /\ Moving(t)'
        /\ \A u \in Tables : u # t => Unlisted(u)' = Unlisted(u) /\ (Moving(u)' <=> Moving(u))
    <3>1. readers[r].pc # "hit"
      BY <1>2, ZenonT(60)
    <3> QED BY <1>3, <2>2, <3>1, HitReaders, ZenonT(60)
  <2>8. \A u \in Tables : CachedIn(roots[latestId].cache, u)' = CachedIn(roots[latestId].cache, u)
    BY <1>2 DEF CachedIn
  <2>9. ~Moving(t) /\ ListExact(t) /\ MaxKeys(t) \in Nat /\ evictions'[t] = Remove(evictions[t], k)
        /\ \A u \in Tables : u # t => evictions'[u] = evictions[u]
    BY <1>3, <2>1, ConfigAssumption DEF Moving, MaxKeys
  <2>10. k \in Range(evictions[t])
    <3>1. k \in CachedIn(roots[latestId].cache, t)
      BY <1>2, <1>3, <1>5, ZenonT(60) DEF CachedIn
    <3>2. k \notin Unlisted(t)
      BY <2>1 DEF Unlisted
    <3> QED BY <2>9, <3>1, <3>2, ZenonT(60) DEF ListExact
  <2>11. ListExact(t)'
    <3> DEFINE list == evictions[t]
               rest == Remove(list, k)
    <3>1. list \in Seq(Keys) /\ IsInjective(list) /\ Len(list) <= MaxKeys(t)
      BY <2>9, ZenonT(60) DEF ListExact
    <3>2. /\ rest \in Seq(Keys) /\ IsInjective(rest) /\ Range(rest) = Range(list) \ {k}
          /\ Len(rest) < Len(list)
      <4> HIDE DEF list, k
      <4> QED BY <2>10, <3>1, RemoveEffect DEF list
    <3>3. Len(rest) < MaxKeys(t) /\ Len(rest) <= MaxKeys(t)
      <4> DEFINE n == Len(list)
                 m == Len(rest)
      <4>1. n \in Nat /\ m \in Nat /\ m < n
        BY <3>1, <3>2, LengthInNat, ZenonT(60)
      <4> HIDE DEF n, m
      <4>2. n <= MaxKeys(t)
        BY <3>1, ZenonT(60) DEF n
      <4>3. m < MaxKeys(t) /\ m <= MaxKeys(t)
        BY <2>9, <4>1, <4>2, LengthOrder, ZenonT(60)
      <4> QED BY <4>3, ZenonT(60) DEF m
    <3>4. Range(rest) = CachedIn(roots[latestId].cache, t)' \ Unlisted(t)'
      <4>1. Range(list) = CachedIn(roots[latestId].cache, t) \ Unlisted(t)
        BY <2>9, ZenonT(60) DEF ListExact
      <4>2. CachedIn(roots[latestId].cache, t)' = CachedIn(roots[latestId].cache, t)
        BY <1>3, <2>8, ZenonT(60)
      <4> HIDE DEF list, rest, k
      <4> QED BY <2>7, <3>2, <4>1, <4>2, ZenonT(60)
    <3>5. ASSUME NEW s \in Readers, readers'[s].pc = "hit", TableOf(readers'[s].key) = t
          PROVE  s = r
      BY <2>1, <2>2, <3>5, ZenonT(60)
    <3> HIDE DEF list, rest
    <3>6. evictions'[t] = rest
      BY <2>9, ZenonT(60) DEF list, rest
    <3> QED BY <3>2, <3>3, <3>4, <3>5, <3>6, ZenonT(60) DEF ListExact
  <2>12. ASSUME NEW u \in Tables, u # t PROVE ListExact(u)'
    <3>1. evictions'[u] = evictions[u] /\ ListExact(u) /\ Moving(u) \in BOOLEAN
      BY <2>9, <2>12, ZenonT(60) DEF Moving
    <3>2. ASSUME NEW s \in Readers, readers'[s].pc = "hit", TableOf(readers'[s].key) = u
          PROVE  readers[s].pc = "hit" /\ TableOf(readers[s].key) = u
      BY <2>2, <2>12, <3>2, ZenonT(60)
    <3> QED BY <2>7, <2>8, <2>12, <3>1, <3>2, ZenonT(60) DEF ListExact
  <2>13. DOMAIN evictions' = Tables
    BY <2>1
  <2>14. \A u \in Tables : ListExact(u)'
    <3> QED BY <2>11, <2>12, ZenonT(60)
  <2> QED BY <2>4, <2>6, <2>13, <2>14, ZenonT(60)
<1> QED BY <1>4, <1>5

\* The key that r has moved is listed again.
LEMMA MovedReaders ==
  ASSUME NEW r \in Readers, NEW t \in Tables, TableOf(readers[r].key) = t, ListExact(t),
         \A s \in Readers : s # r => readers'[s] = readers[s],
         readers[r].pc = "hit", readers'[r].pc # "hit"
  PROVE  /\ Unlisted(t) \subseteq {readers[r].key} /\ Unlisted(t)' = {}
         /\ Moving(t) /\ ~Moving(t)'
         /\ \A u \in Tables : u # t => Unlisted(u)' = Unlisted(u) /\ (Moving(u)' <=> Moving(u))
<1>1. ASSUME NEW s \in Readers, readers[s].pc = "hit", TableOf(readers[s].key) = t
      PROVE  s = r
  BY <1>1, ZenonT(60) DEF ListExact
<1>2. Moving(t) /\ ~Moving(t)'
  BY <1>1, ZenonT(60) DEF Moving
<1>3. ASSUME NEW u \in Tables, u # t PROVE Moving(u)' <=> Moving(u)
  BY <1>3, ZenonT(60) DEF Moving
<1>4. Unlisted(t) \subseteq {readers[r].key} /\ Unlisted(t)' = {}
  BY <1>1, ZenonT(60) DEF Unlisted
<1>5. ASSUME NEW u \in Tables, u # t, NEW k PROVE k \in Unlisted(u)' <=> k \in Unlisted(u)
  BY <1>5, ZenonT(60) DEF Unlisted
<1>6. ASSUME NEW u \in Tables, u # t PROVE Unlisted(u)' = Unlisted(u)
  BY <1>5, <1>6
<1> QED BY <1>2, <1>3, <1>4, <1>6, ZenonT(60)

\* The end of a hit: the key is back, in front.
LEMMA HitPushFrontLists ==
  ASSUME CoherenceInv, ListsExact, NEW r \in Readers, HitPushFront(r)
  PROVE  ListsExact'
<1> USE DEF ListsExact
<1> DEFINE k == readers[r].key
<1>1. readers \in [Readers -> Reader]
  BY DEF CoherenceInv, StateTypeOK
<1>2. /\ readers[r].pc = "hit"
      /\ evictions' = [evictions EXCEPT ![TableOf(k)] = <<k>> \o @]
      /\ \E value : Return(r, value)
      /\ UNCHANGED <<head, inflight, live, roots, latestId, stream>>
  BY ZenonT(60) DEF HitPushFront, node
<1>3. k \in Keys
  BY <1>1, <1>2 DEF CoherenceInv, ReadersHaveKeys, Reader, Keys
<1> PICK t \in Tables : TableOf(k) = t
  BY DEF TableOf, Tables
<1>4. readers'[r].pc = "idle" /\ \A s \in Readers : s # r => readers'[s] = readers[s]
  BY <1>1, <1>2 DEF Return, Reader
<1>5. \A u : Unadvanced(u)' = Unadvanced(u)
  BY <1>2, UnadvancedKept, ZenonT(60)
<1>6. ViewsInOrder'
  BY <1>2, <1>5, ZenonT(60) DEF ViewsInOrder
<1>7. ReadersInOrder'
  <2> SUFFICES ASSUME NEW s \in Readers
               PROVE  /\ readers'[s].pc \in {"has_view", "hit", "awaiting", "relocking"} =>
                           ~Unadvanced(readers'[s].view)
                      /\ readers'[s].pc = "hit" => readers'[s].view = latestId
                      /\ readers'[s].pc = "relocking" =>
                           readers'[s].dangling \/ readers'[s].view \in live
    BY <1>2, <1>5, ZenonT(60) DEF ReadersInOrder
  <2>1. CASE s # r
    BY <1>4, <2>1, ZenonT(60) DEF ReadersInOrder
  <2>2. CASE s = r
    BY <1>4, <2>2
  <2> QED BY <2>1, <2>2
<1>8. /\ Unlisted(t) \subseteq {k} /\ Unlisted(t)' = {} /\ Moving(t) /\ ~Moving(t)'
      /\ \A u \in Tables : u # t => Unlisted(u)' = Unlisted(u) /\ (Moving(u)' <=> Moving(u))
  <2>1. readers'[r].pc # "hit"
    BY <1>4, ZenonT(60)
  <2> QED BY <1>2, <1>4, <2>1, MovedReaders, ZenonT(60)
<1>9. \A u \in Tables : CachedIn(roots[latestId].cache, u)' = CachedIn(roots[latestId].cache, u)
  BY <1>2, ZenonT(60) DEF CachedIn
<1>10. /\ evictions'[t] = <<k>> \o evictions[t]
       /\ \A u \in Tables : u # t => evictions'[u] = evictions[u]
       /\ DOMAIN evictions' = Tables
  BY <1>2, ZenonT(60)
<1>11. ListExact(t)'
  <2> DEFINE list == evictions[t]
  <2>1. /\ list \in Seq(Keys) /\ IsInjective(list) /\ Len(list) < MaxKeys(t)
        /\ Range(list) = CachedIn(roots[latestId].cache, t) \ Unlisted(t)
    BY <1>8, ZenonT(60) DEF ListExact
  <2>2. k \in Unlisted(t)
    BY <1>2, <1>3, ZenonT(60) DEF Unlisted
  <2>3. k \in CachedIn(roots[latestId].cache, t)
    BY <1>2, <1>3, ZenonT(60) DEF CachedIn, CoherenceInv, HeldRootIsLive, ReadersInOrder
  <2> HIDE DEF list, k
  <2>4. /\ <<k>> \o list \in Seq(Keys) /\ IsInjective(<<k>> \o list)
        /\ Range(<<k>> \o list) = Range(list) \cup {k} /\ Len(<<k>> \o list) = Len(list) + 1
    BY <1>3, <2>1, <2>2, PushFrontEffect
  <2>5. Len(<<k>> \o list) <= MaxKeys(t)
    <3> DEFINE n == Len(list)
    <3>1. n \in Nat
      BY <2>1
    <3> HIDE DEF n
    <3>2. n < MaxKeys(t) /\ MaxKeys(t) \in Nat /\ Len(<<k>> \o list) = n + 1
      BY <2>1, <2>4, ConfigAssumption DEF MaxKeys, n
    <3>3. n + 1 <= MaxKeys(t)
      BY <3>1, <3>2
    <3> QED BY <3>2, <3>3, ZenonT(60)
  <2>6. Range(<<k>> \o list) = CachedIn(roots[latestId].cache, t)
    BY <1>8, <2>1, <2>2, <2>3, <2>4, ZenonT(60)
  <2>7. Range(<<k>> \o list) = CachedIn(roots[latestId].cache, t)' \ Unlisted(t)'
    BY <1>8, <1>9, <2>6, ZenonT(60)
  <2>9. \A s \in Readers : ~(readers'[s].pc = "hit" /\ TableOf(readers'[s].key) = t)
    BY <1>8, ZenonT(60) DEF Moving
  <2>10. evictions'[t] = <<k>> \o list
    BY <1>10 DEF list
  <2> QED BY <1>8, <2>4, <2>5, <2>7, <2>9, <2>10, ZenonT(60) DEF ListExact
<1>12. ASSUME NEW u \in Tables, u # t PROVE ListExact(u)'
  <2>1. evictions'[u] = evictions[u] /\ ListExact(u) /\ Moving(u) \in BOOLEAN
    BY <1>10, <1>12 DEF Moving
  <2>2. ASSUME NEW s \in Readers, readers'[s].pc = "hit", TableOf(readers'[s].key) = u
        PROVE  readers[s].pc = "hit" /\ TableOf(readers[s].key) = u
    BY <1>2, <1>4, <1>12, <2>2, ZenonT(60)
  <2> QED BY <1>8, <1>9, <1>12, <2>1, <2>2, ZenonT(60) DEF ListExact
<1>13. \A u \in Tables : ListExact(u)'
  BY <1>11, <1>12, ZenonT(60)
<1> QED BY <1>6, <1>7, <1>10, <1>13, ZenonT(60)

\* A step that adds an entry, under the exclusive lock.
LEMMA AddStepLists ==
  ASSUME CoherenceInv, ListsExact, NEW v \in ViewIds, NEW k \in Keys, NEW value \in Bytes,
         Add(v, k, value), faults' = {}, ~Unadvanced(v), v \in live, ~SharedHeld,
         UNCHANGED <<head, inflight, live, latestId>>,
         stream'.pc = stream.pc, stream'.view = stream.view,
         \A r \in Readers : readers'[r] = readers[r] \/ readers'[r].pc = "idle"
  PROVE  ListsExact'
<1> USE DEF ListsExact
<1>1. StateTypeOK /\ 0 \in ViewIds
  BY FirstIds, ZenonT(60) DEF CoherenceInv
<1>2. /\ \A id \in ViewIds : id # v => roots'[id] = roots[id]
      /\ \A id \in ViewIds : roots'[id].canonical = roots[id].canonical
  BY <1>1, AddEffect, AddKeepsFlags, ZenonT(60)
<1>3. \A u : Unadvanced(u)' = Unadvanced(u)
  BY <1>1, <1>2, UnadvancedKept, ZenonT(60)
<1>4. \A u \in ViewIds : u \notin live \/ Unadvanced(u) => roots'[u] = NewRoot
  BY <1>2, ZenonT(60) DEF ViewsInOrder
<1>5. latestId \in ViewIds
  BY <1>1, ViewsAreIds, ZenonT(60) DEF StateTypeOK
<1>6. ViewsInOrder'
  BY <1>2, <1>3, <1>4, <1>5, ZenonT(60) DEF ViewsInOrder
<1>7. ReadersInOrder'
  <2> SUFFICES ASSUME NEW s \in Readers
               PROVE  /\ readers'[s].pc \in {"has_view", "hit", "awaiting", "relocking"} =>
                           ~Unadvanced(readers'[s].view)
                      /\ readers'[s].pc = "hit" => readers'[s].view = latestId
                      /\ readers'[s].pc = "relocking" =>
                           readers'[s].dangling \/ readers'[s].view \in live
    BY <1>3, ZenonT(60) DEF ReadersInOrder
  <2>1. CASE readers'[s] = readers[s]
    BY <2>1, ZenonT(60) DEF ReadersInOrder
  <2>2. CASE readers'[s].pc = "idle"
    BY <2>2, ZenonT(60)
  <2> QED BY <2>1, <2>2, ZenonT(60)
<1>8. \A r \in Readers : readers[r].pc # "hit" /\ readers'[r].pc # "hit"
  BY ZenonT(60) DEF SharedHeld
<1>9. DOMAIN evictions' = Tables /\ \A t \in Tables : ListExact(t)'
  BY <1>1, <1>8, AddLists, ZenonT(60)
<1> QED BY <1>6, <1>7, <1>9, ZenonT(60)

\* The value of a miss is added through a root that is still in the map.
LEMMA MissAddLists ==
  ASSUME CoherenceInv, ListsExact, NEW r \in Readers, MissAdd(r), faults' = {}
  PROVE  ListsExact'
<1> DEFINE v == readers[r].view
           k == readers[r].key
<1>1. readers \in [Readers -> Reader] /\ db \in [Views -> [Keys -> Bytes]]
  BY DEF CoherenceInv, StateTypeOK
<1>2. /\ readers[r].pc = "relocking" /\ ~SharedHeld /\ ~readers[r].dangling
      /\ Add(v, k, db[v][k])
      /\ readers' = [readers EXCEPT ![r].pc = "idle", ![r].ret = db[v][k],
                                    ![r].dangling = FALSE]
      /\ UNCHANGED <<head, inflight, live, latestId, stream>>
  BY DEF MissAdd, CanLockUnique, node
<1>3. v \in Views /\ v \in ViewIds /\ k \in Keys /\ db[v][k] \in Bytes
  BY <1>1, <1>2, ViewsAreIds DEF CoherenceInv, ReadersHaveKeys, Reader, Keys
<1>4. ~Unadvanced(v) /\ v \in live
  BY <1>2 DEF ListsExact, ReadersInOrder
<1>5. \A s \in Readers : readers'[s] = readers[s] \/ readers'[s].pc = "idle"
  BY <1>1, <1>2 DEF Reader
<1> HIDE DEF v, k
<1> QED BY <1>2, <1>3, <1>4, <1>5, AddStepLists, ZenonT(60)

\* A change of the batch is added to the latest view.
LEMMA ProcessChangeLists ==
  ASSUME CoherenceInv, ListsExact, ProcessChange, faults' = {}
  PROVE  ListsExact'
<1> DEFINE v == stream.view
           write == Head(stream.todo)
<1>1. stream \in Stream
  BY DEF CoherenceInv, StateTypeOK
<1>2. /\ stream.pc = "applying" /\ stream.todo # <<>> /\ Add(v, write.key, write.value)
      /\ stream' = [stream EXCEPT !.todo = Tail(@)]
      /\ UNCHANGED <<head, inflight, live, latestId, readers>>
  BY DEF ProcessChange, node
<1>3. v \in ViewIds /\ stream'.pc = stream.pc /\ stream'.view = v
  BY <1>1, <1>2, ViewsAreIds DEF Stream
<1>4. write.key \in Keys /\ write.value \in Bytes
  <2>1. write \in Write
    BY <1>1, <1>2 DEF Stream
  <2> QED BY <2>1 DEF Write, Keys
<1>5. ~SharedHeld
  BY <1>2 DEF CoherenceInv, LockExclusive, ExclusiveHeld
<1>6. v = latestId /\ latestId \in live /\ roots[latestId].canonical /\ latestId \in Nat
  BY <1>2, ViewsAreIds DEF ListsExact, ViewsInOrder, CoherenceInv, StateTypeOK
<1>7. ~Unadvanced(v) /\ v \in live
  BY <1>6 DEF Unadvanced
<1> HIDE DEF v, write
<1> QED BY <1>2, <1>3, <1>4, <1>5, <1>7, AddStepLists DEF v

\* The latest view becomes ready.
LEMMA PublishRootLists ==
  ASSUME CoherenceInv, ListsExact, PublishRoot
  PROVE  ListsExact'
<1> USE DEF ListsExact
<1>1. /\ stream.pc = "applying" /\ roots' = [roots EXCEPT ![stream.view].ready = TRUE]
      /\ stream' = [stream EXCEPT !.pc = "reading"]
      /\ UNCHANGED <<head, inflight, live, latestId, evictions, readers>>
  BY DEF PublishRoot, node
<1>2. /\ stream.view = latestId /\ latestId \in live /\ roots[latestId].canonical
      /\ latestId \in Nat /\ latestId \in ViewIds /\ 0 \in ViewIds
  BY <1>1, ViewsAreIds, BoundAssumption
    DEF ViewsInOrder, CoherenceInv, StateTypeOK, ViewIds
<1>3. /\ roots'[latestId] = [roots[latestId] EXCEPT !.ready = TRUE]
      /\ \A id \in ViewIds : id # latestId => roots'[id] = roots[id]
  BY <1>1, <1>2, ZenonT(60) DEF CoherenceInv, StateTypeOK
<1>4. roots'[latestId].cache = roots[latestId].cache /\ roots'[latestId].canonical
  BY <1>2, <1>3 DEF CoherenceInv, StateTypeOK, CoherentStateRoot
<1>5. ~Unadvanced(latestId)
  BY <1>2 DEF Unadvanced
<1>6. \A u : Unadvanced(u)' = Unadvanced(u)
  <2>1. roots'[0].canonical = roots[0].canonical
    <3>1. CASE latestId = 0
      BY <1>2, <1>3, <3>1 DEF CoherenceInv, StateTypeOK, CoherentStateRoot
    <3>2. CASE latestId # 0
      BY <1>2, <1>3, <3>2
    <3> QED BY <3>1, <3>2
  <2> QED BY <1>1, <2>1, UnadvancedKept
<1>7. stream'.pc = "reading"
  BY <1>1 DEF CoherenceInv, StateTypeOK, Stream
<1>8. \A u \in ViewIds : u \notin live \/ Unadvanced(u) => roots'[u] = NewRoot
  BY <1>2, <1>3, <1>5, ZenonT(60) DEF ViewsInOrder
<1>9. ViewsInOrder'
  <2>1. stream'.pc # "locking" /\ stream'.pc # "applying"
    BY <1>7
  <2> QED BY <1>1, <1>6, <1>8, <2>1, ZenonT(60) DEF ViewsInOrder
<1>10. ReadersInOrder'
  BY <1>1, <1>6, ZenonT(60) DEF ReadersInOrder
<1>11. \A t \in Tables : ListExact(t)'
  BY <1>1, <1>4, ListsKept
<1> QED BY <1>1, <1>9, <1>10, <1>11, ZenonT(60)

\* The lists of a view with no entries are empty.
LEMMA RebuiltEmpty ==
  ASSUME NEW t \in Tables
  PROVE  /\ CachedIn(NewRoot.cache, t) = {}
         /\ RebuiltLists(NewRoot.cache)[t] \in Seq(Keys)
         /\ IsInjective(RebuiltLists(NewRoot.cache)[t])
         /\ Range(RebuiltLists(NewRoot.cache)[t]) = {}
         /\ Len(RebuiltLists(NewRoot.cache)[t]) = 0
<1>1. CachedIn(NewRoot.cache, t) = {}
  BY DEF CachedIn, NewRoot
<1> DEFINE list == RebuiltLists(NewRoot.cache)[t]
<1>2. list = AnyOrder({})
  BY <1>1, ZenonT(60) DEF RebuiltLists
<1>3. Cardinality({}) = 0
  BY FS_EmptySet
<1>4. <<>> \in [1 .. 0 -> {}] /\ IsInjective(<<>>)
  BY DEF IsInjective
<1>5. list \in [1 .. 0 -> {}] /\ IsInjective(list)
  BY <1>2, <1>3, <1>4, ZenonT(60) DEF AnyOrder
<1> HIDE DEF list
<1>6. list \in Seq(Keys) /\ Len(list) = 0 /\ DOMAIN list = {}
  BY <1>5
<1>7. Range(list) = {}
  BY <1>6 DEF Range
<1> QED BY <1>1, <1>5, <1>6, <1>7, ZenonT(60) DEF list

\* What advance_root makes of a view that has had no batch: it becomes the
\* latest, with the entries of the latest view before it or with none.
LEMMA AdvancedView ==
  ASSUME CoherenceInv, ViewsInOrder, AdvanceRoot, faults' = {}
  PROVE  LET v == stream.view
         IN  /\ v \in ViewIds /\ v \in Nat /\ Unadvanced(v) /\ ~SharedHeld
             /\ latestId' = v /\ v \in live' /\ roots'[v].canonical
             /\ stream'.pc = "applying" /\ stream'.view = v
             /\ \A id \in ViewIds : id \notin live' => roots'[id] = NewRoot
             /\ \A id \in ViewIds : id # v => roots'[id] \in {roots[id], NewRoot}
             /\ \/ evictions' = evictions /\ roots'[v].cache = roots[latestId].cache
                \/ evictions' = RebuiltLists(NewRoot.cache) /\ roots'[v].cache = NewRoot.cache
<1> DEFINE v == stream.view
           prev == PreviousId(v)
           own == IF v \in live THEN roots[v] ELSE NewRoot
           inherits == prev \in live /\ roots[prev].canonical
           root == [own EXCEPT !.cache = IF inherits THEN roots[prev].cache ELSE @,
                               !.canonical = TRUE]
           kept == EvictRoots(live \cup {v}, v)
<1>1. stream \in Stream /\ v \in Views /\ v \in ViewIds /\ v \in Nat /\ latestId \in Nat
  <2>1. stream \in Stream /\ latestId \in Views \cup {0}
    BY ZenonT(60) DEF CoherenceInv, StateTypeOK
  <2> QED BY <2>1, StreamView, ViewsAreIds, FirstIds, ZenonT(60)
<1>2. /\ stream.pc = "locking" /\ ~SharedHeld
      /\ live' = kept
      /\ roots' = [id \in ViewIds |-> IF id \notin kept THEN NewRoot
                                      ELSE IF id = v THEN root ELSE roots[id]]
      /\ evictions' = IF inherits THEN evictions ELSE RebuiltLists(own.cache)
      /\ latestId' = v
      /\ faults' = faults \cup {f \in {"erased_root"} : v \notin kept}
      /\ \E todo : stream' = [stream EXCEPT !.pc = "applying", !.todo = todo]
  BY ZenonT(60) DEF AdvanceRoot, CanLockUnique
<1>3. v \in kept
  <2> HIDE DEF kept
  <2> QED BY <1>2
<1>4. Unadvanced(v)
  BY <1>2 DEF ViewsInOrder
<1>5. own = NewRoot
  BY <1>1, <1>4, ZenonT(60) DEF ViewsInOrder
<1>6. inherits => prev = latestId
  <2> SUFFICES ASSUME inherits PROVE prev = latestId
    BY ZenonT(60)
  <2>1. prev \in Views /\ prev \in ViewIds /\ prev \in Nat
    BY ViewsAreIds, ZenonT(60) DEF CoherenceInv, StateTypeOK
  <2>2. prev = v - 1
    BY <1>1, <2>1, ViewsAreIds, ZenonT(60) DEF PreviousId
  <2>3. roots[prev] # NewRoot
    BY DEF NewRoot
  <2>4. ~Unadvanced(prev)
    BY <2>1, <2>3 DEF ViewsInOrder
  <2> HIDE DEF prev, v
  <2> QED BY <1>1, <1>4, <2>1, <2>2, <2>4 DEF Unadvanced
<1>7. root.canonical /\ root.cache = IF inherits THEN roots[prev].cache ELSE NewRoot.cache
  <2> HIDE DEF own, inherits, prev
  <2> QED BY <1>5 DEF NewRoot
<1>8. stream'.pc = "applying" /\ stream'.view = v
  BY <1>1, <1>2 DEF Stream
<1> HIDE DEF kept, root, inherits, own, prev
<1>9. roots'[v] = root
  BY <1>1, <1>2, <1>3
<1>10. /\ \A id \in ViewIds : id \notin live' => roots'[id] = NewRoot
       /\ \A id \in ViewIds : id # v => roots'[id] \in {roots[id], NewRoot}
  BY <1>2
<1>11. \/ evictions' = evictions /\ roots'[v].cache = roots[latestId].cache
       \/ evictions' = RebuiltLists(NewRoot.cache) /\ roots'[v].cache = NewRoot.cache
  BY <1>2, <1>5, <1>6, <1>7, <1>9
<1> QED BY <1>1, <1>2, <1>3, <1>4, <1>7, <1>8, <1>9, <1>10, <1>11

\* The batch of the next view.
LEMMA AdvanceRootLists ==
  ASSUME CoherenceInv, ListsExact, AdvanceRoot, faults' = {}
  PROVE  ListsExact'
<1> USE DEF ListsExact
<1> DEFINE v == stream.view
<1>1. /\ v \in ViewIds /\ v \in Nat /\ Unadvanced(v) /\ ~SharedHeld
      /\ latestId' = v /\ v \in live' /\ roots'[v].canonical
      /\ stream'.pc = "applying" /\ stream'.view = v
      /\ \A id \in ViewIds : id \notin live' => roots'[id] = NewRoot
      /\ \A id \in ViewIds : id # v => roots'[id] \in {roots[id], NewRoot}
      /\ \/ evictions' = evictions /\ roots'[v].cache = roots[latestId].cache
         \/ evictions' = RebuiltLists(NewRoot.cache) /\ roots'[v].cache = NewRoot.cache
  BY AdvancedView, ZenonT(60)
<1>2. /\ UNCHANGED <<head, inflight>> /\ stream.pc = "locking"
      /\ \E kept : /\ live' = kept
                   /\ readers' = [r \in Readers |->
                        IF readers[r].pc = "relocking" /\ readers[r].view \notin kept
                        THEN [readers[r] EXCEPT !.dangling = TRUE]
                        ELSE readers[r]]
  BY ZenonT(60) DEF AdvanceRoot, node
<1>3. ASSUME NEW r \in Readers
      PROVE  /\ readers'[r].pc = readers[r].pc /\ readers'[r].view = readers[r].view
             /\ readers'[r].key = readers[r].key /\ readers'[r].pc # "hit"
             /\ readers'[r].pc = "relocking" => readers'[r].dangling \/ readers'[r].view \in live'
  <2>1. readers[r] \in Reader /\ readers[r].pc # "hit"
    BY <1>1 DEF CoherenceInv, StateTypeOK, SharedHeld
  <2>2. readers'[r] = IF readers[r].pc = "relocking" /\ readers[r].view \notin live'
                      THEN [readers[r] EXCEPT !.dangling = TRUE] ELSE readers[r]
    BY <1>2
  <2>3. CASE readers[r].pc = "relocking" /\ readers[r].view \notin live'
    BY <2>1, <2>2, <2>3 DEF Reader
  <2>4. CASE ~(readers[r].pc = "relocking" /\ readers[r].view \notin live')
    BY <2>1, <2>2, <2>4, ZenonT(60)
  <2> QED BY <2>3, <2>4, ZenonT(60)
<1>4. \A u \in Int : Unadvanced(u)' <=> u > v
  BY <1>1, ZenonT(60) DEF Unadvanced
<1>5. \A u \in Int : u > v => Unadvanced(u)
  <2>1. Unadvanced(v) /\ v \in Nat /\ latestId \in Nat
    BY <1>1, ViewsAreIds, FirstIds, ZenonT(60) DEF CoherenceInv, StateTypeOK
  <2>2. \A u \in Int : u > v /\ v > latestId => u > latestId
    BY ONLY <2>1
  <2> QED BY <2>1, <2>2, ZenonT(60) DEF Unadvanced
<1>6. \A u \in Int : ~Unadvanced(u) => ~Unadvanced(u)'
  BY <1>4, <1>5, ZenonT(60)
<1>7. inflight \in Seq(Views) /\ Views \subseteq Int /\ v <= head /\ ViewIds \subseteq Int
  BY ViewsAreIds DEF CoherenceInv, StateTypeOK, ViewsCommitted, ViewIds
<1>8. ViewsInOrder'
  <2>1. ASSUME NEW u \in ViewIds, u \notin live' \/ Unadvanced(u)' PROVE roots'[u] = NewRoot
    <3>1. CASE u \notin live'
      BY <1>1, <3>1, ZenonT(60)
    <3>2. CASE Unadvanced(u)'
      <4>1. u > v /\ Unadvanced(u)
        BY <1>4, <1>5, <1>7, <3>2, ZenonT(60)
      <4>2. roots[u] = NewRoot
        BY <1>1, <4>1, ZenonT(60) DEF ViewsInOrder
      <4>3. u # v
        BY <1>1, <1>7, <4>1, AfterOther, ZenonT(60)
      <4> QED BY <1>1, <4>2, <4>3
    <3> QED BY <2>1, <3>1, <3>2, ZenonT(60)
  <2>2. ASSUME NEW i \in 1 .. Len(inflight) PROVE Unadvanced(inflight[i])'
    <3>1. inflight[i] \in Int /\ v < inflight[i] /\ inflight' = inflight
      <4>1. v < inflight[i] /\ inflight' = inflight
        BY <1>1, <1>2, ZenonT(60) DEF ViewsInOrder
      <4>2. inflight \in Seq(Views) /\ Views \subseteq Int
        BY <1>7, ZenonT(60)
      <4>3. inflight[i] \in Views
        BY <2>2, <4>2
      <4> QED BY <4>1, <4>2, <4>3, ZenonT(60)
    <3> DEFINE u == inflight[i]
    <3>2. u \in Int /\ u > v /\ u' = u
      BY <1>1, <3>1
    <3> QED BY <1>1, <3>2 DEF Unadvanced
  <2>3. \A i, j \in 1 .. Len(inflight) : i < j => inflight[i] < inflight[j]
    BY DEF ViewsInOrder
  <2> QED BY <1>1, <1>2, <1>7, <2>1, <2>2, <2>3 DEF ViewsInOrder
<1>9. ReadersInOrder'
  <2>1. ASSUME NEW r \in Readers,
               readers'[r].pc \in {"has_view", "hit", "awaiting", "relocking"}
        PROVE  ~Unadvanced(readers[r].view)'
    <3>1. ~Unadvanced(readers[r].view) /\ readers[r].view \in Int
      BY <1>3, <1>7, <2>1, ZenonT(60) DEF ReadersInOrder, CoherenceInv, StateTypeOK, Reader
    <3>2. ~(readers[r].view > v)
      BY <1>5, <3>1
    <3>3. readers'[r].view = readers[r].view
      BY <1>3, ZenonT(60)
    <3> QED BY <1>1, <3>2, <3>3, ZenonT(60) DEF Unadvanced
  <2> QED BY <1>3, <2>1, ZenonT(60) DEF ReadersInOrder
<1>10. \A r \in Readers : readers[r].pc # "hit" /\ readers'[r].pc # "hit"
  BY <1>3, ZenonT(60)
<1>11. CASE evictions' = evictions /\ roots'[v].cache = roots[latestId].cache
  <2>1. \A t \in Tables : ListExact(t)'
    BY <1>1, <1>10, <1>11, ListsKept, ZenonT(60)
  <2> QED BY <1>8, <1>9, <1>11, <2>1
<1>12. CASE evictions' = RebuiltLists(NewRoot.cache) /\ roots'[v].cache = NewRoot.cache
  <2>1. ASSUME NEW t \in Tables PROVE ListExact(t)'
    <3>1. Unlisted(t)' = {} /\ ~Moving(t)'
      BY <1>10 DEF Unlisted, Moving
    <3>2. CachedIn(roots[latestId].cache, t)' = {}
      BY <1>1, <1>12, RebuiltEmpty, ZenonT(60) DEF CachedIn
    <3>3. /\ evictions'[t] \in Seq(Keys) /\ IsInjective(evictions'[t])
          /\ Range(evictions'[t]) = {} /\ Len(evictions'[t]) = 0
      BY <1>12, RebuiltEmpty, ZenonT(60)
    <3>4. 0 <= MaxKeys(t)
      BY ConfigAssumption DEF MaxKeys
    <3>6. Range(evictions'[t]) = CachedIn(roots[latestId].cache, t)' \ Unlisted(t)'
      BY <3>1, <3>2, <3>3, ZenonT(60)
    <3> QED BY <1>10, <3>1, <3>3, <3>4, <3>6, ZenonT(60) DEF ListExact
  <2>2. DOMAIN evictions' = Tables
    BY <1>12, ZenonT(60) DEF RebuiltLists
  <2> QED BY <1>8, <1>9, <2>1, <2>2, ZenonT(60)
<1> QED BY <1>1, <1>11, <1>12, ZenonT(60)

\* No step takes back that the program has failed.
LEMMA FaultsStay == ASSUME [Next]_vars PROVE faults \subseteq faults'
<1>1. CASE Commit
  BY <1>1, ZenonT(60) DEF Commit
<1>2. CASE ReceiveBatch
  BY <1>2, ZenonT(60) DEF ReceiveBatch
<1>3. CASE AdvanceRoot
  BY <1>3, ZenonT(60) DEF AdvanceRoot
<1>4. CASE ProcessChange
  BY <1>4, ZenonT(60) DEF ProcessChange, Add
<1>5. CASE PublishRoot
  BY <1>5, ZenonT(60) DEF PublishRoot
<1>6. ASSUME NEW r \in Readers, BeginTransaction(r) PROVE faults \subseteq faults'
  BY <1>6, ZenonT(60) DEF BeginTransaction
<1>7. ASSUME NEW r \in Readers, GetOne(r) PROVE faults \subseteq faults'
  BY <1>7, ZenonT(60) DEF GetOne
<1>8. ASSUME NEW r \in Readers, GetView(r) PROVE faults \subseteq faults'
  BY <1>8, ZenonT(60) DEF GetView
<1>9. ASSUME NEW r \in Readers, FallbackRead(r) PROVE faults \subseteq faults'
  BY <1>9, ZenonT(60) DEF FallbackRead
<1>10. ASSUME NEW r \in Readers, GetNoRoot(r) PROVE faults \subseteq faults'
  BY <1>10, ZenonT(60) DEF GetNoRoot
<1>11. ASSUME NEW r \in Readers, GetHit(r) PROVE faults \subseteq faults'
  BY <1>11, ZenonT(60) DEF GetHit
<1>12. ASSUME NEW r \in Readers, HitPushFront(r) PROVE faults \subseteq faults'
  BY <1>12, ZenonT(60) DEF HitPushFront
<1>13. ASSUME NEW r \in Readers, GetMiss(r) PROVE faults \subseteq faults'
  BY <1>13, ZenonT(60) DEF GetMiss
<1>14. ASSUME NEW r \in Readers, MissRead(r) PROVE faults \subseteq faults'
  BY <1>14, ZenonT(60) DEF MissRead
<1>15. ASSUME NEW r \in Readers, MissAdd(r) PROVE faults \subseteq faults'
  BY <1>15, ZenonT(60) DEF MissAdd, Add
<1>16. ASSUME NEW r \in Readers, ReadFails(r) PROVE faults \subseteq faults'
  BY <1>16, ZenonT(60) DEF ReadFails
<1>17. CASE StreamNext
  BY <1>17, <1>2, <1>3, <1>4, <1>5, ZenonT(60) DEF StreamNext
<1>18. ASSUME NEW r \in Readers, ReaderNext(r) PROVE faults \subseteq faults'
  BY <1>18, <1>6, <1>7, <1>8, <1>9, <1>10, <1>11, <1>12, <1>13, <1>14, <1>15, <1>16, ZenonT(60)
  DEF ReaderNext
<1>19. CASE UNCHANGED vars
  BY <1>19, ZenonT(60) DEF vars
<1> QED BY <1>1, <1>17, <1>18, <1>19, ZenonT(60) DEF Next, Ended

\* Every step keeps the lists exact.
LEMMA NextLists == CoherenceInv /\ ListInv /\ [Next]_vars => ListInv'
<1> SUFFICES ASSUME CoherenceInv, ListInv, [Next]_vars, faults' = {} PROVE ListsExact'
  BY DEF ListInv
<1>1. faults = {}
  <2>1. faults \subseteq faults'
    BY FaultsStay
  <2> QED BY <2>1
<1>2. ListsExact
  BY <1>1 DEF ListInv
<1>3. CASE Commit
  BY <1>2, <1>3, CommitLists
<1>4. CASE StreamNext
  BY <1>2, <1>4, ReceiveBatchLists, AdvanceRootLists, ProcessChangeLists, PublishRootLists
    DEF StreamNext
<1>5. ASSUME NEW r \in Readers, ReaderNext(r) PROVE ListsExact'
  BY <1>2, <1>5, QuietStepsList, GetViewLists, GetHitLists, HitPushFrontLists, MissAddLists,
     ZenonT(60)
    DEF ReaderNext
<1>6. CASE UNCHANGED vars
  <2>1. UNCHANGED <<head, inflight, live, roots, latestId, evictions, stream, readers>>
    BY <1>6 DEF vars
  <2>2. \A v : Unadvanced(v)' = Unadvanced(v)
    BY <2>1, UnadvancedKept
  <2>3. ViewsInOrder' /\ ReadersInOrder'
    BY <1>2, <2>1, <2>2, ZenonT(60) DEF ListsExact, ViewsInOrder, ReadersInOrder
  <2>4. \A t \in Tables : ListExact(t)'
    BY <1>2, <2>1, ListsKept DEF ListsExact
  <2> QED BY <1>2, <2>1, <2>3, <2>4 DEF ListsExact
<1> QED BY <1>3, <1>4, <1>5, <1>6 DEF Next, Ended

\* The eviction lists hold each entry of the latest view once and nothing else,
\* within the limits, as long as no two hits overlapped and no slot was misread.
THEOREM Evictions == Spec => []EvictionsListLatest
<1>1. ListInv /\ CoherenceInv => EvictionsListLatest
  <2> SUFFICES ASSUME ListInv, CoherenceInv, faults = {}, NEW t \in Tables
               PROVE  /\ IsInjective(evictions[t])
                      /\ Range(evictions[t]) = CachedIn(roots[latestId].cache, t) \ Unlisted(t)
                      /\ Len(evictions[t]) <= MaxKeys(t)
    BY ZenonT(60) DEF EvictionsListLatest
  <2>1. ListExact(t)
    BY DEF ListInv, ListsExact
  <2> QED BY <2>1, ZenonT(60) DEF ListExact
<1> QED BY <1>1, InitLists, NextLists, CoherenceInvariant, PTL DEF Spec
===============================================================================
