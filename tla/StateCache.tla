------------------------------ MODULE StateCache ------------------------------
(***************************************************************************)
(* CoherentStateCache (ethdb/kv/state_cache.cpp): the cache of account,    *)
(* storage and code entries that every execution context shares, keyed by  *)
(* the view id of the database snapshot an entry was read from.            *)
(*                                                                         *)
(* Its two kinds of client run concurrently:                               *)
(*   - the readers, coroutines inside CachedDatabase::get_one, each with a *)
(*     transaction whose tx_id() is the view id of its snapshot;           *)
(*   - the state-changes stream, which calls on_new_block with the batch   *)
(*     that takes one snapshot to the next.                                *)
(* One rw_mutex_ orders them.  get takes it shared and keeps it across the *)
(* co_await of the database read, so shared ownership spans steps here;    *)
(* on_new_block is cut at its loop over the changes, under the exclusive   *)
(* lock.  The other critical sections are one step each.                   *)
(*                                                                         *)
(* The node's database, its commits and its batches are external.          *)
(***************************************************************************)
EXTENDS Integers, Sequences, FiniteSets, Functions

CONSTANTS
  Readers,       \* coroutines reading through CachedDatabase
  CallThread,    \* the thread on which each reader calls get_one
  ResumeThread,  \* the thread that resumes it after a database read
  StreamThread,  \* the thread that runs the state-changes stream
  AccountKeys,   \* PlainState keys of accounts
  StorageKeys,   \* PlainState keys of storage locations
  CodeKeys,      \* code hashes
  Values,        \* the non-empty byte strings
  Empty,         \* the empty byte string: what the database has for no entry
  None,          \* no entry, no key, no answer
  MaxViews,      \* config_.max_views
  MaxStateKeys,  \* config_.max_state_keys
  MaxCodeKeys,   \* config_.max_code_keys
  WithStorage,   \* config_.with_storage
  IdSpace,       \* number of StateViewIds, 2^64 in the code
  FirstView,     \* view of the node's database when the daemon starts
  LastView,      \* bound: last view the node commits
  MaxBatch,      \* bound: cache writes in one batch
  LeafSlots      \* entries that fit in the single leaf of a btree_set

Keys == AccountKeys \cup StorageKeys \cup CodeKeys

\* What the core commits and the readers ask for: entries of a snapshot.
Bytes == Values \cup {Empty}

ViewIds == 0 .. IdSpace - 1

\* The views the node commits while the daemon runs.
Views == FirstView .. LastView

ASSUME NoneAssumption == None \notin Keys \cup Bytes
ASSUME EmptyAssumption == Empty \notin Values
ASSUME KeysAssumption == StorageKeys \cap (AccountKeys \cup CodeKeys) = {}
ASSUME ThreadAssumption == /\ DOMAIN CallThread = Readers
                           /\ DOMAIN ResumeThread = Readers
ASSUME BoundAssumption ==
  /\ IdSpace \in Nat \ {0, 1}
  /\ FirstView \in ViewIds
  /\ LastView \in ViewIds \ {IdSpace - 1}
  /\ FirstView <= LastView
  /\ MaxBatch \in Nat
  /\ LeafSlots \in Nat

\* The constructor refuses max_views == 0.
ASSUME ConfigAssumption ==
  /\ MaxViews \in Nat \ {0}
  /\ MaxStateKeys \in Nat
  /\ MaxCodeKeys \in Nat
  /\ WithStorage \in BOOLEAN

VARIABLES
  db,         \* the snapshot of every committed view (external)
  head,       \* the last committed view (external)
  inflight,   \* views whose batch was sent and not yet received (external)
  live,       \* the view ids in state_view_roots_
  roots,      \* the CoherentStateRoot of every live view id
  latestId,   \* latest_state_view_id_
  evictions,  \* state_evictions_ and code_evictions_: keys, newest first
  stream,     \* the state-changes stream and its on_new_block
  readers,    \* the coroutines reading through CachedDatabase
  faults      \* undefined behaviour and failed assertions met so far

vars == <<db, head, inflight, live, roots, latestId, evictions, stream,
          readers, faults>>

node == <<db, head, inflight>>
cache == <<live, roots, latestId, evictions>>

-----------------------------------------------------------------------------
(***************************************************************************)
(* Data.                                                                   *)
(***************************************************************************)

Tables == {"PlainState", "Code"}

TableOf(k) == IF k \in CodeKeys THEN "Code" ELSE "PlainState"

MaxKeys(t) == IF t = "Code" THEN MaxCodeKeys ELSE MaxStateKeys

\* cache and code_cache hold the entries of PlainState and of Code keys; one
\* function stands for both since no key belongs to the two tables.
CoherentStateRoot == [cache: [Keys -> Bytes \cup {None}],
                      ready: BOOLEAN,
                      canonical: BOOLEAN]

NewRoot == [cache |-> [k \in Keys |-> None],
            ready |-> FALSE,
            canonical |-> FALSE]

\* The entries of table t in a root's cache.
CachedIn(c, t) == {k \in Keys : TableOf(k) = t /\ c[k] # None}

\* One add or add_code call that on_new_block makes for an account change:
\* UPSERT and REMOVE (with no data) write the account, CODE the code,
\* UPSERT_CODE both, STORAGE every location when with_storage is set; an
\* unexpected action writes nothing.
Write == [key: AccountKeys \cup CodeKeys
                 \cup (IF WithStorage THEN StorageKeys ELSE {}),
          value: Bytes]

WritesKey(todo, k) == \E i \in DOMAIN todo : todo[i].key = k

\* The coroutine that runs the stream, and the batch it is applying.
Stream == [pc: {"reading", "locking", "applying"},
           view: Views,
           todo: Seq(Write)]

\* A coroutine inside or outside get_one: the view of its transaction, the key
\* it reads, its last answer, and whether the root it found has been erased
\* while it waited for the lock with the value to add.
Reader == [pc: {"idle", "locking_view", "has_view", "fallback", "hit",
                "awaiting", "relocking"},
           view: Views,
           key: AccountKeys \cup CodeKeys \cup {None},
           ret: Bytes \cup {None},
           dangling: BOOLEAN]

Faults == {"misread_slot", "list_race", "assertion", "erased_root"}

\* The batch of view v: its last write of a key is the entry of the snapshot,
\* and it writes every key that differs from the view before (an earlier block
\* of the same batch may write a value that a later one replaces).
IsBatchOf(todo, v) ==
  /\ \A i \in DOMAIN todo :
       \/ todo[i].value = db[v][todo[i].key]
       \/ \E j \in DOMAIN todo : j > i /\ todo[j].key = todo[i].key
  /\ \A k \in Keys :
       \/ v - 1 \in Views => db[v - 1][k] = db[v][k]
       \/ WritesKey(todo, k)
       \/ k \in StorageKeys /\ ~WithStorage

-----------------------------------------------------------------------------
(***************************************************************************)
(* Locks and threads.  The lock is held shared between the steps of a hit  *)
(* and across the database read of a miss, exclusively while a batch is    *)
(* applied.  A coroutine that runs or waits for the lock keeps its thread; *)
(* one suspended in a co_await does not.                                   *)
(***************************************************************************)

SharedHeld == \E r \in Readers : readers[r].pc \in {"hit", "awaiting"}

ExclusiveHeld == stream.pc = "applying"

CanLockShared == ~ExclusiveHeld

CanLockUnique == ~ExclusiveHeld /\ ~SharedHeld

\* The thread that reader r occupies, if any.
Occupies(r) ==
  CASE readers[r].pc \in {"locking_view", "has_view", "hit"} -> {CallThread[r]}
    [] readers[r].pc = "relocking" -> {ResumeThread[r]}
    [] OTHER -> {}

StreamBusy == stream.pc \in {"locking", "applying"}

\* Thread t is not taken by a coroutine other than reader r.
FreeForReader(r, t) ==
  /\ \A s \in Readers \ {r} : t \notin Occupies(s)
  /\ t = StreamThread => ~StreamBusy

FreeForStream == \A r \in Readers : StreamThread \notin Occupies(r)

\* Neither an assertion nor an access to an erased root has ended the program.
Running == faults \cap {"assertion", "erased_root"} = {}

-----------------------------------------------------------------------------
(***************************************************************************)
(* add and add_code.                                                       *)
(***************************************************************************)

\* The eviction lists are sequences of keys, the most recent first.
Last(s) == s[Len(s)]
Front(s) == SubSeq(s, 1, Len(s) - 1)

\* std::list::remove: the elements of s at the positions kept, in their order.
Remove(s, e) ==
  LET kept == {i \in DOMAIN s : s[i] # e}
      Nth(n) == CHOOSE i \in kept : Cardinality({j \in kept : j <= i}) = n
  IN  [n \in 1 .. Cardinality(kept) |-> s[Nth(n)]]

AnyOrder(S) == CHOOSE s \in [1 .. Cardinality(S) -> S] : IsInjective(s)

\* When the key is present add erases its entry and inserts the new one, then
\* reads the key to unlist through a pointer to the erased slot.  While the
\* tree is one leaf with another entry the new entry is back in that slot; a
\* leaf that was freed, split or merged may hold any entry there, or none.
ReplacedKeys(c, k) ==
  LET entries == CachedIn(c, TableOf(k))
  IN IF k \notin entries THEN {None}
     ELSE IF Cardinality(entries) \in 2 .. LeafSlots THEN {k}
     ELSE entries \cup {None}

\* add: only the latest view lists its keys; the listed key in excess is the
\* oldest, and it must be an entry of the view (num_erased == 1).
Add(v, k, value) ==
  LET t == TableOf(k)
      before == roots[v].cache
      added == [before EXCEPT ![k] = value]
  IN IF latestId # v
     THEN /\ roots' = [roots EXCEPT ![v].cache = added]
          /\ UNCHANGED <<evictions, faults>>
     ELSE \E replaced \in ReplacedKeys(before, k) :
          LET listed == <<k>> \o Remove(evictions[t], replaced)
              excess == Len(listed) > MaxKeys(t)
              oldest == Last(listed)
          IN /\ evictions' = [evictions EXCEPT ![t] =
                                IF excess THEN Front(listed) ELSE listed]
             /\ roots' = [roots EXCEPT ![v].cache =
                            IF excess THEN [added EXCEPT ![oldest] = None]
                            ELSE added]
             /\ faults' = faults
                  \cup {f \in {"misread_slot"} : before[k] # None /\ replaced # k}
                  \cup {f \in {"assertion"} : excess /\ added[oldest] = None}

-----------------------------------------------------------------------------
(***************************************************************************)
(* The node (external): it commits snapshots, and sends the batch of a     *)
(* view after the commit, in order; a batch is lost while the stream is    *)
(* not registered.                                                         *)
(***************************************************************************)

Commit ==
  /\ head < LastView
  /\ head' = head + 1
  /\ \E snapshot \in [Keys -> Bytes] :
       /\ \A k \in CodeKeys : db[head][k] # Empty => snapshot[k] = db[head][k]
       /\ db' = [db EXCEPT ![head + 1] = snapshot]
  /\ inflight' \in {inflight, Append(inflight, head + 1)}
  /\ UNCHANGED <<cache, stream, readers, faults>>

-----------------------------------------------------------------------------
(***************************************************************************)
(* The state-changes stream: on_new_block.                                 *)
(***************************************************************************)

\* A batch arrives; one without changes is skipped before the lock.
ReceiveBatch ==
  /\ stream.pc = "reading"
  /\ inflight # <<>>
  /\ FreeForStream
  /\ inflight' = Tail(inflight)
  /\ stream' \in {stream, [stream EXCEPT !.pc = "locking", !.view = Head(inflight)]}
  /\ UNCHANGED <<db, head, cache, readers, faults>>

\* Faulty variant: one view too many stays.
EvictRootsLate(ids, next) ==
  IF Cardinality(ids) <= MaxViews THEN ids
  ELSE IF next = 0 THEN ids \cap {next}
  ELSE {id \in ids : id > (latestId - MaxViews) % IdSpace}

\* evict_roots(next): the ids that stay.  It runs before latest_state_view_id_
\* moves to next, and its subtraction wraps.
EvictRoots(ids, next) ==
  IF Cardinality(ids) <= MaxViews THEN ids
  ELSE IF next = 0 THEN ids \cap {next}
  ELSE {id \in ids : id > (latestId - MaxViews + 1) % IdSpace}

\* Faulty variant: the view inherits from the latest one, not from its parent.
LatestAsPrevious(v) == latestId

\* The view that v may inherit from.
PreviousId(v) == (v - 1) % IdSpace

\* The eviction lists of a view that inherits nothing.
RebuiltLists(c) == [t \in Tables |-> AnyOrder(CachedIn(c, t))]

\* advance_root(v), the start of on_new_block under the lock: the view
\* inherits the entries of a canonical previous view together with the
\* eviction lists, otherwise the lists are rebuilt from its own entries.
AdvanceRoot ==
  LET v == stream.view
      prev == PreviousId(v)
      found == live \cup {v}
      own == IF v \in live THEN roots[v] ELSE NewRoot
      inherits == prev \in live /\ roots[prev].canonical
      root == [own EXCEPT !.cache = IF inherits THEN roots[prev].cache ELSE @,
                          !.canonical = TRUE]
      kept == EvictRoots(found, v)
  IN /\ stream.pc = "locking"
     /\ CanLockUnique
     /\ live' = kept
     /\ roots' = [id \in ViewIds |-> IF id \notin kept THEN NewRoot
                                     ELSE IF id = v THEN root ELSE roots[id]]
     /\ evictions' = IF inherits THEN evictions ELSE RebuiltLists(own.cache)
     /\ latestId' = v
     /\ readers' = [r \in Readers |->
                      IF readers[r].pc = "relocking" /\ readers[r].view \notin kept
                      THEN [readers[r] EXCEPT !.dangling = TRUE]
                      ELSE readers[r]]
     /\ faults' = faults \cup {f \in {"erased_root"} : v \notin kept}
     /\ \E todo \in UNION {[1 .. n -> Write] : n \in 0 .. MaxBatch} :
          /\ IsBatchOf(todo, v)
          /\ stream' = [stream EXCEPT !.pc = "applying", !.todo = todo]
     /\ UNCHANGED node

\* Faulty variant: a removal, which has no data, is skipped.
ProcessChangeSkipsRemovals ==
  LET write == Head(stream.todo)
  IN /\ stream.pc = "applying"
     /\ stream.todo # <<>>
     /\ IF write.value = Empty THEN UNCHANGED <<roots, evictions, faults>>
        ELSE Add(stream.view, write.key, write.value)
     /\ stream' = [stream EXCEPT !.todo = Tail(@)]
     /\ UNCHANGED <<node, live, latestId, readers>>

\* The next add or add_code of the loop over the batch.
ProcessChange ==
  /\ stream.pc = "applying"
  /\ stream.todo # <<>>
  /\ Add(stream.view, Head(stream.todo).key, Head(stream.todo).value)
  /\ stream' = [stream EXCEPT !.todo = Tail(@)]
  /\ UNCHANGED <<node, live, latestId, readers>>

\* Faulty variant: the lock is not released.
PublishRootKeepsLock ==
  /\ stream.pc = "applying"
  /\ stream.todo = <<>>
  /\ roots' = [roots EXCEPT ![stream.view].ready = TRUE]
  /\ UNCHANGED <<node, live, latestId, evictions, stream, readers, faults>>

\* The end of on_new_block: the view is ready and the lock released.
PublishRoot ==
  /\ stream.pc = "applying"
  /\ stream.todo = <<>>
  /\ roots' = [roots EXCEPT ![stream.view].ready = TRUE]
  /\ stream' = [stream EXCEPT !.pc = "reading"]
  /\ UNCHANGED <<node, live, latestId, evictions, readers, faults>>

-----------------------------------------------------------------------------
(***************************************************************************)
(* The readers: CachedDatabase::get_one, get_view, get and get_code.       *)
(***************************************************************************)

\* Reader r leaves get_one with an answer; None stands for an exception.
Return(r, value) ==
  readers' = [readers EXCEPT ![r].pc = "idle", ![r].ret = value]

\* A new request opens its transaction on the current snapshot.
BeginTransaction(r) ==
  /\ readers[r].pc = "idle"
  /\ readers[r].view # head
  /\ FreeForReader(r, CallThread[r])
  /\ readers' = [readers EXCEPT ![r].view = head, ![r].ret = None]
  /\ UNCHANGED <<node, cache, stream, faults>>

\* The readers ask for accounts and code: storage is read with get_both_range,
\* which never uses the cache.
GetOne(r) ==
  /\ readers[r].pc = "idle"
  /\ FreeForReader(r, CallThread[r])
  /\ \E k \in AccountKeys \cup CodeKeys :
       readers' = [readers EXCEPT ![r].pc = "locking_view", ![r].key = k,
                                  ![r].ret = None]
  /\ UNCHANGED <<node, cache, stream, faults>>

\* Faulty variant: the transaction moves on to the last snapshot.
GetViewOfHead(r) ==
  LET root == IF head \in live THEN roots[head] ELSE NewRoot
  IN /\ readers[r].pc = "locking_view"
     /\ CanLockUnique
     /\ live' = live \cup {head}
     /\ roots' = [roots EXCEPT ![head] = root]
     /\ readers' = [readers EXCEPT ![r].view = head, ![r].pc =
                      IF root.ready THEN "has_view" ELSE "fallback"]
     /\ UNCHANGED <<node, latestId, evictions, stream, faults>>

\* get_view: the root is created if missing; its view is used only if ready.
GetView(r) ==
  LET v == readers[r].view
      root == IF v \in live THEN roots[v] ELSE NewRoot
  IN /\ readers[r].pc = "locking_view"
     /\ CanLockUnique
     /\ live' = live \cup {v}
     /\ roots' = [roots EXCEPT ![v] = root]
     /\ readers' = [readers EXCEPT ![r].pc =
                      IF root.ready THEN "has_view" ELSE "fallback"]
     /\ UNCHANGED <<node, latestId, evictions, stream, faults>>

\* Faulty variant: an entry not found is looked up again.
FallbackReadRetries(r) ==
  /\ readers[r].pc = "fallback"
  /\ FreeForReader(r, ResumeThread[r])
  /\ IF db[readers[r].view][readers[r].key] = Empty
     THEN readers' = [readers EXCEPT ![r].pc = "locking_view"]
     ELSE Return(r, db[readers[r].view][readers[r].key])
  /\ UNCHANGED <<node, cache, stream, faults>>

\* Without a view the entry comes from the transaction's database.
FallbackRead(r) ==
  /\ readers[r].pc = "fallback"
  /\ FreeForReader(r, ResumeThread[r])
  /\ Return(r, db[readers[r].view][readers[r].key])
  /\ UNCHANGED <<node, cache, stream, faults>>

\* get, no root: nullopt, which get_one turns into empty bytes.
GetNoRoot(r) ==
  /\ readers[r].pc = "has_view"
  /\ CanLockShared
  /\ readers[r].view \notin live
  /\ Return(r, Empty)
  /\ UNCHANGED <<node, cache, stream, faults>>

\* The entry found in the cache of a view.
Entry(v, k) == roots[v].cache[k]

\* get, hit: in the latest view the key moves to the front of its list, by a
\* remove and a push_front that only the shared lock protects.
GetHit(r) ==
  LET v == readers[r].view
      k == readers[r].key
      t == TableOf(k)
  IN /\ readers[r].pc = "has_view"
     /\ CanLockShared
     /\ v \in live
     /\ roots[v].cache[k] # None
     /\ IF v = latestId
        THEN /\ evictions' = [evictions EXCEPT ![t] = Remove(@, k)]
             /\ readers' = [readers EXCEPT ![r].pc = "hit"]
             /\ faults' = faults \cup {f \in {"list_race"} :
                            \E s \in Readers : /\ readers[s].pc = "hit"
                                               /\ TableOf(readers[s].key) = t}
        ELSE /\ Return(r, Entry(v, k))
             /\ UNCHANGED <<evictions, faults>>
     /\ UNCHANGED <<node, live, roots, latestId, stream>>

\* Faulty variant: the key is not pushed back.
HitWithoutPush(r) ==
  /\ readers[r].pc = "hit"
  /\ Return(r, Entry(readers[r].view, readers[r].key))
  /\ UNCHANGED <<node, cache, stream, faults>>

HitPushFront(r) ==
  LET k == readers[r].key
  IN /\ readers[r].pc = "hit"
     /\ evictions' = [evictions EXCEPT ![TableOf(k)] = <<k>> \o @]
     /\ Return(r, Entry(readers[r].view, k))
     /\ UNCHANGED <<node, live, roots, latestId, stream, faults>>

\* get, miss: the database read starts with the shared lock held.
GetMiss(r) ==
  /\ readers[r].pc = "has_view"
  /\ CanLockShared
  /\ readers[r].view \in live
  /\ roots[readers[r].view].cache[readers[r].key] = None
  /\ readers' = [readers EXCEPT ![r].pc = "awaiting"]
  /\ UNCHANGED <<node, cache, stream, faults>>

\* The database read completes: an empty value is not cached; otherwise the
\* shared lock is released before the exclusive one is taken.
MissRead(r) ==
  LET value == db[readers[r].view][readers[r].key]
  IN /\ readers[r].pc = "awaiting"
     /\ FreeForReader(r, ResumeThread[r])
     /\ IF value = Empty THEN Return(r, Empty)
        ELSE readers' = [readers EXCEPT ![r].pc = "relocking"]
     /\ UNCHANGED <<node, cache, stream, faults>>

\* The value read is added through the root found before the database read.
MissAdd(r) ==
  LET v == readers[r].view
      k == readers[r].key
  IN /\ readers[r].pc = "relocking"
     /\ CanLockUnique
     /\ IF readers[r].dangling
        THEN /\ faults' = faults \cup {"erased_root"}
             /\ UNCHANGED <<roots, evictions>>
        ELSE Add(v, k, db[v][k])
     /\ readers' = [readers EXCEPT ![r].pc = "idle", ![r].ret = db[v][k],
                                   ![r].dangling = FALSE]
     /\ UNCHANGED <<node, live, latestId, stream>>

\* A database read throws; the lock is released on the way out.
ReadFails(r) ==
  /\ readers[r].pc \in {"fallback", "awaiting"}
  /\ FreeForReader(r, ResumeThread[r])
  /\ Return(r, None)
  /\ UNCHANGED <<node, cache, stream, faults>>

-----------------------------------------------------------------------------
Init ==
  /\ db \in {[v \in Views |-> s] : s \in [Keys -> Bytes]}
  /\ head = FirstView
  /\ inflight \in {<<>>, <<FirstView>>}
  /\ live = {}
  /\ roots = [id \in ViewIds |-> NewRoot]
  /\ latestId = 0
  /\ evictions = [t \in Tables |-> <<>>]
  /\ stream = [pc |-> "reading", view |-> FirstView, todo |-> <<>>]
  /\ readers = [r \in Readers |->
                  [pc |-> "idle", view |-> FirstView, key |-> None,
                   ret |-> None, dangling |-> FALSE]]
  /\ faults = {}

StreamNext == ReceiveBatch \/ AdvanceRoot \/ ProcessChange \/ PublishRoot

ReaderNext(r) ==
  \/ BeginTransaction(r) \/ GetOne(r) \/ GetView(r) \/ FallbackRead(r)
  \/ GetNoRoot(r) \/ GetHit(r) \/ HitPushFront(r)
  \/ GetMiss(r) \/ MissRead(r) \/ MissAdd(r) \/ ReadFails(r)

\* The program has ended: nothing is said of it after undefined behaviour.
Ended == ~Running /\ UNCHANGED vars

Next ==
  \/ Running /\ Commit
  \/ Running /\ StreamNext
  \/ Running /\ \E r \in Readers : ReaderNext(r)
  \/ Ended

Spec == Init /\ [][Next]_vars

\* Threads run; a lock that is free again and again is in the end granted
\* (the last reader to leave hands the glibc rwlock to a waiting writer), and a
\* database read ends in a value or in an error.  No request is owed.
Fairness ==
  /\ WF_vars(Running /\ ReceiveBatch)
  /\ SF_vars(Running /\ AdvanceRoot)
  /\ WF_vars(Running /\ (ProcessChange \/ PublishRoot))
  /\ \A r \in Readers :
       /\ SF_vars(Running /\ GetView(r))
       /\ SF_vars(Running /\ (GetNoRoot(r) \/ GetHit(r) \/ GetMiss(r)))
       /\ WF_vars(Running /\ HitPushFront(r))
       /\ WF_vars(Running /\ (FallbackRead(r) \/ MissRead(r) \/ ReadFails(r)))
       /\ SF_vars(Running /\ MissAdd(r))

FairSpec == Spec /\ Fairness

-----------------------------------------------------------------------------
(***************************************************************************)
(* Properties.                                                             *)
(***************************************************************************)

\* The types of all but the eviction lists.
StateTypeOK ==
  /\ db \in [Views -> [Keys -> Bytes]]
  /\ head \in Views
  /\ inflight \in Seq(Views)
  /\ live \subseteq Views
  /\ roots \in [ViewIds -> CoherentStateRoot]
  /\ latestId \in Views \cup {0}
  /\ stream \in Stream
  /\ readers \in [Readers -> Reader]
  /\ faults \subseteq Faults

\* Coherence: an entry that the cache holds for a view is the entry of that
\* view's snapshot, whatever batches were lost, whichever readers filled the
\* view in (add) and whatever it inherited (advance_root).  The view whose batch
\* is being applied is excepted, under the exclusive lock.
CacheCoherent ==
  \A v \in live : ~(stream.pc = "applying" /\ stream.view = v) =>
    \A k \in Keys : roots[v].cache[k] \in {None, db[v][k]}

\* CachedDatabase::get_one never answers with the entry of another snapshot:
\* it answers with the reader's own, with empty bytes, or throws.
ReadsNeverStale ==
  \A r \in Readers :
    readers[r].ret \in Values => readers[r].ret = db[readers[r].view][readers[r].key]

\* The root, cache and entry references that get keeps across its co_await
\* stay valid: while a reader holds the shared lock its root is in the map, and
\* the entry it hit is still there.
HeldRootIsLive ==
  \A r \in Readers : readers[r].pc \in {"hit", "awaiting"} =>
    /\ readers[r].view \in live
    /\ readers[r].pc = "hit" => roots[readers[r].view].cache[readers[r].key] # None

\* evict_roots keeps the older views within max_views, although it counts ids
\* and not views: when a batch follows the one of its parent, at most max_views
\* views are left up to its own.  Readers may have newer views before the batch
\* arrives, and may bring an older one back after it.
ViewsBounded ==
  [][latestId' = latestId + 1 /\ latestId >= MaxViews - 1
       => Cardinality({id \in live' : id <= latestId'}) <= MaxViews]_vars

\* No view is used before the node has committed it.
ViewsCommitted ==
  /\ \A i \in 1 .. Len(inflight) : inflight[i] <= head
  /\ \A v \in live : v <= head
  /\ stream.view <= head
  /\ \A r \in Readers : readers[r].view <= head

\* rw_mutex_ is never held shared and exclusively at once.
LockExclusive == ~(SharedHeld /\ ExclusiveHeld)

\* Without with_storage no storage location is in any view.
StorageUncached ==
  ~WithStorage => \A v \in live : \A k \in StorageKeys : roots[v].cache[k] = None

\* While a batch is applied every entry of its view is the snapshot's or is
\* still to be written, and so is the value of every remaining write.
BatchInProgress ==
  stream.pc = "applying" =>
    /\ \A k \in Keys : \/ roots[stream.view].cache[k] \in {None, db[stream.view][k]}
                       \/ WritesKey(stream.todo, k)
    /\ \A i \in DOMAIN stream.todo :
         \/ stream.todo[i].value = db[stream.view][stream.todo[i].key]
         \/ \E j \in DOMAIN stream.todo :
              j > i /\ stream.todo[j].key = stream.todo[i].key

\* A reader inside get_one has a key.
ReadersHaveKeys == \A r \in Readers : readers[r].pc # "idle" => readers[r].key # None

\* The inductive invariant behind coherence: what a step of on_new_block or of
\* get may find half done, together with the promises to the readers.
CoherenceInv ==
  /\ StateTypeOK
  /\ ViewsCommitted
  /\ LockExclusive
  /\ StorageUncached
  /\ BatchInProgress
  /\ ReadersHaveKeys
  /\ CacheCoherent
  /\ HeldRootIsLive
  /\ ReadsNeverStale

\* Keys of table t that a hit has removed from their list and not yet pushed.
Unlisted(t) == {readers[r].key : r \in {r \in Readers : readers[r].pc = "hit"}}
                 \cap {k \in Keys : TableOf(k) = t}

\* The eviction lists are what add relies on to keep the latest view within its
\* limits: as long as no two hits overlapped and no erased slot was misread,
\* each lists every entry of the latest view once and nothing else, up to the
\* key that a hit is moving.
EvictionsListLatest ==
  faults = {} /\ latestId \in live =>
    \A t \in Tables :
      /\ IsInjective(evictions[t])
      /\ Range(evictions[t]) = CachedIn(roots[latestId].cache, t) \ Unlisted(t)
      /\ Len(evictions[t]) <= MaxKeys(t)

\* Every read ends: with at most one cached read per thread no cycle of lock
\* and thread waits forms, and none starves.
ReadsEnd ==
  \A r \in Readers :
    readers[r].pc = "locking_view" ~> (readers[r].pc = "idle" \/ ~Running)

\* Every batch received is published.
BatchesArePublished == stream.pc = "locking" ~> (stream.pc = "reading" \/ ~Running)

\* The answers that get_one gives through the cache are those of SnapshotReads.
reads == [r \in Readers |-> [pc |-> IF readers[r].pc = "idle" THEN "idle" ELSE "busy",
                             view |-> readers[r].view,
                             key |-> readers[r].key,
                             ret |-> readers[r].ret]]

Abstract == INSTANCE SnapshotReads WITH ReadKeys <- AccountKeys \cup CodeKeys

\* The cache implements SnapshotReads: whatever its views, lists and locks do
\* between a call of get_one and its answer, a caller sees one snapshot.
ImplementsSnapshotReads == Abstract!Spec

-----------------------------------------------------------------------------
(***************************************************************************)
(* What assertions, comments and tests of the repository say, and the code *)
(* does not do.                                                            *)
(***************************************************************************)

\* SILKWORM_ASSERT(num_erased == 1) of add and add_code: without a misread of
\* the erased slot it never fails.  Two overlapping hits break it.
OldestIsCachedDespiteHits == "assertion" \in faults => "misread_slot" \in faults

\* The same assertion: without overlapping hits it never fails.  A misread of
\* the erased slot breaks it.
OldestIsCachedDespiteReplace == "assertion" \in faults => "list_race" \in faults

\* evict_roots erases older views: the view whose batch is being applied stays.
NewViewIsKept == stream.pc = "applying" => stream.view \in live

\* CachedDatabase::get_one falls back on the transaction's database: an answer
\* is the entry of the reader's snapshot.
ReadsAreOfSnapshot ==
  \A r \in Readers : readers[r].ret # None =>
    readers[r].ret = db[readers[r].view][readers[r].key]

\* The loops of a context run until stopped: a thread that waits for the lock
\* of the cache in the end gets it.
LoopKeepsRunning ==
  \A r \in Readers :
    readers[r].pc \in {"locking_view", "relocking"}
      ~> (readers[r].pc \notin {"locking_view", "relocking"} \/ ~Running)

=============================================================================
