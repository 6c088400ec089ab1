# Verification of fifo-cache

TLA+ models of the caches of this crate, `SieveCache`, `S3FifoCache` and the
baseline `LruCache`, of the atomics and statistics under them, of the queues in
`src/queue` and of the configuration, model-checked with TLC and proved with
TLAPS: the memory safety of `SieveCache` and `LruCache`, and that they implement
an abstract queue and a recency order; that hits and evictions on one atomic
byte are single steps; what survives any number of threads in `S3FifoCache`, and
what one writer adds; and what the trait's methods, the queues and the
configuration promise. Every safety property of the passing runs is a theorem for
all values of the constants, with one exception (section 4, "Only model-checked").
Paths below are relative to the repository; `sieve.rs`, `s3fifo.rs`, `lru.rs`
and `mod.rs` are in `src/cache/`.

## 1. The system

| part | state | operations |
|---|---|---|
| `Cache` trait (`mod.rs`) | none | get, insert, remove, contains, len, clear, stats, peek; default get_or_insert_with, is_empty, is_full |
| `SieveCache` (`sieve.rs`) | one `Mutex` over a key index, a doubly-linked list of boxed nodes (head = newest) and a hand; outside it an atomic `size` and the statistics | the trait's; internally insert_at_head_locked, unlink_node_locked, evict_one_locked; drop |
| `S3FifoCache` (`s3fifo.rs`) | an index (`RwLock`), small queue, main queue, ghost queue (`Mutex` each), a membership map (`RwLock`), an atomic `size`, the statistics | the trait's; internally evict_if_needed, evict_from_small, evict_main_if_needed, evict_from_main, remove_from_queue |
| its private `GhostQueue` | a set and a queue of keys | contains, insert, remove, clear |
| `LruCache` (`lru.rs`) | as SIEVE, without a hand | the trait's |
| `CacheEntry` (`src/node/entry.rs`) | key, value, one atomic byte: frequency or visited flag | increment/decrement/reset_freq, mark/clear/is_visited |
| `CacheStats` (`src/stats.rs`) | four atomic counters | record_*, ratios, reset, clone |
| `CacheConfig` (`src/config.rs`) | capacity, small-queue ratio, options | validation, derived capacities, builders |
| `queue::FifoQueue`, `queue::GhostQueue` (`src/queue/`) | a bounded deque; a set and a deque | used by no cache |
| `CacheError`, `fifo-bench`, benches, example | none | reporting, measuring |

How they interact. Any number of threads call a cache through `&self`. A SIEVE
or LRU call holds the mutex from beginning to end, so calls do not overlap; but `len`
reads `size` without it. An S3-FIFO call takes its locks one after another and
never two at once, so it is a chain of critical sections between which other
threads act; a `get` holds the index's read lock and changes the entry with one
atomic. `insert` calls `remove` and itself to update a key; an eviction from
the small queue may promote and then evict from the main queue, in the calling
thread. Nothing is persisted and nothing is sent: there are no crashes or
messages to model.

What is hard, and where (the full list, line by line, is `hazards` in
`PROJECT.json`):

- SIEVE: a hand that outlives the call that set it while nodes are freed and
  their addresses reused; list repair at head, middle and tail; the eviction
  loop's termination under the lock; `size` passing through values callers see.
- LRU: the same list without a hand, but every hit unlinks and relinks.
- Below the locks: hits and evictions change one byte by compare-and-exchange;
  the statistics are four atomics that are read, and reset, one after the other.
- `get_or_insert_with`: the user's function runs between a miss and an insert.
- S3-FIFO: every gap between two sections; operations that go by key on
  structures whose entry for the key has been replaced meanwhile; a counter
  decremented after another thread reset it; eviction loops whose stopping
  condition readers keep changing; a ghost queue at capacity 0.

## 2. The modules

| module | models | role |
|---|---|---|
| `Sieve` | `sieve.rs` to the pointer | detailed specification |
| `SieveOrder` | one eviction and one removal on a queue as a value | operators |
| `SieveQueue` | what `SieveCache` promises: a FIFO of keys, marks, a hand; one step per call | abstract specification |
| `SieveRefinement` | the mapping from `Sieve` to `SieveQueue` | refinement |
| `SieveProofs` | theorems about `Sieve`, and the refinement of `SieveQueue` | TLAPS |
| `LruList` | the list of `lru.rs` as a value | operators |
| `Lru` | `lru.rs` to the pointer, and its mapping to `LruRecency` | detailed specification |
| `LruRecency` | what `LruCache` promises: keys in order of use | abstract specification |
| `LruProofs` | theorems about `Lru`, and the refinement of `LruRecency` | TLAPS |
| `TraitCalls` | the trait's default methods, over `SieveQueue` | composition: `EXTENDS SieveQueue` |
| `TraitProofs` | theorems about `SieveQueue` and `TraitCalls` | TLAPS |
| `CacheConfig` | the two capacities S3-FIFO derives from its configuration | operators |
| `ConfigBuilder` | `config.rs`: setters, validation, derived capacities, builders | operators |
| `Deque` | `VecDeque::retain` | operator |
| `GhostQueue` | the ghost queue of `s3fifo.rs` | operators |
| `S3Fifo` | `s3fifo.rs`, one action per critical section; uses `CacheConfig` and `GhostQueue` | specification |
| `HitPromise` | what `S3Fifo` takes for granted: a hit and a judgement are one step each | abstract specification |
| `HitPath` | the atomics of `entry.rs` and `stats.rs`, one access per step, and the mapping to `HitPromise` | detailed specification |
| `HitPathProofs` | theorems about `HitPath`, and the refinement of `HitPromise` | TLAPS |
| `FifoQueue` | `src/queue/fifo.rs` | operators |
| `PublicGhost` | `src/queue/ghost.rs`; uses `GhostQueue` for its contents | operators |
| `QueueProofs` | lemmas about sequences, deques and doubly-linked lists; `GhostQueue` stays sound | TLAPS |
| `S3FifoProofs` | theorems about `S3Fifo` | TLAPS |
| `QueueContracts` | theorems about `FifoQueue` and `PublicGhost` | TLAPS |
| `ConfigProofs` | theorems about `ConfigBuilder`, and that `CacheConfig` is what it derives | TLAPS |
| `MCSieve`, `MCTraitCalls`, `MCLru`, `MCS3Fifo`, `MCHitPath` | symmetry | instances for TLC |
| `MCS3FifoWriters` | several writers on a full cache, one call each | instance for TLC |

### Sieve and the code

`index`, `head`, `tail`, `hand` are the fields of `SieveState`; `prev`, `next`,
`nodeKey`, `nodeVal`, `visited` those of the nodes, as functions of addresses;
`live` is the set of allocated addresses. `LinkAtHead` is `Box::new` plus
`insert_at_head_locked`, `UnlinkAndFree` is `index.remove`,
`unlink_node_locked` and `Box::from_raw`: a new node may get any free address,
a freed one included. Because `len()` sees `size` between the two halves of an
update and during an eviction, those calls are several steps:

| action | code |
|---|---|
| `GetHit`, `GetMiss` | `get` |
| `InsertNew`, then `SweepVisited`*, `EvictUnvisited`*, `InsertReturn` | `insert` of a new key: link and count; each turn of the sweep in `evict_one_locked`; the end of the `while` |
| `UpdateUnlink`, then `UpdateRelink` | `insert` of a present key |
| `RemoveKey`, `Clear` | `remove`, `clear` |

`holder` is what the thread with the mutex has still to do, so other calls wait
for `holder = Free`. An update returns without evicting and without counting an
insertion, as in the code.

`SieveQueue` has one action per call. A call of `Sieve` takes effect in its
first step; from then on the holder's remaining steps are determined, and the
mapping (`Arrived`) shows the state they lead to, so they stutter.

### Lru and the code

As `Sieve`, with the list in one record, so that `move_to_head_locked` is the
composition of `Unlinked` and `AtHead`. `EvictTail` is one turn of `insert`'s
loop. An update counts an insertion, as in the code and unlike SIEVE. `get`
counts after it has released the lock, which only a reader of the counters
could tell.

### S3Fifo and the code

`index`, `small`, `main`, `ghost`, `membership`, `size` are the fields of
`S3FifoCache`; an entry (`Arc<CacheEntry>`) is an element of `Entries` with a
key and a frequency, and is forgotten when no structure and no thread refers to
it. `pc[t]` names the section thread `t` takes next and `loc[t]` its locals.

| sections of `pc` | code |
|---|---|
| lookup, ghost, publish, push, member, count | `insert`, in the order of its locks |
| check | the `while` in `evict_if_needed` |
| popSmall, judgeSmall, promote, promoteMember | `evict_from_small` |
| checkMain | the `loop` in `evict_main_if_needed` |
| measure, popMain, judgeMain, requeue, forcePop | `evict_from_main` |
| dropIndex, dropMember, dropGhost, uncount | the eviction tail the three places share |
| rmIndex, rmMember, rmQueue, rmCount | `remove`, also from `insert` |
| clIndex ... clSize | `clear` |

`freq()` followed by `reset_freq()` or `decrement_freq()` is one step here, and
so is a hit. That this loses nothing is what `HitPath` shows.

Values are not in the model of S3-FIFO: an entry carries its key and its
identity, and a value never changes inside an entry. `SieveQueue` has values.

### HitPath and the code

One key's entry from its insertion to its eviction, and the four counters.

| action | code |
|---|---|
| `Enter`, `LoadFreq`, `SwapFreq`, `SwapAgain`, `RecordHit`, `RecordMiss` | `get`: the look-up under the index's read lock, `increment_freq`'s `fetch_update` (a load, a weak compare-and-exchange, the retry with the value found), `record_hit`, `record_miss` |
| `Publish`, `RecordInsertion` | `insert`: the write lock on the index waits until no reader is inside; later the entry is queued and counted |
| `Pop`, `FindCold`, `FindHot`, `ResetFreq`, `LoadToDecrement`, `SwapDown`, `SwapDownAgain` | the judgements of `evict_from_small` and `evict_from_main`: `freq()`, then `reset_freq()` or `decrement_freq()`, with hits in between |
| `Unindex`, `RecordEviction` | the victim leaves the index, and is counted |
| `Ask`, `Load` | `clone`, which loads four counters, and `hit_ratio` or `total_accesses`, which load two |
| `Zero` | `reset`, a store for each counter |

There is one writer because an entry popped from a queue is in one thread's hand
only, which is `EntryInOnePlace`, proved for any number of threads. `recorded`
is a history variable: what was ever recorded. Accesses interleave; that
`Relaxed` accesses to different atomics may become visible in different orders
is not in the model. The frequency is one location and needs no more.
`AnswersAreCurrent` and `ResetForgets` compare a counter with what had been
recorded at a call's first access: a thread learns of another's records in that sense
through a lock or a join, as the caller of `reset` after a warm-up does.

The mapping to `HitPromise` lets a hit take effect when the exchange succeeds or
the maximum is found, a judgement when the frequency is written, and counts what
is about to be recorded as counted.

### TraitCalls and the code

`Miss` is the `get` of `get_or_insert_with` that finds nothing; the thread then
runs the caller's function, for as long as it likes, and `StoreNew` or
`StoreOver` is the `insert` that follows. The cache underneath is `SieveQueue`,
one step per call, which `Sieve` implements. For `S3FifoCache` the same method
has the gaps of `S3Fifo`'s `insert` as well.

### The queues and the configuration

`FifoQueue`, `PublicGhost` and `ConfigBuilder` have no VARIABLES: these types
are owned by their caller (`&mut self`, or by value), so an operation is a
function from a record to a record, with its answer. What there is to say of
them is for all arguments and is proved, not model-checked. `PublicGhost` keeps
the drop loop of `ghost.rs:105` as a loop, by a function of the turns taken;
the private twin in `GhostQueue` says how many are dropped, and `TwinsAgree`
proves them equal. In `ConfigBuilder` an `f64` is a fraction whose denominator
may be 0, so that NaN and infinity are there with their comparisons.

## 3. The runs

| run | instance | what it shows |
|---|---|---|
| `sieve_contents` | capacity 3, 4 keys, 4 addresses, 2 values | `NoDangling`, `IndexOwnsNodes`, `LinksAgree`, `ChainIsIndex`: no dangling pointer, no leak, no double free, one well-formed chain; `SizeBound`: what `len` can return at any moment; `SweepStopsAtHead`: an eviction always finds its victim; `ImplementsQueue`: `Sieve` implements `SieveQueue` |
| `sieve_calls` | capacity 2, 3 keys, counters mod 2 | `LockReleased`; `CallsTakeEffect`: each call is its own step of `SieveQueue` and not a stutter; `StatsFollowContents`: insertions - evictions - entries changes only by removals and clears |
| `trait_calls` | 3 threads, capacity 3, 4 keys, 2 values | `QueueSound`; `HitSurvives`: no insertion evicts a key visited when it began; `OrderIsAge`: unlike CLOCK, the hand moves no retained key; `StampedeBound`: how often `get_or_insert_with` can replace a value it should have returned; `NoNeedlessEviction`: entries leave a full cache only, and it stays full |
| `lru_recency` | capacity 3, 4 keys, 4 addresses, 2 values, counters mod 2 | `IndexOwnsNodes`, `ListIsWhole`: no leak, no use of freed memory, one chain in both directions; `SizeBound`; `ImplementsRecency`, `CallsTakeEffect`: `Lru` implements `LruRecency`, each call by its own step |
| `s3fifo_one_writer` | capacity 3 (small 1, main 2), 4 keys, frequencies to 2 | `QueuesMatchIndex`, `MembershipMatchesQueues` whenever the writer rests; `EntryInOnePlace`; `MainVictimJustified`: single-use keys pass through the small queue only; `GhostConsistent` |
| `s3fifo_live` | capacity 2, 3 keys, frequencies to 2 | `CallReturns` though readers hit what is being swept |
| `s3fifo_absent` | 2 writers past a miss, full cache of capacity 1 (small 1, main 0), 3 keys | what is left when both may insert the same missing key, `QueuesCoverIndex`: `size` counts the queues and is within the capacity, every live entry is on a queue, although a key may be queued twice and an eviction then takes a newer entry with an older one; `EntryInOnePlace` |
| `hit_path` | 2 readers, 1 observer, 1 reset, 3 accesses, 1 insertion, frequencies to 2 | `ImplementsPromise`: `HitPath` implements `HitPromise`, no hit is lost or counted twice; `RatioInRange`: a ratio read during accesses and resets stays in [0, 1]; `AnswersAreCurrent`: every number in an answer was right at some moment of the call; `ResetForgets`: nothing recorded before a reset shows after it |

Runs that TLC must find violated, each the counterexample to a sentence of the
repository (`findings` in `PROJECT.json`):

| run | what happens |
|---|---|
| `sieve_just_inserted` | every older entry is visited: the hand reaches the entry being inserted and evicts it before `insert` returns, against the test's "'d' should be there (just inserted)" |
| `s3fifo_wrap` | a `remove` decrements `size` after a `clear` has zeroed it: `len()` is 2^64 - 1. The next insert's increment takes it to 0, so that nothing is evicted and the new entry is not counted |
| `s3fifo_over_capacity` | a thread takes a key from the index to update it while another is evicting its entry: both decrement `size` for the one entry (lines 306 and 540), and when the key has been inserted again two entries are queued and `size` is 1 |
| `s3fifo_update_hides` | readers miss a key while it is being updated |

What else was found to differ, by reading and by trying the corresponding
formula, and is not kept as a run: the small queue is not bounded by its share
(eviction starts only when the total exceeds the capacity, `s3fifo.rs:243`);
`documents/ARCHITECTURE.md:181` promotes an entry hit twice, the code and its
module doc one hit once (`s3fifo.rs:272`); a promotion zeroes the frequency, so
an entry can be the victim of the eviction its own promotion causes
(`s3fifo.rs:288`, against the test comment at line 697); after a round without a
victim the main queue evicts a hot entry (`s3fifo.rs:369`, against lines 33-35);
S3-FIFO and LRU count updates as insertions (`s3fifo.rs:515`, `lru.rs:331`,
against `stats.rs:73`); two writers that both miss a key queue an entry each,
and when the older one is evicted its key leaves the index, the newer entry with
it, so that at rest `len()` counts an entry that is not cached (`s3fifo.rs:487`
and 293, against `mod.rs:118`); a writer pushes its entry, another evicts it,
and the first then records the key in the membership map, which keeps a key that
is nowhere (`s3fifo.rs:510`, against line 94); `remove` takes a key from the
index, another writer inserts it again, and `remove` goes on to take the new
entry off its queue, which stays in the index where no eviction reaches it,
until it is updated, removed or cleared (`s3fifo.rs:533`); a ghost queue of
capacity 0, as in `S3FifoCache::new(1)`, keeps one key (`s3fifo.rs:152`, against
line 24); two writers updating the same key may keep sending each other back
through `insert`'s recursion (`s3fifo.rs:465`); `get_or_insert_with` returns the
value it computed and replaces the existing one, if the key came in between
(`mod.rs:172`, against line 152); `clone` of the statistics is four loads, so
its hits and evictions may belong to different moments (`stats.rs:180`, against
"point-in-time" in line 178); `with_stats(false)`, `with_max_frequency` and
`with_ghost_queue_multiplier` are stored and no cache reads them: counters count
all the same (`config.rs:164`), the maximum frequency is a constant
(`entry.rs:95`), the ghost queue has the main queue's capacity
(`s3fifo.rs:218`); NaN is accepted as a ratio (`config.rs:122`, against line
120), proved as `NaNIsAccepted`; a `FifoQueue` collected from nothing is
unlimited and one collected from anything is full, proved as `CollectedQueue`.

### Bounds

- SIEVE and LRU. A node has two neighbours, so three live nodes and the one being
  inserted have a head, a tail, and interior nodes on each side of the hand. One
  more address than the capacity is all the code can hold; equal numbers of
  addresses and nodes force reuse of freed ones at once.
- S3-FIFO. Capacity 3 at the default ratio 1/10 gives small 1 and main 2, the
  least at which the main queue has an order; 4 keys overfill it; 5 entries are
  more than the 4 that are ever referenced. Frequencies to 2 tell cold, once
  and more apart; the code's 3 changes the number of rounds only.
- Writers. Two threads with one call each, in any order and overlap: the calls
  are made in the initial state, and a thread may start on its own as late as
  it likes. `FullCache` enumerates the caches they find: any split between the
  queues, any frequencies, an optional ghost. The writers of
  `s3fifo_absent` begin behind the look-up they have all missed at, which is
  where the same key can be inserted twice; with capacity 1 and main queue 0
  each evicts what the other is inserting, and one empties the main queue that
  the other has just found overfull. Readers may hit anything at any time.
- The trait. Three threads are the least of whom two replace the value of the
  third. Capacity 3 with 4 keys lets the hand stand at either end and between.
- `HitPath`. Two readers suffice for an exchange that fails because of another
  reader, and one reader and the eviction for one that fails because of
  that. Frequencies to 2 tell a decrement from a reset. One entry's life, three
  accesses (`MaxAccesses`, `MaxInsertions`), one reset and one answer, each free
  to overlap all others: each property is about one counter, or two, and one
  call. The counters do not wrap within the bounds; 2^64 accesses do not either.
- `UsizeMod` and `CounterMod` stand for 2^64. `UsizeMod` 16 is far from any size
  but a wrapped one. `CounterMod` 1 takes the counters out of runs that do not
  ask about them; 2 shows a counter that is off by one, and keeps a hit from
  being a stuttering step in the runs of `CallsTakeEffect`.

### Fairness

`WF(HolderStep)` for SIEVE and `WF(Step(t))` for each S3-FIFO thread: a thread
inside a call is eventually scheduled, and each of its steps is one short
critical section. No call is ever assumed to be made, and no `get` to stop.
`HitPath` and `TraitCalls` state safety only: a compare-and-exchange loop may
retry as long as others succeed, and the caller's function may never return.
LRU needs none: each turn of its
loop evicts, by `SizeBound` there is a tail to evict, and no liveness is stated.

## 4. What is proved

Every theorem is for all values of the constants that satisfy the named
assumptions of the modules, which TLC evaluates in the runs.

### SIEVE

`SieveProofs` proves, for all sets of keys and values, all finite sets of
addresses larger than the capacity and every capacity (0 included):

- `TypeCorrect`: `Spec => []TypeOK`;
- `MemorySafety`: `Spec => [](NoDangling /\ IndexOwnsNodes /\ LinksAgree)`, and
  from it `NoLeakNoDoubleFree` and `LinksStayMutual`;
- `CapacityRespected`: `Spec => []SizeBound`;
- `SweepFindsVictim`: `Spec => []SweepStopsAtHead`;
- `ChainStaysWhole`: `Spec => []ChainIsIndex`;
- `StatsFollow`: `Spec => StatsFollowContents`;
- `EachCallTakesEffect`: `Spec => CallsTakeEffect`;
- `QueueRefined`: `Spec => ImplementsQueue`.

Assumed: `None` is no key, value or address; the capacity is a natural number
and `Capacity + 1` fits in `usize`; the addresses are finite and more than the
capacity. The last is the assumption that allocation succeeds.

The invariant is `TypeOK`, the three structure predicates, `SizeBound`,
`SweepStopsAtHead` and `UpdatedKeyIsOut`. The structure predicates are local:
what they say of a node concerns it and its two neighbours, so linking at the
head (`LinkKeepsStructure`) and unlinking anywhere (`UnlinkKeepsStructure`)
keep them without an argument about the whole list. They are not inductive
alone: relinking an updated key would give it two nodes were it still indexed
(`UpdatedKeyIsOut`), and an eviction could find an empty list were the size not
the number of nodes (`SizeBound`) or, in the next turn, the head not unvisited
(`SweepStopsAtHead`). There is one lemma per action.

The local facts admit a list with a ring beside it. So for the chain and the
refinement the invariant is strengthened to `RInv`: some sequence of the live
nodes is what the links follow (`Orders`). `QueueProofs` shows what linking
and unlinking do to such a sequence (`Follows`, `Named`); that the recursive
`chain` is this sequence is proved by unfolding its defining equation, without
an induction over the list.

The mapping shows the abstract queue where the holder's remaining steps will
lead, so the proof needs that they get there: the sweep stops, at the latest at
the head, which is unvisited (`SweepFinds`), and every turn of it leaves the
place where it will stop unchanged (`SweepVisitedEffect`), so that the turns
stutter. Statistics are counted modulo their width, and so is what
`StatsFollow` says of them (`Remainder`).

### LRU

`LruProofs` proves, under the same assumptions, `TypeCorrect`,
`NoLeakNoDoubleFree` (`IndexOwnsNodes`), `CapacityRespected` (`SizeBound`),
`ListStaysWhole` (`ListIsWhole`), `EachCallTakesEffect` (`CallsTakeEffect`) and
`RecencyRefined` (`ImplementsRecency`). Here the invariant says at once that one
sequence of the allocated nodes is what both directions follow
(`ListOrdersNodes`); `move_to_head_locked` is that sequence without the node and
with it at the end (`ToHeadMoves`). `UpdateHasRoom` is the one addition: an
update under way has taken its key out of the index and is below the capacity,
so that relinking gives the key one node and finds an address for it.

### The hit path

`HitPathProofs` proves, for any number of readers (finitely many), observers and
resets, any maximal frequency and any bounds on the calls, `TypeCorrect`,
`HitsAreAtomic` (`ImplementsPromise`), `RatioStaysInRange` (`RatioInRange`),
`AnswersStayCurrent` (`AnswersAreCurrent`) and `ResetsForget` (`ResetForgets`).
The invariant has a part for who shares the frequency (`FreqInv`: a reader
exchanges only below the maximum and only while the entry is indexed; an entry
found hot stays hot until its one writer writes), one for the calls that load
counters (`ObserverInv`) and one for those that zero them (`ResetInv`). The
refinement counts the readers that are about to record, hence the assumption
that they are finitely many.

### The abstract queue and the trait

`TraitProofs` proves, for every capacity, 0 included, and any finite number of
threads: `TypeCorrect` (`TTypeOK`), `QueueStaysSound` (`QueueSound`),
`StampedeBounded` (`StampedeBound`), `HitsSurvive` (`HitSurvives`), `AgeIsKept`
(`OrderIsAge`) and `EvictionsAreNeeded` (`NoNeedlessEviction`). The last three
are action properties of the queue; they are carried over to the trait's calls
by `CallsUseOperations`, `TSpec => QSpec`. `StampedeBound` is inductive once it is
added that a key which is not cached has no rewrites yet (`CountsStartAtZero`).

### S3-FIFO, any number of threads

`S3FifoProofs` proves, for all sets of threads, keys and entries, every capacity
and every ratio in (0, 1):

- `TypeCorrect`: `Spec => []TypeOK`;
- `NothingTwice`: `Spec => []EntryInOnePlace`;
- `GhostsConsistent`: `Spec => []GhostConsistent`, set and queue of the ghosts
  equal, without repetition, and within the main queue's capacity or, where that
  is 0, one key;
- `GhostsBounded`: where that capacity is not 0, the length of the ghost queue never
  exceeds it, so that 0 is the only exception to `s3fifo.rs:24`.

Assumed are the named assumptions of `S3Fifo` and `CacheConfig`: `None` is
no key, entry or thread and not the name of a queue, the capacity is a natural
number and `Capacity + 1` is below the width of `usize`, and frequencies and
counters have a positive range.

These are what remains true although threads race on every gap between the
sections; that index, queues and `size` agree does not (`s3fifo_over_capacity`). An
entry gets into a thread's hand by being made, when nothing refers to it, or by
being popped under the queue's lock; and it gets back on a queue from there
only. So the invariant `IInv` says that an entry is in one place (`Places`,
which is `EntryInOnePlace` with the two queues and the hands apart), that a
thread has an entry, and a key, in every section that goes on to use one
(`HandFull`, `KeyHeld`), and that what is referenced has a key
(`EntriesKeyed`), without which the entries that are settled as free could be on
a queue. Each section falls under one of a few lemmas by what it changes:
the thread only, the membership map and counters, the ghost queue, references
that go (`ShrinkStep`), and the three that move an entry, proved on their own.
TLC also finds `IInv` to hold in the instance of `s3fifo_wrap`, in which two
writers do anything.

### S3-FIFO, one writer

With `Threads = {w}`, any number of readers, every capacity and ratio:

- `QueuesStayMatched`: `Spec => []QueuesMatchIndex`;
- `MapStaysMatched`: `Spec => []MembershipMatchesQueues`;
- `MainVictimsJustified`: `Spec => []MainVictimJustified`;
- `OneWriterKeepsPromises`: `Spec => [](LenIsPlausible /\ LiveWithinCapacity)`,
  the two sentences that two writers break in `s3fifo_wrap` and
  `s3fifo_over_capacity`.

The first two speak of the moments between calls and say nothing to start an
induction from. `Agree(w)` says for every section what still holds and by how
much the structures disagree:

| part | in every section |
|---|---|
| `IndexNames` | the index names, for each key, the one entry with that key on the queues or in hand; except keys that are `Leaving`, which it has already lost: the victim's until it is dropped, the removed one's until its queue is searched, all while `clear` runs |
| `MapTells` | the map names the queue that has the key's entry, except for keys that are `Untold`: pushed, popped or promoted and not yet recorded |
| `SizeCounts` | `size` is the number of queued entries, one more while a victim is in hand or a removed entry uncounted, one less after a push; when it exceeds the capacity, and where the main queue cannot be empty |
| `GhostsAreOut` | no ghost is in the index, and the key about to be published is no ghost |
| `EvictionDue` | why an eviction from the main queue began, until its victim is taken |
| `HandEmpty` | a thread has an entry in hand only where the code says so |

Each part needs others: that `remove` takes exactly one entry off its queue
follows from the map and the index together (`RetainAllButOne`), and the map is
right about the queue because an entry's key is in one place (`KeyInOnePlace`).
That `size` counts the live keys follows from a bijection between the entries on
the queues and the keys in the index (`LiveAreQueued`). TLC finds the parts to
hold in the instance of `s3fifo_one_writer`.

### Queues and configuration

`QueueProofs` has what `push`, `pop`, `append` and `retain` do to the elements of
a deque. `retain` is a function defined by recursion over the length; its
properties are proved by an induction over a set of numbers (`Induction`, from
the well-foundedness of `<`). On it rest that each ghost operation keeps
`GhostSound`, `remove_from_queue` in `S3FifoProofs`, and `QueueContracts`:
`TwinsAgree`, `PublicGhostSound`, `CapacityKept`, `CollectedQueue`.
`ConfigProofs` has `CapacitiesAddUp`, `NaNIsAccepted`, `SettersKeepValid`, and
`ModelCapacities`, which ties `ConfigBuilder` to the constants of `S3Fifo`.

### Only model-checked

The liveness properties `LockReleased` and `CallReturns`, which are out of the
prover's reach, as is ENABLED; and `QueuesCoverIndex` for several writers that insert
missing keys (`s3fifo_absent`), whose specification is the instance's own.

## 5. Not modelled

`contains`, `peek`, `len` and `stats` change nothing; `len` is covered by what
is said about `size`. `drop` runs with exclusive access and frees what `clear`
frees, which `IndexOwnsNodes` shows is everything. Lock poisoning: user code
(`Hash`, `Eq`, `Clone`) does not panic in the models, and `CacheError::Poisoned`
is never constructed. The benchmark binary, the benches and the example measure
and print; they share nothing between threads but a cache. (`fifo-bench` gives
each thread `operations / threads` calls and divides `operations` by the time.)
In `S3Fifo` the f64 of the small-queue ratio is a fraction in (0, 1); NaN gives
the capacities 0 and all (`NaNIsAccepted`), an instance without a small queue
that is not run. `CacheEntry`'s `with_metadata`, `increment_freq_with_max` and
`set_freq` have no caller. Iterators of the queues, `len` and `capacity` read.

## 6. Plan

1. Several writers that only insert missing keys: what `s3fifo_absent` checks,
   as a specification of its own and a theorem for any number of threads.
   `Agree(w)` per thread, with `SizeCounts` as a sum over them.
2. For any number of threads and calls: how far `size` can be from the number of
   entries while no thread clears.
3. The sweep of the main queue: that its attempts never exceed the length it
   measured, with one writer.
