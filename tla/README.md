# Verification of adlib

adlib is a C library of algorithms and data structures: arrays, strings, hash tables,
trees and a heap, with their tests and benchmarks. Its `staging/` directory holds what is
not released yet: futex locks, spin locks, a lock-free queue, a memory allocator and ring
buffers. This directory holds TLA+ models of its parts, the TLC configurations that check
them on small instances, and TLAPS proofs of the results that matter most.

Paths below are relative to the repository. A line number after a colon is a line of that
file at the modelled commit.

* [The system](#the-system): the inventory of components
* [The models](#the-models): which module stands for which code, and how
* [The runs](#the-runs): what TLC checks, with which bounds and fairness
* [Where the code disagrees with its text](#where-the-code-disagrees-with-its-text)
* [The proofs](#the-proofs)
* [What is not modelled](#what-is-not-modelled)
* [Plan](#plan)

## The system

The library has no threads of its own and no shared state between its components: a
program links the containers it needs and calls them. What the components share is the
allocator (every container calls `malloc`), the hash functions (hash tables) and the
intrusive-node convention (trees, lists, queues: the client embeds the node and recovers
its structure with `container_of`). Three groups differ in what makes them hard.

### Components used by several threads (`staging/`)

| component | state | operations | what is hard | what makes it correct |
|---|---|---|---|---|
| futex mutex, `mutex.h` | `locked` and `waiting` in one 64-bit word | `mutex_lock`, `_trylock`, `_unlock`; `FUTEX_WAIT`, `FUTEX_WAKE` | the unlocker stores one half of the word and reads the other, a waiter does the reverse; futex calls return for any reason | exclusion, writes of the critical section visible to the next owner, no sleeper forgotten, every caller served |
| futex semaphore, `semaphore.h` | `count` and `waiting` in one word | `semaphore_wait`, `_trywait`, `_post` | a post wakes somebody only when the count was 0 and somebody is counted as waiting | no permit lost or taken twice, nobody asleep while a permit is free |
| ticket lock, `spinlock.h` | `cur`, `next` tickets | `lock`, `try_lock`, `unlock` | unlock is a plain load and a release store; `try_lock` reads two counters separately | one owner per ticket, first come first served |
| queued lock, `spinlock.h` | `tail`, per-thread nodes with `next`, `locked`, `lock` | `lock`, `unlock`, nested use | unlock races with a successor that swapped the tail and has not linked itself; nodes are reused at once | exclusion, nodes come back clean, no waiter spins forever |
| lock-free queue, `lfqueue.[ch]` | `head` node, `tail` pointer, one hook per node | `lfq_enqueue`, `lfq_dequeue`, `lfq_empty` | head and tail change in two steps on either side; nodes are sent again | messages come out once, in order, and all of them |
| lock test, `locktest.c` | `counter`, a ring between two semaphores | `thread_main`, `producer`, `consumer` | it is the client of the locks and the semaphore | the counter ends at threads × rounds |

### Sequential containers and allocators

| component | state | operations | what is hard | what makes it correct |
|---|---|---|---|---|
| hash tables, `hashtable.[ch]` | hashes and entries in 2^n slots, entry and tombstone counts, hop bitmaps | insert, lookup, remove, resize, clear, iterate; in three probing schemes (quadratic, hopscotch, Robin Hood) | rehashing in place displaces entries that still wait for their own rehash; probe sequences end only at an empty slot; reserved hash values; a shrink that fails in the middle | the table is a set: lookup finds exactly what was inserted and not removed, whatever was resized in between |
| red-black and AVL trees, `rb_tree.c`, `avl_tree.c` | nodes with parent, children, and colour or balance | insert below a parent, remove a node, first, next, parent | repairs over three generations after removal | search order, no red-red edge and equal black heights, or balances in −1..1 that match the heights |
| B-tree, `btree.[ch]` | nodes with items and children, root, height | insert, insert-or-update, sequential insert, delete (a key, the least, the greatest), find, iterators from either end or a bound | splits, rotations and merges up to the root | sorted items, equal depth, node fill between the bounds |
| heap allocator, `malloc.c` | block headers, free lists by size, mappings | `heap_malloc`, `heap_calloc`, `heap_realloc`, `heap_free` | merging, splitting, `prev_size` of the next header, the `zeroed` shortcut, `mmap` and `munmap` that fail | blocks tile the mappings, free lists are exact, nobody's memory changes hands while in use |
| dynamic strings, `dstring.[ch]` | one of three headers in front of the characters: length and capacity in one, two or eight bytes | append, insert, replace, erase, strip, find and replace, split, compare, resize, reserve, shrink | the header changes its form as the string grows, and the characters move with it; a length of 255 marks the other headers; empty needles and matches at either end | it holds what the client put in it, terminated, length ≤ capacity; searches find the first or last place |
| dynamic arrays and buffers, `array.[ch]`, `dbuf.c` | length, capacity, memory | append, insert, delete (in order or fast), truncate, copy, sort, binary search | growth, 32-bit capacities, a position that growth must not invalidate | contents preserved, length ≤ capacity |
| binary heap, `heap.h`; sorting, `sort.h` | sequences in place | heapify, insert, delete, sift; introsort | the element that replaces a deleted one goes up or down; unguarded scans that only elements stop | heap order; sorted permutations |
| linear hashing, `linear_hashing.c` | bucket chains, the chain to split next, the round | insert, lookup, remove, clear | a split moves a part of a chain while the address of a key changes | behaves as a set |
| ring and message buffers, `cbuf.h`, `mbuf.h` | memory, start, end | push, pop, peek, overwrite | counters that wrap around, full against empty, messages dropped to make room | the newest messages, whole and in order |
| bitmap, `bitmap.h` | words of bits | set, clear, and, or, xor, not, find next | masks at the end of a word | bits behind those an operation is for keep their values |
| lists and memory arena, `list.h`, `mem_arena.h` | links; chunks and fill | insert, remove; alloc, destroy | little | links agree in both directions; blocks do not overlap |

### Programs and helpers

The test framework (`testing/`) selects tests, splits the inputs of range and random tests
into shares, forks a worker for each share, at most `num_jobs` at a time, and prints the
results in the order of the tests while the workers end in any order. Its state is the queue
of workers, the list of running ones, and per test how many of its workers have ended. A
second runner (`single_testing.c`) runs all tests in one process.

Numbers: `utils.[ch]` (overflow checks, bit counts and logarithms, in portable versions for
compilers without builtins), `uint128.h` (carries between two words), `random.c` (numbers in a
range, without bias), `charconv.c` (integers to text and back, tables for the common bases and
limits of every type). Hash functions and the random generator mix bits. Formatting
(`mprintf.c`, `error.c`), compiler attributes, benchmarks and the tests themselves keep no
state worth a model.

The hazards that follow from this, each at its line and with the properties that would
catch it, are listed in `PROJECT.json` under "hazards".

## The models

Every action or operator names in `PROJECT.json` ("map") the lines it stands for. Names
follow the code where TLA+ allows it. Constants are assumed to be what the code requires
(named `ASSUME`s), nothing more.

### Memory model of the concurrent components

The locks and the queue are written with C11-like atomics and, in places, weaker orderings
than sequential consistency; the futex word is accessed in halves. The models take x86-TSO,
the machine the library is built and tuned for: a plain, relaxed or release store goes to
the thread's FIFO store buffer, a load sees the newest own buffered store or the shared
memory, and a locked instruction (compare-exchange, exchange, fetch-and-add) or a full fence
waits until the own buffer is empty. Buffers reach the memory one store at a time, at any
moment. Every access to shared memory is a step of its own; what happens between two
accesses is local and part of the step before. One exception is sound and kept small: `counter++` of the
client is a load step and a store step.

`Mutex` and `TicketLock` need at most one pending store for each of two locations, so the
buffer is two variables (`storeCounter`, `storeLocked` or `storeCur`) with a guard that
flushes them in program order. `QueuedLock` and `LfQueue` use the general buffers of
`StoreBuffers` (`mem`, `buf`; `Load`, `Store`, `LockedStore`, `FlushBuffer`).

### Modules

| module | stands for | correspondence |
|---|---|---|
| `AbstractLock` | what a lock promises | `holder`, and the `total` that only the holder changes |
| `Mutex` | `mutex.h`, `thread_main` of `locktest.c` | `pc[t]` is the next shared access of thread t: `cas` → (`load`, `register`, `futex_wait`, `asleep`, `deregister`)* → `read`, `write` → `unlock`, `fence`, `check_waiting`, `futex_wake`. `SpuriousWakeup` is a futex call that returns early, `FutexWait` returns at once when the word has changed |
| `AbstractSemaphore` | what a semaphore promises | `permits`, and who is `inside` a wait |
| `Semaphore` | `semaphore.h` | as the mutex, with `seen[t]`, the count that the next compare-exchange expects |
| `TicketLock` | `spinlock.h` 8–39 | tickets are natural numbers; `try_lock` is three steps (`cur`, `next`, compare-exchange) |
| `StoreBuffers` | x86-TSO | no code of the repository (external) |
| `QueuedLock` | `spinlock.h` 41–121 (without `try_lock`) | nodes are `<<thread, i>>`; `Order` is the nesting of `thread_main`; two locks, each refines its own `AbstractLock` |
| `LfQueue` | `lfqueue.c` with `produce` and `consume` | a message is its node; `window` bounds how many messages are under way, which `main` fixes at 1 |
| `Hashtable` | definitions all hash tables share | `Powers`, `RoundCapacity`, `MaxEntries`, `SanitizeHash`, `ResizeCapacity` |
| `AbstractSet` | what a table or a tree promises | `members`, and `size`, which `num_entries` has to match |
| `QuadraticTable` | `hashtable.c` 106–492, the default table | `slot` maps an index to the key there, `EMPTY` or `TOMBSTONE`; the rehash in place is a function of the rounds of its two nested loops that carries the displaced entry; `FirstProbe` is where a probe sequence stops; refines `AbstractSet` through what lookup finds |
| `HopscotchTable` | `hashtable.c` 498–933 | adds the hop `bitmap`; `retried` records that a shrink has started over and stays TRUE: from then on `OthersImplementSet` says nothing of this table |
| `RobinHoodTable` | `hashtable.c` 941–1338 | the insertion loop, which may hand its slot to a richer entry or to one that waits for its rehash, is a recursion that carries the entry without a place |
| `LinearHashing` | `linear_hashing.c` | a chain is the sequence of its buckets' items; `n`, `p` and `num_items` as in the code |
| `BinaryTree` | what the next two share | a tree is one record (`root`, `kids`, `parent`, `mark`); a node is named by its key; `Find` is the search of the tests, `Walk` the foreach loop |
| `RedBlackTree` | `rb_tree.c` with the client of `tests/rb_tree.c` | the repair loops are recursive operators that return the tree after the last rotation |
| `AvlTree` | `avl_tree.c` with the client of `tests/avl_tree.c` | `Grown` and `Shrunk` are the loops that go up, `SingleRotate` and `DoubleRotate` set the balances |
| `BTree` | `btree.[ch]`, the set | a node is a value that contains its children, so the path array of the code is the recursion; `info` is the tree's `btree_info` |
| `Sets` | the seven containers from `QuadraticTable` to here, side by side | extends `QuadraticTable`, instantiates the others; `kind` says which of them the client uses; no state is shared; each refines `AbstractSet` through what its lookups find |
| `HeapMalloc` | `malloc.c`, `malloc.h` | one heap record (`head`: headers by address, `data`: memory by address, `free`: lists), in units of the alignment; `ptr`, `want`: the client's pointers and what it expects in them |
| `DString` | `dstring.[ch]` | a string is its header's form, length, capacity and cells (with terminator and junk); `Readings` is the set of what length and capacity may read as, arbitrary when the header is taken for another; the pointer games are left out, every function of the API is an operator |
| `DArray`, `DBuf` | `array.[ch]`, `dbuf.c` | cells behind the length are junk, so that a read of them shows |
| `BinaryHeap`, `Sort` | `heap.h`, `sort.h` | `Sort` is the loop with its explicit stack, the thresholds of `sort.h` are parameters, `BinaryHeap` is the heapsort it falls back to |
| `RingBuffers` | `cbuf.h`, `mbuf.h` | counters run freely modulo `COUNTER_RANGE`, the place of a byte is their remainder |
| `Bitmap` | `bitmap.h` | a word is the set of its bits |
| `UInt128` | `uint128.h`, on words `utils.[ch]`, and integers in a range of `random.[ch]` | a word has `Bits` bits; the operators are the portable versions; the generator may draw any word, and `Draw` is one round of the rejection loop |
| `CharConv` | `charconv.c` | a character is a number; `uint_t` has 16 bits and the types 8 or 16 |
| `Sequential` | eleven clients of the modules from `DString` to here, side by side | `kind` as in `Sets`; `memory` is what the calls left, `contents` what the client expects |
| `SpinLocks` | `TicketLock` and `QueuedLock`, side by side | `kind` says with which lock `locktest.c` is built |
| `TestRunner` | `testing.c`, `common.c` | `shares[t]` are the workers of test t; a worker is `<<test, number>>`; `process` is what the kernel knows of it, `queue` and `running` what the runner does |

Iteration over a table, `lfq_empty` and lookups change nothing; lookups appear as the
operators that the refinement mappings evaluate in every state (`Found`), so every
reachable table is looked up with every key.

What the models abstract: in the tables an entry is its key, and hashes are `HashBits` wide, so
that the reserved values wrap around as in the code; the hash function is a constant. B-tree
nodes have no addresses, so freeing a node (a merge, `_btree_destroy`) is leaving it out; a
map's values, which an update replaces in place, are left out. In the allocator sizes are in
units, an address is a number in a mapping, and the memory holds a mark of its owner (or
`Zero`, `Junk`) and not bytes. In `Sequential` an element is a member of a small set. The futex
system call compares the word and sleeps in one step, as the kernel does under its bucket lock.
The test runner's system calls do not fail (it exits if one does), and times and the copying
of outputs are left out. So are the buffers of `stdout`: a worker inherits what its parent has not flushed
(testing.c:118) and flushes it when it exits (141), so that text may appear twice when the output is a pipe.
`ReportExact` is about the calls of `print_test_results`, not about the bytes that reach a terminal.

## The runs

Times are for two workers on a small machine.

| run | instance | states | properties |
|---|---|---|---|
| `mutex` | 3 threads; 3, 2 and 2 rounds | 40,561 | `TypeOK MutualExclusion NoLostWakeup ImplementsLock AllRoundsRun` |
| `semaphore` | 4 threads; 2/1/1/0 waits, 0/0/2/2 posts | 34,619 | `TypeOK NoLostPermit ImplementsSemaphore EverybodyServed` |
| `spin_locks` | 3 threads, 2 rounds; ticket locks with 3 `try_lock`s, or 2 nested queued locks | 97,065 | `TypeOK TicketsInOrder FreeNodesUnlinked ImplementsLock AllRoundsRun` |
| `lf_queue` | 3 messages, 5 sendings, window 1 to 3 | 134,166 | `TypeOK InOrder QuietQueue AllReceived` |
| `lf_queue_loss` | 2 messages, 3 sendings, window 2 | violated | `NothingLost` |
| `sets` | hash tables with 5 (the default one), 8, 9 and 7 keys; 9 nodes in the binary trees, 10 items in B-trees | 41,374 | `TypeOK CountersExact LookupEnds ImplementsSet` of the default table, `TablesSound Balanced WalksInOrder OthersImplementSet` of the others |
| `hopscotch_shrink` | 33 keys, 128 to 64 slots, neighbourhood 32 | violated | `ShrinkKeepsKeys` |
| `heap_malloc` | 3 pointers, sizes 0, 2, 3, 9, mappings of 8 or more units | 34,267 | `TypeOK BlocksTile FreeListsExact MemoryKept ContentsAsPromised` |
| `heap_realloc_moves` | the same | violated | `AssertionsHold` |
| `sequential` | strings of up to 6 characters, arrays of 4, heaps of 6, rings of 4 and 8 bytes, 6 bits, words of 4 and 16 bits | 34,809 | `ContentsExact RingsExact SearchesExact NumbersExact` |
| `dstring_fill_small` | strings that may fill a small header | violated | `LengthWithinCapacity` |
| `test_runner` | 3 suites of up to 3 tests, 1 to 4 jobs | 103,612 | `TypeOK WorkTiled PoolExact ReportExact AllReported` |

### What the properties say

* **Locks.** `ImplementsLock`: mapped through "who owns the lock and has not let go of it
  visibly" and "the counter as its next reader will see it", every step is a step of the
  abstract lock. It is stronger than exclusion: a release that becomes visible before the
  critical section's own store is a violation. `MutualExclusion` (mutex) also ties the lock
  word to its owner. `NoLostWakeup`: a thread asleep on a free mutex implies a thread that
  is still going to look. `TicketsInOrder`: the tickets between `cur` and `next` belong one
  each to the threads that wait or hold. `FreeNodesUnlinked`: a node of the queued lock that
  nobody uses has no link left for the next queue. `AllRoundsRun`: every thread finishes.
* **Semaphore.** `NoLostPermit`: while permits are left, nobody sleeps unless a poster is on
  its way to wake the sleepers. `EverybodyServed`: in the end everybody has returned, or no
  permit is left.
* **Queue.** `InOrder`: what came out is a prefix of what was sent. `QuietQueue`: when both
  sides are idle and buffers are empty, and the head names a node or only one message is
  under way at a time, the linked list is exactly the sent and not yet received messages, in
  order, and the tail names the last of them.
  `NothingLost` says so without the condition, and fails. `AllReceived`: with one message
  under way at a time, as in `main`, all messages arrive.
* **Default hash table** (in `sets`). `ImplementsSet`: what lookup finds changes by exactly the key of the call, and `num_entries`
  with it; a resize or rehash hides, loses and doubles nothing. Its first half is the refinement of `AbstractSet`, whose steps do not name a call; the second,
`CallsExact`, says of each call of the table what it does: an insertion adds the key it is for, a removal takes the key it is for, `clear` all,
`resize` none. `CountersExact`: the counts of entries and of
  tombstones, by which the table decides when to grow, to shrink and to rehash, are those of the slots. `LookupEnds`:
  the probe sequence of every key, present or not, meets an empty slot; a table full of
  tombstones would let lookup probe for ever.
* **The other sets** (hash tables and trees). `OthersImplementSet`: every step changes what a client finds by one key at most, or empties
  the container, and the container's count, where it has one, goes with it. It does not name the key of the call; for the B-tree,
  whose deletions may put one item in the place of another, `WalksInOrder` does. The hopscotch table is excepted
  from the first shrink that starts over (below) to the end of the behaviour. `TablesSound`: the counters that
  decide when a table grows, shrinks or splits count what it holds, each key once, and
  what each lookup rests on is there: a hopscotch bitmap names exactly the slots of its entries; an entry of a Robin Hood table has one before
  it at most one slot nearer to its own home; the buckets of a chain are packed. `Balanced`: after every call a red-black tree has a black root, no red
  child of a red node and equal black heights; the balance of an AVL node is the difference of
  the heights below it; B-tree leaves are equally deep and all nodes but the root at least half
  full; parent links match. `WalksInOrder`: first and next visit every node in ascending order; a
  B-tree iterator starts at the bound it is asked for, in each of the five modes, moves to the
  neighbours and back; an insertion adds its item to whichever tree is reached and
  changes no other, and a deletion, by key or from either end, takes and returns the item it was asked for, and no other.
* **Sequential parts.** `ContentsExact`: after any calls a string, array or buffer holds what its client put in it,
  whatever its header or capacity has been; sorting leaves the same elements in order; and a binary
  heap has its order and its elements, wherever one is deleted or changed.
  `RingsExact`: bytes and messages come out in order, the oldest are overwritten only for new
  ones. `SearchesExact`: every search, comparison and split of strings, the binary search of
  arrays and the searches of bitmaps give the answer of a definition by sets, from every
  position. `NumbersExact`: numbers of two words are right modulo their range, overflow is
  reported exactly when it happens, each number of a random range is the answer to equally many
  words, and text is the shortest or the padded form of its number and reads back as it, while a text that
  a client types is accepted exactly when it is a number of the type.
* **Test runner.** `WorkTiled`: every input of a test is in exactly one share, however ranges
  and seeds wrap around. `PoolExact`: the lists of workers are the processes that exist, at most
  `num_jobs` run, and the runner never waits without a child. `ReportExact`: results are printed
  in order, once, after the last worker of the test, and the verdict is that of one process that
  runs the whole test. `AllReported`: every run ends with the results of all selected tests.
* **Allocator.** `BlocksTile`: the headers, followed by sizes in either direction, cover each
  mapping without gap or overlap. `FreeListsExact`: a block is in one list, once, that of its
  size, exactly when it is free, and no two neighbours are free. `MemoryKept`: each pointer's memory
  holds what its owner put there and is disjoint from others. `ContentsAsPromised`: calloc's
  memory is zero and realloc keeps the common prefix, except for the realloc described below.

Every property has a mutant in `PROJECT.json`: a change to one mapped definition such as a
programmer could make, with which TLC finds the property violated in the same run.

### Bounds

* Three threads are enough for a lock's hard cases: an owner, a waiter that is about to sleep, and
  a third that takes the lock in between; a second round lets each of them arrive late or
  reuse its node. Rounds, waits, posts, tries and sendings are budgets (`Rounds`, `Waits`,
  `Posts`, `Tries`, `Total`); the proofs drop them.
* The hash tables start at the minimum of 8 slots and grow to 16 at most (`MaxCapacity`), so that both a growth
  and a shrink are reached; the keys' hashes collide, are equal, reserved and wrap around. `RobinHoodHash` gives hashes that the table's
  factor 11 (hashtable.c:114) maps to the slots where its runs collide.
  Five keys are enough for entries and tombstones to fill the 8 slots of a default table that does not grow in time.
  The neighbourhood of 4 makes hops, failed hops and the shrink that starts over happen with
  eight keys; `hopscotch_shrink` uses the source's 32. Robin Hood runs of entries cross the end of
  the table. The linear hash table splits up to `MaxChains` = 5 chains, into the third round.
* Nine nodes make binary trees of four levels: a repair after a removal goes up, and ends in each of
  its cases. Ten items make B-trees of three levels at
  a `max_items` of 2 and 3, and of two at 4: even and odd splits, splits of the root
  and of inner nodes, merges and both rotations, with and without children. The search
  threshold takes the values that make it halve only, halve and then scan, and scan only.
* The allocator's sizes include 0, one that leaves a rest too small to split off, and one
  above the mapping size; two mappings can exist, the third `mmap` fails, and each one may fail
  earlier.
* `Sequential` keeps the order of the source's limits and makes them small: headers change at
  `UINT8_MAX` = 3 and `UINT16_MAX` = 5 (255 and 65,535), allocation stops at `SIZE_LIMIT` = 9, so that a string
  of up to `MaxLength` = 6 characters changes its header twice in either direction; growth is by 8/5, the default of the build.
  `FillsSmall` = FALSE leaves out the calls that fill a small header to `UINT8_MAX`, which
  `dstring_fill_small` is about. `UINT_RANGE` = 16 stays above all capacities. Rings of 4 and 8
  bytes have counters modulo `COUNTER_RANGE` = 16. `Sort` runs with
  `Thresholds` 1, 4 and 6 and `NintherSize` = 40 (the source has 256) on all arrays of up to five elements and on three
  long ones, one of which exhausts the depth and takes the heapsort. Two-word numbers have words of 4 bits, all of
  which are combined with all; conversions go through 16 bits in six bases, with the numbers
  next to every power, and all texts of up to 4 of ten characters.
* The suites of `test_runner` have a range that ends at the largest number, a range of all numbers
  (`UINT64_RANGE` = 8), streams whose seed wraps around, failing and negative tests and filters
  of both kinds; one to four jobs are fewer than, as many as and more than the inputs.
* Deadlock is checked everywhere but in the semaphore's run, where waiters may legitimately
  sleep for ever once the posts are used up. The lock models end in an explicit `Done` step,
  the queue in `Rest`, the test runner in `Done`; the containers and the allocator can always be called again.

### Fairness

Only liveness properties use it. Each thread's next step is weakly fair, and so is the flush
of its store buffer: the operating system runs every runnable thread and the hardware drains
buffers. Futex sleep is not a step that fairness forces: a sleeper proceeds only when woken
(or spuriously). Nothing is assumed about compare-exchange winners; in the mutex `AllRoundsRun` holds because
each thread's rounds are finite. For the semaphore the posts that clients have announced are
made (weak fairness of `Post`), and nobody is obliged to call wait. For the queue both sides run.
In the test runner the runner goes on and every worker's process ends: the runner has no
timeout, so a test that hangs keeps it waiting, and that is the one thing assumed.

## Where the code disagrees with its text

Each of these is a run that TLC must find violated.

1. **The queue can lose messages** (`lf_queue_loss`). `lfqueue.h` promises an unbounded
   single-producer single-consumer fifo. A dequeue of the last node clears `head.next`
   (lfqueue.c:65) and the node's hook (72) before it resets the tail (81). An enqueue in
   between links its node behind the one just taken and leaves `head.next` NULL. The message
   and all later ones are never dequeued. `main` keeps one message under way, and there
   `AllReceived` holds.
2. **realloc can return other data** (`heap_realloc_moves`). When the block has been merged
   with a free predecessor (malloc.c:425) and is still too small, the copy at 437 starts at the
   merged block and not at `ptr`. The assertion of `main` at 486 states what should hold.
3. **A hopscotch shrink that starts over forgets entries** (`hopscotch_shrink`). After the
   `goto retry` at hashtable.c:796 the bitmaps are cleared but the marks of slots
   already rehashed are not, so their entries appear in no bitmap.
4. **A string of 255 characters loses its length** (`dstring_fill_small`). `dstr_resize` keeps a
   small header for a capacity of `UINT8_MAX` as long as the length is below it (dstring.c:619);
   filling it stores `UINT8_MAX` as the length, which is the mark of the other headers, and
   length and capacity are then read in front of the allocation. `tests/dstring.c`:14 checks
   that length ≤ capacity.

Smaller observations, without a run:

* `lfq_enqueue` is documented to return false for a node already queued; with the check switched off (lfqueue.c:11) it
  always returns true.
* `size_to_bucket_index` (malloc.c:160) counts trailing zeros where the comment says log2: a
  free block may be in a bucket that the search for its size never visits. It costs memory
  only.
* `heap_realloc` copies into the result of `heap_malloc` without looking whether it is NULL
  (437); the model stops there (`crashed`).
* `qspinlock_try_lock` does not record the lock in its node (spinlock.h:123), so `unlock` would not
  find it. Nothing calls it.
* The semaphore's count wraps around after 2^32 posts; the source has a TODO.
* `resize(0)` on a hash table does not end, or asserts (hashtable.c:449).
* `from_chars_lut` has `UCHAR_MAX` entries (charconv.c:305), so the character 255 is read behind it.
* `mem_arena_alloc` never assigns `first`, so `mem_arena_destroy` frees nothing.
* `bm_and` and its siblings touch the word behind a bitmap whose bits fill the last one; they
  write back the value they read.
* `strview_compare` stops at a NUL, which `dstring.h`:41 allows in views, without tests.
* Sorting an array of no elements runs the insertion sort from 1 to n − 1, which wraps around (sort.h:224).
* Capacities of a `dbuf` pass through an `unsigned int` (dbuf.c:118).
* A random test of 0 values divides by 0 (testing.c:202).
* In `single_testing.c` the flag `in_test` stays set after a crashed test.
* The comment "can't fail here" of the hopscotch growth holds in the run with a neighbourhood of 4. With 1 or
  2 it does not, which the source warns about.

## The proofs

The proof modules prove, for every value of the constants that their assumptions allow:

| theorem | statement |
|---|---|
| `MutexProofs!Invariance`, `TypeCorrect` | `Spec => []IInv`, `Spec => []TypeOK` |
| `MutexProofs!Exclusion`, `WakeupNotLost` | `Spec => []MutualExclusion`, `Spec => []NoLostWakeup` |
| `MutexProofs!Refinement` | `Spec => ImplementsLock` |
| `Semaphore!Invariance`, `TypeCorrect`, `PermitNotLost` | `Spec => []IInv`, `Spec => []TypeOK`, `Spec => []NoLostPermit` |
| `Semaphore!Refinement` | `Spec => ImplementsSemaphore` |
| `SpinLocksProofs!TicketInvariance`, `TicketOrder` | `Spec => []TicketIInv`, `Spec => []TicketsInOrder` |
| `SpinLocksProofs!QueuedInvariance`, `NodesComeBackClean` | `Spec => []QueuedIInv`, `Spec => []FreeNodesUnlinked` |
| `SpinLocksProofs!TypeCorrect`, `Refinement` | `Spec => []TypeOK`, `Spec => ImplementsLock`, of both locks |
| `LfQueueProofs!Invariance`, `TypeCorrect` | `Spec => []IInv`, `Spec => []TypeOK` |
| `LfQueueProofs!MessagesInOrder`, `QueueIsExact` | `Spec => []InOrder`, `Spec => []QuietQueue` |
| `TestRunnerProofs!Invariance`, `TypeCorrect` | `Spec => []IInv`, `Spec => []TypeOK` |
| `TestRunnerProofs!TestsAreTiled`, `PoolIsExact`, `ReportIsExact` | `Spec => []WorkTiled`, `Spec => []PoolExact`, `Spec => []ReportExact` |
| `HeapMallocProofs!Invariance`, `TypeCorrect` | `Spec => []IInv`, `Spec => []TypeOK` |
| `HeapMallocProofs!HeapIsIntact`, `MemoryIsKept`, `FreeListsAreExact` | `Spec => []BlocksTile`, `Spec => []MemoryKept`, `Spec => []FreeListsExact` |
| `HeapMallocProofs!ContentsAreKept` | `Spec => ContentsAsPromised`, an action property |
| `QuadraticTableProofs!Invariance`, `TypeCorrect` | `Spec => []IInv`, `Spec => []TypeOK` |
| `QuadraticTableProofs!CountersAreExact`, `LookupsEnd` | `Spec => []CountersExact`, `Spec => []LookupEnds` |
| `QuadraticTableProofs!Refinement` | `Spec => ImplementsSet`, including that a call changes its own key (`CallsAreExact`) |

`DataLemmas` holds what several of them need: division and remainders, numbers that cut a
range into parts, injective sequences and their concatenation, least elements. Its
`SetInduction` (a set of numbers that holds 0 and with each number the next holds all) takes the place of
the library's induction theorems, whose operator parameters the provers cannot
instantiate.

**Mutex.** The set of threads is finite, `Nobody` is not a thread, and budgets are natural
numbers (`ThreadsAssumption`, `NobodyAssumption`, `RoundsAssumption`).
Neither `MutualExclusion` nor `NoLostWakeup` is inductive. The strengthening
`IInv` adds:

* `Buffered`: a pending store belongs to a thread at the step that explains it, so that a
  buffered unlock is known to come after the critical section and before the fence;
* `WaitingCount`: `waiting` is the number of threads between registering and deregistering.
  It is what lets an unlocker that reads 0 conclude that nobody sleeps;
* `LockedSeen`: a thread about to count itself as waiting compares with a word in which the
  mutex was locked, so that its compare-exchange does not succeed on a free mutex;
* `InRound`: a thread in a call has rounds left, so that budgets stay natural numbers;
* `FreshCounter`: between its load and its store, the holder's register equals the counter
  its successor would see, which the refinement's `Update` step needs.

Each conjunct has one step per action, and the cardinality facts about `Waiters` are lemmas.
The refinement maps `holder` to the thread that is in its critical section or whose unlock
is still in the buffer, and `total` to the pending store of `counter` if there is one: the
steps that drain a buffer are then stutters (counter) or the release (lock word).

**Semaphore.** Assumed: finitely many threads and natural budgets (`SemThreadsAssumption`,
`SemBudgetAssumption`). `IInv` adds `WaitingCount` to `NoLostPermit`, for the same reason,
and that a thread at its compare-exchange expects a count other than 0.

**Ticket lock.** Any set of threads without `Nobody`, natural budgets (`ThreadsAssumption`,
`BudgetAssumption`). `TicketsInOrder` is not inductive because of `try_lock` and the two
loads of the unlock. `TicketIInv` adds `TryOrdered` (what `try_lock` loaded from `cur` was at most what it
then loaded from `next`, and both only grow, so that a compare-exchange that succeeds met a
free lock), `OwnerLoads` (what the owner has loaded is still in memory) and `Buffered`.

**Queued lock.** Any set of threads, natural budgets, any number of different locks that every
thread nests in the same order, and at least as many nodes per thread (`NestingAssumption`).
None of what the run checks is inductive: the queue exists only in pieces, some in
memory, some in store buffers, some in registers. `QueuedIInv` puts it together:

* `Behind(u, p)`, that `u` waits behind `p`, is read from what `u` is about to store, from its pending
  store or from the predecessor's node, as far as `u` has come. `First(u)` says that
  `u` has the lock, or waits behind nobody and is being handed it;
* `Queue`: a thread is behind one other at most and has one other at most behind it, whoever is
  behind another is not first, and one thread at most is first. `QueueTail`: the tail is a
  thread in the queue with nobody behind it, or none when nobody is first;
* `MarkOf`: a waiting thread's mark is in memory before its link is, and stays until the
  one store that hands the lock over is written. It is why `unlock` cannot release a waiter whose
  own store of the mark would come later. `SuccessorOf`: a node names the thread behind
  it as soon as that one has linked itself, and none once its thread is out of the queue;
* `Local`, per thread: which nodes it uses (the first ones, for the locks in their order), and which
  stores can be pending at each step, in which order. The store of the counter, the hand-over and
  the clearing of the node are in that order, so that the next owner reads the new counter;
* `InnerLocks`: the inner locks are taken by the owner of the outermost one only.

There is one lemma per action and per kind of pending store (`NextExchangeQueued`, `NextFlushMark`, ...). Most
steps leave the others' part of the queue alone, which is shown once (`Unseen`, `Together`). For the
refinement, `OwnerMeant` and `CountMeant` say whom and what the mapping's `Owner` and
`Visible` choose in a state of the invariant, and each action is shown to be a move of the abstract lock or none
(`ExchangeMoves`, `WriteMoves`, `CasMoves`, ...). The outermost lock passes from one owner to nobody when the
hand-over is written, not when it is stored, and to the next when that thread sees it.

**Lock-free queue.** Assumed: finitely many messages that are neither the head node nor
`Null`, two different threads, at least one sending, windows of at most as many messages as
are sent (`NodesAssumption`, `ThreadsAssumption`, `TotalAssumption`, `WindowsAssumption`). `IInv` says
where the chain of messages is at every step of either side: `InLine` follows it
through memory, `ProducerBuffer` and `ConsumerBuffer` say which stores can be pending,
`ProducerLocals` and `ConsumerLocals` what each side's registers are still worth, and
`Waiting` where the first message is: at the head, about to be put there by the one side or by the
other, or `Lost`. The invariant so names the one state in which messages get lost, and
`OneAtATime` shows that a window of one message never reaches it. `InOrder` holds with losses too.

**Test runner.** Any suites of tests that the registration macros accept, any filters, at least one
job, words of any width (`SuitesAssumption`, `JobsAssumption`, `WordAssumption`). `WorkTiled` follows
from `Tiled`, a statement about the operator `Shares` alone for every number of jobs: the
starts of the shares are bounds that grow from 0 to the number of inputs, so that each input is between
two of them (`BoundsTile`), modulo the range of a word. For `PoolExact` and `ReportExact`, `IInv` adds
that a worker is in one list or reaped (`Lists`), that the counters count the reaped workers of each test
(`Counts`), that the cursor stands at the first test with a worker left (`Cursor`), and that what was printed
and the flags are what the workers' shares make them (`Outcomes`, `Printed`, `Verdict`).

**Allocator.** Sizes, pages and buckets are any numbers that make sense (`SizesAssumption`); mappings are placed so that no two touch
(`BasesAssumption`), since the code joins the neighbours that a header's sizes lead to, and knows
the ends of a mapping only by its marks; marks of clients differ from `Zero` and `Junk` (`ValuesAssumption`). `IInv` consists of

* `Sound`, about the heap: `Tiles` and `Listed`, which are `BlocksTile` and the first half of
  `FreeListsExact`; `Apart` (no two neighbours are free), without which merging once in each
  direction would not be enough; `Mapped` (memory is mapped from a base on, without gaps, and
  all of it is in blocks), which shows that what is split off never lies at the start of
  another mapping and that a new mapping meets nothing; `Marked` (a block marked as zeroed is cleared
  but for the free list's pointers), on which calloc's shortcut rests;
* `Client`: its blocks are used, never marked as zeroed, large enough, hold what it
  wrote, and are different ones.

Each operation of the code has a lemma that says what it makes of a sound heap
(`JoinSound`, `SplitSound`, `TakeSound`, `MapSound`, `FreeSound`, `MallocSound`, ...), most of them by way of
a description that is easier to reason about than the code (`Joined`, `Parted`, `Rewritten`,
`Grown`, `Allocated`): the same blocks but for the one or two that changed, the same memory elsewhere. A
block that is being freed is merged while its neighbours are known not to be free (`Alone`).
There is one lemma per action (`MallocGood`, `CallocGood`, `FreeGood`, `InPlaceGood`, `ElsewhereGood`); each
also shows what the action promises about contents, from which `ContentsAreKept` follows.

**Default hash table.** Assumed: any set of keys, also an infinite one, that holds neither reserved hash; any hashes of
`HashBits` bits, equal ones included; at least 4 bits, so that there is a capacity of 8 (`HashBitsAssumption`, `HashRangeAssumption`,
`HashOfAssumption`, `ReservedAssumption`); a load limit of 5 to 9 tenths, which the static assertion in
`include/hashtable.h`:46 demands (`ThresholdAssumption`). `MaxCapacity` bounds the model; it is any
number from the minimum up to the largest power of two that a capacity can be, and clients ask for at
least 1 and at most that (`CapacityAssumption`, `RequestsAssumption`). `LookupEnds` and
`ImplementsSet` are not inductive. `IInv` adds

* `LoadBounded`: entries and tombstones together are within the load limit, which leaves an empty slot (`EmptyExists`);
* `KeysOnce`: no two slots hold the same key, so that a removal removes it;
* `Reachable`: each key is in the slot its probe sequence gets to before any empty slot. Tombstones
  keep this when a key is removed, and `LookupFinds` shows that lookup then finds exactly the keys in the slots.

The argument has three parts.

1. *Probing.* The i-th probe adds i (i + 1) / 2. `ProbesDiffer` shows that two of the first c probes never meet when c is a
   power of two: twice the difference of the offsets is a product of an odd and an even number, of which the
   even one would have to be a multiple of 2c, and is too small. Differing, c probes visit all c
   slots (`ProbesVisitAll`), so that a probe stops whenever there is a slot to stop at (`FirstProbeSucceeds`).
2. *Rehashing in place.* `RehashInv` holds in each round of the two nested loops: the keys in the slots and the one being
   carried are the old keys, each once; a slot that is done holds a key whose probe passes only slots that
   are done; the slots up to the cursor are done or empty. Each displacement finishes one more
   slot, so that the inner loop ends (`DisplaceAllSettles`), and after the outer one every key is
   reachable and no tombstone is left (`RehashResult`). The loops are functions of the round; that such a
   function exists and follows its equation is shown from `SetInduction` (`LoopExists`).
3. *Capacities.* After every growth, shrink and resize the entries are within the new load limit (`ResizeFits`,
   `ShrunkFits`, `SparseFits`, `LoadLimitGrows`). This is where the limits of 5 and 9 tenths are needed: with
   less than half, doubling the table would not always make room for one more entry, and a limit of ten tenths
   would leave no empty slot.

The theorems are about `Spec`, the table alone; a step of the run's `SetsSpec` is one of its steps or leaves
it alone. `InsertStep`, `RemoveStep`, `ResizeStep` and `ClearStep` put this together: each keeps `IInv` and says what it does to the
keys in the slots, from which `CallsAreExact` (each call changes its own key and no other) and with it the refinement follow.

TLC checked each of these invariants on the run of its module before it was proved.

What stays with TLC:

* liveness (`AllRoundsRun`, `EverybodyServed`, `AllReceived`, `AllReported`), which TLAPS does not prove under fairness;
* the other containers in `Sets` (`TablesSound`, `Balanced`, `WalksInOrder`, `OthersImplementSet`) and
  `Sequential` (`ContentsExact`, `RingsExact`, `SearchesExact`, `NumbersExact`): their
  operators are recursive, since a B-tree's nodes contain their children and a repair loop of a binary tree goes
  on from the tree that its last rotation left, and the provers take no part in a module that reaches a recursive
  operator.

## What is not modelled

`PROJECT.json` lists every component with a reason. In short: hash functions and the random
generator mix bits, and tests compare them with reference values; formatting, attributes and
benchmarks have no state; the experimental hash tables are not built; lists and the arena are
a few assignments each; the single-process runner is a loop around a jump out of a signal
handler. Of modelled components the queued lock's `try_lock` and its variants with a node of the caller's
(nothing calls them), the values of B-tree maps, the ring of `locktest.c`, floating-point random numbers and byte swaps
are left out, and so is code that the source's own switches turn off (`MUTEX_OWNER`,
`USE_NEXT_IS_NULL_AS_QUEUED_CHECK`, `USE_MALLOC`).

## Plan

What would come next, in order of importance:

1. `ProducerConsumer`: the ring between two semaphores of locktest.c, composed from
   `AbstractSemaphore`, whose implementation is proved.
2. Lemmas about single operators of the containers that do not recurse: the bit operations of
   `Bitmap`, the carries of `UInt128`, the counters of `RingBuffers`.
3. The Robin Hood table with its loops as functions of the round, as in `QuadraticTable`: its rehash is the same two
   loops, and the lemmas about capacities and loops apply to it.
