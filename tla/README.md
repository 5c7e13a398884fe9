# A verification of Hatchling Platform in TLA+

Hatchling Platform is a small C++ runtime: containers that never reallocate, a
memory manager with scopes, a task queue, a console, a profiler, a test runner.
This directory holds TLA+ models of its parts, the TLC configurations that check
them on small instances, and TLAPS proofs of theorems about them for every
instance. File and line references are to the repository (`src/...` is its C++
source directory, `include/hx/...` its headers). `PROJECT.json` maps every
definition to the lines it models, and lists the components, runs, mutants,
findings, hazards and theorems.

Contents: [1 Inventory](#1-inventory) -
[2 Modules](#2-modules) - [3 Runs](#3-runs) - [4 Proofs](#4-proofs) -
[5 Findings](#5-findings) - [6 What is not covered](#6-what-is-not-covered) -
[7 Plan](#7-plan)

## 1 Inventory

| Component | State | Operations | Correct means |
| --- | --- | --- | --- |
| Task queue (`hxtask_queue`, `hxtask`) | heap `m_tasks_`, run level, `m_executing_count_`, two condition variables, one mutex, the threads | construct, `enqueue`, `cancel`, `clear`, `erase_if`, `for_each`, `wait_for_all`, destroy; the loop of each worker | every task is executed once or removed; `wait_for_all` returns, and only when nothing is queued or running; shutdown leaves nobody behind |
| Mutex, condition variable, thread, thread local (`hxthread.hpp`) | native handles; `m_owns_`; `m_started_`, `m_joined_`; a value per thread | lock, wait with a predicate, notify, start, join | a lock owns the mutex when it says so; a wait returns with its predicate true; a thread that is joinable is there to be joined |
| Priority heap (`hxarray` heap calls, `hxmake_heap_`) | the array, its end | `push_heap`, `pop_heap`, `erase_if`, `for_each`, `clear`, `make_heap` | the front has the highest priority; no record is lost or duplicated |
| Red-black tree (`hxrbtree`) | links, colors and parent pointers in the nodes; root, size | insert, erase, extract, pop, clear, searches, iterators | sorted, balanced, parent pointers consistent, every node reachable |
| Memory manager (`hxmemory_manager`) | `m_current` and counters of three allocators, the current allocator of each thread, open scopes | `hxmalloc`, `hxmalloc_ext`, `hxfree`, scopes, leak count, shutdown | allocations never overlap; a free reaches the allocator that served it; a scope restores what it found |
| Array, allocator (`hxarray`, `hxallocator`) | static or once allocated storage, end pointer | the `std::vector` operations without reallocation | each element is constructed and destroyed once |
| Hash table (`hxhash_table`) | buckets of intrusive chains, size | insert, find with a previous node, extract, erase, clear, iterate | a bag of nodes by key; chains never join |
| List (`hxlist`) | links around a sentinel, size | insert, extract, erase, clear | a sequence; both directions agree |
| Deque (`hxdeque`) | ring with head, tail, mask, count | push and pop at both ends | a bounded sequence |
| Algorithms (`hxalgorithm.hpp`, searches of `hxarray`) | none | sorts, merge, set operations, binary search, comparison | sorted permutations, set semantics |
| Radix sort | two or three buffers, histograms | sorts of 2 to 4 passes | a stable sorted permutation, however many passes are skipped |
| Init, shutdown, logging (`hatchling.cpp`) | `g_hxinit_ver_`, settings, function-static guards | `hxinit`, `hxshutdown`, log, assert | constructed once before its first use |
| Console | hash table of commands | register, deregister, execute a line or file | a line runs the command it names with the arguments it holds |
| File (`hxfile`) | handle, ownership, eof and fail flags | open, close, move, read, write, seek | closed once by its owner; flags tell of the last call |
| Profiler | started flag, bounded records, mutex | start, stop, scope ends, write | records only of started periods; well formed output |
| Test runner | case table, state and counters of a test | register, check, run all | a failure is never counted as a pass |
| Bitset | words | bit operations, shifts | no operation reaches the unused bits |
| Random numbers (`hxrandom`) | 64 bits | generate, range | every result as often as any other; ranges are kept |
| Keys, utility, settings | none | compare, hash, `hxlog2i` | what compares equal has one hash |

How they interact. The task queue owns a heap (`hxarray` of `record_t`) and calls
it only with its mutex held; its constructor takes the storage of the threads from
the memory manager. Every container takes its storage from the memory manager
through `hxallocator`, from the allocator that is current for the calling thread.
`hxmalloc` and the scopes call `hxinit`, which constructs the memory manager.
The console looks commands up in a hash table, reads files through `hxfile`, and
sorts its help in a temporary scope; the radix sort opens a temporary scope too,
the test runner holds one around all tests. The profiler locks a mutex of its own
at the end of every profiled scope, which includes every task of a task queue.

What is hard. *Concurrency*: the two wait conditions of the task queue, tasks that
enqueue while the owner waits, removal by other threads, shutdown; the temporary
stack that threads must not share; the unlocked first `hxinit`. *Long sequences*:
the tree and the heap are right after a call only because of what all earlier
calls left. *Boundaries*: stacks that overflow into the heap, allocations of size
0, the bitset's last word, skipped radix passes. *Callbacks*: deleters and
functors that run in the middle of `erase`, `clear` and `erase_if`. The list
`hazards` of `PROJECT.json` names each one at its line, with the properties that
cover it or the reason why none does yet.

## 2 Modules

| Module | Role |
| --- | --- |
| `TaskPool` | abstract: a pool of tickets that are pending, running or gone, and an owner that waits and closes |
| `TaskQueue` | the task queue, one action per critical section; implements `TaskPool` |
| `PriorityPool` | abstract: a set of records of which one of the highest priority is taken |
| `InlineQueue` | the task queue that has no threads of its own, one action per access; implements `TaskPool` |
| `Monitor` | `hxmutex`, `hxunique_lock`, `hxcondition_variable`, one action per call of the native library |
| `Startup` | the first call, shutdown, threads that start and end, thread locals and the guards of function statics |
| `HeapQueue` | the binary heap behind the task queue, one action per loop iteration; implements `PriorityPool` |
| `OrderedNodes` | abstract: the linked nodes as a sequence |
| `RbTree` | the red-black tree, one action per loop iteration; implements `OrderedNodes` |
| `MemoryManager` | allocators and scopes, one action per call |
| `NodeSequences` | abstract: lists as sequences of nodes, which deleters move to another list |
| `IntrusiveList` | `hxlist`: links around sentinels; implements `NodeSequences` |
| `BoundedDeque` | abstract: a sequence of bounded length that is used at both ends |
| `Deque` | `hxdeque`: the ring; implements `BoundedDeque` |
| `HashTable` | `hxhash_table`: several tables that share nodes, and an iterator |
| `BitSet` | `hxbitset`: words, shifts, unused bits |
| `Vectors` | abstract: arrays as sequences, and what each call may make of one; the heap calls have to leave a heap |
| `Array` | `hxarray`: what lives in each slot; implements `Vectors` |
| `Heaps` | `hxmake_heap_`, `hxheapsort_heapify_`, `hxheapsort` as operators on functions |
| `IntroSort` | `hxsort`, the partitioning loop one iteration at a time |
| `Ranges` | `hxmerge`, `hxset_union`, `hxset_intersection`, `hxset_difference`, `hxbinary_search`; `equal`, `less` and `find_if` of `hxarray` |
| `RadixSort` | `hxradix_sort`, `hxradix_sort11`, one pass at a time |
| `Numbers` | `hxrandom` and `hxlog2i`: a generator, and what a float makes of its numbers |
| `Keys` | `hxkey_hash` and `hxkey_equal` of numbers, strings and names |
| `File` | `hxfile`: who owns a stream, the eof and fail flags |
| `Console` | `hxconsole`: the command table, lines, files of lines, arguments |
| `TestRunner` | `hxtest_`: checks, counters, the order and the end of a run |
| `Profiler` | scopes of several threads, start and stop, what is written |
| `Containers`, `Algorithms`, `Services`, `Runtime` | compositions: a program that uses one kind of container, calls one algorithm, uses one service, or one part of what runs under them. All have any constants but for the inputs of algorithms, which are small |
| `MCLibrary` | harness: one of these four, with small values of their constants |
| `TaskQueue_proofs`, `HeapQueue_proofs`, `MemoryManager_proofs`, `RbTree_proofs` | theorems about the module that each is named after |
| `Runtime_proofs` | theorems about `Monitor`, `Startup` and `InlineQueue` |
| `Containers_proofs` | theorems about `Containers` and the lists and tables it composes |
| `Storage_proofs` | theorems about `Containers` and the deques, arrays and bitsets it composes |
| `Library_proofs` | theorems about `Services` and `Runtime`, and what they compose |
| `MCRbTrees` | harness: a tree of unique keys (`MCRbTree`) or a multiset |
| other `MC...` | the constants, keys, scripts, tests and symmetries of the runs |

### TaskQueue

`m_tasks_`, `m_queue_run_level_` and `m_executing_count_` are accessed with
`m_mutex_` held only, and every notification is sent with it held. So one action
is one critical section, from taking the mutex to giving it back at the end of a
scope or inside a wait. `pc` says where each thread is: `lock` is "about to enter
the critical section at the top of the loop", `wait_tasks` and `wait_completion`
are asleep, `wake_tasks` and `wake_completion` have been woken and have yet to take
the mutex and look at the predicate. A woken thread competes with all others, so
the task it was woken for may be gone; `SpuriousWakeup` wakes it for nothing.
`notify_one` picks any sleeper or is lost.

The report of the previous task (`Executing`, `Reported`) is part of whichever
action the loop takes next, as in the code, where it is the first thing done with
the mutex. `mode_` is the `mode_` argument of the owner's loop. Tickets give each
call of `enqueue` an identity, because the same task may be queued twice.
`finished` and `removed` are history. Which record is at the front of the heap is
left open here and settled in `HeapQueue`.

What callers must do is in the guards, and nothing else: they do not enqueue into a
full queue (`push_heap` asserts), clients leave the queue alone once its
destruction began, and only the owner waits and destroys. Tasks may enqueue and
remove while they run.

`TaskQueue` takes for granted that a critical section is one step. `Monitor` shows
that of the lock and the condition variable.

### InlineQueue

With no threads `wait_for_all` takes no lock: it tests `m_tasks_`, reads the front,
removes the front and runs what it has read, in four actions (`TestEmpty`,
`ReadFront`, `PopHeap`, `FinishProcess`). `top` is the front of the heap, which
`Enqueue` leaves alone unless the new record is higher, and which is any of the
highest after the heap was rebuilt. The owner calls the queue between its own
calls, running tasks call it while they run, and the threads in `Client` whenever
they like before the destructor. With `Client` empty it implements `TaskPool`, as
`TaskQueue` does; with a client it loses tickets (`InlineQueue_race`).

### Monitor

The native mutex and condition variable are external: `Acquire` is the return of
`pthread_mutex_lock`, or the end of `pthread_cond_wait`; a wait unlocks and sleeps
in one step, wakes for a notification or for nothing. All else is
`hxunique_lock` and `hxcondition_variable`: when each calls the native function
and what it writes to `m_owns_`, which stays true while a wait has given the mutex
up. What the lock protects is a counter of tokens that is read and written back in
two steps (`Read`, `Write`); waiters take a token.

### Startup

`hxinit_internal` is four steps: the test of `g_hxinit_ver_` (`FirstCall`), the
settings, the memory manager, the assignment. With `Racing = FALSE`, as in the run,
a first call is made by a thread that runs alone, which is what the program has to
see to. `local` is the thread local allocator of each thread, `null` before its
first use, `outer` what an open scope will restore. `guard` is the word that
`__cxa_guard_acquire` tests, of the static in `hxthread_id`, which
`hxthread::start` calls first so that the static is there before the thread is.
`Shutdown` may be followed by a first call again. An assertion that fails is skipped
as often as a test has asked for, and otherwise stops the program.

### HeapQueue

The array of records with `push_heap`, `pop_heap`, `hxmake_heap_`, `erase_if`,
`clear` and `for_each`. `sift_up` and `sift_down` are the loops of `hxmake_heap_`
and `hxheapsort_heapify_`, `node` their position. `Functors` says whether the
functor of `erase_if` may write priorities. All calls run under the mutex of the
queue, so calls do not interleave with one another.

### RbTree

`tree` is a function from the linked nodes to their fields `left`, `right`,
`parent` and `color`; the parent and the color, one word in the code, are two
fields. The code writes every case twice, for the left and for the right; here
`side` is a parameter and `Other(side)` its mirror image. `Recolor`,
`InsertRotate` and `InsertDone` are the iterations of `hxrbtree_insert_color_`;
`RedSibling`, `FlipSibling` and `EraseRotate` those of the loop at `rebalance_`.
`ClearRotate` and `ClearDelete` are the two branches of `clear`. Where `insert`
reads through a null pointer the model stops in `insert_fault`.

### MemoryManager

Offsets into the two stacks are numbers, heap addresses the names of cells.
`hxfree` gets the address only, so `Route` decides like the code whose it is. The
functions hold the mutex of the manager from beginning to end and one action is
one call. `BeginScope` and `EndScope` are the constructor and the destructor of
`hxsystem_allocator_scope`, which nest in each thread and interleave between
threads. `peak` is history.

Two rules of the documentation are guards: only the threads in `TempThread` use
the temporary stack (the model has one; "two threads cannot share a stack
allocator"), and what was allocated from it in a scope is freed before the scope
ends (`ScopeIsClear`).

### Containers: IntrusiveList, Deque, HashTable, BitSet, Array

Nothing in these runs concurrently; what is hard is that any sequence of legal
calls must leave links, counters and lifetimes right, and that deleters run in the
middle of `clear` and `erase`. So one action is one call, but for the calls that
take a deleter: there an action is one iteration of the loop, and the deleter
either destroys the node or pushes it onto another list or table, as a free list
does, which overwrites the link the loop has just read. `m_list_prev_`,
`m_list_next_`, `m_table_`, `hash_next`, `data`, `m_head_` and the others have the
names of the code. `owner` is history: the list or table that the caller gave a
node to, which the assertions of the code and the rules for callers talk about.

In `HashTable` a table of 2^bits buckets uses the highest bits of a hash, as the
code does, so two tables of different size spread the same nodes differently.
`iter` is a `const_iterator` that lives across calls until its node is removed;
`expected` and `visited` are history.

In `Array` a slot holds a value, `Moved` (an object that was moved from) or
`Raw` (no object), and becomes `Fault` after a constructor runs on an object, or
a destructor, an assignment or a move runs on none. The loops of `insert`, `erase`
and the heap calls are recursive functions over the storage, so one action is one
call. `Delete` is the destructor, which frees storage without objects; a
constructor is the call that it makes on an array as `Init` and `Delete` leave it:
`Resize`, `Assign`, or `Swap` for the one that moves. `Predicates` says what the functor of `erase_if_heap` may select: when an
element is selected that is not at the end, the lifetimes do go wrong (see the
plan), so the passing run lets it select final elements only.

In `BitSet` a word is the set of its bits, so that `&`, `|`, `^` and shifts are set
operations, with `WordBits` in place of 64.

### Algorithms: Heaps, IntroSort, Ranges, RadixSort

`IntroSort` keeps the pending recursive calls in `calls`, a sequence of ranges, and
does one iteration of the partitioning loop in an action: `Less`, `Greater`,
`Middle`; `Partition` is everything before the loop and `CallBack` everything
behind it. The cutoff of 32 is a constant, so that short arrays partition; the
depth limit is any small number, so that each call may turn to heapsort.

`Ranges` is one machine for five functions: `src0_` and `src1_` are the positions
in the two inputs, elements are records of a key and where they come from, so that
"the first of two equal ones" can be told. The searches and comparisons of arrays
share its cursors: `equal` stops at different sizes, both stop at the first
difference, `find`, `any_of` and `all_of` are `find_if` with another functor or
another return value. `RadixSort` has the widths of the digits
as constants; keys of signed types and floats are made unsigned by `ModifiedKey`,
and `KeyValue` says what they meant.

### Algorithms: Numbers, Keys

TLC cannot multiply numbers of 64 bits, and a property of all of them could not be
enumerated. So `Numbers` and `Keys` have every width as a constant. The low bits of
a product depend on the low bits of its factors only, so the state of the model's
generator goes through the low bits of the program's, with its constants modulo
2^11; four bits of control become two. A float is the integer that the conversion
rounds to, to the nearest and ties to even. `Numbers` counts how often each result
was returned in `tally`. In `Keys` a hash has 8 bits and the multipliers are those
of the program modulo 2^8. That hashes differ where the properties say so rests on
steps that are one to one at any width: sums, multiplications by an odd number,
rotations and folds.

### Services: File, Console, TestRunner, Profiler

`File` has the fields of each `hxfile` object and, as the external part, whether
each stream of the C library is open and at its end. Moves copy the bytes of an
object and zero the other one; `Fclose` is the only place where a stream is closed.
How much a call reads or writes is a choice, and so is the reason of a short one.
Calls whose assertion fails stop the program and are not steps.

`Console` executes lines, which are a name and tokens. `frames` is the stack of the
files that are being executed: `exec` and functions that execute a file push one,
`EndFile` pops it, and `result` is the value that `hxconsole_exec_line` or
`hxconsole_exec_file` returned last. `Parses` and `Parsed` are the recursion of
`call_`, `hxconsole_parse_arg_` with its parsers of C numbers says whether the
pointer moved. The newline that `getline` leaves at the end of a line matters to
arguments that are text only (`NamesFile`). `called`, `line` and `failed` are
history.

`TestRunner` leaves open what a test does: it makes checks, which hold or do not and
are fatal or not, and returns or throws, with or without memory left on the temporary
stack. `temp_stack` says what is there: nothing, bytes that no allocation uses, or
allocations. The runner opens its scope once and not for each test, so what one test
leaves is held against each test behind it: such a test fails the leak check, which
halts until the messages are used up. When the runner returns, the scope gives bytes
back and asserts that there are no allocations (`leaked` is the end of the process);
with assertions compiled out these stay for the next run, which does not begin.
The sort of the test cases is an order that it may leave (`SortedCases`), as no two of
them are in one line of one suite.
`verdict` is history: what the test deserved, decided without the counters.

`Profiler` samples (`Enter`, `Sample`) outside of the lock and records (`Leave`)
inside of it, so that starting and stopping may come between. Times are kept as
they are; `Cycles` and `Elapsed` are what a register that wraps makes of them. A
record has the low 32 bits of the native id of its thread (`Truncated`), so two threads
may have records with one id.
`Trace` is what would be written now.

## 3 Runs

`tlc -config <run>.cfg <module>.tla` with the module that `PROJECT.json` names; three
minutes or less each on two workers.

| Run | Instance | Shows |
| --- | --- | --- |
| `TaskQueue_program` | 2 workers, owner, 1 client of which the start decides whether it removes, 2 tasks, 3 submissions, capacity 2 | counter exact, shutdown quiet, each ticket in one place, no lost task wakeup, tickets leave the queue, implements `TaskPool`; if the client does not remove, no lost completion, and `wait_for_all` and the destructor return |
| `TaskQueue_lost` | 1 worker, 1 client that removes | violation: `WaitReturns` |
| `HeapQueue_safety` | 5 slots, 3 priorities, symmetric identities | a heap between calls, highest first, no record duplicated nor lost but by `erase_if`, implements `PriorityPool` |
| `HeapQueue_reprioritize` | 3 slots, functors that write | violation: `FrontIsHighest` |
| `RbTree_safety` | a set of 10 distinct keys with an 11th node whose key is taken; a multiset of 8 nodes, 5 keys | balance, parent pointers, completeness, iteration, no null sibling, searches of the multiset, implements `OrderedNodes`, every call returns |
| `RbTree_null` | 3 nodes | violation: `InsertNeverFaults` |
| `RbTree_find` | a multiset of 3 nodes, 2 keys | violation: `FindIsFirst` |
| `InlineQueue_race` | 1 client, 2 priorities, 3 submissions | violation: `EachTicketOnce` |
| `MemoryManager_zero_end` | 1 thread, sizes 0 and 1, 3 live | violation: `RoutesBack` |
| `Library_safety`, containers | 2 lists of 3 nodes; rings of 1, 2 and 4; tables of 2 and 4 buckets, 3 nodes, 2 with one key and the third in their bucket of one table; 2 bitsets of 5 bits in words of 2; 2 arrays of up to 4 | both directions of the links, sizes, slots that hold objects, disjoint chains, complete searches and iterations, words against bits, lifetimes; lists, deques and arrays implement sequences, and each heap call of an array leaves a heap |
| `Library_safety`, algorithms | `hxsort` of every array of 0, 1, 3 and 7 values of 3 with a cutoff of 6 and depths 0 to 2; ranges of up to 3 keys of 3; radix sorts of every array of 0, 2 and 3 four-bit keys of each type; the period of a generator of 11 bits with results of 5 and floats of 3; hashes of 8 bits of all numbers, and of all pairs of texts of up to 3 characters | permutation, order, progress of each step; stability of merge, the keys of the set functions for ranges without duplicates, bounds of the binary search, lexicographic order; order after each pass and at the end, in the right buffer; an even distribution, results inside of their range and exact logarithms unless a float rounds the number to the next power of two; no collision of numbers or neighbors, one hash for one name |
| `Library_safety`, services | 2 `hxfile` objects and 3 streams, one borrowed; 3 scripts, two of which execute another, and 25 typed lines; 3 tests of 2 suites, 3 checks each, silence after 2 failures, bytes or allocations left behind; 2 threads with 2 nested scopes and different ids, a clock that wraps at 3, 2 records | one owner of each stream; exact arguments within the range of their types; no line after a failed one; verdicts, counters and order of tests; nested records, none made while stopped |
| `Library_safety`, runtime | 2 threads, 1 of them on the temporary stack, which is 2 scopes deep, the other 1; sizes and alignments 1 and 2, 2 live allocations; main thread and 2 workers that start and end again and again; a monitor of 3 threads and 2 tokens; a queue of 2 for 3 submissions of 2 priorities | disjoint memory, counters, routing, assertions of free and of scopes, high water; one memory manager, guards that never fail, allocators of a thread are its own, joinable threads; ownership of the lock, no lost update, waits end with their predicate, no sleeper beside an unclaimed token; each task once and the highest first, implements `TaskPool` |
| `Profiler_nested` | the same | violation: `SamplesRunForward` |
| `Console_nested` | the same | violation: `ExecFindsFile` |

Why the bounds are enough. *TaskQueue*: a lost wakeup takes a sleeper, a thread
that overtakes it, and a submission between the two; two workers, the owner and
three submissions give every pair of them with a third party. Capacity 2 lets a
queue hold two tasks, so that one report finds the queue not empty. *HeapQueue*:
five slots make three levels whose last inner node has two children, three
priorities give less, equal and greater on both sides of a comparison. *RbTree*:
the erase loop climbs only in a black tree three levels high, and ten nodes are the
fewest that calls can build one with; with eight all other cases
occur, and the eleventh node is refused whenever its key is taken.
*MemoryManager*: a temporary stack of 3 holds padding that decides whether an
allocation fits, a permanent stack of 1 overflows at the second one, two scopes
of one thread nest in each combination of allocators, and one of the other
thread is open around and inside of them. *Startup*: two workers are needed for a
race for a guard beside the main thread. *Monitor*: three threads are a waiter, one
that overtakes it and one that notifies; two tokens wake two waiters.
*InlineQueue*: three tickets of two priorities in a queue of two are one that
runs, one that waits and one that its task puts in front of it. *Containers*: three nodes are a first, an
inner and a last one of a chain; rings of 1, 2 and 4 wrap at every position; five
bits in words of two leave an unused bit, and shifts by 0 to 6 cover none, part, all
and more than all of a word and of the set; four elements have an inner node
with two children in a heap. *Algorithms*: seven is the shortest array that can be
partitioned (five pivots a seventh apart), three values give less, equal and
greater for every comparison; four bits are four digits of one bit or three of two
and one, and every combination of passes that are needed occurs; numbers of 5 bits
are rounded to 3 by 0, 1, 2 and 3 units, with ties to both sides. *Services*: two objects move streams to each other and onto
themselves, and a stream stays free to be opened; the ranges of the types are scaled
down to a few bits with the order between them kept, and each typed line is at or
beside a limit; a script that fails in the middle is executed by one that is executed
by another; three checks reach the limit of messages and go past it; a wrap at 3
cycles is met by scopes that are shorter and as long. Bounds of the models
(`MaxEnqueue`, `MaxLive`, `MaxScopes`, `MaxCount`, `MaxChecks`, `MaxDepth`, `MaxTime`, `MaxHeld`, `MaxSkips`, `MaxTokens`) are named in guards; the counters of the code have no
other bound here.

Every property of a passing run has a mutant: a variant of a definition with a
plausible mistake (a missing notification, a dropped color, an off-by-one), named
beside the definition it replaces and listed in `PROJECT.json`, that violates the
property in the same instance.

Deadlock is checked for the task queue, where a state without a next step would be
threads that wait for each other (the destroyed queue stutters in `Terminated`),
for the heap, the containers, the algorithms (whose finished calls
stutter), the services (where a halted test run stutters, since
the process is gone) and the runtime (where a destroyed queue and a failed program
stutter). The runs of `RbTree` switch it off, because
a process that has read through a null pointer does stop.

Fairness. `TaskQueue`: weak fairness of each thread's next step in the loop, of
the return of `process` (a task that never returns is a caller's mistake), of
starting the threads and of joining them. A thread that waits for a mutex takes it
eventually because critical sections are finite and the scheduler runs every
runnable thread; nothing else is assumed, in particular no fairness of `enqueue`,
of `wait_for_all`, of spurious wakeups, nor of which thread `notify_one` picks.
`RbTree`: weak fairness of the steps inside of a call, since one thread executes it
and nothing blocks it.

## 4 Proofs

`tlapm <module>.tla` for the eight modules whose names end with `_proofs`; each takes
minutes, `Containers_proofs` and `RbTree_proofs` about a quarter of an hour. The theorems hold for every value of the
constants that satisfies the assumptions of the modules; what a theorem assumes
beyond them is said here. The runs check the same definitions on small instances.

`TaskQueue_proofs`, for any finite set of workers, any clients, tasks, capacity and
number of submissions:

- `TypeCorrect`, `CountIsExact`, `StopIsQuiet` rest on one inductive invariant,
  `IInv`: types; the counter equals the number of threads that hold a ticket;
  such threads are inside of a task or about to report one (`HolderPlaces`); the
  owner's position agrees with `mode_` and the run level (`OwnerModes`); a stopped
  queue is empty and idle (`StoppedIsEmpty`); a worker that returned saw the queue
  stopped (`ExitMeansStopped`). The count alone is not inductive: that the
  decrement meets the right thread needs `HolderPlaces`, and `StopIsQuiet` needs
  all of them. Lemmas on cardinalities say what taking and reporting a ticket do
  to the set of holders.
- `NoLostTaskWakeup`: a queued task has a worker that is awake. The one case
  that needs thought is a worker that takes one of several queued tasks: it is
  itself awake.
- `NoLostCompletion`: when no client removes tickets, a sleeping owner has
  work to wait for. The assumption `RemovingClient = {}` is needed: without it the
  run `TaskQueue_lost` is a counterexample.
- `TicketsAreConserved`: each call of `enqueue` is in exactly one place: queued,
  held by a thread, finished once, or removed. `EachTicketOnce` says that by counting;
  the invariant (`TicketsApart`) says that the four sets are pairwise disjoint, that no
  two threads hold one ticket, and that together they are the numbers up to `enqueued`.
- `ImplementsPool`: each step of the queue is a step of `TaskPool` or a stutter
  under the refinement mapping at the end of `TaskQueue`, with the invariant that
  issued tickets have the numbers up to `enqueued`, so that `Submit` gets a new one.

`HeapQueue_proofs`, for any capacity and priorities:

- `HeapTypes`: every index a sift or an erase computes is inside of the array
  (`SiftBounds` is the strengthening).
- `HeapBetweenCalls`: with functors that only read (`Functors \subseteq {"reads"}`, see
  `HeapQueue_reprioritize`), the array is a heap between
  calls. The invariant says what each loop keeps: during a rise the heap holds but
  for the pair at `node`, during a sink but for `node` and its children, while
  `make_heap` runs for the prefix that is done.
- `HighestFirst`: the front of a heap has the highest priority. It takes an
  induction over the slots, stated as the existence of a least counterexample
  (`LeastElement`).
- `RecordsAreKept`: the swaps of a sift leave the set of records as it is, and an erase
  takes exactly the record it was at, whatever the functors do.
- `ImplementsPriorityPool`: `pop_heap` takes a record of the highest priority, all
  else adds or removes what its caller asked for. It needs `HeapBetweenCalls` where a
  record is taken and `RecordsAreKept` everywhere, again with functors that only read.

`Runtime_proofs` is about three components, each by itself.

The queue without workers, with `Client = {}` (`InlineQueue_race` shows why) and any
tasks, priorities and bounds: `InlineTypes`, `InlineTicketsOnce`, `InlineImplementsPool`. The
accesses of `wait_for_all` are actions of their own, so the invariant says what is known
between them: the front is one of the highest records (`HeapOfTickets`), what was read
from it is still there when it is popped and runs afterwards (`LoopPlaces`), and
queued, running, finished and removed tickets are apart (`TicketsApart`).

The monitor, for any finite set of threads: `MonitorTypes`, `MonitorIsSafe`. The
invariant adds where a thread may own its lock and where it may owe a notification
(`Places`). That no waiter sleeps beside a token counts: tokens that nobody has claimed
are at most as many as the threads that are awake for them and the notifications that
are owed, and each wakeup, added and taken token moves both sides.

The first call and the thread objects, for any set of workers with `~Racing`: `StartupTypes`,
`StartupIsSafe`. Only the main thread is ever between two steps of `hxinit` or of a
guard, for it starts threads after both are over (`InitRunsAlone`, `GuardOfMain`);
with that the four steps act as one, and the storage of the stacks is
there once or not at all (`StorageOfMain`).

`RbTree_proofs`, for any nodes and keys, of a set and of a multiset: `TreeTypes` and
`TreesStayRedBlack`, which is all of `RedBlackTree`: balance between calls, parents and
children that refer to each other, iteration that visits each linked node once and as many
as `m_size_` says, and a sibling with the inner child that `erase` dereferences without a
test. None of it is inductive: it is silent in the middle of a call and speaks of recursive walks.

- The invariant is `TreeOK`. Its parts are about functions on the nodes: links down,
  links up and colors. `Shape`: the children of a node have it for their parent, and only the
  root has none. `Ranking`: each way down ends, because ranks fall along it. `Heights`:
  there is a black height for every node that all ways down agree on. `Reds`: no red node
  has a red child. While a call is under way two exceptions move up the tree: in the loop
  of `insert` one red node may have a red parent (`Reds` with that node for its exception);
  in the loop of `erase` all ways below one side of the parent lack a black node (`Heights`
  with that side). Each action moves its exception or ends it. The root may be red, as
  `RbTree_null` shows, and the invariant does not say that it is black.
- The code is written once for each side. The proofs are written once: `View` says what
  the nodes hold seen from one side, and each rotation and recoloring is a lemma about
  two functions `A` and `B`, which holds for left and right and for right and left. What a
  step of the code finds and leaves has a name (`EraseHyp`, `InsertHyp`, `LostBlack`).
- That the sibling exists is what a missing black node says (`SiblingsAreThere`): the other
  side has one black node more than this one, hence one at least.
- A successor that trades places with the node it replaces is `Relabeled`: the same tree with two
  names exchanged, from which the node is then unlinked like one with at most one child.
- `clear` rotates left children up and unlinks what has none, without the parent pointers
  and the colors; meanwhile the invariant says that what is left of the nodes hangs below
  `node_` by their links down (`Hangs`).
- Recursive functions on the nodes are unfolded by well-founded recursion on the ranks.
  `Walks` then says what the walk below a node is: the walk on one side, the node,
  the walk on the other; that it has each node once follows from the ranks (`InOrderIsWhole`).

`MemoryManager_proofs`, for stacks, sizes and alignments of any kind and any number of
threads, scopes and allocations: `MemoryTypes`, `AllocationsAreDisjoint`,
`CountersAreTrue`, `FreeFindsAllocator`, `NoAssertionFires`. They assume `Rules`: no
allocation is empty (`MemoryManager_zero_end` shows what happens otherwise) and at
most one thread uses the temporary stack, which is what the documentation asks
for. Disjointness alone is not inductive, because the end of a scope lowers `m_current`
to an offset that was recorded long before. So the invariant says of every open scope
that no allocation lies across its offset, and that those below it are no more than the
scope has counted (`SoundFor`); that inner scopes have offsets not below the
outer ones' (`Nested`); and that each scope restores the allocator of the one around it
(`Linked`). The bytes of the heap are counted as the size of a set of pairs.

`Containers_proofs` is about `ContainersSpec`, which `MCLibrary` runs with the other parts
at rest:

- `LinksAlwaysAgree` (any finite number of nodes, any lists): the links of each list are
  mutual on its sentinel and the nodes it owns, no node is in two lists, and `size()` is
  the number of nodes that an iterator visits in either direction. While a `clear` runs, its deleter pushes
  nodes onto other lists and overwrites their links; the invariant `ClearingGoesOn`
  says that the chain from the loop's position on is intact. The property speaks of walks;
  the invariant ranks the nodes of a list around its ring (`IsRing`), so that each link
  leads to the next rank and the last one to the sentinel, and says that the counter is
  the cardinality of the nodes so ranked (`ListCounted`).
- `TableAgreesAlways` (any finite number of nodes, any tables, keys, hashes and sizes):
  each node is in the bucket of its hash, once, and nowhere else; `size()` is exact;
  calling `find` with its last result meets every node with the key once, as many as
  `count` says; and an iterator comes to every node that stays, once, whatever is inserted
  and removed meanwhile. `EraseTakesEveryNode`: when `erase` returns, no node with the key
  is left. The properties speak of walks along the links; the invariant (`TableInv`) does
  not. It says of every bucket that the nodes which belong there can be ranked such that
  each one links to the next lower rank (`Chained`); a push, a pop and a cut in the middle
  keep that (`ChainPush`, `ChainPop`, `ChainCut`), and links outside of the chain do not
  matter (`ChainStays`), which is why nodes may keep the links of chains that they left.
  For a running `erase` it says that what is left of the chain begins at `*current_` and
  has all nodes with the key that remain (`ErasePlace`), for `clear` that the buckets up to the index are
  empty, but for the chain it holds (`ClearPlace`), and for the iterator that what is
  ahead of it are the rest of its chain and the later buckets (`IterAt`). That a walk is
  what the ranks say follows once, at the end (`WalkSteps`): there is one way to follow the
  links, as a least place where two differ shows. The same lemmas are used for `find`,
  whose results are ranked by how many matches are behind them (`MatchesAreRanked`).
  Assumed is what the constants mean (`HashTableAssumption`): hashes have the width that
  the code declares, so that their highest bits number the buckets.

`Storage_proofs` is about `ContainersSpec` as well:

- `RingsAgree` (any number of steps, any capacities that are powers of two): the live
  slots are those from the head on. Indices are masked, so that a live slot is one
  `Slot(h, c, k)`, the `k`th after the head; that these differ for different `k` below the
  capacity is the lemma everything else rests on.
- `RingIsBoundedDeque`: the elements in this order are the sequence of `BoundedDeque`; each
  push and pop changes that sequence at one end only, however the ring wraps.
- `ArrayElementsLiveOnce` (any arrays, elements and sizes): the slots before the end hold
  living objects, the others none, and there is none in which a call did what the life of
  an object forbids. The invariant (`ArrayInv`) says of each storage how long it is and how
  many of its first slots live (`Lived`); inside of a call the number of living slots
  moves, and while a hole rises or falls through a heap one of them may be raw or moved
  from. The loops of the calls are recursive functions on the numbers of
  their rounds: that there is such a function (`LoopExists`) and that what each round
  keeps holds after all of them (`LoopKeeps`) are lemmas, proved with a least round that
  fails. Assumed is `"any" \notin Predicates`: `erase_if_heap` removes the last elements
  only, for what it does otherwise is the disagreement at the end of section 5.
- `BitsAlwaysAgree` (any number of bits, words of any width): a bit has a position, and a
  place, the word and the bit in it. The lemmas `PlaceOfPosition` and `PositionOfPlace`
  say that each position has one place, and that the places which are no position are
  those in the last word behind its mask. The invariant (`BitsInv`) is that the last word
  is `Trimmed`, with which words can be compared for bits (`WordsAgree`). A shift is
  computed by words and bits, and two words meet in one (`WordUpBits`, `WordDownBits`); its
  loop overwrites the words that it reads, in an order in which each word is read
  before it is written (`WordUpReads`, `LeftLoop`, `RightLoop`).

`Library_proofs` is about `ServicesSpec` and `RuntimeSpec`, which
`MCLibrary` runs (each of its behaviors is one of these, with the other parts at rest):

- `StreamsStayOwned` (any objects and streams): the property counts owners; the invariant
  says object by object that it owns exactly what it has opened and that this is open
  (`OwnsWhatItOpened`), that no two have opened one stream (`NoneShared`), and that an
  open stream is not lost (`NoneLost`).
- `StartupStaysSafe`, `MonitorStaysSafe`, `InlineQueueStaysPool` lift
  the theorems above to the compositions: a part keeps its invariant, which no step of
  another part can disturb. The lemmas `Same...` say that the instances of a module in
  the composition and under its proofs mean the same.
- `ProfilerRecordsNest` (any threads, depths, sizes): the records of one thread are nested
  or apart, if no other thread has its id cut to 32 bits (`HasOwnId`; with a shared id there is no
  telling whose a record is). The invariant relates them to the scopes that are open: these begin in
  order, each record lies inside of one, before or after the next, and all samples are past.
- `ArgumentsStayExact` (any symbols, types, ranges, scripts and lines): each call gets the
  numbers of its line, in the range of its parameters; `ServicesStepSafely`: no line
  runs after a failed one, and the records of a stopped profiler stay. The invariant says
  what the value that was returned last tells of the line that has just ended, in
  whichever file (`ResultTells`).
- `VerdictsStayRight` (any tests, any limits, cases registered in any order): the counters
  count the verdicts, each selected test has run once and in order, and the result is
  zero only when there were tests and all passed. The invariant says how the state of the
  running test relates to its checks (`StateTells`) and that the cases before the
  position are those that have a verdict (`CaseIsNext`); what is
  left on the temporary stack was charged to a test that failed (`StackIsCharged`).

Only model-checked, and why:

- What holds under fairness: `OwnerReturnsFromCalls`, `TasksAreTaken`, `CallReturns`. Liveness is out
  of the prover's reach.
- What is stated of recursive functions over data, whose values for all inputs take
  an induction that the provers cannot instantiate: `RadixSorts`, and
  `ContainersAreSequences` for lists and arrays (`CallsKeepTheirWord`). (Where a loop has to keep an invariant only, as in `Storage_proofs`, a
  least round that fails takes the place of the induction.)
- `SortSeparates`, `OutputsAreExact`: their module reaches `Bitwise` through `Keys`, which
  the prover does not accept.
- That the tree is sorted: `MultisetSearchesAgree`, and `TreesAreOrdered`, the refinement of
  `OrderedNodes`. Both compare sequences before and after a rotation.
- `TypeOK` of `MCLibrary`, a conjunction of types over all parts.

## 5 Findings

1. *A cancelled task can leave `wait_for_all` asleep* (`TaskQueue_lost`,
   `include/hx/hxtask_queue.hpp:182`). `cancel`, `clear` and `erase_if` can
   make the completion predicate true and notify nobody.
2. *`erase_if` does not always reprioritize* (`HeapQueue_reprioritize`,
   `include/hx/hxtask_queue.hpp:214`): the heap is rebuilt only when a record was
   erased.
3. *Erase can leave a red root, and insert then reads a null pointer*
   (`RbTree_null`, `src/hxrbtree.cpp:191`): insert 1 and 2, erase 1, insert 3.
4. *An allocation of size 0 at the end of a full stack is freed as if it were the
   heap's* (`MemoryManager_zero_end`, `src/hxmemory_manager.cpp:243`).
5. *A profiled scope inside of another one breaks the times of the outer one*
   (`Profiler_nested`, `src/hxprofiler.cpp:100`): times are written relative to the
   begin of the record that ended first, as an unsigned difference.
6. *`exec` does not find a file when the line is in a file*
   (`Console_nested`, `include/hx/detail/hxconsole_detail.hpp:97`): the file name
   ends with the newline that `getline` keeps.
7. *Without a pool `wait_for_all` pops a record that it has not read*
   (`InlineQueue_race`, `src/hxtask_queue.cpp:107`): it takes no lock, `enqueue` by
   another thread does.

8. *`find` of a multiset does not return the first equal node* (`RbTree_find`,
   `include/hx/hxrbtree.hpp:563`): it returns whichever one the descent from the root
   meets, while lines 322-324 promise the first in ascending order, which
   `lower_bound` returns.

The following disagreements with the documentation have no run of their own.

Two threads that make the first call race (`Startup` with `Racing = TRUE`: two memory
managers, or the assertion of `src/hxmemory_manager.cpp:552`), while line 66 of that
file says "All pathways are thread-safe by default".

`generate_f01` returns 1 for the 128 results that a float rounds to 2^32
(`include/hx/hxrandom.hpp:116`), and `range` then its end, while lines 113 and 29-30 say
"between `[0..1)`" and "not `10.0f`". `hxlog2i` is one too large for numbers that
round up to the next power of two, from 2^25 - 1 on, while `include/hx/hxutility.h:240`
says "the power of 2 of the largest bit". `RangeStaysInside` and `Log2IsExact` speak
of the other numbers only.

`hxset_union` and its siblings keep keys that are duplicates within one range, and match
them one to one: the union of 1, 1 and 1 is 1, 1, their difference is 1, while
`include/hx/hxalgorithm.hpp:194` says "Duplicate keys appear once in the output" and
line 316 that the difference has "keys that appear in the first range but not the
second". `SetFunctionsAreExact` speaks of ranges without duplicates only.

A fatal check that fails after the messages are used up does not halt the
tests (`src/hxtest.cpp:97` returns first), while line 107 says "`ASSERT_*` macros halt the
test suite on failure" and `include/hx/hxtest.hpp:16` calls them fatal. `Check` follows the
code and no property speaks of it.

The heap's free asserts `hdr.size > 0u`
(`src/hxmemory_manager.cpp:199`), while lines 444-445 say that size 0 is expected to
work; the runs that free sizes of 0 from the heap therefore leave `AssertionsHold` out.

A write that succeeds clears the failure and not the end of file
(`src/hxfile.cpp:169`), so an `hxfile` can be at its end and good, while
`include/hx/hxfile.hpp:32-33` says that the failbit is always set with the eofbit.
`write_to_chrome_tracing_` prints the separator before it decides to skip a record
(`src/hxprofiler.cpp:88`), which leaves an array that is not JSON; the text of the
file is not modelled.

`erase_if_heap` destroys the elements it removes and then
move-assigns others onto them (`include/hx/hxarray.hpp:871-877`); `LifetimesHold`
of `Array` with `Predicates = {"any"}` shows it.

## 6 What is not covered

- Error codes of native calls, which end the program; `wait` without a predicate
  but as part of the one with it; weak memory models; the
  order in which global objects are constructed.
- The build of the memory manager on `aligned_alloc` and
  `HX_MEMORY_MANAGER_DISABLE`; 64 bit wrap-around of `aligned + size`;
  `hxstring_duplicate`. `get_current_allocation_count` and
  `get_current_bytes_allocated` read without the mutex.
- Deleters that change the container they are called from; nodes that are
  inserted while another container still links them; keys and arguments that are
  references into the container itself. The callers of the repository do none of
  these. By reading: `erase` of a hash table goes on comparing with its key after
  the deleter (`include/hx/hxhash_table.hpp:462`), `insert` of an array reads its
  argument after it has moved the elements, and `push_heap` moves from an
  argument that was not given up (`include/hx/hxarray.hpp:1100`).
- What a stream holds; `print` and `flush`, which change no field; the text of the
  log, of the help and of the trace; `peek`, `poke` and `dump`; floating point
  arguments; lines longer than `HX_MAX_LINE`; a script that executes itself.
- Capacities of a deque that are not powers of two; arrays with static storage.
- Numbers of 64 bits and doubles of the random generator, and its `read`; the
  hash of a negative floating point number, whose conversion is undefined.
- Hex dumps, formatting and compile time switches are not planned.

## 7 Plan

All components are modelled, in the parts that section 6 leaves. Proved are the
safety properties of the task queue in both of its modes, its heap, the memory manager,
initialization, locks, files, the profiler, the console, the test runner, hash tables,
deques, the links of lists, the lifetimes in arrays, bitsets and the red-black tree but
for its order. What could come next:

1. That the tree is sorted (`TreesAreOrdered`): a rotation leaves the walk as it is, which
   the lemmas on `Walks` are a beginning of.
2. `IntroSort`: that the parts are separate and every index is in its range, once its module
   does without `Bitwise`.
3. `erase_if_heap` with functors that select any element, stated as what the code
   leaves behind rather than left out of the instance.
