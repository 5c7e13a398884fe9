--------------------------- MODULE MemoryManager ---------------------------
(***************************************************************************)
(* hxmemory_manager: the heap, the permanent stack and the temporary stack *)
(* behind hxmalloc, hxmalloc_ext and hxfree, and the allocator scopes that *)
(* select one of them for a thread.                                        *)
(*                                                                         *)
(* An address of a stack allocator is an offset from its m_begin_, an      *)
(* address of the heap is the name of the cell that malloc returned.  The  *)
(* state is only written with the mutex of the manager held, except for    *)
(* the allocator of the current thread: one action is one call.  The heap  *)
(* is the one with allocation headers (!HX_USE_STD_ALIGNED_ALLOC).         *)
(***************************************************************************)
EXTENDS Naturals, FiniteSets, Sequences

CONSTANTS Thread,
          TempThread,    (* the threads that use the temporary stack *)
          Budget,        (* HX_MEMORY_BUDGET_*, the sizes of the stacks *)
          Size,          (* the sizes that are asked for *)
          Alignment,     (* the alignments that are asked for *)
          MaxLive,       (* bound: allocations at a time *)
          MaxScopes      (* bound: scopes of each thread at a time *)

Stack == {"perm", "temp"}
Allocator == Stack \union {"heap"}

ASSUME UserAssumption ==
  /\ TempThread \subseteq Thread
  /\ Size \subseteq Nat
  /\ Alignment \subseteq Nat \ {0}
  /\ MaxLive \in Nat
  /\ MaxScopes \in [Thread -> Nat]
ASSUME BudgetAssumption == Budget \in [Stack -> Nat]

Block == [base : Allocator, at : Nat, size : Size]
Scope == [id : Allocator, initial : Allocator, count : Nat, bytes : Nat]

VARIABLES
  m_current,            (* the first free offset of each stack *)
  m_allocation_count,   (* of each allocator *)
  m_bytes_allocated,    (* of the heap *)
  m_high_water,         (* of the temporary stack *)
  current,              (* s_hxcurrent_memory_allocator of each thread *)
  scopes,               (* the open hxsystem_allocator_scope's of each *)
  live,                 (* what was allocated and not yet freed *)
  peak                  (* the highest m_current of the temporary stack *)

memoryVars == <<m_current, m_allocation_count, m_bytes_allocated, m_high_water,
                current, scopes, live, peak>>

Larger(a, b) == IF a > b THEN a ELSE b

RoundUp(n, alignment) == ((n + alignment - 1) \div alignment) * alignment

MemoryInit ==
  /\ m_current = [a \in Stack |-> 0]
  /\ m_allocation_count = [a \in Allocator |-> 0]
  /\ m_bytes_allocated = 0
  /\ m_high_water = 0
  /\ current = [t \in Thread |-> "heap"]
  /\ scopes = [t \in Thread |-> <<>>]
  /\ live = {}
  /\ peak = 0

(***************************************************************************)
(* Allocation.                                                             *)
(***************************************************************************)
(* Mutant of Fits: the padding is not taken into account. *)
FitsUnaligned(a, size, alignment) == m_current[a] + size <= Budget[a]

Fits(a, size, alignment) ==
  RoundUp(m_current[a], alignment) + size <= Budget[a]

(* Mutant of FromStack: the allocation is not counted. *)
FromStackUncounted(a, size, alignment) ==
  LET at == RoundUp(m_current[a], alignment)
  IN /\ live' = live \union {[base |-> a, at |-> at, size |-> size]}
     /\ m_current' = [m_current EXCEPT ![a] = at + size]
     /\ peak' = Larger(peak, m_current'["temp"])
     /\ UNCHANGED <<m_allocation_count, m_bytes_allocated>>

FromStack(a, size, alignment) ==
  LET at == RoundUp(m_current[a], alignment)
      block == [base |-> a, at |-> at, size |-> size]
  IN /\ live' = live \union {block}
     /\ m_current' = [m_current EXCEPT ![a] = at + size]
     /\ m_allocation_count' = [m_allocation_count EXCEPT ![a] = @ + 1]
     /\ peak' = Larger(peak, m_current'["temp"])
     /\ UNCHANGED m_bytes_allocated

HeapBlock(size) ==
  LET cells == {b.at : b \in {c \in live : c.base = "heap"}}
  IN [base |-> "heap", size |-> size,
      at |-> CHOOSE c \in 1..MaxLive : c \notin cells]

(* Mutant of FromHeap: = in place of +=. *)
FromHeapAssigning(size) ==
  /\ live' = live \union {HeapBlock(size)}
  /\ m_allocation_count' = [m_allocation_count EXCEPT !["heap"] = @ + 1]
  /\ m_bytes_allocated' = size
  /\ UNCHANGED <<m_current, peak>>

(* malloc returns a cell that is not in use, no matter which. *)
FromHeap(size) ==
  /\ live' = live \union {HeapBlock(size)}
  /\ m_allocation_count' = [m_allocation_count EXCEPT !["heap"] = @ + 1]
  /\ m_bytes_allocated' = m_bytes_allocated + size
  /\ UNCHANGED <<m_current, peak>>

MayUse(t, a) == a = "temp" => t \in TempThread

(* hxmalloc has the id "current", hxmalloc_ext may name an allocator.  A   *)
(* stack that is full is replaced by the heap.                             *)
Allocate(t, id, size, alignment) ==
  LET a == IF id = "current" THEN current[t] ELSE id
  IN /\ Cardinality(live) < MaxLive
     /\ MayUse(t, a)
     /\ IF a # "heap" /\ Fits(a, size, alignment)
          THEN FromStack(a, size, alignment)
          ELSE FromHeap(size)
     /\ UNCHANGED <<m_high_water, current, scopes>>

(***************************************************************************)
(* hxfree.                                                                 *)
(***************************************************************************)
(* Mutant of Contains: one byte short. *)
ContainsLess(a, block) ==
  block.base = a /\ block.at + 1 < Budget[a]

(* An offset of m_end_ is not contained. *)
Contains(a, block) == block.base = a /\ block.at < Budget[a]

(* The allocator that hxfree takes a pointer to belong to. *)
Route(block) ==
  IF Contains("temp", block) THEN "temp"
  ELSE IF Contains("perm", block) THEN "perm"
  ELSE "heap"

(* The assertions of on_free_non_virtual. *)
FreeIsGood(block) ==
  LET a == Route(block)
  IN /\ m_allocation_count[a] > 0
     /\ IF a = "heap" THEN /\ block.base = "heap"
                           /\ block.size > 0
                           /\ m_bytes_allocated > 0
                      ELSE block.at <= m_current[a]

Free(block) ==
  LET a == Route(block)
  IN /\ FreeIsGood(block)
     /\ live' = live \ {block}
     /\ m_allocation_count' = [m_allocation_count EXCEPT ![a] = @ - 1]
     /\ m_bytes_allocated' =
          IF a = "heap" THEN m_bytes_allocated - block.size
                        ELSE m_bytes_allocated
     /\ UNCHANGED <<m_current, m_high_water, current, scopes, peak>>

(***************************************************************************)
(* Scopes.                                                                 *)
(***************************************************************************)
(* m_initial_allocation_count_ and m_initial_bytes_allocated_ are kept for *)
(* the temporary stack only: of the others they are just reported.         *)
BeginScope(t, id) ==
  LET temp == id = "temp"
      scope == [id |-> id, initial |-> current[t],
                count |-> IF temp THEN m_allocation_count["temp"] ELSE 0,
                bytes |-> IF temp THEN m_current["temp"] ELSE 0]
  IN /\ Len(scopes[t]) < MaxScopes[t]
     /\ MayUse(t, id)
     /\ scopes' = [scopes EXCEPT ![t] = Append(@, scope)]
     /\ current' = [current EXCEPT ![t] = id]
     /\ UNCHANGED <<m_current, m_allocation_count, m_bytes_allocated,
                    m_high_water, live, peak>>

Innermost(t) == scopes[t][Len(scopes[t])]

(* What the documentation asks of the caller: the temporary allocations    *)
(* made in a scope are freed when it ends.                                 *)
ScopeIsClear(scope) ==
  scope.id = "temp" =>
    ~\E b \in live : b.base = "temp" /\ b.at >= scope.bytes

(* Mutant of ResetTemp: back to the bottom of the stack. *)
ResetTempToBegin(scope) ==
  /\ m_high_water' = Larger(m_high_water, m_current["temp"])
  /\ m_current' = [m_current EXCEPT !["temp"] = 0]

ResetTemp(scope) ==
  /\ m_high_water' = Larger(m_high_water, m_current["temp"])
  /\ m_current' = [m_current EXCEPT !["temp"] = scope.bytes]

(* The allocator of the thread is asked to end the scope, not the one that *)
(* began it.                                                               *)
EndScope(t) ==
  /\ scopes[t] # <<>>
  /\ ScopeIsClear(Innermost(t))
  /\ scopes' = [scopes EXCEPT ![t] = SubSeq(@, 1, Len(@) - 1)]
  /\ IF current[t] = "temp" THEN ResetTemp(Innermost(t))
                            ELSE UNCHANGED <<m_current, m_high_water>>
  /\ current' = [current EXCEPT ![t] = Innermost(t).initial]
  /\ UNCHANGED <<m_allocation_count, m_bytes_allocated, live, peak>>

(* get_high_water of the temporary stack writes the mark. *)
GetHighWater ==
  /\ m_high_water' = Larger(m_high_water, m_current["temp"])
  /\ UNCHANGED <<m_current, m_allocation_count, m_bytes_allocated,
                 current, scopes, live, peak>>

LeakCount == m_allocation_count["heap"] + m_allocation_count["perm"]
             + m_allocation_count["temp"]

(* hxmemory_manager_shut_down asserts that nothing leaks.  The next call   *)
(* of any function constructs the manager again.  No scope is open.        *)
ShutDown ==
  /\ LeakCount = 0
  /\ \A t \in Thread : scopes[t] = <<>>
  /\ m_current' = [a \in Stack |-> 0]
  /\ m_allocation_count' = [a \in Allocator |-> 0]
  /\ m_bytes_allocated' = 0
  /\ m_high_water' = 0
  /\ peak' = 0
  /\ UNCHANGED <<current, scopes, live>>

-----------------------------------------------------------------------------
MemoryNext ==
  \/ \E t \in Thread, id \in Allocator \union {"current"},
        size \in Size, alignment \in Alignment :
       Allocate(t, id, size, alignment)
  \/ \E block \in live : Free(block)
  \/ \E t \in Thread, id \in Allocator : BeginScope(t, id)
  \/ \E t \in Thread : EndScope(t)
  \/ GetHighWater
  \/ ShutDown

MemorySpec == MemoryInit /\ [][MemoryNext]_memoryVars

-----------------------------------------------------------------------------
(* The values every variable may take. *)
MemoryTypeOK ==
  /\ m_current \in [Stack -> Nat]
  /\ m_allocation_count \in [Allocator -> Nat]
  /\ m_bytes_allocated \in Nat
  /\ m_high_water \in Nat
  /\ current \in [Thread -> Allocator]
  /\ scopes \in [Thread -> Seq(Scope)]
  /\ live \subseteq Block
  /\ peak \in Nat

(* Memory that hxmalloc returned stays the caller's: allocations lie in    *)
(* the used part of their stack and no two of them overlap.               *)
LiveDisjoint ==
  \A b \in live :
    /\ b.base \in Stack => /\ b.at + b.size <= m_current[b.base]
                           /\ m_current[b.base] <= Budget[b.base]
    /\ \A c \in live \ {b} :
         b.base = c.base =>
           IF b.base = "heap" THEN b.at # c.at
           ELSE b.at + b.size <= c.at \/ c.at + c.size <= b.at

(* The counters the leak checks use agree with what is allocated, wherever *)
(* an overflow or hxfree sent it.                                          *)
CountsMatch ==
  \A a \in Allocator :
    m_allocation_count[a] = Cardinality({b \in live : b.base = a})

(* hxfree finds the allocator that an allocation was made from.            *)
RoutesBack == \A b \in live : Route(b) = b.base

(* An allocation can be freed whenever its owner wants to: none of the     *)
(* bad_free assertions fires.                                              *)
FreeAccepted == \A b \in live : FreeIsGood(b)

(* A scope that ends never moves m_current up, and its assertion that no   *)
(* temporary allocation was leaked holds whenever the caller kept the rule.*)
ScopesEndClean ==
  \A t \in Thread :
    scopes[t] # <<>> =>
      LET scope == Innermost(t)
      IN /\ current[t] = scope.id
         /\ scope.id = "temp" =>
              /\ scope.bytes <= m_current["temp"]
              /\ ScopeIsClear(scope) =>
                   m_allocation_count["temp"] <= scope.count

(* No assertion of free and of the end of a scope fires.                   *)
AssertionsHold == FreeAccepted /\ ScopesEndClean

(* The high water mark is the highest use of the temporary stack since the *)
(* manager was constructed.                                                *)
HighWaterIsPeak == Larger(m_high_water, m_current["temp"]) = peak

(* The counters agree with the history of allocations: what is outstanding *)
(* now, and the most that was on the temporary stack.                      *)
CountersAgree == CountsMatch /\ HighWaterIsPeak

=============================================================================
