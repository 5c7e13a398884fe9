------------------------ MODULE MemoryManager_proofs ------------------------
(***************************************************************************)
(* Proofs about MemoryManager, for stacks of any size, any sizes and       *)
(* alignments, any number of threads, scopes and allocations, under the    *)
(* two rules its users keep: no allocation of no bytes (see the run        *)
(* MemoryManager_zero_end), and temporary scopes in one thread only.       *)
(*                                                                         *)
(* LiveDisjoint alone is not inductive: the end of a scope lowers          *)
(* m_current to an offset that was recorded long before.  The invariant    *)
(* says of each open scope that no allocation lies across its offset, that *)
(* an inner scope's offset is not below the one of an outer scope, and     *)
(* that those below the offset are still no more than it counted.          *)
(***************************************************************************)
EXTENDS MemoryManager, TLAPS, FiniteSetTheorems, SequenceTheorems

NoEmptySize == 0 \notin Size
OneTempThread == \A t, u \in TempThread : t = u

Rules == NoEmptySize /\ OneTempThread

-----------------------------------------------------------------------------
LiveIn(a) == {b \in live : b.base = a}

(* The bytes of the heap, each of them apart: their number is the sum of   *)
(* the sizes.                                                              *)
Bytes(b) == {b} \X (1..b.size)
HeapBytes == UNION {Bytes(b) : b \in LiveIn("heap")}

Below(offset) == {b \in LiveIn("temp") : b.at < offset}

Types == MemoryTypeOK /\ IsFiniteSet(live)

InBounds ==
  /\ \A a \in Stack : m_current[a] <= Budget[a]
  /\ \A b \in live : b.base \in Stack => b.at + b.size <= m_current[b.base]

Apart ==
  \A b, c \in live :
    b # c /\ b.base = c.base =>
      IF b.base = "heap" THEN b.at # c.at
      ELSE b.at + b.size <= c.at \/ c.at + c.size <= b.at

BytesMatch == IsFiniteSet(HeapBytes) /\ m_bytes_allocated = Cardinality(HeapBytes)

Counters == CountsMatch /\ BytesMatch /\ HighWaterIsPeak

(* What an open scope knows of the temporary stack, of which end is the    *)
(* first free offset.                                                      *)
SoundFor(scope, end, blocks) ==
  scope.id = "temp" =>
    /\ scope.bytes <= end
    /\ \A b \in blocks : b.at >= scope.bytes \/ b.at + b.size <= scope.bytes
    /\ Cardinality({b \in blocks : b.at < scope.bytes}) <= scope.count

Sound(scope) == SoundFor(scope, m_current["temp"], LiveIn("temp"))

(* The scopes of a thread lead back from one allocator to the next.        *)
Linked(t) ==
  LET s == scopes[t]
  IN /\ s # <<>> => current[t] = s[Len(s)].id
     /\ \A i \in 2..Len(s) : s[i].initial = s[i - 1].id

Nested(t) ==
  LET s == scopes[t]
  IN \A i, j \in 1..Len(s) :
       i <= j /\ s[i].id = "temp" /\ s[j].id = "temp" => s[i].bytes <= s[j].bytes

EachSound(t) ==
  \A i \in 1..Len(scopes[t]) :
    Sound(scopes[t][i]) /\ (scopes[t][i].id = "temp" => t \in TempThread)

ScopesSound == \A t \in Thread : Linked(t) /\ Nested(t) /\ EachSound(t)

IInv == Types /\ InBounds /\ Apart /\ Counters /\ ScopesSound

-----------------------------------------------------------------------------
(* Alignment moves an offset up, never down. *)
LEMMA RoundUpFacts ==
  ASSUME NEW n \in Nat, NEW alignment \in Nat \ {0}
  PROVE  RoundUp(n, alignment) \in Nat /\ n <= RoundUp(n, alignment)
<1> DEFINE m == n + alignment - 1
           q == m \div alignment
<1>1. m \in Nat
  OBVIOUS
<1>2. q \in Int /\ m = alignment * q + (m % alignment) /\ m % alignment \in 0..(alignment - 1)
  BY <1>1
<1>3. q \in Nat
  BY <1>1
<1>4. q * alignment \in Nat /\ q * alignment = alignment * q
  BY <1>3
<1> HIDE DEF q
<1>5. n <= q * alignment
  BY <1>2, <1>3, <1>4
<1> QED BY <1>4, <1>5 DEF RoundUp, q

(* A block that is larger than nothing. *)
LEMMA BlockFacts ==
  ASSUME NoEmptySize, Types, NEW b \in live
  PROVE  /\ b.base \in Allocator /\ b.at \in Nat /\ b.size \in Nat /\ b.size > 0
<1>1. b \in Block
  BY DEF Types, MemoryTypeOK
<1>2. b.base \in Allocator /\ b.at \in Nat /\ b.size \in Size
  BY <1>1 DEF Block
<1>3. b.size \in Nat /\ b.size # 0
  BY <1>2, UserAssumption DEF NoEmptySize
<1> QED BY <1>2, <1>3

(* Sets of blocks are finite, and what remains of one is no larger. *)
LEMMA BlockSets ==
  ASSUME IsFiniteSet(live)
  PROVE  \A S, T \in SUBSET live :
           /\ IsFiniteSet(S) /\ Cardinality(S) \in Nat
           /\ S \subseteq T => Cardinality(S) <= Cardinality(T)
<1> SUFFICES ASSUME NEW S \in SUBSET live, NEW T \in SUBSET live
             PROVE  /\ IsFiniteSet(S) /\ Cardinality(S) \in Nat
                    /\ S \subseteq T => Cardinality(S) <= Cardinality(T)
  OBVIOUS
<1>1. IsFiniteSet(S) /\ IsFiniteSet(T)
  BY FS_Subset
<1> QED BY <1>1, FS_Subset, FS_CardinalityType

LEMMA LiveInSubset ==
  \A a : LiveIn(a) \subseteq live /\ \A n : Below(n) \subseteq live
BY DEF LiveIn, Below

(* The bytes of one block of the heap. *)
LEMMA BytesOfBlock ==
  ASSUME NEW b, b.size \in Nat
  PROVE  IsFiniteSet(Bytes(b)) /\ Cardinality(Bytes(b)) = b.size
<1>1. IsFiniteSet({b}) /\ Cardinality({b}) = 1
  BY FS_Singleton
<1>2. IsFiniteSet(1..b.size) /\ Cardinality(1..b.size) = b.size
  BY FS_Interval
<1>3. /\ IsFiniteSet({b} \X (1..b.size))
      /\ Cardinality({b} \X (1..b.size)) = Cardinality({b}) * Cardinality(1..b.size)
  BY <1>1, <1>2, FS_Product, Zenon
<1>4. Cardinality({b}) * Cardinality(1..b.size) = b.size
  BY <1>1, <1>2
<1> QED BY <1>3, <1>4 DEF Bytes

(* The blocks of the heap are counted in m_bytes_allocated. *)
LEMMA BytesCounted ==
  ASSUME NoEmptySize, Types, BytesMatch, NEW b \in LiveIn("heap")
  PROVE  b.size <= m_bytes_allocated /\ m_bytes_allocated > 0
<1>1. b.size \in Nat /\ b.size > 0
  BY BlockFacts DEF LiveIn
<1>2. Bytes(b) \subseteq HeapBytes
  BY DEF HeapBytes
<1>3. Cardinality(Bytes(b)) = b.size /\ Cardinality(Bytes(b)) <= m_bytes_allocated
  BY <1>1, <1>2, BytesOfBlock, FS_Subset DEF BytesMatch
<1>4. m_bytes_allocated \in Nat
  BY DEF Types, MemoryTypeOK
<1> QED BY <1>1, <1>3, <1>4

-----------------------------------------------------------------------------
(* The invariant implies what the runs check.                              *)

LEMMA DisjointFromIInv ==
  ASSUME IInv
  PROVE  LiveDisjoint
<1>1. ASSUME NEW b \in live, b.base \in Stack
      PROVE  b.at + b.size <= m_current[b.base] /\ m_current[b.base] <= Budget[b.base]
  BY <1>1 DEF IInv, InBounds
<1>2. ASSUME NEW b \in live, NEW c \in live \ {b}, b.base = c.base
      PROVE  IF b.base = "heap" THEN b.at # c.at
             ELSE b.at + b.size <= c.at \/ c.at + c.size <= b.at
  BY <1>2 DEF IInv, Apart
<1> QED BY <1>1, <1>2 DEF LiveDisjoint

(* A block ends before the end of its stack, so hxfree finds it there. *)
LEMMA RoutesFromIInv ==
  ASSUME NoEmptySize, IInv
  PROVE  RoutesBack
<1> SUFFICES ASSUME NEW b \in live
             PROVE  Route(b) = b.base
  BY DEF RoutesBack
<1>1. b.base \in Allocator /\ b.at \in Nat /\ b.size \in Nat /\ b.size > 0
  BY BlockFacts DEF IInv
<1>2. b.base \in Stack => b.at < Budget[b.base]
  <2>1. ASSUME b.base \in Stack
        PROVE  b.at + b.size <= m_current[b.base] /\ m_current[b.base] <= Budget[b.base]
    BY <2>1 DEF IInv, InBounds
  <2>2. ASSUME b.base \in Stack
        PROVE  m_current[b.base] \in Nat /\ Budget[b.base] \in Nat
    BY <2>2, BudgetAssumption DEF IInv, Types, MemoryTypeOK
  <2> QED BY <1>1, <2>1, <2>2
<1> QED BY <1>1, <1>2 DEF Route, Contains, Allocator, Stack

LEMMA FreeFromIInv ==
  ASSUME NoEmptySize, IInv, NEW b \in live
  PROVE  FreeIsGood(b) /\ Route(b) = b.base
<1>1. b.base \in Allocator /\ b.at \in Nat /\ b.size \in Nat /\ b.size > 0
  BY BlockFacts DEF IInv
<1>2. Route(b) = b.base
  BY RoutesFromIInv DEF RoutesBack
<1>3. m_allocation_count[b.base] > 0
  <2>1. b \in LiveIn(b.base) /\ IsFiniteSet(LiveIn(b.base))
    BY BlockSets, LiveInSubset DEF LiveIn, IInv, Types
  <2>2. m_allocation_count[b.base] = Cardinality(LiveIn(b.base))
    BY <1>1 DEF IInv, Counters, CountsMatch, LiveIn
  <2>3. Cardinality(LiveIn(b.base)) # 0 /\ Cardinality(LiveIn(b.base)) \in Nat
    BY <2>1, FS_EmptySet, FS_CardinalityType
  <2> QED BY <2>2, <2>3
<1>4. b.base = "heap" => m_bytes_allocated > 0
  BY BytesCounted DEF IInv, Counters, LiveIn
<1>5. b.base # "heap" => b.at <= m_current[b.base]
  <2>1. ASSUME b.base # "heap"
        PROVE  b.at + b.size <= m_current[b.base] /\ m_current[b.base] \in Nat
    BY <1>1, <2>1 DEF IInv, InBounds, Types, MemoryTypeOK, Allocator
  <2> QED BY <1>1, <2>1
<1> QED BY <1>1, <1>2, <1>3, <1>4, <1>5 DEF FreeIsGood

(* The scope that ends next is a sound one. *)
LEMMA InnermostFacts ==
  ASSUME IInv, NEW t \in Thread, scopes[t] # <<>>
  PROVE  /\ Innermost(t) \in Scope /\ Sound(Innermost(t)) /\ current[t] = Innermost(t).id
         /\ Len(scopes[t]) \in 1..Len(scopes[t])
         /\ Innermost(t).id = "temp" => t \in TempThread
<1>1. scopes[t] \in Seq(Scope)
  BY DEF IInv, Types, MemoryTypeOK
<1>2. Len(scopes[t]) \in 1..Len(scopes[t])
  BY <1>1
<1> QED BY <1>1, <1>2 DEF IInv, ScopesSound, Linked, EachSound, Innermost

LEMMA ScopesFromIInv ==
  ASSUME IInv
  PROVE  ScopesEndClean
<1> SUFFICES ASSUME NEW t \in Thread, scopes[t] # <<>>
             PROVE  /\ current[t] = Innermost(t).id
                    /\ Innermost(t).id = "temp" =>
                         /\ Innermost(t).bytes <= m_current["temp"]
                         /\ ScopeIsClear(Innermost(t)) =>
                              m_allocation_count["temp"] <= Innermost(t).count
  BY DEF ScopesEndClean
<1>1. /\ Innermost(t) \in Scope /\ Sound(Innermost(t)) /\ current[t] = Innermost(t).id
  BY InnermostFacts
<1>2. ASSUME Innermost(t).id = "temp", ScopeIsClear(Innermost(t))
      PROVE  m_allocation_count["temp"] <= Innermost(t).count
  <2>1. LiveIn("temp") = Below(Innermost(t).bytes)
    <3>1. \A b \in live : b.at \in Nat /\ Innermost(t).bytes \in Nat
      BY <1>1 DEF IInv, Types, MemoryTypeOK, Block, Scope
    <3> QED BY <1>2, <3>1 DEF ScopeIsClear, LiveIn, Below
  <2>2. m_allocation_count["temp"] = Cardinality(LiveIn("temp"))
    BY DEF IInv, Counters, CountsMatch, LiveIn, Allocator, Stack
  <2> QED BY <1>1, <1>2, <2>1, <2>2 DEF Sound, SoundFor, Below
<1> QED BY <1>1, <1>2 DEF Sound, SoundFor

-----------------------------------------------------------------------------
(* What the steps have in common.                                          *)

(* A step that opens and closes no scope, and adds to the temporary stack  *)
(* only at its end, leaves the open scopes sound.                          *)
LEMMA SameScopes ==
  ASSUME IInv, UNCHANGED <<current, scopes>>, IsFiniteSet(live'),
         m_current'["temp"] \in Nat, m_current["temp"] <= m_current'["temp"],
         \A b \in LiveIn("temp")' :
           b \in LiveIn("temp") \/ (b.at \in Nat /\ m_current["temp"] <= b.at)
  PROVE  ScopesSound'
<1>1. \A t \in Thread : Linked(t)' /\ Nested(t)'
  BY DEF IInv, ScopesSound, Linked, Nested
<1>2. ASSUME NEW scope \in Scope, Sound(scope)
      PROVE  Sound(scope)'
  <2> SUFFICES ASSUME scope.id = "temp"
               PROVE  /\ scope.bytes <= m_current'["temp"]
                      /\ \A b \in LiveIn("temp")' :
                           b.at >= scope.bytes \/ b.at + b.size <= scope.bytes
                      /\ Cardinality(Below(scope.bytes)') <= scope.count
    BY DEF Sound, SoundFor, Below
  <2>1. /\ scope.bytes \in Nat /\ scope.count \in Nat
        /\ m_current["temp"] \in Nat /\ scope.bytes <= m_current["temp"]
    BY <1>2 DEF Sound, SoundFor, Scope, IInv, Types, MemoryTypeOK, Stack
  <2>2. \A b \in LiveIn("temp")' : b.at >= scope.bytes \/ b.at + b.size <= scope.bytes
    BY <1>2, <2>1 DEF Sound, SoundFor
  <2>3. Below(scope.bytes)' \subseteq Below(scope.bytes)
    BY <2>1 DEF Below
  <2>4. Cardinality(Below(scope.bytes)') <= Cardinality(Below(scope.bytes))
    <3>1. IsFiniteSet(Below(scope.bytes))
      BY FS_Subset, LiveInSubset DEF IInv, Types
    <3> QED BY <2>3, <3>1, FS_Subset
  <2>5. /\ Cardinality(Below(scope.bytes)) <= scope.count
        /\ Cardinality(Below(scope.bytes)) \in Nat
        /\ Cardinality(Below(scope.bytes)') \in Nat
    <3>1. IsFiniteSet(Below(scope.bytes)) /\ IsFiniteSet(Below(scope.bytes)')
      BY <2>3, FS_Subset, LiveInSubset DEF IInv, Types
    <3> QED BY <1>2, <3>1, FS_CardinalityType DEF Sound, SoundFor, Below
  <2> QED BY <2>1, <2>2, <2>4, <2>5
<1>3. \A t \in Thread : \A i \in 1..Len(scopes[t]) : scopes[t][i] \in Scope
  BY DEF IInv, Types, MemoryTypeOK
<1>4. ASSUME NEW t \in Thread
      PROVE  EachSound(t)'
  <2>1. EachSound(t) /\ scopes' = scopes
    BY DEF IInv, ScopesSound
  <2> QED BY <1>2, <1>3, <2>1 DEF EachSound, Sound
<1> QED BY <1>1, <1>4 DEF ScopesSound

(* The same blocks are live: the counters still agree if they do not move. *)
LEMMA SameBlocks ==
  ASSUME CountsMatch, BytesMatch,
         UNCHANGED <<live, m_allocation_count, m_bytes_allocated>>
  PROVE  CountsMatch' /\ BytesMatch'
BY DEF CountsMatch, BytesMatch, HeapBytes, LiveIn

(* A block more, counted where it is. *)
LEMMA OneMore ==
  ASSUME Types, CountsMatch, BytesMatch, NEW b, b \notin live,
         b.base \in Allocator, b.size \in Nat,
         live' = live \union {b},
         m_allocation_count' = [m_allocation_count EXCEPT ![b.base] = @ + 1],
         m_bytes_allocated' = IF b.base = "heap" THEN m_bytes_allocated + b.size
                              ELSE m_bytes_allocated
  PROVE  CountsMatch' /\ BytesMatch' /\ IsFiniteSet(live')
<1>1. IsFiniteSet(live')
  BY FS_AddElement DEF Types
<1>2. /\ LiveIn(b.base)' = LiveIn(b.base) \union {b} /\ b \notin LiveIn(b.base)
      /\ \A a \in Allocator \ {b.base} : LiveIn(a)' = LiveIn(a)
  BY DEF LiveIn
<1>3. CountsMatch'
  <2> SUFFICES ASSUME NEW a \in Allocator
               PROVE  m_allocation_count'[a] = Cardinality(LiveIn(a)')
    BY DEF CountsMatch, LiveIn
  <2>1. m_allocation_count[a] = Cardinality(LiveIn(a))
    BY DEF CountsMatch, LiveIn
  <2>2. IsFiniteSet(LiveIn(a))
    BY FS_Subset, LiveInSubset DEF Types
  <2>3. CASE a = b.base
    <3>1. Cardinality(LiveIn(a)') = Cardinality(LiveIn(a)) + 1
      BY <1>2, <2>2, <2>3, FS_AddElement
    <3> QED BY <2>1, <2>3, <3>1 DEF Types, MemoryTypeOK
  <2>4. CASE a # b.base
    BY <1>2, <2>1, <2>4 DEF Types, MemoryTypeOK
  <2> QED BY <2>3, <2>4
<1>4. BytesMatch'
  <2>1. CASE b.base # "heap"
    <3>1. LiveIn("heap")' = LiveIn("heap")
      BY <1>2, <2>1 DEF Allocator
    <3> QED BY <2>1, <3>1 DEF BytesMatch, HeapBytes
  <2>2. CASE b.base = "heap"
    <3>1. HeapBytes' = HeapBytes \union Bytes(b)
      BY <1>2, <2>2 DEF HeapBytes
    <3>2. HeapBytes \intersect Bytes(b) = {}
      BY <1>2, <2>2 DEF HeapBytes, Bytes
    <3>3. IsFiniteSet(Bytes(b)) /\ Cardinality(Bytes(b)) = b.size
      BY BytesOfBlock
    <3>4. /\ IsFiniteSet(HeapBytes')
          /\ Cardinality(HeapBytes') = Cardinality(HeapBytes) + Cardinality(Bytes(b)) - 0
      BY <3>1, <3>2, <3>3, FS_Union, FS_EmptySet DEF BytesMatch
    <3> QED BY <2>2, <3>3, <3>4 DEF BytesMatch, Types, MemoryTypeOK
  <2> QED BY <2>1, <2>2
<1> QED BY <1>1, <1>3, <1>4

(* A block less. *)
LEMMA OneLess ==
  ASSUME NoEmptySize, Types, CountsMatch, BytesMatch, NEW b \in live,
         live' = live \ {b},
         m_allocation_count' = [m_allocation_count EXCEPT ![b.base] = @ - 1],
         m_bytes_allocated' = IF b.base = "heap" THEN m_bytes_allocated - b.size
                              ELSE m_bytes_allocated
  PROVE  CountsMatch' /\ BytesMatch' /\ IsFiniteSet(live')
<1>0. b.base \in Allocator /\ b.size \in Nat
  BY BlockFacts
<1>1. IsFiniteSet(live')
  BY FS_RemoveElement DEF Types
<1>2. /\ LiveIn(b.base)' = LiveIn(b.base) \ {b} /\ b \in LiveIn(b.base)
      /\ \A a \in Allocator \ {b.base} : LiveIn(a)' = LiveIn(a)
  BY DEF LiveIn
<1>3. CountsMatch'
  <2> SUFFICES ASSUME NEW a \in Allocator
               PROVE  m_allocation_count'[a] = Cardinality(LiveIn(a)')
    BY DEF CountsMatch, LiveIn
  <2>1. m_allocation_count[a] = Cardinality(LiveIn(a))
    BY DEF CountsMatch, LiveIn
  <2>2. IsFiniteSet(LiveIn(a))
    BY FS_Subset, LiveInSubset DEF Types
  <2>3. CASE a = b.base
    <3>1. Cardinality(LiveIn(a)') = Cardinality(LiveIn(a)) - 1
      BY <1>2, <2>2, <2>3, FS_RemoveElement
    <3> QED BY <2>1, <2>3, <3>1 DEF Types, MemoryTypeOK
  <2>4. CASE a # b.base
    BY <1>2, <2>1, <2>4 DEF Types, MemoryTypeOK
  <2> QED BY <2>3, <2>4
<1>4. BytesMatch'
  <2>1. CASE b.base # "heap"
    <3>1. LiveIn("heap")' = LiveIn("heap")
      BY <1>2, <2>1 DEF Allocator
    <3> QED BY <2>1, <3>1 DEF BytesMatch, HeapBytes
  <2>2. CASE b.base = "heap"
    <3>1. HeapBytes' = HeapBytes \ Bytes(b)
      BY <1>2, <2>2 DEF HeapBytes, Bytes
    <3>2. HeapBytes \intersect Bytes(b) = Bytes(b)
      BY <1>2, <2>2 DEF HeapBytes
    <3>3. IsFiniteSet(Bytes(b)) /\ Cardinality(Bytes(b)) = b.size
      BY <1>0, BytesOfBlock
    <3>4. /\ IsFiniteSet(HeapBytes')
          /\ Cardinality(HeapBytes') = Cardinality(HeapBytes) - Cardinality(Bytes(b))
      <4>1. IsFiniteSet(HeapBytes)
        BY DEF BytesMatch
      <4>2. Cardinality(HeapBytes \ Bytes(b))
              = Cardinality(HeapBytes) - Cardinality(HeapBytes \intersect Bytes(b))
        BY <4>1, FS_Difference, Zenon
      <4>3. IsFiniteSet(HeapBytes \ Bytes(b))
        BY <4>1, FS_Difference, Zenon
      <4> QED BY <3>1, <3>2, <4>2, <4>3
    <3> QED BY <2>2, <3>3, <3>4 DEF BytesMatch
  <2> QED BY <2>1, <2>2
<1> QED BY <1>1, <1>3, <1>4

-----------------------------------------------------------------------------
(* The invariant is inductive.                                             *)

LEMMA InitIInv ==
  ASSUME MemoryInit
  PROVE  IInv
<1> USE DEF MemoryInit
<1>1. Types
  BY FS_EmptySet DEF Types, MemoryTypeOK, Allocator
<1>2. InBounds
  BY BudgetAssumption DEF InBounds
<1>3. Apart
  BY DEF Apart
<1>4. Counters
  <2>1. \A a : LiveIn(a) = {}
    BY DEF LiveIn
  <2>2. HeapBytes = {}
    BY <2>1 DEF HeapBytes
  <2>3. CountsMatch /\ BytesMatch
    BY <2>1, <2>2, FS_EmptySet DEF CountsMatch, BytesMatch, LiveIn
  <2>4. HighWaterIsPeak
    BY DEF HighWaterIsPeak, Larger, Stack
  <2> QED BY <2>3, <2>4 DEF Counters
<1>5. ScopesSound
  BY DEF ScopesSound, Linked, Nested, EachSound
<1> QED BY <1>1, <1>2, <1>3, <1>4, <1>5 DEF IInv

(* An allocation from a stack that it fits into lies behind all others.    *)
LEMMA FromStackIInv ==
  ASSUME NoEmptySize, IInv, NEW a \in Stack, NEW size \in Size, NEW alignment \in Alignment,
         Fits(a, size, alignment), FromStack(a, size, alignment),
         UNCHANGED <<m_high_water, current, scopes>>
  PROVE  IInv'
<1> DEFINE at == RoundUp(m_current[a], alignment)
           b == [base |-> a, at |-> at, size |-> size]
<1>1. /\ m_current[a] \in Nat /\ size \in Nat /\ size > 0 /\ alignment \in Nat \ {0}
      /\ Budget[a] \in Nat /\ a \in Allocator /\ a # "heap"
  <2>1. size \in Nat /\ size # 0 /\ alignment \in Nat \ {0}
    BY UserAssumption DEF NoEmptySize
  <2> QED BY <2>1, BudgetAssumption DEF IInv, Types, MemoryTypeOK, Allocator, Stack
<1>2. at \in Nat /\ m_current[a] <= at /\ at + size <= Budget[a]
  BY <1>1, RoundUpFacts DEF Fits
<1>3. /\ live' = live \union {b} /\ m_current' = [m_current EXCEPT ![a] = at + size]
      /\ m_allocation_count' = [m_allocation_count EXCEPT ![a] = @ + 1]
      /\ peak' = Larger(peak, m_current'["temp"]) /\ m_bytes_allocated' = m_bytes_allocated
  BY DEF FromStack
<1>4. b.base = a /\ b.at = at /\ b.size = size /\ b \in Block
  BY <1>1, <1>2 DEF Block
<1> HIDE DEF at, b
<1>5. /\ m_current'[a] = at + size /\ m_current[a] <= m_current'[a]
      /\ \A c \in Stack \ {a} : m_current'[c] = m_current[c]
      /\ m_current' \in [Stack -> Nat]
  BY <1>1, <1>2, <1>3 DEF IInv, Types, MemoryTypeOK
<1>6. \A c \in live : c.base = a => /\ c.at \in Nat /\ c.size \in Nat /\ c.size > 0
                                    /\ c.at + c.size <= m_current[a]
  BY BlockFacts DEF IInv, InBounds
<1>7. b \notin live
  BY <1>1, <1>2, <1>4, <1>6
<1>8. CountsMatch' /\ BytesMatch' /\ IsFiniteSet(live')
  BY <1>1, <1>3, <1>4, <1>7, OneMore DEF IInv, Counters
<1>9. Types'
  <2>1. m_allocation_count' \in [Allocator -> Nat] /\ peak' \in Nat
    <3>1. m_current'["temp"] \in Nat /\ peak \in Nat
      BY <1>5 DEF Stack, IInv, Types, MemoryTypeOK
    <3> QED BY <1>1, <1>3, <3>1 DEF Larger, IInv, Types, MemoryTypeOK
  <2>2. live' \subseteq Block
    BY <1>3, <1>4 DEF IInv, Types, MemoryTypeOK
  <2> QED BY <1>3, <1>5, <1>8, <2>1, <2>2 DEF IInv, Types, MemoryTypeOK
<1>10. InBounds'
  <2>1. \A c \in Stack : m_current'[c] <= Budget[c]
    BY <1>2, <1>5 DEF IInv, InBounds
  <2>2. ASSUME NEW c \in live', c.base \in Stack
        PROVE  c.at + c.size <= m_current'[c.base]
    <3>1. CASE c = b
      BY <1>1, <1>2, <1>4, <1>5, <3>1
    <3>2. CASE c \in live /\ c.base = a
      BY <1>1, <1>5, <1>6, <3>2
    <3>3. CASE c \in live /\ c.base # a
      BY <1>5, <2>2, <3>3 DEF IInv, InBounds
    <3> QED BY <1>3, <3>1, <3>2, <3>3
  <2> QED BY <2>1, <2>2 DEF InBounds
<1>11. Apart'
  <2>1. ASSUME NEW c \in live, c.base = a
        PROVE  c.at + c.size <= b.at
    BY <1>1, <1>2, <1>4, <1>6, <2>1
  <2> SUFFICES ASSUME NEW c \in live', NEW d \in live', c # d, c.base = d.base
               PROVE  IF c.base = "heap" THEN c.at # d.at
                      ELSE c.at + c.size <= d.at \/ d.at + d.size <= c.at
    BY DEF Apart
  <2>2. CASE c \in live /\ d \in live
    BY <2>2 DEF IInv, Apart
  <2>3. CASE c = b /\ d \in live
    BY <1>1, <1>4, <2>1, <2>3
  <2>4. CASE c \in live /\ d = b
    BY <1>1, <1>4, <2>1, <2>4
  <2> QED BY <1>3, <2>2, <2>3, <2>4
<1>12. HighWaterIsPeak'
  <2>1. /\ m_current["temp"] \in Nat /\ m_current'["temp"] \in Nat
        /\ m_current["temp"] <= m_current'["temp"] /\ m_high_water \in Nat
    BY <1>5 DEF IInv, Types, MemoryTypeOK, Stack
  <2> QED BY <1>3, <2>1 DEF HighWaterIsPeak, Larger, IInv, Counters
<1>13. ScopesSound'
  <2>1. /\ m_current'["temp"] \in Nat /\ m_current["temp"] <= m_current'["temp"]
    BY <1>5 DEF IInv, Types, MemoryTypeOK, Stack
  <2>2. \A c \in LiveIn("temp")' :
           c \in LiveIn("temp") \/ (c.at \in Nat /\ m_current["temp"] <= c.at)
    <3> SUFFICES ASSUME NEW c \in live', c.base = "temp", c \notin live
                 PROVE  c.at \in Nat /\ m_current["temp"] <= c.at
      BY DEF LiveIn
    <3>1. c = b /\ a = "temp"
      BY <1>3, <1>4
    <3> QED BY <1>2, <1>4, <3>1
  <2> QED BY <1>8, <2>1, <2>2, SameScopes
<1> QED BY <1>8, <1>9, <1>10, <1>11, <1>12, <1>13 DEF IInv, Counters

(* malloc finds a cell: fewer blocks are live than there are cells. *)
LEMMA HeapCell ==
  ASSUME Types, Cardinality(live) < MaxLive, NEW size \in Size
  PROVE  /\ HeapBlock(size).base = "heap" /\ HeapBlock(size).size = size
         /\ HeapBlock(size).at \in Nat
         /\ \A b \in LiveIn("heap") : b.at # HeapBlock(size).at
<1> DEFINE cells == {b.at : b \in {c \in live : c.base = "heap"}}
<1>1. \E c \in 1..MaxLive : c \notin cells
  <2> SUFFICES ASSUME 1..MaxLive \subseteq cells
               PROVE  FALSE
    OBVIOUS
  <2>1. IsFiniteSet(1..MaxLive) /\ Cardinality(1..MaxLive) = MaxLive
    BY FS_Interval, UserAssumption
  <2> DEFINE owner == [c \in 1..MaxLive |-> CHOOSE b \in live : b.at = c]
  <2>2. \A c \in 1..MaxLive : owner[c] \in live /\ owner[c].at = c
    OBVIOUS
  <2> HIDE DEF owner
  <2>3. owner \in [1..MaxLive -> live]
    BY <2>2 DEF owner
  <2>4. PICK c, d \in 1..MaxLive : c # d /\ owner[c] = owner[d]
    BY <2>1, <2>3, FS_PigeonHole DEF Types
  <2> QED BY <2>2, <2>4
<1>2. HeapBlock(size).at \in 1..MaxLive /\ HeapBlock(size).at \notin cells
  BY <1>1 DEF HeapBlock
<1> QED BY <1>2, UserAssumption DEF HeapBlock, LiveIn

(* An allocation from the heap moves nothing on the stacks. *)
LEMMA FromHeapIInv ==
  ASSUME NoEmptySize, IInv, NEW size \in Size, Cardinality(live) < MaxLive,
         FromHeap(size), UNCHANGED <<m_high_water, current, scopes>>
  PROVE  IInv'
<1> DEFINE b == HeapBlock(size)
<1>1. size \in Nat
  BY UserAssumption
<1>2. /\ live' = live \union {b}
      /\ m_allocation_count' = [m_allocation_count EXCEPT !["heap"] = @ + 1]
      /\ m_bytes_allocated' = m_bytes_allocated + size
      /\ UNCHANGED <<m_current, peak>>
  BY DEF FromHeap
<1>3. /\ b.base = "heap" /\ b.size = size /\ b.at \in Nat
      /\ \A c \in LiveIn("heap") : c.at # b.at
  BY HeapCell DEF IInv
<1>4. b \in Block
  BY <1>1, <1>3 DEF HeapBlock, Block, Allocator
<1> HIDE DEF b
<1>5. b \notin live
  BY <1>3 DEF LiveIn
<1>6. CountsMatch' /\ BytesMatch' /\ IsFiniteSet(live')
  BY <1>1, <1>2, <1>3, <1>5, OneMore DEF IInv, Counters, Allocator
<1>7. Types'
  <2>1. live' \subseteq Block /\ m_bytes_allocated' \in Nat
    BY <1>1, <1>2, <1>4 DEF IInv, Types, MemoryTypeOK
  <2>2. m_allocation_count' \in [Allocator -> Nat]
    <3>1. m_allocation_count["heap"] + 1 \in Nat
      BY DEF IInv, Types, MemoryTypeOK, Allocator
    <3> QED BY <1>2, <3>1 DEF IInv, Types, MemoryTypeOK
  <2> QED BY <1>2, <1>6, <2>1, <2>2 DEF IInv, Types, MemoryTypeOK
<1>8. InBounds'
  BY <1>2, <1>3 DEF IInv, InBounds, Stack
<1>9. Apart'
  <2> SUFFICES ASSUME NEW c \in live', NEW d \in live', c # d, c.base = d.base
               PROVE  IF c.base = "heap" THEN c.at # d.at
                      ELSE c.at + c.size <= d.at \/ d.at + d.size <= c.at
    BY DEF Apart
  <2>1. CASE c \in live /\ d \in live
    BY <2>1 DEF IInv, Apart
  <2>2. CASE c = b \/ d = b
    BY <1>2, <1>3, <2>2 DEF LiveIn
  <2> QED BY <1>2, <2>1, <2>2
<1>10. HighWaterIsPeak'
  BY <1>2 DEF HighWaterIsPeak, Larger, IInv, Counters
<1>11. ScopesSound'
  <2>1. m_current["temp"] \in Nat /\ m_current'["temp"] = m_current["temp"]
    BY <1>2 DEF IInv, Types, MemoryTypeOK, Stack
  <2>2. LiveIn("temp")' \subseteq LiveIn("temp")
    BY <1>2, <1>3 DEF LiveIn
  <2> QED BY <1>6, <2>1, <2>2, SameScopes
<1> QED BY <1>6, <1>7, <1>8, <1>9, <1>10, <1>11 DEF IInv, Counters

LEMMA AllocateIInv ==
  ASSUME NoEmptySize, IInv, NEW t \in Thread, NEW id \in Allocator \union {"current"},
         NEW size \in Size, NEW alignment \in Alignment, Allocate(t, id, size, alignment)
  PROVE  IInv'
<1> DEFINE a == IF id = "current" THEN current[t] ELSE id
<1>1. a \in Allocator
  BY DEF IInv, Types, MemoryTypeOK
<1>2. /\ IF a # "heap" /\ Fits(a, size, alignment)
         THEN FromStack(a, size, alignment) ELSE FromHeap(size)
      /\ Cardinality(live) < MaxLive /\ UNCHANGED <<m_high_water, current, scopes>>
  BY DEF Allocate
<1> HIDE DEF a
<1>3. a # "heap" => a \in Stack
  BY <1>1 DEF Allocator
<1> QED BY <1>2, <1>3, FromStackIInv, FromHeapIInv

(* hxfree. *)
LEMMA FreeIInv ==
  ASSUME NoEmptySize, IInv, NEW b \in live, Free(b)
  PROVE  IInv'
<1>1. Route(b) = b.base
  BY FreeFromIInv
<1>2. /\ live' = live \ {b}
      /\ m_allocation_count' = [m_allocation_count EXCEPT ![b.base] = @ - 1]
      /\ m_bytes_allocated' = IF b.base = "heap" THEN m_bytes_allocated - b.size
                              ELSE m_bytes_allocated
      /\ UNCHANGED <<m_current, m_high_water, current, scopes, peak>>
  BY <1>1 DEF Free
<1>3. CountsMatch' /\ BytesMatch' /\ IsFiniteSet(live')
  BY <1>2, OneLess DEF IInv, Counters
<1>4. Types'
  <2>1. b.base \in Allocator /\ b.size \in Nat /\ m_allocation_count[b.base] > 0
    BY <1>1, BlockFacts DEF IInv, Free, FreeIsGood
  <2>2. m_allocation_count' \in [Allocator -> Nat]
    BY <1>2, <2>1 DEF IInv, Types, MemoryTypeOK
  <2>3. m_bytes_allocated' \in Nat
    <3>1. b.base = "heap" => b.size <= m_bytes_allocated
      BY BytesCounted DEF IInv, Counters, LiveIn
    <3> QED BY <1>2, <2>1, <3>1 DEF IInv, Types, MemoryTypeOK
  <2> QED BY <1>2, <1>3, <2>2, <2>3 DEF IInv, Types, MemoryTypeOK
<1>5. InBounds' /\ Apart' /\ HighWaterIsPeak'
  BY <1>2 DEF IInv, InBounds, Apart, Counters, HighWaterIsPeak
<1>6. ScopesSound'
  <2>1. m_current["temp"] \in Nat /\ m_current'["temp"] = m_current["temp"]
    BY <1>2 DEF IInv, Types, MemoryTypeOK, Stack
  <2>2. LiveIn("temp")' \subseteq LiveIn("temp")
    BY <1>2 DEF LiveIn
  <2> QED BY <1>2, <1>3, <2>1, <2>2, SameScopes
<1> QED BY <1>3, <1>4, <1>5, <1>6 DEF IInv, Counters

(* get_high_water, and a step of something else. *)
LEMMA HighWaterIInv ==
  ASSUME IInv, GetHighWater \/ UNCHANGED memoryVars
  PROVE  IInv'
<1>1. UNCHANGED <<m_current, m_allocation_count, m_bytes_allocated, current, scopes, live, peak>>
  BY DEF GetHighWater, memoryVars
<1>2. m_current["temp"] \in Nat /\ m_high_water \in Nat
  BY DEF IInv, Types, MemoryTypeOK, Stack
<1>3. m_high_water' \in Nat /\ HighWaterIsPeak'
  <2>1. CASE GetHighWater
    BY <1>1, <1>2, <2>1 DEF GetHighWater, HighWaterIsPeak, Larger, IInv, Counters
  <2>2. CASE UNCHANGED memoryVars
    BY <1>1, <1>2, <2>2 DEF memoryVars, HighWaterIsPeak, IInv, Counters
  <2> QED BY <2>1, <2>2
<1>4. Types' /\ InBounds' /\ Apart' /\ CountsMatch' /\ BytesMatch'
  BY <1>1, <1>3, SameBlocks DEF IInv, Types, MemoryTypeOK, InBounds, Apart, Counters
<1>5. ScopesSound'
  <2>1. LiveIn("temp")' = LiveIn("temp") /\ IsFiniteSet(live')
    BY <1>1 DEF LiveIn, IInv, Types
  <2> QED BY <1>1, <1>2, <2>1, SameScopes
<1> QED BY <1>3, <1>4, <1>5 DEF IInv, Counters

(* Nothing is outstanding when the manager is destroyed. *)
LEMMA ShutDownIInv ==
  ASSUME IInv, ShutDown
  PROVE  IInv'
<1>1. \A a \in Allocator : m_allocation_count[a] = 0
  BY DEF ShutDown, LeakCount, IInv, Types, MemoryTypeOK, Allocator, Stack
<1>2. live = {}
  <2> SUFFICES ASSUME NEW b \in live PROVE FALSE
    OBVIOUS
  <2>1. b.base \in Allocator
    BY DEF IInv, Types, MemoryTypeOK, Block
  <2>2. IsFiniteSet(LiveIn(b.base)) /\ b \in LiveIn(b.base)
    BY FS_Subset, LiveInSubset DEF IInv, Types, LiveIn
  <2>3. Cardinality(LiveIn(b.base)) = 0
    BY <1>1, <2>1 DEF IInv, Counters, CountsMatch, LiveIn
  <2> QED BY <2>2, <2>3, FS_EmptySet
<1>3. /\ m_current' = [a \in Stack |-> 0] /\ m_allocation_count' = [a \in Allocator |-> 0]
      /\ m_bytes_allocated' = 0 /\ m_high_water' = 0 /\ peak' = 0
      /\ UNCHANGED <<current, scopes>> /\ live' = {}
      /\ \A t \in Thread : scopes[t] = <<>>
  BY <1>2 DEF ShutDown
<1>4. Types'
  BY <1>3, FS_EmptySet DEF IInv, Types, MemoryTypeOK
<1>5. InBounds' /\ Apart'
  BY <1>3, BudgetAssumption DEF InBounds, Apart
<1>6. CountsMatch' /\ BytesMatch'
  <2>1. HeapBytes' = {} /\ \A a : LiveIn(a)' = {}
    BY <1>3 DEF HeapBytes, LiveIn
  <2> QED BY <1>3, <2>1, FS_EmptySet DEF CountsMatch, BytesMatch, LiveIn
<1>7. HighWaterIsPeak'
  BY <1>3 DEF HighWaterIsPeak, Larger, Stack
<1>8. ScopesSound'
  BY <1>3 DEF ScopesSound, Linked, Nested, EachSound
<1> QED BY <1>4, <1>5, <1>6, <1>7, <1>8 DEF IInv, Counters

-----------------------------------------------------------------------------
(* A new scope records where the temporary stack is, and all of its blocks *)
(* lie below.                                                              *)
LEMMA BeginScopeIInv ==
  ASSUME NoEmptySize, IInv, NEW t \in Thread, NEW id \in Allocator, BeginScope(t, id)
  PROVE  IInv'
<1> DEFINE s == scopes[t]
           scope == [id |-> id, initial |-> current[t],
                     count |-> IF id = "temp" THEN m_allocation_count["temp"] ELSE 0,
                     bytes |-> IF id = "temp" THEN m_current["temp"] ELSE 0]
<1>1. /\ scopes' = [scopes EXCEPT ![t] = Append(s, scope)]
      /\ current' = [current EXCEPT ![t] = id]
      /\ UNCHANGED <<m_current, m_allocation_count, m_bytes_allocated, m_high_water, live, peak>>
      /\ id = "temp" => t \in TempThread
  BY DEF BeginScope, MayUse
<1>2. /\ scope.id = id /\ scope.initial = current[t]
      /\ id = "temp" => /\ scope.count = m_allocation_count["temp"]
                        /\ scope.bytes = m_current["temp"]
      /\ scope \in Scope /\ s \in Seq(Scope)
  BY DEF Scope, Allocator, Stack, IInv, Types, MemoryTypeOK
<1> HIDE DEF s, scope
<1>3. /\ scopes'[t] = Append(s, scope) /\ current'[t] = id
      /\ \A u \in Thread \ {t} : scopes'[u] = scopes[u] /\ current'[u] = current[u]
  BY <1>1 DEF IInv, Types, MemoryTypeOK
<1>4. /\ Len(scopes'[t]) = Len(s) + 1 /\ Len(s) \in Nat
      /\ scopes'[t][Len(s) + 1] = scope /\ scopes'[t] # <<>>
      /\ \A i \in 1..Len(s) : scopes'[t][i] = s[i]
  BY <1>2, <1>3
<1>5. Types'
  <2>1. Append(s, scope) \in Seq(Scope)
    BY <1>2
  <2>2. scopes' \in [Thread -> Seq(Scope)]
    BY <1>1, <2>1 DEF IInv, Types, MemoryTypeOK
  <2> QED BY <1>1, <2>2 DEF IInv, Types, MemoryTypeOK
<1>6. InBounds' /\ Apart' /\ CountsMatch' /\ BytesMatch' /\ HighWaterIsPeak'
  BY <1>1, SameBlocks DEF IInv, InBounds, Apart, Counters, HighWaterIsPeak
<1>7. m_current'["temp"] = m_current["temp"] /\ LiveIn("temp")' = LiveIn("temp")
  BY <1>1 DEF LiveIn
<1>8. Sound(scope)
  <2> SUFFICES ASSUME id = "temp"
               PROVE  /\ m_current["temp"] <= m_current["temp"]
                      /\ \A b \in LiveIn("temp") : b.at >= scope.bytes
                                                     \/ b.at + b.size <= scope.bytes
                      /\ Cardinality(Below(scope.bytes)) <= scope.count
    BY <1>2 DEF Sound, SoundFor, Below
  <2>1. m_current["temp"] \in Nat
    BY DEF IInv, Types, MemoryTypeOK, Stack
  <2>2. \A b \in LiveIn("temp") : b.at + b.size <= m_current["temp"]
    BY DEF LiveIn, IInv, InBounds, Stack
  <2>3. Cardinality(Below(scope.bytes)) <= Cardinality(LiveIn("temp"))
    <3>1. IsFiniteSet(LiveIn("temp")) /\ Below(scope.bytes) \subseteq LiveIn("temp")
      BY FS_Subset, LiveInSubset DEF IInv, Types, Below
    <3> QED BY <3>1, FS_Subset
  <2>4. Cardinality(LiveIn("temp")) = m_allocation_count["temp"]
    BY DEF IInv, Counters, CountsMatch, LiveIn, Allocator, Stack
  <2> QED BY <1>2, <2>1, <2>2, <2>3, <2>4
<1>9. \A i \in 1..Len(s) : Sound(s[i]) /\ (s[i].id = "temp" => t \in TempThread)
  BY DEF s, IInv, ScopesSound, EachSound
<1>10. EachSound(t)'
  <2> SUFFICES ASSUME NEW i \in 1..Len(scopes'[t])
               PROVE  /\ SoundFor(scopes'[t][i], m_current'["temp"], LiveIn("temp")')
                      /\ scopes'[t][i].id = "temp" => t \in TempThread
    BY DEF EachSound, Sound
  <2>1. CASE i = Len(s) + 1
    BY <1>1, <1>2, <1>7, <1>8, <1>4, <2>1 DEF Sound
  <2>2. CASE i # Len(s) + 1
    <3>1. i \in 1..Len(s)
      BY <1>4, <2>2
    <3> QED BY <1>7, <1>9, <1>4, <3>1 DEF Sound
  <2> QED BY <2>1, <2>2
<1>11. Linked(t)'
  <2>1. Linked(t)
    BY DEF IInv, ScopesSound
  <2>2. ASSUME NEW i \in 2..(Len(s) + 1)
        PROVE  scopes'[t][i].initial = scopes'[t][i - 1].id
    <3>1. CASE i = Len(s) + 1
      <4>1. s # <<>> /\ Len(s) \in 1..Len(s) /\ i - 1 = Len(s)
        BY <1>2, <1>4, <2>2, <3>1
      <4>2. current[t] = s[Len(s)].id
        BY <2>1, <4>1 DEF Linked, s
      <4> QED BY <1>2, <1>4, <3>1, <4>1, <4>2
    <3>2. CASE i # Len(s) + 1
      <4>1. i \in 2..Len(s) /\ i \in 1..Len(s) /\ i - 1 \in 1..Len(s)
        BY <1>4, <2>2, <3>2
      <4>2. s[i].initial = s[i - 1].id
        BY <2>1, <4>1 DEF Linked, s
      <4> QED BY <1>4, <4>1, <4>2
    <3> QED BY <3>1, <3>2
  <2> QED BY <1>2, <1>3, <1>4, <2>2 DEF Linked
<1>12. Nested(t)'
  <2> SUFFICES ASSUME NEW i \in 1..Len(scopes'[t]), NEW j \in 1..Len(scopes'[t]), i <= j,
                      scopes'[t][i].id = "temp", scopes'[t][j].id = "temp"
               PROVE  scopes'[t][i].bytes <= scopes'[t][j].bytes
    BY DEF Nested
  <2>1. m_current["temp"] \in Nat
    BY DEF IInv, Types, MemoryTypeOK, Stack
  <2>2. CASE j = Len(s) + 1
    <3>1. scopes'[t][j].bytes = m_current["temp"]
      BY <1>2, <1>4, <2>2
    <3>2. CASE i = Len(s) + 1
      BY <2>1, <2>2, <3>1, <3>2
    <3>3. CASE i # Len(s) + 1
      <4>1. i \in 1..Len(s)
        BY <1>4, <3>3
      <4>2. Sound(s[i]) /\ scopes'[t][i] = s[i]
        BY <1>9, <1>4, <4>1
      <4> QED BY <3>1, <4>2 DEF Sound, SoundFor
    <3> QED BY <3>2, <3>3
  <2>3. CASE j # Len(s) + 1
    <3>1. i \in 1..Len(s) /\ j \in 1..Len(s)
      BY <1>4, <2>3
    <3>2. Nested(t)
      BY DEF IInv, ScopesSound
    <3> QED BY <1>4, <3>1, <3>2 DEF Nested, s
  <2> QED BY <2>2, <2>3
<1>13. ScopesSound'
  <2> SUFFICES ASSUME NEW u \in Thread
               PROVE  Linked(u)' /\ Nested(u)' /\ EachSound(u)'
    BY DEF ScopesSound
  <2>1. CASE u = t
    BY <1>10, <1>11, <1>12, <2>1
  <2>2. CASE u # t
    <3>1. Linked(u) /\ Nested(u) /\ EachSound(u) /\ scopes'[u] = scopes[u]
          /\ current'[u] = current[u]
      BY <1>3, <2>2 DEF IInv, ScopesSound
    <3>2. Linked(u)' /\ Nested(u)'
      BY <3>1 DEF Linked, Nested
    <3>3. EachSound(u)'
      BY <1>7, <3>1 DEF EachSound, Sound
    <3> QED BY <3>2, <3>3
  <2> QED BY <2>1, <2>2
<1> QED BY <1>5, <1>6, <1>13 DEF IInv, Counters

(* The end of a scope: m_current goes back to its offset, above which      *)
(* nothing is left.  All other scopes that may be about the temporary      *)
(* stack are outer scopes of the same thread.                              *)
LEMMA EndScopeIInv ==
  ASSUME Rules, IInv, NEW t \in Thread, EndScope(t)
  PROVE  IInv'
<1> DEFINE s == scopes[t]
           scope == Innermost(t)
<1>1. /\ s # <<>> /\ ScopeIsClear(scope)
      /\ scopes' = [scopes EXCEPT ![t] = SubSeq(s, 1, Len(s) - 1)]
      /\ current' = [current EXCEPT ![t] = scope.initial]
      /\ IF current[t] = "temp" THEN ResetTemp(scope) ELSE UNCHANGED <<m_current, m_high_water>>
      /\ UNCHANGED <<m_allocation_count, m_bytes_allocated, live, peak>>
  BY DEF EndScope
<1>2. /\ scope \in Scope /\ Sound(scope) /\ current[t] = scope.id
      /\ scope.id = "temp" => t \in TempThread
      /\ s \in Seq(Scope) /\ Len(s) \in 1..Len(s) /\ scope = s[Len(s)]
  BY <1>1, InnermostFacts DEF IInv, Types, MemoryTypeOK, Innermost
<1>3. scope.bytes \in Nat /\ scope.initial \in Allocator
  BY <1>2 DEF Scope
<1> HIDE DEF s, scope
<1>4. /\ scopes'[t] = SubSeq(s, 1, Len(s) - 1) /\ current'[t] = scope.initial
      /\ \A u \in Thread \ {t} : scopes'[u] = scopes[u] /\ current'[u] = current[u]
  BY <1>1 DEF IInv, Types, MemoryTypeOK
<1>5. /\ Len(scopes'[t]) = Len(s) - 1 /\ scopes'[t] \in Seq(Scope)
      /\ \A i \in 1..(Len(s) - 1) : scopes'[t][i] = s[i]
  <2> DEFINE n == Len(s) - 1
  <2>1. n \in Nat /\ \A i \in 1..n : s[i] \in Scope
    BY <1>2
  <2> HIDE DEF n
  <2>2. /\ SubSeq(s, 1, n) \in Seq(Scope)
        /\ Len(SubSeq(s, 1, n)) = IF 1 <= n THEN n - 1 + 1 ELSE 0
        /\ \A i \in 1..(n - 1 + 1) : SubSeq(s, 1, n)[i] = s[1 + i - 1]
    BY <2>1, SubSeqProperties
  <2>3. Len(SubSeq(s, 1, n)) = n /\ \A i \in 1..n : SubSeq(s, 1, n)[i] = s[i]
    BY <2>1, <2>2
  <2> QED BY <1>4, <2>2, <2>3 DEF n
<1>6. /\ m_current' \in [Stack -> Nat] /\ m_high_water' \in Nat
      /\ m_current'["perm"] = m_current["perm"]
      /\ m_current'["temp"] = IF scope.id = "temp" THEN scope.bytes ELSE m_current["temp"]
      /\ m_current'["temp"] <= m_current["temp"]
      /\ m_current["temp"] \in Nat /\ m_current'["temp"] \in Nat
  BY <1>1, <1>2, <1>3 DEF ResetTemp, Larger, Sound, SoundFor, IInv, Types, MemoryTypeOK, Stack
<1>7. HighWaterIsPeak'
  <2>1. CASE scope.id = "temp"
    <3>1. m_high_water' = Larger(m_high_water, m_current["temp"])
      BY <1>1, <1>2, <2>1 DEF ResetTemp
    <3>2. m_high_water \in Nat
      BY DEF IInv, Types, MemoryTypeOK
    <3> QED BY <1>1, <1>6, <3>1, <3>2 DEF HighWaterIsPeak, Larger, IInv, Counters
  <2>2. CASE scope.id # "temp"
    BY <1>1, <1>2, <2>2 DEF HighWaterIsPeak, IInv, Counters
  <2> QED BY <2>1, <2>2
<1>8. Types'
  <2>1. scopes' \in [Thread -> Seq(Scope)] /\ current' \in [Thread -> Allocator]
    BY <1>1, <1>3, <1>4, <1>5 DEF IInv, Types, MemoryTypeOK
  <2> QED BY <1>1, <1>6, <2>1 DEF IInv, Types, MemoryTypeOK
<1>9. CountsMatch' /\ BytesMatch' /\ Apart'
  BY <1>1, SameBlocks DEF IInv, Counters, Apart
<1>10. \A b \in LiveIn("temp") : b.at + b.size <= m_current'["temp"]
  <2> SUFFICES ASSUME NEW b \in LiveIn("temp")
               PROVE  b.at + b.size <= m_current'["temp"]
    OBVIOUS
  <2>1. CASE scope.id = "temp"
    <3>1. b.at \in Nat /\ ~(b.at >= scope.bytes)
      BY <1>1, <2>1 DEF ScopeIsClear, LiveIn, IInv, Types, MemoryTypeOK, Block
    <3> QED BY <1>2, <1>6, <2>1, <3>1 DEF Sound, SoundFor
  <2>2. CASE scope.id # "temp"
    BY <1>6, <2>2 DEF LiveIn, IInv, InBounds, Stack
  <2> QED BY <2>1, <2>2
<1>11. InBounds'
  <2>1. \A a \in Stack : m_current'[a] <= Budget[a]
    <3>1. m_current["temp"] <= Budget["temp"] /\ Budget["temp"] \in Nat
      BY BudgetAssumption DEF IInv, InBounds, Stack
    <3>2. m_current'["temp"] <= Budget["temp"]
      BY <1>6, <3>1
    <3> QED BY <1>6, <3>2 DEF IInv, InBounds, Stack
  <2>2. ASSUME NEW b \in live, b.base \in Stack
        PROVE  b.at + b.size <= m_current'[b.base]
    <3>1. CASE b.base = "temp"
      BY <1>10, <3>1 DEF LiveIn
    <3>2. CASE b.base # "temp"
      BY <1>6, <2>2, <3>2 DEF IInv, InBounds, Stack
    <3> QED BY <3>1, <3>2
  <2> QED BY <1>1, <2>1, <2>2 DEF InBounds
<1>12. ASSUME NEW x, Sound(x), x.id = "temp" => x.bytes <= m_current'["temp"]
       PROVE  SoundFor(x, m_current'["temp"], LiveIn("temp")')
  <2>1. LiveIn("temp")' = LiveIn("temp")
    BY <1>1 DEF LiveIn
  <2> QED BY <1>12, <2>1 DEF Sound, SoundFor
<1>13. ASSUME NEW i \in 1..(Len(s) - 1), s[i].id = "temp"
       PROVE  s[i].bytes <= m_current'["temp"]
  <2>1. i \in 1..Len(s) /\ i <= Len(s) /\ Sound(s[i]) /\ Nested(t)
    BY <1>2 DEF IInv, ScopesSound, EachSound, s
  <2>2. CASE scope.id = "temp"
    BY <1>2, <1>6, <1>13, <2>1, <2>2 DEF Nested, s
  <2>3. CASE scope.id # "temp"
    BY <1>6, <1>13, <2>1, <2>3 DEF Sound, SoundFor
  <2> QED BY <2>2, <2>3
<1>14. ASSUME NEW u \in Thread, u # t
       PROVE  EachSound(u)'
  <2> SUFFICES ASSUME NEW i \in 1..Len(scopes[u])
               PROVE  /\ SoundFor(scopes[u][i], m_current'["temp"], LiveIn("temp")')
                      /\ scopes[u][i].id = "temp" => u \in TempThread
    BY <1>4, <1>14 DEF EachSound, Sound
  <2>1. Sound(scopes[u][i]) /\ (scopes[u][i].id = "temp" => u \in TempThread)
    BY DEF IInv, ScopesSound, EachSound
  <2>2. ASSUME scopes[u][i].id = "temp"
        PROVE  scopes[u][i].bytes <= m_current'["temp"]
    <3>1. scope.id # "temp"
      BY <1>2, <1>14, <2>1, <2>2 DEF Rules, OneTempThread
    <3> QED BY <1>6, <2>1, <2>2, <3>1 DEF Sound, SoundFor
  <2> QED BY <1>12, <2>1, <2>2
<1>15. EachSound(t)'
  <2> SUFFICES ASSUME NEW i \in 1..(Len(s) - 1)
               PROVE  /\ SoundFor(s[i], m_current'["temp"], LiveIn("temp")')
                      /\ s[i].id = "temp" => t \in TempThread
    BY <1>5 DEF EachSound, Sound
  <2>1. i \in 1..Len(s) /\ EachSound(t)
    BY <1>2 DEF IInv, ScopesSound
  <2>2. Sound(s[i]) /\ (s[i].id = "temp" => t \in TempThread)
    BY <2>1 DEF EachSound, s
  <2> QED BY <1>12, <1>13, <2>2
<1>16. Nested(t)'
  <2>1. \A i \in 1..(Len(s) - 1) : i \in 1..Len(s)
    BY <1>2
  <2>2. Nested(t)
    BY DEF IInv, ScopesSound
  <2> QED BY <1>5, <2>1, <2>2 DEF Nested, s
<1>17. Linked(t)'
  <2>0. \A i \in 2..Len(s) : s[i].initial = s[i - 1].id
    BY DEF IInv, ScopesSound, Linked, s
  <2>1. ASSUME scopes'[t] # <<>>
        PROVE  current'[t] = scopes'[t][Len(s) - 1].id
    <3>1. Len(s) \in 2..Len(s) /\ Len(s) - 1 \in 1..(Len(s) - 1)
      BY <1>2, <1>5, <2>1
    <3> QED BY <1>2, <1>4, <1>5, <2>0, <3>1
  <2>2. ASSUME NEW i \in 2..(Len(s) - 1)
        PROVE  scopes'[t][i].initial = scopes'[t][i - 1].id
    <3>1. i \in 2..Len(s) /\ i \in 1..(Len(s) - 1) /\ i - 1 \in 1..(Len(s) - 1)
      BY <1>2, <2>2
    <3> QED BY <1>5, <2>0, <3>1
  <2> QED BY <1>5, <2>1, <2>2 DEF Linked
<1>18. ScopesSound'
  <2> SUFFICES ASSUME NEW u \in Thread
               PROVE  Linked(u)' /\ Nested(u)' /\ EachSound(u)'
    BY DEF ScopesSound
  <2>1. CASE u # t
    <3>1. Linked(u)' /\ Nested(u)'
      BY <1>4, <2>1 DEF IInv, ScopesSound, Linked, Nested
    <3> QED BY <1>14, <2>1, <3>1
  <2>2. CASE u = t
    BY <1>15, <1>16, <1>17, <2>2
  <2> QED BY <2>1, <2>2
<1> QED BY <1>7, <1>8, <1>9, <1>11, <1>18 DEF IInv, Counters

LEMMA NextIInv ==
  ASSUME Rules, IInv, [MemoryNext]_memoryVars
  PROVE  IInv'
<1>1. NoEmptySize
  BY DEF Rules
<1> QED
  BY <1>1, AllocateIInv, FreeIInv, BeginScopeIInv, EndScopeIInv, HighWaterIInv, ShutDownIInv
  DEF MemoryNext

LEMMA SpecIInv ==
  ASSUME Rules
  PROVE  MemorySpec => []IInv
<1>1. MemoryInit => IInv
  BY InitIInv
<1>2. IInv /\ [MemoryNext]_memoryVars => IInv'
  BY NextIInv
<1> QED BY <1>1, <1>2, PTL DEF MemorySpec

-----------------------------------------------------------------------------
(* The state of the manager keeps its types: no counter goes below zero.   *)
THEOREM MemoryTypes ==
  ASSUME Rules
  PROVE  MemorySpec => []MemoryTypeOK
<1>1. IInv => MemoryTypeOK
  BY DEF IInv, Types
<1> QED BY <1>1, SpecIInv, PTL

(* Allocations lie in the used part of their stack, and no two overlap,    *)
(* whatever scopes have reset the temporary stack to.                      *)
THEOREM AllocationsAreDisjoint ==
  ASSUME Rules
  PROVE  MemorySpec => []LiveDisjoint
<1>1. IInv => LiveDisjoint
  BY DisjointFromIInv
<1> QED BY <1>1, SpecIInv, PTL

(* The counters of all allocators agree with what is outstanding, through  *)
(* overflows to the heap, frees and resets, and the high water mark is the *)
(* highest use of the temporary stack.                                     *)
THEOREM CountersAreTrue ==
  ASSUME Rules
  PROVE  MemorySpec => []CountersAgree
<1>1. IInv => CountersAgree
  BY DEF IInv, Counters, CountersAgree
<1> QED BY <1>1, SpecIInv, PTL

(* hxfree finds the allocator of every allocation by its address. *)
THEOREM FreeFindsAllocator ==
  ASSUME Rules
  PROVE  MemorySpec => []RoutesBack
<1>1. IInv => RoutesBack
  BY RoutesFromIInv DEF Rules
<1> QED BY <1>1, SpecIInv, PTL

(* No assertion of hxfree or of the end of a scope fires. *)
THEOREM NoAssertionFires ==
  ASSUME Rules
  PROVE  MemorySpec => []AssertionsHold
<1>1. IInv => AssertionsHold
  BY FreeFromIInv, ScopesFromIInv DEF AssertionsHold, FreeAccepted, Rules
<1> QED BY <1>1, SpecIInv, PTL

=============================================================================
