------------------------------- MODULE Array --------------------------------
(***************************************************************************)
(* hxarray with dynamic storage, for elements with constructors and a      *)
(* destructor.  A slot holds a value, or an object that was moved from,    *)
(* or it is Raw; it is at fault after an object was constructed where one  *)
(* lives, or destroyed, assigned to or read where none does.  Storage is   *)
(* allocated once, by reserve() or by the first call that needs it.        *)
(***************************************************************************)
EXTENDS Heaps, FiniteSets

CONSTANTS
  Name,          (* the arrays                                              *)
  Value,         (* integers: hxkey_less is <                               *)
  Sizes,         (* the sizes that reserve() and resize() are asked for     *)
  Moved, Raw, Fault,
  Predicates     (* what erase_if_heap() may remove: "tail" if only the     *)
                 (* last elements, "any"                                    *)

ArrayAssumption ==
  /\ Value \subseteq Int /\ IsFiniteSet(Sizes) /\ Sizes \subseteq Nat
  /\ {Moved, Raw, Fault} \cap Value = {}
  /\ Cardinality({Moved, Raw, Fault}) = 3
  /\ Predicates \subseteq {"tail", "any"}

VARIABLES
  data,     (* array -> its slots, from 0 to its capacity *)
  m_end_    (* array -> the number of elements            *)

vars == <<data, m_end_>>

Capacity(a) == Cardinality(DOMAIN data[a])
Index(a) == 0..m_end_[a] - 1

NoStorage == [i \in 0..-1 |-> Raw]

Init ==
  /\ data = [a \in Name |-> NoStorage]
  /\ m_end_ = [a \in Name |-> 0]

-----------------------------------------------------------------------------
(* Objects in the slots of one storage S.                                  *)
Lives(x) == x = Moved \/ x \in Value
Construct(S, i, x) == [S EXCEPT ![i] = IF @ = Raw /\ Lives(x) THEN x ELSE Fault]
Destroy(S, i) == [S EXCEPT ![i] = IF Lives(@) THEN Raw ELSE Fault]
AssignTo(S, i, x) == [S EXCEPT ![i] = IF Lives(@) /\ Lives(x) THEN x ELSE Fault]
MovedFrom(S, i) == [S EXCEPT ![i] = IF Lives(@) THEN Moved ELSE Fault]

MoveAssign(S, to, from) == MovedFrom(AssignTo(S, to, S[from]), from)
MoveConstruct(S, to, from) == MovedFrom(Construct(S, to, S[from]), from)

Destruct(S, begin, end) ==
  [i \in DOMAIN S |-> IF i \in begin..end - 1 THEN Destroy(S, i)[i] ELSE S[i]]
ConstructAt(S, begin, x) ==        (* x is a function from 0 *)
  [i \in DOMAIN S |-> IF i - begin \in DOMAIN x THEN Construct(S, i, x[i - begin])[i] ELSE S[i]]

(* The storage after reserve(n), which asserts that the array has room or  *)
(* has none yet.                                                           *)
Reservable(a, n) == n <= Capacity(a) \/ Capacity(a) = 0
Reserved(a, n) == IF n <= Capacity(a) THEN data[a] ELSE [i \in 0..n - 1 |-> Raw]

Full(a) == m_end_[a] = Capacity(a)

(* No element was moved from.  A functor or a comparison reads all of them, *)
(* and, which bounds the states, no element is added to an array that was   *)
(* moved from until it is cleared or assigned to.                           *)
Known(a) == \A i \in Index(a) : data[a][i] # Moved
Elements(a) == [i \in Index(a) |-> data[a][i]]

Become(a, S, end) ==
  /\ data' = [data EXCEPT ![a] = S]
  /\ m_end_' = [m_end_ EXCEPT ![a] = end]

-----------------------------------------------------------------------------
Reserve(a, n) == Reservable(a, n) /\ Become(a, Reserved(a, n), m_end_[a])

PushBack(a, v) ==
  ~Full(a) /\ Known(a) /\ Become(a, Construct(data[a], m_end_[a], v), m_end_[a] + 1)

PopBack(a) ==
  m_end_[a] > 0 /\ Become(a, Destroy(data[a], m_end_[a] - 1), m_end_[a] - 1)

(* The last element is moved behind itself, the ones before it shift.      *)
Inserted(S, pos, end, v) ==
  LET shift[i \in pos..end] ==     (* down to the slot i *)
        IF i = end THEN MoveConstruct(S, end, end - 1)
        ELSE IF i = end - 1 THEN shift[end]
        ELSE AssignTo(shift[i + 1], i + 1, shift[i + 1][i])
  IN AssignTo(shift[pos], pos, v)

Insert(a, pos, v) ==
  /\ ~Full(a) /\ Known(a) /\ pos <= m_end_[a]
  /\ IF pos = m_end_[a] THEN PushBack(a, v)
     ELSE Become(a, Inserted(data[a], pos, m_end_[a], v), m_end_[a] + 1)

Erased(S, pos, end) ==
  LET shift[i \in pos..end - 1] ==
        IF i = pos THEN S ELSE MoveAssign(shift[i - 1], i - 1, i)
  IN Destroy(shift[end - 1], end - 1)

Erase(a, pos) ==
  pos < m_end_[a] /\ Become(a, Erased(data[a], pos, m_end_[a]), m_end_[a] - 1)

ErasedUnordered(S, pos, last) ==
  Destroy(IF pos # last THEN MoveAssign(S, pos, last) ELSE S, last)

EraseUnordered(a, pos) ==
  pos < m_end_[a] /\ Become(a, ErasedUnordered(data[a], pos, m_end_[a] - 1), m_end_[a] - 1)

(* Each element from the last one, P being what the functor is true for.   *)
ErasedIf(S, end, P) ==
  LET Step(H, index) ==
        IF H[1][index] \in P THEN <<ErasedUnordered(H[1], index, H[2] - 1), H[2] - 1>> ELSE H
      erase[k \in 0..end] == IF k = 0 THEN <<S, end>> ELSE Step(erase[k - 1], end - k)
  IN erase[end]

EraseIf(a, P) ==
  /\ Known(a)
  /\ LET H == ErasedIf(data[a], m_end_[a], P) IN Become(a, H[1], H[2])

(* erase_if_heap(): H = <<storage, dst_>> at src_; what is removed is      *)
(* destroyed at once, what stays is assigned to the first slot that is     *)
(* not taken, also when no object lives there any more.                    *)
Compacted(S, end, P) ==
  LET Step(H, src) ==
        IF H[1][src] \in P THEN <<Destroy(H[1], src), H[2]>>
        ELSE <<IF src # H[2] THEN MoveAssign(H[1], H[2], src) ELSE H[1], H[2] + 1>>
      compact[k \in 0..end] == IF k = 0 THEN <<S, 0>> ELSE Step(compact[k - 1], k - 1)
  IN compact[end]

Comparable(S, end) == \A i \in 0..end - 1 : S[i] \in Value
RemovesTail(a, P) ==
  \A i, j \in Index(a) : data[a][i] \in P /\ i < j => data[a][j] \in P

ErasedIfHeap(S, end, P) ==
  LET H == Compacted(S, end, P)
  IN IF H[2] < end /\ Comparable(H[1], H[2]) THEN <<MadeHeap(H[1], 0, H[2]), H[2]>> ELSE H

Erasable(a, P) ==
  Known(a) /\ ("any" \in Predicates \/ ("tail" \in Predicates /\ RemovesTail(a, P)))

EraseIfHeap(a, P) ==
  /\ Erasable(a, P)
  /\ LET H == ErasedIfHeap(data[a], m_end_[a], P) IN Become(a, H[1], H[2])

MakeHeap(a) == Known(a) /\ Become(a, MadeHeap(data[a], 0, m_end_[a]), m_end_[a])

(* Mutant of PushedHeap: the element stays behind the last one. *)
PushedHeapUnsifted(S, end, v) == Construct(S, end, v)

(* Mutant of PushedHeap: the parent that was moved is not destroyed. *)
PushedHeapUndestroyed(S, end, v) ==
  LET Step(H) ==
        LET node == H[2]
            parent == ParentOf(0, node)
        IN IF node # 0 /\ H[1][parent] \in Value /\ H[1][parent] < v
           THEN <<MoveConstruct(H[1], node, parent), parent>> ELSE H
      rise[k \in 0..end] == IF k = 0 THEN <<S, end>> ELSE Step(rise[k - 1])
  IN Construct(rise[end][1], rise[end][2], v)

(* The hole behind the last element rises, and the element is constructed  *)
(* where it stops: H = <<storage, node_>>.                                 *)
PushedHeap(S, end, v) ==
  LET Step(H) ==
        LET node == H[2]
            parent == ParentOf(0, node)
        IN IF node # 0 /\ H[1][parent] < v
           THEN <<Destroy(MoveConstruct(H[1], node, parent), parent), parent>> ELSE H
      rise[k \in 0..end] == IF k = 0 THEN <<S, end>> ELSE Step(rise[k - 1])
  IN Construct(rise[end][1], rise[end][2], v)

PushHeap(a, v) ==
  ~Full(a) /\ Known(a) /\ Become(a, PushedHeap(data[a], m_end_[a], v), m_end_[a] + 1)

IsHeap(a) == \A i \in Index(a) \ {0} : data[a][i] <= data[a][ParentOf(0, i)]

PoppedHeap(S, last) ==
  IF last = 0 THEN Destroy(S, 0)
  ELSE SiftedDown(Destroy(MoveAssign(S, 0, last), last), 0, 0, last)

PopHeap(a) ==
  /\ m_end_[a] > 0 /\ Known(a) /\ IsHeap(a)
  /\ Become(a, PoppedHeap(data[a], m_end_[a] - 1), m_end_[a] - 1)

Clear(a) == Become(a, Destruct(data[a], 0, m_end_[a]), 0)

(* The destructor frees the storage, in which no object may be left; what  *)
(* a constructor makes is the array that Init describes, which it resizes, *)
(* assigns to or swaps with its argument.                                  *)
Freed(S) == IF \A i \in DOMAIN S : S[i] = Raw THEN NoStorage ELSE [S EXCEPT ![0] = Fault]
Delete(a) == Become(a, Freed(Destruct(data[a], 0, m_end_[a])), 0)

(* The functor makes the values x. *)
GenerateN(a, x) ==
  LET n == Cardinality(DOMAIN x)
  IN /\ m_end_[a] + n <= Capacity(a) /\ Known(a)
     /\ Become(a, ConstructAt(data[a], m_end_[a], x), m_end_[a] + n)

(* The functor is called with each element, in order, and may change it    *)
(* to f of what it was.                                                    *)
ForEach(a, f) ==
  LET each[k \in 0..m_end_[a]] ==
        IF k = 0 THEN data[a] ELSE AssignTo(each[k - 1], k - 1, f[each[k - 1][k - 1]])
  IN Known(a) /\ Become(a, each[m_end_[a]], m_end_[a])

Resize(a, n, v) ==
  /\ Reservable(a, n) /\ (n > m_end_[a] => Known(a))
  /\ LET S == Reserved(a, n)
     IN Become(a, IF n >= m_end_[a]
                  THEN ConstructAt(S, m_end_[a], [i \in 0..n - m_end_[a] - 1 |-> v])
                  ELSE Destruct(S, n, m_end_[a]), n)

(* assign(), operator= and the copy constructor.                           *)
Assign(a, b) ==
  /\ a # b /\ Known(b) /\ Reservable(a, m_end_[b])
  /\ Become(a, ConstructAt(Destruct(Reserved(a, m_end_[b]), 0, m_end_[a]), 0, Elements(b)), m_end_[b])

(* operator+=                                                              *)
AppendCopy(a, b) ==
  /\ a # b /\ Known(a) /\ Known(b) /\ m_end_[a] + m_end_[b] <= Capacity(a)
  /\ Become(a, ConstructAt(data[a], m_end_[a], Elements(b)), m_end_[a] + m_end_[b])

(* a takes what b holds, whose elements stay behind, moved from.           *)
TakeElements(a, b, S, end) ==
  /\ end + m_end_[b] <= Capacity(a)
  /\ data' = [data EXCEPT
       ![a] = ConstructAt(S, end, Elements(b)),
       ![b] = [i \in DOMAIN @ |-> IF i < m_end_[b] THEN MovedFrom(@, i)[i] ELSE @[i]]]
  /\ m_end_' = [m_end_ EXCEPT ![a] = end + m_end_[b]]

AppendMove(a, b) == a # b /\ Known(a) /\ Known(b) /\ TakeElements(a, b, data[a], m_end_[a])
AssignRangeMove(a, b) ==
  a # b /\ Known(b) /\ TakeElements(a, b, Destruct(data[a], 0, m_end_[a]), 0)

(* swap(), operator=(&&) and the move constructor exchange the storage.    *)
Swap(a, b) ==
  /\ data' = [data EXCEPT ![a] = data[b], ![b] = data[a]]
  /\ m_end_' = [m_end_ EXCEPT ![a] = m_end_[b], ![b] = m_end_[a]]

Next ==
  \E a \in Name :
    \/ PopBack(a) \/ Clear(a) \/ MakeHeap(a) \/ PopHeap(a) \/ Delete(a)
    \/ \E f \in [Value -> Value] : ForEach(a, f)
    \/ \E x \in [0..1 -> Value] : GenerateN(a, x)
    \/ \E v \in Value : PushBack(a, v) \/ PushHeap(a, v)
    \/ \E pos \in Index(a) \union {m_end_[a]} :
         \/ Erase(a, pos) \/ EraseUnordered(a, pos)
         \/ \E v \in Value : Insert(a, pos, v)
    \/ \E n \in Sizes : Reserve(a, n) \/ \E v \in Value : Resize(a, n, v)
    \/ \E P \in SUBSET Value : EraseIf(a, P) \/ EraseIfHeap(a, P)
    \/ \E b \in Name :
         \/ Assign(a, b) \/ AppendCopy(a, b)
         \/ AppendMove(a, b) \/ AssignRangeMove(a, b) \/ Swap(a, b)

Spec == Init /\ [][Next]_vars

-----------------------------------------------------------------------------
TypeOK ==
  /\ \A a \in Name :
       /\ m_end_[a] \in 0..Capacity(a)
       /\ data[a] \in [0..Capacity(a) - 1 -> Value \union {Moved, Raw, Fault}]

(* The slots before m_end_ hold living objects and the others hold none:   *)
(* every element is constructed once and destroyed once, whichever way it  *)
(* went through the array.                                                 *)
LifetimesHold ==
  \A a \in Name : \A i \in DOMAIN data[a] :
    IF i < m_end_[a] THEN Lives(data[a][i]) ELSE data[a][i] = Raw

Sequence(S, end) == [i \in 1..end |-> S[i - 1]]
Contents == [a \in Name |-> Sequence(data[a], m_end_[a])]
Abstract == INSTANCE Vectors WITH Array <- Name, items <- Contents

(* Each call that moves elements would do what it says, in every state in  *)
(* which it may be made: the heap calls make and keep heaps, pop_heap()    *)
(* takes the largest value, insert() and erase() keep the order.  (That    *)
(* the sequence may also come about by another call is not enough.)        *)
CallsKeepTheirWord ==
  \A a \in Name : Known(a) =>
    LET S == data[a]
        n == m_end_[a]
        s == Contents[a]
    IN /\ Abstract!MadeHeap(s, Sequence(MadeHeap(S, 0, n), n))
       /\ n > 0 /\ IsHeap(a) => Abstract!PoppedHeap(s, Sequence(PoppedHeap(S, n - 1), n - 1))
       /\ ~Full(a) => \A v \in Value :
            /\ Abstract!PushedHeap(s, v, Sequence(PushedHeap(S, n, v), n + 1))
            /\ \A pos \in Index(a) :
                 Abstract!Inserted(s, pos + 1, v, Sequence(Inserted(S, pos, n, v), n + 1))
       /\ \A pos \in Index(a) :
            /\ Abstract!Erased(s, pos + 1, Sequence(Erased(S, pos, n), n - 1))
            /\ Abstract!ErasedUnordered(
                 s, pos + 1, Sequence(ErasedUnordered(S, pos, n - 1), n - 1))
       /\ \A P \in SUBSET Value :
            /\ LET H == ErasedIf(S, n, P) IN Abstract!ErasedIf(s, P, Sequence(H[1], H[2]))
            /\ LET H == ErasedIfHeap(S, n, P)
               IN Erasable(a, P) => Abstract!ErasedIfHeap(s, P, Sequence(H[1], H[2]))

(* The arrays are sequences, of which no call loses or repeats a value.    *)
ArrayIsSequence == Abstract!VectorSpec /\ []CallsKeepTheirWord

=============================================================================
