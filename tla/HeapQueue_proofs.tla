-------------------------- MODULE HeapQueue_proofs --------------------------
(***************************************************************************)
(* Proofs about HeapQueue, for a heap of any capacity.                     *)
(***************************************************************************)
EXTENDS HeapQueue, TLAPS, WellFoundedInduction

(* The index arithmetic of a heap whose root is slot 0. *)
LEMMA ParentFacts ==
  ASSUME NEW i \in Nat \ {0}
  PROVE  /\ Parent(i) \in Nat
         /\ Parent(i) < i
         /\ i = Left(Parent(i)) \/ i = Right(Parent(i))
BY DEF Parent, Left, Right

LEMMA ParentInside ==
  ASSUME NEW n \in Nat, NEW i \in 1..(n - 1)
  PROVE  Parent(i) \in 0..(n - 1) /\ Parent(i) < i
BY DEF Parent

LEMMA ChildFacts ==
  ASSUME NEW i \in Nat
  PROVE  Parent(Left(i)) = i /\ Parent(Right(i)) = i
BY DEF Parent, Left, Right

(* A non-empty set of naturals has a least element. *)
LEMMA LeastElement ==
  ASSUME NEW S \in SUBSET Nat, S # {}
  PROVE  \E m \in S : \A k \in S : ~(k < m)
<1>1. IsWellFoundedOn(OpToRel(<, Nat), Nat)
  BY NatLessThanWellFounded
<1>2. PICK m \in S : \A k \in S : ~(<<k, m>> \in OpToRel(<, Nat))
  BY <1>1, WFMin
<1>3. \A k \in S : <<k, m>> \in OpToRel(<, Nat) <=> k < m
  BY DEF OpToRel
<1> QED BY <1>2, <1>3

-----------------------------------------------------------------------------
(* Type correctness.  A sift stays inside of the array, and the parent of  *)
(* a slot is a slot.                                                       *)
SiftBounds ==
  /\ pc = "sift_up" => node < heap_end /\ heap_end <= m_end_
  /\ pc = "sift_down" => node < m_end_
  /\ pc = "erase" => node <= m_end_

TInv == TypeOK /\ SiftBounds

LEMMA RisesInside ==
  ASSUME TInv, pc = "sift_up", node # 0
  PROVE  Parent(node) \in Slot /\ node \in Slot /\ Parent(node) < node
BY ParentFacts, CapacityAssumption DEF TInv, TypeOK, SiftBounds, Slot

LEMMA SinksInside ==
  ASSUME TInv, pc = "sift_down", Left(node) < m_end_
  PROVE  /\ LargerChild \in Slot /\ node \in Slot /\ node < LargerChild
         /\ Parent(LargerChild) = node
<1>1. node \in Slot
  BY CapacityAssumption DEF TInv, TypeOK, SiftBounds, Slot
<1>2. LargerChild \in {Left(node), Right(node)} /\ LargerChild < m_end_
  BY DEF LargerChild
<1>3. Parent(LargerChild) = node
  BY <1>1, <1>2, ChildFacts DEF Slot
<1> QED BY <1>1, <1>2, <1>3, CapacityAssumption
        DEF Left, Right, Slot, TInv, TypeOK

LEMMA SwapFacts ==
  ASSUME TypeOK, NEW i \in Slot, NEW j \in Slot, i # j
  PROVE  /\ Swap(i, j) \in [Slot -> Record]
         /\ Swap(i, j)[i] = m_tasks_[j] /\ Swap(i, j)[j] = m_tasks_[i]
         /\ \A k \in Slot \ {i, j} : Swap(i, j)[k] = m_tasks_[k]
BY DEF Swap, TypeOK

LEMMA EmptyArray ==
  ASSUME NEW h, h = [i \in {} |-> 0], NEW n, n = 0
  PROVE  h \in [0..(n - 1) -> Record]
<1>1. 0..(n - 1) = {}
  OBVIOUS
<1>2. h \in [{} -> Record]
  OBVIOUS
<1> QED BY <1>1, <1>2

LEMMA TInvInductive == TInv /\ [Next]_vars => TInv'
<1> SUFFICES ASSUME TInv, [Next]_vars PROVE TInv'
  OBVIOUS
<1> USE PriorityAssumption, CapacityAssumption, FunctorAssumption DEF TInv
<1>1. ASSUME NEW r \in Record, Push(r) PROVE TInv'
  BY <1>1 DEF Push, TypeOK, SiftBounds, Slot
<1>2. CASE Pop
  BY <1>2 DEF Pop, TypeOK, SiftBounds, Slot
<1>3. CASE SiftUp
  <2>1. m_tasks_' \in [Slot -> Record]
    BY <1>3, RisesInside, SwapFacts DEF SiftUp, MustRise, Slot
  <2> QED BY <1>3, <2>1, RisesInside
          DEF SiftUp, MustRise, TypeOK, SiftBounds, Slot
<1>4. CASE SiftUpDone
  BY <1>4 DEF SiftUpDone, TypeOK, SiftBounds, Slot
<1>5. CASE SiftDown
  <2>1. m_tasks_' \in [Slot -> Record]
    BY <1>5, SinksInside, SwapFacts DEF SiftDown, MustSink, Slot
  <2> QED BY <1>5, <2>1, SinksInside
          DEF SiftDown, MustSink, TypeOK, SiftBounds, Slot
<1>6. CASE SiftDownDone
  BY <1>6 DEF SiftDownDone, TypeOK, SiftBounds, Slot
<1>7. ASSUME NEW f \in Functors, EraseIf(f) PROVE TInv'
  BY <1>7 DEF EraseIf, TypeOK, SiftBounds, Slot
<1>8. ASSUME NEW p \in Priority, Keep(p) PROVE TInv'
  <2>1. m_tasks_' \in [Slot -> Record]
    BY <1>8 DEF Keep, TypeOK, SiftBounds, Slot, Record
  <2> QED BY <1>8, <2>1 DEF Keep, TypeOK, SiftBounds, Slot
<1>9. CASE Erase
  BY <1>9 DEF Erase, TypeOK, SiftBounds, Slot
<1>10. CASE EraseIfDone
  BY <1>10 DEF EraseIfDone, MakeHeap, TypeOK, SiftBounds, Slot
<1>11. CASE Clear
  <2>1. m_tasks_' \in [Slot' -> Record]
    BY <1>11, EmptyArray DEF Clear, Slot
  <2>2. /\ m_end_' = 0 /\ pc' = "idle"
        /\ UNCHANGED <<node, heap_end, functor, erased, popped>>
    BY <1>11 DEF Clear
  <2> QED BY <2>1, <2>2 DEF TypeOK, SiftBounds
<1>12. ASSUME NEW p \in [Slot -> Priority], ForEach(p) PROVE TInv'
  <2>1. m_tasks_' \in [Slot -> Record]
    BY <1>12 DEF ForEach, TypeOK, Slot, Record
  <2> QED BY <1>12, <2>1 DEF ForEach, MakeHeap, TypeOK, SiftBounds, Slot
<1>13. CASE UNCHANGED vars
  BY <1>13 DEF vars, TypeOK, SiftBounds, Slot
<1> QED
  BY <1>1, <1>2, <1>3, <1>4, <1>5, <1>6, <1>7, <1>8, <1>9, <1>10, <1>11,
     <1>12, <1>13
  DEF Next

LEMMA InitTInv == Init => TInv
<1> SUFFICES ASSUME Init PROVE TInv
  OBVIOUS
<1>1. m_tasks_ \in [Slot -> Record]
  BY EmptyArray DEF Init, Slot
<1>2. /\ m_end_ = 0 /\ pc = "idle" /\ node = 0 /\ heap_end = 0
      /\ functor = "reads" /\ erased = 0 /\ popped = {}
  BY DEF Init
<1> QED BY <1>1, <1>2, CapacityAssumption DEF TInv, TypeOK, SiftBounds

LEMMA SpecTInv == Spec => []TInv
BY InitTInv, TInvInductive, PTL DEF Spec

(* Every index a sift or an erase computes is inside of the array. *)
THEOREM HeapTypes == Spec => []TypeOK
<1>1. TInv => TypeOK
  BY DEF TInv
<1> QED BY <1>1, SpecTInv, PTL

-----------------------------------------------------------------------------
(* The heap property of an array f of priorities: the slots below n are a  *)
(* heap; a heap but for the value in slot k, which may be larger than its  *)
(* parent; or smaller than its children.  In both cases the children of k  *)
(* are in order with the parent of k.                                      *)

Heap(f, n) == \A i \in 1..(n - 1) : f[i] <= f[Parent(i)]

ChildrenBelowParentOf(f, n, k) ==
  k # 0 => \A i \in 1..(n - 1) : Parent(i) = k => f[i] <= f[Parent(k)]

HeapButUp(f, n, k) ==
  /\ \A i \in 1..(n - 1) : i # k => f[i] <= f[Parent(i)]
  /\ ChildrenBelowParentOf(f, n, k)

HeapButDown(f, n, k) ==
  /\ \A i \in 1..(n - 1) : Parent(i) # k => f[i] <= f[Parent(i)]
  /\ ChildrenBelowParentOf(f, n, k)

Swapped(f, g, S, i, j) ==
  g[i] = f[j] /\ g[j] = f[i] /\ \A k \in S \ {i, j} : g[k] = f[k]

(* The conditions only depend on the slots below n. *)
LEMMA HeapButUpCongruent ==
  ASSUME NEW n \in Nat, NEW f, NEW g, NEW k \in 0..(n - 1),
         \A i \in 0..(n - 1) : f[i] = g[i], HeapButUp(f, n, k)
  PROVE  HeapButUp(g, n, k)
<1>1. \A i \in 1..(n - 1) : i \in 0..(n - 1) /\ Parent(i) \in 0..(n - 1)
  BY ParentInside
<1>2. k # 0 => Parent(k) \in 0..(n - 1)
  BY <1>1
<1> QED BY <1>1, <1>2 DEF HeapButUp, ChildrenBelowParentOf

(* One iteration of the loop that sifts up. *)
LEMMA SiftUpHeap ==
  ASSUME NEW n \in Nat, NEW f \in [0..(n - 1) -> Nat],
         NEW g \in [0..(n - 1) -> Nat], NEW k \in 1..(n - 1),
         HeapButUp(f, n, k), f[Parent(k)] < f[k],
         Swapped(f, g, 0..(n - 1), Parent(k), k)
  PROVE  HeapButUp(g, n, Parent(k))
<1>0. PICK p \in 0..(n - 1) : p = Parent(k) /\ p < k
  BY ParentInside
<1>1. \A i \in 1..(n - 1) : Parent(i) \in 0..(n - 1) /\ Parent(i) < i
  BY ParentInside
<1>2. g[p] = f[k] /\ g[k] = f[p] /\ f[p] < f[k]
      /\ \A i \in 0..(n - 1) : i # p /\ i # k => g[i] = f[i]
  BY <1>0 DEF Swapped
<1>3. ASSUME NEW i \in 1..(n - 1), i # p
      PROVE  g[i] <= g[Parent(i)]
  <2>1. CASE i = k
    BY <1>0, <1>2, <2>1
  <2>2. CASE i # k /\ Parent(i) = p
    BY <1>0, <1>2, <1>3, <2>2 DEF HeapButUp
  <2>3. CASE i # k /\ Parent(i) = k
    BY <1>0, <1>2, <1>3, <2>3 DEF HeapButUp, ChildrenBelowParentOf
  <2>4. CASE i # k /\ Parent(i) # k /\ Parent(i) # p
    <3>1. f[i] <= f[Parent(i)]
      BY <2>4 DEF HeapButUp
    <3>2. g[i] = f[i]
      BY <1>2, <1>3, <2>4
    <3>3. g[Parent(i)] = f[Parent(i)]
      BY <1>1, <1>2, <2>4
    <3> QED BY <3>1, <3>2, <3>3
  <2> QED BY <2>1, <2>2, <2>3, <2>4
<1>4. ASSUME p # 0, NEW i \in 1..(n - 1), Parent(i) = p
      PROVE  g[i] <= g[Parent(p)]
  <2>1. PICK q \in 0..(n - 1) : q = Parent(p) /\ q < p /\ f[p] <= f[q]
    <3>1. p \in 1..(n - 1) /\ p # k
      BY <1>0, <1>4
    <3> QED BY <1>1, <3>1 DEF HeapButUp
  <2>2. g[q] = f[q]
    BY <1>0, <1>2, <2>1
  <2>3. CASE i = k
    BY <1>2, <2>1, <2>2, <2>3
  <2>4. CASE i # k
    <3>1. f[i] <= f[p] /\ g[i] = f[i]
      BY <1>1, <1>2, <1>4, <2>4 DEF HeapButUp
    <3>2. f[i] \in Nat /\ f[p] \in Nat /\ f[q] \in Nat
      BY <2>1
    <3> QED BY <2>1, <2>2, <3>1, <3>2
  <2> QED BY <2>3, <2>4
<1> QED BY <1>0, <1>3, <1>4 DEF HeapButUp, ChildrenBelowParentOf

(* The value is in place: one slot more is a heap. *)
LEMMA SiftUpEnds ==
  ASSUME NEW n \in Nat, NEW f, NEW k \in 0..(n - 1),
         HeapButUp(f, n, k), k # 0 => f[k] <= f[Parent(k)]
  PROVE  Heap(f, n) /\ HeapButUp(f, n + 1, n)
<1>1. Heap(f, n)
  BY DEF HeapButUp, Heap
<1>2. \A i \in 1..n : Parent(i) # n
  BY ParentFacts
<1> QED BY <1>1, <1>2 DEF HeapButUp, Heap, ChildrenBelowParentOf

(* One iteration of the loop that sifts down: c is the larger child of k. *)
LEMMA SiftDownHeap ==
  ASSUME NEW n \in Nat, NEW f \in [0..(n - 1) -> Nat],
         NEW g \in [0..(n - 1) -> Nat],
         NEW k \in 0..(n - 1), NEW c \in 1..(n - 1), Parent(c) = k, k < c,
         \A i \in 1..(n - 1) : Parent(i) = k => f[i] <= f[c],
         HeapButDown(f, n, k), f[k] < f[c],
         Swapped(f, g, 0..(n - 1), k, c)
  PROVE  HeapButDown(g, n, c)
<1>1. \A i \in 1..(n - 1) : Parent(i) \in 0..(n - 1) /\ Parent(i) < i
  BY ParentInside
<1>2. g[k] = f[c] /\ g[c] = f[k]
      /\ \A i \in 0..(n - 1) : i # c /\ i # k => g[i] = f[i]
  BY DEF Swapped
<1>3. ASSUME NEW i \in 1..(n - 1), Parent(i) # c
      PROVE  g[i] <= g[Parent(i)]
  <2>1. CASE Parent(i) = k /\ i = c
    BY <1>2, <2>1
  <2>2. CASE Parent(i) = k /\ i # c
    <3>1. i # k /\ f[i] <= f[c]
      BY <1>1, <2>2
    <3> QED BY <1>2, <2>2, <3>1
  <2>3. CASE i = k
    BY <1>1, <1>2, <1>3, <2>3 DEF HeapButDown, ChildrenBelowParentOf
  <2>4. CASE Parent(i) # k /\ i # k
    <3>1. f[i] <= f[Parent(i)]
      BY <2>4 DEF HeapButDown
    <3>2. i # c
      BY <2>4
    <3>3. g[i] = f[i]
      BY <1>2, <2>4, <3>2
    <3>4. g[Parent(i)] = f[Parent(i)]
      BY <1>1, <1>2, <1>3, <2>4
    <3> QED BY <3>1, <3>3, <3>4
  <2> QED BY <2>1, <2>2, <2>3, <2>4
<1>4. ASSUME NEW i \in 1..(n - 1), Parent(i) = c
      PROVE  g[i] <= g[Parent(c)]
  <2>1. i # c /\ i # k
    BY <1>1, <1>4
  <2>2. f[i] <= f[c]
    BY <1>4 DEF HeapButDown
  <2> QED BY <1>2, <2>1, <2>2
<1> QED BY <1>3, <1>4 DEF HeapButDown, ChildrenBelowParentOf

(* The root of a heap is its maximum: a least slot with a larger value     *)
(* would have a parent with a larger value.                                *)
LEMMA RootIsHighest ==
  ASSUME NEW n \in Nat, NEW f \in [0..(n - 1) -> Nat], Heap(f, n)
  PROVE  \A i \in 0..(n - 1) : f[i] <= f[0]
<1> DEFINE S == {i \in 0..(n - 1) : f[0] < f[i]}
<1>1. SUFFICES ASSUME S # {} PROVE FALSE
  OBVIOUS
<1>2. PICK m \in S : \A k \in S : ~(k < m)
  <2>1. S \in SUBSET Nat
    OBVIOUS
  <2> HIDE DEF S
  <2> QED BY <1>1, <2>1, LeastElement
<1>3. m \in 1..(n - 1) /\ f[0] < f[m]
  BY <1>2
<1>4. Parent(m) \in 0..(n - 1) /\ Parent(m) < m /\ f[m] <= f[Parent(m)]
  BY <1>3, ParentFacts DEF Heap
<1>5. Parent(m) \in S
  BY <1>3, <1>4
<1> QED BY <1>2, <1>4, <1>5

-----------------------------------------------------------------------------
(* The inductive invariant of the heap: which of the three conditions      *)
(* holds in which loop.                                                    *)
Prios == [i \in Slot |-> m_tasks_[i].priority]

HInv ==
  /\ TInv
  /\ pc = "idle" => Heap(Prios, m_end_)
  /\ pc = "sift_up" => HeapButUp(Prios, heap_end, node)
  /\ pc = "sift_down" => HeapButDown(Prios, m_end_, node)
  /\ pc = "erase" => functor = "reads" /\ (erased = 0 => Heap(Prios, m_end_))

LEMMA PriosType == TypeOK => Prios \in [Slot -> Nat]
BY PriorityAssumption DEF Prios, TypeOK, Record

LEMMA LessOrder ==
  ASSUME TypeOK, NEW i \in Slot, NEW j \in Slot, NEW k \in Slot
  PROVE  /\ Less(i, j) => ~Less(j, i)
         /\ ~Less(i, j) /\ ~Less(j, k) => ~Less(i, k)
<1>1. \A l \in Slot : m_tasks_[l].priority \in Nat
  BY PriorityAssumption DEF TypeOK, Record
<1>2. /\ m_tasks_[i].priority \in Nat /\ m_tasks_[j].priority \in Nat
      /\ m_tasks_[k].priority \in Nat
  BY <1>1
<1> QED BY <1>2 DEF Less

(* A swap of records is a swap of their priorities. *)
LEMMA SwapPrios ==
  ASSUME TypeOK, NEW i \in Slot, NEW j \in Slot, i # j,
         m_tasks_' = Swap(i, j), m_end_' = m_end_
  PROVE  Swapped(Prios, Prios', Slot, i, j)
<1>1. Slot' = Slot
  BY DEF Slot
<1> QED BY <1>1, SwapFacts DEF Prios, Swapped

(* An array of at most one slot is a heap, one of two slots is a heap but  *)
(* for the second.                                                         *)
LEMMA SmallHeaps ==
  ASSUME NEW f
  PROVE  /\ \A n \in {0, 1} : Heap(f, n)
         /\ HeapButUp(f, 2, 1)
<1>1. \A i \in 1..1 : Parent(i) # 1
  BY DEF Parent
<1> QED BY <1>1 DEF Heap, HeapButUp, ChildrenBelowParentOf

LEMMA HInvInductive ==
  ASSUME Functors \subseteq {"reads"}, HInv, [Next]_vars
  PROVE  HInv'
<1> USE CapacityAssumption
<1>0. /\ TInv /\ TypeOK /\ SiftBounds /\ m_end_ \in Nat /\ TInv' /\ TypeOK'
      /\ Prios \in [Slot -> Nat] /\ Prios' \in [Slot' -> Nat]
  <2>1. TInv /\ TInv'
    BY TInvInductive DEF HInv
  <2>2. TypeOK'
    BY <2>1 DEF TInv
  <2>3. Prios' \in [Slot' -> Nat]
    BY <2>2, PriorityAssumption DEF Prios, TypeOK, Record
  <2> QED BY <2>1, <2>2, <2>3, PriosType DEF TInv, TypeOK
<1>1. ASSUME NEW r \in Record, Push(r) PROVE HInv'
  <2>1. \A i \in 1..(m_end_ - 1) :
           Prios'[i] = Prios[i] /\ Prios'[Parent(i)] = Prios[Parent(i)]
    BY <1>0, <1>1, ParentInside DEF Push, Prios, Slot
  <2>2. Heap(Prios, m_end_)
    BY <1>1 DEF HInv, Push
  <2>3. HeapButUp(Prios', m_end_ + 1, m_end_)
    <3>1. \A i \in 1..m_end_ : Parent(i) # m_end_
      BY <1>0, ParentFacts
    <3> QED BY <1>0, <2>1, <2>2, <3>1
            DEF Heap, HeapButUp, ChildrenBelowParentOf
  <2>4. pc' = "sift_up" /\ node' = m_end_ /\ heap_end' = m_end_ + 1
    BY <1>1 DEF Push
  <2> QED BY <1>0, <2>3, <2>4 DEF HInv
<1>2. CASE Pop
  <2>1. pc = "idle" /\ m_end_ # 0 /\ m_end_' = m_end_ - 1 /\ Heap(Prios, m_end_)
    BY <1>2 DEF Pop, HInv
  <2>2. CASE m_end_ = 1
    BY <1>0, <1>2, <2>1, <2>2, SmallHeaps DEF Pop, HInv
  <2>3. CASE m_end_ # 1
    <3>1. pc' = "sift_down" /\ node' = 0
      BY <1>2, <2>3 DEF Pop
    <3>2. \A i \in 1..(m_end_ - 2) : Prios'[i] = Prios[i]
      BY <1>0, <1>2, <2>1 DEF Pop, Prios, Slot
    <3>3. \A i \in 1..(m_end_ - 2) :
            Parent(i) # 0 => Prios'[i] <= Prios'[Parent(i)]
      <4> TAKE i \in 1..(m_end_ - 2)
      <4> SUFFICES ASSUME Parent(i) # 0 PROVE Prios'[i] <= Prios'[Parent(i)]
        OBVIOUS
      <4>1. /\ i \in 1..(m_end_ - 1) /\ m_end_ - 1 \in Nat
            /\ i \in 1..((m_end_ - 1) - 1)
        BY <1>0, <2>1
      <4>2. Parent(i) \in 0..((m_end_ - 1) - 1)
        BY <4>1, ParentInside
      <4>3. Parent(i) \in 1..(m_end_ - 2)
        BY <1>0, <4>2
      <4> QED BY <2>1, <3>2, <4>1, <4>3 DEF Heap
    <3>4. HeapButDown(Prios', m_end_', 0)
      BY <1>0, <2>1, <3>3 DEF HeapButDown, ChildrenBelowParentOf
    <3> QED BY <1>0, <3>1, <3>4 DEF HInv
  <2> QED BY <2>2, <2>3
<1>3. CASE SiftUp
  <2>1. /\ pc = "sift_up" /\ pc' = pc /\ heap_end' = heap_end
        /\ m_end_' = m_end_ /\ node' = Parent(node) /\ node # 0
        /\ m_tasks_' = Swap(Parent(node), node)
        /\ Less(Parent(node), node) /\ HeapButUp(Prios, heap_end, node)
    BY <1>3 DEF SiftUp, MustRise, HInv
  <2>2. Parent(node) \in Slot /\ node \in Slot /\ Parent(node) < node
    BY <1>0, <2>1, RisesInside
  <2>3. Swapped(Prios, Prios', Slot, Parent(node), node)
    BY <1>0, <2>1, <2>2, SwapPrios DEF Slot
  <2>4. Prios[Parent(node)] < Prios[node]
    BY <2>1, <2>2 DEF Less, Prios
  <2>5. /\ heap_end \in Nat /\ node \in 1..(heap_end - 1)
        /\ 0..(heap_end - 1) \subseteq Slot /\ Slot' = Slot
        /\ Parent(node) \in 0..(heap_end - 1)
    BY <1>0, <2>1, <2>2 DEF SiftBounds, TypeOK, Slot
  <2>6. PICK f, g : /\ f = [i \in 0..(heap_end - 1) |-> Prios[i]]
                    /\ g = [i \in 0..(heap_end - 1) |-> Prios'[i]]
    OBVIOUS
  <2>7. /\ f \in [0..(heap_end - 1) -> Nat] /\ g \in [0..(heap_end - 1) -> Nat]
        /\ Swapped(f, g, 0..(heap_end - 1), Parent(node), node)
        /\ f[Parent(node)] < f[node]
    BY <1>0, <2>3, <2>4, <2>5, <2>6 DEF Swapped
  <2>8. HeapButUp(f, heap_end, node)
    BY <2>1, <2>5, <2>6, HeapButUpCongruent
  <2>9. HeapButUp(g, heap_end, Parent(node))
    BY <2>5, <2>7, <2>8, SiftUpHeap
  <2>10. HeapButUp(Prios', heap_end, Parent(node))
    <3>1. \A i \in 0..(heap_end - 1) : g[i] = Prios'[i]
      BY <2>6
    <3> QED BY <2>5, <2>9, <3>1, HeapButUpCongruent
  <2> QED BY <1>0, <2>1, <2>10 DEF HInv
<1>4. CASE SiftUpDone
  <2>1. /\ pc = "sift_up" /\ UNCHANGED <<m_tasks_, m_end_>>
        /\ node # 0 => ~Less(Parent(node), node)
        /\ HeapButUp(Prios, heap_end, node)
    BY <1>4 DEF SiftUpDone, MustRise, HInv
  <2>2. heap_end \in Nat /\ node \in 0..(heap_end - 1) /\ heap_end <= m_end_
    BY <1>0, <2>1 DEF SiftBounds, TypeOK
  <2>3. node # 0 => Prios[node] <= Prios[Parent(node)]
    <3>1. node # 0 => Parent(node) \in Slot /\ node \in Slot
      BY <1>0, <2>1, RisesInside
    <3> QED BY <1>0, <2>1, <3>1 DEF Less, Prios
  <2>4. Heap(Prios, heap_end) /\ HeapButUp(Prios, heap_end + 1, heap_end)
    BY <2>1, <2>2, <2>3, SiftUpEnds
  <2>5. Prios' = Prios
    BY <2>1 DEF Prios, Slot
  <2>6. CASE heap_end < m_end_
    BY <1>0, <1>4, <2>1, <2>4, <2>5, <2>6 DEF SiftUpDone, HInv
  <2>7. CASE ~(heap_end < m_end_)
    <3>1. heap_end = m_end_
      BY <1>0, <2>2, <2>7
    <3> QED BY <1>0, <1>4, <2>1, <2>4, <2>5, <2>7, <3>1 DEF SiftUpDone, HInv
  <2> QED BY <2>6, <2>7
<1>5. CASE SiftDown
  <2>1. /\ pc = "sift_down" /\ pc' = pc /\ m_end_' = m_end_
        /\ node' = LargerChild /\ m_tasks_' = Swap(node, LargerChild)
        /\ Left(node) < m_end_ /\ Less(node, LargerChild)
        /\ HeapButDown(Prios, m_end_, node)
    BY <1>5 DEF SiftDown, MustSink, HInv
  <2>2. PICK c : c = LargerChild
    OBVIOUS
  <2>3. /\ c \in Slot /\ node \in Slot /\ node < c /\ Parent(c) = node
    BY <1>0, <2>1, <2>2, SinksInside
  <2>4. Swapped(Prios, Prios', Slot, node, c)
    <3>1. node # c /\ m_tasks_' = Swap(node, c)
      BY <1>0, <2>1, <2>2, <2>3 DEF Slot
    <3> QED BY <1>0, <2>1, <2>3, <3>1, SwapPrios
  <2>5. Prios[node] < Prios[c]
    BY <2>1, <2>2, <2>3 DEF Less, Prios
  <2>6. ASSUME NEW i \in 1..(m_end_ - 1), Parent(i) = node
        PROVE  Prios[i] <= Prios[c]
    <3>1. i \in Slot /\ i \in {Left(node), Right(node)}
      BY <1>0, <2>6, ParentFacts DEF Slot
    <3>2. Left(node) \in Slot
      BY <1>0, <2>1, <2>3 DEF Left, Slot
    <3>3. CASE Right(node) < m_end_ /\ Less(Left(node), Right(node))
      <4>1. Right(node) \in Slot
        BY <1>0, <2>3, <3>3 DEF Left, Right, Slot
      <4>2. c = Right(node) /\ Prios[Left(node)] < Prios[Right(node)]
        BY <2>2, <3>2, <3>3, <4>1 DEF LargerChild, Less, Prios
      <4>3. Prios[Left(node)] \in Nat /\ Prios[c] \in Nat
        BY <1>0, <3>2, <4>1, <4>2
      <4>4. CASE i = Left(node)
        BY <4>2, <4>3, <4>4
      <4>5. CASE i = Right(node)
        BY <4>2, <4>3, <4>5
      <4> QED BY <3>1, <4>4, <4>5
    <3>4. CASE ~(Right(node) < m_end_ /\ Less(Left(node), Right(node)))
      <4>1. c = Left(node)
        BY <2>2, <3>4 DEF LargerChild
      <4>2. CASE i = Left(node)
        BY <1>0, <3>1, <4>1, <4>2
      <4>3. CASE i = Right(node)
        <5>1. Right(node) < m_end_
          BY <1>0, <2>6, <4>3
        <5>2. ~(m_tasks_[c].priority < m_tasks_[i].priority)
          BY <3>4, <4>1, <4>3, <5>1 DEF Less
        <5>3. ~(Prios[c] < Prios[i])
          BY <2>3, <3>1, <5>2 DEF Prios
        <5> QED BY <1>0, <2>3, <3>1, <5>3
      <4> QED BY <3>1, <4>2, <4>3
    <3> QED BY <3>3, <3>4
  <2>7. node \in 0..(m_end_ - 1) /\ c \in 1..(m_end_ - 1) /\ Slot' = Slot
    BY <1>0, <2>1, <2>3 DEF Slot
  <2>8. HeapButDown(Prios', m_end_, c)
    <3>1. Prios \in [0..(m_end_ - 1) -> Nat] /\ Prios' \in [0..(m_end_ - 1) -> Nat]
      BY <1>0, <2>7 DEF Slot
    <3>2. Swapped(Prios, Prios', 0..(m_end_ - 1), node, c)
      BY <2>4 DEF Slot
    <3> QED BY <1>0, <2>1, <2>3, <2>5, <2>6, <2>7, <3>1, <3>2, SiftDownHeap
  <2> QED BY <1>0, <2>1, <2>2, <2>8 DEF HInv
<1>6. CASE SiftDownDone
  <2>1. /\ pc = "sift_down" /\ pc' = "idle" /\ UNCHANGED <<m_tasks_, m_end_>>
        /\ Left(node) < m_end_ => ~Less(node, LargerChild)
        /\ HeapButDown(Prios, m_end_, node)
    BY <1>6 DEF SiftDownDone, MustSink, HInv
  <2>2. node \in Slot
    BY <1>0, <2>1 DEF SiftBounds, TypeOK, Slot
  <2>3. ASSUME NEW i \in 1..(m_end_ - 1)
        PROVE  Prios[i] <= Prios[Parent(i)]
    <3>1. CASE Parent(i) # node
      BY <2>1, <3>1 DEF HeapButDown
    <3>2. CASE Parent(i) = node
      <4>1. i \in Slot /\ i \in {Left(node), Right(node)} /\ Left(node) \in Slot
        <5>1. i \in Nat \ {0} /\ i \in Slot
          BY <1>0 DEF Slot
        <5>2. i = Left(node) \/ i = Right(node)
          BY <3>2, <5>1, ParentFacts
        <5> QED BY <1>0, <2>2, <5>1, <5>2 DEF Slot, Left, Right
      <4>2. ~Less(node, LargerChild)
        BY <1>0, <2>1, <4>1 DEF Slot
      <4>3. ~Less(node, Left(node))
        <5>1. CASE LargerChild = Left(node)
          BY <4>2, <5>1
        <5>2. CASE LargerChild # Left(node)
          <6>1. /\ LargerChild = Right(node) /\ Right(node) < m_end_
                /\ Less(Left(node), Right(node))
            BY <5>2 DEF LargerChild
          <6>2. Right(node) \in Slot
            BY <1>0, <2>2, <6>1 DEF Slot, Left, Right
          <6> QED BY <1>0, <2>2, <4>1, <4>2, <6>1, <6>2, LessOrder
        <5> QED BY <5>1, <5>2
      <4>4. i = Right(node) => ~Less(node, i)
        <5>1. SUFFICES ASSUME i = Right(node) PROVE ~Less(node, i)
          OBVIOUS
        <5>2. Right(node) < m_end_
          BY <1>0, <5>1
        <5>3. CASE LargerChild = Right(node)
          BY <4>2, <5>1, <5>3
        <5>4. CASE LargerChild # Right(node)
          <6>1. ~Less(Left(node), i)
            BY <5>1, <5>2, <5>4 DEF LargerChild
          <6> QED BY <1>0, <2>2, <4>1, <4>3, <6>1, LessOrder
        <5> QED BY <5>3, <5>4
      <4>5. ~Less(node, i)
        BY <4>1, <4>3, <4>4
      <4>6. ~(Prios[node] < Prios[i])
        BY <2>2, <4>1, <4>5 DEF Less, Prios
      <4> QED BY <1>0, <2>2, <3>2, <4>1, <4>6
    <3> QED BY <3>1, <3>2
  <2>4. Prios' = Prios
    BY <2>1 DEF Prios, Slot
  <2> QED BY <1>0, <2>1, <2>3, <2>4 DEF HInv, Heap
<1>7. ASSUME NEW f \in Functors, EraseIf(f) PROVE HInv'
  <2>1. Prios' = Prios
    BY <1>7 DEF EraseIf, Prios, Slot
  <2> QED BY <1>0, <1>7, <2>1 DEF EraseIf, HInv
<1>8. ASSUME NEW p \in Priority, Keep(p) PROVE HInv'
  <2>1. /\ pc = "erase" /\ functor = "reads" /\ pc' = pc /\ functor' = functor
        /\ erased' = erased /\ m_end_' = m_end_
        /\ m_tasks_' = [m_tasks_ EXCEPT ![node - 1].priority
                                        = m_tasks_[node - 1].priority]
    BY <1>8 DEF Keep, HInv
  <2>2. Prios' = Prios
    BY <1>0, <2>1 DEF Prios, Slot, TypeOK, Record
  <2> QED BY <1>0, <2>1, <2>2 DEF HInv
<1>9. CASE Erase
  BY <1>0, <1>9 DEF Erase, HInv, TypeOK
<1>10. CASE EraseIfDone
  <2>1. Prios' = Prios /\ m_end_' = m_end_ /\ pc = "erase"
    BY <1>10 DEF EraseIfDone, Prios, Slot
  <2>2. CASE m_end_ > 1 /\ erased # 0
    BY <1>0, <1>10, <2>2, SmallHeaps DEF EraseIfDone, MakeHeap, HInv
  <2>3. CASE ~(m_end_ > 1) /\ erased # 0
    <3>1. m_end_ \in {0, 1}
      BY <1>0, <2>3
    <3> QED BY <1>0, <1>10, <2>1, <2>3, <3>1, SmallHeaps
            DEF EraseIfDone, MakeHeap, HInv
  <2>4. CASE erased = 0
    BY <1>0, <1>10, <2>1, <2>4 DEF EraseIfDone, HInv
  <2> QED BY <2>2, <2>3, <2>4
<1>11. CASE Clear
  <2>1. pc' = "idle" /\ m_end_' = 0
    BY <1>11 DEF Clear
  <2> QED BY <1>0, <2>1, SmallHeaps DEF HInv
<1>12. ASSUME NEW p \in [Slot -> Priority], ForEach(p) PROVE HInv'
  <2>1. m_end_' = m_end_ /\ MakeHeap(m_end_)
    BY <1>12 DEF ForEach
  <2>2. CASE m_end_ > 1
    BY <1>0, <2>1, <2>2, SmallHeaps DEF MakeHeap, HInv
  <2>3. CASE ~(m_end_ > 1)
    <3>1. m_end_ \in {0, 1}
      BY <1>0, <2>3
    <3> QED BY <1>0, <2>1, <2>3, <3>1, SmallHeaps DEF MakeHeap, HInv
  <2> QED BY <2>2, <2>3
<1>13. CASE UNCHANGED vars
  <2>1. Prios' = Prios
    BY <1>13 DEF vars, Prios, Slot
  <2> QED BY <1>0, <1>13, <2>1 DEF vars, HInv
<1> QED
  BY <1>1, <1>2, <1>3, <1>4, <1>5, <1>6, <1>7, <1>8, <1>9, <1>10, <1>11,
     <1>12, <1>13
  DEF Next

LEMMA SpecHInv ==
  ASSUME Functors \subseteq {"reads"}
  PROVE  Spec => []HInv
<1>1. Init => HInv
  <2> SUFFICES ASSUME Init PROVE HInv
    OBVIOUS
  <2>1. TInv
    BY InitTInv
  <2>2. pc = "idle" /\ m_end_ = 0
    BY DEF Init
  <2> QED BY <2>1, <2>2, SmallHeaps DEF HInv
<1>2. HInv /\ [Next]_vars => HInv'
  BY HInvInductive
<1> QED BY <1>1, <1>2, PTL DEF Spec

(* Between two calls the array is a heap, whatever was pushed, popped,     *)
(* erased and reprioritized by for_each before, provided that the functors *)
(* of erase_if leave the priorities alone.                                 *)
THEOREM HeapBetweenCalls ==
  ASSUME Functors \subseteq {"reads"}
  PROVE  Spec => []HeapWhenIdle
<1>1. HInv => HeapWhenIdle
  <2> SUFFICES ASSUME HInv, pc = "idle", NEW i \in Slot \ {0}
               PROVE  ~Less(Parent(i), i)
    BY DEF HeapWhenIdle
  <2>1. TypeOK /\ m_end_ \in Nat /\ Heap(Prios, m_end_) /\ i \in 1..(m_end_ - 1)
    BY DEF HInv, TInv, TypeOK, Slot
  <2>2. Parent(i) \in Slot
    BY <2>1, ParentInside DEF Slot
  <2>3. Prios[i] <= Prios[Parent(i)] /\ Prios \in [Slot -> Nat]
    BY <2>1, PriosType DEF Heap
  <2>4. ~(Prios[Parent(i)] < Prios[i])
    BY <2>2, <2>3
  <2> QED BY <2>2, <2>4 DEF Less, Prios
<1> QED BY <1>1, SpecHInv, PTL

(* The record that is dequeued next has the highest priority. *)
THEOREM HighestFirst ==
  ASSUME Functors \subseteq {"reads"}
  PROVE  Spec => []FrontIsHighest
<1>1. HInv => FrontIsHighest
  <2> SUFFICES ASSUME HInv, pc = "idle", NEW i \in Slot
               PROVE  ~Less(0, i)
    BY DEF FrontIsHighest
  <2>1. /\ TypeOK /\ m_end_ \in Nat /\ Heap(Prios, m_end_)
        /\ Prios \in [0..(m_end_ - 1) -> Nat]
    BY PriosType DEF HInv, TInv, TypeOK, Slot
  <2>2. i \in 0..(m_end_ - 1) /\ 0 \in Slot /\ Prios[i] <= Prios[0]
    <3>1. i \in 0..(m_end_ - 1) /\ 0 \in Slot
      BY <2>1 DEF Slot
    <3> QED BY <2>1, <3>1, RootIsHighest
  <2>3. ~(Prios[0] < Prios[i])
    BY <2>1, <2>2 DEF Slot
  <2> QED BY <2>2, <2>3 DEF Less, Prios
<1> QED BY <1>1, SpecHInv, PTL

-----------------------------------------------------------------------------
(* Refinement: HeapQueue implements PriorityPool.  What the set of records *)
(* does not tell from the array is which slot a record is in, so every     *)
(* move is invisible as long as no two slots have the same record.         *)
DistinctIds ==
  \A i, j \in Slot : m_tasks_[i].id = m_tasks_[j].id => i = j

(* The records of two arrays, one of which is a permutation of the other.  *)
LEMMA SwapKeepsRecords ==
  ASSUME TypeOK, DistinctIds, NEW i \in Slot, NEW j \in Slot, i # j,
         m_tasks_' = Swap(i, j), m_end_' = m_end_
  PROVE  DistinctIds' /\ Queued' = Queued
<1>1. Slot' = Slot
  BY DEF Slot
<1>2. /\ m_tasks_'[i] = m_tasks_[j] /\ m_tasks_'[j] = m_tasks_[i]
      /\ \A k \in Slot \ {i, j} : m_tasks_'[k] = m_tasks_[k]
  BY SwapFacts
<1>3. DistinctIds'
  BY <1>1, <1>2 DEF DistinctIds
<1>4. Queued' = Queued
  BY <1>1, <1>2 DEF Queued
<1> QED BY <1>3, <1>4

(* The last slot takes the place of slot k: the record in k is gone.       *)
LEMMA FillFromLast ==
  ASSUME TypeOK, DistinctIds, m_end_ # 0, NEW k \in Slot,
         m_end_' = m_end_ - 1,
         m_tasks_' = [i \in 0..(m_end_ - 2) |->
                        IF i = k THEN m_tasks_[m_end_ - 1] ELSE m_tasks_[i]]
  PROVE  DistinctIds' /\ Queued' = Queued \ {m_tasks_[k]}
<1>1. /\ Slot' = 0..(m_end_ - 2) /\ m_end_ \in Nat
      /\ m_end_ - 1 \in Slot /\ Slot = Slot' \union {m_end_ - 1}
      /\ m_end_ - 1 \notin Slot'
  BY CapacityAssumption DEF Slot, TypeOK
<1>2. \A i \in Slot' : m_tasks_'[i] = IF i = k THEN m_tasks_[m_end_ - 1] ELSE m_tasks_[i]
  BY <1>1
<1>3. DistinctIds'
  BY <1>1, <1>2 DEF DistinctIds
<1>4. \A i \in Slot : i # k => m_tasks_[i] # m_tasks_[k]
  BY DEF DistinctIds
<1>5. Queued' \subseteq Queued \ {m_tasks_[k]}
  BY <1>1, <1>2, <1>4 DEF Queued
<1>6. ASSUME NEW i \in Slot, i # k PROVE m_tasks_[i] \in Queued'
  <2>1. CASE i = m_end_ - 1
    <3>1. k \in Slot' /\ m_tasks_'[k] = m_tasks_[i]
      BY <1>1, <1>2, <1>6, <2>1
    <3> QED BY <3>1 DEF Queued
  <2>2. CASE i # m_end_ - 1
    <3>1. i \in Slot' /\ m_tasks_'[i] = m_tasks_[i]
      BY <1>1, <1>2, <1>6, <2>2
    <3> QED BY <3>1 DEF Queued
  <2> QED BY <2>1, <2>2
<1> QED BY <1>3, <1>5, <1>6 DEF Queued

(* A step after which every record has the identity of an old one.         *)
LEMMA IsRevision ==
  ASSUME TypeOK', DistinctIds', popped' = popped,
         \A i \in Slot' : \E j \in Slot : m_tasks_'[i].id = m_tasks_[j].id
  PROVE  Pool!Revise
<1>1. Queued' \subseteq [id : Pool!Ids(Queued), priority : Priority]
  <2> SUFFICES ASSUME NEW i \in Slot'
               PROVE  m_tasks_'[i] \in [id : Pool!Ids(Queued), priority : Priority]
    BY DEF Queued
  <2>1. m_tasks_'[i] \in Record
    BY DEF TypeOK
  <2>2. m_tasks_'[i].id \in Pool!Ids(Queued)
    BY DEF Pool!Ids, Queued
  <2> QED BY <2>1, <2>2 DEF Record
<1>2. \A r, s \in Queued' : r.id = s.id => r = s
  BY DEF Queued, DistinctIds
<1> QED BY <1>1, <1>2 DEF Pool!Revise

(* What a step does to the records: nothing, when a sift moves them.       *)
LEMMA NextRecords ==
  ASSUME TInv, DistinctIds, [Next]_vars
  PROVE  /\ DistinctIds'
         /\ HInv => [Pool!PoolNext]_(Pool!poolVars)
         /\ pc \in {"sift_up", "sift_down"} => Queued' = Queued
         /\ pc = "erase" /\ m_end_' # m_end_ => Queued' = Queued \ {m_tasks_[node - 1]}
<1> USE CapacityAssumption
<1>0. TInv /\ TypeOK /\ TInv' /\ TypeOK' /\ m_end_ \in Nat
  <2>1. TInv /\ TInv'
    BY TInvInductive
  <2> QED BY <2>1 DEF TInv, TypeOK
<1> DEFINE Goal == /\ DistinctIds'
                   /\ HInv => [Pool!PoolNext]_(Pool!poolVars)
                   /\ pc \in {"sift_up", "sift_down"} => Queued' = Queued
                   /\ pc = "erase" /\ m_end_' # m_end_ =>
                        Queued' = Queued \ {m_tasks_[node - 1]}
<1>1. ASSUME UNCHANGED <<m_tasks_, m_end_, popped>> PROVE Goal
  <2>1. Queued' = Queued /\ DistinctIds'
    BY <1>1 DEF Queued, DistinctIds, Slot
  <2> QED BY <1>1, <2>1 DEF Pool!poolVars
<1>2. ASSUME NEW r \in Record, Push(r) PROVE Goal
  <2>1. /\ pc = "idle" /\ popped' = popped /\ Slot' = Slot \union {m_end_} /\ m_end_ \notin Slot
        /\ \A i \in Slot : m_tasks_[i].id # r.id
        /\ \A i \in Slot : m_tasks_'[i] = m_tasks_[i]
        /\ m_tasks_'[m_end_] = r
    BY <1>0, <1>2 DEF Push, Slot
  <2>2. Queued' = Queued \union {r} /\ r.id \notin Pool!Ids(Queued)
    BY <2>1 DEF Queued, Pool!Ids
  <2>3. DistinctIds'
    BY <2>1 DEF DistinctIds
  <2>4. Pool!Add(r) /\ r \in Pool!Record
    BY <2>1, <2>2 DEF Pool!Add, Pool!Record, Record
  <2> QED BY <2>1, <2>3, <2>4 DEF Pool!PoolNext
<1>3. CASE Pop
  <2>1. /\ pc = "idle" /\ m_end_ # 0 /\ 0 \in Slot /\ popped' = {m_tasks_[0]}
        /\ m_end_' = m_end_ - 1
        /\ m_tasks_' = [i \in 0..(m_end_ - 2) |->
                          IF i = 0 THEN m_tasks_[m_end_ - 1] ELSE m_tasks_[i]]
    BY <1>0, <1>3 DEF Pop, Slot
  <2>2. DistinctIds' /\ Queued' = Queued \ {m_tasks_[0]}
    BY <1>0, <2>1, FillFromLast
  <2>3. HInv => \A i \in Slot : m_tasks_[i].priority <= m_tasks_[0].priority
    <3> SUFFICES ASSUME HInv
                 PROVE  \A i \in Slot : m_tasks_[i].priority <= m_tasks_[0].priority
      OBVIOUS
    <3>1. Prios \in [0..(m_end_ - 1) -> Nat] /\ Heap(Prios, m_end_)
      BY <1>0, <2>1, PriosType DEF HInv, Slot
    <3>2. \A i \in 0..(m_end_ - 1) : Prios[i] <= Prios[0]
      BY <1>0, <3>1, RootIsHighest
    <3> QED BY <2>1, <3>2 DEF Prios, Slot
  <2>4. HInv => Pool!TakeHighest(m_tasks_[0])
    BY <2>1, <2>2, <2>3 DEF Pool!TakeHighest, Queued
  <2>5. m_tasks_[0] \in Pool!Record
    BY <1>0, <2>1 DEF TypeOK, Record, Pool!Record
  <2> QED BY <2>1, <2>2, <2>4, <2>5 DEF Pool!PoolNext
<1>4. CASE SiftUp
  <2>1. /\ pc = "sift_up" /\ node # 0 /\ m_end_' = m_end_ /\ popped' = popped
        /\ m_tasks_' = Swap(Parent(node), node)
    BY <1>4 DEF SiftUp, MustRise
  <2>2. /\ Parent(node) \in Slot /\ node \in Slot /\ Parent(node) # node
    BY <1>0, <2>1, RisesInside DEF Slot
  <2>3. DistinctIds' /\ Queued' = Queued
    BY <1>0, <2>1, <2>2, SwapKeepsRecords
  <2> QED BY <2>1, <2>3 DEF Pool!poolVars
<1>5. CASE SiftDown
  <2>1. /\ pc = "sift_down" /\ Left(node) < m_end_ /\ m_end_' = m_end_
        /\ popped' = popped /\ m_tasks_' = Swap(node, LargerChild)
    BY <1>5 DEF SiftDown, MustSink
  <2>2. LargerChild \in Slot /\ node \in Slot /\ node # LargerChild
    BY <1>0, <2>1, SinksInside DEF Slot
  <2>3. DistinctIds' /\ Queued' = Queued
    BY <1>0, <2>1, <2>2, SwapKeepsRecords
  <2> QED BY <2>1, <2>3 DEF Pool!poolVars
<1>6. CASE \/ SiftUpDone \/ SiftDownDone \/ EraseIfDone \/ UNCHANGED vars
           \/ \E f \in Functors : EraseIf(f)
  BY <1>1, <1>6 DEF SiftUpDone, SiftDownDone, EraseIfDone, EraseIf, vars
<1>7. ASSUME NEW p \in Priority, Keep(p) PROVE Goal
  <2>1. /\ pc = "erase" /\ m_end_' = m_end_ /\ popped' = popped /\ Slot' = Slot
        /\ m_tasks_' = [m_tasks_ EXCEPT ![node - 1].priority = p]
    BY <1>7 DEF Keep, Slot
  <2>2. \A i \in Slot : m_tasks_'[i].id = m_tasks_[i].id
    BY <1>0, <2>1 DEF TypeOK, Record
  <2>3. DistinctIds'
    BY <2>1, <2>2 DEF DistinctIds
  <2>4. Pool!Revise
    BY <1>0, <2>1, <2>2, <2>3, IsRevision
  <2> QED BY <2>1, <2>3, <2>4 DEF Pool!PoolNext
<1>8. CASE Erase
  <2>1. /\ pc = "erase" /\ node # 0 /\ m_end_' = m_end_ - 1 /\ popped' = popped
        /\ m_tasks_' = [i \in 0..(m_end_ - 2) |->
                          IF i = node - 1 THEN m_tasks_[m_end_ - 1] ELSE m_tasks_[i]]
    BY <1>8 DEF Erase
  <2>2. m_end_ # 0 /\ node - 1 \in Slot
    BY <1>0, <2>1 DEF TInv, TypeOK, SiftBounds, Slot
  <2>3. DistinctIds' /\ Queued' = Queued \ {m_tasks_[node - 1]}
    BY <1>0, <2>1, <2>2, FillFromLast
  <2>4. \A i \in Slot' : \E j \in Slot : m_tasks_'[i].id = m_tasks_[j].id
    <3>1. \A i \in Slot' : m_tasks_'[i] \in Queued
      BY <2>3 DEF Queued
    <3> QED BY <3>1 DEF Queued
  <2>5. Pool!Revise
    BY <1>0, <2>1, <2>3, <2>4, IsRevision
  <2> QED BY <2>1, <2>3, <2>5 DEF Pool!PoolNext
<1>9. CASE Clear
  <2>1. pc = "idle" /\ Slot' = {} /\ popped' = popped
    BY <1>9 DEF Clear, Slot
  <2>2. DistinctIds'
    BY <2>1 DEF DistinctIds
  <2>3. Pool!Revise
    BY <1>0, <2>1, <2>2, IsRevision
  <2> QED BY <2>1, <2>2, <2>3 DEF Pool!PoolNext
<1>10. ASSUME NEW p \in [Slot -> Priority], ForEach(p) PROVE Goal
  <2>1. /\ pc = "idle" /\ popped' = popped /\ Slot' = Slot
        /\ \A i \in Slot : m_tasks_'[i].id = m_tasks_[i].id
    BY <1>0, <1>10 DEF ForEach, Slot, TypeOK, Record
  <2>2. DistinctIds'
    BY <2>1 DEF DistinctIds
  <2>3. Pool!Revise
    BY <1>0, <2>1, <2>2, IsRevision
  <2> QED BY <2>1, <2>2, <2>3 DEF Pool!PoolNext
<1> QED BY <1>2, <1>3, <1>4, <1>5, <1>6, <1>7, <1>8, <1>9, <1>10 DEF Next

LEMMA SpecDistinctIds == Spec => [](TInv /\ DistinctIds)
<1>1. Init => DistinctIds
  BY DEF Init, DistinctIds, Slot
<1>2. TInv /\ DistinctIds /\ [Next]_vars => DistinctIds'
  BY NextRecords
<1> QED BY <1>1, <1>2, SpecTInv, PTL DEF Spec

(* The binary heap implements the priority pool: a record is added once,   *)
(* and what pop_heap removes is the record that front() returned, which    *)
(* has the highest priority of those queued.                               *)
THEOREM ImplementsPriorityPool ==
  ASSUME Functors \subseteq {"reads"}
  PROVE  Spec => PoolSpec
<1>1. Init => Pool!PoolInit
  BY DEF Init, Pool!PoolInit, Queued, Slot
<1>2. TInv /\ DistinctIds /\ HInv /\ [Next]_vars
        => [Pool!PoolNext]_(Pool!poolVars)
  BY NextRecords
<1> QED BY <1>1, <1>2, SpecHInv, SpecDistinctIds, PTL DEF Spec, PoolSpec, Pool!PoolSpec

(* No step of a sift loses or duplicates a record, and erase_if removes    *)
(* the record that it visits and no other, whatever its functor does.      *)
THEOREM RecordsAreKept == Spec => OnlyErasedIsLost
<1>1. TInv /\ DistinctIds /\ [Next]_vars
        => [/\ pc \in {"sift_up", "sift_down"} => Queued' = Queued
            /\ pc = "erase" /\ m_end_' # m_end_ =>
                 Queued' = Queued \ {m_tasks_[node - 1]}]_vars
  BY NextRecords
<1> QED BY <1>1, SpecDistinctIds, PTL DEF Spec, OnlyErasedIsLost

=============================================================================
