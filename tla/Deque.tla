------------------------------- MODULE Deque --------------------------------
(***************************************************************************)
(* hxdeque: a ring of capacity elements, a power of two, so that           *)
(* "x & m_mask_" is x % capacity.  m_tail_ is one behind the last element  *)
(* and equals m_head_ when the ring is empty and when it is full; only     *)
(* m_count_ tells these apart.  A slot is Raw while it holds no element.   *)
(***************************************************************************)
EXTENDS Integers, FiniteSets

CONSTANTS
  Value,        (* the elements                                       *)
  Capacities,   (* the capacities that constructor and reserve() get   *)
  Raw, None     (* no element; no value returned                       *)

DequeAssumption ==
  /\ Capacities \subseteq Nat \ {0}
  /\ \A c \in Capacities : \E k \in 0..c : c = 2 ^ k
  /\ Raw \notin Value /\ None \notin Value

VARIABLES
  capacity,   (* 0 until storage is allocated      *)
  data,       (* slot -> element or Raw            *)
  m_head_, m_tail_, m_count_,
  out         (* what the last pop stored in out_  *)

vars == <<capacity, data, m_head_, m_tail_, m_count_, out>>

Wrap(i) == i % capacity       (* i & m_mask_                 *)
Before(i) == Wrap(i + capacity - 1)   (* (i + m_mask_) & m_mask_ *)

Init ==
  /\ capacity \in Capacities \union {0}
  /\ data = [i \in 0..capacity - 1 |-> Raw]
  /\ m_head_ = 0 /\ m_tail_ = 0 /\ m_count_ = 0
  /\ out = None

Reserve(c) ==
  /\ capacity = 0
  /\ capacity' = c
  /\ data' = [i \in 0..c - 1 |-> Raw]
  /\ UNCHANGED <<m_head_, m_tail_, m_count_, out>>

(* Every operation on the elements asserts that storage is allocated.      *)
Allocated == capacity > 0

Refused ==
  /\ Allocated
  /\ out' = None
  /\ UNCHANGED <<capacity, data, m_head_, m_tail_, m_count_>>

(* Mutant of PushBack: full is taken for one more than the capacity. *)
PushBackIntoFull(v) ==
  /\ Allocated /\ m_count_ <= capacity
  /\ data' = [data EXCEPT ![m_tail_] = v]
  /\ m_tail_' = Wrap(m_tail_ + 1)
  /\ m_count_' = m_count_ + 1
  /\ out' = None
  /\ UNCHANGED <<capacity, m_head_>>

PushBack(v) ==
  /\ Allocated /\ m_count_ < capacity
  /\ data' = [data EXCEPT ![m_tail_] = v]
  /\ m_tail_' = Wrap(m_tail_ + 1)
  /\ m_count_' = m_count_ + 1
  /\ out' = None
  /\ UNCHANGED <<capacity, m_head_>>

PushFront(v) ==
  /\ Allocated /\ m_count_ < capacity
  /\ m_head_' = Before(m_head_)
  /\ data' = [data EXCEPT ![m_head_'] = v]
  /\ m_count_' = m_count_ + 1
  /\ out' = None
  /\ UNCHANGED <<capacity, m_tail_>>

PopBack ==
  /\ Allocated /\ m_count_ > 0
  /\ m_tail_' = Before(m_tail_)
  /\ out' = data[m_tail_']
  /\ data' = [data EXCEPT ![m_tail_'] = Raw]
  /\ m_count_' = m_count_ - 1
  /\ UNCHANGED <<capacity, m_head_>>

PopFront ==
  /\ Allocated /\ m_count_ > 0
  /\ m_head_' = Wrap(m_head_ + 1)
  /\ out' = data[m_head_]
  /\ data' = [data EXCEPT ![m_head_] = Raw]
  /\ m_count_' = m_count_ - 1
  /\ UNCHANGED <<capacity, m_tail_>>

PushIntoFull == m_count_ >= capacity /\ Refused
PopFromEmpty == m_count_ = 0 /\ Refused

(* Mutant of Clear: the slots from the front of the storage are destroyed. *)
ClearUnwrapped ==
  /\ data' = [i \in DOMAIN data |-> IF i < m_count_ THEN Raw ELSE data[i]]
  /\ m_head_' = 0 /\ m_tail_' = 0 /\ m_count_' = 0
  /\ out' = None
  /\ UNCHANGED capacity

Clear ==
  /\ data' = [i \in DOMAIN data |->
       IF \E k \in 0..m_count_ - 1 : i = Wrap(m_head_ + k) THEN Raw ELSE data[i]]
  /\ m_head_' = 0 /\ m_tail_' = 0 /\ m_count_' = 0
  /\ out' = None
  /\ UNCHANGED capacity

Next ==
  \/ \E c \in Capacities : Reserve(c)
  \/ \E v \in Value : PushBack(v) \/ PushFront(v)
  \/ PopBack \/ PopFront
  \/ PushIntoFull \/ PopFromEmpty
  \/ Clear

Spec == Init /\ [][Next]_vars

-----------------------------------------------------------------------------
At(i) == data[Wrap(m_head_ + i)]
Back == data[Before(m_tail_)]

TypeOK ==
  /\ capacity \in Capacities \union {0}
  /\ data \in [0..capacity - 1 -> Value \union {Raw}]
  /\ m_head_ \in 0..capacity /\ m_tail_ \in 0..capacity
  /\ m_count_ \in 0..capacity
  /\ out \in Value \union {None}

(* The slots from the head on hold the elements and no other slot does,    *)
(* wherever the ring wraps: an element is constructed in a free slot and   *)
(* destroyed once.                                                         *)
ElementsInRing ==
  {i \in DOMAIN data : data[i] # Raw} = {Wrap(m_head_ + k) : k \in 0..m_count_ - 1}

(* Head, tail and count agree, also when the ring is full and head and     *)
(* tail are equal; back() is the element that at(size() - 1) is.           *)
EndsAgree ==
  Allocated =>
    /\ m_tail_ = Wrap(m_head_ + m_count_)
    /\ m_count_ > 0 => Back = At(m_count_ - 1)

Abstract == INSTANCE BoundedDeque WITH
  items <- [i \in 1..m_count_ |-> At(i - 1)], popped <- out, bound <- capacity

(* The ring is a bounded sequence: at() counts from the front, and a pop   *)
(* stores the element of its end in out.                                   *)
DequeIsSequence == Abstract!DequeSpec

=============================================================================
