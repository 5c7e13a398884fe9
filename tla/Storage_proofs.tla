--------------------------- MODULE Storage_proofs ---------------------------
(***************************************************************************)
(* The containers whose state is a storage of slots or of words, for every *)
(* value of their constants: the ring of hxdeque is a bounded deque, the   *)
(* objects of hxarray live in the slots before its end and nowhere else,   *)
(* and the words of hxbitset agree with its bits.  Containers_proofs is    *)
(* about the linked ones.                                                  *)
(***************************************************************************)
EXTENDS Containers, Sequences, FiniteSetTheorems, TLAPS

-----------------------------------------------------------------------------
(***************************************************************************)
(* The ring of hxdeque, for any elements and capacities.  The invariant    *)
(* says which slots are in use without a division: up to the end of the    *)
(* storage, and from its beginning if the elements wrap around.            *)
(***************************************************************************)
InUse(i) ==
  \/ m_head_ <= i /\ i < m_head_ + m_count_
  \/ i < m_head_ + m_count_ - ring_capacity

RingTypes ==
  /\ ring_capacity \in Nat
  /\ ring \in [0..ring_capacity - 1 -> RingElement \union {Raw}]
  /\ m_count_ \in 0..ring_capacity
  /\ m_head_ \in Nat /\ (m_head_ = 0 \/ m_head_ < ring_capacity)

RingEnds ==
  m_tail_ = IF m_head_ + m_count_ < ring_capacity THEN m_head_ + m_count_
            ELSE m_head_ + m_count_ - ring_capacity

RingSlots == \A i \in 0..ring_capacity - 1 : ring[i] # Raw <=> InUse(i)

RingInv == RingTypes /\ RingEnds /\ RingSlots

(* x & m_mask_ for an index that is less than twice the capacity. *)
LEMMA WrapOnce ==
  ASSUME NEW c \in Nat \ {0}, NEW x \in 0..2 * c - 1
  PROVE  x % c = IF x < c THEN x ELSE x - c
<1>1. CASE x < c
  BY <1>1
<1>2. CASE ~(x < c)
  <2>1. x \in c..2 * c - 1
    BY <1>2
  <2> QED BY <1>2, <2>1
<1> QED BY <1>1, <1>2

(* Every wrapped index is a slot. *)
LEMMA RingWrap ==
  ASSUME ring_capacity \in Nat \ {0}, NEW x \in 0..2 * ring_capacity - 1
  PROVE  Deque!Wrap(x) = IF x < ring_capacity THEN x ELSE x - ring_capacity
BY WrapOnce DEF Deque!Wrap

(* The indices that the operations step to. *)
LEMMA RingSteps ==
  ASSUME RingTypes, RingEnds, ring_capacity # 0
  PROVE  /\ m_tail_ \in 0..ring_capacity - 1 /\ m_head_ \in 0..ring_capacity - 1
         /\ Deque!Wrap(m_tail_ + 1) = IF m_tail_ + 1 < ring_capacity THEN m_tail_ + 1 ELSE 0
         /\ Deque!Wrap(m_head_ + 1) = IF m_head_ + 1 < ring_capacity THEN m_head_ + 1 ELSE 0
         /\ Deque!Before(m_tail_) = IF m_tail_ = 0 THEN ring_capacity - 1 ELSE m_tail_ - 1
         /\ Deque!Before(m_head_) = IF m_head_ = 0 THEN ring_capacity - 1 ELSE m_head_ - 1
<1>1. /\ ring_capacity \in Nat \ {0}
      /\ m_tail_ \in 0..ring_capacity - 1 /\ m_head_ \in 0..ring_capacity - 1
  BY DEF RingTypes, RingEnds
<1>2. ASSUME NEW i \in 0..ring_capacity - 1
      PROVE  /\ Deque!Wrap(i + 1) = IF i + 1 < ring_capacity THEN i + 1 ELSE 0
             /\ Deque!Before(i) = IF i = 0 THEN ring_capacity - 1 ELSE i - 1
  <2>1. PICK x \in 0..2 * ring_capacity - 1 : x = i + 1
    BY <1>1
  <2>2. PICK y \in 0..2 * ring_capacity - 1 : y = i + ring_capacity - 1
    BY <1>1
  <2>3. Deque!Wrap(x) = IF x < ring_capacity THEN x ELSE x - ring_capacity
    BY <1>1, RingWrap
  <2>4. Deque!Wrap(y) = IF y < ring_capacity THEN y ELSE y - ring_capacity
    BY <1>1, RingWrap
  <2>5. Deque!Before(i) = Deque!Wrap(y)
    BY <2>2 DEF Deque!Before
  <2> QED BY <1>1, <2>1, <2>2, <2>3, <2>4, <2>5
<1> QED BY <1>1, <1>2

(* An empty ring of any capacity satisfies the invariant. *)
LEMMA RingInitInv ==
  ASSUME Deque!DequeAssumption, Deque!Init
  PROVE  RingInv
BY DEF Deque!DequeAssumption, Deque!Init, RingInv, RingTypes, RingEnds, RingSlots, InUse

(* push_back and push_front keep it, with room or without. *)
LEMMA RingPushInv ==
  ASSUME Deque!DequeAssumption, RingInv, NEW v \in RingElement,
         Deque!PushBack(v) \/ Deque!PushFront(v)
  PROVE  RingInv'
<1>1. RingTypes /\ RingEnds /\ RingSlots
  BY DEF RingInv
<1>2. /\ ring_capacity \in Nat \ {0} /\ m_count_ \in Nat /\ v # Raw
      /\ ring_capacity' = ring_capacity
      /\ m_count_ < ring_capacity /\ m_count_' = m_count_ + 1
  BY <1>1 DEF Deque!PushBack, Deque!PushFront, Deque!DequeAssumption, Deque!Allocated, RingTypes
<1>3. CASE Deque!PushBack(v)
  <2>1. /\ m_tail_' = IF m_tail_ + 1 < ring_capacity THEN m_tail_ + 1 ELSE 0
        /\ m_tail_ \in 0..ring_capacity - 1 /\ m_head_ \in 0..ring_capacity - 1
        /\ m_head_' = m_head_ /\ ring' = [ring EXCEPT ![m_tail_] = v]
    BY <1>1, <1>2, <1>3, RingSteps DEF Deque!PushBack
  <2>2. RingTypes' /\ RingEnds'
    BY <1>1, <1>2, <2>1 DEF RingTypes, RingEnds
  <2>3. \A i \in 0..ring_capacity - 1 : InUse(i)' <=> InUse(i) \/ i = m_tail_
    BY <1>1, <1>2, <2>1 DEF RingEnds, InUse
  <2> QED BY <1>1, <1>2, <2>1, <2>2, <2>3 DEF RingInv, RingTypes, RingSlots
<1>4. CASE Deque!PushFront(v)
  <2>1. /\ m_head_' = IF m_head_ = 0 THEN ring_capacity - 1 ELSE m_head_ - 1
        /\ m_head_ \in 0..ring_capacity - 1
        /\ m_tail_' = m_tail_ /\ ring' = [ring EXCEPT ![m_head_'] = v]
    BY <1>1, <1>2, <1>4, RingSteps DEF Deque!PushFront
  <2>2. RingTypes' /\ RingEnds'
    BY <1>1, <1>2, <2>1 DEF RingTypes, RingEnds
  <2>3. \A i \in 0..ring_capacity - 1 : InUse(i)' <=> InUse(i) \/ i = m_head_'
    BY <1>1, <1>2, <2>1 DEF InUse
  <2> QED BY <1>1, <1>2, <2>1, <2>2, <2>3 DEF RingInv, RingTypes, RingSlots
<1> QED BY <1>3, <1>4

(* pop_back and pop_front keep it. *)
LEMMA RingPopInv ==
  ASSUME Deque!DequeAssumption, RingInv, Deque!PopBack \/ Deque!PopFront
  PROVE  RingInv'
<1>1. RingTypes /\ RingEnds /\ RingSlots
  BY DEF RingInv
<1>2. /\ ring_capacity \in Nat \ {0} /\ m_count_ \in Nat
      /\ ring_capacity' = ring_capacity /\ m_count_ <= ring_capacity
      /\ m_count_ > 0 /\ m_count_' = m_count_ - 1
  BY <1>1 DEF Deque!PopBack, Deque!PopFront, Deque!Allocated, RingTypes
<1>3. CASE Deque!PopBack
  <2>1. /\ m_tail_' = IF m_tail_ = 0 THEN ring_capacity - 1 ELSE m_tail_ - 1
        /\ m_tail_ \in 0..ring_capacity - 1 /\ m_head_ \in 0..ring_capacity - 1
        /\ m_head_' = m_head_ /\ ring' = [ring EXCEPT ![m_tail_'] = Raw]
    BY <1>1, <1>2, <1>3, RingSteps DEF Deque!PopBack
  <2>2. RingTypes' /\ RingEnds'
    BY <1>1, <1>2, <2>1 DEF RingTypes, RingEnds
  <2>3. \A i \in 0..ring_capacity - 1 : InUse(i)' <=> InUse(i) /\ i # m_tail_'
    BY <1>1, <1>2, <2>1 DEF RingEnds, InUse
  <2> QED BY <1>1, <1>2, <2>1, <2>2, <2>3 DEF RingInv, RingTypes, RingSlots
<1>4. CASE Deque!PopFront
  <2>1. /\ m_head_' = IF m_head_ + 1 < ring_capacity THEN m_head_ + 1 ELSE 0
        /\ m_head_ \in 0..ring_capacity - 1
        /\ m_tail_' = m_tail_ /\ ring' = [ring EXCEPT ![m_head_] = Raw]
    BY <1>1, <1>2, <1>4, RingSteps DEF Deque!PopFront
  <2>2. RingTypes' /\ RingEnds'
    BY <1>1, <1>2, <2>1 DEF RingTypes, RingEnds
  <2>3. \A i \in 0..ring_capacity - 1 : InUse(i)' <=> InUse(i) /\ i # m_head_
    BY <1>1, <1>2, <2>1 DEF InUse
  <2> QED BY <1>1, <1>2, <2>1, <2>2, <2>3 DEF RingInv, RingTypes, RingSlots
<1> QED BY <1>3, <1>4

(* The slots that at() reaches are those in use. *)
LEMMA RingIndices ==
  ASSUME RingInv, ring_capacity # 0
  PROVE  /\ \A k \in 0..m_count_ - 1 :
              Deque!Wrap(m_head_ + k) = IF m_head_ + k < ring_capacity THEN m_head_ + k
                                        ELSE m_head_ + k - ring_capacity
         /\ \A i \in 0..ring_capacity - 1 :
              InUse(i) <=> \E k \in 0..m_count_ - 1 : i = Deque!Wrap(m_head_ + k)
<1>1. /\ ring_capacity \in Nat \ {0} /\ m_head_ \in 0..ring_capacity - 1
      /\ m_count_ \in 0..ring_capacity
  BY DEF RingInv, RingTypes
<1>2. ASSUME NEW k \in 0..m_count_ - 1
      PROVE  Deque!Wrap(m_head_ + k) = IF m_head_ + k < ring_capacity THEN m_head_ + k
                                       ELSE m_head_ + k - ring_capacity
  <2>1. PICK x \in 0..2 * ring_capacity - 1 : x = m_head_ + k
    BY <1>1
  <2>2. Deque!Wrap(x) = IF x < ring_capacity THEN x ELSE x - ring_capacity
    BY <1>1, RingWrap
  <2> QED BY <1>1, <2>1, <2>2
<1>3. ASSUME NEW i \in 0..ring_capacity - 1, NEW k \in 0..m_count_ - 1,
             i = Deque!Wrap(m_head_ + k)
      PROVE  InUse(i)
  <2>1. i = IF m_head_ + k < ring_capacity THEN m_head_ + k ELSE m_head_ + k - ring_capacity
    BY <1>2, <1>3
  <2> QED BY <1>1, <2>1 DEF InUse
<1>4. ASSUME NEW i \in 0..ring_capacity - 1, InUse(i)
      PROVE  \E k \in 0..m_count_ - 1 : i = Deque!Wrap(m_head_ + k)
  <2>1. CASE m_head_ <= i /\ i < m_head_ + m_count_
    <3>1. i - m_head_ \in 0..m_count_ - 1 /\ m_head_ + (i - m_head_) = i
      BY <1>1, <2>1
    <3> QED BY <1>1, <1>2, <3>1
  <2>2. CASE i < m_head_ + m_count_ - ring_capacity
    <3>1. PICK k \in 0..m_count_ - 1 : m_head_ + k = i + ring_capacity
      <4>1. /\ i + ring_capacity - m_head_ \in 0..m_count_ - 1
            /\ m_head_ + (i + ring_capacity - m_head_) = i + ring_capacity
        BY <1>1, <2>2
      <4> QED BY <4>1
    <3>2. Deque!Wrap(m_head_ + k) = IF m_head_ + k < ring_capacity THEN m_head_ + k
                                    ELSE m_head_ + k - ring_capacity
      BY <1>2
    <3>3. ~(m_head_ + k < ring_capacity) /\ m_head_ + k - ring_capacity = i
      BY <1>1, <3>1
    <3>4. Deque!Wrap(m_head_ + k) = i
      BY <3>2, <3>3
    <3> QED BY <3>4
  <2> QED BY <1>4, <2>1, <2>2 DEF InUse
<1> QED BY <1>2, <1>3, <1>4

(* So do the operations that set the ring up or clear it. *)
LEMMA RingOtherInv ==
  ASSUME Deque!DequeAssumption, RingInv,
         \/ \E c \in Capacities : Deque!Reserve(c)
         \/ Deque!PushIntoFull \/ Deque!PopFromEmpty \/ Deque!Clear
         \/ UNCHANGED deque
  PROVE  RingInv'
<1> USE DEF RingInv, RingTypes, RingEnds, RingSlots
<1>1. CASE \E c \in Capacities : Deque!Reserve(c)
  BY <1>1 DEF Deque!Reserve, Deque!DequeAssumption, InUse
<1>2. CASE Deque!PushIntoFull \/ Deque!PopFromEmpty \/ UNCHANGED deque
  BY <1>2 DEF Deque!PushIntoFull, Deque!PopFromEmpty, Deque!Refused, deque, InUse
<1>3. CASE Deque!Clear
  <2>1. ASSUME NEW i \in 0..ring_capacity - 1
        PROVE  ring'[i] = Raw
    <3>1. ring_capacity # 0 /\ DOMAIN ring = 0..ring_capacity - 1
      OBVIOUS
    <3>2. ring'[i] = IF \E k \in 0..m_count_ - 1 : i = Deque!Wrap(m_head_ + k) THEN Raw ELSE ring[i]
      BY <1>3, <3>1 DEF Deque!Clear
    <3>3. ring[i] # Raw <=> \E k \in 0..m_count_ - 1 : i = Deque!Wrap(m_head_ + k)
      BY <3>1, RingIndices
    <3> QED BY <3>2, <3>3
  <2>2. ring' \in [0..ring_capacity - 1 -> RingElement \union {Raw}]
    BY <1>3 DEF Deque!Clear
  <2>3. \A i \in 0..ring_capacity - 1 : ~InUse(i)'
    BY <1>3 DEF Deque!Clear, InUse
  <2>4. RingTypes' /\ RingEnds'
    BY <1>3, <2>2 DEF Deque!Clear
  <2>5. ring_capacity' = ring_capacity
    BY <1>3 DEF Deque!Clear
  <2> QED BY <2>1, <2>3, <2>4, <2>5
<1> QED BY <1>1, <1>2, <1>3

(* The elements of a deque are in the slots from the head on and in no     *)
(* other, wherever the ring wraps; head, tail and count agree.             *)
THEOREM RingsAgree ==
  ASSUME Deque!DequeAssumption
  PROVE  ContainersSpec => []RingAgrees
<1>1. ContainersInit => RingInv
  BY RingInitInv DEF ContainersInit, ContainersAre
<1>2. RingInv /\ [ContainersNext]_containerVars => RingInv'
  <2> SUFFICES ASSUME RingInv, [ContainersNext]_containerVars PROVE RingInv'
    OBVIOUS
  <2>1. Deque!Next \/ UNCHANGED deque
    BY DEF ContainersNext, containerVars
  <2> QED BY <2>1, RingPushInv, RingPopInv, RingOtherInv DEF Deque!Next
<1>3. RingInv => RingAgrees
  <2> SUFFICES ASSUME RingInv PROVE Deque!ElementsInRing /\ Deque!EndsAgree
    BY DEF RingAgrees
  <2>1. RingTypes /\ RingEnds /\ RingSlots
    BY DEF RingInv
  <2>2. CASE ring_capacity = 0
    BY <2>1, <2>2 DEF RingTypes, Deque!ElementsInRing, Deque!EndsAgree, Deque!Allocated
  <2>3. CASE ring_capacity # 0
    <3>1. /\ ring_capacity \in Nat \ {0} /\ m_count_ \in 0..ring_capacity
          /\ m_head_ \in 0..ring_capacity - 1
      BY <2>1, <2>3 DEF RingTypes
    <3>2. Deque!ElementsInRing
      <4>1. DOMAIN ring = 0..ring_capacity - 1
        BY <2>1 DEF RingTypes
      <4>2. \A k \in 0..m_count_ - 1 : Deque!Wrap(m_head_ + k) \in 0..ring_capacity - 1
        BY <2>3, <3>1, RingIndices
      <4>3. \A i \in 0..ring_capacity - 1 :
              ring[i] # Raw <=> \E k \in 0..m_count_ - 1 : i = Deque!Wrap(m_head_ + k)
        BY <2>1, <2>3, RingIndices DEF RingSlots
      <4> QED BY <4>1, <4>2, <4>3 DEF Deque!ElementsInRing
    <3>3. m_tail_ = Deque!Wrap(m_head_ + m_count_)
      <4>1. PICK x \in 0..2 * ring_capacity - 1 : x = m_head_ + m_count_
        BY <3>1
      <4>2. Deque!Wrap(x) = IF x < ring_capacity THEN x ELSE x - ring_capacity
        BY <3>1, RingWrap
      <4> QED BY <2>1, <3>1, <4>1, <4>2 DEF RingEnds
    <3>4. ASSUME m_count_ > 0
          PROVE  Deque!Before(m_tail_) = Deque!Wrap(m_head_ + (m_count_ - 1))
      <4>1. Deque!Before(m_tail_) = IF m_tail_ = 0 THEN ring_capacity - 1 ELSE m_tail_ - 1
        BY <2>1, <2>3, RingSteps
      <4>2. Deque!Wrap(m_head_ + (m_count_ - 1))
              = IF m_head_ + (m_count_ - 1) < ring_capacity THEN m_head_ + (m_count_ - 1)
                ELSE m_head_ + (m_count_ - 1) - ring_capacity
        BY <2>3, <3>1, <3>4, RingIndices
      <4> QED BY <2>1, <3>1, <3>4, <4>1, <4>2 DEF RingEnds
    <3> QED BY <3>2, <3>3, <3>4 DEF Deque!EndsAgree, Deque!Back, Deque!At
  <2> QED BY <2>2, <2>3
<1> QED BY <1>1, <1>2, <1>3, PTL DEF ContainersSpec

-----------------------------------------------------------------------------
(***************************************************************************)
(* The ring as the sequence of its elements: slot h + k, wrapped, holds    *)
(* element k of n, counted from 0.  The lemmas say what the four calls do  *)
(* to that sequence, for a head h, a capacity c and storage r.             *)
(***************************************************************************)
Slot(h, c, k) == IF h + k < c THEN h + k ELSE h + k - c

ItemsOf(h, c, n, r) == [i \in 1..n |-> r[Slot(h, c, i - 1)]]

(* Two sequences with the same elements are the same. *)
LEMMA SameElements ==
  ASSUME NEW S, NEW s \in Seq(S), NEW t \in Seq(S), Len(s) = Len(t),
         \A i \in 1..Len(s) : s[i] = t[i]
  PROVE  s = t
OBVIOUS

(* What Append adds. *)
LEMMA AppendFacts ==
  ASSUME NEW S, NEW s \in Seq(S), NEW v \in S
  PROVE  /\ Append(s, v) \in Seq(S) /\ Len(Append(s, v)) = Len(s) + 1
         /\ \A i \in 1..Len(s) : Append(s, v)[i] = s[i]
         /\ Append(s, v)[Len(s) + 1] = v
<1>1. Append(s, v) \in Seq(S)
  OBVIOUS
<1>2. Len(Append(s, v)) = Len(s) + 1
  OBVIOUS
<1>3. \A i \in 1..Len(s) : Append(s, v)[i] = s[i]
  OBVIOUS
<1>4. Append(s, v)[Len(s) + 1] = v
  OBVIOUS
<1> QED BY <1>1, <1>2, <1>3, <1>4

(* What is left of a sequence without its last element. *)
LEMMA ButLastElement ==
  ASSUME NEW S, NEW s \in Seq(S), Len(s) # 0
  PROVE  /\ SubSeq(s, 1, Len(s) - 1) \in Seq(S)
         /\ Len(SubSeq(s, 1, Len(s) - 1)) = Len(s) - 1
         /\ \A k \in 1..(Len(s) - 1) : SubSeq(s, 1, Len(s) - 1)[k] = s[k]
<1> DEFINE m == Len(s) - 1
<1>1. m \in Nat /\ m <= Len(s) /\ \A k \in 1..m : k \in 1..Len(s)
  OBVIOUS
<1> HIDE DEF m
<1>2. SubSeq(s, 1, m) \in Seq(S)
  BY <1>1
<1>3. Len(SubSeq(s, 1, m)) = m
  BY <1>1
<1>4. \A k \in 1..m : SubSeq(s, 1, m)[k] = s[k]
  BY <1>1
<1> QED BY <1>2, <1>3, <1>4 DEF m

(* What an element in front adds. *)
LEMMA PrependFacts ==
  ASSUME NEW S, NEW s \in Seq(S), NEW v \in S
  PROVE  /\ <<v>> \o s \in Seq(S) /\ Len(<<v>> \o s) = Len(s) + 1
         /\ (<<v>> \o s)[1] = v
         /\ \A i \in 1..Len(s) + 1 : i # 1 => (<<v>> \o s)[i] = s[i - 1]
<1>1. <<v>> \o s \in Seq(S)
  OBVIOUS
<1>2. Len(<<v>> \o s) = Len(s) + 1
  OBVIOUS
<1>3. (<<v>> \o s)[1] = v
  OBVIOUS
<1>4. \A i \in 1..Len(s) + 1 : i # 1 => (<<v>> \o s)[i] = s[i - 1]
  OBVIOUS
<1> QED BY <1>1, <1>2, <1>3, <1>4

(* No slot is used twice. *)
LEMMA SlotsApart ==
  ASSUME NEW c \in Nat \ {0}, NEW h \in 0..c - 1
  PROVE  /\ \A k \in 0..c - 1 : Slot(h, c, k) \in 0..c - 1
         /\ \A k, j \in 0..c - 1 : Slot(h, c, k) = Slot(h, c, j) => k = j
BY DEF Slot

(* There are n items, element i in slot i - 1. *)
LEMMA ItemsAt ==
  ASSUME NEW h, NEW c, NEW r, NEW n \in Nat
  PROVE  /\ Len(ItemsOf(h, c, n, r)) = n
         /\ \A i \in 1..n : ItemsOf(h, c, n, r)[i] = r[Slot(h, c, i - 1)]
BY DEF ItemsOf

(* They are a sequence of what the storage holds. *)
LEMMA ItemsAreSeq ==
  ASSUME NEW S, NEW c \in Nat \ {0}, NEW h \in 0..c - 1, NEW n \in 0..c,
         NEW r \in [0..c - 1 -> S]
  PROVE  ItemsOf(h, c, n, r) \in Seq(S)
<1>1. \A i \in 1..n : r[Slot(h, c, i - 1)] \in S
  BY SlotsApart
<1> QED BY <1>1 DEF ItemsOf

(* The items of the ring that a program uses. *)
RingItems == ItemsOf(m_head_, ring_capacity, m_count_, ring)

(* push_back stores behind the last element. *)
LEMMA PushBackItems ==
  ASSUME NEW S, ring_capacity \in Nat \ {0}, m_head_ \in 0..ring_capacity - 1,
         m_count_ \in 0..ring_capacity - 1,
         ring \in [0..ring_capacity - 1 -> S],
         ring' \in [0..ring_capacity - 1 -> S], NEW v \in S,
         ring' = [ring EXCEPT ![Slot(m_head_, ring_capacity, m_count_)] = v],
         m_count_' \in 0..ring_capacity, m_count_' = m_count_ + 1
  PROVE  ItemsOf(m_head_, ring_capacity, m_count_', ring') = Append(RingItems, v)
<1>1. m_count_ \in 0..ring_capacity
  OBVIOUS
<1>2. PICK o \in Seq(S) : o = RingItems
  BY <1>1, ItemsAreSeq DEF RingItems
<1>3. /\ Len(o) = m_count_
      /\ \A i \in 1..m_count_ : o[i] = ring[Slot(m_head_, ring_capacity, i - 1)]
      /\ \A k \in 0..ring_capacity - 1 :
           Slot(m_head_, ring_capacity, k) \in 0..ring_capacity - 1
      /\ \A k, j \in 0..ring_capacity - 1 :
           Slot(m_head_, ring_capacity, k) = Slot(m_head_, ring_capacity, j)
             => k = j
  <2>1. /\ Len(o) = m_count_
        /\ \A i \in 1..m_count_ : o[i] = ring[Slot(m_head_, ring_capacity, i - 1)]
    BY <1>1, <1>2, ItemsAt DEF RingItems
  <2> QED BY <2>1, SlotsApart
<1>4. PICK s \in Seq(S) : s = Append(o, v)
  BY AppendFacts
<1>5. /\ Len(s) = m_count_'
      /\ s[m_count_'] = v
      /\ \A i \in 1..m_count_ : s[i] = ring[Slot(m_head_, ring_capacity, i - 1)]
  <2>1. /\ Len(s) = m_count_ + 1
        /\ s[m_count_ + 1] = v
        /\ \A i \in 1..m_count_ : s[i] = o[i]
    <3>1. Len(o) = m_count_
      BY <1>3
    <3> QED BY <1>4, <3>1, AppendFacts
  <2> QED BY <1>3, <2>1
<1>6. ASSUME NEW i \in 1..m_count_'
      PROVE  s[i] = ring'[Slot(m_head_, ring_capacity, i - 1)]
  <2>1. /\ i - 1 \in 0..ring_capacity - 1
        /\ (i \in 1..m_count_ \/ i = m_count_')
        /\ (i \in 1..m_count_ => i - 1 # m_count_)
    OBVIOUS
  <2>2. CASE i \in 1..m_count_
    <3>1. /\ Slot(m_head_, ring_capacity, i - 1) \in 0..ring_capacity - 1
          /\ Slot(m_head_, ring_capacity, i - 1)
               # Slot(m_head_, ring_capacity, m_count_)
      BY <1>3, <2>1, <2>2
    <3> QED BY <1>5, <2>2, <3>1
  <2>3. CASE i = m_count_'
    BY <1>3, <1>5, <2>1, <2>3
  <2> QED BY <2>1, <2>2, <2>3
<1>7. ItemsOf(m_head_, ring_capacity, m_count_', ring') = s
  BY <1>5, <1>6 DEF ItemsOf
<1> QED BY <1>2, <1>4, <1>7

(* push_front stores before the first element. *)
LEMMA PushFrontItems ==
  ASSUME NEW S, ring_capacity \in Nat \ {0}, m_head_ \in 0..ring_capacity - 1,
         m_count_ \in 0..ring_capacity - 1,
         ring \in [0..ring_capacity - 1 -> S],
         ring' \in [0..ring_capacity - 1 -> S], NEW v \in S,
         m_head_' \in 0..ring_capacity - 1,
         m_head_' = IF m_head_ = 0 THEN ring_capacity - 1 ELSE m_head_ - 1,
         ring' = [ring EXCEPT ![m_head_'] = v], m_count_' \in 0..ring_capacity,
         m_count_' = m_count_ + 1
  PROVE  ItemsOf(m_head_', ring_capacity, m_count_', ring') = <<v>> \o RingItems
<1>1. m_count_ \in 0..ring_capacity
  OBVIOUS
<1>2. PICK o \in Seq(S) : o = RingItems
  BY <1>1, ItemsAreSeq DEF RingItems
<1>3. /\ Len(o) = m_count_
      /\ \A i \in 1..m_count_ : o[i] = ring[Slot(m_head_, ring_capacity, i - 1)]
  BY <1>1, <1>2, ItemsAt DEF RingItems
<1>4. PICK s \in Seq(S) : s = <<v>> \o o
  BY PrependFacts
<1>5. /\ Len(s) = m_count_'
      /\ s[1] = v
      /\ \A i \in 1..m_count_' : i # 1 => s[i] = o[i - 1]
  <2>1. /\ Len(s) = Len(o) + 1
        /\ s[1] = v
        /\ \A i \in 1..Len(o) + 1 : i # 1 => s[i] = o[i - 1]
    BY <1>4, PrependFacts
  <2> QED BY <1>3, <2>1
<1>6. \A i \in 1..m_count_' : i # 1 => i - 1 \in 1..m_count_
  OBVIOUS
<1>7. Slot(m_head_', ring_capacity, 0) = m_head_'
  BY DEF Slot
<1>8. \A k \in 1..m_count_ :
        /\ Slot(m_head_', ring_capacity, k) = Slot(m_head_, ring_capacity, k - 1)
        /\ Slot(m_head_', ring_capacity, k) \in 0..ring_capacity - 1
                     /\ Slot(m_head_', ring_capacity, k) # m_head_'
  BY DEF Slot
<1>9. ASSUME NEW i \in 1..m_count_'
      PROVE  s[i] = ring'[Slot(m_head_', ring_capacity, i - 1)]
  <2>1. CASE i = 1
    BY <1>5, <1>7, <2>1
  <2>2. CASE i # 1
    <3>1. PICK k \in 1..m_count_ : k = i - 1
      BY <1>6, <2>2
    <3>2. s[i] = ring[Slot(m_head_, ring_capacity, k - 1)]
      BY <1>3, <1>5, <2>2, <3>1
    <3>3. ring'[Slot(m_head_', ring_capacity, k)]
            = ring[Slot(m_head_', ring_capacity, k)]
      BY <1>8
    <3> QED BY <1>8, <3>1, <3>2, <3>3
  <2> QED BY <2>1, <2>2
<1>10. ItemsOf(m_head_', ring_capacity, m_count_', ring') = s
  BY <1>5, <1>9 DEF ItemsOf
<1> QED BY <1>2, <1>4, <1>10

(* pop_back takes the last element. *)
LEMMA PopBackItems ==
  ASSUME NEW S, ring_capacity \in Nat \ {0}, m_head_ \in 0..ring_capacity - 1,
         m_count_ \in 1..ring_capacity,
         ring \in [0..ring_capacity - 1 -> S],
         ring' \in [0..ring_capacity - 1 -> S], NEW v,
         m_count_' \in 0..ring_capacity, m_count_' = m_count_ - 1,
         ring' = [ring EXCEPT ![Slot(m_head_, ring_capacity, m_count_')] = v]
  PROVE  /\ ItemsOf(m_head_, ring_capacity, m_count_', ring')
              = SubSeq(RingItems, 1, Len(RingItems) - 1)
         /\ RingItems[Len(RingItems)]
              = ring[Slot(m_head_, ring_capacity, m_count_')]
         /\ Len(RingItems) # 0
<1>1. m_count_ \in 0..ring_capacity
  OBVIOUS
<1>2. PICK o \in Seq(S) : o = RingItems
  BY <1>1, ItemsAreSeq DEF RingItems
<1>3. /\ Len(o) = m_count_
      /\ \A i \in 1..m_count_ : o[i] = ring[Slot(m_head_, ring_capacity, i - 1)]
      /\ \A k \in 0..ring_capacity - 1 :
           Slot(m_head_, ring_capacity, k) \in 0..ring_capacity - 1
      /\ \A k, j \in 0..ring_capacity - 1 :
           Slot(m_head_, ring_capacity, k) = Slot(m_head_, ring_capacity, j)
             => k = j
  <2>1. /\ Len(o) = m_count_
        /\ \A i \in 1..m_count_ : o[i] = ring[Slot(m_head_, ring_capacity, i - 1)]
    BY <1>1, <1>2, ItemsAt DEF RingItems
  <2> QED BY <2>1, SlotsApart
<1>4. PICK s \in Seq(S) : s = SubSeq(o, 1, Len(o) - 1)
  <2>1. Len(o) # 0
    BY <1>3
  <2> QED BY <2>1, ButLastElement
<1>5. Len(s) = m_count_' /\ \A i \in 1..m_count_' : s[i] = o[i]
  BY <1>3, <1>4, ButLastElement
<1>6. ASSUME NEW i \in 1..m_count_'
      PROVE  s[i] = ring'[Slot(m_head_, ring_capacity, i - 1)]
  <2>1. /\ i \in 1..m_count_
        /\ i - 1 \in 0..ring_capacity - 1
        /\ i - 1 # m_count_'
        /\ m_count_' \in 0..ring_capacity - 1
    OBVIOUS
  <2>2. /\ Slot(m_head_, ring_capacity, i - 1) \in 0..ring_capacity - 1
        /\ Slot(m_head_, ring_capacity, i - 1)
             # Slot(m_head_, ring_capacity, m_count_')
    BY <1>3, <2>1
  <2> QED BY <1>3, <1>5, <2>1, <2>2
<1>7. ItemsOf(m_head_, ring_capacity, m_count_', ring') = s
  BY <1>5, <1>6 DEF ItemsOf
<1>8. o[m_count_] = ring[Slot(m_head_, ring_capacity, m_count_')]
  BY <1>3
<1>9. /\ ItemsOf(m_head_, ring_capacity, m_count_', ring')
           = SubSeq(o, 1, Len(o) - 1)
      /\ o[Len(o)] = ring[Slot(m_head_, ring_capacity, m_count_')] /\ Len(o) # 0
  <2>1. ItemsOf(m_head_, ring_capacity, m_count_', ring')
          = SubSeq(o, 1, Len(o) - 1)
    BY <1>4, <1>7
  <2>2. Len(o) = m_count_
    BY <1>3
  <2>3. o[Len(o)] = ring[Slot(m_head_, ring_capacity, m_count_')]
    BY <1>8, <2>2, Zenon
  <2>4. Len(o) # 0
    BY <2>2
  <2> QED BY <2>1, <2>3, <2>4, Zenon
<1> QED BY <1>2, <1>9, Zenon

(* pop_front takes the first element. *)
LEMMA PopFrontItems ==
  ASSUME NEW S, ring_capacity \in Nat \ {0}, m_head_ \in 0..ring_capacity - 1,
         m_count_ \in 1..ring_capacity,
         ring \in [0..ring_capacity - 1 -> S],
         ring' \in [0..ring_capacity - 1 -> S], NEW v,
         m_head_' \in 0..ring_capacity - 1,
         m_head_' = IF m_head_ + 1 < ring_capacity THEN m_head_ + 1 ELSE 0,
         m_count_' \in 0..ring_capacity, m_count_' = m_count_ - 1,
         ring' = [ring EXCEPT ![m_head_] = v]
  PROVE  /\ ItemsOf(m_head_', ring_capacity, m_count_', ring') = Tail(RingItems)
         /\ Head(RingItems) = ring[m_head_]
<1>1. m_count_ \in 0..ring_capacity
  OBVIOUS
<1>2. PICK o \in Seq(S) : o = RingItems
  BY <1>1, ItemsAreSeq DEF RingItems
<1>3. /\ Len(o) = m_count_
      /\ \A i \in 1..m_count_ : o[i] = ring[Slot(m_head_, ring_capacity, i - 1)]
  BY <1>1, <1>2, ItemsAt DEF RingItems
<1>4. o # <<>>
  BY <1>3
<1>5. PICK s \in Seq(S) : s = Tail(o)
  <2>1. Tail(o) \in Seq(S)
    BY <1>4
  <2> QED BY <2>1
<1>6. Len(s) = m_count_' /\ \A i \in 1..m_count_' : s[i] = o[i + 1]
  BY <1>3, <1>4, <1>5
<1>7. Slot(m_head_, ring_capacity, 0) = m_head_
  BY DEF Slot
<1>8. \A k \in 1..m_count_' :
        /\ Slot(m_head_, ring_capacity, k) = Slot(m_head_', ring_capacity, k - 1)
        /\ Slot(m_head_, ring_capacity, k) \in 0..ring_capacity - 1
                     /\ Slot(m_head_, ring_capacity, k) # m_head_
  BY DEF Slot
<1>9. ASSUME NEW i \in 1..m_count_'
      PROVE  s[i] = ring'[Slot(m_head_', ring_capacity, i - 1)]
  <2>1. i + 1 \in 1..m_count_ /\ (i + 1) - 1 = i
    OBVIOUS
  <2>2. s[i] = ring[Slot(m_head_, ring_capacity, i)]
    BY <1>3, <1>6, <2>1
  <2>3. ring'[Slot(m_head_, ring_capacity, i)]
          = ring[Slot(m_head_, ring_capacity, i)]
    BY <1>8
  <2> QED BY <1>8, <2>2, <2>3
<1>10. ItemsOf(m_head_', ring_capacity, m_count_', ring') = s
  BY <1>6, <1>9 DEF ItemsOf
<1>11. Head(o) = ring[m_head_]
  <2>1. Head(o) = o[1]
    BY <1>4
  <2>2. 1 \in 1..m_count_ /\ 1 - 1 = 0
    OBVIOUS
  <2> QED BY <1>3, <1>7, <2>1, <2>2
<1> QED BY <1>2, <1>5, <1>10, <1>11

(* They are what at() returns from the front on. *)
LEMMA ItemsAreAt ==
  ASSUME RingTypes
  PROVE  [i \in 1..m_count_ |-> Deque!At(i - 1)] = RingItems
<1>1. CASE ring_capacity = 0
  <2>1. m_count_ = 0
    BY <1>1 DEF RingTypes
  <2> QED BY <2>1 DEF RingItems, ItemsOf
<1>2. CASE ring_capacity # 0
  <2>1. /\ ring_capacity \in Nat \ {0} /\ m_head_ \in 0..ring_capacity - 1
        /\ m_count_ \in 0..ring_capacity
    BY <1>2 DEF RingTypes
  <2>2. ASSUME NEW i \in 1..m_count_
        PROVE  Deque!At(i - 1) = ring[Slot(m_head_, ring_capacity, i - 1)]
    <3>1. PICK x \in 0..2 * ring_capacity - 1 : x = m_head_ + (i - 1)
      BY <2>1
    <3>2. Deque!Wrap(x) = IF x < ring_capacity THEN x ELSE x - ring_capacity
      BY <2>1, RingWrap
    <3>3. Slot(m_head_, ring_capacity, i - 1) = Deque!Wrap(x)
      BY <2>1, <3>1, <3>2 DEF Slot
    <3>4. Deque!At(i - 1) = ring[Deque!Wrap(x)]
      BY <3>1 DEF Deque!At
    <3> QED BY <3>3, <3>4
  <2> QED BY <2>2 DEF RingItems, ItemsOf
<1> QED BY <1>1, <1>2

(* The pushes on the ring are those of the sequence, *)
LEMMA RingPushItems ==
  ASSUME Deque!DequeAssumption, RingInv, RingInv', NEW v \in RingElement,
         Deque!PushBack(v) \/ Deque!PushFront(v)
  PROVE  /\ Len(RingItems) < ring_capacity /\ ring_capacity' = ring_capacity
         /\ RingItems' = Append(RingItems, v) \/ RingItems' = <<v>> \o RingItems
         /\ out' = None
<1> DEFINE S == RingElement \union {Raw}
<1>1. /\ RingTypes /\ RingTypes' /\ RingEnds
  BY DEF RingInv
<1>2. /\ ring_capacity \in Nat \ {0}
      /\ ring_capacity' = ring_capacity /\ out' = None
      /\ m_count_ \in 0..ring_capacity - 1 /\ m_count_' = m_count_ + 1
      /\ m_count_' \in 0..ring_capacity /\ m_count_ \in Nat
      /\ m_head_ \in 0..ring_capacity - 1 /\ m_head_' \in 0..ring_capacity - 1
      /\ m_tail_ = Slot(m_head_, ring_capacity, m_count_)
  BY <1>1
  DEF Deque!PushBack, Deque!PushFront, Deque!Allocated, RingTypes, RingEnds, Slot
<1>3. /\ ring \in [0..ring_capacity - 1 -> S]
      /\ ring' \in [0..ring_capacity - 1 -> S]
      /\ v \in S
  BY <1>1, <1>2 DEF RingTypes
<1> HIDE DEF S
<1>4. Len(RingItems) = m_count_
  BY <1>2, ItemsAt DEF RingItems
<1>5. CASE Deque!PushBack(v)
  <2>1. m_head_' = m_head_ /\ ring' = [ring EXCEPT ![m_tail_] = v]
    BY <1>5 DEF Deque!PushBack
  <2>2. ring' = [ring EXCEPT ![Slot(m_head_, ring_capacity, m_count_)] = v]
    BY <1>2, <2>1
  <2>3. ItemsOf(m_head_, ring_capacity, m_count_', ring')
          = Append(ItemsOf(m_head_, ring_capacity, m_count_, ring), v)
    BY <1>2, <1>3, <2>2, PushBackItems, Zenon DEF RingItems
  <2>4. RingItems' = Append(RingItems, v)
    BY <1>2, <2>1, <2>3, Zenon DEF RingItems
  <2> QED BY <1>2, <1>4, <2>4
<1>6. CASE Deque!PushFront(v)
  <2>1. /\ m_head_' = IF m_head_ = 0 THEN ring_capacity - 1 ELSE m_head_ - 1
        /\ ring' = [ring EXCEPT ![m_head_'] = v]
    BY <1>1, <1>2, <1>6, RingSteps DEF Deque!PushFront
  <2>2. RingItems' = <<v>> \o RingItems
    <3>1. ItemsOf(m_head_', ring_capacity, m_count_', ring')
            = <<v>> \o ItemsOf(m_head_, ring_capacity, m_count_, ring)
      BY <1>2, <1>3, <2>1, PushFrontItems, Zenon DEF RingItems
    <3> QED BY <1>2, <3>1, Zenon DEF RingItems
  <2> QED BY <1>2, <1>4, <2>2
<1> QED BY <1>5, <1>6

(* and so are the pops. *)
LEMMA RingPopItems ==
  ASSUME Deque!DequeAssumption, RingInv, RingInv', Deque!PopBack \/ Deque!PopFront
  PROVE  /\ RingItems # <<>> /\ ring_capacity' = ring_capacity
         /\ \/ /\ RingItems' = SubSeq(RingItems, 1, Len(RingItems) - 1)
               /\ out' = RingItems[Len(RingItems)]
            \/ RingItems' = Tail(RingItems) /\ out' = Head(RingItems)
<1> DEFINE S == RingElement \union {Raw}
<1>1. /\ RingTypes /\ RingTypes' /\ RingEnds /\ RingEnds'
  BY DEF RingInv
<1>2. /\ ring_capacity \in Nat \ {0} /\ ring_capacity' = ring_capacity
      /\ m_count_ \in 1..ring_capacity /\ m_count_' = m_count_ - 1
      /\ m_count_' \in 0..ring_capacity /\ m_count_ \in Nat
      /\ m_head_ \in 0..ring_capacity - 1 /\ m_head_' \in 0..ring_capacity - 1
  BY <1>1 DEF Deque!PopBack, Deque!PopFront, Deque!Allocated, RingTypes
<1>3. /\ ring \in [0..ring_capacity - 1 -> S]
      /\ ring' \in [0..ring_capacity - 1 -> S]
  BY <1>1, <1>2 DEF RingTypes
<1> HIDE DEF S
<1>4. Len(RingItems) = m_count_
  BY <1>2, ItemsAt DEF RingItems
<1>5. RingItems # <<>>
  BY <1>2, <1>4
<1>6. CASE Deque!PopBack
  <2>1. /\ m_head_' = m_head_ /\ ring' = [ring EXCEPT ![m_tail_'] = Raw]
        /\ out' = ring[m_tail_']
    BY <1>6 DEF Deque!PopBack
  <2>5. m_tail_' = Slot(m_head_, ring_capacity, m_count_')
    BY <1>1, <1>2, <2>1 DEF RingEnds, Slot
  <2>2. /\ ring' = [ring EXCEPT ![Slot(m_head_, ring_capacity, m_count_')] = Raw]
        /\ out' = ring[Slot(m_head_, ring_capacity, m_count_')]
    BY <2>1, <2>5
  <2>3. /\ ItemsOf(m_head_, ring_capacity, m_count_', ring')
             = SubSeq(RingItems, 1, Len(RingItems) - 1)
        /\ RingItems[Len(RingItems)]
             = ring[Slot(m_head_, ring_capacity, m_count_')]
    BY <1>2, <1>3, <2>2, PopBackItems, Zenon DEF RingItems
  <2>4. RingItems' = ItemsOf(m_head_, ring_capacity, m_count_', ring')
    BY <1>2, <2>1, Zenon DEF RingItems
  <2> QED BY <1>2, <1>5, <2>2, <2>3, <2>4, Zenon
<1>7. CASE Deque!PopFront
  <2>1. /\ m_head_' = IF m_head_ + 1 < ring_capacity THEN m_head_ + 1 ELSE 0
        /\ ring' = [ring EXCEPT ![m_head_] = Raw] /\ out' = ring[m_head_]
    BY <1>1, <1>2, <1>7, RingSteps DEF Deque!PopFront
  <2>2. /\ ItemsOf(m_head_', ring_capacity, m_count_', ring') = Tail(RingItems)
        /\ Head(RingItems) = ring[m_head_]
    BY <1>2, <1>3, <2>1, PopFrontItems, Zenon DEF RingItems
  <2>3. RingItems' = ItemsOf(m_head_', ring_capacity, m_count_', ring')
    BY <1>2, Zenon DEF RingItems
  <2> QED BY <1>2, <1>5, <2>1, <2>2, <2>3, Zenon
<1> QED BY <1>6, <1>7

(* What the program does to the ring is what a bounded sequence does: at() *)
(* counts from the front, a push stores at one end, and a pop takes the    *)
(* element of that end and returns it.                                     *)
THEOREM RingIsBoundedDeque ==
  ASSUME Deque!DequeAssumption
  PROVE  ContainersSpec => Deque!DequeIsSequence
<1>1. ContainersInit => RingInv
  BY RingInitInv DEF ContainersInit, ContainersAre
<1>2. RingInv /\ [ContainersNext]_containerVars => RingInv'
  <2> SUFFICES ASSUME RingInv, [ContainersNext]_containerVars PROVE RingInv'
    OBVIOUS
  <2>1. Deque!Next \/ UNCHANGED deque
    BY DEF ContainersNext, containerVars
  <2> QED BY <2>1, RingPushInv, RingPopInv, RingOtherInv DEF Deque!Next
<1>3. ContainersInit => Deque!Abstract!Init
  <2> SUFFICES ASSUME ContainersInit PROVE Deque!Abstract!Init
    OBVIOUS
  <2>1. m_count_ = 0 /\ out = None /\ ring_capacity \in Nat
    BY DEF ContainersInit, ContainersAre, Deque!Init, Deque!DequeAssumption
  <2> QED BY <2>1 DEF Deque!Abstract!Init
<1>4. RingTypes => [i \in 1..m_count_ |-> Deque!At(i - 1)] = RingItems
  BY ItemsAreAt
<1>5. (RingTypes => [i \in 1..m_count_ |-> Deque!At(i - 1)] = RingItems)'
  BY <1>4, PTL
<1>6. RingInv /\ RingInv' /\ [ContainersNext]_containerVars
        => [Deque!Abstract!Next]_(Deque!Abstract!vars)
  <2> SUFFICES ASSUME RingInv, RingInv', [ContainersNext]_containerVars
               PROVE  Deque!Abstract!Next
    BY Zenon
  <2>1. /\ [i \in 1..m_count_ |-> Deque!At(i - 1)] = RingItems
        /\ ([i \in 1..m_count_ |-> Deque!At(i - 1)])' = RingItems'
    BY <1>4, <1>5 DEF RingInv
  <2>2. Deque!Next \/ UNCHANGED deque
    BY DEF ContainersNext, containerVars
  <2>3. ASSUME NEW v \in RingElement, Deque!PushBack(v) \/ Deque!PushFront(v)
        PROVE  Deque!Abstract!Next
    <3>1. /\ Len(RingItems) < ring_capacity /\ ring_capacity' = ring_capacity
          /\ RingItems' = Append(RingItems, v) \/ RingItems' = <<v>> \o RingItems
          /\ out' = None
      BY <2>3, RingPushItems
    <3>2. Deque!Abstract!Push(v)
      BY <2>1, <3>1 DEF Deque!Abstract!Push, Deque!Abstract!Cons
    <3> QED BY <3>1, <3>2 DEF Deque!Abstract!Next
  <2>4. CASE Deque!PopBack \/ Deque!PopFront
    <3>1. /\ RingItems # <<>> /\ ring_capacity' = ring_capacity
          /\ \/ /\ RingItems' = SubSeq(RingItems, 1, Len(RingItems) - 1)
                /\ out' = RingItems[Len(RingItems)]
             \/ RingItems' = Tail(RingItems) /\ out' = Head(RingItems)
      BY <2>4, RingPopItems
    <3>2. Deque!Abstract!Pop
      BY <2>1, <3>1
        DEF Deque!Abstract!Pop, Deque!Abstract!Front, Deque!Abstract!Last
    <3> QED BY <3>1, <3>2 DEF Deque!Abstract!Next
  <2>5. CASE \E c \in Capacities : Deque!Reserve(c)
    <3>1. /\ ring_capacity = 0 /\ ring_capacity' \in Nat \ {0}
          /\ m_count_' = m_count_ /\ out' = out
      BY <2>5 DEF Deque!Reserve, Deque!DequeAssumption
    <3>2. RingItems' = RingItems
      <4>1. m_count_ = 0
        BY <3>1 DEF RingInv, RingTypes
      <4> QED BY <3>1, <4>1 DEF RingItems, ItemsOf
    <3> QED BY <2>1, <3>1, <3>2 DEF Deque!Abstract!Next, Deque!Abstract!Reserve
  <2>6. CASE Deque!PushIntoFull \/ Deque!PopFromEmpty
    <3>1. ring_capacity' = ring_capacity /\ out' = None /\ RingItems' = RingItems
      BY <2>6 DEF Deque!PushIntoFull, Deque!PopFromEmpty, Deque!Refused, RingItems
    <3> QED BY <2>1, <3>1 DEF Deque!Abstract!Next, Deque!Abstract!Refuse
  <2>7. CASE Deque!Clear
    <3>1. ring_capacity' = ring_capacity /\ out' = None /\ RingItems' = <<>>
      BY <2>7 DEF Deque!Clear, RingItems, ItemsOf
    <3> QED BY <2>1, <3>1 DEF Deque!Abstract!Next, Deque!Abstract!Clear
  <2>8. CASE UNCHANGED deque
    <3>1. ring_capacity' = ring_capacity /\ out' = out /\ RingItems' = RingItems
      BY <2>8 DEF deque, RingItems
    <3> QED BY <2>1, <3>1
            DEF Deque!Abstract!Next, Deque!Abstract!Stay, Deque!Abstract!vars
  <2> QED BY <2>2, <2>3, <2>4, <2>5, <2>6, <2>7, <2>8 DEF Deque!Next
<1> QED BY <1>1, <1>2, <1>3, <1>6, PTL
        DEF ContainersSpec, Deque!DequeIsSequence, Deque!Abstract!DequeSpec

-----------------------------------------------------------------------------
(***************************************************************************)
(* The storage of hxarray, for any arrays, elements and sizes: the slots   *)
(* before the end hold living objects and the others hold none.  The loops *)
(* of the calls are recursive functions on the numbers of their rounds;    *)
(* what a round keeps holds after all of them.                             *)
(***************************************************************************)

(* Every set of natural numbers has a least one.                           *)
LEMMA LeastNatural ==
  ASSUME NEW S \in SUBSET Nat, S # {}
  PROVE  \E m \in S : \A k \in S : m <= k
<1>1. IsWellFoundedOn(OpToRel(<, Nat), Nat)
  BY NatLessThanWellFounded
<1>2. PICK m \in S : \A k \in S : ~(<<k, m>> \in OpToRel(<, Nat))
  BY <1>1, WFMin
<1>3. \A k \in S : <<k, m>> \in OpToRel(<, Nat) <=> k < m
  BY DEF OpToRel
<1>4. \A k \in S : ~(k < m) /\ k \in Nat /\ m \in Nat
  BY <1>2, <1>3
<1> QED BY <1>4

(* What holds before a loop, and after a round if it held before the round, *)
(* holds after every round.                                                *)
LEMMA LoopKeeps ==
  ASSUME NEW N \in Nat, NEW Q, NEW h,
         h[0] \in Q[0],
         \A k \in 1..N : h[k - 1] \in Q[k - 1] => h[k] \in Q[k]
  PROVE  \A k \in 0..N : h[k] \in Q[k]
<1> DEFINE D == {k \in 0..N : h[k] \notin Q[k]}
<1>1. ASSUME D # {} PROVE FALSE
  <2>1. PICK k \in D : \A j \in D : k <= j
    <3>1. D \in SUBSET Nat
      OBVIOUS
    <3> HIDE DEF D
    <3> QED BY <1>1, <3>1, LeastNatural
  <2>2. k \in 1..N
    BY <2>1
  <2>3. k - 1 \in 0..N /\ ~(k <= k - 1)
    BY <2>2
  <2>4. h[k - 1] \in Q[k - 1]
    BY <2>1, <2>3
  <2> QED BY <2>1, <2>2, <2>4
<1> QED BY <1>1

(* A loop of N rounds G, and the function that it computes. *)
Loops(N, Q, x, G) ==
  x \in Q[0] /\ \A k \in 1..N : \A y \in Q[k - 1] : G[<<k, y>>] \in Q[k]
Computes(N, Q, x, G, h) ==
  /\ h[0] = x /\ \A k \in 1..N : h[k] = G[<<k, h[k - 1]>>]
  /\ \A k \in 0..N : h[k] \in Q[k]

LEMMA LoopExists ==
  ASSUME NEW N \in Nat, NEW Q, NEW x, NEW G, Loops(N, Q, x, G)
  PROVE  \E h : Computes(N, Q, x, G, h)
<1> DEFINE Runs(n, h) == h = [k \in 0..n |-> IF k = 0 THEN x ELSE G[<<k, h[k - 1]>>]]
           D == {n \in 0..N : ~\E h : Runs(n, h)}
<1>1. ASSUME D # {} PROVE FALSE
  <2>1. PICK n \in D : \A j \in D : n <= j
    <3>1. D \in SUBSET Nat
      OBVIOUS
    <3> HIDE DEF D
    <3> QED BY <1>1, <3>1, LeastNatural
  <2>2. CASE n = 0
    <3>1. Runs(n, [k \in 0..n |-> x])
      BY <2>2
    <3> QED BY <2>1, <3>1
  <2>3. CASE n # 0
    <3>1. n - 1 \in 0..N /\ n - 1 \notin D /\ n \in Nat
      BY <2>1, <2>3
    <3>2. PICK h : Runs(n - 1, h)
      BY <3>1
    <3> DEFINE g == [k \in 0..n |-> IF k = n THEN G[<<n, h[n - 1]>>] ELSE h[k]]
    <3>3. \A k \in 0..n - 1 : h[k] = IF k = 0 THEN x ELSE G[<<k, h[k - 1]>>]
      BY <3>2
    <3>4. ASSUME NEW k \in 0..n
          PROVE  g[k] = IF k = 0 THEN x ELSE G[<<k, g[k - 1]>>]
      <4>1. k # 0 => k - 1 \in 0..n /\ k - 1 # n
        BY <3>1
      <4>2. k # 0 => g[k - 1] = h[k - 1]
        BY <4>1
      <4>3. k = n => k # 0 /\ g[k] = G[<<k, h[k - 1]>>]
        BY <2>3
      <4>4. k # n => k \in 0..n - 1 /\ g[k] = h[k]
        BY <3>1
      <4> HIDE DEF g
      <4> QED BY <3>3, <4>2, <4>3, <4>4
    <3>5. g = [k \in 0..n |-> g[k]]
      OBVIOUS
    <3> HIDE DEF g
    <3>6. Runs(n, g)
      BY <3>4, <3>5
    <3> QED BY <2>1, <3>6
  <2> QED BY <2>2, <2>3
<1>2. PICK h : Runs(N, h)
  <2>1. N \in 0..N
    OBVIOUS
  <2> QED BY <1>1, <2>1
<1>3. h[0] = x /\ \A k \in 1..N : h[k] = G[<<k, h[k - 1]>>]
  <2>1. 0 \in 0..N
    OBVIOUS
  <2> QED BY <1>2, <2>1
<1>4. h[0] \in Q[0] /\ \A k \in 1..N : h[k - 1] \in Q[k - 1] => h[k] \in Q[k]
  BY <1>3 DEF Loops
<1>5. \A k \in 0..N : h[k] \in Q[k]
  BY <1>4, LoopKeeps
<1> QED BY <1>3, <1>5 DEF Computes

(* What a slot may hold, and the storages of c slots in which the first n  *)
(* hold objects.                                                           *)
SlotValue == ArrayElement \union {Moved, Raw, Fault}
Storage(c) == [0..c - 1 -> SlotValue]
Lived(c, n) ==
  {S \in Storage(c) :
     \A i \in 0..c - 1 : (i < n => Array!Lives(S[i])) /\ (~(i < n) => S[i] = Raw)}

LEMMA ArrayCardinality == \A S : Array!Cardinality(S) = Cardinality(S)
BY DEF Cardinality, Array!Cardinality

(* No object lives in a slot that is raw. *)
LEMMA RawIsNotAlive ==
  ASSUME Array!ArrayAssumption
  PROVE  ~Array!Lives(Raw) /\ \A x : Array!Lives(x) => x \in SlotValue
<1>1. ASSUME Raw = Moved PROVE FALSE
  <2>1. {Moved, Raw, Fault} = {Raw} \union {Fault}
    BY <1>1
  <2>2. IsFiniteSet({Raw}) /\ Cardinality({Raw}) = 1
    BY FS_Singleton
  <2>3. \/ Cardinality({Moved, Raw, Fault}) = 1
        \/ Cardinality({Moved, Raw, Fault}) = 2
    <3>1. Cardinality({Raw} \union {Fault}) =
            IF Fault \in {Raw} THEN Cardinality({Raw}) ELSE Cardinality({Raw}) + 1
      BY <2>2, FS_AddElement
    <3> QED BY <2>1, <2>2, <3>1
  <2>4. Cardinality({Moved, Raw, Fault}) = 3
    BY ArrayCardinality DEF Array!ArrayAssumption
  <2> QED BY <2>3, <2>4
<1>2. Raw \notin ArrayElement
  BY DEF Array!ArrayAssumption
<1> QED BY <1>1, <1>2 DEF Array!Lives, SlotValue

(* What this says of a slot, and how it is shown of one that was built. *)
LEMMA LivedSlots ==
  ASSUME NEW c \in Nat, NEW n \in 0..c, NEW S \in Lived(c, n)
  PROVE  /\ S \in [0..c - 1 -> SlotValue] /\ DOMAIN S = 0..c - 1
         /\ \A i \in 0..n - 1 : i \in 0..c - 1 /\ Array!Lives(S[i])
         /\ \A i \in n..c - 1 : i \in 0..c - 1 /\ S[i] = Raw
<1>1. S \in [0..c - 1 -> SlotValue]
  BY DEF Lived, Storage
<1>2. \A i \in 0..c - 1 : (i < n => Array!Lives(S[i])) /\ (~(i < n) => S[i] = Raw)
  BY DEF Lived
<1>3. \A i \in 0..n - 1 : i \in 0..c - 1 /\ i < n
  OBVIOUS
<1>4. \A i \in n..c - 1 : i \in 0..c - 1 /\ ~(i < n)
  OBVIOUS
<1> QED BY <1>1, <1>2, <1>3, <1>4

LEMMA LivedFrom ==
  ASSUME Array!ArrayAssumption, NEW c \in Nat, NEW n \in 0..c, NEW T, T = [i \in 0..c - 1 |-> T[i]],
         \A i \in 0..n - 1 : Array!Lives(T[i]),
         \A i \in n..c - 1 : T[i] = Raw
  PROVE  T \in Lived(c, n)
<1>1. \A i \in 0..c - 1 : (i < n => i \in 0..n - 1) /\ (~(i < n) => i \in n..c - 1)
  OBVIOUS
<1>2. \A i \in 0..c - 1 : T[i] \in SlotValue
  BY <1>1, RawIsNotAlive DEF SlotValue
<1>3. T \in [0..c - 1 -> SlotValue]
  BY <1>2
<1> QED BY <1>1, <1>3 DEF Lived, Storage

(* One step on one slot. *)
LEMMA AssignKeeps ==
  ASSUME Array!ArrayAssumption, NEW c \in Nat, NEW n \in 0..c, NEW S \in Lived(c, n),
         NEW i \in 0..n - 1, NEW x, Array!Lives(x)
  PROVE  /\ Array!AssignTo(S, i, x) \in Lived(c, n)
         /\ Array!AssignTo(S, i, x) = [S EXCEPT ![i] = x]
<1>1. Array!AssignTo(S, i, x) = [S EXCEPT ![i] = x]
  BY LivedSlots DEF Array!AssignTo
<1> DEFINE T == [S EXCEPT ![i] = x]
<1>2. T \in Lived(c, n)
  <2>1. T = [k \in 0..c - 1 |-> T[k]] /\ \A k \in 0..c - 1 : T[k] = IF k = i THEN x ELSE S[k]
    BY LivedSlots
  <2>2. \A k \in n..c - 1 : k # i
    OBVIOUS
  <2> HIDE DEF T
  <2>3. \A k \in 0..n - 1 : Array!Lives(T[k])
    BY <2>1, LivedSlots
  <2>4. \A k \in n..c - 1 : T[k] = Raw
    BY <2>1, <2>2, LivedSlots
  <2> QED BY <2>1, <2>3, <2>4, LivedFrom
<1> QED BY <1>1, <1>2

LEMMA LeaveKeeps ==
  ASSUME Array!ArrayAssumption, NEW c \in Nat, NEW n \in 0..c, NEW S \in Lived(c, n),
         NEW i \in 0..n - 1
  PROVE  Array!MovedFrom(S, i) \in Lived(c, n)
<1> DEFINE T == [S EXCEPT ![i] = Moved]
<1>1. Array!MovedFrom(S, i) = T
  BY LivedSlots DEF Array!MovedFrom
<1>2. T = [k \in 0..c - 1 |-> T[k]] /\ \A k \in 0..c - 1 : T[k] = IF k = i THEN Moved ELSE S[k]
  BY LivedSlots
<1>3. Array!Lives(Moved) /\ \A k \in n..c - 1 : k # i
  BY DEF Array!Lives
<1> HIDE DEF T
<1>4. \A k \in 0..n - 1 : Array!Lives(T[k])
  BY <1>2, <1>3, LivedSlots
<1>5. \A k \in n..c - 1 : T[k] = Raw
  BY <1>2, <1>3, LivedSlots
<1> QED BY <1>1, <1>2, <1>4, <1>5, LivedFrom

LEMMA MoveAssignKeeps ==
  ASSUME Array!ArrayAssumption, NEW c \in Nat, NEW n \in 0..c, NEW S \in Lived(c, n),
         NEW i \in 0..n - 1, NEW j \in 0..n - 1
  PROVE  Array!MoveAssign(S, i, j) \in Lived(c, n)
<1>1. Array!Lives(S[j])
  BY LivedSlots
<1>2. Array!AssignTo(S, i, S[j]) \in Lived(c, n)
  BY <1>1, AssignKeeps
<1> QED BY <1>2, LeaveKeeps DEF Array!MoveAssign

LEMMA DestroyKeeps ==
  ASSUME Array!ArrayAssumption, NEW c \in Nat, NEW n \in 0..c, NEW S \in Lived(c, n), n # 0
  PROVE  Array!Destroy(S, n - 1) \in Lived(c, n - 1)
<1> DEFINE i == n - 1
           T == [S EXCEPT ![i] = Raw]
<1>1. i \in 0..n - 1 /\ i \in 0..c - 1 /\ i \in 0..c
  OBVIOUS
<1>2. \A k \in 0..i - 1 : k # i /\ k \in 0..n - 1 /\ k \in 0..c - 1
  OBVIOUS
<1>3. \A k \in i..c - 1 : k # i => k \in n..c - 1
  OBVIOUS
<1> HIDE DEF i
<1>4. Array!Destroy(S, i) = T
  BY <1>1, LivedSlots DEF Array!Destroy
<1>5. T = [k \in 0..c - 1 |-> T[k]] /\ \A k \in 0..c - 1 : T[k] = IF k = i THEN Raw ELSE S[k]
  BY LivedSlots
<1> HIDE DEF T
<1>6. T \in Lived(c, i)
  <2>1. \A k \in 0..i - 1 : Array!Lives(T[k])
    BY <1>2, <1>5, LivedSlots
  <2>2. \A k \in i..c - 1 : T[k] = Raw
    BY <1>1, <1>3, <1>5, LivedSlots
  <2> QED BY <1>1, <1>5, <2>1, <2>2, LivedFrom
<1> QED BY <1>4, <1>6 DEF i

LEMMA ConstructKeeps ==
  ASSUME Array!ArrayAssumption, NEW c \in Nat, NEW n \in 0..c - 1, NEW S \in Lived(c, n),
         NEW x, Array!Lives(x)
  PROVE  Array!Construct(S, n, x) \in Lived(c, n + 1)
<1> DEFINE T == [S EXCEPT ![n] = x]
           m == n + 1
<1>1. n \in 0..c /\ m \in 0..c /\ n \in n..c - 1
  OBVIOUS
<1>2. \A k \in 0..m - 1 : k \in 0..c - 1 /\ (k # n => k \in 0..n - 1)
  OBVIOUS
<1>3. \A k \in m..c - 1 : k # n /\ k \in n..c - 1 /\ k \in 0..c - 1
  OBVIOUS
<1> HIDE DEF m
<1>4. Array!Construct(S, n, x) = T
  <2>1. S[n] = Raw
    BY <1>1, LivedSlots
  <2> QED BY <2>1 DEF Array!Construct
<1>5. T = [k \in 0..c - 1 |-> T[k]] /\ \A k \in 0..c - 1 : T[k] = IF k = n THEN x ELSE S[k]
  BY <1>1, LivedSlots
<1> HIDE DEF T
<1>6. T \in Lived(c, m)
  <2>1. \A k \in 0..m - 1 : Array!Lives(T[k])
    BY <1>1, <1>2, <1>5, LivedSlots
  <2>2. \A k \in m..c - 1 : T[k] = Raw
    BY <1>1, <1>3, <1>5, LivedSlots
  <2> QED BY <1>1, <1>5, <2>1, <2>2, LivedFrom
<1> QED BY <1>4, <1>6 DEF m

(* The last element is moved behind itself. *)
LEMMA MoveUpKeeps ==
  ASSUME Array!ArrayAssumption, NEW c \in Nat, NEW n \in 1..c - 1, NEW S \in Lived(c, n)
  PROVE  Array!MoveConstruct(S, n, n - 1) \in Lived(c, n + 1)
<1>1. n \in 0..c - 1 /\ n \in 0..c /\ n + 1 \in 0..c /\ n - 1 \in 0..n - 1 /\ n - 1 \in 0..(n + 1) - 1
  OBVIOUS
<1>2. Array!Lives(S[n - 1])
  BY <1>1, LivedSlots
<1>3. Array!Construct(S, n, S[n - 1]) \in Lived(c, n + 1)
  BY <1>1, <1>2, ConstructKeeps
<1> QED BY <1>1, <1>3, LeaveKeeps DEF Array!MoveConstruct

(* Ranges of slots. *)
LEMMA DestructKeeps ==
  ASSUME Array!ArrayAssumption, NEW c \in Nat, NEW m \in 0..c, NEW n \in 0..m,
         NEW S \in Lived(c, m)
  PROVE  Array!Destruct(S, n, m) \in Lived(c, n)
<1> DEFINE T == [i \in 0..c - 1 |-> IF i \in n..m - 1 THEN Raw ELSE S[i]]
<1>1. n \in 0..c /\ \A i \in n..m - 1 : i \in 0..m - 1 /\ i \in 0..c - 1
  OBVIOUS
<1>2. \A i \in 0..n - 1 : i \in 0..m - 1 /\ i \in 0..c - 1 /\ i \notin n..m - 1
  OBVIOUS
<1>3. \A i \in n..c - 1 : i \in 0..c - 1 /\ (i \notin n..m - 1 => i \in m..c - 1)
  OBVIOUS
<1>4. ASSUME NEW i \in n..m - 1 PROVE Array!Destroy(S, i)[i] = Raw
  BY <1>1, LivedSlots DEF Array!Destroy
<1>5. Array!Destruct(S, n, m) = T
  BY <1>4, LivedSlots DEF Array!Destruct
<1>6. T = [k \in 0..c - 1 |-> T[k]] /\ \A k \in 0..c - 1 : T[k] = IF k \in n..m - 1 THEN Raw ELSE S[k]
  OBVIOUS
<1> HIDE DEF T
<1>7. \A k \in 0..n - 1 : Array!Lives(T[k])
  BY <1>2, <1>6, LivedSlots
<1>8. \A k \in n..c - 1 : T[k] = Raw
  BY <1>3, <1>6, LivedSlots
<1> QED BY <1>1, <1>5, <1>6, <1>7, <1>8, LivedFrom

LEMMA ConstructAtKeeps ==
  ASSUME Array!ArrayAssumption, NEW c \in Nat, NEW m \in 0..c, NEW n \in 0..m,
         NEW S \in Lived(c, n), NEW x \in [0..m - n - 1 -> ArrayElement]
  PROVE  Array!ConstructAt(S, n, x) \in Lived(c, m)
<1> DEFINE T == [i \in 0..c - 1 |-> IF i - n \in 0..m - n - 1 THEN x[i - n] ELSE S[i]]
<1>1. n \in 0..c /\ DOMAIN x = 0..m - n - 1
  OBVIOUS
<1>2. \A i \in 0..c - 1 : i - n \in 0..m - n - 1 => i \in n..c - 1 /\ i \in 0..c - 1
  OBVIOUS
<1>3. \A i \in 0..m - 1 : i \in 0..c - 1 /\ (i - n \notin 0..m - n - 1 => i \in 0..n - 1)
  OBVIOUS
<1>4. \A i \in m..c - 1 : i \in n..c - 1 /\ i \in 0..c - 1 /\ i - n \notin 0..m - n - 1
  OBVIOUS
<1>5. \A j \in 0..m - n - 1 : Array!Lives(x[j])
  BY DEF Array!Lives
<1>6. ASSUME NEW i \in 0..c - 1, i - n \in 0..m - n - 1
      PROVE  Array!Construct(S, i, x[i - n])[i] = x[i - n]
  <2>1. S[i] = Raw /\ i \in DOMAIN S /\ Array!Lives(x[i - n])
    BY <1>1, <1>2, <1>5, <1>6, LivedSlots
  <2> QED BY <2>1 DEF Array!Construct
<1>7. Array!ConstructAt(S, n, x) = T
  BY <1>1, <1>6, LivedSlots DEF Array!ConstructAt
<1>8. T = [k \in 0..c - 1 |-> T[k]]
      /\ \A k \in 0..c - 1 : T[k] = IF k - n \in 0..m - n - 1 THEN x[k - n] ELSE S[k]
  OBVIOUS
<1> HIDE DEF T
<1>9. \A k \in 0..m - 1 : Array!Lives(T[k])
  BY <1>1, <1>3, <1>5, <1>8, LivedSlots
<1>10. \A k \in m..c - 1 : T[k] = Raw
  BY <1>1, <1>4, <1>8, LivedSlots
<1> QED BY <1>7, <1>8, <1>9, <1>10, LivedFrom

(* What a move leaves behind lives. *)
LEMMA LeaveAllKeeps ==
  ASSUME Array!ArrayAssumption, NEW c \in Nat, NEW n \in 0..c, NEW S \in Lived(c, n)
  PROVE  [i \in DOMAIN S |-> IF i < n THEN Array!MovedFrom(S, i)[i] ELSE S[i]] \in Lived(c, n)
<1> DEFINE T == [i \in 0..c - 1 |-> IF i < n THEN Moved ELSE S[i]]
<1>1. Array!Lives(Moved)
  BY DEF Array!Lives
<1>2. \A i \in 0..n - 1 : i \in 0..c - 1 /\ i < n
  OBVIOUS
<1>3. \A i \in n..c - 1 : i \in 0..c - 1 /\ ~(i < n)
  OBVIOUS
<1>4. ASSUME NEW i \in 0..c - 1, i < n PROVE Array!MovedFrom(S, i)[i] = Moved
  <2>1. i \in 0..n - 1
    BY <1>4
  <2> QED BY <2>1, LivedSlots DEF Array!MovedFrom
<1>5. [i \in DOMAIN S |-> IF i < n THEN Array!MovedFrom(S, i)[i] ELSE S[i]] = T
  BY <1>4, LivedSlots
<1>6. T = [k \in 0..c - 1 |-> T[k]] /\ \A k \in 0..c - 1 : T[k] = IF k < n THEN Moved ELSE S[k]
  OBVIOUS
<1> HIDE DEF T
<1>7. \A k \in 0..n - 1 : Array!Lives(T[k])
  BY <1>1, <1>2, <1>6
<1>8. \A k \in n..c - 1 : T[k] = Raw
  BY <1>3, <1>6, LivedSlots
<1> QED BY <1>5, <1>6, <1>7, <1>8, LivedFrom

(* insert: the elements shift up, from the last one to the position. *)
LEMMA InsertedKeeps ==
  ASSUME Array!ArrayAssumption, NEW c \in Nat, NEW n \in 1..c - 1, NEW S \in Lived(c, n),
         NEW pos \in 0..n - 1, NEW v \in ArrayElement
  PROVE  Array!Inserted(S, pos, n, v) \in Lived(c, n + 1)
<1> DEFINE L == Lived(c, n + 1)
           N == n - pos
           Q == [k \in 0..N |-> L]
           S0 == Array!MoveConstruct(S, n, n - 1)
           Is(f) == f = [i \in pos..n |->
                           IF i = n THEN Array!MoveConstruct(S, n, n - 1)
                           ELSE IF i = n - 1 THEN f[n]
                           ELSE Array!AssignTo(f[i + 1], i + 1, f[i + 1][i])]
           Round(k, T) == IF k = 1 THEN T ELSE Array!AssignTo(T, n - k + 1, T[n - k])
           G == [p \in (1..N) \X L |-> Round(p[1], p[2])]
<1>1. N \in Nat /\ n + 1 \in 0..c /\ n \in pos..n
  OBVIOUS
<1>2. S0 \in L
  BY MoveUpKeeps
<1>3. ASSUME NEW k \in 1..N, NEW T \in L PROVE Round(k, T) \in L
  <2>1. n - k + 1 \in 0..(n + 1) - 1 /\ n - k \in 0..(n + 1) - 1
    OBVIOUS
  <2>2. Array!Lives(T[n - k])
    BY <1>1, <2>1, LivedSlots
  <2> QED BY <1>1, <2>1, <2>2, AssignKeeps
<1> HIDE DEF L, S0, Round
<1>4. \A k \in 1..N : \A T \in L : G[<<k, T>>] = Round(k, T)
  OBVIOUS
<1>5. Loops(N, Q, S0, G)
  BY <1>1, <1>2, <1>3 DEF Loops
<1>6. PICK h : Computes(N, Q, S0, G, h)
  BY <1>1, <1>5, LoopExists
<1> DEFINE g == [i \in pos..n |-> h[n - i]]
<1>7. Is(g)
  <2>1. h[0] = S0 /\ \A k \in 1..N : h[k] = Round(k, h[k - 1])
    <3>1. \A k \in 1..N : k - 1 \in 0..N /\ Q[k - 1] = L
      OBVIOUS
    <3> QED BY <1>4, <1>6, <3>1 DEF Computes
  <2>2. ASSUME NEW i \in pos..n
        PROVE  g[i] = IF i = n THEN S0 ELSE IF i = n - 1 THEN g[n]
                      ELSE Array!AssignTo(g[i + 1], i + 1, g[i + 1][i])
    <3>1. CASE i = n
      BY <2>1, <3>1
    <3>2. CASE i = n - 1
      <4>1. n - i = 1 /\ 1 \in 1..N /\ g[i] = h[1] /\ g[n] = h[0]
        BY <1>1, <3>2
      <4>2. h[1] = h[0] /\ i # n
        <5>1. 1 - 1 = 0 /\ n - 1 # n
          BY <1>1
        <5> QED BY <2>1, <3>2, <4>1, <5>1 DEF Round
      <4> HIDE DEF g
      <4> QED BY <3>2, <4>1, <4>2
    <3>3. CASE i # n /\ i # n - 1
      <4>1. n - i \in 1..N /\ n - i # 1 /\ n - (n - i) + 1 = i + 1 /\ n - (n - i) = i
            /\ i + 1 \in pos..n /\ n - (i + 1) = n - i - 1
        BY <3>3
      <4>2. g[i] = h[n - i] /\ g[i + 1] = h[n - i - 1]
        BY <4>1
      <4> HIDE DEF g
      <4> QED BY <2>1, <3>3, <4>1, <4>2 DEF Round
    <3> QED BY <3>1, <3>2, <3>3
  <2>3. g = [i \in pos..n |-> g[i]]
    OBVIOUS
  <2> HIDE DEF g
  <2> QED BY <2>2, <2>3 DEF S0
<1> DEFINE f == CHOOSE f : Is(f)
<1>8. Is(f)
  BY <1>7
<1>9. Array!Inserted(S, pos, n, v) = Array!AssignTo(f[pos], pos, v)
  BY DEF Array!Inserted
<1> HIDE DEF f
<1>10. f[pos] \in L
  <2> DEFINE d == [k \in 0..N |-> f[n - k]]
  <2>1. \A i \in pos..n : f[i] = IF i = n THEN S0 ELSE IF i = n - 1 THEN f[n]
                                 ELSE Array!AssignTo(f[i + 1], i + 1, f[i + 1][i])
    BY <1>8 DEF S0
  <2>2. d[0] \in Q[0]
    BY <1>1, <1>2, <2>1
  <2>3. ASSUME NEW k \in 1..N, d[k - 1] \in Q[k - 1] PROVE d[k] \in Q[k]
    <3>1. k - 1 \in 0..N /\ d[k - 1] = f[n - (k - 1)] /\ n - (k - 1) = n - k + 1
          /\ d[k] = f[n - k] /\ n - k \in pos..n /\ n - k # n /\ (n - k = n - 1 <=> k = 1)
      BY <1>1
    <3>2. f[n - k + 1] \in L
      BY <2>3, <3>1
    <3>3. f[n - k] = Round(k, f[n - k + 1])
      <4>1. CASE k = 1
        <5>1. n - k + 1 = n
          BY <4>1
        <5> QED BY <2>1, <3>1, <4>1, <5>1 DEF Round
      <4>2. CASE k # 1
        BY <2>1, <3>1, <4>2 DEF Round
      <4> QED BY <4>1, <4>2
    <3> QED BY <1>3, <3>1, <3>2, <3>3
  <2>4. \A k \in 0..N : d[k] \in Q[k]
    <3> HIDE DEF d, Q, N
    <3> QED BY <1>1, <2>2, <2>3, LoopKeeps
  <2>5. N \in 0..N /\ d[N] = f[pos]
    BY <1>1
  <2> QED BY <2>4, <2>5
<1>11. pos \in 0..(n + 1) - 1 /\ Array!Lives(v)
  BY DEF Array!Lives
<1> QED BY <1>1, <1>9, <1>10, <1>11, AssignKeeps DEF L

(* erase: the elements behind the position shift down. *)
LEMMA ErasedKeeps ==
  ASSUME Array!ArrayAssumption, NEW c \in Nat, NEW n \in 0..c, NEW S \in Lived(c, n),
         NEW pos \in 0..n - 1
  PROVE  Array!Erased(S, pos, n) \in Lived(c, n - 1)
<1> DEFINE L == Lived(c, n)
           N == n - 1 - pos
           Q == [k \in 0..N |-> L]
           Is(f) == f = [i \in pos..n - 1 |->
                           IF i = pos THEN S ELSE Array!MoveAssign(f[i - 1], i - 1, i)]
           Round(k, T) == Array!MoveAssign(T, pos + k - 1, pos + k)
           G == [p \in (1..N) \X L |-> Round(p[1], p[2])]
<1>1. N \in Nat /\ n # 0 /\ pos + N = n - 1
  OBVIOUS
<1>2. ASSUME NEW k \in 1..N, NEW T \in L PROVE Round(k, T) \in L
  <2>1. pos + k - 1 \in 0..n - 1 /\ pos + k \in 0..n - 1
    OBVIOUS
  <2> QED BY <2>1, MoveAssignKeeps
<1> HIDE DEF L, Round
<1>3. \A k \in 1..N : \A T \in L : G[<<k, T>>] = Round(k, T)
  OBVIOUS
<1>4. S \in L
  BY DEF L
<1>5. Loops(N, Q, S, G)
  BY <1>1, <1>2, <1>4 DEF Loops
<1>6. PICK h : Computes(N, Q, S, G, h)
  BY <1>1, <1>5, LoopExists
<1> DEFINE g == [i \in pos..n - 1 |-> h[i - pos]]
<1>7. Is(g)
  <2>1. h[0] = S /\ \A k \in 1..N : h[k] = Round(k, h[k - 1])
    <3>1. \A k \in 1..N : k - 1 \in 0..N /\ Q[k - 1] = L
      OBVIOUS
    <3> QED BY <1>3, <1>6, <3>1 DEF Computes
  <2>2. ASSUME NEW i \in pos..n - 1
        PROVE  g[i] = IF i = pos THEN S ELSE Array!MoveAssign(g[i - 1], i - 1, i)
    <3>1. CASE i = pos
      BY <2>1, <3>1
    <3>2. CASE i # pos
      <4>1. i - pos \in 1..N /\ pos + (i - pos) = i /\ pos + (i - pos) - 1 = i - 1
            /\ i - 1 \in pos..n - 1 /\ (i - 1) - pos = (i - pos) - 1
        BY <3>2
      <4>2. g[i] = h[i - pos] /\ g[i - 1] = h[(i - pos) - 1]
        BY <4>1
      <4> HIDE DEF g
      <4> QED BY <2>1, <3>2, <4>1, <4>2 DEF Round
    <3> QED BY <3>1, <3>2
  <2>3. g = [i \in pos..n - 1 |-> g[i]]
    OBVIOUS
  <2> HIDE DEF g
  <2> QED BY <2>2, <2>3
<1> DEFINE f == CHOOSE f : Is(f)
<1>8. Is(f)
  BY <1>7
<1>9. Array!Erased(S, pos, n) = Array!Destroy(f[n - 1], n - 1)
  BY DEF Array!Erased
<1> HIDE DEF f
<1>10. f[n - 1] \in L
  <2> DEFINE d == [k \in 0..N |-> f[pos + k]]
  <2>1. \A i \in pos..n - 1 : f[i] = IF i = pos THEN S ELSE Array!MoveAssign(f[i - 1], i - 1, i)
    BY <1>8
  <2>2. d[0] \in Q[0]
    BY <1>1, <1>4, <2>1
  <2>3. ASSUME NEW k \in 1..N, d[k - 1] \in Q[k - 1] PROVE d[k] \in Q[k]
    <3>1. k - 1 \in 0..N /\ d[k - 1] = f[pos + (k - 1)] /\ pos + (k - 1) = pos + k - 1
          /\ d[k] = f[pos + k] /\ pos + k \in pos..n - 1 /\ pos + k # pos
      BY <1>1
    <3>2. f[pos + k - 1] \in L
      BY <2>3, <3>1
    <3>3. f[pos + k] = Round(k, f[pos + k - 1])
      BY <2>1, <3>1 DEF Round
    <3> QED BY <1>2, <3>1, <3>2, <3>3
  <2>4. \A k \in 0..N : d[k] \in Q[k]
    <3> HIDE DEF d, Q, N
    <3> QED BY <1>1, <2>2, <2>3, LoopKeeps
  <2>5. N \in 0..N /\ d[N] = f[n - 1]
    BY <1>1
  <2> QED BY <2>4, <2>5
<1> QED BY <1>1, <1>9, <1>10, DestroyKeeps DEF L

LEMMA ErasedUnorderedKeeps ==
  ASSUME Array!ArrayAssumption, NEW c \in Nat, NEW n \in 0..c, NEW S \in Lived(c, n),
         NEW pos \in 0..n - 1
  PROVE  Array!ErasedUnordered(S, pos, n - 1) \in Lived(c, n - 1)
<1>1. n # 0 /\ n - 1 \in 0..n - 1
  OBVIOUS
<1>2. Array!MoveAssign(S, pos, n - 1) \in Lived(c, n)
  BY <1>1, MoveAssignKeeps
<1> QED BY <1>1, <1>2, DestroyKeeps DEF Array!ErasedUnordered

(* erase_if: at most as many elements are gone as rounds are over. *)
LEMMA ErasedIfKeeps ==
  ASSUME Array!ArrayAssumption, NEW c \in Nat, NEW n \in 0..c, NEW S \in Lived(c, n), NEW P
  PROVE  LET H == Array!ErasedIf(S, n, P) IN H[2] \in 0..n /\ H[1] \in Lived(c, H[2])
<1> DEFINE L(k) == {H \in Storage(c) \X (0..n) : n - k <= H[2] /\ H[1] \in Lived(c, H[2])}
           Q == [k \in 0..n |-> L(k)]
           Step(H, index) ==
             IF H[1][index] \in P
             THEN <<Array!ErasedUnordered(H[1], index, H[2] - 1), H[2] - 1>> ELSE H
           Is(f) == f = [k \in 0..n |-> IF k = 0 THEN <<S, n>> ELSE Step(f[k - 1], n - k)]
           G == [p \in (1..n) \X (Storage(c) \X (0..n)) |-> Step(p[2], n - p[1])]
<1>1. n \in Nat
  OBVIOUS
<1>2. ASSUME NEW k \in 1..n, NEW H \in L(k - 1) PROVE Step(H, n - k) \in L(k)
  <2>1. CASE H[1][n - k] \in P
    <3>1. H[2] \in 0..c /\ n - k \in 0..H[2] - 1 /\ H[2] - 1 \in 0..n /\ n - k <= H[2] - 1
      OBVIOUS
    <3>2. H[1] \in Lived(c, H[2])
      OBVIOUS
    <3>3. Array!ErasedUnordered(H[1], n - k, H[2] - 1) \in Lived(c, H[2] - 1)
      BY <3>1, <3>2, ErasedUnorderedKeeps
    <3>4. Array!ErasedUnordered(H[1], n - k, H[2] - 1) \in Storage(c)
      BY <3>3 DEF Lived
    <3> QED BY <2>1, <3>1, <3>3, <3>4
  <2>2. CASE H[1][n - k] \notin P
    BY <2>2
  <2> QED BY <2>1, <2>2
<1>3. \A k \in 1..n : k - 1 \in 0..n /\ L(k - 1) \subseteq Storage(c) \X (0..n)
  OBVIOUS
<1>4. <<S, n>> \in L(0)
  BY DEF Lived
<1> HIDE DEF L, Step
<1>5. \A k \in 1..n : \A H \in L(k - 1) : G[<<k, H>>] = Step(H, n - k)
  BY <1>3
<1>6. Loops(n, Q, <<S, n>>, G)
  BY <1>1, <1>2, <1>3, <1>4, <1>5 DEF Loops
<1>7. PICK h : Computes(n, Q, <<S, n>>, G, h)
  BY <1>1, <1>6, LoopExists
<1> DEFINE g == [k \in 0..n |-> h[k]]
<1>8. Is(g)
  <2>1. h[0] = <<S, n>> /\ \A k \in 1..n : h[k] = Step(h[k - 1], n - k)
    BY <1>3, <1>5, <1>7 DEF Computes
  <2>2. ASSUME NEW k \in 0..n
        PROVE  g[k] = IF k = 0 THEN <<S, n>> ELSE Step(g[k - 1], n - k)
    <3>1. k # 0 => k \in 1..n /\ k - 1 \in 0..n
      OBVIOUS
    <3> QED BY <2>1, <3>1
  <2>3. g = [k \in 0..n |-> g[k]]
    OBVIOUS
  <2> HIDE DEF g
  <2> QED BY <2>2, <2>3
<1> DEFINE f == CHOOSE f : Is(f)
<1>9. Is(f)
  BY <1>8
<1>10. Array!ErasedIf(S, n, P) = f[n]
  BY DEF Array!ErasedIf, Step
<1> HIDE DEF f
<1>11. f[n] \in L(n)
  <2>1. \A k \in 0..n : f[k] = IF k = 0 THEN <<S, n>> ELSE Step(f[k - 1], n - k)
    BY <1>9
  <2>2. f[0] \in Q[0]
    BY <1>1, <1>4, <2>1
  <2>3. \A k \in 1..n : f[k - 1] \in Q[k - 1] => f[k] \in Q[k]
    BY <1>2, <1>3, <2>1
  <2>4. \A k \in 0..n : f[k] \in Q[k]
    <3> HIDE DEF Q
    <3> QED BY <1>1, <2>2, <2>3, LoopKeeps
  <2> QED BY <1>1, <2>4
<1> QED BY <1>10, <1>11 DEF L

(* The heap of the elements: what rises and sinks changes places with a    *)
(* parent or a child, both of which live.                                  *)
LEMMA SwappedKeeps ==
  ASSUME Array!ArrayAssumption, NEW c \in Nat, NEW n \in 0..c, NEW S \in Lived(c, n),
         NEW i \in 0..n - 1, NEW j \in 0..n - 1
  PROVE  Array!Swapped(S, i, j) \in Lived(c, n)
<1> DEFINE T == [S EXCEPT ![i] = S[j], ![j] = S[i]]
<1>1. T = [k \in 0..c - 1 |-> T[k]]
      /\ \A k \in 0..c - 1 : T[k] = IF k = j THEN S[i] ELSE IF k = i THEN S[j] ELSE S[k]
  BY LivedSlots
<1>2. Array!Swapped(S, i, j) = T
  BY DEF Array!Swapped
<1>3. \A k \in n..c - 1 : k # i /\ k # j
  OBVIOUS
<1> HIDE DEF T
<1>4. \A k \in 0..n - 1 : Array!Lives(T[k])
  <2>1. \A k \in 0..n - 1 : k \in 0..c - 1 /\ Array!Lives(S[k])
    BY LivedSlots
  <2> QED BY <1>1, <2>1
<1>5. \A k \in n..c - 1 : T[k] = Raw
  BY <1>1, <1>3, LivedSlots
<1> QED BY <1>1, <1>2, <1>4, <1>5, LivedFrom

LEMMA ParentBelow ==
  ASSUME NEW i \in Nat, i # 0
  PROVE  Array!ParentOf(0, i) \in 0..i - 1
<1>1. (i - 1) \div 2 \in 0..i - 1 /\ i - 0 - 1 = i - 1
  OBVIOUS
<1> QED BY <1>1 DEF Array!ParentOf

LEMMA SiftedUpKeeps ==
  ASSUME Array!ArrayAssumption, NEW c \in Nat, NEW n \in 0..c, NEW S \in Lived(c, n),
         NEW node \in 0..n - 1
  PROVE  Array!SiftedUp(S, 0, node) \in Lived(c, n)
<1> DEFINE L == Lived(c, n) \X (0..n - 1)
           N == node - 0
           Q == [k \in 0..N |-> L]
           Is(f) == f = [k \in 0..N |-> IF k = 0 THEN <<S, node>> ELSE Array!Rise(f[k - 1], 0)]
           G == [p \in (1..N) \X L |-> Array!Rise(p[2], 0)]
<1>1. N \in Nat /\ N = node
  OBVIOUS
<1>2. ASSUME NEW H \in L PROVE Array!Rise(H, 0) \in L
  <2> DEFINE parent == Array!ParentOf(0, H[2])
  <2>1. H[1] \in Lived(c, n) /\ H[2] \in 0..n - 1 /\ H[2] \in Nat
    OBVIOUS
  <2>2. CASE H[2] # 0 /\ H[1][parent] < H[1][H[2]]
    <3>1. parent \in 0..H[2] - 1
      BY <2>1, <2>2, ParentBelow
    <3>2. parent \in 0..n - 1
      BY <2>1, <3>1
    <3>3. Array!Swapped(H[1], parent, H[2]) \in Lived(c, n)
      BY <2>1, <3>2, SwappedKeeps
    <3>4. Array!Rise(H, 0) = <<Array!Swapped(H[1], parent, H[2]), parent>>
      BY <2>2 DEF Array!Rise
    <3> QED BY <3>2, <3>3, <3>4
  <2>3. CASE ~(H[2] # 0 /\ H[1][parent] < H[1][H[2]])
    BY <2>3 DEF Array!Rise
  <2> QED BY <2>2, <2>3
<1>3. <<S, node>> \in L
  OBVIOUS
<1>4. \A H \in L : H[1] \in Lived(c, n)
  OBVIOUS
<1> HIDE DEF L
<1>5. \A k \in 1..N : k - 1 \in 0..N /\ \A H \in L : G[<<k, H>>] = Array!Rise(H, 0)
  OBVIOUS
<1>6. Loops(N, Q, <<S, node>>, G)
  BY <1>1, <1>2, <1>3, <1>5 DEF Loops
<1>7. PICK h : Computes(N, Q, <<S, node>>, G, h)
  BY <1>1, <1>6, LoopExists
<1> DEFINE g == [k \in 0..N |-> h[k]]
<1>8. Is(g)
  <2>1. h[0] = <<S, node>> /\ \A k \in 1..N : h[k] = Array!Rise(h[k - 1], 0)
    BY <1>5, <1>7 DEF Computes
  <2>2. ASSUME NEW k \in 0..N
        PROVE  g[k] = IF k = 0 THEN <<S, node>> ELSE Array!Rise(g[k - 1], 0)
    <3>1. k # 0 => k \in 1..N /\ k - 1 \in 0..N
      BY <1>1
    <3> QED BY <2>1, <3>1
  <2>3. g = [k \in 0..N |-> g[k]]
    OBVIOUS
  <2> HIDE DEF g
  <2> QED BY <2>2, <2>3
<1> DEFINE f == CHOOSE f : Is(f)
<1>9. Is(f)
  BY <1>8
<1>10. Array!SiftedUp(S, 0, node) = f[N][1]
  BY DEF Array!SiftedUp
<1> HIDE DEF f
<1>11. f[N] \in L
  <2>1. \A k \in 0..N : f[k] = IF k = 0 THEN <<S, node>> ELSE Array!Rise(f[k - 1], 0)
    BY <1>9
  <2>2. f[0] \in Q[0]
    BY <1>1, <1>3, <2>1
  <2>3. \A k \in 1..N : f[k - 1] \in Q[k - 1] => f[k] \in Q[k]
    BY <1>2, <1>5, <2>1
  <2>4. \A k \in 0..N : f[k] \in Q[k]
    <3> HIDE DEF Q, N
    <3> QED BY <1>1, <2>2, <2>3, LoopKeeps
  <2> QED BY <1>1, <2>4
<1> QED BY <1>4, <1>10, <1>11

LEMMA MadeHeapKeeps ==
  ASSUME Array!ArrayAssumption, NEW c \in Nat, NEW n \in 0..c, NEW S \in Lived(c, n)
  PROVE  Array!MadeHeap(S, 0, n) \in Lived(c, n)
<1> DEFINE L == Lived(c, n)
           Q == [k \in 0..n |-> L]
           Round(k, T) == IF k <= 0 + 1 THEN S ELSE Array!SiftedUp(T, 0, k - 1)
           Is(f) == f = [heap_end \in 0..n |->
                           IF heap_end <= 0 + 1 THEN S
                           ELSE Array!SiftedUp(f[heap_end - 1], 0, heap_end - 1)]
           G == [p \in (1..n) \X L |-> Round(p[1], p[2])]
<1>1. n \in Nat
  OBVIOUS
<1>2. ASSUME NEW k \in 1..n, NEW T \in L PROVE Round(k, T) \in L
  <2>1. k - 1 \in 0..n - 1
    OBVIOUS
  <2> QED BY <2>1, SiftedUpKeeps
<1>3. S \in L
  OBVIOUS
<1> HIDE DEF L, Round
<1>4. \A k \in 1..n : k - 1 \in 0..n /\ \A T \in L : G[<<k, T>>] = Round(k, T)
  OBVIOUS
<1>5. Loops(n, Q, S, G)
  BY <1>1, <1>2, <1>3, <1>4 DEF Loops
<1>6. PICK h : Computes(n, Q, S, G, h)
  BY <1>1, <1>5, LoopExists
<1> DEFINE g == [k \in 0..n |-> h[k]]
<1>7. Is(g)
  <2>1. h[0] = S /\ \A k \in 1..n : h[k] = Round(k, h[k - 1])
    BY <1>4, <1>6 DEF Computes
  <2>2. ASSUME NEW k \in 0..n
        PROVE  g[k] = IF k <= 0 + 1 THEN S ELSE Array!SiftedUp(g[k - 1], 0, k - 1)
    <3>1. k # 0 => k \in 1..n /\ k - 1 \in 0..n
      OBVIOUS
    <3>2. k = 0 => k <= 0 + 1
      OBVIOUS
    <3> QED BY <2>1, <3>1, <3>2 DEF Round
  <2>3. g = [k \in 0..n |-> g[k]]
    OBVIOUS
  <2> HIDE DEF g
  <2> QED BY <2>2, <2>3
<1> DEFINE f == CHOOSE f : Is(f)
<1>8. Is(f)
  BY <1>7
<1>9. Array!MadeHeap(S, 0, n) = f[n]
  BY DEF Array!MadeHeap
<1> HIDE DEF f
<1>10. f[n] \in L
  <2>1. \A k \in 0..n : f[k] = IF k <= 0 + 1 THEN S ELSE Array!SiftedUp(f[k - 1], 0, k - 1)
    BY <1>8
  <2>2. f[0] \in Q[0]
    BY <1>1, <1>3, <2>1
  <2>3. \A k \in 1..n : f[k - 1] \in Q[k - 1] => f[k] \in Q[k]
    <3>1. \A k \in 1..n : f[k] = Round(k, f[k - 1])
      BY <2>1 DEF Round
    <3> QED BY <1>2, <1>4, <3>1
  <2>4. \A k \in 0..n : f[k] \in Q[k]
    <3> HIDE DEF Q
    <3> QED BY <1>1, <2>2, <2>3, LoopKeeps
  <2> QED BY <1>1, <2>4
<1> QED BY <1>9, <1>10 DEF L

LEMMA SiftedDownKeeps ==
  ASSUME Array!ArrayAssumption, NEW c \in Nat, NEW n \in 0..c, n # 0, NEW S \in Lived(c, n)
  PROVE  Array!SiftedDown(S, 0, 0, n) \in Lived(c, n)
<1> DEFINE L == Lived(c, n) \X (0..n - 1)
           N == n - 0
           Q == [k \in 0..N |-> L]
           Is(f) == f = [k \in 0..N |-> IF k = 0 THEN <<S, 0>> ELSE Array!Sink(f[k - 1], 0, n)]
           G == [p \in (1..N) \X L |-> Array!Sink(p[2], 0, n)]
<1>1. N \in Nat /\ N = n
  OBVIOUS
<1>2. ASSUME NEW H \in L PROVE Array!Sink(H, 0, n) \in L
  <2> DEFINE left == Array!LeftOf(0, H[2])
             next == IF left + 1 < n /\ H[1][left] < H[1][left + 1] THEN left + 1 ELSE left
  <2>1. H[1] \in Lived(c, n) /\ H[2] \in 0..n - 1 /\ left \in Nat
    BY DEF Array!LeftOf
  <2>2. CASE left < n /\ H[1][H[2]] < H[1][next]
    <3>1. next \in 0..n - 1
      BY <2>1, <2>2
    <3> HIDE DEF next
    <3>2. Array!Swapped(H[1], H[2], next) \in Lived(c, n)
      BY <2>1, <3>1, SwappedKeeps
    <3>3. Array!Sink(H, 0, n) = <<Array!Swapped(H[1], H[2], next), next>>
      BY <2>1, <2>2 DEF Array!Sink, next
    <3> QED BY <3>1, <3>2, <3>3
  <2>3. CASE ~(left < n /\ H[1][H[2]] < H[1][next])
    <3>1. Array!Sink(H, 0, n) = H
      BY <2>1, <2>3 DEF Array!Sink
    <3> QED BY <3>1
  <2> QED BY <2>2, <2>3
<1>3. <<S, 0>> \in L
  OBVIOUS
<1>4. \A H \in L : H[1] \in Lived(c, n)
  OBVIOUS
<1> HIDE DEF L
<1>5. \A k \in 1..N : k - 1 \in 0..N /\ \A H \in L : G[<<k, H>>] = Array!Sink(H, 0, n)
  OBVIOUS
<1>6. Loops(N, Q, <<S, 0>>, G)
  BY <1>1, <1>2, <1>3, <1>5 DEF Loops
<1>7. PICK h : Computes(N, Q, <<S, 0>>, G, h)
  BY <1>1, <1>6, LoopExists
<1> DEFINE g == [k \in 0..N |-> h[k]]
<1>8. Is(g)
  <2>1. h[0] = <<S, 0>> /\ \A k \in 1..N : h[k] = Array!Sink(h[k - 1], 0, n)
    BY <1>5, <1>7 DEF Computes
  <2>2. ASSUME NEW k \in 0..N
        PROVE  g[k] = IF k = 0 THEN <<S, 0>> ELSE Array!Sink(g[k - 1], 0, n)
    <3>1. k # 0 => k \in 1..N /\ k - 1 \in 0..N
      BY <1>1
    <3> QED BY <2>1, <3>1
  <2>3. g = [k \in 0..N |-> g[k]]
    OBVIOUS
  <2> HIDE DEF g
  <2> QED BY <2>2, <2>3
<1> DEFINE f == CHOOSE f : Is(f)
<1>9. Is(f)
  BY <1>8
<1>10. Array!SiftedDown(S, 0, 0, n) = f[N][1]
  BY DEF Array!SiftedDown
<1> HIDE DEF f
<1>11. f[N] \in L
  <2>1. \A k \in 0..N : f[k] = IF k = 0 THEN <<S, 0>> ELSE Array!Sink(f[k - 1], 0, n)
    BY <1>9
  <2>2. f[0] \in Q[0]
    BY <1>1, <1>3, <2>1
  <2>3. \A k \in 1..N : f[k - 1] \in Q[k - 1] => f[k] \in Q[k]
    BY <1>2, <1>5, <2>1
  <2>4. \A k \in 0..N : f[k] \in Q[k]
    <3> HIDE DEF Q, N
    <3> QED BY <1>1, <2>2, <2>3, LoopKeeps
  <2> QED BY <1>1, <2>4
<1> QED BY <1>4, <1>10, <1>11

(* push_heap: a slot j without an object rises among the first m.          *)
Holed(c, m, j) ==
  {S \in Storage(c) :
     /\ \A i \in 0..m - 1 : i # j => Array!Lives(S[i])
     /\ S[j] = Raw /\ \A i \in m..c - 1 : S[i] = Raw}

LEMMA HoleRises ==
  ASSUME Array!ArrayAssumption, NEW c \in Nat, NEW m \in 0..c,
         NEW j \in 0..m - 1, NEW p \in 0..m - 1, p # j, NEW S \in Holed(c, m, j)
  PROVE  Array!Destroy(Array!MoveConstruct(S, j, p), p) \in Holed(c, m, p)
<1> DEFINE T == [S EXCEPT ![j] = S[p]]
           U == [T EXCEPT ![p] = Moved]
           V == [U EXCEPT ![p] = Raw]
<1>1. /\ S \in [0..c - 1 -> SlotValue] /\ j \in 0..c - 1 /\ p \in 0..c - 1
      /\ S[j] = Raw /\ \A i \in 0..m - 1 : i # j => Array!Lives(S[i])
      /\ \A i \in m..c - 1 : S[i] = Raw
  BY DEF Holed, Storage
<1>2. Array!Lives(S[p]) /\ Array!Lives(Moved) /\ {Raw, Moved} \subseteq SlotValue
  BY <1>1 DEF Array!Lives, SlotValue
<1>3. Array!Construct(S, j, S[p]) = T
  BY <1>1, <1>2 DEF Array!Construct
<1>4. T \in [0..c - 1 -> SlotValue] /\ T[p] = S[p]
  BY <1>1
<1>5. Array!MovedFrom(T, p) = U
  BY <1>2, <1>4 DEF Array!MovedFrom
<1>6. U \in [0..c - 1 -> SlotValue] /\ U[p] = Moved
  BY <1>1, <1>2, <1>4
<1>7. Array!Destroy(U, p) = V
  BY <1>2, <1>6 DEF Array!Destroy
<1>8. Array!Destroy(Array!MoveConstruct(S, j, p), p) = V
  BY <1>3, <1>5, <1>7 DEF Array!MoveConstruct
<1>9. V \in [0..c - 1 -> SlotValue] /\ V[p] = Raw
      /\ \A i \in 0..c - 1 : i # p => V[i] = IF i = j THEN S[p] ELSE S[i]
  BY <1>1, <1>2
<1>10. /\ \A i \in 0..m - 1 : i \in 0..c - 1
       /\ \A i \in m..c - 1 : i \in 0..c - 1 /\ i # j /\ i # p
  OBVIOUS
<1> HIDE DEF V
<1> QED BY <1>1, <1>2, <1>8, <1>9, <1>10 DEF Holed, Storage

LEMMA HoleIsFilled ==
  ASSUME Array!ArrayAssumption, NEW c \in Nat, NEW m \in 0..c,
         NEW j \in 0..m - 1, NEW S \in Holed(c, m, j), NEW v \in ArrayElement
  PROVE  Array!Construct(S, j, v) \in Lived(c, m)
<1> DEFINE T == [S EXCEPT ![j] = v]
<1>1. /\ S \in [0..c - 1 -> SlotValue] /\ j \in 0..c - 1 /\ S[j] = Raw /\ Array!Lives(v)
      /\ \A i \in 0..m - 1 : i # j => Array!Lives(S[i])
      /\ \A i \in m..c - 1 : S[i] = Raw
  BY DEF Holed, Storage, Array!Lives
<1>2. Array!Construct(S, j, v) = T
  BY <1>1 DEF Array!Construct
<1>3. T = [i \in 0..c - 1 |-> T[i]] /\ \A i \in 0..c - 1 : T[i] = IF i = j THEN v ELSE S[i]
  BY <1>1
<1>4. /\ \A i \in 0..m - 1 : i \in 0..c - 1
      /\ \A i \in m..c - 1 : i \in 0..c - 1 /\ i # j
  OBVIOUS
<1> HIDE DEF T
<1> QED BY <1>1, <1>2, <1>3, <1>4, LivedFrom

LEMMA PushedHeapKeeps ==
  ASSUME Array!ArrayAssumption, NEW c \in Nat, NEW n \in 0..c - 1, NEW S \in Lived(c, n),
         NEW v \in ArrayElement
  PROVE  Array!PushedHeap(S, n, v) \in Lived(c, n + 1)
<1> DEFINE m == n + 1
           L == {H \in Storage(c) \X (0..n) : H[1] \in Holed(c, m, H[2])}
           Q == [k \in 0..n |-> L]
           Step(H) ==
             IF H[2] # 0 /\ H[1][Array!ParentOf(0, H[2])] < v
             THEN <<Array!Destroy(Array!MoveConstruct(H[1], H[2], Array!ParentOf(0, H[2])),
                                  Array!ParentOf(0, H[2])), Array!ParentOf(0, H[2])>> ELSE H
           Is(f) == f = [k \in 0..n |-> IF k = 0 THEN <<S, n>> ELSE Step(f[k - 1])]
           G == [p \in (1..n) \X L |-> Step(p[2])]
<1>1. n \in Nat /\ m \in 0..c /\ n \in 0..c /\ 0..m - 1 = 0..n
  OBVIOUS
<1>2. ASSUME NEW H \in L PROVE Step(H) \in L
  <2> DEFINE p == Array!ParentOf(0, H[2])
  <2>1. H[1] \in Holed(c, m, H[2]) /\ H[2] \in 0..n /\ H[2] \in Nat
    OBVIOUS
  <2>2. CASE H[2] # 0 /\ H[1][p] < v
    <3>1. p \in 0..H[2] - 1
      BY <2>1, <2>2, ParentBelow
    <3>2. p \in 0..n /\ p # H[2]
      BY <2>1, <3>1
    <3> HIDE DEF p
    <3>3. Array!Destroy(Array!MoveConstruct(H[1], H[2], p), p) \in Holed(c, m, p)
      BY <1>1, <2>1, <3>2, HoleRises
    <3>4. Array!Destroy(Array!MoveConstruct(H[1], H[2], p), p) \in Storage(c)
      BY <3>3 DEF Holed
    <3>5. Step(H) = <<Array!Destroy(Array!MoveConstruct(H[1], H[2], p), p), p>>
      BY <2>2 DEF p
    <3> QED BY <3>2, <3>3, <3>4, <3>5
  <2>3. CASE ~(H[2] # 0 /\ H[1][p] < v)
    BY <2>3
  <2> QED BY <2>2, <2>3
<1>3. <<S, n>> \in L
  <2>1. /\ S \in Storage(c)
        /\ \A i \in 0..n - 1 : i \in 0..c - 1 /\ Array!Lives(S[i])
        /\ \A i \in n..c - 1 : i \in 0..c - 1 /\ S[i] = Raw
    BY <1>1, LivedSlots DEF Storage
  <2>2. n \in n..c - 1 /\ \A i \in m..c - 1 : i \in n..c - 1
    OBVIOUS
  <2>3. \A i \in 0..m - 1 : i # n => i \in 0..n - 1
    OBVIOUS
  <2>4. S \in Holed(c, m, n)
    BY <2>1, <2>2, <2>3 DEF Holed
  <2> QED BY <1>1, <2>1, <2>4
<1>4. \A H \in L : H[2] \in 0..m - 1 /\ H[1] \in Holed(c, m, H[2])
  BY <1>1
<1> HIDE DEF L, Step
<1>5. \A k \in 1..n : k - 1 \in 0..n /\ \A H \in L : G[<<k, H>>] = Step(H)
  OBVIOUS
<1>6. Loops(n, Q, <<S, n>>, G)
  BY <1>1, <1>2, <1>3, <1>5 DEF Loops
<1>7. PICK h : Computes(n, Q, <<S, n>>, G, h)
  BY <1>1, <1>6, LoopExists
<1> DEFINE g == [k \in 0..n |-> h[k]]
<1>8. Is(g)
  <2>1. h[0] = <<S, n>> /\ \A k \in 1..n : h[k] = Step(h[k - 1])
    BY <1>5, <1>7 DEF Computes
  <2>2. ASSUME NEW k \in 0..n
        PROVE  g[k] = IF k = 0 THEN <<S, n>> ELSE Step(g[k - 1])
    <3>1. k # 0 => k \in 1..n /\ k - 1 \in 0..n
      OBVIOUS
    <3> QED BY <2>1, <3>1
  <2>3. g = [k \in 0..n |-> g[k]]
    OBVIOUS
  <2> HIDE DEF g
  <2> QED BY <2>2, <2>3
<1> DEFINE f == CHOOSE f : Is(f)
<1>9. Is(f)
  BY <1>8
<1>10. Array!PushedHeap(S, n, v) = Array!Construct(f[n][1], f[n][2], v)
  BY DEF Array!PushedHeap, Step
<1> HIDE DEF f
<1>11. f[n] \in L
  <2>1. \A k \in 0..n : f[k] = IF k = 0 THEN <<S, n>> ELSE Step(f[k - 1])
    BY <1>9
  <2>2. f[0] \in Q[0]
    BY <1>1, <1>3, <2>1
  <2>3. \A k \in 1..n : f[k - 1] \in Q[k - 1] => f[k] \in Q[k]
    BY <1>2, <1>5, <2>1
  <2>4. \A k \in 0..n : f[k] \in Q[k]
    <3> HIDE DEF Q
    <3> QED BY <1>1, <2>2, <2>3, LoopKeeps
  <2> QED BY <1>1, <2>4
<1> HIDE DEF m
<1>12. Array!PushedHeap(S, n, v) \in Lived(c, m)
  BY <1>1, <1>4, <1>10, <1>11, HoleIsFilled
<1> QED BY <1>12 DEF m

(* for_each: the elements that the functor has not come to are known.      *)
LEMMA ForEachKeeps ==
  ASSUME Array!ArrayAssumption, NEW c \in Nat, NEW n \in 0..c, NEW S \in Lived(c, n),
         \A i \in 0..n - 1 : S[i] \in ArrayElement, NEW F \in [ArrayElement -> ArrayElement],
         NEW e, e = CHOOSE f : f = [k \in 0..n |-> IF k = 0 THEN S
                               ELSE Array!AssignTo(f[k - 1], k - 1, F[f[k - 1][k - 1]])]
  PROVE  e[n] \in Lived(c, n)
<1> DEFINE L(k) == {T \in Lived(c, n) : \A i \in k..n - 1 : T[i] \in ArrayElement}
           Q == [k \in 0..n |-> L(k)]
           Round(k, T) == Array!AssignTo(T, k - 1, F[T[k - 1]])
           Is(f) == f = [k \in 0..n |-> IF k = 0 THEN S
                               ELSE Array!AssignTo(f[k - 1], k - 1, F[f[k - 1][k - 1]])]
           G == [p \in (1..n) \X Lived(c, n) |-> Round(p[1], p[2])]
<1>1. n \in Nat
  OBVIOUS
<1>2. ASSUME NEW k \in 1..n, NEW T \in L(k - 1) PROVE Round(k, T) \in L(k)
  <2>1. k - 1 \in 0..n - 1 /\ k - 1 \in (k - 1)..n - 1
    OBVIOUS
  <2>2. Array!Lives(F[T[k - 1]])
    BY <2>1 DEF Array!Lives
  <2>3. Round(k, T) \in Lived(c, n) /\ Round(k, T) = [T EXCEPT ![k - 1] = F[T[k - 1]]]
    BY <2>1, <2>2, AssignKeeps
  <2>4. \A i \in k..n - 1 : i \in (k - 1)..n - 1 /\ i # k - 1 /\ i \in 0..n - 1
    OBVIOUS
  <2>5. DOMAIN T = 0..c - 1 /\ \A i \in 0..n - 1 : i \in 0..c - 1
    BY LivedSlots
  <2> HIDE DEF Round
  <2> QED BY <2>3, <2>4, <2>5
<1>3. \A k \in 1..n : k - 1 \in 0..n /\ L(k - 1) \subseteq Lived(c, n)
  OBVIOUS
<1>4. S \in L(0)
  OBVIOUS
<1>5. \A T \in L(n) : T \in Lived(c, n)
  OBVIOUS
<1> HIDE DEF L, Round
<1>6. \A k \in 1..n : \A T \in L(k - 1) : G[<<k, T>>] = Round(k, T)
  BY <1>3
<1>7. Loops(n, Q, S, G)
  BY <1>1, <1>2, <1>3, <1>4, <1>6 DEF Loops
<1>8. PICK h : Computes(n, Q, S, G, h)
  BY <1>1, <1>7, LoopExists
<1> DEFINE g == [k \in 0..n |-> h[k]]
<1>9. Is(g)
  <2>1. h[0] = S /\ \A k \in 1..n : h[k] = Round(k, h[k - 1])
    BY <1>3, <1>6, <1>8 DEF Computes
  <2>2. ASSUME NEW k \in 0..n
        PROVE  g[k] = IF k = 0 THEN S ELSE Array!AssignTo(g[k - 1], k - 1, F[g[k - 1][k - 1]])
    <3>1. k # 0 => k \in 1..n /\ k - 1 \in 0..n
      OBVIOUS
    <3> QED BY <2>1, <3>1 DEF Round
  <2>3. g = [k \in 0..n |-> g[k]]
    OBVIOUS
  <2> HIDE DEF g
  <2> QED BY <2>2, <2>3
<1>10. Is(e)
  BY <1>9
<1>11. e[n] \in L(n)
  <2>1. e[0] = S /\ \A k \in 1..n : e[k] = Round(k, e[k - 1])
    <3>1. \A k \in 0..n : e[k] = IF k = 0 THEN S
                                 ELSE Array!AssignTo(e[k - 1], k - 1, F[e[k - 1][k - 1]])
      BY <1>10
    <3> QED BY <1>1, <3>1 DEF Round
  <2>2. e[0] \in Q[0]
    BY <1>1, <1>4, <2>1
  <2>3. \A k \in 1..n : e[k - 1] \in Q[k - 1] => e[k] \in Q[k]
    BY <1>2, <1>3, <2>1
  <2>4. \A k \in 0..n : e[k] \in Q[k]
    <3> HIDE DEF Q
    <3> QED BY <1>1, <2>2, <2>3, LoopKeeps
  <2> QED BY <1>1, <2>4
<1> QED BY <1>5, <1>11

(* erase_if_heap, of the last elements only: what is destroyed stays       *)
(* behind the ones that are kept, so that none of these moves.             *)
LEMMA CompactedKeeps ==
  ASSUME Array!ArrayAssumption, NEW c \in Nat, NEW n \in 0..c, NEW S \in Lived(c, n), NEW P,
         \A i, j \in 0..n - 1 : S[i] \in P /\ i < j => S[j] \in P
  PROVE  LET H == Array!Compacted(S, n, P) IN H[2] \in 0..n /\ H[1] \in Lived(c, H[2])
<1> DEFINE L(k) == {H \in Storage(c) \X (0..n) :
                      /\ H[2] <= k
                      /\ H[2] < k => S[H[2]] \in P
                      /\ \A i \in 0..c - 1 :
                           H[1][i] = IF H[2] <= i /\ i < k THEN Raw ELSE S[i]}
           Q == [k \in 0..n |-> L(k)]
           Step(H, src) ==
             IF H[1][src] \in P THEN <<Array!Destroy(H[1], src), H[2]>>
             ELSE <<IF src # H[2] THEN Array!MoveAssign(H[1], H[2], src) ELSE H[1], H[2] + 1>>
           Is(f) == f = [k \in 0..n |-> IF k = 0 THEN <<S, 0>> ELSE Step(f[k - 1], k - 1)]
           G == [p \in (1..n) \X (Storage(c) \X (0..n)) |-> Step(p[2], p[1] - 1)]
<1>1. n \in Nat
  OBVIOUS
<1>2. ASSUME NEW k \in 1..n, NEW H \in L(k - 1) PROVE Step(H, k - 1) \in L(k)
  <2> DEFINE T == H[1]
             dst == H[2]
             src == k - 1
  <2>1. /\ T \in Storage(c) /\ dst \in 0..n /\ dst <= src /\ src \in 0..n - 1 /\ src \in 0..c - 1
        /\ dst < src => S[dst] \in P
        /\ \A i \in 0..c - 1 : T[i] = IF dst <= i /\ i < src THEN Raw ELSE S[i]
    OBVIOUS
  <2>2. \A i \in 0..c - 1 : i < k <=> i < src \/ i = src
    OBVIOUS
  <2>3. k = src + 1 /\ k \in 0..n
    OBVIOUS
  <2>4. Array!Lives(S[src])
    BY <2>1, LivedSlots
  <2> HIDE DEF T, dst, src
  <2>5. T[src] = S[src]
    BY <2>1
  <2>6. CASE S[src] \in P
    <3> DEFINE U == [T EXCEPT ![src] = Raw]
    <3>1. Array!Destroy(T, src) = U
      BY <2>4, <2>5 DEF Array!Destroy
    <3>2. U \in Storage(c) /\ \A i \in 0..c - 1 : U[i] = IF i = src THEN Raw ELSE T[i]
      BY <2>1 DEF Storage, SlotValue
    <3> HIDE DEF U
    <3>3. \A i \in 0..c - 1 : U[i] = IF dst <= i /\ i < k THEN Raw ELSE S[i]
      BY <2>1, <2>2, <3>2
    <3>4. dst <= k /\ S[dst] \in P
      BY <2>1, <2>3, <2>6
    <3>5. Step(H, src) = <<U, dst>>
      BY <2>5, <2>6, <3>1 DEF T, dst
    <3>6. <<U, dst>> \in L(k)
      BY <2>1, <3>2, <3>3, <3>4
    <3> QED BY <3>5, <3>6 DEF src
  <2>7. CASE S[src] \notin P
    <3>1. dst = src
      BY <2>1, <2>7
    <3>2. Step(H, src) = <<T, k>>
      BY <2>3, <2>5, <2>7, <3>1 DEF T, dst
    <3>3. \A i \in 0..c - 1 : T[i] = S[i] /\ ~(k <= i /\ i < k)
      BY <2>1, <2>3, <3>1
    <3>4. <<T, k>> \in L(k)
      BY <2>1, <2>3, <3>3
    <3> QED BY <3>2, <3>4 DEF src
  <2> QED BY <2>6, <2>7
<1>3. \A k \in 1..n : k - 1 \in 0..n /\ L(k - 1) \subseteq Storage(c) \X (0..n)
  OBVIOUS
<1>4. <<S, 0>> \in L(0)
  BY DEF Lived
<1>5. ASSUME NEW H \in L(n) PROVE H[2] \in 0..n /\ H[1] \in Lived(c, H[2])
  <2> DEFINE T == H[1]
             d == H[2]
  <2>1. /\ T \in Storage(c) /\ d \in 0..n /\ d \in 0..c
        /\ \A i \in 0..c - 1 : T[i] = IF d <= i /\ i < n THEN Raw ELSE S[i]
    OBVIOUS
  <2> HIDE DEF T, d
  <2>2. \A i \in 0..d - 1 : i \in 0..n - 1 /\ i \in 0..c - 1 /\ ~(d <= i)
    BY <2>1
  <2>3. \A i \in d..c - 1 : i \in 0..c - 1 /\ d <= i /\ (~(i < n) => i \in n..c - 1)
    BY <2>1
  <2>4. \A i \in 0..d - 1 : Array!Lives(T[i])
    <3>1. \A i \in 0..n - 1 : Array!Lives(S[i])
      BY LivedSlots
    <3> QED BY <2>1, <2>2, <3>1
  <2>5. \A i \in d..c - 1 : T[i] = Raw
    <3>1. \A i \in n..c - 1 : S[i] = Raw
      BY LivedSlots
    <3> QED BY <2>1, <2>3, <3>1
  <2>6. T = [i \in 0..c - 1 |-> T[i]]
    BY <2>1 DEF Storage
  <2>7. T \in Lived(c, d)
    BY <2>1, <2>4, <2>5, <2>6, LivedFrom
  <2> QED BY <2>1, <2>7 DEF T, d
<1> HIDE DEF L, Step
<1>6. \A k \in 1..n : \A H \in L(k - 1) : G[<<k, H>>] = Step(H, k - 1)
  BY <1>3
<1>7. Loops(n, Q, <<S, 0>>, G)
  BY <1>1, <1>2, <1>3, <1>4, <1>6 DEF Loops
<1>8. PICK h : Computes(n, Q, <<S, 0>>, G, h)
  BY <1>1, <1>7, LoopExists
<1> DEFINE g == [k \in 0..n |-> h[k]]
<1>9. Is(g)
  <2>1. h[0] = <<S, 0>> /\ \A k \in 1..n : h[k] = Step(h[k - 1], k - 1)
    BY <1>3, <1>6, <1>8 DEF Computes
  <2>2. ASSUME NEW k \in 0..n
        PROVE  g[k] = IF k = 0 THEN <<S, 0>> ELSE Step(g[k - 1], k - 1)
    <3>1. k # 0 => k \in 1..n /\ k - 1 \in 0..n
      OBVIOUS
    <3> QED BY <2>1, <3>1
  <2>3. g = [k \in 0..n |-> g[k]]
    OBVIOUS
  <2> HIDE DEF g
  <2> QED BY <2>2, <2>3
<1> DEFINE f == CHOOSE f : Is(f)
<1>10. Is(f)
  BY <1>9
<1>11. Array!Compacted(S, n, P) = f[n]
  BY DEF Array!Compacted, Step
<1> HIDE DEF f
<1>12. f[n] \in L(n)
  <2>1. \A k \in 0..n : f[k] = IF k = 0 THEN <<S, 0>> ELSE Step(f[k - 1], k - 1)
    BY <1>10
  <2>2. f[0] \in Q[0]
    BY <1>1, <1>4, <2>1
  <2>3. \A k \in 1..n : f[k - 1] \in Q[k - 1] => f[k] \in Q[k]
    BY <1>2, <1>3, <2>1
  <2>4. \A k \in 0..n : f[k] \in Q[k]
    <3> HIDE DEF Q
    <3> QED BY <1>1, <2>2, <2>3, LoopKeeps
  <2> QED BY <1>1, <2>4
<1> QED BY <1>5, <1>11, <1>12

(* The invariant: every array has a storage of some size.                  *)
Stored(S, n) == \E c \in Nat : n \in 0..c /\ S \in Lived(c, n)
ArrayInv ==
  /\ slots = [a \in ArrayName |-> slots[a]]
  /\ m_end_ = [a \in ArrayName |-> m_end_[a]]
  /\ \A a \in ArrayName : Stored(slots[a], m_end_[a])

LEMMA CapacityIs ==
  ASSUME NEW a, NEW c \in Nat, slots[a] \in Storage(c)
  PROVE  Array!Capacity(a) = c
<1>1. DOMAIN slots[a] = 0..c - 1
  BY DEF Storage
<1>2. Cardinality(0..c - 1) = c
  <2>1. Cardinality(0..c - 1) = IF 0 > c - 1 THEN 0 ELSE (c - 1) - 0 + 1
    BY FS_Interval
  <2> QED BY <2>1
<1> QED BY <1>1, <1>2, ArrayCardinality DEF Array!Capacity

(* What an operation finds in the array it is called for. *)
LEMMA StoredFacts ==
  ASSUME ArrayInv, NEW a \in ArrayName
  PROVE  \E c \in Nat : /\ m_end_[a] \in 0..c /\ slots[a] \in Lived(c, m_end_[a])
                        /\ Array!Capacity(a) = c
<1>1. PICK c \in Nat : m_end_[a] \in 0..c /\ slots[a] \in Lived(c, m_end_[a])
  BY DEF ArrayInv, Stored
<1>2. slots[a] \in Storage(c)
  BY <1>1 DEF Lived
<1> QED BY <1>1, <1>2, CapacityIs

LEMMA BecomeKeeps ==
  ASSUME ArrayInv, NEW a \in ArrayName, NEW c \in Nat, NEW n \in 0..c, NEW S \in Lived(c, n),
         Array!Become(a, S, n)
  PROVE  ArrayInv'
<1>1. Stored(S, n)
  BY DEF Stored
<1>2. /\ slots' = [slots EXCEPT ![a] = S]
      /\ m_end_' = [m_end_ EXCEPT ![a] = n]
  BY DEF Array!Become
<1>3. /\ slots' = [b \in ArrayName |-> slots'[b]]
      /\ m_end_' = [b \in ArrayName |-> m_end_'[b]]
  BY <1>2 DEF ArrayInv
<1>4. \A b \in ArrayName : slots'[b] = (IF b = a THEN S ELSE slots[b])
                           /\ m_end_'[b] = (IF b = a THEN n ELSE m_end_[b])
  BY <1>2 DEF ArrayInv
<1>5. \A b \in ArrayName : Stored(slots'[b], m_end_'[b])
  BY <1>1, <1>4 DEF ArrayInv
<1> QED BY <1>3, <1>5 DEF ArrayInv

LEMMA ReservedKeeps ==
  ASSUME Array!ArrayAssumption, ArrayInv, NEW a \in ArrayName, NEW n \in Nat, Array!Reservable(a, n)
  PROVE  \E d \in Nat : /\ n <= d /\ m_end_[a] \in 0..d
                        /\ Array!Reserved(a, n) \in Lived(d, m_end_[a])
<1>1. PICK c \in Nat : /\ m_end_[a] \in 0..c /\ slots[a] \in Lived(c, m_end_[a])
                       /\ Array!Capacity(a) = c
  BY StoredFacts
<1>2. CASE n <= c
  <2>1. Array!Reserved(a, n) = slots[a]
    BY <1>1, <1>2 DEF Array!Reserved
  <2> QED BY <1>1, <1>2, <2>1
<1>3. CASE ~(n <= c)
  <2>1. c = 0 /\ m_end_[a] = 0
    BY <1>1, <1>3 DEF Array!Reservable
  <2> DEFINE T == [i \in 0..n - 1 |-> Raw]
  <2>2. Array!Reserved(a, n) = T
    BY <1>1, <1>3 DEF Array!Reserved
  <2>3. 0 \in 0..n /\ T = [i \in 0..n - 1 |-> T[i]] /\ \A i \in 0..n - 1 : T[i] = Raw
    OBVIOUS
  <2> HIDE DEF T
  <2>4. T \in Lived(n, 0)
    <3>1. \A i \in 0..0 - 1 : Array!Lives(T[i])
      OBVIOUS
    <3> QED BY <2>3, <3>1, LivedFrom
  <2> QED BY <2>1, <2>2, <2>3, <2>4
<1> QED BY <1>2, <1>3

(* A functor is called with elements that hold values. *)
LEMMA KnownElements ==
  ASSUME ArrayInv, NEW a \in ArrayName, Array!Known(a)
  PROVE  /\ \A i \in 0..m_end_[a] - 1 : slots[a][i] \in ArrayElement
         /\ Array!Elements(a) \in [0..m_end_[a] - 1 -> ArrayElement]
<1>1. PICK c \in Nat : /\ m_end_[a] \in 0..c /\ slots[a] \in Lived(c, m_end_[a])
                       /\ Array!Capacity(a) = c
  BY StoredFacts
<1>2. \A i \in 0..m_end_[a] - 1 : Array!Lives(slots[a][i])
  BY <1>1, LivedSlots
<1>3. \A i \in 0..m_end_[a] - 1 : slots[a][i] \in ArrayElement
  BY <1>2 DEF Array!Known, Array!Index, Array!Lives
<1> QED BY <1>3 DEF Array!Elements, Array!Index

(* The calls for one array. *)
LEMMA InsertionsKeepArray ==
  ASSUME Array!ArrayAssumption, ArrayInv, NEW a \in ArrayName, NEW v \in ArrayElement,
         \/ Array!PushBack(a, v) \/ Array!PushHeap(a, v)
         \/ \E pos \in Array!Index(a) \union {m_end_[a]} : Array!Insert(a, pos, v)
  PROVE  ArrayInv'
<1>1. PICK c \in Nat : /\ m_end_[a] \in 0..c /\ slots[a] \in Lived(c, m_end_[a])
                       /\ Array!Capacity(a) = c
  BY StoredFacts
<1>2. m_end_[a] \in 0..c - 1 /\ m_end_[a] + 1 \in 0..c /\ Array!Lives(v)
  BY <1>1 DEF Array!PushBack, Array!PushHeap, Array!Insert, Array!Full, Array!Lives
<1>3. CASE Array!PushBack(a, v)
  <2>1. Array!Construct(slots[a], m_end_[a], v) \in Lived(c, m_end_[a] + 1)
    BY <1>1, <1>2, ConstructKeeps
  <2> QED BY <1>2, <1>3, <2>1, BecomeKeeps DEF Array!PushBack
<1>4. CASE Array!PushHeap(a, v)
  <2>1. Array!PushedHeap(slots[a], m_end_[a], v) \in Lived(c, m_end_[a] + 1)
    BY <1>1, <1>2, PushedHeapKeeps
  <2> QED BY <1>2, <1>4, <2>1, BecomeKeeps DEF Array!PushHeap
<1>5. ASSUME NEW pos \in Array!Index(a) \union {m_end_[a]}, Array!Insert(a, pos, v)
      PROVE  ArrayInv'
  <2>1. CASE pos = m_end_[a]
    BY <1>3, <1>5, <2>1 DEF Array!Insert
  <2>2. CASE pos # m_end_[a]
    <3>1. pos \in 0..m_end_[a] - 1 /\ m_end_[a] \in 1..c - 1
      BY <1>2, <2>2 DEF Array!Index
    <3>2. Array!Inserted(slots[a], pos, m_end_[a], v) \in Lived(c, m_end_[a] + 1)
      BY <1>1, <3>1, InsertedKeeps
    <3> QED BY <1>2, <1>5, <2>2, <3>2, BecomeKeeps DEF Array!Insert
  <2> QED BY <2>1, <2>2
<1> QED BY <1>3, <1>4, <1>5

LEMMA RemovalsKeepArray ==
  ASSUME Array!ArrayAssumption, "any" \notin Predicates, ArrayInv, NEW a \in ArrayName,
         \/ Array!PopBack(a) \/ Array!PopHeap(a)
         \/ \E pos \in Array!Index(a) \union {m_end_[a]} :
              Array!Erase(a, pos) \/ Array!EraseUnordered(a, pos)
         \/ \E P \in SUBSET ArrayElement : Array!EraseIf(a, P) \/ Array!EraseIfHeap(a, P)
  PROVE  ArrayInv'
<1> DEFINE n == m_end_[a]
           S == slots[a]
<1>1. PICK c \in Nat : n \in 0..c /\ S \in Lived(c, n) /\ Array!Capacity(a) = c
  BY StoredFacts
<1>2. \A T : Array!Become(a, T, n - 1) /\ n # 0 /\ T \in Lived(c, n - 1) => ArrayInv'
  <2>1. n # 0 => n - 1 \in 0..c
    BY <1>1
  <2> QED BY <2>1, BecomeKeeps
<1>3. CASE Array!PopBack(a)
  <2>1. n # 0
    BY <1>1, <1>3 DEF Array!PopBack
  <2>2. Array!Destroy(S, n - 1) \in Lived(c, n - 1)
    BY <1>1, <2>1, DestroyKeeps
  <2> QED BY <1>2, <1>3, <2>1, <2>2 DEF Array!PopBack
<1>4. CASE Array!PopHeap(a)
  <2>1. n # 0
    BY <1>1, <1>4 DEF Array!PopHeap, Array!PoppedHeap
  <2>2. CASE n - 1 = 0
    <3>1. Array!Destroy(S, n - 1) \in Lived(c, n - 1)
      BY <1>1, <2>1, DestroyKeeps
    <3>2. Array!Become(a, Array!Destroy(S, n - 1), n - 1)
      BY <1>4, <2>2 DEF Array!PopHeap, Array!PoppedHeap
    <3> QED BY <1>2, <2>1, <3>1, <3>2
  <2>3. CASE n - 1 # 0
    <3> DEFINE T == Array!Destroy(Array!MoveAssign(S, 0, n - 1), n - 1)
               last == n - 1
    <3>1. 0 \in 0..n - 1 /\ n - 1 \in 0..n - 1 /\ last \in 0..c
      BY <1>1, <2>1
    <3>2. Array!MoveAssign(S, 0, n - 1) \in Lived(c, n)
      BY <1>1, <3>1, MoveAssignKeeps
    <3>3. T \in Lived(c, last)
      BY <1>1, <2>1, <3>2, DestroyKeeps
    <3>4. Array!Become(a, Array!SiftedDown(T, 0, 0, last), last)
      BY <1>4, <2>3 DEF Array!PopHeap, Array!PoppedHeap
    <3> HIDE DEF T, last
    <3>5. last # 0
      BY <2>3 DEF last
    <3>6. Array!SiftedDown(T, 0, 0, last) \in Lived(c, last)
      BY <3>1, <3>3, <3>5, SiftedDownKeeps
    <3> QED BY <3>1, <3>4, <3>6, BecomeKeeps
  <2> QED BY <2>2, <2>3
<1>5. ASSUME NEW pos \in Array!Index(a) \union {m_end_[a]},
             Array!Erase(a, pos) \/ Array!EraseUnordered(a, pos)
      PROVE  ArrayInv'
  <2>1. pos < n
    BY <1>5 DEF Array!Erase, Array!EraseUnordered
  <2>2. pos \in 0..n - 1 /\ n # 0
    BY <1>1, <1>5, <2>1 DEF Array!Index
  <2>3. Array!Erased(S, pos, n) \in Lived(c, n - 1)
    BY <1>1, <2>2, ErasedKeeps
  <2>4. Array!ErasedUnordered(S, pos, n - 1) \in Lived(c, n - 1)
    BY <1>1, <2>2, ErasedUnorderedKeeps
  <2> QED BY <1>2, <1>5, <2>2, <2>3, <2>4 DEF Array!Erase, Array!EraseUnordered
<1>6. ASSUME NEW P \in SUBSET ArrayElement, Array!EraseIf(a, P) PROVE ArrayInv'
  <2> DEFINE H == Array!ErasedIf(S, n, P)
  <2>1. H[2] \in 0..n /\ H[1] \in Lived(c, H[2])
    BY <1>1, ErasedIfKeeps
  <2>2. Array!Become(a, H[1], H[2])
    BY <1>6 DEF Array!EraseIf
  <2> HIDE DEF H
  <2>3. H[2] \in 0..c
    BY <1>1, <2>1
  <2> QED BY <2>1, <2>2, <2>3, BecomeKeeps
<1>7. ASSUME NEW P \in SUBSET ArrayElement, Array!EraseIfHeap(a, P) PROVE ArrayInv'
  <2> DEFINE H == Array!Compacted(S, n, P)
  <2>1. \A i, j \in 0..n - 1 : S[i] \in P /\ i < j => S[j] \in P
    BY <1>7 DEF Array!EraseIfHeap, Array!Erasable, Array!RemovesTail, Array!Index
  <2>2. H[2] \in 0..n /\ H[1] \in Lived(c, H[2])
    BY <1>1, <2>1, CompactedKeeps
  <2>3. \/ Array!Become(a, H[1], H[2])
        \/ Array!Become(a, Array!MadeHeap(H[1], 0, H[2]), H[2])
    BY <1>7 DEF Array!EraseIfHeap, Array!ErasedIfHeap
  <2> HIDE DEF H
  <2>4. H[2] \in 0..c
    BY <1>1, <2>2
  <2>5. Array!MadeHeap(H[1], 0, H[2]) \in Lived(c, H[2])
    BY <2>2, <2>4, MadeHeapKeeps
  <2> QED BY <2>2, <2>3, <2>4, <2>5, BecomeKeeps
<1> QED BY <1>3, <1>4, <1>5, <1>6, <1>7

LEMMA OthersKeepArray ==
  ASSUME Array!ArrayAssumption, ArrayInv, NEW a \in ArrayName,
         \/ Array!Clear(a) \/ Array!MakeHeap(a) \/ Array!Delete(a)
         \/ \E f \in [ArrayElement -> ArrayElement] : Array!ForEach(a, f)
         \/ \E x \in [0..1 -> ArrayElement] : Array!GenerateN(a, x)
         \/ \E n \in ArraySizes : Array!Reserve(a, n) \/ \E v \in ArrayElement : Array!Resize(a, n, v)
  PROVE  ArrayInv'
<1> DEFINE n == m_end_[a]
           S == slots[a]
<1>1. PICK c \in Nat : n \in 0..c /\ S \in Lived(c, n) /\ Array!Capacity(a) = c
  BY StoredFacts
<1>2. Array!Destruct(S, 0, n) \in Lived(c, 0) /\ 0 \in 0..c /\ n \in Nat
  <2>1. 0 \in 0..n
    BY <1>1
  <2> QED BY <1>1, <2>1, DestructKeeps
<1>3. CASE Array!Clear(a)
  BY <1>2, <1>3, BecomeKeeps DEF Array!Clear
<1>4. CASE Array!MakeHeap(a)
  <2>1. Array!MadeHeap(S, 0, n) \in Lived(c, n)
    BY <1>1, MadeHeapKeeps
  <2> QED BY <1>1, <1>4, <2>1, BecomeKeeps DEF Array!MakeHeap
<1>5. CASE Array!Delete(a)
  <2> DEFINE T == Array!Destruct(S, 0, n)
             U == Array!NoStorage
  <2>1. \A i \in DOMAIN T : T[i] = Raw
    BY <1>2, LivedSlots
  <2>2. Array!Freed(T) = U
    BY <2>1 DEF Array!Freed
  <2>3. 0 \in 0..0 /\ 0 \in Nat /\ 0..0 - 1 = {} /\ 0..-1 = {}
    OBVIOUS
  <2>4. U \in Lived(0, 0)
    BY <2>3 DEF Lived, Storage, Array!NoStorage
  <2>5. Array!Become(a, U, 0)
    BY <1>5, <2>2 DEF Array!Delete
  <2> HIDE DEF U
  <2> QED BY <2>3, <2>4, <2>5, BecomeKeeps
<1>6. ASSUME NEW F \in [ArrayElement -> ArrayElement], Array!ForEach(a, F) PROVE ArrayInv'
  <2> DEFINE e == CHOOSE f : f = [k \in 0..n |-> IF k = 0 THEN S
                               ELSE Array!AssignTo(f[k - 1], k - 1, F[f[k - 1][k - 1]])]
  <2>1. Array!Become(a, e[n], n) /\ Array!Known(a)
    BY <1>6 DEF Array!ForEach
  <2>2. \A i \in 0..n - 1 : S[i] \in ArrayElement
    BY <2>1, KnownElements
  <2>3. \E g : g = e
    OBVIOUS
  <2>4. e[n] \in Lived(c, n)
    BY <1>1, <2>2, ForEachKeeps
  <2> HIDE DEF e
  <2> QED BY <1>1, <2>1, <2>4, BecomeKeeps
<1>7. ASSUME NEW x \in [0..1 -> ArrayElement], Array!GenerateN(a, x) PROVE ArrayInv'
  <2>1. Array!Cardinality(DOMAIN x) = 2
    <3>1. PICK i, j \in Int : i = 0 /\ j = 1
      OBVIOUS
    <3>2. Cardinality(i..j) = IF i > j THEN 0 ELSE j - i + 1
      BY FS_Interval
    <3>3. Cardinality(i..j) = 2 /\ DOMAIN x = i..j
      BY <3>1, <3>2
    <3> QED BY <3>3, ArrayCardinality
  <2> DEFINE m == n + 2
  <2>2. m \in 0..c /\ n \in 0..m /\ m - n - 1 = 1
    BY <1>1, <1>7, <2>1 DEF Array!GenerateN
  <2>3. Array!Become(a, Array!ConstructAt(S, n, x), m)
    BY <1>7, <2>1 DEF Array!GenerateN
  <2> HIDE DEF m
  <2>4. x \in [0..m - n - 1 -> ArrayElement]
    BY <2>2
  <2>5. Array!ConstructAt(S, n, x) \in Lived(c, m)
    BY <1>1, <2>2, <2>4, ConstructAtKeeps
  <2> QED BY <2>2, <2>3, <2>5, BecomeKeeps
<1>8. ASSUME NEW m \in ArraySizes, Array!Reserve(a, m) PROVE ArrayInv'
  <2>1. m \in Nat /\ Array!Reservable(a, m) /\ Array!Become(a, Array!Reserved(a, m), n)
    BY <1>8 DEF Array!Reserve, Array!ArrayAssumption
  <2>2. PICK d \in Nat : n \in 0..d /\ Array!Reserved(a, m) \in Lived(d, n)
    BY <2>1, ReservedKeeps
  <2> QED BY <2>1, <2>2, BecomeKeeps
<1>9. ASSUME NEW m \in ArraySizes, NEW v \in ArrayElement, Array!Resize(a, m, v) PROVE ArrayInv'
  <2> DEFINE T == Array!Reserved(a, m)
             x == [i \in 0..m - n - 1 |-> v]
  <2>1. m \in Nat /\ Array!Reservable(a, m)
    BY <1>9 DEF Array!Resize, Array!ArrayAssumption
  <2>2. PICK d \in Nat : m <= d /\ n \in 0..d /\ T \in Lived(d, n)
    BY <2>1, ReservedKeeps
  <2>3. m \in 0..d
    BY <2>1, <2>2
  <2>4. CASE m >= n
    <3>1. n \in 0..m /\ x \in [0..m - n - 1 -> ArrayElement]
      BY <1>2, <2>1, <2>4
    <3>2. Array!Become(a, Array!ConstructAt(T, n, x), m)
      BY <1>9, <2>4 DEF Array!Resize
    <3> HIDE DEF T, x
    <3>3. Array!ConstructAt(T, n, x) \in Lived(d, m)
      BY <2>2, <2>3, <3>1, ConstructAtKeeps
    <3> QED BY <2>3, <3>2, <3>3, BecomeKeeps
  <2>5. CASE ~(m >= n)
    <3>1. m \in 0..n
      BY <1>2, <2>1, <2>5
    <3>2. Array!Become(a, Array!Destruct(T, m, n), m)
      BY <1>9, <2>5 DEF Array!Resize
    <3> HIDE DEF T, x
    <3>3. Array!Destruct(T, m, n) \in Lived(d, m)
      BY <2>2, <3>1, DestructKeeps
    <3> QED BY <2>3, <3>2, <3>3, BecomeKeeps
  <2> QED BY <2>4, <2>5
<1> QED BY <1>3, <1>4, <1>5, <1>6, <1>7, <1>8, <1>9

(* The calls for two arrays. *)
LEMMA CopiesKeepArray ==
  ASSUME Array!ArrayAssumption, ArrayInv, NEW a \in ArrayName, NEW b \in ArrayName,
         Array!Assign(a, b) \/ Array!AppendCopy(a, b)
  PROVE  ArrayInv'
<1>1. PICK c \in Nat : /\ m_end_[a] \in 0..c /\ slots[a] \in Lived(c, m_end_[a])
                       /\ Array!Capacity(a) = c
  BY StoredFacts
<1>2. m_end_[b] \in Nat
  BY StoredFacts
<1>3. Array!Elements(b) \in [0..m_end_[b] - 1 -> ArrayElement]
  BY KnownElements DEF Array!Assign, Array!AppendCopy
<1>4. CASE Array!Assign(a, b)
  <2> DEFINE T == Array!Reserved(a, m_end_[b])
             m == m_end_[b]
  <2>1. Array!Reservable(a, m)
        /\ Array!Become(a, Array!ConstructAt(Array!Destruct(T, 0, m_end_[a]), 0, Array!Elements(b)), m)
    BY <1>4 DEF Array!Assign
  <2>2. PICK d \in Nat : m <= d /\ m_end_[a] \in 0..d /\ T \in Lived(d, m_end_[a])
    BY <1>2, <2>1, ReservedKeeps
  <2>3. m \in 0..d /\ 0 \in 0..m /\ 0 \in 0..m_end_[a] /\ m - 0 - 1 = m - 1
    BY <1>2, <2>2
  <2> HIDE DEF T
  <2>4. Array!Destruct(T, 0, m_end_[a]) \in Lived(d, 0)
    BY <2>2, <2>3, DestructKeeps
  <2>5. Array!Elements(b) \in [0..m - 0 - 1 -> ArrayElement]
    BY <1>3, <2>3
  <2> HIDE DEF m
  <2>6. Array!ConstructAt(Array!Destruct(T, 0, m_end_[a]), 0, Array!Elements(b)) \in Lived(d, m)
    BY <2>2, <2>3, <2>4, <2>5, ConstructAtKeeps
  <2> QED BY <2>1, <2>3, <2>6, BecomeKeeps
<1>5. CASE Array!AppendCopy(a, b)
  <2> DEFINE m == m_end_[a] + m_end_[b]
             n == m_end_[a]
  <2>1. m \in 0..c /\ n \in 0..m /\ m - n - 1 = m_end_[b] - 1
    BY <1>1, <1>2, <1>5 DEF Array!AppendCopy
  <2>2. Array!Become(a, Array!ConstructAt(slots[a], n, Array!Elements(b)), m)
    BY <1>5 DEF Array!AppendCopy
  <2>3. Array!Elements(b) \in [0..m - n - 1 -> ArrayElement]
    BY <1>3, <2>1
  <2> HIDE DEF m
  <2>4. Array!ConstructAt(slots[a], n, Array!Elements(b)) \in Lived(c, m)
    BY <1>1, <2>1, <2>3, ConstructAtKeeps
  <2> QED BY <2>1, <2>2, <2>4, BecomeKeeps
<1> QED BY <1>4, <1>5

LEMMA TakeKeepsArray ==
  ASSUME Array!ArrayAssumption, ArrayInv, NEW a \in ArrayName, NEW b \in ArrayName, a # b,
         NEW c \in Nat, NEW n \in 0..c, NEW S \in Lived(c, n), Array!Capacity(a) = c,
         Array!Known(b), Array!TakeElements(a, b, S, n)
  PROVE  ArrayInv'
<1> DEFINE m == n + m_end_[b]
           T == Array!ConstructAt(S, n, Array!Elements(b))
           U == [i \in DOMAIN slots[b] |->
                   IF i < m_end_[b] THEN Array!MovedFrom(slots[b], i)[i] ELSE slots[b][i]]
<1>1. PICK d \in Nat : m_end_[b] \in 0..d /\ slots[b] \in Lived(d, m_end_[b])
  BY StoredFacts
<1>2. /\ n + m_end_[b] <= c
      /\ slots' = [slots EXCEPT ![a] = T, ![b] = U]
      /\ m_end_' = [m_end_ EXCEPT ![a] = m]
  <2>1. DOMAIN slots = ArrayName
    BY DEF ArrayInv
  <2> QED BY <2>1 DEF Array!TakeElements
<1>3. m \in 0..c /\ n \in 0..m /\ m - n - 1 = m_end_[b] - 1
  BY <1>1, <1>2
<1>4. Array!Elements(b) \in [0..m - n - 1 -> ArrayElement]
  BY <1>3, KnownElements
<1>5. U \in Lived(d, m_end_[b])
  BY <1>1, LeaveAllKeeps
<1> HIDE DEF U, m
<1>6. T \in Lived(c, m)
  BY <1>3, <1>4, ConstructAtKeeps
<1> HIDE DEF T
<1>7. Stored(T, m) /\ Stored(U, m_end_[b])
  BY <1>1, <1>3, <1>5, <1>6 DEF Stored
<1>8. /\ slots' = [x \in ArrayName |-> slots'[x]]
      /\ m_end_' = [x \in ArrayName |-> m_end_'[x]]
  BY <1>2 DEF ArrayInv
<1>9. \A x \in ArrayName :
        /\ slots'[x] = IF x = b THEN U ELSE IF x = a THEN T ELSE slots[x]
        /\ m_end_'[x] = IF x = a THEN m ELSE m_end_[x]
  BY <1>2 DEF ArrayInv
<1>10. \A x \in ArrayName : Stored(slots'[x], m_end_'[x])
  BY <1>7, <1>9 DEF ArrayInv
<1> QED BY <1>8, <1>10 DEF ArrayInv

LEMMA MovesKeepArray ==
  ASSUME Array!ArrayAssumption, ArrayInv, NEW a \in ArrayName, NEW b \in ArrayName,
         Array!AppendMove(a, b) \/ Array!AssignRangeMove(a, b) \/ Array!Swap(a, b)
  PROVE  ArrayInv'
<1>1. PICK c \in Nat : /\ m_end_[a] \in 0..c /\ slots[a] \in Lived(c, m_end_[a])
                       /\ Array!Capacity(a) = c
  BY StoredFacts
<1>2. CASE Array!AppendMove(a, b)
  BY <1>1, <1>2, TakeKeepsArray DEF Array!AppendMove
<1>3. CASE Array!AssignRangeMove(a, b)
  <2>1. 0 \in 0..m_end_[a] /\ 0 \in 0..c
    BY <1>1
  <2>2. Array!Destruct(slots[a], 0, m_end_[a]) \in Lived(c, 0)
    BY <1>1, <2>1, DestructKeeps
  <2> QED BY <1>1, <1>3, <2>1, <2>2, TakeKeepsArray DEF Array!AssignRangeMove
<1>4. CASE Array!Swap(a, b)
  <2>1. /\ slots' = [slots EXCEPT ![a] = slots[b], ![b] = slots[a]]
        /\ m_end_' = [m_end_ EXCEPT ![a] = m_end_[b], ![b] = m_end_[a]]
    BY <1>4 DEF Array!Swap
  <2>2. /\ slots' = [x \in ArrayName |-> slots'[x]]
        /\ m_end_' = [x \in ArrayName |-> m_end_'[x]]
    BY <2>1 DEF ArrayInv
  <2>3. \A x \in ArrayName :
          \E y \in ArrayName : slots'[x] = slots[y] /\ m_end_'[x] = m_end_[y]
    <3>1. \A x \in ArrayName :
            /\ slots'[x] = IF x = b THEN slots[a] ELSE IF x = a THEN slots[b] ELSE slots[x]
            /\ m_end_'[x] = IF x = b THEN m_end_[a] ELSE IF x = a THEN m_end_[b] ELSE m_end_[x]
      BY <2>1 DEF ArrayInv
    <3> QED BY <3>1
  <2>4. \A x \in ArrayName : Stored(slots'[x], m_end_'[x])
    BY <2>3 DEF ArrayInv
  <2> QED BY <2>2, <2>4 DEF ArrayInv
<1> QED BY <1>2, <1>3, <1>4

LEMMA ArraySteps ==
  ASSUME Array!ArrayAssumption, "any" \notin Predicates, ArrayInv, Array!Next
  PROVE  ArrayInv'
<1>1. PICK a \in ArrayName :
        \/ \E v \in ArrayElement :
             \/ Array!PushBack(a, v) \/ Array!PushHeap(a, v)
             \/ \E pos \in Array!Index(a) \union {m_end_[a]} : Array!Insert(a, pos, v)
        \/ Array!PopBack(a) \/ Array!PopHeap(a)
        \/ \E pos \in Array!Index(a) \union {m_end_[a]} :
              Array!Erase(a, pos) \/ Array!EraseUnordered(a, pos)
        \/ \E P \in SUBSET ArrayElement : Array!EraseIf(a, P) \/ Array!EraseIfHeap(a, P)
        \/ Array!Clear(a) \/ Array!MakeHeap(a) \/ Array!Delete(a)
        \/ \E f \in [ArrayElement -> ArrayElement] : Array!ForEach(a, f)
        \/ \E x \in [0..1 -> ArrayElement] : Array!GenerateN(a, x)
        \/ \E n \in ArraySizes : Array!Reserve(a, n) \/ \E v \in ArrayElement : Array!Resize(a, n, v)
        \/ \E b \in ArrayName :
             \/ Array!Assign(a, b) \/ Array!AppendCopy(a, b)
             \/ Array!AppendMove(a, b) \/ Array!AssignRangeMove(a, b) \/ Array!Swap(a, b)
  BY Zenon DEF Array!Next
<1> QED BY <1>1, InsertionsKeepArray, RemovalsKeepArray, OthersKeepArray, CopiesKeepArray,
           MovesKeepArray

(* Every element of an array is constructed once and destroyed once, if    *)
(* erase_if_heap() is only asked to remove the last ones.                  *)
THEOREM ArrayElementsLiveOnce ==
  ASSUME Array!ArrayAssumption, "any" \notin Predicates
  PROVE  ContainersSpec => []LifetimesHold
<1> DEFINE Inv == container = "array" => ArrayInv
<1>1. ContainersInit => Inv
  <2> SUFFICES ASSUME Array!Init PROVE ArrayInv
    BY DEF ContainersInit, ContainersAre
  <2> DEFINE U == Array!NoStorage
  <2>1. 0 \in 0..0 /\ 0 \in Nat /\ 0..0 - 1 = {} /\ 0..-1 = {}
    OBVIOUS
  <2>2. U \in Lived(0, 0)
    BY <2>1 DEF Lived, Storage, Array!NoStorage
  <2> HIDE DEF U
  <2>3. Stored(U, 0)
    BY <2>1, <2>2 DEF Stored
  <2>4. slots = [a \in ArrayName |-> U] /\ m_end_ = [a \in ArrayName |-> 0]
    BY DEF Array!Init, U
  <2> QED BY <2>3, <2>4 DEF ArrayInv
<1>2. Inv /\ [ContainersNext]_containerVars => Inv'
  <2> SUFFICES ASSUME Inv, [ContainersNext]_containerVars, container' = "array"
               PROVE  ArrayInv'
    OBVIOUS
  <2>1. CASE UNCHANGED containerVars
    BY <2>1 DEF containerVars, array, ArrayInv
  <2>2. CASE ContainersNext
    <3>1. container = "array" /\ Array!Next
      BY <2>2 DEF ContainersNext
    <3> QED BY <3>1, ArraySteps
  <2> QED BY <2>1, <2>2
<1>3. Inv => LifetimesHold
  <2> SUFFICES ASSUME ArrayInv, NEW a \in ArrayName, NEW i \in DOMAIN slots[a]
               PROVE  IF i < m_end_[a] THEN Array!Lives(slots[a][i]) ELSE slots[a][i] = Raw
    BY DEF LifetimesHold, Array!LifetimesHold
  <2>1. PICK c \in Nat : m_end_[a] \in 0..c /\ slots[a] \in Lived(c, m_end_[a])
    BY DEF ArrayInv, Stored
  <2> QED BY <2>1 DEF Lived, Storage
<1> QED BY <1>1, <1>2, <1>3, PTL DEF ContainersSpec

-----------------------------------------------------------------------------
(***************************************************************************)
(* hxbitset, of any number of bits in words of any size.  A bit has a      *)
(* position, and a place: a word and a bit of it.  The lemmas below relate *)
(* the two, then a shift by so many positions to one by words and bits.    *)
(***************************************************************************)
LEMMA Division ==
  ASSUME NEW a \in Nat, NEW n \in Nat \ {0}
  PROVE  /\ a \div n \in Nat /\ a % n \in 0..n - 1
         /\ a = (a \div n) * n + (a % n)
OBVIOUS

(* A word begins after the words before it, so a position has one place.   *)
LEMMA WordsFollow ==
  ASSUME NEW n \in Nat \ {0}, NEW v \in Int, NEW w \in Int, v < w
  PROVE  v * n + n <= w * n
<1>1. PICK d \in Nat : w = v + 1 + d
  <2>1. w - v - 1 \in Nat /\ w = v + 1 + (w - v - 1)
    OBVIOUS
  <2> QED BY <2>1
<1>2. w * n = v * n + n + d * n
  BY <1>1
<1>3. d * n \in Nat
  OBVIOUS
<1> QED BY <1>2, <1>3

LEMMA OnePlace ==
  ASSUME NEW n \in Nat \ {0}, NEW v \in Int, NEW w \in Int,
         NEW p \in 0..n - 1, NEW q \in 0..n - 1, v * n + p = w * n + q
  PROVE  v = w /\ p = q
<1> DEFINE x == v * n
           y == w * n
<1>1. x \in Int /\ y \in Int /\ x + p = y + q
  OBVIOUS
<1>2. v < w => x + n <= y
  BY WordsFollow
<1>3. w < v => y + n <= x
  BY WordsFollow
<1>4. v = w => x = y
  OBVIOUS
<1> HIDE DEF x, y
<1>5. ~(v < w) /\ ~(w < v)
  BY <1>1, <1>2, <1>3
<1>6. v = w
  BY <1>5
<1> QED BY <1>1, <1>4, <1>6

(* The last word begins before the last bit, and ends behind it.           *)
LEMMA LastWord ==
  ASSUME Bits!BitSetAssumption
  PROVE  /\ BitCount \in Nat \ {0} /\ WordBits \in Nat \ {0}
         /\ Bits!s_words_ \in Nat \ {0}
         /\ BitCount <= Bits!s_words_ * WordBits
         /\ Bits!s_trailing_mask_ \subseteq Bits!Ones
         /\ \A p \in Bits!Ones :
              p \in Bits!s_trailing_mask_ <=> (Bits!s_words_ - 1) * WordBits + p < BitCount
<1> DEFINE s == Bits!s_words_
           n == WordBits
           c == BitCount
           q == c \div n
           t == c % n
           x == (s - 1) * n
<1>1. c \in Nat \ {0} /\ n \in Nat \ {0}
  BY DEF Bits!BitSetAssumption
<1>2. q \in Nat /\ t \in 0..n - 1 /\ c = q * n + t
  BY <1>1, Division
<1>3. /\ s \in Nat /\ (c + n - 1) % n \in 0..n - 1
      /\ c + n - 1 = s * n + ((c + n - 1) % n)
  <2> DEFINE d == c + n - 1
  <2>1. d \in Nat
    BY <1>1
  <2>2. s = d \div n
    BY DEF Bits!s_words_
  <2> HIDE DEF d
  <2>3. d \div n \in Nat /\ d % n \in 0..n - 1 /\ d = (d \div n) * n + (d % n)
    BY <1>1, <2>1, Division
  <2> QED BY <2>2, <2>3 DEF d
<1>4. s * n = x + n /\ x \in Int /\ s * n \in Int
  BY <1>1, <1>3
<1>5. Bits!Ones = 0..n - 1
      /\ Bits!s_trailing_mask_ = IF t # 0 THEN 0..t - 1 ELSE 0..n - 1
  BY DEF Bits!Ones, Bits!s_trailing_mask_, Bits!s_trailing_bits_
<1> DEFINE r == (c + n - 1) % n
           y == s * n
<1>6. /\ r \in 0..n - 1 /\ c + n - 1 = y + r /\ y = x + n /\ x \in Int /\ y \in Int
  BY <1>3, <1>4
<1>7. s # 0
  <2>1. s = 0 => y = 0
    BY <1>1
  <2> HIDE DEF y, r, x
  <2> QED BY <1>1, <1>6, <2>1
<1>8. t # 0 => x = q * n
  <2> SUFFICES ASSUME t # 0 PROVE x = q * n
    OBVIOUS
  <2>1. c = q * n + t /\ q * n \in Int
    BY <1>1, <1>2
  <2>2. c = x + (r + 1)
    <3> HIDE DEF x, y, r
    <3> QED BY <1>1, <1>6
  <2>3. CASE r + 1 = n
    <3>1. c = s * n + 0 /\ 0 \in 0..n - 1
      <4> HIDE DEF x, r
      <4> QED BY <1>1, <1>6, <2>2, <2>3
    <3>2. t = 0
      BY <1>1, <1>2, <1>3, <2>1, <3>1, OnePlace
    <3> QED BY <3>2
  <2>4. CASE r + 1 # n
    <3>1. r + 1 \in 0..n - 1
      <4> HIDE DEF r
      <4> QED BY <1>1, <1>6, <2>4
    <3>2. s - 1 = q
      BY <1>1, <1>2, <1>3, <2>1, <2>2, <3>1, OnePlace
    <3> QED BY <3>2
  <2> QED BY <2>3, <2>4
<1>9. t = 0 => c = y
  <2> SUFFICES ASSUME t = 0 PROVE c = y
    OBVIOUS
  <2>1. c = q * n + 0 /\ 0 \in 0..n - 1
    BY <1>1, <1>2
  <2>2. c = x + (r + 1)
    <3> HIDE DEF x, y, r
    <3> QED BY <1>1, <1>6
  <2>3. r + 1 = n
    <3> SUFFICES ASSUME r + 1 # n PROVE FALSE
      OBVIOUS
    <3>1. r + 1 \in 0..n - 1
      <4> HIDE DEF r
      <4> QED BY <1>1, <1>6
    <3>2. r + 1 = 0
      <4>1. (s - 1) * n + (r + 1) = q * n + 0 /\ s - 1 \in Int /\ q \in Int
        BY <1>2, <1>3, <2>1, <2>2
      <4>2. PICK v \in Int, w \in Int, a \in 0..n - 1, b \in 0..n - 1 :
              v = s - 1 /\ w = q /\ a = r + 1 /\ b = 0
        BY <2>1, <3>1, <4>1
      <4>3. v * n + a = w * n + b
        BY <4>1, <4>2
      <4> HIDE DEF r, q, n
      <4>4. a = b
        BY <1>1, <4>3, OnePlace
      <4> QED BY <4>2, <4>4
    <3> HIDE DEF r
    <3> QED BY <1>6, <3>2
  <2> HIDE DEF x, y, r
  <2> QED BY <1>6, <2>2, <2>3
<1> DEFINE z == q * n
<1>10. c = z + t /\ z \in Int /\ (t # 0 => x = z)
  BY <1>1, <1>2, <1>8
<1> HIDE DEF x, y, z, q, t, r
<1>11. c <= y /\ \A p \in 0..n - 1 : (p \in IF t # 0 THEN 0..t - 1 ELSE 0..n - 1) <=> x + p < c
  BY <1>1, <1>2, <1>6, <1>9, <1>10
<1>12. (IF t # 0 THEN 0..t - 1 ELSE 0..n - 1) \subseteq 0..n - 1
  BY <1>1, <1>2
<1> QED BY <1>1, <1>3, <1>5, <1>7, <1>11, <1>12 DEF x, y

(* The words of a bitset, whose last one has no bits behind the last one.  *)
Words == [Bits!Word -> SUBSET Bits!Ones]
Trimmed(data) ==
  data \in Words /\ data[Bits!s_words_ - 1] \subseteq Bits!s_trailing_mask_

(* The position of a place.                                                *)
At(w, p) == w * WordBits + p

LEMMA PlaceOfPosition ==
  ASSUME Bits!BitSetAssumption, NEW pos \in Bits!Position
  PROVE  /\ Bits!WordOf(pos) \in Bits!Word /\ pos % WordBits \in Bits!Ones
         /\ At(Bits!WordOf(pos), pos % WordBits) = pos
<1> DEFINE n == WordBits
           s == Bits!s_words_
           w == pos \div n
           p == pos % n
           x == w * n
           y == s * n
<1>1. /\ BitCount \in Nat \ {0} /\ n \in Nat \ {0} /\ s \in Nat \ {0} /\ BitCount <= y
      /\ pos \in 0..BitCount - 1 /\ pos \in Nat
  BY LastWord DEF Bits!Position
<1>2. w \in Nat /\ p \in 0..n - 1 /\ pos = x + p /\ x \in Int /\ y \in Int
  <2>1. w \in Nat /\ p \in 0..n - 1 /\ pos = w * n + p
    <3> HIDE DEF n
    <3> QED BY <1>1, Division
  <2> HIDE DEF w, p, n, s
  <2> QED BY <1>1, <2>1
<1>3. ~(s <= w)
  <2> SUFFICES ASSUME s <= w PROVE FALSE
    OBVIOUS
  <2>1. s = w => y = x
    OBVIOUS
  <2>2. s < w => y + n <= x
    BY <1>1, <1>2, WordsFollow
  <2> HIDE DEF w, p, x, y, s, n
  <2> QED BY <1>1, <1>2, <2>1, <2>2
<1>4. w \in 0..s - 1
  <2> HIDE DEF w, s
  <2> QED BY <1>1, <1>2, <1>3
<1> QED BY <1>2, <1>4 DEF Bits!WordOf, Bits!Word, Bits!Ones, At

(* Every place is a position, but for those in the last word behind the    *)
(* last bit.                                                               *)
LEMMA PositionOfPlace ==
  ASSUME Bits!BitSetAssumption, NEW w \in Bits!Word, NEW p \in Bits!Ones
  PROVE  /\ At(w, p) \in Int
         /\ At(w, p) \in Bits!Position <=>
              (w = Bits!s_words_ - 1 => p \in Bits!s_trailing_mask_)
         /\ At(w, p) \in Nat
<1> DEFINE n == WordBits
           s == Bits!s_words_
           x == w * n
           y == (s - 1) * n
<1>1. /\ BitCount \in Nat \ {0} /\ n \in Nat \ {0} /\ s \in Nat \ {0}
      /\ w \in 0..s - 1 /\ p \in 0..n - 1
      /\ \A i \in Bits!Ones : i \in Bits!s_trailing_mask_ <=> y + i < BitCount
  BY LastWord DEF Bits!Word, Bits!Ones
<1>2. x \in Nat /\ y \in Int /\ At(w, p) = x + p
  BY <1>1 DEF At
<1>3. At(w, p) \in Nat
  <2> HIDE DEF x, n
  <2> QED BY <1>1, <1>2
<1>4. CASE w = s - 1
  <2>1. x = y
    BY <1>4
  <2>2. At(w, p) \in Bits!Position <=> y + p < BitCount
    <3> HIDE DEF x, y, n, s
    <3> QED BY <1>1, <1>2, <1>3, <2>1 DEF Bits!Position
  <2> HIDE DEF x, y, n
  <2> QED BY <1>1, <1>3, <1>4, <2>2
<1>5. CASE w # s - 1
  <2>1. w < s - 1 /\ s - 1 \in Int
    BY <1>1, <1>5
  <2>2. x + n <= y
    BY <1>1, <2>1, WordsFollow
  <2>3. 0 \in Bits!Ones /\ y < BitCount
    <3>1. BitCount \in Nat /\ n \in Nat
      BY <1>1
    <3>2. y < BitCount
      <4>1. 0 \in Bits!s_trailing_mask_ /\ 0 \in Bits!Ones
        BY <1>1 DEF Bits!s_trailing_mask_, Bits!s_trailing_bits_, Bits!Ones
      <4>2. y + 0 < BitCount
        BY <1>1, <4>1
      <4> HIDE DEF y
      <4> QED BY <1>2, <4>2
    <3> QED BY <1>1, <3>2 DEF Bits!Ones
  <2>4. At(w, p) \in Bits!Position
    <3> HIDE DEF x, y, n, s
    <3> QED BY <1>1, <1>2, <1>3, <2>2, <2>3 DEF Bits!Position
  <2> QED BY <1>3, <1>5, <2>4
<1> QED BY <1>4, <1>5

(* So a bit is set where its word has it.                                  *)
LEMMA BitAtPlace ==
  ASSUME Bits!BitSetAssumption, NEW data, Trimmed(data), NEW w \in Bits!Word, NEW p \in Bits!Ones
  PROVE  At(w, p) \in Bits!PositionsOf(data) <=> p \in data[w]
<1>1. \A pos \in Bits!Position : Bits!BitOf(data, pos) <=> pos % WordBits \in data[Bits!WordOf(pos)]
  BY DEF Bits!BitOf, Bits!Mask
<1>2. At(w, p) \in Bits!Position => Bits!WordOf(At(w, p)) = w /\ At(w, p) % WordBits = p
  <2> SUFFICES ASSUME At(w, p) \in Bits!Position
               PROVE  Bits!WordOf(At(w, p)) = w /\ At(w, p) % WordBits = p
    OBVIOUS
  <2>1. PICK pos \in Bits!Position : pos = At(w, p)
    OBVIOUS
  <2>2. PICK v \in Bits!Word, q \in Bits!Ones : v = Bits!WordOf(pos) /\ q = pos % WordBits /\ At(v, q) = pos
    BY PlaceOfPosition
  <2>3. WordBits \in Nat \ {0} /\ Bits!s_words_ \in Nat
    BY LastWord
  <2>4. v \in Int /\ w \in Int /\ p \in 0..WordBits - 1 /\ q \in 0..WordBits - 1
        /\ v * WordBits + q = w * WordBits + p
    BY <2>1, <2>2, <2>3 DEF At, Bits!Word, Bits!Ones
  <2>5. v = w /\ q = p
    BY <2>3, <2>4, OnePlace
  <2> QED BY <2>1, <2>2, <2>5
<1>3. p \in data[w] => At(w, p) \in Bits!Position
  BY PositionOfPlace DEF Trimmed
<1> QED BY <1>1, <1>2, <1>3 DEF Bits!PositionsOf

LEMMA PositionsArePlaces ==
  ASSUME Bits!BitSetAssumption, NEW data, Trimmed(data), NEW pos
  PROVE  pos \in Bits!PositionsOf(data) <=>
           \E w \in Bits!Word : \E p \in data[w] : pos = At(w, p)
<1>1. ASSUME pos \in Bits!PositionsOf(data)
      PROVE  \E w \in Bits!Word : \E p \in data[w] : pos = At(w, p)
  <2>1. pos \in Bits!Position
    BY <1>1 DEF Bits!PositionsOf
  <2>2. PICK w \in Bits!Word, p \in Bits!Ones : At(w, p) = pos
    BY <2>1, PlaceOfPosition
  <2>3. p \in data[w]
    BY <1>1, <2>2, BitAtPlace
  <2> QED BY <2>2, <2>3
<1>2. ASSUME NEW w \in Bits!Word, NEW p \in data[w], pos = At(w, p)
      PROVE  pos \in Bits!PositionsOf(data)
  <2>1. p \in Bits!Ones
    BY DEF Trimmed, Words
  <2> QED BY <1>2, <2>1, BitAtPlace
<1> QED BY <1>1, <1>2

(* all(), any() and ==.                                                    *)
BitsInv == m_words_ = [b \in BitSets |-> m_words_[b]] /\ \A b \in BitSets : Trimmed(m_words_[b])

LEMMA WordsAgree ==
  ASSUME Bits!BitSetAssumption, BitsInv
  PROVE  Bits!WordsAgreeWithBits
<1>1. ASSUME NEW b \in BitSets, NEW w \in Bits!Word, NEW p \in Bits!Ones
      PROVE  At(w, p) \in Bits!PositionsOf(m_words_[b]) <=> p \in m_words_[b][w]
  BY BitAtPlace DEF BitsInv
<1>2. ASSUME NEW b \in BitSets, NEW w \in Bits!Word PROVE m_words_[b][w] \subseteq Bits!Ones
  BY DEF BitsInv, Trimmed, Words
<1>3. \A b \in BitSets, pos \in Bits!Position :
        Bits!Test(b, pos) <=> pos \in Bits!PositionsOf(m_words_[b])
  BY DEF Bits!Test, Bits!PositionsOf
<1>4. \A pos \in Bits!Position : \E w \in Bits!Word, p \in Bits!Ones : pos = At(w, p)
  BY PlaceOfPosition
<1>5. \A b \in BitSets : Bits!PositionsOf(m_words_[b]) \subseteq Bits!Position
  BY DEF Bits!PositionsOf
<1>6. ASSUME NEW b \in BitSets
      PROVE  Bits!All(b) <=> \A pos \in Bits!Position : Bits!Test(b, pos)
  <2>1. ASSUME Bits!All(b), NEW pos \in Bits!Position PROVE Bits!Test(b, pos)
    <3>1. PICK w \in Bits!Word, p \in Bits!Ones : pos = At(w, p)
      BY <1>4
    <3>2. w = Bits!s_words_ - 1 => p \in Bits!s_trailing_mask_
      BY <3>1, PositionOfPlace
    <3>3. p \in m_words_[b][w]
      BY <2>1, <3>2 DEF Bits!All
    <3> QED BY <1>1, <1>3, <3>1, <3>3
  <2>2. ASSUME \A pos \in Bits!Position : Bits!Test(b, pos) PROVE Bits!All(b)
    <3>1. ASSUME NEW w \in Bits!Word, NEW p \in Bits!Ones,
                 w = Bits!s_words_ - 1 => p \in Bits!s_trailing_mask_
          PROVE  p \in m_words_[b][w]
      <4>1. At(w, p) \in Bits!Position
        BY <3>1, PositionOfPlace
      <4> QED BY <1>1, <1>3, <2>2, <4>1
    <3>2. \A w \in Bits!Word \ {Bits!s_words_ - 1} : m_words_[b][w] = Bits!Ones
      BY <1>2, <3>1
    <3>3. Bits!s_words_ - 1 \in Bits!Word /\ Bits!s_trailing_mask_ \subseteq Bits!Ones
      BY LastWord DEF Bits!Word
    <3>4. Bits!s_trailing_mask_ \subseteq m_words_[b][Bits!s_words_ - 1]
      BY <3>1, <3>3
    <3>5. m_words_[b][Bits!s_words_ - 1] \subseteq Bits!s_trailing_mask_
      BY DEF BitsInv, Trimmed
    <3> QED BY <3>2, <3>4, <3>5 DEF Bits!All
  <2> QED BY <2>1, <2>2
<1>7. ASSUME NEW b \in BitSets
      PROVE  Bits!Any(b) <=> \E pos \in Bits!Position : Bits!Test(b, pos)
  <2>1. ASSUME Bits!Any(b) PROVE \E pos \in Bits!Position : Bits!Test(b, pos)
    <3>1. PICK w \in Bits!Word, p \in Bits!Ones : p \in m_words_[b][w]
      BY <1>2, <2>1 DEF Bits!Any
    <3> QED BY <1>1, <1>3, <1>5, <3>1
  <2>2. ASSUME NEW pos \in Bits!Position, Bits!Test(b, pos) PROVE Bits!Any(b)
    <3>1. PICK w \in Bits!Word, p \in Bits!Ones : pos = At(w, p)
      BY <1>4
    <3>2. p \in m_words_[b][w]
      BY <1>1, <1>3, <2>2, <3>1
    <3> QED BY <3>2 DEF Bits!Any
  <2> QED BY <2>1, <2>2
<1>8. ASSUME NEW b \in BitSets, NEW x \in BitSets, Bits!Positions(b) = Bits!Positions(x)
      PROVE  m_words_[b] = m_words_[x]
  <2>1. ASSUME NEW w \in Bits!Word PROVE m_words_[b][w] = m_words_[x][w]
    <3>1. \A p \in Bits!Ones : p \in m_words_[b][w] <=> p \in m_words_[x][w]
      BY <1>1, <1>8 DEF Bits!Positions
    <3> QED BY <1>2, <3>1
  <2> QED BY <2>1 DEF BitsInv, Trimmed, Words
<1>9. \A b, x \in BitSets : m_words_[b] = m_words_[x] => Bits!Positions(b) = Bits!Positions(x)
  BY DEF Bits!Positions
<1> QED BY <1>6, <1>7, <1>8, <1>9 DEF Bits!WordsAgreeWithBits

(* The bits of a shifted word are those of a word before it and of the one *)
(* before that.                                                            *)
LEMMA WordUpBits ==
  ASSUME Bits!BitSetAssumption, NEW data \in Words, NEW count \in Nat,
         NEW i \in Bits!Word, NEW p \in Bits!Ones
  PROVE  p \in Bits!WordUp(data, i, count) <=>
           \E w \in Bits!Word : \E q \in data[w] : At(w, q) + count = At(i, p)
<1> DEFINE n == WordBits
           words == count \div n
           places == count % n
<1>1. /\ n \in Nat \ {0} /\ Bits!Ones = 0..n - 1
      /\ Bits!s_words_ \in Nat /\ Bits!Word = 0..Bits!s_words_ - 1
  BY LastWord DEF Bits!Ones, Bits!Word
<1>2. words \in Nat /\ places \in 0..n - 1 /\ count = words * n + places
  <2> HIDE DEF n
  <2> QED BY <1>1, Division
<1>3. p \in Bits!WordUp(data, i, count) <=>
        \/ i >= words /\ \E q \in data[i - words] : q + places = p
        \/ /\ places # 0 /\ i > words
           /\ \E q \in data[i - words - 1] : q - (n - places) = p
  BY DEF Bits!WordUp, Bits!Up, Bits!Down
<1>4. ASSUME NEW w \in Bits!Word PROVE data[w] \subseteq 0..n - 1
  BY <1>1 DEF Words
<1>5. p \in 0..n - 1 /\ i \in 0..Bits!s_words_ - 1 /\ i \in Nat
  BY <1>1
<1> HIDE DEF words, places
<1>6. ASSUME NEW w \in Bits!Word, NEW q \in 0..n - 1
      PROVE  /\ q + places < n => At(w, q) + count = (w + words) * n + (q + places)
             /\ At(w, q) + count = (w + words + 1) * n + (q + places - n)
  BY <1>1, <1>2 DEF At
<1>7. ASSUME NEW w \in Bits!Word, NEW q \in data[w], At(w, q) + count = At(i, p)
      PROVE  p \in Bits!WordUp(data, i, count)
  <2>1. q \in 0..n - 1 /\ w \in Nat
    BY <1>1, <1>4
  <2>2. CASE q + places < n
    <3>1. PICK u \in Int, a \in 0..n - 1 : u = w + words /\ a = q + places
      BY <1>1, <1>2, <2>1, <2>2
    <3>2. u * n + a = i * n + p
      BY <1>6, <1>7, <2>1, <2>2, <3>1 DEF At
    <3>3. u = i /\ a = p
      <4>1. n \in Nat \ {0} /\ u \in Int /\ i \in Int /\ a \in 0..n - 1 /\ p \in 0..n - 1
        BY <1>1, <1>5
      <4> HIDE DEF n
      <4> QED BY <3>2, <4>1, OnePlace
    <3>4. i - words = w /\ i >= words
      BY <1>2, <1>5, <2>1, <3>1, <3>3
    <3> QED BY <1>3, <3>1, <3>3, <3>4
  <2>3. CASE ~(q + places < n)
    <3>1. PICK u \in Int, a \in 0..n - 1 : u = w + words + 1 /\ a = q + places - n
      BY <1>1, <1>2, <2>1, <2>3
    <3>2. u * n + a = i * n + p
      BY <1>6, <1>7, <2>1, <3>1 DEF At
    <3>3. u = i /\ a = p
      <4>1. n \in Nat \ {0} /\ u \in Int /\ i \in Int /\ a \in 0..n - 1 /\ p \in 0..n - 1
        BY <1>1, <1>5
      <4> HIDE DEF n
      <4> QED BY <3>2, <4>1, OnePlace
    <3>4. i - words - 1 = w /\ i > words /\ places # 0 /\ q - (n - places) = p
      BY <1>1, <1>2, <1>5, <2>1, <2>3, <3>1, <3>3
    <3> QED BY <1>3, <3>4
  <2> QED BY <2>2, <2>3
<1>8. ASSUME p \in Bits!WordUp(data, i, count)
      PROVE  \E w \in Bits!Word : \E q \in data[w] : At(w, q) + count = At(i, p)
  <2>1. CASE i >= words /\ \E q \in data[i - words] : q + places = p
    <3>1. PICK w \in Bits!Word : w = i - words /\ w + words = i
      BY <1>1, <1>2, <1>5, <2>1
    <3>2. PICK q \in data[w] : q + places = p
      BY <2>1, <3>1
    <3>3. q \in 0..n - 1 /\ q + places < n
      BY <1>1, <1>2, <1>4, <1>5, <3>2
    <3>4. At(w, q) + count = At(i, p)
      BY <1>6, <3>1, <3>2, <3>3 DEF At
    <3> QED BY <3>4
  <2>2. CASE places # 0 /\ i > words /\ \E q \in data[i - words - 1] : q - (n - places) = p
    <3>1. PICK w \in Bits!Word : w = i - words - 1 /\ w + words + 1 = i
      BY <1>1, <1>2, <1>5, <2>2
    <3>2. PICK q \in data[w] : q - (n - places) = p
      BY <2>2, <3>1
    <3>3. q \in 0..n - 1
      BY <1>4
    <3>4. q + places - n = p
      BY <1>1, <1>2, <3>2, <3>3
    <3>5. At(w, q) + count = At(i, p)
      BY <1>6, <3>1, <3>3, <3>4 DEF At
    <3> QED BY <3>5
  <2> QED BY <1>3, <1>8, <2>1, <2>2
<1> QED BY <1>7, <1>8

LEMMA WordDownBits ==
  ASSUME Bits!BitSetAssumption, NEW data \in Words, NEW count \in Nat,
         NEW i \in Bits!Word, NEW p \in Bits!Ones
  PROVE  p \in Bits!WordDown(data, i, count) <=>
           \E w \in Bits!Word : \E q \in data[w] : At(w, q) = At(i, p) + count
<1> DEFINE n == WordBits
           words == count \div n
           places == count % n
<1>1. /\ n \in Nat \ {0} /\ Bits!Ones = 0..n - 1
      /\ Bits!s_words_ \in Nat /\ Bits!Word = 0..Bits!s_words_ - 1
  BY LastWord DEF Bits!Ones, Bits!Word
<1>2. words \in Nat /\ places \in 0..n - 1 /\ count = words * n + places
  <2> HIDE DEF n
  <2> QED BY <1>1, Division
<1>3. p \in Bits!WordDown(data, i, count) <=>
        \/ i + words < Bits!s_words_ /\ \E q \in data[i + words] : q - places = p
        \/ /\ places # 0 /\ i + words + 1 < Bits!s_words_
           /\ \E q \in data[i + words + 1] : q + (n - places) = p
  BY DEF Bits!WordDown, Bits!Up, Bits!Down
<1>4. ASSUME NEW w \in Bits!Word PROVE data[w] \subseteq 0..n - 1
  BY <1>1 DEF Words
<1>5. p \in 0..n - 1 /\ i \in 0..Bits!s_words_ - 1 /\ i \in Nat
  BY <1>1
<1> HIDE DEF words, places
<1>6. /\ At(i, p) + count = (i + words) * n + (p + places)
      /\ At(i, p) + count = (i + words + 1) * n + (p + places - n)
  BY <1>1, <1>2, <1>5 DEF At
<1>7. ASSUME NEW w \in Bits!Word, NEW q \in data[w], At(w, q) = At(i, p) + count
      PROVE  p \in Bits!WordDown(data, i, count)
  <2>1. q \in 0..n - 1 /\ w \in Nat /\ w < Bits!s_words_
    BY <1>1, <1>4
  <2>2. CASE p + places < n
    <3>1. PICK u \in Int, a \in 0..n - 1 : u = i + words /\ a = p + places
      BY <1>1, <1>2, <1>5, <2>2
    <3>2. u * n + a = w * n + q
      BY <1>6, <1>7, <2>1, <3>1 DEF At
    <3>3. u = w /\ a = q
      <4>1. n \in Nat \ {0} /\ u \in Int /\ w \in Int /\ a \in 0..n - 1 /\ q \in 0..n - 1
        BY <1>1, <2>1
      <4> HIDE DEF n
      <4> QED BY <3>2, <4>1, OnePlace
    <3>4. q - places = p
      BY <1>2, <1>5, <3>1, <3>3
    <3> QED BY <1>3, <2>1, <3>1, <3>3, <3>4
  <2>3. CASE ~(p + places < n)
    <3>1. PICK u \in Int, a \in 0..n - 1 : u = i + words + 1 /\ a = p + places - n
      BY <1>1, <1>2, <1>5, <2>3
    <3>2. u * n + a = w * n + q
      BY <1>6, <1>7, <2>1, <3>1 DEF At
    <3>3. u = w /\ a = q
      <4>1. n \in Nat \ {0} /\ u \in Int /\ w \in Int /\ a \in 0..n - 1 /\ q \in 0..n - 1
        BY <1>1, <2>1
      <4> HIDE DEF n
      <4> QED BY <3>2, <4>1, OnePlace
    <3>4. q + (n - places) = p /\ places # 0
      BY <1>1, <1>2, <1>5, <2>3, <3>1, <3>3
    <3> QED BY <1>3, <2>1, <3>1, <3>3, <3>4
  <2> QED BY <2>2, <2>3
<1>8. ASSUME p \in Bits!WordDown(data, i, count)
      PROVE  \E w \in Bits!Word : \E q \in data[w] : At(w, q) = At(i, p) + count
  <2>1. CASE i + words < Bits!s_words_ /\ \E q \in data[i + words] : q - places = p
    <3>1. PICK w \in Bits!Word : w = i + words
      BY <1>1, <1>2, <1>5, <2>1
    <3>2. PICK q \in data[w] : q - places = p
      BY <2>1, <3>1
    <3>3. q \in 0..n - 1
      BY <1>4
    <3>4. q = p + places
      BY <1>2, <3>2, <3>3
    <3>5. At(w, q) = At(i, p) + count
      BY <1>6, <3>1, <3>4 DEF At
    <3> QED BY <3>5
  <2>2. CASE places # 0 /\ i + words + 1 < Bits!s_words_
             /\ \E q \in data[i + words + 1] : q + (n - places) = p
    <3>1. PICK w \in Bits!Word : w = i + words + 1
      BY <1>1, <1>2, <1>5, <2>2
    <3>2. PICK q \in data[w] : q + (n - places) = p
      BY <2>2, <3>1
    <3>3. q \in 0..n - 1
      BY <1>4
    <3>4. q = p + places - n
      BY <1>1, <1>2, <3>2, <3>3
    <3>5. At(w, q) = At(i, p) + count
      BY <1>6, <3>1, <3>4 DEF At
    <3> QED BY <3>5
  <2> QED BY <1>3, <1>8, <2>1, <2>2
<1> QED BY <1>7, <1>8

(* A word is computed from words that are not written yet. *)
LEMMA WordUpReads ==
  ASSUME Bits!BitSetAssumption, NEW data, NEW read, NEW count \in Nat, NEW i \in Bits!Word,
         \A w \in Bits!Word : w <= i => read[w] = data[w]
  PROVE  Bits!WordUp(read, i, count) = Bits!WordUp(data, i, count)
<1> DEFINE words == count \div WordBits
<1>1. /\ WordBits \in Nat \ {0} /\ Bits!s_words_ \in Nat /\ Bits!Word = 0..Bits!s_words_ - 1
  BY LastWord DEF Bits!Word
<1>2. words \in Nat
  BY <1>1, Division
<1> HIDE DEF words
<1>3. i >= words => read[i - words] = data[i - words]
  <2>1. i >= words => i - words \in Bits!Word /\ i - words <= i
    BY <1>1, <1>2
  <2> QED BY <2>1
<1>4. i > words => read[i - words - 1] = data[i - words - 1]
  <2>1. i > words => i - words - 1 \in Bits!Word /\ i - words - 1 <= i
    BY <1>1, <1>2
  <2> QED BY <2>1
<1> QED BY <1>3, <1>4 DEF Bits!WordUp, words

LEMMA WordDownReads ==
  ASSUME Bits!BitSetAssumption, NEW data, NEW read, NEW count \in Nat, NEW i \in Bits!Word,
         \A w \in Bits!Word : i <= w => read[w] = data[w]
  PROVE  Bits!WordDown(read, i, count) = Bits!WordDown(data, i, count)
<1> DEFINE words == count \div WordBits
<1>1. /\ WordBits \in Nat \ {0} /\ Bits!s_words_ \in Nat /\ Bits!Word = 0..Bits!s_words_ - 1
  BY LastWord DEF Bits!Word
<1>2. words \in Nat
  BY <1>1, Division
<1> HIDE DEF words
<1>3. i + words < Bits!s_words_ => read[i + words] = data[i + words]
  <2>1. i + words < Bits!s_words_ => i + words \in Bits!Word /\ i <= i + words
    BY <1>1, <1>2
  <2> QED BY <2>1
<1>4. i + words + 1 < Bits!s_words_ => read[i + words + 1] = data[i + words + 1]
  <2>1. i + words + 1 < Bits!s_words_ => i + words + 1 \in Bits!Word /\ i <= i + words + 1
    BY <1>1, <1>2
  <2> QED BY <2>1
<1> QED BY <1>3, <1>4 DEF Bits!WordDown, words

(* So the loops compute every word from what the words held before.        *)
LEMMA LeftLoop ==
  ASSUME Bits!BitSetAssumption, NEW data \in Words, NEW count \in Nat, count # 0
  PROVE  Bits!ShiftedLeft(data, count)
           = Bits!Masked([i \in Bits!Word |-> Bits!WordUp(data, i, count)])
<1> DEFINE s == Bits!s_words_
           T(k) == [i \in Bits!Word |-> IF s - k <= i THEN Bits!WordUp(data, i, count) ELSE data[i]]
           Q == [k \in 0..s |-> {T(k)}]
           Is(f) == f = [k \in 0..s |-> IF k = 0 THEN data
                           ELSE [f[k - 1] EXCEPT ![s - k] = Bits!WordUp(f[k - 1], s - k, count)]]
<1>1. s \in Nat \ {0} /\ Bits!Word = 0..s - 1 /\ DOMAIN data = Bits!Word
  BY LastWord DEF Bits!Word, Words
<1>2. T(0) = data
  <2>1. \A i \in Bits!Word : ~(s - 0 <= i)
    BY <1>1
  <2> QED BY <1>1, <2>1 DEF Words
<1>3. ASSUME NEW k \in 1..s
      PROVE  [T(k - 1) EXCEPT ![s - k] = Bits!WordUp(T(k - 1), s - k, count)] = T(k)
  <2>1. /\ s - k \in Bits!Word /\ s - (k - 1) = s - k + 1
        /\ \A i \in Bits!Word : i <= s - k => ~(s - (k - 1) <= i)
        /\ \A i \in Bits!Word : i # s - k => (s - (k - 1) <= i <=> s - k <= i)
    BY <1>1
  <2>2. \A i \in Bits!Word : i <= s - k => T(k - 1)[i] = data[i]
    BY <2>1
  <2> DEFINE i == s - k
             read == T(k - 1)
  <2>3. i \in Bits!Word /\ \A w \in Bits!Word : w <= i => read[w] = data[w]
    BY <2>1, <2>2
  <2>4. Bits!WordUp(read, i, count) = Bits!WordUp(data, i, count)
    <3> HIDE DEF i, read
    <3> QED BY <2>3, WordUpReads
  <2>5. s - k <= s - k
    BY <1>1
  <2> HIDE DEF s
  <2> QED BY <2>1, <2>4, <2>5
<1>4. \E f : Is(f)
  <2> DEFINE g == [k \in 0..s |-> T(k)]
  <2>1. ASSUME NEW k \in 0..s
        PROVE  g[k] = IF k = 0 THEN data
                      ELSE [g[k - 1] EXCEPT ![s - k] = Bits!WordUp(g[k - 1], s - k, count)]
    <3>1. k # 0 => k \in 1..s /\ k - 1 \in 0..s
      BY <1>1
    <3> HIDE DEF T
    <3> QED BY <1>2, <1>3, <3>1
  <2>2. g = [k \in 0..s |-> g[k]]
    OBVIOUS
  <2> HIDE DEF g
  <2>3. Is(g)
    BY <2>1, <2>2
  <2> QED BY <2>3
<1> DEFINE f == CHOOSE f : Is(f)
<1>5. Is(f)
  BY <1>4
<1>6. Bits!ShiftedLeft(data, count) = Bits!Masked(f[s])
  BY DEF Bits!ShiftedLeft
<1> HIDE DEF f
<1>7. f[s] = T(s)
  <2>1. \A k \in 0..s : f[k] = IF k = 0 THEN data
                        ELSE [f[k - 1] EXCEPT ![s - k] = Bits!WordUp(f[k - 1], s - k, count)]
    BY <1>5
  <2> HIDE DEF T
  <2>2. f[0] \in Q[0]
    <3>1. 0 \in 0..s
      BY <1>1
    <3>2. f[0] = data
      BY <2>1, <3>1
    <3>3. Q[0] = {T(0)}
      BY <3>1
    <3> QED BY <1>2, <3>2, <3>3
  <2>3. ASSUME NEW k \in 1..s, f[k - 1] \in Q[k - 1] PROVE f[k] \in Q[k]
    <3>1. k \in 0..s /\ k - 1 \in 0..s /\ k # 0
      BY <1>1
    <3>2. f[k - 1] = T(k - 1)
      BY <2>3, <3>1
    <3> QED BY <1>3, <2>1, <3>1, <3>2
  <2>4. s \in Nat /\ \A k \in 1..s : f[k - 1] \in Q[k - 1] => f[k] \in Q[k]
    BY <1>1, <2>3
  <2>5. \A k \in 0..s : f[k] \in Q[k]
    <3> HIDE DEF Q
    <3> QED BY <2>2, <2>4, LoopKeeps
  <2> QED BY <1>1, <2>5
<1>8. T(s) = [i \in Bits!Word |-> Bits!WordUp(data, i, count)]
  <2>1. \A i \in Bits!Word : s - s <= i
    BY <1>1
  <2> QED BY <2>1
<1> QED BY <1>6, <1>7, <1>8

LEMMA RightLoop ==
  ASSUME Bits!BitSetAssumption, NEW data \in Words, NEW count \in Nat, count # 0
  PROVE  Bits!ShiftedRight(data, count) = [i \in Bits!Word |-> Bits!WordDown(data, i, count)]
<1> DEFINE s == Bits!s_words_
           T(k) == [i \in Bits!Word |-> IF i < k THEN Bits!WordDown(data, i, count) ELSE data[i]]
           Q == [k \in 0..s |-> {T(k)}]
           Is(f) == f = [k \in 0..s |-> IF k = 0 THEN data
                           ELSE [f[k - 1] EXCEPT ![k - 1] = Bits!WordDown(f[k - 1], k - 1, count)]]
<1>1. s \in Nat \ {0} /\ Bits!Word = 0..s - 1 /\ DOMAIN data = Bits!Word
  BY LastWord DEF Bits!Word, Words
<1>2. T(0) = data
  <2>1. \A i \in Bits!Word : ~(i < 0)
    BY <1>1
  <2> QED BY <1>1, <2>1 DEF Words
<1>3. ASSUME NEW k \in 1..s
      PROVE  [T(k - 1) EXCEPT ![k - 1] = Bits!WordDown(T(k - 1), k - 1, count)] = T(k)
  <2>1. /\ k - 1 \in Bits!Word /\ k - 1 < k
        /\ \A i \in Bits!Word : k - 1 <= i => ~(i < k - 1)
        /\ \A i \in Bits!Word : i # k - 1 => (i < k - 1 <=> i < k)
    BY <1>1
  <2>2. \A i \in Bits!Word : k - 1 <= i => T(k - 1)[i] = data[i]
    BY <2>1
  <2> DEFINE i == k - 1
             read == T(k - 1)
  <2>3. i \in Bits!Word /\ \A w \in Bits!Word : i <= w => read[w] = data[w]
    BY <2>1, <2>2
  <2>4. Bits!WordDown(read, i, count) = Bits!WordDown(data, i, count)
    <3> HIDE DEF i, read
    <3> QED BY <2>3, WordDownReads
  <2> HIDE DEF s
  <2> QED BY <2>1, <2>4
<1>4. \E f : Is(f)
  <2> DEFINE g == [k \in 0..s |-> T(k)]
  <2>1. ASSUME NEW k \in 0..s
        PROVE  g[k] = IF k = 0 THEN data
                      ELSE [g[k - 1] EXCEPT ![k - 1] = Bits!WordDown(g[k - 1], k - 1, count)]
    <3>1. k # 0 => k \in 1..s /\ k - 1 \in 0..s
      BY <1>1
    <3> HIDE DEF T
    <3> QED BY <1>2, <1>3, <3>1
  <2>2. g = [k \in 0..s |-> g[k]]
    OBVIOUS
  <2> HIDE DEF g
  <2>3. Is(g)
    BY <2>1, <2>2
  <2> QED BY <2>3
<1> DEFINE f == CHOOSE f : Is(f)
<1>5. Is(f)
  BY <1>4
<1>6. Bits!ShiftedRight(data, count) = f[s]
  BY DEF Bits!ShiftedRight
<1> HIDE DEF f
<1>7. f[s] = T(s)
  <2>1. \A k \in 0..s : f[k] = IF k = 0 THEN data
                        ELSE [f[k - 1] EXCEPT ![k - 1] = Bits!WordDown(f[k - 1], k - 1, count)]
    BY <1>5
  <2> HIDE DEF T
  <2>2. f[0] \in Q[0]
    <3>1. 0 \in 0..s
      BY <1>1
    <3>2. f[0] = data
      BY <2>1, <3>1
    <3>3. Q[0] = {T(0)}
      BY <3>1
    <3> QED BY <1>2, <3>2, <3>3
  <2>3. ASSUME NEW k \in 1..s, f[k - 1] \in Q[k - 1] PROVE f[k] \in Q[k]
    <3>1. k \in 0..s /\ k - 1 \in 0..s /\ k # 0
      BY <1>1
    <3>2. f[k - 1] = T(k - 1)
      BY <2>3, <3>1
    <3> QED BY <1>3, <2>1, <3>1, <3>2
  <2>4. s \in Nat /\ \A k \in 1..s : f[k - 1] \in Q[k - 1] => f[k] \in Q[k]
    BY <1>1, <2>3
  <2>5. \A k \in 0..s : f[k] \in Q[k]
    <3> HIDE DEF Q
    <3> QED BY <2>2, <2>4, LoopKeeps
  <2> QED BY <1>1, <2>5
<1>8. T(s) = [i \in Bits!Word |-> Bits!WordDown(data, i, count)]
  <2>1. \A i \in Bits!Word : i < s
    BY <1>1
  <2> QED BY <2>1
<1> QED BY <1>6, <1>7, <1>8

(* Masked() clears what is behind the last bit, and nothing else.          *)
LEMMA MaskedTrims ==
  ASSUME Bits!BitSetAssumption, NEW data \in Words
  PROVE  /\ Trimmed(Bits!Masked(data))
         /\ \A w \in Bits!Word, p \in Bits!Ones :
              At(w, p) \in Bits!Position => (p \in Bits!Masked(data)[w] <=> p \in data[w])
<1>1. Bits!s_words_ - 1 \in Bits!Word
  BY LastWord DEF Bits!Word
<1>2. Trimmed(Bits!Masked(data))
  BY <1>1 DEF Trimmed, Words, Bits!Masked
<1>3. ASSUME NEW w \in Bits!Word, NEW p \in Bits!Ones, At(w, p) \in Bits!Position
      PROVE  p \in Bits!Masked(data)[w] <=> p \in data[w]
  <2>1. w = Bits!s_words_ - 1 => p \in Bits!s_trailing_mask_
    BY <1>3, PositionOfPlace
  <2> QED BY <2>1 DEF Words, Bits!Masked
<1> QED BY <1>2, <1>3

(* The shifts move the set of the positions, and keep the words trimmed.   *)
LEMMA LeftShiftMoves ==
  ASSUME Bits!BitSetAssumption, NEW data, Trimmed(data), NEW count \in Nat
  PROVE  /\ Trimmed(Bits!ShiftedLeft(data, count))
         /\ Bits!PositionsOf(Bits!ShiftedLeft(data, count))
              = {pos + count : pos \in Bits!PositionsOf(data)} \cap Bits!Position
<1> DEFINE D == [i \in Bits!Word |-> Bits!WordUp(data, i, count)]
           M == Bits!ShiftedLeft(data, count)
           P == Bits!PositionsOf(data)
<1>1. P \subseteq Bits!Position /\ Bits!Position \subseteq Nat
  BY DEF Bits!PositionsOf, Bits!Position
<1>2. CASE count = 0
  <2>1. M = data
    BY <1>2 DEF Bits!ShiftedLeft
  <2>2. {pos + count : pos \in P} = P
    <3>1. P \subseteq Nat
      BY <1>1
    <3> HIDE DEF P
    <3>2. \A pos \in P : pos + count = pos
      <4>1. \A n \in Nat : n + 0 = n
        OBVIOUS
      <4> QED BY <1>2, <3>1, <4>1
    <3> QED BY <3>2
  <2> HIDE DEF M, P
  <2> QED BY <1>1, <2>1, <2>2 DEF M, P
<1>3. CASE count # 0
  <2>1. data \in Words
    BY DEF Trimmed
  <2>2. M = Bits!Masked(D)
    BY <1>3, <2>1, LeftLoop
  <2>3. D \in Words
    BY DEF Words, Bits!WordUp, Bits!Up, Bits!Down
  <2>4. \A w \in Bits!Word, p \in Bits!Ones :
          p \in D[w] <=> \E v \in Bits!Word : \E q \in data[v] : At(v, q) + count = At(w, p)
    BY <2>1, WordUpBits
  <2> HIDE DEF D, M
  <2>5. /\ Trimmed(M)
        /\ \A w \in Bits!Word, p \in Bits!Ones :
             At(w, p) \in Bits!Position => (p \in M[w] <=> p \in D[w])
    BY <2>2, <2>3, MaskedTrims
  <2>6. ASSUME NEW x \in Bits!Position
        PROVE  x \in Bits!PositionsOf(M) <=> \E pos \in P : x = pos + count
    <3>1. PICK w \in Bits!Word, p \in Bits!Ones : At(w, p) = x
      BY PlaceOfPosition
    <3>2. x \in Bits!PositionsOf(M) <=> p \in D[w]
      BY <2>5, <3>1, BitAtPlace
    <3>3. p \in D[w] <=> \E v \in Bits!Word : \E q \in data[v] : At(v, q) + count = x
      BY <2>4, <3>1
    <3>4. \A pos : pos \in P <=> \E v \in Bits!Word : \E q \in data[v] : pos = At(v, q)
      BY PositionsArePlaces
    <3> HIDE DEF P
    <3> QED BY <3>2, <3>3, <3>4
  <2>7. Bits!PositionsOf(M) \subseteq Bits!Position
    BY DEF Bits!PositionsOf
  <2> HIDE DEF P
  <2>8. Bits!PositionsOf(M) = {pos + count : pos \in P} \cap Bits!Position
    BY <2>6, <2>7
  <2> QED BY <2>5, <2>8 DEF M, P
<1> QED BY <1>2, <1>3

LEMMA RightShiftMoves ==
  ASSUME Bits!BitSetAssumption, NEW data, Trimmed(data), NEW count \in Nat
  PROVE  /\ Trimmed(Bits!ShiftedRight(data, count))
         /\ Bits!PositionsOf(Bits!ShiftedRight(data, count))
              = {pos - count : pos \in Bits!PositionsOf(data)} \cap Bits!Position
<1> DEFINE D == [i \in Bits!Word |-> Bits!WordDown(data, i, count)]
           M == Bits!ShiftedRight(data, count)
           P == Bits!PositionsOf(data)
<1>1. P \subseteq Bits!Position /\ Bits!Position \subseteq Nat
  BY DEF Bits!PositionsOf, Bits!Position
<1>2. CASE count = 0
  <2>1. M = data
    BY <1>2 DEF Bits!ShiftedRight
  <2>2. {pos - count : pos \in P} = P
    <3>1. P \subseteq Nat
      BY <1>1
    <3> HIDE DEF P
    <3>2. \A pos \in P : pos - count = pos
      <4>1. \A n \in Nat : n - 0 = n
        OBVIOUS
      <4> QED BY <1>2, <3>1, <4>1
    <3> QED BY <3>2
  <2> HIDE DEF M, P
  <2> QED BY <1>1, <2>1, <2>2 DEF M, P
<1>3. CASE count # 0
  <2>1. data \in Words
    BY DEF Trimmed
  <2>2. M = D
    BY <1>3, <2>1, RightLoop
  <2>3. D \in Words
    BY DEF Words, Bits!WordDown, Bits!Up, Bits!Down
  <2>4. \A w \in Bits!Word, p \in Bits!Ones :
          p \in D[w] <=> \E v \in Bits!Word : \E q \in data[v] : At(v, q) = At(w, p) + count
    BY <2>1, WordDownBits
  <2>5. \A pos : pos \in P <=> \E v \in Bits!Word : \E q \in data[v] : pos = At(v, q)
    BY PositionsArePlaces
  <2> HIDE DEF D, M, P
  <2>6. ASSUME NEW w \in Bits!Word, NEW p \in Bits!Ones
        PROVE  p \in D[w] <=> At(w, p) + count \in P
    BY <2>4, <2>5
  <2>7. Trimmed(D)
    <3>1. Bits!s_words_ - 1 \in Bits!Word
      BY LastWord DEF Bits!Word
    <3>2. ASSUME NEW p \in D[Bits!s_words_ - 1] PROVE p \in Bits!s_trailing_mask_
      <4>1. p \in Bits!Ones
        BY <2>3, <3>1 DEF Words
      <4> DEFINE x == At(Bits!s_words_ - 1, p)
      <4>2. x + count \in Bits!Position /\ x \in Nat
        BY <1>1, <2>6, <3>1, <4>1, PositionOfPlace
      <4>3. x \in Bits!Position
        <5>1. BitCount \in Nat
          BY LastWord
        <5> HIDE DEF x
        <5> QED BY <4>2, <5>1 DEF Bits!Position
      <4> QED BY <3>1, <4>1, <4>3, PositionOfPlace
    <3> QED BY <2>3, <3>2 DEF Trimmed
  <2>8. Trimmed(M)
    BY <2>2, <2>7
  <2>9. ASSUME NEW x \in Bits!Position
        PROVE  x \in Bits!PositionsOf(M) <=> \E pos \in P : x = pos - count
    <3>1. PICK w \in Bits!Word, p \in Bits!Ones : At(w, p) = x
      BY PlaceOfPosition
    <3>2. x \in Bits!PositionsOf(M) <=> p \in M[w]
      BY <2>8, <3>1, BitAtPlace
    <3>3. x \in Bits!PositionsOf(M) <=> x + count \in P
      BY <2>2, <2>6, <3>1, <3>2
    <3>4. x \in Nat /\ P \subseteq Nat
      BY <1>1
    <3> QED BY <3>3, <3>4
  <2>10. Bits!PositionsOf(M) \subseteq Bits!Position
    BY DEF Bits!PositionsOf
  <2>11. Bits!PositionsOf(M) = {pos - count : pos \in P} \cap Bits!Position
    BY <2>9, <2>10
  <2> QED BY <2>8, <2>11 DEF M, P
<1> QED BY <1>2, <1>3

(* Every call keeps the words trimmed.                                     *)
LEMMA WriteKeeps ==
  ASSUME BitsInv, NEW b \in BitSets, NEW data, Trimmed(data), Bits!Write(b, data)
  PROVE  BitsInv'
<1>1. m_words_' = [m_words_ EXCEPT ![b] = data]
  BY DEF Bits!Write
<1>2. m_words_' = [x \in BitSets |-> IF x = b THEN data ELSE m_words_[x]]
  BY <1>1 DEF BitsInv
<1>3. \A x \in BitSets : Trimmed(m_words_'[x])
  BY <1>2 DEF BitsInv
<1>4. m_words_' = [x \in BitSets |-> m_words_'[x]]
  BY <1>2
<1> QED BY <1>3, <1>4 DEF BitsInv, Trimmed, Words, Bits!s_trailing_mask_

LEMMA BitCallsKeep ==
  ASSUME Bits!BitSetAssumption, BitsInv, NEW b \in BitSets, NEW x \in BitSets,
         NEW pos \in Bits!Position,
         \/ Bits!Assign(b, x) \/ Bits!And(b, x) \/ Bits!Or(b, x) \/ Bits!ExclusiveOr(b, x)
         \/ Bits!Flip(b) \/ Bits!Reset(b) \/ Bits!Set(b)
         \/ Bits!FlipAt(b, pos) \/ Bits!ResetAt(b, pos) \/ Bits!SetAt(b, pos)
  PROVE  BitsInv'
<1> DEFINE last == Bits!s_words_ - 1
           mask == Bits!s_trailing_mask_
<1>1. /\ Trimmed(m_words_[b]) /\ Trimmed(m_words_[x])
      /\ m_words_[b] \in Words /\ m_words_[x] \in Words
  BY DEF BitsInv, Trimmed
<1>2. last \in Bits!Word /\ mask \subseteq Bits!Ones
  BY LastWord DEF Bits!Word
<1>3. CASE Bits!Assign(b, x)
  BY <1>1, <1>3, WriteKeeps DEF Bits!Assign
<1>4. CASE Bits!And(b, x)
  <2> DEFINE D == [w \in Bits!Word |-> m_words_[b][w] \cap m_words_[x][w]]
  <2>1. Trimmed(D)
    BY <1>1, <1>2 DEF Trimmed, Words
  <2> QED BY <1>4, <2>1, WriteKeeps DEF Bits!And
<1>5. CASE Bits!Or(b, x)
  <2> DEFINE D == [w \in Bits!Word |-> m_words_[b][w] \union m_words_[x][w]]
  <2>1. Trimmed(D)
    BY <1>1, <1>2 DEF Trimmed, Words
  <2> QED BY <1>5, <2>1, WriteKeeps DEF Bits!Or
<1>6. CASE Bits!ExclusiveOr(b, x)
  <2> DEFINE D == [w \in Bits!Word |-> Bits!Xor(m_words_[b][w], m_words_[x][w])]
  <2>1. Trimmed(D)
    BY <1>1, <1>2 DEF Trimmed, Words, Bits!Xor
  <2> QED BY <1>6, <2>1, WriteKeeps DEF Bits!ExclusiveOr
<1>7. CASE Bits!Flip(b)
  <2> DEFINE D == [w \in Bits!Word |-> Bits!Xor(m_words_[b][w], Bits!Ones)]
  <2>1. D \in Words
    BY <1>1 DEF Words, Bits!Xor
  <2> HIDE DEF D
  <2>2. Trimmed(Bits!Masked(D))
    BY <2>1, MaskedTrims
  <2>3. Bits!Write(b, Bits!Masked(D))
    BY <1>7 DEF Bits!Flip, D
  <2> QED BY <2>2, <2>3, WriteKeeps
<1>8. CASE Bits!Reset(b)
  <2> DEFINE D == [w \in Bits!Word |-> {}]
  <2>1. Trimmed(D)
    BY <1>2 DEF Trimmed, Words
  <2> QED BY <1>8, <2>1, WriteKeeps DEF Bits!Reset
<1>9. CASE Bits!Set(b)
  <2> DEFINE D == [w \in Bits!Word |-> Bits!Ones]
  <2>1. D \in Words
    BY DEF Words
  <2> HIDE DEF D
  <2>2. Trimmed(Bits!Masked(D))
    BY <2>1, MaskedTrims
  <2>3. Bits!Write(b, Bits!Masked(D))
    BY <1>9 DEF Bits!Set, D
  <2> QED BY <2>2, <2>3, WriteKeeps
<1>10. /\ Bits!WordOf(pos) \in Bits!Word /\ Bits!Mask(pos) \subseteq Bits!Ones
       /\ Bits!WordOf(pos) = last => Bits!Mask(pos) \subseteq mask
  <2>1. PICK w \in Bits!Word, p \in Bits!Ones :
          w = Bits!WordOf(pos) /\ p = pos % WordBits /\ At(w, p) = pos
    BY PlaceOfPosition
  <2>2. w = last => p \in mask
    BY <2>1, PositionOfPlace
  <2> QED BY <2>1, <2>2 DEF Bits!Mask
<1>11. ASSUME NEW v, v \subseteq m_words_[b][Bits!WordOf(pos)] \union Bits!Mask(pos)
       PROVE  Trimmed([m_words_[b] EXCEPT ![Bits!WordOf(pos)] = v])
  <2>1. v \subseteq Bits!Ones /\ (Bits!WordOf(pos) = last => v \subseteq mask)
    BY <1>1, <1>10, <1>11 DEF Trimmed, Words
  <2> HIDE DEF last, mask
  <2>2. [m_words_[b] EXCEPT ![Bits!WordOf(pos)] = v][last] \subseteq mask
    BY <1>1, <1>2, <2>1 DEF Trimmed, Words, last, mask
  <2>3. [m_words_[b] EXCEPT ![Bits!WordOf(pos)] = v] \in Words
    BY <1>1, <2>1 DEF Words
  <2> QED BY <2>2, <2>3 DEF Trimmed, last, mask
<1> DEFINE old == m_words_[b][Bits!WordOf(pos)]
<1>12. CASE Bits!FlipAt(b, pos)
  <2>1. Bits!Xor(old, Bits!Mask(pos)) \subseteq old \union Bits!Mask(pos)
    BY DEF Bits!Xor
  <2>2. Bits!Write(b, [m_words_[b] EXCEPT ![Bits!WordOf(pos)] = Bits!Xor(old, Bits!Mask(pos))])
    BY <1>12 DEF Bits!FlipAt
  <2> QED BY <1>11, <2>1, <2>2, WriteKeeps
<1>13. CASE Bits!ResetAt(b, pos)
  <2>1. old \ Bits!Mask(pos) \subseteq old \union Bits!Mask(pos)
    OBVIOUS
  <2>2. Bits!Write(b, [m_words_[b] EXCEPT ![Bits!WordOf(pos)] = old \ Bits!Mask(pos)])
    BY <1>13 DEF Bits!ResetAt
  <2> QED BY <1>11, <2>1, <2>2, WriteKeeps
<1>14. CASE Bits!SetAt(b, pos)
  <2>1. Bits!Write(b, [m_words_[b] EXCEPT ![Bits!WordOf(pos)] = old \union Bits!Mask(pos)])
    BY <1>14 DEF Bits!SetAt
  <2> QED BY <1>11, <2>1, WriteKeeps
<1> QED BY <1>3, <1>4, <1>5, <1>6, <1>7, <1>8, <1>9, <1>12, <1>13, <1>14

LEMMA BitSteps ==
  ASSUME Bits!BitSetAssumption, BitsInv, Bits!Next
  PROVE  BitsInv'
<1>1. PICK b \in BitSets :
        \/ \E x \in BitSets :
             Bits!Assign(b, x) \/ Bits!And(b, x) \/ Bits!Or(b, x) \/ Bits!ExclusiveOr(b, x)
        \/ Bits!Flip(b) \/ Bits!Reset(b) \/ Bits!Set(b)
        \/ \E pos \in Bits!Position :
             Bits!FlipAt(b, pos) \/ Bits!ResetAt(b, pos) \/ Bits!SetAt(b, pos)
        \/ \E count \in 0..BitCount + WordBits :
             Bits!ShiftLeft(b, count) \/ Bits!ShiftRight(b, count)
        \/ \E fill \in {{}, Bits!Ones}, len \in 0..Bits!Bytes :
             Bits!Load(b, [w \in Bits!Word |-> fill], len)
  BY Zenon DEF Bits!Next
<1>2. Trimmed(m_words_[b]) /\ m_words_[b] \in Words
  BY DEF BitsInv, Trimmed
<1>3. 0 \in Bits!Position /\ 0..BitCount + WordBits \subseteq Nat
  BY LastWord DEF Bits!Position
<1>4. ASSUME NEW count \in 0..BitCount + WordBits,
             Bits!ShiftLeft(b, count) \/ Bits!ShiftRight(b, count)
      PROVE  BitsInv'
  <2>1. count \in Nat
    BY <1>3
  <2>2. /\ Trimmed(Bits!ShiftedLeft(m_words_[b], count))
        /\ Trimmed(Bits!ShiftedRight(m_words_[b], count))
    BY <1>2, <2>1, LeftShiftMoves, RightShiftMoves
  <2> QED BY <1>4, <2>2, WriteKeeps DEF Bits!ShiftLeft, Bits!ShiftRight
<1>5. ASSUME NEW src, NEW len, Bits!Load(b, src, len)
      PROVE  BitsInv'
  <2> DEFINE D == [w \in Bits!Word |->
                     {p \in Bits!Ones : IF (w * WordBits + p) \div ByteBits < len
                                        THEN p \in src[w] ELSE p \in m_words_[b][w]}]
  <2>1. D \in Words
    BY DEF Words
  <2>2. Bits!Write(b, Bits!Masked(D))
    BY <1>5 DEF Bits!Load
  <2> HIDE DEF D
  <2> QED BY <2>1, <2>2, MaskedTrims, WriteKeeps
<1> QED BY <1>1, <1>3, <1>4, <1>5, BitCallsKeep

(* A bitset's words agree with its bits, and its shifts move every bit.    *)
THEOREM BitsAlwaysAgree ==
  ASSUME Bits!BitSetAssumption
  PROVE  ContainersSpec => []BitsAgree
<1> DEFINE Inv == container = "bitset" => BitsInv
<1>1. ContainersInit => Inv
  <2> SUFFICES ASSUME Bits!Init PROVE BitsInv
    BY DEF ContainersInit, ContainersAre
  <2>1. Trimmed([w \in Bits!Word |-> {}])
    BY LastWord DEF Trimmed, Words, Bits!Word
  <2> QED BY <2>1 DEF Bits!Init, BitsInv
<1>2. Inv /\ [ContainersNext]_containerVars => Inv'
  <2> SUFFICES ASSUME Inv, [ContainersNext]_containerVars, container' = "bitset"
               PROVE  BitsInv'
    OBVIOUS
  <2>1. CASE UNCHANGED containerVars
    BY <2>1 DEF containerVars, BitsInv
  <2>2. CASE ContainersNext
    <3>1. container = "bitset" /\ Bits!Next
      BY <2>2 DEF ContainersNext
    <3> QED BY <3>1, BitSteps
  <2> QED BY <2>1, <2>2
<1>3. Inv => BitsAgree
  <2> SUFFICES ASSUME BitsInv PROVE Bits!WordsAgreeWithBits /\ Bits!ShiftsMoveEveryBit
    BY DEF BitsAgree
  <2>1. ASSUME NEW b \in BitSets, NEW count \in 0..BitCount + WordBits
        PROVE  /\ Bits!PositionsOf(Bits!ShiftedLeft(m_words_[b], count))
                    = {pos + count : pos \in Bits!Positions(b)} \cap Bits!Position
               /\ Bits!PositionsOf(Bits!ShiftedRight(m_words_[b], count))
                    = {pos - count : pos \in Bits!Positions(b)} \cap Bits!Position
    <3>1. Trimmed(m_words_[b]) /\ count \in Nat
      BY LastWord DEF BitsInv
    <3> QED BY <3>1, LeftShiftMoves, RightShiftMoves DEF Bits!Positions
  <2> QED BY <2>1, WordsAgree DEF Bits!ShiftsMoveEveryBit
<1> QED BY <1>1, <1>2, <1>3, PTL DEF ContainersSpec

=============================================================================
