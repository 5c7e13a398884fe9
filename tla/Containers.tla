----------------------------- MODULE Containers -----------------------------
(***************************************************************************)
(* The containers, of any size.  A program uses one kind, which it chooses *)
(* when it starts: the containers do not interact, so their states are not *)
(* mixed.                                                                  *)
(***************************************************************************)
EXTENDS Integers

CONSTANTS
  Null, Raw, None, Moved, Fault,
  Nodes, Lists,                                   \* of IntrusiveList
  RingElement, Capacities,                        \* of Deque
  Tables, NodeKey, KeyHash, HashBits, TableBits,  \* of HashTable, with Nodes
  BitSets, BitCount, WordBits, ByteBits,          \* of BitSet
  ArrayName, ArrayElement, ArraySizes, Predicates \* of Array

VARIABLES
  container,     \* the one that is used, or "none"
  m_list_prev_, m_list_next_, m_list_size_, m_list_owner, clearing, n_,
  ring_capacity, ring, m_head_, m_tail_, m_count_, out,
  bits, m_table_, hash_next, m_table_size_, m_table_owner, call, iter, expected, visited,
  m_words_,
  slots, m_end_

list == <<m_list_prev_, m_list_next_, m_list_size_, m_list_owner, clearing, n_>>
deque == <<ring_capacity, ring, m_head_, m_tail_, m_count_, out>>
table == <<bits, m_table_, hash_next, m_table_size_, m_table_owner, call, iter, expected, visited>>
array == <<slots, m_end_>>
containerVars == <<container, list, deque, table, m_words_, array>>

List == INSTANCE IntrusiveList WITH
  Node <- Nodes, List <- Lists, m_size_ <- m_list_size_, owner <- m_list_owner

Deque == INSTANCE Deque WITH
  Value <- RingElement, capacity <- ring_capacity, data <- ring

Table == INSTANCE HashTable WITH
  Node <- Nodes, Table <- Tables, m_size_ <- m_table_size_, owner <- m_table_owner

Bits == INSTANCE BitSet WITH
  BitSet <- BitSets, m_data_ <- m_words_

Array == INSTANCE Array WITH
  Name <- ArrayName, Value <- ArrayElement, Sizes <- ArraySizes, data <- slots

ContainerAssumptions ==
  /\ List!ListAssumption /\ Deque!DequeAssumption /\ Table!HashTableAssumption
  /\ Bits!BitSetAssumption /\ Array!ArrayAssumption

ContainersAre(c) ==
  /\ container = c
  /\ List!Init /\ Deque!Init /\ Table!Init /\ Bits!Init /\ Array!Init
  /\ c # "deque" => ring_capacity = 0

NoContainer == ContainersAre("none")

ContainersInit ==
  \E c \in {"list", "deque", "table", "bitset", "array"} : ContainersAre(c)

ContainersNext ==
  /\ UNCHANGED container
  /\ \/ container = "list" /\ List!Next /\ UNCHANGED <<deque, table, m_words_, array>>
     \/ container = "deque" /\ Deque!Next /\ UNCHANGED <<list, table, m_words_, array>>
     \/ container = "table" /\ Table!Next /\ UNCHANGED <<list, deque, m_words_, array>>
     \/ container = "bitset" /\ Bits!Next /\ UNCHANGED <<list, deque, table, array>>
     \/ container = "array" /\ Array!Next /\ UNCHANGED <<list, deque, table, m_words_>>

ContainersSpec == ContainersInit /\ [][ContainersNext]_containerVars

(* The variables of every container have their types.                      *)
ContainersTypeOK ==
  /\ container = "list" => List!TypeOK
  /\ container = "deque" => Deque!TypeOK
  /\ container = "table" => Table!TypeOK
  /\ container = "bitset" => Bits!TypeOK
  /\ container = "array" => Array!TypeOK

(* hxlist: the links of both directions agree, and size() is the number of *)
(* nodes that the iterators visit.                                         *)
LinksAgree == container = "list" => List!BothWaysAgree /\ List!SizeIsLength

(* hxdeque: objects live in the slots from the head on and in no other,    *)
(* and head, tail and count agree.                                         *)
RingAgrees == container = "deque" => Deque!ElementsInRing /\ Deque!EndsAgree

(* hxhash_table: a node is in the chain of its hash and in no other, and   *)
(* size() counts them; find() from one result to the next meets all        *)
(* duplicates, and an iterator visits every node that stays exactly once.  *)
TableAgrees ==
  container = "table" =>
    /\ Table!ChainsAreDisjoint /\ Table!SizeIsCount
    /\ Table!FindMeetsAll /\ Table!IterationIsComplete

(* hxhash_table: erase() leaves no node with the key.                      *)
EraseTakesAll == Table!EraseTakesAll

(* hxbitset: all(), any() and == on words agree with test() on bits, and   *)
(* the shifts move every bit across the words.                             *)
BitsAgree == container = "bitset" => Bits!WordsAgreeWithBits /\ Bits!ShiftsMoveEveryBit

(* hxarray: every element is constructed once and destroyed once.          *)
LifetimesHold == container = "array" => Array!LifetimesHold

(* hxlist, hxdeque and hxarray implement sequences; a deque's are bounded, *)
(* and of an array each call does what it says: the heap calls restore the *)
(* heap.  (These are ListIsSequence, DequeIsSequence and ArrayIsSequence,  *)
(* each for the container in use.)                                         *)
ContainersAreSequences ==
  /\ List!Sequences!Init /\ Deque!Abstract!Init /\ Array!Abstract!Init
  /\ [][/\ container = "list" => [List!Sequences!Next]_(List!Contents)
        /\ container = "deque" => [Deque!Abstract!Next]_(Deque!Abstract!vars)
        /\ container = "array" => [Array!Abstract!Next]_(Array!Contents)
       ]_containerVars
  /\ [](container = "array" => Array!CallsKeepTheirWord)

=============================================================================
