--------------------------- MODULE IntrusiveList ----------------------------
(***************************************************************************)
(* hxlist: circular doubly linked lists through a sentinel, which here has *)
(* the name of its list.  Nodes go from list to list, and keep the links   *)
(* of the last list they were in when they are extracted or released.      *)
(* The deleter of erase and clear is a callback: it destroys the node, or  *)
(* pushes it onto another list (a free list), or is false and not called.  *)
(***************************************************************************)
EXTENDS Integers, FiniteSets, Sequences

CONSTANTS Node, List, Null

ListAssumption ==
  /\ IsFiniteSet(Node)
  /\ Node \cap List = {}
  /\ Null \notin Node \union List
  /\ {"none", "delete"} \cap List = {}

VARIABLES
  m_list_prev_,   (* node or sentinel -> the place before it  *)
  m_list_next_,   (* node or sentinel -> the place behind it  *)
  m_size_,        (* list -> its counter                      *)
  owner,          (* node -> the list that its user gave it to *)
  clearing,       (* the list whose clear() is running, or Null *)
  n_              (* the node that clear() is about to delete *)

vars == <<m_list_prev_, m_list_next_, m_size_, owner, clearing, n_>>
links == <<m_list_prev_, m_list_next_>>

Place == Node \union List
Deleter == {"none", "delete"} \union List    (* a list: push_back onto it *)

Init ==
  /\ m_list_prev_ = [p \in Place |-> IF p \in List THEN p ELSE Null]
  /\ m_list_next_ = [p \in Place |-> IF p \in List THEN p ELSE Null]
  /\ m_size_ = [l \in List |-> 0]
  /\ owner = [n \in Node |-> Null]
  /\ clearing = Null
  /\ n_ = Null

-----------------------------------------------------------------------------
(* The links after ptr was put before pos, extracted, or destroyed, as     *)
(* functions of the links <<prev, next>> before.                           *)
LinkedBefore(L, pos, ptr) ==
  <<[L[1] EXCEPT ![ptr] = L[1][pos], ![pos] = ptr],
    [L[2] EXCEPT ![ptr] = pos, ![L[1][pos]] = ptr]>>

(* Mutant of LinkedAfter: the new node is linked in one direction only. *)
LinkedAfterForward(L, pos, ptr) ==
  <<[L[1] EXCEPT ![ptr] = pos], [L[2] EXCEPT ![ptr] = L[2][pos], ![pos] = ptr]>>

LinkedAfter(L, pos, ptr) ==
  <<[L[1] EXCEPT ![ptr] = pos, ![L[2][pos]] = ptr],
    [L[2] EXCEPT ![ptr] = L[2][pos], ![pos] = ptr]>>

Unlinked(L, ptr) ==
  <<[L[1] EXCEPT ![L[2][ptr]] = L[1][ptr]],
    [L[2] EXCEPT ![L[1][ptr]] = L[2][ptr]]>>

Destroyed(L, ptr) == <<[L[1] EXCEPT ![ptr] = Null], [L[2] EXCEPT ![ptr] = Null]>>

Emptied(L, l) == <<[L[1] EXCEPT ![l] = l], [L[2] EXCEPT ![l] = l]>>

(* What the deleter makes of a node that is linked nowhere. *)
Deleted(L, d, ptr) ==
  CASE d = "none"   -> L
    [] d = "delete" -> Destroyed(L, ptr)
    [] d \in List   -> LinkedBefore(L, d, ptr)

SetLinks(L) == m_list_prev_' = L[1] /\ m_list_next_' = L[2]

NewOwner(d) == IF d \in List THEN d ELSE Null
Received(size, d) == IF d \in List THEN [size EXCEPT ![d] = @ + 1] ELSE size

(* A node may be given to a list while it is in none. *)
Idle == clearing = Null
Insertable(n) == Idle /\ owner[n] = Null
Removable(l, n) == Idle /\ owner[n] = l

Inserted(l, n) ==
  /\ m_size_' = [m_size_ EXCEPT ![l] = @ + 1]
  /\ owner' = [owner EXCEPT ![n] = l]
  /\ UNCHANGED <<clearing, n_>>

-----------------------------------------------------------------------------
PushBack(l, n) ==
  /\ Insertable(n)
  /\ SetLinks(LinkedBefore(links, l, n))
  /\ Inserted(l, n)

PushFront(l, n) ==
  /\ Insertable(n)
  /\ SetLinks(LinkedAfter(links, l, n))
  /\ Inserted(l, n)

InsertBefore(l, pos, n) ==
  /\ Insertable(n) /\ Removable(l, pos)
  /\ SetLinks(LinkedBefore(links, pos, n))
  /\ Inserted(l, n)

InsertAfter(l, pos, n) ==
  /\ Insertable(n) /\ Removable(l, pos)
  /\ SetLinks(LinkedAfter(links, pos, n))
  /\ Inserted(l, n)

(* extract_, then the deleter, which may push onto another list only. *)
Erase(l, n, d) ==
  /\ Removable(l, n) /\ d # l
  /\ SetLinks(Deleted(Unlinked(links, n), d, n))
  /\ m_size_' = Received([m_size_ EXCEPT ![l] = @ - 1], d)
  /\ owner' = [owner EXCEPT ![n] = NewOwner(d)]
  /\ UNCHANGED <<clearing, n_>>

Extract(l, n) == Erase(l, n, "none")

NotEmpty(l) == m_list_next_[l] # l
PopFront(l) == NotEmpty(l) /\ Extract(l, m_list_next_[l])
PopBack(l) == NotEmpty(l) /\ Extract(l, m_list_prev_[l])

Released(l) ==
  /\ SetLinks(Emptied(links, l))
  /\ m_size_' = [m_size_ EXCEPT ![l] = 0]
  /\ owner' = [n \in Node |-> IF owner[n] = l THEN Null ELSE owner[n]]

ReleaseAll(l) == Idle /\ Released(l) /\ UNCHANGED <<clearing, n_>>

(* clear() with a deleter that is true; otherwise it is release_all(). *)
Clear(l) ==
  /\ Idle /\ m_size_[l] # 0
  /\ clearing' = l
  /\ n_' = m_list_next_[l]
  /\ UNCHANGED <<links, m_size_, owner>>

(* The next node is read before the deleter is called with this one. *)
ClearStep(d) ==
  /\ clearing # Null /\ n_ # clearing
  /\ d \notin {"none", clearing}
  /\ n_' = m_list_next_[n_]
  /\ SetLinks(Deleted(links, d, n_))
  /\ m_size_' = Received(m_size_, d)
  /\ owner' = [owner EXCEPT ![n_] = NewOwner(d)]
  /\ UNCHANGED clearing

ClearDone ==
  /\ clearing # Null /\ n_ = clearing
  /\ Released(clearing)
  /\ clearing' = Null /\ n_' = Null

Next ==
  \/ \E l \in List, n \in Node :
       \/ PushBack(l, n) \/ PushFront(l, n)
       \/ \E pos \in Node : InsertBefore(l, pos, n) \/ InsertAfter(l, pos, n)
       \/ \E d \in Deleter : Erase(l, n, d)
  \/ \E l \in List : PopFront(l) \/ PopBack(l) \/ ReleaseAll(l) \/ Clear(l)
  \/ \E d \in Deleter : ClearStep(d)
  \/ ClearDone

Spec == Init /\ [][Next]_vars

-----------------------------------------------------------------------------
(* The nodes from a place up to the sentinel of l, along one direction;    *)
(* too many of them if the sentinel is never reached.                      *)
Follow(L, place) == IF place \in Place THEN L[place] ELSE Null
Walk(L, start, l) ==
  LET place[k \in Nat] == IF k = 0 THEN start ELSE Follow(L, place[k - 1])
      reached == {k \in 0..Cardinality(Node) : place[k] = l}
      length == IF reached = {} THEN Cardinality(Node) + 1
                ELSE CHOOSE k \in reached : \A j \in reached : k <= j
  IN [i \in 1..length |-> place[i - 1]]

(* What the list still holds: while clear() runs, what it has not deleted. *)
Items(l) == Walk(m_list_next_, IF clearing = l THEN n_ ELSE m_list_next_[l], l)

TypeOK ==
  /\ m_list_prev_ \in [Place -> Place \union {Null}]
  /\ m_list_next_ \in [Place -> Place \union {Null}]
  /\ m_size_ \in [List -> Nat]
  /\ owner \in [Node -> List \union {Null}]
  /\ clearing \in List \union {Null}
  /\ n_ \in Place \union {Null}

(* The iterators meet the same nodes in both directions, although nodes    *)
(* that left a list keep their links into it, also when a deleter links    *)
(* them into another list while clear() still walks the first one.         *)
BothWaysAgree ==
  \A l \in List \ {clearing} :
    /\ m_list_prev_[m_list_next_[l]] = l
    /\ \A n \in Node : owner[n] = l =>
         /\ Follow(m_list_prev_, m_list_next_[n]) = n
         /\ Follow(m_list_next_, m_list_prev_[n]) = n

(* size() is the number of nodes that an iterator visits.                  *)
SizeIsLength ==
  \A l \in List \ {clearing} : m_size_[l] = Len(Items(l))

Contents == [l \in List |-> Items(l)]
Sequences == INSTANCE NodeSequences WITH items <- Contents

(* The lists are sequences: no call reorders, loses or repeats a node.     *)
ListIsSequence == Sequences!SequenceSpec

=============================================================================
