-------------------------- MODULE Containers_proofs --------------------------
(***************************************************************************)
(* The linked containers, for every value of their constants: the links of *)
(* hxlist form the rings whose lengths size() returns, and the chains of   *)
(* hxhash_table are where their hashes say and as many as they are         *)
(* counted.  Storage_proofs is about hxdeque, hxarray and hxbitset.        *)
(*                                                                         *)
(* Lists and chains are linked structures that a definition can only walk. *)
(* The invariants avoid the walk: each node has a rank, and a link leads   *)
(* to the next rank.  What a walk finds follows from them at the end.      *)
(***************************************************************************)
EXTENDS Containers, Sequences, FiniteSetTheorems, TLAPS

-----------------------------------------------------------------------------
(***************************************************************************)
(* The links of hxlist.  A list that is not being cleared is a chain: its  *)
(* sentinel and the nodes that were given to it, on which both directions  *)
(* are each other's inverse.  Of a list that is being cleared only the way *)
(* forward from n_ is left, which meets no node that was deleted.          *)
(***************************************************************************)
Chain(l) == {l} \union {n \in Nodes : m_list_owner[n] = l}

LinksOK(L) ==
  /\ L[1] \in [List!Place -> List!Place \union {Null}]
  /\ L[2] \in [List!Place -> List!Place \union {Null}]

Mutual(C, L) ==
  \A x \in C : /\ L[1][x] \in C /\ L[2][L[1][x]] = x
               /\ L[2][x] \in C /\ L[1][L[2][x]] = x

(* A chain is one ring, with one sentinel: the rank of a place is the      *)
(* number of steps from there to the sentinel.                             *)
InRing(l, C, next, rank) ==
  /\ rank[l] = 0
  /\ \A x \in C \ {l} : rank[x] # 0 /\ rank[next[x]] = rank[x] - 1
  /\ \A x \in C : rank[x] <= rank[next[l]]
  /\ \A x, y \in C : rank[x] = rank[y] => x = y

IsRing(C, next) ==
  \E l \in C \cap Lists : \E rank \in [List!Place -> Nat] : InRing(l, C, next, rank)

Linked(C, L) == Mutual(C, L) /\ IsRing(C, L[2])

SameLinks(C, L, M) == \A x \in C : M[1][x] = L[1][x] /\ M[2][x] = L[2][x]

ListTypes ==
  /\ LinksOK(List!links)
  /\ m_list_owner \in [Nodes -> Lists \union {Null}]
  /\ clearing \in Lists \union {Null}

ChainsAreLinked == \A l \in Lists \ {clearing} : Linked(Chain(l), List!links)

ClearingGoesOn ==
  clearing # Null =>
    /\ n_ \in Chain(clearing)
    /\ \A n \in Chain(clearing) \ {clearing} :
         /\ m_list_next_[n] \in Chain(clearing) \ {n_}
         /\ \A m \in Chain(clearing) \ {clearing} :
              m_list_next_[n] = m_list_next_[m] => n = m

ListInv == ListTypes /\ ChainsAreLinked /\ ClearingGoesOn

(* Links that did not change. *)
LEMMA LinkedStays ==
  ASSUME NEW C, NEW L, NEW M, Linked(C, L), SameLinks(C, L, M)
  PROVE  Linked(C, M)
<1>1. Mutual(C, M)
  BY DEF Linked, Mutual, SameLinks
<1>2. PICK l \in C \cap Lists : \E rank \in [List!Place -> Nat] : InRing(l, C, L[2], rank)
  BY DEF Linked, IsRing
<1>3. PICK rank \in [List!Place -> Nat] : InRing(l, C, L[2], rank)
  BY <1>2
<1>4. InRing(l, C, M[2], rank)
  BY <1>3 DEF InRing, SameLinks
<1> QED BY <1>1, <1>4 DEF Linked, IsRing

(* A place behind p joins a ring. *)
LEMMA RingInsert ==
  ASSUME NEW C \in SUBSET List!Place, NEW next, NEW moved, IsRing(C, next),
         \A x \in C : next[x] \in C,
         NEW p \in C, NEW n \in List!Place \ C, moved[n] = next[p], moved[p] = n,
         \A x \in C \ {p} : moved[x] = next[x]
  PROVE  IsRing(C \union {n}, moved)
<1>1. PICK l \in C \cap Lists : \E rank \in [List!Place -> Nat] : InRing(l, C, next, rank)
  BY DEF IsRing
<1>2. PICK rank \in [List!Place -> Nat] : InRing(l, C, next, rank)
  BY <1>1
<1> DEFINE b == rank[next[p]]
           r == [x \in List!Place |->
                   IF x = n THEN b + 1 ELSE IF rank[x] > b THEN rank[x] + 1 ELSE rank[x]]
<1>3. b \in Nat /\ next[p] \in C /\ next[p] # n /\ rank[next[p]] = b
  OBVIOUS
<1> HIDE DEF b
<1>4. /\ r \in [List!Place -> Nat] /\ r[n] = b + 1
      /\ \A x \in C : r[x] = IF rank[x] > b THEN rank[x] + 1 ELSE rank[x]
  BY <1>3
<1>5. \A x \in C : rank[x] \in Nat
  OBVIOUS
<1>6. p # l => rank[p] = b + 1
  BY <1>2, <1>3, <1>5 DEF InRing
<1>7. \A x \in C \ {l, p} : rank[x] # b + 1
  BY <1>2, <1>3, <1>5, <1>6 DEF InRing
<1> HIDE DEF r
<1>8. r[l] = 0
  BY <1>2, <1>3, <1>4 DEF InRing
<1>9. ASSUME NEW x \in (C \union {n}) \ {l}
      PROVE  r[x] # 0 /\ r[moved[x]] = r[x] - 1
  <2>1. CASE x = n
    BY <1>3, <1>4, <2>1
  <2>2. CASE x = p
    BY <1>3, <1>4, <1>6, <2>2
  <2>3. CASE x # n /\ x # p
    <3>1. /\ x \in C /\ moved[x] = next[x] /\ next[x] \in C /\ rank[x] # 0
          /\ rank[next[x]] = rank[x] - 1 /\ rank[x] # b + 1
      BY <1>2, <1>7, <2>3 DEF InRing
    <3> QED BY <1>3, <1>4, <1>5, <3>1
  <2> QED BY <2>1, <2>2, <2>3
<1>10. ASSUME NEW x \in C \union {n}
       PROVE  r[x] <= r[moved[l]]
  <2>1. next[l] \in C /\ \A y \in C : rank[y] <= rank[next[l]]
    BY <1>2 DEF InRing
  <2>2. CASE p = l
    BY <1>3, <1>4, <1>5, <2>1, <2>2
  <2>3. CASE p # l
    <3>1. moved[l] = next[l] /\ b + 1 <= rank[next[l]]
      BY <1>6, <2>1, <2>3
    <3> QED BY <1>3, <1>4, <1>5, <2>1, <3>1
  <2> QED BY <2>2, <2>3
<1>11. ASSUME NEW x \in C \union {n}, NEW y \in C \union {n}, r[x] = r[y]
       PROVE  x = y
  <2>1. \A z \in C : r[z] # b + 1
    BY <1>3, <1>4, <1>5
  <2>2. CASE x \in C /\ y \in C
    <3>1. rank[x] = rank[y]
      BY <1>3, <1>4, <1>5, <1>11, <2>2
    <3> QED BY <1>2, <2>2, <3>1 DEF InRing
  <2> QED BY <1>4, <1>11, <2>1, <2>2
<1>12. InRing(l, C \union {n}, moved, r)
  BY <1>8, <1>9, <1>10, <1>11 DEF InRing
<1> QED BY <1>4, <1>12 DEF IsRing

(* The place behind p leaves a ring. *)
LEMMA RingRemove ==
  ASSUME NEW C \in SUBSET List!Place, NEW next, NEW moved, IsRing(C, next),
         \A x \in C : next[x] \in C,
         NEW p \in C, NEW n \in C \ Lists, next[p] = n, moved[p] = next[n],
         \A x \in C \ {p, n} : moved[x] = next[x]
  PROVE  IsRing(C \ {n}, moved)
<1>1. PICK l \in C \cap Lists : \E rank \in [List!Place -> Nat] : InRing(l, C, next, rank)
  BY DEF IsRing
<1>2. PICK rank \in [List!Place -> Nat] : InRing(l, C, next, rank)
  BY <1>1
<1> DEFINE c == rank[n]
           r == [x \in List!Place |-> IF rank[x] > c THEN rank[x] - 1 ELSE rank[x]]
<1>3. /\ n # l /\ c \in Nat /\ c # 0 /\ next[n] \in C /\ rank[next[n]] = c - 1
      /\ \A x \in C : rank[x] \in Nat
      /\ \A x \in C \ {n} : rank[x] # c
  BY <1>2 DEF InRing
<1>4. c = rank[n]
  OBVIOUS
<1> HIDE DEF c
<1>5. r \in [List!Place -> Nat] /\ \A x \in C : r[x] = IF rank[x] > c THEN rank[x] - 1 ELSE rank[x]
  BY <1>3
<1>6. p # l => rank[p] = c + 1
  BY <1>2, <1>3, <1>4 DEF InRing
<1>7. \A x \in C \ {l, p} : rank[x] # c + 1
  BY <1>2, <1>3, <1>4, <1>6 DEF InRing
<1>8. next[n] # n /\ p # n
  BY <1>3, <1>4, <1>6
<1> HIDE DEF r
<1>9. r[l] = 0
  BY <1>2, <1>3, <1>5 DEF InRing
<1>10. ASSUME NEW x \in (C \ {n}) \ {l}
       PROVE  r[x] # 0 /\ r[moved[x]] = r[x] - 1
  <2>1. CASE x = p
    BY <1>3, <1>5, <1>6, <2>1
  <2>2. CASE x # p
    <3>1. /\ x \in C /\ moved[x] = next[x] /\ next[x] \in C /\ rank[x] # 0
          /\ rank[next[x]] = rank[x] - 1 /\ rank[x] # c + 1 /\ rank[x] # c
      BY <1>2, <1>3, <1>7, <2>2 DEF InRing
    <3> QED BY <1>3, <1>5, <3>1
  <2> QED BY <2>1, <2>2
<1>11. ASSUME NEW x \in C \ {n}
       PROVE  r[x] <= r[moved[l]]
  <2>1. next[l] \in C /\ \A y \in C : rank[y] <= rank[next[l]]
    BY <1>2 DEF InRing
  <2>2. CASE p = l
    BY <1>3, <1>4, <1>5, <2>1, <2>2
  <2>3. CASE p # l
    <3>1. moved[l] = next[l] /\ c + 1 <= rank[next[l]]
      BY <1>3, <1>6, <2>1, <2>3
    <3> QED BY <1>3, <1>5, <2>1, <3>1
  <2> QED BY <2>2, <2>3
<1>12. ASSUME NEW x \in C \ {n}, NEW y \in C \ {n}, r[x] = r[y]
       PROVE  x = y
  <2>1. rank[x] = rank[y]
    BY <1>3, <1>5, <1>12
  <2> QED BY <1>2, <2>1 DEF InRing
<1>13. InRing(l, C \ {n}, moved, r)
  BY <1>9, <1>10, <1>11, <1>12 DEF InRing
<1> QED BY <1>3, <1>5, <1>13 DEF IsRing

(* A node that is linked before a place of a chain joins it. *)
LEMMA LinkBefore ==
  ASSUME NEW L, LinksOK(L), NEW C \in SUBSET List!Place, Linked(C, L),
         NEW pos \in C, NEW ptr \in List!Place \ C
  PROVE  /\ LinksOK(List!LinkedBefore(L, pos, ptr))
         /\ Linked(C \union {ptr}, List!LinkedBefore(L, pos, ptr))
         /\ SameLinks(List!Place \ (C \union {ptr}), L, List!LinkedBefore(L, pos, ptr))
<1> DEFINE M == List!LinkedBefore(L, pos, ptr)
<1>1. /\ M[1] = [L[1] EXCEPT ![ptr] = L[1][pos], ![pos] = ptr]
      /\ M[2] = [L[2] EXCEPT ![ptr] = pos, ![L[1][pos]] = ptr]
  BY DEF List!LinkedBefore
<1> HIDE DEF M
<1>2. L[1][pos] \in C
  BY DEF Linked, Mutual
<1>3. LinksOK(M)
  BY <1>1, <1>2 DEF LinksOK
<1>4. Mutual(C \union {ptr}, M)
  BY <1>1, <1>2 DEF LinksOK, Linked, Mutual
<1>5. SameLinks(List!Place \ (C \union {ptr}), L, M)
  BY <1>1, <1>2 DEF LinksOK, SameLinks
<1>6. IsRing(C \union {ptr}, M[2])
  <2> DEFINE p == L[1][pos]
             moved == M[2]
             next == L[2]
  <2>1. /\ p \in C /\ moved[ptr] = next[p] /\ moved[p] = ptr
        /\ \A x \in C \ {p} : moved[x] = next[x]
    BY <1>1, <1>2 DEF LinksOK, Linked, Mutual
  <2>2. IsRing(C, next) /\ \A x \in C : next[x] \in C
    BY DEF Linked, Mutual
  <2> HIDE DEF p, moved, next
  <2>3. IsRing(C \union {ptr}, moved)
    BY <2>1, <2>2, RingInsert
  <2> QED BY <2>3 DEF moved
<1> QED BY <1>3, <1>4, <1>5, <1>6 DEF M, Linked

(* So does one that is linked after a place. *)
LEMMA LinkAfter ==
  ASSUME NEW L, LinksOK(L), NEW C \in SUBSET List!Place, Linked(C, L),
         NEW pos \in C, NEW ptr \in List!Place \ C
  PROVE  /\ LinksOK(List!LinkedAfter(L, pos, ptr))
         /\ Linked(C \union {ptr}, List!LinkedAfter(L, pos, ptr))
         /\ SameLinks(List!Place \ (C \union {ptr}), L, List!LinkedAfter(L, pos, ptr))
<1> DEFINE M == List!LinkedAfter(L, pos, ptr)
<1>1. /\ M[1] = [L[1] EXCEPT ![ptr] = pos, ![L[2][pos]] = ptr]
      /\ M[2] = [L[2] EXCEPT ![ptr] = L[2][pos], ![pos] = ptr]
  BY DEF List!LinkedAfter
<1> HIDE DEF M
<1>2. L[2][pos] \in C
  BY DEF Linked, Mutual
<1>3. LinksOK(M)
  BY <1>1, <1>2 DEF LinksOK
<1>4. Mutual(C \union {ptr}, M)
  BY <1>1, <1>2 DEF LinksOK, Linked, Mutual
<1>5. SameLinks(List!Place \ (C \union {ptr}), L, M)
  BY <1>1, <1>2 DEF LinksOK, SameLinks
<1>6. IsRing(C \union {ptr}, M[2])
  <2> DEFINE p == pos
             moved == M[2]
             next == L[2]
  <2>1. /\ p \in C /\ moved[ptr] = next[p] /\ moved[p] = ptr
        /\ \A x \in C \ {p} : moved[x] = next[x]
    BY <1>1, <1>2 DEF LinksOK, Linked, Mutual
  <2>2. IsRing(C, next) /\ \A x \in C : next[x] \in C
    BY DEF Linked, Mutual
  <2> HIDE DEF p, moved, next
  <2>3. IsRing(C \union {ptr}, moved)
    BY <2>1, <2>2, RingInsert
  <2> QED BY <2>3 DEF moved
<1> QED BY <1>3, <1>4, <1>5, <1>6 DEF M, Linked

(* A node that is extracted leaves the others linked. *)
LEMMA Unlink ==
  ASSUME NEW L, LinksOK(L), NEW C \in SUBSET List!Place, Linked(C, L),
         NEW ptr \in C \ Lists
  PROVE  /\ LinksOK(List!Unlinked(L, ptr))
         /\ Linked(C \ {ptr}, List!Unlinked(L, ptr))
         /\ SameLinks(List!Place \ C, L, List!Unlinked(L, ptr))
<1> DEFINE M == List!Unlinked(L, ptr)
<1>1. /\ M[1] = [L[1] EXCEPT ![L[2][ptr]] = L[1][ptr]]
      /\ M[2] = [L[2] EXCEPT ![L[1][ptr]] = L[2][ptr]]
  BY DEF List!Unlinked
<1> HIDE DEF M
<1>2. L[1][ptr] \in C /\ L[2][ptr] \in C
  BY DEF Linked, Mutual
<1>3. LinksOK(M)
  BY <1>1, <1>2 DEF LinksOK
<1>4. Mutual(C \ {ptr}, M)
  BY <1>1, <1>2 DEF LinksOK, Linked, Mutual
<1>5. SameLinks(List!Place \ C, L, M)
  BY <1>1, <1>2 DEF LinksOK, SameLinks
<1>6. IsRing(C \ {ptr}, M[2])
  <2> DEFINE p == L[1][ptr]
             moved == M[2]
             next == L[2]
  <2>1. /\ p \in C /\ next[p] = ptr /\ moved[p] = next[ptr]
        /\ \A x \in C \ {p, ptr} : moved[x] = next[x]
    BY <1>1, <1>2 DEF LinksOK, Linked, Mutual
  <2>2. IsRing(C, next) /\ \A x \in C : next[x] \in C
    BY DEF Linked, Mutual
  <2> HIDE DEF p, moved, next
  <2>3. IsRing(C \ {ptr}, moved)
    BY <2>1, <2>2, RingRemove
  <2> QED BY <2>3 DEF moved
<1> QED BY <1>3, <1>4, <1>5, <1>6 DEF M, Linked

(* The deleter changes the links of the list it pushes onto, and of no     *)
(* other one.                                                              *)
Target(d) == IF d \in Lists THEN Chain(d) ELSE {}

LEMMA DeleteLinks ==
  ASSUME List!ListAssumption, NEW L, LinksOK(L), NEW ptr \in Nodes, NEW d \in List!Deleter,
         d \in Lists => Linked(Chain(d), L) /\ ptr \notin Chain(d)
  PROVE  /\ LinksOK(List!Deleted(L, d, ptr))
         /\ d \in Lists => Linked(Chain(d) \union {ptr}, List!Deleted(L, d, ptr))
         /\ SameLinks(List!Place \ (Target(d) \union {ptr}), L, List!Deleted(L, d, ptr))
<1>1. ptr \in List!Place /\ \A l \in Lists : Chain(l) \in SUBSET List!Place
  BY DEF List!Place, Chain
<1>2. CASE d \in Lists
  <2>1. List!Deleted(L, d, ptr) = List!LinkedBefore(L, d, ptr)
    BY <1>2 DEF List!ListAssumption, List!Deleted
  <2>2. d \in Chain(d) /\ Target(d) = Chain(d)
    BY <1>2 DEF Chain, Target
  <2> QED BY <1>1, <1>2, <2>1, <2>2, LinkBefore
<1>3. CASE d \notin Lists
  <2>1. CASE d = "none"
    <3>1. List!Deleted(L, d, ptr) = L
      BY <1>3, <2>1 DEF List!Deleted
    <3> QED BY <1>3, <3>1 DEF SameLinks
  <2>2. CASE d = "delete"
    <3>1. List!Deleted(L, d, ptr) = List!Destroyed(L, ptr)
      BY <1>3, <2>2 DEF List!Deleted
    <3>2. LinksOK(List!Destroyed(L, ptr))
      BY <1>1 DEF LinksOK, List!Destroyed
    <3>3. SameLinks(List!Place \ {ptr}, L, List!Destroyed(L, ptr))
      BY DEF LinksOK, SameLinks, List!Destroyed
    <3>4. Target(d) \union {ptr} = {ptr}
      BY <1>3 DEF Target
    <3> QED BY <1>3, <3>1, <3>2, <3>3, <3>4
  <2> QED BY <1>3, <2>1, <2>2 DEF List!Deleter
<1> QED BY <1>2, <1>3

(* No place is in two chains. *)
LEMMA ChainsApart ==
  ASSUME List!ListAssumption, ListTypes
  PROVE  /\ \A l \in Lists : Chain(l) \in SUBSET List!Place /\ l \in Chain(l)
         /\ \A l, k \in Lists : l # k => Chain(l) \cap Chain(k) = {}
         /\ \A n \in Nodes : n \in List!Place /\ \A l \in Lists :
              n \in Chain(l) <=> m_list_owner[n] = l
BY DEF List!ListAssumption, ListTypes, List!Place, Chain

(* What a step has to show of the links M that it sets. *)
LEMMA NewLinks ==
  ASSUME NEW M, LinksOK(M), List!SetLinks(M)
  PROVE  /\ LinksOK(List!links')
         /\ \A C : Linked(C, M) => Linked(C, List!links')
         /\ m_list_next_' = M[2]
BY DEF LinksOK, List!SetLinks, List!links, Linked, Mutual

(* A node that was in no list joins one. *)
LEMMA InsertKeeps ==
  ASSUME List!ListAssumption, ListInv, NEW l \in Lists, NEW n \in Nodes,
         List!Insertable(n), List!Inserted(l, n), NEW M, List!SetLinks(M),
         LinksOK(M), Linked(Chain(l) \union {n}, M),
         SameLinks(List!Place \ (Chain(l) \union {n}), List!links, M)
  PROVE  ListInv'
<1>1. /\ ListTypes /\ clearing = Null /\ clearing' = Null /\ m_list_owner[n] = Null
      /\ m_list_owner' = [m_list_owner EXCEPT ![n] = l]
  BY DEF ListInv, List!Insertable, List!Idle, List!Inserted
<1>2. /\ LinksOK(List!links') /\ \A C : Linked(C, M) => Linked(C, List!links')
  BY NewLinks
<1>3. Chain(l)' = Chain(l) \union {n}
  BY <1>1 DEF ListTypes, Chain
<1>4. ASSUME NEW k \in Lists \ {clearing'}
      PROVE  Linked(Chain(k)', List!links')
  <2>1. CASE k = l
    BY <1>2, <1>3, <2>1
  <2>2. CASE k # l
    <3>1. Chain(k)' = Chain(k)
      BY <1>1, <2>2 DEF ListTypes, Chain
    <3>2. Chain(k) \subseteq List!Place \ (Chain(l) \union {n})
      BY <1>1, <2>2, ChainsApart DEF List!ListAssumption
    <3>3. SameLinks(Chain(k), List!links, M)
      BY <3>2 DEF SameLinks
    <3>4. Linked(Chain(k), M)
      BY <1>1, <1>4, <3>3, LinkedStays DEF ListInv, ChainsAreLinked
    <3> QED BY <1>2, <3>1, <3>4
  <2> QED BY <2>1, <2>2
<1>5. ListTypes'
  BY <1>1, <1>2 DEF ListTypes
<1> QED BY <1>1, <1>4, <1>5 DEF ListInv, ChainsAreLinked, ClearingGoesOn

(* The four calls that insert. *)
LEMMA InsertionsKeep ==
  ASSUME List!ListAssumption, ListInv, NEW l \in Lists, NEW n \in Nodes,
         \/ List!PushBack(l, n) \/ List!PushFront(l, n)
         \/ \E pos \in Nodes : List!InsertBefore(l, pos, n) \/ List!InsertAfter(l, pos, n)
  PROVE  ListInv'
<1>1. /\ List!Insertable(n) /\ List!Inserted(l, n)
      /\ \E pos \in Chain(l) :
           \/ List!SetLinks(List!LinkedBefore(List!links, pos, n))
           \/ List!SetLinks(List!LinkedAfter(List!links, pos, n))
  BY DEF List!PushBack, List!PushFront, List!InsertBefore, List!InsertAfter, List!Removable,
         Chain
<1>2. PICK pos \in Chain(l) :
        \/ List!SetLinks(List!LinkedBefore(List!links, pos, n))
        \/ List!SetLinks(List!LinkedAfter(List!links, pos, n))
  BY <1>1
<1>3. /\ LinksOK(List!links) /\ Chain(l) \in SUBSET List!Place /\ Linked(Chain(l), List!links)
      /\ n \in List!Place \ Chain(l)
  BY <1>1, ChainsApart
  DEF ListInv, ListTypes, ChainsAreLinked, List!Insertable, List!Idle,
      List!ListAssumption
<1>4. CASE List!SetLinks(List!LinkedBefore(List!links, pos, n))
  BY <1>1, <1>3, <1>4, LinkBefore, InsertKeeps
<1>5. CASE List!SetLinks(List!LinkedAfter(List!links, pos, n))
  BY <1>1, <1>3, <1>5, LinkAfter, InsertKeeps
<1> QED BY <1>2, <1>4, <1>5

(* A node that is erased leaves its list; its deleter may give it to       *)
(* another one.                                                            *)
LEMMA EraseKeeps ==
  ASSUME List!ListAssumption, ListInv, NEW l \in Lists, NEW n \in Nodes,
         NEW d \in List!Deleter, List!Erase(l, n, d)
  PROVE  ListInv'
<1> DEFINE L == List!Unlinked(List!links, n)
           M == List!Deleted(L, d, n)
<1>1. /\ ListTypes /\ clearing = Null /\ clearing' = Null /\ m_list_owner[n] = l /\ d # l
      /\ m_list_owner' = [m_list_owner EXCEPT ![n] = List!NewOwner(d)]
      /\ List!SetLinks(M)
  BY DEF ListInv, List!Erase, List!Removable, List!Idle
<1>2. /\ Linked(Chain(l), List!links) /\ Chain(l) \in SUBSET List!Place /\ n \in Chain(l) \ Lists
      /\ LinksOK(List!links)
  BY <1>1, ChainsApart DEF ListInv, ListTypes, ChainsAreLinked, List!ListAssumption
<1>3. /\ LinksOK(L) /\ Linked(Chain(l) \ {n}, L)
      /\ SameLinks(List!Place \ Chain(l), List!links, L)
  BY <1>2, Unlink
<1> HIDE DEF L
<1>4. ASSUME NEW k \in Lists, k # l
      PROVE  /\ Linked(Chain(k), L) /\ n \notin Chain(k)
             /\ Chain(k) \subseteq List!Place \ Chain(l)
  <2>1. Chain(k) \subseteq List!Place \ Chain(l) /\ n \notin Chain(k)
    BY <1>1, <1>4, ChainsApart
  <2>2. SameLinks(Chain(k), List!links, L)
    BY <1>3, <2>1 DEF SameLinks
  <2>3. Linked(Chain(k), List!links)
    BY <1>1 DEF ListInv, ChainsAreLinked, List!ListAssumption
  <2> QED BY <2>1, <2>2, <2>3, LinkedStays
<1>5. /\ LinksOK(M)
      /\ d \in Lists => Linked(Chain(d) \union {n}, M)
      /\ SameLinks(List!Place \ (Target(d) \union {n}), L, M)
  BY <1>1, <1>3, <1>4, DeleteLinks
<1> HIDE DEF M
<1>6. /\ LinksOK(List!links') /\ \A C : Linked(C, M) => Linked(C, List!links')
  BY <1>1, <1>5, NewLinks
<1>7. ASSUME NEW k \in Lists
      PROVE  Linked(Chain(k)', List!links')
  <2>1. CASE k = d
    <3>1. Chain(k)' = Chain(d) \union {n}
      BY <1>1, <2>1 DEF ListTypes, Chain, List!NewOwner
    <3> QED BY <1>5, <1>6, <2>1, <3>1
  <2>2. CASE k # d
    <3>1. Chain(k)' = Chain(k) \ {n}
      <4>1. List!NewOwner(d) # k
        BY <2>2 DEF List!NewOwner, List!ListAssumption
      <4>2. n # k
        BY DEF List!ListAssumption
      <4> QED BY <1>1, <4>1, <4>2 DEF ListTypes, Chain
    <3>2. Linked(Chain(k) \ {n}, L)
      <4>1. CASE k = l
        BY <1>3, <4>1
      <4>2. CASE k # l
        <5>1. Chain(k) \ {n} = Chain(k)
          BY <1>4, <4>2
        <5> QED BY <1>4, <4>2, <5>1
      <4> QED BY <4>1, <4>2
    <3>3. SameLinks(Chain(k) \ {n}, L, M)
      <4>1. Chain(k) \ {n} \subseteq List!Place \ (Target(d) \union {n})
        BY <1>1, <2>2, ChainsApart DEF Target
      <4> QED BY <1>5, <4>1 DEF SameLinks
    <3> QED BY <1>6, <3>1, <3>2, <3>3, LinkedStays
  <2> QED BY <2>1, <2>2
<1>8. ListTypes'
  BY <1>1, <1>6 DEF ListTypes, List!NewOwner
<1> QED BY <1>1, <1>7, <1>8 DEF ListInv, ChainsAreLinked, ClearingGoesOn

(* So do the calls that take a node from an end. *)
LEMMA PopsKeep ==
  ASSUME List!ListAssumption, ListInv, NEW l \in Lists, List!PopFront(l) \/ List!PopBack(l)
  PROVE  ListInv'
<1>1. ListTypes /\ List!Idle
  BY DEF ListInv, List!PopFront, List!PopBack, List!Extract, List!Erase, List!Removable
<1>2. Linked(Chain(l), List!links) /\ l \in Chain(l)
  BY <1>1, ChainsApart DEF ListInv, ChainsAreLinked, List!Idle, List!ListAssumption
<1>3. /\ m_list_next_[l] \in Chain(l) /\ m_list_prev_[m_list_next_[l]] = l
      /\ m_list_prev_[l] \in Chain(l) /\ m_list_next_[m_list_prev_[l]] = l
  BY <1>2 DEF Linked, Mutual, List!links
<1>4. m_list_next_[l] # l /\ m_list_prev_[l] # l
  BY <1>3 DEF List!PopFront, List!PopBack, List!NotEmpty
<1>5. m_list_next_[l] \in Nodes /\ m_list_prev_[l] \in Nodes
  BY <1>3, <1>4 DEF Chain
<1>6. "none" \in List!Deleter
  BY DEF List!Deleter
<1> QED BY <1>5, <1>6, EraseKeeps DEF List!PopFront, List!PopBack, List!Extract

(* A sentinel alone. *)
LEMMA LoneRing ==
  ASSUME NEW l \in Lists, NEW next, next[l] = l
  PROVE  IsRing({l}, next)
<1> DEFINE rank == [x \in List!Place |-> 0]
<1>1. rank \in [List!Place -> Nat] /\ rank[l] = 0
  BY DEF List!Place
<1> HIDE DEF rank
<1>2. InRing(l, {l}, next, rank)
  BY <1>1 DEF InRing
<1> QED BY <1>1, <1>2 DEF IsRing

(* What release_all() makes of the list l. *)
LEMMA ReleaseLinks ==
  ASSUME List!ListAssumption, ListTypes, NEW l \in Lists, List!Released(l),
         \A k \in Lists \ {l} : Linked(Chain(k), List!links)
  PROVE  /\ LinksOK(List!links') /\ m_list_owner' \in [Nodes -> Lists \union {Null}]
         /\ \A k \in Lists : Linked(Chain(k)', List!links')
<1> DEFINE M == List!Emptied(List!links, l)
<1>1. /\ List!SetLinks(M) /\ l \in List!Place
      /\ m_list_owner'
           = [n \in Nodes |-> IF m_list_owner[n] = l THEN Null ELSE m_list_owner[n]]
  BY DEF List!Released, List!Place
<1>2. /\ M[1] = [m_list_prev_ EXCEPT ![l] = l] /\ M[2] = [m_list_next_ EXCEPT ![l] = l]
  BY DEF List!Emptied, List!links
<1> HIDE DEF M
<1>3. LinksOK(M) /\ Linked({l}, M) /\ SameLinks(List!Place \ {l}, List!links, M)
  <2>1. LinksOK(M) /\ Mutual({l}, M) /\ SameLinks(List!Place \ {l}, List!links, M)
    BY <1>1, <1>2 DEF ListTypes, LinksOK, Mutual, SameLinks, List!links
  <2>2. M[2][l] = l
    BY <1>1, <1>2 DEF ListTypes, LinksOK, List!links
  <2> QED BY <1>1, <2>1, <2>2, LoneRing DEF Linked
<1>4. LinksOK(List!links') /\ \A C : Linked(C, M) => Linked(C, List!links')
  BY <1>1, <1>3, NewLinks
<1>5. ASSUME NEW k \in Lists
      PROVE  Linked(Chain(k)', List!links')
  <2>1. CASE k = l
    <3>1. Chain(k)' = {l}
      BY <1>1, <2>1 DEF Chain, List!ListAssumption
    <3> QED BY <1>3, <1>4, <3>1
  <2>2. CASE k # l
    <3>1. Chain(k)' = Chain(k)
      BY <1>1, <2>2 DEF Chain, List!ListAssumption
    <3>2. Chain(k) \subseteq List!Place \ {l}
      BY <2>2, ChainsApart
    <3>3. SameLinks(Chain(k), List!links, M)
      BY <1>3, <3>2 DEF SameLinks
    <3> QED BY <1>4, <2>2, <3>1, <3>3, LinkedStays
  <2> QED BY <2>1, <2>2
<1>6. m_list_owner' \in [Nodes -> Lists \union {Null}]
  BY <1>1 DEF ListTypes
<1> QED BY <1>4, <1>5, <1>6

(* release_all() and the begin and the end of clear(). *)
LEMMA ReleasesKeep ==
  ASSUME List!ListAssumption, ListInv,
         (\E l \in Lists : List!ReleaseAll(l) \/ List!Clear(l)) \/ List!ClearDone
  PROVE  ListInv'
<1>1. ListTypes
  BY DEF ListInv
<1>2. ASSUME NEW l \in Lists, List!ReleaseAll(l)
      PROVE  ListInv'
  <2>1. List!Released(l) /\ clearing = Null /\ clearing' = Null
    BY <1>2 DEF List!ReleaseAll, List!Idle
  <2>2. \A k \in Lists \ {l} : Linked(Chain(k), List!links)
    BY <2>1 DEF ListInv, ChainsAreLinked, List!ListAssumption
  <2> QED BY <1>1, <2>1, <2>2, ReleaseLinks
          DEF ListInv, ListTypes, ChainsAreLinked, ClearingGoesOn
<1>3. ASSUME NEW l \in Lists, List!Clear(l)
      PROVE  ListInv'
  <2>1. /\ clearing = Null /\ clearing' = l /\ n_' = m_list_next_[l]
        /\ List!links' = List!links /\ m_list_next_' = m_list_next_
        /\ \A k \in Lists : Chain(k)' = Chain(k)
        /\ m_list_owner' = m_list_owner
    BY <1>3 DEF List!Clear, List!Idle, List!links, Chain
  <2>2. Linked(Chain(l), List!links) /\ l \in Chain(l)
    BY <1>1, <2>1, ChainsApart DEF ListInv, ChainsAreLinked, List!ListAssumption
  <2>3. \A p \in Chain(l) : m_list_next_[p] \in Chain(l) /\ m_list_prev_[m_list_next_[p]] = p
    BY <2>2 DEF Linked, Mutual, List!links
  <2>4. ClearingGoesOn'
    BY <2>1, <2>2, <2>3 DEF ClearingGoesOn
  <2>5. ListTypes'
    BY <1>1, <2>1 DEF ListTypes
  <2>6. ChainsAreLinked'
    BY <2>1 DEF ListInv, ChainsAreLinked, List!ListAssumption
  <2> QED BY <2>4, <2>5, <2>6 DEF ListInv
<1>4. CASE List!ClearDone
  <2>1. /\ clearing \in Lists /\ List!Released(clearing) /\ clearing' = Null
    BY <1>1, <1>4 DEF List!ClearDone, ListTypes
  <2>2. \A k \in Lists \ {clearing} : Linked(Chain(k), List!links)
    BY DEF ListInv, ChainsAreLinked
  <2> QED BY <1>1, <2>1, <2>2, ReleaseLinks
          DEF ListInv, ListTypes, ChainsAreLinked, ClearingGoesOn
<1> QED BY <1>2, <1>3, <1>4

(* clear() goes on: the next node was read before the deleter gets this    *)
(* one, which may change the links of other lists only.                    *)
LEMMA ClearStepKeeps ==
  ASSUME List!ListAssumption, ListInv, NEW d \in List!Deleter, List!ClearStep(d)
  PROVE  ListInv'
<1> DEFINE M == List!Deleted(List!links, d, n_)
<1>1. PICK c \in Lists : c = clearing
  BY DEF List!ClearStep, ListInv, ListTypes
<1>2. /\ ListTypes /\ clearing' = c /\ c # Null /\ n_ # c /\ d # c
      /\ n_' = m_list_next_[n_] /\ List!SetLinks(M)
      /\ m_list_owner' = [m_list_owner EXCEPT ![n_] = List!NewOwner(d)]
  BY <1>1 DEF List!ClearStep, ListInv
<1>3. /\ n_ \in Nodes /\ m_list_owner[n_] = c
      /\ \A n \in Chain(c) \ {c} :
           /\ m_list_next_[n] \in Chain(c) \ {n_}
           /\ \A m \in Chain(c) \ {c} : m_list_next_[n] = m_list_next_[m] => n = m
  BY <1>1, <1>2 DEF ListInv, ClearingGoesOn, Chain
<1>4. /\ \A k \in Lists \ {c} : Linked(Chain(k), List!links) /\ n_ \notin Chain(k)
      /\ LinksOK(List!links)
  BY <1>1, <1>2, <1>3, ChainsApart DEF ListInv, ListTypes, ChainsAreLinked
<1>5. /\ LinksOK(M)
      /\ d \in Lists => Linked(Chain(d) \union {n_}, M)
      /\ SameLinks(List!Place \ (Target(d) \union {n_}), List!links, M)
  BY <1>2, <1>3, <1>4, DeleteLinks
<1> HIDE DEF M
<1>6. /\ LinksOK(List!links') /\ \A C : Linked(C, M) => Linked(C, List!links')
      /\ m_list_next_' = M[2]
  BY <1>2, <1>5, NewLinks
<1>7. Chain(c)' = Chain(c) \ {n_}
  <2>1. List!NewOwner(d) # c
    BY <1>2 DEF List!NewOwner, List!ListAssumption
  <2> QED BY <1>2, <1>3, <2>1 DEF ListTypes, Chain
<1>8. ASSUME NEW k \in Lists \ {clearing'}
      PROVE  Linked(Chain(k)', List!links')
  <2>1. CASE k = d
    <3>1. Chain(k)' = Chain(d) \union {n_}
      BY <1>2, <1>3, <2>1 DEF ListTypes, Chain, List!NewOwner
    <3> QED BY <1>5, <1>6, <2>1, <3>1
  <2>2. CASE k # d
    <3>1. Chain(k)' = Chain(k)
      <4>1. List!NewOwner(d) # k
        BY <2>2 DEF List!NewOwner, List!ListAssumption
      <4> QED BY <1>2, <1>3, <1>8, <4>1 DEF ListTypes, Chain
    <3>2. Chain(k) \subseteq List!Place \ (Target(d) \union {n_})
      BY <1>2, <1>4, <1>8, <2>2, ChainsApart DEF Target
    <3>3. SameLinks(Chain(k), List!links, M)
      BY <1>5, <3>2 DEF SameLinks
    <3> QED BY <1>2, <1>4, <1>6, <1>8, <3>1, <3>3, LinkedStays
  <2> QED BY <2>1, <2>2
<1>9. ASSUME NEW n \in Chain(c)' \ {c}
      PROVE  m_list_next_'[n] = m_list_next_[n] /\ n \in Chain(c) \ {c}
  <2>1. n \in Chain(c) \ {c} /\ n # n_
    BY <1>7
  <2>2. n \in List!Place \ (Target(d) \union {n_})
    BY <1>2, <2>1, ChainsApart DEF Target
  <2> QED BY <1>5, <1>6, <2>1, <2>2 DEF SameLinks, List!links
<1>10. n_ \in Chain(c) \ {c}
  BY <1>2, <1>3 DEF Chain
<1>11. n_' \in Chain(c)'
  BY <1>2, <1>3, <1>7, <1>10
<1>12. \A n \in Chain(c)' \ {c} :
         /\ m_list_next_'[n] \in Chain(c)' \ {n_'}
         /\ \A m \in Chain(c)' \ {c} : m_list_next_'[n] = m_list_next_'[m] => n = m
  BY <1>2, <1>3, <1>7, <1>9, <1>10
<1>13. ListTypes'
  BY <1>1, <1>2, <1>3, <1>6 DEF ListTypes, List!NewOwner
<1> QED BY <1>2, <1>8, <1>11, <1>12, <1>13 DEF ListInv, ChainsAreLinked, ClearingGoesOn

LEMMA ListStarts ==
  ASSUME List!ListAssumption, List!Init
  PROVE  ListInv
<1>1. \A l \in Lists : Chain(l) = {l} /\ m_list_next_[l] = l
  BY DEF List!Init, List!ListAssumption, List!Place, Chain
<1>2. \A l \in Lists : IsRing(Chain(l), m_list_next_)
  BY <1>1, LoneRing
<1>3. \A l \in Lists : Mutual(Chain(l), List!links)
  BY <1>1 DEF List!Init, Mutual, List!links, List!Place
<1>4. ChainsAreLinked
  BY <1>2, <1>3 DEF ChainsAreLinked, Linked, List!links
<1> QED BY <1>4 DEF List!Init, ListInv, ListTypes, ClearingGoesOn, LinksOK, List!links, List!Place

LEMMA ListSteps ==
  ASSUME List!ListAssumption, ListInv, List!Next \/ UNCHANGED list
  PROVE  ListInv'
<1>1. CASE UNCHANGED list
  BY <1>1 DEF list, ListInv, ListTypes, ChainsAreLinked, ClearingGoesOn, List!links, Chain
<1>2. ASSUME NEW l \in Lists, NEW n \in Nodes, NEW d \in List!Deleter, List!Erase(l, n, d)
      PROVE  ListInv'
  BY <1>2, EraseKeeps
<1> QED BY <1>1, <1>2, InsertionsKeep, PopsKeep, ReleasesKeep, ClearStepKeeps DEF List!Next

-----------------------------------------------------------------------------
(* The counters: what a place owns when a node comes or goes. *)
OwnedBy(ow, t) == {n \in Nodes : ow[n] = t}
Changed(f, n, x) == [f EXCEPT ![n] = x]

LEMMA OneNodeMore ==
  ASSUME IsFiniteSet(Nodes), NEW S \in SUBSET Nodes
  PROVE  /\ Cardinality(S) \in Nat
         /\ \A n \in Nodes \ S : Cardinality(S \union {n}) = Cardinality(S) + 1
         /\ \A n \in S : Cardinality(S \ {n}) = Cardinality(S) - 1 /\ Cardinality(S) > 0
<1>1. IsFiniteSet(S) /\ Cardinality(S) \in Nat
  BY FS_Subset, FS_CardinalityType
<1>2. \A n \in Nodes \ S : Cardinality(S \union {n}) = Cardinality(S) + 1
  BY <1>1, FS_AddElement
<1>3. \A n \in S : Cardinality(S \ {n}) = Cardinality(S) - 1
  BY <1>1, FS_RemoveElement
<1>4. S # {} => Cardinality(S) > 0
  <2>1. S # {} => Cardinality(S) # 0
    BY <1>1, FS_EmptySet
  <2> QED BY <1>1, <2>1
<1> QED BY <1>1, <1>2, <1>3, <1>4

LEMMA OwnerChanges ==
  ASSUME IsFiniteSet(Nodes), NEW ow, ow = [n \in Nodes |-> ow[n]], NEW n \in Nodes, NEW x, NEW t
  PROVE  LET before == Cardinality(OwnedBy(ow, t))
             after == Cardinality(OwnedBy(Changed(ow, n, x), t))
         IN /\ before \in Nat /\ after \in Nat
            /\ (x = t <=> ow[n] = t) => after = before
            /\ x = t /\ ow[n] # t => after = before + 1
            /\ x # t /\ ow[n] = t => after = before - 1 /\ before > 0
<1> DEFINE S == OwnedBy(ow, t)
           T == OwnedBy(Changed(ow, n, x), t)
<1>1. /\ S \in SUBSET Nodes /\ T \in SUBSET Nodes
      /\ (x = t <=> ow[n] = t) => T = S
      /\ x = t /\ ow[n] # t => T = S \union {n} /\ n \in Nodes \ S
      /\ x # t /\ ow[n] = t => T = S \ {n} /\ n \in S
  BY DEF OwnedBy, Changed
<1> HIDE DEF S, T
<1>2. Cardinality(S) \in Nat /\ Cardinality(T) \in Nat
  BY <1>1, OneNodeMore
<1>3. x = t /\ ow[n] # t => Cardinality(T) = Cardinality(S) + 1
  BY <1>1, OneNodeMore
<1>4. x # t /\ ow[n] = t => Cardinality(T) = Cardinality(S) - 1 /\ Cardinality(S) > 0
  BY <1>1, OneNodeMore
<1> QED BY <1>1, <1>2, <1>3, <1>4 DEF S, T

(* size() of a list counts the nodes it was given, unless it is cleared.   *)
ListCounted ==
  /\ m_list_size_ \in [Lists -> Nat]
  /\ \A l \in Lists \ {clearing} : m_list_size_[l] = Cardinality(OwnedBy(m_list_owner, l))

(* The counters when a list gives a node away. *)
WithoutOne(size, l) == IF l = Null THEN size ELSE [size EXCEPT ![l] = @ - 1]

(* One node goes to d, from l or, where that is Null, from nowhere or from *)
(* the list that is being cleared.                                         *)
LEMMA CountMoves ==
  ASSUME List!ListAssumption, ListTypes, ListCounted, clearing' = clearing,
         NEW n \in Nodes, NEW d, NEW x \in Lists \union {Null},
         x = List!NewOwner(d), NEW l \in Lists \union {Null},
         m_list_owner[n] \in {l, clearing}, l = Null \/ m_list_owner[n] = l,
         l # clearing \/ l = Null, x # l \/ x = Null, x # clearing \/ x = Null,
         m_list_owner' = [m_list_owner EXCEPT ![n] = x],
         NEW size, size = WithoutOne(m_list_size_, l),
         m_list_size_' = List!Received(size, d)
  PROVE  ListCounted'
<1>1. /\ IsFiniteSet(Nodes) /\ Null \notin Lists /\ m_list_owner = [m \in Nodes |-> m_list_owner[m]]
      /\ m_list_owner' = Changed(m_list_owner, n, x)
  BY DEF List!ListAssumption, List!IsFiniteSet, IsFiniteSet, ListTypes, Changed
<1>2. /\ d \in Lists => x = d /\ m_list_size_' = [size EXCEPT ![d] = @ + 1]
      /\ d \notin Lists => x = Null /\ m_list_size_' = size
  BY DEF List!NewOwner, List!Received
<1>3. \A k \in Lists : Cardinality(OwnedBy(m_list_owner, k)) \in Nat
  BY <1>1, OwnerChanges
<1>4. l # Null => m_list_size_[l] - 1 \in Nat
  <2> SUFFICES ASSUME l # Null PROVE m_list_size_[l] - 1 \in Nat
    OBVIOUS
  <2>1. m_list_size_[l] = Cardinality(OwnedBy(m_list_owner, l)) /\ m_list_owner[n] = l
    BY DEF ListCounted
  <2>2. Cardinality(OwnedBy(m_list_owner, l)) \in Nat /\ Cardinality(OwnedBy(m_list_owner, l)) > 0
    <3>1. x # l
      BY <1>1
    <3> QED BY <1>1, <2>1, <3>1, OwnerChanges
  <2> QED BY <2>1, <2>2
<1>5. size \in [Lists -> Nat] /\ \A k \in Lists : size[k] = IF k = l THEN m_list_size_[k] - 1 ELSE m_list_size_[k]
  BY <1>1, <1>4 DEF ListCounted, WithoutOne
<1>6. /\ m_list_size_' \in [Lists -> Nat]
      /\ \A k \in Lists : m_list_size_'[k] = IF k = x THEN size[k] + 1 ELSE size[k]
  <2>1. CASE d \in Lists
    <3>1. x = d /\ m_list_size_' = [size EXCEPT ![d] = size[d] + 1] /\ size[d] \in Nat
      BY <1>2, <1>5, <2>1
    <3>2. \A k \in Lists : size[k] \in Nat
      BY <1>5
    <3>3. m_list_size_' = [k \in Lists |-> IF k = d THEN size[d] + 1 ELSE size[k]]
      BY <1>5, <3>1
    <3>4. m_list_size_' \in [Lists -> Nat]
      BY <2>1, <3>2, <3>3
    <3>5. \A k \in Lists : m_list_size_'[k] = IF k = x THEN size[k] + 1 ELSE size[k]
      BY <3>1, <3>3
    <3> QED BY <3>4, <3>5
  <2>2. CASE d \notin Lists
    <3>1. x = Null /\ m_list_size_' = size
      BY <1>2, <2>2
    <3> QED BY <1>1, <1>5, <3>1
  <2> QED BY <2>1, <2>2
<1>7. ASSUME NEW k \in Lists \ {clearing'}
      PROVE  m_list_size_'[k] = Cardinality(OwnedBy(m_list_owner, k)')
  <2>1. m_list_size_[k] = Cardinality(OwnedBy(m_list_owner, k)) /\ k # clearing
    BY <1>7 DEF ListCounted
  <2>2. OwnedBy(m_list_owner, k)' = OwnedBy(Changed(m_list_owner, n, x), k)
    BY <1>1 DEF OwnedBy
  <2>3. m_list_owner[n] = k <=> k = l
    BY <1>1, <1>7
  <2>4. CASE k = x
    <3>1. k # l
      BY <1>1, <2>4
    <3>2. Cardinality(OwnedBy(Changed(m_list_owner, n, x), k)) = Cardinality(OwnedBy(m_list_owner, k)) + 1
      BY <1>1, <2>3, <2>4, <3>1, OwnerChanges
    <3> QED BY <1>5, <1>6, <2>1, <2>2, <2>4, <3>1, <3>2
  <2>5. CASE k # x /\ k = l
    <3>1. Cardinality(OwnedBy(Changed(m_list_owner, n, x), k)) = Cardinality(OwnedBy(m_list_owner, k)) - 1
      BY <1>1, <2>3, <2>5, OwnerChanges
    <3> QED BY <1>5, <1>6, <2>1, <2>2, <2>5, <3>1
  <2>6. CASE k # x /\ k # l
    <3>1. Cardinality(OwnedBy(Changed(m_list_owner, n, x), k)) = Cardinality(OwnedBy(m_list_owner, k))
      BY <1>1, <2>3, <2>6, OwnerChanges
    <3> QED BY <1>5, <1>6, <2>1, <2>2, <2>6, <3>1
  <2> QED BY <2>4, <2>5, <2>6
<1> QED BY <1>6, <1>7 DEF ListCounted

(* release_all() and the end of clear(). *)
LEMMA CountReleases ==
  ASSUME List!ListAssumption, ListTypes, ListCounted, NEW l \in Lists, List!Released(l),
         clearing \in {l, Null}, clearing' = Null
  PROVE  ListCounted'
<1>1. /\ IsFiniteSet(Nodes) /\ Null \notin Lists
      /\ m_list_size_' = [m_list_size_ EXCEPT ![l] = 0]
      /\ m_list_owner' = [n \in Nodes |-> IF m_list_owner[n] = l THEN Null ELSE m_list_owner[n]]
  BY DEF List!ListAssumption, List!IsFiniteSet, IsFiniteSet, List!Released
<1>2. /\ m_list_size_' \in [Lists -> Nat] /\ m_list_size_'[l] = 0
      /\ \A k \in Lists \ {l} : m_list_size_'[k] = m_list_size_[k]
  BY <1>1 DEF ListCounted
<1>3. ASSUME NEW k \in Lists
      PROVE  m_list_size_'[k] = Cardinality(OwnedBy(m_list_owner, k)')
  <2>1. CASE k = l
    <3>1. OwnedBy(m_list_owner, k)' = {}
      BY <1>1, <2>1 DEF OwnedBy
    <3> QED BY <1>2, <2>1, <3>1, FS_EmptySet
  <2>2. CASE k # l
    <3>1. OwnedBy(m_list_owner, k)' = OwnedBy(m_list_owner, k)
      BY <1>1, <2>2 DEF OwnedBy
    <3>2. m_list_size_[k] = Cardinality(OwnedBy(m_list_owner, k))
      BY <1>1, <2>2 DEF ListCounted
    <3> QED BY <1>2, <2>2, <3>1, <3>2
  <2> QED BY <2>1, <2>2
<1> QED BY <1>2, <1>3 DEF ListCounted

LEMMA CountsStay ==
  ASSUME List!ListAssumption, ListInv, ListCounted, List!Next \/ UNCHANGED list
  PROVE  ListCounted'
<1>1. ListTypes /\ Null \notin Lists /\ (clearing \in Lists \union {Null})
  BY DEF ListInv, ListTypes, List!ListAssumption
<1>2. ASSUME NEW l \in Lists, NEW n \in Nodes, List!Insertable(n), List!Inserted(l, n)
      PROVE  ListCounted'
  <2>1. /\ clearing = Null /\ clearing' = clearing /\ m_list_owner[n] = Null
        /\ m_list_owner' = [m_list_owner EXCEPT ![n] = l]
        /\ m_list_size_' = [m_list_size_ EXCEPT ![l] = @ + 1]
    BY <1>2 DEF List!Insertable, List!Idle, List!Inserted
  <2>2. /\ m_list_size_' = List!Received(m_list_size_, l) /\ l = List!NewOwner(l)
        /\ m_list_size_ = WithoutOne(m_list_size_, Null)
    BY <2>1 DEF List!Received, List!NewOwner, WithoutOne
  <2> QED BY <1>1, <2>1, <2>2, CountMoves
<1>3. ASSUME NEW l \in Lists, NEW n \in Nodes, NEW d \in List!Deleter, List!Erase(l, n, d)
      PROVE  ListCounted'
  <2> DEFINE x == List!NewOwner(d)
             size == [m_list_size_ EXCEPT ![l] = @ - 1]
  <2>1. /\ clearing = Null /\ clearing' = clearing /\ m_list_owner[n] = l /\ d # l
        /\ m_list_owner' = [m_list_owner EXCEPT ![n] = x]
        /\ m_list_size_' = List!Received(size, d)
    BY <1>3 DEF List!Erase, List!Removable, List!Idle
  <2>2. x \in Lists \union {Null} /\ (x # l \/ x = Null) /\ (x # clearing \/ x = Null)
    BY <1>1, <2>1 DEF List!NewOwner
  <2>3. size = WithoutOne(m_list_size_, l)
    BY <1>1 DEF WithoutOne
  <2>4. x = List!NewOwner(d)
    OBVIOUS
  <2> HIDE DEF x, size
  <2> QED BY <1>1, <2>1, <2>2, <2>3, <2>4, CountMoves
<1>4. ASSUME NEW d \in List!Deleter, List!ClearStep(d)
      PROVE  ListCounted'
  <2> DEFINE x == List!NewOwner(d)
  <2>1. /\ clearing # Null /\ clearing' = clearing /\ d # clearing /\ n_ # clearing
        /\ m_list_owner' = [m_list_owner EXCEPT ![n_] = x]
        /\ m_list_size_' = List!Received(m_list_size_, d)
    BY <1>4 DEF List!ClearStep
  <2>2. n_ \in Nodes /\ m_list_owner[n_] = clearing
    BY <2>1 DEF ListInv, ClearingGoesOn, Chain
  <2>3. x \in Lists \union {Null} /\ (x # clearing \/ x = Null) /\ x = List!NewOwner(d)
    BY <1>1, <2>1 DEF List!NewOwner
  <2> HIDE DEF x
  <2> DEFINE l == Null
  <2>4. /\ l \in Lists \union {Null} /\ (x # l \/ x = Null) /\ (l # clearing \/ l = Null)
        /\ m_list_size_ = WithoutOne(m_list_size_, l)
    BY DEF WithoutOne
  <2> QED BY <1>1, <2>1, <2>2, <2>3, <2>4, CountMoves
<1>5. ASSUME NEW l \in Lists, List!PopFront(l) \/ List!PopBack(l)
      PROVE  ListCounted'
  <2>1. List!Idle
    BY <1>5 DEF List!PopFront, List!PopBack, List!Extract, List!Erase, List!Removable
  <2>2. Linked(Chain(l), List!links) /\ l \in Chain(l)
    BY <1>1, <2>1, ChainsApart DEF ListInv, ChainsAreLinked, List!Idle, List!ListAssumption
  <2>3. /\ m_list_next_[l] \in Chain(l) /\ m_list_prev_[m_list_next_[l]] = l
        /\ m_list_prev_[l] \in Chain(l) /\ m_list_next_[m_list_prev_[l]] = l
    BY <2>2 DEF Linked, Mutual, List!links
  <2>4. m_list_next_[l] # l /\ m_list_prev_[l] # l
    BY <1>5, <2>3 DEF List!PopFront, List!PopBack, List!NotEmpty
  <2>5. m_list_next_[l] \in Nodes /\ m_list_prev_[l] \in Nodes /\ "none" \in List!Deleter
    BY <2>3, <2>4 DEF Chain, List!Deleter
  <2> QED BY <1>3, <1>5, <2>5 DEF List!PopFront, List!PopBack, List!Extract
<1>6. ASSUME NEW l \in Lists, List!ReleaseAll(l)
      PROVE  ListCounted'
  <2>1. List!Released(l) /\ clearing = Null /\ clearing' = Null
    BY <1>6 DEF List!ReleaseAll, List!Idle
  <2> QED BY <1>1, <2>1, CountReleases
<1>7. ASSUME NEW l \in Lists, List!Clear(l)
      PROVE  ListCounted'
  <2>1. /\ clearing = Null /\ m_list_size_' = m_list_size_ /\ m_list_owner' = m_list_owner
    BY <1>7 DEF List!Clear, List!Idle
  <2> QED BY <1>1, <2>1 DEF ListCounted, OwnedBy
<1>8. CASE List!ClearDone
  <2>1. clearing \in Lists /\ List!Released(clearing) /\ clearing' = Null
    BY <1>1, <1>8 DEF List!ClearDone
  <2> QED BY <1>1, <2>1, CountReleases
<1>9. CASE UNCHANGED list
  BY <1>9 DEF list, ListCounted, OwnedBy
<1>10. ASSUME NEW l \in Lists, NEW n \in Nodes,
              \/ List!PushBack(l, n) \/ List!PushFront(l, n)
              \/ \E pos \in Nodes : List!InsertBefore(l, pos, n) \/ List!InsertAfter(l, pos, n)
       PROVE  ListCounted'
  BY <1>2, <1>10 DEF List!PushBack, List!PushFront, List!InsertBefore, List!InsertAfter
<1> QED BY <1>3, <1>4, <1>5, <1>6, <1>7, <1>8, <1>9, <1>10 DEF List!Next

-----------------------------------------------------------------------------
(* A set of natural numbers has a least one, unless it is empty. *)
LEMMA LeastNatural ==
  ASSUME NEW S \in SUBSET Nat, S # {}
  PROVE  \E m \in S : \A k \in S : m <= k
<1>1. IsWellFoundedOn(OpToRel(<, Nat), Nat)
  BY NatLessThanWellFounded
<1>2. PICK m \in S : \A k \in S : ~(<<k, m>> \in OpToRel(<, Nat))
  BY <1>1, WFMin
<1>3. \A k \in S : <<k, m>> \in OpToRel(<, Nat) <=> k < m
  BY DEF OpToRel
<1>4. \A k \in S : ~(k < m) /\ k \in Nat /\ m \in Nat
  BY <1>2, <1>3
<1> QED BY <1>4

(* The way along the links from a place on. *)
Way(next, start, node) ==
  node = [k \in Nat |-> IF k = 0 THEN start ELSE List!Follow(next, node[k - 1])]

WayUpTo(n, next, start, node) ==
  node = [k \in 0..n |-> IF k = 0 THEN start ELSE List!Follow(next, node[k - 1])]

LEMMA OneWayUpTo ==
  ASSUME NEW next, NEW start, NEW n \in Nat, NEW m \in Nat, NEW f, NEW g,
         WayUpTo(n, next, start, f), WayUpTo(m, next, start, g)
  PROVE  \A k \in 0..n : k <= m => f[k] = g[k]
<1> DEFINE D == {k \in Nat : k <= n /\ k <= m /\ f[k] # g[k]}
<1>1. /\ \A k \in 0..n : f[k] = IF k = 0 THEN start ELSE List!Follow(next, f[k - 1])
      /\ \A k \in 0..m : g[k] = IF k = 0 THEN start ELSE List!Follow(next, g[k - 1])
  BY DEF WayUpTo
<1>2. ASSUME D # {} PROVE FALSE
  <2>1. PICK k \in D : \A j \in D : k <= j
    <3>1. D \in SUBSET Nat
      OBVIOUS
    <3> HIDE DEF D
    <3> QED BY <1>2, <3>1, LeastNatural
  <2>2. k # 0
    BY <1>1, <2>1
  <2>3. k - 1 \in Nat /\ k - 1 \notin D
    BY <2>1, <2>2
  <2>4. f[k - 1] = g[k - 1]
    BY <2>1, <2>3
  <2> QED BY <1>1, <2>1, <2>2, <2>4
<1> QED BY <1>2

LEMMA WaysExist ==
  ASSUME NEW next, NEW start
  PROVE  \E g : Way(next, start, g)
<1>1. \A n \in Nat : \E h : WayUpTo(n, next, start, h)
  <2> DEFINE D == {n \in Nat : ~\E h : WayUpTo(n, next, start, h)}
  <2>1. ASSUME D # {} PROVE FALSE
    <3>1. PICK n \in D : \A j \in D : n <= j
      <4>1. D \in SUBSET Nat
        OBVIOUS
      <4> HIDE DEF D
      <4> QED BY <2>1, <4>1, LeastNatural
    <3>2. CASE n = 0
      <4>1. WayUpTo(n, next, start, [k \in 0..n |-> start])
        BY <3>2 DEF WayUpTo
      <4> QED BY <3>1, <4>1
    <3>3. CASE n # 0
      <4>1. n - 1 \in Nat /\ n - 1 \notin D /\ n \in Nat
        BY <3>1, <3>3
      <4>2. PICK h : WayUpTo(n - 1, next, start, h)
        BY <4>1
      <4> DEFINE g == [k \in 0..n |-> IF k = n THEN List!Follow(next, h[n - 1]) ELSE h[k]]
      <4>3. \A k \in 0..n - 1 : h[k] = IF k = 0 THEN start ELSE List!Follow(next, h[k - 1])
        BY <4>2 DEF WayUpTo
      <4>4. \A k \in 0..n : k # n => k \in 0..n - 1 /\ k - 1 # n
        BY <4>1
      <4>5. \A k \in 0..n : g[k] = IF k = 0 THEN start ELSE List!Follow(next, g[k - 1])
        <5>1. ASSUME NEW k \in 0..n
              PROVE  g[k] = IF k = 0 THEN start ELSE List!Follow(next, g[k - 1])
          <6>1. k # 0 => k - 1 \in 0..n /\ k - 1 # n /\ g[k - 1] = h[k - 1]
            BY <4>1
          <6>2. k # n => g[k] = h[k]
            OBVIOUS
          <6>3. k = n => k # 0 /\ g[k] = List!Follow(next, h[k - 1])
            BY <3>3
          <6> HIDE DEF g
          <6> QED BY <4>3, <4>4, <6>1, <6>2, <6>3
        <5> QED BY <5>1
      <4>6. g = [k \in 0..n |-> g[k]]
        OBVIOUS
      <4> HIDE DEF g
      <4>7. WayUpTo(n, next, start, g)
        BY <4>5, <4>6 DEF WayUpTo
      <4> QED BY <3>1, <4>7
    <3> QED BY <3>2, <3>3
  <2> QED BY <2>1
<1> DEFINE h(n) == CHOOSE f : WayUpTo(n, next, start, f)
           g == [k \in Nat |-> h(k)[k]]
<1>2. \A n \in Nat : WayUpTo(n, next, start, h(n))
  BY <1>1
<1> HIDE DEF h
<1>3. ASSUME NEW k \in Nat
      PROVE  g[k] = IF k = 0 THEN start ELSE List!Follow(next, g[k - 1])
  <2>1. h(k)[k] = IF k = 0 THEN start ELSE List!Follow(next, h(k)[k - 1])
    BY <1>2 DEF WayUpTo
  <2>2. k # 0 => h(k)[k - 1] = h(k - 1)[k - 1] /\ k - 1 \in Nat
    <3> SUFFICES ASSUME k # 0 PROVE h(k)[k - 1] = h(k - 1)[k - 1] /\ k - 1 \in Nat
      OBVIOUS
    <3>1. k - 1 \in Nat /\ k - 1 \in 0..k - 1 /\ k - 1 <= k
      OBVIOUS
    <3>2. WayUpTo(k - 1, next, start, h(k - 1)) /\ WayUpTo(k, next, start, h(k))
      BY <1>2, <3>1
    <3> DEFINE i == k - 1
    <3> HIDE DEF i
    <3>3. i \in Nat /\ i \in 0..i /\ i <= k /\ WayUpTo(i, next, start, h(i))
      BY <3>1, <3>2 DEF i
    <3>4. h(i)[i] = h(k)[i]
      BY <3>2, <3>3, OneWayUpTo
    <3> QED BY <3>1, <3>4 DEF i
  <2> QED BY <2>1, <2>2
<1>4. g = [k \in Nat |-> g[k]]
  OBVIOUS
<1> HIDE DEF g
<1>5. Way(next, start, g)
  BY <1>3, <1>4 DEF Way
<1> QED BY <1>5

LEMMA OneWay ==
  ASSUME NEW next, NEW start, NEW f, NEW g, Way(next, start, f), Way(next, start, g)
  PROVE  f = g
<1>1. /\ f = [k \in Nat |-> f[k]] /\ g = [k \in Nat |-> g[k]]
      /\ \A k \in Nat : /\ f[k] = IF k = 0 THEN start ELSE List!Follow(next, f[k - 1])
                        /\ g[k] = IF k = 0 THEN start ELSE List!Follow(next, g[k - 1])
  BY DEF Way
<1> DEFINE D == {k \in Nat : f[k] # g[k]}
<1>2. ASSUME D # {} PROVE FALSE
  <2>1. PICK k \in D : \A j \in D : k <= j
    <3>1. D \in SUBSET Nat
      OBVIOUS
    <3> HIDE DEF D
    <3> QED BY <1>2, <3>1, LeastNatural
  <2>2. k # 0
    BY <1>1, <2>1
  <2>3. k - 1 \in Nat /\ k - 1 \notin D
    BY <2>1, <2>2
  <2>4. f[k - 1] = g[k - 1]
    BY <2>1, <2>3
  <2> QED BY <1>1, <2>1, <2>2, <2>4
<1> QED BY <1>1, <1>2

(* The walk along a ring is as long as the ring has nodes. *)
WalkAlong(node, l) ==
  LET reached == {k \in 0..List!Cardinality(Nodes) : node[k] = l}
      length == IF reached = {} THEN List!Cardinality(Nodes) + 1
                ELSE CHOOSE k \in reached : \A j \in reached : k <= j
  IN [i \in 1..length |-> node[i - 1]]

LEMMA WalkIsAlong ==
  ASSUME NEW next, NEW start, NEW l
  PROVE  List!Walk(next, start, l) = WalkAlong(CHOOSE node : Way(next, start, node), l)
BY Zenon DEF List!Walk, WalkAlong, Way

LEMMA ListCardinality == \A S : List!Cardinality(S) = Cardinality(S)
BY DEF List!Cardinality, Cardinality

LEMMA RingLength ==
  ASSUME List!ListAssumption, NEW l \in Lists, NEW C, C \cap Lists = {l}, C \subseteq List!Place,
         NEW next, IsRing(C, next), \A x \in C : next[x] \in C
  PROVE  Len(List!Walk(next, next[l], l)) = Cardinality(C \ {l})
<1>1. PICK rank \in [List!Place -> Nat] : InRing(l, C, next, rank)
  BY DEF IsRing
<1>2. PICK g : Way(next, next[l], g)
  BY WaysExist
<1> DEFINE K == rank[next[l]]
<1>3. /\ l \in C /\ next[l] \in C /\ K \in Nat
      /\ \A x \in C : rank[x] \in 0..K /\ (rank[x] = 0 <=> x = l)
  BY <1>1 DEF InRing
<1>4. K = rank[next[l]]
  OBVIOUS
<1> HIDE DEF K
<1>5. \A k \in Nat : g[k] = IF k = 0 THEN next[l] ELSE List!Follow(next, g[k - 1])
  BY <1>2 DEF Way
<1>6. \A i \in 0..K : g[i] \in C /\ rank[g[i]] = K - i
  <2> DEFINE D == {i \in Nat : i <= K /\ ~(g[i] \in C /\ rank[g[i]] = K - i)}
  <2>1. ASSUME D # {} PROVE FALSE
    <3>1. PICK i \in D : \A j \in D : i <= j
      <4>1. D \in SUBSET Nat
        OBVIOUS
      <4> HIDE DEF D
      <4> QED BY <2>1, <4>1, LeastNatural
    <3>2. i # 0
      BY <1>3, <1>4, <1>5, <3>1
    <3>3. i - 1 \in Nat /\ i - 1 <= K /\ i - 1 \notin D
      BY <1>3, <3>1, <3>2
    <3>4. g[i - 1] \in C /\ rank[g[i - 1]] = K - (i - 1)
      BY <3>3
    <3>5. K - (i - 1) # 0 /\ K - (i - 1) - 1 = K - i
      BY <1>3, <3>1
    <3>6. g[i - 1] # l /\ g[i] = next[g[i - 1]]
      BY <1>3, <1>5, <3>1, <3>2, <3>4, <3>5 DEF List!Follow
    <3>7. g[i] \in C /\ rank[g[i]] = K - i
      BY <1>1, <3>4, <3>5, <3>6 DEF InRing
    <3> QED BY <3>1, <3>7
  <2> QED BY <1>3, <2>1
<1>7. \A i \in 0..K : g[i] = l <=> i = K
  BY <1>3, <1>6
<1> DEFINE N == C \ {l}
           f == [x \in N |-> rank[x]]
<1>8. IsFiniteSet(N) /\ Cardinality(N) <= Cardinality(Nodes)
      /\ Cardinality(N) \in Nat /\ Cardinality(Nodes) \in Nat
  <2>1. N \subseteq Nodes /\ IsFiniteSet(Nodes)
    BY DEF List!Place, List!ListAssumption, List!IsFiniteSet, IsFiniteSet
  <2> HIDE DEF N
  <2> QED BY <2>1, FS_Subset, FS_CardinalityType
<1>9. Cardinality(N) = K
  <2>1. f \in [N -> 1..K] /\ \A x, y \in N : f[x] = f[y] => x = y
    BY <1>1, <1>3 DEF InRing
  <2>2. \A j \in 1..K : \E x \in N : f[x] = j
    <3>1. ASSUME NEW j \in 1..K PROVE \E x \in N : f[x] = j
      <4>1. K - j \in 0..K /\ K - j # K /\ K - (K - j) = j
        BY <1>3
      <4>2. g[K - j] \in N /\ rank[g[K - j]] = j
        BY <1>6, <1>7, <4>1
      <4> QED BY <4>2
    <3> QED BY <3>1
  <2>3. Cardinality(1..K) = K
    <3>1. 1 \in Int /\ K \in Int /\ (1 > K => K = 0) /\ K - 1 + 1 = K
      BY <1>3
    <3>2. Cardinality(1..K) = IF 1 > K THEN 0 ELSE K - 1 + 1
      BY <3>1, FS_Interval
    <3> QED BY <3>1, <3>2
  <2> HIDE DEF N, f
  <2>4. f \in Surjection(N, 1..K) /\ f \in Injection(N, 1..K)
    BY <2>1, <2>2 DEF Surjection, Injection, IsInjective
  <2> QED BY <1>8, <2>3, <2>4, FS_Surjection
<1> HIDE DEF N
<1>10. List!Walk(next, next[l], l) = WalkAlong(g, l)
  BY <1>2, WalkIsAlong, OneWay
<1> DEFINE M == List!Cardinality(Nodes)
           reached == {k \in 0..M : g[k] = l}
<1>11. M \in Nat /\ K <= M
  BY <1>8, <1>9, ListCardinality
<1> HIDE DEF M
<1>12. K \in reached /\ \A j \in reached : K <= j
  BY <1>3, <1>7, <1>11
<1>13. (CHOOSE k \in reached : \A j \in reached : k <= j) = K /\ reached # {}
  BY <1>3, <1>11, <1>12
<1>14. WalkAlong(g, l) = [i \in 1..K |-> g[i - 1]]
  BY <1>13 DEF WalkAlong, M
<1>15. Len([i \in 1..K |-> g[i - 1]]) = K
  BY <1>3
<1> QED BY <1>9, <1>10, <1>14, <1>15 DEF N

(* For any nodes and lists, the links of both directions agree, also where *)
(* a deleter pushes nodes onto another list while clear() still walks the  *)
(* first one, and size() is the number of nodes that an iterator visits.   *)
THEOREM LinksAlwaysAgree ==
  ASSUME List!ListAssumption
  PROVE  ContainersSpec => []LinksAgree
<1> DEFINE Inv == ListInv /\ ListCounted
<1>1. ContainersInit => Inv
  <2> SUFFICES ASSUME List!Init PROVE Inv
    BY DEF ContainersInit, ContainersAre
  <2>1. \A l \in Lists : OwnedBy(m_list_owner, l) = {} /\ m_list_size_[l] = 0
    BY DEF List!Init, List!ListAssumption, OwnedBy
  <2>2. ListCounted
    BY <2>1, FS_EmptySet DEF ListCounted, List!Init
  <2> QED BY <2>2, ListStarts
<1>2. Inv /\ [ContainersNext]_containerVars => Inv'
  <2>1. [ContainersNext]_containerVars => List!Next \/ UNCHANGED list
    BY DEF ContainersNext, containerVars
  <2> QED BY <2>1, ListSteps, CountsStay
<1>3. Inv => List!BothWaysAgree
  <2> SUFFICES ASSUME ListInv, NEW l \in Lists \ {clearing}
               PROVE  /\ m_list_prev_[m_list_next_[l]] = l
                      /\ \A n \in Nodes : m_list_owner[n] = l =>
                           /\ List!Follow(m_list_prev_, m_list_next_[n]) = n
                           /\ List!Follow(m_list_next_, m_list_prev_[n]) = n
    BY DEF List!BothWaysAgree
  <2>1. Linked(Chain(l), List!links) /\ l \in Chain(l) /\ Chain(l) \subseteq List!Place
    BY ChainsApart DEF ListInv, ChainsAreLinked
  <2>2. \A n \in Nodes : m_list_owner[n] = l => n \in Chain(l)
    BY DEF Chain
  <2> QED BY <2>1, <2>2 DEF Linked, Mutual, List!links, List!Follow
<1>4. Inv => List!SizeIsLength
  <2> SUFFICES ASSUME ListInv, ListCounted, NEW l \in Lists \ {clearing}
               PROVE  m_list_size_[l] = Len(List!Walk(m_list_next_, m_list_next_[l], l))
    BY DEF List!SizeIsLength, List!Items
  <2>1. /\ IsRing(Chain(l), m_list_next_) /\ \A x \in Chain(l) : m_list_next_[x] \in Chain(l)
    BY DEF ListInv, ChainsAreLinked, Linked, Mutual, List!links
  <2>2. Chain(l) \cap Lists = {l} /\ Chain(l) \subseteq List!Place
    BY DEF Chain, List!ListAssumption, List!Place
  <2>3. Chain(l) \ {l} = OwnedBy(m_list_owner, l)
    BY DEF Chain, OwnedBy, List!ListAssumption
  <2>4. m_list_size_[l] = Cardinality(OwnedBy(m_list_owner, l))
    BY DEF ListCounted
  <2> QED BY <2>1, <2>2, <2>3, <2>4, RingLength
<1>5. Inv => LinksAgree
  BY <1>3, <1>4 DEF LinksAgree
<1> QED BY <1>1, <1>2, <1>5, PTL DEF ContainersSpec

-----------------------------------------------------------------------------
(***************************************************************************)
(* The chains of hxhash_table.  A chain is a set of nodes with the link to *)
(* its first one; the rank of a node is the number of nodes behind it.     *)
(* Steps are shown to keep chains, and only then that a walk from the      *)
(* first node comes to each of them once.                                  *)
(***************************************************************************)
Ranked(first, C, next, rank) ==
  /\ C \subseteq Nodes
  /\ first = Null <=> C = {}
  /\ first # Null => first \in C /\ \A n \in C : rank[n] <= rank[first]
  /\ \A n \in C :
       /\ rank[n] = 0 => next[n] = Null
       /\ rank[n] # 0 => next[n] \in C /\ rank[next[n]] = rank[n] - 1
  /\ \A n, m \in C : rank[n] = rank[m] => n = m

IsChain(first, C, next) == \E rank \in [Nodes -> Nat] : Ranked(first, C, next, rank)

(* Only the links of its nodes matter to a chain. *)
LEMMA ChainStays ==
  ASSUME NEW first, NEW C, NEW next, NEW moved, IsChain(first, C, next),
         \A n \in C : moved[n] = next[n]
  PROVE  IsChain(first, C, moved)
<1>1. PICK rank \in [Nodes -> Nat] : Ranked(first, C, next, rank)
  BY DEF IsChain
<1>2. Ranked(first, C, moved, rank)
  BY <1>1 DEF Ranked
<1> QED BY <1>2 DEF IsChain

LEMMA NoChain ==
  ASSUME NEW next
  PROVE  IsChain(Null, {}, next)
<1>1. [n \in Nodes |-> 0] \in [Nodes -> Nat]
  OBVIOUS
<1>2. Ranked(Null, {}, next, [n \in Nodes |-> 0])
  BY DEF Ranked
<1> QED BY <1>1, <1>2 DEF IsChain

(* A chain begins inside of itself, unless it is empty. *)
LEMMA ChainFacts ==
  ASSUME Table!HashTableAssumption, NEW first, NEW C, NEW next, IsChain(first, C, next)
  PROVE  /\ C \subseteq Nodes
         /\ first = Null <=> C = {}
         /\ first # Null => first \in C
         /\ first \in Nodes \union {Null}
         /\ \A n \in C : next[n] # Null => next[n] \in C /\ next[n] # n
<1>1. PICK rank \in [Nodes -> Nat] : Ranked(first, C, next, rank)
  BY DEF IsChain
<1>2. C \subseteq Nodes /\ (first = Null <=> C = {}) /\ (first # Null => first \in C)
  BY <1>1 DEF Ranked
<1>3. ASSUME NEW n \in C, next[n] # Null
      PROVE  next[n] \in C /\ next[n] # n
  <2>1. next[n] \in C /\ rank[next[n]] = rank[n] - 1 /\ rank[n] \in Nat
    BY <1>1, <1>2, <1>3 DEF Ranked
  <2> QED BY <2>1
<1> QED BY <1>2, <1>3

LEMMA ChainPush ==
  ASSUME Table!HashTableAssumption, NEW first, NEW C, NEW next, NEW moved,
         IsChain(first, C, next), NEW n \in Nodes \ C, moved[n] = first,
         \A m \in C : moved[m] = next[m]
  PROVE  IsChain(n, C \union {n}, moved)
<1>1. PICK rank \in [Nodes -> Nat] : Ranked(first, C, next, rank)
  BY DEF IsChain
<1>2. PICK highest \in Nat : highest = IF first = Null THEN 0 ELSE rank[first] + 1
  BY <1>1 DEF Ranked
<1>3. PICK r : r = [rank EXCEPT ![n] = highest]
  OBVIOUS
<1>4. r \in [Nodes -> Nat] /\ r[n] = highest /\ \A m \in C : r[m] = rank[m]
  BY <1>1, <1>2, <1>3 DEF Ranked
<1>5. Null \notin Nodes
  BY DEF Table!HashTableAssumption
<1>6. \A m \in C : r[m] \in Nat /\ r[m] < highest
  BY <1>1, <1>2, <1>4 DEF Ranked
<1>7. highest = 0 => first = Null
  BY <1>1, <1>2 DEF Ranked
<1>8. highest # 0 => first \in C /\ r[first] = highest - 1
  BY <1>1, <1>2, <1>4 DEF Ranked
<1>9. Ranked(n, C \union {n}, moved, r)
  <2>1. C \union {n} \subseteq Nodes /\ n # Null
    BY <1>1, <1>5 DEF Ranked
  <2>2. \A m \in C \union {n} : r[m] <= r[n]
    BY <1>2, <1>4, <1>6
  <2>3. ASSUME NEW m \in C \union {n}
        PROVE  /\ r[m] = 0 => moved[m] = Null
               /\ r[m] # 0 => moved[m] \in C \union {n} /\ r[moved[m]] = r[m] - 1
    <3>1. CASE m = n
      BY <1>4, <1>7, <1>8, <3>1
    <3>2. CASE m \in C
      <4>1. moved[m] = next[m] /\ r[m] = rank[m]
        BY <1>4, <3>2
      <4> QED BY <1>1, <1>4, <3>2, <4>1 DEF Ranked
    <3> QED BY <3>1, <3>2
  <2>4. ASSUME NEW m \in C \union {n}, NEW k \in C \union {n}, r[m] = r[k] PROVE m = k
    BY <1>1, <1>4, <1>6, <2>4 DEF Ranked
  <2> QED BY <2>1, <2>2, <2>3, <2>4 DEF Ranked
<1> QED BY <1>4, <1>9 DEF IsChain

(* What is left without the first node. *)
LEMMA ChainPop ==
  ASSUME Table!HashTableAssumption, NEW first, NEW C, NEW next, NEW moved,
         IsChain(first, C, next), first # Null,
         \A m \in C \ {first} : moved[m] = next[m]
  PROVE  IsChain(next[first], C \ {first}, moved)
<1>1. PICK rank \in [Nodes -> Nat] : Ranked(first, C, next, rank)
  BY DEF IsChain
<1>2. /\ first \in C /\ C \subseteq Nodes /\ rank[first] \in Nat
      /\ \A n \in C \ {first} : rank[n] \in Nat /\ rank[n] < rank[first]
  BY <1>1 DEF Ranked
<1>3. Null \notin Nodes
  BY DEF Table!HashTableAssumption
<1>4. ASSUME NEW n \in C, rank[n] # 0
      PROVE  next[n] \in C \ {first} /\ rank[next[n]] = rank[n] - 1
  <2>1. next[n] \in C /\ rank[next[n]] = rank[n] - 1 /\ rank[n] \in Nat /\ rank[n] <= rank[first]
    BY <1>1, <1>2, <1>4 DEF Ranked
  <2> QED BY <1>2, <2>1
<1>5. next[first] = Null <=> C \ {first} = {}
  <2>1. CASE rank[first] = 0
    BY <1>1, <1>2, <2>1 DEF Ranked
  <2>2. CASE rank[first] # 0
    BY <1>2, <1>3, <1>4, <2>2
  <2> QED BY <2>1, <2>2
<1>6. next[first] # Null =>
        /\ next[first] \in C \ {first}
        /\ \A n \in C \ {first} : rank[n] <= rank[next[first]]
  <2> SUFFICES ASSUME next[first] # Null
               PROVE  /\ next[first] \in C \ {first}
                      /\ \A n \in C \ {first} : rank[n] <= rank[next[first]]
    OBVIOUS
  <2>1. rank[first] # 0
    BY <1>1, <1>2 DEF Ranked
  <2> QED BY <1>2, <1>4, <2>1
<1>7. \A n \in C \ {first} :
        /\ rank[n] = 0 => moved[n] = Null
        /\ rank[n] # 0 => moved[n] \in C \ {first} /\ rank[moved[n]] = rank[n] - 1
  BY <1>1, <1>4 DEF Ranked
<1>8. Ranked(next[first], C \ {first}, moved, rank)
  BY <1>1, <1>2, <1>5, <1>6, <1>7 DEF Ranked
<1> QED BY <1>8 DEF IsChain

LEMMA ChainRest ==
  ASSUME Table!HashTableAssumption, NEW first, NEW C, NEW next,
         IsChain(first, C, next), first # Null
  PROVE  IsChain(next[first], C \ {first}, next)
BY ChainPop

(* What is left when the node behind p is taken out. *)
LEMMA ChainCut ==
  ASSUME Table!HashTableAssumption, NEW first, NEW C, NEW next, NEW moved,
         IsChain(first, C, next), NEW p \in C, NEW n, n = next[p], n # Null,
         moved[p] = next[n], \A m \in C \ {n, p} : moved[m] = next[m]
  PROVE  IsChain(first, C \ {n}, moved)
<1>1. PICK rank \in [Nodes -> Nat] : Ranked(first, C, next, rank)
  BY DEF IsChain
<1>2. /\ C \subseteq Nodes /\ n \in C /\ Null \notin Nodes
      /\ rank[n] \in Nat /\ rank[p] = rank[n] + 1
      /\ \A m \in C : rank[m] \in Nat
  <2>1. C \subseteq Nodes /\ rank[p] \in Nat
    BY <1>1 DEF Ranked
  <2>2. rank[p] # 0 /\ n \in C /\ rank[n] = rank[p] - 1
    BY <1>1 DEF Ranked
  <2> QED BY <2>1, <2>2 DEF Table!HashTableAssumption
<1>3. PICK r : r = [m \in Nodes |-> IF rank[m] > rank[n] THEN rank[m] - 1 ELSE rank[m]]
  OBVIOUS
<1>4. r \in [Nodes -> Nat]
  BY <1>2, <1>3
<1>5. \A m \in C \ {n} : /\ r[m] \in Nat
                         /\ rank[m] > rank[n] => r[m] = rank[m] - 1
                         /\ rank[m] < rank[n] => r[m] = rank[m]
                         /\ rank[m] # rank[n]
  BY <1>1, <1>2, <1>3 DEF Ranked
<1>6. /\ first \in C \ {n} /\ first # Null /\ \A m \in C : rank[m] <= rank[first]
      /\ rank[first] > rank[n]
  <2>1. first # Null /\ first \in C /\ \A m \in C : rank[m] <= rank[first]
    BY <1>1 DEF Ranked
  <2> QED BY <1>2, <2>1
<1>7. ASSUME NEW m \in C \ {n}
      PROVE  r[m] <= r[first]
  BY <1>2, <1>5, <1>6
<1>8. ASSUME NEW m \in C \ {n}
      PROVE  /\ r[m] = 0 => moved[m] = Null
             /\ r[m] # 0 => moved[m] \in C \ {n} /\ r[moved[m]] = r[m] - 1
  <2>1. CASE m = p
    <3>1. r[p] = rank[n] /\ p # n
      BY <1>2, <1>5, <2>1
    <3>2. CASE rank[n] = 0
      BY <1>1, <1>2, <2>1, <3>1, <3>2 DEF Ranked
    <3>3. CASE rank[n] # 0
      <4>1. next[n] \in C /\ rank[next[n]] = rank[n] - 1
        BY <1>1, <1>2, <3>3 DEF Ranked
      <4>2. next[n] \in C \ {n} /\ rank[next[n]] < rank[n]
        BY <1>2, <4>1
      <4>3. r[next[n]] = rank[n] - 1
        BY <1>5, <4>1, <4>2
      <4> QED BY <2>1, <3>1, <3>3, <4>2, <4>3
    <3> QED BY <3>2, <3>3
  <2>2. CASE m # p
    <3>1. moved[m] = next[m]
      BY <2>2
    <3>2. CASE rank[m] = 0
      BY <1>1, <1>2, <1>5, <3>1, <3>2 DEF Ranked
    <3>3. CASE rank[m] # 0
      <4>1. next[m] \in C /\ rank[next[m]] = rank[m] - 1
        BY <1>1, <3>3 DEF Ranked
      <4>2. rank[m] # rank[n] + 1
        BY <1>1, <1>2, <2>2 DEF Ranked
      <4>3. next[m] \in C \ {n}
        BY <1>2, <4>1, <4>2
      <4>4. r[m] # 0 /\ r[next[m]] = r[m] - 1
        <5> DEFINE a == rank[m]  b == rank[next[m]]  c == rank[n]
        <5>1. /\ a \in Nat /\ b \in Nat /\ c \in Nat /\ a # 0 /\ b = a - 1
              /\ a # c /\ b # c /\ a # c + 1
          BY <1>2, <1>5, <3>3, <4>1, <4>2, <4>3
        <5>2. /\ r[m] = IF a > c THEN a - 1 ELSE a
              /\ r[next[m]] = IF b > c THEN b - 1 ELSE b
          BY <1>2, <1>3, <4>3
        <5> HIDE DEF a, b, c
        <5> QED BY <5>1, <5>2
      <4> QED BY <3>1, <4>3, <4>4
    <3> QED BY <3>2, <3>3
  <2> QED BY <2>1, <2>2
<1>9. ASSUME NEW m \in C \ {n}, NEW k \in C \ {n}, r[m] = r[k]
      PROVE  m = k
  <2>1. rank[m] = rank[k]
    BY <1>2, <1>5, <1>9
  <2> QED BY <1>1, <2>1 DEF Ranked
<1>10. Ranked(first, C \ {n}, moved, r)
  BY <1>2, <1>6, <1>7, <1>8, <1>9 DEF Ranked
<1> QED BY <1>4, <1>10 DEF IsChain

-----------------------------------------------------------------------------
(* All chains of all tables: mt are the buckets, hn the links, ow the      *)
(* owners.  While the table ct is cleared, the chain of its bucket ci - 1  *)
(* begins at cn.                                                           *)
Cell(ow, t, b) == {n \in Nodes : ow[n] = t /\ Table!Bucket(t, NodeKey[n]) = b}

Root(mt, ct, ci, cn, t, b) == IF ct = t /\ b = ci - 1 THEN cn ELSE mt[t][b]

Chained(mt, hn, ow, ct, ci, cn) ==
  \A t \in Tables : \A b \in Table!Buckets(t) :
    IsChain(Root(mt, ct, ci, cn, t, b), Cell(ow, t, b), hn)

BitsTyped == bits \in [Tables -> {0} \union 1..HashBits - 1]

LinksTyped(mt, hn, ow) ==
  /\ mt = [t \in Tables |-> mt[t]]
  /\ \A t \in Tables : mt[t] \in [Table!Buckets(t) -> Nodes \union {Null}]
  /\ hn \in [Nodes -> Nodes \union {Null}]
  /\ ow \in [Nodes -> Tables \union {Null}]
  /\ \A n \in Nodes : ow[n] \in Tables => bits[ow[n]] # 0

(* A table with storage has the bucket of every node. *)
LEMMA BucketIsThere ==
  ASSUME Table!HashTableAssumption, BitsTyped, NEW t \in Tables, bits[t] # 0, NEW n \in Nodes
  PROVE  Table!Bucket(t, NodeKey[n]) \in Table!Buckets(t)
<1>1. bits[t] \in 1..HashBits - 1
  BY DEF BitsTyped
<1> QED BY <1>1 DEF Table!HashTableAssumption, Table!Bucket, Table!Buckets

(* A node is in the cell of its bucket and in no other. *)
LEMMA CellFacts ==
  ASSUME Table!HashTableAssumption, BitsTyped, NEW mt, NEW hn, NEW ow, LinksTyped(mt, hn, ow),
         NEW n \in Nodes, NEW t \in Tables, NEW b \in Table!Buckets(t)
  PROVE  /\ ow[n] = Null => n \notin Cell(ow, t, b)
         /\ \A u \in Tables : \A c \in Table!Buckets(u) :
              n \in Cell(ow, t, b) /\ n \in Cell(ow, u, c) => t = u /\ b = c
         /\ ow[n] = t => Table!Bucket(t, NodeKey[n]) \in Table!Buckets(t)
<1>1. ow[n] = Null => n \notin Cell(ow, t, b)
  BY DEF Table!HashTableAssumption, Cell
<1>2. \A u \in Tables : \A c \in Table!Buckets(u) :
        n \in Cell(ow, t, b) /\ n \in Cell(ow, u, c) => t = u /\ b = c
  BY DEF Cell
<1>3. ow[n] = t => Table!Bucket(t, NodeKey[n]) \in Table!Buckets(t)
  BY BucketIsThere DEF LinksTyped
<1> QED BY <1>1, <1>2, <1>3

(* The three ways in which links and owners change. *)
Pushing(mt, hn, d, n) == Table!Pushed(<<mt, hn>>, d, n)
Deleting(mt, hn, d, n) == Table!Deleted(<<mt, hn>>, d, n)
Unlinking(mt, hn, t, before, n) == Table!Unlinked(<<mt, hn>>, t, before, n)

(* A node that is in no chain is pushed onto one. *)
LEMMA PushChained ==
  ASSUME Table!HashTableAssumption, BitsTyped, NEW mt, NEW hn, NEW ow, NEW ct, NEW ci, NEW cn,
         LinksTyped(mt, hn, ow), Chained(mt, hn, ow, ct, ci, cn),
         NEW d \in Tables, d # ct, bits[d] # 0, NEW n \in Nodes, ow[n] = Null,
         NEW H, H = Pushing(mt, hn, d, n)
  PROVE  /\ LinksTyped(H[1], H[2], Changed(ow, n, d))
         /\ Chained(H[1], H[2], Changed(ow, n, d), ct, ci, cn)
<1> DEFINE e == Table!Bucket(d, NodeKey[n])
           mt2 == H[1]
           hn2 == H[2]
           ow2 == Changed(ow, n, d)
<1>1. e \in Table!Buckets(d)
  BY BucketIsThere
<1>2. mt2 = [mt EXCEPT ![d][e] = n] /\ hn2 = [hn EXCEPT ![n] = mt[d][e]]
  BY DEF Pushing, Table!Pushed
<1>owner. ow2 = [ow EXCEPT ![n] = d]
  BY DEF Changed
<1> HIDE DEF e, mt2, hn2, ow2
<1>3. /\ mt2[d][e] = n /\ hn2[n] = mt[d][e]
      /\ \A m \in Nodes \ {n} : hn2[m] = hn[m] /\ ow2[m] = ow[m]
      /\ \A t \in Tables : \A b \in Table!Buckets(t) :
           <<t, b>> # <<d, e>> => mt2[t][b] = mt[t][b]
  BY <1>1, <1>2, <1>owner DEF LinksTyped
<1>4. LinksTyped(mt2, hn2, ow2)
  <2>1. mt2 = [t \in Tables |-> mt2[t]]
    BY <1>2 DEF LinksTyped
  <2>2. ASSUME NEW t \in Tables
        PROVE  mt2[t] \in [Table!Buckets(t) -> Nodes \union {Null}]
    BY <1>1, <1>2 DEF LinksTyped
  <2>3. hn2 \in [Nodes -> Nodes \union {Null}]
    <3>1. mt[d][e] \in Nodes \union {Null}
      BY <1>1 DEF LinksTyped
    <3> QED BY <1>2, <3>1 DEF LinksTyped
  <2>4. ow2 \in [Nodes -> Tables \union {Null}] /\ \A m \in Nodes : ow2[m] \in Tables => bits[ow2[m]] # 0
    BY <1>owner DEF LinksTyped
  <2> QED BY <2>1, <2>2, <2>3, <2>4 DEF LinksTyped
<1>5. ASSUME NEW t \in Tables, NEW b \in Table!Buckets(t)
      PROVE  IsChain(Root(mt2, ct, ci, cn, t, b), Cell(ow2, t, b), hn2)
  <2>1. n \notin Cell(ow, t, b) /\ Cell(ow, t, b) \subseteq Nodes
    BY CellFacts DEF Cell
  <2>2. IsChain(Root(mt, ct, ci, cn, t, b), Cell(ow, t, b), hn)
    BY DEF Chained
  <2>3. \A m \in Cell(ow, t, b) : hn2[m] = hn[m]
    BY <1>3, <2>1
  <2>4. CASE <<t, b>> = <<d, e>>
    <3>1. Cell(ow2, t, b) = Cell(ow, t, b) \union {n}
      BY <1>owner, <2>1, <2>4 DEF Cell, e, LinksTyped
    <3>2. Root(mt, ct, ci, cn, t, b) = hn2[n] /\ Root(mt2, ct, ci, cn, t, b) = n
      BY <1>3, <2>4 DEF Root
    <3>3. IsChain(hn2[n], Cell(ow, t, b), hn) /\ n \in Nodes \ Cell(ow, t, b)
      BY <2>1, <2>2, <3>2
    <3>4. IsChain(n, Cell(ow, t, b) \union {n}, hn2)
      BY <2>3, <3>3, ChainPush
    <3> QED BY <3>1, <3>2, <3>4
  <2>5. CASE <<t, b>> # <<d, e>>
    <3>1. Cell(ow2, t, b) = Cell(ow, t, b)
      BY <1>owner, <2>1, <2>5 DEF Cell, e, LinksTyped
    <3>2. Root(mt2, ct, ci, cn, t, b) = Root(mt, ct, ci, cn, t, b)
      BY <1>3, <2>5 DEF Root
    <3> QED BY <2>2, <2>3, <3>1, <3>2, ChainStays
  <2> QED BY <2>4, <2>5
<1>6. LinksTyped(mt2, hn2, ow2) /\ Chained(mt2, hn2, ow2, ct, ci, cn)
  BY <1>4, <1>5 DEF Chained
<1> QED BY <1>6 DEF mt2, hn2, ow2

(* A node that is in no chain goes where the deleter takes it. *)
LEMMA DeletedChained ==
  ASSUME Table!HashTableAssumption, BitsTyped, NEW mt, NEW hn, NEW ow, NEW ct, NEW ci, NEW cn,
         LinksTyped(mt, hn, ow), Chained(mt, hn, ow, ct, ci, cn),
         NEW d \in {"none", "delete"} \union Tables, d \in Tables => d # ct, Table!Usable(d),
         NEW n \in Nodes, ow[n] = Null,
         NEW H, H = Deleting(mt, hn, d, n)
  PROVE  /\ LinksTyped(H[1], H[2], Changed(ow, n, Table!NewOwner(d)))
         /\ Chained(H[1], H[2], Changed(ow, n, Table!NewOwner(d)), ct, ci, cn)
<1>1. CASE d \in Tables
  <2>1. d \notin {"none", "delete"}
    BY <1>1 DEF Table!HashTableAssumption
  <2>2. H = Pushing(mt, hn, d, n)
    BY <1>1, <2>1 DEF Deleting, Pushing, Table!Deleted
  <2>3. bits[d] # 0 /\ Table!NewOwner(d) = d
    BY <1>1 DEF Table!Usable, Table!Allocated, Table!NewOwner
  <2> QED BY <1>1, <2>2, <2>3, PushChained
<1>2. CASE d \notin Tables
  <2>1. H[1] = mt /\ (H[2] = hn \/ H[2] = [hn EXCEPT ![n] = Null])
    BY <1>2 DEF Deleting, Table!Deleted
  <2>2. Changed(ow, n, Table!NewOwner(d)) = ow
    BY <1>2 DEF Table!NewOwner, LinksTyped, Changed
  <2>3. LinksTyped(H[1], H[2], ow)
    BY <2>1 DEF LinksTyped
  <2>4. ASSUME NEW t \in Tables, NEW b \in Table!Buckets(t)
        PROVE  IsChain(Root(H[1], ct, ci, cn, t, b), Cell(ow, t, b), H[2])
    <3>1. n \notin Cell(ow, t, b) /\ Cell(ow, t, b) \subseteq Nodes
      BY CellFacts DEF Cell
    <3>2. \A m \in Cell(ow, t, b) : H[2][m] = hn[m]
      BY <2>1, <3>1 DEF LinksTyped
    <3>3. IsChain(Root(mt, ct, ci, cn, t, b), Cell(ow, t, b), hn)
      BY DEF Chained
    <3> QED BY <2>1, <3>2, <3>3, ChainStays
  <2> QED BY <2>2, <2>3, <2>4 DEF Chained
<1> QED BY <1>1, <1>2

(* A node is taken out of its chain by its place in it. *)
InPlace(mt, hn, ow, t, b, before, n) ==
  /\ n \in Cell(ow, t, b)
  /\ before = Null => mt[t][b] = n
  /\ before # Null => before \in Cell(ow, t, b) /\ hn[before] = n

LEMMA UnlinkChained ==
  ASSUME Table!HashTableAssumption, BitsTyped, NEW mt, NEW hn, NEW ow, NEW ct, NEW ci, NEW cn,
         LinksTyped(mt, hn, ow), Chained(mt, hn, ow, ct, ci, cn),
         NEW t \in Tables, t # ct, NEW b \in Table!Buckets(t), NEW n, NEW before,
         InPlace(mt, hn, ow, t, b, before, n),
         NEW H, H = Unlinking(mt, hn, t, before, n)
  PROVE  /\ LinksTyped(H[1], H[2], Changed(ow, n, Null))
         /\ Chained(H[1], H[2], Changed(ow, n, Null), ct, ci, cn)
         /\ before = Null => H[1][t][b] = hn[n] /\ H[2] = hn
         /\ before # Null => /\ H[1] = mt /\ H[2] = Changed(hn, before, hn[n])
                             /\ before # n
<1> DEFINE mt2 == H[1]
           hn2 == H[2]
           ow2 == Changed(ow, n, Null)
<1>1. n \in Nodes /\ ow[n] = t /\ Table!Bucket(t, NodeKey[n]) = b /\ n # Null
  BY DEF InPlace, Cell, Table!HashTableAssumption
<1>2. before = Null => mt2 = [mt EXCEPT ![t][b] = hn[n]] /\ hn2 = hn
  BY <1>1 DEF Unlinking, Table!Unlinked
<1>3. before # Null => mt2 = mt /\ hn2 = [hn EXCEPT ![before] = hn[n]]
  BY DEF Unlinking, Table!Unlinked
<1>owner. ow2 = [ow EXCEPT ![n] = Null]
  BY DEF Changed
<1> HIDE DEF mt2, hn2, ow2
<1>4. hn[n] \in Nodes \union {Null}
  BY <1>1 DEF LinksTyped
<1>5. /\ \A m \in Nodes \ {before} : hn2[m] = hn[m]
      /\ \A m \in Nodes \ {n} : ow2[m] = ow[m]
      /\ \A u \in Tables : \A c \in Table!Buckets(u) :
           <<u, c>> # <<t, b>> => mt2[u][c] = mt[u][c]
  <2>1. \A m \in Nodes \ {before} : hn2[m] = hn[m]
    BY <1>2, <1>3 DEF LinksTyped
  <2>2. \A m \in Nodes \ {n} : ow2[m] = ow[m]
    BY <1>owner DEF LinksTyped
  <2>3. \A u \in Tables : \A c \in Table!Buckets(u) :
          <<u, c>> # <<t, b>> => mt2[u][c] = mt[u][c]
    <3>1. CASE before = Null
      <4>1. mt2 = [mt EXCEPT ![t][b] = hn[n]]
        BY <1>2, <3>1
      <4> QED BY <4>1 DEF LinksTyped
    <3>2. CASE before # Null
      BY <1>3, <3>2
    <3> QED BY <3>1, <3>2
  <2> QED BY <2>1, <2>2, <2>3
<1>6. ow2[n] = Null
  BY <1>1, <1>owner DEF LinksTyped
<1>7. LinksTyped(mt2, hn2, ow2)
  <2>1. mt2 = [u \in Tables |-> mt2[u]]
    BY <1>2, <1>3 DEF LinksTyped
  <2>2. ASSUME NEW u \in Tables
        PROVE  mt2[u] \in [Table!Buckets(u) -> Nodes \union {Null}]
    BY <1>2, <1>3, <1>4 DEF LinksTyped
  <2>3. hn2 \in [Nodes -> Nodes \union {Null}]
    BY <1>2, <1>3, <1>4 DEF LinksTyped
  <2>4. ow2 \in [Nodes -> Tables \union {Null}]
    BY <1>owner DEF LinksTyped
  <2>5. \A m \in Nodes : ow2[m] \in Tables => bits[ow2[m]] # 0
    <3>1. Null \notin Tables
      BY DEF Table!HashTableAssumption
    <3> QED BY <1>5, <1>6, <3>1 DEF LinksTyped
  <2> QED BY <2>1, <2>2, <2>3, <2>4, <2>5 DEF LinksTyped
<1>8. Root(mt, ct, ci, cn, t, b) = mt[t][b] /\ Root(mt2, ct, ci, cn, t, b) = mt2[t][b]
  BY DEF Root
<1>9. IsChain(mt[t][b], Cell(ow, t, b), hn)
  BY <1>8 DEF Chained
<1>10. Cell(ow2, t, b) = Cell(ow, t, b) \ {n}
  <2>1. Null # t
    BY DEF Table!HashTableAssumption
  <2> QED BY <1>5, <1>6, <2>1 DEF Cell
<1>11. before # Null => before # n
  BY <1>1, <1>9, ChainFacts DEF InPlace
<1>12. ASSUME NEW u \in Tables, NEW c \in Table!Buckets(u)
       PROVE  IsChain(Root(mt2, ct, ci, cn, u, c), Cell(ow2, u, c), hn2)
  <2>1. CASE <<u, c>> = <<t, b>>
    <3>1. CASE before = Null
      <4>1. mt[t][b] = n /\ mt2[t][b] = hn[n] /\ hn2 = hn
        BY <1>2, <3>1 DEF InPlace, LinksTyped
      <4>2. IsChain(hn[n], Cell(ow, t, b) \ {n}, hn2)
        BY <1>1, <1>9, <4>1, ChainPop
      <4> QED BY <1>8, <1>10, <2>1, <4>1, <4>2
    <3>2. CASE before # Null
      <4>1. /\ mt2[t][b] = mt[t][b] /\ before \in Cell(ow, t, b) /\ hn[before] = n
            /\ hn2[before] = hn[n]
        BY <1>3, <3>2 DEF InPlace, LinksTyped, Cell
      <4>2. \A m \in Cell(ow, t, b) \ {n, before} : hn2[m] = hn[m]
        BY <1>5 DEF Cell
      <4>3. IsChain(mt[t][b], Cell(ow, t, b) \ {n}, hn2)
        BY <1>1, <1>9, <4>1, <4>2, ChainCut
      <4> QED BY <1>8, <1>10, <2>1, <4>1, <4>3
    <3> QED BY <3>1, <3>2
  <2>2. CASE <<u, c>> # <<t, b>>
    <3>1. n \notin Cell(ow, u, c)
      BY <1>1, <2>2, CellFacts DEF InPlace
    <3>2. Cell(ow2, u, c) = Cell(ow, u, c)
      <4>1. Null # u
        BY DEF Table!HashTableAssumption
      <4> QED BY <1>5, <1>6, <3>1, <4>1 DEF Cell
    <3>3. before # Null => before \notin Cell(ow, u, c)
      BY <2>2, CellFacts DEF InPlace, Cell
    <3>4. \A m \in Cell(ow, u, c) : hn2[m] = hn[m]
      <4>1. Null \notin Nodes
        BY DEF Table!HashTableAssumption
      <4> QED BY <1>5, <3>3, <4>1 DEF Cell
    <3>5. Root(mt2, ct, ci, cn, u, c) = Root(mt, ct, ci, cn, u, c)
      BY <1>5, <2>2 DEF Root
    <3>6. IsChain(Root(mt, ct, ci, cn, u, c), Cell(ow, u, c), hn)
      BY DEF Chained
    <3> QED BY <3>2, <3>4, <3>5, <3>6, ChainStays
  <2> QED BY <2>1, <2>2
<1>13. before = Null => mt2[t][b] = hn[n]
  BY <1>2 DEF LinksTyped
<1>14. /\ LinksTyped(mt2, hn2, ow2) /\ Chained(mt2, hn2, ow2, ct, ci, cn)
       /\ before = Null => mt2[t][b] = hn[n] /\ hn2 = hn
       /\ before # Null => /\ mt2 = mt /\ hn2 = Changed(hn, before, hn[n])
                           /\ before # n
  BY <1>2, <1>3, <1>7, <1>11, <1>12, <1>13 DEF Chained, Changed
<1> QED BY <1>14 DEF mt2, hn2, ow2


-----------------------------------------------------------------------------
(* A walk from the first node comes to each node of its chain once, in the *)
(* order of the ranks.                                                     *)

(* The ranks of a chain leave no number out. *)
LEMMA RanksAreAll ==
  ASSUME NEW first, NEW C, NEW next, NEW rank \in [Nodes -> Nat],
         Ranked(first, C, next, rank), first # Null
  PROVE  \A r \in 0..rank[first] : \E n \in C : rank[n] = r
<1>1. first \in C /\ C \subseteq Nodes /\ rank[first] \in Nat
  BY DEF Ranked
<1> DEFINE missing == {d \in Nat : d <= rank[first] /\ \A n \in C : rank[n] # rank[first] - d}
<1>2. SUFFICES ASSUME NEW r \in 0..rank[first], \A n \in C : rank[n] # r
               PROVE  FALSE
  OBVIOUS
<1>3. rank[first] - r \in missing
  BY <1>1, <1>2
<1>4. PICK d \in missing : \A e \in missing : d <= e
  BY <1>3, LeastNatural
<1>5. d # 0
  BY <1>1, <1>4
<1>6. d - 1 \notin missing /\ d - 1 \in Nat /\ d - 1 <= rank[first]
  BY <1>1, <1>4, <1>5
<1>7. PICK n \in C : rank[n] = rank[first] - (d - 1)
  BY <1>6
<1>8. rank[n] # 0 /\ rank[n] \in Nat
  BY <1>1, <1>4, <1>7
<1>9. next[n] \in C /\ rank[next[n]] = rank[first] - d
  BY <1>1, <1>4, <1>7, <1>8 DEF Ranked
<1> QED BY <1>4, <1>9

(* The links are followed from first on. *)
Follows(first, next, node) ==
  node = [i \in Nat |-> IF i = 0 THEN first
                        ELSE IF node[i - 1] = Null THEN Null
                        ELSE next[node[i - 1]]]

(* There is one way to follow the links. *)
LEMMA FollowsOneWay ==
  ASSUME NEW first, NEW next, NEW f, NEW g, Follows(first, next, f), Follows(first, next, g)
  PROVE  f = g
<1>1. /\ f = [i \in Nat |-> f[i]] /\ f[0] = first
      /\ \A i \in Nat : i # 0 => f[i] = IF f[i - 1] = Null THEN Null ELSE next[f[i - 1]]
  BY Zenon DEF Follows
<1>2. /\ g = [i \in Nat |-> g[i]] /\ g[0] = first
      /\ \A i \in Nat : i # 0 => g[i] = IF g[i - 1] = Null THEN Null ELSE next[g[i - 1]]
  BY Zenon DEF Follows
<1>3. \A i \in Nat : f[i] = g[i]
  <2> DEFINE differ == {i \in Nat : f[i] # g[i]}
  <2>1. SUFFICES ASSUME differ # {} PROVE FALSE
    OBVIOUS
  <2>2. PICK i \in differ : \A j \in differ : i <= j
    BY <2>1, LeastNatural
  <2>3. i # 0 /\ i - 1 \in Nat /\ i - 1 \notin differ
    BY <1>1, <1>2, <2>2
  <2>4. f[i - 1] = g[i - 1]
    BY <2>3
  <2> QED BY <1>1, <1>2, <2>2, <2>3, <2>4
<1> QED BY <1>1, <1>2, <1>3

(* Who follows the links of a chain comes to its nodes in the order of     *)
(* their ranks, and then to Null.                                          *)
Passes(g, first, C, rank) ==
  /\ g[0] = first
  /\ \A i \in Nat : g[i] = Null <=> i >= Cardinality(C)
  /\ \A i \in Nat : i < Cardinality(C) => g[i] \in C /\ rank[g[i]] = Cardinality(C) - 1 - i
  /\ \A n \in C : /\ rank[n] \in 0..Cardinality(C) - 1
                  /\ g[Cardinality(C) - 1 - rank[n]] = n

LEMMA ChainIsFollowed ==
  ASSUME Table!HashTableAssumption, NEW first, NEW C, NEW next, NEW rank \in [Nodes -> Nat],
         Ranked(first, C, next, rank)
  PROVE  /\ Cardinality(C) \in Nat /\ Cardinality(C) <= Cardinality(Nodes)
         /\ Cardinality(Nodes) \in Nat
         /\ \E g : Follows(first, next, g) /\ Passes(g, first, C, rank)
<1> DEFINE N == Cardinality(C)
<1>1. IsFiniteSet(Nodes) /\ Null \notin Nodes
  BY DEF Table!HashTableAssumption, Table!IsFiniteSet, IsFiniteSet
<1>2. C \subseteq Nodes
  BY DEF Ranked
<1>3. IsFiniteSet(C) /\ N \in Nat /\ Cardinality(Nodes) \in Nat /\ N <= Cardinality(Nodes)
  BY <1>1, <1>2, FS_Subset, FS_CardinalityType
<1>4. N = 0 => C = {} /\ first = Null
  BY <1>3, FS_EmptySet DEF Ranked
<1>5. first # Null => /\ rank[first] \in Nat /\ N = rank[first] + 1
                      /\ \A n \in C : rank[n] \in 0..rank[first]
  <2> SUFFICES ASSUME first # Null
               PROVE  /\ rank[first] \in Nat /\ N = rank[first] + 1
                      /\ \A n \in C : rank[n] \in 0..rank[first]
    OBVIOUS
  <2> DEFINE highest == rank[first]
             f == [n \in C |-> rank[n]]
  <2>1. first \in C /\ highest \in Nat /\ \A n \in C : rank[n] \in 0..highest
    BY <1>2 DEF Ranked
  <2>2. \A r \in 0..highest : \E n \in C : rank[n] = r
    BY RanksAreAll
  <2>3. f \in [C -> 0..highest] /\ \A r \in 0..highest : \E n \in C : f[n] = r
    BY <2>1, <2>2
  <2>4. \A m, n \in C : f[m] = f[n] => m = n
    BY DEF Ranked
  <2>5. Cardinality(0..highest) = highest + 1 /\ IsFiniteSet(0..highest)
    BY <2>1, FS_Interval
  <2> HIDE DEF highest, f
  <2>6. f \in Surjection(C, 0..highest) /\ f \in Injection(C, 0..highest)
    BY <2>3, <2>4 DEF Surjection, Injection, IsInjective
  <2>7. Cardinality(0..highest) = N
    BY <1>3, <2>6, FS_Surjection
  <2> QED BY <2>1, <2>5, <2>7 DEF highest
<1>ranks. \A n \in C : rank[n] \in 0..N - 1
  BY <1>5 DEF Ranked
<1>6. \A r \in 0..N - 1 : \E n \in C : rank[n] = r
  <2>1. SUFFICES ASSUME NEW r \in 0..N - 1 PROVE \E n \in C : rank[n] = r
    OBVIOUS
  <2>2. C # {}
    BY <1>3, FS_EmptySet
  <2>3. first # Null
    BY <2>2 DEF Ranked
  <2> QED BY <1>5, <2>3, RanksAreAll
<1> DEFINE nodeAt(r) == CHOOSE n \in C : rank[n] = r
           g == [i \in Nat |-> IF i < N THEN nodeAt(N - 1 - i) ELSE Null]
<1>7. \A r \in 0..N - 1 : nodeAt(r) \in C /\ rank[nodeAt(r)] = r
  BY <1>6
<1>8. \A n \in C : nodeAt(rank[n]) = n
  BY <1>ranks, <1>7 DEF Ranked
<1> HIDE DEF N, nodeAt
<1>9. g[0] = first
  <2>1. CASE first = Null
    <3>1. C = {}
      BY <2>1 DEF Ranked
    <3>2. N = 0
      BY <3>1, FS_EmptySet DEF N
    <3> QED BY <2>1, <3>2
  <2>2. CASE first # Null
    <3>1. first \in C /\ \A n \in C : rank[n] <= rank[first]
      BY <2>2 DEF Ranked
    <3>2. rank[first] \in 0..N - 1
      BY <1>ranks, <3>1
    <3>3. PICK n \in C : rank[n] = N - 1
      BY <1>3, <1>6, <3>2
    <3>4. rank[first] = N - 1 /\ N > 0
      BY <1>3, <3>1, <3>2, <3>3
    <3> QED BY <1>3, <1>8, <3>1, <3>4
  <2> QED BY <2>1, <2>2
<1>10. ASSUME NEW i \in Nat, i # 0
       PROVE  g[i] = IF g[i - 1] = Null THEN Null ELSE next[g[i - 1]]
  <2>1. CASE i - 1 < N
    <3>1. i - 1 \in Nat /\ N - i \in 0..N - 1 /\ N - 1 - (i - 1) = N - i
      BY <1>3, <1>10, <2>1
    <3>2. g[i - 1] = nodeAt(N - i)
      BY <2>1, <3>1
    <3>3. g[i - 1] \in C /\ rank[g[i - 1]] = N - i
      BY <1>7, <3>1, <3>2
    <3>4. g[i - 1] # Null
      BY <1>1, <1>2, <3>3
    <3>5. CASE i = N
      <4>1. next[g[i - 1]] = Null
        BY <1>3, <3>3, <3>5 DEF Ranked
      <4>2. g[i] = Null
        BY <1>3, <3>5
      <4> QED BY <3>4, <4>1, <4>2
    <3>6. CASE i # N
      <4>1. i < N /\ N - 1 - i \in 0..N - 1 /\ N - i # 0 /\ N - i - 1 = N - 1 - i
        BY <1>3, <3>1, <3>6
      <4>2. next[g[i - 1]] \in C /\ rank[next[g[i - 1]]] = N - 1 - i
        BY <3>3, <4>1 DEF Ranked
      <4>3. g[i] = nodeAt(N - 1 - i)
        BY <4>1
      <4> QED BY <1>8, <3>4, <4>2, <4>3
    <3> QED BY <3>5, <3>6
  <2>2. CASE ~(i - 1 < N)
    BY <1>3, <1>10, <2>2
  <2> QED BY <2>1, <2>2
<1>11. Follows(first, next, g)
  <2>1. \A i \in Nat : g[i] = IF i = 0 THEN first ELSE IF g[i - 1] = Null THEN Null
                              ELSE next[g[i - 1]]
    BY <1>9, <1>10
  <2>2. g = [i \in Nat |-> g[i]]
    OBVIOUS
  <2> HIDE DEF g
  <2> QED BY <2>1, <2>2 DEF Follows
<1>12. \A i \in Nat : g[i] = Null <=> i >= N
  <2>1. \A i \in Nat : i < N => N - 1 - i \in 0..N - 1
    BY <1>3
  <2> QED BY <1>1, <1>2, <1>3, <1>7, <2>1
<1>13. \A i \in Nat : i < N => g[i] \in C /\ rank[g[i]] = N - 1 - i
  <2>1. \A i \in Nat : i < N => g[i] = nodeAt(N - 1 - i) /\ N - 1 - i \in 0..N - 1
    BY <1>3
  <2> HIDE DEF g
  <2> QED BY <1>7, <2>1
<1>14. ASSUME NEW n \in C PROVE g[N - 1 - rank[n]] = n
  <2>1. N - 1 - rank[n] \in Nat /\ N - 1 - rank[n] < N /\ N - 1 - (N - 1 - rank[n]) = rank[n]
    BY <1>3, <1>ranks
  <2> QED BY <1>8, <2>1
<1> HIDE DEF g
<1>15. Passes(g, first, C, rank)
  BY <1>ranks, <1>9, <1>12, <1>13, <1>14 DEF Passes, N
<1> QED BY <1>3, <1>11, <1>15 DEF N

WalkOf(node) ==
  LET ends == {i \in 0..Table!Cardinality(Nodes) : node[i] = Null}
      length == IF ends = {} THEN Table!Cardinality(Nodes) + 1
                ELSE CHOOSE i \in ends : \A j \in ends : i <= j
  IN [i \in 1..length |-> node[i - 1]]

LEMMA ChainIsWalk ==
  ASSUME NEW first
  PROVE  Table!Chain(first) = WalkOf(CHOOSE node : Follows(first, hash_next, node))
BY Zenon DEF Table!Chain, WalkOf, Follows

LEMMA TableCardinality == \A S : Table!Cardinality(S) = Cardinality(S)
BY DEF Table!Cardinality, Cardinality

(* What the walk from the first node of a chain is. *)
Walks(w, first, C, rank) ==
  /\ w \in [1..Cardinality(C) -> C]
  /\ \A i \in 1..Cardinality(C) : rank[w[i]] = Cardinality(C) - i
  /\ \A n \in C : rank[n] \in 0..Cardinality(C) - 1 /\ w[Cardinality(C) - rank[n]] = n

LEMMA WalkOfChain ==
  ASSUME Table!HashTableAssumption, NEW first, NEW C, NEW rank \in [Nodes -> Nat],
         Ranked(first, C, hash_next, rank)
  PROVE  Cardinality(C) \in Nat /\ Walks(Table!Chain(first), first, C, rank)
<1> DEFINE N == Cardinality(C)
<1>1. /\ N \in Nat /\ Cardinality(Nodes) \in Nat /\ N <= Cardinality(Nodes)
      /\ \E g : Follows(first, hash_next, g) /\ Passes(g, first, C, rank)
  BY ChainIsFollowed
<1>2. PICK g : Follows(first, hash_next, g) /\ Passes(g, first, C, rank)
  BY <1>1
<1> HIDE DEF N
<1>3. /\ \A i \in Nat : g[i] = Null <=> i >= N
      /\ \A i \in Nat : i < N => g[i] \in C /\ rank[g[i]] = N - 1 - i
      /\ \A n \in C : rank[n] \in 0..N - 1 /\ g[N - 1 - rank[n]] = n
  BY <1>2 DEF Passes, N
<1> DEFINE w == Table!Chain(first)
<1>4. w = [i \in 1..N |-> g[i - 1]]
  <2>1. w = WalkOf(g)
    BY <1>2, ChainIsWalk, FollowsOneWay
  <2> DEFINE M == Table!Cardinality(Nodes)
             ends == {i \in 0..M : g[i] = Null}
  <2>2. M \in Nat /\ N <= M
    BY <1>1, TableCardinality
  <2> HIDE DEF M
  <2>3. N \in ends /\ \A j \in ends : N <= j
    BY <1>1, <1>3, <2>2
  <2>4. (CHOOSE i \in ends : \A j \in ends : i <= j) = N /\ ends # {}
    BY <1>1, <2>2, <2>3
  <2>5. WalkOf(g) = [i \in 1..N |-> g[i - 1]]
    BY <2>4 DEF WalkOf, M
  <2> QED BY <2>1, <2>5
<1> HIDE DEF w
<1>5. \A i \in 1..N : i - 1 \in Nat /\ i - 1 < N /\ N - 1 - (i - 1) = N - i
  BY <1>1
<1>6. w \in [1..N -> C] /\ \A i \in 1..N : rank[w[i]] = N - i
  BY <1>3, <1>4, <1>5
<1>7. ASSUME NEW n \in C PROVE w[N - rank[n]] = n
  <2>1. N - rank[n] \in 1..N /\ N - rank[n] - 1 = N - 1 - rank[n]
    BY <1>1, <1>3
  <2> QED BY <1>3, <1>4, <2>1
<1> QED BY <1>1, <1>3, <1>6, <1>7 DEF Walks, w, N

-----------------------------------------------------------------------------
(* What is behind a node of a chain is a chain. *)
Below(C, rank, p) == {n \in C : rank[n] < rank[p]}

LEMMA RankedBehind ==
  ASSUME Table!HashTableAssumption, NEW first, NEW C, NEW next, NEW rank \in [Nodes -> Nat],
         Ranked(first, C, next, rank), NEW p \in C
  PROVE  Ranked(next[p], Below(C, rank, p), next, rank)
<1> DEFINE B == {n \in C : rank[n] < rank[p]}
<1>1. C \subseteq Nodes /\ Null \notin Nodes /\ \A n \in C : rank[n] \in Nat
  BY DEF Ranked, Table!HashTableAssumption
<1>2. next[p] = Null <=> B = {}
  <2>1. CASE rank[p] = 0
    BY <1>1, <2>1 DEF Ranked
  <2>2. CASE rank[p] # 0
    <3>1. next[p] \in C /\ rank[next[p]] = rank[p] - 1
      BY <2>2 DEF Ranked
    <3>2. next[p] \in B
      BY <1>1, <3>1
    <3> QED BY <1>1, <3>2
  <2> QED BY <2>1, <2>2
<1>3. ASSUME next[p] # Null
      PROVE  next[p] \in B /\ \A n \in B : rank[n] <= rank[next[p]]
  <2>1. rank[p] # 0
    BY <1>3 DEF Ranked
  <2>2. next[p] \in C /\ rank[next[p]] = rank[p] - 1
    BY <2>1 DEF Ranked
  <2> QED BY <1>1, <2>2
<1>4. ASSUME NEW n \in B, rank[n] # 0
      PROVE  next[n] \in B /\ rank[next[n]] = rank[n] - 1
  <2>1. next[n] \in C /\ rank[next[n]] = rank[n] - 1
    BY <1>4 DEF Ranked
  <2> QED BY <1>1, <1>4, <2>1
<1>5. \A n \in B : rank[n] = 0 => next[n] = Null
  BY DEF Ranked
<1>6. \A n, m \in B : rank[n] = rank[m] => n = m
  BY DEF Ranked
<1>7. B \subseteq Nodes
  BY <1>1
<1>8. B = Below(C, rank, p)
  BY DEF Below
<1> HIDE DEF B
<1>9. Ranked(next[p], B, next, rank)
  BY <1>2, <1>3, <1>4, <1>5, <1>6, <1>7 DEF Ranked
<1> QED BY <1>8, <1>9

LEMMA ChainSplit ==
  ASSUME Table!HashTableAssumption, NEW first, NEW C, NEW next, IsChain(first, C, next), NEW p \in C
  PROVE  \E B \in SUBSET (C \ {p}) : IsChain(next[p], B, next)
<1>1. PICK rank \in [Nodes -> Nat] : Ranked(first, C, next, rank)
  BY DEF IsChain
<1>2. Ranked(next[p], Below(C, rank, p), next, rank)
  BY <1>1, RankedBehind
<1>3. Below(C, rank, p) \subseteq C \ {p}
  <2>1. C \subseteq Nodes
    BY <1>1 DEF Ranked
  <2> QED BY <2>1 DEF Below
<1> QED BY <1>2, <1>3 DEF IsChain

(* Two nodes of a chain never have the same next node, and none has the    *)
(* first node as the next one.                                             *)
LEMMA ChainInjective ==
  ASSUME Table!HashTableAssumption, NEW first, NEW C, NEW next, IsChain(first, C, next)
  PROVE  /\ \A n, m \in C : next[n] = next[m] /\ next[n] # Null => n = m
         /\ \A n \in C : next[n] # Null => next[n] # first
<1>1. PICK rank \in [Nodes -> Nat] : Ranked(first, C, next, rank)
  BY DEF IsChain
<1>2. C \subseteq Nodes /\ \A n \in C : rank[n] \in Nat
  BY <1>1 DEF Ranked
<1>3. ASSUME NEW n \in C, next[n] # Null
      PROVE  next[n] \in C /\ rank[n] = rank[next[n]] + 1
  BY <1>1, <1>2, <1>3 DEF Ranked
<1>4. \A n \in C : first # Null /\ rank[n] <= rank[first]
  BY <1>1 DEF Ranked
<1>5. \A n \in C : next[n] # Null => next[n] # first
  BY <1>2, <1>3, <1>4
<1>6. \A n, m \in C : next[n] = next[m] /\ next[n] # Null => n = m
  <2>1. ASSUME NEW n \in C, NEW m \in C, next[n] = next[m], next[n] # Null PROVE n = m
    <3>1. rank[n] = rank[m]
      BY <1>3, <2>1
    <3> QED BY <1>1, <3>1 DEF Ranked
  <2> QED BY <2>1
<1> QED BY <1>5, <1>6

(* Every node of a chain but the first is the next one of another. *)
LEMMA ChainPredecessor ==
  ASSUME NEW first, NEW C, NEW next, IsChain(first, C, next), NEW m \in C, m # first
  PROVE  \E k \in C : next[k] = m
<1>1. PICK rank \in [Nodes -> Nat] : Ranked(first, C, next, rank)
  BY DEF IsChain
<1>2. first # Null /\ first \in C /\ C \subseteq Nodes
  BY <1>1 DEF Ranked
<1>3. rank[m] \in Nat /\ rank[first] \in Nat /\ rank[m] <= rank[first] /\ rank[m] # rank[first]
  BY <1>1, <1>2 DEF Ranked
<1>4. rank[m] + 1 \in 0..rank[first] /\ rank[m] + 1 # 0 /\ rank[m] + 1 - 1 = rank[m]
  BY <1>3
<1>5. PICK k \in C : rank[k] = rank[m] + 1
  BY <1>1, <1>2, <1>4, RanksAreAll
<1>6. next[k] \in C /\ rank[next[k]] = rank[m]
  BY <1>1, <1>4, <1>5 DEF Ranked
<1>7. next[k] = m
  BY <1>1, <1>6 DEF Ranked
<1> QED BY <1>7

(* The link to n, behind before or at the front, leads past it. *)
CutOut(first, C, next, moved, before, n) ==
  /\ before = Null => n = first /\ \A m \in C : moved[m] = next[m]
  /\ before # Null => /\ before \in C /\ next[before] = n /\ moved[before] = next[n]
                      /\ \A m \in C \ {before} : moved[m] = next[m]

(* When a node is taken out, what is behind another one loses it too. *)
LEMMA BehindCut ==
  ASSUME Table!HashTableAssumption, NEW first, NEW C, NEW next, NEW moved, IsChain(first, C, next),
         NEW p \in C, NEW B \in SUBSET (C \ {p}), IsChain(next[p], B, next),
         NEW n \in C \ {p}, NEW before, CutOut(first, C, next, moved, before, n)
  PROVE  IsChain(moved[p], B \ {n}, moved)
<1> USE DEF CutOut
<1>1. C \subseteq Nodes /\ Null \notin Nodes /\ n # Null
  BY ChainFacts DEF Table!HashTableAssumption
<1>2. n \in B => before # Null
  <2> SUFFICES ASSUME n \in B, before = Null PROVE FALSE
    OBVIOUS
  <2>1. n = first
    OBVIOUS
  <2>2. next[p] # Null /\ next[p] # first
    BY ChainFacts, ChainInjective
  <2>6. PICK k \in B : next[k] = first
    BY <2>1, <2>2, ChainPredecessor
  <2> QED BY <1>1, <2>1, <2>6, ChainInjective
<1>3. CASE n \notin B
  <2>1. before # Null => before \notin B \union {p}
    <3> SUFFICES ASSUME before # Null, before \in B \union {p} PROVE FALSE
      OBVIOUS
    <3>1. next[before] = n
      OBVIOUS
    <3>2. CASE before \in B
      BY <1>1, <1>3, <3>1, <3>2, ChainFacts
    <3>3. CASE before = p
      BY <1>1, <1>3, <3>1, <3>3, ChainFacts
    <3> QED BY <3>2, <3>3
  <2>2. \A m \in B \union {p} : moved[m] = next[m]
    BY <2>1
  <2>3. IsChain(next[p], B, moved)
    BY <2>2, ChainStays
  <2> QED BY <1>3, <2>2, <2>3
<1>4. CASE n \in B
  <2>1. before # Null /\ before \in C /\ next[before] = n /\ moved[before] = next[n]
        /\ \A m \in C \ {before} : moved[m] = next[m]
    BY <1>2, <1>4
  <2>2. CASE before = p
    <3>1. IsChain(next[n], B \ {n}, moved)
      <4>1. next[p] = n /\ n # Null
        BY <1>1, <2>1, <2>2
      <4>2. \A m \in B \ {n} : moved[m] = next[m]
        BY <2>1, <2>2
      <4> QED BY <4>1, <4>2, ChainPop
    <3> QED BY <2>1, <2>2, <3>1
  <2>3. CASE before # p
    <3>1. moved[p] = next[p]
      BY <2>1, <2>3
    <3>2. n # next[p]
      BY <1>1, <2>1, <2>3, ChainInjective
    <3>3. before \in B
      <4>1. PICK k \in B : next[k] = n
        BY <1>4, <3>2, ChainPredecessor
      <4> QED BY <1>1, <2>1, <4>1, ChainInjective
    <3>4. \A m \in B \ {n, before} : moved[m] = next[m]
      BY <2>1
    <3>5. IsChain(next[p], B \ {n}, moved)
      BY <1>1, <2>1, <3>3, <3>4, ChainCut
    <3> QED BY <3>1, <3>5
  <2> QED BY <2>2, <2>3
<1> QED BY <1>3, <1>4

-----------------------------------------------------------------------------
(* The iterator: what it has yet to come to is the rest of the chain it is *)
(* in and all buckets from m_next_index_ on.                               *)
Later(it, ow) ==
  {n \in Nodes : ow[n] = it.table /\ Table!Bucket(it.table, NodeKey[n]) >= it.next_index}

IterAt(it, ex, vi, hn, ow) ==
  it.table # Null =>
    \E B \in SUBSET Nodes :
      /\ it.node = Null => B = {}
      /\ it.node # Null =>
           /\ it.next_index - 1 \in Table!Buckets(it.table)
           /\ it.node \in Cell(ow, it.table, it.next_index - 1)
           /\ B \subseteq Cell(ow, it.table, it.next_index - 1) \ {it.node}
           /\ IsChain(hn[it.node], B, hn)
      /\ \A n \in ex : ow[n] = it.table
      /\ ex \ vi \subseteq B \union Later(it, ow)
      /\ ex \cap vi \cap (B \union Later(it, ow)) = {}

IterTyped(it) ==
  /\ it \in [table : Tables \union {Null}, next_index : Nat, node : Nodes \union {Null}]
  /\ it.table = Null => it.node = Null

(* An iterator does not mind a node that a table receives. *)
LEMMA IterReceives ==
  ASSUME Table!HashTableAssumption, NEW it, IterTyped(it), NEW ex \in SUBSET Nodes, NEW vi,
         NEW hn, NEW hn2, NEW ow \in [Nodes -> Tables \union {Null}], NEW n \in Nodes, ow[n] = Null,
         \A m \in Nodes \ {n} : hn2[m] = hn[m], NEW x \in Tables \union {Null},
         IterAt(it, ex, vi, hn, ow)
  PROVE  IterAt(it, ex, vi, hn2, Changed(ow, n, x))
<1> SUFFICES ASSUME it.table # Null
             PROVE  IterAt(it, ex, vi, hn2, Changed(ow, n, x))
  BY DEF IterAt
<1> DEFINE ow2 == Changed(ow, n, x)
           b == it.next_index - 1
<1>1. PICK B \in SUBSET Nodes :
        /\ it.node = Null => B = {}
        /\ it.node # Null =>
             /\ b \in Table!Buckets(it.table)
             /\ it.node \in Cell(ow, it.table, b)
             /\ B \subseteq Cell(ow, it.table, b) \ {it.node}
             /\ IsChain(hn[it.node], B, hn)
        /\ \A m \in ex : ow[m] = it.table
        /\ ex \ vi \subseteq B \union Later(it, ow)
        /\ ex \cap vi \cap (B \union Later(it, ow)) = {}
  BY DEF IterAt
<1>2. \A m \in Nodes \ {n} : ow2[m] = ow[m]
  BY DEF Changed
<1> HIDE DEF ow2, b
<1>3. Cell(ow, it.table, b) \subseteq Cell(ow2, it.table, b) \ {n}
  BY <1>2 DEF Cell
<1>4. n \notin ex /\ \A m \in ex : ow2[m] = it.table
  BY <1>1, <1>2
<1>5. \A m \in ex : m \in Later(it, ow2) <=> m \in Later(it, ow)
  BY <1>2, <1>4 DEF Later
<1>6. it.node # Null => /\ it.node \in Cell(ow2, it.table, b)
                        /\ B \subseteq Cell(ow2, it.table, b) \ {it.node}
                        /\ IsChain(hn2[it.node], B, hn2)
  <2> SUFFICES ASSUME it.node # Null
               PROVE  /\ it.node \in Cell(ow2, it.table, b)
                      /\ B \subseteq Cell(ow2, it.table, b) \ {it.node}
                      /\ IsChain(hn2[it.node], B, hn2)
    OBVIOUS
  <2>1. n \notin B /\ n # it.node /\ it.node \in Nodes
    BY <1>1, <1>3 DEF Cell
  <2>2. hn2[it.node] = hn[it.node] /\ \A m \in B : hn2[m] = hn[m]
    BY <2>1
  <2>3. IsChain(hn2[it.node], B, hn2)
    BY <1>1, <2>2, ChainStays
  <2> QED BY <1>1, <1>3, <2>3
<1>7. ex \ vi \subseteq B \union Later(it, ow2) /\ ex \cap vi \cap (B \union Later(it, ow2)) = {}
  BY <1>1, <1>5
<1>8. IterAt(it, ex, vi, hn2, ow2)
  BY <1>1, <1>4, <1>6, <1>7 DEF IterAt, b
<1> QED BY <1>8 DEF ow2

(* Nor one that leaves another table ... *)
LEMMA IterElsewhere ==
  ASSUME Table!HashTableAssumption, NEW it, IterTyped(it), NEW ex \in SUBSET Nodes, NEW vi,
         NEW hn, NEW ow \in [Nodes -> Tables \union {Null}], NEW n \in Nodes, ow[n] # it.table,
         IterAt(it, ex, vi, hn, ow)
  PROVE  IterAt(it, ex, vi, hn, Changed(ow, n, Null))
<1> DEFINE ow2 == Changed(ow, n, Null)
<1>1. \A m \in Nodes : ow2[m] = it.table /\ it.table # Null <=> ow[m] = it.table /\ it.table # Null
  BY DEF Changed
<1> HIDE DEF ow2
<1>2. it.table # Null => /\ Later(it, ow2) = Later(it, ow)
                         /\ \A b : Cell(ow2, it.table, b) = Cell(ow, it.table, b)
                         /\ \A m \in ex : ow2[m] = it.table <=> ow[m] = it.table
  BY <1>1 DEF Later, Cell
<1>3. IterAt(it, ex, vi, hn, ow2)
  BY <1>2 DEF IterAt
<1> QED BY <1>3 DEF ow2

(* ... and when one leaves its table, it goes on without that node. *)
LEMMA IterLoses ==
  ASSUME Table!HashTableAssumption, BitsTyped, NEW it, IterTyped(it),
         NEW ex \in SUBSET Nodes, NEW vi, NEW mt, NEW hn, NEW ow, LinksTyped(mt, hn, ow),
         NEW ci, NEW cn, Chained(mt, hn, ow, Null, ci, cn),
         NEW t \in Tables, NEW b \in Table!Buckets(t), NEW n, NEW before,
         InPlace(mt, hn, ow, t, b, before, n), it.node # n,
         NEW hn2, before = Null => hn2 = hn, before # Null => hn2 = Changed(hn, before, hn[n]),
         IterAt(it, ex, vi, hn, ow)
  PROVE  IterAt(it, ex \ {n}, vi \ {n}, hn2, Changed(ow, n, Null))
<1> SUFFICES ASSUME it.table # Null
             PROVE  IterAt(it, ex \ {n}, vi \ {n}, hn2, Changed(ow, n, Null))
  BY DEF IterAt
<1> DEFINE ow2 == Changed(ow, n, Null)
           c == it.next_index - 1
           u == it.table
<1>1. PICK B \in SUBSET Nodes :
        /\ it.node = Null => B = {}
        /\ it.node # Null =>
             /\ c \in Table!Buckets(u)
             /\ it.node \in Cell(ow, u, c)
             /\ B \subseteq Cell(ow, u, c) \ {it.node}
             /\ IsChain(hn[it.node], B, hn)
        /\ \A m \in ex : ow[m] = u
        /\ ex \ vi \subseteq B \union Later(it, ow)
        /\ ex \cap vi \cap (B \union Later(it, ow)) = {}
  BY DEF IterAt
<1>2. n \in Nodes /\ ow[n] = t /\ ow \in [Nodes -> Tables \union {Null}] /\ hn \in [Nodes -> Nodes \union {Null}]
  BY DEF InPlace, Cell, LinksTyped
<1>3. /\ ow2[n] = Null /\ \A m \in Nodes \ {n} : ow2[m] = ow[m]
      /\ before # Null => hn2 = [hn EXCEPT ![before] = hn[n]]
  BY <1>2 DEF Changed
<1>4. u \in Tables
  BY DEF IterTyped
<1> HIDE DEF ow2, c, u
<1>5. Cell(ow2, u, c) = Cell(ow, u, c) \ {n} /\ Null # u
  BY <1>3, <1>4 DEF Cell, Table!HashTableAssumption
<1>6. \A m \in ex \ {n} : ow2[m] = u /\ (m \in Later(it, ow2) <=> m \in Later(it, ow))
  BY <1>1, <1>3 DEF Later, u
<1>7. /\ IsChain(mt[t][b], Cell(ow, t, b), hn)
      /\ c \in Table!Buckets(u) => IsChain(mt[u][c], Cell(ow, u, c), hn)
  BY <1>4, <1>5 DEF Chained, Root, Table!HashTableAssumption
<1>8. ASSUME it.node # Null
      PROVE  IsChain(hn2[it.node], B \ {n}, hn2)
  <2>1. c \in Table!Buckets(u) /\ it.node \in Cell(ow, u, c) /\ Cell(ow, u, c) \subseteq Nodes
    BY <1>1, <1>8 DEF Cell
  <2>2. IsChain(mt[u][c], Cell(ow, u, c), hn)
    BY <1>7, <2>1
  <2>3. CASE u = t /\ c = b
    <3>1. n \in Cell(ow, u, c) \ {it.node}
      BY <2>3 DEF InPlace
    <3>2. before = Null => n = mt[u][c] /\ \A m \in Cell(ow, u, c) : hn2[m] = hn[m]
      BY <2>3 DEF InPlace
    <3>3. before # Null => /\ before \in Cell(ow, u, c) /\ hn[before] = n /\ hn2[before] = hn[n]
                           /\ \A m \in Cell(ow, u, c) \ {before} : hn2[m] = hn[m]
      BY <1>2, <1>3, <2>1, <2>3 DEF InPlace
    <3>4. CutOut(mt[u][c], Cell(ow, u, c), hn, hn2, before, n)
      BY <3>2, <3>3 DEF CutOut
    <3>5. /\ it.node \in Cell(ow, u, c) /\ B \in SUBSET (Cell(ow, u, c) \ {it.node})
          /\ IsChain(hn[it.node], B, hn)
      BY <1>1, <1>8, <2>1
    <3> QED BY <2>2, <3>1, <3>4, <3>5, BehindCut
  <2>4. CASE ~(u = t /\ c = b)
    <3>1. n \notin Cell(ow, u, c)
      BY <1>2, <1>4, <2>1, <2>4, CellFacts DEF InPlace
    <3>2. before # Null => before \notin Cell(ow, u, c)
      BY <1>4, <2>1, <2>4, CellFacts DEF InPlace, Cell
    <3>3. \A m \in B \union {it.node} : hn2[m] = hn[m]
      BY <1>1, <1>2, <1>3, <1>8, <2>1, <3>2
    <3>4. B \ {n} = B
      BY <1>1, <1>8, <3>1
    <3> QED BY <1>1, <1>8, <3>3, <3>4, ChainStays
  <2> QED BY <2>3, <2>4
<1>9. it.node # Null => /\ it.node \in Cell(ow2, u, c) /\ B \ {n} \subseteq Cell(ow2, u, c) \ {it.node}
  BY <1>1, <1>5
<1>10. /\ (ex \ {n}) \ (vi \ {n}) \subseteq (B \ {n}) \union Later(it, ow2)
       /\ (ex \ {n}) \cap (vi \ {n}) \cap ((B \ {n}) \union Later(it, ow2)) = {}
  BY <1>1, <1>6
<1>11. IterAt(it, ex \ {n}, vi \ {n}, hn2, ow2)
  BY <1>1, <1>6, <1>8, <1>9, <1>10 DEF IterAt, u, c
<1> QED BY <1>11 DEF ow2

(* What a table owns when a node comes or goes. *)
LEMMA OneMore ==
  ASSUME Table!HashTableAssumption, NEW S \in SUBSET Nodes
  PROVE  /\ Cardinality(S) \in Nat
         /\ \A n \in Nodes \ S : Cardinality(S \union {n}) = Cardinality(S) + 1
         /\ \A n \in S : Cardinality(S \ {n}) = Cardinality(S) - 1 /\ Cardinality(S) > 0
<1>1. IsFiniteSet(S) /\ Cardinality(S) \in Nat
  <2>1. IsFiniteSet(Nodes)
    BY DEF Table!HashTableAssumption, Table!IsFiniteSet, IsFiniteSet
  <2> QED BY <2>1, FS_Subset, FS_CardinalityType
<1>2. \A n \in Nodes \ S : Cardinality(S \union {n}) = Cardinality(S) + 1
  BY <1>1, FS_AddElement
<1>3. \A n \in S : Cardinality(S \ {n}) = Cardinality(S) - 1
  BY <1>1, FS_RemoveElement
<1>4. S # {} => Cardinality(S) > 0
  <2>1. S # {} => Cardinality(S) # 0
    BY <1>1, FS_EmptySet
  <2> QED BY <1>1, <2>1
<1> QED BY <1>1, <1>2, <1>3, <1>4

-----------------------------------------------------------------------------
(* The inductive invariant.  While erase() runs, what is left of the chain *)
(* begins at *current_ and all of its nodes with the key are there; while  *)
(* clear() runs, the buckets that it has been to are empty, but for the    *)
(* chain it holds.                                                         *)
ClearedTable == IF call.op = "clear" THEN call.table ELSE Null
ClearedTo == IF call.op = "clear" THEN call.it ELSE 0
ClearedChain == IF call.op = "clear" THEN call.n ELSE Null

CallTyped ==
  \/ call = [op |-> "idle"]
  \/ /\ call \in [op : {"erase"}, table : Tables, key : Table!Key,
                  before : Nodes \union {Null}, count : Nat]
     /\ bits[call.table] # 0
  \/ call \in [op : {"clear"}, table : Tables, it : Nat, n : Nodes \union {Null}]

ErasedCell == Cell(m_table_owner, call.table, Table!Bucket(call.table, call.key))

ErasePlace ==
  call.op = "erase" =>
    /\ call.before # Null => call.before \in ErasedCell
    /\ \E B \in SUBSET (ErasedCell \ {call.before}) :
         /\ IsChain(Table!Current, B, hash_next)
         /\ \A n \in ErasedCell \ B : NodeKey[n] # call.key

ClearPlace ==
  call.op = "clear" =>
    /\ call.it = 0 => call.n = Null
    /\ call.it # 0 => call.it - 1 \in Table!Buckets(call.table)
    /\ \A b \in Table!Buckets(call.table) : b < call.it => m_table_[call.table][b] = Null
    /\ iter.table = call.table => iter.node = Null /\ expected = {}

Counted ==
  \A t \in Tables :
    IF call.op # "idle" /\ call.table = t
    THEN call.op = "erase" =>
           m_table_size_[t] = Cardinality(OwnedBy(m_table_owner, t)) + call.count
    ELSE m_table_size_[t] = Cardinality(OwnedBy(m_table_owner, t))

TableTyped ==
  /\ BitsTyped
  /\ m_table_size_ \in [Tables -> Nat]
  /\ CallTyped
  /\ IterTyped(iter)
  /\ expected \in SUBSET Nodes /\ visited \in SUBSET Nodes

TableInv ==
  /\ TableTyped
  /\ LinksTyped(m_table_, hash_next, m_table_owner)
  /\ Chained(m_table_, hash_next, m_table_owner, ClearedTable, ClearedTo, ClearedChain)
  /\ ErasePlace /\ ClearPlace
  /\ IterAt(iter, expected, visited, hash_next, m_table_owner)
  /\ Counted

(* Where no table gets its storage, buckets stay what they are. *)
LEMMA SameBits ==
  ASSUME bits' = bits
  PROVE  /\ BitsTyped => BitsTyped'
         /\ \A t : Table!Buckets(t)' = Table!Buckets(t)
         /\ \A t, k : Table!Bucket(t, k)' = Table!Bucket(t, k)
         /\ LinksTyped(m_table_', hash_next', m_table_owner') =>
              LinksTyped(m_table_, hash_next, m_table_owner)'
         /\ Chained(m_table_', hash_next', m_table_owner', ClearedTable', ClearedTo', ClearedChain') =>
              Chained(m_table_, hash_next, m_table_owner, ClearedTable, ClearedTo, ClearedChain)'
         /\ IterAt(iter', expected', visited', hash_next', m_table_owner') =>
              IterAt(iter, expected, visited, hash_next, m_table_owner)'
         /\ \A ow, t, b : Cell(ow, t, b)' = Cell(ow, t, b)
<1>1. BitsTyped => BitsTyped'
  BY DEF BitsTyped
<1>2. /\ \A t : Table!Buckets(t)' = Table!Buckets(t)
      /\ \A t, k : Table!Bucket(t, k)' = Table!Bucket(t, k)
  BY DEF Table!Buckets, Table!Bucket
<1>3. LinksTyped(m_table_', hash_next', m_table_owner') =>
        LinksTyped(m_table_, hash_next, m_table_owner)'
  BY <1>2 DEF LinksTyped
<1>4. \A ow, t, b : Cell(ow, t, b)' = Cell(ow, t, b)
  BY <1>2 DEF Cell
<1>5. Chained(m_table_', hash_next', m_table_owner', ClearedTable', ClearedTo', ClearedChain') =>
        Chained(m_table_, hash_next, m_table_owner, ClearedTable, ClearedTo, ClearedChain)'
  BY <1>2 DEF Chained, Cell, Root
<1>6. IterAt(iter', expected', visited', hash_next', m_table_owner') =>
        IterAt(iter, expected, visited, hash_next, m_table_owner)'
  BY <1>2 DEF IterAt, Later, Cell
<1> QED BY <1>1, <1>2, <1>3, <1>4, <1>5, <1>6

LEMMA CurrentAfter ==
  ASSUME bits' = bits, NEW t, NEW k, NEW b,
         call'.table = t, call'.key = k, call'.before = b
  PROVE  Table!Current' = IF b # Null THEN hash_next'[b] ELSE m_table_'[t][Table!Bucket(t, k)]
<1>1. Table!Bucket(t, k)' = Table!Bucket(t, k)
  BY SameBits
<1> QED BY <1>1 DEF Table!Current, Table!HeadOf

-----------------------------------------------------------------------------
(* The steps, one after the other. *)
LEMMA AllocateKeepsTable ==
  ASSUME Table!HashTableAssumption, TableInv, NEW t \in Tables, Table!SetTableSizeBits(t)
  PROVE  TableInv'
<1>1. /\ call.op = "idle" /\ call' = call /\ bits[t] = 0
      /\ bits' = [bits EXCEPT ![t] = TableBits[t]]
      /\ m_table_' = [m_table_ EXCEPT ![t] = [b \in 0..2 ^ TableBits[t] - 1 |-> Null]]
      /\ hash_next' = hash_next /\ m_table_size_' = m_table_size_ /\ m_table_owner' = m_table_owner
      /\ iter' = iter /\ expected' = expected /\ visited' = visited
  BY DEF Table!SetTableSizeBits, Table!Idle, Table!Allocated, Table!iteration
<1>2. BitsTyped /\ BitsTyped' /\ bits'[t] = TableBits[t] /\ \A u \in Tables \ {t} : bits'[u] = bits[u]
  BY <1>1 DEF BitsTyped, TableInv, TableTyped, Table!HashTableAssumption
<1>3. \A u \in Tables \ {t} : /\ Table!Buckets(u)' = Table!Buckets(u)
                              /\ \A k : Table!Bucket(u, k)' = Table!Bucket(u, k)
  BY <1>2 DEF Table!Buckets, Table!Bucket
<1>4. Table!Buckets(t) = {} /\ m_table_'[t] = [b \in Table!Buckets(t)' |-> Null]
  <2>1. bits'[t] # 0 /\ Table!Buckets(t)' = 0..2 ^ TableBits[t] - 1
    BY <1>2 DEF Table!Buckets, Table!HashTableAssumption
  <2>2. m_table_'[t] = [b \in 0..2 ^ TableBits[t] - 1 |-> Null]
    BY <1>1 DEF TableInv, LinksTyped
  <2> QED BY <1>1, <2>1, <2>2 DEF Table!Buckets
<1>5. Null \notin Tables /\ \A n \in Nodes : m_table_owner[n] # t
  BY <1>1 DEF TableInv, LinksTyped, Table!HashTableAssumption
<1>6. LinksTyped(m_table_, hash_next, m_table_owner)'
  <2>1. m_table_' = [u \in Tables |-> m_table_'[u]]
    BY <1>1 DEF TableInv, LinksTyped
  <2>2. \A u \in Tables \ {t} : m_table_'[u] \in [Table!Buckets(u) -> Nodes \union {Null}]
    BY <1>1 DEF TableInv, LinksTyped
  <2>3. m_table_'[t] \in [Table!Buckets(t)' -> Nodes \union {Null}]
    BY <1>4
  <2>4. hash_next \in [Nodes -> Nodes \union {Null}] /\ m_table_owner \in [Nodes -> Tables \union {Null}]
        /\ \A n \in Nodes : m_table_owner[n] \in Tables => bits'[m_table_owner[n]] # 0
    BY <1>2, <1>5 DEF TableInv, LinksTyped
  <2> QED BY <1>1, <1>3, <2>1, <2>2, <2>3, <2>4 DEF LinksTyped
<1>7. Chained(m_table_, hash_next, m_table_owner, ClearedTable, ClearedTo, ClearedChain)'
  <2>1. ClearedTable' = Null /\ ClearedTable = Null
    BY <1>1 DEF ClearedTable
  <2>2. ASSUME NEW u \in Tables, NEW b \in Table!Buckets(u)'
        PROVE  IsChain(Root(m_table_', ClearedTable', ClearedTo', ClearedChain', u, b),
                       Cell(m_table_owner, u, b)', hash_next)
    <3>1. CASE u = t
      <4>1. Cell(m_table_owner, u, b)' = {}
        BY <1>1, <1>5, <3>1 DEF Cell
      <4>2. Root(m_table_', ClearedTable', ClearedTo', ClearedChain', u, b) = Null
        BY <1>4, <1>5, <2>1, <2>2, <3>1 DEF Root
      <4> QED BY <4>1, <4>2, NoChain
    <3>2. CASE u # t
      <4>1. b \in Table!Buckets(u) /\ Cell(m_table_owner, u, b)' = Cell(m_table_owner, u, b)
        BY <1>1, <1>3, <2>2, <3>2 DEF Cell
      <4>2. Root(m_table_', ClearedTable', ClearedTo', ClearedChain', u, b)
              = Root(m_table_, ClearedTable, ClearedTo, ClearedChain, u, b)
        BY <1>1, <1>5, <2>1, <3>2 DEF Root, TableInv, LinksTyped
      <4>3. IsChain(Root(m_table_, ClearedTable, ClearedTo, ClearedChain, u, b),
                    Cell(m_table_owner, u, b), hash_next)
        BY <4>1 DEF TableInv, Chained
      <4> QED BY <4>1, <4>2, <4>3
    <3> QED BY <3>1, <3>2
  <2> QED BY <1>1, <2>2 DEF Chained
<1>8. IterAt(iter, expected, visited, hash_next, m_table_owner)'
  <2>1. CASE iter.table = t
    <3>1. iter.node = Null /\ expected = {}
      BY <1>4, <1>5, <2>1 DEF TableInv, TableTyped, IterAt
    <3> QED BY <1>1, <3>1 DEF IterAt
  <2>2. CASE iter.table \in Tables \ {t}
    <3>1. Later(iter, m_table_owner)' = Later(iter, m_table_owner)
      BY <1>1, <1>3, <2>2 DEF Later
    <3>2. \A b : Cell(m_table_owner, iter.table, b)' = Cell(m_table_owner, iter.table, b)
      BY <1>1, <1>3, <2>2 DEF Cell
    <3>3. IterAt(iter, expected, visited, hash_next, m_table_owner)
      BY DEF TableInv
    <3> QED BY <1>1, <1>3, <2>2, <3>1, <3>2, <3>3 DEF IterAt
  <2>3. CASE iter.table = Null
    BY <1>1, <2>3 DEF IterAt
  <2>4. iter.table \in Tables \union {Null}
    BY DEF TableInv, TableTyped, IterTyped
  <2> QED BY <2>1, <2>2, <2>3, <2>4
<1>9. ErasePlace' /\ ClearPlace'
  BY <1>1 DEF ErasePlace, ClearPlace
<1>10. Counted' /\ TableTyped'
  <2>1. CallTyped'
    BY <1>1 DEF TableInv, TableTyped, CallTyped
  <2> QED BY <1>1, <1>2, <2>1 DEF TableInv, TableTyped, Counted, IterTyped
<1> QED BY <1>6, <1>7, <1>8, <1>9, <1>10 DEF TableInv

LEMMA InsertKeepsTable ==
  ASSUME Table!HashTableAssumption, TableInv, NEW t \in Tables, NEW n \in Nodes,
         Table!InsertNode(t, n)
  PROVE  TableInv'
<1> DEFINE H == Pushing(m_table_, hash_next, t, n)
<1>1. /\ call.op = "idle" /\ call' = call /\ bits' = bits /\ bits[t] # 0
      /\ m_table_owner[n] = Null /\ m_table_owner' = Changed(m_table_owner, n, t)
      /\ m_table_' = H[1] /\ hash_next' = H[2]
      /\ m_table_size_' = [m_table_size_ EXCEPT ![t] = @ + 1]
      /\ iter' = iter /\ expected' = expected /\ visited' = visited
  BY DEF Table!InsertNode, Table!Idle, Table!Allocated, Table!iteration, Table!SetLinks,
         Pushing, Changed
<1>2. BitsTyped /\ LinksTyped(m_table_, hash_next, m_table_owner)
  BY DEF TableInv, TableTyped
<1>3. /\ ClearedTable = Null /\ ClearedTable' = Null /\ ClearedTo' = ClearedTo
      /\ ClearedChain' = ClearedChain /\ t # ClearedTable
  BY <1>1 DEF ClearedTable, ClearedTo, ClearedChain, Table!HashTableAssumption
<1>4. /\ LinksTyped(m_table_', hash_next', m_table_owner')
      /\ Chained(m_table_', hash_next', m_table_owner', ClearedTable', ClearedTo', ClearedChain')
  <2>1. Chained(m_table_, hash_next, m_table_owner, ClearedTable, ClearedTo, ClearedChain)
    BY DEF TableInv
  <2> HIDE DEF H
  <2>2. /\ LinksTyped(H[1], H[2], Changed(m_table_owner, n, t))
        /\ Chained(H[1], H[2], Changed(m_table_owner, n, t), ClearedTable, ClearedTo, ClearedChain)
    BY <1>1, <1>2, <1>3, <2>1, PushChained DEF H
  <2> QED BY <1>1, <1>3, <2>2
<1>5. m_table_owner \in [Nodes -> Tables \union {Null}] /\ \A m \in Nodes \ {n} : hash_next'[m] = hash_next[m]
  BY <1>1, <1>2 DEF LinksTyped, Pushing, Table!Pushed
<1>6. IterAt(iter', expected', visited', hash_next', m_table_owner')
  BY <1>1, <1>5, IterReceives DEF TableInv, TableTyped
<1>7. Counted'
  <2>1. ASSUME NEW u \in Tables
        PROVE  m_table_size_'[u] = Cardinality(OwnedBy(m_table_owner', u))
    <3>1. m_table_owner[n] # u /\ m_table_size_ \in [Tables -> Nat]
          /\ m_table_size_[u] = Cardinality(OwnedBy(m_table_owner, u))
      BY <1>1 DEF TableInv, TableTyped, Counted, Table!HashTableAssumption
    <3>2. m_table_owner'[n] = t /\ \A m \in Nodes \ {n} : m_table_owner'[m] = m_table_owner[m]
      BY <1>1, <1>5 DEF Changed
    <3>3. m_table_size_'[u] = IF u = t THEN m_table_size_[u] + 1 ELSE m_table_size_[u]
      BY <1>1, <3>1
    <3> DEFINE S == OwnedBy(m_table_owner, u)
    <3>4. CASE u = t
      <4>1. OwnedBy(m_table_owner', u) = S \union {n} /\ S \in SUBSET Nodes /\ n \in Nodes \ S
        BY <3>1, <3>2, <3>4 DEF OwnedBy
      <4> HIDE DEF S
      <4>2. Cardinality(OwnedBy(m_table_owner', u)) = Cardinality(S) + 1
        BY <4>1, OneMore
      <4> QED BY <3>1, <3>3, <3>4, <4>2 DEF S
    <3>5. CASE u # t
      <4>1. OwnedBy(m_table_owner', u) = S
        BY <3>1, <3>2, <3>5 DEF OwnedBy
      <4> QED BY <3>1, <3>3, <3>5, <4>1
    <3> QED BY <3>4, <3>5
  <2> QED BY <1>1, <2>1 DEF Counted, OwnedBy
<1>8. TableTyped'
  BY <1>1, SameBits DEF TableInv, TableTyped, CallTyped, IterTyped
<1>9. ErasePlace' /\ ClearPlace'
  BY <1>1 DEF ErasePlace, ClearPlace
<1> QED BY <1>1, <1>4, <1>6, <1>7, <1>8, <1>9, SameBits DEF TableInv

(* The cell that erase() works on is the one of a bucket. *)
LEMMA ErasedBucket ==
  ASSUME Table!HashTableAssumption, TableInv, call.op = "erase"
  PROVE  /\ call \in [op : {"erase"}, table : Tables, key : Table!Key,
                      before : Nodes \union {Null}, count : Nat]
         /\ bits[call.table] # 0
         /\ Table!Bucket(call.table, call.key) \in Table!Buckets(call.table)
         /\ IsChain(m_table_[call.table][Table!Bucket(call.table, call.key)], ErasedCell, hash_next)
         /\ ClearedTable = Null
<1>1. /\ call \in [op : {"erase"}, table : Tables, key : Table!Key,
                   before : Nodes \union {Null}, count : Nat]
      /\ bits[call.table] # 0 /\ BitsTyped
  BY DEF TableInv, TableTyped, CallTyped
<1>2. PICK m \in Nodes : NodeKey[m] = call.key
  BY <1>1 DEF Table!Key
<1>3. Table!Bucket(call.table, call.key) \in Table!Buckets(call.table)
  BY <1>1, <1>2, BucketIsThere
<1>4. ClearedTable = Null /\ Null \notin Tables
  BY DEF ClearedTable, Table!HashTableAssumption
<1>5. IsChain(m_table_[call.table][Table!Bucket(call.table, call.key)], ErasedCell, hash_next)
  <2> DEFINE e == Table!Bucket(call.table, call.key)
  <2>1. IsChain(Root(m_table_, ClearedTable, ClearedTo, ClearedChain, call.table, e),
                Cell(m_table_owner, call.table, e), hash_next)
    BY <1>1, <1>3 DEF TableInv, Chained
  <2> HIDE DEF e
  <2>2. Root(m_table_, ClearedTable, ClearedTo, ClearedChain, call.table, e) = m_table_[call.table][e]
    BY <1>1, <1>4 DEF Root
  <2> QED BY <2>1, <2>2 DEF ErasedCell, e
<1> QED BY <1>1, <1>3, <1>4, <1>5

LEMMA EraseKeepsTable ==
  ASSUME Table!HashTableAssumption, TableInv, NEW t \in Tables, NEW k \in Table!Key,
         Table!Erase(t, k)
  PROVE  TableInv'
<1>1. /\ call.op = "idle" /\ bits[t] # 0 /\ bits' = bits
      /\ call' = [op |-> "erase", table |-> t, key |-> k, before |-> Null, count |-> 0]
      /\ m_table_' = m_table_ /\ hash_next' = hash_next /\ m_table_size_' = m_table_size_
      /\ m_table_owner' = m_table_owner
      /\ iter' = iter /\ expected' = expected /\ visited' = visited
  BY DEF Table!Erase, Table!Idle, Table!Allocated, Table!iteration, Table!nodes
<1>2. ClearedTable = Null /\ ClearedTable' = Null
  BY <1>1 DEF ClearedTable
<1>3. Chained(m_table_', hash_next', m_table_owner', ClearedTable', ClearedTo', ClearedChain')
  <2>1. Null \notin Tables
    BY DEF Table!HashTableAssumption
  <2> QED BY <1>1, <1>2, <2>1 DEF TableInv, Chained, Root
<1>4. TableTyped'
  <2>1. CallTyped'
    BY <1>1 DEF CallTyped
  <2> QED BY <1>1, <2>1, SameBits DEF TableInv, TableTyped, IterTyped
<1>5. Counted'
  <2>1. \A u \in Tables : m_table_size_[u] = Cardinality(OwnedBy(m_table_owner, u))
                          /\ Cardinality(OwnedBy(m_table_owner, u)) + 0 = Cardinality(OwnedBy(m_table_owner, u))
    <3>1. \A u \in Tables : OwnedBy(m_table_owner, u) \in SUBSET Nodes
      BY DEF OwnedBy
    <3> QED BY <1>1, <3>1, OneMore DEF TableInv, Counted
  <2> QED BY <1>1, <2>1 DEF Counted, OwnedBy
<1>6. ErasePlace'
  <2> DEFINE e == Table!Bucket(t, k)
             C == Cell(m_table_owner, t, e)
  <2>1. PICK m \in Nodes : NodeKey[m] = k
    BY DEF Table!Key
  <2>2. e \in Table!Buckets(t)
    BY <1>1, <2>1, BucketIsThere DEF TableInv, TableTyped
  <2>3. IsChain(m_table_[t][e], C, hash_next)
    <3>1. IsChain(Root(m_table_, ClearedTable, ClearedTo, ClearedChain, t, e), C, hash_next)
      BY <2>2 DEF TableInv, Chained
    <3>2. Root(m_table_, ClearedTable, ClearedTo, ClearedChain, t, e) = m_table_[t][e]
      BY <1>2 DEF Root, Table!HashTableAssumption
    <3> QED BY <3>1, <3>2
  <2>4. ErasedCell' = C /\ Table!Current' = m_table_[t][e]
    BY <1>1, SameBits DEF ErasedCell, Table!Current, Table!HeadOf
  <2>5. Null \notin C
    BY DEF Cell, Table!HashTableAssumption
  <2> HIDE DEF C, e
  <2> QED BY <1>1, <2>3, <2>4, <2>5 DEF ErasePlace
<1>7. ClearPlace'
  BY <1>1 DEF ClearPlace
<1> QED BY <1>1, <1>3, <1>4, <1>5, <1>6, <1>7, SameBits DEF TableInv

LEMMA SkipKeepsTable ==
  ASSUME Table!HashTableAssumption, TableInv, Table!EraseSkip
  PROVE  TableInv'
<1> DEFINE n == Table!Current
<1>1. /\ call.op = "erase" /\ bits' = bits /\ n # Null /\ NodeKey[n] # call.key
      /\ call' = [call EXCEPT !.before = n]
      /\ m_table_' = m_table_ /\ hash_next' = hash_next /\ m_table_size_' = m_table_size_
      /\ m_table_owner' = m_table_owner
      /\ iter' = iter /\ expected' = expected /\ visited' = visited
  BY DEF Table!EraseSkip, Table!iteration, Table!nodes
<1>2. PICK B \in SUBSET (ErasedCell \ {call.before}) :
        /\ IsChain(n, B, hash_next)
        /\ \A m \in ErasedCell \ B : NodeKey[m] # call.key
  BY <1>1 DEF TableInv, ErasePlace
<1> HIDE DEF n
<1>3. n \in B /\ B \subseteq ErasedCell /\ n \in Nodes
  BY <1>1, <1>2, ChainFacts DEF ErasedCell, Cell
<1>4. call' \in [op : {"erase"}, table : Tables, key : Table!Key,
                 before : Nodes \union {Null}, count : Nat]
      /\ call'.op = "erase" /\ call'.table = call.table /\ call'.key = call.key
      /\ call'.before = n /\ call'.count = call.count /\ call.table \in Tables
  BY <1>1, <1>3, ErasedBucket
<1>5. TableTyped'
  <2>1. CallTyped'
    BY <1>1, <1>4, ErasedBucket DEF CallTyped
  <2> QED BY <1>1, <2>1, SameBits DEF TableInv, TableTyped, IterTyped
<1>6. ErasePlace'
  <2>1. ErasedCell' = ErasedCell
    BY <1>1, <1>4, SameBits DEF ErasedCell
  <2>2. Table!Current' = hash_next[n]
    BY <1>1, <1>3, <1>4 DEF Table!Current, Table!HashTableAssumption
  <2>3. IsChain(hash_next[n], B \ {n}, hash_next)
    BY <1>1, <1>2, ChainPop
  <2>4. B \ {n} \in SUBSET (ErasedCell \ {n}) /\ \A m \in ErasedCell \ (B \ {n}) : NodeKey[m] # call.key
    BY <1>1, <1>2, <1>3
  <2> QED BY <1>1, <1>3, <1>4, <2>1, <2>2, <2>3, <2>4 DEF ErasePlace
<1>7. ClearPlace' /\ Counted'
  BY <1>1, <1>4 DEF ClearPlace, Counted, TableInv, OwnedBy
<1>8. Chained(m_table_', hash_next', m_table_owner', ClearedTable', ClearedTo', ClearedChain')
  <2>1. ClearedTable' = ClearedTable /\ ClearedTo' = ClearedTo /\ ClearedChain' = ClearedChain
    BY <1>1, <1>4 DEF ClearedTable, ClearedTo, ClearedChain
  <2> QED BY <1>1, <2>1 DEF TableInv
<1> QED BY <1>1, <1>5, <1>6, <1>7, <1>8, SameBits DEF TableInv

LEMMA EraseDoneKeepsTable ==
  ASSUME Table!HashTableAssumption, TableInv, Table!EraseDone
  PROVE  TableInv' /\ \A n \in Nodes : m_table_owner[n] = call.table => NodeKey[n] # call.key
<1>1. /\ call.op = "erase" /\ bits' = bits /\ Table!Current = Null
      /\ call' = [op |-> "idle"]
      /\ m_table_' = m_table_ /\ hash_next' = hash_next /\ m_table_owner' = m_table_owner
      /\ m_table_size_' = [m_table_size_ EXCEPT ![call.table] = @ - call.count]
      /\ iter' = iter /\ expected' = expected /\ visited' = visited
  BY DEF Table!EraseDone, Table!iteration, Table!NoCall
<1>2. call.table \in Tables /\ call.count \in Nat
  BY <1>1, ErasedBucket
<1>3. \A u \in Tables :
        /\ m_table_size_[u] = Cardinality(OwnedBy(m_table_owner, u)) + IF u = call.table THEN call.count ELSE 0
        /\ Cardinality(OwnedBy(m_table_owner, u)) \in Nat
  <2>1. \A u \in Tables : Cardinality(OwnedBy(m_table_owner, u)) \in Nat
    <3>1. \A u \in Tables : OwnedBy(m_table_owner, u) \in SUBSET Nodes
      BY DEF OwnedBy
    <3> QED BY <3>1, OneMore
  <2> QED BY <1>1, <2>1 DEF TableInv, Counted
<1>4. m_table_size_' \in [Tables -> Nat]
      /\ \A u \in Tables : m_table_size_'[u] = Cardinality(OwnedBy(m_table_owner, u))
  <2>1. m_table_size_ \in [Tables -> Nat]
    BY DEF TableInv, TableTyped
  <2>2. m_table_size_[call.table] - call.count = Cardinality(OwnedBy(m_table_owner, call.table))
    BY <1>2, <1>3
  <2> QED BY <1>1, <1>2, <1>3, <2>1, <2>2
<1>5. TableTyped' /\ Counted'
  <2>1. CallTyped'
    BY <1>1 DEF CallTyped
  <2>2. TableTyped'
    BY <1>1, <1>4, <2>1, SameBits DEF TableInv, TableTyped, IterTyped
  <2> QED BY <1>1, <1>4, <2>2 DEF Counted, OwnedBy
<1>6. ErasePlace' /\ ClearPlace'
  BY <1>1 DEF ErasePlace, ClearPlace
<1>7. Chained(m_table_', hash_next', m_table_owner', ClearedTable', ClearedTo', ClearedChain')
  <2>1. ClearedTable' = ClearedTable /\ ClearedTo' = ClearedTo /\ ClearedChain' = ClearedChain
    BY <1>1 DEF ClearedTable, ClearedTo, ClearedChain
  <2> QED BY <1>1, <2>1 DEF TableInv
<1>8. ASSUME NEW n \in Nodes, m_table_owner[n] = call.table PROVE NodeKey[n] # call.key
  <2> SUFFICES ASSUME NodeKey[n] = call.key PROVE FALSE
    OBVIOUS
  <2>1. n \in ErasedCell
    BY <1>8 DEF ErasedCell, Cell
  <2>2. PICK B : IsChain(Null, B, hash_next) /\ \A m \in ErasedCell \ B : NodeKey[m] # call.key
    BY <1>1 DEF TableInv, ErasePlace
  <2>3. B = {}
    BY <2>2, ChainFacts
  <2> QED BY <2>1, <2>2, <2>3
<1> QED BY <1>1, <1>5, <1>6, <1>7, <1>8, SameBits DEF TableInv

(* A deleter changes the link of its node, and what it pushes onto. *)
LEMMA DeletedElsewhere ==
  ASSUME Table!HashTableAssumption, NEW mt, NEW hn, NEW ow, LinksTyped(mt, hn, ow),
         NEW d \in {"none", "delete"} \union Tables, NEW n \in Nodes,
         NEW H, H = Deleting(mt, hn, d, n)
  PROVE  /\ \A m \in Nodes \ {n} : H[2][m] = hn[m]
         /\ \A t \in Tables \ {d} : H[1][t] = mt[t]
<1>1. mt = [t \in Tables |-> mt[t]] /\ hn \in [Nodes -> Nodes \union {Null}]
  BY DEF LinksTyped
<1>2. CASE d \in Tables
  <2>1. d \notin {"none", "delete"}
    BY <1>2 DEF Table!HashTableAssumption
  <2>2. H = Pushing(mt, hn, d, n)
    BY <1>2, <2>1 DEF Deleting, Pushing, Table!Deleted
  <2> DEFINE e == Table!Bucket(d, NodeKey[n])
  <2>3. H[1] = [mt EXCEPT ![d][e] = n] /\ H[2] = [hn EXCEPT ![n] = mt[d][e]]
    BY <2>2 DEF Pushing, Table!Pushed
  <2> HIDE DEF e
  <2> QED BY <1>1, <2>3
<1>3. CASE d \notin Tables
  BY <1>1, <1>3 DEF Deleting, Table!Deleted
<1> QED BY <1>2, <1>3

LEMMA EraseStepKeepsTable ==
  ASSUME Table!HashTableAssumption, TableInv,
         NEW d \in {"none", "delete"} \union Tables, Table!EraseStep(d)
  PROVE  TableInv'
<1> DEFINE n == Table!Current
           t == call.table
           before == call.before
           e == Table!Bucket(call.table, call.key)
           G == Unlinking(m_table_, hash_next, t, before, n)
           H == Deleting(G[1], G[2], d, n)
           ow1 == Changed(m_table_owner, n, Null)
<1>1. /\ call.op = "erase" /\ bits' = bits /\ d \in {"none", "delete"} \union (Tables \ {t})
      /\ Table!Usable(d)
      /\ n # Null /\ NodeKey[n] = call.key
      /\ m_table_' = H[1] /\ hash_next' = H[2]
      /\ m_table_size_' = Table!Received(m_table_size_, d)
      /\ m_table_owner' = [m_table_owner EXCEPT ![n] = Table!NewOwner(d)]
      /\ expected' = expected \ {n} /\ visited' = visited \ {n}
      /\ iter' = IF iter.node \in {n} THEN Table!NoIterator ELSE iter
      /\ call' = [call EXCEPT !.count = @ + 1]
  <2>1. Table!Unlinked(<<m_table_, hash_next>>, t, before, n) = <<G[1], G[2]>>
    BY DEF Unlinking, Table!Unlinked
  <2> HIDE DEF G
  <2> QED BY <2>1 DEF Table!EraseStep, Table!SetLinks, Table!Leave, Table!Deleter, Deleting
<1>2. /\ call \in [op : {"erase"}, table : Tables, key : Table!Key,
                   before : Nodes \union {Null}, count : Nat]
      /\ bits[t] # 0 /\ e \in Table!Buckets(t) /\ t \in Tables
      /\ IsChain(m_table_[t][e], ErasedCell, hash_next)
      /\ ErasedCell = Cell(m_table_owner, t, e)
      /\ ClearedTable = Null
  BY <1>1, ErasedBucket DEF ErasedCell
<1>3. Null \notin Tables \union Nodes
  BY DEF Table!HashTableAssumption
<1>4. PICK B \in SUBSET (ErasedCell \ {before}) :
        /\ IsChain(n, B, hash_next)
        /\ \A m \in ErasedCell \ B : NodeKey[m] # call.key
  BY <1>1 DEF TableInv, ErasePlace
<1>5. before # Null => before \in ErasedCell
  BY <1>1 DEF TableInv, ErasePlace
<1>6. /\ before = Null => n = m_table_[t][e]
      /\ before # Null => n = hash_next[before]
  BY DEF Table!Current, Table!HeadOf
<1>7. /\ call'.op = "erase" /\ call'.table = t /\ call'.key = call.key
      /\ call'.before = before /\ call'.count = call.count + 1
      /\ call' \in [op : {"erase"}, table : Tables, key : Table!Key,
                    before : Nodes \union {Null}, count : Nat]
  BY <1>1, <1>2
<1>8. Table!Current' = IF before # Null THEN hash_next'[before] ELSE m_table_'[t][e]
  <2>1. bits' = bits /\ call'.table = t /\ call'.key = call.key /\ call'.before = before
    BY <1>1, <1>7
  <2> QED BY <2>1, CurrentAfter
<1>9. ErasedCell' = Cell(m_table_owner', t, e)
  BY <1>1, <1>7, SameBits DEF ErasedCell
<1>10. Table!Bucket(t, NodeKey[n]) = e
  BY <1>1
<1> HIDE DEF n, t, before, e, H
<1>11. n \in B /\ n \in ErasedCell /\ n \in Nodes /\ m_table_owner[n] = t
  BY <1>1, <1>2, <1>4, ChainFacts DEF Cell
<1>12. BitsTyped /\ LinksTyped(m_table_, hash_next, m_table_owner)
       /\ Chained(m_table_, hash_next, m_table_owner, Null, ClearedTo, ClearedChain)
  BY <1>2 DEF TableInv, TableTyped
<1>13. InPlace(m_table_, hash_next, m_table_owner, t, e, before, n)
  BY <1>2, <1>5, <1>6, <1>11 DEF InPlace
<1> HIDE DEF G, ow1
<1>14. /\ LinksTyped(G[1], G[2], ow1) /\ Chained(G[1], G[2], ow1, Null, ClearedTo, ClearedChain)
       /\ before = Null => G[1][t][e] = hash_next[n] /\ G[2] = hash_next
       /\ before # Null => /\ G[1] = m_table_ /\ G[2] = Changed(hash_next, before, hash_next[n])
                           /\ before # n
  <2>1. t # Null /\ t \in Tables /\ e \in Table!Buckets(t)
    BY <1>2, <1>3
  <2>2. G = Unlinking(m_table_, hash_next, t, before, n)
    BY DEF G
  <2> QED BY <1>12, <1>13, <2>1, <2>2, UnlinkChained DEF ow1
<1>15. H = Deleting(G[1], G[2], d, n)
  BY DEF H
<1>16. /\ ow1[n] = Null /\ ow1 \in [Nodes -> Tables \union {Null}]
       /\ m_table_owner' = Changed(ow1, n, Table!NewOwner(d))
  <2>1. m_table_owner \in [Nodes -> Tables \union {Null}]
    BY <1>12 DEF LinksTyped
  <2> QED BY <1>1, <1>11, <2>1 DEF ow1, Changed
<1>17. LinksTyped(m_table_', hash_next', m_table_owner')
       /\ Chained(m_table_', hash_next', m_table_owner', Null, ClearedTo, ClearedChain)
  <2>1. /\ LinksTyped(H[1], H[2], Changed(ow1, n, Table!NewOwner(d)))
        /\ Chained(H[1], H[2], Changed(ow1, n, Table!NewOwner(d)), Null, ClearedTo, ClearedChain)
    <3>1. d \in Tables => d # Null
      BY <1>3
    <3> QED BY <1>1, <1>11, <1>12, <1>14, <1>15, <1>16, <3>1, DeletedChained
  <2> QED BY <1>1, <1>16, <2>1
<1>18. Chained(m_table_', hash_next', m_table_owner', ClearedTable', ClearedTo', ClearedChain')
  <2>1. ClearedTable' = Null /\ ClearedTo' = ClearedTo /\ ClearedChain' = ClearedChain
    BY <1>1, <1>7 DEF ClearedTable, ClearedTo, ClearedChain
  <2> QED BY <1>17, <2>1
<1>19. /\ \A m \in Nodes \ {n} : H[2][m] = G[2][m]
       /\ \A u \in Tables \ {d} : H[1][u] = G[1][u]
  BY <1>11, <1>14, <1>15, DeletedElsewhere
<1>20. t # d /\ H[1][t] = G[1][t]
  BY <1>1, <1>2, <1>19 DEF Table!HashTableAssumption
<1>21. ErasePlace'
  <2>1. ErasedCell' = ErasedCell \ {n}
    <3>1. m_table_owner'[n] # t /\ \A m \in Nodes \ {n} : m_table_owner'[m] = m_table_owner[m]
      <4>1. Table!NewOwner(d) # t
        BY <1>2, <1>3, <1>20 DEF Table!NewOwner
      <4> QED BY <1>1, <1>11, <1>12, <4>1 DEF LinksTyped
    <3> QED BY <1>2, <1>9, <3>1 DEF Cell
  <2>2. Table!Current' = hash_next[n]
    <3>1. CASE before = Null
      BY <1>1, <1>8, <1>14, <1>20, <3>1
    <3>2. CASE before # Null
      <4>1. before \in Nodes /\ before # n
        BY <1>2, <1>5, <1>14, <3>2 DEF Cell
      <4>2. hash_next'[before] = G[2][before]
        BY <1>1, <1>19, <4>1
      <4>3. G[2][before] = hash_next[n]
        BY <1>12, <1>14, <3>2, <4>1 DEF LinksTyped, Changed
      <4> QED BY <1>8, <3>2, <4>2, <4>3
    <3> QED BY <3>1, <3>2
  <2>3. IsChain(hash_next[n], B \ {n}, hash_next')
    <3>1. \A m \in B \ {n} : hash_next'[m] = hash_next[m]
      <4>1. ASSUME NEW m \in B \ {n} PROVE hash_next'[m] = hash_next[m]
        <5>1. m \in Nodes \ {n} /\ m # before
          BY <1>2, <1>4 DEF Cell
        <5>2. G[2][m] = hash_next[m]
          BY <1>12, <1>14, <5>1 DEF LinksTyped, Changed
        <5> QED BY <1>1, <1>19, <5>1, <5>2
      <4> QED BY <4>1
    <3> QED BY <1>1, <1>4, <3>1, ChainPop
  <2>4. B \ {n} \in SUBSET ((ErasedCell \ {n}) \ {before})
    BY <1>4
  <2>5. \A m \in (ErasedCell \ {n}) \ (B \ {n}) : NodeKey[m] # call.key
    BY <1>4
  <2>6. before # Null => before \in ErasedCell \ {n}
    BY <1>5, <1>14
  <2> QED BY <1>7, <2>1, <2>2, <2>3, <2>4, <2>5, <2>6 DEF ErasePlace
<1>22. ClearPlace'
  BY <1>7 DEF ClearPlace
<1>23. IterTyped(iter') /\ IterAt(iter', expected', visited', hash_next', m_table_owner')
  <2>1. IterTyped(iter) /\ expected \in SUBSET Nodes
    BY DEF TableInv, TableTyped
  <2>2. CASE iter.node = n
    <3>1. iter' = Table!NoIterator
      BY <1>1, <2>2
    <3> QED BY <3>1 DEF Table!NoIterator, IterTyped, IterAt
  <2>3. CASE iter.node # n
    <3>1. iter' = iter
      BY <1>1, <2>3
    <3>2. IterAt(iter, expected, visited, hash_next, m_table_owner)
      BY DEF TableInv
    <3>3. IterAt(iter, expected \ {n}, visited \ {n}, G[2], ow1)
      BY <1>2, <1>12, <1>13, <1>14, <2>1, <2>3, <3>2, IterLoses DEF ow1
    <3>4. Table!NewOwner(d) \in Tables \union {Null}
      BY DEF Table!NewOwner
    <3>5. IterAt(iter, expected \ {n}, visited \ {n}, H[2], Changed(ow1, n, Table!NewOwner(d)))
      <4>1. expected \ {n} \in SUBSET Nodes
        BY <2>1
      <4> QED BY <1>11, <1>16, <1>19, <2>1, <3>3, <3>4, <4>1, IterReceives
    <3> QED BY <1>1, <1>16, <2>1, <3>1, <3>5
  <2> QED BY <2>2, <2>3
<1>24. Counted' /\ m_table_size_' \in [Tables -> Nat]
  <2>1. m_table_size_ \in [Tables -> Nat] /\ m_table_owner \in [Nodes -> Tables \union {Null}]
    BY <1>12 DEF TableInv, TableTyped, LinksTyped
  <2>2. m_table_size_' = IF d \in Tables THEN [m_table_size_ EXCEPT ![d] = @ + 1] ELSE m_table_size_
    BY <1>1 DEF Table!Received
  <2>3. m_table_owner' = [m_table_owner EXCEPT ![n] = IF d \in Tables THEN d ELSE Null]
    BY <1>1 DEF Table!NewOwner
  <2>4. m_table_size_' \in [Tables -> Nat]
    BY <2>1, <2>2
  <2>5. ASSUME NEW u \in Tables
        PROVE  m_table_size_'[u] = Cardinality(OwnedBy(m_table_owner', u))
                                     + IF u = t THEN call.count + 1 ELSE 0
    <3> DEFINE S == OwnedBy(m_table_owner, u)
    <3>1. m_table_size_[u] = Cardinality(S) + IF u = t THEN call.count ELSE 0
      <4>1. u # t => m_table_size_[u] = Cardinality(S)
        BY <1>1 DEF TableInv, Counted, t
      <4>2. u = t => m_table_size_[u] = Cardinality(S) + call.count
        BY <1>1 DEF TableInv, Counted, t
      <4>3. Cardinality(S) \in Nat
        BY OneMore DEF OwnedBy
      <4> QED BY <4>1, <4>2, <4>3
    <3>2. S \in SUBSET Nodes
      BY DEF OwnedBy
    <3>3. CASE u = t
      <4>1. OwnedBy(m_table_owner', u) = S \ {n} /\ n \in S
        BY <1>3, <1>11, <1>20, <2>1, <2>3, <3>3 DEF OwnedBy
      <4> HIDE DEF S
      <4>2. Cardinality(S \ {n}) = Cardinality(S) - 1 /\ Cardinality(S) \in Nat
        BY <3>2, <4>1, OneMore
      <4>3. m_table_size_'[u] = m_table_size_[u]
        BY <1>20, <2>1, <2>2, <3>3
      <4>4. call.count \in Nat
        BY <1>2
      <4> QED BY <3>1, <3>3, <4>1, <4>2, <4>3, <4>4
    <3>4. CASE u = d
      <4>1. OwnedBy(m_table_owner', u) = S \union {n} /\ n \in Nodes \ S
        BY <1>11, <1>20, <2>1, <2>3, <3>4 DEF OwnedBy
      <4> HIDE DEF S
      <4>2. Cardinality(S \union {n}) = Cardinality(S) + 1 /\ Cardinality(S) \in Nat
        BY <3>2, <4>1, OneMore
      <4>3. m_table_size_'[u] = m_table_size_[u] + 1
        BY <2>1, <2>2, <3>4
      <4> QED BY <1>20, <3>1, <3>4, <4>1, <4>2, <4>3
    <3>5. CASE u # t /\ u # d
      <4>1. OwnedBy(m_table_owner', u) = S
        BY <1>3, <1>11, <2>1, <2>3, <3>5 DEF OwnedBy
      <4>2. m_table_size_'[u] = m_table_size_[u]
        BY <2>1, <2>2, <3>5
      <4> QED BY <3>1, <3>5, <4>1, <4>2
    <3> QED BY <3>3, <3>4, <3>5
  <2>6. \A u \in Tables : Cardinality(OwnedBy(m_table_owner', u)) \in Nat
    BY OneMore DEF OwnedBy
  <2> QED BY <1>7, <2>4, <2>5, <2>6 DEF Counted, OwnedBy
<1>25. TableTyped'
  <2>1. CallTyped'
    BY <1>1, <1>2, <1>7 DEF CallTyped, t
  <2> QED BY <1>1, <1>23, <1>24, <2>1, SameBits DEF TableInv, TableTyped, IterTyped
<1> QED BY <1>1, <1>17, <1>18, <1>21, <1>22, <1>23, <1>24, <1>25, SameBits DEF TableInv

(* A walk begins at the first node and goes from node to node. *)
LEMMA WalkSteps ==
  ASSUME Table!HashTableAssumption, NEW first, NEW C, NEW rank \in [Nodes -> Nat],
         Ranked(first, C, hash_next, rank)
  PROVE  LET w == Table!Chain(first)
             N == Cardinality(C)
         IN /\ N \in Nat /\ w \in [1..N -> C]
            /\ \A i, j \in 1..N : w[i] = w[j] => i = j
            /\ \A n \in C : \E i \in 1..N : w[i] = n
            /\ N # 0 => w[1] = first
            /\ \A i \in 1..N : i # 1 => hash_next[w[i - 1]] = w[i]
<1> DEFINE w == Table!Chain(first)
           N == Cardinality(C)
<1>1. N \in Nat /\ Walks(w, first, C, rank) /\ C \subseteq Nodes
  <2>1. C \subseteq Nodes
    BY DEF Ranked
  <2> QED BY <2>1, WalkOfChain
<1> HIDE DEF w
<1>2. /\ w \in [1..N -> C] /\ \A i \in 1..N : rank[w[i]] = N - i
      /\ \A n \in C : rank[n] \in 0..N - 1 /\ w[N - rank[n]] = n
  BY <1>1 DEF Walks
<1> HIDE DEF N
<1>3. \A i, j \in 1..N : w[i] = w[j] => i = j
  BY <1>1, <1>2
<1>4. \A n \in C : \E i \in 1..N : w[i] = n
  <2>1. ASSUME NEW n \in C PROVE \E i \in 1..N : w[i] = n
    <3>1. N - rank[n] \in 1..N /\ w[N - rank[n]] = n
      BY <1>1, <1>2
    <3> QED BY <3>1
  <2> QED BY <2>1
<1>5. N # 0 => w[1] = first
  <2> SUFFICES ASSUME N # 0 PROVE w[1] = first
    OBVIOUS
  <2>1. 1 \in 1..N /\ w[1] \in C /\ rank[w[1]] = N - 1
    BY <1>1, <1>2
  <2>2. first \in C /\ rank[w[1]] <= rank[first]
    BY <2>1 DEF Ranked
  <2>3. rank[first] = N - 1
    BY <1>1, <1>2, <2>1, <2>2
  <2> QED BY <2>1, <2>2, <2>3 DEF Ranked
<1>6. ASSUME NEW i \in 1..N, i # 1
      PROVE  hash_next[w[i - 1]] = w[i]
  <2>1. i - 1 \in 1..N /\ N - (i - 1) # 0 /\ N - (i - 1) - 1 = N - i
    BY <1>1, <1>6
  <2>2. w[i - 1] \in C /\ rank[w[i - 1]] = N - (i - 1) /\ w[i] \in C /\ rank[w[i]] = N - i
    BY <1>2, <2>1
  <2>3. hash_next[w[i - 1]] \in C /\ rank[hash_next[w[i - 1]]] = N - i
    BY <2>1, <2>2 DEF Ranked
  <2> QED BY <2>2, <2>3 DEF Ranked
<1> QED BY <1>1, <1>2, <1>3, <1>4, <1>5, <1>6 DEF w, N

(* The first node with a key in a sequence of nodes, if there is one. *)
IsWalk(w, N, C) == N \in Nat /\ C \subseteq Nodes /\ w \in [1..N -> C]

LEMMA FirstWithKeyIs ==
  ASSUME Table!HashTableAssumption, NEW N, NEW C, NEW w, IsWalk(w, N, C),
         NEW k, NEW n, n = Table!FirstWithKey(w, k)
  PROVE  /\ n = Null => \A i \in 1..N : NodeKey[w[i]] # k
         /\ n # Null => \E j \in 1..N : /\ n = w[j] /\ NodeKey[w[j]] = k
                                        /\ \A i \in 1..N : NodeKey[w[i]] = k => j <= i
<1> DEFINE found == {i \in 1..N : NodeKey[w[i]] = k}
<1> USE DEF IsWalk
<1>1. found = {i \in DOMAIN w : NodeKey[w[i]] = k}
  OBVIOUS
<1>2. n = IF found = {} THEN Null ELSE w[CHOOSE i \in found : \A j \in found : i <= j]
  BY <1>1 DEF Table!FirstWithKey
<1>3. CASE found = {}
  <2>1. n = Null /\ \A i \in 1..N : NodeKey[w[i]] # k
    BY <1>2, <1>3
  <2> QED BY <2>1
<1>4. CASE found # {}
  <2>1. \E i \in found : \A j \in found : i <= j
    <3>1. found \in SUBSET Nat
      OBVIOUS
    <3> HIDE DEF found
    <3> QED BY <1>4, <3>1, LeastNatural
  <2>2. PICK j \in found : n = w[j] /\ \A i \in found : j <= i
    BY <1>2, <1>4, <2>1
  <2>3. n # Null
    BY <2>2 DEF Table!HashTableAssumption
  <2> QED BY <2>2, <2>3
<1> QED BY <1>3, <1>4

LEMMA ExtractKeepsTable ==
  ASSUME Table!HashTableAssumption, TableInv, NEW t \in Tables, NEW k \in Table!Key,
         Table!Extract(t, k)
  PROVE  TableInv'
<1> DEFINE e == Table!Bucket(t, k)
           C == Cell(m_table_owner, t, e)
           w == Table!Chain(Table!HeadOf(t, k))
           n == Table!FirstWithKey(w, k)
           i == CHOOSE x \in DOMAIN w : w[x] = n
           before == IF i = 1 THEN Null ELSE w[i - 1]
           G == Unlinking(m_table_, hash_next, t, before, n)
<1>1. /\ call.op = "idle" /\ call' = call /\ bits' = bits /\ bits[t] # 0 /\ n # Null
      /\ m_table_' = G[1] /\ hash_next' = G[2]
      /\ m_table_size_' = [m_table_size_ EXCEPT ![t] = @ - 1]
      /\ m_table_owner' = Changed(m_table_owner, n, Null)
      /\ expected' = expected \ {n} /\ visited' = visited \ {n}
      /\ iter' = IF iter.node \in {n} THEN Table!NoIterator ELSE iter
  BY DEF Table!Extract, Table!Idle, Table!Allocated, Table!SetLinks, Table!Leave, Unlinking, Changed
<1>2. BitsTyped /\ LinksTyped(m_table_, hash_next, m_table_owner)
  BY DEF TableInv, TableTyped
<1>3. Null \notin Tables \union Nodes
  BY DEF Table!HashTableAssumption
<1>4. ClearedTable = Null
  BY <1>1 DEF ClearedTable
<1>5. e \in Table!Buckets(t)
  <2>1. PICK m \in Nodes : NodeKey[m] = k
    BY DEF Table!Key
  <2> QED BY <1>1, <1>2, <2>1, BucketIsThere
<1>6. Chained(m_table_, hash_next, m_table_owner, Null, ClearedTo, ClearedChain)
      /\ IsChain(m_table_[t][e], C, hash_next)
  <2>1. Root(m_table_, Null, ClearedTo, ClearedChain, t, e) = m_table_[t][e]
    BY <1>3 DEF Root
  <2> QED BY <1>4, <1>5, <2>1 DEF TableInv, Chained
<1>7. C \subseteq Nodes /\ Table!HeadOf(t, k) = m_table_[t][e]
  BY DEF Cell, Table!HeadOf
<1>8. PICK rank \in [Nodes -> Nat] : Ranked(m_table_[t][e], C, hash_next, rank)
  BY <1>6 DEF IsChain
<1> DEFINE N == Cardinality(C)
<1>9. /\ N \in Nat /\ w \in [1..N -> C]
      /\ \A x, y \in 1..N : w[x] = w[y] => x = y
      /\ N # 0 => w[1] = m_table_[t][e]
      /\ \A x \in 1..N : x # 1 => hash_next[w[x - 1]] = w[x]
  BY <1>7, <1>8, WalkSteps
<1> HIDE DEF e, C, N, w
<1>10. PICK j \in 1..N : n = w[j] /\ NodeKey[w[j]] = k
  <2> HIDE DEF n
  <2>1. n = Table!FirstWithKey(w, k)
    BY DEF n
  <2>2. IsWalk(w, N, C) /\ n # Null
    BY <1>1, <1>7, <1>9 DEF IsWalk
  <2> QED BY <2>1, <2>2, FirstWithKeyIs
<1>11. DOMAIN w = 1..N /\ i = j
  BY <1>9, <1>10
<1> HIDE DEF n, i
<1>12. before = IF j = 1 THEN Null ELSE w[j - 1]
  BY <1>11
<1> HIDE DEF before
<1>13. n \in C /\ n \in Nodes /\ m_table_owner[n] = t
  <2>1. n \in C
    BY <1>9, <1>10
  <2> QED BY <2>1 DEF C, Cell
<1>14. InPlace(m_table_, hash_next, m_table_owner, t, e, before, n)
  <2>1. CASE j = 1
    <3>1. before = Null /\ m_table_[t][e] = n
      BY <1>9, <1>10, <1>12, <2>1
    <3> QED BY <1>13, <3>1 DEF InPlace, C
  <2>2. CASE j # 1
    <3>1. j - 1 \in 1..N
      BY <1>9, <2>2
    <3>2. before = w[j - 1] /\ before \in C /\ hash_next[before] = n
      BY <1>9, <1>10, <1>12, <2>2, <3>1
    <3>3. before # Null
      BY <1>3, <1>7, <3>2
    <3> QED BY <1>13, <3>2, <3>3 DEF InPlace, C
  <2> QED BY <2>1, <2>2
<1> HIDE DEF G
<1>15. /\ LinksTyped(G[1], G[2], Changed(m_table_owner, n, Null))
       /\ Chained(G[1], G[2], Changed(m_table_owner, n, Null), Null, ClearedTo, ClearedChain)
       /\ before = Null => G[2] = hash_next
       /\ before # Null => G[2] = Changed(hash_next, before, hash_next[n])
  <2>1. t # Null /\ G = Unlinking(m_table_, hash_next, t, before, n)
    BY <1>3 DEF G
  <2> QED BY <1>2, <1>5, <1>6, <1>14, <2>1, UnlinkChained
<1>16. /\ LinksTyped(m_table_', hash_next', m_table_owner')
       /\ Chained(m_table_', hash_next', m_table_owner', ClearedTable', ClearedTo', ClearedChain')
  <2>1. ClearedTable' = Null /\ ClearedTo' = ClearedTo /\ ClearedChain' = ClearedChain
    BY <1>1 DEF ClearedTable, ClearedTo, ClearedChain
  <2> QED BY <1>1, <1>15, <2>1
<1>17. IterTyped(iter') /\ IterAt(iter', expected', visited', hash_next', m_table_owner')
  <2>1. IterTyped(iter) /\ expected \in SUBSET Nodes
    BY DEF TableInv, TableTyped
  <2>2. CASE iter.node = n
    <3>1. iter' = Table!NoIterator
      BY <1>1, <2>2
    <3> QED BY <3>1 DEF Table!NoIterator, IterTyped, IterAt
  <2>3. CASE iter.node # n
    <3>1. iter' = iter
      BY <1>1, <2>3
    <3>2. IterAt(iter, expected, visited, hash_next, m_table_owner)
      BY DEF TableInv
    <3>3. IterAt(iter, expected \ {n}, visited \ {n}, G[2], Changed(m_table_owner, n, Null))
      BY <1>2, <1>5, <1>6, <1>14, <1>15, <2>1, <2>3, <3>2, IterLoses
    <3> QED BY <1>1, <2>1, <3>1, <3>3
  <2> QED BY <2>2, <2>3
<1>18. Counted' /\ m_table_size_' \in [Tables -> Nat]
  <2>1. m_table_size_ \in [Tables -> Nat] /\ m_table_owner \in [Nodes -> Tables \union {Null}]
    BY <1>2 DEF TableInv, TableTyped, LinksTyped
  <2>2. ASSUME NEW u \in Tables
        PROVE  m_table_size_'[u] = Cardinality(OwnedBy(m_table_owner', u)) /\ m_table_size_'[u] \in Nat
    <3> DEFINE S == OwnedBy(m_table_owner, u)
    <3>1. m_table_size_[u] = Cardinality(S) /\ S \in SUBSET Nodes
      BY <1>1 DEF TableInv, Counted, OwnedBy
    <3>2. CASE u = t
      <4>1. OwnedBy(m_table_owner', u) = S \ {n} /\ n \in S
        BY <1>1, <1>3, <1>13, <2>1, <3>2 DEF OwnedBy, Changed
      <4> HIDE DEF S
      <4>2. Cardinality(S \ {n}) = Cardinality(S) - 1 /\ Cardinality(S) \in Nat /\ Cardinality(S) > 0
        BY <3>1, <4>1, OneMore
      <4>3. m_table_size_'[u] = m_table_size_[u] - 1
        BY <1>1, <2>1, <3>2
      <4> QED BY <3>1, <4>1, <4>2, <4>3
    <3>3. CASE u # t
      <4>1. OwnedBy(m_table_owner', u) = S
        BY <1>1, <1>3, <1>13, <2>1, <3>3 DEF OwnedBy, Changed
      <4>2. m_table_size_'[u] = m_table_size_[u]
        BY <1>1, <2>1, <3>3
      <4> QED BY <2>1, <3>1, <4>1, <4>2
    <3> QED BY <3>2, <3>3
  <2>3. m_table_size_' \in [Tables -> Nat]
    BY <1>1, <2>1, <2>2
  <2> QED BY <1>1, <2>2, <2>3 DEF Counted, OwnedBy
<1>19. TableTyped'
  BY <1>1, <1>17, <1>18, SameBits DEF TableInv, TableTyped, CallTyped, IterTyped
<1>20. ErasePlace' /\ ClearPlace'
  BY <1>1 DEF ErasePlace, ClearPlace
<1> QED BY <1>1, <1>16, <1>17, <1>18, <1>19, <1>20, SameBits DEF TableInv

LEMMA BucketsAreNaturals ==
  ASSUME NEW t
  PROVE  Table!Buckets(t) \subseteq Nat /\ \A b \in Table!Buckets(t) : b # -1
BY DEF Table!Buckets

(* A table that is cleared or released takes its nodes from the iterator. *)
LEMMA IterLeaves ==
  ASSUME Table!HashTableAssumption, NEW it, IterTyped(it), NEW ex \in SUBSET Nodes, NEW vi,
         NEW hn, NEW ow, NEW ow2, NEW t \in Tables,
         \A m \in Nodes : IF ow[m] = t THEN ow2[m] \in {t, Null} ELSE ow2[m] = ow[m],
         it.node \notin OwnedBy(ow, t), IterAt(it, ex, vi, hn, ow)
  PROVE  /\ IterAt(it, ex \ OwnedBy(ow, t), vi \ OwnedBy(ow, t), hn, ow2)
         /\ it.table = t => it.node = Null /\ ex \ OwnedBy(ow, t) = {}
<1> DEFINE S == OwnedBy(ow, t)
<1>1. CASE it.table = t
  <2>1. it.node = Null /\ ex \ S = {}
    BY <1>1 DEF IterAt, Cell, OwnedBy, Table!HashTableAssumption
  <2> HIDE DEF S
  <2>2. IterAt(it, ex \ S, vi \ S, hn, ow2)
    BY <2>1 DEF IterAt
  <2> QED BY <2>1, <2>2 DEF S
<1>2. CASE it.table \in Tables \ {t}
  <2> DEFINE u == it.table
  <2>1. \A m \in Nodes : ow2[m] = u <=> ow[m] = u
    BY <1>2 DEF Table!HashTableAssumption
  <2>2. Later(it, ow2) = Later(it, ow) /\ \A b : Cell(ow2, u, b) = Cell(ow, u, b)
    BY <2>1 DEF Later, Cell
  <2>3. u # Null /\ \A m \in ex : ow[m] = u
    BY <1>2 DEF IterAt, Table!HashTableAssumption
  <2>4. ex \ S = ex /\ ex \ (vi \ S) = ex \ vi /\ ex \cap (vi \ S) = ex \cap vi
    BY <1>2, <2>3 DEF OwnedBy
  <2> HIDE DEF S
  <2>5. \A m \in ex : ow2[m] = u
    BY <2>1, <2>3
  <2>6. IterAt(it, ex \ S, vi \ S, hn, ow2)
    BY <2>2, <2>3, <2>4, <2>5 DEF IterAt
  <2> QED BY <1>2, <2>6 DEF S
<1>3. CASE it.table = Null
  BY <1>3 DEF IterAt, Table!HashTableAssumption
<1> QED BY <1>1, <1>2, <1>3 DEF IterTyped

LEMMA ClearKeepsTable ==
  ASSUME Table!HashTableAssumption, TableInv, NEW t \in Tables, Table!Clear(t)
  PROVE  TableInv'
<1> DEFINE S == OwnedBy(m_table_owner, t)
<1>1. /\ call.op = "idle" /\ bits' = bits
      /\ call' = [op |-> "clear", table |-> t, it |-> 0, n |-> Null]
      /\ m_table_' = m_table_ /\ hash_next' = hash_next /\ m_table_size_' = m_table_size_
      /\ m_table_owner' = m_table_owner
      /\ expected' = expected \ S /\ visited' = visited \ S
      /\ iter' = IF iter.node \in S THEN Table!NoIterator ELSE iter
  BY DEF Table!Clear, Table!Idle, Table!nodes, Table!Leave, Table!Owned, OwnedBy
<1>2. /\ call'.op = "clear" /\ call'.table = t /\ call'.it = 0 /\ call'.n = Null
      /\ call' \in [op : {"clear"}, table : Tables, it : Nat, n : Nodes \union {Null}]
  BY <1>1
<1>3. Null \notin Tables
  BY DEF Table!HashTableAssumption
<1>4. Chained(m_table_', hash_next', m_table_owner', ClearedTable', ClearedTo', ClearedChain')
  <2>1. ClearedTable' = t /\ ClearedTo' = 0 /\ ClearedTable = Null
    BY <1>1, <1>2 DEF ClearedTable, ClearedTo
  <2>2. ASSUME NEW u \in Tables, NEW b \in Table!Buckets(u)
        PROVE  Root(m_table_', ClearedTable', ClearedTo', ClearedChain', u, b)
                 = Root(m_table_, ClearedTable, ClearedTo, ClearedChain, u, b)
    <3>1. b # 0 - 1
      BY BucketsAreNaturals
    <3> QED BY <1>1, <1>3, <2>1, <3>1 DEF Root
  <2> QED BY <1>1, <2>2 DEF TableInv, Chained
<1>5. IterTyped(iter) /\ IterAt(iter, expected, visited, hash_next, m_table_owner) /\ expected \in SUBSET Nodes
  BY DEF TableInv, TableTyped
<1>6. /\ IterTyped(iter') /\ IterAt(iter', expected', visited', hash_next', m_table_owner')
      /\ iter'.table = t => iter'.node = Null /\ expected' = {}
  <2>1. CASE iter.node \in S
    <3>1. iter' = Table!NoIterator
      BY <1>1, <2>1
    <3> QED BY <1>3, <3>1 DEF Table!NoIterator, IterTyped, IterAt
  <2>2. CASE iter.node \notin S
    <3>1. iter' = iter
      BY <1>1, <2>2
    <3>2. /\ IterAt(iter, expected \ S, visited \ S, hash_next, m_table_owner)
          /\ iter.table = t => iter.node = Null /\ expected \ S = {}
      BY <1>5, <2>2, IterLeaves
    <3> QED BY <1>1, <1>5, <3>1, <3>2
  <2> QED BY <2>1, <2>2
<1>7. TableTyped'
  <2>1. CallTyped'
    BY <1>2 DEF CallTyped
  <2> QED BY <1>1, <1>6, <2>1, SameBits DEF TableInv, TableTyped, IterTyped
<1>8. Counted'
  BY <1>1, <1>2 DEF TableInv, Counted, OwnedBy
<1>9. ErasePlace'
  BY <1>2 DEF ErasePlace
<1>10. ClearPlace'
  <2>1. \A b \in Table!Buckets(t)' : ~(b < 0)
    BY <1>1, SameBits, BucketsAreNaturals
  <2> QED BY <1>2, <1>6, <2>1 DEF ClearPlace
<1> QED BY <1>1, <1>4, <1>6, <1>7, <1>8, <1>9, <1>10, SameBits DEF TableInv

LEMMA ClearingCall ==
  ASSUME TableInv, call.op = "clear"
  PROVE  /\ call \in [op : {"clear"}, table : Tables, it : Nat, n : Nodes \union {Null}]
         /\ ClearedTable = call.table /\ ClearedTo = call.it /\ ClearedChain = call.n
BY DEF TableInv, TableTyped, CallTyped, ClearedTable, ClearedTo, ClearedChain

LEMMA ClearBucketKeepsTable ==
  ASSUME Table!HashTableAssumption, TableInv, Table!ClearBucket
  PROVE  TableInv'
<1> DEFINE t == call.table
           i == call.it
<1>1. /\ call.op = "clear" /\ call.n = Null /\ i \in Table!Buckets(t) /\ bits' = bits
      /\ call' = [call EXCEPT !.it = @ + 1, !.n = m_table_[t][i]]
      /\ m_table_' = [m_table_ EXCEPT ![t][i] = Null]
      /\ hash_next' = hash_next /\ m_table_size_' = m_table_size_ /\ m_table_owner' = m_table_owner
      /\ iter' = iter /\ expected' = expected /\ visited' = visited
  BY DEF Table!ClearBucket, Table!iteration
<1>2. /\ call \in [op : {"clear"}, table : Tables, it : Nat, n : Nodes \union {Null}]
      /\ ClearedTable = t /\ ClearedTo = i /\ ClearedChain = Null /\ t \in Tables /\ i \in Nat
  BY <1>1, ClearingCall
<1>3. LinksTyped(m_table_, hash_next, m_table_owner)
  BY DEF TableInv
<1>4. m_table_[t][i] \in Nodes \union {Null}
  BY <1>1, <1>2, <1>3 DEF LinksTyped
<1>5. /\ call'.op = "clear" /\ call'.table = t /\ call'.it = i + 1 /\ call'.n = m_table_[t][i]
      /\ call' \in [op : {"clear"}, table : Tables, it : Nat, n : Nodes \union {Null}]
  <2> DEFINE j == i + 1
             x == m_table_[t][i]
  <2>1. j \in Nat /\ x \in Nodes \union {Null} /\ call' = [call EXCEPT !.it = j, !.n = x]
    BY <1>1, <1>2, <1>4
  <2> HIDE DEF j, x
  <2>2. call'.op = "clear" /\ call'.table = t /\ call'.it = j /\ call'.n = x
    BY <1>2, <2>1
  <2>3. call' \in [op : {"clear"}, table : Tables, it : Nat, n : Nodes \union {Null}]
    BY <1>2, <2>1
  <2> QED BY <2>2, <2>3 DEF j, x
<1>6. /\ \A b \in Table!Buckets(t) : b < i => m_table_[t][b] = Null
      /\ iter.table = t => iter.node = Null /\ expected = {}
  BY <1>1 DEF TableInv, ClearPlace
<1> HIDE DEF t, i
<1>7. /\ m_table_'[t][i] = Null
      /\ \A u \in Tables : \A b \in Table!Buckets(u) :
           ~(u = t /\ b = i) => m_table_'[u][b] = m_table_[u][b]
  <2>1. m_table_' = [m_table_ EXCEPT ![t][i] = Null] /\ t \in Tables /\ i \in Table!Buckets(t)
    BY <1>1, <1>2
  <2> QED BY <1>3, <2>1 DEF LinksTyped
<1>8. LinksTyped(m_table_', hash_next', m_table_owner')
  <2>1. m_table_' = [u \in Tables |-> m_table_'[u]]
    BY <1>1, <1>3 DEF LinksTyped
  <2>2. ASSUME NEW u \in Tables PROVE m_table_'[u] \in [Table!Buckets(u) -> Nodes \union {Null}]
    BY <1>1, <1>3 DEF LinksTyped
  <2> QED BY <1>1, <1>3, <2>1, <2>2 DEF LinksTyped
<1>9. Chained(m_table_', hash_next', m_table_owner', ClearedTable', ClearedTo', ClearedChain')
  <2>1. ClearedTable' = t /\ ClearedTo' = i + 1 /\ ClearedChain' = m_table_[t][i]
    BY <1>5 DEF ClearedTable, ClearedTo, ClearedChain
  <2>2. i + 1 - 1 = i /\ i # i - 1
    BY <1>2
  <2>3. ASSUME NEW u \in Tables, NEW b \in Table!Buckets(u)
        PROVE  Root(m_table_', t, i + 1, m_table_[t][i], u, b) = Root(m_table_, t, i, Null, u, b)
    <3>0. b \in Nat /\ i \in Nat /\ b # 0 - 1
      BY <1>2, BucketsAreNaturals
    <3>1. CASE u = t /\ b = i
      BY <2>2, <3>0, <3>1 DEF Root
    <3>2. CASE u = t /\ b = i - 1
      <4>1. b < i
        BY <1>2, <3>2
      <4> QED BY <1>6, <1>7, <2>2, <3>0, <3>2, <4>1 DEF Root
    <3>3. CASE ~(u = t /\ b = i) /\ ~(u = t /\ b = i - 1)
      BY <1>7, <2>2, <3>0, <3>3 DEF Root
    <3> QED BY <3>1, <3>2, <3>3
  <2>4. Chained(m_table_, hash_next, m_table_owner, t, i, Null)
    BY <1>2 DEF TableInv
  <2> QED BY <1>1, <2>1, <2>3, <2>4 DEF Chained
<1>10. ClearPlace'
  <2>1. \A b \in Table!Buckets(t) : b < i + 1 => m_table_'[t][b] = Null
    <3>1. ASSUME NEW b \in Table!Buckets(t), b < i + 1 PROVE m_table_'[t][b] = Null
      <4>1. b \in Nat
        BY BucketsAreNaturals
      <4>2. b = i \/ b < i
        BY <1>2, <3>1, <4>1
      <4> QED BY <1>2, <1>6, <1>7, <4>2
    <3> QED BY <3>1
  <2>2. i + 1 # 0 /\ i + 1 - 1 \in Table!Buckets(t)
    BY <1>1, <1>2
  <2>4. Table!Buckets(call.table)' = Table!Buckets(t)
    BY <1>1, <1>5 DEF Table!Buckets
  <2>3. iter' = iter /\ expected' = expected
    BY <1>1
  <2>5. call'.it # 0 /\ call'.it - 1 \in Table!Buckets(call.table)'
    <3>1. call'.it = i + 1 /\ i \in Nat
      BY <1>2, <1>5
    <3>2. call'.it # 0 /\ call'.it - 1 = i
      BY <3>1
    <3> QED BY <1>1, <2>4, <3>2
  <2>6. \A b \in Table!Buckets(call.table)' : b < call'.it => m_table_'[call'.table][b] = Null
    BY <1>5, <2>1, <2>4
  <2>7. iter'.table = call'.table => iter'.node = Null /\ expected' = {}
    BY <1>5, <1>6, <2>3
  <2> QED BY <2>5, <2>6, <2>7 DEF ClearPlace
<1>11. TableTyped'
  <2>1. CallTyped'
    BY <1>5 DEF CallTyped
  <2> QED BY <1>1, <2>1, SameBits DEF TableInv, TableTyped, IterTyped
<1>12. Counted' /\ ErasePlace'
  BY <1>1, <1>5 DEF TableInv, Counted, OwnedBy, ErasePlace, t
<1>13. IterAt(iter', expected', visited', hash_next', m_table_owner')
  BY <1>1 DEF TableInv
<1> QED BY <1>1, <1>8, <1>9, <1>10, <1>11, <1>12, <1>13, SameBits DEF TableInv

(* clear() takes the first node off the chain that it holds. *)
LEMMA ClearPop ==
  ASSUME Table!HashTableAssumption, BitsTyped, NEW mt, NEW hn, NEW ow, LinksTyped(mt, hn, ow),
         NEW t \in Tables, NEW i \in Nat, i # 0, i - 1 \in Table!Buckets(t), NEW n, n # Null,
         Chained(mt, hn, ow, t, i, n)
  PROVE  /\ n \in Nodes /\ ow[n] = t
         /\ LinksTyped(mt, hn, Changed(ow, n, Null))
         /\ Chained(mt, hn, Changed(ow, n, Null), t, i, hn[n])
<1> DEFINE ow2 == Changed(ow, n, Null)
           j == i - 1
<1>1. Root(mt, t, i, n, t, j) = n /\ Root(mt, t, i, hn[n], t, j) = hn[n]
  BY DEF Root
<1>2. IsChain(n, Cell(ow, t, j), hn)
  BY <1>1 DEF Chained
<1>3. n \in Cell(ow, t, j) /\ n \in Nodes /\ ow[n] = t
  BY <1>2, ChainFacts DEF Cell
<1>4. ow \in [Nodes -> Tables \union {Null}] /\ Null \notin Tables
  BY DEF LinksTyped, Table!HashTableAssumption
<1>5. ow2[n] = Null /\ \A m \in Nodes \ {n} : ow2[m] = ow[m]
  BY <1>3, <1>4 DEF Changed
<1>6. ow2 \in [Nodes -> Tables \union {Null}]
  BY <1>4 DEF Changed
<1> HIDE DEF ow2, j
<1>7. LinksTyped(mt, hn, ow2)
  BY <1>4, <1>5, <1>6 DEF LinksTyped
<1>8. ASSUME NEW u \in Tables, NEW b \in Table!Buckets(u)
      PROVE  IsChain(Root(mt, t, i, hn[n], u, b), Cell(ow2, u, b), hn)
  <2>1. CASE u = t /\ b = j
    <3>1. Cell(ow2, u, b) = Cell(ow, t, j) \ {n}
      BY <1>4, <1>5, <2>1 DEF Cell
    <3>2. IsChain(hn[n], Cell(ow, t, j) \ {n}, hn)
      BY <1>2, ChainPop
    <3> QED BY <1>1, <2>1, <3>1, <3>2
  <2>2. CASE ~(u = t /\ b = j)
    <3>1. n \notin Cell(ow, u, b)
      BY <1>3, <2>2, CellFacts DEF j
    <3>2. Cell(ow2, u, b) = Cell(ow, u, b)
      BY <1>4, <1>5, <3>1 DEF Cell
    <3>3. Root(mt, t, i, hn[n], u, b) = Root(mt, t, i, n, u, b)
      BY <2>2 DEF Root, j
    <3> QED BY <3>2, <3>3 DEF Chained
  <2> QED BY <2>1, <2>2
<1>9. Chained(mt, hn, ow2, t, i, hn[n])
  BY <1>8 DEF Chained
<1> QED BY <1>3, <1>7, <1>9 DEF ow2

LEMMA ClearNodeKeepsTable ==
  ASSUME Table!HashTableAssumption, TableInv,
         NEW d \in {"none", "delete"} \union Tables, Table!ClearNode(d)
  PROVE  TableInv'
<1> DEFINE n == call.n
           t == call.table
           i == call.it
           H == Deleting(m_table_, hash_next, d, n)
           ow1 == Changed(m_table_owner, n, Null)
<1>1. /\ call.op = "clear" /\ n # Null /\ bits' = bits
      /\ d \in {"none", "delete"} \union (Tables \ {t}) /\ Table!Usable(d)
      /\ call' = [call EXCEPT !.n = hash_next[n]]
      /\ m_table_' = H[1] /\ hash_next' = H[2]
      /\ m_table_size_' = Table!Received(m_table_size_, d)
      /\ m_table_owner' = [m_table_owner EXCEPT ![n] = Table!NewOwner(d)]
      /\ iter' = iter /\ expected' = expected /\ visited' = visited
  BY DEF Table!ClearNode, Table!SetLinks, Table!Deleter, Table!iteration, Deleting
<1>2. /\ call \in [op : {"clear"}, table : Tables, it : Nat, n : Nodes \union {Null}]
      /\ ClearedTable = t /\ ClearedTo = i /\ ClearedChain = n /\ t \in Tables /\ i \in Nat
  BY <1>1, ClearingCall
<1>3. /\ i # 0 /\ i - 1 \in Table!Buckets(t)
      /\ \A b \in Table!Buckets(t) : b < i => m_table_[t][b] = Null
      /\ iter.table = t => iter.node = Null /\ expected = {}
  BY <1>1 DEF TableInv, ClearPlace
<1>4. BitsTyped /\ LinksTyped(m_table_, hash_next, m_table_owner)
  BY DEF TableInv, TableTyped
<1>5. Null \notin Tables \union Nodes
  BY DEF Table!HashTableAssumption
<1>6. hash_next[n] \in Nodes \union {Null}
  BY <1>1, <1>2, <1>4 DEF LinksTyped
<1>7. /\ call'.op = "clear" /\ call'.table = t /\ call'.it = i /\ call'.n = hash_next[n]
      /\ call' \in [op : {"clear"}, table : Tables, it : Nat, n : Nodes \union {Null}]
  <2> DEFINE x == hash_next[n]
  <2>1. x \in Nodes \union {Null} /\ call' = [call EXCEPT !.n = x]
    BY <1>1, <1>6
  <2> HIDE DEF x
  <2>2. call'.op = "clear" /\ call'.table = t /\ call'.it = i /\ call'.n = x
    BY <1>2, <2>1
  <2>3. call' \in [op : {"clear"}, table : Tables, it : Nat, n : Nodes \union {Null}]
    BY <1>2, <2>1
  <2> QED BY <2>2, <2>3 DEF x
<1>8. Table!Buckets(call.table)' = Table!Buckets(t)
  BY <1>1, <1>7 DEF Table!Buckets
<1>9. Chained(m_table_, hash_next, m_table_owner, t, i, n)
  BY <1>2 DEF TableInv
<1> HIDE DEF n, t, i, H, ow1
<1>10. /\ n \in Nodes /\ m_table_owner[n] = t
       /\ LinksTyped(m_table_, hash_next, ow1)
       /\ Chained(m_table_, hash_next, ow1, t, i, hash_next[n])
  BY <1>1, <1>2, <1>3, <1>4, <1>9, ClearPop DEF ow1
<1>11. /\ ow1[n] = Null /\ ow1 \in [Nodes -> Tables \union {Null}]
       /\ m_table_owner' = Changed(ow1, n, Table!NewOwner(d))
  <2>1. m_table_owner \in [Nodes -> Tables \union {Null}]
    BY <1>4 DEF LinksTyped
  <2> QED BY <1>1, <1>10, <2>1 DEF ow1, Changed
<1>12. H = Deleting(m_table_, hash_next, d, n)
  BY DEF H
<1>13. /\ LinksTyped(H[1], H[2], Changed(ow1, n, Table!NewOwner(d)))
       /\ Chained(H[1], H[2], Changed(ow1, n, Table!NewOwner(d)), t, i, hash_next[n])
  <2>1. d \in Tables => d # t
    BY <1>1, <1>2 DEF Table!HashTableAssumption
  <2> QED BY <1>1, <1>4, <1>10, <1>11, <1>12, <2>1, DeletedChained
<1>14. LinksTyped(m_table_', hash_next', m_table_owner')
       /\ Chained(m_table_', hash_next', m_table_owner', ClearedTable', ClearedTo', ClearedChain')
  <2>1. ClearedTable' = t /\ ClearedTo' = i /\ ClearedChain' = hash_next[n]
    BY <1>7 DEF ClearedTable, ClearedTo, ClearedChain
  <2> QED BY <1>1, <1>11, <1>13, <2>1
<1>15. /\ \A m \in Nodes \ {n} : H[2][m] = hash_next[m]
       /\ \A u \in Tables \ {d} : H[1][u] = m_table_[u]
  <2>1. LinksTyped(m_table_, hash_next, m_table_owner) /\ n \in Nodes
    BY <1>4, <1>10
  <2> QED BY <1>12, <2>1, DeletedElsewhere
<1>16. t # d /\ H[1][t] = m_table_[t]
  BY <1>1, <1>2, <1>15 DEF Table!HashTableAssumption
<1>17. ClearPlace'
  <2>1. call'.it # 0 /\ call'.it - 1 \in Table!Buckets(call.table)'
    BY <1>3, <1>7, <1>8
  <2>2. \A b \in Table!Buckets(call.table)' : b < call'.it => m_table_'[call'.table][b] = Null
    BY <1>1, <1>3, <1>7, <1>8, <1>16
  <2>3. iter'.table = call'.table => iter'.node = Null /\ expected' = {}
    BY <1>1, <1>3, <1>7
  <2> QED BY <2>1, <2>2, <2>3 DEF ClearPlace
<1>18. ErasePlace'
  BY <1>7 DEF ErasePlace
<1>19. IterAt(iter', expected', visited', hash_next', m_table_owner')
  <2>1. IterTyped(iter) /\ expected \in SUBSET Nodes
    BY DEF TableInv, TableTyped
  <2>2. CASE iter.table = t
    <3>1. IterAt(iter, expected, visited, H[2], Changed(ow1, n, Table!NewOwner(d)))
      BY <1>3, <2>2 DEF IterAt
    <3> QED BY <1>1, <1>11, <3>1
  <2>3. CASE iter.table # t
    <3>1. IterAt(iter, expected, visited, hash_next, m_table_owner)
      BY DEF TableInv
    <3>2. IterAt(iter, expected, visited, hash_next, ow1)
      <4>1. m_table_owner \in [Nodes -> Tables \union {Null}] /\ m_table_owner[n] # iter.table
        BY <1>4, <1>10, <2>3 DEF LinksTyped
      <4> QED BY <1>10, <2>1, <3>1, <4>1, IterElsewhere DEF ow1
    <3>3. Table!NewOwner(d) \in Tables \union {Null}
      BY DEF Table!NewOwner
    <3>4. IterAt(iter, expected, visited, H[2], Changed(ow1, n, Table!NewOwner(d)))
      BY <1>10, <1>11, <1>15, <2>1, <3>2, <3>3, IterReceives
    <3> QED BY <1>1, <1>11, <3>4
  <2> QED BY <2>2, <2>3
<1>20. Counted' /\ m_table_size_' \in [Tables -> Nat]
  <2>1. m_table_size_ \in [Tables -> Nat] /\ m_table_owner \in [Nodes -> Tables \union {Null}]
    BY <1>4 DEF TableInv, TableTyped, LinksTyped
  <2>2. m_table_size_' = IF d \in Tables THEN [m_table_size_ EXCEPT ![d] = @ + 1] ELSE m_table_size_
    BY <1>1 DEF Table!Received
  <2>3. m_table_owner' = [m_table_owner EXCEPT ![n] = IF d \in Tables THEN d ELSE Null]
    BY <1>1 DEF Table!NewOwner
  <2>4. m_table_size_' \in [Tables -> Nat]
    BY <2>1, <2>2
  <2>5. ASSUME NEW u \in Tables, u # t
        PROVE  m_table_size_'[u] = Cardinality(OwnedBy(m_table_owner', u))
    <3> DEFINE S == OwnedBy(m_table_owner, u)
    <3>1. m_table_size_[u] = Cardinality(S)
      BY <1>1, <2>5 DEF TableInv, Counted, t
    <3>2. S \in SUBSET Nodes
      BY DEF OwnedBy
    <3>3. CASE u = d
      <4>1. OwnedBy(m_table_owner', u) = S \union {n} /\ n \in Nodes \ S
        BY <1>10, <2>1, <2>3, <2>5, <3>3 DEF OwnedBy
      <4> HIDE DEF S
      <4>2. Cardinality(S \union {n}) = Cardinality(S) + 1
        BY <3>2, <4>1, OneMore
      <4>3. m_table_size_'[u] = m_table_size_[u] + 1
        BY <2>1, <2>2, <3>3
      <4> QED BY <3>1, <4>1, <4>2, <4>3
    <3>4. CASE u # d
      <4>1. OwnedBy(m_table_owner', u) = S
        BY <1>5, <1>10, <2>1, <2>3, <2>5, <3>4 DEF OwnedBy
      <4>2. m_table_size_'[u] = m_table_size_[u]
        BY <2>1, <2>2, <3>4
      <4> QED BY <3>1, <4>1, <4>2
    <3> QED BY <3>3, <3>4
  <2> QED BY <1>7, <2>4, <2>5 DEF Counted, OwnedBy
<1>21. TableTyped'
  <2>1. CallTyped'
    BY <1>7 DEF CallTyped
  <2> QED BY <1>1, <1>20, <2>1, SameBits DEF TableInv, TableTyped, IterTyped
<1> QED BY <1>1, <1>14, <1>17, <1>18, <1>19, <1>20, <1>21, SameBits DEF TableInv

LEMMA ClearDoneKeepsTable ==
  ASSUME Table!HashTableAssumption, TableInv, Table!ClearDone
  PROVE  TableInv'
<1> DEFINE t == call.table
           i == call.it
<1>1. /\ call.op = "clear" /\ call.n = Null /\ i \notin Table!Buckets(t) /\ bits' = bits
      /\ m_table_size_' = [m_table_size_ EXCEPT ![t] = 0]
      /\ call' = [op |-> "idle"]
      /\ m_table_' = m_table_ /\ hash_next' = hash_next /\ m_table_owner' = m_table_owner
      /\ iter' = iter /\ expected' = expected /\ visited' = visited
  BY DEF Table!ClearDone, Table!iteration, Table!NoCall
<1>2. /\ ClearedTable = t /\ ClearedTo = i /\ ClearedChain = Null /\ t \in Tables /\ i \in Nat
  BY <1>1, ClearingCall
<1>3. /\ i # 0 => i - 1 \in Table!Buckets(t)
      /\ \A b \in Table!Buckets(t) : b < i => m_table_[t][b] = Null
  BY <1>1 DEF TableInv, ClearPlace
<1>4. BitsTyped /\ LinksTyped(m_table_, hash_next, m_table_owner)
      /\ Chained(m_table_, hash_next, m_table_owner, t, i, Null)
  BY <1>2 DEF TableInv, TableTyped
<1>5. Null \notin Tables
  BY DEF Table!HashTableAssumption
<1> HIDE DEF t, i
<1>6. \A b \in Table!Buckets(t) : b < i
  BY <1>1, <1>2, <1>3, <1>4 DEF Table!Buckets, BitsTyped
<1>7. \A u \in Tables : \A b \in Table!Buckets(u) :
        Root(m_table_, t, i, Null, u, b) = Root(m_table_, Null, 0, Null, u, b)
  BY <1>3, <1>5, <1>6 DEF Root
<1>8. call'.op = "idle"
  BY <1>1
<1>9. Chained(m_table_', hash_next', m_table_owner', ClearedTable', ClearedTo', ClearedChain')
  <2>1. ClearedTable' = Null /\ ClearedTo' = 0 /\ ClearedChain' = Null
    BY <1>8 DEF ClearedTable, ClearedTo, ClearedChain
  <2> QED BY <1>1, <1>4, <1>7, <2>1 DEF Chained
<1>10. OwnedBy(m_table_owner, t) = {}
  <2>1. SUFFICES ASSUME NEW n \in Nodes, m_table_owner[n] = t PROVE FALSE
    BY DEF OwnedBy
  <2>2. bits[t] # 0
    BY <1>2, <1>4, <2>1 DEF LinksTyped
  <2> DEFINE b == Table!Bucket(t, NodeKey[n])
  <2>3. b \in Table!Buckets(t) /\ n \in Cell(m_table_owner, t, b)
    BY <1>2, <1>4, <2>1, <2>2, BucketIsThere DEF Cell
  <2> HIDE DEF b
  <2>4. IsChain(Root(m_table_, t, i, Null, t, b), Cell(m_table_owner, t, b), hash_next)
    BY <1>2, <1>4, <2>3 DEF Chained
  <2>5. Root(m_table_, t, i, Null, t, b) = Null
    BY <1>3, <1>6, <2>3 DEF Root
  <2> QED BY <2>3, <2>4, <2>5, ChainFacts
<1>11. Counted' /\ m_table_size_' \in [Tables -> Nat]
  <2>1. m_table_size_ \in [Tables -> Nat]
    BY DEF TableInv, TableTyped
  <2>2. Cardinality(OwnedBy(m_table_owner, t)) = 0
    BY <1>10, FS_EmptySet
  <2>3. \A u \in Tables : m_table_size_'[u] = Cardinality(OwnedBy(m_table_owner, u))
    BY <1>1, <1>2, <2>1, <2>2 DEF TableInv, Counted, t
  <2>4. \A u \in Tables : m_table_size_'[u] = Cardinality(OwnedBy(m_table_owner', u))
    BY <1>1, <2>3
  <2> QED BY <1>1, <1>8, <2>1, <2>4 DEF Counted, OwnedBy
<1>12. TableTyped'
  <2>1. CallTyped'
    BY <1>1 DEF CallTyped
  <2> QED BY <1>1, <1>11, <2>1, SameBits DEF TableInv, TableTyped, IterTyped
<1>13. ErasePlace' /\ ClearPlace'
  BY <1>8 DEF ErasePlace, ClearPlace
<1>14. IterAt(iter', expected', visited', hash_next', m_table_owner')
  BY <1>1 DEF TableInv
<1>15. LinksTyped(m_table_', hash_next', m_table_owner')
  BY <1>1, <1>4
<1> QED BY <1>1, <1>9, <1>11, <1>12, <1>13, <1>14, <1>15, SameBits DEF TableInv

LEMMA ReleaseKeepsTable ==
  ASSUME Table!HashTableAssumption, TableInv, NEW t \in Tables, Table!ReleaseAll(t)
  PROVE  TableInv'
<1> DEFINE S == OwnedBy(m_table_owner, t)
<1>1. /\ call.op = "idle" /\ bits' = bits /\ call' = call
      /\ m_table_' = [m_table_ EXCEPT ![t] = [b \in Table!Buckets(t) |-> Null]]
      /\ hash_next' = hash_next /\ m_table_size_' = [m_table_size_ EXCEPT ![t] = 0]
      /\ m_table_owner' = [n \in Nodes |-> IF m_table_owner[n] = t THEN Null ELSE m_table_owner[n]]
      /\ expected' = expected \ S /\ visited' = visited \ S
      /\ iter' = IF iter.node \in S THEN Table!NoIterator ELSE iter
  BY DEF Table!ReleaseAll, Table!Idle, Table!Leave, Table!Owned, OwnedBy
<1>2. Null \notin Tables \union Nodes
  BY DEF Table!HashTableAssumption
<1>3. /\ LinksTyped(m_table_, hash_next, m_table_owner)
      /\ ClearedTable = Null /\ ClearedTable' = Null
      /\ Chained(m_table_, hash_next, m_table_owner, Null, ClearedTo, ClearedChain)
  BY <1>1 DEF TableInv, ClearedTable
<1>4. /\ m_table_'[t] = [b \in Table!Buckets(t) |-> Null]
      /\ \A u \in Tables \ {t} : m_table_'[u] = m_table_[u]
      /\ m_table_' = [u \in Tables |-> m_table_'[u]]
  BY <1>1, <1>3 DEF LinksTyped
<1>5. \A n \in Nodes : m_table_owner'[n] = IF m_table_owner[n] = t THEN Null ELSE m_table_owner[n]
  BY <1>1
<1>6. m_table_owner \in [Nodes -> Tables \union {Null}] /\ m_table_owner' \in [Nodes -> Tables \union {Null}]
  <2>1. m_table_owner \in [Nodes -> Tables \union {Null}]
    BY <1>3 DEF LinksTyped
  <2> QED BY <1>1, <2>1
<1>7. LinksTyped(m_table_', hash_next', m_table_owner')
  <2>1. \A u \in Tables : m_table_'[u] \in [Table!Buckets(u) -> Nodes \union {Null}]
    BY <1>3, <1>4 DEF LinksTyped
  <2>2. \A n \in Nodes : m_table_owner'[n] \in Tables => bits[m_table_owner'[n]] # 0
    BY <1>2, <1>3, <1>5 DEF LinksTyped
  <2>3. hash_next' \in [Nodes -> Nodes \union {Null}]
    BY <1>1, <1>3 DEF LinksTyped
  <2> QED BY <1>4, <1>6, <2>1, <2>2, <2>3 DEF LinksTyped
<1>8. Chained(m_table_', hash_next', m_table_owner', ClearedTable', ClearedTo', ClearedChain')
  <2>1. ASSUME NEW u \in Tables, NEW b \in Table!Buckets(u)
        PROVE  IsChain(Root(m_table_', Null, ClearedTo', ClearedChain', u, b),
                       Cell(m_table_owner', u, b), hash_next)
    <3>1. CASE u = t
      <4>1. Cell(m_table_owner', u, b) = {}
        BY <1>2, <1>5, <3>1 DEF Cell
      <4>2. Root(m_table_', Null, ClearedTo', ClearedChain', u, b) = Null
        BY <1>2, <1>4, <3>1 DEF Root
      <4> QED BY <4>1, <4>2, NoChain
    <3>2. CASE u # t
      <4>1. Cell(m_table_owner', u, b) = Cell(m_table_owner, u, b)
        BY <1>2, <1>5, <3>2 DEF Cell
      <4>2. Root(m_table_', Null, ClearedTo', ClearedChain', u, b)
              = Root(m_table_, Null, ClearedTo, ClearedChain, u, b)
        BY <1>2, <1>4, <3>2 DEF Root
      <4> QED BY <1>3, <4>1, <4>2 DEF Chained
    <3> QED BY <3>1, <3>2
  <2> QED BY <1>1, <1>3, <2>1 DEF Chained
<1>9. /\ IterTyped(iter') /\ expected' \in SUBSET Nodes /\ visited' \in SUBSET Nodes
      /\ IterAt(iter', expected', visited', hash_next', m_table_owner')
  <2>1. /\ IterTyped(iter) /\ IterAt(iter, expected, visited, hash_next, m_table_owner)
        /\ expected \in SUBSET Nodes /\ visited \in SUBSET Nodes
    BY DEF TableInv, TableTyped
  <2>2. CASE iter.node \in S
    <3>1. iter' = Table!NoIterator
      BY <1>1, <2>2
    <3> QED BY <1>1, <1>2, <2>1, <3>1 DEF Table!NoIterator, IterTyped, IterAt
  <2>3. CASE iter.node \notin S
    <3>1. iter' = iter
      BY <1>1, <2>3
    <3>2. IterAt(iter, expected \ S, visited \ S, hash_next, m_table_owner')
      <4>1. \A m \in Nodes : IF m_table_owner[m] = t THEN m_table_owner'[m] \in {t, Null}
                             ELSE m_table_owner'[m] = m_table_owner[m]
        BY <1>5
      <4> QED BY <2>1, <2>3, <4>1, IterLeaves
    <3> QED BY <1>1, <2>1, <3>1, <3>2
  <2> QED BY <2>2, <2>3
<1>10. Counted' /\ m_table_size_' \in [Tables -> Nat]
  <2>1. m_table_size_ \in [Tables -> Nat]
    BY DEF TableInv, TableTyped
  <2>2. OwnedBy(m_table_owner', t) = {}
    BY <1>2, <1>5 DEF OwnedBy
  <2>3. \A u \in Tables \ {t} : OwnedBy(m_table_owner', u) = OwnedBy(m_table_owner, u)
    BY <1>2, <1>5 DEF OwnedBy
  <2>4. Cardinality(OwnedBy(m_table_owner', t)) = 0
    BY <2>2, FS_EmptySet
  <2>5. \A u \in Tables : m_table_size_'[u] = Cardinality(OwnedBy(m_table_owner', u))
    BY <1>1, <2>1, <2>3, <2>4 DEF TableInv, Counted
  <2> QED BY <1>1, <2>1, <2>5 DEF Counted, OwnedBy
<1>11. TableTyped'
  <2>1. CallTyped'
    BY <1>1 DEF TableInv, TableTyped, CallTyped
  <2> QED BY <1>1, <1>9, <1>10, <2>1, SameBits DEF TableInv, TableTyped, IterTyped
<1>12. ErasePlace' /\ ClearPlace'
  BY <1>1 DEF ErasePlace, ClearPlace
<1> QED BY <1>1, <1>7, <1>8, <1>9, <1>10, <1>11, <1>12, SameBits DEF TableInv

(* Where the iterator goes from the end of a chain. *)
From(ow, t, index) == {n \in Nodes : ow[n] = t /\ Table!Bucket(t, NodeKey[n]) >= index}

LEMMA CapacityBounds ==
  ASSUME Table!HashTableAssumption, BitsTyped, NEW t \in Tables
  PROVE  Table!Capacity(t) \in Nat /\ \A b \in Table!Buckets(t) : b < Table!Capacity(t)
<1>1. CASE bits[t] = 0
  <2>1. Table!Capacity(t) = 0
    BY <1>1, TableCardinality, FS_EmptySet DEF Table!Capacity, Table!Buckets
  <2> QED BY <1>1, <2>1 DEF Table!Buckets
<1>2. CASE bits[t] # 0
  <2>1. Table!Buckets(t) = 0..2 ^ bits[t] - 1
    BY <1>2 DEF Table!Buckets
  <2> DEFINE x == 2 ^ bits[t] - 1
  <2>2. Table!Capacity(t) = Cardinality(0..x)
    BY <2>1, TableCardinality DEF Table!Capacity
  <2>3. x \in Int
    <3>1. bits[t] \in Nat
      BY <1>2 DEF BitsTyped, Table!HashTableAssumption
    <3> QED BY <3>1
  <2> HIDE DEF x
  <2>4. Cardinality(0..x) = IF 0 > x THEN 0 ELSE x - 0 + 1
    BY <2>3, FS_Interval
  <2>5. Table!Buckets(t) = 0..x
    BY <2>1 DEF x
  <2> QED BY <2>2, <2>3, <2>4, <2>5
<1> QED BY <1>1, <1>2

AtEnd(r, t, index) ==
  /\ r = [table |-> t, next_index |-> Table!Capacity(t), node |-> Null]
  /\ \A c \in Table!Buckets(t) : c >= index => m_table_[t][c] = Null

AtBucket(r, t, index, b) ==
  /\ r = [table |-> t, next_index |-> b + 1, node |-> m_table_[t][b]]
  /\ b >= index /\ m_table_[t][b] # Null
  /\ \A c \in Table!Buckets(t) : c >= index /\ c < b => m_table_[t][c] = Null

LEMMA NextBucketIs ==
  ASSUME NEW t, NEW index \in Nat, NEW r, r = Table!NextBucket(t, index)
  PROVE  AtEnd(r, t, index) \/ \E b \in Table!Buckets(t) : AtBucket(r, t, index, b)
<1> DEFINE full == {b \in Table!Buckets(t) : b >= index /\ m_table_[t][b] # Null}
           b == CHOOSE x \in full : \A y \in full : x <= y
<1>1. r = IF full = {} THEN [table |-> t, next_index |-> Table!Capacity(t), node |-> Null]
          ELSE [table |-> t, next_index |-> b + 1, node |-> m_table_[t][b]]
  BY Zenon DEF Table!NextBucket
<1>2. CASE full = {}
  <2>1. \A c \in Table!Buckets(t) : c >= index => m_table_[t][c] = Null
    BY <1>2
  <2> QED BY <1>1, <1>2, <2>1 DEF AtEnd
<1>3. CASE full # {}
  <2>1. full \in SUBSET Nat
    BY BucketsAreNaturals
  <2>2. b \in full /\ \A y \in full : b <= y
    <3> HIDE DEF full
    <3> QED BY <1>3, <2>1, LeastNatural
  <2> HIDE DEF b
  <2>3. b \in Table!Buckets(t) /\ b >= index /\ m_table_[t][b] # Null
    BY <2>2
  <2>4. ASSUME NEW c \in Table!Buckets(t), c >= index, c < b
        PROVE  m_table_[t][c] = Null
    <3>1. c \notin full
      <4>1. c \in full => b <= c
        BY <2>2
      <4>2. b \in Nat /\ c \in Nat
        BY <2>3, BucketsAreNaturals
      <4> QED BY <2>4, <4>1, <4>2
    <3> QED BY <2>4, <3>1
  <2>5. r = [table |-> t, next_index |-> b + 1, node |-> m_table_[t][b]]
    BY <1>1, <1>3
  <2> QED BY <2>3, <2>4, <2>5 DEF AtBucket
<1> QED BY <1>2, <1>3

(* What an iterator that begins at a bucket has yet to come to. *)
Ahead(ow, t, index, ex, vi) ==
  /\ ex \in SUBSET OwnedBy(ow, t)
  /\ ex \ vi \subseteq From(ow, t, index)
  /\ ex \cap vi \cap From(ow, t, index) = {}

(* An iterator that is yet to come to the buckets from index on goes to    *)
(* the first one that is not empty, and leaves no node out.                *)
LEMMA IterBegins ==
  ASSUME Table!HashTableAssumption, BitsTyped, NEW hn, NEW ow, LinksTyped(m_table_, hn, ow),
         NEW ci, NEW cn, Chained(m_table_, hn, ow, Null, ci, cn),
         NEW t \in Tables, NEW index \in Nat, NEW r, r = Table!NextBucket(t, index),
         NEW ex, NEW vi, Ahead(ow, t, index, ex, vi)
  PROVE  IterTyped(r) /\ IterAt(r, ex, (vi \union {r.node}) \ {Null}, hn, ow)
<1> USE DEF Ahead
<1> DEFINE vi2 == (vi \union {r.node}) \ {Null}
<1>1. Null \notin Tables \union Nodes /\ ex \subseteq Nodes /\ \A n \in ex : ow[n] = t
  BY DEF Table!HashTableAssumption, OwnedBy
<1>2. ASSUME NEW b \in Table!Buckets(t)
      PROVE  IsChain(m_table_[t][b], Cell(ow, t, b), hn)
  BY <1>1 DEF Chained, Root
<1>3. ASSUME NEW n \in From(ow, t, index)
      PROVE  /\ n \in Nodes /\ ow[n] = t
             /\ Table!Bucket(t, NodeKey[n]) \in Table!Buckets(t)
             /\ Table!Bucket(t, NodeKey[n]) >= index
             /\ n \in Cell(ow, t, Table!Bucket(t, NodeKey[n]))
             /\ m_table_[t][Table!Bucket(t, NodeKey[n])] # Null
  <2> DEFINE b == Table!Bucket(t, NodeKey[n])
  <2>1. n \in Nodes /\ ow[n] = t /\ b >= index
    BY DEF From
  <2>2. b \in Table!Buckets(t)
    BY <2>1, BucketIsThere DEF LinksTyped
  <2>3. n \in Cell(ow, t, b)
    BY <2>1 DEF Cell
  <2> HIDE DEF b
  <2>4. m_table_[t][b] # Null
    BY <1>2, <2>2, <2>3, ChainFacts
  <2> QED BY <2>1, <2>2, <2>3, <2>4 DEF b
<1>4. CASE AtEnd(r, t, index)
  <2> USE DEF AtEnd
  <2>1. From(ow, t, index) = {}
    BY <1>3, <1>4
  <2>2. ex \ vi = {}
    BY <2>1
  <2>3. \A n \in Nodes : ow[n] = t => ~(Table!Bucket(t, NodeKey[n]) >= Table!Capacity(t))
    <3>1. ASSUME NEW n \in Nodes, ow[n] = t
          PROVE  ~(Table!Bucket(t, NodeKey[n]) >= Table!Capacity(t))
      <4> DEFINE b == Table!Bucket(t, NodeKey[n])
      <4>1. b \in Table!Buckets(t)
        BY <3>1, BucketIsThere DEF LinksTyped
      <4>2. b \in Nat /\ Table!Capacity(t) \in Nat /\ b < Table!Capacity(t)
        BY <4>1, CapacityBounds, BucketsAreNaturals
      <4> QED BY <4>2
    <3> QED BY <3>1
  <2>4. r.table = t /\ r.next_index = Table!Capacity(t) /\ r.node = Null
    BY <1>4
  <2>5. IterTyped(r)
    BY <1>1, <1>4, CapacityBounds DEF IterTyped
  <2>6. Later(r, ow) = {}
    BY <2>3, <2>4 DEF Later
  <2>7. ex \ vi2 = {}
    BY <1>1, <2>2
  <2> HIDE DEF vi2
  <2>8. IterAt(r, ex, vi2, hn, ow)
    BY <1>1, <2>4, <2>6, <2>7 DEF IterAt
  <2> QED BY <2>5, <2>8 DEF vi2
<1>5. ASSUME NEW b \in Table!Buckets(t), AtBucket(r, t, index, b)
      PROVE  IterTyped(r) /\ IterAt(r, ex, vi2, hn, ow)
  <2> USE DEF AtBucket
  <2> DEFINE x == m_table_[t][b]
             C == Cell(ow, t, b)
             B == C \ {x}
  <2>1. IsChain(x, C, hn) /\ x # Null
    BY <1>2, <1>5
  <2>2. x \in C /\ C \subseteq Nodes /\ x \in Nodes
    BY <2>1, ChainFacts
  <2>3. IsChain(hn[x], B, hn)
    BY <2>1, ChainPop
  <2>4. r.table = t /\ r.next_index = b + 1 /\ r.node = x /\ b \in Nat /\ b + 1 \in Nat /\ b + 1 - 1 = b
    BY <1>5, BucketsAreNaturals
  <2>5. IterTyped(r)
    BY <1>1, <1>5, <2>2, <2>4 DEF IterTyped
  <2>6. Later(r, ow) = From(ow, t, b + 1)
    BY <2>4 DEF Later, From
  <2>7. From(ow, t, index) = C \union From(ow, t, b + 1)
    <3>1. ASSUME NEW n \in From(ow, t, index) PROVE n \in C \union From(ow, t, b + 1)
      <4> DEFINE c == Table!Bucket(t, NodeKey[n])
      <4>1. n \in Nodes /\ ow[n] = t /\ c \in Table!Buckets(t) /\ c >= index /\ m_table_[t][c] # Null
            /\ n \in Cell(ow, t, c) /\ c \in Nat
        BY <1>3, BucketsAreNaturals
      <4>2. c = b \/ c >= b + 1
        BY <1>5, <2>4, <4>1
      <4>3. c >= b + 1 => n \in From(ow, t, b + 1)
        BY <4>1 DEF From
      <4> QED BY <4>1, <4>2, <4>3
    <3>2. C \subseteq From(ow, t, index)
      BY <1>5 DEF Cell, From
    <3>3. ASSUME NEW n \in From(ow, t, b + 1) PROVE n \in From(ow, t, index)
      <4>1. n \in Nodes /\ ow[n] = t /\ Table!Bucket(t, NodeKey[n]) >= b + 1
        BY DEF From
      <4>2. Table!Bucket(t, NodeKey[n]) \in Table!Buckets(t)
        BY <4>1, BucketIsThere DEF LinksTyped
      <4>3. Table!Bucket(t, NodeKey[n]) >= index
        BY <1>5, <2>4, <4>1, <4>2, BucketsAreNaturals
      <4> QED BY <4>1, <4>3 DEF From
    <3> QED BY <3>1, <3>2, <3>3
  <2>8. x \notin From(ow, t, b + 1)
    <3>1. Table!Bucket(t, NodeKey[x]) = b /\ ~(b >= b + 1)
      BY <2>2, <2>4 DEF Cell
    <3> QED BY <3>1 DEF From
  <2>9. ex \ vi2 \subseteq B \union Later(r, ow) /\ ex \cap vi2 \cap (B \union Later(r, ow)) = {}
    BY <1>1, <2>4, <2>6, <2>7, <2>8
  <2> HIDE DEF vi2, B, C, x
  <2>10. IterAt(r, ex, vi2, hn, ow)
    <3>1. B \in SUBSET Nodes /\ B \subseteq C \ {x}
      BY <2>2 DEF B
    <3> QED BY <1>1, <2>1, <2>2, <2>3, <2>4, <2>9, <3>1 DEF IterAt, C
  <2> QED BY <2>5, <2>10
<1> QED BY <1>4, <1>5, NextBucketIs

LEMMA BeginKeepsTable ==
  ASSUME Table!HashTableAssumption, TableInv, NEW t \in Tables, Table!Begin(t)
  PROVE  TableInv'
<1> DEFINE S == OwnedBy(m_table_owner, t)
<1>1. /\ call.op = "idle" /\ bits' = bits /\ call' = call
      /\ m_table_' = m_table_ /\ hash_next' = hash_next /\ m_table_size_' = m_table_size_
      /\ m_table_owner' = m_table_owner
      /\ iter' = Table!NextBucket(t, 0)
      /\ expected' = S /\ visited' = ({} \union {iter'.node}) \ {Null}
  BY DEF Table!Begin, Table!Idle, Table!Owned, Table!nodes, OwnedBy
<1>2. /\ BitsTyped /\ LinksTyped(m_table_, hash_next, m_table_owner) /\ ClearedTable = Null
      /\ Chained(m_table_, hash_next, m_table_owner, Null, ClearedTo, ClearedChain)
  BY <1>1 DEF TableInv, TableTyped, ClearedTable
<1>3. S = From(m_table_owner, t, 0) /\ S \in SUBSET Nodes
  <2>1. \A n \in S : Table!Bucket(t, NodeKey[n]) \in Table!Buckets(t)
    BY <1>2, BucketIsThere DEF LinksTyped, OwnedBy
  <2>2. \A n \in S : Table!Bucket(t, NodeKey[n]) >= 0
    BY <2>1, BucketsAreNaturals
  <2> QED BY <2>2 DEF From, OwnedBy
<1>4. IterTyped(iter') /\ IterAt(iter', expected', visited', hash_next', m_table_owner')
  <2>1. Ahead(m_table_owner, t, 0, S, {}) /\ 0 \in Nat
    BY <1>3 DEF Ahead
  <2> HIDE DEF S
  <2>2. IterTyped(iter') /\ IterAt(iter', S, ({} \union {iter'.node}) \ {Null}, hash_next, m_table_owner)
    BY <1>1, <1>2, <2>1, IterBegins
  <2> QED BY <1>1, <2>2
<1>5. TableTyped'
  <2>1. CallTyped'
    BY <1>1 DEF TableInv, TableTyped, CallTyped
  <2>2. visited' \in SUBSET Nodes
    BY <1>1, <1>4 DEF IterTyped
  <2> QED BY <1>1, <1>3, <1>4, <2>1, <2>2, SameBits DEF TableInv, TableTyped, IterTyped
<1>6. ErasePlace' /\ ClearPlace' /\ Counted'
  BY <1>1 DEF ErasePlace, ClearPlace, Counted, TableInv, OwnedBy
<1>7. Chained(m_table_', hash_next', m_table_owner', ClearedTable', ClearedTo', ClearedChain')
  <2>1. ClearedTable' = ClearedTable /\ ClearedTo' = ClearedTo /\ ClearedChain' = ClearedChain
    BY <1>1 DEF ClearedTable, ClearedTo, ClearedChain
  <2> QED BY <1>1, <2>1 DEF TableInv
<1>8. LinksTyped(m_table_', hash_next', m_table_owner')
  BY <1>1, <1>2
<1> QED BY <1>1, <1>4, <1>5, <1>6, <1>7, <1>8, SameBits DEF TableInv

(* The next node of the chain. *)
Forward(it, x) == [it EXCEPT !.node = x]

LEMMA IterGoesOn ==
  ASSUME Table!HashTableAssumption, BitsTyped, NEW it, IterTyped(it), it.node # Null,
         NEW ex \in SUBSET Nodes, NEW vi, NEW hn, NEW ow, IterAt(it, ex, vi, hn, ow),
         NEW x, x = hn[it.node]
  PROVE  /\ x # Null => /\ IterTyped(Forward(it, x))
                        /\ IterAt(Forward(it, x), ex, (vi \union {x}) \ {Null}, hn, ow)
         /\ x = Null => Ahead(ow, it.table, it.next_index, ex, vi)
<1> DEFINE u == it.table
           c == it.next_index - 1
<1>1. PICK B \in SUBSET Nodes :
        /\ c \in Table!Buckets(u)
        /\ it.node \in Cell(ow, u, c)
        /\ B \subseteq Cell(ow, u, c) \ {it.node}
        /\ IsChain(x, B, hn)
        /\ \A m \in ex : ow[m] = u
        /\ ex \ vi \subseteq B \union Later(it, ow)
        /\ ex \cap vi \cap (B \union Later(it, ow)) = {}
  BY DEF IterAt, IterTyped
<1>2. Later(it, ow) = From(ow, u, it.next_index)
  BY DEF Later, From
<1>3. CASE x = Null
  <2>1. B = {}
    BY <1>1, <1>3, ChainFacts
  <2> QED BY <1>1, <1>2, <1>3, <2>1 DEF OwnedBy, Ahead
<1>4. CASE x # Null
  <2> DEFINE r == Forward(it, x)
             vi2 == (vi \union {x}) \ {Null}
             B2 == B \ {x}
  <2>1. x \in B /\ IsChain(hn[x], B2, hn) /\ x \in Nodes
    <3>1. x \in B /\ x \in Nodes
      BY <1>1, <1>4, ChainFacts
    <3> QED BY <1>1, <1>4, <3>1, ChainRest
  <2>2. u # Null /\ Null \notin Nodes
    BY DEF IterTyped, Table!HashTableAssumption
  <2>3. IterTyped(r) /\ r.table = u /\ r.next_index = it.next_index /\ r.node = x
    BY <2>1, <2>2 DEF IterTyped, Forward
  <2>4. x \notin Later(it, ow)
    <3>1. Table!Bucket(u, NodeKey[x]) = it.next_index - 1 /\ it.next_index \in Nat
      BY <1>1, <2>1 DEF Cell, IterTyped
    <3>2. ~(it.next_index - 1 >= it.next_index)
      BY <3>1
    <3> QED BY <3>1, <3>2 DEF Later
  <2> HIDE DEF r
  <2>5. Later(r, ow) = Later(it, ow)
    BY <2>3 DEF Later
  <2>6. ex \ vi2 \subseteq B2 \union Later(r, ow) /\ ex \cap vi2 \cap (B2 \union Later(r, ow)) = {}
    BY <1>1, <2>2, <2>4, <2>5
  <2>7. B2 \in SUBSET Nodes /\ x \in Cell(ow, u, c) /\ B2 \subseteq Cell(ow, u, c) \ {x}
    BY <1>1, <2>1
  <2> HIDE DEF vi2, B2
  <2>8. IterAt(r, ex, vi2, hn, ow)
    BY <1>1, <1>4, <2>1, <2>3, <2>6, <2>7 DEF IterAt
  <2> QED BY <1>4, <2>3, <2>8 DEF r, vi2
<1> QED BY <1>3, <1>4

LEMMA IncrementKeepsTable ==
  ASSUME Table!HashTableAssumption, TableInv, Table!Increment
  PROVE  TableInv'
<1> DEFINE x == hash_next[iter.node]
<1>1. /\ call.op = "idle" /\ iter.node # Null /\ bits' = bits /\ call' = call
      /\ m_table_' = m_table_ /\ hash_next' = hash_next /\ m_table_size_' = m_table_size_
      /\ m_table_owner' = m_table_owner
      /\ iter' = IF x # Null THEN Forward(iter, x)
                 ELSE Table!NextBucket(iter.table, iter.next_index)
      /\ expected' = expected /\ visited' = (visited \union {iter'.node}) \ {Null}
  BY DEF Table!Increment, Table!Idle, Table!nodes, Forward
<1> HIDE DEF x
<1>2. /\ BitsTyped /\ LinksTyped(m_table_, hash_next, m_table_owner) /\ ClearedTable = Null
      /\ Chained(m_table_, hash_next, m_table_owner, Null, ClearedTo, ClearedChain)
      /\ IterTyped(iter) /\ expected \in SUBSET Nodes /\ visited \in SUBSET Nodes
      /\ IterAt(iter, expected, visited, hash_next, m_table_owner)
  BY <1>1 DEF TableInv, TableTyped, ClearedTable
<1>3. /\ x # Null => /\ IterTyped(Forward(iter, x))
                     /\ IterAt(Forward(iter, x), expected, (visited \union {x}) \ {Null},
                               hash_next, m_table_owner)
      /\ x = Null => Ahead(m_table_owner, iter.table, iter.next_index, expected, visited)
  <2>1. x = hash_next[iter.node]
    BY DEF x
  <2> QED BY <1>1, <1>2, <2>1, IterGoesOn
<1>4. IterTyped(iter') /\ IterAt(iter', expected', visited', hash_next', m_table_owner')
  <2>1. CASE x # Null
    <3>1. iter'.node = x
      BY <1>1, <1>2, <2>1 DEF IterTyped, Forward
    <3> QED BY <1>1, <1>3, <2>1, <3>1
  <2>2. CASE x = Null
    <3>1. iter.table \in Tables /\ iter.next_index \in Nat
      BY <1>1, <1>2 DEF IterTyped
    <3>2. IterTyped(iter')
          /\ IterAt(iter', expected, (visited \union {iter'.node}) \ {Null}, hash_next, m_table_owner)
      <4>1. /\ Ahead(m_table_owner, iter.table, iter.next_index, expected, visited)
            /\ iter' = Table!NextBucket(iter.table, iter.next_index)
        BY <1>1, <1>3, <2>2
      <4> QED BY <1>2, <3>1, <4>1, IterBegins
    <3> QED BY <1>1, <3>2
  <2> QED BY <2>1, <2>2
<1>5. TableTyped'
  <2>1. CallTyped'
    BY <1>1 DEF TableInv, TableTyped, CallTyped
  <2>2. visited' \in SUBSET Nodes
    BY <1>1, <1>2, <1>4 DEF IterTyped
  <2> QED BY <1>1, <1>4, <2>1, <2>2, SameBits DEF TableInv, TableTyped, IterTyped
<1>6. ErasePlace' /\ ClearPlace' /\ Counted'
  BY <1>1 DEF ErasePlace, ClearPlace, Counted, TableInv, OwnedBy
<1>7. Chained(m_table_', hash_next', m_table_owner', ClearedTable', ClearedTo', ClearedChain')
  <2>1. ClearedTable' = ClearedTable /\ ClearedTo' = ClearedTo /\ ClearedChain' = ClearedChain
    BY <1>1 DEF ClearedTable, ClearedTo, ClearedChain
  <2> QED BY <1>1, <2>1 DEF TableInv
<1>8. LinksTyped(m_table_', hash_next', m_table_owner')
  BY <1>1, <1>2
<1> QED BY <1>1, <1>4, <1>5, <1>6, <1>7, <1>8, SameBits DEF TableInv

-----------------------------------------------------------------------------
(* The invariant is one. *)
LEMMA TableStarts ==
  ASSUME Table!HashTableAssumption, Table!Init
  PROVE  TableInv
<1>1. /\ bits = [t \in Tables |-> 0] /\ m_table_ = [t \in Tables |-> <<>>]
      /\ hash_next = [n \in Nodes |-> Null] /\ m_table_size_ = [t \in Tables |-> 0]
      /\ m_table_owner = [n \in Nodes |-> Null]
      /\ call = [op |-> "idle"] /\ iter = Table!NoIterator /\ expected = {} /\ visited = {}
  BY DEF Table!Init, Table!NoCall
<1>2. Null \notin Tables \union Nodes
  BY DEF Table!HashTableAssumption
<1>3. BitsTyped /\ \A t \in Tables : Table!Buckets(t) = {}
  BY <1>1 DEF BitsTyped, Table!Buckets
<1>4. IterTyped(iter)
  BY <1>1, <1>2 DEF IterTyped, Table!NoIterator
<1>5. TableTyped
  BY <1>1, <1>3, <1>4 DEF TableTyped, CallTyped
<1>6. LinksTyped(m_table_, hash_next, m_table_owner)
  <2>1. \A t \in Tables : m_table_[t] \in [Table!Buckets(t) -> Nodes \union {Null}]
    <3>1. <<>> \in [{} -> Nodes \union {Null}]
      OBVIOUS
    <3> QED BY <1>1, <1>3, <3>1
  <2>2. m_table_ = [t \in Tables |-> m_table_[t]]
    BY <1>1
  <2>3. /\ hash_next \in [Nodes -> Nodes \union {Null}]
        /\ m_table_owner \in [Nodes -> Tables \union {Null}]
        /\ \A n \in Nodes : m_table_owner[n] \notin Tables
    BY <1>1, <1>2
  <2> QED BY <2>1, <2>2, <2>3 DEF LinksTyped
<1>7. Chained(m_table_, hash_next, m_table_owner, ClearedTable, ClearedTo, ClearedChain)
  BY <1>3 DEF Chained
<1>8. IterAt(iter, expected, visited, hash_next, m_table_owner)
  BY <1>1 DEF IterAt, Table!NoIterator
<1>9. Counted
  <2>1. \A t \in Tables : OwnedBy(m_table_owner, t) = {}
    BY <1>1, <1>2 DEF OwnedBy
  <2>2. \A t \in Tables : Cardinality(OwnedBy(m_table_owner, t)) = 0
    BY <2>1, FS_EmptySet
  <2> QED BY <1>1, <2>2 DEF Counted
<1>10. ErasePlace /\ ClearPlace
  BY <1>1 DEF ErasePlace, ClearPlace
<1> QED BY <1>5, <1>6, <1>7, <1>8, <1>9, <1>10 DEF TableInv

LEMMA TableIdles ==
  ASSUME TableInv, UNCHANGED table
  PROVE  TableInv'
<1>1. /\ bits' = bits /\ m_table_' = m_table_ /\ hash_next' = hash_next
      /\ m_table_size_' = m_table_size_ /\ m_table_owner' = m_table_owner
      /\ call' = call /\ iter' = iter /\ expected' = expected /\ visited' = visited
  BY DEF table
<1>2. TableTyped' /\ ClearPlace' /\ Counted'
  BY <1>1 DEF TableInv, TableTyped, BitsTyped, CallTyped, IterTyped, ClearPlace, Table!Buckets,
              Counted, OwnedBy
<1>3. Chained(m_table_', hash_next', m_table_owner', ClearedTable', ClearedTo', ClearedChain')
  <2>1. ClearedTable' = ClearedTable /\ ClearedTo' = ClearedTo /\ ClearedChain' = ClearedChain
    BY <1>1 DEF ClearedTable, ClearedTo, ClearedChain
  <2> QED BY <1>1, <2>1 DEF TableInv
<1>4. ErasePlace'
  BY <1>1 DEF TableInv, ErasePlace, ErasedCell, Cell, Table!Bucket, Table!Current, Table!HeadOf
<1> QED BY <1>1, <1>2, <1>3, <1>4, SameBits DEF TableInv

LEMMA TableSteps ==
  ASSUME Table!HashTableAssumption, TableInv, Table!Next
  PROVE  TableInv'
<1>1. ASSUME NEW t \in Tables,
             \/ Table!SetTableSizeBits(t) \/ Table!Clear(t) \/ Table!ReleaseAll(t) \/ Table!Begin(t)
             \/ \E n \in Nodes : Table!InsertNode(t, n) \/ Table!InsertUnique(t, n)
             \/ \E k \in Table!Key : Table!Extract(t, k) \/ Table!Erase(t, k)
      PROVE  TableInv'
  <2>1. \A n \in Nodes : Table!InsertUnique(t, n) => Table!InsertNode(t, n)
    BY DEF Table!InsertUnique
  <2> QED BY <1>1, <2>1, AllocateKeepsTable, InsertKeepsTable, ExtractKeepsTable, EraseKeepsTable,
             ClearKeepsTable, ReleaseKeepsTable, BeginKeepsTable
<1>2. ASSUME NEW d \in {"none", "delete"} \union Tables, Table!EraseStep(d) \/ Table!ClearNode(d)
      PROVE  TableInv'
  BY <1>2, EraseStepKeepsTable, ClearNodeKeepsTable
<1>3. \/ \E t \in Tables :
           \/ Table!SetTableSizeBits(t) \/ Table!Clear(t) \/ Table!ReleaseAll(t) \/ Table!Begin(t)
           \/ \E n \in Nodes : Table!InsertNode(t, n) \/ Table!InsertUnique(t, n)
           \/ \E k \in Table!Key : Table!Extract(t, k) \/ Table!Erase(t, k)
      \/ \E d \in {"none", "delete"} \union Tables : Table!EraseStep(d) \/ Table!ClearNode(d)
      \/ Table!EraseSkip \/ Table!EraseDone \/ Table!ClearBucket \/ Table!ClearDone \/ Table!Increment
  BY Zenon DEF Table!Next
<1> QED BY <1>1, <1>2, <1>3, SkipKeepsTable, EraseDoneKeepsTable, ClearBucketKeepsTable,
           ClearDoneKeepsTable, IncrementKeepsTable

LEMMA TableInvariant ==
  ASSUME Table!HashTableAssumption
  PROVE  ContainersSpec => []TableInv
<1>1. ContainersInit => TableInv
  BY TableStarts DEF ContainersInit, ContainersAre
<1>2. TableInv /\ [ContainersNext]_containerVars => TableInv'
  <2>1. [ContainersNext]_containerVars => Table!Next \/ UNCHANGED table
    BY DEF ContainersNext, containerVars
  <2> QED BY <2>1, TableSteps, TableIdles
<1> QED BY <1>1, <1>2, PTL DEF ContainersSpec

(* erase() leaves no node with the key. *)
THEOREM EraseTakesEveryNode ==
  ASSUME Table!HashTableAssumption
  PROVE  ContainersSpec => EraseTakesAll
<1>1. TableInv /\ [ContainersNext]_containerVars =>
        [ call.op = "erase" /\ call'.op = "idle" =>
            \A n \in Table!Owned(call.table) : NodeKey[n] # call.key ]_(Table!vars)
  <2> SUFFICES ASSUME TableInv, [ContainersNext]_containerVars, call.op = "erase", call'.op = "idle"
               PROVE  \A n \in Nodes : m_table_owner[n] = call.table => NodeKey[n] # call.key
    BY DEF Table!Owned
  <2>1. Table!Next
    <3>1. Table!Next \/ UNCHANGED table
      BY DEF ContainersNext, containerVars
    <3> QED BY <3>1 DEF table
  <2>2. CASE Table!EraseDone
    BY <2>2, EraseDoneKeepsTable
  <2>3. ASSUME Table!EraseSkip \/ \E d \in {"none", "delete"} \union Tables : Table!EraseStep(d)
        PROVE  FALSE
    <3>1. call'.op = call.op
      BY <2>3, ErasedBucket DEF Table!EraseSkip, Table!EraseStep
    <3> QED BY <3>1
  <2>4. ~Table!ClearBucket /\ ~Table!ClearDone /\ \A d : ~Table!ClearNode(d)
    BY DEF Table!ClearBucket, Table!ClearDone, Table!ClearNode
  <2>5. ~Table!Increment /\ \A t : /\ ~Table!SetTableSizeBits(t) /\ ~Table!Clear(t)
                                   /\ ~Table!ReleaseAll(t) /\ ~Table!Begin(t)
                                   /\ \A n : ~Table!InsertNode(t, n) /\ ~Table!InsertUnique(t, n)
                                   /\ \A k : ~Table!Extract(t, k) /\ ~Table!Erase(t, k)
    BY DEF Table!Increment, Table!SetTableSizeBits, Table!Clear, Table!ReleaseAll, Table!Begin,
           Table!InsertNode, Table!InsertUnique, Table!Extract, Table!Erase, Table!Idle
  <2> QED BY <2>1, <2>2, <2>3, <2>4, <2>5, Zenon DEF Table!Next
<1> QED BY <1>1, TableInvariant, PTL DEF ContainersSpec, EraseTakesAll, Table!EraseTakesAll

-----------------------------------------------------------------------------
(* What the invariant says of the walks that the properties speak of. *)
LEMMA ChainRange ==
  ASSUME Table!HashTableAssumption, NEW first, NEW C, IsChain(first, C, hash_next),
         NEW w, w = Table!Chain(first)
  PROVE  /\ {w[i] : i \in DOMAIN w} = C
         /\ \A i, j \in DOMAIN w : w[i] = w[j] => i = j
<1>1. PICK rank \in [Nodes -> Nat] : Ranked(first, C, hash_next, rank)
  BY DEF IsChain
<1> DEFINE N == Cardinality(C)
<1>2. /\ N \in Nat /\ w \in [1..N -> C]
      /\ \A i, j \in 1..N : w[i] = w[j] => i = j
      /\ \A n \in C : \E i \in 1..N : w[i] = n
  BY <1>1, WalkSteps
<1> HIDE DEF N
<1> QED BY <1>2

LEMMA TableChainsAreDisjoint ==
  ASSUME Table!HashTableAssumption, TableInv
  PROVE  Table!ChainsAreDisjoint
<1> SUFFICES ASSUME NEW t \in Tables, NEW b \in Table!Buckets(t)
             PROVE  LET chain == Table!Chain(m_table_[t][b])
                    IN /\ {chain[i] : i \in DOMAIN chain}
                            = {n \in Table!Owned(t) : Table!Bucket(t, NodeKey[n]) = b} \ Table!Pending(t)
                       /\ \A i, j \in DOMAIN chain : chain[i] = chain[j] => i = j
  BY DEF Table!ChainsAreDisjoint
<1> DEFINE C == Cell(m_table_owner, t, b)
           chain == Table!Chain(m_table_[t][b])
<1>1. C = {n \in Table!Owned(t) : Table!Bucket(t, NodeKey[n]) = b}
  BY DEF Cell, Table!Owned
<1>2. IsChain(Root(m_table_, ClearedTable, ClearedTo, ClearedChain, t, b), C, hash_next)
  BY DEF TableInv, Chained
<1>3. CASE ~(call.op = "clear" /\ call.table = t)
  <2>1. Table!Pending(t) = {}
    BY <1>3 DEF Table!Pending
  <2>2. ClearedTable # t
    BY <1>3 DEF ClearedTable, Table!HashTableAssumption
  <2>3. IsChain(m_table_[t][b], C, hash_next)
    BY <1>2, <2>2 DEF Root
  <2> HIDE DEF C, chain
  <2>4. {chain[i] : i \in DOMAIN chain} = C /\ \A i, j \in DOMAIN chain : chain[i] = chain[j] => i = j
    BY <2>3, ChainRange DEF chain
  <2> QED BY <1>1, <2>1, <2>4 DEF chain
<1>4. CASE call.op = "clear" /\ call.table = t
  <2> DEFINE i == call.it
             holding == Table!Chain(call.n)
  <2>1. ClearedTable = t /\ ClearedTo = i /\ ClearedChain = call.n /\ i \in Nat
    BY <1>4, ClearingCall
  <2>2. /\ i = 0 => call.n = Null
        /\ i # 0 => i - 1 \in Table!Buckets(t)
        /\ \A c \in Table!Buckets(t) : c < i => m_table_[t][c] = Null
    BY <1>4 DEF TableInv, ClearPlace
  <2>3. Table!Pending(t) = {holding[j] : j \in DOMAIN holding}
    BY <1>4 DEF Table!Pending
  <2>4. Table!Pending(t) = IF i = 0 THEN {} ELSE Cell(m_table_owner, t, i - 1)
    <3>1. CASE i = 0
      <4>1. IsChain(call.n, {}, hash_next)
        BY <2>2, <3>1, NoChain
      <4> HIDE DEF holding
      <4>2. {holding[j] : j \in DOMAIN holding} = {}
        BY <4>1, ChainRange DEF holding
      <4> QED BY <2>3, <3>1, <4>2
    <3>2. CASE i # 0
      <4>1. Root(m_table_, t, i, call.n, t, i - 1) = call.n
        BY DEF Root
      <4>2. IsChain(call.n, Cell(m_table_owner, t, i - 1), hash_next)
        BY <2>1, <2>2, <3>2, <4>1 DEF TableInv, Chained
      <4> HIDE DEF holding
      <4>3. {holding[j] : j \in DOMAIN holding} = Cell(m_table_owner, t, i - 1)
        BY <4>2, ChainRange DEF holding
      <4> QED BY <2>3, <3>2, <4>3
    <3> QED BY <3>1, <3>2
  <2> HIDE DEF i, holding
  <2>5. b \in Nat
    BY BucketsAreNaturals
  <2>6. CASE i # 0 /\ b = i - 1
    <3>1. m_table_[t][b] = Null /\ C \ Table!Pending(t) = {}
      BY <2>1, <2>2, <2>4, <2>6
    <3>2. IsChain(m_table_[t][b], {}, hash_next)
      BY <3>1, NoChain
    <3> HIDE DEF C, chain
    <3>3. {chain[j] : j \in DOMAIN chain} = {} /\ \A j, k \in DOMAIN chain : chain[j] = chain[k] => j = k
      BY <3>2, ChainRange DEF chain
    <3> QED BY <1>1, <3>1, <3>3 DEF chain
  <2>7. CASE ~(i # 0 /\ b = i - 1)
    <3>1. b # i - 1
      BY <2>1, <2>5, <2>7
    <3>2. IsChain(m_table_[t][b], C, hash_next)
      BY <1>2, <2>1, <3>1 DEF Root
    <3>3. C \ Table!Pending(t) = C
      BY <2>4, <3>1 DEF Cell
    <3> HIDE DEF C, chain
    <3>4. {chain[j] : j \in DOMAIN chain} = C /\ \A j, k \in DOMAIN chain : chain[j] = chain[k] => j = k
      BY <3>2, ChainRange DEF chain
    <3> QED BY <1>1, <3>3, <3>4 DEF chain
  <2> QED BY <2>6, <2>7
<1> QED BY <1>3, <1>4

LEMMA TableSizeIsCount ==
  ASSUME TableInv
  PROVE  Table!SizeIsCount
<1>1. \A t \in Tables : Table!Cardinality(Table!Owned(t)) = Cardinality(OwnedBy(m_table_owner, t))
  BY TableCardinality DEF Table!Owned, OwnedBy
<1> QED BY <1>1 DEF TableInv, Counted, Table!SizeIsCount

LEMMA TableIterationIsComplete ==
  ASSUME Table!HashTableAssumption, TableInv
  PROVE  Table!IterationIsComplete
<1> SUFFICES ASSUME Table!Idle, iter.table # Null
             PROVE  LET behind == IF iter.node = Null THEN <<>>
                                  ELSE Table!Chain(hash_next[iter.node])
                        ahead == {behind[i] : i \in DOMAIN behind} \union
                                 {n \in Table!Owned(iter.table) :
                                    Table!Bucket(iter.table, NodeKey[n]) >= iter.next_index}
                    IN /\ expected \ visited \subseteq ahead
                       /\ expected \cap visited \cap ahead = {}
  BY DEF Table!IterationIsComplete
<1>1. PICK B \in SUBSET Nodes :
        /\ iter.node = Null => B = {}
        /\ iter.node # Null => IsChain(hash_next[iter.node], B, hash_next)
        /\ expected \ visited \subseteq B \union Later(iter, m_table_owner)
        /\ expected \cap visited \cap (B \union Later(iter, m_table_owner)) = {}
  BY DEF TableInv, IterAt
<1> DEFINE behind == IF iter.node = Null THEN <<>> ELSE Table!Chain(hash_next[iter.node])
<1>2. {behind[i] : i \in DOMAIN behind} = B
  <2>1. CASE iter.node = Null
    <3>1. behind = <<>>
      BY <2>1
    <3> HIDE DEF behind
    <3>2. DOMAIN behind = {}
      BY <3>1
    <3> QED BY <1>1, <2>1, <3>2
  <2>2. CASE iter.node # Null
    <3>1. behind = Table!Chain(hash_next[iter.node]) /\ IsChain(hash_next[iter.node], B, hash_next)
      BY <1>1, <2>2
    <3> HIDE DEF behind
    <3> QED BY <3>1, ChainRange
  <2> QED BY <2>1, <2>2
<1>3. Later(iter, m_table_owner)
        = {n \in Table!Owned(iter.table) : Table!Bucket(iter.table, NodeKey[n]) >= iter.next_index}
  BY DEF Later, Table!Owned
<1> HIDE DEF behind
<1> QED BY <1>1, <1>2, <1>3 DEF behind

-----------------------------------------------------------------------------
(* find() from one result to the next follows a chain too: the nodes with  *)
(* the key, ranked by how many of them are behind.                         *)
Matches(C, k) == {n \in C : NodeKey[n] = k}
NextMatch(k) == [n \in Nodes |-> Table!FirstWithKey(Table!Chain(hash_next[n]), k)]

LEMMA FirstMatch ==
  ASSUME Table!HashTableAssumption, NEW first, NEW C, NEW rank \in [Nodes -> Nat],
         Ranked(first, C, hash_next, rank), NEW k, NEW n,
         n = Table!FirstWithKey(Table!Chain(first), k)
  PROVE  /\ n = Null => Matches(C, k) = {}
         /\ n # Null => n \in Matches(C, k) /\ \A m \in Matches(C, k) : rank[m] <= rank[n]
<1> DEFINE w == Table!Chain(first)
           N == Cardinality(C)
<1>1. C \subseteq Nodes /\ N \in Nat /\ Walks(w, first, C, rank)
  <2>1. C \subseteq Nodes
    BY DEF Ranked
  <2> QED BY <2>1, WalkOfChain
<1>2. n = Table!FirstWithKey(w, k)
  OBVIOUS
<1> HIDE DEF w
<1>3. /\ w \in [1..N -> C] /\ \A i \in 1..N : rank[w[i]] = N - i
      /\ \A m \in C : rank[m] \in 0..N - 1 /\ w[N - rank[m]] = m
  BY <1>1 DEF Walks
<1> HIDE DEF N
<1>4. \A m \in C : N - rank[m] \in 1..N /\ rank[m] \in Nat
  BY <1>1, <1>3
<1>5. /\ n = Null => \A i \in 1..N : NodeKey[w[i]] # k
      /\ n # Null => \E j \in 1..N : /\ n = w[j] /\ NodeKey[w[j]] = k
                                     /\ \A i \in 1..N : NodeKey[w[i]] = k => j <= i
  <2>1. IsWalk(w, N, C)
    BY <1>1, <1>3 DEF IsWalk
  <2> QED BY <1>2, <2>1, FirstWithKeyIs
<1>6. n = Null => Matches(C, k) = {}
  BY <1>3, <1>4, <1>5 DEF Matches
<1>7. ASSUME n # Null
      PROVE  n \in Matches(C, k) /\ \A m \in Matches(C, k) : rank[m] <= rank[n]
  <2>1. PICK j \in 1..N : /\ n = w[j] /\ NodeKey[w[j]] = k
                          /\ \A i \in 1..N : NodeKey[w[i]] = k => j <= i
    BY <1>5, <1>7
  <2>2. n \in Matches(C, k) /\ rank[n] = N - j
    BY <1>3, <2>1 DEF Matches
  <2>3. ASSUME NEW m \in Matches(C, k) PROVE rank[m] <= rank[n]
    <3>1. m \in C /\ NodeKey[m] = k /\ w[N - rank[m]] = m /\ N - rank[m] \in 1..N
      BY <1>3, <1>4 DEF Matches
    <3>2. j <= N - rank[m]
      BY <2>1, <3>1
    <3> QED BY <1>1, <1>4, <2>2, <3>1, <3>2
  <2> QED BY <2>2, <2>3
<1> QED BY <1>6, <1>7

LEMMA MatchesAreRanked ==
  ASSUME Table!HashTableAssumption, NEW first, NEW C, NEW rank \in [Nodes -> Nat],
         Ranked(first, C, hash_next, rank), NEW k, NEW n1,
         n1 = Table!FirstWithKey(Table!Chain(first), k)
  PROVE  \E r \in [Nodes -> Nat] : Ranked(n1, Matches(C, k), NextMatch(k), r)
<1> DEFINE M == Matches(C, k)
           next == NextMatch(k)
           r == [n \in Nodes |-> Cardinality(Below(M, rank, n))]
<1>1. C \subseteq Nodes /\ M \subseteq C /\ IsFiniteSet(M) /\ Null \notin Nodes
  <2>1. C \subseteq Nodes
    BY DEF Ranked
  <2>2. IsFiniteSet(Nodes) /\ Null \notin Nodes
    BY DEF Table!HashTableAssumption, Table!IsFiniteSet, IsFiniteSet
  <2>3. M \subseteq C
    BY DEF Matches
  <2>4. M \subseteq Nodes
    BY <2>1, <2>3
  <2> HIDE DEF M
  <2> QED BY <2>1, <2>2, <2>3, <2>4, FS_Subset
<1>2. /\ n1 = Null => M = {}
      /\ n1 # Null => n1 \in M /\ \A m \in M : rank[m] <= rank[n1]
  BY FirstMatch
<1>3. ASSUME NEW n \in M
      PROVE  /\ next[n] = Null => Below(M, rank, n) = {}
             /\ next[n] # Null => /\ next[n] \in Below(M, rank, n)
                                  /\ \A m \in Below(M, rank, n) : rank[m] <= rank[next[n]]
  <2>1. n \in C /\ n \in Nodes
    BY <1>1
  <2>2. Ranked(hash_next[n], Below(C, rank, n), hash_next, rank)
    BY <2>1, RankedBehind
  <2>3. Matches(Below(C, rank, n), k) = Below(M, rank, n)
    BY DEF Matches, Below
  <2>4. next[n] = Table!FirstWithKey(Table!Chain(hash_next[n]), k)
    BY <2>1 DEF NextMatch
  <2> HIDE DEF M, next
  <2>5. /\ next[n] = Null => Matches(Below(C, rank, n), k) = {}
        /\ next[n] # Null => /\ next[n] \in Matches(Below(C, rank, n), k)
                             /\ \A m \in Matches(Below(C, rank, n), k) : rank[m] <= rank[next[n]]
    BY <2>2, <2>4, FirstMatch
  <2> QED BY <2>3, <2>5
<1>4. \A n, m \in M : rank[n] = rank[m] => n = m
  BY <1>1 DEF Ranked
<1>5. \A n \in M : rank[n] \in Nat
  BY <1>1
<1> HIDE DEF M, next
<1>6. \A n : Below(M, rank, n) \subseteq M /\ IsFiniteSet(Below(M, rank, n))
             /\ Cardinality(Below(M, rank, n)) \in Nat
  <2>1. \A n : Below(M, rank, n) \subseteq M
    BY DEF Below
  <2> QED BY <1>1, <2>1, FS_Subset, FS_CardinalityType
<1>7. r \in [Nodes -> Nat] /\ \A n \in M : r[n] = Cardinality(Below(M, rank, n))
  BY <1>1, <1>6
<1>8. ASSUME NEW n \in M, NEW m \in M, rank[n] < rank[m]
      PROVE  r[n] < r[m]
  <2> DEFINE A == Below(M, rank, n)
             B == Below(M, rank, m)
  <2>1. A \subseteq B /\ n \in B /\ n \notin A
    BY <1>5, <1>8 DEF Below
  <2>2. A \subseteq B \ {n}
    BY <2>1
  <2>3. IsFiniteSet(A) /\ IsFiniteSet(B) /\ Cardinality(A) \in Nat /\ Cardinality(B) \in Nat
    BY <1>6
  <2> HIDE DEF A, B
  <2>4. Cardinality(B \ {n}) = Cardinality(B) - 1 /\ IsFiniteSet(B \ {n})
    BY <2>1, <2>3, FS_RemoveElement
  <2>5. Cardinality(A) <= Cardinality(B \ {n})
    BY <2>2, <2>4, FS_Subset
  <2>6. Cardinality(A) < Cardinality(B)
    BY <2>3, <2>4, <2>5
  <2> QED BY <1>7, <2>6 DEF A, B
<1>9. \A n, m \in M : r[n] = r[m] => n = m
  <2>1. SUFFICES ASSUME NEW n \in M, NEW m \in M, r[n] = r[m] PROVE n = m
    OBVIOUS
  <2>2. r[n] \in Nat /\ r[m] \in Nat
    BY <1>6, <1>7
  <2> HIDE DEF r
  <2>3. ~(rank[n] < rank[m]) /\ ~(rank[m] < rank[n])
    <3>1. rank[n] < rank[m] => r[n] < r[m]
      BY <1>8
    <3>2. rank[m] < rank[n] => r[m] < r[n]
      BY <1>8
    <3> QED BY <2>1, <2>2, <3>1, <3>2
  <2> QED BY <1>4, <1>5, <2>3
<1> HIDE DEF r
<1>10. M # {} => n1 \in M /\ n1 # Null /\ \A m \in M : r[m] <= r[n1]
  <2> SUFFICES ASSUME M # {} PROVE n1 \in M /\ n1 # Null /\ \A m \in M : r[m] <= r[n1]
    OBVIOUS
  <2>1. n1 \in M /\ n1 # Null /\ \A m \in M : rank[m] <= rank[n1]
    BY <1>2
  <2>2. ASSUME NEW m \in M PROVE r[m] <= r[n1]
    <3>1. m = n1 \/ rank[m] < rank[n1]
      BY <1>4, <1>5, <2>1
    <3>2. r[m] \in Nat /\ r[n1] \in Nat
      BY <1>6, <1>7, <2>1
    <3> QED BY <1>8, <2>1, <3>1, <3>2
  <2> QED BY <2>1, <2>2
<1>11. ASSUME NEW n \in M
       PROVE  /\ r[n] = 0 => next[n] = Null
              /\ r[n] # 0 => next[n] \in M /\ r[next[n]] = r[n] - 1
  <2> DEFINE B == Below(M, rank, n)
  <2>1. r[n] = Cardinality(B) /\ IsFiniteSet(B) /\ B \subseteq M
    BY <1>6, <1>7
  <2>2. CASE next[n] = Null
    <3>1. B = {}
      BY <1>3, <2>2
    <3>2. r[n] = 0
      BY <2>1, <3>1, FS_EmptySet
    <3> QED BY <2>2, <3>2
  <2>3. CASE next[n] # Null
    <3> DEFINE x == next[n]
    <3>1. x \in B /\ x \in M /\ \A m \in B : rank[m] <= rank[x]
      BY <1>3, <2>1, <2>3
    <3>2. Below(M, rank, x) = B \ {x}
      <4>1. \A m \in M : rank[m] < rank[x] => m \in B /\ m # x
        <5>1. rank[x] < rank[n] /\ rank[x] \in Nat /\ rank[n] \in Nat
          BY <1>5, <3>1 DEF Below
        <5> QED BY <1>5, <5>1 DEF Below
      <4>2. \A m \in B : m # x => rank[m] < rank[x] /\ m \in M
        <5> HIDE DEF B, x
        <5>1. \A m \in B : m \in M
          BY <2>1
        <5> QED BY <1>4, <1>5, <3>1, <5>1
      <4> HIDE DEF B, x
      <4> QED BY <4>1, <4>2 DEF Below
    <3> HIDE DEF B, x
    <3>3. Cardinality(B \ {x}) = Cardinality(B) - 1
      BY <2>1, <3>1, FS_RemoveElement
    <3>4. r[x] = r[n] - 1 /\ r[x] \in Nat /\ r[n] \in Nat
      BY <1>6, <1>7, <2>1, <3>1, <3>2, <3>3
    <3> QED BY <3>1, <3>4 DEF x
  <2> QED BY <2>2, <2>3
<1>12. Ranked(n1, M, next, r)
  <2>1. M \subseteq Nodes /\ (n1 = Null <=> M = {})
    BY <1>1, <1>2, <1>10
  <2>2. n1 # Null => n1 \in M /\ \A m \in M : r[m] <= r[n1]
    BY <1>10, <2>1
  <2> QED BY <1>9, <1>11, <2>1, <2>2 DEF Ranked
<1> QED BY <1>7, <1>12 DEF M, next

-----------------------------------------------------------------------------
(* What find() comes to, one result after the other. *)
FindsFrom(t, k, node) ==
  node = [i \in Nat |-> IF i = 0 THEN Table!Find(t, k, Null)
                        ELSE IF node[i - 1] = Null THEN Null
                        ELSE Table!Find(t, k, node[i - 1])]

LEMMA FindsOneWay ==
  ASSUME NEW t, NEW k, NEW f, NEW g, FindsFrom(t, k, f), FindsFrom(t, k, g)
  PROVE  f = g
<1>1. /\ f = [i \in Nat |-> f[i]] /\ g = [i \in Nat |-> g[i]]
      /\ \A i \in Nat : /\ f[i] = IF i = 0 THEN Table!Find(t, k, Null)
                                  ELSE IF f[i - 1] = Null THEN Null
                                  ELSE Table!Find(t, k, f[i - 1])
                        /\ g[i] = IF i = 0 THEN Table!Find(t, k, Null)
                                  ELSE IF g[i - 1] = Null THEN Null
                                  ELSE Table!Find(t, k, g[i - 1])
  BY DEF FindsFrom
<1> SUFFICES ASSUME \E i \in Nat : f[i] # g[i] PROVE FALSE
  BY <1>1
<1> DEFINE D == {i \in Nat : f[i] # g[i]}
<1>2. PICK i \in D : \A j \in D : i <= j
  <2>1. D \in SUBSET Nat /\ D # {}
    OBVIOUS
  <2> HIDE DEF D
  <2> QED BY <2>1, LeastNatural
<1>3. CASE i = 0
  BY <1>1, <1>2, <1>3
<1>4. CASE i # 0
  <2>1. i - 1 \in Nat /\ ~(i <= i - 1)
    BY <1>2, <1>4
  <2>2. f[i - 1] = g[i - 1]
    BY <1>2, <2>1
  <2> QED BY <1>1, <1>2, <1>4, <2>2
<1> QED BY <1>3, <1>4

(* It follows the links from match to match. *)
LEMMA FindsFollow ==
  ASSUME Table!HashTableAssumption, NEW t, NEW k, NEW g,
         Follows(Table!Find(t, k, Null), NextMatch(k), g),
         \A i \in Nat : g[i] \in Nodes \union {Null}
  PROVE  FindsFrom(t, k, g)
<1>1. \A n \in Nodes : NextMatch(k)[n] = Table!Find(t, k, n)
  BY DEF NextMatch, Table!Find, Table!HashTableAssumption
<1> DEFINE first == Table!Find(t, k, Null)
           next == NextMatch(k)
<1>2. g = [i \in Nat |-> IF i = 0 THEN first ELSE IF g[i - 1] = Null THEN Null ELSE next[g[i - 1]]]
  BY Zenon DEF Follows
<1>3. \A i \in Nat : i # 0 => g[i - 1] \in Nodes \union {Null}
  <2>1. \A i \in Nat : i # 0 => i - 1 \in Nat
    OBVIOUS
  <2> QED BY <2>1
<1> HIDE DEF next, first
<1> DEFINE here(i) == IF i = 0 THEN first ELSE IF g[i - 1] = Null THEN Null ELSE next[g[i - 1]]
           there(i) == IF i = 0 THEN first ELSE IF g[i - 1] = Null THEN Null ELSE Table!Find(t, k, g[i - 1])
<1>4. \A i \in Nat : here(i) = there(i)
  BY <1>1, <1>3 DEF next
<1>5. g = [i \in Nat |-> here(i)]
  BY <1>2
<1> HIDE DEF here, there
<1>6. g = [i \in Nat |-> there(i)]
  BY <1>4, <1>5
<1> QED BY Zenon, <1>6 DEF there, first, FindsFrom

(* The places of the nodes with a key in a walk are as many as the nodes. *)
LEMMA PlacesAreMatches ==
  ASSUME NEW C, IsFiniteSet(C), NEW N \in Nat, NEW w \in [1..N -> C], NEW k,
         \A i, j \in 1..N : w[i] = w[j] => i = j,
         \A n \in C : \E i \in 1..N : w[i] = n
  PROVE  Cardinality({i \in DOMAIN w : NodeKey[w[i]] = k}) = Cardinality(Matches(C, k))
<1> DEFINE I == {i \in 1..N : NodeKey[w[i]] = k}
           M == Matches(C, k)
           f == [i \in I |-> w[i]]
<1>1. I = {i \in DOMAIN w : NodeKey[w[i]] = k}
  OBVIOUS
<1>2. IsFiniteSet(I)
  <2>1. I \subseteq 1..N /\ IsFiniteSet(1..N)
    BY FS_Interval
  <2> HIDE DEF I
  <2> QED BY <2>1, FS_Subset
<1>3. f \in [I -> M] /\ \A i, j \in I : f[i] = f[j] => i = j
  BY DEF Matches
<1>4. \A n \in M : \E i \in I : f[i] = n
  BY DEF Matches
<1> HIDE DEF I, M, f
<1>5. f \in Surjection(I, M) /\ f \in Injection(I, M)
  BY <1>3, <1>4 DEF Surjection, Injection, IsInjective
<1>6. Cardinality(M) = Cardinality(I)
  BY <1>2, <1>5, FS_Surjection
<1> QED BY <1>1, <1>6 DEF M

(* What is said of the results found. *)
MeetsAll(t, k, found) ==
  LET M == {n \in Table!Owned(t) : NodeKey[n] = k}
  IN /\ Table!Count(t, k) = Table!Cardinality(M)
     /\ {found[i] : i \in 0..Table!Cardinality(M)} = M \union {Null}
     /\ found[Table!Cardinality(M)] = Null

LEMMA TableFindMeetsAll ==
  ASSUME Table!HashTableAssumption, TableInv
  PROVE  Table!FindMeetsAll
<1>1. ASSUME Table!Idle, NEW t \in Tables, NEW k \in Table!Key, Table!Allocated(t),
             NEW found, found = CHOOSE node : FindsFrom(t, k, node)
      PROVE  MeetsAll(t, k, found)
  <2> DEFINE M == {n \in Table!Owned(t) : NodeKey[n] = k}
             e == Table!Bucket(t, k)
             C == Cell(m_table_owner, t, e)
             first == Table!HeadOf(t, k)
  <2>1. e \in Table!Buckets(t)
    <3>1. PICK n \in Nodes : k = NodeKey[n]
      BY <1>1 DEF Table!Key
    <3>2. bits[t] # 0 /\ BitsTyped
      BY <1>1 DEF Table!Allocated, TableInv, TableTyped
    <3> QED BY <3>1, <3>2, BucketIsThere
  <2>2. IsChain(first, C, hash_next)
    <3>1. ClearedTable # t
      BY <1>1 DEF Table!Idle, ClearedTable, Table!HashTableAssumption
    <3>2. IsChain(Root(m_table_, ClearedTable, ClearedTo, ClearedChain, t, e), C, hash_next)
      BY <2>1 DEF TableInv, Chained
    <3>3. Root(m_table_, ClearedTable, ClearedTo, ClearedChain, t, e) = first
      BY <3>1 DEF Root, Table!HeadOf
    <3> QED BY <3>2, <3>3
  <2>3. M = Matches(C, k) /\ C \subseteq Nodes
    BY <1>1 DEF Matches, Cell, Table!Owned
  <2>4. IsFiniteSet(C)
    <3>1. IsFiniteSet(Nodes)
      BY DEF Table!HashTableAssumption, Table!IsFiniteSet, IsFiniteSet
    <3> HIDE DEF C
    <3> QED BY <2>3, <3>1, FS_Subset
  <2> DEFINE n1 == Table!Find(t, k, Null)
             w == Table!Chain(first)
  <2>5. n1 = Table!FirstWithKey(w, k)
    BY DEF Table!Find
  <2>6. Table!Count(t, k) = Table!Cardinality({i \in DOMAIN w : NodeKey[w[i]] = k})
    BY DEF Table!Count
  <2> HIDE DEF M, e, C, first, n1
  <2>7. PICK rank \in [Nodes -> Nat] : Ranked(first, C, hash_next, rank)
    BY <2>2 DEF IsChain
  <2>8. Table!Count(t, k) = Cardinality(M)
    <3> DEFINE N == Cardinality(C)
    <3>1. /\ N \in Nat /\ w \in [1..N -> C]
          /\ \A i, j \in 1..N : w[i] = w[j] => i = j
          /\ \A n \in C : \E i \in 1..N : w[i] = n
      BY <2>7, WalkSteps
    <3> HIDE DEF N, w
    <3>2. Cardinality({i \in DOMAIN w : NodeKey[w[i]] = k}) = Cardinality(Matches(C, k))
      BY <2>4, <3>1, PlacesAreMatches
    <3> QED BY <2>3, <2>6, <3>2, TableCardinality
  <2>9. PICK r \in [Nodes -> Nat] : Ranked(n1, M, NextMatch(k), r)
    <3>1. n1 = Table!FirstWithKey(Table!Chain(first), k)
      BY <2>5
    <3>2. \E r \in [Nodes -> Nat] : Ranked(n1, Matches(C, k), NextMatch(k), r)
      BY <2>7, <3>1, MatchesAreRanked
    <3> QED BY <2>3, <3>2
  <2> HIDE DEF w
  <2>10. /\ Cardinality(M) \in Nat
         /\ \E g : Follows(n1, NextMatch(k), g) /\ Passes(g, n1, M, r)
    BY <2>9, ChainIsFollowed
  <2>11. PICK g : Follows(n1, NextMatch(k), g) /\ Passes(g, n1, M, r)
    BY <2>10
  <2> DEFINE N == Cardinality(M)
  <2>12. /\ N \in Nat
         /\ \A i \in Nat : g[i] = Null <=> i >= N
         /\ \A i \in Nat : i < N => g[i] \in M
         /\ \A n \in M : \E i \in 0..N - 1 : g[i] = n
    <3>1. N \in Nat
      BY <2>10
    <3>2. /\ \A i \in Nat : g[i] = Null <=> i >= N
          /\ \A i \in Nat : i < N => g[i] \in M
          /\ \A n \in M : r[n] \in 0..N - 1 /\ g[N - 1 - r[n]] = n
      BY <2>11 DEF Passes
    <3> HIDE DEF N
    <3>3. ASSUME NEW n \in M PROVE \E i \in 0..N - 1 : g[i] = n
      <4>1. N - 1 - r[n] \in 0..N - 1
        BY <3>1, <3>2
      <4> QED BY <3>2, <4>1
    <3> QED BY <3>1, <3>2, <3>3
  <2> HIDE DEF N
  <2>13. found = g
    <3>1. \A i \in Nat : g[i] \in Nodes \union {Null}
      <4>1. M \subseteq Nodes
        BY <2>3 DEF Matches
      <4> QED BY <2>12, <4>1
    <3>2. Follows(Table!Find(t, k, Null), NextMatch(k), g)
      BY <2>11 DEF n1
    <3>3. FindsFrom(t, k, g)
      BY <3>1, <3>2, FindsFollow
    <3>4. FindsFrom(t, k, found)
      BY <1>1, <3>3
    <3> QED BY <3>3, <3>4, FindsOneWay
  <2>14. {g[i] : i \in 0..N} = M \union {Null} /\ g[N] = Null
    <3>1. g[N] = Null /\ N \in 0..N
      BY <2>12
    <3>2. ASSUME NEW i \in 0..N PROVE g[i] \in M \union {Null}
      BY <2>12
    <3>3. \A i \in 0..N - 1 : i \in 0..N
      BY <2>12
    <3> QED BY <2>12, <3>1, <3>2, <3>3
  <2> QED BY <2>8, <2>13, <2>14, TableCardinality DEF N, M, MeetsAll
<1>2. ASSUME Table!Idle
      PROVE  \A t \in Tables, k \in Table!Key :
               Table!Allocated(t) => MeetsAll(t, k, CHOOSE node : FindsFrom(t, k, node))
  BY <1>1, <1>2
<1> QED BY Zenon, <1>2 DEF Table!FindMeetsAll, FindsFrom, MeetsAll

(* Chains, counters, find() and the iterator of every table agree with     *)
(* what its user has put into it, whatever the number of nodes and tables. *)
THEOREM TableAgreesAlways ==
  ASSUME Table!HashTableAssumption
  PROVE  ContainersSpec => []TableAgrees
<1>1. TableInv => TableAgrees
  BY TableChainsAreDisjoint, TableSizeIsCount, TableFindMeetsAll, TableIterationIsComplete
     DEF TableAgrees
<1> QED BY <1>1, TableInvariant, PTL

==============================================================================
