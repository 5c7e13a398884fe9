----------------------------- MODULE HashTable ------------------------------
(***************************************************************************)
(* hxhash_table: buckets of intrusive chains.  A table of 2^bits buckets   *)
(* uses the highest bits of a hash, so tables of different size share      *)
(* nodes and their cached hashes.  erase() and clear() call a deleter,     *)
(* which destroys the node or inserts it into another table (a free list); *)
(* other calls do not run meanwhile.  One iterator lives across calls.     *)
(***************************************************************************)
EXTENDS Integers, FiniteSets, Sequences

CONSTANTS
  Node, Table, Null,
  NodeKey,      (* node -> key                                          *)
  KeyHash,      (* key -> hash, below 2^HashBits                        *)
  HashBits,     (* hxhash_bits                                          *)
  TableBits     (* table -> what its set_table_size_bits() will be given *)

HashTableAssumption ==
  /\ IsFiniteSet(Node) /\ Null \notin Node \union Table
  /\ {"none", "delete"} \cap Table = {}
  /\ HashBits \in Nat
  /\ TableBits \in [Table -> 1..HashBits - 1]
  (* Hashes have HashBits bits: the highest b of them number 2^b buckets.  *)
  /\ \A n \in Node : \A b \in 1..HashBits - 1 :
       KeyHash[NodeKey[n]] \div 2 ^ (HashBits - b) \in 0..2 ^ b - 1

VARIABLES
  bits,         (* m_table_size_bits_, 0 until storage is allocated      *)
  m_table_,     (* table -> bucket -> first node                         *)
  hash_next,    (* node -> next node of its chain                        *)
  m_size_,      (* table -> its counter                                  *)
  owner,        (* node -> the table that its user gave it to            *)
  call,         (* the erase() or clear() that is running                *)
  iter,         (* the iterator: its table, m_next_index_ and node       *)
  expected,     (* nodes linked in its table ever since begin()          *)
  visited       (* those that the iterator has come to                   *)

nodes == <<m_table_, hash_next, m_size_, owner>>
iteration == <<iter, expected, visited>>
vars == <<bits, nodes, call, iteration>>

Key == {NodeKey[n] : n \in Node}
Buckets(t) == IF bits[t] = 0 THEN {} ELSE 0..2 ^ bits[t] - 1
Capacity(t) == Cardinality(Buckets(t))
Deleter(t) == {"none", "delete"} \union (Table \ {t})

(* get_bucket_head_ asserts that storage is allocated.                     *)
Bucket(t, k) == KeyHash[k] \div 2 ^ (HashBits - bits[t])
HeadOf(t, k) == m_table_[t][Bucket(t, k)]

NoCall == [op |-> "idle"]
NoIterator == [table |-> Null, next_index |-> 0, node |-> Null]

Init ==
  /\ bits = [t \in Table |-> 0]
  /\ m_table_ = [t \in Table |-> <<>>]
  /\ hash_next = [n \in Node |-> Null]
  /\ m_size_ = [t \in Table |-> 0]
  /\ owner = [n \in Node |-> Null]
  /\ call = NoCall
  /\ iter = NoIterator
  /\ expected = {} /\ visited = {}

Idle == call.op = "idle"
Allocated(t) == bits[t] # 0
Owned(t) == {n \in Node : owner[n] = t}

SetTableSizeBits(t) ==
  /\ Idle /\ ~Allocated(t)
  /\ bits' = [bits EXCEPT ![t] = TableBits[t]]
  /\ m_table_' = [m_table_ EXCEPT ![t] = [b \in 0..2 ^ TableBits[t] - 1 |-> Null]]
  /\ UNCHANGED <<hash_next, m_size_, owner, call, iteration>>

-----------------------------------------------------------------------------
(* A chain from a node on; longer than there are nodes if it is a cycle.   *)
Chain(first) ==
  LET node[i \in Nat] == IF i = 0 THEN first
                         ELSE IF node[i - 1] = Null THEN Null
                         ELSE hash_next[node[i - 1]]
      ends == {i \in 0..Cardinality(Node) : node[i] = Null}
      length == IF ends = {} THEN Cardinality(Node) + 1
                ELSE CHOOSE i \in ends : \A j \in ends : i <= j
  IN [i \in 1..length |-> node[i - 1]]

FirstWithKey(chain, k) ==
  LET found == {i \in DOMAIN chain : NodeKey[chain[i]] = k}
  IN IF found = {} THEN Null
     ELSE chain[CHOOSE i \in found : \A j \in found : i <= j]

(* find(): the first node with the key, or the first one behind previous.  *)
Find(t, k, previous) ==
  FirstWithKey(Chain(IF previous = Null THEN HeadOf(t, k) ELSE hash_next[previous]), k)

Count(t, k) ==
  LET chain == Chain(HeadOf(t, k))
  IN Cardinality({i \in DOMAIN chain : NodeKey[chain[i]] = k})

(* <<m_table_, hash_next>> with n in front of its bucket of t.             *)
Pushed(H, t, n) ==
  LET b == Bucket(t, NodeKey[n])
  IN <<[H[1] EXCEPT ![t][b] = n], [H[2] EXCEPT ![n] = H[1][t][b]]>>

(* ... with the link to n taken out of t: the link in the node before n    *)
(* in the chain or, where that is Null, the one in the bucket of n.        *)
Unlinked(H, t, before, n) ==
  IF before # Null THEN <<H[1], [H[2] EXCEPT ![before] = H[2][n]]>>
  ELSE <<[H[1] EXCEPT ![t][Bucket(t, NodeKey[n])] = H[2][n]], H[2]>>

(* *current_                                                               *)
Current == IF call.before # Null THEN hash_next[call.before]
                                 ELSE HeadOf(call.table, call.key)

Deleted(H, d, n) ==
  CASE d = "none"   -> H
    [] d = "delete" -> <<H[1], [H[2] EXCEPT ![n] = Null]>>
    [] d \in Table  -> Pushed(H, d, n)

SetLinks(H) == m_table_' = H[1] /\ hash_next' = H[2]
Usable(d) == d \in Table => Allocated(d)
NewOwner(d) == IF d \in Table THEN d ELSE Null
Received(size, d) == IF d \in Table THEN [size EXCEPT ![d] = @ + 1] ELSE size

(* Nodes that leave a table are not the iterator's any more, and an        *)
(* iterator on one of them is invalid and its user drops it.               *)
Leave(S) ==
  /\ expected' = expected \ S
  /\ visited' = visited \ S
  /\ iter' = IF iter.node \in S THEN NoIterator ELSE iter

-----------------------------------------------------------------------------
InsertNode(t, n) ==
  /\ Idle /\ Allocated(t) /\ owner[n] = Null
  /\ SetLinks(Pushed(<<m_table_, hash_next>>, t, n))
  /\ m_size_' = [m_size_ EXCEPT ![t] = @ + 1]
  /\ owner' = [owner EXCEPT ![n] = t]
  /\ UNCHANGED <<bits, call, iteration>>

(* It returns the node found otherwise, and changes nothing.               *)
InsertUnique(t, n) ==
  /\ Allocated(t) /\ Find(t, NodeKey[n], Null) = Null
  /\ InsertNode(t, n)

(* Removes the first node with the key, if there is one.                   *)
Extract(t, k) ==
  /\ Idle /\ Allocated(t)
  /\ LET chain == Chain(HeadOf(t, k))
         n == FirstWithKey(chain, k)
         i == CHOOSE x \in DOMAIN chain : chain[x] = n
         before == IF i = 1 THEN Null ELSE chain[i - 1]
     IN /\ n # Null
        /\ SetLinks(Unlinked(<<m_table_, hash_next>>, t, before, n))
        /\ m_size_' = [m_size_ EXCEPT ![t] = @ - 1]
        /\ owner' = [owner EXCEPT ![n] = Null]
        /\ Leave({n})
  /\ UNCHANGED <<bits, call>>

Erase(t, k) ==
  /\ Idle /\ Allocated(t)
  /\ call' = [op |-> "erase", table |-> t, key |-> k, before |-> Null, count |-> 0]
  /\ UNCHANGED <<bits, nodes, iteration>>

(* *current_ is advanced before the deleter is called with the node.       *)
EraseStep(d) ==
  /\ call.op = "erase" /\ d \in Deleter(call.table) /\ Usable(d)
  /\ LET n == Current
     IN /\ n # Null /\ NodeKey[n] = call.key
        /\ SetLinks(Deleted(Unlinked(<<m_table_, hash_next>>, call.table, call.before, n), d, n))
        /\ m_size_' = Received(m_size_, d)
        /\ owner' = [owner EXCEPT ![n] = NewOwner(d)]
        /\ Leave({n})
  /\ call' = [call EXCEPT !.count = @ + 1]
  /\ UNCHANGED bits

EraseSkip ==
  /\ call.op = "erase"
  /\ LET n == Current
     IN /\ n # Null /\ NodeKey[n] # call.key
        /\ call' = [call EXCEPT !.before = n]
  /\ UNCHANGED <<bits, nodes, iteration>>

(* Mutant of EraseDone: the loop ends at a node with another key. *)
EraseDoneAtOther ==
  /\ call.op = "erase"
  /\ LET n == Current
     IN ~(n # Null /\ NodeKey[n] = call.key)
  /\ m_size_' = [m_size_ EXCEPT ![call.table] = @ - call.count]
  /\ call' = NoCall
  /\ UNCHANGED <<bits, m_table_, hash_next, owner, iteration>>

EraseDone ==
  /\ call.op = "erase" /\ Current = Null
  /\ m_size_' = [m_size_ EXCEPT ![call.table] = @ - call.count]
  /\ call' = NoCall
  /\ UNCHANGED <<bits, m_table_, hash_next, owner, iteration>>

Clear(t) ==
  /\ Idle /\ m_size_[t] # 0
  /\ call' = [op |-> "clear", table |-> t, it |-> 0, n |-> Null]
  /\ Leave(Owned(t))
  /\ UNCHANGED <<bits, nodes>>

ClearBucket ==
  /\ call.op = "clear" /\ call.n = Null /\ call.it \in Buckets(call.table)
  /\ call' = [call EXCEPT !.it = @ + 1, !.n = m_table_[call.table][call.it]]
  /\ m_table_' = [m_table_ EXCEPT ![call.table][call.it] = Null]
  /\ UNCHANGED <<bits, hash_next, m_size_, owner, iteration>>

(* Mutant of ClearNode: the next node is read when the deleter is done. *)
ClearNodeReadsLate(d) ==
  /\ call.op = "clear" /\ call.n # Null
  /\ d \in Deleter(call.table) \ {"none"} /\ Usable(d)
  /\ SetLinks(Deleted(<<m_table_, hash_next>>, d, call.n))
  /\ call' = [call EXCEPT !.n = hash_next'[call.n]]
  /\ m_size_' = Received(m_size_, d)
  /\ owner' = [owner EXCEPT ![call.n] = NewOwner(d)]
  /\ UNCHANGED <<bits, iteration>>

(* The next node is read before the deleter is called with this one.       *)
ClearNode(d) ==
  /\ call.op = "clear" /\ call.n # Null
  /\ d \in Deleter(call.table) \ {"none"} /\ Usable(d)
  /\ call' = [call EXCEPT !.n = hash_next[call.n]]
  /\ SetLinks(Deleted(<<m_table_, hash_next>>, d, call.n))
  /\ m_size_' = Received(m_size_, d)
  /\ owner' = [owner EXCEPT ![call.n] = NewOwner(d)]
  /\ UNCHANGED <<bits, iteration>>

ClearDone ==
  /\ call.op = "clear" /\ call.n = Null /\ call.it \notin Buckets(call.table)
  /\ m_size_' = [m_size_ EXCEPT ![call.table] = 0]
  /\ call' = NoCall
  /\ UNCHANGED <<bits, m_table_, hash_next, owner, iteration>>

ReleaseAll(t) ==
  /\ Idle /\ m_size_[t] # 0
  /\ m_table_' = [m_table_ EXCEPT ![t] = [b \in Buckets(t) |-> Null]]
  /\ m_size_' = [m_size_ EXCEPT ![t] = 0]
  /\ owner' = [n \in Node |-> IF owner[n] = t THEN Null ELSE owner[n]]
  /\ Leave(Owned(t))
  /\ UNCHANGED <<bits, hash_next, call>>

-----------------------------------------------------------------------------
(* Mutant of NextBucket: the index stays at the bucket it found. *)
NextBucketAgain(t, index) ==
  LET full == {b \in Buckets(t) : b >= index /\ m_table_[t][b] # Null}
      b == CHOOSE x \in full : \A y \in full : x <= y
  IN IF full = {} THEN [table |-> t, next_index |-> Capacity(t), node |-> Null]
     ELSE [table |-> t, next_index |-> b, node |-> m_table_[t][b]]

(* next_bucket(): the first node of the next bucket that is not empty.     *)
NextBucket(t, index) ==
  LET full == {b \in Buckets(t) : b >= index /\ m_table_[t][b] # Null}
      b == CHOOSE x \in full : \A y \in full : x <= y
  IN IF full = {} THEN [table |-> t, next_index |-> Capacity(t), node |-> Null]
     ELSE [table |-> t, next_index |-> b + 1, node |-> m_table_[t][b]]

Begin(t) ==
  /\ Idle
  /\ iter' = NextBucket(t, 0)
  /\ expected' = Owned(t)
  /\ visited' = {iter'.node} \ {Null}
  /\ UNCHANGED <<bits, nodes, call>>

Increment ==
  /\ Idle /\ iter.node # Null
  /\ iter' = IF hash_next[iter.node] # Null
             THEN [iter EXCEPT !.node = hash_next[iter.node]]
             ELSE NextBucket(iter.table, iter.next_index)
  /\ visited' = (visited \union {iter'.node}) \ {Null}
  /\ UNCHANGED <<bits, nodes, call, expected>>

Next ==
  \/ \E t \in Table :
       \/ SetTableSizeBits(t)
       \/ \E n \in Node : InsertNode(t, n) \/ InsertUnique(t, n)
       \/ \E k \in Key : Extract(t, k) \/ Erase(t, k)
       \/ Clear(t) \/ ReleaseAll(t) \/ Begin(t)
  \/ \E d \in {"none", "delete"} \union Table : EraseStep(d) \/ ClearNode(d)
  \/ EraseSkip \/ EraseDone
  \/ ClearBucket \/ ClearDone
  \/ Increment

Spec == Init /\ [][Next]_vars

-----------------------------------------------------------------------------
TypeOK ==
  /\ bits \in [Table -> 0..HashBits]
  /\ \A t \in Table : m_table_[t] \in [Buckets(t) -> Node \union {Null}]
  /\ hash_next \in [Node -> Node \union {Null}]
  /\ m_size_ \in [Table -> Nat]
  /\ owner \in [Node -> Table \union {Null}]
  /\ call.op \in {"idle", "erase", "clear"}
  /\ expected \union visited \subseteq Node

(* What clear() has taken off its bucket and not yet deleted.              *)
Pending(t) ==
  IF call.op = "clear" /\ call.table = t
  THEN LET chain == Chain(call.n) IN {chain[i] : i \in DOMAIN chain} ELSE {}

(* Each node is in the bucket of its hash, of the table it was given to,   *)
(* once, and nowhere else: chains of two tables or buckets never join,     *)
(* although nodes keep the links of the chains that they left.             *)
ChainsAreDisjoint ==
  \A t \in Table : \A b \in Buckets(t) :
    LET chain == Chain(m_table_[t][b])
    IN /\ {chain[i] : i \in DOMAIN chain}
            = {n \in Owned(t) : Bucket(t, NodeKey[n]) = b} \ Pending(t)
       /\ \A i, j \in DOMAIN chain : chain[i] = chain[j] => i = j

(* size() counts the nodes, but for those that a running erase() has       *)
(* unlinked and subtracts at its end.                                      *)
SizeIsCount ==
  \A t \in Table :
    IF call.op # "idle" /\ call.table = t
    THEN call.op = "erase" => m_size_[t] = Cardinality(Owned(t)) + call.count
    ELSE m_size_[t] = Cardinality(Owned(t))

(* Calling find() with its last result until it returns null meets every   *)
(* node with the key once, as many as count() says.                        *)
FindMeetsAll ==
  Idle => \A t \in Table, k \in Key : Allocated(t) =>
    LET matches == {n \in Owned(t) : NodeKey[n] = k}
        found[i \in Nat] == IF i = 0 THEN Find(t, k, Null)
                            ELSE IF found[i - 1] = Null THEN Null
                            ELSE Find(t, k, found[i - 1])
    IN /\ Count(t, k) = Cardinality(matches)
       /\ {found[i] : i \in 0..Cardinality(matches)} = matches \union {Null}
       /\ found[Cardinality(matches)] = Null

(* "Iterators are only invalidated by the removal of the node_t            *)
(* referenced": whatever else is inserted and removed meanwhile, an        *)
(* iterator comes to each node that stays in the table exactly once.       *)
IterationIsComplete ==
  Idle /\ iter.table # Null =>
    LET behind == IF iter.node = Null THEN <<>> ELSE Chain(hash_next[iter.node])
        ahead == {behind[i] : i \in DOMAIN behind} \union
                 {n \in Owned(iter.table) :
                    Bucket(iter.table, NodeKey[n]) >= iter.next_index}
    IN /\ expected \ visited \subseteq ahead
       /\ expected \cap visited \cap ahead = {}

(* When erase() returns no node with the key is left in the table.         *)
EraseTakesAll ==
  [][ call.op = "erase" /\ call'.op = "idle" =>
        \A n \in Owned(call.table) : NodeKey[n] # call.key ]_vars

=============================================================================
