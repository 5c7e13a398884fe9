------------------------------ MODULE Vectors -------------------------------
(***************************************************************************)
(* What arrays promise: sequences of values, and what a call may make of   *)
(* them.  An array whose elements were moved away holds no known values.   *)
(***************************************************************************)
EXTENDS SequencesExt, Integers

CONSTANTS Array, Value, Moved

VARIABLE items     (* array -> its elements *)

CountOf(s, v) == Cardinality({i \in DOMAIN s : s[i] = v})
Permuted(s, t) ==
  Len(s) = Len(t) /\ \A v \in ToSet(s) \union ToSet(t) : CountOf(s, v) = CountOf(t, v)
IsHeap(s) ==
  Moved \notin ToSet(s) /\ \A i \in 2..Len(s) : s[i] <= s[i \div 2]
Largest(s) == CHOOSE v \in ToSet(s) : \A w \in ToSet(s) : w <= v
Without(s, P) == SelectSeq(s, LAMBDA v : v \notin P)

Init == items = [a \in Array |-> <<>>]

Become(a, s) == items' = [items EXCEPT ![a] = s]

Truncate(a, n) == Become(a, SubSeq(items[a], 1, n))
Extend(a, s) == IsPrefix(items[a], s) /\ Len(s) = Len(items[a]) + 2 /\ Become(a, s)
Map(a, f) == Become(a, [i \in DOMAIN items[a] |-> f[items[a][i]]])
Pad(a, s) == IsPrefix(items[a], s) /\ Become(a, s)
             /\ \A i, j \in Len(items[a]) + 1..Len(s) : s[i] = s[j]

(* What the calls that move elements make of a sequence s: t.  erase_if()  *)
(* does not keep the order, and the heap calls choose it.                  *)
Inserted(s, i, v, t) == t = InsertAt(s, i, v)
Erased(s, i, t) == t = RemoveAt(s, i)
ErasedUnordered(s, i, t) == t = Front([s EXCEPT ![i] = Last(s)])
ErasedIf(s, P, t) == Permuted(t, Without(s, P))
MadeHeap(s, t) == Permuted(t, s) /\ IsHeap(t)
PushedHeap(s, v, t) == Permuted(t, Append(s, v)) /\ (IsHeap(s) => IsHeap(t))
PoppedHeap(s, t) == IsHeap(s) => Permuted(Append(t, Largest(s)), s) /\ IsHeap(t)
ErasedIfHeap(s, P, t) ==
  Permuted(t, Without(s, P)) /\ (IsHeap(s) \/ Len(t) < Len(s) => IsHeap(t))

Moves(s, t) ==
  \/ \E i \in 1..Len(s) + 1, v \in Value : Inserted(s, i, v, t)
  \/ \E i \in 1..Len(s) : Erased(s, i, t) \/ ErasedUnordered(s, i, t)
  \/ \E P \in SUBSET Value : ErasedIf(s, P, t) \/ ErasedIfHeap(s, P, t)
  \/ \E v \in Value : PushedHeap(s, v, t)
  \/ MadeHeap(s, t)
  \/ s # <<>> /\ IsHeap(s) /\ PoppedHeap(s, t)

Copy(a, b) == Become(a, items[b]) \/ Become(a, items[a] \o items[b])
Move(a, b) ==
  \E s \in {items[b], items[a] \o items[b]} :
    items' = [items EXCEPT ![a] = s, ![b] = [i \in DOMAIN @ |-> Moved]]
Swap(a, b) == items' = [items EXCEPT ![a] = items[b], ![b] = items[a]]

(* reserve(), and calls that find nothing to do. *)
Stay == UNCHANGED items

Next ==
  Stay \/ \E a \in Array :
    \/ Become(a, items'[a]) /\ Moves(items[a], items'[a])
    \/ \E n \in 0..Len(items[a]) : Truncate(a, n)
    \/ Pad(a, items'[a]) \/ Extend(a, items'[a])
    \/ Moved \notin ToSet(items[a]) /\ \E f \in [Value -> Value] : Map(a, f)
    \/ \E b \in Array \ {a} : Copy(a, b) \/ Move(a, b) \/ Swap(a, b)

VectorSpec == Init /\ [][Next]_items

=============================================================================
