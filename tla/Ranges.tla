------------------------------- MODULE Ranges -------------------------------
(***************************************************************************)
(* hxmerge, hxset_union, hxset_intersection and hxset_difference read two  *)
(* ordered ranges from their beginnings and write an output; hxbinary_     *)
(* search halves a range; hxarray's equal() and less() compare two arrays, *)
(* its find_if(), any_of() and all_of() look for an element.  An element   *)
(* is its key and where it comes from, so that equal ones can be told      *)
(* apart.                                                                  *)
(***************************************************************************)
EXTENDS Integers, FiniteSets, Sequences

CONSTANTS
  Key,        (* integers: less_ is < on keys *)
  MaxLength   (* bounds the ranges            *)

RangesAssumption == Key \subseteq Int /\ IsFiniteSet(Key) /\ MaxLength \in Nat

VARIABLES
  op,               (* the call that runs, "done" when it has returned      *)
  call,             (* the call that was made, and the value to search for  *)
                    (* or the keys that the functor is true for             *)
  keys,             (* the keys of both ranges                              *)
  src0_, src1_,     (* the elements to read next                            *)
  output,           (* the elements written                                 *)
  first_, last_,    (* what the search is left with                         *)
  found             (* its result; the end of the range if there is none;   *)
                    (* 1 or 0 if it is true or false                        *)

cursors == <<src0_, src1_, output>>
search == <<first_, last_, found>>
vars == <<op, call, keys, cursors, search>>

Ordered(s) == \A i \in 1..Len(s) - 1 : s[i] <= s[i + 1]
AllRanges == UNION {[1..n -> Key] : n \in 0..MaxLength}
OrderedRanges == {s \in AllRanges : Ordered(s)}
Writers == {"merge", "union", "intersection", "difference"}
Comparisons == {"equal", "less"}

Alone(s) == [r \in 0..1 |-> IF r = 0 THEN s ELSE <<>>]
End(r) == Len(keys[r]) + 1

Init ==
  /\ \/ op \in Writers /\ call = [op |-> op] /\ keys \in [0..1 -> OrderedRanges]
     \/ op \in Comparisons /\ call = [op |-> op] /\ keys \in [0..1 -> AllRanges]
     \/ \E value \in Key, s \in OrderedRanges :
          op = "search" /\ call = [op |-> op, value |-> value] /\ keys = Alone(s)
     \/ \E P \in SUBSET Key, s \in AllRanges :
          op = "find_if" /\ call = [op |-> op, accepts |-> P] /\ keys = Alone(s)
  /\ src0_ = 1 /\ src1_ = 1 /\ output = <<>>
  /\ first_ = 1 /\ last_ = Len(keys[0]) + 1 /\ found = 0

-----------------------------------------------------------------------------
Both == src0_ # End(0) /\ src1_ # End(1)
Only0 == src0_ # End(0) /\ src1_ = End(1)
Only1 == src0_ = End(0) /\ src1_ # End(1)

Key0 == keys[0][src0_]
Key1 == keys[1][src1_]
Less01 == Both /\ Key0 < Key1
Less10 == Both /\ Key1 < Key0

Element(r, i) == [key |-> keys[r][i], range |-> r, index |-> i]
Write(r, i) == output' = Append(output, Element(r, i))
Goes(i, j) == src0_' = src0_ + i /\ src1_' = src1_ + j /\ UNCHANGED <<op, call, keys, search>>

Take0 == Write(0, src0_) /\ Goes(1, 0)
Take1 == Write(1, src1_) /\ Goes(0, 1)
TakeBoth == Write(0, src0_) /\ Goes(1, 1)
Skip0 == Goes(1, 0) /\ UNCHANGED output
Skip1 == Goes(0, 1) /\ UNCHANGED output
SkipBoth == Goes(1, 1) /\ UNCHANGED output

Tail0 == Only0 /\ op \in {"merge", "union", "difference"} /\ Take0
Tail1 == Only1 /\ op \in {"merge", "union"} /\ Take1

Merge ==
  /\ op = "merge" /\ Both
  /\ IF Less10 THEN Take1 ELSE Take0

Union ==
  /\ op = "union"
  /\ \/ Less10 /\ Take1
     \/ Less01 /\ Take0
     \/ Both /\ ~Less10 /\ ~Less01 /\ TakeBoth

Intersection ==
  /\ op = "intersection"
  /\ \/ Less01 /\ Skip0
     \/ Less10 /\ Skip1
     \/ Both /\ ~Less10 /\ ~Less01 /\ TakeBoth

(* Mutant of Difference: only the second range's element is left behind. *)
DifferenceAgain ==
  /\ op = "difference"
  /\ \/ Less01 /\ Take0
     \/ Less10 /\ Skip1
     \/ Both /\ ~Less10 /\ ~Less01 /\ Skip1

Difference ==
  /\ op = "difference"
  /\ \/ Less01 /\ Take0
     \/ Less10 /\ Skip1
     \/ Both /\ ~Less10 /\ ~Less01 /\ SkipBoth

WriterDone ==
  /\ op \in Writers
  /\ ~Both
  /\ op \in {"merge", "union", "difference"} => ~Only0
  /\ op \in {"merge", "union"} => ~Only1
  /\ op' = "done"
  /\ UNCHANGED <<call, keys, cursors, search>>

-----------------------------------------------------------------------------
mid_ == first_ + (last_ - first_) \div 2
KeyAt(i) == keys[0][i]

Searching == op = "search" /\ first_ < last_

SearchLess ==
  /\ Searching /\ KeyAt(mid_) < call.value
  /\ first_' = mid_ + 1
  /\ UNCHANGED <<op, call, keys, cursors, last_, found>>

SearchGreater ==
  /\ Searching /\ call.value < KeyAt(mid_)
  /\ last_' = mid_
  /\ UNCHANGED <<op, call, keys, cursors, first_, found>>

SearchDone ==
  /\ op = "search"
  /\ \/ Searching /\ KeyAt(mid_) = call.value /\ found' = mid_
     \/ ~Searching /\ found' = End(0)
  /\ op' = "done"
  /\ UNCHANGED <<call, keys, cursors, first_, last_>>

-----------------------------------------------------------------------------
Returns(result) ==
  /\ op' = "done" /\ found' = result
  /\ UNCHANGED <<call, keys, cursors, first_, last_>>
Boolean(b) == IF b THEN 1 ELSE 0

(* equal() compares the sizes first; both stop at a difference.            *)
SizesDiffer == op = "equal" /\ End(0) # End(1)

CompareEqual ==
  /\ op \in Comparisons /\ ~SizesDiffer
  /\ Both /\ Key0 = Key1 /\ Goes(1, 1) /\ UNCHANGED output

EqualDone ==
  /\ op = "equal"
  /\ \/ SizesDiffer /\ Returns(0)
     \/ ~SizesDiffer /\ Both /\ Key0 # Key1 /\ Returns(0)
     \/ ~SizesDiffer /\ ~Both /\ Returns(1)

(* Mutant of LessDone: the first difference is not what decides. *)
LessDoneBySize ==
  /\ op = "less"
  /\ \/ Both /\ Key0 # Key1 /\ Returns(Boolean(Key0 < Key1 \/ End(0) < End(1)))
     \/ ~Both /\ Returns(Boolean(End(0) < End(1)))

LessDone ==
  /\ op = "less"
  /\ \/ Both /\ Key0 # Key1 /\ Returns(Boolean(Key0 < Key1))
     \/ ~Both /\ Returns(Boolean(End(0) < End(1)))

(* find() is find_if() for one key; any_of() is true if there is an        *)
(* element, all_of() if there is none that the functor is false for.       *)
FindIf ==
  /\ op = "find_if"
  /\ IF src0_ # End(0) /\ Key0 \notin call.accepts THEN Skip0 ELSE Returns(src0_)

Returned == op = "done" /\ UNCHANGED vars

Next ==
  \/ Merge \/ Union \/ Intersection \/ Difference
  \/ Tail0 \/ Tail1 \/ WriterDone
  \/ SearchLess \/ SearchGreater \/ SearchDone
  \/ CompareEqual \/ EqualDone \/ LessDone \/ FindIf
  \/ Returned

Spec == Init /\ [][Next]_vars

-----------------------------------------------------------------------------
TypeOK ==
  /\ op \in Writers \union Comparisons \union {"search", "find_if", "done"}
  /\ keys \in [0..1 -> AllRanges]
  /\ src0_ \in 1..End(0) /\ src1_ \in 1..End(1)
  /\ \A i \in DOMAIN output :
       output[i] \in [key : Key, range : 0..1, index : 1..MaxLength]
  /\ first_ \in 1..End(0) /\ last_ \in 1..End(0) /\ found \in 0..End(0)

Before(x, y) ==
  \/ x.key < y.key
  \/ x.key = y.key /\ x.range < y.range
  \/ x.key = y.key /\ x.range = y.range /\ x.index < y.index

(* "Performs a stable merge": the output is in order; equal elements keep  *)
(* theirs, with those of the first range first; none is lost or repeated.  *)
MergeIsStable ==
  call.op = "merge" =>
    /\ \A i \in 1..Len(output) - 1 : Before(output[i], output[i + 1])
    /\ op = "done" => Len(output) = Len(keys[0]) + Len(keys[1])

KeysOf(r) == {keys[r][i] : i \in DOMAIN keys[r]}
HasDuplicates(r) == Cardinality(KeysOf(r)) < Len(keys[r])

(* The set functions write the keys that the set operation of their name   *)
(* gives, in order, those of the first range before equal ones of the      *)
(* second.  If no range has a key twice, they write each key once and take *)
(* it from the first range that has it.  (If one has, union writes a key   *)
(* as often as that range does, although "Duplicate keys appear once in    *)
(* the output" (hxalgorithm.hpp:194), and difference drops only as many as *)
(* the second range has: nothing is said of how often, nor of what         *)
(* difference keeps.)                                                      *)
SetFunctionsAreExact ==
  op = "done" /\ call.op \in Writers \ {"merge"} =>
    LET written == {output[i].key : i \in DOMAIN output}
        result == CASE call.op = "union" -> KeysOf(0) \union KeysOf(1)
                    [] call.op = "intersection" -> KeysOf(0) \intersect KeysOf(1)
                    [] call.op = "difference" -> KeysOf(0) \ KeysOf(1)
        duplicates == HasDuplicates(0) \/ HasDuplicates(1)
    IN /\ \A i \in 1..Len(output) - 1 : Before(output[i], output[i + 1])
       /\ result \subseteq written
       /\ ~(duplicates /\ call.op = "difference") => written = result
       /\ ~duplicates =>
            /\ Len(output) = Cardinality(result)
            /\ \A i \in DOMAIN output : output[i].range = 1 => output[i].key \notin KeysOf(0)

(* The search does not leave the value behind: it finds the value if the   *)
(* range has it, and returns the end otherwise.                            *)
SearchKeepsValue ==
  call.op = "search" =>
    LET places == {i \in 1..Len(keys[0]) : KeyAt(i) = call.value}
    IN IF op = "done" THEN IF places = {} THEN found = End(0) ELSE found \in places
       ELSE places \subseteq first_..last_ - 1

(* equal() is equality and less() the lexicographic order, in which a      *)
(* prefix comes first.                                                     *)
ComparisonsAreExact ==
  op = "done" /\ call.op \in Comparisons =>
    LET x == keys[0]
        y == keys[1]
        Precedes ==
          \E n \in 0..Len(x) :
            /\ n < Len(y) /\ \A i \in 1..n : x[i] = y[i]
            /\ n = Len(x) \/ x[n + 1] < y[n + 1]
    IN found = Boolean(IF call.op = "equal" THEN x = y ELSE Precedes)

(* find_if() returns the first element that the functor is true for.       *)
FindMeetsFirst ==
  op = "done" /\ call.op = "find_if" =>
    /\ \A i \in 1..found - 1 : KeyAt(i) \notin call.accepts
    /\ found # End(0) => KeyAt(found) \in call.accepts

=============================================================================
