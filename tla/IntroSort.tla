----------------------------- MODULE IntroSort ------------------------------
(***************************************************************************)
(* hxsort: hxintro_sort_ sorts short ranges by insertion and, at the end   *)
(* of its recursion, by a heap; it cuts other ranges in three with         *)
(* hxpartition_sort_, which calls it back for each part.  The calls that   *)
(* have not returned are a stack of ranges.                                *)
(***************************************************************************)
EXTENDS Heaps, FiniteSets, Sequences

CONSTANTS
  Value,      (* integers: less_ is <                                       *)
  Lengths,    (* of the arrays                                              *)
  Cutoff,     (* hxpartition_sort_cutoff_                                   *)
  Depths      (* the recursion depths that hxintro_sort_ is called with     *)

(* A range above the cutoff has room for five pivots between its ends.     *)
Seventh(n) == n \div 8 + n \div 64 + 1

IntroSortAssumption ==
  /\ Value \subseteq Int /\ Lengths \subseteq Nat /\ Depths \subseteq Nat
  /\ Cutoff \in Nat
  /\ \A n \in Lengths : n > Cutoff =>
       n \div 2 - 2 * Seventh(n) > 0 /\ n \div 2 + 2 * Seventh(n) < n - 1

VARIABLES
  data,      (* the array, from 0                                          *)
  calls,     (* the ranges left to sort, the one to sort next first        *)
  pc,        (* "call", or "partition" while the loop cuts the first range *)
  lt_, gt_, i_

loop == <<lt_, gt_, i_>>
vars == <<data, calls, pc, loop>>

Call(begin, end, depth) == [begin |-> begin, end |-> end, depth |-> depth]
begin_ == calls[1].begin
end_ == calls[1].end
back_ == end_ - 1
length_ == end_ - begin_

Init ==
  /\ \E n \in Lengths, depth \in Depths :
       /\ data \in [0..n - 1 -> Value]
       /\ calls = <<Call(0, n, depth)>>
  /\ pc = "call"
  /\ lt_ = 0 /\ gt_ = 0 /\ i_ = 0

-----------------------------------------------------------------------------
(* hxinsertion_sort: S[j] goes in front of the values from begin on that   *)
(* are not less than it is.                                                *)
Inserted(S, begin, j) ==
  LET t == S[j]
      places == {k \in begin..j : \A m \in k..j - 1 : ~(S[m] < t)}
      place == CHOOSE k \in places : \A m \in places : k <= m
  IN [k \in DOMAIN S |-> IF k = place THEN t
                         ELSE IF k \in place + 1..j THEN S[k - 1] ELSE S[k]]

InsertionSorted(S, begin, end) ==
  LET sorted[j \in begin..end] ==
        IF j <= begin + 1 THEN S ELSE Inserted(sorted[j - 1], begin, j - 1)
  IN sorted[end]

InsertionSort ==
  /\ pc = "call" /\ calls # <<>> /\ length_ <= Cutoff
  /\ data' = InsertionSorted(data, begin_, end_)
  /\ calls' = Tail(calls)
  /\ UNCHANGED <<pc, loop>>

Heapsort ==
  /\ pc = "call" /\ calls # <<>> /\ length_ > Cutoff /\ calls[1].depth = 0
  /\ data' = HeapSorted(data, begin_, end_)
  /\ calls' = Tail(calls)
  /\ UNCHANGED <<pc, loop>>

-----------------------------------------------------------------------------
(* The sorting network exchanges the iterators p0_ to p4_, not the values. *)
Network == <<<<3, 0>>, <<4, 1>>, <<2, 0>>, <<3, 1>>, <<1, 0>>,
             <<4, 2>>, <<2, 1>>, <<4, 3>>, <<3, 2>>>>

Pivots ==
  LET p == [k \in 0..4 |-> begin_ + length_ \div 2 + (k - 2) * Seventh(length_)]
      sorted[n \in 0..Len(Network)] ==
        IF n = 0 THEN p
        ELSE LET q == sorted[n - 1]
                 hi == Network[n][1]
                 lo == Network[n][2]
             IN IF data[q[hi]] < data[q[lo]] THEN Swapped(q, hi, lo) ELSE q
  IN sorted[Len(Network)]

Partition ==
  /\ pc = "call" /\ calls # <<>> /\ length_ > Cutoff /\ calls[1].depth # 0
  /\ data' = Swapped(Swapped(data, begin_, Pivots[1]), back_, Pivots[3])
  /\ lt_' = begin_ + 1 /\ gt_' = back_ - 1 /\ i_' = begin_ + 1
  /\ pc' = "partition"
  /\ UNCHANGED calls

Looping == pc = "partition" /\ i_ <= gt_

(* Mutant of Less: the index advances past the value it swapped in, which *)
(* may belong to the last part, and the first part does not grow.          *)
LessAdvancing ==
  /\ Looping /\ data[i_] < data[begin_]
  /\ data' = Swapped(data, i_, lt_)
  /\ i_' = i_ + 1
  /\ UNCHANGED <<calls, pc, lt_, gt_>>

Less ==
  /\ Looping /\ data[i_] < data[begin_]
  /\ IF lt_ # i_ THEN data' = Swapped(data, i_, lt_) /\ UNCHANGED i_
                 ELSE i_' = i_ + 1 /\ UNCHANGED data
  /\ lt_' = lt_ + 1
  /\ UNCHANGED <<calls, pc, gt_>>

(* Mutant of Greater: the end of the loop does not come closer. *)
GreaterStaying ==
  /\ Looping /\ ~(data[i_] < data[begin_]) /\ data[back_] < data[i_]
  /\ data' = Swapped(data, i_, gt_)
  /\ UNCHANGED <<calls, pc, lt_, gt_, i_>>

Greater ==
  /\ Looping /\ ~(data[i_] < data[begin_]) /\ data[back_] < data[i_]
  /\ data' = Swapped(data, i_, gt_)
  /\ gt_' = gt_ - 1
  /\ UNCHANGED <<calls, pc, lt_, i_>>

Middle ==
  /\ Looping /\ ~(data[i_] < data[begin_]) /\ ~(data[back_] < data[i_])
  /\ i_' = i_ + 1
  /\ UNCHANGED <<data, calls, pc, lt_, gt_>>

(* The pivots change places with the last value of the first part and the  *)
(* first one of the last part, and are not sorted again.                   *)
CallBack ==
  /\ pc = "partition" /\ i_ > gt_
  /\ LET lt == lt_ - 1
         gt == gt_ + 1
         depth == calls[1].depth - 1
     IN /\ data' = Swapped(Swapped(data, begin_, lt), back_, gt)
        /\ calls' = <<Call(begin_, lt, depth), Call(lt + 1, gt, depth),
                      Call(gt + 1, end_, depth)>> \o Tail(calls)
  /\ pc' = "call"
  /\ UNCHANGED loop

(* hxsort() has returned. *)
Returned == calls = <<>>
Done == Returned /\ UNCHANGED vars

Next ==
  \/ InsertionSort \/ Heapsort
  \/ Partition \/ Less \/ Greater \/ Middle \/ CallBack
  \/ Done

Spec == Init /\ [][Next]_vars

-----------------------------------------------------------------------------
Index == DOMAIN data
Ranges == {<<calls[c].begin, calls[c].end>> : c \in DOMAIN calls}

TypeOK ==
  /\ \E n \in Lengths : data \in [0..n - 1 -> Value]
  /\ pc \in {"call", "partition"}
  /\ \A r \in Ranges : 0 <= r[1] /\ r[1] <= r[2] /\ (r[2] - 1 \in Index \/ r[1] = r[2])

(* Around the loop the range is in four parts: below the first pivot, from *)
(* one pivot to the other, not looked at yet, above the last pivot.        *)
PartsAreSeparate ==
  pc = "partition" =>
    LET low == data[begin_]
        high == data[back_]
    IN /\ begin_ < lt_ /\ lt_ <= i_ /\ i_ <= gt_ + 1 /\ gt_ < back_
       /\ low <= high
       /\ \A k \in begin_ + 1..lt_ - 1 : data[k] < low
       /\ \A k \in lt_..i_ - 1 : low <= data[k] /\ data[k] <= high
       /\ \A k \in gt_ + 1..back_ - 1 : high < data[k]

(* Two values are in order unless a range that is left to sort has both:   *)
(* all are when the last call has returned.                                *)
OrderedAcrossRanges ==
  \A k, m \in Index :
    k < m /\ (\A r \in Ranges : ~(r[1] <= k /\ m < r[2])) => data[k] <= data[m]

PlacesOf(S, v) == {k \in DOMAIN S : S[k] = v}

(* No step loses or repeats a value.                                       *)
PermutesStep ==
  \A v \in Value : Cardinality(PlacesOf(data', v)) = Cardinality(PlacesOf(data, v))

SortPermutes == [][PermutesStep]_vars

(* What the loop has still to do, and how many values are in the ranges    *)
(* that are left.                                                          *)
LoopLeft == 2 * (gt_ - i_) + (i_ - lt_)
ValuesLeft ==
  LET sum[c \in 0..Len(calls)] ==
        IF c = 0 THEN 0 ELSE sum[c - 1] + calls[c].end - calls[c].begin
  IN sum[Len(calls)]

(* Each step of the loop, each cut and each sorted range brings the end    *)
(* nearer: neither the loop nor the recursion goes on for ever.            *)
ProgressStep ==
  CASE pc = "partition" /\ pc' = "partition" -> LoopLeft' < LoopLeft
    [] pc = "partition" /\ pc' = "call" -> ValuesLeft' < ValuesLeft
    [] pc = "call" /\ pc' = "call" -> Len(calls') < Len(calls)
    [] pc = "call" /\ pc' = "partition" -> calls' = calls

SortProgresses == [][ProgressStep]_vars

=============================================================================
