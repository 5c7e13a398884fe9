------------------------------- MODULE Heaps --------------------------------
(***************************************************************************)
(* The binary heap of hxalgorithm_detail.hpp and hxheapsort on the slots   *)
(* [b, e) of an array S of integers.  hxmake_heap_ carries the value that  *)
(* rises in a variable; here it is in the slot of the hole meanwhile.      *)
(***************************************************************************)
EXTENDS Integers

Swapped(S, i, j) == [S EXCEPT ![i] = S[j], ![j] = S[i]]

ParentOf(b, i) == b + (i - b - 1) \div 2
LeftOf(b, i) == b + 2 * (i - b) + 1

(* One iteration of the inner loop of hxmake_heap_: H = <<array, slot>>.   *)
Rise(H, b) ==
  LET S == H[1]
      node == H[2]
      parent == ParentOf(b, node)
  IN IF node # b /\ S[parent] < S[node]
     THEN <<Swapped(S, parent, node), parent>> ELSE H

SiftedUp(S, b, node) ==
  LET rise[k \in 0..node - b] == IF k = 0 THEN <<S, node>> ELSE Rise(rise[k - 1], b)
  IN rise[node - b][1]

MadeHeap(S, b, e) ==
  LET made[heap_end \in b..e] ==
        IF heap_end <= b + 1 THEN S ELSE SiftedUp(made[heap_end - 1], b, heap_end - 1)
  IN made[e]

(* One iteration of hxheapsort_heapify_. *)
Sink(H, b, e) ==
  LET S == H[1]
      current == H[2]
      left == LeftOf(b, current)
      right == left + 1
      next == IF right < e /\ S[left] < S[right] THEN right ELSE left
  IN IF left >= e THEN H
     ELSE IF S[current] < S[next] THEN <<Swapped(S, current, next), next>> ELSE H

SiftedDown(S, b, current, e) ==
  LET sink[k \in 0..e - b] == IF k = 0 THEN <<S, current>> ELSE Sink(sink[k - 1], b, e)
  IN sink[e - b][1]

HeapSorted(S, b, e) ==
  LET sorted[k \in 0..e - b - 1] ==
        IF k = 0 THEN MadeHeap(S, b, e)
        ELSE SiftedDown(Swapped(sorted[k - 1], b, e - k), b, b, e - k)
  IN IF e - b < 2 THEN S ELSE sorted[e - b - 1]

=============================================================================
