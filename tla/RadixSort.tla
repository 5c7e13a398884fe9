----------------------------- MODULE RadixSort ------------------------------
(***************************************************************************)
(* hxradix_sort and hxradix_sort11: from the lowest digit of the keys to   *)
(* the highest, elements are scattered from one buffer to another, to      *)
(* places that a histogram of each digit gives; passes over digits that    *)
(* are 0 in all keys are skipped.  Keys of signed types and floats are     *)
(* made unsigned first.  Short arrays are sorted by insertion.             *)
(***************************************************************************)
EXTENDS Integers, FiniteSets, Sequences

CONSTANTS
  Digits,     (* "void" or "void11" -> the number of bits of each digit     *)
  Lengths,    (* of the arrays                                              *)
  MinSize     (* HX_RADIX_SORT_MIN_SIZE                                     *)

RadixSortAssumption ==
  /\ DOMAIN Digits = {"void", "void11"}
  /\ Len(Digits["void"]) = 4 /\ Len(Digits["void11"]) = 3
  /\ \A v \in DOMAIN Digits : \A p \in DOMAIN Digits[v] : Digits[v][p] \in Nat \ {0}
  /\ Lengths \subseteq Nat /\ MinSize \in Nat \ {0}

VARIABLES
  variant,    (* which of the two functions runs                            *)
  type,       (* of the keys                                                *)
  buffer,     (* buf0, which is the array, and the working buffers          *)
  pc,         (* "call", "scatter" or "done"                                *)
  pass,       (* of the scattering passes                                   *)
  source,     (* the buffer that the pass reads                             *)
  hist        (* pass -> digit -> the place for the next element            *)

vars == <<variant, type, buffer, pc, pass, source, hist>>

(* The digits lie one on the other: the bits below that of a pass.         *)
Shift(v, p) ==
  LET sum[q \in 1..p] == IF q = 1 THEN 0 ELSE sum[q - 1] + Digits[v][q - 1]
  IN sum[p]
KeyBits(v) == Shift(v, Len(Digits[v])) + Digits[v][Len(Digits[v])]
TopBit(v) == 2 ^ (KeyBits(v) - 1)

(* hxradix_sort_key::set_ for the bits of a key, as an unsigned number:    *)
(* with the top bit flipped, or for a negative float all of them.          *)
ModifiedKey(v, t, bits) ==
  CASE t = "unsigned" -> bits
    [] t = "signed" -> IF bits < TopBit(v) THEN bits + TopBit(v) ELSE bits - TopBit(v)
    [] t = "float" -> IF bits < TopBit(v) THEN bits + TopBit(v)
                      ELSE 2 * TopBit(v) - 1 - bits

(* What the bits mean; the order of floats is that of their magnitudes.    *)
KeyValue(v, t, bits) ==
  CASE t = "unsigned" -> bits
    [] t = "signed" -> IF bits < TopBit(v) THEN bits ELSE bits - 2 * TopBit(v)
    [] t = "float" -> IF bits < TopBit(v) THEN bits ELSE TopBit(v) - bits

Length == Len(buffer[0])
Digit(e, p) == (e.key \div 2 ^ Shift(variant, p)) % 2 ^ Digits[variant][p]

Init ==
  /\ variant \in DOMAIN Digits
  /\ type \in {"unsigned", "signed", "float"}
  /\ \E n \in Lengths : \E bits \in [1..n -> 0..2 * TopBit(variant) - 1] :
       buffer = [b \in 0..2 |-> IF b # 0 THEN <<>> ELSE
         [i \in 1..n |-> [key |-> ModifiedKey(variant, type, bits[i]),
                          bits |-> bits[i], value |-> i]]]
  /\ pc = "call" /\ pass = 1 /\ source = 0 /\ hist = <<>>

-----------------------------------------------------------------------------
(* hxinsertion_sort, which leaves equal keys in the reverse order.         *)
InsertionSorted(s) ==
  LET Follows(i, j) == s[j].key < s[i].key \/ (s[j].key = s[i].key /\ j > i)
      place == [i \in DOMAIN s |-> 1 + Cardinality({j \in DOMAIN s : Follows(i, j)})]
  IN [p \in DOMAIN s |-> s[CHOOSE i \in DOMAIN s : place[i] = p]]

InsertionSort ==
  /\ pc = "call" /\ Length < MinSize
  /\ buffer' = [buffer EXCEPT ![0] = InsertionSorted(@)]
  /\ pc' = "done"
  /\ UNCHANGED <<variant, type, pass, source, hist>>

(* The histograms of all digits, then the sums that make them indices.     *)
Histogram(p) ==
  [d \in 0..2 ^ Digits[variant][p] - 1 |->
    Cardinality({i \in 1..Length : Digit(buffer[0][i], p) = d})]

StartIndices(h) ==
  [d \in DOMAIN h |->
    LET sum[c \in 0..d] == IF c = 0 THEN 0 ELSE sum[c - 1] + h[c - 1] IN sum[d]]

BuildHistograms ==
  /\ pc = "call" /\ Length >= MinSize
  /\ hist' = [p \in DOMAIN Digits[variant] |-> StartIndices(Histogram(p))]
  /\ pc' = "scatter"
  /\ UNCHANGED <<variant, type, buffer, pass, source>>

(* Every key has 0 in the digit of a pass if digit 1 starts at the end.    *)
Needed(p) == hist[p][1] # Length

(* Mutant of SkipsFrom: the pair is skipped when either digit is 0. *)
SkipsFromEither(p) ==
  CASE variant = "void" -> p = 3 /\ ~(Needed(3) /\ Needed(4))
    [] variant = "void11" -> p = 3 /\ ~Needed(3)

(* The first of the passes that are not made: two of them go together      *)
(* where the array would be left in the other buffer.                      *)
SkipsFrom(p) ==
  CASE variant = "void" -> p = 3 /\ ~Needed(3) /\ ~Needed(4)
    [] variant = "void11" -> p = 3 /\ ~Needed(3)

(* The buffer that a pass writes.                                          *)
Target(p) ==
  CASE variant = "void" -> IF p \in {1, 3} THEN 1 ELSE 0
    [] variant = "void11" -> IF p = 1 THEN 1 ELSE IF p = 2 /\ Needed(3) THEN 2 ELSE 0

(* buf[hist[digit]++] = *it for each element of the source in its order.   *)
Scattered(p) ==
  LET s == buffer[source]
      place == [i \in DOMAIN s |-> 1 + hist[p][Digit(s[i], p)]
        + Cardinality({j \in 1..i - 1 : Digit(s[j], p) = Digit(s[i], p)})]
  IN [q \in DOMAIN s |->
       IF \E i \in DOMAIN s : place[i] = q
       THEN s[CHOOSE i \in DOMAIN s : place[i] = q] ELSE s[q]]

Scatter ==
  /\ pc = "scatter" /\ pass <= Len(Digits[variant]) /\ ~SkipsFrom(pass)
  /\ buffer' = [buffer EXCEPT ![Target(pass)] = Scattered(pass)]
  /\ source' = Target(pass)
  /\ pass' = pass + 1
  /\ UNCHANGED <<variant, type, pc, hist>>

(* The working buffers are freed.                                          *)
Finish ==
  /\ pc = "scatter" /\ (pass > Len(Digits[variant]) \/ SkipsFrom(pass))
  /\ buffer' = [buffer EXCEPT ![1] = <<>>, ![2] = <<>>]
  /\ pc' = "done"
  /\ UNCHANGED <<variant, type, pass, source, hist>>

Returned == pc = "done" /\ UNCHANGED vars

Next == InsertionSort \/ BuildHistograms \/ Scatter \/ Finish \/ Returned

Spec == Init /\ [][Next]_vars

-----------------------------------------------------------------------------
Element(v) == [key : 0..2 * TopBit(v) - 1, bits : 0..2 * TopBit(v) - 1, value : Nat]

TypeOK ==
  /\ variant \in DOMAIN Digits
  /\ type \in {"unsigned", "signed", "float"}
  /\ \A b \in 0..2 : \A i \in DOMAIN buffer[b] : buffer[b][i] \in Element(variant)
  /\ pc \in {"call", "scatter", "done"}
  /\ pass \in 1..Len(Digits[variant]) + 1 /\ source \in 0..2

(* After each pass the elements are in the order of the digits they were   *)
(* scattered by, those with the same digits in the order they came in, and *)
(* none is lost: the next pass relies on it.                               *)
SortedByLowDigits ==
  pc = "scatter" /\ pass > 1 =>
    LET s == buffer[source]
        low == [i \in DOMAIN s |-> s[i].key %
                 (IF pass <= Len(Digits[variant]) THEN 2 ^ Shift(variant, pass)
                                                  ELSE 2 ^ KeyBits(variant))]
    IN /\ {s[i].value : i \in DOMAIN s} = 1..Length
       /\ \A i, j \in DOMAIN s : i < j =>
            low[i] < low[j] \/ (low[i] = low[j] /\ s[i].value < s[j].value)

(* Whatever passes were skipped, the array itself ends in the order of the *)
(* key's type and holds every element.                                     *)
RadixSorts ==
  pc = "done" =>
    LET s == buffer[0]
    IN /\ {s[i].value : i \in DOMAIN s} = DOMAIN s
       /\ \A i, j \in DOMAIN s : i < j =>
            KeyValue(variant, type, s[i].bits) <= KeyValue(variant, type, s[j].bits)

=============================================================================
