----------------------------- MODULE Algorithms -----------------------------
(***************************************************************************)
(* One call of an algorithm, which is chosen when the run starts: of       *)
(* hxsort, of a function that reads ranges, or of a radix sort; or calls   *)
(* of a random number generator, or of hxkey_hash.                         *)
(***************************************************************************)
EXTENDS Integers

VARIABLES
  algorithm,     \* the one that is called, or "none"
  data, calls, sort_pc, lt_, gt_, i_,
  op, range_call, keys, src0_, src1_, output, first_, last_, found,
  variant, type, buffer, radix_pc, pass, source, hist,
  m_state_, seed, generated, tally,
  keyed, word, texts, hashes

sort == <<data, calls, sort_pc, lt_, gt_, i_>>
range == <<op, range_call, keys, src0_, src1_, output, first_, last_, found>>
radix == <<variant, type, buffer, radix_pc, pass, source, hist>>
numbers == <<m_state_, seed, generated, tally>>
hashing == <<keyed, word, texts, hashes>>
algorithmVars == <<algorithm, sort, range, radix, numbers, hashing>>

Sort == INSTANCE IntroSort WITH
  Value <- 1..3, Lengths <- {0, 1, 3, 7}, Cutoff <- 6, Depths <- 0..2, pc <- sort_pc

Range == INSTANCE Ranges WITH Key <- 1..3, MaxLength <- 3, call <- range_call

(* Digits of 8 bits become digits of one bit; of 11, 11 and 10 bits, 2, 1  *)
(* and 1.                                                                  *)
DigitBits == [v \in {"void", "void11"} |->
  IF v = "void" THEN <<1, 1, 1, 1>> ELSE <<2, 1, 1>>]

Radix == INSTANCE RadixSort WITH
  Digits <- DigitBits, Lengths <- {0, 2, 3}, MinSize <- 3, pc <- radix_pc

(* 11 bits of state, and the constants of hxrandom modulo 2^11.            *)
Numbers == INSTANCE Numbers WITH
  ControlBits <- 2, ResultBits <- 5, Discard <- 1, Mantissa <- 3,
  Multiplier <- 1837, Increment <- 335, Stream <- {1}

(* 8 bits of hash, whose multipliers are those of the program modulo 2^8;  *)
(* of the characters of 3 bits, 1 is a space and 6 is negative.            *)
Keys == INSTANCE Keys WITH
  Width <- 8, ByteBits <- 3, Prime <- <<177, 119, 61, 47, 177>>,
  FnvBasis <- 197, FnvPrime <- 147, WordTurn <- 4, CharTurn <- 3,
  Shifts <- <<4, 3, 4>>, Char <- {1, 2, 6}, Graph <- {2, 6}, MaxLength <- 3

AlgorithmAssumptions ==
  /\ Sort!IntroSortAssumption /\ Range!RangesAssumption
  /\ Radix!RadixSortAssumption /\ Numbers!NumbersAssumption
  /\ Keys!KeysAssumption

NoSort ==
  /\ data = <<>> /\ calls = <<>> /\ sort_pc = "call"
  /\ lt_ = 0 /\ gt_ = 0 /\ i_ = 0

NoRange ==
  /\ op = "done" /\ range_call = <<>> /\ keys = <<>>
  /\ src0_ = 1 /\ src1_ = 1 /\ output = <<>>
  /\ first_ = 1 /\ last_ = 1 /\ found = 0

NoRadix ==
  /\ variant = "void" /\ type = "unsigned" /\ buffer = <<>>
  /\ radix_pc = "done" /\ pass = 1 /\ source = 0 /\ hist = <<>>

NoNumbers == m_state_ = 0 /\ seed = 0 /\ generated = 0 /\ tally = <<>>

NoKeys == keyed = "none" /\ word = 0 /\ texts = <<>> /\ hashes = <<>>

NoAlgorithm ==
  algorithm = "none" /\ NoSort /\ NoRange /\ NoRadix /\ NoNumbers /\ NoKeys

AlgorithmsInit ==
  \/ algorithm = "sort" /\ Sort!Init /\ NoRange /\ NoRadix /\ NoNumbers /\ NoKeys
  \/ algorithm = "range" /\ Range!Init /\ NoSort /\ NoRadix /\ NoNumbers /\ NoKeys
  \/ algorithm = "radix" /\ Radix!Init /\ NoSort /\ NoRange /\ NoNumbers /\ NoKeys
  \/ algorithm = "numbers" /\ Numbers!NumbersInit /\ NoSort /\ NoRange /\ NoRadix /\ NoKeys
  \/ algorithm = "keys" /\ Keys!KeysInit /\ NoSort /\ NoRange /\ NoRadix /\ NoNumbers

AlgorithmsNext ==
  /\ UNCHANGED algorithm
  /\ \/ algorithm = "sort" /\ Sort!Next /\ UNCHANGED <<range, radix, numbers, hashing>>
     \/ algorithm = "range" /\ Range!Next /\ UNCHANGED <<sort, radix, numbers, hashing>>
     \/ algorithm = "radix" /\ Radix!Next /\ UNCHANGED <<sort, range, numbers, hashing>>
     \/ algorithm = "numbers" /\ Numbers!NumbersNext /\ UNCHANGED <<sort, range, radix, hashing>>
     \/ algorithm = "keys" /\ Keys!KeysNext /\ UNCHANGED <<sort, range, radix, numbers>>

(* The variables of the call that runs have their types.                   *)
AlgorithmsTypeOK ==
  /\ algorithm = "sort" => Sort!TypeOK
  /\ algorithm = "range" => Range!TypeOK
  /\ algorithm = "radix" => Radix!TypeOK
  /\ algorithm = "numbers" => Numbers!NumbersTypeOK
  /\ algorithm = "keys" => Keys!KeysTypeOK

(* hxsort: the parts of the range are apart around the partitioning loop,  *)
(* and values that are in no common range to be sorted are in order.       *)
SortSeparates ==
  algorithm = "sort" => Sort!PartsAreSeparate /\ Sort!OrderedAcrossRanges

(* hxsort: no step loses or repeats a value, and each is a step to the end.*)
SortSteps == [][algorithm = "sort" => Sort!PermutesStep /\ Sort!ProgressStep]_algorithmVars

(* hxmerge is a stable merge, as its comment promises; the outputs of the  *)
(* hxset_ functions are those of sets, if no range has a key twice;        *)
(* hxbinary_search never leaves the value outside of what it searches;     *)
(* arrays are compared in lexicographic order.  A random number generator  *)
(* goes through its period, its numbers and hxlog2i are right wherever no  *)
(* float rounds up to a power of 2.  What hxkey_equal takes for the same   *)
(* name has one hash; numbers, and strings that differ in one character,   *)
(* do not collide.                                                         *)
OutputsAreExact ==
  /\ algorithm = "range" =>
       /\ Range!MergeIsStable /\ Range!SetFunctionsAreExact /\ Range!SearchKeepsValue
       /\ Range!ComparisonsAreExact /\ Range!FindMeetsFirst
  /\ algorithm = "numbers" =>
       Numbers!PeriodIsFair /\ Numbers!RangeStaysInside /\ Numbers!Log2IsExact
  /\ algorithm = "keys" =>
       Keys!WordsApart /\ Keys!NeighboursApart /\ Keys!EqualNamesAgree

(* hxradix_sort: each pass keeps the order of the passes before it, and    *)
(* the array itself ends in the order of the key's type.                   *)
RadixSorts == algorithm = "radix" => Radix!SortedByLowDigits /\ Radix!RadixSorts

=============================================================================
