------------------------------ MODULE Numbers -------------------------------
(***************************************************************************)
(* hxrandom and hxlog2i.  A generator is a linear congruential step whose  *)
(* highest bits select where the result is cut out of the state; numbers   *)
(* in a range come from the result by way of a float, and hxlog2i reads    *)
(* the exponent of a float.                                                *)
(*                                                                         *)
(* All widths are parameters.  A product and a sum modulo 2^StateBits are  *)
(* the low bits of those modulo 2^64, so the steps are those of the low    *)
(* bits of the program's m_state_.  A float is the integer that it was     *)
(* rounded to; its multiplication by 2^-32 is exact.                       *)
(***************************************************************************)
EXTENDS Integers, FiniteSets

CONSTANTS
  ControlBits,    (* that select the shift: 4                              *)
  ResultBits,     (* of generate_32: 32                                    *)
  Discard,        (* the low bits that are never returned: 13              *)
  Mantissa,       (* of a float, with the hidden bit: 24                   *)
  Multiplier, Increment,
  Stream          (* the seeds                                             *)

StateBits == ControlBits + ResultBits + (2 ^ ControlBits - 1) + Discard
Period == 2 ^ StateBits
Results == 0..2 ^ ResultBits - 1

NumbersAssumption ==
  /\ ControlBits \in Nat /\ Discard \in Nat
  /\ Mantissa \in Nat \ {0} /\ ResultBits \in Nat /\ ResultBits > Mantissa
  /\ Multiplier \in 0..Period - 1 /\ Increment \in 0..Period - 1
  /\ Stream \subseteq 0..Period - 1

VARIABLES
  m_state_,
  seed,           (* what it was constructed with                          *)
  generated,      (* the number of calls of generate_32                    *)
  tally           (* how often each result was returned                    *)

numberVars == <<m_state_, seed, generated, tally>>

(***************************************************************************)
(* Floats.                                                                 *)
(***************************************************************************)
FloorLog2(i) == CHOOSE k \in 0..i : 2 ^ k <= i /\ i < 2 ^ (k + 1)

(* The conversion of an integer to a float: to the nearest, ties to even.  *)
RoundToFloat(i) ==
  IF i < 2 ^ Mantissa THEN i
  ELSE LET ulp == 2 ^ (FloorLog2(i) + 1 - Mantissa)
           down == i \div ulp
           rest == i % ulp
           up == rest > ulp \div 2 \/ (rest = ulp \div 2 /\ down % 2 = 1)
       IN (IF up THEN down + 1 ELSE down) * ulp

(* The exponent of the float. *)
hxlog2i(i) == FloorLog2(RoundToFloat(i))

(***************************************************************************)
(* hxrandom.                                                               *)
(***************************************************************************)
NextState(s) == (Multiplier * s + Increment) % Period

(* Mutant of ResultOf: shifted by one more, into the control bits. *)
ResultOfHigher(s) ==
  (s \div 2 ^ (s \div 2 ^ (StateBits - ControlBits) + Discard + 1)) % 2 ^ ResultBits

ResultOf(s) ==
  (s \div 2 ^ (s \div 2 ^ (StateBits - ControlBits) + Discard)) % 2 ^ ResultBits

(* generate_f01 is this, divided by 2^ResultBits. *)
Float01(result) == RoundToFloat(result)

(* Mutant of InRange: the product is rounded to the nearest integer. *)
InRangeToNearest(base, size, result) ==
  base + (RoundToFloat(size * Float01(result)) + 2 ^ (ResultBits - 1)) \div 2 ^ ResultBits

(* range, and operator% with base 0, of an integer type for a size that is *)
(* exact as a float: the product is rounded, its fraction is dropped.      *)
InRange(base, size, result) ==
  base + RoundToFloat(size * Float01(result)) \div 2 ^ ResultBits

NumbersInit ==
  /\ seed \in Stream
  /\ m_state_ = seed
  /\ generated = 0
  /\ tally = [r \in Results |-> 0]

(* generate_32, with the bound of one period. *)
Generate ==
  /\ generated < Period
  /\ m_state_' = NextState(m_state_)
  /\ generated' = generated + 1
  /\ tally' = [tally EXCEPT ![ResultOf(m_state_')] = @ + 1]
  /\ UNCHANGED seed

Exhausted == generated = Period /\ UNCHANGED numberVars

NumbersNext == Generate \/ Exhausted

-----------------------------------------------------------------------------
NumbersTypeOK ==
  /\ m_state_ \in 0..Period - 1
  /\ seed \in Stream
  /\ generated \in 0..Period
  /\ tally \in [Results -> 0..Period]

(* A seed does not repeat before it went through all states, and then it *)
(* returned every number of [0..2^32) as often as any other: the control   *)
(* bits are not among those of the result.                                 *)
PeriodIsFair ==
  /\ generated \in 1..Period - 1 => m_state_ # seed
  /\ generated = Period =>
       m_state_ = seed /\ \A r \in Results : tally[r] = Period \div 2 ^ ResultBits

(* The float of i is a greater power of 2 than i has a bit for.            *)
RoundsToPower(i) ==
  LET k == FloorLog2(i)
  IN k >= Mantissa /\ i >= 2 ^ (k + 1) - 2 ^ (k - Mantissa)

(* A number in a range is before its end: none of the two roundings takes  *)
(* it there, unless the first makes 1 of generate_f01.  (That it does, for *)
(* the results that round to 2^ResultBits, is not what hxrandom.hpp:29 and *)
(* 113 say; nothing is said of these results.)                             *)
RangeStaysInside ==
  LET result == ResultOf(m_state_)
  IN Float01(result) # 2 ^ ResultBits =>
       \A size \in 1..2 ^ Mantissa - 1 : InRange(0, size, result) \in 0..size - 1

(* hxlog2i is the index of the highest bit, whatever the float rounds to   *)
(* below the next power of 2.  (Of numbers that round up to it, for which  *)
(* hxlog2i is one more than hxutility.h:243 says, nothing is said.)        *)
Log2IsExact ==
  LET i == ResultOf(m_state_)
  IN i > 0 /\ ~RoundsToPower(i) => hxlog2i(i) = FloorLog2(i)

=============================================================================
