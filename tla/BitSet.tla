------------------------------ MODULE BitSet --------------------------------
(***************************************************************************)
(* hxbitset: BitCount bits in words of WordBits bits, the last of which    *)
(* may be used in part: its other bits have to stay 0.  A word is the set  *)
(* of its positions that are 1.  The loops over the words of the shifts    *)
(* write the array that they read, so they run in their order here too.    *)
(***************************************************************************)
EXTENDS Integers

CONSTANTS
  BitSet,      (* the objects *)
  BitCount,    (* bit_count_ *)
  WordBits,    (* s_bits_per_word_ *)
  ByteBits     (* the bits of a char *)

BitSetAssumption ==
  /\ BitCount \in Nat \ {0} /\ WordBits \in Nat \ {0} /\ ByteBits \in Nat \ {0}
  /\ WordBits % ByteBits = 0

VARIABLE m_data_    (* bitset -> word -> its positions that are 1 *)

s_words_ == (BitCount + WordBits - 1) \div WordBits
s_trailing_bits_ == BitCount % WordBits
Word == 0..s_words_ - 1
Ones == 0..WordBits - 1
s_trailing_mask_ == IF s_trailing_bits_ # 0 THEN 0..s_trailing_bits_ - 1 ELSE Ones

Position == 0..BitCount - 1
Bytes == s_words_ * (WordBits \div ByteBits)

Xor(v, w) == (v \ w) \union (w \ v)
Up(w, n) == {p + n : p \in w} \cap Ones         (* w << n *)
Down(w, n) == {p - n : p \in w} \cap Ones       (* w >> n *)

(* Mutant of Masked: the bits behind the last one are kept. *)
Unmasked(data) == data

Masked(data) == [data EXCEPT ![s_words_ - 1] = @ \cap s_trailing_mask_]

(* The bit of a position in its word, as the mask that the code makes.     *)
Mask(pos) == {pos % WordBits}
WordOf(pos) == pos \div WordBits

Init == m_data_ = [b \in BitSet |-> [w \in Word |-> {}]]

Write(b, data) == m_data_' = [m_data_ EXCEPT ![b] = data]

-----------------------------------------------------------------------------
Assign(b, x) == b # x /\ Write(b, m_data_[x])
And(b, x) == b # x /\ Write(b, [w \in Word |-> m_data_[b][w] \cap m_data_[x][w]])
Or(b, x) == b # x /\ Write(b, [w \in Word |-> m_data_[b][w] \union m_data_[x][w]])
ExclusiveOr(b, x) == b # x /\ Write(b, [w \in Word |-> Xor(m_data_[b][w], m_data_[x][w])])

Flip(b) == Write(b, Masked([w \in Word |-> Xor(m_data_[b][w], Ones)]))
Reset(b) == Write(b, [w \in Word |-> {}])
Set(b) == Write(b, Masked([w \in Word |-> Ones]))

FlipAt(b, pos) == Write(b, [m_data_[b] EXCEPT ![WordOf(pos)] = Xor(@, Mask(pos))])
ResetAt(b, pos) == Write(b, [m_data_[b] EXCEPT ![WordOf(pos)] = @ \ Mask(pos)])
SetAt(b, pos) == Write(b, [m_data_[b] EXCEPT ![WordOf(pos)] = @ \union Mask(pos)])

(* The word that operator<<= computes from the words that data has by now. *)
WordUp(data, i, count) ==
  LET words == count \div WordBits
      bits == count % WordBits
      lo == IF i >= words THEN Up(data[i - words], bits) ELSE {}
      hi == IF bits # 0 /\ i > words
            THEN Down(data[i - words - 1], WordBits - bits) ELSE {}
  IN lo \union hi

WordDown(data, i, count) ==
  LET words == count \div WordBits
      bits == count % WordBits
      lo == IF i + words < s_words_ THEN Down(data[i + words], bits) ELSE {}
      hi == IF bits # 0 /\ i + words + 1 < s_words_
            THEN Up(data[i + words + 1], WordBits - bits) ELSE {}
  IN lo \union hi

(* From the last word down, so that no word is read that was written.      *)
ShiftedLeft(data, count) ==
  LET step[k \in 0..s_words_] ==
        IF k = 0 THEN data
        ELSE [step[k - 1] EXCEPT ![s_words_ - k] = WordUp(step[k - 1], s_words_ - k, count)]
  IN IF count = 0 THEN data ELSE Masked(step[s_words_])

(* From the first word up. *)
ShiftedRight(data, count) ==
  LET step[k \in 0..s_words_] ==
        IF k = 0 THEN data
        ELSE [step[k - 1] EXCEPT ![k - 1] = WordDown(step[k - 1], k - 1, count)]
  IN IF count = 0 THEN data ELSE step[s_words_]

ShiftLeft(b, count) == Write(b, ShiftedLeft(m_data_[b], count))
ShiftRight(b, count) == Write(b, ShiftedRight(m_data_[b], count))

(* The first len bytes of the words are those of src.                      *)
Load(b, src, len) ==
  LET Copied(w, p) == (w * WordBits + p) \div ByteBits < len
  IN Write(b, Masked([w \in Word |->
       {p \in Ones : IF Copied(w, p) THEN p \in src[w] ELSE p \in m_data_[b][w]}]))

Next ==
  \E b \in BitSet :
    \/ \E x \in BitSet : Assign(b, x) \/ And(b, x) \/ Or(b, x) \/ ExclusiveOr(b, x)
    \/ Flip(b) \/ Reset(b) \/ Set(b)
    \/ \E pos \in Position : FlipAt(b, pos) \/ ResetAt(b, pos) \/ SetAt(b, pos)
    \/ \E count \in 0..BitCount + WordBits : ShiftLeft(b, count) \/ ShiftRight(b, count)
    \/ \E fill \in {{}, Ones}, len \in 0..Bytes : Load(b, [w \in Word |-> fill], len)

Spec == Init /\ [][Next]_m_data_

-----------------------------------------------------------------------------
(* operator[] and test(); all(), any() and == look at the words only.      *)
BitOf(data, pos) == Mask(pos) \cap data[WordOf(pos)] # {}
Test(b, pos) == BitOf(m_data_[b], pos)

All(b) ==
  /\ \A w \in Word \ {s_words_ - 1} : m_data_[b][w] = Ones
  /\ m_data_[b][s_words_ - 1] = s_trailing_mask_

Any(b) == \E w \in Word : m_data_[b][w] # {}

PositionsOf(data) == {pos \in Position : BitOf(data, pos)}
Positions(b) == PositionsOf(m_data_[b])

TypeOK == m_data_ \in [BitSet -> [Word -> SUBSET Ones]]

(* The comparisons of whole words agree with test(), bit by bit, for       *)
(* which no call may leave a bit set behind the last position.             *)
WordsAgreeWithBits ==
  \A b \in BitSet :
    /\ All(b) <=> \A pos \in Position : Test(b, pos)
    /\ Any(b) <=> \E pos \in Position : Test(b, pos)
    /\ \A x \in BitSet : m_data_[b] = m_data_[x] <=> Positions(b) = Positions(x)

(* The shifts move every bit by as many places, across the words, and lose *)
(* those only that leave the bitset.                                       *)
ShiftsMoveEveryBit ==
  \A b \in BitSet, count \in 0..BitCount + WordBits :
    /\ PositionsOf(ShiftedLeft(m_data_[b], count))
         = {pos + count : pos \in Positions(b)} \cap Position
    /\ PositionsOf(ShiftedRight(m_data_[b], count))
         = {pos - count : pos \in Positions(b)} \cap Position

=============================================================================
