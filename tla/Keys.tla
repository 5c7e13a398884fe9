-------------------------------- MODULE Keys --------------------------------
(***************************************************************************)
(* hxkey_hash and hxkey_equal: the hash of a number, of a C string, and of *)
(* the name of a console command, which is what a line begins with.        *)
(*                                                                         *)
(* A hash has Width bits; the multipliers are those of the program modulo  *)
(* 2^Width, the rotations and shifts are in proportion to the width.       *)
(***************************************************************************)
EXTENDS Integers, FiniteSets, SequencesExt, Bitwise

CONSTANTS
  Width,           (* of hxhash_t: 32                                       *)
  ByteBits,        (* of a char: 8                                          *)
  Prime,           (* hxhash_prime1_ to hxhash_prime5_                      *)
  FnvBasis, FnvPrime,
  WordTurn, CharTurn,      (* rotations to the left: 17 and 11              *)
  Shifts,          (* of the avalanche: <<15, 13, 16>>                      *)
  Char, Graph,     (* characters, and those that hxisgraph is true for      *)
  MaxLength

Hashes == 0..2 ^ Width - 1
Texts == UNION {[1..n -> Char] : n \in 0..MaxLength}

KeysAssumption ==
  /\ Width \in Nat /\ ByteBits \in 1..Width
  /\ Char \subseteq 1..2 ^ ByteBits - 1 /\ Graph \subseteq Char
  /\ \A i \in 1..5 : Prime[i] \in Hashes
  /\ {FnvBasis, FnvPrime} \subseteq Hashes
  /\ {WordTurn, CharTurn} \subseteq 1..Width - 1
  /\ \A i \in 1..3 : Shifts[i] \in 1..Width - 1

VARIABLES
  keyed,           (* "words", "texts" or "names"                           *)
  word,            (* the next number to hash                               *)
  texts,           (* two strings                                           *)
  hashes           (* of all numbers so far; of the two strings             *)

keyVars == <<keyed, word, texts, hashes>>

Low(n) == n % 2 ^ Width
Rotated(h, n) == Low(h * 2 ^ n) | (h \div 2 ^ (Width - n))

hxhash_avalanche_(x) ==
  LET Fold(h, n) == h ^^ (h \div 2 ^ n)
      x1 == Low(Fold(x, Shifts[1]) * Prime[2])
      x2 == Low(Fold(x1, Shifts[2]) * Prime[3])
  IN Fold(x2, Shifts[3])

WordHash(x) ==
  LET h == Low(Prime[5] + 4 + x * Prime[3])
  IN hxhash_avalanche_(Low(Rotated(h, WordTurn) * Prime[4]))

(* A character is added as an unsigned one. *)
TextHash(s) ==
  LET Add(h, c) == Low(Rotated(Low(h + c * Prime[5]), CharTurn) * Prime[1])
  IN hxhash_avalanche_(Low(FoldLeft(Add, Prime[5], s) + Len(s)))

(* The part of a string up to the first character that is not graphical.   *)
NameOf(s) ==
  SubSeq(s, 1, CHOOSE n \in 0..Len(s) :
                 /\ \A i \in 1..n : s[i] \in Graph
                 /\ n = Len(s) \/ s[n + 1] \notin Graph)

(* A character is signed. *)
NameHash(s) ==
  LET Extended(c) == IF c < 2 ^ (ByteBits - 1) THEN c ELSE 2 ^ Width - 2 ^ ByteBits + c
      Add(h, c) == Low((h ^^ Extended(c)) * FnvPrime)
  IN FoldLeft(Add, FnvBasis, NameOf(s))

(* Mutant of NamesEqual: only the first name has to end. *)
NamesEqualPrefix(s, t) ==
  LET Ends(r, i) == i > Len(r) \/ r[i] \notin Graph
      Stops(i) == Ends(s, i) \/ Ends(t, i) \/ s[i] # t[i]
      stop == CHOOSE i \in 1..Len(s) + 1 : Stops(i) /\ \A j \in 1..i - 1 : ~Stops(j)
  IN Ends(s, stop)

(* Both are read as long as they agree on a graphical character.           *)
NamesEqual(s, t) ==
  LET Ends(r, i) == i > Len(r) \/ r[i] \notin Graph
      Stops(i) == Ends(s, i) \/ Ends(t, i) \/ s[i] # t[i]
      stop == CHOOSE i \in 1..Len(s) + 1 : Stops(i) /\ \A j \in 1..i - 1 : ~Stops(j)
  IN Ends(s, stop) /\ Ends(t, stop)

KeysInit ==
  /\ word = 0
  /\ \/ keyed = "words" /\ texts = <<>> /\ hashes = {}
     \/ keyed \in {"texts", "names"} /\ texts \in Texts \X Texts /\ hashes = <<>>

HashWord ==
  /\ keyed = "words" /\ word \in Hashes
  /\ hashes' = hashes \union {WordHash(word)}
  /\ word' = word + 1
  /\ UNCHANGED <<keyed, texts>>

HashTexts ==
  /\ keyed \in {"texts", "names"} /\ hashes = <<>>
  /\ hashes' = [i \in 1..2 |-> IF keyed = "texts" THEN TextHash(texts[i]) ELSE NameHash(texts[i])]
  /\ UNCHANGED <<keyed, word, texts>>

KeysDone ==
  /\ IF keyed = "words" THEN word \notin Hashes ELSE hashes # <<>>
  /\ UNCHANGED keyVars

KeysNext == HashWord \/ HashTexts \/ KeysDone

-----------------------------------------------------------------------------
KeysTypeOK ==
  /\ word \in 0..2 ^ Width
  /\ IF keyed = "words" THEN hashes \subseteq Hashes
     ELSE texts \in Texts \X Texts /\ hashes \in {<<>>} \union (Hashes \X Hashes)

(* No two numbers of the width of a hash collide. *)
WordsApart == keyed = "words" => Cardinality(hashes) = word

(* Two strings, or names, that differ in one character do not collide.     *)
NeighboursApart ==
  keyed \in {"texts", "names"} /\ hashes # <<>> =>
    LET s == IF keyed = "texts" THEN texts[1] ELSE NameOf(texts[1])
        t == IF keyed = "texts" THEN texts[2] ELSE NameOf(texts[2])
    IN Len(s) = Len(t) /\ Cardinality({i \in DOMAIN s : s[i] # t[i]}) = 1
         => hashes[1] # hashes[2]

(* What a table takes for the same name has the same hash, so that a line  *)
(* finds the command that its first word names.                            *)
EqualNamesAgree ==
  keyed = "names" /\ hashes # <<>> =>
    /\ NamesEqual(texts[1], texts[2]) => hashes[1] = hashes[2]
    /\ NamesEqual(texts[1], texts[2]) <=> NameOf(texts[1]) = NameOf(texts[2])

=============================================================================
