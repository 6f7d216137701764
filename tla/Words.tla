-------------------------------- MODULE Words --------------------------------
(***************************************************************************)
(* What the words of text read as: configuration files and login lines     *)
(* are sequences of words, and constants say what the code sees in one.    *)
(***************************************************************************)
EXTENDS Integers, Sequences, SequencesExt

CONSTANTS
  Lowered,      \* word -> its lower-case form, of words that have another
  Numeral,      \* word -> the number it spells, of words that spell one
  Bytes         \* word -> its bytes, of words that are taken for callsigns

ASSUME WordsConstants ==
  /\ \A w \in DOMAIN Numeral : Numeral[w] \in Int
  /\ \A w \in DOMAIN Bytes : Bytes[w] \in Seq(0 .. 255)

Lower(word) == IF word \in DOMAIN Lowered THEN Lowered[word] ELSE word

(* parse::<T>: the number, or nothing.                                     *)
NumberOf(word, range) ==
  {n \in {Numeral[w] : w \in {word} \cap DOMAIN Numeral} : n \in range}
=============================================================================
