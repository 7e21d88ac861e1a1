--------------------------- MODULE ReplayGeometry ---------------------------
(***************************************************************************)
(* The shape of the replay bitmap of rvpn-protocol (replay.rs): WORDS      *)
(* words of BITS bits make a ring of WINDOW slots, and slot s % WINDOW,    *)
(* bit s % BITS of its word, stands for sequence number s.                 *)
(***************************************************************************)
EXTENDS Integers

CONSTANTS WORDS,     \* words of the bitmap: 32 in the code
          BITS,      \* bits of a word: 64 in the code
          MAX_SEQ    \* bound: largest sequence number a packet carries

ASSUME WordsAssumption == WORDS \in Nat \ {0}
ASSUME BitsAssumption == BITS \in Nat \ {0}
ASSUME MaxSeqAssumption == MAX_SEQ \in Nat

WINDOW == WORDS * BITS
NoSequence == -1
SeqNumbers == 0..MAX_SEQ
Slots == 0..(WINDOW - 1)

(* The slot of the bit that set_bit and test_bit address. *)
Slot(s) == s % WINDOW

(* The slots of the shift numbers above h, which clear_range zeroes. *)
RangeSlots(h, shift) == {Slot(h + i) : i \in 1..shift}
=============================================================================
