------------------------------ MODULE ReplayRing ------------------------------
(***************************************************************************)
(* ReplayWindow of rvpn-protocol (replay.rs) as it runs: check_and_record, *)
(* and the loop of clear_range that zeroes the bits of the numbers a       *)
(* forward move of the window enters.  The loop masks at most one word per *)
(* turn, starting in the middle of a word and wrapping from the last word  *)
(* to the first.                                                           *)
(*                                                                         *)
(* "bits" is the set of slots whose bit is one.  While a call is inside    *)
(* clear_range, "sequence" is its argument and "before" the bitmap it      *)
(* started from; otherwise the locals of the loop have their idle value.   *)
(* "accepted", "doubled" and "verdict" are the history of ReplayWindow.    *)
(***************************************************************************)
EXTENDS ReplayGeometry

VARIABLES highest, bits,                           \* the struct
          sequence, word, bit_offset, remaining,   \* locals of a call
          before, accepted, doubled, verdict       \* history

locals == <<sequence, word, bit_offset, remaining, before>>
ringVars == <<highest, bits, locals, accepted, doubled, verdict>>

Idle == sequence = NoSequence

Least(a, b) == IF a <= b THEN a ELSE b

Answer(s, result) == verdict' = [sequence |-> s, result |-> result]

(* The call returns Ok: set_bit on the bitmap "kept", and the history of it. *)
Accept(s, kept) ==
  /\ bits' = kept \cup {Slot(s)}
  /\ accepted' = accepted \cup {s}
  /\ doubled' = doubled \cup ({s} \cap accepted)
  /\ Answer(s, "Ok")

(* check_and_record on the first packet of a session *)
CheckFirst(s) ==
  /\ Idle
  /\ highest = NoSequence
  /\ highest' = s
  /\ Accept(s, bits)
  /\ UNCHANGED locals

(* Mutant of CheckFar: the whole ring is passed and no bit is reset. *)
CheckFarKeepsBits(s) ==
  /\ Idle
  /\ highest # NoSequence
  /\ s - highest >= WINDOW
  /\ highest' = s
  /\ Accept(s, bits)
  /\ UNCHANGED locals

(* check_and_record, a jump of at least the whole ring *)
CheckFar(s) ==
  /\ Idle
  /\ highest # NoSequence
  /\ s - highest >= WINDOW
  /\ highest' = s
  /\ Accept(s, {})
  /\ UNCHANGED locals

(* Mutant of EnterClear: the range starts at highest itself. *)
EnterClearAtHighest(s) ==
  /\ Idle
  /\ highest # NoSequence
  /\ s > highest /\ s - highest < WINDOW
  /\ LET start == highest % WINDOW
     IN  word' = start \div BITS /\ bit_offset' = start % BITS
  /\ remaining' = s - highest
  /\ sequence' = s
  /\ before' = bits
  /\ UNCHANGED <<highest, bits, accepted, doubled, verdict>>

(* check_and_record, a jump inside the ring: the entry of clear_range *)
EnterClear(s) ==
  /\ Idle
  /\ highest # NoSequence
  /\ s > highest /\ s - highest < WINDOW
  /\ LET start == (highest + 1) % WINDOW
     IN  word' = start \div BITS /\ bit_offset' = start % BITS
  /\ remaining' = s - highest
  /\ sequence' = s
  /\ before' = bits
  /\ UNCHANGED <<highest, bits, accepted, doubled, verdict>>

bits_here == Least(remaining, BITS - bit_offset)

(* The bits of the mask of one turn, as slots. *)
MaskSlots == {word * BITS + b : b \in bit_offset..(bit_offset + bits_here - 1)}

(* One turn of the loop of clear_range *)
ClearWord ==
  /\ remaining > 0
  /\ bits' = bits \ MaskSlots
  /\ remaining' = remaining - bits_here
  /\ word' = (word + 1) % WORDS
  /\ bit_offset' = 0
  /\ UNCHANGED <<highest, sequence, before, accepted, doubled, verdict>>

(* clear_range has returned: the rest of check_and_record *)
FinishAhead ==
  /\ ~Idle
  /\ remaining = 0
  /\ highest' = sequence
  /\ Accept(sequence, bits)
  /\ sequence' = NoSequence /\ before' = {}
  /\ word' = 0 /\ bit_offset' = 0
  /\ UNCHANGED remaining

(* Mutant of CheckBehind: the window reaches one number too far back. *)
CheckBehindTooFar(s) ==
  /\ Idle
  /\ highest # NoSequence
  /\ s <= highest
  /\ IF highest - s > WINDOW
       THEN Answer(s, "TooOld") /\ UNCHANGED <<bits, accepted, doubled>>
       ELSE IF Slot(s) \in bits
              THEN Answer(s, "Duplicate") /\ UNCHANGED <<bits, accepted, doubled>>
              ELSE Accept(s, bits)
  /\ UNCHANGED <<highest, locals>>

(* check_and_record, branch sequence <= highest *)
CheckBehind(s) ==
  /\ Idle
  /\ highest # NoSequence
  /\ s <= highest
  /\ IF highest - s >= WINDOW
       THEN Answer(s, "TooOld") /\ UNCHANGED <<bits, accepted, doubled>>
       ELSE IF Slot(s) \in bits
              THEN Answer(s, "Duplicate") /\ UNCHANGED <<bits, accepted, doubled>>
              ELSE Accept(s, bits)
  /\ UNCHANGED <<highest, locals>>

RingInit ==
  /\ highest = NoSequence /\ bits = {}
  /\ sequence = NoSequence /\ before = {}
  /\ word = 0 /\ bit_offset = 0 /\ remaining = 0
  /\ accepted = {} /\ doubled = {}
  /\ verdict = [sequence |-> NoSequence, result |-> "None"]

RingNext ==
  \/ \E s \in SeqNumbers : CheckFirst(s) \/ CheckFar(s) \/ EnterClear(s) \/ CheckBehind(s)
  \/ ClearWord
  \/ FinishAhead

RingSpec == RingInit /\ [][RingNext]_ringVars

-----------------------------------------------------------------------------
shift == sequence - highest
cleared == shift - remaining

(* Type invariant: the loop never indexes a word or a bit out of range. *)
RingTypeOK ==
  /\ highest \in SeqNumbers \cup {NoSequence}
  /\ sequence \in SeqNumbers \cup {NoSequence}
  /\ bits \in SUBSET Slots /\ before \in SUBSET Slots
  /\ word \in 0..(WORDS - 1)
  /\ bit_offset \in 0..(BITS - 1)
  /\ remaining \in Nat

(* The locals: idle, or those of a call that is moving the window. *)
LoopTyped ==
  IF Idle THEN remaining = 0
  ELSE highest # NoSequence /\ shift \in 1..(WINDOW - 1) /\ remaining \in 0..shift

(* While bits remain, the cursor stands on the slot of the next number. *)
CursorExact ==
  remaining > 0 => word * BITS + bit_offset = (highest + 1 + cleared) % WINDOW

(* At every turn the loop has cleared the slots of the numbers behind the
   cursor, and no bit of a number that stays in the window. *)
ClearedSoFar == ~Idle => bits = before \ RangeSlots(highest, cleared)

(* The inductive invariant of the proofs. *)
RingInv == RingTypeOK /\ LoopTyped /\ CursorExact /\ ClearedSoFar

(* What check_and_record relies on when clear_range returns: exactly the slots
   of highest + 1 .. highest + shift are zero, the others as they were. *)
ClearsExactly ==
  ~Idle /\ remaining = 0 => bits = before \ RangeSlots(highest, shift)

(* The bitmap as a caller sees it: a call in progress has not happened yet. *)
Bitmap == IF Idle THEN bits ELSE before

Window == INSTANCE ReplayWindow WITH
            highest <- highest, seen <- Bitmap, accepted <- accepted,
            doubled <- doubled, verdict <- verdict

(* The word-by-word window implements the one whose calls are single steps:
   the turns of clear_range are invisible and its return is the call. *)
ImplementsWindow == Window!Spec

(* Hence it implements the promise: the same answers, and the same set of
   accepted numbers, as the specification that remembers every number. *)
ImplementsPromise == Window!ImplementsPromise
=============================================================================
