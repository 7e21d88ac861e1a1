----------------------------- MODULE ReplayWindow -----------------------------
(***************************************************************************)
(* The sliding replay window of rvpn-protocol (replay.rs), one call of     *)
(* check_and_record being one step: the highest accepted sequence number   *)
(* and the ring of bits.  A bit is reused every WINDOW numbers, so moving  *)
(* the window forward must clear exactly the bits it enters.  ReplayRing   *)
(* is the same window with the loop that does the clearing, and implements *)
(* this specification; this one implements ReplayPromise.                  *)
(*                                                                         *)
(* The ring is the set "seen" of the slots whose bit is one.  "accepted",  *)
(* "doubled" and "verdict" are history: the numbers accepted so far, those *)
(* accepted more than once, and the answer of the last call.               *)
(***************************************************************************)
EXTENDS ReplayGeometry

VARIABLES highest, seen, accepted, doubled, verdict

vars == <<highest, seen, accepted, doubled, verdict>>

Answer(s, result) == verdict' = [sequence |-> s, result |-> result]

Record(s, kept) ==
  /\ seen' = kept \cup {Slot(s)}
  /\ accepted' = accepted \cup {s}
  /\ doubled' = doubled \cup ({s} \cap accepted)
  /\ Answer(s, "Ok")

(* check_and_record on the first packet of a session *)
CheckFirst(s) ==
  /\ highest = NoSequence
  /\ highest' = s
  /\ Record(s, seen)

(* check_and_record, branch sequence > highest *)
CheckAhead(s) ==
  /\ highest # NoSequence
  /\ s > highest
  /\ highest' = s
  /\ LET shift == s - highest
     IN  Record(s, IF shift >= WINDOW THEN {} ELSE seen \ RangeSlots(highest, shift))

(* check_and_record, branch sequence <= highest *)
CheckBehind(s) ==
  /\ highest # NoSequence
  /\ s <= highest
  /\ UNCHANGED highest
  /\ IF highest - s >= WINDOW
       THEN Answer(s, "TooOld") /\ UNCHANGED <<seen, accepted, doubled>>
       ELSE IF Slot(s) \in seen
              THEN Answer(s, "Duplicate") /\ UNCHANGED <<seen, accepted, doubled>>
              ELSE Record(s, seen)

CheckAndRecord(s) == CheckFirst(s) \/ CheckAhead(s) \/ CheckBehind(s)

Init ==
  /\ highest = NoSequence
  /\ seen = {}
  /\ accepted = {}
  /\ doubled = {}
  /\ verdict = [sequence |-> NoSequence, result |-> "None"]

Next == \E s \in SeqNumbers : CheckAndRecord(s)

Spec == Init /\ [][Next]_vars

-----------------------------------------------------------------------------
(* Type invariant of the window. *)
TypeOK ==
  /\ highest \in SeqNumbers \cup {NoSequence}
  /\ seen \subseteq Slots
  /\ accepted \subseteq SeqNumbers
  /\ doubled \subseteq SeqNumbers
  /\ verdict \in [sequence : SeqNumbers \cup {NoSequence},
                  result : {"None", "Ok", "Duplicate", "TooOld"}]

InWindow(s) == s <= highest /\ highest - s < WINDOW

(* The ring never goes stale: a slot is set exactly when the one number in
   the window that maps to it was accepted, whatever jumps and wraps
   check_and_record and clear_range went through. *)
WindowExact ==
  \A s \in SeqNumbers : InWindow(s) => (Slot(s) \in seen <=> s \in accepted)

(* "highest" is the largest number accepted: no accepted packet lies ahead of
   the window. *)
HighestExact ==
  IF highest = NoSequence THEN accepted = {} /\ seen = {}
  ELSE highest \in accepted /\ \A s \in accepted : s <= highest

(* check_and_record never says Ok twice to the same number, even when the
   ring has wrapped any number of times between the two calls. *)
NoDoubleAccept == doubled = {}

(* The inductive invariant of the proofs. *)
WindowInv == TypeOK /\ WindowExact /\ HighestExact /\ NoDoubleAccept

Promise == INSTANCE ReplayPromise WITH
             highest <- highest, accepted <- accepted, verdict <- verdict

(* The bitmap implements the promise: the same answers, and the same set of
   accepted numbers, as the specification that remembers every number. *)
ImplementsPromise == Promise!Spec
=============================================================================
