---------------------------- MODULE ReplayPromise ----------------------------
(***************************************************************************)
(* What the replay protection of rvpn-protocol promises, said without its  *)
(* bitmap: a sequence number is accepted at most once, one that is fresh   *)
(* and less than WINDOW behind the highest accepted is never turned away,  *)
(* and the two refusals mean what their names say.                         *)
(***************************************************************************)
EXTENDS Integers

CONSTANTS WINDOW, MAX_SEQ

VARIABLES highest, accepted, verdict

NoSequence == -1

TooOld(s) == highest # NoSequence /\ s + WINDOW <= highest

Check(s) ==
  LET result == IF TooOld(s) THEN "TooOld"
                ELSE IF s \in accepted THEN "Duplicate" ELSE "Ok"
  IN  /\ verdict'  = [sequence |-> s, result |-> result]
      /\ accepted' = IF result = "Ok" THEN accepted \cup {s} ELSE accepted
      /\ highest'  = IF result = "Ok" /\ s > highest THEN s ELSE highest

Init == /\ highest = NoSequence
        /\ accepted = {}
        /\ verdict = [sequence |-> NoSequence, result |-> "None"]

Next == \E s \in 0..MAX_SEQ : Check(s)

Spec == Init /\ [][Next]_<<highest, accepted, verdict>>
=============================================================================
