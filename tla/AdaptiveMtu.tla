------------------------------ MODULE AdaptiveMtu ------------------------------
(***************************************************************************)
(* The runtime path MTU of a UDP transport (mtu.rs of rvpn-transport): one *)
(* record per transport and the three operations that feed it.             *)
(*                                                                         *)
(* Instants are ages in ticks, capped at the interval they are compared    *)
(* with, and the two counters are capped at the largest threshold they are *)
(* compared with: no comparison of the code tells larger values apart.     *)
(* The code's thresholds and intervals are constants; the ratios of a step *)
(* (nine tenths down, an eighth of the gap up) are the code's.             *)
(***************************************************************************)
EXTENDS Integers

CONSTANTS
  TARGET_MTU, MINIMUM_MTU,
  FAILURE_THRESHOLD, SUCCESS_THRESHOLD, PROBE_SUCCESS_THRESHOLD,
  MIN_CHANGE_INTERVAL, PROBE_EVALUATION_WINDOW

ASSUME MtuAssumption ==
  /\ {TARGET_MTU, MINIMUM_MTU, FAILURE_THRESHOLD, SUCCESS_THRESHOLD,
      PROBE_SUCCESS_THRESHOLD, MIN_CHANGE_INTERVAL,
      PROBE_EVALUATION_WINDOW} \subseteq Nat \ {0}
  /\ MINIMUM_MTU <= TARGET_MTU

AtLeast(a, b) == IF a < b THEN b ELSE a
AtMost(a, b) == IF a > b THEN b ELSE a

MAX_SUCCESSES == AtLeast(SUCCESS_THRESHOLD, PROBE_SUCCESS_THRESHOLD)

NoProbe == 0

MtuState ==
  [effective : MINIMUM_MTU..TARGET_MTU,
   failures  : 0..FAILURE_THRESHOLD,
   successes : 0..MAX_SUCCESSES,
   since     : 0..MIN_CHANGE_INTERVAL,      \* age of last_change
   probe     : {NoProbe} \cup (MINIMUM_MTU..TARGET_MTU),
   age       : 0..PROBE_EVALUATION_WINDOW]  \* age of probe_started

NewMtu ==
  [effective |-> TARGET_MTU, failures |-> 0, successes |-> 0, since |-> 0,
   probe |-> NoProbe, age |-> 0]

(* A tick of the clock. *)
OlderChange(m) == AtMost(m.since + 1, MIN_CHANGE_INTERVAL)
OlderProbe(m) ==
  IF m.probe = NoProbe THEN 0 ELSE AtMost(m.age + 1, PROBE_EVALUATION_WINDOW)
Older(m) == [m EXCEPT !.since = OlderChange(m), !.age = OlderProbe(m)]

(* Mutant of SteppedDown: nine tenths, rounded up. *)
SteppedDownRoundingUp(m) == AtLeast((m.effective * 9 + 9) \div 10, MINIMUM_MTU)

(* The MTU after a step down, and the size a probe tries. *)
SteppedDown(m) == AtLeast((m.effective * 9) \div 10, MINIMUM_MTU)

SteppedUp(m) ==
  AtMost(m.effective + AtLeast((TARGET_MTU - m.effective) \div 8, 1), TARGET_MTU)

(* The age of last_change is checked before the operation that resets it. *)
Settled(m) == m.since >= MIN_CHANGE_INTERVAL

(* Mutant of record_success: the MTU is raised at once, without the interval
   since the last change and without a trial. *)
record_success_hasty(m) ==
  LET n == AtMost(m.successes + 1, MAX_SUCCESSES)
      counted == [m EXCEPT !.failures = 0, !.successes = n]
  IN IF n >= SUCCESS_THRESHOLD /\ m.effective < TARGET_MTU
     THEN [counted EXCEPT !.effective = SteppedUp(m), !.successes = 0, !.since = 0]
     ELSE counted

(* A datagram went out.  While a larger size is on trial every datagram counts
   in its favour, whatever its own size: none of the trial size is sent. *)
record_success(m) ==
  LET n == AtMost(m.successes + 1, MAX_SUCCESSES)
      counted == [m EXCEPT !.failures = 0, !.successes = n]
  IN IF m.probe # NoProbe
     THEN IF n >= PROBE_SUCCESS_THRESHOLD /\ m.age >= PROBE_EVALUATION_WINDOW
          THEN [counted EXCEPT !.effective = m.probe, !.probe = NoProbe,
                               !.age = 0, !.successes = 0, !.since = 0]
          ELSE counted
     ELSE IF n >= SUCCESS_THRESHOLD /\ Settled(m) /\ m.effective < TARGET_MTU
          THEN [counted EXCEPT !.probe = SteppedUp(m), !.age = 0,
                               !.successes = 0]
          ELSE counted

record_path_failure(m) ==
  LET n == AtMost(m.failures + 1, FAILURE_THRESHOLD)
      reset == [m EXCEPT !.successes = 0, !.failures = 0, !.since = 0]
  IN IF m.probe # NoProbe
     THEN [reset EXCEPT !.probe = NoProbe, !.age = 0]
     ELSE IF n >= FAILURE_THRESHOLD /\ Settled(m)
          THEN [reset EXCEPT !.effective = SteppedDown(m)]
          ELSE [m EXCEPT !.successes = 0, !.failures = n]

(* A datagram of size "attempted" was too large, for the path or for the
   effective MTU itself: drop_if_oversized reports its own drops here too. *)
record_oversized(m, attempted) ==
  LET quiet == [m EXCEPT !.failures = 0, !.successes = 0, !.probe = NoProbe,
                         !.age = 0]
      ceiling == AtLeast(attempted - 1, MINIMUM_MTU)
  IN IF Settled(m)
     THEN [quiet EXCEPT !.effective = AtMost(AtLeast(AtMost(SteppedDown(m), ceiling),
                                                     MINIMUM_MTU), m.effective),
                        !.since = 0]
     ELSE quiet

===============================================================================
