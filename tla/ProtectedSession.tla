--------------------------- MODULE ProtectedSession ---------------------------
(***************************************************************************)
(* The protected sessions of a client and a server that share a session    *)
(* id, from one rekey to the next (rvpn-protocol session.rs and its uses   *)
(* in rvpn-client and rvpn-server).  Each side numbers the packets it      *)
(* seals, opens what arrives under its current key phase, and the server   *)
(* keeps the previous phase for a grace period after a rekey.              *)
(*                                                                         *)
(* The two sides change phase at different moments.  The server installs   *)
(* the next phase when the Finish arrives and acknowledges with a          *)
(* keepalive under the new keys; the client installs it when it opens such *)
(* a keepalive.                                                            *)
(*                                                                         *)
(* The network may lose, duplicate, delay and reorder packets: every       *)
(* packet ever sealed may be presented at any time, any number of times,   *)
(* and so may forged ones.  A replay window is represented by the set of   *)
(* numbers it accepted, which module ReplayWindow proves to be exact.      *)
(***************************************************************************)
EXTENDS Integers

CONSTANTS
  WINDOW_SIZE,      \* replay window size
  SEQ_LIMIT,   \* the send counter at which seal refuses: u64::MAX in the code
  MAX_PHASE,   \* bound: key phases
  GRACE        \* rekey.grace_period_secs is not zero

ASSUME SessionAssumption ==
  /\ WINDOW_SIZE \in Nat \ {0}
  /\ SEQ_LIMIT \in Nat
  /\ MAX_PHASE \in Nat
  /\ GRACE \in BOOLEAN

Sides == {"client", "server"}
Other(x) == IF x = "client" THEN "server" ELSE "client"
Phases == 0..MAX_PHASE
Numbers == 0..(SEQ_LIMIT - 1)

VARIABLES
  phase,      \* side -> key_phase of its session
  next_seq,   \* side -> next_send_sequence
  seen,       \* side -> numbers its receive_replay accepted
  prev,       \* side -> PreviousPhase: its numbers accepted so far, and whether
              \*         it exists and has not expired
  grace,      \* side -> the grace period after its last rekey is running
  sealed,     \* history: <<side, phase, number>> of every packet sealed
  opened,     \* history: those opened by the other side
  reused,     \* history: a nonce was used twice
  redelivered,    \* history: packets opened twice
  refused     \* history: fresh packets of the phase just left, refused in the grace period

sessionVars == <<phase, next_seq, seen, prev, grace, sealed, opened, reused, redelivered, refused>>

NoPrevious == [live |-> FALSE, seen |-> {}]

(* ReplayWindow: a number WINDOW_SIZE or more behind the highest is too old. *)
TooOld(numbers, n) == \E m \in numbers : n + WINDOW_SIZE <= m
Fresh(numbers, n) == n \notin numbers /\ ~TooOld(numbers, n)

-----------------------------------------------------------------------------
(* Mutant of Seal: the counter wraps instead of refusing. *)
SealWraps(x) ==
  LET packet == <<x, phase[x], next_seq[x]>>
  IN  /\ sealed' = sealed \cup {packet}
      /\ reused' = (reused \/ packet \in sealed)
      /\ next_seq' = [next_seq EXCEPT ![x] = (@ + 1) % SEQ_LIMIT]
      /\ UNCHANGED <<phase, seen, prev, grace, opened, redelivered, refused>>

(* seal: refused at the last counter, at which the next number would wrap. *)
Seal(x) ==
  LET packet == <<x, phase[x], next_seq[x]>>
  IN  /\ next_seq[x] < SEQ_LIMIT
      /\ sealed' = sealed \cup {packet}
      /\ reused' = (reused \/ packet \in sealed)
      /\ next_seq' = [next_seq EXCEPT ![x] = @ + 1]
      /\ UNCHANGED <<phase, seen, prev, grace, opened, redelivered, refused>>

Delivered(packet) ==
  /\ opened' = opened \cup {packet}
  /\ redelivered' = redelivered \cup ({packet} \cap opened)

Genuine(x, p, n) == <<Other(x), p, n>> \in sealed

(* open under the current phase: decrypt first, then the replay window. *)
OpenCurrent(x, n) ==
  /\ Genuine(x, phase[x], n)
  /\ Fresh(seen[x], n)
  /\ seen' = [seen EXCEPT ![x] = @ \cup {n}]
  /\ Delivered(<<Other(x), phase[x], n>>)
  /\ UNCHANGED <<phase, next_seq, prev, grace, sealed, reused, refused>>

(* open under the previous phase, while it is kept. *)
OpenPrevious(x, n) ==
  /\ prev[x].live
  /\ Genuine(x, phase[x] - 1, n)
  /\ Fresh(prev[x].seen, n)
  /\ prev' = [prev EXCEPT ![x].seen = @ \cup {n}]
  /\ Delivered(<<Other(x), phase[x] - 1, n>>)
  /\ UNCHANGED <<phase, next_seq, seen, grace, sealed, reused, refused>>

(* open refuses a genuine packet of the phase just left: no previous phase is
   kept, or the one kept has expired. *)
RefusePrevious(x, n) ==
  LET packet == <<Other(x), phase[x] - 1, n>>
  IN  /\ Genuine(x, phase[x] - 1, n)
      /\ ~prev[x].live
      /\ refused' = IF grace[x] /\ packet \notin opened
                    THEN refused \cup {packet} ELSE refused
      /\ UNCHANGED <<phase, next_seq, seen, prev, grace, sealed, opened, reused, redelivered>>

(* Mutant of OpenForged: the window records the number before the packet is
   authenticated. *)
OpenForgedRecorded(x, n) ==
  /\ ~Genuine(x, phase[x], n)
  /\ seen' = [seen EXCEPT ![x] = @ \cup {n}]
  /\ UNCHANGED <<phase, next_seq, prev, grace, sealed, opened, reused, redelivered, refused>>

(* A packet that was not sealed by the other side fails authentication before
   the replay window is consulted, so it leaves the session as it was. *)
OpenForged(x, n) ==
  /\ ~Genuine(x, phase[x], n)
  /\ UNCHANGED sessionVars

(* A genuine packet that was opened before, or is too old, is refused. *)
RefuseReplay(x, n) ==
  /\ Genuine(x, phase[x], n)
  /\ ~Fresh(seen[x], n)
  /\ UNCHANGED sessionVars

-----------------------------------------------------------------------------
(* Mutants of InheritPrevious: the previous phase gets an empty window; it is
   not kept. *)
InheritEmptyWindow(x) == IF GRACE THEN [live |-> TRUE, seen |-> {}] ELSE NoPrevious
InheritNothing(x) == NoPrevious

(* finish_pending on the server: a new session object for the next phase, which
   inherits the old one as its previous phase.  The client asked for it, and
   starts no other rekey of the session before it has seen the acknowledgment. *)
InheritPrevious(x) ==
  IF GRACE THEN [live |-> TRUE, seen |-> seen[x]] ELSE NoPrevious

ServerRekey ==
  /\ phase["server"] = phase["client"]
  /\ phase["server"] < MAX_PHASE
  /\ phase' = [phase EXCEPT !["server"] = @ + 1]
  /\ next_seq' = [next_seq EXCEPT !["server"] = 0]
  /\ seen' = [seen EXCEPT !["server"] = {}]
  /\ prev' = [prev EXCEPT !["server"] = InheritPrevious("server")]
  /\ grace' = [grace EXCEPT !["server"] = GRACE]
  /\ UNCHANGED <<sealed, opened, reused, redelivered, refused>>

(* establish on the client returns the new session once it opened a keepalive
   under the new keys; the client's copy of the old session is dropped. *)
ClientRekey(n) ==
  /\ phase["client"] + 1 = phase["server"]
  /\ Genuine("client", phase["client"] + 1, n)
  /\ phase' = [phase EXCEPT !["client"] = @ + 1]
  /\ next_seq' = [next_seq EXCEPT !["client"] = 0]
  /\ seen' = [seen EXCEPT !["client"] = {n}]
  /\ grace' = [grace EXCEPT !["client"] = GRACE]
  /\ Delivered(<<"server", phase["client"] + 1, n>>)
  /\ UNCHANGED <<prev, sealed, reused, refused>>

(* The grace period ends: expires_at has passed. *)
GraceExpires(x) ==
  /\ grace[x]
  /\ grace' = [grace EXCEPT ![x] = FALSE]
  /\ prev' = [prev EXCEPT ![x].live = FALSE]
  /\ UNCHANGED <<phase, next_seq, seen, sealed, opened, reused, redelivered, refused>>

SessionInit ==
  /\ phase = [x \in Sides |-> 0]
  /\ next_seq = [x \in Sides |-> 0]
  /\ seen = [x \in Sides |-> {}]
  /\ prev = [x \in Sides |-> NoPrevious]
  /\ grace = [x \in Sides |-> FALSE]
  /\ sealed = {} /\ opened = {}
  /\ reused = FALSE
  /\ redelivered = {} /\ refused = {}

SessionNext ==
  \/ \E x \in Sides :
       \/ Seal(x)
       \/ \E n \in Numbers : \/ OpenCurrent(x, n) \/ OpenPrevious(x, n)
                             \/ RefusePrevious(x, n) \/ OpenForged(x, n)
                             \/ RefuseReplay(x, n)
       \/ GraceExpires(x)
  \/ ServerRekey
  \/ \E n \in Numbers : ClientRekey(n)

SessionSpec == SessionInit /\ [][SessionNext]_sessionVars

-----------------------------------------------------------------------------
Packets == Sides \X Phases \X Numbers

(* Type invariant of the two sessions. *)
SessionTypeOK ==
  /\ phase \in [Sides -> Phases]
  /\ next_seq \in [Sides -> 0..SEQ_LIMIT]
  /\ seen \in [Sides -> SUBSET Numbers]
  /\ prev \in [Sides -> [live : BOOLEAN, seen : SUBSET Numbers]]
  /\ grace \in [Sides -> BOOLEAN]
  /\ sealed \in SUBSET Packets /\ opened \in SUBSET Packets
  /\ reused \in BOOLEAN
  /\ redelivered \in SUBSET Packets /\ refused \in SUBSET Packets

(* No packet is delivered twice, whatever the order of rekeys, deliveries in
   both phases and expiries: the previous phase keeps its own replay window,
   and the keepalive that completed a client's rekey counts as received. *)
DeliveredOnce == redelivered = {}

(* A nonce, the key phase and sequence number of a side, is never used twice:
   seal restarts at zero only under a new phase, and refuses to wrap. *)
NonceUnique == ~reused

(* Every number a window holds was really sealed by the other side, so a forged
   header can neither use up a number nor move the window ahead. *)
WindowsGenuine ==
  \A x \in Sides :
    /\ \A n \in seen[x] : Genuine(x, phase[x], n)
    /\ \A n \in prev[x].seen : Genuine(x, phase[x] - 1, n)

(* Within the grace period after its rekey the server turns no fresh packet of
   the phase just left away for its phase. *)
ServerGraceHonoured == \A packet \in refused : packet[1] = "server"

(* The parts of the inductive invariant of the proofs.  The server is at most
   one phase ahead; what a side has sealed lies behind its send counter; the
   windows say exactly what was opened, and nothing was opened ahead of them;
   only the server keeps a previous phase, and keeps it while the grace period
   runs. *)
PhaseOrder == phase["server"] - phase["client"] \in {0, 1}

SealedBehind ==
  \A x \in Sides, p \in Phases, n \in Numbers :
    <<x, p, n>> \in sealed => (p < phase[x] \/ (p = phase[x] /\ n < next_seq[x]))

OpenedExact ==
  \A x \in Sides, n \in Numbers :
    /\ <<Other(x), phase[x], n>> \in opened <=> n \in seen[x]
    /\ prev[x].live => (<<Other(x), phase[x] - 1, n>> \in opened <=> n \in prev[x].seen)
    /\ \A p \in Phases : <<Other(x), p, n>> \in opened => p <= phase[x]

PreviousKept ==
  /\ ~prev["client"].live /\ prev["client"].seen = {}
  /\ grace["server"] => prev["server"].live

SessionInv ==
  /\ SessionTypeOK /\ PhaseOrder /\ SealedBehind /\ OpenedExact /\ PreviousKept
  /\ DeliveredOnce /\ NonceUnique /\ WindowsGenuine /\ ServerGraceHonoured

(* "seconds the previous key phase stays valid after a rekey": the same for
   both sides of the session. *)
GraceHonoured == refused = {}
=============================================================================
