---------------------------- MODULE OutboundQueue ----------------------------
(***************************************************************************)
(* The fair outbound queue of rvpn-transport (congestion.rs): a FIFO per   *)
(* peer, served by deficit round robin, with an optional token bucket per  *)
(* peer.  Producers and the one receiver share the queue under a mutex, so *)
(* an enqueue and one look of the receiver are single actions.  A packet   *)
(* is its size.  Time is a tick; a second is IDLE ticks.                   *)
(*                                                                         *)
(* credit, since and shaped are history: what a peer may still send under  *)
(* an ideal token bucket that is never dropped, the bytes sent to one peer *)
(* since the receiver last looked at another one that is waiting (as long  *)
(* as no rate was limited), and whether a rate ever was.                   *)
(***************************************************************************)
EXTENDS Integers, Sequences, FiniteSets, Functions

CONSTANTS
  Keys,          \* peers, by queue key
  Sizes,         \* datagram sizes
  QUANTUM,       \* DRR_QUANTUM
  CAPACITY,      \* capacity of the whole queue
  PER_PEER,      \* per_peer_capacity
  MAX_TRACKED,   \* MAX_TRACKED_PEERS
  MAX_SIZE,      \* largest UDP payload
  MAX_DEFICIT,   \* usize::MAX
  Rates,         \* transmit rates, per tick; 0 is unlimited
  IDLE           \* ticks after which an empty queue is forgotten

ASSUME QueueAssumption ==
  /\ Sizes \subseteq 1..MAX_SIZE
  /\ QUANTUM \in Nat \ {0} /\ MAX_SIZE \in Nat /\ MAX_DEFICIT \in Nat
  /\ MAX_SIZE <= MAX_DEFICIT
  /\ CAPACITY \in Nat \ {0} /\ PER_PEER \in 1..CAPACITY /\ MAX_TRACKED \in Nat \ {0}
  /\ IDLE \in Nat \ {0}

(* Rates are configured in MiB per second, so a second refills a bucket. *)
ASSUME RatesAssumption == Rates \subseteq Nat /\ \A r \in Rates \ {0} : r * IDLE >= MAX_SIZE

VARIABLES
  peers,      \* key -> PeerQueue
  rotation,   \* keys in the order of service
  queued,     \* packets in all queues
  rate,       \* rate_bytes_per_sec
  permit,     \* the Notify holds a permit
  receiver,   \* "polled": about to look; "waiting", "sleeping": suspended in recv
  credit, since, shaped    \* history

queueVars == <<peers, rotation, queued, rate, permit, receiver, credit, since, shaped>>

Smaller(a, b) == IF a <= b THEN a ELSE b
NoBucket == -1
BucketCapacity(r) == IF r * IDLE >= MAX_SIZE THEN r * IDLE ELSE MAX_SIZE
NewBucket(r) == IF r = 0 THEN NoBucket ELSE BucketCapacity(r)

NewQueue ==
  [packets |-> <<>>, deficit |-> 0, in_round |-> FALSE, tokens |-> NewBucket(rate), age |-> 0]

Only(S) == [k \in S |-> peers[k]]
Backlog(table, k) == IF k \in DOMAIN table THEN Len(table[k].packets) ELSE 0
Waiting(k) == Backlog(peers, k) > 0

-----------------------------------------------------------------------------
(* Mutant of Kept: a queue is forgotten a tick early. *)
KeptShorter == {k \in DOMAIN peers : Waiting(k) \/ peers[k].age < IDLE - 1}

(* The queues an enqueue keeps: those with packets, and those used within the
   last second. *)
Kept == {k \in DOMAIN peers : Waiting(k) \/ peers[k].age < IDLE}

(* Mutant of Backpressure: one packet too many is taken. *)
BackpressureLate(k) ==
  \/ queued > CAPACITY
  \/ k \notin Kept /\ Cardinality(Kept) >= MAX_TRACKED
  \/ k \in Kept /\ Backlog(peers, k) >= PER_PEER

Backpressure(k) ==
  \/ queued >= CAPACITY
  \/ k \notin Kept /\ Cardinality(Kept) >= MAX_TRACKED
  \/ k \in Kept /\ Backlog(peers, k) >= PER_PEER

Accepted(k, size) ==
  LET q == IF k \in Kept THEN peers[k] ELSE NewQueue
  IN  [q EXCEPT !.packets = Append(@, size), !.age = 0]

(* Mutant of TryEnqueue: the receiver is not woken. *)
TryEnqueueQuiet(k, size) ==
  /\ ~Backpressure(k)
  /\ peers' = [j \in Kept \cup {k} |-> IF j = k THEN Accepted(k, size) ELSE peers[j]]
  /\ rotation' = IF Waiting(k) THEN rotation ELSE Append(rotation, k)
  /\ queued' = queued + 1
  /\ UNCHANGED <<permit, rate, receiver, credit, since, shaped>>

(* Mutant of TryEnqueue: every packet brings its key into the rotation. *)
TryEnqueueAgain(k, size) ==
  /\ ~Backpressure(k)
  /\ peers' = [j \in Kept \cup {k} |-> IF j = k THEN Accepted(k, size) ELSE peers[j]]
  /\ rotation' = Append(rotation, k)
  /\ queued' = queued + 1
  /\ permit' = TRUE
  /\ UNCHANGED <<rate, receiver, credit, since, shaped>>

TryEnqueue(k, size) ==
  IF Backpressure(k)
  THEN /\ peers' = Only(Kept)
       /\ UNCHANGED <<rotation, queued, rate, permit, receiver, credit, since, shaped>>
  ELSE /\ peers' = [j \in Kept \cup {k} |-> IF j = k THEN Accepted(k, size) ELSE peers[j]]
       /\ rotation' = IF Waiting(k) THEN rotation ELSE Append(rotation, k)
       /\ queued' = queued + 1
       /\ permit' = TRUE
       /\ UNCHANGED <<rate, receiver, credit, since, shaped>>

-----------------------------------------------------------------------------
(* One look at the queue, with every key of the rotation tracked and waiting, as
   RotationExact shows: the code's escapes for other keys are dead.  A peer visited gets a quantum unless its turn goes
   on; it is passed over when its next packet exceeds its deficit or its
   tokens.  The first peer that is not passed over is served. *)
Next1(k) == Head(peers[k].packets)

Topped(k) ==
  IF peers[k].in_round THEN peers[k].deficit
  ELSE Smaller(peers[k].deficit + QUANTUM, MAX_DEFICIT)

WithinDeficit(k) == Next1(k) <= Topped(k)
WithinTokens(k) == peers[k].tokens = NoBucket \/ Next1(k) <= peers[k].tokens
Servable(k) == WithinDeficit(k) /\ WithinTokens(k)

PassedOver(k) == [peers[k] EXCEPT !.deficit = Topped(k), !.in_round = FALSE]

AfterService(k) ==
  LET q == peers[k]
      rest == Tail(q.packets)
      left == Topped(k) - Next1(k)
      goesOn == rest # <<>> /\ Head(rest) <= left
  IN  [packets |-> rest,
       deficit |-> IF rest = <<>> THEN 0 ELSE left,
       in_round |-> goesOn,
       tokens |-> IF q.tokens = NoBucket THEN NoBucket ELSE q.tokens - Next1(k),
       age |-> 0]

(* Mutant of Requeued: a served peer with packets left stays in front. *)
RequeuedFront(k, others) ==
  IF AfterService(k).packets = <<>> THEN others ELSE <<k>> \o others

(* The served peer goes on while its deficit lasts, else it moves to the back. *)
Requeued(k, others) ==
  CASE AfterService(k).packets = <<>> -> others
    [] AfterService(k).in_round -> <<k>> \o others
    [] OTHER -> others \o <<k>>

(* An unlimited peer without packets is forgotten at once. *)
Forgotten(k) == AfterService(k).packets = <<>> /\ peers[k].tokens = NoBucket

Serve(n) ==
  LET k == rotation[n]
      passed == SubSeq(rotation, 1, n - 1)
      visited == Range(SubSeq(rotation, 1, n))
  IN  /\ peers' = [j \in DOMAIN peers \ (IF Forgotten(k) THEN {k} ELSE {}) |->
                     CASE j = k -> AfterService(k)
                       [] j \in Range(passed) -> PassedOver(j)
                       [] OTHER -> peers[j]]
      /\ rotation' = Requeued(k, SubSeq(rotation, n + 1, Len(rotation)) \o passed)
      /\ queued' = queued - 1
      /\ credit' = IF rate = 0 THEN credit ELSE [credit EXCEPT ![k] = @ - Next1(k)]
      /\ since' = [j \in Keys |-> [i \in Keys |->
                     IF shaped \/ j \in visited \/ ~Waiting(j) THEN 0
                     ELSE since[j][i] + (IF i = k THEN Next1(k) ELSE 0)]]
      /\ UNCHANGED <<rate, permit, receiver, shaped>>

(* Nobody can be served: recv yields if only deficits are missing, sleeps if
   tokens are, and waits for a notification if the queue is empty. *)
LookInVain ==
  /\ peers' = [j \in DOMAIN peers |-> IF Waiting(j) THEN PassedOver(j) ELSE peers[j]]
  /\ receiver' = IF rotation = <<>> THEN "waiting"
                 ELSE IF \E k \in Range(rotation) : WithinDeficit(k) THEN "sleeping" ELSE "polled"
  /\ since' = [j \in Keys |-> [i \in Keys |-> 0]]
  /\ UNCHANGED <<rotation, queued, rate, permit, credit, shaped>>

Recv ==
  /\ receiver = "polled"
  /\ \/ /\ \A k \in Range(rotation) : ~Servable(k)
        /\ LookInVain
     \/ \E n \in 1..Len(rotation) :
          /\ Servable(rotation[n]) /\ \A m \in 1..(n - 1) : ~Servable(rotation[m])
          /\ Serve(n)

Woken ==
  /\ receiver # "polled" /\ permit
  /\ receiver' = "polled" /\ permit' = FALSE
  /\ UNCHANGED <<peers, rotation, queued, rate, credit, since, shaped>>

SleepEnds ==
  /\ receiver = "sleeping"
  /\ receiver' = "polled"
  /\ UNCHANGED <<peers, rotation, queued, rate, permit, credit, since, shaped>>

(* Another branch of the event loop runs: the future of recv is dropped, which
   keeps the permit, and recv is called anew afterwards. *)
Cancelled ==
  /\ receiver # "polled"
  /\ receiver' = "polled"
  /\ UNCHANGED <<peers, rotation, queued, rate, permit, credit, since, shaped>>

-----------------------------------------------------------------------------
Relimit(tokens, r) ==
  CASE r = 0 -> NoBucket
    [] r # 0 /\ tokens # NoBucket -> Smaller(tokens, BucketCapacity(r))
    [] OTHER -> BucketCapacity(r)

SetRate(r) ==
  /\ r # rate
  /\ rate' = r
  /\ peers' = [k \in DOMAIN peers |-> [peers[k] EXCEPT !.tokens = Relimit(@, r)]]
  /\ credit' = [k \in Keys |-> BucketCapacity(r)]
  /\ shaped' = (shaped \/ r # 0)
  /\ since' = [j \in Keys |-> [i \in Keys |-> 0]]
  /\ UNCHANGED <<rotation, queued, permit, receiver>>

(* A tick passes: buckets fill, idle queues age. *)
Tick ==
  /\ peers' = [k \in DOMAIN peers |->
                 [peers[k] EXCEPT !.age = Smaller(@ + 1, IDLE),
                                  !.tokens = IF @ = NoBucket THEN NoBucket
                                             ELSE Smaller(@ + rate, BucketCapacity(rate))]]
  /\ credit' = [k \in Keys |-> Smaller(credit[k] + rate, BucketCapacity(rate))]
  /\ UNCHANGED <<rotation, queued, rate, permit, receiver, since, shaped>>

-----------------------------------------------------------------------------
QueueInit ==
  /\ peers = [k \in {} |-> NewQueue]
  /\ rotation = <<>>
  /\ queued = 0
  /\ rate \in Rates
  /\ permit = FALSE
  /\ receiver = "polled"
  /\ credit = [k \in Keys |-> BucketCapacity(rate)]
  /\ since = [j \in Keys |-> [i \in Keys |-> 0]]
  /\ shaped = (rate # 0)

QueueNext ==
  \/ \E k \in Keys, size \in Sizes : TryEnqueue(k, size)
  \/ Recv
  \/ Woken
  \/ SleepEnds
  \/ Cancelled
  \/ \E r \in Rates : SetRate(r)
  \/ Tick

(* The receiver's task runs, its timer fires and time passes. *)
QueueSpec ==
  /\ QueueInit /\ [][QueueNext]_queueVars
  /\ WF_queueVars(Recv) /\ WF_queueVars(Woken) /\ WF_queueVars(SleepEnds) /\ WF_queueVars(Tick)

-----------------------------------------------------------------------------
(* The rotation lists exactly the peers with packets, each once.  A peer that
   is missing is never served again, one that is listed twice is served
   twice as often, and a key without a queue ends its own turn. *)
RotationExact ==
  /\ Range(rotation) = {k \in DOMAIN peers : Waiting(k)}
  /\ IsInjective(rotation)

(* The packets in the queues of a table, each as its peer and its place. *)
Stored(table) == UNION {{k} \X DOMAIN table[k].packets : k \in DOMAIN table}

(* The count of queued packets is that of the queues, and no queue, not the
   whole and not the number of tracked peers exceeds its capacity, while idle
   queues are forgotten and peers come back. *)
CapacityKept ==
  /\ queued = Cardinality(Stored(peers))
  /\ queued <= CAPACITY
  /\ \A k \in DOMAIN peers :
       /\ Len(peers[k].packets) <= PER_PEER
       /\ peers[k].tokens = NoBucket <=> rate = 0
  /\ Cardinality(DOMAIN peers) <= MAX_TRACKED

(* The three views of what waits agree: rotation, count and queues. *)
QueuesExact == RotationExact /\ CapacityKept

(* "deficit round-robin scheduling, with a 1500-byte quantum": between two
   looks at a waiting peer, no other peer is sent more than a quantum and what
   one unfinished packet may have left over.  Under a rate limit this is not
   so: a peer that waits for tokens collects a quantum at every look. *)
FairShare ==
  ~shaped => \A j, k \in Keys : Waiting(j) => since[j][k] < QUANTUM + MAX_SIZE

(* A peer is never sent more than one bucket plus the rate allows, although its
   bucket is forgotten when idle and starts full again. *)
WithinRate == rate # 0 => \A k \in Keys : credit[k] >= 0

(* A waiting peer is served again and again, whatever is enqueued meanwhile and
   however often recv is suspended, woken or dropped. *)
Drains ==
  \A k \in Keys :
    []<>(~Waiting(k)) \/ []<><<Backlog(peers', k) < Backlog(peers, k)>>_queueVars

-----------------------------------------------------------------------------
(* The inductive invariant. *)
PeerQueue ==
  [packets : Seq(Sizes), deficit : Nat, in_round : BOOLEAN, tokens : Nat \cup {NoBucket},
   age : 0..IDLE]

(* Types, and what the queues know of each other: a queue without packets has
   lost its deficit and its turn. *)
QueueTypeOK ==
  /\ DOMAIN peers \subseteq Keys /\ IsFiniteSet(DOMAIN peers)
  /\ peers \in [DOMAIN peers -> PeerQueue]
  /\ rotation \in Seq(Keys)
  /\ queued \in Nat /\ IsFiniteSet(Stored(peers))
  /\ rate \in Rates
  /\ permit \in BOOLEAN /\ receiver \in {"polled", "waiting", "sleeping"}
  /\ credit \in [Keys -> Int]
  /\ since \in [Keys -> [Keys -> Nat]]
  /\ shaped \in BOOLEAN /\ (rate # 0 => shaped)
  /\ \A k \in DOMAIN peers : ~Waiting(k) => peers[k].deficit = 0 /\ ~peers[k].in_round

(* i comes before j in the rotation s. *)
Precedes(s, i, j) == \E a, b \in 1..Len(s) : a < b /\ s[a] = i /\ s[b] = j

(* What a peer may keep of its quantum: less than a packet between its turns;
   within a turn it is in front, and its next packet is paid for. *)
DeficitKept ==
  \A i \in DOMAIN peers :
    /\ peers[i].deficit < QUANTUM + MAX_SIZE
    /\ Waiting(i) /\ ~peers[i].in_round => peers[i].deficit < MAX_SIZE
    /\ peers[i].in_round => rotation[1] = i /\ Next1(i) <= peers[i].deficit

(* What a peer was sent since the receiver last looked at a waiting one: nothing
   when its turn comes first and has not begun, and a quantum and what it had
   kept when its turn is going on. *)
SentBefore ==
  /\ \A i, j \in Keys : Waiting(j) \/ since[j][i] = 0
  /\ \A i, j \in Keys :
       Precedes(rotation, i, j) =>
         IF peers[i].in_round THEN since[j][i] + peers[i].deficit < QUANTUM + MAX_SIZE
         ELSE since[j][i] = 0

(* The ideal bucket of a peer holds at least what its real one holds, and has
   filled since its queue was last used; that of a forgotten peer is full. *)
CreditKept ==
  \A k \in Keys :
    /\ credit[k] \in 0..BucketCapacity(rate)
    /\ k \notin DOMAIN peers => credit[k] = BucketCapacity(rate)
    /\ k \in DOMAIN peers =>
         /\ peers[k].tokens <= credit[k]
         /\ credit[k] >= Smaller(peers[k].age * rate, BucketCapacity(rate))

QueueInv ==
  /\ QueueTypeOK
  /\ QueuesExact
  /\ FairShare /\ (~shaped => DeficitKept /\ SentBefore)
  /\ rate # 0 => CreditKept
=============================================================================
