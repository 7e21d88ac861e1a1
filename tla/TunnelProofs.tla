----------------------------- MODULE TunnelProofs -----------------------------
(***************************************************************************)
(* Proofs about the tunnel that a client and a server share over an        *)
(* unreliable network, for every set of peers and endpoints, every         *)
(* configuration and every bound.  The server's tables keep SessionsInv    *)
(* as ServerSessionsProofs shows.                                          *)
(***************************************************************************)
EXTENDS Tunnel, ServerSessionsProofs

(* What a step of the server's tables leaves as it was: no attempt number in
   use changes its meaning, and no keys are uninstalled. *)
Continues ==
  /\ next \in Nat /\ next' \in Nat /\ next <= next'
  /\ installed \subseteq installed'
  /\ \A b \in Bound' : b \in Bound \/ b[3] >= next

(* The tables as the tunnel needs them: numbers, and keys below the counter. *)
LEMMA TableFacts ==
  ASSUME SessionsInv
  PROVE  /\ next \in Nat /\ next >= 1
         /\ \A s \in DOMAIN pending :
              /\ pending[s] \in PendingEntry /\ s \in Nat /\ pending[s].attempt \in Nat
              /\ pending[s].phase \in Nat /\ pending[s].kind \in Kinds
         /\ \A s \in DOMAIN active : active[s] \in ActivePeer /\ s \in Nat
         /\ \A b \in installed : b = <<b[1], b[2], b[3]>> /\ b[1] \in Nat /\ b[2] \in Nat /\ b[3] \in Nat
  BY BoundsAssumption
     DEF SessionsInv, TypeOK, PendingEntry, Attempts

(* A number below the counter stays below it. *)
LEMMA CounterKept ==
  ASSUME Continues, NEW a \in 1..(next - 1)
  PROVE  a \in 1..(next' - 1)
<1>1. next \in Nat /\ next' \in Nat /\ next <= next' BY Zenon DEF Continues
<1>2. 1..(next - 1) \subseteq 1..(next' - 1) BY Zenon, <1>1, IntervalGrows
<1> QED BY Zenon, <1>2

(* An attempt keeps the meaning it has. *)
LEMMA MeaningKept ==
  ASSUME Continues, NEW a, NEW id, NEW phase, IsFor(a, id, phase)
  PROVE  IsFor(a, id, phase)'
<1>0. a \in 1..(next - 1) BY Zenon DEF IsFor
<1>1. a \in 1..(next' - 1) BY Zenon, <1>0, CounterKept
<1>2. ASSUME NEW b \in Bound', b[3] = a PROVE b \in Bound
  <2>1. next \in Nat /\ (b \in Bound \/ b[3] >= next) BY Zenon DEF Continues
  <2> QED BY <1>0, <1>2, <2>1
<1> QED BY Zenon, <1>1, <1>2 DEF IsFor

(* So does an answer, while the client stays where it is. *)
LEMMA AnswerKept ==
  ASSUME Continues, UNCHANGED <<stage, init, mine>>,
         NEW id, NEW k, NEW a, NEW n, AnswerOK(id, k, a, n)
  PROVE  AnswerOK(id, k, a, n)'
<1>0. a \in 1..(next - 1) BY Zenon DEF AnswerOK
<1>1. a \in 1..(next' - 1) BY Zenon, <1>0, CounterKept
<1>2. \A ph : IsFor(a, id, ph) => IsFor(a, id, ph)' BY Zenon, MeaningKept
<1> QED BY Zenon, <1>1, <1>2 DEF AnswerOK

(* The invariant of the answers, read on the next state. *)
LEMMA AnswersNext ==
  ASSUME \A s \in DOMAIN pending' : \A k, a, n :
           k = pending'[s].kind /\ a = pending'[s].attempt /\ n = answered'[a]
             => a \in DOMAIN answered' /\ AnswerOK(s, k, a, n)'
  PROVE  AnswersOK'
  BY Zenon DEF AnswersOK, AnswerOK, IsFor

(* The datagrams in flight are what they were, plus "replies". *)
LEMMA ReceiveWire ==
  ASSUME NEW m, NEW replies, Receive(m, replies)
  PROVE  wire' \subseteq wire \cup replies
  BY Zenon DEF Receive

(* A timer or a send adds datagrams. *)
LEMMA SendWire ==
  ASSUME NEW messages, Send(messages) \/ Fires(messages)
  PROVE  wire' = wire \cup messages
  BY Zenon DEF Send, Fires

(* The invariant of the wire, read on the next state. *)
LEMMA WireNext ==
  ASSUME \A m \in wire' : DatagramOK(m)'
  PROVE  WireOK'
  BY Zenon DEF WireOK

(* A datagram in flight stays what it is while the client does not move. *)
LEMMA DatagramKept ==
  ASSUME Continues, WireOK, UNCHANGED <<stage, init, mine>>, NEW m \in wire
  PROVE  DatagramOK(m)'
<1>1. m.type = "Response" => AnswerOK(m.id, m.kind, m.attempt, m.init)'
  BY Zenon, AnswerKept DEF WireOK, DatagramOK
<1>2. installed \subseteq installed' BY Zenon DEF Continues
<1>3. DatagramOK(m) BY Zenon DEF WireOK
<1> QED BY Zenon, <1>1, <1>2, <1>3 DEF DatagramOK

-----------------------------------------------------------------------------
(* The tables after a step of the server.  "Continues" relates the meanings,
   the other facts say which attempts are new. *)
ServerKeeps ==
  /\ SessionsInv' /\ OneMeaning' /\ Continues
  /\ \A s \in DOMAIN pending' :
       pending'[s].attempt < next =>
         /\ s \in DOMAIN pending /\ pending'[s].attempt = pending[s].attempt
         /\ pending'[s].kind = pending[s].kind

(* A step that begins no attempt: attempts may go or leave their keys
   installed, sessions may move or go. *)
LEMMA ShrinkKeeps ==
  ASSUME SessionsInv, OneMeaning, SessionsInv', next' = next, installed \subseteq installed',
         Bound' \subseteq Bound,
         \A s \in DOMAIN pending' : /\ s \in DOMAIN pending
                                    /\ pending'[s].attempt = pending[s].attempt
                                    /\ pending'[s].kind = pending[s].kind,
         \A s \in DOMAIN active' : <<s, active'[s].phase, active'[s].keys>> \in installed'
  PROVE  ServerKeeps
<1>1. Continues BY TableFacts DEF Continues
<1>2. ASSUME NEW b \in Bound' PROVE IsFor(b[3], b[1], b[2])'
  <2>1. IsFor(b[3], b[1], b[2]) BY Zenon, <1>2 DEF OneMeaning
  <2> QED BY Zenon, <1>1, <2>1, MeaningKept
<1>3. OneMeaning' BY Zenon, <1>2 DEF OneMeaning
<1> QED BY Zenon, <1>1, <1>3 DEF ServerKeeps

(* The same when no keys are installed. *)
LEMMA DropKeeps ==
  ASSUME SessionsInv, OneMeaning, SessionsInv', UNCHANGED <<next, installed>>,
         \A s \in DOMAIN pending' : /\ s \in DOMAIN pending
                                    /\ pending'[s].attempt = pending[s].attempt
                                    /\ pending'[s].kind = pending[s].kind
                                    /\ pending'[s].phase = pending[s].phase,
         \A s \in DOMAIN active' : /\ s \in DOMAIN active
                                   /\ active'[s].phase = active[s].phase
                                   /\ active'[s].keys = active[s].keys
  PROVE  ServerKeeps
<1>1. Bound' \subseteq Bound BY Zenon DEF Bound
<1>2. \A s \in DOMAIN active' : <<s, active'[s].phase, active'[s].keys>> \in installed'
  BY Zenon DEF OneMeaning
<1> QED BY Zenon, <1>1, <1>2, ShrinkKeeps

(* New attempts get new numbers, so they mean nothing else. *)
LEMMA GrowKeeps ==
  ASSUME SessionsInv, OneMeaning, SessionsInv', UNCHANGED <<active, installed>>, NEW new,
         next <= next', pending' = Merge(new, pending),
         \A s \in DOMAIN new : new[s].attempt \in next..(next' - 1),
         \A s, t \in DOMAIN new : new[s].attempt = new[t].attempt => s = t
  PROVE  ServerKeeps
<1>1. /\ DOMAIN pending' = DOMAIN new \cup DOMAIN pending
      /\ \A s \in DOMAIN new : pending'[s] = new[s]
      /\ \A s \in DOMAIN pending \ DOMAIN new : pending'[s] = pending[s]
  BY Zenon DEF Merge
<1>2. ASSUME NEW b \in Bound'
      PROVE  \/ b \in Bound
             \/ b[3] >= next /\ \E s \in DOMAIN new : b = <<s, new[s].phase, new[s].attempt>>
  <2>1. next \in Nat BY Zenon, TableFacts
  <2>2. \A s \in DOMAIN new : new[s].attempt >= next
    <3>1. \A a \in next..(next' - 1) : a >= next BY <2>1
    <3> QED BY Zenon, <3>1
  <2> QED BY <1>1, <1>2, <2>2 DEF Bound
<1>3. Continues
  <2>1. next' \in Nat BY BoundsAssumption DEF SessionsInv, TypeOK
  <2> QED BY Zenon, <1>2, <2>1, TableFacts DEF Continues
<1>4. \A b \in Bound : b[3] \in Nat /\ b[3] < next
  <2>1. ASSUME NEW b \in Bound PROVE b[3] \in 1..(next - 1) BY Zenon, <2>1 DEF OneMeaning, IsFor
  <2> QED BY <2>1, TableFacts
<1>5. OneMeaning'
  <2>1. ASSUME NEW b \in Bound' PROVE IsFor(b[3], b[1], b[2])'
    <3>1. CASE b \in Bound
      <4>1. IsFor(b[3], b[1], b[2]) BY Zenon, <3>1 DEF OneMeaning
      <4> QED BY Zenon, <1>3, <4>1, MeaningKept
    <3>2. CASE b \notin Bound
      <4>1. PICK s \in DOMAIN new : b = <<s, new[s].phase, new[s].attempt>> /\ b[3] >= next
        BY Zenon, <1>2, <3>2
      <4>2. b[3] \in 1..(next' - 1)
        <5>1. b[3] \in next..(next' - 1) /\ next' \in Nat BY Zenon, <4>1, <1>3 DEF Continues
        <5> QED BY <5>1, TableFacts
      <4>3. ASSUME NEW c \in Bound', c[3] = b[3] PROVE c = b
        <5>1. c \notin Bound BY <1>4, <4>1, <4>3, TableFacts
        <5>2. PICK t \in DOMAIN new : c = <<t, new[t].phase, new[t].attempt>> BY Zenon, <1>2, <5>1
        <5> QED BY Zenon, <4>1, <4>3, <5>2
      <4> QED BY Zenon, <4>1, <4>2, <4>3 DEF IsFor
    <3> QED BY Zenon, <3>1, <3>2
  <2>2. \A s \in DOMAIN active' : <<s, active'[s].phase, active'[s].keys>> \in installed'
    BY Zenon DEF OneMeaning
  <2> QED BY Zenon, <2>1, <2>2 DEF OneMeaning
<1>6. ASSUME NEW s \in DOMAIN pending', pending'[s].attempt < next
      PROVE  s \in DOMAIN pending /\ pending'[s] = pending[s]
  <2>1. s \notin DOMAIN new
    <3>1. pending'[s].attempt \in Int
      BY <1>6 DEF SessionsInv, TypeOK, PendingEntry, Attempts
    <3>2. \A a \in next..(next' - 1) : ~(a < next) BY TableFacts
    <3> QED BY Zenon, <1>1, <1>6, <3>1, <3>2
  <2> QED BY Zenon, <1>1, <2>1
<1> QED BY Zenon, <1>3, <1>5, <1>6 DEF ServerKeeps

(* The handlers of the server, one by one: a packet that changes no table. *)
LEMMA StutterKeeps ==
  ASSUME SessionsInv, OneMeaning, UNCHANGED vars
  PROVE  ServerKeeps
<1>1. SessionsInv' BY Zenon, StutterPreserves
<1> QED BY Zenon, <1>1, DropKeeps DEF vars

(* begin_initial numbers its attempts from "next" on, the number being the id. *)
LEMMA InitialKeeps ==
  ASSUME SessionsInv, OneMeaning, NEW e \in Endpoints, BeginInitial(e)
  PROVE  /\ ServerKeeps
         /\ \A h \in next..(next' - 1) :
              /\ h \in DOMAIN pending' /\ pending'[h].attempt = h /\ pending'[h].phase = 0
              /\ pending'[h].kind = "Handshake"
<1> DEFINE new == NewAttempts(e)
<1>1. SessionsInv' BY Zenon, BeginInitialPreserves
<1>2. /\ pending' = Merge(new, pending) /\ next' = next + Tried(e)
      /\ UNCHANGED <<active, installed>>
  BY Zenon DEF BeginInitial, InsertPending
<1>3. Tried(e) \in Nat /\ next \in Nat BY Zenon, NewAttemptsFacts, TableFacts
<1>4. DOMAIN new = next..(next + Tried(e) - 1) BY Zenon, NewAttemptsFacts
<1>5. ASSUME NEW h \in DOMAIN new
      PROVE  new[h].attempt = h /\ new[h].phase = 0 /\ new[h].kind = "Handshake"
  <2>1. h \in next..(next + Tried(e) - 1) BY Zenon, <1>4
  <2>2. new[h] = [source |-> Trials(config)[h - next + 1], admitted |-> config.admitted,
                  endpoint |-> e, kind |-> "Handshake", phase |-> 0, attempt |-> h, attempts |-> 1]
    BY Zenon, <2>1 DEF NewAttempts
  <2> QED BY <2>2
<1> HIDE DEF new
<1>6. /\ next <= next' /\ next..(next' - 1) = DOMAIN new BY <1>2, <1>3, <1>4
<1>7. \A s \in DOMAIN new : new[s].attempt \in next..(next' - 1) BY Zenon, <1>5, <1>6
<1>8. \A s, t \in DOMAIN new : new[s].attempt = new[t].attempt => s = t BY Zenon, <1>5
<1>9. ServerKeeps BY Zenon, <1>1, <1>2, <1>6, <1>7, <1>8, GrowKeeps
<1>10. \A h \in DOMAIN new : h \in DOMAIN pending' /\ pending'[h] = new[h] BY Zenon, <1>2 DEF Merge
<1> QED BY Zenon, <1>5, <1>6, <1>9, <1>10

(* begin_rekey takes one number for the phase after the session's. *)
LEMMA RekeyKeeps ==
  ASSUME SessionsInv, OneMeaning, NEW s, NEW e \in Endpoints, NEW phase, BeginRekey(s, e, phase)
  PROVE  /\ ServerKeeps
         /\ next' = next + 1 /\ s \in DOMAIN pending' /\ pending'[s].attempt = next
         /\ pending'[s].kind = "Rekey" /\ pending'[s].phase = phase + 1
         /\ s \notin DOMAIN pending /\ DOMAIN pending' = DOMAIN pending \cup {s}
<1> DEFINE new == NewRekey(s, e)
<1>0. /\ s \in DOMAIN active /\ active[s].phase = phase /\ s \notin DOMAIN pending
  BY Zenon DEF BeginRekey, AdmitsRekey
<1>1. SessionsInv' BY Zenon, <1>0, BeginRekeyPreserves
<1>2. /\ pending' = Merge(new, pending) /\ next' = next + 1
      /\ UNCHANGED <<active, installed>>
  BY Zenon DEF BeginRekey, InsertPending
<1>3. /\ DOMAIN new = {s} /\ new[s].attempt = next /\ new[s].phase = phase + 1
      /\ new[s].kind = "Rekey"
  BY Zenon, <1>0 DEF NewRekey
<1> HIDE DEF new
<1>4. next \in Nat BY Zenon, TableFacts
<1>5. ServerKeeps BY <1>1, <1>2, <1>3, <1>4, GrowKeeps
<1>6. s \in DOMAIN pending' /\ pending'[s] = new[s] /\ DOMAIN pending' = DOMAIN pending \cup {s}
  BY Zenon, <1>2, <1>3 DEF Merge
<1> QED BY Zenon, <1>0, <1>2, <1>3, <1>5, <1>6

(* finish_pending turns a pending attempt into installed keys of the same id,
   phase and number, or drops it. *)
LEMMA FinishKeeps ==
  ASSUME SessionsInv, OneMeaning, NEW s, NEW e \in Endpoints, NEW k, NEW attempt,
         NEW signer \in Identities, FinishPending(s, e, k, attempt, signer)
  PROVE  ServerKeeps
<1>1. SessionsInv' BY Zenon, FinishPendingPreserves, StutterPreserves
<1>2. next' = next BY Zenon DEF FinishPending
<1>3. CASE Unexpected(s, e, k)
  <2>1. UNCHANGED <<pending, active, installed>> BY Zenon, <1>3 DEF FinishPending
  <2> QED BY Zenon, <1>1, <1>2, <2>1, DropKeeps
<1>4. CASE ~Unexpected(s, e, k)
  <2>1. /\ s \in DOMAIN pending /\ DOMAIN pending' = DOMAIN pending \ {s}
        /\ \A t \in DOMAIN pending' : pending'[t] = pending[t]
    BY Zenon, <1>4 DEF FinishPending, Unexpected, RemovePending, Without
  <2>2. CASE UNCHANGED <<active, installed>>
    BY Zenon, <1>1, <1>2, <2>1, <2>2, DropKeeps
  <2>3. CASE Establish(s, e, signer)
    <3> DEFINE p == pending[s]
               id == IdentityOf(p, signer)
               peer == NewPeer(s, p, id, e)
    <3>1. /\ active' = Merge([x \in {s} |-> peer], Without(active, Evicted(s, id)))
          /\ installed' = installed \cup {<<s, p.phase, p.attempt>>}
      BY Zenon, <2>3 DEF Establish
    <3>2. peer.phase = p.phase /\ peer.keys = p.attempt BY Zenon DEF NewPeer
    <3> HIDE DEF peer, id
    <3>3. \A t \in DOMAIN active' : IF t = s THEN active'[t] = peer
                                    ELSE t \in DOMAIN active /\ active'[t] = active[t]
      BY Zenon, <3>1 DEF Merge, Without
    <3>4. Bound' \subseteq Bound BY Zenon, <2>1, <3>1 DEF Bound
    <3>5. \A t \in DOMAIN active' : <<t, active'[t].phase, active'[t].keys>> \in installed'
      BY Zenon, <3>1, <3>2, <3>3 DEF OneMeaning
    <3> QED BY Zenon, <1>1, <1>2, <2>1, <3>1, <3>4, <3>5, ShrinkKeeps
  <2> QED BY Zenon, <1>4, <2>2, <2>3 DEF FinishPending
<1> QED BY Zenon, <1>3, <1>4

(* An authentic packet moves the session to another endpoint. *)
LEMMA RoamKeeps ==
  ASSUME SessionsInv, OneMeaning, NEW s \in DOMAIN active, NEW e \in Endpoints, Roam(s, e)
  PROVE  ServerKeeps
<1>1. SessionsInv' BY Zenon, RoamPreserves
<1>2. /\ DOMAIN active' = DOMAIN active
      /\ \A t \in DOMAIN active :
           active'[t] = IF t = s THEN [active[s] EXCEPT !.endpoint = e] ELSE active[t]
      /\ UNCHANGED <<pending, next, installed>>
  BY Zenon DEF Roam
<1>3. \A t \in DOMAIN active : active'[t].phase = active[t].phase /\ active'[t].keys = active[t].keys
  BY Zenon, <1>2, TableFacts DEF ActivePeer
<1> QED BY Zenon, <1>1, <1>2, <1>3, DropKeeps

(* An authentic Close ends the session. *)
LEMMA CloseKeeps ==
  ASSUME SessionsInv, OneMeaning, NEW s \in DOMAIN active, Close(s)
  PROVE  ServerKeeps
<1>1. SessionsInv'
  <2>1. /\ {s} \in SUBSET DOMAIN active /\ DropSessions({s})
        /\ UNCHANGED <<pending, per_source, config, next, installed, repeated>>
    BY Zenon DEF Close
  <2> QED BY Zenon, <2>1, DropPreserves
<1>2. /\ UNCHANGED <<pending, next, installed>>
      /\ \A t \in DOMAIN active' : t \in DOMAIN active /\ active'[t] = active[t]
  BY Zenon DEF Close, DropSessions, Without
<1> QED BY Zenon, <1>1, <1>2, DropKeeps

(* The retry timer drops attempts and counts answers. *)
LEMMA RetryKeeps ==
  ASSUME SessionsInv, OneMeaning, RetransmitPending
  PROVE  /\ ServerKeeps
         /\ \A s \in DOMAIN pending' : s \in DOMAIN pending
<1>1. SessionsInv' BY Zenon, RetransmitPreserves
<1>2. /\ UNCHANGED <<active, next, installed>>
      /\ \A s \in DOMAIN pending' :
           s \in DOMAIN pending /\ pending'[s] = [pending[s] EXCEPT !.attempts = @ + 1]
  BY Zenon DEF RetransmitPending
<1>3. \A s \in DOMAIN pending' :
        /\ pending'[s].attempt = pending[s].attempt /\ pending'[s].kind = pending[s].kind
        /\ pending'[s].phase = pending[s].phase
  BY Zenon, <1>2, TableFacts DEF PendingEntry
<1> QED BY Zenon, <1>1, <1>2, <1>3, DropKeeps

(* A server that dies and starts again with empty tables. *)
LEMMA CrashKeeps ==
  ASSUME SessionsInv, OneMeaning, ServerCrash
  PROVE  ServerKeeps
<1>1. /\ DropSessions(DOMAIN active) /\ pending' = Without(pending, DOMAIN pending)
      /\ per_source' = [e \in Endpoints |-> 0] /\ UNCHANGED <<config, next, installed, repeated>>
  BY Zenon DEF ServerCrash
<1>2. config' \in Configs BY Zenon, <1>1 DEF SessionsInv, TypeOK
<1>3. SessionsInv' /\ DOMAIN active' = {} /\ DOMAIN pending' = {} BY Zenon, <1>1, <1>2, EmptyPreserves
<1> QED BY Zenon, <1>1, <1>3, DropKeeps

-----------------------------------------------------------------------------
(* A step of the server: the client stays where it is, the answers to older
   attempts are still recorded, and what is new is in order. *)
LEMMA ServerStep ==
  ASSUME TunnelInv, ServerKeeps, UNCHANGED clientVars,
         NEW replies, wire' \subseteq wire \cup replies, \A m \in replies : DatagramOK(m)',
         \A a \in DOMAIN answered : a < next => a \in DOMAIN answered' /\ answered'[a] = answered[a],
         \A s \in DOMAIN pending' : \A k, a, n :
           k = pending'[s].kind /\ a = pending'[s].attempt /\ n = answered'[a] /\ a >= next
             => a \in DOMAIN answered' /\ AnswerOK(s, k, a, n)'
  PROVE  TunnelInv'
<1> USE DEF TunnelInv
<1>0. Continues /\ SessionsInv' /\ OneMeaning' /\ UNCHANGED <<stage, init, mine>>
  BY Zenon DEF ServerKeeps, clientVars
<1>1. WireOK'
  <2>1. \A m \in wire : DatagramOK(m)' BY Zenon, <1>0, DatagramKept
  <2> QED BY Zenon, <2>1, WireNext
<1>2. AnswersOK'
  <2>1. ASSUME NEW s \in DOMAIN pending', NEW k, NEW a, NEW n,
               k = pending'[s].kind, a = pending'[s].attempt, n = answered'[a], a < next
        PROVE  a \in DOMAIN answered' /\ AnswerOK(s, k, a, n)'
    <3>1. s \in DOMAIN pending /\ a = pending[s].attempt /\ k = pending[s].kind
      BY Zenon, <2>1 DEF ServerKeeps
    <3>2. a \in DOMAIN answered /\ AnswerOK(s, k, a, answered[a]) BY Zenon, <3>1 DEF AnswersOK
    <3>3. a \in DOMAIN answered' /\ n = answered[a] BY Zenon, <2>1, <3>2
    <3> QED BY Zenon, <1>0, <3>2, <3>3, AnswerKept
  <2>2. \A s \in DOMAIN pending' : pending'[s].attempt \in Int
    BY <1>0 DEF SessionsInv, TypeOK, PendingEntry, Attempts
  <2>3. next \in Nat BY Zenon, <1>0 DEF Continues
  <2>4. ASSUME NEW s \in DOMAIN pending', NEW k, NEW a, NEW n,
               k = pending'[s].kind, a = pending'[s].attempt, n = answered'[a]
        PROVE  a \in DOMAIN answered' /\ AnswerOK(s, k, a, n)'
    <3>1. a < next \/ a >= next BY <2>2, <2>3, <2>4
    <3> QED BY Zenon, <2>1, <2>4, <3>1
  <2> QED BY Zenon, <2>4, AnswersNext
<1>3. ClientOK'
  <2>1. installed \subseteq installed' BY Zenon, <1>0 DEF Continues
  <2>2. \A a, id, phase : IsFor(a, id, phase) => IsFor(a, id, phase)' BY Zenon, <1>0, MeaningKept
  <2>3. stage = "ack" => IsFor(offered.keys, offered.id, offered.phase)' 
    <3>1. UNCHANGED offered BY Zenon DEF clientVars
    <3>2. stage = "ack" => IsFor(offered.keys, offered.id, offered.phase) BY Zenon DEF ClientOK
    <3>3. ASSUME stage = "ack" PROVE IsFor(offered.keys, offered.id, offered.phase)'
      <4>1. PICK a, id, phase : a = offered.keys /\ id = offered.id /\ phase = offered.phase BY Zenon
      <4>2. a = offered'.keys /\ id = offered'.id /\ phase = offered'.phase BY Zenon, <3>1, <4>1
      <4>3. IsFor(a, id, phase)' BY Zenon, <2>2, <3>2, <3>3, <4>1
      <4> QED BY Zenon, <4>2, <4>3
    <3> QED BY Zenon, <3>3
  <2> QED BY Zenon, <2>1, <2>3 DEF ClientOK, clientVars
<1> QED BY Zenon, <1>0, <1>1, <1>2, <1>3

(* The same when the step begins no attempt and records no answer. *)
LEMMA ServerStepOld ==
  ASSUME TunnelInv, ServerKeeps, UNCHANGED <<clientVars, answered>>, next' = next,
         NEW replies, wire' \subseteq wire \cup replies, \A m \in replies : DatagramOK(m)'
  PROVE  TunnelInv'
<1>1. ASSUME NEW s \in DOMAIN pending' PROVE ~(pending'[s].attempt >= next)
  <2>1. <<s, pending'[s].phase, pending'[s].attempt>> \in Bound' BY Zenon, <1>1 DEF Bound
  <2>2. pending'[s].attempt \in 1..(next' - 1) BY Zenon, <2>1 DEF ServerKeeps, OneMeaning, IsFor
  <2>3. next \in Nat BY Zenon DEF ServerKeeps, Continues
  <2> QED BY <2>2, <2>3
<1> QED BY Zenon, <1>1, ServerStep

(* The same when it sends nothing. *)
LEMMA SilentStep ==
  ASSUME TunnelInv, ServerKeeps, UNCHANGED <<clientVars, answered>>, next' = next,
         wire' \subseteq wire
  PROVE  TunnelInv'
<1>1. PICK replies : replies = {} BY Zenon
<1>2. wire' \subseteq wire \cup replies /\ \A m \in replies : DatagramOK(m)' BY Zenon, <1>1
<1> QED BY Zenon, <1>2, ServerStepOld

-----------------------------------------------------------------------------
(* A datagram to the server comes from an endpoint. *)
LEMMA FromEndpoint ==
  ASSUME TunnelInv, NEW m \in wire, m.to = "server"
  PROVE  m.from \in Endpoints
  BY Zenon DEF TunnelInv, WireOK, DatagramOK

(* The keys of the client's session are older than the next attempt. *)
LEMMA MineOld ==
  ASSUME TunnelInv
  PROVE  mine.keys \in Nat /\ mine.keys < next
<1>1. mine = NoSession \/ <<mine.id, mine.phase, mine.keys>> \in installed
  BY Zenon DEF TunnelInv, ClientOK
<1>2. mine = NoSession => mine.keys = 0 BY DEF NoSession
<1>3. <<mine.id, mine.phase, mine.keys>> \in installed => mine.keys \in 1..(next - 1)
  BY Zenon DEF TunnelInv, OneMeaning, IsFor, Bound
<1>4. next \in Nat /\ next >= 1 BY Zenon, TableFacts DEF TunnelInv
<1> QED BY <1>1, <1>2, <1>3, <1>4

(* challenge_or_admit and begin_initial. *)
LEMMA ServeInitiationOK ==
  ASSUME TunnelInv, NEW m \in wire, m.to = "server", ServeInitiation(m)
  PROVE  TunnelInv'
<1>0. /\ m.from \in Endpoints /\ m.init \in 0..init /\ init \in Nat
      /\ SessionsInv /\ OneMeaning /\ UNCHANGED clientVars
  BY Zenon, FromEndpoint DEF ServeInitiation, TunnelInv, WireOK, DatagramOK, ClientOK
<1>1. ASSUME NEW replies, Receive(m, replies), UNCHANGED <<vars, answered>>,
             \A r \in replies : DatagramOK(r)'
      PROVE  TunnelInv'
  <2>1. wire' \subseteq wire \cup replies BY Zenon, <1>1, ReceiveWire
  <2>2. ServerKeeps BY Zenon, <1>0, <1>1, StutterKeeps
  <2>3. next' = next BY Zenon, <1>1 DEF vars
  <2> QED BY Zenon, <1>0, <1>1, <2>1, <2>2, <2>3, ServerStepOld
<1>2. ASSUME NEW c, Receive(m, {[to |-> m.from, type |-> "CookieReply", cookie |-> c]}),
             UNCHANGED <<vars, answered>>
      PROVE  TunnelInv'
  <2> DEFINE r == [to |-> m.from, type |-> "CookieReply", cookie |-> c]
  <2>1. r.to # "server" /\ r.type = "CookieReply" BY Zenon, <1>0, TunnelAssumption
  <2> HIDE DEF r
  <2>2. DatagramOK(r)' BY Zenon, <2>1 DEF DatagramOK
  <2> QED BY <1>1, <1>2, <2>2 DEF r
<1>3. CASE Receive(m, {}) /\ UNCHANGED <<vars, answered>> BY <1>1, <1>3
<1>4. ASSUME BeginInitial(m.from),
             answered' = Merge([h \in next..(next' - 1) |-> m.init], answered),
             Receive(m, {Response(h, pending'[h], m.init) : h \in next..(next' - 1)})
      PROVE  TunnelInv'
  <2> DEFINE replies == {Response(h, pending'[h], m.init) : h \in next..(next' - 1)}
  <2>1. /\ ServerKeeps
        /\ \A h \in next..(next' - 1) :
             /\ h \in DOMAIN pending' /\ pending'[h].attempt = h /\ pending'[h].phase = 0
             /\ pending'[h].kind = "Handshake"
    BY Zenon, <1>0, <1>4, InitialKeeps
  <2>2. SessionsInv' /\ OneMeaning' /\ next \in Nat /\ next' \in Nat
    BY Zenon, <2>1 DEF ServerKeeps, Continues
  <2>3. mine.keys \in Nat /\ mine.keys < next /\ UNCHANGED <<stage, init, mine>>
    BY Zenon, <1>0, MineOld DEF clientVars
  <2>4. ASSUME NEW h \in next..(next' - 1) PROVE AnswerOK(h, "Handshake", h, m.init)'
    <3>1. <<h, pending'[h].phase, pending'[h].attempt>> \in Bound' BY Zenon, <2>1 DEF Bound
    <3>2. <<h, 0, h>> \in Bound' BY Zenon, <2>1, <3>1
    <3>3. IsFor(h, h, 0)' BY Zenon, <2>2, <3>2 DEF OneMeaning
    <3>4. h \in 1..(next' - 1) BY Zenon, <3>3 DEF IsFor
    <3>5. h > mine.keys BY <2>2, <2>3
    <3> QED BY Zenon, <1>0, <2>3, <3>3, <3>4, <3>5 DEF AnswerOK
  <2>5. ASSUME NEW r \in replies PROVE DatagramOK(r)'
    <3>1. PICK h \in next..(next' - 1) : r = Response(h, pending'[h], m.init) BY Zenon, <2>5
    <3>2. /\ r.to = pending'[h].endpoint /\ r.type = "Response" /\ r.kind = "Handshake"
          /\ r.id = h /\ r.attempt = h /\ r.init = m.init
      BY Zenon, <2>1, <3>1 DEF Response
    <3>3. r.to # "server"
      <4>1. TypeOK' BY Zenon, <2>2 DEF SessionsInv
      <4>2. pending'[h] \in PendingEntry BY Zenon, <2>1, <4>1 DEF TypeOK
      <4>3. pending'[h].endpoint \in Endpoints BY Zenon, <4>2 DEF PendingEntry
      <4> QED BY Zenon, <3>2, <4>3, TunnelAssumption
    <3>4. AnswerOK(h, "Handshake", h, m.init)' BY Zenon, <2>4
    <3> QED BY Zenon, <3>2, <3>3, <3>4 DEF DatagramOK
  <2> HIDE DEF replies
  <2>6. wire' \subseteq wire \cup replies BY Zenon, <1>4, ReceiveWire DEF replies
  <2>7. \A a \in DOMAIN answered : a < next => a \in DOMAIN answered' /\ answered'[a] = answered[a]
    <3>1. \A a \in next..(next' - 1) : ~(a < next) BY <2>2
    <3> QED BY Zenon, <1>4, <3>1 DEF Merge
  <2>8. ASSUME NEW s \in DOMAIN pending', NEW k, NEW a, NEW n, k = pending'[s].kind,
               a = pending'[s].attempt, n = answered'[a], a >= next
        PROVE  a \in DOMAIN answered' /\ AnswerOK(s, k, a, n)'
    <3>1. PICK phase : <<s, phase, a>> \in Bound' BY Zenon, <2>8 DEF Bound
    <3>2. IsFor(a, s, phase)' BY Zenon, <2>2, <3>1 DEF OneMeaning
    <3>3. a \in 1..(next' - 1) BY Zenon, <3>2 DEF IsFor
    <3>4. a \in next..(next' - 1) BY <2>2, <2>8, <3>3
    <3>5. <<a, 0, a>> \in Bound'
      <4>1. <<a, pending'[a].phase, pending'[a].attempt>> \in Bound' BY Zenon, <2>1, <3>4 DEF Bound
      <4> QED BY Zenon, <2>1, <3>4, <4>1
    <3>6. s = a BY Zenon, <3>2, <3>5 DEF IsFor
    <3>7. k = "Handshake" BY Zenon, <2>1, <2>8, <3>4, <3>6
    <3>8. a \in DOMAIN answered' /\ answered'[a] = m.init BY Zenon, <1>4, <3>4 DEF Merge
    <3> QED BY Zenon, <2>4, <2>8, <3>4, <3>6, <3>7, <3>8
  <2> QED BY Zenon, <1>0, <2>1, <2>5, <2>6, <2>7, <2>8, ServerStep
<1> QED BY Zenon, <1>2, <1>3, <1>4 DEF ServeInitiation

(* begin_rekey, and the answer to its initiation. *)
LEMMA ServeRekeyOK ==
  ASSUME TunnelInv, NEW m \in wire, m.to = "server", ServeRekey(m)
  PROVE  TunnelInv'
<1>0. /\ m.from \in Endpoints /\ m.init \in 0..init /\ init \in Nat
      /\ (stage = "response" /\ m.init = init => m.phase = mine.phase)
      /\ SessionsInv /\ OneMeaning /\ UNCHANGED clientVars
  BY Zenon, FromEndpoint DEF ServeRekey, TunnelInv, WireOK, DatagramOK, ClientOK
<1>1. CASE Receive(m, {}) /\ UNCHANGED <<vars, answered>>
  <2>1. wire' \subseteq wire BY <1>1, ReceiveWire
  <2>2. ServerKeeps BY Zenon, <1>0, <1>1, StutterKeeps
  <2>3. next' = next BY Zenon, <1>1 DEF vars
  <2> QED BY Zenon, <1>0, <1>1, <2>1, <2>2, <2>3, SilentStep
<1>2. ASSUME BeginRekey(m.id, m.from, m.phase),
             answered' = Merge([h \in {next} |-> m.init], answered),
             Receive(m, {Response(m.id, pending'[m.id], m.init)})
      PROVE  TunnelInv'
  <2> DEFINE id == m.id
  <2>1. /\ ServerKeeps
        /\ next' = next + 1 /\ id \in DOMAIN pending' /\ pending'[id].attempt = next
        /\ pending'[id].kind = "Rekey" /\ pending'[id].phase = m.phase + 1
    BY Zenon, <1>0, <1>2, RekeyKeeps
  <2>2. SessionsInv' /\ OneMeaning' /\ next \in Nat /\ next' \in Nat
    BY Zenon, <2>1 DEF ServerKeeps, Continues
  <2>3. mine.keys \in Nat /\ mine.keys < next /\ UNCHANGED <<stage, init, mine>>
    BY Zenon, <1>0, MineOld DEF clientVars
  <2>4. PICK a : a = next BY Zenon
  <2>5. AnswerOK(id, "Rekey", a, m.init)'
    <3>1. <<id, pending'[id].phase, pending'[id].attempt>> \in Bound' BY Zenon, <2>1 DEF Bound
    <3>2. <<id, m.phase + 1, a>> \in Bound' BY Zenon, <2>1, <2>4, <3>1
    <3>3. IsFor(a, id, m.phase + 1)' BY Zenon, <2>2, <3>2 DEF OneMeaning
    <3>4. a \in 1..(next' - 1) BY Zenon, <3>3 DEF IsFor
    <3>5. a > mine.keys BY Zenon, <2>4, <2>3
    <3> QED BY Zenon, <1>0, <2>3, <3>3, <3>4, <3>5 DEF AnswerOK
  <2>6. ASSUME NEW r, r = Response(id, pending'[id], m.init) PROVE DatagramOK(r)'
    <3>1. /\ r.to = pending'[id].endpoint /\ r.type = "Response" /\ r.kind = "Rekey"
          /\ r.id = id /\ r.attempt = a /\ r.init = m.init
      BY Zenon, <2>1, <2>4, <2>6 DEF Response
    <3>2. r.to # "server"
      <4>1. TypeOK' BY Zenon, <2>2 DEF SessionsInv
      <4>2. pending'[id] \in PendingEntry BY Zenon, <2>1, <4>1 DEF TypeOK
      <4>3. pending'[id].endpoint \in Endpoints BY Zenon, <4>2 DEF PendingEntry
      <4> QED BY Zenon, <3>1, <4>3, TunnelAssumption
    <3> QED BY Zenon, <2>5, <3>1, <3>2 DEF DatagramOK
  <2>7. \A x \in DOMAIN answered : x < next => x \in DOMAIN answered' /\ answered'[x] = answered[x]
    <3>1. ~(next < next) BY <2>2
    <3> QED BY Zenon, <1>2, <3>1 DEF Merge
  <2>8. ASSUME NEW s \in DOMAIN pending', NEW k, NEW b, NEW n, k = pending'[s].kind,
               b = pending'[s].attempt, n = answered'[b], b >= next
        PROVE  b \in DOMAIN answered' /\ AnswerOK(s, k, b, n)'
    <3>1. PICK phase : <<s, phase, b>> \in Bound' BY Zenon, <2>8 DEF Bound
    <3>2. IsFor(b, s, phase)' BY Zenon, <2>2, <3>1 DEF OneMeaning
    <3>3. b = a
      <4>1. b \in 1..(next' - 1) BY Zenon, <3>2 DEF IsFor
      <4> QED BY <2>1, <2>2, <2>4, <2>8, <4>1
    <3>4. \E ph : <<id, ph, a>> \in Bound'
      <4>1. <<id, pending'[id].phase, pending'[id].attempt>> \in Bound' BY Zenon, <2>1 DEF Bound
      <4> QED BY Zenon, <2>1, <2>4, <4>1
    <3>5. s = id BY Zenon, <3>2, <3>3, <3>4 DEF IsFor
    <3>6. k = "Rekey" BY Zenon, <2>1, <2>8, <3>5
    <3>7. a \in DOMAIN answered' /\ answered'[a] = m.init BY Zenon, <1>2, <2>4 DEF Merge
    <3> QED BY Zenon, <2>5, <2>8, <3>3, <3>5, <3>6, <3>7
  <2>9. PICK replies : replies = {Response(id, pending'[id], m.init)} BY Zenon
  <2>10. wire' \subseteq wire \cup replies BY Zenon, <1>2, <2>9, ReceiveWire
  <2>11. \A q \in replies : DatagramOK(q)' BY Zenon, <2>6, <2>9
  <2> QED BY Zenon, <1>0, <2>1, <2>7, <2>8, <2>10, <2>11, ServerStep
<1> QED BY Zenon, <1>1, <1>2 DEF ServeRekey

(* A keepalive the server sends names keys it installed. *)
LEMMA KeepaliveOK ==
  ASSUME OneMeaning', NEW s \in DOMAIN active', NEW e \in Endpoints, NEW r, r = Keepalive(s, e)
  PROVE  DatagramOK(r)'
<1>1. r.to = e /\ r.type = "Keepalive" /\ r.id = s /\ r.keys = active'[s].keys BY Zenon DEF Keepalive
<1>2. <<s, active'[s].phase, active'[s].keys>> \in installed' BY Zenon DEF OneMeaning
<1>3. \E b \in installed' : b[1] = r.id /\ b[3] = r.keys BY Zenon, <1>1, <1>2
<1>4. r.to # "server" BY Zenon, <1>1, TunnelAssumption
<1> QED BY Zenon, <1>1, <1>3, <1>4 DEF DatagramOK

(* finish_pending, and the acknowledgement. *)
LEMMA ServeFinishOK ==
  ASSUME TunnelInv, NEW m \in wire, m.to = "server", ServeFinish(m)
  PROVE  TunnelInv'
<1>0. m.from \in Endpoints /\ SessionsInv /\ OneMeaning /\ UNCHANGED <<clientVars, answered>>
  BY Zenon, FromEndpoint DEF ServeFinish, TunnelInv
<1>1. ServerKeeps
  BY Zenon, <1>0, FinishKeeps, TunnelAssumption DEF ServeFinish, Identities
<1>2. next' = next BY Zenon DEF ServeFinish, FinishPending
<1>3. PICK replies : /\ Receive(m, replies)
                     /\ replies = IF m.id \in DOMAIN active' /\ active'[m.id].endpoint = m.from
                                  THEN {Keepalive(m.id, m.from)} ELSE {}
  BY Zenon DEF ServeFinish
<1>4. \A r \in replies : DatagramOK(r)' BY Zenon, <1>0, <1>1, <1>3, KeepaliveOK DEF ServerKeeps
<1>5. wire' \subseteq wire \cup replies BY Zenon, <1>3, ReceiveWire
<1> QED BY Zenon, <1>0, <1>1, <1>2, <1>4, <1>5, ServerStepOld

(* An authentic keepalive is answered where it came from. *)
LEMMA ServeKeepaliveOK ==
  ASSUME TunnelInv, NEW m \in wire, m.to = "server", ServeKeepalive(m)
  PROVE  TunnelInv'
<1>0. m.from \in Endpoints /\ SessionsInv /\ OneMeaning /\ UNCHANGED <<clientVars, answered>>
  BY Zenon, FromEndpoint DEF ServeKeepalive, TunnelInv
<1>1. CASE ServerOpens(m)
  <2>1. m.id \in DOMAIN active /\ Roam(m.id, m.from) /\ Receive(m, {Keepalive(m.id, m.from)})
    BY Zenon, <1>1 DEF ServeKeepalive, ServerOpens
  <2>2. ServerKeeps BY Zenon, <1>0, <2>1, RoamKeeps
  <2>3. next' = next /\ m.id \in DOMAIN active' BY Zenon, <2>1 DEF Roam
  <2>4. PICK replies : replies = {Keepalive(m.id, m.from)} BY Zenon
  <2>5. \A r \in replies : DatagramOK(r)' BY Zenon, <1>0, <2>2, <2>3, <2>4, KeepaliveOK DEF ServerKeeps
  <2>6. wire' \subseteq wire \cup replies BY Zenon, <2>1, <2>4, ReceiveWire
  <2> QED BY Zenon, <1>0, <2>2, <2>3, <2>5, <2>6, ServerStepOld
<1>2. CASE ~ServerOpens(m)
  <2>1. UNCHANGED vars /\ Receive(m, {}) BY Zenon, <1>2 DEF ServeKeepalive
  <2>2. ServerKeeps /\ next' = next BY Zenon, <1>0, <2>1, StutterKeeps DEF vars
  <2>3. wire' \subseteq wire BY <2>1, ReceiveWire
  <2> QED BY Zenon, <1>0, <2>2, <2>3, SilentStep
<1> QED BY Zenon, <1>1, <1>2

(* An authentic Close. *)
LEMMA ServeCloseOK ==
  ASSUME TunnelInv, NEW m \in wire, m.to = "server", ServeClose(m)
  PROVE  TunnelInv'
<1>0. SessionsInv /\ OneMeaning /\ UNCHANGED <<clientVars, answered>> /\ wire' \subseteq wire
  BY ReceiveWire DEF ServeClose, TunnelInv
<1>1. ServerKeeps /\ next' = next
  <2>1. CASE ServerOpens(m)
    <3>1. m.id \in DOMAIN active /\ Close(m.id) BY Zenon, <2>1 DEF ServeClose, ServerOpens
    <3> QED BY Zenon, <1>0, <3>1, CloseKeeps DEF Close
  <2>2. CASE ~ServerOpens(m)
    <3>1. UNCHANGED vars BY Zenon, <2>2 DEF ServeClose
    <3> QED BY Zenon, <1>0, <3>1, StutterKeeps DEF vars
  <2> QED BY Zenon, <2>1, <2>2
<1> QED BY Zenon, <1>0, <1>1, SilentStep

(* The retry timer answers the attempts still pending. *)
LEMMA ServeRetryOK ==
  ASSUME TunnelInv, ServeRetry
  PROVE  TunnelInv'
<1>0. SessionsInv /\ OneMeaning /\ UNCHANGED <<clientVars, answered>> /\ RetransmitPending
  BY Zenon DEF ServeRetry, TunnelInv
<1>1. ServerKeeps /\ \A s \in DOMAIN pending' : s \in DOMAIN pending BY Zenon, <1>0, RetryKeeps
<1>2. next' = next BY Zenon, <1>0 DEF RetransmitPending
<1>3. PICK replies :
        /\ replies = {Response(s, pending'[s], answered[pending'[s].attempt]) : s \in DOMAIN pending'}
        /\ wire' = wire \cup replies
  BY Zenon, SendWire DEF ServeRetry
<1>4. ASSUME NEW r \in replies PROVE DatagramOK(r)'
  <2>1. PICK s \in DOMAIN pending' : r = Response(s, pending'[s], answered[pending'[s].attempt])
    BY Zenon, <1>3, <1>4
  <2>2. PICK k, a : k = pending'[s].kind /\ a = pending'[s].attempt BY Zenon
  <2>3. /\ r.to = pending'[s].endpoint /\ r.type = "Response" /\ r.kind = k
        /\ r.id = s /\ r.attempt = a /\ r.init = answered[a]
    BY Zenon, <2>1, <2>2 DEF Response
  <2>4. r.to # "server"
    <3>1. TypeOK' BY Zenon, <1>1 DEF ServerKeeps, SessionsInv
    <3>2. pending'[s] \in PendingEntry BY Zenon, <2>1, <3>1 DEF TypeOK
    <3>3. pending'[s].endpoint \in Endpoints BY Zenon, <3>2 DEF PendingEntry
    <3> QED BY Zenon, <2>3, <3>3, TunnelAssumption
  <2>5. k = pending[s].kind /\ a = pending[s].attempt /\ s \in DOMAIN pending
    <3>1. pending'[s].attempt < next
      <4>1. <<s, pending'[s].phase, pending'[s].attempt>> \in Bound' BY Zenon DEF Bound
      <4>2. pending'[s].attempt \in 1..(next' - 1) BY Zenon, <1>1, <4>1 DEF ServerKeeps, OneMeaning, IsFor
      <4> QED BY <1>0, <1>2, <4>2, TableFacts
    <3> QED BY Zenon, <1>1, <2>2, <3>1 DEF ServerKeeps
  <2>6. AnswerOK(s, k, a, answered[a]) BY Zenon, <2>5 DEF TunnelInv, AnswersOK
  <2>7. PICK n : n = answered[a] BY Zenon
  <2>8. AnswerOK(s, k, a, n)'
    <3>1. Continues /\ UNCHANGED <<stage, init, mine>> BY Zenon, <1>0, <1>1 DEF ServerKeeps, clientVars
    <3> QED BY Zenon, <2>6, <2>7, <3>1, AnswerKept
  <2> QED BY Zenon, <2>3, <2>4, <2>7, <2>8 DEF DatagramOK
<1> QED BY Zenon, <1>0, <1>1, <1>2, <1>3, <1>4, ServerStepOld

-----------------------------------------------------------------------------
(* A step of the client: the tables stay, and an answer to the initiation under
   way is still judged by the session it was judged by. *)
LEMMA ClientStep ==
  ASSUME TunnelInv, UNCHANGED <<vars, answered>>, init' \in Nat, init <= init',
         stage' = "response" /\ init' = init => stage = "response" /\ mine' = mine,
         NEW sent, wire' \subseteq wire \cup sent, \A m \in sent : DatagramOK(m)', ClientOK'
  PROVE  TunnelInv'
<1> USE DEF TunnelInv
<1>1. SessionsInv' /\ OneMeaning' /\ Continues BY Zenon, StutterKeeps DEF ServerKeeps
<1>2. init \in Nat /\ UNCHANGED <<pending, next, installed>> BY Zenon DEF ClientOK, vars
<1>3. ASSUME NEW id, NEW k, NEW a, NEW n, AnswerOK(id, k, a, n) PROVE AnswerOK(id, k, a, n)'
  <2>1. \A phase : IsFor(a, id, phase) => IsFor(a, id, phase)' BY Zenon, <1>1, MeaningKept
  <2>2. n \in 0..init' /\ (n = init' => init' = init)
    BY <1>2, <1>3 DEF AnswerOK
  <2> QED BY Zenon, <1>2, <1>3, <2>1, <2>2 DEF AnswerOK
<1>4. AnswersOK'
  <2>1. ASSUME NEW s \in DOMAIN pending', NEW k, NEW a, NEW n,
               k = pending'[s].kind, a = pending'[s].attempt, n = answered'[a]
        PROVE  a \in DOMAIN answered' /\ AnswerOK(s, k, a, n)'
    BY Zenon, <1>2, <1>3, <2>1 DEF AnswersOK
  <2> QED BY Zenon, <2>1, AnswersNext
<1>5. ASSUME NEW m \in wire PROVE DatagramOK(m)'
  <2>1. DatagramOK(m) BY Zenon DEF WireOK
  <2>2. m.type = "Response" => AnswerOK(m.id, m.kind, m.attempt, m.init)'
    BY Zenon, <1>3, <2>1 DEF DatagramOK
  <2>3. m.type \in {"Initiation", "Rekey"} => m.init \in 0..init' /\ (m.init = init' => init' = init)
    <3>1. m.type \in {"Initiation", "Rekey"} => m.init \in 0..init BY Zenon, <2>1 DEF DatagramOK
    <3> QED BY <1>2, <3>1
  <2> QED BY Zenon, <1>2, <2>1, <2>2, <2>3 DEF DatagramOK
<1>6. WireOK' BY Zenon, <1>5, WireNext
<1> QED BY Zenon, <1>1, <1>4, <1>6

(* What stays true of the client's sessions when they stay. *)
LEMMA ClientStays ==
  ASSUME TunnelInv, UNCHANGED <<vars, mine>>, kind' \in Kinds, init' \in Nat, addr' \in Endpoints,
         stage' # "up" \/ stage = "up",
         stage' # "ack" \/ (stage = "ack" /\ offered' = offered)
  PROVE  ClientOK'
<1>1. UNCHANGED <<next, installed, Bound>> BY Zenon DEF vars, Bound
<1> QED BY Zenon, <1>1 DEF TunnelInv, ClientOK, IsFor

(* The datagrams a client sends are in order. *)
LEMMA SentOK ==
  ASSUME TunnelInv, UNCHANGED <<installed, mine>>, NEW r,
         \/ \E n \in 0..init' : \E c : r = Initiation(n, c)
         \/ \E n \in 0..init' : r = RekeyInitiation(n)
         \/ \E session : r = Finish(session)
         \/ r = Protected("Close")
         \/ stage = "up" /\ r = Protected("Keepalive")
  PROVE  DatagramOK(r)'
<1>0. addr \in Endpoints BY Zenon DEF TunnelInv, ClientOK
<1>1. ASSUME NEW n \in 0..init', NEW c, r = Initiation(n, c) PROVE DatagramOK(r)'
  <2>1. r.to = "server" /\ r.type = "Initiation" /\ r.from = addr /\ r.init = n BY Zenon, <1>1 DEF Initiation
  <2> QED BY Zenon, <1>0, <2>1 DEF DatagramOK
<1>2. ASSUME NEW n \in 0..init', r = RekeyInitiation(n) PROVE DatagramOK(r)'
  <2>1. /\ r.to = "server" /\ r.type = "Rekey" /\ r.from = addr /\ r.init = n
        /\ r.phase = mine.phase
    BY Zenon, <1>2 DEF RekeyInitiation
  <2> QED BY Zenon, <1>0, <2>1 DEF DatagramOK
<1>3. ASSUME NEW session, r = Finish(session) PROVE DatagramOK(r)'
  <2>1. r.to = "server" /\ r.type = "Finish" /\ r.from = addr BY Zenon, <1>3 DEF Finish
  <2> QED BY Zenon, <1>0, <2>1 DEF DatagramOK
<1>4. ASSUME r = Protected("Close") PROVE DatagramOK(r)'
  <2>1. r.to = "server" /\ r.type = "Close" /\ r.from = addr BY Zenon, <1>4 DEF Protected
  <2> QED BY Zenon, <1>0, <2>1 DEF DatagramOK
<1>5. ASSUME stage = "up", r = Protected("Keepalive") PROVE DatagramOK(r)'
  <2>1. /\ r.to = "server" /\ r.type = "Keepalive" /\ r.from = addr
        /\ r.id = mine.id /\ r.keys = mine.keys
    BY Zenon, <1>5 DEF Protected
  <2>2. <<mine.id, mine.phase, mine.keys>> \in installed BY Zenon, <1>5 DEF TunnelInv, ClientOK
  <2>3. \E b \in installed' : b[1] = r.id /\ b[3] = r.keys BY Zenon, <2>1, <2>2
  <2> QED BY Zenon, <1>0, <2>1, <2>3 DEF DatagramOK
<1> QED BY Zenon, <1>1, <1>2, <1>3, <1>4, <1>5

(* establish begins, initially or as a rekey: no answer to the new initiation
   exists yet. *)
LEMMA StartOK ==
  ASSUME TunnelInv, StartConnect \/ StartRekey
  PROVE  TunnelInv'
<1>1. init \in Nat /\ addr \in Endpoints BY Zenon DEF TunnelInv, ClientOK
<1>2. /\ stage' = "response" /\ init' = init + 1 /\ kind' \in Kinds
      /\ UNCHANGED <<mine, offered, addr, vars, answered>>
  BY Zenon DEF StartConnect, StartRekey, Kinds
<1>3. PICK sent : /\ wire' = wire \cup sent
                  /\ sent = {Initiation(init + 1, NoCookie)} \/ sent = {RekeyInitiation(init + 1)}
  BY Zenon, SendWire DEF StartConnect, StartRekey
<1>4. init + 1 \in 0..init' /\ init' \in Nat /\ init <= init' /\ init' # init BY <1>1, <1>2
<1>5. \A r \in sent : DatagramOK(r)' BY Zenon, <1>2, <1>3, <1>4, SentOK DEF vars
<1>6. ClientOK' BY Zenon, <1>1, <1>2, <1>4, ClientStays
<1> QED BY Zenon, <1>2, <1>3, <1>4, <1>5, <1>6, ClientStep

(* Where the client waits, sends or gives up, its session stays. *)
LEMMA WaitOK ==
  ASSUME TunnelInv, UNCHANGED <<vars, answered, kind, init, mine>>, addr' \in Endpoints,
         stage' \in {stage, "reconnect", "failed", "closed"},
         offered' = offered \/ (offered' = NoSession /\ stage' # "ack"),
         NEW sent, wire' \subseteq wire \cup sent, \A m \in sent : DatagramOK(m)'
  PROVE  TunnelInv'
<1>1. init \in Nat /\ kind \in Kinds BY Zenon DEF TunnelInv, ClientOK
<1>2. ClientOK' BY Zenon, <1>1, ClientStays
<1>3. init' \in Nat /\ init <= init' BY <1>1
<1>4. stage' = "response" => stage = "response" BY Zenon
<1> QED BY Zenon, <1>2, <1>3, <1>4, ClientStep

(* The deadline of a try. *)
LEMMA TimeoutOK ==
  ASSUME TunnelInv, Timeout
  PROVE  TunnelInv'
<1>0. /\ init \in Nat /\ addr \in Endpoints
      /\ UNCHANGED <<vars, answered, kind, init, mine, addr, installed>>
  BY Zenon DEF TunnelInv, ClientOK, Timeout, vars
<1>1. CASE tries < RETRY_LIMIT
  <2>1. UNCHANGED <<stage, offered>> BY Zenon, <1>1 DEF Timeout
  <2>2. PICK r : /\ wire' = wire \cup {r}
                 /\ \/ r = Finish(offered)
                    \/ r = Initiation(init, cookie)
                    \/ r = RekeyInitiation(init)
    BY Zenon, <1>1, SendWire DEF Timeout
  <2>3. init \in 0..init' BY <1>0
  <2>4. DatagramOK(r)' BY Zenon, <1>0, <2>2, <2>3, SentOK
  <2>5. PICK sent : sent = {r} BY Zenon
  <2> QED BY <1>0, <2>1, <2>2, <2>4, <2>5, WaitOK
<1>2. CASE ~(tries < RETRY_LIMIT)
  <2>1. stage' \in {"reconnect", "failed"} /\ offered' = NoSession BY Zenon, <1>2 DEF Timeout, GiveUp
  <2>2. PICK sent : sent = {} /\ wire' = wire \cup sent BY Zenon, <1>2, SendWire DEF Timeout, GiveUp
  <2> QED BY <1>0, <2>1, <2>2, WaitOK
<1> QED BY Zenon, <1>1, <1>2

(* A keepalive, a lost link and a shutdown of a connected client. *)
LEMMA ConnectedOK ==
  ASSUME TunnelInv, SendKeepalive \/ LinkLost \/ Shutdown
  PROVE  TunnelInv'
<1>0. /\ addr \in Endpoints /\ UNCHANGED <<vars, answered, kind, init, mine, addr, offered, installed>>
      /\ stage = "up" /\ stage' \in {stage, "reconnect", "closed"}
  BY Zenon DEF TunnelInv, ClientOK, SendKeepalive, LinkLost, Shutdown, vars
<1>1. PICK sent : /\ wire' = wire \cup sent
                  /\ sent = {} \/ sent = {Protected("Keepalive")} \/ sent = {Protected("Close")}
  BY Zenon, SendWire DEF SendKeepalive, LinkLost, Shutdown
<1>2. \A r \in sent : DatagramOK(r)' BY Zenon, <1>0, <1>1, SentOK
<1> QED BY Zenon, <1>0, <1>1, <1>2, WaitOK

(* A cookie is attached to the initiation under way, which is sent again. *)
LEMMA CookieOK ==
  ASSUME TunnelInv, NEW m \in wire, ReceiveCookie(m)
  PROVE  TunnelInv'
<1>0. /\ init \in Nat /\ addr \in Endpoints
      /\ UNCHANGED <<vars, answered, stage, kind, init, mine, addr, offered, installed>>
  BY Zenon DEF TunnelInv, ClientOK, ReceiveCookie, vars
<1>1. PICK sent : sent = {Initiation(init, m.cookie)} /\ wire' \subseteq wire \cup sent
  BY Zenon, ReceiveWire DEF ReceiveCookie
<1>2. init \in 0..init' BY <1>0
<1>3. \A r \in sent : DatagramOK(r)' BY Zenon, <1>0, <1>1, <1>2, SentOK
<1> QED BY Zenon, <1>0, <1>1, <1>3, WaitOK

(* A response to the initiation under way offers a session of the id and phase
   that its attempt stands for, newer than the one in use. *)
LEMMA ResponseOK ==
  ASSUME TunnelInv, NEW m \in wire, ReceiveResponse(m)
  PROVE  TunnelInv'
<1> DEFINE phase == IF kind = "Rekey" THEN mine.phase + 1 ELSE 0
<1>0. /\ init \in Nat /\ addr \in Endpoints /\ kind \in Kinds
      /\ UNCHANGED <<vars, answered, kind, init, mine, addr, installed>>
      /\ stage = "response" /\ stage' = "ack"
      /\ offered' = [id |-> m.id, keys |-> m.attempt, phase |-> phase]
  BY Zenon DEF TunnelInv, ClientOK, ReceiveResponse, IsResponse, vars
<1>1. AnswerOK(m.id, kind, m.attempt, init)
  BY Zenon DEF TunnelInv, WireOK, DatagramOK, ReceiveResponse, IsResponse
<1>2. IsFor(m.attempt, m.id, phase) /\ m.attempt > mine.keys
  BY Zenon, <1>0, <1>1 DEF AnswerOK, Kinds
<1>3. offered'.id = m.id /\ offered'.keys = m.attempt /\ offered'.phase = phase BY Zenon, <1>0
<1>4. ClientOK'
  <2> HIDE DEF phase
  <2>1. UNCHANGED <<next, installed, Bound>> BY Zenon, <1>0 DEF vars, Bound
  <2>2. IsFor(offered.keys, offered.id, offered.phase)' BY Zenon, <1>2, <1>3, <2>1 DEF IsFor
  <2> QED BY Zenon, <1>0, <1>2, <1>3, <2>1, <2>2 DEF TunnelInv, ClientOK
<1>5. PICK sent : /\ sent = {Finish([id |-> m.id, keys |-> m.attempt])}
                  /\ wire' \subseteq wire \cup sent
  BY Zenon, ReceiveWire DEF ReceiveResponse
<1>6. \A r \in sent : DatagramOK(r)' BY Zenon, <1>0, <1>5, SentOK
<1> QED BY <1>0, <1>4, <1>5, <1>6, ClientStep

(* A keepalive under the offered keys: only the server can have sent it, so it
   has installed these keys, and for the phase the client expects. *)
LEMMA AckOK ==
  ASSUME TunnelInv, NEW m \in wire, ReceiveAck(m)
  PROVE  TunnelInv' /\ mine'.keys \in Nat /\ mine'.keys > mine.keys
<1>0. /\ init \in Nat /\ addr \in Endpoints /\ kind \in Kinds
      /\ UNCHANGED <<vars, answered, kind, init, addr>>
      /\ stage = "ack" /\ stage' = "up" /\ mine' = offered
      /\ m.type = "Keepalive" /\ m.id = offered.id /\ m.keys = offered.keys
  BY Zenon DEF TunnelInv, ClientOK, ReceiveAck, Opens
<1>1. IsFor(offered.keys, offered.id, offered.phase) /\ offered.keys > mine.keys
  BY Zenon, <1>0 DEF TunnelInv, ClientOK
<1>2. PICK b \in installed : b[1] = offered.id /\ b[3] = offered.keys
  BY Zenon, <1>0 DEF TunnelInv, WireOK, DatagramOK
<1>3. <<offered.id, offered.phase, offered.keys>> \in installed BY Zenon, <1>1, <1>2 DEF IsFor, Bound
<1>4. offered # NoSession /\ offered.keys \in Nat
  <2>1. mine.keys \in Nat /\ next \in Nat BY Zenon, MineOld, TableFacts DEF TunnelInv
  <2>2. offered.keys \in 1..(next - 1) BY Zenon, <1>1 DEF IsFor
  <2> QED BY <2>1, <2>2 DEF NoSession
<1>5. ClientOK' BY Zenon, <1>0, <1>3, <1>4 DEF ClientOK, vars
<1>6. PICK sent : sent = {} /\ wire' \subseteq wire \cup sent BY Zenon, ReceiveWire DEF ReceiveAck
<1>7. TunnelInv'
  <2>1. UNCHANGED <<vars, answered>> /\ init' \in Nat /\ init <= init' /\ stage' # "response"
    BY <1>0
  <2>2. \A d \in sent : DatagramOK(d)' BY Zenon, <1>6
  <2> QED BY Zenon, <1>5, <1>6, <2>1, <2>2, ClientStep
<1> QED BY Zenon, <1>0, <1>1, <1>4, <1>7

(* What the client reads without an effect on its sessions, what never arrives,
   and a change of its address. *)
LEMMA QuietOK ==
  ASSUME TunnelInv,
         \/ \E m \in wire : ReceiveKeepalive(m) \/ Discard(m) \/ Misdirected(m) \/ Lose(m)
         \/ \E e \in Endpoints : Rebind(e)
  PROVE  TunnelInv' /\ mine' = mine
<1>1. /\ UNCHANGED <<vars, answered, kind, init, mine, stage, offered>>
      /\ addr' \in Endpoints
  BY Zenon DEF TunnelInv, ClientOK, ReceiveKeepalive, Discard, Misdirected, Lose, Rebind, Fault, clientVars
<1>2. PICK sent : sent = {} /\ wire' \subseteq wire \cup sent
  BY Zenon, ReceiveWire DEF ReceiveKeepalive, Discard, Misdirected, Lose, Rebind
<1> QED BY <1>1, <1>2, WaitOK

(* The server restarts. *)
LEMMA CrashOK ==
  ASSUME TunnelInv, ServerCrash
  PROVE  TunnelInv' /\ mine' = mine
<1>1. ServerKeeps BY Zenon, CrashKeeps DEF TunnelInv
<1>2. UNCHANGED <<clientVars, answered>> /\ next' = next /\ wire' \subseteq wire /\ mine' = mine
  BY Zenon DEF ServerCrash, Fault, clientVars
<1> QED BY Zenon, <1>1, <1>2, SilentStep

-----------------------------------------------------------------------------
(* The client before it connects, and a server with empty tables. *)
LEMMA TunnelInitOK == TunnelInit => TunnelInv
<1> SUFFICES ASSUME TunnelInit PROVE TunnelInv BY Zenon
<1>1. SessionsInv BY Zenon, InitEstablishes DEF TunnelInit
<1>2. DOMAIN pending = {} /\ DOMAIN active = {} /\ installed = {} /\ wire = {}
  BY Zenon DEF TunnelInit, Init
<1>3. Bound = {} BY Zenon, <1>2 DEF Bound
<1>4. OneMeaning /\ AnswersOK /\ WireOK BY Zenon, <1>2, <1>3 DEF OneMeaning, AnswersOK, WireOK
<1>5. ClientOK BY Zenon DEF TunnelInit, ClientOK, Kinds
<1> QED BY Zenon, <1>1, <1>4, <1>5 DEF TunnelInv

(* Every step of the client, the server and the network keeps the invariant,
   and none takes the client back to older keys. *)
LEMMA TunnelNextOK ==
  ASSUME TunnelInv, [TunnelNext]_allVars
  PROVE  TunnelInv' /\ mine'.keys >= mine.keys
<1>0. mine.keys \in Nat BY Zenon, MineOld
<1>1. mine' = mine => mine'.keys >= mine.keys BY <1>0
<1>2. CASE StartConnect \/ StartRekey
  BY Zenon, <1>1, <1>2, StartOK DEF StartConnect, StartRekey
<1>3. CASE Timeout BY Zenon, <1>1, <1>3, TimeoutOK DEF Timeout
<1>4. CASE SendKeepalive \/ LinkLost \/ Shutdown
  BY Zenon, <1>1, <1>4, ConnectedOK DEF SendKeepalive, LinkLost, Shutdown
<1>5. ASSUME NEW m \in wire, ReceiveCookie(m) PROVE TunnelInv' /\ mine'.keys >= mine.keys
  BY Zenon, <1>1, <1>5, CookieOK DEF ReceiveCookie
<1>6. ASSUME NEW m \in wire, ReceiveResponse(m) PROVE TunnelInv' /\ mine'.keys >= mine.keys
  BY Zenon, <1>1, <1>6, ResponseOK DEF ReceiveResponse
<1>7. ASSUME NEW m \in wire, ReceiveAck(m) PROVE TunnelInv' /\ mine'.keys >= mine.keys
  <2>1. TunnelInv' /\ mine'.keys \in Nat /\ mine'.keys > mine.keys BY Zenon, <1>7, AckOK
  <2> QED BY <1>0, <2>1
<1>8. CASE \/ \E m \in wire : ReceiveKeepalive(m) \/ Discard(m) \/ Misdirected(m) \/ Lose(m)
           \/ \E e \in Endpoints : Rebind(e)
  BY Zenon, <1>1, <1>8, QuietOK
<1>9. CASE ServerCrash BY Zenon, <1>1, <1>9, CrashOK
<1>10. ASSUME NEW m \in wire, m.to = "server",
              \/ ServeInitiation(m) \/ ServeRekey(m) \/ ServeFinish(m)
              \/ ServeKeepalive(m) \/ ServeClose(m)
       PROVE  TunnelInv' /\ mine'.keys >= mine.keys
  <2>1. mine' = mine
    BY Zenon, <1>10 DEF ServeInitiation, ServeRekey, ServeFinish, ServeKeepalive, ServeClose, clientVars
  <2>2. TunnelInv'
    BY Zenon, <1>10, ServeInitiationOK, ServeRekeyOK, ServeFinishOK, ServeKeepaliveOK, ServeCloseOK
  <2> QED BY Zenon, <1>1, <2>1, <2>2
<1>11. CASE ServeRetry
  <2>1. mine' = mine BY Zenon, <1>11 DEF ServeRetry, clientVars
  <2> QED BY Zenon, <1>1, <1>11, <2>1, ServeRetryOK
<1>12. CASE UNCHANGED allVars
  <2>1. ServerKeeps BY Zenon, <1>12, StutterKeeps DEF TunnelInv, allVars
  <2>2. UNCHANGED <<clientVars, answered>> /\ next' = next /\ wire' \subseteq wire /\ mine' = mine
    BY Zenon, <1>12 DEF allVars, vars, clientVars, netVars
  <2> QED BY Zenon, <1>1, <2>1, <2>2, SilentStep
<1> QED
  BY Zenon, <1>2, <1>3, <1>4, <1>5, <1>6, <1>7, <1>8, <1>9, <1>10, <1>11, <1>12
     DEF TunnelNext, ClientReceives, ServerReceives, Lost, Faults

(* The inductive invariant of the tunnel: the server's tables stay consistent
   under any loss, duplication, delay, roaming and crash, and what is in flight
   means the same to both sides. *)
THEOREM TunnelInvariant == TunnelSpec => []TunnelInv
<1>1. TunnelInv /\ [TunnelNext]_allVars => TunnelInv' BY Zenon, TunnelNextOK
<1> QED BY <1>1, TunnelInitOK, PTL DEF TunnelSpec

(* A client whose establish returned holds keys the server installed for the
   same session id and key phase. *)
THEOREM TunnelAgrees == TunnelSpec => []Agreement
<1>1. TunnelInv => Agreement BY Zenon DEF TunnelInv, ClientOK, Agreement
<1> QED BY <1>1, TunnelInvariant, PTL

(* No delayed or repeated datagram, and no restart of the server, takes the
   client's data plane back to the keys of an earlier attempt. *)
THEOREM ClientAdvances == TunnelSpec => ClientKeysAdvance
<1>1. TunnelInv /\ [TunnelNext]_allVars => mine'.keys >= mine.keys BY Zenon, TunnelNextOK
<1> QED BY <1>1, TunnelInvariant, PTL DEF TunnelSpec, ClientKeysAdvance
=============================================================================
