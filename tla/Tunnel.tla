-------------------------------- MODULE Tunnel --------------------------------
(***************************************************************************)
(* A client and the server over an unreliable network: the client's        *)
(* establish (handshake.rs of rvpn-client), its data plane and reconnect   *)
(* loop (tunnel.rs, main.rs), the datagrams the two exchange, and the      *)
(* server of module ServerSessions.                                        *)
(*                                                                         *)
(* "wire" holds the datagrams in flight.  Receiving one takes it out.      *)
(* Faults are bounded by MAX_FAULTS: losing a datagram, delivering one and *)
(* keeping a copy, a timer that fires while datagrams are still in flight, *)
(* a change of the client's source address, and a crash of the server with *)
(* the loss of all its tables.                                             *)
(*                                                                         *)
(* Sequence numbers and grace periods are module ProtectedSession's: here  *)
(* a session opens a packet when the keys match, which the number of the   *)
(* handshake attempt stands for.                                           *)
(***************************************************************************)
EXTENDS ServerSessions

CONSTANTS
  Me,           \* the client's identity
  MAX_FAULTS,   \* bound: faults of the network and crashes
  MAX_REKEYS,   \* bound: rekeys the client starts
  MAX_INITS     \* bound: handshakes the client starts

ASSUME TunnelAssumption ==
  /\ Me \in Peers
  /\ "server" \notin Endpoints
  /\ {MAX_FAULTS, MAX_REKEYS, MAX_INITS} \subseteq Nat

VARIABLES
  stage,     \* where the client is: "start", "response", "ack", "up",
             \* "reconnect", "failed", "closed"
  kind,      \* kind of the handshake under way
  init,      \* number of the client's initiation
  cookie,    \* cookie attached to it
  tries,     \* sends in this stage of the handshake
  mine,      \* session the data plane uses
  offered,   \* session establish waits to see acknowledged
  waiting,   \* a keepalive went out and nothing authentic came back yet
  addr,      \* the client's source address
  wire,      \* datagrams in flight
  answered,  \* attempt -> initiation it answers
  secret,    \* the server's CookieKey, new with every process
  faults, rekeys

clientVars == <<stage, kind, init, cookie, tries, mine, offered, waiting, addr>>
netVars == <<wire, answered, secret, faults, rekeys>>
allVars == <<vars, clientVars, netVars>>

NoCookie == <<>>
NoSession == [id |-> 0, phase |-> 0, keys |-> 0]

-----------------------------------------------------------------------------
(* Receiving m, answered by the datagrams of "replies". *)
Receive(m, replies) ==
  \/ /\ wire' = (wire \ {m}) \cup replies
     /\ UNCHANGED faults
  \/ /\ faults < MAX_FAULTS
     /\ faults' = faults + 1
     /\ wire' = wire \cup replies

Send(messages) == wire' = wire \cup messages /\ UNCHANGED faults

(* A timer fires, sending "messages".  Timers are longer than a round trip, so
   one that overtakes a datagram in flight is a fault: the datagram is late. *)
Fires(messages) ==
  /\ wire' = wire \cup messages
  /\ IF wire = {} THEN UNCHANGED faults
     ELSE faults < MAX_FAULTS /\ faults' = faults + 1

Initiation(n, c) ==
  [to |-> "server", type |-> "Initiation", from |-> addr, init |-> n, cookie |-> c]

RekeyInitiation(n) ==
  [to |-> "server", type |-> "Rekey", from |-> addr, init |-> n,
   id |-> mine.id, phase |-> mine.phase]

Finish(session) ==
  [to |-> "server", type |-> "Finish", from |-> addr, kind |-> kind,
   id |-> session.id, attempt |-> session.keys]

Protected(type) ==
  [to |-> "server", type |-> type, from |-> addr,
   id |-> mine.id, phase |-> mine.phase, keys |-> mine.keys]

-----------------------------------------------------------------------------
(* establish: start an initial handshake, on startup or from reconnect. *)
StartConnect ==
  /\ stage \in {"start", "reconnect"}
  /\ init < MAX_INITS
  /\ stage' = "response" /\ kind' = "Handshake"
  /\ init' = init + 1 /\ cookie' = NoCookie /\ tries' = 1
  /\ Send({Initiation(init + 1, NoCookie)})
  /\ UNCHANGED <<mine, offered, waiting, addr, vars, answered, rekeys, secret>>

(* establish with the old session: the rekey timer, the packet limit or the
   server's request; the data plane stops while it runs. *)
StartRekey ==
  /\ stage = "up"
  /\ rekeys < MAX_REKEYS /\ init < MAX_INITS
  /\ rekeys' = rekeys + 1
  /\ stage' = "response" /\ kind' = "Rekey"
  /\ init' = init + 1 /\ cookie' = NoCookie /\ tries' = 1
  /\ Send({RekeyInitiation(init + 1)})
  /\ UNCHANGED <<mine, offered, waiting, addr, vars, answered, secret>>

(* A cookie reply: attach it and resend at once, at no cost in tries. *)
IsCookie(m) == stage = "response" /\ kind = "Handshake" /\ m.type = "CookieReply"

ReceiveCookie(m) ==
  /\ IsCookie(m)
  /\ cookie' = m.cookie
  /\ Receive(m, {Initiation(init, m.cookie)})
  /\ UNCHANGED <<stage, kind, init, tries, mine, offered, waiting, addr, vars, answered, rekeys, secret>>

(* Mutant of IsResponse: a response to an earlier initiation will do. *)
IsStaleResponse(m) ==
  /\ stage = "response"
  /\ m.type = "Response"
  /\ m.kind = kind
  /\ kind = "Rekey" => m.id = mine.id
  /\ m.source = Me

(* A response to this initiation, of this handshake's kind and for the session
   being rekeyed, signed with the server key this client pins.  Every entry of
   peers has a local_identity_seed, and they are taken to be different: the
   answers to the trials of other entries do not verify. *)
IsResponse(m) ==
  /\ stage = "response"
  /\ m.type = "Response"
  /\ m.kind = kind
  /\ kind = "Rekey" => m.id = mine.id
  /\ m.init = init /\ m.source = Me

ReceiveResponse(m) ==
  /\ IsResponse(m)
  /\ stage' = "ack" /\ tries' = 1
  /\ offered' = [id |-> m.id, keys |-> m.attempt,
                 phase |-> IF kind = "Rekey" THEN mine.phase + 1 ELSE 0]
  /\ Receive(m, {Finish([id |-> m.id, keys |-> m.attempt])})
  /\ UNCHANGED <<kind, init, cookie, mine, waiting, addr, vars, answered, rekeys, secret>>

(* Mutant of Opens: the session id is enough. *)
OpensAnyKeys(session, m) == m.type = "Keepalive" /\ m.id = session.id

(* A keepalive that opens under the offered session: establish returns. *)
Opens(session, m) == m.type = "Keepalive" /\ m.id = session.id /\ m.keys = session.keys

ReceiveAck(m) ==
  /\ stage = "ack" /\ Opens(offered, m)
  /\ stage' = "up" /\ mine' = offered /\ offered' = NoSession /\ waiting' = FALSE
  /\ Receive(m, {})
  /\ UNCHANGED <<kind, init, cookie, tries, addr, vars, answered, rekeys, secret>>

(* A keepalive that opens under the session in use: last_rx moves. *)
ReceiveKeepalive(m) ==
  /\ stage = "up" /\ Opens(mine, m)
  /\ waiting' = FALSE
  /\ Receive(m, {})
  /\ UNCHANGED <<stage, kind, init, cookie, tries, mine, offered, addr, vars, answered, rekeys, secret>>

(* Everything else is read and dropped. *)
Discard(m) ==
  /\ ~IsCookie(m) /\ ~IsResponse(m)
  /\ ~(stage = "ack" /\ Opens(offered, m)) /\ ~(stage = "up" /\ Opens(mine, m))
  /\ Receive(m, {})
  /\ UNCHANGED <<clientVars, vars, answered, rekeys, secret>>

(* The deadline of one try passes: send again, or give up when the tries are
   used up.  Giving up ends a client that never connected; later it leads to
   reconnect, also when the rekey of a live session failed.  The deadline
   (retry_jitter_ms) may be shorter than the way to the server and back; then
   every try is such a fault, and the client does not connect. *)
GiveUp ==
  /\ stage' = IF kind = "Handshake" /\ mine = NoSession THEN "failed" ELSE "reconnect"
  /\ offered' = NoSession
  /\ Fires({})
  /\ UNCHANGED tries

Timeout ==
  /\ stage \in {"response", "ack"}
  /\ IF tries < RETRY_LIMIT
       THEN /\ tries' = tries + 1
            /\ Fires({CASE stage = "ack" -> Finish(offered)
                        [] stage # "ack" /\ kind = "Handshake" -> Initiation(init, cookie)
                        [] OTHER -> RekeyInitiation(init)})
            /\ UNCHANGED <<stage, offered>>
       ELSE GiveUp
  /\ UNCHANGED <<kind, init, cookie, mine, waiting, addr, vars, answered, rekeys, secret>>

(* Mutant of SendKeepalive: what the client sends counts as a sign of life. *)
SendKeepaliveAlive ==
  /\ stage = "up"
  /\ Fires({Protected("Keepalive")})
  /\ UNCHANGED <<stage, kind, init, cookie, tries, mine, offered, waiting, addr, vars, answered, rekeys, secret>>

SendKeepalive ==
  /\ stage = "up"
  /\ waiting' = TRUE
  /\ Fires({Protected("Keepalive")})
  /\ UNCHANGED <<stage, kind, init, cookie, tries, mine, offered, addr, vars, answered, rekeys, secret>>

(* The liveness check: nothing authentic for the whole timeout. *)
LinkLost ==
  /\ stage = "up" /\ waiting
  /\ stage' = "reconnect"
  /\ Fires({})
  /\ UNCHANGED <<kind, init, cookie, tries, mine, offered, waiting, addr, vars, answered, rekeys, secret>>

(* Shutdown of a connected client. *)
Shutdown ==
  /\ stage = "up"
  /\ stage' = "closed"
  /\ Send({Protected("Close")})
  /\ UNCHANGED <<kind, init, cookie, tries, mine, offered, waiting, addr, vars, answered, rekeys, secret>>

-----------------------------------------------------------------------------
(* The server's answer to a pending attempt: sent when the attempt begins and
   again by every turn of the retry timer. *)
Response(s, p, n) ==
  [to |-> p.endpoint, type |-> "Response", kind |-> p.kind, id |-> s,
   attempt |-> p.attempt, init |-> n, source |-> p.source]

Keepalive(s, e) ==
  [to |-> e, type |-> "Keepalive", id |-> s, keys |-> active'[s].keys]

(* CookieKey: a cookie is good for the address and the initiation it was minted
   for, until the server is restarted.  That it is good for a minute or two is
   not modelled: a handshake is shorter. *)
Mint(e, n) == <<secret, e, n>>

(* challenge_or_admit, then begin_initial.  A challenge the limiter holds back
   is like one that is lost. *)
ServeInitiation(m) ==
  LET minted == Mint(m.from, m.init)
  IN  /\ m.type = "Initiation"
      /\ IF m.cookie # minted
           THEN /\ Receive(m, {[to |-> m.from, type |-> "CookieReply", cookie |-> minted]})
                /\ UNCHANGED <<vars, answered>>
           ELSE IF ~AdmitsInitial(m.from)
           THEN Receive(m, {}) /\ UNCHANGED <<vars, answered>>
           ELSE /\ BeginInitial(m.from)
                /\ answered' = Merge([h \in next..(next' - 1) |-> m.init], answered)
                /\ Receive(m, {Response(h, pending'[h], m.init) : h \in next..(next' - 1)})
      /\ UNCHANGED <<clientVars, rekeys, secret>>

ServeRekey(m) ==
  /\ m.type = "Rekey"
  /\ IF AdmitsRekey(m.id, m.from, m.phase)
       THEN /\ BeginRekey(m.id, m.from, m.phase)
            /\ answered' = Merge([h \in {next} |-> m.init], answered)
            /\ Receive(m, {Response(m.id, pending'[m.id], m.init)})
       ELSE Receive(m, {}) /\ UNCHANGED <<vars, answered>>
  /\ UNCHANGED <<clientVars, rekeys, secret>>

(* A Finish, first or repeated, is acknowledged when its session is active at
   the sender's address. *)
ServeFinish(m) ==
  /\ m.type = "Finish"
  /\ FinishPending(m.id, m.from, m.kind, m.attempt, Me)
  /\ Receive(m, IF m.id \in DOMAIN active' /\ active'[m.id].endpoint = m.from
                THEN {Keepalive(m.id, m.from)} ELSE {})
  /\ UNCHANGED <<clientVars, answered, rekeys, secret>>

(* The session opens a packet sealed under its keys, or under those of its
   previous phase while the grace period lasts. *)
ServerOpens(m) ==
  /\ m.id \in DOMAIN active
  /\ \/ m.keys = active[m.id].keys
     \/ m.phase + 1 = active[m.id].phase /\ <<m.id, m.phase, m.keys>> \in installed

ServeKeepalive(m) ==
  /\ m.type = "Keepalive"
  /\ IF ServerOpens(m)
       THEN Roam(m.id, m.from) /\ Receive(m, {Keepalive(m.id, m.from)})
       ELSE UNCHANGED vars /\ Receive(m, {})
  /\ UNCHANGED <<clientVars, answered, rekeys, secret>>

ServeClose(m) ==
  /\ m.type = "Close"
  /\ IF ServerOpens(m) THEN Close(m.id) ELSE UNCHANGED vars
  /\ Receive(m, {})
  /\ UNCHANGED <<clientVars, answered, rekeys, secret>>

ServeRetry ==
  /\ RetransmitPending
  /\ Fires({Response(s, pending'[s], answered[pending'[s].attempt]) : s \in DOMAIN pending'})
  /\ UNCHANGED <<clientVars, answered, rekeys, secret>>

-----------------------------------------------------------------------------
Fault ==
  /\ faults < MAX_FAULTS
  /\ faults' = faults + 1
  /\ UNCHANGED <<answered, rekeys>>

Lose(m) ==
  /\ Fault
  /\ wire' = wire \ {m}
  /\ UNCHANGED <<clientVars, vars, secret>>

(* The client's source address changes; what is in flight to the old one will
   not reach it. *)
Rebind(e) ==
  /\ Fault
  /\ e # addr
  /\ addr' = e
  /\ wire' = {m \in wire : m.to # addr}
  /\ UNCHANGED <<stage, kind, init, cookie, tries, mine, offered, waiting, vars, secret>>

(* The server process dies and starts again with empty tables. *)
ServerCrash ==
  /\ Fault
  /\ pending' = Without(pending, DOMAIN pending)
  /\ per_source' = [e \in Endpoints |-> 0]
  /\ DropSessions(DOMAIN active)
  /\ secret' = secret + 1
  /\ UNCHANGED <<config, next, installed, repeated, clientVars, wire>>

(* Replies the server sent to an address the client has left since. *)
Misdirected(m) ==
  /\ m.to \notin {"server", addr}
  /\ Receive(m, {})
  /\ UNCHANGED <<clientVars, vars, answered, rekeys, secret>>

TunnelInit ==
  /\ Init
  /\ stage = "start" /\ kind = "Handshake" /\ init = 0 /\ cookie = NoCookie /\ tries = 0
  /\ mine = NoSession /\ offered = NoSession /\ waiting = FALSE
  /\ addr \in Endpoints
  /\ wire = {} /\ answered = [h \in {} |-> 0] /\ secret = 0
  /\ faults = 0 /\ rekeys = 0

ClientReceives ==
  \E m \in wire : m.to = addr /\ (\/ ReceiveCookie(m) \/ ReceiveResponse(m)
                                  \/ ReceiveAck(m) \/ ReceiveKeepalive(m) \/ Discard(m))

ServerReceives ==
  \E m \in wire : m.to = "server" /\ (\/ ServeInitiation(m) \/ ServeRekey(m) \/ ServeFinish(m)
                                      \/ ServeKeepalive(m) \/ ServeClose(m))

Lost == \E m \in wire : Misdirected(m)

Faults ==
  \/ \E m \in wire : Lose(m)
  \/ \E e \in Endpoints : Rebind(e)
  \/ ServerCrash

TunnelNext ==
  \/ StartConnect \/ StartRekey \/ Timeout \/ SendKeepalive \/ LinkLost \/ Shutdown
  \/ ClientReceives \/ ServerReceives \/ ServeRetry
  \/ Lost \/ Faults

TunnelSpec == TunnelInit /\ [][TunnelNext]_allVars

(* The two event loops keep running, timers fire, and the network delivers what
   it does not lose.  The liveness deadline counts from the last authentic
   packet, so sending further keepalives does not put it off: strong fairness. *)
FairTunnelSpec ==
  /\ TunnelSpec
  /\ WF_allVars(StartConnect) /\ WF_allVars(Timeout) /\ WF_allVars(SendKeepalive)
  /\ SF_allVars(LinkLost) /\ WF_allVars(ClientReceives) /\ WF_allVars(ServerReceives)
  /\ WF_allVars(ServeRetry) /\ WF_allVars(Lost)

-----------------------------------------------------------------------------
(* The inductive invariant of the proofs.  The number of an attempt stands for
   one session id and one key phase: those of the pending attempt, and of the
   keys it left installed. *)
Bound == installed \cup {<<s, pending[s].phase, pending[s].attempt>> : s \in DOMAIN pending}

IsFor(attempt, id, phase) ==
  /\ attempt \in 1..(next - 1)
  /\ \A b \in Bound : b[3] = attempt => b = <<id, phase, attempt>>

OneMeaning ==
  /\ \A b \in Bound : IsFor(b[3], b[1], b[2])
  /\ \A s \in DOMAIN active : <<s, active[s].phase, active[s].keys>> \in installed

(* What an answer to initiation n may make the client believe.  An answer to
   the initiation under way is newer than the session in use, and one to a
   rekey is for the phase right after it. *)
AnswerOK(id, answerKind, attempt, n) ==
  /\ attempt \in 1..(next - 1) /\ n \in 0..init
  /\ answerKind = "Handshake" => IsFor(attempt, id, 0)
  /\ stage = "response" /\ n = init =>
       /\ attempt > mine.keys
       /\ answerKind = "Rekey" => IsFor(attempt, id, mine.phase + 1)

AnswersOK ==
  \A s \in DOMAIN pending :
    /\ pending[s].attempt \in DOMAIN answered
    /\ AnswerOK(s, pending[s].kind, pending[s].attempt, answered[pending[s].attempt])

DatagramOK(m) ==
  /\ m.to = "server" => m.from \in Endpoints
  /\ m.type \in {"Initiation", "Rekey"} => m.init \in 0..init
  /\ m.type = "Rekey" /\ stage = "response" /\ m.init = init => m.phase = mine.phase
  /\ m.type = "Response" => AnswerOK(m.id, m.kind, m.attempt, m.init)
  /\ m.type = "Keepalive" => \E b \in installed : b[1] = m.id /\ b[3] = m.keys

WireOK == \A m \in wire : DatagramOK(m)

ClientOK ==
  /\ kind \in Kinds /\ init \in Nat /\ addr \in Endpoints
  /\ mine = NoSession \/ <<mine.id, mine.phase, mine.keys>> \in installed
  /\ stage = "up" => mine # NoSession
  /\ stage = "ack" => IsFor(offered.keys, offered.id, offered.phase) /\ offered.keys > mine.keys

TunnelInv == SessionsInv /\ OneMeaning /\ AnswersOK /\ WireOK /\ ClientOK

-----------------------------------------------------------------------------
(* A client whose establish returned shares its keys with the server: the
   server did establish that session, with that phase and those keys. *)
Agreement ==
  stage = "up" => <<mine.id, mine.phase, mine.keys>> \in installed

(* The client never goes back: the keys of its data plane are those of a later
   attempt, or the same, after every step. *)
ClientKeysAdvance == [][mine'.keys >= mine.keys]_allVars

Synced ==
  /\ stage = "up"
  /\ mine.id \in DOMAIN active /\ active[mine.id].keys = mine.keys

(* "if the session dies (server restart, network change, silent link) keep the
   interface up and re-handshake until it comes back or the user stops us":
   once faults stop, the client and the server end up sharing a session. *)
Recovers == <>[](Synced \/ stage \in {"closed", "failed"})
=============================================================================
