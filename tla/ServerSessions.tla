---------------------------- MODULE ServerSessions ----------------------------
(***************************************************************************)
(* The session tables of rvpn-server and the handlers that change them:    *)
(* pending handshakes with their per-source counters (state.rs), active    *)
(* sessions, and the sessions registered with the router.  The event loop  *)
(* of tunnel.rs runs one handler at a time, so each handler is one action. *)
(*                                                                         *)
(* Datagrams come from an arbitrary network: any endpoint may present any  *)
(* packet at any time, so loss, duplication, delay and reordering are all  *)
(* covered.  Cryptography is abstract.  A handshake attempt the server     *)
(* answers has a number, fresh because its ephemeral key and random are;   *)
(* a Finish packet names the attempt it answers and the peer whose key     *)
(* signed it.  The number of an initial attempt is also its session id,    *)
(* and the number of the attempt a session came from stands for its keys.  *)
(*                                                                         *)
(* Whether an established session opens a packet is an input here; module  *)
(* ProtectedSession models seal and open.                                  *)
(***************************************************************************)
EXTENDS Integers, Sequences, FiniteSets

CONSTANTS
  Peers,            \* peers with a pinned key
  CertPeers,        \* certificate subjects the authority has signed
  Endpoints,        \* UDP source addresses
  Configs,          \* contents the configuration file may have
  InitialConfig,    \* its content at startup
  MAX_PENDING,      \* MAX_PENDING_HANDSHAKES
  MIN_PER_SOURCE,   \* MIN_PENDING_HANDSHAKES_PER_SOURCE
  RETRY_LIMIT,      \* handshake.retry_limit
  MAX_HS            \* bound: handshake attempts the server answers

CA == "certificate authority"
Identities == Peers \cup CertPeers
Garbage == 0
Attempts == 1..MAX_HS
Kinds == {"Handshake", "Rekey"}

ASSUME BoundsAssumption ==
  /\ MAX_PENDING \in Nat
  /\ MIN_PER_SOURCE \in Nat
  /\ RETRY_LIMIT \in Nat \ {0}
  /\ MAX_HS \in Nat

(* A configuration, reduced to what these tables depend on: the pinned peers
   in file order, whether there is a certificate authority, the subjects it
   admits (not revoked, with effective allowed_ips), and the receive limit. *)
ASSUME ConfigsAssumption ==
  /\ InitialConfig \in Configs
  /\ Configs \subseteq [peers : Seq(Peers), ca : BOOLEAN,
                        admitted : SUBSET CertPeers, rx : Nat]

ASSUME NamesAssumption ==
  /\ Peers \cap CertPeers = {}
  /\ CA \notin Identities
  /\ IsFiniteSet(Endpoints)

VARIABLES
  pending,      \* session id -> attempt awaiting its Finish
  per_source,   \* endpoint -> pending attempts counted for it
  active,       \* session id -> ActivePeer
  registered,   \* session id -> identity known to the router
  config,       \* configuration in force
  next,         \* number of the next attempt
  installed,    \* history: <<session id, key phase, keys>> established so far
  repeated      \* history: an id and phase were given keys a second time

vars == <<pending, per_source, active, registered, config, next, installed, repeated>>

Without(f, S) == [x \in DOMAIN f \ S |-> f[x]]
Merge(f, g) == [x \in DOMAIN f \cup DOMAIN g |-> IF x \in DOMAIN f THEN f[x] ELSE g[x]]
Max2(a, b) == IF a >= b THEN a ELSE b
Min2(a, b) == IF a <= b THEN a ELSE b

From(table, e) == {s \in DOMAIN table : table[s].endpoint = e}

-----------------------------------------------------------------------------
(* PendingHandshakes: an entry's endpoint is counted when it is inserted and
   uncounted, saturating at zero, when it is removed. *)
Counted(new) == [e \in Endpoints |-> per_source[e] + Cardinality(From(new, e))]
Uncounted(S) ==
  [e \in Endpoints |->
     Max2(0, per_source[e] - Cardinality({s \in S : pending[s].endpoint = e}))]

InsertPending(new) ==
  /\ pending' = Merge(new, pending)
  /\ per_source' = Counted(new)

(* Mutant of RemovePending: the counter is forgotten. *)
RemovePendingCounted(S) == pending' = Without(pending, S) /\ UNCHANGED per_source

RemovePending(S) ==
  /\ pending' = Without(pending, S)
  /\ per_source' = Uncounted(S)

-----------------------------------------------------------------------------
(* The identities an initiation is tried against, in the order of the trial. *)
Trials(c) == c.peers \o (IF c.ca THEN <<CA>> ELSE <<>>)

PerSourceLimit(c) == Max2(MIN_PER_SOURCE, 2 * Len(Trials(c)))

AdmitsInitial(e) ==
  /\ Cardinality(DOMAIN pending) < MAX_PENDING
  /\ per_source[e] < PerSourceLimit(config)

(* A cookie-bearing initiation: one pending attempt per configured identity,
   stopping when the source has reached its quota. *)
Tried(e) == Min2(PerSourceLimit(config) - per_source[e], Len(Trials(config)))

NewAttempts(e) ==
  [h \in next..(next + Tried(e) - 1) |->
     [source |-> Trials(config)[h - next + 1], admitted |-> config.admitted,
      endpoint |-> e, kind |-> "Handshake", phase |-> 0, attempt |-> h, attempts |-> 1]]

BeginInitial(e) ==
  /\ AdmitsInitial(e)
  /\ next + Tried(e) - 1 <= MAX_HS
  /\ InsertPending(NewAttempts(e))
  /\ next' = next + Tried(e)
  /\ UNCHANGED <<active, registered, config, installed, repeated>>

(* Mutant of AdmitsRekey: rekeys do not count against the quota. *)
AdmitsRekeyBeyondQuota(s, e, phase) ==
  /\ s \in DOMAIN active
  /\ active[s].endpoint = e
  /\ active[s].phase = phase
  /\ s \notin DOMAIN pending

(* A rekey initiation: accepted from the session's endpoint, for its current
   phase, unless an attempt for the session is pending already. *)
AdmitsRekey(s, e, phase) ==
  /\ s \in DOMAIN active
  /\ active[s].endpoint = e
  /\ active[s].phase = phase
  /\ s \notin DOMAIN pending
  /\ per_source[e] < PerSourceLimit(config)

NewRekey(s, e) ==
  [x \in {s} |->
     [source |-> active[s].identity, admitted |-> config.admitted, endpoint |-> e,
      kind |-> "Rekey", phase |-> active[s].phase + 1, attempt |-> next, attempts |-> 1]]

BeginRekey(s, e, phase) ==
  /\ AdmitsRekey(s, e, phase)
  /\ next <= MAX_HS
  /\ InsertPending(NewRekey(s, e))
  /\ next' = next + 1
  /\ UNCHANGED <<active, registered, config, installed, repeated>>

-----------------------------------------------------------------------------
(* ResponderHandshake::finish: the proof is for this attempt, and the attempt's
   verifier accepts the signer.  A pinned peer must be that peer; a certificate
   verifier accepts every subject of the authority. *)
Verifies(p, attempt, signer) ==
  /\ attempt = p.attempt
  /\ IF p.source \in Peers THEN signer = p.source ELSE signer \in CertPeers

(* The identity a verified attempt establishes: the one it was begun for, or
   for an attempt against the authority the admitted subject. *)
Establishes(p, attempt, signer) ==
  /\ Verifies(p, attempt, signer)
  /\ p.source = CA => signer \in p.admitted

IdentityOf(p, signer) == IF p.source = CA THEN signer ELSE p.source

(* finish_pending refuses these and leaves the attempt pending. *)
Unexpected(s, e, kind) ==
  \/ s \notin DOMAIN pending
  \/ pending[s].endpoint # e
  \/ pending[s].kind # kind

(* Mutants of Evicted: no session is replaced; every other session is. *)
EvictedNone(s, identity) == {}
EvictedAll(s, identity) == DOMAIN active \ {s}

(* The other sessions of the identity, which the new one replaces. *)
Evicted(s, identity) == {t \in DOMAIN active \ {s} : active[t].identity = identity}

(* Mutant of NewPeer: a rekeyed session keeps its phase. *)
NewPeerSamePhase(s, p, identity, e) ==
  [identity |-> identity, phase |-> IF s \in DOMAIN active THEN active[s].phase ELSE p.phase,
   keys |-> p.attempt, endpoint |-> e, rx_rate |-> InitialConfig.rx]

(* A session replacing one under the same id is a rekey and keeps its limiter;
   another gets a limiter at the rate the event loop read when it started. *)
NewPeer(s, p, identity, e) ==
  [identity |-> identity, phase |-> p.phase, keys |-> p.attempt, endpoint |-> e,
   rx_rate |-> IF s \in DOMAIN active THEN active[s].rx_rate ELSE InitialConfig.rx]

Establish(s, e, signer) ==
  LET p == pending[s]
      identity == IdentityOf(p, signer)
  IN  /\ active' = Merge([x \in {s} |-> NewPeer(s, p, identity, e)],
                          Without(active, Evicted(s, identity)))
      /\ installed' = installed \cup {<<s, p.phase, p.attempt>>}
      /\ repeated' = (repeated \/ \E k \in Attempts : <<s, p.phase, k>> \in installed)

(* register_new_peers leaves a known session alone. *)
RegisterNewPeers(known) ==
  registered' = Merge(known, [s \in DOMAIN active' |-> active'[s].identity])

(* A Finish packet: finish_pending, unregistering what it evicted, then
   register_new_peers.  An attempt is taken out before its proof is checked. *)
FinishPending(s, e, kind, attempt, signer) ==
  /\ IF Unexpected(s, e, kind)
       THEN /\ UNCHANGED <<pending, per_source, active, installed, repeated>>
            /\ RegisterNewPeers(registered)
       ELSE /\ RemovePending({s})
            /\ IF Establishes(pending[s], attempt, signer)
                 THEN /\ Establish(s, e, signer)
                      /\ RegisterNewPeers(Without(registered,
                            Evicted(s, IdentityOf(pending[s], signer))))
                 ELSE /\ UNCHANGED <<active, installed, repeated>>
                      /\ RegisterNewPeers(registered)
  /\ UNCHANGED <<config, next>>

-----------------------------------------------------------------------------
(* Mutant of DropSessions: the router is not told. *)
DropSessionsRouted(S) == active' = Without(active, S) /\ UNCHANGED registered

DropSessions(S) ==
  /\ active' = Without(active, S)
  /\ registered' = Without(registered, S)

(* An authenticated keepalive or data packet moves the session to the endpoint
   it came from. *)
Roam(s, e) ==
  /\ active' = [active EXCEPT ![s].endpoint = e]
  /\ UNCHANGED <<pending, per_source, registered, config, next, installed, repeated>>

(* An authenticated Close. *)
Close(s) ==
  /\ DropSessions({s})
  /\ UNCHANGED <<pending, per_source, config, next, installed, repeated>>

(* The idle sweep; which sessions have been silent for too long is an input. *)
Sweep(stale) ==
  /\ DropSessions(stale)
  /\ UNCHANGED <<pending, per_source, config, next, installed, repeated>>

(* Mutant of RetransmitPending: answers are not counted. *)
RetransmitUncounted ==
  LET expired == {s \in DOMAIN pending : pending[s].attempts >= RETRY_LIMIT}
  IN  /\ DOMAIN pending # {}
      /\ per_source' = Uncounted(expired)
      /\ pending' = Without(pending, expired)
      /\ UNCHANGED <<active, registered, config, next, installed, repeated>>

(* The retry timer: drop the attempts answered RETRY_LIMIT times, answer the
   others once more. *)
RetransmitPending ==
  LET expired == {s \in DOMAIN pending : pending[s].attempts >= RETRY_LIMIT}
  IN  /\ DOMAIN pending # {}
      /\ per_source' = Uncounted(expired)
      /\ pending' = [s \in DOMAIN pending \ expired |->
                       [pending[s] EXCEPT !.attempts = @ + 1]]
      /\ UNCHANGED <<active, registered, config, next, installed, repeated>>

(* Mutant of AuthChanged: only the pinned peers are compared. *)
AuthChangedPinned(c) == c.peers # config.peers

(* reload_config with a candidate that parses, changes no startup-only setting
   and whose DNS change, if any, succeeded. *)
AuthChanged(c) == <<c.peers, c.ca, c.admitted>> # <<config.peers, config.ca, config.admitted>>

Relimited(c) ==
  IF c.rx = config.rx THEN active
  ELSE [s \in DOMAIN active |-> [active[s] EXCEPT !.rx_rate = c.rx]]

ReloadConfig(c) ==
  /\ c # config
  /\ config' = c
  /\ IF AuthChanged(c)
       THEN /\ DropSessions(DOMAIN active)
            /\ pending' = Without(pending, DOMAIN pending)
            /\ per_source' = [e \in Endpoints |-> 0]
       ELSE /\ active' = Relimited(c)
            /\ UNCHANGED <<pending, per_source, registered>>
  /\ UNCHANGED <<next, installed, repeated>>

-----------------------------------------------------------------------------
Init ==
  /\ pending = [s \in {} |-> 0]
  /\ per_source = [e \in Endpoints |-> 0]
  /\ active = [s \in {} |-> 0]
  /\ registered = [s \in {} |-> 0]
  /\ config = InitialConfig
  /\ next = 1
  /\ installed = {}
  /\ repeated = FALSE

(* Unknown session ids, and proofs for attempts that are not pending, are all
   refused alike; Garbage stands for them. *)
KnownIds == DOMAIN pending \cup {Garbage}
KnownAttempts == {pending[s].attempt : s \in DOMAIN pending} \cup {Garbage}

Next ==
  \/ \E e \in Endpoints : BeginInitial(e)
  \/ \E s \in DOMAIN active, e \in Endpoints, phase \in 0..MAX_HS : BeginRekey(s, e, phase)
  \/ \E s \in KnownIds, e \in Endpoints, kind \in Kinds,
        attempt \in KnownAttempts, signer \in Identities :
       FinishPending(s, e, kind, attempt, signer)
  \/ \E s \in DOMAIN active, e \in Endpoints : Roam(s, e)
  \/ \E s \in DOMAIN active : Close(s)
  \/ \E stale \in SUBSET DOMAIN active : Sweep(stale)
  \/ RetransmitPending
  \/ \E c \in Configs : ReloadConfig(c)

Spec == Init /\ [][Next]_vars

(* The retry timer is re-armed after every turn and the loop serves every ready
   branch of its select sooner or later. *)
FairSpec == Spec /\ WF_vars(RetransmitPending)

-----------------------------------------------------------------------------
PendingEntry ==
  [source : Identities \cup {CA}, admitted : SUBSET CertPeers, endpoint : Endpoints,
   kind : Kinds, phase : Nat, attempt : Attempts, attempts : 1..RETRY_LIMIT]
ActivePeer ==
  [identity : Identities, phase : Nat, keys : Attempts, endpoint : Endpoints, rx_rate : Nat]

(* Type invariant of the tables. *)
TypeOK ==
  /\ DOMAIN pending \subseteq 1..(next - 1)
  /\ \A s \in DOMAIN pending : pending[s] \in PendingEntry
  /\ per_source \in [Endpoints -> Nat]
  /\ DOMAIN active \subseteq 1..(next - 1)
  /\ \A s \in DOMAIN active : active[s] \in ActivePeer
  /\ config \in Configs
  /\ next \in 1..(MAX_HS + 1)
  /\ installed \subseteq (1..(next - 1)) \X Nat \X Attempts
  /\ repeated \in BOOLEAN

(* The per-source counters never drift from the table they count, whatever mix
   of inserts, finishes, expiries and reloads happened: a drift upwards would
   lock a source out for good, a drift downwards would lift its quota. *)
PerSourceExact == \A e \in Endpoints : per_source[e] = Cardinality(From(pending, e))

(* No source ever holds more pending attempts than its quota, although one
   initiation creates an attempt per configured peer and rekeys count too. *)
WithinQuota == \A e \in Endpoints : per_source[e] <= PerSourceLimit(config)

(* The router knows exactly the active sessions, each under its own identity:
   no route leads to a dropped session and no session is left unrouted. *)
RouterExact == registered = [s \in DOMAIN active |-> active[s].identity]

(* A peer has at most one active session, also when a reconnect, a rekey and
   delayed Finish packets of earlier attempts interleave. *)
OneSessionPerPeer ==
  \A s, t \in DOMAIN active : active[s].identity = active[t].identity => s = t

Configured(identity) ==
  IF identity \in CertPeers THEN config.ca /\ identity \in config.admitted
  ELSE \E i \in 1..Len(config.peers) : config.peers[i] = identity

(* A reload that drops or revokes a peer ends it: no session, and no attempt
   still in flight from before the reload, belongs to a peer that the
   configuration in force does not have. *)
OnlyConfiguredPeers ==
  /\ \A s \in DOMAIN active : Configured(active[s].identity)
  /\ \A s \in DOMAIN pending :
       /\ pending[s].source \in Identities => Configured(pending[s].source)
       /\ pending[s].source = CA => config.ca
       /\ pending[s].admitted = config.admitted

(* What a source may hold is what is counted for it. *)
QuotaExact == PerSourceExact /\ WithinQuota

(* The sessions are those the router knows and the configuration in force
   allows, one for a peer. *)
SessionsExact == RouterExact /\ OneSessionPerPeer /\ OnlyConfiguredPeers

(* "The server reloads ... rate limits on SIGHUP": every active session is
   limited at the receive rate of the configuration in force.  The sessions
   active at a reload are; one established later gets the rate the event loop
   read when it started. *)
RxRateFollowsConfig == \A s \in DOMAIN active : active[s].rx_rate = config.rx

(* A rekey still pending when its session is alive is for the phase right
   after the session's, and for the session's identity. *)
RekeyContinuity ==
  \A s \in DOMAIN pending \cap DOMAIN active :
    /\ pending[s].kind = "Rekey"
    /\ pending[s].phase = active[s].phase + 1
    /\ pending[s].source = active[s].identity

(* A session id and key phase are given keys at most once, so no replay window
   or send counter ever restarts under keys already used: not by a duplicated
   Finish, an expired and repeated rekey, or a close racing a rekey. *)
KeysInstalledOnce == ~repeated

(* Establishing a session drops sessions of the same identity only. *)
EvictsOnlyOwn ==
  [][\A s \in DOMAIN active \ DOMAIN active', t \in DOMAIN active' :
       (t \notin DOMAIN active \/ active[t].keys # active'[t].keys)
         => active'[t].identity = active[s].identity]_vars

(* Every pending attempt ends, so a rekey whose client vanished or roamed away
   does not block the session's later rekeys for good. *)
PendingEnds ==
  \A s \in Attempts : (s \in DOMAIN pending) ~> (s \notin DOMAIN pending)

(* Keys only ever advance: what was installed for a live session is not ahead
   of its phase, and what is pending for an id is ahead of all of it. *)
KeyOrder ==
  \A i \in installed :
    /\ i[1] \in DOMAIN active => i[2] <= active[i[1]].phase
    /\ i[1] \in DOMAIN pending => i[2] < pending[i[1]].phase

(* The inductive invariant of the proofs. *)
SessionsInv ==
  /\ TypeOK /\ PerSourceExact /\ WithinQuota /\ RouterExact /\ OneSessionPerPeer
  /\ OnlyConfiguredPeers /\ RekeyContinuity /\ KeysInstalledOnce /\ KeyOrder

=============================================================================
