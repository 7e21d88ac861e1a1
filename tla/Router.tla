-------------------------------- MODULE Router --------------------------------
(***************************************************************************)
(* The router of rvpn-server (crate rvpn-routing) and the handlers of the  *)
(* event loop that use it: sessions registered when a handshake finishes   *)
(* and unregistered when they end, the [[links]] policy replaced by a      *)
(* reload, and the packets and Ethernet frames routed between peers.       *)
(*                                                                         *)
(* Everything the router consults on the fast path is a copy: a session's  *)
(* allowed prefixes, its set of linked sessions, the prefix table, and two *)
(* indexes of learned MAC addresses.  The properties say that the copies   *)
(* never drift from the configuration and from each other.                 *)
(*                                                                         *)
(* Addresses, MACs and names are abstract.  A prefix is its length and the *)
(* addresses it covers.  Session ids are numbers, ordered as their bytes   *)
(* are; an id may come back once nothing refers to it.                     *)
(***************************************************************************)
EXTENDS Integers, FiniteSets

CONSTANTS
  Names,            \* names of peers
  Sessions,         \* session ids
  Addresses,        \* inner IP addresses
  Macs,             \* unicast MAC addresses
  Configs,          \* contents the configuration file may have
  InitialConfig,    \* its content at startup
  MAX_MACS          \* MAX_MACS_PER_PEER: 16 in the code

Group == "group address"      \* a broadcast or multicast MAC
NoIp == "no valid address"    \* what parsing a malformed payload gives

Prefix == [len : 0 .. 128, covers : SUBSET Addresses]
LinkEntry == [between : SUBSET Names, transmitters : SUBSET Names, receivers : SUBSET Names]

(* A configuration, reduced to what the router depends on: the configured
   peers with their allowed_ips, and the [[links]] entries. *)
ASSUME RouterConfigs ==
  /\ InitialConfig \in Configs
  /\ \A c \in Configs :
       /\ DOMAIN c.allowed \subseteq Names
       /\ \A n \in DOMAIN c.allowed : c.allowed[n] \subseteq Prefix
       /\ c.links \subseteq LinkEntry

ASSUME RouterBounds ==
  /\ Sessions \subseteq Nat
  /\ MAX_MACS \in Nat
  /\ Group \notin Macs /\ NoIp \notin Addresses

VARIABLES
  config,    \* configuration in force
  links,     \* Links: the authorized edges
  peers,     \* session id -> PeerEntry
  table,     \* prefixes with the session that owns them
  macs       \* learned MAC -> session id

vars == <<config, links, peers, table, macs>>

-----------------------------------------------------------------------------
(* ServerConfig::validate_links: an entry is either symmetric or directed, names
   only configured peers, and links none to itself.  The names cert:... that a
   link may give certificate peers are left out, as those peers are. *)
ValidLinks(c) ==
  \A l \in c.links :
    /\ l.between \cup l.transmitters \cup l.receivers \subseteq DOMAIN c.allowed
    /\ \/ /\ \E a, b \in l.between : a # b
          /\ l.transmitters = {} /\ l.receivers = {}
       \/ /\ l.between = {}
          /\ l.transmitters # {} /\ l.receivers # {}
          /\ l.transmitters \cap l.receivers = {}

ASSUME RouterStarts == ValidLinks(InitialConfig)

(* links_for_config: between groups in both directions, and every transmitter
   to every receiver. *)
LinksForConfig(c) ==
  UNION {(l.between \X l.between) \cup (l.transmitters \X l.receivers) : l \in c.links}

Linked(edges, a, b) == a # b /\ <<a, b>> \in edges

(* Mutant of ReplaceLinks: sessions keep the receivers they had. *)
ReplaceLinksForNew(ps, edges) == ps

(* Router::replace_links *)
ReplaceLinks(ps, edges) ==
  [s \in DOMAIN ps |->
     [ps[s] EXCEPT !.linked = {t \in DOMAIN ps \ {s} : Linked(edges, ps[s].name, ps[t].name)}]]

(* Router::register of a session the router does not know: one lookup, from the
   new name to the other, decides both directions. *)
Register(ps, s, n, allowed) ==
  LET both == {t \in DOMAIN ps : Linked(links, n, ps[t].name)}
  IN  [t \in DOMAIN ps \cup {s} |->
         IF t = s THEN [name |-> n, allowed |-> allowed, linked |-> both, macs |-> {}]
         ELSE IF t \in both THEN [ps[t] EXCEPT !.linked = @ \cup {s}] ELSE ps[t]]

(* Router::unregister of each session of S: peers, and the MACs left over. *)
Unregister(S) == [t \in DOMAIN peers \ S |-> [peers[t] EXCEPT !.linked = @ \ S]]

OwnedBy(S) == {m \in DOMAIN macs : macs[m] \in S /\ m \in peers[macs[m]].macs}

(* Mutant of ReleaseMacs: the MACs of a session outlive it. *)
ReleaseNone(S) == macs

ReleaseMacs(S) == [m \in DOMAIN macs \ OwnedBy(S) |-> macs[m]]

(* Router::rebuild_table; its sort is the order by which Owner prefers entries. *)
Table(ps) == UNION {{[prefix |-> p, session |-> s] : p \in ps[s].allowed} : s \in DOMAIN ps}

-----------------------------------------------------------------------------
(* A handshake finished: finish_pending's evicted sessions of the same peer are
   unregistered, then register_new_peers registers the new one. *)
PeerJoins(s, n) ==
  LET gone == {t \in DOMAIN peers : peers[t].name = n}
  IN  /\ s \in Sessions \ DOMAIN peers
      /\ n \in DOMAIN config.allowed
      /\ peers' = Register(Unregister(gone), s, n, config.allowed[n])
      /\ table' = Table(peers')
      /\ macs' = ReleaseMacs(gone)
      /\ UNCHANGED <<config, links>>

(* A Close, the sweep of idle sessions. *)
PeersLeave(S) ==
  /\ S # {} /\ S \subseteq DOMAIN peers
  /\ peers' = Unregister(S)
  /\ table' = Table(peers')
  /\ macs' = ReleaseMacs(S)
  /\ UNCHANGED <<config, links>>

(* reload_config of a file that parses: a change of the peers closes every
   session, a change of the links is applied to the sessions that remain. *)
ReloadConfig(c) ==
  LET gone == IF c.allowed # config.allowed THEN DOMAIN peers ELSE {}
  IN  /\ c # config /\ ValidLinks(c)
      /\ config' = c
      /\ links' = IF c.links # config.links THEN LinksForConfig(c) ELSE links
      /\ peers' = IF c.links # config.links
                  THEN ReplaceLinks(Unregister(gone), links') ELSE Unregister(gone)
      /\ table' = Table(peers')
      /\ macs' = ReleaseMacs(gone)

-----------------------------------------------------------------------------
(* Addresses packet_source and packet_destination find in an IP packet. *)
IpPackets == [src : Addresses \cup {NoIp}, dst : Addresses \cup {NoIp}]

(* A frame: source and destination MAC, whether its ethertype is IPv4, IPv6 or
   ARP, and the address ethernet_payload_ip finds in it. *)
Frames == [src : Macs \cup {Group}, dst : Macs \cup {Group}, supported : BOOLEAN,
           ip : Addresses \cup {NoIp}]

Drop(reason) == [drop |-> reason, local |-> FALSE, peers |-> {}]
Forward(local, to) == [drop |-> "none", local |-> local, peers |-> to]

SourceAllowed(s, ip) == \E p \in peers[s].allowed : ip \in p.covers

(* Router::owner: the first entry of the table, longest prefix then lowest id,
   that contains the address. *)
Matching(tbl, ip) == {r \in tbl : ip \in r.prefix.covers}
Before(a, b) ==
  \/ a.prefix.len > b.prefix.len
  \/ a.prefix.len = b.prefix.len /\ a.session <= b.session
Owner(tbl, ip) ==
  (CHOOSE r \in Matching(tbl, ip) : \A q \in Matching(tbl, ip) : Before(r, q)).session

(* What is done with a packet whose receiver is known. *)
ToReceiver(s, t) ==
  IF t = s THEN Drop("Hairpin")
  ELSE IF t \in peers[s].linked THEN Forward(FALSE, {t}) ELSE Drop("NoLink")

(* Router::route_ip *)
RouteIp(s, p) ==
  IF p.src = NoIp \/ p.dst = NoIp THEN Drop("Malformed")
  ELSE IF ~SourceAllowed(s, p.src) THEN Drop("SourceNotAllowed")
  ELSE IF Matching(table, p.dst) = {} THEN Forward(TRUE, {})
  ELSE ToReceiver(s, Owner(table, p.dst))

(* Router::route_frame: why a frame is refused before its MAC is learned. *)
Refusal(s, f) ==
  IF f.src = Group THEN "InvalidSourceMac"
  ELSE IF ~f.supported THEN "UnsupportedEthertype"
  ELSE IF f.ip = NoIp THEN "Malformed"
  ELSE IF ~SourceAllowed(s, f.ip) THEN "SourceNotAllowed"
  ELSE IF f.src \in DOMAIN macs
         THEN IF macs[f.src] # s THEN "MacConflict" ELSE "none"
  ELSE IF Cardinality(peers[s].macs) >= MAX_MACS THEN "TooManyMacs" ELSE "none"

LearnMac(s, m) ==
  IF m \in DOMAIN macs THEN UNCHANGED <<macs, peers>>
  ELSE /\ macs' = [x \in DOMAIN macs \cup {m} |-> IF x = m THEN s ELSE macs[x]]
       /\ peers' = [peers EXCEPT ![s].macs = @ \cup {m}]

(* Router::route_frame once the source MAC is the sender's. *)
FrameTo(s, dst) ==
  IF dst = Group THEN Forward(TRUE, DOMAIN peers \cap (peers[s].linked \ {s}))
  ELSE IF dst \in DOMAIN macs THEN ToReceiver(s, macs[dst])
  ELSE Forward(TRUE, {})

(* Router::route_from_local_ip: the sessions a packet read from the TUN is sent to. *)
RouteFromLocalIp(dst) == IF Matching(table, dst) = {} THEN {} ELSE {Owner(table, dst)}

(* Router::route_from_local_frame, dst the frame's MAC and ip its payload's
   destination: a frame whose receiver is unknown is flooded. *)
RouteFromLocalFrame(dst, ip) ==
  IF dst = Group THEN DOMAIN peers
  ELSE IF dst \in DOMAIN macs THEN {macs[dst]}
  ELSE IF RouteFromLocalIp(ip) # {} THEN RouteFromLocalIp(ip) ELSE DOMAIN peers

(* Mutant of FrameArrives: a MAC follows whoever sent from it last. *)
FrameArrivesMoving(s, f) ==
  /\ s \in DOMAIN peers
  /\ Refusal(s, f) \in {"none", "MacConflict"}
  /\ macs' = [x \in DOMAIN macs \cup {f.src} |-> IF x = f.src THEN s ELSE macs[x]]
  /\ peers' = [t \in DOMAIN peers |->
                 [peers[t] EXCEPT !.macs = IF t = s THEN @ \cup {f.src} ELSE @ \ {f.src}]]
  /\ UNCHANGED <<config, links, table>>

(* A frame decrypted for session s: the router learns its source MAC, whatever
   becomes of the frame afterwards. *)
FrameArrives(s, f) ==
  /\ s \in DOMAIN peers
  /\ Refusal(s, f) = "none"
  /\ LearnMac(s, f.src)
  /\ UNCHANGED <<config, links, table>>

Init ==
  /\ config = InitialConfig
  /\ links = LinksForConfig(InitialConfig)
  /\ peers = [s \in {} |-> InitialConfig]
  /\ table = {}
  /\ macs = [m \in {} |-> 0]

Next ==
  \/ \E s \in Sessions, n \in Names : PeerJoins(s, n)
  \/ \E S \in SUBSET Sessions : PeersLeave(S)
  \/ \E c \in Configs : ReloadConfig(c)
  \/ \E s \in Sessions, f \in Frames : FrameArrives(s, f)

Spec == Init /\ [][Next]_vars

-----------------------------------------------------------------------------
PeerEntry ==
  [name : Names, allowed : SUBSET Prefix, linked : SUBSET Sessions, macs : SUBSET Macs]

(* Type invariant of the router. *)
TypeOK ==
  /\ config \in Configs
  /\ links \subseteq Names \X Names
  /\ DOMAIN peers \subseteq Sessions /\ peers \in [DOMAIN peers -> PeerEntry]
  /\ DOMAIN macs \subseteq Macs /\ macs \in [DOMAIN macs -> Sessions]
  /\ table \subseteq [prefix : Prefix, session : Sessions]

(* The prefixes of a session as the configuration has them now. *)
Configured(s) == config.allowed[peers[s].name]

(* The session the longest configured prefix of an address belongs to, the
   lowest id among equals. *)
Owns(t, ip) ==
  \E p \in Configured(t) :
    /\ ip \in p.covers
    /\ \A u \in DOMAIN peers : \A q \in Configured(u) :
         ip \in q.covers => q.len < p.len \/ (q.len = p.len /\ t <= u)

MaySend(s, t) == s # t /\ Linked(LinksForConfig(config), peers[s].name, peers[t].name)
ConfiguredSource(s, ip) == \E p \in Configured(s) : ip \in p.covers

(* Packets go where the configuration in force says, after any sequence of
   joins, evictions, departures, reloads and learned MACs: an IP packet from an
   allowed source reaches the peer owning its destination exactly when an edge
   leads there and the local device exactly when nobody owns it; a broadcast
   reaches exactly the peers an edge leads to; a frame to a learned MAC reaches
   its owner exactly when an edge leads there; and what the server's own devices
   send reaches the owner of its destination. *)
RoutesByPolicy ==
  /\ \A s \in DOMAIN peers :
       /\ \A p \in IpPackets :
            LET v == RouteIp(s, p)
            IN  /\ v.peers = {t \in DOMAIN peers :
                                ConfiguredSource(s, p.src) /\ Owns(t, p.dst) /\ MaySend(s, t)}
                /\ v.local <=> /\ ConfiguredSource(s, p.src) /\ p.dst # NoIp
                              /\ ~\E t \in DOMAIN peers : Owns(t, p.dst)
       /\ FrameTo(s, Group) = Forward(TRUE, {t \in DOMAIN peers : MaySend(s, t)})
       /\ \A m \in DOMAIN macs :
            FrameTo(s, m).peers = {t \in DOMAIN peers : t = macs[m] /\ MaySend(s, t)}
  /\ \A ip \in Addresses : RouteFromLocalIp(ip) = {t \in DOMAIN peers : Owns(t, ip)}
  /\ \A m \in Macs, ip \in Addresses \cup {NoIp} :
       LET known == {t \in DOMAIN peers : m \in peers[t].macs}
           owner == {t \in DOMAIN peers : Owns(t, ip)}
       IN  RouteFromLocalFrame(m, ip) =
             IF known # {} THEN known ELSE IF owner # {} THEN owner ELSE DOMAIN peers

(* The two indexes of learned MACs agree, name only registered sessions, and
   no session holds more than MAX_MACS. *)
MacsExact ==
  /\ \A m \in DOMAIN macs : macs[m] \in DOMAIN peers /\ m \in peers[macs[m]].macs
  /\ \A s \in DOMAIN peers :
       /\ \A m \in peers[s].macs : m \in DOMAIN macs /\ macs[m] = s
       /\ Cardinality(peers[s].macs) <= MAX_MACS

(* A MAC stays with the first session that claimed it for as long as that
   session is registered: no frame of another peer, and no reload, moves it. *)
MacKept ==
  [][\A m \in DOMAIN macs :
       macs[m] \in DOMAIN peers' => m \in DOMAIN macs' /\ macs'[m] = macs[m]]_vars
=============================================================================
