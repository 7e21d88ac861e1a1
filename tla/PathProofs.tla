------------------------------ MODULE PathProofs ------------------------------
(***************************************************************************)
(* The paths of packets, for every value of the constants: which peer the  *)
(* router sends a packet to, and how a session keeps its path alive.       *)
(*                                                                         *)
(* RouterInv says that what the router caches of the configuration is the  *)
(* configuration in force, and that its two MAC indexes agree.  The third  *)
(* copy, each session's set of linked sessions, is exact only when the     *)
(* policies are symmetric: register decides both directions by one lookup. *)
(*                                                                         *)
(* LinkHeard is inductive once the ticks still to go until the client's    *)
(* keepalive are added to the silence: whatever raises the one lowers the  *)
(* other.  MtuPaced needs that a probe is only under way when the interval *)
(* since the last change is over, since its end does not look at it again. *)
(***************************************************************************)
EXTENDS Router, Link, FiniteSetTheorems, WellFoundedInduction, TLAPS

Finite(ps) == \A s \in DOMAIN ps : IsFiniteSet(ps[s].macs)

(* Inductive invariant. *)
RouterInv ==
  /\ TypeOK
  /\ ValidLinks(config)
  /\ links = LinksForConfig(config)
  /\ \A s \in DOMAIN peers :
       /\ peers[s].name \in DOMAIN config.allowed
       /\ peers[s].allowed = config.allowed[peers[s].name]
  /\ table = Table(peers)
  /\ MacsExact
  /\ Finite(peers)

(* Every policy the server can be given is made of `between` groups. *)
SymmetricLinks ==
  \A c \in Configs : ValidLinks(c) => \A l \in c.links : l.transmitters = {}

LinksExact ==
  \A s \in DOMAIN peers :
    peers[s].linked =
      {t \in DOMAIN peers \ {s} : Linked(links, peers[s].name, peers[t].name)}

-----------------------------------------------------------------------------
(* What links_for_config returns is a set of pairs of names. *)
LEMMA EdgesType ==
  ASSUME NEW c \in Configs
  PROVE  LinksForConfig(c) \subseteq Names \X Names
BY RouterConfigs DEF LinksForConfig, LinkEntry

(* What rebuild_table returns. *)
LEMMA TableType ==
  ASSUME NEW ps, DOMAIN ps \subseteq Sessions, ps \in [DOMAIN ps -> PeerEntry]
  PROVE  Table(ps) \subseteq [prefix : Prefix, session : Sessions]
<1> SUFFICES ASSUME NEW r \in Table(ps) PROVE r \in [prefix : Prefix, session : Sessions]
  BY Zenon
<1>1. PICK s \in DOMAIN ps : r \in {[prefix |-> p, session |-> s] : p \in ps[s].allowed}
  BY Zenon DEF Table
<1>2. ps[s].allowed \subseteq Prefix
  BY Zenon DEF PeerEntry
<1> QED BY <1>1, <1>2

(* What replace_links changes. *)
LEMMA ReplaceFacts ==
  ASSUME NEW ps, DOMAIN ps \subseteq Sessions, ps \in [DOMAIN ps -> PeerEntry], NEW edges
  PROVE  LET r == ReplaceLinks(ps, edges)
         IN  /\ DOMAIN r = DOMAIN ps
             /\ r \in [DOMAIN r -> PeerEntry]
             /\ \A t \in DOMAIN ps :
                  /\ r[t].name = ps[t].name
                  /\ r[t].allowed = ps[t].allowed
                  /\ r[t].macs = ps[t].macs
                  /\ r[t].linked =
                       {u \in DOMAIN ps \ {t} : Linked(edges, ps[t].name, ps[u].name)}
BY Zenon DEF ReplaceLinks, PeerEntry

(* Releasing the MACs of the sessions of S leaves the MACs of the others. *)
LEMMA ReleaseFacts ==
  ASSUME TypeOK, MacsExact, NEW S
  PROVE  /\ DOMAIN ReleaseMacs(S) = {m \in DOMAIN macs : macs[m] \notin S}
         /\ ReleaseMacs(S) \in [DOMAIN ReleaseMacs(S) -> Sessions]
         /\ \A m \in DOMAIN ReleaseMacs(S) : ReleaseMacs(S)[m] = macs[m]
BY Zenon DEF TypeOK, MacsExact, ReleaseMacs, OwnedBy

-----------------------------------------------------------------------------
(* The router starts empty with the edges of the configuration read at startup. *)
LEMMA InitRouterInv == Init => RouterInv
<1> SUFFICES ASSUME Init PROVE RouterInv
  BY Zenon
<1>1. DOMAIN peers = {} /\ DOMAIN macs = {}
  BY Zenon DEF Init
<1>2. TypeOK
  BY Zenon, <1>1, RouterConfigs, EdgesType DEF Init, TypeOK
<1>3. table = Table(peers)
  BY Zenon, <1>1 DEF Init, Table
<1> QED BY Zenon, <1>1, <1>2, <1>3, RouterStarts DEF Init, RouterInv, MacsExact, Finite

(* Sessions that leave, for whatever reason, take their MACs and their prefixes
   with them and leave the rest as it was. *)
LEMMA LeaveRouterInv ==
  ASSUME RouterInv, NEW S, S \subseteq DOMAIN peers, PeersLeave(S)
  PROVE  RouterInv'
<1> USE DEF RouterInv
<1>1. /\ DOMAIN peers' = DOMAIN peers \ S
      /\ peers' \in [DOMAIN peers' -> PeerEntry]
      /\ \A t \in DOMAIN peers' : /\ peers'[t].name = peers[t].name
                                 /\ peers'[t].allowed = peers[t].allowed
                                 /\ peers'[t].macs = peers[t].macs
  <2> DEFINE rest == Unregister(S)
  <2>1. /\ DOMAIN rest = DOMAIN peers \ S
        /\ rest \in [DOMAIN rest -> PeerEntry]
        /\ \A t \in DOMAIN rest : /\ rest[t].name = peers[t].name
                                /\ rest[t].allowed = peers[t].allowed
                                /\ rest[t].macs = peers[t].macs
    BY DEF TypeOK, Unregister, PeerEntry
  <2>2. peers' = rest
    BY Zenon DEF PeersLeave
  <2> HIDE DEF rest
  <2> QED BY Zenon, <2>1, <2>2
<1>2. /\ DOMAIN macs' = {m \in DOMAIN macs : macs[m] \notin S}
      /\ macs' \in [DOMAIN macs' -> Sessions]
      /\ \A m \in DOMAIN macs' : macs'[m] = macs[m]
  BY Zenon, ReleaseFacts DEF PeersLeave
<1>3. TypeOK'
  BY Zenon, <1>1, <1>2, TableType DEF TypeOK, PeersLeave
<1>4. MacsExact' /\ Finite(peers')
  BY Zenon, <1>1, <1>2 DEF MacsExact, Finite
<1> QED BY Zenon, <1>1, <1>3, <1>4 DEF PeersLeave, ValidLinks

(* A peer that joins replaces its older sessions; the table and the MAC indexes
   follow. *)
LEMMA JoinRouterInv ==
  ASSUME RouterInv, NEW s \in Sessions, NEW n \in Names, PeerJoins(s, n)
  PROVE  RouterInv'
<1> USE DEF RouterInv
<1> DEFINE gone == {t \in DOMAIN peers : peers[t].name = n}
           rest == Unregister(gone)
<1>1. /\ DOMAIN rest = DOMAIN peers \ gone
      /\ rest \in [DOMAIN rest -> PeerEntry]
      /\ \A t \in DOMAIN rest : /\ rest[t].name = peers[t].name
                              /\ rest[t].allowed = peers[t].allowed
                              /\ rest[t].macs = peers[t].macs
  BY DEF TypeOK, Unregister, PeerEntry
<1>2. /\ n \in DOMAIN config.allowed /\ config.allowed[n] \in SUBSET Prefix
      /\ s \notin DOMAIN peers /\ peers' = Register(rest, s, n, config.allowed[n])
  BY Zenon, RouterConfigs DEF PeerJoins, TypeOK
<1> HIDE DEF rest
<1>3. /\ DOMAIN peers' = (DOMAIN peers \ gone) \cup {s}
      /\ peers' \in [DOMAIN peers' -> PeerEntry]
      /\ peers'[s].name = n /\ peers'[s].allowed = config.allowed[n] /\ peers'[s].macs = {}
      /\ \A t \in DOMAIN peers \ gone : /\ peers'[t].name = peers[t].name
                                       /\ peers'[t].allowed = peers[t].allowed
                                       /\ peers'[t].macs = peers[t].macs
  <2>1. DOMAIN rest \subseteq Sessions /\ s \notin DOMAIN rest
    BY Zenon, <1>1, <1>2 DEF TypeOK
  <2> DEFINE allowed == config.allowed[n]
  <2>2. allowed \in SUBSET Prefix /\ peers' = Register(rest, s, n, allowed)
    BY Zenon, <1>2
  <2> HIDE DEF RouterInv, gone, allowed
  <2>3. /\ DOMAIN peers' = DOMAIN rest \cup {s}
        /\ peers' \in [DOMAIN peers' -> PeerEntry]
        /\ peers'[s].name = n /\ peers'[s].allowed = allowed /\ peers'[s].macs = {}
        /\ \A t \in DOMAIN rest : /\ peers'[t].name = rest[t].name
                                /\ peers'[t].allowed = rest[t].allowed
                                /\ peers'[t].macs = rest[t].macs
    BY <1>1, <2>1, <2>2 DEF Register, PeerEntry
  <2> QED BY Zenon, <1>1, <2>3 DEF allowed
<1>4. /\ DOMAIN macs' = {m \in DOMAIN macs : macs[m] \notin gone}
      /\ macs' \in [DOMAIN macs' -> Sessions]
      /\ \A m \in DOMAIN macs' : macs'[m] = macs[m]
  BY Zenon, ReleaseFacts DEF PeerJoins
<1>5. TypeOK'
  BY Zenon, <1>3, <1>4, TableType DEF TypeOK, PeerJoins
<1>6. MacsExact' /\ Finite(peers')
  <2>1. IsFiniteSet({}) /\ Cardinality({}) <= MAX_MACS
    BY FS_EmptySet, RouterBounds
  <2>2. Finite(peers')
    BY Zenon, <1>3, <2>1 DEF Finite
  <2>3. \A m \in DOMAIN macs' : macs'[m] \in DOMAIN peers' /\ m \in peers'[macs'[m]].macs
    BY Zenon, <1>3, <1>4 DEF MacsExact
  <2>4. ASSUME NEW t \in DOMAIN peers'
        PROVE  /\ \A m \in peers'[t].macs : m \in DOMAIN macs' /\ macs'[m] = t
               /\ Cardinality(peers'[t].macs) <= MAX_MACS
    <3>1. CASE t = s
      BY Zenon, <1>3, <2>1, <3>1
    <3>2. CASE t # s
      BY <1>3, <1>4, <3>2 DEF MacsExact
    <3> QED BY Zenon, <3>1, <3>2
  <2> QED BY Zenon, <2>2, <2>3, <2>4 DEF MacsExact
<1> HIDE DEF gone
<1> QED BY Zenon, <1>2, <1>3, <1>5, <1>6 DEF PeerJoins, ValidLinks

(* A reload installs the edges of the new configuration for the sessions that
   outlive it, which are all of them or none. *)
LEMMA ReloadRouterInv ==
  ASSUME RouterInv, NEW c \in Configs, ReloadConfig(c)
  PROVE  RouterInv'
<1> USE DEF RouterInv
<1> DEFINE gone == IF c.allowed # config.allowed THEN DOMAIN peers ELSE {}
           rest == Unregister(gone)
<1>1. /\ DOMAIN rest = DOMAIN peers \ gone
      /\ rest \in [DOMAIN rest -> PeerEntry]
      /\ \A t \in DOMAIN rest : /\ rest[t].name = peers[t].name
                              /\ rest[t].allowed = peers[t].allowed
                              /\ rest[t].macs = peers[t].macs
  BY DEF TypeOK, Unregister, PeerEntry
<1>2. peers' = IF c.links # config.links THEN ReplaceLinks(rest, links') ELSE rest
  BY Zenon DEF ReloadConfig
<1> HIDE DEF rest
<1>3. /\ DOMAIN peers' = DOMAIN peers \ gone
      /\ peers' \in [DOMAIN peers' -> PeerEntry]
      /\ \A t \in DOMAIN peers' : /\ peers'[t].name = peers[t].name
                                 /\ peers'[t].allowed = peers[t].allowed
                                 /\ peers'[t].macs = peers[t].macs
  BY <1>1, <1>2, ReplaceFacts DEF TypeOK
<1>4. /\ DOMAIN macs' = {m \in DOMAIN macs : macs[m] \notin gone}
      /\ macs' \in [DOMAIN macs' -> Sessions]
      /\ \A m \in DOMAIN macs' : macs'[m] = macs[m]
  <2>1. macs' = ReleaseMacs(gone) BY Zenon DEF ReloadConfig
  <2>2. TypeOK /\ MacsExact BY Zenon
  <2> HIDE DEF gone, RouterInv
  <2> QED BY Zenon, <2>1, <2>2, ReleaseFacts
<1>5. links' = LinksForConfig(c)
  BY Zenon DEF ReloadConfig, LinksForConfig
<1>6. TypeOK'
  BY Zenon, <1>3, <1>4, <1>5, TableType, EdgesType DEF TypeOK, ReloadConfig
<1>7. MacsExact' /\ Finite(peers')
  BY Zenon, <1>3, <1>4 DEF MacsExact, Finite
<1>8. \A t \in DOMAIN peers' : t \in DOMAIN peers /\ c.allowed = config.allowed
  BY Zenon, <1>3
<1>9. config' = c /\ ValidLinks(c) /\ table' = Table(peers') BY Zenon DEF ReloadConfig
<1>10. \A t \in DOMAIN peers' : /\ peers'[t].name \in DOMAIN config'.allowed
                                /\ peers'[t].allowed = config'.allowed[peers'[t].name]
  BY Zenon, <1>3, <1>8, <1>9
<1>11. ValidLinks(config)' BY Zenon, <1>9 DEF ValidLinks
<1>12. links' = LinksForConfig(config)' /\ table' = Table(peers)'
  BY Zenon, <1>5, <1>9 DEF LinksForConfig, Table
<1> QED BY Zenon, <1>6, <1>7, <1>10, <1>11, <1>12

(* A frame enters its source MAC in both indexes or in neither. *)
LEMMA FrameRouterInv ==
  ASSUME RouterInv, NEW s \in Sessions, NEW f \in Frames, FrameArrives(s, f)
  PROVE  RouterInv'
<1> USE DEF RouterInv
<1>1. CASE f.src \in DOMAIN macs
  <2>1. UNCHANGED vars
    BY Zenon, <1>1 DEF FrameArrives, LearnMac, vars
  <2> QED BY Zenon, <2>1 DEF vars, TypeOK, MacsExact, Finite, ValidLinks
<1>2. CASE f.src \notin DOMAIN macs
  <2>1. s \in DOMAIN peers /\ f.src \in Macs /\ Cardinality(peers[s].macs) < MAX_MACS
    <3>1. f.src # Group /\ ~(Cardinality(peers[s].macs) >= MAX_MACS) /\ s \in DOMAIN peers
      BY Zenon, <1>2 DEF FrameArrives, Refusal
    <3>2. Cardinality(peers[s].macs) \in Nat
      BY Zenon, <3>1, FS_CardinalityType DEF Finite
    <3> QED BY <3>1, <3>2, RouterBounds DEF Frames
  <2>2. /\ macs' = [x \in DOMAIN macs \cup {f.src} |-> IF x = f.src THEN s ELSE macs[x]]
        /\ peers' = [peers EXCEPT ![s].macs = @ \cup {f.src}]
    BY Zenon, <1>2 DEF FrameArrives, LearnMac
  <2>3. /\ DOMAIN peers' = DOMAIN peers
        /\ peers' \in [DOMAIN peers' -> PeerEntry]
        /\ \A t \in DOMAIN peers :
             /\ peers'[t].name = peers[t].name
             /\ peers'[t].allowed = peers[t].allowed
             /\ peers'[t].macs = IF t = s THEN peers[s].macs \cup {f.src} ELSE peers[t].macs
    BY <2>1, <2>2 DEF TypeOK, PeerEntry
  <2>4. TypeOK' /\ table' = Table(peers')
    BY <2>1, <2>2, <2>3 DEF TypeOK, FrameArrives, Table
  <2>5. /\ IsFiniteSet(peers'[s].macs)
        /\ Cardinality(peers'[s].macs) <= MAX_MACS
    <3>1. /\ IsFiniteSet(peers[s].macs)
          /\ Cardinality(peers[s].macs) \in Nat
      BY Zenon, <2>1, FS_CardinalityType DEF Finite
    <3>2. /\ IsFiniteSet(peers[s].macs \cup {f.src})
          /\ \/ Cardinality(peers[s].macs \cup {f.src}) = Cardinality(peers[s].macs)
             \/ Cardinality(peers[s].macs \cup {f.src}) = Cardinality(peers[s].macs) + 1
      BY Zenon, <3>1, FS_AddElement
    <3> QED BY <2>1, <2>3, <3>1, <3>2, RouterBounds
  <2>6. MacsExact' /\ Finite(peers')
    <3>1. Finite(peers')
      BY Zenon, <2>3, <2>5 DEF Finite
    <3>2. DOMAIN macs' = DOMAIN macs \cup {f.src} /\ macs'[f.src] = s
          /\ \A m \in DOMAIN macs : macs'[m] = macs[m]
      BY Zenon, <1>2, <2>2
    <3>3. \A m \in DOMAIN macs' : macs'[m] \in DOMAIN peers' /\ m \in peers'[macs'[m]].macs
      BY <2>1, <2>3, <3>2 DEF MacsExact
    <3>4. ASSUME NEW t \in DOMAIN peers'
          PROVE  /\ \A m \in peers'[t].macs : m \in DOMAIN macs' /\ macs'[m] = t
                 /\ Cardinality(peers'[t].macs) <= MAX_MACS
      BY <2>3, <2>5, <3>2 DEF MacsExact
    <3> QED BY Zenon, <3>1, <3>3, <3>4 DEF MacsExact
  <2> QED BY Zenon, <2>3, <2>4, <2>6 DEF FrameArrives, ValidLinks
<1> QED BY Zenon, <1>1, <1>2

(* Every step of the event loop keeps the invariant. *)
LEMMA NextRouterInv == RouterInv /\ [Next]_vars => RouterInv'
<1> SUFFICES ASSUME RouterInv, [Next]_vars PROVE RouterInv'
  BY Zenon
<1>1. CASE \E s \in Sessions, n \in Names : PeerJoins(s, n)
  BY Zenon, <1>1, JoinRouterInv
<1>2. CASE \E S \in SUBSET Sessions : PeersLeave(S)
  BY Zenon, <1>2, LeaveRouterInv DEF PeersLeave
<1>3. CASE \E c \in Configs : ReloadConfig(c)
  BY Zenon, <1>3, ReloadRouterInv
<1>4. CASE \E s \in Sessions, f \in Frames : FrameArrives(s, f)
  BY Zenon, <1>4, FrameRouterInv
<1>5. CASE UNCHANGED vars
  BY Zenon, <1>5 DEF RouterInv, vars, TypeOK, MacsExact, Finite, ValidLinks
<1> QED BY Zenon, <1>1, <1>2, <1>3, <1>4, <1>5 DEF Next

(* RouterInv holds in every reachable state. *)
THEOREM RouterInvariant == Spec => []RouterInv
BY InitRouterInv, NextRouterInv, PTL DEF Spec

(* The two indexes of learned MACs agree and stay within MAX_MACS, for any
   number of peers and any sequence of joins, departures, reloads and frames. *)
THEOREM MacIndexesAgree == Spec => []MacsExact
<1>1. RouterInv => MacsExact
  BY Zenon DEF RouterInv
<1> QED BY <1>1, RouterInvariant, PTL

(* No frame and no reload takes a MAC from a session that stays registered. *)
THEOREM MacsKept == Spec => MacKept
<1> DEFINE Kept == \A m \in DOMAIN macs :
                     macs[m] \in DOMAIN peers' => m \in DOMAIN macs' /\ macs'[m] = macs[m]
<1>1. ASSUME RouterInv, [Next]_vars PROVE Kept
  <2>1. ASSUME NEW S, S \subseteq DOMAIN peers, macs' = ReleaseMacs(S),
               DOMAIN peers' \cap S = {}
        PROVE  Kept
    BY Zenon, <1>1, <2>1, ReleaseFacts DEF RouterInv
  <2>2. CASE \E s \in Sessions, n \in Names : PeerJoins(s, n)
    <3>1. PICK s \in Sessions, n \in Names : PeerJoins(s, n)
      BY Zenon, <2>2
    <3> DEFINE gone == {t \in DOMAIN peers : peers[t].name = n}
    <3>2. DOMAIN peers' \cap gone = {} /\ macs' = ReleaseMacs(gone)
      BY Zenon, <1>1, <3>1 DEF RouterInv, PeerJoins, Register, Unregister
    <3> QED BY Zenon, <1>1, <3>2, ReleaseFacts DEF RouterInv
  <2>3. CASE \E S \in SUBSET Sessions : PeersLeave(S)
    BY Zenon, <1>1, <2>1, <2>3 DEF PeersLeave, Unregister
  <2>4. CASE \E c \in Configs : ReloadConfig(c)
    <3>1. PICK c \in Configs : ReloadConfig(c)
      BY Zenon, <2>4
    <3> DEFINE gone == IF c.allowed # config.allowed THEN DOMAIN peers ELSE {}
    <3>2. DOMAIN peers' \cap gone = {} /\ macs' = ReleaseMacs(gone)
      BY Zenon, <1>1, <3>1 DEF RouterInv, ReloadConfig, ReplaceLinks, Unregister
    <3> QED BY Zenon, <1>1, <3>2, ReleaseFacts DEF RouterInv
  <2>5. CASE \E s \in Sessions, f \in Frames : FrameArrives(s, f)
    BY Zenon, <2>5 DEF FrameArrives, LearnMac
  <2>6. CASE UNCHANGED vars
    BY Zenon, <2>6 DEF vars
  <2> QED BY Zenon, <1>1, <2>2, <2>3, <2>4, <2>5, <2>6 DEF Next
<1>2. RouterInv /\ [Next]_vars => [Kept]_vars
  BY Zenon, <1>1
<1> QED BY <1>2, RouterInvariant, PTL DEF Spec, MacKept

-----------------------------------------------------------------------------
(* The edges of a policy of `between` groups go both ways. *)
LEMMA SymmetricEdges ==
  ASSUME SymmetricLinks, NEW c \in Configs, ValidLinks(c), NEW a, NEW b,
         <<a, b>> \in LinksForConfig(c)
  PROVE  <<b, a>> \in LinksForConfig(c)
<1>1. PICK l \in c.links :
        <<a, b>> \in (l.between \X l.between) \cup (l.transmitters \X l.receivers)
  BY Zenon DEF LinksForConfig
<1>2. <<a, b>> \in l.between \X l.between
  BY Zenon, <1>1 DEF SymmetricLinks
<1> QED BY <1>2 DEF LinksForConfig

(* Without directed groups every step leaves each session with exactly the
   receivers the edges give it: the one lookup of register is then right for both
   directions. *)
LEMMA NextLinksExact ==
  ASSUME SymmetricLinks, RouterInv, LinksExact, [Next]_vars
  PROVE  LinksExact'
<1> USE DEF RouterInv
<1>1. ASSUME NEW a, NEW b PROVE Linked(links, a, b) <=> Linked(links, b, a)
  BY Zenon, SymmetricEdges DEF Linked, TypeOK
<1>3. CASE \E s \in Sessions, n \in Names : PeerJoins(s, n)
  <2>1. PICK s \in Sessions, n \in Names : PeerJoins(s, n)
    BY Zenon, <1>3
  <2> DEFINE gone == {t \in DOMAIN peers : peers[t].name = n}
             rest == Unregister(gone)
             both == {t \in DOMAIN rest : Linked(links, n, rest[t].name)}
  <2>2. /\ DOMAIN rest = DOMAIN peers \ gone
        /\ rest \in [DOMAIN rest -> PeerEntry]
        /\ \A t \in DOMAIN rest :
             /\ rest[t].name = peers[t].name
             /\ rest[t].linked = {u \in DOMAIN rest \ {t} :
                                    Linked(links, peers[t].name, peers[u].name)}
    BY DEF Unregister, LinksExact, TypeOK, PeerEntry
  <2>3. /\ s \notin DOMAIN peers /\ links' = links
        /\ peers' = Register(rest, s, n, config.allowed[n])
    BY Zenon, <2>1 DEF PeerJoins
  <2> HIDE DEF rest, gone, RouterInv
  <2>4. /\ DOMAIN peers' = DOMAIN rest \cup {s}
        /\ peers'[s].name = n /\ peers'[s].linked = both
        /\ \A t \in DOMAIN rest :
             /\ peers'[t].name = rest[t].name
             /\ peers'[t].linked =
                  IF t \in both THEN rest[t].linked \cup {s} ELSE rest[t].linked
    BY <2>2, <2>3 DEF Register, PeerEntry
  <2>5. ASSUME NEW t \in DOMAIN peers'
        PROVE  peers'[t].linked =
                 {u \in DOMAIN peers' \ {t} : Linked(links', peers'[t].name, peers'[u].name)}
    <3>1. s \notin DOMAIN rest
      BY Zenon, <2>2, <2>3
    <3>2. CASE t = s
      <4>1. \A u \in DOMAIN rest : Linked(links, n, rest[u].name)
                                  <=> Linked(links', peers'[t].name, peers'[u].name)
        BY Zenon, <2>3, <2>4, <3>2
      <4>2. DOMAIN peers' \ {t} = DOMAIN rest
        BY Zenon, <2>4, <3>1, <3>2
      <4> QED BY Zenon, <2>4, <3>2, <4>1, <4>2
    <3>3. CASE t # s
      <4>1. t \in DOMAIN rest
        BY Zenon, <2>4, <3>3
      <4>2. t \in both <=> Linked(links', peers'[t].name, peers'[s].name)
        BY Zenon, <1>1, <2>3, <2>4, <4>1
      <4>3. \A u \in DOMAIN rest : Linked(links, peers[t].name, peers[u].name)
                                  <=> Linked(links', peers'[t].name, peers'[u].name)
        BY Zenon, <2>2, <2>3, <2>4, <4>1
      <4>4. DOMAIN peers' \ {t} = (DOMAIN rest \ {t}) \cup {s}
        BY Zenon, <2>4, <3>3
      <4>5. rest[t].linked = {u \in DOMAIN rest \ {t} :
                                Linked(links, peers[t].name, peers[u].name)}
        BY Zenon, <2>2, <4>1
      <4>6. peers'[t].linked = IF t \in both THEN rest[t].linked \cup {s} ELSE rest[t].linked
        BY Zenon, <2>4, <4>1
      <4> HIDE DEF both
      <4> QED BY Zenon, <3>1, <4>2, <4>3, <4>4, <4>5, <4>6
    <3> QED BY Zenon, <3>2, <3>3
  <2> QED BY Zenon, <2>5 DEF LinksExact
<1>4. CASE \E S \in SUBSET Sessions : PeersLeave(S)
  <2>1. PICK S \in SUBSET Sessions : PeersLeave(S)
    BY Zenon, <1>4
  <2> DEFINE rest == Unregister(S)
  <2>2. peers' = rest /\ links' = links
    BY Zenon, <2>1 DEF PeersLeave
  <2>3. /\ DOMAIN rest = DOMAIN peers \ S
        /\ \A t \in DOMAIN rest :
             /\ rest[t].name = peers[t].name
             /\ rest[t].linked = {u \in DOMAIN rest \ {t} :
                                    Linked(links, peers[t].name, peers[u].name)}
    BY DEF Unregister, LinksExact, TypeOK, PeerEntry
  <2> HIDE DEF rest
  <2> QED BY Zenon, <2>2, <2>3 DEF LinksExact
<1>5. CASE \E c \in Configs : ReloadConfig(c)
  <2>1. PICK c \in Configs : ReloadConfig(c)
    BY Zenon, <1>5
  <2> DEFINE gone == IF c.allowed # config.allowed THEN DOMAIN peers ELSE {}
             rest == Unregister(gone)
  <2>2. /\ DOMAIN rest = DOMAIN peers \ gone
        /\ DOMAIN rest \subseteq Sessions
        /\ rest \in [DOMAIN rest -> PeerEntry]
        /\ \A t \in DOMAIN rest :
             /\ rest[t].name = peers[t].name
             /\ rest[t].linked = {u \in DOMAIN rest \ {t} :
                                    Linked(links, peers[t].name, peers[u].name)}
    BY DEF Unregister, LinksExact, TypeOK, PeerEntry
  <2>3. \/ c.links # config.links /\ peers' = ReplaceLinks(rest, links')
        \/ c.links = config.links /\ peers' = rest /\ links' = links
    BY Zenon, <2>1 DEF ReloadConfig
  <2> HIDE DEF rest, gone
  <2> QED BY <2>2, <2>3, ReplaceFacts DEF LinksExact
<1>6. CASE \E s \in Sessions, f \in Frames : FrameArrives(s, f)
  <2>1. /\ DOMAIN peers' = DOMAIN peers /\ links' = links
        /\ \A t \in DOMAIN peers : /\ peers'[t].name = peers[t].name
                                 /\ peers'[t].linked = peers[t].linked
    BY <1>6 DEF FrameArrives, LearnMac, TypeOK, PeerEntry
  <2> QED BY <2>1 DEF LinksExact
<1>7. CASE UNCHANGED vars
  BY Zenon, <1>7 DEF vars, LinksExact
<1> QED BY Zenon, <1>3, <1>4, <1>5, <1>6, <1>7 DEF Next

-----------------------------------------------------------------------------
(* A nonempty set of natural numbers has a least element. *)
LEMMA Least ==
  ASSUME NEW S, S \subseteq Nat, S # {}
  PROVE  \E n \in S : \A m \in S : n <= m
<1> DEFINE T == {1 .. n : n \in S}
<1>1. T \subseteq FiniteSubsetsOf(Nat) /\ T # {}
  <2>1. \A n \in S : IsFiniteSet(1 .. n) /\ 1 .. n \subseteq Nat
    BY FS_Interval
  <2> QED BY Zenon, <2>1 DEF FiniteSubsetsOf
<1>2. IsWellFoundedOn(StrictSubsetOrdering(Nat), FiniteSubsetsOf(Nat))
  BY Zenon, FS_StrictSubsetOrderingWellFounded
<1> HIDE DEF T
<1>3. PICK x \in T : \A y \in T : ~(<<y, x>> \in StrictSubsetOrdering(Nat))
  BY Zenon, <1>1, <1>2, WFMin
<1>4. PICK n \in S : x = 1 .. n
  BY Zenon DEF T
<1>5. ASSUME NEW m \in S, m < n PROVE FALSE
  <2>1. 1 .. m \in T
    BY Zenon DEF T
  <2>2. 1 .. m \subseteq 1 .. n /\ n \in 1 .. n /\ n \notin 1 .. m
    BY <1>5
  <2>3. <<1 .. m, x>> \in StrictSubsetOrdering(Nat)
    BY <2>2, <1>4 DEF StrictSubsetOrdering
  <2> QED BY Zenon, <1>3, <2>1, <2>3
<1> QED BY <1>5

(* The sort of rebuild_table puts one entry first among those that contain an
   address. *)
LEMMA FirstEntry ==
  ASSUME NEW tbl, tbl \subseteq [prefix : Prefix, session : Sessions],
         NEW ip, Matching(tbl, ip) # {}
  PROVE  \E r \in Matching(tbl, ip) : \A q \in Matching(tbl, ip) : Before(r, q)
<1> DEFINE found == Matching(tbl, ip)
           shorter == {128 - r.prefix.len : r \in found}
<1>1. \A r \in found : r.prefix.len \in 0 .. 128 /\ r.session \in Nat
  BY Zenon, RouterBounds DEF Matching, Prefix
<1>2. shorter \subseteq Nat /\ shorter # {}
  BY <1>1
<1>3. PICK least \in shorter : \A m \in shorter : least <= m
  BY Zenon, <1>2, Least
<1> DEFINE longest == {r \in found : 128 - r.prefix.len = least}
           ids == {r.session : r \in longest}
<1> HIDE DEF found
<1>4. ids \subseteq Nat /\ ids # {}
  BY <1>1, <1>3
<1>5. PICK id \in ids : \A m \in ids : id <= m
  BY Zenon, <1>4, Least
<1>6. PICK r \in longest : r.session = id
  BY Zenon, <1>5
<1>7. ASSUME NEW q \in found PROVE Before(r, q)
  <2>1. /\ r.prefix.len \in Int /\ q.prefix.len \in Int
        /\ r.session \in Int /\ q.session \in Int
    BY <1>1, <1>6
  <2>2. 128 - r.prefix.len = least /\ least <= 128 - q.prefix.len
    BY Zenon, <1>3, <1>6
  <2>3. q.prefix.len = r.prefix.len => r.session <= q.session
    <3>1. SUFFICES ASSUME q.prefix.len = r.prefix.len PROVE r.session <= q.session
      BY Zenon
    <3>2. q \in longest
      BY Zenon, <2>2, <3>1
    <3>3. q.session \in ids
      BY Zenon, <3>2
    <3> QED BY Zenon, <1>5, <1>6, <3>3
  <2> QED BY <2>1, <2>2, <2>3, <1>3 DEF Before
<1> QED BY Zenon, <1>6, <1>7 DEF found

(* The session Router::owner returns is the one the configuration gives the
   address to, and it returns none only when there is none. *)
LEMMA OwnerExact ==
  ASSUME RouterInv, NEW ip
  PROVE  {t \in DOMAIN peers : Owns(t, ip)}
           = IF Matching(table, ip) = {} THEN {} ELSE {Owner(table, ip)}
<1> DEFINE found == Matching(table, ip)
<1>1. \A r : r \in found <=> \E t \in DOMAIN peers : \E p \in Configured(t) :
                  r = [prefix |-> p, session |-> t] /\ ip \in p.covers
  BY DEF RouterInv, Table, Matching, Configured
<1>2. \A r \in found : r.prefix.len \in 0 .. 128 /\ r.session \in Nat
  BY Zenon, RouterBounds DEF RouterInv, TypeOK, Matching, Prefix
<1>3. ASSUME NEW t \in DOMAIN peers
      PROVE  Owns(t, ip) <=> \E r \in found : r.session = t /\ \A q \in found : Before(r, q)
  <2> HIDE DEF found
  <2>1. ASSUME NEW p \in Configured(t), ip \in p.covers,
               \A u \in DOMAIN peers : \A q \in Configured(u) :
                 ip \in q.covers => q.len < p.len \/ (q.len = p.len /\ t <= u)
        PROVE  \E r \in found : r.session = t /\ \A q \in found : Before(r, q)
    <3> DEFINE r == [prefix |-> p, session |-> t]
    <3>1. r \in found
      BY Zenon, <1>1, <2>1
    <3>2. ASSUME NEW q \in found PROVE Before(r, q)
      <4>1. PICK u \in DOMAIN peers : \E w \in Configured(u) :
              q = [prefix |-> w, session |-> u] /\ ip \in w.covers
        BY Zenon, <1>1
      <4> QED BY <2>1, <4>1 DEF Before
    <3> QED BY Zenon, <3>1, <3>2
  <2>2. ASSUME NEW r \in found, r.session = t, \A q \in found : Before(r, q)
        PROVE  Owns(t, ip)
    <3>1. r.prefix \in Configured(t) /\ ip \in r.prefix.covers
      BY <1>1, <2>2
    <3>2. ASSUME NEW u \in DOMAIN peers, NEW w \in Configured(u), ip \in w.covers
          PROVE  w.len < r.prefix.len \/ (w.len = r.prefix.len /\ t <= u)
      <4> DEFINE q == [prefix |-> w, session |-> u]
      <4>1. q \in found
        BY Zenon, <1>1, <3>2
      <4>2. Before(r, q)
        BY Zenon, <2>2, <4>1
      <4> QED BY Zenon, <1>2, <2>2, <4>1, <4>2 DEF Before
    <3> QED BY Zenon, <3>1, <3>2 DEF Owns
  <2> QED BY Zenon, <2>1, <2>2 DEF Owns
<1>4. CASE found = {}
  BY Zenon, <1>3, <1>4
<1>5. CASE found # {}
  <2>1. \E r \in found : \A q \in found : Before(r, q)
    BY Zenon, <1>5, FirstEntry DEF RouterInv, TypeOK
  <2> DEFINE first == CHOOSE r \in found : \A q \in found : Before(r, q)
  <2>2. first \in found /\ (\A q \in found : Before(first, q)) /\ Owner(table, ip) = first.session
    BY Zenon, <2>1 DEF Owner
  <2> HIDE DEF found, first
  <2>3. first.session \in DOMAIN peers
    BY <1>1, <2>2
  <2>4. ASSUME NEW r \in found, \A q \in found : Before(r, q) PROVE r.session = first.session
    <3>1. Before(r, first) /\ Before(first, r)
      BY Zenon, <2>2, <2>4
    <3>2. /\ r.prefix.len \in Int /\ first.prefix.len \in Int
          /\ r.session \in Int /\ first.session \in Int
      BY <1>2, <2>2
    <3> QED BY <3>1, <3>2 DEF Before
  <2>5. \A t \in DOMAIN peers : Owns(t, ip) <=> t = first.session
    BY Zenon, <1>3, <2>2, <2>4
  <2> QED BY Zenon, <1>5, <2>2, <2>3, <2>5 DEF found
<1> QED BY Zenon, <1>4, <1>5

(* A packet to the owner of an address, or to the owner of a MAC, passes exactly
   when an edge of the configuration leads there. *)
LEMMA ReceiverExact ==
  ASSUME RouterInv, LinksExact, NEW s \in DOMAIN peers, NEW t \in DOMAIN peers
  PROVE  /\ ToReceiver(s, t).peers = IF MaySend(s, t) THEN {t} ELSE {}
         /\ ToReceiver(s, t).local = FALSE
<1>1. t \in peers[s].linked <=> MaySend(s, t)
  BY Zenon DEF RouterInv, LinksExact, MaySend
<1>2. ~MaySend(s, s)
  BY Zenon DEF MaySend
<1> QED BY Zenon, <1>1, <1>2 DEF ToReceiver, Drop, Forward

(* Exact receivers and an exact table route everything as the configuration in
   force says. *)
LEMMA Policy ==
  ASSUME RouterInv, LinksExact
  PROVE  RoutesByPolicy
<1> USE DEF Drop, Forward
<1>1. ASSUME NEW s \in DOMAIN peers, NEW p \in IpPackets
      PROVE  LET v == RouteIp(s, p)
             IN  /\ v.peers = {t \in DOMAIN peers :
                                 ConfiguredSource(s, p.src) /\ Owns(t, p.dst) /\ MaySend(s, t)}
                 /\ v.local <=> /\ ConfiguredSource(s, p.src) /\ p.dst # NoIp
                               /\ ~\E t \in DOMAIN peers : Owns(t, p.dst)
  <2>1. SourceAllowed(s, p.src) <=> ConfiguredSource(s, p.src)
    BY Zenon DEF RouterInv, SourceAllowed, ConfiguredSource, Configured
  <2>2. Configured(s) \subseteq Prefix
    BY Zenon DEF RouterInv, TypeOK, PeerEntry, Configured
  <2>3. ~ConfiguredSource(s, NoIp)
    BY Zenon, <2>2, RouterBounds DEF ConfiguredSource, Prefix
  <2>4. \A t \in DOMAIN peers : ~Owns(t, NoIp)
    <3>1. \A t \in DOMAIN peers : Configured(t) \subseteq Prefix
      BY Zenon DEF RouterInv, TypeOK, PeerEntry, Configured
    <3> QED BY Zenon, <3>1, RouterBounds DEF Owns, Prefix
  <2>5. CASE p.src = NoIp \/ p.dst = NoIp \/ ~SourceAllowed(s, p.src)
    BY Zenon, <2>1, <2>3, <2>4, <2>5 DEF RouteIp
  <2>6. CASE /\ p.src # NoIp /\ p.dst # NoIp /\ SourceAllowed(s, p.src)
             /\ Matching(table, p.dst) = {}
    <3>1. \A t \in DOMAIN peers : ~Owns(t, p.dst)
      BY Zenon, <2>6, OwnerExact
    <3> QED BY Zenon, <2>1, <2>6, <3>1 DEF RouteIp
  <2>7. CASE /\ p.src # NoIp /\ p.dst # NoIp /\ SourceAllowed(s, p.src)
             /\ Matching(table, p.dst) # {}
    <3> DEFINE o == Owner(table, p.dst)
    <3>1. {t \in DOMAIN peers : Owns(t, p.dst)} = {o}
      BY Zenon, <2>7, OwnerExact
    <3>2. o \in DOMAIN peers /\ \A t \in DOMAIN peers : Owns(t, p.dst) <=> t = o
      BY Zenon, <3>1
    <3>3. RouteIp(s, p) = ToReceiver(s, o)
      BY Zenon, <2>7 DEF RouteIp
    <3> HIDE DEF o
    <3>4. /\ ToReceiver(s, o).peers = IF MaySend(s, o) THEN {o} ELSE {}
          /\ ToReceiver(s, o).local = FALSE
      BY Zenon, <3>2, ReceiverExact
    <3> QED BY Zenon, <2>1, <2>7, <3>2, <3>3, <3>4
  <2> QED BY Zenon, <2>5, <2>6, <2>7
<1>2. ASSUME NEW s \in DOMAIN peers
      PROVE  FrameTo(s, Group) = Forward(TRUE, {t \in DOMAIN peers : MaySend(s, t)})
  <2>1. DOMAIN peers \cap (peers[s].linked \ {s}) = {t \in DOMAIN peers : MaySend(s, t)}
    BY Zenon DEF RouterInv, LinksExact, MaySend
  <2> QED BY Zenon, <2>1 DEF FrameTo
<1>3. ASSUME NEW s \in DOMAIN peers, NEW m \in DOMAIN macs
      PROVE  FrameTo(s, m).peers = {t \in DOMAIN peers : t = macs[m] /\ MaySend(s, t)}
  <2>1. m # Group /\ macs[m] \in DOMAIN peers
    BY Zenon, RouterBounds DEF RouterInv, TypeOK, MacsExact
  <2>2. FrameTo(s, m) = ToReceiver(s, macs[m])
    BY Zenon, <2>1 DEF FrameTo
  <2>3. ToReceiver(s, macs[m]).peers = IF MaySend(s, macs[m]) THEN {macs[m]} ELSE {}
    BY Zenon, <2>1, ReceiverExact
  <2> QED BY Zenon, <2>1, <2>2, <2>3
<1>4. ASSUME NEW ip PROVE RouteFromLocalIp(ip) = {t \in DOMAIN peers : Owns(t, ip)}
  BY Zenon, OwnerExact DEF RouteFromLocalIp
<1>5. ASSUME NEW m \in Macs, NEW ip
      PROVE  LET known == {t \in DOMAIN peers : m \in peers[t].macs}
                 owner == {t \in DOMAIN peers : Owns(t, ip)}
             IN  RouteFromLocalFrame(m, ip) =
                   IF known # {} THEN known ELSE IF owner # {} THEN owner ELSE DOMAIN peers
  <2>1. m # Group
    BY Zenon, RouterBounds
  <2>2. {t \in DOMAIN peers : m \in peers[t].macs}
          = IF m \in DOMAIN macs THEN {macs[m]} ELSE {}
    BY Zenon DEF RouterInv, MacsExact
  <2> QED BY Zenon, <1>4, <2>1, <2>2 DEF RouteFromLocalFrame
<1> QED BY Zenon, <1>1, <1>2, <1>3, <1>4, <1>5 DEF RoutesByPolicy

(* Under policies made of `between` groups every packet and frame goes where the
   configuration in force says, for any peers, prefixes, MACs and sequence of
   joins, departures and reloads.  With directed groups this fails: register
   decides the two directions by one lookup. *)
THEOREM SymmetricPoliciesHold ==
  ASSUME SymmetricLinks
  PROVE  Spec => []RoutesByPolicy
<1>1. Init => LinksExact
  BY Zenon DEF Init, LinksExact
<1>2. RouterInv /\ LinksExact /\ [Next]_vars => LinksExact'
  BY Zenon, NextLinksExact
<1>3. RouterInv /\ LinksExact => RoutesByPolicy
  BY Zenon, Policy
<1> QED BY <1>1, <1>2, <1>3, RouterInvariant, PTL DEF Spec

-----------------------------------------------------------------------------

(* A size on trial means that the last change is long enough ago. *)
MtuOK(m) ==
  /\ m \in MtuState
  /\ m.probe # NoProbe => m.since >= MIN_CHANGE_INTERVAL

(* What an operation on the MTU may do: change the effective MTU only when the
   interval is over, and then the interval starts anew; otherwise the interval
   goes on or starts anew. *)
PacedStep(m, r) ==
  /\ MtuOK(r)
  /\ r.effective # m.effective => m.since >= MIN_CHANGE_INTERVAL /\ r.since = 0
  /\ r.since \in {0, m.since}

LinkInv ==
  /\ LinkTypeOK
  /\ \A e \in BulkEnds : MtuOK(mtu[e])
  /\ trouble # "harmed" => path # NoPath
  /\ (holds = Ends /\ trouble # "harmed") =>
       /\ \E e \in Ends : quiet[e] + due["client"] <= LONGEST_INTERVAL
       /\ trouble = "none" => quiet["client"] + due["client"] <= LONGEST_INTERVAL

-----------------------------------------------------------------------------
(* The integer divisions of a step down and of a step up. *)
LEMMA DivBounds ==
  ASSUME NEW n \in Nat
  PROVE  /\ (n * 9) \div 10 \in Nat /\ (n * 9) \div 10 <= n
         /\ n \div 8 \in Nat /\ n \div 8 <= n
BY SMT

(* Steps stay between the minimum and the target. *)
LEMMA StepBounds ==
  ASSUME NEW m \in MtuState
  PROVE  /\ SteppedDown(m) \in MINIMUM_MTU..TARGET_MTU
         /\ SteppedUp(m) \in MINIMUM_MTU..TARGET_MTU
<1>1. /\ m.effective \in Nat /\ MINIMUM_MTU \in Nat /\ TARGET_MTU \in Nat
      /\ MINIMUM_MTU <= m.effective /\ m.effective <= TARGET_MTU
  BY MtuAssumption DEF MtuState
<1>2. TARGET_MTU - m.effective \in Nat
  BY <1>1
<1>3. /\ (m.effective * 9) \div 10 \in Nat /\ (m.effective * 9) \div 10 <= m.effective
      /\ (TARGET_MTU - m.effective) \div 8 \in Nat
  BY Zenon, <1>1, <1>2, DivBounds
<1> QED
  BY <1>1, <1>2, <1>3 DEF SteppedDown, SteppedUp, AtLeast, AtMost

(* The fields of the state. *)
LEMMA Fields ==
  ASSUME NEW m, MtuOK(m)
  PROVE  /\ m = [effective |-> m.effective, failures |-> m.failures,
                 successes |-> m.successes, since |-> m.since, probe |-> m.probe,
                 age |-> m.age]
         /\ m.effective \in MINIMUM_MTU..TARGET_MTU
         /\ m.failures \in 0..FAILURE_THRESHOLD
         /\ m.successes \in 0..MAX_SUCCESSES
         /\ m.since \in 0..MIN_CHANGE_INTERVAL
         /\ m.probe \in {NoProbe} \cup (MINIMUM_MTU..TARGET_MTU)
         /\ m.age \in 0..PROBE_EVALUATION_WINDOW
         /\ m.probe # NoProbe => m.since >= MIN_CHANGE_INTERVAL
BY Zenon DEF MtuOK, MtuState

(* A state made of fields that keep to the rules is the result of a paced step. *)
LEMMA Assemble ==
  ASSUME NEW m, MtuOK(m),
         NEW e \in MINIMUM_MTU..TARGET_MTU, NEW f \in 0..FAILURE_THRESHOLD,
         NEW n \in 0..MAX_SUCCESSES, NEW t \in {0, m.since},
         NEW p \in {NoProbe} \cup (MINIMUM_MTU..TARGET_MTU),
         NEW a \in 0..PROBE_EVALUATION_WINDOW,
         p # NoProbe => t >= MIN_CHANGE_INTERVAL,
         e # m.effective => m.since >= MIN_CHANGE_INTERVAL /\ t = 0
  PROVE  PacedStep(m, [effective |-> e, failures |-> f, successes |-> n, since |-> t,
                       probe |-> p, age |-> a])
<1>1. t \in 0..MIN_CHANGE_INTERVAL
  BY Fields, MtuAssumption
<1> QED
  BY Zenon, <1>1 DEF PacedStep, MtuOK, MtuState

(* Counters stay within their caps. *)
LEMMA Counts ==
  ASSUME NEW m, MtuOK(m)
  PROVE  /\ AtMost(m.successes + 1, MAX_SUCCESSES) \in 0..MAX_SUCCESSES
         /\ AtMost(m.failures + 1, FAILURE_THRESHOLD) \in 0..FAILURE_THRESHOLD
         /\ 0 \in 0..MAX_SUCCESSES /\ 0 \in 0..FAILURE_THRESHOLD
         /\ 0 \in 0..PROBE_EVALUATION_WINDOW
BY Fields, MtuAssumption DEF AtMost, AtLeast, MAX_SUCCESSES

(* record_success is a paced step. *)
LEMMA SuccessPaced ==
  ASSUME NEW m, MtuOK(m)
  PROVE  PacedStep(m, record_success(m))
<1> DEFINE n == AtMost(m.successes + 1, MAX_SUCCESSES)
<1>1. n \in 0..MAX_SUCCESSES /\ 0 \in 0..MAX_SUCCESSES /\ 0 \in 0..FAILURE_THRESHOLD
      /\ 0 \in 0..PROBE_EVALUATION_WINDOW
  BY Zenon, Counts
<1>2. m.probe # NoProbe => m.since >= MIN_CHANGE_INTERVAL
  BY Zenon, Fields
<1>a. SteppedUp(m) \in MINIMUM_MTU..TARGET_MTU
  BY Zenon, StepBounds DEF MtuOK
<1>3. CASE /\ m.probe # NoProbe
           /\ n >= PROBE_SUCCESS_THRESHOLD /\ m.age >= PROBE_EVALUATION_WINDOW
  <2>1. record_success(m) = [effective |-> m.probe, failures |-> 0, successes |-> 0,
                             since |-> 0, probe |-> NoProbe, age |-> 0]
    BY Zenon, <1>3, Fields DEF record_success, MtuOK, MtuState
  <2> QED
    BY <2>1, <1>1, <1>2, <1>3, Fields, Assemble
<1>4. CASE /\ m.probe = NoProbe
           /\ n >= SUCCESS_THRESHOLD /\ Settled(m) /\ m.effective < TARGET_MTU
  <2>1. record_success(m) = [effective |-> m.effective, failures |-> 0, successes |-> 0,
                             since |-> m.since, probe |-> SteppedUp(m), age |-> 0]
    BY Zenon, <1>4, Fields DEF record_success, MtuOK, MtuState
  <2>2. m.since >= MIN_CHANGE_INTERVAL
    BY Zenon, <1>4 DEF Settled
  <2> QED
    BY <2>1, <2>2, <1>1, <1>a, Fields, Assemble
<1>5. CASE /\ ~(/\ m.probe # NoProbe
                /\ n >= PROBE_SUCCESS_THRESHOLD /\ m.age >= PROBE_EVALUATION_WINDOW)
           /\ ~(/\ m.probe = NoProbe
                /\ n >= SUCCESS_THRESHOLD /\ Settled(m) /\ m.effective < TARGET_MTU)
  <2>1. record_success(m) = [effective |-> m.effective, failures |-> 0, successes |-> n,
                             since |-> m.since, probe |-> m.probe, age |-> m.age]
    BY Zenon, <1>5, Fields DEF record_success, MtuOK, MtuState
  <2> QED
    BY <2>1, <1>1, <1>2, Fields, Assemble
<1> QED
  BY Zenon, <1>3, <1>4, <1>5

(* So is a datagram that was too large. *)
LEMMA OversizedPaced ==
  ASSUME NEW m, MtuOK(m), NEW size \in Nat
  PROVE  PacedStep(m, record_oversized(m, size))
<1> DEFINE reduced == AtMost(AtLeast(AtMost(SteppedDown(m), AtLeast(size - 1, MINIMUM_MTU)),
                                     MINIMUM_MTU), m.effective)
<1>1. reduced \in MINIMUM_MTU..TARGET_MTU
  <2>1. SteppedDown(m) \in MINIMUM_MTU..TARGET_MTU /\ m.effective \in MINIMUM_MTU..TARGET_MTU
    BY Zenon, StepBounds, Fields DEF MtuOK
  <2> QED
    BY <2>1, MtuAssumption DEF AtMost, AtLeast
<1>2. 0 \in 0..MAX_SUCCESSES /\ 0 \in 0..FAILURE_THRESHOLD /\ 0 \in 0..PROBE_EVALUATION_WINDOW
  BY Zenon, Counts
<1>3. CASE Settled(m)
  <2>1. record_oversized(m, size) =
          [effective |-> reduced, failures |-> 0, successes |-> 0, since |-> 0,
           probe |-> NoProbe, age |-> 0]
    BY Zenon, <1>3, Fields DEF record_oversized, MtuOK, MtuState
  <2>2. m.since >= MIN_CHANGE_INTERVAL
    BY Zenon, <1>3 DEF Settled
  <2> HIDE DEF reduced
  <2> QED
    BY <2>1, <2>2, <1>1, <1>2, Fields, Assemble
<1>4. CASE ~Settled(m)
  <2>1. record_oversized(m, size) =
          [effective |-> m.effective, failures |-> 0, successes |-> 0, since |-> m.since,
           probe |-> NoProbe, age |-> 0]
    BY Zenon, <1>4, Fields DEF record_oversized, MtuOK, MtuState
  <2> QED
    BY <2>1, <1>2, Fields, Assemble
<1> QED
  BY Zenon, <1>3, <1>4

(* And a path failure. *)
LEMMA FailurePaced ==
  ASSUME NEW m, MtuOK(m)
  PROVE  PacedStep(m, record_path_failure(m))
<1> DEFINE n == AtMost(m.failures + 1, FAILURE_THRESHOLD)
<1>1. n \in 0..FAILURE_THRESHOLD /\ 0 \in 0..MAX_SUCCESSES /\ 0 \in 0..FAILURE_THRESHOLD
      /\ 0 \in 0..PROBE_EVALUATION_WINDOW
  BY Zenon, Counts
<1>2. SteppedDown(m) \in MINIMUM_MTU..TARGET_MTU
  BY Zenon, StepBounds DEF MtuOK
<1>3. CASE m.probe # NoProbe
  <2>1. record_path_failure(m) =
          [effective |-> m.effective, failures |-> 0, successes |-> 0, since |-> 0,
           probe |-> NoProbe, age |-> 0]
    BY Zenon, <1>3, Fields DEF record_path_failure, MtuOK, MtuState
  <2> QED
    BY <2>1, <1>1, Fields, Assemble
<1>4. CASE m.probe = NoProbe /\ n >= FAILURE_THRESHOLD /\ Settled(m)
  <2>1. record_path_failure(m) =
          [effective |-> SteppedDown(m), failures |-> 0, successes |-> 0, since |-> 0,
           probe |-> m.probe, age |-> m.age]
    BY Zenon, <1>4, Fields DEF record_path_failure, MtuOK, MtuState
  <2>2. m.since >= MIN_CHANGE_INTERVAL
    BY Zenon, <1>4 DEF Settled
  <2> QED
    BY <2>1, <2>2, <1>1, <1>2, <1>4, Fields, Assemble
<1>5. CASE m.probe = NoProbe /\ ~(n >= FAILURE_THRESHOLD /\ Settled(m))
  <2>1. record_path_failure(m) =
          [effective |-> m.effective, failures |-> n, successes |-> 0, since |-> m.since,
           probe |-> m.probe, age |-> m.age]
    BY Zenon, <1>5, Fields DEF record_path_failure, MtuOK, MtuState
  <2> QED
    BY <2>1, <1>1, <1>5, Fields, Assemble
<1> QED
  BY Zenon, <1>3, <1>4, <1>5

(* Two paced steps in a row, within one step of the link, change the effective
   MTU at most once. *)
LEMMA PacedTwice ==
  ASSUME NEW m, NEW r, NEW q, MtuOK(m), PacedStep(m, r), PacedStep(r, q)
  PROVE  PacedStep(m, q)
<1>1. MIN_CHANGE_INTERVAL > 0 /\ MIN_CHANGE_INTERVAL \in Nat
  BY MtuAssumption
<1> QED
  BY <1>1 DEF PacedStep, MtuOK, MtuState

(* Every outcome of an attempt to send is a paced step. *)
LEMMA AttemptPaced ==
  ASSUME NEW e \in BulkEnds, MtuOK(mtu[e]), NEW size \in Nat
  PROVE  PacedStep(mtu[e], Attempt(e, size))
<1> DEFINE m == mtu[e]
<1>1. PacedStep(m, m)
  BY Zenon DEF PacedStep
<1>2. PacedStep(m, record_success(m))
  BY Zenon, SuccessPaced
<1>3. PacedStep(m, record_oversized(m, size))
  BY Zenon, OversizedPaced
<1>4. PacedStep(m, record_path_failure(record_oversized(m, size)))
  <2> DEFINE r == record_oversized(m, size)
  <2>1. MtuOK(r)
    BY Zenon, <1>3 DEF PacedStep
  <2>2. PacedStep(m, r)
    BY Zenon, <1>3
  <2> HIDE DEF r
  <2>3. PacedStep(r, record_path_failure(r))
    BY Zenon, <2>1, FailurePaced
  <2>4. PacedStep(m, record_path_failure(r))
    BY Zenon, <2>2, <2>3, PacedTwice
  <2> QED
    BY Zenon, <2>4 DEF r
<1> QED
  BY Zenon, <1>1, <1>2, <1>3, <1>4 DEF Attempt, GoesOut

(* Three datagrams of a handshake are one paced step. *)
LEMMA HandshakePaced ==
  ASSUME NEW m, MtuOK(m)
  PROVE  PacedStep(m, record_success(record_success(record_success(m))))
<1> DEFINE r == record_success(m)
<1>1. PacedStep(m, r) /\ MtuOK(r)
  BY Zenon, SuccessPaced DEF PacedStep
<1> HIDE DEF r
<1> DEFINE q == record_success(r)
<1>2. PacedStep(r, q) /\ MtuOK(q)
  BY Zenon, <1>1, SuccessPaced DEF PacedStep
<1> HIDE DEF q
<1>3. PacedStep(q, record_success(q))
  BY Zenon, <1>2, SuccessPaced
<1>4. PacedStep(m, q)
  BY Zenon, <1>1, <1>2, PacedTwice
<1>5. PacedStep(m, record_success(q))
  BY Zenon, <1>3, <1>4, PacedTwice
<1> QED
  BY Zenon, <1>5 DEF q, r

(* A tick ages the state and leaves the effective MTU. *)
LEMMA OlderKeeps ==
  ASSUME NEW m, MtuOK(m)
  PROVE  MtuOK(Older(m)) /\ Older(m).effective = m.effective
<1>1. /\ OlderChange(m) \in 0..MIN_CHANGE_INTERVAL
      /\ OlderProbe(m) \in 0..PROBE_EVALUATION_WINDOW
      /\ m.probe # NoProbe => OlderChange(m) >= MIN_CHANGE_INTERVAL
  BY Fields, MtuAssumption DEF AtMost, OlderChange, OlderProbe
<1>2. m \in MtuState
  BY Zenon DEF MtuOK
<1>3. Older(m) \in MtuState
  BY Zenon, <1>1, <1>2 DEF Older, MtuState
<1>4. /\ Older(m).effective = m.effective /\ Older(m).probe = m.probe
      /\ Older(m).since = OlderChange(m)
  BY Zenon, <1>2 DEF Older, MtuState
<1> QED
  BY Zenon, <1>1, <1>3, <1>4 DEF MtuOK

(* Every step keeps the MTU states and paces their changes. *)
LEMMA MtuStep ==
  ASSUME LinkInv, [LinkNext]_linkVars
  PROVE  /\ mtu' \in [BulkEnds -> MtuState]
         /\ \A e \in BulkEnds :
              /\ MtuOK(mtu'[e])
              /\ mtu'[e].effective # mtu[e].effective =>
                   mtu[e].since >= MIN_CHANGE_INTERVAL
<1>0. mtu \in [BulkEnds -> MtuState] /\ \A e \in BulkEnds : MtuOK(mtu[e])
  BY Zenon DEF LinkInv, LinkTypeOK
<1>a. SMALL \in Nat /\ TARGET_MTU \in Nat
  BY Zenon, MtuAssumption DEF SMALL
<1>1. CASE UNCHANGED mtu
  BY Zenon, <1>0, <1>1
<1>2. ASSUME NEW ends, NEW size \in Nat, Sends(ends, size)
      PROVE  /\ mtu' \in [BulkEnds -> MtuState]
             /\ \A e \in BulkEnds :
                  /\ MtuOK(mtu'[e])
                  /\ mtu'[e].effective # mtu[e].effective =>
                       mtu[e].since >= MIN_CHANGE_INTERVAL
  <2>1. \A e \in BulkEnds : PacedStep(mtu[e], Attempt(e, size))
    BY Zenon, <1>0, AttemptPaced
  <2>2. \A e \in BulkEnds : mtu'[e] = Attempt(e, size) \/ mtu'[e] = mtu[e]
    BY Zenon, <1>2 DEF Sends
  <2>3. \A e \in BulkEnds : MtuOK(mtu'[e])
    BY Zenon, <2>1, <2>2, <1>0 DEF PacedStep
  <2>4. mtu' = [e \in BulkEnds |-> mtu'[e]]
    BY Zenon, <1>2 DEF Sends
  <2>5. mtu' \in [BulkEnds -> MtuState]
    BY Zenon, <2>3, <2>4 DEF MtuOK
  <2> QED
    BY Zenon, <2>1, <2>2, <2>3, <2>5 DEF PacedStep
<1>3. CASE Handshake
  <2>1. \A e \in BulkEnds : PacedStep(mtu[e], mtu'[e])
    BY Zenon, <1>3, <1>0, HandshakePaced DEF Handshake
  <2>2. mtu' = [e \in BulkEnds |-> mtu'[e]]
    BY Zenon, <1>3 DEF Handshake
  <2> QED
    BY Zenon, <2>1, <2>2 DEF PacedStep, MtuOK
<1>4. CASE Tick
  <2>1. \A e \in BulkEnds : MtuOK(mtu'[e]) /\ mtu'[e].effective = mtu[e].effective
    BY Zenon, <1>4, <1>0, OlderKeeps DEF Tick
  <2>2. mtu' = [e \in BulkEnds |-> mtu'[e]]
    BY Zenon, <1>4 DEF Tick
  <2> QED
    BY Zenon, <2>1, <2>2 DEF MtuOK
<1>5. \/ UNCHANGED mtu \/ Handshake \/ Tick
      \/ \E ends \in {{"client"}, {"server"}, Ends}, size \in {SMALL, TARGET_MTU} :
           Sends(ends, size)
  <2>1. CASE UNCHANGED linkVars
    BY Zenon, <2>1 DEF linkVars
  <2>2. ASSUME NEW e \in Ends, NEW size, Data(e, size)
        PROVE  Sends({e}, size)
    BY Zenon, <2>2 DEF Data, DropData
  <2>3. ASSUME NEW e \in Ends, SmallData(e) \/ FullData(e)
        PROVE  \E ends \in {{"client"}, {"server"}, Ends}, size \in {SMALL, TARGET_MTU} :
                 Sends(ends, size)
    BY Zenon, <2>2, <2>3 DEF SmallData, FullData, Ends
  <2>4. CASE ClientKeepalive
    BY Zenon, <2>4 DEF ClientKeepalive
  <2>5. CASE ServerKeepalive
    BY Zenon, <2>5 DEF ServerKeepalive
  <2>6. CASE \E e \in Ends : Stray(e)
    BY Zenon, <2>6 DEF Stray
  <2>7. CASE Rekey \/ Reconnect
    BY Zenon, <2>7 DEF Rekey, Reconnect
  <2>8. CASE ClientGivesUp \/ ServerSweeps \/ PathChanges \/ HostsChange
    BY Zenon, <2>8 DEF ClientGivesUp, ServerSweeps, PathChanges, HostsChange
  <2>9. CASE HandshakeFails
    BY Zenon, <2>9 DEF HandshakeFails
  <2> QED
    BY Zenon, <2>1, <2>3, <2>4, <2>5, <2>6, <2>7, <2>8, <2>9 DEF LinkNext
<1> QED
  BY Zenon, <1>1, <1>2, <1>3, <1>4, <1>5, <1>a

-----------------------------------------------------------------------------
(* The part of the invariant about silence, for a step to values d of due, q of
   quiet, h of holds, t of trouble. *)
HeardBy(d, q, h, t) ==
  (h = Ends /\ t # "harmed") =>
    /\ \E e \in Ends : q[e] + d["client"] <= LONGEST_INTERVAL
    /\ t = "none" => q["client"] + d["client"] <= LONGEST_INTERVAL

(* What a new interval for "ends" leaves of due. *)
LEMMA ActivityType ==
  ASSUME NEW ends, LinkTypeOK, Activity(ends)
  PROVE  /\ due' \in [Ends -> 0..LONGEST_INTERVAL]
         /\ \A e \in Ends \ ends : due'[e] = due[e]
<1>1. Intervals \subseteq 0..LONGEST_INTERVAL
  BY LinkAssumption DEF Intervals
<1>2. PICK draw \in [ends -> Intervals] :
        due' = [e \in Ends |-> IF e \in ends THEN draw[e] ELSE due[e]]
  BY Zenon DEF Activity
<1>3. due \in [Ends -> 0..LONGEST_INTERVAL]
  BY Zenon DEF LinkTypeOK
<1> QED
  BY Zenon, <1>1, <1>2, <1>3

(* What hearing leaves of quiet. *)
LEMMA HeardType ==
  ASSUME NEW ends, LinkTypeOK, Heard(ends)
  PROVE  /\ quiet' \in [Ends -> 0..TIMEOUT + 1]
         /\ \A e \in Ends : quiet'[e] = IF e \in ends \cap holds THEN 0 ELSE quiet[e]
<1>1. quiet \in [Ends -> 0..TIMEOUT + 1] /\ 0 \in 0..TIMEOUT + 1
  BY LinkAssumption DEF LinkTypeOK
<1> QED
  BY Zenon, <1>1 DEF Heard

(* Silence measured at an end that has just heard is nothing. *)
LEMMA FreshHeard ==
  ASSUME NEW d \in [Ends -> 0..LONGEST_INTERVAL], NEW q, NEW h, NEW t,
         q["client"] = 0 \/ (q["server"] = 0 /\ t # "none")
  PROVE  HeardBy(d, q, h, t)
<1>1. "client" \in Ends /\ "server" \in Ends /\ d["client"] \in 0..LONGEST_INTERVAL
  BY Zenon DEF Ends
<1>2. 0 + d["client"] <= LONGEST_INTERVAL
  BY <1>1, LinkAssumption
<1>3. CASE q["client"] = 0
  BY Zenon, <1>1, <1>2, <1>3 DEF HeardBy
<1>4. CASE q["server"] = 0 /\ t # "none"
  BY Zenon, <1>1, <1>2, <1>4 DEF HeardBy
<1> QED
  BY Zenon, <1>3, <1>4

(* Every step keeps the silence and the keepalive timer together. *)
LEMMA HeardStep ==
  ASSUME LinkInv, [LinkNext]_linkVars
  PROVE  /\ due' \in [Ends -> 0..LONGEST_INTERVAL]
         /\ quiet' \in [Ends -> 0..TIMEOUT + 1]
         /\ holds' \subseteq Ends
         /\ path' \in PathMtus \cup {NoPath}
         /\ bulk' \in BOOLEAN
         /\ trouble' \in {"none", "talked", "harmed"}
         /\ trouble' # "harmed" => path' # NoPath
         /\ HeardBy(due', quiet', holds', trouble')
<1>0. /\ LinkTypeOK
      /\ trouble # "harmed" => path # NoPath
      /\ HeardBy(due, quiet, holds, trouble)
      /\ "client" \in Ends /\ "server" \in Ends
  BY Zenon DEF LinkInv, HeardBy, Ends
<1> DEFINE Goal == /\ due' \in [Ends -> 0..LONGEST_INTERVAL]
                   /\ quiet' \in [Ends -> 0..TIMEOUT + 1]
                   /\ holds' \subseteq Ends
                   /\ path' \in PathMtus \cup {NoPath}
                   /\ bulk' \in BOOLEAN
                   /\ trouble' \in {"none", "talked", "harmed"}
                   /\ trouble' # "harmed" => path' # NoPath
                   /\ HeardBy(due', quiet', holds', trouble')
<1>1. CASE UNCHANGED linkVars
  BY Zenon, <1>0, <1>1 DEF linkVars, LinkTypeOK
<1>2. ASSUME NEW e \in Ends, NEW size, Data(e, size)
      PROVE  Goal
  <2>0. UNCHANGED <<holds, path, bulk>> /\ e \in holds
    BY Zenon, <1>2 DEF Data
  <2>1. CASE DropData(e, size)
    BY Zenon, <2>0, <2>1, <1>0 DEF DropData, LinkTypeOK
  <2>2. CASE Activity(Ends) /\ Heard({Other(e)}) /\ Talked(e)
    <3>1. /\ due' \in [Ends -> 0..LONGEST_INTERVAL]
          /\ quiet' \in [Ends -> 0..TIMEOUT + 1]
          /\ \A f \in Ends : quiet'[f] = IF f \in {Other(e)} \cap holds THEN 0 ELSE quiet[f]
      BY Zenon, <1>0, <2>2, ActivityType, HeardType
    <3>2. /\ trouble' \in {"none", "talked", "harmed"}
          /\ trouble' = "harmed" <=> trouble = "harmed"
          /\ e = "client" => trouble' # "none"
      BY Zenon, <1>0, <2>2 DEF Talked, LinkTypeOK
    <3>3. HeardBy(due', quiet', holds', trouble')
      <4>1. CASE holds' # Ends
        BY Zenon, <4>1 DEF HeardBy
      <4>2. CASE holds' = Ends
        <5>1. quiet'["client"] = 0 \/ (quiet'["server"] = 0 /\ trouble' # "none")
          BY Zenon, <4>2, <2>0, <3>1, <3>2 DEF Other, Ends
        <5> QED
          BY Zenon, <5>1, <3>1, FreshHeard
      <4> QED
        BY Zenon, <4>1, <4>2
    <3> QED
      BY Zenon, <3>1, <3>2, <3>3, <2>0, <1>0 DEF LinkTypeOK
  <2>3. CASE Activity({e}) /\ Harm /\ UNCHANGED quiet
    <3>1. due' \in [Ends -> 0..LONGEST_INTERVAL]
      BY Zenon, <1>0, <2>3, ActivityType
    <3> QED
      BY Zenon, <3>1, <2>3, <2>0, <1>0 DEF LinkTypeOK, Harm, HeardBy
  <2> QED
    BY Zenon, <1>2, <2>1, <2>2, <2>3 DEF Data
<1>3. CASE ClientKeepalive
  <2>0. UNCHANGED <<holds, path, bulk>>
    BY Zenon, <1>3 DEF ClientKeepalive
  <2>1. CASE "server" \in holds /\ Activity(Ends) /\ Heard(Ends) /\ UNCHANGED trouble
    <3>1. /\ due' \in [Ends -> 0..LONGEST_INTERVAL]
          /\ quiet' \in [Ends -> 0..TIMEOUT + 1]
          /\ \A f \in Ends : quiet'[f] = IF f \in Ends \cap holds THEN 0 ELSE quiet[f]
      BY Zenon, <1>0, <2>1, ActivityType, HeardType
    <3>2. quiet'["client"] = 0
      BY Zenon, <3>1, <1>0, <1>3 DEF ClientKeepalive
    <3>3. HeardBy(due', quiet', holds', trouble')
      BY Zenon, <3>1, <3>2, FreshHeard
    <3> QED
      BY Zenon, <3>1, <3>3, <2>0, <2>1, <1>0 DEF LinkTypeOK
  <2>2. CASE "server" \in holds /\ Activity(Ends) /\ Heard({"server"}) /\ Harm
    <3>1. due' \in [Ends -> 0..LONGEST_INTERVAL] /\ quiet' \in [Ends -> 0..TIMEOUT + 1]
      BY Zenon, <1>0, <2>2, ActivityType, HeardType
    <3> QED
      BY Zenon, <3>1, <2>2, <2>0, <1>0 DEF LinkTypeOK, Harm, HeardBy
  <2>3. CASE "server" \notin holds /\ Activity(Ends) /\ UNCHANGED <<quiet, trouble>>
    <3>1. due' \in [Ends -> 0..LONGEST_INTERVAL]
      BY Zenon, <1>0, <2>3, ActivityType
    <3> QED
      BY Zenon, <3>1, <2>3, <2>0, <1>0 DEF LinkTypeOK, HeardBy
  <2>4. CASE Activity({"client"}) /\ Harm /\ UNCHANGED quiet
    <3>1. due' \in [Ends -> 0..LONGEST_INTERVAL]
      BY Zenon, <1>0, <2>4, ActivityType
    <3> QED
      BY Zenon, <3>1, <2>4, <2>0, <1>0 DEF LinkTypeOK, Harm, HeardBy
  <2> QED
    BY Zenon, <1>3, <2>1, <2>2, <2>3, <2>4 DEF ClientKeepalive
<1>4. CASE ServerKeepalive
  <2>0. UNCHANGED <<holds, path, bulk>>
    BY Zenon, <1>4 DEF ServerKeepalive
  <2>1. CASE Activity({"server"}) /\ UNCHANGED <<quiet, trouble>>
    <3>1. due' \in [Ends -> 0..LONGEST_INTERVAL] /\ due'["client"] = due["client"]
      BY Zenon, <1>0, <2>1, ActivityType
    <3>2. HeardBy(due', quiet', holds', trouble')
      BY Zenon, <3>1, <2>0, <2>1, <1>0 DEF HeardBy
    <3> QED
      BY Zenon, <3>1, <3>2, <2>0, <2>1, <1>0 DEF LinkTypeOK
  <2>2. CASE Activity(Ends) /\ Heard({"client"}) /\ UNCHANGED trouble
    <3>1. /\ due' \in [Ends -> 0..LONGEST_INTERVAL]
          /\ quiet' \in [Ends -> 0..TIMEOUT + 1]
          /\ \A f \in Ends : quiet'[f] = IF f \in {"client"} \cap holds THEN 0 ELSE quiet[f]
      BY Zenon, <1>0, <2>2, ActivityType, HeardType
    <3>2. HeardBy(due', quiet', holds', trouble')
      <4>1. CASE holds' # Ends
        BY Zenon, <4>1 DEF HeardBy
      <4>2. CASE holds' = Ends
        BY Zenon, <4>2, <2>0, <3>1, <1>0, FreshHeard
      <4> QED
        BY Zenon, <4>1, <4>2
    <3> QED
      BY Zenon, <3>1, <3>2, <2>0, <2>2, <1>0 DEF LinkTypeOK
  <2>3. CASE Activity({"server"}) /\ Harm /\ UNCHANGED quiet
    <3>1. due' \in [Ends -> 0..LONGEST_INTERVAL]
      BY Zenon, <1>0, <2>3, ActivityType
    <3> QED
      BY Zenon, <3>1, <2>3, <2>0, <1>0 DEF LinkTypeOK, Harm, HeardBy
  <2> QED
    BY Zenon, <1>4, <2>1, <2>2, <2>3 DEF ServerKeepalive
<1>5. ASSUME NEW e \in Ends, Stray(e)
      PROVE  Goal
  <2>1. due' \in [Ends -> 0..LONGEST_INTERVAL] /\ (e = "server" => due'["client"] = due["client"])
    BY Zenon, <1>0, <1>5, ActivityType DEF Stray
  <2>2. UNCHANGED <<quiet, holds, path, bulk>>
    BY Zenon, <1>5 DEF Stray
  <2>3. CASE e = "client"
    BY Zenon, <1>5, <2>1, <2>2, <2>3, <1>0 DEF Stray, Harm, LinkTypeOK, HeardBy
  <2>4. CASE e = "server"
    <3>1. UNCHANGED trouble
      BY Zenon, <1>5, <2>4 DEF Stray
    <3>2. HeardBy(due', quiet', holds', trouble')
      BY Zenon, <3>1, <2>1, <2>2, <2>4, <1>0 DEF HeardBy
    <3> QED
      BY Zenon, <3>1, <3>2, <2>1, <2>2, <1>0 DEF LinkTypeOK
  <2> QED
    BY Zenon, <2>3, <2>4 DEF Ends
<1>6. CASE Handshake
  <2>1. due' \in [Ends -> 0..LONGEST_INTERVAL]
    BY Zenon, <1>0, <1>6, ActivityType DEF Handshake
  <2>2. quiet' \in [Ends -> 0..TIMEOUT + 1] /\ quiet'["client"] = 0
    BY <1>0, <1>6, LinkAssumption DEF Handshake
  <2>3. HeardBy(due', quiet', holds', trouble')
    BY Zenon, <2>1, <2>2, FreshHeard
  <2> QED
    BY Zenon, <2>1, <2>2, <2>3, <1>0, <1>6 DEF Handshake, LinkTypeOK
<1>7. CASE ClientGivesUp \/ ServerSweeps
  <2>1. holds' # Ends /\ holds' \subseteq Ends
    BY Zenon, <1>0, <1>7 DEF ClientGivesUp, ServerSweeps, LinkTypeOK
  <2> QED
    BY Zenon, <2>1, <1>0, <1>7 DEF ClientGivesUp, ServerSweeps, LinkTypeOK, HeardBy
<1>8. CASE Tick
  <2>0. UNCHANGED <<holds, path, bulk, trouble>>
    BY Zenon, <1>8 DEF Tick
  <2>1. /\ due \in [Ends -> 0..LONGEST_INTERVAL] /\ quiet \in [Ends -> 0..TIMEOUT + 1]
        /\ LONGEST_INTERVAL \in Nat /\ TIMEOUT \in Nat
    BY Zenon, <1>0, LinkAssumption DEF LinkTypeOK
  <2>2. \A e \in Ends : due'[e] \in 0..LONGEST_INTERVAL /\ quiet'[e] \in 0..TIMEOUT + 1
    BY <1>8, <2>1 DEF Tick, AtLeast, AtMost
  <2>3. due' \in [Ends -> 0..LONGEST_INTERVAL] /\ quiet' \in [Ends -> 0..TIMEOUT + 1]
    BY Zenon, <1>8, <2>2 DEF Tick
  <2>4. \A e \in Ends : quiet'[e] <= quiet[e] + 1
    BY <1>8, <2>1 DEF Tick, AtMost
  <2>5. ASSUME holds = Ends, trouble # "harmed"
        PROVE  due'["client"] = due["client"] - 1
    <3>1. GoesOut("client", SMALL)
      <4>1. path \in Nat /\ path # NoPath /\ SMALL <= path
        BY <2>5, <1>0, LinkAssumption DEF LinkTypeOK, SMALL, NoPath
      <4>2. "client" \in BulkEnds => mtu["client"].effective \in MINIMUM_MTU..TARGET_MTU
        BY Zenon, <1>0 DEF LinkTypeOK, MtuState
      <4>3. SMALL <= effective_mtu("client")
        BY <4>2, MtuAssumption, LinkAssumption DEF effective_mtu, SMALL
      <4> QED
        BY Zenon, <4>1, <4>3 DEF GoesOut, Fits
    <3>2. due["client"] # 0
      BY Zenon, <3>1, <2>5, <1>0, <1>8 DEF Tick, KeepaliveDue
    <3>3. due'["client"] = AtLeast(due["client"] - 1, 0)
      BY Zenon, <1>8, <1>0 DEF Tick
    <3> QED
      BY <3>2, <3>3, <2>1, <1>0 DEF AtLeast
  <2>6. HeardBy(due', quiet', holds', trouble')
    <3>1. SUFFICES ASSUME holds' = Ends, trouble' # "harmed"
                   PROVE  /\ \E e \in Ends : quiet'[e] + due'["client"] <= LONGEST_INTERVAL
                          /\ trouble' = "none" =>
                               quiet'["client"] + due'["client"] <= LONGEST_INTERVAL
      BY Zenon DEF HeardBy
    <3>2. due'["client"] = due["client"] - 1 /\ due["client"] \in Nat
      BY <3>1, <2>0, <2>1, <2>5, <1>0
    <3>3. \A e \in Ends : quiet[e] + due["client"] <= LONGEST_INTERVAL =>
                            quiet'[e] + due'["client"] <= LONGEST_INTERVAL
      <4> TAKE e \in Ends
      <4>1. quiet[e] \in Nat /\ quiet'[e] \in Nat
        BY <2>1, <2>3
      <4>2. quiet'[e] <= quiet[e] + 1
        BY Zenon, <2>4
      <4> QED
        BY <4>1, <4>2, <3>2, <2>1
    <3> QED
      BY Zenon, <3>1, <3>3, <2>0, <1>0 DEF HeardBy
  <2> QED
    BY Zenon, <2>0, <2>3, <2>6, <1>0 DEF LinkTypeOK
<1>9. CASE PathChanges
  BY Zenon, <1>9, <1>0 DEF PathChanges, Harm, LinkTypeOK, HeardBy
<1>10. CASE HostsChange
  BY Zenon, <1>10, <1>0 DEF HostsChange, LinkTypeOK, HeardBy
<1>11. CASE HandshakeFails
  <2>1. due' \in [Ends -> 0..LONGEST_INTERVAL]
    <3>1. CASE Activity({"client"})
      BY Zenon, <3>1, <1>0, ActivityType
    <3>2. CASE UNCHANGED due
      BY Zenon, <3>2, <1>0 DEF LinkTypeOK
    <3> QED
      BY Zenon, <3>1, <3>2, <1>11 DEF HandshakeFails
  <2>2. holds' \subseteq Ends /\ trouble' = "harmed" /\ UNCHANGED <<quiet, path, bulk>>
    BY Zenon, <1>0, <1>11 DEF HandshakeFails, Harm, LinkTypeOK
  <2> QED
    BY Zenon, <2>1, <2>2, <1>0 DEF LinkTypeOK, HeardBy
<1> QED
  BY Zenon, <1>1, <1>2, <1>3, <1>4, <1>5, <1>6, <1>7, <1>8, <1>9, <1>10, <1>11
     DEF LinkNext, SmallData, FullData, Rekey, Reconnect

-----------------------------------------------------------------------------
(* The link starts in the invariant. *)
LEMMA InitLinkInv ==
  ASSUME LinkInit
  PROVE  LinkInv
<1>1. NewMtu \in MtuState /\ MtuOK(NewMtu)
  BY MtuAssumption DEF NewMtu, MtuState, MtuOK, NoProbe, MAX_SUCCESSES, AtLeast
<1>2. due \in [Ends -> 0..LONGEST_INTERVAL]
  BY LinkAssumption DEF LinkInit, Intervals
<1>3. quiet \in [Ends -> 0..TIMEOUT + 1] /\ quiet["client"] = 0
  BY LinkAssumption DEF LinkInit, Ends
<1>4. HeardBy(due, quiet, holds, trouble)
  BY Zenon, <1>2, <1>3, FreshHeard
<1>5. path \in PathMtus /\ path # NoPath
  BY Zenon, LinkAssumption DEF LinkInit, NoPath
<1> QED
  BY Zenon, <1>1, <1>2, <1>3, <1>4, <1>5 DEF LinkInit, LinkInv, LinkTypeOK, HeardBy

(* Every step keeps it. *)
LEMMA NextLinkInv ==
  ASSUME LinkInv, [LinkNext]_linkVars
  PROVE  LinkInv'
BY Zenon, MtuStep, HeardStep DEF LinkInv, LinkTypeOK, HeardBy, MtuOK

(* The invariant holds in every state of the link, for every timeout, every
   range of keepalive intervals and every set of thresholds. *)
THEOREM LinkInvariant == LinkSpec => []LinkInv
<1>1. LinkInit => LinkInv
  BY Zenon, InitLinkInv
<1>2. LinkInv /\ [LinkNext]_linkVars => LinkInv'
  BY Zenon, NextLinkInv
<1> QED
  BY <1>1, <1>2, PTL DEF LinkSpec

(* On a link that loses nothing and brings the client nothing else, one of the
   ends has always heard the other within the longest keepalive interval, and a
   client whose host is silent has heard the server. *)
THEOREM OneEndHears == LinkSpec => []LinkHeard
<1>1. LinkInv => LinkHeard
  <2> SUFFICES ASSUME LinkInv, holds = Ends, trouble # "harmed"
               PROVE  /\ \E e \in Ends : quiet[e] <= LONGEST_INTERVAL
                      /\ trouble = "none" => quiet["client"] <= LONGEST_INTERVAL
    BY Zenon DEF LinkHeard
  <2>1. /\ due["client"] \in Nat /\ \A e \in Ends : quiet[e] \in Nat
        /\ LONGEST_INTERVAL \in Nat /\ "client" \in Ends
    BY LinkAssumption DEF LinkInv, LinkTypeOK, Ends
  <2> QED
    BY <2>1 DEF LinkInv
<1> QED
  BY <1>1, LinkInvariant, PTL

(* No transport changes its effective MTU twice within MIN_CHANGE_INTERVAL. *)
THEOREM MtuChangesPaced == LinkSpec => MtuPaced
<1>1. LinkInv /\ [LinkNext]_linkVars =>
        [\A e \in BulkEnds : mtu'[e].effective # mtu[e].effective =>
                               mtu[e].since >= MIN_CHANGE_INTERVAL]_linkVars
  BY Zenon, MtuStep
<1> QED
  BY <1>1, LinkInvariant, PTL DEF LinkSpec, MtuPaced

=============================================================================
