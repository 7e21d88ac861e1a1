----------------------------- MODULE ClientProofs -----------------------------
(***************************************************************************)
(* Proofs about the client's process and its host, first of one step of a  *)
(* client: which interfaces, routes and DNS links it moves, that the       *)
(* halves of the address space are taken in order, and that the tunnel is  *)
(* never without its kill switch.  Then of the whole: the daemon's clients *)
(* have one owner each, the server stays on the physical network, and what *)
(* a client changes on the host is taken back.                             *)
(***************************************************************************)
EXTENDS Daemon, TLAPS

(* A step of one client, on its own or because of the network. *)
Runs(c) == ClientStep(c) \/ ReconnectResolve(c) \/ SessionLost(c) \/ DataPlaneError(c)

(* The types of the interfaces that destinations are routed to, and of the
   services that have DNS servers. *)
Routes == [Halves \cup Endpoints -> Clients \cup {None, "physical"}]
Links == [Clients -> SUBSET {"NetworkManager", "resolved"}]

(* What the types give, of the host and of the tasks. *)
LEMMA Typed ==
  ASSUME TypeOK
  PROVE  /\ setup \in Setups /\ pc \in [Clients -> Phases]
         /\ server \in [Clients -> Addresses] /\ found \in [Clients -> Addresses]
         /\ killSwitch \in Tables /\ device \subseteq Clients
         /\ route \in [Halves \cup Endpoints -> Clients \cup {None, "physical"}]
         /\ linkDns \in [Clients -> SUBSET {"NetworkManager", "resolved"}]
         /\ mishaps \subseteq {"unclean", "overlap"}
BY Zenon DEF TypeOK

(* The same of the process and the flags of its tasks. *)
LEMMA Flags ==
  ASSUME TypeOK
  PROVE  /\ process \in {"up", "down"} /\ armed \in BOOLEAN /\ socket6 \subseteq Clients
         /\ stop \in [Clients -> BOOLEAN] /\ connected \in [Clients -> BOOLEAN]
BY Zenon DEF TypeOK

(* Nothing of the host's changes, and the tasks and the process keep their
   types. *)
LEMMA TasksTyped ==
  ASSUME TypeOK, UNCHANGED <<setup, server, found, socket6, network, files>>,
         process' \in {"up", "down"}, armed' \in BOOLEAN, pc' \in [Clients -> Phases],
         stop' \in [Clients -> BOOLEAN], connected' \in [Clients -> BOOLEAN],
         mishaps' \subseteq {"unclean", "overlap"}
  PROVE  TypeOK'
<1>1. /\ setup' \in Setups /\ Addresses' = Addresses BY Zenon DEF TypeOK, Addresses
<1>2. /\ server' \in [Clients -> Addresses] /\ found' \in [Clients -> Addresses]
      /\ socket6' \subseteq Clients /\ killSwitch' \in Tables /\ device' \subseteq Clients
      /\ route' \in [Halves \cup Endpoints -> Clients \cup {None, "physical"}]
      /\ linkDns' \in [Clients -> SUBSET {"NetworkManager", "resolved"}]
  BY Zenon DEF TypeOK, network, files
<1> QED BY ZenonT(30), <1>1, <1>2 DEF TypeOK

(* A client starts, is told to stop, or is forgotten; a process starts. *)
LEMMA OutsideTyped ==
  ASSUME TypeOK, UNCHANGED <<setup, server, found, socket6, network, files>>,
         mishaps' \subseteq {"unclean", "overlap"}, NEW c \in Clients,
         \/ Start(c)
         \/ /\ UNCHANGED <<process, armed, connected>>
            /\ \/ pc' = [pc EXCEPT ![c] = "idle"] /\ stop' = stop
               \/ pc' = pc /\ stop' \in [Clients -> BOOLEAN]
  PROVE  TypeOK'
<1>1. /\ pc \in [Clients -> Phases] /\ stop \in [Clients -> BOOLEAN]
      /\ connected \in [Clients -> BOOLEAN]
      /\ process \in {"up", "down"} /\ armed \in BOOLEAN
  BY Zenon, Typed, Flags
<1>2. {"idle", "resolving"} \subseteq Phases BY Zenon DEF Phases
<1>3. CASE Start(c) BY Zenon, <1>1, <1>2, <1>3, TasksTyped DEF Start, Goto
<1>4. CASE UNCHANGED <<process, armed, connected>> /\ pc' = [pc EXCEPT ![c] = "idle"] /\ stop' = stop
  BY Zenon, <1>1, <1>2, <1>4, TasksTyped
<1>5. CASE UNCHANGED <<process, armed, connected>> /\ pc' = pc /\ stop' \in [Clients -> BOOLEAN]
  BY Zenon, <1>1, <1>5, TasksTyped
<1> QED BY ZenonT(30), <1>3, <1>4, <1>5

(* What the invariant of the process says of the host and of the clients. *)
LEMMA Invariants ==
  ASSUME DaemonInv
  PROVE  /\ HostInv /\ OwnersExact /\ TypeOK /\ DeviceExact /\ Exclusive /\ HalvesTaken
         /\ GuardHeld /\ PinsHeld
         /\ OneAtATime /\ ~TORN_WRITES => FilesHeld
BY Zenon DEF DaemonInv, HostInv

(* Who owns the clients of a daemon. *)
LEMMA Owners ==
  ASSUME DaemonInv
  PROVE  slot \in Clients \cup {None} /\ waiting \in [Conns -> Clients \cup {None}]
BY Zenon DEF DaemonInv, OwnersExact

(* What the configuration gives. *)
LEMMA SetupFacts ==
  ASSUME TypeOK
  PROVE  /\ Addresses \subseteq Endpoints /\ Addresses # {}
         /\ {DefaultRoute, DefaultRouteV6, Hostname, Dns, Guarded} \subseteq BOOLEAN
         /\ setup.mode \in {"foreground", "daemon"}
         /\ \A c \in Clients : server[c] \in Endpoints /\ found[c] \in Endpoints
<1>1. setup \in [mode : {"foreground", "daemon"},
                  default_route : BOOLEAN, default_route_v6 : BOOLEAN,
                  hostname : BOOLEAN, dns : BOOLEAN, nm_dns : BOOLEAN,
                  addresses : (SUBSET Endpoints) \ {{}}]
  BY Zenon, ConfigAssumption DEF TypeOK
<1>2. /\ setup.mode \in {"foreground", "daemon"} /\ setup.addresses \in (SUBSET Endpoints) \ {{}}
      /\ setup.default_route \in BOOLEAN /\ setup.default_route_v6 \in BOOLEAN
      /\ setup.hostname \in BOOLEAN /\ setup.dns \in BOOLEAN
  BY Zenon, <1>1
<1>3. Addresses \subseteq Endpoints /\ Addresses # {} BY Zenon, <1>2 DEF Addresses
<1>4. {DefaultRoute, DefaultRouteV6, Hostname, Dns, Guarded} \subseteq BOOLEAN
  BY Zenon, <1>2 DEF DefaultRoute, DefaultRouteV6, Hostname, Dns, Guarded
<1> QED BY Zenon, <1>2, <1>3, <1>4 DEF TypeOK

(* A route to an address exists. *)
LEMMA Best ==
  ASSUME TypeOK, NEW e \in Endpoints
  PROVE  Half(e) \in Halves /\ BestRouteTo(e) \in Clients \cup {"physical"}
BY Zenon, NamesAssumption DEF TypeOK, BestRouteTo, Half, Halves, None

(* preserve_server_route changes the one route. *)
LEMMA PreservedFacts ==
  ASSUME TypeOK, NEW e \in Endpoints
  PROVE  /\ Preserved(e) \in Routes
         /\ Preserved(e)[e] = BestRouteTo(e)
         /\ \A d \in (Halves \cup Endpoints) \ {e} : Preserved(e)[d] = route[d]
         /\ \A h \in Halves : Preserved(e)[h] = route[h]
BY Zenon, Best, NamesAssumption DEF TypeOK, Routes, Preserved, Halves

(* The routes of one family, if it goes through the tunnel. *)
LEMMA ConfigureFamilyFacts ==
  ASSUME TypeOK, NEW c \in Clients, NEW wanted, NEW half \in Halves, NEW from, NEW to,
         ConfigureFamily(c, wanted, half, from, to), wanted
  PROVE  /\ route' \in Routes
         /\ route'[half] = c
         /\ route'[server[c]] = BestRouteTo(server[c])
         /\ \A d \in (Halves \cup Endpoints) \ {half, server[c]} : route'[d] = route[d]
         /\ route[half] \in {None, c}
<1>1. server[c] \in Endpoints BY Zenon, SetupFacts
<1>2. server[c] # half BY Zenon, <1>1, NamesAssumption DEF Halves
<1> QED BY <1>1, <1>2, PreservedFacts DEF ConfigureFamily, Routes, TypeOK

(* configure_client_network that fails: the server may be pinned, or its route
   gone, and the half of the family may be taken. *)
LEMMA ConfigureFailsFacts ==
  ASSUME TypeOK, NEW c \in Clients, ConfigureFails(c)
  PROVE  /\ route' \in Routes
         /\ \A e \in Endpoints :
              \/ route'[e] \in {route[e], None}
              \/ /\ e = server[c] /\ route'[e] = BestRouteTo(e)
                 /\ pc[c] \in {"cfg_v4", "cfg_v6"}
         /\ \A h \in Halves :
              \/ route'[h] = route[h]
              \/ /\ route[h] \in {None, c} /\ route'[h] = c
                 /\ pc[c] \in {"cfg_v4", "cfg_v6"}
                 /\ IF h = "half4" THEN DefaultRoute ELSE DefaultRouteV6
         /\ ~Guarded => route' = route
         /\ pc'[c] = "td_routes" /\ UNCHANGED <<server, killSwitch>>
<1>1. server[c] \in Endpoints /\ server[c] \notin Halves BY Zenon, SetupFacts, NamesAssumption DEF Halves
<1>2. Endpoints \cap Halves = {} BY Zenon, NamesAssumption DEF Halves
<1>3. route \in Routes BY Zenon, Typed DEF Routes
<1>4. ASSUME NEW wanted, NEW half \in Halves, NEW from, FamilyFails(c, wanted, half, from)
      PROVE  /\ route' \in Routes
             /\ \A e \in Endpoints :
                  route'[e] \in {route[e], None} \/ (e = server[c] /\ route'[e] = BestRouteTo(e))
             /\ \A h \in Halves :
                  route'[h] = route[h] \/ (h = half /\ route[h] \in {None, c} /\ route'[h] = c)
             /\ wanted /\ pc[c] = from
  <2>1. CASE route' = route BY Zenon, <1>3, <1>4, <2>1 DEF FamilyFails
  <2>2. CASE route' = Preserved(server[c])
    BY Zenon, <1>1, <1>4, <2>2, PreservedFacts DEF FamilyFails
  <2>3. CASE route' = [route EXCEPT ![server[c]] = None]
    BY Zenon, <1>1, <1>3, <1>4, <2>3 DEF FamilyFails, Routes
  <2>4. CASE route' = [Preserved(server[c]) EXCEPT ![half] = c] /\ route[half] \in {None, c}
    <3>1. Preserved(server[c]) \in Routes BY Zenon, <1>1, PreservedFacts
    <3>2. route' \in Routes /\ route'[half] = c BY Zenon, <2>4, <3>1 DEF Routes
    <3>3. \A d \in (Halves \cup Endpoints) \ {half} : route'[d] = Preserved(server[c])[d]
      BY Zenon, <2>4, <3>1 DEF Routes
    <3> QED BY Zenon, <1>1, <1>2, <1>4, <2>4, <3>2, <3>3, PreservedFacts DEF FamilyFails
  <2> QED BY Zenon, <1>4, <2>1, <2>2, <2>3, <2>4 DEF FamilyFails
<1>5. pc'[c] = "td_routes" /\ UNCHANGED <<server, killSwitch>>
  BY Zenon, Typed DEF ConfigureFails, Goto
<1>6. CASE route' = route BY Zenon, <1>3, <1>5, <1>6
<1>7. CASE FamilyFails(c, DefaultRoute, "half4", "cfg_v4")
  BY Zenon, <1>4, <1>5, <1>7 DEF Halves, Guarded
<1>8. CASE FamilyFails(c, DefaultRouteV6, "half6", "cfg_v6")
  <2>1. "half6" # "half4" OBVIOUS
  <2> QED BY Zenon, <1>4, <1>5, <1>8, <2>1 DEF Halves, Guarded
<1> QED BY Zenon, <1>6, <1>7, <1>8 DEF ConfigureFails

(* teardown_client_network removes what is the client's, and no more; the route
   of the server is gone, or noted. *)
LEMMA TornDownFacts ==
  ASSUME TypeOK, NEW c \in Clients, TeardownRoutes(c)
  PROVE  /\ route' \in Routes
         /\ \A d \in Halves \cup Endpoints : route'[d] \in {None, route[d]}
         /\ \A h \in Halves : route[h] # c => route'[h] = route[h]
         /\ Tunnelled(server[c]) => route'[server[c]] = None \/ "unclean" \in mishaps'
         /\ mishaps' \in {mishaps, mishaps \cup {"unclean"}}
<1>1. server[c] \in Endpoints /\ server[c] \notin Halves BY Zenon, SetupFacts, NamesAssumption DEF Halves
<1>2. route \in Routes BY Zenon, Typed DEF Routes
<1>3. PICK failed \in SUBSET Deleted(c) :
        /\ route' = [d \in DOMAIN route |-> IF d \in Deleted(c) \ failed THEN None ELSE route[d]]
        /\ mishaps' = IF server[c] \in failed THEN mishaps \cup {"unclean"} ELSE mishaps
  BY Zenon DEF TeardownRoutes
<1>4. \A h \in Halves : route[h] # c => h \notin Deleted(c)
  BY Zenon, <1>1 DEF Deleted
<1>5. route' \in Routes /\ \A d \in Halves \cup Endpoints :
        route'[d] = IF d \in Deleted(c) \ failed THEN None ELSE route[d]
  BY Zenon, <1>2, <1>3 DEF Routes
<1>6. Tunnelled(server[c]) => route[server[c]] = None \/ server[c] \in Deleted(c)
  BY Zenon DEF Deleted
<1> QED BY Zenon, <1>1, <1>3, <1>4, <1>5, <1>6

(* refresh_client_endpoint drops the route of the old address, or it is noted. *)
LEMMA UnpinFacts ==
  ASSUME TypeOK, NEW c \in Clients, RefreshUnpin(c)
  PROVE  /\ route' \in Routes
         /\ \A d \in Halves \cup Endpoints : route'[d] \in {None, route[d]}
         /\ \A h \in Halves : route'[h] = route[h]
         /\ route'[server[c]] = None \/ "unclean" \in mishaps'
         /\ mishaps' \in {mishaps, mishaps \cup {"unclean"}}
         /\ pc[c] = "re_unpin" /\ pc'[c] = "re_guard"
<1>1. server[c] \in Endpoints /\ server[c] \notin Halves BY Zenon, SetupFacts, NamesAssumption DEF Halves
<1>2. route \in Routes BY Zenon, Typed DEF Routes
<1>3. pc[c] = "re_unpin" /\ pc'[c] = "re_guard" BY Zenon, Typed DEF RefreshUnpin, Goto
<1>4. CASE route' = route /\ mishaps' = mishaps \cup {"unclean"}
  BY Zenon, <1>2, <1>3, <1>4
<1>5. CASE route' = [route EXCEPT ![server[c]] = None] /\ mishaps' = mishaps
  BY Zenon, <1>1, <1>2, <1>3, <1>5 DEF Routes
<1> QED BY Zenon, <1>4, <1>5 DEF RefreshUnpin

(* The routes that go with an interface. *)
LEMMA WithoutFacts ==
  ASSUME TypeOK, NEW gone
  PROVE  /\ Without(gone) \in Routes
         /\ \A d \in Halves \cup Endpoints :
              Without(gone)[d] = IF route[d] \in gone THEN None ELSE route[d]
BY Zenon DEF TypeOK, Routes, Without


(* Every step of a client respects the types. *)
LEMMA TypedStep ==
  ASSUME TypeOK, NEW c \in Clients, UNCHANGED setup, Runs(c)
  PROVE  TypeOK'
<1> USE ConfigAssumption DEF TypeOK, Goto, Addresses, Phases, Configuring, Reconnecting,
        TearingDown, Tables, NoTable, Table, Routes, Links, None, Halves, network, files
<1>1. CASE Resolve(c)
  BY <1>1 DEF Resolve
<1>2. CASE InstallBootstrap(c)
  <2>1. killSwitch' \in Tables BY <1>2, SetupFacts DEF InstallBootstrap
  <2> QED BY Zenon, <1>2, <2>1 DEF InstallBootstrap
<1>3. CASE ConfigureGuard(c)
  <2>1. killSwitch' \in Tables BY Zenon, <1>3, SetupFacts DEF ConfigureGuard
  <2> QED BY Zenon, <1>3, <2>1 DEF ConfigureGuard
<1>4. CASE RefreshGuard(c)
  <2>1. killSwitch' \in Tables BY Zenon, <1>4, SetupFacts DEF RefreshGuard
  <2> QED BY Zenon, <1>4, <2>1 DEF RefreshGuard
<1>5. CASE Establish(c) \/ CreateDevices(c)
  BY ZenonT(30), <1>5 DEF Establish, CreateDevices
<1>6. CASE BackUp(c) \/ WriteResolv(c)
  BY ZenonT(30), <1>6 DEF BackUp, DnsDone, WriteResolv
<1>7. CASE ConfigureRoutes(c)
  <2>1. route' \in Routes BY Zenon, <1>7, ConfigureFamilyFacts DEF ConfigureRoutes, ConfigureFamily
  <2> QED BY ZenonT(30), <1>7, <2>1 DEF ConfigureRoutes, ConfigureFamily
<1>8. CASE ConfigureFails(c)
  <2>1. route' \in Routes
    <3> HIDE DEF TypeOK
    <3> QED BY Zenon, <1>8, ConfigureFailsFacts
  <2>2. pc' \in [Clients -> Phases] BY Zenon, <1>8 DEF ConfigureFails
  <2> QED BY Zenon, <1>8, <2>1, <2>2 DEF ConfigureFails
<1>9. CASE SetDnsNetworkManager(c)
  <2>1. linkDns' \in Links BY <1>9 DEF SetDnsNetworkManager, ActivateProfile
  <2> QED BY ZenonT(30), <1>9, <2>1 DEF SetDnsNetworkManager, DnsDone
<1>10. CASE SetDnsResolved(c)
  <2>1. linkDns' \in Links BY <1>10 DEF SetDnsResolved, SetLinkDns
  <2> QED BY ZenonT(30), <1>10, <2>1 DEF SetDnsResolved, DnsDone
<1>11. CASE SessionLost(c) \/ DataPlaneError(c) \/ Shutdown(c)
  BY ZenonT(30), <1>11 DEF SessionLost, Lose, DataPlaneError, Shutdown
<1>12. CASE ReconnectResolve(c)
  BY <1>12 DEF ReconnectResolve
<1>13. CASE RefreshUnpin(c)
  <2>1. route' \in Routes /\ mishaps' \in {mishaps, mishaps \cup {"unclean"}}
    <3> HIDE DEF TypeOK
    <3> QED BY Zenon, <1>13, UnpinFacts
  <2> QED BY Zenon, <1>13, <2>1 DEF RefreshUnpin
<1>14. CASE RefreshPin(c)
  <2>1. Preserved(found[c]) \in Routes BY Zenon, SetupFacts, PreservedFacts
  <2> QED BY Zenon, <1>14, <2>1 DEF RefreshPin
<1>15. CASE RefreshFails(c)
  <2>1. Preserved(found[c]) \in Routes BY Zenon, SetupFacts, PreservedFacts
  <2> QED BY Zenon, <1>15, <2>1 DEF RefreshFails
<1>16. CASE Reconnected(c) \/ AttemptFails(c)
  BY ZenonT(30), <1>16 DEF Reconnected, AttemptFails
<1>17. CASE TeardownGivesUp(c) \/ TeardownGuard(c)
  <2>1. route' \in Routes BY <1>17, WithoutFacts DEF TeardownGivesUp, TeardownGuard
  <2>2. linkDns' \in Links BY Zenon, <1>17 DEF TeardownGivesUp, TeardownGuard
  <2>3. killSwitch' \in Tables BY Zenon, <1>17 DEF TeardownGivesUp, TeardownGuard
  <2>4. CASE TeardownGivesUp(c) BY ZenonT(30), <2>1, <2>2, <2>4 DEF TeardownGivesUp
  <2>5. CASE TeardownGuard(c) BY ZenonT(30), <2>1, <2>2, <2>3, <2>5 DEF TeardownGuard
  <2> QED BY Zenon, <1>17, <2>4, <2>5
<1>18. CASE TeardownRoutes(c)
  <2>1. route' \in Routes /\ mishaps' \in {mishaps, mishaps \cup {"unclean"}}
    <3> HIDE DEF TypeOK
    <3> QED BY Zenon, <1>18, TornDownFacts
  <2> QED BY Zenon, <1>18, <2>1 DEF TeardownRoutes
<1>19. CASE RevertDnsLink(c)
  <2>1. linkDns' \in Links BY <1>19 DEF RevertDnsLink, DeactivateProfile, RevertLinkDns
  <2> QED BY Zenon, <1>19, <2>1 DEF RevertDnsLink
<1>20. CASE TeardownDns(c)
  BY ZenonT(30), <1>20 DEF TeardownDns
<1>21. CASE RemoveBackup(c) \/ RemoveBootstrap(c)
  BY ZenonT(30), <1>21 DEF RemoveBackup, RemoveBootstrap
<1> QED BY ZenonT(30), <1>1, <1>2, <1>3, <1>4, <1>5, <1>6, <1>7, <1>8, <1>9, <1>10, <1>11, <1>12,
     <1>13, <1>14, <1>15, <1>16, <1>17, <1>18, <1>19, <1>20, <1>21 DEF Runs, ClientStep

(* A step moves one client, which neither starts nor is gone, and does not change
   who was asked to stop. *)
LEMMA Moves ==
  ASSUME TypeOK, NEW c \in Clients, UNCHANGED setup, Runs(c)
  PROVE  /\ pc[c] # "idle" /\ pc'[c] # "idle" /\ pc' = [pc EXCEPT ![c] = pc'[c]]
         /\ stop' = stop /\ mishaps' \in {mishaps, mishaps \cup {"unclean"}}
<1> USE Typed DEF Goto, Reconnecting
<1>1. CASE Resolve(c) \/ InstallBootstrap(c) \/ Establish(c) \/ CreateDevices(c)
  BY Zenon, <1>1 DEF Resolve, InstallBootstrap, Establish, CreateDevices
<1>2. CASE ConfigureGuard(c) \/ ConfigureRoutes(c) \/ ConfigureFails(c) \/
           SetDnsNetworkManager(c) \/ SetDnsResolved(c) \/ BackUp(c) \/ WriteResolv(c)
  BY Zenon, <1>2 DEF ConfigureGuard, ConfigureRoutes, ConfigureFamily, ConfigureFails, FamilyFails,
     SetDnsNetworkManager, DnsDone, ActivateProfile, SetDnsResolved, SetLinkDns, BackUp,
     WriteResolv
<1>3. CASE SessionLost(c) \/ DataPlaneError(c) \/ Shutdown(c) \/ ReconnectResolve(c) \/
           RefreshUnpin(c) \/ RefreshGuard(c) \/ RefreshPin(c) \/ RefreshFails(c) \/
           Reconnected(c) \/ AttemptFails(c)
  BY Zenon, <1>3 DEF SessionLost, Lose, DataPlaneError, Shutdown, ReconnectResolve,
     RefreshUnpin, RefreshGuard, RefreshPin, RefreshFails, Reconnected, AttemptFails
<1>4. CASE TeardownRoutes(c) \/ TeardownGivesUp(c) \/ RevertDnsLink(c) \/ TeardownDns(c)
           \/ RemoveBackup(c) \/ TeardownGuard(c) \/ RemoveBootstrap(c)
  BY Zenon, <1>4 DEF TeardownRoutes, TeardownGivesUp, Without, RevertDnsLink,
     DeactivateProfile, RevertLinkDns, TeardownDns, RemoveBackup, TeardownGuard,
     RemoveBootstrap
<1> QED BY Zenon, <1>1, <1>2, <1>3, <1>4 DEF Runs, ClientStep

(* The interface comes and goes with the phases that have one, and only they
   touch the routes and the resolver. *)
LEMMA DevicesMove ==
  ASSUME TypeOK, NEW c \in Clients, UNCHANGED setup, Runs(c)
  PROVE  \/ /\ device' = device /\ (pc[c] \in Owning <=> pc'[c] \in Owning)
            /\ pc[c] \notin Owning => UNCHANGED <<route, files>>
         \/ /\ pc[c] = "devices" /\ pc'[c] = "cfg_guard" /\ device' = device \cup {c}
            /\ (OneName => device = {}) /\ UNCHANGED <<route, files>>
         \/ /\ pc[c] \in {"td_routes", "td_guard"} /\ pc'[c] = "unguard"
            /\ device' = device \ {c} /\ route' = Without({c})
            /\ linkDns' = [linkDns EXCEPT ![c] = {}]
<1> USE Typed DEF Goto, Owning, Configuring, Reconnecting, TearingDown, network, files
<1>1. CASE Resolve(c) \/ InstallBootstrap(c) \/ Establish(c) \/ CreateDevices(c)
  BY <1>1 DEF Resolve, InstallBootstrap, Establish, CreateDevices
<1>2. CASE ConfigureGuard(c) \/ ConfigureRoutes(c) \/ ConfigureFails(c) \/
           SetDnsNetworkManager(c) \/ SetDnsResolved(c) \/ BackUp(c) \/ WriteResolv(c)
  BY Zenon, <1>2 DEF ConfigureGuard, ConfigureRoutes, ConfigureFamily, ConfigureFails, FamilyFails,
     SetDnsNetworkManager, DnsDone, ActivateProfile, SetDnsResolved, SetLinkDns, BackUp,
     WriteResolv
<1>3. CASE SessionLost(c) \/ DataPlaneError(c) \/ Shutdown(c) \/ ReconnectResolve(c) \/
           RefreshUnpin(c) \/ RefreshGuard(c) \/ RefreshPin(c) \/ RefreshFails(c) \/
           Reconnected(c) \/ AttemptFails(c)
  BY Zenon, <1>3 DEF SessionLost, Lose, DataPlaneError, Shutdown, ReconnectResolve,
     RefreshUnpin, RefreshGuard, RefreshPin, RefreshFails, Reconnected, AttemptFails
<1>4. CASE TeardownRoutes(c) \/ TeardownGivesUp(c) \/ RevertDnsLink(c) \/ TeardownDns(c)
           \/ RemoveBackup(c) \/ TeardownGuard(c) \/ RemoveBootstrap(c)
  BY <1>4 DEF TeardownRoutes, TeardownGivesUp, Without, RevertDnsLink,
     DeactivateProfile, RevertLinkDns, TeardownDns, RemoveBackup, TeardownGuard,
     RemoveBootstrap
<1> QED BY Zenon, <1>1, <1>2, <1>3, <1>4 DEF Runs, ClientStep

(* A step routes nothing into a tunnel but the client's own, unless some route
   went there already. *)
LEMMA RoutesThrough ==
  ASSUME TypeOK, NEW c \in Clients, UNCHANGED setup, Runs(c)
  PROVE  \A d \in Halves \cup Endpoints :
           \/ route'[d] \in {None, "physical", c}
           \/ \E x \in Halves \cup Endpoints : route'[d] = route[x]
<1> USE SetupFacts DEF network
<1>1. CASE Resolve(c) \/ InstallBootstrap(c) \/ Establish(c) \/ CreateDevices(c)
  BY ZenonT(30), <1>1 DEF Resolve, InstallBootstrap, Establish, CreateDevices
<1>2. CASE ConfigureGuard(c) \/ SetDnsNetworkManager(c) \/ SetDnsResolved(c) \/
           BackUp(c) \/ WriteResolv(c)
  BY Zenon, <1>2 DEF ConfigureGuard, SetDnsNetworkManager, DnsDone, ActivateProfile,
     SetDnsResolved, SetLinkDns, BackUp, WriteResolv
<1>3. CASE ConfigureRoutes(c)
  <2>1. BestRouteTo(server[c]) = "physical"
          \/ \E x \in Halves \cup Endpoints : BestRouteTo(server[c]) = route[x]
    BY Zenon, Best DEF BestRouteTo
  <2> QED BY <1>3, <2>1, ConfigureFamilyFacts DEF ConfigureRoutes, ConfigureFamily, Halves
<1>4. CASE ConfigureFails(c)
  <2>1. BestRouteTo(server[c]) = "physical"
          \/ \E x \in Halves \cup Endpoints : BestRouteTo(server[c]) = route[x]
    BY Zenon, Best DEF BestRouteTo
  <2>2. \A h \in Halves : route'[h] \in {route[h], c} BY Zenon, <1>4, ConfigureFailsFacts
  <2>3. \A e \in Endpoints : route'[e] \in {route[e], None, BestRouteTo(server[c])}
    BY <1>4, ConfigureFailsFacts
  <2> QED BY Zenon, <2>1, <2>2, <2>3
<1>5. CASE SessionLost(c) \/ DataPlaneError(c) \/ Shutdown(c) \/ ReconnectResolve(c) \/
           RefreshGuard(c) \/ Reconnected(c) \/ AttemptFails(c)
  BY Zenon, <1>5 DEF SessionLost, Lose, DataPlaneError, Shutdown, ReconnectResolve,
     RefreshGuard, Reconnected, AttemptFails
<1>6. CASE RefreshUnpin(c)
  BY Zenon, <1>6, UnpinFacts
<1>7. CASE RefreshPin(c)
  <2>1. BestRouteTo(found[c]) = "physical"
          \/ \E x \in Halves \cup Endpoints : BestRouteTo(found[c]) = route[x]
    BY Zenon, Best DEF BestRouteTo
  <2> QED BY <1>7, <2>1, PreservedFacts DEF RefreshPin
<1>8. CASE RefreshFails(c)
  <2>1. BestRouteTo(found[c]) = "physical"
          \/ \E x \in Halves \cup Endpoints : BestRouteTo(found[c]) = route[x]
    BY Zenon, Best DEF BestRouteTo
  <2>2. route' \in {route, Preserved(found[c])} BY Zenon, <1>8 DEF RefreshFails
  <2> QED BY <2>1, <2>2, PreservedFacts
<1>9. CASE RevertDnsLink(c) \/ TeardownDns(c) \/ RemoveBackup(c) \/ RemoveBootstrap(c)
  BY Zenon, <1>9 DEF RevertDnsLink, DeactivateProfile, RevertLinkDns, TeardownDns,
     RemoveBackup, RemoveBootstrap
<1>10. CASE TeardownRoutes(c)
  BY Zenon, <1>10, TornDownFacts DEF TeardownRoutes
<1>11. CASE TeardownGivesUp(c)
  BY <1>11, WithoutFacts DEF TeardownGivesUp
<1>12. CASE TeardownGuard(c)
  BY <1>12, WithoutFacts DEF TeardownGuard
<1> QED BY ZenonT(30), <1>1, <1>2, <1>3, <1>4, <1>5, <1>6, <1>7, <1>8, <1>9, <1>10, <1>11, <1>12 DEF
     Runs, ClientStep

(* A client sets and reverts the DNS servers of its own link. *)
LEMMA LinksMove ==
  ASSUME TypeOK, NEW c \in Clients, UNCHANGED setup, Runs(c)
  PROVE  \A b \in Clients \ {c} : linkDns'[b] = linkDns[b]
<1> USE Typed DEF files
<1>1. CASE Resolve(c) \/ InstallBootstrap(c) \/ Establish(c) \/ CreateDevices(c)
  BY Zenon, <1>1 DEF Resolve, InstallBootstrap, Establish, CreateDevices
<1>2. CASE ConfigureGuard(c) \/ ConfigureRoutes(c) \/ ConfigureFails(c) \/
           SetDnsNetworkManager(c) \/ SetDnsResolved(c) \/ BackUp(c) \/ WriteResolv(c)
  BY Zenon, <1>2 DEF ConfigureGuard, ConfigureRoutes, ConfigureFamily, ConfigureFails,
     SetDnsNetworkManager, DnsDone, ActivateProfile, SetDnsResolved, SetLinkDns, BackUp,
     WriteResolv
<1>3. CASE SessionLost(c) \/ DataPlaneError(c) \/ Shutdown(c) \/ ReconnectResolve(c) \/
           RefreshUnpin(c) \/ RefreshGuard(c) \/ RefreshPin(c) \/ RefreshFails(c) \/
           Reconnected(c) \/ AttemptFails(c)
  BY Zenon, <1>3 DEF SessionLost, Lose, DataPlaneError, Shutdown, ReconnectResolve,
     RefreshUnpin, RefreshGuard, RefreshPin, RefreshFails, Reconnected, AttemptFails
<1>4. CASE TeardownRoutes(c) \/ TeardownGivesUp(c) \/ RevertDnsLink(c) \/ TeardownDns(c)
           \/ RemoveBackup(c) \/ TeardownGuard(c) \/ RemoveBootstrap(c)
  BY Zenon, <1>4 DEF TeardownRoutes, TeardownGivesUp, Without, RevertDnsLink,
     DeactivateProfile, RevertLinkDns, TeardownDns, RemoveBackup, TeardownGuard,
     RemoveBootstrap
<1> QED BY Zenon, <1>1, <1>2, <1>3, <1>4 DEF Runs, ClientStep

(* Interfaces, and what needs one. *)
LEMMA DeviceStep ==
  ASSUME TypeOK, DeviceExact, NEW c \in Clients, UNCHANGED setup, Runs(c)
  PROVE  DeviceExact'
<1>1. pc' = [pc EXCEPT ![c] = pc'[c]] /\ pc \in [Clients -> Phases]
  BY Zenon, Moves, Typed
<1>2. device \subseteq Clients /\ linkDns \in Links /\ route \in Routes
  BY Zenon, Typed DEF Links, Routes
<1>3. \/ /\ device' = device /\ (pc[c] \in Owning <=> pc'[c] \in Owning)
         /\ pc[c] \notin Owning => route' = route /\ linkDns' = linkDns
      \/ /\ pc[c] \notin Owning /\ pc'[c] \in Owning /\ device' = device \cup {c}
         /\ route' = route /\ linkDns' = linkDns
      \/ /\ pc[c] \in Owning /\ pc'[c] \notin Owning /\ device' = device \ {c}
         /\ route' = Without({c}) /\ linkDns' = [linkDns EXCEPT ![c] = {}]
  BY ZenonT(30), DevicesMove DEF files, Owning, Configuring, Reconnecting, TearingDown
<1>4. device' = {b \in Clients : pc'[b] \in Owning}
  BY <1>1, <1>2, <1>3 DEF DeviceExact
<1>5. DOMAIN route' = Halves \cup Endpoints /\ DOMAIN route = Halves \cup Endpoints
  BY Zenon, TypedStep DEF TypeOK
<1>6. ASSUME NEW d \in DOMAIN route', route'[d] \in Clients PROVE route'[d] \in device'
  <2>1. route'[d] = c \/ \E x \in DOMAIN route : route'[d] = route[x]
    BY Zenon, <1>5, <1>6, RoutesThrough, NamesAssumption DEF None
  <2>2. CASE pc[c] \in Owning /\ pc'[c] \notin Owning
    <3>1. route' = Without({c}) /\ device' = device \ {c} BY Zenon, <1>3, <2>2
    <3>2. route'[d] = route[d] /\ route[d] # c
      BY Zenon, <1>5, <1>6, <3>1, WithoutFacts, NamesAssumption DEF None
    <3> QED BY Zenon, <1>5, <1>6, <3>1, <3>2 DEF DeviceExact
  <2>3. CASE device \subseteq device' /\ (pc[c] \in Owning \/ route' = route)
    BY Zenon, <1>1, <1>5, <1>6, <2>1, <2>3 DEF DeviceExact
  <2> QED BY Zenon, <1>3, <2>2, <2>3
<1>7. ASSUME NEW b \in Clients, linkDns'[b] # {} PROVE b \in device'
  <2>1. b # c => linkDns'[b] = linkDns[b] BY Zenon, LinksMove
  <2> QED BY Zenon, <1>2, <1>3, <1>4, <1>7, <2>1 DEF DeviceExact, Links
<1> QED BY Zenon, <1>4, <1>6, <1>7 DEF DeviceExact

(* As long as clients come one at a time, they do. *)
LEMMA ExclusiveStep ==
  ASSUME TypeOK, DeviceExact, Exclusive, NEW c \in Clients, UNCHANGED setup, Runs(c)
  PROVE  Exclusive' /\ OneAtATime' = OneAtATime
<1>1. /\ pc[c] # "idle" /\ pc' = [pc EXCEPT ![c] = pc'[c]] /\ pc \in [Clients -> Phases]
      /\ "overlap" \in mishaps' <=> "overlap" \in mishaps
  BY Moves, Typed
<1>2. OneAtATime' = OneAtATime BY Zenon, <1>1 DEF OneAtATime
<1>3. \/ device' \subseteq device
      \/ device' = device \cup {c} /\ (OneName => device = {})
  BY ZenonT(30), DevicesMove
<1>4. ASSUME "overlap" \notin mishaps PROVE device \subseteq {c}
  BY <1>1, <1>4 DEF DeviceExact, Exclusive, Owning, Configuring, Reconnecting, TearingDown
<1>5. OneAtATime => \A a, b \in device' : a = b
  BY Zenon, <1>3, <1>4 DEF Exclusive, OneAtATime
<1>6. "overlap" \notin mishaps' => \A a, b \in Clients : pc'[a] # "idle" /\ pc'[b] # "idle" => a = b
  BY Zenon, <1>1 DEF Exclusive
<1> QED BY Zenon, <1>2, <1>5, <1>6 DEF Exclusive

(* A client leaves the halves of the others alone. *)
LEMMA HalvesMove ==
  ASSUME TypeOK, NEW c \in Clients, UNCHANGED setup, Runs(c)
  PROVE  \A h \in Halves : \/ route'[h] = route[h]
                           \/ route[h] \in {None, c} /\ route'[h] \in {None, c}
<1> USE DEF network
<1>1. CASE Resolve(c) \/ InstallBootstrap(c) \/ Establish(c) \/ CreateDevices(c)
  BY ZenonT(30), <1>1 DEF Resolve, InstallBootstrap, Establish, CreateDevices
<1>2. CASE ConfigureGuard(c) \/ SetDnsNetworkManager(c) \/ SetDnsResolved(c) \/
           BackUp(c) \/ WriteResolv(c)
  BY ZenonT(30), <1>2 DEF ConfigureGuard, SetDnsNetworkManager, DnsDone, ActivateProfile,
     SetDnsResolved, SetLinkDns, BackUp, WriteResolv
<1>3. CASE ConfigureRoutes(c)
  <2>1. server[c] \in Endpoints /\ server[c] \notin Halves BY Zenon, SetupFacts, NamesAssumption DEF Halves
  <2> QED BY ZenonT(30), <1>3, <2>1, ConfigureFamilyFacts DEF ConfigureRoutes, ConfigureFamily, Halves
<1>4. CASE ConfigureFails(c)
  BY Zenon, <1>4, ConfigureFailsFacts DEF Guarded
<1>5. CASE SessionLost(c) \/ DataPlaneError(c) \/ Shutdown(c) \/ ReconnectResolve(c) \/
           RefreshGuard(c) \/ Reconnected(c) \/ AttemptFails(c)
  BY ZenonT(30), <1>5 DEF SessionLost, Lose, DataPlaneError, Shutdown, ReconnectResolve,
     RefreshGuard, Reconnected, AttemptFails
<1>6. CASE RefreshUnpin(c)
  BY Zenon, <1>6, UnpinFacts
<1>7. CASE RefreshPin(c)
  BY Zenon, <1>7, SetupFacts, PreservedFacts DEF RefreshPin
<1>8. CASE RefreshFails(c)
  BY <1>8, SetupFacts, PreservedFacts DEF RefreshFails
<1>9. CASE RevertDnsLink(c) \/ TeardownDns(c) \/ RemoveBackup(c) \/ RemoveBootstrap(c)
  BY Zenon, <1>9 DEF RevertDnsLink, DeactivateProfile, RevertLinkDns, TeardownDns,
     RemoveBackup, RemoveBootstrap
<1>10. CASE TeardownRoutes(c)
  BY Zenon, <1>10, TornDownFacts DEF TeardownRoutes
<1>11. CASE TeardownGivesUp(c)
  BY Zenon, <1>11, WithoutFacts DEF TeardownGivesUp
<1>12. CASE TeardownGuard(c)
  BY Zenon, <1>12, WithoutFacts DEF TeardownGuard
<1> QED BY ZenonT(30), <1>1, <1>2, <1>3, <1>4, <1>5, <1>6, <1>7, <1>8, <1>9, <1>10, <1>11, <1>12 DEF
     Runs, ClientStep

(* Taking one half, if wanted: the other one stays, and the server is pinned to
   the route it had. *)
TakesHalf(c, wanted, half, other, from, to) ==
  /\ pc[c] = from /\ pc' = [pc EXCEPT ![c] = to]
  /\ ~wanted => route' = route
  /\ wanted => /\ route[half] \in {None, c} /\ route'[half] = c
               /\ route'[other] = route[other]
               /\ route'[server[c]] = BestRouteTo(server[c])
               /\ \A e \in Endpoints \ {server[c]} : route'[e] = route[e]

LEMMA RoutesTaken ==
  ASSUME TypeOK, NEW c \in Clients, ConfigureRoutes(c)
  PROVE  \/ TakesHalf(c, DefaultRoute, "half4", "half6", "cfg_v4", "cfg_v6")
         \/ TakesHalf(c, DefaultRouteV6, "half6", "half4", "cfg_v6", "cfg_dns")
<1>1. server[c] \in Endpoints /\ server[c] \notin Halves BY Zenon, SetupFacts, NamesAssumption DEF Halves
<1>2. Endpoints \cap Halves = {} /\ "half4" \in Halves /\ "half6" \in Halves
  BY Zenon, NamesAssumption DEF Halves
<1>3. ASSUME NEW wanted, NEW half \in Halves, NEW other \in Halves \ {half}, NEW from, NEW to,
             ConfigureFamily(c, wanted, half, from, to)
      PROVE  TakesHalf(c, wanted, half, other, from, to)
  <2>1. ASSUME wanted
        PROVE  /\ route'[half] = c /\ route[half] \in {None, c}
               /\ route'[server[c]] = BestRouteTo(server[c])
               /\ \A d \in (Halves \cup Endpoints) \ {half, server[c]} : route'[d] = route[d]
    BY <1>1, <1>3, <2>1, PreservedFacts, Typed DEF ConfigureFamily, Routes
  <2>2. ~wanted => route' = route BY Zenon, <1>3 DEF ConfigureFamily
  <2>3. pc[c] = from /\ pc' = [pc EXCEPT ![c] = to] BY Zenon, <1>3 DEF ConfigureFamily, Goto
  <2> QED BY Zenon, <1>1, <1>2, <2>1, <2>2, <2>3 DEF TakesHalf
<1> QED BY Zenon, <1>2, <1>3 DEF ConfigureRoutes

(* How a client takes the halves, and keeps them. *)
LEMMA OwnHalves ==
  ASSUME TypeOK, DeviceExact, HalvesTaken, NEW c \in Clients, UNCHANGED setup, Runs(c)
  PROVE  /\ pc'[c] \in {"cfg_guard", "cfg_v4"} => \A d \in Halves \cup Endpoints : route'[d] # c
         /\ pc'[c] = "cfg_v6" => route'["half6"] # c
         /\ pc'[c] \in {"cfg_v6"} \cup Configured /\ DefaultRoute => route'["half4"] = c
         /\ pc'[c] \in Configured /\ DefaultRouteV6 => route'["half6"] = c
         /\ route'["half4"] = c => route["half4"] = c \/ DefaultRoute
         /\ route'["half6"] = c => route["half6"] = c \/ DefaultRouteV6
         /\ ~Guarded => \A d \in Halves \cup Endpoints : route'[d] = None
<1>0. ConfigureRoutes(c) => \/ TakesHalf(c, DefaultRoute, "half4", "half6", "cfg_v4", "cfg_v6")
                           \/ TakesHalf(c, DefaultRouteV6, "half6", "half4", "cfg_v6", "cfg_dns")
  BY Zenon, RoutesTaken
<1>00. pc \in [Clients -> Phases] /\ DOMAIN route = Halves \cup Endpoints BY Zenon, Typed
<1> USE <1>00 DEF Goto, Configured, Reconnecting, HalvesTaken, network
<1>1. CASE Resolve(c) \/ InstallBootstrap(c) \/ Establish(c)
  BY <1>1 DEF Resolve, InstallBootstrap, Establish
<1>2. CASE CreateDevices(c)
  <2>1. c \notin device BY Zenon, <1>2 DEF CreateDevices, DeviceExact, Owning, Configuring, Reconnecting, TearingDown
  <2>2. \A d \in Halves \cup Endpoints : route[d] # c BY <2>1, Typed DEF DeviceExact
  <2> QED BY <1>2, <2>2, Typed DEF CreateDevices
<1>3. CASE ConfigureGuard(c)
  BY Zenon, <1>3 DEF ConfigureGuard
<1>4. CASE ConfigureRoutes(c)
  <2>1. server[c] \in Endpoints /\ server[c] \notin Halves BY Zenon, SetupFacts, NamesAssumption DEF Halves
  <2>2. CASE TakesHalf(c, DefaultRoute, "half4", "half6", "cfg_v4", "cfg_v6")
    BY <2>1, <2>2 DEF TakesHalf, Guarded, Halves
  <2>3. CASE TakesHalf(c, DefaultRouteV6, "half6", "half4", "cfg_v6", "cfg_dns")
    BY Zenon, <2>1, <2>3 DEF TakesHalf, Guarded, Halves
  <2> QED BY Zenon, <1>0, <1>4, <2>2, <2>3
<1>5. CASE ConfigureFails(c)
  <2>1. /\ route'["half4"] = c => route["half4"] = c \/ DefaultRoute
        /\ route'["half6"] = c => route["half6"] = c \/ DefaultRouteV6
    BY Zenon, <1>5, ConfigureFailsFacts DEF Halves
  <2>2. pc'[c] = "td_routes" /\ (~Guarded => route' = route) BY Zenon, <1>5, ConfigureFailsFacts
  <2> QED BY Zenon, <2>1, <2>2
<1>6. CASE SetDnsNetworkManager(c) \/ SetDnsResolved(c) \/ BackUp(c) \/ WriteResolv(c)
  <2>1. CASE SetDnsNetworkManager(c) BY Zenon, <2>1 DEF SetDnsNetworkManager, DnsDone
  <2>2. CASE SetDnsResolved(c) BY Zenon, <2>2 DEF SetDnsResolved, DnsDone
  <2>3. CASE BackUp(c) \/ WriteResolv(c) BY Zenon, <2>3 DEF BackUp, DnsDone, WriteResolv
  <2> QED BY ZenonT(30), <1>6, <2>1, <2>2, <2>3
<1>7. CASE SessionLost(c) \/ DataPlaneError(c) \/ Shutdown(c)
  <2>1. CASE SessionLost(c) BY Zenon, <2>1 DEF SessionLost, Lose
  <2>2. CASE DataPlaneError(c) BY Zenon, <2>2 DEF DataPlaneError, Lose
  <2>3. CASE Shutdown(c) BY Zenon, <2>3 DEF Shutdown, Lose
  <2> QED BY ZenonT(30), <1>7, <2>1, <2>2, <2>3
<1>8. CASE ReconnectResolve(c) \/ RefreshGuard(c) \/ Reconnected(c) \/ AttemptFails(c)
  <2>1. CASE ReconnectResolve(c) BY <2>1 DEF ReconnectResolve
  <2>2. CASE RefreshGuard(c) BY Zenon, <2>2 DEF RefreshGuard
  <2>3. CASE Reconnected(c) \/ AttemptFails(c) BY Zenon, <2>3 DEF Reconnected, AttemptFails
  <2> QED BY ZenonT(30), <1>8, <2>1, <2>2, <2>3
<1>9. CASE RefreshUnpin(c)
  <2>1. pc'[c] = "re_guard" /\ pc[c] = "re_unpin" BY Zenon, <1>9, UnpinFacts
  <2>2. /\ \A h \in Halves : route'[h] = route[h]
        /\ \A d \in Halves \cup Endpoints : route'[d] \in {None, route[d]}
    BY Zenon, <1>9, UnpinFacts
  <2> QED BY Zenon, <2>1, <2>2 DEF Halves
<1>10. CASE RefreshPin(c)
  <2>1. \A h \in Halves : route'[h] = route[h]
    BY <1>10, SetupFacts, PreservedFacts DEF RefreshPin
  <2>2. pc'[c] = "re_establish" /\ pc[c] = "re_pin" BY Zenon, <1>10 DEF RefreshPin
  <2>3. ~Guarded => route' = route BY Zenon, <1>10 DEF RefreshPin
  <2> QED BY Zenon, <2>1, <2>2, <2>3 DEF Halves
<1>11. CASE RefreshFails(c)
  <2>1. \A h \in Halves : route'[h] = route[h]
    <3>1. found[c] \in Endpoints /\ route' \in {route, Preserved(found[c])}
      BY Zenon, <1>11, SetupFacts DEF RefreshFails
    <3> QED BY <3>1, PreservedFacts
  <2>2. pc'[c] \in {"reconnecting", "td_routes"} BY Zenon, <1>11 DEF RefreshFails
  <2>3. pc[c] \in {"re_guard", "re_pin"} /\ Guarded BY Zenon, <1>11 DEF RefreshFails
  <2> QED BY Zenon, <2>1, <2>2, <2>3 DEF Halves
<1>12. CASE RevertDnsLink(c) \/ TeardownDns(c) \/ RemoveBackup(c) \/ RemoveBootstrap(c)
  BY <1>12 DEF RevertDnsLink, DeactivateProfile, RevertLinkDns, TeardownDns,
     RemoveBackup, RemoveBootstrap
<1>13. CASE TeardownRoutes(c)
  <2>1. \A d \in Halves \cup Endpoints : route'[d] \in {None, route[d]}
    BY Zenon, <1>13, TornDownFacts DEF TeardownRoutes
  <2>2. pc'[c] \in {"td_dns", "td_guard"} BY Zenon, <1>13 DEF TeardownRoutes
  <2> QED BY Zenon, <2>1, <2>2, NamesAssumption DEF Halves, None
<1>14. CASE TeardownGivesUp(c)
  <2>1. \A d \in Halves \cup Endpoints : route'[d] \in {None, route[d]}
    BY <1>14, WithoutFacts DEF TeardownGivesUp
  <2>2. pc'[c] = "unguard" BY Zenon, <1>14 DEF TeardownGivesUp
  <2> QED BY Zenon, <2>1, <2>2, NamesAssumption DEF Halves, None
<1>15. CASE TeardownGuard(c)
  <2>1. \A d \in Halves \cup Endpoints : route'[d] \in {None, route[d]}
    BY <1>15, WithoutFacts DEF TeardownGuard
  <2> QED BY ZenonT(30), <1>15, <2>1, NamesAssumption, Typed DEF TeardownGuard, Halves, None
<1> QED BY ZenonT(30), <1>1, <1>2, <1>3, <1>4, <1>5, <1>6, <1>7, <1>8, <1>9, <1>10, <1>11, <1>12,
     <1>13, <1>14, <1>15 DEF Runs, ClientStep

(* The halves of all clients. *)
LEMMA HalvesStep ==
  ASSUME TypeOK, DeviceExact, HalvesTaken, NEW c \in Clients, UNCHANGED setup, Runs(c)
  PROVE  HalvesTaken'
<1>1. TypeOK' /\ pc' = [pc EXCEPT ![c] = pc'[c]] /\ pc \in [Clients -> Phases]
  BY Zenon, TypedStep, Moves DEF TypeOK
<1>2. UNCHANGED <<DefaultRoute, DefaultRouteV6, Guarded>>
  BY Zenon DEF DefaultRoute, DefaultRouteV6, Guarded
<1>3. DOMAIN route = Halves \cup Endpoints /\ DOMAIN route' = Halves \cup Endpoints
  BY Zenon, <1>1 DEF TypeOK
<1>4. /\ pc'[c] \in {"cfg_guard", "cfg_v4"} => \A d \in Halves \cup Endpoints : route'[d] # c
      /\ pc'[c] = "cfg_v6" => route'["half6"] # c
      /\ pc'[c] \in {"cfg_v6"} \cup Configured /\ DefaultRoute => route'["half4"] = c
      /\ pc'[c] \in Configured /\ DefaultRouteV6 => route'["half6"] = c
      /\ route'["half4"] = c => route["half4"] = c \/ DefaultRoute
      /\ route'["half6"] = c => route["half6"] = c \/ DefaultRouteV6
      /\ ~Guarded => \A d \in Halves \cup Endpoints : route'[d] = None
  BY Zenon, OwnHalves
<1>5. \A h \in Halves : \/ route'[h] = route[h]
                        \/ route[h] \in {None, c} /\ route'[h] \in {None, c}
  BY Zenon, HalvesMove
<1>6. /\ route'["half4"] \in {None} \cup (IF DefaultRoute THEN Clients ELSE {})
      /\ route'["half6"] \in {None} \cup (IF DefaultRouteV6 THEN Clients ELSE {})
  <2>1. /\ route["half4"] \in {None} \cup (IF DefaultRoute THEN Clients ELSE {})
        /\ route["half6"] \in {None} \cup (IF DefaultRouteV6 THEN Clients ELSE {})
    BY Zenon DEF HalvesTaken
  <2>2. /\ route'["half4"] = route["half4"] \/ route'["half4"] \in {None, c}
        /\ route'["half6"] = route["half6"] \/ route'["half6"] \in {None, c}
    BY Zenon, <1>5 DEF Halves
  <2> QED BY Zenon, <1>4, <2>1, <2>2
<1>7. ASSUME NEW b \in Clients \ {c}
      PROVE  /\ pc'[b] \in {"cfg_guard", "cfg_v4"} => \A d \in Halves \cup Endpoints : route'[d] # b
             /\ pc'[b] = "cfg_v6" => route'["half6"] # b
             /\ pc'[b] \in {"cfg_v6"} \cup Configured /\ DefaultRoute => route'["half4"] = b
             /\ pc'[b] \in Configured /\ DefaultRouteV6 => route'["half6"] = b
  <2>1. pc'[b] = pc[b] /\ b # None /\ b # "physical" BY Zenon, <1>1, NamesAssumption DEF None
  <2>2. \A d \in Halves \cup Endpoints :
          route'[d] \in {None, "physical", c} \/ \E x \in Halves \cup Endpoints : route'[d] = route[x]
    BY Zenon, RoutesThrough
  <2>3. \A h \in Halves : route'[h] = b <=> route[h] = b BY Zenon, <1>5, <2>1
  <2> QED BY <1>3, <2>1, <2>2, <2>3 DEF HalvesTaken, Halves
<1> QED BY Zenon, <1>2, <1>3, <1>4, <1>6, <1>7 DEF HalvesTaken

(* The kill switch is left alone, names the client's tunnel, or the client has no
   tunnel; and it goes when the client does. *)
LEMMA SwitchMoves ==
  ASSUME TypeOK, NEW c \in Clients, UNCHANGED setup, Runs(c)
  PROVE  /\ ~Guarded => killSwitch' = killSwitch
         /\ \/ /\ killSwitch' = killSwitch
               /\ pc'[c] \in {"cfg_v4", "cfg_v6"} \cup Configured
                    => pc[c] \in {"cfg_v4", "cfg_v6"} \cup Configured \/ ~Guarded
               /\ pc[c] \in Holding
                    => pc'[c] \in Holding \/ "unclean" \in mishaps' \/ ~Guarded
            \/ killSwitch'.dev = c /\ pc'[c] \in Owning
            \/ pc'[c] \notin Owning /\ (pc'[c] \in Holding \/ killSwitch' = NoTable)
<1>0. \A x : pc' = [pc EXCEPT ![c] = x] => pc'[c] = x BY Zenon, Typed
<1> USE <1>0 DEF Goto, Table, network, Configured, Configuring, Reconnecting,
        TearingDown, Owning, Holding
<1>1. CASE Resolve(c) \/ InstallBootstrap(c)
  BY Zenon, <1>1 DEF Resolve, InstallBootstrap
<1>2. CASE Establish(c) \/ CreateDevices(c)
  BY Zenon, <1>2 DEF Establish, CreateDevices
<1>3. CASE ConfigureGuard(c) \/ ConfigureRoutes(c)
  <2>1. CASE ConfigureGuard(c) BY ZenonT(30), <2>1 DEF ConfigureGuard
  <2>2. CASE ConfigureRoutes(c)
    <3>1. /\ killSwitch' = killSwitch
          /\ pc[c] \in {"cfg_v4", "cfg_v6"} /\ pc'[c] \in {"cfg_v6", "cfg_dns"}
      BY ZenonT(30), <2>2 DEF ConfigureRoutes, ConfigureFamily
    <3> QED BY Zenon, <3>1
  <2> QED BY ZenonT(30), <1>3, <2>1, <2>2
<1>4. CASE ConfigureFails(c)
  BY Zenon, <1>4 DEF ConfigureFails
<1>5. CASE SetDnsNetworkManager(c) \/ SetDnsResolved(c)
  <2>1. pc'[c] \in {"running", "cfg_link", "cfg_backup"} /\ pc[c] \in {"cfg_dns", "cfg_link"}
    BY ZenonT(30), <1>5 DEF SetDnsNetworkManager, DnsDone, SetDnsResolved
  <2>2. killSwitch' = killSwitch BY Zenon, <1>5 DEF SetDnsNetworkManager, SetDnsResolved
  <2> QED BY Zenon, <2>1, <2>2
<1>6. CASE BackUp(c) \/ WriteResolv(c)
  BY Zenon, <1>6 DEF BackUp, DnsDone, WriteResolv
<1>7. CASE SessionLost(c) \/ DataPlaneError(c) \/ Shutdown(c) \/ ReconnectResolve(c)
  BY ZenonT(30), <1>7 DEF SessionLost, Lose, DataPlaneError, Shutdown, ReconnectResolve
<1>8. CASE RefreshUnpin(c) \/ RefreshGuard(c)
  <2>1. CASE RefreshUnpin(c)
    <3>1. killSwitch' = killSwitch /\ pc[c] = "re_unpin" /\ pc'[c] = "re_guard"
      BY ZenonT(30), <2>1 DEF RefreshUnpin
    <3> QED BY Zenon, <3>1
  <2>2. CASE RefreshGuard(c) BY Zenon, <2>2 DEF RefreshGuard
  <2> QED BY ZenonT(30), <1>8, <2>1, <2>2
<1>9. CASE RefreshPin(c) \/ RefreshFails(c)
  <2>1. pc'[c] \in {"re_establish", "reconnecting", "td_routes"} /\ pc[c] \in {"re_guard", "re_pin"}
    BY Zenon, <1>9 DEF RefreshPin, RefreshFails
  <2>2. killSwitch' = killSwitch BY Zenon, <1>9 DEF RefreshPin, RefreshFails
  <2> QED BY Zenon, <2>1, <2>2
<1>10. CASE Reconnected(c) \/ AttemptFails(c)
  BY Zenon, <1>10 DEF Reconnected, AttemptFails
<1>11. CASE TeardownRoutes(c) \/ TeardownGivesUp(c)
  BY ZenonT(30), <1>11 DEF TeardownRoutes, TeardownGivesUp
<1>12. CASE RevertDnsLink(c) \/ TeardownDns(c) \/ RemoveBackup(c)
  BY ZenonT(30), <1>12 DEF RevertDnsLink, TeardownDns, RemoveBackup
<1>13. CASE TeardownGuard(c)
  BY ZenonT(30), <1>13 DEF TeardownGuard
<1>14. CASE RemoveBootstrap(c)
  BY Zenon, <1>14 DEF RemoveBootstrap
<1> QED BY ZenonT(30), <1>1, <1>2, <1>3, <1>4, <1>5, <1>6, <1>7, <1>8, <1>9, <1>10, <1>11, <1>12,
           <1>13, <1>14 DEF Runs, ClientStep

(* A half is taken only by configure_client_network. *)
LEMMA HalvesGuarded ==
  ASSUME TypeOK, NEW c \in Clients, UNCHANGED setup, Runs(c)
  PROVE  \A h \in Halves : route'[h] = c /\ route[h] # c =>
           /\ pc[c] \in {"cfg_v4", "cfg_v6"} /\ Guarded
           /\ killSwitch' = killSwitch
<1> USE DEF network
<1>1. CASE Resolve(c) \/ InstallBootstrap(c) \/ Establish(c) \/ CreateDevices(c)
  BY ZenonT(30), <1>1 DEF Resolve, InstallBootstrap, Establish, CreateDevices
<1>2. CASE ConfigureGuard(c) \/ SetDnsNetworkManager(c) \/ SetDnsResolved(c) \/
           BackUp(c) \/ WriteResolv(c)
  BY Zenon, <1>2 DEF ConfigureGuard, SetDnsNetworkManager, DnsDone, ActivateProfile,
     SetDnsResolved, SetLinkDns, BackUp, WriteResolv
<1>3. CASE ConfigureRoutes(c)
  BY ZenonT(30), <1>3, RoutesTaken DEF TakesHalf, ConfigureRoutes, ConfigureFamily, Guarded, Halves
<1>4. CASE ConfigureFails(c)
  BY Zenon, <1>4, ConfigureFailsFacts DEF Guarded
<1>5. CASE SessionLost(c) \/ DataPlaneError(c) \/ Shutdown(c) \/ ReconnectResolve(c) \/
           RefreshGuard(c) \/ Reconnected(c) \/ AttemptFails(c)
  BY ZenonT(30), <1>5 DEF SessionLost, Lose, DataPlaneError, Shutdown, ReconnectResolve,
     RefreshGuard, Reconnected, AttemptFails
<1>6. CASE RefreshUnpin(c)
  BY Zenon, <1>6, UnpinFacts
<1>7. CASE RefreshPin(c)
  BY Zenon, <1>7, SetupFacts, PreservedFacts DEF RefreshPin
<1>8. CASE RefreshFails(c)
  <2>1. found[c] \in Endpoints /\ route' \in {route, Preserved(found[c])}
    BY Zenon, <1>8, SetupFacts DEF RefreshFails
  <2>2. \A h \in Halves : Preserved(found[c])[h] = route[h] BY Zenon, <2>1, PreservedFacts
  <2>3. \A h \in Halves : route'[h] = route[h] BY Zenon, <2>1, <2>2
  <2> QED BY Zenon, <2>3
<1>9. CASE RevertDnsLink(c) \/ TeardownDns(c) \/ RemoveBackup(c) \/ RemoveBootstrap(c)
  BY Zenon, <1>9 DEF RevertDnsLink, DeactivateProfile, RevertLinkDns, TeardownDns,
     RemoveBackup, RemoveBootstrap
<1>10. CASE TeardownRoutes(c)
  BY Zenon, <1>10, TornDownFacts, NamesAssumption DEF TeardownRoutes, None
<1>11. CASE TeardownGivesUp(c)
  BY Zenon, <1>11, WithoutFacts, NamesAssumption DEF TeardownGivesUp, None
<1>12. CASE TeardownGuard(c)
  BY Zenon, <1>12, WithoutFacts, NamesAssumption DEF TeardownGuard, None
<1> QED BY ZenonT(30), <1>1, <1>2, <1>3, <1>4, <1>5, <1>6, <1>7, <1>8, <1>9, <1>10, <1>11, <1>12 DEF
     Runs, ClientStep

(* The kill switch is in place as long as the routes are, and somebody will
   remove it. *)
LEMMA GuardStep ==
  ASSUME TypeOK, DeviceExact, Exclusive, HalvesTaken, GuardHeld, NEW c \in Clients,
         UNCHANGED setup, Runs(c)
  PROVE  GuardHeld'
<1>1. /\ pc[c] # "idle" /\ pc' = [pc EXCEPT ![c] = pc'[c]] /\ pc \in [Clients -> Phases]
      /\ ("overlap" \in mishaps' <=> "overlap" \in mishaps)
      /\ ("unclean" \in mishaps => "unclean" \in mishaps')
  BY Moves, Typed
<1>2. DeviceExact' /\ TypeOK' BY Zenon, DeviceStep, TypedStep
<1>3. UNCHANGED Guarded BY Zenon DEF Guarded, DefaultRoute, DefaultRouteV6
<1>4. /\ ~Guarded => killSwitch' = killSwitch
      /\ \/ /\ killSwitch' = killSwitch
            /\ pc'[c] \in {"cfg_v4", "cfg_v6"} \cup Configured
                 => pc[c] \in {"cfg_v4", "cfg_v6"} \cup Configured \/ ~Guarded
            /\ pc[c] \in Holding
                 => pc'[c] \in Holding \/ "unclean" \in mishaps' \/ ~Guarded
         \/ killSwitch'.dev = c /\ pc'[c] \in Owning
         \/ pc'[c] \notin Owning /\ (pc'[c] \in Holding \/ killSwitch' = NoTable)
  BY Zenon, SwitchMoves
<1>5. ASSUME "overlap" \notin mishaps' PROVE \A b \in Clients \ {c} : pc'[b] = "idle"
  BY Zenon, <1>1, <1>5 DEF Exclusive
<1>6. FailClosed'
  <2> SUFFICES ASSUME "overlap" \notin mishaps', NEW h \in Halves, route'[h] \in Clients
               PROVE  killSwitch'.dev = route'[h]
    BY Zenon DEF FailClosed
  <2>1. route'[h] \in device' BY <1>2 DEF DeviceExact, TypeOK
  <2>2. pc'[route'[h]] \in Owning BY ZenonT(30), <1>2, <2>1 DEF DeviceExact
  <2>3. route'[h] = c /\ pc'[c] \in Owning
    BY Zenon, <1>5, <2>2 DEF Owning, Configuring, Reconnecting, TearingDown
  <2>4. CASE killSwitch' = killSwitch
    <3>1. CASE route[h] = c BY Zenon, <1>1, <2>3, <2>4, <3>1 DEF GuardHeld, FailClosed
    <3>2. CASE route[h] # c
      <4>1. pc[c] \in {"cfg_v4", "cfg_v6"} /\ Guarded BY Zenon, <2>3, <3>2, HalvesGuarded
      <4> QED BY Zenon, <1>1, <2>3, <2>4, <4>1 DEF GuardHeld
    <3> QED BY Zenon, <3>1, <3>2
  <2> QED BY Zenon, <1>4, <2>3, <2>4
<1>7. ASSUME "overlap" \notin mishaps', Guarded, NEW b \in Clients,
             pc'[b] \in {"cfg_v4", "cfg_v6"} \cup Configured
      PROVE  killSwitch'.dev = b
  <2>1. b = c BY <1>5, <1>7 DEF Configured, Reconnecting
  <2>2. pc'[c] \in Owning BY Zenon, <1>7, <2>1 DEF Configured, Owning, Configuring, Reconnecting
  <2> QED BY Zenon, <1>1, <1>4, <1>7, <2>1, <2>2 DEF GuardHeld
<1>8. ~Guarded => killSwitch' = NoTable BY Zenon, <1>4 DEF GuardHeld
<1>9. ASSUME "unclean" \notin mishaps', killSwitch' # NoTable
      PROVE  \E b \in Clients : pc'[b] \in Holding
  <2>1. CASE killSwitch' = killSwitch
    <3>1. PICK b \in Clients : pc[b] \in Holding BY Zenon, <1>1, <1>9, <2>1 DEF GuardHeld
    <3>2. Guarded BY Zenon, <1>8, <1>9
    <3>3. CASE b # c BY Zenon, <1>1, <3>1, <3>3
    <3>4. CASE b = c BY Zenon, <1>1, <1>4, <1>9, <3>1, <3>2, <3>4 DEF Holding
    <3> QED BY Zenon, <3>3, <3>4
  <2>2. CASE killSwitch' # killSwitch BY Zenon, <1>4, <1>9, <2>2 DEF Holding
  <2> QED BY Zenon, <2>1, <2>2
<1> QED BY Zenon, <1>3, <1>6, <1>7, <1>8, <1>9 DEF GuardHeld

-----------------------------------------------------------------------------
(* What a step routes otherwise is the client's own server, or the address its
   reconnect found; both as the kernel would. *)
LEMMA PinsMove ==
  ASSUME TypeOK, NEW c \in Clients, UNCHANGED setup, Runs(c)
  PROVE  /\ \A b \in Clients \ {c} : server'[b] = server[b]
         /\ \A e \in Endpoints :
              \/ route'[e] \in {route[e], None}
              \/ /\ route'[e] = BestRouteTo(e)
                 /\ \/ /\ e = server[c] /\ pc[c] \in {"cfg_v4", "cfg_v6"}
                       /\ server'[c] = e /\ pc'[c] \in Pinning
                    \/ /\ e = found[c] /\ pc[c] = "re_pin"
                       /\ \/ server'[c] = e /\ pc'[c] \in Pinning
                          \/ pc'[c] = "td_routes"
<1> USE SetupFacts DEF network
<1>1. CASE InstallBootstrap(c) \/ Establish(c) \/ CreateDevices(c)
  BY ZenonT(30), <1>1 DEF InstallBootstrap, Establish, CreateDevices
<1>2. CASE Resolve(c)
  BY Zenon, <1>2, Typed DEF Resolve
<1>3. CASE ConfigureGuard(c) \/ SetDnsNetworkManager(c) \/ SetDnsResolved(c) \/
           BackUp(c) \/ WriteResolv(c)
  BY ZenonT(30), <1>3 DEF ConfigureGuard, SetDnsNetworkManager, DnsDone, ActivateProfile,
     SetDnsResolved, SetLinkDns, BackUp, WriteResolv
<1>4. CASE ConfigureRoutes(c)
  <2>1. pc \in [Clients -> Phases] /\ server' = server
    BY Zenon, <1>4, Typed DEF ConfigureRoutes, ConfigureFamily
  <2> QED BY <1>4, <2>1, RoutesTaken DEF TakesHalf, Pinning, Configured
<1>5. CASE ConfigureFails(c)
  <2>1. server' = server /\ pc'[c] = "td_routes" BY Zenon, <1>5, ConfigureFailsFacts, Typed
  <2>2. \A e \in Endpoints :
          \/ route'[e] \in {route[e], None}
          \/ e = server[c] /\ route'[e] = BestRouteTo(e) /\ pc[c] \in {"cfg_v4", "cfg_v6"}
    BY Zenon, <1>5, ConfigureFailsFacts
  <2>3. "td_routes" \in Pinning BY Zenon DEF Pinning
  <2> QED BY <2>1, <2>2, <2>3
<1>6. CASE SessionLost(c) \/ DataPlaneError(c) \/ Shutdown(c) \/ ReconnectResolve(c) \/
           RefreshGuard(c) \/ Reconnected(c) \/ AttemptFails(c)
  BY ZenonT(30), <1>6 DEF SessionLost, Lose, DataPlaneError, Shutdown, ReconnectResolve,
     RefreshGuard, Reconnected, AttemptFails
<1>7. CASE RefreshUnpin(c)
  BY ZenonT(30), <1>7, UnpinFacts DEF RefreshUnpin
<1>8. CASE RefreshPin(c)
  <2>1. /\ pc \in [Clients -> Phases] /\ DOMAIN server = Clients
        /\ pc'[c] \in Pinning
    BY ZenonT(30), <1>8, Typed DEF RefreshPin, Goto, Pinning, Configured, Reconnecting
  <2> QED BY ZenonT(30), <1>8, <2>1, PreservedFacts DEF RefreshPin
<1>9. CASE RefreshFails(c)
  <2>1. pc \in [Clients -> Phases] /\ server' = server BY Zenon, <1>9, Typed DEF RefreshFails
  <2> QED BY <1>9, <2>1, PreservedFacts DEF RefreshFails, Goto
<1>10. CASE RevertDnsLink(c) \/ TeardownDns(c) \/ RemoveBackup(c) \/ RemoveBootstrap(c)
  BY Zenon, <1>10 DEF RevertDnsLink, DeactivateProfile, RevertLinkDns, TeardownDns,
     RemoveBackup, RemoveBootstrap
<1>11. CASE TeardownRoutes(c)
  BY ZenonT(30), <1>11, TornDownFacts DEF TeardownRoutes
<1>12. CASE TeardownGivesUp(c)
  BY ZenonT(30), <1>12, WithoutFacts DEF TeardownGivesUp
<1>13. CASE TeardownGuard(c)
  BY ZenonT(30), <1>13, WithoutFacts DEF TeardownGuard
<1> QED BY ZenonT(30), <1>1, <1>2, <1>3, <1>4, <1>5, <1>6, <1>7, <1>8, <1>9, <1>10, <1>11, <1>12,
     <1>13 DEF Runs, ClientStep

(* A client that pinned its server does not go on without having unpinned it. *)
LEMMA PinsKept ==
  ASSUME TypeOK, NEW c \in Clients, UNCHANGED setup, Runs(c)
  PROVE  pc[c] \in Pinning =>
           \/ pc'[c] \in Pinning /\ server'[c] = server[c]
           \/ "unclean" \in mishaps'
           \/ Tunnelled(server[c]) => route'[server[c]] = None
<1> USE Typed DEF Goto, Pinning, Configured, Reconnecting, network
<1>1. CASE Resolve(c) \/ InstallBootstrap(c) \/ Establish(c) \/ CreateDevices(c)
  BY Zenon, <1>1 DEF Resolve, InstallBootstrap, Establish, CreateDevices
<1>2. CASE ConfigureGuard(c) \/ ConfigureRoutes(c) \/ ConfigureFails(c) \/
           SetDnsNetworkManager(c) \/ SetDnsResolved(c) \/ BackUp(c) \/ WriteResolv(c)
  BY ZenonT(30), <1>2 DEF ConfigureGuard, ConfigureRoutes, ConfigureFamily, ConfigureFails,
     SetDnsNetworkManager, DnsDone, ActivateProfile, SetDnsResolved, SetLinkDns, BackUp,
     WriteResolv
<1>3. CASE SessionLost(c) \/ DataPlaneError(c) \/ Shutdown(c) \/ ReconnectResolve(c) \/
           RefreshGuard(c) \/ RefreshPin(c) \/ RefreshFails(c) \/ Reconnected(c) \/
           AttemptFails(c)
  BY ZenonT(30), <1>3 DEF SessionLost, Lose, DataPlaneError, Shutdown, ReconnectResolve,
     RefreshGuard, RefreshPin, RefreshFails, Reconnected, AttemptFails
<1>4. CASE RefreshUnpin(c)
  BY Zenon, <1>4, UnpinFacts
<1>5. CASE TeardownGivesUp(c) \/ RevertDnsLink(c) \/ TeardownDns(c) \/ RemoveBackup(c)
           \/ TeardownGuard(c) \/ RemoveBootstrap(c)
  BY Zenon, <1>5 DEF TeardownGivesUp, Without, RevertDnsLink, DeactivateProfile, RevertLinkDns,
     TeardownDns, RemoveBackup, TeardownGuard, RemoveBootstrap
<1>6. CASE TeardownRoutes(c)
  <2> HIDE DEF TypeOK
  <2> QED BY ZenonT(30), <1>6, TornDownFacts DEF TeardownRoutes
<1> QED BY ZenonT(30), <1>1, <1>2, <1>3, <1>4, <1>5, <1>6 DEF Runs, ClientStep

(* While it is configured a client changes no route, unless its server moves. *)
LEMMA PhaseKept ==
  ASSUME TypeOK, NEW c \in Clients, UNCHANGED setup, Runs(c)
  PROVE  /\ pc'[c] \in {"cfg_v6"} \cup Configured =>
              \/ ConfigureRoutes(c)
              \/ pc[c] \in {"re_unpin", "re_guard", "re_pin"}
              \/ pc[c] \in Configured /\ route' = route /\ server' = server
         /\ pc'[c] \in {"re_unpin", "re_guard", "re_pin"} =>
              pc[c] \in {"re_unpin", "re_guard", "re_pin"} \/ Hostname
<1> USE Typed DEF Goto, Configured, Reconnecting, network
<1>1. CASE Resolve(c) \/ InstallBootstrap(c) \/ Establish(c) \/ CreateDevices(c)
  BY Zenon, <1>1 DEF Resolve, InstallBootstrap, Establish, CreateDevices
<1>2. CASE ConfigureGuard(c) \/ ConfigureRoutes(c) \/ ConfigureFails(c) \/
           SetDnsNetworkManager(c) \/ SetDnsResolved(c) \/ BackUp(c) \/ WriteResolv(c)
  BY ZenonT(30), <1>2 DEF ConfigureGuard, ConfigureRoutes, ConfigureFamily, ConfigureFails,
     SetDnsNetworkManager, DnsDone, ActivateProfile, SetDnsResolved, SetLinkDns, BackUp,
     WriteResolv
<1>3. CASE SessionLost(c) \/ DataPlaneError(c) \/ Shutdown(c) \/ ReconnectResolve(c) \/
           RefreshUnpin(c) \/ RefreshGuard(c) \/ RefreshPin(c) \/ RefreshFails(c) \/
           Reconnected(c) \/ AttemptFails(c)
  BY ZenonT(30), <1>3 DEF SessionLost, Lose, DataPlaneError, Shutdown, ReconnectResolve,
     RefreshUnpin, RefreshGuard, RefreshPin, RefreshFails, Reconnected, AttemptFails
<1>4. CASE TeardownRoutes(c) \/ TeardownGivesUp(c) \/ RevertDnsLink(c) \/ TeardownDns(c)
           \/ RemoveBackup(c) \/ TeardownGuard(c) \/ RemoveBootstrap(c)
  BY <1>4 DEF TeardownRoutes, TeardownGivesUp, Without, RevertDnsLink,
     DeactivateProfile, RevertLinkDns, TeardownDns, RemoveBackup, TeardownGuard,
     RemoveBootstrap
<1> QED BY ZenonT(30), <1>1, <1>2, <1>3, <1>4 DEF Runs, ClientStep

(* Whoever pinned a server will unpin it. *)
LEMMA PinsHeldStep ==
  ASSUME TypeOK, HalvesTaken, PinsHeld, NEW c \in Clients, UNCHANGED setup, Runs(c),
         "unclean" \notin mishaps',
         NEW e \in Endpoints, route'[e] = "physical", Tunnelled(e)
  PROVE  \E b \in Clients : server'[b] = e /\ pc'[b] \in Pinning
<1>1. /\ pc' = [pc EXCEPT ![c] = pc'[c]] /\ pc \in [Clients -> Phases]
      /\ "unclean" \notin mishaps
  BY Zenon, Moves, Typed
<1>2. \A b \in Clients \ {c} : server'[b] = server[b] BY ZenonT(30), PinsMove
<1>3. route[e] \in Clients \cup {None, "physical"} /\ "physical" # None BY Zenon, Typed DEF None
<1>4. CASE route[e] = "physical"
  <2>1. PICK b \in Clients : server[b] = e /\ pc[b] \in Pinning
    BY Zenon, <1>1, <1>4 DEF PinsHeld
  <2>2. CASE b # c BY Zenon, <1>1, <1>2, <2>1, <2>2
  <2>3. CASE b = c BY Zenon, <1>3, <2>1, <2>3, PinsKept
  <2> QED BY ZenonT(30), <2>2, <2>3
<1>5. CASE route[e] # "physical"
  <2>1. /\ BestRouteTo(e) = "physical"
        /\ \/ server'[c] = e /\ pc'[c] \in Pinning
           \/ e = found[c] /\ pc[c] = "re_pin"
    BY Zenon, <1>3, <1>5, PinsMove
  <2>2. ASSUME pc[c] = "re_pin" PROVE BestRouteTo(e) # "physical"
    <3>1. route[Half(e)] = c
      BY Zenon, <2>2 DEF HalvesTaken, Half, Tunnelled, Configured, Reconnecting
    <3> QED BY Zenon, <1>3, <1>5, <3>1, NamesAssumption DEF BestRouteTo, None
  <2> QED BY Zenon, <2>1, <2>2
<1> QED BY ZenonT(30), <1>4, <1>5

(* The one client that owns an interface finds the physical route when it pins a
   server that cannot move. *)
LEMMA PinsPhysical ==
  ASSUME TypeOK, DeviceExact, Exclusive, HalvesTaken, PinsHeld, ~Hostname, OneAtATime,
         NEW c \in Clients, pc[c] \in {"cfg_v4", "cfg_v6"}
  PROVE  BestRouteTo(server[c]) = "physical"
<1>1. server[c] \in Endpoints /\ Half(server[c]) \in Halves BY Zenon, SetupFacts, Best
<1>2. device \subseteq {c}
  BY Zenon DEF DeviceExact, Exclusive, Owning, Configuring
<1>3. route[server[c]] \notin Clients BY Zenon, <1>1 DEF PinsHeld
<1>4. \A d \in Halves : route[d] \in {None, c}
  BY Zenon, <1>2, NamesAssumption, Typed DEF HalvesTaken, DeviceExact, Halves
<1>5. route[Half(server[c])] = c => route[server[c]] = "physical"
  BY Zenon, <1>1, Typed DEF HalvesTaken, PinsHeld
<1>6. route[server[c]] \in {None, "physical"} BY Zenon, <1>1, <1>3, Typed
<1>7. route[server[c]] = None => route[Half(server[c])] = None
  BY Zenon, <1>1, <1>4, <1>5 DEF None
<1> QED BY Zenon, <1>6, <1>7 DEF BestRouteTo

(* Pinned routes stay as they should. *)
LEMMA PinsStep ==
  ASSUME TypeOK, DeviceExact, Exclusive, HalvesTaken, PinsHeld, NEW c \in Clients,
         UNCHANGED setup, Runs(c)
  PROVE  PinsHeld'
<1>1. /\ pc' = [pc EXCEPT ![c] = pc'[c]] /\ pc \in [Clients -> Phases]
      /\ OneAtATime' = OneAtATime /\ TypeOK' /\ HalvesTaken' /\ DeviceExact'
  BY ZenonT(30), Moves, ExclusiveStep, TypedStep, HalvesStep, DeviceStep DEF TypeOK
<1>2. /\ UNCHANGED <<Addresses, Hostname>> /\ \A e : Tunnelled(e)' = Tunnelled(e)
  BY Zenon DEF Addresses, Hostname, Tunnelled, DefaultRoute, DefaultRouteV6
<1>3. "unclean" \notin mishaps' => \A e \in Endpoints :
         route'[e] = "physical" /\ Tunnelled(e) =>
           \E b \in Clients : server'[b] = e /\ pc'[b] \in Pinning
  BY Zenon, PinsHeldStep
<1>4. ASSUME NEW e \in Endpoints \ Addresses PROVE route'[e] = None
  <2>1. e # server[c] /\ e # found[c] BY Typed
  <2>2. route'[e] \in {route[e], None} BY ZenonT(30), <2>1, PinsMove
  <2> QED BY ZenonT(30), <2>2 DEF PinsHeld
<1>5. ASSUME ~Hostname, NEW b \in Clients PROVE pc'[b] \notin {"re_unpin", "re_guard", "re_pin"}
  <2>1. pc'[c] \in {"re_unpin", "re_guard", "re_pin"} =>
          pc[c] \in {"re_unpin", "re_guard", "re_pin"} \/ Hostname
    BY Zenon, PhaseKept
  <2> QED BY ZenonT(30), <1>1, <1>5, <2>1 DEF PinsHeld
<1>6. ASSUME ~Hostname, OneAtATime, NEW e \in Endpoints PROVE route'[e] \notin Clients
  <2>1. \/ route'[e] \in {route[e], None}
        \/ route'[e] = BestRouteTo(server[c]) /\ pc[c] \in {"cfg_v4", "cfg_v6"}
    <3>1. pc[c] # "re_pin" BY Zenon, <1>6 DEF PinsHeld
    <3> QED BY Zenon, <3>1, PinsMove
  <2>2. route[e] \notin Clients BY Zenon, <1>6 DEF PinsHeld
  <2> QED BY Zenon, <1>6, <2>1, <2>2, PinsPhysical, NamesAssumption DEF None
<1>7. ASSUME ~Hostname, OneAtATime, NEW b \in Clients, pc'[b] \in {"cfg_v6"} \cup Configured,
             route'[Half(server'[b])] = b
      PROVE  route'[server'[b]] = "physical"
  <2>1. CASE b # c
    <3>1. b \in device /\ pc'[b] = pc[b]
      BY Zenon, <1>1, <1>7, <2>1 DEF DeviceExact, Configured, Owning, Configuring, Reconnecting
    <3>2. c \notin device BY Zenon, <1>7, <2>1, <3>1 DEF Exclusive
    <3>3. route' = route /\ server'[b] = server[b]
      <4>1. pc[c] \notin Owning BY Zenon, <3>2 DEF DeviceExact
      <4>2. route' = route
        BY ZenonT(30), <4>1, DevicesMove DEF Owning, Configuring, Reconnecting, TearingDown
      <4>3. server'[b] = server[b] BY ZenonT(30), <2>1, PinsMove
      <4> QED BY Zenon, <4>2, <4>3
    <3> QED BY ZenonT(30), <1>7, <3>1, <3>3 DEF PinsHeld
  <2>2. CASE b = c
    <3>1. pc[c] \notin {"re_unpin", "re_guard", "re_pin"} BY Zenon, <1>7 DEF PinsHeld
    <3>2. ConfigureRoutes(c) \/ (pc[c] \in Configured /\ route' = route /\ server' = server)
      BY ZenonT(30), <1>7, <2>2, <3>1, PhaseKept
    <3>3. CASE pc[c] \in Configured /\ route' = route /\ server' = server
      BY ZenonT(30), <1>7, <2>2, <3>3 DEF PinsHeld
    <3>4. CASE ConfigureRoutes(c)
      <4>1. server' = server /\ pc[c] \in {"cfg_v4", "cfg_v6"} /\ Half(server[c]) \in Halves
        BY Zenon, <3>4, SetupFacts, Best DEF ConfigureRoutes, ConfigureFamily
      <4>2. BestRouteTo(server[c]) = "physical" BY Zenon, <1>7, <4>1, PinsPhysical
      <4>3. route'[server[c]] = BestRouteTo(server[c]) \/ route' = route
        BY Zenon, <3>4, RoutesTaken DEF TakesHalf
      <4>4. CASE route' = route
        BY Zenon, <1>7, <2>2, <4>1, <4>4, Typed DEF HalvesTaken, PinsHeld
      <4> QED BY Zenon, <4>1, <4>2, <4>3, <4>4, <2>2
    <3> QED BY Zenon, <3>2, <3>3, <3>4
  <2> QED BY Zenon, <2>1, <2>2
<1> QED BY ZenonT(30), <1>1, <1>2, <1>3, <1>4, <1>5, <1>6, <1>7 DEF PinsHeld, Half

(* What a step does to the resolver's files. *)
LEMMA FilesMove ==
  ASSUME TypeOK, FilesHeld, ~TORN_WRITES, NEW c \in Clients, UNCHANGED setup, Runs(c)
  PROVE  /\ resolv' \in {"prior", "tunnel"} /\ backup' \in {None, "prior"}
         /\ backup' = None => resolv' = "prior"
         /\ backup' # None => Dns
         /\ pc'[c] = "cfg_resolv" => backup' = "prior"
         /\ pc'[c] = "td_backup" => resolv' = "prior"
         /\ pc'[c] \in {"cfg_link", "cfg_backup", "cfg_resolv"} => Dns
         /\ UNCHANGED <<resolv, backup>> \/ pc[c] \in Owning
         /\ backup' # None /\ (backup = None \/ pc[c] \in BackedUp) =>
              "unclean" \in mishaps' \/ pc'[c] \in BackedUp
<1> USE Typed DEF FilesHeld, Goto, BackedUp, Owning, Configuring, Reconnecting,
        TearingDown, None, files
<1>1. CASE Resolve(c) \/ InstallBootstrap(c) \/ Establish(c) \/ CreateDevices(c)
  BY Zenon, <1>1 DEF Resolve, InstallBootstrap, Establish, CreateDevices
<1>2. CASE ConfigureGuard(c) \/ ConfigureRoutes(c) \/ ConfigureFails(c) \/
           SetDnsNetworkManager(c) \/ SetDnsResolved(c) \/ BackUp(c) \/ WriteResolv(c)
  BY ZenonT(30), <1>2 DEF ConfigureGuard, ConfigureRoutes, ConfigureFamily, ConfigureFails,
     SetDnsNetworkManager, DnsDone, ActivateProfile, SetDnsResolved, SetLinkDns, BackUp,
     WriteResolv
<1>3. CASE SessionLost(c) \/ DataPlaneError(c) \/ Shutdown(c) \/ ReconnectResolve(c) \/
           RefreshUnpin(c) \/ RefreshGuard(c) \/ RefreshPin(c) \/ RefreshFails(c) \/
           Reconnected(c) \/ AttemptFails(c)
  <2>1. CASE SessionLost(c) \/ DataPlaneError(c) \/ Shutdown(c)
    BY Zenon, <2>1 DEF SessionLost, Lose, DataPlaneError, Shutdown
  <2>2. CASE ReconnectResolve(c) \/ Reconnected(c) \/ AttemptFails(c)
    BY ZenonT(30), <2>2 DEF ReconnectResolve, Reconnected, AttemptFails
  <2>3. CASE RefreshUnpin(c) \/ RefreshGuard(c)
    BY Zenon, <2>3 DEF RefreshUnpin, RefreshGuard
  <2>4. CASE RefreshPin(c) \/ RefreshFails(c)
    BY ZenonT(30), <2>4 DEF RefreshPin, RefreshFails
  <2> QED BY ZenonT(30), <1>3, <2>1, <2>2, <2>3, <2>4
<1>4. CASE TeardownRoutes(c) \/ TeardownGivesUp(c) \/ RevertDnsLink(c) \/ TeardownDns(c)
           \/ RemoveBackup(c) \/ TeardownGuard(c) \/ RemoveBootstrap(c)
  BY Zenon, <1>4 DEF TeardownRoutes, TeardownGivesUp, Without, RevertDnsLink,
     DeactivateProfile, RevertLinkDns, TeardownDns, RemoveBackup, TeardownGuard,
     RemoveBootstrap
<1> QED BY ZenonT(30), <1>1, <1>2, <1>3, <1>4 DEF Runs, ClientStep

(* There is a backup while there has to be one, and somebody who will restore
   it. *)
LEMMA FilesStep ==
  ASSUME TypeOK, DeviceExact, Exclusive, FilesHeld, OneAtATime, ~TORN_WRITES,
         NEW c \in Clients, UNCHANGED setup, Runs(c)
  PROVE  FilesHeld'
<1>1. /\ pc' = [pc EXCEPT ![c] = pc'[c]] /\ pc \in [Clients -> Phases]
      /\ "unclean" \in mishaps => "unclean" \in mishaps'
  BY Zenon, Moves, Typed
<1>2. UNCHANGED Dns BY Zenon DEF Dns
<1>3. /\ resolv' \in {"prior", "tunnel"} /\ backup' \in {None, "prior"}
      /\ backup' = None => resolv' = "prior"
      /\ backup' # None => Dns
      /\ pc'[c] = "cfg_resolv" => backup' = "prior"
      /\ pc'[c] = "td_backup" => resolv' = "prior"
      /\ pc'[c] \in {"cfg_link", "cfg_backup", "cfg_resolv"} => Dns
      /\ UNCHANGED <<resolv, backup>> \/ pc[c] \in Owning
      /\ backup' # None /\ (backup = None \/ pc[c] \in BackedUp) =>
           "unclean" \in mishaps' \/ pc'[c] \in BackedUp
  BY ZenonT(30), FilesMove
<1>4. ASSUME NEW b \in Clients \ {c}
      PROVE  /\ pc'[b] = "cfg_resolv" => backup' = "prior"
             /\ pc'[b] = "td_backup" => resolv' = "prior"
             /\ pc'[b] \in {"cfg_link", "cfg_backup", "cfg_resolv"} => Dns
  <2>1. pc'[b] = pc[b] BY Zenon, <1>1
  <2>2. pc[c] \in Owning => pc[b] \notin Owning BY ZenonT(30) DEF DeviceExact, Exclusive
  <2>3. pc[b] \in {"cfg_resolv", "td_backup"} => UNCHANGED <<resolv, backup>>
    BY Zenon, <1>3, <2>2 DEF Owning, Configuring, TearingDown
  <2> QED BY ZenonT(30), <2>1, <2>3 DEF FilesHeld
<1>5. ASSUME "unclean" \notin mishaps', backup' # None
      PROVE  \E b \in Clients : pc'[b] \in BackedUp
  <2>1. CASE backup = None \/ pc[c] \in BackedUp BY Zenon, <1>3, <1>5, <2>1
  <2>2. CASE backup # None /\ pc[c] \notin BackedUp
    <3>1. PICK b \in Clients : pc[b] \in BackedUp BY Zenon, <1>1, <1>5, <2>2 DEF FilesHeld
    <3> QED BY Zenon, <1>1, <2>2, <3>1
  <2> QED BY Zenon, <2>1, <2>2
<1> QED BY ZenonT(30), <1>2, <1>3, <1>4, <1>5 DEF FilesHeld

(* All of the host's invariant. *)
LEMMA HostStep ==
  ASSUME HostInv, NEW c \in Clients, UNCHANGED setup, Runs(c)
  PROVE  HostInv'
<1>1. TypeOK /\ DeviceExact /\ Exclusive /\ HalvesTaken /\ GuardHeld /\ PinsHeld BY Zenon DEF HostInv
<1>2. TypeOK' /\ DeviceExact' BY Zenon, <1>1, TypedStep, DeviceStep
<1>3. Exclusive' /\ OneAtATime' = OneAtATime BY Zenon, <1>1, ExclusiveStep
<1>4. HalvesTaken' BY Zenon, <1>1, HalvesStep
<1>5. GuardHeld' BY Zenon, <1>1, GuardStep
<1>6. PinsHeld' BY Zenon, <1>1, PinsStep
<1>7. OneAtATime /\ ~TORN_WRITES => FilesHeld' BY Zenon, <1>1, FilesStep DEF HostInv
<1> QED BY Zenon, <1>2, <1>3, <1>4, <1>5, <1>6, <1>7 DEF HostInv

-----------------------------------------------------------------------------
(* Clients start, and are forgotten once they have ended: neither touches the
   host. *)
LEMMA OutsideKeeps ==
  ASSUME HostInv, TypeOK', UNCHANGED <<setup, server, network, files>>,
         \A b \in Clients : \/ pc'[b] = pc[b]
                            \/ {pc[b], pc'[b]} \subseteq {"idle", "ended", "resolving"},
         mishaps \subseteq mishaps', "unclean" \in mishaps' => "unclean" \in mishaps,
         "overlap" \notin mishaps' =>
           \A b, d \in Clients : pc'[b] # "idle" /\ pc'[d] # "idle" => b = d
  PROVE  HostInv'
<1>1. /\ UNCHANGED <<server, killSwitch, device, route, resolv, backup, linkDns>>
      /\ UNCHANGED <<DefaultRoute, DefaultRouteV6, Guarded, Addresses, Hostname, Dns>>
      /\ \A e : Tunnelled(e)' = Tunnelled(e) /\ Half(e)' = Half(e)
  BY Zenon DEF network, files, DefaultRoute, DefaultRouteV6, Guarded, Addresses, Hostname, Dns,
         Tunnelled, Half
<1>2. /\ OneAtATime' => OneAtATime
      /\ "overlap" \notin mishaps' => "overlap" \notin mishaps
      /\ "unclean" \notin mishaps' => "unclean" \notin mishaps
  BY Zenon DEF OneAtATime
<1>3. \A b \in Clients :
        /\ pc'[b] \in Holding <=> pc[b] \in Holding
        /\ pc[b] \in Holding \/ pc'[b] \in Holding => pc'[b] = pc[b]
  BY Zenon DEF Holding, Owning, Configuring, Reconnecting, TearingDown
<1>4. /\ Owning \subseteq Holding /\ Configured \subseteq Owning
      /\ Pinning \subseteq Owning /\ BackedUp \subseteq Owning
      /\ Configuring \subseteq Owning /\ {"td_backup", "re_unpin", "re_guard", "re_pin"} \subseteq Owning
  BY Zenon DEF Holding, Owning, Configured, Pinning, BackedUp, Configuring, Reconnecting, TearingDown
<1>5. DeviceExact' BY Zenon, <1>1, <1>3, <1>4 DEF HostInv, DeviceExact
<1>6. Exclusive' BY Zenon, <1>1, <1>2 DEF HostInv, Exclusive
<1>7. HalvesTaken'
  <2>1. HalvesTaken BY Zenon DEF HostInv
  <2>2. \A b \in Clients : pc'[b] \in Owning => pc'[b] = pc[b] BY ZenonT(30), <1>3, <1>4
  <2>3. {"cfg_v4", "cfg_v6"} \subseteq Owning BY Zenon, <1>4 DEF Configuring
  <2> QED BY ZenonT(30), <1>1, <1>4, <2>1, <2>2, <2>3 DEF HalvesTaken
<1>8. GuardHeld' BY ZenonT(30), <1>1, <1>2, <1>3, <1>4 DEF HostInv, GuardHeld, FailClosed, Configuring
<1>9. PinsHeld'
  <2>1. "unclean" \notin mishaps' => \A e \in Endpoints :
          route'[e] = "physical" /\ Tunnelled(e) =>
            \E b \in Clients : server'[b] = e /\ pc'[b] \in Pinning
    <3>1. "unclean" \notin mishaps => \A e \in Endpoints :
            route[e] = "physical" /\ Tunnelled(e) =>
              \E b \in Clients : server[b] = e /\ pc[b] \in Pinning
      BY ZenonT(30) DEF HostInv, PinsHeld
    <3>2. \A b \in Clients : pc[b] \in Pinning => pc'[b] \in Pinning BY Zenon, <1>3, <1>4
    <3>3. server' = server /\ route' = route BY Zenon, <1>1
    <3>4. ASSUME "unclean" \notin mishaps', NEW e \in Endpoints,
                 route'[e] = "physical", Tunnelled(e)
          PROVE  \E b \in Clients : server'[b] = e /\ pc'[b] \in Pinning
      <4>1. PICK b \in Clients : server[b] = e /\ pc[b] \in Pinning
        BY Zenon, <1>2, <3>1, <3>3, <3>4
      <4> QED BY Zenon, <3>2, <3>3, <4>1
    <3> QED BY ZenonT(30), <3>4
  <2>2. ~Hostname => \A b \in Clients : pc'[b] \notin {"re_unpin", "re_guard", "re_pin"}
    BY ZenonT(30), <1>3, <1>4 DEF HostInv, PinsHeld
  <2>3. ~Hostname /\ OneAtATime' => \A b \in Clients :
          pc'[b] \in {"cfg_v6"} \cup Configured /\ route'[Half(server'[b])] = b
            => route'[server'[b]] = "physical"
    BY ZenonT(30), <1>1, <1>2, <1>3, <1>4 DEF HostInv, PinsHeld, Configuring
  <2> QED BY Zenon, <1>1, <1>2, <2>1, <2>2, <2>3 DEF HostInv, PinsHeld, Half
<1>10. OneAtATime' /\ ~TORN_WRITES => FilesHeld'
  BY ZenonT(30), <1>1, <1>2, <1>3, <1>4 DEF HostInv, FilesHeld, Configuring
<1> QED BY ZenonT(30), <1>5, <1>6, <1>7, <1>8, <1>9, <1>10 DEF HostInv

(* The process is gone, and its interfaces with it.  Without a mishap no client
   was left that still had to clean up. *)
LEMMA GoneKeeps ==
  ASSUME HostInv, Gone, UNCHANGED setup,
         \/ mishaps' = mishaps /\ \A c \in Clients : pc[c] \in {"idle", "ended"}
         \/ mishaps' = mishaps \cup {"unclean"}
  PROVE  HostInv'
<1>1. /\ pc' = [c \in Clients |-> "idle"] /\ device' = {} /\ route' = Without(Clients)
      /\ linkDns' = [c \in Clients |-> {}]
      /\ UNCHANGED <<killSwitch, resolv, backup>>
      /\ server' = NoServer /\ found' = NoServer /\ socket6' = {}
  BY Zenon DEF Gone
<1>2. TypeOK /\ route' \in Routes /\ NoServer \in [Clients -> Addresses]
  BY ZenonT(30), <1>1, WithoutFacts, SetupFacts DEF HostInv, NoServer
<1>3. /\ UNCHANGED <<DefaultRoute, DefaultRouteV6, Guarded, Addresses, Hostname, Dns>>
      /\ \A e : Tunnelled(e)' = Tunnelled(e)
  BY Zenon DEF DefaultRoute, DefaultRouteV6, Guarded, Addresses, Hostname, Dns, Tunnelled
<1>4. TypeOK'
  BY ZenonT(30), <1>1, <1>2, <1>3 DEF TypeOK, Gone, Routes, Phases
<1>5. \A d \in Halves \cup Endpoints :
        /\ route'[d] \in {None, "physical"} /\ route'[d] \notin Clients
        /\ route'[d] = "physical" => route[d] = "physical"
        /\ route[d] = None => route'[d] = None
  BY Zenon, <1>1, <1>2, WithoutFacts, NamesAssumption, Typed DEF None
<1>6. DOMAIN route' = Halves \cup Endpoints /\ DOMAIN route = Halves \cup Endpoints
  BY <1>2, <1>4 DEF TypeOK
<1>7. \A c \in Clients : pc'[c] = "idle" BY Zenon, <1>1
<1>8. "idle" \notin Owning \cup Holding \cup Configured \cup Pinning \cup BackedUp
  BY Zenon DEF Owning, Holding, Configured, Pinning, BackedUp, Configuring, Reconnecting, TearingDown
<1>9. "unclean" \notin mishaps' =>
        /\ "unclean" \notin mishaps
        /\ \A c \in Clients : pc[c] \notin Holding \cup Pinning \cup BackedUp
  BY Zenon DEF Owning, Holding, Configured, Pinning, BackedUp, Configuring, Reconnecting, TearingDown
<1>10. OneAtATime' = OneAtATime BY Zenon DEF OneAtATime
<1>11. DeviceExact' BY Zenon, <1>1, <1>5, <1>6, <1>7, <1>8 DEF DeviceExact
<1>12. Exclusive' BY Zenon, <1>1, <1>7 DEF Exclusive
<1>13. HalvesTaken'
  <2>1. {route["half4"], route["half6"]} \subseteq {None} \cup Clients
    BY Zenon DEF HostInv, HalvesTaken
  <2>2. route'["half4"] = None /\ route'["half6"] = None
    BY Zenon, <1>5, <2>1, NamesAssumption DEF Halves
  <2> QED BY Zenon, <1>3, <1>5, <1>6, <1>7, <1>8, <2>2 DEF HostInv, HalvesTaken
<1>14. GuardHeld'
  BY ZenonT(30), <1>1, <1>3, <1>5, <1>7, <1>8, <1>9 DEF HostInv, GuardHeld, FailClosed
<1>15. PinsHeld' BY ZenonT(30), <1>3, <1>5, <1>7, <1>8, <1>9 DEF HostInv, PinsHeld
<1>16. OneAtATime /\ ~TORN_WRITES => FilesHeld'
  BY Zenon, <1>1, <1>3, <1>7, <1>9 DEF HostInv, FilesHeld
<1> QED BY Zenon, <1>4, <1>10, <1>11, <1>12, <1>13, <1>14, <1>15, <1>16 DEF HostInv

(* A host that RVPN has not touched. *)
LEMMA HostInit == Init => HostInv
<1> SUFFICES ASSUME Init PROVE HostInv BY Zenon
<1>1. setup \in Setups BY Zenon DEF Init
<1>2. Addresses \in (SUBSET Endpoints) \ {{}} BY Zenon, <1>1, ConfigAssumption DEF Addresses
<1>3. NoServer \in [Clients -> Addresses] BY Zenon, <1>2 DEF NoServer
<1>4. TypeOK BY ZenonT(30), <1>3 DEF Init, TypeOK, Phases, Tables
<1>5. /\ \A c \in Clients : pc[c] = "idle" /\ linkDns[c] = {}
      /\ \A d \in DOMAIN route : route[d] = None
      /\ DOMAIN route = Halves \cup Endpoints
      /\ device = {} /\ mishaps = {} /\ killSwitch = NoTable
      /\ resolv = "prior" /\ backup = None
  BY Zenon DEF Init
<1>6. "idle" \notin Owning \cup Holding \cup Configured \cup Pinning \cup BackedUp
  BY Zenon DEF Owning, Holding, Configured, Pinning, BackedUp, Configuring, Reconnecting, TearingDown
<1>7. None \notin Clients BY Zenon, NamesAssumption DEF None
<1>8. DeviceExact /\ Exclusive BY Zenon, <1>5, <1>6, <1>7 DEF DeviceExact, Exclusive
<1>9. HalvesTaken BY Zenon, <1>5, <1>6 DEF HalvesTaken, Halves
<1>10. GuardHeld BY Zenon, <1>5, <1>6, <1>7 DEF GuardHeld, FailClosed, Halves
<1>11. PinsHeld BY Zenon, <1>5, <1>6, <1>7 DEF PinsHeld, None
<1>12. FilesHeld BY Zenon, <1>5 DEF FilesHeld
<1> QED BY Zenon, <1>4, <1>8, <1>9, <1>10, <1>11, <1>12 DEF HostInv

-----------------------------------------------------------------------------
(* Daemon::connect: a client is started, and has the slot for its owner. *)
LEMMA ConnectOK ==
  ASSUME DaemonInv, setup.mode = "daemon", NEW k \in Conns, Connect(k), UNCHANGED setup
  PROVE  DaemonInv'
<1>1. PICK c \in Clients : Start(c) /\ slot' = c BY Zenon DEF Connect
<1>2. /\ pc[c] = "idle" /\ pc' = [pc EXCEPT ![c] = "resolving"]
      /\ pc \in [Clients -> Phases] /\ TypeOK
      /\ stop' = [stop EXCEPT ![c] = FALSE] /\ stop \in [Clients -> BOOLEAN]
      /\ UNCHANGED <<server, network, files, waiting>> /\ slot = None
      /\ mishaps' = mishaps \cup {"overlap" : d \in {d \in Clients : pc[d] # "idle"}}
  BY ZenonT(30), <1>1, Invariants, Typed, Flags DEF Start, Goto, Connect
<1>3. /\ mishaps \subseteq mishaps' /\ ("unclean" \in mishaps' => "unclean" \in mishaps)
      /\ mishaps' \subseteq {"unclean", "overlap"}
      /\ "overlap" \notin mishaps' => \A d \in Clients : pc[d] = "idle"
  BY ZenonT(30), <1>2, Typed
<1>4. TypeOK'
  <2>1. found' = found /\ socket6' = socket6 BY Zenon, <1>1 DEF Start
  <2> QED BY ZenonT(30), <1>1, <1>2, <1>3, <2>1, OutsideTyped
<1>5. HostInv' BY ZenonT(30), <1>2, <1>3, <1>4, Invariants, OutsideKeeps
<1>6. OwnersExact'
  <2>1. None \notin Clients BY Zenon, NamesAssumption DEF None
  <2>2. \A j \in Conns : waiting[j] # c BY Zenon, <1>2, <2>1, Invariants DEF OwnersExact
  <2>3. OwnersExact /\ slot' = c BY Zenon, <1>1, Invariants
  <2>4. /\ pc'[c] # "idle" /\ \A d \in Clients \ {c} : pc'[d] = pc[d] /\ stop'[d] = stop[d]
        /\ slot = None /\ waiting' = waiting
    BY Zenon, <1>2
  <2> QED BY <2>1, <2>2, <2>3, <2>4 DEF OwnersExact
<1> QED BY Zenon, <1>5, <1>6 DEF DaemonInv

(* Daemon::disconnect: the connection takes the client over from the slot. *)
LEMMA DisconnectOK ==
  ASSUME DaemonInv, setup.mode = "daemon", NEW k \in Conns, Disconnect(k), UNCHANGED setup
  PROVE  DaemonInv'
<1>1. /\ UNCHANGED <<server, network, files, pc, mishaps>> /\ slot \in Clients
      /\ slot' = None /\ waiting[k] = None
      /\ waiting' = [waiting EXCEPT ![k] = slot] /\ stop' = [stop EXCEPT ![slot] = TRUE]
      /\ waiting \in [Conns -> Clients \cup {None}] /\ stop \in [Clients -> BOOLEAN]
      /\ UNCHANGED <<found, socket6, process, armed, connected>>
  <2>1. TypeOK /\ stop \in [Clients -> BOOLEAN] BY Zenon, Invariants, Flags
  <2> QED BY Zenon, <2>1, Owners DEF Disconnect
<1>2. TypeOK'
  <2>1. TypeOK /\ mishaps \subseteq {"unclean", "overlap"} BY Zenon, Invariants, Typed
  <2>2. stop' \in [Clients -> BOOLEAN] BY ZenonT(30), <1>1
  <2> QED BY ZenonT(30), <1>1, <2>1, <2>2, OutsideTyped
<1>3. HostInv' BY ZenonT(30), <1>1, <1>2, Invariants, OutsideKeeps DEF Exclusive
<1>4. None \notin Clients BY Zenon, NamesAssumption DEF None
<1>5. OwnersExact'
  <2>1. OwnersExact BY Zenon, Invariants
  <2>2. /\ waiting'[k] = slot /\ \A l \in Conns \ {k} : waiting'[l] = waiting[l]
        /\ stop'[slot] = TRUE /\ \A d \in Clients \ {slot} : stop'[d] = stop[d]
        /\ waiting' \in [Conns -> Clients \cup {None}]
    BY Zenon, <1>1
  <2>3. pc' = pc /\ slot \in Clients /\ slot' = None /\ waiting[k] = None BY Zenon, <1>1
  <2> QED BY <1>4, <2>1, <2>2, <2>3 DEF OwnersExact
<1> QED BY Zenon, <1>3, <1>5 DEF DaemonInv

(* The await returns: the client has ended. *)
LEMMA DisconnectedOK ==
  ASSUME DaemonInv, setup.mode = "daemon", NEW k \in Conns, Disconnected(k), UNCHANGED setup
  PROVE  DaemonInv'
<1>1. PICK c \in Clients : c = waiting[k] BY Zenon, Owners DEF Disconnected
<1>2. /\ UNCHANGED <<server, network, files, mishaps, slot, stop>>
      /\ UNCHANGED <<found, socket6, process, armed, connected>>
      /\ pc[c] = "ended" /\ pc' = [pc EXCEPT ![c] = "idle"] /\ pc \in [Clients -> Phases]
      /\ waiting' = [waiting EXCEPT ![k] = None]
      /\ waiting \in [Conns -> Clients \cup {None}]
  <2>1. pc \in [Clients -> Phases] BY Zenon, Invariants, Typed
  <2> QED BY Zenon, <1>1, <2>1, Owners DEF Disconnected, Goto
<1>3. TypeOK'
  <2>1. TypeOK /\ mishaps \subseteq {"unclean", "overlap"} BY Zenon, Invariants, Typed
  <2> QED BY ZenonT(30), <1>2, <2>1, OutsideTyped
<1>4. HostInv'
  <2>1. HostInv /\ Exclusive BY Zenon, Invariants
  <2>2. \A b \in Clients : pc'[b] = pc[b] \/ (b = c /\ pc[b] = "ended" /\ pc'[b] = "idle") BY Zenon, <1>2
  <2>3. "overlap" \notin mishaps' =>
          \A b, d \in Clients : pc'[b] # "idle" /\ pc'[d] # "idle" => b = d
    BY ZenonT(30), <1>2, <2>1, <2>2 DEF Exclusive
  <2> QED BY ZenonT(30), <1>2, <1>3, <2>1, <2>2, <2>3, OutsideKeeps
<1>5. None \notin Clients BY Zenon, NamesAssumption DEF None
<1>6. OwnersExact'
  <2>1. OwnersExact BY Zenon, Invariants
  <2> QED BY <1>1, <1>2, <1>5, <2>1 DEF OwnersExact
<1> QED BY Zenon, <1>4, <1>6 DEF DaemonInv

(* The daemon is gone with its clients and requests. *)
LEMMA DaemonGoneOK ==
  ASSUME DaemonInv, DaemonGone, UNCHANGED setup
  PROVE  DaemonInv'
<1>1. HostInv' BY Zenon, Invariants, GoneKeeps DEF DaemonGone, Kill
<1>2. /\ slot' = None /\ waiting' = [k \in Conns |-> None] /\ pc' = [c \in Clients |-> "idle"]
  BY Zenon DEF DaemonGone, Kill, Gone
<1>3. None \notin Clients BY Zenon, NamesAssumption DEF None
<1>4. OwnersExact' BY Zenon, <1>2, <1>3 DEF OwnersExact
<1> QED BY Zenon, <1>1, <1>4 DEF DaemonInv

(* main in the foreground. *)
LEMMA ForegroundOK ==
  ASSUME DaemonInv, setup.mode = "foreground", Foreground, UNCHANGED <<setup, slot, waiting>>
  PROVE  DaemonInv'
<1>1. TypeOK /\ pc \in [Clients -> Phases] BY Zenon, Invariants, Typed
<1>2. CASE \E c \in Clients : c = FirstClient /\ Start(c) /\ UNCHANGED mishaps
  <2>1. PICK c \in Clients : c = FirstClient /\ Start(c) /\ UNCHANGED mishaps BY Zenon, <1>2
  <2>2. /\ pc[c] = "idle" /\ pc' = [pc EXCEPT ![c] = "resolving"]
        /\ UNCHANGED <<server, network, files, mishaps>>
    BY Zenon, <2>1 DEF Start, Goto
  <2>3. \A b \in Clients : pc'[b] # "idle" => b = FirstClient
    BY Zenon, <1>1, <2>1, <2>2, Invariants DEF OwnersExact
  <2>4. TypeOK'
    <3>1. found' = found /\ socket6' = socket6 BY Zenon, <2>1 DEF Start
    <3> QED BY ZenonT(30), <1>1, <2>1, <2>2, <3>1, Typed, OutsideTyped
  <2>5. HostInv' BY Zenon, <1>1, <2>2, <2>3, <2>4, Invariants, OutsideKeeps
  <2>6. OwnersExact' BY ZenonT(30), <2>3, Invariants DEF OwnersExact
  <2> QED BY Zenon, <2>5, <2>6 DEF DaemonInv
<1>3. CASE Exit \/ Kill
  <2>1. HostInv' BY Zenon, <1>3, Invariants, GoneKeeps DEF Exit, Kill
  <2>2. pc' = [c \in Clients |-> "idle"] BY Zenon, <1>3 DEF Exit, Kill, Gone
  <2>3. OwnersExact' BY ZenonT(30), <2>2, Invariants DEF OwnersExact
  <2> QED BY Zenon, <2>1, <2>3 DEF DaemonInv
<1>4. CASE Signal
  <2>1. CASE ~armed
    <3>1. Kill BY Zenon, <1>4, <2>1 DEF Signal
    <3> QED BY Zenon, <1>3, <3>1
  <2>2. CASE armed
    <3>1. /\ UNCHANGED <<server, network, files, pc, mishaps>>
          /\ UNCHANGED <<found, socket6, process, armed, connected>>
          /\ stop' = [c \in Clients |-> TRUE] /\ \E c \in Clients : TRUE
      BY ZenonT(30), <1>4, <2>2 DEF Signal
    <3>2. TypeOK'
      <4>1. stop' \in [Clients -> BOOLEAN] BY ZenonT(30), <3>1
      <4> QED BY ZenonT(30), <1>1, <3>1, <4>1, Typed, OutsideTyped
    <3>3. HostInv' BY ZenonT(30), <3>1, <3>2, Invariants, OutsideKeeps DEF Exclusive
    <3>4. OwnersExact' BY ZenonT(30), <3>1, Invariants DEF OwnersExact
    <3> QED BY Zenon, <3>3, <3>4 DEF DaemonInv
  <2> QED BY Zenon, <2>1, <2>2
<1> QED BY Zenon, <1>2, <1>3, <1>4 DEF Foreground

(* A client's own step, a restart, and no step at all. *)
LEMMA TaskOK ==
  ASSUME DaemonInv, UNCHANGED <<setup, slot, waiting>>,
         (\E c \in Clients : Runs(c)) \/ Restart \/ UNCHANGED vars
  PROVE  DaemonInv'
<1>1. TypeOK /\ pc \in [Clients -> Phases] BY Zenon, Invariants, Typed
<1>2. ASSUME NEW c \in Clients, Runs(c) PROVE DaemonInv'
  <2>1. HostInv' BY Zenon, <1>2, Invariants, HostStep
  <2>2. pc[c] # "idle" /\ pc'[c] # "idle" /\ pc' = [pc EXCEPT ![c] = pc'[c]] /\ stop' = stop
    BY Zenon, <1>1, <1>2, Moves
  <2>3. \A b \in Clients : pc'[b] # "idle" <=> pc[b] # "idle" BY Zenon, <1>1, <2>2
  <2>4. OwnersExact'
    <3>1. OwnersExact /\ stop' = stop BY Zenon, <2>2, Invariants
    <3> QED BY <2>3, <3>1 DEF OwnersExact
  <2> QED BY Zenon, <2>1, <2>4 DEF DaemonInv
<1>3. CASE Restart \/ UNCHANGED vars
  <2>1. UNCHANGED <<server, network, files, pc, stop, mishaps>>
    BY Zenon, <1>3 DEF Restart, vars, task
  <2>2. TypeOK'
    <3>1. process' \in {"up", process} /\ UNCHANGED <<found, socket6, armed, connected>>
      BY ZenonT(30), <1>3 DEF Restart, vars, task
    <3> QED BY ZenonT(30), <1>1, <2>1, <3>1, Typed, Flags, TasksTyped
  <2>3. HostInv' BY ZenonT(30), <2>1, <2>2, Invariants, OutsideKeeps DEF Exclusive
  <2>4. OwnersExact' BY <2>1, Invariants DEF OwnersExact
  <2> QED BY Zenon, <2>3, <2>4 DEF DaemonInv
<1> QED BY Zenon, <1>2, <1>3

-----------------------------------------------------------------------------
(* A process that has just been started, on a host RVPN has not touched. *)
LEMMA DaemonInitOK == DaemonInit => DaemonInv
<1> SUFFICES ASSUME DaemonInit PROVE DaemonInv BY Zenon
<1>1. HostInv BY Zenon, HostInit DEF DaemonInit
<1>2. slot = None /\ waiting = [k \in Conns |-> None] /\ \A c \in Clients : pc[c] = "idle"
  BY Zenon DEF DaemonInit, Init
<1>3. None \notin Clients BY Zenon, NamesAssumption DEF None
<1>4. OwnersExact BY ZenonT(30), <1>2, <1>3 DEF OwnersExact
<1> QED BY Zenon, <1>1, <1>4 DEF DaemonInv

(* Every step keeps the inductive invariant. *)
LEMMA DaemonNextOK == DaemonInv /\ [DaemonNext]_daemonVars => DaemonInv'
<1> SUFFICES ASSUME DaemonInv, [DaemonNext]_daemonVars PROVE DaemonInv' BY Zenon
<1>1. CASE UNCHANGED daemonVars BY Zenon, <1>1, TaskOK DEF daemonVars, vars
<1>2. ASSUME setup.mode = "daemon", UNCHANGED setup, NEW k \in Conns,
             Connect(k) \/ Disconnect(k) \/ Disconnected(k)
      PROVE  DaemonInv'
  BY Zenon, <1>2, ConnectOK, DisconnectOK, DisconnectedOK
<1>3. CASE DaemonGone /\ UNCHANGED setup BY Zenon, <1>3, DaemonGoneOK
<1>4. CASE setup.mode = "foreground" /\ Foreground /\ UNCHANGED <<setup, slot, waiting>>
  BY Zenon, <1>4, ForegroundOK
<1>5. CASE /\ (\E c \in Clients : Runs(c)) \/ Restart
           /\ UNCHANGED <<setup, slot, waiting>>
  BY Zenon, <1>5, TaskOK
<1> QED BY Zenon, <1>1, <1>2, <1>3, <1>4, <1>5 DEF DaemonNext, Runs

(* The inductive invariant of the client's process. *)
THEOREM DaemonInvariant == DaemonSpec => []DaemonInv
BY DaemonInitOK, DaemonNextOK, PTL DEF DaemonSpec

(* Every client task has exactly one owner, the slot or the one disconnect that
   awaits it, however requests interleave. *)
THEOREM ClientsOwned == DaemonSpec => []OneOwner
<1>1. DaemonInv => OneOwner
  <2> SUFFICES ASSUME DaemonInv, setup.mode = "daemon", NEW c \in Clients
               PROVE  LET awaiting == {k \in Conns : waiting[k] = c}
                      IN  /\ slot = c => pc[c] # "idle" /\ awaiting = {}
                          /\ pc[c] # "idle" /\ slot # c => stop[c] /\ \E k \in Conns : awaiting = {k}
    BY ZenonT(30) DEF OneOwner
  <2> DEFINE awaiting == {k \in Conns : waiting[k] = c}
  <2>1. slot = c => pc[c] # "idle" /\ awaiting = {} BY Zenon, Invariants DEF OwnersExact
  <2>2. ASSUME pc[c] # "idle", slot # c PROVE stop[c] /\ \E k \in Conns : awaiting = {k}
    <3>1. PICK k \in Conns : waiting[k] = c BY Zenon, <2>2, Invariants DEF OwnersExact
    <3>2. stop[c] /\ awaiting = {k} BY <3>1, Invariants DEF OwnersExact
    <3> QED BY Zenon, <3>2
  <2> QED BY ZenonT(30), <2>1, <2>2
<1> QED BY <1>1, DaemonInvariant, PTL

(* No route leads into the tunnel without the kill switch that admits it. *)
THEOREM TunnelGuarded == DaemonSpec => []FailClosed
<1>1. DaemonInv => FailClosed BY Zenon, Invariants DEF GuardHeld
<1> QED BY <1>1, DaemonInvariant, PTL

(* The datagrams to a server that cannot move never go into its own tunnel. *)
THEOREM ServerStaysPhysical == DaemonSpec => []EndpointPhysical
<1>1. DaemonInv => EndpointPhysical
  <2> SUFFICES ASSUME DaemonInv, OneAtATime, ~MayMove, NEW c \in Clients,
                      pc[c] \in {"running", "re_establish"}
               PROVE  BestRouteTo(server[c]) # c
    BY Zenon DEF EndpointPhysical, FollowsServer
  <2>1. TypeOK /\ HalvesTaken /\ PinsHeld BY Zenon, Invariants
  <2>2. server[c] \in Endpoints /\ Half(server[c]) \in Halves BY Zenon, <2>1, SetupFacts, Best
  <2>3. c # None /\ c # "physical" BY Zenon, NamesAssumption DEF None
  <2>4. CASE ~Guarded
    <3>1. \A d \in Halves \cup Endpoints : route[d] = None
      BY Zenon, <2>1, <2>4, Typed DEF HalvesTaken
    <3> QED BY Zenon, <2>2, <2>3, <3>1 DEF BestRouteTo
  <2>5. CASE ~Hostname
    <3>1. route[server[c]] \notin Clients BY Zenon, <2>1, <2>2, <2>5 DEF PinsHeld
    <3>2. route[Half(server[c])] = c => route[server[c]] = "physical"
      BY ZenonT(30), <2>1, <2>5 DEF PinsHeld, Configured, Reconnecting
    <3> QED BY ZenonT(30), <2>3, <3>1, <3>2 DEF BestRouteTo, None
  <2> QED BY Zenon, <2>4, <2>5 DEF MayMove
<1> QED BY <1>1, DaemonInvariant, PTL

(* A write that fails leaves the file as it was (TORN_WRITES is off): once every
   client has ended, and could clean up, the host is as it was. *)
THEOREM HostIsRestored ==
  ASSUME ~TORN_WRITES
  PROVE  DaemonSpec => []HostRestored
<1>1. DaemonInv => HostRestored
  <2> SUFFICES ASSUME DaemonInv, OneAtATime, "unclean" \notin mishaps,
                      \A c \in Clients : pc[c] \in {"idle", "ended"}
               PROVE  Clean
    BY Zenon DEF HostRestored
  <2>1. HostInv /\ FilesHeld /\ DOMAIN route = Halves \cup Endpoints
    BY Zenon, Invariants, Typed
  <2>2. \A c \in Clients : pc[c] \notin Owning \cup Holding \cup Pinning \cup BackedUp
    BY ZenonT(30) DEF Owning, Holding, Configured, Pinning, BackedUp, Configuring, Reconnecting, TearingDown
  <2>3. device = {} /\ \A c \in Clients : linkDns[c] = {}
    BY Zenon, <2>2, Invariants DEF DeviceExact
  <2>4. killSwitch = NoTable BY Zenon, <2>2, Invariants DEF GuardHeld
  <2>5. resolv = "prior" /\ backup = None BY Zenon, <2>1, <2>2 DEF FilesHeld
  <2>6. ASSUME NEW d \in DOMAIN route \ Unremoved PROVE route[d] = None
    <3>1. route[d] \in {None, "physical"} BY Zenon, <2>1, <2>3, Invariants, Typed DEF DeviceExact
    <3>2. CASE d \in Halves BY Zenon, <3>1, <3>2, Invariants, NamesAssumption DEF HalvesTaken, Halves, None
    <3>3. CASE d \in Endpoints \ Addresses BY Zenon, <3>3, Invariants DEF PinsHeld
    <3>4. CASE ~Guarded BY Zenon, <2>1, <3>4, Invariants DEF HalvesTaken
    <3>5. CASE d \in Endpoints /\ Tunnelled(d) BY Zenon, <2>2, <3>1, <3>5, Invariants DEF PinsHeld
    <3> QED BY Zenon, <2>1, <3>2, <3>3, <3>4, <3>5 DEF Unremoved
  <2> QED BY Zenon, <2>3, <2>4, <2>5, <2>6 DEF Clean
<1> QED BY <1>1, DaemonInvariant, PTL

(* Between restoring resolv.conf and removing the backup nothing is written. *)
LEMMA BackupRemoved ==
  ASSUME TypeOK, NEW c \in Clients, UNCHANGED setup, Runs(c), pc[c] = "td_backup"
  PROVE  resolv' = resolv
<1> USE DEF Reconnecting, files
<1>1. CASE Resolve(c) \/ InstallBootstrap(c) \/ Establish(c) \/ CreateDevices(c)
  BY Zenon, <1>1 DEF Resolve, InstallBootstrap, Establish, CreateDevices
<1>2. CASE ConfigureGuard(c) \/ ConfigureRoutes(c) \/ ConfigureFails(c) \/
           SetDnsNetworkManager(c) \/ SetDnsResolved(c) \/ BackUp(c) \/ WriteResolv(c)
  BY ZenonT(30), <1>2 DEF ConfigureGuard, ConfigureRoutes, ConfigureFamily, ConfigureFails,
     SetDnsNetworkManager, DnsDone, ActivateProfile, SetDnsResolved, SetLinkDns, BackUp,
     WriteResolv
<1>3. CASE SessionLost(c) \/ DataPlaneError(c) \/ Shutdown(c) \/ ReconnectResolve(c) \/
           RefreshUnpin(c) \/ RefreshGuard(c) \/ RefreshPin(c) \/ RefreshFails(c) \/
           Reconnected(c) \/ AttemptFails(c)
  BY ZenonT(30), <1>3 DEF SessionLost, Lose, DataPlaneError, Shutdown, ReconnectResolve,
     RefreshUnpin, RefreshGuard, RefreshPin, RefreshFails, Reconnected, AttemptFails
<1>4. CASE TeardownRoutes(c) \/ TeardownGivesUp(c) \/ RevertDnsLink(c) \/ TeardownDns(c)
           \/ RemoveBackup(c) \/ TeardownGuard(c) \/ RemoveBootstrap(c)
  BY Zenon, <1>4 DEF TeardownRoutes, TeardownGivesUp, Without, RevertDnsLink,
     DeactivateProfile, RevertLinkDns, TeardownDns, RemoveBackup, TeardownGuard,
     RemoveBootstrap
<1> QED BY Zenon, <1>1, <1>2, <1>3, <1>4 DEF Runs, ClientStep

(* The teardown leaves the resolv.conf that was there before RVPN, whatever was
   killed before with its own contents in it. *)
THEOREM ResolverIsRestored ==
  ASSUME ~TORN_WRITES
  PROVE  DaemonSpec => ResolverRestored
<1> DEFINE Restores == OneAtATime => \A c \in Clients :
               pc[c] = "td_backup" /\ pc'[c] = "td_guard" => resolv' = "prior"
<1>1. DaemonInv /\ [DaemonNext]_daemonVars => [Restores]_vars
  <2> SUFFICES ASSUME DaemonInv, [DaemonNext]_daemonVars, OneAtATime, NEW c \in Clients,
                      pc[c] = "td_backup", pc'[c] = "td_guard"
               PROVE  resolv' = "prior"
    BY Zenon
  <2>1. TypeOK /\ pc \in [Clients -> Phases] /\ resolv = "prior"
    BY Zenon, Invariants, Typed DEF FilesHeld
  <2>2. ASSUME NEW b \in Clients, Runs(b), UNCHANGED setup PROVE resolv' = resolv
    <3>1. pc' = [pc EXCEPT ![b] = pc'[b]] BY Zenon, <2>1, <2>2, Moves
    <3>2. b = c BY Zenon, <2>1, <3>1
    <3> QED BY Zenon, <2>1, <2>2, <3>2, BackupRemoved
  <2>3. ASSUME NEW k \in Conns, Connect(k) \/ Disconnect(k) \/ Disconnected(k) PROVE resolv' = resolv
    BY ZenonT(30), <2>3 DEF Connect, Start, Disconnect, Disconnected, files
  <2>4. Kill \/ Exit => resolv' = resolv BY Zenon DEF Kill, Exit, Gone
  <2>5. Signal => resolv' = resolv BY Zenon, <2>4 DEF Signal, files
  <2>6. Restart \/ (\E b \in Clients : Start(b)) => resolv' = resolv BY Zenon DEF Restart, Start, files
  <2>7. UNCHANGED daemonVars => resolv' = resolv BY Zenon DEF daemonVars, vars, files
  <2> QED BY Zenon, <2>1, <2>2, <2>3, <2>4, <2>5, <2>6, <2>7 DEF DaemonNext, DaemonGone, Foreground, Runs
<1> QED BY <1>1, DaemonInvariant, PTL DEF DaemonSpec, ResolverRestored

===============================================================================
