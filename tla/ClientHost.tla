----------------------------- MODULE ClientHost -----------------------------
(***************************************************************************)
(* The life of a Linux client (run_client) and what it does to its host:   *)
(* the kill switch, the route that keeps the server on the physical        *)
(* network, the routes that send everything else into the tunnel, and the  *)
(* resolver: NetworkManager, systemd-resolved or /etc/resolv.conf with its *)
(* backup.  Every call that changes the host may fail, the services of the *)
(* system bus come and go, the session may be lost at any time, and the    *)
(* process may be told to stop or be killed between any two steps.         *)
(*                                                                         *)
(* Addresses of the interface and configured split routes disappear with   *)
(* the interface, which is not persistent, so they are not state here.     *)
(* The two halves of a default route are one destination.                  *)
(***************************************************************************)
EXTENDS Naturals

CONSTANTS
    Clients,            \* client tasks that may exist in one process
    Endpoints,          \* addresses of the server
    V6,                 \* those of them that are IPv6
    Setups,             \* configurations of the client
    OneName,            \* all clients of the process use the same interface name
    TORN_WRITES         \* a failing write may leave a file created and empty

ASSUME ConfigAssumption ==
    /\ V6 \subseteq Endpoints
    /\ Setups \subseteq [mode : {"foreground", "daemon"},
                         default_route : BOOLEAN, default_route_v6 : BOOLEAN,
                         hostname : BOOLEAN, dns : BOOLEAN, nm_dns : BOOLEAN,
                         addresses : (SUBSET Endpoints) \ {{}}]
    /\ {OneName, TORN_WRITES} \subseteq BOOLEAN

\* Clients, addresses and the other destinations and interfaces are different
\* things.
ASSUME NamesAssumption ==
    /\ {"none", "physical"} \cap Clients = {}
    /\ {"none", "half4", "half6"} \cap Endpoints = {}

VARIABLES
    setup,      \* how the process was started, and the configuration; it never
                \* changes
    process,    \* the client's process is running: "up" or "down"
    armed,      \* the process catches SIGINT, SIGTERM and SIGHUP
    pc,         \* where run_client is, for every client
    server,     \* the address in use: the variable server of run_client_inner
    found,      \* the address the current reconnect attempt resolved
    socket6,    \* clients whose UDP socket is an IPv6 one
    stop,       \* the client was asked to stop
    connected,  \* GuiState.connected
    killSwitch, \* the nftables table rvpn_ks_<uid>
    device,     \* clients that own the tunnel interface
    route,      \* the interface each destination is routed to
    resolv,     \* the contents of /etc/resolv.conf
    backup,     \* the contents of /etc/resolv.conf.rvpn-backup
    linkDns,    \* services that have DNS servers for a client's interface
    mishaps     \* history: "unclean", a client could not clean up after itself,
                \* and "overlap", one was started before another had ended

task == <<pc, server, found, socket6, stop, connected>>
network == <<killSwitch, device, route>>
files == <<resolv, backup, linkDns>>
vars == <<setup, process, armed, task, network, files, mishaps>>

None == "none"
Halves == {"half4", "half6"}
NoTable == [endpoint |-> None, dev |-> None]
Tables == [endpoint : Endpoints, dev : Clients \cup {None}] \cup {NoTable}

Configuring == {"cfg_guard", "cfg_v4", "cfg_v6", "cfg_dns", "cfg_link", "cfg_backup",
                "cfg_resolv"}
Reconnecting == {"reconnecting", "re_unpin", "re_guard", "re_pin", "re_establish"}
TearingDown == {"td_routes", "td_dns", "td_file", "td_backup", "td_guard"}
Phases == {"idle", "resolving", "guarding", "establishing", "devices", "running",
           "unguard", "ended"} \cup Configuring \cup Reconnecting \cup TearingDown

DefaultRoute == setup.default_route
DefaultRouteV6 == setup.default_route_v6
\* The server is configured by name, not by address.
Hostname == setup.hostname
\* Where the server can be.
Addresses == setup.addresses
\* interface.dns_servers is configured,
Dns == setup.dns
\* and NetworkManager.conf says dns=default (network_manager_manages_dns).
ManagesDns == setup.nm_dns

\* A kill switch is installed for either kind of default route.
Guarded == DefaultRoute \/ DefaultRouteV6

Half(e) == IF e \in V6 THEN "half6" ELSE "half4"

\* Traffic of the family of an address goes into the tunnel.
Tunnelled(e) == IF e \in V6 THEN DefaultRouteV6 ELSE DefaultRoute

\* What the kernel answers to RTM_GETROUTE: the longest matching prefix.
BestRouteTo(e) ==
    IF route[e] # None THEN route[e]
    ELSE IF route[Half(e)] # None THEN route[Half(e)]
    ELSE "physical"

\* Of clients that do not run, or have not resolved it yet.
NoServer == [c \in Clients |-> CHOOSE e \in Addresses : TRUE]

Goto(c, phase) == pc' = [pc EXCEPT ![c] = phase]

Init ==
    /\ setup \in Setups
    /\ process = "up" /\ armed = FALSE
    /\ pc = [c \in Clients |-> "idle"]
    /\ server = NoServer
    /\ found = NoServer
    /\ socket6 = {}
    /\ stop = [c \in Clients |-> FALSE]
    /\ connected = [c \in Clients |-> FALSE]
    /\ killSwitch = NoTable
    /\ device = {}
    /\ route = [d \in Halves \cup Endpoints |-> None]
    /\ resolv = "prior" /\ backup = None
    /\ linkDns = [c \in Clients |-> {}]
    /\ mishaps = {}

-----------------------------------------------------------------------------
(* Starting.                                                               *)

\* run_client is called, or spawned by the daemon.
Start(c) ==
    /\ process = "up" /\ pc[c] = "idle"
    /\ Goto(c, "resolving")
    /\ stop' = [stop EXCEPT ![c] = FALSE]
    /\ connected' = [connected EXCEPT ![c] = FALSE]
    /\ UNCHANGED <<process, armed, server, found, socket6, network, files>>

\* A name resolves while DNS gets out: the kill switch drops it, from every
\* user, except on the tunnel interface.  An address needs no DNS.
Resolvable ==
    \/ ~Hostname
    \/ killSwitch = NoTable
    \/ killSwitch.dev \in Clients /\ pc[killSwitch.dev] = "running"

\* resolve_endpoint of run_client.  An answer may also come from a cache or
\* from /etc/hosts, so success never depends on Resolvable.
Resolve(c) ==
    /\ pc[c] = "resolving"
    /\ \/ /\ \E e \in Addresses : server' = [server EXCEPT ![c] = e]
          /\ Goto(c, "guarding")
       \/ Goto(c, "ended") /\ UNCHANGED server
    /\ UNCHANGED <<process, armed, found, socket6, stop, connected, network, files, mishaps>>

Table(e, dev) == [endpoint |-> e, dev |-> dev]

\* install_bootstrap_kill_switch.  When it fails nothing is cleaned up.
InstallBootstrap(c) ==
    /\ pc[c] = "guarding"
    /\ \/ /\ killSwitch' = IF Guarded THEN Table(server[c], None) ELSE killSwitch
          /\ Goto(c, "establishing")
       \/ Guarded /\ Goto(c, "ended") /\ UNCHANGED killSwitch
    /\ UNCHANGED <<process, armed, server, found, socket6, stop, connected, device, route, files, mishaps>>

\* The datagrams of a handshake leave the host.
Reaches(c) ==
    /\ BestRouteTo(server[c]) = "physical"
    /\ killSwitch.endpoint \in {None, server[c]}

\* run_client_inner up to the first handshake.  The socket it opens, for the
\* family of the first address, is the one every reconnect uses.
Establish(c) ==
    /\ pc[c] = "establishing"
    /\ socket6' = IF server[c] \in V6 THEN socket6 \cup {c} ELSE socket6 \ {c}
    /\ \/ /\ Reaches(c)
          /\ Goto(c, "devices")
          /\ connected' = [connected EXCEPT ![c] = TRUE]
       \/ Goto(c, "unguard") /\ UNCHANGED connected
    /\ UNCHANGED <<process, armed, server, found, stop, network, files, mishaps>>

\* create_client_devices: the name is taken while another client owns it.
CreateDevices(c) ==
    /\ pc[c] = "devices"
    /\ \/ (OneName => device = {}) /\ device' = device \cup {c} /\ Goto(c, "cfg_guard")
       \/ Goto(c, "unguard") /\ UNCHANGED device
    /\ UNCHANGED <<process, armed, server, found, socket6, stop, connected, killSwitch, route, files, mishaps>>

-----------------------------------------------------------------------------
(* configure_client_network.                                               *)

\* Mutant: the kill switch admits the first address the name has, not the one
\* in use.
ConfigureGuardFirst(c) ==
    /\ pc[c] = "cfg_guard"
    /\ killSwitch' = IF Guarded THEN Table(CHOOSE e \in Addresses : TRUE, c) ELSE killSwitch
    /\ Goto(c, "cfg_v4")
    /\ UNCHANGED <<process, armed, server, found, socket6, stop, connected, device, route, files, mishaps>>

ConfigureGuard(c) ==
    /\ pc[c] = "cfg_guard"
    /\ killSwitch' = IF Guarded THEN Table(server[c], c) ELSE killSwitch
    /\ Goto(c, "cfg_v4")
    /\ UNCHANGED <<process, armed, server, found, socket6, stop, connected, device, route, files, mishaps>>

\* preserve_server_route: the route the kernel would take now becomes a
\* route of its own.
Preserved(e) == [route EXCEPT ![e] = BestRouteTo(e)]

\* Mutant: the server's route is looked up after the tunnel took over.
ConfigureFamilyLate(c, wanted, half, from, to) ==
    /\ pc[c] = from
    /\ wanted => route[half] \in {None, c}
    /\ route' = IF wanted THEN [route EXCEPT ![half] = c, ![server[c]] = c] ELSE route
    /\ Goto(c, to)
    /\ UNCHANGED <<process, armed, server, found, socket6, stop, connected, killSwitch, device, files, mishaps>>

\* The routes of one family.  replace_route deletes the same route and adds
\* it, which fails if another client's interface has the destination.
ConfigureFamily(c, wanted, half, from, to) ==
    /\ pc[c] = from
    /\ wanted => route[half] \in {None, c}
    /\ route' = IF wanted THEN [Preserved(server[c]) EXCEPT ![half] = c] ELSE route
    /\ Goto(c, to)
    /\ UNCHANGED <<process, armed, server, found, socket6, stop, connected, killSwitch, device, files, mishaps>>

ConfigureRoutes(c) ==
    \/ ConfigureFamily(c, DefaultRoute, "half4", "cfg_v4", "cfg_v6")
    \/ ConfigureFamily(c, DefaultRouteV6, "half6", "cfg_v6", "cfg_dns")

\* A call for the routes of one family fails.  The server's route may have been
\* pinned by then, or deleted and not added again, and one half added.
FamilyFails(c, wanted, half, from) ==
    /\ pc[c] = from /\ wanted
    /\ \/ route' \in {route, Preserved(server[c]), [route EXCEPT ![server[c]] = None]}
       \/ route[half] \in {None, c} /\ route' = [Preserved(server[c]) EXCEPT ![half] = c]

\* Any of the calls before DNS fails.
ConfigureFails(c) ==
    /\ \/ pc[c] \in {"cfg_guard", "cfg_v4"} /\ UNCHANGED route
       \/ FamilyFails(c, DefaultRoute, "half4", "cfg_v4")
       \/ FamilyFails(c, DefaultRouteV6, "half6", "cfg_v6")
    /\ Goto(c, "td_routes")
    /\ UNCHANGED <<process, armed, server, found, socket6, stop, connected, killSwitch, device, files, mishaps>>

\* The last step of configure_client_network, whatever became of DNS: the data
\* plane begins, which polls the shutdown future.
DnsDone(c) == Goto(c, "running") /\ armed' = TRUE

\* set_dns_networkmanager: a profile with the interface's addresses and the DNS
\* servers is activated on it.
ActivateProfile(c) == linkDns' = [linkDns EXCEPT ![c] = @ \cup {"NetworkManager"}]

\* set_dns_resolved: SetDNS, SetDomains and SetDefaultRoute on the link.
SetLinkDns(c) == linkDns' = [linkDns EXCEPT ![c] = @ \cup {"resolved"}]

\* set_dns_native asks NetworkManager first, if it is in charge of DNS.  It may
\* be away, or refuse.
SetDnsNetworkManager(c) ==
    /\ pc[c] = "cfg_dns"
    /\ \/ ~Dns /\ DnsDone(c) /\ UNCHANGED linkDns
       \/ /\ Dns /\ ManagesDns
          /\ ActivateProfile(c)
          /\ DnsDone(c)
       \/ Dns /\ Goto(c, "cfg_link") /\ UNCHANGED <<armed, linkDns>>
    /\ UNCHANGED <<process, server, found, socket6, stop, connected, network, resolv, backup, mishaps>>

\* Then systemd-resolved.  If it is not installed, or one of the calls fails,
\* resolv.conf is left, and what the calls before it did stays.
SetDnsResolved(c) ==
    /\ pc[c] = "cfg_link"
    /\ \/ /\ SetLinkDns(c)
          /\ DnsDone(c) \/ (Goto(c, "cfg_backup") /\ UNCHANGED armed)
       \/ Goto(c, "cfg_backup") /\ UNCHANGED <<armed, linkDns>>
    /\ UNCHANGED <<process, server, found, socket6, stop, connected, network, resolv, backup, mishaps>>

\* Mutant: an existing backup is overwritten.
BackUpAlways(c) ==
    /\ pc[c] = "cfg_backup"
    /\ backup' = resolv
    /\ Goto(c, "cfg_resolv")
    /\ UNCHANGED <<process, armed, server, found, socket6, stop, connected, network, resolv, linkDns, mishaps>>

\* set_dns_resolv_conf_fallback keeps a backup that already exists.  A failed
\* backup ends it with a warning.
BackUp(c) ==
    /\ pc[c] = "cfg_backup"
    /\ \/ /\ backup' = IF backup = None THEN resolv ELSE backup
          /\ Goto(c, "cfg_resolv")
          /\ UNCHANGED armed
       \/ /\ backup = None
          /\ backup' \in {None} \cup (IF TORN_WRITES THEN {"empty"} ELSE {})
          /\ DnsDone(c)
    /\ UNCHANGED <<process, server, found, socket6, stop, connected, network, resolv, linkDns, mishaps>>

\* The same, writing resolv.conf itself; that write truncates the file first.
WriteResolv(c) ==
    /\ pc[c] = "cfg_resolv"
    /\ resolv' \in {"tunnel"} \cup (IF TORN_WRITES THEN {"empty"} ELSE {resolv})
    /\ DnsDone(c)
    /\ UNCHANGED <<process, server, found, socket6, stop, connected, network, backup, linkDns, mishaps>>

-----------------------------------------------------------------------------
(* The data plane, and reconnecting.                                       *)

Lose(c, phase, shown) ==
    /\ Goto(c, phase)
    /\ connected' = [connected EXCEPT ![c] = shown]
    /\ UNCHANGED <<process, armed, server, found, socket6, stop, network, files, mishaps>>

\* run_data_plane returns ServerClosed or LinkLost.
SessionLost(c) == pc[c] = "running" /\ Lose(c, "reconnecting", FALSE)

\* run_data_plane returns an error (an interface, a socket, a seal), and
\* GuiState is not told.
DataPlaneError(c) == pc[c] = "running" /\ Lose(c, "td_routes", TRUE)

\* Mutant: reconnect does not poll the shutdown future.
ShutdownInDataPlane(c) ==
    /\ stop[c]
    /\ pc[c] = "running"
    /\ Lose(c, "td_routes", FALSE)

\* The shutdown future is polled only here: by the data plane and by both
\* selects of reconnect, which drops the attempt where it stands.
Shutdown(c) ==
    /\ stop[c]
    /\ pc[c] \in {"running"} \cup Reconnecting
    /\ Lose(c, "td_routes", FALSE)

\* One attempt begins; an attempt that cannot resolve changes nothing and
\* is repeated after the backoff.
ReconnectResolve(c) ==
    /\ pc[c] = "reconnecting"
    /\ \E e \in IF Hostname THEN Addresses ELSE {server[c]} :
          /\ found' = [found EXCEPT ![c] = e]
          /\ Goto(c, IF e = server[c] THEN "re_establish" ELSE "re_unpin")
    /\ UNCHANGED <<process, armed, server, socket6, stop, connected, network, files, mishaps>>

\* Mutant: the route of the old address stays.
RefreshUnpinForgotten(c) ==
    /\ pc[c] = "re_unpin"
    /\ Goto(c, "re_guard")
    /\ UNCHANGED <<process, armed, server, found, socket6, stop, connected, network, files, mishaps>>

\* refresh_client_endpoint: remove_endpoint_route of the old address, whose
\* error is ignored,
RefreshUnpin(c) ==
    /\ pc[c] = "re_unpin"
    /\ \/ route' = [route EXCEPT ![server[c]] = None] /\ UNCHANGED mishaps
       \/ mishaps' = mishaps \cup {"unclean"} /\ UNCHANGED route
    /\ Goto(c, "re_guard")
    /\ UNCHANGED <<process, armed, server, found, socket6, stop, connected, killSwitch, device, files>>

\* Mutant: the refreshed kill switch does not name the tunnel.
RefreshGuardBare(c) ==
    /\ pc[c] = "re_guard"
    /\ killSwitch' = IF Guarded THEN Table(found[c], None) ELSE killSwitch
    /\ Goto(c, "re_pin")
    /\ UNCHANGED <<process, armed, server, found, socket6, stop, connected, device, route, files, mishaps>>

\* then the kill switch for the new one,
RefreshGuard(c) ==
    /\ pc[c] = "re_guard"
    /\ killSwitch' = IF Guarded THEN Table(found[c], c) ELSE killSwitch
    /\ Goto(c, "re_pin")
    /\ UNCHANGED <<process, armed, server, found, socket6, stop, connected, device, route, files, mishaps>>

\* then its route.  Only then does reconnect take the new address over.
RefreshPin(c) ==
    /\ pc[c] = "re_pin"
    /\ route' = IF Guarded THEN Preserved(found[c]) ELSE route
    /\ server' = [server EXCEPT ![c] = found[c]]
    /\ Goto(c, "re_establish")
    /\ UNCHANGED <<process, armed, found, socket6, stop, connected, killSwitch, device, files, mishaps>>

\* A call of the refresh fails, or the attempt is dropped after the kernel
\* added the route and before the client saw the answer.
RefreshFails(c) ==
    /\ Guarded
    /\ \/ pc[c] \in {"re_guard", "re_pin"} /\ Goto(c, "reconnecting") /\ UNCHANGED route
       \/ /\ pc[c] = "re_pin" /\ stop[c]
          /\ route' = Preserved(found[c])
          /\ Goto(c, "td_routes")
    /\ UNCHANGED <<process, armed, server, found, socket6, stop, connected, killSwitch, device, files, mishaps>>

\* A socket of one family has no session with a server of the other.
Reconnected(c) ==
    /\ pc[c] = "re_establish"
    /\ Reaches(c)
    /\ server[c] \in V6 <=> c \in socket6
    /\ Goto(c, "running")
    /\ connected' = [connected EXCEPT ![c] = TRUE]
    /\ UNCHANGED <<process, armed, server, found, socket6, stop, network, files, mishaps>>

AttemptFails(c) ==
    /\ pc[c] = "re_establish"
    /\ Goto(c, "reconnecting")
    /\ UNCHANGED <<process, armed, server, found, socket6, stop, connected, network, files, mishaps>>

-----------------------------------------------------------------------------
(* teardown_client_network, and the end of run_client.                     *)

\* Without its interface a client has no routes through it.
Without(gone) == [d \in DOMAIN route |-> IF route[d] \in gone THEN None ELSE route[d]]

\* Mutant: the route of the server is forgotten.
DeletedHalves(c) == {d \in Halves : route[d] = c}

\* The routes the teardown deletes: the halves, and the route of the server if
\* the family of its address is one that goes through the tunnel
\* (remove_server_route).
Deleted(c) ==
    {d \in {"half4"} : DefaultRoute /\ route[d] = c}
    \cup {d \in {"half6"} : DefaultRouteV6 /\ route[d] = c}
    \cup {d \in {server[c]} : Tunnelled(d) /\ route[d] # None}

\* The errors of delete_route are ignored.  A half that stays disappears with
\* the interface; the route of the server does not.
TeardownRoutes(c) ==
    /\ pc[c] = "td_routes"
    /\ \E failed \in SUBSET Deleted(c) :
         /\ route' = [d \in DOMAIN route |->
                        IF d \in Deleted(c) \ failed THEN None ELSE route[d]]
         /\ mishaps' = IF server[c] \in failed THEN mishaps \cup {"unclean"} ELSE mishaps
    /\ Goto(c, IF Dns THEN "td_dns" ELSE "td_guard")
    /\ UNCHANGED <<process, armed, server, found, socket6, stop, connected, killSwitch, device, files>>

\* Neither the netlink socket nor the interface is there any more.
TeardownGivesUp(c) ==
    /\ pc[c] = "td_routes"
    /\ Goto(c, "unguard")
    /\ device' = device \ {c}
    /\ route' = Without({c})
    /\ linkDns' = [linkDns EXCEPT ![c] = {}]
    /\ mishaps' = mishaps \cup {"unclean"}
    /\ UNCHANGED <<process, armed, server, found, socket6, stop, connected, killSwitch, resolv, backup>>

\* Mutant: a service that is there ends it, as in revert_dns.
RevertDnsLinkOnly(c) ==
    /\ pc[c] = "td_dns"
    /\ \/ linkDns' = [linkDns EXCEPT ![c] = {}] /\ Goto(c, "td_guard")
       \/ UNCHANGED linkDns /\ Goto(c, "td_file")
    /\ UNCHANGED <<process, armed, server, found, socket6, stop, connected, network, resolv, backup, mishaps>>

\* revert_dns_networkmanager deactivates the profile, if its own is the active one.
DeactivateProfile(services) == {services, services \ {"NetworkManager"}}

\* revert_dns_resolved reverts the link.
RevertLinkDns(services) == {services, services \ {"resolved"}}

\* revert_dns_native asks NetworkManager if it is there and systemd-resolved if
\* it runs, and logs their errors.  Whichever of them is there now, and whichever
\* carried DNS, resolv.conf follows.
RevertDnsLink(c) ==
    /\ pc[c] = "td_dns"
    /\ \E first \in DeactivateProfile(linkDns[c]) : \E kept \in RevertLinkDns(first) :
         linkDns' = [linkDns EXCEPT ![c] = kept]
    /\ Goto(c, "td_file")
    /\ UNCHANGED <<process, armed, server, found, socket6, stop, connected, network, resolv, backup, mishaps>>

\* revert_dns_resolv_conf_fallback writes the backup back, if there is one,
TeardownDns(c) ==
    /\ pc[c] = "td_file"
    /\ \/ backup = None /\ Goto(c, "td_guard") /\ UNCHANGED <<resolv, mishaps>>
       \/ backup # None /\ resolv' = backup /\ Goto(c, "td_backup") /\ UNCHANGED mishaps
       \/ /\ backup # None /\ Goto(c, "td_guard")
          /\ resolv' = IF TORN_WRITES THEN "empty" ELSE resolv
          /\ mishaps' = mishaps \cup {"unclean"}
    /\ UNCHANGED <<process, armed, server, found, socket6, stop, connected, network, backup, linkDns>>

\* and then removes it.
RemoveBackup(c) ==
    /\ pc[c] = "td_backup"
    /\ backup' = None
    /\ Goto(c, "td_guard")
    /\ UNCHANGED <<process, armed, server, found, socket6, stop, connected, network, resolv, linkDns, mishaps>>

\* remove_kill_switch may fail here, with a warning.  The interface is
\* dropped when run_client_inner returns.
TeardownGuard(c) ==
    /\ pc[c] = "td_guard"
    /\ killSwitch' \in IF Guarded THEN {NoTable, killSwitch} ELSE {killSwitch}
    /\ device' = device \ {c}
    /\ route' = Without({c})
    /\ linkDns' = [linkDns EXCEPT ![c] = {}]
    /\ Goto(c, "unguard")
    /\ UNCHANGED <<process, armed, server, found, socket6, stop, connected, resolv, backup, mishaps>>

\* remove_bootstrap_kill_switch, whatever run_client_inner returned.
RemoveBootstrap(c) ==
    /\ pc[c] = "unguard"
    /\ \/ killSwitch' = (IF Guarded THEN NoTable ELSE killSwitch) /\ UNCHANGED mishaps
       \/ Guarded /\ mishaps' = mishaps \cup {"unclean"} /\ UNCHANGED killSwitch
    /\ Goto(c, "ended")
    /\ UNCHANGED <<process, armed, server, found, socket6, stop, connected, device, route, files>>

ClientStep(c) ==
    \/ Resolve(c) \/ InstallBootstrap(c) \/ Establish(c) \/ CreateDevices(c)
    \/ ConfigureGuard(c) \/ ConfigureRoutes(c) \/ ConfigureFails(c)
    \/ SetDnsNetworkManager(c) \/ SetDnsResolved(c) \/ BackUp(c) \/ WriteResolv(c)
    \/ Shutdown(c) \/ RefreshUnpin(c) \/ RefreshGuard(c) \/ RefreshPin(c)
    \/ RefreshFails(c) \/ Reconnected(c) \/ AttemptFails(c)
    \/ TeardownRoutes(c) \/ TeardownGivesUp(c) \/ RevertDnsLink(c) \/ TeardownDns(c) \/ RemoveBackup(c)
    \/ TeardownGuard(c) \/ RemoveBootstrap(c)

-----------------------------------------------------------------------------
(* The process of a client run in the foreground.                          *)

\* The process is gone: interfaces go with it, the rest stays.
Gone ==
    /\ process = "up"
    /\ process' = "down" /\ armed' = FALSE
    /\ pc' = [c \in Clients |-> "idle"]
    /\ stop' = [c \in Clients |-> FALSE]
    /\ connected' = [c \in Clients |-> FALSE]
    /\ server' = NoServer /\ found' = NoServer /\ socket6' = {}
    /\ device' = {}
    /\ route' = Without(Clients)
    /\ linkDns' = [c \in Clients |-> {}]
    /\ UNCHANGED <<killSwitch, resolv, backup>>

\* main returns what run_client returned.
Exit ==
    /\ \E c \in Clients : pc[c] = "ended"
    /\ \A c \in Clients : pc[c] \in {"idle", "ended"}
    /\ Gone
    /\ UNCHANGED mishaps

\* SIGKILL, a panic that aborts, or the power.
Kill == Gone /\ mishaps' = mishaps \cup {"unclean"}

\* SIGINT or SIGTERM.  shutdown_signal registers its handlers when it is first
\* polled, in the data plane; until then a signal ends the process.
Signal ==
    /\ process = "up"
    /\ \E c \in Clients : pc[c] # "idle"
    /\ IF armed
       THEN /\ stop' = [c \in Clients |-> TRUE]
            /\ UNCHANGED <<process, armed, pc, server, found, socket6, connected, network, files, mishaps>>
       ELSE Kill

Restart ==
    /\ process = "down"
    /\ process' = "up"
    /\ UNCHANGED <<armed, task, network, files, mishaps>>

-----------------------------------------------------------------------------
(* Properties.                                                             *)

\* The clients of the process have one interface name, which keeps the second
\* from having its interface before the first has let go of it; or none was
\* started before another had ended.
OneAtATime == OneName \/ "overlap" \notin mishaps

\* A server whose family does not go through the tunnel: its route is pinned for
\* the other family, and the teardown does not look at it.
Unremoved == {e \in Addresses : Guarded /\ ~Tunnelled(e)}

Clean ==
    /\ killSwitch = NoTable
    /\ \A d \in DOMAIN route \ Unremoved : route[d] = None
    /\ resolv = "prior" /\ backup = None
    /\ \A c \in Clients : linkDns[c] = {}

\* Once every client has ended, the host is as it was before the first:
\* whichever of their calls failed on the way in, how often they reconnected,
\* where the shutdown reached them, which of the resolver's services came and
\* went, and whether one started before another of the same interface name had
\* ended, provided the calls that clean up succeeded.  What stays is the pinned
\* route of a server whose family the tunnel does not carry.
HostRestored ==
    OneAtATime /\ (\A c \in Clients : pc[c] \in {"idle", "ended"}) /\ "unclean" \notin mishaps
        => Clean

\* "restores routes ... on a graceful SIGINT or SIGTERM shutdown": a client that
\* was asked to stop and has ended leaves no route behind, that of a server of
\* the other family included.
RoutesRestored ==
    /\ OneAtATime /\ "unclean" \notin mishaps
    /\ \A c \in Clients : pc[c] \in {"idle", "ended"}
    /\ \E c \in Clients : pc[c] = "ended" /\ stop[c]
    => \A d \in DOMAIN route : route[d] = None

\* Reverting DNS leaves the resolv.conf that was there before RVPN, also
\* after runs that were killed with their own contents in it.
ResolverRestored ==
    [][OneAtATime => \A c \in Clients :
         pc[c] = "td_backup" /\ pc'[c] = "td_guard" => resolv' = "prior"]_vars

\* As long as traffic is routed into the tunnel the kill switch is in place
\* and admits that tunnel: through reconnects, refreshes and the teardown.  A
\* daemon that starts a client while another is still being stopped has one
\* kill switch for both, which the first removes as it ends.
FailClosed ==
    "overlap" \in mishaps \/ \A h \in Halves : route[h] \in Clients => killSwitch.dev = route[h]

\* The address may change while the tunnel has the routes to the new one.
MayMove == Hostname /\ Guarded

\* "The server's UDP route must stay on the physical interface": while the
\* client has a session, or tries to get one back, the datagrams to its
\* server do not go into its own tunnel.
FollowsServer ==
    \A c \in Clients : pc[c] \in {"running", "re_establish"} => BestRouteTo(server[c]) # c

\* The same for a server that cannot move: whatever failed on the way in.
EndpointPhysical == OneAtATime => MayMove \/ FollowsServer

\* A client that lost its session gets one back or is stopped.  With a default
\* route this needs a server given by address: the kill switch stops DNS.
Reconnects ==
    \A c \in Clients : pc[c] = "reconnecting" /\ ~MayMove ~> pc[c] \notin Reconnecting

-----------------------------------------------------------------------------
(* What the safety properties rest on.                                     *)

\* A client that has its interface.
Owning == Configuring \cup {"running"} \cup Reconnecting \cup TearingDown
\* One that may have installed the kill switch, and will remove it.
Holding == {"establishing", "devices", "unguard"} \cup Owning
\* One whose routes are in place.
Configured == {"cfg_dns", "cfg_link", "cfg_backup", "cfg_resolv", "running"} \cup Reconnecting
\* One that may have pinned the route of its server, and will remove it.
Pinning == ({"cfg_v6", "td_routes"} \cup Configured) \ {"re_guard", "re_pin"}
\* One that may have backed resolv.conf up, and will restore it.
BackedUp == {"cfg_resolv", "running", "td_routes", "td_dns", "td_file", "td_backup"}
            \cup Reconnecting

TypeOK ==
    /\ setup \in Setups
    /\ process \in {"up", "down"} /\ armed \in BOOLEAN
    /\ pc \in [Clients -> Phases]
    /\ server \in [Clients -> Addresses] /\ found \in [Clients -> Addresses]
    /\ socket6 \subseteq Clients
    /\ stop \in [Clients -> BOOLEAN] /\ connected \in [Clients -> BOOLEAN]
    /\ killSwitch \in Tables
    /\ device \subseteq Clients
    /\ route \in [Halves \cup Endpoints -> Clients \cup {None, "physical"}]
    /\ linkDns \in [Clients -> SUBSET {"NetworkManager", "resolved"}]
    /\ mishaps \subseteq {"unclean", "overlap"}

\* An interface belongs to a client that is past creating it and has not
\* dropped it; routes into the tunnel and DNS servers of a link need one.
DeviceExact ==
    /\ device = {c \in Clients : pc[c] \in Owning}
    /\ \A d \in DOMAIN route : route[d] \in Clients => route[d] \in device
    /\ \A c \in Clients : linkDns[c] # {} => c \in device

\* Clients come one at a time, as far as they do.
Exclusive ==
    /\ "overlap" \notin mishaps =>
         \A c, d \in Clients : pc[c] # "idle" /\ pc[d] # "idle" => c = d
    /\ OneAtATime => \A c, d \in device : c = d

\* The halves a client has taken, and when.
HalvesTaken ==
    /\ route["half4"] \in {None} \cup (IF DefaultRoute THEN Clients ELSE {})
    /\ route["half6"] \in {None} \cup (IF DefaultRouteV6 THEN Clients ELSE {})
    /\ \A c \in Clients :
         /\ pc[c] \in {"cfg_guard", "cfg_v4"} => \A d \in DOMAIN route : route[d] # c
         /\ pc[c] = "cfg_v6" => route["half6"] # c
         /\ pc[c] \in {"cfg_v6"} \cup Configured /\ DefaultRoute => route["half4"] = c
         /\ pc[c] \in Configured /\ DefaultRouteV6 => route["half6"] = c
    /\ ~Guarded => \A d \in DOMAIN route : route[d] = None

\* The kill switch names the tunnel from before the routes until after them,
\* and whoever installed it is still there to remove it.
GuardHeld ==
    /\ FailClosed
    /\ "overlap" \notin mishaps /\ Guarded => \A c \in Clients :
         pc[c] \in {"cfg_v4", "cfg_v6"} \cup Configured => killSwitch.dev = c
    /\ ~Guarded => killSwitch = NoTable
    /\ "unclean" \notin mishaps /\ killSwitch # NoTable =>
         \E c \in Clients : pc[c] \in Holding

\* Whoever pinned the route of its server is still there to remove it; and the
\* route of a server that cannot move is a physical one.
PinsHeld ==
    /\ "unclean" \notin mishaps => \A e \in Endpoints :
         route[e] = "physical" /\ Tunnelled(e) =>
           \E c \in Clients : server[c] = e /\ pc[c] \in Pinning
    /\ \A e \in Endpoints \ Addresses : route[e] = None
    /\ ~Hostname =>
         /\ \A c \in Clients : pc[c] \notin {"re_unpin", "re_guard", "re_pin"}
         /\ OneAtATime =>
              /\ \A e \in Endpoints : route[e] \notin Clients
              /\ \A c \in Clients :
                   pc[c] \in {"cfg_v6"} \cup Configured /\ route[Half(server[c])] = c
                     => route[server[c]] = "physical"

\* There is a backup while resolv.conf has been replaced, and somebody who will
\* restore it.
FilesHeld ==
    /\ resolv \in {"prior", "tunnel"} /\ backup \in {None, "prior"}
    /\ backup = None => resolv = "prior"
    /\ backup # None => Dns
    /\ \A c \in Clients :
         /\ pc[c] = "cfg_resolv" => backup = "prior"
         /\ pc[c] = "td_backup" => resolv = "prior"
         /\ pc[c] \in {"cfg_link", "cfg_backup", "cfg_resolv"} => Dns
    /\ "unclean" \notin mishaps /\ backup # None => \E c \in Clients : pc[c] \in BackedUp

HostInv ==
    /\ TypeOK /\ DeviceExact /\ Exclusive /\ HalvesTaken /\ GuardHeld /\ PinsHeld
    /\ OneAtATime /\ ~TORN_WRITES => FilesHeld
=============================================================================
