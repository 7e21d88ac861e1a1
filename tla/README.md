# RVPN: a TLA+ model

RVPN is a userspace VPN: a client and a server run an authenticated handshake
over UDP, protect IP packets and Ethernet frames with session keys, and route
them between peers. This directory holds TLA+ modules that model it, TLC
configurations that check them on small instances, and theorems that TLAPS
proves for every value of the constants. `PROJECT.json` maps every definition to
the lines it models and lists components, runs, mutants, hazards, findings and
theorems.

    tlc -config MCServerSessions.cfg MCServerSessions     # check a run
    tlapm ServerSessionsProofs.tla                        # check proofs

## The system

| part | source | state | operations | module |
|---|---|---|---|---|
| replay window | rvpn-protocol `replay.rs` | highest number, bitmap ring | check and record, clear a range | `ReplayGeometry`, `ReplayPromise`, `ReplayWindow`, `ReplayRing` |
| protected session | rvpn-protocol `session.rs` | key phase, counter, windows of two phases | seal, open, inherit, expire | `ProtectedSession` |
| handshake | rvpn-protocol `authenticated_handshake.rs`, rvpn-crypto | transcript, ephemeral keys | start, accept, finish | inside `ServerSessions`, `Tunnel` |
| server tables | rvpn-server `handshake.rs`, `state.rs`, `tunnel.rs` | pending attempts, per-source counters, active sessions, router entries, configuration | initiation, rekey, finish, roam, close, sweep, retry, reload | `ServerSessions` |
| client tunnel | rvpn-client `handshake.rs`, `tunnel.rs`, `main.rs` | session in use, handshake under way | connect, rekey, keepalive, liveness check, reconnect, close | `Tunnel` |
| outbound queue | rvpn-transport `congestion.rs` | per-peer queues, deficits, buckets, rotation | enqueue, receive, set rate | `OutboundQueue` |
| client host | rvpn-client `main.rs`, `platform/linux_network.rs`, rvpn-net | kill switch, routes, resolver (NetworkManager, systemd-resolved, resolv.conf) | configure, refresh, tear down | `ClientHost` |
| client daemon | rvpn-client `ipc.rs`, rvpn-ipc | the session it owns | connect, disconnect | `Daemon` |
| server host | rvpn-server `main.rs`, `status.rs`, `portal.rs` | phase of the process, its tasks, status socket | start, reload, stop | `ServerHost` |
| forwarding | rvpn-server `firewall.rs` | sysctls, rules, what to undo | install, clean up | `ForwardingGuard` |
| DNS task | rvpn-server `dns_reload.rs` | configuration, listeners | start, replace | `DnsReloader` |
| usage history | rvpn-server `usage_history.rs` | totals per day, last counts, file | open, record, prune, flush | `UsageHistory` |
| Android client | rvpn-android, `RvpnService.kt` | statics of the library, tunnel threads, service | start, stop, revoke, monitor | `Android` |
| router | rvpn-routing `router.rs`, rvpn-server `tunnel.rs` | peers, prefix table, links, two MAC indexes | register, unregister, replace links, learn, route | `Router` |
| transport | rvpn-transport `transport.rs`, `mtu.rs`, `keepalive.rs` | MTU and probe, keepalive deadline, time since the last authentic packet | send, receive, keepalive, liveness check, sweep | `AdaptiveMtu`, `Link` |
| Windows network, tray, configuration, builder, scripts | | | | not modelled |

How the parts interact:

- The server is one task, a `select!` loop that runs one handler to its end
  before the next, so a handler is one action. It shares nothing with the
  status, portal and DNS tasks but channels.
- The client is one task as well. During a handshake or a rekey it reads the
  socket inside `establish` and serves nothing else; dropping that future, on a
  shutdown, abandons it between any two of its calls.
- Between the two lies UDP: datagrams are lost, duplicated, delayed and
  reordered, addresses change, and either process may restart.
- Both leave state on their host (rules, routes, files) that outlives them and
  that the next process finds.
- The daemon runs clients as tasks for concurrent control connections. The
  Android service runs each tunnel on a thread and shares statics with it.

## Modules

State is named as in the code. Variables marked *history* in their declaration
are not in the code. No behaviour depends on them but for two bounds on `carried`
and the keys of the previous phase, which `Tunnel` looks up in `installed`
instead of storing them twice. Definitions introduced by
"Mutant" are plausible bugs, used to confirm that a property can fail.

**ReplayPromise, ReplayWindow, ReplayRing** are the replay protection at three
levels, each shown to implement the one above. `ReplayPromise` remembers every
accepted number and has no bitmap. `ReplayWindow` has the ring of bits, as the
set `seen` of slots that are one, and clears a range in one step. `ReplayRing`
has the loop of `clear_range` that does it, a word per turn; to a caller a call
in progress has not happened yet (`Bitmap`). `ReplayGeometry` is the arithmetic
of words and slots they share.

**ProtectedSession.** The two sides of a session through rekeys. Every packet
ever sealed can be presented at any time and any number of times. Ideal
encryption: a packet opens under the keys it was sealed with.

**ServerSessions.** The tables of the server, one action per handler; any
endpoint may present any packet at any time. A handshake attempt is a fresh
number, which also stands for the keys it agrees on.

**Tunnel** extends `ServerSessions` with a client and the datagrams in flight.
Faults are counted: a loss, a duplicate, a timer that overtakes a datagram, a
change of address, a crash of the server. The entries of `peers` are taken to
have different server seeds, so that a client takes the response of its own
entry for authentic and no other; and the deadline of a try to be longer than a
round trip, so that a try that ends early is a fault.

**OutboundQueue.** Deficit round robin with token buckets. `Recv` follows
`recv` through its suspensions; `Cancelled` is `select!` dropping it.

**AdaptiveMtu, Link.** A session once it is established: each end has a
keepalive deadline that any activity on its socket puts off and a time since the
last authentic packet. A packet goes out if it fits both the effective MTU and
the path. The clock ticks; a datagram arrives within its tick or is lost. The
MTU of one end is kept, that of the other stays at its target since it sends
only small packets (`BulkEnds`).

**Router.** The router's copies of the configuration (allowed prefixes, linked
sessions, prefix table, MAC indexes) and the handlers that change them. Routing
functions change nothing but learned MACs, so they are operators that
`RoutesByPolicy` evaluates for every packet in every state. Addresses are
abstract; a prefix is its length and the addresses it covers. Links name
configured peers; the `cert:` names of certificate peers are not modelled here.

**ClientHost.** One or more clients on one Linux host, from the bootstrap kill
switch to the teardown. Every call may fail, the deletions of the teardown and
a command between two routes of a family included, a refresh may stop between two
calls, services of the system bus come and go, the process may be signalled,
killed and restarted.
**Daemon** extends it with control connections that start and stop clients.

**ForwardingGuard, DnsReloader, UsageHistory** are components with their own
variables; **ServerHost** extends the three and adds `main`, the branches of the
loop that touch the host, the tasks and the shutdown. It is started again on the
host as the last process left it.

**Android.** Four of the seven statics of `jni.rs` (not the error text, the
resolved name and the logger flag, which decide nothing), one thread per tunnel,
the main thread, a binder thread that revokes, and the monitor coroutines. A step
is one access to a static; `Swap` is two, as no other thread writes the second
between them.

## Runs

Each run checks deadlock too, except `tunnel` (a client that was closed or gave
up is at rest).

| run | shows | distinct states |
|---|---|---|
| `data_plane` | the clearing loop clears exactly its range; the bitmap implements the window, and through it the promise; no packet delivered twice, no nonce used twice, windows hold genuine numbers, the server honours its grace period; packets go where the configuration in force says, MAC indexes agree, a MAC stays with its owner | 729,431 |
| `server_sessions` | counters and quota (`QuotaExact`); router, identities and configuration (`SessionsExact`); key phases; every pending attempt ends | 19,960 |
| `tunnel` | the client runs only on keys the server installed, never goes back to older ones, and recovers once faults stop | 257,584 |
| `link` | one end always hears the other while nothing is lost, a dead link is found, the MTU keeps its pace and follows the path | 136,528 |
| `outbound_queue` | rotation and capacities (`QueuesExact`), no peer above its round (unshaped) or its rate, every waiting peer served | 110,397 |
| `client` | the host is restored, the tunnel never carries traffic unguarded, no client without an owner, disconnects answered, the client reconnects | 86,242 |
| `server_host` | rules, switches and socket taken back; DNS in step with the configuration; usage exact and durable; a signal ends the server | 659,697 |
| `android` | tunnels never overlap and the connected flag is exact (`TunnelExact`), a disconnect ends the tunnel | 434,782 |
| `client_server_moved` | finding 1 below | violated |
| `directed_links` | finding 2 below | violated |
| `rx_rate_reload` | finding 3 below | violated |
| `server_other_family` | finding 4 below | violated |

Bounds, and why they are enough to see the interesting cases:

- `data_plane`: the bitmap, the session and the router share no state, so each
  behaviour is about one of them (`subject`). The bitmap has 3 words of 2 bits and
  numbers to 12, so a range can start inside a word, cover a whole one and wrap,
  the ring wraps twice, and a jump can be shorter than, equal to and longer than
  the window. The session has a window of 2, 3 numbers per phase (one falls out of
  the window, one reaches the limit) and one rekey by both sides at different
  moments. The router has three peers of which one has a prefix that contains the
  addresses of the others, four session ids, three MACs of which a session may
  learn two, and reloads among seven files, two of them refused.
- `server_sessions`: a pinned and a certificate peer, two addresses, 4 attempts:
  an attempt of each kind, a rekey and a competing handshake; a quota that is
  reached.
- `tunnel`: two pinned peers, so one initiation has two attempts; two faults in
  any combination, a rekey, two tries per stage. Initiations are bounded above
  what two faults can cost.
- `outbound_queue`: three peers and room for two; sizes below and above a
  quantum; one limited rate and none, so a change from one limit to another is
  left to the proof (`RatesAreKept` is about every set of rates).
- `link`: two steps from the target MTU (10) to the minimum (8), a path for
  either, keepalive intervals of one or two ticks and a timeout of twice the
  longest, the least the configuration accepts.
- `client`: in the foreground two default routes with a fixed server of either
  family and every DNS service, two default routes with a server that moves
  between two addresses of one family and one of the other, one default route
  with a server of the other family (its pinned route is left out of
  `HostRestored` and the subject of finding 4), and a split tunnel with DNS and a
  server that moves; in the daemon two connections and two clients with one
  interface name, with a default route or with DNS.
- `server_host`: one rule per family, since rules are handled alike; two
  families; two failing calls, kills without bound; two sessions, two packets
  and two days with one day of retention. Usage is checked without forwarding:
  the two share no state. Forwarding section and backend stay the same when the
  server is started again: one started with another backend, or with forwarding
  off, does not look for what a killed one left.
- `android`: two tunnels, since the statics relate a tunnel only to its
  successor.

Fairness. Tasks and threads go on while they can (weak fairness of their next
step), timers fire, and a network delivers what it does not lose. Nothing is
assumed of users, signals, reloads, failures or kills. Strong fairness is
assumed of four actions:

- `Tunnel` `LinkLost`: the liveness deadline counts from the last authentic
  packet, so keepalives sent in between do not put it off.
- `Android` `SeesShutdown`: the branch is ready again and again between rekeys,
  and `select!` polls its branches in random order.
- `ClientHost` `ReconnectResolve` (while the name can be resolved) and
  `Reconnected`: assumptions about the world, not the code. A name that can be
  resolved is, some time, and a server that can be reached answers, some time.
  Without them `Reconnects` says nothing, since every attempt may fail. The
  socket has the family of the first address (`socket6`), so `Reconnected` is
  possible only at an address of that family.

`link` assumes weak fairness of the clock, of the timers, of `Reconnect` (a
handshake gets through, some time, while there is a path) and of a host that
sends full-size packets.

Findings, each with a run in which TLC shows the behaviour:

1. `client_server_moved`: when the server's name resolves to a new address, the
   route to it is copied from the tunnel's own default route
   (`linux_network.rs:421`), while `docs/operations.md:151` says it must stay on
   the physical interface.
2. `directed_links`: `register` settles both directions of a link by one lookup
   (`router.rs:165`). A transmitter that joins after its receiver lets the
   receiver send to it; a receiver that joins after its transmitter gets no edge,
   until the links are reloaded. `docs/architecture.md:63` says that directed
   links "grant only the configured transmitter-to-receiver edges".
3. `rx_rate_reload`: a reload changes the receive limit of the sessions active at
   that moment; sessions established later get the one the event loop read when
   it started (`tunnel.rs:436`, `:756`). `docs/configuration.md:88` says that the
   server reloads rate limits on `SIGHUP`. `SessionsExact` does not speak of the
   limit.
4. `server_other_family`: with a default route of one family only and a server of
   the other, the route of the server is pinned (`linux_network.rs:179`, `:213`),
   but `remove_server_route` returns at once for a server of another family than
   the default route's (`:359`), so the route stays after a graceful shutdown.
   `README.md:68` says that RVPN "restores routes and firewall state" then.
   `HostRestored` leaves this route out (`Unremoved`) and claims the rest.

Other disagreements met while modelling, which the models exhibit and no run
states:

- A datagram that exceeds the effective MTU is dropped locally and reported as
  oversized (`transport.rs:118`), which steps the MTU down again after each
  interval and ends probes: while a host keeps sending full-size packets the MTU
  need not come back, although the path is large again. Any datagram, of whatever
  size, counts as a success of the size on trial (`mtu.rs:118`).
  `docs/architecture.md:98` speaks of sustained failures and successes.
  `MtuFollowsPath` says what holds.
- A refused datagram is first recorded as oversized, which resets the failures
  and the probe, so they never reach the threshold: `SustainedInstability` and
  `ProbeReverted` do not occur in `Link`.
- Any activity puts off a keepalive (`keepalive.rs:72`), and the client does not
  answer the server's. So on a link that loses nothing one end may not hear the
  other for longer than the timeout, and the server may sweep an idle session.
  `IMPROVEMENTS.md:74` describes the shared scheduler. `LinkHeard` says what
  holds.
- The client never inherits the previous phase (rvpn-client `handshake.rs:36`),
  so it drops packets sealed just before a rekey; `docs/configuration.md:173`
  gives the grace period for both sides. `GraceHonoured` says it; the server
  alone keeps it.
- A peer that waits for tokens collects a quantum at every look
  (`congestion.rs:301`) and can later exceed its round
  (`docs/architecture.md:42`). `FairShare` is about peers without a rate.
- With a full tunnel and a changing server, resolving the name needs DNS that
  needs the tunnel (rvpn-client `main.rs:87`). `Reconnects` leaves this case
  out.
- The resolver backup is written in place (rvpn-net `linux.rs:482`); a torn write
  is restored later. `TORN_WRITES` switches it on.
- Signal handlers are registered only before the data plane (rvpn-client
  `main.rs:270`), so an earlier signal ends the client with its kill switch in
  place; a daemon that is stopped drops its client without teardown
  (`main.rs:59`). `README.md:68` speaks of a graceful shutdown. `HostRestored`
  leaves both out.
- Two clients of the daemon can overlap for a while (`ipc.rs:65`), since the
  slot is emptied before the old client has ended. They share one kill switch,
  which the first removes as it ends; `FailClosed` leaves the overlap out,
  `HostRestored` does not.
- With different interface names, the teardown of a client that failed can take
  away the pinned route of one that overlaps with it and is still running:
  `HostRestored`, `ResolverRestored` and `EndpointPhysical` are about clients with one name,
  or that do not overlap (`OneAtATime`).
- The profile NetworkManager was given for DNS is deactivated and not deleted
  (rvpn-net `linux.rs:745`).
- After a DNS replacement that fails and cannot be undone, a reload of the same
  file does nothing (`dns_reload.rs:113`). A killed server leaves forwarding on
  for good (`firewall.rs:94`). A session that ends takes the counts since the
  last minute along (`usage_history.rs:122`).
- On Android a tunnel started while the previous thread is in its last two steps
  loses its shutdown sender and ends at once (`jni.rs:382`); a monitor can set
  `isConnected` after a disconnect cleared it (`RvpnService.kt:217`).

## Proofs

TLAPS proves the following for every value of the constants that satisfies the
named assumptions, which TLC evaluates in the runs.

| module | theorems | inductive invariant |
|---|---|---|
| `EndpointProofs` | `WindowInvariant`, `RingExact`, `AcceptsOnce` | `WindowInv` = `TypeOK`, `WindowExact`, `HighestExact`, `NoDoubleAccept` |
| | `RingInvariant`, `Clears`, `RingImplements`, `RingKeepsPromise` | `RingInv` = `RingTypeOK`, `LoopTyped`, `CursorExact`, `ClearedSoFar` |
| | `SessionInvariant`, `NeverDeliveredTwice`, `NoncesNeverRepeat`, `WindowsStayGenuine`, `ServerHonoursGrace` | `SessionInv` = `SessionTypeOK`, `PhaseOrder`, `SealedBehind`, `OpenedExact`, `PreviousKept` and the four properties |
| | `AndroidInvariant`, `TunnelsExact` | `AndroidInv` = `AndroidTypeOK`, `TunnelExact`, and that a lost descriptor is one of a thread that has ended |
| `ServerSessionsProofs` | `SessionsInvariant`, `QuotaKept`, `SessionsFollow`, `RekeysContinue`, `KeysNeverReinstalled`, `EvictionsOwn` | `SessionsInv` = `TypeOK`, `RekeyContinuity`, `KeyOrder`, `KeysInstalledOnce` and the parts of `QuotaExact` and `SessionsExact` |
| `TunnelProofs` | `TunnelInvariant`, `TunnelAgrees`, `ClientAdvances` | `TunnelInv` = `SessionsInv`, `OneMeaning`, `AnswersOK`, `WireOK`, `ClientOK` |
| `ClientProofs` | `DaemonInvariant`, `ClientsOwned`, `TunnelGuarded`, `ServerStaysPhysical`, `HostIsRestored`, `ResolverIsRestored` | `DaemonInv` = `OwnersExact` and `HostInv`: `TypeOK`, `DeviceExact`, `Exclusive`, `HalvesTaken`, `GuardHeld`, `PinsHeld`, `FilesHeld` |
| `UsageProofs`, `ServerHostProofs` | `ServerInvariant`, `ServerHostIsRestored`, `DnsStaysInStep`, `UsageIsExact`, `HistoryIsDurable` | `ServerInv` = `TypeOK`, `GuardExact`, `RulesKnown`, `GuardAccounts`, `SocketHeld`, `DnsHeld`, `UsageHeld` |
| `PathProofs` | `RouterInvariant`, `MacIndexesAgree`, `MacsKept`, `SymmetricPoliciesHold` | `RouterInv`: types, copies equal to the configuration, the prefix table, `MacsExact`; `LinksExact` on top |
| | `LinkInvariant`, `OneEndHears`, `MtuChangesPaced` | `LinkInv`: types, `MtuOK`, and silence plus ticks until the client's keepalive within the longest interval |
| `QueueProofs` | `QueueInvariant`, `QueuesAreExact`, `SharesAreFair`, `RatesAreKept` | `QueueInv` = `QueueTypeOK`, `QueuesExact`, `FairShare`; `DeficitKept` and `SentBefore` while no rate was set; `CreditKept` under a rate |

`ClientProofs` has the steps of one client first and those of the daemon after
them; `UsageProofs` has the steps of the history, and `ServerHostProofs` extends
it with the rest of the server.

- *Replay.* That no number is accepted twice does not follow from itself: a bit
  stands for every number with its remainder. `WindowExact` says a bit of the
  window is set exactly if that very number was accepted, and `HighestExact` that
  nothing above `highest` was. It rests on the arithmetic of remainders: two
  numbers less than a window apart do not share a slot. The same invariant maps
  every step to one of `ReplayPromise`. Below it, `CursorExact` relates the
  cursor of the loop to what is left of the range and `ClearedSoFar` says that
  the slots behind it are zero and the others as before, so that the last turn is
  a step of `ReplayWindow` and the others stutter. The two refinements compose.
- *Router.* `SymmetricPoliciesHold` assumes that no configuration has a directed
  link (`SymmetricLinks`): then `LinksExact`, that the linked sets of the peers
  are the edges of the configuration, is inductive. Finding 2 is why the
  assumption is needed.
- *Link.* `LinkHeard` becomes inductive when the ticks until the client's
  keepalive are added to the silence: what raises the one lowers the other.
  `MtuPaced` needs that a probe is under way only once the interval is over
  (`MtuOK`), since its end does not look at the interval again.
- *Sessions.* A nonce is fresh because everything sealed lies behind the counter
  of its phase (`SealedBehind`), and a packet is opened once because a window
  holds what was opened in its phase (`OpenedExact`), also after it has become
  the previous one (`PreviousKept`).
- *Server tables.* Each counter equals the number of pending attempts of its
  source; every removal takes one from both. Keys are installed once because
  attempts are numbered and a pending rekey is one phase ahead of its session.

- *Tunnel.* `Agreement` speaks of a client that has finished, but a client
  finishes on an answer that was sent long before. So the invariant follows the
  answer back: `OneMeaning` says that the number of an attempt names one session
  id and one key phase, wherever it is pending or installed; `AnswersOK` says so
  of what the server would answer, `WireOK` of every datagram in flight, however
  old, and `ClientOK` of what the client holds. An answer to the initiation under
  way is newer than the session in use, which is why the client never goes back.
  A crash of the server empties its tables and takes nothing from this.
- *Client host.* That the host is clean at the end is not inductive: before it,
  somebody must still be there to clean up. Each of `GuardHeld`, `PinsHeld` and
  `FilesHeld` says that what is on the host (the kill switch, the pinned route,
  the resolver's backup) belongs to a client in one of the phases whose later
  steps take it back (`Holding`, `Pinning`, `BackedUp`). `DeviceExact` and
  `Exclusive` keep two clients from holding the same thing: the second cannot
  have the interface before the first has let go of it. `HostIsRestored` and
  `ResolverIsRestored` assume that a failing write leaves the file as it was
  (`~TORN_WRITES`); with torn writes they are false (above). The other four do
  not assume it.
- *Daemon.* `OwnersExact` is `OneOwner` with the converse: a client a disconnect
  awaits is running, was told to stop, and is awaited by no other.
- *Outbound queue.* `FairShare` counts what others were sent since the receiver
  last looked at a waiting peer, which says nothing of what they may still be sent
  before its turn. `SentBefore` does: a peer that is ahead in the rotation was
  sent nothing yet, or is in its turn, and then what it was sent and the deficit it
  has left stay below a quantum and a packet. That needs `DeficitKept`: a peer
  whose turn ends keeps less than its next packet costs. Both are about the order
  of the rotation (`Precedes`), and every service moves it: those passed over go to
  the back, in their order, and the one served stays in front or follows them.
  `WithinRate` needs that the real bucket never holds more than the ideal one, and
  that the ideal bucket of a queue that is forgotten has filled up meanwhile
  (`CreditKept`), which is why a forgotten peer may come back with a full one. The
  packets stored are counted as a finite set of positions (`Stored`), so no sum over
  a sequence is needed.
- *Android.* `TunnelExact` is nearly inductive: `TUNNEL_RUNNING` is swapped before
  a thread starts and cleared by the thread itself, so each step of a tunnel finds
  no other thread between the two. What is missing is that a descriptor that leaks
  belongs to a thread that has ended.
- *Server host.* `GuardExact` relates the list of commands the guard has noted to
  the steps of the plan that are done; a step that fails leaves nothing that is
  not noted. `RulesKnown` carries over a kill, when the guard is lost and the
  rules stay: they are of the plan, so the next process deletes them as it
  installs its own. `GuardAccounts` adds the forwarding switches, which only the
  guard that turned them on can restore.
- *Usage.* `UsageHeld` says that the totals of the days and what the sessions
  have carried since the last record add up to what was carried; at most that, once
  something was lost (`blemished`). A flush replaces the file by totals that have
  at least as much for every day the retention covers. Lemmas about sums over
  finite sets are proved by a smallest set that breaks them.

Assumptions: `WordsAssumption`, `BitsAssumption`, `MaxSeqAssumption`,
`SessionAssumption`, `BoundsAssumption`, `ConfigsAssumption`, `NamesAssumption`,
`TunnelAssumption`, `ConfigAssumption`, `RulesAssumption`, `DnsAssumption`,
`UsageAssumption`, `HostAssumption`, `RouterConfigs`, `RouterBounds`,
`RouterStarts`, `MtuAssumption`, `LinkAssumption`, `QueueAssumption`,
`RatesAssumption`, `TunnelsAssumption`. They say that sizes are
positive, bounds natural, configurations well-formed, that the names of sessions,
clients, addresses and the fixed values used beside them differ, and that the
longest keepalive interval is below the timeout, and that a queue is idle long
enough before it is forgotten for its bucket to have filled.

Every safety invariant and action property of the passing runs is stated by one
of these theorems (three of them under the further assumptions `SymmetricLinks`
and `~TORN_WRITES` above). Only model-checked are the liveness properties (`PendingEnds`,
`Recovers`, `Drains`, `DeadLinkFound`, `MtuFollowsPath`, `Reconnects`,
`DisconnectAnswered`, `ShutdownCompletes`, `DisconnectEnds`): liveness under
fairness is beyond the prover.

## Not modelled

- Cryptography and the bytes of packets. Encryption is ideal; the handshake is
  modelled by what its messages prove, not by its transcript.
- Checksums and hop limits of forwarded packets; the challenge limiter and the
  token bucket of received packets, which drop packets by the clock (in `Tunnel`
  a dropped packet is a lost one); socket buffers and counters.
- Interface addresses and split routes, which vanish with the interface; the
  creation of an interface by NetworkManager, which the client does not call.
- Framing, idle timeouts, connection limits and the recovery of a stale file of
  the control socket; what the status page and the portal serve.
- The DNS forwarder: its only state is the cache of the resolver library it
  configures (rvpn-dns `lib.rs:130`).
- The Windows network and kill switch, which share the phases of `ClientHost` and
  need a model of their own calls; the tray, configuration parsing, the
  screens and preferences of the Android app, the configuration builder,
  scripts. Failing allocations in JNI.
