--------------------------------- MODULE Link ---------------------------------
(***************************************************************************)
(* One session between a client and the server once it is established:     *)
(* what keeps it alive, what ends it, and the size of the datagrams it may *)
(* use.  Each end has a UdpTransport (transport.rs) with its AdaptiveMtu   *)
(* and its KeepaliveScheduler (keepalive.rs), and the time since its last  *)
(* authentic packet, which the client's liveness check and the server's    *)
(* sweep compare with liveness.timeout_secs.                               *)
(*                                                                         *)
(* The clock ticks; a keepalive that is due goes out before the next tick, *)
(* since nothing in either event loop takes as long as a tick.  A datagram *)
(* arrives at once or is lost: a round trip is shorter than a tick too.    *)
(* The environment changes the path (its MTU, or no path at all), sends    *)
(* datagrams that do not belong to the session, and decides what the hosts *)
(* send.  How either process ends is in ClientHost and ServerHost.         *)
(***************************************************************************)
EXTENDS AdaptiveMtu

CONSTANTS
  SHORTEST_INTERVAL, LONGEST_INTERVAL,
               \* keepalive intervals the jitter can draw, in ticks
  TIMEOUT,     \* liveness.timeout_secs in ticks
  PathMtus,    \* path MTUs
  BulkEnds     \* ends whose hosts may send packets of the target MTU.  The
               \* transport of an end that sends nothing but small datagrams
               \* stays at its target, and its MTU state is not kept

Ends == {"client", "server"}
Other(e) == IF e = "client" THEN "server" ELSE "client"

NoPath == 0
SMALL == 1     \* a keepalive, a handshake message, an interactive packet

Intervals == SHORTEST_INTERVAL..LONGEST_INTERVAL

(* The keepalive interval with its jitter is at most 30 s, and the configuration
   accepts no timeout below 60 s. *)
ASSUME LinkAssumption ==
  /\ SHORTEST_INTERVAL \in Nat \ {0} /\ LONGEST_INTERVAL \in Nat
  /\ SHORTEST_INTERVAL <= LONGEST_INTERVAL
  /\ TIMEOUT \in Nat /\ LONGEST_INTERVAL < TIMEOUT
  /\ PathMtus \subseteq Nat \ {0} /\ PathMtus # {}
  /\ MINIMUM_MTU > SMALL
  /\ BulkEnds \subseteq Ends

VARIABLES
  mtu,     \* per end of BulkEnds: AdaptiveMtu
  due,     \* per end: ticks until next_due_ms
  quiet,   \* per end: ticks since last_rx
  holds,   \* ends that hold the session
  path,    \* MTU of the path, or NoPath
  bulk,    \* the hosts of BulkEnds are sending full-size packets
  trouble  \* history: the worst that happened to the session since its last
           \* handshake, of "none", "talked" (a packet of the client's host went
           \* out) and "harmed" (a datagram was lost, a stray one reached the
           \* client, or the path changed)

linkVars == <<mtu, due, quiet, holds, path, bulk, trouble>>

LinkTypeOK ==
  /\ mtu \in [BulkEnds -> MtuState]
  /\ due \in [Ends -> 0..LONGEST_INTERVAL]
  /\ quiet \in [Ends -> 0..TIMEOUT + 1]
  /\ holds \subseteq Ends
  /\ path \in PathMtus \cup {NoPath}
  /\ bulk \in BOOLEAN
  /\ trouble \in {"none", "talked", "harmed"}

LinkInit ==
  /\ mtu = [e \in BulkEnds |-> NewMtu]
  /\ due \in [Ends -> Intervals]
  /\ quiet = [e \in Ends |-> 0]
  /\ holds = Ends
  /\ path \in PathMtus
  /\ bulk = FALSE
  /\ trouble = "none"

-----------------------------------------------------------------------------
(* send_to of e's transport, with send_wire's report of a refused datagram. *)
effective_mtu(e) == IF e \in BulkEnds THEN mtu[e].effective ELSE TARGET_MTU
Fits(e, size) == size <= effective_mtu(e)
GoesOut(e, size) == Fits(e, size) /\ path # NoPath /\ size <= path

Attempt(e, size) ==
  LET m == mtu[e] IN
  CASE ~Fits(e, size)                   -> record_oversized(m, size)
    [] Fits(e, size) /\ path = NoPath   -> m
    [] GoesOut(e, size)                 -> record_success(m)
    [] OTHER -> record_path_failure(record_oversized(m, size))

(* record_activity of the schedulers of "ends": each draws a new interval. *)
Activity(ends) ==
  \E draw \in [ends -> Intervals] :
    due' = [e \in Ends |-> IF e \in ends THEN draw[e] ELSE due[e]]

(* The ends of "ends" that hold the session open an authentic packet. *)
Heard(ends) ==
  quiet' = [e \in Ends |-> IF e \in ends \cap holds THEN 0 ELSE quiet[e]]

Sends(ends, size) ==
  mtu' = [e \in BulkEnds |-> IF e \in ends THEN Attempt(e, size) ELSE mtu[e]]

Harm == trouble' = "harmed"
Talked(e) ==
  trouble' = IF e = "client" /\ trouble = "none" THEN "talked" ELSE trouble

(* Mutant of DropData: a packet that is not sent counts as activity. *)
DropDataAsActivity(e, size) ==
  ~GoesOut(e, size) /\ Sends({e}, size) /\ Activity({e}) /\ UNCHANGED <<quiet, trouble>>

(* A packet of e's host that is not sent: dropped because it exceeds the
   effective MTU, refused because it exceeds the path's, or without a path. *)
DropData(e, size) ==
  ~GoesOut(e, size) /\ Sends({e}, size) /\ UNCHANGED <<due, quiet, trouble>>

(* A packet of e's host: not sent, received, or lost on the way. *)
Data(e, size) ==
  /\ e \in holds
  /\ \/ DropData(e, size)
     \/ /\ GoesOut(e, size) /\ Sends({e}, size)
        /\ Activity(Ends)
        /\ Heard({Other(e)})
        /\ Talked(e)
     \/ /\ GoesOut(e, size) /\ Sends({e}, size)
        /\ Activity({e})
        /\ Harm
        /\ UNCHANGED quiet
  /\ UNCHANGED <<holds, path, bulk>>

SmallData(e) == Data(e, SMALL)
FullData(e) == bulk /\ e \in BulkEnds /\ Data(e, TARGET_MTU)

(* The client's keepalive is due.  The server answers one it can open with a
   keepalive of its own; without a path the send fails, the scheduler is left as
   it is, and the client tries again at once. *)
ClientKeepalive ==
  /\ "client" \in holds /\ due["client"] = 0
  /\ GoesOut("client", SMALL)
  /\ \/ /\ "server" \in holds                       \* received and answered
        /\ Sends(Ends, SMALL)
        /\ Activity(Ends)
        /\ \/ Heard(Ends) /\ UNCHANGED trouble
           \/ Heard({"server"}) /\ Harm
     \/ /\ "server" \notin holds                    \* of no session
        /\ Sends({"client"}, SMALL)
        /\ Activity(Ends)
        /\ UNCHANGED <<quiet, trouble>>
     \/ /\ Sends({"client"}, SMALL)                   \* lost
        /\ Activity({"client"})
        /\ Harm
        /\ UNCHANGED quiet
  /\ UNCHANGED <<holds, path, bulk>>

(* The server's keepalive is due: one to every session, and a new interval
   whether they could be sent or not.  The client does not answer it. *)
ServerKeepalive ==
  /\ due["server"] = 0
  /\ \/ /\ ~("server" \in holds /\ GoesOut("server", SMALL))
        /\ Activity({"server"})
        /\ UNCHANGED <<mtu, quiet, trouble>>
     \/ /\ "server" \in holds /\ GoesOut("server", SMALL)
        /\ Sends({"server"}, SMALL)
        /\ \/ Activity(Ends) /\ Heard({"client"}) /\ UNCHANGED trouble
           \/ Activity({"server"}) /\ Harm /\ UNCHANGED quiet
  /\ UNCHANGED <<holds, path, bulk>>

(* Mutant of Stray: any datagram counts as a sign of life. *)
StrayHeard(e) ==
  /\ Activity({e})
  /\ Heard({e})
  /\ IF e = "client" THEN Harm ELSE UNCHANGED trouble
  /\ UNCHANGED <<mtu, holds, path, bulk>>

(* A datagram that is not of this session: at the server, another peer's. *)
Stray(e) ==
  /\ Activity({e})
  /\ IF e = "client" THEN Harm ELSE UNCHANGED trouble
  /\ UNCHANGED <<mtu, quiet, holds, path, bulk>>

-----------------------------------------------------------------------------
(* establish, whose messages and retries are in Tunnel.  Three datagrams each
   way: initiation, cookie, initiation, response, finish and acknowledgement. *)
Handshake ==
  /\ path # NoPath
  /\ mtu' = [e \in BulkEnds |-> record_success(record_success(record_success(mtu[e])))]
  /\ Activity(Ends)
  /\ quiet' = [e \in Ends |-> 0]
  /\ trouble' = "none"
  /\ holds' = Ends
  /\ UNCHANGED <<path, bulk>>

(* The client rekeys, or after LinkLost connects again: its transport stays. *)
Rekey == holds = Ends /\ Handshake
Reconnect == "client" \notin holds /\ Handshake

(* A rekey or a reconnect that fails: its initiation cannot be sent, or it is
   never answered.  A failed rekey is DataPlaneExit::LinkLost. *)
HandshakeFails ==
  /\ Sends({"client"}, SMALL)
  /\ IF GoesOut("client", SMALL) THEN Activity({"client"}) ELSE UNCHANGED due
  /\ holds' = holds \ {"client"}
  /\ Harm
  /\ UNCHANGED <<quiet, path, bulk>>

(* The client's liveness check: DataPlaneExit::LinkLost. *)
ClientGivesUp ==
  /\ "client" \in holds /\ quiet["client"] > TIMEOUT
  /\ holds' = holds \ {"client"}
  /\ UNCHANGED <<mtu, due, quiet, path, bulk, trouble>>

(* The server's sweep. *)
ServerSweeps ==
  /\ "server" \in holds /\ quiet["server"] > TIMEOUT
  /\ holds' = holds \ {"server"}
  /\ UNCHANGED <<mtu, due, quiet, path, bulk, trouble>>

KeepaliveDue(e) ==
  due[e] = 0 /\ (e = "server" \/ ("client" \in holds /\ GoesOut("client", SMALL)))

Tick ==
  /\ \A e \in Ends : ~KeepaliveDue(e)
  /\ mtu' = [e \in BulkEnds |-> Older(mtu[e])]
  /\ due' = [e \in Ends |-> AtLeast(due[e] - 1, 0)]
  /\ quiet' = [e \in Ends |-> AtMost(quiet[e] + 1, TIMEOUT + 1)]
  /\ UNCHANGED <<holds, path, bulk, trouble>>

PathChanges ==
  /\ \E p \in PathMtus \cup {NoPath} : p # path /\ path' = p
  /\ Harm
  /\ UNCHANGED <<mtu, due, quiet, holds, bulk>>

HostsChange ==
  /\ BulkEnds # {}
  /\ bulk' = ~bulk
  /\ UNCHANGED <<mtu, due, quiet, holds, path, trouble>>

LinkNext ==
  \/ \E e \in Ends : SmallData(e) \/ FullData(e) \/ Stray(e)
  \/ ClientKeepalive \/ ServerKeepalive
  \/ Rekey \/ Reconnect \/ HandshakeFails
  \/ ClientGivesUp \/ ServerSweeps
  \/ Tick
  \/ PathChanges \/ HostsChange

(* Time passes, the event loops serve their timers, a host that sends full-size
   packets goes on sending them, and the client's reconnect loop gets through
   when there is a path. *)
Fairness ==
  /\ WF_linkVars(Tick)
  /\ WF_linkVars(ClientKeepalive) /\ WF_linkVars(ServerKeepalive)
  /\ WF_linkVars(ClientGivesUp) /\ WF_linkVars(ServerSweeps)
  /\ WF_linkVars(Reconnect)
  /\ \A e \in BulkEnds : WF_linkVars(FullData(e))

LinkSpec == LinkInit /\ [][LinkNext]_linkVars
FairSpec == LinkSpec /\ Fairness

-----------------------------------------------------------------------------
(* While both ends hold the session, no datagram of it was lost and only its own
   reach the client, one of the two has heard the other within the longest
   keepalive interval: whatever puts off the client's next keepalive was a
   packet from one of them to the other.  And a client whose own traffic did not
   put it off has heard the server.  (Each end by itself may go without hearing
   the other for as long as that one only listens.) *)
LinkHeard ==
  (holds = Ends /\ trouble # "harmed") =>
    /\ \E e \in Ends : quiet[e] <= LONGEST_INTERVAL
    /\ trouble = "none" => quiet["client"] <= LONGEST_INTERVAL

(* The effective MTU changes at most once in MIN_CHANGE_INTERVAL. *)
MtuPaced ==
  [][\A e \in BulkEnds : mtu'[e].effective # mtu[e].effective =>
                       mtu[e].since >= MIN_CHANGE_INTERVAL]_linkVars

(* When the path is gone for good, the client notices, whatever reaches its
   socket from elsewhere. *)
DeadLinkFound == <>[](path = NoPath) => <>[]("client" \notin holds)

(* The effective MTU follows the path.  Full-size packets on a path that does not
   take them, often enough that the successes in between begin no probe, bring it
   down to what the path takes or to the minimum.  Once the path takes the target
   and the hosts send only what fits, probing brings it back to the target. *)
MtuFollowsPath ==
  \A e \in BulkEnds :
    /\ \A p \in PathMtus :
         <>[](path = p /\ p < TARGET_MTU /\ bulk /\ e \in holds /\ mtu[e].probe = NoProbe)
           => <>[](mtu[e].effective <= p \/ mtu[e].effective = MINIMUM_MTU)
    /\ <>[](path >= TARGET_MTU /\ ~bulk) => <>[](mtu[e].effective = TARGET_MTU)

===============================================================================
