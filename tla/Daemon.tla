------------------------------- MODULE Daemon -------------------------------
(***************************************************************************)
(* The client's process.  In the foreground it runs one client.  As a      *)
(* daemon it has control connections that ask, concurrently, for a client  *)
(* to be started and stopped, and the client tasks it spawns, which share  *)
(* one host.  The slot is Daemon.session; its mutex is held for the whole  *)
(* of connect, and in disconnect only while the session is taken out.      *)
(***************************************************************************)
EXTENDS ClientHost

CONSTANTS Conns         \* control connections; each has one request at a time

VARIABLES
    slot,       \* the client of Daemon.session
    waiting     \* the client whose end a connection's disconnect awaits

daemonVars == <<vars, slot, waiting>>

FirstClient == CHOOSE c \in Clients : TRUE

DaemonInit ==
    /\ Init
    /\ slot = None
    /\ waiting = [k \in Conns |-> None]

\* Daemon::connect.  A session that has ended on its own still fills the
\* slot, one that is being stopped no longer does.  A refused request changes
\* nothing.
Connect(k) ==
    /\ waiting[k] = None
    /\ slot = None
    /\ \E c \in Clients : Start(c) /\ slot' = c
    /\ mishaps' = mishaps \cup {"overlap" : d \in {d \in Clients : pc[d] # "idle"}}
    /\ UNCHANGED waiting

\* Mutant: the session is left in the slot.
DisconnectLeaves(k) ==
    /\ process = "up" /\ waiting[k] = None
    /\ slot # None
    /\ stop' = [stop EXCEPT ![slot] = TRUE]
    /\ waiting' = [waiting EXCEPT ![k] = slot]
    /\ UNCHANGED <<process, armed, pc, server, found, socket6, connected, network, files, mishaps, slot>>

\* Daemon::disconnect up to the await of the task.
Disconnect(k) ==
    /\ process = "up" /\ waiting[k] = None
    /\ slot # None
    /\ slot' = None
    /\ stop' = [stop EXCEPT ![slot] = TRUE]
    /\ waiting' = [waiting EXCEPT ![k] = slot]
    /\ UNCHANGED <<process, armed, pc, server, found, socket6, connected, network, files, mishaps>>

\* The await returns.
Disconnected(k) ==
    /\ waiting[k] # None /\ pc[waiting[k]] = "ended"
    /\ Goto(waiting[k], "idle")
    /\ waiting' = [waiting EXCEPT ![k] = None]
    /\ UNCHANGED <<process, armed, server, found, socket6, stop, connected, network, files, mishaps, slot>>

\* A signal ends main: daemon_disconnect_on_exit does nothing and the runtime
\* is dropped with its tasks.  SIGKILL does the same.
DaemonGone ==
    /\ Kill
    /\ slot' = None
    /\ waiting' = [k \in Conns |-> None]

\* A client in the foreground: main calls run_client once.
Foreground ==
    \/ \E c \in Clients : c = FirstClient /\ Start(c) /\ UNCHANGED mishaps
    \/ Exit \/ Signal \/ Kill

DaemonNext ==
    /\ \/ /\ setup.mode = "daemon"
          /\ \/ \E k \in Conns : Connect(k) \/ Disconnect(k) \/ Disconnected(k)
             \/ DaemonGone
       \/ /\ setup.mode = "foreground"
          /\ Foreground
          /\ UNCHANGED <<slot, waiting>>
       \/ /\ \/ \E c \in Clients :
                  ClientStep(c) \/ ReconnectResolve(c) \/ SessionLost(c) \/ DataPlaneError(c)
             \/ Restart
          /\ UNCHANGED <<slot, waiting>>
    /\ UNCHANGED setup

\* Tasks are scheduled and their calls return; select! polls the shutdown
\* future however busy the others are.  A name that can be resolved is, some
\* time, and a server that can be reached answers, some time.  The answer to a
\* request is awaited.
DaemonSpec ==
    /\ DaemonInit /\ [][DaemonNext]_daemonVars
    /\ \A c \in Clients :
         /\ WF_daemonVars(ClientStep(c) /\ UNCHANGED <<setup, slot, waiting>>)
         /\ WF_daemonVars(Shutdown(c) /\ UNCHANGED <<setup, slot, waiting>>)
         /\ SF_daemonVars(Resolvable /\ ReconnectResolve(c) /\ UNCHANGED <<setup, slot, waiting>>)
         /\ SF_daemonVars(Reconnected(c) /\ UNCHANGED <<setup, slot, waiting>>)
    /\ \A k \in Conns : WF_daemonVars(Disconnected(k) /\ UNCHANGED setup)

-----------------------------------------------------------------------------
(* Properties.                                                             *)

\* Every client task has exactly one owner: the slot, or the one disconnect
\* that has told it to stop and awaits it.  None is ever left running
\* without anybody able to stop it.
OneOwner ==
    setup.mode = "daemon" => \A c \in Clients :
        LET awaiting == {k \in Conns : waiting[k] = c}
        IN  /\ slot = c => pc[c] # "idle" /\ awaiting = {}
            /\ pc[c] # "idle" /\ slot # c => stop[c] /\ \E k \in Conns : awaiting = {k}

\* A disconnect is answered, wherever in its start or its reconnects the
\* client was.
DisconnectAnswered == \A k \in Conns : waiting[k] # None ~> waiting[k] = None

-----------------------------------------------------------------------------
(* The inductive invariant.                                                *)

\* In the foreground there is one client; the daemon's have an owner each.
OwnersExact ==
    /\ slot \in Clients \cup {None} /\ waiting \in [Conns -> Clients \cup {None}]
    /\ setup.mode = "foreground" => \A c \in Clients : pc[c] # "idle" => c = FirstClient
    /\ setup.mode = "daemon" =>
         /\ \A c \in Clients : slot = c => pc[c] # "idle" /\ \A k \in Conns : waiting[k] # c
         /\ \A k \in Conns, c \in Clients : waiting[k] = c =>
              pc[c] # "idle" /\ stop[c] /\ \A l \in Conns : waiting[l] = c => l = k
         /\ \A c \in Clients : pc[c] # "idle" /\ slot # c => \E k \in Conns : waiting[k] = c

DaemonInv == HostInv /\ OwnersExact
=============================================================================
