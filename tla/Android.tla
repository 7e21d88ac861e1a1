------------------------------- MODULE Android -------------------------------
(***************************************************************************)
(* The Android client: RvpnService, which starts and stops tunnels on the  *)
(* main thread and watches them from a coroutine, and the native library,  *)
(* where every tunnel has a thread of its own and all of them share        *)
(* statics, of which four are modelled.  The service, its monitors, the    *)
(* tunnel threads and the binder thread that revokes the VPN interleave    *)
(* between the accesses to the statics.                                    *)
(*                                                                         *)
(* A tunnel is named by the call of startVpn that made it.  Its descriptor *)
(* and its shutdown channel have the same name.                            *)
(***************************************************************************)
EXTENDS Naturals

CONSTANTS
    TUNNELS     \* bound: calls of startVpn that get a descriptor

ASSUME TunnelsAssumption == TUNNELS \in Nat

VARIABLES
    \* the statics of jni.rs
    running,    \* TUNNEL_RUNNING
    connected,  \* TUNNEL_CONNECTED
    shutdownTx, \* SHUTDOWN_TX: the tunnel whose sender it holds
    statsOf,    \* TUNNEL_STATS: the tunnel whose counters it holds
    \* the tunnels
    thread,     \* where the thread of a tunnel is
    channel,    \* its watch channel: open, stop (true was sent) or closed
    open,       \* tunnels whose TUN descriptor is open
    leaked,     \* history: tunnels whose descriptor nobody owns any more
    \* the service
    call,       \* how far startVpn and each of the calls of stopVpn are
    isConnected,\* RvpnService.isConnected
    monitor,    \* where the monitor of a tunnel is
    cancelled,  \* tunnels whose monitor is cancelled
    dying       \* stopSelf was called, onDestroy is still to come

statics == <<running, connected, shutdownTx, statsOf>>
tunnels == <<thread, channel, open, leaked>>
service == <<call, isConnected, monitor, cancelled, dying>>
androidVars == <<statics, tunnels, service>>

None == 0
Tunnels == 1 .. TUNNELS

\* stopVpn is called for an intent and by onDestroy, both on the main thread
\* like startVpn, and by onRevoke, on a binder thread.
Calls == {"intent", "destroy", "revoke"}
MainIdle == call["intent"] = "no" /\ call["destroy"] = "no"

Establishing == {"handshaking", "finishing"}
Rekeying == {"rekeying", "refinishing"}
\* TUNNEL_RUNNING belongs to a tunnel from the swap in startTunnel until its
\* thread gives it back.
Starting == {"swapped", "channelled", "counted"}
InTunnel == {"opening", "running"} \cup Establishing \cup Rekeying
Active == Starting \cup {"spawned", "returned", "failed", "quiet"} \cup InTunnel
Threads == {"unused", "detached", "idle", "forgotten", "ended"} \cup Active

AndroidTypeOK ==
    /\ running \in BOOLEAN /\ connected \in BOOLEAN
    /\ isConnected \in BOOLEAN /\ dying \in BOOLEAN
    /\ shutdownTx \in Tunnels \cup {None} /\ statsOf \in Tunnels \cup {None}
    /\ thread \in [Tunnels -> Threads]
    /\ channel \in [Tunnels -> {"open", "stop", "closed"}]
    /\ open \subseteq Tunnels /\ leaked \subseteq Tunnels
    /\ call \in [Calls -> {"no", "starting", "launching", "send", "clear"}]
    /\ monitor \in [Tunnels -> {"off", "ask", "tell", "look", "clear"}]
    /\ cancelled \subseteq Tunnels

AndroidInit ==
    /\ running = FALSE /\ connected = FALSE
    /\ shutdownTx = None /\ statsOf = None
    /\ thread = [t \in Tunnels |-> "unused"]
    /\ channel = [t \in Tunnels |-> "open"]
    /\ open = {} /\ leaked = {}
    /\ call = [c \in Calls |-> "no"]
    /\ isConnected = FALSE
    /\ monitor = [t \in Tunnels |-> "off"]
    /\ cancelled = {} /\ dying = FALSE

At(c, point) == call' = [call EXCEPT ![c] = point]
Becomes(t, state) == thread' = [thread EXCEPT ![t] = state]

\* A sender that is dropped without having sent closes its channel.
Dropped(t) ==
    [u \in Tunnels |-> IF u = t /\ channel[u] = "open" THEN "closed" ELSE channel[u]]

-----------------------------------------------------------------------------
(* startVpn, on the main thread *)

\* Up to detachFd.  A start is refused while a tunnel is known; one that gets
\* no descriptor ends the service.
Connect ==
    /\ MainIdle
    /\ ~isConnected /\ ~running
    /\ \E t \in Tunnels :
         /\ thread[t] = "unused" /\ \A u \in 1 .. t - 1 : thread[u] # "unused"
         /\ \/ /\ Becomes(t, "detached")
               /\ open' = open \cup {t}
               /\ At("intent", "starting")
               /\ UNCHANGED dying
            \/ /\ dying' = TRUE
               /\ UNCHANGED <<thread, open, call>>
    /\ UNCHANGED <<statics, channel, leaked, isConnected, monitor, cancelled>>

\* An error from startTunnel ends the service.
Refused == At("intent", "no") /\ isConnected' = FALSE /\ dying' = TRUE

\* startTunnel takes TUNNEL_RUNNING, and clears what the last tunnel left.  If
\* it is taken the descriptor is closed.
Swap(t) ==
    /\ thread[t] = "detached"
    /\ running' = TRUE
    /\ IF running
       THEN /\ Becomes(t, "ended")
            /\ open' = open \ {t}
            /\ Refused
            /\ UNCHANGED connected
       ELSE /\ Becomes(t, "swapped")
            /\ connected' = FALSE
            /\ UNCHANGED <<open, call, isConnected, dying>>
    /\ UNCHANGED <<shutdownTx, statsOf, channel, leaked, monitor, cancelled>>

\* The next two statics.  The sender of an earlier tunnel is dropped.
StoreSender(t) ==
    /\ thread[t] = "swapped"
    /\ Becomes(t, "channelled")
    /\ shutdownTx' = t
    /\ channel' = IF shutdownTx = None THEN channel ELSE Dropped(shutdownTx)
    /\ UNCHANGED <<running, connected, statsOf, open, leaked, service>>

StoreStats(t) ==
    /\ thread[t] = "channelled"
    /\ Becomes(t, "counted")
    /\ statsOf' = t
    /\ UNCHANGED <<running, connected, shutdownTx, channel, open, leaked, service>>

\* fail!: a parameter is malformed.  All but the obfuscation key are read
\* before the statics are set; that one leaves them set.
Fail(t) ==
    /\ thread[t] \in {"swapped", "counted"}
    /\ connected' = FALSE
    /\ running' = FALSE
    /\ open' = open \ {t}
    /\ Becomes(t, "ended")
    /\ Refused
    /\ UNCHANGED <<shutdownTx, statsOf, channel, leaked, monitor, cancelled>>

\* The thread is spawned; then the service replaces its monitor.
Spawn(t) ==
    /\ thread[t] = "counted"
    /\ Becomes(t, "spawned")
    /\ At("intent", "launching")
    /\ UNCHANGED <<statics, channel, open, leaked, isConnected, monitor, cancelled, dying>>

Launch(t) ==
    /\ call["intent"] = "launching"
    /\ thread[t] # "unused" /\ \A u \in t + 1 .. TUNNELS : thread[u] = "unused"
    /\ At("intent", "no")
    /\ isConnected' = FALSE
    /\ cancelled' = Tunnels \ {t}
    /\ monitor' = [monitor EXCEPT ![t] = "ask"]
    /\ UNCHANGED <<statics, tunnels, dying>>

-----------------------------------------------------------------------------
(* stopVpn *)

\* Mutant: a tunnel that is not connected is not stopped.
StopVpnConnected(c) ==
    /\ cancelled' = Tunnels
    /\ At(c, IF connected THEN "send" ELSE "clear")
    /\ UNCHANGED <<statics, tunnels, isConnected, monitor>>

\* stopVpn up to its question whether a tunnel is running.
StopVpn(c) ==
    /\ cancelled' = Tunnels
    /\ At(c, IF running THEN "send" ELSE "clear")
    /\ UNCHANGED <<statics, tunnels, isConnected, monitor>>

\* ACTION_DISCONNECT, onDestroy and onRevoke.
Disconnect == MainIdle /\ StopVpn("intent") /\ UNCHANGED dying
Destroy == MainIdle /\ dying /\ StopVpn("destroy") /\ dying' = FALSE
Revoke == call["revoke"] = "no" /\ StopVpn("revoke") /\ UNCHANGED dying

\* stopTunnel.
StopTunnel(c) ==
    /\ call[c] = "send"
    /\ At(c, "clear")
    /\ shutdownTx' = None
    /\ channel' = IF shutdownTx = None THEN channel
                  ELSE [channel EXCEPT ![shutdownTx] = "stop"]
    /\ UNCHANGED <<running, connected, statsOf, thread, open, leaked,
                   isConnected, monitor, cancelled, dying>>

\* The rest of stopVpn; a service that is being destroyed is not stopped again.
Stopped(c) ==
    /\ call[c] = "clear"
    /\ At(c, "no")
    /\ isConnected' = FALSE
    /\ dying' = (c # "destroy")
    /\ UNCHANGED <<statics, tunnels, monitor, cancelled>>

-----------------------------------------------------------------------------
(* The thread of a tunnel *)

\* Mutant: the runtime could not be built, and the flag stays.
RuntimeFailsSilently(t) ==
    /\ thread[t] = "spawned"
    /\ Becomes(t, "ended")
    /\ statsOf' = None
    /\ leaked' = leaked \cup {t}
    /\ UNCHANGED <<running, connected, shutdownTx, channel, open, service>>

\* The runtime cannot be built: the descriptor is a number nobody closes, and
\* the sender stays.
RuntimeFails(t) ==
    /\ thread[t] = "spawned"
    /\ Becomes(t, "ended")
    /\ running' = FALSE
    /\ statsOf' = None
    /\ leaked' = leaked \cup {t}
    /\ UNCHANGED <<connected, shutdownTx, channel, open, service>>

Runs(t) ==
    /\ thread[t] = "spawned"
    /\ Becomes(t, "opening")
    /\ UNCHANGED <<statics, channel, open, leaked, service>>

\* run_tunnel returns, which closes the descriptor.
Return(t, state) ==
    /\ Becomes(t, state)
    /\ open' = open \ {t}
    /\ UNCHANGED <<statics, channel, leaked, service>>

Proceed(t, from, to) ==
    /\ thread[t] = from
    /\ Becomes(t, to)
    /\ UNCHANGED <<statics, channel, open, leaked, service>>

\* The server is resolved, the socket opened and protected.
Opened(t) == Proceed(t, "opening", "handshaking")

\* establish, up to an authenticated response.
Responded(t) ==
    \/ Proceed(t, "handshaking", "finishing")
    \/ Proceed(t, "rekeying", "refinishing")

\* The Finish messages have been sent; nothing interrupts that.  The first
\* time, on_connected is called.
Finished(t) ==
    /\ thread[t] = "finishing"
    /\ Becomes(t, "running")
    /\ connected' = TRUE
    /\ UNCHANGED <<running, shutdownTx, statsOf, channel, open, leaked, service>>

Refinished(t) == Proceed(t, "refinishing", "running")

\* maybe_rekey, or the server asks for it.  A stop that was sent is seen
\* before the first attempt.
Rekey(t) ==
    IF channel[t] = "stop"
    THEN thread[t] = "running" /\ Return(t, "failed")
    ELSE Proceed(t, "running", "rekeying")

\* The shutdown is seen: the loop returns Ok, a handshake an error.
SeesShutdown(t) ==
    /\ channel[t] # "open"
    /\ \/ thread[t] = "running" /\ Return(t, "returned")
       \/ thread[t] \in {"handshaking", "rekeying"} /\ Return(t, "failed")

\* Everything else that ends run_tunnel: a call that fails, the retries are
\* used up, or the server closes the session.
TimesOut(t) == thread[t] \in {"handshaking", "rekeying"} /\ Return(t, "failed")

Breaks(t) ==
    \/ thread[t] \in InTunnel /\ Return(t, "failed")
    \/ thread[t] = "running" /\ Return(t, "returned")

\* set_tunnel_error.
ReportsError(t) ==
    /\ thread[t] = "failed"
    /\ Becomes(t, "returned")
    /\ connected' = FALSE
    /\ UNCHANGED <<running, shutdownTx, statsOf, channel, open, leaked, service>>

\* Mutant: only an error clears TUNNEL_CONNECTED.
ClearNothing(t) ==
    /\ thread[t] = "returned"
    /\ Becomes(t, "quiet")
    /\ UNCHANGED <<running, connected, shutdownTx, statsOf, channel, open, leaked, service>>

\* The end of the thread, one static after the other.
ClearConnected(t) ==
    /\ thread[t] = "returned"
    /\ Becomes(t, "quiet")
    /\ connected' = FALSE
    /\ UNCHANGED <<running, shutdownTx, statsOf, channel, open, leaked, service>>

ClearRunning(t) ==
    /\ thread[t] = "quiet"
    /\ Becomes(t, "idle")
    /\ running' = FALSE
    /\ UNCHANGED <<connected, shutdownTx, statsOf, channel, open, leaked, service>>

\* The sender that is dropped may be the next tunnel's.
DropSender(t) ==
    /\ thread[t] = "idle"
    /\ Becomes(t, "forgotten")
    /\ shutdownTx' = None
    /\ channel' = IF shutdownTx = None THEN channel ELSE Dropped(shutdownTx)
    /\ UNCHANGED <<running, connected, statsOf, open, leaked, service>>

DropStats(t) ==
    /\ thread[t] = "forgotten"
    /\ Becomes(t, "ended")
    /\ statsOf' = None
    /\ UNCHANGED <<running, connected, shutdownTx, channel, open, leaked, service>>

-----------------------------------------------------------------------------
(* The monitor of a tunnel.  It is cancelled only where it suspends. *)

Watches(t, from, to) ==
    /\ monitor[t] = from
    /\ monitor' = [monitor EXCEPT ![t] = to]
    /\ UNCHANGED <<statics, tunnels, call, cancelled>>

AsksConnected(t) ==
    /\ Watches(t, "ask", IF connected THEN "tell" ELSE "look")
    /\ UNCHANGED <<isConnected, dying>>

TellsConnected(t) ==
    /\ Watches(t, "tell", "look")
    /\ isConnected' = TRUE
    /\ UNCHANGED dying

\* isTunnelRunning, and the delay.
Looks(t) ==
    /\ Watches(t, "look", IF ~running THEN "clear" ELSE IF t \in cancelled THEN "off" ELSE "ask")
    /\ UNCHANGED <<isConnected, dying>>

TellsStopped(t) ==
    /\ Watches(t, "clear", "off")
    /\ isConnected' = FALSE
    /\ dying' = TRUE

-----------------------------------------------------------------------------
Start(t) == Swap(t) \/ StoreSender(t) \/ StoreStats(t) \/ Spawn(t) \/ Launch(t)

\* What a thread does by itself.
Thread(t) ==
    \/ Runs(t) \/ Opened(t) \/ TimesOut(t) \/ Finished(t) \/ Refinished(t)
    \/ ReportsError(t)
    \/ ClearConnected(t) \/ ClearRunning(t) \/ DropSender(t) \/ DropStats(t)

Monitor(t) == AsksConnected(t) \/ TellsConnected(t) \/ Looks(t) \/ TellsStopped(t)

AndroidNext ==
    \/ Connect \/ Disconnect \/ Destroy \/ Revoke
    \/ \E c \in Calls : StopTunnel(c) \/ Stopped(c)
    \/ \E t \in Tunnels :
         \/ Start(t) \/ Fail(t)
         \/ Thread(t) \/ RuntimeFails(t) \/ Responded(t) \/ Rekey(t)
         \/ SeesShutdown(t) \/ Breaks(t)
         \/ Monitor(t)

\* All the threads go on.  A handshake ends, if only by using up its retries.
\* A select! polls its branches in random order, so a shutdown that is ready
\* again and again is taken.
Fairness ==
    /\ \A c \in Calls : WF_androidVars(StopTunnel(c) \/ Stopped(c))
    /\ \A t \in Tunnels :
         /\ WF_androidVars(Start(t)) /\ WF_androidVars(Thread(t)) /\ WF_androidVars(Monitor(t))
         /\ SF_androidVars(SeesShutdown(t))

AndroidSpec == AndroidInit /\ [][AndroidNext]_androidVars /\ Fairness

-----------------------------------------------------------------------------
(* Properties *)

\* TUNNEL_RUNNING is set exactly while a tunnel owns it, one tunnel at a time,
\* and the descriptors that are open are those of that tunnel and of one that
\* is about to start; only a runtime that could not be built leaks one.
TunnelAlone ==
    LET owners == {t \in Tunnels : thread[t] \in Active} IN
    /\ \A t, u \in owners : t = u
    /\ running <=> owners # {}
    /\ open \ leaked = {t \in Tunnels : thread[t] \in {"detached", "spawned"} \cup Starting \cup InTunnel}

\* TUNNEL_CONNECTED is set while a tunnel's data plane runs, and at no time
\* when none has finished its handshake, whatever tunnels ended before
\* (RvpnNative.kt: "Returns true only after the Rust handshake has completed").
ConnectedExact ==
    /\ (\E t \in Tunnels : thread[t] \in {"running"} \cup Rekeying) => connected
    /\ connected => \E t \in Tunnels : thread[t] \in {"running", "returned", "failed"} \cup Rekeying

\* What the two flags say is so.
TunnelExact == TunnelAlone /\ ConnectedExact

\* After a disconnect no tunnel keeps its descriptor, in whatever state of its
\* handshake, of a rekey or of the end of an earlier tunnel it comes.
DisconnectEnds == call["intent"] \in {"send", "clear"} ~> open \subseteq leaked

-----------------------------------------------------------------------------
(* The inductive invariant *)

\* A descriptor is lost only with a thread that has ended, so that a start gets
\* a fresh one; the rest is what the flags say.
AndroidInv ==
    /\ AndroidTypeOK
    /\ \A t \in leaked : thread[t] = "ended"
    /\ TunnelExact
=============================================================================
