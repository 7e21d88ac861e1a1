----------------------------- MODULE ServerHost -----------------------------
(***************************************************************************)
(* The life of a server process and what it leaves on its host: main, the  *)
(* branches of run_server_loop that touch files, listeners or the kernel,  *)
(* and the end of both.  The forwarding rules, the DNS task and the usage  *)
(* history are the three modules this one composes; the status socket and  *)
(* the metrics portal are tasks of their own, which the end waits for.     *)
(* Calls fail, the process is stopped or killed anywhere, and is started   *)
(* again on the host as it was left.                                       *)
(***************************************************************************)
EXTENDS ForwardingGuard, DnsReloader, UsageHistory

CONSTANTS
    Setups,         \* configurations to consider
    MAX_FAULTS      \* bound: calls that fail

ASSUME HostAssumption == Setups \subseteq Forwardings /\ MAX_FAULTS \in Nat

VARIABLES
    phase,          \* where main is
    config,         \* the DNS section of the configuration in force
    signalled,      \* SIGINT or SIGTERM has arrived
    watched,        \* status_tx exists
    statusTask,     \* status::serve: off, binding, serving, done
    portalTask,     \* portal::serve
    socket,         \* the status socket is in the file system
    original,       \* history: the switches the host had on at first
    ended,          \* history: how the last process ended
    mishaps,        \* history: what went wrong in any process
    faults          \* faults so far

tasks == <<watched, statusTask, portalTask, socket>>
history == <<original, mishaps>>
vars == <<guardVars, dnsVars, usageVars, phase, config, signalled, tasks, history, ended, faults>>

InLoop == phase \in {"running", "tick_write", "tick_replace"}
Phases == {"down", "installing", "dns", "running", "tick_write", "tick_replace",
           "final_write", "final_replace", "joining", "cleaning"}

TypeOK ==
    /\ static \in Forwardings
    /\ sysctl \subseteq Families /\ original \subseteq Families
    /\ table \in {"absent", "partial", "complete"}
    /\ copies \in [Rules -> Nat]
    /\ guard \in [sysctls : SUBSET Families, cleanup : Seq({<<"table">>} \cup {"rule"} \X Rules)]
    /\ step \in 0 .. Len(Plan)
    /\ phase \in Phases
    /\ config \in DnsConfigs /\ dnsCurrent \in DnsConfigs
    /\ dnsServing \in DnsConfigs \cup {"none"}
    /\ {dnsDown, signalled, watched, socket} \subseteq BOOLEAN
    /\ statusTask \in {"off", "binding", "serving", "done"}
    /\ portalTask \in {"off", "serving", "done"}
    /\ mishaps \subseteq {"killed", "untidy", "misread"}
    /\ ended \in {"never", "cleanly", "failed", "untidily", "killed"}
    /\ faults \in 0 .. MAX_FAULTS

\* A call that fails, or that fails and is taken for an answer.
Fault == faults < MAX_FAULTS /\ faults' = faults + 1
Works(ok) == IF ok THEN UNCHANGED faults ELSE Fault

Goto(p) == phase' = p

\* [usage_history] is enabled; sessions matter here only if it is.
Recording == static.usage

Init ==
    /\ GuardInit(Setups) /\ DnsInit /\ UsageInit
    /\ phase = "down" /\ config = "off"
    /\ signalled = FALSE
    /\ watched = FALSE /\ statusTask = "off" /\ portalTask = "off" /\ socket = FALSE
    /\ original = sysctl
    /\ ended = "never" /\ mishaps = {}
    /\ faults = 0

-----------------------------------------------------------------------------
(* main *)

\* The configuration is read, the history opened, the socket bound and the
\* devices made; a failure here ends the process with nothing to undo.
Start ==
    /\ phase = "down"
    /\ Goto("installing")
    /\ config' \in DnsConfigs
    /\ Open
    /\ signalled' = FALSE
    /\ ended' = "cleanly"
    /\ UNCHANGED <<guardVars, dnsVars, tasks, history, faults>>

\* ForwardingGuard::install.  A check that does not work is taken for a rule
\* that is missing.
InstallStep ==
    /\ phase = "installing"
    /\ \E works \in BOOLEAN :
         /\ Install(works) /\ Works(works)
         /\ mishaps' = IF works THEN mishaps ELSE mishaps \cup {"misread"}
    /\ UNCHANGED <<dnsVars, usageVars, phase, config, signalled, tasks, original, ended>>

InstallDone ==
    /\ phase = "installing" /\ Installed
    /\ Goto("dns")
    /\ UNCHANGED <<guardVars, dnsVars, usageVars, config, signalled, tasks, history, ended, faults>>

\* DnsReloader::start, and run_server_loop up to its loop.
Serve ==
    /\ phase = "dns"
    /\ Goto("running")
    /\ StartDns(config)
    /\ watched' = TRUE
    /\ statusTask' = "binding" /\ portalTask' = "serving"
    /\ UNCHANGED <<guardVars, usageVars, config, signalled, socket, history, ended, faults>>

\* A failing start: main returns the error and drops the guard.
StartFails ==
    /\ phase \in {"installing", "dns"}
    /\ Fault
    /\ Goto("cleaning")
    /\ ended' = "failed"
    /\ UNCHANGED <<guardVars, dnsVars, usageVars, config, signalled, tasks, history>>

-----------------------------------------------------------------------------
(* The loop *)

Loop(Action) ==
    /\ phase = "running"
    /\ Action
    /\ UNCHANGED <<guardVars, dnsVars, phase, config, signalled, tasks, history, ended, faults>>

SessionJoins == Loop(Recording /\ Joins)
PacketCarried == Loop(\E s \in DOMAIN active : Carries(s))
SessionLeaves == Loop(\E s \in DOMAIN active : Leave({s}))

\* The usage tick: record, then flush if anything changed.
UsageTick ==
    /\ phase = "running" /\ Recording
    /\ Record
    /\ Goto(IF dirty' THEN "tick_write" ELSE "running")
    /\ UNCHANGED <<guardVars, dnsVars, config, signalled, tasks, history, ended, faults>>

\* flush up to the rename, then the rename.  A flush that fails is logged; the
\* totals stay dirty and the next flush tries again.
FlushWrites ==
    /\ phase \in {"tick_write", "final_write"}
    /\ Goto(IF phase = "tick_write" THEN "tick_replace" ELSE "final_replace")
    /\ WriteTemporary
    /\ UNCHANGED <<guardVars, dnsVars, today, memory, sessions, carried, blemished,
                   config, signalled, tasks, history, ended, faults>>

FlushReplaces ==
    /\ phase \in {"tick_replace", "final_replace"}
    /\ Goto(IF phase = "tick_replace" THEN "running" ELSE "joining")
    /\ Replace
    /\ UNCHANGED <<guardVars, dnsVars, config, signalled, tasks, history, ended, faults>>

FlushFails ==
    /\ phase \in {"tick_write", "tick_replace", "final_write", "final_replace"}
    /\ Goto(IF phase \in {"tick_write", "tick_replace"} THEN "running" ELSE "joining")
    /\ Fault
    /\ UNCHANGED <<guardVars, dnsVars, usageVars, config, signalled, tasks, history, ended>>

\* reload_config: the DNS section and the peers are what matters here.  The
\* DNS task is asked first; if it refuses, nothing else is applied.
Reload(dns, peers) ==
    /\ phase = "running"
    /\ dns # config \/ peers
    /\ \E stops, starts, restores \in BOOLEAN :
         /\ dns = config => stops
         /\ (~stops \/ dns = config) => starts
         /\ starts => restores
         /\ faults' = faults + Cardinality({i \in 1 .. 3 : ~<<stops, starts, restores>>[i]})
         /\ faults' <= MAX_FAULTS
         /\ IF dns = config THEN UNCHANGED dnsVars
            ELSE ReplaceForwarder(dns, stops, starts, restores)
         /\ IF stops /\ starts
            THEN /\ config' = dns
                 /\ IF peers THEN Leave(DOMAIN active) ELSE UNCHANGED usageVars
            ELSE UNCHANGED <<config, usageVars>>
    /\ UNCHANGED <<guardVars, phase, signalled, tasks, history, ended>>

\* The loop ends, on a signal or because receiving keeps failing; the history
\* is recorded for the last time.
Stop ==
    /\ phase = "running"
    /\ Works(signalled)
    /\ IF Recording THEN Record ELSE UNCHANGED usageVars
    /\ Goto(IF dirty' THEN "final_write" ELSE "joining")
    /\ UNCHANGED <<guardVars, dnsVars, config, signalled, tasks, history, ended>>

-----------------------------------------------------------------------------
(* The end *)

\* Mutant: the tasks are awaited before the channel they watch is closed.
DropStatusLate ==
    /\ phase = "joining"
    /\ watched /\ statusTask = "done" /\ portalTask = "done"
    /\ watched' = FALSE
    /\ UNCHANGED <<guardVars, dnsVars, usageVars, phase, config, signalled, statusTask,
                   portalTask, socket, history, ended, faults>>

DropStatus ==
    /\ phase = "joining"
    /\ watched
    /\ watched' = FALSE
    /\ UNCHANGED <<guardVars, dnsVars, usageVars, phase, config, signalled, statusTask,
                   portalTask, socket, history, ended, faults>>

\* Both tasks have ended; the peers are told, and cleanup begins.
Joined ==
    /\ phase = "joining"
    /\ ~watched /\ statusTask = "done" /\ portalTask = "done"
    /\ Goto("cleaning")
    /\ UNCHANGED <<guardVars, dnsVars, usageVars, config, signalled, tasks, history, ended, faults>>

Cleanup ==
    /\ phase = "cleaning"
    /\ \E works \in BOOLEAN :
         /\ Undo(works) \/ RestoreSysctl(works)
         /\ Works(works)
         /\ ended' = IF works THEN ended ELSE "untidily"
         /\ mishaps' = IF works THEN mishaps ELSE mishaps \cup {"untidy"}
    /\ UNCHANGED <<dnsVars, usageVars, phase, config, signalled, tasks, original>>

\* What goes with the process.
Gone ==
    /\ Goto("down")
    /\ GuardLost
    /\ dnsCurrent' = "off" /\ dnsServing' = "none" /\ dnsDown' = FALSE
    /\ UsageLost
    /\ config' = "off" /\ signalled' = FALSE
    /\ watched' = FALSE /\ statusTask' = "off" /\ portalTask' = "off"

\* The DNS task is stopped, and main returns.
Exit ==
    /\ phase = "cleaning" /\ CleanedUp
    /\ Gone
    /\ UNCHANGED <<socket, history, ended, faults>>

-----------------------------------------------------------------------------
(* The two tasks *)

\* status::serve up to its loop: a socket nobody listens on is replaced.  When
\* it fails, before or after either of the two, nobody removes what is there.
StatusBinds ==
    /\ statusTask = "binding"
    /\ \E works \in BOOLEAN :
         /\ Works(works)
         /\ statusTask' = IF works THEN "serving" ELSE "done"
         /\ socket' \in IF works THEN {TRUE} ELSE BOOLEAN
         /\ ended' = IF works THEN ended ELSE "untidily"
    /\ UNCHANGED <<guardVars, dnsVars, usageVars, phase, config, signalled, watched,
                   portalTask, history>>

\* Its loop ends with the channel, or when accept fails.
StatusEnds ==
    /\ statusTask = "serving"
    /\ Works(~watched)
    /\ statusTask' = "done"
    /\ socket' = FALSE
    /\ UNCHANGED <<guardVars, dnsVars, usageVars, phase, config, signalled, watched,
                   portalTask, history, ended>>

PortalEnds ==
    /\ portalTask = "serving"
    /\ Works(~watched)
    /\ portalTask' = "done"
    /\ UNCHANGED <<guardVars, dnsVars, usageVars, phase, config, signalled, watched,
                   statusTask, socket, history, ended>>

-----------------------------------------------------------------------------
(* The environment *)

\* SIGINT or SIGTERM; before the loop waits for them they kill.
Signal ==
    /\ InLoop /\ ~signalled
    /\ signalled' = TRUE
    /\ UNCHANGED <<guardVars, dnsVars, usageVars, phase, config, tasks, history, ended, faults>>

Kill ==
    /\ phase # "down"
    /\ Gone
    /\ ended' = "killed"
    /\ mishaps' = mishaps \cup {"killed"}
    /\ UNCHANGED <<socket, original, faults>>

Midnight ==
    /\ NextDay
    /\ UNCHANGED <<guardVars, dnsVars, phase, config, signalled, tasks, history, ended, faults>>

Work ==
    \/ InstallStep \/ InstallDone \/ Serve
    \/ FlushWrites \/ FlushReplaces
    \/ DropStatus \/ Joined \/ Cleanup \/ Exit

Next ==
    \/ Start \/ Work \/ StartFails
    \/ SessionJoins \/ PacketCarried \/ SessionLeaves
    \/ UsageTick \/ FlushFails
    \/ \E dns \in DnsConfigs, peers \in BOOLEAN : Reload(dns, peers)
    \/ Stop
    \/ StatusBinds \/ StatusEnds \/ PortalEnds
    \/ Signal \/ Kill \/ Midnight

\* main and the tasks go on while they can; select! takes a branch that stays
\* ready, here the signal.
Fairness ==
    /\ WF_vars(Work)
    /\ WF_vars(signalled /\ Stop)
    /\ WF_vars(StatusBinds \/ StatusEnds) /\ WF_vars(PortalEnds)

Spec == Init /\ [][Next]_vars /\ Fairness

-----------------------------------------------------------------------------
(* Properties *)

\* No process was killed, and what was to be undone was.
Tidy == mishaps \cap {"killed", "untidy"} = {}

\* A server that ends by itself leaves no firewall rule and no status socket
\* behind, not even those of servers killed before it with the same forwarding
\* section and backend, and unless one was killed or a restore failed, no rule
\* is left and the forwarding switches are as they were however the server
\* ended, also after a start that failed half way (README.md: "restores routes
\* and firewall state").
ServerHostRestored ==
    phase = "down" =>
        /\ ended = "cleanly" => ~socket
        /\ ended = "cleanly" /\ "misread" \notin mishaps => Unfiltered
        /\ Tidy => Unfiltered /\ sysctl = original

\* The DNS section in force is the one the DNS task has, and the listeners
\* run with it unless they could not be restored: a reload the task refuses
\* changes nothing (operations.md: "restores the previous settings").
DnsInStep ==
    InLoop =>
        /\ dnsCurrent = config
        /\ dnsServing = StartForwarder(config) \/ dnsDown

\* The history counts no packet twice, through all restarts, and what it
\* misses are sessions that ended between two records, days past the
\* retention, and what a killed process or a failing write lost.
UsageExact ==
    /\ NoneTwice
    /\ phase = "down" /\ ~blemished => Exact

\* The file on disk loses only days past the retention, whenever the process
\* is killed (configuration.md: "written atomically").
HistoryDurable == [][Kept]_vars

\* A signal ends the server: no task waits for a channel nobody closes.
ShutdownCompletes == signalled ~> phase = "down"

-----------------------------------------------------------------------------
(* The inductive invariant.                                                *)

Planned(command) == \E i \in 1 .. Len(Plan) : Plan[i] = command
Done(command) == \E i \in 1 .. step : Plan[i] = command
Noted(command) == \E i \in 1 .. Len(guard.cleanup) : guard.cleanup[i] = command

\* The guard of a process knows every step that it must undo, and no rule
\* that has not had its turn.
GuardExact ==
    /\ phase = "down" => CleanedUp /\ step = 0
    /\ phase \notin {"down", "installing", "cleaning"} => Installed
    /\ \A r \in Rules : Noted(<<"rule", r>>) => Done(<<"rule", r>>)
    /\ phase \notin {"down", "cleaning"} =>
         /\ \A r \in Rules : Done(<<"rule", r>>) => Noted(<<"rule", r>>)
         /\ Done(<<"add">>) => Noted(<<"table">>)

\* All rules that are in force are noted.
AllNoted ==
    /\ \A r \in Rules : copies[r] > 0 => Noted(<<"rule", r>>)
    /\ table # "absent" => Noted(<<"table">>)

\* The rules in force, of whatever process, are of the plan; the guard of one
\* that ends by itself notes them all.
RulesKnown ==
    /\ \A r \in Rules : copies[r] > 0 => Planned(<<"rule", r>>)
    /\ table # "absent" => Planned(<<"add">>)
    /\ "misread" \notin mishaps =>
         /\ \A r \in Rules : copies[r] <= 1
         /\ phase \in {"cleaning", "down"} /\ ended = "cleanly" => AllNoted

\* As long as all is tidy the guard accounts for all that is not as it was.
GuardAccounts ==
    Tidy =>
        /\ \A r \in Rules : copies[r] <= 1
        /\ AllNoted
        /\ sysctl = original \cup guard.sysctls
        /\ guard.sysctls \cap original = {}

\* Where the status task is, and what it has left of its socket.
SocketHeld ==
    /\ phase \in {"down", "installing", "dns"} => statusTask = "off"
    /\ phase = "cleaning" /\ ended = "cleanly" => statusTask = "done"
    /\ statusTask = "done" \/ phase = "down" => (ended = "cleanly" => ~socket)

DnsHeld ==
    phase \notin {"down", "installing", "dns", "cleaning"} =>
        dnsCurrent = config /\ (dnsServing = StartForwarder(config) \/ dnsDown)

\* The packets carried are in the totals or still to be recorded, and the
\* totals have all of the file that the retention covers.
UsageHeld ==
    /\ {today, sessions, carried} \subseteq Nat /\ {dirty, blemished} \subseteq BOOLEAN
    /\ active \in [DOMAIN active -> Nat] /\ DOMAIN active \subseteq 1 .. sessions
    /\ previous \in [DOMAIN previous -> Nat] /\ DOMAIN previous \subseteq 1 .. sessions
    /\ \A s \in DOMAIN active \cap DOMAIN previous : previous[s] <= active[s]
    /\ days \in [DOMAIN days -> Nat] /\ DOMAIN days \subseteq 0 .. today
    /\ disk \in [DOMAIN disk -> Nat] /\ DOMAIN disk \subseteq 0 .. today
    /\ NoneTwice
    /\ phase = "down" => (~blemished => Exact)
    /\ phase # "down" =>
         /\ Total(days) + Unseen(DOMAIN active) <= carried
         /\ ~blemished => Total(days) + Unseen(DOMAIN active) = carried
         /\ ~dirty => days = disk
         /\ \A d \in DOMAIN disk :
              \/ d \in DOMAIN days /\ days[d] >= disk[d]
              \/ d <= today - RETENTION

ServerInv ==
    /\ TypeOK /\ GuardExact /\ RulesKnown /\ GuardAccounts
    /\ SocketHeld /\ DnsHeld /\ UsageHeld
=============================================================================
