----------------------------- MODULE DnsReloader -----------------------------
(***************************************************************************)
(* The task that owns the embedded DNS forwarder.  The server asks it to   *)
(* replace the configuration and waits for the answer, so a replacement is *)
(* one step; what may go wrong in it are the three calls it makes: stopping*)
(* the old listeners, starting the new ones, and starting the old ones     *)
(* again.  All of it is memory of the process.                             *)
(***************************************************************************)

CONSTANTS
    DnsConfigs      \* DNS configurations; "off" has no upstreams

ASSUME DnsAssumption == "off" \in DnsConfigs /\ "none" \notin DnsConfigs

VARIABLES
    dnsCurrent,     \* the task's config
    dnsServing,     \* the configuration of the listeners that run, if any
    dnsDown         \* history: listeners were lost and could not be restored

dnsVars == <<dnsCurrent, dnsServing, dnsDown>>

\* start_forwarder, when it succeeds: without upstreams nothing is started.
StartForwarder(config) == IF config = "off" THEN "none" ELSE config

DnsInit ==
    /\ dnsCurrent = "off"
    /\ dnsServing = "none"
    /\ dnsDown = FALSE

\* DnsReloader::start.
StartDns(config) ==
    /\ dnsCurrent' = config
    /\ dnsServing' = StartForwarder(config)
    /\ dnsDown' = FALSE

\* Mutant: the new configuration is noted before it is known to work.
ReplaceForwarderEarly(next, stops, starts, restores) ==
    IF dnsCurrent = next THEN UNCHANGED dnsVars
    ELSE /\ dnsCurrent' = IF stops THEN next ELSE dnsCurrent
         /\ \/ /\ stops /\ starts
               /\ dnsServing' = StartForwarder(next)
               /\ dnsDown' = FALSE
            \/ /\ stops /\ ~starts /\ restores
               /\ dnsServing' = StartForwarder(dnsCurrent')
               /\ dnsDown' = FALSE
            \/ /\ ~stops \/ (~starts /\ ~restores)
               /\ dnsServing' = "none"
               /\ dnsDown' = TRUE

\* replace_forwarder.  The three flags say which of its calls succeed; it
\* answers Ok exactly if the first two do or nothing was to be done.
ReplaceForwarder(next, stops, starts, restores) ==
    IF dnsCurrent = next THEN UNCHANGED dnsVars
    ELSE /\ dnsCurrent' = IF stops /\ starts THEN next ELSE dnsCurrent
         /\ \/ /\ stops /\ starts
               /\ dnsServing' = StartForwarder(next)
               /\ dnsDown' = FALSE
            \/ /\ stops /\ ~starts /\ restores
               /\ dnsServing' = StartForwarder(dnsCurrent)
               /\ dnsDown' = FALSE
            \/ /\ ~stops \/ (~starts /\ ~restores)
               /\ dnsServing' = "none"
               /\ dnsDown' = TRUE
=============================================================================
