------------------------------- MODULE MCClient -------------------------------
(* A client in the foreground and the daemon, with configurations to choose
   from. *)
EXTENDS Daemon

CONSTANTS e1, e2, f1

Setup(mode, v4, v6, name, dns, nm, addresses) ==
    [mode |-> mode, default_route |-> v4, default_route_v6 |-> v6, hostname |-> name,
     dns |-> dns, nm_dns |-> nm, addresses |-> addresses]

\* In the foreground: both default routes, with a fixed server and with one that
\* moves, a server of the family that does not go through the tunnel, and a split
\* tunnel whose server moves.  The daemon's clients have one server, and a default
\* route or DNS.
MCSetups ==
    {Setup("foreground", TRUE, TRUE, FALSE, TRUE, TRUE, {e1, f1}),
     Setup("foreground", TRUE, TRUE, TRUE, FALSE, FALSE, {e1, e2, f1}),
     Setup("foreground", TRUE, FALSE, FALSE, FALSE, FALSE, {f1}),
     Setup("foreground", FALSE, FALSE, TRUE, TRUE, FALSE, {e1, e2}),
     Setup("daemon", TRUE, FALSE, FALSE, FALSE, FALSE, {e1}),
     Setup("daemon", FALSE, FALSE, FALSE, TRUE, FALSE, {e1})}

\* An IPv4 default route through a server reached over IPv6.
MCOtherFamily == {Setup("foreground", TRUE, FALSE, FALSE, FALSE, FALSE, {f1})}

\* A name with two addresses.
MCMoving == {Setup("foreground", TRUE, FALSE, TRUE, FALSE, FALSE, {e1, e2})}
=============================================================================
