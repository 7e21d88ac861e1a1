------------------------------- MODULE MCTunnel -------------------------------
(* Tunnel with one client of a server that has two pinned peers, so that every
   initiation opens two attempts and only one is the client's. *)
EXTENDS Tunnel

CONSTANTS p1, p2, e1, e2

MCPeers == {p1, p2}
MCInitialConfig == [peers |-> <<p2, p1>>, ca |-> FALSE, admitted |-> {}, rx |-> 1]
MCSolo == [peers |-> <<p1>>, ca |-> FALSE, admitted |-> {}, rx |-> 1]
MCConfigs == {MCInitialConfig, MCSolo}
=============================================================================
