--------------------------- MODULE MCServerSessions ---------------------------
(* ServerSessions with one pinned peer, one certificate subject and two
   endpoints. *)
EXTENDS ServerSessions

CONSTANTS p1, c1, e1, e2

MCPeers == {p1}
MCCertPeers == {c1}
MCEndpoints == {e1, e2}

Conf(peers, ca, admitted, rx) ==
  [peers |-> peers, ca |-> ca, admitted |-> admitted, rx |-> rx]

MCInitialConfig == Conf(<<p1>>, FALSE, {}, 1)

(* The startup file, the same with another receive limit, the file with the
   certificate authority added, and that with its one subject revoked. *)
MCConfigs == {MCInitialConfig, Conf(<<p1>>, FALSE, {}, 2),
              Conf(<<p1>>, TRUE, {c1}, 1), Conf(<<p1>>, TRUE, {}, 1)}
=============================================================================
