---------------------------- MODULE MCServerHost ----------------------------
(* ServerHost with either firewall backend and no history, or the reverse. *)
EXTENDS ServerHost

MCSetups == {[families |-> {"v4"}, nft |-> TRUE, usage |-> FALSE],
             [families |-> {"v4", "v6"}, nft |-> FALSE, usage |-> FALSE],
             [families |-> {}, nft |-> TRUE, usage |-> TRUE]}
=============================================================================
