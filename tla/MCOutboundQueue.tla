--------------------------- MODULE MCOutboundQueue ---------------------------
(* OutboundQueue with three peers of whom two can be tracked. *)
EXTENDS OutboundQueue
=============================================================================
