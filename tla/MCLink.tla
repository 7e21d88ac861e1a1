-------------------------------- MODULE MCLink --------------------------------
(***************************************************************************)
(* One session with small thresholds: two steps from the target MTU down   *)
(* to the minimum, a path that takes no more than the minimum and one that *)
(* takes the target; the timeout is twice the longest keepalive interval,  *)
(* the least the configuration accepts.                                    *)
(***************************************************************************)
EXTENDS Link

MCPathMtus == {8, 10}
MCBulkEnds == {"client"}

===============================================================================
