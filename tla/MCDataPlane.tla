------------------------------ MODULE MCDataPlane ------------------------------
(* What a packet passes on its way through an endpoint: the replay bitmap, the
   session and the router.  The three share no state, so a behaviour is about one
   of them and leaves the others as they started. *)
EXTENDS MCRouter, ReplayRing, ProtectedSession

VARIABLE subject

dataPlaneVars == <<subject, ringVars, sessionVars, vars>>

DataPlaneInit ==
  /\ subject \in {"ring", "session", "router"}
  /\ RingInit /\ SessionInit /\ Init

DataPlaneNext ==
  /\ UNCHANGED subject
  /\ \/ subject = "ring" /\ RingNext /\ UNCHANGED <<sessionVars, vars>>
     \/ subject = "session" /\ SessionNext /\ UNCHANGED <<ringVars, vars>>
     \/ subject = "router" /\ Next /\ UNCHANGED <<ringVars, sessionVars>>

DataPlaneSpec == DataPlaneInit /\ [][DataPlaneNext]_dataPlaneVars
=============================================================================
