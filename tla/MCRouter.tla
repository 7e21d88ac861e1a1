------------------------------- MODULE MCRouter -------------------------------
(* Router with three peers, one of which has a prefix that contains another's
   address, three MACs of which a session may learn two, and every sequence of
   joins, departures and reloads over the policies of the configuration. *)
EXTENDS Router, TLC

CONSTANTS laptop, phone, tablet,   \* names
          a1, a2, a3               \* inner addresses

Host(a) == [len |-> 32, covers |-> {a}]
Lan == [len |-> 24, covers |-> {a1, a2, a3}]
Allowed == (laptop :> {Host(a1)}) @@ (phone :> {Host(a2)}) @@ (tablet :> {Lan})
SharedLan == (laptop :> {Host(a1)}) @@ (phone :> {Host(a2), Lan}) @@ (tablet :> {Lan})
Pair == (laptop :> {Host(a1)}) @@ (phone :> {Host(a2)})

Between(S) == [between |-> S, transmitters |-> {}, receivers |-> {}]
Directed(from, to) == [between |-> {}, transmitters |-> from, receivers |-> to]

Config(allowed, entries) == [allowed |-> allowed, links |-> entries]

(* The last two are refused: a name no peer has, and a peer linked to itself. *)
MCSymmetric ==
  {Config(Allowed, {Between({laptop, phone})}),
   Config(Allowed, {Between({laptop, phone}), Between({phone, tablet})}),
   Config(Allowed, {}),
   Config(SharedLan, {Between({laptop, phone}), Between({laptop, tablet})}),
   Config(Pair, {Between({laptop, phone})}),
   Config(Pair, {Between({laptop, tablet})}),
   Config(Pair, {Directed({laptop, phone}, {phone})})}

MCDirected == MCSymmetric \cup {Config(Allowed, {Directed({laptop, tablet}, {phone})})}

MCInitial == Config(Allowed, {Between({laptop, phone})})
=============================================================================
