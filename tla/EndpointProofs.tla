---------------------------- MODULE EndpointProofs ----------------------------
(***************************************************************************)
(* Proofs about what an endpoint of the tunnel keeps.                      *)
(*                                                                         *)
(* ReplayRing, for every number of words, every word size and every bound  *)
(* on sequence numbers: the loop of clear_range clears exactly what it     *)
(* must, and the window with the loop implements the window whose calls    *)
(* are single steps, hence the promise.  ProtectedSession, for every       *)
(* window size and any number of rekeys: what the two sides of a session   *)
(* seal and open.  Android, for any number of tunnels: what the service    *)
(* shows and the tunnel it owns.                                           *)
(***************************************************************************)
EXTENDS ReplayRing, ProtectedSession, Android, TLAPS

-----------------------------------------------------------------------------
(* The sessions. *)

(* OpenedExact, said for each side by its name. *)
LEMMA OpenedBySide ==
  ASSUME OpenedExact, NEW m \in Numbers
  PROVE  /\ <<"client", phase["server"], m>> \in opened <=> m \in seen["server"]
         /\ prev["server"].live =>
              (<<"client", phase["server"] - 1, m>> \in opened <=> m \in prev["server"].seen)
         /\ \A p \in Phases : <<"client", p, m>> \in opened => p <= phase["server"]
         /\ <<"server", phase["client"], m>> \in opened <=> m \in seen["client"]
         /\ \A p \in Phases : <<"server", p, m>> \in opened => p <= phase["client"]
<1>1. Other("server") = "client" /\ Other("client") = "server" BY Zenon DEF Other
<1> QED BY ZenonT(30), <1>1 DEF OpenedExact, Sides

(* Nothing was opened ahead of the phase of the side that opens. *)
LEMMA OpenedNotAhead ==
  ASSUME OpenedExact, SessionTypeOK, NEW m \in Numbers, NEW p \in Phases
  PROVE  /\ p = phase["client"] + 1 => <<"server", p, m>> \notin opened
         /\ p = phase["server"] + 1 => <<"client", p, m>> \notin opened
<1>1. phase["client"] \in Int /\ phase["server"] \in Int BY SessionAssumption
   DEF SessionTypeOK, Sides, Phases
<1>2. <<"server", p, m>> \in opened => p <= phase["client"] BY ZenonT(30), OpenedBySide
<1>3. <<"client", p, m>> \in opened => p <= phase["server"] BY ZenonT(30), OpenedBySide
<1> QED BY <1>1, <1>2, <1>3

(* Two new sessions satisfy it. *)
LEMMA InitInv == SessionInit => SessionInv
<1> SUFFICES ASSUME SessionInit PROVE SessionInv
  BY Zenon
<1> USE SessionAssumption DEF SessionInit, NoPrevious, Sides, Phases, Numbers
<1>1. SessionTypeOK
  <2> DEFINE Windows == [live : BOOLEAN, seen : SUBSET Numbers]
  <2>1. NoPrevious \in Windows BY Zenon
  <2>2. prev \in [Sides -> Windows]
    <3> HIDE DEF NoPrevious, Windows
    <3> QED BY Zenon, <2>1
  <2>3. /\ phase \in [Sides -> Phases] /\ next_seq \in [Sides -> 0..SEQ_LIMIT]
        /\ seen \in [Sides -> SUBSET Numbers] /\ grace \in [Sides -> BOOLEAN]
    OBVIOUS
  <2> QED BY ZenonT(30), <2>2, <2>3 DEF SessionTypeOK
<1>2. PhaseOrder BY DEF PhaseOrder
<1>3. SealedBehind BY Zenon DEF SealedBehind
<1>4. OpenedExact BY Zenon DEF OpenedExact
<1>5. PreviousKept BY Zenon DEF PreviousKept
<1>6. DeliveredOnce /\ NonceUnique BY Zenon DEF DeliveredOnce, NonceUnique
<1>7. WindowsGenuine BY Zenon DEF WindowsGenuine
<1>8. ServerGraceHonoured BY Zenon DEF ServerGraceHonoured
<1> QED BY Zenon, <1>1, <1>2, <1>3, <1>4, <1>5, <1>6, <1>7, <1>8 DEF SessionInv

(* seal takes the next number of its own counter. *)
LEMMA SealInv == ASSUME SessionInv, NEW x \in Sides, Seal(x) PROVE SessionInv'
<1> USE SessionAssumption DEF SessionInv, Seal, Sides, Phases, Numbers
<1>1. SessionTypeOK' BY DEF SessionTypeOK, Packets
<1>2. PhaseOrder' BY Zenon DEF PhaseOrder
<1>3. SealedBehind' BY DEF SealedBehind, SessionTypeOK
<1>4. OpenedExact' BY Zenon DEF OpenedExact, Other
<1>5. PreviousKept' BY Zenon DEF PreviousKept
<1>6. DeliveredOnce' BY Zenon DEF DeliveredOnce
<1>7. NonceUnique' BY DEF NonceUnique, SealedBehind, SessionTypeOK
<1>8. WindowsGenuine' BY Zenon DEF WindowsGenuine, Genuine, Other
<1>9. ServerGraceHonoured' BY Zenon DEF ServerGraceHonoured
<1> QED BY Zenon, <1>1, <1>2, <1>3, <1>4, <1>5, <1>6, <1>7, <1>8, <1>9

(* open of a packet of the current phase records a number the other side sealed. *)
LEMMA OpenCurrentInv ==
  ASSUME SessionInv, NEW x \in Sides, NEW n \in Numbers, OpenCurrent(x, n) PROVE SessionInv'
<1> USE SessionAssumption DEF SessionInv, OpenCurrent, Delivered, Sides, Phases, Numbers
<1>1. SessionTypeOK' BY DEF SessionTypeOK, Packets, Other
<1>2. PhaseOrder' BY Zenon DEF PhaseOrder
<1>3. SealedBehind' BY Zenon DEF SealedBehind
<1>4. OpenedExact' BY DEF OpenedExact, Other, SessionTypeOK
<1>5. PreviousKept' BY Zenon DEF PreviousKept
<1>6. DeliveredOnce' BY ZenonT(30) DEF DeliveredOnce, OpenedExact, Fresh
<1>7. NonceUnique' BY Zenon DEF NonceUnique
<1>8. WindowsGenuine' BY Zenon DEF WindowsGenuine, Genuine, Other, SessionTypeOK
<1>9. ServerGraceHonoured' BY Zenon DEF ServerGraceHonoured
<1> QED BY Zenon, <1>1, <1>2, <1>3, <1>4, <1>5, <1>6, <1>7, <1>8, <1>9

(* open of a packet of the phase left behind records it in that phase's window. *)
LEMMA OpenPreviousInv ==
  ASSUME SessionInv, NEW x \in Sides, NEW n \in Numbers, OpenPrevious(x, n) PROVE SessionInv'
<1> USE SessionAssumption DEF SessionInv, OpenPrevious, Delivered, Sides, Phases, Numbers
<1>0. /\ phase[x] - 1 \in Phases
      /\ prev[x] \in [live : BOOLEAN, seen : SUBSET Numbers]
  BY Zenon DEF SessionTypeOK, Genuine, Packets
<1>1. SessionTypeOK' BY <1>0 DEF SessionTypeOK, Packets, Other
<1>2. PhaseOrder' BY Zenon DEF PhaseOrder
<1>3. SealedBehind' BY Zenon DEF SealedBehind
<1>4. OpenedExact' BY <1>0 DEF OpenedExact, Other, SessionTypeOK
<1>5. PreviousKept' BY Zenon DEF PreviousKept, SessionTypeOK, NoPrevious
<1>6. DeliveredOnce' BY ZenonT(30) DEF DeliveredOnce, OpenedExact, Fresh
<1>7. NonceUnique' BY Zenon DEF NonceUnique
<1>8. WindowsGenuine' BY Zenon DEF WindowsGenuine, Genuine, Other, SessionTypeOK
<1>9. ServerGraceHonoured' BY Zenon DEF ServerGraceHonoured
<1> QED BY Zenon, <1>1, <1>2, <1>3, <1>4, <1>5, <1>6, <1>7, <1>8, <1>9

(* A refusal changes neither session. *)
LEMMA RefusePreviousInv ==
  ASSUME SessionInv, NEW x \in Sides, NEW n \in Numbers, RefusePrevious(x, n) PROVE SessionInv'
<1> USE SessionAssumption DEF SessionInv, RefusePrevious, Sides, Phases, Numbers
<1>1. SessionTypeOK' BY Zenon DEF SessionTypeOK, Packets, Genuine, Other
<1>2. PhaseOrder' BY Zenon DEF PhaseOrder
<1>3. SealedBehind' BY Zenon DEF SealedBehind
<1>4. OpenedExact' BY Zenon DEF OpenedExact, Other
<1>5. PreviousKept' BY Zenon DEF PreviousKept
<1>6. DeliveredOnce' BY Zenon DEF DeliveredOnce
<1>7. NonceUnique' BY Zenon DEF NonceUnique
<1>8. WindowsGenuine' BY Zenon DEF WindowsGenuine, Genuine, Other
<1>9. ServerGraceHonoured' BY DEF ServerGraceHonoured, PreviousKept, Other
<1> QED BY Zenon, <1>1, <1>2, <1>3, <1>4, <1>5, <1>6, <1>7, <1>8, <1>9

(* The end of the grace period takes the previous phase away. *)
LEMMA GraceExpiresInv ==
  ASSUME SessionInv, NEW x \in Sides, GraceExpires(x) PROVE SessionInv'
<1> USE SessionAssumption DEF SessionInv, GraceExpires, Sides, Phases, Numbers
<1>1. SessionTypeOK' BY ZenonT(30) DEF SessionTypeOK
<1>2. PhaseOrder' BY Zenon DEF PhaseOrder
<1>3. SealedBehind' BY Zenon DEF SealedBehind
<1>4. OpenedExact' BY DEF OpenedExact, Other, SessionTypeOK
<1>5. PreviousKept' BY Zenon DEF PreviousKept, NoPrevious, SessionTypeOK
<1>6. DeliveredOnce' BY Zenon DEF DeliveredOnce
<1>7. NonceUnique' BY Zenon DEF NonceUnique
<1>8. WindowsGenuine' BY Zenon DEF WindowsGenuine, Genuine, Other, SessionTypeOK
<1>9. ServerGraceHonoured' BY Zenon DEF ServerGraceHonoured
<1> QED BY Zenon, <1>1, <1>2, <1>3, <1>4, <1>5, <1>6, <1>7, <1>8, <1>9

(* The server's new session inherits the window of the phase it leaves. *)
LEMMA ServerRekeyInv == ASSUME SessionInv, ServerRekey PROVE SessionInv'
<1> USE SessionAssumption
   DEF SessionInv, ServerRekey, InheritPrevious, NoPrevious, Sides, Phases, Numbers
<1>1. SessionTypeOK' BY DEF SessionTypeOK
<1>2. PhaseOrder' BY DEF PhaseOrder, SessionTypeOK
<1>3. SealedBehind' BY DEF SealedBehind, SessionTypeOK
<1>4. OpenedExact'
  <2> DEFINE q == phase["server"] + 1
  <2>1. /\ opened' = opened /\ q \in Phases /\ phase["server"] \in Phases
        /\ phase'["server"] = q /\ phase'["client"] = phase["client"]
        /\ seen'["server"] = {} /\ seen'["client"] = seen["client"]
        /\ prev'["client"] = prev["client"] /\ prev'["server"] = InheritPrevious("server")
    BY DEF SessionTypeOK
  <2>2. ASSUME NEW m \in Numbers
        PROVE  /\ <<"client", q, m>> \notin opened
               /\ <<"client", phase["server"], m>> \in opened <=> m \in seen["server"]
               /\ \A p \in Phases : <<"client", p, m>> \in opened => p <= q
    <3> HIDE DEF Phases, Numbers, ServerRekey, InheritPrevious, NoPrevious
    <3>1. <<"client", q, m>> \notin opened BY ZenonT(30), <2>1, OpenedNotAhead
    <3>2. phase["server"] \in Int BY DEF SessionTypeOK, Sides, Phases
    <3>3. ASSUME NEW p \in Phases, <<"client", p, m>> \in opened PROVE p <= q
      <4>1. p <= phase["server"] BY ZenonT(30), <3>3, OpenedBySide
      <4>2. p \in Int BY DEF Phases
      <4> QED BY <4>1, <4>2, <3>2
    <3> QED BY ZenonT(30), <3>1, <3>3, OpenedBySide
  <2>3. ASSUME NEW m \in Numbers
        PROVE  /\ <<"client", q, m>> \in opened' <=> m \in seen'["server"]
               /\ prev'["server"].live =>
                    (<<"client", q - 1, m>> \in opened' <=> m \in prev'["server"].seen)
               /\ \A p \in Phases : <<"client", p, m>> \in opened' => p <= q
    BY <2>1, <2>2
  <2>4. ASSUME NEW m \in Numbers
        PROVE  /\ <<"server", phase'["client"], m>> \in opened' <=> m \in seen'["client"]
               /\ ~prev'["client"].live
               /\ \A p \in Phases : <<"server", p, m>> \in opened' => p <= phase'["client"]
    BY ZenonT(30), <2>1 DEF OpenedExact, PreviousKept, Other
  <2> QED BY Zenon, <2>1, <2>3, <2>4 DEF OpenedExact, Other
<1>5. PreviousKept' BY Zenon DEF PreviousKept, SessionTypeOK
<1>6. DeliveredOnce' BY Zenon DEF DeliveredOnce
<1>7. NonceUnique' BY Zenon DEF NonceUnique
<1>8. WindowsGenuine' BY DEF WindowsGenuine, Genuine, Other, SessionTypeOK
<1>9. ServerGraceHonoured' BY Zenon DEF ServerGraceHonoured
<1> QED BY Zenon, <1>1, <1>2, <1>3, <1>4, <1>5, <1>6, <1>7, <1>8, <1>9

(* The client's new session starts without the phase it leaves. *)
LEMMA ClientRekeyInv ==
  ASSUME SessionInv, NEW n \in Numbers, ClientRekey(n) PROVE SessionInv'
<1> USE SessionAssumption DEF SessionInv, ClientRekey, Delivered, Sides, Phases, Numbers
<1> DEFINE q == phase["client"] + 1
<1>0. /\ q \in Phases
      /\ phase' = [phase EXCEPT !["client"] = q] /\ phase'["client"] = q
      /\ phase'["server"] = phase["server"]
      /\ \A m \in Numbers : <<"server", q, m>> \notin opened
  <2>1. q \in Phases /\ phase["client"] \in Nat BY DEF SessionTypeOK
  <2>2. ASSUME NEW m \in Numbers PROVE <<"server", q, m>> \notin opened
    <3> HIDE DEF Phases, Numbers, ClientRekey
    <3> QED BY ZenonT(30), <2>1, OpenedNotAhead
  <2> QED BY Zenon, <2>1, <2>2 DEF SessionTypeOK
<1>1. SessionTypeOK' BY DEF SessionTypeOK, Packets
<1>2. PhaseOrder' BY DEF PhaseOrder, SessionTypeOK
<1>3. SealedBehind' BY DEF SealedBehind, SessionTypeOK
<1>4. OpenedExact'
  <2>1. /\ opened' = opened \cup {<<"server", q, n>>}
        /\ seen'["client"] = {n} /\ seen'["server"] = seen["server"] /\ prev' = prev
    BY Zenon DEF SessionTypeOK
  <2>2. ASSUME NEW m \in Numbers
        PROVE  /\ <<"server", q, m>> \in opened' <=> m \in seen'["client"]
               /\ ~prev'["client"].live
               /\ \A p \in Phases : <<"server", p, m>> \in opened' => p <= q
    <3>1. <<"server", q, m>> \in opened' <=> m \in seen'["client"] BY Zenon, <1>0, <2>1
    <3>2. ASSUME NEW p \in Phases, <<"server", p, m>> \in opened' PROVE p <= q
      <4>1. CASE <<"server", p, m>> \in opened
        <5> HIDE DEF Phases, Numbers, ClientRekey
        <5>1. p <= phase["client"] BY ZenonT(30), <4>1, OpenedBySide
        <5>2. p \in Int /\ phase["client"] \in Int BY DEF SessionTypeOK, Sides, Phases
        <5> QED BY <5>1, <5>2
      <4> QED BY <3>2, <4>1, <2>1
    <3> QED BY Zenon, <3>1, <3>2, <2>1 DEF PreviousKept
  <2>3. ASSUME NEW m \in Numbers
        PROVE  /\ <<"client", phase'["server"], m>> \in opened' <=> m \in seen'["server"]
               /\ prev'["server"].live =>
                    (<<"client", phase'["server"] - 1, m>> \in opened' <=> m \in prev'["server"].seen)
               /\ \A p \in Phases : <<"client", p, m>> \in opened' => p <= phase'["server"]
    BY Zenon, <1>0, <2>1 DEF OpenedExact, Other
  <2> HIDE DEF SessionInv, ClientRekey, Phases, Numbers, q
  <2> QED BY Zenon, <1>0, <2>2, <2>3 DEF OpenedExact, Other
<1>5. PreviousKept' BY Zenon DEF PreviousKept, SessionTypeOK
<1>6. DeliveredOnce' BY Zenon, <1>0 DEF DeliveredOnce
<1>7. NonceUnique' BY Zenon DEF NonceUnique
<1>8. WindowsGenuine' BY Zenon
   DEF WindowsGenuine, Genuine, Other, SessionTypeOK, PreviousKept, NoPrevious
<1>9. ServerGraceHonoured' BY Zenon DEF ServerGraceHonoured
<1> QED BY Zenon, <1>1, <1>2, <1>3, <1>4, <1>5, <1>6, <1>7, <1>8, <1>9

(* A step that changes nothing keeps it. *)
LEMMA StutterInv == SessionInv /\ UNCHANGED sessionVars => SessionInv'
<1> SUFFICES ASSUME SessionInv, UNCHANGED sessionVars PROVE SessionInv' BY Zenon
<1>1. SessionTypeOK' BY Zenon DEF SessionInv, sessionVars, SessionTypeOK
<1>2. PhaseOrder' /\ SealedBehind' BY Zenon DEF SessionInv, sessionVars, PhaseOrder, SealedBehind
<1>3. OpenedExact' BY Zenon DEF SessionInv, sessionVars, OpenedExact
<1>4. PreviousKept' /\ DeliveredOnce' /\ NonceUnique'
  BY Zenon DEF SessionInv, sessionVars, PreviousKept, DeliveredOnce, NonceUnique
<1>5. WindowsGenuine' /\ ServerGraceHonoured'
  BY Zenon DEF SessionInv, sessionVars, WindowsGenuine, ServerGraceHonoured, Genuine
<1> QED BY Zenon, <1>1, <1>2, <1>3, <1>4, <1>5 DEF SessionInv

(* The invariant is inductive: every step of every side preserves it. *)
THEOREM SessionInvariant == SessionSpec => []SessionInv
<1>1. SessionInv /\ [SessionNext]_sessionVars => SessionInv'
  <2> SUFFICES ASSUME SessionInv, [SessionNext]_sessionVars PROVE SessionInv'
    BY Zenon
  <2>1. ASSUME NEW x \in Sides, Seal(x) PROVE SessionInv' BY Zenon, <2>1, SealInv
  <2>2. ASSUME NEW x \in Sides, NEW n \in Numbers, OpenCurrent(x, n) PROVE SessionInv'
    BY Zenon, <2>2, OpenCurrentInv
  <2>3. ASSUME NEW x \in Sides, NEW n \in Numbers, OpenPrevious(x, n) PROVE SessionInv'
    BY Zenon, <2>3, OpenPreviousInv
  <2>4. ASSUME NEW x \in Sides, NEW n \in Numbers, RefusePrevious(x, n) PROVE SessionInv'
    BY Zenon, <2>4, RefusePreviousInv
  <2>5. ASSUME NEW x \in Sides, NEW n \in Numbers, OpenForged(x, n) PROVE SessionInv'
    BY Zenon, <2>5, StutterInv DEF OpenForged
  <2>6. ASSUME NEW x \in Sides, GraceExpires(x) PROVE SessionInv' BY Zenon, <2>6, GraceExpiresInv
  <2>7. CASE ServerRekey BY Zenon, <2>7, ServerRekeyInv
  <2>8. ASSUME NEW n \in Numbers, ClientRekey(n) PROVE SessionInv' BY Zenon, <2>8, ClientRekeyInv
  <2>9. ASSUME NEW x \in Sides, NEW n \in Numbers, RefuseReplay(x, n) PROVE SessionInv'
    BY Zenon, <2>9, StutterInv DEF RefuseReplay
  <2>10. CASE UNCHANGED sessionVars BY Zenon, <2>10, StutterInv
  <2> QED BY Zenon, <2>1, <2>2, <2>3, <2>4, <2>5, <2>6, <2>7, <2>8, <2>9, <2>10 DEF SessionNext
<1> QED BY InitInv, <1>1, PTL DEF SessionSpec

(* open delivers no packet twice, through any number of rekeys: the window of
   the current phase and the inherited window of the previous one together
   remember what was delivered. *)
THEOREM NeverDeliveredTwice == SessionSpec => []DeliveredOnce
BY SessionInvariant, PTL DEF SessionInv

(* seal never repeats a key phase and sequence number of a side. *)
THEOREM NoncesNeverRepeat == SessionSpec => []NonceUnique
BY SessionInvariant, PTL DEF SessionInv

(* The server opens what the client sealed before the rekey until the grace
   period ends. *)
THEOREM ServerHonoursGrace == SessionSpec => []ServerGraceHonoured
BY SessionInvariant, PTL DEF SessionInv

(* The windows hold authenticated numbers only. *)
THEOREM WindowsStayGenuine == SessionSpec => []WindowsGenuine
BY SessionInvariant, PTL DEF SessionInv

-----------------------------------------------------------------------------
(* The tunnels of the Android client.  Every step moves one thread at most. *)

(* A tunnel that has its descriptor; one whose data plane runs; one for which
   TUNNEL_CONNECTED may be set. *)
Held == {"detached", "spawned"} \cup Starting \cup InTunnel
Carrying == {"running"} \cup Rekeying
Shown == {"running", "returned", "failed"} \cup Rekeying

(* A thread holds its descriptor only in states of its own, and one whose
   data plane runs owns TUNNEL_RUNNING. *)
LEMMA ThreadStates ==
  /\ "ended" \notin Held /\ "ended" \notin Active
  /\ Carrying \subseteq Shown /\ Shown \subseteq Active /\ Active \subseteq Threads
  /\ Held \subseteq Threads
BY Zenon DEF Held, Carrying, Shown, Active, Threads, Starting, InTunnel, Establishing, Rekeying

(* The invariant, thread by thread. *)
LEMMA AndroidFacts ==
  ASSUME AndroidInv
  PROVE  /\ \A t, u \in Tunnels : thread[t] \in Active /\ thread[u] \in Active => t = u
         /\ running <=> \E t \in Tunnels : thread[t] \in Active
         /\ open \ leaked = {t \in Tunnels : thread[t] \in Held}
         /\ \A t \in leaked : thread[t] = "ended"
         /\ (\E t \in Tunnels : thread[t] \in Carrying) => connected
         /\ connected => \E t \in Tunnels : thread[t] \in Shown
         /\ thread \in [Tunnels -> Threads] /\ running \in BOOLEAN /\ connected \in BOOLEAN
         /\ open \subseteq Tunnels /\ leaked \subseteq Tunnels
BY Zenon DEF AndroidInv, AndroidTypeOK, TunnelExact, TunnelAlone, ConnectedExact, Held, Carrying, Shown

(* A thread that moves takes the flags and its descriptor with it. *)
LEMMA ThreadMoves ==
  ASSUME AndroidInv, NEW t \in Tunnels, NEW x \in Threads,
         thread' = [thread EXCEPT ![t] = x], thread[t] # "ended",
         \/ thread[t] \in Active /\ x \in Active /\ running' = running
         \/ thread[t] \in Active /\ x \notin Active /\ running' = FALSE
         \/ thread[t] \notin Active /\ x \notin Active /\ running' = running
         \/ ~running /\ x \in Active /\ running' = TRUE,
         \/ x \in Held /\ open' = open \cup {t} /\ leaked' = leaked
         \/ x \notin Held /\ open' = open \ {t} /\ leaked' = leaked
         \/ (x \in Held <=> thread[t] \in Held) /\ open' = open /\ leaked' = leaked
         \/ x = "ended" /\ open' = open /\ leaked' = leaked \cup {t},
         \/ connected' = FALSE /\ x \notin Carrying /\ (thread[t] \in Active \/ ~running)
         \/ connected' = TRUE /\ x \in Carrying
         \/ /\ connected' = connected
            /\ thread[t] \in Shown => x \in Shown
            /\ x \in Carrying => thread[t] \in Carrying
  PROVE  TunnelExact' /\ \A u \in leaked' : thread'[u] = "ended"
<1>1. /\ thread'[t] = x /\ \A u \in Tunnels \ {t} : thread'[u] = thread[u]
      /\ t \notin leaked
  BY Zenon, AndroidFacts
<1>2. \A v, u \in Tunnels : thread'[v] \in Active /\ thread'[u] \in Active => v = u
  BY Zenon, <1>1, AndroidFacts
<1>3. running' <=> \E u \in Tunnels : thread'[u] \in Active
  BY <1>1, AndroidFacts
<1>4. open' \ leaked' = {u \in Tunnels : thread'[u] \in Held}
  BY <1>1, AndroidFacts, ThreadStates
<1>5. \A u \in leaked' : thread'[u] = "ended"
  BY Zenon, <1>1, AndroidFacts
<1>6. (\E u \in Tunnels : thread'[u] \in Carrying) => connected'
  BY <1>1, AndroidFacts, ThreadStates
<1>7. connected' => \E u \in Tunnels : thread'[u] \in Shown
  BY ZenonT(30), <1>1, AndroidFacts, ThreadStates
<1>8. TunnelAlone' BY Zenon, <1>2, <1>3, <1>4 DEF TunnelAlone, Held
<1>9. ConnectedExact' BY Zenon, <1>6, <1>7 DEF ConnectedExact, Carrying, Shown
<1> QED BY Zenon, <1>5, <1>8, <1>9 DEF TunnelExact

(* The statics and the service move without a thread. *)
LEMMA ThreadsStay ==
  ASSUME AndroidInv, UNCHANGED <<running, connected, thread, open, leaked>>
  PROVE  TunnelExact' /\ \A u \in leaked' : thread'[u] = "ended"
BY Zenon DEF AndroidInv, TunnelExact, TunnelAlone, ConnectedExact

(* startVpn gets a descriptor, and startTunnel takes the statics. *)
LEMMA TunnelStarts ==
  ASSUME AndroidInv,
         Connect \/ \E t \in Tunnels : Start(t) \/ Fail(t)
  PROVE  TunnelExact' /\ \A u \in leaked' : thread'[u] = "ended"
<1> USE DEF statics, service, tunnels, Becomes
<1>1. CASE Connect
  <2>1. CASE UNCHANGED <<thread, open>> BY Zenon, <1>1, <2>1, ThreadsStay DEF Connect
  <2>2. CASE ~UNCHANGED <<thread, open>>
    <3>1. PICK t \in Tunnels : /\ thread[t] = "unused" /\ Becomes(t, "detached")
                               /\ open' = open \cup {t}
      BY Zenon, <1>1, <2>2 DEF Connect
    <3>2. UNCHANGED <<running, connected, leaked>> BY Zenon, <1>1 DEF Connect
    <3>3. /\ "detached" \in Threads /\ "detached" \in Held /\ "unused" \notin Active
          /\ "detached" \notin Active /\ "detached" \notin Carrying /\ "unused" \notin Shown
      BY Zenon DEF Threads, Held, Active, Carrying, Shown, Starting, InTunnel, Establishing, Rekeying
    <3> QED BY ZenonT(30), <3>1, <3>2, <3>3, ThreadMoves
  <2> QED BY Zenon, <2>1, <2>2
<1>2. ASSUME NEW t \in Tunnels, Swap(t)
      PROVE  TunnelExact' /\ \A u \in leaked' : thread'[u] = "ended"
  <2>1. /\ {"detached", "swapped"} \subseteq Held /\ {"detached", "ended"} \cap Active = {}
        /\ {"detached", "ended", "swapped"} \cap Shown = {} /\ "swapped" \in Active
        /\ {"ended", "swapped"} \subseteq Threads /\ "ended" \notin Held
        /\ Carrying \subseteq Shown
    BY Zenon DEF Threads, Held, Active, Carrying, Shown, Starting, InTunnel, Establishing, Rekeying
  <2>2. thread[t] = "detached" /\ running' = TRUE /\ leaked' = leaked BY Zenon, <1>2 DEF Swap
  <2>3. CASE running
    <3>1. Becomes(t, "ended") /\ open' = open \ {t} /\ connected' = connected
      BY Zenon, <1>2, <2>3 DEF Swap
    <3>2. running = TRUE BY Zenon, <2>3, AndroidFacts
    <3> QED BY ZenonT(30), <2>1, <2>2, <3>1, <3>2, ThreadMoves
  <2>4. CASE ~running
    <3>1. Becomes(t, "swapped") /\ open' = open /\ connected' = FALSE BY Zenon, <1>2, <2>4 DEF Swap
    <3> QED BY ZenonT(30), <2>1, <2>2, <2>4, <3>1, ThreadMoves
  <2> QED BY Zenon, <2>3, <2>4
<1>3. ASSUME NEW t \in Tunnels, StoreSender(t) \/ StoreStats(t) \/ Spawn(t)
      PROVE  TunnelExact' /\ \A u \in leaked' : thread'[u] = "ended"
  <2>1. PICK x \in {"channelled", "counted", "spawned"} :
          /\ Becomes(t, x) /\ thread[t] \in {"swapped", "channelled", "counted"}
          /\ UNCHANGED <<running, connected, open, leaked>>
    BY Zenon, <1>3 DEF StoreSender, StoreStats, Spawn
  <2>2. /\ {"swapped", "channelled", "counted", "spawned"} \subseteq Held
        /\ {"swapped", "channelled", "counted", "spawned"} \subseteq Active
        /\ {"swapped", "channelled", "counted", "spawned"} \subseteq Threads
        /\ {"swapped", "channelled", "counted", "spawned"} \cap Shown = {}
        /\ Carrying \subseteq Shown
    BY Zenon DEF Threads, Held, Active, Carrying, Shown, Starting, InTunnel, Establishing, Rekeying
  <2> QED BY ZenonT(30), <2>1, <2>2, ThreadMoves
<1>4. ASSUME NEW t \in Tunnels, Launch(t)
      PROVE  TunnelExact' /\ \A u \in leaked' : thread'[u] = "ended"
  BY Zenon, <1>4, ThreadsStay DEF Launch
<1>5. ASSUME NEW t \in Tunnels, Fail(t)
      PROVE  TunnelExact' /\ \A u \in leaked' : thread'[u] = "ended"
  <2>1. /\ Becomes(t, "ended") /\ thread[t] \in {"swapped", "counted"}
        /\ running' = FALSE /\ connected' = FALSE /\ open' = open \ {t} /\ leaked' = leaked
    BY Zenon, <1>5 DEF Fail
  <2>2. {"swapped", "counted"} \subseteq Active /\ "ended" \in Threads BY Zenon DEF Active, Threads, Starting
  <2> QED BY ZenonT(30), <2>1, <2>2, ThreadMoves, ThreadStates
<1> QED BY Zenon, <1>1, <1>2, <1>3, <1>4, <1>5 DEF Start

(* A thread runs its tunnel. *)
LEMMA TunnelRuns ==
  ASSUME AndroidInv, NEW t \in Tunnels,
         \/ Runs(t) \/ Opened(t) \/ Responded(t) \/ Finished(t) \/ Refinished(t) \/ Rekey(t)
         \/ SeesShutdown(t) \/ TimesOut(t) \/ Breaks(t)
  PROVE  TunnelExact' /\ \A u \in leaked' : thread'[u] = "ended"
<1>1. /\ {"spawned"} \cup InTunnel \subseteq Held /\ {"failed", "returned"} \cap Held = {}
      /\ {"spawned", "failed", "returned"} \cup InTunnel \subseteq Active
      /\ InTunnel \cap Shown = Carrying /\ {"failed", "returned"} \subseteq Shown
      /\ "spawned" \notin Shown /\ {"failed", "returned"} \cap Carrying = {}
      /\ Carrying = {"running", "rekeying", "refinishing"}
      /\ InTunnel = Carrying \cup {"opening", "handshaking", "finishing"}
  BY Zenon DEF Held, Active, Carrying, Shown, Starting, InTunnel, Establishing, Rekeying
<1>2. \A x \in InTunnel : x # "ended" BY Zenon, <1>1
<1> USE DEF Becomes, statics
<1>3. CASE \/ \E x \in {"failed", "returned"} : thread[t] \in InTunnel /\ Return(t, x)
  <2>1. PICK x \in {"failed", "returned"} : /\ thread[t] \in InTunnel /\ Becomes(t, x)
                                            /\ open' = open \ {t}
                                            /\ UNCHANGED <<running, connected, leaked>>
    BY Zenon, <1>3 DEF Return
  <2> QED BY ZenonT(30), <1>1, <1>2, <2>1, ThreadMoves, ThreadStates
<1>4. CASE \E y \in {"spawned"} \cup InTunnel, x \in InTunnel :
             Proceed(t, y, x) /\ (x \in Carrying <=> y \in Carrying)
  <2>1. PICK y \in {"spawned"} \cup InTunnel, x \in InTunnel :
          /\ thread[t] = y /\ Becomes(t, x) /\ (x \in Carrying <=> y \in Carrying)
          /\ UNCHANGED <<running, connected, open, leaked>>
    BY ZenonT(30), <1>4 DEF Proceed
  <2>2. y # "ended" BY Zenon, <1>2, <2>1
  <2>3. y \in Shown => x \in Shown BY Zenon, <1>1, <2>1
  <2> QED BY ZenonT(30), <1>1, <2>1, <2>2, <2>3, ThreadMoves, ThreadStates
<1>5. CASE Finished(t)
  <2>1. /\ thread[t] = "finishing" /\ Becomes(t, "running") /\ connected' = TRUE
        /\ UNCHANGED <<running, open, leaked>>
    BY Zenon, <1>5 DEF Finished
  <2> QED BY ZenonT(30), <1>1, <2>1, ThreadMoves, ThreadStates
<1>6. CASE Runs(t) BY <1>1, <1>4, <1>6 DEF Runs, Proceed
<1>7. CASE Opened(t) \/ Responded(t) \/ Refinished(t) BY <1>1, <1>4, <1>7 DEF Opened, Responded, Refinished
<1>8. CASE Rekey(t) BY ZenonT(30), <1>1, <1>3, <1>4, <1>8 DEF Rekey
<1>9. CASE SeesShutdown(t) \/ TimesOut(t) \/ Breaks(t)
  BY ZenonT(30), <1>1, <1>3, <1>9 DEF SeesShutdown, TimesOut, Breaks
<1> QED BY Zenon, <1>5, <1>6, <1>7, <1>8, <1>9

(* A thread ends, one static after the other. *)
LEMMA TunnelEnds ==
  ASSUME AndroidInv, NEW t \in Tunnels,
         \/ RuntimeFails(t) \/ ReportsError(t) \/ ClearConnected(t) \/ ClearRunning(t)
         \/ DropSender(t) \/ DropStats(t)
  PROVE  TunnelExact' /\ \A u \in leaked' : thread'[u] = "ended"
<1>1. /\ {"spawned", "failed", "returned", "quiet"} \subseteq Active
      /\ {"idle", "forgotten", "ended"} \cap Active = {}
      /\ {"failed", "returned", "quiet", "idle", "forgotten", "ended"} \cap Held = {}
      /\ {"spawned", "quiet", "idle", "forgotten", "ended"} \cap Shown = {}
      /\ "returned" \notin Carrying /\ Carrying \subseteq Shown
      /\ {"returned", "quiet", "idle", "forgotten", "ended"} \subseteq Threads
  BY Zenon DEF Threads, Held, Active, Carrying, Shown, Starting, InTunnel, Establishing, Rekeying
<1> USE DEF Becomes
<1>2. CASE RuntimeFails(t)
  <2>1. /\ thread[t] = "spawned" /\ Becomes(t, "ended") /\ running' = FALSE
        /\ leaked' = leaked \cup {t} /\ UNCHANGED <<connected, open>>
    BY Zenon, <1>2 DEF RuntimeFails
  <2> QED BY ZenonT(30), <1>1, <2>1, ThreadMoves
<1>3. CASE ReportsError(t)
  <2>1. /\ thread[t] = "failed" /\ Becomes(t, "returned") /\ connected' = FALSE
        /\ UNCHANGED <<running, open, leaked>>
    BY Zenon, <1>3 DEF ReportsError
  <2> QED BY ZenonT(30), <1>1, <2>1, ThreadMoves
<1>4. CASE ClearConnected(t)
  <2>1. /\ thread[t] = "returned" /\ Becomes(t, "quiet") /\ connected' = FALSE
        /\ UNCHANGED <<running, open, leaked>>
    BY Zenon, <1>4 DEF ClearConnected
  <2> QED BY ZenonT(30), <1>1, <2>1, ThreadMoves
<1>5. CASE ClearRunning(t)
  <2>1. /\ thread[t] = "quiet" /\ Becomes(t, "idle") /\ running' = FALSE
        /\ UNCHANGED <<connected, open, leaked>>
    BY Zenon, <1>5 DEF ClearRunning
  <2> QED BY ZenonT(30), <1>1, <2>1, ThreadMoves
<1>6. CASE DropSender(t) \/ DropStats(t)
  <2>1. PICK x \in {"forgotten", "ended"} :
          /\ thread[t] \in {"idle", "forgotten"} /\ Becomes(t, x)
          /\ UNCHANGED <<running, connected, open, leaked>>
    BY Zenon, <1>6 DEF DropSender, DropStats
  <2> QED BY ZenonT(30), <1>1, <2>1, ThreadMoves
<1> QED BY Zenon, <1>2, <1>3, <1>4, <1>5, <1>6

(* The calls of the service, and the monitors. *)
LEMMA ServiceExact ==
  ASSUME AndroidInv,
         \/ Disconnect \/ Destroy \/ Revoke
         \/ \E c \in Calls : StopTunnel(c) \/ Stopped(c)
         \/ \E t \in Tunnels : Monitor(t)
         \/ UNCHANGED androidVars
  PROVE  TunnelExact' /\ \A u \in leaked' : thread'[u] = "ended"
<1>1. UNCHANGED <<running, connected, thread, open, leaked>>
  <2> USE DEF statics, tunnels
  <2>1. CASE Disconnect \/ Destroy \/ Revoke BY Zenon, <2>1 DEF Disconnect, Destroy, Revoke, StopVpn
  <2>2. CASE \E c \in Calls : StopTunnel(c) \/ Stopped(c) BY Zenon, <2>2 DEF StopTunnel, Stopped
  <2>3. CASE \E t \in Tunnels : Monitor(t)
    BY Zenon, <2>3 DEF Monitor, AsksConnected, TellsConnected, Looks, TellsStopped, Watches
  <2>4. CASE UNCHANGED androidVars BY Zenon, <2>4 DEF androidVars
  <2> QED BY Zenon, <2>1, <2>2, <2>3, <2>4
<1> QED BY Zenon, <1>1, ThreadsStay

(* Every step keeps the types: startVpn and stopVpn. *)
LEMMA ServiceTyped ==
  ASSUME AndroidTypeOK,
         \/ Connect \/ Disconnect \/ Destroy \/ Revoke
         \/ \E c \in Calls : StopTunnel(c) \/ Stopped(c)
         \/ \E t \in Tunnels : Monitor(t) \/ Launch(t)
         \/ UNCHANGED androidVars
  PROVE  AndroidTypeOK'
<1> USE DEF AndroidTypeOK, statics, tunnels, service, At, Becomes
<1>1. CASE Connect
  <2>1. dying' \in {TRUE, dying} BY ZenonT(30), <1>1 DEF Connect
  <2>2. open' \subseteq Tunnels /\ call' \in [Calls -> {"no", "starting", "launching", "send", "clear"}]
    BY <1>1 DEF Connect, Calls
  <2>3. thread' \in [Tunnels -> Threads] BY <1>1 DEF Connect, Threads
  <2>4. UNCHANGED <<statics, channel, leaked, isConnected, monitor, cancelled>> BY Zenon, <1>1 DEF Connect
  <2> QED BY ZenonT(30), <2>1, <2>2, <2>3, <2>4
<1>2. CASE Disconnect \/ Destroy \/ Revoke BY ZenonT(30), <1>2 DEF Disconnect, Destroy, Revoke, StopVpn
<1>3. CASE \E c \in Calls : StopTunnel(c)
  <2>1. PICK c \in Calls : StopTunnel(c) BY Zenon, <1>3
  <2>2. shutdownTx = None \/ shutdownTx \in Tunnels BY Zenon
  <2> QED BY Zenon, <2>1, <2>2 DEF StopTunnel
<1>4. CASE \E c \in Calls : Stopped(c) BY ZenonT(30), <1>4 DEF Stopped
<1>5. CASE \E t \in Tunnels : Monitor(t)
  <2>1. PICK t \in Tunnels : Monitor(t) BY Zenon, <1>5
  <2>2. \E x \in {"off", "ask", "tell", "look", "clear"} : monitor' = [monitor EXCEPT ![t] = x]
    BY Zenon, <2>1 DEF Monitor, AsksConnected, TellsConnected, Looks, TellsStopped, Watches
  <2>3. monitor' \in [Tunnels -> {"off", "ask", "tell", "look", "clear"}] BY Zenon, <2>2
  <2>4. UNCHANGED <<statics, tunnels, call, cancelled>>
    BY Zenon, <2>1 DEF Monitor, AsksConnected, TellsConnected, Looks, TellsStopped, Watches
  <2>5. isConnected' \in {TRUE, FALSE, isConnected} /\ dying' \in {TRUE, dying}
    BY ZenonT(30), <2>1 DEF Monitor, AsksConnected, TellsConnected, Looks, TellsStopped
  <2> QED BY ZenonT(30), <2>3, <2>4, <2>5
<1>6. CASE \E t \in Tunnels : Launch(t)
  <2>1. monitor' \in [Tunnels -> {"off", "ask", "tell", "look", "clear"}] BY Zenon, <1>6 DEF Launch
  <2>2. call' \in [Calls -> {"no", "starting", "launching", "send", "clear"}]
    BY <1>6 DEF Launch, Calls
  <2>3. UNCHANGED <<statics, tunnels, dying>> /\ isConnected' = FALSE /\ cancelled' \subseteq Tunnels
    BY Zenon, <1>6 DEF Launch
  <2> QED BY ZenonT(30), <2>1, <2>2, <2>3
<1>7. CASE UNCHANGED androidVars BY Zenon, <1>7 DEF androidVars
<1> QED BY Zenon, <1>1, <1>2, <1>3, <1>4, <1>5, <1>6, <1>7

(* A sender that is dropped leaves a channel of the three states. *)
LEMMA DroppedTyped ==
  ASSUME AndroidTypeOK, NEW t
  PROVE  Dropped(t) \in [Tunnels -> {"open", "stop", "closed"}]
BY Zenon DEF AndroidTypeOK, Dropped

(* Every step keeps the types: the threads. *)
LEMMA ThreadTyped ==
  ASSUME AndroidTypeOK, NEW t \in Tunnels,
         \/ Swap(t) \/ StoreSender(t) \/ StoreStats(t) \/ Spawn(t) \/ Fail(t)
         \/ Thread(t) \/ RuntimeFails(t) \/ Responded(t) \/ Rekey(t)
         \/ SeesShutdown(t) \/ Breaks(t)
  PROVE  AndroidTypeOK'
<1> USE DEF AndroidTypeOK, statics, service, At, Becomes
<1>1. /\ Starting \subseteq Threads /\ InTunnel \subseteq Threads
      /\ {"ended", "spawned", "failed", "returned", "quiet", "idle", "forgotten"} \subseteq Threads
      /\ {"swapped", "channelled", "counted"} = Starting
      /\ {"opening", "handshaking", "finishing", "running", "rekeying", "refinishing"} = InTunnel
  BY Zenon DEF Threads, Active, Starting, InTunnel, Establishing, Rekeying
<1>2. CASE Swap(t)
  <2>1. CASE running BY ZenonT(30), <1>1, <1>2, <2>1 DEF Swap, Refused, Calls
  <2>2. CASE ~running BY ZenonT(30), <1>1, <1>2, <2>2 DEF Swap
  <2> QED BY Zenon, <2>1, <2>2
<1>3. CASE StoreSender(t) BY Zenon, <1>1, <1>3, DroppedTyped DEF StoreSender
<1>4. CASE StoreStats(t) \/ Spawn(t) BY <1>1, <1>4 DEF StoreStats, Spawn, Calls
<1>5. CASE Fail(t) BY ZenonT(30), <1>1, <1>5 DEF Fail, Refused, Calls
<1>6. CASE \E x \in {"failed", "returned"} : Return(t, x) BY <1>1, <1>6 DEF Return
<1>7. CASE \E y, x \in InTunnel : Proceed(t, y, x) BY <1>1, <1>7 DEF Proceed
<1>8. CASE Runs(t) \/ Finished(t) \/ RuntimeFails(t)
  <2>1. CASE Runs(t) BY Zenon, <1>1, <2>1 DEF Runs
  <2>2. CASE Finished(t) BY ZenonT(30), <1>1, <2>2 DEF Finished
  <2>3. CASE RuntimeFails(t) BY ZenonT(30), <1>1, <2>3 DEF RuntimeFails
  <2> QED BY Zenon, <1>8, <2>1, <2>2, <2>3
<1>9. CASE Opened(t) \/ Responded(t) \/ Refinished(t)
  BY Zenon, <1>1, <1>7, <1>9 DEF Opened, Responded, Refinished
<1>10. CASE Rekey(t) \/ SeesShutdown(t) \/ TimesOut(t) \/ Breaks(t)
  <2>1. (\E x \in {"failed", "returned"} : Return(t, x)) \/ Proceed(t, "running", "rekeying")
    BY Zenon, <1>10 DEF Rekey, SeesShutdown, TimesOut, Breaks
  <2> QED BY Zenon, <1>1, <1>6, <1>7, <2>1
<1>11. CASE ReportsError(t) \/ ClearConnected(t) \/ ClearRunning(t)
  <2>1. CASE ReportsError(t) BY ZenonT(30), <1>1, <2>1 DEF ReportsError
  <2>2. CASE ClearConnected(t) BY ZenonT(30), <1>1, <2>2 DEF ClearConnected
  <2>3. CASE ClearRunning(t) BY ZenonT(30), <1>1, <2>3 DEF ClearRunning
  <2> QED BY Zenon, <1>11, <2>1, <2>2, <2>3
<1>12. CASE DropSender(t) BY Zenon, <1>1, <1>12, DroppedTyped DEF DropSender
<1>13. CASE DropStats(t) BY Zenon, <1>1, <1>13 DEF DropStats
<1> QED BY ZenonT(30), <1>2, <1>3, <1>4, <1>5, <1>8, <1>9, <1>10, <1>11, <1>12, <1>13 DEF Thread

(* The inductive invariant of the Android client, for any number of tunnels. *)
THEOREM AndroidInvariant == AndroidSpec => []AndroidInv
<1>1. AndroidInit => AndroidInv
  <2> SUFFICES ASSUME AndroidInit PROVE AndroidInv BY Zenon
  <2>1. AndroidTypeOK BY ZenonT(30) DEF AndroidInit, AndroidTypeOK, Threads, Calls
  <2>2. "unused" \notin Active /\ "unused" \notin Held
    BY Zenon DEF Active, Held, Starting, InTunnel, Establishing, Rekeying
  <2>3. TunnelAlone BY Zenon, <2>2 DEF AndroidInit, TunnelAlone, Held
  <2>4. ConnectedExact BY Zenon DEF AndroidInit, ConnectedExact, Rekeying
  <2> QED BY Zenon, <2>1, <2>3, <2>4 DEF AndroidInv, TunnelExact, AndroidInit
<1>2. AndroidInv /\ [AndroidNext]_androidVars => AndroidInv'
  <2> SUFFICES ASSUME AndroidInv, AndroidNext \/ UNCHANGED androidVars PROVE AndroidInv' BY Zenon
  <2>1. AndroidTypeOK BY Zenon DEF AndroidInv
  <2>2. AndroidTypeOK' BY Zenon, <2>1, ServiceTyped, ThreadTyped DEF AndroidNext, Start
  <2>3. TunnelExact' /\ \A u \in leaked' : thread'[u] = "ended"
    BY Zenon, TunnelStarts, TunnelRuns, TunnelEnds, ServiceExact DEF AndroidNext, Thread
  <2> QED BY Zenon, <2>2, <2>3 DEF AndroidInv
<1> QED BY <1>1, <1>2, PTL DEF AndroidSpec

(* TUNNEL_RUNNING and TUNNEL_CONNECTED say what is so, and the descriptors that
   are open are those of the tunnels. *)
THEOREM TunnelsExact == AndroidSpec => []TunnelExact
<1>1. AndroidInv => TunnelExact BY Zenon DEF AndroidInv
<1> QED BY <1>1, AndroidInvariant, PTL

-----------------------------------------------------------------------------
(* Remainders: the ring indexes its bits by sequence % WINDOW. *)

(* A positive multiple of w is at least w. *)
LEMMA MulMonotone ==
  ASSUME NEW w \in Nat \ {0}, NEW k \in Int, k >= 1
  PROVE  k * w >= w
  BY SMT

(* Division with remainder: quotient and remainder rebuild the number. *)
LEMMA DivMod ==
  ASSUME NEW w \in Nat \ {0}, NEW x \in Int
  PROVE  /\ x = (x \div w) * w + (x % w)
         /\ x \div w \in Int
         /\ x % w \in 0..(w - 1)
  BY SMT

(* The remainder is the only r in 0..w-1 that rebuilds the number. *)
LEMMA ModUnique ==
  ASSUME NEW w \in Nat \ {0}, NEW x \in Int, NEW q \in Int,
         NEW r \in 0..(w - 1), x = q * w + r
  PROVE  x % w = r
  BY SMT

(* Two numbers less than w apart never share a ring slot. *)
LEMMA ModInjective ==
  ASSUME NEW w \in Nat \ {0}, NEW a \in Int, NEW b \in Int,
         a % w = b % w, a <= b, b - a < w
  PROVE  a = b
<1> DEFINE k == (b \div w) - (a \div w)
<1>1. /\ k \in Int
      /\ b - a = k * w
  <2>1. /\ a = (a \div w) * w + (a % w) /\ a \div w \in Int /\ a % w \in Int
        /\ b = (b \div w) * w + (b % w) /\ b \div w \in Int
    BY DivMod
  <2> QED  BY <2>1
<1>2. k < 1
  <2>1. SUFFICES ASSUME k >= 1 PROVE FALSE
    BY <1>1
  <2>2. k * w >= w
    BY Zenon, <2>1, <1>1, MulMonotone
  <2> QED  BY <2>2, <1>1
<1>3. k > -1
  <2>1. SUFFICES ASSUME -k >= 1 PROVE FALSE
    BY <1>1
  <2>2. (-k) * w >= w
    BY <2>1, <1>1, MulMonotone
  <2>3. (-k) * w = a - b
    BY <1>1
  <2> QED  BY <2>2, <2>3
<1>4. k = 0
  BY <1>1, <1>2, <1>3
<1> QED  BY <1>1, <1>4

(* Below the end of the ring, moving i numbers on moves i slots on. *)
LEMMA ModAdvance ==
  ASSUME NEW w \in Nat \ {0}, NEW x \in Int, NEW i \in Nat, (x % w) + i < w
  PROVE  (x + i) % w = (x % w) + i
<1>1. /\ x = (x \div w) * w + (x % w) /\ x \div w \in Int /\ x % w \in 0..(w - 1)
  BY Zenon, DivMod
<1>2. x + i = (x \div w) * w + ((x % w) + i) /\ (x % w) + i \in 0..(w - 1)
  BY <1>1
<1> QED  BY <1>1, <1>2, ModUnique

(* Reaching the end of the ring wraps to slot 0. *)
LEMMA ModWrap ==
  ASSUME NEW w \in Nat \ {0}, NEW x \in Int, NEW i \in Nat, (x % w) + i = w
  PROVE  (x + i) % w = 0
<1>1. /\ x = (x \div w) * w + (x % w) /\ x \div w \in Int /\ x % w \in 0..(w - 1)
  BY Zenon, DivMod
<1> DEFINE q == (x \div w) + 1
<1>2. q \in Int /\ x + i \in Int /\ 0 \in 0..(w - 1) /\ x + i = q * w + 0
  BY <1>1
<1> HIDE DEF q
<1> QED  BY ZenonT(30), <1>2, ModUnique

-----------------------------------------------------------------------------
(* The ring of words. *)

(* The bitmap has at least one slot. *)
LEMMA WindowPositive == WINDOW \in Nat \ {0}
  BY WordsAssumption, BitsAssumption DEF WINDOW

(* The slot of a bit lies in the ring. *)
LEMMA SlotOfBit ==
  ASSUME NEW w \in 0..(WORDS - 1), NEW b \in 0..(BITS - 1)
  PROVE  w * BITS + b \in Slots
<1>1. w * BITS \in Nat
  BY BitsAssumption
<1>2. (WORDS - w) * BITS >= BITS
  BY MulMonotone, WordsAssumption, BitsAssumption
<1>3. (WORDS - w) * BITS = WORDS * BITS - w * BITS
  BY WordsAssumption, BitsAssumption
<1> HIDE DEF Slots
<1>4. w * BITS + BITS <= WORDS * BITS
  BY <1>1, <1>2, <1>3, WordsAssumption, BitsAssumption
<1> QED
  BY <1>1, <1>4, WordsAssumption, BitsAssumption DEF Slots, WINDOW

(* The first number to clear has its slot at the word and the bit where
   clear_range starts. *)
LEMMA StartExact ==
  ASSUME NEW h \in Nat
  PROVE  LET start == (h + 1) % WINDOW
         IN  /\ start = (start \div BITS) * BITS + (start % BITS)
             /\ start \div BITS \in 0..(WORDS - 1) /\ start % BITS \in 0..(BITS - 1)
<1> USE WordsAssumption, BitsAssumption, WindowPositive
<1> DEFINE start == (h + 1) % WINDOW
<1>0. h + 1 \in Int
  OBVIOUS
<1>1. start \in 0..(WINDOW - 1) /\ start \in Int
  BY <1>0, DivMod
<1>2. /\ start = (start \div BITS) * BITS + (start % BITS)
      /\ start \div BITS \in Int /\ start % BITS \in 0..(BITS - 1)
  BY Zenon, <1>1, DivMod
<1>3. start \div BITS \in 0..(WORDS - 1)
  <2> DEFINE q == start \div BITS
  <2>1. q >= 0
    <3>1. SUFFICES ASSUME -q >= 1 PROVE FALSE
      BY <1>2
    <3>2. -q \in Int /\ (-q) * BITS = -(q * BITS)
      BY <1>2
    <3>3. (-q) * BITS >= BITS
      <4> HIDE DEF q
      <4> QED  BY Zenon, <3>1, <3>2, MulMonotone
    <3> QED  BY <3>2, <3>3, <1>1, <1>2
  <2>2. q <= WORDS - 1
    <3>1. SUFFICES ASSUME q - WORDS + 1 >= 1 PROVE FALSE
      BY <1>2
    <3>2. (q - WORDS + 1) * BITS >= BITS
      BY <3>1, <1>2, MulMonotone
    <3>3. (q - WORDS + 1) * BITS = q * BITS - WORDS * BITS + BITS
      BY <1>2
    <3> HIDE DEF q
    <3>4. q * BITS \in Int /\ WORDS * BITS \in Int
      BY <1>2 DEF q
    <3>5. q * BITS >= WORDS * BITS
      BY <3>2, <3>3, <3>4
    <3> QED  BY <3>4, <3>5, <1>1, <1>2 DEF q, WINDOW
  <2> QED  BY <2>1, <2>2, <1>2
<1> QED  BY Zenon, <1>2, <1>3

(* Inside clear_range the arguments and the locals are what they stand for. *)
LEMMA LoopFacts ==
  ASSUME RingInv, remaining > 0
  PROVE  /\ ~Idle /\ highest \in Nat /\ shift \in 1..(WINDOW - 1)
         /\ remaining \in 1..shift /\ cleared \in Nat /\ sequence \in Nat
  BY MaxSeqAssumption, WindowPositive
     DEF RingInv, RingTypeOK, LoopTyped, Idle, shift, cleared, SeqNumbers, NoSequence

(* The slots one turn masks are those of the next bits_here numbers. *)
LEMMA MaskExact ==
  ASSUME RingInv, remaining > 0
  PROVE  /\ bits_here \in 1..remaining
         /\ bit_offset + bits_here <= BITS
         /\ RangeSlots(highest, cleared + bits_here) = RangeSlots(highest, cleared) \cup MaskSlots
<1> USE MaxSeqAssumption, WordsAssumption, BitsAssumption, WindowPositive
<1>1. bits_here \in 1..remaining /\ bit_offset + bits_here <= BITS
  BY LoopFacts DEF RingInv, RingTypeOK, bits_here, Least
<1> DEFINE base == word * BITS + bit_offset
           x == highest + 1 + cleared
<1>2. /\ cleared \in Nat /\ x \in Int /\ base = x % WINDOW /\ base \in Int
      /\ word * BITS \in Int /\ bit_offset \in Int
  BY LoopFacts DEF RingInv, RingTypeOK, CursorExact
<1>3. ASSUME NEW i \in 0..(bits_here - 1)
      PROVE  (x + i) % WINDOW = base + i
  <2>1. bit_offset + i \in 0..(BITS - 1)
    BY <1>1 DEF RingInv, RingTypeOK
  <2>2. word * BITS + (bit_offset + i) \in Slots
    BY Zenon, <2>1, SlotOfBit DEF RingInv, RingTypeOK
  <2>3. (x % WINDOW) + i < WINDOW
    BY <2>2, <1>2 DEF Slots
  <2> HIDE DEF x, base
  <2>4. i \in Nat
    BY <1>1
  <2> QED  BY ZenonT(30), <2>3, <2>4, <1>2, ModAdvance
<1> HIDE DEF x, base
<1>4. RangeSlots(highest, cleared + bits_here)
        = RangeSlots(highest, cleared) \cup {(x + i) % WINDOW : i \in 0..(bits_here - 1)}
  <2>1. ASSUME NEW i \in 1..(cleared + bits_here)
        PROVE  \/ i \in 1..cleared
               \/ (i - cleared - 1 \in 0..(bits_here - 1)
                     /\ highest + i = x + (i - cleared - 1))
    BY <1>1, <1>2, LoopFacts DEF x
  <2>2. ASSUME NEW i \in 0..(bits_here - 1)
        PROVE  i + cleared + 1 \in 1..(cleared + bits_here)
               /\ highest + (i + cleared + 1) = x + i
    BY <1>1, <1>2, LoopFacts DEF x
  <2>3. 1..cleared \subseteq 1..(cleared + bits_here)
    BY <1>1, <1>2
  <2> HIDE DEF x
  <2>4. RangeSlots(highest, cleared + bits_here)
          \subseteq RangeSlots(highest, cleared) \cup {(x + i) % WINDOW : i \in 0..(bits_here - 1)}
    <3> SUFFICES ASSUME NEW i \in 1..(cleared + bits_here)
                 PROVE  (highest + i) % WINDOW \in
                   RangeSlots(highest, cleared) \cup {(x + j) % WINDOW : j \in 0..(bits_here - 1)}
      BY Zenon DEF RangeSlots, Slot
    <3> QED  BY Zenon, <2>1 DEF RangeSlots, Slot
  <2>5. {(x + i) % WINDOW : i \in 0..(bits_here - 1)} \subseteq RangeSlots(highest, cleared + bits_here)
    BY Zenon, <2>2 DEF RangeSlots, Slot
  <2>6. RangeSlots(highest, cleared) \subseteq RangeSlots(highest, cleared + bits_here)
    BY Zenon, <2>3 DEF RangeSlots, Slot
  <2> QED  BY Zenon, <2>4, <2>5, <2>6
<1>5. {(x + i) % WINDOW : i \in 0..(bits_here - 1)} = MaskSlots
  <2>1. ASSUME NEW b \in bit_offset..(bit_offset + bits_here - 1)
        PROVE  b - bit_offset \in 0..(bits_here - 1) /\ word * BITS + b = base + (b - bit_offset)
    BY <1>1, <1>2 DEF base
  <2>2. ASSUME NEW i \in 0..(bits_here - 1)
        PROVE  bit_offset + i \in bit_offset..(bit_offset + bits_here - 1)
               /\ word * BITS + (bit_offset + i) = base + i
    BY <1>1, <1>2 DEF base
  <2>3. {(x + i) % WINDOW : i \in 0..(bits_here - 1)} \subseteq MaskSlots
    BY <1>3, <2>2 DEF MaskSlots
  <2>4. MaskSlots \subseteq {(x + i) % WINDOW : i \in 0..(bits_here - 1)}
    <3> SUFFICES ASSUME NEW b \in bit_offset..(bit_offset + bits_here - 1)
                 PROVE  word * BITS + b \in {(x + i) % WINDOW : i \in 0..(bits_here - 1)}
      BY Zenon DEF MaskSlots
    <3> QED  BY Zenon, <1>3, <2>1
  <2> QED  BY Zenon, <2>3, <2>4
<1> QED  BY Zenon, <1>1, <1>4, <1>5

(* A turn of the loop preserves the inductive invariant. *)
LEMMA TurnRingInv == RingInv /\ ClearWord => RingInv'
<1> SUFFICES ASSUME RingInv, ClearWord PROVE RingInv'
  BY Zenon
<1> USE MaxSeqAssumption, WordsAssumption, BitsAssumption, WindowPositive
<1>1. /\ bits_here \in 1..remaining
      /\ bit_offset + bits_here <= BITS
      /\ RangeSlots(highest, cleared + bits_here) = RangeSlots(highest, cleared) \cup MaskSlots
  BY Zenon, MaskExact DEF ClearWord
<1>2. /\ remaining' = remaining - bits_here /\ bit_offset' = 0
      /\ word' = (word + 1) % WORDS /\ highest' = highest /\ shift' = shift
      /\ before' = before /\ bits' = bits \ MaskSlots
      /\ sequence' = sequence
      /\ cleared' = cleared + bits_here
  BY <1>1, LoopFacts DEF ClearWord, cleared, shift, RingInv, RingTypeOK
<1>3. /\ remaining \in Nat /\ bit_offset \in 0..(BITS - 1) /\ word \in 0..(WORDS - 1)
      /\ highest \in Nat /\ cleared \in Nat /\ remaining > 0
  BY Zenon, LoopFacts DEF RingInv, RingTypeOK, ClearWord
<1>4. word' \in 0..(WORDS - 1)
  BY <1>2, <1>3, DivMod
<1>5. RingTypeOK' /\ LoopTyped'
  BY <1>1, <1>2, <1>4, LoopFacts DEF RingInv, RingTypeOK, LoopTyped, Idle
<1>6. ClearedSoFar'
  <2>1. RangeSlots(highest, cleared)' = RangeSlots(highest, cleared + bits_here)
    BY Zenon, <1>2 DEF RangeSlots
  <2> QED  BY Zenon, <2>1, <1>1, <1>2 DEF RingInv, ClearedSoFar, Idle
<1>7. CursorExact'
  <2> SUFFICES ASSUME remaining' > 0
               PROVE  word' * BITS = (highest + 1 + cleared + bits_here) % WINDOW
    BY <1>1, <1>2, <1>3, <1>4 DEF CursorExact
  <2> DEFINE x == highest + 1 + cleared
  <2>1. bits_here = BITS - bit_offset
    BY <1>1, <1>2, <1>3 DEF bits_here, Least
  <2>2. /\ x \in Int /\ x % WINDOW = word * BITS + bit_offset
        /\ x + bits_here = highest + 1 + cleared + bits_here
    BY <1>1, <1>3 DEF RingInv, CursorExact
  <2>3. (x % WINDOW) + bits_here = (word + 1) * BITS
    BY <1>1, <1>3, <2>1, <2>2
  <2> HIDE DEF x
  <2>4. CASE word + 1 = WORDS
    <3>1. word' = 0
      BY <1>2, <2>4
    <3>2. (x % WINDOW) + bits_here = WINDOW
      BY Zenon, <2>3, <2>4 DEF WINDOW
    <3>3. (x + bits_here) % WINDOW = 0
      BY <3>2, <2>2, <1>1, ModWrap
    <3> QED  BY <3>1, <3>3, <2>2
  <2>5. CASE word + 1 < WORDS
    <3>1. word' = word + 1
      BY <1>2, <1>3, <2>5
    <3>2. (word + 1) * BITS + 0 \in Slots
      <4>1. word + 1 \in 0..(WORDS - 1) /\ 0 \in 0..(BITS - 1)
        BY <1>3, <2>5
      <4> QED  BY ZenonT(30), <4>1, SlotOfBit
    <3>3. (word + 1) * BITS \in Int
      BY <1>3
    <3>4. (x % WINDOW) + bits_here < WINDOW
      BY <2>3, <3>2, <3>3 DEF Slots
    <3>5. (x + bits_here) % WINDOW = (x % WINDOW) + bits_here
      <4>1. bits_here \in Nat
        BY <1>1, <1>3
      <4> QED  BY ZenonT(30), <3>4, <4>1, <2>2, ModAdvance
    <3> QED  BY Zenon, <3>1, <3>5, <2>2, <2>3
  <2> QED  BY <2>4, <2>5, <1>3
<1> QED  BY Zenon, <1>5, <1>6, <1>7 DEF RingInv

(* An empty bitmap, outside the loop. *)
LEMMA InitRingInv == RingInit => RingInv
  BY WordsAssumption, BitsAssumption
     DEF RingInit, RingInv, RingTypeOK, LoopTyped, CursorExact, ClearedSoFar, Idle, NoSequence

(* A call that returns at once leaves the loop idle. *)
LEMMA AtOnceRingInv ==
  ASSUME RingInv, Idle, locals' = locals, bits' \in SUBSET Slots,
         highest' \in SeqNumbers \cup {NoSequence}
  PROVE  RingInv'
  BY DEF RingInv, RingTypeOK, LoopTyped, CursorExact, ClearedSoFar, Idle, locals

(* Accepting a number keeps the types. *)
LEMMA AcceptType ==
  ASSUME NEW s \in SeqNumbers, NEW kept \in SUBSET Slots, Accept(s, kept)
  PROVE  bits' \in SUBSET Slots
<1>1. Slot(s) \in Slots
  BY DivMod, WindowPositive, MaxSeqAssumption DEF Slot, Slots, SeqNumbers
<1> QED  BY Zenon, <1>1 DEF Accept

(* check_and_record and the turns of its loop preserve the inductive invariant. *)
LEMMA NextRingInv == RingInv /\ [RingNext]_ringVars => RingInv'
<1> USE MaxSeqAssumption, WordsAssumption, BitsAssumption, WindowPositive
<1> SUFFICES ASSUME RingInv, [RingNext]_ringVars PROVE RingInv'
  BY Zenon
<1>0. bits \in SUBSET Slots /\ {} \in SUBSET Slots
  BY Zenon DEF RingInv, RingTypeOK
<1>1. ASSUME NEW s \in SeqNumbers, CheckFirst(s) PROVE RingInv'
  BY Zenon, <1>0, <1>1, AtOnceRingInv, AcceptType DEF CheckFirst
<1>2. ASSUME NEW s \in SeqNumbers, CheckFar(s) PROVE RingInv'
  BY Zenon, <1>0, <1>2, AtOnceRingInv, AcceptType DEF CheckFar
<1>3. ASSUME NEW s \in SeqNumbers, CheckBehind(s) PROVE RingInv'
  <2>1. highest' \in SeqNumbers \cup {NoSequence} /\ bits' \in SUBSET Slots
    BY Zenon, <1>0, <1>3, AcceptType DEF CheckBehind, RingInv, RingTypeOK
  <2> QED  BY Zenon, <2>1, <1>3, AtOnceRingInv DEF CheckBehind
<1>4. ASSUME NEW s \in SeqNumbers, EnterClear(s) PROVE RingInv'
  <2> DEFINE start == (highest + 1) % WINDOW
  <2>1. /\ highest \in Nat /\ s \in Nat /\ s > highest /\ s - highest < WINDOW
        /\ highest' = highest /\ sequence' = s /\ remaining' = s - highest
        /\ before' = bits /\ bits' = bits
        /\ word' = start \div BITS /\ bit_offset' = start % BITS
    BY <1>4 DEF EnterClear, RingInv, RingTypeOK, SeqNumbers, NoSequence
  <2>2. /\ start = word' * BITS + bit_offset'
        /\ word' \in 0..(WORDS - 1) /\ bit_offset' \in 0..(BITS - 1)
    BY Zenon, <2>1, StartExact
  <2>3. shift' = s - highest /\ cleared' = 0
    BY <2>1 DEF shift, cleared
  <2>4. RingTypeOK' /\ LoopTyped'
    BY <2>1, <2>2, <2>3 DEF RingTypeOK, LoopTyped, Idle, RingInv, NoSequence, SeqNumbers
  <2>5. CursorExact'
    BY <2>1, <2>2, <2>3 DEF CursorExact
  <2>6. ClearedSoFar'
    BY <2>1, <2>3 DEF ClearedSoFar, RangeSlots
  <2> QED  BY Zenon, <2>4, <2>5, <2>6 DEF RingInv
<1>5. ASSUME FinishAhead PROVE RingInv'
  <2>1. sequence \in SeqNumbers
    BY Zenon, <1>5 DEF FinishAhead, Idle, RingInv, RingTypeOK
  <2>2. bits' \in SUBSET Slots
    BY Zenon, <1>0, <1>5, <2>1, AcceptType DEF FinishAhead
  <2> QED
    BY <1>5, <2>1, <2>2
       DEF FinishAhead, RingInv, RingTypeOK, LoopTyped, CursorExact, ClearedSoFar, Idle, NoSequence
<1>6. CASE UNCHANGED ringVars
  BY Zenon, <1>6
     DEF ringVars, locals, RingInv, RingTypeOK, LoopTyped, CursorExact, ClearedSoFar, Idle, shift, cleared
<1> QED
  BY Zenon, <1>1, <1>2, <1>3, <1>4, <1>5, <1>6, TurnRingInv DEF RingNext

(* The inductive invariant holds in every reachable state of the ring. *)
THEOREM RingInvariant == RingSpec => []RingInv
  BY InitRingInv, NextRingInv, PTL DEF RingSpec

(* When clear_range returns it has zeroed exactly the bits of the numbers the
   window enters, for every bitmap geometry, start and shift. *)
THEOREM Clears == RingSpec => []ClearsExactly
<1>1. RingInv => ClearsExactly
  BY DEF RingInv, RingTypeOK, LoopTyped, ClearedSoFar, ClearsExactly, cleared, shift,
         Idle, SeqNumbers, NoSequence
<1> QED  BY <1>1, RingInvariant, PTL

(* The two levels speak of the same ring. *)
LEMMA SameGeometry ==
  /\ Window!NoSequence = NoSequence /\ Window!WINDOW = WINDOW
  /\ Window!SeqNumbers = SeqNumbers
  /\ \A s : Window!Slot(s) = Slot(s)
  /\ \A h, n : Window!RangeSlots(h, n) = RangeSlots(h, n)
  BY Zenon DEF Window!NoSequence, NoSequence, Window!WINDOW, WINDOW, Window!SeqNumbers, SeqNumbers,
         Window!Slot, Slot, Window!RangeSlots, RangeSlots

(* Each step of the ring is a whole call of ReplayWindow or invisible to it. *)
LEMMA StepImplements == RingInv /\ [RingNext]_ringVars => [Window!Next]_(Window!vars)
<1> USE MaxSeqAssumption, WindowPositive, SameGeometry
<1> SUFFICES ASSUME RingInv, [RingNext]_ringVars PROVE Window!Next \/ UNCHANGED Window!vars
  BY Zenon
<1>1. ASSUME NEW s \in SeqNumbers, CheckFirst(s) PROVE Window!CheckFirst(s)
  BY Zenon, <1>1 DEF CheckFirst, Accept, Answer, Idle, locals, Bitmap, Window!CheckFirst,
              Window!Record, Window!Answer
<1>2. ASSUME NEW s \in SeqNumbers, CheckFar(s) PROVE Window!CheckAhead(s)
  <2>1. s > highest
    BY <1>2 DEF CheckFar, RingInv, RingTypeOK, SeqNumbers, NoSequence
  <2> QED
    BY Zenon, <1>2, <2>1 DEF CheckFar, Accept, Answer, Idle, locals, Bitmap, Window!CheckAhead,
                      Window!Record, Window!Answer
<1>3. ASSUME NEW s \in SeqNumbers, CheckBehind(s) PROVE Window!CheckBehind(s)
  BY Zenon, <1>3 DEF CheckBehind, Accept, Answer, Idle, locals, Bitmap, Window!CheckBehind,
              Window!Record, Window!Answer
<1>4. ASSUME NEW s \in SeqNumbers, EnterClear(s) PROVE UNCHANGED Window!vars
  BY Zenon, <1>4 DEF EnterClear, Idle, Bitmap, Window!vars, SeqNumbers, NoSequence
<1>5. ASSUME ClearWord PROVE UNCHANGED Window!vars
  BY Zenon, <1>5, LoopFacts DEF ClearWord, Idle, Bitmap, Window!vars
<1>6. ASSUME FinishAhead PROVE sequence \in SeqNumbers /\ Window!CheckAhead(sequence)
  <2>1. /\ sequence \in SeqNumbers /\ highest # NoSequence /\ sequence > highest
        /\ ~(sequence - highest >= WINDOW)
    BY <1>6 DEF FinishAhead, RingInv, RingTypeOK, LoopTyped, Idle, shift, SeqNumbers, NoSequence
  <2>2. bits = before \ RangeSlots(highest, sequence - highest)
    BY <1>6, <2>1 DEF FinishAhead, RingInv, RingTypeOK, ClearedSoFar, cleared, shift,
                      SeqNumbers, NoSequence
  <2>3. Bitmap = before /\ Bitmap' = bits'
    BY Zenon, <1>6 DEF FinishAhead, Idle, Bitmap
  <2> QED
    BY Zenon, <1>6, <2>1, <2>2, <2>3 DEF FinishAhead, Accept, Answer, Window!CheckAhead,
                                  Window!Record, Window!Answer
<1>7. CASE UNCHANGED ringVars
  BY Zenon, <1>7 DEF ringVars, locals, Idle, Bitmap, Window!vars
<1> QED
  BY Zenon, <1>1, <1>2, <1>3, <1>4, <1>5, <1>6, <1>7 DEF RingNext, Window!Next, Window!CheckAndRecord

(* The window with the word-by-word loop implements the window whose calls are
   single steps. *)
THEOREM RingImplements == RingSpec => ImplementsWindow
<1>1. RingInit => Window!Init
  BY Zenon, SameGeometry DEF RingInit, Window!Init, Idle, Bitmap
<1> QED
  BY <1>1, StepImplements, RingInvariant, PTL DEF RingSpec, ImplementsWindow, Window!Spec

-----------------------------------------------------------------------------
(* The window. *)

(* The ring has at least one slot. *)
LEMMA RingPositive == Window!WINDOW \in Nat \ {0}
  BY WordsAssumption, BitsAssumption DEF Window!WINDOW

(* A number maps to a slot of the ring. *)
LEMMA SlotType == \A s \in Int : Window!Slot(s) \in Window!Slots
  BY Zenon, DivMod, RingPositive DEF Window!Slot, Window!Slots

(* Two numbers less than WINDOW apart have different slots. *)
LEMMA SlotInjective ==
  ASSUME NEW a \in Int, NEW b \in Int, Window!Slot(a) = Window!Slot(b),
         a <= b, b - a < Window!WINDOW
  PROVE  a = b
  BY ZenonT(30), ModInjective, RingPositive DEF Window!Slot

(* Setting the bit of s disturbs no other number of the window. *)
LEMMA RecordExact ==
  ASSUME NEW h \in Int, NEW s \in Window!SeqNumbers, s <= h, h - s < Window!WINDOW,
         NEW t \in Window!SeqNumbers, t <= h, h - t < Window!WINDOW, Window!Slot(t) = Window!Slot(s)
  PROVE  t = s
<1>1. CASE t <= s  BY <1>1, SlotInjective, RingPositive, MaxSeqAssumption DEF Window!SeqNumbers
<1>2. CASE s <= t  BY <1>2, SlotInjective, RingPositive, MaxSeqAssumption DEF Window!SeqNumbers
<1> QED  BY <1>1, <1>2, MaxSeqAssumption DEF Window!SeqNumbers

(* Moving the window clears no bit of a number that stays in it, and every
   bit of a number that enters it. *)
LEMMA RangeExact ==
  ASSUME NEW h \in Nat, NEW s \in Nat, s > h, s - h < Window!WINDOW,
         NEW t \in Nat, t <= s, s - t < Window!WINDOW
  PROVE  Window!Slot(t) \in Window!RangeSlots(h, s - h) <=> t > h
<1>1. ASSUME t > h PROVE Window!Slot(t) \in Window!RangeSlots(h, s - h)
  <2>1. t - h \in 1..(s - h) /\ h + (t - h) = t
    BY <1>1
  <2> QED  BY Zenon, <2>1 DEF Window!RangeSlots
<1>2. ASSUME t <= h, Window!Slot(t) \in Window!RangeSlots(h, s - h) PROVE FALSE
  <2>1. PICK i \in 1..(s - h) : Window!Slot(t) = Window!Slot(h + i)
    BY Zenon, <1>2 DEF Window!RangeSlots
  <2>2. h + i \in Int /\ t <= h + i /\ (h + i) - t < Window!WINDOW /\ t # h + i
    BY <1>2, RingPositive
  <2> QED  BY <2>1, <2>2, SlotInjective
<1> QED  BY <1>1, <1>2

(* An empty window. *)
LEMMA InitWindowInv == Window!Init => Window!WindowInv
  BY MaxSeqAssumption
    
        DEF Window!Init, Window!WindowInv, Window!TypeOK, Window!WindowExact,
            Window!HighestExact, Window!NoDoubleAccept, Window!InWindow,
         Window!SeqNumbers, Window!NoSequence

(* The bookkeeping common to every step that accepts a number. *)
LEMMA RecordStep ==
  ASSUME Window!WindowInv, NEW s \in Window!SeqNumbers, s \notin accepted,
         NEW kept \in SUBSET Window!Slots, Window!Record(s, kept),
         highest' \in Window!SeqNumbers, highest <= highest', s <= highest',
         highest' = s \/ (highest' = highest /\ highest # Window!NoSequence),
         \A t \in Window!SeqNumbers : Window!InWindow(t)' =>
            (Window!Slot(t) \in kept \cup {Window!Slot(s)} <=> t \in accepted \/ t = s)
  PROVE  Window!WindowInv'
<1> USE MaxSeqAssumption
<1>0. s \in Int /\ Window!Slot(s) \in Window!Slots
  BY SlotType DEF Window!SeqNumbers
<1>1. Window!TypeOK'
  BY Zenon, <1>0 DEF Window!WindowInv, Window!TypeOK, Window!Record, Window!Answer
<1>2. Window!WindowExact'
  BY Zenon DEF Window!WindowExact, Window!Record
<1>3. Window!HighestExact'
  BY DEF Window!HighestExact, Window!WindowInv, Window!TypeOK, Window!Record, Window!NoSequence,
         Window!SeqNumbers
<1>4. Window!NoDoubleAccept'
  BY Zenon DEF Window!NoDoubleAccept, Window!WindowInv, Window!Record
<1> QED  BY Zenon, <1>1, <1>2, <1>3, <1>4 DEF Window!WindowInv

(* check_and_record preserves the inductive invariant, branch by branch. *)
LEMMA NextWindowInv == Window!WindowInv /\ [Window!Next]_(Window!vars) => Window!WindowInv'
<1> USE MaxSeqAssumption, RingPositive
<1> SUFFICES ASSUME Window!WindowInv, [Window!Next]_(Window!vars) PROVE Window!WindowInv'
  BY Zenon
<1>1. ASSUME NEW s \in Window!SeqNumbers, Window!CheckFirst(s) PROVE Window!WindowInv'
  <2>1. s \notin accepted /\ Bitmap = {} /\ accepted = {}
    BY Zenon, <1>1 DEF Window!CheckFirst, Window!WindowInv, Window!HighestExact
  <2>2. ASSUME NEW t \in Window!SeqNumbers, Window!InWindow(t)'
        PROVE  Window!Slot(t) \in Bitmap \cup {Window!Slot(s)} <=> t \in accepted \/ t = s
    BY <1>1, <2>1, <2>2, RecordExact DEF Window!CheckFirst, Window!InWindow, Window!SeqNumbers
  <2>3. /\ highest' \in Window!SeqNumbers /\ highest <= highest' /\ s <= highest'
        /\ highest' = s \/ (highest' = highest /\ highest # Window!NoSequence)
        /\ Bitmap \in SUBSET Window!Slots /\ Window!Record(s, Bitmap)
    BY <1>1
       DEF Window!CheckFirst, Window!WindowInv, Window!TypeOK, Window!NoSequence,
           Window!SeqNumbers
  <2> QED
    BY Zenon, <2>1, <2>2, <2>3, RecordStep
<1>2. ASSUME NEW s \in Window!SeqNumbers, Window!CheckAhead(s) PROVE Window!WindowInv'
  <2> DEFINE kept == IF s - highest >= Window!WINDOW THEN {}
                     ELSE Bitmap \ Window!RangeSlots(highest, s - highest)
  <2>1. /\ highest \in Nat /\ s \in Nat /\ s > highest /\ highest' = s
        /\ Window!Record(s, kept) /\ s \notin accepted
    BY <1>2
       DEF Window!CheckAhead, Window!WindowInv, Window!TypeOK, Window!HighestExact,
           Window!SeqNumbers, Window!NoSequence
  <2>2. ASSUME NEW t \in Window!SeqNumbers, Window!InWindow(t)'
        PROVE  Window!Slot(t) \in kept \cup {Window!Slot(s)} <=> t \in accepted \/ t = s
    <3>1. t \in Nat /\ t <= s /\ s - t < Window!WINDOW
      BY <2>1, <2>2 DEF Window!InWindow, Window!SeqNumbers
    <3>2. Window!Slot(t) = Window!Slot(s) <=> t = s
      BY <3>1, <2>1, RecordExact DEF Window!SeqNumbers
    <3>3. Window!Slot(t) \in kept <=> t \in accepted
      <4>1. CASE t > highest
        <5>1. t \notin accepted
          BY <4>1, <2>1
             DEF Window!WindowInv, Window!HighestExact, Window!NoSequence, Window!SeqNumbers
        <5>2. Window!Slot(t) \notin kept
          BY <4>1, <3>1, <2>1, RangeExact
        <5> QED  BY Zenon, <5>1, <5>2
      <4>2. CASE t <= highest
        <5>1. s - highest < Window!WINDOW /\ Window!InWindow(t)
          BY <4>2, <3>1, <2>1 DEF Window!InWindow
        <5>2. Window!Slot(t) \notin Window!RangeSlots(highest, s - highest)
          <6>1. s > highest /\ s \in Nat /\ highest \in Nat /\ ~(t > highest)
            BY <4>2, <3>1, <2>1
          <6> QED  BY ZenonT(30), <5>1, <3>1, <6>1, RangeExact
        <5>3. Window!Slot(t) \in kept <=> Window!Slot(t) \in Bitmap
          BY <5>1, <5>2, <2>1
        <5> QED  BY Zenon, <5>1, <5>3 DEF Window!WindowInv, Window!WindowExact
      <4> QED  BY <4>1, <4>2, <3>1, <2>1
    <3> QED  BY Zenon, <3>2, <3>3
  <2> HIDE DEF kept
  <2>3. kept \in SUBSET Window!Slots
    BY Zenon DEF kept, Window!WindowInv, Window!TypeOK
  <2>4. /\ highest' \in Window!SeqNumbers /\ highest <= highest' /\ s <= highest'
        /\ highest' = s \/ (highest' = highest /\ highest # Window!NoSequence)
        /\ Window!Record(s, kept) /\ s \notin accepted
    BY <2>1
  <2> QED
    BY Zenon, <2>2, <2>3, <2>4, RecordStep
<1>3. ASSUME NEW s \in Window!SeqNumbers, Window!CheckBehind(s) PROVE Window!WindowInv'
  <2>1. CASE highest - s >= Window!WINDOW
    BY <1>3, <2>1
      
          DEF Window!CheckBehind, Window!Answer, Window!WindowInv, Window!TypeOK,
              Window!WindowExact, Window!HighestExact,
           Window!NoDoubleAccept, Window!InWindow
  <2>2. CASE highest - s < Window!WINDOW /\ Window!Slot(s) \in Bitmap
    BY <1>3, <2>2
      
          DEF Window!CheckBehind, Window!Answer, Window!WindowInv, Window!TypeOK,
              Window!WindowExact, Window!HighestExact,
           Window!NoDoubleAccept, Window!InWindow
  <2>3. CASE highest - s < Window!WINDOW /\ Window!Slot(s) \notin Bitmap
    <3>1. /\ highest \in Window!SeqNumbers /\ s \in Int /\ s <= highest /\ highest' = highest
          /\ highest # Window!NoSequence /\ Window!Record(s, Bitmap) /\ s \notin accepted
      BY <1>3, <2>3
        
            DEF Window!CheckBehind, Window!WindowInv, Window!TypeOK, Window!WindowExact,
                Window!InWindow, Window!SeqNumbers
    <3>2. ASSUME NEW t \in Window!SeqNumbers, Window!InWindow(t)'
          PROVE  Window!Slot(t) \in Bitmap \cup {Window!Slot(s)} <=> t \in accepted \/ t = s
      <4>1. Window!InWindow(t)
        BY Zenon, <3>1, <3>2 DEF Window!InWindow
      <4>2. Window!Slot(t) = Window!Slot(s) <=> t = s
        BY <4>1, <3>1, <2>3, RecordExact DEF Window!InWindow, Window!SeqNumbers
      <4> QED  BY Zenon, <4>1, <4>2 DEF Window!WindowInv, Window!WindowExact
    <3> QED
      BY <3>1, <3>2, RecordStep DEF Window!WindowInv, Window!TypeOK, Window!SeqNumbers
  <2> QED
    BY <2>1, <2>2, <2>3, <1>3
       DEF Window!WindowInv, Window!TypeOK, Window!CheckBehind, Window!SeqNumbers
<1>4. CASE UNCHANGED Window!vars
  BY Zenon, <1>4
    
        DEF Window!vars, Window!WindowInv, Window!TypeOK, Window!WindowExact,
            Window!HighestExact, Window!NoDoubleAccept, Window!InWindow
<1> QED
  BY Zenon, <1>1, <1>2, <1>3, <1>4 DEF Window!Next, Window!CheckAndRecord

(* The inductive invariant holds in every reachable state: the ring is exact
   and no sequence number is ever accepted twice, for every WINDOW. *)
THEOREM WindowInvariant == Window!Spec => []Window!WindowInv
<1>1. Window!Init => Window!WindowInv
  BY Zenon, InitWindowInv
<1>2. Window!WindowInv /\ [Window!Next]_(Window!vars) => Window!WindowInv'
  BY Zenon, NextWindowInv
<1> QED  BY <1>1, <1>2, PTL DEF Window!Spec

(* check_and_record answers Ok at most once for each sequence number. *)
THEOREM AcceptsOnce == RingSpec => []Window!NoDoubleAccept
  BY RingImplements, WindowInvariant, PTL DEF ImplementsWindow, Window!WindowInv

(* A slot is set exactly when its number in the window was accepted. *)
THEOREM RingExact == RingSpec => []Window!WindowExact
  BY RingImplements, WindowInvariant, PTL DEF ImplementsWindow, Window!WindowInv

(* One call of check_and_record answers as the promise does. *)
LEMMA CallKeepsPromise ==
  ASSUME Window!WindowInv, NEW s \in Window!SeqNumbers, Window!CheckAndRecord(s)
  PROVE  Window!Promise!Check(s)
<1> USE MaxSeqAssumption, RingPositive
   DEF Window!WindowInv, Window!TypeOK, Window!SeqNumbers, Window!NoSequence,
       Window!Promise!NoSequence
<1>1. CASE Window!CheckFirst(s)
  BY <1>1
     DEF Window!CheckFirst, Window!Record, Window!Answer, Window!HighestExact,
         Window!Promise!Check, Window!Promise!TooOld
<1>2. CASE Window!CheckAhead(s)
  <2>1. s \notin accepted /\ ~(s + Window!WINDOW <= highest)
    BY <1>2 DEF Window!CheckAhead, Window!HighestExact
  <2> QED
    BY Zenon, <1>2, <2>1
       DEF Window!CheckAhead, Window!Record, Window!Answer, Window!Promise!Check,
           Window!Promise!TooOld
<1>3. CASE Window!CheckBehind(s)
  <2>1. highest - s < Window!WINDOW => (Window!Slot(s) \in Bitmap <=> s \in accepted)
    BY Zenon, <1>3 DEF Window!CheckBehind, Window!WindowExact, Window!InWindow
  <2>2. highest - s >= Window!WINDOW <=> Window!Promise!TooOld(s)
    BY <1>3 DEF Window!CheckBehind, Window!Promise!TooOld
  <2> QED
    BY <1>3, <2>1, <2>2 DEF Window!CheckBehind, Window!Record, Window!Answer, Window!Promise!Check
<1> QED  BY Zenon, <1>1, <1>2, <1>3 DEF Window!CheckAndRecord

(* The ring of words keeps the promise of ReplayPromise. *)
THEOREM RingKeepsPromise == RingSpec => ImplementsPromise
<1>1. Window!Init => Window!Promise!Init
  BY Zenon DEF Window!Init, Window!Promise!Init, Window!NoSequence, Window!Promise!NoSequence
<1>2. Window!WindowInv /\ [Window!Next]_(Window!vars)
        => [Window!Promise!Next]_<<highest, accepted, verdict>>
  BY Zenon, CallKeepsPromise DEF Window!Next, Window!Promise!Next, Window!vars, Window!SeqNumbers
<1>3. Window!Spec => ImplementsPromise
  BY <1>1, <1>2, WindowInvariant, PTL
     DEF Window!Spec, ImplementsPromise, Window!ImplementsPromise, Window!Promise!Spec
<1> QED BY <1>3, RingImplements, PTL DEF ImplementsWindow

===============================================================================
