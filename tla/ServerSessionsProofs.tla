------------------------- MODULE ServerSessionsProofs -------------------------
(***************************************************************************)
(* Proofs about the session tables of the server, for every set of peers   *)
(* and endpoints, every configuration and every bound.                     *)
(***************************************************************************)
EXTENDS ServerSessions, FiniteSetTheorems, SequenceTheorems, TLAPS

(* Past the first n of n or n + 1 positions there is only the last. *)
LEMMA LastPosition ==
  ASSUME NEW n \in Nat, NEW l \in Nat, l = 0 \/ l = 1, NEW i \in 1..(n + l), ~(i <= n)
  PROVE  l = 1 /\ i - n = 1
OBVIOUS

(* The sequence of identities an initiation is tried against. *)
LEMMA TrialsFacts ==
  ASSUME NEW c \in Configs
  PROVE  /\ Len(Trials(c)) \in Nat
         /\ PerSourceLimit(c) \in Nat
         /\ \A i \in 1..Len(Trials(c)) :
              \/ Trials(c)[i] \in Peers /\ \E j \in 1..Len(c.peers) : c.peers[j] = Trials(c)[i]
              \/ Trials(c)[i] = CA /\ c.ca
<1> DEFINE S == Peers \cup {CA}
           last == IF c.ca THEN <<CA>> ELSE <<>>
<1>1. c.peers \in Seq(Peers) /\ c.ca \in BOOLEAN BY Zenon, ConfigsAssumption
<1>2. c.peers \in Seq(S) BY Zenon, <1>1, SeqMonotonic
<1>3. last \in Seq(S) /\ Len(last) \in {0, 1} /\ (Len(last) = 1 => c.ca /\ last[1] = CA)
  <2>1. CASE c.ca
    <3>1. last = <<CA>> BY Zenon, <2>1
    <3>2. CA \in S BY Zenon
    <3> HIDE DEF last, S
    <3> QED BY <2>1, <3>1, <3>2
  <2>2. CASE ~c.ca
    <3>1. last = <<>> BY Zenon, <2>2
    <3> HIDE DEF last, S
    <3> QED BY <2>2, <3>1
  <2> QED BY Zenon, <2>1, <2>2
<1> HIDE DEF last
<1>4. Len(c.peers) \in Nat BY Zenon, <1>1, LenProperties
<1>5. /\ Len(Trials(c)) = Len(c.peers) + Len(last)
      /\ \A i \in 1..(Len(c.peers) + Len(last)) :
           Trials(c)[i] = IF i <= Len(c.peers) THEN c.peers[i] ELSE last[i - Len(c.peers)]
  <2>1. Trials(c) = c.peers \o last BY Zenon DEF Trials, last
  <2> HIDE DEF S
  <2> QED BY <2>1, <1>2, <1>3, ConcatProperties
<1>6. Len(Trials(c)) \in Nat BY <1>3, <1>4, <1>5
<1>7. PerSourceLimit(c) \in Nat BY <1>6, BoundsAssumption DEF PerSourceLimit, Max2
<1>8. ASSUME NEW i \in 1..Len(Trials(c))
      PROVE  \/ Trials(c)[i] \in Peers /\ \E j \in 1..Len(c.peers) : c.peers[j] = Trials(c)[i]
             \/ Trials(c)[i] = CA /\ c.ca
  <2>0. i \in 1..(Len(c.peers) + Len(last)) BY Zenon, <1>5
  <2>1. CASE i <= Len(c.peers)
    <3>1. i \in 1..Len(c.peers) BY <2>0, <2>1, <1>3, <1>4
    <3>2. Trials(c)[i] = c.peers[i] BY Zenon, <2>0, <2>1, <1>5
    <3>3. c.peers[i] \in Peers BY Zenon, <3>1, <1>1, ElementOfSeq
    <3> QED BY Zenon, <3>1, <3>2, <3>3
  <2>2. CASE ~(i <= Len(c.peers))
    <3>0. Len(last) \in Nat /\ (Len(last) = 0 \/ Len(last) = 1) /\ i \in Int BY <2>0, <1>3
    <3>1. Len(last) = 1 /\ i - Len(c.peers) = 1 BY Zenon, <2>0, <2>2, <3>0, <1>4, LastPosition
    <3>2. Trials(c)[i] = last[1] BY Zenon, <2>0, <2>2, <3>1, <1>5
    <3> QED BY Zenon, <3>1, <3>2, <1>3
  <2> QED BY Zenon, <2>1, <2>2
<1> QED BY Zenon, <1>6, <1>7, <1>8

(* The tables are finite, so their entries can be counted. *)
LEMMA FiniteFrom ==
  ASSUME TypeOK, NEW e
  PROVE  /\ IsFiniteSet(DOMAIN pending)
         /\ IsFiniteSet(From(pending, e)) /\ Cardinality(From(pending, e)) \in Nat
<1>1. next \in Int BY BoundsAssumption DEF TypeOK
<1>2. IsFiniteSet(1..(next - 1)) BY <1>1, FS_Interval
<1>3. IsFiniteSet(DOMAIN pending) BY Zenon, <1>2, FS_Subset DEF TypeOK
<1>4. From(pending, e) \in SUBSET DOMAIN pending BY Zenon DEF From
<1>5. IsFiniteSet(From(pending, e)) BY Zenon, <1>3, <1>4, FS_Subset
<1> QED BY Zenon, <1>3, <1>5, FS_CardinalityType

(* Inserting entries under ids that are not pending keeps the counters exact. *)
LEMMA InsertExact ==
  ASSUME TypeOK, PerSourceExact, NEW new, IsFiniteSet(DOMAIN new),
         DOMAIN new \cap DOMAIN pending = {}, InsertPending(new)
  PROVE  /\ PerSourceExact'
         /\ \A e \in Endpoints : /\ Cardinality(From(new, e)) \in Nat
                                 /\ per_source'[e] = per_source[e] + Cardinality(From(new, e))
<1> SUFFICES ASSUME NEW e \in Endpoints
             PROVE  /\ Cardinality(From(new, e)) \in Nat
                    /\ per_source'[e] = per_source[e] + Cardinality(From(new, e))
                    /\ per_source'[e] = Cardinality(From(pending', e))
  BY Zenon DEF PerSourceExact, From
<1>1. From(new, e) \in SUBSET DOMAIN new BY Zenon DEF From
<1>2. IsFiniteSet(From(new, e)) BY Zenon, <1>1, FS_Subset
<1>3. Cardinality(From(new, e)) \in Nat BY Zenon, <1>2, FS_CardinalityType
<1>4. IsFiniteSet(From(pending, e)) /\ Cardinality(From(pending, e)) \in Nat BY Zenon, FiniteFrom
<1>5. From(pending', e) = From(new, e) \cup From(pending, e)
  BY Zenon DEF InsertPending, From, Merge
<1>6. From(new, e) \cap From(pending, e) = {} BY Zenon DEF From
<1>7. Cardinality(From(pending', e)) = Cardinality(From(new, e)) + Cardinality(From(pending, e))
  <2>1. Cardinality(From(new, e) \cup From(pending, e)) =
          Cardinality(From(new, e)) + Cardinality(From(pending, e))
            - Cardinality(From(new, e) \cap From(pending, e))
    BY Zenon, <1>2, <1>4, FS_Union
  <2>2. Cardinality(From(new, e) \cap From(pending, e)) = 0 BY Zenon, <1>6, FS_EmptySet
  <2> QED BY <2>1, <2>2, <1>3, <1>4, <1>5
<1>8. per_source'[e] = per_source[e] + Cardinality(From(new, e))
  BY Zenon DEF InsertPending, Counted
<1> QED BY <1>3, <1>4, <1>7, <1>8 DEF PerSourceExact

(* Taking entries out keeps the counters exact, and never raises one. *)
LEMMA RemoveExact ==
  ASSUME TypeOK, PerSourceExact, NEW S \in SUBSET DOMAIN pending,
         DOMAIN pending' = DOMAIN pending \ S,
         \A s \in DOMAIN pending' : pending'[s].endpoint = pending[s].endpoint,
         per_source' = Uncounted(S)
  PROVE  /\ PerSourceExact'
         /\ \A e \in Endpoints : per_source'[e] <= per_source[e]
<1> SUFFICES ASSUME NEW e \in Endpoints
             PROVE  /\ per_source'[e] <= per_source[e]
                    /\ per_source'[e] = Cardinality(From(pending', e))
  BY Zenon DEF PerSourceExact, From
<1> DEFINE gone == {s \in S : pending[s].endpoint = e}
<1>1. IsFiniteSet(From(pending, e)) /\ Cardinality(From(pending, e)) \in Nat BY Zenon, FiniteFrom
<1>2. gone \in SUBSET From(pending, e) BY Zenon DEF From
<1>3. IsFiniteSet(gone) /\ Cardinality(gone) <= Cardinality(From(pending, e))
  BY Zenon, <1>1, <1>2, FS_Subset
<1>4. Cardinality(gone) \in Nat BY Zenon, <1>3, FS_CardinalityType
<1>5. From(pending', e) = From(pending, e) \ gone BY Zenon DEF From
<1>6. From(pending, e) \cap gone = gone BY Zenon, <1>2
<1>7. Cardinality(From(pending', e)) = Cardinality(From(pending, e)) - Cardinality(gone)
  BY Zenon, <1>1, <1>5, <1>6, FS_Difference
<1>8. per_source'[e] = Max2(0, per_source[e] - Cardinality(gone)) BY Zenon DEF Uncounted
<1>9. per_source[e] = Cardinality(From(pending, e)) BY Zenon DEF PerSourceExact
<1> HIDE DEF gone
<1> QED BY <1>1, <1>3, <1>4, <1>7, <1>8, <1>9 DEF Max2

-----------------------------------------------------------------------------
(* The server starts with empty tables. *)
LEMMA InitEstablishes == Init => SessionsInv
<1> SUFFICES ASSUME Init PROVE SessionsInv BY Zenon
<1>1. TypeOK
  <2>1. DOMAIN pending = {} /\ DOMAIN active = {} BY Zenon DEF Init
  <2>2. next \in 1..(MAX_HS + 1) BY BoundsAssumption DEF Init
  <2>3. per_source \in [Endpoints -> Nat] BY Zenon DEF Init
  <2>4. config \in Configs BY Zenon, ConfigsAssumption DEF Init
  <2>5. installed = {} /\ repeated \in BOOLEAN BY Zenon DEF Init
  <2> QED BY Zenon, <2>1, <2>2, <2>3, <2>4, <2>5 DEF TypeOK
<1>2. PerSourceExact
  <2> SUFFICES ASSUME NEW e \in Endpoints PROVE per_source[e] = Cardinality(From(pending, e))
    BY Zenon DEF PerSourceExact
  <2>1. From(pending, e) = {} BY Zenon DEF Init, From
  <2> QED BY Zenon, <2>1, FS_EmptySet DEF Init
<1>3. WithinQuota
  <2>1. PerSourceLimit(config) \in Nat BY Zenon, TrialsFacts, ConfigsAssumption DEF Init
  <2> QED BY <2>1 DEF Init, WithinQuota
<1>4. RouterExact BY Zenon DEF Init, RouterExact
<1> QED BY Zenon, <1>1, <1>2, <1>3, <1>4
        DEF Init, SessionsInv, OneSessionPerPeer, OnlyConfiguredPeers, RekeyContinuity,
            KeysInstalledOnce, KeyOrder

(* What a cookie-bearing initiation adds to the table. *)
LEMMA NewAttemptsFacts ==
  ASSUME SessionsInv, NEW e \in Endpoints, BeginInitial(e)
  PROVE  /\ Tried(e) \in Nat /\ per_source[e] + Tried(e) <= PerSourceLimit(config)
         /\ DOMAIN NewAttempts(e) = next..(next + Tried(e) - 1)
         /\ IsFiniteSet(DOMAIN NewAttempts(e))
         /\ \A d \in Endpoints :
              Cardinality(From(NewAttempts(e), d)) = IF d = e THEN Tried(e) ELSE 0
         /\ \A h \in DOMAIN NewAttempts(e) :
              /\ NewAttempts(e)[h] \in PendingEntry
              /\ NewAttempts(e)[h].source \in Identities => Configured(NewAttempts(e)[h].source)
              /\ NewAttempts(e)[h].source = CA => config.ca
              /\ NewAttempts(e)[h].admitted = config.admitted
<1> DEFINE L == PerSourceLimit(config)
           T == Len(Trials(config))
           n == Tried(e)
<1>1. config \in Configs /\ next \in Nat /\ next >= 1 BY BoundsAssumption DEF SessionsInv, TypeOK
<1>2. L \in Nat /\ T \in Nat BY Zenon, <1>1, TrialsFacts
<1>3. per_source[e] \in Nat /\ per_source[e] < L
  BY Zenon DEF SessionsInv, TypeOK, BeginInitial, AdmitsInitial
<1>4. n \in Nat /\ per_source[e] + n <= L /\ n <= T
  <2>1. n = Min2(L - per_source[e], T) BY Zenon DEF Tried
  <2> HIDE DEF n, L, T
  <2> QED BY <2>1, <1>2, <1>3 DEF Min2
<1>5. DOMAIN NewAttempts(e) = next..(next + n - 1) BY Zenon DEF NewAttempts
<1>6. IsFiniteSet(DOMAIN NewAttempts(e)) /\ Cardinality(next..(next + n - 1)) = n
  <2> HIDE DEF n
  <2>1. next \in Int /\ next + n - 1 \in Int BY <1>1, <1>4
  <2> QED BY <2>1, <1>1, <1>4, <1>5, FS_Interval
<1>7. ASSUME NEW d \in Endpoints
      PROVE  Cardinality(From(NewAttempts(e), d)) = IF d = e THEN n ELSE 0
  <2>1. CASE d = e
    <3>1. From(NewAttempts(e), d) = next..(next + n - 1) BY Zenon, <2>1 DEF From, NewAttempts
    <3> QED BY Zenon, <2>1, <3>1, <1>6
  <2>2. CASE d # e
    <3>1. From(NewAttempts(e), d) = {} BY Zenon, <2>2 DEF From, NewAttempts
    <3> QED BY Zenon, <2>2, <3>1, FS_EmptySet
  <2> QED BY Zenon, <2>1, <2>2
<1>8. ASSUME NEW h \in DOMAIN NewAttempts(e)
      PROVE  /\ NewAttempts(e)[h] \in PendingEntry
             /\ NewAttempts(e)[h].source \in Identities => Configured(NewAttempts(e)[h].source)
             /\ NewAttempts(e)[h].source = CA => config.ca
             /\ NewAttempts(e)[h].admitted = config.admitted
  <2> DEFINE src == Trials(config)[h - next + 1]
  <2>0. h \in next..(next + n - 1) BY Zenon, <1>5
  <2>1. h - next + 1 \in 1..T /\ h \in Attempts
    <3>1. next + n - 1 <= MAX_HS BY Zenon DEF BeginInitial
    <3> HIDE DEF n, T
    <3> QED BY <2>0, <3>1, <1>1, <1>2, <1>4, BoundsAssumption DEF Attempts
  <2>2. \/ src \in Peers /\ \E j \in 1..Len(config.peers) : config.peers[j] = src
        \/ src = CA /\ config.ca
    BY Zenon, <2>1, <1>1, TrialsFacts
  <2>3. /\ NewAttempts(e)[h].source = src /\ NewAttempts(e)[h].admitted = config.admitted
        /\ NewAttempts(e)[h] =
             [source |-> src, admitted |-> config.admitted, endpoint |-> e,
              kind |-> "Handshake", phase |-> 0, attempt |-> h, attempts |-> 1]
    BY Zenon, <2>0 DEF NewAttempts
  <2> HIDE DEF src
  <2>4. config.admitted \in SUBSET CertPeers BY Zenon, <1>1, ConfigsAssumption
  <2>5. NewAttempts(e)[h] \in PendingEntry
    <3>1. src \in Identities \cup {CA} BY Zenon, <2>2 DEF Identities
    <3>2. 1 \in 1..RETRY_LIMIT BY BoundsAssumption
    <3> QED BY <3>1, <3>2, <2>1, <2>3, <2>4 DEF PendingEntry, Kinds
  <2>6. src \in Identities => Configured(src)
    BY Zenon, <2>2, NamesAssumption DEF Identities, Configured
  <2>7. src = CA => config.ca BY Zenon, <2>2, NamesAssumption DEF Identities
  <2> QED BY Zenon, <2>3, <2>5, <2>6, <2>7
<1> QED BY Zenon, <1>4, <1>5, <1>6, <1>7, <1>8

(* The ids given out so far grow with the next id. *)
LEMMA IntervalGrows ==
  ASSUME NEW a \in Nat, NEW b \in Nat, a <= b PROVE 1..(a - 1) \subseteq 1..(b - 1)
OBVIOUS

(* Ids of later attempts are larger than everything in the tables. *)
LEMMA Monotone ==
  ASSUME SessionsInv, next' \in 1..(MAX_HS + 1), next <= next'
  PROVE  /\ DOMAIN pending \subseteq 1..(next' - 1)
         /\ DOMAIN active \subseteq 1..(next' - 1)
         /\ installed \subseteq (1..(next' - 1)) \X Nat \X Attempts
<1>1. next \in Nat /\ next' \in Nat BY BoundsAssumption DEF SessionsInv, TypeOK
<1>2. 1..(next - 1) \subseteq 1..(next' - 1) BY Zenon, <1>1, IntervalGrows
<1> QED BY Zenon, <1>2 DEF SessionsInv, TypeOK

(* An initiation enters attempts and counts each of them. *)
LEMMA BeginInitialPreserves ==
  ASSUME SessionsInv, NEW e \in Endpoints, BeginInitial(e)
  PROVE  SessionsInv'
<1> DEFINE new == NewAttempts(e)
           n == Tried(e)
<1>0. TypeOK /\ PerSourceExact BY Zenon DEF SessionsInv
<1>1. /\ n \in Nat /\ per_source[e] + n <= PerSourceLimit(config)
      /\ DOMAIN new = next..(next + n - 1)
      /\ IsFiniteSet(DOMAIN new)
      /\ \A d \in Endpoints : Cardinality(From(new, d)) = IF d = e THEN n ELSE 0
  BY Zenon, NewAttemptsFacts
<1>2. \A h \in DOMAIN new :
        /\ new[h] \in PendingEntry
        /\ new[h].source \in Identities => Configured(new[h].source)
        /\ new[h].source = CA => config.ca
        /\ new[h].admitted = config.admitted
  BY Zenon, NewAttemptsFacts
<1>3. InsertPending(new) /\ next' = next + n /\ next + n - 1 <= MAX_HS BY Zenon DEF BeginInitial
<1>4. UNCHANGED <<active, registered, config, installed, repeated>> BY Zenon DEF BeginInitial
<1> HIDE DEF new, n
<1>5. next \in Nat /\ next >= 1 BY BoundsAssumption DEF SessionsInv, TypeOK
<1>6. next' \in 1..(MAX_HS + 1) /\ next <= next' BY <1>1, <1>3, <1>5, BoundsAssumption
<1>7. \A h \in DOMAIN new : h \in 1..(next' - 1) /\ ~(h <= next - 1)
  BY <1>1, <1>3, <1>5
<1>8. \A h \in 1..(next - 1) : h <= next - 1 BY <1>5
<1>9. DOMAIN new \cap DOMAIN pending = {} BY Zenon, <1>7, <1>8, <1>0 DEF TypeOK
<1>10. DOMAIN new \cap DOMAIN active = {} BY Zenon, <1>7, <1>8, <1>0 DEF TypeOK
<1>11. DOMAIN pending' = DOMAIN new \cup DOMAIN pending BY Zenon, <1>3 DEF InsertPending, Merge
<1>12. \A s \in DOMAIN pending' :
         pending'[s] = IF s \in DOMAIN new THEN new[s] ELSE pending[s]
  BY Zenon, <1>3 DEF InsertPending, Merge
<1>13. /\ PerSourceExact'
       /\ \A d \in Endpoints : per_source'[d] = per_source[d] + Cardinality(From(new, d))
  BY Zenon, <1>0, <1>1, <1>3, <1>9, InsertExact
<1>14. TypeOK'
  <2>1. /\ DOMAIN pending \subseteq 1..(next' - 1)
        /\ DOMAIN active \subseteq 1..(next' - 1)
        /\ installed \subseteq (1..(next' - 1)) \X Nat \X Attempts
    BY Zenon, <1>6, Monotone
  <2>2. DOMAIN pending' \subseteq 1..(next' - 1) BY Zenon, <2>1, <1>7, <1>11
  <2>3. \A s \in DOMAIN pending' : pending'[s] \in PendingEntry
    BY Zenon, <1>0, <1>2, <1>11, <1>12 DEF TypeOK
  <2>4. per_source' \in [Endpoints -> Nat]
    <3>1. per_source' = [d \in Endpoints |-> per_source[d] + Cardinality(From(new, d))]
      BY Zenon, <1>3 DEF InsertPending, Counted
    <3>2. \A d \in Endpoints : per_source[d] + Cardinality(From(new, d)) \in Nat
      BY <1>0, <1>1 DEF TypeOK
    <3> QED BY Zenon, <3>1, <3>2
  <2> QED BY Zenon, <2>1, <2>2, <2>3, <2>4, <1>0, <1>4, <1>6 DEF TypeOK
<1>15. WithinQuota'
  <2> SUFFICES ASSUME NEW d \in Endpoints PROVE per_source'[d] <= PerSourceLimit(config')
    BY Zenon DEF WithinQuota
  <2>1. per_source[d] \in Nat /\ per_source[d] <= PerSourceLimit(config)
    BY Zenon, <1>0 DEF SessionsInv, TypeOK, WithinQuota
  <2>2. CASE d = e
    <3>1. per_source'[d] = per_source[d] + n BY Zenon, <1>1, <1>13, <2>2
    <3> QED BY Zenon, <3>1, <2>2, <1>1, <1>4
  <2>3. CASE d # e
    <3>1. per_source'[d] = per_source[d] + 0 BY Zenon, <1>1, <1>13, <2>3
    <3> QED BY <3>1, <2>1, <1>4
  <2> QED BY Zenon, <2>2, <2>3
<1>16. RouterExact' /\ OneSessionPerPeer' /\ KeysInstalledOnce'
  BY Zenon, <1>4 DEF SessionsInv, RouterExact, OneSessionPerPeer, KeysInstalledOnce
<1>17. OnlyConfiguredPeers'
  BY <1>2, <1>4, <1>11, <1>12 DEF SessionsInv, OnlyConfiguredPeers, Configured
<1>18. RekeyContinuity' BY Zenon, <1>4, <1>10, <1>11, <1>12 DEF SessionsInv, RekeyContinuity
<1>19. KeyOrder'
  <2>1. \A i \in installed : i[1] \notin DOMAIN new BY Zenon, <1>0, <1>7, <1>8 DEF TypeOK
  <2> QED BY Zenon, <2>1, <1>4, <1>11, <1>12 DEF SessionsInv, KeyOrder
<1> QED BY Zenon, <1>13, <1>14, <1>15, <1>16, <1>17, <1>18, <1>19 DEF SessionsInv

(* A rekey enters one attempt, for a live session. *)
LEMMA BeginRekeyPreserves ==
  ASSUME SessionsInv, NEW s \in DOMAIN active, NEW e \in Endpoints, NEW phase,
         BeginRekey(s, e, phase)
  PROVE  SessionsInv'
<1> DEFINE new == NewRekey(s, e)
<1>0. TypeOK /\ PerSourceExact BY Zenon DEF SessionsInv
<1>1. s \notin DOMAIN pending /\ per_source[e] < PerSourceLimit(config)
  BY Zenon DEF BeginRekey, AdmitsRekey
<1>2. InsertPending(new) /\ next' = next + 1 /\ next <= MAX_HS BY Zenon DEF BeginRekey
<1>3. UNCHANGED <<active, registered, config, installed, repeated>> BY Zenon DEF BeginRekey
<1>4. next \in Nat /\ next >= 1 BY BoundsAssumption DEF SessionsInv, TypeOK
<1>5. next' \in 1..(MAX_HS + 1) /\ next <= next' BY <1>2, <1>4, BoundsAssumption
<1>6. /\ DOMAIN new = {s}
      /\ new[s].source = active[s].identity /\ new[s].kind = "Rekey"
      /\ new[s].phase = active[s].phase + 1 /\ new[s].admitted = config.admitted
  BY Zenon DEF NewRekey
<1>7. active[s].identity \in Identities /\ active[s].phase \in Nat
  BY Zenon, <1>0 DEF TypeOK, ActivePeer
<1>8. new[s] \in PendingEntry
  <2>1. config.admitted \in SUBSET CertPeers BY Zenon, <1>0, ConfigsAssumption DEF TypeOK
  <2>2. 1 \in 1..RETRY_LIMIT /\ next \in Attempts
    BY <1>2, <1>4, BoundsAssumption DEF Attempts
  <2>3. active[s].phase + 1 \in Nat BY <1>7
  <2> QED BY Zenon, <1>7, <2>1, <2>2, <2>3 DEF NewRekey, PendingEntry, Kinds
<1>9. \A d \in Endpoints : Cardinality(From(new, d)) = IF d = e THEN 1 ELSE 0
  <2> SUFFICES ASSUME NEW d \in Endpoints
               PROVE  Cardinality(From(new, d)) = IF d = e THEN 1 ELSE 0
    BY Zenon
  <2>1. CASE d = e
    <3>1. From(new, d) = {s} BY Zenon, <2>1 DEF From, NewRekey
    <3> QED BY Zenon, <2>1, <3>1, FS_Singleton
  <2>2. CASE d # e
    <3>1. From(new, d) = {} BY Zenon, <2>2 DEF From, NewRekey
    <3> QED BY Zenon, <2>2, <3>1, FS_EmptySet
  <2> QED BY Zenon, <2>1, <2>2
<1> HIDE DEF new
<1>10. IsFiniteSet(DOMAIN new) BY Zenon, <1>6, FS_Singleton
<1>11. DOMAIN pending' = DOMAIN pending \cup {s} BY Zenon, <1>2, <1>6 DEF InsertPending, Merge
<1>12. pending'[s] = new[s] /\ \A t \in DOMAIN pending : pending'[t] = pending[t]
  BY Zenon, <1>1, <1>2, <1>6 DEF InsertPending, Merge
<1>13. /\ PerSourceExact'
       /\ \A d \in Endpoints : per_source'[d] = per_source[d] + Cardinality(From(new, d))
  <2>1. DOMAIN new \cap DOMAIN pending = {} BY Zenon, <1>1, <1>6
  <2> QED BY Zenon, <1>0, <1>2, <1>10, <2>1, InsertExact
<1>14. TypeOK'
  <2>1. /\ DOMAIN pending \subseteq 1..(next' - 1)
        /\ DOMAIN active \subseteq 1..(next' - 1)
        /\ installed \subseteq (1..(next' - 1)) \X Nat \X Attempts
    BY Zenon, <1>5, Monotone
  <2>2. \A t \in DOMAIN pending' : pending'[t] \in PendingEntry
    BY Zenon, <1>0, <1>8, <1>11, <1>12 DEF TypeOK
  <2>3. per_source' \in [Endpoints -> Nat]
    <3>1. per_source' = [d \in Endpoints |-> per_source[d] + Cardinality(From(new, d))]
      BY Zenon, <1>2 DEF InsertPending, Counted
    <3>2. \A d \in Endpoints : per_source[d] + Cardinality(From(new, d)) \in Nat
      BY <1>0, <1>9 DEF TypeOK
    <3> QED BY Zenon, <3>1, <3>2
  <2> QED BY Zenon, <2>1, <2>2, <2>3, <1>0, <1>3, <1>5, <1>11 DEF TypeOK
<1>15. WithinQuota'
  <2> SUFFICES ASSUME NEW d \in Endpoints PROVE per_source'[d] <= PerSourceLimit(config')
    BY Zenon DEF WithinQuota
  <2>0. PerSourceLimit(config) \in Nat BY Zenon, <1>0, TrialsFacts DEF TypeOK
  <2>1. per_source[d] \in Nat /\ per_source[d] <= PerSourceLimit(config)
    BY Zenon, <1>0 DEF SessionsInv, TypeOK, WithinQuota
  <2>2. CASE d = e
    <3>1. per_source'[d] = per_source[d] + 1 BY Zenon, <1>9, <1>13, <2>2
    <3> QED BY <3>1, <2>0, <2>1, <2>2, <1>1, <1>3
  <2>3. CASE d # e
    <3>1. per_source'[d] = per_source[d] + 0 BY Zenon, <1>9, <1>13, <2>3
    <3> QED BY <3>1, <2>1, <1>3
  <2> QED BY Zenon, <2>2, <2>3
<1>16. RouterExact' /\ OneSessionPerPeer' /\ KeysInstalledOnce'
  BY Zenon, <1>3 DEF SessionsInv, RouterExact, OneSessionPerPeer, KeysInstalledOnce
<1>17. OnlyConfiguredPeers'
  <2>1. new[s].source # CA /\ Configured(new[s].source)
    BY Zenon, <1>6, <1>7, NamesAssumption DEF SessionsInv, OnlyConfiguredPeers
  <2> QED BY <2>1, <1>3, <1>6, <1>11, <1>12 DEF SessionsInv, OnlyConfiguredPeers, Configured
<1>18. RekeyContinuity'
  BY Zenon, <1>3, <1>6, <1>11, <1>12 DEF SessionsInv, RekeyContinuity
<1>19. KeyOrder'
  <2> SUFFICES ASSUME NEW i \in installed
               PROVE  /\ i[1] \in DOMAIN active => i[2] <= active[i[1]].phase
                      /\ i[1] \in DOMAIN pending' => i[2] < pending'[i[1]].phase
    BY Zenon, <1>3 DEF KeyOrder
  <2>1. /\ i[1] \in DOMAIN active => i[2] <= active[i[1]].phase
        /\ i[1] \in DOMAIN pending => i[2] < pending[i[1]].phase
    BY Zenon DEF SessionsInv, KeyOrder
  <2>2. i[2] \in Nat BY Zenon, <1>0 DEF TypeOK
  <2>3. CASE i[1] = s BY <2>1, <2>2, <2>3, <1>6, <1>7, <1>12
  <2>4. CASE i[1] # s BY Zenon, <2>1, <2>4, <1>11, <1>12
  <2> QED BY Zenon, <2>3, <2>4
<1> QED BY Zenon, <1>13, <1>14, <1>15, <1>16, <1>17, <1>18, <1>19 DEF SessionsInv

(* The conjuncts about the pending table alone survive taking entries out of
   it, also when the answers of those that stay are counted. *)
LEMMA RemovalKeeps ==
  ASSUME SessionsInv, NEW S \in SUBSET DOMAIN pending,
         DOMAIN pending' = DOMAIN pending \ S,
         \A s \in DOMAIN pending' :
           /\ pending'[s] \in PendingEntry
           /\ pending'[s].endpoint = pending[s].endpoint,
         per_source' = Uncounted(S),
         UNCHANGED <<config, next>>
  PROVE  /\ DOMAIN pending' \subseteq 1..(next' - 1)
         /\ per_source' \in [Endpoints -> Nat]
         /\ PerSourceExact' /\ WithinQuota'
<1>0. TypeOK /\ PerSourceExact BY Zenon DEF SessionsInv
<1>1. PerSourceExact' /\ \A e \in Endpoints : per_source'[e] <= per_source[e]
  BY Zenon, <1>0, RemoveExact
<1>2. DOMAIN pending' \subseteq 1..(next' - 1) BY Zenon, <1>0 DEF TypeOK
<1>3. per_source' \in [Endpoints -> Nat]
  <2>1. ASSUME NEW e \in Endpoints PROVE per_source'[e] \in Nat
    <3>1. per_source'[e] = Cardinality(From(pending', e)) BY Zenon, <1>1 DEF PerSourceExact
    <3>2. IsFiniteSet(DOMAIN pending) BY Zenon, <1>0, FiniteFrom
    <3>3. From(pending', e) \in SUBSET DOMAIN pending BY Zenon DEF From
    <3>4. IsFiniteSet(From(pending', e)) BY Zenon, <3>2, <3>3, FS_Subset
    <3> QED BY Zenon, <3>1, <3>4, FS_CardinalityType
  <2>2. per_source' = [e \in Endpoints |-> per_source'[e]] BY Zenon DEF Uncounted
  <2> QED BY Zenon, <2>1, <2>2
<1>4. WithinQuota'
  <2> SUFFICES ASSUME NEW e \in Endpoints PROVE per_source'[e] <= PerSourceLimit(config)
    BY Zenon DEF WithinQuota
  <2>1. per_source[e] \in Nat /\ per_source'[e] \in Nat BY Zenon, <1>0, <1>3 DEF TypeOK
  <2>2. PerSourceLimit(config) \in Nat BY Zenon, <1>0, TrialsFacts DEF TypeOK
  <2>3. per_source'[e] <= per_source[e] /\ per_source[e] <= PerSourceLimit(config)
    BY Zenon, <1>1 DEF SessionsInv, WithinQuota
  <2> QED BY <2>1, <2>2, <2>3
<1> QED BY Zenon, <1>1, <1>2, <1>3, <1>4

(* Registering the sessions that are registered already changes nothing. *)
LEMMA RegisterKnown ==
  ASSUME RouterExact, UNCHANGED active, RegisterNewPeers(registered)
  PROVE  registered' = registered
BY Zenon DEF RouterExact, RegisterNewPeers, Merge

(* An attempt taken out of the table without establishing a session. *)
LEMMA RefusedPreserves ==
  ASSUME SessionsInv, NEW s \in DOMAIN pending, RemovePending({s}),
         UNCHANGED <<active, registered, config, next, installed, repeated>>
  PROVE  SessionsInv'
<1>0. TypeOK BY Zenon DEF SessionsInv
<1>1. /\ DOMAIN pending' = DOMAIN pending \ {s} /\ per_source' = Uncounted({s})
      /\ \A t \in DOMAIN pending' : pending'[t] = pending[t]
  BY Zenon DEF RemovePending, Without
<1>2. \A t \in DOMAIN pending' :
        pending'[t] \in PendingEntry /\ pending'[t].endpoint = pending[t].endpoint
  BY Zenon, <1>0, <1>1 DEF TypeOK
<1>3. /\ DOMAIN pending' \subseteq 1..(next' - 1) /\ per_source' \in [Endpoints -> Nat]
      /\ PerSourceExact' /\ WithinQuota'
  <2>1. {s} \in SUBSET DOMAIN pending BY Zenon
  <2> QED BY Zenon, <1>1, <1>2, <2>1, RemovalKeeps
<1>4. TypeOK' BY Zenon, <1>0, <1>2, <1>3 DEF TypeOK
<1>5. RouterExact' /\ OneSessionPerPeer' /\ KeysInstalledOnce'
  BY Zenon DEF SessionsInv, RouterExact, OneSessionPerPeer, KeysInstalledOnce
<1>6. OnlyConfiguredPeers' BY <1>1 DEF SessionsInv, OnlyConfiguredPeers, Configured
<1>7. RekeyContinuity' BY Zenon, <1>1 DEF SessionsInv, RekeyContinuity
<1>8. KeyOrder' BY Zenon, <1>1 DEF SessionsInv, KeyOrder
<1> QED BY Zenon, <1>3, <1>4, <1>5, <1>6, <1>7, <1>8 DEF SessionsInv

(* The identity a verified attempt establishes is one the configuration has,
   and a rekey establishes the identity its session has already. *)
LEMMA EstablishedIdentity ==
  ASSUME SessionsInv, NEW s \in DOMAIN pending, NEW attempt, NEW signer \in Identities,
         Establishes(pending[s], attempt, signer)
  PROVE  /\ IdentityOf(pending[s], signer) \in Identities
         /\ Configured(IdentityOf(pending[s], signer))
         /\ s \in DOMAIN active => IdentityOf(pending[s], signer) = active[s].identity
<1>1. pending[s].source \in Identities \cup {CA}
  BY Zenon DEF SessionsInv, TypeOK, PendingEntry
<1>2. config.admitted \in SUBSET CertPeers
  BY Zenon, ConfigsAssumption DEF SessionsInv, TypeOK
<1>3. /\ pending[s].source \in Identities => Configured(pending[s].source)
      /\ pending[s].source = CA => config.ca
      /\ pending[s].admitted = config.admitted
  BY Zenon DEF SessionsInv, OnlyConfiguredPeers
<1>4. CASE pending[s].source = CA
  <2>1. signer \in CertPeers /\ config.ca /\ signer \in config.admitted
    BY Zenon, <1>2, <1>3, <1>4 DEF Establishes
  <2>2. s \notin DOMAIN active
    <3>1. s \in DOMAIN active => pending[s].source = active[s].identity
      BY Zenon DEF SessionsInv, RekeyContinuity
    <3>2. s \in DOMAIN active => active[s].identity \in Identities
      BY Zenon DEF SessionsInv, TypeOK, ActivePeer
    <3> QED BY Zenon, <3>1, <3>2, <1>4, NamesAssumption
  <2> QED BY Zenon, <1>4, <2>1, <2>2 DEF IdentityOf, Configured
<1>5. CASE pending[s].source # CA
  BY Zenon, <1>1, <1>3, <1>5 DEF IdentityOf, SessionsInv, RekeyContinuity
<1> QED BY Zenon, <1>4, <1>5

(* A session that is established replaces those of its peer. *)
LEMMA EstablishPreserves ==
  ASSUME SessionsInv, NEW s \in DOMAIN pending, NEW e \in Endpoints,
         NEW attempt, NEW signer \in Identities,
         Establishes(pending[s], attempt, signer),
         RemovePending({s}), Establish(s, e, signer),
         RegisterNewPeers(Without(registered, Evicted(s, IdentityOf(pending[s], signer)))),
         UNCHANGED <<config, next>>
  PROVE  SessionsInv'
<1> DEFINE p == pending[s]
           id == IdentityOf(p, signer)
           out == Evicted(s, id)
           peer == NewPeer(s, p, id, e)
<1>0. TypeOK BY Zenon DEF SessionsInv
<1>1. /\ DOMAIN pending' = DOMAIN pending \ {s} /\ per_source' = Uncounted({s})
      /\ \A t \in DOMAIN pending' : pending'[t] = pending[t]
  BY Zenon DEF RemovePending, Without
<1>2. /\ id \in Identities /\ Configured(id)
      /\ s \in DOMAIN active => id = active[s].identity
  BY Zenon, EstablishedIdentity
<1>3. p.phase \in Nat /\ p.attempt \in Attempts BY Zenon, <1>0 DEF TypeOK, PendingEntry
<1>4. out = {t \in DOMAIN active \ {s} : active[t].identity = id} BY Zenon DEF Evicted
<1>5. /\ DOMAIN active' = (DOMAIN active \ out) \cup {s}
      /\ active'[s] = peer
      /\ \A t \in DOMAIN active \ out : t # s => active'[t] = active[t]
  BY Zenon DEF Establish, Merge, Without
<1>6. peer.identity = id /\ peer.phase = p.phase BY Zenon DEF NewPeer
<1>7. peer \in ActivePeer
  <2>1. InitialConfig.rx \in Nat BY Zenon, ConfigsAssumption
  <2>2. s \in DOMAIN active => active[s].rx_rate \in Nat BY Zenon, <1>0 DEF TypeOK, ActivePeer
  <2> HIDE DEF p, id
  <2> QED BY Zenon, <2>1, <2>2, <1>2, <1>3 DEF NewPeer, ActivePeer
<1>8. installed' = installed \cup {<<s, p.phase, p.attempt>>} BY Zenon DEF Establish
<1>9. repeated' = (repeated \/ \E k \in Attempts : <<s, p.phase, k>> \in installed)
  BY Zenon DEF Establish
<1>10. registered' = Merge(Without(registered, out), [x \in DOMAIN active' |-> active'[x].identity])
  BY Zenon DEF RegisterNewPeers
<1>11. UNCHANGED <<config, next>> BY Zenon
<1> HIDE DEF p, id, out, peer
<1>12. \A t \in DOMAIN pending' :
         pending'[t] \in PendingEntry /\ pending'[t].endpoint = pending[t].endpoint
  BY Zenon, <1>0, <1>1 DEF TypeOK
<1>13. /\ DOMAIN pending' \subseteq 1..(next' - 1) /\ per_source' \in [Endpoints -> Nat]
       /\ PerSourceExact' /\ WithinQuota'
  <2>1. {s} \in SUBSET DOMAIN pending BY Zenon
  <2> QED BY Zenon, <1>1, <1>12, <2>1, RemovalKeeps
<1>14. TypeOK'
  <2>1. DOMAIN active' \subseteq 1..(next' - 1) BY Zenon, <1>0, <1>5 DEF TypeOK
  <2>2. \A t \in DOMAIN active' : active'[t] \in ActivePeer
    BY Zenon, <1>0, <1>5, <1>7 DEF TypeOK
  <2>3. installed' \subseteq (1..(next' - 1)) \X Nat \X Attempts
    BY <1>0, <1>3, <1>8 DEF TypeOK
  <2>4. repeated' \in BOOLEAN BY Zenon, <1>9
  <2> QED BY Zenon, <2>1, <2>2, <2>3, <2>4, <1>0, <1>12, <1>13 DEF TypeOK
<1>15. RouterExact'
  <2>1. registered = [x \in DOMAIN active |-> active[x].identity] BY Zenon DEF SessionsInv, RouterExact
  <2>2. DOMAIN registered' = DOMAIN active' BY Zenon, <2>1, <1>5, <1>10 DEF Merge, Without
  <2>3. ASSUME NEW t \in DOMAIN active' PROVE registered'[t] = active'[t].identity
    <3>1. CASE t \in DOMAIN active \ out
      <4>1. registered'[t] = active[t].identity BY Zenon, <2>1, <3>1, <1>10 DEF Merge, Without
      <4> QED BY Zenon, <4>1, <3>1, <1>2, <1>5, <1>6
    <3>2. CASE t \notin DOMAIN active \ out
      BY Zenon, <2>1, <3>2, <1>5, <1>10 DEF Merge, Without
    <3> QED BY Zenon, <3>1, <3>2
  <2>4. registered' = [x \in DOMAIN registered' |-> registered'[x]] BY Zenon, <1>10 DEF Merge
  <2> QED BY Zenon, <2>2, <2>3, <2>4 DEF RouterExact
<1>16. OneSessionPerPeer' BY Zenon, <1>4, <1>5, <1>6 DEF SessionsInv, OneSessionPerPeer
<1>17. OnlyConfiguredPeers'
  <2>1. OnlyConfiguredPeers BY Zenon DEF SessionsInv
  <2>2. config' = config BY Zenon, <1>11
  <2>3. ASSUME NEW t \in DOMAIN active' PROVE Configured(active'[t].identity)
    <3>1. CASE t = s BY Zenon, <3>1, <1>2, <1>5, <1>6
    <3>2. CASE t # s
      <4>1. t \in DOMAIN active \ out BY Zenon, <3>2, <1>5
      <4> QED BY Zenon, <4>1, <3>2, <2>1, <1>5 DEF OnlyConfiguredPeers
    <3> QED BY Zenon, <3>1, <3>2
  <2>4. \A t \in DOMAIN active' : Configured(active'[t].identity) BY Zenon, <2>3
  <2>5. \A t \in DOMAIN pending' :
          /\ pending'[t].source \in Identities => Configured(pending'[t].source)
          /\ pending'[t].source = CA => config.ca
          /\ pending'[t].admitted = config.admitted
    BY Zenon, <2>1, <1>1 DEF OnlyConfiguredPeers
  <2> QED BY Zenon, <2>2, <2>4, <2>5 DEF OnlyConfiguredPeers, Configured
<1>18. RekeyContinuity' BY Zenon, <1>1, <1>5 DEF SessionsInv, RekeyContinuity
<1>19. \A i \in installed : i[1] = s => i[2] < p.phase
  BY Zenon DEF SessionsInv, KeyOrder, p
<1>20. KeysInstalledOnce'
  <2>1. ASSUME NEW k \in Attempts, <<s, p.phase, k>> \in installed PROVE FALSE
    <3>1. p.phase < p.phase BY Zenon, <2>1, <1>19
    <3> QED BY <3>1, <1>3
  <2> QED BY Zenon, <2>1, <1>9 DEF SessionsInv, KeysInstalledOnce
<1>21. KeyOrder'
  <2> SUFFICES ASSUME NEW i \in installed'
               PROVE  /\ i[1] \in DOMAIN active' => i[2] <= active'[i[1]].phase
                      /\ i[1] \in DOMAIN pending' => i[2] < pending'[i[1]].phase
    BY Zenon DEF KeyOrder
  <2>1. CASE i = <<s, p.phase, p.attempt>>
    <3>1. i[1] = s /\ i[2] = p.phase BY Zenon, <2>1
    <3>2. s \notin DOMAIN pending' /\ active'[s].phase = p.phase BY Zenon, <1>1, <1>5, <1>6
    <3> QED BY <3>1, <3>2, <1>3
  <2>2. CASE i \in installed
    <3>1. i[2] \in Nat BY Zenon, <2>2, <1>0 DEF TypeOK
    <3>2. CASE i[1] = s
      <4>1. i[2] <= p.phase BY <2>2, <3>1, <3>2, <1>3, <1>19
      <4> QED BY Zenon, <4>1, <3>2, <1>1, <1>5, <1>6
    <3>3. CASE i[1] # s
      BY Zenon, <2>2, <3>3, <1>1, <1>5 DEF SessionsInv, KeyOrder
    <3> QED BY Zenon, <3>2, <3>3
  <2> QED BY Zenon, <2>1, <2>2, <1>8
<1> QED BY Zenon, <1>13, <1>14, <1>15, <1>16, <1>17, <1>18, <1>20, <1>21 DEF SessionsInv

(* A Finish removes its attempt, and establishes at most one session. *)
LEMMA FinishPendingPreserves ==
  ASSUME SessionsInv, NEW s, NEW e \in Endpoints, NEW k, NEW attempt,
         NEW signer \in Identities, FinishPending(s, e, k, attempt, signer)
  PROVE  SessionsInv' \/ UNCHANGED vars
<1>0. RouterExact /\ UNCHANGED <<config, next>> BY Zenon DEF SessionsInv, FinishPending
<1>1. CASE Unexpected(s, e, k)
  <2>1. UNCHANGED <<pending, per_source, active, installed, repeated>> BY Zenon, <1>1 DEF FinishPending
  <2>2. registered' = registered
    <3>1. RegisterNewPeers(registered) BY Zenon, <1>1 DEF FinishPending
    <3> QED BY Zenon, <1>0, <2>1, <3>1, RegisterKnown
  <2> QED BY Zenon, <1>0, <2>1, <2>2 DEF vars
<1>2. CASE ~Unexpected(s, e, k)
  <2>1. s \in DOMAIN pending /\ RemovePending({s}) BY Zenon, <1>2 DEF FinishPending, Unexpected
  <2>2. CASE Establishes(pending[s], attempt, signer)
    <3>1. /\ Establish(s, e, signer)
          /\ RegisterNewPeers(Without(registered, Evicted(s, IdentityOf(pending[s], signer))))
      BY Zenon, <1>2, <2>2 DEF FinishPending
    <3> QED BY Zenon, <1>0, <2>1, <2>2, <3>1, EstablishPreserves
  <2>3. CASE ~Establishes(pending[s], attempt, signer)
    <3>1. UNCHANGED <<active, installed, repeated>> /\ RegisterNewPeers(registered)
      BY Zenon, <1>2, <2>3 DEF FinishPending
    <3>2. registered' = registered BY Zenon, <1>0, <3>1, RegisterKnown
    <3> QED BY Zenon, <1>0, <2>1, <3>1, <3>2, RefusedPreserves
  <2> QED BY Zenon, <2>2, <2>3
<1> QED BY Zenon, <1>1, <1>2

(* Sessions that are dropped leave the router too. *)
LEMMA DropPreserves ==
  ASSUME SessionsInv, NEW S \in SUBSET DOMAIN active, DropSessions(S),
         UNCHANGED <<pending, per_source, config, next, installed, repeated>>
  PROVE  SessionsInv'
<1>1. /\ DOMAIN active' = DOMAIN active \ S
      /\ \A t \in DOMAIN active' : active'[t] = active[t]
  BY Zenon DEF DropSessions, Without
<1>2. TypeOK' BY Zenon, <1>1 DEF SessionsInv, TypeOK
<1>3. PerSourceExact' /\ WithinQuota' /\ KeysInstalledOnce'
  BY Zenon DEF SessionsInv, PerSourceExact, WithinQuota, KeysInstalledOnce, From
<1>4. RouterExact'
  BY Zenon, <1>1 DEF SessionsInv, RouterExact, DropSessions, Without
<1>5. OneSessionPerPeer' BY Zenon, <1>1 DEF SessionsInv, OneSessionPerPeer
<1>6. OnlyConfiguredPeers' BY Zenon, <1>1 DEF SessionsInv, OnlyConfiguredPeers, Configured
<1>7. RekeyContinuity' BY Zenon, <1>1 DEF SessionsInv, RekeyContinuity
<1>8. KeyOrder' BY Zenon, <1>1 DEF SessionsInv, KeyOrder
<1> QED BY Zenon, <1>2, <1>3, <1>4, <1>5, <1>6, <1>7, <1>8 DEF SessionsInv

(* Changing only where sessions are, or how they are limited, keeps all of it. *)
LEMMA AdjustPreserves ==
  ASSUME SessionsInv, config' \in Configs,
         config'.peers = config.peers /\ config'.ca = config.ca
           /\ config'.admitted = config.admitted,
         DOMAIN active' = DOMAIN active,
         \A s \in DOMAIN active :
           /\ active'[s] \in ActivePeer
           /\ active'[s].identity = active[s].identity /\ active'[s].phase = active[s].phase,
         UNCHANGED <<pending, per_source, registered, next, installed, repeated>>
  PROVE  SessionsInv'
<1>1. TypeOK' BY Zenon DEF SessionsInv, TypeOK
<1>2. PerSourceExact' /\ KeysInstalledOnce'
  BY Zenon DEF SessionsInv, PerSourceExact, KeysInstalledOnce, From
<1>3. WithinQuota' BY Zenon DEF SessionsInv, WithinQuota, PerSourceLimit, Trials
<1>4. RouterExact' BY Zenon DEF SessionsInv, RouterExact
<1>5. OneSessionPerPeer' BY Zenon DEF SessionsInv, OneSessionPerPeer
<1>6. OnlyConfiguredPeers' BY DEF SessionsInv, OnlyConfiguredPeers, Configured
<1>7. RekeyContinuity' BY Zenon DEF SessionsInv, RekeyContinuity
<1>8. KeyOrder' BY Zenon DEF SessionsInv, KeyOrder
<1> QED BY Zenon, <1>1, <1>2, <1>3, <1>4, <1>5, <1>6, <1>7, <1>8 DEF SessionsInv

(* A roam changes the endpoint only. *)
LEMMA RoamPreserves ==
  ASSUME SessionsInv, NEW s \in DOMAIN active, NEW e \in Endpoints, Roam(s, e)
  PROVE  SessionsInv'
<1>1. /\ DOMAIN active' = DOMAIN active
      /\ \A t \in DOMAIN active :
           active'[t] = IF t = s THEN [active[s] EXCEPT !.endpoint = e] ELSE active[t]
  BY Zenon DEF Roam
<1>2. \A t \in DOMAIN active : active[t] \in ActivePeer BY Zenon DEF SessionsInv, TypeOK
<1>3. \A t \in DOMAIN active :
        /\ active'[t] \in ActivePeer
        /\ active'[t].identity = active[t].identity /\ active'[t].phase = active[t].phase
  BY Zenon, <1>1, <1>2 DEF ActivePeer
<1>4. config' = config /\ config \in Configs BY Zenon DEF SessionsInv, TypeOK, Roam
<1>5. UNCHANGED <<pending, per_source, registered, next, installed, repeated>> BY Zenon DEF Roam
<1> QED BY Zenon, <1>1, <1>3, <1>4, <1>5, AdjustPreserves

(* The retry timer removes attempts and uncounts each of them. *)
LEMMA RetransmitPreserves ==
  ASSUME SessionsInv, RetransmitPending
  PROVE  SessionsInv'
<1> DEFINE expired == {s \in DOMAIN pending : pending[s].attempts >= RETRY_LIMIT}
<1>0. TypeOK BY Zenon DEF SessionsInv
<1>1. /\ per_source' = Uncounted(expired)
      /\ pending' = [s \in DOMAIN pending \ expired |-> [pending[s] EXCEPT !.attempts = @ + 1]]
      /\ UNCHANGED <<active, registered, config, next, installed, repeated>>
  BY Zenon DEF RetransmitPending
<1>2. \A s \in DOMAIN pending' :
        /\ s \in DOMAIN pending
        /\ pending'[s] = [pending[s] EXCEPT !.attempts = @ + 1]
        /\ ~(pending[s].attempts >= RETRY_LIMIT)
        /\ pending[s] \in PendingEntry
  BY Zenon, <1>0, <1>1 DEF TypeOK
<1>3. ASSUME NEW s \in DOMAIN pending'
      PROVE  /\ pending'[s] \in PendingEntry
             /\ pending'[s].endpoint = pending[s].endpoint
             /\ pending'[s].source = pending[s].source /\ pending'[s].kind = pending[s].kind
             /\ pending'[s].phase = pending[s].phase /\ pending'[s].admitted = pending[s].admitted
  <2>1. pending[s].attempts \in 1..RETRY_LIMIT BY Zenon, <1>2 DEF PendingEntry
  <2>2. pending[s].attempts + 1 \in 1..RETRY_LIMIT BY <2>1, <1>2, BoundsAssumption
  <2> QED BY <2>2, <1>2 DEF PendingEntry
<1>4. DOMAIN pending' = DOMAIN pending \ expired /\ expired \in SUBSET DOMAIN pending BY Zenon, <1>1
<1> HIDE DEF expired
<1>5. /\ DOMAIN pending' \subseteq 1..(next' - 1) /\ per_source' \in [Endpoints -> Nat]
      /\ PerSourceExact' /\ WithinQuota'
  BY Zenon, <1>1, <1>3, <1>4, RemovalKeeps
<1>6. TypeOK' BY Zenon, <1>0, <1>1, <1>3, <1>5 DEF TypeOK
<1>7. RouterExact' /\ OneSessionPerPeer' /\ KeysInstalledOnce'
  BY Zenon, <1>1 DEF SessionsInv, RouterExact, OneSessionPerPeer, KeysInstalledOnce
<1>8. OnlyConfiguredPeers'
  BY <1>1, <1>3, <1>4 DEF SessionsInv, OnlyConfiguredPeers, Configured
<1>9. RekeyContinuity' BY <1>1, <1>3, <1>4 DEF SessionsInv, RekeyContinuity
<1>10. KeyOrder' BY Zenon, <1>1, <1>3, <1>4 DEF SessionsInv, KeyOrder
<1> QED BY Zenon, <1>5, <1>6, <1>7, <1>8, <1>9, <1>10 DEF SessionsInv

(* Emptying the tables, whatever configuration is in force then. *)
LEMMA EmptyPreserves ==
  ASSUME SessionsInv, config' \in Configs, pending' = Without(pending, DOMAIN pending),
         per_source' = [e \in Endpoints |-> 0], DropSessions(DOMAIN active),
         UNCHANGED <<next, installed, repeated>>
  PROVE  SessionsInv' /\ DOMAIN active' = {} /\ DOMAIN pending' = {}
<1>0. TypeOK BY Zenon DEF SessionsInv
<1>1. DOMAIN active' = {} /\ DOMAIN pending' = {} BY Zenon DEF DropSessions, Without
<1>2. per_source' = [e \in Endpoints |-> 0] BY Zenon
<1>3. registered' = [s \in {} |-> 0] BY Zenon DEF DropSessions, Without, SessionsInv, RouterExact
<1>4. TypeOK'
  <2>1. per_source' \in [Endpoints -> Nat] BY <1>2
  <2> QED BY Zenon, <1>0, <1>1, <2>1 DEF TypeOK
<1>5. PerSourceExact'
  <2> SUFFICES ASSUME NEW e \in Endpoints
               PROVE  per_source'[e] = Cardinality(From(pending', e))
    BY Zenon DEF PerSourceExact, From
  <2>1. From(pending', e) = {} BY Zenon, <1>1 DEF From
  <2> QED BY Zenon, <2>1, <1>2, FS_EmptySet
<1>6. WithinQuota'
  <2>1. PICK c \in Configs : c = config' BY Zenon
  <2>2. PerSourceLimit(c) \in Nat BY Zenon, TrialsFacts
  <2> QED BY <1>2, <2>1, <2>2 DEF WithinQuota
<1>7. RouterExact' BY Zenon, <1>1, <1>3 DEF RouterExact
<1>8. KeysInstalledOnce' BY Zenon DEF SessionsInv, KeysInstalledOnce
<1> QED BY Zenon, <1>1, <1>4, <1>5, <1>6, <1>7, <1>8
        DEF SessionsInv, OneSessionPerPeer, OnlyConfiguredPeers, RekeyContinuity, KeyOrder

(* A reload empties the tables of what it no longer authorizes. *)
LEMMA ReloadPreserves ==
  ASSUME SessionsInv, NEW c \in Configs, ReloadConfig(c)
  PROVE  SessionsInv'
<1>0. TypeOK /\ config' = c /\ UNCHANGED <<next, installed, repeated>>
  BY Zenon DEF SessionsInv, ReloadConfig
<1>1. CASE AuthChanged(c)
  <2>1. /\ DropSessions(DOMAIN active) /\ pending' = Without(pending, DOMAIN pending)
        /\ per_source' = [e \in Endpoints |-> 0]
    BY Zenon, <1>1 DEF ReloadConfig
  <2> QED BY Zenon, <1>0, <2>1, EmptyPreserves
<1>2. CASE ~AuthChanged(c)
  <2>1. c.peers = config.peers /\ c.ca = config.ca /\ c.admitted = config.admitted
    BY Zenon, <1>2 DEF AuthChanged
  <2>2. active' = Relimited(c) /\ UNCHANGED <<pending, per_source, registered>>
    BY Zenon, <1>2 DEF ReloadConfig
  <2>3. c.rx \in Nat BY Zenon, ConfigsAssumption
  <2>4. DOMAIN active' = DOMAIN active BY Zenon, <2>2 DEF Relimited
  <2>5. ASSUME NEW s \in DOMAIN active
        PROVE  /\ active'[s] \in ActivePeer
               /\ active'[s].identity = active[s].identity /\ active'[s].phase = active[s].phase
    <3>1. active[s] \in ActivePeer BY Zenon, <1>0 DEF TypeOK
    <3>2. CASE c.rx = config.rx BY Zenon, <2>2, <3>1, <3>2 DEF Relimited
    <3>3. CASE c.rx # config.rx
      <4>1. active'[s] = [active[s] EXCEPT !.rx_rate = c.rx] BY Zenon, <2>2, <3>3 DEF Relimited
      <4> QED BY Zenon, <2>3, <3>1, <4>1 DEF ActivePeer
    <3> QED BY Zenon, <3>2, <3>3
  <2> QED BY Zenon, <1>0, <2>1, <2>2, <2>4, <2>5, AdjustPreserves
<1> QED BY Zenon, <1>1, <1>2

(* A step that changes nothing keeps it. *)
LEMMA StutterPreserves == SessionsInv /\ UNCHANGED vars => SessionsInv'
<1> SUFFICES ASSUME SessionsInv, UNCHANGED vars PROVE SessionsInv' BY Zenon
<1>1. TypeOK' BY Zenon DEF vars, SessionsInv, TypeOK
<1>2. PerSourceExact' /\ WithinQuota' /\ KeysInstalledOnce'
  BY Zenon DEF vars, SessionsInv, PerSourceExact, WithinQuota, KeysInstalledOnce, From
<1>3. RouterExact' /\ OneSessionPerPeer' BY Zenon DEF vars, SessionsInv, RouterExact, OneSessionPerPeer
<1>4. OnlyConfiguredPeers' BY Zenon DEF vars, SessionsInv, OnlyConfiguredPeers, Configured
<1>5. RekeyContinuity' BY Zenon DEF vars, SessionsInv, RekeyContinuity
<1>6. KeyOrder' BY Zenon DEF vars, SessionsInv, KeyOrder
<1> QED BY Zenon, <1>1, <1>2, <1>3, <1>4, <1>5, <1>6 DEF SessionsInv

(* Every step of the event loop keeps the invariant. *)
LEMMA NextPreserves == SessionsInv /\ [Next]_vars => SessionsInv'
<1> SUFFICES ASSUME SessionsInv, [Next]_vars PROVE SessionsInv' BY Zenon
<1>1. ASSUME NEW e \in Endpoints, BeginInitial(e) PROVE SessionsInv'
  BY Zenon, <1>1, BeginInitialPreserves
<1>2. ASSUME NEW s \in DOMAIN active, NEW e \in Endpoints, NEW phase \in 0..MAX_HS,
             BeginRekey(s, e, phase)
      PROVE  SessionsInv'
  BY Zenon, <1>2, BeginRekeyPreserves
<1>3. ASSUME NEW s \in KnownIds, NEW e \in Endpoints, NEW k \in Kinds,
             NEW attempt \in KnownAttempts, NEW signer \in Identities,
             FinishPending(s, e, k, attempt, signer)
      PROVE  SessionsInv'
  BY Zenon, <1>3, FinishPendingPreserves, StutterPreserves
<1>4. ASSUME NEW s \in DOMAIN active, NEW e \in Endpoints, Roam(s, e) PROVE SessionsInv'
  BY Zenon, <1>4, RoamPreserves
<1>5. ASSUME NEW s \in DOMAIN active, Close(s) PROVE SessionsInv'
  <2>1. /\ {s} \in SUBSET DOMAIN active /\ DropSessions({s})
        /\ UNCHANGED <<pending, per_source, config, next, installed, repeated>>
    BY Zenon, <1>5 DEF Close
  <2> QED BY Zenon, <2>1, DropPreserves
<1>6. ASSUME NEW stale \in SUBSET DOMAIN active, Sweep(stale) PROVE SessionsInv'
  <2>1. /\ DropSessions(stale)
        /\ UNCHANGED <<pending, per_source, config, next, installed, repeated>>
    BY Zenon, <1>6 DEF Sweep
  <2> QED BY Zenon, <2>1, DropPreserves
<1>7. CASE RetransmitPending BY Zenon, <1>7, RetransmitPreserves
<1>8. ASSUME NEW c \in Configs, ReloadConfig(c) PROVE SessionsInv' BY Zenon, <1>8, ReloadPreserves
<1>9. CASE UNCHANGED vars BY Zenon, <1>9, StutterPreserves
<1> QED BY Zenon, <1>1, <1>2, <1>3, <1>4, <1>5, <1>6, <1>7, <1>8, <1>9 DEF Next

-----------------------------------------------------------------------------
(* The tables of the server stay consistent with each other through every mix
   of handshakes, rekeys, roaming, closes, sweeps, retries and reloads. *)
THEOREM SessionsInvariant == Spec => []SessionsInv
<1>1. Init => SessionsInv BY Zenon, InitEstablishes
<1>2. SessionsInv /\ [Next]_vars => SessionsInv' BY Zenon, NextPreserves
<1> QED BY <1>1, <1>2, PTL DEF Spec

(* A source's counter equals what it counts and stays within
   per_source_pending_limit. *)
THEOREM QuotaKept == Spec => []QuotaExact
<1>1. SessionsInv => QuotaExact BY Zenon DEF SessionsInv, QuotaExact
<1> QED BY <1>1, SessionsInvariant, PTL

(* The router follows the sessions, finish_pending leaves a peer at most one,
   and after reload_config nothing is left of a peer the new file does not have. *)
THEOREM SessionsFollow == Spec => []SessionsExact
<1>1. SessionsInv => SessionsExact BY Zenon DEF SessionsInv, SessionsExact
<1> QED BY <1>1, SessionsInvariant, PTL

(* A rekey pending for a live session is for its identity and its next phase. *)
THEOREM RekeysContinue == Spec => []RekeyContinuity
<1>1. SessionsInv => RekeyContinuity BY Zenon DEF SessionsInv
<1> QED BY <1>1, SessionsInvariant, PTL

(* No session id and key phase is ever given keys twice. *)
THEOREM KeysNeverReinstalled == Spec => []KeysInstalledOnce
<1>1. SessionsInv => KeysInstalledOnce BY Zenon DEF SessionsInv
<1> QED BY <1>1, SessionsInvariant, PTL

(* Only finish_pending brings a session with new keys, and it drops the other
   sessions of that identity alone. *)
THEOREM EvictionsOwn == Spec => EvictsOnlyOwn
<1> DEFINE Own == \A s \in DOMAIN active \ DOMAIN active', t \in DOMAIN active' :
                    (t \notin DOMAIN active \/ active[t].keys # active'[t].keys)
                      => active'[t].identity = active[s].identity
<1>1. SessionsInv /\ [Next]_vars => Own
  <2> SUFFICES ASSUME SessionsInv, [Next]_vars PROVE Own BY Zenon
  <2>1. DOMAIN active \subseteq DOMAIN active' => Own BY Zenon
  <2>2. (\A t \in DOMAIN active' : t \in DOMAIN active /\ active'[t] = active[t]) => Own BY Zenon
  <2>3. ASSUME NEW s \in KnownIds, NEW e \in Endpoints, NEW k \in Kinds,
               NEW attempt \in KnownAttempts, NEW signer \in Identities,
               FinishPending(s, e, k, attempt, signer)
        PROVE  Own
    <3>1. CASE UNCHANGED active BY Zenon, <2>1, <3>1
    <3>2. CASE Establish(s, e, signer)
      <4> DEFINE id == IdentityOf(pending[s], signer)
                 new == NewPeer(s, pending[s], id, e)
      <4>1. active' = Merge([x \in {s} |-> new], Without(active, Evicted(s, id)))
        BY Zenon, <3>2 DEF Establish
      <4>2. new.identity = id BY Zenon DEF NewPeer
      <4> HIDE DEF new, id
      <4>3. /\ active'[s] = new /\ s \in DOMAIN active'
            /\ \A t \in DOMAIN active' : t # s => t \in DOMAIN active /\ active'[t] = active[t]
            /\ \A t \in DOMAIN active \ DOMAIN active' : active[t].identity = id
        BY Zenon, <4>1 DEF Merge, Without, Evicted
      <4> QED BY Zenon, <4>2, <4>3
    <3> QED BY Zenon, <2>3, <3>1, <3>2 DEF FinishPending
  <2>4. ASSUME NEW S, DropSessions(S) PROVE Own BY Zenon, <2>2, <2>4 DEF DropSessions, Without
  <2>5. ASSUME NEW c \in Configs, ReloadConfig(c) PROVE Own
    <3>1. CASE AuthChanged(c) BY Zenon, <2>4, <2>5, <3>1 DEF ReloadConfig
    <3>2. CASE ~AuthChanged(c)
      <4>1. DOMAIN active' = DOMAIN active BY Zenon, <2>5, <3>2 DEF ReloadConfig, Relimited
      <4> QED BY Zenon, <2>1, <4>1
    <3> QED BY Zenon, <3>1, <3>2
  <2>6. ASSUME NEW s \in DOMAIN active, NEW e \in Endpoints, Roam(s, e) PROVE Own
    BY Zenon, <2>1, <2>6 DEF Roam
  <2>7. CASE UNCHANGED active BY Zenon, <2>1, <2>7
  <2> QED
    BY Zenon, <2>3, <2>4, <2>5, <2>6, <2>7
       DEF Next, BeginInitial, BeginRekey, RetransmitPending, Close, Sweep, vars
<1> QED BY <1>1, SessionsInvariant, PTL DEF Spec, EvictsOnlyOwn
=============================================================================
