----------------------------- MODULE QueueProofs ------------------------------
(***************************************************************************)
(* Proofs about OutboundQueue, for any peers, sizes, limits and rates.     *)
(* Rotation, counts and queues agree and stay within their capacities; a   *)
(* peer that is not limited is sent a quantum and a packet at most between *)
(* two looks at another one that waits; a limited one never more than its  *)
(* rate allows, although its bucket is forgotten when it is idle.          *)
(***************************************************************************)
EXTENDS OutboundQueue, FiniteSetTheorems, TLAPS

-----------------------------------------------------------------------------
(* Sequences without repetition: what the rotation goes through. *)

(* A peer that was not waiting goes to the back of the rotation. *)
LEMMA AppendOnce ==
  ASSUME NEW K, NEW s \in Seq(K), NEW k \in K
  PROVE  /\ Append(s, k) \in Seq(K)
         /\ Range(Append(s, k)) = Range(s) \cup {k}
         /\ IsInjective(s) /\ k \notin Range(s) => IsInjective(Append(s, k))
         /\ \A i, j : Precedes(Append(s, k), i, j) => Precedes(s, i, j) \/ (i \in Range(s) /\ j = k)
<1> DEFINE t == Append(s, k)
<1>1. /\ t \in Seq(K) /\ DOMAIN t = 1..Len(t) /\ Len(t) = Len(s) + 1 /\ DOMAIN s = 1..Len(s)
      /\ t[Len(s) + 1] = k
      /\ \A i \in 1..Len(s) : t[i] = s[i]
      /\ Len(s) \in Nat
  OBVIOUS
<1> HIDE DEF t
<1>2. Range(t) = Range(s) \cup {k}
  <2>1. ASSUME NEW x \in Range(t) PROVE x \in Range(s) \cup {k}
    BY <1>1, <2>1 DEF Range
  <2>2. ASSUME NEW x \in Range(s) PROVE x \in Range(t)
    BY <1>1, <2>2 DEF Range
  <2>3. k \in Range(t)
    <3>1. Len(s) + 1 \in DOMAIN t
      BY <1>1
    <3> QED BY Zenon, <3>1, <1>1 DEF Range
  <2> QED BY Zenon, <2>1, <2>2, <2>3
<1>3. ASSUME IsInjective(s), k \notin Range(s) PROVE IsInjective(t)
  <2>1. \A i \in 1..Len(s) : s[i] # k
    BY Zenon, <1>3, <1>1 DEF Range
  <2> QED BY <2>1, <1>3, <1>1 DEF IsInjective
<1>4. ASSUME NEW i, NEW j, Precedes(t, i, j)
      PROVE  Precedes(s, i, j) \/ (i \in Range(s) /\ j = k)
  <2>1. PICK a, b \in 1..Len(t) : a < b /\ t[a] = i /\ t[b] = j
    BY Zenon, <1>4 DEF Precedes
  <2>2. a \in 1..Len(s) /\ s[a] = i
    BY <2>1, <1>1
  <2>3. i \in Range(s)
    BY Zenon, <2>2, <1>1 DEF Range
  <2>4. CASE b = Len(s) + 1
    BY Zenon, <2>1, <2>3, <2>4, <1>1
  <2>5. CASE b # Len(s) + 1
    <3>1. b \in 1..Len(s) /\ s[b] = j
      BY <2>1, <2>5, <1>1
    <3> QED BY Zenon, <3>1, <2>1, <2>2 DEF Precedes
  <2> QED BY Zenon, <2>4, <2>5
<1> QED BY Zenon, <1>1, <1>2, <1>3, <1>4 DEF t

(* A peer whose turn goes on stays in front. *)
LEMMA PrependOnce ==
  ASSUME NEW K, NEW s \in Seq(K), NEW k \in K
  PROVE  /\ <<k>> \o s \in Seq(K)
         /\ Range(<<k>> \o s) = Range(s) \cup {k}
         /\ IsInjective(s) /\ k \notin Range(s) => IsInjective(<<k>> \o s)
         /\ \A i, j : Precedes(<<k>> \o s, i, j) => Precedes(s, i, j) \/ (i = k /\ j \in Range(s))
         /\ (<<k>> \o s)[1] = k
<1> DEFINE t == <<k>> \o s
<1>1. /\ t \in Seq(K) /\ DOMAIN t = 1..Len(t) /\ Len(t) = Len(s) + 1 /\ DOMAIN s = 1..Len(s)
      /\ t[1] = k
      /\ \A i \in 2..Len(t) : t[i] = s[i - 1]
      /\ Len(s) \in Nat
  OBVIOUS
<1> HIDE DEF t
<1>0. \A i \in 1..Len(s) : i + 1 \in 1..Len(t) /\ t[i + 1] = s[i]
  BY <1>1
<1>2. Range(t) = Range(s) \cup {k}
  <2>1. ASSUME NEW x \in Range(t) PROVE x \in Range(s) \cup {k}
    <3>1. PICK i \in 1..Len(t) : x = t[i]
      BY Zenon, <1>1, <2>1 DEF Range
    <3>2. CASE i = 1
      BY Zenon, <3>1, <3>2, <1>1
    <3>3. CASE i # 1
      <4>1. i - 1 \in 1..Len(s) /\ x = s[i - 1]
        BY <3>1, <3>3, <1>1
      <4> QED BY Zenon, <4>1, <1>1 DEF Range
    <3> QED BY Zenon, <3>2, <3>3
  <2>2. ASSUME NEW x \in Range(s) PROVE x \in Range(t)
    <3>1. PICK i \in 1..Len(s) : x = s[i]
      BY Zenon, <1>1, <2>2 DEF Range
    <3>2. i + 1 \in DOMAIN t /\ t[i + 1] = x
      BY Zenon, <1>0, <1>1, <3>1
    <3> QED BY Zenon, <3>2 DEF Range
  <2>3. k \in Range(t)
    <3>1. 1 \in DOMAIN t
      BY <1>1
    <3> QED BY Zenon, <3>1, <1>1 DEF Range
  <2> QED BY Zenon, <2>1, <2>2, <2>3
<1>3. ASSUME IsInjective(s), k \notin Range(s) PROVE IsInjective(t)
  <2>1. \A i \in 1..Len(s) : s[i] # k
    BY Zenon, <1>3, <1>1 DEF Range
  <2>2. ASSUME NEW a \in 1..Len(t), NEW b \in 1..Len(t), t[a] = t[b] PROVE a = b
    <3>1. CASE a = 1 \/ b = 1
      BY <3>1, <2>1, <2>2, <1>1
    <3>2. CASE a # 1 /\ b # 1
      <4>1. a - 1 \in 1..Len(s) /\ b - 1 \in 1..Len(s) /\ s[a - 1] = s[b - 1]
        BY <3>2, <2>2, <1>1
      <4>2. a - 1 = b - 1
        BY Zenon, <4>1, <1>3, <1>1 DEF IsInjective
      <4> QED BY <4>2
    <3> QED BY Zenon, <3>1, <3>2
  <2> QED BY Zenon, <2>2, <1>1 DEF IsInjective
<1>4. ASSUME NEW i, NEW j, Precedes(t, i, j)
      PROVE  Precedes(s, i, j) \/ (i = k /\ j \in Range(s))
  <2>1. PICK a, b \in 1..Len(t) : a < b /\ t[a] = i /\ t[b] = j
    BY Zenon, <1>4 DEF Precedes
  <2>2. b - 1 \in 1..Len(s) /\ s[b - 1] = j
    BY <2>1, <1>1
  <2>3. j \in Range(s)
    BY Zenon, <2>2, <1>1 DEF Range
  <2>4. CASE a = 1
    BY Zenon, <2>1, <2>3, <2>4, <1>1
  <2>5. CASE a # 1
    <3>1. a - 1 \in 1..Len(s) /\ s[a - 1] = i /\ a - 1 < b - 1
      BY <2>1, <2>5, <1>1
    <3> QED BY Zenon, <3>1, <2>2 DEF Precedes
  <2> QED BY Zenon, <2>4, <2>5
<1> QED BY Zenon, <1>1, <1>2, <1>3, <1>4 DEF t

(* The keys of a front part of the rotation. *)
LEMMA FrontKeys ==
  ASSUME NEW K, NEW s \in Seq(K), NEW m \in 0..Len(s)
  PROVE  Range(SubSeq(s, 1, m)) = {s[i] : i \in 1..m}
<1>1. /\ DOMAIN SubSeq(s, 1, m) = 1..m
      /\ \A i \in 1..m : SubSeq(s, 1, m)[i] = s[i]
  OBVIOUS
<1> QED BY Zenon, <1>1 DEF Range

(* One look that serves s[n] moves the peers passed over to the back: the
   others are those of the rotation without s[n], and of two of them the second
   was passed over or both keep their order behind s[n]. *)
LEMMA Rotated ==
  ASSUME NEW K, NEW s \in Seq(K), IsInjective(s), NEW n \in 1..Len(s)
  PROVE  LET o == SubSeq(s, n + 1, Len(s)) \o SubSeq(s, 1, n - 1)
         IN  /\ o \in Seq(K)
             /\ Range(o) = Range(s) \ {s[n]}
             /\ IsInjective(o)
             /\ \A i, j : Precedes(o, i, j) =>
                  \/ \E b \in 1..(n - 1) : s[b] = j
                  \/ \E a, b \in (n + 1)..Len(s) : a < b /\ s[a] = i /\ s[b] = j
<1> DEFINE l == SubSeq(s, n + 1, Len(s))
           p == SubSeq(s, 1, n - 1)
           o == l \o p
           r == Len(s) - n
           Place(i) == IF i <= r THEN n + i ELSE i - r
<1>1. /\ DOMAIN s = 1..Len(s) /\ Len(s) \in Nat /\ r \in Nat
      /\ l \in Seq(K) /\ Len(l) = r
      /\ \A i \in 1..r : l[i] = s[n + i]
      /\ p \in Seq(K) /\ Len(p) = n - 1
      /\ \A i \in 1..(n - 1) : p[i] = s[i]
  OBVIOUS
<1>2. /\ o \in Seq(K) /\ Len(o) = r + (n - 1) /\ DOMAIN o = 1..(Len(s) - 1)
      /\ \A i \in 1..(Len(s) - 1) : o[i] = IF i <= r THEN l[i] ELSE p[i - r]
  <2> HIDE DEF l, p, r, Place
  <2>1. /\ o \in Seq(K) /\ Len(o) = Len(l) + Len(p) /\ DOMAIN o = 1..Len(o)
        /\ \A i \in 1..(Len(l) + Len(p)) : o[i] = IF i <= Len(l) THEN l[i] ELSE p[i - Len(l)]
    <3>1. l \in Seq(K) /\ p \in Seq(K) BY Zenon, <1>1
    <3> QED BY <3>1
  <2> HIDE DEF o
  <2>2. Len(l) = r /\ Len(p) = n - 1 BY Zenon, <1>1
  <2>3. r + (n - 1) = Len(s) - 1
    <3>1. Len(s) \in Nat BY Zenon, <1>1
    <3> QED BY <3>1 DEF r
  <2> QED BY Zenon, <2>1, <2>2, <2>3
<1> HIDE DEF o, l, p
<1>3. \A i \in 1..(Len(s) - 1) :
        /\ Place(i) \in 1..Len(s) /\ Place(i) # n /\ o[i] = s[Place(i)]
        /\ i <= r => Place(i) > n
        /\ i > r => Place(i) < n
  <2>0. n \in Nat /\ n >= 1 /\ n <= Len(s) /\ Len(s) - 1 = r + (n - 1)
    BY <1>1
  <2>1. ASSUME NEW i \in 1..(Len(s) - 1), i <= r PROVE Place(i) \in (n + 1)..Len(s) /\ o[i] = s[Place(i)]
    <3>1. Place(i) = n + i /\ i \in 1..r /\ o[i] = l[i]
      <4>1. Place(i) = n + i /\ o[i] = l[i] BY Zenon, <2>1, <1>2
      <4> HIDE DEF Place
      <4>2. i \in 1..r BY <2>1, <1>1
      <4> QED BY Zenon, <4>1, <4>2
    <3> HIDE DEF Place
    <3>2. n + i \in (n + 1)..Len(s)
      BY <3>1, <2>0
    <3> QED BY Zenon, <3>1, <3>2, <1>1
  <2>2. ASSUME NEW i \in 1..(Len(s) - 1), i > r PROVE Place(i) \in 1..(n - 1) /\ o[i] = s[Place(i)]
    <3>1. Place(i) = i - r /\ o[i] = p[i - r]
      <4>1. ~(i <= r) BY <2>2, <1>1
      <4> QED BY Zenon, <2>2, <4>1, <1>2
    <3> HIDE DEF Place, r
    <3>2. i - r \in 1..(n - 1)
      BY <2>2, <2>0, <1>1
    <3> QED BY Zenon, <3>1, <3>2, <1>1
  <2> HIDE DEF Place
  <2> QED BY <2>1, <2>2, <1>1
<1>4. \A i, j \in 1..(Len(s) - 1) :
        /\ Place(i) = Place(j) => i = j
        /\ i < j /\ j <= r => Place(i) < Place(j)
  BY <1>1
<1>5. \A m \in 1..Len(s) : m # n => \E i \in 1..(Len(s) - 1) : Place(i) = m
  <2>1. SUFFICES ASSUME NEW m \in 1..Len(s), m # n
                 PROVE  \E i \in 1..(Len(s) - 1) : Place(i) = m
    BY Zenon
  <2>2. CASE m > n
    <3>1. m - n \in 1..(Len(s) - 1) /\ Place(m - n) = m
      BY <2>1, <2>2, <1>1
    <3> QED BY Zenon, <3>1
  <2>3. CASE m < n
    <3>1. m + r \in 1..(Len(s) - 1) /\ Place(m + r) = m
      BY <2>1, <2>3, <1>1
    <3> QED BY Zenon, <3>1
  <2> QED BY <2>1, <2>2, <2>3
<1> HIDE DEF Place, r
<1>6. \A a, b \in 1..Len(s) : s[a] = s[b] => a = b
  BY Zenon, <1>1 DEF IsInjective
<1>7. Range(o) = Range(s) \ {s[n]}
  <2>1. ASSUME NEW x \in Range(o) PROVE x \in Range(s) \ {s[n]}
    <3>1. PICK i \in 1..(Len(s) - 1) : x = o[i]
      BY Zenon, <2>1, <1>2 DEF Range
    <3> QED BY <3>1, <1>1, <1>3, <1>6 DEF Range
  <2>2. ASSUME NEW x \in Range(s), x # s[n] PROVE x \in Range(o)
    <3>1. PICK m \in 1..Len(s) : x = s[m]
      BY Zenon, <2>2, <1>1 DEF Range
    <3>2. PICK i \in 1..(Len(s) - 1) : Place(i) = m
      BY Zenon, <3>1, <2>2, <1>5
    <3> QED BY Zenon, <3>1, <3>2, <1>2, <1>3 DEF Range
  <2> QED BY Zenon, <2>1, <2>2
<1>8. IsInjective(o)
  <2>1. ASSUME NEW a \in 1..(Len(s) - 1), NEW b \in 1..(Len(s) - 1), o[a] = o[b] PROVE a = b
    BY Zenon, <2>1, <1>3, <1>4, <1>6
  <2> QED BY Zenon, <2>1, <1>2 DEF IsInjective
<1>9. ASSUME NEW i, NEW j, Precedes(o, i, j)
      PROVE  \/ \E b \in 1..(n - 1) : s[b] = j
             \/ \E a, b \in (n + 1)..Len(s) : a < b /\ s[a] = i /\ s[b] = j
  <2>1. Len(o) = Len(s) - 1
    BY <1>2, <1>1 DEF r
  <2>2. PICK a, b \in 1..(Len(s) - 1) : a < b /\ o[a] = i /\ o[b] = j
    BY Zenon, <1>9, <2>1 DEF Precedes
  <2>3. CASE b > r
    <3>1. Place(b) \in 1..(n - 1) /\ s[Place(b)] = j
      BY <2>2, <2>3, <1>1, <1>3
    <3> QED BY Zenon, <3>1
  <2>4. CASE b <= r
    <3>1. /\ Place(a) \in (n + 1)..Len(s) /\ Place(b) \in (n + 1)..Len(s) /\ Place(a) < Place(b)
          /\ s[Place(a)] = i /\ s[Place(b)] = j
      BY <2>2, <2>4, <1>1, <1>3, <1>4
    <3> QED BY Zenon, <3>1
  <2>5. r \in Int /\ b \in Int
    BY <1>1
  <2> QED BY <2>3, <2>4, <2>5
<1> QED BY Zenon, <1>2, <1>7, <1>8, <1>9 DEF o, l, p

-----------------------------------------------------------------------------
(* What the constants, the fields of a queue and the queues of a state are. *)

(* The sizes and limits are numbers, and a size is one that a quantum serves. *)
LEMMA QueueConstants ==
  /\ QUANTUM \in Nat /\ QUANTUM > 0 /\ MAX_SIZE \in Nat /\ MAX_DEFICIT \in Nat
  /\ MAX_SIZE <= MAX_DEFICIT /\ IDLE \in Nat /\ IDLE > 0
  /\ CAPACITY \in Nat /\ CAPACITY > 0 /\ PER_PEER \in Nat /\ PER_PEER > 0 /\ PER_PEER <= CAPACITY
  /\ MAX_TRACKED \in Nat /\ MAX_TRACKED > 0
  /\ \A s \in Sizes : s \in Nat /\ s > 0 /\ s <= MAX_SIZE
BY QueueAssumption

(* A limited rate fills its bucket within the time after which a queue is
   forgotten, and only an unlimited one has no bucket. *)
LEMMA Buckets ==
  ASSUME NEW r \in Rates
  PROVE  /\ r \in Nat /\ BucketCapacity(r) \in Nat
         /\ r # 0 => BucketCapacity(r) = r * IDLE
         /\ r * IDLE <= BucketCapacity(r)
         /\ NewBucket(r) \in Nat \cup {NoBucket}
         /\ NewBucket(r) = NoBucket <=> r = 0
         /\ r # 0 => NewBucket(r) = BucketCapacity(r)
<1>1. r \in Nat /\ r * IDLE \in Nat /\ (r # 0 => r * IDLE >= MAX_SIZE) /\ MAX_SIZE \in Nat
  BY QueueConstants, RatesAssumption
<1> QED BY <1>1 DEF BucketCapacity, NewBucket, NoBucket

(* The packets of a table. *)
LEMMA InStored ==
  ASSUME NEW t
  PROVE  \A x : x \in Stored(t) <=> \E j \in DOMAIN t : \E i \in DOMAIN t[j].packets : x = <<j, i>>
BY DEF Stored

(* The fields of a queue, and what they say of it. *)
LEMMA QueueFields ==
  ASSUME NEW q \in PeerQueue
  PROVE  /\ q.packets \in Seq(Sizes) /\ q.deficit \in Nat /\ q.in_round \in BOOLEAN
         /\ q.tokens \in Nat \cup {NoBucket} /\ q.age \in 0..IDLE
         /\ Len(q.packets) \in Nat /\ DOMAIN q.packets = 1..Len(q.packets)
         /\ q.packets = <<>> <=> Len(q.packets) = 0
         /\ Len(q.packets) > 0 => /\ Head(q.packets) \in Sizes /\ Tail(q.packets) \in Seq(Sizes)
                                  /\ Len(Tail(q.packets)) = Len(q.packets) - 1
<1>1. /\ q.packets \in Seq(Sizes) /\ q.deficit \in Nat /\ q.in_round \in BOOLEAN
      /\ q.tokens \in Nat \cup {NoBucket} /\ q.age \in 0..IDLE
  BY Zenon DEF PeerQueue
<1> DEFINE p == q.packets
<1>2. p \in Seq(Sizes) BY Zenon, <1>1
<1> HIDE DEF p
<1>3. /\ Len(p) \in Nat /\ DOMAIN p = 1..Len(p)
      /\ p = <<>> <=> Len(p) = 0
      /\ Len(p) > 0 => Head(p) \in Sizes /\ Tail(p) \in Seq(Sizes) /\ Len(Tail(p)) = Len(p) - 1
  <2>1. Len(p) \in Nat /\ DOMAIN p = 1..Len(p) /\ (p = <<>> <=> Len(p) = 0)
    BY <1>2
  <2>2. ASSUME Len(p) > 0 PROVE Head(p) \in Sizes /\ Tail(p) \in Seq(Sizes) /\ Len(Tail(p)) = Len(p) - 1
    BY <1>2, <2>2
  <2> QED BY Zenon, <2>1, <2>2
<1> QED BY Zenon, <1>1, <1>3 DEF p

(* A tracked peer waits if it has a packet, any other one does not. *)
LEMMA TrackedFacts ==
  ASSUME QueueTypeOK
  PROVE  /\ \A k \in DOMAIN peers :
              /\ peers[k] \in PeerQueue /\ k \in Keys
              /\ Backlog(peers, k) = Len(peers[k].packets)
              /\ Waiting(k) <=> Len(peers[k].packets) > 0
         /\ \A k : k \notin DOMAIN peers => Backlog(peers, k) = 0 /\ ~Waiting(k)
BY DEF QueueTypeOK, Waiting, Backlog

(* What a visit tops up is a number that never goes beyond a quantum more. *)
LEMMA ToppedFacts ==
  ASSUME NEW k, peers[k] \in PeerQueue
  PROVE  /\ Topped(k) \in Nat
         /\ Topped(k) <= peers[k].deficit + QUANTUM
         /\ peers[k].in_round => Topped(k) = peers[k].deficit
         /\ PassedOver(k) \in PeerQueue
         /\ PassedOver(k).packets = peers[k].packets /\ PassedOver(k).tokens = peers[k].tokens
         /\ PassedOver(k).age = peers[k].age /\ PassedOver(k).deficit = Topped(k)
         /\ PassedOver(k).in_round = FALSE
<1>1. peers[k].deficit \in Nat /\ peers[k].in_round \in BOOLEAN
  BY Zenon, QueueFields
<1>2. /\ Topped(k) \in Nat
      /\ Topped(k) <= peers[k].deficit + QUANTUM
      /\ peers[k].in_round => Topped(k) = peers[k].deficit
  BY <1>1, QueueConstants DEF Topped, Smaller
<1> QED BY Zenon, <1>2 DEF PassedOver, PeerQueue

-----------------------------------------------------------------------------
(* try_enqueue_keyed. *)

(* Whatever comes before another key in a rotation is in it. *)
LEMMA PrecedesIn ==
  ASSUME NEW K, NEW s \in Seq(K), NEW i, NEW j, Precedes(s, i, j)
  PROVE  i \in Range(s) /\ j \in Range(s)
BY DEF Precedes, Range

(* An enqueue forgets only queues without packets, which have been idle. *)
LEMMA KeptFacts ==
  ASSUME QueueTypeOK
  PROVE  /\ Kept \subseteq DOMAIN peers /\ IsFiniteSet(Kept)
         /\ Cardinality(Kept) <= Cardinality(DOMAIN peers) /\ Cardinality(Kept) \in Nat
         /\ Cardinality(DOMAIN peers) \in Nat
         /\ \A k : Waiting(k) => k \in Kept
         /\ \A k \in DOMAIN peers \ Kept : ~Waiting(k) /\ peers[k].age = IDLE
<1>1. Kept \subseteq DOMAIN peers
  BY Zenon DEF Kept
<1>2. IsFiniteSet(DOMAIN peers)
  BY Zenon DEF QueueTypeOK
<1>3. /\ IsFiniteSet(Kept) /\ Cardinality(Kept) <= Cardinality(DOMAIN peers)
      /\ Cardinality(Kept) \in Nat /\ Cardinality(DOMAIN peers) \in Nat
  BY Zenon, <1>1, <1>2, FS_Subset, FS_CardinalityType
<1>4. \A k : Waiting(k) => k \in Kept
  BY Zenon, TrackedFacts DEF Kept
<1>5. ASSUME NEW k \in DOMAIN peers \ Kept PROVE ~Waiting(k) /\ peers[k].age = IDLE
  <2>1. peers[k].age \in 0..IDLE
    BY Zenon, TrackedFacts, QueueFields
  <2> QED BY <2>1, <1>5, QueueConstants DEF Kept
<1> QED BY Zenon, <1>1, <1>3, <1>4, <1>5

(* The queue an accepted packet goes to. *)
LEMMA AcceptedFacts ==
  ASSUME QueueTypeOK, NEW k \in Keys, NEW size \in Sizes
  PROVE  LET q == Accepted(k, size)
         IN  /\ q \in PeerQueue /\ q.age = 0
             /\ Len(q.packets) = Backlog(peers, k) + 1
             /\ k \in Kept => /\ q.deficit = peers[k].deficit /\ q.in_round = peers[k].in_round
                              /\ q.tokens = peers[k].tokens
             /\ k \notin Kept => /\ q.deficit = 0 /\ q.in_round = FALSE
                                 /\ q.tokens = NewBucket(rate)
             /\ Waiting(k) => Head(q.packets) = Next1(k)
<1> DEFINE old == IF k \in Kept THEN peers[k] ELSE NewQueue
           q == Accepted(k, size)
<1>1. old \in PeerQueue /\ Len(old.packets) = Backlog(peers, k)
  <2>1. CASE k \in Kept
    BY Zenon, <2>1, KeptFacts, TrackedFacts
  <2>2. CASE k \notin Kept
    <3>1. ~Waiting(k) /\ Backlog(peers, k) = 0
      BY <2>2, KeptFacts, TrackedFacts, QueueFields
    <3>2. NewQueue \in PeerQueue
      BY Buckets, QueueConstants DEF QueueTypeOK, NewQueue, PeerQueue
    <3>3. Len(NewQueue.packets) = 0
      BY Zenon DEF NewQueue
    <3> QED BY Zenon, <2>2, <3>1, <3>2, <3>3
  <2> QED BY Zenon, <2>1, <2>2
<1>2. /\ k \in Kept => old = peers[k]
      /\ k \notin Kept => old.deficit = 0 /\ old.in_round = FALSE /\ old.tokens = NewBucket(rate)
  BY Zenon DEF NewQueue
<1>3. q = [old EXCEPT !.packets = Append(@, size), !.age = 0]
  BY Zenon DEF Accepted
<1>4. Waiting(k) => k \in Kept /\ Len(old.packets) > 0
  BY Zenon, <1>1, KeptFacts, TrackedFacts
<1> HIDE DEF old, q
<1>5. 0 \in 0..IDLE
  BY QueueConstants
<1>6. /\ q.packets = Append(old.packets, size) /\ q.age = 0
      /\ q.deficit = old.deficit /\ q.in_round = old.in_round /\ q.tokens = old.tokens
      /\ q \in PeerQueue
  <2>1. old.packets \in Seq(Sizes) /\ Append(old.packets, size) \in Seq(Sizes)
    BY <1>1, QueueFields
  <2>2. old = [packets |-> old.packets, deficit |-> old.deficit, in_round |-> old.in_round,
               tokens |-> old.tokens, age |-> old.age]
    BY Zenon, <1>1 DEF PeerQueue
  <2>3. q = [packets |-> Append(old.packets, size), deficit |-> old.deficit,
             in_round |-> old.in_round, tokens |-> old.tokens, age |-> 0]
    BY Zenon, <1>3, <2>2
  <2>4. old.deficit \in Nat /\ old.in_round \in BOOLEAN /\ old.tokens \in Nat \cup {NoBucket}
    BY Zenon, <1>1, QueueFields
  <2> QED BY Zenon, <2>1, <2>3, <2>4, <1>5 DEF PeerQueue
<1>7. Len(q.packets) = Len(old.packets) + 1 /\ (Len(old.packets) > 0 => Head(q.packets) = Head(old.packets))
  <2>1. old.packets \in Seq(Sizes)
    BY Zenon, <1>1, QueueFields
  <2> QED BY <2>1, <1>6
<1>8. Waiting(k) => Head(q.packets) = Next1(k)
  BY Zenon, <1>2, <1>4, <1>7 DEF Next1
<1>9. Len(q.packets) = Backlog(peers, k) + 1
  BY Zenon, <1>1, <1>7
<1>10. /\ k \in Kept => /\ q.deficit = peers[k].deficit /\ q.in_round = peers[k].in_round
                         /\ q.tokens = peers[k].tokens
       /\ k \notin Kept => q.deficit = 0 /\ q.in_round = FALSE /\ q.tokens = NewBucket(rate)
  BY Zenon, <1>2, <1>6
<1> QED BY Zenon, <1>6, <1>8, <1>9, <1>10 DEF q

(* Of a table that differs in queues without packets, the packets are the same. *)
LEMMA StoredSame ==
  ASSUME NEW t, NEW u, DOMAIN u \subseteq DOMAIN t,
         \A j \in DOMAIN u : DOMAIN u[j].packets = DOMAIN t[j].packets,
         \A j \in DOMAIN t \ DOMAIN u : DOMAIN t[j].packets = {}
  PROVE  Stored(u) = Stored(t)
<1>1. ASSUME NEW x \in Stored(u) PROVE x \in Stored(t)
  BY <1>1, InStored
<1>2. ASSUME NEW x \in Stored(t) PROVE x \in Stored(u)
  <2>1. PICK j \in DOMAIN t : \E i \in DOMAIN t[j].packets : x = <<j, i>>
    BY Zenon, <1>2, InStored
  <2>2. j \in DOMAIN u /\ \E i \in DOMAIN u[j].packets : x = <<j, i>>
    BY Zenon, <2>1
  <2> QED BY Zenon, <2>2, InStored
<1> QED BY Zenon, <1>1, <1>2

(* A refused packet: idle queues are forgotten, and nobody who waits notices. *)
LEMMA RefusedFacts ==
  ASSUME QueueTypeOK, peers' = Only(Kept)
  PROVE  /\ DOMAIN peers' = Kept
         /\ \A j \in Kept : peers'[j] = peers[j]
         /\ \A j : (Waiting(j))' <=> Waiting(j)
         /\ Stored(peers') = Stored(peers)
<1>1. DOMAIN peers' = Kept /\ \A j \in Kept : peers'[j] = peers[j]
  BY Zenon DEF Only
<1>2. ASSUME NEW j PROVE (Waiting(j))' <=> Waiting(j)
  <2>1. CASE j \in Kept
    BY Zenon, <2>1, <1>1, KeptFacts DEF Waiting, Backlog
  <2>2. CASE j \notin Kept
    BY <2>2, <1>1, KeptFacts DEF Waiting, Backlog
  <2> QED BY Zenon, <2>1, <2>2
<1>3. \A j \in DOMAIN peers \ Kept : DOMAIN peers[j].packets = {}
  <2>1. ASSUME NEW j \in DOMAIN peers \ Kept PROVE DOMAIN peers[j].packets = {}
    <3>1. Len(peers[j].packets) \in Nat /\ ~(Len(peers[j].packets) > 0) /\ DOMAIN peers[j].packets = 1..Len(peers[j].packets)
      BY Zenon, <2>1, KeptFacts, TrackedFacts, QueueFields
    <3> QED BY <3>1
  <2> QED BY Zenon, <2>1
<1>4. Stored(peers') = Stored(peers)
  BY Zenon, <1>1, <1>3, KeptFacts, StoredSame
<1> QED BY Zenon, <1>1, <1>2, <1>4

(* What is forgotten had a full bucket. *)
LEMMA ForgottenFull ==
  ASSUME QueueTypeOK, rate # 0, CreditKept, NEW k \in Keys, k \notin Kept
  PROVE  credit[k] = BucketCapacity(rate)
<1>1. CASE k \notin DOMAIN peers
  BY Zenon, <1>1 DEF CreditKept
<1>2. CASE k \in DOMAIN peers
  <2>1. peers[k].age = IDLE
    BY Zenon, <1>2, KeptFacts
  <2>2. /\ credit[k] \in 0..BucketCapacity(rate)
        /\ credit[k] >= Smaller(IDLE * rate, BucketCapacity(rate))
    BY Zenon, <1>2, <2>1 DEF CreditKept
  <2>3. rate \in Nat /\ BucketCapacity(rate) \in Nat /\ BucketCapacity(rate) = rate * IDLE
    BY Zenon, Buckets DEF QueueTypeOK
  <2>4. IDLE * rate = rate * IDLE
    BY <2>3, QueueConstants
  <2>5. Smaller(IDLE * rate, BucketCapacity(rate)) = BucketCapacity(rate)
    BY Zenon, <2>3, <2>4 DEF Smaller
  <2> QED BY <2>2, <2>3, <2>5
<1> QED BY Zenon, <1>1, <1>2

(* A packet that is refused keeps the invariant. *)
LEMMA RefusedInv ==
  ASSUME QueueInv, peers' = Only(Kept),
         UNCHANGED <<rotation, queued, rate, permit, receiver, credit, since, shaped>>
  PROVE  QueueInv'
<1>0. QueueTypeOK /\ QueuesExact
  BY Zenon DEF QueueInv
<1>1. /\ DOMAIN peers' = Kept
      /\ \A j \in Kept : peers'[j] = peers[j]
      /\ \A j : (Waiting(j))' <=> Waiting(j)
      /\ Stored(peers') = Stored(peers)
  BY Zenon, <1>0, RefusedFacts
<1>2. /\ Kept \subseteq DOMAIN peers /\ IsFiniteSet(Kept)
      /\ Cardinality(Kept) <= Cardinality(DOMAIN peers) /\ Cardinality(Kept) \in Nat
      /\ Cardinality(DOMAIN peers) \in Nat
      /\ \A k : Waiting(k) => k \in Kept
  BY Zenon, <1>0, KeptFacts
<1>3. QueueTypeOK'
  <2>1. peers' \in [DOMAIN peers' -> PeerQueue]
    BY Zenon, <1>0, <1>1, <1>2, TrackedFacts DEF Only
  <2>2. DOMAIN peers' \subseteq Keys /\ IsFiniteSet(DOMAIN peers') /\ IsFiniteSet(Stored(peers'))
    BY Zenon, <1>0, <1>1, <1>2 DEF QueueTypeOK
  <2>3. \A k \in DOMAIN peers' : ~(Waiting(k))' => peers'[k].deficit = 0 /\ ~peers'[k].in_round
    BY Zenon, <1>0, <1>1, <1>2 DEF QueueTypeOK
  <2> QED BY Zenon, <1>0, <2>1, <2>2, <2>3 DEF QueueTypeOK
<1>4. QueuesExact'
  <2>1. RotationExact'
    BY Zenon, <1>0, <1>1, <1>2 DEF QueuesExact, RotationExact
  <2>2. CapacityKept'
    <3>1. \A k \in DOMAIN peers' : Len(peers'[k].packets) <= PER_PEER /\ (peers'[k].tokens = NoBucket <=> rate = 0)
      BY Zenon, <1>0, <1>1, <1>2 DEF QueuesExact, CapacityKept
    <3>2. Cardinality(DOMAIN peers') <= MAX_TRACKED
      BY <1>0, <1>1, <1>2, QueueConstants DEF QueuesExact, CapacityKept
    <3> QED BY Zenon, <1>0, <1>1, <3>1, <3>2 DEF QueuesExact, CapacityKept
  <2> QED BY Zenon, <2>1, <2>2 DEF QueuesExact
<1>5. FairShare'
  BY Zenon, <1>1 DEF QueueInv, FairShare
<1>6. ASSUME ~shaped PROVE DeficitKept' /\ SentBefore'
  <2>0. DeficitKept /\ SentBefore
    BY Zenon, <1>6 DEF QueueInv
  <2>1. DeficitKept'
    BY <1>1, <1>2, <2>0 DEF DeficitKept, Next1
  <2>2. \A i, j : Precedes(rotation, i, j) => i \in Kept
    <3>1. rotation \in Seq(Keys) /\ \A i \in Range(rotation) : Waiting(i)
      BY Zenon, <1>0 DEF QueueTypeOK, QueuesExact, RotationExact
    <3> QED BY Zenon, <3>1, <1>2, PrecedesIn
  <2>3. SentBefore'
    BY Zenon, <1>1, <2>0, <2>2 DEF SentBefore
  <2> QED BY Zenon, <2>1, <2>3
<1>7. ASSUME rate # 0 PROVE CreditKept'
  <2>0. CreditKept
    BY Zenon, <1>7 DEF QueueInv
  <2>1. \A k \in Keys : k \notin Kept => credit[k] = BucketCapacity(rate)
    BY Zenon, <1>0, <1>7, <2>0, ForgottenFull
  <2> QED BY Zenon, <1>1, <1>2, <2>0, <2>1 DEF CreditKept
<1> QED BY Zenon, <1>3, <1>4, <1>5, <1>6, <1>7 DEF QueueInv

(* The queues after a packet was accepted. *)
Adds(k, size) ==
  peers' = [j \in Kept \cup {k} |-> IF j = k THEN Accepted(k, size) ELSE peers[j]]

(* An accepted packet: one place more in the queue of its peer, which now waits. *)
LEMMA AcceptedTable ==
  ASSUME QueueTypeOK, NEW k \in Keys, NEW size \in Sizes,
         Adds(k, size)
  PROVE  /\ DOMAIN peers' = Kept \cup {k}
         /\ \A j \in Kept : j # k => peers'[j] = peers[j]
         /\ peers'[k] = Accepted(k, size)
         /\ \A j : (Waiting(j))' <=> (Waiting(j) \/ j = k)
         /\ Stored(peers') = Stored(peers) \cup {<<k, Backlog(peers, k) + 1>>}
         /\ <<k, Backlog(peers, k) + 1>> \notin Stored(peers)
<1> DEFINE b == Backlog(peers, k)
<1>1. /\ DOMAIN peers' = Kept \cup {k} /\ peers'[k] = Accepted(k, size)
      /\ \A j \in Kept : j # k => peers'[j] = peers[j]
  BY Zenon DEF Adds
<1>2. /\ Accepted(k, size) \in PeerQueue /\ Len(Accepted(k, size).packets) = b + 1
      /\ DOMAIN Accepted(k, size).packets = 1..(b + 1)
  BY Zenon, AcceptedFacts, QueueFields
<1>3. /\ b \in Nat
      /\ k \in DOMAIN peers => DOMAIN peers[k].packets = 1..b
      /\ k \notin DOMAIN peers => b = 0
      /\ k \notin Kept => b = 0
  BY TrackedFacts, KeptFacts, QueueFields
<1>4. ASSUME NEW j PROVE (Waiting(j))' <=> (Waiting(j) \/ j = k)
  <2>1. CASE j = k
    BY <2>1, <1>1, <1>2, <1>3 DEF Waiting, Backlog
  <2>2. CASE j # k /\ j \in Kept
    BY Zenon, <2>2, <1>1, KeptFacts DEF Waiting, Backlog
  <2>3. CASE j # k /\ j \notin Kept
    BY <2>3, <1>1, KeptFacts DEF Waiting, Backlog
  <2> QED BY Zenon, <2>1, <2>2, <2>3
<1> HIDE DEF b
<1>5. <<k, b + 1>> \notin Stored(peers)
  <2>1. SUFFICES ASSUME <<k, b + 1>> \in Stored(peers) PROVE FALSE
    BY Zenon
  <2>2. k \in DOMAIN peers /\ b + 1 \in DOMAIN peers[k].packets
    BY <2>1, InStored
  <2> QED BY <2>2, <1>3
<1>6. ASSUME NEW x \in Stored(peers') PROVE x \in Stored(peers) \cup {<<k, b + 1>>}
  <2>1. PICK j \in DOMAIN peers' : \E i \in DOMAIN peers'[j].packets : x = <<j, i>>
    BY <1>6, InStored
  <2>2. CASE j # k
    <3>1. j \in DOMAIN peers /\ peers'[j] = peers[j]
      BY Zenon, <2>2, <1>1, KeptFacts
    <3> QED BY Zenon, <3>1, <2>1, InStored
  <2>3. CASE j = k
    <3>1. PICK i \in 1..(b + 1) : x = <<k, i>>
      BY Zenon, <2>1, <2>3, <1>1, <1>2
    <3>2. CASE i = b + 1
      BY Zenon, <3>1, <3>2
    <3>3. CASE i # b + 1
      <4>1. i \in 1..b /\ k \in DOMAIN peers
        BY <3>3, <1>3
      <4>2. i \in DOMAIN peers[k].packets
        BY Zenon, <4>1, <1>3
      <4> QED BY Zenon, <4>1, <4>2, <3>1, InStored
    <3> QED BY Zenon, <3>2, <3>3
  <2> QED BY Zenon, <2>2, <2>3
<1>7. ASSUME NEW x \in Stored(peers) PROVE x \in Stored(peers')
  <2>1. PICK j \in DOMAIN peers : \E i \in DOMAIN peers[j].packets : x = <<j, i>>
    BY <1>7, InStored
  <2>2. CASE j = k
    <3>1. PICK i \in 1..b : x = <<k, i>>
      BY Zenon, <2>1, <2>2, <1>3
    <3>2. i \in DOMAIN peers'[k].packets /\ k \in DOMAIN peers'
      BY <1>1, <1>2, <1>3
    <3> QED BY Zenon, <3>1, <3>2, InStored
  <2>3. CASE j # k
    <3>1. Waiting(j)
      BY <2>1, TrackedFacts, QueueFields
    <3>2. j \in Kept /\ peers'[j] = peers[j] /\ j \in DOMAIN peers'
      BY Zenon, <3>1, <2>3, <1>1, KeptFacts
    <3> QED BY Zenon, <3>2, <2>1, InStored
  <2> QED BY Zenon, <2>2, <2>3
<1>8. <<k, b + 1>> \in Stored(peers')
  <2>1. k \in DOMAIN peers' /\ b + 1 \in DOMAIN peers'[k].packets
    BY <1>1, <1>2, <1>3
  <2> QED BY Zenon, <2>1, InStored
<1>9. Stored(peers') = Stored(peers) \cup {<<k, b + 1>>}
  BY Zenon, <1>6, <1>7, <1>8
<1> QED BY Zenon, <1>1, <1>4, <1>5, <1>9 DEF b

(* A packet that is accepted keeps the invariant. *)
LEMMA AcceptedInv ==
  ASSUME QueueInv, NEW k \in Keys, NEW size \in Sizes, ~Backpressure(k),
         Adds(k, size),
         rotation' = (IF Waiting(k) THEN rotation ELSE Append(rotation, k)),
         queued' = queued + 1, permit' = TRUE,
         UNCHANGED <<rate, receiver, credit, since, shaped>>
  PROVE  QueueInv'
<1>0. QueueTypeOK /\ QueuesExact /\ RotationExact /\ CapacityKept
  BY Zenon DEF QueueInv, QueuesExact
<1>1. /\ DOMAIN peers' = Kept \cup {k}
      /\ \A j \in Kept : j # k => peers'[j] = peers[j]
      /\ peers'[k] = Accepted(k, size)
      /\ \A j : (Waiting(j))' <=> (Waiting(j) \/ j = k)
      /\ Stored(peers') = Stored(peers) \cup {<<k, Backlog(peers, k) + 1>>}
      /\ <<k, Backlog(peers, k) + 1>> \notin Stored(peers)
  BY Zenon, <1>0, AcceptedTable
<1>11. PICK x : Stored(peers') = Stored(peers) \cup {x} /\ x \notin Stored(peers)
  BY <1>1, Zenon
<1> DEFINE q == Accepted(k, size)
           b == Backlog(peers, k)
<1>2. /\ q \in PeerQueue /\ q.age = 0
      /\ Len(q.packets) = b + 1
      /\ k \in Kept => q.deficit = peers[k].deficit /\ q.in_round = peers[k].in_round /\ q.tokens = peers[k].tokens
      /\ k \notin Kept => q.deficit = 0 /\ q.in_round = FALSE /\ q.tokens = NewBucket(rate)
      /\ Waiting(k) => Head(q.packets) = Next1(k)
  BY Zenon, <1>0, AcceptedFacts
<1>21. /\ DOMAIN peers' = Kept \cup {k} /\ peers'[k] = q
       /\ \A j \in Kept : j # k => peers'[j] = peers[j]
       /\ \A j : (Waiting(j))' <=> (Waiting(j) \/ j = k)
  BY Zenon, <1>1
<1>3. /\ Kept \subseteq DOMAIN peers /\ IsFiniteSet(Kept)
      /\ Cardinality(Kept) <= Cardinality(DOMAIN peers) /\ Cardinality(Kept) \in Nat
      /\ Cardinality(DOMAIN peers) \in Nat
      /\ \A j : Waiting(j) => j \in Kept
  BY Zenon, <1>0, KeptFacts
<1> HIDE DEF q, b
<1>4. /\ rotation \in Seq(Keys) /\ rotation' \in Seq(Keys)
      /\ Range(rotation') = Range(rotation) \cup {k}
      /\ IsInjective(rotation')
      /\ \A i, j : Precedes(rotation', i, j) => Precedes(rotation, i, j) \/ (i \in Range(rotation) /\ j = k /\ ~Waiting(k))
      /\ \A i : Waiting(i) => rotation'[1] = rotation[1]
  <2>1. rotation \in Seq(Keys) /\ IsInjective(rotation) /\ \A j : j \in Range(rotation) <=> j \in DOMAIN peers /\ Waiting(j)
    BY Zenon, <1>0 DEF QueueTypeOK, RotationExact
  <2>2. CASE Waiting(k)
    BY Zenon, <2>1, <2>2, <1>3
  <2>3. CASE ~Waiting(k)
    <3>1. rotation' = Append(rotation, k) /\ k \notin Range(rotation)
      BY Zenon, <2>1, <2>3
    <3>2. ASSUME NEW i, Waiting(i) PROVE rotation'[1] = rotation[1]
      <4>1. i \in Range(rotation)
        BY Zenon, <2>1, <3>2, <1>3
      <4>2. Len(rotation) > 0
        BY <4>1, <2>1 DEF Range
      <4> QED BY <4>2, <3>1, <2>1
    <3> QED BY <2>1, <2>3, <3>1, <3>2, AppendOnce
  <2> QED BY Zenon, <2>2, <2>3
<1>5. QueueTypeOK'
  <2>1. peers' \in [DOMAIN peers' -> PeerQueue]
    <3>1. \A j \in DOMAIN peers' : peers'[j] \in PeerQueue
      BY Zenon, <1>0, <1>21, <1>2, <1>3, TrackedFacts
    <3>2. peers' = [j \in DOMAIN peers' |-> peers'[j]]
      BY Zenon DEF Adds
    <3> QED BY Zenon, <3>1, <3>2
  <2>2. DOMAIN peers' \subseteq Keys /\ IsFiniteSet(DOMAIN peers') /\ IsFiniteSet(Stored(peers'))
    <3>1. IsFiniteSet(Stored(peers)) /\ DOMAIN peers \subseteq Keys
      BY Zenon, <1>0 DEF QueueTypeOK
    <3>2. IsFiniteSet(DOMAIN peers')
      BY <1>21, <1>3, FS_AddElement
    <3>3. IsFiniteSet(Stored(peers'))
      BY Zenon, <1>11, <3>1, FS_AddElement
    <3> QED BY Zenon, <1>21, <1>3, <3>1, <3>2, <3>3
  <2>3. \A j \in DOMAIN peers' : ~(Waiting(j))' => peers'[j].deficit = 0 /\ ~peers'[j].in_round
    BY Zenon, <1>0, <1>21, <1>3 DEF QueueTypeOK
  <2>4. queued' \in Nat /\ permit' \in BOOLEAN
    BY <1>0 DEF QueueTypeOK
  <2> QED BY Zenon, <1>0, <1>4, <2>1, <2>2, <2>3, <2>4 DEF QueueTypeOK
<1>6. QueuesExact'
  <2>1. RotationExact'
    <3>1. Range(rotation') = {j \in DOMAIN peers' : (Waiting(j))'}
      BY Zenon, <1>0, <1>21, <1>3, <1>4 DEF RotationExact
    <3> QED BY Zenon, <3>1, <1>4 DEF RotationExact
  <2>2. queued' = Cardinality(Stored(peers'))
    <3>1. IsFiniteSet(Stored(peers)) /\ queued = Cardinality(Stored(peers))
      BY Zenon, <1>0 DEF QueueTypeOK, CapacityKept
    <3>2. queued \in Nat
      BY Zenon, <1>0 DEF QueueTypeOK
    <3> QED BY Zenon, <3>1, <3>2, <1>11, FS_AddElement
  <2>3. queued' <= CAPACITY
    BY <1>0, QueueConstants DEF Backpressure, QueueTypeOK
  <2>4. \A j \in DOMAIN peers' : Len(peers'[j].packets) <= PER_PEER /\ (peers'[j].tokens = NoBucket <=> rate = 0)
    <3>1. Len(q.packets) <= PER_PEER
      <4>1. CASE k \in Kept
        <5>1. b \in Nat /\ ~(b >= PER_PEER)
          BY <4>1, <1>0, <1>3, TrackedFacts, QueueFields DEF Backpressure, b
        <5> QED BY <5>1, <1>2, QueueConstants
      <4>2. CASE k \notin Kept
        <5>1. ~Waiting(k) /\ b \in Nat
          BY <4>2, <1>0, <1>3, TrackedFacts, QueueFields DEF b
        <5>2. b = 0
          BY <5>1 DEF b, Waiting
        <5> QED BY <5>2, <1>2, QueueConstants
      <4> QED BY Zenon, <4>1, <4>2
    <3>2. q.tokens = NoBucket <=> rate = 0
      BY Zenon, <1>0, <1>2, <1>3, Buckets DEF QueueTypeOK, CapacityKept
    <3> QED BY Zenon, <1>0, <1>21, <1>3, <3>1, <3>2 DEF CapacityKept
  <2>5. Cardinality(DOMAIN peers') <= MAX_TRACKED
    <3>1. CASE k \in Kept
      <4>1. DOMAIN peers' = Kept
        BY Zenon, <3>1, <1>21
      <4>2. Cardinality(DOMAIN peers) <= MAX_TRACKED
        BY Zenon, <1>0 DEF CapacityKept
      <4>3. Cardinality(DOMAIN peers') = Cardinality(Kept)
        BY <4>1, Zenon
      <4> QED BY <4>2, <4>3, <1>3, QueueConstants
    <3>2. CASE k \notin Kept
      <4>1. ~(Cardinality(Kept) >= MAX_TRACKED)
        BY Zenon, <3>2 DEF Backpressure
      <4>2. Cardinality(DOMAIN peers') = Cardinality(Kept) + 1
        BY <3>2, <1>21, <1>3, FS_AddElement
      <4> QED BY <4>1, <4>2, <1>3, QueueConstants
    <3> QED BY Zenon, <3>1, <3>2
  <2>6. CapacityKept'
    BY Zenon, <2>2, <2>3, <2>4, <2>5 DEF CapacityKept
  <2> QED BY Zenon, <2>1, <2>6 DEF QueuesExact
<1>7. ASSUME ~shaped PROVE FairShare' /\ DeficitKept' /\ SentBefore'
  <2>0. DeficitKept /\ SentBefore /\ FairShare
    BY Zenon, <1>7 DEF QueueInv
  <2>1. since \in [Keys -> [Keys -> Nat]]
    BY Zenon, <1>0 DEF QueueTypeOK
  <2>2. FairShare'
    BY <1>21, <2>0, <2>1, QueueConstants DEF FairShare, SentBefore
  <2>3. DeficitKept'
    <3>1. ASSUME NEW i \in DOMAIN peers', i # k
          PROVE  /\ peers'[i].deficit < QUANTUM + MAX_SIZE
                 /\ (Waiting(i))' /\ ~peers'[i].in_round => peers'[i].deficit < MAX_SIZE
                 /\ peers'[i].in_round => rotation'[1] = i /\ Head(peers'[i].packets) <= peers'[i].deficit
      <4>1. i \in DOMAIN peers /\ peers'[i] = peers[i] /\ ((Waiting(i))' <=> Waiting(i))
        BY Zenon, <3>1, <1>21, <1>3
      <4>2. peers[i].in_round => Waiting(i)
        BY Zenon, <4>1, <1>0 DEF QueueTypeOK
      <4> QED BY Zenon, <4>1, <4>2, <1>4, <2>0 DEF DeficitKept, Next1
    <3>2. /\ q.deficit < QUANTUM + MAX_SIZE
          /\ ~q.in_round => q.deficit < MAX_SIZE
          /\ q.in_round => rotation'[1] = k /\ Head(q.packets) <= q.deficit
      <4>0. size \in Nat /\ size > 0 /\ size <= MAX_SIZE
        BY Zenon, QueueConstants
      <4>1. CASE Waiting(k)
        BY Zenon, <4>1, <1>2, <1>3, <1>4, <2>0 DEF DeficitKept
      <4>2. CASE ~Waiting(k)
        <5>1. q.deficit = 0 /\ ~q.in_round
          BY Zenon, <4>2, <1>0, <1>2, <1>3 DEF QueueTypeOK
        <5> QED BY <5>1, <4>0, QueueConstants
      <4> QED BY Zenon, <4>1, <4>2
    <3> QED BY Zenon, <3>1, <3>2, <1>21 DEF DeficitKept, Next1
  <2>4. \A i, j \in Keys : (Waiting(j))' \/ since'[j][i] = 0
    BY Zenon, <1>21, <2>0 DEF SentBefore
  <2>5. ASSUME NEW i \in Keys, NEW j \in Keys, Precedes(rotation', i, j)
        PROVE  IF peers'[i].in_round THEN since[j][i] + peers'[i].deficit < QUANTUM + MAX_SIZE
               ELSE since[j][i] = 0
    <3>1. i \in DOMAIN peers /\ Waiting(i)
      BY Zenon, <2>5, <1>0, <1>4, PrecedesIn DEF RotationExact
    <3>2. peers'[i].in_round = peers[i].in_round /\ peers'[i].deficit = peers[i].deficit
      BY Zenon, <3>1, <1>21, <1>2, <1>3
    <3>3. CASE Precedes(rotation, i, j)
      BY Zenon, <3>2, <3>3, <2>0 DEF SentBefore
    <3>4. CASE j = k /\ ~Waiting(k)
      <4>1. since[j][i] = 0
        BY Zenon, <3>4, <2>0 DEF SentBefore
      <4>2. peers[i].deficit \in Nat /\ peers[i].deficit < QUANTUM + MAX_SIZE
        BY Zenon, <3>1, <1>0, <2>0, TrackedFacts, QueueFields DEF DeficitKept
      <4> QED BY <4>1, <4>2, <3>2
    <3> QED BY <3>3, <3>4, <2>5, <1>4
  <2>6. SentBefore'
    BY Zenon, <2>4, <2>5 DEF SentBefore
  <2> QED BY Zenon, <2>2, <2>3, <2>6
<1>8. ASSUME rate # 0 PROVE CreditKept'
  <2>0. CreditKept
    BY Zenon, <1>8 DEF QueueInv
  <2>1. \A j \in Keys : j \notin Kept => credit[j] = BucketCapacity(rate)
    BY Zenon, <1>0, <1>8, <2>0, ForgottenFull
  <2>2. q.tokens <= credit[k] /\ credit[k] >= Smaller(q.age * rate, BucketCapacity(rate))
    <3>0. /\ rate \in Nat /\ BucketCapacity(rate) \in Nat /\ credit[k] \in 0..BucketCapacity(rate)
          /\ NewBucket(rate) = BucketCapacity(rate)
      BY Zenon, <1>0, <1>8, <2>0, Buckets DEF CreditKept, QueueTypeOK
    <3>1. q.tokens <= credit[k]
      <4>1. CASE k \in Kept
        BY Zenon, <4>1, <1>2, <1>3, <2>0 DEF CreditKept
      <4>2. CASE k \notin Kept
        BY <4>2, <1>2, <2>1, <3>0
      <4> QED BY Zenon, <4>1, <4>2
    <3>2. q.age * rate = 0
      BY <1>2, <3>0
    <3> QED BY <3>0, <3>1, <3>2 DEF Smaller
  <2>3. ASSUME NEW j \in Keys
        PROVE  /\ credit[j] \in 0..BucketCapacity(rate)
               /\ j \notin DOMAIN peers' => credit[j] = BucketCapacity(rate)
               /\ j \in DOMAIN peers' =>
                    /\ peers'[j].tokens <= credit[j]
                    /\ credit[j] >= Smaller(peers'[j].age * rate, BucketCapacity(rate))
    BY Zenon, <1>21, <1>3, <2>0, <2>1, <2>2 DEF CreditKept
  <2> QED BY Zenon, <2>3 DEF CreditKept
<1>9. shaped \in BOOLEAN /\ FairShare'
  BY Zenon, <1>0, <1>7 DEF QueueTypeOK, FairShare
<1> QED BY Zenon, <1>5, <1>6, <1>7, <1>8, <1>9 DEF QueueInv

(* An enqueue keeps the invariant. *)
LEMMA EnqueueInv ==
  ASSUME QueueInv, NEW k \in Keys, NEW size \in Sizes, TryEnqueue(k, size)
  PROVE  QueueInv'
<1>1. CASE Backpressure(k)
  BY Zenon, <1>1, RefusedInv DEF TryEnqueue
<1>2. CASE ~Backpressure(k)
  BY Zenon, <1>2, AcceptedInv DEF TryEnqueue, Adds
<1> QED BY Zenon, <1>1, <1>2

-----------------------------------------------------------------------------
(* What leaves the packets alone: a look in vain, a change of rate, a tick. *)

(* The rotation and the counts stay exact while no packet comes or goes. *)
LEMMA SamePackets ==
  ASSUME QueueTypeOK, QueuesExact, DOMAIN peers' = DOMAIN peers,
         \A j \in DOMAIN peers : /\ peers'[j].packets = peers[j].packets
                                 /\ peers'[j].tokens = NoBucket <=> rate' = 0,
         UNCHANGED <<rotation, queued>>
  PROVE  /\ \A j : (Waiting(j))' <=> Waiting(j)
         /\ Stored(peers') = Stored(peers)
         /\ QueuesExact'
<1>1. \A j : (Waiting(j))' <=> Waiting(j)
  BY Zenon DEF Waiting, Backlog
<1>2. Stored(peers') = Stored(peers)
  BY Zenon, StoredSame
<1>3. RotationExact'
  BY Zenon, <1>1 DEF QueuesExact, RotationExact
<1>4. CapacityKept'
  BY Zenon, <1>2 DEF QueuesExact, CapacityKept
<1> QED BY Zenon, <1>1, <1>2, <1>3, <1>4 DEF QueuesExact

(* Who waits and was not limited is passed over for its deficit alone, so what
   it keeps is less than a packet. *)
LEMMA PassedOverPoor ==
  ASSUME QueueInv, ~shaped, NEW k \in DOMAIN peers, Waiting(k), ~Servable(k)
  PROVE  Topped(k) < MAX_SIZE
<1>0. QueueTypeOK /\ QueuesExact
  BY Zenon DEF QueueInv
<1>1. peers[k] \in PeerQueue /\ Len(peers[k].packets) > 0
  BY Zenon, <1>0, TrackedFacts
<1>2. Next1(k) \in Nat /\ Next1(k) <= MAX_SIZE
  BY Zenon, <1>1, QueueFields, QueueConstants DEF Next1
<1>3. Topped(k) \in Nat
  BY Zenon, <1>1, ToppedFacts
<1>4. peers[k].tokens = NoBucket
  BY Zenon, <1>0 DEF QueueTypeOK, QueuesExact, CapacityKept
<1>5. ~(Next1(k) <= Topped(k))
  BY Zenon, <1>4 DEF Servable, WithinTokens, WithinDeficit
<1> QED BY <1>2, <1>3, <1>5, QueueConstants

(* A look that serves nobody. *)
LEMMA LookInVainInv ==
  ASSUME QueueInv, LookInVain, \A k \in Range(rotation) : ~Servable(k)
  PROVE  QueueInv'
<1>0. QueueTypeOK /\ QueuesExact /\ rotation \in Seq(Keys)
  BY Zenon DEF QueueInv, QueueTypeOK
<1>1. /\ DOMAIN peers' = DOMAIN peers
      /\ peers' = [j \in DOMAIN peers' |-> peers'[j]]
      /\ \A j \in DOMAIN peers : /\ Waiting(j) => peers'[j] = PassedOver(j)
                                 /\ ~Waiting(j) => peers'[j] = peers[j]
      /\ UNCHANGED <<rotation, queued, rate, permit, credit, shaped>>
      /\ since' = [j \in Keys |-> [i \in Keys |-> 0]]
  BY Zenon DEF LookInVain
<1>2. receiver' \in {"polled", "waiting", "sleeping"}
  BY Zenon DEF LookInVain
<1>3. \A j \in DOMAIN peers :
        /\ peers'[j] \in PeerQueue
        /\ peers'[j].packets = peers[j].packets /\ peers'[j].tokens = peers[j].tokens
        /\ peers'[j].age = peers[j].age
  BY Zenon, <1>0, <1>1, TrackedFacts, ToppedFacts
<1>4. /\ \A j : (Waiting(j))' <=> Waiting(j)
      /\ Stored(peers') = Stored(peers)
      /\ QueuesExact'
  <2>1. \A j \in DOMAIN peers : peers[j].tokens = NoBucket <=> rate = 0
    BY Zenon, <1>0 DEF QueuesExact, CapacityKept
  <2> QED BY Zenon, <1>0, <1>1, <1>3, <2>1, SamePackets
<1>5. \A j, i \in Keys : since'[j][i] = 0
  BY Zenon, <1>1
<1>6. QueueTypeOK'
  <2>1. peers' \in [DOMAIN peers' -> PeerQueue]
    BY Zenon, <1>1, <1>3
  <2>2. since' \in [Keys -> [Keys -> Nat]]
    BY Zenon, <1>1
  <2>3. \A k \in DOMAIN peers' : ~(Waiting(k))' => peers'[k].deficit = 0 /\ ~peers'[k].in_round
    BY Zenon, <1>0, <1>1, <1>4 DEF QueueTypeOK
  <2> QED BY Zenon, <1>0, <1>1, <1>2, <1>4, <2>1, <2>2, <2>3 DEF QueueTypeOK
<1>7. FairShare'
  BY <1>5, QueueConstants DEF FairShare
<1>8. ASSUME ~shaped PROVE DeficitKept' /\ SentBefore'
  <2>1. ASSUME NEW i \in DOMAIN peers
        PROVE  ~peers'[i].in_round /\ peers'[i].deficit < QUANTUM + MAX_SIZE
               /\ (Waiting(i) => peers'[i].deficit < MAX_SIZE)
    <3>1. CASE Waiting(i)
      <4>1. i \in Range(rotation)
        BY Zenon, <3>1, <1>0 DEF QueuesExact, RotationExact
      <4>2. ~Servable(i)
        BY Zenon, <4>1
      <4>3. Topped(i) \in Nat /\ Topped(i) < MAX_SIZE
        BY Zenon, <1>0, <1>8, <3>1, <4>2, PassedOverPoor, ToppedFacts, TrackedFacts
      <4>4. peers'[i].in_round = FALSE /\ peers'[i].deficit = Topped(i)
        BY ZenonT(30), <1>0, <1>1, <3>1, ToppedFacts, TrackedFacts
      <4> QED BY <4>3, <4>4, QueueConstants
    <3>2. CASE ~Waiting(i)
      <4>1. peers'[i].deficit = 0 /\ ~peers'[i].in_round
        BY Zenon, <1>0, <1>1, <3>2 DEF QueueTypeOK
      <4> QED BY <4>1, <3>2, QueueConstants
    <3> QED BY Zenon, <3>1, <3>2
  <2>2. DeficitKept'
    BY Zenon, <1>1, <1>4, <2>1 DEF DeficitKept
  <2>3. \A i, j \in Keys : Precedes(rotation, i, j) => i \in DOMAIN peers
    <3>1. Range(rotation) \subseteq DOMAIN peers
      BY Zenon, <1>0 DEF QueuesExact, RotationExact
    <3> QED BY Zenon, <1>0, <3>1, PrecedesIn
  <2>4. SentBefore'
    BY Zenon, <1>1, <1>5, <2>1, <2>3 DEF SentBefore
  <2> QED BY Zenon, <2>2, <2>4
<1>9. ASSUME rate # 0 PROVE CreditKept'
  <2>1. CreditKept
    BY Zenon, <1>9 DEF QueueInv
  <2> QED BY Zenon, <1>1, <1>3, <2>1 DEF CreditKept
<1> QED BY Zenon, <1>1, <1>4, <1>6, <1>7, <1>8, <1>9 DEF QueueInv

(* The receiver is woken, its timer fires, or its future is dropped: nothing
   else changes. *)
LEMMA ResumeInv ==
  ASSUME QueueInv, Woken \/ SleepEnds \/ Cancelled \/ UNCHANGED queueVars
  PROVE  QueueInv'
<1>1. UNCHANGED <<peers, rotation, queued, rate, credit, since, shaped>>
  BY Zenon DEF Woken, SleepEnds, Cancelled, queueVars
<1>2. permit' \in BOOLEAN /\ receiver' \in {"polled", "waiting", "sleeping"}
  BY Zenon DEF QueueInv, QueueTypeOK, Woken, SleepEnds, Cancelled, queueVars
<1>3. \A j : (Waiting(j))' <=> Waiting(j)
  BY Zenon, <1>1 DEF Waiting, Backlog
<1>4. QueueTypeOK'
  BY Zenon, <1>1, <1>2, <1>3 DEF QueueInv, QueueTypeOK
<1>5. QueuesExact'
  BY Zenon, <1>1, <1>3 DEF QueueInv, QueuesExact, RotationExact, CapacityKept
<1>6. FairShare' /\ (~shaped' => DeficitKept' /\ SentBefore')
  BY Zenon, <1>1, <1>3 DEF QueueInv, FairShare, DeficitKept, SentBefore, Next1
<1>7. rate' # 0 => CreditKept'
  BY Zenon, <1>1 DEF QueueInv, CreditKept
<1> QED BY Zenon, <1>4, <1>5, <1>6, <1>7 DEF QueueInv

(* The rate changes: every ideal bucket starts full, and no real one holds more. *)
LEMMA SetRateInv ==
  ASSUME QueueInv, NEW r \in Rates, SetRate(r)
  PROVE  QueueInv'
<1> DEFINE tok(k) == Relimit(peers[k].tokens, r)
<1>0. QueueTypeOK /\ QueuesExact
  BY Zenon DEF QueueInv
<1>1. /\ DOMAIN peers' = DOMAIN peers
      /\ peers' = [j \in DOMAIN peers' |-> peers'[j]]
      /\ \A j \in DOMAIN peers : peers'[j] = [peers[j] EXCEPT !.tokens = tok(j)]
      /\ rate' = r /\ r # rate /\ UNCHANGED <<rotation, queued, permit, receiver>>
      /\ credit' = [k \in Keys |-> BucketCapacity(r)]
      /\ shaped' = (shaped \/ r # 0)
      /\ since' = [j \in Keys |-> [i \in Keys |-> 0]]
  BY Zenon DEF SetRate
<1>2. r \in Nat /\ BucketCapacity(r) \in Nat
  BY Zenon, Buckets
<1>3. ASSUME NEW j \in DOMAIN peers
      PROVE  /\ tok(j) \in Nat \cup {NoBucket}
             /\ tok(j) = NoBucket <=> r = 0
             /\ r # 0 => tok(j) <= BucketCapacity(r)
  <2>1. peers[j].tokens \in Nat \cup {NoBucket}
    BY Zenon, <1>0, TrackedFacts, QueueFields
  <2> QED BY <2>1, <1>2 DEF Relimit, Smaller, NoBucket
<1> HIDE DEF tok
<1>4. \A j \in DOMAIN peers :
        /\ peers'[j] \in PeerQueue /\ peers'[j].tokens = tok(j)
        /\ peers'[j].packets = peers[j].packets /\ peers'[j].age = peers[j].age
        /\ peers'[j].deficit = peers[j].deficit /\ peers'[j].in_round = peers[j].in_round
  BY <1>0, <1>1, <1>3, TrackedFacts DEF PeerQueue
<1>5. /\ \A j : (Waiting(j))' <=> Waiting(j)
      /\ Stored(peers') = Stored(peers)
      /\ QueuesExact'
  BY Zenon, <1>0, <1>1, <1>3, <1>4, SamePackets
<1>6. shaped' = TRUE
  BY Zenon, <1>0, <1>1 DEF QueueTypeOK
<1>7. QueueTypeOK'
  <2>1. peers' \in [DOMAIN peers' -> PeerQueue]
    BY Zenon, <1>1, <1>4
  <2>2. since' \in [Keys -> [Keys -> Nat]] /\ credit' \in [Keys -> Int]
    BY <1>1, <1>2
  <2>3. \A k \in DOMAIN peers' : ~(Waiting(k))' => peers'[k].deficit = 0 /\ ~peers'[k].in_round
    BY Zenon, <1>0, <1>1, <1>4, <1>5 DEF QueueTypeOK
  <2> QED BY Zenon, <1>0, <1>1, <1>5, <1>6, <2>1, <2>2, <2>3 DEF QueueTypeOK
<1>8. ASSUME r # 0 PROVE CreditKept'
  <2>1. ASSUME NEW k \in Keys PROVE credit'[k] = BucketCapacity(r)
    BY Zenon, <1>1
  <2>2. ASSUME NEW k \in DOMAIN peers
        PROVE  BucketCapacity(r) >= Smaller(peers'[k].age * r, BucketCapacity(r))
    <3>1. peers'[k].age \in Nat
      BY <1>4, QueueFields, QueueConstants
    <3>2. peers'[k].age * r \in Nat
      BY <3>1, <1>2
    <3> QED BY <3>2, <1>2 DEF Smaller
  <2>3. \A k \in DOMAIN peers : peers'[k].tokens <= BucketCapacity(r)
    BY Zenon, <1>3, <1>4, <1>8
  <2> QED BY <1>1, <1>2, <2>1, <2>2, <2>3 DEF CreditKept
<1> QED BY Zenon, <1>1, <1>5, <1>6, <1>7, <1>8 DEF QueueInv, FairShare

(* What a tick makes of a queue. *)
LEMMA TickedQueue ==
  ASSUME NEW q \in PeerQueue, NEW r, NEW cap
  PROVE  [q EXCEPT !.age = Smaller(@ + 1, IDLE),
                   !.tokens = IF @ = NoBucket THEN NoBucket ELSE Smaller(@ + r, cap)]
         = [q EXCEPT !.age = Smaller(q.age + 1, IDLE),
                     !.tokens = IF q.tokens = NoBucket THEN NoBucket ELSE Smaller(q.tokens + r, cap)]
BY Zenon DEF PeerQueue

(* A tick fills the ideal bucket as much as the real one, and at least as much
   as the queue ages. *)
LEMMA TickInv ==
  ASSUME QueueInv, Tick
  PROVE  QueueInv'
<1> DEFINE older(k) == Smaller(peers[k].age + 1, IDLE)
           tok(k) == IF peers[k].tokens = NoBucket THEN NoBucket
                     ELSE Smaller(peers[k].tokens + rate, BucketCapacity(rate))
<1>0. QueueTypeOK /\ QueuesExact /\ rate \in Rates
  BY Zenon DEF QueueInv, QueueTypeOK
<1>1. /\ DOMAIN peers' = DOMAIN peers
      /\ peers' = [j \in DOMAIN peers' |-> peers'[j]]
      /\ \A j \in DOMAIN peers : peers'[j] = [peers[j] EXCEPT !.age = older(j), !.tokens = tok(j)]
      /\ credit' = [k \in Keys |-> Smaller(credit[k] + rate, BucketCapacity(rate))]
      /\ UNCHANGED <<rotation, queued, rate, permit, receiver, since, shaped>>
  <2>1. \A j \in DOMAIN peers : peers[j] \in PeerQueue
    BY Zenon, <1>0, TrackedFacts
  <2>2. ASSUME NEW j \in DOMAIN peers
        PROVE  peers'[j] = [peers[j] EXCEPT !.age = older(j), !.tokens = tok(j)]
    <3>1. peers'[j] = [peers[j] EXCEPT !.age = Smaller(@ + 1, IDLE),
                                       !.tokens = IF @ = NoBucket THEN NoBucket
                                                  ELSE Smaller(@ + rate, BucketCapacity(rate))]
      BY Zenon DEF Tick
    <3> QED BY Zenon, <3>1, <2>1, TickedQueue
  <2> HIDE DEF older, tok
  <2> QED BY Zenon, <2>2 DEF Tick
<1>2. /\ rate \in Nat /\ BucketCapacity(rate) \in Nat /\ credit \in [Keys -> Int]
      /\ rate # 0 => BucketCapacity(rate) = rate * IDLE
  BY Zenon, <1>0, Buckets DEF QueueTypeOK
<1>3. ASSUME NEW j \in DOMAIN peers
      PROVE  /\ tok(j) \in Nat \cup {NoBucket} /\ older(j) \in 0..IDLE
             /\ tok(j) = NoBucket <=> peers[j].tokens = NoBucket
  <2>1. peers[j].tokens \in Nat \cup {NoBucket} /\ peers[j].age \in 0..IDLE
    BY Zenon, <1>0, TrackedFacts, QueueFields
  <2>2. older(j) \in 0..IDLE
    BY <2>1, QueueConstants DEF Smaller
  <2>3. peers[j].tokens # NoBucket => peers[j].tokens \in Nat /\ tok(j) \in Nat
    BY <2>1, <1>2 DEF Smaller
  <2> QED BY <2>1, <2>2, <2>3 DEF NoBucket
<1> HIDE DEF tok, older
<1>4. \A j \in DOMAIN peers :
        /\ peers'[j] \in PeerQueue /\ peers'[j].tokens = tok(j) /\ peers'[j].age = older(j)
        /\ peers'[j].packets = peers[j].packets
        /\ peers'[j].deficit = peers[j].deficit /\ peers'[j].in_round = peers[j].in_round
  <2>1. SUFFICES ASSUME NEW j \in DOMAIN peers
                 PROVE  /\ peers'[j] \in PeerQueue /\ peers'[j].tokens = tok(j) /\ peers'[j].age = older(j)
                        /\ peers'[j].packets = peers[j].packets
                        /\ peers'[j].deficit = peers[j].deficit /\ peers'[j].in_round = peers[j].in_round
    BY Zenon
  <2>2. /\ peers'[j] = [peers[j] EXCEPT !.age = older(j), !.tokens = tok(j)]
        /\ peers[j] \in PeerQueue /\ tok(j) \in Nat \cup {NoBucket} /\ older(j) \in 0..IDLE
    BY Zenon, <1>0, <1>1, <1>3, TrackedFacts
  <2> QED BY Zenon, <2>2 DEF PeerQueue
<1>5. /\ \A j : (Waiting(j))' <=> Waiting(j)
      /\ Stored(peers') = Stored(peers)
      /\ QueuesExact'
  <2>1. \A j \in DOMAIN peers : peers[j].tokens = NoBucket <=> rate = 0
    BY Zenon, <1>0 DEF QueuesExact, CapacityKept
  <2> QED BY Zenon, <1>0, <1>1, <1>3, <1>4, <2>1, SamePackets
<1>6. QueueTypeOK'
  <2>1. peers' \in [DOMAIN peers' -> PeerQueue]
    BY Zenon, <1>1, <1>4
  <2>2. credit' \in [Keys -> Int]
    <3>1. \A k \in Keys : Smaller(credit[k] + rate, BucketCapacity(rate)) \in Int
      BY <1>2 DEF Smaller
    <3> QED BY Zenon, <1>1, <3>1
  <2>3. \A k \in DOMAIN peers' : ~(Waiting(k))' => peers'[k].deficit = 0 /\ ~peers'[k].in_round
    BY Zenon, <1>0, <1>1, <1>4, <1>5 DEF QueueTypeOK
  <2> QED BY Zenon, <1>0, <1>1, <1>5, <2>1, <2>2, <2>3 DEF QueueTypeOK
<1>7. FairShare' /\ (~shaped' => DeficitKept' /\ SentBefore')
  <2>1. FairShare'
    BY Zenon, <1>1, <1>5 DEF QueueInv, FairShare
  <2>2. ASSUME ~shaped PROVE DeficitKept' /\ SentBefore'
    <3>0. DeficitKept /\ SentBefore
      BY Zenon, <2>2 DEF QueueInv
    <3>1. DeficitKept'
      BY Zenon, <1>1, <1>4, <1>5, <3>0 DEF DeficitKept, Next1
    <3>2. \A i, j \in Keys : Precedes(rotation, i, j) => i \in DOMAIN peers
      <4>1. rotation \in Seq(Keys) /\ Range(rotation) \subseteq DOMAIN peers
        BY Zenon, <1>0 DEF QueueTypeOK, QueuesExact, RotationExact
      <4> QED BY Zenon, <4>1, PrecedesIn
    <3>3. SentBefore'
      BY Zenon, <1>1, <1>4, <1>5, <3>0, <3>2 DEF SentBefore
    <3> QED BY Zenon, <3>1, <3>3
  <2> QED BY Zenon, <1>1, <2>1, <2>2
<1>8. ASSUME rate # 0 PROVE CreditKept'
  <2> DEFINE B == BucketCapacity(rate)
  <2>0. CreditKept
    BY Zenon, <1>8 DEF QueueInv
  <2>1. \A k \in Keys : credit'[k] = Smaller(credit[k] + rate, B) /\ credit[k] \in 0..B
    BY Zenon, <1>1, <2>0 DEF CreditKept
  <2>2. B \in Nat /\ B = rate * IDLE
    BY Zenon, <1>2, <1>8
  <2> HIDE DEF B
  <2>3. \A k \in Keys : credit'[k] \in 0..B /\ (credit[k] = B => credit'[k] = B)
    BY <2>1, <2>2, <1>2 DEF Smaller
  <2>4. ASSUME NEW k \in DOMAIN peers
        PROVE  tok(k) <= credit'[k] /\ credit'[k] >= Smaller(older(k) * rate, B)
    <3>0. k \in Keys /\ peers[k].tokens \in Nat /\ peers[k].age \in 0..IDLE
      <4>1. peers[k].tokens # NoBucket
        BY Zenon, <1>0, <1>8 DEF QueuesExact, CapacityKept
      <4> QED BY Zenon, <4>1, <1>0, TrackedFacts, QueueFields
    <3>1. peers[k].tokens <= credit[k] /\ credit[k] >= Smaller(peers[k].age * rate, B)
      BY Zenon, <3>0, <2>0 DEF CreditKept, B
    <3>2. tok(k) <= credit'[k]
      <4>1. tok(k) = Smaller(peers[k].tokens + rate, B)
        BY <3>0 DEF tok, B, NoBucket
      <4> QED BY <4>1, <3>0, <3>1, <2>1, <2>2, <1>2 DEF Smaller
    <3>3. older(k) \in Nat /\ older(k) <= peers[k].age + 1
      BY <3>0, QueueConstants DEF older, Smaller
    <3>4. older(k) * rate <= peers[k].age * rate + rate
      <4>1. (peers[k].age + 1 - older(k)) * rate >= 0
        BY <3>0, <3>3, <1>2
      <4> QED BY <4>1, <3>0, <3>3, <1>2
    <3>5. peers[k].age * rate \in Nat /\ older(k) * rate \in Nat
      BY <3>0, <3>3, <1>2
    <3>6. credit'[k] >= Smaller(older(k) * rate, B)
      <4> DEFINE x == peers[k].age * rate
                 y == older(k) * rate
      <4>1. x \in Nat /\ y \in Nat /\ y <= x + rate
        BY Zenon, <3>4, <3>5
      <4>2. credit[k] \in 0..B /\ credit[k] >= Smaller(x, B) /\ credit'[k] = Smaller(credit[k] + rate, B)
        BY Zenon, <3>0, <3>1, <2>1
      <4> HIDE DEF x, y
      <4>3. credit'[k] >= Smaller(y, B)
        BY <4>1, <4>2, <2>2, <1>2 DEF Smaller
      <4> QED BY Zenon, <4>3 DEF y
    <3> QED BY Zenon, <3>2, <3>6
  <2>5. ASSUME NEW k \in Keys
        PROVE  /\ credit'[k] \in 0..B
               /\ k \notin DOMAIN peers' => credit'[k] = B
               /\ k \in DOMAIN peers' =>
                    peers'[k].tokens <= credit'[k] /\ credit'[k] >= Smaller(peers'[k].age * rate, B)
    <3>1. k \notin DOMAIN peers => credit[k] = B
      BY Zenon, <2>0 DEF CreditKept, B
    <3> QED BY ZenonT(30), <3>1, <1>1, <1>4, <2>3, <2>4
  <2>6. rate' = rate /\ BucketCapacity(rate') = B
    BY Zenon, <1>1 DEF B
  <2> QED BY Zenon, <2>5, <2>6 DEF CreditKept
<1> QED BY Zenon, <1>1, <1>5, <1>6, <1>7, <1>8 DEF QueueInv

-----------------------------------------------------------------------------
(* recv serves a peer. *)

(* What service leaves of a queue: a packet less, paid from deficit and tokens. *)
LEMMA ServiceFacts ==
  ASSUME NEW k, peers[k] \in PeerQueue, Len(peers[k].packets) > 0, Servable(k)
  PROVE  LET q == AfterService(k)
         IN  /\ q \in PeerQueue /\ q.age = 0
             /\ Len(q.packets) = Len(peers[k].packets) - 1
             /\ Next1(k) \in Nat /\ Next1(k) > 0 /\ Next1(k) <= MAX_SIZE /\ Next1(k) <= Topped(k)
             /\ q.packets = <<>> => q.deficit = 0 /\ ~q.in_round
             /\ q.packets # <<>> => /\ q.deficit = Topped(k) - Next1(k)
                                    /\ q.in_round <=> Head(q.packets) <= q.deficit
                                    /\ Head(q.packets) \in Nat /\ Head(q.packets) <= MAX_SIZE
             /\ peers[k].tokens = NoBucket => q.tokens = NoBucket
             /\ peers[k].tokens # NoBucket => /\ q.tokens = peers[k].tokens - Next1(k)
                                              /\ q.tokens \in Nat /\ q.tokens # NoBucket
<1> DEFINE p == peers[k].packets
           rest == Tail(p)
           left == Topped(k) - Next1(k)
           goesOn == rest # <<>> /\ Head(rest) <= left
           tokens == IF peers[k].tokens = NoBucket THEN NoBucket ELSE peers[k].tokens - Next1(k)
           q == AfterService(k)
<1>1. q = [packets |-> rest, deficit |-> IF rest = <<>> THEN 0 ELSE left, in_round |-> goesOn,
           tokens |-> tokens, age |-> 0]
  BY Zenon DEF AfterService
<1>2. rest \in Seq(Sizes) /\ Len(rest) = Len(p) - 1 /\ Head(p) \in Sizes /\ peers[k].tokens \in Nat \cup {NoBucket}
  BY Zenon, QueueFields
<1>3. Next1(k) \in Nat /\ Next1(k) > 0 /\ Next1(k) <= MAX_SIZE
  BY Zenon, <1>2, QueueConstants DEF Next1
<1>4. Topped(k) \in Nat /\ Next1(k) <= Topped(k) /\ (peers[k].tokens = NoBucket \/ Next1(k) <= peers[k].tokens)
  BY Zenon, ToppedFacts DEF Servable, WithinDeficit, WithinTokens
<1>5. left \in Nat /\ tokens \in Nat \cup {NoBucket}
  BY <1>2, <1>3, <1>4
<1>6. peers[k].tokens # NoBucket => tokens = peers[k].tokens - Next1(k) /\ tokens \in Nat /\ tokens # NoBucket
  BY <1>2, <1>3, <1>4 DEF NoBucket
<1>7. peers[k].tokens = NoBucket => tokens = NoBucket
  BY Zenon
<1>8. goesOn \in BOOLEAN /\ 0 \in 0..IDLE
  BY QueueConstants
<1>9. rest # <<>> => Head(rest) \in Nat /\ Head(rest) <= MAX_SIZE
  <2>1. rest # <<>> => Head(rest) \in Sizes
    <3> HIDE DEF rest
    <3> QED BY <1>2
  <2> QED BY Zenon, <2>1, QueueConstants
<1>10. /\ rest = <<>> => ~goesOn
       /\ rest # <<>> => (goesOn <=> Head(rest) <= left)
  BY Zenon
<1> HIDE DEF rest, left, tokens, goesOn, q
<1>11. /\ q.packets = rest /\ q.tokens = tokens /\ q.in_round = goesOn /\ q.age = 0
       /\ rest = <<>> => q.deficit = 0
       /\ rest # <<>> => q.deficit = left
  BY Zenon, <1>1
<1>12. q \in PeerQueue
  <2>1. (IF rest = <<>> THEN 0 ELSE left) \in Nat
    BY Zenon, <1>5
  <2> QED BY Zenon, <1>1, <1>2, <1>5, <1>8, <2>1 DEF PeerQueue
<1>13. Len(q.packets) = Len(peers[k].packets) - 1
  BY Zenon, <1>2, <1>11 DEF p
<1>14. q.packets = <<>> => q.deficit = 0 /\ ~q.in_round
  BY Zenon, <1>10, <1>11
<1>15. q.packets # <<>> => /\ q.deficit = Topped(k) - Next1(k)
                           /\ q.in_round <=> Head(q.packets) <= q.deficit
                           /\ Head(q.packets) \in Nat /\ Head(q.packets) <= MAX_SIZE
  BY Zenon, <1>9, <1>10, <1>11 DEF left
<1>16. /\ peers[k].tokens = NoBucket => q.tokens = NoBucket
       /\ peers[k].tokens # NoBucket => /\ q.tokens = peers[k].tokens - Next1(k)
                                        /\ q.tokens \in Nat /\ q.tokens # NoBucket
  BY Zenon, <1>6, <1>7, <1>11
<1> QED BY Zenon, <1>3, <1>4, <1>11, <1>12, <1>13, <1>14, <1>15, <1>16 DEF q

(* The peers that the look has visited when it serves at place n, and those it
   has not reached. *)
Visited(n) == {rotation[m] : m \in 1..n}
Unreached(n) == {rotation[m] : m \in (n + 1)..Len(rotation)}

(* Every waiting peer was visited or not reached, and not both. *)
LEMMA VisitedFacts ==
  ASSUME QueueTypeOK, RotationExact, NEW n \in 1..Len(rotation)
  PROVE  /\ rotation[n] \in Visited(n)
         /\ rotation[n] \in DOMAIN peers /\ Waiting(rotation[n])
         /\ Visited(n) = Visited(n - 1) \cup {rotation[n]} /\ rotation[n] \notin Visited(n - 1)
         /\ Visited(n) \subseteq Range(rotation) /\ Unreached(n) \subseteq Range(rotation)
         /\ Range(rotation) \subseteq Visited(n) \cup Unreached(n)
         /\ Visited(n) \cap Unreached(n) = {}
         /\ rotation[1] \in Visited(n)
         /\ \A j \in Unreached(n) : Precedes(rotation, rotation[n], j)
<1>1. /\ rotation \in Seq(Keys) /\ Len(rotation) \in Nat /\ DOMAIN rotation = 1..Len(rotation)
      /\ \A a, b \in 1..Len(rotation) : rotation[a] = rotation[b] => a = b
  <2>1. rotation \in Seq(Keys) /\ IsInjective(rotation)
    BY Zenon DEF QueueTypeOK, RotationExact
  <2>2. Len(rotation) \in Nat /\ DOMAIN rotation = 1..Len(rotation)
    BY <2>1
  <2> QED BY Zenon, <2>1, <2>2 DEF IsInjective
<1>2. Range(rotation) = {rotation[m] : m \in 1..Len(rotation)}
  BY Zenon, <1>1 DEF Range
<1>3. rotation[n] \in Visited(n) /\ rotation[1] \in Visited(n)
  BY <1>1 DEF Visited
<1>4. rotation[n] \in DOMAIN peers /\ Waiting(rotation[n])
  <2>1. rotation[n] \in Range(rotation)
    BY Zenon, <1>2
  <2> QED BY Zenon, <2>1 DEF RotationExact
<1>5. Visited(n) = Visited(n - 1) \cup {rotation[n]}
  <2>1. 1..n = 1..(n - 1) \cup {n}
    OBVIOUS
  <2> QED BY Zenon, <2>1 DEF Visited
<1>6. rotation[n] \notin Visited(n - 1)
  BY <1>1 DEF Visited
<1>7. Visited(n) \subseteq Range(rotation) /\ Unreached(n) \subseteq Range(rotation)
  BY <1>1, <1>2 DEF Visited, Unreached
<1>8. Range(rotation) \subseteq Visited(n) \cup Unreached(n)
  BY <1>1, <1>2 DEF Visited, Unreached
<1>9. Visited(n) \cap Unreached(n) = {}
  BY <1>1 DEF Visited, Unreached
<1>10. ASSUME NEW j \in Unreached(n) PROVE Precedes(rotation, rotation[n], j)
  <2>1. PICK m \in (n + 1)..Len(rotation) : rotation[m] = j
    BY Zenon DEF Unreached
  <2>2. n \in 1..Len(rotation) /\ m \in 1..Len(rotation) /\ n < m
    BY <2>1, <1>1
  <2> QED BY Zenon, <2>1, <2>2 DEF Precedes
<1> QED BY Zenon, <1>3, <1>4, <1>5, <1>6, <1>7, <1>8, <1>9, <1>10

(* Where service leaves the rotation: the served peer is gone, in front or at the
   back; nobody comes before a peer that was not reached who did not before,
   except the served peer while its turn goes on. *)
LEMMA ServeRotation ==
  ASSUME QueueTypeOK, RotationExact, NEW n \in 1..Len(rotation), Servable(rotation[n]), Serve(n)
  PROVE  LET k == rotation[n]
             q == AfterService(k)
         IN  /\ rotation' \in Seq(Keys) /\ IsInjective(rotation')
             /\ Range(rotation') = (IF q.packets = <<>> THEN Range(rotation) \ {k} ELSE Range(rotation))
             /\ q.in_round => rotation'[1] = k
             /\ \A i, j : Precedes(rotation', i, j) =>
                  \/ j \in Visited(n)
                  \/ /\ j \in Unreached(n)
                     /\ \/ i \in Unreached(n) /\ Precedes(rotation, i, j)
                        \/ i = k /\ q.in_round
<1> DEFINE k == rotation[n]
           q == AfterService(k)
           o == SubSeq(rotation, n + 1, Len(rotation)) \o SubSeq(rotation, 1, n - 1)
<1>1. rotation \in Seq(Keys) /\ IsInjective(rotation) /\ k \in Keys /\ k \in Range(rotation)
  <2>1. rotation \in Seq(Keys) /\ IsInjective(rotation)
    BY Zenon DEF QueueTypeOK, RotationExact
  <2> QED BY <2>1 DEF Range
<1>2. /\ o \in Seq(Keys) /\ Range(o) = Range(rotation) \ {k} /\ IsInjective(o)
      /\ \A i, j : Precedes(o, i, j) =>
           \/ \E b \in 1..(n - 1) : rotation[b] = j
           \/ \E a, b \in (n + 1)..Len(rotation) : a < b /\ rotation[a] = i /\ rotation[b] = j
  BY <1>1, Rotated
<1>3. rotation' = Requeued(k, o)
  BY Zenon DEF Serve
<1>4. q.packets = <<>> => ~q.in_round
  BY Zenon, VisitedFacts, TrackedFacts, ServiceFacts
<1> HIDE DEF o
<1>5. ASSUME NEW i, NEW j, Precedes(o, i, j)
      PROVE  j \in Visited(n) \/ (j \in Unreached(n) /\ i \in Unreached(n) /\ Precedes(rotation, i, j))
  <2>1. CASE \E b \in 1..(n - 1) : rotation[b] = j
    BY <2>1, <1>1 DEF Visited
  <2>2. CASE \E a, b \in (n + 1)..Len(rotation) : a < b /\ rotation[a] = i /\ rotation[b] = j
    <3>1. PICK a, b \in (n + 1)..Len(rotation) : a < b /\ rotation[a] = i /\ rotation[b] = j
      BY Zenon, <2>2
    <3>2. a \in 1..Len(rotation) /\ b \in 1..Len(rotation)
      BY <1>1
    <3> QED BY Zenon, <3>1, <3>2 DEF Unreached, Precedes
  <2> QED BY <1>2, <1>5, <2>1, <2>2
<1>6. /\ k \in Visited(n)
      /\ \A j \in Range(rotation) : j \in Visited(n) \/ j \in Unreached(n)
  BY Zenon, VisitedFacts
<1> HIDE DEF k, q
<1>7. CASE q.packets = <<>>
  <2>1. rotation' = o
    <3>1. AfterService(k).packets = <<>> /\ ~AfterService(k).in_round
      BY Zenon, <1>4, <1>7 DEF q
    <3> QED BY Zenon, <1>3, <3>1 DEF Requeued
  <2> QED BY Zenon, <2>1, <1>2, <1>4, <1>5, <1>7 DEF q, k
<1>8. CASE q.packets # <<>> /\ q.in_round
  <2>1. rotation' = <<k>> \o o
    BY Zenon, <1>3, <1>8 DEF Requeued, q
  <2>2. /\ rotation' \in Seq(Keys)
        /\ Range(rotation') = Range(o) \cup {k}
        /\ IsInjective(rotation')
        /\ \A i, j : Precedes(rotation', i, j) => Precedes(o, i, j) \/ (i = k /\ j \in Range(o))
        /\ rotation'[1] = k
    <3>1. k \notin Range(o)
      BY Zenon, <1>2
    <3> QED BY <2>1, <3>1, <1>1, <1>2, PrependOnce
  <2>3. Range(rotation') = Range(rotation)
    BY <2>2, <1>1, <1>2
  <2>4. ASSUME NEW i, NEW j, Precedes(rotation', i, j)
        PROVE  \/ j \in Visited(n)
               \/ j \in Unreached(n) /\ ((i \in Unreached(n) /\ Precedes(rotation, i, j)) \/ i = k)
    BY Zenon, <2>4, <2>2, <1>2, <1>5, <1>6
  <2> QED BY Zenon, <2>2, <2>3, <2>4, <1>8 DEF q, k
<1>9. CASE q.packets # <<>> /\ ~q.in_round
  <2>1. rotation' = Append(o, k)
    <3>1. rotation' = o \o <<k>>
      BY Zenon, <1>3, <1>9 DEF Requeued, q
    <3> QED BY <3>1, <1>1, <1>2
  <2>2. /\ rotation' \in Seq(Keys)
        /\ Range(rotation') = Range(o) \cup {k}
        /\ IsInjective(rotation')
        /\ \A i, j : Precedes(rotation', i, j) => Precedes(o, i, j) \/ (i \in Range(o) /\ j = k)
    <3>1. k \notin Range(o)
      BY Zenon, <1>2
    <3> QED BY Zenon, <2>1, <3>1, <1>1, <1>2, AppendOnce
  <2>3. Range(rotation') = Range(rotation)
    BY Zenon, <2>2, <1>1, <1>2
  <2>4. ASSUME NEW i, NEW j, Precedes(rotation', i, j)
        PROVE  \/ j \in Visited(n)
               \/ j \in Unreached(n) /\ i \in Unreached(n) /\ Precedes(rotation, i, j)
    BY <2>4, <2>2, <1>5, <1>6
  <2> QED BY Zenon, <2>2, <2>3, <2>4, <1>9 DEF q, k
<1> QED BY Zenon, <1>7, <1>8, <1>9

(* The queues after service. *)
LEMMA ServeTable ==
  ASSUME QueueTypeOK, RotationExact, NEW n \in 1..Len(rotation), Servable(rotation[n]), Serve(n)
  PROVE  LET k == rotation[n]
             q == AfterService(k)
         IN  /\ DOMAIN peers' = DOMAIN peers \ (IF Forgotten(k) THEN {k} ELSE {})
             /\ peers' = [j \in DOMAIN peers' |-> peers'[j]]
             /\ k \in DOMAIN peers' => peers'[k] = q
             /\ \A j \in DOMAIN peers' : j \in Visited(n) /\ j # k => peers'[j] = PassedOver(j)
             /\ \A j \in DOMAIN peers' : j \notin Visited(n) => peers'[j] = peers[j]
             /\ \A j : (Waiting(j))' <=> Waiting(j) /\ (j = k => q.packets # <<>>)
             /\ Stored(peers') = Stored(peers) \ {<<k, Len(peers[k].packets)>>}
             /\ <<k, Len(peers[k].packets)>> \in Stored(peers)
<1> DEFINE k == rotation[n]
           q == AfterService(k)
           passed == SubSeq(rotation, 1, n - 1)
           L == Len(peers[k].packets)
<1>1. Range(passed) = Visited(n - 1)
  <2>1. rotation \in Seq(Keys) /\ n - 1 \in 0..Len(rotation)
    BY DEF QueueTypeOK
  <2> QED BY Zenon, <2>1, FrontKeys DEF Visited
<1>2. /\ k \in DOMAIN peers /\ Waiting(k) /\ k \in Visited(n)
      /\ Visited(n) = Visited(n - 1) \cup {k} /\ k \notin Visited(n - 1)
  BY Zenon, VisitedFacts
<1>3. peers[k] \in PeerQueue /\ L \in Nat /\ L > 0 /\ DOMAIN peers[k].packets = 1..L
  BY Zenon, <1>2, TrackedFacts, QueueFields
<1>4. /\ q \in PeerQueue /\ Len(q.packets) = L - 1
      /\ DOMAIN q.packets = 1..(L - 1) /\ (q.packets = <<>> <=> L = 1)
  <2>1. q \in PeerQueue /\ Len(q.packets) = L - 1
    BY Zenon, <1>3, ServiceFacts
  <2> HIDE DEF q, L
  <2>2. DOMAIN q.packets = 1..Len(q.packets) /\ (q.packets = <<>> <=> Len(q.packets) = 0)
    BY Zenon, <2>1, QueueFields
  <2> QED BY <1>3, <2>1, <2>2
<1>5. peers' = [j \in DOMAIN peers \ (IF Forgotten(k) THEN {k} ELSE {}) |->
                  CASE j = k -> q
                    [] j \in Range(passed) -> PassedOver(j)
                    [] OTHER -> peers[j]]
  BY Zenon DEF Serve
<1>6. Forgotten(k) => q.packets = <<>>
  BY Zenon DEF Forgotten
<1> HIDE DEF q, passed, k
<1>7. /\ DOMAIN peers' = DOMAIN peers \ (IF Forgotten(k) THEN {k} ELSE {})
      /\ peers' = [j \in DOMAIN peers' |-> peers'[j]]
      /\ k \in DOMAIN peers' => peers'[k] = q
      /\ \A j \in DOMAIN peers' : j \in Visited(n) /\ j # k => peers'[j] = PassedOver(j)
      /\ \A j \in DOMAIN peers' : j \notin Visited(n) => peers'[j] = peers[j]
  BY Zenon, <1>1, <1>2, <1>5
<1>8. \A j \in DOMAIN peers' : j # k => peers'[j].packets = peers[j].packets
  BY Zenon, <1>7, TrackedFacts, ToppedFacts
<1>9. ASSUME NEW j PROVE (Waiting(j))' <=> Waiting(j) /\ (j = k => q.packets # <<>>)
  <2>1. CASE j # k
    BY Zenon, <2>1, <1>7, <1>8 DEF Waiting, Backlog
  <2>2. CASE j = k
    BY <2>2, <1>2, <1>3, <1>4, <1>6, <1>7 DEF Waiting, Backlog
  <2> QED BY Zenon, <2>1, <2>2
<1> HIDE DEF L
<1>10. <<k, L>> \in Stored(peers)
  <2>1. k \in DOMAIN peers /\ L \in DOMAIN peers[k].packets
    BY <1>2, <1>3
  <2> QED BY Zenon, <2>1, InStored
<1>11. ASSUME NEW x \in Stored(peers') PROVE x \in Stored(peers) /\ x # <<k, L>>
  <2>1. PICK j \in DOMAIN peers' : \E i \in DOMAIN peers'[j].packets : x = <<j, i>>
    BY <1>11, InStored
  <2>2. CASE j = k
    <3>1. PICK i \in 1..(L - 1) : x = <<k, i>>
      BY Zenon, <2>1, <2>2, <1>4, <1>7
    <3>2. i \in DOMAIN peers[k].packets /\ i # L
      BY <1>3, <3>1
    <3> QED BY Zenon, <3>1, <3>2, <1>2, InStored
  <2>3. CASE j # k
    <3>1. j \in DOMAIN peers /\ peers'[j].packets = peers[j].packets
      BY Zenon, <2>3, <1>7, <1>8
    <3>2. x \in Stored(peers)
      BY Zenon, <2>1, <3>1, InStored
    <3> QED BY <2>1, <2>3, <3>2
  <2> QED BY Zenon, <2>2, <2>3
<1>12. ASSUME NEW x \in Stored(peers), x # <<k, L>> PROVE x \in Stored(peers')
  <2>1. PICK j \in DOMAIN peers : \E i \in DOMAIN peers[j].packets : x = <<j, i>>
    BY <1>12, InStored
  <2>2. CASE j = k
    <3>1. PICK i \in 1..L : x = <<k, i>>
      BY Zenon, <2>1, <2>2, <1>3
    <3>2. i \in 1..(L - 1) /\ L # 1
      BY <3>1, <1>3, <1>12
    <3>3. k \in DOMAIN peers' /\ i \in DOMAIN peers'[k].packets
      BY Zenon, <3>2, <1>2, <1>4, <1>6, <1>7
    <3> QED BY Zenon, <3>1, <3>3, InStored
  <2>3. CASE j # k
    <3>1. j \in DOMAIN peers' /\ peers'[j].packets = peers[j].packets
      BY Zenon, <2>3, <1>7, <1>8
    <3> QED BY Zenon, <2>1, <3>1, InStored
  <2> QED BY Zenon, <2>2, <2>3
<1>13. Stored(peers') = Stored(peers) \ {<<k, L>>}
  BY Zenon, <1>11, <1>12
<1> QED BY Zenon, <1>7, <1>9, <1>10, <1>13 DEF k, q, L

(* Service keeps the views of what waits in step. *)
LEMMA ServeExact ==
  ASSUME QueueTypeOK, QueuesExact, NEW n \in 1..Len(rotation), Servable(rotation[n]), Serve(n)
  PROVE  QueueTypeOK' /\ QueuesExact'
<1> DEFINE k == rotation[n]
           q == AfterService(k)
<1>0. RotationExact /\ CapacityKept
  BY Zenon DEF QueuesExact
<1>1. k \in DOMAIN peers /\ peers[k] \in PeerQueue /\ Len(peers[k].packets) > 0
  BY Zenon, <1>0, VisitedFacts, TrackedFacts
<1>2. /\ q \in PeerQueue /\ Len(q.packets) = Len(peers[k].packets) - 1
      /\ q.packets = <<>> => q.deficit = 0 /\ ~q.in_round
      /\ q.tokens = NoBucket <=> peers[k].tokens = NoBucket
      /\ Next1(k) \in Nat
  BY Zenon, <1>1, ServiceFacts
<1>3. /\ DOMAIN peers' = DOMAIN peers \ (IF Forgotten(k) THEN {k} ELSE {})
      /\ peers' = [j \in DOMAIN peers' |-> peers'[j]]
      /\ k \in DOMAIN peers' => peers'[k] = q
      /\ \A j \in DOMAIN peers' : j \in Visited(n) /\ j # k => peers'[j] = PassedOver(j)
      /\ \A j \in DOMAIN peers' : j \notin Visited(n) => peers'[j] = peers[j]
      /\ \A j : (Waiting(j))' <=> Waiting(j) /\ (j = k => q.packets # <<>>)
  BY Zenon, <1>0, ServeTable
<1>4. PICK x : Stored(peers') = Stored(peers) \ {x} /\ x \in Stored(peers)
  BY Zenon, <1>0, ServeTable
<1>5. /\ rotation' \in Seq(Keys) /\ IsInjective(rotation')
      /\ Range(rotation') = (IF q.packets = <<>> THEN Range(rotation) \ {k} ELSE Range(rotation))
  BY Zenon, <1>0, ServeRotation
<1>6. /\ queued' = queued - 1 /\ UNCHANGED <<rate, permit, receiver, shaped>>
      /\ credit' = IF rate = 0 THEN credit ELSE [credit EXCEPT ![k] = @ - Next1(k)]
  BY Zenon DEF Serve
<1>7. since' \in [Keys -> [Keys -> Nat]]
  <2>1. since \in [Keys -> [Keys -> Nat]]
    BY Zenon DEF QueueTypeOK
  <2> DEFINE visited == Range(SubSeq(rotation, 1, n))
             next(j, i) == IF shaped \/ j \in visited \/ ~Waiting(j) THEN 0
                           ELSE since[j][i] + (IF i = k THEN Next1(k) ELSE 0)
  <2>2. since' = [j \in Keys |-> [i \in Keys |-> next(j, i)]]
    BY Zenon DEF Serve
  <2>3. ASSUME NEW j \in Keys, NEW i \in Keys PROVE next(j, i) \in Nat
    <3>1. since[j][i] \in Nat /\ since[j][i] + Next1(k) \in Nat
      BY <2>1, <1>2
    <3> HIDE DEF k, visited
    <3> QED BY <3>1
  <2> HIDE DEF next
  <2> QED BY Zenon, <2>2, <2>3
<1> HIDE DEF q, k
<1>8. \A j \in DOMAIN peers' :
        /\ peers'[j] \in PeerQueue /\ Len(peers'[j].packets) <= Len(peers[j].packets)
        /\ peers'[j].tokens = NoBucket <=> peers[j].tokens = NoBucket
        /\ j # k /\ ~Waiting(j) => peers'[j] = peers[j]
  <2>1. SUFFICES ASSUME NEW j \in DOMAIN peers'
                 PROVE  /\ peers'[j] \in PeerQueue /\ Len(peers'[j].packets) <= Len(peers[j].packets)
                        /\ peers'[j].tokens = NoBucket <=> peers[j].tokens = NoBucket
                        /\ j # k /\ ~Waiting(j) => peers'[j] = peers[j]
    BY Zenon
  <2>2. peers[j] \in PeerQueue /\ Len(peers[j].packets) \in Nat
    BY Zenon, <1>3, TrackedFacts, QueueFields
  <2>3. CASE j = k
    BY <2>2, <2>3, <1>2, <1>3
  <2>4. CASE j # k /\ j \in Visited(n)
    <3>1. Waiting(j)
      BY Zenon, <2>4, <1>0, VisitedFacts DEF RotationExact
    <3>2. peers'[j] = PassedOver(j)
      BY Zenon, <2>4, <1>3
    <3>3. /\ PassedOver(j) \in PeerQueue /\ PassedOver(j).packets = peers[j].packets
          /\ PassedOver(j).tokens = peers[j].tokens
      BY Zenon, <2>2, ToppedFacts
    <3> QED BY <2>2, <2>4, <3>1, <3>2, <3>3
  <2>5. CASE j # k /\ j \notin Visited(n)
    BY <2>2, <2>5, <1>3
  <2> QED BY Zenon, <2>3, <2>4, <2>5
<1>9. QueueTypeOK'
  <2>1. peers' \in [DOMAIN peers' -> PeerQueue]
    BY Zenon, <1>3, <1>8
  <2>2. DOMAIN peers' \subseteq DOMAIN peers
    BY Zenon, <1>3
  <2>3. IsFiniteSet(DOMAIN peers) /\ DOMAIN peers \subseteq Keys /\ IsFiniteSet(Stored(peers))
    BY Zenon DEF QueueTypeOK
  <2>4. DOMAIN peers' \subseteq Keys /\ IsFiniteSet(DOMAIN peers')
    BY Zenon, <2>2, <2>3, FS_Subset
  <2>5. IsFiniteSet(Stored(peers'))
    BY Zenon, <2>3, <1>4, FS_RemoveElement
  <2>6. queued' \in Nat
    <3>1. queued \in Nat /\ queued = Cardinality(Stored(peers))
      BY Zenon, <1>0 DEF QueueTypeOK, CapacityKept
    <3>2. queued # 0
      BY Zenon, <3>1, <2>3, <1>4, FS_EmptySet
    <3> QED BY <3>1, <3>2, <1>6
  <2>7. credit' \in [Keys -> Int]
    <3>1. credit \in [Keys -> Int]
      BY Zenon DEF QueueTypeOK
    <3>2. ASSUME rate # 0 PROVE credit' = [credit EXCEPT ![k] = @ - Next1(k)]
      BY Zenon, <1>6, <3>2
    <3>3. k \in Keys /\ credit[k] - Next1(k) \in Int
      BY <3>1, <1>1, <1>2, <2>3
    <3>4. CASE rate # 0
      BY Zenon, <3>1, <3>2, <3>3, <3>4
    <3>5. CASE rate = 0
      BY Zenon, <3>1, <3>5, <1>6
    <3> QED BY Zenon, <3>4, <3>5
  <2>8. \A j \in DOMAIN peers' : ~(Waiting(j))' => peers'[j].deficit = 0 /\ ~peers'[j].in_round
    <3>1. \A j \in DOMAIN peers : ~Waiting(j) => peers[j].deficit = 0 /\ ~peers[j].in_round
      BY Zenon DEF QueueTypeOK
    <3>2. Waiting(k)
      BY Zenon, <1>1, TrackedFacts
    <3> QED BY <3>1, <3>2, <2>2, <1>2, <1>3, <1>8
  <2>9. /\ rate' \in Rates /\ permit' \in BOOLEAN /\ receiver' \in {"polled", "waiting", "sleeping"}
        /\ shaped' \in BOOLEAN /\ (rate' # 0 => shaped')
    BY Zenon, <1>6 DEF QueueTypeOK
  <2> QED BY Zenon, <1>5, <1>7, <2>1, <2>4, <2>5, <2>6, <2>7, <2>8, <2>9 DEF QueueTypeOK
<1>10. RotationExact'
  <2>1. Range(rotation) = {j \in DOMAIN peers : Waiting(j)}
    BY Zenon, <1>0 DEF RotationExact
  <2>2. Forgotten(k) => q.packets = <<>>
    BY Zenon DEF Forgotten, q
  <2>3. Range(rotation') = {j \in DOMAIN peers' : (Waiting(j))'}
    BY Zenon, <2>1, <2>2, <1>3, <1>5
  <2> QED BY Zenon, <2>3, <1>5 DEF RotationExact
<1>11. CapacityKept'
  <2>1. /\ queued = Cardinality(Stored(peers)) /\ queued <= CAPACITY
        /\ \A j \in DOMAIN peers : Len(peers[j].packets) <= PER_PEER /\ (peers[j].tokens = NoBucket <=> rate = 0)
        /\ Cardinality(DOMAIN peers) <= MAX_TRACKED
    BY Zenon, <1>0 DEF CapacityKept
  <2>2. queued \in Nat /\ IsFiniteSet(DOMAIN peers) /\ IsFiniteSet(Stored(peers))
    BY Zenon DEF QueueTypeOK
  <2>3. queued' = Cardinality(Stored(peers'))
    BY Zenon, <2>1, <2>2, <1>4, <1>6, FS_RemoveElement
  <2>4. queued' <= CAPACITY
    BY <2>1, <2>2, <1>6, QueueConstants
  <2>5. DOMAIN peers' \subseteq DOMAIN peers
    BY Zenon, <1>3
  <2>6. Cardinality(DOMAIN peers') <= MAX_TRACKED
    <3>1. /\ Cardinality(DOMAIN peers') <= Cardinality(DOMAIN peers)
          /\ Cardinality(DOMAIN peers') \in Nat /\ Cardinality(DOMAIN peers) \in Nat
      BY Zenon, <2>2, <2>5, FS_Subset, FS_CardinalityType
    <3> QED BY <3>1, <2>1, QueueConstants
  <2>7. \A j \in DOMAIN peers' : Len(peers'[j].packets) <= PER_PEER /\ (peers'[j].tokens = NoBucket <=> rate = 0)
    <3>1. \A j \in DOMAIN peers' : Len(peers'[j].packets) \in Nat /\ Len(peers[j].packets) \in Nat
      BY Zenon, <1>8, <2>5, TrackedFacts, QueueFields
    <3> QED BY <3>1, <2>1, <2>5, <1>8, QueueConstants
  <2> QED BY Zenon, <2>3, <2>4, <2>6, <2>7, <1>6 DEF CapacityKept
<1> QED BY Zenon, <1>9, <1>10, <1>11 DEF QueuesExact

(* What service adds to what the served peer was sent: nothing for a peer that
   was visited, a packet for one that waits and was not reached. *)
LEMMA ServeSince ==
  ASSUME QueueTypeOK, NEW n \in 1..Len(rotation), Serve(n), ~shaped, NEW i \in Keys, NEW j \in Keys
  PROVE  since'[j][i] = IF j \in Visited(n) \/ ~Waiting(j) THEN 0
                        ELSE since[j][i] + (IF i = rotation[n] THEN Next1(rotation[n]) ELSE 0)
<1> DEFINE k == rotation[n]
           visited == Range(SubSeq(rotation, 1, n))
           next(b, a) == IF shaped \/ b \in visited \/ ~Waiting(b) THEN 0
                         ELSE since[b][a] + (IF a = k THEN Next1(k) ELSE 0)
<1>1. visited = Visited(n)
  <2>1. rotation \in Seq(Keys) /\ n \in 0..Len(rotation)
    BY DEF QueueTypeOK
  <2> QED BY Zenon, <2>1, FrontKeys DEF Visited
<1>2. since' = [b \in Keys |-> [a \in Keys |-> next(b, a)]]
  BY Zenon DEF Serve
<1>3. since'[j][i] = next(j, i)
  <2> HIDE DEF next
  <2> QED BY Zenon, <1>2
<1> HIDE DEF visited
<1> QED BY Zenon, <1>1, <1>3

(* Service keeps the shares fair. *)
LEMMA ServeFair ==
  ASSUME QueueInv, ~shaped, NEW n \in 1..Len(rotation), Servable(rotation[n]), Serve(n),
         \A m \in 1..(n - 1) : ~Servable(rotation[m])
  PROVE  FairShare' /\ DeficitKept' /\ SentBefore'
<1> DEFINE k == rotation[n]
           q == AfterService(k)
           bound == QUANTUM + MAX_SIZE
<1>0. QueueTypeOK /\ RotationExact /\ FairShare /\ DeficitKept /\ SentBefore /\ since \in [Keys -> [Keys -> Nat]]
  BY Zenon DEF QueueInv, QueuesExact, QueueTypeOK
<1>1. k \in DOMAIN peers /\ peers[k] \in PeerQueue /\ Len(peers[k].packets) > 0 /\ Waiting(k) /\ k \in Keys
  BY Zenon, <1>0, VisitedFacts, TrackedFacts
<1>2. /\ q \in PeerQueue
      /\ Next1(k) \in Nat /\ Next1(k) > 0 /\ Next1(k) <= Topped(k)
      /\ q.packets = <<>> => q.deficit = 0 /\ ~q.in_round
      /\ q.packets # <<>> => /\ q.deficit = Topped(k) - Next1(k)
                             /\ q.in_round <=> Head(q.packets) <= q.deficit
                             /\ Head(q.packets) \in Nat /\ Head(q.packets) <= MAX_SIZE
  BY Zenon, <1>1, ServiceFacts
<1>3. /\ DOMAIN peers' \subseteq DOMAIN peers
      /\ k \in DOMAIN peers' => peers'[k] = q
      /\ \A j \in DOMAIN peers' : j \in Visited(n) /\ j # k => peers'[j] = PassedOver(j)
      /\ \A j \in DOMAIN peers' : j \notin Visited(n) => peers'[j] = peers[j]
      /\ \A j : (Waiting(j))' <=> Waiting(j) /\ (j = k => q.packets # <<>>)
  BY Zenon, <1>0, ServeTable
<1>4. /\ \A j \in DOMAIN peers' : (Waiting(j))' => j \in Range(rotation)
      /\ q.in_round => rotation'[1] = k
      /\ \A i, j : Precedes(rotation', i, j) =>
           \/ j \in Visited(n)
           \/ /\ j \in Unreached(n)
              /\ \/ i \in Unreached(n) /\ Precedes(rotation, i, j)
                 \/ i = k /\ q.in_round
  <2>1. \A j \in DOMAIN peers : Waiting(j) => j \in Range(rotation)
    BY Zenon, <1>0 DEF RotationExact
  <2>2. /\ q.in_round => rotation'[1] = k
        /\ \A i, j : Precedes(rotation', i, j) =>
             \/ j \in Visited(n)
             \/ /\ j \in Unreached(n)
                /\ \/ i \in Unreached(n) /\ Precedes(rotation, i, j)
                   \/ i = k /\ q.in_round
    BY Zenon, <1>0, ServeRotation
  <2> QED BY Zenon, <2>1, <2>2, <1>3
<1>5. /\ k \in Visited(n) /\ Visited(n) = Visited(n - 1) \cup {k} /\ rotation[1] \in Visited(n)
      /\ \A j \in Unreached(n) : j \notin Visited(n) /\ j \in DOMAIN peers /\ Waiting(j) /\ Precedes(rotation, k, j)
      /\ \A j \in DOMAIN peers : Waiting(j) => j \in Visited(n) \/ j \in Unreached(n)
      /\ \A j \in Visited(n) : j \in DOMAIN peers /\ Waiting(j)
  BY Zenon, <1>0, VisitedFacts DEF RotationExact
<1>6. \A i, j \in Keys :
        since'[j][i] = IF j \in Visited(n) \/ ~Waiting(j) THEN 0
                       ELSE since[j][i] + (IF i = k THEN Next1(k) ELSE 0)
  BY Zenon, <1>0, ServeSince
<1>7. bound \in Nat /\ bound > 0 /\ bound >= MAX_SIZE /\ MAX_SIZE \in Nat
  BY QueueConstants
<1>8. ASSUME NEW j \in Visited(n), j # k PROVE Topped(j) \in Nat /\ Topped(j) < MAX_SIZE
  <2>1. j \in Visited(n - 1)
    BY Zenon, <1>5, <1>8
  <2>2. ~Servable(j)
    BY Zenon, <2>1 DEF Visited
  <2> QED BY Zenon, <1>0, <1>5, <2>2, PassedOverPoor, ToppedFacts, TrackedFacts
<1>9. Topped(k) \in Nat /\ Topped(k) < bound
  <2>1. /\ Topped(k) \in Nat /\ Topped(k) <= peers[k].deficit + QUANTUM
        /\ peers[k].in_round => Topped(k) = peers[k].deficit
    BY Zenon, <1>1, ToppedFacts
  <2>2. /\ peers[k].deficit \in Nat /\ peers[k].deficit < bound
        /\ ~peers[k].in_round => peers[k].deficit < MAX_SIZE
    BY Zenon, <1>0, <1>1, QueueFields DEF DeficitKept
  <2> QED BY <2>1, <2>2, QueueConstants
<1>10. ASSUME NEW j \in Unreached(n) PROVE j \in Keys /\ since[j][k] \in Nat /\ since[j][k] + Topped(k) < bound
  <2>1. j \in Keys /\ since[j][k] \in Nat /\ Precedes(rotation, k, j)
    BY <1>0, <1>1, <1>5, TrackedFacts
  <2>2. IF peers[k].in_round THEN since[j][k] + peers[k].deficit < bound ELSE since[j][k] = 0
    BY Zenon, <2>1, <1>0, <1>1 DEF SentBefore
  <2>3. peers[k].in_round => Topped(k) = peers[k].deficit
    BY Zenon, <1>1, ToppedFacts
  <2> QED BY <2>1, <2>2, <2>3, <1>9
<1>11. Waiting(k)
  BY Zenon, <1>1
<1> HIDE DEF k, q, bound
<1>12. ASSUME NEW i \in DOMAIN peers'
       PROVE  /\ peers'[i].deficit \in Nat /\ peers'[i].deficit < bound
              /\ (Waiting(i))' /\ ~peers'[i].in_round => peers'[i].deficit < MAX_SIZE
              /\ peers'[i].in_round => rotation'[1] = i /\ Head(peers'[i].packets) <= peers'[i].deficit
  <2>1. CASE i = k
    <3>1. q.deficit \in Nat /\ q.deficit < bound
      BY <1>2, <1>7, <1>9
    <3>2. q.packets # <<>> /\ ~q.in_round => q.deficit < MAX_SIZE
      BY <1>2, <1>7, <3>1
    <3>3. q.in_round => rotation'[1] = k /\ Head(q.packets) <= q.deficit
      BY Zenon, <1>2, <1>4
    <3>4. peers'[i] = q /\ ((Waiting(i))' => q.packets # <<>>)
      BY Zenon, <2>1, <1>3
    <3> QED BY Zenon, <2>1, <3>1, <3>2, <3>3, <3>4
  <2>2. CASE i # k /\ i \in Visited(n)
    <3>1. peers'[i] = PassedOver(i) /\ peers[i] \in PeerQueue
      BY Zenon, <2>2, <1>0, <1>3, TrackedFacts
    <3>2. peers'[i].deficit = Topped(i) /\ peers'[i].in_round = FALSE
      BY Zenon, <3>1, ToppedFacts
    <3> QED BY <2>2, <3>2, <1>7, <1>8
  <2>3. CASE i # k /\ i \notin Visited(n)
    <3>1. peers'[i] = peers[i] /\ ((Waiting(i))' => Waiting(i)) /\ peers[i].deficit \in Nat
      BY Zenon, <2>3, <1>0, <1>3, TrackedFacts, QueueFields
    <3>2. ~peers[i].in_round
      BY Zenon, <2>3, <1>0, <1>3, <1>5 DEF DeficitKept
    <3>3. peers[i].deficit < bound /\ (Waiting(i) /\ ~peers[i].in_round => peers[i].deficit < MAX_SIZE)
      BY Zenon, <1>0, <1>3 DEF DeficitKept, bound
    <3> QED BY Zenon, <3>1, <3>2, <3>3
  <2> QED BY Zenon, <2>1, <2>2, <2>3
<1>13. DeficitKept'
  BY Zenon, <1>12 DEF DeficitKept, Next1, bound
<1>14. FairShare'
  <2>1. ASSUME NEW j \in Keys, NEW i \in Keys, (Waiting(j))' PROVE since'[j][i] < bound
    <3>1. CASE j \in Visited(n) \/ ~Waiting(j)
      BY Zenon, <3>1, <1>6, <1>7
    <3>2. CASE j \notin Visited(n) /\ Waiting(j)
      <4>1. j \in Unreached(n)
        BY Zenon, <3>2, <1>0, <1>5, TrackedFacts
      <4>2. since[j][i] \in Nat /\ since[j][i] < bound
        BY Zenon, <3>2, <1>0 DEF FairShare, bound
      <4>3. CASE i = k
        <5>1. since'[j][i] = since[j][k] + Next1(k)
          BY Zenon, <3>2, <4>3, <1>6
        <5> QED BY <4>1, <5>1, <1>2, <1>7, <1>9, <1>10
      <4>4. CASE i # k
        BY <3>2, <4>2, <4>4, <1>6
      <4> QED BY Zenon, <4>3, <4>4
    <3> QED BY Zenon, <3>1, <3>2
  <2> QED BY Zenon, <2>1 DEF FairShare, bound
<1>15. \A i, j \in Keys : (Waiting(j))' \/ since'[j][i] = 0
  BY Zenon, <1>3, <1>5, <1>6
<1>16. ASSUME NEW i \in Keys, NEW j \in Keys, Precedes(rotation', i, j), i \in DOMAIN peers'
       PROVE  IF peers'[i].in_round THEN since'[j][i] + peers'[i].deficit < bound
              ELSE since'[j][i] = 0
  <2>1. CASE j \in Visited(n)
    <3>1. since'[j][i] = 0
      BY Zenon, <2>1, <1>6
    <3> QED BY <3>1, <1>7, <1>12, <1>16
  <2>2. CASE j \in Unreached(n) /\ i \in Unreached(n) /\ Precedes(rotation, i, j)
    <3>1. i # k /\ i \notin Visited(n) /\ j \notin Visited(n) /\ Waiting(j)
      BY Zenon, <2>2, <1>5
    <3>2. since[j][i] \in Nat
      BY Zenon, <1>0
    <3>3. since'[j][i] = since[j][i] /\ peers'[i] = peers[i]
      BY <3>1, <3>2, <1>3, <1>6, <1>16
    <3> QED BY Zenon, <2>2, <3>3, <1>0 DEF SentBefore, bound
  <2>3. CASE j \in Unreached(n) /\ i = k /\ q.in_round
    <3>1. j \notin Visited(n) /\ Waiting(j)
      BY Zenon, <2>3, <1>5
    <3>2. since'[j][i] = since[j][k] + Next1(k) /\ peers'[i] = q
      BY Zenon, <2>3, <3>1, <1>3, <1>6, <1>16
    <3>3. q.deficit = Topped(k) - Next1(k)
      BY Zenon, <2>3, <1>2
    <3> QED BY <2>3, <3>2, <3>3, <1>2, <1>7, <1>9, <1>10
  <2> QED BY Zenon, <1>4, <1>16, <2>1, <2>2, <2>3
<1>17. \A i, j : Precedes(rotation', i, j) => i \in DOMAIN peers'
  <2>1. QueuesExact
    BY Zenon DEF QueueInv
  <2>2. QueueTypeOK' /\ QueuesExact'
    <3>1. Servable(rotation[n]) /\ Serve(n)
      BY Zenon
    <3> QED BY Zenon, <3>1, <2>1, <1>0, ServeExact
  <2>3. rotation' \in Seq(Keys) /\ Range(rotation') \subseteq DOMAIN peers'
    BY Zenon, <2>2 DEF QueueTypeOK, QueuesExact, RotationExact
  <2> QED BY Zenon, <2>3, PrecedesIn
<1>18. SentBefore'
  BY Zenon, <1>15, <1>16, <1>17 DEF SentBefore, bound
<1> QED BY Zenon, <1>13, <1>14, <1>18

(* Service takes a packet out of both buckets of the peer it serves. *)
LEMMA ServeCredit ==
  ASSUME QueueInv, rate # 0, NEW n \in 1..Len(rotation), Servable(rotation[n]), Serve(n)
  PROVE  CreditKept'
<1> DEFINE k == rotation[n]
           q == AfterService(k)
           B == BucketCapacity(rate)
<1>0. QueueTypeOK /\ RotationExact /\ CapacityKept /\ CreditKept
  BY Zenon DEF QueueInv, QueuesExact
<1>1. k \in DOMAIN peers /\ peers[k] \in PeerQueue /\ Len(peers[k].packets) > 0 /\ k \in Keys
  BY Zenon, <1>0, VisitedFacts, TrackedFacts
<1>2. peers[k].tokens # NoBucket
  BY Zenon, <1>0, <1>1 DEF CapacityKept
<1>3. q.age = 0 /\ q.tokens = peers[k].tokens - Next1(k) /\ q.tokens \in Nat /\ Next1(k) \in Nat
  BY <1>1, <1>2, ServiceFacts
<1>4. ~Forgotten(k)
  BY Zenon, <1>2 DEF Forgotten
<1>5. /\ DOMAIN peers' = DOMAIN peers /\ peers'[k] = q
      /\ \A j \in DOMAIN peers : j \in Visited(n) /\ j # k => peers'[j] = PassedOver(j)
      /\ \A j \in DOMAIN peers : j \notin Visited(n) => peers'[j] = peers[j]
  BY Zenon, <1>0, <1>1, <1>4, ServeTable
<1>6. rate' = rate /\ credit' = [credit EXCEPT ![k] = @ - Next1(k)] /\ credit \in [Keys -> Int]
  BY Zenon, <1>0 DEF Serve, QueueTypeOK
<1>7. rate \in Nat /\ B \in Nat
  BY Zenon, <1>0, Buckets DEF QueueTypeOK
<1>8. /\ peers[k].tokens <= credit[k] /\ credit[k] \in 0..B
      /\ peers[k].tokens \in Nat
  BY Zenon, <1>0, <1>1, <1>2, QueueFields DEF CreditKept
<1> HIDE DEF k, q, B
<1>9. credit'[k] = credit[k] - Next1(k) /\ \A j \in Keys : j # k => credit'[j] = credit[j]
  BY Zenon, <1>1, <1>6
<1>10. credit'[k] \in 0..B /\ q.tokens <= credit'[k] /\ credit'[k] >= Smaller(q.age * rate, B)
  <2>1. credit'[k] \in 0..B /\ q.tokens <= credit'[k]
    BY <1>3, <1>7, <1>8, <1>9
  <2>2. q.age * rate = 0
    BY <1>3, <1>7
  <2> QED BY <2>1, <2>2, <1>7 DEF Smaller
<1>11. \A j \in DOMAIN peers : j # k => peers'[j].tokens = peers[j].tokens /\ peers'[j].age = peers[j].age
  BY Zenon, <1>0, <1>5, TrackedFacts, ToppedFacts
<1>12. ASSUME NEW j \in Keys
       PROVE  /\ credit'[j] \in 0..B
              /\ j \notin DOMAIN peers' => credit'[j] = B
              /\ j \in DOMAIN peers' =>
                   peers'[j].tokens <= credit'[j] /\ credit'[j] >= Smaller(peers'[j].age * rate, B)
  <2>1. CASE j = k
    BY Zenon, <2>1, <1>1, <1>5, <1>10
  <2>2. CASE j # k
    BY Zenon, <2>2, <1>0, <1>5, <1>9, <1>11 DEF CreditKept, B
  <2> QED BY Zenon, <2>1, <2>2
<1>13. BucketCapacity(rate') = B
  BY Zenon, <1>6 DEF B
<1> QED BY Zenon, <1>6, <1>12, <1>13 DEF CreditKept

(* One look of recv keeps the invariant. *)
LEMMA RecvInv ==
  ASSUME QueueInv, Recv
  PROVE  QueueInv'
<1>0. rotation \in Seq(Keys) /\ QueueTypeOK /\ QueuesExact
  BY Zenon DEF QueueInv, QueueTypeOK
<1>1. CASE LookInVain /\ \A k \in Range(rotation) : ~Servable(k)
  BY Zenon, <1>1, LookInVainInv
<1>2. CASE \E n \in 1..Len(rotation) :
             /\ Servable(rotation[n]) /\ \A m \in 1..(n - 1) : ~Servable(rotation[m])
             /\ Serve(n)
  <2>1. PICK n \in 1..Len(rotation) :
             /\ Servable(rotation[n]) /\ \A m \in 1..(n - 1) : ~Servable(rotation[m])
             /\ Serve(n)
    BY Zenon, <1>2
  <2>2. QueueTypeOK' /\ QueuesExact'
    BY Zenon, <1>0, <2>1, ServeExact
  <2>3. shaped' = shaped /\ rate' = rate /\ shaped \in BOOLEAN
    BY Zenon, <1>0, <2>1 DEF Serve, QueueTypeOK
  <2>4. ~shaped => FairShare' /\ DeficitKept' /\ SentBefore'
    BY Zenon, <2>1, ServeFair
  <2>5. rate # 0 => CreditKept'
    BY Zenon, <2>1, ServeCredit
  <2>6. FairShare'
    BY Zenon, <2>3, <2>4 DEF FairShare
  <2> QED BY Zenon, <2>2, <2>3, <2>4, <2>5, <2>6 DEF QueueInv
<1> QED BY Zenon, <1>1, <1>2 DEF Recv

-----------------------------------------------------------------------------
(* An empty queue satisfies the invariant. *)
LEMMA QueueStarts == QueueInit => QueueInv
<1> SUFFICES ASSUME QueueInit PROVE QueueInv
  BY Zenon
<1>1. /\ DOMAIN peers = {} /\ rotation = <<>> /\ queued = 0 /\ rate \in Rates
      /\ permit = FALSE /\ receiver = "polled" /\ shaped = (rate # 0)
      /\ credit = [k \in Keys |-> BucketCapacity(rate)]
      /\ since = [j \in Keys |-> [i \in Keys |-> 0]]
  BY Zenon DEF QueueInit
<1>2. BucketCapacity(rate) \in Nat
  BY Zenon, <1>1, Buckets
<1>3. Stored(peers) = {}
  BY Zenon, <1>1, InStored
<1>4. Range(rotation) = {} /\ IsInjective(rotation) /\ rotation \in Seq(Keys) /\ Len(rotation) = 0
  BY <1>1 DEF Range, IsInjective
<1>5. QueueTypeOK
  <2>1. peers \in [DOMAIN peers -> PeerQueue]
    <3>1. peers = [k \in {} |-> NewQueue]
      BY Zenon DEF QueueInit
    <3> QED BY Zenon, <3>1
  <2>2. credit \in [Keys -> Int] /\ since \in [Keys -> [Keys -> Nat]]
    BY <1>1, <1>2
  <2> QED BY Zenon, <1>1, <1>3, <1>4, <2>1, <2>2, FS_EmptySet DEF QueueTypeOK
<1>6. QueuesExact
  <2>1. RotationExact
    BY Zenon, <1>1, <1>4 DEF RotationExact
  <2>2. CapacityKept
    BY <1>1, <1>3, FS_EmptySet, QueueConstants DEF CapacityKept
  <2> QED BY Zenon, <2>1, <2>2 DEF QueuesExact
<1>7. \A k : ~Waiting(k)
  BY <1>1 DEF Waiting, Backlog
<1>8. FairShare /\ DeficitKept /\ SentBefore
  <2>1. \A i, j : ~Precedes(rotation, i, j)
    BY <1>4 DEF Precedes
  <2>2. \A i, j \in Keys : since[j][i] = 0
    BY Zenon, <1>1
  <2> QED BY Zenon, <1>1, <1>7, <2>1, <2>2 DEF FairShare, DeficitKept, SentBefore
<1>9. CreditKept
  BY <1>1, <1>2 DEF CreditKept
<1> QED BY Zenon, <1>5, <1>6, <1>8, <1>9 DEF QueueInv

(* What try_enqueue_keyed, recv, set_rate_bytes_per_sec and the clock keep of the
   queue, in whatever order they come. *)
THEOREM QueueInvariant == QueueSpec => []QueueInv
<1>1. QueueInv /\ [QueueNext]_queueVars => QueueInv'
  <2> SUFFICES ASSUME QueueInv, [QueueNext]_queueVars PROVE QueueInv'
    BY Zenon
  <2>1. CASE \E k \in Keys, size \in Sizes : TryEnqueue(k, size)
    BY Zenon, <2>1, EnqueueInv
  <2>2. CASE Recv
    BY Zenon, <2>2, RecvInv
  <2>3. CASE Woken \/ SleepEnds \/ Cancelled \/ UNCHANGED queueVars
    BY Zenon, <2>3, ResumeInv
  <2>4. CASE \E r \in Rates : SetRate(r)
    BY Zenon, <2>4, SetRateInv
  <2>5. CASE Tick
    BY Zenon, <2>5, TickInv
  <2> QED BY Zenon, <2>1, <2>2, <2>3, <2>4, <2>5 DEF QueueNext
<1> QED BY <1>1, QueueStarts, PTL DEF QueueSpec

(* The rotation lists exactly the peers with packets, each once, and no queue
   exceeds its capacity, however many peers share the queue. *)
THEOREM QueuesAreExact == QueueSpec => []QueuesExact
<1>1. QueueInv => QueuesExact
  BY Zenon DEF QueueInv
<1> QED BY <1>1, QueueInvariant, PTL

(* Without a rate limit no peer is sent more than a quantum and a packet between
   two looks at another one that waits. *)
THEOREM SharesAreFair == QueueSpec => []FairShare
<1>1. QueueInv => FairShare
  BY Zenon DEF QueueInv
<1> QED BY <1>1, QueueInvariant, PTL

(* Forgetting the bucket of an idle peer never lets it exceed its rate. *)
THEOREM RatesAreKept == QueueSpec => []WithinRate
<1>1. QueueInv => WithinRate
  <2> SUFFICES ASSUME QueueInv, rate # 0, NEW k \in Keys PROVE credit[k] >= 0
    BY Zenon DEF WithinRate
  <2>1. QueueTypeOK /\ CreditKept
    BY Zenon DEF QueueInv
  <2>2. BucketCapacity(rate) \in Nat /\ credit[k] \in 0..BucketCapacity(rate)
    BY Zenon, <2>1, Buckets DEF QueueTypeOK, CreditKept
  <2> QED BY <2>2
<1> QED BY <1>1, QueueInvariant, PTL

===============================================================================
