----------------------------- MODULE UsageProofs -----------------------------
(***************************************************************************)
(* Proofs about the usage history, for every number of sessions, of days   *)
(* and of packets: what a step of the server does to the totals.  A total  *)
(* is a sum over a finite set; the sums are reasoned about with a smallest *)
(* set for which a claim would fail.                                       *)
(***************************************************************************)
EXTENDS ServerHost, FiniteSetTheorems, WellFoundedInduction, TLAPS

-----------------------------------------------------------------------------
(* Sums over finite sets.  The library's fold is a recursive function on the
   subsets of a set; what it computes follows by taking a smallest subset for
   which it would not be so. *)

Sum(f, S) == SumFunctionOnSet(f, S)
Pick(s) == CHOOSE x \in s : TRUE
Partial(g, f, S) == g = [s \in SUBSET S |-> IF s = {} THEN 0 ELSE f[Pick(s)] + g[s \ {Pick(s)}]]

(* The fold of a sum. *)
LEMMA SumDef == ASSUME NEW f, NEW S PROVE Sum(f, S) = (CHOOSE g : Partial(g, f, S))[S]
  BY Zenon DEF Sum, SumFunctionOnSet, FoldFunctionOnSet, MapThenFoldSet, Partial, Pick

(* A set of subsets of a finite set has a smallest one. *)
LEMMA Smallest ==
  ASSUME NEW S, IsFiniteSet(S), NEW T, T \subseteq SUBSET S, T # {}
  PROVE \E s \in T : \A t \in T : t \subseteq s => t = s
<1>1. IsWellFoundedOn(StrictSubsetOrdering(S), FiniteSubsetsOf(S))
  BY Zenon, FS_StrictSubsetOrderingWellFounded
<1>2. T \subseteq FiniteSubsetsOf(S) BY Zenon, FS_FiniteSubsetsOfFinite
<1>3. PICK s \in T : \A t \in T : ~(<<t, s>> \in StrictSubsetOrdering(S))
  BY Zenon, <1>1, <1>2, WFMin
<1>4. ASSUME NEW t \in T, t \subseteq s, t # s PROVE FALSE
  <2>1. <<t, s>> \in StrictSubsetOrdering(S) BY Zenon, <1>4 DEF StrictSubsetOrdering
  <2> QED BY Zenon, <2>1, <1>3
<1> QED BY Zenon, <1>4

(* The fold takes an element of the set. *)
LEMMA Picked == ASSUME NEW s, s # {} PROVE Pick(s) \in s
  BY Zenon DEF Pick

(* The recursion has one solution. *)
LEMMA PartialAgree ==
  ASSUME NEW f, NEW S, NEW U, IsFiniteSet(S), S \subseteq U,
         NEW g, Partial(g, f, S), NEW h, Partial(h, f, U)
  PROVE  \A s \in SUBSET S : g[s] = h[s]
<1> DEFINE T == {s \in SUBSET S : g[s] # h[s]}
<1>1. SUFFICES ASSUME T # {} PROVE FALSE BY Zenon
<1>2. PICK s \in T : \A t \in T : t \subseteq s => t = s
  <2>1. T \subseteq SUBSET S BY Zenon
  <2> HIDE DEF T
  <2> QED BY <1>1, <2>1, Smallest
<1>3. s \in SUBSET S /\ s \in SUBSET U /\ g[s] # h[s] BY Zenon, <1>2
<1>4. /\ g[s] = IF s = {} THEN 0 ELSE f[Pick(s)] + g[s \ {Pick(s)}]
      /\ h[s] = IF s = {} THEN 0 ELSE f[Pick(s)] + h[s \ {Pick(s)}]
  BY Zenon, <1>3 DEF Partial
<1>5. s # {} BY Zenon, <1>3, <1>4
<1>6. Pick(s) \in s BY Zenon, <1>5, Picked
<1>7. s \ {Pick(s)} \notin T BY Zenon, <1>2, <1>6
<1> QED BY Zenon, <1>3, <1>4, <1>5, <1>7

(* The recursion has a solution. *)
LEMMA PartialExists ==
  ASSUME NEW f, NEW S, IsFiniteSet(S)
  PROVE  \E g : Partial(g, f, S)
<1> DEFINE T == {s \in SUBSET S : ~ \E g : Partial(g, f, s)}
<1>1. SUFFICES ASSUME T # {} PROVE FALSE BY Zenon
<1>2. PICK s \in T : \A t \in T : t \subseteq s => t = s
  <2>1. T \subseteq SUBSET S BY Zenon
  <2> HIDE DEF T
  <2> QED BY <1>1, <2>1, Smallest
<1>3. s \in SUBSET S /\ ~ \E g : Partial(g, f, s) BY Zenon, <1>2
<1> DEFINE G(t) == CHOOSE g : Partial(g, f, t)
<1>4. ASSUME NEW t \in SUBSET s, t # s PROVE Partial(G(t), f, t) /\ IsFiniteSet(t)
  <2>1. t \in SUBSET S /\ t \notin T BY Zenon, <1>2, <1>3, <1>4
  <2>2. \E g : Partial(g, f, t) BY Zenon, <2>1
  <2> QED BY Zenon, <2>1, <2>2, FS_Subset
<1> DEFINE h == [t \in SUBSET s |->
                   IF t = {} THEN 0 ELSE f[Pick(t)] + G(t \ {Pick(t)})[t \ {Pick(t)}]]
<1>5. ASSUME NEW t \in SUBSET s, t # s PROVE h[t] = G(t)[t]
  <2>1. G(t)[t] = IF t = {} THEN 0 ELSE f[Pick(t)] + G(t)[t \ {Pick(t)}]
    <3>1. Partial(G(t), f, t) /\ t \in SUBSET t BY Zenon, <1>4, <1>5
    <3> HIDE DEF G
    <3> QED BY Zenon, <3>1 DEF Partial
  <2>2. CASE t = {} BY Zenon, <2>1, <2>2
  <2>3. CASE t # {}
    <3> DEFINE u == t \ {Pick(t)}
    <3>1. u \in SUBSET s /\ u # s /\ u \subseteq t BY Zenon, <1>5, <2>3, Picked
    <3>2. Partial(G(t), f, t) /\ Partial(G(u), f, u) /\ IsFiniteSet(u)
      BY Zenon, <1>4, <1>5, <3>1
    <3> HIDE DEF G, u
    <3>3. G(u)[u] = G(t)[u] BY <3>1, <3>2, PartialAgree
    <3> QED BY Zenon, <2>1, <2>3, <3>3 DEF u
  <2> QED BY Zenon, <2>2, <2>3
<1>6. Partial(h, f, s)
  <2>1. ASSUME NEW t \in SUBSET s, t # {}
        PROVE  h[t] = f[Pick(t)] + h[t \ {Pick(t)}]
    <3>1. t \ {Pick(t)} \in SUBSET s /\ t \ {Pick(t)} # s BY Zenon, <2>1, Picked
    <3>2. h[t \ {Pick(t)}] = G(t \ {Pick(t)})[t \ {Pick(t)}] BY Zenon, <1>5, <3>1
    <3> HIDE DEF G
    <3> QED BY Zenon, <2>1, <3>2
  <2>2. h[{}] = 0 BY Zenon
  <2>3. h = [t \in SUBSET s |-> h[t]] OBVIOUS
  <2> HIDE DEF h
  <2> QED BY Zenon, <2>1, <2>2, <2>3 DEF Partial
<1> HIDE DEF h
<1> QED BY Zenon, <1>3, <1>6

(* A solution gives the sums of all subsets. *)
LEMMA SumIs ==
  ASSUME NEW f, NEW S, IsFiniteSet(S), NEW T \in SUBSET S, NEW g, Partial(g, f, S)
  PROVE  Sum(f, T) = g[T]
<1> DEFINE h == CHOOSE k : Partial(k, f, T)
<1>1. IsFiniteSet(T) BY Zenon, FS_Subset
<1>2. Partial(h, f, T) BY Zenon, <1>1, PartialExists
<1>3. Sum(f, T) = h[T] BY Zenon, SumDef
<1> HIDE DEF h
<1>4. h[T] = g[T] BY <1>1, <1>2, PartialAgree
<1> QED BY Zenon, <1>3, <1>4

(* The empty sum. *)
LEMMA SumEmpty == ASSUME NEW f PROVE Sum(f, {}) = 0
<1>1. PICK g : Partial(g, f, {}) BY Zenon, PartialExists, FS_EmptySet
<1>2. Sum(f, {}) = g[{}] BY <1>1, SumIs, FS_EmptySet
<1> QED BY Zenon, <1>1, <1>2 DEF Partial

(* A turn of the fold. *)
LEMMA SumStep ==
  ASSUME NEW f, NEW S, IsFiniteSet(S), S # {}
  PROVE  Sum(f, S) = f[Pick(S)] + Sum(f, S \ {Pick(S)})
<1>1. PICK g : Partial(g, f, S) BY Zenon, PartialExists
<1>2. Sum(f, S) = g[S] /\ Sum(f, S \ {Pick(S)}) = g[S \ {Pick(S)}]
  BY Zenon, <1>1, SumIs
<1>3. g[S] = f[Pick(S)] + g[S \ {Pick(S)}] BY Zenon, <1>1 DEF Partial
<1> QED BY Zenon, <1>2, <1>3

(* A sum depends on the values over its set only. *)
LEMMA SumSame ==
  ASSUME NEW S, IsFiniteSet(S), NEW f, NEW g, \A x \in S : f[x] = g[x]
  PROVE  Sum(f, S) = Sum(g, S)
<1> DEFINE T == {s \in SUBSET S : Sum(f, s) # Sum(g, s)}
<1>1. SUFFICES ASSUME T # {} PROVE FALSE BY Zenon
<1>2. PICK s \in T : \A t \in T : t \subseteq s => t = s
  <2>1. T \subseteq SUBSET S BY Zenon
  <2> HIDE DEF T
  <2> QED BY <1>1, <2>1, Smallest
<1>3. s \in SUBSET S /\ IsFiniteSet(s) BY Zenon, <1>2, FS_Subset
<1>4. s # {} BY Zenon, <1>2, SumEmpty
<1>5. Pick(s) \in s BY Zenon, <1>4, Picked
<1>6. Sum(f, s \ {Pick(s)}) = Sum(g, s \ {Pick(s)}) BY <1>2, <1>5
<1>7. Sum(f, s) = Sum(g, s) BY <1>3, <1>4, <1>5, <1>6, SumStep
<1> QED BY Zenon, <1>2, <1>7

(* A sum of numbers is a number. *)
LEMMA SumNat ==
  ASSUME NEW S, IsFiniteSet(S), NEW f, \A x \in S : f[x] \in Nat
  PROVE  Sum(f, S) \in Nat
<1> DEFINE T == {s \in SUBSET S : Sum(f, s) \notin Nat}
<1>1. SUFFICES ASSUME T # {} PROVE FALSE BY Zenon
<1>2. PICK s \in T : \A t \in T : t \subseteq s => t = s
  <2>1. T \subseteq SUBSET S BY Zenon
  <2> HIDE DEF T
  <2> QED BY <1>1, <2>1, Smallest
<1>3. s \in SUBSET S /\ IsFiniteSet(s) BY Zenon, <1>2, FS_Subset
<1>4. s # {}
  <2>1. Sum(f, {}) \in Nat BY SumEmpty
  <2> QED BY Zenon, <1>2, <2>1
<1>5. Pick(s) \in s BY Zenon, <1>4, Picked
<1>6. Sum(f, s \ {Pick(s)}) \in Nat BY <1>2, <1>5
<1>7. Sum(f, s) \in Nat BY <1>3, <1>4, <1>5, <1>6, SumStep
<1> QED BY Zenon, <1>2, <1>7

(* A sum of zeros. *)
LEMMA SumZero ==
  ASSUME NEW S, IsFiniteSet(S), NEW f, \A x \in S : f[x] = 0
  PROVE  Sum(f, S) = 0
<1> DEFINE T == {s \in SUBSET S : Sum(f, s) # 0}
<1>1. SUFFICES ASSUME T # {} PROVE FALSE BY Zenon
<1>2. PICK s \in T : \A t \in T : t \subseteq s => t = s
  <2>1. T \subseteq SUBSET S BY Zenon
  <2> HIDE DEF T
  <2> QED BY <1>1, <2>1, Smallest
<1>3. s \in SUBSET S /\ IsFiniteSet(s) BY Zenon, <1>2, FS_Subset
<1>4. s # {} BY Zenon, <1>2, SumEmpty
<1>5. Pick(s) \in s BY Zenon, <1>4, Picked
<1>6. Sum(f, s \ {Pick(s)}) = 0 BY <1>2, <1>5
<1>7. Sum(f, s) = 0 BY <1>3, <1>4, <1>5, <1>6, SumStep
<1> QED BY Zenon, <1>2, <1>7

(* Any element may be taken first. *)
LEMMA SumSplit ==
  ASSUME NEW S, IsFiniteSet(S), NEW f, \A y \in S : f[y] \in Nat
  PROVE  \A x \in S : Sum(f, S) = f[x] + Sum(f, S \ {x})
<1> DEFINE T == {s \in SUBSET S : \E x \in s : Sum(f, s) # f[x] + Sum(f, s \ {x})}
<1>1. SUFFICES ASSUME T # {} PROVE FALSE BY Zenon
<1>2. PICK s \in T : \A t \in T : t \subseteq s => t = s
  <2>1. T \subseteq SUBSET S BY Zenon
  <2> HIDE DEF T
  <2> QED BY <1>1, <2>1, Smallest
<1>3. PICK x \in s : Sum(f, s) # f[x] + Sum(f, s \ {x}) BY Zenon, <1>2
<1>4. s \in SUBSET S /\ IsFiniteSet(s) BY Zenon, <1>2, FS_Subset
<1>5. \A t \in SUBSET s : t # s => \A y \in t : Sum(f, t) = f[y] + Sum(f, t \ {y})
  BY Zenon, <1>2, <1>4
<1> HIDE DEF T
<1> DEFINE p == Pick(s)
           r == s \ {p, x}
<1>6. p \in s /\ f[p] \in Nat /\ f[x] \in Nat BY Zenon, <1>3, <1>4, Picked
<1>7. Sum(f, s) = f[p] + Sum(f, s \ {p}) BY Zenon, <1>3, <1>4, SumStep
<1> HIDE DEF p
<1>8. CASE p = x BY Zenon, <1>3, <1>7, <1>8
<1>9. CASE p # x
  <2>1. Sum(f, s \ {p}) = f[x] + Sum(f, r)
    <3>1. s \ {p} \in SUBSET s /\ s \ {p} # s /\ x \in s \ {p} /\ (s \ {p}) \ {x} = r
      BY Zenon, <1>6, <1>9
    <3> QED BY Zenon, <1>5, <3>1
  <2>2. Sum(f, s \ {x}) = f[p] + Sum(f, r)
    <3>1. s \ {x} \in SUBSET s /\ s \ {x} # s /\ p \in s \ {x} /\ (s \ {x}) \ {p} = r
      BY Zenon, <1>6, <1>9
    <3> QED BY Zenon, <1>5, <3>1
  <2>3. Sum(f, r) \in Nat
    <3>1. IsFiniteSet(r) /\ \A y \in r : f[y] \in Nat BY Zenon, <1>4, FS_Subset
    <3> HIDE DEF r
    <3> QED BY Zenon, <3>1, SumNat
  <2> HIDE DEF r
  <2> QED BY <1>3, <1>6, <1>7, <2>1, <2>2, <2>3
<1> QED BY Zenon, <1>8, <1>9

(* The sum over two sets. *)
LEMMA SumUnion ==
  ASSUME NEW R, IsFiniteSet(R), NEW S, IsFiniteSet(S), R \cap S = {}, NEW f,
         \A x \in R \cup S : f[x] \in Nat
  PROVE  Sum(f, R \cup S) = Sum(f, R) + Sum(f, S)
<1> DEFINE T == {s \in SUBSET S : Sum(f, R \cup s) # Sum(f, R) + Sum(f, s)}
<1>1. SUFFICES ASSUME T # {} PROVE FALSE BY Zenon
<1>2. PICK s \in T : \A t \in T : t \subseteq s => t = s
  <2>1. T \subseteq SUBSET S BY Zenon
  <2> HIDE DEF T
  <2> QED BY <1>1, <2>1, Smallest
<1>3. s \in SUBSET S /\ IsFiniteSet(s) BY Zenon, <1>2, FS_Subset
<1>4. Sum(f, R) \in Nat BY Zenon, SumNat
<1>5. s # {}
  <2>1. Sum(f, R \cup {}) = Sum(f, R) + Sum(f, {}) BY <1>4, SumEmpty
  <2> QED BY Zenon, <1>2, <2>1
<1> DEFINE p == Pick(s)
           r == s \ {p}
<1>6. p \in s /\ p \in R \cup s /\ f[p] \in Nat /\ r \subseteq S /\ IsFiniteSet(r)
  BY Zenon, <1>3, <1>5, Picked, FS_Subset
<1>7. Sum(f, R \cup r) = Sum(f, R) + Sum(f, r) BY Zenon, <1>2, <1>6
<1>8. IsFiniteSet(R \cup s) /\ \A x \in R \cup s : f[x] \in Nat BY Zenon, <1>3, FS_Union
<1>9. (R \cup s) \ {p} = R \cup r BY Zenon, <1>3, <1>6
<1> HIDE DEF p
<1>10. Sum(f, R \cup s) = f[p] + Sum(f, R \cup r)
  <2> HIDE DEF r, T
  <2> QED BY <1>6, <1>8, <1>9, SumSplit
<1>11. Sum(f, s) = f[p] + Sum(f, r) BY Zenon, <1>3, <1>6, <1>8, SumSplit
<1>12. Sum(f, r) \in Nat
  <2> HIDE DEF r, T
  <2> QED BY Zenon, <1>6, SumNat
<1> HIDE DEF r
<1> QED BY <1>2, <1>4, <1>6, <1>7, <1>10, <1>11, <1>12

(* One value changes. *)
LEMMA SumChange ==
  ASSUME NEW S, IsFiniteSet(S), NEW f, NEW g, NEW x \in S,
         \A y \in S : f[y] \in Nat /\ g[y] \in Nat, \A y \in S \ {x} : f[y] = g[y]
  PROVE  Sum(g, S) + f[x] = Sum(f, S) + g[x]
<1>1. IsFiniteSet(S \ {x}) BY Zenon, FS_Subset
<1>2. Sum(f, S \ {x}) = Sum(g, S \ {x}) /\ Sum(f, S \ {x}) \in Nat BY Zenon, <1>1, SumSame, SumNat
<1>3. Sum(f, S) = f[x] + Sum(f, S \ {x}) /\ Sum(g, S) = g[x] + Sum(g, S \ {x}) BY Zenon, SumSplit
<1> QED BY <1>2, <1>3

-----------------------------------------------------------------------------
(* The usage history. *)

(* A file of totals per day. *)
IsFile(file) == file \in [DOMAIN file -> Nat] /\ IsFiniteSet(DOMAIN file)

(* The total of a file is a number, none for an empty file. *)
LEMMA TotalNat ==
  ASSUME NEW file, IsFile(file)
  PROVE  Total(file) = Sum(file, DOMAIN file) /\ Total(file) \in Nat
<1>1. Total(file) = Sum(file, DOMAIN file) BY Zenon DEF Total, SumFunction, Sum
<1>2. \A d \in DOMAIN file : file[d] \in Nat BY Zenon DEF IsFile
<1> QED BY Zenon, <1>1, <1>2, SumNat DEF IsFile

(* What is added to one day is added to the total. *)
LEMMA TotalAdded ==
  ASSUME NEW file, IsFile(file), NEW day, NEW delta \in Nat, NEW new,
         new = [d \in DOMAIN file \cup {day} |->
                  (IF d \in DOMAIN file THEN file[d] ELSE 0) + (IF d = day THEN delta ELSE 0)]
  PROVE  IsFile(new) /\ Total(new) = Total(file) + delta
<1>1. /\ DOMAIN new = DOMAIN file \cup {day} /\ \A d \in DOMAIN new : new[d] \in Nat
      /\ \A d \in DOMAIN file : file[d] \in Nat
      /\ \A d \in DOMAIN file \ {day} : file[d] = new[d]
      /\ new[day] = (IF day \in DOMAIN file THEN file[day] ELSE 0) + delta
      /\ IsFiniteSet(DOMAIN file)
  BY DEF IsFile
<1>2. IsFiniteSet(DOMAIN new) BY Zenon, <1>1, FS_AddElement
<1>3. IsFile(new) BY Zenon, <1>1, <1>2 DEF IsFile
<1>4. /\ Total(new) = Sum(new, DOMAIN new) /\ Total(file) = Sum(file, DOMAIN file)
      /\ Total(new) \in Nat /\ Total(file) \in Nat
  BY Zenon, <1>3, TotalNat
<1>5. CASE day \in DOMAIN file
  <2>1. DOMAIN new = DOMAIN file BY Zenon, <1>1, <1>5
  <2>2. Sum(new, DOMAIN file) + file[day] = Sum(file, DOMAIN file) + new[day]
    BY <1>1, <1>5, <2>1, SumChange
  <2>3. new[day] = file[day] + delta /\ file[day] \in Nat BY Zenon, <1>1, <1>5
  <2> QED BY <1>3, <1>4, <2>1, <2>2, <2>3
<1>6. CASE day \notin DOMAIN file
  <2>1. day \in DOMAIN new /\ DOMAIN new \ {day} = DOMAIN file /\ DOMAIN file \ {day} = DOMAIN file
    BY Zenon, <1>1, <1>6
  <2>2. Sum(new, DOMAIN new) = new[day] + Sum(new, DOMAIN file) BY <1>1, <1>2, <2>1, SumSplit
  <2>3. Sum(new, DOMAIN file) = Sum(file, DOMAIN file) BY Zenon, <1>1, <2>1, SumSame
  <2>4. new[day] = delta BY <1>1, <1>6
  <2> QED BY <1>3, <1>4, <2>2, <2>3, <2>4
<1> QED BY Zenon, <1>5, <1>6

(* Some days are kept. *)
LEMMA TotalRestricted ==
  ASSUME NEW file, IsFile(file), NEW R, R \subseteq DOMAIN file
  PROVE  /\ IsFile(Restrict(file, R)) /\ Total(Restrict(file, R)) <= Total(file)
         /\ R = DOMAIN file => Restrict(file, R) = file
<1> DEFINE new == Restrict(file, R)
           Q == DOMAIN file \ R
<1>1. /\ DOMAIN new = R /\ \A d \in R : new[d] = file[d]
      /\ \A d \in DOMAIN file : file[d] \in Nat
      /\ IsFiniteSet(DOMAIN file)
  BY Zenon DEF Restrict, IsFile
<1>2. IsFiniteSet(R) /\ IsFiniteSet(Q) BY Zenon, <1>1, FS_Subset
<1>3. IsFile(new) BY Zenon, <1>1, <1>2 DEF IsFile, Restrict
<1>4. R = DOMAIN file => new = file BY Zenon DEF Restrict, IsFile
<1> HIDE DEF new
<1>5. /\ Total(new) = Sum(new, R) /\ Total(file) = Sum(file, DOMAIN file)
      /\ Total(new) \in Nat
  BY Zenon, <1>1, <1>3, TotalNat
<1>6. Sum(new, R) = Sum(file, R) BY Zenon, <1>1, <1>2, SumSame
<1>7. Sum(file, DOMAIN file) = Sum(file, R) + Sum(file, Q)
  <2>1. R \cup Q = DOMAIN file /\ R \cap Q = {} BY Zenon
  <2>2. \A d \in R \cup Q : file[d] \in Nat BY Zenon, <1>1, <2>1
  <2> HIDE DEF Q
  <2>3. Sum(file, R \cup Q) = Sum(file, R) + Sum(file, Q) BY Zenon, <1>2, <2>1, <2>2, SumUnion
  <2> QED BY Zenon, <2>1, <2>3
<1>8. Sum(file, Q) \in Nat
  <2>1. \A d \in Q : file[d] \in Nat BY Zenon, <1>1
  <2> HIDE DEF Q
  <2> QED BY Zenon, <1>2, <2>1, SumNat
<1> HIDE DEF Q
<1>9. Total(new) <= Total(file) BY <1>5, <1>6, <1>7, <1>8
<1> QED BY Zenon, <1>3, <1>4, <1>9 DEF new

(* The types of the history, and what the last record has not seen. *)
LEMMA UsageTypes ==
  ASSUME UsageHeld
  PROVE  /\ IsFile(days) /\ IsFile(disk) /\ IsFiniteSet(DOMAIN active)
         /\ DOMAIN Since = DOMAIN active /\ \A s \in DOMAIN active : Since[s] \in Nat
         /\ Unseen(DOMAIN active) = Sum(Since, DOMAIN active)
         /\ Unseen(DOMAIN active) \in Nat
         /\ {today, sessions, carried} \subseteq Nat
<1>1. {today, sessions, carried} \subseteq Nat BY Zenon DEF UsageHeld
<1>2. IsFiniteSet(0 .. today) /\ IsFiniteSet(1 .. sessions) BY <1>1, FS_Interval
<1>3. IsFiniteSet(DOMAIN days) /\ IsFiniteSet(DOMAIN disk) /\ IsFiniteSet(DOMAIN active)
  BY Zenon, <1>2, FS_Subset DEF UsageHeld
<1>4. IsFile(days) /\ IsFile(disk) BY Zenon, <1>3 DEF UsageHeld, IsFile
<1>5. DOMAIN Since = DOMAIN active BY Zenon DEF Since
<1>6. ASSUME NEW s \in DOMAIN active PROVE Since[s] \in Nat
  <2>1. active[s] \in Nat BY Zenon DEF UsageHeld
  <2>2. s \in DOMAIN previous => previous[s] \in Nat /\ previous[s] <= active[s] BY Zenon DEF UsageHeld
  <2> QED BY <2>1, <2>2 DEF Since
<1>7. Unseen(DOMAIN active) = Sum(Since, DOMAIN active) BY Zenon DEF Unseen, Sum
<1>8. Sum(Since, DOMAIN active) \in Nat BY Zenon, <1>3, <1>6, SumNat
<1> QED BY Zenon, <1>1, <1>3, <1>4, <1>5, <1>6, <1>7, <1>8

(* A step that has nothing to do with the history. *)
LEMMA UsageKept ==
  ASSUME UsageHeld, UNCHANGED usageVars, (phase' = "down") <=> (phase = "down")
  PROVE  UsageHeld'
<1>1. /\ UNCHANGED <<today, sessions, carried, dirty, blemished, active, previous, days, disk>>
      /\ Total(days)' = Total(days) /\ Total(disk)' = Total(disk)
      /\ Unseen(DOMAIN active)' = Unseen(DOMAIN active)
  BY Zenon DEF usageVars, memory, Total, Unseen, Since
<1> QED BY Zenon, <1>1 DEF UsageHeld, NoneTwice, Exact

(* UsageHistory::open. *)
LEMMA UsageOpens ==
  ASSUME UsageHeld, Start
  PROVE  UsageHeld'
<1>1. /\ UNCHANGED <<today, sessions, carried, blemished, disk>>
      /\ days' = disk /\ active' = <<>> /\ previous' = <<>> /\ dirty' = FALSE
      /\ phase = "down" /\ phase' # "down"
  BY Zenon DEF Start, Open, Goto
<1>2. DOMAIN active' = {} /\ DOMAIN previous' = {} BY <1>1
<1>3. Unseen(DOMAIN active)' = 0
  <2>1. Unseen(DOMAIN active)' = Sum(Since', {}) BY Zenon, <1>2 DEF Unseen, Sum
  <2> QED BY Zenon, <2>1, SumEmpty
<1>4. Total(days)' = Total(disk) /\ Total(disk)' = Total(disk) BY Zenon, <1>1 DEF Total
<1>5. Total(disk) \in Nat /\ carried \in Nat BY Zenon, UsageTypes, TotalNat DEF UsageHeld
<1>6. \A d \in DOMAIN disk : disk[d] \in Nat BY Zenon DEF UsageHeld
<1>7. active' \in [DOMAIN active' -> Nat] /\ previous' \in [DOMAIN previous' -> Nat] BY <1>1, <1>2
<1>8. /\ Total(disk) <= carried /\ (~blemished => Total(disk) = carried)
      /\ disk \in [DOMAIN disk -> Nat] /\ DOMAIN disk \subseteq 0 .. today
      /\ {today, sessions, carried} \subseteq Nat /\ blemished \in BOOLEAN
  BY Zenon, <1>1 DEF UsageHeld, NoneTwice, Exact
<1>9. /\ Total(days)' + Unseen(DOMAIN active)' <= carried'
      /\ ~blemished' => Total(days)' + Unseen(DOMAIN active)' = carried'
  BY <1>1, <1>3, <1>4, <1>5, <1>8
<1>10. NoneTwice' BY Zenon, <1>1, <1>4, <1>8 DEF NoneTwice
<1>11. \A d \in DOMAIN disk' : d \in DOMAIN days' /\ days'[d] >= disk'[d] BY <1>1, <1>6
<1> QED BY Zenon, <1>1, <1>2, <1>7, <1>8, <1>9, <1>10, <1>11 DEF UsageHeld

(* A session is established; it has an id of its own. *)
LEMMA UsageJoins ==
  ASSUME UsageHeld, Joins, UNCHANGED phase
  PROVE  UsageHeld'
<1>1. /\ UNCHANGED <<today, previous, days, dirty, disk, carried, blemished, phase>>
      /\ sessions' = sessions + 1
      /\ active' = [s \in DOMAIN active \cup {sessions'} |-> IF s = sessions' THEN 0 ELSE active[s]]
  BY Zenon DEF Joins
<1>2. sessions \in Nat /\ DOMAIN active \subseteq 1 .. sessions /\ DOMAIN previous \subseteq 1 .. sessions
  BY Zenon DEF UsageHeld
<1>3. sessions' \notin DOMAIN active /\ sessions' \notin DOMAIN previous BY <1>1, <1>2
<1>4. /\ DOMAIN active' = DOMAIN active \cup {sessions'} /\ active'[sessions'] = 0
      /\ \A s \in DOMAIN active : active'[s] = active[s]
  BY Zenon, <1>1, <1>3
<1>5. /\ \A s \in DOMAIN active : Since'[s] = Since[s]
      /\ Since'[sessions'] = 0
  BY <1>1, <1>3, <1>4 DEF Since
<1>6. Unseen(DOMAIN active)' = Unseen(DOMAIN active)
  <2>1. IsFiniteSet(DOMAIN active) /\ \A s \in DOMAIN active : Since[s] \in Nat BY Zenon, UsageTypes
  <2>2. IsFiniteSet(DOMAIN active') BY Zenon, <1>4, <2>1, FS_AddElement
  <2>3. \A s \in DOMAIN active' : Since'[s] \in Nat BY <1>4, <1>5, <2>1
  <2>4. sessions' \in DOMAIN active' /\ DOMAIN active' \ {sessions'} = DOMAIN active BY Zenon, <1>3, <1>4
  <2>5. PICK g, D, x : g = Since' /\ D = DOMAIN active' /\ x = sessions' BY Zenon
  <2>6. Sum(g, D) = g[x] + Sum(g, DOMAIN active) BY <2>2, <2>3, <2>4, <2>5, SumSplit
  <2>7. Sum(g, DOMAIN active) = Sum(Since, DOMAIN active) BY Zenon, <1>5, <2>1, <2>5, SumSame
  <2>8. Sum(Since, DOMAIN active) \in Nat BY Zenon, <2>1, SumNat
  <2>9. Sum(g, D) = Sum(Since, DOMAIN active) BY <1>5, <2>5, <2>6, <2>7, <2>8
  <2> QED BY Zenon, <2>5, <2>9 DEF Unseen, Sum
<1>7. Total(days)' = Total(days) /\ Total(disk)' = Total(disk) BY Zenon, <1>1 DEF Total
<1>8. active' \in [DOMAIN active' -> Nat] /\ DOMAIN active' \subseteq 1 .. sessions'
  <2>1. DOMAIN active' \subseteq 1 .. sessions' BY <1>1, <1>2, <1>4
  <2>2. \A s \in DOMAIN active : active[s] \in Nat BY Zenon DEF UsageHeld
  <2>3. active' \in [DOMAIN active \cup {sessions'} -> Nat] BY Zenon, <1>1, <2>2
  <2> QED BY Zenon, <1>4, <2>1, <2>3
<1>9. \A s \in DOMAIN active' \cap DOMAIN previous' : previous'[s] <= active'[s]
  <2>1. \A s \in DOMAIN active \cap DOMAIN previous : previous[s] <= active[s] BY Zenon DEF UsageHeld
  <2> QED BY Zenon, <1>1, <1>3, <1>4, <2>1
<1>10. sessions' \in Nat /\ DOMAIN previous' \subseteq 1 .. sessions' BY <1>1, <1>2
<1> QED BY Zenon, <1>1, <1>6, <1>7, <1>8, <1>9, <1>10 DEF UsageHeld, NoneTwice, Exact

(* A packet is counted. *)
LEMMA UsageCarries ==
  ASSUME UsageHeld, NEW s \in DOMAIN active, Carries(s), UNCHANGED phase, phase # "down"
  PROVE  UsageHeld'
<1>1. /\ UNCHANGED <<today, sessions, previous, days, dirty, disk, blemished, phase>>
      /\ carried' = carried + 1 /\ active' = [active EXCEPT ![s] = @ + 1]
  BY Zenon DEF Carries
<1>2. active \in [DOMAIN active -> Nat] BY Zenon DEF UsageHeld
<1>3. /\ DOMAIN active' = DOMAIN active /\ active'[s] = active[s] + 1
      /\ \A t \in DOMAIN active \ {s} : active'[t] = active[t]
      /\ active' \in [DOMAIN active' -> Nat]
  BY <1>1, <1>2
<1>4. \A t \in DOMAIN active \cap DOMAIN previous : previous[t] \in Nat /\ previous[t] <= active[t]
  BY Zenon DEF UsageHeld
<1>5. \A t \in DOMAIN active' \cap DOMAIN previous' : previous'[t] <= active'[t]
  BY <1>1, <1>2, <1>3, <1>4
<1>6. /\ \A t \in DOMAIN active \ {s} : Since[t] = Since'[t]
      /\ Since'[s] = Since[s] + 1
  BY <1>1, <1>2, <1>3, <1>4 DEF Since
<1>7. Unseen(DOMAIN active)' = Unseen(DOMAIN active) + 1 /\ Unseen(DOMAIN active) \in Nat
  <2>1. IsFiniteSet(DOMAIN active) /\ \A t \in DOMAIN active : Since[t] \in Nat BY Zenon, UsageTypes
  <2>2. PICK g : g = Since' BY Zenon
  <2>3. \A t \in DOMAIN active : Since[t] \in Nat /\ g[t] \in Nat BY <1>6, <2>1, <2>2
  <2>4. Sum(g, DOMAIN active) + Since[s] = Sum(Since, DOMAIN active) + g[s]
    BY <1>6, <2>1, <2>2, <2>3, SumChange
  <2>5. Sum(g, DOMAIN active) \in Nat /\ Sum(Since, DOMAIN active) \in Nat BY Zenon, <2>1, <2>3, SumNat
  <2>6. Sum(g, DOMAIN active) = Sum(Since, DOMAIN active) + 1 BY <1>6, <2>1, <2>2, <2>4, <2>5
  <2> QED BY Zenon, <1>3, <2>2, <2>5, <2>6 DEF Unseen, Sum
<1>8. /\ Total(days)' = Total(days) /\ Total(disk)' = Total(disk)
      /\ Total(days) \in Nat /\ Total(disk) \in Nat /\ carried \in Nat
  BY Zenon, <1>1, UsageTypes, TotalNat DEF Total
<1> QED BY <1>1, <1>3, <1>5, <1>7, <1>8 DEF UsageHeld, NoneTwice, Exact

(* Sessions end, with what they counted since the last record. *)
LEMMA UsageLeaves ==
  ASSUME UsageHeld, NEW S, Leave(S), UNCHANGED phase, phase # "down"
  PROVE  UsageHeld'
<1> DEFINE Q == S \cap DOMAIN active
           R == DOMAIN active \ S
<1>1. /\ UNCHANGED <<today, sessions, previous, days, dirty, disk, carried, phase>>
      /\ active' = Restrict(active, R)
      /\ blemished' = (blemished \/ Unseen(Q) > 0)
  BY Zenon DEF Leave
<1>2. DOMAIN active' = R /\ \A t \in R : active'[t] = active[t] BY Zenon, <1>1 DEF Restrict
<1>3. \A t \in R : Since'[t] = Since[t] BY Zenon, <1>1, <1>2 DEF Since
<1>4. /\ Unseen(DOMAIN active) = Unseen(DOMAIN active)' + Unseen(Q)
      /\ Unseen(DOMAIN active)' \in Nat /\ Unseen(Q) \in Nat
  <2>1. IsFiniteSet(DOMAIN active) /\ \A t \in DOMAIN active : Since[t] \in Nat BY Zenon, UsageTypes
  <2>2. /\ IsFiniteSet(Q) /\ IsFiniteSet(R) /\ Q \cap R = {} /\ R \cup Q = DOMAIN active
        /\ R \cap Q = {} /\ \A t \in R \cup Q : Since[t] \in Nat
        /\ \A t \in Q : Since[t] \in Nat
        /\ \A t \in R : Since[t] \in Nat
    BY Zenon, <2>1, FS_Subset
  <2>3. PICK g : g = Since' BY Zenon
  <2> HIDE DEF Q, R
  <2>4. Sum(Since, R \cup Q) = Sum(Since, R) + Sum(Since, Q) BY Zenon, <2>2, SumUnion
  <2>5. Sum(g, R) = Sum(Since, R) BY Zenon, <1>3, <2>2, <2>3, SumSame
  <2>6. Sum(Since, R) \in Nat /\ Sum(Since, Q) \in Nat BY Zenon, <2>2, SumNat
  <2> QED BY Zenon, <1>2, <2>2, <2>3, <2>4, <2>5, <2>6 DEF Unseen, Sum
<1>5. /\ Total(days)' = Total(days) /\ Total(disk)' = Total(disk)
      /\ Total(days) \in Nat /\ Total(disk) \in Nat /\ carried \in Nat
  BY Zenon, <1>1, UsageTypes, TotalNat DEF Total
<1>6. \A t \in DOMAIN active : active[t] \in Nat BY Zenon DEF UsageHeld
<1>7. active' \in [DOMAIN active' -> Nat] BY Zenon, <1>1, <1>2, <1>6 DEF Restrict
<1>8. blemished' \in BOOLEAN /\ (~blemished' => ~blemished /\ Unseen(Q) = 0)
  <2>1. blemished \in BOOLEAN BY Zenon DEF UsageHeld
  <2>2. CASE Unseen(Q) = 0
    <3>1. ~(Unseen(Q) > 0) BY <2>2
    <3> QED BY Zenon, <1>1, <2>1, <2>2, <3>1
  <2>3. CASE Unseen(Q) # 0
    <3>1. Unseen(Q) > 0 BY <1>4, <2>3
    <3> QED BY Zenon, <1>1, <3>1
  <2> QED BY Zenon, <2>2, <2>3
<1> HIDE DEF Q
<1>9. /\ DOMAIN active' \subseteq 1 .. sessions'
      /\ \A t \in DOMAIN active' \cap DOMAIN previous' : previous'[t] <= active'[t]
  BY Zenon, <1>1, <1>2 DEF UsageHeld
<1>10. /\ Total(days)' + Unseen(DOMAIN active)' <= carried'
       /\ ~blemished' => Total(days)' + Unseen(DOMAIN active)' = carried'
  <2>1. /\ Total(days) + Unseen(DOMAIN active) <= carried
        /\ ~blemished => Total(days) + Unseen(DOMAIN active) = carried
    BY Zenon DEF UsageHeld
  <2> QED BY <1>1, <1>4, <1>5, <1>8, <2>1
<1> QED BY Zenon, <1>1, <1>5, <1>7, <1>8, <1>9, <1>10 DEF UsageHeld, NoneTwice, Exact

(* A day ends. *)
LEMMA UsageDay ==
  ASSUME UsageHeld, NextDay, UNCHANGED phase
  PROVE  UsageHeld'
<1>1. /\ UNCHANGED <<active, previous, days, dirty, sessions, disk, carried, blemished, phase>>
      /\ today' = today + 1
  BY Zenon DEF NextDay, memory
<1>2. /\ Total(days)' = Total(days) /\ Total(disk)' = Total(disk)
      /\ Unseen(DOMAIN active)' = Unseen(DOMAIN active)
  BY Zenon, <1>1 DEF Total, Unseen, Since
<1>3. today \in Nat /\ DOMAIN days \subseteq 0 .. today /\ DOMAIN disk \subseteq 0 .. today
  BY Zenon DEF UsageHeld
<1>4. DOMAIN days' \subseteq 0 .. today' /\ DOMAIN disk' \subseteq 0 .. today' /\ today' \in Nat
  BY <1>1, <1>3
<1>5. ASSUME phase # "down", NEW d \in DOMAIN disk
      PROVE  (d \in DOMAIN days /\ days[d] >= disk[d]) \/ d <= today' - RETENTION
  <2>1. d \in Nat /\ RETENTION \in Nat BY <1>3, UsageAssumption
  <2>2. (d \in DOMAIN days /\ days[d] >= disk[d]) \/ d <= today - RETENTION BY Zenon, <1>5 DEF UsageHeld
  <2> QED BY <1>1, <1>3, <2>1, <2>2
<1> QED BY Zenon, <1>1, <1>2, <1>4, <1>5 DEF UsageHeld, NoneTwice, Exact

(* record adds what it has not seen to today's total, and prune takes away
   only days past the retention. *)
LEMMA UsageRecords ==
  ASSUME UsageHeld, Record, phase # "down", phase' # "down"
  PROVE  UsageHeld'
<1> DEFINE delta == Unseen(DOMAIN active)
           file == IF delta = 0 THEN days
                   ELSE [d \in DOMAIN days \cup {today} |->
                           (IF d \in DOMAIN days THEN days[d] ELSE 0)
                           + (IF d = today THEN delta ELSE 0)]
           R == Retained(file)
<1>1. /\ UNCHANGED <<today, active, sessions, disk, carried>>
      /\ previous' = active /\ days' = Restrict(file, R)
      /\ dirty' = (dirty \/ delta # 0 \/ R # DOMAIN file)
      /\ blemished' = (blemished \/ R # DOMAIN file)
  BY Zenon DEF Record
<1>2. /\ IsFile(days) /\ IsFile(disk) /\ delta \in Nat /\ IsFiniteSet(DOMAIN active)
      /\ {today, carried, sessions} \subseteq Nat
  BY Zenon, UsageTypes
<1>3. IsFile(file) /\ Total(file) = Total(days) + delta
  <2>1. CASE delta = 0 BY <1>2, <2>1, TotalNat
  <2>2. CASE delta # 0
    <3>1. PICK n, new : n = delta /\ new = file BY Zenon
    <3>2. new = [d \in DOMAIN days \cup {today} |->
                   (IF d \in DOMAIN days THEN days[d] ELSE 0) + (IF d = today THEN n ELSE 0)]
      BY Zenon, <2>2, <3>1
    <3>3. n \in Nat BY Zenon, <1>2, <3>1
    <3> HIDE DEF file, delta
    <3>4. IsFile(new) /\ Total(new) = Total(days) + n BY <1>2, <3>2, <3>3, TotalAdded
    <3> QED BY Zenon, <3>1, <3>4
  <2> QED BY Zenon, <2>1, <2>2
<1>4. /\ DOMAIN file \subseteq 0 .. today
      /\ \A d \in DOMAIN days : d \in DOMAIN file /\ file[d] >= days[d]
      /\ delta = 0 => file = days
  <2>1. DOMAIN days \subseteq 0 .. today /\ today \in 0 .. today BY <1>2 DEF UsageHeld
  <2>2. \A d \in DOMAIN days : days[d] \in Nat BY Zenon DEF UsageHeld
  <2> QED BY <1>2, <2>1, <2>2
<1>5. R \subseteq DOMAIN file /\ \A d \in DOMAIN file \ R : d <= today - RETENTION
  <2>1. RETENTION \in Nat BY Zenon, UsageAssumption
  <2> QED BY <1>2, <1>4, <2>1 DEF Retained
<1> HIDE DEF file, R
<1>6. /\ IsFile(days') /\ Total(days)' <= Total(file)
      /\ R = DOMAIN file => days' = file
      /\ DOMAIN days' = R /\ \A d \in R : days'[d] = file[d]
  <2>1. /\ IsFile(Restrict(file, R)) /\ Total(Restrict(file, R)) <= Total(file)
        /\ R = DOMAIN file => Restrict(file, R) = file
    BY Zenon, <1>3, <1>5, TotalRestricted
  <2>2. Total(days)' = Total(Restrict(file, R)) BY Zenon, <1>1 DEF Total
  <2> QED BY Zenon, <1>1, <2>1, <2>2 DEF Restrict
<1>7. Unseen(DOMAIN active)' = 0
  <2>1. \A s \in DOMAIN active : active[s] \in Nat BY Zenon DEF UsageHeld
  <2>2. \A s \in DOMAIN active : Since'[s] = 0 BY <1>1, <2>1 DEF Since
  <2>3. PICK g : g = Since' BY Zenon
  <2>4. Sum(g, DOMAIN active) = 0 BY Zenon, <1>2, <2>2, <2>3, SumZero
  <2> QED BY Zenon, <1>1, <2>3, <2>4 DEF Unseen, Sum
<1>8. Total(disk)' = Total(disk) BY Zenon, <1>1 DEF Total
<1>9. PICK total \in Nat, kept \in Nat : total = Total(days) /\ kept = Total(days)'
  <2>1. PICK new : new = days' BY Zenon
  <2>2. Total(new) \in Nat BY Zenon, <1>6, <2>1, TotalNat
  <2>3. Total(days)' = Total(new) BY Zenon, <2>1 DEF Total
  <2> QED BY Zenon, <1>2, <2>2, <2>3, TotalNat
<1>10. /\ total + delta <= carried /\ (~blemished => total + delta = carried)
       /\ dirty \in BOOLEAN /\ blemished \in BOOLEAN
       /\ ~dirty => days = disk
  BY Zenon, <1>9 DEF UsageHeld
<1> HIDE DEF delta
<1>11. kept <= carried BY <1>2, <1>3, <1>6, <1>9, <1>10
<1>12. /\ blemished' \in BOOLEAN /\ dirty' \in BOOLEAN
       /\ ~blemished' => kept = carried
       /\ ~dirty' => days' = disk'
  <2>1. CASE R = DOMAIN file /\ delta = 0 BY Zenon, <1>1, <1>2, <1>3, <1>4, <1>6, <1>9, <1>10, <2>1
  <2>2. CASE R = DOMAIN file /\ delta # 0
    <3>1. kept = total + delta BY Zenon, <1>3, <1>6, <1>9, <2>2 DEF Total
    <3> QED BY Zenon, <1>1, <1>10, <2>2, <3>1
  <2>3. CASE R # DOMAIN file BY Zenon, <1>1, <2>3
  <2> QED BY Zenon, <2>1, <2>2, <2>3
<1>13. \A d \in DOMAIN disk' :
         (d \in DOMAIN days' /\ days'[d] >= disk'[d]) \/ d <= today' - RETENTION
  <2>1. SUFFICES ASSUME NEW d \in DOMAIN disk
                 PROVE  (d \in R /\ file[d] >= disk[d]) \/ d <= today - RETENTION
    BY Zenon, <1>1, <1>6
  <2>2. (d \in DOMAIN days /\ days[d] >= disk[d]) \/ d <= today - RETENTION BY Zenon DEF UsageHeld
  <2>3. CASE d \in DOMAIN days /\ days[d] >= disk[d]
    <3>1. d \in DOMAIN file /\ file[d] >= days[d] BY Zenon, <1>4, <2>3
    <3>2. days[d] \in Nat /\ disk[d] \in Nat /\ file[d] \in Nat
      BY Zenon, <1>2, <1>3, <2>3, <3>1 DEF IsFile
    <3> QED BY <1>5, <2>3, <3>1, <3>2
  <2> QED BY Zenon, <2>2, <2>3
<1>14. /\ active' \in [DOMAIN active' -> Nat] /\ previous' \in [DOMAIN previous' -> Nat]
       /\ \A s \in DOMAIN active' \cap DOMAIN previous' : previous'[s] <= active'[s]
       /\ DOMAIN active' \subseteq 1 .. sessions' /\ DOMAIN previous' \subseteq 1 .. sessions'
  BY <1>1 DEF UsageHeld
<1>15. days' \in [DOMAIN days' -> Nat] /\ DOMAIN days' \subseteq 0 .. today'
  BY Zenon, <1>1, <1>4, <1>5, <1>6 DEF IsFile
<1>16. NoneTwice' BY Zenon, <1>1, <1>8 DEF UsageHeld, NoneTwice
<1>17. /\ Total(days)' + Unseen(DOMAIN active)' <= carried'
       /\ ~blemished' => Total(days)' + Unseen(DOMAIN active)' = carried'
  BY <1>1, <1>2, <1>7, <1>9, <1>11, <1>12
<1> QED BY Zenon, <1>1, <1>12, <1>13, <1>14, <1>15, <1>16, <1>17 DEF UsageHeld

(* flush replaces the file. *)
LEMMA UsageReplaces ==
  ASSUME UsageHeld, Replace, phase # "down", phase' # "down"
  PROVE  UsageHeld'
<1>1. /\ UNCHANGED <<today, active, previous, days, sessions, carried, blemished>>
      /\ disk' = days /\ dirty' = FALSE
  BY Zenon DEF Replace
<1>2. /\ Total(days)' = Total(days) /\ Total(disk)' = Total(days)
      /\ Unseen(DOMAIN active)' = Unseen(DOMAIN active)
  BY Zenon, <1>1 DEF Total, Unseen, Since
<1>3. Total(days) \in Nat /\ Unseen(DOMAIN active) \in Nat /\ carried \in Nat BY Zenon, UsageTypes, TotalNat
<1>4. /\ Total(days) + Unseen(DOMAIN active) <= carried
      /\ ~blemished => Total(days) + Unseen(DOMAIN active) = carried
  BY Zenon DEF UsageHeld
<1>5. NoneTwice' BY <1>1, <1>2, <1>3, <1>4 DEF NoneTwice
<1>6. \A d \in DOMAIN disk' : d \in DOMAIN days' /\ days'[d] >= disk'[d] BY <1>1 DEF UsageHeld
<1> QED BY Zenon, <1>1, <1>2, <1>4, <1>5, <1>6 DEF UsageHeld

(* The process is gone. *)
LEMMA UsageEnds ==
  ASSUME UsageHeld, UsageLost, phase # "down", phase' = "down"
  PROVE  UsageHeld'
<1>1. /\ UNCHANGED <<today, sessions, disk, carried>>
      /\ blemished' = (blemished \/ dirty \/ Unseen(DOMAIN active) > 0)
      /\ active' = <<>> /\ previous' = <<>> /\ days' = <<>> /\ dirty' = FALSE
  BY Zenon DEF UsageLost, NoDays
<1>2. /\ DOMAIN active' = {} /\ DOMAIN previous' = {} /\ DOMAIN days' = {}
      /\ active' \in [DOMAIN active' -> Nat] /\ previous' \in [DOMAIN previous' -> Nat]
      /\ days' \in [DOMAIN days' -> Nat]
  BY <1>1
<1>3. Total(disk)' = Total(disk) BY Zenon, <1>1 DEF Total
<1>4. Total(days) \in Nat /\ Unseen(DOMAIN active) \in Nat /\ carried \in Nat BY Zenon, UsageTypes, TotalNat
<1>5. /\ dirty \in BOOLEAN /\ blemished \in BOOLEAN
      /\ ~dirty => days = disk
      /\ ~blemished => Total(days) + Unseen(DOMAIN active) = carried
  BY Zenon DEF UsageHeld
<1>6. blemished' \in BOOLEAN /\ (~blemished' => Total(disk) = carried)
  <2>1. CASE Unseen(DOMAIN active) = 0
    <3>1. ~(Unseen(DOMAIN active) > 0) BY <2>1
    <3>2. blemished' = (blemished \/ dirty) BY Zenon, <1>1, <1>5, <3>1
    <3>3. ~blemished /\ ~dirty => Total(disk) = carried BY <1>4, <1>5, <2>1
    <3> QED BY Zenon, <1>5, <3>2, <3>3
  <2>2. CASE Unseen(DOMAIN active) # 0
    <3>1. Unseen(DOMAIN active) > 0 BY <1>4, <2>2
    <3> QED BY Zenon, <1>1, <3>1
  <2> QED BY Zenon, <2>1, <2>2
<1> QED BY Zenon, <1>1, <1>2, <1>3, <1>6 DEF UsageHeld, NoneTwice, Exact

(* Of the steps of a start only the first, and of those of the end only the
   last, matter to the history. *)
LEMMA UsageAside ==
  ASSUME UsageHeld, phase \in Phases,
         \/ InstallStep \/ InstallDone \/ Serve \/ StartFails
         \/ FlushWrites \/ FlushFails \/ Signal
         \/ DropStatus \/ Joined \/ Cleanup \/ StatusBinds \/ StatusEnds \/ PortalEnds
  PROVE  UsageHeld'
<1>1. UNCHANGED usageVars
  BY Zenon DEF InstallStep, InstallDone, Serve, StartFails, FlushWrites, WriteTemporary, FlushFails,
         Signal, DropStatus, Joined, Cleanup, StatusBinds, StatusEnds, PortalEnds, usageVars
<1>2. (phase' = "down") <=> (phase = "down")
  BY Zenon DEF InstallStep, InstallDone, Serve, StartFails, FlushWrites, FlushFails, Signal, InLoop,
         DropStatus, Joined, Cleanup, StatusBinds, StatusEnds, PortalEnds, Goto
<1> QED BY Zenon, <1>1, <1>2, UsageKept

(* The steps that count. *)
LEMMA UsageCounts ==
  ASSUME UsageHeld,
         \/ Start \/ SessionJoins \/ PacketCarried \/ SessionLeaves \/ UsageTick
         \/ FlushReplaces \/ Stop \/ Midnight \/ Exit \/ Kill
         \/ \E dns \in DnsConfigs, peers \in BOOLEAN : Reload(dns, peers)
  PROVE  UsageHeld'
<1>1. CASE Start BY Zenon, <1>1, UsageOpens
<1>2. CASE SessionJoins BY Zenon, <1>2, UsageJoins DEF SessionJoins, Loop
<1>3. CASE PacketCarried BY Zenon, <1>3, UsageCarries DEF PacketCarried, Loop
<1>4. CASE SessionLeaves BY Zenon, <1>4, UsageLeaves DEF SessionLeaves, Loop
<1>5. CASE UsageTick BY Zenon, <1>5, UsageRecords DEF UsageTick, Goto
<1>6. CASE FlushReplaces BY Zenon, <1>6, UsageReplaces DEF FlushReplaces, Goto
<1>7. CASE Stop
  <2>1. phase = "running" /\ phase' # "down" BY Zenon, <1>7 DEF Stop, Goto
  <2>2. Record \/ UNCHANGED usageVars BY Zenon, <1>7 DEF Stop
  <2> QED BY Zenon, <2>1, <2>2, UsageRecords, UsageKept
<1>8. CASE Midnight BY Zenon, <1>8, UsageDay DEF Midnight
<1>9. CASE Exit \/ Kill BY Zenon, <1>9, UsageEnds DEF Exit, Kill, Gone, Goto
<1>10. ASSUME NEW dns \in DnsConfigs, NEW peers \in BOOLEAN, Reload(dns, peers) PROVE UsageHeld'
  <2>1. phase = "running" /\ phase' = phase BY Zenon, <1>10 DEF Reload
  <2>2. Leave(DOMAIN active) \/ UNCHANGED usageVars BY Zenon, <1>10 DEF Reload
  <2> QED BY Zenon, <2>1, <2>2, UsageLeaves, UsageKept
<1> QED BY Zenon, <1>1, <1>2, <1>3, <1>4, <1>5, <1>6, <1>7, <1>8, <1>9, <1>10

=============================================================================
