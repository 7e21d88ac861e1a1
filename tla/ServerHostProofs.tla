-------------------------- MODULE ServerHostProofs --------------------------
(***************************************************************************)
(* Proofs about the server's process and its host, for every number of     *)
(* rules, DNS configuration, retention and bound: what the server installs *)
(* is taken back, DNS stays in step with the configuration, and the usage  *)
(* history is exact and durable.                                           *)
(***************************************************************************)
EXTENDS UsageProofs, SequenceTheorems
-----------------------------------------------------------------------------
(* The plan of the installation. *)

SwitchSteps == {"sysctl"} \X Families
TableSteps == {<<"delete">>, <<"add">>, <<"fill">>}
RuleStepsOf(f) == {"rule"} \X ({f} \X (1 .. RULES))
Steps == SwitchSteps \cup TableSteps \cup ({"rule"} \X Rules)

(* A list of different steps of a kind. *)
Orderly(s, S) == s \in Seq(S) /\ \A i, j \in 1 .. Len(s) : s[i] = s[j] => i = j

(* Two such lists of different kinds make a third. *)
LEMMA OrderlyConcat ==
  ASSUME NEW S, NEW T, NEW s, NEW t, Orderly(s, S), Orderly(t, T), S \cap T = {}
  PROVE  Orderly(s \o t, S \cup T)
<1>1. s \in Seq(S \cup T) /\ t \in Seq(S \cup T) BY Zenon, SeqMonotonic DEF Orderly
<1>2. /\ s \o t \in Seq(S \cup T) /\ Len(s \o t) = Len(s) + Len(t)
      /\ \A i \in 1 .. Len(s) + Len(t) : (s \o t)[i] =
           IF i <= Len(s) THEN s[i] ELSE t[i - Len(s)]
  BY Zenon, <1>1, ConcatProperties
<1>3. Len(s) \in Nat /\ Len(t) \in Nat BY Zenon, <1>1, LenProperties
<1>4. ASSUME NEW i \in 1 .. Len(s \o t), NEW j \in 1 .. Len(s \o t), (s \o t)[i] = (s \o t)[j]
      PROVE  i = j
  <2>1. CASE i <= Len(s) /\ j <= Len(s) BY <1>2, <1>3, <1>4, <2>1 DEF Orderly
  <2>2. CASE i > Len(s) /\ j > Len(s)
    <3>1. i - Len(s) \in 1 .. Len(t) /\ j - Len(s) \in 1 .. Len(t) BY <1>2, <1>3, <2>2
    <3>2. t[i - Len(s)] = t[j - Len(s)] BY <1>2, <1>3, <1>4, <2>2
    <3>3. i - Len(s) = j - Len(s) BY Zenon, <3>1, <3>2 DEF Orderly
    <3> QED BY <1>3, <3>3
  <2>3. ASSUME NEW k \in 1 .. Len(s), NEW l \in 1 .. Len(t) PROVE s[k] # t[l]
    <3>1. s[k] \in S /\ t[l] \in T BY Zenon, ElementOfSeq DEF Orderly
    <3> QED BY Zenon, <3>1
  <2>4. CASE i <= Len(s) /\ j > Len(s)
    <3>1. i \in 1 .. Len(s) /\ j - Len(s) \in 1 .. Len(t) BY <1>2, <1>3, <2>4
    <3>2. s[i] = t[j - Len(s)] BY <1>2, <1>3, <1>4, <2>4
    <3> QED BY Zenon, <2>3, <3>1, <3>2
  <2>5. CASE i > Len(s) /\ j <= Len(s)
    <3>1. j \in 1 .. Len(s) /\ i - Len(s) \in 1 .. Len(t) BY <1>2, <1>3, <2>5
    <3>2. s[j] = t[i - Len(s)] BY <1>2, <1>3, <1>4, <2>5
    <3> QED BY Zenon, <2>3, <3>1, <3>2
  <2> QED BY <1>2, <1>3, <2>1, <2>2, <2>4, <2>5
<1> QED BY Zenon, <1>2, <1>4 DEF Orderly

(* A step is left out without its family. *)
LEMMA OrderlyFamily ==
  ASSUME NEW S, NEW s, Orderly(s, S), NEW f
  PROVE  Orderly(PerFamily(f, s), S)
<1>1. Orderly(<<>>, S) BY EmptySeq DEF Orderly
<1> QED BY Zenon, <1>1 DEF PerFamily

(* The rules of a family. *)
LEMMA OrderlyRules ==
  ASSUME NEW f
  PROVE  Orderly(RuleSteps(f), RuleStepsOf(f))
<1>1. /\ RULES \in Nat
      /\ RuleSteps(f) \in [1 .. RULES -> RuleStepsOf(f)]
      /\ \A i \in 1 .. RULES : RuleSteps(f)[i] = <<"rule", <<f, i>>>>
  BY Zenon, RulesAssumption DEF RuleSteps, RuleStepsOf
<1>2. RuleSteps(f) \in Seq(RuleStepsOf(f)) BY Zenon, <1>1, SeqDef
<1>3. Len(RuleSteps(f)) = RULES BY <1>1, <1>2, LenProperties
<1>4. \A i, j \in 1 .. RULES : RuleSteps(f)[i] = RuleSteps(f)[j] => i = j BY <1>1
<1> QED BY Zenon, <1>2, <1>3, <1>4 DEF Orderly

(* The steps are different, and the table is filled after it was added. *)
LEMMA PlanFacts ==
  /\ Orderly(Plan, Steps)
  /\ \A i \in 1 .. Len(Plan) : Plan[i] = <<"fill">> => \E j \in 1 .. i - 1 : Plan[j] = <<"add">>
<1>1. Orderly(Switches, SwitchSteps)
  <2>1. \A f \in Families : Orderly(<<<<"sysctl", f>>>>, {<<"sysctl", f>>}) BY DEF Orderly
  <2>2. /\ Orderly(PerFamily("v4", <<<<"sysctl", "v4">>>>), {<<"sysctl", "v4">>})
        /\ Orderly(PerFamily("v6", <<<<"sysctl", "v6">>>>), {<<"sysctl", "v6">>})
    BY Zenon, <2>1, OrderlyFamily DEF Families
  <2>3. /\ {<<"sysctl", "v4">>} \cap {<<"sysctl", "v6">>} = {}
        /\ {<<"sysctl", "v4">>} \cup {<<"sysctl", "v6">>} = SwitchSteps
    BY DEF SwitchSteps, Families
  <2> QED BY Zenon, <2>2, <2>3, OrderlyConcat DEF Switches
<1>2. ~static.nft => Orderly(Backend, {"rule"} \X Rules)
  <2>1. /\ Orderly(PerFamily("v4", RuleSteps("v4")), RuleStepsOf("v4"))
        /\ Orderly(PerFamily("v6", RuleSteps("v6")), RuleStepsOf("v6"))
    BY Zenon, OrderlyRules, OrderlyFamily
  <2>2. /\ RuleStepsOf("v4") \cap RuleStepsOf("v6") = {}
        /\ RuleStepsOf("v4") \cup RuleStepsOf("v6") = {"rule"} \X Rules
    BY Zenon DEF RuleStepsOf, Rules, Families
  <2> QED BY <2>1, <2>2, OrderlyConcat DEF Backend
<1>3. static.nft => /\ Orderly(Backend, TableSteps)
                    /\ Len(Backend) = 3 /\ Backend[2] = <<"add">>
                    /\ \A i \in 1 .. 3 : Backend[i] = <<"fill">> => i = 3
  BY DEF Backend, Orderly, TableSteps
<1>4. SwitchSteps \cap (TableSteps \cup ({"rule"} \X Rules)) = {}
  BY DEF SwitchSteps, TableSteps
<1>5. Orderly(Backend, TableSteps \cup ({"rule"} \X Rules))
  BY Zenon, <1>2, <1>3, SeqMonotonic DEF Orderly
<1>6. Orderly(Switches \o Backend, Steps)
  BY <1>1, <1>4, <1>5, OrderlyConcat DEF Steps
<1>7. ASSUME NEW i \in 1 .. Len(Switches \o Backend), (Switches \o Backend)[i] = <<"fill">>
      PROVE  \E j \in 1 .. i - 1 : (Switches \o Backend)[j] = <<"add">>
  <2>1. Switches \in Seq(Steps) /\ Backend \in Seq(Steps)
    BY Zenon, <1>1, <1>5, SeqMonotonic DEF Orderly, Steps
  <2>2. /\ Len(Switches \o Backend) = Len(Switches) + Len(Backend)
        /\ \A k \in 1 .. Len(Switches) + Len(Backend) : (Switches \o Backend)[k] =
             IF k <= Len(Switches) THEN Switches[k] ELSE Backend[k - Len(Switches)]
        /\ Len(Switches) \in Nat /\ Len(Backend) \in Nat
    BY Zenon, <2>1, ConcatProperties, LenProperties
  <2>3. i > Len(Switches)
    <3>1. SUFFICES ASSUME i \in 1 .. Len(Switches) PROVE FALSE BY <2>2
    <3>2. Switches[i] \in SwitchSteps BY Zenon, <1>1, <3>1, ElementOfSeq DEF Orderly
    <3>3. Switches[i] = <<"fill">> BY <1>7, <2>2, <3>1
    <3> QED BY <3>2, <3>3 DEF SwitchSteps
  <2>4. i - Len(Switches) \in 1 .. Len(Backend) /\ Backend[i - Len(Switches)] = <<"fill">>
    BY <1>7, <2>2, <2>3
  <2>5. static.nft
    <3>1. SUFFICES ASSUME ~static.nft PROVE FALSE BY Zenon
    <3>2. Backend[i - Len(Switches)] \in {"rule"} \X Rules
      BY Zenon, <1>2, <2>4, <3>1, ElementOfSeq DEF Orderly
    <3> QED BY <2>4, <3>2
  <2>6. i = Len(Switches) + 3
    <3>1. i - Len(Switches) \in 1 .. 3 BY Zenon, <1>3, <2>4, <2>5
    <3>2. i - Len(Switches) = 3 BY Zenon, <1>3, <2>4, <2>5, <3>1
    <3> QED BY <2>2, <3>2
  <2>7. (Switches \o Backend)[Len(Switches) + 2] = <<"add">>
    <3>1. Len(Switches) + 2 \in 1 .. Len(Switches) + Len(Backend)
      <4>1. Len(Backend) = 3 /\ Len(Switches) \in Nat BY Zenon, <1>3, <2>2, <2>5
      <4> QED BY <4>1
    <3>2. (Len(Switches) + 2) - Len(Switches) = 2 /\ ~(Len(Switches) + 2 <= Len(Switches))
      BY <2>2
    <3>3. (Switches \o Backend)[Len(Switches) + 2] = Backend[2] BY Zenon, <2>2, <3>1, <3>2
    <3> QED BY Zenon, <1>3, <2>5, <3>3
  <2>8. Len(Switches) + 2 \in 1 .. i - 1 BY <2>2, <2>6
  <2> QED BY Zenon, <2>7, <2>8
<1>8. CASE static.families = {}
  <2>1. Plan = <<>> BY Zenon, <1>8 DEF Plan
  <2> QED BY <2>1, EmptySeq DEF Orderly
<1>9. CASE static.families # {}
  <2>1. Plan = Switches \o Backend BY Zenon, <1>9 DEF Plan
  <2> QED BY Zenon, <1>6, <1>7, <2>1
<1> QED BY Zenon, <1>8, <1>9

-----------------------------------------------------------------------------
(* Forwarding. *)

Commands == {<<"table">>} \cup ({"rule"} \X Rules)

(* What is typed, taken apart. *)
LEMMA GuardTypes ==
  ASSUME TypeOK
  PROVE  /\ guard = [sysctls |-> guard.sysctls, cleanup |-> guard.cleanup]
         /\ guard.sysctls \subseteq Families /\ guard.cleanup \in Seq(Commands)
         /\ Len(guard.cleanup) \in Nat /\ Len(Plan) \in Nat
         /\ step \in Nat /\ step <= Len(Plan)
<1>1. guard \in [sysctls : SUBSET Families, cleanup : Seq(Commands)] BY Zenon DEF TypeOK, Commands
<1>2. /\ guard = [sysctls |-> guard.sysctls, cleanup |-> guard.cleanup]
      /\ guard.sysctls \subseteq Families /\ guard.cleanup \in Seq(Commands)
  BY Zenon, <1>1
<1>3. Len(guard.cleanup) \in Nat /\ Len(Plan) \in Nat
  BY Zenon, <1>2, PlanFacts, LenProperties DEF Orderly
<1> QED BY <1>2, <1>3 DEF TypeOK

(* The step whose turn it is has not had it yet. *)
LEMMA CurrentFacts ==
  ASSUME TypeOK, ~Installed
  PROVE  /\ step + 1 \in 1 .. Len(Plan) /\ Current \in Steps
         /\ Planned(Current) /\ ~Done(Current)
         /\ Current = <<"fill">> => Done(<<"add">>) /\ Planned(<<"add">>)
         /\ step' = step + 1 /\ static' = static =>
              /\ step' \in 0 .. Len(Plan) /\ Plan' = Plan
              /\ \A x : Done(x)' <=> Done(x) \/ x = Current
<1>1. step + 1 \in 1 .. Len(Plan) /\ step \in Nat /\ Len(Plan) \in Nat BY GuardTypes DEF Installed
<1>2. Current \in Steps BY Zenon, <1>1, PlanFacts, ElementOfSeq DEF Orderly, Current
<1>3. Planned(Current) BY Zenon, <1>1 DEF Planned, Current
<1>4. ~Done(Current)
  <2> SUFFICES ASSUME NEW i \in 1 .. step, Plan[i] = Plan[step + 1] PROVE FALSE
    BY Zenon DEF Done, Current
  <2>1. i \in 1 .. Len(Plan) BY <1>1
  <2>2. i = step + 1 BY Zenon, <1>1, <2>1, PlanFacts DEF Orderly
  <2> QED BY <1>1, <2>2
<1>5. ASSUME Current = <<"fill">> PROVE Done(<<"add">>) /\ Planned(<<"add">>)
  <2>1. PICK j \in 1 .. (step + 1) - 1 : Plan[j] = <<"add">> BY Zenon, <1>1, <1>5, PlanFacts DEF Current
  <2>2. j \in 1 .. step /\ j \in 1 .. Len(Plan) BY <1>1
  <2> QED BY Zenon, <2>1, <2>2 DEF Done, Planned
<1>6. ASSUME step' = step + 1, static' = static
      PROVE  /\ step' \in 0 .. Len(Plan) /\ Plan' = Plan
             /\ \A x : Done(x)' <=> Done(x) \/ x = Current
  <2>1. Plan' = Plan BY Zenon, <1>6 DEF Plan, Switches, Backend, PerFamily, RuleSteps
  <2>2. \A i \in 1 .. step + 1 : i \in 1 .. step \/ i = step + 1 BY <1>1
  <2>3. \A i \in 1 .. step : i \in 1 .. step + 1 BY <1>1
  <2>4. step + 1 \in 1 .. step + 1 BY <1>1
  <2> QED BY <1>1, <1>6, <2>1, <2>2, <2>3, <2>4 DEF Done, Current
<1> QED BY Zenon, <1>1, <1>2, <1>3, <1>4, <1>5, <1>6

(* A command is noted. *)
LEMMA PushFacts ==
  ASSUME TypeOK, NEW command \in Commands, guard' = Push(command)
  PROVE  /\ guard'.sysctls = guard.sysctls
         /\ guard' \in [sysctls : SUBSET Families, cleanup : Seq(Commands)]
         /\ \A x : Noted(x)' <=> Noted(x) \/ x = command
<1> DEFINE old == guard.cleanup
           new == Append(old, command)
<1>1. old \in Seq(Commands) /\ guard.sysctls \subseteq Families /\ Len(old) \in Nat BY Zenon, GuardTypes
<1>2. guard' = [sysctls |-> guard.sysctls, cleanup |-> new] BY Zenon, GuardTypes DEF Push
<1>3. /\ new \in Seq(Commands) /\ Len(new) = Len(old) + 1 /\ new[Len(old) + 1] = command
      /\ \A i \in 1 .. Len(old) : new[i] = old[i]
  BY <1>1, AppendProperties
<1>4. guard'.cleanup = new /\ guard'.sysctls = guard.sysctls BY <1>2
<1> HIDE DEF new
<1>5. \A i \in 1 .. Len(old) + 1 : i \in 1 .. Len(old) \/ i = Len(old) + 1 BY <1>1
<1>6. \A i \in 1 .. Len(old) : i \in 1 .. Len(old) + 1 BY <1>1
<1>7. Len(old) + 1 \in 1 .. Len(old) + 1 BY <1>1
<1>8. ASSUME NEW x PROVE Noted(x)' <=> Noted(x) \/ x = command
  <2>1. Noted(x)' <=> \E i \in 1 .. Len(old) + 1 : new[i] = x BY Zenon, <1>3, <1>4 DEF Noted
  <2>2. Noted(x) <=> \E i \in 1 .. Len(old) : old[i] = x BY Zenon DEF Noted
  <2> QED BY Zenon, <1>3, <1>5, <1>6, <1>7, <2>1, <2>2
<1> QED BY Zenon, <1>1, <1>2, <1>3, <1>4, <1>8

(* The last command is taken. *)
LEMMA UndoFacts ==
  ASSUME TypeOK, NEW works, Undo(works)
  PROVE  \E command \in Commands :
           /\ guard'.sysctls = guard.sysctls
           /\ guard' \in [sysctls : SUBSET Families, cleanup : Seq(Commands)]
           /\ \A x : Noted(x) <=> Noted(x)' \/ x = command
           /\ IF ~works THEN UNCHANGED <<table, copies>>
              ELSE IF command[1] = "table"
                   THEN table' = "absent" /\ UNCHANGED copies
                   ELSE /\ copies' = [copies EXCEPT ![command[2]] = IF @ = 0 THEN 0 ELSE @ - 1]
                        /\ UNCHANGED table
<1> DEFINE old == guard.cleanup
           n == Len(old)
           new == SubSeq(old, 1, n - 1)
<1>1. old \in Seq(Commands) /\ guard.sysctls \subseteq Families /\ old # <<>>
  BY Zenon, GuardTypes DEF Undo
<1>2. n \in Nat \ {0} BY Zenon, <1>1, EmptySeq
<1>3. \A i \in 1 .. n : old[i] \in Commands BY Zenon, <1>1, ElementOfSeq
<1>4. guard' = [sysctls |-> guard.sysctls, cleanup |-> new] BY Zenon, GuardTypes DEF Undo
<1>5. /\ new \in Seq(Commands) /\ Len(new) = n - 1
      /\ \A i \in 1 .. n - 1 : new[i] = old[i]
  <2>1. 1 \in Int /\ n - 1 \in Int /\ \A i \in 1 .. n - 1 : old[i] \in Commands BY <1>2, <1>3
  <2>2. /\ new \in Seq(Commands) /\ Len(new) = IF 1 <= n - 1 THEN (n - 1) - 1 + 1 ELSE 0
        /\ \A i \in 1 .. (n - 1) - 1 + 1 : new[i] = old[1 + i - 1]
    <3> HIDE DEF old, n
    <3> QED BY <2>1, SubSeqProperties
  <2>3. \A i \in 1 .. n - 1 : i \in 1 .. (n - 1) - 1 + 1 /\ 1 + i - 1 = i BY <1>2
  <2> HIDE DEF new, n
  <2> QED BY <1>2, <2>2, <2>3
<1>6. guard'.cleanup = new /\ guard'.sysctls = guard.sysctls BY Zenon, <1>4
<1>7. ASSUME NEW x PROVE Noted(x) <=> Noted(x)' \/ x = old[n]
  <2> HIDE DEF new
  <2>1. Noted(x)' <=> \E i \in 1 .. n - 1 : new[i] = x BY Zenon, <1>5, <1>6 DEF Noted
  <2>2. Noted(x) <=> \E i \in 1 .. n : old[i] = x BY Zenon DEF Noted
  <2>3. \A i \in 1 .. n : i \in 1 .. n - 1 \/ i = n BY <1>2
  <2>4. (\A i \in 1 .. n - 1 : i \in 1 .. n) /\ n \in 1 .. n BY <1>2
  <2> HIDE DEF n
  <2> QED BY Zenon, <1>5, <2>1, <2>2, <2>3, <2>4
<1>8. old[n] \in Commands BY <1>2, <1>3
<1> QED BY Zenon, <1>1, <1>4, <1>5, <1>6, <1>7, <1>8 DEF Undo

(* What the invariant says of the kernel and the guard. *)
ForwardingInv == GuardExact /\ RulesKnown /\ GuardAccounts

(* Once everything is installed the guard has noted every rule there is. *)
LEMMA InstalledNoted ==
  ASSUME GuardExact, RulesKnown, phase \notin {"down", "installing", "cleaning"}
  PROVE  AllNoted
<1>1. step = Len(Plan) BY Zenon DEF GuardExact, Installed
<1>2. \A x : Planned(x) <=> Done(x) BY Zenon, <1>1 DEF Planned, Done
<1> QED BY Zenon, <1>2 DEF GuardExact, RulesKnown, AllNoted

(* Steps that touch neither the kernel nor the guard. *)
LEMMA ForwardingKept ==
  ASSUME TypeOK, ForwardingInv, UNCHANGED <<guardVars, original, mishaps>>,
         phase' = "down" => phase = "down",
         phase' \notin {"down", "installing", "cleaning"} => Installed,
         phase' \notin {"down", "cleaning"} => phase # "cleaning",
         phase' \in {"cleaning", "down"} /\ ended' = "cleanly" =>
           \/ phase \in {"cleaning", "down"} /\ ended = "cleanly"
           \/ phase \notin {"down", "installing", "cleaning"}
  PROVE  ForwardingInv'
<1>1. /\ UNCHANGED <<static, sysctl, table, copies, guard, step, original, mishaps>>
      /\ Plan' = Plan
  BY Zenon DEF guardVars, kernel, Plan, Switches, Backend, PerFamily, RuleSteps
<1>2. /\ \A x : (Planned(x)' <=> Planned(x)) /\ (Done(x)' <=> Done(x)) /\ (Noted(x)' <=> Noted(x))
      /\ Installed' = Installed /\ CleanedUp' = CleanedUp /\ Tidy' = Tidy
      /\ AllNoted' = AllNoted
  BY Zenon, <1>1 DEF Planned, Done, Noted, Installed, CleanedUp, Tidy, AllNoted
<1>3. GuardExact'
  <2>1. phase = "down" => \A x : ~Done(x) BY GuardTypes DEF ForwardingInv, GuardExact, Done
  <2> QED BY Zenon, <1>1, <1>2, <2>1 DEF ForwardingInv, GuardExact
<1>4. RulesKnown'
  <2>1. phase' \in {"cleaning", "down"} /\ ended' = "cleanly" /\ "misread" \notin mishaps => AllNoted
    BY Zenon, InstalledNoted DEF ForwardingInv, RulesKnown
  <2> QED BY Zenon, <1>1, <1>2, <2>1 DEF ForwardingInv, RulesKnown
<1>5. GuardAccounts' BY Zenon, <1>1, <1>2 DEF ForwardingInv, GuardAccounts
<1> QED BY Zenon, <1>3, <1>4, <1>5 DEF ForwardingInv

(* A step of the installation. *)
LEMMA ForwardingInstalls ==
  ASSUME TypeOK, ForwardingInv, InstallStep
  PROVE  ForwardingInv'
<1>1. PICK works \in BOOLEAN :
        /\ Install(works)
        /\ mishaps' = IF works THEN mishaps ELSE mishaps \cup {"misread"}
  BY Zenon DEF InstallStep
<1>2. /\ phase = "installing" /\ phase' = "installing" /\ ended' = ended /\ original' = original
      /\ ~Installed /\ step' = step + 1 /\ static' = static
  BY Zenon, <1>1 DEF InstallStep, Install
<1>3. /\ Current \in Steps /\ Planned(Current) /\ ~Done(Current) /\ Plan' = Plan
      /\ Current = <<"fill">> => Done(<<"add">>) /\ Planned(<<"add">>)
      /\ \A x : Done(x)' <=> Done(x) \/ x = Current
  BY Zenon, <1>2, CurrentFacts
<1>4. \A x : Planned(x)' <=> Planned(x) BY Zenon, <1>3 DEF Planned
<1>5. /\ Tidy' <=> Tidy
      /\ "misread" \notin mishaps' => "misread" \notin mishaps /\ works
  BY Zenon, <1>1 DEF Tidy
<1>6. /\ guard.sysctls \subseteq Families /\ sysctl \subseteq Families
      /\ copies \in [Rules -> Nat] /\ guard = [sysctls |-> guard.sysctls, cleanup |-> guard.cleanup]
  BY Zenon, GuardTypes DEF TypeOK
<1>7. CASE EnableSysctl
  <2>1. PICK f \in Families : Current = <<"sysctl", f>>
    BY <1>3, <1>7 DEF EnableSysctl, Steps, SwitchSteps, TableSteps
  <2>2. /\ sysctl' = sysctl \cup {f} /\ UNCHANGED <<table, copies>>
        /\ guard' = IF f \in sysctl THEN guard ELSE [guard EXCEPT !.sysctls = @ \cup {f}]
    BY Zenon, <1>7, <2>1 DEF EnableSysctl
  <2>3. /\ guard'.cleanup = guard.cleanup
        /\ guard'.sysctls = IF f \in sysctl THEN guard.sysctls ELSE guard.sysctls \cup {f}
    BY Zenon, <1>6, <2>2
  <2>4. \A x : Noted(x)' <=> Noted(x) BY Zenon, <2>3 DEF Noted
  <2>5. /\ \A r \in Rules : Done(<<"rule", r>>)' <=> Done(<<"rule", r>>)
        /\ Done(<<"add">>)' <=> Done(<<"add">>)
    BY Zenon, <1>3, <2>1
  <2>6. GuardExact' BY Zenon, <1>2, <2>4, <2>5 DEF ForwardingInv, GuardExact
  <2>7. RulesKnown' BY Zenon, <1>2, <1>4, <1>5, <2>2 DEF ForwardingInv, RulesKnown
  <2>8. GuardAccounts' BY <1>2, <1>5, <2>2, <2>3, <2>4 DEF ForwardingInv, GuardAccounts, AllNoted
  <2> QED BY Zenon, <2>6, <2>7, <2>8 DEF ForwardingInv
<1>8. CASE DeleteTable(works) \/ FillTable
  <2>1. /\ UNCHANGED <<sysctl, copies, guard>>
        /\ Current = <<"delete">> \/ Current = <<"fill">>
        /\ table' # "absent" => table # "absent" \/ Current = <<"fill">>
    BY <1>3, <1>8 DEF DeleteTable, FillTable, Steps, SwitchSteps, TableSteps
  <2>2. \A x : Noted(x)' <=> Noted(x) BY Zenon, <2>1 DEF Noted
  <2>3. /\ \A r \in Rules : Done(<<"rule", r>>)' <=> Done(<<"rule", r>>)
        /\ Done(<<"add">>)' <=> Done(<<"add">>)
    BY <1>3, <2>1
  <2>4. Current = <<"fill">> => Noted(<<"table">>) BY Zenon, <1>2, <1>3 DEF ForwardingInv, GuardExact
  <2>5. GuardExact' BY Zenon, <1>2, <2>2, <2>3 DEF ForwardingInv, GuardExact
  <2>6. RulesKnown' BY Zenon, <1>2, <1>3, <1>4, <1>5, <2>1 DEF ForwardingInv, RulesKnown
  <2>7. GuardAccounts'
    BY Zenon, <1>2, <1>5, <2>1, <2>2, <2>4 DEF ForwardingInv, GuardAccounts, AllNoted
  <2> QED BY Zenon, <2>5, <2>6, <2>7 DEF ForwardingInv
<1>9. CASE AddTable
  <2>1. Current = <<"add">> BY <1>3, <1>9 DEF AddTable, Steps, SwitchSteps, TableSteps
  <2>2. UNCHANGED <<sysctl, copies>> /\ guard' = Push(<<"table">>) /\ <<"table">> \in Commands
    BY Zenon, <1>9 DEF AddTable, Commands
  <2>3. guard'.sysctls = guard.sysctls /\ \A x : Noted(x)' <=> Noted(x) \/ x = <<"table">>
    BY Zenon, <2>2, PushFacts
  <2>4. \A r \in Rules : /\ Done(<<"rule", r>>)' <=> Done(<<"rule", r>>)
                         /\ Noted(<<"rule", r>>)' <=> Noted(<<"rule", r>>)
    BY Zenon, <1>3, <2>1, <2>3
  <2>5. GuardExact' BY Zenon, <1>2, <2>3, <2>4 DEF ForwardingInv, GuardExact
  <2>6. RulesKnown' BY Zenon, <1>2, <1>3, <1>4, <1>5, <2>1, <2>2 DEF ForwardingInv, RulesKnown
  <2>7. GuardAccounts'
    BY Zenon, <1>2, <1>5, <2>2, <2>3, <2>4 DEF ForwardingInv, GuardAccounts, AllNoted
  <2> QED BY Zenon, <2>5, <2>6, <2>7 DEF ForwardingInv
<1>10. CASE InstallRule(works)
  <2>1. PICK r \in Rules : Current = <<"rule", r>>
    BY <1>3, <1>10 DEF InstallRule, Steps, SwitchSteps, TableSteps
  <2>2. /\ UNCHANGED <<sysctl, table>> /\ guard' = Push(<<"rule", r>>)
        /\ copies' = IF works /\ copies[r] > 0 THEN copies ELSE [copies EXCEPT ![r] = @ + 1]
        /\ <<"rule", r>> \in Commands
    BY Zenon, <1>10, <2>1 DEF InstallRule, Commands
  <2>3. guard'.sysctls = guard.sysctls /\ \A x : Noted(x)' <=> Noted(x) \/ x = <<"rule", r>>
    BY Zenon, <2>2, PushFacts
  <2>4. /\ \A q \in Rules : Done(<<"rule", q>>)' <=> Done(<<"rule", q>>) \/ q = r
        /\ \A q \in Rules : Noted(<<"rule", q>>)' <=> Noted(<<"rule", q>>) \/ q = r
        /\ Done(<<"add">>)' <=> Done(<<"add">>)
        /\ Noted(<<"table">>)' <=> Noted(<<"table">>)
    BY Zenon, <1>3, <2>1, <2>3
  <2>5. /\ \A q \in Rules : copies'[q] > 0 => copies[q] > 0 \/ q = r
        /\ \A q \in Rules \ {r} : copies'[q] = copies[q]
        /\ copies'[r] = IF works /\ copies[r] > 0 THEN copies[r] ELSE copies[r] + 1
        /\ copies[r] \in Nat
    BY Zenon, <1>6, <2>2
  <2>6. GuardExact' BY Zenon, <1>2, <2>4 DEF ForwardingInv, GuardExact
  <2>7. RulesKnown'
    <3>1. \A q \in Rules : copies'[q] > 0 => Planned(<<"rule", q>>)
      BY Zenon, <1>3, <2>1, <2>5 DEF ForwardingInv, RulesKnown
    <3>2. "misread" \notin mishaps' => \A q \in Rules : copies'[q] <= 1
      BY <1>5, <2>5 DEF ForwardingInv, RulesKnown
    <3>3. table' # "absent" => Planned(<<"add">>) BY Zenon, <2>2 DEF ForwardingInv, RulesKnown
    <3> QED BY Zenon, <1>2, <1>4, <3>1, <3>2, <3>3 DEF RulesKnown
  <2>8. GuardAccounts'
    <3> SUFFICES ASSUME Tidy PROVE /\ \A q \in Rules : copies'[q] <= 1
                                   /\ AllNoted'
                                   /\ sysctl' = original' \cup guard'.sysctls
                                   /\ guard'.sysctls \cap original' = {}
      BY Zenon, <1>5 DEF GuardAccounts
    <3>1. copies[r] = 0
      <4>1. copies[r] > 0 => Done(<<"rule", r>>)
        BY Zenon DEF ForwardingInv, GuardAccounts, AllNoted, GuardExact
      <4> QED BY <1>3, <2>1, <2>5, <4>1
    <3>2. \A q \in Rules : copies'[q] <= 1 BY <2>5, <3>1 DEF ForwardingInv, GuardAccounts
    <3>3. AllNoted' BY Zenon, <2>2, <2>4, <2>5 DEF ForwardingInv, GuardAccounts, AllNoted
    <3> QED BY Zenon, <1>2, <2>2, <2>3, <3>2, <3>3 DEF ForwardingInv, GuardAccounts
  <2> QED BY Zenon, <2>6, <2>7, <2>8 DEF ForwardingInv
<1> QED BY Zenon, <1>1, <1>7, <1>8, <1>9, <1>10 DEF Install

(* A step of cleanup. *)
LEMMA ForwardingCleans ==
  ASSUME TypeOK, ForwardingInv, Cleanup
  PROVE  ForwardingInv'
<1>1. PICK works \in BOOLEAN :
        /\ Undo(works) \/ RestoreSysctl(works)
        /\ ended' = IF works THEN ended ELSE "untidily"
        /\ mishaps' = IF works THEN mishaps ELSE mishaps \cup {"untidy"}
  BY Zenon DEF Cleanup
<1>2. /\ phase = "cleaning" /\ phase' = "cleaning" /\ original' = original
      /\ step' = step /\ static' = static
  BY Zenon, <1>1 DEF Cleanup, Undo, RestoreSysctl
<1>3. Plan' = Plan BY Zenon, <1>2 DEF Plan, Switches, Backend, PerFamily, RuleSteps
<1>4. \A x : (Planned(x)' <=> Planned(x)) /\ (Done(x)' <=> Done(x)) BY Zenon, <1>2, <1>3 DEF Planned, Done
<1>5. /\ Tidy' => Tidy /\ works
      /\ "misread" \notin mishaps' => "misread" \notin mishaps
      /\ ended' = "cleanly" => ended = "cleanly" /\ works
  BY Zenon, <1>1 DEF Tidy
<1>6. /\ guard.sysctls \subseteq Families /\ copies \in [Rules -> Nat]
      /\ guard = [sysctls |-> guard.sysctls, cleanup |-> guard.cleanup]
  BY Zenon, GuardTypes DEF TypeOK
<1>7. CASE Undo(works)
  <2>1. PICK command \in Commands :
          /\ guard'.sysctls = guard.sysctls
          /\ \A x : Noted(x) <=> Noted(x)' \/ x = command
          /\ IF ~works THEN UNCHANGED <<table, copies>>
             ELSE IF command[1] = "table"
                  THEN table' = "absent" /\ UNCHANGED copies
                  ELSE /\ copies' = [copies EXCEPT ![command[2]] = IF @ = 0 THEN 0 ELSE @ - 1]
                       /\ UNCHANGED table
    BY Zenon, <1>7, UndoFacts
  <2>2. sysctl' = sysctl BY Zenon, <1>7 DEF Undo
  <2>3. /\ \A r \in Rules : copies'[r] <= copies[r] /\ copies'[r] \in Nat /\ copies[r] \in Nat
        /\ table' # "absent" => table # "absent"
        /\ works => \A r \in Rules : command = <<"rule", r>> /\ copies[r] <= 1 => copies'[r] = 0
        /\ works /\ command = <<"table">> => table' = "absent"
    <3>1. CASE ~works BY <1>6, <2>1, <3>1
    <3>2. CASE works /\ command = <<"table">> BY <1>6, <2>1, <3>2
    <3>3. ASSUME works, NEW q \in Rules, command = <<"rule", q>>
          PROVE  /\ table' = table /\ copies' = [copies EXCEPT ![q] = IF @ = 0 THEN 0 ELSE @ - 1]
                 /\ command # <<"table">>
      BY Zenon, <2>1, <3>3
    <3>4. ASSUME works, NEW q \in Rules, command = <<"rule", q>>
          PROVE  /\ \A r \in Rules : copies'[r] <= copies[r] /\ copies'[r] \in Nat
                 /\ copies[q] <= 1 => copies'[q] = 0
      BY <1>6, <3>3, <3>4
    <3> QED BY <1>6, <3>1, <3>2, <3>3, <3>4 DEF Commands
  <2>4. AllNoted /\ works /\ (\A r \in Rules : copies[r] <= 1) => AllNoted'
    <3> SUFFICES ASSUME AllNoted, works, \A r \in Rules : copies[r] <= 1 PROVE AllNoted' BY Zenon
    <3>1. ASSUME NEW r \in Rules, copies'[r] > 0 PROVE Noted(<<"rule", r>>)'
      <4>1. copies[r] > 0 BY <2>3, <3>1
      <4>2. command # <<"rule", r>> BY <2>3, <3>1
      <4> QED BY Zenon, <2>1, <4>1, <4>2 DEF AllNoted
    <3>2. ASSUME table' # "absent" PROVE Noted(<<"table">>)'
      <4>1. table # "absent" /\ command # <<"table">> BY Zenon, <2>3, <3>2
      <4> QED BY Zenon, <2>1, <4>1 DEF AllNoted
    <3> QED BY Zenon, <3>1, <3>2 DEF AllNoted
  <2>5. GuardExact' BY Zenon, <1>2, <1>4, <2>1 DEF ForwardingInv, GuardExact
  <2>6. RulesKnown'
    <3>1. \A r \in Rules : copies'[r] > 0 => copies[r] > 0 BY <2>3
    <3>2. \A r \in Rules : copies[r] <= 1 => copies'[r] <= 1 BY <2>3
    <3> QED BY Zenon, <1>2, <1>4, <1>5, <2>3, <2>4, <3>1, <3>2 DEF ForwardingInv, RulesKnown
  <2>7. GuardAccounts'
    <3>1. \A r \in Rules : copies[r] <= 1 => copies'[r] <= 1 BY <2>3
    <3> QED BY Zenon, <1>2, <1>5, <2>1, <2>2, <2>4, <3>1 DEF ForwardingInv, GuardAccounts
  <2> QED BY Zenon, <2>5, <2>6, <2>7 DEF ForwardingInv
<1>8. CASE RestoreSysctl(works)
  <2>1. PICK f \in guard.sysctls :
          /\ guard' = [guard EXCEPT !.sysctls = @ \ {f}]
          /\ sysctl' = IF works THEN sysctl \ {f} ELSE sysctl
    BY Zenon, <1>8 DEF RestoreSysctl
  <2>2. UNCHANGED <<table, copies>> BY Zenon, <1>8 DEF RestoreSysctl
  <2>3. guard'.cleanup = guard.cleanup /\ guard'.sysctls = guard.sysctls \ {f} BY Zenon, <1>6, <2>1
  <2>4. \A x : Noted(x)' <=> Noted(x) BY Zenon, <2>3 DEF Noted
  <2>5. AllNoted' <=> AllNoted BY Zenon, <2>2, <2>4 DEF AllNoted
  <2>6. GuardExact' BY Zenon, <1>2, <1>4, <2>4 DEF ForwardingInv, GuardExact
  <2>7. RulesKnown' BY Zenon, <1>2, <1>4, <1>5, <2>2, <2>5 DEF ForwardingInv, RulesKnown
  <2>8. GuardAccounts' BY Zenon, <1>2, <1>5, <2>1, <2>2, <2>3, <2>5 DEF ForwardingInv, GuardAccounts
  <2> QED BY Zenon, <2>6, <2>7, <2>8 DEF ForwardingInv
<1> QED BY Zenon, <1>1, <1>7, <1>8

(* The process ends, by itself after cleanup or killed. *)
LEMMA ForwardingEnds ==
  ASSUME TypeOK, ForwardingInv, GuardLost, phase' = "down", original' = original,
         \/ phase = "cleaning" /\ CleanedUp /\ UNCHANGED <<mishaps, ended>>
         \/ mishaps' = mishaps \cup {"killed"} /\ ended' = "killed"
  PROVE  ForwardingInv'
<1>1. /\ guard' = NoGuard /\ step' = 0 /\ UNCHANGED <<static, sysctl, table, copies>>
  BY Zenon DEF GuardLost, kernel
<1>2. Plan' = Plan BY Zenon, <1>1 DEF Plan, Switches, Backend, PerFamily, RuleSteps
<1>3. \A x : Planned(x)' <=> Planned(x) BY Zenon, <1>2 DEF Planned
<1>4. guard'.cleanup = <<>> /\ guard'.sysctls = {} BY Zenon, <1>1 DEF NoGuard
<1>5. \A x : ~Noted(x)' BY <1>4 DEF Noted
<1>6. GuardExact' BY Zenon, <1>1, <1>5 DEF GuardExact, CleanedUp
<1>7. CASE phase = "cleaning" /\ CleanedUp /\ UNCHANGED <<mishaps, ended>>
  <2>1. guard' = guard BY Zenon, <1>1, <1>7 DEF CleanedUp
  <2>2. AllNoted' <=> AllNoted BY Zenon, <1>1, <2>1 DEF AllNoted, Noted
  <2>3. RulesKnown' BY Zenon, <1>1, <1>3, <1>7, <2>2 DEF ForwardingInv, RulesKnown
  <2>4. Tidy' <=> Tidy BY Zenon, <1>7 DEF Tidy
  <2>5. GuardAccounts' BY Zenon, <1>1, <2>1, <2>2, <2>4 DEF ForwardingInv, GuardAccounts
  <2> QED BY Zenon, <1>6, <2>3, <2>5 DEF ForwardingInv
<1>8. CASE mishaps' = mishaps \cup {"killed"} /\ ended' = "killed"
  <2>1. RulesKnown' BY Zenon, <1>1, <1>3, <1>8 DEF ForwardingInv, RulesKnown
  <2>2. GuardAccounts' BY Zenon, <1>8 DEF GuardAccounts, Tidy
  <2> QED BY Zenon, <1>6, <2>1, <2>2 DEF ForwardingInv
<1> QED BY Zenon, <1>7, <1>8

-----------------------------------------------------------------------------
(* Types. *)

GuardTyped ==
  /\ static \in Forwardings
  /\ sysctl \subseteq Families /\ original \subseteq Families
  /\ table \in {"absent", "partial", "complete"}
  /\ copies \in [Rules -> Nat]
  /\ guard \in [sysctls : SUBSET Families, cleanup : Seq(Commands)]
  /\ step \in 0 .. Len(Plan)

TasksTyped ==
  /\ phase \in Phases
  /\ config \in DnsConfigs /\ dnsCurrent \in DnsConfigs
  /\ dnsServing \in DnsConfigs \cup {"none"}
  /\ {dnsDown, signalled, watched, socket} \subseteq BOOLEAN
  /\ statusTask \in {"off", "binding", "serving", "done"}
  /\ portalTask \in {"off", "serving", "done"}
  /\ mishaps \subseteq {"killed", "untidy", "misread"}
  /\ ended \in {"never", "cleanly", "failed", "untidily", "killed"}
  /\ faults \in 0 .. MAX_FAULTS

(* The tasks, their socket and the DNS listeners. *)
TasksInv == TasksTyped /\ SocketHeld /\ DnsHeld

(* Steps that touch neither the kernel nor the guard. *)
LEMMA GuardTypedKept ==
  ASSUME GuardTyped, UNCHANGED <<guardVars, original>>
  PROVE  GuardTyped'
<1>1. /\ UNCHANGED <<static, sysctl, table, copies, guard, step, original>>
      /\ Plan' = Plan
  BY Zenon DEF guardVars, kernel, Plan, Switches, Backend, PerFamily, RuleSteps
<1> QED BY Zenon, <1>1 DEF GuardTyped

(* A step of the installation. *)
LEMMA GuardTypedInstalls ==
  ASSUME TypeOK, InstallStep
  PROVE  GuardTyped'
<1>1. PICK works \in BOOLEAN : Install(works) BY Zenon DEF InstallStep
<1>2. /\ ~Installed /\ step' = step + 1 /\ static' = static /\ original' = original
  BY Zenon, <1>1 DEF InstallStep, Install
<1>3. step' \in 0 .. Len(Plan) /\ Plan' = Plan /\ Current \in Steps BY Zenon, <1>2, CurrentFacts
<1>4. /\ sysctl \subseteq Families /\ table \in {"absent", "partial", "complete"}
      /\ copies \in [Rules -> Nat] /\ original \subseteq Families /\ static \in Forwardings
      /\ guard \in [sysctls : SUBSET Families, cleanup : Seq(Commands)]
  BY Zenon DEF TypeOK, Commands
<1>5. CASE EnableSysctl
  <2>1. Current[2] \in Families BY <1>3, <1>5 DEF EnableSysctl, Steps, SwitchSteps, TableSteps
  <2>2. UNCHANGED <<table, copies>> /\ sysctl' \subseteq Families BY Zenon, <1>4, <1>5, <2>1 DEF EnableSysctl
  <2>3. guard' \in [sysctls : SUBSET Families, cleanup : Seq(Commands)]
    BY Zenon, <1>4, <1>5, <2>1 DEF EnableSysctl
  <2> QED BY Zenon, <1>2, <1>3, <1>4, <2>2, <2>3 DEF GuardTyped
<1>6. CASE DeleteTable(works) \/ FillTable
  BY Zenon, <1>2, <1>3, <1>4, <1>6 DEF DeleteTable, FillTable, GuardTyped
<1>7. CASE AddTable
  <2>1. <<"table">> \in Commands BY Zenon DEF Commands
  <2>2. guard' \in [sysctls : SUBSET Families, cleanup : Seq(Commands)]
    BY Zenon, <1>7, <2>1, PushFacts DEF AddTable
  <2> QED BY Zenon, <1>2, <1>3, <1>4, <1>7, <2>2 DEF AddTable, GuardTyped
<1>8. CASE InstallRule(works)
  <2>1. Current \in Commands /\ Current[2] \in Rules
    BY <1>3, <1>8 DEF InstallRule, Steps, SwitchSteps, TableSteps, Commands
  <2>2. guard' \in [sysctls : SUBSET Families, cleanup : Seq(Commands)]
    BY Zenon, <1>8, <2>1, PushFacts DEF InstallRule
  <2>3. copies' \in [Rules -> Nat] BY <1>4, <1>8, <2>1 DEF InstallRule
  <2> QED BY Zenon, <1>2, <1>3, <1>4, <1>8, <2>2, <2>3 DEF InstallRule, GuardTyped
<1> QED BY Zenon, <1>1, <1>5, <1>6, <1>7, <1>8 DEF Install

(* A step of the cleanup. *)
LEMMA GuardTypedCleans ==
  ASSUME TypeOK, Cleanup
  PROVE  GuardTyped'
<1>1. PICK works \in BOOLEAN : Undo(works) \/ RestoreSysctl(works) BY Zenon DEF Cleanup
<1>2. original' = original /\ step' = step /\ static' = static
  BY Zenon, <1>1 DEF Cleanup, Undo, RestoreSysctl
<1>3. Plan' = Plan BY Zenon, <1>2 DEF Plan, Switches, Backend, PerFamily, RuleSteps
<1>4. /\ sysctl \subseteq Families /\ table \in {"absent", "partial", "complete"}
      /\ copies \in [Rules -> Nat] /\ original \subseteq Families /\ static \in Forwardings
      /\ guard \in [sysctls : SUBSET Families, cleanup : Seq(Commands)]
      /\ step \in 0 .. Len(Plan)
  BY Zenon DEF TypeOK, Commands
<1>5. CASE Undo(works)
  <2>1. PICK command \in Commands :
          /\ guard' \in [sysctls : SUBSET Families, cleanup : Seq(Commands)]
          /\ IF ~works THEN UNCHANGED <<table, copies>>
             ELSE IF command[1] = "table"
                  THEN table' = "absent" /\ UNCHANGED copies
                  ELSE /\ copies' = [copies EXCEPT ![command[2]] = IF @ = 0 THEN 0 ELSE @ - 1]
                       /\ UNCHANGED table
    BY Zenon, <1>5, UndoFacts
  <2>2. command[1] # "table" => command[2] \in Rules BY DEF Commands
  <2>3. copies' \in [Rules -> Nat] /\ table' \in {"absent", "partial", "complete"}
    <3>1. CASE ~works BY Zenon, <1>4, <2>1, <3>1
    <3>2. CASE works /\ command[1] = "table" BY Zenon, <1>4, <2>1, <3>2
    <3>3. CASE works /\ command[1] # "table"
      <4>1. PICK r \in Rules : r = command[2] BY Zenon, <2>2, <3>3
      <4>2. copies' = [copies EXCEPT ![r] = IF copies[r] = 0 THEN 0 ELSE copies[r] - 1]
        BY Zenon, <2>1, <3>3, <4>1
      <4> QED BY <1>4, <2>1, <3>3, <4>2
    <3> QED BY Zenon, <3>1, <3>2, <3>3
  <2>4. sysctl' = sysctl BY Zenon, <1>5 DEF Undo
  <2> QED BY Zenon, <1>2, <1>3, <1>4, <2>1, <2>3, <2>4 DEF GuardTyped
<1>6. CASE RestoreSysctl(works)
  <2>1. UNCHANGED <<table, copies>> /\ sysctl' \subseteq Families BY Zenon, <1>4, <1>6 DEF RestoreSysctl
  <2>2. guard' \in [sysctls : SUBSET Families, cleanup : Seq(Commands)] BY Zenon, <1>4, <1>6 DEF RestoreSysctl
  <2> QED BY Zenon, <1>2, <1>3, <1>4, <2>1, <2>2 DEF GuardTyped
<1> QED BY Zenon, <1>1, <1>5, <1>6

(* The guard goes with the process. *)
LEMMA GuardTypedEnds ==
  ASSUME TypeOK, GuardLost, original' = original
  PROVE  GuardTyped'
<1>1. guard' = NoGuard /\ step' = 0 /\ UNCHANGED <<static, sysctl, table, copies>>
  BY Zenon DEF GuardLost, kernel
<1>2. Plan' = Plan BY Zenon, <1>1 DEF Plan, Switches, Backend, PerFamily, RuleSteps
<1>3. Len(Plan) \in Nat BY Zenon, GuardTypes
<1>4. guard' \in [sysctls : SUBSET Families, cleanup : Seq(Commands)]
  BY Zenon, <1>1, EmptySeq DEF NoGuard
<1>5. /\ sysctl \subseteq Families /\ table \in {"absent", "partial", "complete"}
      /\ copies \in [Rules -> Nat] /\ original \subseteq Families /\ static \in Forwardings
  BY Zenon DEF TypeOK
<1> QED BY <1>1, <1>2, <1>3, <1>4, <1>5 DEF GuardTyped

-----------------------------------------------------------------------------
(* The tasks and the DNS listeners. *)

(* The bound on what fails is kept by whatever may fail. *)
LEMMA FaultsBounded ==
  ASSUME TasksInv
  PROVE  /\ faults \in 0 .. MAX_FAULTS
         /\ Fault => faults' \in 0 .. MAX_FAULTS
         /\ \A ok : Works(ok) => faults' \in 0 .. MAX_FAULTS
<1>1. faults \in 0 .. MAX_FAULTS BY Zenon DEF TasksInv, TasksTyped
<1>2. Fault => faults' \in 0 .. MAX_FAULTS BY <1>1, HostAssumption DEF Fault
<1> QED BY Zenon, <1>1, <1>2 DEF Works

(* What moves within the loop, or to its end, disturbs neither the tasks nor
   the listeners. *)
LEMMA TasksMove ==
  ASSUME TasksInv, UNCHANGED <<dnsVars, config, tasks, history, ended>>,
         signalled' \in BOOLEAN, faults' \in 0 .. MAX_FAULTS,
         phase \notin {"down", "installing", "dns", "cleaning"},
         phase' \in Phases \ {"down", "installing", "dns", "cleaning"}
  PROVE  TasksInv'
<1>1. UNCHANGED <<dnsCurrent, dnsServing, dnsDown, config, watched, statusTask, portalTask, socket,
                  mishaps, ended>>
  BY Zenon DEF dnsVars, tasks, history
<1>2. TasksTyped' BY Zenon, <1>1 DEF TasksInv, TasksTyped
<1>3. SocketHeld' BY Zenon, <1>1 DEF TasksInv, SocketHeld
<1>4. DnsHeld' BY Zenon, <1>1 DEF TasksInv, DnsHeld
<1> QED BY Zenon, <1>2, <1>3, <1>4 DEF TasksInv

(* A start, up to the loop. *)
LEMMA TasksStart ==
  ASSUME TasksInv, Start \/ InstallStep \/ InstallDone \/ Serve \/ StartFails
  PROVE  TasksInv'
<1> USE DEF Goto, dnsVars, tasks, history
<1>1. CASE Start
  <2>1. /\ phase = "down" /\ phase' = "installing" /\ config' \in DnsConfigs
        /\ signalled' = FALSE /\ ended' = "cleanly"
        /\ UNCHANGED <<dnsCurrent, dnsServing, dnsDown, watched, statusTask, portalTask, socket,
                       mishaps, faults>>
    BY Zenon, <1>1 DEF Start
  <2>2. TasksTyped' BY Zenon, <2>1 DEF TasksInv, TasksTyped, Phases
  <2> QED BY Zenon, <2>1, <2>2 DEF TasksInv, SocketHeld, DnsHeld
<1>2. CASE InstallStep
  <2>1. /\ phase = "installing" /\ mishaps' \subseteq mishaps \cup {"misread"}
        /\ UNCHANGED <<dnsCurrent, dnsServing, dnsDown, phase, config, signalled, watched,
                       statusTask, portalTask, socket, ended>>
    BY Zenon, <1>2 DEF InstallStep
  <2>2. faults' \in 0 .. MAX_FAULTS BY Zenon, <1>2, FaultsBounded DEF InstallStep
  <2>3. TasksTyped' BY Zenon, <2>1, <2>2 DEF TasksInv, TasksTyped
  <2> QED BY Zenon, <2>1, <2>3 DEF TasksInv, SocketHeld, DnsHeld
<1>3. CASE InstallDone
  <2>1. /\ phase = "installing" /\ phase' = "dns"
        /\ UNCHANGED <<dnsCurrent, dnsServing, dnsDown, config, signalled, watched,
                       statusTask, portalTask, socket, mishaps, ended, faults>>
    BY Zenon, <1>3 DEF InstallDone
  <2>2. TasksTyped' BY Zenon, <2>1 DEF TasksInv, TasksTyped, Phases
  <2> QED BY Zenon, <2>1, <2>2 DEF TasksInv, SocketHeld, DnsHeld
<1>4. CASE Serve
  <2>1. /\ phase = "dns" /\ phase' = "running" /\ dnsCurrent' = config /\ dnsDown' = FALSE
        /\ dnsServing' = StartForwarder(config) /\ watched' = TRUE
        /\ statusTask' = "binding" /\ portalTask' = "serving"
        /\ UNCHANGED <<config, signalled, socket, mishaps, ended, faults>>
    BY Zenon, <1>4 DEF Serve, StartDns
  <2>2. config \in DnsConfigs BY Zenon DEF TasksInv, TasksTyped
  <2>3. dnsServing' \in DnsConfigs \cup {"none"} BY Zenon, <2>1, <2>2 DEF StartForwarder
  <2>4. TasksTyped' BY Zenon, <2>1, <2>2, <2>3 DEF TasksInv, TasksTyped, Phases
  <2> QED BY Zenon, <2>1, <2>4 DEF TasksInv, SocketHeld, DnsHeld
<1>5. CASE StartFails
  <2>1. /\ phase \in {"installing", "dns"} /\ phase' = "cleaning" /\ ended' = "failed"
        /\ UNCHANGED <<dnsCurrent, dnsServing, dnsDown, config, signalled, watched,
                       statusTask, portalTask, socket, mishaps>>
    BY Zenon, <1>5 DEF StartFails
  <2>2. faults' \in 0 .. MAX_FAULTS BY Zenon, <1>5, FaultsBounded DEF StartFails
  <2>3. TasksTyped' BY Zenon, <2>1, <2>2 DEF TasksInv, TasksTyped, Phases
  <2> QED BY Zenon, <2>1, <2>3 DEF TasksInv, SocketHeld, DnsHeld
<1> QED BY Zenon, <1>1, <1>2, <1>3, <1>4, <1>5

(* A reload changes the configuration and the listeners together. *)
LEMMA TasksReload ==
  ASSUME TasksInv, NEW dns \in DnsConfigs, NEW peers \in BOOLEAN, Reload(dns, peers)
  PROVE  TasksInv'
<1>1. PICK stops, starts, restores \in BOOLEAN :
        /\ dns = config => stops
        /\ (~stops \/ dns = config) => starts
        /\ faults' = faults + Cardinality({i \in 1 .. 3 : ~<<stops, starts, restores>>[i]})
        /\ faults' <= MAX_FAULTS
        /\ IF dns = config THEN UNCHANGED dnsVars
           ELSE ReplaceForwarder(dns, stops, starts, restores)
        /\ IF stops /\ starts THEN config' = dns ELSE config' = config
  BY Zenon DEF Reload
<1>2. phase = "running" /\ UNCHANGED <<phase, signalled, tasks, history, ended>> BY Zenon DEF Reload
<1>3. faults' \in 0 .. MAX_FAULTS
  <2> DEFINE Failed(i) == ~<<stops, starts, restores>>[i]
  <2>1. PICK a \in Int, b \in Int : a = 1 /\ b = 3 OBVIOUS
  <2>2. PICK S : S = {i \in a .. b : Failed(i)} BY Zenon
  <2>3. faults' = faults + Cardinality(S) BY Zenon, <1>1, <2>1, <2>2
  <2> HIDE DEF Failed
  <2>4. IsFiniteSet(S) BY Zenon, <2>2, FS_Interval, FS_Subset
  <2>5. Cardinality(S) \in Nat BY Zenon, <2>4, FS_CardinalityType
  <2>6. faults \in Nat /\ MAX_FAULTS \in Nat BY FaultsBounded, HostAssumption
  <2>7. faults' <= MAX_FAULTS BY Zenon, <1>1
  <2> QED BY <2>3, <2>5, <2>6, <2>7
<1>4. dnsCurrent = config /\ (dnsServing = StartForwarder(config) \/ dnsDown)
  BY Zenon, <1>2 DEF TasksInv, DnsHeld
<1>5. /\ config \in DnsConfigs /\ dnsDown \in BOOLEAN /\ dnsServing \in DnsConfigs \cup {"none"}
  BY Zenon DEF TasksInv, TasksTyped
<1>6. /\ config' \in DnsConfigs /\ dnsCurrent' = config' /\ dnsDown' \in BOOLEAN
      /\ dnsServing' = StartForwarder(config') \/ dnsDown'
      /\ dnsServing' \in DnsConfigs \cup {"none"}
  <2>1. CASE dns = config
    <3>1. UNCHANGED <<dnsCurrent, dnsServing, dnsDown, config>> BY Zenon, <1>1, <2>1 DEF dnsVars
    <3> QED BY Zenon, <1>4, <1>5, <3>1
  <2>2. CASE dns # config /\ stops /\ starts
    <3>1. /\ config' = dns /\ dnsCurrent' = dns /\ dnsServing' = StartForwarder(dns)
          /\ dnsDown' = FALSE
      BY Zenon, <1>1, <1>4, <2>2 DEF ReplaceForwarder
    <3> QED BY Zenon, <3>1 DEF StartForwarder
  <2>3. CASE dns # config /\ ~(stops /\ starts)
    <3>1. config' = config /\ dnsCurrent' = config BY Zenon, <1>1, <1>4, <2>3 DEF ReplaceForwarder
    <3>2. \/ dnsServing' = StartForwarder(config) /\ dnsDown' = FALSE
          \/ dnsServing' = "none" /\ dnsDown' = TRUE
      BY Zenon, <1>1, <1>4, <2>3 DEF ReplaceForwarder
    <3> QED BY Zenon, <1>5, <3>1, <3>2 DEF StartForwarder
  <2> QED BY Zenon, <2>1, <2>2, <2>3
<1>7. UNCHANGED <<watched, statusTask, portalTask, socket, mishaps>> BY Zenon, <1>2 DEF tasks, history
<1> QED BY Zenon, <1>2, <1>3, <1>6, <1>7 DEF TasksInv, TasksTyped, SocketHeld, DnsHeld

(* The loop. *)
LEMMA TasksLoop ==
  ASSUME TasksInv,
         \/ SessionJoins \/ PacketCarried \/ SessionLeaves \/ UsageTick \/ FlushWrites
         \/ FlushReplaces \/ FlushFails \/ Stop \/ Signal \/ Midnight
         \/ \E dns \in DnsConfigs, peers \in BOOLEAN : Reload(dns, peers)
  PROVE  TasksInv'
<1>0. signalled \in BOOLEAN /\ faults \in 0 .. MAX_FAULTS BY Zenon DEF TasksInv, TasksTyped
<1>1. CASE SessionJoins \/ PacketCarried \/ SessionLeaves \/ Midnight
  <2>1. UNCHANGED <<dnsCurrent, dnsServing, dnsDown, phase, config, signalled, watched, statusTask,
                    portalTask, socket, mishaps, ended, faults>>
    BY Zenon, <1>1 DEF SessionJoins, PacketCarried, SessionLeaves, Midnight, Loop, dnsVars, tasks, history
  <2> QED BY Zenon, <2>1 DEF TasksInv, TasksTyped, SocketHeld, DnsHeld
<1>2. CASE UsageTick BY Zenon, <1>0, <1>2, TasksMove DEF UsageTick, Goto, Phases
<1>3. CASE FlushWrites BY Zenon, <1>0, <1>3, TasksMove DEF FlushWrites, Goto, Phases
<1>4. CASE FlushReplaces BY Zenon, <1>0, <1>4, TasksMove DEF FlushReplaces, Goto, Phases
<1>5. CASE FlushFails
  <2>1. faults' \in 0 .. MAX_FAULTS BY Zenon, <1>5, FaultsBounded DEF FlushFails
  <2> QED BY Zenon, <1>0, <1>5, <2>1, TasksMove DEF FlushFails, Goto, Phases
<1>6. CASE Stop
  <2>1. faults' \in 0 .. MAX_FAULTS BY Zenon, <1>6, FaultsBounded DEF Stop
  <2> QED BY Zenon, <1>0, <1>6, <2>1, TasksMove DEF Stop, Goto, Phases
<1>7. CASE Signal BY Zenon, <1>0, <1>7, TasksMove DEF Signal, InLoop, Phases
<1>8. CASE \E dns \in DnsConfigs, peers \in BOOLEAN : Reload(dns, peers) BY Zenon, <1>8, TasksReload
<1> QED BY Zenon, <1>1, <1>2, <1>3, <1>4, <1>5, <1>6, <1>7, <1>8

(* The process and its cleanup. *)
LEMMA TasksEnd ==
  ASSUME TasksInv, DropStatus \/ Joined \/ Cleanup \/ Exit \/ Kill
  PROVE  TasksInv'
<1> USE DEF Goto, dnsVars, tasks, history
<1>1. CASE DropStatus
  <2>1. /\ watched' = FALSE
        /\ UNCHANGED <<dnsCurrent, dnsServing, dnsDown, phase, config, signalled, statusTask,
                       portalTask, socket, mishaps, ended, faults>>
    BY Zenon, <1>1 DEF DropStatus
  <2> QED BY Zenon, <2>1 DEF TasksInv, TasksTyped, SocketHeld, DnsHeld
<1>2. CASE Joined
  <2>1. /\ statusTask = "done" /\ phase' = "cleaning"
        /\ UNCHANGED <<dnsCurrent, dnsServing, dnsDown, config, signalled, watched, statusTask,
                       portalTask, socket, mishaps, ended, faults>>
    BY Zenon, <1>2 DEF Joined
  <2>2. TasksTyped' BY Zenon, <2>1 DEF TasksInv, TasksTyped, Phases
  <2> QED BY Zenon, <2>1, <2>2 DEF TasksInv, SocketHeld, DnsHeld
<1>3. CASE Cleanup
  <2>1. /\ phase = "cleaning" /\ ended' \in {ended, "untidily"}
        /\ mishaps' \subseteq mishaps \cup {"untidy"}
        /\ UNCHANGED <<dnsCurrent, dnsServing, dnsDown, phase, config, signalled, watched,
                       statusTask, portalTask, socket>>
    BY Zenon, <1>3 DEF Cleanup
  <2>2. faults' \in 0 .. MAX_FAULTS BY Zenon, <1>3, FaultsBounded DEF Cleanup
  <2>3. TasksTyped' BY Zenon, <2>1, <2>2 DEF TasksInv, TasksTyped
  <2> QED BY Zenon, <2>1, <2>3 DEF TasksInv, SocketHeld, DnsHeld
<1>4. CASE Exit \/ Kill
  <2>1. /\ phase' = "down" /\ dnsCurrent' = "off" /\ dnsServing' = "none" /\ dnsDown' = FALSE
        /\ config' = "off" /\ signalled' = FALSE /\ watched' = FALSE
        /\ statusTask' = "off" /\ portalTask' = "off" /\ UNCHANGED <<socket, faults>>
    BY Zenon, <1>4 DEF Exit, Kill, Gone
  <2>2. \/ phase = "cleaning" /\ UNCHANGED <<mishaps, ended>>
        \/ mishaps' = mishaps \cup {"killed"} /\ ended' = "killed"
    BY Zenon, <1>4 DEF Exit, Kill
  <2>3. TasksTyped' BY Zenon, <2>1, <2>2, DnsAssumption DEF TasksInv, TasksTyped, Phases
  <2> QED BY Zenon, <2>1, <2>2, <2>3 DEF TasksInv, SocketHeld, DnsHeld
<1> QED BY Zenon, <1>1, <1>2, <1>3, <1>4

(* The two tasks. *)
LEMMA TasksRun ==
  ASSUME TasksInv, StatusBinds \/ StatusEnds \/ PortalEnds
  PROVE  TasksInv'
<1> USE DEF dnsVars, history
<1>1. UNCHANGED <<dnsCurrent, dnsServing, dnsDown, phase, config, signalled, watched, mishaps>>
  BY Zenon DEF StatusBinds, StatusEnds, PortalEnds
<1>2. DnsHeld' BY Zenon, <1>1 DEF TasksInv, DnsHeld
<1>3. faults' \in 0 .. MAX_FAULTS BY Zenon, FaultsBounded DEF StatusBinds, StatusEnds, PortalEnds
<1>4. CASE StatusBinds
  <2>1. /\ statusTask = "binding" /\ portalTask' = portalTask
        /\ \/ statusTask' = "serving" /\ socket' = TRUE /\ ended' = ended
           \/ statusTask' = "done" /\ ended' = "untidily" /\ socket' \in BOOLEAN
    BY Zenon, <1>4 DEF StatusBinds
  <2>2. TasksTyped' BY Zenon, <1>1, <1>3, <2>1 DEF TasksInv, TasksTyped
  <2>3. SocketHeld' BY Zenon, <1>1, <2>1 DEF TasksInv, SocketHeld
  <2> QED BY Zenon, <1>2, <2>2, <2>3 DEF TasksInv
<1>5. CASE StatusEnds
  <2>1. /\ statusTask = "serving" /\ statusTask' = "done" /\ socket' = FALSE
        /\ UNCHANGED <<portalTask, ended>>
    BY Zenon, <1>5 DEF StatusEnds
  <2>2. TasksTyped' BY Zenon, <1>1, <1>3, <2>1 DEF TasksInv, TasksTyped
  <2>3. SocketHeld' BY Zenon, <1>1, <2>1 DEF TasksInv, SocketHeld
  <2> QED BY Zenon, <1>2, <2>2, <2>3 DEF TasksInv
<1>6. CASE PortalEnds
  <2>1. portalTask' = "done" /\ UNCHANGED <<statusTask, socket, ended>> BY Zenon, <1>6 DEF PortalEnds
  <2>2. TasksTyped' BY Zenon, <1>1, <1>3, <2>1 DEF TasksInv, TasksTyped
  <2>3. SocketHeld' BY Zenon, <1>1, <2>1 DEF TasksInv, SocketHeld
  <2> QED BY Zenon, <1>2, <2>2, <2>3 DEF TasksInv
<1> QED BY Zenon, <1>4, <1>5, <1>6

-----------------------------------------------------------------------------
(* The invariant. *)

(* The type invariant in its two parts. *)
LEMMA TypesSplit ==
  /\ TypeOK <=> GuardTyped /\ TasksTyped
  /\ TypeOK' <=> GuardTyped' /\ TasksTyped'
BY Zenon DEF TypeOK, GuardTyped, TasksTyped, Commands

(* Every step but those of the installation, of the cleanup and of the end
   leaves the kernel and the guard alone. *)
LEMMA ForwardingCalm ==
  ASSUME TypeOK, ForwardingInv,
         \/ Start \/ InstallDone \/ Serve \/ StartFails
         \/ SessionJoins \/ PacketCarried \/ SessionLeaves \/ UsageTick \/ FlushWrites
         \/ FlushReplaces \/ FlushFails \/ Stop \/ Signal \/ Midnight
         \/ \E dns \in DnsConfigs, peers \in BOOLEAN : Reload(dns, peers)
         \/ DropStatus \/ Joined \/ StatusBinds \/ StatusEnds \/ PortalEnds
  PROVE  GuardTyped' /\ ForwardingInv'
<1> DEFINE Calm ==
      /\ UNCHANGED <<guardVars, original, mishaps>>
      /\ phase' = "down" => phase = "down"
      /\ phase' \notin {"down", "installing", "cleaning"} => Installed
      /\ phase' \notin {"down", "cleaning"} => phase # "cleaning"
      /\ phase' \in {"cleaning", "down"} /\ ended' = "cleanly" =>
           \/ phase \in {"cleaning", "down"} /\ ended = "cleanly"
           \/ phase \notin {"down", "installing", "cleaning"}
<1>1. SUFFICES Calm
  <2>1. GuardTyped BY Zenon, TypesSplit
  <2> QED BY Zenon, <1>1, <2>1, GuardTypedKept, ForwardingKept
<1>2. phase \notin {"down", "installing", "cleaning"} => Installed BY Zenon DEF ForwardingInv, GuardExact
<1> HIDE DEF guardVars
<1> USE <1>2 DEF Goto, history
<1>3. CASE Start \/ InstallDone \/ Serve \/ StartFails
  BY Zenon, <1>3 DEF Start, InstallDone, Serve, StartFails
<1>4. CASE SessionJoins \/ PacketCarried \/ SessionLeaves \/ Midnight \/ Signal
  <2>1. UNCHANGED <<guardVars, original, mishaps, phase, ended>>
    BY Zenon, <1>4 DEF SessionJoins, PacketCarried, SessionLeaves, Loop, Midnight, Signal
  <2> QED BY Zenon, <2>1
<1>5. CASE UsageTick \/ Stop BY Zenon, <1>5 DEF UsageTick, Stop
<1>6. CASE FlushWrites \/ FlushReplaces \/ FlushFails
  BY Zenon, <1>6 DEF FlushWrites, FlushReplaces, FlushFails
<1>7. CASE \E dns \in DnsConfigs, peers \in BOOLEAN : Reload(dns, peers) BY Zenon, <1>7 DEF Reload
<1>8. CASE DropStatus \/ Joined BY Zenon, <1>8 DEF DropStatus, Joined
<1>9. CASE StatusBinds \/ StatusEnds \/ PortalEnds
  BY Zenon, <1>9 DEF StatusBinds, StatusEnds, PortalEnds
<1> QED BY Zenon, <1>3, <1>4, <1>5, <1>6, <1>7, <1>8, <1>9

(* A first server finds nothing of an earlier one. *)
LEMMA ServerInit ==
  ASSUME Init
  PROVE  ServerInv
<1>1. /\ static \in Forwardings /\ sysctl \subseteq Families /\ original = sysctl
      /\ table = "absent" /\ copies = [r \in Rules |-> 0] /\ guard = NoGuard /\ step = 0
      /\ phase = "down" /\ statusTask = "off" /\ socket = FALSE /\ ended = "never"
  BY Zenon, HostAssumption DEF Init, GuardInit, Forwardings
<1>2. Len(Plan) \in Nat BY Zenon, PlanFacts, LenProperties DEF Orderly
<1>3. /\ guard.cleanup = <<>> /\ guard.sysctls = {}
      /\ guard \in [sysctls : SUBSET Families, cleanup : Seq(Commands)]
  BY Zenon, <1>1, EmptySeq DEF NoGuard
<1>4. GuardTyped
  <2>1. copies \in [Rules -> Nat] /\ step \in 0 .. Len(Plan) BY <1>1, <1>2
  <2> QED BY Zenon, <1>1, <1>3, <2>1 DEF GuardTyped
<1>5. TasksTyped
  <2>1. dnsDown \in BOOLEAN /\ signalled \in BOOLEAN /\ watched \in BOOLEAN /\ socket \in BOOLEAN
    BY Zenon DEF Init, DnsInit
  <2>2. /\ phase = "down" /\ config = "off" /\ dnsCurrent = "off" /\ dnsServing = "none"
        /\ statusTask = "off" /\ portalTask = "off" /\ mishaps = {} /\ ended = "never"
        /\ faults \in 0 .. MAX_FAULTS
    BY HostAssumption DEF Init, DnsInit
  <2> QED BY Zenon, <2>1, <2>2, DnsAssumption DEF TasksTyped, Phases
<1>6. \A x : ~Noted(x) /\ ~Done(x) BY <1>1, <1>3 DEF Noted, Done
<1>7. GuardExact BY Zenon, <1>1, <1>6 DEF GuardExact, CleanedUp
<1>8. \A r \in Rules : copies[r] = 0 BY Zenon, <1>1
<1>9. RulesKnown /\ GuardAccounts BY <1>1, <1>3, <1>8 DEF RulesKnown, GuardAccounts, AllNoted
<1>10. SocketHeld /\ DnsHeld BY Zenon, <1>1 DEF SocketHeld, DnsHeld
<1>11. UsageHeld
  <2>1. /\ today = 0 /\ active = <<>> /\ previous = <<>> /\ sessions = 0 /\ days = <<>>
        /\ disk = <<>> /\ dirty = FALSE /\ carried = 0 /\ blemished = FALSE
    BY Zenon DEF Init, UsageInit, NoDays
  <2>2. DOMAIN active = {} /\ DOMAIN previous = {} /\ DOMAIN days = {} /\ DOMAIN disk = {}
    BY <2>1
  <2>3. /\ active \in [DOMAIN active -> Nat] /\ previous \in [DOMAIN previous -> Nat]
        /\ days \in [DOMAIN days -> Nat] /\ disk \in [DOMAIN disk -> Nat]
    BY <2>1, <2>2
  <2>4. Total(disk) = 0
    <3>1. Total(disk) = Sum(disk, {}) BY Zenon, <2>2 DEF Total, SumFunction, Sum
    <3> QED BY Zenon, <3>1, SumEmpty
  <2>5. {today, sessions, carried} \subseteq Nat BY <2>1
  <2>6. dirty \in BOOLEAN /\ blemished \in BOOLEAN BY Zenon, <2>1
  <2>7. NoneTwice /\ Exact BY <2>1, <2>4 DEF NoneTwice, Exact
  <2> QED BY Zenon, <1>1, <2>2, <2>3, <2>5, <2>6, <2>7 DEF UsageHeld
<1> QED BY Zenon, <1>4, <1>5, <1>7, <1>9, <1>10, <1>11, TypesSplit DEF ServerInv

(* No step disturbs it. *)
LEMMA ServerNext ==
  ASSUME ServerInv, [Next]_vars
  PROVE  ServerInv'
<1>1. /\ TypeOK /\ GuardTyped /\ TasksTyped /\ ForwardingInv /\ TasksInv /\ UsageHeld
      /\ phase \in Phases
  BY Zenon, TypesSplit DEF ServerInv, ForwardingInv, TasksInv, TasksTyped
<1>2. SUFFICES GuardTyped' /\ ForwardingInv' /\ TasksInv' /\ UsageHeld'
  BY Zenon, <1>2, TypesSplit DEF ServerInv, ForwardingInv, TasksInv
<1>3. CASE UNCHANGED vars
  <2>1. UNCHANGED <<guardVars, dnsVars, usageVars, phase, config, signalled, tasks, history,
                    ended, faults>>
    BY Zenon, <1>3 DEF vars
  <2>2. UNCHANGED <<original, mishaps>> BY Zenon, <2>1 DEF history
  <2>3. UsageHeld' BY Zenon, <1>1, <2>1, UsageKept
  <2>4. GuardTyped' BY Zenon, <1>1, <2>1, <2>2, GuardTypedKept
  <2>5. ForwardingInv'
    <3>1. phase \notin {"down", "installing", "cleaning"} => Installed
      BY Zenon, <1>1 DEF ForwardingInv, GuardExact
    <3> QED BY Zenon, <1>1, <2>1, <2>2, <3>1, ForwardingKept
  <2>6. TasksInv'
    BY Zenon, <1>1, <2>1, <2>2 DEF TasksInv, TasksTyped, SocketHeld, DnsHeld, dnsVars, tasks
  <2> QED BY Zenon, <2>3, <2>4, <2>5, <2>6
<1>4. CASE Start BY Zenon, <1>1, <1>4, ForwardingCalm, TasksStart, UsageCounts
<1>5. CASE InstallStep
  BY Zenon, <1>1, <1>5, GuardTypedInstalls, ForwardingInstalls, TasksStart, UsageAside
<1>6. CASE InstallDone \/ Serve \/ StartFails BY Zenon, <1>1, <1>6, ForwardingCalm, TasksStart, UsageAside
<1>7. CASE FlushWrites \/ FlushFails \/ Signal BY Zenon, <1>1, <1>7, ForwardingCalm, TasksLoop, UsageAside
<1>8. CASE \/ SessionJoins \/ PacketCarried \/ SessionLeaves \/ UsageTick \/ FlushReplaces
           \/ Stop \/ Midnight
           \/ \E dns \in DnsConfigs, peers \in BOOLEAN : Reload(dns, peers)
  BY Zenon, <1>1, <1>8, ForwardingCalm, TasksLoop, UsageCounts
<1>9. CASE DropStatus \/ Joined \/ StatusBinds \/ StatusEnds \/ PortalEnds
  BY Zenon, <1>1, <1>9, ForwardingCalm, TasksEnd, TasksRun, UsageAside
<1>10. CASE Cleanup BY Zenon, <1>1, <1>10, GuardTypedCleans, ForwardingCleans, TasksEnd, UsageAside
<1>11. CASE Exit \/ Kill
  <2>1. /\ GuardLost /\ phase' = "down" /\ original' = original
        /\ \/ phase = "cleaning" /\ CleanedUp /\ UNCHANGED <<mishaps, ended>>
           \/ mishaps' = mishaps \cup {"killed"} /\ ended' = "killed"
    BY Zenon, <1>11 DEF Exit, Kill, Gone, Goto, history
  <2> QED BY Zenon, <1>1, <1>11, <2>1, GuardTypedEnds, ForwardingEnds, TasksEnd, UsageCounts
<1> QED
  BY Zenon, <1>3, <1>4, <1>5, <1>6, <1>7, <1>8, <1>9, <1>10, <1>11 DEF Next, Work

(* The inductive invariant of the server's host. *)
THEOREM ServerInvariant == Spec => []ServerInv
BY ServerInit, ServerNext, PTL DEF Spec

(* A server that ends by itself leaves no rule and no socket behind, and the
   switches are as they were unless one was killed or a restore failed. *)
THEOREM ServerHostIsRestored == Spec => []ServerHostRestored
<1>1. ASSUME ServerInv PROVE ServerHostRestored
  <2> SUFFICES ASSUME phase = "down" PROVE ServerHostRestored BY Zenon DEF ServerHostRestored
  <2>1. guard.cleanup = <<>> /\ guard.sysctls = {}
    BY <1>1 DEF ServerInv, GuardExact, CleanedUp, NoGuard
  <2>2. \A x : ~Noted(x) BY <2>1 DEF Noted
  <2>3. AllNoted => Unfiltered
    <3>1. \A r \in Rules : copies[r] \in Nat BY Zenon, <1>1 DEF ServerInv, TypeOK
    <3>2. AllNoted => table = "absent" BY Zenon, <2>2 DEF AllNoted
    <3>3. AllNoted => \A r \in Rules : ~(copies[r] > 0) BY Zenon, <2>2 DEF AllNoted
    <3> QED BY <3>1, <3>2, <3>3 DEF Unfiltered
  <2>4. ended = "cleanly" => ~socket BY Zenon, <1>1 DEF ServerInv, SocketHeld
  <2>5. ended = "cleanly" /\ "misread" \notin mishaps => Unfiltered
    BY Zenon, <1>1, <2>3 DEF ServerInv, RulesKnown
  <2>6. Tidy => Unfiltered /\ sysctl = original
    BY Zenon, <1>1, <2>1, <2>3 DEF ServerInv, GuardAccounts
  <2> QED BY Zenon, <2>4, <2>5, <2>6 DEF ServerHostRestored
<1> QED BY <1>1, ServerInvariant, PTL

(* The DNS section in force is the one the DNS task has. *)
THEOREM DnsStaysInStep == Spec => []DnsInStep
<1>1. ServerInv => DnsInStep BY Zenon DEF ServerInv, DnsHeld, DnsInStep, InLoop
<1> QED BY <1>1, ServerInvariant, PTL

(* The history counts no packet twice, and misses none it does not mean to. *)
THEOREM UsageIsExact == Spec => []UsageExact
<1>1. ServerInv => UsageExact BY Zenon DEF ServerInv, UsageHeld, UsageExact
<1> QED BY <1>1, ServerInvariant, PTL

(* The file loses only days past the retention. *)
THEOREM HistoryIsDurable == Spec => HistoryDurable
<1>1. ServerInv /\ [Next]_vars => [Kept]_vars
  <2> SUFFICES ASSUME ServerInv, Next PROVE Kept BY Zenon
  <2>1. UsageHeld BY Zenon DEF ServerInv
  <2>2. CASE FlushReplaces
    <3>1. phase # "down" /\ disk' = days /\ today' = today
      BY Zenon, <2>2 DEF FlushReplaces, Replace
    <3> QED BY Zenon, <2>1, <3>1 DEF UsageHeld, Kept
  <2>3. CASE disk' = disk
    <3>1. \A d \in DOMAIN disk : disk[d] \in Nat BY Zenon, <2>1 DEF UsageHeld
    <3> QED BY <2>3, <3>1 DEF Kept
  <2>4. CASE Start \/ InstallStep \/ InstallDone \/ Serve \/ StartFails
    BY Zenon, <2>3, <2>4 DEF Start, Open, InstallStep, InstallDone, Serve, StartFails, usageVars
  <2>5. CASE SessionJoins \/ PacketCarried \/ SessionLeaves \/ UsageTick \/ Stop
    <3>1. CASE SessionJoins BY Zenon, <2>3, <3>1 DEF SessionJoins, Loop, Joins
    <3>2. CASE PacketCarried BY Zenon, <2>3, <3>2 DEF PacketCarried, Loop, Carries
    <3>3. CASE SessionLeaves BY Zenon, <2>3, <3>3 DEF SessionLeaves, Loop, Leave
    <3>4. CASE UsageTick \/ Stop BY Zenon, <2>3, <3>4 DEF UsageTick, Record, Stop, usageVars
    <3> QED BY Zenon, <2>5, <3>1, <3>2, <3>3, <3>4
  <2>6. CASE \E dns \in DnsConfigs, peers \in BOOLEAN : Reload(dns, peers)
    <3>1. PICK dns \in DnsConfigs, peers \in BOOLEAN : Reload(dns, peers) BY Zenon, <2>6
    <3>2. Leave(DOMAIN active) \/ UNCHANGED usageVars BY Zenon, <3>1 DEF Reload
    <3> QED BY Zenon, <2>3, <3>2 DEF Leave, usageVars
  <2>7. CASE FlushWrites \/ FlushFails \/ Signal \/ Midnight
    BY Zenon, <2>3, <2>7 DEF FlushWrites, WriteTemporary, FlushFails, Signal, Midnight, NextDay, usageVars
  <2>8. CASE DropStatus \/ Joined \/ Cleanup \/ StatusBinds \/ StatusEnds \/ PortalEnds
    BY Zenon, <2>3, <2>8 DEF DropStatus, Joined, Cleanup, StatusBinds, StatusEnds, PortalEnds, usageVars
  <2>9. CASE Exit \/ Kill BY Zenon, <2>3, <2>9 DEF Exit, Kill, Gone, UsageLost
  <2> QED BY Zenon, <2>2, <2>4, <2>5, <2>6, <2>7, <2>8, <2>9 DEF Next, Work
<1> QED BY <1>1, ServerInvariant, PTL DEF Spec, HistoryDurable

=============================================================================
