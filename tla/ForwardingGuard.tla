--------------------------- MODULE ForwardingGuard ---------------------------
(***************************************************************************)
(* What the server does to its host so that peers reach the internet, and  *)
(* how it takes it back: the kernel's forwarding switches, and either the  *)
(* nftables table inet rvpn or a fixed list of iptables rules per address  *)
(* family.  The kernel's state outlives the process; the guard, which      *)
(* remembers what to undo, does not.  Every command is a step of its own   *)
(* and takes as a parameter whether it succeeds.                           *)
(***************************************************************************)
EXTENDS Naturals, Sequences

CONSTANTS
    RULES       \* iptables rules of one family (five in the code)

ASSUME RulesAssumption == RULES \in Nat \ {0}

VARIABLES
    static, \* the part of the configuration that only a restart changes
    sysctl,     \* the families, of those configured, that the kernel forwards
    table,      \* nftables: absent, partial or complete
    copies,     \* iptables: how often each rule is in its chain
    guard,      \* ForwardingGuard: the sysctls and the commands to undo
    step        \* how many steps of the installation are done

kernel == <<sysctl, table, copies>>
guardVars == <<static, kernel, guard, step>>

Families == {"v4", "v6"}
Rules == Families \X (1 .. RULES)
NoGuard == [sysctls |-> {}, cleanup |-> <<>>]
Forwardings == [families : SUBSET Families, nft : BOOLEAN, usage : BOOLEAN]

\* The steps of install: the switches, then one of the two backends.  With
\* no family forwarding is disabled.
PerFamily(f, steps) == IF f \in static.families THEN steps ELSE <<>>
Switches == PerFamily("v4", <<<<"sysctl", "v4">>>>) \o PerFamily("v6", <<<<"sysctl", "v6">>>>)
RuleSteps(f) == [i \in 1 .. RULES |-> <<"rule", <<f, i>>>>]
Backend ==
    IF static.nft
    THEN <<<<"delete">>, <<"add">>, <<"fill">>>>
    ELSE PerFamily("v4", RuleSteps("v4")) \o PerFamily("v6", RuleSteps("v6"))
Plan == IF static.families = {} THEN <<>> ELSE Switches \o Backend

Installed == step = Len(Plan)
Current == Plan[step + 1]

Push(command) == [guard EXCEPT !.cleanup = Append(@, command)]

GuardInit(setups) ==
    /\ static \in setups
    /\ sysctl \in SUBSET static.families
    /\ table = "absent"
    /\ copies = [r \in Rules |-> 0]
    /\ guard = NoGuard
    /\ step = 0

-----------------------------------------------------------------------------
(* Installation *)

\* enable_sysctl: a switch that is already on is left alone, and off at the
\* end it stays on.
EnableSysctl ==
    /\ Current[1] = "sysctl"
    /\ LET f == Current[2] IN
         /\ sysctl' = sysctl \cup {f}
         /\ guard' = IF f \in sysctl THEN guard
                     ELSE [guard EXCEPT !.sysctls = @ \cup {f}]
    /\ UNCHANGED <<table, copies>>

\* install_nftables.  The table of an earlier process is deleted first; the
\* answer is ignored.
DeleteTable(works) ==
    /\ Current[1] = "delete"
    /\ table' = IF works THEN "absent" ELSE table
    /\ UNCHANGED <<sysctl, copies, guard>>

\* Adding a table that exists succeeds.
AddTable ==
    /\ Current[1] = "add"
    /\ table' = "partial"
    /\ guard' = Push(<<"table">>)
    /\ UNCHANGED <<sysctl, copies>>

FillTable ==
    /\ Current[1] = "fill"
    /\ table' = "complete"
    /\ UNCHANGED <<sysctl, copies, guard>>

\* Mutant: only a rule that was inserted is deleted at the end.
InstallRuleOwn(answered) ==
    /\ Current[1] = "rule"
    /\ LET r == Current[2] IN
         IF answered /\ copies[r] > 0
         THEN UNCHANGED <<copies, guard>>
         ELSE /\ copies' = [copies EXCEPT ![r] = @ + 1]
              /\ guard' = Push(Current)
    /\ UNCHANGED <<sysctl, table>>

\* install_iptables_family, one rule: checked, inserted if the check does not
\* find it or does not work, and always noted for deletion.
InstallRule(answered) ==
    /\ Current[1] = "rule"
    /\ LET r == Current[2] IN
         copies' = IF answered /\ copies[r] > 0 THEN copies
                   ELSE [copies EXCEPT ![r] = @ + 1]
    /\ guard' = Push(Current)
    /\ UNCHANGED <<sysctl, table>>

\* A step that the installation does not survive is a failure of the caller.
\* The others are the ones whose failure is taken for an answer.
Install(works) ==
    /\ ~Installed
    /\ \/ EnableSysctl
       \/ DeleteTable(works)
       \/ AddTable
       \/ FillTable
       \/ InstallRule(works)
    /\ step' = step + 1
    /\ UNCHANGED static

-----------------------------------------------------------------------------
(* cleanup, also run when the guard is dropped *)

\* The last command that is left.
Undo(works) ==
    /\ guard.cleanup # <<>>
    /\ LET n == Len(guard.cleanup)
           command == guard.cleanup[n] IN
         /\ guard' = [guard EXCEPT !.cleanup = SubSeq(@, 1, n - 1)]
         /\ IF ~works THEN UNCHANGED <<table, copies>>
            ELSE IF command[1] = "table"
                 THEN table' = "absent" /\ UNCHANGED copies
                 ELSE /\ copies' = [copies EXCEPT ![command[2]] = IF @ = 0 THEN 0 ELSE @ - 1]
                      /\ UNCHANGED table
    /\ UNCHANGED <<static, sysctl, step>>

\* Then the switches.
RestoreSysctl(works) ==
    /\ guard.cleanup = <<>>
    /\ \E f \in guard.sysctls :
         /\ guard' = [guard EXCEPT !.sysctls = @ \ {f}]
         /\ sysctl' = IF works THEN sysctl \ {f} ELSE sysctl
    /\ UNCHANGED <<static, table, copies, step>>

CleanedUp == guard = NoGuard

\* The process is gone and its guard with it.
GuardLost == guard' = NoGuard /\ step' = 0 /\ UNCHANGED <<static, kernel>>

\* No rule of the server is in force.
Unfiltered == table = "absent" /\ \A r \in Rules : copies[r] = 0
=============================================================================
