---------------------------- MODULE UsageHistory ----------------------------
(***************************************************************************)
(* The optional record of how much each peer used the tunnel per day.  The *)
(* sessions count their packets; every minute and at the end the counts    *)
(* since the last time are added to today's total, days beyond the         *)
(* retention are dropped, and the totals are written to a file that        *)
(* replaces the old one.  One peer and one counter stand for all of them:  *)
(* they are never added to each other.                                     *)
(***************************************************************************)
EXTENDS Integers, FiniteSets, Functions

CONSTANTS
    MAX_SESSIONS,   \* bound: sessions ever established
    LAST_DAY,       \* bound: the days are 0 .. LAST_DAY
    RETENTION,      \* retention_days
    MAX_PACKETS     \* bound: packets ever carried

ASSUME UsageAssumption ==
    /\ {LAST_DAY, MAX_PACKETS, MAX_SESSIONS} \subseteq Nat
    /\ RETENTION \in Nat \ {0}

VARIABLES
    today,          \* the UTC day
    active,         \* packets counted by each active session
    sessions,       \* sessions established so far; ids are never used again
    previous,       \* UsageHistory.previous
    days,           \* UsageHistory.file.days
    dirty,          \* UsageHistory.dirty
    disk,           \* days in the file at UsageHistory.path
    carried,        \* history: packets carried since the beginning
    blemished       \* history: packets were given up, as the code means to

memory == <<active, previous, days, dirty>>
usageVars == <<today, memory, sessions, disk, carried, blemished>>

NoDays == <<>>
Total(file) == SumFunction(file)

\* What the last record has not seen of a session, and of several.
Since == [s \in DOMAIN active |-> active[s] - (IF s \in DOMAIN previous THEN previous[s] ELSE 0)]
Unseen(S) == SumFunctionOnSet(Since, S)

UsageInit ==
    /\ today = 0
    /\ active = <<>> /\ previous = <<>>
    /\ sessions = 0
    /\ days = NoDays /\ disk = NoDays
    /\ dirty = FALSE
    /\ carried = 0
    /\ blemished = FALSE

\* UsageHistory::open: a process begins with what the file says.
Open ==
    /\ days' = disk
    /\ active' = <<>> /\ previous' = <<>>
    /\ dirty' = FALSE
    /\ UNCHANGED <<today, sessions, disk, carried, blemished>>

-----------------------------------------------------------------------------
(* What the rest of the server does meanwhile *)

Joins ==
    /\ sessions < MAX_SESSIONS
    /\ sessions' = sessions + 1
    /\ active' = [s \in DOMAIN active \cup {sessions'} |->
                    IF s = sessions' THEN 0 ELSE active[s]]
    /\ UNCHANGED <<today, previous, days, dirty, disk, carried, blemished>>

\* PeerStats::record_rx, record_tx and record_drop.
Carries(s) ==
    /\ carried < MAX_PACKETS
    /\ s \in DOMAIN active
    /\ active' = [active EXCEPT ![s] = @ + 1]
    /\ carried' = carried + 1
    /\ UNCHANGED <<today, sessions, previous, days, dirty, disk, blemished>>

\* Sessions are closed, time out, are replaced or lose their configuration.
Leave(S) ==
    /\ active' = Restrict(active, DOMAIN active \ S)
    /\ blemished' = (blemished \/ Unseen(S \cap DOMAIN active) > 0)
    /\ UNCHANGED <<today, sessions, previous, days, dirty, disk, carried>>

\* Days before the first packet are all alike.
NextDay ==
    /\ today < LAST_DAY /\ carried > 0
    /\ today' = today + 1
    /\ UNCHANGED <<memory, sessions, disk, carried, blemished>>

-----------------------------------------------------------------------------
(* UsageHistory *)

\* prune: the days it keeps.  A day in the future would be dropped too.
Retained(file) == {d \in DOMAIN file : d <= today /\ today - d < RETENTION}

\* Mutant: the counts seen are not remembered.
RecordForgets ==
    LET delta == Unseen(DOMAIN active)
        file == IF delta = 0 THEN days
                ELSE [d \in DOMAIN days \cup {today} |->
                        (IF d \in DOMAIN days THEN days[d] ELSE 0)
                        + (IF d = today THEN delta ELSE 0)]
    IN /\ days' = Restrict(file, Retained(file))
       /\ dirty' = (dirty \/ delta # 0 \/ Retained(file) # DOMAIN file)
       /\ blemished' = (blemished \/ Retained(file) # DOMAIN file)
       /\ UNCHANGED <<today, active, previous, sessions, disk, carried>>

\* record, with its prune.
Record ==
    LET delta == Unseen(DOMAIN active)
        file == IF delta = 0 THEN days
                ELSE [d \in DOMAIN days \cup {today} |->
                        (IF d \in DOMAIN days THEN days[d] ELSE 0)
                        + (IF d = today THEN delta ELSE 0)]
    IN /\ previous' = active
       /\ days' = Restrict(file, Retained(file))
       /\ dirty' = (dirty \/ delta # 0 \/ Retained(file) # DOMAIN file)
       /\ blemished' = (blemished \/ Retained(file) # DOMAIN file)
       /\ UNCHANGED <<today, active, sessions, disk, carried>>

\* Mutant: the file itself is opened for writing.
WriteInPlace == disk' = NoDays

\* flush up to the rename: what is written goes to a temporary file with a
\* name of its own, which stays behind if a later call fails.
WriteTemporary == UNCHANGED disk

\* The rest of flush.
Replace ==
    /\ disk' = days
    /\ dirty' = FALSE
    /\ UNCHANGED <<today, active, previous, days, sessions, carried, blemished>>

\* The process is gone with what it had not written.
UsageLost ==
    /\ blemished' = (blemished \/ dirty \/ Unseen(DOMAIN active) > 0)
    /\ active' = <<>> /\ previous' = <<>> /\ days' = NoDays
    /\ dirty' = FALSE
    /\ UNCHANGED <<today, sessions, disk, carried>>

-----------------------------------------------------------------------------
\* No packet is counted twice, and unless sessions ended between two records,
\* days were pruned or a process was killed or could not write, none is
\* missing.
Exact == Total(disk) = carried
NoneTwice == Total(disk) <= carried

\* The file loses only days the retention no longer covers.
Kept ==
    \A d \in DOMAIN disk :
       \/ d \in DOMAIN disk' /\ disk'[d] >= disk[d]
       \/ d <= today' - RETENTION
=============================================================================
