--------------------------- MODULE PeriodLimiter ---------------------------
(***************************************************************************)
(* limit/periodlimit.go: at most quota requests of a key in a window, with *)
(* a counter in Redis and, when Redis does not answer, one in the process. *)
(* One key: the counters of different keys do not meet.                    *)
(***************************************************************************)
EXTENDS Clock

CONSTANTS
    period,   \* in ticks
    quota

ASSUME PeriodConstants == period \in Nat \ {0} /\ quota \in Nat

VARIABLES
    counter,     \* the key in Redis: its value, 0 when absent, and its expiry
    localCount,  \* per process: the local counter, count 0 when absent
    passed,      \* history: what Redis allowed
    localPassed  \* history: what each process allowed by itself

periodVars == <<counter, localCount, passed, localPassed>>

Absent == [count |-> 0, expireAt |-> 0]
Counters == [count : Nat, expireAt : Nat]

PeriodTypeOK ==
    /\ counter \in Counters
    /\ localCount \in [Replicas -> Counters]
    /\ passed \in [Times -> Nat]
    /\ localPassed \in [Replicas -> [Times -> Nat]]

NewPeriodLimiter ==
    /\ counter = Absent
    /\ localCount = [r \in Replicas |-> Absent]
    /\ passed = NoEvents
    /\ localPassed = [r \in Replicas |-> NoEvents]

(* Mutant: every request extends the window. *)
PeriodScriptExtending(allowed) ==
    LET current == (IF now < counter.expireAt THEN counter.count ELSE 0) + 1 IN
    /\ counter' = [count |-> current, expireAt |-> now + period]
    /\ allowed = (current <= quota)
    /\ passed' = IF allowed THEN Counted(passed, now, 1) ELSE passed
    /\ UNCHANGED <<localCount, localPassed>>

(* Mutant: one request more than the quota passes. *)
PeriodScriptOffByOne(allowed) ==
    LET current == (IF now < counter.expireAt THEN counter.count ELSE 0) + 1 IN
    /\ counter' = [count |-> current,
                   expireAt |-> IF current = 1 THEN now + period ELSE counter.expireAt]
    /\ allowed = (current <= quota + 1)
    /\ passed' = IF allowed THEN Counted(passed, now, 1) ELSE passed
    /\ UNCHANGED <<localCount, localPassed>>

(* periodLimitScript, atomic in Redis: INCR, expire on the first, compare. *)
PeriodScript(allowed) ==
    LET current == (IF now < counter.expireAt THEN counter.count ELSE 0) + 1 IN
    /\ counter' = [count |-> current,
                   expireAt |-> IF current = 1 THEN now + period ELSE counter.expireAt]
    /\ allowed = (current <= quota)
    /\ passed' = IF allowed THEN Counted(passed, now, 1) ELSE passed
    /\ UNCHANGED <<localCount, localPassed>>

(* localTake, under localMu: a new window starts with this request, which  *)
(* is allowed whatever the quota.                                          *)
localTake(r, allowed) ==
    LET c == localCount[r]
        fresh == c.count = 0 \/ now > c.expireAt
    IN  /\ localCount' = [localCount EXCEPT ![r] =
                             IF fresh THEN [count |-> 1, expireAt |-> now + period]
                             ELSE [count |-> c.count + 1, expireAt |-> c.expireAt]]
        /\ allowed = (fresh \/ c.count + 1 <= quota)
        /\ localPassed' = IF allowed THEN [localPassed EXCEPT ![r] = Counted(@, now, 1)] ELSE localPassed
        /\ UNCHANGED <<counter, passed>>

(* cleanupLoop, whose ticker first fires after two periods. *)
cleanup(r) ==
    /\ now >= 2 * period
    /\ localCount[r].count # 0 /\ now > localCount[r].expireAt
    /\ localCount' = [localCount EXCEPT ![r] = Absent]
    /\ UNCHANGED <<counter, passed, localPassed>>

(* "The most requests in a window", for any interval of the length of a    *)
(* window: two windows meet in it, so it lets through twice the quota, and *)
(* as much again in every process that has had to count by itself.         *)
PeriodBounded ==
    \A t \in 0 .. now :
        /\ Events(passed, t, t + period - 1) <= 2 * quota
        /\ \A r \in Replicas :
              Events(localPassed[r], t, t + period - 1) <= 2 * Max({quota, 1})
=============================================================================
