-------------------------- MODULE AdaptiveShedder --------------------------
(***************************************************************************)
(* load/shedder.go.  The load of the CPU is an input; a tick stands for a *)
(* millisecond.                                                            *)
(***************************************************************************)
EXTENDS Clock, RollingWindow

CONSTANTS
    bucketNum, bucketDuration,   \* the size of the windows, the ticks of a bucket
    Second                       \* the ticks of a second

ASSUME ShedderConstants == {bucketNum, bucketDuration, Second} \subseteq Nat \ {0}

VARIABLES
    flying,                  \* requests let in and not yet resolved
    passCounter, rtCounter,  \* the two rollingCounters
    dropTime,
    droppedRecently

shedderVars == <<flying, passCounter, rtCounter, dropTime, droppedRecently>>

CounterType ==
    [buckets : [0 .. bucketNum - 1 -> Nat], offset : 0 .. bucketNum - 1, lastTime : Nat]

ShedderTypeOK ==
    /\ flying \in Int
    /\ passCounter \in CounterType /\ rtCounter \in CounterType
    /\ dropTime \in Nat /\ droppedRecently \in BOOLEAN

NewAdaptiveShedder ==
    /\ flying = 0
    /\ passCounter = NewWindow(bucketNum, 0, 0)
    /\ rtCounter = NewWindow(bucketNum, 0, 0)
    /\ dropTime = 0 /\ droppedRecently = FALSE

Turn(counter0) == Advance(counter0, now, bucketNum, bucketDuration, 0)
Add(counter0, val) == LET c == Turn(counter0) IN [c EXCEPT !.buckets[c.offset] = @ + val]

(* rollingCounter.Max, and .Avg as a fraction: an empty bucket is left out *)
(* of the count, and would add nothing to the sum.                         *)
MaxBucket(counter0) == LET b == Turn(counter0).buckets IN Max({b[i] : i \in DOMAIN b})
AvgBucket(counter0) ==
    LET b == Turn(counter0).buckets
        used == [i \in DOMAIN b |-> IF b[i] > 0 THEN 1 ELSE 0]
    IN  [sum |-> SumOf(b, bucketNum), count |-> SumOf(used, bucketNum)]

(* maxFlight, maxPass * max(avg, 1) / Second * bucketNum, as a fraction. *)
maxFlight ==
    LET avg == AvgBucket(rtCounter)
        minRt == IF avg.sum > avg.count THEN avg ELSE [sum |-> 1, count |-> 1]
    IN  [num |-> MaxBucket(passCounter) * minRt.sum * bucketNum, den |-> minRt.count * Second]

(* Mutant: as many as maxFlight are already too many. *)
overMaxFlightReached(n) == n * maxFlight.den >= maxFlight.num

(* float64(flying) > maxFlight. *)
overMaxFlight(n) == n * maxFlight.den > maxFlight.num

(* shouldDrop with the n requests it has seen flying: both counters turn.  *)
weigh(n, drop) ==
    /\ drop = overMaxFlight(n)
    /\ passCounter' = Turn(passCounter) /\ rtCounter' = Turn(rtCounter)
    /\ UNCHANGED <<flying, dropTime, droppedRecently>>

(* currentCPU reaches cpuThreshold, or does not. *)
currentCPU == BOOLEAN

(* systemOverloaded, without the CPU: a drop less than a second ago.  Its  *)
(* dropTime is written without a lock: while somebody else writes it, the  *)
(* comparison may come out either way.                                     *)
RecentDrop(racing) ==
    IF ~droppedRecently THEN {FALSE}
    ELSE IF racing THEN BOOLEAN
    ELSE {now - dropTime < Second}

(* The stores of systemOverloaded and of Allow. *)
setDropTime ==
    /\ dropTime' = now
    /\ UNCHANGED <<flying, passCounter, rtCounter, droppedRecently>>

setDroppedRecently(value) ==
    /\ droppedRecently' = value
    /\ UNCHANGED <<flying, passCounter, rtCounter, dropTime>>

takeOff ==
    /\ flying' = flying + 1
    /\ UNCHANGED <<passCounter, rtCounter, dropTime, droppedRecently>>

(* Mutant: the request does not leave. *)
landNever == UNCHANGED shedderVars

(* Pass and Fail. *)
land ==
    /\ flying' = flying - 1
    /\ UNCHANGED <<passCounter, rtCounter, dropTime, droppedRecently>>

addPass ==
    /\ passCounter' = Add(passCounter, 1)
    /\ UNCHANGED <<flying, rtCounter, dropTime, droppedRecently>>

addRt(rt) ==
    /\ rtCounter' = Add(rtCounter, rt)
    /\ UNCHANGED <<flying, passCounter, dropTime, droppedRecently>>
=============================================================================
