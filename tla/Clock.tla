------------------------------- MODULE Clock -------------------------------
(* The time that the guards of a request read with time.Now, in ticks.     *)
EXTENDS Integers, FiniteSetsExt

CONSTANTS
    MaxNow,    \* bound: the model runs up to this time
    Replicas   \* the processes that serve requests

ASSUME ClockConstants == MaxNow \in Nat

VARIABLE now

Times == 0 .. MaxNow

Tick == now < MaxNow /\ now' = now + 1

(* A history counts, for every time, the events up to it; n more of them   *)
(* at t; and the number in an interval, that may begin before 0 or end     *)
(* after MaxNow.                                                           *)
NoEvents == [t \in Times |-> 0]
Counted(history, t, n) == [u \in Times |-> IF u < t THEN history[u] ELSE history[u] + n]
UpTo(history, t) == IF t < 0 THEN 0 ELSE history[IF t < MaxNow THEN t ELSE MaxNow]
Events(history, from, to) == UpTo(history, to) - UpTo(history, from - 1)
=============================================================================
