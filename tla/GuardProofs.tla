----------------------------- MODULE GuardProofs -----------------------------
(***************************************************************************)
(* The windows of PeriodLimiter and the buckets of TokenLimiter: the       *)
(* inductive invariants behind PeriodBounded and TokensBounded, and that   *)
(* the scripts in Redis, the local fallbacks and the clock keep them, for  *)
(* every quota, period, rate, burst and number of replicas; and the        *)
(* rolling window of the breaker: what the buckets hold of the results     *)
(* that were marked, for any number and length of buckets.                 *)
(***************************************************************************)
EXTENDS PeriodLimiter, TokenLimiter, GoogleBreaker, WellFoundedInduction, TLAPS

(***************************************************************************)
(* Histories: what UpTo says of a history that only counts up to n, and of *)
(* one to which k events were added.                                       *)
(***************************************************************************)
Growing(h) == \A u, v \in Int : u <= v => UpTo(h, u) <= UpTo(h, v)
Quiet(h, n) == \A u \in Int : u >= n => UpTo(h, u) = UpTo(h, n)
History(h, n) == h \in [Times -> Nat] /\ Growing(h) /\ Quiet(h, n)

(* What a history has counted up to a time is a natural. *)
LEMMA UpToNat == ASSUME NEW h \in [Times -> Nat] PROVE \A u \in Int : UpTo(h, u) \in Nat
BY ClockConstants DEF ClockConstants, UpTo, Times

(* Counting k at time t raises what is counted from t on by k. *)
LEMMA UpToCounted ==
    ASSUME NEW h \in [Times -> Nat], NEW t \in Times, NEW k \in Nat
    PROVE  /\ Counted(h, t, k) \in [Times -> Nat]
           /\ \A u \in Int : UpTo(Counted(h, t, k), u) = IF u < t THEN UpTo(h, u) ELSE UpTo(h, u) + k
<1>1. Counted(h, t, k) \in [Times -> Nat] BY DEF Counted, Times
<1>2. \A u \in Times : Counted(h, t, k)[u] = IF u < t THEN h[u] ELSE h[u] + k BY DEF Counted
<1> QED BY <1>1, <1>2, ClockConstants DEF ClockConstants, UpTo, Times

(* A history stays one when something is counted now or earlier. *)
LEMMA HistoryCounted ==
    ASSUME NEW n \in Times, NEW h, History(h, n), NEW t \in Times, t <= n, NEW k \in Nat
    PROVE  History(Counted(h, t, k), n)
<1> DEFINE g == Counted(h, t, k)
<1>1. h \in [Times -> Nat] /\ Growing(h) /\ Quiet(h, n) BY DEF History
<1>2. /\ g \in [Times -> Nat]
      /\ \A u \in Int : UpTo(g, u) = IF u < t THEN UpTo(h, u) ELSE UpTo(h, u) + k
  BY Zenon, <1>1, UpToCounted
<1>3. \A u \in Int : UpTo(h, u) \in Nat BY <1>1, UpToNat
<1> HIDE DEF g
<1>4. ASSUME NEW u \in Int, NEW v \in Int, u <= v PROVE UpTo(g, u) <= UpTo(g, v)
  <2>1. UpTo(h, u) <= UpTo(h, v) BY <1>1, <1>4 DEF Growing
  <2>2. UpTo(h, u) \in Nat /\ UpTo(h, v) \in Nat BY <1>3
  <2>3. UpTo(g, u) = IF u < t THEN UpTo(h, u) ELSE UpTo(h, u) + k BY <1>2
  <2>4. UpTo(g, v) = IF v < t THEN UpTo(h, v) ELSE UpTo(h, v) + k BY <1>2
  <2>5. t \in Int BY DEF Times
  <2> QED BY <1>4, <2>1, <2>2, <2>3, <2>4, <2>5
<1>5. Quiet(g, n) BY <1>1, <1>2, <1>3 DEF Quiet, Times
<1>6. Growing(g) BY <1>4 DEF Growing
<1> QED BY <1>2, <1>5, <1>6 DEF History, g

(* Nothing has been counted in the time to come. *)
LEMMA HistoryTicks ==
    ASSUME NEW n \in Nat, NEW h, History(h, n)
    PROVE  History(h, n + 1) /\ UpTo(h, n + 1) = UpTo(h, n)
BY DEF History, Quiet

(* The history of nothing. *)
LEMMA HistoryBegins ==
    History(NoEvents, 0) /\ \A u \in Int : UpTo(NoEvents, u) = 0
<1>1. NoEvents \in [Times -> Nat] BY DEF NoEvents
<1>2. \A u \in Int : UpTo(NoEvents, u) = 0 BY ClockConstants DEF ClockConstants, NoEvents, UpTo, Times
<1> QED BY <1>1, <1>2 DEF History, Growing, Quiet

(* The greater of two. *)
LEMMA MaxOfTwo ==
    ASSUME NEW a \in Int, NEW b \in Int
    PROVE  Max({a, b}) = IF a > b THEN a ELSE b
BY DEF Max

(* The lesser of two. *)
LEMMA MinOfTwo ==
    ASSUME NEW a \in Int, NEW b \in Int
    PROVE  Min({a, b}) = IF a < b THEN a ELSE b
BY DEF Min
-----------------------------------------------------------------------------
(***************************************************************************)
(* PeriodLimiter.  A window ends at end and begins period before           *)
(* expireAt.  In it at most Q requests pass, and at most Q have passed     *)
(* since one period before it; between windows at most Q have passed in    *)
(* the last period.                                                        *)
(***************************************************************************)
Between(h, Q, n) ==
    /\ UpTo(h, n) = UpTo(h, n - 1)
    /\ \A t \in Int : t > n - period => Events(h, t, n) <= Q

Within(h, c, Q, end, n) ==
    /\ c.count \in Nat /\ c.expireAt \in Nat /\ end \in Int
    /\ c.expireAt - period <= n /\ c.expireAt - 1 <= end
    /\ Quiet(h, end)
    /\ Events(h, c.expireAt - period, n) <= Q
    /\ Events(h, c.expireAt - period, n) <= c.count
    /\ \A t \in Int : t > c.expireAt - 2 * period => Events(h, t, c.expireAt - period - 1) <= Q

TwoWindows(h, Q) == \A t \in Int : Events(h, t, t + period - 1) <= 2 * Q

Adds(h, g, n, k) == \A u \in Int : UpTo(g, u) = IF u < n THEN UpTo(h, u) ELSE UpTo(h, u) + k

(* When a window is over the counter is between windows. *)
LEMMA WindowExpires ==
    ASSUME NEW n \in Times, NEW h, History(h, n), NEW Q \in Nat, NEW c, NEW end,
           Within(h, c, Q, end, n), end < n
    PROVE  Between(h, Q, n)
<1> DEFINE s == c.expireAt - period
<1>1. period \in Nat \ {0} /\ s \in Int /\ end \in Int /\ n \in Nat /\ s + period - 1 <= end
  BY PeriodConstants DEF PeriodConstants, Within, Times
<1>2. \A u \in Int : UpTo(h, u) \in Nat BY UpToNat DEF History
<1>3. UpTo(h, n) = UpTo(h, n - 1) BY <1>1 DEF Within, Quiet
<1>4. UpTo(h, n) - UpTo(h, s - 1) <= Q BY DEF Within, Events
<1> HIDE DEF s
<1>5. ASSUME NEW t \in Int, t > n - period PROVE UpTo(h, n) - UpTo(h, t - 1) <= Q
  <2>1. s - 1 <= t - 1 BY <1>1, <1>5
  <2>2. UpTo(h, s - 1) <= UpTo(h, t - 1) BY <1>1, <2>1 DEF History, Growing
  <2>3. UpTo(h, s - 1) \in Nat /\ UpTo(h, t - 1) \in Nat /\ UpTo(h, n) \in Nat BY <1>1, <1>2
  <2> QED BY <1>4, <2>2, <2>3
<1> QED BY <1>3, <1>5 DEF Between, Events

(* The first request after a window opens one. *)
LEMMA WindowOpens ==
    ASSUME NEW n \in Times, NEW h, History(h, n), NEW Q \in Nat, Between(h, Q, n), TwoWindows(h, Q),
           NEW g, NEW k \in {0, 1}, k <= Q, Adds(h, g, n, k),
           NEW end \in {n + period - 1, n + period}
    PROVE  Within(g, [count |-> 1, expireAt |-> n + period], Q, end, n) /\ TwoWindows(g, Q)
<1>1. period \in Nat \ {0} /\ n \in Nat /\ end \in Int
  BY PeriodConstants DEF PeriodConstants, Times
<1>2. \A u \in Int : UpTo(h, u) \in Nat BY UpToNat DEF History
<1>3. \A u \in Int : UpTo(g, u) = IF u < n THEN UpTo(h, u) ELSE UpTo(h, u) + k BY DEF Adds
<1>4. \A u, v \in Int : u <= v => UpTo(h, u) <= UpTo(h, v) BY DEF History, Growing
<1>5. \A u \in Int : u >= n => UpTo(h, u) = UpTo(h, n) BY DEF History, Quiet
<1>6. UpTo(h, n) = UpTo(h, n - 1) BY DEF Between
<1>7. \A t \in Int : t > n - period => UpTo(h, n) - UpTo(h, t - 1) <= Q BY DEF Between, Events
<1>8. Quiet(g, end) BY <1>1, <1>2, <1>3, <1>5 DEF Quiet
<1>9. UpTo(g, n) - UpTo(g, n - 1) = k BY <1>1, <1>2, <1>3, <1>6
<1>10. ASSUME NEW t \in Int, t > n - period PROVE UpTo(g, n - 1) - UpTo(g, t - 1) <= Q
  <2>1. CASE t <= n BY <1>1, <1>2, <1>3, <1>6, <1>7, <1>10, <2>1
  <2>2. CASE t > n
    <3>1. UpTo(h, n - 1) <= UpTo(h, t - 1) BY <1>1, <1>4, <2>2
    <3> QED BY <1>1, <1>2, <1>3, <2>2, <3>1
  <2> QED BY <1>1, <2>1, <2>2
<1>11. ASSUME NEW t \in Int PROVE UpTo(g, t + period - 1) - UpTo(g, t - 1) <= 2 * Q
  <2>1. UpTo(h, t + period - 1) - UpTo(h, t - 1) <= 2 * Q BY DEF TwoWindows, Events
  <2>2. CASE n > t + period - 1 \/ n < t BY <1>1, <1>2, <1>3, <2>1, <2>2
  <2>3. CASE t <= n /\ n <= t + period - 1
    <3>1. UpTo(g, t + period - 1) = UpTo(h, n) + k BY <1>1, <1>3, <1>5, <2>3
    <3>2. UpTo(g, t - 1) = UpTo(h, t - 1) BY <1>1, <1>3, <2>3
    <3>3. UpTo(h, n) - UpTo(h, t - 1) <= Q BY <1>1, <1>7, <2>3
    <3>4. UpTo(h, n) \in Nat /\ UpTo(h, t - 1) \in Nat BY <1>1, <1>2
    <3> QED BY <3>1, <3>2, <3>3, <3>4
  <2> QED BY <1>1, <2>2, <2>3
<1>12. TwoWindows(g, Q) BY <1>11 DEF TwoWindows, Events
<1> DEFINE c == [count |-> 1, expireAt |-> n + period]
<1>13. c.count = 1 /\ c.expireAt = n + period /\ c.expireAt - period = n /\ c.expireAt - 2 * period = n - period
  BY <1>1
<1> HIDE DEF c
<1>14. Within(g, c, Q, end, n)
  BY <1>1, <1>8, <1>9, <1>10, <1>13 DEF Within, Events
<1> QED BY <1>12, <1>14 DEF c

(* One request more in a window that goes on: it is let through only as    *)
(* long as the count, this one included, is at most Q.                     *)
LEMMA WindowGoesOn ==
    ASSUME NEW n \in Times, NEW h, History(h, n), NEW Q \in Nat, NEW c, NEW end,
           Within(h, c, Q, end, n), n <= end, TwoWindows(h, Q),
           NEW g, NEW k \in {0, 1}, k = 1 => c.count + 1 <= Q, Adds(h, g, n, k)
    PROVE  /\ Within(g, [count |-> c.count + 1, expireAt |-> c.expireAt], Q, end, n)
           /\ TwoWindows(g, Q)
<1> DEFINE s == c.expireAt - period
<1>1. /\ period \in Nat \ {0} /\ n \in Nat /\ end \in Int /\ s \in Int /\ s <= n
      /\ c.expireAt - 1 <= end /\ c.count \in Nat /\ c.expireAt \in Nat
      /\ c.expireAt - 2 * period = s - period
  BY PeriodConstants DEF PeriodConstants, Times, Within
<1>2. \A u \in Int : UpTo(h, u) \in Nat BY UpToNat DEF History
<1>3. \A u \in Int : UpTo(g, u) = IF u < n THEN UpTo(h, u) ELSE UpTo(h, u) + k BY DEF Adds
<1>4. \A u, v \in Int : u <= v => UpTo(h, u) <= UpTo(h, v) BY DEF History, Growing
<1>5. \A u \in Int : u >= n => UpTo(h, u) = UpTo(h, n) BY DEF History, Quiet
<1>6. UpTo(h, n) - UpTo(h, s - 1) <= Q /\ UpTo(h, n) - UpTo(h, s - 1) <= c.count
  BY DEF Within, Events
<1>7. \A t \in Int : t > s - period => UpTo(h, s - 1) - UpTo(h, t - 1) <= Q
  BY <1>1 DEF Within, Events
<1> HIDE DEF s
<1>8. Quiet(g, end) BY <1>1, <1>2, <1>3, <1>5 DEF Quiet
<1>9. UpTo(g, s - 1) = UpTo(h, s - 1) /\ UpTo(g, n) = UpTo(h, n) + k BY <1>1, <1>3
<1>10. UpTo(h, n) \in Nat /\ UpTo(h, s - 1) \in Nat BY <1>1, <1>2
<1>11. UpTo(g, n) - UpTo(g, s - 1) <= Q /\ UpTo(g, n) - UpTo(g, s - 1) <= c.count + 1
  BY <1>1, <1>6, <1>9, <1>10
<1>12. ASSUME NEW t \in Int, t > s - period PROVE UpTo(g, s - 1) - UpTo(g, t - 1) <= Q
  <2>1. UpTo(h, s - 1) - UpTo(h, t - 1) <= Q BY <1>7, <1>12
  <2>2. UpTo(h, t - 1) \in Nat /\ (UpTo(g, t - 1) = UpTo(h, t - 1) \/ UpTo(g, t - 1) = UpTo(h, t - 1) + k)
    BY <1>2, <1>3
  <2> QED BY <1>9, <1>10, <2>1, <2>2
<1>13. ASSUME NEW t \in Int PROVE UpTo(g, t + period - 1) - UpTo(g, t - 1) <= 2 * Q
  <2>1. UpTo(h, t + period - 1) - UpTo(h, t - 1) <= 2 * Q BY DEF TwoWindows, Events
  <2>2. CASE n > t + period - 1 \/ n < t BY <1>1, <1>2, <1>3, <2>1, <2>2
  <2>3. CASE t <= n /\ n <= t + period - 1
    <3>1. UpTo(g, t + period - 1) = UpTo(h, n) + k BY <1>1, <1>3, <1>5, <2>3
    <3>2. UpTo(g, t - 1) = UpTo(h, t - 1) BY <1>1, <1>3, <2>3
    <3>3. (UpTo(h, n) + k) - UpTo(h, s - 1) <= Q BY <1>9, <1>10, <1>11
    <3>4. UpTo(h, t - 1) \in Nat BY <1>2
    <3>5. CASE t <= s
      <4>1. t > s - period BY <1>1, <2>3
      <4>2. UpTo(h, s - 1) - UpTo(h, t - 1) <= Q BY <1>7, <4>1
      <4> QED BY <1>10, <3>1, <3>2, <3>3, <3>4, <4>2
    <3>6. CASE t > s
      <4>1. UpTo(h, s - 1) <= UpTo(h, t - 1) BY <1>1, <1>4, <3>6
      <4> QED BY <1>10, <3>1, <3>2, <3>3, <3>4, <4>1
    <3> QED BY <1>1, <3>5, <3>6
  <2> QED BY <1>1, <2>2, <2>3
<1>14. TwoWindows(g, Q) BY <1>13 DEF TwoWindows, Events
<1> DEFINE d == [count |-> c.count + 1, expireAt |-> c.expireAt]
<1>15. d.count = c.count + 1 /\ d.expireAt = c.expireAt OBVIOUS
<1> HIDE DEF d
<1>16. Within(g, d, Q, end, n)
  BY <1>1, <1>8, <1>11, <1>12, <1>15 DEF Within, Events, s
<1> QED BY <1>14, <1>16 DEF d

(* Time passing keeps what is known of a window. *)
LEMMA WindowTicks ==
    ASSUME NEW n \in Nat, NEW h, History(h, n), NEW Q \in Nat
    PROVE  /\ Between(h, Q, n) => Between(h, Q, n + 1)
           /\ \A c, end : Within(h, c, Q, end, n) => Within(h, c, Q, end, n + 1)
<1>1. UpTo(h, n + 1) = UpTo(h, n) /\ (n + 1) - 1 = n BY HistoryTicks
<1>2. period \in Nat \ {0} BY PeriodConstants DEF PeriodConstants
<1>3. Between(h, Q, n) => Between(h, Q, n + 1) BY <1>1, <1>2 DEF Between, Events
<1>4. ASSUME NEW c, NEW end, Within(h, c, Q, end, n) PROVE Within(h, c, Q, end, n + 1)
  <2>1. Events(h, c.expireAt - period, n + 1) = Events(h, c.expireAt - period, n) BY <1>1 DEF Events
  <2>2. c.expireAt \in Nat /\ c.expireAt - period <= n + 1 BY <1>2, <1>4 DEF Within
  <2> QED BY <1>4, <2>1, <2>2 DEF Within
<1> QED BY <1>3, <1>4

(* What counting one request, or none, adds to a history. *)
LEMMA AddsCounted ==
    ASSUME NEW n \in Times, NEW h \in [Times -> Nat]
    PROVE  Adds(h, Counted(h, n, 1), n, 1) /\ Adds(h, h, n, 0)
<1>1. Adds(h, Counted(h, n, 1), n, 1) BY UpToCounted DEF Adds
<1>2. Adds(h, h, n, 0) BY UpToNat DEF Adds
<1> QED BY <1>1, <1>2

CounterInv(h, c, Q, end, n) ==
    /\ History(h, n) /\ TwoWindows(h, Q)
    /\ c.count = 0 => Between(h, Q, n)
    /\ c.count # 0 => Within(h, c, Q, end, n)

(* In a live window of Redis everything has passed that the quota allows.  *)
Exact(h, c, n) ==
    c.count # 0 => Events(h, c.expireAt - period, n) >= (IF c.count < quota THEN c.count ELSE quota)

localQuota == Max({quota, 1})

(* The quota of the local limiter is at least 1, and that of Redis where   *)
(* this is positive.                                                       *)
LEMMA LocalQuota == localQuota \in Nat \ {0} /\ localQuota >= quota /\ (quota > 0 => localQuota = quota)
BY MaxOfTwo, PeriodConstants DEF PeriodConstants, localQuota

(* The inductive invariant of PeriodLimiter.                               *)
PeriodInv ==
    /\ now \in Times /\ PeriodTypeOK
    /\ CounterInv(passed, counter, quota, counter.expireAt - 1, now)
    /\ Exact(passed, counter, now)
    /\ \A r \in Replicas :
          CounterInv(localPassed[r], localCount[r], localQuota, localCount[r].expireAt, now)

(* A request that opens a window, or that finds one.                       *)
LEMMA CounterOpens ==
    ASSUME NEW n \in Times, NEW h, NEW Q \in Nat, NEW c, NEW end, CounterInv(h, c, Q, end, n),
           end < n \/ c.count = 0, NEW k \in {0, 1}, k <= Q, NEW g, Adds(h, g, n, k), History(g, n),
           NEW end2 \in {n + period - 1, n + period}
    PROVE  /\ CounterInv(g, [count |-> 1, expireAt |-> n + period], Q, end2, n)
           /\ Between(h, Q, n)
<1> DEFINE d == [count |-> 1, expireAt |-> n + period]
<1>1. Between(h, Q, n) BY WindowExpires DEF CounterInv
<1>2. Within(g, d, Q, end2, n) /\ TwoWindows(g, Q) BY <1>1, WindowOpens DEF CounterInv
<1>3. d.count # 0 OBVIOUS
<1> HIDE DEF d
<1>4. CounterInv(g, d, Q, end2, n) BY <1>2, <1>3 DEF CounterInv
<1> QED BY <1>1, <1>4 DEF d

(* A request within a window is counted, and passes only within the quota. *)
LEMMA CounterGoesOn ==
    ASSUME NEW n \in Times, NEW h, NEW Q \in Nat, NEW c, NEW end, CounterInv(h, c, Q, end, n),
           n <= end, c.count # 0, NEW k \in {0, 1}, k = 1 => c.count + 1 <= Q,
           NEW g, Adds(h, g, n, k), History(g, n)
    PROVE  CounterInv(g, [count |-> c.count + 1, expireAt |-> c.expireAt], Q, end, n)
<1> DEFINE d == [count |-> c.count + 1, expireAt |-> c.expireAt]
<1>1. Within(h, c, Q, end, n) /\ History(h, n) /\ TwoWindows(h, Q) BY DEF CounterInv
<1>2. Within(g, d, Q, end, n) /\ TwoWindows(g, Q) BY <1>1, WindowGoesOn
<1>3. d.count # 0 BY <1>1 DEF Within
<1> HIDE DEF d
<1>4. CounterInv(g, d, Q, end, n) BY <1>2, <1>3 DEF CounterInv
<1> QED BY <1>4 DEF d

(* The script of the period limiter keeps the invariant, and refuses only  *)
(* when the quota has passed.                                              *)
LEMMA PeriodScriptKeeps ==
    ASSUME PeriodInv, NEW allowed \in BOOLEAN, PeriodScript(allowed), now' = now
    PROVE  /\ PeriodInv'
           /\ ~allowed => Events(passed, now - period + 1, now) >= quota
<1> DEFINE k == IF allowed THEN 1 ELSE 0
           e == counter.expireAt
           m == counter.count
           current == (IF now < e THEN m ELSE 0) + 1
           s == e - period
<1>1. /\ now \in Times /\ now \in Nat /\ passed \in [Times -> Nat] /\ period \in Nat \ {0} /\ quota \in Nat
      /\ counter \in Counters /\ m \in Nat /\ e \in Nat
      /\ CounterInv(passed, counter, quota, e - 1, now) /\ Exact(passed, counter, now)
  BY PeriodConstants DEF PeriodConstants, PeriodInv, PeriodTypeOK, Counters, Times
<1>2. /\ counter' = [count |-> current, expireAt |-> IF current = 1 THEN now + period ELSE e]
      /\ allowed <=> current <= quota
      /\ passed' = IF allowed THEN Counted(passed, now, 1) ELSE passed
      /\ UNCHANGED <<localCount, localPassed>>
  BY Zenon DEF PeriodScript
<1>3. k \in {0, 1} /\ (k = 1 <=> allowed) OBVIOUS
<1>4. Adds(passed, passed', now, k) /\ History(passed', now)
  BY <1>1, <1>2, AddsCounted, HistoryCounted DEF CounterInv
<1>5. \A u \in Int : UpTo(passed, u) \in Nat BY <1>1, UpToNat
<1>6. \A u \in Int : UpTo(passed', u) = IF u < now THEN UpTo(passed, u) ELSE UpTo(passed, u) + k
  BY <1>4 DEF Adds
<1>7. \A u, v \in Int : u <= v => UpTo(passed, u) <= UpTo(passed, v)
  BY <1>1 DEF CounterInv, History, Growing
<1>8. counter' \in Counters /\ current \in Nat \ {0} BY <1>1, <1>2 DEF Counters
<1> HIDE DEF k, e, m, current, s
<1> DEFINE Kept == /\ CounterInv(passed', counter', quota, counter'.expireAt - 1, now)
                   /\ Exact(passed', counter', now)
                   /\ ~allowed => Events(passed, now - period + 1, now) >= quota
<1>9. ASSUME ~(now < e) \/ m = 0 PROVE Kept
  <2>1. current = 1 /\ e - 1 \in Int /\ (e - 1 < now \/ m = 0) BY <1>1, <1>9 DEF current
  <2>2. counter' = [count |-> 1, expireAt |-> now + period] /\ (allowed <=> 1 <= quota) BY <1>2, <2>1
  <2>3. k <= quota BY <1>1, <1>3, <2>2
  <2>4. /\ CounterInv(passed', [count |-> 1, expireAt |-> now + period], quota, now + period - 1, now)
        /\ Between(passed, quota, now)
    BY <1>1, <1>3, <1>4, <2>1, <2>3, CounterOpens DEF m
  <2>5. counter'.expireAt = now + period /\ counter'.count = 1 BY <2>2
  <2>9. counter'.expireAt - 1 = now + period - 1 BY <1>1, <2>5
  <2>6. CounterInv(passed', counter', quota, counter'.expireAt - 1, now) BY <2>2, <2>4, <2>9, Zenon
  <2>7. Exact(passed', counter', now)
    <3>1. UpTo(passed, now) = UpTo(passed, now - 1) /\ UpTo(passed, now) \in Nat BY <1>1, <1>5, <2>4 DEF Between
    <3>2. UpTo(passed', now) = UpTo(passed, now) + k /\ UpTo(passed', now - 1) = UpTo(passed, now - 1)
      BY <1>1, <1>6
    <3>3. UpTo(passed', now) - UpTo(passed', now - 1) = k BY <1>3, <3>1, <3>2
    <3>4. k >= (IF 1 < quota THEN 1 ELSE quota) BY <1>1, <1>3, <2>2
    <3>5. counter'.expireAt - period = now BY <1>1, <2>5
    <3> QED BY <2>5, <3>3, <3>4, <3>5 DEF Exact, Events
  <2>8. ~allowed => Events(passed, now - period + 1, now) >= quota
    <3>1. UpTo(passed, (now - period + 1) - 1) <= UpTo(passed, now) BY <1>1, <1>7
    <3>2. UpTo(passed, (now - period + 1) - 1) \in Nat /\ UpTo(passed, now) \in Nat BY <1>1, <1>5
    <3>3. ~allowed => quota = 0 BY <1>1, <2>2
    <3> QED BY <3>1, <3>2, <3>3 DEF Events
  <2> QED BY <2>6, <2>7, <2>8
<1>10. ASSUME now < e, m # 0 PROVE Kept
  <2>1. current = m + 1 /\ current # 1 BY <1>1, <1>10 DEF current
  <2>2. counter' = [count |-> m + 1, expireAt |-> e] /\ (allowed <=> m + 1 <= quota) BY <1>2, <2>1
  <2>3. k = 1 => m + 1 <= quota BY <1>3, <2>2
  <2>4. now <= e - 1 BY <1>1, <1>10
  <2>5. CounterInv(passed', [count |-> m + 1, expireAt |-> e], quota, e - 1, now)
    BY <1>1, <1>3, <1>4, <1>10, <2>3, <2>4, CounterGoesOn DEF m, e
  <2>6. counter'.expireAt = e /\ counter'.count = m + 1 BY <2>2
  <2>7. CounterInv(passed', counter', quota, counter'.expireAt - 1, now) BY <2>2, <2>5, <2>6
  <2>8. s \in Int /\ s <= now /\ now - period + 1 <= s BY <1>1, <1>10 DEF s, e, m, CounterInv, Within
  <2>9. UpTo(passed, now) - UpTo(passed, s - 1) >= (IF m < quota THEN m ELSE quota)
    BY <1>1, <1>10 DEF Exact, Events, s, e, m
  <2>10. UpTo(passed, now) \in Nat /\ UpTo(passed, s - 1) \in Nat BY <1>1, <1>5, <2>8
  <2>11. Exact(passed', counter', now)
    <3>1. UpTo(passed', now) = UpTo(passed, now) + k /\ UpTo(passed', s - 1) = UpTo(passed, s - 1)
      BY <1>1, <1>6, <2>8
    <3>2. UpTo(passed', now) - UpTo(passed', s - 1) >= (IF m + 1 < quota THEN m + 1 ELSE quota)
      BY <1>1, <1>3, <2>2, <2>9, <2>10, <3>1
    <3> QED BY <2>6, <3>2 DEF Exact, Events, s
  <2>12. ~allowed => Events(passed, now - period + 1, now) >= quota
    <3>1. (now - period + 1) - 1 \in Int /\ (now - period + 1) - 1 <= s - 1 BY <1>1, <2>8
    <3>2. UpTo(passed, (now - period + 1) - 1) <= UpTo(passed, s - 1) BY <1>7, <2>8, <3>1
    <3>3. UpTo(passed, (now - period + 1) - 1) \in Nat BY <1>5, <3>1
    <3>4. ~allowed => UpTo(passed, now) - UpTo(passed, s - 1) >= quota BY <1>1, <2>2, <2>9
    <3> QED BY <1>1, <2>10, <3>2, <3>3, <3>4 DEF Events
  <2> QED BY <2>7, <2>11, <2>12
<1>11. PeriodTypeOK'
  BY <1>2, <1>4, <1>8 DEF PeriodInv, PeriodTypeOK, History
<1>12. Kept BY <1>9, <1>10
<1> QED BY <1>1, <1>2, <1>11, <1>12 DEF PeriodInv

(* The local period limiter keeps the invariant. *)
LEMMA LocalTakeKeeps ==
    ASSUME PeriodInv, NEW q \in Replicas, NEW allowed \in BOOLEAN, localTake(q, allowed), now' = now
    PROVE  PeriodInv'
<1> DEFINE k == IF allowed THEN 1 ELSE 0
           c == localCount[q]
           h == localPassed[q]
           g == localPassed'[q]
           d == localCount'[q]
           fresh == c.count = 0 \/ now > c.expireAt
<1>1. /\ now \in Times /\ now \in Nat /\ h \in [Times -> Nat] /\ period \in Nat \ {0} /\ quota \in Nat
      /\ localPassed \in [Replicas -> [Times -> Nat]] /\ localCount \in [Replicas -> Counters]
      /\ c \in Counters /\ c.count \in Nat /\ c.expireAt \in Nat
      /\ CounterInv(h, c, localQuota, c.expireAt, now)
  BY PeriodConstants DEF PeriodConstants, PeriodInv, PeriodTypeOK, Counters, Times
<1>2. /\ localCount' = [localCount EXCEPT ![q] = IF fresh THEN [count |-> 1, expireAt |-> now + period]
                                                 ELSE [count |-> c.count + 1, expireAt |-> c.expireAt]]
      /\ allowed <=> (fresh \/ c.count + 1 <= quota)
      /\ localPassed' = IF allowed THEN [localPassed EXCEPT ![q] = Counted(h, now, 1)] ELSE localPassed
      /\ UNCHANGED <<counter, passed>>
  BY Zenon DEF localTake
<1>3. k \in {0, 1} /\ (k = 1 <=> allowed) OBVIOUS
<1>4. /\ d = IF fresh THEN [count |-> 1, expireAt |-> now + period]
             ELSE [count |-> c.count + 1, expireAt |-> c.expireAt]
      /\ g = IF allowed THEN Counted(h, now, 1) ELSE h
  BY <1>1, <1>2
<1>5. Adds(h, g, now, k) /\ History(g, now)
  <2>1. Adds(h, Counted(h, now, 1), now, 1) /\ Adds(h, h, now, 0) BY <1>1, AddsCounted
  <2>2. History(h, now) BY <1>1 DEF CounterInv
  <2>3. History(Counted(h, now, 1), now) BY <1>1, <2>2, HistoryCounted
  <2> QED BY <1>4, <2>1, <2>2, <2>3
<1>6. d \in Counters BY <1>1, <1>4 DEF Counters
<1>7. \A p \in Replicas \ {q} : localCount'[p] = localCount[p] /\ localPassed'[p] = localPassed[p]
  BY <1>1, <1>2
<1>8. localCount' \in [Replicas -> Counters] BY <1>1, <1>2 DEF Counters
<1>9. localPassed' \in [Replicas -> [Times -> Nat]] BY <1>1, <1>2, UpToCounted
<1>10. localQuota \in Nat \ {0} /\ localQuota >= quota BY LocalQuota
<1> HIDE DEF k, c, h, g, d
<1>11. ASSUME fresh PROVE CounterInv(g, d, localQuota, d.expireAt, now)
  <2>1. d = [count |-> 1, expireAt |-> now + period] BY <1>4, <1>11
  <2>2. c.expireAt < now \/ c.count = 0 BY <1>1, <1>11
  <2>3. k <= localQuota BY <1>3, <1>10
  <2>4. CounterInv(g, [count |-> 1, expireAt |-> now + period], localQuota, now + period, now)
    BY <1>1, <1>3, <1>5, <1>10, <2>2, <2>3, CounterOpens
  <2>5. d.expireAt = now + period BY <2>1
  <2> QED BY <2>1, <2>4, <2>5, Zenon
<1>12. ASSUME ~fresh PROVE CounterInv(g, d, localQuota, d.expireAt, now)
  <2>1. d = [count |-> c.count + 1, expireAt |-> c.expireAt] BY <1>4, <1>12
  <2>2. now <= c.expireAt /\ c.count # 0 BY <1>1, <1>12
  <2>3. k = 1 => c.count + 1 <= localQuota BY <1>1, <1>2, <1>3, <1>10, <1>12
  <2>4. CounterInv(g, [count |-> c.count + 1, expireAt |-> c.expireAt], localQuota, c.expireAt, now)
    BY <1>1, <1>3, <1>5, <1>10, <2>2, <2>3, CounterGoesOn
  <2>5. d.expireAt = c.expireAt BY <2>1
  <2> QED BY <2>1, <2>4, <2>5, Zenon
<1>13. CounterInv(g, d, localQuota, d.expireAt, now) BY <1>11, <1>12
<1>14. \A p \in Replicas :
          CounterInv(localPassed'[p], localCount'[p], localQuota, localCount'[p].expireAt, now)
  BY <1>7, <1>13, Zenon DEF PeriodInv, g, d
<1>15. PeriodTypeOK' BY <1>2, <1>8, <1>9 DEF PeriodInv, PeriodTypeOK
<1> QED BY <1>1, <1>2, <1>14, <1>15 DEF PeriodInv

(* cleanup removes only counters whose window is over. *)
LEMMA CleanupKeeps ==
    ASSUME PeriodInv, NEW q \in Replicas, cleanup(q), now' = now
    PROVE  PeriodInv'
<1>1. /\ now \in Times /\ now \in Nat
      /\ localCount \in [Replicas -> Counters] /\ localCount[q].expireAt \in Nat
  BY DEF PeriodInv, PeriodTypeOK, Counters, Times
<1>2. /\ localCount[q].count # 0 /\ now > localCount[q].expireAt
      /\ localCount' = [localCount EXCEPT ![q] = Absent]
      /\ UNCHANGED <<counter, passed, localPassed>>
  BY DEF cleanup
<1>3. CounterInv(localPassed[q], localCount[q], localQuota, localCount[q].expireAt, now)
  BY DEF PeriodInv
<1>4. History(localPassed[q], now) /\ TwoWindows(localPassed[q], localQuota) BY <1>3 DEF CounterInv
<1>5. Between(localPassed[q], localQuota, now)
  BY <1>1, <1>2, <1>3, <1>4, LocalQuota, WindowExpires DEF CounterInv
<1>6. Absent \in Counters /\ Absent.count = 0 /\ Absent.expireAt = 0 BY DEF Absent, Counters
<1>7. CounterInv(localPassed[q], Absent, localQuota, Absent.expireAt, now)
  BY <1>4, <1>5, <1>6 DEF CounterInv
<1>8. localCount' \in [Replicas -> Counters] /\ localCount'[q] = Absent
      /\ \A p \in Replicas \ {q} : localCount'[p] = localCount[p]
  BY <1>1, <1>2, <1>6
<1>9. \A p \in Replicas :
          CounterInv(localPassed[p], localCount'[p], localQuota, localCount'[p].expireAt, now)
  BY <1>7, <1>8, Zenon DEF PeriodInv
<1>10. PeriodTypeOK' BY <1>2, <1>8 DEF PeriodInv, PeriodTypeOK
<1> QED BY <1>1, <1>2, <1>9, <1>10 DEF PeriodInv

(* Time passing keeps the invariant of the period limiter. *)
LEMMA PeriodTicks ==
    ASSUME PeriodInv, Tick, UNCHANGED periodVars
    PROVE  PeriodInv'
<1>1. now \in Nat /\ now' = now + 1 /\ now' \in Times
  BY ClockConstants DEF ClockConstants, PeriodInv, Tick, Times
<1>2. ASSUME NEW h, NEW c, NEW Q \in Nat, NEW end, CounterInv(h, c, Q, end, now)
      PROVE  CounterInv(h, c, Q, end, now + 1) /\ UpTo(h, now + 1) = UpTo(h, now)
  <2>1. History(h, now) BY <1>2 DEF CounterInv
  <2>2. History(h, now + 1) /\ UpTo(h, now + 1) = UpTo(h, now) BY <1>1, <2>1, HistoryTicks
  <2>3. Between(h, Q, now) => Between(h, Q, now + 1) BY <1>1, <2>1, WindowTicks
  <2>4. Within(h, c, Q, end, now) => Within(h, c, Q, end, now + 1) BY <1>1, <2>1, WindowTicks
  <2> QED BY <1>2, <2>2, <2>3, <2>4 DEF CounterInv
<1>3. CounterInv(passed, counter, quota, counter.expireAt - 1, now + 1) /\ UpTo(passed, now + 1) = UpTo(passed, now)
  BY <1>2, PeriodConstants DEF PeriodConstants, PeriodInv
<1>4. \A r \in Replicas :
          CounterInv(localPassed[r], localCount[r], localQuota, localCount[r].expireAt, now + 1)
  BY <1>2, LocalQuota DEF PeriodInv
<1>5. Exact(passed, counter, now + 1) BY <1>3 DEF PeriodInv, Exact, Events
<1>6. UNCHANGED <<counter, localCount, passed, localPassed>> BY DEF periodVars
<1>7. PeriodTypeOK' BY <1>6 DEF PeriodInv, PeriodTypeOK
<1> QED BY <1>1, <1>3, <1>4, <1>5, <1>6, <1>7 DEF PeriodInv

(* A step elsewhere keeps the invariant of the period limiter. *)
LEMMA PeriodStays ==
    ASSUME PeriodInv, UNCHANGED <<now, periodVars>>
    PROVE  PeriodInv'
BY DEF PeriodInv, PeriodTypeOK, periodVars

(* A new period limiter. *)
LEMMA PeriodBegins ==
    ASSUME NewPeriodLimiter, now = 0
    PROVE  PeriodInv
<1>1. 0 \in Times /\ quota \in Nat /\ localQuota \in Nat /\ period \in Nat \ {0}
  BY PeriodConstants, ClockConstants, LocalQuota DEF PeriodConstants, ClockConstants, Times
<1>2. Absent \in Counters /\ Absent.count = 0 BY DEF Absent, Counters
<1>3. History(NoEvents, 0) /\ \A u \in Int : UpTo(NoEvents, u) = 0 BY HistoryBegins
<1>4. ASSUME NEW Q \in Nat, NEW end PROVE CounterInv(NoEvents, Absent, Q, end, 0)
  BY <1>1, <1>2, <1>3 DEF CounterInv, TwoWindows, Between, Events
<1>5. PeriodTypeOK BY <1>2, <1>3 DEF PeriodTypeOK, NewPeriodLimiter, History
<1> QED BY <1>1, <1>2, <1>4, <1>5 DEF PeriodInv, NewPeriodLimiter, Exact
-----------------------------------------------------------------------------
(***************************************************************************)
(* TokenLimiter.  What a bucket with T tokens at time L has given out from *)
(* s on, and what it would have held at s without that, is together no     *)
(* more than burst: for every s, also for times before L.                  *)
(***************************************************************************)
R(d) == d * rate
Capped(a) == IF a < burst THEN a ELSE burst

Spent(h, T, L) ==
    \A s \in Int : (UpTo(h, MaxNow) - UpTo(h, s - 1)) + Capped(T + R(s - L)) <= burst

Bounded(h) == \A s, u \in Int : s <= u => Events(h, s, u) <= burst + R(u - s)

BucketInv(h, T, L) == History(h, MaxNow) /\ Spent(h, T, L) /\ Bounded(h)

(* The tokens that a span of time brings add up along the clock.           *)
LEMMA RateTriangle == \A a, b, c \in Int : R(a - c) = R(a - b) + R(b - c)
<1>1. rate \in Nat BY TokenConstants DEF TokenConstants
<1>2. ASSUME NEW a \in Int, NEW b \in Int, NEW c \in Int PROVE R(a - c) = R(a - b) + R(b - c)
  BY <1>1 DEF R
<1> QED BY Zenon, <1>2

(* The tokens that accrue in a time are linear in it. *)
LEMMA RateLinear ==
    /\ \A a \in Int : R(a) \in Int
    /\ \A a \in Int : a >= 0 => R(a) >= 0
    /\ R(0) = 0
<1>1. rate \in Nat BY TokenConstants DEF TokenConstants
<1>2. \A a \in Int : R(a) \in Int BY <1>1 DEF R
<1>3. ASSUME NEW a \in Int, a >= 0 PROVE R(a) >= 0 BY <1>1, <1>3 DEF R
<1>4. R(0) = 0 BY <1>1 DEF R
<1> QED BY Zenon, <1>2, <1>3, <1>4

(* A time back takes as many tokens as the same time forth gives. *)
LEMMA RateBack == \A a, b \in Int : R(a - b) = 0 - R(b - a)
<1> SUFFICES ASSUME NEW a \in Int, NEW b \in Int PROVE R(a - b) = 0 - R(b - a) OBVIOUS
<1>1. R(a - a) = R(a - b) + R(b - a) BY Zenon, RateTriangle
<1>2. a - a = 0 /\ R(0) = 0 /\ R(a - b) \in Int /\ R(b - a) \in Int BY RateLinear
<1> QED BY <1>1, <1>2

(* n tokens, or none, are taken with t as the time.                        *)
LEMMA BucketSpends ==
    ASSUME NEW h, NEW T \in Int, NEW L \in Int, BucketInv(h, T, L),
           NEW t \in Times, NEW n \in Nat, NEW g, Adds(h, g, t, n), History(g, MaxNow),
           n = 0 \/ n <= Capped(T + R(t - L))
    PROVE  BucketInv(g, Capped(T + R(t - L)) - n, t)
<1> DEFINE F == Capped(T + R(t - L))
<1>1. t \in Int /\ t <= MaxNow /\ MaxNow \in Nat /\ burst \in Nat /\ R(t - L) \in Int
  BY ClockConstants, TokenConstants, RateLinear DEF ClockConstants, TokenConstants, Times
<1>2. F \in Int /\ F <= burst /\ F <= T + R(t - L) BY <1>1 DEF Capped
<1>3. \A u \in Int : UpTo(h, u) \in Nat BY UpToNat DEF BucketInv, History
<1>4. \A u \in Int : UpTo(g, u) = IF u < t THEN UpTo(h, u) ELSE UpTo(h, u) + n BY DEF Adds
<1>5. UpTo(g, MaxNow) = UpTo(h, MaxNow) + n /\ UpTo(h, MaxNow) \in Nat BY <1>1, <1>3, <1>4
<1> HIDE DEF F
<1>6. ASSUME NEW s \in Int
      PROVE  (UpTo(g, MaxNow) - UpTo(g, s - 1)) + Capped((F - n) + R(s - t)) <= burst
  <2>1. (UpTo(h, MaxNow) - UpTo(h, s - 1)) + Capped(T + R(s - L)) <= burst BY DEF BucketInv, Spent
  <2>2. R(s - L) = R(s - t) + R(t - L) /\ R(s - t) \in Int /\ R(s - L) \in Int
    <3>1. s \in Int /\ t \in Int /\ L \in Int BY <1>1
    <3>2. R(s - L) = R(s - t) + R(t - L) BY Zenon, <3>1, RateTriangle
    <3>3. s - t \in Int /\ s - L \in Int BY <3>1
    <3>4. R(s - t) \in Int /\ R(s - L) \in Int BY Zenon, <3>3, RateLinear
    <3> QED BY Zenon, <3>2, <3>4
  <2>3. UpTo(h, s - 1) \in Nat BY <1>3
  <2>4. CASE s <= t
    <3>1. UpTo(g, s - 1) = UpTo(h, s - 1) BY <1>1, <1>4, <2>4
    <3>2. t - s >= 0 /\ R(t - s) >= 0 /\ R(t - s) \in Int BY <1>1, <2>4, RateLinear
    <3>3. R(s - t) = 0 - R(t - s) BY Zenon, <1>1, RateBack
    <3>4. Capped((F - n) + R(s - t)) <= Capped(T + R(s - L)) - n BY <1>1, <1>2, <2>2, <3>2, <3>3 DEF Capped
    <3>5. Capped((F - n) + R(s - t)) \in Int /\ Capped(T + R(s - L)) \in Int BY <1>1, <1>2, <2>2 DEF Capped
    <3> QED BY <1>1, <1>5, <2>1, <2>3, <3>1, <3>4, <3>5
  <2>5. CASE s > t
    <3>1. UpTo(g, s - 1) = UpTo(h, s - 1) + n BY <1>1, <1>4, <2>5
    <3>2. Capped((F - n) + R(s - t)) <= Capped(T + R(s - L)) BY <1>1, <1>2, <2>2 DEF Capped
    <3>3. Capped((F - n) + R(s - t)) \in Int /\ Capped(T + R(s - L)) \in Int BY <1>1, <1>2, <2>2 DEF Capped
    <3> QED BY <1>1, <1>5, <2>1, <2>3, <3>1, <3>2, <3>3
  <2> QED BY <1>1, <2>4, <2>5
<1>7. ASSUME NEW s \in Int, NEW u \in Int, s <= u PROVE UpTo(g, u) - UpTo(g, s - 1) <= burst + R(u - s)
  <2>1. UpTo(h, u) - UpTo(h, s - 1) <= burst + R(u - s) BY <1>7 DEF BucketInv, Bounded, Events
  <2>2. UpTo(h, u) \in Nat /\ UpTo(h, s - 1) \in Nat BY <1>3
  <2>3. R(u - s) \in Int /\ R(u - s) >= 0 BY <1>7, RateLinear
  <2>4. CASE n = 0 \/ u < t \/ s > t BY <1>1, <1>4, <1>7, <2>1, <2>2, <2>3, <2>4
  <2>5. CASE n <= F /\ s <= t /\ t <= u
    <3>1. (UpTo(g, MaxNow) - UpTo(g, s - 1)) + Capped((F - n) + R(s - t)) <= burst BY <1>6
    <3>2. UpTo(g, u) \in Nat /\ UpTo(g, MaxNow) \in Nat /\ UpTo(g, s - 1) \in Nat
      BY <1>1, UpToNat DEF History
    <3>3. UpTo(g, u) <= UpTo(g, MaxNow)
      <4>1. CASE u <= MaxNow BY <1>1, <4>1 DEF History, Growing
      <4>2. CASE u >= MaxNow BY <1>1, <3>2, <4>2 DEF History, Quiet
      <4> QED BY <1>1, <4>1, <4>2
    <3>4. R(t - s) \in Int /\ R(s - t) \in Int /\ R(u - t) \in Int /\ R(u - t) >= 0
      BY <1>1, <2>5, RateLinear
    <3>5. R(u - s) = R(u - t) + R(t - s)
      <4>1. t \in Int BY <1>1
      <4>2. \A a, b, c \in Int : R(a - c) = R(a - b) + R(b - c) BY Zenon, RateTriangle
      <4> QED BY Zenon, <4>1, <4>2
    <3>6. R(s - t) = 0 - R(t - s) BY Zenon, <1>1, RateBack
    <3>7. Capped((F - n) + R(s - t)) >= 0 - R(u - s) BY <1>1, <1>2, <2>3, <2>5, <3>4, <3>5, <3>6 DEF Capped
    <3>8. Capped((F - n) + R(s - t)) \in Int BY <1>1, <1>2, <3>4 DEF Capped
    <3> QED BY <1>1, <2>3, <3>1, <3>2, <3>3, <3>7, <3>8
  <2> QED BY <1>1, <2>4, <2>5 DEF F
<1>8. Spent(g, F - n, t) BY <1>6 DEF Spent
<1>9. Bounded(g) BY <1>7 DEF Bounded, Events
<1> QED BY <1>8, <1>9 DEF BucketInv, F

(* A bucket that has had the time to fill is as good as a full one.        *)
LEMMA BucketFull ==
    ASSUME NEW h, NEW T \in Int, NEW L \in Int, BucketInv(h, T, L),
           NEW t \in Int, T + R(t - L) >= burst
    PROVE  BucketInv(h, burst, t)
<1>1. burst \in Nat /\ MaxNow \in Nat
  BY TokenConstants, ClockConstants DEF TokenConstants, ClockConstants
<1>2. \A u \in Int : UpTo(h, u) \in Nat BY UpToNat DEF BucketInv, History
<1>3. ASSUME NEW s \in Int
      PROVE  (UpTo(h, MaxNow) - UpTo(h, s - 1)) + Capped(burst + R(s - t)) <= burst
  <2>1. (UpTo(h, MaxNow) - UpTo(h, s - 1)) + Capped(T + R(s - L)) <= burst BY DEF BucketInv, Spent
  <2>2. /\ R(s - L) = R(s - t) + R(t - L) /\ R(t - L) \in Int
        /\ R(s - t) \in Int /\ R(s - L) \in Int
    <3>1. R(s - L) = R(s - t) + R(t - L) BY Zenon, RateTriangle
    <3> QED BY <3>1, RateLinear
  <2>3. Capped(burst + R(s - t)) <= Capped(T + R(s - L)) BY <1>1, <2>2 DEF Capped
  <2>4. Capped(burst + R(s - t)) \in Int /\ Capped(T + R(s - L)) \in Int BY <1>1, <2>2 DEF Capped
  <2>5. UpTo(h, MaxNow) \in Nat /\ UpTo(h, s - 1) \in Nat BY <1>1, <1>2
  <2> QED BY <1>1, <2>1, <2>3, <2>4, <2>5
<1> QED BY <1>3 DEF BucketInv, Spent

(* A bucket that has given out nothing. *)
LEMMA BucketNew == ASSUME NEW T \in Int, NEW L \in Int PROVE BucketInv(NoEvents, T, L)
<1>1. History(NoEvents, 0) /\ \A u \in Int : UpTo(NoEvents, u) = 0 BY HistoryBegins
<1>2. burst \in Nat /\ MaxNow \in Nat
  BY TokenConstants, ClockConstants DEF TokenConstants, ClockConstants
<1>3. History(NoEvents, MaxNow) BY <1>1, <1>2 DEF History, Quiet
<1>4. \A s \in Int : T + R(s - L) \in Int BY RateLinear
<1>5. Spent(NoEvents, T, L) BY <1>1, <1>2, <1>4 DEF Spent, Capped
<1>6. \A s, u \in Int : s <= u => R(u - s) >= 0 /\ R(u - s) \in Int BY RateLinear
<1>7. Bounded(NoEvents) BY <1>1, <1>2, <1>6 DEF Bounded, Events
<1> QED BY <1>3, <1>5, <1>7 DEF BucketInv

(* The time to live of the keys in Redis is enough to fill the bucket.     *)
LEMMA TtlFills == ASSUME ttl > 0 PROVE ttl \in Nat /\ R(ttl) >= burst
<1>1. rate \in Nat \ {0} /\ burst \in Nat BY TokenConstants DEF TokenConstants
<1>2. ttl \in Int BY <1>1 DEF ttl
<1>3. ttl * rate + rate > 2 * burst /\ ttl * rate \in Int
  <2>1. 2 * burst \in Int BY <1>1
  <2>2. ASSUME NEW b \in Int PROVE (b \div rate) * rate + rate > b /\ (b \div rate) * rate \in Int
    BY <1>1
  <2> QED BY <2>1, <2>2 DEF ttl
<1>4. ttl * rate >= rate
  <2>1. ttl - 1 >= 0 /\ ttl - 1 \in Int BY <1>2
  <2>2. (ttl - 1) * rate >= 0 BY <1>1, <2>1
  <2>3. ttl * rate = (ttl - 1) * rate + rate BY <1>1, <1>2
  <2> QED BY <1>1, <1>2, <2>1, <2>2, <2>3
<1> QED BY <1>1, <1>2, <1>3, <1>4 DEF R

(* The inductive invariant of TokenLimiter: in Redis, that a key which has *)
(* expired was written ttl ago.                                            *)
TokenInv ==
    /\ now \in Times /\ TokenTypeOK
    /\ ~late =>
          /\ BucketInv(granted, bucket.tokens, bucket.ts)
          /\ bucket.ts <= now
          /\ bucket.expireAt = bucket.ts + ttl \/ granted = NoEvents
    /\ \A r \in Replicas : BucketInv(localGranted[r], local[r].tokens, local[r].last)

(* What counting any number of tokens adds to a history. *)
LEMMA AddsAny ==
    ASSUME NEW t \in Times, NEW h, History(h, MaxNow), NEW n \in Nat
    PROVE  /\ Adds(h, Counted(h, t, n), t, n) /\ Adds(h, h, t, 0)
           /\ History(Counted(h, t, n), MaxNow)
<1>1. h \in [Times -> Nat] /\ MaxNow \in Times /\ t <= MaxNow
  BY ClockConstants DEF ClockConstants, History, Times
<1>2. Adds(h, Counted(h, t, n), t, n) BY <1>1, UpToCounted DEF Adds
<1>3. Adds(h, h, t, 0) BY <1>1, UpToNat DEF Adds
<1> QED BY <1>1, <1>2, <1>3, HistoryCounted

(* Either the tokens are taken or none.                                    *)
LEMMA BucketAsked ==
    ASSUME NEW h, NEW T \in Int, NEW L \in Int, BucketInv(h, T, L), NEW t \in Times, NEW n \in Nat,
           NEW allowed \in BOOLEAN, allowed <=> Capped(T + R(t - L)) >= n
    PROVE  BucketInv(IF allowed THEN Counted(h, t, n) ELSE h,
                     IF allowed THEN Capped(T + R(t - L)) - n ELSE Capped(T + R(t - L)), t)
<1> DEFINE F == Capped(T + R(t - L))
<1>1. History(h, MaxNow) BY DEF BucketInv
<1>2. /\ Adds(h, Counted(h, t, n), t, n) /\ Adds(h, h, t, 0)
      /\ History(Counted(h, t, n), MaxNow)
  BY <1>1, AddsAny
<1>3. F \in Int /\ F - 0 = F
  BY TokenConstants, RateLinear DEF TokenConstants, Capped, Times
<1>4. CASE allowed
  <2>1. n <= F BY <1>3, <1>4
  <2>2. BucketInv(Counted(h, t, n), F - n, t) BY <1>2, <2>1, BucketSpends
  <2> QED BY <1>4, <2>2
<1>5. CASE ~allowed
  <2>1. BucketInv(h, F - 0, t) BY <1>1, <1>2, BucketSpends
  <2> QED BY <1>3, <1>5, <2>1
<1> QED BY <1>4, <1>5

(* The local token limiter keeps the invariant. *)
LEMMA LocalAllowKeeps ==
    ASSUME TokenInv, NEW q \in Replicas, NEW t \in Times, NEW n \in Nat, NEW allowed \in BOOLEAN,
           localAllow(q, t, n, allowed), now' = now
    PROVE  TokenInv'
<1> DEFINE T == local[q].tokens
           L == local[q].last
           h == localGranted[q]
           F == Capped(T + R(t - L))
           g == IF allowed THEN Counted(h, t, n) ELSE h
           T2 == IF allowed THEN F - n ELSE F
<1>1. /\ now \in Times /\ t \in Nat /\ T \in Int /\ L \in Nat /\ burst \in Nat /\ h \in [Times -> Nat]
      /\ local \in [Replicas -> [tokens : Int, last : Nat]]
      /\ localGranted \in [Replicas -> [Times -> Nat]]
      /\ BucketInv(h, T, L)
  BY TokenConstants DEF TokenConstants, TokenInv, TokenTypeOK, Times
<1>2. R(t - L) \in Int BY <1>1, RateLinear
<1>3. Min({burst, T + (t - L) * rate}) = F
  BY <1>1, <1>2, MinOfTwo DEF R, Capped
<1>4. /\ allowed <=> F >= n
      /\ local' = [local EXCEPT ![q] = [tokens |-> T2, last |-> t]]
      /\ localGranted' = IF allowed THEN [localGranted EXCEPT ![q] = Counted(h, t, n)] ELSE localGranted
      /\ UNCHANGED <<bucket, granted, late>>
  BY <1>3, Zenon DEF localAllow
<1>5. F \in Int /\ T2 \in Int BY <1>1, <1>2 DEF Capped
<1>6. BucketInv(g, T2, t) BY <1>1, <1>4, BucketAsked
<1>7. g \in [Times -> Nat] BY <1>6 DEF BucketInv, History
<1> HIDE DEF T, L, h, F, T2
<1>8. /\ local'[q].tokens = T2 /\ local'[q].last = t
      /\ \A r \in Replicas \ {q} : local'[r] = local[r]
      /\ local' \in [Replicas -> [tokens : Int, last : Nat]]
  BY <1>1, <1>4, <1>5
<1>9. /\ localGranted'[q] = g
      /\ \A r \in Replicas \ {q} : localGranted'[r] = localGranted[r]
      /\ localGranted' \in [Replicas -> [Times -> Nat]]
  BY <1>1, <1>4, <1>7 DEF h
<1> HIDE DEF g
<1>10. \A r \in Replicas : BucketInv(localGranted'[r], local'[r].tokens, local'[r].last)
  BY Zenon, <1>6, <1>8, <1>9 DEF TokenInv
<1>11. TokenTypeOK' BY Zenon, <1>4, <1>8, <1>9 DEF TokenInv, TokenTypeOK
<1> QED BY Zenon, <1>1, <1>4, <1>10, <1>11 DEF TokenInv

(* The script of the token limiter keeps the invariant, also when it meets *)
(* requests out of order.                                                  *)
LEMMA TokenScriptKeeps ==
    ASSUME TokenInv, NEW t \in 0 .. now, NEW n \in Nat, NEW allowed \in BOOLEAN,
           TokenScript(t, n, allowed), now' = now
    PROVE  TokenInv'
<1> DEFINE live == now < bucket.expireAt
           T == IF live THEN bucket.tokens ELSE burst
           late0 == IF t > bucket.ts THEN t - bucket.ts ELSE 0
           F == IF live THEN Min({burst, bucket.tokens + late0 * rate}) ELSE burst
           g == IF allowed THEN Counted(granted, t, n) ELSE granted
           T2 == IF allowed THEN F - n ELSE F
<1>1. /\ now \in Times /\ now \in Nat /\ t \in Times /\ t \in Nat /\ burst \in Nat /\ rate \in Nat
      /\ bucket \in [tokens : Nat, ts : Nat, expireAt : Nat] /\ granted \in [Times -> Nat]
      /\ bucket.tokens \in Nat /\ bucket.ts \in Nat /\ bucket.expireAt \in Nat
  BY TokenConstants, ClockConstants DEF TokenConstants, ClockConstants, TokenInv, TokenTypeOK, Times
<1>2. /\ ttl > 0 /\ (allowed <=> F >= n)
      /\ bucket' = [tokens |-> T2, ts |-> t, expireAt |-> now + ttl]
      /\ granted' = g
      /\ UNCHANGED <<local, localGranted>>
  BY Zenon DEF TokenScript
<1>3. late' <=> (late \/ t < now) BY Zenon DEF TokenScript
<1>4. late' \in BOOLEAN BY Zenon DEF TokenScript
<1>5. ttl \in Nat /\ R(ttl) >= burst /\ R(ttl) \in Int BY <1>2, TtlFills, RateLinear
<1>6. F \in Nat /\ (live => F = Capped(bucket.tokens + R(late0)))
  <2>1. late0 \in Nat BY <1>1
  <2>2. late0 * rate \in Int /\ late0 * rate >= 0 BY <2>1, RateLinear DEF R
  <2> HIDE DEF late0
  <2>3. Min({burst, bucket.tokens + late0 * rate})
            = IF burst < bucket.tokens + late0 * rate THEN burst ELSE bucket.tokens + late0 * rate
    BY <1>1, <2>2, MinOfTwo
  <2> QED BY <1>1, <2>2, <2>3 DEF R, Capped
<1>7. T2 \in Nat BY <1>2, <1>6
<1>8. g \in [Times -> Nat] BY Zenon, <1>1, UpToCounted
<1>9. /\ bucket' \in [tokens : Nat, ts : Nat, expireAt : Nat]
      /\ bucket'.tokens = T2 /\ bucket'.ts = t /\ bucket'.expireAt = now + ttl
  BY <1>1, <1>2, <1>5, <1>7
<1>10. TokenTypeOK' BY Zenon, <1>2, <1>4, <1>8, <1>9 DEF TokenInv, TokenTypeOK
<1>11. ASSUME ~late' PROVE BucketInv(g, T2, t) /\ t = now
  <2>1. t = now /\ ~late BY <1>1, <1>3, <1>11
  <2>2. /\ BucketInv(granted, bucket.tokens, bucket.ts) /\ bucket.ts <= now
        /\ bucket.expireAt = bucket.ts + ttl \/ granted = NoEvents
    BY <2>1 DEF TokenInv
  <2>3. CASE live
    <3>1. late0 = t - bucket.ts BY <1>1, <2>1, <2>2
    <3>2. F = Capped(bucket.tokens + R(t - bucket.ts)) BY <1>6, <2>3, <3>1
    <3> HIDE DEF F, late0, live
    <3> QED BY <1>1, <1>2, <2>1, <2>2, <3>2, BucketAsked
  <2>4. CASE ~live
    <3>1. BucketInv(granted, burst, t)
      <4>1. CASE granted = NoEvents BY <1>1, <4>1, BucketNew
      <4>2. CASE bucket.expireAt = bucket.ts + ttl
        <5>1. (t - bucket.ts) - ttl >= 0 /\ t - bucket.ts \in Int BY <1>1, <1>5, <2>1, <2>4, <4>2
        <5>2. R((t - bucket.ts) - 0) = R((t - bucket.ts) - ttl) + R(ttl - 0)
          <6>1. ttl \in Int /\ 0 \in Int BY <1>5
          <6>2. \A a, b, c \in Int : R(a - c) = R(a - b) + R(b - c) BY Zenon, RateTriangle
          <6> QED BY Zenon, <5>1, <6>1, <6>2
        <5>3. /\ (t - bucket.ts) - 0 = t - bucket.ts /\ ttl - 0 = ttl /\ (t - bucket.ts) - ttl \in Int
          BY <1>1, <1>5
        <5>4. R((t - bucket.ts) - ttl) >= 0 /\ R((t - bucket.ts) - ttl) \in Int BY <5>1, <5>3, RateLinear
        <5>5. R(t - bucket.ts) >= burst /\ R(t - bucket.ts) \in Int BY <1>1, <1>5, <5>2, <5>3, <5>4
        <5>6. bucket.tokens + R(t - bucket.ts) >= burst BY <1>1, <5>5
        <5> QED BY <1>1, <2>2, <5>6, BucketFull
      <4> QED BY <2>2, <4>1, <4>2
    <3>2. t - t = 0 /\ R(0) = 0 BY <1>1, RateLinear
    <3>3. F = Capped(burst + R(t - t)) BY <1>1, <2>4, <3>2 DEF Capped
    <3> HIDE DEF F, live
    <3> QED BY <1>1, <1>2, <2>1, <3>1, <3>3, BucketAsked
  <2> QED BY <2>3, <2>4
<1>12. ~late' => /\ BucketInv(granted', bucket'.tokens, bucket'.ts)
                 /\ bucket'.ts <= now /\ bucket'.expireAt = bucket'.ts + ttl
  BY <1>1, <1>2, <1>9, <1>11
<1> QED BY <1>1, <1>2, <1>10, <1>12 DEF TokenInv

(* Time passing keeps the invariant of the token limiter. *)
LEMMA TokenTicks ==
    ASSUME TokenInv, Tick, UNCHANGED tokenVars
    PROVE  TokenInv'
<1>1. now \in Nat /\ now' = now + 1 /\ now' \in Times
  BY ClockConstants DEF ClockConstants, TokenInv, Tick, Times
<1>2. UNCHANGED <<bucket, local, granted, localGranted, late>> BY DEF tokenVars
<1>3. TokenTypeOK' /\ bucket.ts \in Nat BY <1>2 DEF TokenInv, TokenTypeOK
<1>4. bucket.ts <= now => bucket.ts <= now' BY <1>1, <1>3
<1> QED BY Zenon, <1>1, <1>2, <1>3, <1>4 DEF TokenInv

(* A step elsewhere keeps the invariant of the token limiter. *)
LEMMA TokenStays ==
    ASSUME TokenInv, UNCHANGED <<now, tokenVars>>
    PROVE  TokenInv'
BY Zenon DEF TokenInv, TokenTypeOK, tokenVars

(* A new token limiter. *)
LEMMA TokenBegins ==
    ASSUME NewTokenLimiter, now = 0
    PROVE  TokenInv
<1>1. 0 \in Times /\ burst \in Nat /\ NoEvents \in [Times -> Nat]
  BY TokenConstants, ClockConstants DEF TokenConstants, ClockConstants, Times, NoEvents
<1>2. late = FALSE /\ late \in BOOLEAN BY Zenon DEF NewTokenLimiter
<1>3. /\ bucket = [tokens |-> 0, ts |-> 0, expireAt |-> 0]
      /\ local = [r \in Replicas |-> [tokens |-> burst, last |-> 0]]
      /\ granted = NoEvents /\ localGranted = [r \in Replicas |-> NoEvents]
  BY DEF NewTokenLimiter
<1>4. /\ bucket \in [tokens : Nat, ts : Nat, expireAt : Nat]
      /\ local \in [Replicas -> [tokens : Int, last : Nat]]
      /\ granted \in [Times -> Nat] /\ localGranted \in [Replicas -> [Times -> Nat]]
  BY <1>1, <1>3
<1>5. TokenTypeOK BY Zenon, <1>2, <1>4 DEF TokenTypeOK
<1>6. BucketInv(granted, bucket.tokens, bucket.ts) /\ bucket.ts <= now BY <1>3, BucketNew
<1>7. \A r \in Replicas : BucketInv(localGranted[r], local[r].tokens, local[r].last)
  BY <1>1, <1>3, BucketNew
<1> QED BY <1>1, <1>3, <1>5, <1>6, <1>7 DEF TokenInv

(* The invariant of the token limiter bounds what it gives out. *)
LEMMA TokenInvBounded == TokenInv => TokensBounded
<1> SUFFICES ASSUME TokenInv, NEW t \in 0 .. now, NEW s \in 0 .. t
             PROVE  /\ ~late => Events(granted, s, t) <= burst + rate * (t - s)
                    /\ \A r \in Replicas : Events(localGranted[r], s, t) <= burst + rate * (t - s)
  BY DEF TokensBounded
<1>1. s \in Int /\ t \in Int /\ s <= t /\ t - s \in Int /\ rate \in Int
  BY TokenConstants, ClockConstants DEF TokenConstants, ClockConstants, TokenInv, Times
<1>2. R(t - s) = rate * (t - s) BY <1>1 DEF R
<1>3. ~late => Bounded(granted) BY DEF TokenInv, BucketInv
<1>4. \A r \in Replicas : Bounded(localGranted[r]) BY DEF TokenInv, BucketInv
<1> QED BY <1>1, <1>2, <1>3, <1>4 DEF Bounded

(* The invariant of the period limiter bounds what passes it. *)
LEMMA PeriodInvBounded == PeriodInv => PeriodBounded
<1> SUFFICES ASSUME PeriodInv, NEW t \in 0 .. now
             PROVE  /\ Events(passed, t, t + period - 1) <= 2 * quota
                    /\ \A r \in Replicas : Events(localPassed[r], t, t + period - 1) <= 2 * localQuota
  BY DEF PeriodBounded, localQuota
<1>1. t \in Int BY DEF PeriodInv, Times
<1>2. TwoWindows(passed, quota) BY DEF PeriodInv, CounterInv
<1>3. \A r \in Replicas : TwoWindows(localPassed[r], localQuota) BY DEF PeriodInv, CounterInv
<1> QED BY <1>1, <1>2, <1>3 DEF TwoWindows
-----------------------------------------------------------------------------
(***************************************************************************)
(* The sums over the buckets of a window.                                  *)
(***************************************************************************)

(* Induction over the natural numbers, for a set of them. *)
LEMMA SetInduction ==
    ASSUME NEW S, 0 \in S, \A n \in Nat : n \in S => n + 1 \in S
    PROVE  \A n \in Nat : n \in S
<1> DEFINE T == {n \in Nat : n \notin S}
           Less == {ss \in Nat \X Nat : ss[1] < ss[2]}
<1>1. IsWellFoundedOn(Less, Nat) BY NatLessThanWellFounded DEF OpToRel
<1> HIDE DEF Less
<1>2. SUFFICES ASSUME T # {} PROVE FALSE OBVIOUS
<1>3. PICK x \in T : \A y \in T : ~(<<y, x>> \in Less) BY Zenon, <1>1, <1>2, WFMin
<1>4. x \in Nat /\ x \notin S /\ x # 0 OBVIOUS
<1>5. x - 1 \in Nat /\ x - 1 + 1 = x BY <1>4
<1>6. x - 1 \in T BY <1>4, <1>5
<1>7. <<x - 1, x>> \in Less BY <1>4, <1>5 DEF Less
<1> QED BY <1>3, <1>6, <1>7

(* The loop of SumOf: g holds the sums after each of the first n buckets.  *)
Sums(b, n, g) == g = [i \in 0 .. n |-> IF i = 0 THEN 0 ELSE g[i - 1] + b[i - 1]]

(* There is a function of the partial sums of any number of buckets. *)
LEMMA SumsExist ==
    ASSUME NEW size \in Nat, NEW b \in [0 .. size - 1 -> Nat]
    PROVE  \A n \in 0 .. size : \E g \in [0 .. n -> Nat] : Sums(b, n, g)
<1> DEFINE S == {n \in Nat : n <= size => \E g \in [0 .. n -> Nat] : Sums(b, n, g)}
<1>1. 0 \in S
  <2> DEFINE g == [i \in 0 .. 0 |-> 0]
  <2>1. g \in [0 .. 0 -> Nat] /\ Sums(b, 0, g) BY DEF Sums
  <2> QED BY <2>1
<1>2. ASSUME NEW n \in Nat, n \in S PROVE n + 1 \in S
  <2> SUFFICES ASSUME n + 1 <= size PROVE \E h \in [0 .. n + 1 -> Nat] : Sums(b, n + 1, h) OBVIOUS
  <2>1. PICK g \in [0 .. n -> Nat] : Sums(b, n, g) BY <1>2
  <2> DEFINE h == [i \in 0 .. n + 1 |-> IF i <= n THEN g[i] ELSE g[n] + b[n]]
  <2>2. h \in [0 .. n + 1 -> Nat] OBVIOUS
  <2>3. ASSUME NEW i \in 0 .. n + 1 PROVE h[i] = IF i = 0 THEN 0 ELSE h[i - 1] + b[i - 1]
    <3>1. CASE i = 0 BY <2>1, <3>1 DEF Sums
    <3>2. CASE i \in 1 .. n
      <4>1. g[i] = g[i - 1] + b[i - 1] BY <2>1, <3>2 DEF Sums
      <4> QED BY <3>2, <4>1
    <3>3. CASE i = n + 1 BY <3>3
    <3> QED BY <3>1, <3>2, <3>3
  <2>4. Sums(b, n + 1, h) BY Zenon, <2>2, <2>3 DEF Sums
  <2> QED BY Zenon, <2>2, <2>4
<1> HIDE DEF S
<1>3. \A n \in Nat : n \in S BY <1>1, <1>2, SetInduction
<1>4. \A n \in 0 .. size : n \in Nat /\ n <= size OBVIOUS
<1> QED BY Zenon, <1>3, <1>4 DEF S

(* Partial sums do not depend on how far they go. *)
LEMMA SumsUnique ==
    ASSUME NEW b, NEW n \in Nat, NEW m \in Nat, n <= m,
           NEW g, Sums(b, n, g), NEW h, Sums(b, m, h)
    PROVE  \A i \in 0 .. n : g[i] = h[i]
<1> DEFINE S == {i \in Nat : i <= n => g[i] = h[i]}
<1>1. 0 \in S BY DEF Sums
<1>2. ASSUME NEW i \in Nat, i \in S PROVE i + 1 \in S
  <2>1. ASSUME i + 1 <= n PROVE g[i + 1] = h[i + 1]
    <3>1. i + 1 \in 0 .. n /\ i + 1 \in 0 .. m /\ i + 1 # 0 /\ i + 1 - 1 = i BY <2>1
    <3>2. g[i + 1] = g[i] + b[i] BY <3>1 DEF Sums
    <3>3. h[i + 1] = h[i] + b[i] BY <3>1 DEF Sums
    <3> QED BY <1>2, <2>1, <3>2, <3>3
  <2> QED BY <2>1
<1> HIDE DEF S
<1>3. \A i \in Nat : i \in S BY <1>1, <1>2, SetInduction
<1> QED BY <1>3 DEF S

(* What the loop computes: it adds the buckets, one after the other.       *)
LEMMA SumOfSteps ==
    ASSUME NEW size \in Nat, NEW b \in [0 .. size - 1 -> Nat]
    PROVE  /\ \A i \in 0 .. size : SumOf(b, i) \in Nat
           /\ SumOf(b, 0) = 0
           /\ \A i \in 0 .. size - 1 : SumOf(b, i + 1) = SumOf(b, i) + b[i]
<1>1. PICK g \in [0 .. size -> Nat] : Sums(b, size, g) BY SumsExist
<1>2. ASSUME NEW i \in 0 .. size PROVE SumOf(b, i) = g[i]
  <2> DEFINE f == CHOOSE h : Sums(b, i, h)
  <2>1. Sums(b, i, f) BY SumsExist
  <2>2. SumOf(b, i) = f[i] BY DEF SumOf, Sums
  <2> HIDE DEF f
  <2> QED BY <1>1, <2>1, <2>2, SumsUnique
<1>3. g[0] = 0 BY <1>1 DEF Sums
<1>4. ASSUME NEW i \in 0 .. size - 1 PROVE g[i + 1] = g[i] + b[i]
  <2>1. i + 1 \in 0 .. size /\ i + 1 # 0 /\ i + 1 - 1 = i OBVIOUS
  <2> QED BY <1>1, <2>1 DEF Sums
<1> QED BY <1>2, <1>3, <1>4

(* The sums of two kinds of results add up.                                *)
LEMMA SumOfParts ==
    ASSUME NEW size \in Nat, NEW a \in [0 .. size - 1 -> Nat], NEW b \in [0 .. size - 1 -> Nat],
           NEW c \in [0 .. size - 1 -> Nat], \A i \in 0 .. size - 1 : c[i] = a[i] + b[i]
    PROVE  SumOf(c, size) = SumOf(a, size) + SumOf(b, size)
<1> DEFINE S == {n \in Nat : n <= size => SumOf(c, n) = SumOf(a, n) + SumOf(b, n)}
<1>0. \A f \in [0 .. size - 1 -> Nat] :
         /\ \A i \in 0 .. size : SumOf(f, i) \in Nat
         /\ SumOf(f, 0) = 0
         /\ \A i \in 0 .. size - 1 : SumOf(f, i + 1) = SumOf(f, i) + f[i]
  BY Zenon, SumOfSteps
<1>1. 0 \in S
  <2>1. SumOf(a, 0) = 0 /\ SumOf(b, 0) = 0 /\ SumOf(c, 0) = 0 BY Zenon, <1>0
  <2> QED BY <2>1
<1>2. ASSUME NEW n \in Nat, n \in S PROVE n + 1 \in S
  <2> SUFFICES ASSUME n + 1 <= size PROVE SumOf(c, n + 1) = SumOf(a, n + 1) + SumOf(b, n + 1) OBVIOUS
  <2>0. n \in 0 .. size - 1 /\ n \in 0 .. size OBVIOUS
  <2>1. SumOf(c, n + 1) = SumOf(c, n) + c[n] /\ SumOf(c, n) \in Nat BY Zenon, <1>0, <2>0
  <2>2. SumOf(a, n + 1) = SumOf(a, n) + a[n] /\ SumOf(a, n) \in Nat BY Zenon, <1>0, <2>0
  <2>3. SumOf(b, n + 1) = SumOf(b, n) + b[n] /\ SumOf(b, n) \in Nat BY Zenon, <1>0, <2>0
  <2>4. c[n] = a[n] + b[n] /\ a[n] \in Nat /\ b[n] \in Nat OBVIOUS
  <2>5. SumOf(c, n) = SumOf(a, n) + SumOf(b, n) BY <1>2
  <2> QED BY <2>1, <2>2, <2>3, <2>4, <2>5
<1> HIDE DEF S
<1>3. \A n \in Nat : n \in S BY Zenon, <1>1, <1>2, SetInduction
<1> QED BY <1>3 DEF S

(* Among the buckets there is a greatest one.                              *)
LEMMA GreatestBucket ==
    ASSUME NEW size \in Nat \ {0}, NEW b \in [0 .. size - 1 -> Nat]
    PROVE  Max({b[i] : i \in DOMAIN b}) \in Nat
<1> DEFINE S == {n \in Nat : n < size => \E x \in 0 .. n : \A y \in 0 .. n : b[y] <= b[x]}
           T == {b[i] : i \in DOMAIN b}
<1>1. 0 \in S
  <2>1. b[0] \in Nat /\ 0 .. 0 = {0} OBVIOUS
  <2>2. b[0] <= b[0] BY <2>1
  <2> QED BY <2>1, <2>2
<1>2. ASSUME NEW n \in Nat, n \in S PROVE n + 1 \in S
  <2>1. SUFFICES ASSUME n + 1 < size PROVE \E x \in 0 .. n + 1 : \A y \in 0 .. n + 1 : b[y] <= b[x] OBVIOUS
  <2>2. n < size BY <2>1
  <2>3. PICK x \in 0 .. n : \A y \in 0 .. n : b[y] <= b[x] BY <1>2, <2>2
  <2>4. \A y \in 0 .. n + 1 : b[y] \in Nat /\ (y \in 0 .. n \/ y = n + 1) BY <2>1
  <2>5. x \in 0 .. n + 1 /\ n + 1 \in 0 .. n + 1 /\ b[x] \in Nat /\ b[n + 1] \in Nat BY <2>1
  <2>6. CASE b[n + 1] <= b[x]
    <3>1. \A y \in 0 .. n + 1 : b[y] <= b[x] BY Zenon, <2>3, <2>4, <2>6
    <3> QED BY Zenon, <2>5, <3>1
  <2>7. CASE ~(b[n + 1] <= b[x])
    <3>1. b[x] <= b[n + 1] /\ b[n + 1] <= b[n + 1] BY <2>5, <2>7
    <3>2. ASSUME NEW y \in 0 .. n + 1 PROVE b[y] <= b[n + 1]
      <4>1. CASE y = n + 1 BY <3>1, <4>1
      <4>2. CASE y \in 0 .. n
        <5>1. b[y] <= b[x] /\ b[y] \in Nat BY Zenon, <2>3, <2>4, <4>2
        <5> QED BY <2>5, <3>1, <5>1
      <4> QED BY Zenon, <2>4, <4>1, <4>2
    <3> QED BY Zenon, <2>5, <3>2
  <2> QED BY <2>6, <2>7
<1> HIDE DEF S
<1>3. size - 1 \in Nat OBVIOUS
<1>4. size - 1 \in S BY Zenon, <1>1, <1>2, <1>3, SetInduction
<1>5. PICK x \in 0 .. size - 1 : \A y \in 0 .. size - 1 : b[y] <= b[x] BY <1>4 DEF S
<1>6. b[x] \in T /\ \A y \in T : b[x] >= y BY <1>5
<1>7. T \subseteq Nat OBVIOUS
<1> HIDE DEF T
<1>8. \E m \in T : \A y \in T : m >= y BY Zenon, <1>6
<1>9. Max(T) \in T BY Zenon, <1>8 DEF Max
<1> QED BY Zenon, <1>7, <1>9 DEF T
-----------------------------------------------------------------------------
(***************************************************************************)
(* The newest buckets of a window.  The one k before the offset is Slot;   *)
(* Newest adds up the k newest.                                            *)
(***************************************************************************)
Slot(size, o, k) == IF k <= o THEN o - k ELSE (size + o) - k

Newest(size, b, o, k) ==
    IF k <= o + 1 THEN SumOf(b, o + 1) - SumOf(b, (o + 1) - k)
    ELSE (SumOf(b, o + 1) + SumOf(b, size)) - SumOf(b, (size + o + 1) - k)

(* The sum of the newest buckets grows bucket by bucket, up to that of all *)
(* of them.                                                                *)
LEMMA NewestSteps ==
    ASSUME NEW size \in Nat \ {0}, NEW b \in [0 .. size - 1 -> Nat], NEW o \in 0 .. size - 1
    PROVE  /\ Newest(size, b, o, 0) = 0
           /\ Newest(size, b, o, size) = SumOf(b, size)
           /\ \A k \in 0 .. size - 1 :
                 /\ Slot(size, o, k) \in 0 .. size - 1
                 /\ Newest(size, b, o, k + 1) = Newest(size, b, o, k) + b[Slot(size, o, k)]
<1> DEFINE P(i) == SumOf(b, i)
<1>1. /\ \A i \in 0 .. size : P(i) \in Nat
      /\ P(0) = 0
      /\ \A i \in 0 .. size - 1 : P(i + 1) = P(i) + b[i]
  BY SumOfSteps
<1>2. \A k : Newest(size, b, o, k) = IF k <= o + 1 THEN P(o + 1) - P((o + 1) - k)
                                     ELSE (P(o + 1) + P(size)) - P((size + o + 1) - k)
  BY DEF Newest
<1> HIDE DEF P
<1>3. Newest(size, b, o, 0) = 0
  <2>1. o + 1 \in 0 .. size /\ (o + 1) - 0 = o + 1 /\ 0 <= o + 1 OBVIOUS
  <2> QED BY <1>1, <1>2, <2>1
<1>4. Newest(size, b, o, size) = P(size)
  <2>1. CASE size = o + 1
    <3>1. (o + 1) - size = 0 BY <2>1
    <3> QED BY <1>1, <1>2, <2>1, <3>1
  <2>2. CASE ~(size <= o + 1)
    <3>1. (size + o + 1) - size = o + 1 /\ o + 1 \in 0 .. size /\ size \in 0 .. size OBVIOUS
    <3>2. Newest(size, b, o, size) = (P(o + 1) + P(size)) - P((size + o + 1) - size) BY Zenon, <1>2, <2>2
    <3>3. P(o + 1) \in Nat /\ P(size) \in Nat BY <1>1, <3>1
    <3> QED BY <3>1, <3>2, <3>3
  <2> QED BY <2>1, <2>2
<1>5. ASSUME NEW k \in 0 .. size - 1
      PROVE  /\ Slot(size, o, k) \in 0 .. size - 1
             /\ Newest(size, b, o, k + 1) = Newest(size, b, o, k) + b[Slot(size, o, k)]
  <2>1. Slot(size, o, k) \in 0 .. size - 1 BY DEF Slot
  <2>2. CASE k <= o
    <3>1. /\ Slot(size, o, k) = o - k /\ k + 1 <= o + 1 /\ k <= o + 1
          /\ (o + 1) - (k + 1) = o - k /\ (o + 1) - k = (o - k) + 1 /\ o - k \in 0 .. size - 1
          /\ o - k \in 0 .. size /\ o + 1 \in 0 .. size
      BY <2>2 DEF Slot
    <3>2. Newest(size, b, o, k + 1) = P(o + 1) - P(o - k) BY <1>2, <3>1
    <3>3. Newest(size, b, o, k) = P(o + 1) - P((o - k) + 1) BY <1>2, <3>1
    <3>4. P((o - k) + 1) = P(o - k) + b[o - k] BY <1>1, <3>1
    <3>5. P(o - k) \in Nat /\ P(o + 1) \in Nat /\ b[o - k] \in Nat BY <1>1, <3>1
    <3> QED BY <2>1, <3>1, <3>2, <3>3, <3>4, <3>5
  <2>3. CASE k > o
    <3> DEFINE s == (size + o) - k
    <3>1. /\ Slot(size, o, k) = s /\ ~(k + 1 <= o + 1) /\ s \in 0 .. size - 1
          /\ (size + o + 1) - (k + 1) = s /\ (size + o + 1) - k = s + 1
          /\ s \in 0 .. size /\ o + 1 \in 0 .. size /\ size \in 0 .. size
      BY <2>3 DEF Slot
    <3>2. Newest(size, b, o, k + 1) = (P(o + 1) + P(size)) - P(s) BY <1>2, <3>1
    <3>3. Newest(size, b, o, k) = (P(o + 1) + P(size)) - P(s + 1)
      <4>1. CASE k = o + 1
        <5>1. (o + 1) - k = 0 /\ s + 1 = size /\ k <= o + 1 BY <4>1
        <5>2. Newest(size, b, o, k) = P(o + 1) - P(0) BY <1>2, <5>1
        <5>3. P(o + 1) \in Nat /\ P(size) \in Nat /\ P(0) = 0 BY <1>1, <3>1
        <5> QED BY <5>1, <5>2, <5>3
      <4>2. CASE ~(k <= o + 1) BY <1>2, <3>1, <4>2
      <4> QED BY <2>3, <4>1, <4>2
    <3> HIDE DEF s
    <3>4. P(s + 1) = P(s) + b[s] BY <1>1, <3>1
    <3>5. P(s) \in Nat /\ P(o + 1) \in Nat /\ P(size) \in Nat /\ b[s] \in Nat BY <1>1, <3>1
    <3> QED BY SMTT(20), <2>1, <3>1, <3>2, <3>3, <3>4, <3>5
  <2> QED BY <2>2, <2>3
<1> QED BY <1>3, <1>4, <1>5 DEF P

(* The sum of the newest buckets is a natural. *)
LEMMA NewestNat ==
    ASSUME NEW size \in Nat \ {0}, NEW b \in [0 .. size - 1 -> Nat], NEW o \in 0 .. size - 1
    PROVE  \A k \in 0 .. size : Newest(size, b, o, k) \in Nat
<1> DEFINE N(k) == Newest(size, b, o, k)
<1>1. /\ N(0) = 0
      /\ \A k \in 0 .. size - 1 : Slot(size, o, k) \in 0 .. size - 1 /\ N(k + 1) = N(k) + b[Slot(size, o, k)]
  BY Zenon, NewestSteps
<1> HIDE DEF N
<1> DEFINE S == {k \in Nat : k <= size => N(k) \in Nat}
<1>2. 0 \in S
  <2>1. 0 \in Nat OBVIOUS
  <2>2. N(0) \in Nat BY Zenon, <1>1, <2>1
  <2> QED BY <2>2
<1>3. ASSUME NEW k \in Nat, k \in S PROVE k + 1 \in S
  <2> SUFFICES ASSUME k + 1 <= size PROVE N(k + 1) \in Nat OBVIOUS
  <2>1. k \in 0 .. size - 1 /\ N(k) \in Nat BY <1>3
  <2>2. N(k + 1) = N(k) + b[Slot(size, o, k)] /\ Slot(size, o, k) \in 0 .. size - 1 BY Zenon, <1>1, <2>1
  <2>3. b[Slot(size, o, k)] \in Nat BY <2>2
  <2> QED BY <2>1, <2>2, <2>3
<1> HIDE DEF S
<1>4. \A k \in Nat : k \in S BY Zenon, <1>2, <1>3, SetInduction
<1> QED BY <1>4 DEF S, N

(* The buckets are a ring. *)
LEMMA Wraps ==
    ASSUME NEW size \in Nat \ {0}, NEW a \in Nat, a < 2 * size
    PROVE  a % size = IF a < size THEN a ELSE a - size
<1> DEFINE q == a \div size
           m == a % size
<1>1. q \in Nat /\ m \in 0 .. size - 1 /\ a = q * size + m OBVIOUS
<1> HIDE DEF q, m
<1>2. q < 2
  <2>1. ASSUME q >= 2 PROVE FALSE
    <3>1. q - 2 \in Nat BY <1>1, <2>1
    <3>2. (q - 2) * size >= 0 BY <3>1
    <3>3. q * size = (q - 2) * size + 2 * size BY <1>1
    <3> QED BY <1>1, <3>1, <3>2, <3>3
  <2> QED BY <1>1, <2>1
<1>3. CASE q = 0 BY <1>1, <1>3 DEF m
<1>4. CASE q = 1 BY <1>1, <1>4 DEF m
<1> QED BY <1>1, <1>2, <1>3, <1>4

(* advance by e intervals: the e buckets after the offset are cleared.     *)
Cleared(size, o, e) == {(o + k) % size : k \in 1 .. e}
Shifted(size, b, o, e) == [i \in 0 .. size - 1 |-> IF i \in Cleared(size, o, e) THEN 0 ELSE b[i]]

(* Shifting by e makes the e newest slots cleared ones, and the others e   *)
(* older.                                                                  *)
LEMMA ShiftSlots ==
    ASSUME NEW size \in Nat \ {0}, NEW o \in 0 .. size - 1, NEW e \in 1 .. size,
           NEW j \in 0 .. size - 1
    PROVE  /\ (o + e) % size \in 0 .. size - 1
           /\ j < e => Slot(size, (o + e) % size, j) \in Cleared(size, o, e)
           /\ j >= e => /\ Slot(size, (o + e) % size, j) = Slot(size, o, j - e)
                        /\ Slot(size, (o + e) % size, j) \notin Cleared(size, o, e)
<1> DEFINE o2 == (o + e) % size
<1>1. \A k \in 1 .. e : (o + k) % size = IF o + k < size THEN o + k ELSE (o + k) - size
  <2> SUFFICES ASSUME NEW k \in 1 .. e
               PROVE  (o + k) % size = IF o + k < size THEN o + k ELSE (o + k) - size
    OBVIOUS
  <2>1. o + k \in Nat /\ o + k < 2 * size OBVIOUS
  <2> QED BY Zenon, <2>1, Wraps
<1>2. o2 = IF o + e < size THEN o + e ELSE (o + e) - size BY <1>1
<1> HIDE DEF o2
<1>3. o2 \in 0 .. size - 1 BY <1>2
<1>4. ASSUME j < e PROVE Slot(size, o2, j) \in Cleared(size, o, e)
  <2>1. e - j \in 1 .. e BY <1>4
  <2>2. (o + (e - j)) % size = IF o + (e - j) < size THEN o + (e - j) ELSE (o + (e - j)) - size
    BY <1>1, <2>1
  <2>3. (o + (e - j)) % size = Slot(size, o2, j) BY <1>2, <1>4, <2>2 DEF Slot
  <2> QED BY Zenon, <2>1, <2>3 DEF Cleared
<1>5. ASSUME j >= e PROVE Slot(size, o2, j) = Slot(size, o, j - e) BY <1>2, <1>5 DEF Slot
<1>6. ASSUME j >= e, NEW k \in 1 .. e, Slot(size, o2, j) = (o + k) % size PROVE FALSE
  <2>1. Slot(size, o, j - e) = IF o + k < size THEN o + k ELSE (o + k) - size BY <1>1, <1>5, <1>6
  <2> QED BY <1>6, <2>1 DEF Slot
<1>7. ASSUME j >= e PROVE Slot(size, o2, j) \notin Cleared(size, o, e) BY <1>6, <1>7 DEF Cleared
<1> QED BY <1>3, <1>4, <1>5, <1>7 DEF o2

(* The window c with offset o2 has e empty buckets before those of b, o.   *)
Follows(size, e, c, o2, b, o) ==
    /\ c \in [0 .. size - 1 -> Nat] /\ o2 \in 0 .. size - 1
    /\ \A k \in 0 .. e : Newest(size, c, o2, k) = 0
    /\ \A k \in 0 .. size - e : Newest(size, c, o2, e + k) = Newest(size, b, o, k)

(* What shifting by e does to the sums of the newest buckets. *)
LEMMA ShiftNewest ==
    ASSUME NEW size \in Nat \ {0}, NEW b \in [0 .. size - 1 -> Nat], NEW o \in 0 .. size - 1,
           NEW e \in 1 .. size
    PROVE  Follows(size, e, Shifted(size, b, o, e), (o + e) % size, b, o)
<1> DEFINE c == Shifted(size, b, o, e)
           o2 == (o + e) % size
           C == Cleared(size, o, e)
           M(k) == Newest(size, c, o2, k)
           N(k) == Newest(size, b, o, k)
<1>1. c \in [0 .. size - 1 -> Nat] /\ \A i \in 0 .. size - 1 : c[i] = IF i \in C THEN 0 ELSE b[i]
  BY DEF Shifted
<1>2. \A j \in 0 .. size - 1 :
         /\ j < e => Slot(size, o2, j) \in C
         /\ j >= e => Slot(size, o2, j) = Slot(size, o, j - e) /\ Slot(size, o2, j) \notin C
  BY Zenon, ShiftSlots
<1>3. o2 \in 0 .. size - 1
  <2>1. 0 \in 0 .. size - 1 OBVIOUS
  <2> QED BY Zenon, <2>1, ShiftSlots
<1> HIDE DEF c, o2, C
<1>4. /\ M(0) = 0
      /\ \A k \in 0 .. size - 1 : Slot(size, o2, k) \in 0 .. size - 1 /\ M(k + 1) = M(k) + c[Slot(size, o2, k)]
  BY Zenon, <1>1, <1>3, NewestSteps
<1>5. /\ N(0) = 0
      /\ \A k \in 0 .. size - 1 : Slot(size, o, k) \in 0 .. size - 1 /\ N(k + 1) = N(k) + b[Slot(size, o, k)]
  BY Zenon, NewestSteps
<1> HIDE DEF M, N
<1>6. \A k \in 0 .. e : M(k) = 0
  <2> DEFINE S == {k \in Nat : k <= e => M(k) = 0}
  <2>1. 0 \in S BY <1>4
  <2>2. ASSUME NEW k \in Nat, k \in S PROVE k + 1 \in S
    <3> SUFFICES ASSUME k + 1 <= e PROVE M(k + 1) = 0 OBVIOUS
    <3>1. k \in 0 .. size - 1 /\ k < e /\ M(k) = 0 BY <2>2
    <3>2. c[Slot(size, o2, k)] = 0 BY <1>1, <1>2, <1>4, <3>1
    <3>3. M(k + 1) = M(k) + c[Slot(size, o2, k)] BY Zenon, <1>4, <3>1
    <3> QED BY <3>1, <3>2, <3>3
  <2> HIDE DEF S
  <2>3. \A k \in Nat : k \in S BY Zenon, <2>1, <2>2, SetInduction
  <2> QED BY <2>3 DEF S
<1>7. \A k \in 0 .. size - e : M(e + k) = N(k)
  <2> DEFINE S == {k \in Nat : k <= size - e => M(e + k) = N(k)}
  <2>1. 0 \in S BY <1>5, <1>6
  <2>2. ASSUME NEW k \in Nat, k \in S PROVE k + 1 \in S
    <3> SUFFICES ASSUME k + 1 <= size - e PROVE M(e + (k + 1)) = N(k + 1) OBVIOUS
    <3>1. /\ e + k \in 0 .. size - 1 /\ k \in 0 .. size - 1 /\ e + k >= e /\ (e + k) - e = k
          /\ M(e + k) = N(k) /\ e + (k + 1) = (e + k) + 1
      BY <2>2
    <3>2. Slot(size, o2, e + k) = Slot(size, o, k) /\ Slot(size, o2, e + k) \notin C BY <1>2, <3>1
    <3>3. c[Slot(size, o2, e + k)] = b[Slot(size, o, k)] BY Zenon, <1>1, <1>5, <3>1, <3>2
    <3>4. M((e + k) + 1) = M(e + k) + c[Slot(size, o2, e + k)] BY Zenon, <1>4, <3>1
    <3>5. N(k + 1) = N(k) + b[Slot(size, o, k)] BY <1>5, <3>1
    <3> QED BY <3>1, <3>3, <3>4, <3>5
  <2> HIDE DEF S
  <2>3. \A k \in Nat : k \in S BY Zenon, <2>1, <2>2, SetInduction
  <2> QED BY <2>3 DEF S
<1> QED BY Zenon, <1>1, <1>3, <1>6, <1>7 DEF Follows, M, N, c, o2

(* A result is added to the newest bucket.                                 *)
Raised(size, c, b, o, d) == \A k \in 1 .. size : Newest(size, c, o, k) = Newest(size, b, o, k) + d

(* Adding to the newest bucket raises every sum of newest buckets. *)
LEMMA BumpNewest ==
    ASSUME NEW size \in Nat \ {0}, NEW b \in [0 .. size - 1 -> Nat], NEW o \in 0 .. size - 1,
           NEW c \in [0 .. size - 1 -> Nat], NEW d \in Nat,
           \A i \in 0 .. size - 1 : c[i] = IF i = o THEN b[i] + d ELSE b[i]
    PROVE  Raised(size, c, b, o, d)
<1> DEFINE M(k) == Newest(size, c, o, k)
           N(k) == Newest(size, b, o, k)
<1>1. /\ M(0) = 0
      /\ \A k \in 0 .. size - 1 : Slot(size, o, k) \in 0 .. size - 1 /\ M(k + 1) = M(k) + c[Slot(size, o, k)]
  BY Zenon, NewestSteps
<1>2. /\ N(0) = 0
      /\ \A k \in 0 .. size - 1 : Slot(size, o, k) \in 0 .. size - 1 /\ N(k + 1) = N(k) + b[Slot(size, o, k)]
  BY Zenon, NewestSteps
<1> HIDE DEF M, N
<1>3. \A k \in 0 .. size - 1 : Slot(size, o, k) = o <=> k = 0 BY DEF Slot
<1> DEFINE S == {k \in Nat : k + 1 <= size => N(k + 1) \in Int /\ M(k + 1) = N(k + 1) + d}
<1>4. 0 \in S
  <2>1. 0 \in 0 .. size - 1 OBVIOUS
  <2>2. Slot(size, o, 0) = o BY <1>3, <2>1
  <2>3. M(0 + 1) = M(0) + c[o] /\ N(0 + 1) = N(0) + b[o] BY <1>1, <1>2, <2>1, <2>2
  <2>4. c[o] = b[o] + d /\ b[o] \in Nat OBVIOUS
  <2> QED BY <1>1, <1>2, <2>3, <2>4
<1>5. ASSUME NEW k \in Nat, k \in S PROVE k + 1 \in S
  <2> SUFFICES ASSUME (k + 1) + 1 <= size
               PROVE  N((k + 1) + 1) \in Int /\ M((k + 1) + 1) = N((k + 1) + 1) + d
    OBVIOUS
  <2>1. k + 1 \in 0 .. size - 1 /\ k + 1 # 0 /\ N(k + 1) \in Int /\ M(k + 1) = N(k + 1) + d BY <1>5
  <2> DEFINE s == Slot(size, o, k + 1)
  <2>2. s \in 0 .. size - 1 /\ s # o BY <1>1, <1>3, <2>1
  <2>3. M((k + 1) + 1) = M(k + 1) + c[s] /\ N((k + 1) + 1) = N(k + 1) + b[s] BY Zenon, <1>1, <1>2, <2>1
  <2> HIDE DEF s
  <2>4. c[s] = b[s] /\ b[s] \in Nat BY <2>2
  <2> QED BY <2>1, <2>3, <2>4
<1> HIDE DEF S
<1>6. \A k \in Nat : k \in S BY Zenon, <1>4, <1>5, SetInduction
<1>7. ASSUME NEW k \in 1 .. size PROVE M(k) = N(k) + d
  <2>1. k - 1 \in Nat /\ (k - 1) + 1 = k OBVIOUS
  <2>2. k - 1 \in S BY <1>6, <2>1
  <2> QED BY <2>1, <2>2 DEF S
<1> QED BY Zenon, <1>7 DEF Raised, M, N

(* A new window is empty.                                                  *)
LEMMA EmptyNewest ==
    ASSUME NEW size \in Nat \ {0}, NEW b \in [0 .. size - 1 -> Nat], NEW o \in 0 .. size - 1,
           \A i \in 0 .. size - 1 : b[i] = 0
    PROVE  \A k \in 0 .. size : Newest(size, b, o, k) = 0
<1> DEFINE N(k) == Newest(size, b, o, k)
<1>1. /\ N(0) = 0
      /\ \A k \in 0 .. size - 1 : Slot(size, o, k) \in 0 .. size - 1 /\ N(k + 1) = N(k) + b[Slot(size, o, k)]
  BY Zenon, NewestSteps
<1> HIDE DEF N
<1> DEFINE S == {k \in Nat : k <= size => N(k) = 0}
<1>2. 0 \in S BY <1>1
<1>3. ASSUME NEW k \in Nat, k \in S PROVE k + 1 \in S
  <2> SUFFICES ASSUME k + 1 <= size PROVE N(k + 1) = 0 OBVIOUS
  <2>1. k \in 0 .. size - 1 /\ N(k) = 0 BY <1>3
  <2> QED BY <1>1, <2>1
<1> HIDE DEF S
<1>4. \A k \in Nat : k \in S BY <1>2, <1>3, SetInduction
<1> QED BY <1>4 DEF S, N
-----------------------------------------------------------------------------
(* A longer interval has no fewer events; none happen after now.           *)
LEMMA EventsShrink ==
    ASSUME NEW h, NEW t \in Nat, History(h, t)
    PROVE  /\ \A x \in Int : Events(h, x, t) \in Int
           /\ \A x, y \in Int : x <= y => Events(h, y, t) <= Events(h, x, t)
           /\ \A x \in Int : x <= t + 1 => Events(h, x, t) >= 0
<1>1. \A u \in Int : UpTo(h, u) \in Nat BY UpToNat DEF History
<1>2. \A u, v \in Int : u <= v => UpTo(h, u) <= UpTo(h, v) BY DEF History, Growing
<1>3. \A x \in Int : Events(h, x, t) = UpTo(h, t) - UpTo(h, x - 1) BY DEF Events
<1>4. ASSUME NEW x \in Int PROVE Events(h, x, t) \in Int
  <2>1. UpTo(h, t) \in Nat /\ UpTo(h, x - 1) \in Nat BY <1>1
  <2> QED BY <1>3, <2>1
<1>5. ASSUME NEW x \in Int, NEW y \in Int, x <= y PROVE Events(h, y, t) <= Events(h, x, t)
  <2>1. UpTo(h, t) \in Nat /\ UpTo(h, x - 1) \in Nat /\ UpTo(h, y - 1) \in Nat BY <1>1
  <2>2. UpTo(h, x - 1) <= UpTo(h, y - 1) BY <1>2, <1>5
  <2> QED BY <1>3, <2>1, <2>2
<1>6. ASSUME NEW x \in Int, x <= t + 1 PROVE Events(h, x, t) >= 0
  <2>1. UpTo(h, t) \in Nat /\ UpTo(h, x - 1) \in Nat BY <1>1
  <2>2. UpTo(h, x - 1) <= UpTo(h, t) BY <1>2, <1>6
  <2> QED BY <1>3, <2>1, <2>2
<1> QED BY <1>4, <1>5, <1>6


(* The last k - 1 intervals. *)
Age(k, I) == (k - 1) * I

(* Arithmetic of the age of a bucket. *)
LEMMA AgeSteps ==
    ASSUME NEW I \in Nat, NEW k \in Nat \ {0}, NEW e \in Nat
    PROVE  /\ Age(k, I) \in Nat /\ e * I \in Nat
           /\ Age(e + k, I) = e * I + Age(k, I)
           /\ k <= e => Age(k, I) + I <= e * I
<1>1. Age(k, I) \in Nat /\ e * I \in Nat BY DEF Age
<1>2. Age(e + k, I) = e * I + Age(k, I) BY DEF Age
<1>3. ASSUME k <= e PROVE Age(k, I) + I <= e * I
  <2>1. e - k \in Nat BY <1>3
  <2>2. (e - k) * I \in Nat BY <2>1
  <2>3. e * I = ((k - 1) * I + I) + (e - k) * I OBVIOUS
  <2> QED BY <1>1, <2>2, <2>3 DEF Age
<1> QED BY <1>1, <1>2, <1>3

(***************************************************************************)
(* What the k newest buckets have counted of the events in h at time t:    *)
(* all of the last k - 1 intervals before lastTime, L, and nothing that is *)
(* older than as many times of almost two intervals.  The newest bucket    *)
(* goes on for less than an interval.                                      *)
(***************************************************************************)
Counts(size, I, b, o, L, h, t) ==
    \A k \in 1 .. size :
        /\ Events(h, L - Age(k, I), t) <= Newest(size, b, o, k)
        /\ Newest(size, b, o, k) <= Events(h, L - Age(k, 2 * I - 1), t)

Tracks(size, I, b, o, L, h, t) ==
    /\ b \in [0 .. size - 1 -> Nat] /\ o \in 0 .. size - 1 /\ L \in Nat /\ L <= t
    /\ History(h, t)
    /\ Events(h, L + I, t) = 0
    /\ Counts(size, I, b, o, L, h, t)

Elapsed(L, t, size, I) == Min({(t - L) \div I, size})

(* Whole intervals pass, and the newest bucket has lasted less than one.   *)
Passes(e, size, I, d) ==
    /\ e \in 0 .. size
    /\ e * I <= d
    /\ e = 0 => d < I
    /\ e > 0 /\ e < size => d <= e * (2 * I - 1)

(* span: the whole intervals since the last one, up to the size. *)
LEMMA ElapsedBounds ==
    ASSUME NEW I \in Nat \ {0}, NEW size \in Nat \ {0}, NEW L \in Nat, NEW t \in Nat, L <= t
    PROVE  Passes(Elapsed(L, t, size, I), size, I, t - L)
<1> DEFINE d == t - L
           q == d \div I
           e == Elapsed(L, t, size, I)
<1>1. d \in Nat OBVIOUS
<1> HIDE DEF d
<1>2. q \in Nat /\ q * I <= d /\ d < q * I + I BY <1>1
<1> HIDE DEF q
<1>3. e = IF q < size THEN q ELSE size BY <1>2, MinOfTwo DEF Elapsed, q, d
<1> HIDE DEF e
<1>4. e \in 0 .. size BY <1>2, <1>3
<1>5. e * I <= d
  <2>1. CASE e = q BY <1>2, <2>1
  <2>2. CASE e = size /\ q >= size
    <3>1. q - size \in Nat BY <1>2, <2>2
    <3>2. (q - size) * I >= 0 BY <3>1
    <3>3. q * I = (q - size) * I + size * I BY <1>2
    <3>4. q * I \in Nat /\ size * I \in Nat /\ (q - size) * I \in Nat BY <1>2, <3>1
    <3> QED BY <1>1, <1>2, <2>2, <3>2, <3>3, <3>4
  <2> QED BY <1>2, <1>3, <2>1, <2>2
<1>6. ASSUME e = 0 PROVE d < I BY <1>2, <1>3, <1>6
<1>7. ASSUME e > 0, e < size PROVE d <= e * (2 * I - 1)
  <2>1. e = q /\ e - 1 \in Nat /\ I - 1 \in Nat BY <1>2, <1>3, <1>4, <1>7
  <2>2. (e - 1) * (I - 1) \in Nat BY <2>1
  <2>3. e * (2 * I - 1) = (e * I + (I - 1)) + (e - 1) * (I - 1) BY <1>2, <2>1
  <2>4. e * I \in Nat /\ d < e * I + I BY <1>2, <2>1
  <2> QED BY <1>1, <2>2, <2>3, <2>4
<1> QED BY <1>4, <1>5, <1>6, <1>7 DEF d, e, Passes

(* advance, when at least an interval has passed.                          *)
LEMMA CountsShifted ==
    ASSUME NEW I \in Nat \ {0}, NEW size \in Nat \ {0}, NEW b \in [0 .. size - 1 -> Nat],
           NEW o \in 0 .. size - 1, NEW L \in Nat, NEW h, NEW t \in Nat, L <= t, History(h, t),
           Events(h, L + I, t) = 0, Counts(size, I, b, o, L, h, t),
           NEW e, Passes(e, size, I, t - L), e # 0
    PROVE  Counts(size, I, Shifted(size, b, o, e), (o + e) % size, t, h, t)
<1> DEFINE c == Shifted(size, b, o, e)
           o2 == (o + e) % size
           J == 2 * I - 1
           E(x) == Events(h, x, t)
           M(k) == Newest(size, c, o2, k)
           N(k) == Newest(size, b, o, k)
           A(k) == Age(k, I)
           B(k) == Age(k, J)
           F == e * I
           G == e * J
<1>1. \A k \in 1 .. size : E(L - A(k)) <= N(k) /\ N(k) <= E(L - B(k)) BY Zenon DEF Counts
<1>2. e \in 1 .. size BY DEF Passes
<1>3. /\ \A k \in 0 .. e : M(k) = 0
      /\ \A k \in 0 .. size - e : M(e + k) = N(k)
  <2>1. Follows(size, e, c, o2, b, o) BY Zenon, <1>2, ShiftNewest
  <2> QED BY Zenon, <2>1 DEF Follows
<1>4. F <= t - L /\ (e < size => t - L <= G)
  <2>1. F <= t - L /\ (e > 0 /\ e < size => t - L <= G) BY Zenon DEF Passes
  <2>2. e > 0 BY <1>2
  <2> QED BY Zenon, <2>1, <2>2
<1>5. /\ \A x \in Int : E(x) \in Int
      /\ \A x, y \in Int : x <= y => E(y) <= E(x)
      /\ \A x \in Int : x <= t + 1 => E(x) >= 0
  BY Zenon, EventsShrink
<1>6. J \in Nat OBVIOUS
<1>7. \A k \in 0 .. size : N(k) \in Nat BY Zenon, NewestNat
<1>8. \A k \in Nat \ {0} : A(k) \in Nat /\ A(e + k) = F + A(k) /\ (k <= e => A(k) + I <= F)
  <2>1. I \in Nat /\ e \in Nat BY <1>2
  <2> QED BY Zenon, <2>1, AgeSteps
<1> HIDE DEF J
<1>9. \A k \in Nat \ {0} : B(k) \in Nat /\ B(e + k) = G + B(k)
  <2>1. e \in Nat BY <1>2
  <2> QED BY Zenon, <1>6, <2>1, AgeSteps
<1>10. F \in Nat /\ G \in Nat BY <1>2, <1>6
<1>15. E(L + I) = 0 OBVIOUS
<1> HIDE DEF c, o2, E, M, N, A, B, F, G
<1>11. ASSUME NEW k \in 1 .. e PROVE E(t - A(k)) <= M(k) /\ M(k) <= E(t - B(k))
  <2> DEFINE x == A(k)
             y == B(k)
  <2>1. k \in Nat \ {0} /\ k <= e BY <1>2
  <2>2. x \in Nat /\ y \in Nat /\ x + I <= F BY Zenon, <1>8, <1>9, <2>1
  <2> HIDE DEF x, y
  <2>3. L + I <= t - x BY <1>4, <1>10, <2>2
  <2>4. L + I \in Int /\ t - x \in Int /\ t - y \in Int /\ t - y <= t + 1 BY <2>2
  <2>5. E(t - x) <= E(L + I) BY Zenon, <1>5, <2>3, <2>4
  <2>6. M(k) = 0
    <3>1. k \in 0 .. e BY <1>2
    <3> QED BY Zenon, <1>3, <3>1
  <2>7. E(t - y) >= 0 BY Zenon, <1>5, <2>4
  <2>8. E(t - x) <= M(k) BY Zenon, <1>15, <2>5, <2>6
  <2>9. M(k) <= E(t - y)
    <3>1. E(t - y) \in Int BY Zenon, <1>5, <2>4
    <3> QED BY <2>6, <2>7, <3>1
  <2> QED BY Zenon, <2>8, <2>9 DEF x, y
<1>12. ASSUME NEW i \in 1 .. size - e PROVE E(t - A(e + i)) <= M(e + i) /\ M(e + i) <= E(t - B(e + i))
  <2> DEFINE x == A(i)
             y == B(i)
             v == A(e + i)
             w == B(e + i)
             n == N(i)
  <2>1. i \in Nat \ {0} /\ i \in 1 .. size /\ i \in 0 .. size /\ e < size /\ i \in 0 .. size - e BY <1>2
  <2>2. x \in Nat /\ v = F + x /\ y \in Nat /\ w = G + y BY Zenon, <1>8, <1>9, <2>1
  <2>3. E(L - x) <= n /\ n <= E(L - y) BY Zenon, <1>1, <2>1
  <2>4. M(e + i) = n BY Zenon, <1>3, <2>1
  <2>5. n \in Nat BY Zenon, <1>7, <2>1
  <2>6. F <= t - L /\ t - L <= G BY Zenon, <1>4, <2>1
  <2> HIDE DEF x, y, v, w, n
  <2>7. L - x <= t - v /\ t - w <= L - y BY <1>10, <2>2, <2>6
  <2>8. L - x \in Int /\ t - v \in Int /\ L - y \in Int /\ t - w \in Int BY <1>10, <2>2
  <2>9. E(t - v) <= E(L - x) /\ E(L - y) <= E(t - w) BY Zenon, <1>5, <2>7, <2>8
  <2>10. E(L - x) \in Int /\ E(t - v) \in Int /\ E(L - y) \in Int /\ E(t - w) \in Int
    BY Zenon, <1>5, <2>8
  <2>11. E(t - v) <= n /\ n <= E(t - w) BY <2>3, <2>5, <2>9, <2>10
  <2> QED BY Zenon, <2>4, <2>11 DEF v, w
<1>13. ASSUME NEW k \in 1 .. size PROVE E(t - A(k)) <= M(k) /\ M(k) <= E(t - B(k))
  <2>1. CASE k <= e
    <3>1. k \in 1 .. e BY <1>2, <2>1
    <3> QED BY Zenon, <1>11, <3>1
  <2>2. CASE k > e
    <3>1. k - e \in 1 .. size - e /\ e + (k - e) = k BY <1>2, <2>2
    <3>2. E(t - A(e + (k - e))) <= M(e + (k - e)) /\ M(e + (k - e)) <= E(t - B(e + (k - e)))
      BY Zenon, <1>12, <3>1
    <3> QED BY Zenon, <3>1, <3>2
  <2> QED BY <1>2, <2>1, <2>2
<1> QED BY Zenon, <1>13 DEF Counts, E, M, A, B, J, c, o2

(* Shifted by the intervals that have passed, the buckets still track the  *)
(* history.                                                                *)
LEMMA TracksShifted ==
    ASSUME NEW I \in Nat \ {0}, NEW size \in Nat \ {0}, NEW b, NEW o, NEW L, NEW h, NEW t \in Nat,
           Tracks(size, I, b, o, L, h, t), NEW e, Passes(e, size, I, t - L), e # 0
    PROVE  Tracks(size, I, Shifted(size, b, o, e), (o + e) % size, t, h, t)
<1>1. /\ b \in [0 .. size - 1 -> Nat] /\ o \in 0 .. size - 1 /\ L \in Nat /\ L <= t /\ History(h, t)
      /\ Events(h, L + I, t) = 0 /\ Counts(size, I, b, o, L, h, t)
  BY Zenon DEF Tracks
<1>2. e \in 1 .. size BY DEF Passes
<1>3. Follows(size, e, Shifted(size, b, o, e), (o + e) % size, b, o) BY Zenon, <1>1, <1>2, ShiftNewest
<1>4. Shifted(size, b, o, e) \in [0 .. size - 1 -> Nat] /\ (o + e) % size \in 0 .. size - 1
  BY Zenon, <1>3 DEF Follows
<1>5. Counts(size, I, Shifted(size, b, o, e), (o + e) % size, t, h, t) BY Zenon, <1>1, CountsShifted
<1>6. Events(h, t + I, t) = 0
  <2>1. UpTo(h, (t + I) - 1) = UpTo(h, t) BY <1>1 DEF History, Quiet
  <2>2. h \in [Times -> Nat] /\ t \in Int BY <1>1 DEF History
  <2>3. UpTo(h, t) \in Nat BY Zenon, <2>2, UpToNat
  <2> QED BY <2>1, <2>3 DEF Events
<1>7. t <= t OBVIOUS
<1> QED BY Zenon, <1>1, <1>4, <1>5, <1>6, <1>7 DEF Tracks

(* Buckets track the history while time passes, though nobody advances     *)
(* them.                                                                   *)
LEMMA TracksTicks ==
    ASSUME NEW I \in Nat \ {0}, NEW size \in Nat \ {0}, NEW b, NEW o, NEW L, NEW h, NEW t \in Nat,
           Tracks(size, I, b, o, L, h, t)
    PROVE  Tracks(size, I, b, o, L, h, t + 1)
<1>1. /\ b \in [0 .. size - 1 -> Nat] /\ o \in 0 .. size - 1 /\ L \in Nat /\ L <= t /\ History(h, t)
      /\ Events(h, L + I, t) = 0 /\ Counts(size, I, b, o, L, h, t)
  BY Zenon DEF Tracks
<1>2. History(h, t + 1) /\ UpTo(h, t + 1) = UpTo(h, t) BY Zenon, <1>1, HistoryTicks
<1>3. \A x : Events(h, x, t + 1) = Events(h, x, t) BY Zenon, <1>2 DEF Events
<1>4. L <= t + 1 BY <1>1
<1> QED BY Zenon, <1>1, <1>2, <1>3, <1>4 DEF Tracks, Counts

(* An event is added to the newest bucket, and to the history.             *)
LEMMA TracksBump ==
    ASSUME NEW I \in Nat \ {0}, NEW size \in Nat \ {0}, NEW b, NEW o, NEW L, NEW h, NEW t \in Times,
           Tracks(size, I, b, o, L, h, t), t - L < I,
           NEW c \in [0 .. size - 1 -> Nat], NEW d \in Nat,
           \A i \in 0 .. size - 1 : c[i] = IF i = o THEN b[i] + d ELSE b[i]
    PROVE  Tracks(size, I, c, o, L, Counted(h, t, d), t)
<1> DEFINE g == Counted(h, t, d)
           J == 2 * I - 1
           M(k) == Newest(size, c, o, k)
           N(k) == Newest(size, b, o, k)
<1>1. /\ b \in [0 .. size - 1 -> Nat] /\ o \in 0 .. size - 1 /\ L \in Nat /\ L <= t /\ History(h, t)
      /\ Events(h, L + I, t) = 0 /\ Counts(size, I, b, o, L, h, t)
  BY Zenon DEF Tracks
<1>2. t \in Nat /\ t <= t /\ h \in [Times -> Nat] BY <1>1 DEF Times, History
<1>3. History(g, t) BY Zenon, <1>1, <1>2, HistoryCounted
<1>4. \A u \in Int : UpTo(g, u) = IF u < t THEN UpTo(h, u) ELSE UpTo(h, u) + d BY Zenon, <1>2, UpToCounted
<1>5. \A u \in Int : UpTo(h, u) \in Nat BY Zenon, <1>2, UpToNat
<1>6. ASSUME NEW x \in Int, x <= t PROVE Events(g, x, t) = Events(h, x, t) + d /\ Events(h, x, t) \in Int
  <2>0. t \in Int /\ x - 1 \in Int /\ x - 1 < t /\ ~(t < t) BY <1>2, <1>6
  <2>1. UpTo(g, t) = UpTo(h, t) + d /\ UpTo(g, x - 1) = UpTo(h, x - 1) BY Zenon, <1>4, <2>0
  <2>2. UpTo(h, t) \in Nat /\ UpTo(h, x - 1) \in Nat BY Zenon, <1>5, <2>0
  <2> QED BY <2>1, <2>2 DEF Events
<1>7. Events(g, L + I, t) = 0
  <2> DEFINE u == (L + I) - 1
  <2>1. u \in Int /\ ~(u < t) /\ t \in Int /\ ~(t < t) BY <1>1, <1>2
  <2>2. Events(h, L + I, t) = UpTo(h, t) - UpTo(h, u) BY DEF Events
  <2>3. Events(g, L + I, t) = UpTo(g, t) - UpTo(g, u) BY DEF Events
  <2> HIDE DEF u
  <2>4. UpTo(g, t) = UpTo(h, t) + d /\ UpTo(g, u) = UpTo(h, u) + d BY Zenon, <1>4, <2>1
  <2>5. UpTo(h, t) \in Nat /\ UpTo(h, u) \in Nat BY Zenon, <1>5, <2>1
  <2> QED BY SMTT(20), <1>1, <2>2, <2>3, <2>4, <2>5
<1>8. \A k \in 1 .. size : M(k) = N(k) + d
  <2>1. Raised(size, c, b, o, d) BY Zenon, <1>1, BumpNewest
  <2> QED BY Zenon, <2>1 DEF Raised
<1>9. \A k \in 0 .. size : N(k) \in Nat BY Zenon, <1>1, NewestNat
<1>10. J \in Nat OBVIOUS
<1> HIDE DEF g, J, M, N
<1>11. ASSUME NEW k \in 1 .. size
       PROVE  Events(g, L - Age(k, I), t) <= M(k) /\ M(k) <= Events(g, L - Age(k, J), t)
  <2> DEFINE x == L - Age(k, I)
             y == L - Age(k, J)
             n == N(k)
  <2>1. k \in Nat \ {0} /\ k \in 0 .. size /\ I \in Nat /\ 0 \in Nat OBVIOUS
  <2>2. Age(k, I) \in Nat /\ Age(k, J) \in Nat BY Zenon, <1>10, <2>1, AgeSteps
  <2>3. x \in Int /\ x <= t /\ y \in Int /\ y <= t
    <3>1. \A a \in Nat : L - a \in Int /\ L - a <= t BY <1>1, <1>2
    <3> QED BY Zenon, <2>2, <3>1
  <2>4. Events(h, x, t) <= n /\ n <= Events(h, y, t) BY Zenon, <1>1 DEF Counts, J, N
  <2>5. n \in Nat /\ M(k) = n + d BY Zenon, <1>8, <1>9, <2>1
  <2> HIDE DEF x, y, n
  <2>6. Events(g, x, t) = Events(h, x, t) + d /\ Events(h, x, t) \in Int BY Zenon, <1>6, <2>3
  <2>7. Events(g, y, t) = Events(h, y, t) + d /\ Events(h, y, t) \in Int BY Zenon, <1>6, <2>3
  <2>8. Events(g, x, t) <= n + d /\ n + d <= Events(g, y, t) BY <2>4, <2>5, <2>6, <2>7
  <2> QED BY Zenon, <2>5, <2>8 DEF x, y
<1>12. Counts(size, I, c, o, L, g, t) BY Zenon, <1>11 DEF Counts, J, M
<1> QED BY Zenon, <1>1, <1>3, <1>7, <1>12 DEF Tracks, g

(* A window that begins with nothing to count.                             *)
LEMMA TracksBegins ==
    ASSUME NEW I \in Nat \ {0}, NEW size \in Nat \ {0}, NEW t \in Nat,
           NEW b \in [0 .. size - 1 -> Nat], \A i \in 0 .. size - 1 : b[i] = 0,
           NEW h \in [Times -> Nat], \A u \in Int : UpTo(h, u) = 0
    PROVE  Tracks(size, I, b, 0, t, h, t)
<1>1. History(h, t) BY DEF History, Growing, Quiet
<1>2. \A x \in Int : Events(h, x, t) = 0 BY DEF Events
<1>3. 0 \in 0 .. size - 1 /\ t <= t /\ t + I \in Int OBVIOUS
<1>4. \A k \in 0 .. size : Newest(size, b, 0, k) = 0 BY Zenon, <1>3, EmptyNewest
<1>5. ASSUME NEW k \in 1 .. size
      PROVE  /\ Events(h, t - Age(k, I), t) <= Newest(size, b, 0, k)
             /\ Newest(size, b, 0, k) <= Events(h, t - Age(k, 2 * I - 1), t)
  <2>1. t - Age(k, I) \in Int /\ t - Age(k, 2 * I - 1) \in Int BY DEF Age
  <2>2. Events(h, t - Age(k, I), t) = 0 /\ Events(h, t - Age(k, 2 * I - 1), t) = 0 BY Zenon, <1>2, <2>1
  <2>3. k \in 0 .. size /\ 0 <= 0 OBVIOUS
  <2>4. Newest(size, b, 0, k) = 0 BY Zenon, <1>4, <2>3
  <2> QED BY Zenon, <2>2, <2>3, <2>4
<1>6. Counts(size, I, b, 0, t, h, t) BY Zenon, <1>5 DEF Counts
<1>7. Events(h, t + I, t) = 0 BY Zenon, <1>2, <1>3
<1> QED BY Zenon, <1>1, <1>3, <1>6, <1>7 DEF Tracks

(* What the sum of all of the buckets says of the recent events.           *)
LEMMA TracksSum ==
    ASSUME NEW I \in Nat \ {0}, NEW size \in Nat \ {0}, NEW b, NEW o, NEW L, NEW h, NEW t \in Nat,
           Tracks(size, I, b, o, L, h, t), t - L < I
    PROVE  /\ Events(h, t - (size - 1) * I, t) <= SumOf(b, size)
           /\ SumOf(b, size) <= Events(h, t - ((2 * size - 1) * I - 1), t)
<1> DEFINE J == 2 * I - 1
           E(x) == Events(h, x, t)
           s == SumOf(b, size)
           u == (size - 1) * I
           v == (2 * size - 1) * I - 1
           w == (size - 1) * J
<1>1. /\ b \in [0 .. size - 1 -> Nat] /\ o \in 0 .. size - 1 /\ L \in Nat /\ L <= t /\ History(h, t)
      /\ Counts(size, I, b, o, L, h, t)
  BY Zenon DEF Tracks
<1>2. Newest(size, b, o, size) = s BY Zenon, <1>1, NewestSteps
<1>3. size \in 1 .. size /\ size \in 0 .. size OBVIOUS
<1>4. E(L - u) <= s /\ s <= E(L - w) BY Zenon, <1>1, <1>2, <1>3 DEF Counts, Age
<1>5. s \in Nat BY Zenon, <1>1, <1>2, <1>3, NewestNat
<1>6. u \in Nat /\ v = (u + w) + (I - 1) + (size - 1) - u /\ w \in Nat /\ v \in Int OBVIOUS
<1>7. /\ \A x \in Int : E(x) \in Int
      /\ \A x, y \in Int : x <= y => E(y) <= E(x)
  BY Zenon, <1>1, EventsShrink
<1> HIDE DEF J, E, s, u, v, w
<1>8. L - u <= t - u /\ t - v <= L - w BY <1>1, <1>6
<1>9. L - u \in Int /\ t - u \in Int /\ t - v \in Int /\ L - w \in Int BY <1>1, <1>6
<1>10. E(t - u) <= E(L - u) /\ E(L - w) <= E(t - v) BY Zenon, <1>7, <1>8, <1>9
<1>11. E(L - u) \in Int /\ E(t - u) \in Int /\ E(t - v) \in Int /\ E(L - w) \in Int BY Zenon, <1>7, <1>9
<1>12. E(t - u) <= s /\ s <= E(t - v) BY <1>4, <1>5, <1>10, <1>11
<1> QED BY Zenon, <1>12 DEF E, s, u, v
-----------------------------------------------------------------------------
(***************************************************************************)
(* GoogleBreaker.                                                          *)
(***************************************************************************)
Outcomes == [accepts : Nat, total : Nat]
BreakerWindows == [buckets : [0 .. Buckets - 1 -> Outcomes], offset : 0 .. Buckets - 1, lastTime : Nat]

(* The failures are what is no success, in the buckets and in the history. *)
FailuresOf(w) == [i \in 0 .. Buckets - 1 |-> w.buckets[i].total - w.buckets[i].accepts]
failures == [t \in Times |-> totals[t] - accepts[t]]

Follow(w, b, h) == Tracks(Buckets, BucketTime, b, w.offset, w.lastTime, h, now)

(* What is followed of a window.                                           *)
Followed(w) ==
    /\ w \in BreakerWindows
    /\ Follow(w, AcceptsOf(w), accepts)
    /\ Follow(w, TotalOf(w), totals)
    /\ Follow(w, FailuresOf(w), failures)

(* The inductive invariant of GoogleBreaker: the window follows each of    *)
(* the histories, that are empty until there is a window.                  *)
BreakerInv ==
    /\ now \in Times /\ Followed(window)
    /\ ~created => accepts = NoEvents /\ totals = NoEvents

(* advance is a shift of the buckets by e, or nothing.                     *)
Turned(w, w2, e) ==
    /\ w2 \in BreakerWindows
    /\ e = 0 => w2 = w
    /\ e # 0 => /\ w2.buckets = [i \in 0 .. Buckets - 1 |->
                                   IF i \in Cleared(Buckets, w.offset, e) THEN NoResults ELSE w.buckets[i]]
                /\ w2.offset = (w.offset + e) % Buckets
                /\ w2.lastTime = now

(* advance shifts the window by the intervals that have passed. *)
LEMMA AdvanceTurns ==
    ASSUME now \in Nat, NEW w \in BreakerWindows, w.lastTime <= now
    PROVE  Turned(w, Advance(w, now, Buckets, BucketTime, NoResults), Elapsed(w.lastTime, now, Buckets, BucketTime))
<1> DEFINE e == Elapsed(w.lastTime, now, Buckets, BucketTime)
           C == Cleared(Buckets, w.offset, e)
           b == [i \in 0 .. Buckets - 1 |-> IF i \in C THEN NoResults ELSE w.buckets[i]]
           o == (w.offset + e) % Buckets
           w2 == Advance(w, now, Buckets, BucketTime, NoResults)
<1>1. w2 = IF e = 0 THEN w ELSE [buckets |-> b, offset |-> o, lastTime |-> now]
  BY Zenon DEF Advance, Elapsed, Cleared
<1>2. Buckets \in Nat \ {0} /\ BucketTime \in Nat \ {0} BY BreakerConstants DEF BreakerConstants
<1>3. w.buckets \in [0 .. Buckets - 1 -> Outcomes] /\ w.offset \in 0 .. Buckets - 1 /\ w.lastTime \in Nat
  BY DEF BreakerWindows
<1>4. Passes(e, Buckets, BucketTime, now - w.lastTime) BY Zenon, <1>2, <1>3, ElapsedBounds
<1>5. e \in 0 .. Buckets BY Zenon, <1>4 DEF Passes
<1> HIDE DEF e, C, w2
<1>6. NoResults \in Outcomes BY DEF NoResults, Outcomes
<1>7. b \in [0 .. Buckets - 1 -> Outcomes] BY Zenon, <1>3, <1>6
<1>8. o \in 0 .. Buckets - 1 BY <1>2, <1>3, <1>5
<1> HIDE DEF b, o
<1>9. w2 \in BreakerWindows BY <1>1, <1>7, <1>8 DEF BreakerWindows
<1>10. e # 0 => w2.buckets = b /\ w2.offset = o /\ w2.lastTime = now BY <1>1
<1> QED BY Zenon, <1>1, <1>9, <1>10 DEF Turned, w2, e, C, b, o

(* So each kind of result goes on to be followed.                          *)
LEMMA TurnFollows ==
    ASSUME now \in Nat, NEW w \in BreakerWindows, NEW w2, NEW e, Turned(w, w2, e),
           Passes(e, Buckets, BucketTime, now - w.lastTime), NEW b, NEW c, NEW h, Follow(w, b, h),
           c \in [0 .. Buckets - 1 -> Int],
           \A i \in 0 .. Buckets - 1 : /\ w2.buckets[i] = w.buckets[i] => c[i] = b[i]
                                       /\ w2.buckets[i] = NoResults => c[i] = 0
    PROVE  Follow(w2, c, h)
<1> DEFINE o == w.offset
           L == w.lastTime
           C == Cleared(Buckets, o, e)
<1>1. Buckets \in Nat \ {0} /\ BucketTime \in Nat \ {0} BY BreakerConstants DEF BreakerConstants
<1>2. Tracks(Buckets, BucketTime, b, o, L, h, now) BY Zenon DEF Follow
<1>3. b \in [0 .. Buckets - 1 -> Nat] BY Zenon, <1>2 DEF Tracks
<1>4. c = [i \in 0 .. Buckets - 1 |-> c[i]] OBVIOUS
<1>5. CASE e = 0
  <2>1. w2 = w BY Zenon, <1>5 DEF Turned
  <2>2. \A i \in 0 .. Buckets - 1 : c[i] = b[i] BY Zenon, <2>1
  <2>3. b = [i \in 0 .. Buckets - 1 |-> b[i]] BY <1>3
  <2>4. c = b BY <1>4, <2>2, <2>3
  <2> QED BY Zenon, <2>1, <2>4
<1>6. CASE e # 0
  <2>1. /\ w2.buckets = [i \in 0 .. Buckets - 1 |-> IF i \in C THEN NoResults ELSE w.buckets[i]]
        /\ w2.offset = (o + e) % Buckets /\ w2.lastTime = now
    BY Zenon, <1>6 DEF Turned
  <2> HIDE DEF C
  <2>2. c = Shifted(Buckets, b, o, e)
    <3>1. \A i \in 0 .. Buckets - 1 : c[i] = IF i \in C THEN 0 ELSE b[i] BY <2>1
    <3>2. Shifted(Buckets, b, o, e) = [i \in 0 .. Buckets - 1 |-> IF i \in C THEN 0 ELSE b[i]]
      BY Zenon DEF Shifted, C
    <3> QED BY <1>4, <3>1, <3>2
  <2>3. Tracks(Buckets, BucketTime, Shifted(Buckets, b, o, e), (o + e) % Buckets, now, h, now)
    BY Zenon, <1>1, <1>2, <1>6, TracksShifted
  <2> QED BY Zenon, <2>1, <2>2, <2>3 DEF Follow
<1> QED BY Zenon, <1>5, <1>6

(* What is added up over the buckets of a window. *)
LEMMA PartsType ==
    ASSUME NEW w \in BreakerWindows
    PROVE  /\ AcceptsOf(w) \in [0 .. Buckets - 1 -> Int]
           /\ TotalOf(w) \in [0 .. Buckets - 1 -> Int]
           /\ FailuresOf(w) \in [0 .. Buckets - 1 -> Int]
<1> DEFINE b == w.buckets
<1>1. b \in [0 .. Buckets - 1 -> Outcomes] BY DEF BreakerWindows
<1> HIDE DEF b
<1>2. \A i \in 0 .. Buckets - 1 : b[i].accepts \in Nat /\ b[i].total \in Nat BY <1>1 DEF Outcomes
<1>3. AcceptsOf(w) = [i \in 0 .. Buckets - 1 |-> b[i].accepts] BY Zenon DEF AcceptsOf, b
<1>4. TotalOf(w) = [i \in 0 .. Buckets - 1 |-> b[i].total] BY Zenon DEF TotalOf, b
<1>5. FailuresOf(w) = [i \in 0 .. Buckets - 1 |-> b[i].total - b[i].accepts] BY Zenon DEF FailuresOf, b
<1> QED BY <1>2, <1>3, <1>4, <1>5

(* advance keeps the window of the breaker in step with the results. *)
LEMMA BreakerAdvances ==
    ASSUME now \in Nat, Followed(window)
    PROVE  Followed(Advanced) /\ now - Advanced.lastTime < BucketTime
<1> DEFINE w == Advanced
           e == Elapsed(window.lastTime, now, Buckets, BucketTime)
<1>1. /\ window \in BreakerWindows
      /\ Follow(window, AcceptsOf(window), accepts)
      /\ Follow(window, TotalOf(window), totals)
      /\ Follow(window, FailuresOf(window), failures)
  BY Zenon DEF Followed
<1>2. window.lastTime <= now /\ window.lastTime \in Nat BY Zenon, <1>1 DEF Follow, Tracks
<1>3. Turned(window, w, e) BY Zenon, <1>1, <1>2, AdvanceTurns DEF Advanced
<1>4. Buckets \in Nat \ {0} /\ BucketTime \in Nat \ {0} BY BreakerConstants DEF BreakerConstants
<1>5. Passes(e, Buckets, BucketTime, now - window.lastTime) BY Zenon, <1>2, <1>4, ElapsedBounds
<1> HIDE DEF w, e
<1>6. w \in BreakerWindows BY Zenon, <1>3 DEF Turned
<1>7. /\ AcceptsOf(w) \in [0 .. Buckets - 1 -> Int]
      /\ TotalOf(w) \in [0 .. Buckets - 1 -> Int]
      /\ FailuresOf(w) \in [0 .. Buckets - 1 -> Int]
  BY Zenon, <1>6, PartsType
<1>8. NoResults.accepts = 0 /\ NoResults.total = 0 BY DEF NoResults
<1>9. Follow(w, AcceptsOf(w), accepts)
  <2>1. \A i \in 0 .. Buckets - 1 : /\ w.buckets[i] = window.buckets[i] => AcceptsOf(w)[i] = AcceptsOf(window)[i]
                                    /\ w.buckets[i] = NoResults => AcceptsOf(w)[i] = 0
    BY Zenon, <1>8 DEF AcceptsOf
  <2> QED BY Zenon, <1>1, <1>3, <1>5, <1>7, <2>1, TurnFollows
<1>10. Follow(w, TotalOf(w), totals)
  <2>1. \A i \in 0 .. Buckets - 1 : /\ w.buckets[i] = window.buckets[i] => TotalOf(w)[i] = TotalOf(window)[i]
                                    /\ w.buckets[i] = NoResults => TotalOf(w)[i] = 0
    BY Zenon, <1>8 DEF TotalOf
  <2> QED BY Zenon, <1>1, <1>3, <1>5, <1>7, <2>1, TurnFollows
<1>11. Follow(w, FailuresOf(w), failures)
  <2>1. 0 - 0 = 0 OBVIOUS
  <2>2. \A i \in 0 .. Buckets - 1 : /\ w.buckets[i] = window.buckets[i] => FailuresOf(w)[i] = FailuresOf(window)[i]
                                    /\ w.buckets[i] = NoResults => FailuresOf(w)[i] = 0
    BY Zenon, <1>8, <2>1 DEF FailuresOf
  <2> QED BY Zenon, <1>1, <1>3, <1>5, <1>7, <2>2, TurnFollows
<1>12. now - w.lastTime < BucketTime
  <2>1. CASE e = 0
    <3>1. w = window BY Zenon, <1>3, <2>1 DEF Turned
    <3>2. now - window.lastTime < BucketTime BY Zenon, <1>5, <2>1 DEF Passes
    <3> QED BY Zenon, <3>1, <3>2
  <2>2. CASE e # 0
    <3>1. w.lastTime = now BY Zenon, <1>3, <2>2 DEF Turned
    <3> QED BY <1>4, <3>1
  <2> QED BY Zenon, <2>1, <2>2
<1> QED BY Zenon, <1>6, <1>9, <1>10, <1>11, <1>12 DEF Followed, w
=============================================================================
