-------------------------- MODULE MiddlewareProofs --------------------------
(***************************************************************************)
(* Proofs about the guards of a request: the limiters and the window of    *)
(* the breaker, whose invariants are those of GuardProofs, and the count   *)
(* of requests in AdaptiveShedder and what it drops, for every chain of    *)
(* guards, every number of requests and every value of the constants.      *)
(***************************************************************************)
EXTENDS RequestProofs, GuardProofs, FiniteSetTheorems, TLAPS

(* A step elsewhere keeps the invariant of the breaker. *)
LEMMA BreakerStays ==
    ASSUME BreakerInv, UNCHANGED <<now, breakerVars>>
    PROVE  BreakerInv'
BY Zenon DEF BreakerInv, Followed, Follow, failures, AcceptsOf, TotalOf, FailuresOf, breakerVars

(* Time passing keeps the invariant of the breaker. *)
LEMMA BreakerTicks ==
    ASSUME BreakerInv, Tick, UNCHANGED breakerVars
    PROVE  BreakerInv'
<1>1. /\ now \in Times /\ window \in BreakerWindows
      /\ Follow(window, AcceptsOf(window), accepts)
      /\ Follow(window, TotalOf(window), totals)
      /\ Follow(window, FailuresOf(window), failures)
  BY Zenon DEF BreakerInv, Followed
<1>2. now \in Nat /\ now' = now + 1 /\ now' \in Times BY <1>1, ClockConstants DEF ClockConstants, Tick, Times
<1>3. Buckets \in Nat \ {0} /\ BucketTime \in Nat \ {0} BY Zenon, BreakerConstants DEF BreakerConstants
<1>4. ASSUME NEW b, NEW h, Follow(window, b, h)
      PROVE  Tracks(Buckets, BucketTime, b, window.offset, window.lastTime, h, now')
  BY Zenon, <1>2, <1>3, <1>4, TracksTicks DEF Follow
<1>5. /\ Tracks(Buckets, BucketTime, AcceptsOf(window), window.offset, window.lastTime, accepts, now')
      /\ Tracks(Buckets, BucketTime, TotalOf(window), window.offset, window.lastTime, totals, now')
      /\ Tracks(Buckets, BucketTime, FailuresOf(window), window.offset, window.lastTime, failures, now')
  BY Zenon, <1>1, <1>4
<1>6. window' = window /\ accepts' = accepts /\ totals' = totals /\ created' = created BY Zenon DEF breakerVars
<1> QED BY Zenon, <1>1, <1>2, <1>5, <1>6 DEF BreakerInv, Followed, Follow, failures, AcceptsOf, TotalOf, FailuresOf

(* A new window, when nothing has been marked.                             *)
LEMMA NewWindowFollows ==
    ASSUME now \in Nat, accepts = NoEvents, totals = NoEvents
    PROVE  Followed(NewWindow(Buckets, NoResults, now))
<1> DEFINE w == NewWindow(Buckets, NoResults, now)
           zero == [i \in 0 .. Buckets - 1 |-> 0]
<1>1. Buckets \in Nat \ {0} /\ BucketTime \in Nat \ {0} BY Zenon, BreakerConstants DEF BreakerConstants
<1>2. /\ w.buckets = [i \in 0 .. Buckets - 1 |-> NoResults] /\ w.offset = 0 /\ w.lastTime = now
      /\ w = [buckets |-> [i \in 0 .. Buckets - 1 |-> NoResults], offset |-> 0, lastTime |-> now]
  BY Zenon DEF NewWindow
<1> HIDE DEF w
<1>3. w \in BreakerWindows
  <2>1. NoResults \in Outcomes BY Zenon DEF NoResults, Outcomes
  <2>2. 0 \in 0 .. Buckets - 1 BY <1>1
  <2> QED BY Zenon, <1>2, <2>1, <2>2 DEF BreakerWindows
<1>4. NoResults.accepts = 0 /\ NoResults.total = 0 /\ 0 - 0 = 0 BY DEF NoResults
<1>5. AcceptsOf(w) = zero /\ TotalOf(w) = zero /\ FailuresOf(w) = zero
  BY Zenon, <1>2, <1>4 DEF AcceptsOf, TotalOf, FailuresOf
<1>6. failures = NoEvents BY DEF failures, NoEvents
<1>7. NoEvents \in [Times -> Nat] /\ \A u \in Int : UpTo(NoEvents, u) = 0 BY Zenon, HistoryBegins DEF History
<1>8. zero \in [0 .. Buckets - 1 -> Nat] /\ \A i \in 0 .. Buckets - 1 : zero[i] = 0 BY Zenon
<1> HIDE DEF zero
<1>9. Tracks(Buckets, BucketTime, zero, 0, now, NoEvents, now) BY Zenon, <1>1, <1>7, <1>8, TracksBegins
<1> QED BY Zenon, <1>2, <1>3, <1>5, <1>6, <1>9 DEF Followed, Follow, w

(* Before the first request there is no breaker. *)
LEMMA BreakerBegins == ASSUME now = 0, NoBreaker PROVE BreakerInv
<1>1. now \in Nat /\ now \in Times BY ClockConstants DEF ClockConstants, Times
<1>2. window = NewWindow(Buckets, NoResults, now) /\ accepts = NoEvents /\ totals = NoEvents
  BY Zenon DEF NoBreaker
<1> QED BY Zenon, <1>1, <1>2, NewWindowFollows DEF BreakerInv

(* getHttpBreaker creates the breaker once.                                *)
LEMMA CreateKeeps ==
    ASSUME BreakerInv, createBreaker, now' = now
    PROVE  BreakerInv'
<1> DEFINE w == window'
<1>1. now \in Times /\ now \in Nat /\ Followed(window) BY DEF BreakerInv, Times
<1>2. Followed(w)
  <2>1. CASE created BY Zenon, <1>1, <2>1 DEF createBreaker
  <2>2. CASE ~created
    <3>1. w = NewWindow(Buckets, NoResults, now) BY Zenon, <2>2 DEF createBreaker
    <3>2. accepts = NoEvents /\ totals = NoEvents BY Zenon, <2>2 DEF BreakerInv
    <3> QED BY Zenon, <1>1, <3>1, <3>2, NewWindowFollows
  <2> QED BY Zenon, <2>1, <2>2
<1>3. accepts' = accepts /\ totals' = totals /\ created' = TRUE BY Zenon DEF createBreaker
<1> QED BY Zenon, <1>1, <1>2, <1>3 DEF BreakerInv, Followed, Follow, failures, AcceptsOf, TotalOf, FailuresOf

(* accept only turns the window.                                           *)
LEMMA AcceptKeeps ==
    ASSUME BreakerInv, NEW allowed, accept(allowed), now' = now
    PROVE  BreakerInv'
<1>1. now \in Times /\ now \in Nat /\ Followed(window) BY DEF BreakerInv, Times
<1>2. Followed(Advanced) BY Zenon, <1>1, BreakerAdvances
<1>3. window' = Advanced /\ accepts' = accepts /\ totals' = totals /\ created' = created BY Zenon DEF accept
<1>4. Followed(window') BY Zenon, <1>2, <1>3
<1> QED BY Zenon, <1>1, <1>3, <1>4 DEF BreakerInv, Followed, Follow, failures, AcceptsOf, TotalOf, FailuresOf

(* markSuccess and markFailure count in the newest bucket.                 *)
LEMMA MarkKeeps ==
    ASSUME BreakerInv, created, NEW success, mark(success), now' = now
    PROVE  BreakerInv'
<1> DEFINE w == Advanced
           o == w.offset
           one == IF success THEN 1 ELSE 0
           r == w.buckets[o]
           x == [accepts |-> r.accepts + one, total |-> r.total + 1]
           v == window'
<1>1. now \in Times /\ now \in Nat /\ Followed(window) BY DEF BreakerInv, Times
<1>2. Followed(w) /\ now - w.lastTime < BucketTime BY Zenon, <1>1, BreakerAdvances
<1>3. v = [w EXCEPT !.buckets[o] = x] BY Zenon DEF mark
<1>4. /\ accepts' = Counted(accepts, now, one) /\ totals' = Counted(totals, now, 1)
      /\ created' = created
  BY Zenon DEF mark
<1>5. one \in {0, 1} BY Zenon
<1>6. Buckets \in Nat \ {0} /\ BucketTime \in Nat \ {0} BY Zenon, BreakerConstants DEF BreakerConstants
<1>7. /\ w \in BreakerWindows
      /\ Follow(w, AcceptsOf(w), accepts) /\ Follow(w, TotalOf(w), totals) /\ Follow(w, FailuresOf(w), failures)
  BY Zenon, <1>2 DEF Followed
<1> HIDE DEF w, one, v
<1>8. w.buckets \in [0 .. Buckets - 1 -> Outcomes] /\ o \in 0 .. Buckets - 1 BY Zenon, <1>7 DEF BreakerWindows
<1>9. r.accepts \in Nat /\ r.total \in Nat BY Zenon, <1>8 DEF Outcomes
<1>10. x \in Outcomes /\ x.accepts = r.accepts + one /\ x.total = r.total + 1 BY <1>5, <1>9 DEF Outcomes
<1> HIDE DEF x
<1>11. v \in BreakerWindows BY Zenon, <1>3, <1>7, <1>10 DEF BreakerWindows
<1>12. v.offset = o /\ v.lastTime = w.lastTime /\ v.buckets = [w.buckets EXCEPT ![o] = x]
  BY Zenon, <1>3, <1>7 DEF BreakerWindows
<1>13. \A i \in 0 .. Buckets - 1 : v.buckets[i] = IF i = o THEN x ELSE w.buckets[i] BY Zenon, <1>8, <1>12
<1>14. ASSUME NEW b, NEW c, NEW h, NEW d \in Nat, Follow(w, b, h), c \in [0 .. Buckets - 1 -> Int],
              \A i \in 0 .. Buckets - 1 : c[i] = IF i = o THEN b[i] + d ELSE b[i]
       PROVE  Follow(v, c, Counted(h, now, d))
  <2>1. Tracks(Buckets, BucketTime, b, o, w.lastTime, h, now) BY Zenon, <1>14 DEF Follow
  <2>2. b \in [0 .. Buckets - 1 -> Nat] BY Zenon, <2>1 DEF Tracks
  <2>3. c \in [0 .. Buckets - 1 -> Nat] BY <1>14, <2>2
  <2>4. Tracks(Buckets, BucketTime, c, o, w.lastTime, Counted(h, now, d), now)
    BY Zenon, <1>1, <1>2, <1>6, <1>14, <2>1, <2>3, TracksBump
  <2> QED BY Zenon, <1>12, <2>4 DEF Follow
<1>15. /\ AcceptsOf(v) \in [0 .. Buckets - 1 -> Int]
       /\ TotalOf(v) \in [0 .. Buckets - 1 -> Int]
       /\ FailuresOf(v) \in [0 .. Buckets - 1 -> Int]
  BY Zenon, <1>11, PartsType
<1>16. one \in Nat /\ 1 \in Nat /\ 1 - one \in Nat BY <1>5
<1>17. Follow(v, AcceptsOf(v), Counted(accepts, now, one))
  <2>1. \A i \in 0 .. Buckets - 1 : AcceptsOf(v)[i] = IF i = o THEN AcceptsOf(w)[i] + one ELSE AcceptsOf(w)[i]
    BY Zenon, <1>10, <1>13 DEF AcceptsOf
  <2> QED BY Zenon, <1>7, <1>14, <1>15, <1>16, <2>1
<1>18. Follow(v, TotalOf(v), Counted(totals, now, 1))
  <2>1. \A i \in 0 .. Buckets - 1 : TotalOf(v)[i] = IF i = o THEN TotalOf(w)[i] + 1 ELSE TotalOf(w)[i]
    BY Zenon, <1>10, <1>13 DEF TotalOf
  <2> QED BY Zenon, <1>7, <1>14, <1>15, <1>16, <2>1
<1>19. Follow(v, FailuresOf(v), Counted(failures, now, 1 - one))
  <2>1. \A i \in 0 .. Buckets - 1 :
           FailuresOf(v)[i] = IF i = o THEN FailuresOf(w)[i] + (1 - one) ELSE FailuresOf(w)[i]
    <3>1. x.total - x.accepts = (r.total - r.accepts) + (1 - one) BY <1>5, <1>9, <1>10
    <3> QED BY Zenon, <1>13, <3>1 DEF FailuresOf
  <2> QED BY Zenon, <1>7, <1>14, <1>15, <1>16, <2>1
<1>20. failures' = Counted(failures, now, 1 - one)
  <2>1. accepts \in [Times -> Nat] /\ totals \in [Times -> Nat] BY Zenon, <1>7 DEF Follow, Tracks, History
  <2>2. \A t \in Times :
           /\ accepts'[t] = IF t < now THEN accepts[t] ELSE accepts[t] + one
           /\ totals'[t] = IF t < now THEN totals[t] ELSE totals[t] + 1
    BY Zenon, <1>4 DEF Counted
  <2>3. \A t \in Times : failures[t] = totals[t] - accepts[t] BY Zenon DEF failures
  <2>4. \A t \in Times : totals'[t] - accepts'[t] = IF t < now THEN failures[t] ELSE failures[t] + (1 - one)
    BY <1>5, <2>1, <2>2, <2>3
  <2>5. failures' = [t \in Times |-> totals'[t] - accepts'[t]] BY Zenon DEF failures, Times
  <2>6. Counted(failures, now, 1 - one) = [t \in Times |-> IF t < now THEN failures[t] ELSE failures[t] + (1 - one)]
    BY Zenon DEF Counted
  <2> QED BY Zenon, <2>4, <2>5, <2>6
<1>21. /\ Follow(v, AcceptsOf(v), accepts') /\ Follow(v, TotalOf(v), totals')
       /\ Follow(v, FailuresOf(v), failures')
  BY Zenon, <1>4, <1>17, <1>18, <1>19, <1>20
<1> QED
  BY Zenon, <1>1, <1>4, <1>11, <1>21 DEF BreakerInv, Followed, Follow, AcceptsOf, TotalOf, FailuresOf, v

(* What the sums of the window say of the recent results.                  *)
LEMMA BreakerCounts ==
    ASSUME BreakerInv
    PROVE  /\ WindowCounts
           /\ SumTotal(Advanced) \in Nat /\ SumAccepts(Advanced) \in Nat
           /\ SumTotal(Advanced) - SumAccepts(Advanced) <= Events(failures, Since(Stale - 1), now)
<1> DEFINE w == Advanced
<1>1. now \in Times /\ now \in Nat /\ Followed(window) BY DEF BreakerInv, Times
<1>2. Followed(w) /\ now - w.lastTime < BucketTime BY Zenon, <1>1, BreakerAdvances
<1>3. Buckets \in Nat \ {0} /\ BucketTime \in Nat \ {0} BY Zenon, BreakerConstants DEF BreakerConstants
<1>4. /\ w \in BreakerWindows
      /\ Follow(w, AcceptsOf(w), accepts) /\ Follow(w, TotalOf(w), totals) /\ Follow(w, FailuresOf(w), failures)
  BY Zenon, <1>2 DEF Followed
<1> HIDE DEF w
<1>5. ASSUME NEW b, NEW h, Follow(w, b, h)
      PROVE  /\ Events(h, Since(Fresh), now) <= SumOf(b, Buckets)
             /\ SumOf(b, Buckets) <= Events(h, Since(Stale - 1), now)
             /\ b \in [0 .. Buckets - 1 -> Nat]
  <2>1. Tracks(Buckets, BucketTime, b, w.offset, w.lastTime, h, now) BY Zenon, <1>5 DEF Follow
  <2>2. b \in [0 .. Buckets - 1 -> Nat] BY Zenon, <2>1 DEF Tracks
  <2> QED BY Zenon, <1>1, <1>2, <1>3, <2>1, <2>2, TracksSum DEF Since, Fresh, Stale
<1>6. /\ AcceptsOf(w) \in [0 .. Buckets - 1 -> Nat] /\ TotalOf(w) \in [0 .. Buckets - 1 -> Nat]
      /\ FailuresOf(w) \in [0 .. Buckets - 1 -> Nat]
  BY Zenon, <1>4, <1>5
<1> DEFINE a == SumOf(AcceptsOf(w), Buckets)
           f == SumOf(FailuresOf(w), Buckets)
           s == SumOf(TotalOf(w), Buckets)
<1>7. s = a + f
  <2>1. w.buckets \in [0 .. Buckets - 1 -> Outcomes] BY Zenon, <1>4 DEF BreakerWindows
  <2>2. \A i \in 0 .. Buckets - 1 : w.buckets[i].accepts \in Nat /\ w.buckets[i].total \in Nat
    BY Zenon, <2>1 DEF Outcomes
  <2>3. \A i \in 0 .. Buckets - 1 : TotalOf(w)[i] = AcceptsOf(w)[i] + FailuresOf(w)[i]
    BY <2>2 DEF AcceptsOf, TotalOf, FailuresOf
  <2>4. Buckets \in Nat BY Zenon, <1>3
  <2> QED BY Zenon, <1>6, <2>3, <2>4, SumOfParts
<1>8. a \in Nat /\ f \in Nat /\ s \in Nat
  <2>1. Buckets \in 0 .. Buckets /\ Buckets \in Nat BY <1>3
  <2> QED BY Zenon, <1>6, <2>1, SumOfSteps
<1>9. /\ Events(accepts, Since(Fresh), now) <= a /\ a <= Events(accepts, Since(Stale - 1), now)
      /\ Events(totals, Since(Fresh), now) <= s /\ s <= Events(totals, Since(Stale - 1), now)
      /\ f <= Events(failures, Since(Stale - 1), now)
  BY Zenon, <1>4, <1>5
<1>10. SumTotal(w) = s /\ SumAccepts(w) = a BY Zenon DEF SumTotal, SumAccepts
<1> HIDE DEF a, f, s
<1>11. s - a = f BY <1>7, <1>8
<1>13. WindowCounts BY Zenon, <1>9, <1>10 DEF WindowCounts, w
<1> QED BY Zenon, <1>8, <1>9, <1>10, <1>11, <1>13 DEF w

(* With a K of at least 1 accept refuses only over failures.               *)
LEMMA RefusedOverFailures ==
    ASSUME BreakerInv, KNum >= KDen, accept(FALSE)
    PROVE  /\ Events(totals, Since(Stale - 1), now) >= MinReqs
           /\ Events(totals, Since(Stale - 1), now) > Events(accepts, Since(Stale - 1), now)
<1> DEFINE since == Since(Stale - 1)
           s == SumTotal(Advanced)
           a == SumAccepts(Advanced)
<1>1. s >= MinReqs /\ KDen * s > KNum * a BY Zenon DEF accept
<1>2. /\ s \in Nat /\ a \in Nat /\ s - a <= Events(failures, since, now)
      /\ s <= Events(totals, since, now)
  BY Zenon, BreakerCounts DEF WindowCounts
<1>3. KNum \in Nat /\ KDen \in Nat \ {0} /\ MinReqs \in Nat BY Zenon, BreakerConstants DEF BreakerConstants
<1>4. /\ Events(failures, since, now) = Events(totals, since, now) - Events(accepts, since, now)
      /\ Events(totals, since, now) \in Int /\ Events(accepts, since, now) \in Int
  <2>1. accepts \in [Times -> Nat] /\ totals \in [Times -> Nat]
    BY Zenon DEF BreakerInv, Followed, Follow, Tracks, History
  <2>2. since \in Int /\ now \in Int
    BY BreakerConstants DEF BreakerConstants, Since, Stale, BreakerInv, Times
  <2> HIDE DEF since
  <2>3. \A u \in Int : UpTo(accepts, u) \in Nat /\ UpTo(totals, u) \in Nat BY Zenon, <2>1, UpToNat
  <2>4. ASSUME NEW u \in Int PROVE UpTo(failures, u) = UpTo(totals, u) - UpTo(accepts, u)
    <3>1. \A t \in Times : failures[t] = totals[t] - accepts[t] BY Zenon DEF failures
    <3> QED BY <3>1, ClockConstants DEF ClockConstants, UpTo, Times
  <2>5. since - 1 \in Int BY <2>2
  <2>6. /\ UpTo(accepts, now) \in Nat /\ UpTo(totals, now) \in Nat
        /\ UpTo(accepts, since - 1) \in Nat /\ UpTo(totals, since - 1) \in Nat
    BY Zenon, <2>2, <2>3, <2>5
  <2>7. /\ UpTo(failures, now) = UpTo(totals, now) - UpTo(accepts, now)
        /\ UpTo(failures, since - 1) = UpTo(totals, since - 1) - UpTo(accepts, since - 1)
    BY Zenon, <2>2, <2>4, <2>5
  <2> QED BY <2>6, <2>7 DEF Events
<1> HIDE DEF since, s, a
<1>5. s > a
  <2>1. SUFFICES ASSUME s <= a PROVE FALSE BY <1>2
  <2>2. a - s \in Nat /\ KNum - KDen \in Nat BY <1>2, <1>3, <2>1
  <2>3. KDen * (a - s) \in Nat /\ (KNum - KDen) * a \in Nat BY <1>2, <1>3, <2>2
  <2>4. KNum * a = (KDen * s + KDen * (a - s)) + (KNum - KDen) * a BY <1>2, <1>3
  <2>5. KDen * s \in Nat /\ KNum * a \in Nat BY <1>2, <1>3
  <2> QED BY <1>1, <2>3, <2>4, <2>5
<1> DEFINE T == Events(totals, since, now)
           A == Events(accepts, since, now)
<1>6. s <= T /\ s - a <= T - A /\ T \in Int /\ A \in Int BY Zenon, <1>2, <1>4
<1> HIDE DEF T, A
<1>7. T >= MinReqs /\ T > A BY <1>1, <1>2, <1>3, <1>5, <1>6
<1> QED BY Zenon, <1>7 DEF T, A, since
-----------------------------------------------------------------------------
(***************************************************************************)
(* The steps of the requests, one guard after the other.                   *)
(***************************************************************************)
LEMMA PeriodKept ==
    ASSUME PeriodInv, Placed, [Next]_vars
    PROVE  PeriodInv'
<1>1. ASSUME NEW q \in Requests, PeriodTake(q) PROVE PeriodInv'
  <2>1. PICK allowed \in BOOLEAN : PeriodScript(allowed) BY Zenon, <1>1 DEF PeriodTake
  <2>2. now' = now BY Zenon, <1>1 DEF PeriodTake, Forward, TooMany, Back
  <2> QED BY Zenon, <2>1, <2>2, PeriodScriptKeeps
<1>2. ASSUME NEW q \in Requests, PeriodTakeFails(q) PROVE PeriodInv'
  <2>1. now' = now BY Zenon, <1>2 DEF PeriodTakeFails, Goto
  <2>2. CASE UNCHANGED periodVars BY Zenon, <2>1, <2>2, PeriodStays
  <2>3. CASE \E allowed \in BOOLEAN : PeriodScript(allowed) BY Zenon, <2>1, <2>3, PeriodScriptKeeps
  <2> QED BY Zenon, <1>2, <2>2, <2>3 DEF PeriodTakeFails
<1>3. ASSUME NEW q \in Requests, PeriodLocal(q) PROVE PeriodInv'
  <2>1. PICK allowed \in BOOLEAN : localTake(ReplicaOf[q], allowed) BY Zenon, <1>3 DEF PeriodLocal
  <2>2. now' = now BY Zenon, <1>3 DEF PeriodLocal, Forward, TooMany, Back
  <2>3. ReplicaOf[q] \in Replicas BY Zenon, MiddlewareConstants DEF MiddlewareConstants
  <2> QED BY Zenon, <2>1, <2>2, <2>3, LocalTakeKeeps
<1>4. ASSUME NEW r \in Replicas, PeriodCleanup(r) PROVE PeriodInv'
  BY Zenon, <1>4, CleanupKeeps DEF PeriodCleanup
<1>5. ASSUME NEW q \in Requests, Arrive(q) \/ HandlerReturns(q) \/ HandlerPanics(q)
      PROVE  UNCHANGED <<now, periodVars>>
  BY Zenon, <1>5 DEF Arrive, HandlerReturns, HandlerPanics, Back
<1>6. ASSUME NEW q \in Requests, RateReadsClock(q) \/ RateReserve(q) \/ RateReserveFails(q) \/ RateLocal(q)
      PROVE  UNCHANGED <<now, periodVars>>
  BY Zenon, <1>6 DEF RateReadsClock, RateReserve, RateReserveFails, RateLocal, TooMany, Back, Forward, Goto
<1>7. ASSUME NEW q \in Requests, BreakerLookup(q) \/ BreakerCreate(q) \/ BreakerAllow(q) \/ BreakerMarks(q)
      PROVE  UNCHANGED <<now, periodVars>>
  BY Zenon, <1>7 DEF BreakerLookup, BreakerCreate, BreakerAllow, BreakerMarks, Unavailable, Back, Forward, Goto
<1>8. ASSUME NEW q \in Requests,
             \/ ShedderChecks(q) \/ ShedderClears(q) \/ ShedderReadsFlying(q) \/ ShedderDecides(q)
             \/ ShedderNotesTime(q) \/ ShedderDrops(q) \/ ShedderAllows(q)
             \/ ShedderLands(q) \/ ShedderAddsPass(q) \/ ShedderAddsRt(q)
      PROVE  UNCHANGED <<now, periodVars>>
  BY Zenon, <1>8 DEF ShedderChecks, ShedderClears, ShedderReadsFlying, ShedderDecides, ShedderNotesTime,
         ShedderDrops, ShedderAllows, ShedderLands, ShedderAddsPass, ShedderAddsRt,
         Unavailable, Back, Goto
<1>9. ASSUME TimePasses PROVE PeriodInv' BY Zenon, <1>9, PeriodTicks DEF TimePasses
<1>10. ASSUME UNCHANGED vars PROVE PeriodInv' BY Zenon, <1>10, PeriodStays DEF vars
<1>11. ASSUME NEW q \in Requests, RequestStep(q) PROVE PeriodInv'
  BY Zenon, <1>1, <1>2, <1>3, <1>5, <1>6, <1>7, <1>8, <1>11, PeriodStays DEF RequestStep
<1> QED BY Zenon, <1>4, <1>9, <1>10, <1>11 DEF Next

(* Every step of the middleware keeps the invariant of the token limiter. *)
LEMMA TokenKept ==
    ASSUME TokenInv, Placed, [Next]_vars
    PROVE  TokenInv'
<1>1. ASSUME NEW q \in Requests, At(q, "rate", "eval") \/ At(q, "rate", "local")
      PROVE  stamp[q] \in 0 .. now /\ stamp[q] \in Times
  <2>1. stamp[q] \in 0 .. now BY Zenon, <1>1, AtFacts, RowOf DEF Row
  <2> QED BY <2>1, ClockConstants DEF ClockConstants, Placed, Times
<1>2. ASSUME NEW q \in Requests, RateReserve(q) PROVE TokenInv'
  <2>1. PICK allowed \in BOOLEAN : TokenScript(stamp[q], 1, allowed) BY Zenon, <1>2 DEF RateReserve
  <2>2. now' = now /\ At(q, "rate", "eval") BY Zenon, <1>2 DEF RateReserve, Forward, TooMany, Back
  <2> QED BY Zenon, <1>1, <2>1, <2>2, TokenScriptKeeps
<1>3. ASSUME NEW q \in Requests, RateReserveFails(q) PROVE TokenInv'
  <2>1. now' = now /\ At(q, "rate", "eval") BY Zenon, <1>3 DEF RateReserveFails, Goto
  <2>2. CASE UNCHANGED tokenVars BY Zenon, <2>1, <2>2, TokenStays
  <2>3. CASE \E allowed \in BOOLEAN : TokenScript(stamp[q], 1, allowed)
    BY Zenon, <1>1, <2>1, <2>3, TokenScriptKeeps
  <2> QED BY Zenon, <1>3, <2>2, <2>3 DEF RateReserveFails
<1>4. ASSUME NEW q \in Requests, RateLocal(q) PROVE TokenInv'
  <2>1. PICK allowed \in BOOLEAN : localAllow(ReplicaOf[q], stamp[q], 1, allowed)
    BY Zenon, <1>4 DEF RateLocal
  <2>2. now' = now /\ At(q, "rate", "local") BY Zenon, <1>4 DEF RateLocal, Forward, TooMany, Back
  <2>3. ReplicaOf[q] \in Replicas BY Zenon, MiddlewareConstants DEF MiddlewareConstants
  <2> QED BY Zenon, <1>1, <2>1, <2>2, <2>3, LocalAllowKeeps
<1>5. ASSUME NEW q \in Requests, Arrive(q) \/ HandlerReturns(q) \/ HandlerPanics(q) \/ RateReadsClock(q)
      PROVE  UNCHANGED <<now, tokenVars>>
  BY Zenon, <1>5 DEF Arrive, HandlerReturns, HandlerPanics, RateReadsClock, Back
<1>6. ASSUME NEW q \in Requests, PeriodTake(q) \/ PeriodTakeFails(q) \/ PeriodLocal(q)
      PROVE  UNCHANGED <<now, tokenVars>>
  BY Zenon, <1>6 DEF PeriodTake, PeriodTakeFails, PeriodLocal, TooMany, Back, Forward, Goto
<1>7. ASSUME NEW q \in Requests, BreakerLookup(q) \/ BreakerCreate(q) \/ BreakerAllow(q) \/ BreakerMarks(q)
      PROVE  UNCHANGED <<now, tokenVars>>
  BY Zenon, <1>7 DEF BreakerLookup, BreakerCreate, BreakerAllow, BreakerMarks, Unavailable, Back, Forward, Goto
<1>8. ASSUME NEW q \in Requests,
             \/ ShedderChecks(q) \/ ShedderClears(q) \/ ShedderReadsFlying(q) \/ ShedderDecides(q)
             \/ ShedderNotesTime(q) \/ ShedderDrops(q) \/ ShedderAllows(q)
             \/ ShedderLands(q) \/ ShedderAddsPass(q) \/ ShedderAddsRt(q)
      PROVE  UNCHANGED <<now, tokenVars>>
  BY Zenon, <1>8 DEF ShedderChecks, ShedderClears, ShedderReadsFlying, ShedderDecides, ShedderNotesTime,
         ShedderDrops, ShedderAllows, ShedderLands, ShedderAddsPass, ShedderAddsRt,
         Unavailable, Back, Goto
<1>9. ASSUME NEW r \in Replicas, PeriodCleanup(r) PROVE UNCHANGED <<now, tokenVars>>
  BY Zenon, <1>9 DEF PeriodCleanup
<1>10. ASSUME TimePasses PROVE TokenInv' BY Zenon, <1>10, TokenTicks DEF TimePasses
<1>11. ASSUME UNCHANGED vars PROVE TokenInv' BY Zenon, <1>11, TokenStays DEF vars
<1>12. ASSUME NEW q \in Requests, RequestStep(q) PROVE TokenInv'
  BY Zenon, <1>2, <1>3, <1>4, <1>5, <1>6, <1>7, <1>8, <1>12, TokenStays DEF RequestStep
<1> QED BY Zenon, <1>9, <1>10, <1>11, <1>12, TokenStays DEF Next
(* Every step of the middleware keeps the invariant of the breaker. *)
LEMMA BreakerInvKept ==
    ASSUME BreakerInv, Placed, Made, [Next]_vars
    PROVE  BreakerInv'
<1>1. ASSUME NEW q \in Requests, BreakerCreate(q) PROVE BreakerInv'
  <2>1. createBreaker /\ now' = now BY Zenon, <1>1 DEF BreakerCreate, Goto
  <2> QED BY Zenon, <2>1, CreateKeeps
<1>2. ASSUME NEW q \in Requests, BreakerAllow(q) PROVE BreakerInv'
  <2>1. PICK allowed \in BOOLEAN : accept(allowed) BY Zenon, <1>2 DEF BreakerAllow
  <2>2. now' = now BY Zenon, <1>2 DEF BreakerAllow, Forward, Unavailable, Back
  <2> QED BY Zenon, <2>1, <2>2, AcceptKeeps
<1>3. ASSUME NEW q \in Requests, BreakerMarks(q) PROVE BreakerInv'
  <2>1. At(q, "breaker", "leave") /\ mark(status[q] = "ok") /\ now' = now
    BY Zenon, <1>3 DEF BreakerMarks, Back
  <2>2. pos[q] \in 1 .. Len(chain) /\ chain[pos[q]] = "breaker" /\ pc[q] = "leave" BY Zenon, <2>1, AtFacts
  <2>3. Past(pos[q], pc[q]) BY Zenon, <2>2 DEF Past
  <2>4. created BY Zenon, <2>3 DEF Made
  <2> QED BY Zenon, <2>1, <2>4, MarkKeeps
<1>4. ASSUME NEW q \in Requests, Arrive(q) \/ HandlerReturns(q) \/ HandlerPanics(q) \/ BreakerLookup(q)
      PROVE  UNCHANGED <<now, breakerVars>>
  BY Zenon, <1>4 DEF Arrive, HandlerReturns, HandlerPanics, BreakerLookup, Back, Goto
<1>5. ASSUME NEW q \in Requests, PeriodTake(q) \/ PeriodTakeFails(q) \/ PeriodLocal(q)
      PROVE  UNCHANGED <<now, breakerVars>>
  BY Zenon, <1>5 DEF PeriodTake, PeriodTakeFails, PeriodLocal, TooMany, Back, Forward, Goto
<1>6. ASSUME NEW q \in Requests, RateReadsClock(q) \/ RateReserve(q) \/ RateReserveFails(q) \/ RateLocal(q)
      PROVE  UNCHANGED <<now, breakerVars>>
  BY Zenon, <1>6 DEF RateReadsClock, RateReserve, RateReserveFails, RateLocal, TooMany, Back, Forward, Goto
<1>7. ASSUME NEW q \in Requests,
             \/ ShedderChecks(q) \/ ShedderClears(q) \/ ShedderReadsFlying(q) \/ ShedderDecides(q)
             \/ ShedderNotesTime(q) \/ ShedderDrops(q) \/ ShedderAllows(q)
             \/ ShedderLands(q) \/ ShedderAddsPass(q) \/ ShedderAddsRt(q)
      PROVE  UNCHANGED <<now, breakerVars>>
  BY Zenon, <1>7 DEF ShedderChecks, ShedderClears, ShedderReadsFlying, ShedderDecides, ShedderNotesTime,
         ShedderDrops, ShedderAllows, ShedderLands, ShedderAddsPass, ShedderAddsRt,
         Unavailable, Back, Goto
<1>8. ASSUME NEW r \in Replicas, PeriodCleanup(r) PROVE UNCHANGED <<now, breakerVars>>
  BY Zenon, <1>8 DEF PeriodCleanup
<1>9. ASSUME TimePasses PROVE BreakerInv' BY Zenon, <1>9, BreakerTicks DEF TimePasses
<1>10. ASSUME UNCHANGED vars PROVE UNCHANGED <<now, breakerVars>> BY Zenon, <1>10 DEF vars
<1>11. ASSUME NEW q \in Requests, RequestStep(q) PROVE BreakerInv'
  BY Zenon, <1>1, <1>2, <1>3, <1>4, <1>5, <1>6, <1>7, <1>11, BreakerStays DEF RequestStep
<1> QED BY Zenon, <1>8, <1>9, <1>10, <1>11, BreakerStays DEF Next
-----------------------------------------------------------------------------
(***************************************************************************)
(* The theorems.                                                           *)
(***************************************************************************)
Flies == Tallies /\ flying = Cardinality(InsideSet) + panics

(* flying goes on counting those inside and the panics.                    *)
LEMMA FliesKept == ASSUME Flies, Tallied PROVE Flies'
<1>1. IsFiniteSet(InsideSet) /\ Cardinality(InsideSet) \in Nat
  <2>1. InsideSet \subseteq Requests /\ IsFiniteSet(Requests)
    BY Zenon, MiddlewareConstants DEF MiddlewareConstants, InsideSet
  <2>2. IsFiniteSet(InsideSet) BY Zenon, <2>1, FS_Subset
  <2> QED BY Zenon, <2>2, FS_CardinalityType
<1>2. flying \in Int /\ panics \in Nat /\ flying' \in Int /\ panics' \in Nat
  BY Zenon DEF Flies, Tallied, Tallies
<1>3. flying - panics = Cardinality(InsideSet) BY <1>1, <1>2 DEF Flies
<1>4. flying' - panics' = Cardinality(InsideSet')
  <2>1. CASE InsideSet' = InsideSet /\ flying' - panics' = flying - panics BY Zenon, <1>3, <2>1
  <2>2. CASE \E q \in Requests \ InsideSet :
                InsideSet' = InsideSet \cup {q} /\ flying' - panics' = (flying - panics) + 1
    BY Zenon, <1>1, <1>3, <2>2, FS_AddElement
  <2>3. CASE \E q \in InsideSet :
                InsideSet' = InsideSet \ {q} /\ flying' - panics' = (flying - panics) - 1
    BY Zenon, <1>1, <1>3, <2>3, FS_RemoveElement
  <2> QED BY Zenon, <2>1, <2>2, <2>3 DEF Tallied
<1>5. flying' = Cardinality(InsideSet') + panics'
  <2>1. Cardinality(InsideSet') \in Int BY <1>2, <1>4
  <2> QED BY <1>2, <1>4, <2>1
<1> QED BY Zenon, <1>5 DEF Flies, Tallied

(* What the requests, the limiters, the breaker and the shedder keep.      *)
MiddlewareInv ==
    /\ Placed /\ Flies /\ Told /\ Made /\ Solo
    /\ PeriodInv /\ TokenInv /\ BreakerInv /\ BreakerTypeOK /\ ShedderTypeOK

(* A server that has served nobody. *)
LEMMA MiddlewareBegins == Init => MiddlewareInv
<1> SUFFICES ASSUME Init PROVE MiddlewareInv BY Zenon
<1>1. now = 0 /\ NewPeriodLimiter /\ NewTokenLimiter /\ NoBreaker /\ NewAdaptiveShedder BY Zenon DEF Init
<1>2. PeriodInv /\ TokenInv BY Zenon, <1>1, PeriodBegins, TokenBegins
<1>3. Told
  <2>1. arrivals \in Nat /\ status \in [Requests -> {"ok", "error"}] BY Zenon DEF Init
  <2>2. alone \in [Requests -> BOOLEAN] BY Zenon DEF Init
  <2> QED BY Zenon, <2>1, <2>2 DEF Told
<1>4. chain \in DOMAIN Limits /\ 0 \in Times BY ClockConstants DEF ClockConstants, Init, Times
<1>5. Placed
  <2>1. /\ pos = [q \in Requests |-> 0] /\ pc = [q \in Requests |-> "idle"]
        /\ stamp = [q \in Requests |-> 0] /\ start = [q \in Requests |-> 0]
    BY Zenon DEF Init
  <2>2. Row(0, "idle", 0, 0) BY <1>1, <1>4, ChainType DEF Row, Locations
  <2>3. \A q \in Requests : Row(pos[q], pc[q], stamp[q], start[q]) BY Zenon, <2>1, <2>2
  <2> QED BY <1>1, <1>4, <2>1, <2>3 DEF Placed, Locations
<1>6. Flies
  <2>1. \A q \in Requests : ~Inside(q) BY <1>4, ChainType DEF Init, Inside
  <2>2. InsideSet = {} BY Zenon, <2>1 DEF InsideSet
  <2>3. Cardinality(InsideSet) = 0 BY Zenon, <2>2, FS_EmptySet
  <2>4. flying = 0 /\ panics = 0 BY Zenon DEF Init, NewAdaptiveShedder
  <2> QED BY <2>3, <2>4 DEF Flies, Tallies
<1>7. BreakerTypeOK
  <2>1. Buckets \in Nat \ {0} /\ NoResults \in Outcomes
    BY Zenon, BreakerConstants DEF BreakerConstants, NoResults, Outcomes
  <2>2. NewWindow(Buckets, NoResults, 0) \in Windows(Buckets, Outcomes) BY Zenon, <2>1, NewWindowType
  <2>3. NoEvents \in [Times -> Nat] BY Zenon, HistoryBegins DEF History
  <2> QED BY Zenon, <1>1, <2>2, <2>3 DEF BreakerTypeOK, NoBreaker, Windows, Outcomes
<1>8. ShedderTypeOK
  <2>1. bucketNum \in Nat \ {0} /\ 0 \in Nat /\ 0 \in Int BY ShedderConstants DEF ShedderConstants
  <2>2. NewWindow(bucketNum, 0, 0) \in Windows(bucketNum, Nat) BY Zenon, <2>1, NewWindowType
  <2> QED BY Zenon, <1>1, <2>1, <2>2 DEF ShedderTypeOK, NewAdaptiveShedder, CounterType, Windows
<1>9. Made
  <2>1. \A q \in Requests : pos[q] = 0 BY Zenon DEF Init
  <2>2. 0 \in Int OBVIOUS
  <2>3. \A l : ~Past(0, l) BY Zenon, <1>4, <2>2, PastFacts
  <2> QED BY Zenon, <2>1, <2>3 DEF Made
<1>10. Solo BY Zenon DEF Init, Solo
<1>11. BreakerInv BY Zenon, <1>1, BreakerBegins
<1> QED BY Zenon, <1>2, <1>3, <1>5, <1>6, <1>7, <1>8, <1>9, <1>10, <1>11 DEF MiddlewareInv

(* Every step of the middleware preserves MiddlewareInv. *)
LEMMA MiddlewareKept == MiddlewareInv /\ [Next]_vars => MiddlewareInv'
<1> SUFFICES ASSUME MiddlewareInv, [Next]_vars PROVE MiddlewareInv' BY Zenon
<1>1. /\ Placed /\ Flies /\ Told /\ Made /\ Solo /\ now \in Times
      /\ PeriodInv /\ TokenInv /\ BreakerInv /\ BreakerTypeOK /\ ShedderTypeOK
  BY Zenon DEF MiddlewareInv, Placed
<1>2. Placed' /\ Tallied BY Zenon, <1>1, RequestsKeep DEF Flies
<1>3. Flies' /\ Tallies' BY Zenon, <1>1, <1>2, FliesKept DEF Tallied
<1>4. Told' /\ Made' /\ PeriodInv' /\ TokenInv' BY Zenon, <1>1, ToldKept, MadeKept, PeriodKept, TokenKept
<1>5. BreakerTypeOK' /\ BreakerInv' BY Zenon, <1>1, BreakerKept, BreakerInvKept
<1>6. ShedderTypeOK' BY Zenon, <1>1, <1>3, ShedderKept
<1>7. Solo'
  <2>1. Tallies /\ panics \in Int BY <1>1 DEF Flies, Tallies
  <2>2. ASSUME InsideSet = {} PROVE flying = panics
    <3>1. Cardinality(InsideSet) = 0 BY Zenon, <2>2, FS_EmptySet
    <3> QED BY <1>1, <2>1, <3>1 DEF Flies
  <2> QED BY Zenon, <1>1, <1>2, <2>1, <2>2, SoloKept
<1> QED BY Zenon, <1>2, <1>3, <1>4, <1>5, <1>6, <1>7 DEF MiddlewareInv

(* The invariant of the middleware, for any chain of guards in front of    *)
(* the handlers: the guards count what they have seen, and the requests    *)
(* are where the guards believe them to be.                                *)
THEOREM MiddlewareInvHolds == Spec => []MiddlewareInv
BY MiddlewareBegins, MiddlewareKept, PTL DEF Spec

(* In any interval of the length of a period Redis lets through no more    *)
(* than twice the quota, and each process by itself no more than that      *)
(* again (Take, localTake, cleanupLoop).                                   *)
THEOREM PeriodBoundedHolds == Spec => []PeriodBounded
<1>1. MiddlewareInv => PeriodBounded BY Zenon, PeriodInvBounded DEF MiddlewareInv
<1> QED BY <1>1, MiddlewareInvHolds, PTL

(* A bucket gives out its capacity and what is generated meanwhile, and no *)
(* more: the local one whatever the order in which the requests reach it,  *)
(* the one in Redis while none of them is late (tokenLimitScript,          *)
(* localAllow).                                                            *)
THEOREM TokensBoundedHolds == Spec => []TokensBounded
<1>1. MiddlewareInv => TokensBounded BY Zenon, TokenInvBounded DEF MiddlewareInv
<1> QED BY <1>1, MiddlewareInvHolds, PTL

(* flying is the number of the requests that the shedder has let in and    *)
(* not yet counted out, and of those whose handler has panicked (Allow,    *)
(* Pass, Fail).                                                            *)
THEOREM FlyingCountsHolds == Spec => []FlyingCounts
<1>1. MiddlewareInv => FlyingCounts
  <2> SUFFICES ASSUME MiddlewareInv PROVE FlyingCounts BY Zenon
  <2>1. Placed /\ Flies /\ Told /\ PeriodInv /\ TokenInv /\ BreakerTypeOK /\ ShedderTypeOK
    BY Zenon DEF MiddlewareInv
  <2>2. pos \in [Requests -> 0 .. Len(chain) + 1] BY Zenon, <2>1 DEF Placed, Row
  <2>3. chain \in Seq(Guards) BY Zenon, <2>1, ChainType DEF Placed
  <2>4. TypeOK BY Zenon, <2>1, <2>2, <2>3 DEF TypeOK, Placed, Flies, Tallies, Told, PeriodInv, TokenInv
  <2> QED BY Zenon, <2>1, <2>4 DEF FlyingCounts, Flies, InsideSet
<1> QED BY <1>1, MiddlewareInvHolds, PTL

(* Redis refuses a request only when it has let quota others pass in the   *)
(* period up to now (periodLimitScript).                                   *)
THEOREM RefusedOverQuotaHolds == Spec => RefusedOverQuota
<1> DEFINE A == \A q \in Requests :
                   PeriodTake(q) /\ pos'[q] < pos[q] => Events(passed, now - period + 1, now) >= quota
<1>1. MiddlewareInv /\ [Next]_vars => [A]_vars
  <2> SUFFICES ASSUME MiddlewareInv, NEW q \in Requests, PeriodTake(q), pos'[q] < pos[q]
               PROVE  Events(passed, now - period + 1, now) >= quota
    BY Zenon
  <2>1. PICK allowed \in BOOLEAN : PeriodScript(allowed) /\ (IF allowed THEN Forward(q) ELSE TooMany(q))
    BY Zenon DEF PeriodTake
  <2>2. Placed /\ PeriodInv BY Zenon DEF MiddlewareInv
  <2>3. pos \in [Requests -> Int] BY Zenon, <2>2 DEF Placed
  <2>4. ~Forward(q) BY <2>3 DEF Forward
  <2>5. ~allowed BY Zenon, <2>1, <2>4
  <2>6. now' = now BY Zenon, <2>1, <2>5 DEF TooMany, Back
  <2> QED BY Zenon, <2>1, <2>2, <2>5, <2>6, PeriodScriptKeeps
<1>2. Spec => [][A]_vars BY <1>1, MiddlewareInvHolds, PTL DEF Spec
<1> QED BY Zenon, <1>2 DEF RefusedOverQuota

(* The breaker decides on what it should: every result of the window but   *)
(* for the oldest bucket, and no result that is older than the window      *)
(* (rollingWindow.advance, sum).                                           *)
THEOREM WindowCountsHolds == Spec => []WindowCounts
<1>1. MiddlewareInv => WindowCounts BY Zenon, BreakerCounts DEF MiddlewareInv
<1> QED BY <1>1, MiddlewareInvHolds, PTL

(* With a K of at least 1 the breaker refuses a request only after MinReqs *)
(* results, some of them failures, none of them stale (accept).            *)
THEOREM DropsOnRecentFailuresHolds ==
    ASSUME KNum >= KDen
    PROVE  Spec => DropsOnRecentFailures
<1> DEFINE A == \A q \in Requests :
                   BreakerAllow(q) /\ pos'[q] < pos[q] =>
                       LET since == Since(Stale - 1) IN
                       /\ Events(totals, since, now) >= MinReqs
                       /\ Events(totals, since, now) > Events(accepts, since, now)
<1>1. MiddlewareInv /\ [Next]_vars => [A]_vars
  <2> SUFFICES ASSUME MiddlewareInv, NEW q \in Requests, BreakerAllow(q), pos'[q] < pos[q]
               PROVE  /\ Events(totals, Since(Stale - 1), now) >= MinReqs
                      /\ Events(totals, Since(Stale - 1), now) > Events(accepts, Since(Stale - 1), now)
    BY Zenon
  <2>1. PICK allowed \in BOOLEAN : accept(allowed) /\ (IF allowed THEN Forward(q) ELSE Unavailable(q))
    BY Zenon DEF BreakerAllow
  <2>2. Placed /\ BreakerInv BY Zenon DEF MiddlewareInv
  <2>3. pos \in [Requests -> Int] BY Zenon, <2>2 DEF Placed
  <2>4. ~Forward(q) BY <2>3 DEF Forward
  <2>5. allowed = FALSE BY Zenon, <2>1, <2>4
  <2>6. accept(FALSE) BY Zenon, <2>1, <2>5
  <2> QED BY Zenon, <2>2, <2>6, RefusedOverFailures
<1>2. Spec => [][A]_vars BY <1>1, MiddlewareInvHolds, PTL DEF Spec
<1> QED BY Zenon, <1>2 DEF DropsOnRecentFailures

(* maxFlight is never negative: no requests are never too many.            *)
LEMMA NoneFits ==
    ASSUME ShedderTypeOK, now \in Nat
    PROVE  ~overMaxFlight(0)
<1>1. bucketNum \in Nat \ {0} /\ bucketDuration \in Nat \ {0} /\ Second \in Nat /\ 0 \in Nat
  BY Zenon, ShedderConstants DEF ShedderConstants
<1>2. ASSUME NEW c \in CounterType PROVE Turn(c).buckets \in [0 .. bucketNum - 1 -> Nat]
  <2>1. CounterType = Windows(bucketNum, Nat) BY Zenon DEF CounterType, Windows
  <2>2. Turn(c) \in Windows(bucketNum, Nat) BY Zenon, <1>1, <2>1, AdvanceType DEF Turn
  <2> QED BY Zenon, <2>2 DEF Windows
<1>3. MaxBucket(passCounter) \in Nat BY Zenon, <1>1, <1>2, GreatestBucket DEF MaxBucket, ShedderTypeOK
<1>4. AvgBucket(rtCounter).sum \in Nat /\ AvgBucket(rtCounter).count \in Nat
  <2> DEFINE b == Turn(rtCounter).buckets
             used == [i \in DOMAIN b |-> IF b[i] > 0 THEN 1 ELSE 0]
  <2>1. b \in [0 .. bucketNum - 1 -> Nat] BY Zenon, <1>2 DEF ShedderTypeOK
  <2>2. used \in [0 .. bucketNum - 1 -> Nat] BY Zenon, <2>1
  <2>3. AvgBucket(rtCounter) = [sum |-> SumOf(b, bucketNum), count |-> SumOf(used, bucketNum)]
    BY Zenon DEF AvgBucket
  <2> HIDE DEF b, used
  <2>4. bucketNum \in 0 .. bucketNum /\ bucketNum \in Nat BY <1>1
  <2>5. SumOf(b, bucketNum) \in Nat /\ SumOf(used, bucketNum) \in Nat BY Zenon, <2>1, <2>2, <2>4, SumOfSteps
  <2> QED BY <2>3, <2>5
<1> DEFINE avg == AvgBucket(rtCounter)
           minRt == IF avg.sum > avg.count THEN avg ELSE [sum |-> 1, count |-> 1]
           M == MaxBucket(passCounter)
<1>5. minRt.sum \in Nat /\ minRt.count \in Nat BY Zenon, <1>4
<1>6. maxFlight = [num |-> M * minRt.sum * bucketNum, den |-> minRt.count * Second] BY Zenon DEF maxFlight
<1>7. M \in Nat BY Zenon, <1>3
<1> HIDE DEF avg, minRt, M
<1>8. \A x, y \in Nat : x * y \in Nat OBVIOUS
<1>9. M * minRt.sum * bucketNum \in Nat /\ minRt.count * Second \in Nat BY Zenon, <1>1, <1>5, <1>7, <1>8
<1>10. maxFlight.num \in Nat /\ maxFlight.den \in Nat BY Zenon, <1>6, <1>9
<1>11. \A x \in Nat : 0 * x = 0 OBVIOUS
<1>12. 0 * maxFlight.den = 0 BY Zenon, <1>10, <1>11
<1>13. ~(0 > maxFlight.num) BY <1>10
<1> QED BY Zenon, <1>12, <1>13 DEF overMaxFlight

(* The shedder refuses a request only if another one has been inside since *)
(* it came, or one was lost to a panic (shouldDrop, maxFlight).            *)
THEOREM ShedsOnlyBusyHolds == Spec => ShedsOnlyBusy
<1> DEFINE A == \A q \in Requests : ShedderDecides(q) /\ pc'[q] = "drop" => ~alone[q]
<1>1. MiddlewareInv /\ [Next]_vars => [A]_vars
  <2> SUFFICES ASSUME MiddlewareInv, NEW q \in Requests, ShedderDecides(q), pc'[q] = "drop", alone[q]
               PROVE  FALSE
    BY Zenon
  <2>1. PICK drop \in BOOLEAN : weigh(stamp[q], drop) /\ Goto(q, IF drop THEN "drop" ELSE "take")
    BY Zenon DEF ShedderDecides
  <2>2. Placed /\ Solo /\ ShedderTypeOK BY Zenon DEF MiddlewareInv
  <2>3. pc[q] = "weigh" BY Zenon DEF ShedderDecides, At
  <2>4. stamp[q] = 0 BY Zenon, <2>2, <2>3 DEF Solo
  <2>5. now \in Nat BY Zenon, <2>2, RowOf
  <2>6. ~drop BY Zenon, <2>1, <2>2, <2>4, <2>5, NoneFits DEF weigh
  <2>7. pc'[q] = "take" BY Zenon, <2>1, <2>2, <2>6 DEF Goto, Placed
  <2> QED BY Zenon, <2>7
<1>2. Spec => [][A]_vars BY <1>1, MiddlewareInvHolds, PTL DEF Spec
<1> QED BY Zenon, <1>2 DEF ShedsOnlyBusy
=============================================================================
