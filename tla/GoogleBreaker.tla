--------------------------- MODULE GoogleBreaker ---------------------------
(***************************************************************************)
(* breaker/googlebreaker.go, and the breaker of a path in the map of       *)
(* http_server/middleware/breaker.go or, of a method, in that of           *)
(* http_server/interceptor/breaker.go.  One path: breakers of different    *)
(* paths do not meet.  Every critical section of the window's mutex is one *)
(* step.                                                                   *)
(***************************************************************************)
EXTENDS Clock, RollingWindow

CONSTANTS
    Buckets, BucketTime,   \* the size of the window, the ticks of a bucket
    MinReqs,
    KNum, KDen             \* K as a fraction

ASSUME BreakerConstants ==
    {Buckets, BucketTime, MinReqs, KNum, KDen} \subseteq Nat \ {0}

VARIABLES
    window,    \* the breaker's rollingWindow
    created,   \* the breaker of the path is in the map
    accepts,   \* history: successes marked
    totals     \* history: results marked

breakerVars == <<window, created, accepts, totals>>

NoResults == [accepts |-> 0, total |-> 0]

BreakerTypeOK ==
    /\ window \in [buckets : [0 .. Buckets - 1 -> [accepts : Nat, total : Nat]],
                   offset : 0 .. Buckets - 1, lastTime : Nat]
    /\ created \in BOOLEAN
    /\ accepts \in [Times -> Nat] /\ totals \in [Times -> Nat]

NoBreaker ==
    /\ window = NewWindow(Buckets, NoResults, 0)
    /\ created = FALSE
    /\ accepts = NoEvents /\ totals = NoEvents

(* getHttpBreaker under the write lock: somebody else may have created it. *)
createBreaker ==
    /\ window' = IF created THEN window ELSE NewWindow(Buckets, NoResults, now)
    /\ created' = TRUE
    /\ UNCHANGED <<accepts, totals>>

Advanced == Advance(window, now, Buckets, BucketTime, NoResults)
AcceptsOf(w) == [i \in 0 .. Buckets - 1 |-> w.buckets[i].accepts]
TotalOf(w) == [i \in 0 .. Buckets - 1 |-> w.buckets[i].total]
SumAccepts(w) == SumOf(AcceptsOf(w), Buckets)
SumTotal(w) == SumOf(TotalOf(w), Buckets)

(* Mutant: a request is dropped without the minimum of results. *)
acceptWithoutMinimum(allowed) ==
    /\ window' = Advanced
    /\ ~allowed => KDen * SumTotal(Advanced) > KNum * SumAccepts(Advanced)
    /\ UNCHANGED <<created, accepts, totals>>

(* accept: with a positive drop ratio chance decides. *)
accept(allowed) ==
    /\ window' = Advanced
    /\ ~allowed => /\ SumTotal(Advanced) >= MinReqs
                   /\ KDen * SumTotal(Advanced) > KNum * SumAccepts(Advanced)
    /\ UNCHANGED <<created, accepts, totals>>

(* markSuccess and markFailure. *)
mark(success) ==
    LET w == Advanced
        one == IF success THEN 1 ELSE 0
    IN  /\ window' = [w EXCEPT !.buckets[w.offset] =
                         [accepts |-> @.accepts + one, total |-> @.total + 1]]
        /\ accepts' = Counted(accepts, now, one)
        /\ totals' = Counted(totals, now, 1)
        /\ UNCHANGED created

(* The results of the last Buckets - 1 bucket times always count, and      *)
(* nothing counts that is older than 2 * Buckets - 1: advance shifts the   *)
(* buckets by whole intervals but restarts the interval at now, so that a  *)
(* bucket may last for almost two.                                         *)
Fresh == (Buckets - 1) * BucketTime
Stale == (2 * Buckets - 1) * BucketTime
Since(age) == now - age

WindowCounts ==
    /\ SumTotal(Advanced) >= Events(totals, Since(Fresh), now)
    /\ SumAccepts(Advanced) >= Events(accepts, Since(Fresh), now)
    /\ SumTotal(Advanced) <= Events(totals, Since(Stale - 1), now)
    /\ SumAccepts(Advanced) <= Events(accepts, Since(Stale - 1), now)
=============================================================================
