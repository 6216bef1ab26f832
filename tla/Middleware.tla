----------------------------- MODULE Middleware -----------------------------
(***************************************************************************)
(* http_server/middleware: requests pass through the guards installed on a *)
(* route, in the order of Use, to the handler, and back through the guards *)
(* that wait for the outcome.  gin.Recovery is outside of all of them: the *)
(* panic of a handler goes past the guards.                                *)
(***************************************************************************)
EXTENDS PeriodLimiter, TokenLimiter, GoogleBreaker, AdaptiveShedder, Sequences

CONSTANTS
    Limits,       \* the sequences of guards that routes use, with bounds for each:
                  \* the last time and the number of requests
    Requests,     \* the requests that may be under way at a time
    ReplicaOf     \* the process that serves each of them

(* At most one of the guards of a route is a shedder. *)
ASSUME MiddlewareConstants ==
    /\ IsFiniteSet(Requests) /\ ReplicaOf \in [Requests -> Replicas]
    /\ \A c \in DOMAIN Limits :
          /\ c \in Seq({"period", "rate", "breaker", "shedding"})
          /\ \A i, j \in DOMAIN c : c[i] = "shedding" /\ c[j] = "shedding" => i = j

VARIABLES
    chain,      \* the guards of the route
    arrivals,
    pos,        \* per request: the guard it is at, Len(chain) + 1 at the handler
    pc,         \* per request: what it does there
    stamp,      \* per request: the time or the count it has read, its response time
    start,      \* per request: when the shedder let it in
    status,     \* per request: the answer's status, "ok" below 500
    panics,     \* history: requests whose handler has panicked inside the shedder
    alone       \* history: no other request has been inside the shedder since this
                \* one came to it

requestVars == <<arrivals, pos, pc, stamp, start, status, panics, alone>>
vars == <<now, chain, requestVars, periodVars, tokenVars, breakerVars, shedderVars>>

Guards == {"period", "rate", "breaker", "shedding"}
Locations == {"idle", "enter", "eval", "local", "create", "allow", "clear", "decide", "weigh",
              "drop", "dropped", "take", "leave", "passed", "timed"}

TypeOK ==
    /\ now \in Times /\ chain \in Seq(Guards) /\ arrivals \in Nat
    /\ pos \in [Requests -> 0 .. Len(chain) + 1]
    /\ pc \in [Requests -> Locations]
    /\ stamp \in [Requests -> Int] /\ start \in [Requests -> Times]
    /\ status \in [Requests -> {"ok", "error"}]
    /\ panics \in Nat /\ alone \in [Requests -> BOOLEAN]
    /\ PeriodTypeOK /\ TokenTypeOK /\ BreakerTypeOK /\ ShedderTypeOK

Init ==
    /\ now = 0 /\ chain \in DOMAIN Limits /\ arrivals = 0 /\ panics = 0
    /\ pos = [q \in Requests |-> 0]
    /\ pc = [q \in Requests |-> "idle"]
    /\ stamp = [q \in Requests |-> 0] /\ start = [q \in Requests |-> 0]
    /\ status = [q \in Requests |-> "ok"]
    /\ alone = [q \in Requests |-> FALSE]
    /\ NewPeriodLimiter /\ NewTokenLimiter /\ NoBreaker /\ NewAdaptiveShedder

At(q, guard, location) == pos[q] \in 1 .. Len(chain) /\ chain[pos[q]] = guard /\ pc[q] = location

Goto(q, location) ==
    /\ pc' = [pc EXCEPT ![q] = location]
    /\ UNCHANGED <<chain, now, arrivals, pos, stamp, start, status, panics, alone>>

(* c.Next(). *)
Forward(q) ==
    /\ pos' = [pos EXCEPT ![q] = @ + 1]
    /\ pc' = [pc EXCEPT ![q] = "enter"]
    /\ UNCHANGED <<chain, now, arrivals, stamp, start, status, panics, alone>>

(* The guard or the handler at pos[q] returns to the guard before it; what *)
(* the request knew is forgotten when it has returned from the first.      *)
Back(q, s) ==
    /\ pos' = [pos EXCEPT ![q] = @ - 1]
    /\ pc' = [pc EXCEPT ![q] = IF pos[q] = 1 THEN "idle" ELSE "leave"]
    /\ status' = [status EXCEPT ![q] = IF pos[q] = 1 THEN "ok" ELSE s]
    /\ stamp' = [stamp EXCEPT ![q] = IF pos[q] = 1 THEN 0 ELSE @]
    /\ start' = [start EXCEPT ![q] = IF pos[q] = 1 THEN 0 ELSE @]
    /\ alone' = [alone EXCEPT ![q] = FALSE]
    /\ UNCHANGED <<chain, now, arrivals, panics>>

(* AbortWithStatusJSON: too many requests is 429, unavailable is 503. *)
TooMany(q) == Back(q, "ok")
Unavailable(q) == Back(q, "error")

Arrive(q) ==
    /\ pc[q] = "idle" /\ arrivals < Limits[chain].arrivals
    /\ arrivals' = arrivals + 1
    /\ pos' = [pos EXCEPT ![q] = 1] /\ pc' = [pc EXCEPT ![q] = "enter"]
    /\ UNCHANGED <<now, chain, stamp, start, status, panics, alone,
                   periodVars, tokenVars, breakerVars, shedderVars>>
-----------------------------------------------------------------------------
(* PeriodRateLimit. *)

(* Take: Redis runs the script and answers. *)
PeriodTake(q) ==
    /\ At(q, "period", "enter")
    /\ \E allowed \in BOOLEAN :
          /\ PeriodScript(allowed)
          /\ IF allowed THEN Forward(q) ELSE TooMany(q)
    /\ UNCHANGED <<tokenVars, breakerVars, shedderVars>>

(* There is no client, or an error comes back: with or without the script  *)
(* having run.                                                             *)
PeriodTakeFails(q) ==
    /\ At(q, "period", "enter")
    /\ Goto(q, "local")
    /\ UNCHANGED periodVars \/ \E allowed \in BOOLEAN : PeriodScript(allowed)
    /\ UNCHANGED <<tokenVars, breakerVars, shedderVars>>

PeriodLocal(q) ==
    /\ At(q, "period", "local")
    /\ \E allowed \in BOOLEAN :
          /\ localTake(ReplicaOf[q], allowed)
          /\ IF allowed THEN Forward(q) ELSE TooMany(q)
    /\ UNCHANGED <<tokenVars, breakerVars, shedderVars>>

PeriodCleanup(r) ==
    /\ cleanup(r)
    /\ UNCHANGED <<now, chain, requestVars, tokenVars, breakerVars, shedderVars>>
-----------------------------------------------------------------------------
(* RateLimit. *)

(* Allow reads the clock ... *)
RateReadsClock(q) ==
    /\ At(q, "rate", "enter")
    /\ stamp' = [stamp EXCEPT ![q] = now]
    /\ pc' = [pc EXCEPT ![q] = "eval"]
    /\ UNCHANGED <<now, chain, arrivals, pos, start, status, panics, alone,
                   periodVars, tokenVars, breakerVars, shedderVars>>

(* ... and reserveN runs the script with it. *)
RateReserve(q) ==
    /\ At(q, "rate", "eval")
    /\ \E allowed \in BOOLEAN :
          /\ TokenScript(stamp[q], 1, allowed)
          /\ IF allowed THEN Forward(q) ELSE TooMany(q)
    /\ UNCHANGED <<periodVars, breakerVars, shedderVars>>

RateReserveFails(q) ==
    /\ At(q, "rate", "eval")
    /\ Goto(q, "local")
    /\ UNCHANGED tokenVars \/ \E allowed \in BOOLEAN : TokenScript(stamp[q], 1, allowed)
    /\ UNCHANGED <<periodVars, breakerVars, shedderVars>>

RateLocal(q) ==
    /\ At(q, "rate", "local")
    /\ \E allowed \in BOOLEAN :
          /\ localAllow(ReplicaOf[q], stamp[q], 1, allowed)
          /\ IF allowed THEN Forward(q) ELSE TooMany(q)
    /\ UNCHANGED <<periodVars, breakerVars, shedderVars>>
-----------------------------------------------------------------------------
(* CircuitBreaker. *)

(* getHttpBreaker under the read lock. *)
BreakerLookup(q) ==
    /\ At(q, "breaker", "enter")
    /\ Goto(q, IF created THEN "allow" ELSE "create")
    /\ UNCHANGED <<periodVars, tokenVars, breakerVars, shedderVars>>

BreakerCreate(q) ==
    /\ At(q, "breaker", "create")
    /\ createBreaker
    /\ Goto(q, "allow")
    /\ UNCHANGED <<periodVars, tokenVars, shedderVars>>

BreakerAllow(q) ==
    /\ At(q, "breaker", "allow")
    /\ \E allowed \in BOOLEAN :
          /\ accept(allowed)
          /\ IF allowed THEN Forward(q) ELSE Unavailable(q)
    /\ UNCHANGED <<periodVars, tokenVars, shedderVars>>

(* The status that came back is marked: a refusal by a guard inside counts *)
(* as a result too.                                                        *)
BreakerMarks(q) ==
    /\ At(q, "breaker", "leave")
    /\ mark(status[q] = "ok")
    /\ Back(q, status[q])
    /\ UNCHANGED <<periodVars, tokenVars, shedderVars>>
-----------------------------------------------------------------------------
(* AdaptiveShedding. *)

(* The shedder has let q in and has not counted it out again. *)
Inside(q) ==
    \E i \in 1 .. Len(chain) :
        /\ chain[i] = "shedding"
        /\ pos[q] > i \/ (pos[q] = i /\ pc[q] = "leave")

(* A request holds the shedder's mu. *)
Weighing == \E p \in Requests : pc[p] = "weigh"

(* systemOverloaded: the CPU is read under mu, then the last drop; the     *)
(* flag of a drop that is too old is cleared in a step of its own.         *)
ShedderChecks(q) ==
    /\ At(q, "shedding", "enter") /\ ~Weighing
    /\ \E cpu \in currentCPU :
       \E recent \in RecentDrop(\E p \in Requests \ {q} : pc[p] = "drop") :
          pc' = [pc EXCEPT ![q] = IF cpu \/ recent THEN "decide"
                                  ELSE IF droppedRecently THEN "clear" ELSE "take"]
    /\ alone' = [alone EXCEPT ![q] = panics = 0 /\ ~\E p \in Requests : Inside(p)]
    /\ UNCHANGED <<now, chain, arrivals, pos, stamp, start, status, panics,
                   periodVars, tokenVars, breakerVars, shedderVars>>

ShedderClears(q) ==
    /\ At(q, "shedding", "clear")
    /\ setDroppedRecently(FALSE)
    /\ Goto(q, "take")
    /\ UNCHANGED <<periodVars, tokenVars, breakerVars>>

(* shouldDrop takes mu and reads flying ... *)
ShedderReadsFlying(q) ==
    /\ At(q, "shedding", "decide") /\ ~Weighing
    /\ stamp' = [stamp EXCEPT ![q] = flying]
    /\ pc' = [pc EXCEPT ![q] = "weigh"]
    /\ UNCHANGED <<now, chain, arrivals, pos, start, status, panics, alone,
                   periodVars, tokenVars, breakerVars, shedderVars>>

(* ... and compares it with maxFlight. *)
ShedderDecides(q) ==
    /\ At(q, "shedding", "weigh")
    /\ \E drop \in BOOLEAN :
          /\ weigh(stamp[q], drop)
          /\ Goto(q, IF drop THEN "drop" ELSE "take")
    /\ UNCHANGED <<periodVars, tokenVars, breakerVars>>

(* Allow notes the time of the drop, then the drop. *)
ShedderNotesTime(q) ==
    /\ At(q, "shedding", "drop")
    /\ setDropTime
    /\ Goto(q, "dropped")
    /\ UNCHANGED <<periodVars, tokenVars, breakerVars>>

ShedderDrops(q) ==
    /\ At(q, "shedding", "dropped")
    /\ setDroppedRecently(TRUE)
    /\ Unavailable(q)
    /\ UNCHANGED <<periodVars, tokenVars, breakerVars>>

ShedderAllows(q) ==
    /\ At(q, "shedding", "take")
    /\ takeOff
    /\ start' = [start EXCEPT ![q] = now] /\ stamp' = [stamp EXCEPT ![q] = 0]
    /\ pos' = [pos EXCEPT ![q] = @ + 1]
    /\ pc' = [pc EXCEPT ![q] = "enter"]
    /\ alone' = [p \in Requests |-> FALSE]
    /\ UNCHANGED <<now, chain, arrivals, status, panics, periodVars, tokenVars, breakerVars>>

(* Pass, whose three counters are updated one after the other, or Fail. *)
ShedderLands(q) ==
    /\ At(q, "shedding", "leave")
    /\ land
    /\ IF status[q] = "ok"
       THEN /\ stamp' = [stamp EXCEPT ![q] = now - start[q]]
            /\ pc' = [pc EXCEPT ![q] = "passed"]
            /\ UNCHANGED <<now, chain, arrivals, pos, start, status, panics, alone>>
       ELSE Back(q, status[q])
    /\ UNCHANGED <<periodVars, tokenVars, breakerVars>>

ShedderAddsPass(q) ==
    /\ At(q, "shedding", "passed")
    /\ addPass
    /\ Goto(q, "timed")
    /\ UNCHANGED <<periodVars, tokenVars, breakerVars>>

ShedderAddsRt(q) ==
    /\ At(q, "shedding", "timed")
    /\ addRt(stamp[q])
    /\ Back(q, status[q])
    /\ UNCHANGED <<periodVars, tokenVars, breakerVars>>
-----------------------------------------------------------------------------
AtHandler(q) == pos[q] = Len(chain) + 1 /\ pc[q] = "enter"

HandlerReturns(q) ==
    /\ AtHandler(q)
    /\ \E s \in {"ok", "error"} : Back(q, s)
    /\ UNCHANGED <<periodVars, tokenVars, breakerVars, shedderVars>>

(* No guard defers anything: the panic passes them, Recovery answers 500. *)
HandlerPanics(q) ==
    /\ AtHandler(q)
    /\ pos' = [pos EXCEPT ![q] = 0] /\ pc' = [pc EXCEPT ![q] = "idle"]
    /\ status' = [status EXCEPT ![q] = "ok"] /\ stamp' = [stamp EXCEPT ![q] = 0]
    /\ start' = [start EXCEPT ![q] = 0]
    /\ panics' = IF \E i \in 1 .. Len(chain) : chain[i] = "shedding" THEN panics + 1 ELSE panics
    /\ UNCHANGED <<now, chain, arrivals, alone, periodVars, tokenVars, breakerVars, shedderVars>>

TimePasses ==
    /\ Tick /\ now < Limits[chain].now
    /\ UNCHANGED <<chain, requestVars, periodVars, tokenVars, breakerVars, shedderVars>>

RequestStep(q) ==
    \/ Arrive(q) \/ HandlerReturns(q) \/ HandlerPanics(q)
    \/ PeriodTake(q) \/ PeriodTakeFails(q) \/ PeriodLocal(q)
    \/ RateReadsClock(q) \/ RateReserve(q) \/ RateReserveFails(q) \/ RateLocal(q)
    \/ BreakerLookup(q) \/ BreakerCreate(q) \/ BreakerAllow(q) \/ BreakerMarks(q)
    \/ ShedderChecks(q) \/ ShedderClears(q) \/ ShedderReadsFlying(q) \/ ShedderDecides(q)
    \/ ShedderNotesTime(q) \/ ShedderDrops(q) \/ ShedderAllows(q)
    \/ ShedderLands(q) \/ ShedderAddsPass(q) \/ ShedderAddsRt(q)

Next ==
    \/ \E q \in Requests : RequestStep(q)
    \/ \E r \in Replicas : PeriodCleanup(r)
    \/ TimePasses

Spec == Init /\ [][Next]_vars
-----------------------------------------------------------------------------
(* flying, "the current concurrency", is the number of requests that the   *)
(* shedder has let in and that have not come back; the requests whose      *)
(* handler panicked stay in it for ever.                                   *)
FlyingCounts ==
    /\ TypeOK
    /\ flying = Cardinality({q \in Requests : Inside(q)}) + panics

(* Redis refuses a request only when it has let quota others pass in the   *)
(* period before: refused requests do not prolong the window.              *)
RefusedOverQuota ==
    [][\A q \in Requests :
          PeriodTake(q) /\ pos'[q] < pos[q] =>
              Events(passed, now - period + 1, now) >= quota]_vars

(* The breaker refuses a request only after MinReqs results, and, for a K  *)
(* of at least 1, failures among them, that are not stale: it closes by    *)
(* itself when the path is left alone.                                     *)
DropsOnRecentFailures ==
    [][\A q \in Requests :
          BreakerAllow(q) /\ pos'[q] < pos[q] =>
              LET since == Since(Stale - 1) IN
              /\ Events(totals, since, now) >= MinReqs
              /\ Events(totals, since, now) > Events(accepts, since, now)]_vars

(* The shedder refuses a request only if another one has been inside since *)
(* it came, or one was lost to a panic: however late a drop or the counts  *)
(* are noted, an idle service takes the next request.                      *)
ShedsOnlyBusy ==
    [][\A q \in Requests : ShedderDecides(q) /\ pc'[q] = "drop" => ~alone[q]]_vars
=============================================================================
