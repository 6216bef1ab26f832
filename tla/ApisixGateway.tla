--------------------------- MODULE ApisixGateway ---------------------------
(***************************************************************************)
(* register/apisix.go and register/apisix_leader.go: several pods of one   *)
(* service publish its upstream and routes to APISIX, in leader mode after *)
(* winning a Kubernetes lease.                                             *)
(*                                                                         *)
(* Two kinds of goroutine run here: the callers of RegisterService,        *)
(* DeregisterService and Close (members of Callers), and the               *)
(* OnStartedLeading goroutine of each apisixLeaderController (members of   *)
(* Ctls, one controller each).  A pod has one ApisixGateway.  HTTP         *)
(* requests, waits and lock acquisitions separate the steps.               *)
(***************************************************************************)
EXTENDS ApisixAdmin, Sequences, FiniteSets

CONSTANTS
    Callers,    \* goroutines that call the methods of Gateway
    Ctls,       \* the controllers that may be created, by any pod
    PodOf,      \* the pod of each caller and of each controller
    RegisterMode,          \* per pod: "off", "single" or "leader"
    DeregisterOnShutdown,  \* per pod: "nil", "true" or "false" (*bool)
    InvalidElection,  \* the pods whose lease timing client-go rejects with a panic
    MaxCalls,   \* bound: the number of method calls, per caller
    MaxLate,    \* bound: abandoned requests that are still under way
    MaxFaults   \* bound: lost leases, ended caller contexts and crashes

Procs == Callers \cup Ctls

ASSUME GatewayConstants ==
    /\ PodOf \in [Procs -> Pods]
    /\ Callers \cap Ctls = {}
    /\ None \notin Procs
    /\ RegisterMode \in [Pods -> {"off", "single", "leader"}]
    /\ DeregisterOnShutdown \in [Pods -> {"nil", "true", "false"}]
    /\ InvalidElection \subseteq Pods
    /\ MaxCalls \in [Callers -> Nat]
    /\ {MaxLate, MaxFaults} \subseteq Nat

VARIABLES
    alive,      \* per pod: it has not crashed
    leaderMu,   \* per pod: the caller that holds leaderMu, or None
    leaderCtl,  \* per pod: leaderControllers[svc.ID], or None
    routeIDs,   \* per pod: routeIDs[svc.ID], <<>> when absent
    lease,      \* the pod whose identity holds the Kubernetes lease, or None
    phase,      \* per controller: where its run goroutine is
    started,    \* per controller
    cancelled,  \* per controller: runCtx is done
    isLeader,   \* per controller
    pc,         \* per process: where it is
    req,        \* per process: its HTTP request: "idle", "sent" or "ok"
    work,       \* per process: the routes it has still to PUT or DELETE
    routeErr,   \* per process: len(routeErrs) > 0, FALSE outside the loop
    target,     \* per caller: the controller it stops, or None
    op,         \* per caller: the method last called
    ret,        \* per caller: what that call returned, "none" before it did
    calls,      \* per caller: the number of calls made
    faults      \* the number of faults so far

gatewayVars == <<alive, leaderMu, leaderCtl, routeIDs>>
electionVars == <<lease, phase, started, cancelled, isLeader, faults>>
procVars == <<pc, req, work, routeErr>>
callerVars == <<target, op, ret, calls>>
vars == <<adminVars, gatewayVars, electionVars, procVars, callerVars>>

Phases == {"new", "electing", "leading", "ended", "released", "done"}
HttpLocations == {"putUpstream", "putRoute", "delRoute", "delUpstream"}
CallerLocations == {"ready", "regWait", "regNew", "stop", "stopWait", "stopped"}
GoroutineLocations == {"none", "spawned", "select", "exit"}
Locations == HttpLocations \cup CallerLocations \cup GoroutineLocations
Methods == {"register", "deregister", "close"}
Results == {"none", "nil", "error"}

(* A request is under way only in putResource and deleteResource, in the   *)
(* loops over the routes there is a route left, and OnStartedLeading has   *)
(* no goroutine before the lease is acquired.                              *)
Located(x) ==
    /\ req[x] # "idle" => pc[x] \in HttpLocations
    /\ pc[x] \in {"putRoute", "delRoute"} => work[x] # <<>>
    /\ x \in Ctls /\ phase[x] \in {"new", "electing"} => pc[x] = "none"

TypeOK ==
    /\ AdminTypeOK
    /\ alive \in [Pods -> BOOLEAN]
    /\ leaderMu \in [Pods -> Callers \cup {None}]
    /\ leaderCtl \in [Pods -> Ctls \cup {None}]
    /\ routeIDs \in [Pods -> Seq(Routes)]
    /\ lease \in Pods \cup {None}
    /\ phase \in [Ctls -> Phases]
    /\ started \in [Ctls -> BOOLEAN]
    /\ cancelled \in [Ctls -> BOOLEAN]
    /\ isLeader \in [Ctls -> BOOLEAN]
    /\ pc \in [Procs -> Locations]
    /\ req \in [Procs -> {"idle", "sent", "ok"}]
    /\ work \in [Procs -> Seq(Routes)]
    /\ routeErr \in [Procs -> BOOLEAN]
    /\ target \in [Callers -> Ctls \cup {None}]
    /\ op \in [Callers -> Methods \cup {"none"}]
    /\ ret \in [Callers -> Results]
    /\ calls \in [Callers -> Nat]
    /\ faults \in 0 .. MaxFaults
    /\ \A x \in Procs : Located(x)

(* NewApisixGateway in every pod; nothing registered yet. *)
Init ==
    /\ AdminInit
    /\ alive = [p \in Pods |-> TRUE]
    /\ leaderMu = [p \in Pods |-> None]
    /\ leaderCtl = [p \in Pods |-> None]
    /\ routeIDs = [p \in Pods |-> <<>>]
    /\ lease = None
    /\ phase = [c \in Ctls |-> "new"]
    /\ started = [c \in Ctls |-> FALSE]
    /\ cancelled = [c \in Ctls |-> FALSE]
    /\ isLeader = [c \in Ctls |-> FALSE]
    /\ pc = [x \in Procs |-> IF x \in Callers THEN "ready" ELSE "none"]
    /\ req = [x \in Procs |-> "idle"]
    /\ work = [x \in Procs |-> <<>>]
    /\ routeErr = [x \in Procs |-> FALSE]
    /\ target = [x \in Callers |-> None]
    /\ op = [x \in Callers |-> "none"]
    /\ ret = [x \in Callers |-> "none"]
    /\ calls = [x \in Callers |-> 0]
    /\ faults = 0

(* Mutant: the default of the flag does not look at the mode. *)
shouldDeregisterByDefault(p) == DeregisterOnShutdown[p] # "false"

shouldDeregisterOnShutdown(p) ==
    \/ DeregisterOnShutdown[p] = "true"
    \/ DeregisterOnShutdown[p] = "nil" /\ RegisterMode[p] # "leader"

(* leadCtx, the context of a leading goroutine, is a child of runCtx and is *)
(* cancelled as well when RunOrDie returns.  A caller passes a context that *)
(* stays open.                                                              *)
CtxDone(x) == x \in Ctls /\ (cancelled[x] \/ phase[x] = "done")

Fault == faults < MaxFaults /\ faults' = faults + 1
Goto(x, l) == pc' = [pc EXCEPT ![x] = l]
Return(x, r) == Goto(x, "ready") /\ ret' = [ret EXCEPT ![x] = r]
-----------------------------------------------------------------------------
(* putResource and deleteResource: one HTTP request of process x.          *)

RequestOf(x) ==
    [pod |-> PodOf[x],
     op  |-> IF pc[x] \in {"putUpstream", "putRoute"} THEN "PUT" ELSE "DELETE",
     id  |-> IF pc[x] \in {"putUpstream", "delUpstream"} THEN Upstream ELSE Head(work[x])]

(* client.Do sends the request unless the context is done. *)
Send(x) ==
    /\ alive[PodOf[x]] /\ pc[x] \in HttpLocations /\ req[x] = "idle" /\ ~CtxDone(x)
    /\ req' = [req EXCEPT ![x] = "sent"]
    /\ UNCHANGED <<adminVars, gatewayVars, electionVars, pc, work, routeErr, callerVars>>

(* The server applies the request and answers 200 or 201. *)
ServerAccepts(x) ==
    /\ req[x] = "sent"
    /\ Accepts(RequestOf(x)) /\ Apply(RequestOf(x)) /\ UNCHANGED late
    /\ req' = [req EXCEPT ![x] = "ok"]
    /\ UNCHANGED <<gatewayVars, electionVars, pc, work, routeErr, callerVars>>

(* putResource or deleteResource returns nil. *)
Replied(x) ==
    /\ alive[PodOf[x]] /\ req[x] = "ok"
    /\ req' = [req EXCEPT ![x] = "idle"]
    /\ UNCHANGED late

(* It returns an error: the context was done before the request was sent;  *)
(* the server refused it or could not be reached; the reply to an applied  *)
(* request did not come back; or the client gave up, by timeout or end of  *)
(* the context, on a request that is still on its way.                     *)
Failed(x) ==
    /\ alive[PodOf[x]]
    /\ req[x] = "idle" => CtxDone(x)
    /\ req' = [req EXCEPT ![x] = "idle"]
    /\ \/ UNCHANGED late
       \/ /\ req[x] = "sent" /\ Cardinality(late) < MaxLate
          /\ late' = late \cup {RequestOf(x)}
-----------------------------------------------------------------------------
(* registerServiceDirect, run by a caller in single mode and by the        *)
(* OnStartedLeading goroutine in leader mode.                              *)

RouteList == [i \in Routes |-> i]

(* registerServiceDirect returns: the goroutine goes to its select, the    *)
(* caller returns from RegisterService.                                    *)
RegisterReturns(x, failed) ==
    \/ x \in Ctls /\ Goto(x, "select") /\ UNCHANGED ret
    \/ x \in Callers /\ Return(x, IF failed THEN "error" ELSE "nil")

(* The PUT of the upstream has returned.  Only after it the list of known  *)
(* routes is reset.                                                        *)
UpstreamPut(x) ==
    /\ pc[x] = "putUpstream"
    /\ \/ /\ Failed(x)
          /\ RegisterReturns(x, TRUE)
          /\ UNCHANGED <<routeIDs, work>>
       \/ /\ Replied(x)
          /\ routeIDs' = [routeIDs EXCEPT ![PodOf[x]] = <<>>]
          /\ work' = [work EXCEPT ![x] = RouteList]
          /\ \/ NRoutes = 0 /\ RegisterReturns(x, FALSE)
             \/ NRoutes # 0 /\ Goto(x, "putRoute") /\ UNCHANGED ret
    /\ UNCHANGED <<upstream, route, alive, leaderMu, leaderCtl, electionVars, routeErr,
                   target, op, calls>>

(* The PUT of a route has returned: remember its id, or note the error and *)
(* continue with the next route.                                           *)
RoutePut(x) ==
    /\ pc[x] = "putRoute"
    /\ work' = [work EXCEPT ![x] = Tail(@)]
    /\ \E failed \in BOOLEAN :
          /\ \/ failed /\ Failed(x) /\ UNCHANGED routeIDs
             \/ /\ ~failed /\ Replied(x)
                /\ routeIDs' = [routeIDs EXCEPT ![PodOf[x]] = Append(@, Head(work[x]))]
          /\ \/ /\ Tail(work[x]) = <<>>
                /\ RegisterReturns(x, routeErr[x] \/ failed)
                /\ routeErr' = [routeErr EXCEPT ![x] = FALSE]
             \/ /\ Tail(work[x]) # <<>>
                /\ routeErr' = [routeErr EXCEPT ![x] = @ \/ failed]
                /\ UNCHANGED <<pc, ret>>
    /\ UNCHANGED <<upstream, route, alive, leaderMu, leaderCtl, electionVars, target, op, calls>>
-----------------------------------------------------------------------------
(* deregisterServiceDirect, run by a caller. *)

NextDelete(x, ids) == Goto(x, IF ids = <<>> THEN "delUpstream" ELSE "delRoute")

(* The ids are taken out of the map before anything is deleted. *)
BeginDelete(x) ==
    /\ work' = [work EXCEPT ![x] = routeIDs[PodOf[x]]]
    /\ routeIDs' = [routeIDs EXCEPT ![PodOf[x]] = <<>>]
    /\ NextDelete(x, routeIDs[PodOf[x]])

(* The DELETE of a route has returned; the first error ends the call. *)
RouteDeleted(x) ==
    /\ pc[x] = "delRoute"
    /\ \/ /\ Failed(x)
          /\ work' = [work EXCEPT ![x] = <<>>]
          /\ Return(x, "error")
       \/ /\ Replied(x)
          /\ work' = [work EXCEPT ![x] = Tail(@)]
          /\ NextDelete(x, Tail(work[x]))
          /\ UNCHANGED ret
    /\ UNCHANGED <<upstream, route, gatewayVars, electionVars, routeErr, target, op, calls>>

(* Mutant: the error of the last DELETE is dropped. *)
UpstreamDeletedUnchecked(x) ==
    /\ pc[x] = "delUpstream"
    /\ Failed(x) \/ Replied(x)
    /\ Return(x, "nil")
    /\ UNCHANGED <<upstream, route, gatewayVars, electionVars, work, routeErr, target, op, calls>>

(* The DELETE of the upstream has returned. *)
UpstreamDeleted(x) ==
    /\ pc[x] = "delUpstream"
    /\ \/ Failed(x) /\ Return(x, "error")
       \/ Replied(x) /\ Return(x, "nil")
    /\ UNCHANGED <<upstream, route, gatewayVars, electionVars, work, routeErr, target, op, calls>>
-----------------------------------------------------------------------------
(* RegisterService, DeregisterService and Close. *)

Call(x, method) ==
    /\ alive[PodOf[x]] /\ pc[x] = "ready"
    /\ calls[x] < MaxCalls[x]
    /\ calls' = [calls EXCEPT ![x] = @ + 1]
    /\ op' = [op EXCEPT ![x] = method]

(* In off mode neither method does anything. *)
CallWhenOff(x) ==
    /\ RegisterMode[PodOf[x]] = "off"
    /\ \E method \in {"register", "deregister"} : Call(x, method)
    /\ Return(x, "nil")
    /\ UNCHANGED <<adminVars, gatewayVars, electionVars, req, work, routeErr, target>>

RegisterSingle(x) ==
    /\ RegisterMode[PodOf[x]] = "single"
    /\ Call(x, "register")
    /\ Goto(x, "putUpstream") /\ ret' = [ret EXCEPT ![x] = "none"]
    /\ UNCHANGED <<adminVars, gatewayVars, electionVars, req, work, routeErr, target>>

DeregisterSingle(x) ==
    /\ RegisterMode[PodOf[x]] = "single"
    /\ Call(x, "deregister")
    /\ \/ /\ shouldDeregisterOnShutdown(PodOf[x])
          /\ BeginDelete(x) /\ ret' = [ret EXCEPT ![x] = "none"]
       \/ /\ ~shouldDeregisterOnShutdown(PodOf[x])
          /\ Return(x, "nil") /\ UNCHANGED <<routeIDs, work>>
    /\ UNCHANGED <<adminVars, alive, leaderMu, leaderCtl, electionVars, req, routeErr, target>>

(* registerServiceByLeader up to the stop of the old controller.  leaderMu *)
(* is held from here to the return.                                        *)
RegisterByLeader(x) ==
    LET p == PodOf[x]
        old == leaderCtl[p]
    IN  /\ RegisterMode[p] = "leader"
        /\ leaderMu[p] = None
        /\ \E c \in Ctls : PodOf[c] = p /\ phase[c] = "new"
        /\ Call(x, "register")
        /\ leaderMu' = [leaderMu EXCEPT ![p] = x]
        /\ ret' = [ret EXCEPT ![x] = "none"]
        /\ \/ /\ old # None /\ started[old]
              /\ started' = [started EXCEPT ![old] = FALSE]
              /\ cancelled' = [cancelled EXCEPT ![old] = TRUE]
              /\ target' = [target EXCEPT ![x] = old]
              /\ Goto(x, "regWait")
           \/ /\ (old # None => ~started[old])
              /\ Goto(x, "regNew")
              /\ UNCHANGED <<started, cancelled, target>>
        /\ UNCHANGED <<adminVars, alive, leaderCtl, routeIDs, lease, phase, isLeader, faults,
                       req, work, routeErr>>

(* Mutant: Stop does not wait for done. *)
OldNotAwaited(x) ==
    /\ alive[PodOf[x]] /\ pc[x] = "regWait"
    /\ Goto(x, "regNew")
    /\ UNCHANGED <<adminVars, gatewayVars, electionVars, req, work, routeErr, callerVars>>

(* old.Stop() comes back from <-done. *)
OldStopped(x) ==
    /\ alive[PodOf[x]] /\ pc[x] = "regWait"
    /\ phase[target[x]] = "done"
    /\ Goto(x, "regNew")
    /\ UNCHANGED <<adminVars, gatewayVars, electionVars, req, work, routeErr, callerVars>>

(* Mutant: the started controller is not put into leaderControllers. *)
NewControllerUnlisted(x) ==
    LET p == PodOf[x] IN
    /\ alive[p] /\ pc[x] = "regNew"
    /\ leaderMu' = [leaderMu EXCEPT ![p] = None]
    /\ Return(x, "nil")
    /\ \E c \in Ctls :
          /\ PodOf[c] = p /\ phase[c] = "new"
          /\ phase' = [phase EXCEPT ![c] = "electing"]
          /\ started' = [started EXCEPT ![c] = TRUE]
    /\ UNCHANGED <<adminVars, alive, leaderCtl, routeIDs, lease, cancelled, isLeader, faults,
                   req, work, routeErr, target, op, calls>>

(* A new controller is created and started and replaces the old one; or    *)
(* newApisixLeaderController or Start fails and the old one stays listed.  *)
NewController(x) ==
    LET p == PodOf[x] IN
    /\ alive[p] /\ pc[x] = "regNew"
    /\ leaderMu' = [leaderMu EXCEPT ![p] = None]
    /\ \/ /\ Return(x, "error")
          /\ UNCHANGED <<leaderCtl, phase, started>>
       \/ /\ Return(x, "nil")
          /\ \E c \in Ctls :
                /\ PodOf[c] = p /\ phase[c] = "new"
                /\ phase' = [phase EXCEPT ![c] = "electing"]
                /\ started' = [started EXCEPT ![c] = TRUE]
                /\ leaderCtl' = [leaderCtl EXCEPT ![p] = c]
    /\ UNCHANGED <<adminVars, alive, routeIDs, lease, cancelled, isLeader, faults,
                   req, work, routeErr, target, op, calls>>

(* DeregisterService in leader mode and Close: the controller is taken out *)
(* of the map under leaderMu and stopped after the unlock.                 *)
TakeController(x, method) ==
    LET p == PodOf[x] IN
    /\ leaderMu[p] = None
    /\ Call(x, method)
    /\ leaderCtl' = [leaderCtl EXCEPT ![p] = None]
    /\ target' = [target EXCEPT ![x] = leaderCtl[p]]

DeregisterByLeader(x) ==
    LET p == PodOf[x] IN
    /\ RegisterMode[p] = "leader"
    /\ TakeController(x, "deregister")
    /\ \/ /\ leaderCtl[p] # None
          /\ Goto(x, "stop") /\ ret' = [ret EXCEPT ![x] = "none"]
          /\ UNCHANGED <<routeIDs, work>>
       \/ /\ leaderCtl[p] = None /\ shouldDeregisterOnShutdown(p)
          /\ BeginDelete(x) /\ ret' = [ret EXCEPT ![x] = "none"]
       \/ /\ leaderCtl[p] = None /\ ~shouldDeregisterOnShutdown(p)
          /\ Return(x, "nil")
          /\ UNCHANGED <<routeIDs, work>>
    /\ UNCHANGED <<adminVars, alive, leaderMu, electionVars, req, routeErr>>

Close(x) ==
    /\ TakeController(x, "close")
    /\ \/ /\ leaderCtl[PodOf[x]] # None
          /\ Goto(x, "stop") /\ ret' = [ret EXCEPT ![x] = "none"]
       \/ /\ leaderCtl[PodOf[x]] = None
          /\ Return(x, "nil")
    /\ UNCHANGED <<adminVars, alive, leaderMu, routeIDs, electionVars, req, work, routeErr>>

(* Mutant: Stop waits without cancelling runCtx. *)
StopControllerUncancelled(x) ==
    /\ alive[PodOf[x]] /\ pc[x] = "stop"
    /\ \/ /\ started[target[x]]
          /\ started' = [started EXCEPT ![target[x]] = FALSE]
          /\ Goto(x, "stopWait")
       \/ /\ ~started[target[x]]
          /\ Goto(x, "stopped") /\ UNCHANGED started
    /\ UNCHANGED <<adminVars, gatewayVars, lease, phase, cancelled, isLeader, faults,
                   req, work, routeErr, callerVars>>

(* controller.Stop(): a controller that is not started is left alone. *)
StopController(x) ==
    /\ alive[PodOf[x]] /\ pc[x] = "stop"
    /\ \/ /\ started[target[x]]
          /\ started' = [started EXCEPT ![target[x]] = FALSE]
          /\ cancelled' = [cancelled EXCEPT ![target[x]] = TRUE]
          /\ Goto(x, "stopWait")
       \/ /\ ~started[target[x]]
          /\ Goto(x, "stopped") /\ UNCHANGED <<started, cancelled>>
    /\ UNCHANGED <<adminVars, gatewayVars, lease, phase, isLeader, faults,
                   req, work, routeErr, callerVars>>

(* <-done in Stop. *)
ControllerDone(x) ==
    /\ alive[PodOf[x]] /\ pc[x] = "stopWait"
    /\ phase[target[x]] = "done"
    /\ Goto(x, "stopped")
    /\ UNCHANGED <<adminVars, gatewayVars, electionVars, req, work, routeErr, callerVars>>

(* The rest of DeregisterService after controller.Stop(), and of Close. *)
AfterStop(x) ==
    /\ alive[PodOf[x]] /\ pc[x] = "stopped"
    /\ \/ /\ op[x] = "deregister"
          /\ shouldDeregisterOnShutdown(PodOf[x])
          /\ isLeader[target[x]]
          /\ BeginDelete(x) /\ UNCHANGED ret
       \/ /\ \/ op[x] = "close"
             \/ ~shouldDeregisterOnShutdown(PodOf[x])
             \/ ~isLeader[target[x]]
          /\ Return(x, "nil") /\ UNCHANGED <<routeIDs, work>>
    /\ UNCHANGED <<adminVars, alive, leaderMu, leaderCtl, electionVars, req, routeErr,
                   target, op, calls>>
-----------------------------------------------------------------------------
(* run: leaderelection.RunOrDie (client-go) with the two callbacks.  The   *)
(* identity in the lease is the pod's, whatever the controller.            *)

(* The lease is free or carries this identity: it is acquired, and the     *)
(* goroutine of OnStartedLeading is created.                               *)
Acquire(c) ==
    /\ alive[PodOf[c]] /\ phase[c] = "electing" /\ ~cancelled[c]
    /\ PodOf[c] \notin InvalidElection
    /\ lease \in {None, PodOf[c]}
    /\ lease' = PodOf[c]
    /\ phase' = [phase EXCEPT ![c] = "leading"]
    /\ Goto(c, "spawned")
    /\ UNCHANGED <<adminVars, gatewayVars, started, cancelled, isLeader, faults,
                   req, work, routeErr, callerVars>>

(* The renew loop ends: runCtx is done, or no renewal succeeded before the *)
(* renew deadline.                                                         *)
RenewEnds(c) ==
    /\ alive[PodOf[c]] /\ phase[c] = "leading"
    /\ phase' = [phase EXCEPT ![c] = "ended"]
    /\ \/ cancelled[c] /\ UNCHANGED faults
       \/ ~cancelled[c] /\ Fault
    /\ UNCHANGED <<adminVars, gatewayVars, lease, started, cancelled, isLeader,
                   procVars, callerVars>>

(* ReleaseOnCancel: the lease is given back, if the API server answers. *)
Release(c) ==
    /\ alive[PodOf[c]] /\ phase[c] = "ended"
    /\ phase' = [phase EXCEPT ![c] = "released"]
    /\ lease' \in {lease, IF lease = PodOf[c] THEN None ELSE lease}
    /\ UNCHANGED <<adminVars, gatewayVars, started, cancelled, isLeader, faults,
                   procVars, callerVars>>

(* Mutant: the elector keeps retrying after runCtx is done. *)
RunReturnsAfterTerm(c) ==
    /\ alive[PodOf[c]] /\ phase[c] = "released"
    /\ phase' = [phase EXCEPT ![c] = "done"]
    /\ isLeader' = [isLeader EXCEPT ![c] = FALSE]
    /\ UNCHANGED <<adminVars, gatewayVars, lease, started, cancelled, faults,
                   procVars, callerVars>>

(* RunOrDie returns after a term, after an acquire cut short by runCtx, or *)
(* panics on an invalid configuration; OnStoppedLeading or the recover     *)
(* clears isLeader and done is closed.                                     *)
RunReturns(c) ==
    /\ alive[PodOf[c]]
    /\ \/ phase[c] = "released"
       \/ phase[c] = "electing" /\ (cancelled[c] \/ PodOf[c] \in InvalidElection)
    /\ phase' = [phase EXCEPT ![c] = "done"]
    /\ isLeader' = [isLeader EXCEPT ![c] = FALSE]
    /\ UNCHANGED <<adminVars, gatewayVars, lease, started, cancelled, faults,
                   procVars, callerVars>>

(* The context given to RegisterService, parent of runCtx, is cancelled. *)
CallerContextEnds(c) ==
    /\ phase[c] \in {"electing", "leading"} /\ ~cancelled[c]
    /\ Fault
    /\ cancelled' = [cancelled EXCEPT ![c] = TRUE]
    /\ UNCHANGED <<adminVars, gatewayVars, lease, phase, started, isLeader,
                   procVars, callerVars>>

(* Nobody has renewed the lease for a lease duration.  client-go requires  *)
(* RenewDeadline < LeaseDuration, so the holder has left its renew loop or *)
(* crashed.                                                                *)
LeaseExpires ==
    /\ lease # None
    /\ \A c \in Ctls : PodOf[c] = lease /\ alive[lease] => phase[c] # "leading"
    /\ lease' = None
    /\ UNCHANGED <<adminVars, gatewayVars, phase, started, cancelled, isLeader, faults,
                   procVars, callerVars>>
-----------------------------------------------------------------------------
(* The OnStartedLeading goroutine.  Nothing orders its first step before   *)
(* OnStoppedLeading, and run does not wait for it.                         *)

LeadStart(c) ==
    /\ alive[PodOf[c]] /\ pc[c] = "spawned"
    /\ isLeader' = [isLeader EXCEPT ![c] = TRUE]
    /\ Goto(c, "putUpstream")
    /\ UNCHANGED <<adminVars, gatewayVars, lease, phase, started, cancelled, faults,
                   req, work, routeErr, callerVars>>

(* Mutant: no reconcile after the first registration. *)
TickIgnored(c) ==
    /\ alive[PodOf[c]] /\ pc[c] = "select"
    /\ Goto(c, "exit")
    /\ UNCHANGED <<adminVars, gatewayVars, electionVars, req, work, routeErr, callerVars>>

(* The ticker fires: reconcile. *)
Tick(c) ==
    /\ alive[PodOf[c]] /\ pc[c] = "select"
    /\ Goto(c, "putUpstream")
    /\ UNCHANGED <<adminVars, gatewayVars, electionVars, req, work, routeErr, callerVars>>

(* <-leadCtx.Done() *)
LeadExit(c) ==
    /\ alive[PodOf[c]] /\ pc[c] = "select" /\ CtxDone(c)
    /\ Goto(c, "exit")
    /\ UNCHANGED <<adminVars, gatewayVars, electionVars, req, work, routeErr, callerVars>>
-----------------------------------------------------------------------------
(* The process of a pod dies; its requests may still be served. *)
Crash(p) ==
    /\ alive[p] /\ Fault
    /\ alive' = [alive EXCEPT ![p] = FALSE]
    /\ UNCHANGED <<adminVars, leaderMu, leaderCtl, routeIDs, lease, phase, started, cancelled, isLeader,
                   procVars, callerVars>>

LateRequest ==
    /\ \E r \in late : LateArrival(r) \/ LateLoss(r)
    /\ UNCHANGED <<gatewayVars, electionVars, procVars, callerVars>>

MethodCall(x) ==
    \/ CallWhenOff(x) \/ RegisterSingle(x) \/ DeregisterSingle(x)
    \/ RegisterByLeader(x) \/ DeregisterByLeader(x) \/ Close(x)
HttpStep(x) ==
    Send(x) \/ UpstreamPut(x) \/ RoutePut(x) \/ RouteDeleted(x) \/ UpstreamDeleted(x)
CallerStep(x) ==
    \/ HttpStep(x)
    \/ OldStopped(x) \/ NewController(x) \/ StopController(x) \/ ControllerDone(x) \/ AfterStop(x)
LeadStep(c) == HttpStep(c) \/ LeadStart(c) \/ Tick(c) \/ LeadExit(c)
RunStep(c) == RenewEnds(c) \/ Release(c) \/ RunReturns(c)

Next ==
    \/ \E x \in Procs : ServerAccepts(x)
    \/ \E x \in Callers : MethodCall(x) \/ CallerStep(x)
    \/ \E c \in Ctls : Acquire(c) \/ RunStep(c) \/ CallerContextEnds(c) \/ LeadStep(c)
    \/ \E p \in Pods : Crash(p)
    \/ LeaseExpires
    \/ LateRequest

(* Runnable goroutines run, and a request ends at the latest with the      *)
(* client's timeout; electors retry, and a lease that nobody renews        *)
(* expires; APISIX does not refuse a resource for ever, nor is every reply *)
(* lost.  Calls and faults are not fair.                   *)
Fairness ==
    /\ \A x \in Callers : WF_vars(CallerStep(x))
    /\ \A c \in Ctls :
          /\ WF_vars(LeadStep(c))
          /\ WF_vars(RunStep(c) /\ UNCHANGED faults)
          /\ SF_vars(Acquire(c))
          /\ \A i \in {Upstream} \cup Routes : SF_vars(ServerAccepts(c) /\ RequestOf(c).id = i)
          /\ SF_vars(UpstreamPut(c) /\ work'[c] # <<>>)
    /\ WF_vars(LeaseExpires)

Spec == Init /\ [][Next]_vars
FairSpec == Spec /\ Fairness
-----------------------------------------------------------------------------
Leading(c) == phase[c] = "leading" /\ alive[PodOf[c]]
Candidate(c) == phase[c] = "electing" /\ alive[PodOf[c]] /\ PodOf[c] \notin InvalidElection

(* The goroutine run of controller c has not returned. *)
Running(c) == phase[c] \in {"electing", "leading", "ended", "released"}

(* At most one controller of the service is in its term, so that only one  *)
(* pod reconciles: RegisterService waits for the old controller before it  *)
(* starts a new one (apisix.go 151-162) and the lease excludes other pods. *)
OneTerm == \A c, d \in Ctls : Leading(c) /\ Leading(d) => c = d

(* A running controller is still listed and started, or the caller that    *)
(* took it out waits for it in Stop (apisix.go 151, 187-191, 234-243).     *)
Tracked(c) ==
    \/ started[c] /\ leaderCtl[PodOf[c]] = c
    \/ \E x \in Callers : /\ PodOf[x] = PodOf[c] /\ target[x] = c
                          /\ \/ pc[x] = "stop" /\ started[c]
                             \/ pc[x] \in {"regWait", "stopWait"}

(* What a caller relies on while it registers or stops. *)
CallerView(x) ==
    /\ pc[x] = "regNew" => \A c \in Ctls : PodOf[c] = PodOf[x] => ~Running(c)
    /\ pc[x] = "regWait" => target[x] \in Ctls /\ leaderCtl[PodOf[x]] = target[x]
    /\ pc[x] \in {"stop", "stopWait"} =>
          target[x] \in Ctls /\ PodOf[target[x]] = PodOf[x] /\ leaderCtl[PodOf[x]] = None

(* With one caller per pod no controller is started while another one of   *)
(* the pod runs, none that runs is forgotten, and a leader holds the lease *)
(* (apisix.go 147-164, 185-198, 232-243; apisix_leader.go 156-172).        *)
ControllersTracked ==
    /\ TypeOK
    /\ \A c \in Ctls : Leading(c) => lease = PodOf[c]
    /\ \A c \in Ctls : Running(c) => Tracked(c)
    /\ \A x \in Callers : CallerView(x)
    /\ \A p \in Pods : leaderCtl[p] # None => PodOf[leaderCtl[p]] = p

(* The exit of a pod never deletes shared routes when the default of       *)
(* DeregisterOnShutdown in leader mode applies (apisix.go 195-205,         *)
(* 262-270).                                                               *)
RoutesSurviveExit ==
    [][/\ upstream # None => upstream' # None
       /\ \A i \in Routes : route[i] # None => route'[i] # None]_vars

(* A DeregisterService that was to delete and returned nil has removed     *)
(* what this pod wrote: the upstream and every route (apisix.go 211-229).  *)
DeregisteredIsGone ==
    \A x \in Callers :
        /\ pc[x] = "ready" /\ op[x] = "deregister" /\ ret[x] = "nil"
        /\ RegisterMode[PodOf[x]] # "off" /\ shouldDeregisterOnShutdown(PodOf[x])
        => upstream # PodOf[x] /\ \A i \in Routes : route[i] # PodOf[x]

(* Once there is a leader for good, its upstream and routes get into       *)
(* APISIX and stay there, whatever earlier leaders left under way: the     *)
(* ticker reconciles (apisix_leader.go 135-146).                           *)
LeaderContentWins ==
    <>[](\E c \in Ctls : Leading(c))
        => <>[](\E c \in Ctls : /\ Leading(c)
                                /\ upstream = PodOf[c]
                                /\ \A i \in Routes : route[i] = PodOf[c])

(* The service is not left without a leader while a pod stands for         *)
(* election, whoever crashed with the lease or lost it (apisix_leader.go   *)
(* 122).                                                                   *)
CandidatesElect ==
    []<>((\E c \in Ctls : Candidate(c)) => \E c \in Ctls : Leading(c))

(* Every call of RegisterService, DeregisterService and Close returns: Stop *)
(* does not wait for ever, with or without leaderMu (apisix.go 152, 192,    *)
(* 242; apisix_leader.go 171).                                              *)
CallsReturn ==
    \A x \in Callers : []<>(pc[x] = "ready" \/ ~alive[PodOf[x]])
=============================================================================
