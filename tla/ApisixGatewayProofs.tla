------------------------ MODULE ApisixGatewayProofs ------------------------
(***************************************************************************)
(* Proofs about ApisixGateway, for any number of pods, callers,            *)
(* controllers and routes: that no two controllers are in their term at    *)
(* once when each pod has one caller, and that routes are never deleted by *)
(* pods that are not to deregister on shutdown.                            *)
(***************************************************************************)
EXTENDS ApisixTypeProofs

(* One term at a time. *)

(* Each pod calls its gateway from one goroutine. *)
OneCallerPerPod == \A x, y \in Callers : PodOf[x] = PodOf[y] => x = y

Waiting == {"regNew", "regWait", "stop", "stopWait"}

(* Before any call there is no controller to keep track of. *)
LEMMA TrackedInit == Init => ControllersTracked
BY TypeInit DEF Init, ControllersTracked, Leading, Running, CallerView, Procs

(* Two running controllers of one pod are the same controller. *)
LEMMA OneRunning ==
    ASSUME OneCallerPerPod, ControllersTracked, NEW c \in Ctls, NEW d \in Ctls,
           Running(c), Running(d), PodOf[c] = PodOf[d]
    PROVE  c = d
<1>1. Tracked(c) /\ Tracked(d) BY Zenon DEF ControllersTracked
<1>2. \A x \in Callers : CallerView(x) BY Zenon DEF ControllersTracked
<1>3. None \notin Ctls BY Zenon, GatewayConstants DEF GatewayConstants, Procs
<1>4. ASSUME NEW x \in Callers, PodOf[x] = PodOf[c], pc[x] \in {"regWait", "stop", "stopWait"}
      PROVE  target[x] \in Ctls /\ (leaderCtl[PodOf[c]] = target[x] \/ leaderCtl[PodOf[c]] = None)
  BY Zenon, <1>2, <1>4 DEF CallerView
<1>5. CASE leaderCtl[PodOf[c]] = c \/ leaderCtl[PodOf[c]] = d
  <2>1. ASSUME NEW x \in Callers, PodOf[x] = PodOf[c], pc[x] \in {"regWait", "stop", "stopWait"}
        PROVE  leaderCtl[PodOf[c]] = target[x]
    BY Zenon, <1>3, <1>4, <1>5, <2>1
  <2> QED BY <1>1, <2>1 DEF Tracked
<1>6. CASE leaderCtl[PodOf[c]] # c /\ leaderCtl[PodOf[c]] # d
  <2>1. PICK x \in Callers : PodOf[x] = PodOf[c] /\ target[x] = c
    BY Zenon, <1>1, <1>6 DEF Tracked
  <2>2. PICK y \in Callers : PodOf[y] = PodOf[d] /\ target[y] = d
    BY Zenon, <1>1, <1>6 DEF Tracked
  <2> QED BY Zenon, <2>1, <2>2 DEF OneCallerPerPod
<1> QED BY Zenon, <1>5, <1>6

(* Steps that do not touch the election, the map or the waits. *)
LEMMA TrackedFrame ==
    ASSUME ControllersTracked, TypeOK',
           UNCHANGED <<alive, leaderCtl, lease, phase, started, target>>,
           \A x \in Callers : pc'[x] = pc[x] \/ (pc[x] \notin Waiting /\ pc'[x] \notin Waiting)
    PROVE  ControllersTracked'
<1>1. \A c \in Ctls : Running(c)' => Tracked(c)'
  BY DEF ControllersTracked, Running, Tracked, Waiting
<1>2. \A x \in Callers : CallerView(x)'
  BY Zenon DEF ControllersTracked, Running, CallerView, Waiting
<1> QED BY Zenon, <1>1, <1>2 DEF ControllersTracked, Leading

(* A running controller of a pod whose caller does not wait is listed. *)
LEMMA RunningIsListed ==
    ASSUME OneCallerPerPod, ControllersTracked, NEW x \in Callers,
           pc[x] \notin {"stop", "regWait", "stopWait"},
           NEW c \in Ctls, Running(c), PodOf[c] = PodOf[x]
    PROVE  started[c] /\ leaderCtl[PodOf[x]] = c
BY DEF ControllersTracked, Tracked, OneCallerPerPod

(* A caller waits for the only controller of its pod that may run. *)
LEMMA RunningIsTarget ==
    ASSUME OneCallerPerPod, ControllersTracked, NEW x \in Callers,
           pc[x] \in {"stop", "regWait", "stopWait"},
           NEW c \in Ctls, Running(c), PodOf[c] = PodOf[x]
    PROVE  target[x] = c /\ (pc[x] = "stop" => started[c])
<1>1. CallerView(x) /\ Tracked(c) BY Zenon DEF ControllersTracked
<1>2. None \notin Ctls BY Zenon, GatewayConstants DEF GatewayConstants, Procs
<1> QED BY Zenon, <1>1, <1>2 DEF CallerView, Tracked, OneCallerPerPod

(* A step of a caller concerns its own pod only: it is enough to look at   *)
(* the caller and at the running controllers of its pod.                   *)
LEMMA TrackedCaller ==
    ASSUME OneCallerPerPod, ControllersTracked, TypeOK', NEW x \in Callers,
           UNCHANGED <<alive, lease>>,
           \A y \in Callers \ {x} : pc'[y] = pc[y] /\ target'[y] = target[y],
           \A p \in Pods \ {PodOf[x]} : leaderCtl'[p] = leaderCtl[p],
           \A c \in Ctls : PodOf[c] # PodOf[x] => phase'[c] = phase[c] /\ started'[c] = started[c],
           \A c \in Ctls : phase'[c] = "leading" => phase[c] = "leading",
           \A c \in Ctls : PodOf[c] = PodOf[x] /\ Running(c)' => Tracked(c)',
           CallerView(x)',
           leaderCtl'[PodOf[x]] # None => PodOf[leaderCtl'[PodOf[x]]] = PodOf[x]
    PROVE  ControllersTracked'
<1>1. \A y \in Callers \ {x} : PodOf[y] # PodOf[x] BY Zenon DEF OneCallerPerPod
<1>2. \A y \in Procs : PodOf[y] \in Pods BY Zenon, GatewayConstants DEF GatewayConstants
<1>3. \A c \in Ctls : Running(c)' => Tracked(c)'
  <2> SUFFICES ASSUME NEW c \in Ctls, Running(c)', PodOf[c] # PodOf[x] PROVE Tracked(c)'
    BY Zenon
  <2>1. Running(c) /\ Tracked(c) BY Zenon DEF Running, ControllersTracked
  <2>2. started'[c] = started[c] /\ leaderCtl'[PodOf[c]] = leaderCtl[PodOf[c]]
    BY Zenon, <1>2 DEF Procs
  <2>3. \A y \in Callers : PodOf[y] = PodOf[c] => pc'[y] = pc[y] /\ target'[y] = target[y]
    BY Zenon
  <2>4. CASE started[c] /\ leaderCtl[PodOf[c]] = c
    BY Zenon, <2>2, <2>4 DEF Tracked
  <2>5. CASE ~(started[c] /\ leaderCtl[PodOf[c]] = c)
    <3>1. PICK y \in Callers : /\ PodOf[y] = PodOf[c] /\ target[y] = c
                               /\ \/ pc[y] = "stop" /\ started[c]
                                  \/ pc[y] \in {"regWait", "stopWait"}
      BY <2>1, <2>5, Zenon DEF Tracked
    <3>2. pc'[y] = pc[y] /\ target'[y] = target[y]
      BY Zenon, <2>3, <3>1
    <3> HIDE <2>3
    <3> QED BY <2>2, <3>1, <3>2 DEF Tracked
  <2> QED BY Zenon, <2>4, <2>5
<1>4. \A y \in Callers : CallerView(y)'
  <2> SUFFICES ASSUME NEW y \in Callers \ {x} PROVE CallerView(y)'
    BY Zenon
  <2>1. CallerView(y) /\ PodOf[y] # PodOf[x] BY Zenon, <1>1 DEF ControllersTracked
  <2>2. leaderCtl'[PodOf[y]] = leaderCtl[PodOf[y]] /\ pc'[y] = pc[y] /\ target'[y] = target[y]
    BY Zenon, <1>2, <2>1 DEF Procs
  <2>3. \A c \in Ctls : PodOf[c] = PodOf[y] => (Running(c)' <=> Running(c))
    BY Zenon, <2>1 DEF Running
  <2> QED BY Zenon, <2>1, <2>2, <2>3 DEF CallerView
<1>5. \A c \in Ctls : Leading(c)' => lease' = PodOf[c]
  BY Zenon DEF ControllersTracked, Leading
<1>6. \A p \in Pods : leaderCtl'[p] # None => PodOf[leaderCtl'[p]] = p
  BY Zenon DEF ControllersTracked
<1> QED BY Zenon, <1>3, <1>4, <1>5, <1>6 DEF ControllersTracked

(* The proof has one step per group of actions; the actions of callers     *)
(* use that a caller that is not waiting leaves its pod's only running     *)
(* controller in the map.                                                  *)
LEMMA TrackedNext ==
    ASSUME OneCallerPerPod PROVE ControllersTracked /\ [Next]_vars => ControllersTracked'
<1> SUFFICES ASSUME ControllersTracked, [Next]_vars PROVE ControllersTracked'
  BY Zenon
<1>0. TypeOK /\ TypeOK'
  BY Zenon, TypeNext DEF ControllersTracked
<1> USE <1>0
<1>1. ASSUME NEW x \in Procs, ServerAccepts(x) PROVE ControllersTracked'
  BY Zenon, <1>1, TrackedFrame DEF ServerAccepts, gatewayVars, electionVars, callerVars
<1>2. ASSUME NEW x \in Procs, HttpStep(x) PROVE ControllersTracked'
  <2>1. UNCHANGED <<alive, leaderCtl, lease, phase, started, target>>
    BY Zenon, <1>2 DEF HttpStep, Send, UpstreamPut, RoutePut, RouteDeleted, UpstreamDeleted, gatewayVars,
        electionVars, callerVars
  <2>2. pc' = pc \/ (pc[x] \in HttpLocations /\ \E l \in Locations \ Waiting : Goto(x, l))
    BY Zenon, <1>2 DEF HttpStep, Send, UpstreamPut, RoutePut, RouteDeleted, UpstreamDeleted, RegisterReturns,
        Return, NextDelete, Waiting, Locations, HttpLocations, CallerLocations, GoroutineLocations
  <2>3. \A y \in Callers : pc'[y] = pc[y] \/ (pc[y] \notin Waiting /\ pc'[y] \notin Waiting)
    BY Zenon, <2>2 DEF Goto, TypeOK, Procs, Waiting, HttpLocations
  <2> QED BY Zenon, <2>1, <2>3, TrackedFrame
<1>3. ASSUME NEW x \in Callers, CallWhenOff(x) \/ RegisterSingle(x) \/ DeregisterSingle(x) \/ AfterStop(x)
      PROVE ControllersTracked'
  <2>1. UNCHANGED <<alive, leaderCtl, lease, phase, started, target>>
    BY Zenon, <1>3 DEF CallWhenOff, RegisterSingle, DeregisterSingle, AfterStop, gatewayVars, electionVars
  <2>2. pc[x] \notin Waiting /\ \E l \in Locations \ Waiting : Goto(x, l)
    BY Zenon, <1>3 DEF CallWhenOff, RegisterSingle, DeregisterSingle, AfterStop, Call, BeginDelete, NextDelete,
        Return, Waiting, Locations, HttpLocations, CallerLocations
  <2>3. \A y \in Callers : pc'[y] = pc[y] \/ (pc[y] \notin Waiting /\ pc'[y] \notin Waiting)
    BY Zenon, <2>2 DEF Goto, TypeOK, Procs
  <2> QED BY Zenon, <2>1, <2>3, TrackedFrame
<1>4. ASSUME NEW c \in Ctls, CallerContextEnds(c) \/ LeadStart(c) \/ Tick(c) \/ LeadExit(c)
      PROVE ControllersTracked'
  <2>1. UNCHANGED <<alive, leaderCtl, lease, phase, started, target>>
    BY Zenon, <1>4 DEF CallerContextEnds, LeadStart, Tick, LeadExit, gatewayVars, electionVars, callerVars
  <2>2. \A y \in Callers : pc'[y] = pc[y]
    <3>1. pc' = pc \/ \E l \in {"putUpstream", "exit"} : pc' = [pc EXCEPT ![c] = l]
      BY Zenon, <1>4 DEF CallerContextEnds, LeadStart, Tick, LeadExit, procVars, Goto
    <3>2. \A y \in Callers : y # c /\ y \in Procs BY Zenon, GatewayConstants DEF GatewayConstants, Procs
    <3>3. pc \in [Procs -> Locations] BY Zenon DEF TypeOK
    <3> QED BY Zenon, <3>1, <3>2, <3>3
  <2> QED BY Zenon, <2>1, <2>2, TrackedFrame
<1>5. CASE LateRequest
  BY Zenon, <1>5, TrackedFrame DEF LateRequest, gatewayVars, electionVars, procVars, callerVars
<1>6. CASE UNCHANGED vars
  BY Zenon, <1>6, TrackedFrame DEF vars, gatewayVars, electionVars, procVars, callerVars
<1>7. ASSUME NEW p \in Pods, Crash(p) PROVE ControllersTracked'
  <2>1. \A c \in Ctls : Leading(c)' => Leading(c)
    BY Zenon, <1>7, GatewayConstants DEF Crash, Leading, TypeOK, GatewayConstants, Procs
  <2>2. \A c \in Ctls : Running(c)' => Tracked(c)'
    BY Zenon, <1>7 DEF Crash, ControllersTracked, Running, Tracked, procVars, callerVars
  <2>3. \A x \in Callers : CallerView(x)'
    BY Zenon, <1>7 DEF Crash, ControllersTracked, Running, CallerView, procVars, callerVars
  <2> QED BY Zenon, <1>7, <2>1, <2>2, <2>3 DEF Crash, ControllersTracked
<1>8. CASE LeaseExpires
  <2>1. \A c \in Ctls : Running(c)' => Tracked(c)'
    BY Zenon, <1>8 DEF LeaseExpires, ControllersTracked, Running, Tracked, gatewayVars, procVars, callerVars
  <2>2. \A x \in Callers : CallerView(x)'
    BY Zenon, <1>8 DEF LeaseExpires, ControllersTracked, Running, CallerView, gatewayVars, procVars, callerVars
  <2>3. \A c \in Ctls : ~Leading(c)'
    BY Zenon, <1>8 DEF LeaseExpires, ControllersTracked, Leading, gatewayVars
  <2> QED BY Zenon, <1>8, <2>1, <2>2, <2>3 DEF LeaseExpires, ControllersTracked, gatewayVars
<1>9. ASSUME NEW c \in Ctls, Acquire(c) PROVE ControllersTracked'
  <2>1. Running(c) /\ phase' = [phase EXCEPT ![c] = "leading"] /\ lease' = PodOf[c]
        /\ UNCHANGED <<alive, leaderCtl, started, target>>
    BY Zenon, <1>9 DEF Acquire, Running, gatewayVars, callerVars
  <2>2. \A y \in Callers : pc'[y] = pc[y]
    BY <1>9, GatewayConstants DEF Acquire, Goto, TypeOK, Procs, GatewayConstants
  <2>3. \A d \in Ctls : Running(d)' <=> Running(d)
    BY Zenon, <2>1 DEF Running, TypeOK
  <2>4. \A d \in Ctls : Leading(d)' => lease' = PodOf[d]
    <3> SUFFICES ASSUME NEW d \in Ctls, Leading(d)' PROVE PodOf[c] = PodOf[d]
      BY Zenon, <2>1
    <3>1. CASE d = c BY Zenon, <3>1
    <3>2. CASE d # c
      <4>1. Leading(d) BY Zenon, <2>1, <3>2 DEF Leading, TypeOK
      <4>2. lease = PodOf[d] BY Zenon, <4>1 DEF ControllersTracked
      <4>3. PodOf[d] # None BY Zenon, GatewayConstants, AdminConstants DEF GatewayConstants, AdminConstants, Procs
      <4> QED BY Zenon, <1>9, <4>2, <4>3 DEF Acquire
    <3> QED BY Zenon, <3>1, <3>2
  <2>5. \A d \in Ctls : Running(d)' => Tracked(d)'
    BY <2>1, <2>2, <2>3 DEF ControllersTracked, Tracked
  <2>6. \A x \in Callers : CallerView(x)'
    BY Zenon, <2>1, <2>2, <2>3 DEF ControllersTracked, CallerView
  <2> QED BY Zenon, <2>1, <2>4, <2>5, <2>6 DEF ControllersTracked
<1>10. ASSUME NEW c \in Ctls, RunStep(c) PROVE ControllersTracked'
  <2>1. /\ Running(c)
        /\ \E f \in {"ended", "released", "done"} : phase' = [phase EXCEPT ![c] = f]
        /\ UNCHANGED <<alive, leaderCtl, started, target, pc>>
    BY Zenon, <1>10 DEF RunStep, RenewEnds, Release, RunReturns, Running, gatewayVars, procVars, callerVars
  <2>2. \A d \in Ctls : (Running(d)' => Running(d)) /\ (Leading(d)' => Leading(d) /\ d # c)
    <3>1. PICK f \in {"ended", "released", "done"} : phase' = [phase EXCEPT ![c] = f]
      BY Zenon, <2>1
    <3>2. phase \in [Ctls -> Phases]
      BY Zenon DEF ControllersTracked, TypeOK
    <3>3. \A d \in Ctls : phase'[d] = IF d = c THEN f ELSE phase[d]
      BY Zenon, <3>1, <3>2
    <3> QED BY Zenon, <2>1, <3>3 DEF Running, Leading
  <2>3. \A d \in Ctls : Leading(d)' => lease' = PodOf[d]
    <3> SUFFICES ASSUME NEW d \in Ctls, Leading(d)' PROVE lease' = PodOf[d]
      BY Zenon
    <3>1. Leading(d) /\ d # c /\ lease = PodOf[d] BY Zenon, <2>2 DEF ControllersTracked
    <3>2. Running(d) BY Zenon, <3>1 DEF Leading, Running
    <3>3. PodOf[d] # PodOf[c] BY Zenon, <2>1, <3>1, <3>2, OneRunning
    <3> QED BY Zenon, <1>10, <3>1, <3>3 DEF RunStep, RenewEnds, Release, RunReturns
  <2>4. \A d \in Ctls : Running(d)' => Tracked(d)'
    BY Zenon, <2>1, <2>2 DEF ControllersTracked, Tracked
  <2>5. \A x \in Callers : CallerView(x)'
    BY Zenon, <2>1, <2>2 DEF ControllersTracked, CallerView
  <2> QED BY Zenon, <2>1, <2>3, <2>4, <2>5 DEF ControllersTracked
<1>11. ASSUME NEW x \in Callers, RegisterByLeader(x) PROVE ControllersTracked'
  <2> DEFINE p == PodOf[x]
  <2>1. x \in Procs /\ p \in Pods /\ leaderCtl[p] \in Ctls \cup {None} /\ pc[x] = "ready"
    BY Zenon, <1>11, GatewayConstants DEF RegisterByLeader, Call, GatewayConstants, Procs, TypeOK
  <2>2. UNCHANGED <<alive, leaderCtl, lease, phase>>
    BY Zenon, <1>11 DEF RegisterByLeader
  <2>5. leaderCtl'[p] # None => PodOf[leaderCtl'[p]] = p
    BY Zenon, <2>1, <2>2 DEF ControllersTracked
  <2>3. CASE leaderCtl[p] # None /\ started[leaderCtl[p]]
    <3>1. /\ started' = [started EXCEPT ![leaderCtl[p]] = FALSE]
          /\ target' = [target EXCEPT ![x] = leaderCtl[p]]
          /\ Goto(x, "regWait")
      BY Zenon, <1>11, <2>3 DEF RegisterByLeader
    <3>2. pc'[x] = "regWait" /\ target'[x] = leaderCtl[p] /\ leaderCtl[p] \in Ctls
      <4>1. pc'[x] = "regWait" BY Zenon, <2>1, <3>1 DEF Goto, TypeOK
      <4>2. target'[x] = leaderCtl[p]
        <5>1. target \in [Callers -> Ctls \cup {None}] BY Zenon DEF TypeOK
        <5> QED BY Zenon, <3>1, <5>1
      <4> QED BY Zenon, <2>1, <2>3, <4>1, <4>2
    <3>3. \A y \in Callers \ {x} : pc'[y] = pc[y] /\ target'[y] = target[y]
      BY Zenon, <3>1 DEF Goto, TypeOK, Procs
    <3>4. \A c \in Ctls : PodOf[c] = p /\ Running(c)' => Tracked(c)'
      BY Zenon, <2>1, <2>2, <3>2, RunningIsListed DEF Running, Tracked
    <3>5. CallerView(x)'
      BY Zenon, <2>2, <3>2 DEF CallerView
    <3>6. \A c \in Ctls : PodOf[c] # p => started'[c] = started[c]
      BY Zenon, <2>1, <2>3, <3>1 DEF TypeOK, ControllersTracked
    <3> QED BY Zenon, <2>2, <3>3, <3>4, <3>5, <3>6, <2>5, TrackedCaller
  <2>4. CASE ~(leaderCtl[p] # None /\ started[leaderCtl[p]])
    <3>1. Goto(x, "regNew") /\ UNCHANGED <<started, target>>
      BY Zenon, <1>11, <2>4 DEF RegisterByLeader
    <3>2. \A c \in Ctls : PodOf[c] = p => ~Running(c)
      BY Zenon, <2>1, <2>4, GatewayConstants, RunningIsListed DEF GatewayConstants, Procs
    <3>3. pc'[x] = "regNew" /\ \A y \in Callers \ {x} : pc'[y] = pc[y]
      BY Zenon, <2>1, <3>1 DEF Goto, TypeOK, Procs
    <3>4. CallerView(x)' /\ \A c \in Ctls : PodOf[c] = p => ~Running(c)'
      BY Zenon, <2>2, <3>2, <3>3 DEF CallerView, Running
    <3> QED BY Zenon, <2>2, <3>1, <3>3, <3>4, <2>5, TrackedCaller
  <2> QED BY Zenon, <2>3, <2>4
<1>12. ASSUME NEW x \in Callers, OldStopped(x) \/ ControllerDone(x) PROVE ControllersTracked'
  <2>1. UNCHANGED <<alive, leaderCtl, lease, phase, started, target>>
    BY Zenon, <1>12 DEF OldStopped, ControllerDone, gatewayVars, electionVars, callerVars
  <2>2. /\ x \in Procs /\ pc[x] \in {"regWait", "stopWait"} /\ phase[target[x]] = "done"
        /\ Goto(x, "regNew") \/ Goto(x, "stopped")
    BY Zenon, <1>12 DEF OldStopped, ControllerDone, Procs
  <2>3. \A c \in Ctls : PodOf[c] = PodOf[x] => ~Running(c)
    BY Zenon, <2>2, RunningIsTarget DEF Running
  <2>4. pc'[x] \in {"regNew", "stopped"} /\ \A y \in Callers \ {x} : pc'[y] = pc[y]
    BY <2>2 DEF Goto, TypeOK, Procs
  <2>5. CallerView(x)' /\ \A c \in Ctls : PodOf[c] = PodOf[x] => ~Running(c)'
    BY Zenon, <2>1, <2>3, <2>4 DEF CallerView, Running
  <2>6. leaderCtl'[PodOf[x]] # None => PodOf[leaderCtl'[PodOf[x]]] = PodOf[x]
    BY Zenon, <2>1, <2>2, GatewayConstants DEF ControllersTracked, GatewayConstants
  <2> QED BY Zenon, <2>1, <2>4, <2>5, <2>6, TrackedCaller
<1>13. ASSUME NEW x \in Callers, NewController(x) PROVE ControllersTracked'
  <2> DEFINE p == PodOf[x]
  <2>1. x \in Procs /\ p \in Pods /\ pc[x] = "regNew" /\ Goto(x, "ready")
        /\ UNCHANGED <<alive, lease, target>>
    BY Zenon, <1>13, GatewayConstants DEF NewController, Return, GatewayConstants, Procs
  <2>2. pc'[x] = "ready" /\ \A y \in Callers \ {x} : pc'[y] = pc[y]
    BY Zenon, <2>1 DEF Goto, TypeOK, Procs
  <2>3. CallerView(x)' BY Zenon, <2>2 DEF CallerView
  <2>4. \A c \in Ctls : PodOf[c] = p => ~Running(c)
    BY Zenon, <2>1 DEF ControllersTracked, CallerView
  <2>5. CASE UNCHANGED <<leaderCtl, phase, started>>
    <3>1. \A c \in Ctls : PodOf[c] = p => ~Running(c)'
      BY Zenon, <2>4, <2>5 DEF Running
    <3>2. leaderCtl'[p] # None => PodOf[leaderCtl'[p]] = p
      BY Zenon, <2>1, <2>5 DEF ControllersTracked
    <3> QED BY Zenon, <2>1, <2>2, <2>3, <2>5, <3>1, <3>2, TrackedCaller
  <2>6. ASSUME NEW c \in Ctls, PodOf[c] = p, phase[c] = "new",
               phase' = [phase EXCEPT ![c] = "electing"],
               started' = [started EXCEPT ![c] = TRUE],
               leaderCtl' = [leaderCtl EXCEPT ![p] = c]
        PROVE  ControllersTracked'
    <3>1. leaderCtl'[p] = c /\ started'[c] = TRUE /\ phase'[c] = "electing"
      BY Zenon, <2>1, <2>6 DEF TypeOK
    <3>2. \A d \in Ctls \ {c} : phase'[d] = phase[d] /\ started'[d] = started[d]
      BY Zenon, <2>6 DEF TypeOK
    <3>3. \A q \in Pods \ {p} : leaderCtl'[q] = leaderCtl[q]
      BY Zenon, <2>6 DEF TypeOK
    <3>4. \A d \in Ctls : PodOf[d] = p /\ Running(d)' => Tracked(d)'
      BY Zenon, <2>4, <2>6, <3>1, <3>2 DEF Running, Tracked
    <3> QED BY Zenon, <2>1, <2>2, <2>3, <2>6, <3>1, <3>2, <3>3, <3>4, TrackedCaller
  <2> QED BY Zenon, <1>13, <2>5, <2>6 DEF NewController
<1>14. ASSUME NEW x \in Callers, DeregisterByLeader(x) \/ Close(x) PROVE ControllersTracked'
  <2> DEFINE p == PodOf[x]
  <2>1. /\ x \in Procs /\ p \in Pods /\ leaderCtl[p] \in Ctls \cup {None} /\ pc[x] = "ready"
        /\ leaderCtl' = [leaderCtl EXCEPT ![p] = None]
        /\ target' = [target EXCEPT ![x] = leaderCtl[p]]
        /\ UNCHANGED <<alive, lease, phase, started>>
    BY Zenon, <1>14, GatewayConstants DEF DeregisterByLeader, Close, TakeController, Call, GatewayConstants,
        Procs, TypeOK, electionVars
  <2>2. /\ leaderCtl'[p] = None /\ target'[x] = leaderCtl[p]
        /\ \A q \in Pods \ {p} : leaderCtl'[q] = leaderCtl[q]
        /\ \A y \in Callers \ {x} : target'[y] = target[y]
    BY Zenon, <2>1 DEF TypeOK
  <2>3. CASE leaderCtl[p] # None
    <3>1. Goto(x, "stop")
      BY Zenon, <1>14, <2>3 DEF DeregisterByLeader, Close
    <3>2. pc'[x] = "stop" /\ \A y \in Callers \ {x} : pc'[y] = pc[y]
      BY Zenon, <2>1, <3>1 DEF Goto, TypeOK, Procs
    <3>3. \A c \in Ctls : PodOf[c] = p /\ Running(c)' => Tracked(c)'
      BY Zenon, <2>1, <2>2, <3>2, RunningIsListed DEF Running, Tracked
    <3>4. CallerView(x)'
      BY Zenon, <2>1, <2>2, <2>3, <3>2 DEF CallerView, ControllersTracked
    <3> QED BY Zenon, <2>1, <2>2, <3>2, <3>3, <3>4, TrackedCaller
  <2>4. CASE leaderCtl[p] = None
    <3>1. \E l \in Locations \ Waiting : Goto(x, l)
      BY Zenon, <1>14, <2>4 DEF DeregisterByLeader, Close, BeginDelete, NextDelete, Return, Waiting, Locations,
          HttpLocations, CallerLocations
    <3>2. pc'[x] \notin Waiting /\ \A y \in Callers \ {x} : pc'[y] = pc[y]
      BY Zenon, <2>1, <3>1 DEF Goto, TypeOK, Procs
    <3>3. \A c \in Ctls : PodOf[c] = p => ~Running(c)
      BY Zenon, <2>1, <2>4, GatewayConstants, RunningIsListed DEF GatewayConstants, Procs
    <3>4. CallerView(x)' /\ \A c \in Ctls : PodOf[c] = p => ~Running(c)'
      BY Zenon, <2>1, <3>2, <3>3 DEF CallerView, Running, Waiting
    <3> QED BY Zenon, <2>1, <2>2, <3>2, <3>4, TrackedCaller
  <2> QED BY Zenon, <2>3, <2>4
<1>15. ASSUME NEW x \in Callers, StopController(x) PROVE ControllersTracked'
  <2> DEFINE t == target[x]
  <2>1. /\ x \in Procs /\ pc[x] = "stop" /\ t \in Ctls /\ PodOf[t] = PodOf[x]
        /\ leaderCtl[PodOf[x]] = None
        /\ UNCHANGED <<alive, leaderCtl, lease, phase, target>>
    BY Zenon, <1>15 DEF StopController, ControllersTracked, CallerView, Procs, gatewayVars, callerVars
  <2>2. CASE started[t]
    <3>1. started' = [started EXCEPT ![t] = FALSE] /\ Goto(x, "stopWait")
      BY Zenon, <1>15, <2>2 DEF StopController
    <3>2. pc'[x] = "stopWait" /\ \A y \in Callers \ {x} : pc'[y] = pc[y]
      BY Zenon, <2>1, <3>1 DEF Goto, TypeOK, Procs
    <3>3. \A c \in Ctls \ {t} : started'[c] = started[c]
      BY Zenon, <3>1 DEF TypeOK
    <3>4. \A c \in Ctls : PodOf[c] = PodOf[x] /\ Running(c)' => Tracked(c)'
      BY Zenon, <2>1, <3>2, RunningIsTarget DEF Running, Tracked
    <3>5. CallerView(x)' BY Zenon, <2>1, <3>2 DEF CallerView
    <3> QED BY Zenon, <2>1, <3>2, <3>3, <3>4, <3>5, TrackedCaller
  <2>3. CASE ~started[t]
    <3>1. Goto(x, "stopped") /\ UNCHANGED started
      BY Zenon, <1>15, <2>3 DEF StopController
    <3>2. pc'[x] = "stopped" /\ \A y \in Callers \ {x} : pc'[y] = pc[y]
      BY Zenon, <2>1, <3>1 DEF Goto, TypeOK, Procs
    <3>3. \A c \in Ctls : PodOf[c] = PodOf[x] => ~Running(c)'
      BY Zenon, <2>1, <2>3, RunningIsTarget DEF Running
    <3>4. CallerView(x)' BY Zenon, <3>2 DEF CallerView
    <3> QED BY Zenon, <2>1, <3>1, <3>2, <3>3, <3>4, TrackedCaller
  <2> QED BY Zenon, <2>2, <2>3
<1> QED BY Zenon, <1>1, <1>2, <1>3, <1>4, <1>5, <1>6, <1>7, <1>8, <1>9, <1>10, <1>11, <1>12, <1>13, <1>14, <1>15
    DEF Next, MethodCall, CallerStep, LeadStep, Procs

(* With one caller per pod, the controllers of every pod stay tracked.     *)
THEOREM ControllersTrackedHolds ==
    ASSUME OneCallerPerPod PROVE Spec => []ControllersTracked
BY TrackedInit, TrackedNext, PTL DEF Spec

(* With one caller per pod, at most one controller of the service is in    *)
(* its term, however many pods, faults and registrations there are: the    *)
(* lease separates the pods, leaderMu and the wait in Stop the controllers *)
(* of a pod.                                                               *)
THEOREM OneTermHolds ==
    ASSUME OneCallerPerPod PROVE Spec => []OneTerm
<1>1. ControllersTracked => OneTerm
  <2> SUFFICES ASSUME ControllersTracked, NEW c \in Ctls, NEW d \in Ctls, Leading(c), Leading(d)
               PROVE  c = d
    BY Zenon DEF OneTerm
  <2>1. PodOf[c] = PodOf[d] BY Zenon DEF ControllersTracked
  <2> QED BY Zenon, <2>1, OneRunning DEF Leading, Running
<1> QED BY <1>1, ControllersTrackedHolds, PTL
-----------------------------------------------------------------------------
(* Routes survive the exit of a pod. *)

(* No pod is to deregister on shutdown: the default in leader mode. *)
KeepRoutes == \A p \in Pods : ~shouldDeregisterOnShutdown(p)

Deleting == {"delRoute", "delUpstream"}

(* Nobody deletes, and no DELETE is under way. *)
NoDelete ==
    /\ TypeOK
    /\ \A x \in Procs : pc[x] \notin Deleting
    /\ \A r \in late : r.op = "PUT"

(* What a step may do to APISIX and to the requests on their way to it. *)
LEMMA AdminSteps ==
    ASSUME [Next]_vars PROVE
        \/ UNCHANGED adminVars
        \/ LateRequest
        \/ \E x \in Procs : ServerAccepts(x)
        \/ \E x \in Procs : Failed(x) /\ UNCHANGED <<upstream, route>>
<1>1. ASSUME NEW x \in Procs, HttpStep(x)
      PROVE UNCHANGED adminVars \/ (Failed(x) /\ UNCHANGED <<upstream, route>>)
  BY Zenon, <1>1 DEF HttpStep, Send, UpstreamPut, RoutePut, RouteDeleted, UpstreamDeleted, Replied, adminVars
<1>2. ASSUME NEW x \in Callers, MethodCall(x) PROVE UNCHANGED adminVars
  BY Zenon, <1>2 DEF MethodCall, CallWhenOff, RegisterSingle, DeregisterSingle, RegisterByLeader,
      DeregisterByLeader, Close
<1>3. ASSUME NEW x \in Callers,
             OldStopped(x) \/ NewController(x) \/ StopController(x) \/ ControllerDone(x) \/ AfterStop(x)
      PROVE UNCHANGED adminVars
  BY Zenon, <1>3 DEF OldStopped, NewController, StopController, ControllerDone, AfterStop
<1>4. ASSUME NEW c \in Ctls, Acquire(c) \/ RunStep(c) \/ CallerContextEnds(c) PROVE UNCHANGED adminVars
  BY Zenon, <1>4 DEF Acquire, RunStep, RenewEnds, Release, RunReturns, CallerContextEnds
<1>5. ASSUME NEW c \in Ctls, LeadStart(c) \/ Tick(c) \/ LeadExit(c) PROVE UNCHANGED adminVars
  BY Zenon, <1>5 DEF LeadStart, Tick, LeadExit
<1>6. (\E p \in Pods : Crash(p)) \/ LeaseExpires \/ UNCHANGED vars => UNCHANGED adminVars
  BY Zenon DEF Crash, LeaseExpires, vars
<1> QED BY Zenon, <1>1, <1>2, <1>3, <1>4, <1>5, <1>6 DEF Next, CallerStep, LeadStep, Procs

(* At first nobody deletes. *)
LEMMA NoDeleteInit == Init => NoDelete
BY Zenon, TypeInit DEF Init, AdminInit, NoDelete, Procs, Deleting

(* Without a pod that is to deregister no step begins a deletion. *)
LEMMA NoDeleteNext ==
    ASSUME KeepRoutes PROVE NoDelete /\ [Next]_vars => NoDelete'
<1> SUFFICES ASSUME NoDelete, [Next]_vars PROVE NoDelete'
  BY Zenon
<1>1. TypeOK /\ TypeOK' /\ \A x \in Procs : PodOf[x] \in Pods
  BY Zenon, TypeNext, GatewayConstants DEF NoDelete, GatewayConstants
<1>2. ASSUME NEW x \in Procs, Failed(x) PROVE \A r \in late' : r.op = "PUT"
  <2>1. req[x] = "sent" => RequestOf(x).op = "PUT"
    BY Zenon, <1>1 DEF NoDelete, RequestOf, TypeOK, Located, HttpLocations, Deleting
  <2> QED BY <1>2, <2>1 DEF Failed, NoDelete
<1>3. \A r \in late' : r.op = "PUT"
  <2>1. late' = late \/ (\E x \in Procs : Failed(x)) \/ LateRequest
    BY Zenon, AdminSteps DEF adminVars, ServerAccepts
  <2>2. LateRequest => late' \subseteq late
    BY Zenon DEF LateRequest, LateArrival, LateLoss
  <2> QED BY Zenon, <1>2, <2>1, <2>2 DEF NoDelete
<1>4. \A x \in Procs : pc'[x] \notin Deleting
  <2>1. pc' = pc \/ \E x \in Procs, l \in Locations \ Deleting : Goto(x, l)
    <3>1. ASSUME NEW x \in Procs, HttpStep(x)
          PROVE pc' = pc \/ \E l \in Locations \ Deleting : Goto(x, l)
      BY Zenon, <3>1 DEF HttpStep, Send, UpstreamPut, RoutePut, RouteDeleted, UpstreamDeleted,
          RegisterReturns, Return, NoDelete, Deleting, Locations, HttpLocations, CallerLocations,
          GoroutineLocations
    <3>2. ASSUME NEW x \in Callers,
                 MethodCall(x) \/ OldStopped(x) \/ NewController(x) \/ StopController(x)
                    \/ ControllerDone(x) \/ AfterStop(x)
          PROVE \E l \in Locations \ Deleting : Goto(x, l)
      <4>1. ~shouldDeregisterOnShutdown(PodOf[x])
        BY Zenon, <1>1 DEF KeepRoutes, Procs
      <4> QED BY Zenon, <3>2, <4>1 DEF MethodCall, CallWhenOff, RegisterSingle, DeregisterSingle,
            RegisterByLeader, DeregisterByLeader, Close, OldStopped, NewController, StopController,
            ControllerDone, AfterStop, Return, Deleting, Locations, HttpLocations, CallerLocations
    <3>3. ASSUME NEW c \in Ctls, Acquire(c) \/ LeadStart(c) \/ Tick(c) \/ LeadExit(c)
          PROVE \E l \in Locations \ Deleting : Goto(c, l)
      BY Zenon, <3>3 DEF Acquire, LeadStart, Tick, LeadExit, Deleting, Locations, HttpLocations,
          GoroutineLocations
    <3> QED BY Zenon, <3>1, <3>2, <3>3 DEF Next, CallerStep, LeadStep, RunStep, RenewEnds, Release, RunReturns,
          CallerContextEnds, Crash, LeaseExpires, LateRequest, ServerAccepts, vars, procVars, Procs
  <2> QED BY Zenon, <1>1, <2>1 DEF NoDelete, Goto, TypeOK
<1> QED BY Zenon, <1>1, <1>3, <1>4 DEF NoDelete

(* When no pod is to deregister on shutdown, as leader mode defaults to,   *)
(* nothing that any number of pods do, crashes, lost leases and requests   *)
(* that arrive late included, removes the upstream or a route.             *)
THEOREM RoutesSurviveExitHolds ==
    ASSUME KeepRoutes PROVE Spec => RoutesSurviveExit
<1> DEFINE Kept == /\ upstream # None => upstream' # None
                   /\ \A i \in Routes : route[i] # None => route'[i] # None
<1>1. NoDelete /\ [Next]_vars => [Kept]_vars
  <2> SUFFICES ASSUME NoDelete, [Next]_vars PROVE Kept
    BY Zenon
  <2>1. ASSUME NEW r \in Request, r.op = "PUT", Apply(r) PROVE Kept
    BY Zenon, <2>1, AdminConstants DEF Apply, Content, Request, AdminConstants, NoDelete, TypeOK, AdminTypeOK
  <2>2. ASSUME NEW x \in Procs, ServerAccepts(x) PROVE Kept
    <3>1. RequestOf(x) \in Request /\ RequestOf(x).op = "PUT"
      BY Zenon, <2>2, RequestType DEF ServerAccepts, RequestOf, NoDelete, TypeOK, Located, HttpLocations,
          Deleting
    <3> QED BY Zenon, <2>1, <2>2, <3>1 DEF ServerAccepts
  <2>3. CASE LateRequest
    <3>1. PICK r \in late : LateArrival(r) \/ LateLoss(r)
      BY Zenon, <2>3 DEF LateRequest
    <3>2. r \in Request /\ r.op = "PUT"
      BY Zenon DEF NoDelete, TypeOK, AdminTypeOK
    <3> QED BY Zenon, <2>1, <3>1, <3>2 DEF LateArrival, LateLoss
  <2>4. UNCHANGED <<upstream, route>> \/ LateRequest \/ \E x \in Procs : ServerAccepts(x)
    BY Zenon, AdminSteps DEF adminVars
  <2> QED BY Zenon, <2>2, <2>3, <2>4
<1> QED BY <1>1, NoDeleteInit, NoDeleteNext, PTL DEF Spec, RoutesSurviveExit
-----------------------------------------------------------------------------
(* What was deregistered is gone. *)

(* The pods that are to delete what they wrote. *)
Cleans(p) == RegisterMode[p] # "off" /\ shouldDeregisterOnShutdown(p)

(* One caller per pod, no request that outlives its client, no route with  *)
(* an upstream of its own, and no leader that is to delete: what           *)
(* DeregisteredIsGone takes.                                               *)
Prompt ==
    /\ OneCallerPerPod /\ MaxLate = 0 /\ Inline = {}
    /\ \A p \in Pods : RegisterMode[p] = "leader" /\ Cleans(p) => p \in InvalidElection

Absent(p) == upstream # p /\ \A i \in Routes : route[i] # p

(* What a caller does, by where it is. *)
Errand(x) ==
    /\ pc[x] \in {"regWait", "regNew"} => RegisterMode[PodOf[x]] = "leader" /\ op[x] = "register"
    /\ pc[x] \in {"putUpstream", "putRoute"} => RegisterMode[PodOf[x]] = "single" /\ op[x] = "register"
    /\ pc[x] \in {"stop", "stopWait", "stopped"} /\ op[x] = "deregister" => RegisterMode[PodOf[x]] = "leader"

(* Its upstream has been deleted, or nothing was ever written.             *)
Cleaned(x) ==
    \/ pc[x] = "ready" /\ op[x] = "deregister" /\ ret[x] = "nil"
    \/ pc[x] = "delUpstream" /\ req[x] = "ok"
    \/ RegisterMode[PodOf[x]] = "leader"

(* Only pods in leader mode have controllers, and only valid elections are *)
(* won.                                                                    *)
Elects(c) ==
    /\ phase[c] # "new" => RegisterMode[PodOf[c]] = "leader"
    /\ pc[c] # "none" => RegisterMode[PodOf[c]] = "leader" /\ PodOf[c] \notin InvalidElection

GoneInv ==
    /\ TypeOK /\ late = {}
    /\ \A c \in Ctls : Elects(c)
    /\ \A x \in Callers : Errand(x) /\ (Cleans(PodOf[x]) /\ Cleaned(x) => Absent(PodOf[x]))

(* No process but y moves. *)
Moves(y) ==
    /\ \A x \in Procs \ {y} : pc'[x] = pc[x] /\ req'[x] = req[x]
    /\ \A x \in Callers \ {y} : op'[x] = op[x] /\ ret'[x] = ret[x]

(* A controller that leaves "new" is one of a pod in leader mode. *)
Starts == \A c \in Ctls : phase'[c] # "new" => phase[c] # "new" \/ RegisterMode[PodOf[c]] = "leader"

(* What a caller's step keeps of GoneInv. *)
Tidy(x) ==
    /\ Moves(x) /\ Starts /\ Errand(x)'
    /\ Cleans(PodOf[x]) /\ Cleaned(x)' => Cleaned(x)

(* With MaxLate = 0 no request is late: the count of an empty set. *)
LEMMA NoneLate == Cardinality({}) = 0
<1> DEFINE Is(f) == f = [T \in SUBSET {} |-> IF T = {} THEN 0 ELSE 1 + f[T \ {CHOOSE x : x \in T}]]
           CS == CHOOSE f : Is(f)
<1>1. Is([T \in SUBSET {} |-> 0]) BY Zenon
<1>2. Is(CS) BY Zenon, <1>1
<1>3. ASSUME NEW f, Is(f) PROVE f[{}] = 0 BY Zenon, <1>3
<1>4. CS[{}] = 0
  <2> HIDE DEF CS
  <2> QED BY Zenon, <1>2, <1>3
<1> QED BY Zenon, <1>4 DEF Cardinality

(* A step of process y that leaves APISIX alone. *)
LEMMA GoneFrame ==
    ASSUME GoneInv, TypeOK', late' = {}, UNCHANGED <<upstream, route>>, NEW y \in Procs,
           Moves(y), Starts,
           y \in Ctls => Elects(y)',
           y \in Callers => Errand(y)' /\ (Cleans(PodOf[y]) /\ Cleaned(y)' => Cleaned(y))
    PROVE  GoneInv'
<1>1. Callers \subseteq Procs /\ Ctls \subseteq Procs BY Zenon DEF Procs
<1>2. ASSUME NEW c \in Ctls PROVE Elects(c)'
  <2>1. CASE c = y BY Zenon, <2>1
  <2>2. CASE c # y
    <3>1. pc'[c] = pc[c] /\ Elects(c) BY Zenon, <1>1, <2>2 DEF GoneInv, Moves
    <3> QED BY Zenon, <3>1 DEF Elects, Starts
  <2> QED BY Zenon, <2>1, <2>2
<1>3. ASSUME NEW x \in Callers PROVE Errand(x)' /\ (Cleans(PodOf[x]) /\ Cleaned(x)' => Cleaned(x))
  <2>1. CASE x = y BY Zenon, <2>1
  <2>2. CASE x # y
    <3>1. pc'[x] = pc[x] /\ req'[x] = req[x] /\ op'[x] = op[x] /\ ret'[x] = ret[x] /\ Errand(x)
      BY Zenon, <1>1, <2>2 DEF GoneInv, Moves
    <3> QED BY Zenon, <3>1 DEF Errand, Cleaned
  <2> QED BY Zenon, <2>1, <2>2
<1>4. ASSUME NEW p PROVE Absent(p) => Absent(p)' BY Zenon DEF Absent
<1> QED BY Zenon, <1>2, <1>3, <1>4 DEF GoneInv, Cleans, shouldDeregisterOnShutdown

(* The functions a step updates, and where a request can be under way.     *)
LEMMA GoneShapes ==
    ASSUME TypeOK PROVE
        /\ pc \in [Procs -> Locations] /\ req \in [Procs -> {"idle", "sent", "ok"}]
        /\ op \in [Callers -> Methods \cup {"none"}] /\ ret \in [Callers -> Results]
        /\ phase \in [Ctls -> Phases]
        /\ \A x \in Procs : req[x] # "idle" => pc[x] \in HttpLocations
        /\ \A c \in Ctls : phase[c] = "new" => pc[c] = "none"
BY Zenon DEF TypeOK, Located, Procs

(* The methods up to their first request, wait or return. *)
LEMMA TidyMethods ==
    ASSUME GoneInv, NEW x \in Callers, MethodCall(x) PROVE Tidy(x)
<1>1. x \in Procs /\ Callers \subseteq Procs /\ TypeOK /\ Errand(x) BY Zenon DEF GoneInv, Procs
<1> USE GoneShapes, <1>1 DEF Tidy, Moves, Starts, Errand, Cleaned, Cleans, Call, Goto, Return,
      HttpLocations, electionVars
<1>2. CASE CallWhenOff(x) BY Zenon, <1>2 DEF CallWhenOff
<1>3. CASE RegisterSingle(x) BY Zenon, <1>3 DEF RegisterSingle
<1>4. CASE DeregisterSingle(x) BY <1>4 DEF DeregisterSingle, BeginDelete, NextDelete
<1>5. CASE RegisterByLeader(x) BY Zenon, <1>5 DEF RegisterByLeader
<1>6. CASE DeregisterByLeader(x) BY <1>6 DEF DeregisterByLeader, TakeController, BeginDelete, NextDelete
<1>7. CASE Close(x) BY <1>7 DEF Close, TakeController
<1> QED BY Zenon, <1>2, <1>3, <1>4, <1>5, <1>6, <1>7 DEF MethodCall

(* The requests of a caller, and what it does around the controllers. *)
LEMMA TidySteps ==
    ASSUME GoneInv, NEW x \in Callers, CallerStep(x) PROVE Tidy(x)
<1>1. x \in Procs /\ Callers \subseteq Procs /\ TypeOK /\ Errand(x) /\ x \notin Ctls
  BY Zenon, GatewayConstants DEF GoneInv, Procs, GatewayConstants
<1> USE GoneShapes, <1>1 DEF Tidy, Moves, Starts, Errand, Cleaned, Cleans, Goto, Return,
      HttpLocations, electionVars, callerVars
<1>2. CASE Send(x) BY Zenon, <1>2 DEF Send
<1>3. CASE UpstreamPut(x) BY <1>3 DEF UpstreamPut, RegisterReturns, Failed, Replied
<1>4. CASE RoutePut(x) BY <1>4 DEF RoutePut, RegisterReturns, Failed, Replied
<1>5. CASE RouteDeleted(x) BY <1>5 DEF RouteDeleted, NextDelete, Failed, Replied
<1>6. CASE UpstreamDeleted(x) BY <1>6 DEF UpstreamDeleted, Failed, Replied
<1>7. CASE OldStopped(x) BY Zenon, <1>7 DEF OldStopped
<1>8. CASE NewController(x) BY <1>8 DEF NewController
<1>9. CASE StopController(x) BY Zenon, <1>9 DEF StopController
<1>10. CASE ControllerDone(x) BY Zenon, <1>10 DEF ControllerDone
<1>11. CASE AfterStop(x) BY <1>11 DEF AfterStop, BeginDelete, NextDelete
<1> QED BY Zenon, <1>2, <1>3, <1>4, <1>5, <1>6, <1>7, <1>8, <1>9, <1>10, <1>11 DEF CallerStep, HttpStep

(* The elector and the leading goroutine of a controller. *)
LEMMA ElectsSteps ==
    ASSUME GoneInv, NEW c \in Ctls, Acquire(c) \/ RunStep(c) \/ CallerContextEnds(c) \/ LeadStep(c)
    PROVE  Moves(c) /\ Starts /\ Elects(c)'
<1>1. c \in Procs /\ Ctls \subseteq Procs /\ TypeOK /\ Elects(c) /\ c \notin Callers
  BY Zenon, GatewayConstants DEF GoneInv, Procs, GatewayConstants
<1> USE GoneShapes, <1>1 DEF Moves, Starts, Elects, Goto, Return, HttpLocations,
      electionVars, procVars, callerVars
<1>2. CASE Acquire(c) BY Zenon, <1>2 DEF Acquire
<1>3. CASE RunStep(c) BY <1>3 DEF RunStep, RenewEnds, Release, RunReturns
<1>4. CASE CallerContextEnds(c) BY Zenon, <1>4 DEF CallerContextEnds
<1>5. CASE Send(c) BY Zenon, <1>5 DEF Send
<1>6. CASE UpstreamPut(c) BY <1>6 DEF UpstreamPut, RegisterReturns, Failed, Replied
<1>7. CASE RoutePut(c) BY <1>7 DEF RoutePut, RegisterReturns, Failed, Replied
<1>8. CASE RouteDeleted(c) BY <1>8 DEF RouteDeleted, NextDelete, Failed, Replied
<1>9. CASE UpstreamDeleted(c) BY <1>9 DEF UpstreamDeleted, Failed, Replied
<1>10. CASE LeadStart(c) \/ Tick(c) \/ LeadExit(c) BY <1>10 DEF LeadStart, Tick, LeadExit
<1> QED BY Zenon, <1>2, <1>3, <1>4, <1>5, <1>6, <1>7, <1>8, <1>9, <1>10 DEF LeadStep, HttpStep

(* An accepted request of y writes nothing of a pod that has cleaned up:   *)
(* y is of another pod, or deletes.                                        *)
LEMMA AcceptsAbsent ==
    ASSUME Prompt, GoneInv, NEW y \in Procs, ServerAccepts(y),
           NEW x \in Callers, Cleans(PodOf[x]), Cleaned(x)'
    PROVE  Absent(PodOf[x])'
<1> DEFINE p == PodOf[x]
           r == RequestOf(y)
<1>1. /\ TypeOK /\ Errand(x) /\ (Cleaned(x) => Absent(p))
      /\ x \in Procs /\ p \in Pods /\ p # None
  BY Zenon, GatewayConstants, AdminConstants DEF GoneInv, Procs, GatewayConstants, AdminConstants
<1>2. Content(r) # p
  <2> SUFFICES ASSUME PodOf[y] = p, pc[y] \in {"putUpstream", "putRoute"} PROVE FALSE
    BY Zenon, <1>1 DEF Content, RequestOf
  <2>1. CASE y \in Ctls
    BY Zenon, <1>1, <2>1 DEF GoneInv, Elects, Prompt
  <2>2. CASE y \in Callers
    <3>1. y = x BY Zenon, <2>2 DEF Prompt, OneCallerPerPod
    <3> QED BY Zenon, <1>1, <3>1 DEF Errand, Cleaned, ServerAccepts, callerVars
  <2> QED BY Zenon, <2>1, <2>2 DEF Procs
<1>3. route \in [Routes -> Pods \cup {None}] /\ Apply(r) /\ Accepts(r)
  BY Zenon, <1>1 DEF TypeOK, AdminTypeOK, ServerAccepts
<1>4. CASE Cleaned(x)
  <2>1. Absent(p) BY Zenon, <1>1, <1>4
  <2>2. upstream' # p
    <3> HIDE DEF p, r
    <3> QED BY Zenon, <1>2, <1>3, <2>1 DEF Absent, Apply
  <2>3. ASSUME NEW i \in Routes PROVE route'[i] # p
    <3> HIDE DEF p, r
    <3>1. route[i] # p BY Zenon, <2>1 DEF Absent
    <3> QED BY Zenon, <1>2, <1>3, <3>1 DEF Apply
  <2> QED BY Zenon, <2>2, <2>3 DEF Absent
<1>5. CASE ~Cleaned(x)
  <2>1. x = y /\ pc[x] = "delUpstream"
    BY Zenon, <1>1, <1>5, GoneShapes DEF Cleaned, ServerAccepts, callerVars
  <2>2. r.op = "DELETE" /\ r.id = Upstream BY Zenon, <2>1 DEF RequestOf
  <2>3. upstream' = None /\ UNCHANGED route /\ \A i \in Routes : route[i] = None
    <3> HIDE DEF r
    <3>1. Upstream \notin Routes BY AdminConstants DEF Upstream, Routes, AdminConstants
    <3> QED BY Zenon, <1>3, <2>2, <3>1 DEF Apply, Accepts, Content, Prompt
  <2> QED BY Zenon, <1>1, <2>3 DEF Absent
<1> QED BY Zenon, <1>4, <1>5

(* Every step of a caller, of a controller and of APISIX preserves         *)
(* GoneInv.                                                                *)
LEMMA GoneNext ==
    ASSUME Prompt PROVE GoneInv /\ [Next]_vars => GoneInv'
<1> SUFFICES ASSUME GoneInv, [Next]_vars PROVE GoneInv'
  BY Zenon
<1>1. TypeOK /\ TypeOK' BY Zenon, TypeNext DEF GoneInv
<1>2. late' = {} /\ ~LateRequest
  <2>1. late = {} BY Zenon DEF GoneInv
  <2>2. ASSUME NEW x, Failed(x) PROVE late' = {}
    BY <2>1, <2>2, NoneLate DEF Failed, Prompt
  <2>3. ~LateRequest BY Zenon, <2>1 DEF LateRequest
  <2> QED BY Zenon, AdminSteps, <2>1, <2>2, <2>3 DEF adminVars, ServerAccepts
<1>3. ASSUME NEW y \in Procs, ServerAccepts(y) PROVE GoneInv'
  <2>1. UNCHANGED <<pc, phase, op, ret>>
    BY Zenon, <1>3 DEF ServerAccepts, electionVars, callerVars
  <2>2. \A c \in Ctls : Elects(c)' BY Zenon, <2>1 DEF GoneInv, Elects
  <2>3. \A x \in Callers : Errand(x)' BY Zenon, <2>1 DEF GoneInv, Errand
  <2>4. \A x \in Callers : Cleans(PodOf[x]) /\ Cleaned(x)' => Absent(PodOf[x])'
    BY Zenon, <1>3, AcceptsAbsent
  <2> QED BY Zenon, <1>1, <1>2, <2>2, <2>3, <2>4 DEF GoneInv, Cleans, shouldDeregisterOnShutdown
<1>4. ASSUME ~ \E y \in Procs : ServerAccepts(y) PROVE GoneInv'
  <2>1. UNCHANGED <<upstream, route>>
    BY Zenon, <1>2, <1>4, AdminSteps DEF adminVars
  <2>2. ASSUME NEW x \in Callers, MethodCall(x) \/ CallerStep(x) PROVE GoneInv'
    <3>1. Tidy(x) BY Zenon, <2>2, TidyMethods, TidySteps
    <3>2. x \in Procs /\ x \notin Ctls BY Zenon, GatewayConstants DEF Procs, GatewayConstants
    <3> QED BY Zenon, <1>1, <1>2, <2>1, <3>1, <3>2, GoneFrame DEF Tidy
  <2>3. ASSUME NEW c \in Ctls, Acquire(c) \/ RunStep(c) \/ CallerContextEnds(c) \/ LeadStep(c)
        PROVE GoneInv'
    <3>1. c \in Procs /\ c \notin Callers BY Zenon, GatewayConstants DEF Procs, GatewayConstants
    <3> QED BY Zenon, <1>1, <1>2, <2>1, <2>3, <3>1, ElectsSteps, GoneFrame
  <2>4. ASSUME UNCHANGED <<pc, req, op, ret, phase>> PROVE GoneInv'
    BY Zenon, <1>1, <1>2, <2>1, <2>4
    DEF GoneInv, Elects, Errand, Cleaned, Cleans, Absent, shouldDeregisterOnShutdown
  <2>5. (\E p \in Pods : Crash(p)) \/ LeaseExpires \/ UNCHANGED vars => UNCHANGED <<pc, req, op, ret, phase>>
    BY Zenon DEF Crash, LeaseExpires, vars, procVars, callerVars, electionVars
  <2> QED BY Zenon, <1>2, <1>4, <2>2, <2>3, <2>4, <2>5 DEF Next
<1> QED BY Zenon, <1>3, <1>4

(* At first no pod has written or deleted anything. *)
LEMMA GoneInit == Init => GoneInv
<1> SUFFICES ASSUME Init PROVE GoneInv
  BY Zenon
<1>1. TypeOK /\ late = {} BY Zenon, TypeInit DEF Init, AdminInit
<1>2. \A c \in Ctls : Elects(c)
  BY Zenon, GatewayConstants DEF Init, Elects, Procs, GatewayConstants
<1>3. ASSUME NEW x \in Callers PROVE Errand(x) /\ Absent(PodOf[x])
  BY Zenon, GatewayConstants, AdminConstants
  DEF Init, AdminInit, Errand, Absent, Procs, GatewayConstants, AdminConstants
<1> QED BY Zenon, <1>1, <1>2, <1>3 DEF GoneInv

(* A DeregisterService that was to delete and returned nil leaves nothing  *)
(* of its pod in APISIX, in whatever order the pods register, deregister,  *)
(* crash and lose leases.  It takes that the calls of one pod come one     *)
(* after the other, that no PUT outlives the client that sent it, that no  *)
(* route keeps existing without the upstream, and that no pod deletes      *)
(* after a term as leader (its reconciling goroutine is not waited for).   *)
THEOREM DeregisteredIsGoneHolds ==
    ASSUME Prompt PROVE Spec => []DeregisteredIsGone
<1>1. GoneInv => DeregisteredIsGone
  BY Zenon DEF GoneInv, DeregisteredIsGone, Cleans, Cleaned, Absent
<1> QED BY <1>1, GoneInit, GoneNext, PTL DEF Spec
=============================================================================
