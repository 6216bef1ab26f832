------------------------- MODULE ApisixTypeProofs -------------------------
(***************************************************************************)
(* The type invariant of ApisixGateway, for any number of pods, callers,   *)
(* controllers and routes: what variables hold, and where requests and     *)
(* loops over routes may be.                                               *)
(***************************************************************************)
EXTENDS ApisixGateway, TLAPS

(* The loops over the routes run over a list of routes. *)
LEMMA RouteListType == RouteList \in Seq(Routes) /\ (NRoutes # 0 => RouteList # <<>>)
BY AdminConstants DEF RouteList, Routes, AdminConstants

(* The initial states have their types. *)
LEMMA TypeInit == Init => TypeOK
BY GatewayConstants DEF Init, TypeOK, AdminInit, AdminTypeOK, Procs, Phases, GatewayConstants,
    HttpLocations, CallerLocations, GoroutineLocations, Locations, Methods,
    Results, Located

(* The request of a process at an HTTP location is well formed. *)
LEMMA RequestType ==
    ASSUME TypeOK, NEW x \in Procs PROVE
        pc[x] \in HttpLocations => RequestOf(x) \in Request
<1>1. PodOf[x] \in Pods BY Zenon, GatewayConstants DEF GatewayConstants
<1>2. work[x] \in Seq(Routes) BY Zenon DEF TypeOK
<1>3. work[x] # <<>> => Head(work[x]) \in Routes BY <1>2
<1>4. pc[x] \in {"putRoute", "delRoute"} => work[x] # <<>> BY Zenon DEF TypeOK, Located
<1> QED BY Zenon, <1>1, <1>3, <1>4 DEF RequestOf, Request, HttpLocations

(* However a request ends, the process is left without one. *)
LEMMA RequestEnds ==
    ASSUME TypeOK, NEW x \in Procs, pc[x] \in HttpLocations, Failed(x) \/ Replied(x) PROVE
        late' \subseteq Request /\ req' = [req EXCEPT ![x] = "idle"]
BY RequestType DEF Failed, Replied, TypeOK, AdminTypeOK

(* What APISIX executes leaves it with upstreams and routes of pods. *)
LEMMA ApplyType ==
    ASSUME TypeOK, NEW r \in Request, Apply(r) PROVE
        upstream' \in Pods \cup {None} /\ route' \in [Routes -> Pods \cup {None}]
BY Zenon DEF Apply, Content, Request, TypeOK, AdminTypeOK

(* A process goes on to a location. *)
LEMMA GotoType ==
    ASSUME TypeOK, NEW x \in Procs, NEW l \in Locations, Goto(x, l) PROVE
        pc' \in [Procs -> Locations]
BY Zenon DEF Goto, TypeOK

(* A call returns a result. *)
LEMMA ReturnType ==
    ASSUME TypeOK, NEW x \in Procs, NEW r \in Results, ret' = [ret EXCEPT ![x] = r] PROVE
        ret' \in [Callers -> Results]
BY Zenon DEF TypeOK

(* A caller begins one of the methods, and its calls are counted. *)
LEMMA CallType ==
    ASSUME TypeOK, NEW x \in Callers, NEW method \in Methods, Call(x, method) PROVE
        op' \in [Callers -> Methods \cup {"none"}] /\ calls' \in [Callers -> Nat]
BY DEF Call, TypeOK

(* A caller moves to a location outside the loops over the routes. *)
LEMMA CallerMoves ==
    ASSUME TypeOK, NEW x \in Callers, NEW l \in Locations \ {"putRoute", "delRoute"},
           pc[x] \notin HttpLocations, Goto(x, l), UNCHANGED <<req, work, phase>>
    PROVE  pc' \in [Procs -> Locations] /\ \A y \in Procs : Located(y)'
<1>1. x \in Procs /\ x \notin Ctls BY Zenon, GatewayConstants DEF GatewayConstants, Procs
<1> QED BY Zenon, <1>1, GotoType DEF Goto, TypeOK, Located

(* A caller begins deregisterServiceDirect. *)
LEMMA BeginDeleteType ==
    ASSUME TypeOK, NEW x \in Callers, pc[x] \notin HttpLocations, BeginDelete(x),
           UNCHANGED <<req, phase>>
    PROVE  /\ pc' \in [Procs -> Locations] /\ \A y \in Procs : Located(y)'
           /\ work' \in [Procs -> Seq(Routes)] /\ routeIDs' \in [Pods -> Seq(Routes)]
<1>1. x \in Procs /\ x \notin Ctls /\ PodOf[x] \in Pods
  BY Zenon, GatewayConstants DEF GatewayConstants, Procs
<1>2. routeIDs[PodOf[x]] \in Seq(Routes) BY Zenon, <1>1 DEF TypeOK
<1>3. work' \in [Procs -> Seq(Routes)] /\ routeIDs' \in [Pods -> Seq(Routes)]
  BY <1>1, <1>2 DEF BeginDelete, TypeOK
<1>4. pc' \in [Procs -> Locations]
  <2>1. \E l \in Locations : Goto(x, l)
    BY Zenon DEF BeginDelete, NextDelete, Locations, HttpLocations
  <2> QED BY Zenon, <1>1, <2>1, GotoType
<1>5. \A y \in Procs : Located(y)'
  BY Zenon, <1>1 DEF BeginDelete, NextDelete, Goto, TypeOK, Located, HttpLocations
<1> QED BY Zenon, <1>3, <1>4, <1>5

(* A step of a caller that changes nothing but where the caller is and what*)
(* its call has done.                                                      *)
LEMMA OnlyCallerMoves ==
    ASSUME TypeOK, UNCHANGED <<adminVars, gatewayVars, electionVars, req, work, routeErr>>,
           pc' \in [Procs -> Locations], \A y \in Procs : Located(y)',
           target' \in [Callers -> Ctls \cup {None}], op' \in [Callers -> Methods \cup {"none"}],
           ret' \in [Callers -> Results], calls' \in [Callers -> Nat]
    PROVE  TypeOK'
<1>1. UNCHANGED <<upstream, route, late, alive, leaderMu, leaderCtl, routeIDs,
                  lease, phase, started, cancelled, isLeader, faults, req, work, routeErr>>
  BY Zenon DEF adminVars, gatewayVars, electionVars
<1> QED BY Zenon, <1>1 DEF TypeOK, AdminTypeOK

(* A controller's goroutine moves, after the lease was acquired. *)
LEMMA GoroutineMoves ==
    ASSUME TypeOK, NEW c \in Ctls, NEW l \in Locations \ {"putRoute", "delRoute"},
           pc[c] \notin HttpLocations, phase'[c] \notin {"new", "electing"},
           \A d \in Ctls \ {c} : phase'[d] = phase[d],
           Goto(c, l), UNCHANGED <<req, work>>
    PROVE  pc' \in [Procs -> Locations] /\ \A y \in Procs : Located(y)'
<1>1. c \in Procs BY Zenon DEF Procs
<1> QED BY Zenon, <1>1, GotoType DEF Goto, TypeOK, Located

(* Every step of the specification keeps the variables well typed: one     *)
(* leaf per action of register/apisix.go and register/apisix_leader.go.    *)
LEMMA TypeNext == TypeOK /\ [Next]_vars => TypeOK'
<1> SUFFICES ASSUME TypeOK, [Next]_vars PROVE TypeOK'
  BY Zenon
<1> USE GatewayConstants DEF GatewayConstants, Procs
<1>1. ASSUME NEW x \in Procs, ServerAccepts(x) PROVE TypeOK'
  <2>1. RequestOf(x) \in Request
    BY Zenon, <1>1, RequestType DEF ServerAccepts, TypeOK, Located
  <2>2. \A y \in Procs : Located(y)'
    BY Zenon, <1>1 DEF ServerAccepts, TypeOK, Located, electionVars
  <2> QED BY Zenon, <1>1, <2>1, <2>2, ApplyType DEF ServerAccepts, TypeOK, AdminTypeOK, gatewayVars,
        electionVars, callerVars
<1>2. ASSUME NEW x \in Procs, Send(x) PROVE TypeOK'
  <2>1. \A y \in Procs : Located(y)'
    BY Zenon, <1>2 DEF Send, TypeOK, Located, electionVars
  <2> QED BY Zenon, <1>2, <2>1 DEF Send, TypeOK, AdminTypeOK, adminVars, gatewayVars, electionVars, callerVars
<1>3. ASSUME NEW x \in Procs, UpstreamPut(x) PROVE TypeOK'
  <2>1. late' \subseteq Request /\ req' = [req EXCEPT ![x] = "idle"]
    BY Zenon, <1>3, RequestEnds DEF UpstreamPut, HttpLocations
  <2>2. \A y \in Procs : Located(y)'
    BY <1>3, <2>1, RouteListType DEF UpstreamPut, RegisterReturns, Return, Goto, TypeOK, Located,
        HttpLocations, electionVars
  <2>3. routeIDs' \in [Pods -> Seq(Routes)]
    <3>1. CASE UNCHANGED routeIDs BY Zenon, <3>1 DEF TypeOK
    <3>2. CASE routeIDs' = [routeIDs EXCEPT ![PodOf[x]] = <<>>] BY <3>2 DEF TypeOK
    <3> QED BY Zenon, <1>3, <3>1, <3>2 DEF UpstreamPut
  <2>4. work' \in [Procs -> Seq(Routes)]
    <3>1. CASE UNCHANGED work BY Zenon, <3>1 DEF TypeOK
    <3>2. CASE work' = [work EXCEPT ![x] = RouteList] BY Zenon, <3>2, RouteListType DEF TypeOK
    <3> QED BY Zenon, <1>3, <3>1, <3>2 DEF UpstreamPut
  <2>5. pc' \in [Procs -> Locations]
    <3>1. \E l \in {"select", "ready", "putRoute"} : Goto(x, l)
      BY Zenon, <1>3 DEF UpstreamPut, RegisterReturns, Return
    <3>2. {"select", "ready", "putRoute"} \subseteq Locations
      BY Zenon DEF Locations, HttpLocations, CallerLocations, GoroutineLocations
    <3> QED BY Zenon, <3>1, <3>2, GotoType
  <2>6. ret' \in [Callers -> Results]
    <3>1. ret' = ret \/ \E r \in Results : ret' = [ret EXCEPT ![x] = r]
      BY Zenon, <1>3 DEF UpstreamPut, RegisterReturns, Return, Results
    <3> QED BY Zenon, <3>1, ReturnType DEF TypeOK
  <2> QED BY Zenon, <1>3, <2>1, <2>2, <2>3, <2>4, <2>5, <2>6
          DEF UpstreamPut, TypeOK, AdminTypeOK, electionVars
<1>4. ASSUME NEW x \in Procs, RoutePut(x) PROVE TypeOK'
  <2>1. late' \subseteq Request /\ req' = [req EXCEPT ![x] = "idle"]
    BY Zenon, <1>4, RequestEnds DEF RoutePut, HttpLocations
  <2>2. /\ work[x] \in Seq(Routes) /\ work[x] # <<>>
        /\ routeIDs[PodOf[x]] \in Seq(Routes)
    BY Zenon, <1>4 DEF RoutePut, TypeOK, Located
  <2>3. /\ Tail(work[x]) \in Seq(Routes)
        /\ Append(routeIDs[PodOf[x]], Head(work[x])) \in Seq(Routes)
    BY <2>2
  <2>4. routeIDs' \in [Pods -> Seq(Routes)]
    <3>1. CASE UNCHANGED routeIDs BY Zenon, <3>1 DEF TypeOK
    <3>2. CASE routeIDs' = [routeIDs EXCEPT ![PodOf[x]] = Append(@, Head(work[x]))]
      BY Zenon, <2>3, <3>2 DEF TypeOK
    <3> QED BY Zenon, <1>4, <3>1, <3>2 DEF RoutePut
  <2>5. work' \in [Procs -> Seq(Routes)]
    BY Zenon, <1>4, <2>3 DEF RoutePut, TypeOK
  <2>6. \A y \in Procs : Located(y)'
    <3>1. /\ phase' = phase /\ work'[x] = Tail(work[x]) /\ pc[x] = "putRoute"
          /\ \/ Tail(work[x]) = <<>> /\ (Goto(x, "select") \/ Goto(x, "ready"))
             \/ Tail(work[x]) # <<>> /\ pc' = pc
      BY Zenon, <1>4 DEF RoutePut, RegisterReturns, Return, TypeOK, electionVars
    <3>2. \A y \in Procs \ {x} : pc'[y] = pc[y] /\ work'[y] = work[y] /\ req'[y] = req[y]
      BY Zenon, <1>4, <2>1, <3>1 DEF RoutePut, Goto, TypeOK
    <3>3. Located(x)'
      BY Zenon, <2>1, <3>1 DEF Goto, TypeOK, Located
    <3> QED BY Zenon, <3>1, <3>2, <3>3 DEF TypeOK, Located
  <2>7. pc' \in [Procs -> Locations]
    <3>1. pc' = pc \/ \E l \in Locations : Goto(x, l)
      BY Zenon, <1>4 DEF RoutePut, RegisterReturns, Return, Locations, HttpLocations, CallerLocations, GoroutineLocations
    <3> QED BY Zenon, <3>1, GotoType DEF TypeOK
  <2>8. ret' \in [Callers -> Results]
    <3>1. ret' = ret \/ \E r \in Results : ret' = [ret EXCEPT ![x] = r]
      BY Zenon, <1>4 DEF RoutePut, RegisterReturns, Return, Results
    <3> QED BY Zenon, <3>1, ReturnType DEF TypeOK
  <2>9. routeErr' \in [Procs -> BOOLEAN]
    BY Zenon, <1>4 DEF RoutePut, TypeOK
  <2> QED BY Zenon, <1>4, <2>1, <2>4, <2>5, <2>6, <2>7, <2>8, <2>9
          DEF RoutePut, TypeOK, AdminTypeOK, electionVars
<1>5. ASSUME NEW x \in Procs, RouteDeleted(x) PROVE TypeOK'
  <2>1. late' \subseteq Request /\ req' = [req EXCEPT ![x] = "idle"]
    BY Zenon, <1>5, RequestEnds DEF RouteDeleted, HttpLocations
  <2>2. work[x] \in Seq(Routes) /\ work[x] # <<>>
    BY Zenon, <1>5 DEF RouteDeleted, TypeOK, Located
  <2>3. Tail(work[x]) \in Seq(Routes)
    BY <2>2
  <2>4. work' \in [Procs -> Seq(Routes)]
    <3>1. CASE work' = [work EXCEPT ![x] = <<>>] BY <3>1 DEF TypeOK
    <3>2. CASE work' = [work EXCEPT ![x] = Tail(@)] BY Zenon, <2>3, <3>2 DEF TypeOK
    <3> QED BY Zenon, <1>5, <3>1, <3>2 DEF RouteDeleted
  <2>5. \A y \in Procs : Located(y)'
    BY <1>5, <2>1 DEF RouteDeleted, NextDelete, Return, Goto, TypeOK, Located, HttpLocations,
        electionVars
  <2>6. pc' \in [Procs -> Locations]
    <3>1. \E l \in Locations : Goto(x, l)
      BY Zenon, <1>5 DEF RouteDeleted, NextDelete, Return, Locations, HttpLocations, CallerLocations, GoroutineLocations
    <3> QED BY Zenon, <3>1, GotoType
  <2>7. ret' \in [Callers -> Results]
    <3>1. ret' = ret \/ \E r \in Results : ret' = [ret EXCEPT ![x] = r]
      BY Zenon, <1>5 DEF RouteDeleted, Return, Results
    <3> QED BY Zenon, <3>1, ReturnType DEF TypeOK
  <2> QED BY Zenon, <1>5, <2>1, <2>4, <2>5, <2>6, <2>7
          DEF RouteDeleted, TypeOK, AdminTypeOK, gatewayVars, electionVars
<1>6. ASSUME NEW x \in Procs, UpstreamDeleted(x) PROVE TypeOK'
  <2>1. late' \subseteq Request /\ req' = [req EXCEPT ![x] = "idle"]
    BY Zenon, <1>6, RequestEnds DEF UpstreamDeleted, HttpLocations
  <2>2. \A y \in Procs : Located(y)'
    BY <1>6, <2>1 DEF UpstreamDeleted, Return, Goto, TypeOK, Located, HttpLocations, electionVars
  <2>3. pc' \in [Procs -> Locations]
    BY Zenon, <1>6, GotoType DEF UpstreamDeleted, Return, Locations, HttpLocations, CallerLocations, GoroutineLocations
  <2>4. ret' \in [Callers -> Results]
    BY Zenon, <1>6, ReturnType DEF UpstreamDeleted, Return, Results
  <2> QED BY Zenon, <1>6, <2>1, <2>2, <2>3, <2>4
          DEF UpstreamDeleted, TypeOK, AdminTypeOK, gatewayVars, electionVars
<1>7. ASSUME NEW x \in Callers, CallWhenOff(x) PROVE TypeOK'
  <2>1. pc[x] \notin HttpLocations /\ UNCHANGED <<req, phase>>
    BY Zenon, <1>7 DEF CallWhenOff, Call, HttpLocations, electionVars
  <2>2. pc' \in [Procs -> Locations] /\ \A y \in Procs : Located(y)'
    <3>1. UNCHANGED work /\ \E l \in Locations \ {"putRoute", "delRoute"} : Goto(x, l)
      BY Zenon, <1>7 DEF CallWhenOff, Return, Locations, HttpLocations, CallerLocations
    <3> QED BY Zenon, <2>1, <3>1, CallerMoves
  <2>3. ret' \in [Callers -> Results]
    <3>1. ret' = ret \/ \E r \in Results : ret' = [ret EXCEPT ![x] = r]
      BY Zenon, <1>7 DEF CallWhenOff, Return, callerVars, Results
    <3> QED BY Zenon, <3>1, ReturnType DEF TypeOK
  <2>4. op' \in [Callers -> Methods \cup {"none"}] /\ calls' \in [Callers -> Nat]
    BY Zenon, <1>7, CallType DEF CallWhenOff, Methods
  <2>5. /\ UNCHANGED <<adminVars, gatewayVars, electionVars, req, work, routeErr>>
        /\ target' \in [Callers -> Ctls \cup {None}]
    BY Zenon, <1>7 DEF CallWhenOff, TypeOK
  <2> QED BY Zenon, <2>2, <2>3, <2>4, <2>5, OnlyCallerMoves
<1>8. ASSUME NEW x \in Callers, RegisterSingle(x) PROVE TypeOK'
  <2>1. pc[x] \notin HttpLocations /\ UNCHANGED <<req, phase>>
    BY Zenon, <1>8 DEF RegisterSingle, Call, HttpLocations, electionVars
  <2>2. pc' \in [Procs -> Locations] /\ \A y \in Procs : Located(y)'
    <3>1. UNCHANGED work /\ \E l \in Locations \ {"putRoute", "delRoute"} : Goto(x, l)
      BY Zenon, <1>8 DEF RegisterSingle, Return, Locations, HttpLocations, CallerLocations
    <3> QED BY Zenon, <2>1, <3>1, CallerMoves
  <2>3. ret' \in [Callers -> Results]
    <3>1. ret' = ret \/ \E r \in Results : ret' = [ret EXCEPT ![x] = r]
      BY Zenon, <1>8 DEF RegisterSingle, Return, callerVars, Results
    <3> QED BY Zenon, <3>1, ReturnType DEF TypeOK
  <2>4. op' \in [Callers -> Methods \cup {"none"}] /\ calls' \in [Callers -> Nat]
    BY Zenon, <1>8, CallType DEF RegisterSingle, Methods
  <2>5. /\ UNCHANGED <<adminVars, gatewayVars, electionVars, req, work, routeErr>>
        /\ target' \in [Callers -> Ctls \cup {None}]
    BY Zenon, <1>8 DEF RegisterSingle, TypeOK
  <2> QED BY Zenon, <2>2, <2>3, <2>4, <2>5, OnlyCallerMoves
<1>9. ASSUME NEW x \in Callers, DeregisterSingle(x) PROVE TypeOK'
  <2>1. pc[x] \notin HttpLocations /\ UNCHANGED <<req, phase>>
    BY Zenon, <1>9 DEF DeregisterSingle, Call, HttpLocations, electionVars
  <2>2. /\ pc' \in [Procs -> Locations] /\ \A y \in Procs : Located(y)'
        /\ work' \in [Procs -> Seq(Routes)] /\ routeIDs' \in [Pods -> Seq(Routes)]
    <3>1. CASE BeginDelete(x) BY Zenon, <2>1, <3>1, BeginDeleteType
    <3>2. CASE UNCHANGED <<routeIDs, work>> /\ \E l \in CallerLocations : Goto(x, l)
      BY Zenon, <2>1, <3>2, CallerMoves DEF TypeOK, Locations, CallerLocations
    <3> QED BY Zenon, <1>9, <3>1, <3>2 DEF DeregisterSingle, Return, CallerLocations
  <2>3. ret' \in [Callers -> Results]
    <3>1. ret' = ret \/ \E r \in Results : ret' = [ret EXCEPT ![x] = r]
      BY Zenon, <1>9 DEF DeregisterSingle, Return, callerVars, Results
    <3> QED BY Zenon, <3>1, ReturnType DEF TypeOK
  <2>4. op' \in [Callers -> Methods \cup {"none"}] /\ calls' \in [Callers -> Nat]
    BY Zenon, <1>9, CallType DEF DeregisterSingle, Methods
  <2> QED BY Zenon, <1>9, <2>1, <2>2, <2>3, <2>4 DEF DeregisterSingle, TypeOK, AdminTypeOK, adminVars,
          gatewayVars, electionVars, callerVars
<1>10. ASSUME NEW x \in Callers, RegisterByLeader(x) PROVE TypeOK'
  <2>1. pc[x] \notin HttpLocations /\ UNCHANGED <<req, phase>>
    BY Zenon, <1>10 DEF RegisterByLeader, Call, HttpLocations, electionVars
  <2>2. pc' \in [Procs -> Locations] /\ \A y \in Procs : Located(y)'
    <3>1. UNCHANGED work /\ \E l \in {"regWait", "regNew"} : Goto(x, l)
      BY Zenon, <1>10 DEF RegisterByLeader
    <3>2. {"regWait", "regNew"} \subseteq Locations \ {"putRoute", "delRoute"}
      BY Zenon DEF Locations, CallerLocations
    <3> QED BY Zenon, <2>1, <3>1, <3>2, CallerMoves
  <2>3. ret' \in [Callers -> Results]
    <3>1. ret' = ret \/ \E r \in Results : ret' = [ret EXCEPT ![x] = r]
      BY Zenon, <1>10 DEF RegisterByLeader, Return, callerVars, Results
    <3> QED BY Zenon, <3>1, ReturnType DEF TypeOK
  <2>4. op' \in [Callers -> Methods \cup {"none"}] /\ calls' \in [Callers -> Nat]
    BY Zenon, <1>10, CallType DEF RegisterByLeader, Methods
  <2>5. /\ started' \in [Ctls -> BOOLEAN] /\ cancelled' \in [Ctls -> BOOLEAN]
        /\ target' \in [Callers -> Ctls \cup {None}]
    <3>1. CASE UNCHANGED <<started, cancelled, target>> BY Zenon, <3>1 DEF TypeOK
    <3>2. CASE \E old \in Ctls \cup {None} : /\ started' = [started EXCEPT ![old] = FALSE]
                                            /\ cancelled' = [cancelled EXCEPT ![old] = TRUE]
                                            /\ target' = [target EXCEPT ![x] = old]
      <4>1. PICK old \in Ctls \cup {None} : /\ started' = [started EXCEPT ![old] = FALSE]
                                           /\ cancelled' = [cancelled EXCEPT ![old] = TRUE]
                                           /\ target' = [target EXCEPT ![x] = old]
        BY Zenon, <3>2
      <4>2. started' \in [Ctls -> BOOLEAN] BY Zenon, <4>1 DEF TypeOK
      <4>3. cancelled' \in [Ctls -> BOOLEAN] BY Zenon, <4>1 DEF TypeOK
      <4>4. target' \in [Callers -> Ctls \cup {None}] BY Zenon, <4>1 DEF TypeOK
      <4> QED BY Zenon, <4>2, <4>3, <4>4
    <3>3. leaderCtl[PodOf[x]] \in Ctls \cup {None}
      BY Zenon DEF TypeOK
    <3> QED BY Zenon, <1>10, <3>1, <3>2, <3>3 DEF RegisterByLeader
  <2>6. leaderMu' \in [Pods -> Callers \cup {None}]
    BY Zenon, <1>10 DEF RegisterByLeader, TypeOK
  <2>7. UNCHANGED <<upstream, route, late, alive, leaderCtl, routeIDs, lease, isLeader, faults,
                    work, routeErr>>
    BY Zenon, <1>10 DEF RegisterByLeader, adminVars
  <2> QED BY Zenon, <2>1, <2>2, <2>3, <2>4, <2>5, <2>6, <2>7 DEF TypeOK, AdminTypeOK
<1>11. ASSUME NEW x \in Callers, OldStopped(x) PROVE TypeOK'
  <2>1. pc[x] \notin HttpLocations /\ UNCHANGED <<req, phase>>
    BY Zenon, <1>11 DEF OldStopped, HttpLocations, electionVars
  <2>2. pc' \in [Procs -> Locations] /\ \A y \in Procs : Located(y)'
    <3>1. UNCHANGED work /\ \E l \in Locations \ {"putRoute", "delRoute"} : Goto(x, l)
      BY Zenon, <1>11 DEF OldStopped, Return, Locations, HttpLocations, CallerLocations
    <3> QED BY Zenon, <2>1, <3>1, CallerMoves
  <2>3. ret' \in [Callers -> Results]
    <3>1. ret' = ret \/ \E r \in Results : ret' = [ret EXCEPT ![x] = r]
      BY Zenon, <1>11 DEF OldStopped, Return, callerVars, Results
    <3> QED BY Zenon, <3>1, ReturnType DEF TypeOK
  <2>4. /\ UNCHANGED <<adminVars, gatewayVars, electionVars, req, work, routeErr>>
        /\ target' \in [Callers -> Ctls \cup {None}]
        /\ op' \in [Callers -> Methods \cup {"none"}] /\ calls' \in [Callers -> Nat]
    BY Zenon, <1>11 DEF OldStopped, TypeOK, callerVars
  <2> QED BY Zenon, <2>2, <2>3, <2>4, OnlyCallerMoves
<1>12. ASSUME NEW x \in Callers, DeregisterByLeader(x) PROVE TypeOK'
  <2>1. pc[x] \notin HttpLocations /\ UNCHANGED <<req, phase>>
    BY Zenon, <1>12 DEF DeregisterByLeader, Call, TakeController, HttpLocations, electionVars
  <2>2. /\ pc' \in [Procs -> Locations] /\ \A y \in Procs : Located(y)'
        /\ work' \in [Procs -> Seq(Routes)] /\ routeIDs' \in [Pods -> Seq(Routes)]
    <3>1. CASE BeginDelete(x) BY Zenon, <2>1, <3>1, BeginDeleteType
    <3>2. CASE UNCHANGED <<routeIDs, work>> /\ \E l \in CallerLocations : Goto(x, l)
      BY Zenon, <2>1, <3>2, CallerMoves DEF TypeOK, Locations, CallerLocations
    <3> QED BY Zenon, <1>12, <3>1, <3>2 DEF DeregisterByLeader, Return, CallerLocations
  <2>3. ret' \in [Callers -> Results]
    <3>1. ret' = ret \/ \E r \in Results : ret' = [ret EXCEPT ![x] = r]
      BY Zenon, <1>12 DEF DeregisterByLeader, Return, callerVars, Results
    <3> QED BY Zenon, <3>1, ReturnType DEF TypeOK
  <2>4. op' \in [Callers -> Methods \cup {"none"}] /\ calls' \in [Callers -> Nat]
    BY Zenon, <1>12, CallType DEF DeregisterByLeader, TakeController, Methods
  <2> QED BY Zenon, <1>12, <2>1, <2>2, <2>3, <2>4 DEF DeregisterByLeader, TakeController, TypeOK, AdminTypeOK, adminVars,
          gatewayVars, electionVars, callerVars
<1>13. ASSUME NEW x \in Callers, Close(x) PROVE TypeOK'
  <2>1. pc[x] \notin HttpLocations /\ UNCHANGED <<req, phase>>
    BY Zenon, <1>13 DEF Close, Call, TakeController, HttpLocations, electionVars
  <2>2. pc' \in [Procs -> Locations] /\ \A y \in Procs : Located(y)'
    <3>1. UNCHANGED work /\ \E l \in Locations \ {"putRoute", "delRoute"} : Goto(x, l)
      BY Zenon, <1>13 DEF Close, Return, Locations, HttpLocations, CallerLocations
    <3> QED BY Zenon, <2>1, <3>1, CallerMoves
  <2>3. ret' \in [Callers -> Results]
    <3>1. ret' = ret \/ \E r \in Results : ret' = [ret EXCEPT ![x] = r]
      BY Zenon, <1>13 DEF Close, Return, callerVars, Results
    <3> QED BY Zenon, <3>1, ReturnType DEF TypeOK
  <2>4. op' \in [Callers -> Methods \cup {"none"}] /\ calls' \in [Callers -> Nat]
    BY Zenon, <1>13, CallType DEF Close, TakeController, Methods
  <2> QED BY Zenon, <1>13, <2>1, <2>2, <2>3, <2>4 DEF Close, TakeController, TypeOK, AdminTypeOK, adminVars,
          gatewayVars, electionVars, callerVars
<1>14. ASSUME NEW x \in Callers, StopController(x) PROVE TypeOK'
  <2>1. pc[x] \notin HttpLocations /\ UNCHANGED <<req, phase>>
    BY Zenon, <1>14 DEF StopController, HttpLocations, electionVars
  <2>2. pc' \in [Procs -> Locations] /\ \A y \in Procs : Located(y)'
    <3>1. UNCHANGED work /\ \E l \in Locations \ {"putRoute", "delRoute"} : Goto(x, l)
      BY Zenon, <1>14 DEF StopController, Return, Locations, HttpLocations, CallerLocations
    <3> QED BY Zenon, <2>1, <3>1, CallerMoves
  <2>3. ret' \in [Callers -> Results]
    <3>1. ret' = ret \/ \E r \in Results : ret' = [ret EXCEPT ![x] = r]
      BY Zenon, <1>14 DEF StopController, Return, callerVars, Results
    <3> QED BY Zenon, <3>1, ReturnType DEF TypeOK
  <2>4. started' \in [Ctls -> BOOLEAN] /\ cancelled' \in [Ctls -> BOOLEAN]
    <3>1. CASE UNCHANGED <<started, cancelled>> BY Zenon, <3>1 DEF TypeOK
    <3>2. CASE /\ started' = [started EXCEPT ![target[x]] = FALSE]
               /\ cancelled' = [cancelled EXCEPT ![target[x]] = TRUE]
      BY Zenon, <3>2 DEF TypeOK
    <3> QED BY Zenon, <1>14, <3>1, <3>2 DEF StopController
  <2>5. UNCHANGED <<upstream, route, late, alive, leaderMu, leaderCtl, routeIDs, lease, isLeader,
                    faults, work, routeErr, target, op, calls>>
    BY Zenon, <1>14 DEF StopController, adminVars, gatewayVars, callerVars
  <2> QED BY Zenon, <2>1, <2>2, <2>3, <2>4, <2>5 DEF TypeOK, AdminTypeOK
<1>15. ASSUME NEW x \in Callers, ControllerDone(x) PROVE TypeOK'
  <2>1. pc[x] \notin HttpLocations /\ UNCHANGED <<req, phase>>
    BY Zenon, <1>15 DEF ControllerDone, HttpLocations, electionVars
  <2>2. pc' \in [Procs -> Locations] /\ \A y \in Procs : Located(y)'
    <3>1. UNCHANGED work /\ \E l \in Locations \ {"putRoute", "delRoute"} : Goto(x, l)
      BY Zenon, <1>15 DEF ControllerDone, Return, Locations, HttpLocations, CallerLocations
    <3> QED BY Zenon, <2>1, <3>1, CallerMoves
  <2>3. ret' \in [Callers -> Results]
    <3>1. ret' = ret \/ \E r \in Results : ret' = [ret EXCEPT ![x] = r]
      BY Zenon, <1>15 DEF ControllerDone, Return, callerVars, Results
    <3> QED BY Zenon, <3>1, ReturnType DEF TypeOK
  <2>4. /\ UNCHANGED <<adminVars, gatewayVars, electionVars, req, work, routeErr>>
        /\ target' \in [Callers -> Ctls \cup {None}]
        /\ op' \in [Callers -> Methods \cup {"none"}] /\ calls' \in [Callers -> Nat]
    BY Zenon, <1>15 DEF ControllerDone, TypeOK, callerVars
  <2> QED BY Zenon, <2>2, <2>3, <2>4, OnlyCallerMoves
<1>16. ASSUME NEW x \in Callers, AfterStop(x) PROVE TypeOK'
  <2>1. pc[x] \notin HttpLocations /\ UNCHANGED <<req, phase>>
    BY Zenon, <1>16 DEF AfterStop, HttpLocations, electionVars
  <2>2. /\ pc' \in [Procs -> Locations] /\ \A y \in Procs : Located(y)'
        /\ work' \in [Procs -> Seq(Routes)] /\ routeIDs' \in [Pods -> Seq(Routes)]
    <3>1. CASE BeginDelete(x) BY Zenon, <2>1, <3>1, BeginDeleteType
    <3>2. CASE UNCHANGED <<routeIDs, work>> /\ \E l \in CallerLocations : Goto(x, l)
      BY Zenon, <2>1, <3>2, CallerMoves DEF TypeOK, Locations, CallerLocations
    <3> QED BY Zenon, <1>16, <3>1, <3>2 DEF AfterStop, Return, CallerLocations
  <2>3. ret' \in [Callers -> Results]
    <3>1. ret' = ret \/ \E r \in Results : ret' = [ret EXCEPT ![x] = r]
      BY Zenon, <1>16 DEF AfterStop, Return, callerVars, Results
    <3> QED BY Zenon, <3>1, ReturnType DEF TypeOK
  <2> QED BY Zenon, <1>16, <2>1, <2>2, <2>3 DEF AfterStop, TypeOK, AdminTypeOK, adminVars,
          gatewayVars, electionVars, callerVars
<1>17. ASSUME NEW x \in Callers, NewController(x) PROVE TypeOK'
  <2>1. pc[x] \notin HttpLocations /\ x \in Procs /\ x \notin Ctls
    BY Zenon, <1>17 DEF NewController, HttpLocations
  <2>2. Goto(x, "ready") /\ UNCHANGED <<req, work>>
    BY Zenon, <1>17 DEF NewController, Return
  <2>3. pc' \in [Procs -> Locations]
    BY Zenon, <2>1, <2>2, GotoType DEF Locations, CallerLocations
  <2>4. phase' \in [Ctls -> Phases]
        /\ \A c \in Ctls : phase'[c] \in {"new", "electing"} => phase[c] \in {"new", "electing"}
    <3>1. phase' = phase \/ \E c \in Ctls : phase[c] = "new" /\ phase' = [phase EXCEPT ![c] = "electing"]
      BY Zenon, <1>17 DEF NewController
    <3>2. phase \in [Ctls -> Phases] BY Zenon DEF TypeOK
    <3> QED BY Zenon, <3>1, <3>2 DEF Phases
  <2>5. \A y \in Procs : Located(y)'
    BY Zenon, <2>1, <2>2, <2>4 DEF Goto, TypeOK, Located
  <2>6. ret' \in [Callers -> Results]
    BY Zenon, <1>17, ReturnType DEF NewController, Return, Results
  <2>7. started' \in [Ctls -> BOOLEAN] /\ leaderCtl' \in [Pods -> Ctls \cup {None}]
    <3>1. CASE UNCHANGED <<started, leaderCtl>> BY Zenon, <3>1 DEF TypeOK
    <3>2. CASE \E c \in Ctls : /\ started' = [started EXCEPT ![c] = TRUE]
                              /\ leaderCtl' = [leaderCtl EXCEPT ![PodOf[x]] = c]
      BY <3>2 DEF TypeOK
    <3> QED BY Zenon, <1>17, <3>1, <3>2 DEF NewController
  <2> QED BY Zenon, <1>17, <2>3, <2>4, <2>5, <2>6, <2>7 DEF NewController, TypeOK, AdminTypeOK, adminVars
<1>18. ASSUME NEW c \in Ctls, Acquire(c) PROVE TypeOK'
  <2>1. pc[c] \notin HttpLocations /\ c \in Procs
    BY Zenon, <1>18 DEF Acquire, TypeOK, Located, HttpLocations
  <2>2. phase' \in [Ctls -> Phases] /\ phase'[c] = "leading" /\ \A d \in Ctls \ {c} : phase'[d] = phase[d]
    BY <1>18 DEF Acquire, TypeOK, Phases
  <2>3. pc' \in [Procs -> Locations] /\ \A y \in Procs : Located(y)'
    BY Zenon, <1>18, <2>1, <2>2, GoroutineMoves DEF Acquire, Locations, GoroutineLocations
  <2> QED BY Zenon, <1>18, <2>2, <2>3 DEF Acquire, TypeOK, AdminTypeOK, adminVars, gatewayVars, callerVars
<1>19. ASSUME NEW c \in Ctls, RunStep(c) PROVE TypeOK'
  <2>1. /\ UNCHANGED procVars
        /\ \E f \in {"ended", "released", "done"} : phase' = [phase EXCEPT ![c] = f]
    BY Zenon, <1>19 DEF RunStep, RenewEnds, Release, RunReturns
  <2>4. /\ phase' \in [Ctls -> Phases]
        /\ \A d \in Ctls : phase'[d] \in {"new", "electing"} => phase[d] \in {"new", "electing"}
    BY <2>1 DEF TypeOK, Phases
  <2>5. faults' \in 0 .. MaxFaults
    <3>1. UNCHANGED faults \/ Fault
      BY Zenon, <1>19 DEF RunStep, RenewEnds, Release, RunReturns
    <3> QED BY <3>1 DEF Fault, TypeOK
  <2>2. \A y \in Procs : Located(y)'
    BY Zenon, <2>1, <2>4 DEF TypeOK, Located, procVars
  <2>3. lease' \in Pods \cup {None} /\ isLeader' \in [Ctls -> BOOLEAN]
    <3>1. lease' \in {lease, None} /\ (isLeader' = isLeader \/ isLeader' = [isLeader EXCEPT ![c] = FALSE])
      BY Zenon, <1>19 DEF RunStep, RenewEnds, Release, RunReturns
    <3> QED BY Zenon, <3>1 DEF TypeOK
  <2>6. UNCHANGED <<adminVars, gatewayVars, started, cancelled, callerVars>>
    BY <1>19, Zenon DEF RunStep, RenewEnds, Release, RunReturns
  <2> QED BY Zenon, <2>1, <2>2, <2>3, <2>4, <2>5, <2>6 DEF TypeOK, AdminTypeOK,
          adminVars, gatewayVars, procVars, callerVars
<1>20. ASSUME NEW c \in Ctls, CallerContextEnds(c) PROVE TypeOK'
  <2>1. \A y \in Procs : Located(y)'
    BY Zenon, <1>20 DEF CallerContextEnds, TypeOK, Located, procVars
  <2>2. faults' \in 0 .. MaxFaults
    BY <1>20 DEF CallerContextEnds, Fault, TypeOK
  <2>3. cancelled' \in [Ctls -> BOOLEAN]
    BY Zenon, <1>20 DEF CallerContextEnds, TypeOK
  <2>4. UNCHANGED <<adminVars, gatewayVars, lease, phase, started, isLeader, procVars, callerVars>>
    BY Zenon, <1>20 DEF CallerContextEnds
  <2> QED BY Zenon, <2>1, <2>2, <2>3, <2>4 DEF TypeOK, AdminTypeOK, adminVars, gatewayVars, procVars, callerVars
<1>21. ASSUME NEW c \in Ctls, LeadStart(c) \/ Tick(c) \/ LeadExit(c) PROVE TypeOK'
  <2>1. /\ pc[c] \notin HttpLocations /\ c \in Procs /\ UNCHANGED <<req, work, phase>>
        /\ phase[c] \notin {"new", "electing"}
    BY Zenon, <1>21 DEF LeadStart, Tick, LeadExit, TypeOK, Located, HttpLocations, electionVars
  <2>2. \E l \in Locations \ {"putRoute", "delRoute"} : Goto(c, l)
    BY Zenon, <1>21 DEF LeadStart, Tick, LeadExit, Locations, HttpLocations, GoroutineLocations
  <2>3. pc' \in [Procs -> Locations] /\ \A y \in Procs : Located(y)'
    BY Zenon, <2>1, <2>2, GoroutineMoves
  <2>4. isLeader' \in [Ctls -> BOOLEAN]
    BY Zenon, <1>21 DEF LeadStart, Tick, LeadExit, TypeOK, electionVars
  <2>5. UNCHANGED <<adminVars, gatewayVars, lease, phase, started, cancelled, faults,
                    req, work, routeErr, callerVars>>
    BY Zenon, <1>21 DEF LeadStart, Tick, LeadExit, electionVars
  <2> QED BY Zenon, <2>3, <2>4, <2>5 DEF TypeOK, AdminTypeOK, adminVars, gatewayVars, callerVars
<1>22. ASSUME NEW p \in Pods, Crash(p) PROVE TypeOK'
  <2>1. \A y \in Procs : Located(y)'
    BY Zenon, <1>22 DEF Crash, TypeOK, Located, procVars
  <2>2. faults' \in 0 .. MaxFaults
    BY <1>22 DEF Crash, Fault, TypeOK
  <2>3. alive' \in [Pods -> BOOLEAN]
    BY Zenon, <1>22 DEF Crash, TypeOK
  <2>4. UNCHANGED <<adminVars, leaderMu, leaderCtl, routeIDs, lease, phase, started, cancelled,
                    isLeader, procVars, callerVars>>
    BY Zenon, <1>22 DEF Crash
  <2> QED BY Zenon, <2>1, <2>2, <2>3, <2>4 DEF TypeOK, AdminTypeOK, adminVars, procVars, callerVars
<1>23. CASE LeaseExpires
  <2>1. \A y \in Procs : Located(y)'
    BY Zenon, <1>23 DEF LeaseExpires, TypeOK, Located, procVars
  <2> QED BY Zenon, <1>23, <2>1 DEF LeaseExpires, TypeOK, AdminTypeOK, adminVars, gatewayVars, procVars,
          callerVars
<1>24. CASE LateRequest
  <2>1. PICK r \in late : LateArrival(r) \/ LateLoss(r)
    BY Zenon, <1>24 DEF LateRequest
  <2>2. r \in Request
    BY Zenon DEF TypeOK, AdminTypeOK
  <2>3. AdminTypeOK'
    BY Zenon, <2>1, <2>2, ApplyType DEF LateArrival, LateLoss, TypeOK, AdminTypeOK
  <2>4. \A y \in Procs : Located(y)'
    BY Zenon, <1>24 DEF LateRequest, TypeOK, Located, procVars, electionVars
  <2> QED BY Zenon, <1>24, <2>3, <2>4 DEF LateRequest, TypeOK, gatewayVars, electionVars, procVars, callerVars
<1>25. CASE UNCHANGED vars
  <2>1. \A y \in Procs : Located(y)'
    BY Zenon, <1>25 DEF vars, TypeOK, Located, procVars, electionVars
  <2> QED BY Zenon, <1>25, <2>1 DEF vars, TypeOK, AdminTypeOK, adminVars, gatewayVars, electionVars, procVars,
          callerVars
<1> QED BY Zenon, <1>1, <1>2, <1>3, <1>4, <1>5, <1>6, <1>7, <1>8, <1>9, <1>10, <1>11, <1>12, <1>13, <1>14,
           <1>15, <1>16, <1>17, <1>18, <1>19, <1>20, <1>21, <1>22, <1>23, <1>24, <1>25
    DEF Next, MethodCall, CallerStep, HttpStep, LeadStep

(* The variables of ApisixGateway keep their types, a request is only      *)
(* under way in putResource or deleteResource, and the loops over routes   *)
(* never run past the end of their list.                                   *)
THEOREM TypeCorrect == Spec => []TypeOK
BY TypeInit, TypeNext, PTL DEF Spec

=============================================================================
