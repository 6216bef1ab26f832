---------------------------- MODULE ServiceGroup ----------------------------
(***************************************************************************)
(* service/group.go, starter.go and cleanup.go with the servers of package *)
(* http_server: a group starts each service in a goroutine of its own and  *)
(* stops them in reverse order, on a signal or by a call of Stop.          *)
(*                                                                         *)
(* A service is "http" (HttpServer), "grpc" (GrpcServer registered in      *)
(* etcd), "multi" (MultiServer, both) or "cleanup" (CleanupService).  A    *)
(* goroutine is the list of the steps it has still to take; the steps are  *)
(* the places where the other goroutines, net/http, grpc or etcd can come  *)
(* in between.                                                             *)
(***************************************************************************)
EXTENDS Naturals, Sequences

CONSTANTS
    Services,   \* the services in the order of Add
    Logger      \* getLoggerSafe found a logger: a failed Startup ends the process

ASSUME GroupConstants ==
    /\ Services \in Seq({"http", "grpc", "multi", "cleanup"})
    /\ Logger \in BOOLEAN

VARIABLES
    main,       \* the caller of Start
    stopCall,   \* another caller of Stop
    once,       \* stopOnce of the group
    stopCh,     \* stopCh is closed
    starting,   \* per service: the steps Start has still to take
    toStop,     \* the services that the loop of Stop has still to come to, i + 1
    stopping,   \* the steps that remain of the Stop of the service it has come to
    exited,     \* the process has ended
    early,      \* Stop reached a server whose Startup had not returned
    server,     \* m.server is set
    httpServe,  \* the goroutine of ListenAndServe
    shutdown,   \* Shutdown was called on m.server
    httpReq,    \* a request is being handled
    timedOut,   \* Shutdown gave up waiting
    grpcServe,  \* the goroutine of Serve
    grpcStop,   \* GracefulStop was called
    rpc,        \* an RPC is being handled
    registry,   \* s.registry: "nil", "new", "info" (Register has set info), "cancelled", "closed"
    leaseID,    \* r.leaseID is set
    lease,      \* the lease in etcd: "none", "live", "gone"
    key,        \* the service's key in etcd
    keepAlive,  \* the lease is kept alive
    cleaned     \* CleanupService.Stop has run

groupVars == <<main, stopCall, once, stopCh, toStop>>
httpVars == <<server, httpServe, shutdown, httpReq, timedOut>>
grpcVars == <<grpcServe, grpcStop, rpc>>
etcdVars == <<registry, leaseID, lease, key, keepAlive>>
vars == <<groupVars, starting, stopping, exited, early, httpVars, grpcVars, etcdVars, cleaned>>

I == 1 .. Len(Services)

(* What Start and Stop of a service do, step by step. *)
HttpStart == <<"http">>
GrpcStart == <<"listen", "registry", "info", "grant", "put", "keepAlive", "serve">>

(* Mutant: Stop only cancels the context. *)
HttpStopOnlyCancels == <<>>

HttpStop == <<"shutdown", "drain">>

(* Mutant: Stop does not close the registry. *)
GrpcStopRegistered == <<"gracefulStop", "wait">>

GrpcStop == <<"close", "revoke", "gracefulStop", "wait">>

StartSteps ==
    [http |-> HttpStart, grpc |-> GrpcStart, multi |-> HttpStart \o GrpcStart, cleanup |-> <<>>]

StopSteps ==
    [http |-> HttpStop, grpc |-> GrpcStop, multi |-> GrpcStop \o HttpStop, cleanup |-> <<"cleanup">>]

Steps == {"http", "shutdown", "drain", "close", "revoke", "gracefulStop", "wait", "cleanup"}
             \cup {GrpcStart[n] : n \in 1 .. Len(GrpcStart)}
ServeStates == {"none", "spawned", "serving", "ended"}

TypeOK ==
    /\ main \in {"new", "waiting", "stopping", "done"}
    /\ stopCall \in {"none", "stopping", "done"}
    /\ once \in {"no", "main", "stopCall", "done"}
    /\ starting \in [I -> Seq(Steps) \cup {<<"unspawned">>}]
    /\ toStop \in 0 .. Len(Services) /\ stopping \in Seq(Steps)
    /\ {stopCh, exited, early, server, shutdown, httpReq, timedOut, grpcStop, rpc,
        leaseID, key, keepAlive, cleaned} \subseteq BOOLEAN
    /\ {httpServe, grpcServe} \subseteq ServeStates
    /\ registry \in {"nil", "new", "info", "cancelled", "closed"}
    /\ lease \in {"none", "live", "gone"}

Init ==
    /\ main = "new" /\ stopCall = "none" /\ once = "no" /\ stopCh = FALSE
    /\ starting = [i \in I |-> <<"unspawned">>]
    /\ toStop = 0 /\ stopping = <<>> /\ exited = FALSE /\ early = FALSE
    /\ server = FALSE /\ httpServe = "none" /\ shutdown = FALSE
    /\ httpReq = FALSE /\ timedOut = FALSE
    /\ grpcServe = "none" /\ grpcStop = FALSE /\ rpc = FALSE
    /\ registry = "nil" /\ leaseID = FALSE /\ lease = "none" /\ key = FALSE /\ keepAlive = FALSE
    /\ cleaned = FALSE
-----------------------------------------------------------------------------
(* The group. *)

(* startAll: the goroutines are created, none has run yet. *)
Start ==
    /\ ~exited /\ main = "new"
    /\ main' = "waiting"
    /\ starting' = [i \in I |-> StartSteps[Services[i]]]
    /\ UNCHANGED <<stopCall, once, stopCh, toStop, stopping, exited, early, httpVars, grpcVars, etcdVars, cleaned>>

(* waitForSignal returns, on a signal or because stopCh is closed. *)
SignalOrStopCh ==
    /\ ~exited /\ main = "waiting"
    /\ main' = "stopping"
    /\ UNCHANGED <<stopCall, once, stopCh, toStop, starting, stopping, exited, early, httpVars, grpcVars, etcdVars, cleaned>>

(* Another goroutine calls Stop. *)
CallStop ==
    /\ ~exited /\ stopCall = "none" /\ main # "new"
    /\ stopCall' = "stopping"
    /\ UNCHANGED <<main, once, stopCh, toStop, starting, stopping, exited, early, httpVars, grpcVars, etcdVars, cleaned>>

AtStop(caller) ==
    ~exited /\ (IF caller = "main" THEN main = "stopping" ELSE stopCall = "stopping")

(* Mutant: stopCh is not closed. *)
OnceBeginsSilently(caller) ==
    /\ AtStop(caller) /\ once = "no"
    /\ once' = caller
    /\ toStop' = Len(Services)
    /\ UNCHANGED <<main, stopCall, stopCh, starting, stopping, exited, early, httpVars, grpcVars, etcdVars, cleaned>>

(* stopOnce.Do: the first caller stops the services ... *)
OnceBegins(caller) ==
    /\ AtStop(caller) /\ once = "no"
    /\ once' = caller /\ stopCh' = TRUE
    /\ toStop' = Len(Services)
    /\ UNCHANGED <<main, stopCall, starting, stopping, exited, early, httpVars, grpcVars, etcdVars, cleaned>>

(* ... and the others return when it has finished. *)
OnceEnds(caller) ==
    /\ AtStop(caller)
    /\ (once = caller /\ toStop = 0 /\ stopping = <<>>) \/ once = "done"
    /\ once' = "done"
    /\ \/ caller = "main" /\ main' = "done" /\ UNCHANGED stopCall
       \/ caller = "stopCall" /\ stopCall' = "done" /\ UNCHANGED main
    /\ UNCHANGED <<stopCh, toStop, starting, stopping, exited, early, httpVars, grpcVars, etcdVars, cleaned>>
-----------------------------------------------------------------------------
(* The start goroutines. *)

At(i, step) == ~exited /\ starting[i] # <<>> /\ Head(starting[i]) = step
Proceed(i) == starting' = [starting EXCEPT ![i] = Tail(@)]
(* Startup goes on to Serve without a registration. *)
SkipToServe(i) == starting' = [starting EXCEPT ![i] = <<"serve">>]

(* HttpServer.Startup. *)
HttpStartup(i) ==
    /\ At(i, "http")
    /\ server' = TRUE /\ httpServe' = "spawned"
    /\ Proceed(i)
    /\ UNCHANGED <<groupVars, stopping, exited, early, shutdown, httpReq, timedOut, grpcVars, etcdVars, cleaned>>

(* GrpcServer.Startup listens; a failure is fatal when there is a logger.  *)
Listen(i) ==
    /\ At(i, "listen")
    /\ \/ Proceed(i) /\ UNCHANGED exited
       \/ /\ starting' = [starting EXCEPT ![i] = <<>>]
          /\ exited' = Logger
    /\ UNCHANGED <<groupVars, stopping, early, httpVars, grpcVars, etcdVars, cleaned>>

(* NewEtcdRegister and NewServiceRegistry. *)
NewRegistry(i) ==
    /\ At(i, "registry")
    /\ \/ registry' = "new" /\ Proceed(i)
       \/ UNCHANGED registry /\ SkipToServe(i)
    /\ UNCHANGED <<groupVars, stopping, exited, early, httpVars, grpcVars, leaseID, lease, key, keepAlive, cleaned>>

(* ServiceRegistry.Register sets info.  A cancelled context and a closed   *)
(* client are left alone: the requests that follow fail.                   *)
SetInfo(i) ==
    /\ At(i, "info")
    /\ registry' = IF registry = "new" THEN "info" ELSE registry
    /\ Proceed(i)
    /\ UNCHANGED <<groupVars, stopping, exited, early, httpVars, grpcVars, leaseID, lease, key, keepAlive, cleaned>>

(* Mutant: a failed registration is tried again. *)
RequestIsRetried(i) ==
    /\ At(i, "grant") \/ At(i, "put") \/ At(i, "keepAlive")
    /\ starting' = [starting EXCEPT ![i] = <<"grant", "put", "keepAlive", "serve">>]
    /\ UNCHANGED <<groupVars, stopping, exited, early, httpVars, grpcVars, etcdVars, cleaned>>

(* A request of EtcdRegister.Register fails, its error is ignored. *)
RequestFails(i) ==
    /\ At(i, "grant") \/ At(i, "put") \/ At(i, "keepAlive")
    /\ SkipToServe(i)
    /\ UNCHANGED <<groupVars, stopping, exited, early, httpVars, grpcVars, etcdVars, cleaned>>

Grant(i) ==
    /\ At(i, "grant") /\ registry = "info"
    /\ lease' = "live" /\ leaseID' = TRUE
    /\ Proceed(i)
    /\ UNCHANGED <<groupVars, stopping, exited, early, httpVars, grpcVars, registry, key, keepAlive, cleaned>>

(* etcd refuses a put with a lease that is gone. *)
PutKey(i) ==
    /\ At(i, "put") /\ registry = "info" /\ lease = "live"
    /\ key' = TRUE
    /\ Proceed(i)
    /\ UNCHANGED <<groupVars, stopping, exited, early, httpVars, grpcVars, registry, leaseID, lease, keepAlive, cleaned>>

KeepAlive(i) ==
    /\ At(i, "keepAlive") /\ registry = "info"
    /\ keepAlive' = (lease = "live")
    /\ Proceed(i)
    /\ UNCHANGED <<groupVars, stopping, exited, early, httpVars, grpcVars, registry, leaseID, lease, key, cleaned>>

Serve(i) ==
    /\ At(i, "serve")
    /\ grpcServe' = "spawned"
    /\ Proceed(i)
    /\ UNCHANGED <<groupVars, stopping, exited, early, httpVars, grpcStop, rpc, etcdVars, cleaned>>
-----------------------------------------------------------------------------
(* The steps of Stop. *)

(* Mutant: the services are stopped in the order of Add. *)
NextServiceForward ==
    /\ ~exited /\ toStop > 0 /\ stopping = <<>>
    /\ toStop' = toStop - 1
    /\ stopping' = StopSteps[Services[Len(Services) + 1 - toStop]]
    /\ UNCHANGED <<main, stopCall, once, stopCh, starting, exited, early, httpVars, grpcVars, etcdVars, cleaned>>

(* for i := len(sg.services) - 1; i >= 0; i--. *)
NextService ==
    /\ ~exited /\ toStop > 0 /\ stopping = <<>>
    /\ toStop' = toStop - 1
    /\ stopping' = StopSteps[Services[toStop]]
    /\ UNCHANGED <<main, stopCall, once, stopCh, starting, exited, early, httpVars, grpcVars, etcdVars, cleaned>>

AtStep(step) == ~exited /\ stopping # <<>> /\ Head(stopping) = step
StopProceeds == stopping' = Tail(stopping)

(* early is set when Startup has not got as far as creating what Stop ends.*)
NotStarted(step) == \E i \in I : \E n \in 1 .. Len(starting[i]) : starting[i][n] = step

(* HttpServer.Stop: nothing to do before Startup. *)
Shutdown ==
    /\ AtStep("shutdown")
    /\ early' = (early \/ NotStarted("http"))
    /\ \/ /\ ~server
          /\ stopping' = Tail(Tail(stopping))
          /\ UNCHANGED <<shutdown, httpServe>>
       \/ /\ server
          /\ shutdown' = TRUE
          /\ httpServe' = IF httpServe = "serving" THEN "ended" ELSE httpServe
          /\ StopProceeds
    /\ UNCHANGED <<groupVars, starting, exited, server, httpReq, timedOut, grpcVars, etcdVars, cleaned>>

(* Shutdown returns when no request is left, or after 10 seconds. *)
Drain ==
    /\ AtStep("drain")
    /\ timedOut' = httpReq
    /\ StopProceeds
    /\ UNCHANGED <<groupVars, starting, exited, early, server, httpServe, shutdown, httpReq, grpcVars, etcdVars, cleaned>>

(* GrpcServer.Stop: registry.Close, whose Deregister cancels the context   *)
(* of a registration that has been begun.                                  *)
CloseRegistry ==
    /\ AtStep("close")
    /\ early' = (early \/ NotStarted("serve"))
    /\ registry' = IF registry = "info" THEN "cancelled" ELSE registry
    /\ keepAlive' = (keepAlive /\ registry # "info")
    /\ StopProceeds
    /\ UNCHANGED <<groupVars, starting, exited, httpVars, grpcVars, leaseID, lease, key, cleaned>>

(* Deregister revokes the lease, which deletes the key, or fails; then the *)
(* client is closed.                                                       *)
Revoke ==
    /\ AtStep("revoke")
    /\ \/ registry = "cancelled" /\ leaseID /\ lease' = "gone" /\ key' = FALSE
       \/ UNCHANGED <<lease, key>>
    /\ registry' = IF registry = "nil" THEN "nil" ELSE "closed"
    /\ keepAlive' = (keepAlive /\ registry = "nil")
    /\ StopProceeds
    /\ UNCHANGED <<groupVars, starting, exited, early, httpVars, grpcVars, leaseID, cleaned>>

(* GracefulStop closes the listeners ... *)
GracefulStop ==
    /\ AtStep("gracefulStop")
    /\ grpcStop' = TRUE
    /\ grpcServe' = IF grpcServe = "serving" THEN "ended" ELSE grpcServe
    /\ StopProceeds
    /\ UNCHANGED <<groupVars, starting, exited, early, httpVars, rpc, etcdVars, cleaned>>

(* ... and waits for the RPCs without a limit. *)
Wait ==
    /\ AtStep("wait") /\ ~rpc
    /\ StopProceeds
    /\ UNCHANGED <<groupVars, starting, exited, early, httpVars, grpcVars, etcdVars, cleaned>>

(* CleanupService.Stop runs the cleanups and closers of the application. *)
Cleanup ==
    /\ AtStep("cleanup")
    /\ cleaned' = TRUE
    /\ StopProceeds
    /\ UNCHANGED <<groupVars, starting, exited, early, httpVars, grpcVars, etcdVars>>
-----------------------------------------------------------------------------
(* net/http, grpc and etcd. *)

(* ListenAndServe and Serve run, unless the server was stopped before.     *)
ListenAndServe ==
    /\ ~exited /\ httpServe = "spawned"
    /\ \/ ~shutdown /\ httpServe' = "serving"
       \/ httpServe' = "ended"
    /\ UNCHANGED <<groupVars, starting, stopping, exited, early, server, shutdown, httpReq, timedOut, grpcVars, etcdVars, cleaned>>

GrpcServes ==
    /\ ~exited /\ grpcServe = "spawned"
    /\ grpcServe' = IF grpcStop THEN "ended" ELSE "serving"
    /\ UNCHANGED <<groupVars, starting, stopping, exited, early, httpVars, grpcStop, rpc, etcdVars, cleaned>>

HttpRequest ==
    /\ ~exited
    /\ \/ httpServe = "serving" /\ ~httpReq /\ httpReq' = TRUE
       \/ httpReq /\ httpReq' = FALSE
    /\ UNCHANGED <<groupVars, starting, stopping, exited, early, server, httpServe, shutdown, timedOut, grpcVars, etcdVars, cleaned>>

RpcBegins ==
    /\ ~exited /\ grpcServe = "serving" /\ ~rpc
    /\ rpc' = TRUE
    /\ UNCHANGED <<groupVars, starting, stopping, exited, early, httpVars, grpcServe, grpcStop, etcdVars, cleaned>>

RpcEnds ==
    /\ ~exited /\ rpc
    /\ rpc' = FALSE
    /\ UNCHANGED <<groupVars, starting, stopping, exited, early, httpVars, grpcServe, grpcStop, etcdVars, cleaned>>

(* A lease that is not kept alive, for want of a keep-alive or of a        *)
(* connection, expires; nothing grants another one.                        *)
LeaseExpires ==
    /\ lease = "live"
    /\ lease' = "gone" /\ key' = FALSE /\ keepAlive' = FALSE
    /\ UNCHANGED <<groupVars, starting, stopping, exited, early, httpVars, grpcVars, registry, leaseID, cleaned>>
-----------------------------------------------------------------------------
StartStep(i) ==
    \/ HttpStartup(i) \/ Listen(i) \/ NewRegistry(i) \/ SetInfo(i) \/ Grant(i) \/ PutKey(i)
    \/ KeepAlive(i) \/ RequestFails(i) \/ Serve(i)
StopStep ==
    NextService \/ Shutdown \/ Drain \/ CloseRegistry \/ Revoke \/ GracefulStop \/ Wait \/ Cleanup
GroupStep ==
    \/ Start \/ SignalOrStopCh \/ CallStop
    \/ \E caller \in {"main", "stopCall"} : OnceBegins(caller) \/ OnceEnds(caller)
Environment ==
    ListenAndServe \/ GrpcServes \/ HttpRequest \/ RpcBegins \/ RpcEnds \/ LeaseExpires

Next == GroupStep \/ StopStep \/ Environment \/ \E i \in I : StartStep(i)

Spec == Init /\ [][Next]_vars

(* Goroutines run on; a select sees stopCh; handlers of RPCs return; a     *)
(* lease without keep-alives expires.                                      *)
Fairness ==
    /\ WF_vars(SignalOrStopCh /\ stopCh)
    /\ \A caller \in {"main", "stopCall"} : WF_vars(OnceBegins(caller)) /\ WF_vars(OnceEnds(caller))
    /\ WF_vars(StopStep)
    /\ \A i \in I : WF_vars(StartStep(i))
    /\ WF_vars(RpcEnds)
    /\ WF_vars(LeaseExpires /\ ~keepAlive)

FairSpec == Spec /\ Fairness
-----------------------------------------------------------------------------
Stopped == once = "done" /\ ~exited

(* Stop ends every server that had been started when Stop came to it, also *)
(* one whose serving goroutine has not run yet: nothing serves and no RPC  *)
(* runs after Stop, and nothing keeps the registration in etcd alive.      *)
StopsWhatWasStarted ==
    Stopped /\ ~early => /\ "serving" \notin {httpServe, grpcServe}
                         /\ ~rpc /\ ~keepAlive

(* The cleanups, added first, run last: no RPC uses what they close, and   *)
(* no HTTP request but one for which Shutdown has waited its 10 seconds.   *)
CleanupComesLast == cleaned /\ ~early => ~rpc /\ (httpReq => timedOut)

(* The group implements the abstract registry with itself as the server.   *)
Registered ==
    [s \in {"self"} |-> IF key THEN "present" ELSE IF lease = "gone" THEN "gone" ELSE "absent"]
Reg == INSTANCE Registry WITH Servers <- {"self"}, entry <- Registered

(* A server is registered for one stretch of time: no request that fails   *)
(* or comes late, no Stop during Startup and no lost lease (etcd.go 155:   *)
(* the goroutine of the keep-alives only ends) makes its key appear again. *)
(* This is all that Discovery assumes of the servers.                      *)
RegistersOnce == Reg!Spec

(* Start returns once Stop was called by anyone.                           *)
StartReturns == (stopCall = "stopping" \/ main = "stopping") ~> (main = "done" \/ exited)

(* A registration does not outlive the group: the key is deleted by the    *)
(* revocation or, when that failed, by the end of the lease.               *)
RegistrationEnds == (Stopped /\ ~early) ~> ~key
=============================================================================
