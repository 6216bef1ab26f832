------------------------- MODULE ServiceGroupProofs -------------------------
(* A group of any services registers its gRPC server for one stretch of    *)
(* time, which is what Discovery takes for granted; when Stop has returned *)
(* what was started is down, and the cleanups have run last.               *)
EXTENDS ServiceGroup, SequenceTheorems, TLAPS

IsGrpc(i) == Services[i] \in {"grpc", "multi"}

(* GrpcServer.Startup before it asks for a lease, and afterwards. *)
Unspawned == <<"unspawned">>
ToHttp == <<"http", "listen", "registry", "info", "grant", "put", "keepAlive", "serve">>
ToListen == <<"listen", "registry", "info", "grant", "put", "keepAlive", "serve">>
ToRegistry == <<"registry", "info", "grant", "put", "keepAlive", "serve">>
ToInfo == <<"info", "grant", "put", "keepAlive", "serve">>
ToGrant == <<"grant", "put", "keepAlive", "serve">>
ToPut == <<"put", "keepAlive", "serve">>
ToKeepAlive == <<"keepAlive", "serve">>
ToServe == <<"serve">>
OnlyHttp == <<"http">>
Ended == <<>>

BeforeLease == {Unspawned, ToHttp, ToListen, ToRegistry, ToInfo, ToGrant}
AfterLease == {ToPut, ToKeepAlive, ToServe, Ended}
NotGrpc == {Unspawned, OnlyHttp, Ended}

(* As long as Startup has not asked for the lease there never was one, and *)
(* the key is there only with a lease that lives.                          *)
OneLease ==
    /\ key \in BOOLEAN /\ lease \in {"none", "live", "gone"}
    /\ starting = [i \in I |-> starting[i]]
    /\ \A i \in I : starting[i] \in IF IsGrpc(i) THEN BeforeLease \cup AfterLease ELSE NotGrpc
    /\ \A i \in I : IsGrpc(i) /\ starting[i] \in BeforeLease => lease = "none"
    /\ main = "new" => lease = "none" /\ \A i \in I : starting[i] = Unspawned
    /\ key => lease = "live"
    /\ leaseID => lease # "none"

(* At most one service of the group is a gRPC server, as the model of its  *)
(* one registry takes for granted.                                         *)
OneGrpc == \A i, j \in I : IsGrpc(i) /\ IsGrpc(j) => i = j

(* The lists of steps, one after the other. *)
LEMMA Heads ==
    /\ Unspawned # <<>> /\ Head(Unspawned) = "unspawned"
    /\ ToHttp # <<>> /\ Head(ToHttp) = "http" /\ Tail(ToHttp) = ToListen
    /\ ToListen # <<>> /\ Head(ToListen) = "listen" /\ Tail(ToListen) = ToRegistry
    /\ ToRegistry # <<>> /\ Head(ToRegistry) = "registry" /\ Tail(ToRegistry) = ToInfo
    /\ ToInfo # <<>> /\ Head(ToInfo) = "info" /\ Tail(ToInfo) = ToGrant
    /\ ToGrant # <<>> /\ Head(ToGrant) = "grant" /\ Tail(ToGrant) = ToPut
    /\ ToPut # <<>> /\ Head(ToPut) = "put" /\ Tail(ToPut) = ToKeepAlive
    /\ ToKeepAlive # <<>> /\ Head(ToKeepAlive) = "keepAlive" /\ Tail(ToKeepAlive) = ToServe
    /\ ToServe # <<>> /\ Head(ToServe) = "serve" /\ Tail(ToServe) = Ended
    /\ OnlyHttp # <<>> /\ Head(OnlyHttp) = "http" /\ Tail(OnlyHttp) = Ended
    /\ Ended = <<>>
<1>1. Tail(ToHttp) = ToListen BY DEF ToHttp, ToListen
<1>2. Tail(ToListen) = ToRegistry BY DEF ToListen, ToRegistry
<1>3. Tail(ToRegistry) = ToInfo BY DEF ToRegistry, ToInfo
<1>4. Tail(ToInfo) = ToGrant BY DEF ToInfo, ToGrant
<1>5. Tail(ToGrant) = ToPut BY DEF ToGrant, ToPut
<1>6. Tail(ToPut) = ToKeepAlive BY DEF ToPut, ToKeepAlive
<1>7. Tail(ToKeepAlive) = ToServe /\ Tail(ToServe) = Ended /\ Tail(OnlyHttp) = Ended
  BY DEF ToKeepAlive, ToServe, OnlyHttp, Ended
<1> QED
  BY <1>1, <1>2, <1>3, <1>4, <1>5, <1>6, <1>7
  DEF Unspawned, ToHttp, ToListen, ToRegistry, ToInfo, ToGrant, ToPut, ToKeepAlive, ToServe,
      OnlyHttp, Ended

(* What the start goroutine of each kind of service is to do. *)
LEMMA StartListOf ==
    ASSUME NEW i \in I
    PROVE  /\ Services[i] \in {"http", "grpc", "multi", "cleanup"}
           /\ Services[i] = "http" => StartSteps[Services[i]] = OnlyHttp
           /\ Services[i] = "grpc" => StartSteps[Services[i]] = ToListen
           /\ Services[i] = "multi" => StartSteps[Services[i]] = ToHttp
           /\ Services[i] = "cleanup" => StartSteps[Services[i]] = Ended
<1>1. Services[i] \in {"http", "grpc", "multi", "cleanup"} BY GroupConstants DEF I
<1>2. HttpStart \o GrpcStart = ToHttp
  <2> DEFINE S == {"http", "listen", "registry", "info", "grant", "put", "keepAlive", "serve"}
             all == HttpStart \o GrpcStart
  <2>1. HttpStart \in Seq(S) /\ Len(HttpStart) = 1 BY DEF HttpStart
  <2>2. GrpcStart \in Seq(S) /\ Len(GrpcStart) = 7 BY DEF GrpcStart
  <2>3. ToHttp \in Seq(S) /\ Len(ToHttp) = 8 BY DEF ToHttp
  <2> HIDE DEF S
  <2>4. /\ all \in Seq(S) /\ Len(all) = Len(HttpStart) + Len(GrpcStart)
        /\ \A n \in 1..Len(HttpStart) + Len(GrpcStart) :
              all[n] = IF n <= Len(HttpStart) THEN HttpStart[n] ELSE GrpcStart[n - Len(HttpStart)]
    BY Zenon, <2>1, <2>2, ConcatProperties
  <2> HIDE DEF all
  <2>5. \A n \in 1..8 : all[n] = IF n <= 1 THEN HttpStart[n] ELSE GrpcStart[n - 1]
    BY <2>1, <2>2, <2>4
  <2>6. \A n \in 1..8 : all[n] = ToHttp[n] BY <2>5 DEF HttpStart, GrpcStart, ToHttp
  <2>7. Len(all) = Len(ToHttp) /\ \A n \in 1..Len(all) : all[n] = ToHttp[n]
    BY <2>1, <2>2, <2>3, <2>4, <2>6
  <2>8. all = ToHttp BY Zenon, <2>3, <2>4, <2>7, SeqEqual
  <2> QED BY Zenon, <2>8 DEF all
<1>3. HttpStart = OnlyHttp /\ GrpcStart = ToListen
  BY Zenon DEF HttpStart, GrpcStart, OnlyHttp, ToListen
<1> QED BY <1>1, <1>2, <1>3 DEF StartSteps, Ended

(* A start goroutine begins before the lease, or has none to ask for. *)
LEMMA StartLists ==
    ASSUME NEW i \in I
    PROVE  StartSteps[Services[i]] \in IF IsGrpc(i) THEN BeforeLease ELSE NotGrpc
BY Zenon, StartListOf DEF IsGrpc, BeforeLease, NotGrpc

(* Before Start there is no lease and nobody has asked for one. *)
LEMMA OneLeaseInit == Init => OneLease
BY Zenon DEF Init, OneLease, BeforeLease, NotGrpc, Unspawned

(* A step that leaves the lease and the key alone only has to keep the     *)
(* list of the service in order.                                           *)
LEMMA KeepsLease ==
    ASSUME OneLease, UNCHANGED <<lease, key, leaseID>>
    PROVE  /\ [Reg!Next]_Registered
           /\ UNCHANGED starting /\ (main' = main \/ main' # "new") => OneLease'
<1>1. [Reg!Next]_Registered BY Zenon DEF Registered
<1>2. ASSUME UNCHANGED starting, main' = main \/ main' # "new" PROVE OneLease'
  BY Zenon, <1>2 DEF OneLease, IsGrpc
<1> QED BY Zenon, <1>1, <1>2

(* A step of a start goroutine that leaves lease and key alone. *)
LEMMA KeepsLists ==
    ASSUME OneLease, UNCHANGED <<lease, key, leaseID, main>>, NEW i \in I, NEW steps,
           starting' = [starting EXCEPT ![i] = steps], starting[i] # Unspawned,
           steps \in IF IsGrpc(i) THEN BeforeLease \cup AfterLease ELSE NotGrpc,
           IsGrpc(i) /\ steps \in BeforeLease => starting[i] \in BeforeLease
    PROVE  OneLease' /\ [Reg!Next]_Registered
<1>1. [Reg!Next]_Registered BY Zenon, KeepsLease
<1>2. main # "new" BY Zenon DEF OneLease
<1>3. OneLease' BY Zenon, <1>2 DEF OneLease, IsGrpc
<1> QED BY Zenon, <1>1, <1>3

(* Where a start goroutine is when its next step has a given name. *)
LEMMA Position ==
    ASSUME OneLease, NEW i \in I, NEW step, At(i, step)
    PROVE  /\ step = "http" => starting[i] \in {ToHttp, OnlyHttp}
           /\ step = "listen" => starting[i] = ToListen
           /\ step = "registry" => starting[i] = ToRegistry
           /\ step = "info" => starting[i] = ToInfo
           /\ step = "grant" => starting[i] = ToGrant
           /\ step = "put" => starting[i] = ToPut
           /\ step = "keepAlive" => starting[i] = ToKeepAlive
           /\ step = "serve" => starting[i] = ToServe
<1>1. starting[i] \in BeforeLease \cup AfterLease \cup NotGrpc BY Zenon DEF OneLease
<1> QED BY Zenon, <1>1, Heads DEF At, BeforeLease, AfterLease, NotGrpc

(* Only a gRPC server comes to the lists of one; the lists differ. *)
LEMMA Lists ==
    ASSUME OneLease, NEW i \in I
    PROVE  /\ starting[i] \in {ToHttp, ToListen, ToRegistry, ToInfo, ToGrant, ToPut, ToKeepAlive, ToServe}
                  => IsGrpc(i) /\ starting[i] # Unspawned
           /\ starting[i] = OnlyHttp => ~IsGrpc(i) /\ starting[i] # Unspawned
           /\ AfterLease \cap BeforeLease = {}
<1>1. ToHttp # OnlyHttp BY Zenon DEF ToHttp, OnlyHttp
<1> QED BY <1>1, Heads DEF OneLease, BeforeLease, AfterLease, NotGrpc

(* Every step of a start goroutine is a step of the Registry or none. *)
LEMMA StartKeeps ==
    ASSUME OneGrpc, OneLease, NEW i \in I, StartStep(i)
    PROVE  OneLease' /\ [Reg!Next]_Registered
<1> USE DEF Proceed, SkipToServe, groupVars, etcdVars
<1>1. CASE HttpStartup(i)
  <2>1. starting[i] \in {ToHttp, OnlyHttp} BY Zenon, <1>1, Position DEF HttpStartup
  <2>2. Tail(starting[i]) \in IF IsGrpc(i) THEN {ToListen} ELSE {Ended}
    BY Zenon, <2>1, Heads, Lists
  <2> QED
    BY Zenon, <1>1, <2>1, <2>2, Lists, KeepsLists DEF HttpStartup, BeforeLease, NotGrpc
<1>2. CASE Listen(i)
  <2>1. starting[i] = ToListen BY Zenon, <1>2, Position DEF Listen
  <2>2. PICK steps \in {ToRegistry, Ended} : starting' = [starting EXCEPT ![i] = steps]
    BY Zenon, <1>2, <2>1, Heads DEF Listen
  <2> QED
    BY Zenon, <1>2, <2>1, <2>2, Lists, KeepsLists DEF Listen, BeforeLease, AfterLease
<1>3. CASE NewRegistry(i)
  <2>1. starting[i] = ToRegistry BY Zenon, <1>3, Position DEF NewRegistry
  <2>2. PICK steps \in {ToInfo, ToServe} : starting' = [starting EXCEPT ![i] = steps]
    BY Zenon, <1>3, <2>1, Heads DEF NewRegistry, ToServe
  <2> QED
    BY Zenon, <1>3, <2>1, <2>2, Lists, KeepsLists DEF NewRegistry, BeforeLease, AfterLease
<1>4. CASE SetInfo(i)
  <2>1. starting[i] = ToInfo BY Zenon, <1>4, Position DEF SetInfo
  <2>2. starting' = [starting EXCEPT ![i] = ToGrant] BY Zenon, <1>4, <2>1, Heads DEF SetInfo
  <2> QED
    BY Zenon, <1>4, <2>1, <2>2, Lists, KeepsLists DEF SetInfo, BeforeLease
<1>5. CASE Grant(i)
  <2>1. starting[i] = ToGrant BY Zenon, <1>5, Position DEF Grant
  <2>2. IsGrpc(i) /\ main # "new" /\ lease = "none" /\ ~key
    BY Zenon, <2>1, Lists DEF OneLease, BeforeLease
  <2>3. starting' = [starting EXCEPT ![i] = ToPut] BY Zenon, <1>5, <2>1, Heads DEF Grant
  <2>4. ToPut \notin BeforeLease /\ ToPut \in AfterLease BY Zenon, Lists DEF AfterLease
  <2>5. OneLease' BY Zenon, <1>5, <2>2, <2>3, <2>4 DEF Grant, OneGrpc, OneLease, IsGrpc
  <2> QED BY Zenon, <1>5, <2>2, <2>5 DEF Grant, Registered
<1>6. CASE PutKey(i)
  <2>1. starting[i] = ToPut BY Zenon, <1>6, Position DEF PutKey
  <2>2. IsGrpc(i) /\ main # "new" /\ lease = "live"
    BY Zenon, <1>6, <2>1, Lists DEF OneLease, PutKey
  <2>3. starting' = [starting EXCEPT ![i] = ToKeepAlive] BY Zenon, <1>6, <2>1, Heads DEF PutKey
  <2>4. ToKeepAlive \in AfterLease /\ ToKeepAlive \notin BeforeLease BY Zenon, Lists DEF AfterLease
  <2>5. OneLease' BY Zenon, <1>6, <2>2, <2>3, <2>4 DEF PutKey, OneLease, IsGrpc
  <2>6. CASE key
    BY Zenon, <1>6, <2>5, <2>6 DEF PutKey, Registered
  <2>7. CASE ~key
    <3>1. Reg!Appears("self") BY Zenon, <1>6, <2>7 DEF PutKey, Reg!Appears, Registered
    <3> QED BY Zenon, <2>5, <3>1 DEF Reg!Next
  <2> QED BY Zenon, <2>6, <2>7
<1>7. CASE KeepAlive(i)
  <2>1. starting[i] = ToKeepAlive BY Zenon, <1>7, Position DEF KeepAlive
  <2>2. starting' = [starting EXCEPT ![i] = ToServe] BY Zenon, <1>7, <2>1, Heads DEF KeepAlive
  <2> QED
    BY Zenon, <1>7, <2>1, <2>2, Lists, KeepsLists DEF KeepAlive, AfterLease
<1>8. CASE RequestFails(i)
  <2>1. starting[i] \in {ToGrant, ToPut, ToKeepAlive} BY Zenon, <1>8, Position DEF RequestFails
  <2>2. starting' = [starting EXCEPT ![i] = ToServe] BY Zenon, <1>8 DEF RequestFails, ToServe
  <2> QED
    BY Zenon, <1>8, <2>1, <2>2, Lists, KeepsLists DEF RequestFails, AfterLease
<1>9. CASE Serve(i)
  <2>1. starting[i] = ToServe BY Zenon, <1>9, Position DEF Serve
  <2>2. starting' = [starting EXCEPT ![i] = Ended] BY Zenon, <1>9, <2>1, Heads DEF Serve
  <2> QED
    BY Zenon, <1>9, <2>1, <2>2, Lists, KeepsLists DEF Serve, AfterLease
<1> QED
  BY Zenon, <1>1, <1>2, <1>3, <1>4, <1>5, <1>6, <1>7, <1>8, <1>9 DEF StartStep

(* Every step of the group is a step of the Registry or none. *)
LEMMA OneLeaseNext ==
    ASSUME OneGrpc, OneLease, [Next]_vars
    PROVE  OneLease' /\ [Reg!Next]_Registered
<1>1. CASE Start
  <2>1. \A i \in I : starting'[i] \in IF IsGrpc(i) THEN BeforeLease ELSE NotGrpc
    BY Zenon, <1>1, StartLists DEF Start
  <2>2. UNCHANGED <<lease, key, leaseID>> /\ starting' = [i \in I |-> starting'[i]]
    BY Zenon, <1>1 DEF Start, etcdVars
  <2>3. OneLease' BY Zenon, <1>1, <2>1, <2>2 DEF Start, OneLease, IsGrpc
  <2> QED BY Zenon, <2>2, <2>3, KeepsLease
<1>2. CASE SignalOrStopCh \/ CallStop
  BY Zenon, <1>2, KeepsLease DEF SignalOrStopCh, CallStop, etcdVars
<1>3. ASSUME NEW c \in {"main", "stopCall"}, OnceBegins(c) \/ OnceEnds(c)
      PROVE  OneLease' /\ [Reg!Next]_Registered
  BY Zenon, <1>3, KeepsLease DEF OnceBegins, OnceEnds, etcdVars
<1>4. CASE NextService \/ Shutdown \/ Drain \/ CloseRegistry \/ GracefulStop \/ Wait \/ Cleanup
  BY Zenon, <1>4, KeepsLease
  DEF NextService, Shutdown, Drain, CloseRegistry, GracefulStop, Wait, Cleanup, etcdVars, groupVars
<1>5. CASE Revoke \/ LeaseExpires
  <2>1. UNCHANGED <<starting, main, leaseID>>
    BY Zenon, <1>5 DEF Revoke, LeaseExpires, groupVars
  <2>2. CASE UNCHANGED <<lease, key>>
    BY Zenon, <2>1, <2>2, KeepsLease
  <2>3. CASE lease # "none" /\ lease' = "gone" /\ key' = FALSE
    <3>1. OneLease' BY Zenon, <2>1, <2>3 DEF OneLease, IsGrpc
    <3>2. CASE lease = "gone"
      <4>1. key = FALSE BY Zenon, <3>2 DEF OneLease
      <4> QED BY Zenon, <2>3, <3>1, <3>2, <4>1 DEF Registered
    <3>3. CASE lease # "gone"
      <4>1. Reg!Disappears("self") BY Zenon, <2>3, <3>3 DEF Reg!Disappears, Registered
      <4> QED BY Zenon, <3>1, <4>1 DEF Reg!Next
    <3> QED BY Zenon, <3>2, <3>3
  <2>4. leaseID => lease # "none" BY Zenon DEF OneLease
  <2> QED BY Zenon, <1>5, <2>2, <2>3, <2>4 DEF Revoke, LeaseExpires
<1>6. CASE Environment /\ ~LeaseExpires
  BY Zenon, <1>6, KeepsLease
  DEF Environment, ListenAndServe, GrpcServes, HttpRequest, RpcBegins, RpcEnds, etcdVars,
      groupVars
<1>7. ASSUME NEW i \in I, StartStep(i) PROVE OneLease' /\ [Reg!Next]_Registered
  BY Zenon, <1>7, StartKeeps
<1>8. CASE UNCHANGED vars
  BY Zenon, <1>8, KeepsLease DEF vars, etcdVars, groupVars
<1> QED
  BY Zenon, <1>1, <1>2, <1>3, <1>4, <1>5, <1>6, <1>7, <1>8 DEF Next, GroupStep, StopStep, Environment

(* Whatever the services of a group with one gRPC server and whatever the  *)
(* order of its failures, it appears in etcd at most once: the group       *)
(* implements the registry that Discovery reads.                           *)
THEOREM RegistersOnceHolds ==
    ASSUME OneGrpc
    PROVE  Spec => RegistersOnce
<1>1. Init => OneLease BY Zenon, OneLeaseInit
<1>2. Init => Reg!Init BY Zenon DEF Init, Reg!Init, Registered
<1>3. OneLease /\ [Next]_vars => OneLease' /\ [Reg!Next]_Registered BY Zenon, OneLeaseNext
<1> QED BY <1>1, <1>2, <1>3, PTL DEF Spec, RegistersOnce, Reg!Spec
-----------------------------------------------------------------------------
(* Stop.  A step of the loop is past when its service has been stopped, or *)
(* is being stopped and has got beyond it.                                 *)
IsHttp(i) == Services[i] \in {"http", "multi"}

FromClose == <<"close", "revoke", "gracefulStop", "wait">>
FromRevoke == <<"revoke", "gracefulStop", "wait">>
FromGraceful == <<"gracefulStop", "wait">>
FromWait == <<"wait">>
BothFromClose == <<"close", "revoke", "gracefulStop", "wait", "shutdown", "drain">>
BothFromRevoke == <<"revoke", "gracefulStop", "wait", "shutdown", "drain">>
BothFromGraceful == <<"gracefulStop", "wait", "shutdown", "drain">>
BothFromWait == <<"wait", "shutdown", "drain">>
FromShutdown == <<"shutdown", "drain">>
FromDrain == <<"drain">>
OnlyCleanup == <<"cleanup">>

GrpcStopLists == {FromClose, FromRevoke, FromGraceful, FromWait}
BothStopLists == {BothFromClose, BothFromRevoke, BothFromGraceful, BothFromWait}
HttpStopLists == {FromShutdown, FromDrain}

BeforeHttp == {ToHttp, OnlyHttp}
GrpcLists == {ToListen, ToRegistry, ToInfo, ToGrant, ToPut, ToKeepAlive, ToServe}
BeforeServe == GrpcLists \cup {ToHttp}

NextStep == IF stopping = <<>> THEN "none" ELSE Head(stopping)

UpToRevoke == {"close", "revoke"}
UpToGraceful == UpToRevoke \cup {"gracefulStop"}
UpToWait == UpToGraceful \cup {"wait"}
UpToShutdown == UpToWait \cup {"shutdown"}
UpToDrain == UpToShutdown \cup {"drain"}

Past(i, steps) == i > toStop + 1 \/ (i = toStop + 1 /\ NextStep \notin steps)

(* Where the goroutines of Start and the loop of Stop can be. *)
StartPlaced ==
    /\ starting = [i \in I |-> starting[i]]
    /\ main = "new" => once = "no" /\ stopCall = "none" /\ \A i \in I : starting[i] = Unspawned
    /\ main # "new" => \A i \in I : /\ starting[i] \in BeforeHttp \cup BeforeServe \cup {Ended}
                                    /\ starting[i] \in BeforeHttp => IsHttp(i)
                                    /\ starting[i] \in BeforeServe => IsGrpc(i)

StopPlaced ==
    /\ toStop \in 0 .. Len(Services)
    /\ once \in {"no", "done"} => toStop = 0 /\ stopping = <<>>
    /\ \/ stopping = <<>>
       \/ /\ toStop < Len(Services)
          /\ \/ Services[toStop + 1] = "http" /\ stopping \in HttpStopLists
             \/ Services[toStop + 1] = "grpc" /\ stopping \in GrpcStopLists
             \/ Services[toStop + 1] = "multi" /\ stopping \in BothStopLists \cup HttpStopLists
             \/ Services[toStop + 1] = "cleanup" /\ stopping = OnlyCleanup

(* What the servers of the group have come to. *)
Served ==
    /\ keepAlive => registry # "nil"
    /\ \A i \in I : IsHttp(i) /\ main # "new" /\ starting[i] \notin BeforeHttp => server
    /\ (\A i \in I : ~IsHttp(i)) => httpServe = "none" /\ ~httpReq
    /\ (\A i \in I : ~IsGrpc(i)) => grpcServe = "none" /\ ~rpc /\ ~keepAlive

(* What each step of Stop leaves behind, when Startup had come first. *)
HttpDown ==
    once # "no" /\ ~early =>
        \A i \in I : IsHttp(i) =>
            /\ Past(i, UpToShutdown) => /\ shutdown /\ httpServe # "serving"
                                        /\ \A j \in I : starting[j] \notin BeforeHttp
            /\ Past(i, UpToDrain) => (httpReq => timedOut)

GrpcDown ==
    once # "no" /\ ~early =>
        \A i \in I : IsGrpc(i) =>
            /\ Past(i, {"close"}) => \A j \in I : starting[j] \notin BeforeServe
            /\ Past(i, UpToRevoke) => ~keepAlive
            /\ Past(i, UpToGraceful) => grpcStop /\ grpcServe # "serving"
            /\ Past(i, UpToWait) => ~rpc

(* The cleanups are added first, so that the reverse order runs them last. *)
CleanupFirst ==
    \A i, j \in I : Services[i] = "cleanup" /\ j < i => Services[j] = "cleanup"

OthersStopped ==
    cleaned => once # "no" /\ \A i \in I : Services[i] # "cleanup" => i > toStop + 1

Stops == StartPlaced /\ StopPlaced /\ Served /\ HttpDown /\ GrpcDown

(* The steps of Stop, one after the other, for each kind of service. *)
LEMMA StopHeads ==
    /\ FromClose # <<>> /\ Head(FromClose) = "close" /\ Tail(FromClose) = FromRevoke
    /\ FromRevoke # <<>> /\ Head(FromRevoke) = "revoke" /\ Tail(FromRevoke) = FromGraceful
    /\ FromGraceful # <<>> /\ Head(FromGraceful) = "gracefulStop" /\ Tail(FromGraceful) = FromWait
    /\ FromWait # <<>> /\ Head(FromWait) = "wait" /\ Tail(FromWait) = <<>>
    /\ BothFromClose # <<>> /\ Head(BothFromClose) = "close" /\ Tail(BothFromClose) = BothFromRevoke
    /\ BothFromRevoke # <<>> /\ Head(BothFromRevoke) = "revoke"
    /\ Tail(BothFromRevoke) = BothFromGraceful
    /\ BothFromGraceful # <<>> /\ Head(BothFromGraceful) = "gracefulStop"
    /\ Tail(BothFromGraceful) = BothFromWait
    /\ BothFromWait # <<>> /\ Head(BothFromWait) = "wait" /\ Tail(BothFromWait) = FromShutdown
    /\ FromShutdown # <<>> /\ Head(FromShutdown) = "shutdown" /\ Tail(FromShutdown) = FromDrain
    /\ FromDrain # <<>> /\ Head(FromDrain) = "drain" /\ Tail(FromDrain) = <<>>
    /\ OnlyCleanup # <<>> /\ Head(OnlyCleanup) = "cleanup" /\ Tail(OnlyCleanup) = <<>>
<1>1. Tail(FromClose) = FromRevoke BY DEF FromClose, FromRevoke
<1>2. Tail(FromRevoke) = FromGraceful BY DEF FromRevoke, FromGraceful
<1>3. Tail(FromGraceful) = FromWait BY DEF FromGraceful, FromWait
<1>4. Tail(BothFromClose) = BothFromRevoke BY DEF BothFromClose, BothFromRevoke
<1>5. Tail(BothFromRevoke) = BothFromGraceful BY DEF BothFromRevoke, BothFromGraceful
<1>6. Tail(BothFromGraceful) = BothFromWait BY DEF BothFromGraceful, BothFromWait
<1>7. Tail(BothFromWait) = FromShutdown BY DEF BothFromWait, FromShutdown
<1>8. Tail(FromShutdown) = FromDrain BY DEF FromShutdown, FromDrain
<1>9. Tail(FromWait) = <<>> /\ Tail(FromDrain) = <<>> /\ Tail(OnlyCleanup) = <<>>
  BY DEF FromWait, FromDrain, OnlyCleanup
<1>10. /\ FromClose # <<>> /\ FromRevoke # <<>> /\ FromGraceful # <<>> /\ FromWait # <<>>
       /\ Head(FromClose) = "close" /\ Head(FromRevoke) = "revoke"
       /\ Head(FromGraceful) = "gracefulStop" /\ Head(FromWait) = "wait"
  BY DEF FromClose, FromRevoke, FromGraceful, FromWait
<1>11. /\ BothFromClose # <<>> /\ BothFromRevoke # <<>> /\ BothFromGraceful # <<>>
       /\ BothFromWait # <<>>
       /\ Head(BothFromClose) = "close" /\ Head(BothFromRevoke) = "revoke"
       /\ Head(BothFromGraceful) = "gracefulStop" /\ Head(BothFromWait) = "wait"
  BY DEF BothFromClose, BothFromRevoke, BothFromGraceful, BothFromWait
<1>12. /\ FromShutdown # <<>> /\ FromDrain # <<>> /\ OnlyCleanup # <<>>
       /\ Head(FromShutdown) = "shutdown" /\ Head(FromDrain) = "drain"
       /\ Head(OnlyCleanup) = "cleanup"
  BY DEF FromShutdown, FromDrain, OnlyCleanup
<1> QED
  BY Zenon, <1>1, <1>2, <1>3, <1>4, <1>5, <1>6, <1>7, <1>8, <1>9, <1>10, <1>11, <1>12

(* Where Stop begins with each kind of service. *)
LEMMA StopLists ==
    /\ StopSteps["http"] = FromShutdown /\ StopSteps["grpc"] = FromClose
    /\ StopSteps["multi"] = BothFromClose /\ StopSteps["cleanup"] = OnlyCleanup
<1>1. GrpcStop \o HttpStop = BothFromClose
  <2> DEFINE S == {"close", "revoke", "gracefulStop", "wait", "shutdown", "drain"}
             all == GrpcStop \o HttpStop
  <2>1. GrpcStop \in Seq(S) /\ Len(GrpcStop) = 4 BY DEF GrpcStop
  <2>2. HttpStop \in Seq(S) /\ Len(HttpStop) = 2 BY DEF HttpStop
  <2>3. BothFromClose \in Seq(S) /\ Len(BothFromClose) = 6 BY DEF BothFromClose
  <2> HIDE DEF S
  <2>4. /\ all \in Seq(S) /\ Len(all) = Len(GrpcStop) + Len(HttpStop)
        /\ \A n \in 1..Len(GrpcStop) + Len(HttpStop) :
              all[n] = IF n <= Len(GrpcStop) THEN GrpcStop[n] ELSE HttpStop[n - Len(GrpcStop)]
    BY Zenon, <2>1, <2>2, ConcatProperties
  <2> HIDE DEF all
  <2>5. \A n \in 1..6 : all[n] = IF n <= 4 THEN GrpcStop[n] ELSE HttpStop[n - 4]
    BY <2>1, <2>2, <2>4
  <2>6. \A n \in 1..6 : all[n] = BothFromClose[n] BY <2>5 DEF HttpStop, GrpcStop, BothFromClose
  <2>7. Len(all) = Len(BothFromClose) /\ \A n \in 1..Len(all) : all[n] = BothFromClose[n]
    BY <2>1, <2>2, <2>3, <2>4, <2>6
  <2>8. all = BothFromClose BY Zenon, <2>3, <2>4, <2>7, SeqEqual
  <2> QED BY Zenon, <2>8 DEF all
<1> QED BY Zenon, <1>1 DEF StopSteps, HttpStop, GrpcStop, FromShutdown, FromClose, OnlyCleanup

(* The service that is being stopped, and what follows its step. *)
LEMMA Advance ==
    ASSUME StopPlaced, NEW step, AtStep(step), StopProceeds, UNCHANGED <<toStop, once>>
    PROVE  /\ toStop + 1 \in I /\ StopPlaced' /\ NextStep = step /\ once # "no"
           /\ step = "close" => NextStep' = "revoke"
           /\ step = "revoke" => NextStep' = "gracefulStop"
           /\ step = "gracefulStop" => NextStep' = "wait"
           /\ step = "wait" => ~IsHttp(toStop + 1) \/ NextStep' = "shutdown"
           /\ step = "shutdown" => IsHttp(toStop + 1) /\ NextStep' = "drain"
           /\ step \in {"close", "revoke", "gracefulStop", "wait"} => IsGrpc(toStop + 1)
           /\ step \in {"shutdown", "drain", "cleanup"} => NextStep' \in {"drain", "none"}
           /\ step = "cleanup" => Services[toStop + 1] = "cleanup"
<1> DEFINE k == Services[toStop + 1]
<1>1. /\ stopping # <<>> /\ Head(stopping) = step /\ stopping' = Tail(stopping)
      /\ toStop < Len(Services) /\ toStop \in Nat /\ once # "no" /\ once # "done" /\ NextStep = step
  BY GroupConstants DEF StopPlaced, AtStep, StopProceeds, NextStep
<1>2. toStop + 1 \in I
  BY <1>1, GroupConstants DEF I
<1>11. NextStep' = IF Tail(stopping) = <<>> THEN "none" ELSE Head(Tail(stopping))
  BY Zenon, <1>1 DEF NextStep
<1>3. /\ stopping = FromClose => step = "close" /\ NextStep' = "revoke"
      /\ stopping = BothFromClose => step = "close" /\ NextStep' = "revoke"
      /\ stopping = FromRevoke => step = "revoke" /\ NextStep' = "gracefulStop"
      /\ stopping = BothFromRevoke => step = "revoke" /\ NextStep' = "gracefulStop"
  <2>1. stopping = FromClose => step = "close" /\ NextStep' = "revoke" BY Zenon, <1>1, <1>11, StopHeads
  <2>2. stopping = BothFromClose => step = "close" /\ NextStep' = "revoke" BY Zenon, <1>1, <1>11, StopHeads
  <2>3. stopping = FromRevoke => step = "revoke" /\ NextStep' = "gracefulStop" BY Zenon, <1>1, <1>11, StopHeads
  <2>4. stopping = BothFromRevoke => step = "revoke" /\ NextStep' = "gracefulStop" BY Zenon, <1>1, <1>11, StopHeads
  <2> QED BY Zenon, <2>1, <2>2, <2>3, <2>4
<1>4. /\ stopping = FromGraceful => step = "gracefulStop" /\ NextStep' = "wait"
      /\ stopping = BothFromGraceful => step = "gracefulStop" /\ NextStep' = "wait"
      /\ stopping = FromWait => step = "wait" /\ NextStep' = "none"
      /\ stopping = BothFromWait => step = "wait" /\ NextStep' = "shutdown"
  <2>1. stopping = FromGraceful => step = "gracefulStop" /\ NextStep' = "wait" BY Zenon, <1>1, <1>11, StopHeads
  <2>2. stopping = BothFromGraceful => step = "gracefulStop" /\ NextStep' = "wait" BY Zenon, <1>1, <1>11, StopHeads
  <2>3. stopping = FromWait => step = "wait" /\ NextStep' = "none" BY Zenon, <1>1, <1>11, StopHeads
  <2>4. stopping = BothFromWait => step = "wait" /\ NextStep' = "shutdown" BY Zenon, <1>1, <1>11, StopHeads
  <2> QED BY Zenon, <2>1, <2>2, <2>3, <2>4
<1>5. /\ stopping = FromShutdown => step = "shutdown" /\ NextStep' = "drain"
      /\ stopping = FromDrain => step = "drain" /\ NextStep' = "none"
      /\ stopping = OnlyCleanup => step = "cleanup" /\ NextStep' = "none"
  <2>1. stopping = FromShutdown => step = "shutdown" /\ NextStep' = "drain" BY Zenon, <1>1, <1>11, StopHeads
  <2>2. stopping = FromDrain => step = "drain" /\ NextStep' = "none" BY Zenon, <1>1, <1>11, StopHeads
  <2>3. stopping = OnlyCleanup => step = "cleanup" /\ NextStep' = "none" BY Zenon, <1>1, <1>11, StopHeads
  <2> QED BY Zenon, <2>1, <2>2, <2>3
<1>6. CASE k = "http" /\ stopping \in HttpStopLists
  <2>1. IsHttp(toStop + 1) BY Zenon, <1>6 DEF IsHttp
  <2>2. stopping' \in HttpStopLists \cup {<<>>} BY Zenon, <1>1, <1>6, StopHeads DEF HttpStopLists
  <2>3. StopPlaced' BY Zenon, <1>1, <1>6, <2>2 DEF StopPlaced
  <2> QED BY Zenon, <1>1, <1>2, <1>5, <1>6, <2>1, <2>3 DEF HttpStopLists
<1>7. CASE k = "grpc" /\ stopping \in GrpcStopLists
  <2>1. IsGrpc(toStop + 1) /\ ~IsHttp(toStop + 1) BY Zenon, <1>7 DEF IsHttp, IsGrpc
  <2>2. stopping' \in GrpcStopLists \cup {<<>>} BY Zenon, <1>1, <1>7, StopHeads DEF GrpcStopLists
  <2>3. StopPlaced' BY Zenon, <1>1, <1>7, <2>2 DEF StopPlaced
  <2> QED BY Zenon, <1>1, <1>2, <1>3, <1>4, <1>7, <2>1, <2>3 DEF GrpcStopLists
<1>8. CASE k = "multi" /\ stopping \in BothStopLists
  <2>1. IsHttp(toStop + 1) /\ IsGrpc(toStop + 1) BY Zenon, <1>8 DEF IsHttp, IsGrpc
  <2>2. stopping' \in BothStopLists \cup HttpStopLists
    BY Zenon, <1>1, <1>8, StopHeads DEF BothStopLists, HttpStopLists
  <2>3. StopPlaced' BY Zenon, <1>1, <1>8, <2>2 DEF StopPlaced
  <2> QED BY Zenon, <1>1, <1>2, <1>3, <1>4, <1>8, <2>1, <2>3 DEF BothStopLists
<1>9. CASE k = "multi" /\ stopping \in HttpStopLists
  <2>1. IsHttp(toStop + 1) BY Zenon, <1>9 DEF IsHttp
  <2>2. stopping' \in HttpStopLists \cup {<<>>} BY Zenon, <1>1, <1>9, StopHeads DEF HttpStopLists
  <2>3. StopPlaced' BY Zenon, <1>1, <1>9, <2>2 DEF StopPlaced
  <2> QED BY Zenon, <1>1, <1>2, <1>5, <1>9, <2>1, <2>3 DEF HttpStopLists
<1>10. CASE k = "cleanup" /\ stopping = OnlyCleanup
  <2>1. stopping' = <<>> BY Zenon, <1>1, <1>10, StopHeads
  <2>2. StopPlaced' BY Zenon, <1>1, <2>1 DEF StopPlaced
  <2> QED BY Zenon, <1>1, <1>2, <1>5, <1>10, <2>2
<1> QED
  BY Zenon, <1>1, <1>6, <1>7, <1>8, <1>9, <1>10 DEF StopPlaced

(* Where a start goroutine is when its next step has a given name. *)
LEMMA Where ==
    ASSUME StartPlaced, NEW i \in I, NEW step, At(i, step), step # "unspawned"
    PROVE  /\ main # "new"
           /\ step = "http" => starting[i] \in BeforeHttp
           /\ step = "listen" => starting[i] = ToListen
           /\ step = "registry" => starting[i] = ToRegistry
           /\ step = "info" => starting[i] = ToInfo
           /\ step = "grant" => starting[i] = ToGrant
           /\ step = "put" => starting[i] = ToPut
           /\ step = "keepAlive" => starting[i] = ToKeepAlive
           /\ step = "serve" => starting[i] = ToServe
<1>1. main # "new"
  BY Zenon, Heads DEF StartPlaced, At
<1>2. starting[i] \in BeforeHttp \cup BeforeServe
  BY Zenon, <1>1, Heads DEF StartPlaced, At
<1> QED
  BY Zenon, <1>1, <1>2, Heads DEF At, BeforeHttp, BeforeServe, GrpcLists

(* The places of a start goroutine that are not before its Serve. *)
LEMMA NotBeforeHttp ==
    /\ GrpcLists \cap BeforeHttp = {} /\ Ended \notin BeforeHttp \cup BeforeServe
    /\ OnlyHttp \notin BeforeServe
<1>1. ToHttp # OnlyHttp BY Zenon DEF ToHttp, OnlyHttp
<1> QED BY <1>1, Heads DEF GrpcLists, BeforeHttp, BeforeServe

(* A step of a start goroutine.  Nothing but its own list changes there,   *)
(* and a server is set up or registered only from where it had not been.   *)
StartEffect(i) ==
    /\ UNCHANGED <<main, stopCall, once, toStop, stopping, early, shutdown, httpReq, timedOut,
                   grpcStop, rpc, cleaned>>
    /\ \E steps \in GrpcLists \cup {Ended} :
          /\ starting' = [starting EXCEPT ![i] = steps]
          /\ steps \in GrpcLists => starting[i] \in BeforeServe
    /\ \/ UNCHANGED <<server, httpServe>> /\ starting[i] \notin BeforeHttp
       \/ starting[i] \in BeforeHttp /\ server' = TRUE
    /\ starting[i] \in BeforeServe \/ UNCHANGED <<grpcServe, keepAlive>>
    /\ registry # "nil" => registry' # "nil"
    /\ keepAlive' => keepAlive \/ registry' # "nil"

(* Where a step takes a start goroutine, and what it leaves alone. *)
LEMMA StartMoves ==
    ASSUME StartPlaced, NEW i \in I, StartStep(i)
    PROVE  main # "new" /\ StartEffect(i)
<1> USE DEF Proceed, SkipToServe, groupVars, httpVars, grpcVars, etcdVars
<1>1. CASE HttpStartup(i)
  <2>1. main # "new" /\ starting[i] \in BeforeHttp BY Zenon, <1>1, Where DEF HttpStartup
  <2>2. /\ Tail(starting[i]) \in GrpcLists \cup {Ended}
        /\ Tail(starting[i]) \in GrpcLists => starting[i] \in BeforeServe
    <3>1. CASE starting[i] = ToHttp
      BY Zenon, <3>1, Heads DEF BeforeServe, GrpcLists
    <3>2. CASE starting[i] = OnlyHttp
      BY Zenon, <3>2, Heads, NotBeforeHttp DEF BeforeServe
    <3> QED BY Zenon, <2>1, <3>1, <3>2 DEF BeforeHttp
  <2>3. \E steps \in GrpcLists \cup {Ended} :
           /\ starting' = [starting EXCEPT ![i] = steps]
           /\ steps \in GrpcLists => starting[i] \in BeforeServe
    BY Zenon, <1>1, <2>2 DEF HttpStartup
  <2> QED BY Zenon, <1>1, <2>1, <2>3 DEF HttpStartup, StartEffect
<1>2. CASE Listen(i)
  <2>1. main # "new" /\ starting[i] = ToListen BY Zenon, <1>2, Where DEF Listen
  <2>2. \E steps \in {ToRegistry, Ended} : starting' = [starting EXCEPT ![i] = steps]
    BY Zenon, <1>2, <2>1, Heads DEF Listen
  <2> QED BY Zenon, <1>2, <2>1, <2>2, NotBeforeHttp DEF Listen, StartEffect, BeforeServe, GrpcLists
<1>3. CASE NewRegistry(i)
  <2>1. main # "new" /\ starting[i] = ToRegistry BY Zenon, <1>3, Where DEF NewRegistry
  <2>2. \E steps \in {ToInfo, ToServe} : starting' = [starting EXCEPT ![i] = steps]
    BY Zenon, <1>3, <2>1, Heads DEF NewRegistry, ToServe
  <2> QED BY Zenon, <1>3, <2>1, <2>2, NotBeforeHttp DEF NewRegistry, StartEffect, BeforeServe, GrpcLists
<1>4. CASE SetInfo(i)
  <2>1. main # "new" /\ starting[i] = ToInfo BY Zenon, <1>4, Where DEF SetInfo
  <2>2. starting' = [starting EXCEPT ![i] = ToGrant] BY Zenon, <1>4, <2>1, Heads DEF SetInfo
  <2> QED BY Zenon, <1>4, <2>1, <2>2, NotBeforeHttp DEF SetInfo, StartEffect, BeforeServe, GrpcLists
<1>5. CASE Grant(i)
  <2>1. main # "new" /\ starting[i] = ToGrant BY Zenon, <1>5, Where DEF Grant
  <2>2. starting' = [starting EXCEPT ![i] = ToPut] BY Zenon, <1>5, <2>1, Heads DEF Grant
  <2> QED BY Zenon, <1>5, <2>1, <2>2, NotBeforeHttp DEF Grant, StartEffect, BeforeServe, GrpcLists
<1>6. CASE PutKey(i)
  <2>1. main # "new" /\ starting[i] = ToPut BY Zenon, <1>6, Where DEF PutKey
  <2>2. starting' = [starting EXCEPT ![i] = ToKeepAlive] BY Zenon, <1>6, <2>1, Heads DEF PutKey
  <2> QED BY Zenon, <1>6, <2>1, <2>2, NotBeforeHttp DEF PutKey, StartEffect, BeforeServe, GrpcLists
<1>7. CASE KeepAlive(i)
  <2>1. main # "new" /\ starting[i] = ToKeepAlive BY Zenon, <1>7, Where DEF KeepAlive
  <2>2. starting' = [starting EXCEPT ![i] = ToServe] BY Zenon, <1>7, <2>1, Heads DEF KeepAlive
  <2> QED BY Zenon, <1>7, <2>1, <2>2, NotBeforeHttp DEF KeepAlive, StartEffect, BeforeServe, GrpcLists
<1>8. CASE RequestFails(i)
  <2>1. main # "new" /\ starting[i] \in {ToGrant, ToPut, ToKeepAlive}
    BY Zenon, <1>8, Where DEF RequestFails
  <2>2. starting' = [starting EXCEPT ![i] = ToServe] BY Zenon, <1>8 DEF RequestFails, ToServe
  <2> QED BY Zenon, <1>8, <2>1, <2>2, NotBeforeHttp DEF RequestFails, StartEffect, BeforeServe, GrpcLists
<1>9. CASE Serve(i)
  <2>1. main # "new" /\ starting[i] = ToServe BY Zenon, <1>9, Where DEF Serve
  <2>2. starting' = [starting EXCEPT ![i] = Ended] BY Zenon, <1>9, <2>1, Heads DEF Serve
  <2> QED BY Zenon, <1>9, <2>1, <2>2, NotBeforeHttp DEF Serve, StartEffect, BeforeServe, GrpcLists
<1> QED
  BY Zenon, <1>1, <1>2, <1>3, <1>4, <1>5, <1>6, <1>7, <1>8, <1>9 DEF StartStep

(* What the steps that are past depend on. *)
LEMMA SamePast ==
    ASSUME UNCHANGED <<toStop, stopping>>, NEW i, NEW steps
    PROVE  Past(i, steps)' <=> Past(i, steps)
BY Zenon DEF Past, NextStep

(* A start goroutine undoes nothing of what Stop has done. *)
LEMMA StartKeepsStops ==
    ASSUME Stops, NEW i \in I, StartStep(i)
    PROVE  Stops'
<1>1. main # "new" /\ StartEffect(i) BY Zenon, StartMoves DEF Stops
<1>2. PICK steps \in GrpcLists \cup {Ended} :
          /\ starting' = [starting EXCEPT ![i] = steps]
          /\ steps \in GrpcLists => starting[i] \in BeforeServe
  BY Zenon, <1>1 DEF StartEffect
<1>3. /\ starting' = [j \in I |-> starting'[j]] /\ starting'[i] = steps
      /\ \A j \in I \ {i} : starting'[j] = starting[j]
  BY Zenon, <1>2 DEF Stops, StartPlaced
<1>4. steps \notin BeforeHttp /\ (steps \in BeforeServe => starting[i] \in BeforeServe)
  BY Zenon, <1>2, NotBeforeHttp DEF BeforeServe, BeforeHttp
<1>5. StartPlaced'
  <2>1. \A j \in I : /\ starting'[j] \in BeforeHttp \cup BeforeServe \cup {Ended}
                     /\ starting'[j] \in BeforeHttp => IsHttp(j)
                     /\ starting'[j] \in BeforeServe => IsGrpc(j)
    BY Zenon, <1>1, <1>2, <1>3, <1>4 DEF Stops, StartPlaced, BeforeServe
  <2> QED BY Zenon, <1>1, <1>3, <2>1 DEF StartPlaced, StartEffect, IsHttp, IsGrpc
<1>6. StopPlaced'
  BY Zenon, <1>1 DEF Stops, StopPlaced, StartEffect
<1>7. /\ starting[i] \in BeforeServe => IsGrpc(i)
      /\ starting[i] \in BeforeHttp => IsHttp(i)
  BY Zenon, <1>1 DEF Stops, StartPlaced
<1>8. Served'
  BY <1>1, <1>3, <1>7 DEF Stops, Served, StartEffect, IsHttp, IsGrpc
<1>9. HttpDown'
  <2>1. once' = once /\ early' = early /\ UNCHANGED <<toStop, stopping, shutdown, httpReq, timedOut>>
    BY Zenon, <1>1 DEF StartEffect
  <2>2. starting[i] \notin BeforeHttp => UNCHANGED httpServe
    BY Zenon, <1>1 DEF StartEffect
  <2> QED BY Zenon, <1>3, <1>4, <2>1, <2>2, SamePast DEF Stops, HttpDown, IsHttp
<1>10. GrpcDown'
  <2>1. once' = once /\ early' = early /\ UNCHANGED <<toStop, stopping, grpcStop, rpc>>
    BY Zenon, <1>1 DEF StartEffect
  <2>2. starting[i] \notin BeforeServe => UNCHANGED <<grpcServe, keepAlive>>
    BY Zenon, <1>1 DEF StartEffect
  <2>3. \A j \in I : Past(j, UpToRevoke) \/ Past(j, UpToGraceful) => Past(j, {"close"})
    BY Zenon DEF Past, UpToRevoke, UpToGraceful
  <2> QED BY Zenon, <1>3, <1>4, <2>1, <2>2, <2>3, SamePast DEF Stops, GrpcDown, IsGrpc
<1> QED
  BY Zenon, <1>5, <1>6, <1>8, <1>9, <1>10 DEF Stops

(* A step that leaves the loop of Stop, Startup and the servers alone. *)
Quiet ==
    UNCHANGED <<starting, toStop, stopping, early, httpVars, grpcVars, registry, keepAlive>>

(* A step that touches neither servers nor loops keeps Stops. *)
LEMMA QuietKeeps ==
    ASSUME Stops, Quiet, UNCHANGED once, (main = "new") <=> (main' = "new"),
           main' = "new" => UNCHANGED stopCall
    PROVE  Stops'
<1> USE DEF Quiet, Stops, httpVars, grpcVars
<1>1. StartPlaced' BY Zenon DEF StartPlaced, IsHttp, IsGrpc
<1>2. StopPlaced' BY Zenon DEF StopPlaced
<1>3. Served' BY Zenon DEF Served, IsHttp, IsGrpc
<1>4. HttpDown' BY Zenon, SamePast DEF HttpDown, IsHttp
<1>5. GrpcDown' BY Zenon, SamePast DEF GrpcDown, IsGrpc
<1> QED BY Zenon, <1>1, <1>2, <1>3, <1>4, <1>5

(* Before Start nothing has been started or stopped. *)
LEMMA StopsInit == Init => Stops
BY DEF Init, Stops, StartPlaced, StopPlaced, Served, HttpDown, GrpcDown, Unspawned

(* The main goroutine, the signal and the callers of Stop keep Stops. *)
LEMMA GroupKeepsStops ==
    ASSUME Stops, GroupStep
    PROVE  Stops'
<1> USE GroupConstants
<1>1. CASE Start
  <2>1. /\ main = "new" /\ main' # "new" /\ once = "no"
        /\ starting' = [i \in I |-> StartSteps[Services[i]]]
        /\ UNCHANGED <<once, toStop, stopping, early, server, httpServe, shutdown, httpReq, timedOut,
                       grpcServe, grpcStop, rpc, registry, keepAlive>>
    BY Zenon, <1>1 DEF Start, httpVars, grpcVars, etcdVars, Stops, StartPlaced
  <2>2. \A i \in I : /\ starting'[i] \in BeforeHttp \cup BeforeServe \cup {Ended}
                     /\ starting'[i] \in BeforeHttp <=> IsHttp(i)
                     /\ starting'[i] \in BeforeServe => IsGrpc(i)
    <3> SUFFICES ASSUME NEW i \in I
                 PROVE  /\ starting'[i] \in BeforeHttp \cup BeforeServe \cup {Ended}
                        /\ starting'[i] \in BeforeHttp <=> IsHttp(i)
                        /\ starting'[i] \in BeforeServe => IsGrpc(i)
      BY Zenon
    <3>1. starting'[i] = StartSteps[Services[i]] BY Zenon, <2>1
    <3>2. CASE Services[i] = "http"
      BY Zenon, <3>1, <3>2, StartListOf, NotBeforeHttp DEF BeforeHttp, IsHttp
    <3>3. CASE Services[i] = "grpc"
      BY Zenon, <3>1, <3>3, StartListOf, NotBeforeHttp DEF BeforeServe, GrpcLists, IsHttp, IsGrpc
    <3>4. CASE Services[i] = "multi"
      BY Zenon, <3>1, <3>4, StartListOf DEF BeforeHttp, IsHttp, IsGrpc
    <3>5. CASE Services[i] = "cleanup"
      BY Zenon, <3>1, <3>5, StartListOf, NotBeforeHttp DEF IsHttp
    <3> QED BY Zenon, <3>2, <3>3, <3>4, <3>5, StartListOf
  <2>3. StartPlaced' BY Zenon, <2>1, <2>2 DEF StartPlaced, IsHttp, IsGrpc
  <2>4. StopPlaced' BY Zenon, <2>1 DEF Stops, StopPlaced
  <2>5. Served' BY Zenon, <2>1, <2>2 DEF Stops, Served, IsHttp, IsGrpc
  <2> QED BY Zenon, <2>1, <2>3, <2>4, <2>5 DEF Stops, HttpDown, GrpcDown
<1>2. CASE SignalOrStopCh \/ CallStop
  <2>1. Quiet /\ UNCHANGED once BY Zenon, <1>2 DEF SignalOrStopCh, CallStop, Quiet, etcdVars
  <2>2. main # "new" /\ main' # "new" BY Zenon, <1>2 DEF SignalOrStopCh, CallStop
  <2> QED BY Zenon, <2>1, <2>2, QuietKeeps
<1>3. ASSUME NEW caller \in {"main", "stopCall"}, OnceBegins(caller) PROVE Stops'
  <2>1. /\ once = "no" /\ once' = caller /\ toStop' = Len(Services) /\ main # "new"
        /\ UNCHANGED <<main, stopCall, starting, stopping, early, server, httpServe, shutdown, httpReq,
                       timedOut, grpcServe, grpcStop, rpc, registry, keepAlive>>
    BY Zenon, <1>3 DEF OnceBegins, AtStop, httpVars, grpcVars, etcdVars, Stops, StartPlaced
  <2>2. \A i \in I : \A steps : ~Past(i, steps)'
    BY <2>1 DEF Past, I
  <2>3. StartPlaced' BY Zenon, <2>1 DEF Stops, StartPlaced, IsHttp, IsGrpc
  <2>4. StopPlaced' BY <2>1 DEF Stops, StopPlaced
  <2>5. Served' BY Zenon, <2>1 DEF Stops, Served, IsHttp, IsGrpc
  <2>6. HttpDown' /\ GrpcDown' BY Zenon, <2>2 DEF HttpDown, GrpcDown
  <2> QED BY Zenon, <2>3, <2>4, <2>5, <2>6 DEF Stops
<1>4. ASSUME NEW caller \in {"main", "stopCall"}, OnceEnds(caller) PROVE Stops'
  <2>1. /\ once # "no" /\ once' = "done" /\ main # "new" /\ main' # "new"
        /\ toStop = 0 /\ stopping = <<>>
        /\ UNCHANGED <<toStop, starting, stopping, early, server, httpServe, shutdown, httpReq,
                       timedOut, grpcServe, grpcStop, rpc, registry, keepAlive>>
    BY Zenon, <1>4 DEF OnceEnds, AtStop, httpVars, grpcVars, etcdVars, Stops, StartPlaced, StopPlaced
  <2>2. StartPlaced' BY Zenon, <2>1 DEF Stops, StartPlaced, IsHttp, IsGrpc
  <2>3. StopPlaced' BY Zenon, <2>1 DEF Stops, StopPlaced
  <2>4. Served' BY Zenon, <2>1 DEF Stops, Served, IsHttp, IsGrpc
  <2>5. HttpDown' BY Zenon, <2>1, SamePast DEF Stops, HttpDown, IsHttp
  <2>6. GrpcDown' BY Zenon, <2>1, SamePast DEF Stops, GrpcDown, IsGrpc
  <2> QED BY Zenon, <2>2, <2>3, <2>4, <2>5, <2>6 DEF Stops
<1> QED BY Zenon, <1>1, <1>2, <1>3, <1>4 DEF GroupStep

(* A list that still has to come to "http" or to "serve" shows it. *)
LEMMA Unstarted ==
    ASSUME NEW j \in I
    PROVE  /\ starting[j] \in BeforeHttp => NotStarted("http")
           /\ starting[j] \in BeforeServe => NotStarted("serve")
<1>1. \A l \in BeforeHttp : 1 \in 1 .. Len(l) /\ l[1] = "http"
  BY DEF BeforeHttp, ToHttp, OnlyHttp
<1>2. /\ Len(ToHttp) = 8 /\ ToHttp[8] = "serve" /\ Len(ToListen) = 7 /\ ToListen[7] = "serve"
      /\ Len(ToRegistry) = 6 /\ ToRegistry[6] = "serve" /\ Len(ToInfo) = 5 /\ ToInfo[5] = "serve"
  BY Zenon DEF ToHttp, ToListen, ToRegistry, ToInfo
<1>3. /\ Len(ToGrant) = 4 /\ ToGrant[4] = "serve" /\ Len(ToPut) = 3 /\ ToPut[3] = "serve"
      /\ Len(ToKeepAlive) = 2 /\ ToKeepAlive[2] = "serve" /\ Len(ToServe) = 1 /\ ToServe[1] = "serve"
  BY Zenon DEF ToGrant, ToPut, ToKeepAlive, ToServe
<1>4. \A l \in BeforeServe : \E n \in 1 .. Len(l) : l[n] = "serve"
  <2>1. \E n \in 1 .. Len(ToHttp) : ToHttp[n] = "serve" BY <1>2
  <2>2. \E n \in 1 .. Len(ToListen) : ToListen[n] = "serve" BY <1>2
  <2>3. \E n \in 1 .. Len(ToRegistry) : ToRegistry[n] = "serve" BY <1>2
  <2>4. \E n \in 1 .. Len(ToInfo) : ToInfo[n] = "serve" BY <1>2
  <2>5. \E n \in 1 .. Len(ToGrant) : ToGrant[n] = "serve" BY <1>3
  <2>6. \E n \in 1 .. Len(ToPut) : ToPut[n] = "serve" BY <1>3
  <2>7. \E n \in 1 .. Len(ToKeepAlive) : ToKeepAlive[n] = "serve" BY <1>3
  <2>8. \E n \in 1 .. Len(ToServe) : ToServe[n] = "serve" BY <1>3
  <2> QED
    BY Zenon, <2>1, <2>2, <2>3, <2>4, <2>5, <2>6, <2>7, <2>8 DEF BeforeServe, GrpcLists
<1> QED
  BY Zenon, <1>1, <1>4 DEF NotStarted

(* What becomes past with a step is the step itself. *)
LEMMA NewlyPast ==
    ASSUME UNCHANGED toStop, NEW i \in I, NEW steps, Past(i, steps)'
    PROVE  Past(i, steps) \/ (i = toStop + 1 /\ NextStep \in steps /\ NextStep' \notin steps)
BY Zenon DEF Past

(* Shutdown is called on an HTTP server, in the run of the Once. *)
LEMMA AtShutdown ==
    ASSUME StopPlaced, AtStep("shutdown")
    PROVE  /\ stopping = FromShutdown /\ once \notin {"no", "done"}
           /\ toStop + 1 \in I /\ IsHttp(toStop + 1)
<1>1. /\ stopping # <<>> /\ Head(stopping) = "shutdown" /\ toStop \in Nat
      /\ toStop < Len(Services) /\ once \notin {"no", "done"}
  BY GroupConstants DEF StopPlaced, AtStep
<1>2. stopping = FromShutdown /\ Services[toStop + 1] \in {"http", "multi"}
  BY Zenon, <1>1, StopHeads DEF StopPlaced, HttpStopLists, GrpcStopLists, BothStopLists
<1> QED
  BY <1>1, <1>2, GroupConstants DEF I, IsHttp

(* The loop of Stop goes to the next service, the last one being down. *)
LEMMA NextServiceKeeps ==
    ASSUME Stops, NextService
    PROVE  Stops'
<1>1. /\ toStop \in Nat /\ toStop > 0 /\ toStop <= Len(Services) /\ toStop' = toStop - 1
      /\ stopping = <<>> /\ stopping' = StopSteps[Services[toStop]] /\ once \notin {"no", "done"}
      /\ UNCHANGED <<main, stopCall, once, starting, early, server, httpServe, shutdown, httpReq,
                     timedOut, grpcServe, grpcStop, rpc, registry, keepAlive>>
  BY GroupConstants DEF NextService, Stops, StopPlaced, httpVars, grpcVars, etcdVars
<1>2. toStop \in I
  BY <1>1, GroupConstants DEF I
<1>3. StopPlaced'
  <2>1. toStop' + 1 = toStop /\ toStop' \in 0 .. Len(Services) /\ toStop' < Len(Services)
    BY <1>1, GroupConstants
  <2>2. \/ Services[toStop] = "http" /\ stopping' = FromShutdown
        \/ Services[toStop] = "grpc" /\ stopping' = FromClose
        \/ Services[toStop] = "multi" /\ stopping' = BothFromClose
        \/ Services[toStop] = "cleanup" /\ stopping' = OnlyCleanup
    BY Zenon, <1>1, <1>2, StartListOf, StopLists
  <2> QED
    BY Zenon, <1>1, <2>1, <2>2 DEF StopPlaced, HttpStopLists, GrpcStopLists, BothStopLists
<1>4. /\ IsGrpc(toStop) => NextStep' = "close"
      /\ IsHttp(toStop) => NextStep' \in {"close", "shutdown"}
  <2>1. NextStep' = Head(stopping') \/ stopping' = <<>> BY Zenon DEF NextStep
  <2>2. CASE Services[toStop] = "http"
    <3>1. stopping' = FromShutdown BY Zenon, <1>1, <2>2, StopLists
    <3>2. NextStep' = "shutdown" BY Zenon, <2>1, <3>1, StopHeads
    <3> QED BY Zenon, <2>2, <3>2 DEF IsGrpc
  <2>3. CASE Services[toStop] = "grpc"
    <3>1. stopping' = FromClose BY Zenon, <1>1, <2>3, StopLists
    <3>2. NextStep' = "close" BY Zenon, <2>1, <3>1, StopHeads
    <3> QED BY Zenon, <3>2
  <2>4. CASE Services[toStop] = "multi"
    <3>1. stopping' = BothFromClose BY Zenon, <1>1, <2>4, StopLists
    <3>2. NextStep' = "close" BY Zenon, <2>1, <3>1, StopHeads
    <3> QED BY Zenon, <3>2
  <2> QED BY Zenon, <2>2, <2>3, <2>4 DEF IsHttp, IsGrpc
<1>5. ASSUME NEW i \in I, NEW steps, "none" \notin steps, Past(i, steps)'
      PROVE  Past(i, steps) \/ (i = toStop /\ NextStep' \notin steps)
  <2>1. i \in Nat BY GroupConstants DEF I
  <2>2. i > toStop \/ (i = toStop /\ NextStep' \notin steps)
    BY <1>1, <1>5, <2>1 DEF Past
  <2>3. NextStep = "none" BY Zenon, <1>1 DEF NextStep
  <2> QED BY <1>1, <1>5, <2>1, <2>2, <2>3 DEF Past
<1>6. StartPlaced' BY Zenon, <1>1 DEF Stops, StartPlaced, IsHttp, IsGrpc
<1>7. Served' BY Zenon, <1>1 DEF Stops, Served, IsHttp, IsGrpc
<1>8. HttpDown'
  <2>1. \A i \in I : IsHttp(i) => /\ Past(i, UpToShutdown)' => Past(i, UpToShutdown)
                                  /\ Past(i, UpToDrain)' => Past(i, UpToDrain)
    BY Zenon, <1>4, <1>5 DEF UpToDrain, UpToShutdown, UpToWait, UpToGraceful, UpToRevoke
  <2> QED BY Zenon, <1>1, <2>1 DEF Stops, HttpDown, IsHttp
<1>9. GrpcDown'
  <2>1. \A i \in I : IsGrpc(i) => /\ Past(i, {"close"})' => Past(i, {"close"})
                                  /\ Past(i, UpToRevoke)' => Past(i, UpToRevoke)
                                  /\ Past(i, UpToGraceful)' => Past(i, UpToGraceful)
                                  /\ Past(i, UpToWait)' => Past(i, UpToWait)
    BY Zenon, <1>4, <1>5 DEF UpToWait, UpToGraceful, UpToRevoke
  <2> QED BY Zenon, <1>1, <2>1 DEF Stops, GrpcDown, IsGrpc
<1> QED
  BY Zenon, <1>3, <1>6, <1>7, <1>8, <1>9 DEF Stops

(* The steps of one server leave what is known of the other one. *)
LEMMA HttpKept ==
    ASSUME Stops, NEW step \in UpToWait \cup {"cleanup"}, AtStep(step), StopProceeds, early => early',
           UNCHANGED <<toStop, once, starting, shutdown, httpServe, httpReq, timedOut>>
    PROVE  HttpDown'
<1>1. StopPlaced BY Zenon DEF Stops
<1>2. NextStep = step /\ once # "no" /\ (step = "cleanup" \/ NextStep' \in UpToShutdown \/ ~IsHttp(toStop + 1))
  BY Zenon, <1>1, Advance DEF UpToShutdown, UpToWait, UpToGraceful, UpToRevoke
<1>3. \A i \in I : IsHttp(i) => /\ Past(i, UpToShutdown)' => Past(i, UpToShutdown)
                                /\ Past(i, UpToDrain)' => Past(i, UpToDrain)
  BY Zenon, <1>2, NewlyPast DEF UpToDrain, UpToShutdown, UpToWait, UpToGraceful, UpToRevoke
<1> QED
  BY Zenon, <1>3 DEF Stops, HttpDown, IsHttp

(* A step of Stop on another server leaves the gRPC server as it is. *)
LEMMA GrpcKept ==
    ASSUME Stops, NEW step \in {"shutdown", "drain", "cleanup"}, AtStep(step), StopProceeds,
           early => early',
           UNCHANGED <<toStop, once, starting, grpcServe, grpcStop, rpc, keepAlive>>
    PROVE  GrpcDown'
<1>1. NextStep = step BY Zenon, Advance DEF Stops
<1>2. \A i \in I : /\ Past(i, {"close"})' => Past(i, {"close"})
                   /\ Past(i, UpToRevoke)' => Past(i, UpToRevoke)
                   /\ Past(i, UpToGraceful)' => Past(i, UpToGraceful)
                   /\ Past(i, UpToWait)' => Past(i, UpToWait)
  BY Zenon, <1>1, NewlyPast DEF UpToWait, UpToGraceful, UpToRevoke
<1> QED
  BY Zenon, <1>2 DEF Stops, GrpcDown, IsGrpc

(* What becomes past with each step of GrpcServer.Stop. *)
LEMMA GrpcPast ==
    ASSUME Stops, NEW step \in UpToWait, AtStep(step), StopProceeds, UNCHANGED <<toStop, once>>,
           NEW i \in I
    PROVE  /\ Past(i, {"close"})' => Past(i, {"close"}) \/ step = "close"
           /\ Past(i, UpToRevoke)' => Past(i, UpToRevoke) \/ step = "revoke"
           /\ Past(i, UpToGraceful)' => Past(i, UpToGraceful) \/ step = "gracefulStop"
           /\ Past(i, UpToWait)' => Past(i, UpToWait) \/ step = "wait"
<1>1. /\ NextStep = step
      /\ step = "close" => NextStep' = "revoke"
      /\ step = "revoke" => NextStep' = "gracefulStop"
      /\ step = "gracefulStop" => NextStep' = "wait"
  BY Zenon, Advance DEF Stops, UpToWait, UpToGraceful, UpToRevoke
<1> QED
  BY <1>1, NewlyPast DEF UpToWait, UpToGraceful, UpToRevoke

(* The steps of Stop on a gRPC server. *)
LEMMA GrpcSteps == {"close", "revoke", "gracefulStop", "wait"} \subseteq UpToWait
BY Zenon DEF UpToWait, UpToGraceful, UpToRevoke

(* Every step of Stop leaves behind for good what it has shut down. *)
LEMMA StopKeepsStops ==
    ASSUME Stops, StopStep
    PROVE  Stops'
<1> USE DEF groupVars, httpVars, grpcVars, etcdVars
<1>1. CASE NextService
  BY Zenon, <1>1, NextServiceKeeps
<1>2. CASE Shutdown
  <2>1. /\ AtStep("shutdown") /\ early' = (early \/ NotStarted("http"))
        /\ UNCHANGED <<main, stopCall, once, toStop, starting, server, httpReq, timedOut, grpcServe,
                       grpcStop, rpc, registry, keepAlive>>
    BY Zenon, <1>2 DEF Shutdown
  <2>2. /\ stopping = FromShutdown /\ toStop + 1 \in I /\ IsHttp(toStop + 1)
        /\ once \notin {"no", "done"} /\ main # "new"
    BY Zenon, <2>1, AtShutdown DEF Stops, StartPlaced
  <2>3. StartPlaced' BY Zenon, <2>1 DEF Stops, StartPlaced, IsHttp, IsGrpc
  <2>4. Served'
    <3>1. ~(\A i \in I : ~IsHttp(i)) BY Zenon, <2>2
    <3>2. \A i \in I : IsHttp(i) /\ main' # "new" /\ starting'[i] \notin BeforeHttp => server'
      BY Zenon, <2>1 DEF Stops, Served
    <3>3. (\A i \in I : ~IsGrpc(i)) => grpcServe' = "none" /\ ~rpc' /\ ~keepAlive'
      BY Zenon, <2>1 DEF Stops, Served
    <3>4. keepAlive' => registry' # "nil" BY Zenon, <2>1 DEF Stops, Served
    <3> HIDE DEF groupVars, httpVars, grpcVars, etcdVars
    <3> QED BY Zenon, <3>1, <3>2, <3>3, <3>4 DEF Served, IsHttp, IsGrpc
  <2>5. CASE ~server
    <3>1. stopping' = Tail(Tail(stopping)) BY Zenon, <1>2, <2>5 DEF Shutdown
    <3>2. stopping' = <<>> BY Zenon, <2>2, <3>1, StopHeads
    <3>3. StopPlaced' BY Zenon, <2>1, <2>2, <3>2 DEF Stops, StopPlaced
    <3>4. early' BY Zenon, <2>1, <2>2, <2>5, Unstarted DEF Stops, Served
    <3> QED BY Zenon, <2>3, <2>4, <3>3, <3>4 DEF Stops, HttpDown, GrpcDown
  <2>6. CASE server
    <3>1. StopProceeds /\ shutdown' = TRUE /\ httpServe' # "serving" BY Zenon, <1>2, <2>6 DEF Shutdown
    <3>2. StopPlaced' /\ NextStep = "shutdown" /\ NextStep' = "drain"
      BY Zenon, <2>1, <3>1, Advance DEF Stops
    <3>3. GrpcDown' BY Zenon, <2>1, <3>1, GrpcKept
    <3>4. \A i \in I : Past(i, UpToDrain)' => Past(i, UpToDrain)
      BY Zenon, <2>1, <3>2, NewlyPast DEF UpToDrain
    <3>5. ~early' => ~early /\ \A j \in I : starting'[j] \notin BeforeHttp
      BY Zenon, <2>1, Unstarted
    <3>6. HttpDown' BY Zenon, <2>1, <2>2, <3>1, <3>4, <3>5 DEF Stops, HttpDown, IsHttp
    <3> QED BY Zenon, <2>3, <2>4, <3>2, <3>3, <3>6 DEF Stops
  <2> QED BY Zenon, <2>5, <2>6
<1>3. CASE Drain
  <2>1. /\ AtStep("drain") /\ timedOut' = httpReq /\ StopProceeds
        /\ UNCHANGED <<main, stopCall, once, toStop, starting, early, server, httpServe, shutdown, httpReq,
                       grpcServe, grpcStop, rpc, registry, keepAlive>>
    BY Zenon, <1>3 DEF Drain
  <2>2. StopPlaced' /\ NextStep = "drain" BY Zenon, <2>1, Advance DEF Stops
  <2>3. StartPlaced' BY Zenon, <2>1 DEF Stops, StartPlaced, IsHttp, IsGrpc
  <2>4. Served' BY Zenon, <2>1 DEF Stops, Served, IsHttp, IsGrpc
  <2>5. GrpcDown' BY Zenon, <2>1, GrpcKept
  <2>6. \A i \in I : Past(i, UpToShutdown)' => Past(i, UpToShutdown)
    BY Zenon, <2>1, <2>2, NewlyPast DEF UpToShutdown, UpToWait, UpToGraceful, UpToRevoke
  <2>7. HttpDown' BY Zenon, <2>1, <2>6 DEF Stops, HttpDown, IsHttp
  <2> QED BY Zenon, <2>2, <2>3, <2>4, <2>5, <2>7 DEF Stops
<1>4. CASE CloseRegistry
  <2>1. /\ AtStep("close") /\ StopProceeds /\ early' = (early \/ NotStarted("serve"))
        /\ UNCHANGED <<main, stopCall, once, toStop, starting, server, httpServe, shutdown, httpReq,
                       timedOut, grpcServe, grpcStop, rpc>>
        /\ (keepAlive' => keepAlive) /\ (registry # "nil" => registry' # "nil")
    BY Zenon, <1>4 DEF CloseRegistry
  <2>2. StopPlaced' BY Zenon, <2>1, Advance DEF Stops
  <2>3. StartPlaced' BY Zenon, <2>1 DEF Stops, StartPlaced, IsHttp, IsGrpc
  <2>4. Served' BY Zenon, <2>1 DEF Stops, Served, IsHttp, IsGrpc
  <2>5. HttpDown' BY Zenon, <2>1, HttpKept, GrpcSteps
  <2>6. ~early' => ~early /\ \A j \in I : starting'[j] \notin BeforeServe
    BY Zenon, <2>1, Unstarted
  <2>7. GrpcDown'
    BY Zenon, <2>1, <2>6, GrpcPast, GrpcSteps DEF Stops, GrpcDown, IsGrpc
  <2> QED BY Zenon, <2>2, <2>3, <2>4, <2>5, <2>7 DEF Stops
<1>5. CASE Revoke
  <2>1. /\ AtStep("revoke") /\ StopProceeds
        /\ UNCHANGED <<main, stopCall, once, toStop, starting, early, server, httpServe, shutdown, httpReq,
                       timedOut, grpcServe, grpcStop, rpc>>
        /\ (keepAlive' => keepAlive /\ registry = "nil") /\ (registry # "nil" => registry' # "nil")
    BY Zenon, <1>5 DEF Revoke
  <2>2. StopPlaced' BY Zenon, <2>1, Advance DEF Stops
  <2>3. StartPlaced' BY Zenon, <2>1 DEF Stops, StartPlaced, IsHttp, IsGrpc
  <2>4. Served' /\ ~keepAlive' BY Zenon, <2>1 DEF Stops, Served, IsHttp, IsGrpc
  <2>5. HttpDown' BY Zenon, <2>1, HttpKept, GrpcSteps
  <2>6. GrpcDown'
    BY Zenon, <2>1, <2>4, GrpcPast, GrpcSteps DEF Stops, GrpcDown, IsGrpc
  <2> QED BY Zenon, <2>2, <2>3, <2>4, <2>5, <2>6 DEF Stops
<1>6. CASE GracefulStop
  <2>1. /\ AtStep("gracefulStop") /\ StopProceeds /\ grpcStop' = TRUE /\ grpcServe' # "serving"
        /\ UNCHANGED <<main, stopCall, once, toStop, starting, early, server, httpServe, shutdown, httpReq,
                       timedOut, rpc, registry, keepAlive>>
        /\ grpcServe = "none" => grpcServe' = "none"
    BY Zenon, <1>6 DEF GracefulStop
  <2>2. StopPlaced' BY Zenon, <2>1, Advance DEF Stops
  <2>3. StartPlaced' BY Zenon, <2>1 DEF Stops, StartPlaced, IsHttp, IsGrpc
  <2>4. Served' BY Zenon, <2>1 DEF Stops, Served, IsHttp, IsGrpc
  <2>5. HttpDown' BY Zenon, <2>1, HttpKept, GrpcSteps
  <2>6. \A i \in I : /\ Past(i, {"close"})' => Past(i, {"close"})
                     /\ Past(i, UpToRevoke)' => Past(i, UpToRevoke)
                     /\ Past(i, UpToWait)' => Past(i, UpToWait)
    BY Zenon, <2>1, GrpcPast, GrpcSteps
  <2>7. GrpcDown' BY Zenon, <2>1, <2>6 DEF Stops, GrpcDown, IsGrpc
  <2> QED BY Zenon, <2>2, <2>3, <2>4, <2>5, <2>7 DEF Stops
<1>7. CASE Wait
  <2>1. /\ AtStep("wait") /\ StopProceeds /\ ~rpc
        /\ UNCHANGED <<main, stopCall, once, toStop, starting, early, server, httpServe, shutdown, httpReq,
                       timedOut, grpcServe, grpcStop, rpc, registry, keepAlive>>
    BY Zenon, <1>7 DEF Wait
  <2>2. StopPlaced' BY Zenon, <2>1, Advance DEF Stops
  <2>3. StartPlaced' BY Zenon, <2>1 DEF Stops, StartPlaced, IsHttp, IsGrpc
  <2>4. Served' BY Zenon, <2>1 DEF Stops, Served, IsHttp, IsGrpc
  <2>5. HttpDown' BY Zenon, <2>1, HttpKept, GrpcSteps
  <2>6. \A i \in I : /\ Past(i, {"close"})' => Past(i, {"close"})
                     /\ Past(i, UpToRevoke)' => Past(i, UpToRevoke)
                     /\ Past(i, UpToGraceful)' => Past(i, UpToGraceful)
    BY Zenon, <2>1, GrpcPast, GrpcSteps
  <2>7. GrpcDown' BY Zenon, <2>1, <2>6 DEF Stops, GrpcDown, IsGrpc
  <2> QED BY Zenon, <2>2, <2>3, <2>4, <2>5, <2>7 DEF Stops
<1>8. CASE Cleanup
  <2>1. /\ AtStep("cleanup") /\ StopProceeds
        /\ UNCHANGED <<main, stopCall, once, toStop, starting, early, server, httpServe, shutdown, httpReq,
                       timedOut, grpcServe, grpcStop, rpc, registry, keepAlive>>
    BY Zenon, <1>8 DEF Cleanup
  <2>2. StopPlaced' BY Zenon, <2>1, Advance DEF Stops
  <2>3. StartPlaced' BY Zenon, <2>1 DEF Stops, StartPlaced, IsHttp, IsGrpc
  <2>4. Served' BY Zenon, <2>1 DEF Stops, Served, IsHttp, IsGrpc
  <2>5. HttpDown' BY Zenon, <2>1, HttpKept
  <2>6. GrpcDown' BY Zenon, <2>1, GrpcKept
  <2> QED BY Zenon, <2>2, <2>3, <2>4, <2>5, <2>6 DEF Stops
<1> QED
  BY Zenon, <1>1, <1>2, <1>3, <1>4, <1>5, <1>6, <1>7, <1>8 DEF StopStep

(* Requests and leases that end start nothing again. *)
LEMMA EnvironmentKeepsStops ==
    ASSUME Stops, Environment
    PROVE  Stops'
<1> USE DEF groupVars, httpVars, grpcVars, etcdVars
<1>1. CASE ListenAndServe \/ HttpRequest
  <2>1. /\ UNCHANGED <<main, stopCall, once, toStop, starting, stopping, early, server, shutdown,
                       timedOut, grpcServe, grpcStop, rpc, registry, keepAlive>>
        /\ httpServe = "none" => httpServe' = "none"
        /\ httpServe' = "serving" => httpServe = "serving" \/ ~shutdown
        /\ httpReq' => httpReq \/ httpServe = "serving"
    BY <1>1 DEF ListenAndServe, HttpRequest
  <2>2. StartPlaced' BY Zenon, <2>1 DEF Stops, StartPlaced, IsHttp, IsGrpc
  <2>3. StopPlaced' BY Zenon, <2>1 DEF Stops, StopPlaced
  <2>4. Served' BY Zenon, <2>1 DEF Stops, Served, IsHttp, IsGrpc
  <2>5. \A i \in I : Past(i, UpToDrain) => Past(i, UpToShutdown)
    BY Zenon DEF Past, UpToDrain
  <2>6. HttpDown' BY Zenon, <2>1, <2>5, SamePast DEF Stops, HttpDown, IsHttp
  <2>7. GrpcDown' BY Zenon, <2>1, SamePast DEF Stops, GrpcDown, IsGrpc
  <2> QED BY Zenon, <2>2, <2>3, <2>4, <2>6, <2>7 DEF Stops
<1>2. CASE GrpcServes \/ RpcBegins \/ RpcEnds
  <2>1. /\ UNCHANGED <<main, stopCall, once, toStop, starting, stopping, early, server, httpServe,
                       shutdown, httpReq, timedOut, grpcStop, registry, keepAlive>>
        /\ grpcServe = "none" => grpcServe' = "none"
        /\ grpcServe' = "serving" => grpcServe = "serving" \/ ~grpcStop
        /\ rpc' => rpc \/ grpcServe = "serving"
    <3>1. CASE GrpcServes BY Zenon, <3>1 DEF GrpcServes
    <3>2. CASE RpcBegins BY Zenon, <3>2 DEF RpcBegins
    <3>3. CASE RpcEnds BY Zenon, <3>3 DEF RpcEnds
    <3> QED BY Zenon, <1>2, <3>1, <3>2, <3>3
  <2>2. StartPlaced' BY Zenon, <2>1 DEF Stops, StartPlaced, IsHttp, IsGrpc
  <2>3. StopPlaced' BY Zenon, <2>1 DEF Stops, StopPlaced
  <2>4. Served' BY Zenon, <2>1 DEF Stops, Served, IsHttp, IsGrpc
  <2>5. \A i \in I : Past(i, UpToWait) => Past(i, UpToGraceful)
    BY Zenon DEF Past, UpToWait
  <2>6. HttpDown' BY Zenon, <2>1, SamePast DEF Stops, HttpDown, IsHttp
  <2>7. GrpcDown' BY Zenon, <2>1, <2>5, SamePast DEF Stops, GrpcDown, IsGrpc
  <2> QED BY Zenon, <2>2, <2>3, <2>4, <2>6, <2>7 DEF Stops
<1>3. CASE LeaseExpires
  <2>1. /\ UNCHANGED <<main, stopCall, once, toStop, starting, stopping, early, server, httpServe,
                       shutdown, httpReq, timedOut, grpcServe, grpcStop, rpc, registry>>
        /\ keepAlive' = FALSE
    BY Zenon, <1>3 DEF LeaseExpires
  <2>2. StartPlaced' BY Zenon, <2>1 DEF Stops, StartPlaced, IsHttp, IsGrpc
  <2>3. StopPlaced' BY Zenon, <2>1 DEF Stops, StopPlaced
  <2>4. Served' BY Zenon, <2>1 DEF Stops, Served, IsHttp, IsGrpc
  <2>5. HttpDown' BY Zenon, <2>1, SamePast DEF Stops, HttpDown, IsHttp
  <2>6. GrpcDown' BY Zenon, <2>1, SamePast DEF Stops, GrpcDown, IsGrpc
  <2> QED BY Zenon, <2>2, <2>3, <2>4, <2>5, <2>6 DEF Stops
<1> QED
  BY Zenon, <1>1, <1>2, <1>3 DEF Environment

(* Every step of the group preserves Stops. *)
LEMMA StopsNext ==
    ASSUME Stops, [Next]_vars
    PROVE  Stops'
<1>1. CASE UNCHANGED vars
  BY Zenon, <1>1, QuietKeeps DEF vars, groupVars, etcdVars, Quiet
<1> QED
  BY Zenon, <1>1, GroupKeepsStops, StopKeepsStops, EnvironmentKeepsStops, StartKeepsStops DEF Next

(* Stop of a group of any services, on a signal or by a call, ends every   *)
(* server that had been started when Stop came to it, in every             *)
(* interleaving with the goroutines of Start, the servers and etcd.        *)
THEOREM StopsWhatWasStartedHolds == Spec => []StopsWhatWasStarted
<1>1. ASSUME Stops PROVE StopsWhatWasStarted
  <2> SUFFICES ASSUME once = "done", ~early
               PROVE  "serving" \notin {httpServe, grpcServe} /\ ~rpc /\ ~keepAlive
    BY Zenon DEF StopsWhatWasStarted, Stopped
  <2>1. \A i \in I : \A steps : "none" \notin steps => Past(i, steps)
    <3>1. toStop = 0 /\ NextStep = "none" BY Zenon, <1>1 DEF Stops, StopPlaced, NextStep
    <3> QED BY <3>1, GroupConstants DEF Past, I
  <2>2. httpServe # "serving"
    <3>1. CASE \A i \in I : ~IsHttp(i) BY Zenon, <1>1, <3>1 DEF Stops, Served
    <3>2. CASE \E i \in I : IsHttp(i)
      BY Zenon, <1>1, <2>1, <3>2 DEF Stops, HttpDown, UpToShutdown, UpToWait, UpToGraceful, UpToRevoke
    <3> QED BY Zenon, <3>1, <3>2
  <2>3. grpcServe # "serving" /\ ~rpc /\ ~keepAlive
    <3>1. CASE \A i \in I : ~IsGrpc(i) BY Zenon, <1>1, <3>1 DEF Stops, Served
    <3>2. CASE \E i \in I : IsGrpc(i)
      BY Zenon, <1>1, <2>1, <3>2 DEF Stops, GrpcDown, UpToWait, UpToGraceful, UpToRevoke
    <3> QED BY Zenon, <3>1, <3>2
  <2> QED BY Zenon, <2>2, <2>3
<1> QED
  BY <1>1, StopsInit, StopsNext, PTL DEF Spec

(* With the cleanups first in the list, the others have been stopped when  *)
(* they run.                                                               *)
LEMMA OthersStoppedNext ==
    ASSUME CleanupFirst, Stops, OthersStopped, [Next]_vars
    PROVE  OthersStopped'
<1> USE DEF groupVars
<1>1. CASE Cleanup
  <2>1. /\ AtStep("cleanup") /\ StopProceeds /\ UNCHANGED <<once, toStop>> BY Zenon, <1>1 DEF Cleanup
  <2>2. /\ toStop + 1 \in I /\ Services[toStop + 1] = "cleanup" /\ once # "no"
    BY Zenon, <2>1, Advance DEF Stops
  <2>3. \A i \in I : Services[i] # "cleanup" => i > toStop + 1
    BY <2>2, GroupConstants DEF CleanupFirst, I
  <2> QED BY Zenon, <2>1, <2>2, <2>3 DEF OthersStopped
<1>2. CASE NextService
  <2>1. toStop \in Nat BY GroupConstants DEF Stops, StopPlaced
  <2>2. toStop' = toStop - 1 /\ UNCHANGED <<once, cleaned>> BY Zenon, <1>2 DEF NextService
  <2> QED BY <2>1, <2>2, GroupConstants DEF OthersStopped, I
<1>3. ASSUME NEW caller \in {"main", "stopCall"}, OnceBegins(caller) PROVE OthersStopped'
  BY Zenon, <1>3 DEF OnceBegins, OthersStopped
<1>4. ASSUME NEW caller \in {"main", "stopCall"}, OnceEnds(caller) PROVE OthersStopped'
  BY Zenon, <1>4 DEF OnceEnds, OthersStopped
<1>5. CASE UNCHANGED <<once, toStop, cleaned>>
  BY Zenon, <1>5 DEF OthersStopped
<1>6. CASE Start \/ SignalOrStopCh \/ CallStop
  BY Zenon, <1>5, <1>6 DEF Start, SignalOrStopCh, CallStop
<1>7. CASE Shutdown \/ Drain \/ CloseRegistry \/ Revoke \/ GracefulStop \/ Wait
  BY Zenon, <1>5, <1>7 DEF Shutdown, Drain, CloseRegistry, Revoke, GracefulStop, Wait
<1>8. CASE Environment
  BY Zenon, <1>5, <1>8
  DEF Environment, ListenAndServe, GrpcServes, HttpRequest, RpcBegins, RpcEnds, LeaseExpires
<1>9. ASSUME NEW i \in I, StartStep(i) PROVE OthersStopped'
  BY Zenon, <1>5, <1>9, StartMoves DEF Stops, StartEffect
<1>10. CASE UNCHANGED vars
  BY Zenon, <1>5, <1>10 DEF vars
<1> QED
  BY Zenon, <1>1, <1>2, <1>3, <1>4, <1>6, <1>7, <1>8, <1>9, <1>10 DEF Next, GroupStep, StopStep

(* With the CleanupServices added first, whose turn then comes last, no    *)
(* RPC runs when the cleanups do, and no HTTP request but one that         *)
(* Shutdown gave up on.                                                    *)
THEOREM CleanupComesLastHolds ==
    ASSUME CleanupFirst
    PROVE  Spec => []CleanupComesLast
<1>1. Init => OthersStopped BY Zenon DEF Init, OthersStopped
<1>2. ASSUME Stops, OthersStopped PROVE CleanupComesLast
  <2> SUFFICES ASSUME cleaned, ~early PROVE ~rpc /\ (httpReq => timedOut)
    BY Zenon DEF CleanupComesLast
  <2>1. once # "no" /\ \A i \in I : Services[i] # "cleanup" => \A steps : Past(i, steps)
    BY Zenon, <1>2 DEF OthersStopped, Past
  <2>2. ~rpc
    BY Zenon, <1>2, <2>1 DEF Stops, Served, GrpcDown, IsGrpc
  <2>3. httpReq => timedOut
    BY Zenon, <1>2, <2>1 DEF Stops, Served, HttpDown, IsHttp
  <2> QED BY Zenon, <2>2, <2>3
<1> QED
  BY <1>1, <1>2, StopsInit, StopsNext, OthersStoppedNext, PTL DEF Spec
=============================================================================
