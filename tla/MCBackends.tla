----------------------------- MODULE MCBackends -----------------------------
(***************************************************************************)
(* The packages that stand between a service and its backends, for TLC:    *)
(* an initial state chooses one of them, and the others stay as they are.  *)
(* None of them calls another, so that their states need not be multiplied.*)
(***************************************************************************)
EXTENDS Singletons, RedisNotification, Sessions, Nats, TLC

CONSTANTS
    c1, c2,             \* connections to NATS
    a, b, o, d1, d2,    \* subjects and durable names
    Servers

VARIABLES part, entry, resolver, watcher, ch, read, event, addrs, cancel, closed, missed, faults

etcd == <<entry, resolver, watcher, ch, read, event, addrs, cancel, closed, missed, faults>>
vars == <<part, natsVars, redisVars, dataVars, singletonVars, etcd>>
-----------------------------------------------------------------------------
(* NATS: two replicas of a service; two services with streams and consumers *)
(* of their own; the same with one durable; one subject with two durables;  *)
(* and core NATS.                                                           *)
Setup(st, s2, q2, l1, l2, starting, msgs, n) ==
    [useStream |-> TRUE, stream |-> st, subject |-> (c1 :> a) @@ (c2 :> s2),
     durable |-> (c1 :> d1) @@ (c2 :> q2), listed |-> (c1 :> l1) @@ (c2 :> l2),
     starts |-> starting, messages |-> msgs, events |-> n]

A(n) == {[subject |-> a, id |-> k] : k \in 1..n}
B == {[subject |-> b, id |-> 1]}

Replicas == Setup({}, a, d1, {a}, {a}, {c1}, A(1), 1)
Distinct == Setup({o}, b, d2, {a}, {b}, {c1}, A(1), 0)
SameDurable == Setup({}, b, d1, {a, b}, {a, b}, {}, A(1) \cup B, 0)
SameSubject == Setup({}, a, d2, {a}, {a}, {}, A(2), 1)
Core == [Replicas EXCEPT !.useStream = FALSE, !.events = 2, !.messages = A(2)]

MCMessages == A(2) \cup B
MCSetups == {Replicas, Distinct, SameDurable, SameSubject, Core}

(* Redis: a value, and one that its decoding takes for the same. *)
MCValues == {<<"x">>, <<"p", ":", "x", "||", "z">>}

E == INSTANCE Discovery
-----------------------------------------------------------------------------
Init ==
    /\ part \in {"nats", "redis", "data", "once", "etcd"}
    /\ NatsInit /\ NotificationInit /\ SessionInit /\ SingletonInit /\ E!DiscoveryInit
    /\ part # "nats" => setup = Core
    /\ part # "data" => form = "func" /\ catches = <<>> /\ has = {} /\ mode = "plain"
    /\ part # "once" => kind = "conf"

Next ==
    /\ \/ part = "nats" /\ NatsNext /\ UNCHANGED <<redisVars, dataVars, singletonVars, etcd>>
       \/ part = "redis" /\ NotificationNext /\ UNCHANGED <<natsVars, dataVars, singletonVars, etcd>>
       \/ part = "data" /\ SessionNext /\ UNCHANGED <<natsVars, redisVars, singletonVars, etcd>>
       \/ part = "once" /\ SingletonNext /\ UNCHANGED <<natsVars, redisVars, dataVars, etcd>>
       \/ part = "etcd" /\ E!DiscoveryNext /\ UNCHANGED <<natsVars, redisVars, dataVars, singletonVars>>
    /\ UNCHANGED part

Spec == Init /\ [][Next]_vars /\ NatsFairness /\ NotificationFairness /\ E!Fairness
-----------------------------------------------------------------------------
(* etcd: gRPC learns of the last change of the servers.                    *)
ResolverCatchesUp == E!ResolverCatchesUp
=============================================================================
