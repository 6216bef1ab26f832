---------------------------- MODULE MCMiddleware ----------------------------
(* An instance of Middleware for TLC: each guard by itself, and the        *)
(* breaker around the shedder, each with bounds of its own.                *)
EXTENDS Middleware, TLC

CONSTANTS q1, q2, r1

SomeChains ==
    (<<"period">> :> [now |-> 5, arrivals |-> 4])
    @@ (<<"rate">> :> [now |-> 4, arrivals |-> 3])
    @@ (<<"breaker">> :> [now |-> 6, arrivals |-> 3])
    @@ (<<"shedding">> :> [now |-> 4, arrivals |-> 3])
    @@ (<<"breaker", "shedding">> :> [now |-> 1, arrivals |-> 3])
OneReplica == [q \in {q1, q2} |-> r1]
SameRequests == Permutations({q1, q2})
=============================================================================
