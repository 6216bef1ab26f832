---------------------------- MODULE ApisixAdmin ----------------------------
(***************************************************************************)
(* The APISIX Admin API as register/apisix.go uses it, for one service:    *)
(* one upstream and a list of routes, written with PUT and DELETE          *)
(* (putResource, deleteResource).  The content of a resource is abstracted *)
(* to the pod that wrote it: pods of different versions write different    *)
(* bodies.  The server itself is external to the repository.               *)
(***************************************************************************)
EXTENDS Naturals

CONSTANTS
    Pods,      \* the replicas of the service
    NRoutes,   \* the number of routes of the service, len(svc.Routes)
    Inline,    \* the routes that carry an upstream of their own (route.Upstream)
    None       \* no pod, no controller, no resource

Routes == 1 .. NRoutes
Upstream == 0    \* the resource id of the upstream; i in Routes is route i

ASSUME AdminConstants ==
    /\ NRoutes \in Nat
    /\ Inline \subseteq Routes
    /\ None \notin Pods

VARIABLES
    upstream,  \* the pod whose PUT created or last updated the upstream, or None
    route,     \* the same for each route
    late       \* requests the client gave up on that may still reach the server

adminVars == <<upstream, route, late>>

Request == [pod : Pods, op : {"PUT", "DELETE"}, id : {Upstream} \cup Routes]

AdminTypeOK ==
    /\ upstream \in Pods \cup {None}
    /\ route \in [Routes -> Pods \cup {None}]
    /\ late \subseteq Request

AdminInit ==
    /\ upstream = None
    /\ route = [i \in Routes |-> None]
    /\ late = {}

(* A route that names upstream_id needs the upstream; the upstream cannot  *)
(* go while such a route exists ("routes first, then the upstream, they    *)
(* depend on each other"); deleting what does not exist is a 404.          *)
Accepts(r) ==
    \/ r.op = "PUT" /\ r.id = Upstream
    \/ r.op = "PUT" /\ r.id \in Routes /\ (r.id \in Inline \/ upstream # None)
    \/ r.op = "DELETE" /\ r.id \in Routes /\ route[r.id] # None
    \/ /\ r.op = "DELETE" /\ r.id = Upstream
       /\ upstream # None
       /\ \A i \in Routes \ Inline : route[i] = None

Content(r) == IF r.op = "PUT" THEN r.pod ELSE None

(* The effect of an accepted request. *)
Apply(r) ==
    \/ r.id = Upstream /\ upstream' = Content(r) /\ UNCHANGED route
    \/ /\ r.id \in Routes
       /\ route' = [route EXCEPT ![r.id] = Content(r)]
       /\ UNCHANGED upstream

(* A request whose client has timed out, was cancelled or crashed takes    *)
(* effect after all.                                                       *)
LateArrival(r) ==
    /\ r \in late
    /\ Accepts(r) /\ Apply(r)
    /\ late' = late \ {r}

(* Such a request is lost, or refused by the server. *)
LateLoss(r) ==
    /\ r \in late
    /\ late' = late \ {r}
    /\ UNCHANGED <<upstream, route>>
=============================================================================
