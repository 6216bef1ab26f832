------------------------------ MODULE Flights ------------------------------
(***************************************************************************)
(* What SharedCalls promises its callers, without its map, its mutex and   *)
(* its WaitGroups: for each key executions follow one another, a caller    *)
(* takes part in the current one or begins the next, and leaves only with  *)
(* the result of an execution that has come to its end.  A caller may      *)
(* still join an execution that has ended and is not closed yet.           *)
(***************************************************************************)
CONSTANTS Keys, Invocations, None

VARIABLES
    key,      \* the key each caller asks for
    flight,   \* per key: the execution that can be joined, or None
    boarded,  \* per caller: the execution it takes part in, or None
    landed,   \* the executions that have a result
    left      \* the callers that have returned

vars == <<key, flight, boarded, landed, left>>

Init ==
    /\ key \in [Invocations -> Keys]
    /\ flight = [k \in Keys |-> None]
    /\ boarded = [i \in Invocations |-> None]
    /\ landed = {} /\ left = {}

Open(i) ==
    /\ boarded[i] = None /\ flight[key[i]] = None
    /\ flight' = [flight EXCEPT ![key[i]] = i]
    /\ boarded' = [boarded EXCEPT ![i] = i]
    /\ UNCHANGED <<key, landed, left>>

Board(i) ==
    /\ boarded[i] = None /\ flight[key[i]] # None
    /\ boarded' = [boarded EXCEPT ![i] = flight[key[i]]]
    /\ UNCHANGED <<key, flight, landed, left>>

Land(i) ==
    /\ flight[key[i]] = i /\ i \notin landed
    /\ landed' = landed \cup {i}
    /\ UNCHANGED <<key, flight, boarded, left>>

(* Who executed closes the flight and leaves; the others just leave. *)
Close(i) ==
    /\ flight[key[i]] = i /\ i \in landed
    /\ flight' = [flight EXCEPT ![key[i]] = None]
    /\ left' = left \cup {i}
    /\ UNCHANGED <<key, boarded, landed>>

Leave(i) ==
    /\ i \notin left
    /\ boarded[i] \in landed /\ boarded[i] # i
    /\ left' = left \cup {i}
    /\ UNCHANGED <<key, flight, boarded, landed>>

Next == \E i \in Invocations : Open(i) \/ Board(i) \/ Land(i) \/ Close(i) \/ Leave(i)

Spec == Init /\ [][Next]_vars
=============================================================================
