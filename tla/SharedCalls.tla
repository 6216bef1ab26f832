----------------------------- MODULE SharedCalls -----------------------------
(***************************************************************************)
(* syncx/sharedcalls.go: concurrent calls of DoEx with the same key share  *)
(* one execution of fn.                                                    *)
(*                                                                         *)
(* A member of Invocations is one call of DoEx.  The *call object that an  *)
(* invocation allocates is identified with the invocation itself, so a     *)
(* pointer to a call is the name of the invocation that runs its fn.  Each *)
(* section under sc.mu is one step; the steps of different goroutines      *)
(* interleave between them.                                                *)
(***************************************************************************)
EXTENDS Naturals

CONSTANTS
    Keys,         \* the keys passed to DoEx
    Invocations,  \* the calls of DoEx
    None          \* a nil *call

ASSUME NoneIsNoInvocation == None \notin Invocations

VARIABLES
    key,      \* key[i]: the argument of invocation i
    calls,    \* sc.calls: the call object in the map for each key, or None
    pc,       \* where the goroutine of each invocation is
    joined,   \* joined[i]: the call object i executes or waits for
    outcome   \* outcome[c]: c.val and c.err, "none" until fn has returned

vars == <<key, calls, pc, joined, outcome>>

Locations == {"idle", "fn", "done", "wait", "returned", "panicked"}
Outcomes == {"none", "value", "error"}

TypeOK ==
    /\ key \in [Invocations -> Keys]
    /\ calls \in [Keys -> Invocations \cup {None}]
    /\ pc \in [Invocations -> Locations]
    /\ joined \in [Invocations -> Invocations \cup {None}]
    /\ outcome \in [Invocations -> Outcomes]

Init ==
    /\ key \in [Invocations -> Keys]
    /\ calls = [k \in Keys |-> None]
    /\ pc = [i \in Invocations |-> "idle"]
    /\ joined = [i \in Invocations |-> None]
    /\ outcome = [i \in Invocations |-> "none"]
-----------------------------------------------------------------------------
(* The first critical section: a call object is in the map, so i gets a    *)
(* pointer to it and goes to wait on its WaitGroup.                        *)
JoinCall(i) ==
    /\ pc[i] = "idle"
    /\ calls[key[i]] # None
    /\ joined' = [joined EXCEPT ![i] = calls[key[i]]]
    /\ pc' = [pc EXCEPT ![i] = "wait"]
    /\ UNCHANGED <<key, calls, outcome>>

StartCallForgettingMap(i) ==   \* mutant: the new call is not stored
    /\ pc[i] = "idle"
    /\ calls[key[i]] = None
    /\ joined' = [joined EXCEPT ![i] = i]
    /\ pc' = [pc EXCEPT ![i] = "fn"]
    /\ UNCHANGED <<key, calls, outcome>>

(* The first critical section, no call object for the key: i installs its  *)
(* own and goes on to run fn.                                              *)
StartCall(i) ==
    /\ pc[i] = "idle"
    /\ calls[key[i]] = None
    /\ calls' = [calls EXCEPT ![key[i]] = i]
    /\ joined' = [joined EXCEPT ![i] = i]
    /\ pc' = [pc EXCEPT ![i] = "fn"]
    /\ UNCHANGED <<key, outcome>>

FnReturnsLosingResult(i) ==    \* mutant: wg.Done without the assignment
    /\ pc[i] = "fn"
    /\ pc' = [pc EXCEPT ![i] = "done"]
    /\ UNCHANGED <<key, calls, joined, outcome>>

(* fn returns; its result is stored in the call object and wg.Done lets    *)
(* the waiters go.  The key is still in the map.                           *)
FnReturns(i) ==
    /\ pc[i] = "fn"
    /\ \E r \in {"value", "error"} : outcome' = [outcome EXCEPT ![i] = r]
    /\ pc' = [pc EXCEPT ![i] = "done"]
    /\ UNCHANGED <<key, calls, joined>>

(* fn panics: DoEx has no deferred call, so neither wg.Done nor the delete *)
(* happens and the panic unwinds through the caller.                       *)
FnPanics(i) ==
    /\ pc[i] = "fn"
    /\ pc' = [pc EXCEPT ![i] = "panicked"]
    /\ UNCHANGED <<key, calls, joined, outcome>>

DeleteCallNever(i) ==          \* mutant: the second critical section is lost
    /\ pc[i] = "done"
    /\ pc' = [pc EXCEPT ![i] = "returned"]
    /\ UNCHANGED <<key, calls, joined, outcome>>

(* The second critical section: the executor removes the key and returns.  *)
DeleteCall(i) ==
    /\ pc[i] = "done"
    /\ calls' = [calls EXCEPT ![key[i]] = None]
    /\ pc' = [pc EXCEPT ![i] = "returned"]
    /\ UNCHANGED <<key, joined, outcome>>

WaitReturnsEarly(i) ==         \* mutant: the waiter does not wait for Done
    /\ pc[i] = "wait"
    /\ pc' = [pc EXCEPT ![i] = "returned"]
    /\ UNCHANGED <<key, calls, joined, outcome>>

WaitReturnsOnlyWhileListed(i) ==   \* mutant: Done is missed if it comes first
    /\ pc[i] = "wait"
    /\ pc[joined[i]] = "done"
    /\ pc' = [pc EXCEPT ![i] = "returned"]
    /\ UNCHANGED <<key, calls, joined, outcome>>

(* c.wg.Wait() returns once the executor has passed wg.Done.               *)
WaitReturns(i) ==
    /\ pc[i] = "wait"
    /\ pc[joined[i]] \in {"done", "returned"}
    /\ pc' = [pc EXCEPT ![i] = "returned"]
    /\ UNCHANGED <<key, calls, joined, outcome>>

(* The invocations that were started have all returned, or wait for a call *)
(* object whose fn panicked: nothing in this component runs any more.      *)
Settled(i) ==
    \/ pc[i] \in {"returned", "panicked"}
    \/ pc[i] = "wait" /\ pc[joined[i]] = "panicked"

Quiescent == (\A i \in Invocations : Settled(i)) /\ UNCHANGED vars

Next ==
    \/ \E i \in Invocations :
          \/ JoinCall(i) \/ StartCall(i) \/ FnReturns(i) \/ FnPanics(i)
          \/ DeleteCall(i) \/ WaitReturns(i)
    \/ Quiescent

(* Go schedules every runnable goroutine, and fn comes back, one way or    *)
(* the other.                                                              *)
Fairness ==
    \A i \in Invocations :
        /\ WF_vars(FnReturns(i) \/ FnPanics(i))
        /\ WF_vars(DeleteCall(i))
        /\ WF_vars(WaitReturns(i))

Spec == Init /\ [][Next]_vars /\ Fairness
-----------------------------------------------------------------------------
(* The map and the goroutines agree: an invocation that runs fn, or has run *)
(* it and not yet deleted its key, or panicked in it, is the one in the map *)
(* (sharedcalls.go 44, 51), and whoever has joined a call holds a pointer to *)
(* the call of an executor with the same key.                               *)
MapMatchesExecutors ==
    /\ TypeOK
    /\ \A i \in Invocations :
          pc[i] \in {"fn", "done", "panicked"} => calls[key[i]] = i /\ joined[i] = i
    /\ \A k \in Keys :
          calls[k] # None =>
              key[calls[k]] = k /\ pc[calls[k]] \in {"fn", "done", "panicked"}
    /\ \A i \in Invocations :
          pc[i] # "idle" =>
              /\ joined[i] # None
              /\ key[joined[i]] = key[i]
              /\ joined[joined[i]] = joined[i]
              /\ pc[joined[i]] \in {"fn", "done", "panicked", "returned"}
    /\ \A i \in Invocations :
          /\ pc[i] = "done" => outcome[i] # "none"
          /\ pc[i] = "returned" => outcome[joined[i]] # "none"

(* At most one goroutine executes fn for a key at any time, which is the   *)
(* purpose of DoEx: the map entry is set before fn starts (sharedcalls.go  *)
(* 44) and outlives it (51).                                               *)
SingleFlight ==
    \A i, j \in Invocations :
        pc[i] = "fn" /\ pc[j] = "fn" /\ key[i] = key[j] => i = j

(* Whatever DoEx returns was computed by an execution of fn for the same   *)
(* key that has finished: a waiter never reads c.val and c.err             *)
(* (sharedcalls.go 39) before they are assigned (47).                      *)
ReturnsFinishedResult ==
    \A i \in Invocations :
        pc[i] = "returned" =>
            /\ joined[i] # None
            /\ key[joined[i]] = key[i]
            /\ outcome[joined[i]] # "none"

(* A call object is removed from the map only by its own executor and only *)
(* after fn has finished (sharedcalls.go 51): a running call can always be *)
(* joined, and an old executor never deletes a newer call of the key.      *)
OnlyFinishedCallsRemoved ==
    [][\A k \in Keys :
          calls[k] # None /\ calls'[k] # calls[k] => pc[calls[k]] = "done"]_vars

(* DoEx seen by its callers: sc.calls is the flight of each key, a call    *)
(* object is its execution and lands when c.val and c.err are assigned.    *)
Shared == INSTANCE Flights WITH
    flight <- calls, boarded <- joined,
    landed <- {i \in Invocations : outcome[i] # "none"},
    left <- {i \in Invocations : pc[i] = "returned"}

(* Every behaviour of DoEx is one that callers of Flights can see: for a   *)
(* key executions do not overlap, nobody joins one that its executor has   *)
(* closed (sharedcalls.go 36, 51), and nobody returns with anything but    *)
(* the result of the execution it joined (38, 39).                         *)
SharesFlights == Shared!Spec

(* Every invocation that has joined or started a call returns, unless the  *)
(* fn it depends on panicked (sharedcalls.go 38, 48).                      *)
EveryCallSettles ==
    \A i \in Invocations : (pc[i] # "idle") ~> Settled(i)
=============================================================================
