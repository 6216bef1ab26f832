----------------------------- MODULE Snowflake -----------------------------
(***************************************************************************)
(* uuid/uuid.go: the id generator UuidWorker.  Workers are the objects     *)
(* NewUuidWorker has made, in one process (InitWorker replaces the global  *)
(* one) or in several; each reads the clock of its own machine.  Get holds *)
(* the mutex of its object, also while it waits for the next millisecond.  *)
(***************************************************************************)
EXTENDS Integers

CONSTANTS
    Workers,    \* UuidWorker objects
    WorkerID,   \* the workerID of each
    IDs,        \* the number of worker ids, 2^workerBits
    Numbers,    \* the number of sequence numbers in a millisecond, 2^numberBits
    Second,     \* the milliseconds in a second
    MaxTime,    \* bound on the clocks
    MaxBack,    \* bound on the steps of clocks back
    NoId

ASSUME SnowflakeConstants ==
    /\ IDs \in Nat \ {0} /\ Numbers \in Nat \ {0} /\ Second \in Nat \ {0}
    /\ WorkerID \in [Workers -> 0 .. IDs - 1]
    /\ MaxTime \in Nat /\ MaxBack \in Nat

numberMax == Numbers - 1

VARIABLES
    clock,      \* time.Now of each worker's machine, in milliseconds since epoch
    backs,      \* steps of clocks back
    timestamp, number,
    waiting,    \* Get waits for the next millisecond
    issued,     \* the ids returned before the last one
    last        \* the last id returned, or NoId

uuidVars == <<clock, backs, timestamp, number, waiting, issued, last>>

(* An id is kept as the parts that Get puts together.                      *)
Parts == [worker : Workers, time : Nat, number : Nat, waited : BOOLEAN]

UuidTypeOK ==
    /\ clock \in [Workers -> Nat]
    /\ backs \in Nat
    /\ timestamp \in [Workers -> Nat]
    /\ number \in [Workers -> Nat]
    /\ waiting \in [Workers -> BOOLEAN]
    /\ issued \subseteq Parts
    /\ last \in Parts \cup {NoId}

(* NewUuidWorker. *)
UuidInit ==
    /\ clock = [w \in Workers |-> 1]
    /\ backs = 0
    /\ timestamp = [w \in Workers |-> 0]
    /\ number = [w \in Workers |-> 0]
    /\ waiting = [w \in Workers |-> FALSE]
    /\ issued = {} /\ last = NoId

(* workerID << workerShift | number: a number of numberMax + 1 sets the    *)
(* lowest bit of the worker's field.                                       *)
Low(id, n) ==
    IF n <= numberMax THEN id * Numbers + n
    ELSE (IF id % 2 = 0 THEN id + 1 ELSE id) * Numbers + (n - Numbers)

(* now << timeShift | the other fields. *)
Id(r) == r.time * (IDs * Numbers) + Low(WorkerID[r.worker], r.number)

(* Mutant: the mask of the worker's field is forgotten. *)
UnmarshalUnmasked(id) ==
    [time   |-> (id \div (IDs * Numbers)) \div Second,
     worker |-> id \div Numbers,
     number |-> id % Numbers]

Unmarshal(id) ==
    [time   |-> (id \div (IDs * Numbers)) \div Second,
     worker |-> (id % (IDs * Numbers)) \div Numbers,
     number |-> id % Numbers]

(* Get returns. *)
Return(w, now, n, waited) ==
    /\ issued' = IF last = NoId THEN issued ELSE issued \cup {last}
    /\ last' = [worker |-> w, time |-> now, number |-> n, waited |-> waited]

(* Mutant: a new millisecond is not remembered. *)
GetNextForgotten(w) ==
    /\ ~waiting[w]
    /\ timestamp[w] # clock[w]
    /\ number' = [number EXCEPT ![w] = 0]
    /\ Return(w, clock[w], 0, FALSE)
    /\ UNCHANGED <<clock, backs, timestamp, waiting>>

(* Get in a millisecond other than timestamp. *)
GetNext(w) ==
    /\ ~waiting[w]
    /\ timestamp[w] # clock[w]
    /\ number' = [number EXCEPT ![w] = 0]
    /\ timestamp' = [timestamp EXCEPT ![w] = clock[w]]
    /\ Return(w, clock[w], 0, FALSE)
    /\ UNCHANGED <<clock, backs, waiting>>

(* Get in the same millisecond. *)
GetSame(w) ==
    /\ ~waiting[w]
    /\ timestamp[w] = clock[w]
    /\ number' = [number EXCEPT ![w] = @ + 1]
    /\ \/ /\ number[w] + 1 <= numberMax
          /\ Return(w, clock[w], number[w] + 1, FALSE)
          /\ UNCHANGED waiting
       \/ /\ number[w] + 1 > numberMax
          /\ waiting' = [waiting EXCEPT ![w] = TRUE]
          /\ UNCHANGED <<issued, last>>
    /\ UNCHANGED <<clock, backs, timestamp>>

(* The wait for the next millisecond ends; neither number nor timestamp    *)
(* is set.                                                                 *)
GetWaited(w) ==
    /\ waiting[w] /\ clock[w] > timestamp[w]
    /\ waiting' = [waiting EXCEPT ![w] = FALSE]
    /\ Return(w, clock[w], number[w], TRUE)
    /\ UNCHANGED <<clock, backs, timestamp, number>>

Tick(w) ==
    /\ clock[w] < MaxTime
    /\ clock' = [clock EXCEPT ![w] = @ + 1]
    /\ UNCHANGED <<backs, timestamp, number, waiting, issued, last>>

(* The clock of a machine is set back. *)
StepBack(w) ==
    /\ backs < MaxBack /\ clock[w] > 1
    /\ clock' = [clock EXCEPT ![w] = @ - 1]
    /\ backs' = backs + 1
    /\ UNCHANGED <<timestamp, number, waiting, issued, last>>

UuidNext ==
    \E w \in Workers :
        GetNext(w) \/ GetSame(w) \/ GetWaited(w) \/ Tick(w) \/ StepBack(w)

UuidSpec == UuidInit /\ [][UuidNext]_uuidVars
-----------------------------------------------------------------------------
Ids == issued \cup (IF last = NoId THEN {} ELSE {last})

(* What the deployment has to provide: worker ids configured apart.        *)
DistinctWorkers == \A v, w \in Workers : WorkerID[v] = WorkerID[w] => v = w

(* "Generates a globally unique sessionId": Get never returns an id that   *)
(* some Get has returned before.                                           *)
UniqueIds == last # NoId => \A r \in issued : Id(r) # Id(last)

(* Get returns no id a second time, as long as no clock was set back and   *)
(* Get does not run into the wait at the end of a millisecond's numbers:   *)
(* over all workers, in every interleaving, for clocks that differ between *)
(* machines.                                                               *)
UniqueWithoutWait ==
    backs = 0 /\ last # NoId /\ ~last.waited
        => \A r \in issued : ~r.waited => Id(r) # Id(last)

(* Unmarshal finds the parts that Get has put together.                    *)
UnmarshalRecovers ==
    \A r \in Ids : ~r.waited =>
        Unmarshal(Id(r)) = [time   |-> r.time \div Second,
                            worker |-> WorkerID[r.worker],
                            number |-> r.number]
=============================================================================
