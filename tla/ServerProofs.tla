---------------------------- MODULE ServerProofs ----------------------------
(***************************************************************************)
(* What a server keeps for its clients: the ids of the UuidWorker that it  *)
(* starts with, for any number of workers and any field widths, the        *)
(* WebSocket client manager for every number of clients, and the lock of a *)
(* Redis notification for any number of nodes, values and faults.          *)
(***************************************************************************)
EXTENDS Snowflake, WsManager, RedisNotification, SequenceTheorems, TLAPS

(* Equal encodings of two pairs are encodings of equal pairs. *)
Apart(base, a, b, x, y) == a * base + x = b * base + y => a = b /\ x = y

(* A field that is shifted past another one can be read back: the encoding *)
(* of a pair is injective when the low part is smaller than the base.      *)
LEMMA FieldsApart ==
    \A base \in Nat \ {0} : \A a, b \in Nat : \A x, y \in 0 .. base - 1 : Apart(base, a, b, x, y)
<1> SUFFICES ASSUME NEW base \in Nat \ {0}, NEW a \in Nat, NEW b \in Nat,
                    NEW x \in 0 .. base - 1, NEW y \in 0 .. base - 1,
                    a * base + x = b * base + y
             PROVE  a = b /\ x = y
  BY DEF Apart
<1>1. ASSUME NEW c \in Nat, NEW d \in Nat, c < d,
             NEW u \in 0 .. base - 1, NEW v \in 0 .. base - 1
      PROVE  c * base + u < d * base + v
  <2>1. PICK e \in Nat : d = c + 1 + e
    <3>1. d - c - 1 \in Nat /\ d = c + 1 + (d - c - 1)
      BY <1>1
    <3> QED
      BY <3>1
  <2>2. d * base = c * base + base + e * base
    BY <2>1
  <2>3. e * base >= 0 /\ c * base \in Nat /\ e * base \in Nat
    OBVIOUS
  <2> QED
    BY <2>2, <2>3
<1>2. ~(a < b)
  BY <1>1
<1>3. ~(b < a)
  BY <1>1
<1> QED
  BY <1>2, <1>3

(* Shifting right and masking find the two parts again. *)
ReadBack(v, base, a, x) == v \div base = a /\ v % base = x

(* Dividing by the size of a field and taking the remainder gives back     *)
(* what was packed.                                                        *)
LEMMA FieldsRead ==
    ASSUME NEW base \in Nat \ {0}, NEW a \in Nat, NEW x \in 0 .. base - 1,
           NEW v, v = a * base + x
    PROVE  ReadBack(v, base, a, x)
<1> DEFINE q == v \div base
           m == v % base
<1>1. v \in Nat
  OBVIOUS
<1>2. q \in Nat /\ m \in 0 .. base - 1 /\ v = q * base + m
  BY <1>1
<1> HIDE DEF q, m
<1>3. Apart(base, a, q, x, m)
  BY Zenon, <1>2, FieldsApart
<1>4. q = a /\ m = x
  BY <1>2, <1>3 DEF Apart
<1> QED
  BY <1>4 DEF q, m, ReadBack
-----------------------------------------------------------------------------
(* What the object remembers of the ids it gave out without waiting: the   *)
(* last millisecond and the number reached in it bound them all.           *)
Remembered(r) ==
    \/ r.time < timestamp[r.worker]
    \/ r.time = timestamp[r.worker] /\ r.number <= number[r.worker]

SameParts(r, q) == r.worker = q.worker /\ r.time = q.time /\ r.number = q.number

Ordered ==
    /\ UuidTypeOK
    /\ backs = 0
    /\ \A w \in Workers : timestamp[w] <= clock[w]
    /\ \A r \in Ids : ~r.waited => r.number <= numberMax /\ Remembered(r)
    /\ last # NoId /\ ~last.waited => \A r \in issued : ~r.waited => ~SameParts(r, last)

(* NewUuidWorker has given out nothing. *)
LEMMA InitOrdered == UuidInit => Ordered
<1> SUFFICES ASSUME UuidInit PROVE Ordered
  OBVIOUS
<1>1. waiting \in [Workers -> BOOLEAN]
  BY DEF UuidInit
<1>2. UuidTypeOK
  BY <1>1 DEF UuidInit, UuidTypeOK
<1> QED
  BY <1>2 DEF UuidInit, Ordered, Ids

(* Get returns parts that no earlier Get without a wait has returned, when *)
(* those are all behind the object's new timestamp and number.             *)
LEMMA ReturnOrdered ==
    ASSUME Ordered, NEW w \in Workers, NEW n \in Nat, NEW waited \in BOOLEAN,
           Return(w, clock[w], n, waited),
           timestamp' \in [Workers -> Nat], number' \in [Workers -> Nat],
           waiting' \in [Workers -> BOOLEAN], UNCHANGED <<clock, backs>>,
           \A v \in Workers : timestamp'[v] <= clock[v],
           \A r \in Ids : ~r.waited => Remembered(r)',
           ~waited => /\ n <= numberMax
                      /\ timestamp'[w] = clock[w] /\ number'[w] = n
                      /\ \A r \in Ids : ~r.waited /\ r.worker = w =>
                             r.time # clock[w] \/ r.number # n
    PROVE  Ordered'
<1> DEFINE new == [worker |-> w, time |-> clock[w], number |-> n, waited |-> waited]
<1>1. issued' = Ids /\ last' = new
  BY DEF Return, Ids
<1>2. new \in Parts
  BY DEF Parts, Ordered, UuidTypeOK
<1>3. Ids \subseteq Parts
  BY DEF Ordered, UuidTypeOK, Ids
<1>4. UuidTypeOK'
  BY <1>1, <1>2, <1>3 DEF Ordered, UuidTypeOK
<1>5. Ids' \subseteq Ids \cup {new}
  BY Zenon, <1>1 DEF Ids
<1>6. new.worker = w /\ new.time = clock[w] /\ new.number = n /\ new.waited = waited
  BY Zenon
<1>7. ASSUME NEW r \in Ids', ~r.waited
      PROVE  r.number <= numberMax /\ Remembered(r)'
  <2>1. CASE r \in Ids
    BY Zenon, <1>7, <2>1 DEF Ordered
  <2>2. CASE r = new
    BY <1>6, <1>7, <2>2 DEF Remembered
  <2> QED
    BY <1>5, <2>1, <2>2
<1>8. ASSUME ~waited, NEW r \in Ids, ~r.waited
      PROVE  ~SameParts(r, new)
  BY <1>6, <1>8 DEF SameParts
<1> HIDE DEF new
<1>9. last' # NoId /\ ~last'.waited => \A r \in issued' : ~r.waited => ~SameParts(r, last')
  BY Zenon, <1>1, <1>6, <1>8
<1>10. /\ \A v \in Workers : timestamp'[v] <= clock'[v]
       /\ backs' = 0
  BY Zenon DEF Ordered
<1> QED
  BY <1>4, <1>7, <1>9, <1>10 DEF Ordered, SameParts

(* Get, in all its branches, and clocks that do not step back preserve the *)
(* order of the ids.                                                       *)
LEMMA NextOrdered ==
    ASSUME Ordered, [UuidNext]_uuidVars, backs' = 0
    PROVE  Ordered'
<1> USE SnowflakeConstants
<1>1. ASSUME NEW w \in Workers, GetNext(w)
      PROVE  Ordered'
  <2>1. /\ timestamp' \in [Workers -> Nat] /\ number' \in [Workers -> Nat]
        /\ timestamp'[w] = clock[w] /\ number'[w] = 0
        /\ \A v \in Workers : v # w => timestamp'[v] = timestamp[v] /\ number'[v] = number[v]
    BY <1>1 DEF GetNext, Ordered, UuidTypeOK
  <2>2. timestamp[w] < clock[w]
    BY <1>1 DEF GetNext, Ordered, UuidTypeOK
  <2>3. \A v \in Workers : timestamp'[v] <= clock[v]
    BY <2>1 DEF Ordered, UuidTypeOK
  <2>4. ASSUME NEW r \in Ids, ~r.waited
        PROVE  Remembered(r)' /\ (r.worker = w => r.time # clock[w])
    <3>1. r \in Parts /\ Remembered(r)
      BY <2>4 DEF Ordered, UuidTypeOK, Ids
    <3>2. r.worker \in Workers /\ r.time \in Nat /\ r.number \in Nat
      BY <3>1 DEF Parts
    <3> QED
      BY <2>1, <2>2, <3>1, <3>2 DEF Remembered, Ordered, UuidTypeOK
  <2>5. waiting' \in [Workers -> BOOLEAN] /\ UNCHANGED <<clock, backs>>
    BY <1>1 DEF GetNext, Ordered, UuidTypeOK
  <2>6. 0 <= numberMax
    BY DEF numberMax
  <2>7. Return(w, clock[w], 0, FALSE)
    BY <1>1, Zenon DEF GetNext
  <2> QED
    BY Zenon, <2>1, <2>3, <2>4, <2>5, <2>6, <2>7, ReturnOrdered
<1>2. ASSUME NEW w \in Workers, GetSame(w)
      PROVE  Ordered'
  <2>1. /\ number' \in [Workers -> Nat] /\ number'[w] = number[w] + 1
        /\ \A v \in Workers : v # w => number'[v] = number[v]
        /\ timestamp' = timestamp /\ timestamp[w] = clock[w]
        /\ UNCHANGED <<clock, backs>>
    BY <1>2 DEF GetSame, Ordered, UuidTypeOK
  <2>2. ASSUME NEW r \in Ids, ~r.waited
        PROVE  Remembered(r)' /\ (r.worker = w => r.time # clock[w] \/ r.number # number[w] + 1)
    <3>1. r \in Parts /\ Remembered(r)
      BY <2>2 DEF Ordered, UuidTypeOK, Ids
    <3>2. r.worker \in Workers /\ r.time \in Nat /\ r.number \in Nat
      BY <3>1 DEF Parts
    <3> QED
      BY <2>1, <3>1, <3>2 DEF Remembered, Ordered, UuidTypeOK
  <2>3. CASE number[w] + 1 <= numberMax
    <3>1. Return(w, clock[w], number[w] + 1, FALSE) /\ UNCHANGED waiting
      <4>1. ~(number[w] + 1 > numberMax)
        BY <2>3 DEF Ordered, UuidTypeOK, numberMax
      <4> QED
        BY <1>2, <4>1, Zenon DEF GetSame
    <3>2. number[w] + 1 \in Nat /\ waiting' \in [Workers -> BOOLEAN]
      BY <3>1 DEF Ordered, UuidTypeOK
    <3>3. timestamp' \in [Workers -> Nat] /\ \A v \in Workers : timestamp'[v] <= clock[v]
      BY <2>1 DEF Ordered, UuidTypeOK
    <3> QED
      BY Zenon, <2>1, <2>2, <2>3, <3>1, <3>2, <3>3, ReturnOrdered
  <2>4. CASE ~(number[w] + 1 <= numberMax)
    <3>1. UNCHANGED <<issued, last>> /\ waiting' \in [Workers -> BOOLEAN]
      BY Zenon, <1>2, <2>4 DEF GetSame, Ordered, UuidTypeOK
    <3>2. UuidTypeOK'
      BY <2>1, <3>1 DEF Ordered, UuidTypeOK
    <3>3. Ids' = Ids
      BY <3>1 DEF Ids
    <3> QED
      BY <2>1, <2>2, <3>1, <3>2, <3>3 DEF Ordered
  <2> QED
    BY <2>3, <2>4
<1>3. ASSUME NEW w \in Workers, GetWaited(w)
      PROVE  Ordered'
  <2>1. /\ Return(w, clock[w], number[w], TRUE)
        /\ UNCHANGED <<clock, backs, timestamp, number>>
    BY Zenon, <1>3 DEF GetWaited
  <2>2. waiting' \in [Workers -> BOOLEAN]
    BY <1>3 DEF GetWaited, Ordered, UuidTypeOK
  <2>3. \A r \in Ids : ~r.waited => Remembered(r)'
    BY Zenon, <2>1 DEF Ordered, Remembered
  <2>4. /\ number[w] \in Nat /\ timestamp' \in [Workers -> Nat] /\ number' \in [Workers -> Nat]
        /\ \A v \in Workers : timestamp'[v] <= clock[v]
    BY <2>1 DEF Ordered, UuidTypeOK
  <2> QED
    BY Zenon, <2>1, <2>2, <2>3, <2>4, ReturnOrdered
<1>4. ASSUME NEW w \in Workers, Tick(w)
      PROVE  Ordered'
  <2>1. clock' \in [Workers -> Nat] /\ \A v \in Workers : clock[v] <= clock'[v]
    BY <1>4 DEF Tick, Ordered, UuidTypeOK
  <2>2. UNCHANGED <<backs, timestamp, number, waiting, issued, last>>
    BY <1>4 DEF Tick
  <2>3. \A v \in Workers : timestamp'[v] <= clock'[v]
    BY <2>1, <2>2 DEF Ordered, UuidTypeOK
  <2> QED
    BY <2>1, <2>2, <2>3 DEF Ordered, UuidTypeOK, Ids, Remembered
<1>5. ASSUME NEW w \in Workers, StepBack(w)
      PROVE  FALSE
  BY <1>5 DEF StepBack, Ordered
<1>6. CASE UNCHANGED uuidVars
  BY <1>6 DEF uuidVars, Ordered, UuidTypeOK, Ids, Remembered
<1> QED
  BY <1>1, <1>2, <1>3, <1>4, <1>5, <1>6 DEF UuidNext

(* While the number stays within numberMax it does not reach the worker's  *)
(* field, and the two fit below the time.                                  *)
LEMMA LowFields ==
    ASSUME NEW id \in 0 .. IDs - 1, NEW n \in 0 .. Numbers - 1
    PROVE  Low(id, n) = id * Numbers + n /\ Low(id, n) \in 0 .. IDs * Numbers - 1
<1> DEFINE base == IDs * Numbers
<1>1. Low(id, n) = id * Numbers + n
  BY SnowflakeConstants DEF Low, numberMax
<1>2. PICK e \in Nat : IDs = id + 1 + e
  <2>1. IDs - id - 1 \in Nat /\ IDs = id + 1 + (IDs - id - 1)
    BY SnowflakeConstants
  <2> QED
    BY Zenon, <2>1
<1>3. base = id * Numbers + Numbers + e * Numbers
  BY <1>2, SnowflakeConstants
<1>4. e * Numbers \in Nat /\ id * Numbers \in Nat
  BY SnowflakeConstants
<1> HIDE DEF base
<1>5. id * Numbers + n \in 0 .. base - 1
  BY <1>3, <1>4, SnowflakeConstants
<1> QED
  BY <1>1, <1>5 DEF base

(* Different parts give different ids: the fields do not overlap while     *)
(* numbers stay within numberMax.                                          *)
LEMMA IdInjective ==
    ASSUME DistinctWorkers, NEW r \in Parts, NEW q \in Parts,
           r.number <= numberMax, q.number <= numberMax, Id(r) = Id(q)
    PROVE  SameParts(r, q)
<1> DEFINE lr == Low(WorkerID[r.worker], r.number)
           lq == Low(WorkerID[q.worker], q.number)
           base == IDs * Numbers
<1>1. /\ r.worker \in Workers /\ q.worker \in Workers
      /\ r.time \in Nat /\ q.time \in Nat
      /\ r.number \in 0 .. Numbers - 1 /\ q.number \in 0 .. Numbers - 1
      /\ WorkerID[r.worker] \in 0 .. IDs - 1 /\ WorkerID[q.worker] \in 0 .. IDs - 1
  BY SnowflakeConstants DEF Parts, numberMax
<1>2. /\ lr = WorkerID[r.worker] * Numbers + r.number
      /\ lq = WorkerID[q.worker] * Numbers + q.number
  BY <1>1, LowFields
<1>3. base \in Nat \ {0}
  BY SnowflakeConstants
<1>5. lr \in 0 .. base - 1 /\ lq \in 0 .. base - 1
  BY <1>1, LowFields
<1>6. r.time * base + lr = q.time * base + lq
  BY DEF Id
<1> HIDE DEF base, lr, lq
<1>7. r.time = q.time /\ lr = lq
  <2>1. Apart(base, r.time, q.time, lr, lq)
    BY <1>1, <1>3, <1>5, FieldsApart, Zenon
  <2> QED
    BY <1>6, <2>1 DEF Apart
<1>8. WorkerID[r.worker] = WorkerID[q.worker] /\ r.number = q.number
  <2>1. /\ WorkerID[r.worker] \in Nat /\ WorkerID[q.worker] \in Nat
        /\ Numbers \in Nat \ {0}
    BY <1>1, SnowflakeConstants
  <2>2. Apart(Numbers, WorkerID[r.worker], WorkerID[q.worker], r.number, q.number)
    BY <1>1, <2>1, FieldsApart, Zenon
  <2> QED
    BY <1>2, <1>7, <2>2 DEF Apart
<1> QED
  BY <1>1, <1>7, <1>8 DEF DistinctWorkers, SameParts

(* The ids stay in order as long as no clock has been set back. *)
OrderedWhileSteady == backs \in Nat /\ (backs = 0 => Ordered)

(* Every step preserves the order, or is the step back that ends it. *)
LEMMA NextSteady == OrderedWhileSteady /\ [UuidNext]_uuidVars => OrderedWhileSteady'
<1> SUFFICES ASSUME OrderedWhileSteady, [UuidNext]_uuidVars PROVE OrderedWhileSteady'
  OBVIOUS
<1>1. backs' = backs \/ backs' = backs + 1
  BY Zenon DEF UuidNext, GetNext, GetSame, GetWaited, Tick, StepBack, uuidVars
<1>2. backs' \in Nat /\ (backs' = 0 => backs = 0)
  BY <1>1 DEF OrderedWhileSteady
<1> QED
  BY <1>2, NextOrdered DEF OrderedWhileSteady

(* With worker ids configured apart, and until a clock is set back, Get    *)
(* never repeats an id that it returned without waiting, whatever the      *)
(* widths of the fields, the number of workers and their clocks.           *)
THEOREM UniqueWithoutWaitHolds ==
    ASSUME DistinctWorkers
    PROVE  UuidSpec => []UniqueWithoutWait
<1>1. ASSUME OrderedWhileSteady PROVE UniqueWithoutWait
  <2> SUFFICES ASSUME backs = 0, last # NoId, ~last.waited,
                      NEW r \in issued, ~r.waited, Id(r) = Id(last)
               PROVE  FALSE
    BY DEF UniqueWithoutWait
  <2>0. Ordered
    BY <1>1 DEF OrderedWhileSteady
  <2>1. r \in Ids /\ last \in Ids /\ r \in Parts /\ last \in Parts
    BY <2>0 DEF Ids, Ordered, UuidTypeOK
  <2>2. r.number <= numberMax /\ last.number <= numberMax
    BY <2>0, <2>1 DEF Ordered
  <2>3. SameParts(r, last)
    BY <2>1, <2>2, IdInjective
  <2> QED
    BY <2>0, <2>3 DEF Ordered
<1>2. UuidInit => OrderedWhileSteady
  BY InitOrdered DEF UuidInit, OrderedWhileSteady
<1> QED
  BY <1>1, <1>2, NextSteady, PTL DEF UuidSpec
-----------------------------------------------------------------------------
(* Without a wait the number stays within its field, whatever the clocks do. *)
Numbered == UuidTypeOK /\ \A r \in Ids : ~r.waited => r.number <= numberMax

(* No id has been returned at first. *)
LEMMA InitNumbered == UuidInit => Numbered
BY InitOrdered DEF Ordered, Numbered, UuidInit, Ids

(* A number that was returned without waiting is within its field. *)
LEMMA ReturnNumbered ==
    ASSUME Numbered, NEW w \in Workers, NEW n \in Nat, NEW waited \in BOOLEAN,
           Return(w, clock[w], n, waited), ~waited => n <= numberMax,
           timestamp' \in [Workers -> Nat], number' \in [Workers -> Nat],
           waiting' \in [Workers -> BOOLEAN], UNCHANGED <<clock, backs>>
    PROVE  Numbered'
<1> DEFINE new == [worker |-> w, time |-> clock[w], number |-> n, waited |-> waited]
<1>1. issued' = Ids /\ last' = new
  BY DEF Return, Ids
<1>2. new \in Parts /\ new.number = n /\ new.waited = waited
  BY DEF Parts, Numbered, UuidTypeOK
<1> HIDE DEF new
<1>3. Ids \subseteq Parts
  BY DEF Numbered, UuidTypeOK, Ids
<1>4. UuidTypeOK'
  BY <1>1, <1>2, <1>3 DEF Numbered, UuidTypeOK
<1>5. \A r \in Ids' : r \in Ids \/ r = new
  BY <1>1 DEF Ids
<1> QED
  BY <1>2, <1>4, <1>5 DEF Numbered

(* Every step of a worker and of a clock preserves Numbered. *)
LEMMA NextNumbered == Numbered /\ [UuidNext]_uuidVars => Numbered'
<1> SUFFICES ASSUME Numbered, [UuidNext]_uuidVars PROVE Numbered'
  OBVIOUS
<1> USE SnowflakeConstants
<1>1. ASSUME NEW w \in Workers, GetNext(w) PROVE Numbered'
  <2>1. timestamp' \in [Workers -> Nat] /\ number' \in [Workers -> Nat] /\ 0 <= numberMax
    BY <1>1 DEF GetNext, Numbered, UuidTypeOK, numberMax
  <2>2. Return(w, clock[w], 0, FALSE) /\ UNCHANGED <<clock, backs>> /\ waiting' \in [Workers -> BOOLEAN]
    BY Zenon, <1>1 DEF GetNext, Numbered, UuidTypeOK
  <2> QED
    BY Zenon, <2>1, <2>2, ReturnNumbered
<1>2. ASSUME NEW w \in Workers, GetSame(w) PROVE Numbered'
  <2>1. /\ timestamp' \in [Workers -> Nat] /\ number' \in [Workers -> Nat]
        /\ number[w] + 1 \in Nat /\ UNCHANGED <<clock, backs>>
    BY <1>2 DEF GetSame, Numbered, UuidTypeOK
  <2>2. waiting' \in [Workers -> BOOLEAN]
    BY Zenon, <1>2 DEF GetSame, Numbered, UuidTypeOK
  <2>3. CASE Return(w, clock[w], number[w] + 1, FALSE) /\ number[w] + 1 <= numberMax
    BY Zenon, <2>1, <2>2, <2>3, ReturnNumbered
  <2>4. CASE UNCHANGED <<issued, last>>
    BY <2>1, <2>2, <2>4 DEF Numbered, UuidTypeOK, Ids
  <2> QED
    BY Zenon, <1>2, <2>3, <2>4 DEF GetSame
<1>3. ASSUME NEW w \in Workers, GetWaited(w) PROVE Numbered'
  <2>1. number[w] \in Nat /\ timestamp' \in [Workers -> Nat] /\ number' \in [Workers -> Nat]
    BY <1>3 DEF GetWaited, Numbered, UuidTypeOK
  <2>2. /\ Return(w, clock[w], number[w], TRUE) /\ UNCHANGED <<clock, backs>>
        /\ waiting' \in [Workers -> BOOLEAN]
    BY Zenon, <1>3 DEF GetWaited, Numbered, UuidTypeOK
  <2> QED
    BY Zenon, <2>1, <2>2, ReturnNumbered
<1>4. ASSUME NEW w \in Workers, Tick(w) \/ StepBack(w) PROVE Numbered'
  <2>1. clock' \in [Workers -> Nat] /\ backs' \in Nat
    BY <1>4 DEF Tick, StepBack, Numbered, UuidTypeOK
  <2>2. UNCHANGED <<timestamp, number, waiting, issued, last>>
    BY <1>4 DEF Tick, StepBack
  <2> QED
    BY <2>1, <2>2 DEF Numbered, UuidTypeOK, Ids
<1>5. CASE UNCHANGED uuidVars
  BY <1>5 DEF uuidVars, Numbered, UuidTypeOK, Ids
<1> QED
  BY <1>1, <1>2, <1>3, <1>4, <1>5 DEF UuidNext

(* Unmarshal takes every id that Get returned without waiting apart into   *)
(* the worker, the number and the second it was made of, for all widths of *)
(* the fields and also after a clock was set back.                         *)
THEOREM UnmarshalRecoversHolds == UuidSpec => []UnmarshalRecovers
<1>1. ASSUME Numbered PROVE UnmarshalRecovers
  <2> SUFFICES ASSUME NEW r \in Ids, ~r.waited
               PROVE  Unmarshal(Id(r)) = [time   |-> r.time \div Second,
                                          worker |-> WorkerID[r.worker],
                                          number |-> r.number]
    BY DEF UnmarshalRecovers
  <2> DEFINE id == WorkerID[r.worker]
             n == r.number
             low == Low(id, n)
             base == IDs * Numbers
  <2>1. r \in Parts /\ r.number <= numberMax
    BY <1>1 DEF Numbered, UuidTypeOK, Ids
  <2>2. r.time \in Nat /\ id \in 0 .. IDs - 1 /\ n \in 0 .. Numbers - 1
    BY <2>1, SnowflakeConstants DEF Parts, numberMax
  <2>3. low = id * Numbers + n /\ low \in 0 .. base - 1
    BY <2>2, LowFields
  <2>4. base \in Nat \ {0} /\ Numbers \in Nat \ {0} /\ IDs \in Nat
    BY SnowflakeConstants
  <2>5. Id(r) = r.time * base + low
    BY DEF Id
  <2>6. Id(r) = (r.time * IDs + id) * Numbers + n
    BY <2>2, <2>3, <2>4, <2>5
  <2>7. r.time * IDs + id \in Nat
    BY <2>2, <2>4
  <2> HIDE DEF low, base, id, n
  <2>8. ReadBack(Id(r), base, r.time, low)
    BY Zenon, <2>2, <2>3, <2>4, <2>5, FieldsRead
  <2>9. ReadBack(low, Numbers, id, n)
    <3>1. id \in Nat
      BY <2>2, <2>4
    <3> QED
      BY Zenon, <3>1, <2>2, <2>3, <2>4, FieldsRead
  <2>10. ReadBack(Id(r), Numbers, r.time * IDs + id, n)
    BY Zenon, <2>2, <2>4, <2>6, <2>7, FieldsRead
  <2> QED
    BY <2>8, <2>9, <2>10 DEF ReadBack, Unmarshal, base, id, n
<1> QED
  BY <1>1, InitNumbered, NextNumbered, PTL DEF UuidSpec
-----------------------------------------------------------------------------
(* What the code around Accounted relies on: the loop holds a client while *)
(* it registers or unregisters one; a client is listed under its session;  *)
(* nothing is listed once the loop has left its select for good; a         *)
(* shutdownClients that has returned holds no client.                      *)
Shape ==
    /\ loop \in {"register", "unregister"} => cur \in Clients
    /\ \A s \in Sessions : clients[s] # None => SessionOf[clients[s]] = s
    /\ loop \in {"stopping", "done"} => \A s \in Sessions : clients[s] = None
    /\ loop = "done" => closing["loop"] = {}
    /\ stopper # "closing" => closing["Stop"] = {}

Typed == TypeOK /\ Shape

(* NewClientManager and NewClient establish both. *)
LEMMA InitTyped == Init => Typed
<1> SUFFICES ASSUME Init PROVE Typed
  BY Zenon
<1>1. TypeOK
  <2>1. /\ closed \in [Clients -> BOOLEAN]
        /\ open \in [Clients -> BOOLEAN]
    BY Zenon DEF Init
  <2>2. stopped \in BOOLEAN
    BY Zenon DEF Init
  <2>3. send \in [Clients -> 0 .. SendCap]
    BY WsConstants DEF Init
  <2>4. /\ loop \in LoopStates
        /\ cur \in Clients \cup {None}
        /\ stopper \in {"idle", "taking", "closing"}
        /\ clients \in [Sessions -> Clients \cup {None}]
        /\ userIdMap \in [Users -> Sessions \cup {None}]
        /\ closing \in [Shutdowns -> SUBSET Clients]
        /\ handler \in [Clients -> {"new", "registering", "accepted", "ignored"}]
        /\ reader \in [Clients -> {"none", "reading", "unregistering", "gone"}]
        /\ writer \in [Clients -> {"none", "running", "gone"}]
    BY Zenon DEF Init, LoopStates
  <2> QED
    BY Zenon, <2>1, <2>2, <2>3, <2>4 DEF TypeOK
<1>2. Shape
  BY Zenon DEF Init, Shape, Shutdowns
<1> QED
  BY Zenon, <1>1, <1>2 DEF Typed

(* Send keeps every buffer within its capacity. *)
LEMMA SendToType ==
    ASSUME TypeOK, NEW S, SendTo(S)
    PROVE  send' \in [Clients -> 0 .. SendCap]
BY WsConstants DEF TypeOK, SendTo

(* Close sets two flags of one client. *)
LEMMA CloseType ==
    ASSUME TypeOK, NEW c, CloseClient(c)
    PROVE  /\ closed' \in [Clients -> BOOLEAN]
           /\ open' \in [Clients -> BOOLEAN]
BY Zenon DEF TypeOK, CloseClient

(* shutdownClients leaves nothing listed. *)
LEMMA TakeType ==
    ASSUME TypeOK, NEW p \in Shutdowns, TakeClients(p)
    PROVE  /\ closing' \in [Shutdowns -> SUBSET Clients]
           /\ clients' \in [Sessions -> Clients \cup {None}]
           /\ \A s \in Sessions : clients'[s] = None
           /\ userIdMap' \in [Users -> Sessions \cup {None}]
           /\ \A q \in Shutdowns : q # p => closing'[q] = closing[q]
BY Zenon DEF TypeOK, TakeClients

(* The loop's steps preserve the types and the shape of the state. *)
LEMMA LoopTyped ==
    ASSUME Typed, Start \/ LoopStep
    PROVE  Typed'
<1> USE DEF Typed
<1>1. CASE Start
  BY Zenon, <1>1 DEF Start, TypeOK, Shape, LoopStates, managerVars, clientVars
<1>2. CASE LoopRegisters
  BY Zenon, <1>2, WsConstants DEF LoopRegisters, TypeOK, Shape, LoopStates, clientVars
<1>3. CASE LoopUnregisters
  <2>1. closed' \in [Clients -> BOOLEAN] /\ open' \in [Clients -> BOOLEAN]
    BY Zenon, <1>3, CloseType DEF LoopUnregisters, TypeOK
  <2> QED
    BY Zenon, <1>3, <2>1, WsConstants DEF LoopUnregisters, TypeOK, Shape, LoopStates
<1>4. CASE LoopBroadcasts
  <2>1. send' \in [Clients -> 0 .. SendCap]
    BY Zenon, <1>4, SendToType DEF LoopBroadcasts
  <2> QED
    BY Zenon, <1>4, <2>1 DEF LoopBroadcasts, TypeOK, Shape, LoopStates, managerVars
<1>5. CASE LoopStops
  <2>1. "loop" \in Shutdowns /\ "Stop" \in Shutdowns
    BY Zenon DEF Shutdowns
  <2> QED
    BY <1>5, <2>1, TakeType DEF LoopStops, TypeOK, Shape, LoopStates, clientVars
<1>6. CASE LoopReturns
  BY Zenon, <1>6 DEF LoopReturns, TypeOK, Shape, LoopStates, managerVars, clientVars
<1>7. ASSUME NEW c \in Clients, CloseNext("loop", c)
      PROVE  Typed'
  <2>1. closed' \in [Clients -> BOOLEAN] /\ open' \in [Clients -> BOOLEAN]
    BY Zenon, <1>7, CloseType DEF CloseNext
  <2> QED
    BY Zenon, <1>7, <2>1 DEF CloseNext, TypeOK, Shape, Shutdowns, managerVars
<1> QED
  BY Zenon, <1>1, <1>2, <1>3, <1>4, <1>5, <1>6, <1>7 DEF LoopStep

(* The calls of the manager preserve the types and the shape of the state. *)
LEMMA CallTyped ==
    ASSUME Typed, ManagerCall
    PROVE  Typed'
<1> USE DEF Typed
<1>1. CASE BroadcastMessage
  BY Zenon, <1>1 DEF BroadcastMessage, TypeOK, Shape, LoopStates, managerVars, clientVars
<1>3. CASE ClientKeepLive
  <2>1. send' \in [Clients -> 0 .. SendCap]
    BY Zenon, <1>3, SendToType DEF ClientKeepLive
  <2> QED
    BY Zenon, <1>3, <2>1 DEF ClientKeepLive, TypeOK, Shape, managerVars
<1>4. ASSUME NEW u \in Users, KickClientByUserId(u)
      PROVE  Typed'
  <2>1. closed' \in [Clients -> BOOLEAN] /\ open' \in [Clients -> BOOLEAN]
    BY Zenon, <1>4, CloseType DEF KickClientByUserId
  <2> QED
    BY Zenon, <1>4, <2>1 DEF KickClientByUserId, TypeOK, Shape
<1>5. ASSUME NEW s \in Sessions, KickClientBySessionId(s)
      PROVE  Typed'
  <2>1. closed' \in [Clients -> BOOLEAN] /\ open' \in [Clients -> BOOLEAN]
    BY Zenon, <1>5, CloseType DEF KickClientBySessionId
  <2> QED
    BY Zenon, <1>5, <2>1 DEF KickClientBySessionId, TypeOK, Shape
<1>6. CASE Stop
  BY Zenon, <1>6 DEF Stop, TypeOK, Shape, managerVars, clientVars
<1>7. CASE StopTakes
  <2>1. "loop" \in Shutdowns /\ "Stop" \in Shutdowns
    BY Zenon DEF Shutdowns
  <2> QED
    BY <1>7, <2>1, TakeType DEF StopTakes, TypeOK, Shape, clientVars
<1>8. CASE StopReturns
  BY Zenon, <1>8 DEF StopReturns, TypeOK, Shape, managerVars, clientVars
<1>9. ASSUME NEW c \in Clients, CloseNext("Stop", c)
      PROVE  Typed'
  <2>1. closed' \in [Clients -> BOOLEAN] /\ open' \in [Clients -> BOOLEAN]
    BY Zenon, <1>9, CloseType DEF CloseNext
  <2> QED
    BY Zenon, <1>9, <2>1 DEF CloseNext, TypeOK, Shape, Shutdowns, managerVars
<1> QED
  BY Zenon, <1>1, <1>3, <1>4, <1>5, <1>6, <1>7, <1>8, <1>9 DEF ManagerCall

(* The steps of a client preserve the types and the shape of the state. *)
LEMMA ClientTyped ==
    ASSUME Typed, NEW c \in Clients, ClientStep(c)
    PROVE  Typed'
<1> USE DEF Typed, TypeOK, Shape, LoopStates, managerVars, clientVars
<1>1. CASE RegisterClient(c)
  BY Zenon, <1>1 DEF RegisterClient
<1>2. CASE RegisterReceived(c)
  BY Zenon, <1>2 DEF RegisterReceived
<1>3. CASE RegisterIgnored(c)
  BY Zenon, <1>3 DEF RegisterIgnored
<1>4. CASE Listen(c)
  BY Zenon, <1>4 DEF Listen
<1>5. CASE ReadAnswers(c)
  <2>1. send' \in [Clients -> 0 .. SendCap]
    BY Zenon, <1>5, SendToType DEF ReadAnswers
  <2> QED
    BY Zenon, <1>5, <2>1 DEF ReadAnswers
<1>6. CASE ReadFails(c)
  BY Zenon, <1>6 DEF ReadFails
<1>7. CASE UnregisterReceived(c)
  BY Zenon, <1>7 DEF UnregisterReceived, ReaderReturns
<1>8. CASE UnregisterIgnored(c)
  BY Zenon, <1>8 DEF UnregisterIgnored, ReaderReturns
<1>9. CASE WriterWrites(c)
  BY <1>9, WsConstants DEF WriterWrites
<1>10. CASE WriterReturns(c)
  BY <1>10, WsConstants DEF WriterReturns
<1> QED
  BY Zenon, <1>1, <1>2, <1>3, <1>4, <1>5, <1>6, <1>7, <1>8, <1>9, <1>10 DEF ClientStep

(* Every step preserves the types and the shape of the state. *)
LEMMA NextTyped == Typed /\ [Next]_vars => Typed'
<1> SUFFICES ASSUME Typed, [Next]_vars PROVE Typed'
  BY Zenon
<1>1. CASE UNCHANGED vars
  BY Zenon, <1>1 DEF vars, managerVars, clientVars, Typed, TypeOK, Shape
<1> QED
  BY Zenon, <1>1, LoopTyped, CallTyped, ClientTyped DEF Next

(* Type correctness, and the shape the code relies on. *)
THEOREM TypeCorrect == Spec => []Typed
BY InitTyped, NextTyped, PTL DEF Spec
-----------------------------------------------------------------------------
(* shutdownClients moves the listed clients into its own hands. *)
LEMMA TakeAccounted ==
    ASSUME Typed, Accounted, NEW p \in Shutdowns, TakeClients(p),
           UNCHANGED <<closed, handler, cur>>,
           loop' = loop \/ (loop = "select" /\ loop' = "stopping")
    PROVE  Accounted'
<1> USE DEF Typed, TypeOK, Places, Shutdowns
<1>1. \A c \in Clients : ~Listed(c)'
  BY WsConstants, TakeType DEF Listed
<1>2. \A c \in Clients : c \in closing'[p] <=> c \in closing[p] \/ Listed(c)
  BY Zenon DEF TakeClients
<1>3. \A q \in Shutdowns : q # p => closing'[q] = closing[q]
  BY Zenon, TakeType
<1>4. loop = "register" <=> loop' = "register"
  BY Zenon
<1> SUFFICES ASSUME NEW c \in Clients
             PROVE  /\ handler[c] = "accepted" <=> \E place \in Places : Held(c, place)'
                    /\ \A r, q \in Places : Held(c, r)' /\ Held(c, q)' => r = q
  BY Zenon DEF Accounted
<1>5. /\ handler[c] = "accepted" <=> \E place \in Places : Held(c, place)
      /\ \A r, q \in Places : Held(c, r) /\ Held(c, q) => r = q
  BY Zenon DEF Accounted
<1>6. /\ ~Held(c, "listed")'
      /\ Held(c, p)' <=> Held(c, p) \/ Held(c, "listed")
      /\ \A r \in Places : r \notin {p, "listed"} => (Held(c, r)' <=> Held(c, r))
  BY Zenon, <1>1, <1>2, <1>3, <1>4 DEF Held
<1> QED
  BY Zenon, <1>5, <1>6

(* Closing a client that is listed under s, or held by shutdownClients,    *)
(* and removing it from there moves it to the closed ones.                 *)
LEMMA ListedToClosed ==
    ASSUME Typed, Accounted, UniqueSessions, NEW s \in Sessions, clients[s] # None,
           CloseClient(clients[s]), clients' = [clients EXCEPT ![s] = None],
           UNCHANGED <<closing, handler>>,
           (loop' = loop /\ cur' = cur) \/ (loop # "register" /\ loop' # "register")
    PROVE  Accounted'
<1> USE DEF Typed, TypeOK, Places, Shutdowns
<1>1. PICK d \in Clients : d = clients[s] /\ Listed(d) /\ SessionOf[d] = s
  BY DEF Shape, Listed
<1>2. \A c \in Clients : c # d => (Listed(c)' <=> Listed(c)) /\ closed'[c] = closed[c]
  BY Zenon, <1>1, WsConstants DEF Listed, CloseClient, UniqueSessions
<1>3. ~Listed(d)' /\ closed'[d]
  BY Zenon, <1>1, WsConstants DEF Listed, CloseClient
<1> SUFFICES ASSUME NEW c \in Clients
             PROVE  /\ handler[c] = "accepted" <=> \E place \in Places : Held(c, place)'
                    /\ \A r, q \in Places : Held(c, r)' /\ Held(c, q)' => r = q
  BY Zenon DEF Accounted
<1>4. /\ handler[c] = "accepted" <=> \E place \in Places : Held(c, place)
      /\ \A r, q \in Places : Held(c, r) /\ Held(c, q) => r = q
  BY Zenon DEF Accounted
<1>5. CASE c # d
  <2>1. \A r \in Places : Held(c, r)' <=> Held(c, r)
    BY Zenon, <1>2, <1>5 DEF Held
  <2> QED
    BY Zenon, <1>4, <2>1
<1>6. CASE c = d
  <2>1. /\ ~Held(c, "listed")'
        /\ Held(c, "closed")'
        /\ \A r \in Places : r \notin {"closed", "listed"} => (Held(c, r)' <=> Held(c, r))
    BY Zenon, <1>3, <1>6 DEF Held
  <2>2. Held(c, "listed")
    BY Zenon, <1>1, <1>6 DEF Held
  <2> QED
    BY Zenon, <1>4, <2>1, <2>2
<1> QED
  BY Zenon, <1>5, <1>6

(* Nobody holds a client at first. *)
LEMMA InitAccounted == Init => Accounted
BY WsConstants DEF Init, Accounted, Held, Listed, Places, Shutdowns

(* Every step preserves Accounted. *)
LEMMA NextAccounted ==
    ASSUME UniqueSessions, Typed, Accounted, [Next]_vars
    PROVE  Accounted'
<1> USE DEF Typed
<1> DEFINE Same == /\ UNCHANGED <<clients, closing, closed>>
                   /\ \A c \in Clients : handler'[c] = "accepted" <=> handler[c] = "accepted"
                   /\ (loop = "register" /\ loop' = "register" /\ cur' = cur)
                      \/ (loop # "register" /\ loop' # "register")
<1>1. CASE Same
  BY <1>1 DEF Accounted, Held, Listed, Places, Shutdowns
<1>2. CASE LoopRegisters
  <2>1. cur \in Clients /\ Held(cur, "pending")
    BY Zenon, <1>2 DEF LoopRegisters, Shape, Held
  <2>2. \A c \in Clients : Listed(c)' <=> Listed(c) \/ c = cur
    BY Zenon, <1>2, <2>1, WsConstants DEF LoopRegisters, Listed, UniqueSessions, TypeOK
  <2>3. \A c \in Clients : ~Held(c, "pending")'
    BY Zenon, <1>2 DEF LoopRegisters, Held, Shutdowns
  <2>4. \A c \in Clients : \A r \in Places :
            r \notin {"pending", "listed"} => (Held(c, r)' <=> Held(c, r))
    BY Zenon, <1>2 DEF LoopRegisters, Held, clientVars, Places
  <2>5. \A c \in Clients : Held(c, "listed")' <=> Held(c, "listed") \/ c = cur
    BY Zenon, <2>2 DEF Held, Shutdowns
  <2>6. \A c \in Clients : Held(c, "pending") <=> c = cur
    BY Zenon, <1>2, <2>1 DEF LoopRegisters, Held, Shutdowns
  <2>7. UNCHANGED handler
    BY Zenon, <1>2 DEF LoopRegisters
  <2> QED
    BY Zenon, <2>1, <2>3, <2>4, <2>5, <2>6, <2>7 DEF Accounted, Places
<1>3. CASE LoopUnregisters
  <2>1. CASE clients[SessionOf[cur]] = None
    BY Zenon, <1>1, <1>3, <2>1 DEF LoopUnregisters
  <2>2. CASE clients[SessionOf[cur]] # None
    <3>1. cur \in Clients /\ SessionOf[cur] \in Sessions
      BY Zenon, <1>3, WsConstants DEF LoopUnregisters, Shape
    <3>2. clients[SessionOf[cur]] = cur
      BY <2>2, <3>1 DEF Shape, TypeOK, UniqueSessions
    <3>3. PICK s \in Sessions : s = SessionOf[cur]
      BY Zenon, <3>1
    <3>4. /\ clients[s] # None /\ CloseClient(clients[s])
          /\ clients' = [clients EXCEPT ![s] = None]
      BY Zenon, <1>3, <2>2, <3>2, <3>3 DEF LoopUnregisters, CloseClient
    <3> QED
      BY Zenon, <1>3, <3>4, ListedToClosed DEF LoopUnregisters
  <2> QED
    BY Zenon, <2>1, <2>2
<1>4. CASE LoopStops \/ StopTakes
  <2>1. "loop" \in Shutdowns /\ "Stop" \in Shutdowns
    BY Zenon DEF Shutdowns
  <2> QED
    BY Zenon, <1>4, <2>1, TakeAccounted DEF LoopStops, StopTakes, clientVars
<1>5. ASSUME NEW p \in Shutdowns, NEW c \in Clients, CloseNext(p, c)
      PROVE  Accounted'
  <2>1. /\ Held(c, p) /\ ~Held(c, p)' /\ Held(c, "closed")'
        /\ \A r \in Places : r \notin {p, "closed"} => (Held(c, r)' <=> Held(c, r))
    BY Zenon, <1>5 DEF CloseNext, CloseClient, Held, Listed, Places, Shutdowns, TypeOK, managerVars
  <2>2. \A e \in Clients : e # c => \A r \in Places : Held(e, r)' <=> Held(e, r)
    BY Zenon, <1>5 DEF CloseNext, CloseClient, Held, Listed, Places, Shutdowns, TypeOK, managerVars
  <2>3. UNCHANGED handler
    BY Zenon, <1>5 DEF CloseNext
  <2> QED
    BY Zenon, <2>1, <2>2, <2>3 DEF Accounted, Places, Shutdowns
<1>6. ASSUME NEW u \in Users, KickClientByUserId(u)
      PROVE  Accounted'
  <2>1. userIdMap[u] \in Sessions
    BY Zenon, <1>6 DEF KickClientByUserId, TypeOK
  <2> QED
    BY Zenon, <1>6, <2>1, ListedToClosed DEF KickClientByUserId
<1>7. ASSUME NEW s \in Sessions, KickClientBySessionId(s)
      PROVE  Accounted'
  BY Zenon, <1>7, ListedToClosed DEF KickClientBySessionId
<1>8. ASSUME NEW c \in Clients, RegisterReceived(c)
      PROVE  Accounted'
  <2>1. /\ handler[c] # "accepted" /\ handler'[c] = "accepted"
        /\ \A e \in Clients : e # c => handler'[e] = handler[e]
    BY Zenon, <1>8 DEF RegisterReceived, TypeOK
  <2>2. \A e \in Clients : ~Held(e, "pending") /\ (Held(e, "pending")' <=> e = c)
    BY Zenon, <1>8 DEF RegisterReceived, Held, Shutdowns
  <2>3. \A e \in Clients : \A r \in Places :
            r # "pending" => (Held(e, r)' <=> Held(e, r))
    BY Zenon, <1>8 DEF RegisterReceived, Held, Listed, Places, managerVars, clientVars
  <2> QED
    BY Zenon, <2>1, <2>2, <2>3 DEF Accounted, Places
<1>9. ASSUME NEW c \in Clients, RegisterClient(c) \/ RegisterIgnored(c)
      PROVE  Accounted'
  <2>1. \A e \in Clients : handler'[e] = "accepted" <=> handler[e] = "accepted"
    BY Zenon, <1>9 DEF RegisterClient, RegisterIgnored, TypeOK
  <2> QED
    BY Zenon, <1>1, <1>9, <2>1 DEF RegisterClient, RegisterIgnored, managerVars, clientVars
<1>10. ASSUME NEW c \in Clients, UnregisterReceived(c)
       PROVE  Accounted'
  BY Zenon, <1>1, <1>10 DEF UnregisterReceived, ReaderReturns, managerVars
<1>11. ASSUME NEW c \in Clients,
              \/ Listen(c) \/ ReadAnswers(c) \/ ReadFails(c) \/ UnregisterIgnored(c)
              \/ WriterWrites(c) \/ WriterReturns(c)
       PROVE  Accounted'
  BY Zenon, <1>1, <1>11 DEF Listen, ReadAnswers, ReadFails, UnregisterIgnored, ReaderReturns,
       WriterWrites, WriterReturns, managerVars, clientVars
<1>12. CASE \/ Start \/ LoopBroadcasts \/ LoopReturns \/ BroadcastMessage \/ ClientKeepLive
  BY Zenon, <1>1, <1>12 DEF Start, LoopBroadcasts, LoopReturns, BroadcastMessage,
       ClientKeepLive, managerVars, clientVars
<1>13. CASE Stop \/ StopReturns \/ UNCHANGED vars
  BY Zenon, <1>1, <1>13 DEF Stop, StopReturns, vars, managerVars, clientVars
<1> QED
  BY Zenon, <1>2, <1>3, <1>4, <1>5, <1>6, <1>7, <1>8, <1>9, <1>10, <1>11, <1>12, <1>13
     DEF Next, LoopStep, ManagerCall, ClientStep, Shutdowns

(* No accepted client is lost or held twice, for any number of clients.    *)
(* With a shared session id the unregistration of one client would drop    *)
(* the other.                                                              *)
THEOREM AccountedHolds ==
    ASSUME UniqueSessions
    PROVE  Spec => []Accounted
BY InitTyped, NextTyped, InitAccounted, NextAccounted, PTL DEF Spec

(* When Start has returned and no Stop is under way, every accepted client *)
(* is closed.                                                              *)
THEOREM AllKickedHolds ==
    ASSUME UniqueSessions
    PROVE  Spec => []AllKicked
<1>1. Typed /\ Accounted => AllKicked
  BY WsConstants DEF Typed, TypeOK, Shape, Accounted, AllKicked, Held, Listed, Places, Shutdowns
<1> QED
  BY <1>1, TypeCorrect, AccountedHolds, PTL

-----------------------------------------------------------------------------
(* What a node can take for the key it hears of. *)
InRange(S) == \A k \in S : k.count \in 0..Policies - 1
Fits(q) == \E S : q \in Seq(S) /\ InRange(S)

(* Beside OneHandler: the counts a node has not looked at yet are in       *)
(* range, and a node that puts a value again has a delay left.             *)
Counts ==
    /\ inbox = [n \in Nodes |-> inbox[n]] /\ job = [n \in Nodes |-> job[n]]
    /\ \A n \in Nodes : Fits(inbox[n])
    /\ \A n \in Nodes : node[n] = "put" => job[n].count < Policies

LockInv == OneHandler /\ Counts

(* An empty inbox holds no counts. *)
LEMMA FitsEmpty == Fits(<<>>)
<1>1. <<>> \in Seq({}) OBVIOUS
<1>2. InRange({}) BY Zenon DEF InRange
<1> QED BY <1>1, <1>2, Zenon DEF Fits

(* An expiry that is sent to a node has a count in range. *)
LEMMA FitsAppend ==
    ASSUME NEW q, Fits(q), NEW k, k.count \in 0..Policies - 1
    PROVE  Fits(Append(q, k))
<1>1. PICK S : q \in Seq(S) /\ InRange(S) BY Zenon DEF Fits
<1>2. q \in Seq(S \cup {k}) BY <1>1
<1>3. Append(q, k) \in Seq(S \cup {k}) BY <1>2
<1>4. InRange(S \cup {k}) BY Zenon, <1>1 DEF InRange
<1> QED BY Zenon, <1>3, <1>4 DEF Fits

(* An expiry that a node takes from its inbox has a count in range. *)
LEMMA FitsHeadTail ==
    ASSUME NEW q, Fits(q), q # <<>>
    PROVE  Head(q).count \in 0..Policies - 1 /\ Fits(Tail(q))
<1>1. PICK S : q \in Seq(S) /\ InRange(S) BY Zenon DEF Fits
<1>2. Head(q) \in S /\ Tail(q) \in Seq(S) BY Zenon, <1>1, HeadTailProperties
<1> QED BY Zenon, <1>1, <1>2 DEF Fits, InRange

(* Decoding keeps a count in range: one that it cannot read is 0. *)
LEMMA DecodedCount ==
    ASSUME NEW k, Policies \in Nat \ {0}, k.count \in 0..Policies - 1
    PROVE  decodePayload(k).count \in 0..Policies - 1
BY DEF decodePayload

(* At first there is no key and no lock. *)
LEMMA OneHandlerInit == Policies \in Nat \ {0} /\ NotificationInit => LockInv
<1> SUFFICES ASSUME Policies \in Nat \ {0}, NotificationInit PROVE LockInv
  BY Zenon
<1>1. NotificationTypeOK BY Zenon DEF NotificationInit, NotificationTypeOK, NodeStates
<1>2. Counts BY Zenon, FitsEmpty DEF NotificationInit, Counts
<1> QED BY Zenon, <1>1, <1>2 DEF NotificationInit, LockInv, OneHandler

(* Every put, expiry, attempt to lock and handling preserves LockInv. *)
LEMMA OneHandlerNext == Policies \in Nat \ {0} /\ LockInv /\ [NotificationNext]_redisVars => LockInv'
<1> SUFFICES ASSUME Policies \in Nat \ {0}, LockInv, [NotificationNext]_redisVars PROVE LockInv'
  BY Zenon
<1> USE DEF LockInv, OneHandler, NotificationTypeOK, Counts, NodeStates
<1>1. ASSUME NEW n \in Nodes, Subscribe(n) PROVE LockInv'
  BY Zenon, <1>1 DEF Subscribe, Go
<1>2. ASSUME NEW n \in Nodes, Receive(n) PROVE LockInv'
  <2> DEFINE p == decodePayload(Head(inbox[n]))
             q == [value |-> p.value, count |-> p.count + 1]
  <2>1. Head(inbox[n]).count \in 0..Policies - 1 /\ Fits(Tail(inbox[n]))
    BY Zenon, <1>2, FitsHeadTail DEF Receive
  <2>2. q.count \in 1..Policies
    <3>1. p.count \in 0..Policies - 1 BY Zenon, <2>1, DecodedCount
    <3>2. q.count = p.count + 1 BY Zenon
    <3> QED BY <3>1, <3>2
  <2>3. job' = [job EXCEPT ![n] = q] BY Zenon, <1>2 DEF Receive
  <2> HIDE DEF p, q
  <2> QED BY Zenon, <1>2, <2>1, <2>2, <2>3 DEF Receive, Go
<1>3. ASSUME NEW n \in Nodes, LockSetNX(n) PROVE LockInv'
  BY <1>3 DEF LockSetNX, Go, Locked, Fault
<1>4. ASSUME NEW n \in Nodes, LockGet(n) PROVE LockInv'
  BY <1>4 DEF LockGet, Go, Done, Fault
<1>5. ASSUME NEW n \in Nodes, Handler(n) PROVE LockInv'
  BY Zenon, <1>5 DEF Handler, Go
<1>6. ASSUME NEW n \in Nodes, PutNext(n) PROVE LockInv'
  BY <1>6 DEF PutNext, Go, Done, Fault
<1>7. ASSUME NEW n \in Nodes, Unlock(n) PROVE LockInv'
  BY Zenon, <1>7 DEF Unlock, Go, Done, Fault
<1>8. ASSUME NEW n \in Nodes, Crash(n) PROVE LockInv'
  BY Zenon, <1>8, FitsEmpty DEF Crash, Go, Fault
<1>9. ASSUME NEW v \in Values, PutNotification(v) PROVE LockInv'
  BY <1>9 DEF PutNotification, Fault
<1>10. ASSUME NEW k \in keys, KeyExpires(k) PROVE LockInv'
  <2>1. \A n \in Nodes : inbox'[n] = inbox[n] \/ inbox'[n] = Append(inbox[n], k)
    BY Zenon, <1>10 DEF KeyExpires
  <2>2. inbox' = [n \in Nodes |-> inbox'[n]] BY Zenon, <1>10 DEF KeyExpires
  <2>3. ASSUME NEW n \in Nodes PROVE Fits(inbox'[n])
    <3>1. Fits(inbox[n]) /\ k.count \in 0..Policies - 1 BY Zenon
    <3>2. Fits(Append(inbox[n], k)) BY Zenon, <3>1, FitsAppend
    <3> QED BY Zenon, <2>1, <3>1, <3>2
  <2> QED BY Zenon, <1>10, <2>2, <2>3 DEF KeyExpires
<1>11. CASE UNCHANGED redisVars
  BY Zenon, <1>11 DEF redisVars
<1> QED
  BY Zenon, <1>1, <1>2, <1>3, <1>4, <1>5, <1>6, <1>7, <1>8, <1>9, <1>10, <1>11 DEF NotificationNext, Step

(* Never two nodes run the handler for a value, whatever answers are lost  *)
(* and whoever crashes, and every put finds its delay: the lock of         *)
(* redis_notification.go 79-93 for any number of nodes, values and faults. *)
THEOREM OneHandlerHolds ==
    ASSUME Policies \in Nat \ {0}
    PROVE  NotificationSpec => []OneHandler
<1>1. LockInv => OneHandler BY Zenon DEF LockInv
<1>2. NotificationInit => LockInv BY Zenon, OneHandlerInit
<1>3. LockInv /\ [NotificationNext]_redisVars => LockInv' BY Zenon, OneHandlerNext
<1> QED BY <1>1, <1>2, <1>3, PTL DEF NotificationSpec

=============================================================================
