------------------------- MODULE RedisNotification -------------------------
(***************************************************************************)
(* redis/redis_notification.go: delayed notifications by expiring keys.    *)
(* Every subscribed node hears of an expiry; the one that gets the lock of *)
(* the value runs the handler and, as long as it asks for another try,     *)
(* keeps the lock and puts the value again with the next delay.            *)
(***************************************************************************)
EXTENDS Naturals, Sequences, FiniteSetsExt

CONSTANTS
    Nodes,       \* the nodes, one subscribing goroutine each
    Values,      \* the values put, sequences of characters
    Policies,    \* len(n.policies), at least 1
    NoJob,
    MaxFaults    \* bound: lost replies, failed commands, missed events, crashes

VARIABLES
    puts,     \* the values that have been put
    keys,     \* the keys waiting to expire: [value, count]
    lock,     \* the keys of locks: <<value, the node whose name is stored>>
    inbox,    \* per node: the expiries it has not looked at
    node,     \* per node: where its goroutine is
    job,      \* per node: the Payload it works on, or NoJob
    notified, \* the decoded values a handler has run for
    redisFaults \* the number of faults so far

redisVars == <<puts, keys, lock, inbox, node, job, notified, redisFaults>>

(* decodePayload: of the key only the part behind its last ":" is read, of *)
(* that the part before the first "||" is the value, and what follows is   *)
(* the count, 0 when it is not a number.                                   *)
Finds(s, t) == {i \in DOMAIN s : s[i] = t}
Segment(s) ==
    LET I == Finds(s, ":")
    IN  IF I = {} THEN s ELSE SubSeq(s, Max(I) + 1, Len(s))
BeforeBars(s) ==
    LET I == Finds(s, "||")
    IN  IF I = {} THEN s ELSE SubSeq(s, 1, Min(I) - 1)
decodePayload(k) ==
    [value |-> BeforeBars(Segment(k.value)),
     count |-> IF Finds(Segment(k.value), "||") # {} THEN 0 ELSE k.count]

Locked(v) == \E l \in lock : l[1] = v

NodeStates == {"off", "receive", "setnx", "get", "handler", "put", "unlock", "crashed"}

NotificationTypeOK ==
    /\ puts \subseteq Values
    /\ \A k \in keys : k.count \in 0..Policies - 1
    /\ \A l \in lock : l[2] \in Nodes
    /\ node \in [Nodes -> NodeStates]
    /\ \A n \in Nodes :
          IF node[n] \in {"off", "receive", "crashed"} THEN job[n] = NoJob
                                                   ELSE job[n].count \in 1..Policies

NotificationInit ==
    /\ puts = {} /\ keys = {} /\ notified = {} /\ redisFaults = 0
    /\ lock = {}
    /\ inbox = [n \in Nodes |-> <<>>]
    /\ node = [n \in Nodes |-> "off"] /\ job = [n \in Nodes |-> NoJob]

Fault == redisFaults < MaxFaults /\ redisFaults' = redisFaults + 1
Go(n, where) == node' = [node EXCEPT ![n] = where]
Done(n) == Go(n, "receive") /\ job' = [job EXCEPT ![n] = NoJob]
-----------------------------------------------------------------------------
Subscribe(n) ==
    /\ node[n] = "off" /\ Go(n, "receive")
    /\ UNCHANGED <<puts, keys, lock, inbox, job, notified, redisFaults>>

(* PutNotification with the count 0, the error of Set ignored. *)
PutNotification(v) ==
    /\ v \notin puts /\ puts' = puts \cup {v}
    /\ \/ keys' = keys \cup {[value |-> v, count |-> 0]} /\ UNCHANGED redisFaults
       \/ Fault /\ UNCHANGED keys
    /\ UNCHANGED <<lock, inbox, node, job, notified>>

(* A key expires and Redis tells the nodes that are subscribed, once: a    *)
(* node that is disconnected then never hears of it.                       *)
KeyExpires(k) ==
    /\ k \in keys /\ keys' = keys \ {k}
    /\ LET hears(N) == [n \in Nodes |-> IF n \in N /\ node[n] \notin {"off", "crashed"}
                                        THEN Append(inbox[n], k) ELSE inbox[n]]
       IN  \/ inbox' = hears(Nodes) /\ UNCHANGED redisFaults
           \/ Fault /\ \E n \in Nodes : inbox' = hears(Nodes \ {n})
    /\ UNCHANGED <<puts, lock, node, job, notified>>

Receive(n) ==
    /\ node[n] = "receive" /\ inbox[n] # <<>>
    /\ LET p == decodePayload(Head(inbox[n]))
       IN  job' = [job EXCEPT ![n] = [value |-> p.value, count |-> p.count + 1]]
    /\ inbox' = [inbox EXCEPT ![n] = Tail(@)]
    /\ Go(n, "setnx")
    /\ UNCHANGED <<puts, keys, lock, notified, redisFaults>>

LockAnyway(n) ==                  \* mutant: a key that exists counts as locked
    /\ node[n] = "setnx" /\ Go(n, "handler")
    /\ lock' = IF Locked(job[n].value) THEN lock ELSE lock \cup {<<job[n].value, n>>}
    /\ UNCHANGED <<puts, keys, inbox, job, notified, redisFaults>>

(* lock: SETNX without a lifetime; when it does not succeed, or its answer *)
(* is lost, the value stored there decides.                                *)
LockSetNX(n) ==
    LET v == job[n].value
    IN  /\ node[n] = "setnx"
        /\ \/ Locked(v) /\ Go(n, "get") /\ UNCHANGED <<lock, redisFaults>>
           \/ /\ ~Locked(v) /\ Go(n, "handler")
              /\ lock' = lock \cup {<<v, n>>} /\ UNCHANGED redisFaults
           \/ Fault /\ Go(n, "get") /\ UNCHANGED lock
           \/ Fault /\ Go(n, "get") /\ ~Locked(v) /\ lock' = lock \cup {<<v, n>>}
        /\ UNCHANGED <<puts, keys, inbox, job, notified>>

LockGet(n) ==
    /\ node[n] = "get"
    /\ \/ <<job[n].value, n>> \in lock /\ Go(n, "handler") /\ UNCHANGED <<job, redisFaults>>
       \/ <<job[n].value, n>> \notin lock /\ Done(n) /\ UNCHANGED redisFaults
       \/ Fault /\ Done(n)
    /\ UNCHANGED <<puts, keys, lock, inbox, notified>>

HandlerKeepsLock(n) ==            \* mutant: no unlock after the last try
    /\ node[n] = "handler" /\ notified' = notified \cup {job[n].value}
    /\ \/ job[n].count < Policies /\ Go(n, "put") /\ UNCHANGED job
       \/ job[n].count < Policies /\ Go(n, "unlock") /\ UNCHANGED job
       \/ job[n].count >= Policies /\ Done(n)
    /\ UNCHANGED <<puts, keys, lock, inbox, redisFaults>>

(* The handler asks for another try, or not; the tries are limited. *)
Handler(n) ==
    /\ node[n] = "handler" /\ notified' = notified \cup {job[n].value}
    /\ \/ job[n].count < Policies /\ Go(n, "put")
       \/ Go(n, "unlock")
    /\ UNCHANGED <<puts, keys, lock, inbox, job, redisFaults>>

PutNext(n) ==
    /\ node[n] = "put"
    /\ \/ keys' = keys \cup {job[n]} /\ UNCHANGED redisFaults
       \/ Fault /\ UNCHANGED keys
    /\ Done(n)
    /\ UNCHANGED <<puts, lock, inbox, notified>>

Unlock(n) ==
    /\ node[n] = "unlock"
    /\ \/ lock' = {l \in lock : l[1] # job[n].value} /\ UNCHANGED redisFaults
       \/ Fault /\ UNCHANGED lock
    /\ Done(n)
    /\ UNCHANGED <<puts, keys, inbox, notified>>

Crash(n) ==
    /\ Fault /\ node[n] \notin {"off", "crashed"} /\ Go(n, "crashed")
    /\ job' = [job EXCEPT ![n] = NoJob] /\ inbox' = [inbox EXCEPT ![n] = <<>>]
    /\ UNCHANGED <<puts, keys, lock, notified>>

Step(n) == Receive(n) \/ LockSetNX(n) \/ LockGet(n) \/ Handler(n) \/ PutNext(n) \/ Unlock(n)

NotificationNext ==
    \/ \E n \in Nodes : Subscribe(n) \/ Step(n) \/ Crash(n)
    \/ \E v \in Values : PutNotification(v)
    \/ \E k \in keys : KeyExpires(k)

(* Nodes go on and keys expire; nobody has to subscribe or to put. *)
NotificationFairness ==
    /\ \A n \in Nodes : WF_redisVars(Step(n))
    /\ WF_redisVars(\E k \in keys : KeyExpires(k))

NotificationSpec == NotificationInit /\ [][NotificationNext]_redisVars /\ NotificationFairness
-----------------------------------------------------------------------------
(* At most one node runs the handler for a value or is about to put it     *)
(* again, through lost answers, crashes, and values that share a lock      *)
(* because they end alike (redis_notification.go 82-87, 143); and every    *)
(* put finds a delay: n.policies[p.count] is in range (76, 122).           *)
OneHandler ==
    /\ NotificationTypeOK
    /\ \A n \in Nodes :
          node[n] \in {"handler", "put", "unlock"} => <<job[n].value, n>> \in lock
    /\ \A l, m \in lock : l[1] = m[1] => l = m

Decoded == {decodePayload([value |-> v, count |-> 0]).value : v \in Values}

(* A value, as decoded, waits for an expiry or a node is busy with it. *)
UnderWay(w) ==
    \/ \E k \in keys : decodePayload(k).value = w
    \/ \E n \in Nodes : \E i \in DOMAIN inbox[n] : decodePayload(inbox[n][i]).value = w
    \/ \E n \in Nodes : job[n] # NoJob /\ job[n].value = w

(* Unless a fault hits it, every value comes to rest, with its lock free   *)
(* again after the last try (redis_notification.go 121-129); and it does   *)
(* not before a handler has run for it, if somebody listened: a node that  *)
(* does not get the lock leaves the value to one that does (117).          *)
NotificationSettles ==
    /\ \A w \in Decoded : []<>(redisFaults > 0 \/ ~(UnderWay(w) \/ Locked(w)))
    /\ [][\A w \in Decoded :
             UnderWay(w) /\ ~UnderWay(w)' =>
                 \/ w \in notified \/ redisFaults' > 0
                 \/ \A n \in Nodes : node[n] = "off"]_redisVars
=============================================================================
