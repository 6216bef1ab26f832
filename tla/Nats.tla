-------------------------------- MODULE Nats --------------------------------
(***************************************************************************)
(* nats/nats.go, subscribe.go and publisher.go: connections that share a   *)
(* JetStream work queue, or a core NATS queue group.  Each has one         *)
(* subscription (StartSubscription and the goroutine it starts) and may    *)
(* run Start, which reconciles the stream again after a reconnection.      *)
(* Requests to the server separate the steps; the order of the messages    *)
(* within a batch is left open.                                            *)
(***************************************************************************)
EXTENDS Integers, Sequences, FiniteSets

CONSTANTS
    Conns,        \* the NatsConnections
    Messages,     \* [subject, id] records
    Setups,       \* the configurations to start from, see setup
    Nothing,
    MaxSubs       \* bound: subscriptions that one goroutine makes

ASSUME NatsConstants == Nothing \notin Messages

VARIABLES
    setup,      \* useStream; per connection its subject, durable and the
                \* subjects it configures for the stream (listed); who calls
                \* Start (starts); the stream's subjects at first; the messages
                \* that may be published; and a bound on faults, slow
                \* handlers, panics and calls of Stop (events)
    \* the server
    stream,     \* the subjects of the stream, Nothing when it does not exist
    consumer,   \* the durable consumers: filter subject or Nothing
    status,     \* per message: "unsent", "stored", "gone" (acknowledged),
                \* "refused" (Publish failed) or "lost" with the stream
    delivery,   \* per message and consumer: "new", "out" or "due" again
    \* per connection
    link,       \* s.conn: "up", "down" while it reconnects, "closed"
    done,       \* s.ctx is cancelled
    loop,       \* where Start is
    signal,     \* reconnectChan holds a value
    phase,      \* where StartSubscription and its goroutine are
    seen,       \* what StreamInfo returned to Start and to the subscription
    batch,      \* msgs, the rest of them (core NATS: what ch holds)
    current,    \* the message being acknowledged, or Nothing
    sub,        \* the number of the subscription in use, 0 before the first
    subject,    \* s.subject, as numbers of subscriptions
    dead,       \* the subscriptions that are unsubscribed
    \* what happened
    owed,       \* the messages that the server is to give out: not given out
                \* yet, or due again since
    turn,       \* the <<connection, message>> pairs that the server has given
                \* out, until the handler runs or passes over it
    handled,    \* the messages a handler has run for
    events      \* the number of events so far

server == <<stream, consumer, status, delivery>>
conns == <<link, done, loop, signal>>
goroutine == <<batch, current, sub, subject, dead>>
history == <<owed, turn, handled, events>>
natsVars == <<setup, server, conns, phase, seen, goroutine, history>>

Durables == UNION {{s.durable[c] : c \in Conns} : s \in Setups}
Filters == UNION {{s.subject[c] : c \in Conns} : s \in Setups}
Subjects == UNION {s.stream \cup UNION {s.listed[c] : c \in Conns} : s \in Setups}
Users == Conns \X {"loop", "sub"}

Fetching == {"fetch", "work", "ack"}
Ended == {"failed", "panicked", "ended"}
Preparing == {"info", "apply", "lookup", "delete", "add", "pull", "append", "raced"}
Places == {"idle", "core"} \cup Preparing \cup Fetching \cup Ended

NatsTypeOK ==
    /\ setup \in Setups
    /\ stream \in (SUBSET Subjects) \cup {Nothing}
    /\ consumer \in [Durables -> Filters \cup {Nothing}]
    /\ status \in [Messages -> {"unsent", "stored", "gone", "refused", "lost"}]
    /\ delivery \in [Messages -> [Durables -> {"new", "out", "due"}]]
    /\ link \in [Conns -> {"up", "down", "closed"}]
    /\ done \in [Conns -> BOOLEAN] /\ signal \in [Conns -> BOOLEAN]
    /\ loop \in [Conns -> {"off", "info", "apply", "run", "reapply", "stopped", "panicked"}]
    /\ phase \in [Conns -> Places]
    /\ seen \in [Users -> (SUBSET Subjects) \cup {Nothing}]
    /\ batch \in [Conns -> SUBSET Messages]
    /\ current \in [Conns -> Messages \cup {Nothing}]
    /\ owed \subseteq Messages /\ turn \subseteq Conns \X Messages
    /\ handled \subseteq Messages

NatsInit ==
    /\ setup \in Setups
    /\ stream = IF setup.stream = {} THEN Nothing ELSE setup.stream
    /\ consumer = [d \in Durables |-> Nothing]
    /\ status = [m \in Messages |-> "unsent"]
    /\ delivery = [m \in Messages |-> [d \in Durables |-> "new"]]
    /\ link = [c \in Conns |-> "up"]
    /\ done = [c \in Conns |-> FALSE] /\ signal = [c \in Conns |-> FALSE]
    /\ loop = [c \in Conns |-> "off"] /\ phase = [c \in Conns |-> "idle"]
    /\ seen = [u \in Users |-> Nothing]
    /\ batch = [c \in Conns |-> {}] /\ current = [c \in Conns |-> Nothing]
    /\ sub = [c \in Conns |-> 0]
    /\ subject = [c \in Conns |-> <<>>] /\ dead = [c \in Conns |-> {}]
    /\ owed = Messages /\ turn = {} /\ handled = {} /\ events = 0

GoSub(c, where) == phase' = [phase EXCEPT ![c] = where]
GoLoop(c, where) == loop' = [loop EXCEPT ![c] = where]
Event == events < setup.events /\ events' = events + 1
Durable(c) == setup.durable[c]
-----------------------------------------------------------------------------
(* The server.  A work queue takes an acknowledged message out of the      *)
(* stream and refuses two consumers with the same filter.                  *)
RetentionLimits == "limits"       \* mutant: the default policy
Retention == "workqueue"

CanConsume(d, filter) ==
    /\ stream # Nothing /\ filter \in stream
    /\ consumer[d] \in {Nothing, filter}
    /\ Retention = "workqueue" => \A e \in Durables \ {d} : consumer[e] # filter

(* Deleting a consumer forgets what it had delivered. *)
Forget(D) ==
    /\ consumer' = [d \in Durables |-> IF d \in D THEN Nothing ELSE consumer[d]]
    /\ delivery' = [m \in Messages |->
                       [d \in Durables |-> IF d \in D THEN "new" ELSE delivery[m][d]]]
    /\ owed' = owed \cup {m \in Messages : \E d \in D : delivery[m][d] # "new"}
    /\ UNCHANGED turn

(* AckWait passes without an acknowledgement and the message is due again: *)
(* because nobody holds it any more, or because a handler is slow.          *)
Redeliver(m, d) ==
    /\ status[m] = "stored" /\ delivery[m][d] = "out"
    /\ delivery' = [delivery EXCEPT ![m][d] = "due"]
    /\ owed' = owed \cup {m}
    /\ UNCHANGED <<setup, stream, consumer, status, conns, phase, seen, goroutine, turn, handled>>

Held(m, d) == \E c \in Conns : m \in batch[c] /\ Durable(c) = d

AckWaitExpires(m, d) == ~Held(m, d) /\ Redeliver(m, d) /\ UNCHANGED events
HandlerIsSlow(m, d) == Event /\ Held(m, d) /\ Redeliver(m, d)

(* Somebody deletes the stream, or one consumer. *)
StreamDeleted ==
    /\ Event /\ stream # Nothing /\ stream' = Nothing
    /\ Forget(Durables)
    /\ status' = [m \in Messages |-> IF status[m] = "stored" THEN "lost" ELSE status[m]]
    /\ UNCHANGED <<setup, conns, phase, seen, goroutine, handled>>

ConsumerDeleted(d) ==
    /\ Event /\ consumer[d] # Nothing /\ Forget({d})
    /\ UNCHANGED <<setup, stream, status, conns, phase, seen, goroutine, handled>>
-----------------------------------------------------------------------------
(* The connection: it drops, comes back and fills reconnectChan (a full    *)
(* channel drops the value), or closes for good after MaxReconnects.       *)
ConnectionLost(c) ==
    /\ Event /\ link[c] = "up" /\ link' = [link EXCEPT ![c] = "down"]
    /\ UNCHANGED <<setup, server, done, loop, signal, phase, seen, goroutine, owed, turn, handled>>

Reconnected(c) ==
    /\ link[c] = "down" /\ link' = [link EXCEPT ![c] = "up"]
    /\ signal' = [signal EXCEPT ![c] = @ \/ loop[c] \in {"run", "reapply"}]
    /\ UNCHANGED <<setup, server, done, loop, phase, seen, goroutine, history>>

ReconnectsExhausted(c) ==
    /\ link[c] = "down" /\ link' = [link EXCEPT ![c] = "closed"]
    /\ UNCHANGED <<setup, server, done, loop, signal, phase, seen, goroutine, history>>

Stop(c) ==
    /\ Event /\ ~done[c]
    /\ done' = [done EXCEPT ![c] = TRUE] /\ link' = [link EXCEPT ![c] = "closed"]
    /\ UNCHANGED <<setup, server, loop, signal, phase, seen, goroutine, owed, turn, handled>>
-----------------------------------------------------------------------------
(* EnsureStream: StreamInfo, and then AddStream or UpdateStream with what  *)
(* it returned; an error of StreamInfo counts as "no stream".              *)
MergeDesired(existing, desired) == desired    \* mutant: what exists is dropped
mergeSubjects(existing, desired) == existing \cup desired

StreamInfo(c, u) == seen' = [seen EXCEPT ![<<c, u>>] = IF link[c] = "up" THEN stream ELSE Nothing]

Listed(c, info) == info # Nothing /\ setup.listed[c] \subseteq info

Accepted(c, info) ==
    /\ link[c] = "up"
    /\ IF info = Nothing THEN stream \in {Nothing, setup.listed[c]} ELSE stream # Nothing

Reconcile(c, u) ==
    LET info == seen[<<c, u>>]
    IN  IF Listed(c, info)
        THEN stream' = stream
        ELSE /\ Accepted(c, info)
             /\ stream' = mergeSubjects(IF info = Nothing THEN {} ELSE info, setup.listed[c])

ReconcileFails(c, u) ==
    /\ ~Listed(c, seen[<<c, u>>]) /\ ~Accepted(c, seen[<<c, u>>])
    /\ stream' = stream

(* AddStream creates a missing stream and leaves another one alone. *)
AddStream(c) ==
    /\ setup.useStream /\ link[c] = "up" /\ stream = Nothing
    /\ stream' = setup.listed[c]
    /\ UNCHANGED <<setup, consumer, status, delivery, conns, phase, seen, goroutine, history>>

(* Start: EnsureStream, panicking on an error, which ends the process; then *)
(* the loop, that reconciles again after a reconnection until ctx is done.  *)
StartBegins(c) ==
    /\ loop[c] = "off" /\ ~done[c] /\ c \in setup.starts
    /\ GoLoop(c, IF setup.useStream THEN "info" ELSE "run")
    /\ UNCHANGED <<setup, server, link, done, signal, phase, seen, goroutine, history>>

StartReads(c) ==
    /\ \/ loop[c] = "info" /\ GoLoop(c, "apply") /\ UNCHANGED signal
       \/ /\ loop[c] = "run" /\ signal[c]
          /\ signal' = [signal EXCEPT ![c] = FALSE]
          /\ GoLoop(c, IF setup.useStream THEN "reapply" ELSE "run")
    /\ StreamInfo(c, "loop")
    /\ UNCHANGED <<setup, server, link, done, phase, goroutine, history>>

StartReconciles(c) ==
    /\ loop[c] \in {"apply", "reapply"}
    /\ \/ Reconcile(c, "loop") /\ GoLoop(c, "run") /\ UNCHANGED <<link, phase, batch, current>>
       \/ /\ ReconcileFails(c, "loop") /\ loop[c] = "reapply"
          /\ GoLoop(c, "run") /\ UNCHANGED <<link, phase, batch, current>>
       \/ /\ ReconcileFails(c, "loop") /\ loop[c] = "apply"
          /\ GoLoop(c, "panicked") /\ GoSub(c, "ended")
          /\ link' = [link EXCEPT ![c] = "closed"]
          /\ batch' = [batch EXCEPT ![c] = {}] /\ current' = [current EXCEPT ![c] = Nothing]
    /\ seen' = [seen EXCEPT ![<<c, "loop">>] = Nothing]
    /\ UNCHANGED <<setup, consumer, status, delivery, done, signal, sub, subject, dead, history>>

StartReturns(c) ==
    /\ loop[c] = "run" /\ done[c] /\ GoLoop(c, "stopped")
    /\ UNCHANGED <<setup, server, link, done, signal, phase, seen, goroutine, history>>
-----------------------------------------------------------------------------
(* StartSubscription, and the goroutine's self-heal, prepare a subscription: *)
(* EnsureStream, AddConsumer, PullSubscribe.  An error is returned the first *)
(* time and ends the attempt of a self-heal.                                *)
StartSubscription(c) ==
    /\ phase[c] = "idle" /\ link[c] = "up"
    /\ IF setup.useStream
       THEN GoSub(c, "info") /\ UNCHANGED <<sub, subject>>
       ELSE /\ GoSub(c, "core")
            /\ sub' = [sub EXCEPT ![c] = 1] /\ subject' = [subject EXCEPT ![c] = <<1>>]
    /\ UNCHANGED <<setup, server, conns, seen, batch, current, dead, history>>

GiveUp(c) == GoSub(c, IF sub[c] = 0 THEN "failed" ELSE "fetch")

ReadStream(c) ==
    /\ phase[c] = "info" /\ StreamInfo(c, "sub") /\ GoSub(c, "apply")
    /\ UNCHANGED <<setup, server, conns, goroutine, history>>

EnsureStream(c) ==
    /\ phase[c] = "apply"
    /\ \/ Reconcile(c, "sub") /\ GoSub(c, "lookup")
       \/ ReconcileFails(c, "sub") /\ GiveUp(c)
    /\ seen' = [seen EXCEPT ![<<c, "sub">>] = Nothing]
    /\ UNCHANGED <<setup, consumer, status, delivery, conns, goroutine, history>>

consumerFilterMatches(c) == consumer[Durable(c)] = setup.subject[c]

LookupConsumer(c) ==
    /\ phase[c] = "lookup"
    /\ \/ link[c] # "up" /\ GiveUp(c)
       \/ link[c] = "up" /\ consumer[Durable(c)] = Nothing /\ GoSub(c, "add")
       \/ /\ link[c] = "up" /\ consumer[Durable(c)] # Nothing
          /\ GoSub(c, IF consumerFilterMatches(c) THEN "pull" ELSE "delete")
    /\ UNCHANGED <<setup, server, conns, seen, goroutine, history>>

DeleteConsumer(c) ==
    /\ phase[c] = "delete"
    /\ IF link[c] = "up" /\ consumer[Durable(c)] # Nothing
       THEN Forget({Durable(c)}) /\ GoSub(c, "add")
       ELSE GiveUp(c) /\ UNCHANGED <<consumer, delivery, owed, turn>>
    /\ UNCHANGED <<setup, stream, status, conns, seen, goroutine, handled, events>>

Create(c) == consumer' = [consumer EXCEPT ![Durable(c)] = setup.subject[c]]

AddConsumer(c) ==
    /\ phase[c] = "add"
    /\ IF link[c] = "up" /\ CanConsume(Durable(c), setup.subject[c])
       THEN Create(c) /\ GoSub(c, "pull")
       ELSE GiveUp(c) /\ UNCHANGED consumer
    /\ UNCHANGED <<setup, stream, status, delivery, conns, seen, goroutine, history>>

(* PullSubscribe creates a consumer that has gone meanwhile. *)
PullSubscribe(c) ==
    /\ phase[c] = "pull"
    /\ IF link[c] = "up" /\ CanConsume(Durable(c), setup.subject[c])
       THEN Create(c) /\ GoSub(c, "append") /\ sub' = [sub EXCEPT ![c] = @ + 1]
       ELSE GiveUp(c) /\ UNCHANGED <<consumer, sub>>
    /\ UNCHANGED <<setup, stream, status, delivery, conns, seen, batch, current, subject, dead, history>>

(* s.subject is appended to without a lock: when a StopSubscription ran at *)
(* the same time either of the two writes may be lost.                     *)
AppendSubscription(c) ==
    /\ \/ phase[c] = "append" /\ subject' = [subject EXCEPT ![c] = Append(@, sub[c])]
       \/ /\ phase[c] = "raced"
          /\ \E s \in {<<>>, <<sub[c]>>, <<sub[c] - 1, sub[c]>>} :
                subject' = [subject EXCEPT ![c] = s]
    /\ GoSub(c, "fetch")
    /\ UNCHANGED <<setup, server, conns, seen, batch, current, sub, dead, history>>

(* StopSubscription ends the first entry of its subject, and a closed      *)
(* connection refuses; StopAllSubscriptions ends every entry.              *)
StopSubscription(c) ==
    /\ Event /\ subject[c] # <<>> /\ link[c] # "closed"
    /\ \/ /\ dead' = [dead EXCEPT ![c] = @ \cup {Head(subject[c])}]
          /\ subject' = [subject EXCEPT ![c] = Tail(@)]
       \/ /\ dead' = [dead EXCEPT ![c] = @ \cup {subject[c][k] : k \in DOMAIN subject[c]}]
          /\ subject' = [subject EXCEPT ![c] = <<>>]
    /\ phase' = [phase EXCEPT ![c] = IF @ = "append" THEN "raced" ELSE @]
    /\ UNCHANGED <<setup, server, conns, seen, batch, current, sub, owed, turn, handled>>
-----------------------------------------------------------------------------
(* The goroutine: Fetch, then for each message handler and Ack.  A timeout, *)
(* or any error but "no responders", only makes it try again.               *)
Usable(c) == phase[c] = "fetch" /\ ~done[c] /\ link[c] = "up" /\ sub[c] \notin dead[c]

Available(d) == {m \in Messages : /\ status[m] = "stored" /\ m.subject = consumer[d]
                                  /\ delivery[m][d] \in {"new", "due"}}

Fetch(c) ==
    /\ Usable(c) /\ consumer[Durable(c)] # Nothing
    /\ \E M \in (SUBSET Available(Durable(c))) \ {{}} :
          /\ batch' = [batch EXCEPT ![c] = M]
          /\ delivery' = [m \in Messages |->
                [delivery[m] EXCEPT ![Durable(c)] = IF m \in M THEN "out" ELSE @]]
          /\ owed' = owed \ M /\ turn' = turn \cup ({c} \X (M \cap owed))
    /\ GoSub(c, "work")
    /\ UNCHANGED <<setup, stream, consumer, status, conns, seen, current, sub, subject, dead,
                   handled, events>>

FetchNoHeal(c) == FALSE            \* mutant: "no responders" is retried as is

FetchNoResponders(c) ==
    /\ Usable(c) /\ consumer[Durable(c)] = Nothing
    /\ sub[c] < MaxSubs /\ GoSub(c, "info")
    /\ UNCHANGED <<setup, server, conns, seen, goroutine, history>>

FetchStops(c) ==
    /\ phase[c] \in {"fetch", "core"} /\ done[c] /\ GoSub(c, "ended")
    /\ UNCHANGED <<setup, server, conns, seen, goroutine, history>>

RunHandler(c, m) ==
    /\ handled' = handled \cup {m}
    /\ turn' = turn \ {<<c, m>>}

Handle(c, m) ==
    /\ phase[c] = "work" /\ m \in batch[c]
    /\ IF m.subject = setup.subject[c]
       THEN /\ RunHandler(c, m) /\ GoSub(c, "ack")
            /\ current' = [current EXCEPT ![c] = m] /\ UNCHANGED batch
       ELSE /\ batch' = [batch EXCEPT ![c] = @ \ {m}]
            /\ GoSub(c, IF batch[c] = {m} THEN "fetch" ELSE "work")
            /\ turn' = turn \ {<<c, m>>} /\ UNCHANGED <<current, handled>>
    /\ UNCHANGED <<setup, server, conns, seen, sub, subject, dead, owed, events>>

(* The acknowledgement of a connection that is not up may be lost. *)
Ack(c) ==
    LET m == current[c]
    IN  /\ phase[c] = "ack"
        /\ \/ /\ link[c] # "closed"
              /\ status' = [status EXCEPT ![m] =
                    IF @ = "stored" /\ delivery[m][Durable(c)] # "new" /\ Retention = "workqueue"
                    THEN "gone" ELSE @]
           \/ link[c] # "up" /\ UNCHANGED status
        /\ batch' = [batch EXCEPT ![c] = @ \ {m}] /\ current' = [current EXCEPT ![c] = Nothing]
        /\ GoSub(c, IF batch[c] = {m} THEN "fetch" ELSE "work")
        /\ UNCHANGED <<setup, stream, consumer, delivery, conns, seen, sub, subject, dead, history>>

(* The recover is outside the loop: a panic of the handler ends the        *)
(* goroutine, and the subscription stays.                                  *)
HandlerPanics(c) ==
    /\ Event
    /\ \/ phase[c] = "ack" /\ UNCHANGED <<turn, handled>>
       \/ phase[c] = "core" /\ \E m \in batch[c] : RunHandler(c, m)
    /\ GoSub(c, "panicked") /\ batch' = [batch EXCEPT ![c] = {}]
    /\ current' = [current EXCEPT ![c] = Nothing]
    /\ UNCHANGED <<setup, server, conns, seen, sub, subject, dead, owed>>

(* Core NATS: one member of each queue group gets the message. *)
HandleCore(c, m) ==
    /\ phase[c] = "core" /\ m \in batch[c]
    /\ RunHandler(c, m) /\ status' = [status EXCEPT ![m] = "gone"]
    /\ batch' = [batch EXCEPT ![c] = @ \ {m}]
    /\ UNCHANGED <<setup, stream, consumer, delivery, conns, phase, seen, current, sub, subject, dead,
                   owed, events>>

Members(m) == {c \in Conns : /\ setup.subject[c] = m.subject /\ link[c] = "up"
                             /\ sub[c] = 1 /\ 1 \notin dead[c]}

Publish(m) ==
    /\ m \in setup.messages /\ status[m] = "unsent" /\ \E c \in Conns : link[c] = "up"
    /\ IF setup.useStream
       THEN /\ status' = [status EXCEPT ![m] =
                  IF stream # Nothing /\ m.subject \in stream THEN "stored" ELSE "refused"]
            /\ UNCHANGED <<batch, owed, turn>>
       ELSE /\ status' = [status EXCEPT ![m] = IF Members(m) = {} THEN "refused" ELSE "stored"]
            /\ \E to \in SUBSET Members(m) :
                  /\ \A c \in Members(m) :
                        Cardinality({e \in to : Durable(e) = Durable(c)}) = 1
                  /\ batch' = [c \in Conns |-> batch[c] \cup
                                  IF c \in to /\ phase[c] = "core" THEN {m} ELSE {}]
                  /\ owed' = owed \ {m}
                  /\ turn' = turn \cup ({c \in to : phase[c] = "core"} \X {m})
    /\ UNCHANGED <<setup, stream, consumer, delivery, conns, phase, seen, current, sub, subject, dead,
                   handled, events>>
-----------------------------------------------------------------------------
Connection(c) ==
    \/ ConnectionLost(c) \/ Reconnected(c) \/ ReconnectsExhausted(c) \/ Stop(c)
    \/ AddStream(c) \/ StartBegins(c) \/ StartReads(c) \/ StartReconciles(c) \/ StartReturns(c)

Subscribing(c) ==
    \/ ReadStream(c) \/ EnsureStream(c) \/ LookupConsumer(c) \/ DeleteConsumer(c)
    \/ AddConsumer(c) \/ PullSubscribe(c) \/ AppendSubscription(c)

Consuming(c) ==
    \/ Fetch(c) \/ FetchNoResponders(c) \/ FetchStops(c) \/ Ack(c)
    \/ \E m \in Messages : Handle(c, m) \/ HandleCore(c, m)

NatsNext ==
    \/ \E c \in Conns : \/ Connection(c) \/ StartSubscription(c) \/ Subscribing(c) \/ Consuming(c)
                        \/ StopSubscription(c) \/ HandlerPanics(c)
    \/ \E m \in Messages : Publish(m) \/ \E d \in Durables : AckWaitExpires(m, d) \/ HandlerIsSlow(m, d)
    \/ StreamDeleted \/ \E d \in Durables : ConsumerDeleted(d)

(* Go runs every goroutine that can run, the library reconnects or gives   *)
(* up, and the server redelivers what nobody holds any more.  Nothing says *)
(* that anybody subscribes, publishes or stops.                            *)
NatsFairness ==
    /\ \A c \in Conns :
          /\ WF_natsVars(Subscribing(c)) /\ WF_natsVars(Consuming(c))
          /\ WF_natsVars(Reconnected(c) \/ ReconnectsExhausted(c))
    /\ \A m \in Messages, d \in Durables : WF_natsVars(AckWaitExpires(m, d))

NatsSpec == NatsInit /\ [][NatsNext]_natsVars /\ NatsFairness
-----------------------------------------------------------------------------
(* "Each message can only be consumed once" (nats.go 128, subscribe.go 60) *)
(* holds for what the code decides: whatever a handler is still to run for *)
(* is a turn of its own that the server had to give out, a second one only *)
(* after AckWait or after the consumer was deleted; and a message leaves   *)
(* the queue only after a handler of its own subject has run (subscribe.go *)
(* 346, 348).                                                              *)
ConsumedOnce ==
    /\ NatsTypeOK
    /\ \A c \in Conns : \A m \in batch[c] : current[c] # m => <<c, m>> \in turn
    /\ \A m \in Messages : status[m] = "gone" => m \in handled

(* Reconciling drops a subject of the stream only when it works from a     *)
(* read that another UpdateStream has overtaken (nats.go 121, 153): then   *)
(* the other subjects are lost without an error.                           *)
SubjectsKept ==
    [][stream # Nothing /\ stream' # Nothing /\ ~(stream \subseteq stream') =>
          \E u \in Users : seen[u] # Nothing /\ ~(stream \subseteq seen[u])]_natsVars

(* Connections with the same subject share their durable, the others do not. *)
WellNamed == \A c, e \in Conns :
    setup.subject[c] = setup.subject[e] <=> Durable(c) = Durable(e)

Serves(c, m) ==
    /\ WellNamed /\ m.subject = setup.subject[c]
    /\ sub[c] > 0 /\ sub[c] \notin dead[c] /\ phase[c] \notin Ended
    /\ ~done[c] /\ link[c] # "closed"
    /\ setup.useStream \/ m \in batch[c]

(* No stored message stays in the queue while a goroutine goes on serving  *)
(* its subject, through lost connections, deleted consumers and self-heal  *)
(* (subscribe.go 314-338); and the goroutine of a stopped connection ends  *)
(* (302), wherever it was.                                                 *)
DeliveredOrEnded ==
    /\ \A m \in Messages, c \in Conns : []<>(status[m] # "stored" \/ ~Serves(c, m))
    /\ \A c \in Conns : []<>(done[c] => phase[c] \in Ended \cup {"idle"})
=============================================================================
