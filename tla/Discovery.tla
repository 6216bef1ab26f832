----------------------------- MODULE Discovery -----------------------------
(***************************************************************************)
(* register/etcd.go (GetService, Watch, Close) and the gRPC resolver of    *)
(* http_server/grpc_resolver.go: the goroutine of watch hands the services *)
(* it receives to gRPC, the goroutine of Watch reads them again at every   *)
(* event of etcd's watch.  The servers come and go as in Registry.         *)
(***************************************************************************)
EXTENDS Registry, Naturals, Sequences

CONSTANT MaxFaults    \* bound: failed requests and ended watches

VARIABLES
    resolver,   \* watch: "none", "start", "get", "loop", "ended"
    watcher,    \* the goroutine of Watch: "none", "spawned", "wait", "get",
                \* "send", "ended"
    ch,         \* the channel between them, of capacity 1
    read,       \* the services the watcher is going to send
    event,      \* etcd has events for the watcher
    addrs,      \* the addresses gRPC was last given
    cancel,     \* r.cancel: "nil", "set" or "called"
    closed,     \* Close was called: the etcd client is closed
    missed,     \* the last change was not read: it came before the watch
                \* began, or the request after its event failed
    faults      \* the number of faults so far

discoveryVars == <<entry, resolver, watcher, ch, read, event, addrs, cancel, closed, missed, faults>>

Present == {s \in Servers : entry[s] = "present"}
Dead == closed \/ cancel = "called"       \* requests fail, watches end
Fault == faults < MaxFaults /\ faults' = faults + 1

TypeOK ==
    /\ entry \in [Servers -> {"absent", "present", "gone"}]
    /\ resolver \in {"none", "start", "get", "loop", "ended"}
    /\ watcher \in {"none", "spawned", "wait", "get", "send", "ended"}
    /\ Len(ch) <= 1 /\ \A n \in DOMAIN ch : ch[n] \subseteq Servers
    /\ read \cup addrs \subseteq Servers /\ cancel \in {"nil", "set", "called"}
    /\ {event, closed, missed} \subseteq BOOLEAN

DiscoveryInit ==
    /\ Init /\ resolver = "none" /\ watcher = "none"
    /\ ch = <<>> /\ read = {} /\ event = FALSE /\ addrs = {}
    /\ cancel = "nil" /\ closed = FALSE /\ missed = FALSE /\ faults = 0

(* A key appears or goes; a watch that is established gets an event. *)
Change ==
    /\ Next
    /\ event' = (event \/ watcher \in {"wait", "get", "send"})
    /\ missed' = (missed \/ watcher = "spawned")
    /\ UNCHANGED <<resolver, watcher, ch, read, addrs, cancel, closed, faults>>

(* Build: a client for etcd, and the goroutine of watch. *)
Build ==
    /\ resolver = "none" /\ resolver' = "start"
    /\ UNCHANGED <<entry, watcher, ch, read, event, addrs, cancel, closed, missed, faults>>

WatchBegins ==
    /\ resolver = "start" /\ resolver' = "get"
    /\ cancel' = "set"
    /\ UNCHANGED <<entry, watcher, ch, read, event, addrs, closed, missed, faults>>

(* Watch reads the services and starts its goroutine; an error ends watch  *)
(* and is reported to nobody.                                              *)
Watch ==
    /\ resolver = "get"
    /\ \/ /\ ~Dead /\ ch' = <<Present>>
          /\ resolver' = "loop" /\ watcher' = "spawned" /\ UNCHANGED faults
       \/ /\ IF Dead THEN UNCHANGED faults ELSE Fault
          /\ resolver' = "ended" /\ UNCHANGED <<ch, watcher>>
    /\ UNCHANGED <<entry, read, event, addrs, cancel, closed, missed>>

(* client.Watch, from the present revision on. *)
WatcherBegins ==
    /\ watcher = "spawned" /\ watcher' = "wait"
    /\ UNCHANGED <<entry, resolver, ch, read, event, addrs, cancel, closed, missed, faults>>

WatcherGetsEvent ==
    /\ watcher = "wait" /\ event /\ event' = FALSE /\ watcher' = "get"
    /\ UNCHANGED <<entry, resolver, ch, read, addrs, cancel, closed, missed, faults>>

(* watchCh is closed: by Close, or by etcd. *)
WatcherEnds ==
    /\ watcher = "wait" /\ watcher' = "ended"
    /\ IF Dead THEN UNCHANGED faults ELSE Fault
    /\ UNCHANGED <<entry, resolver, ch, read, event, addrs, cancel, closed, missed>>

ReadsNothing ==                   \* mutant: the event is sent on without a read
    /\ watcher = "get" /\ watcher' = "send" /\ missed' = FALSE
    /\ UNCHANGED <<entry, resolver, ch, read, event, addrs, cancel, closed, faults>>

(* GetService after an event; an error waits for the next one. *)
Reads ==
    /\ watcher = "get"
    /\ \/ /\ ~Dead /\ read' = Present /\ missed' = FALSE
          /\ watcher' = "send" /\ UNCHANGED faults
       \/ /\ IF Dead THEN UNCHANGED faults ELSE Fault
          /\ missed' = TRUE /\ watcher' = "wait" /\ UNCHANGED read
    /\ UNCHANGED <<entry, resolver, ch, event, addrs, cancel, closed>>

Sends ==
    /\ watcher = "send"
    /\ \/ ch = <<>> /\ ch' = <<read>> /\ watcher' = "wait"
       \/ cancel = "called" /\ watcher' = "ended" /\ UNCHANGED ch
    /\ UNCHANGED <<entry, resolver, read, event, addrs, cancel, closed, missed, faults>>

UpdatesState ==
    /\ resolver = "loop" /\ ch # <<>>
    /\ addrs' = Head(ch) /\ ch' = <<>>
    /\ UNCHANGED <<entry, resolver, watcher, read, event, cancel, closed, missed, faults>>

(* range ch ends when the watcher has closed the channel. *)
LoopEnds ==
    /\ resolver = "loop" /\ ch = <<>> /\ watcher = "ended" /\ resolver' = "ended"
    /\ UNCHANGED <<entry, watcher, ch, read, event, addrs, cancel, closed, missed, faults>>

(* Close cancels, unless watch has not set r.cancel yet, and closes the    *)
(* client.                                                                 *)
Close ==
    /\ resolver # "none" /\ ~closed /\ closed' = TRUE
    /\ \/ cancel' = IF cancel = "set" THEN "called" ELSE cancel
       \/ cancel = "set" /\ UNCHANGED cancel      \* nothing orders the read after the write
    /\ UNCHANGED <<entry, resolver, watcher, ch, read, event, addrs, missed, faults>>

Goroutines == WatchBegins \/ Watch \/ UpdatesState \/ LoopEnds
WatcherSteps == WatcherBegins \/ WatcherGetsEvent \/ Reads \/ Sends
EndsClosed == Dead /\ WatcherEnds

DiscoveryNext == Change \/ Build \/ Goroutines \/ WatcherSteps \/ WatcherEnds \/ Close

(* Goroutines run on, and a watch of a closed client ends. *)
Fairness ==
    /\ WF_discoveryVars(Goroutines) /\ WF_discoveryVars(WatcherSteps)
    /\ WF_discoveryVars(EndsClosed)

DiscoverySpec == DiscoveryInit /\ [][DiscoveryNext]_discoveryVars /\ Fairness
-----------------------------------------------------------------------------
(* When the servers have stopped changing gRPC knows exactly those that    *)
(* are registered, unless the last change was missed (etcd.go 210, 214) or *)
(* the watch has ended; and both goroutines end after Close, also when it  *)
(* came before r.cancel was set (grpc_resolver.go 56, 78).                 *)
ResolverCatchesUp ==
    /\ <>[](resolver = "loop" => missed \/ closed \/ watcher = "ended" \/ addrs = Present)
    /\ []<>(closed => resolver = "ended" /\ watcher \in {"none", "ended"})
=============================================================================
