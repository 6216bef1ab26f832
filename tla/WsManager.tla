----------------------------- MODULE WsManager -----------------------------
(***************************************************************************)
(* http_server/ws_client_manager.go and ws_client.go: the event loop of    *)
(* ClientManager, the goroutines of each WebSocket client, and the callers *)
(* of RegisterClient, BroadcastMessage, the kicks and Stop.                *)
(*                                                                         *)
(* register, unregister and broadcast are unbuffered channels: a send and  *)
(* the loop's receive are one step, what the loop then does under mu is    *)
(* the next.  Every critical section of mu is one step.  A message is only *)
(* counted.                                                                *)
(***************************************************************************)
EXTENDS Naturals, FiniteSets

CONSTANTS
    Clients,    \* the connections, one Client each
    Sessions,   \* session ids
    Users,      \* user ids
    SessionOf,  \* the sessionId of each client
    UserOf,     \* the userId of each client
    SendCap,    \* the capacity of the channel send, 1024 in the code
    None

ASSUME WsConstants ==
    /\ SessionOf \in [Clients -> Sessions]
    /\ UserOf \in [Clients -> Users]
    /\ SendCap \in Nat
    /\ None \notin Clients \cup Sessions

VARIABLES
    loop,       \* where Start is
    cur,        \* the client the loop has received, or None
    stopped,    \* stopChan is closed
    stopper,    \* where the caller of Stop is
    clients,    \* m.clients
    userIdMap,  \* m.userIdMap
    closing,    \* the clients that shutdownClients, in the loop or in Stop, has still to close
    handler,    \* per client: the goroutine that accepted the connection
    reader,     \* per client: the goroutine of ReceivedMessage
    writer,     \* per client: the goroutine of SendMessage
    closed,     \* per client: the channel closed is closed
    open,       \* per client: the connection works
    send        \* per client: the number of messages in send

managerVars == <<clients, userIdMap>>
clientVars == <<closed, open, send>>
vars == <<loop, cur, stopped, stopper, managerVars, closing, handler, reader, writer, clientVars>>

LoopStates == {"off", "select", "register", "unregister", "broadcast", "stopping", "done"}
Shutdowns == {"loop", "Stop"}

TypeOK ==
    /\ loop \in LoopStates
    /\ cur \in Clients \cup {None}
    /\ stopped \in BOOLEAN
    /\ stopper \in {"idle", "taking", "closing"}
    /\ clients \in [Sessions -> Clients \cup {None}]
    /\ userIdMap \in [Users -> Sessions \cup {None}]
    /\ closing \in [Shutdowns -> SUBSET Clients]
    /\ handler \in [Clients -> {"new", "registering", "accepted", "ignored"}]
    /\ reader \in [Clients -> {"none", "reading", "unregistering", "gone"}]
    /\ writer \in [Clients -> {"none", "running", "gone"}]
    /\ closed \in [Clients -> BOOLEAN]
    /\ open \in [Clients -> BOOLEAN]
    /\ send \in [Clients -> 0 .. SendCap]

(* NewClientManager and NewClient. *)
Init ==
    /\ loop = "off" /\ cur = None /\ stopped = FALSE /\ stopper = "idle"
    /\ clients = [s \in Sessions |-> None]
    /\ userIdMap = [u \in Users |-> None]
    /\ closing = [p \in Shutdowns |-> {}]
    /\ handler = [c \in Clients |-> "new"]
    /\ reader = [c \in Clients |-> "none"]
    /\ writer = [c \in Clients |-> "none"]
    /\ closed = [c \in Clients |-> FALSE]
    /\ open = [c \in Clients |-> TRUE]
    /\ send = [c \in Clients |-> 0]

Listed(c) == clients[SessionOf[c]] = c

(* Client.Close. *)
CloseClient(c) ==
    /\ closed' = [closed EXCEPT ![c] = TRUE]
    /\ open' = [open EXCEPT ![c] = FALSE]

(* Client.Send of one message to every client in S: dropped when the       *)
(* client is closed or its buffer is full.                                 *)
SendTo(S) ==
    send' = [c \in Clients |->
                IF c \in S /\ ~closed[c] /\ send[c] < SendCap THEN send[c] + 1 ELSE send[c]]
-----------------------------------------------------------------------------
(* Start. *)

Start ==
    /\ loop = "off"
    /\ loop' = "select"
    /\ UNCHANGED <<cur, stopped, stopper, managerVars, closing, handler, reader, writer, clientVars>>

(* The loop stores the client it has received. *)
LoopRegisters ==
    /\ loop = "register"
    /\ clients' = [clients EXCEPT ![SessionOf[cur]] = cur]
    /\ userIdMap' = [userIdMap EXCEPT ![UserOf[cur]] = SessionOf[cur]]
    /\ loop' = "select" /\ cur' = None
    /\ UNCHANGED <<stopped, stopper, closing, handler, reader, writer, clientVars>>

(* Mutant: the connection is left open. *)
LoopUnregistersOpen ==
    /\ loop = "unregister"
    /\ clients' = [clients EXCEPT ![SessionOf[cur]] = None]
    /\ loop' = "select" /\ cur' = None
    /\ UNCHANGED <<userIdMap, stopped, stopper, closing, handler, reader, writer, clientVars>>

(* The loop closes and removes the client, if its session is still listed. *)
LoopUnregisters ==
    /\ loop = "unregister"
    /\ \/ /\ clients[SessionOf[cur]] # None
          /\ CloseClient(cur)
          /\ clients' = [clients EXCEPT ![SessionOf[cur]] = None]
       \/ /\ clients[SessionOf[cur]] = None
          /\ UNCHANGED <<closed, open, clients>>
    /\ loop' = "select" /\ cur' = None
    /\ UNCHANGED <<userIdMap, stopped, stopper, closing, handler, reader, writer, send>>

LoopBroadcasts ==
    /\ loop = "broadcast"
    /\ SendTo({c \in Clients : Listed(c)})
    /\ loop' = "select"
    /\ UNCHANGED <<cur, stopped, stopper, managerVars, closing, handler, reader, writer, closed, open>>

(* shutdownClients under mu: both maps are emptied of the listed clients,  *)
(* which are closed after the unlock.                                      *)
TakeClients(p) ==
    LET listed == {c \in Clients : Listed(c)} IN
    /\ closing' = [closing EXCEPT ![p] = @ \cup listed]
    /\ clients' = [s \in Sessions |-> None]
    /\ userIdMap' = [u \in Users |-> IF \E c \in listed : UserOf[c] = u THEN None ELSE userIdMap[u]]

(* Mutant: the loop returns without shutdownClients. *)
LoopStopsOnly ==
    /\ loop = "select" /\ stopped
    /\ loop' = "stopping"
    /\ UNCHANGED <<cur, stopped, stopper, managerVars, closing, handler, reader, writer, clientVars>>

(* case <-m.stopChan. *)
LoopStops ==
    /\ loop = "select" /\ stopped
    /\ TakeClients("loop")
    /\ loop' = "stopping"
    /\ UNCHANGED <<cur, stopped, stopper, handler, reader, writer, clientVars>>

(* shutdownClients closes one client. *)
CloseNext(p, c) ==
    /\ c \in closing[p]
    /\ CloseClient(c)
    /\ closing' = [closing EXCEPT ![p] = @ \ {c}]
    /\ UNCHANGED <<loop, cur, stopped, stopper, managerVars, handler, reader, writer, send>>

LoopReturns ==
    /\ loop = "stopping" /\ closing["loop"] = {}
    /\ loop' = "done"
    /\ UNCHANGED <<cur, stopped, stopper, managerVars, closing, handler, reader, writer, clientVars>>
-----------------------------------------------------------------------------
(* The callers of the manager. *)

(* A connection was accepted and the handler calls RegisterClient. *)
RegisterClient(c) ==
    /\ handler[c] = "new"
    /\ handler' = [handler EXCEPT ![c] = "registering"]
    /\ UNCHANGED <<loop, cur, stopped, stopper, managerVars, closing, reader, writer, clientVars>>

(* case m.register <- client. *)
RegisterReceived(c) ==
    /\ handler[c] = "registering" /\ loop = "select"
    /\ loop' = "register" /\ cur' = c
    /\ handler' = [handler EXCEPT ![c] = "accepted"]
    /\ UNCHANGED <<stopped, stopper, managerVars, closing, reader, writer, clientVars>>

(* case <-m.stopChan in RegisterClient. *)
RegisterIgnored(c) ==
    /\ handler[c] = "registering" /\ stopped
    /\ handler' = [handler EXCEPT ![c] = "ignored"]
    /\ UNCHANGED <<loop, cur, stopped, stopper, managerVars, closing, reader, writer, clientVars>>

(* case m.broadcast <- message; the other case, <-m.stopChan, changes      *)
(* nothing.                                                                *)
BroadcastMessage ==
    /\ loop = "select"
    /\ loop' = "broadcast"
    /\ UNCHANGED <<cur, stopped, stopper, managerVars, closing, handler, reader, writer, clientVars>>

ClientKeepLive ==
    /\ SendTo({c \in Clients : Listed(c)})
    /\ UNCHANGED <<loop, cur, stopped, stopper, managerVars, closing, handler, reader, writer, closed, open>>

KickClientByUserId(u) ==
    /\ userIdMap[u] # None
    /\ clients[userIdMap[u]] # None
    /\ CloseClient(clients[userIdMap[u]])
    /\ clients' = [clients EXCEPT ![userIdMap[u]] = None]
    /\ userIdMap' = [userIdMap EXCEPT ![u] = None]
    /\ UNCHANGED <<loop, cur, stopped, stopper, closing, handler, reader, writer, send>>

KickClientBySessionId(s) ==
    /\ clients[s] # None
    /\ CloseClient(clients[s])
    /\ clients' = [clients EXCEPT ![s] = None]
    /\ userIdMap' = [userIdMap EXCEPT ![UserOf[clients[s]]] = None]
    /\ UNCHANGED <<loop, cur, stopped, stopper, closing, handler, reader, writer, send>>

(* Stop may be called again; stopOnce closes stopChan once. *)
Stop ==
    /\ stopper = "idle"
    /\ stopped' = TRUE
    /\ stopper' = "taking"
    /\ UNCHANGED <<loop, cur, managerVars, closing, handler, reader, writer, clientVars>>

StopTakes ==
    /\ stopper = "taking"
    /\ TakeClients("Stop")
    /\ stopper' = "closing"
    /\ UNCHANGED <<loop, cur, stopped, handler, reader, writer, clientVars>>

StopReturns ==
    /\ stopper = "closing" /\ closing["Stop"] = {}
    /\ stopper' = "idle"
    /\ UNCHANGED <<loop, cur, stopped, managerVars, closing, handler, reader, writer, clientVars>>
-----------------------------------------------------------------------------
(* A client. *)

(* The handler goes on to Listen, whatever RegisterClient did. *)
Listen(c) ==
    /\ handler[c] \in {"accepted", "ignored"} /\ reader[c] = "none"
    /\ reader' = [reader EXCEPT ![c] = "reading"]
    /\ writer' = [writer EXCEPT ![c] = "running"]
    /\ UNCHANGED <<loop, cur, stopped, stopper, managerVars, closing, handler, clientVars>>

(* A message was read and its answer is sent. *)
ReadAnswers(c) ==
    /\ reader[c] = "reading" /\ open[c]
    /\ SendTo({c})
    /\ UNCHANGED <<loop, cur, stopped, stopper, managerVars, closing, handler, reader, writer, closed, open>>

(* ReadMessage fails: the connection was closed here, by the peer or by    *)
(* the read deadline.  UnregisterClient is called.                         *)
ReadFails(c) ==
    /\ reader[c] = "reading"
    /\ reader' = [reader EXCEPT ![c] = "unregistering"]
    /\ UNCHANGED <<loop, cur, stopped, stopper, managerVars, closing, handler, writer, clientVars>>

ReaderReturns(c) ==
    /\ reader' = [reader EXCEPT ![c] = "gone"]
    /\ open' = [open EXCEPT ![c] = FALSE]

(* case m.unregister <- client. *)
UnregisterReceived(c) ==
    /\ reader[c] = "unregistering" /\ loop = "select"
    /\ loop' = "unregister" /\ cur' = c
    /\ ReaderReturns(c)
    /\ UNCHANGED <<stopped, stopper, managerVars, closing, handler, writer, closed, send>>

(* Mutant: UnregisterClient does not look at stopChan. *)
UnregisterNeverIgnored(c) ==
    /\ FALSE
    /\ UNCHANGED vars

(* case <-m.stopChan in UnregisterClient. *)
UnregisterIgnored(c) ==
    /\ reader[c] = "unregistering" /\ stopped
    /\ ReaderReturns(c)
    /\ UNCHANGED <<loop, cur, stopped, stopper, managerVars, closing, handler, writer, closed, send>>

(* SendMessage writes a message; a write error goes unnoticed. *)
WriterWrites(c) ==
    /\ writer[c] = "running" /\ send[c] > 0
    /\ send' = [send EXCEPT ![c] = @ - 1]
    /\ UNCHANGED <<loop, cur, stopped, stopper, managerVars, closing, handler, reader, writer, closed, open>>

(* Mutant: the deferred conn.Close is missing. *)
WriterReturnsOpen(c) ==
    /\ writer[c] = "running"
    /\ writer' = [writer EXCEPT ![c] = "gone"]
    /\ UNCHANGED <<loop, cur, stopped, stopper, managerVars, closing, handler, reader, clientVars>>

(* SendMessage returns: it has taken a message and NextWriter fails, or    *)
(* the ping of the ticker fails, or closed is closed.                      *)
WriterReturns(c) ==
    /\ writer[c] = "running"
    /\ writer' = [writer EXCEPT ![c] = "gone"]
    /\ open' = [open EXCEPT ![c] = FALSE]
    /\ \/ send[c] > 0 /\ send' = [send EXCEPT ![c] = @ - 1]
       \/ UNCHANGED send
    /\ UNCHANGED <<loop, cur, stopped, stopper, managerVars, closing, handler, reader, closed>>
-----------------------------------------------------------------------------
LoopStep ==
    \/ LoopRegisters \/ LoopUnregisters \/ LoopBroadcasts \/ LoopStops \/ LoopReturns
    \/ \E c \in Clients : CloseNext("loop", c)

ManagerCall ==
    \/ BroadcastMessage \/ ClientKeepLive
    \/ \E u \in Users : KickClientByUserId(u)
    \/ \E s \in Sessions : KickClientBySessionId(s)
    \/ Stop \/ StopTakes \/ StopReturns
    \/ \E c \in Clients : CloseNext("Stop", c)

ClientStep(c) ==
    \/ RegisterClient(c) \/ RegisterReceived(c) \/ RegisterIgnored(c) \/ Listen(c)
    \/ ReadAnswers(c) \/ ReadFails(c) \/ UnregisterReceived(c) \/ UnregisterIgnored(c)
    \/ WriterWrites(c) \/ WriterReturns(c)

Next == Start \/ LoopStep \/ ManagerCall \/ \E c \in Clients : ClientStep(c)

Spec == Init /\ [][Next]_vars

(***************************************************************************)
(* Goroutines run on once they can.  A select chooses at random between    *)
(* the cases that are ready, so a case that is ready again and again is    *)
(* taken.  A read of a closed connection fails.  Nobody has to call        *)
(* anything.                                                               *)
(***************************************************************************)
ClientFairness(c) ==
    /\ SF_vars(RegisterReceived(c)) /\ WF_vars(RegisterIgnored(c))
    /\ SF_vars(UnregisterReceived(c)) /\ WF_vars(UnregisterIgnored(c))
    /\ WF_vars(ReadFails(c) /\ ~open[c])
    /\ WF_vars(WriterReturns(c) /\ closed[c])

Fairness ==
    /\ WF_vars(LoopRegisters) /\ WF_vars(LoopUnregisters) /\ WF_vars(LoopBroadcasts)
    /\ SF_vars(LoopStops) /\ WF_vars(LoopReturns)
    /\ WF_vars(StopTakes)
    /\ \A p \in Shutdowns, c \in Clients : WF_vars(CloseNext(p, c))
    /\ \A c \in Clients : ClientFairness(c)

FairSpec == Spec /\ Fairness
-----------------------------------------------------------------------------
(***************************************************************************)
(* Session ids come from GenSessionId, so no two clients share one.        *)
(***************************************************************************)
UniqueSessions == \A c, d \in Clients : SessionOf[c] = SessionOf[d] => c = d

Places == {"pending", "listed", "loop", "Stop", "closed"}

Held(c, place) ==
    \/ place = "pending" /\ loop = "register" /\ cur = c
    \/ place = "listed" /\ Listed(c)
    \/ place \in Shutdowns /\ c \in closing[place]
    \/ place = "closed" /\ closed[c]

(* No accepted client is lost: it is on its way into m.clients, or listed  *)
(* there, or held by one shutdownClients, or closed; and never in two of   *)
(* these places.  The loop, the kicks and two concurrent shutdownClients   *)
(* move clients between them under mu.                                     *)
Accounted ==
    \A c \in Clients :
        /\ handler[c] = "accepted" <=> \E place \in Places : Held(c, place)
        /\ \A p, q \in Places : Held(c, p) /\ Held(c, q) => p = q

(* "All clients have been kicked": when Start has returned and no Stop is  *)
(* under way, every client that RegisterClient handed over is closed, the  *)
(* ones the loop still took after stopChan was closed included.            *)
AllKicked ==
    loop = "done" /\ stopper = "idle" =>
        \A c \in Clients : handler[c] = "accepted" => closed[c]

(* Start and Stop together close every client that was handed over.  (Here *)
(* and below what is asked about, once true, stays true.)                  *)
ShutdownCloses ==
    \A c \in Clients :
        []<>(stopped /\ loop # "off" /\ handler[c] = "accepted" => closed[c])

(* Nobody waits for a loop that is gone: RegisterClient returns once Start *)
(* or Stop was called, and of a closed client the reader, which has to get *)
(* through UnregisterClient, and the writer end (ws_client_manager.go 118, *)
(* 127).                                                                   *)
NobodyIsStranded ==
    \A c \in Clients :
        /\ []<>(stopped \/ loop # "off" => handler[c] # "registering")
        /\ []<>(closed[c] /\ reader[c] # "none" => reader[c] = "gone" /\ writer[c] = "gone")

(* A connection one of whose goroutines has ended is removed from the      *)
(* manager for good: the writer's failure reaches the loop through         *)
(* conn.Close, the failing read and UnregisterClient.                      *)
NoDeadClients ==
    \A c \in Clients :
        <>[]("gone" \in {reader[c], writer[c]} => ~Listed(c))
=============================================================================
