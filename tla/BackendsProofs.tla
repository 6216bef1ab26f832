--------------------------- MODULE BackendsProofs ---------------------------
(***************************************************************************)
(* Calls that share one execution, for any keys and callers (Init, Next    *)
(* and Spec without a prefix are those of SharedCalls), sync.Once for any  *)
(* number of readers and parts, a session's transaction for any number of  *)
(* statements, and the subjects and the messages of a NATS stream for any  *)
(* number of connections, consumers and messages.                          *)
(***************************************************************************)
EXTENDS SharedCalls, Singletons, Sessions, Nats, SequenceTheorems, TLAPS

(* MapMatchesExecutors holds when NewSharedCalls returns. *)
LEMMA InitMatches == Init => MapMatchesExecutors
BY Zenon, NoneIsNoInvocation DEF Init, MapMatchesExecutors, TypeOK, Locations, Outcomes

(* Every critical section of DoEx, every return and every panic of fn, and *)
(* every return of a waiter preserve MapMatchesExecutors.                  *)
LEMMA NextMatches ==
    ASSUME MapMatchesExecutors, [Next]_vars
    PROVE  MapMatchesExecutors'
<1> USE NoneIsNoInvocation DEF MapMatchesExecutors, TypeOK, Locations, Outcomes
<1>1. ASSUME NEW i \in Invocations, JoinCall(i)
      PROVE  MapMatchesExecutors'
  BY <1>1 DEF JoinCall
<1>2. ASSUME NEW i \in Invocations, StartCall(i)
      PROVE  MapMatchesExecutors'
  BY <1>2 DEF StartCall
<1>3. ASSUME NEW i \in Invocations, FnReturns(i)
      PROVE  MapMatchesExecutors'
  BY <1>3 DEF FnReturns
<1>4. ASSUME NEW i \in Invocations, FnPanics(i)
      PROVE  MapMatchesExecutors'
  BY <1>4 DEF FnPanics
<1>5. ASSUME NEW i \in Invocations, DeleteCall(i)
      PROVE  MapMatchesExecutors'
  BY <1>5 DEF DeleteCall
<1>6. ASSUME NEW i \in Invocations, WaitReturns(i)
      PROVE  MapMatchesExecutors'
  BY <1>6 DEF WaitReturns
<1>7. CASE UNCHANGED vars
  BY Zenon, <1>7 DEF vars
<1> QED
  BY Zenon, <1>1, <1>2, <1>3, <1>4, <1>5, <1>6, <1>7 DEF Next, Quiescent

(* The map of calls and the goroutines agree in every reachable state. *)
THEOREM MapAgrees == Spec => []MapMatchesExecutors
BY InitMatches, NextMatches, PTL DEF Spec

(* Single flight: fn never runs twice at the same time for one key. *)
THEOREM SingleFlightHolds == Spec => []SingleFlight
<1>1. MapMatchesExecutors => SingleFlight
  BY DEF MapMatchesExecutors, SingleFlight
<1> QED
  BY <1>1, MapAgrees, PTL

(* DoEx returns only results of finished executions for its own key. *)
THEOREM ReturnsFinishedResultHolds == Spec => []ReturnsFinishedResult
<1>1. MapMatchesExecutors => ReturnsFinishedResult
  BY Zenon DEF MapMatchesExecutors, ReturnsFinishedResult
<1> QED
  BY <1>1, MapAgrees, PTL

(* A call leaves the map only when its own executor deletes it after fn has*)
(* finished.                                                               *)
THEOREM OnlyFinishedCallsRemovedHolds == Spec => OnlyFinishedCallsRemoved
<1> DEFINE Removal == \A k \in Keys :
        calls[k] # None /\ calls'[k] # calls[k] => pc[calls[k]] = "done"
<1>1. ASSUME MapMatchesExecutors, [Next]_vars
      PROVE  [Removal]_vars
  <2> SUFFICES ASSUME Next PROVE Removal
    BY Zenon, <1>1
  <2> USE DEF MapMatchesExecutors, TypeOK
  <2>1. ASSUME NEW i \in Invocations, StartCall(i)
        PROVE  Removal
    BY <1>1, <2>1 DEF StartCall
  <2>2. ASSUME NEW i \in Invocations, DeleteCall(i)
        PROVE  Removal
    BY <1>1, <2>2 DEF DeleteCall
  <2>3. CASE UNCHANGED calls
    BY Zenon, <2>3
  <2> QED
    BY Zenon, <2>1, <2>2, <2>3
       DEF Next, Quiescent, vars, JoinCall, FnReturns, FnPanics, WaitReturns
<1> QED
  BY <1>1, MapAgrees, PTL DEF Spec, OnlyFinishedCallsRemoved

(* Who has not entered DoEx holds no call, a call has a result only once   *)
(* its fn has returned, and who waits does not wait for itself.            *)
Positions ==
    \A i \in Invocations :
        /\ pc[i] = "idle" => joined[i] = None
        /\ pc[i] \in {"idle", "fn", "wait", "panicked"} => outcome[i] = "none"
        /\ pc[i] = "wait" => joined[i] # i

(* Positions holds in every reachable state. *)
LEMMA PositionsHold == Spec => [](MapMatchesExecutors /\ Positions)
<1>1. Init => Positions
  BY Zenon DEF Init, Positions
<1>2. ASSUME MapMatchesExecutors, Positions, [Next]_vars
      PROVE  Positions'
  <2> USE <1>2, NoneIsNoInvocation
      DEF MapMatchesExecutors, TypeOK, Positions, Locations, Outcomes
  <2>1. ASSUME NEW i \in Invocations, JoinCall(i)
        PROVE  Positions'
    BY <2>1 DEF JoinCall
  <2>2. ASSUME NEW i \in Invocations, StartCall(i)
        PROVE  Positions'
    BY <2>2 DEF StartCall
  <2>3. ASSUME NEW i \in Invocations, FnReturns(i)
        PROVE  Positions'
    BY <2>3 DEF FnReturns
  <2>4. ASSUME NEW i \in Invocations, FnPanics(i) \/ DeleteCall(i) \/ WaitReturns(i)
        PROVE  Positions'
    BY <2>4 DEF FnPanics, DeleteCall, WaitReturns
  <2>5. CASE UNCHANGED vars
    BY Zenon, <2>5 DEF vars
  <2> QED
    BY Zenon, <2>1, <2>2, <2>3, <2>4, <2>5 DEF Next, Quiescent
<1> QED
  BY <1>1, <1>2, MapAgrees, PTL DEF Spec

(* Every step of DoEx is a step that Flights allows its callers to see, or *)
(* none that they see.                                                     *)
LEMMA StepShares ==
    ASSUME MapMatchesExecutors, Positions, [Next]_vars
    PROVE  [Shared!Next]_(Shared!vars)
<1> USE NoneIsNoInvocation
    DEF MapMatchesExecutors, TypeOK, Positions, Locations, Outcomes, Shared!vars
<1>1. ASSUME NEW i \in Invocations, JoinCall(i)
      PROVE  Shared!Board(i)
  BY <1>1 DEF JoinCall, Shared!Board
<1>2. ASSUME NEW i \in Invocations, StartCall(i)
      PROVE  Shared!Open(i)
  BY <1>2 DEF StartCall, Shared!Open
<1>3. ASSUME NEW i \in Invocations, FnReturns(i)
      PROVE  Shared!Land(i)
  BY <1>3 DEF FnReturns, Shared!Land
<1>4. ASSUME NEW i \in Invocations, FnPanics(i)
      PROVE  UNCHANGED Shared!vars
  BY <1>4 DEF FnPanics
<1>5. ASSUME NEW i \in Invocations, DeleteCall(i)
      PROVE  Shared!Close(i)
  BY <1>5 DEF DeleteCall, Shared!Close
<1>6. ASSUME NEW i \in Invocations, WaitReturns(i)
      PROVE  Shared!Leave(i)
  BY <1>6 DEF WaitReturns, Shared!Leave
<1>7. CASE UNCHANGED vars
  BY <1>7 DEF vars
<1> QED
  BY Zenon, <1>1, <1>2, <1>3, <1>4, <1>5, <1>6, <1>7 DEF Next, Quiescent, Shared!Next

(* DoEx implements Flights: callers of SharedCalls see executions of a key *)
(* that follow one another and results of the execution they joined.       *)
THEOREM SharesFlightsHolds == Spec => SharesFlights
<1>1. Init => Shared!Init
  BY Zenon DEF Init, Shared!Init
<1> QED
  BY <1>1, StepShares, PositionsHold, PTL DEF Spec, SharesFlights, Shared!Spec

-----------------------------------------------------------------------------
(* One reader builds while the Once runs; who may build without a          *)
(* configuration is NATS alone; a Once that is done has built everything   *)
(* or has failed before.                                                   *)
Built ==
    /\ once = "new" => built = 0 /\ goal = 0 /\ ~failed
    /\ failed => once = "done" /\ built < goal
    /\ once = "done" /\ ~failed => built = goal
    /\ once # "new" /\ goal = 0 => kind = "nats"
    /\ \A r \in Readers :
          /\ reader[r] = "build" => once = "running"
          /\ reader[r] = "returned" => once = "done"
          /\ reader[r] = "wait" => configured \/ kind = "nats"
    /\ \A r, q \in Readers : reader[r] = "build" /\ reader[q] = "build" => r = q

OnceInv == CompleteWhenReturned /\ Built

(* The table of the packages: every variable is assigned by the time all   *)
(* parts are built, and NATS, which builds from no configuration, assigns  *)
(* it first of all.                                                        *)
LEMMA PackageFacts ==
    ASSUME Parts \in Nat \ {0}, kind \in DOMAIN Packages
    PROVE  /\ package.published \in 0..Parts
           /\ package.early = "build" <=> kind = "nats"
           /\ kind = "nats" => package.published = 0
BY DEF package, Packages, Conf, Redis, Databases, Nats, Clickhouse, Mongodb, Etcd, I18n, Logs

(* Before Init nothing has been built. *)
LEMMA BuiltInit == Parts \in Nat \ {0} /\ SingletonInit => OnceInv
<1> SUFFICES ASSUME Parts \in Nat \ {0}, SingletonInit PROVE OnceInv
  BY Zenon
<1>1. Nil \in 0..Nil /\ Nil # Parts BY DEF Nil
<1>2. SingletonTypeOK
  <2>1. configured \in BOOLEAN BY Zenon DEF SingletonInit
  <2>2. failed \in BOOLEAN BY Zenon DEF SingletonInit
  <2> QED BY <1>1, <2>1, <2>2 DEF SingletonInit, SingletonTypeOK
<1>3. \A r \in Readers : reader[r] = "out" BY Zenon DEF SingletonInit
<1>4. Built BY Zenon, <1>3 DEF SingletonInit, Built
<1> QED BY Zenon, <1>2, <1>3, <1>4 DEF OnceInv, CompleteWhenReturned

(* A caller that finds the Once done, and nothing failed, finds all.       *)
LEMMA FoundAll ==
    ASSUME Parts \in Nat \ {0}, OnceInv, once = "done"
    PROVE  /\ Found \in 0..Nil
           /\ ~failed => Found = goal
           /\ failed => Found # Parts
BY PackageFacts DEF OnceInv, CompleteWhenReturned, SingletonTypeOK, Built, Found, Nil

(* Every step of a reader and of the builder preserves OnceInv. *)
LEMMA BuiltNext == Parts \in Nat \ {0} /\ OnceInv /\ [SingletonNext]_singletonVars => OnceInv'
<1> SUFFICES ASSUME Parts \in Nat \ {0}, OnceInv, [SingletonNext]_singletonVars PROVE OnceInv'
  BY Zenon
<1> USE DEF OnceInv, CompleteWhenReturned, SingletonTypeOK, Built
<1>0. Nil \in Nat /\ Nil = Parts + 1 BY DEF Nil
<1>a. package.published \in 0..Parts /\ (package.early = "build" <=> kind = "nats")
  BY Zenon, PackageFacts
<1>1. CASE Configure
  BY Zenon, <1>0, <1>1 DEF Configure
<1>2. ASSUME NEW r \in Readers, Calls(r) PROVE OnceInv'
  <2>0. reader[r] = "out" /\ UNCHANGED <<kind, configured, once, goal, built, failed>>
    BY <1>2, Zenon DEF Calls
  <2>1. CASE (configured \/ package.early = "build") /\ Goes(r, "wait") /\ UNCHANGED got
    BY Zenon, <1>0, <1>a, <2>0, <2>1 DEF Goes
  <2>2. CASE Goes(r, "empty") /\ Gets(r, 0)
    BY <1>0, <2>0, <2>2 DEF Goes, Gets
  <2>3. CASE Goes(r, "panicked") /\ UNCHANGED got
    BY Zenon, <1>0, <2>0, <2>3 DEF Goes
  <2> QED BY <1>2, <2>1, <2>2, <2>3, Zenon DEF Calls
<1>3. ASSUME NEW r \in Readers, Enters(r) PROVE OnceInv'
  BY <1>0, <1>3 DEF Enters, Goes
<1>4. ASSUME NEW r \in Readers, BuildsPart(r) PROVE OnceInv'
  BY <1>0, <1>4 DEF BuildsPart
<1>5. ASSUME NEW r \in Readers, Finishes(r) PROVE OnceInv'
  BY <1>0, <1>5 DEF Finishes, Goes, Gets
<1>6. ASSUME NEW r \in Readers, BuildFails(r) PROVE OnceInv'
  BY Zenon, <1>0, <1>6 DEF BuildFails, Goes
<1>7. ASSUME NEW r \in Readers, Returns(r) PROVE OnceInv'
  <2>1. /\ Found \in 0..Nil
        /\ ~failed => Found = goal
        /\ failed => Found # Parts
    BY Zenon, <1>7, FoundAll DEF Returns
  <2> QED BY Zenon, <1>0, <1>7, <2>1 DEF Returns, Goes, Gets
<1>8. ASSUME NEW r \in Readers, ReadsRaw(r) PROVE OnceInv'
  <2>1. Found \in 0..Nil BY <1>0 DEF Found
  <2> QED BY <1>0, <1>8, <2>1 DEF ReadsRaw, Goes, Gets
<1>9. CASE UNCHANGED singletonVars
  BY Zenon, <1>9 DEF singletonVars
<1> QED
  BY Zenon, <1>1, <1>2, <1>3, <1>4, <1>5, <1>6, <1>7, <1>8, <1>9 DEF SingletonNext

(* Who comes through the Once of a package finds everything that was       *)
(* configured, unless building failed, for any number of goroutines and    *)
(* of parts.                                                               *)
THEOREM CompleteWhenReturnedHolds ==
    ASSUME Parts \in Nat \ {0}
    PROVE  SingletonSpec => []CompleteWhenReturned
<1>1. OnceInv => CompleteWhenReturned BY Zenon DEF OnceInv
<1>2. SingletonInit => OnceInv BY Zenon, BuiltInit
<1>3. OnceInv /\ [SingletonNext]_singletonVars => OnceInv' BY Zenon, BuiltNext
<1> QED BY <1>1, <1>2, <1>3, PTL DEF SingletonSpec

-----------------------------------------------------------------------------
(* Sessions.  The DAO and the database agree on whether a transaction is   *)
(* open; an open wrapper is in it exactly as long as no statement failed,  *)
(* and who goes on with what Execute returned has nothing committed before *)
(* COMMIT.                                                                 *)
InStep ==
    /\ inTrans <=> tx = "open"
    /\ ~inTrans => pending = {}
    /\ mode # "wrapper" => chained
    /\ mode = "plain" => tx = "none"

Opened ==
    /\ at = "new" => tx = "none" /\ durable = {} /\ ~err /\ ~broke
    /\ at # "over" => result = "none" /\ ~quiet /\ ~unsure
    /\ at = "open" /\ mode # "plain" =>
          /\ err => ~inTrans
          /\ ~err => (inTrans <=> ~broke)
          /\ chained => durable = {} /\ (broke => err)
    /\ result # "none" => ~inTrans
    /\ block # "try" => at = "over"

SessionInv == AllOrNothing /\ InStep /\ Opened

(* Before Begin there is no transaction. *)
LEMMA SessionInvInit == MaxCalls \in Nat /\ SessionInit => SessionInv
<1> SUFFICES ASSUME MaxCalls \in Nat, SessionInit PROVE SessionInv
  BY Zenon
<1>1. SessionTypeOK
  <2>1. chained \in BOOLEAN BY Zenon DEF SessionInit
  <2>2. pending \subseteq 1..MaxCalls /\ durable \subseteq 1..MaxCalls /\ executed \in 0..MaxCalls
    BY DEF SessionInit
  <2> QED BY <2>1, <2>2, Zenon DEF SessionInit, SessionTypeOK
<1>2. InStep /\ Opened BY Zenon DEF SessionInit, TryInit, InStep, Opened
<1> QED BY <1>1, <1>2, Zenon DEF SessionInv, AllOrNothing, SessionInit

(* The transaction's variables keep their types. *)
DataOK ==
    /\ tx \in {"none", "open", "committed", "rolledback"}
    /\ pending \subseteq 1..MaxCalls /\ durable \subseteq 1..MaxCalls
    /\ inTrans \in BOOLEAN /\ unsure \in BOOLEAN

(* A rollback keeps the data within their types. *)
LEMMA RollbackData == ASSUME DataOK, Rollback PROVE DataOK'
<1>1. pending' \subseteq 1..MaxCalls BY Zenon DEF Rollback
<1> QED BY <1>1, Zenon DEF DataOK, Rollback

(* A commit keeps the data within their types. *)
LEMMA CommitData == ASSUME DataOK, CommitEnds PROVE DataOK'
<1>1. CASE CommitApplied
  <2>1. pending' \subseteq 1..MaxCalls /\ durable' \subseteq 1..MaxCalls
    BY Zenon, <1>1 DEF CommitApplied, DataOK
  <2> QED BY <1>1, <2>1, Zenon DEF DataOK, CommitEnds, CommitApplied, CommitFails, Rollback
<1>2. CASE CommitFails
  BY <1>2, RollbackData, Zenon DEF CommitFails
<1>3. CASE UNCHANGED <<inTrans, tx, pending, durable, unsure>>
  BY <1>3, Zenon DEF DataOK
<1> QED BY <1>1, <1>2, <1>3, Zenon DEF CommitEnds

(* Every step of a session keeps the types. *)
LEMMA SessionTypeNext ==
    ASSUME MaxCalls \in Nat, SessionTypeOK, [SessionNext]_dataVars
    PROVE  SessionTypeOK'
<1>0. DataOK BY Zenon DEF SessionTypeOK, DataOK
<1>1. CASE Opens
  <2>1. DataOK'
    <3>1. CASE Begin BY <1>0, <3>1, Zenon DEF DataOK, Begin
    <3>2. CASE UNCHANGED <<inTrans, tx, pending, durable, unsure>> BY <1>0, <3>2, Zenon DEF DataOK
    <3> QED BY <1>1, <3>1, <3>2, Zenon DEF Opens
  <2> QED BY <1>1, <2>1, Zenon DEF SessionTypeOK, DataOK, Opens, Ends
<1>2. ASSUME Statements PROVE executed' \in 0..MaxCalls /\ executed' \in 1..MaxCalls
  BY <1>2 DEF Statements, SessionTypeOK
<1>3. CASE Succeeds
  <2>1. pending' \subseteq 1..MaxCalls /\ durable' \subseteq 1..MaxCalls
    BY Zenon, <1>0, <1>2, <1>3 DEF DataOK, Succeeds, Writes, Reads
  <2>2. Statements /\ UNCHANGED <<mode, chained, at, inTrans, tx, err, result, quiet, broke, unsure>>
    BY <1>3, Zenon DEF Succeeds
  <2>3. DataOK' BY <1>0, <2>1, <2>2, Zenon DEF DataOK
  <2> QED BY <1>2, <2>2, <2>3, Zenon DEF SessionTypeOK, DataOK
<1>4. CASE Fails
  <2>1. DataOK'
    <3>1. CASE Rollback BY <1>0, <3>1, RollbackData, Zenon
    <3>2. CASE UNCHANGED <<inTrans, tx, pending, durable, unsure>> BY <1>0, <3>2, Zenon DEF DataOK
    <3> QED BY <1>4, <3>1, <3>2, Zenon DEF Fails, ExecuteFailed
  <2> QED BY <1>2, <1>4, <2>1, Zenon DEF SessionTypeOK, DataOK, Fails, Ends
<1>5. CASE Skips
  BY <1>2, <1>5, Zenon DEF SessionTypeOK, Skips
<1>6. ASSUME NEW e \in Errors, Panics(e) PROVE SessionTypeOK'
  <2>1. DataOK'
    <3>1. CASE Rollback BY <1>0, <3>1, RollbackData, Zenon
    <3>2. CASE UNCHANGED <<inTrans, tx, pending, durable, unsure>> BY <1>0, <3>2, Zenon DEF DataOK
    <3> QED BY <1>6, <3>1, <3>2, Zenon DEF Panics
  <2> QED BY <1>2, <1>6, <2>1, Zenon DEF SessionTypeOK, DataOK, Panics, Ends
<1>7. CASE Commits
  <2>1. DataOK'
    <3>1. CASE Rollback BY <1>0, <3>1, RollbackData, Zenon
    <3>2. CASE UNCHANGED <<inTrans, tx, pending, durable, unsure>> BY <1>0, <3>2, Zenon DEF DataOK
    <3>3. CASE CommitEnds BY <1>0, <3>3, CommitData, Zenon
    <3> QED BY <1>7, <3>1, <3>2, <3>3, Zenon DEF Commits
  <2> QED BY <1>7, <2>1, Zenon DEF SessionTypeOK, DataOK, Commits, CommitEnds, Ends
<1>8. CASE Closes
  <2>1. DataOK' BY <1>0, <1>8, RollbackData, Zenon DEF Closes, CloseSession
  <2> QED BY <1>8, <2>1, Zenon DEF SessionTypeOK, DataOK, Closes, Ends
<1>9. CASE Finally
  <2>1. DataOK' BY <1>0, <1>9, RollbackData, Zenon DEF Finally, CloseSession
  <2> QED BY <1>9, <2>1, Zenon DEF SessionTypeOK, DataOK, Finally
<1>10. CASE UNCHANGED sessionVars
  <2>1. DataOK' BY <1>0, <1>10, Zenon DEF DataOK, sessionVars
  <2> QED BY <1>10, <2>1, Zenon DEF SessionTypeOK, DataOK, sessionVars
<1> QED
  BY <1>1, <1>3, <1>4, <1>5, <1>6, <1>7, <1>8, <1>9, <1>10, Zenon
  DEF SessionNext, BodyEnds, HandlerBlock, dataVars

(* Every step of Begin, the try block and its handlers preserves           *)
(* SessionInv.                                                             *)
LEMMA SessionInvNext == MaxCalls \in Nat /\ SessionInv /\ [SessionNext]_dataVars => SessionInv'
<1> SUFFICES ASSUME MaxCalls \in Nat, SessionInv, [SessionNext]_dataVars PROVE SessionInv'
  BY Zenon
<1>0. SessionTypeOK' BY SessionTypeNext, Zenon DEF SessionInv, AllOrNothing
<1> USE DEF SessionInv, AllOrNothing, InStep, Opened
<1>1. CASE Opens
  <2>0. block' = "try" /\ at = "new" /\ UNCHANGED <<mode, chained, executed, quiet, broke>>
    BY <1>1, Zenon DEF Opens, InTry, tryVars
  <2>1. CASE mode # "plain" /\ Begin /\ at' = "open" /\ UNCHANGED <<err, result>>
    BY <1>0, <2>0, <2>1, SMT DEF Begin
  <2>2. CASE mode = "plain" /\ at' = "open"
             /\ UNCHANGED <<inTrans, tx, pending, durable, unsure, err, result>>
    BY <1>0, <2>0, <2>2, SMT
  <2>3. CASE /\ mode # "plain" /\ err' = TRUE
             /\ IF mode = "wrapper" THEN at' = "open" /\ UNCHANGED result ELSE Ends("error")
             /\ UNCHANGED <<inTrans, tx, pending, durable, unsure>>
    BY <1>0, <2>0, <2>3, SMT DEF Ends
  <2> QED BY <1>1, <2>1, <2>2, <2>3, Zenon DEF Opens
<1>2. CASE Succeeds
  BY <1>0, <1>2, SMT DEF Succeeds, Statements, InTry, tryVars, Writes, Reads, DB
<1>3. CASE Fails
  <2>0. block' = "try" /\ at = "open" /\ ~err /\ broke' = TRUE /\ UNCHANGED <<mode, chained, quiet>>
    BY <1>3, Zenon DEF Fails, Statements, InTry, tryVars
  <2>1. CASE mode = "wrapper" /\ Rollback /\ err' = chained /\ UNCHANGED <<at, result>>
    BY <1>0, <2>0, <2>1, SMT DEF Rollback
  <2>2. CASE /\ mode = "plain" /\ Ends("error") /\ err' = TRUE
             /\ UNCHANGED <<inTrans, tx, pending, durable, unsure>>
    BY <1>0, <2>0, <2>2, SMT DEF Ends
  <2>3. CASE mode \in {"warp", "entity"} /\ Rollback /\ Ends("error") /\ err' = TRUE
    BY <1>0, <2>0, <2>3, SMT DEF Rollback, Ends
  <2> QED BY <1>3, <2>1, <2>2, <2>3, Zenon DEF Fails, ExecuteFailed
<1>4. CASE Skips
  BY <1>0, <1>4, SMT DEF Skips, Statements, InTry, tryVars
<1>5. ASSUME NEW e \in Errors, Panics(e) PROVE SessionInv'
  BY <1>0, <1>5, SMT DEF Panics, Statements, InTry, tryVars, Rollback, Ends
<1>6. CASE Commits
  <2>0. block' = "try" /\ at = "open" /\ UNCHANGED <<mode, chained, executed, err, quiet, broke>>
    BY <1>6, Zenon DEF Commits, InTry, tryVars
  <2>1. CASE mode = "plain" /\ Ends("nil") /\ UNCHANGED <<inTrans, tx, pending, durable, unsure>>
    BY <1>0, <2>0, <2>1, SMT DEF Ends
  <2>2. CASE mode # "plain" /\ err /\ Rollback /\ Ends("error")
    BY <1>0, <2>0, <2>2, SMT DEF Rollback, Ends
  <2>3. CASE mode # "plain" /\ ~err /\ CommitEnds
    <3>1. CASE CommitApplied /\ Ends("nil") /\ UNCHANGED unsure
      BY <1>0, <2>0, <2>3, <3>1, SMT DEF CommitApplied, Ends
    <3>2. CASE CommitApplied /\ Ends("error") /\ unsure' = TRUE
      BY <1>0, <2>0, <2>3, <3>2, SMT DEF CommitApplied, Ends
    <3>3. CASE CommitFails /\ Ends("error")
      BY <1>0, <2>0, <2>3, <3>3, SMT DEF CommitFails, Rollback, Ends
    <3>4. CASE ~inTrans /\ Ends("error") /\ UNCHANGED <<inTrans, tx, pending, durable, unsure>>
      BY <1>0, <2>0, <2>3, <3>4, SMT DEF Ends
    <3> QED BY <2>3, <3>1, <3>2, <3>3, <3>4, Zenon DEF CommitEnds
  <2> QED BY <1>6, <2>1, <2>2, <2>3, Zenon DEF Commits
<1>7. CASE Closes
  BY <1>0, <1>7, SMT DEF Closes, InTry, tryVars, CloseSession, Rollback, Ends
<1>8. CASE Finally
  <2>1. Rollback /\ UNCHANGED <<mode, chained, at, executed, err, result, quiet, broke>>
    BY <1>8, Zenon DEF Finally, CloseSession
  <2>2. at = "over" BY <1>8, Zenon DEF Finally, FinallyEnds
  <2> QED BY <1>0, <2>1, <2>2, SMT DEF Rollback
<1>9. CASE BodyEnds
  BY <1>0, <1>9, SMT DEF BodyEnds, sessionVars
<1>10. CASE HandlerBlock
  <2>1. at = "over" BY Zenon, <1>10 DEF HandlerBlock, HandlerEnds, Handlers
  <2> QED BY <1>0, <1>10, <2>1, SMT DEF HandlerBlock, sessionVars
<1>11. CASE UNCHANGED dataVars
  <2>1. UNCHANGED <<block, mode, chained, at, inTrans, tx, pending, durable, err, result, quiet, broke, unsure>>
    BY <1>11, Zenon DEF dataVars, sessionVars, tryVars
  <2> QED BY <1>0, <2>1, SMT
<1> HIDE DEF SessionInv
<1> QED
  BY <1>1, <1>2, <1>3, <1>4, <1>5, <1>6, <1>7, <1>8, <1>9, <1>10, <1>11, Zenon
  DEF SessionNext

(* What a caller of a session is told agrees with what is committed,       *)
(* whatever fails, panics or is lost on the way and whether or not it goes *)
(* on with the wrapper that Execute returns (common.go 106-115), for a try *)
(* block of any length.                                                    *)
THEOREM AllOrNothingHolds ==
    ASSUME MaxCalls \in Nat
    PROVE  SessionSpec => []AllOrNothing
<1>1. SessionInv => AllOrNothing BY Zenon DEF SessionInv
<1>2. SessionInit => SessionInv BY Zenon, SessionInvInit
<1>3. SessionInv /\ [SessionNext]_dataVars => SessionInv' BY Zenon, SessionInvNext
<1> QED BY <1>1, <1>2, <1>3, PTL DEF SessionSpec

(* The blocks that have begun: the one that runs is the last of them, and  *)
(* nothing but the try block before a handler begins.                      *)
Blocks == {"try", "finally"} \cup Handlers

Trace ==
    /\ ran \in Seq(Blocks) /\ ran # <<>>
    /\ block \in Blocks \cup {"end"}
    /\ block # "end" => ran[Len(ran)] = block
    /\ block = "try" => \A i \in DOMAIN ran : ran[i] = "try"

OneEach ==
    /\ \A i, j \in DOMAIN ran : ran[i] \in Handlers /\ ran[j] \in Handlers => i = j
    /\ \A i \in DOMAIN ran : ran[i] = "finally" => i = Len(ran)

TraceInv == FinallyCloses /\ Trace

(* A block that begins after its predecessors begins for the first time. *)
LEMMA EnterNext ==
    ASSUME NEW b \in Handlers \cup {"finally"}, block' = b, ran' = Append(ran, b), TraceInv,
           block = "try" \/ (block \in Handlers /\ b = "finally")
    PROVE  Trace' /\ OneEach'
<1> DEFINE n == Len(ran)
<1>1. b \in Blocks /\ block \in Blocks BY Zenon DEF Blocks
<1>2. ran \in Seq(Blocks) /\ n \in Nat /\ n > 0 /\ DOMAIN ran = 1..n
  BY DEF TraceInv, Trace
<1>3. ran' = Append(ran, b) BY Zenon
<1>4. ran' \in Seq(Blocks) /\ Len(ran') = n + 1 /\ DOMAIN ran' = 1..n + 1 /\ ran'[n + 1] = b
  BY <1>1, <1>2, <1>3
<1>5. \A i \in 1..n : ran'[i] = ran[i] BY <1>1, <1>2, <1>3
<1>6. ran[n] # "finally" BY Zenon DEF TraceInv, Trace, Handlers
<1>7. \A i \in 1..n : ran[i] # "finally"
  BY Zenon, <1>2, <1>6 DEF TraceInv, FinallyCloses, FinallyLast
<1>8. b \in Handlers => \A i \in 1..n : ran[i] \notin Handlers
  BY Zenon, <1>2 DEF TraceInv, Trace, Handlers
<1>9. \A i, j \in 1..n : ran[i] \in Handlers /\ ran[j] \in Handlers => i = j
  BY Zenon, <1>2 DEF TraceInv, FinallyCloses, FinallyLast
<1> HIDE DEF n
<1>10. \A i, j \in 1..n + 1 : ran'[i] \in Handlers /\ ran'[j] \in Handlers => i = j
  <2>1. b \notin Handlers \/ \A i \in 1..n : ran[i] \notin Handlers BY Zenon, <1>8
  <2>2. \A i \in 1..n + 1 : i \in 1..n \/ i = n + 1 BY <1>2
  <2> QED BY <1>4, <1>5, <1>9, <2>1, <2>2, Zenon
<1>11. \A i \in 1..n + 1 : ran'[i] = "finally" => i = n + 1
  BY <1>2, <1>5, <1>7
<1>12. Trace'
  BY <1>1, <1>2, <1>4 DEF Trace, Handlers
<1> QED BY Zenon, <1>4, <1>10, <1>11, <1>12 DEF OneEach

(* Where Do or TryFunc goes on from a block, and what is left open. *)
LEMMA ToFinallyNext ==
    ASSUME ToFinally, TraceInv, UNCHANGED <<form, has>>, block = "try" \/ block \in Handlers,
           result = "none" \/ tx # "open", UNCHANGED <<result, tx>>
    PROVE  TraceInv'
<1>1. CASE "finally" \in has
  <2>1. Enter("finally") BY Zenon, <1>1 DEF ToFinally
  <2>2. block' = "finally" BY Zenon, <2>1 DEF Enter
  <2>3. Trace' /\ OneEach' BY Zenon, <2>1, EnterNext DEF Enter
  <2> QED BY <2>2, <2>3, Zenon DEF TraceInv, FinallyCloses, FinallyLast, OneEach
<1>2. CASE "finally" \notin has
  BY <1>2, Zenon DEF ToFinally, Leave, TraceInv, Trace, FinallyCloses, FinallyLast
<1> QED BY Zenon, <1>1, <1>2

(* A catch block is entered from the try block. *)
LEMMA EnterHandler ==
    ASSUME NEW b \in Handlers, Enter(b), TraceInv, block = "try"
    PROVE  TraceInv'
<1>1. block' # "end" /\ b \in Handlers \cup {"finally"} BY Zenon DEF Enter, Handlers
<1>2. Trace' /\ OneEach' BY Zenon, <1>1, EnterNext DEF Enter
<1> QED BY <1>1, <1>2, Zenon DEF TraceInv, FinallyCloses, FinallyLast, OneEach

(* A panic leaves TryFunc without its finally. *)
LEMMA LeaveByPanic ==
    ASSUME Leave, TraceInv, UNCHANGED <<form, has>>, form = "func", panic' # NoPanic,
           result = "none" \/ tx # "open", UNCHANGED <<result, tx>>
    PROVE  TraceInv'
<1>1. block' = "end" /\ ran' = ran BY Zenon DEF Leave
<1>2. Trace' BY <1>1, Zenon DEF TraceInv, Trace
<1> QED BY <1>1, <1>2, Zenon DEF TraceInv, FinallyCloses, FinallyLast

(* A try block that ends leads to its catch block or to finally. *)
LEMMA TryEndsNext ==
    ASSUME NEW e, TryEnds(e), TraceInv, result = "none" \/ tx # "open", UNCHANGED <<result, tx>>
    PROVE  TraceInv'
<1>1. block = "try" /\ UNCHANGED <<form, has>> BY Zenon DEF TryEnds
<1>2. CASE ToFinally BY <1>1, <1>2, ToFinallyNext, Zenon
<1>3. ASSUME NEW b \in Handlers, Enter(b) PROVE TraceInv' BY <1>1, <1>3, EnterHandler, Zenon
<1>4. "else" \in Handlers /\ "catch" \in Handlers /\ "default" \in Handlers BY Zenon DEF Handlers
<1>5. CASE Leave /\ form = "func" /\ panic' # NoPanic BY <1>1, <1>5, LeaveByPanic, Zenon
<1> QED BY <1>2, <1>3, <1>4, <1>5, Zenon DEF TryEnds, ChainAfterTry, FuncAfterTry

(* Only the try block has begun at first. *)
LEMMA TraceInvInit == SessionInit => TraceInv
<1> SUFFICES ASSUME SessionInit PROVE TraceInv
  BY Zenon
<1>1. block = "try" /\ ran = <<"try">> BY Zenon DEF SessionInit, TryInit
<1>2. "try" \in Blocks BY Zenon DEF Blocks
<1>3. ran \in Seq(Blocks) /\ Len(ran) = 1 /\ DOMAIN ran = 1..1 /\ ran[1] = "try" BY <1>1, <1>2
<1>4. Trace BY <1>1, <1>2, <1>3 DEF Trace
<1> QED BY <1>1, <1>3, <1>4 DEF TraceInv, FinallyCloses, FinallyLast, Handlers

(* Every step of a session preserves TraceInv. *)
LEMMA TraceInvNext == SessionInv /\ TraceInv /\ [SessionNext]_dataVars => TraceInv'
<1> SUFFICES ASSUME SessionInv, TraceInv, [SessionNext]_dataVars PROVE TraceInv'
  BY Zenon
<1>0. /\ result = "none" \/ tx # "open"
      /\ at # "over" => result = "none"
  BY Zenon DEF SessionInv, InStep, Opened
<1>1. CASE block = "try" /\ UNCHANGED tryVars
  <2>1. UNCHANGED <<form, has, block, ran, panic>> BY <1>1, Zenon DEF tryVars
  <2>2. Trace' BY <2>1, Zenon DEF TraceInv, Trace
  <2> QED BY <1>1, <2>1, <2>2, Zenon DEF TraceInv, FinallyCloses, FinallyLast
<1>2. ASSUME NEW e \in Errors, Panics(e) PROVE TraceInv'
  <2>1. CASE mode = "warp" BY <1>1, <1>2, <2>1, Zenon DEF Panics, Statements, InTry
  <2>2. CASE mode # "warp"
    <3>1. TryEnds(e) /\ UNCHANGED <<result, tx>> BY <1>2, <2>2, Zenon DEF Panics
    <3> QED BY <1>0, <3>1, TryEndsNext, Zenon
  <2> QED BY <2>1, <2>2, Zenon
<1>3. CASE BodyEnds
  <2>1. UNCHANGED <<result, tx>> BY <1>3, Zenon DEF BodyEnds, sessionVars
  <2> QED BY <1>0, <1>3, <2>1, TryEndsNext, Zenon DEF BodyEnds
<1>4. CASE HandlerBlock
  <2>1. PICK e \in Errors \cup {NoPanic} : HandlerEnds(e) BY <1>4, Zenon DEF HandlerBlock
  <2>2. UNCHANGED <<result, tx, form, has>> /\ block \in Handlers
    BY <1>4, <2>1, Zenon DEF HandlerBlock, sessionVars, HandlerEnds
  <2>3. CASE form = "func" /\ e # NoPanic
    BY <1>0, <2>1, <2>2, <2>3, LeaveByPanic, Zenon DEF HandlerEnds
  <2>4. CASE ~(form = "func" /\ e # NoPanic)
    BY <1>0, <2>1, <2>2, <2>4, ToFinallyNext, Zenon DEF HandlerEnds
  <2> QED BY <2>3, <2>4, Zenon
<1>5. CASE Finally
  <2>1. block = "finally" /\ block' = "end" /\ ran' = ran BY <1>5, Zenon DEF Finally, FinallyEnds, Leave
  <2>2. tx' # "open" BY Zenon, <1>5 DEF Finally, CloseSession, Rollback, SessionInv, InStep
  <2>3. Trace' /\ ran[Len(ran)] = "finally" BY <2>1, Zenon DEF TraceInv, Trace
  <2> QED BY <2>1, <2>2, <2>3, Zenon DEF TraceInv, FinallyCloses, FinallyLast
<1>6. CASE UNCHANGED dataVars
  <2>1. UNCHANGED <<form, has, block, ran, panic, tx, result>>
    BY <1>6, Zenon DEF dataVars, tryVars, sessionVars
  <2>2. Trace' BY <2>1, Zenon DEF TraceInv, Trace
  <2> QED BY <2>1, <2>2, Zenon DEF TraceInv, FinallyCloses, FinallyLast
<1>7. CASE Opens \/ Succeeds \/ Fails \/ Skips \/ Commits \/ Closes
  BY <1>1, <1>7, Zenon DEF Opens, Succeeds, Fails, Skips, Commits, Closes, Statements, InTry
<1> QED BY <1>2, <1>3, <1>4, <1>5, <1>6, <1>7, Zenon DEF SessionNext

(* finally comes last and exactly once, and leaves no transaction open,    *)
(* wherever a statement, the try block, a handler or finally itself        *)
(* panics (try_catch_chain.go 53, dao.go 101-107), for a try block of any  *)
(* length.                                                                 *)
THEOREM FinallyClosesHolds ==
    ASSUME MaxCalls \in Nat
    PROVE  SessionSpec => []FinallyCloses
<1>1. TraceInv => FinallyCloses BY Zenon DEF TraceInv
<1>2. SessionInit => SessionInv /\ TraceInv BY Zenon, SessionInvInit, TraceInvInit
<1>3. SessionInv /\ TraceInv /\ [SessionNext]_dataVars => (SessionInv /\ TraceInv)'
  BY Zenon, SessionInvNext, TraceInvNext
<1> QED BY <1>1, <1>2, <1>3, PTL DEF SessionSpec

-----------------------------------------------------------------------------
(* NATS.  A step of the stream's subjects that is not a reconciliation     *)
(* creates or deletes the stream.                                          *)
Kept == stream' = stream \/ stream' = Nothing \/ stream = Nothing

(* A step that leaves the server alone keeps its subjects. *)
LEMMA ServerKept == UNCHANGED server => Kept
BY Zenon DEF server, Kept

(* Of the steps of Start only the reconciliation changes the subjects. *)
LEMMA ConnectionKeeps ==
    ASSUME NEW c \in Conns, Connection(c)
    PROVE  Kept \/ Reconcile(c, "loop")
<1>1. CASE ConnectionLost(c) BY <1>1, ServerKept, Zenon DEF ConnectionLost
<1>2. CASE Reconnected(c) BY <1>2, ServerKept, Zenon DEF Reconnected
<1>3. CASE ReconnectsExhausted(c) BY <1>3, ServerKept, Zenon DEF ReconnectsExhausted
<1>4. CASE Stop(c) BY <1>4, ServerKept, Zenon DEF Stop
<1>5. CASE AddStream(c) BY <1>5, Zenon DEF AddStream, Kept
<1>6. CASE StartBegins(c) BY <1>6, ServerKept, Zenon DEF StartBegins
<1>7. CASE StartReads(c) BY <1>7, ServerKept, Zenon DEF StartReads
<1>8. CASE StartReconciles(c) BY <1>8, Zenon DEF StartReconciles, ReconcileFails, Kept
<1>9. CASE StartReturns(c) BY <1>9, ServerKept, Zenon DEF StartReturns
<1> QED BY <1>1, <1>2, <1>3, <1>4, <1>5, <1>6, <1>7, <1>8, <1>9, Zenon DEF Connection

(* Of the steps of Subscribe only the reconciliation changes the subjects. *)
LEMMA SubscribingKeeps ==
    ASSUME NEW c \in Conns, Subscribing(c)
    PROVE  Kept \/ Reconcile(c, "sub")
<1>1. CASE ReadStream(c) BY <1>1, ServerKept, Zenon DEF ReadStream
<1>2. CASE EnsureStream(c) BY <1>2, Zenon DEF EnsureStream, ReconcileFails, Kept
<1>3. CASE LookupConsumer(c) BY <1>3, ServerKept, Zenon DEF LookupConsumer
<1>4. CASE DeleteConsumer(c) BY <1>4, Zenon DEF DeleteConsumer, Kept
<1>5. CASE AddConsumer(c) BY <1>5, Zenon DEF AddConsumer, Kept
<1>6. CASE PullSubscribe(c) BY <1>6, Zenon DEF PullSubscribe, Kept
<1>7. CASE AppendSubscription(c) BY <1>7, ServerKept, Zenon DEF AppendSubscription
<1> QED BY <1>1, <1>2, <1>3, <1>4, <1>5, <1>6, <1>7, Zenon DEF Subscribing

(* Fetching, handling and acknowledging leave the subjects alone. *)
LEMMA ConsumingKeeps == ASSUME NEW c \in Conns, Consuming(c) PROVE Kept
<1>1. CASE Fetch(c) BY <1>1, Zenon DEF Fetch, Kept
<1>2. CASE FetchNoResponders(c) BY <1>2, ServerKept, Zenon DEF FetchNoResponders
<1>3. CASE FetchStops(c) BY <1>3, ServerKept, Zenon DEF FetchStops
<1>4. CASE Ack(c) BY <1>4, Zenon DEF Ack, Kept
<1>5. ASSUME NEW m \in Messages, Handle(c, m) PROVE Kept BY <1>5, ServerKept, Zenon DEF Handle
<1>6. ASSUME NEW m \in Messages, HandleCore(c, m) PROVE Kept BY <1>6, Zenon DEF HandleCore, Kept
<1> QED BY <1>1, <1>2, <1>3, <1>4, <1>5, <1>6, Zenon DEF Consuming

(* A reconciliation adds to what was read, unless it found no stream, and  *)
(* then AddStream is refused for any other.                                *)
LEMMA ReconcileKeeps ==
    ASSUME NEW c \in Conns, NEW u \in {"loop", "sub"}, Reconcile(c, u),
           stream # Nothing, ~(stream \subseteq stream')
    PROVE  seen[<<c, u>>] # Nothing /\ ~(stream \subseteq seen[<<c, u>>])
<1>1. /\ Accepted(c, seen[<<c, u>>])
      /\ stream' = mergeSubjects(IF seen[<<c, u>>] = Nothing THEN {} ELSE seen[<<c, u>>], setup.listed[c])
  BY Zenon DEF Reconcile
<1>2. CASE seen[<<c, u>>] = Nothing
  BY Zenon, <1>1, <1>2 DEF Accepted, mergeSubjects
<1>3. CASE seen[<<c, u>>] # Nothing
  BY Zenon, <1>1, <1>3 DEF mergeSubjects
<1> QED BY Zenon, <1>2, <1>3

(* No subject of the stream is dropped but by an EnsureStream whose read   *)
(* was overtaken by another one (nats.go 121, 153), for any number of      *)
(* connections and subjects, and any faults.                               *)
THEOREM SubjectsKeptHolds == NatsSpec => SubjectsKept
<1> DEFINE Overtaken == \E u \in Users : seen[u] # Nothing /\ ~(stream \subseteq seen[u])
           Safe == stream # Nothing /\ stream' # Nothing /\ ~(stream \subseteq stream') => Overtaken
<1>1. Kept => Safe BY Zenon DEF Kept
<1>2. ASSUME NEW c \in Conns, NEW u \in {"loop", "sub"}, Reconcile(c, u) PROVE Safe
  <2>1. <<c, u>> \in Users BY Zenon DEF Users
  <2> QED BY <1>2, <2>1, ReconcileKeeps, Zenon
<1> HIDE DEF Safe
<1>3. ASSUME NEW c \in Conns, Connection(c) PROVE Safe BY Zenon, <1>1, <1>2, <1>3, ConnectionKeeps
<1>4. ASSUME NEW c \in Conns, Subscribing(c) PROVE Safe BY Zenon, <1>1, <1>2, <1>4, SubscribingKeeps
<1>5. ASSUME NEW c \in Conns, Consuming(c) PROVE Safe BY Zenon, <1>1, <1>5, ConsumingKeeps
<1>6. ASSUME NEW c \in Conns, StartSubscription(c) PROVE Safe
  BY <1>1, <1>6, ServerKept, Zenon DEF StartSubscription
<1>7. ASSUME NEW c \in Conns, StopSubscription(c) PROVE Safe
  BY <1>1, <1>7, ServerKept, Zenon DEF StopSubscription
<1>8. ASSUME NEW c \in Conns, HandlerPanics(c) PROVE Safe
  BY <1>1, <1>8, ServerKept, Zenon DEF HandlerPanics
<1>9. ASSUME NEW m \in Messages, Publish(m) PROVE Safe BY <1>1, <1>9, Zenon DEF Publish, Kept
<1>10. ASSUME NEW m \in Messages, NEW d \in Durables, AckWaitExpires(m, d) PROVE Safe
  BY <1>1, <1>10, Zenon DEF AckWaitExpires, Redeliver, Kept
<1>11. ASSUME NEW m \in Messages, NEW d \in Durables, HandlerIsSlow(m, d) PROVE Safe
  BY <1>1, <1>11, Zenon DEF HandlerIsSlow, Redeliver, Kept
<1>12. ASSUME StreamDeleted PROVE Safe BY <1>1, <1>12, Zenon DEF StreamDeleted, Kept
<1>13. ASSUME NEW d \in Durables, ConsumerDeleted(d) PROVE Safe
  BY <1>1, <1>13, Zenon DEF ConsumerDeleted, Kept
<1>14. NatsNext => Safe
  BY <1>3, <1>4, <1>5, <1>6, <1>7, <1>8, <1>9, <1>10, <1>11, <1>12, <1>13, Zenon DEF NatsNext
<1>15. [NatsNext]_natsVars => [Safe]_natsVars BY <1>14
<1> QED BY <1>15, PTL DEF NatsSpec, SubjectsKept, Safe
-----------------------------------------------------------------------------
(* NATS: whose turn it is. *)

(* NatsTypeOK but for the flags, and what a work queue keeps: two consumers*)
(* never have the same filter, what a consumer has delivered has its       *)
(* subject, and a message that is not owed is out.                         *)
Shaped ==
    /\ setup \in Setups
    /\ stream \in (SUBSET Subjects) \cup {Nothing}
    /\ consumer \in [Durables -> Filters \cup {Nothing}]
    /\ status \in [Messages -> {"unsent", "stored", "gone", "refused", "lost"}]
    /\ delivery \in [Messages -> [Durables -> {"new", "out", "due"}]]
    /\ link \in [Conns -> {"up", "down", "closed"}]
    /\ loop \in [Conns -> {"off", "info", "apply", "run", "reapply", "stopped", "panicked"}]
    /\ phase \in [Conns -> Places]
    /\ seen \in [Users -> (SUBSET Subjects) \cup {Nothing}]
    /\ batch \in [Conns -> SUBSET Messages]
    /\ current \in [Conns -> Messages \cup {Nothing}]
    /\ owed \subseteq Messages /\ turn \subseteq Conns \X Messages
    /\ handled \subseteq Messages

OneFilter == \A d, e \in Durables : consumer[d] = consumer[e] /\ consumer[d] # Nothing => d = e

Delivered(m) ==
    /\ \A d \in Durables : delivery[m][d] # "new" => consumer[d] = m.subject /\ m.subject # Nothing
    /\ status[m] = "unsent" => m \in owed
    /\ setup.useStream /\ status[m] = "stored" /\ m \notin owed => \E d \in Durables : delivery[m][d] = "out"

WorkQueue == Shaped /\ OneFilter /\ \A m \in Messages : Delivered(m)

(* The names that a configuration brings in. *)
LEMMA NatsNames ==
    ASSUME setup \in Setups, NEW c \in Conns PROVE
        /\ setup.stream \subseteq Subjects /\ setup.listed[c] \subseteq Subjects
        /\ setup.subject[c] \in Filters /\ Durable(c) \in Durables
<1>1. setup.stream \subseteq Subjects /\ setup.listed[c] \subseteq Subjects
  <2>1. setup.stream \cup UNION {setup.listed[e] : e \in Conns}
           \in {s.stream \cup UNION {s.listed[e] : e \in Conns} : s \in Setups}
    BY Zenon
  <2> QED BY Zenon, <2>1 DEF Subjects
<1>2. setup.subject[c] \in Filters
  <2>1. {setup.subject[e] : e \in Conns} \in {{s.subject[e] : e \in Conns} : s \in Setups} BY Zenon
  <2> QED BY Zenon, <2>1 DEF Filters
<1>3. Durable(c) \in Durables
  <2>1. {setup.durable[e] : e \in Conns} \in {{s.durable[e] : e \in Conns} : s \in Setups} BY Zenon
  <2> QED BY Zenon, <2>1 DEF Durables, Durable
<1> QED BY Zenon, <1>1, <1>2, <1>3

(* What the queue keeps when only the connections move. *)
LEMMA QueueStays ==
    ASSUME WorkQueue, Shaped', UNCHANGED <<setup, consumer, status, delivery, owed>> PROVE WorkQueue'
BY Zenon DEF WorkQueue, OneFilter, Delivered

(* Deleting consumers makes what they had delivered due again. *)
LEMMA QueueForgets ==
    ASSUME WorkQueue, Shaped', NEW D \in SUBSET Durables, Forget(D), setup' = setup,
           \A m \in Messages : status'[m] = status[m] \/ status'[m] = "lost"
    PROVE  WorkQueue'
<1>1. OneFilter' BY Zenon DEF WorkQueue, OneFilter, Forget
<1>2. ASSUME NEW m \in Messages PROVE Delivered(m)'
  <2>1. Delivered(m) BY Zenon DEF WorkQueue
  <2>2. \A d \in Durables : /\ d \in D => delivery'[m][d] = "new"
                            /\ d \notin D => delivery'[m][d] = delivery[m][d] /\ consumer'[d] = consumer[d]
    BY Zenon DEF Forget
  <2>3. m \in owed => m \in owed' BY Zenon DEF Forget
  <2>4. m \notin owed' => \A d \in D : delivery[m][d] = "new" BY Zenon DEF Forget
  <2>5. status'[m] = "unsent" => status[m] = "unsent" BY Zenon
  <2>6. status'[m] = "stored" => status[m] = "stored" BY Zenon
  <2>7. \A d \in Durables : delivery'[m][d] # "new" => consumer'[d] = m.subject /\ m.subject # Nothing
    BY Zenon, <2>1, <2>2 DEF Delivered
  <2>8. setup'.useStream /\ status'[m] = "stored" /\ m \notin owed'
           => \E d \in Durables : delivery'[m][d] = "out"
    <3> SUFFICES ASSUME setup'.useStream, status'[m] = "stored", m \notin owed'
                 PROVE  \E d \in Durables : delivery'[m][d] = "out"
      BY Zenon
    <3>1. PICK d \in Durables : delivery[m][d] = "out" BY Zenon, <2>1, <2>3, <2>6 DEF Delivered
    <3>2. d \notin D BY Zenon, <2>4, <3>1
    <3> QED BY Zenon, <2>2, <3>1, <3>2
  <2> QED BY Zenon, <2>1, <2>3, <2>5, <2>7, <2>8 DEF Delivered
<1> QED BY Zenon, <1>1, <1>2 DEF WorkQueue

(* A consumer is created, or is there already. *)
LEMMA QueueCreates ==
    ASSUME WorkQueue, Shaped', NEW c \in Conns, CanConsume(Durable(c), setup.subject[c]), Create(c),
           UNCHANGED <<setup, status, delivery, owed>>
    PROVE  WorkQueue'
<1> DEFINE d == Durable(c)
           f == setup.subject[c]
<1>1. d \in Durables /\ consumer \in [Durables -> Filters \cup {Nothing}]
  BY Zenon, NatsNames DEF WorkQueue, Shaped
<1>2. consumer[d] \in {Nothing, f} /\ \A e \in Durables \ {d} : consumer[e] # f
  BY Zenon DEF CanConsume, Retention
<1>3. consumer' = [consumer EXCEPT ![d] = f] BY Zenon DEF Create
<1>4. OneFilter'
  <2> HIDE DEF d, f
  <2> QED BY Zenon, <1>1, <1>2, <1>3 DEF WorkQueue, OneFilter
<1>5. ASSUME NEW m \in Messages PROVE Delivered(m)'
  <2>1. Delivered(m) BY Zenon DEF WorkQueue
  <2>2. \A e \in Durables : consumer[e] = m.subject /\ m.subject # Nothing => consumer'[e] = m.subject
    <3> HIDE DEF d, f
    <3> QED BY Zenon, <1>1, <1>2, <1>3
  <2> QED BY Zenon, <2>1, <2>2 DEF Delivered
<1> QED BY Zenon, <1>4, <1>5 DEF WorkQueue

(* AckWait has passed. *)
LEMMA QueueRedelivers ==
    ASSUME WorkQueue, Shaped', NEW m \in Messages, NEW d \in Durables, Redeliver(m, d) PROVE WorkQueue'
<1>1. /\ UNCHANGED <<setup, consumer, status>> /\ owed' = owed \cup {m}
      /\ delivery[m][d] = "out" /\ delivery' = [delivery EXCEPT ![m][d] = "due"]
  BY Zenon DEF Redeliver
<1>2. delivery \in [Messages -> [Durables -> {"new", "out", "due"}]] BY Zenon DEF WorkQueue, Shaped
<1>3. OneFilter' BY Zenon, <1>1 DEF WorkQueue, OneFilter
<1>4. ASSUME NEW n \in Messages PROVE Delivered(n)'
  <2>1. Delivered(n) BY Zenon DEF WorkQueue
  <2>2. \A e \in Durables : delivery'[n][e] # "new" => delivery[n][e] # "new" BY Zenon, <1>1, <1>2
  <2>3. n # m => \A e \in Durables : delivery'[n][e] = delivery[n][e] BY Zenon, <1>1, <1>2
  <2> QED BY Zenon, <1>1, <2>1, <2>2, <2>3 DEF Delivered
<1> QED BY Zenon, <1>3, <1>4 DEF WorkQueue

(* A message that the server has available is owed: were it out for        *)
(* another consumer, the two would have the same filter.                   *)
LEMMA AvailableOwed ==
    ASSUME WorkQueue, setup.useStream, NEW d \in Durables, consumer[d] # Nothing PROVE Available(d) \subseteq owed
<1> SUFFICES ASSUME NEW m \in Available(d), m \notin owed PROVE FALSE
  BY Zenon
<1>1. /\ m \in Messages /\ status[m] = "stored" /\ m.subject = consumer[d]
      /\ delivery[m][d] \in {"new", "due"}
  BY Zenon DEF Available
<1>2. Delivered(m) /\ OneFilter BY Zenon, <1>1 DEF WorkQueue
<1>3. PICK e \in Durables : delivery[m][e] = "out" BY Zenon, <1>1, <1>2 DEF Delivered
<1>4. delivery[m][e] # "new" BY Zenon, <1>3
<1>5. consumer[e] = m.subject BY Zenon, <1>2, <1>4 DEF Delivered
<1>6. d = e BY Zenon, <1>1, <1>2, <1>5 DEF OneFilter
<1> QED BY Zenon, <1>1, <1>3, <1>6

(* A batch is given out. *)
LEMMA QueueGives ==
    ASSUME WorkQueue, Shaped', NEW d \in Durables, consumer[d] # Nothing, NEW M \in SUBSET Available(d),
           delivery' = [m \in Messages |-> [delivery[m] EXCEPT ![d] = IF m \in M THEN "out" ELSE @]],
           owed' = owed \ M, UNCHANGED <<setup, consumer, status>>
    PROVE  WorkQueue'
<1>1. delivery \in [Messages -> [Durables -> {"new", "out", "due"}]] BY Zenon DEF WorkQueue, Shaped
<1>2. OneFilter' BY Zenon DEF WorkQueue, OneFilter
<1>3. ASSUME NEW m \in Messages PROVE Delivered(m)'
  <2>1. Delivered(m) BY Zenon DEF WorkQueue
  <2>2. CASE m \in M
    <3>1. status[m] = "stored" /\ m.subject = consumer[d] BY Zenon, <2>2 DEF Available
    <3>2. delivery'[m][d] = "out" /\ \A e \in Durables \ {d} : delivery'[m][e] = delivery[m][e]
      BY Zenon, <1>1, <2>2
    <3>3. status'[m] # "unsent" BY Zenon, <3>1
    <3> QED BY Zenon, <2>1, <3>1, <3>2, <3>3 DEF Delivered
  <2>3. CASE m \notin M
    <3>1. \A e \in Durables : delivery'[m][e] = delivery[m][e] BY Zenon, <1>1, <2>3
    <3> QED BY Zenon, <2>1, <2>3, <3>1 DEF Delivered
  <2> QED BY Zenon, <2>2, <2>3
<1> QED BY Zenon, <1>2, <1>3 DEF WorkQueue

(* A message is acknowledged, or handled by core NATS. *)
LEMMA QueueEnds ==
    ASSUME WorkQueue, Shaped', UNCHANGED <<setup, consumer, delivery, owed>>,
           \A m \in Messages : status'[m] = status[m] \/ status'[m] = "gone"
    PROVE  WorkQueue'
<1>1. OneFilter' BY Zenon DEF WorkQueue, OneFilter
<1>2. ASSUME NEW m \in Messages PROVE Delivered(m)'
  <2>1. Delivered(m) BY Zenon DEF WorkQueue
  <2>2. /\ status'[m] = "unsent" => status[m] = "unsent"
        /\ status'[m] = "stored" => status[m] = "stored"
    BY Zenon
  <2> QED BY Zenon, <2>1, <2>2 DEF Delivered
<1> QED BY Zenon, <1>1, <1>2 DEF WorkQueue

(* A message that is published is stored, owed and out with nobody. *)
LEMMA QueuePublishes ==
    ASSUME WorkQueue, Shaped', NEW m \in Messages, Publish(m) PROVE WorkQueue'
<1>1. UNCHANGED <<setup, consumer, delivery>> /\ status[m] = "unsent" BY Zenon DEF Publish
<1>2. status \in [Messages -> {"unsent", "stored", "gone", "refused", "lost"}] BY Zenon DEF WorkQueue, Shaped
<1>3. status'[m] # "unsent" /\ \A n \in Messages \ {m} : status'[n] = status[n] BY Zenon, <1>2 DEF Publish
<1>4. owed' = IF setup.useStream THEN owed ELSE owed \ {m} BY Zenon DEF Publish
<1>5. OneFilter' BY Zenon, <1>1 DEF WorkQueue, OneFilter
<1>6. ASSUME NEW n \in Messages PROVE Delivered(n)'
  <2>1. Delivered(n) BY Zenon DEF WorkQueue
  <2>2. CASE n = m
    <3>1. m \in owed BY Zenon, <1>1, <2>1, <2>2 DEF Delivered
    <3>2. setup.useStream => m \in owed' BY Zenon, <1>4, <3>1
    <3> QED BY Zenon, <1>1, <1>3, <2>1, <2>2, <3>2 DEF Delivered
  <2>3. CASE n # m
    <3>1. n \in owed' <=> n \in owed BY Zenon, <1>4, <2>3
    <3>2. status'[n] = status[n] BY Zenon, <1>3, <2>3
    <3> QED BY Zenon, <1>1, <2>1, <3>1, <3>2 DEF Delivered
  <2> QED BY Zenon, <2>2, <2>3
<1> QED BY Zenon, <1>5, <1>6 DEF WorkQueue

(* The flags of the connections. *)
Flagged == done \in [Conns -> BOOLEAN] /\ signal \in [Conns -> BOOLEAN]

(* What a reconciliation makes of the stream. *)
LEMMA ReconcileType ==
    ASSUME Shaped, NEW c \in Conns, NEW u \in {"loop", "sub"}, Reconcile(c, u) \/ ReconcileFails(c, u)
    PROVE  stream' \in (SUBSET Subjects) \cup {Nothing}
<1> DEFINE info == seen[<<c, u>>]
<1>1. <<c, u>> \in Users BY Zenon DEF Users
<1>2. setup \in Setups /\ stream \in (SUBSET Subjects) \cup {Nothing} /\ info \in (SUBSET Subjects) \cup {Nothing}
  BY Zenon, <1>1 DEF Shaped
<1>3. setup.listed[c] \subseteq Subjects BY Zenon, <1>2, NatsNames
<1>4. stream' = stream \/ stream' = mergeSubjects(IF info = Nothing THEN {} ELSE info, setup.listed[c])
  BY Zenon DEF Reconcile, ReconcileFails
<1> HIDE DEF info
<1> QED BY Zenon, <1>2, <1>3, <1>4 DEF mergeSubjects

(* What the deletion of consumers makes of what they had delivered. *)
LEMMA ForgetType ==
    ASSUME Shaped, NEW D, Forget(D) PROVE
        /\ consumer' \in [Durables -> Filters \cup {Nothing}]
        /\ delivery' \in [Messages -> [Durables -> {"new", "out", "due"}]]
        /\ owed' \subseteq Messages /\ turn' = turn
<1>1. consumer' \in [Durables -> Filters \cup {Nothing}] BY Zenon DEF Shaped, Forget
<1>2. delivery' \in [Messages -> [Durables -> {"new", "out", "due"}]] BY Zenon DEF Shaped, Forget
<1>3. owed' \subseteq Messages /\ turn' = turn BY Zenon DEF Shaped, Forget
<1> QED BY Zenon, <1>1, <1>2, <1>3

(* A goroutine that only goes to another place keeps the types. *)
LEMMA PlaceType ==
    ASSUME Shaped, NEW c \in Conns, \E w \in Places : GoSub(c, w),
           UNCHANGED <<setup, server, conns, seen, batch, current, history>>
    PROVE  Shaped'
<1>1. phase' \in [Conns -> Places] BY Zenon DEF Shaped, GoSub
<1> QED BY Zenon, <1>1 DEF Shaped, server, conns, history

(* The steps of Start keep the shape of the state. *)
LEMMA ConnectionType ==
    ASSUME Shaped, NEW c \in Conns, Connection(c) PROVE Shaped'
<1>1. setup.listed[c] \subseteq Subjects /\ <<c, "loop">> \in Users
  BY Zenon, NatsNames DEF Shaped, Users
<1> USE <1>1 DEF Shaped, GoLoop, GoSub, server, conns, goroutine, history, Ended, Places
<1>2. CASE ConnectionLost(c) BY Zenon, <1>2 DEF ConnectionLost
<1>3. CASE Reconnected(c) BY Zenon, <1>3 DEF Reconnected
<1>4. CASE ReconnectsExhausted(c) BY Zenon, <1>4 DEF ReconnectsExhausted
<1>5. CASE Stop(c) BY Zenon, <1>5 DEF Stop
<1>6. CASE AddStream(c) BY Zenon, <1>6 DEF AddStream
<1>7. CASE StartBegins(c) BY Zenon, <1>7 DEF StartBegins
<1>8. CASE StartReads(c) BY Zenon, <1>8 DEF StartReads, StreamInfo
<1>9. CASE StartReconciles(c)
  <2>1. stream' \in (SUBSET Subjects) \cup {Nothing}
    BY Zenon, <1>9, ReconcileType DEF StartReconciles
  <2>2. UNCHANGED <<setup, consumer, status, delivery, owed, turn, handled>>
    BY Zenon, <1>9 DEF StartReconciles, history
  <2>3. seen' \in [Users -> (SUBSET Subjects) \cup {Nothing}] BY Zenon, <1>9 DEF StartReconciles
  <2>4. /\ link' \in [Conns -> {"up", "down", "closed"}]
        /\ loop' \in [Conns -> {"off", "info", "apply", "run", "reapply", "stopped", "panicked"}]
        /\ phase' \in [Conns -> Places]
    BY Zenon, <1>9 DEF StartReconciles
  <2>5. batch' \in [Conns -> SUBSET Messages] /\ current' \in [Conns -> Messages \cup {Nothing}]
    BY Zenon, <1>9 DEF StartReconciles
  <2> QED BY Zenon, <2>1, <2>2, <2>3, <2>4, <2>5
<1>10. CASE StartReturns(c) BY Zenon, <1>10 DEF StartReturns
<1> QED BY Zenon, <1>2, <1>3, <1>4, <1>5, <1>6, <1>7, <1>8, <1>9, <1>10 DEF Connection

(* The steps of Subscribe keep the shape of the state. *)
LEMMA SubscribingType ==
    ASSUME Shaped, NEW c \in Conns, Subscribing(c) \/ StartSubscription(c) \/ StopSubscription(c) PROVE Shaped'
<1>1. Durable(c) \in Durables /\ setup.subject[c] \in Filters /\ <<c, "sub">> \in Users
  BY Zenon, NatsNames DEF Shaped, Users
<1> USE <1>1 DEF Shaped, GoSub, GiveUp, server, conns, goroutine, history, Preparing, Fetching, Ended, Places
<1>2. CASE ReadStream(c) BY Zenon, <1>2 DEF ReadStream, StreamInfo
<1>3. CASE EnsureStream(c)
  <2>1. stream' \in (SUBSET Subjects) \cup {Nothing}
    BY Zenon, <1>3, ReconcileType DEF EnsureStream
  <2> QED BY Zenon, <1>3, <2>1 DEF EnsureStream
<1>4. CASE LookupConsumer(c) BY Zenon, <1>4 DEF LookupConsumer
<1>5. CASE DeleteConsumer(c)
  <2>1. UNCHANGED <<setup, stream, status, link, loop, seen, batch, current, handled>>
    BY Zenon, <1>5 DEF DeleteConsumer
  <2>2. phase' \in [Conns -> Places]
    <3>1. \E w \in {"add", "failed", "fetch"} : phase' = [phase EXCEPT ![c] = w] BY Zenon, <1>5 DEF DeleteConsumer
    <3> QED BY Zenon, <3>1
  <2>3. Forget({Durable(c)}) \/ UNCHANGED <<consumer, delivery, owed, turn>> BY Zenon, <1>5 DEF DeleteConsumer
  <2> HIDE DEF Places
  <2> QED BY Zenon, <2>1, <2>2, <2>3, ForgetType
<1>6. CASE AddConsumer(c) BY Zenon, <1>6 DEF AddConsumer, Create
<1>7. CASE PullSubscribe(c) BY Zenon, <1>7 DEF PullSubscribe, Create
<1>8. CASE AppendSubscription(c) BY Zenon, <1>8 DEF AppendSubscription
<1>9. CASE StartSubscription(c)
  <2>1. GoSub(c, "info") \/ GoSub(c, "core") BY Zenon, <1>9 DEF StartSubscription
  <2>2. \E w \in Places : GoSub(c, w) BY Zenon, <2>1
  <2> QED BY Zenon, <1>9, <2>2, PlaceType DEF StartSubscription
<1>10. CASE StopSubscription(c) BY Zenon, <1>10 DEF StopSubscription
<1> QED BY Zenon, <1>2, <1>3, <1>4, <1>5, <1>6, <1>7, <1>8, <1>9, <1>10 DEF Subscribing

(* The steps of the consuming goroutine keep the shape of the state. *)
LEMMA ConsumingType ==
    ASSUME Shaped, NEW c \in Conns, Consuming(c) \/ HandlerPanics(c) PROVE Shaped'
<1>1. Durable(c) \in Durables BY Zenon, NatsNames DEF Shaped
<1> USE <1>1 DEF Shaped, GoSub, server, conns, goroutine, history, Preparing, Fetching, Ended, Places
<1>2. CASE Fetch(c)
  <2>1. PICK M \in SUBSET Available(Durable(c)) :
            /\ batch' = [batch EXCEPT ![c] = M]
            /\ delivery' = [m \in Messages |->
                  [delivery[m] EXCEPT ![Durable(c)] = IF m \in M THEN "out" ELSE @]]
            /\ owed' = owed \ M /\ turn' = turn \cup ({c} \X (M \cap owed))
    BY Zenon, <1>2 DEF Fetch
  <2>2. M \subseteq Messages BY Zenon DEF Available
  <2>3. batch \in [Conns -> SUBSET Messages] /\ owed \subseteq Messages /\ turn \subseteq Conns \X Messages
    BY Zenon
  <2>4. delivery \in [Messages -> [Durables -> {"new", "out", "due"}]] BY Zenon
  <2>5. phase' \in [Conns -> Places] BY Zenon, <1>2 DEF Fetch
  <2>6. UNCHANGED <<setup, stream, consumer, status, link, loop, seen, current, handled>>
    BY Zenon, <1>2 DEF Fetch
  <2> HIDE DEF Shaped, Places, Available, Durable
  <2>7. batch' \in [Conns -> SUBSET Messages] /\ owed' \subseteq Messages /\ turn' \subseteq Conns \X Messages
    BY Zenon, <2>1, <2>2, <2>3
  <2>8. delivery' \in [Messages -> [Durables -> {"new", "out", "due"}]] BY Zenon, <1>1, <2>1, <2>4
  <2> QED BY Zenon, <2>5, <2>6, <2>7, <2>8 DEF Shaped
<1>3. CASE FetchNoResponders(c) \/ FetchStops(c)
  <2>1. GoSub(c, "info") \/ GoSub(c, "ended") BY Zenon, <1>3 DEF FetchNoResponders, FetchStops
  <2>2. \E w \in Places : GoSub(c, w) BY Zenon, <2>1
  <2> QED BY Zenon, <1>3, <2>2, PlaceType DEF FetchNoResponders, FetchStops
<1>5. CASE Ack(c)
  <2>1. UNCHANGED <<setup, stream, consumer, delivery, link, loop, seen, owed, turn, handled>>
    BY Zenon, <1>5 DEF Ack
  <2>2. status' \in [Messages -> {"unsent", "stored", "gone", "refused", "lost"}]
    <3>1. status' = status \/ \E x \in {"gone", status[current[c]]} : status' = [status EXCEPT ![current[c]] = x]
      BY Zenon, <1>5 DEF Ack
    <3>2. status \in [Messages -> {"unsent", "stored", "gone", "refused", "lost"}] BY Zenon
    <3> HIDE DEF Shaped
    <3> QED BY Zenon, <3>1, <3>2
  <2>3. batch' \in [Conns -> SUBSET Messages] BY Zenon, <1>5 DEF Ack
  <2>4. current' \in [Conns -> Messages \cup {Nothing}] /\ phase' \in [Conns -> Places]
    BY Zenon, <1>5 DEF Ack
  <2> HIDE DEF Places
  <2> QED BY Zenon, <2>1, <2>2, <2>3, <2>4
<1>6. ASSUME NEW m \in Messages, Handle(c, m) PROVE Shaped'
  <2>1. UNCHANGED <<setup, server, conns, seen, owed>> BY Zenon, <1>6 DEF Handle
  <2>2. phase' \in [Conns -> Places]
    <3>1. \E w \in Fetching : GoSub(c, w) BY Zenon, <1>6 DEF Handle
    <3> QED BY Zenon, <3>1
  <2>3. batch' \in [Conns -> SUBSET Messages]
    <3>1. batch[c] \ {m} \in SUBSET Messages BY Zenon
    <3>2. batch' = batch \/ batch' = [batch EXCEPT ![c] = batch[c] \ {m}] BY Zenon, <1>6 DEF Handle
    <3> QED BY Zenon, <3>1, <3>2
  <2>5. current' \in [Conns -> Messages \cup {Nothing}] BY Zenon, <1>6 DEF Handle
  <2>4. turn' \subseteq Conns \X Messages /\ handled' \subseteq Messages
    <3>1. turn' = turn \ {<<c, m>>} /\ (handled' = handled \/ handled' = handled \cup {m})
      BY Zenon, <1>6 DEF Handle, RunHandler
    <3> QED BY Zenon, <3>1
  <2> QED BY Zenon, <2>1, <2>2, <2>3, <2>4, <2>5
<1>7. ASSUME NEW m \in Messages, HandleCore(c, m) PROVE Shaped' BY Zenon, <1>7 DEF HandleCore, RunHandler
<1>8. CASE HandlerPanics(c) BY Zenon, <1>8 DEF HandlerPanics, RunHandler
<1> HIDE DEF Shaped
<1> QED BY Zenon, <1>2, <1>3, <1>5, <1>6, <1>7, <1>8 DEF Consuming

(* The steps of the server and its faults keep the shape of the state. *)
LEMMA ServerType ==
    ASSUME Shaped,
           \/ \E m \in Messages : Publish(m) \/ \E d \in Durables : AckWaitExpires(m, d) \/ HandlerIsSlow(m, d)
           \/ StreamDeleted \/ \E d \in Durables : ConsumerDeleted(d)
    PROVE  Shaped'
<1> USE DEF Shaped, server, conns, goroutine, history
<1>1. ASSUME NEW m \in Messages, Publish(m) PROVE Shaped'
  <2>1. status' \in [Messages -> {"unsent", "stored", "gone", "refused", "lost"}] BY Zenon, <1>1 DEF Publish
  <2>2. UNCHANGED <<setup, stream, consumer, delivery, link, loop, phase, seen, current, handled>>
    BY Zenon, <1>1 DEF Publish
  <2>3. /\ batch \in [Conns -> SUBSET Messages] /\ owed \subseteq Messages
        /\ turn \subseteq Conns \X Messages
    BY Zenon
  <2> HIDE DEF Shaped
  <2>4. /\ batch' \in [Conns -> SUBSET Messages] /\ owed' \subseteq Messages
        /\ turn' \subseteq Conns \X Messages
    <3>1. CASE UNCHANGED <<batch, owed, turn>> BY Zenon, <2>3, <3>1
    <3>2. ASSUME NEW to \in SUBSET Members(m),
                 batch' = [c \in Conns |-> batch[c] \cup IF c \in to /\ phase[c] = "core" THEN {m} ELSE {}],
                 owed' = owed \ {m}, turn' = turn \cup ({c \in to : phase[c] = "core"} \X {m})
          PROVE /\ batch' \in [Conns -> SUBSET Messages] /\ owed' \subseteq Messages
                /\ turn' \subseteq Conns \X Messages
      BY Zenon, <2>3, <3>2 DEF Members
    <3> QED BY Zenon, <1>1, <3>1, <3>2 DEF Publish
  <2> QED BY Zenon, <2>1, <2>2, <2>4 DEF Shaped
<1>2. ASSUME NEW m \in Messages, NEW d \in Durables, Redeliver(m, d) PROVE Shaped' BY Zenon, <1>2 DEF Redeliver
<1>3. CASE StreamDeleted
  <2>1. status' \in [Messages -> {"unsent", "stored", "gone", "refused", "lost"}]
    BY Zenon, <1>3 DEF StreamDeleted
  <2>2. stream' = Nothing /\ UNCHANGED <<setup, link, loop, phase, seen, batch, current, handled>>
    BY Zenon, <1>3 DEF StreamDeleted
  <2>3. Forget(Durables) BY Zenon, <1>3 DEF StreamDeleted
  <2> QED BY Zenon, <2>1, <2>2, <2>3, ForgetType
<1>4. ASSUME NEW d \in Durables, ConsumerDeleted(d) PROVE Shaped'
  <2>1. UNCHANGED <<setup, stream, status, link, loop, phase, seen, batch, current, handled>>
    BY Zenon, <1>4 DEF ConsumerDeleted
  <2>2. Forget({d}) BY Zenon, <1>4 DEF ConsumerDeleted
  <2> QED BY Zenon, <2>1, <2>2, ForgetType
<1>5. ASSUME NEW m \in Messages, NEW d \in Durables, AckWaitExpires(m, d) \/ HandlerIsSlow(m, d)
      PROVE Redeliver(m, d)
  BY Zenon, <1>5 DEF AckWaitExpires, HandlerIsSlow
<1> HIDE DEF Shaped
<1> QED BY Zenon, <1>1, <1>2, <1>3, <1>4, <1>5

(* The flags of the connections stay flags. *)
LEMMA FlagType ==
    ASSUME Flagged, [NatsNext]_natsVars PROVE Flagged'
<1>1. ASSUME NEW c \in Conns, Connection(c) PROVE Flagged'
  BY Zenon, <1>1 DEF Flagged, Connection, ConnectionLost, Reconnected, ReconnectsExhausted, Stop, AddStream,
     StartBegins, StartReads, StartReconciles, StartReturns, conns
<1>2. ASSUME NEW c \in Conns, StartSubscription(c) \/ Subscribing(c) \/ StopSubscription(c) PROVE UNCHANGED conns
  BY Zenon, <1>2 DEF StartSubscription, Subscribing, ReadStream, EnsureStream, LookupConsumer, DeleteConsumer,
     AddConsumer, PullSubscribe, AppendSubscription, StopSubscription
<1>3. ASSUME NEW c \in Conns, Consuming(c) \/ HandlerPanics(c) PROVE UNCHANGED conns
  BY Zenon, <1>3 DEF Consuming, Fetch, FetchNoResponders, FetchStops, Ack, Handle, HandleCore, HandlerPanics
<1>4. ASSUME NEW m \in Messages,
             Publish(m) \/ \E d \in Durables : AckWaitExpires(m, d) \/ HandlerIsSlow(m, d)
      PROVE UNCHANGED conns
  BY Zenon, <1>4 DEF Publish, AckWaitExpires, HandlerIsSlow, Redeliver
<1>5. ASSUME StreamDeleted \/ \E d \in Durables : ConsumerDeleted(d) PROVE UNCHANGED conns
  BY Zenon, <1>5 DEF StreamDeleted, ConsumerDeleted
<1>6. UNCHANGED natsVars => UNCHANGED conns BY Zenon DEF natsVars
<1>7. UNCHANGED conns => Flagged' BY Zenon DEF Flagged, conns
<1> QED BY Zenon, <1>1, <1>2, <1>3, <1>4, <1>5, <1>6, <1>7 DEF NatsNext

(* A connection's goroutine: it fetches from a stream only, it acknowledges*)
(* what it has handled, and has a turn for the rest of its batch.          *)
Serving(c) ==
    /\ phase[c] \in Preparing \cup Fetching => setup.useStream
    /\ phase[c] = "ack" => current[c] \in handled
    /\ phase[c] # "ack" => current[c] = Nothing
    /\ \A m \in batch[c] : current[c] # m => <<c, m>> \in turn

(* What the other connections see of a step of c. *)
Aside(c) ==
    /\ setup' = setup /\ handled \subseteq handled'
    /\ \A e \in Conns \ {c} :
          /\ phase'[e] = phase[e] /\ batch'[e] = batch[e] /\ current'[e] = current[e]
          /\ \A m \in Messages : <<e, m>> \in turn => <<e, m>> \in turn'

(* The others go on as before. *)
LEMMA ServingAside ==
    ASSUME Shaped, NEW c \in Conns, Aside(c), Serving(c)', \A e \in Conns : Serving(e)
    PROVE  \A e \in Conns : Serving(e)'
<1> SUFFICES ASSUME NEW e \in Conns, e # c PROVE Serving(e)'
  BY Zenon
<1>1. Serving(e) /\ batch[e] \subseteq Messages BY Zenon DEF Shaped
<1> QED BY Zenon, <1>1 DEF Serving, Aside

(* Nothing that a goroutine relies on has changed. *)
LEMMA ServingStays ==
    ASSUME UNCHANGED <<setup, phase, batch, current, turn, handled>>, \A e \in Conns : Serving(e)
    PROVE  \A e \in Conns : Serving(e)'
BY Zenon DEF Serving

(* A step that goes elsewhere, and is not at an acknowledgement. *)
LEMMA ServingMoves ==
    ASSUME Shaped, NEW c \in Conns, NEW w, phase[c] # "ack", w # "ack", GoSub(c, w),
           w \in Preparing \cup Fetching => setup.useStream,
           UNCHANGED <<setup, batch, current, turn, handled>>, \A e \in Conns : Serving(e)
    PROVE  \A e \in Conns : Serving(e)'
<1>1. phase'[c] = w /\ \A e \in Conns \ {c} : phase'[e] = phase[e] BY Zenon DEF Shaped, GoSub
<1>2. Serving(c)' BY Zenon, <1>1 DEF Serving
<1>3. Aside(c) BY Zenon, <1>1 DEF Aside
<1> QED BY Zenon, <1>2, <1>3, ServingAside

(* Start, unless it panics, has no part in what the goroutine does. *)
LEMMA ConnectionServes ==
    ASSUME Shaped, NEW c \in Conns, Connection(c), \A e \in Conns : Serving(e)
    PROVE  \A e \in Conns : Serving(e)'
<1> DEFINE Still == UNCHANGED <<setup, phase, batch, current, turn, handled>>
<1>1. CASE ConnectionLost(c) \/ Reconnected(c) \/ ReconnectsExhausted(c) \/ Stop(c) \/ AddStream(c)
  <2>1. Still BY Zenon, <1>1 DEF ConnectionLost, Reconnected, ReconnectsExhausted, Stop, AddStream, goroutine, history
  <2> QED BY Zenon, <2>1, ServingStays
<1>2. CASE StartBegins(c) \/ StartReads(c) \/ StartReturns(c)
  <2>1. Still BY Zenon, <1>2 DEF StartBegins, StartReads, StartReturns, goroutine, history
  <2> QED BY Zenon, <2>1, ServingStays
<1>3. CASE StartReconciles(c)
  <2>1. setup' = setup /\ turn' = turn /\ handled' = handled BY Zenon, <1>3 DEF StartReconciles, history
  <2>2. CASE UNCHANGED <<link, phase, batch, current>>
    BY Zenon, <2>1, <2>2, ServingStays
  <2>3. CASE /\ GoSub(c, "ended")
             /\ batch' = [batch EXCEPT ![c] = {}] /\ current' = [current EXCEPT ![c] = Nothing]
    <3>1. /\ phase'[c] = "ended" /\ batch'[c] = {} /\ current'[c] = Nothing
          /\ \A e \in Conns \ {c} : phase'[e] = phase[e] /\ batch'[e] = batch[e] /\ current'[e] = current[e]
      BY Zenon, <2>3 DEF Shaped, GoSub
    <3>2. Serving(c)' BY Zenon, <3>1 DEF Serving, Preparing, Fetching
    <3>3. Aside(c) BY Zenon, <2>1, <3>1 DEF Aside
    <3> QED BY Zenon, <3>2, <3>3, ServingAside
  <2> QED BY Zenon, <1>3, <2>2, <2>3 DEF StartReconciles
<1> QED BY Zenon, <1>1, <1>2, <1>3 DEF Connection

(* Preparing a subscription, and stopping one, touches no message. *)
LEMMA SubscribingServes ==
    ASSUME Shaped, NEW c \in Conns, Subscribing(c) \/ StartSubscription(c) \/ StopSubscription(c),
           \A e \in Conns : Serving(e)
    PROVE  \A e \in Conns : Serving(e)'
<1> DEFINE Still == UNCHANGED <<setup, batch, current, turn, handled>>
           Away == \E w \in {"idle", "core", "failed"} \cup Preparing \cup Fetching :
                      /\ phase[c] # "ack" /\ w # "ack" /\ GoSub(c, w)
                      /\ w \in Preparing \cup Fetching => setup.useStream
<1>1. Still /\ Away => \A e \in Conns : Serving(e)' BY Zenon, ServingMoves
<1>2. Serving(c) BY Zenon
<1>3. CASE Subscribing(c)
  <2>1. Still
    BY Zenon, <1>3 DEF Subscribing, ReadStream, EnsureStream, LookupConsumer, DeleteConsumer, AddConsumer,
       PullSubscribe, AppendSubscription, Forget, goroutine, history
  <2>2. phase[c] \in Preparing /\ \E w \in Preparing \cup {"fetch", "failed"} : GoSub(c, w)
    <3>1. CASE ReadStream(c) \/ EnsureStream(c) \/ LookupConsumer(c)
      BY Zenon, <3>1 DEF ReadStream, EnsureStream, LookupConsumer, GiveUp, Preparing
    <3>2. CASE DeleteConsumer(c) \/ AddConsumer(c) \/ PullSubscribe(c) \/ AppendSubscription(c)
      BY Zenon, <3>2 DEF DeleteConsumer, AddConsumer, PullSubscribe, AppendSubscription, GiveUp, Preparing
    <3> QED BY Zenon, <1>3, <3>1, <3>2 DEF Subscribing
  <2>3. Away BY Zenon, <1>2, <2>2 DEF Serving, Preparing, Fetching
  <2> QED BY Zenon, <1>1, <2>1, <2>3
<1>4. CASE StartSubscription(c)
  <2>1. Still BY Zenon, <1>4 DEF StartSubscription, history
  <2>2. Away
    <3>1. phase[c] # "ack" BY <1>4 DEF StartSubscription
    <3>2. (GoSub(c, "info") /\ setup.useStream) \/ GoSub(c, "core") BY Zenon, <1>4 DEF StartSubscription
    <3>3. "core" \notin Preparing \cup Fetching BY Zenon DEF Preparing, Fetching
    <3>4. "info" \in Preparing BY Zenon DEF Preparing
    <3> QED BY Zenon, <3>1, <3>2, <3>3, <3>4
  <2> QED BY Zenon, <1>1, <2>1, <2>2
<1>5. CASE StopSubscription(c)
  <2>1. Still BY Zenon, <1>5 DEF StopSubscription
  <2>2. CASE phase[c] = "append"
    <3>1. GoSub(c, "raced") BY Zenon, <1>5, <2>2 DEF StopSubscription, GoSub
    <3>2. Away BY Zenon, <1>2, <2>2, <3>1 DEF Serving, Preparing
    <3> QED BY Zenon, <1>1, <2>1, <3>2
  <2>3. CASE phase[c] # "append"
    <3>1. phase' = phase BY Zenon, <1>5, <2>3 DEF StopSubscription, Shaped
    <3> QED BY Zenon, <2>1, <3>1, ServingStays
  <2> QED BY Zenon, <2>2, <2>3
<1> QED BY Zenon, <1>3, <1>4, <1>5

(* A batch is fetched, handled and acknowledged. *)
LEMMA ConsumingServes ==
    ASSUME WorkQueue, NEW c \in Conns, Consuming(c) \/ HandlerPanics(c), \A e \in Conns : Serving(e)
    PROVE  \A e \in Conns : Serving(e)'
<1>1. Shaped /\ Serving(c) BY Zenon DEF WorkQueue
<1>0. /\ phase \in [Conns -> Places] /\ batch \in [Conns -> SUBSET Messages]
      /\ current \in [Conns -> Messages \cup {Nothing}]
  BY Zenon, <1>1 DEF Shaped
<1>2. CASE Fetch(c)
  <2>1. setup.useStream /\ Durable(c) \in Durables
    BY Zenon, <1>1, <1>2, NatsNames DEF Serving, Fetch, Usable, Fetching, Shaped
  <2>2. PICK M \in SUBSET Available(Durable(c)) :
            /\ batch' = [batch EXCEPT ![c] = M] /\ turn' = turn \cup ({c} \X (M \cap owed))
    BY Zenon, <1>2 DEF Fetch
  <2>3. M \subseteq owed BY Zenon, <1>2, <2>1, AvailableOwed DEF Fetch
  <2>4. /\ phase'[c] = "work" /\ batch'[c] = M
        /\ \A e \in Conns \ {c} : phase'[e] = phase[e] /\ batch'[e] = batch[e]
    BY Zenon, <1>0, <1>2, <2>2 DEF Fetch, GoSub
  <2>5. UNCHANGED <<setup, current, handled>> /\ phase[c] # "ack"
    BY Zenon, <1>2 DEF Fetch, Usable
  <2>6. \A m \in M : <<c, m>> \in turn' BY Zenon, <2>2, <2>3
  <2>7. phase'[c] # "ack" BY Zenon, <2>4
  <2>8. Serving(c)' BY Zenon, <1>1, <2>1, <2>4, <2>5, <2>6, <2>7 DEF Serving
  <2>9. Aside(c)
    <3>1. turn \subseteq turn' BY Zenon, <2>2
    <3> QED BY Zenon, <2>4, <2>5, <3>1 DEF Aside
  <2> QED BY Zenon, <1>1, <2>8, <2>9, ServingAside
<1>3. CASE FetchNoResponders(c) \/ FetchStops(c)
  <2>1. UNCHANGED <<setup, batch, current, turn, handled>>
    BY Zenon, <1>3 DEF FetchNoResponders, FetchStops, goroutine, history
  <2>2. phase[c] \in {"fetch", "core"} /\ ((GoSub(c, "info") /\ phase[c] = "fetch") \/ GoSub(c, "ended"))
    BY Zenon, <1>3 DEF FetchNoResponders, FetchStops, Usable
  <2>3. \E w \in {"info", "ended"} :
            /\ phase[c] # "ack" /\ w # "ack" /\ GoSub(c, w)
            /\ w \in Preparing \cup Fetching => setup.useStream
    BY Zenon, <1>1, <2>2 DEF Serving, Preparing, Fetching
  <2> QED BY Zenon, <1>1, <2>1, <2>3, ServingMoves
<1>4. ASSUME NEW m \in Messages, Handle(c, m) PROVE \A e \in Conns : Serving(e)'
  <2>1. /\ setup' = setup /\ turn' = turn \ {<<c, m>>} /\ handled \subseteq handled'
        /\ phase[c] = "work" /\ current[c] = Nothing /\ setup.useStream
    BY Zenon, <1>1, <1>4 DEF Handle, RunHandler, Serving, Fetching
  <2>2. /\ \A e \in Conns \ {c} : phase'[e] = phase[e] /\ batch'[e] = batch[e] /\ current'[e] = current[e]
        /\ \A e \in Conns \ {c} : \A n \in Messages : <<e, n>> \in turn => <<e, n>> \in turn'
    BY Zenon, <1>0, <1>4, <2>1 DEF Handle, GoSub
  <2>3. Aside(c) BY Zenon, <2>1, <2>2 DEF Aside
  <2>4. \A n \in batch[c] : <<c, n>> \in turn
    <3>1. Nothing \notin batch[c] BY Zenon, <1>0, NatsConstants DEF NatsConstants
    <3> QED BY Zenon, <1>1, <2>1, <3>1 DEF Serving
  <2>5. CASE m.subject = setup.subject[c]
    <3>1. phase'[c] = "ack" /\ current'[c] = m /\ m \in handled' /\ batch'[c] = batch[c]
      BY Zenon, <1>0, <1>4, <2>5 DEF Handle, RunHandler, GoSub
    <3>2. Serving(c)' BY Zenon, <2>1, <2>4, <3>1 DEF Serving
    <3> QED BY Zenon, <1>1, <2>3, <3>2, ServingAside
  <2>6. CASE m.subject # setup.subject[c]
    <3>1. phase'[c] \in {"fetch", "work"} /\ current'[c] = Nothing /\ batch'[c] = batch[c] \ {m}
      BY Zenon, <1>0, <1>4, <2>1, <2>6 DEF Handle, GoSub
    <3>2. Serving(c)' BY Zenon, <2>1, <2>4, <3>1 DEF Serving
    <3> QED BY Zenon, <1>1, <2>3, <3>2, ServingAside
  <2> QED BY Zenon, <2>5, <2>6
<1>5. CASE Ack(c)
  <2>1. /\ phase'[c] \in {"fetch", "work"} /\ current'[c] = Nothing /\ batch'[c] = batch[c] \ {current[c]}
        /\ \A e \in Conns \ {c} : phase'[e] = phase[e] /\ batch'[e] = batch[e] /\ current'[e] = current[e]
        /\ UNCHANGED <<setup, turn, handled>> /\ phase[c] = "ack"
    BY Zenon, <1>0, <1>5 DEF Ack, GoSub, history
  <2>2. Serving(c)' BY Zenon, <1>1, <2>1 DEF Serving, Fetching
  <2>3. Aside(c) BY Zenon, <2>1 DEF Aside
  <2> QED BY Zenon, <1>1, <2>2, <2>3, ServingAside
<1>6. ASSUME NEW m \in Messages, HandleCore(c, m) PROVE \A e \in Conns : Serving(e)'
  <2>1. /\ turn' = turn \ {<<c, m>>} /\ handled \subseteq handled' /\ UNCHANGED <<setup, phase, current>>
        /\ phase[c] = "core" /\ batch'[c] = batch[c] \ {m}
        /\ \A e \in Conns \ {c} : batch'[e] = batch[e]
    BY Zenon, <1>0, <1>6 DEF HandleCore, RunHandler
  <2>2. Serving(c)' BY Zenon, <1>1, <2>1 DEF Serving, Preparing, Fetching
  <2>3. \A e \in Conns \ {c} : \A n \in Messages : <<e, n>> \in turn => <<e, n>> \in turn' BY Zenon, <2>1
  <2>4. Aside(c) BY Zenon, <2>1, <2>3 DEF Aside
  <2> QED BY Zenon, <1>1, <2>2, <2>4, ServingAside
<1>7. CASE HandlerPanics(c)
  <2>1. /\ phase'[c] = "panicked" /\ batch'[c] = {} /\ current'[c] = Nothing /\ setup' = setup
        /\ \A e \in Conns \ {c} : phase'[e] = phase[e] /\ batch'[e] = batch[e] /\ current'[e] = current[e]
    BY Zenon, <1>0, <1>7 DEF HandlerPanics, GoSub
  <2>2. handled \subseteq handled' /\ \A e \in Conns \ {c} : \A n \in Messages : <<e, n>> \in turn => <<e, n>> \in turn'
    BY Zenon, <1>7 DEF HandlerPanics, RunHandler
  <2>3. Serving(c)' BY Zenon, <2>1 DEF Serving, Preparing, Fetching
  <2>4. Aside(c) BY Zenon, <2>1, <2>2 DEF Aside
  <2> QED BY Zenon, <1>1, <2>3, <2>4, ServingAside
<1> QED BY Zenon, <1>2, <1>3, <1>4, <1>5, <1>6, <1>7 DEF Consuming

(* Publish puts a message into the channels of those whose turn it is. *)
LEMMA PublishServes ==
    ASSUME Shaped, NEW m \in Messages, Publish(m), \A e \in Conns : Serving(e)
    PROVE  \A e \in Conns : Serving(e)'
<1>1. UNCHANGED <<setup, phase, current, handled>> BY Zenon DEF Publish
<1>2. CASE setup.useStream
  <2>1. UNCHANGED <<batch, turn>> BY Zenon, <1>2 DEF Publish
  <2> QED BY Zenon, <1>1, <2>1, ServingStays
<1>3. CASE ~setup.useStream
  <2>1. PICK to \in SUBSET Members(m) :
            /\ batch' = [c \in Conns |-> batch[c] \cup IF c \in to /\ phase[c] = "core" THEN {m} ELSE {}]
            /\ turn' = turn \cup ({c \in to : phase[c] = "core"} \X {m})
    BY Zenon, <1>3 DEF Publish
  <2> SUFFICES ASSUME NEW e \in Conns PROVE Serving(e)'
    BY Zenon
  <2>2. Serving(e) BY Zenon
  <2>3. \A n \in batch'[e] : n \in batch[e] \/ <<e, n>> \in turn' BY Zenon, <2>1
  <2>4. turn \subseteq turn' BY Zenon, <2>1
  <2> QED BY Zenon, <1>1, <2>2, <2>3, <2>4 DEF Serving
<1> QED BY Zenon, <1>2, <1>3

NatsInv ==
    /\ Flagged /\ WorkQueue
    /\ \A c \in Conns : Serving(c)
    /\ \A m \in Messages : status[m] = "gone" => m \in handled

(* Every step keeps the shape of the state. *)
LEMMA NatsShaped == ASSUME Shaped, [NatsNext]_natsVars PROVE Shaped'
<1>1. UNCHANGED natsVars => Shaped' BY Zenon DEF Shaped, natsVars, server, conns, goroutine, history
<1> QED BY Zenon, <1>1, ConnectionType, SubscribingType, ConsumingType, ServerType DEF NatsNext

(* The queue, step by step. *)
LEMMA NatsQueue == ASSUME WorkQueue, \A c \in Conns : Serving(c), [NatsNext]_natsVars PROVE WorkQueue'
<1> DEFINE Still == UNCHANGED <<setup, consumer, status, delivery, owed>>
<1>1. Shaped /\ Shaped' BY Zenon, NatsShaped DEF WorkQueue
<1>2. Still => WorkQueue' BY Zenon, <1>1, QueueStays
<1> HIDE DEF Still
<1>3. ASSUME NEW c \in Conns, Connection(c) PROVE WorkQueue'
  <2>1. Still
    BY Zenon, <1>3 DEF Still, Connection, ConnectionLost, Reconnected, ReconnectsExhausted, Stop, AddStream,
       StartBegins, StartReads, StartReconciles, StartReturns, server, history
  <2> QED BY Zenon, <1>2, <2>1
<1>4. ASSUME NEW c \in Conns, StartSubscription(c) \/ StopSubscription(c) \/ HandlerPanics(c) PROVE WorkQueue'
  <2>1. Still BY Zenon, <1>4 DEF Still, StartSubscription, StopSubscription, HandlerPanics, server, history
  <2> QED BY Zenon, <1>2, <2>1
<1>5. ASSUME NEW c \in Conns, Subscribing(c) PROVE WorkQueue'
  <2>1. Durable(c) \in Durables BY Zenon, <1>1, NatsNames DEF Shaped
  <2>2. CASE ReadStream(c) \/ EnsureStream(c) \/ LookupConsumer(c) \/ AppendSubscription(c)
    <3>1. Still
      BY Zenon, <2>2 DEF Still, ReadStream, EnsureStream, LookupConsumer, AppendSubscription, server, history
    <3> QED BY Zenon, <1>2, <3>1
  <2>3. CASE DeleteConsumer(c)
    <3>1. UNCHANGED <<setup, status>> BY Zenon, <2>3 DEF DeleteConsumer
    <3>2. CASE Forget({Durable(c)})
      <4>1. {Durable(c)} \in SUBSET Durables BY Zenon, <2>1
      <4> QED BY Zenon, <1>1, <3>1, <3>2, <4>1, QueueForgets
    <3>3. CASE UNCHANGED <<consumer, delivery, owed, turn>>
      BY Zenon, <1>2, <3>1, <3>3 DEF Still
    <3> QED BY Zenon, <2>3, <3>2, <3>3 DEF DeleteConsumer
  <2>4. CASE AddConsumer(c) \/ PullSubscribe(c)
    <3>1. UNCHANGED <<setup, status, delivery, owed>>
      BY Zenon, <2>4 DEF AddConsumer, PullSubscribe, history
    <3>2. CASE CanConsume(Durable(c), setup.subject[c]) /\ Create(c)
      BY Zenon, <1>1, <3>1, <3>2, QueueCreates
    <3>3. CASE UNCHANGED consumer BY Zenon, <1>2, <3>1, <3>3 DEF Still
    <3> QED BY Zenon, <2>4, <3>2, <3>3 DEF AddConsumer, PullSubscribe
  <2> QED BY Zenon, <1>5, <2>2, <2>3, <2>4 DEF Subscribing
<1>6. ASSUME NEW c \in Conns, Consuming(c) PROVE WorkQueue'
  <2>1. CASE Fetch(c)
    <3>1. Durable(c) \in Durables BY Zenon, <1>1, NatsNames DEF Shaped
    <3> QED BY Zenon, <1>1, <2>1, <3>1, QueueGives DEF Fetch
  <2>2. CASE FetchNoResponders(c) \/ FetchStops(c) \/ \E m \in Messages : Handle(c, m)
    <3>1. Still BY Zenon, <2>2 DEF Still, FetchNoResponders, FetchStops, Handle, server, history
    <3> QED BY Zenon, <1>2, <3>1
  <2>3. CASE Ack(c) \/ \E m \in Messages : HandleCore(c, m)
    <3>1. UNCHANGED <<setup, consumer, delivery, owed>> BY Zenon, <2>3 DEF Ack, HandleCore, history
    <3>2. \A m \in Messages : status'[m] = status[m] \/ status'[m] = "gone"
      <4>1. status \in [Messages -> {"unsent", "stored", "gone", "refused", "lost"}] BY Zenon, <1>1 DEF Shaped
      <4>2. CASE Ack(c)
        <5>1. status' = status \/ \E x \in {"gone", status[current[c]]} : status' = [status EXCEPT ![current[c]] = x]
          BY Zenon, <4>2 DEF Ack
        <5> QED BY Zenon, <4>1, <5>1
      <4>3. ASSUME NEW n \in Messages, HandleCore(c, n) PROVE status' = [status EXCEPT ![n] = "gone"]
        BY Zenon, <4>3 DEF HandleCore
      <4> QED BY Zenon, <2>3, <4>1, <4>2, <4>3
    <3> QED BY Zenon, <1>1, <3>1, <3>2, QueueEnds
  <2> QED BY Zenon, <1>6, <2>1, <2>2, <2>3 DEF Consuming
<1>7. ASSUME NEW m \in Messages, Publish(m) PROVE WorkQueue'
  BY Zenon, <1>1, <1>7, QueuePublishes
<1>8. ASSUME NEW m \in Messages, NEW d \in Durables, AckWaitExpires(m, d) \/ HandlerIsSlow(m, d)
      PROVE WorkQueue'
  <2>1. Redeliver(m, d) BY Zenon, <1>8 DEF AckWaitExpires, HandlerIsSlow
  <2> QED BY Zenon, <1>1, <2>1, QueueRedelivers
<1>9. ASSUME StreamDeleted PROVE WorkQueue'
  <2>1. Forget(Durables) /\ setup' = setup BY Zenon, <1>9 DEF StreamDeleted
  <2>2. \A m \in Messages : status'[m] = status[m] \/ status'[m] = "lost" BY Zenon, <1>9 DEF StreamDeleted
  <2>3. Durables \in SUBSET Durables BY Zenon
  <2> QED BY Zenon, <1>1, <2>1, <2>2, <2>3, QueueForgets
<1>10. ASSUME NEW d \in Durables, ConsumerDeleted(d) PROVE WorkQueue'
  <2>1. Forget({d}) /\ setup' = setup /\ status' = status BY Zenon, <1>10 DEF ConsumerDeleted
  <2>2. {d} \in SUBSET Durables BY Zenon
  <2> QED BY Zenon, <1>1, <2>1, <2>2, QueueForgets
<1>11. UNCHANGED natsVars => WorkQueue'
  <2>1. UNCHANGED natsVars => Still BY Zenon DEF Still, natsVars, server, history
  <2> QED BY Zenon, <1>2, <2>1
<1> QED BY Zenon, <1>3, <1>4, <1>5, <1>6, <1>7, <1>8, <1>9, <1>10, <1>11 DEF NatsNext

(* The goroutines, step by step. *)
LEMMA NatsServes ==
    ASSUME WorkQueue, \A c \in Conns : Serving(c), [NatsNext]_natsVars PROVE \A c \in Conns : Serving(c)'
<1>1. Shaped BY Zenon DEF WorkQueue
<1>2. ASSUME UNCHANGED <<setup, phase, batch, current, turn, handled>> PROVE \A c \in Conns : Serving(c)'
  BY Zenon, <1>2, ServingStays
<1>3. ASSUME NEW m \in Messages, NEW d \in Durables, AckWaitExpires(m, d) \/ HandlerIsSlow(m, d)
      PROVE UNCHANGED <<setup, phase, batch, current, turn, handled>>
  BY Zenon, <1>3 DEF AckWaitExpires, HandlerIsSlow, Redeliver, goroutine
<1>4. ASSUME StreamDeleted \/ \E d \in Durables : ConsumerDeleted(d)
      PROVE UNCHANGED <<setup, phase, batch, current, turn, handled>>
  BY Zenon, <1>4 DEF StreamDeleted, ConsumerDeleted, Forget, goroutine
<1>5. UNCHANGED natsVars => UNCHANGED <<setup, phase, batch, current, turn, handled>>
  BY Zenon DEF natsVars, goroutine, history
<1>6. ASSUME NEW c \in Conns, \/ Connection(c) \/ StartSubscription(c) \/ Subscribing(c) \/ Consuming(c)
                              \/ StopSubscription(c) \/ HandlerPanics(c)
      PROVE \A e \in Conns : Serving(e)'
  BY Zenon, <1>1, <1>6, ConnectionServes, SubscribingServes, ConsumingServes
<1>7. ASSUME NEW m \in Messages, Publish(m) PROVE \A e \in Conns : Serving(e)'
  BY Zenon, <1>1, <1>7, PublishServes
<1> QED BY Zenon, <1>2, <1>3, <1>4, <1>5, <1>6, <1>7 DEF NatsNext

(* Nothing leaves the queue but what a handler has run for. *)
LEMMA NatsGone ==
    ASSUME NatsInv, [NatsNext]_natsVars PROVE \A m \in Messages : status'[m] = "gone" => m \in handled'
<1> DEFINE Still == \A m \in Messages : status'[m] = "gone" => status[m] = "gone"
           GoneHandled == \A m \in Messages : status'[m] = "gone" => m \in handled'
<1>1. Shaped /\ \A m \in Messages : status[m] = "gone" => m \in handled BY Zenon DEF NatsInv, WorkQueue
<1>2. status \in [Messages -> {"unsent", "stored", "gone", "refused", "lost"}] BY Zenon, <1>1 DEF Shaped
<1>3. Still /\ handled \subseteq handled' => GoneHandled BY Zenon, <1>1
<1>4. status' = status => Still BY Zenon
<1> HIDE DEF Still
<1>5. ASSUME NEW c \in Conns, Connection(c) \/ StartSubscription(c) \/ StopSubscription(c) PROVE GoneHandled
  <2>1. UNCHANGED <<status, handled>>
    BY Zenon, <1>5 DEF Connection, ConnectionLost, Reconnected, ReconnectsExhausted, Stop, AddStream,
       StartBegins, StartReads, StartReconciles, StartReturns, StartSubscription, StopSubscription, server, history
  <2> QED BY Zenon, <1>3, <1>4, <2>1
<1>6. ASSUME NEW c \in Conns, Subscribing(c) PROVE GoneHandled
  <2>1. UNCHANGED <<status, handled>>
    BY Zenon, <1>6 DEF Subscribing, ReadStream, EnsureStream, LookupConsumer, DeleteConsumer, AddConsumer,
       PullSubscribe, AppendSubscription, server, history
  <2> QED BY Zenon, <1>3, <1>4, <2>1
<1>7. ASSUME NEW c \in Conns, HandlerPanics(c) \/ Consuming(c) PROVE GoneHandled
  <2>1. CASE Fetch(c) \/ FetchNoResponders(c) \/ FetchStops(c) \/ HandlerPanics(c)
    <3>1. status' = status /\ handled \subseteq handled'
      BY Zenon, <2>1 DEF Fetch, FetchNoResponders, FetchStops, HandlerPanics, RunHandler, server, history
    <3> QED BY Zenon, <1>3, <1>4, <3>1
  <2>2. ASSUME NEW m \in Messages, Handle(c, m) PROVE GoneHandled
    <3>1. status' = status /\ handled \subseteq handled' BY Zenon, <2>2 DEF Handle, RunHandler, server
    <3> QED BY Zenon, <1>3, <1>4, <3>1
  <2>3. CASE Ack(c)
    <3>1. current[c] \in handled BY Zenon, <2>3 DEF NatsInv, Serving, Ack
    <3>2. handled' = handled BY Zenon, <2>3 DEF Ack, history
    <3>3. \A m \in Messages : status'[m] = status[m] \/ m = current[c] BY Zenon, <1>2, <2>3 DEF Ack
    <3> QED BY Zenon, <1>1, <3>1, <3>2, <3>3
  <2>4. ASSUME NEW m \in Messages, HandleCore(c, m) PROVE GoneHandled
    <3>1. handled' = handled \cup {m} /\ status' = [status EXCEPT ![m] = "gone"]
      BY Zenon, <2>4 DEF HandleCore, RunHandler
    <3> QED BY Zenon, <1>1, <1>2, <3>1
  <2> QED BY Zenon, <1>7, <2>1, <2>2, <2>3, <2>4 DEF Consuming
<1>8. ASSUME NEW m \in Messages, Publish(m) PROVE GoneHandled
  <2>1. handled' = handled BY Zenon, <1>8 DEF Publish
  <2>2. Still BY Zenon, <1>2, <1>8 DEF Publish, Still
  <2> QED BY Zenon, <1>3, <2>1, <2>2
<1>9. ASSUME NEW m \in Messages, NEW d \in Durables, AckWaitExpires(m, d) \/ HandlerIsSlow(m, d) PROVE GoneHandled
  <2>1. UNCHANGED <<status, handled>> BY Zenon, <1>9 DEF AckWaitExpires, HandlerIsSlow, Redeliver
  <2> QED BY Zenon, <1>3, <1>4, <2>1
<1>10. ASSUME StreamDeleted PROVE GoneHandled
  <2>1. handled' = handled BY Zenon, <1>10 DEF StreamDeleted
  <2>2. Still BY Zenon, <1>2, <1>10 DEF StreamDeleted, Still
  <2> QED BY Zenon, <1>3, <2>1, <2>2
<1>11. ASSUME NEW d \in Durables, ConsumerDeleted(d) PROVE GoneHandled
  <2>1. UNCHANGED <<status, handled>> BY Zenon, <1>11 DEF ConsumerDeleted
  <2> QED BY Zenon, <1>3, <1>4, <2>1
<1>12. UNCHANGED natsVars => GoneHandled
  <2>1. UNCHANGED natsVars => UNCHANGED <<status, handled>> BY Zenon DEF natsVars, server, history
  <2> QED BY Zenon, <1>3, <1>4, <2>1
<1> HIDE DEF GoneHandled
<1>13. GoneHandled BY Zenon, <1>5, <1>6, <1>7, <1>8, <1>9, <1>10, <1>11, <1>12 DEF NatsNext
<1> QED BY Zenon, <1>13 DEF GoneHandled

(* At first nothing has been published or delivered. *)
LEMMA NatsBegins == NatsInit => NatsInv
<1> SUFFICES ASSUME NatsInit PROVE NatsInv
  BY Zenon
<1>1. Flagged BY Zenon DEF NatsInit, Flagged
<1>2. stream \in (SUBSET Subjects) \cup {Nothing}
  <2>1. setup \in Setups BY Zenon DEF NatsInit
  <2>2. setup.stream \cup UNION {setup.listed[c] : c \in Conns}
           \in {s.stream \cup UNION {s.listed[c] : c \in Conns} : s \in Setups}
    BY Zenon, <2>1
  <2>3. setup.stream \subseteq Subjects BY Zenon, <2>2 DEF Subjects
  <2> QED BY Zenon, <2>3 DEF NatsInit
<1>3. Shaped
  <2>1. "idle" \in Places BY Zenon DEF Places
  <2> QED BY Zenon, <1>2, <2>1 DEF NatsInit, Shaped
<1>4. OneFilter /\ \A m \in Messages : Delivered(m) BY Zenon DEF NatsInit, OneFilter, Delivered
<1>5. \A c \in Conns : Serving(c) BY Zenon DEF NatsInit, Serving, Preparing, Fetching
<1>6. \A m \in Messages : status[m] # "gone" BY Zenon DEF NatsInit
<1> QED BY Zenon, <1>1, <1>3, <1>4, <1>5, <1>6 DEF NatsInv, WorkQueue

(* Whatever connections, consumers and streams come and go, fail and are   *)
(* deleted: a goroutine of the subscription runs the handler only for a    *)
(* message that the server owed and gave to it, so that nothing is         *)
(* consumed twice before AckWait or without a deletion of its consumer,    *)
(* and nothing leaves the work queue unhandled.                            *)
THEOREM ConsumedOnceHolds == NatsSpec => []ConsumedOnce
<1>1. NatsInv /\ [NatsNext]_natsVars => NatsInv'
  <2> SUFFICES ASSUME NatsInv, [NatsNext]_natsVars PROVE NatsInv'
    OBVIOUS
  <2>1. Flagged' BY Zenon, FlagType DEF NatsInv
  <2>2. WorkQueue' BY Zenon, NatsQueue DEF NatsInv
  <2>3. \A c \in Conns : Serving(c)' BY Zenon, NatsServes DEF NatsInv
  <2>4. \A m \in Messages : status'[m] = "gone" => m \in handled' BY Zenon, NatsGone
  <2> QED BY Zenon, <2>1, <2>2, <2>3, <2>4 DEF NatsInv
<1>2. NatsInv => ConsumedOnce
  BY Zenon DEF NatsInv, WorkQueue, Shaped, Flagged, Serving, ConsumedOnce, NatsTypeOK
<1> QED BY <1>1, <1>2, NatsBegins, PTL DEF NatsSpec

=============================================================================
