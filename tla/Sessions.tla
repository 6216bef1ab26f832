------------------------------ MODULE Sessions ------------------------------
(***************************************************************************)
(* databases/common.go, dao.go and entity.go: statements through a DAO and *)
(* its transactions, by SessionWrapper ("wrapper"), WarpSession ("warp"),  *)
(* an entity's session ("entity") or without one ("plain").  The code that *)
(* uses them is the try block of TryCatch: it goes on, panics with the     *)
(* error it got, or panics in a statement; a finally block closes the      *)
(* session.  A write is a number; rows and columns are left out.           *)
(***************************************************************************)
EXTENDS TryCatch

CONSTANT MaxCalls    \* bound: the statements of a try block

VARIABLES
    mode,       \* how the try block reaches the database
    chained,    \* it goes on with the SessionWrapper that Execute returns
    at,         \* "new", "open" (Begin is over) or "over"
    inTrans,    \* m.inTrans, with m.tx
    tx,         \* the transaction in the database
    pending,    \* writes of the open transaction
    durable,    \* writes that are committed
    executed,   \* statements executed
    err,        \* sw.err of the wrapper in use, or the error at hand
    result,     \* what the caller is told: "none", "nil", "error"
    quiet,      \* nil means no more than "not committed": a recovered panic,
                \* a doctor that rolls back, a Close without Commit
    broke,      \* a statement has failed
    unsure      \* the answer to a COMMIT that took place was lost

sessionVars == <<mode, chained, at, inTrans, tx, pending, durable, executed, err, result, quiet, broke, unsure>>
dataVars == <<tryVars, sessionVars>>

SessionTypeOK ==
    /\ mode \in {"wrapper", "warp", "entity", "plain"} /\ at \in {"new", "open", "over"}
    /\ tx \in {"none", "open", "committed", "rolledback"}
    /\ pending \subseteq 1..MaxCalls /\ durable \subseteq 1..MaxCalls /\ executed \in 0..MaxCalls
    /\ chained \in BOOLEAN /\ inTrans \in BOOLEAN /\ err \in BOOLEAN
    /\ quiet \in BOOLEAN /\ broke \in BOOLEAN /\ unsure \in BOOLEAN
    /\ result \in {"none", "nil", "error"}

SessionInit ==
    /\ TryInit
    /\ mode \in {"wrapper", "warp", "entity", "plain"}
    /\ chained \in (IF mode = "wrapper" THEN BOOLEAN ELSE {TRUE})
    /\ at = "new" /\ tx = "none" /\ result = "none"
    /\ pending = {} /\ durable = {} /\ executed = 0
    /\ inTrans = FALSE /\ err = FALSE /\ quiet = FALSE /\ broke = FALSE /\ unsure = FALSE
-----------------------------------------------------------------------------
(* Begin, Commit, Rollback and Close of OrmBaseDao.  COMMIT may fail, or   *)
(* succeed with its answer lost.  Without a transaction Commit and         *)
(* Rollback only return an error.                                          *)
Begin == inTrans' = TRUE /\ tx' = "open" /\ UNCHANGED <<pending, durable, unsure>>

CommitApplied ==
    /\ inTrans /\ inTrans' = FALSE /\ tx' = "committed"
    /\ durable' = durable \cup pending /\ pending' = {}

Rollback ==
    /\ inTrans' = FALSE
    /\ tx' = IF inTrans THEN "rolledback" ELSE tx
    /\ pending' = {} /\ UNCHANGED <<durable, unsure>>

CommitFails == inTrans /\ Rollback

CloseSession == Rollback

Ends(told) == at' = "over" /\ result' = told

(* COMMIT and what the caller is told. *)
CommitEnds ==
    \/ CommitApplied /\ Ends("nil") /\ UNCHANGED unsure
    \/ CommitApplied /\ Ends("error") /\ unsure' = TRUE
    \/ CommitFails /\ Ends("error")
    \/ ~inTrans /\ Ends("error") /\ UNCHANGED <<inTrans, tx, pending, durable, unsure>>

RollbackNothing ==                \* mutant: Execute does not roll back
    UNCHANGED <<inTrans, tx, pending, durable, unsure>>

(* What Execute does when its call returned an error. *)
ExecuteFailed == Rollback
-----------------------------------------------------------------------------
InTry == block = "try"

(* NewSession and Begin; when Begin fails WarpSession and the user of an   *)
(* entity stop, a SessionWrapper keeps the error.                          *)
Opens ==
    /\ InTry /\ at = "new"
    /\ \/ mode # "plain" /\ Begin /\ at' = "open" /\ UNCHANGED <<err, result>>
       \/ mode = "plain" /\ at' = "open" /\ UNCHANGED <<inTrans, tx, pending, durable, unsure, err, result>>
       \/ /\ mode # "plain" /\ err' = TRUE
          /\ IF mode = "wrapper" THEN at' = "open" /\ UNCHANGED result ELSE Ends("error")
          /\ UNCHANGED <<inTrans, tx, pending, durable, unsure>>
    /\ UNCHANGED <<tryVars, mode, chained, executed, quiet, broke>>

Statements == InTry /\ at = "open" /\ executed < MaxCalls /\ executed' = executed + 1

(* m.tx inside a transaction, outside one the connection. *)
DB == IF inTrans THEN "tx" ELSE "conn"

(* A statement that writes is committed at once outside a transaction. *)
Writes ==
    IF DB = "tx" THEN pending' = pending \cup {executed'} /\ UNCHANGED durable
                 ELSE durable' = durable \cup {executed'} /\ UNCHANGED pending

Reads == UNCHANGED <<pending, durable>>

Succeeds ==
    /\ Statements /\ ~err
    /\ Writes \/ Reads
    /\ UNCHANGED <<tryVars, mode, chained, at, inTrans, tx, err, result, quiet, broke, unsure>>

(* A statement fails, or affects or finds no row and DoGet, DoUpdate,      *)
(* DoInsert or DoDelete make that an error.  Execute rolls back, in its    *)
(* own copy of the wrapper notes the error, and returns that copy;         *)
(* WarpSession and the user of an entity roll back and stop; UpsertMany    *)
(* stops with what it has done so far.                                     *)
Fails ==
    /\ Statements /\ ~err /\ broke' = TRUE
    /\ \/ mode = "wrapper" /\ ExecuteFailed /\ err' = chained /\ UNCHANGED <<at, result>>
       \/ /\ mode = "plain" /\ Ends("error") /\ err' = TRUE
          /\ UNCHANGED <<inTrans, tx, pending, durable, unsure>>
       \/ mode \in {"warp", "entity"} /\ Rollback /\ Ends("error") /\ err' = TRUE
    /\ UNCHANGED <<tryVars, mode, chained, quiet>>

(* A wrapper with an error skips its calls.    *)
Skips ==
    /\ Statements /\ mode = "wrapper" /\ err
    /\ UNCHANGED <<tryVars, mode, chained, at, inTrans, tx, pending, durable, err, result, quiet, broke, unsure>>

(* WarpSession recovers a panic of its handler, rolls back and returns     *)
(* nil; elsewhere the panic leaves the try block.                          *)
Panics(e) ==
    /\ Statements /\ ~err
    /\ IF mode = "warp"
       THEN Rollback /\ Ends("nil") /\ quiet' = TRUE /\ UNCHANGED tryVars
       ELSE /\ TryEnds(e) /\ at' = "over"
            /\ UNCHANGED <<inTrans, tx, pending, durable, unsure, result, quiet>>
    /\ UNCHANGED <<mode, chained, err, broke>>

(* CommitAndClose, or Commit and then Close; the same for an entity, and   *)
(* WarpSession with SessionDoctorCommit.                                   *)
Commits ==
    /\ InTry /\ at = "open"
    /\ \/ mode = "plain" /\ Ends("nil") /\ UNCHANGED <<inTrans, tx, pending, durable, unsure>>
       \/ mode # "plain" /\ err /\ Rollback /\ Ends("error")
       \/ mode # "plain" /\ ~err /\ CommitEnds
    /\ UNCHANGED <<tryVars, mode, chained, executed, err, quiet, broke>>

(* Close without Commit, or a SessionDoctor that rolls back. *)
Closes ==
    /\ InTry /\ at = "open" /\ mode # "plain"
    /\ CloseSession /\ Ends(IF err THEN "error" ELSE "nil") /\ quiet' = TRUE
    /\ UNCHANGED <<tryVars, mode, chained, executed, err, broke>>

(* The try block ends, with a panic when it makes one of its error. *)
BodyEnds ==
    /\ at = "over"
    /\ \/ TryEnds(NoPanic)
       \/ result = "error" /\ \E e \in Errors : TryEnds(e)
    /\ UNCHANGED sessionVars

HandlerBlock == \E e \in Errors \cup {NoPanic} : HandlerEnds(e) /\ UNCHANGED sessionVars

(* finally closes the session. *)
Finally ==
    /\ \E e \in Errors \cup {NoPanic} : FinallyEnds(e)
    /\ CloseSession
    /\ UNCHANGED <<mode, chained, at, executed, err, result, quiet, broke>>

SessionNext == Opens \/ Succeeds \/ Fails \/ Skips \/ (\E e \in Errors : Panics(e))
        \/ Commits \/ Closes \/ BodyEnds \/ HandlerBlock \/ Finally

SessionSpec == SessionInit /\ [][SessionNext]_dataVars
-----------------------------------------------------------------------------
(* A caller that is told nil has all its writes committed and none of its  *)
(* statements has failed, also when it dropped what Execute returned; or   *)
(* no write, where nil claims no more.  Told an error it has none, unless  *)
(* the answer to COMMIT was lost or it went on with an old SessionWrapper, *)
(* whose session is out of its transaction (common.go 106-115, dao.go      *)
(* 71-76).                                                                 *)
AllOrNothing ==
    /\ SessionTypeOK
    /\ result = "nil" => tx # "open" /\ pending = {}
    /\ result = "nil" /\ mode # "plain" /\ ~quiet => tx = "committed" /\ ~broke
    /\ result = "nil" /\ quiet /\ chained => durable = {}
    /\ result = "error" /\ mode # "plain" /\ chained /\ ~unsure => durable = {}

(* The finally block comes last, and as it closes the session no           *)
(* transaction is left open, wherever the try block or a handler panicked  *)
(* (try_catch_chain.go 53, dao.go 101-107).  Without one only a panic in a *)
(* statement leaves one.                                                   *)
FinallyCloses ==
    /\ FinallyLast
    /\ block = "end" /\ tx = "open" =>
          /\ "finally" \notin has \/ (form = "func" /\ panic # NoPanic)
          /\ result = "none"
=============================================================================
