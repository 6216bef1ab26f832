----------------------------- MODULE Singletons -----------------------------
(***************************************************************************)
(* The packages that build one instance behind a sync.Once: conf, redis,   *)
(* databases, nats, clickhouse, mongodb, register (etcd), i18n and logs.   *)
(* They differ in when the instance is published, in what a call finds     *)
(* before it is configured, in what a failure leaves behind, and in        *)
(* whether readers go through the Once.  Clients, settings and messages    *)
(* are the parts of the instance.                                          *)
(***************************************************************************)
EXTENDS Naturals

CONSTANTS
    Readers,    \* the goroutines that ask for the instance
    Parts       \* the number of parts that are configured

(* Of each package: after how many parts the variable is assigned; what a  *)
(* call before Init finds: an empty manager, one built from nothing        *)
(* ("build") or a panic, and "n/a" where Init itself builds; and whether   *)
(* the variable is also read without the Once.                             *)
Conf       == [published |-> Parts, early |-> "n/a", raw |-> FALSE]
Redis      == [published |-> Parts, early |-> "empty", raw |-> FALSE]
Databases  == [published |-> 0, early |-> "panic", raw |-> FALSE]
Nats       == [published |-> 0, early |-> "build", raw |-> FALSE]
Clickhouse == [published |-> Parts, early |-> "panic", raw |-> FALSE]
Mongodb    == [published |-> Parts, early |-> "panic", raw |-> FALSE]
Etcd       == [published |-> 1, early |-> "n/a", raw |-> TRUE]
I18n       == [published |-> 0, early |-> "n/a", raw |-> TRUE]
Logs       == [published |-> Parts, early |-> "n/a", raw |-> TRUE]

Packages == [conf |-> Conf, redis |-> Redis, databases |-> Databases, nats |-> Nats,
             clickhouse |-> Clickhouse, mongodb |-> Mongodb, etcd |-> Etcd,
             i18n |-> I18n, logs |-> Logs]

VARIABLES
    kind,       \* the package
    configured, \* Init has stored the configuration
    once,       \* "new", "running" or "done"
    goal,       \* the number of parts the builder found configured
    built,      \* the parts built so far
    failed,     \* building panicked; conf: initErr is set
    reader,     \* per reader: where it is, or how its call ended
    got         \* per reader: the number of parts it found, or Nil

singletonVars == <<kind, configured, once, goal, built, failed, reader, got>>

Nil == Parts + 1
package == Packages[kind]

SingletonTypeOK ==
    /\ kind \in DOMAIN Packages /\ once \in {"new", "running", "done"}
    /\ built \in 0..goal /\ goal \in {0, Parts}
    /\ configured \in BOOLEAN /\ failed \in BOOLEAN
    /\ reader \in [Readers -> {"out", "wait", "build", "empty", "raw", "returned", "panicked"}]
    /\ got \in [Readers -> 0..Nil]

SingletonInit ==
    /\ kind \in DOMAIN Packages /\ configured = (package.early = "n/a")
    /\ once = "new" /\ goal = 0 /\ built = 0 /\ failed = FALSE
    /\ reader = [r \in Readers |-> "out"] /\ got = [r \in Readers |-> Nil]

Goes(r, where) == reader' = [reader EXCEPT ![r] = where]
Gets(r, n) == got' = [got EXCEPT ![r] = n]

(* Init of the packages with a manager stores the configuration. *)
Configure ==
    /\ ~configured /\ configured' = TRUE
    /\ UNCHANGED <<kind, once, goal, built, failed, reader, got>>

Calls(r) ==
    /\ reader[r] = "out"
    /\ \/ (configured \/ package.early = "build") /\ Goes(r, "wait") /\ UNCHANGED got
       \/ ~configured /\ package.early = "empty" /\ Goes(r, "empty") /\ Gets(r, 0)
       \/ ~configured /\ package.early = "panic" /\ Goes(r, "panicked") /\ UNCHANGED got
    /\ UNCHANGED <<kind, configured, once, goal, built, failed>>

EntersAnyway(r) ==                \* mutant: a nil check in place of the Once
    /\ reader[r] = "wait" /\ once # "done"
    /\ IF once = "new" \/ built < package.published
       THEN Goes(r, "build") /\ once' = "running" /\ UNCHANGED got
       ELSE Goes(r, "returned") /\ Gets(r, built) /\ UNCHANGED once
    /\ goal' = IF configured THEN Parts ELSE 0
    /\ UNCHANGED <<kind, configured, built, failed>>

(* once.Do: the first caller builds, the others wait until it is done. *)
Enters(r) ==
    /\ reader[r] = "wait" /\ once = "new"
    /\ once' = "running" /\ Goes(r, "build")
    /\ goal' = IF configured THEN Parts ELSE 0
    /\ UNCHANGED <<kind, configured, built, failed, got>>

BuildsPart(r) ==
    /\ reader[r] = "build" /\ built < goal /\ built' = built + 1
    /\ UNCHANGED <<kind, configured, once, goal, failed, reader, got>>

Finishes(r) ==
    /\ reader[r] = "build" /\ built = goal
    /\ once' = "done" /\ Goes(r, "returned") /\ Gets(r, built)
    /\ UNCHANGED <<kind, configured, goal, built, failed>>

(* A part cannot be built: the builder panics and the Once is done all the *)
(* same.  (i18n fails only on its language tag, and skips files it cannot  *)
(* load.)                                                                  *)
BuildFails(r) ==
    /\ reader[r] = "build" /\ built < goal /\ (kind = "i18n" => built = 0)
    /\ once' = "done" /\ failed' = TRUE /\ Goes(r, "panicked")
    /\ UNCHANGED <<kind, configured, goal, built, got>>

(* The variable, nil as long as it is not assigned; GetRedisManager makes  *)
(* an empty manager of nil.                                                *)
Found ==
    IF once # "new" /\ built >= package.published /\ (kind = "i18n" => ~failed) THEN built
    ELSE IF kind = "redis" THEN 0 ELSE Nil

(* A caller that waited, or came when the Once was done. *)
Returns(r) ==
    /\ reader[r] = "wait" /\ once = "done"
    /\ IF kind = "conf" /\ failed
       THEN Goes(r, "panicked") /\ UNCHANGED got
       ELSE Goes(r, "returned") /\ Gets(r, Found)
    /\ UNCHANGED <<kind, configured, once, goal, built, failed>>

(* GetEtcdRegister, GetLocalizer and GetLogger look at the variable only,  *)
(* unsynchronised, so that they may also see it still nil; the last two    *)
(* panic then.                                                             *)
ReadsRaw(r) ==
    /\ reader[r] = "out" /\ package.raw
    /\ \E n \in {Found, Nil} :
          IF n = Nil /\ kind # "etcd" THEN Goes(r, "panicked") /\ UNCHANGED got
                                      ELSE Goes(r, "raw") /\ Gets(r, n)
    /\ UNCHANGED <<kind, configured, once, goal, built, failed>>

SingletonNext == Configure \/ \E r \in Readers :
    \/ Calls(r) \/ Enters(r) \/ BuildsPart(r) \/ Finishes(r) \/ BuildFails(r)
    \/ Returns(r) \/ ReadsRaw(r)

SingletonSpec == SingletonInit /\ [][SingletonNext]_singletonVars
-----------------------------------------------------------------------------
(* Who comes through the Once gets everything that was configured when it  *)
(* was built, however early the variable is assigned and however many      *)
(* callers come at once, unless building failed.  After a failure conf     *)
(* panics for every caller (conf.go 93); the others return an instance     *)
(* that is nil, empty or partly filled.                                    *)
CompleteWhenReturned ==
    /\ SingletonTypeOK
    /\ \A r \in Readers :
          reader[r] = "returned" =>
              /\ ~failed => got[r] = goal
              /\ failed => kind # "conf" /\ got[r] # Parts
=============================================================================
