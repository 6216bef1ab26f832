---------------------------- MODULE TokenLimiter ----------------------------
(***************************************************************************)
(* limit/tokenlimit.go: a token bucket in Redis and, when Redis does not   *)
(* answer, one in the process.  A tick is a second here, the resolution of *)
(* now.Unix().                                                             *)
(***************************************************************************)
EXTENDS Clock

CONSTANTS
    rate,    \* tokens per tick
    burst    \* capacity

ASSUME TokenConstants == rate \in Nat \ {0} /\ burst \in Nat

VARIABLES
    bucket,        \* the two keys in Redis, always set together, and their expiry
    local,         \* per process: localTokens and localLast
    granted,       \* history: the tokens Redis has given out, by the caller's time
    localGranted,  \* history: per process, the tokens it has given out by itself
    late           \* history: a request has reached Redis later than its time

tokenVars == <<bucket, local, granted, localGranted, late>>

TokenTypeOK ==
    /\ bucket \in [tokens : Nat, ts : Nat, expireAt : Nat]
    /\ local \in [Replicas -> [tokens : Int, last : Nat]]
    /\ granted \in [Times -> Nat] /\ localGranted \in [Replicas -> [Times -> Nat]]
    /\ late \in BOOLEAN

NewTokenLimiter ==
    /\ bucket = [tokens |-> 0, ts |-> 0, expireAt |-> 0]
    /\ local = [r \in Replicas |-> [tokens |-> burst, last |-> 0]]
    /\ granted = NoEvents
    /\ localGranted = [r \in Replicas |-> NoEvents]
    /\ late = FALSE

ttl == (2 * burst) \div rate

(* tokenLimitScript, atomic in Redis, for n tokens at the caller's time t. *)
(* setex refuses a ttl of 0, and the script fails.                         *)
TokenScript(t, n, allowed) ==
    LET live == now < bucket.expireAt
        filled == IF live
                  THEN Min({burst, bucket.tokens + (IF t > bucket.ts THEN t - bucket.ts ELSE 0) * rate})
                  ELSE burst
    IN  /\ ttl > 0
        /\ allowed = (filled >= n)
        /\ bucket' = [tokens |-> IF allowed THEN filled - n ELSE filled,
                      ts |-> t, expireAt |-> now + ttl]
        /\ granted' = IF allowed THEN Counted(granted, t, n) ELSE granted
        /\ late' = (late \/ t < now)
        /\ UNCHANGED <<local, localGranted>>

(* Mutant: the local bucket overflows. *)
localAllowUncapped(r, t, n, allowed) ==
    LET filled == local[r].tokens + (t - local[r].last) * rate IN
    /\ allowed = (filled >= n)
    /\ local' = [local EXCEPT ![r] = [tokens |-> IF allowed THEN filled - n ELSE filled, last |-> t]]
    /\ localGranted' = IF allowed THEN [localGranted EXCEPT ![r] = Counted(@, t, n)] ELSE localGranted
    /\ UNCHANGED <<bucket, granted, late>>

(* localAllow, under localMu.  t was read before the lock and may be older *)
(* than localLast.                                                         *)
localAllow(r, t, n, allowed) ==
    LET filled == Min({burst, local[r].tokens + (t - local[r].last) * rate}) IN
    /\ allowed = (filled >= n)
    /\ local' = [local EXCEPT ![r] = [tokens |-> IF allowed THEN filled - n ELSE filled, last |-> t]]
    /\ localGranted' = IF allowed THEN [localGranted EXCEPT ![r] = Counted(@, t, n)] ELSE localGranted
    /\ UNCHANGED <<bucket, granted, late>>

(* What a token bucket promises: in any interval no more than its capacity *)
(* and what is generated meanwhile.  The bucket in Redis keeps it as long  *)
(* as requests reach Redis in the second they belong to, since a late one  *)
(* sets ts back, and the same seconds are filled again; a local bucket     *)
(* keeps it always.                                                        *)
TokensBounded ==
    \A t \in 0 .. now : \A s \in 0 .. t :
        /\ ~late => Events(granted, s, t) <= burst + rate * (t - s)
        /\ \A r \in Replicas : Events(localGranted[r], s, t) <= burst + rate * (t - s)
=============================================================================
