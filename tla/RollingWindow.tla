--------------------------- MODULE RollingWindow ---------------------------
(***************************************************************************)
(* rollingWindow of breaker/googlebreaker.go and rollingCounter of         *)
(* load/shedder.go: buckets for the most recent intervals of time.  The    *)
(* two have the same advance; they differ in what a bucket adds up.        *)
(***************************************************************************)
EXTENDS Naturals, FiniteSetsExt

NewWindow(size, zero, t) ==
    [buckets |-> [i \in 0 .. size - 1 |-> zero], offset |-> 0, lastTime |-> t]

(* Mutant: only one bucket is cleared, however much time has passed. *)
AdvanceByOne(w, t, size, interval, zero) ==
    IF (t - w.lastTime) \div interval = 0 THEN w
    ELSE [buckets  |-> [w.buckets EXCEPT ![(w.offset + 1) % size] = zero],
          offset   |-> (w.offset + 1) % size,
          lastTime |-> t]

(* One bucket is cleared for each interval that has passed since lastTime, *)
(* at most all; lastTime becomes now, not the start of the bucket.         *)
Advance(w, t, size, interval, zero) ==
    LET elapsed == Min({(t - w.lastTime) \div interval, size})
        cleared == {(w.offset + k) % size : k \in 1 .. elapsed}
    IN  IF elapsed = 0 THEN w
        ELSE [buckets  |-> [i \in 0 .. size - 1 |-> IF i \in cleared THEN zero ELSE w.buckets[i]],
              offset   |-> (w.offset + elapsed) % size,
              lastTime |-> t]

(* for _, b := range buckets, over the first n of them: sum += b. *)
SumOf(b, n) ==
    LET sum[i \in 0 .. n] == IF i = 0 THEN 0 ELSE sum[i - 1] + b[i - 1]
    IN  sum[n]
=============================================================================
