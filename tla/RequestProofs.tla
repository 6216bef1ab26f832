---------------------------- MODULE RequestProofs ----------------------------
(***************************************************************************)
(* Where the requests are on their way through the guards: every step of   *)
(* Middleware keeps the places, lets at most one request past the shedder  *)
(* or out of it and counts that in flying, and keeps the windows of the    *)
(* breaker and of the shedder; for every chain of guards and any number of *)
(* requests.                                                               *)
(***************************************************************************)
EXTENDS Middleware, TLAPS

(***************************************************************************)
(* The windows of the breaker and of the shedder keep their types.         *)
(***************************************************************************)
Windows(size, B) == [buckets : [0 .. size - 1 -> B], offset : 0 .. size - 1, lastTime : Nat]

(* A new window has its type. *)
LEMMA NewWindowType ==
    ASSUME NEW size \in Nat \ {0}, NEW B, NEW zero \in B, NEW t \in Nat
    PROVE  NewWindow(size, zero, t) \in Windows(size, B)
BY DEF NewWindow, Windows

(* advance keeps the type of a window. *)
LEMMA AdvanceType ==
    ASSUME NEW size \in Nat \ {0}, NEW B, NEW zero \in B, NEW interval \in Nat \ {0},
           NEW t \in Nat, NEW w \in Windows(size, B)
    PROVE  Advance(w, t, size, interval, zero) \in Windows(size, B)
<1> DEFINE d == (t - w.lastTime) \div interval
           elapsed == Min({d, size})
           cleared == {(w.offset + k) % size : k \in 1 .. elapsed}
           b == [i \in 0 .. size - 1 |-> IF i \in cleared THEN zero ELSE w.buckets[i]]
           o == (w.offset + elapsed) % size
<1>1. w.buckets \in [0 .. size - 1 -> B] /\ w.offset \in 0 .. size - 1 /\ w.lastTime \in Nat
  BY Zenon DEF Windows
<1>2. d \in Int BY <1>1
<1>3. elapsed \in Int
  <2>1. \E x \in {d, size} : \A y \in {d, size} : x <= y BY <1>2
  <2> QED BY <1>2, <2>1 DEF Min
<1> HIDE DEF elapsed
<1>4. o \in 0 .. size - 1 BY <1>1, <1>3
<1> HIDE DEF cleared, o
<1>5. b \in [0 .. size - 1 -> B] BY Zenon, <1>1
<1> HIDE DEF b
<1>6. [buckets |-> b, offset |-> o, lastTime |-> t] \in Windows(size, B) BY Zenon, <1>4, <1>5 DEF Windows
<1>7. Advance(w, t, size, interval, zero)
        = IF elapsed = 0 THEN w ELSE [buckets |-> b, offset |-> o, lastTime |-> t]
  BY Zenon DEF Advance, elapsed, cleared, b, o
<1> QED BY Zenon, <1>6, <1>7

(* Adding to the current bucket keeps the type of a window. *)
LEMMA BumpType ==
    ASSUME NEW size \in Nat \ {0}, NEW B, NEW w \in Windows(size, B), NEW x \in B
    PROVE  [w EXCEPT !.buckets[w.offset] = x] \in Windows(size, B)
BY Zenon DEF Windows
-----------------------------------------------------------------------------
(***************************************************************************)
(* Where a request is, by itself: what has been read at the guard it is    *)
(* at, and whether the shedder has let it in.                              *)
(***************************************************************************)
Row(p, l, st, sr) ==
    /\ p \in 0 .. Len(chain) + 1 /\ l \in Locations /\ st \in Int /\ sr \in 0 .. now
    /\ l = "idle" => p = 0
    /\ p \in 1 .. Len(chain) /\ chain[p] = "rate" /\ l \in {"eval", "local"} => st \in 0 .. now
    /\ p \in 1 .. Len(chain) /\ chain[p] = "shedding" /\ l \in {"passed", "timed"} => st \in Nat

Placed ==
    /\ now \in Times /\ chain \in DOMAIN Limits
    /\ pos \in [Requests -> Int] /\ pc \in [Requests -> Locations]
    /\ stamp \in [Requests -> Int] /\ start \in [Requests -> Times]
    /\ \A q \in Requests : Row(pos[q], pc[q], stamp[q], start[q])

Moves(q, p, l, st, sr) ==
    /\ chain' = chain /\ now' = now
    /\ pos' = [pos EXCEPT ![q] = p] /\ pc' = [pc EXCEPT ![q] = l]
    /\ stamp' = [stamp EXCEPT ![q] = st] /\ start' = [start EXCEPT ![q] = sr]

Before(p) == \E i \in 1 .. Len(chain) : chain[i] = "shedding" /\ i < p
InsideAt(p, l) ==
    \E i \in 1 .. Len(chain) : chain[i] = "shedding" /\ (p > i \/ (p = i /\ l = "leave"))

InsideSet == {q \in Requests : Inside(q)}
Tallies == flying \in Int /\ panics \in Nat

(* A step lets nobody in or out, one in, or one out, and flying follows,   *)
(* but for the panics.                                                     *)
Tallied ==
    /\ Tallies'
    /\ \/ InsideSet' = InsideSet /\ flying' - panics' = flying - panics
       \/ \E q \in Requests \ InsideSet :
             InsideSet' = InsideSet \cup {q} /\ flying' - panics' = (flying - panics) + 1
       \/ \E q \in InsideSet :
             InsideSet' = InsideSet \ {q} /\ flying' - panics' = (flying - panics) - 1

(* A chain is a sequence of guards with one shedder at most. *)
LEMMA ChainType ==
    ASSUME chain \in DOMAIN Limits
    PROVE  /\ chain \in Seq(Guards) /\ Len(chain) \in Nat
           /\ \A i \in 1 .. Len(chain) : chain[i] \in Guards
           /\ \A i, j \in 1 .. Len(chain) : chain[i] = "shedding" /\ chain[j] = "shedding" => i = j
BY MiddlewareConstants DEF MiddlewareConstants, Guards

(* Who is inside the shedder, by the place in the chain. *)
LEMMA InsideFacts ==
    ASSUME chain \in DOMAIN Limits, NEW p \in Int
    PROVE  /\ \A l : l # "leave" => (InsideAt(p, l) <=> Before(p))
           /\ InsideAt(p - 1, "leave") <=> Before(p)
           /\ p \in 1 .. Len(chain) /\ chain[p] = "shedding" =>
                 Before(p + 1) /\ ~Before(p) /\ InsideAt(p, "leave")
           /\ ~(p \in 1 .. Len(chain) /\ chain[p] = "shedding") =>
                 /\ Before(p + 1) <=> Before(p)
                 /\ InsideAt(p, "leave") <=> Before(p)
           /\ ~Before(0) /\ ~Before(1)
<1>1. Len(chain) \in Nat
      /\ \A i, j \in 1 .. Len(chain) : chain[i] = "shedding" /\ chain[j] = "shedding" => i = j
  BY Zenon, ChainType
<1>2. \A l : l # "leave" => (InsideAt(p, l) <=> Before(p)) BY Zenon, <1>1 DEF InsideAt, Before
<1>3. InsideAt(p - 1, "leave") <=> Before(p) BY <1>1 DEF InsideAt, Before
<1>4. ASSUME p \in 1 .. Len(chain), chain[p] = "shedding"
      PROVE  Before(p + 1) /\ ~Before(p) /\ InsideAt(p, "leave")
  BY <1>1, <1>4 DEF InsideAt, Before
<1>5. ASSUME ~(p \in 1 .. Len(chain) /\ chain[p] = "shedding")
      PROVE  (Before(p + 1) <=> Before(p)) /\ (InsideAt(p, "leave") <=> Before(p))
  BY <1>1, <1>5 DEF InsideAt, Before
<1>6. ~Before(0) /\ ~Before(1) BY <1>1 DEF Before
<1> QED BY Zenon, <1>2, <1>3, <1>4, <1>5, <1>6

(* Elsewhere than at the shedder, inside means past it. *)
LEMMA InsideOrBefore ==
    ASSUME chain \in DOMAIN Limits, NEW p \in Int, NEW l,
           ~(p \in 1 .. Len(chain) /\ chain[p] = "shedding" /\ l = "leave")
    PROVE  InsideAt(p, l) <=> Before(p)
<1>1. CASE l # "leave" BY Zenon, <1>1, InsideFacts
<1>2. CASE l = "leave"
  <2>1. InsideAt(p, "leave") <=> Before(p) BY Zenon, <1>2, InsideFacts
  <2> QED BY Zenon, <1>2, <2>1
<1> QED BY Zenon, <1>1, <1>2

(* A request that moves to a proper place leaves the others at theirs. *)
LEMMA PlacedMoves ==
    ASSUME Placed, NEW q \in Requests, NEW p, NEW l, NEW st, NEW sr,
           Moves(q, p, l, st, sr), Row(p, l, st, sr)
    PROVE  Placed'
<1>1. now \in Times /\ chain' = chain /\ now' = now /\ chain \in DOMAIN Limits BY Zenon DEF Placed, Moves
<1>2. p \in Int /\ l \in Locations /\ st \in Int /\ sr \in Times
  BY <1>1, ClockConstants, ChainType DEF ClockConstants, Row, Times
<1>3. /\ pos' \in [Requests -> Int] /\ pc' \in [Requests -> Locations]
      /\ stamp' \in [Requests -> Int] /\ start' \in [Requests -> Times]
  BY Zenon, <1>2 DEF Placed, Moves
<1>4. pos'[q] = p /\ pc'[q] = l /\ stamp'[q] = st /\ start'[q] = sr BY Zenon DEF Placed, Moves
<1>5. \A r \in Requests \ {q} : pos'[r] = pos[r] /\ pc'[r] = pc[r] /\ stamp'[r] = stamp[r] /\ start'[r] = start[r]
  BY Zenon DEF Placed, Moves
<1>6. ASSUME NEW r \in Requests PROVE Row(pos'[r], pc'[r], stamp'[r], start'[r])
  BY Zenon, <1>4, <1>5 DEF Placed
<1>7. \A r \in Requests : Row(pos[r], pc[r], stamp[r], start[r])'
  BY Zenon, <1>1, <1>6 DEF Row
<1> QED BY Zenon, <1>1, <1>3, <1>7 DEF Placed

(* Two sets that differ in q at most. *)
LEMMA SetMoves ==
    ASSUME NEW S, NEW T, NEW q, \A r : r # q => (r \in T <=> r \in S)
    PROVE  /\ (q \in T <=> q \in S) => T = S
           /\ q \in T /\ q \notin S => T = S \cup {q}
           /\ q \notin T /\ q \in S => T = S \ {q}
OBVIOUS

(* The requests that the shedder has let in, when q moves.                 *)
LEMMA InsideMoves ==
    ASSUME Placed, NEW q \in Requests, NEW p, NEW l, NEW st, NEW sr, Moves(q, p, l, st, sr)
    PROVE  /\ (InsideAt(p, l) <=> InsideAt(pos[q], pc[q])) => InsideSet' = InsideSet
           /\ InsideAt(p, l) /\ ~InsideAt(pos[q], pc[q]) =>
                 q \in Requests \ InsideSet /\ InsideSet' = InsideSet \cup {q}
           /\ ~InsideAt(p, l) /\ InsideAt(pos[q], pc[q]) =>
                 q \in InsideSet /\ InsideSet' = InsideSet \ {q}
<1>1. \A r \in Requests : r \in InsideSet <=> InsideAt(pos[r], pc[r]) BY Zenon DEF InsideSet, Inside, InsideAt
<1>2. chain' = chain BY Zenon DEF Moves
<1>3. pos'[q] = p /\ pc'[q] = l BY Zenon DEF Placed, Moves
<1>4. \A r \in Requests \ {q} : pos'[r] = pos[r] /\ pc'[r] = pc[r] BY Zenon DEF Placed, Moves
<1>5. \A r \in Requests : r \in InsideSet' <=> InsideAt(pos'[r], pc'[r])
  BY Zenon, <1>2 DEF InsideSet, Inside, InsideAt
<1>6. q \in InsideSet <=> InsideAt(pos[q], pc[q]) BY Zenon, <1>1
<1>7. q \in InsideSet' <=> InsideAt(p, l) BY Zenon, <1>3, <1>5
<1>8. \A r \in Requests \ {q} : r \in InsideSet' <=> r \in InsideSet BY Zenon, <1>1, <1>4, <1>5
<1>9. \A r : (r \in InsideSet => r \in Requests) /\ (r \in InsideSet' => r \in Requests)
  BY Zenon DEF InsideSet
<1>10. \A r : r # q => (r \in InsideSet' <=> r \in InsideSet) BY Zenon, <1>8, <1>9
<1>11. (q \in InsideSet' <=> q \in InsideSet) => InsideSet' = InsideSet BY Zenon, <1>10, SetMoves
<1>12. q \in InsideSet' /\ q \notin InsideSet => InsideSet' = InsideSet \cup {q} BY Zenon, <1>10, SetMoves
<1>13. q \notin InsideSet' /\ q \in InsideSet => InsideSet' = InsideSet \ {q} BY Zenon, <1>10, SetMoves
<1> QED BY Zenon, <1>6, <1>7, <1>11, <1>12, <1>13

(* A move that takes q neither past the shedder nor out of it ...          *)
LEMMA LevelMove ==
    ASSUME Placed, Tallies, NEW q \in Requests, NEW p, NEW l, NEW st, NEW sr,
           Moves(q, p, l, st, sr), Row(p, l, st, sr), flying' = flying, panics' = panics,
           InsideAt(p, l) <=> InsideAt(pos[q], pc[q])
    PROVE  Placed' /\ Tallied
<1>1. Placed' BY Zenon, PlacedMoves
<1>2. InsideSet' = InsideSet BY Zenon, InsideMoves
<1> QED BY Zenon, <1>1, <1>2 DEF Tallied, Tallies

(* ... one that takes it in, which is counted ...                          *)
LEMMA MoveIn ==
    ASSUME Placed, Tallies, NEW q \in Requests, NEW p, NEW l, NEW st, NEW sr,
           Moves(q, p, l, st, sr), Row(p, l, st, sr), flying' = flying + 1, panics' = panics,
           InsideAt(p, l), ~InsideAt(pos[q], pc[q])
    PROVE  Placed' /\ Tallied
<1>1. Placed' BY Zenon, PlacedMoves
<1>2. q \in Requests \ InsideSet /\ InsideSet' = InsideSet \cup {q} BY Zenon, InsideMoves
<1>3. Tallies' /\ flying' - panics' = (flying - panics) + 1 BY DEF Tallies
<1> QED BY Zenon, <1>1, <1>2, <1>3 DEF Tallied

(* ... and one that takes it out, counted out or panicking.                *)
LEMMA MoveOut ==
    ASSUME Placed, Tallies, NEW q \in Requests, NEW p, NEW l, NEW st, NEW sr,
           Moves(q, p, l, st, sr), Row(p, l, st, sr),
           \/ flying' = flying - 1 /\ panics' = panics
           \/ flying' = flying /\ panics' = panics + 1,
           ~InsideAt(p, l), InsideAt(pos[q], pc[q])
    PROVE  Placed' /\ Tallied
<1>1. Placed' BY Zenon, PlacedMoves
<1>2. q \in InsideSet /\ InsideSet' = InsideSet \ {q} BY Zenon, InsideMoves
<1>3. Tallies' /\ flying' - panics' = (flying - panics) - 1 BY DEF Tallies
<1> QED BY Zenon, <1>1, <1>2, <1>3 DEF Tallied

(* What is known of a request ...                                          *)
LEMMA RowOf ==
    ASSUME Placed, NEW q \in Requests
    PROVE  /\ Row(pos[q], pc[q], stamp[q], start[q])
           /\ pos[q] \in Int /\ pos[q] \in 0 .. Len(chain) + 1 /\ Len(chain) \in Nat /\ now \in Nat
           /\ stamp[q] \in Int /\ start[q] \in 0 .. now
           /\ chain \in DOMAIN Limits
BY ChainType DEF Placed, Row, Times

(* ... and of one at a guard.                                              *)
LEMMA AtFacts ==
    ASSUME Placed, NEW q \in Requests, NEW g, NEW l, At(q, g, l)
    PROVE  /\ pos[q] \in 1 .. Len(chain) /\ pos[q] >= 1 /\ chain[pos[q]] = g /\ pc[q] = l
           /\ g = "rate" /\ l \in {"eval", "local"} => stamp[q] \in 0 .. now
           /\ g = "shedding" /\ l \in {"passed", "timed"} => stamp[q] \in Nat
<1>1. pos[q] \in 1 .. Len(chain) /\ chain[pos[q]] = g /\ pc[q] = l BY Zenon DEF At
<1>2. Row(pos[q], pc[q], stamp[q], start[q]) /\ pos[q] \in Int /\ Len(chain) \in Nat BY Zenon, RowOf
<1> QED BY <1>1, <1>2 DEF Row

(* The steps within a guard before the request is let on or sent back, by  *)
(* the places where they start and end and the time they know.             *)
Hop(g, l, m, st) ==
    /\ l # "leave" /\ m \in Locations \ {"idle", "leave"} /\ st \in Int
    /\ g = "rate" /\ m \in {"eval", "local"} => st \in 0 .. now
    /\ g = "shedding" /\ m \in {"passed", "timed"} => st \in Nat

(* A step within a guard lets nobody in or out of the shedder. *)
LEMMA HopKeeps ==
    ASSUME Placed, Tallies, NEW q \in Requests, NEW g, NEW l, NEW m, NEW st, At(q, g, l),
           Moves(q, pos[q], m, st, start[q]), flying' = flying, panics' = panics, Hop(g, l, m, st)
    PROVE  Placed' /\ Tallied
<1>1. /\ pos[q] \in 1 .. Len(chain) /\ chain[pos[q]] = g /\ pc[q] = l BY Zenon, AtFacts
<1>2. /\ pos[q] \in Int /\ pos[q] \in 0 .. Len(chain) + 1 /\ start[q] \in 0 .. now
      /\ chain \in DOMAIN Limits
  BY Zenon, RowOf
<1>3. Row(pos[q], m, st, start[q]) BY Zenon, <1>1, <1>2 DEF Hop, Row
<1>4. l # "leave" /\ m # "leave" BY Zenon DEF Hop
<1>5. InsideAt(pos[q], m) <=> InsideAt(pos[q], pc[q]) BY Zenon, <1>1, <1>2, <1>4, InsideFacts
<1> QED BY Zenon, <1>3, <1>5, LevelMove

(* The same for a step that only goes on. *)
LEMMA GotoKeeps ==
    ASSUME Placed, Tallies, NEW q \in Requests, NEW g, NEW l, NEW m, At(q, g, l), Goto(q, m),
           flying' = flying, Hop(g, l, m, stamp[q])
    PROVE  Placed' /\ Tallied
<1>1. Moves(q, pos[q], m, stamp[q], start[q]) BY Zenon DEF Goto, Moves, Placed
<1>2. panics' = panics BY Zenon DEF Goto
<1> QED BY Zenon, <1>1, <1>2, HopKeeps

(* A guard other than the shedder lets a request on.                       *)
LEMMA ForwardKeeps ==
    ASSUME Placed, Tallies, NEW q \in Requests, NEW g, NEW l, At(q, g, l), g # "shedding",
           Forward(q), flying' = flying
    PROVE  Placed' /\ Tallied
<1>1. Moves(q, pos[q] + 1, "enter", stamp[q], start[q]) BY Zenon DEF Forward, Moves, Placed
<1>2. panics' = panics BY Zenon DEF Forward
<1>3. pos[q] \in 1 .. Len(chain) /\ chain[pos[q]] = g BY Zenon, AtFacts
<1>4. /\ pos[q] \in Int /\ Len(chain) \in Nat /\ stamp[q] \in Int /\ start[q] \in 0 .. now
      /\ chain \in DOMAIN Limits
  BY Zenon, RowOf
<1>5. pos[q] + 1 \in Int /\ pos[q] + 1 \in 0 .. Len(chain) + 1 BY <1>3, <1>4
<1>6. "enter" \in Locations /\ "enter" \notin {"idle", "eval", "local", "passed", "timed", "leave"}
  BY Zenon DEF Locations
<1>7. Row(pos[q] + 1, "enter", stamp[q], start[q]) BY Zenon, <1>4, <1>5, <1>6 DEF Row
<1>8. InsideAt(pos[q] + 1, "enter") <=> Before(pos[q] + 1) BY Zenon, <1>4, <1>5, <1>6, InsideFacts
<1>9. Before(pos[q] + 1) <=> Before(pos[q]) BY Zenon, <1>3, <1>4, InsideFacts
<1>10. InsideAt(pos[q], pc[q]) <=> Before(pos[q]) BY Zenon, <1>3, <1>4, InsideOrBefore
<1> QED BY Zenon, <1>1, <1>2, <1>7, <1>8, <1>9, <1>10, LevelMove

(* What Back does to a request, and where that takes it.                   *)
LEMMA BackMoves ==
    ASSUME Placed, NEW q \in Requests, NEW s, Back(q, s), pos[q] >= 1
    PROVE  \E l, st, sr : /\ Moves(q, pos[q] - 1, l, st, sr) /\ Row(pos[q] - 1, l, st, sr)
                          /\ InsideAt(pos[q] - 1, l) <=> Before(pos[q])
<1>1. /\ pos[q] \in Int /\ pos[q] \in 0 .. Len(chain) + 1 /\ Len(chain) \in Nat
      /\ stamp[q] \in Int /\ start[q] \in 0 .. now /\ now \in Nat /\ chain \in DOMAIN Limits
  BY Zenon, RowOf
<1>2. pos[q] - 1 \in Int /\ pos[q] - 1 \in 0 .. Len(chain) + 1 BY <1>1
<1>3. CASE pos[q] = 1
  <2>1. Moves(q, pos[q] - 1, "idle", 0, 0) BY Zenon, <1>3 DEF Back, Moves, Placed
  <2>2. Row(pos[q] - 1, "idle", 0, 0) BY <1>1, <1>2, <1>3 DEF Row, Locations
  <2>3. pos[q] - 1 = 0 /\ 0 \in Int /\ "idle" # "leave" BY <1>3
  <2>4. ~Before(0) /\ ~Before(1) BY Zenon, <1>1, InsideFacts
  <2>5. InsideAt(0, "idle") <=> Before(0) BY Zenon, <1>1, <2>3, InsideFacts
  <2> QED BY Zenon, <1>3, <2>1, <2>2, <2>3, <2>4, <2>5
<1>4. CASE pos[q] # 1
  <2>1. Moves(q, pos[q] - 1, "leave", stamp[q], start[q]) BY Zenon, <1>4 DEF Back, Moves, Placed
  <2>2. "leave" \in Locations /\ "leave" \notin {"idle", "eval", "local", "passed", "timed"} BY Zenon DEF Locations
  <2>3. Row(pos[q] - 1, "leave", stamp[q], start[q]) BY Zenon, <1>1, <1>2, <2>2 DEF Row
  <2>4. InsideAt(pos[q] - 1, "leave") <=> Before(pos[q]) BY Zenon, <1>1, InsideFacts
  <2> QED BY Zenon, <2>1, <2>3, <2>4
<1> QED BY Zenon, <1>3, <1>4

(* A guard or the handler returns, and the request was not inside here.    *)
LEMMA BackKeeps ==
    ASSUME Placed, Tallies, NEW q \in Requests, NEW s, Back(q, s), pos[q] >= 1, flying' = flying,
           ~(pos[q] \in 1 .. Len(chain) /\ chain[pos[q]] = "shedding" /\ pc[q] = "leave")
    PROVE  Placed' /\ Tallied
<1>1. pos[q] \in Int /\ chain \in DOMAIN Limits BY Zenon, RowOf
<1>2. InsideAt(pos[q], pc[q]) <=> Before(pos[q]) BY Zenon, <1>1, InsideOrBefore
<1>3. panics' = panics BY Zenon DEF Back
<1> QED BY Zenon, <1>2, <1>3, BackMoves, LevelMove

(* A guard other than the shedder lets a request on or sends it back.      *)
LEMMA GuardEnds ==
    ASSUME Placed, Tallies, NEW q \in Requests, NEW g, NEW l, NEW s, At(q, g, l), g # "shedding",
           Forward(q) \/ Back(q, s), flying' = flying
    PROVE  Placed' /\ Tallied
<1>1. pos[q] >= 1 /\ chain[pos[q]] = g BY Zenon, AtFacts
<1> QED BY Zenon, <1>1, ForwardKeeps, BackKeeps

(* Each guard keeps the places and the count of the requests inside.       *)
LEMMA HandlerKeeps ==
    ASSUME Placed, Tallies, NEW q \in Requests,
           Arrive(q) \/ HandlerReturns(q) \/ HandlerPanics(q)
    PROVE  Placed' /\ Tallied
<1>1. /\ pos[q] \in Int /\ Len(chain) \in Nat /\ now \in Nat
      /\ stamp[q] \in Int /\ start[q] \in 0 .. now /\ chain \in DOMAIN Limits
  BY Zenon, RowOf
<1>2. "idle" # "leave" /\ "enter" # "leave" /\ 0 \in Int /\ 1 \in Int OBVIOUS
<1>3. ~InsideAt(0, "idle") /\ ~InsideAt(1, "enter") BY Zenon, <1>1, <1>2, InsideFacts
<1>4. CASE Arrive(q)
  <2>1. Moves(q, 1, "enter", stamp[q], start[q]) BY Zenon, <1>4 DEF Arrive, Moves, Placed
  <2>2. flying' = flying /\ panics' = panics BY Zenon, <1>4 DEF Arrive, shedderVars
  <2>3. pc[q] = "idle" BY Zenon, <1>4 DEF Arrive
  <2>4. pos[q] = 0 BY Zenon, <2>3, RowOf DEF Row
  <2>5. Row(1, "enter", stamp[q], start[q]) BY <1>1 DEF Row, Locations
  <2> QED BY Zenon, <1>3, <2>1, <2>2, <2>3, <2>4, <2>5, LevelMove
<1>5. CASE HandlerReturns(q)
  <2>1. flying' = flying BY Zenon, <1>5 DEF HandlerReturns, shedderVars
  <2>2. PICK s \in {"ok", "error"} : Back(q, s) BY Zenon, <1>5 DEF HandlerReturns
  <2>3. pos[q] = Len(chain) + 1 BY Zenon, <1>5 DEF HandlerReturns, AtHandler
  <2>4. pos[q] >= 1 /\ ~(pos[q] \in 1 .. Len(chain)) BY <1>1, <2>3
  <2> QED BY Zenon, <2>1, <2>2, <2>4, BackKeeps
<1>6. CASE HandlerPanics(q)
  <2>1. Moves(q, 0, "idle", 0, 0) BY Zenon, <1>6 DEF HandlerPanics, Moves
  <2>2. flying' = flying BY Zenon, <1>6 DEF HandlerPanics, shedderVars
  <2>3. pos[q] = Len(chain) + 1 /\ pc[q] = "enter" BY Zenon, <1>6 DEF HandlerPanics, AtHandler
  <2>4. Row(0, "idle", 0, 0) BY <1>1 DEF Row, Locations
  <2>5. InsideAt(pos[q], pc[q]) <=> Before(pos[q]) BY Zenon, <1>1, <1>2, <2>3, InsideFacts
  <2>6. Before(pos[q]) <=> \E i \in 1 .. Len(chain) : chain[i] = "shedding" BY <1>1, <2>3 DEF Before
  <2>7. CASE Before(pos[q])
    <3>1. panics' = panics + 1 BY Zenon, <1>6, <2>6, <2>7 DEF HandlerPanics
    <3> QED BY Zenon, <1>3, <2>1, <2>2, <2>4, <2>5, <2>7, <3>1, MoveOut
  <2>8. CASE ~Before(pos[q])
    <3>1. panics' = panics BY Zenon, <1>6, <2>6, <2>8 DEF HandlerPanics
    <3> QED BY Zenon, <1>3, <2>1, <2>2, <2>4, <2>5, <2>8, <3>1, LevelMove
  <2> QED BY Zenon, <2>7, <2>8
<1> QED BY Zenon, <1>4, <1>5, <1>6

(* The steps of the period limiter let nobody in or out. *)
LEMMA PeriodGuardKeeps ==
    ASSUME Placed, Tallies, NEW q \in Requests,
           PeriodTake(q) \/ PeriodTakeFails(q) \/ PeriodLocal(q)
    PROVE  Placed' /\ Tallied
<1>1. flying' = flying BY Zenon DEF PeriodTake, PeriodTakeFails, PeriodLocal, shedderVars
<1>2. "period" # "shedding" BY Zenon
<1>3. CASE PeriodTake(q)
  <2>1. At(q, "period", "enter") /\ (Forward(q) \/ Back(q, "ok")) BY Zenon, <1>3 DEF PeriodTake, TooMany
  <2> QED BY Zenon, <1>1, <1>2, <2>1, GuardEnds
<1>4. CASE PeriodTakeFails(q)
  <2>1. At(q, "period", "enter") /\ Goto(q, "local") BY Zenon, <1>4 DEF PeriodTakeFails
  <2>2. stamp[q] \in Int BY Zenon, RowOf
  <2>3. Hop("period", "enter", "local", stamp[q]) BY Zenon, <2>2 DEF Hop, Locations
  <2> QED BY Zenon, <1>1, <2>1, <2>3, GotoKeeps
<1>5. CASE PeriodLocal(q)
  <2>1. At(q, "period", "local") /\ (Forward(q) \/ Back(q, "ok")) BY Zenon, <1>5 DEF PeriodLocal, TooMany
  <2> QED BY Zenon, <1>1, <1>2, <2>1, GuardEnds
<1> QED BY Zenon, <1>3, <1>4, <1>5

(* The steps of the token limiter let nobody in or out. *)
LEMMA RateGuardKeeps ==
    ASSUME Placed, Tallies, NEW q \in Requests,
           RateReadsClock(q) \/ RateReserve(q) \/ RateReserveFails(q) \/ RateLocal(q)
    PROVE  Placed' /\ Tallied
<1>1. flying' = flying BY Zenon DEF RateReadsClock, RateReserve, RateReserveFails, RateLocal, shedderVars
<1>2. "rate" # "shedding" BY Zenon
<1>3. CASE RateReadsClock(q)
  <2>1. At(q, "rate", "enter") BY Zenon, <1>3 DEF RateReadsClock
  <2>2. Moves(q, pos[q], "eval", now, start[q]) BY Zenon, <1>3 DEF RateReadsClock, Moves, Placed
  <2>3. panics' = panics BY Zenon, <1>3 DEF RateReadsClock
  <2>4. now \in Nat BY Zenon, RowOf
  <2>5. Hop("rate", "enter", "eval", now) BY <2>4 DEF Hop, Locations
  <2> QED BY Zenon, <1>1, <2>1, <2>2, <2>3, <2>5, HopKeeps
<1>4. CASE RateReserve(q)
  <2>1. At(q, "rate", "eval") /\ (Forward(q) \/ Back(q, "ok")) BY Zenon, <1>4 DEF RateReserve, TooMany
  <2> QED BY Zenon, <1>1, <1>2, <2>1, GuardEnds
<1>5. CASE RateReserveFails(q)
  <2>1. At(q, "rate", "eval") /\ Goto(q, "local") BY Zenon, <1>5 DEF RateReserveFails
  <2>2. stamp[q] \in Int /\ stamp[q] \in 0 .. now BY Zenon, <2>1, RowOf, AtFacts
  <2>3. Hop("rate", "eval", "local", stamp[q]) BY Zenon, <2>2 DEF Hop, Locations
  <2> QED BY Zenon, <1>1, <2>1, <2>3, GotoKeeps
<1>6. CASE RateLocal(q)
  <2>1. At(q, "rate", "local") /\ (Forward(q) \/ Back(q, "ok")) BY Zenon, <1>6 DEF RateLocal, TooMany
  <2> QED BY Zenon, <1>1, <1>2, <2>1, GuardEnds
<1> QED BY Zenon, <1>3, <1>4, <1>5, <1>6

(* The steps of the breaker let nobody in or out. *)
LEMMA BreakerGuardKeeps ==
    ASSUME Placed, Tallies, NEW q \in Requests,
           BreakerLookup(q) \/ BreakerCreate(q) \/ BreakerAllow(q) \/ BreakerMarks(q)
    PROVE  Placed' /\ Tallied
<1>1. flying' = flying BY Zenon DEF BreakerLookup, BreakerCreate, BreakerAllow, BreakerMarks, shedderVars
<1>2. "breaker" # "shedding" BY Zenon
<1>3. stamp[q] \in Int BY Zenon, RowOf
<1>4. CASE BreakerLookup(q)
  <2>1. At(q, "breaker", "enter") /\ (Goto(q, "allow") \/ Goto(q, "create")) BY Zenon, <1>4 DEF BreakerLookup
  <2>2. Hop("breaker", "enter", "allow", stamp[q]) /\ Hop("breaker", "enter", "create", stamp[q])
    BY Zenon, <1>3 DEF Hop, Locations
  <2> QED BY Zenon, <1>1, <2>1, <2>2, GotoKeeps
<1>5. CASE BreakerCreate(q)
  <2>1. At(q, "breaker", "create") /\ Goto(q, "allow") BY Zenon, <1>5 DEF BreakerCreate
  <2>2. Hop("breaker", "create", "allow", stamp[q]) BY Zenon, <1>3 DEF Hop, Locations
  <2> QED BY Zenon, <1>1, <2>1, <2>2, GotoKeeps
<1>6. CASE BreakerAllow(q)
  <2>1. At(q, "breaker", "allow") /\ (Forward(q) \/ Back(q, "error"))
    BY Zenon, <1>6 DEF BreakerAllow, Unavailable
  <2> QED BY Zenon, <1>1, <1>2, <2>1, GuardEnds
<1>7. CASE BreakerMarks(q)
  <2>1. At(q, "breaker", "leave") /\ Back(q, status[q]) BY Zenon, <1>7 DEF BreakerMarks
  <2> QED BY Zenon, <1>1, <1>2, <2>1, GuardEnds
<1> QED BY Zenon, <1>4, <1>5, <1>6, <1>7

(* The guard of the shedder: Allow counts a request in, Pass and Fail      *)
(* count it out, and no other step does.                                   *)
LEMMA ShedderWaitsKeeps ==
    ASSUME Placed, Tallies, NEW q \in Requests,
           \/ ShedderChecks(q) \/ ShedderClears(q) \/ ShedderReadsFlying(q) \/ ShedderDecides(q)
           \/ ShedderNotesTime(q) \/ ShedderAddsPass(q)
    PROVE  Placed' /\ Tallied
<1>1. flying' = flying
  BY Zenon DEF ShedderChecks, ShedderClears, ShedderReadsFlying, ShedderDecides, ShedderNotesTime,
         ShedderAddsPass, setDroppedRecently, weigh, setDropTime, addPass, shedderVars
<1>2. stamp[q] \in Int BY Zenon, RowOf
<1>3. CASE ShedderChecks(q)
  <2>1. At(q, "shedding", "enter") BY Zenon, <1>3 DEF ShedderChecks
  <2>2. PICK l \in {"decide", "clear", "take"} : pc' = [pc EXCEPT ![q] = l] BY Zenon, <1>3 DEF ShedderChecks
  <2>3. UNCHANGED <<chain, now, pos, stamp, start, panics>> BY Zenon, <1>3 DEF ShedderChecks
  <2>4. Moves(q, pos[q], l, stamp[q], start[q]) BY Zenon, <2>2, <2>3 DEF Moves, Placed
  <2>5. Hop("shedding", "enter", l, stamp[q]) BY Zenon, <1>2 DEF Hop, Locations
  <2> QED BY Zenon, <1>1, <2>1, <2>3, <2>4, <2>5, HopKeeps
<1>4. CASE ShedderClears(q)
  <2>1. At(q, "shedding", "clear") /\ Goto(q, "take") BY Zenon, <1>4 DEF ShedderClears
  <2>2. Hop("shedding", "clear", "take", stamp[q]) BY Zenon, <1>2 DEF Hop, Locations
  <2> QED BY Zenon, <1>1, <2>1, <2>2, GotoKeeps
<1>5. CASE ShedderReadsFlying(q)
  <2>1. At(q, "shedding", "decide") BY Zenon, <1>5 DEF ShedderReadsFlying
  <2>2. Moves(q, pos[q], "weigh", flying, start[q]) BY Zenon, <1>5 DEF ShedderReadsFlying, Moves, Placed
  <2>3. panics' = panics BY Zenon, <1>5 DEF ShedderReadsFlying
  <2>4. Hop("shedding", "decide", "weigh", flying) BY Zenon DEF Hop, Locations, Tallies
  <2> QED BY Zenon, <1>1, <2>1, <2>2, <2>3, <2>4, HopKeeps
<1>6. CASE ShedderDecides(q)
  <2>1. At(q, "shedding", "weigh") /\ (Goto(q, "drop") \/ Goto(q, "take")) BY Zenon, <1>6 DEF ShedderDecides
  <2>2. Hop("shedding", "weigh", "drop", stamp[q]) /\ Hop("shedding", "weigh", "take", stamp[q])
    BY Zenon, <1>2 DEF Hop, Locations
  <2> QED BY Zenon, <1>1, <2>1, <2>2, GotoKeeps
<1>7. CASE ShedderNotesTime(q)
  <2>1. At(q, "shedding", "drop") /\ Goto(q, "dropped") BY Zenon, <1>7 DEF ShedderNotesTime
  <2>2. Hop("shedding", "drop", "dropped", stamp[q]) BY Zenon, <1>2 DEF Hop, Locations
  <2> QED BY Zenon, <1>1, <2>1, <2>2, GotoKeeps
<1>8. CASE ShedderAddsPass(q)
  <2>1. At(q, "shedding", "passed") /\ Goto(q, "timed") BY Zenon, <1>8 DEF ShedderAddsPass
  <2>2. stamp[q] \in Nat BY Zenon, <2>1, AtFacts
  <2>3. Hop("shedding", "passed", "timed", stamp[q]) BY <2>2 DEF Hop, Locations
  <2> QED BY Zenon, <1>1, <2>1, <2>3, GotoKeeps
<1> QED BY Zenon, <1>3, <1>4, <1>5, <1>6, <1>7, <1>8

(* The shedder lets one in or out where it counts one. *)
LEMMA ShedderEndsKeeps ==
    ASSUME Placed, Tallies, NEW q \in Requests,
           ShedderDrops(q) \/ ShedderAllows(q) \/ ShedderLands(q) \/ ShedderAddsRt(q)
    PROVE  Placed' /\ Tallied
<1>1. /\ pos[q] \in Int /\ pos[q] + 1 \in Int /\ Len(chain) \in Nat /\ now \in Nat
      /\ start[q] \in 0 .. now /\ chain \in DOMAIN Limits
  <2>1. pos[q] \in Int /\ Len(chain) \in Nat /\ now \in Nat /\ start[q] \in 0 .. now /\ chain \in DOMAIN Limits
    BY Zenon, RowOf
  <2> QED BY <2>1
<1>2. /\ "enter" # "leave" /\ "take" # "leave" /\ "dropped" # "leave"
      /\ "passed" # "leave" /\ "timed" # "leave"
  BY Zenon
<1>3. CASE ShedderDrops(q)
  <2>1. At(q, "shedding", "dropped") /\ Back(q, "error") /\ flying' = flying
    BY Zenon, <1>3 DEF ShedderDrops, Unavailable, setDroppedRecently
  <2>2. pos[q] >= 1 /\ pc[q] = "dropped" BY Zenon, <2>1, AtFacts
  <2> QED BY Zenon, <1>2, <2>1, <2>2, BackKeeps
<1>4. CASE ShedderAllows(q)
  <2>1. At(q, "shedding", "take") /\ flying' = flying + 1 /\ panics' = panics
    BY Zenon, <1>4 DEF ShedderAllows, takeOff
  <2>2. Moves(q, pos[q] + 1, "enter", 0, now) BY Zenon, <1>4 DEF ShedderAllows, Moves
  <2>3. pos[q] \in 1 .. Len(chain) /\ chain[pos[q]] = "shedding" /\ pc[q] = "take" BY Zenon, <2>1, AtFacts
  <2>4. Row(pos[q] + 1, "enter", 0, now) BY <1>1, <2>3 DEF Row, Locations
  <2>5. Before(pos[q] + 1) /\ ~Before(pos[q]) BY Zenon, <1>1, <2>3, InsideFacts
  <2>6. InsideAt(pos[q] + 1, "enter") BY Zenon, <1>1, <1>2, <2>5, InsideFacts
  <2>7. ~InsideAt(pos[q], pc[q]) BY Zenon, <1>1, <1>2, <2>3, <2>5, InsideFacts
  <2> QED BY Zenon, <2>1, <2>2, <2>4, <2>6, <2>7, MoveIn
<1>5. CASE ShedderLands(q)
  <2>1. At(q, "shedding", "leave") /\ flying' = flying - 1 BY Zenon, <1>5 DEF ShedderLands, land
  <2>2. pos[q] \in 1 .. Len(chain) /\ pos[q] >= 1 /\ chain[pos[q]] = "shedding" /\ pc[q] = "leave"
    BY Zenon, <2>1, AtFacts
  <2>3. ~Before(pos[q]) /\ InsideAt(pos[q], pc[q])
    <3>1. ~Before(pos[q]) /\ InsideAt(pos[q], "leave") BY Zenon, <1>1, <2>2, InsideFacts
    <3> QED BY Zenon, <2>2, <3>1
  <2>4. CASE status[q] = "ok"
    <3>1. /\ stamp' = [stamp EXCEPT ![q] = now - start[q]] /\ pc' = [pc EXCEPT ![q] = "passed"]
          /\ UNCHANGED <<chain, now, pos, start, panics>>
      BY Zenon, <1>5, <2>4 DEF ShedderLands
    <3>2. Moves(q, pos[q], "passed", now - start[q], start[q]) BY Zenon, <3>1 DEF Moves, Placed
    <3>3. now - start[q] \in Nat BY <1>1
    <3>4. Row(pos[q], "passed", now - start[q], start[q]) BY <1>1, <2>2, <3>3 DEF Row, Locations
    <3>5. ~InsideAt(pos[q], "passed") BY Zenon, <1>1, <1>2, <2>3, InsideFacts
    <3> QED BY Zenon, <2>1, <2>3, <3>1, <3>2, <3>4, <3>5, MoveOut
  <2>5. CASE status[q] # "ok"
    <3>1. Back(q, status[q]) BY Zenon, <1>5, <2>5 DEF ShedderLands
    <3>2. panics' = panics BY Zenon, <3>1 DEF Back
    <3> QED BY Zenon, <2>1, <2>2, <2>3, <3>1, <3>2, BackMoves, MoveOut
  <2> QED BY Zenon, <2>4, <2>5
<1>6. CASE ShedderAddsRt(q)
  <2>1. At(q, "shedding", "timed") /\ Back(q, status[q]) /\ flying' = flying
    BY Zenon, <1>6 DEF ShedderAddsRt, addRt
  <2>2. pos[q] >= 1 /\ pc[q] = "timed" BY Zenon, <2>1, AtFacts
  <2> QED BY Zenon, <1>2, <2>1, <2>2, BackKeeps
<1> QED BY Zenon, <1>3, <1>4, <1>5, <1>6

(* Time and the clean-up of the limiter leave the requests alone.          *)
LEMMA WorldKeeps ==
    ASSUME Placed, Tallies, TimePasses \/ (\E r \in Replicas : PeriodCleanup(r)) \/ UNCHANGED vars
    PROVE  Placed' /\ Tallied
<1>1. UNCHANGED <<chain, pos, pc, stamp, start, panics, flying>>
  BY Zenon DEF TimePasses, PeriodCleanup, requestVars, shedderVars, vars
<1>2. InsideSet' = InsideSet BY Zenon, <1>1 DEF InsideSet, Inside
<1>3. Tallied BY Zenon, <1>1, <1>2 DEF Tallied, Tallies
<1>4. now' = now \/ (now < MaxNow /\ now' = now + 1)
  BY Zenon DEF TimePasses, Tick, PeriodCleanup, vars
<1>5. now' \in Times /\ now <= now' /\ now \in Int /\ now' \in Int
  BY <1>4, ClockConstants DEF ClockConstants, Placed, Times
<1>6. ASSUME NEW q \in Requests PROVE Row(pos[q], pc[q], stamp[q], start[q])'
  <2>1. Row(pos[q], pc[q], stamp[q], start[q]) BY Zenon DEF Placed
  <2> QED BY <1>1, <1>5, <2>1 DEF Row
<1>7. Placed' BY Zenon, <1>1, <1>5, <1>6 DEF Placed
<1> QED BY Zenon, <1>3, <1>7

(* Every step keeps the places and counts who goes in and out.             *)
LEMMA RequestsKeep ==
    ASSUME Placed, Tallies, [Next]_vars
    PROVE  Placed' /\ Tallied
<1>1. ASSUME NEW q \in Requests, RequestStep(q) PROVE Placed' /\ Tallied
  BY <1>1, HandlerKeeps, PeriodGuardKeeps, RateGuardKeeps, BreakerGuardKeeps,
     ShedderWaitsKeeps, ShedderEndsKeeps, Zenon DEF RequestStep
<1> QED BY <1>1, WorldKeeps, Zenon DEF Next
-----------------------------------------------------------------------------
Told ==
    /\ arrivals \in Nat
    /\ status \in [Requests -> {"ok", "error"}]
    /\ alone \in [Requests -> BOOLEAN]

(* Replacing a value keeps the type of a function. *)
LEMMA Override ==
    ASSUME NEW D, NEW V, NEW f \in [D -> V], NEW x, NEW v \in V
    PROVE  [f EXCEPT ![x] = v] \in [D -> V]
BY Zenon

(* A request that goes back takes its status along. *)
LEMMA BackTold ==
    ASSUME Told, NEW q \in Requests, NEW s \in {"ok", "error"}, Back(q, s)
    PROVE  Told'
<1>1. (IF pos[q] = 1 THEN "ok" ELSE s) \in {"ok", "error"} BY Zenon
<1>2. status' \in [Requests -> {"ok", "error"}] BY Zenon, <1>1, Override DEF Told, Back
<1>3. alone' \in [Requests -> BOOLEAN] BY Zenon, Override DEF Told, Back
<1> QED BY Zenon, <1>2, <1>3 DEF Told, Back

(* Every step preserves Told. *)
LEMMA ToldKept ==
    ASSUME Told, [Next]_vars
    PROVE  Told'
<1>1. ASSUME UNCHANGED <<arrivals, status, alone>> PROVE Told' BY Zenon, <1>1 DEF Told
<1>2. ASSUME NEW q \in Requests PROVE status[q] \in {"ok", "error"} BY Zenon DEF Told
<1>3. ASSUME NEW q \in Requests, Arrive(q) PROVE Told'
  <2>1. arrivals' \in Nat /\ UNCHANGED <<status, alone>> BY <1>3 DEF Arrive, Told
  <2> QED BY Zenon, <2>1 DEF Told
<1>4. ASSUME NEW q \in Requests, HandlerReturns(q) PROVE Told' BY Zenon, <1>4, BackTold DEF HandlerReturns
<1>5. ASSUME NEW q \in Requests, HandlerPanics(q) PROVE Told'
  <2>1. status' \in [Requests -> {"ok", "error"}] BY Zenon, <1>5, Override DEF HandlerPanics, Told
  <2> QED BY Zenon, <1>5, <2>1 DEF HandlerPanics, Told
<1>6. ASSUME NEW q \in Requests, PeriodTake(q) \/ PeriodLocal(q) \/ RateReserve(q) \/ RateLocal(q) PROVE Told'
  <2>1. Forward(q) \/ Back(q, "ok") BY Zenon, <1>6 DEF PeriodTake, PeriodLocal, RateReserve, RateLocal, TooMany
  <2> QED BY Zenon, <1>1, <2>1, BackTold DEF Forward
<1>7. ASSUME NEW q \in Requests, PeriodTakeFails(q) \/ RateReserveFails(q) \/ RateReadsClock(q)
      PROVE  UNCHANGED <<arrivals, status, alone>>
  BY Zenon, <1>7 DEF PeriodTakeFails, RateReserveFails, RateReadsClock, Goto
<1>8. ASSUME NEW q \in Requests, BreakerLookup(q) \/ BreakerCreate(q)
      PROVE  UNCHANGED <<arrivals, status, alone>>
  BY Zenon, <1>8 DEF BreakerLookup, BreakerCreate, Goto
<1>9. ASSUME NEW q \in Requests, BreakerAllow(q) PROVE Told'
  <2>1. Forward(q) \/ Back(q, "error") BY Zenon, <1>9 DEF BreakerAllow, Unavailable
  <2> QED BY Zenon, <1>1, <2>1, BackTold DEF Forward
<1>10. ASSUME NEW q \in Requests, BreakerMarks(q) \/ ShedderAddsRt(q) PROVE Told'
  BY Zenon, <1>2, <1>10, BackTold DEF BreakerMarks, ShedderAddsRt
<1>11. ASSUME NEW q \in Requests, ShedderChecks(q) PROVE Told'
  <2>1. (panics = 0 /\ ~\E p \in Requests : Inside(p)) \in BOOLEAN BY Zenon
  <2>2. alone' \in [Requests -> BOOLEAN] BY Zenon, <1>11, <2>1, Override DEF ShedderChecks, Told
  <2> QED BY Zenon, <1>11, <2>2 DEF ShedderChecks, Told
<1>12. ASSUME NEW q \in Requests,
              ShedderClears(q) \/ ShedderReadsFlying(q) \/ ShedderDecides(q) \/ ShedderNotesTime(q) \/ ShedderAddsPass(q)
       PROVE  UNCHANGED <<arrivals, status, alone>>
  BY Zenon, <1>12 DEF ShedderClears, ShedderReadsFlying, ShedderDecides, ShedderNotesTime, ShedderAddsPass, Goto
<1>13. ASSUME NEW q \in Requests, ShedderDrops(q) PROVE Told'
  BY Zenon, <1>13, BackTold DEF ShedderDrops, Unavailable
<1>14. ASSUME NEW q \in Requests, ShedderAllows(q) PROVE Told'
  <2>1. alone' \in [Requests -> BOOLEAN] BY Zenon, <1>14 DEF ShedderAllows
  <2> QED BY Zenon, <1>14, <2>1 DEF ShedderAllows, Told
<1>15. ASSUME NEW q \in Requests, ShedderLands(q) PROVE Told'
  <2>1. UNCHANGED <<arrivals, status, alone>> \/ Back(q, status[q]) BY Zenon, <1>15 DEF ShedderLands
  <2> QED BY Zenon, <1>1, <1>2, <2>1, BackTold
<1>16. ASSUME (\E r \in Replicas : PeriodCleanup(r)) \/ TimePasses \/ UNCHANGED vars
       PROVE  UNCHANGED <<arrivals, status, alone>>
  BY Zenon, <1>16 DEF PeriodCleanup, TimePasses, vars, requestVars
<1>17. ASSUME NEW q \in Requests, RequestStep(q) PROVE Told'
  BY Zenon, <1>1, <1>3, <1>4, <1>5, <1>6, <1>7, <1>8, <1>9, <1>10, <1>11, <1>12, <1>13, <1>14, <1>15, <1>17
     DEF RequestStep
<1> QED BY Zenon, <1>1, <1>16, <1>17 DEF Next
-----------------------------------------------------------------------------
(* Counting events keeps a history one.                                    *)
LEMMA CountedType ==
    ASSUME NEW h \in [Times -> Nat], NEW t, NEW k \in Nat
    PROVE  Counted(h, t, k) \in [Times -> Nat]
BY DEF Counted

(* Every step keeps the types of the breaker. *)
LEMMA BreakerKept ==
    ASSUME BreakerTypeOK, now \in Times, [Next]_vars
    PROVE  BreakerTypeOK'
<1> DEFINE Results == [accepts : Nat, total : Nat]
<1>1. /\ Buckets \in Nat \ {0} /\ BucketTime \in Nat \ {0} /\ now \in Nat /\ NoResults \in Results
  BY BreakerConstants DEF BreakerConstants, Times, NoResults
<1>2. window \in Windows(Buckets, Results) BY Zenon DEF BreakerTypeOK, Windows
<1>3. accepts \in [Times -> Nat] /\ totals \in [Times -> Nat] BY Zenon DEF BreakerTypeOK
<1>4. created \in BOOLEAN BY Zenon DEF BreakerTypeOK
<1>5. Advanced \in Windows(Buckets, Results) BY Zenon, <1>1, <1>2, AdvanceType DEF Advanced
<1> HIDE DEF Results
<1>6. ASSUME window' \in Windows(Buckets, Results), created' \in BOOLEAN,
             accepts' \in [Times -> Nat], totals' \in [Times -> Nat]
      PROVE  BreakerTypeOK'
  BY Zenon, <1>6 DEF BreakerTypeOK, Windows, Results
<1>7. ASSUME UNCHANGED breakerVars PROVE BreakerTypeOK' BY Zenon, <1>7 DEF BreakerTypeOK, breakerVars
<1>8. ASSUME NEW q \in Requests, BreakerCreate(q) PROVE BreakerTypeOK'
  <2>1. NewWindow(Buckets, NoResults, now) \in Windows(Buckets, Results) BY Zenon, <1>1, NewWindowType
  <2>2. /\ window' = IF created THEN window ELSE NewWindow(Buckets, NoResults, now)
        /\ created' = TRUE /\ UNCHANGED <<accepts, totals>>
    BY Zenon, <1>8 DEF BreakerCreate, createBreaker
  <2>3. window' \in Windows(Buckets, Results) BY Zenon, <1>2, <2>1, <2>2
  <2> QED BY Zenon, <1>3, <1>6, <2>2, <2>3
<1>9. ASSUME NEW q \in Requests, BreakerAllow(q) PROVE BreakerTypeOK'
  <2>1. window' = Advanced /\ UNCHANGED <<created, accepts, totals>> BY Zenon, <1>9 DEF BreakerAllow, accept
  <2> QED BY Zenon, <1>3, <1>4, <1>5, <1>6, <2>1
<1>10. ASSUME NEW q \in Requests, BreakerMarks(q) PROVE BreakerTypeOK'
  <2> DEFINE one == IF status[q] = "ok" THEN 1 ELSE 0
             x == [accepts |-> Advanced.buckets[Advanced.offset].accepts + one,
                   total |-> Advanced.buckets[Advanced.offset].total + 1]
  <2>1. /\ window' = [Advanced EXCEPT !.buckets[Advanced.offset] = x]
        /\ accepts' = Counted(accepts, now, one) /\ totals' = Counted(totals, now, 1)
        /\ created' = created
    BY Zenon, <1>10 DEF BreakerMarks, mark
  <2>2. one \in Nat BY Zenon
  <2> HIDE DEF one
  <2>3. Advanced.buckets[Advanced.offset] \in Results BY Zenon, <1>5 DEF Windows
  <2>4. x \in Results BY <2>2, <2>3 DEF Results
  <2> HIDE DEF x
  <2>5. window' \in Windows(Buckets, Results) BY Zenon, <1>1, <1>5, <2>1, <2>4, BumpType
  <2>6. accepts' \in [Times -> Nat] /\ totals' \in [Times -> Nat] BY Zenon, <1>3, <2>1, <2>2, CountedType
  <2> QED BY Zenon, <1>4, <1>6, <2>1, <2>5, <2>6
<1>11. ASSUME NEW q \in Requests, RequestStep(q), ~BreakerCreate(q), ~BreakerAllow(q), ~BreakerMarks(q)
       PROVE  UNCHANGED breakerVars
  <2>1. CASE Arrive(q) \/ HandlerReturns(q) \/ HandlerPanics(q) \/ PeriodTake(q) \/ PeriodTakeFails(q) \/ PeriodLocal(q)
    BY Zenon, <2>1 DEF Arrive, HandlerReturns, HandlerPanics, PeriodTake, PeriodTakeFails, PeriodLocal
  <2>2. CASE RateReadsClock(q) \/ RateReserve(q) \/ RateReserveFails(q) \/ RateLocal(q) \/ BreakerLookup(q)
    BY Zenon, <2>2 DEF RateReadsClock, RateReserve, RateReserveFails, RateLocal, BreakerLookup
  <2>3. CASE \/ ShedderChecks(q) \/ ShedderClears(q) \/ ShedderReadsFlying(q) \/ ShedderDecides(q)
             \/ ShedderNotesTime(q) \/ ShedderDrops(q) \/ ShedderAllows(q)
             \/ ShedderLands(q) \/ ShedderAddsPass(q) \/ ShedderAddsRt(q)
    BY Zenon, <2>3 DEF ShedderChecks, ShedderClears, ShedderReadsFlying, ShedderDecides, ShedderNotesTime,
         ShedderDrops, ShedderAllows, ShedderLands, ShedderAddsPass, ShedderAddsRt
  <2> QED BY Zenon, <1>11, <2>1, <2>2, <2>3 DEF RequestStep
<1>12. ASSUME (\E r \in Replicas : PeriodCleanup(r)) \/ TimePasses \/ UNCHANGED vars
       PROVE  UNCHANGED breakerVars
  BY Zenon, <1>12 DEF PeriodCleanup, TimePasses, vars
<1> QED BY Zenon, <1>7, <1>8, <1>9, <1>10, <1>11, <1>12 DEF Next

(* Every step keeps the types of the shedder. *)
LEMMA ShedderKept ==
    ASSUME ShedderTypeOK, Placed, Tallies', [Next]_vars
    PROVE  ShedderTypeOK'
<1>1. bucketNum \in Nat \ {0} /\ bucketDuration \in Nat \ {0} /\ now \in Nat
  BY ShedderConstants DEF ShedderConstants, Placed, Times
<1>2. CounterType = Windows(bucketNum, Nat) BY Zenon DEF CounterType, Windows
<1>3. passCounter \in CounterType /\ rtCounter \in CounterType /\ dropTime \in Nat BY Zenon DEF ShedderTypeOK
<1>4. droppedRecently \in BOOLEAN BY Zenon DEF ShedderTypeOK
<1>5. flying' \in Int BY Zenon DEF Tallies
<1>6. ASSUME NEW c \in CounterType PROVE Turn(c) \in CounterType BY Zenon, <1>1, <1>2, <1>6, AdvanceType DEF Turn
<1>7. ASSUME NEW c \in CounterType, NEW val \in Nat PROVE Add(c, val) \in CounterType
  <2> DEFINE w == Turn(c)
             x == w.buckets[w.offset] + val
  <2>1. w \in Windows(bucketNum, Nat) BY Zenon, <1>2, <1>6, <1>7
  <2>2. Add(c, val) = [w EXCEPT !.buckets[w.offset] = x] BY Zenon DEF Add
  <2> HIDE DEF w
  <2>3. w.buckets \in [0 .. bucketNum - 1 -> Nat] /\ w.offset \in 0 .. bucketNum - 1 BY Zenon, <2>1 DEF Windows
  <2>4. w.buckets[w.offset] \in Nat BY Zenon, <2>3
  <2>5. x \in Nat BY <1>7, <2>4
  <2> HIDE DEF x
  <2> QED BY <1>1, <1>2, <2>1, <2>2, <2>5, BumpType
<1>8. ASSUME passCounter' \in CounterType, rtCounter' \in CounterType, dropTime' \in Nat, droppedRecently' \in BOOLEAN
      PROVE  ShedderTypeOK'
  BY Zenon, <1>5, <1>8 DEF ShedderTypeOK
<1>9. ASSUME UNCHANGED <<passCounter, rtCounter, dropTime, droppedRecently>> PROVE ShedderTypeOK'
  BY Zenon, <1>3, <1>4, <1>8, <1>9
<1>10. ASSUME NEW q \in Requests, ShedderClears(q) \/ ShedderDrops(q) PROVE ShedderTypeOK'
  <2>1. droppedRecently' \in BOOLEAN /\ UNCHANGED <<passCounter, rtCounter, dropTime>>
    BY Zenon, <1>10 DEF ShedderClears, ShedderDrops, setDroppedRecently
  <2> QED BY Zenon, <1>3, <1>8, <2>1
<1>11. ASSUME NEW q \in Requests, ShedderDecides(q) PROVE ShedderTypeOK'
  <2>1. /\ passCounter' = Turn(passCounter) /\ rtCounter' = Turn(rtCounter)
        /\ UNCHANGED <<dropTime, droppedRecently>>
    BY Zenon, <1>11 DEF ShedderDecides, weigh
  <2> QED BY Zenon, <1>3, <1>4, <1>6, <1>8, <2>1
<1>12. ASSUME NEW q \in Requests, ShedderNotesTime(q) PROVE ShedderTypeOK'
  <2>1. dropTime' = now /\ UNCHANGED <<passCounter, rtCounter, droppedRecently>>
    BY Zenon, <1>12 DEF ShedderNotesTime, setDropTime
  <2> QED BY Zenon, <1>1, <1>3, <1>4, <1>8, <2>1
<1>13. ASSUME NEW q \in Requests, ShedderAllows(q) \/ ShedderLands(q) PROVE ShedderTypeOK'
  BY Zenon, <1>9, <1>13 DEF ShedderAllows, ShedderLands, takeOff, land
<1>14. ASSUME NEW q \in Requests, ShedderAddsPass(q) PROVE ShedderTypeOK'
  <2>1. passCounter' = Add(passCounter, 1) /\ UNCHANGED <<rtCounter, dropTime, droppedRecently>>
    BY Zenon, <1>14 DEF ShedderAddsPass, addPass
  <2>2. 1 \in Nat BY Zenon
  <2>3. Add(passCounter, 1) \in CounterType BY Zenon, <1>3, <1>7, <2>2
  <2> QED BY Zenon, <1>3, <1>4, <1>8, <2>1, <2>3
<1>15. ASSUME NEW q \in Requests, ShedderAddsRt(q) PROVE ShedderTypeOK'
  <2>1. rtCounter' = Add(rtCounter, stamp[q]) /\ UNCHANGED <<passCounter, dropTime, droppedRecently>>
    BY Zenon, <1>15 DEF ShedderAddsRt, addRt
  <2>2. stamp[q] \in Nat
    <3>1. At(q, "shedding", "timed") BY Zenon, <1>15 DEF ShedderAddsRt
    <3> QED BY Zenon, <3>1, AtFacts, RowOf DEF Row
  <2>3. Add(rtCounter, stamp[q]) \in CounterType BY Zenon, <1>3, <1>7, <2>2
  <2> QED BY Zenon, <1>3, <1>4, <1>8, <2>1, <2>3
<1>16. ASSUME NEW q \in Requests, RequestStep(q), ~ShedderClears(q), ~ShedderDrops(q), ~ShedderDecides(q),
              ~ShedderNotesTime(q), ~ShedderAllows(q), ~ShedderLands(q), ~ShedderAddsPass(q), ~ShedderAddsRt(q)
       PROVE  UNCHANGED shedderVars
  <2>1. CASE Arrive(q) \/ HandlerReturns(q) \/ HandlerPanics(q) \/ PeriodTake(q) \/ PeriodTakeFails(q) \/ PeriodLocal(q)
    BY Zenon, <2>1 DEF Arrive, HandlerReturns, HandlerPanics, PeriodTake, PeriodTakeFails, PeriodLocal
  <2>2. CASE RateReadsClock(q) \/ RateReserve(q) \/ RateReserveFails(q) \/ RateLocal(q)
    BY Zenon, <2>2 DEF RateReadsClock, RateReserve, RateReserveFails, RateLocal
  <2>3. CASE BreakerLookup(q) \/ BreakerCreate(q) \/ BreakerAllow(q) \/ BreakerMarks(q)
    BY Zenon, <2>3 DEF BreakerLookup, BreakerCreate, BreakerAllow, BreakerMarks
  <2>4. CASE ShedderChecks(q) \/ ShedderReadsFlying(q)
    BY Zenon, <2>4 DEF ShedderChecks, ShedderReadsFlying
  <2> QED BY Zenon, <1>16, <2>1, <2>2, <2>3, <2>4 DEF RequestStep
<1>17. ASSUME (\E r \in Replicas : PeriodCleanup(r)) \/ TimePasses \/ UNCHANGED vars
       PROVE  UNCHANGED shedderVars
  BY Zenon, <1>17 DEF PeriodCleanup, TimePasses, vars
<1>18. ASSUME UNCHANGED shedderVars PROVE ShedderTypeOK' BY Zenon, <1>9, <1>18 DEF shedderVars
<1> QED BY Zenon, <1>10, <1>11, <1>12, <1>13, <1>14, <1>15, <1>16, <1>17, <1>18 DEF Next
-----------------------------------------------------------------------------
(***************************************************************************)
(* A request that is past a breaker's lookup has found the breaker of its  *)
(* path or has made it.                                                    *)
(***************************************************************************)
Past(p, l) ==
    \E i \in 1 .. Len(chain) :
        chain[i] = "breaker" /\ (p > i \/ (p = i /\ l \in {"allow", "leave"}))

Made == \A q \in Requests : Past(pos[q], pc[q]) => created

(* A request is past the breakers it was past before it went on or back.   *)
LEMMA PastFacts ==
    ASSUME chain \in DOMAIN Limits, NEW p \in Int, NEW l
    PROVE  /\ \A m : m \notin {"allow", "leave"} /\ Past(p, m) => Past(p, l)
           /\ \A m : Past(p - 1, m) => Past(p, l)
           /\ Past(p + 1, "enter") => Past(p, l) \/ chain[p] = "breaker"
           /\ ~Past(0, l) /\ ~Past(1, "enter")
<1>1. Len(chain) \in Nat BY Zenon, ChainType
<1>2. ASSUME NEW m, m \notin {"allow", "leave"}, Past(p, m) PROVE Past(p, l) BY Zenon, <1>1, <1>2 DEF Past
<1>3. ASSUME NEW m, Past(p - 1, m) PROVE Past(p, l) BY <1>1, <1>3 DEF Past
<1>4. ASSUME Past(p + 1, "enter"), chain[p] # "breaker" PROVE Past(p, l) BY <1>1, <1>4 DEF Past
<1>5. ~Past(0, l) /\ ~Past(1, "enter") BY <1>1 DEF Past
<1> QED BY Zenon, <1>2, <1>3, <1>4, <1>5

(* Who gets past the lookup of the breaker finds it created. *)
LEMMA MadeMoves ==
    ASSUME Placed, Made, NEW q \in Requests, NEW p, NEW l, chain' = chain, created => created',
           pos' = [pos EXCEPT ![q] = p], pc' = [pc EXCEPT ![q] = l],
           Past(p, l) => Past(pos[q], pc[q]) \/ created'
    PROVE  Made'
<1>1. pos'[q] = p /\ pc'[q] = l BY Zenon DEF Placed
<1>2. \A r \in Requests \ {q} : pos'[r] = pos[r] /\ pc'[r] = pc[r] BY Zenon DEF Placed
<1>3. ASSUME NEW r \in Requests, Past(pos'[r], pc'[r]) PROVE created'
  BY Zenon, <1>1, <1>2, <1>3 DEF Made
<1> QED BY Zenon, <1>3 DEF Made, Past

(* Steps at a guard, except for the breaker's; steps back; steps on.       *)
LEMMA MadeStays ==
    ASSUME Placed, Made, NEW q \in Requests, NEW l \in Locations \ {"allow", "leave"},
           UNCHANGED <<chain, created, pos>>, pc' = [pc EXCEPT ![q] = l]
    PROVE  Made'
<1>1. pos[q] \in Int /\ chain \in DOMAIN Limits BY Zenon, RowOf
<1>2. pos' = [pos EXCEPT ![q] = pos[q]] BY Zenon DEF Placed
<1>3. l \notin {"allow", "leave"} BY Zenon
<1>4. Past(pos[q], l) => Past(pos[q], pc[q]) BY Zenon, <1>1, <1>3, PastFacts
<1> QED BY Zenon, <1>2, <1>4, MadeMoves

(* A request that goes back gets past no lookup. *)
LEMMA MadeBack ==
    ASSUME Placed, Made, NEW q \in Requests, NEW s, Back(q, s), created' = created
    PROVE  Made'
<1>1. pos[q] \in Int /\ chain \in DOMAIN Limits BY Zenon, RowOf
<1>2. \A l : Past(pos[q] - 1, l) => Past(pos[q], pc[q]) BY Zenon, <1>1, PastFacts
<1> QED BY Zenon, <1>2, MadeMoves DEF Back

(* A request that goes on to the next guard gets past no lookup but that   *)
(* of allow.                                                               *)
LEMMA MadeForward ==
    ASSUME Placed, Made, NEW q \in Requests, NEW g, NEW l, At(q, g, l), g = "breaker" => l = "allow",
           UNCHANGED <<chain, created>>, pos' = [pos EXCEPT ![q] = @ + 1], pc' = [pc EXCEPT ![q] = "enter"]
    PROVE  Made'
<1>1. pos[q] \in Int /\ chain \in DOMAIN Limits BY Zenon, RowOf
<1>2. pos[q] \in 1 .. Len(chain) /\ chain[pos[q]] = g /\ pc[q] = l BY Zenon, AtFacts
<1>3. Past(pos[q] + 1, "enter") => Past(pos[q], pc[q]) \/ chain[pos[q]] = "breaker" BY Zenon, <1>1, PastFacts
<1>4. chain[pos[q]] = "breaker" => Past(pos[q], pc[q]) BY Zenon, <1>1, <1>2 DEF Past
<1> QED BY Zenon, <1>3, <1>4, MadeMoves

(* Every step preserves Made. *)
LEMMA MadeKept ==
    ASSUME Placed, Made, [Next]_vars
    PROVE  Made'
<1>1. ASSUME NEW q \in Requests, Arrive(q) \/ HandlerReturns(q) \/ HandlerPanics(q) PROVE Made'
  <2>1. created' = created BY Zenon, <1>1 DEF Arrive, HandlerReturns, HandlerPanics, breakerVars
  <2>2. chain \in DOMAIN Limits BY Zenon, RowOf
  <2>3. ~Past(1, "enter") /\ ~Past(0, "idle")
    <3>1. 0 \in Int OBVIOUS
    <3> QED BY Zenon, <2>2, <3>1, PastFacts
  <2> QED BY Zenon, <1>1, <2>1, <2>3, MadeMoves, MadeBack DEF Arrive, HandlerReturns, HandlerPanics
<1>2. ASSUME NEW q \in Requests, PeriodTake(q) \/ PeriodLocal(q) \/ RateReserve(q) \/ RateLocal(q)
      PROVE  Made'
  <2>1. /\ \E g \in {"period", "rate"}, l \in Locations : At(q, g, l)
        /\ Forward(q) \/ Back(q, "ok")
        /\ created' = created
    BY Zenon, <1>2 DEF PeriodTake, PeriodLocal, RateReserve, RateLocal, TooMany, breakerVars, Locations
  <2>2. PICK g \in {"period", "rate"}, l \in Locations : At(q, g, l) BY Zenon, <2>1
  <2>3. g # "breaker" BY Zenon
  <2> QED BY Zenon, <2>1, <2>2, <2>3, MadeForward, MadeBack DEF Forward
<1>3. ASSUME NEW q \in Requests, PeriodTakeFails(q) \/ RateReserveFails(q) \/ RateReadsClock(q) PROVE Made'
  <2>1. \E l \in {"local", "eval"} : pc' = [pc EXCEPT ![q] = l]
    BY Zenon, <1>3 DEF PeriodTakeFails, RateReserveFails, RateReadsClock, Goto
  <2>2. UNCHANGED <<chain, created, pos>>
    BY Zenon, <1>3 DEF PeriodTakeFails, RateReserveFails, RateReadsClock, Goto, breakerVars
  <2>3. {"local", "eval"} \subseteq Locations \ {"allow", "leave"} BY Zenon DEF Locations
  <2> QED BY Zenon, <2>1, <2>2, <2>3, MadeStays
<1>4. ASSUME NEW q \in Requests, BreakerLookup(q) PROVE Made'
  <2>1. Goto(q, IF created THEN "allow" ELSE "create") /\ created' = created
    BY Zenon, <1>4 DEF BreakerLookup, breakerVars
  <2>2. "create" \in Locations \ {"allow", "leave"} BY Zenon DEF Locations
  <2>3. CASE ~created BY Zenon, <2>1, <2>2, <2>3, MadeStays DEF Goto
  <2>4. CASE created BY Zenon, <2>1, <2>4 DEF Made
  <2> QED BY Zenon, <2>3, <2>4
<1>5. ASSUME NEW q \in Requests, BreakerCreate(q) PROVE Made'
  BY Zenon, <1>5 DEF BreakerCreate, createBreaker, Made
<1>6. ASSUME NEW q \in Requests, BreakerAllow(q) PROVE Made'
  <2>1. At(q, "breaker", "allow") /\ created' = created /\ (Forward(q) \/ Back(q, "error"))
    BY Zenon, <1>6 DEF BreakerAllow, accept, Unavailable
  <2> QED BY Zenon, <2>1, MadeForward, MadeBack DEF Forward
<1>7. ASSUME NEW q \in Requests, BreakerMarks(q) PROVE Made'
  BY Zenon, <1>7, MadeBack DEF BreakerMarks, mark
<1>8. ASSUME NEW q \in Requests,
             \/ ShedderChecks(q) \/ ShedderClears(q) \/ ShedderReadsFlying(q) \/ ShedderDecides(q)
             \/ ShedderNotesTime(q) \/ ShedderAddsPass(q)
      PROVE  Made'
  <2>1. \E l \in {"decide", "clear", "take", "weigh", "drop", "dropped", "timed"} : pc' = [pc EXCEPT ![q] = l]
    BY Zenon, <1>8 DEF ShedderChecks, ShedderClears, ShedderReadsFlying, ShedderDecides, ShedderNotesTime,
         ShedderAddsPass, Goto
  <2>2. UNCHANGED <<chain, created, pos>>
    BY Zenon, <1>8 DEF ShedderChecks, ShedderClears, ShedderReadsFlying, ShedderDecides, ShedderNotesTime,
         ShedderAddsPass, Goto, breakerVars
  <2>3. {"decide", "clear", "take", "weigh", "drop", "dropped", "timed"} \subseteq Locations \ {"allow", "leave"}
    BY Zenon DEF Locations
  <2> QED BY Zenon, <2>1, <2>2, <2>3, MadeStays
<1>9. ASSUME NEW q \in Requests, ShedderDrops(q) \/ ShedderAddsRt(q) PROVE Made'
  BY Zenon, <1>9, MadeBack DEF ShedderDrops, ShedderAddsRt, Unavailable, breakerVars
<1>10. ASSUME NEW q \in Requests, ShedderAllows(q) PROVE Made'
  <2>1. "shedding" # "breaker" BY Zenon
  <2> QED BY Zenon, <1>10, <2>1, MadeForward DEF ShedderAllows, breakerVars
<1>11. ASSUME NEW q \in Requests, ShedderLands(q) PROVE Made'
  <2>1. created' = created BY Zenon, <1>11 DEF ShedderLands, breakerVars
  <2>2. \/ UNCHANGED <<chain, pos>> /\ pc' = [pc EXCEPT ![q] = "passed"]
        \/ Back(q, status[q])
    BY Zenon, <1>11 DEF ShedderLands
  <2>3. "passed" \in Locations \ {"allow", "leave"} BY Zenon DEF Locations
  <2> QED BY Zenon, <2>1, <2>2, <2>3, MadeStays, MadeBack
<1>12. ASSUME (\E r \in Replicas : PeriodCleanup(r)) \/ TimePasses \/ UNCHANGED vars
       PROVE  Made'
  <2>1. UNCHANGED <<chain, pos, pc, created>>
    BY Zenon, <1>12 DEF PeriodCleanup, TimePasses, vars, requestVars, breakerVars
  <2> QED BY Zenon, <2>1 DEF Made, Past
<1>13. ASSUME NEW q \in Requests, RequestStep(q) PROVE Made'
  BY Zenon, <1>1, <1>2, <1>3, <1>4, <1>5, <1>6, <1>7, <1>8, <1>9, <1>10, <1>11, <1>13 DEF RequestStep
<1> QED BY Zenon, <1>12, <1>13 DEF Next
-----------------------------------------------------------------------------
(***************************************************************************)
(* While a request may say that it is alone nobody is inside the shedder   *)
(* and no panic has been counted, and the flying it has read is zero.      *)
(***************************************************************************)
Idle == InsideSet = {} /\ panics = 0
Solo == \A q \in Requests : alone[q] => Idle /\ (pc[q] = "weigh" => stamp[q] = 0)

(* The shedder takes nobody in.                                            *)
Lets(f, f2, p, p2) == f2 <= f /\ p <= p2 /\ (f2 = f \/ p2 = p)

(* Arithmetic of letting nobody in. *)
LEMMA LetsNone ==
    ASSUME NEW f \in Int, NEW f2 \in Int, NEW p \in Int, NEW p2 \in Int, Lets(f, f2, p, p2)
    PROVE  /\ f2 - p2 # (f - p) + 1
           /\ f2 - p2 = f - p => p2 = p
BY DEF Lets

(* An idle shedder stays idle while it lets nobody in. *)
LEMMA IdleStays ==
    ASSUME Tallies, Tallied, Idle, Lets(flying, flying', panics, panics')
    PROVE  Idle'
<1>1. flying \in Int /\ panics \in Int /\ flying' \in Int /\ panics' \in Int BY DEF Tallies, Tallied
<1>2. flying' - panics' # (flying - panics) + 1 BY Zenon, <1>1, LetsNone
<1>3. InsideSet' = InsideSet /\ flying' - panics' = flying - panics BY Zenon, <1>2 DEF Tallied, Idle
<1>4. panics' = panics BY Zenon, <1>1, <1>3, LetsNone
<1> QED BY Zenon, <1>3, <1>4 DEF Idle

(* A step that lets nobody in keeps Solo. *)
LEMMA SoloMoves ==
    ASSUME Placed, Tallies, Tallied, Solo, NEW q \in Requests, NEW l, NEW st,
           pc' = [pc EXCEPT ![q] = l], stamp' = [stamp EXCEPT ![q] = st],
           Lets(flying, flying', panics, panics'),
           \A r \in Requests : alone'[r] => alone[r] \/ (r = q /\ Idle),
           l = "weigh" /\ Idle => st = 0
    PROVE  Solo'
<1>1. pc'[q] = l /\ stamp'[q] = st BY Zenon DEF Placed
<1>2. \A r \in Requests \ {q} : pc'[r] = pc[r] /\ stamp'[r] = stamp[r] BY Zenon DEF Placed
<1>3. Idle => Idle' BY Zenon, IdleStays
<1>4. ASSUME NEW r \in Requests, alone'[r] PROVE Idle /\ (pc'[r] = "weigh" => stamp'[r] = 0)
  BY Zenon, <1>1, <1>2, <1>4 DEF Solo
<1> QED BY Zenon, <1>3, <1>4 DEF Solo

(* Steps that leave alone and the stamp; steps back.                       *)
LEMMA SoloStays ==
    ASSUME Placed, Tallies, Tallied, Solo, NEW q \in Requests, NEW l, l # "weigh",
           pc' = [pc EXCEPT ![q] = l], UNCHANGED <<stamp, alone, flying, panics>>
    PROVE  Solo'
<1>1. stamp' = [stamp EXCEPT ![q] = stamp[q]] BY Zenon DEF Placed
<1>2. Lets(flying, flying', panics, panics') BY DEF Lets, Tallies
<1> QED BY Zenon, <1>1, <1>2, SoloMoves

(* A request that goes back keeps Solo. *)
LEMMA SoloBack ==
    ASSUME Placed, Tallies, Tallied, Told, Solo, NEW q \in Requests, NEW s, Back(q, s), flying' <= flying
    PROVE  Solo'
<1>1. \E l, st : l # "weigh" /\ pc' = [pc EXCEPT ![q] = l] /\ stamp' = [stamp EXCEPT ![q] = st]
  <2>1. (IF pos[q] = 1 THEN "idle" ELSE "leave") # "weigh" BY Zenon
  <2>2. pc' = [pc EXCEPT ![q] = IF pos[q] = 1 THEN "idle" ELSE "leave"] BY Zenon DEF Back
  <2>3. stamp' = [stamp EXCEPT ![q] = IF pos[q] = 1 THEN 0 ELSE stamp[q]] BY Zenon DEF Back
  <2> QED BY Zenon, <2>1, <2>2, <2>3
<1>2. panics' = panics BY Zenon DEF Back
<1>3. Lets(flying, flying', panics, panics') BY <1>2 DEF Lets, Tallies
<1>4. ASSUME NEW r \in Requests, alone'[r] PROVE alone[r]
  <2>1. alone' = [alone EXCEPT ![q] = FALSE] BY Zenon DEF Back
  <2> QED BY Zenon, <1>4, <2>1 DEF Told
<1> QED BY Zenon, <1>1, <1>3, <1>4, SoloMoves

(* Every step preserves Solo. *)
LEMMA SoloKept ==
    ASSUME Placed, Tallies, Tallied, Told, Solo, InsideSet = {} => flying = panics, [Next]_vars
    PROVE  Solo'
<1>1. ASSUME NEW q \in Requests, Arrive(q) \/ HandlerReturns(q) PROVE Solo'
  <2>1. flying' = flying BY Zenon, <1>1 DEF Arrive, HandlerReturns, shedderVars
  <2>2. flying' <= flying BY <2>1 DEF Tallies
  <2>3. "enter" # "weigh" BY Zenon
  <2> QED BY Zenon, <1>1, <2>1, <2>2, <2>3, SoloStays, SoloBack DEF Arrive, HandlerReturns
<1>2. ASSUME NEW q \in Requests, HandlerPanics(q) PROVE Solo'
  <2>1. /\ pc' = [pc EXCEPT ![q] = "idle"] /\ stamp' = [stamp EXCEPT ![q] = 0] /\ alone' = alone
        /\ flying' = flying /\ (panics' = panics \/ panics' = panics + 1)
    BY Zenon, <1>2 DEF HandlerPanics, shedderVars
  <2>2. Lets(flying, flying', panics, panics') BY <2>1 DEF Lets, Tallies
  <2>3. \A r \in Requests : alone'[r] => alone[r] \/ (r = q /\ Idle) BY Zenon, <2>1
  <2>4. "idle" # "weigh" BY Zenon
  <2> QED BY Zenon, <2>1, <2>2, <2>3, <2>4, SoloMoves
<1>3. ASSUME NEW q \in Requests, PeriodTake(q) \/ PeriodLocal(q) \/ RateReserve(q) \/ RateLocal(q)
      PROVE  Solo'
  <2>1. (Forward(q) \/ Back(q, "ok")) /\ flying' = flying
    BY Zenon, <1>3 DEF PeriodTake, PeriodLocal, RateReserve, RateLocal, TooMany, shedderVars
  <2>2. flying' <= flying BY <2>1 DEF Tallies
  <2>3. "enter" # "weigh" BY Zenon
  <2> QED BY Zenon, <2>1, <2>2, <2>3, SoloStays, SoloBack DEF Forward
<1>4. ASSUME NEW q \in Requests, PeriodTakeFails(q) \/ RateReserveFails(q) PROVE Solo'
  <2>1. "local" # "weigh" BY Zenon
  <2> QED BY Zenon, <1>4, <2>1, SoloStays DEF PeriodTakeFails, RateReserveFails, Goto, shedderVars
<1>5. ASSUME NEW q \in Requests, RateReadsClock(q) PROVE Solo'
  <2>1. /\ pc' = [pc EXCEPT ![q] = "eval"] /\ stamp' = [stamp EXCEPT ![q] = now]
        /\ UNCHANGED <<alone, flying, panics>>
    BY Zenon, <1>5 DEF RateReadsClock, shedderVars
  <2>2. Lets(flying, flying', panics, panics') BY <2>1 DEF Lets, Tallies
  <2>3. \A r \in Requests : alone'[r] => alone[r] \/ (r = q /\ Idle) BY Zenon, <2>1
  <2>4. "eval" # "weigh" BY Zenon
  <2> QED BY Zenon, <2>1, <2>2, <2>3, <2>4, SoloMoves
<1>6. ASSUME NEW q \in Requests, BreakerLookup(q) \/ BreakerCreate(q) PROVE Solo'
  <2>1. "allow" # "weigh" /\ "create" # "weigh" BY Zenon
  <2>2. (Goto(q, "allow") \/ Goto(q, "create")) /\ flying' = flying
    BY Zenon, <1>6 DEF BreakerLookup, BreakerCreate, shedderVars
  <2> QED BY Zenon, <2>1, <2>2, SoloStays DEF Goto
<1>7. ASSUME NEW q \in Requests, BreakerAllow(q) \/ BreakerMarks(q) PROVE Solo'
  <2>1. (Forward(q) \/ Back(q, "error") \/ Back(q, status[q])) /\ flying' = flying
    BY Zenon, <1>7 DEF BreakerAllow, BreakerMarks, Unavailable, shedderVars
  <2>2. flying' <= flying BY <2>1 DEF Tallies
  <2>3. "enter" # "weigh" BY Zenon
  <2> QED BY Zenon, <2>1, <2>2, <2>3, SoloStays, SoloBack DEF Forward
<1>8. ASSUME NEW q \in Requests, ShedderChecks(q) PROVE Solo'
  <2>1. PICK l \in {"decide", "clear", "take"} : pc' = [pc EXCEPT ![q] = l] BY Zenon, <1>8 DEF ShedderChecks
  <2>2. l # "weigh" BY Zenon
  <2>3. UNCHANGED <<stamp, flying, panics>> BY Zenon, <1>8 DEF ShedderChecks, shedderVars
  <2>4. Lets(flying, flying', panics, panics') BY <2>3 DEF Lets, Tallies
  <2>5. stamp' = [stamp EXCEPT ![q] = stamp[q]] BY Zenon, <2>3 DEF Placed
  <2>6. alone' = [alone EXCEPT ![q] = panics = 0 /\ ~\E p \in Requests : Inside(p)]
    BY Zenon, <1>8 DEF ShedderChecks
  <2>7. ASSUME NEW r \in Requests, alone'[r] PROVE alone[r] \/ (r = q /\ Idle)
    BY Zenon, <2>6, <2>7 DEF Told, Idle, InsideSet
  <2> QED BY Zenon, <2>1, <2>2, <2>4, <2>5, <2>7, SoloMoves
<1>9. ASSUME NEW q \in Requests, ShedderReadsFlying(q) PROVE Solo'
  <2>1. /\ pc' = [pc EXCEPT ![q] = "weigh"] /\ stamp' = [stamp EXCEPT ![q] = flying]
        /\ UNCHANGED <<alone, flying, panics>>
    BY Zenon, <1>9 DEF ShedderReadsFlying, shedderVars
  <2>2. Lets(flying, flying', panics, panics') BY <2>1 DEF Lets, Tallies
  <2>3. \A r \in Requests : alone'[r] => alone[r] \/ (r = q /\ Idle) BY Zenon, <2>1
  <2>4. Idle => flying = 0 BY Zenon DEF Idle
  <2> QED BY Zenon, <2>1, <2>2, <2>3, <2>4, SoloMoves
<1>10. ASSUME NEW q \in Requests,
              ShedderClears(q) \/ ShedderDecides(q) \/ ShedderNotesTime(q) \/ ShedderAddsPass(q)
       PROVE  Solo'
  <2>1. \E l \in {"take", "drop", "dropped", "timed"} : Goto(q, l)
    BY Zenon, <1>10 DEF ShedderClears, ShedderDecides, ShedderNotesTime, ShedderAddsPass
  <2>2. flying' = flying
    BY Zenon, <1>10 DEF ShedderClears, ShedderDecides, ShedderNotesTime, ShedderAddsPass,
         setDroppedRecently, weigh, setDropTime, addPass
  <2>3. "weigh" \notin {"take", "drop", "dropped", "timed"} BY Zenon
  <2> QED BY Zenon, <2>1, <2>2, <2>3, SoloStays DEF Goto
<1>11. ASSUME NEW q \in Requests, ShedderDrops(q) \/ ShedderAddsRt(q) PROVE Solo'
  <2>1. (Back(q, "error") \/ Back(q, status[q])) /\ flying' = flying
    BY Zenon, <1>11 DEF ShedderDrops, ShedderAddsRt, Unavailable, setDroppedRecently, addRt
  <2>2. flying' <= flying BY <2>1 DEF Tallies
  <2> QED BY Zenon, <2>1, <2>2, SoloBack
<1>12. ASSUME NEW q \in Requests, ShedderAllows(q) PROVE Solo'
  BY Zenon, <1>12 DEF ShedderAllows, Solo
<1>13. ASSUME NEW q \in Requests, ShedderLands(q) PROVE Solo'
  <2>1. flying' = flying - 1 BY Zenon, <1>13 DEF ShedderLands, land
  <2>2. flying' <= flying BY <2>1 DEF Tallies
  <2>3. CASE Back(q, status[q]) BY Zenon, <2>2, <2>3, SoloBack
  <2>4. CASE ~Back(q, status[q])
    <3>1. /\ pc' = [pc EXCEPT ![q] = "passed"] /\ stamp' = [stamp EXCEPT ![q] = now - start[q]]
          /\ UNCHANGED <<alone, panics>>
      BY Zenon, <1>13, <2>4 DEF ShedderLands
    <3>2. Lets(flying, flying', panics, panics') BY <2>2, <3>1 DEF Lets, Tallies
    <3>3. \A r \in Requests : alone'[r] => alone[r] \/ (r = q /\ Idle) BY Zenon, <3>1
    <3>4. "passed" # "weigh" BY Zenon
    <3> QED BY Zenon, <3>1, <3>2, <3>3, <3>4, SoloMoves
  <2> QED BY Zenon, <2>3, <2>4
<1>14. ASSUME (\E r \in Replicas : PeriodCleanup(r)) \/ TimePasses \/ UNCHANGED vars
       PROVE  Solo'
  <2>1. UNCHANGED <<chain, pos, pc, stamp, alone, panics>>
    BY Zenon, <1>14 DEF PeriodCleanup, TimePasses, vars, requestVars
  <2> QED BY Zenon, <2>1 DEF Solo, Idle, InsideSet, Inside
<1>15. ASSUME NEW q \in Requests, RequestStep(q) PROVE Solo'
  BY Zenon, <1>1, <1>2, <1>3, <1>4, <1>5, <1>6, <1>7, <1>8, <1>9, <1>10, <1>11, <1>12, <1>13, <1>15
     DEF RequestStep
<1> QED BY Zenon, <1>14, <1>15 DEF Next
=============================================================================
