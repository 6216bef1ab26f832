------------------------------ MODULE TryCatch ------------------------------
(***************************************************************************)
(* errors/try_catch.go, try_catch_chain.go and try_catch_func.go: blocks   *)
(* around a try block, by TryFunc(fun, catch, finally) or by the chain     *)
(* Try(...).Catch(...).DefaultCatch(...).Else(...).Finally(...).Do().      *)
(* A block ends normally or with a panic; what the try block does is left  *)
(* to the module that extends this one.                                    *)
(***************************************************************************)
EXTENDS Naturals, Sequences

CONSTANT NoPanic

VARIABLES
    form,       \* "func" for TryFunc, "chain" for TryHandler
    catches,    \* the errors of the Catch handlers, in order of binding; for
                \* TryFunc <<"any">>, or <<>> when catch is nil
    has,        \* which of "default", "else" and "finally" are bound
    block,      \* the block that runs, "end" when Do or TryFunc is over
    ran,        \* the blocks that have begun, in order
    panic       \* the panic that unwinds the goroutine, or NoPanic

tryVars == <<form, catches, has, block, ran, panic>>

Errors == {"e1", "e2", "text"}     \* "text": not an error, toError wraps it

Handlers == {"else", "catch", "default"}

TryInit ==
    /\ form \in {"func", "chain"}
    /\ IF form = "func"
       THEN catches \in {<<>>, <<"any">>} /\ has \in SUBSET {"finally"}
       ELSE /\ catches \in {<<>>, <<"e1">>, <<"e1", "e2">>, <<"e2", "e2">>}
            /\ has \in SUBSET {"default", "else", "finally"}
    /\ block = "try" /\ ran = <<"try">> /\ panic = NoPanic

Enter(b) == block' = b /\ ran' = Append(ran, b)
Leave == block' = "end" /\ ran' = ran

(* The deferred finally of Do runs on every path, a panic included. *)
ToFinally == IF "finally" \in has THEN Enter("finally") ELSE Leave

(* TryCatch has turned a panic of the try block into an error; the first   *)
(* Catch that matches it, else the default one, else it is thrown again.   *)
Matches(e) == \E i \in DOMAIN catches : catches[i] = e

ChainAfterTry(e) ==
    /\ form = "chain"
    /\ \/ e = NoPanic /\ "else" \in has /\ Enter("else") /\ panic' = NoPanic
       \/ e = NoPanic /\ "else" \notin has /\ ToFinally /\ panic' = NoPanic
       \/ e # NoPanic /\ Matches(e) /\ Enter("catch") /\ panic' = NoPanic
       \/ e # NoPanic /\ ~Matches(e) /\ "default" \in has /\ Enter("default") /\ panic' = NoPanic
       \/ e # NoPanic /\ ~Matches(e) /\ "default" \notin has /\ ToFinally /\ panic' = e

(* TryFunc: without a catch the deferred function panics again before it   *)
(* reaches finally.                                                        *)
FuncAfterTry(e) ==
    /\ form = "func"
    /\ \/ e = NoPanic /\ ToFinally /\ panic' = NoPanic
       \/ e # NoPanic /\ catches # <<>> /\ Enter("catch") /\ panic' = NoPanic
       \/ e # NoPanic /\ catches = <<>> /\ Leave /\ panic' = e

TryEnds(e) ==
    /\ block = "try"
    /\ ChainAfterTry(e) \/ FuncAfterTry(e)
    /\ UNCHANGED <<form, catches, has>>

HandlerSkipsFinally(e) ==          \* mutant: finally is not deferred
    /\ block \in Handlers /\ panic' = e
    /\ IF e # NoPanic THEN Leave ELSE ToFinally
    /\ UNCHANGED <<form, catches, has>>

(* A catch, default or else block ends, by a panic of its own perhaps,     *)
(* which in TryFunc skips finally.                                         *)
HandlerEnds(e) ==
    /\ block \in Handlers /\ panic' = e
    /\ IF form = "func" /\ e # NoPanic THEN Leave ELSE ToFinally
    /\ UNCHANGED <<form, catches, has>>

(* A panic of finally replaces the one that was unwinding. *)
FinallyEnds(e) ==
    /\ block = "finally" /\ Leave
    /\ panic' = IF e # NoPanic THEN e ELSE panic
    /\ UNCHANGED <<form, catches, has>>
-----------------------------------------------------------------------------
(* Do runs its finally exactly once and as the last block on every path,   *)
(* whichever block panics (try_catch_chain.go 53), after at most one of    *)
(* else, catch and default; TryFunc does so unless its catch is nil or     *)
(* panics (try_catch.go 8-19).                                             *)
FinallyLast ==
    /\ \A i, j \in DOMAIN ran : ran[i] \in Handlers /\ ran[j] \in Handlers => i = j
    /\ \A i \in DOMAIN ran : ran[i] = "finally" => i = Len(ran)
    /\ block = "end" /\ "finally" \in has =>
          \/ ran[Len(ran)] = "finally"
          \/ form = "func" /\ panic # NoPanic
=============================================================================
