---------------------------- MODULE CoroProgram ----------------------------
(***************************************************************************)
(* A coroutine as valor sees it.  Its text is cut into segments by its     *)
(* co_await expressions: stage 0 is the beginning of the body, stage n     *)
(* (1 <= n <= N) is the n-th co_await, and Done stands for co_return.      *)
(* Everything that valor's runtime and the code injected by valet do is    *)
(* parameterised by this program.                                          *)
(***************************************************************************)
EXTENDS Integers, Sequences

CONSTANTS
  N,            \* number of co_await expressions in the coroutine
  Live,         \* Live[n]: names saved at stage n; Live[0]: the parameters
  Val,          \* values of parameters and local variables
  Junk,         \* an indeterminate value (a declaration that was jumped over)
  Default,      \* T{}: what continue_from passes for every parameter
  Result,       \* values of co_await expressions
  ResultOf,     \* ResultOf[n]: results of the type co_await n evaluates to
  NoRes,        \* the only "result" of a void co_await
  Body(_, _, _) \* Body(n, env, r): outcomes of the segment that follows stage n

NoCoro == -1
Done   == N + 1
Stages == 1 .. N
Void   == {n \in 0 .. N : ResultOf[n] = {NoRes}}

\* The names a coroutine's locals can be referred to by at point n; at Done
\* only promise_base::retval is left.
Scope(n) == IF n = NoCoro THEN {} ELSE Live[n]

NoLocals   == [v \in {} |-> Default]
Locals(n)  == [Scope(n) -> Val]
Memory(n)  == [Scope(n) -> Val \cup {Junk}]
Outcome    == UNION {[next : {n}, env : Locals(n)] : n \in 1 .. Done}

ASSUME ProgramAssumption ==
  /\ N \in Nat \ {0}
  /\ N < 65536
  /\ DOMAIN Live = 0 .. Done
  /\ Default \in Val
  /\ NoRes \in Result
  /\ ResultOf \in [0 .. N -> SUBSET Result]
  /\ ResultOf[0] = {NoRes}
  /\ Junk \notin Val

\* A segment reads its locals and the co_await result, and leaves values in the
\* names of the next point.
ASSUME BodyAssumption ==
  \A n \in 0 .. N : \A e \in Locals(n), r \in ResultOf[n] : Body(n, e, r) \subseteq Outcome
=============================================================================
