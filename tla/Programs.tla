------------------------------ MODULE Programs ------------------------------
(***************************************************************************)
(* The coroutines of valor.cc and tests/c0.cc as programs in the sense of  *)
(* CoroProgram: which names each stage saves and what each segment of the  *)
(* text between two stages computes.  An integer i stands for i div 4      *)
(* modulo M, 4 being its alignment; Addr is what addresses of variables    *)
(* are in these units.                                                     *)
(***************************************************************************)
EXTENDS Integers

CONSTANTS M, Addr, NoRes

Ints    == 0 .. M - 1
lit(i)  == (i \div 4) % M

\* i += size_t(&i); of an indeterminate i, anything.
nontriv_work(i) == IF i \in Ints THEN {(i + a) % M : a \in Addr} ELSE Ints

To(n, E) == [next : {n}, env : E]

\* k(in): two stages.  `in` is the parameter, `j` the value of the first
\* co_await.
kLive == [n \in 0 .. 3 |-> CASE n = 2 -> {"in", "j"}
                             [] n = 3 -> {"retval"}
                             [] OTHER -> {"in"}]
kResultOf == [n \in 0 .. 2 |-> IF n = 1 THEN Ints ELSE {NoRes}]

k(n, e, r) ==
  CASE n = 0 -> To(1, [in : nontriv_work(e.in)])
    [] n = 1 -> To(2, [in : {e.in}, j : nontriv_work(r)])
    [] n = 2 -> To(3, [retval : {lit(14)}])

\* f(in) of tests/c0.cc:74-84: `x` is gone before the first stage.
fLive == kLive
fResultOf == [n \in 0 .. 2 |-> {NoRes}]

f(n, e, r) ==
  CASE n = 0 -> To(1, [in : nontriv_work(e.in)])
    [] n = 1 -> To(2, [in : {e.in}, j : nontriv_work(lit(17))])
    [] n = 2 -> To(3, [retval : {lit(14)}])
=============================================================================
