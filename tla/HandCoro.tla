------------------------------ MODULE HandCoro ------------------------------
(***************************************************************************)
(* A coroutine instrumented as valor.cc's k is by hand: before co_await n  *)
(*     save(n, ...); aw.resize(1);  sn: load(...);                         *)
(*     aw.has(0) ? aw.get_as<...>(0) : co_await ...                        *)
(* so that label n precedes the co_await and a stored result replaces it.  *)
(***************************************************************************)
EXTENDS SerCtx

\* The body runs on from stage n to the next label, or to co_return.
Segment(p, n, e, r) ==
  \E o \in Body(n, e, r) :
    /\ at'    = [at EXCEPT ![p] = o.next]
    /\ env'   = [env EXCEPT ![p] = o.env]
    /\ run'   = [run EXCEPT ![p] = o.next # Done]
    /\ state' = [state EXCEPT ![p] = IF o.next = Done THEN @ ELSE save(o.next, o.env)]
    /\ aw'    = [aw EXCEPT ![p] = IF o.next = Done THEN @ ELSE resize(@)]
    /\ hold'  = [hold EXCEPT ![p] = "none"]
    /\ UNCHANGED wire

\* s0: the body from its beginning.
Begin(p) ==
  /\ at[p] = 0
  /\ run[p]
  /\ Segment(p, 0, env[p], NoRes)

atLabel(p) == at[p] \in Stages /\ run[p]
loaded(p)  == load(aw[p], state[p], env[p])

\* sn, no result stored: the co_await suspends.
Await(p) ==
  /\ atLabel(p)
  /\ ~has(aw[p])
  /\ env' = [env EXCEPT ![p] = loaded(p)]
  /\ run' = [run EXCEPT ![p] = FALSE]
  /\ await_transform(p, aw[p])
  /\ UNCHANGED <<at, state, wire>>

\* sn, a result stored: get_as casts it to the type of the co_await, unless
\* that is void; the body goes on without suspending.
Take(p) ==
  /\ atLabel(p)
  /\ has(aw[p])
  /\ at[p] \in Void \/ Head(aw[p]) \in ResultOf[at[p]]
  /\ Segment(p, at[p], loaded(p), IF at[p] \in Void THEN NoRes ELSE Head(aw[p]))

\* any_cast throws out of the body: unhandled_exception() terminates.
BadCast(p) ==
  /\ atLabel(p)
  /\ has(aw[p])
  /\ at[p] \notin Void
  /\ Head(aw[p]) \notin ResultOf[at[p]]
  /\ Exit(p)

\* operator() at a co_await: the awaiter's await_resume() gives the result,
\* anything of its type if the reference to the awaiter dangles.
Resume(p) ==
  /\ suspended(p)
  /\ \E r \in ResultOf[at[p]] : Segment(p, at[p], env[p], r)

CoroNext(p) == Begin(p) \/ Await(p) \/ Take(p) \/ BadCast(p) \/ Resume(p)

Next == \E p \in Proc : ClientNext(p) \/ CoroNext(p)

Spec == Init /\ [][Next]_vars
-----------------------------------------------------------------------------
\* At a label there are only results in aw, and without them the label was
\* reached by running, right after save().
Labelled(p) ==
  run[p] => /\ hold[p] = "none"
            /\ (atLabel(p) /\ aw[p] = <<>>) => state[p] = save(at[p], env[p])
AtLabelInv == \A p \in Proc : Labelled(p)

\* The inductive invariant.
IInv == CoreInv /\ AtLabelInv
=============================================================================
