----------------------------- MODULE ValetCoro ------------------------------
(***************************************************************************)
(* A coroutine instrumented by valet (valet.h preamble, save and load; the *)
(* expected text in tests/c0.cc).  Around the statement of co_await n:     *)
(*     save(n, ...);  co_await ...;  sn: load(...);                        *)
(* so that label n follows the co_await, whose value is discarded, and aw  *)
(* is never cleared.                                                       *)
(***************************************************************************)
EXTENDS SerCtx

\* Every co_await is void, as in tests/c0.cc: on restoring, the statement that
\* holds the co_await is jumped over and its value would be lost.
ASSUME VoidAssumption == \A n \in Stages : ResultOf[n] = {NoRes}

\* Defect: the locals are saved before the statements that lead to the co_await.
SegmentSavedEarly(p, n, e) ==
  \E o \in Body(n, e, NoRes) :
    /\ at'    = [at EXCEPT ![p] = o.next]
    /\ env'   = [env EXCEPT ![p] = o.env]
    /\ run'   = [run EXCEPT ![p] = FALSE]
    /\ IF o.next = Done
         THEN /\ hold' = [hold EXCEPT ![p] = "none"]
              /\ UNCHANGED <<state, aw>>
         ELSE /\ state' = [state EXCEPT ![p] = save(o.next, e)]
              /\ await_transform(p, aw[p])
    /\ UNCHANGED wire

\* The body runs on from label n to the next co_await, where it suspends, or
\* to co_return.
Segment(p, n, e) ==
  \E o \in Body(n, e, NoRes) :
    /\ at'    = [at EXCEPT ![p] = o.next]
    /\ env'   = [env EXCEPT ![p] = o.env]
    /\ run'   = [run EXCEPT ![p] = FALSE]
    /\ IF o.next = Done
         THEN /\ hold' = [hold EXCEPT ![p] = "none"]
              /\ UNCHANGED <<state, aw>>
         ELSE /\ state' = [state EXCEPT ![p] = save(o.next, o.env)]
              /\ await_transform(p, aw[p])
    /\ UNCHANGED wire

\* _valet_s0: the body from its beginning.
Begin(p) ==
  /\ at[p] = 0
  /\ run[p]
  /\ Segment(p, 0, env[p])

\* _valet_sn: load the saved locals and run on.
Load(p) ==
  /\ at[p] \in Stages
  /\ run[p]
  /\ Segment(p, at[p], load(aw[p], state[p], env[p]))

\* operator() at a co_await: await_resume(), whose value is discarded.
Resume(p) ==
  /\ suspended(p)
  /\ run' = [run EXCEPT ![p] = TRUE]
  /\ UNCHANGED <<at, env, state, aw, hold, wire>>

CoroNext(p) == Begin(p) \/ Load(p) \/ Resume(p)

Next == \E p \in Proc : ClientNext(p) \/ CoroNext(p)

Spec == Init /\ [][Next]_vars
-----------------------------------------------------------------------------
\* From its first co_await on, aw is never empty: load() always loads, for a
\* resumed coroutine what it has just saved.
Labelled(p) == at[p] \in Stages =>
  /\ aw[p] # <<>>
  /\ (run[p] /\ hold[p] # "none") => state[p] = save(at[p], env[p])
AtLabelInv == \A p \in Proc : Labelled(p)

\* The inductive invariant.
IInv == CoreInv /\ AtLabelInv
=============================================================================
