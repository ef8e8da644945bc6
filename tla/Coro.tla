-------------------------------- MODULE Coro --------------------------------
(***************************************************************************)
(* What valor promises: coroutines whose suspended state is a value.  A    *)
(* copy may be begun, stepped from one suspension point to the next,       *)
(* recorded in a store, and revived from the store in any process, where   *)
(* it goes on exactly as the recorded one would have.  Nothing here knows  *)
(* of strings, awaiters, jump tables or frames.                            *)
(***************************************************************************)
EXTENDS CoroProgram

CONSTANTS
  Proc,     \* operating-system processes, one coroutine each
  MaxRets   \* bound: results supplied for one co_await

\* Sequences of supplied results.
RetSeq == UNION {[1 .. k -> Result] : k \in 0 .. MaxRets}

VARIABLES
  pos,    \* pos[p]: suspension point of p's coroutine, or NoCoro
  loc,    \* loc[p]: values of the names in scope there
  due,    \* due[p]: results supplied for p's next co_await
  store   \* recorded coroutine states

cvars == <<pos, loc, due, store>>

CInit ==
  /\ pos = [p \in Proc |-> NoCoro]
  /\ loc = [p \in Proc |-> NoLocals]
  /\ due = [p \in Proc |-> <<>>]
  /\ store = {}

Place(p, n, e, d) ==
  /\ pos' = [pos EXCEPT ![p] = n]
  /\ loc' = [loc EXCEPT ![p] = e]
  /\ due' = [due EXCEPT ![p] = d]

\* Create a coroutine; results may be supplied before it first runs.
Begin(p) ==
  /\ pos[p] = NoCoro
  /\ \E e \in Locals(0), d \in RetSeq : Place(p, 0, e, d)
  /\ UNCHANGED store

\* Take a recorded state in place of an absent or unfinished coroutine.
Revive(p) ==
  /\ pos[p] # Done
  /\ \E c \in store, d \in RetSeq : Place(p, c.at, c.env, d)
  /\ UNCHANGED store

Supply(p) ==
  /\ pos[p] \in 0 .. N
  /\ Len(due[p]) < MaxRets
  /\ \E x \in Result : due' = [due EXCEPT ![p] = Append(@, x)]
  /\ UNCHANGED <<pos, loc, store>>

\* Run from the present point to the next one.  The co_await evaluates to the
\* supplied result if there is one, else to some result of its type.
Step(p) ==
  /\ pos[p] \in 0 .. N
  /\ \E r \in ResultOf[pos[p]] :
       /\ (due[p] # <<>> /\ pos[p] \notin Void) => r = Head(due[p])
       /\ \E o \in Body(pos[p], loc[p], r) : Place(p, o.next, o.env, <<>>)
  /\ UNCHANGED store

Record(p) ==
  /\ pos[p] \in 0 .. N
  /\ store' = store \cup {[at |-> pos[p], env |-> loc[p]]}
  /\ UNCHANGED <<pos, loc, due>>

\* The return value is moved out: what stays behind is unspecified.
Collect(p) ==
  /\ pos[p] = Done
  /\ \E e \in Locals(Done) : loc' = [loc EXCEPT ![p] = e]
  /\ UNCHANGED <<pos, due, store>>

Vanish(p) ==
  /\ pos[p] # NoCoro
  /\ Place(p, NoCoro, NoLocals, <<>>)
  /\ UNCHANGED store

CNext == \E p \in Proc :
  Begin(p) \/ Revive(p) \/ Supply(p) \/ Step(p) \/ Record(p) \/ Collect(p) \/ Vanish(p)

CSpec == CInit /\ [][CNext]_cvars
=============================================================================
