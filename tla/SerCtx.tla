------------------------------- MODULE SerCtx -------------------------------
(***************************************************************************)
(* valor.h: one ser_ctx handle and its promise_type per process, and what  *)
(* a client does with them.  Strings travel between processes through      *)
(* wire (standard output and input in valor.cc).                           *)
(*                                                                         *)
(* The code that the coroutine itself runs depends on who instrumented it: *)
(* HandCoro and ValetCoro complete this module.  A label is a point of     *)
(* that code: at[p] = n with run[p] means that p executes at label n.      *)
(***************************************************************************)
EXTENDS CoroProgram, FiniteSets

CONSTANTS
  Proc,
  Awaiter,        \* an awaiter object stored in aw by await_transform
  MaxRets,        \* bound: values put in aw by the client
  MaxWire,        \* bound: strings on the wire
  SuppliedAt,     \* client rule of valor.cc:97, aw_ret is always supplied: the
                  \* ways of restoring for which the client keeps to it
  SerializeFresh, \* the client also serializes before the first continuation
  LateAwRet,      \* the client also calls set_aw_ret at a co_await suspension
  LateDeserialize \* the client also deserializes there

ASSUME ClientAssumption ==
  /\ Awaiter \notin Result
  /\ MaxRets \in Nat
  /\ MaxWire \in Nat
  /\ SuppliedAt \subseteq {"start", "continue_from"}
  /\ {SerializeFresh, LateAwRet, LateDeserialize} \subseteq BOOLEAN

VARIABLES
  at,     \* 0: initial suspend, 1..N: co_await, Done: final suspend, NoCoro
  run,    \* the coroutine is executing
  env,    \* its locals in the frame; at Done, promise_base::retval
  state,  \* promise_type::state
  aw,     \* promise_type::aw
  hold,   \* await_transform::ret::a of the suspended co_await
  wire    \* strings handed out, with the coroutine they came from

vars == <<at, run, env, state, aw, hold, wire>>

-----------------------------------------------------------------------------
(* promise_type *)

UInt16 == 65536

\* A serialized tuple (stage, values...); the empty string reads as stage 0.
NoState == [stage |-> 0, vals |-> NoLocals]
Saved   == UNION {[stage : {n}, vals : Locals(n)] : n \in Stages}

\* Defects: the label number of the following co_await; the variables are moved
\* from before they are serialized.
save_next(n, e)  == [stage |-> (n + 1) % UInt16, vals |-> e]
save_moved(n, e) == [stage |-> n % UInt16, vals |-> [v \in DOMAIN e |-> Default]]

save(n, e) == [stage |-> n % UInt16, vals |-> e]
stage(s)   == s.stage % UInt16

\* Defect: load() leaves the variables as they are.
load_nothing(w, s, e) == e

\* load() does nothing unless something is stored in aw.
load(w, s, e) == IF w = <<>> THEN e ELSE [v \in DOMAIN e |-> s.vals[v]]

\* Defect: resize() keeps what is stored.
resize_keeps(w) == w

has(w)    == w # <<>>                        \* aw.has(0); no std::any in aw is empty
resize(w) == SubSeq(w, 1, 0)                 \* clear(), then reserve()
put(w, x) == Append(w, x)

\* Awaiting with an empty aw stores the awaiter there and refers to it; with
\* a non-empty aw the awaiter is kept in the frame.
await_transform(p, w) ==
  /\ aw'   = [aw EXCEPT ![p] = IF w = <<>> THEN put(w, Awaiter) ELSE w]
  /\ hold' = [hold EXCEPT ![p] = IF w = <<>> THEN "ref" ELSE "own"]

\* The jump at the head of the body passes every declaration on its way, so
\* only the parameters have values.
jump(n, e) == [v \in Live[n] |-> IF v \in Live[0] THEN e[v] ELSE Junk]

-----------------------------------------------------------------------------
(* The handle and its client *)

RetSeq == UNION {[1 .. k -> Result] : k \in 0 .. MaxRets}

Init ==
  /\ at    = [p \in Proc |-> NoCoro]
  /\ run   = [p \in Proc |-> FALSE]
  /\ env   = [p \in Proc |-> NoLocals]
  /\ state = [p \in Proc |-> NoState]
  /\ aw    = [p \in Proc |-> <<>>]
  /\ hold  = [p \in Proc |-> "none"]
  /\ wire  = {}

fresh(p)     == at[p] = 0 /\ ~run[p]
suspended(p) == at[p] \in Stages /\ ~run[p]

\* The coroutine that p's promise stands for: a deserialized state counts
\* until load() has brought it into the frame.
Pending(p) ==
  \/ fresh(p) /\ stage(state[p]) # 0
  \/ at[p] \in Stages /\ run[p] /\ aw[p] # <<>>
absAt(p)   == IF fresh(p) THEN stage(state[p]) ELSE at[p]
absEnv(p)  == IF Pending(p) THEN state[p].vals ELSE env[p]
absDue(p)  == IF hold[p] = "none" /\ at[p] # Done THEN aw[p] ELSE <<>>

\* Call the coroutine function: a lazily started coroutine with its arguments.
CallWith(p, e) ==
  /\ at[p] = NoCoro
  /\ at'  = [at EXCEPT ![p] = 0]
  /\ env' = [env EXCEPT ![p] = e]
  /\ UNCHANGED <<run, state, aw, hold, wire>>

Call(p) == \E e \in Locals(0) : CallWith(p, e)

Deserialize(p) ==
  /\ fresh(p) \/ (LateDeserialize /\ suspended(p))
  /\ \E w \in wire : state' = [state EXCEPT ![p] = w.str]
  /\ UNCHANGED <<at, run, env, aw, hold, wire>>

\* emplace_back may move the elements: a reference into aw dangles then.
SetAwRet(p) ==
  /\ fresh(p) \/ (LateAwRet /\ suspended(p))
  /\ Len(aw[p]) < MaxRets
  /\ \E x \in Result : aw' = [aw EXCEPT ![p] = put(@, x)]
  /\ \E h \in {"dangling", hold[p]} :
       /\ h = "dangling" => hold[p] = "ref"
       /\ hold' = [hold EXCEPT ![p] = h]
  /\ UNCHANGED <<at, run, env, state, wire>>

\* First continuation: the head of the body goes to the label of the stage.
Start(p) ==
  /\ fresh(p)
  /\ ("start" \in SuppliedAt /\ stage(state[p]) # 0) => aw[p] # <<>>
  /\ at'  = [at EXCEPT ![p] = stage(state[p])]
  /\ env' = [env EXCEPT ![p] = jump(stage(state[p]), @)]
  /\ run' = [run EXCEPT ![p] = TRUE]
  /\ UNCHANGED <<state, aw, hold, wire>>

\* Defects: aw is resized after the results were set; the coroutine is started
\* before the string is in its state.
continue_from_resized(p, s, rets) ==
  /\ at[p] = NoCoro
  /\ state' = [state EXCEPT ![p] = s]
  /\ at'    = [at EXCEPT ![p] = stage(s)]
  /\ env'   = [env EXCEPT ![p] = jump(stage(s), [v \in Live[0] |-> Default])]
  /\ run'   = [run EXCEPT ![p] = TRUE]
  /\ UNCHANGED <<aw, hold, wire>>

continue_from_early(p, s, rets) ==
  /\ at[p] = NoCoro
  /\ state' = [state EXCEPT ![p] = s]
  /\ aw'    = [aw EXCEPT ![p] = rets]
  /\ at'    = [at EXCEPT ![p] = 0]
  /\ env'   = [env EXCEPT ![p] = [v \in Live[0] |-> Default]]
  /\ run'   = [run EXCEPT ![p] = TRUE]
  /\ UNCHANGED <<hold, wire>>

\* continue_from(s, fun, rets...): create, deserialize, resize, set every
\* result, start.  The string is empty when there was none to read.
continue_from(p, s, rets) ==
  /\ at[p] = NoCoro
  /\ state' = [state EXCEPT ![p] = s]
  /\ aw'    = [aw EXCEPT ![p] = rets]
  /\ at'    = [at EXCEPT ![p] = stage(s)]
  /\ env'   = [env EXCEPT ![p] = jump(stage(s), [v \in Live[0] |-> Default])]
  /\ run'   = [run EXCEPT ![p] = TRUE]
  /\ UNCHANGED <<hold, wire>>

ContinueFrom(p) ==
  \E s \in {NoState} \cup {w.str : w \in wire}, rets \in RetSeq :
    /\ "continue_from" \in SuppliedAt => rets # <<>>
    /\ continue_from(p, s, rets)

\* serialize() asserts that the coroutine is not done.
Serialize(p) ==
  /\ suspended(p) \/ (SerializeFresh /\ fresh(p))
  /\ wire' = wire \cup {[str |-> state[p], of |-> [at |-> absAt(p), env |-> absEnv(p)]]}
  /\ Cardinality(wire') <= MaxWire
  /\ UNCHANGED <<at, run, env, state, aw, hold>>

\* get() moves the return value out.
Get(p) ==
  /\ at[p] = Done
  /\ \E e \in Locals(Done) : env' = [env EXCEPT ![p] = e]
  /\ UNCHANGED <<at, run, state, aw, hold, wire>>

\* ser_ctx's destructor or the end of the process: the memory is gone.
Exit(p) ==
  /\ at[p] # NoCoro
  /\ at'    = [at EXCEPT ![p] = NoCoro]
  /\ run'   = [run EXCEPT ![p] = FALSE]
  /\ env'   = [env EXCEPT ![p] = NoLocals]
  /\ state' = [state EXCEPT ![p] = NoState]
  /\ aw'    = [aw EXCEPT ![p] = <<>>]
  /\ hold'  = [hold EXCEPT ![p] = "none"]
  /\ UNCHANGED wire

ClientNext(p) ==
  \/ Call(p) \/ Deserialize(p) \/ SetAwRet(p) \/ Start(p) \/ ContinueFrom(p)
  \/ Serialize(p) \/ Get(p) \/ Exit(p)
-----------------------------------------------------------------------------
(* Properties *)

\* A client that keeps to the rules of valor.cc.
Rules == SuppliedAt = {"start", "continue_from"} /\ ~SerializeFresh /\ ~LateDeserialize

TypeOK ==
  /\ at \in [Proc -> -1 .. Done]
  /\ run \in [Proc -> BOOLEAN]
  /\ env \in [Proc -> UNION {Memory(n) : n \in -1 .. Done}]
  /\ \A p \in Proc : env[p] \in Memory(at[p])
  /\ state \in [Proc -> Saved \cup {NoState}]
  /\ aw \in [Proc -> Seq(Result \cup {Awaiter})]
  /\ hold \in [Proc -> {"none", "own", "ref", "dangling"}]
  /\ \A w \in wire : w.str \in Saved \cup {NoState}

\* The string that serialize() returns for a coroutine suspended at a co_await
\* names that co_await and the present values of its locals, whatever path of
\* saves, restores and continuations led there (valor.h:39, 113).
SavedIsCurrent ==
  \A p \in Proc : suspended(p) => state[p] = save(at[p], env[p])

\* Two coroutines that serialize to the same string are in the same place with
\* the same locals: nothing that distinguishes them is lost (README.md:6, 20).
WireFaithful ==
  \A v, w \in wire : v.str = w.str => v.of = w.of

\* What makes the two hold, for every process and every string: a handle
\* without a coroutine is clean; a coroutine that has not reached a co_await has
\* no awaiter, only results, and one that is suspended there has one; one that
\* restores its locals is at the label of its state; and a string says where its
\* coroutine was.
Clean(p)     == at[p] = NoCoro => /\ ~run[p]
                                  /\ state[p] = NoState
                                  /\ aw[p] = <<>>
NotYet(p)    == at[p] \in {NoCoro, 0} => hold[p] = "none"
Awaiting(p)  == suspended(p) => hold[p] # "none"
Finished(p)  == at[p] = Done => ~run[p]
Whole(p)     == at[p] \in {0, Done} => env[p] \in Locals(at[p])
Restoring(p) == (at[p] \in Stages /\ run[p] /\ aw[p] # <<>>) => stage(state[p]) = at[p]
Supplied(p)  == (at[p] \in 0 .. N /\ hold[p] = "none") => aw[p] \in RetSeq

CoroInv == \A p \in Proc :
  Clean(p) /\ NotYet(p) /\ Awaiting(p) /\ Finished(p) /\ Whole(p) /\ Restoring(p) /\ Supplied(p)

WireInv == \A w \in wire :
  /\ w.str \in Saved
  /\ w.of = [at |-> stage(w.str), env |-> w.str.vals]

CoreInv == TypeOK /\ SavedIsCurrent /\ CoroInv /\ WireInv

\* Every step of the handles and of the injected code is a step or a stutter of
\* the coroutine the client thinks of (valor.h:143 continue_from, README.md:23).
C == INSTANCE Coro WITH
  pos   <- [p \in Proc |-> absAt(p)],
  loc   <- [p \in Proc |-> absEnv(p)],
  due   <- [p \in Proc |-> absDue(p)],
  store <- {w.of : w \in wire}

ImplementsCoro == C!CSpec

\* The same, with every result of the right type that is in aw counted as the
\* result of the co_await, also one set at a co_await suspension: "Set the next
\* awaiter retval before continuing a suspended coro" (valor.h:50).
fitting(p) == LET fits(x) == x \in ResultOf[absAt(p)]
              IN  IF at[p] \in {NoCoro, Done} THEN <<>> ELSE SelectSeq(aw[p], fits)

D == INSTANCE Coro WITH
  pos   <- [p \in Proc |-> absAt(p)],
  loc   <- [p \in Proc |-> absEnv(p)],
  due   <- [p \in Proc |-> fitting(p)],
  store <- {w.of : w \in wire}

SetAwRetCounts == D!CSpec
=============================================================================
