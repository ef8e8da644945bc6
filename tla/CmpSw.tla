------------------------------- MODULE CmpSw --------------------------------
(***************************************************************************)
(* balor/cmp_sw.cc: two Boost fibers, or two coroutines, hand control to   *)
(* each other while the second counts n down.  main chooses between "f",   *)
(* fibers; "c", coro (counter and timer); and "C", coro2 (counter and      *)
(* timer2).  f1 and f2 are the names of the source.                        *)
(***************************************************************************)
EXTENDS Integers, Sequences

CONSTANTS
  MaxInt,   \* the largest int
  MaxDepth  \* resume functions that the stack holds

ASSUME CmpSwAssumption ==
  /\ MaxInt \in Nat
  /\ MaxDepth \in Nat
  /\ MaxDepth >= 2

MinInt == -MaxInt - 1
Ints   == MinInt .. MaxInt

VARIABLES
  mode,   \* a[1]
  arg,    \* a[2]
  n,      \* the number that f2 counts down and f1 reads
  count,  \* c1 and c2; c of counter and timer2
  at,     \* what f1 and f2 are at; for main, the fiber it joins next
  run,    \* who executes; "idle" if the scheduler has nobody to run
  ready,  \* fibers: the queue of the round-robin scheduler
  then,   \* tasks: then in f2's promise, a handle
  val,    \* tasks: val in each promise
  depth   \* tasks: resume functions on the stack

vars == <<mode, arg, n, count, at, run, ready, then, val, depth>>

Parties == {"f1", "f2"}
Null    == "null"
Empty   == -1

\* atoi() gives any int.
Init ==
  /\ mode \in {"f", "c", "C"}
  /\ arg \in Ints
  /\ n = arg
  /\ count = [f \in Parties |-> 0]
  /\ at = [f \in Parties \cup {"main"} |-> IF f = "main" THEN "f1" ELSE "start"]
  /\ run = "main"
  /\ ready = IF mode = "f" THEN <<"f1", "f2">> ELSE <<>>
  /\ then = Null
  /\ val = [f \in Parties |-> Empty]
  /\ depth = 0

Count(f) == count' = [count EXCEPT ![f] = @ + 1]
Goto(f, l) == at' = [at EXCEPT ![f] = l]

\* n--.  An overflow is undefined: the machine's subtraction wraps around, and
\* a build that checks for it traps (Overflow).
decremented(i) == IF i = MinInt THEN MaxInt ELSE i - 1

Overflow ==
  /\ run = "f2"
  /\ n = MinInt
  /\ run' = "crashed"
  /\ UNCHANGED <<mode, arg, n, count, at, ready, then, val, depth>>

-----------------------------------------------------------------------------
(* Fibers, scheduled by Boost in the order in which they became ready. *)

Dispatch(q) ==
  /\ run'   = IF q = <<>> THEN "idle" ELSE Head(q)
  /\ ready' = IF q = <<>> THEN q ELSE Tail(q)

\* Defect: a fiber that yields goes on.
YieldNot(f) == Goto(f, "wait") /\ Dispatch(<<f>> \o ready)

Yield(f) == Goto(f, "wait") /\ Dispatch(Append(ready, f))

\* Defect: main is not told.
TerminateSilent(f) == Goto(f, "done") /\ Dispatch(ready)

\* The end of a fiber makes main ready if it waits for it.
Terminate(f) ==
  /\ Goto(f, "done")
  /\ Dispatch(IF at["main"] = f THEN Append(ready, "main") ELSE ready)

\* f1.join(), f2.join(), then the counts are printed.
Join ==
  /\ mode = "f"
  /\ run = "main"
  /\ at["main"] \in Parties
  /\ IF at[at["main"]] = "done"
       THEN /\ Goto("main", IF at["main"] = "f1" THEN "f2" ELSE "out")
            /\ UNCHANGED <<run, ready>>
       ELSE Dispatch(ready) /\ UNCHANGED at
  /\ UNCHANGED <<mode, arg, n, count, then, val, depth>>

\* Defect: while (++c1, n > 0)
Fiber1Early ==
  /\ mode = "f"
  /\ run = "f1"
  /\ Count("f1")
  /\ IF n > 0 THEN Yield("f1") ELSE Terminate("f1")
  /\ UNCHANGED <<mode, arg, n, then, val, depth>>

\* while (++c1, n >= 0) yield();
Fiber1 ==
  /\ mode = "f"
  /\ run = "f1"
  /\ Count("f1")
  /\ IF n >= 0 THEN Yield("f1") ELSE Terminate("f1")
  /\ UNCHANGED <<mode, arg, n, then, val, depth>>

\* while (++c2, n--) yield();
Fiber2 ==
  /\ mode = "f"
  /\ run = "f2"
  /\ Count("f2")
  /\ n' = decremented(n)
  /\ IF n # 0 THEN Yield("f2") ELSE Terminate("f2")
  /\ UNCHANGED <<mode, arg, then, val, depth>>

-----------------------------------------------------------------------------
(* Tasks *)

\* await_suspend returns a handle, which is resumed: on top of the stack unless
\* the compiler makes it a tail call.
Transfer(h) ==
  \/ run' = h /\ UNCHANGED depth
  \/ depth < MaxDepth /\ run' = h /\ depth' = depth + 1
  \/ depth = MaxDepth /\ run' = "crashed" /\ UNCHANGED depth

Return == run' = "main" /\ depth' = 0

\* coro: f1.coro.resume(); coro2: while (!f1.coro.done()) f1.coro.resume();
Resume ==
  /\ mode \in {"c", "C"}
  /\ run = "main"
  /\ at["main"] # "out"
  /\ at["f1"] # "done"
  /\ run' = "f1"
  /\ depth' = 1
  /\ Goto("main", IF mode = "c" THEN "out" ELSE at["main"])
  /\ UNCHANGED <<mode, arg, n, count, ready, then, val>>

\* coro2 prints f1.get() and f2.get().
Report ==
  /\ mode = "C"
  /\ run = "main"
  /\ at["main"] # "out"
  /\ at["f1"] = "done"
  /\ Goto("main", "out")
  /\ UNCHANGED <<mode, arg, n, count, run, ready, then, val, depth>>

co_return(f) ==
  /\ Goto(f, "done")
  /\ val' = [val EXCEPT ![f] = count'[f]]
  /\ Return

\* Defect: await_suspend stores the handle of t itself.
CounterThenItself ==
  /\ mode \in {"c", "C"}
  /\ run = "f1"
  /\ Count("f1")
  /\ IF at["f2"] # "done"
       THEN /\ then' = "f2"
            /\ Goto("f1", "wait")
            /\ Transfer("f2")
            /\ UNCHANGED val
       ELSE co_return("f1") /\ UNCHANGED then
  /\ UNCHANGED <<mode, arg, n, ready>>

\* Defect: while (++c, true)
CounterForever ==
  /\ mode \in {"c", "C"}
  /\ run = "f1"
  /\ Count("f1")
  /\ then' = "f1"
  /\ Goto("f1", "wait")
  /\ Transfer("f2")
  /\ UNCHANGED <<mode, arg, n, ready, val>>

\* counter: while (++c, !t.coro.done()) co_await t; co_return c;
Counter ==
  /\ mode \in {"c", "C"}
  /\ run = "f1"
  /\ Count("f1")
  /\ IF at["f2"] # "done"
       THEN /\ then' = "f1"
            /\ Goto("f1", "wait")
            /\ Transfer("f2")
            /\ UNCHANGED val
       ELSE co_return("f1") /\ UNCHANGED then
  /\ UNCHANGED <<mode, arg, n, ready>>

\* timer: while (n--) co_yield 0; the yielder resumes what then holds.  Behind
\* the loop the body ends without a co_return, undefined for a promise that has
\* return_value: the final suspension, or a crash.
Timer ==
  /\ mode = "c"
  /\ run = "f2"
  /\ n' = decremented(n)
  /\ \/ n # 0 /\ then' = Null /\ Goto("f2", "wait") /\ Transfer(then)
     \/ n = 0 /\ UNCHANGED then /\ Goto("f2", "done") /\ Return
     \/ n = 0 /\ UNCHANGED <<then, depth>> /\ Goto("f2", "end") /\ run' = "crashed"
  /\ UNCHANGED <<mode, arg, count, ready, val>>

\* Defect: the task is resumed as in timer.
Timer2Transfers ==
  /\ mode = "C"
  /\ run = "f2"
  /\ Count("f2")
  /\ n' = decremented(n)
  /\ IF n # 0
       THEN Goto("f2", "wait") /\ Transfer(then) /\ UNCHANGED val
       ELSE co_return("f2")
  /\ UNCHANGED <<mode, arg, ready, then>>

\* timer2: while (++c, n--) co_await std::suspend_always{}; co_return c;
Timer2 ==
  /\ mode = "C"
  /\ run = "f2"
  /\ Count("f2")
  /\ n' = decremented(n)
  /\ IF n # 0 THEN Goto("f2", "wait") /\ Return /\ UNCHANGED val ELSE co_return("f2")
  /\ UNCHANGED <<mode, arg, ready, then>>

Next ==
  \/ Join \/ Fiber1 \/ Fiber2
  \/ Resume \/ Report \/ Counter \/ Timer \/ Timer2
  \/ Overflow

\* One thread, which runs until main returns or crashes.
Spec == Init /\ [][Next]_vars /\ WF_vars(Next)
-----------------------------------------------------------------------------
(* Properties *)

TypeOK ==
  /\ mode \in {"f", "c", "C"}
  /\ {arg, n} \subseteq Ints
  /\ count \in [Parties -> Nat]
  /\ at \in [Parties \cup {"main"} -> Parties \cup {"start", "wait", "end", "done", "out"}]
  /\ run \in Parties \cup {"main", "idle", "crashed"}
  /\ ready \in Seq(Parties \cup {"main"})
  /\ then \in {"f1", Null}
  /\ val \in [Parties -> Nat \cup {Empty}]
  /\ depth \in 0 .. MaxDepth

\* Fibers and coroutines do the same switches, strictly in turn (README.md:34
\* "called in an alternating order (for fibers, the default round-robin
\* scheduler is hoped to do so)"), unless the number is negative: then f1 of
\* fibers ends in its first turn, and f2 counts on alone.
\* A crash in f2's turn, or on the way to it, leaves the turn with f2.
Turn ==
  IF /\ at["f1"] # "done"
     /\ run = "f2" \/ (run = "crashed" /\ then = "f1" /\ at["f2"] # "end")
  THEN 2 ELSE 1

A == INSTANCE Alternation WITH
  from  <- arg,
  left  <- n,
  turn  <- Turn,
  turns <- count["f1"],
  over  <- at["f1"] = "done"

Alternates == A!ASpec

\* Fibers and coro2 print the same counts of a number that is not negative, and
\* coro2 always prints one more for f1 (cmp_sw.cc:20, 85).
SameCounts ==
  (at["main"] = "out" /\ mode # "c") =>
    /\ arg >= 0 => count = [f \in Parties |-> IF f = "f1" THEN arg + 2 ELSE arg + 1]
    /\ mode = "C" => val = count /\ count["f1"] = count["f2"] + 1

\* The scheduler of coro2 keeps the stack flat, however far f2 counts
\* (cmp_sw.cc:72 "So we cut this").
StackBounded == mode = "C" => depth <= 2

\* Only suspended coroutines are resumed: never a finished one, never a null
\* handle, and what the yielder finds in then is waiting for it.
ResumesSuspended ==
  mode # "f" =>
    /\ run \in Parties => at[run] # "done"
    /\ run = "f2" => then = "f1" /\ at["f1"] = "wait"

\* "When f2 reaches zero, the program terminates" (README.md:34), which a negative
\* number does by wrapping around.  It crashes for three reasons only: coro has
\* used up the stack, timer runs off its end, or the overflow traps.
Terminates == <>( \/ at["main"] = "out" /\ run = "main"
                  \/ run = "crashed" /\ \/ mode = "c" /\ depth = MaxDepth
                                        \/ mode = "c" /\ at["f2"] = "end"
                                        \/ arg < 0 /\ n = MinInt )
=============================================================================
