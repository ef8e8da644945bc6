------------------------------ MODULE Pipeline ------------------------------
(***************************************************************************)
(* valor.cc's main as make check runs it: `./valor s | ./valor r`.  The    *)
(* first process starts k, serializes it at its first suspension and       *)
(* writes the string to standard output, which is flushed when the process *)
(* ends; the second reads standard input to its end and continues from     *)
(* what it read until the coroutine is done.  The first process may crash. *)
(***************************************************************************)
EXTENDS HandCoro

CONSTANTS
  Saver, Reader, \* the two processes
  Rets           \* what restoring() may pass as aw_ret; 29 in valor.cc

ASSUME PipelineAssumption ==
  /\ Proc = {Saver, Reader}
  /\ Saver # Reader
  /\ Rets \subseteq Result
  /\ MaxRets >= 1

VARIABLES
  pc,    \* where saving() and restoring() are; "ended": out of main
  cout,  \* the saver's output buffer; NoState when empty
  pipe   \* what the reader will find; NoState when empty

pvars == <<pc, cout, pipe>>

PInit ==
  /\ Init
  /\ pc   = [p \in {Saver, Reader} |-> IF p = Saver THEN "saving" ELSE "main"]
  /\ cout = NoState
  /\ pipe = NoState

Goto(p, l) == pc' = [pc EXCEPT ![p] = l]
Runs(p)    == run[p] /\ CoroNext(p) /\ UNCHANGED pvars

\* start(k(45)), for any argument; the coroutine runs to its first suspension.
Saving ==
  \/ /\ pc[Saver] = "saving"
     /\ Call(Saver)
     /\ Goto(Saver, "start")
     /\ UNCHANGED <<cout, pipe>>
  \/ /\ pc[Saver] = "start"
     /\ Start(Saver)
     /\ Goto(Saver, "serialize")
     /\ UNCHANGED <<cout, pipe>>

\* std::cout << coro.serialize()
Write ==
  /\ pc[Saver] = "serialize"
  /\ ~run[Saver]
  /\ Serialize(Saver)
  /\ cout' = state[Saver]
  /\ Goto(Saver, "end")
  /\ UNCHANGED pipe

\* The coroutine is destroyed, the output flushed and the pipe closed.
End ==
  /\ pc[Saver] = "end"
  /\ Exit(Saver)
  /\ pipe' = cout
  /\ Goto(Saver, "ended")
  /\ UNCHANGED cout

\* The saver is killed: the output that was not flushed is lost.
Crash ==
  /\ pc[Saver] # "ended"
  /\ IF at[Saver] = NoCoro THEN UNCHANGED vars ELSE Exit(Saver)
  /\ Goto(Saver, "ended")
  /\ UNCHANGED <<cout, pipe>>

\* Standard input has ended: restoring() begins.
Restore ==
  /\ pc[Reader] = "main"
  /\ pc[Saver] = "ended"
  /\ \E ret \in Rets : continue_from(Reader, pipe, <<ret>>)
  /\ Goto(Reader, "loop")
  /\ UNCHANGED <<cout, pipe>>

\* Defect: if (coro) coro();
LoopOnce ==
  /\ pc[Reader] = "loop"
  /\ Resume(Reader)
  /\ Goto(Reader, "ended")
  /\ UNCHANGED <<cout, pipe>>

\* while (coro) coro();
Loop ==
  /\ pc[Reader] = "loop"
  /\ Resume(Reader)
  /\ UNCHANGED pvars

\* coro.get()
Retval ==
  /\ pc[Reader] = "loop"
  /\ Get(Reader)
  /\ Goto(Reader, "ended")
  /\ UNCHANGED <<cout, pipe>>

SaverNext  == Saving \/ Write \/ End \/ Runs(Saver)
ReaderNext == Restore \/ Loop \/ Retval \/ Runs(Reader)

PNext == SaverNext \/ Crash \/ ReaderNext

\* Both programs run to their end unless they are killed.
Fairness == WF_<<vars, pvars>>(SaverNext) /\ WF_<<vars, pvars>>(ReaderNext)

PSpec == PInit /\ [][PNext]_<<vars, pvars>> /\ Fairness
-----------------------------------------------------------------------------
(* What the properties ask of the coroutine, as k is: it never goes back, does  *)
(* not change its parameters behind the first co_await, and awaits the type    *)
(* that aw_ret has, or nothing.                                                *)

Forward ==
  \A n \in 0 .. N : \A e \in Locals(n), r \in ResultOf[n] : \A o \in Body(n, e, r) : o.next >= n

KeepsParameters ==
  \A n \in Stages :
    /\ Live[0] \subseteq Live[n]
    /\ \A e \in Locals(n), r \in ResultOf[n] : \A o \in Body(n, e, r) :
         o.next # Done => \A v \in Live[0] : o.env[v] = e[v]

AwaitsRets == \A n \in Stages \ Void : Rets \subseteq ResultOf[n]
-----------------------------------------------------------------------------
PTypeOK ==
  /\ TypeOK
  /\ pc \in [{Saver, Reader} -> {"main", "saving", "start", "serialize", "end", "loop", "ended"}]
  /\ {cout, pipe} \subseteq Saved \cup {NoState}

\* The second process continues where the first left off (README.md:23): if
\* anything was written it never runs what precedes the recorded suspension.
NothingRunsTwice ==
  (pipe # NoState /\ pc[Reader] = "loop") => at[Reader] >= stage(pipe)

\* A parameter that the coroutine does not change after its first suspension
\* has the same value in the other process until the coroutine is done
\* (README.md:6, 23).
HandedOver ==
  (pipe # NoState /\ at[Reader] \in Stages) =>
    \A v \in Live[0] : absEnv(Reader)[v] = pipe.vals[v]

\* The reader finishes the coroutine, even from the empty string.
ReaderFinishes == <>[](pc[Reader] = "ended" /\ at[Reader] = Done)
=============================================================================
