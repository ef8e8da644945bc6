-------------------------------- MODULE Toy ---------------------------------
(***************************************************************************)
(* toy.cc, compiled with vapor: main saves the resume index of a coroutine *)
(* with seri(), destroys the coroutine, writes the index with resi() into  *)
(* the frame of a new one, and continues that to its end.  The locals of g *)
(* are left out: they are not saved.                                       *)
(*                                                                         *)
(* GCC is external: a frame's index is 2 * n + 2 when the coroutine is     *)
(* suspended at its nth co_await, the one of the initial suspend included; *)
(* a body goes to the co_await that the index names and traps when it      *)
(* names none.                                                             *)
(***************************************************************************)
EXTENDS Vapor

CONSTANTS
  G,        \* the frame type of the function g
  Garbage   \* what a uint16_t elsewhere in a frame may be

VARIABLES
  pc,     \* of main
  at,     \* where c's coroutine is: its co_await, or the end of its body
  index,  \* _Coro_resume_index in its frame
  out,    \* out[k]: what g has put out in its kth call
  stage   \* main's variable

tvars == <<pc, at, index, out, stage>>
vars  == <<vvars, tvars>>

Text  == <<"g susp #1", "g susp #2", "g susp #3", "g out">>
End   == Len(Text)
Idx(n) == 2 * n + 2

\* What a function with the offset o reads in g's frame or overwrites there: the
\* index, the pointers to the code, or a member that no step depends on.
Place(o) == IF {o * 8} = Index(G) THEN "index" ELSE IF o < 16 THEN "code" ELSE "other"

Init ==
  /\ VInit
  /\ pc = "call" /\ at = 0 /\ index = 0
  /\ out = <<>>
  /\ stage = 0

\* main runs when the unit with g is compiled.
Main(l) == pc = l /\ status = "compiled" /\ G \in Frames /\ UNCHANGED vvars

\* The body goes on at n, puts out its text and suspends at the next co_await.
resume(n, to) ==
  /\ at' = n + 1
  /\ index' = Idx(n + 1)
  /\ out' = [out EXCEPT ![Len(out)] = Append(@, Text[n + 1])]
  /\ pc' = to

\* operator(): h().  The index that the frame has decides.
goOn(to) ==
  IF \E n \in 0 .. End - 1 : index = Idx(n)
  THEN resume((index - 2) \div 2, to)
  ELSE pc' = "crash" /\ UNCHANGED <<at, index, out>>

\* c = g(...), the second time behind c.h.destroy(): the initial suspend does not
\* suspend, and g runs to its co_await #1.
Call ==
  /\ \E l \in {"call", "call again"} :
       /\ Main(l)
       /\ out' = Append(out, <<Text[1]>>)
       /\ at' = 1 /\ index' = Idx(1)
       /\ pc' = IF l = "call" THEN "continue" ELSE "resi"
  /\ UNCHANGED stage

\* "continue once"
Continue == Main("continue") /\ goOn("seri") /\ UNCHANGED stage

seri == IF Place(offset["seri"]) = "index" THEN {index} ELSE Garbage

Seri ==
  /\ Main("seri")
  /\ stage' \in seri
  /\ pc' = "call again"
  /\ UNCHANGED <<at, index, out>>

\* Where resi() writes: anywhere if it was patched without being as expected.
resi == IF unit.helpers["resi"] = "expected" THEN {Place(offset["resi"])}
        ELSE {"index", "code", "other"}

\* With g's pointers to its code overwritten the next call crashes.
Resi ==
  /\ Main("resi")
  /\ \E place \in resi :
       /\ pc' = IF place = "code" THEN "crash" ELSE "while"
       /\ index' = IF place = "index" THEN stage ELSE index
  /\ UNCHANGED <<at, out, stage>>

\* while (c) c(): until the coroutine is at its final suspend.
While ==
  /\ at # End
  /\ Main("while") /\ goOn("while")
  /\ UNCHANGED stage

Leave ==
  /\ at = End
  /\ Main("while")
  /\ pc' = "returned"
  /\ UNCHANGED <<at, index, out, stage>>

MainNext == Call \/ Continue \/ Seri \/ Resi \/ While \/ Leave
Next == (VNext /\ UNCHANGED tvars) \/ MainNext

Spec == Init /\ [][Next]_vars /\ WF_vars(VNext /\ UNCHANGED tvars) /\ WF_vars(MainNext)
-----------------------------------------------------------------------------
(* Properties *)

\* vapor gives the two functions a single offset, so main can only be right for
\* g if each of the unit's coroutines has its index where g has it, and if resi()
\* is as vapor expects it.
SamePlace ==
  /\ unit.helpers["resi"] = "expected"
  /\ \A f \in Frames : Index(f) = Index(G)

\* What the second call of g puts out after resi() is what the first one would
\* have put out next: together they are the output of a g that is never
\* interrupted ("continue from" of toy.cc:70; README.md:6).
ContinuesFromSaved ==
  pc \in {"while", "returned", "crash"} /\ SamePlace =>
    /\ pc # "crash"
    /\ IsPrefix(out[1] \o Tail(out[2]), Text)

\* GCC does not hang in the plugin, and a main that is compiled gets to its end
\* in spite of the index that was written behind the back of the coroutine.
Finishes ==
  <>(\/ status = "failed"
     \/ status = "compiled" /\ G \notin Frames
     \/ pc = "returned" /\ out[1] \o Tail(out[2]) = Text
     \/ ~SamePlace /\ pc \in {"returned", "crash"})
=============================================================================
