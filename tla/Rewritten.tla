----------------------------- MODULE Rewritten ------------------------------
(***************************************************************************)
(* What valet's output does: after the tool has left, a coroutine of a     *)
(* file is run as it was written and, in lockstep, as it was rewritten.    *)
(* The latter saves the variables that its text names in front of every    *)
(* co_await and may continue in another process, where only what a load    *)
(* names is given back.                                                    *)
(*                                                                         *)
(* Which values the statements compute and which way a loop goes is not    *)
(* known to valet: both runs make the same choices.                        *)
(***************************************************************************)
EXTENDS ValetTool

CONSTANTS
  Val,  \* the values of variables
  Junk  \* of one that was jumped over, or a parameter of the new call

VARIABLES
  src,    \* the coroutine, with the edits of its output
  pc,     \* position in the text of the coroutine as it was written
  mem,    \* its variables
  rpc,    \* the same of the rewritten one
  rmem,
  state,  \* what was saved last: the number of a stage, and values
  held    \* both are suspended

rvars == <<src, pc, mem, rpc, rmem, state, held>>
all   == <<vars, rvars>>

NoCoroutine == [c |-> [text |-> <<>>, params |-> <<>>], calls |-> {}]
NoState     == [n |-> 0, vals |-> <<>>]

RInit ==
  /\ Init
  /\ src = NoCoroutine
  /\ pc = 0 /\ rpc = 0
  /\ mem = <<>> /\ rmem = <<>>
  /\ state = NoState
  /\ held = FALSE

Text == src.c.text
Executing == src # NoCoroutine /\ ~held /\ pc \in DOMAIN Text /\ UNCHANGED vars

\* The variable that a name in a call stands for.
referent(k, v) == innermost(refers(src.c, k, v))

\* Call a rewritten coroutine whose output compiles.  There is no state: the
\* preamble goes on to the body.
Call ==
  /\ status = 0 /\ src = NoCoroutine
  /\ \E w \in ToSet(written) : \E f \in DOMAIN w.of :
       LET c  == w.of[f]
           es == {e \in w.text.ins : e.f = f /\ e.at # 0}
       IN  /\ es # {}
           /\ \A e \in es : \A v \in ToSet(e.names) : refers(c, e.at, v) # {}
           /\ src' = [c |-> c, calls |-> es]
           /\ \E args \in [{i \in Vars(c) : i <= 0} -> Val] :
                mem' = [i \in Vars(c) |-> IF i <= 0 THEN args[i] ELSE Junk]
  /\ rmem' = mem'
  /\ pc' = 1 /\ rpc' = 1
  /\ UNCHANGED <<vars, state, held>>

\* The close of the block that position o opens, and the other way round.
CloseOf(o) == CHOOSE e \in DOMAIN Text :
  Text[e].k = "close" /\ o = Max({b \in blocks(Text, e) : b # 0})

\* One step of a text at p: where it goes, and its variables.  A `for` declares
\* or updates its variable and enters the body, or goes behind it, by nothing but
\* what it computes; a range-for, which goes by its hidden variables, is not meant.
step(p, m, x, enter) ==
  LET loop(o, e) == IF enter THEN [p |-> o + 1, m |-> [m EXCEPT ![o] = x]] ELSE [p |-> e + 1, m |-> m]
      o == Max(blocks(Text, p))
  IN  CASE Text[p].k = "decl" -> [p |-> p + 1, m |-> [m EXCEPT ![p] = x]]
        [] Text[p].k = "for"  -> loop(p, CloseOf(p))
        [] Text[p].k = "close" /\ Text[o].k = "for" -> loop(o, p)
        [] OTHER -> [p |-> p + 1, m |-> m]

Step ==
  /\ Executing
  /\ Text[pc].k # "await"
  /\ \E x \in Val, enter \in BOOLEAN :
       LET s == step(pc, mem, x, enter)
           r == step(rpc, rmem, x, enter)
       IN  pc' = s.p /\ mem' = s.m /\ rpc' = r.p /\ rmem' = r.m
  /\ UNCHANGED <<src, state, held>>

\* _valet_p->save(n, names...); co_await
Suspend ==
  /\ Executing
  /\ Text[pc].k = "await"
  /\ \E e \in src.calls :
       /\ e.at = rpc
       /\ state' = [n |-> e.n, vals |-> [x \in DOMAIN e.names |-> rmem[referent(rpc, e.names[x])]]]
  /\ held' = TRUE
  /\ UNCHANGED <<src, pc, mem, rpc, rmem>>

\* Defect: the scan runs on to the semicolon of the next statement.
behind_next(k) == k + 2

\* semi_after(): the label and the load are behind the statement.
behind(k) == k + 1

\* What the names in the call e that stand for variable i are the numbers of.
listed(e, i) == {x \in DOMAIN e.names : referent(e.at, e.names[x]) = i}

\* Defect: the list of load() starts with the last variable.
load_reversed(e, m) ==
  [i \in DOMAIN m |-> IF listed(e, i) = {} THEN m[i]
                      ELSE state.vals[Len(e.names) + 1 - Max(listed(e, i))]]

\* _valet_sn: _valet_p->load(names...), in this order: the last value stays.
load(e, m) ==
  [i \in DOMAIN m |-> IF listed(e, i) = {} THEN m[i] ELSE state.vals[Max(listed(e, i))]]

\* Go on behind the co_await whose label is reached, with the variables m.
goOn(e, m) ==
  /\ held
  /\ held' = FALSE
  /\ pc'   = pc + 1
  /\ rpc'  = behind(e.at)
  /\ rmem' = load(e, m)
  /\ UNCHANGED <<vars, src, mem, state>>

\* In the same process: the awaiter is in aw then, so that load() reads back
\* what has just been saved.
Continue == \E e \in src.calls : e.at = rpc /\ goOn(e, rmem)

\* The state is brought to a new process, where the preamble goes to its label.
Migrate == \E e \in src.calls : e.n = state.n /\ goOn(e, [i \in Vars(src.c) |-> Junk])

RNext ==
  \/ Next /\ UNCHANGED rvars
  \/ Call \/ Step \/ Suspend \/ Continue \/ Migrate

RSpec == RInit /\ [][RNext]_all
-----------------------------------------------------------------------------
(* Properties *)

RTypeOK ==
  /\ {pc, rpc} \subseteq 0 .. Len(Text) + 1
  /\ src # NoCoroutine => {mem, rmem} \subseteq [Vars(src.c) -> Val \cup {Junk}]

\* However often it is brought to another process, the rewritten coroutine is
\* where the one that is not rewritten is, with the same values in all variables
\* that are alive there (README.md:6, 13).
Indistinguishable ==
  src # NoCoroutine =>
    /\ rpc = pc
    /\ \A i \in alive(src.c, pc) : rmem[i] = mem[i]
=============================================================================
