----------------------------- MODULE ValetTool ------------------------------
(***************************************************************************)
(* valet: one object of class valet (valet.h) is taken over the source     *)
(* files of a command line, or over standard input.  In each file the      *)
(* matcher calls run() for every pair of a co_await and a variable of a    *)
(* coroutine; at the end of the file rewrite() inserts the calls and the   *)
(* edited buffers are written.                                             *)
(*                                                                         *)
(* A file is a sequence of coroutines, and the text of a coroutine is a    *)
(* sequence of items: the blocks' "open" and "close", a "for" that         *)
(* declares a variable and opens the block of its body, a "decl" of a      *)
(* variable, a "lambda" with a parameter, the "if" of an unbraced          *)
(* statement, and the statement that is a "co_await".  A variable, like a  *)
(* co_await or a block, is known by its position; parameters have the      *)
(* positions up to 0, block 0 is the body, and the position behind the     *)
(* text is that of no variable.  A coroutine may be of the kind that is    *)
(* marked valor_skip ("skip"), that has its co_awaits in a macro           *)
(* ("macro"), or that clang dropped with an error ("broken"); others are   *)
(* "plain".                                                                *)
(***************************************************************************)
EXTENDS Integers, FiniteSets, SequencesExt

CONSTANTS
  Inputs  \* command lines: the files, standard input if stdin; verbose, and
          \* args, the compiler options that the user adds

VARIABLES
  cmd,
  todo,     \* files not yet begun
  file,     \* the file being processed
  matches,  \* the matches that run() is still to be called for
  stages,   \* stages[c]: what is known of coroutine c's co_awaits
  buffer,   \* the Rewriter's buffer for the main file's id
  written,  \* outputs, in order
  opts,     \* the compiler options of the file
  failed,   \* clang has reported an error
  status    \* of the process: Running or its exit status

vars == <<cmd, todo, file, matches, stages, buffer, written, opts, failed, status>>

NoFile   == <<>>
NoBuffer == [base |-> NoFile, ins |-> {}]
Running  == -1

Init ==
  /\ cmd \in Inputs
  /\ todo = cmd.files
  /\ file = NoFile
  /\ matches = {}
  /\ stages = <<>>
  /\ buffer = NoBuffer
  /\ written = <<>>
  /\ opts = <<>>
  /\ failed = FALSE
  /\ status = Running

-----------------------------------------------------------------------------
(* What the syntax tree says *)

Awaits(c) == {k \in DOMAIN c.text : c.text[k].k = "await"}
Vars(c)   == (1 - Len(c.params) .. 0)
               \cup {i \in DOMAIN c.text : c.text[i].k \in {"decl", "for", "lambda"}}
isParm(c, i) == i <= 0 \/ c.text[i].k = "lambda"
none(c)    == Len(c.text) + 1
name(c, i) == IF i <= 0 THEN c.params[i + Len(c.params)] ELSE c.text[i].v

Opens(t, a, b)  == Cardinality({x \in a .. b : t[x].k \in {"open", "for"}})
Closes(t, a, b) == Cardinality({x \in a .. b : t[x].k = "close"})

\* The blocks that position i is in.
blocks(t, i) == {0} \cup
  {j \in 1 .. i - 1 : /\ t[j].k \in {"open", "for"}
                      /\ \A e \in j + 1 .. i - 1 : Closes(t, j + 1, e) <= Opens(t, j + 1, e)}

\* unless(valor_skip()), which skip_attr's handler collects while clang parses; a
\* coroutine without a body is not in the tree.
matched(c) == c.kind \notin {"skip", "broken"}

\* Both findAll() of the matcher: a call of run() for every variable with every
\* co_await; without variables, for every co_await.
Bound(c)   == IF Vars(c) = {} THEN {none(c)} ELSE Vars(c)
Matches(f) ==
  UNION {{[f |-> c, await |-> k, var |-> i] : k \in Awaits(f[c]), i \in Bound(f[c])} :
         c \in {x \in DOMAIN f : matched(f[x])}}

\* The order of the text, that of the variables first.
before(m, n) ==
  \/ m.f < n.f
  \/ m.f = n.f /\ m.var < n.var
  \/ m.f = n.f /\ m.var = n.var /\ m.await < n.await

\* What a command line is made of; blocks are closed, and a file has a function.
Balanced(t) ==
  /\ Opens(t, 1, Len(t)) = Closes(t, 1, Len(t))
  /\ \A e \in DOMAIN t : Closes(t, 1, e) <= Opens(t, 1, e)
Item == [k : {"open", "close", "await", "if"}] \cup [k : {"decl", "for", "lambda"}, v : STRING]
Coroutine ==
  [kind : {"plain", "skip", "macro", "broken"}, params : Seq(STRING),
   text : {t \in Seq(Item) : Balanced(t)}]
SourceFile == Seq(Coroutine) \ {<<>>}

ASSUME ValetToolAssumption ==
  Inputs \subseteq [stdin : BOOLEAN, verbose : BOOLEAN, args : Seq(STRING), files : Seq(SourceFile)]

-----------------------------------------------------------------------------
(* The tool *)

Std   == "-std=c++20"
Clang == "clang-tool"

\* Behind the first of args, which is the tool, if there is one: on standard input
\* there is none, and the first one is the user's.
cc_opts(args) ==
  LET at == IF args = <<>> THEN 1 ELSE 2
      with == InsertAt(args, at, Std)
  IN  IF cmd.verbose THEN InsertAt(with, at + 1, "-v") ELSE with

\* handleBeginSource(): a new source manager, whose main file has the id of the
\* last one's; the attributes of the last file are forgotten.  Unless verbose,
\* clang's diagnostics are suppressed, and it does not count the errors then.
BeginSource ==
  /\ status = Running
  /\ file = NoFile
  /\ todo # <<>>
  /\ file'    = Head(todo)
  /\ todo'    = Tail(todo)
  /\ matches' = Matches(file')
  /\ stages'  = [c \in DOMAIN file' |-> <<>>]
  /\ opts'    = cc_opts(IF cmd.stdin THEN cmd.args ELSE <<Clang>> \o cmd.args)
  /\ failed'  = (failed \/ (cmd.verbose /\ \E c \in DOMAIN file' : file'[c].kind = "broken"))
  /\ UNCHANGED <<cmd, buffer, written, status>>

\* The innermost block around a variable's declaration.
block_of(c, i) == CHOOSE b \in blocks(c.text, i) : \A x \in blocks(c.text, i) : x <= b

ensure_stage_for(ss, c, k) ==
  IF \E n \in DOMAIN ss : ss[n].aw = k THEN ss
  ELSE Append(ss, [aw |-> k, scope |-> blocks(c.text, k), vars |-> <<>>])

\* Defects: every variable is captured; every one that is declared before.
captured_any(c, st, i)    == TRUE
captured_before(c, st, i) == i < st.aw

captured(c, st, i) ==
  /\ i # none(c)
  /\ i < st.aw
  /\ isParm(c, i) \/ block_of(c, i) \in st.scope

\* The stages ss of c, in which a variable of the match m joins its co_await's.
added(ss, c, m) ==
  [n \in DOMAIN ss |->
     IF ss[n].aw = m.await /\ captured(c, ss[n], m.var)
     THEN [ss[n] EXCEPT !.vars = Append(@, m.var)] ELSE ss[n]]

\* One call of run(), in the order of the text: the stage of the co_await is
\* looked up or added, and the variable joins it if it is declared before, in a
\* block around the co_await.
Run ==
  /\ status = Running
  /\ \E m \in matches :
       /\ \A n \in matches \ {m} : before(m, n)
       /\ matches' = matches \ {m}
       /\ stages' = [stages EXCEPT ![m.f] = added(ensure_stage_for(@, file[m.f], m.await), file[m.f], m)]
  /\ UNCHANGED <<cmd, todo, file, buffer, written, opts, failed, status>>

\* rewrite(): the preamble with its number of labels behind the brace of the
\* body; save(n, ...) in front of the nth co_await, _sn: load(...) behind it.
edits ==
  UNION {LET ss == stages[c] IN
         IF ss = <<>> THEN {} ELSE
           {[f |-> c, at |-> 0, n |-> Len(ss), names |-> <<>>]} \cup
           {[f |-> c, at |-> ss[n].aw, n |-> n,
             names |-> [x \in DOMAIN ss[n].vars |-> name(file[c], ss[n].vars[x])]] :
              n \in DOMAIN ss} : c \in DOMAIN file}

\* The first edit of a file id copies the file's text to its buffer.
edited(b, es) ==
  IF es = {} THEN b
  ELSE [base |-> IF b = NoBuffer THEN file ELSE b.base, ins |-> b.ins \cup es]

\* The Rewriter refuses to insert into a macro.
refused == \E c \in DOMAIN stages : stages[c] # <<>> /\ file[c].kind = "macro"

AtEnd == status = Running /\ file # NoFile /\ matches = {}

\* handleEndSource(): rewrite and write the buffer, if there is one.
EndSource ==
  /\ AtEnd
  /\ ~refused
  /\ buffer'  = edited(buffer, edits)
  /\ written' = IF buffer' = NoBuffer THEN written
                ELSE Append(written, [of |-> file, text |-> buffer'])
  /\ stages'  = <<>>
  /\ file'    = NoFile
  /\ UNCHANGED <<cmd, todo, matches, opts, failed, status>>

\* Defect: bail() does not exit, the file remains without output.
bail_not == stages' = <<>> /\ file' = NoFile /\ UNCHANGED status

\* What is written stays, and nothing more is done.
bail == status' = 2 /\ UNCHANGED <<stages, file>>

\* An insertion is refused, or the output file cannot be opened.
Bail ==
  /\ AtEnd
  /\ refused \/ (~cmd.stdin /\ edited(buffer, edits) # NoBuffer)
  /\ bail
  /\ UNCHANGED <<cmd, todo, matches, buffer, written, opts, failed>>

\* main: return !runToolOnCodeWithArgs(...) or ct.run(...).
Leave ==
  /\ status = Running
  /\ file = NoFile
  /\ todo = <<>>
  /\ status' = IF failed THEN 1 ELSE 0
  /\ UNCHANGED <<cmd, todo, file, matches, stages, buffer, written, opts, failed>>

Next == BeginSource \/ Run \/ EndSource \/ Bail \/ Leave

Spec == Init /\ [][Next]_vars
-----------------------------------------------------------------------------
(* Properties *)

TypeOK ==
  /\ DOMAIN stages = DOMAIN file
  /\ \A c \in DOMAIN stages : \A n \in DOMAIN stages[c] :
       /\ stages[c][n].aw \in Awaits(file[c])
       /\ ToSet(stages[c][n].vars) \subseteq Vars(file[c])
  /\ \A m \in matches : m.f \in DOMAIN file
  /\ Len(written) <= Len(cmd.files)
  /\ status \in {Running, 0, 1, 2}

\* The block in which C++ ends the life of a variable: for the one of a `for`,
\* its body, of which it is visible from the beginning.
lives(c, i)   == IF i <= 0 THEN 0
                 ELSE IF c.text[i].k = "for" THEN i
                 ELSE IF c.text[i].k = "lambda" THEN none(c)
                 ELSE block_of(c, i)
alive(c, k)   == {i \in Vars(c) : i < k /\ lives(c, i) \in blocks(c.text, k)}
refers(c, k, v) == {i \in alive(c, k) : name(c, i) = v}
innermost(S)  == CHOOSE i \in S : \A j \in S : j <= i

\* What a rewritten coroutine should be: each of its co_awaits has one of the
\* labels 1 up to the number in the preamble, a save and a load list the same local
\* variables, exactly those that are alive at the co_await, and no save takes the
\* place of a co_await behind an unbraced `if`.
Instrumented(c, es) ==
  LET calls == {e \in es : e.at # 0} IN
  IF c.kind \in {"skip", "broken"} \/ Awaits(c) = {} THEN es = {} ELSE
    /\ {e.at : e \in calls} = Awaits(c)
    /\ {e.n : e \in calls} = 1 .. Cardinality(calls)
    /\ {e.n : e \in es \ calls} = {Cardinality(calls)}
    /\ \A e, d \in calls : e.at = d.at \/ e.n = d.n => e = d
    /\ \A e \in calls :
         /\ \A x \in DOMAIN e.names : refers(c, e.at, e.names[x]) # {}
         /\ {innermost(refers(c, e.at, v)) : v \in ToSet(e.names)} = alive(c, e.at)
         /\ IsInjective(e.names)
         /\ e.at = 1 \/ c.text[e.at - 1].k # "if"

\* Every file gets its output (README.md:20 "Run the source first with Valet,
\* producing `mycode_valet.cc`, then compile that as usual").
EveryFileWritten == [][EndSource => Len(written') = Len(written) + 1]_vars

\* The texts that valet handles: no variable has the name of another one that is
\* alive, or is that of a `for` that has ended; no lambda, and no unbraced `if`.
Shadows(c) == \E i, j \in Vars(c) :
  i < j /\ name(c, i) = name(c, j) /\ lives(c, i) \in blocks(c.text, j)
HeadLeft(c) == \E k \in Awaits(c) : \E i \in 1 .. k - 1 :
  c.text[i].k = "for" /\ i \notin blocks(c.text, k)
Supported(c) ==
  /\ ~Shadows(c)
  /\ ~HeadLeft(c)
  /\ \A i \in DOMAIN c.text : c.text[i].k \notin {"lambda", "if"}

\* The command lines that do not bring two files to the one buffer.
ToInstrument(f) == \E c \in DOMAIN f : f[c].kind \in {"plain", "macro"} /\ Awaits(f[c]) # {}
HasMacro(f) == \E c \in DOMAIN f : f[c].kind = "macro" /\ Awaits(f[c]) # {}
OneBuffer(fs) == \A x, y \in DOMAIN fs :
  x < y /\ ToInstrument(fs[x]) => HasMacro(fs[x]) \/ HasMacro(fs[y])
Manageable(l) ==
  /\ OneBuffer(l.files)
  /\ \A x \in DOMAIN l.files : \A c \in DOMAIN l.files[x] : Supported(l.files[x][c])

\* Every output is its file with its own coroutines instrumented (README.md:13
\* "a source code rewriting tool valet that injects the calls for serialization
\* and deserialization of local variables"; valet.h:66).
OutputsRight ==
  \A x \in DOMAIN written :
    LET w == written[x] IN
    /\ w.text.base = w.of
    /\ \A c \in DOMAIN w.of : Instrumented(w.of[c], {e \in w.text.ins : e.f = c})

\* A status of 0 says that every file that has co_awaits to instrument has its
\* output and, if clang was allowed to report it, that no coroutine was dropped
\* on the way (valet.h:83, 103; valet.cc:47, 51).
ExitHonest ==
  status = 0 =>
    /\ \A x \in DOMAIN cmd.files : ToInstrument(cmd.files[x]) =>
         \E w \in ToSet(written) : w.of = cmd.files[x]
    /\ cmd.verbose => \A x \in DOMAIN cmd.files : \A c \in DOMAIN cmd.files[x] :
                         cmd.files[x][c].kind # "broken"
=============================================================================
