# Valor in TLA+

Valor makes suspended C++20 coroutines persistent: a header (`valor.h`) gives the
coroutine a handle, `ser_ctx`, from which its state can be taken as a string and
into which a string can be put, and a clang tool (`valet`) rewrites a coroutine
so that it saves its local variables before each `co_await` and, when it is
started with such a string, jumps to the co_await it was suspended at and loads
them. This directory holds TLA+ models of these parts, TLC configurations that
check them on small instances, and TLAPS proofs of their main properties for every
instance. Paths and line numbers are those of the repository.

## 1. The system

| component | state | operations | talks to |
|---|---|---|---|
| `ser_ctx`, `promise_type` (valor.h) | per frame: resume point, locals, `state` (the string), `aw` (a vector of results, or of one awaiter); per handle: pointer, `owner` | call, `deserialize`, `set_aw_ret`, `start`, `continue_from`, `operator()`, `serialize`, `get`, moves, destruction; inside: `stage`, `save`, `load`, `aw.has/get_as/resize/put`, `await_transform` | the coroutine's text, the client, ufser |
| hand-written instrumentation (valor.cc, `k`) | - | jump table; `save; resize; label; load; has ? get_as : co_await` | the promise, through `get_promise` |
| text injected by valet (valet.h:162-191, tests/c0.cc) | - | preamble; `save; co_await; label: load` | the promise |
| migration (valor.cc `main`) | standard output buffer, pipe | `saving()`, `restoring()` | two processes, `./valor s \| ./valor r` |
| valet (valet.h, valet.cc) | `stages` per coroutine, the Rewriter's buffers, output files, compiler options, exit status | `cc_opts`, matchers, `run`, `rewrite`, `handleEndSource`, `bail`, over the files of a command line or standard input | clang's AST and Rewriter |
| Vapor (vapor/vapor.cc) | the visited types, the map of coroutines, the offset in `seri` and `resi` | `collect_coro`, `walk_rec`, `patch_seri`, from GCC's callbacks | GCC's trees |
| toy.cc | two frames of `g`, the saved index | `main`: call, continue, `seri`, destroy, call, `resi`, continue | the functions Vapor patches |
| balor/cmp_sw.cc | a shared count, two fibers or two tasks | yield, join; `co_await`, `co_yield`, resume | Boost's scheduler |
| ufser, log.h, uctx.h, build | | | not modelled, see section 7 |

**What is hard.** A suspended coroutine is represented twice, by its frame and
by a string that was written before the suspension. What a string means depends on
how the client gets to the next label: by running into it, by resuming, by `start`
of a handle that was deserialized, or by `continue_from`. `load()` does nothing
when `aw` is empty and `aw` has two uses, results the client supplies and the
awaiter of the present co_await. So the order of calls decides
whether locals are restored, and there are many orders: two processes, several
strings, results set early, late or not at all. Ownership of
frames is shared between raw handles that a move does not clear. The saver may
die before its output is flushed. In valet, one object survives from
file to file, and variables are chosen by text position and block and then
printed by name; what they mean is decided by C++ where the text lands,
behind a jump over their declarations. Vapor recurses into types that may contain
each other and writes one number for all coroutines. In cmp_sw, two parties share a variable and depend on a
scheduler, or on a `then` handle that the other one has set.

**What makes it correct.** Runtime and instrumentation: the string names the
co_await and the values that the frame has there (`SavedIsCurrent`), two
coroutines with one string are the same (`WireFaithful`), and altogether a coroutine
that is saved, carried and continued cannot be told from one that was not
(`ImplementsCoro`). Handles: one owner at most, and no leak but by assignment to a handle
that owns. Migration: nothing runs
twice, the parameter arrives, the reader finishes. valet: at each co_await exactly
the live variables are saved and loaded, in every output file, a run of which
cannot be told from one of its source (`Indistinguishable`); the exit status is
honest. Vapor: it ends, stops the compiler only for what it cannot handle, and a
coroutine patched by it continues where it was saved. cmp_sw: the
parties take turns, print what they should, and end, for numbers from 0 on; what a
negative number does is in the model as well.

`PROJECT.json` lists the hazards at their lines with the properties that are
about them.

## 2. Modules

    CoroProgram            a coroutine: stages, live names, segments (CONSTANTS)
      Coro                 ABSTRACT: suspended coroutines as values
      SerCtx               valor.h: handle, promise, client      -> implements Coro
        HandCoro           + the skeleton of valor.cc            SerCtxProofs
          Pipeline         + main of valor.cc, two processes     HandCoroProofs, PipelineProofs
        ValetCoro          + the text valet injects              ValetCoroProofs
    Programs               k of valor.cc, f of tests/c0.cc
    Handle                 ownership of frames                   HandleProofs
    ValetTool              class valet: capture, rewriting, files, exit
      Rewritten            + what its output does, against its source     ValetToolProofs
    Vapor                  the GCC plugin
      Toy                  + main of toy.cc, compiled with it    VaporProofs
    Alternation            ABSTRACT: two parties taking turns
      CmpSw                balor/cmp_sw.cc                       -> implements Alternation, CmpSwProofs
    MCHand MCValet MCPipeline MCHandle MCValetTool MCRewritten MCToy   instances for TLC

### CoroProgram, Programs

The coroutine's own text is a parameter. It is cut at its `N` co_awaits: `Body(n,
env, r)` gives the possible outcomes of the segment behind stage `n`, that is the
next stage (or `Done`) and the values of the names in `Live` there; `r` is what
the co_await evaluates to. `Programs` holds the two example coroutines; an `int`
is counted in units of its alignment, modulo `M`, because `nontriv_work` adds an
address to it.

### Coro

What is promised: `Begin`, `Step` from suspension to suspension, `Record` into a
store, `Revive` from it in any process, `Supply` results, `Collect` the return value,
`Vanish`. No strings, awaiters, labels or frames.

### SerCtx

One handle and promise per process. `at`, `run` and `env` are the frame (resume
point, whether it executes, locals), `state` and `aw` are the promise's members,
`hold` says where the awaiter of the suspended co_await lives (the reference into
`aw` of valor.h:101), and `wire` holds the strings that were handed out, each with
the coroutine it came from, which is a history variable for the properties.

| action or operator | code |
|---|---|
| `save`, `stage`, `load`, `has`, `resize`, `put` | valor.h:72-81, 104-122; stage numbers are truncated to 16 bits as in `uint16_t stage()` |
| `await_transform` | 88-103: the first awaiter goes into an empty `aw`, others stay in the frame |
| `jump` | the `goto` over declarations: only parameters keep values, the rest is `Junk` |
| `Call`, `Deserialize`, `SetAwRet`, `Serialize`, `Get`, `Exit` | 83-84, 42, 51, 40, 48, 38; `Exit` is a destroyed handle as well as the end of a process |
| `Start`, `ContinueFrom` | 126-131, 141-151 |

`SetAwRet` at a co_await suspension may reallocate the vector under the awaiter
(`hold = "dangling"`); the result of such a co_await is any value of its type.
Asserts (`serialize` of a finished coroutine, `get` of an unfinished one) are
contracts of the client, as the release build has none (configure.ac:17).

### HandCoro and ValetCoro

They complete SerCtx by what the coroutine does at its labels. In HandCoro the label
is in front of the co_await and a stored result replaces it (`Take`) or it
suspends (`Await`); a result of another type ends the process (`BadCast`,
valor.h:86). In ValetCoro the label is behind the co_await (`Load`), the label is
reached by resuming and by restoring alike, and `aw` is never cleared.
`VoidAssumption`: where valet's label is, the value of the co_await is lost,
so its co_awaits are statements of their own, as in tests/c0.cc.

### Pipeline

`saving()` and `restoring()` with the steps of HandCoro as a whole: start, write to
`cout`, flush into `pipe` at the end of the process, end of input, `continue_from`,
the loop, `get`. `Crash` kills the saver anywhere: what was not flushed is lost.

### Handle

`ser_ctx` objects (`Slot`) over `Frame`s: default construction with an
indeterminate `owner`, move construction and assignment (to itself too),
destruction, `start`, `continue_from`. What the coroutine computes is in SerCtx. An
assignment to a handle that owns overwrites it and leaks its frame (valor.h:37); `NoLeak`
excepts exactly this step.

### ValetTool

A command line (`cmd`) has its files, or one source on standard input, `verbose` and the
user's compiler options. A file is a sequence of coroutines, the text of a coroutine a sequence of items (blocks,
declarations, `for` with its variable, a lambda's parameter, an unbraced `if`, a
co_await). Its blocks are closed (`Balanced`). `BeginSource`, `Run` (a call of `run()` for
the next pair of variable and co_await in text order) and `EndSource` (`rewrite()` and the writing) are the callbacks; `Bail` is
`bail()` when the Rewriter refuses an insertion (a co_await in a macro) or the output
file cannot be opened, `Leave` is main's return; `captured`,
`block_of` and `ensure_stage_for` are the choice of variables; `edited` is the
Rewriter, in which the first edit of a file id copies the text. What is right
is defined independently, by C++'s scopes and name lookup (`alive`, `refers`,
`Instrumented`); `Manageable` are the command lines that none of the findings of
section 4 is about. Clang is external: it drops a coroutine with an error (kind "broken")
and counts the error only if diagnostics are not suppressed (valet.h:83).

### Rewritten

Takes a coroutine of a written output and runs it twice in lockstep, as it was
written (`pc`, `mem`) and as it was rewritten (`rpc`, `rmem`): the statements' values and
the ways of loops are chosen once for both. In front of a co_await the second run
saves the variables that the call's *names* refer to there; `Continue` loads them back
in the same process, as valet's label is on the way (ValetCoro's `Load`), `Migrate`
goes to the label of the saved number with nothing else than junk in the variables,
parameters included, since the new call has arguments of its own. Outputs that do not
compile, for a name that refers to nothing, are not run. `OutputsRight` says what the
text should be, `Indistinguishable` that this is what it takes.

### Vapor, Toy

`Struct` gives the members of record types, in bytes, bits and sizes as GCC lays them
out (the dump in vapor.cc:316-428), and a unit is the sequence of its functions'
frames. `stack` holds the calls of `walk_rec` with the member each is at: a call that
returns goes on with the assertion behind that member. A failed assertion, or a
function that is missing when `patch_seri` needs it, stops the compiler (`status`).
`helpers` says of `seri` and `resi` whether they are as `patch_seri` expects them, missing,
or of another body. It asserts the body of `seri` (vapor.cc:467, 471); the operands of
`resi` are followed and overwritten without an assertion (485-486), so another body may end
the compiler or be patched somewhere and compiled. `CompilesWhatItCan` and `Patched` leave
this open, and in Toy such a `resi` may write anywhere.
`Toy` runs main once the unit is compiled. A frame is its suspension point, the index and
what `g` has put out; GCC's numbering of the index, 2n + 2 for the nth co_await, is
external, as is the trap for other numbers. With an offset that is not that of the index in
`g`'s frame, `seri` reads anything and `resi` overwrites another member, or the
pointers to the code.

### CmpSw, Alternation

The three modes of the benchmark, for any int, as `atoi` checks nothing (cmp_sw.cc:92).
Each action runs one party to its next switch. `n--` is a subtraction that wraps around
(`decremented`) or, as its overflow is undefined, a trap (`Overflow`). For a negative number
f1 of `fibers` ends in its first turn and f2 counts on alone; `counter` goes on with
`timer` or `timer2`. Alternation has both for a negative `from` only, `SameCounts`
compares the fibers' counts for the others.
`Dispatch`, `Yield` and `Terminate` stand for Boost's scheduler (external, fibers
started with the default `launch::post` and scheduled round-robin). `Transfer` is symmetric
transfer, which the compiler may or may not make a tail call: `depth` counts the
resume functions on the stack. `timer` runs off its end in a promise with
`return_value`, which is undefined; both outcomes are in the model. `Terminates` accepts three
crashes: `coro` with the stack used up (which the code's comment at line 60 says of it),
`timer` at its end, and the trap of a negative number at the smallest int.

## 3. Runs

Every passing run takes less than a minute or two. Mutants (the operators under a
"Defect" comment) show for each property that a plausible mistake breaks it.

| run | what it shows | bounds |
|---|---|---|
| Hand | every interleaving of two processes that run `k`: strings are current and faithful, ImplementsCoro | M=2, 1 result, 2 strings |
| Valet | the same for `f` with valet's text, with results also set at a co_await | M=3, 2 results, 2 strings |
| Pipeline | `valor s \| valor r`, any argument and result, a crash anywhere | M=3, one string |
| Handle | one owner, no leak but by assignment to an owner | 4 places, 3 frames |
| CmpSw | turns, counts, flat stack, no resumption of finished or null handles, termination | ints of 4 bits, -8 to 7, stack of 5 |
| Rewritten | outputs instrument exactly the live variables and behave as their sources; exit status | texts of 6 items, two coroutines of 2 items, or one or two files of two coroutines of any kind with one item; 2 values |
| Toy | the walk ends and is complete, only unsupported units fail, the saved index is continued from | units of up to two functions, 6 frames, 14 record types, one of them a cycle; one helper missing or of another body |

*Why they are enough.* Two processes are a sender and a receiver, and each may be
both; two strings are an old and a new one. One result is all a co_await can
use: `has(0)` and `get_as(0)` look at the first. `M` = 2 or 3 makes an old value, a new
value and a default differ. In Handle a chain of moves needs a source, a target and a
bystander. A text of 6 items holds a block or loop with a declaration and a
co_await inside and another behind it, and two co_awaits with two variables, so that
a wrong order or number exchanges values. The second of two files matters only
if the first has left no buffer or the second is not written: for others see
ValetToolFiles. Two functions are a coroutine that is right and one that is
not, or that is patched over. In CmpSw a
number from 0 on only lengthens the run, and a negative one adds the way around the ends of
int; the stack is shorter than the longest chain so that it overflows.

Symmetry over `Proc` (Hand, Valet) and over places and frames (Handle): no
expression picks a particular element, and no liveness is checked there.

**Client rules.** The constants of SerCtx say what the client does: `SuppliedAt` names
the ways of restoring at which it supplies a result (valor.cc:97 requires it
always), `SerializeFresh` and `LateAwRet` whether it serializes before the first
continuation and sets results at a co_await, and `LateDeserialize` whether it deserializes
there, which valor.h:42 accepts and README.md:20 does not do: the string is then another
coroutine's until the next `save()`, and `SavedIsCurrent` fails. `Rules` is what the
passing runs and theorems assume: results are supplied, only coroutines at a co_await
are serialized, and only fresh ones deserialized. With `SerializeFresh = TRUE`, `WireFaithful` fails: before
the first continuation the string is empty whatever the arguments are.

## 4. Where the code does something else than it says

| run | property | |
|---|---|---|
| HandNoResult | SavedIsCurrent | README.md:20 restores with `deserialize()` and a continuation only; without a supplied result `load()` is skipped (valor.h:116) and the coroutine goes on with uninitialized locals |
| HandLate | SetAwRetCounts | valor.h:50 lets `set_aw_ret` precede any continuation; at a co_await it has no effect on the result and may leave the awaiter's reference dangling |
| ValetToolFiles | OutputsRight | the second file of a command line is written as the first one's text with both files' insertions (valet.h:87) |
| ValetToolShadow | OutputsRight | with a shadowed name, `save(1, a, a)`: the outer variable is lost (valet.h:112-115, 148) |
| ValetToolSkip | EveryFileWritten | a file with nothing to rewrite has no output (valet.h:93), while README.md:20 and the make rule wait for one |

Two more are in the model and not among the runs, `Constructs` adding them to the
texts: "head" and "lambda" (a finished `for`'s variable or a lambda's parameter is
captured although it is out of scope, valet.h:113, 207) and "if" (`save()` becomes the
body of an unbraced `if` and the co_await is executed in any case, valet.h:152).
`OutputsRight` fails with each of them. And four that no run is about:

- valet.h:118 has cc_opts "Prepend necessary compiler options to the supplied list, so
  that 'args' takes precedence". It inserts behind the first option, taken for the tool's
  name, but valet.cc:47 passes options without one when it reads standard input: with
  `--extra-arg=-std=c++23` alone, valet's `-std=c++20` comes last and wins. `cc_opts`
  is in the model; no property is about it.
- valor.h:41 says of `deserialize` "no-op for destroyed". A moved-from handle is not
  cleared (valor.h:37), tests true and points to a frame that its new owner may have
  destroyed.
- Without `-v` a coroutine that clang drops for an error is left alone, and the status is 0
  (valet.h:83). `ExitHonest` claims this only for verbose runs.
- README.md:34 has the two tasks of cmp_sw "called in an alternating order" and the program
  terminate "when f2 reaches zero". With a negative number, which cmp_sw.cc:92 takes
  as any other, f1 of `fibers` ends at once and f2 counts on alone, in all modes towards
  a signed overflow. `Alternates`, `SameCounts` and `Terminates` say which parts still hold.

## 5. Fairness

Pipeline has weak fairness of each process's steps and none of `Crash`: the code
is straight-line apart from `while (coro) coro()`, and the operating
system runs both processes; the saver closes the pipe when it ends or is killed.
CmpSw is one thread, so weak fairness of `Next` says that it executes. Toy has weak
fairness of the compiler and of the compiled program, each a sequential program. The
others state only safety. Deadlock checking is off where the system really stops:
Pipeline, CmpSw, ValetTool, Rewritten and Toy end.

## 6. Proofs

Every safety property of the passing runs and both refinements are proved, for every
program, text, unit, number of processes and bound, and for every int on the command line
of cmp_sw:

| module | theorem | property |
|---|---|---|
| HandCoroProofs, ValetCoroProofs | HandTypeCorrect, ValetTypeCorrect | `TypeOK`, under `Rules` as the following |
| | HandSavedIsCurrent, ValetSavedIsCurrent | `SavedIsCurrent` |
| | HandWireFaithful, ValetWireFaithful | `WireFaithful` |
| | HandImplementsCoro, ValetImplementsCoro | `Spec => ImplementsCoro` |
| PipelineProofs | PipelineTypeCorrect, PipelineImplementsCoro | `PTypeOK`, `ImplementsCoro` of the two processes, under `Rules` |
| | PipelineRunsOnce, PipelineHandsOver | `NothingRunsTwice`, `HandedOver`, also from `Forward`, `KeepsParameters`, `AwaitsRets` |
| HandleProofs | TypeCorrect, FramesAreNotLeaked | `TypeOK`, `NoLeak` |
| | OwnersAreUnique | `OneOwner`, from `StartOwners` |
| CmpSwProofs | TypeCorrect, CountsAreTheSame, StackIsBounded, SuspendedIsResumed | `TypeOK`, `SameCounts`, `StackBounded`, `ResumesSuspended` |
| | ModesAlternate | `Spec => Alternates` |
| VaporProofs | VTypeCorrect, WalkIsComplete, CompilesSupported | `VTypeOK`, `Walked`, `CompilesWhatItCan` |
| | OffsetIsTheIndex, MainContinues | `Patched`, `ContinuesFromSaved`, from `IndexFits` |
| ValetToolProofs | ToolTypeCorrect, ExitIsHonest | `TypeOK`, `ExitHonest` |
| | OutputsAreRight | `OutputsRight` whenever `Manageable(cmd)` |
| | RunsTypeCorrect, OutputsBehaveAsSources | `RTypeOK`, `Indistinguishable` whenever `Manageable(cmd)` |

### The arguments

*The runtime.* `SavedIsCurrent` speaks of suspended coroutines only and is not
inductive: while the coroutine runs towards a label, frame and string differ, and
whether `load()` will repair that depends on `aw`. `CoreInv` (SerCtx) adds what the
client's calls preserve: a coroutine that is restoring is at the label its
string names (`Restoring`), what lies in `aw` before the first co_await are results
(`Supplied`, `NotYet`), and every string on the wire is the pair of the stage and the
locals of its coroutine (`WireInv`, from which `WireFaithful` follows). `AtLabelInv`
adds what each instrumentation keeps at its labels: in HandCoro an empty `aw` means
that the label was reached by running, right after `save()`; in ValetCoro `aw` is
not empty and a resumed coroutine has the state it has just saved. `IInv == CoreInv
/\ AtLabelInv` is inductive. SerCtxProofs shows that the client's actions keep `CoreInv`
and map to a step or a stutter of Coro, once for both instrumentations; HandCoroProofs
and ValetCoroProofs add the actions of the coroutine.

*The pipeline* is a layer over HandCoro: every step of `PSpec` is a step of `Spec` or
leaves the handles alone (`PipelineUsesHandles`, from `Flow`: what is in `cout` and
`pipe` was serialized), so `IInv` and `ImplementsCoro` carry over. `ReaderInv` adds
where the reader is relative to the string it has read. It needs that a
process does not touch the other's frame, and a program that does not go back.

*cmp_sw.* One invariant per mode says who runs, what the others wait for and what
has been counted: `Fibers` (the scheduler's queue; `Together` while both run, `Alone` when
a negative number has ended f1), `Scheduled` (coro2: `then`, the stack) and
`Chained` (coro). The width of int is a parameter. Every step of a mode follows from it to be one of
Alternation's two.

*Vapor.* `WalkOK` is the invariant of a recursion with a stack: each call is below
the member its caller is at, what was passed is visited, and a visited type is
either passed altogether or on the stack. When the stack is empty the visited types
are closed under "contains", and nothing outside is ever visited; so they are
the least closed set, which is how `Within` is defined. `VIInv` adds the
functions (what has been found so far, with the function in work) and the
offset (that of the last coroutine, in both helpers). Toy's `TInv` is a program-counter
invariant over `out`, the index and `at`.

*valet.* `TInv` follows a file through the callbacks: `Collecting` says that for each
co_await whose matches are over there is one stage with exactly the variables
captured so far, `Buffered` that what is left in the Rewriter's buffer belongs to a
file that is done with, `Wrote` and `Reported` relate outputs and status to the
files so far. When no match is left, what is captured is what is alive
(`CapturesAlive`): `captured` compares text positions and the end of the innermost
block, `alive` is defined by scopes, and the lemmas about brackets (`BlockOf`,
`CloseExists`, ...) bring the two together. `NameRefers` says that without
shadowing a name finds its variable, so `CollectedInstruments` follows.

*Rewritten.* `Lockstep`: both runs are at the same place, agree on every variable
that is alive there, and a suspended one has saved what its call lists. `LivesIn`,
`AliveBehind` and `AliveBehindLoop` carry the argument for a step: going on brings no
variable to life but the one it declares, which it sets in both runs. For
`Migrate` (`LoadRestores`) the calls list each live variable once and each label
names one call, so what is loaded is what was saved. That the calls are such is
`OutputsAreRight`.

### Assumptions beyond the code

- the client's `Rules` (results supplied, no fresh serialization, no `LateDeserialize`);
  `VoidAssumption` for valet; `StartOwners` (`start()` is given an
  owning handle) for `OwnersAreUnique`. `FramesAreNotLeaked` and `TypeCorrect` need
  none. `LateAwRet` is unrestricted in all of them. Of the program only
  `ProgramAssumption`, which has `N < 65536`, and `BodyAssumption` are used;
- `Forward`, `KeepsParameters` and `AwaitsRets`: the piped coroutine has no loop back over
  a co_await, does not assign to its parameters, and awaits what the reader supplies.
  MCPipeline has TLC evaluate them for `k`;
- `VaporAssumption`: the frame of a coroutine has one resume index, at a whole byte, as GCC
  lays it out. `IndexFits`: it starts in the first 65536 bytes, as
  `coro_member_offset` returns a `uint16_t`. `MainContinues` has `SamePlace` as its
  condition: `resi` is as expected and all coroutines of the unit have the index at one place;
- `Manageable(cmd)`: no shadowing, no co_await behind a `for` that has ended, no lambda and no
  unbraced `if`, and at most one file for the buffer: what section 4 shows to go wrong
  otherwise. MCRewritten has TLC evaluate it for its command lines, which include
  blocks, loops, parameters, several coroutines and several files;
- `ValetToolAssumption`: the text is one that clang has parsed, so blocks are closed.

### Only model-checked

`ReaderFinishes`, `Terminates` and `Finishes` are liveness under fairness, which needs
ENABLED and is out of the prover's reach. The runs that
expect a violation are counterexamples. That the mutants break the properties is
checked on the small instances only. Induction over data is out of reach as well; it
was avoided where a recursive definition would have been the first choice:
`Within` is the least closed set instead of a recursion, `blocks` counts brackets by
cardinality, and `load` picks the last position instead of folding.

## 7. Not modelled

- **ufser** is a submodule that is not here. A string is a record of a stage and
  values, equal exactly if stage and values are; its exceptions are left out.
- **vapor.cc**, the part that does not run: `vapor_pass` (its registration is commented
  out), `walk`, `walk_vars`, `find_coro_handle`, `do_fun_0_patch_handle`, `scope`, the
  callback under `if (false)`, and the dumps in comments, which are two thirds of the
  file. The build leaves Vapor out (Makefile.am:2); `make check -C vapor` compiles toy.cc
  with it.
- **toy.cc**: the values of g's locals. None is saved; the awaiter that a continued
  coroutine returns from was not constructed in the new frame, and what is read is
  indeterminate. Of a `resi` that was patched without being as expected only its write is
  modelled, to the index, to the code or to anything else.
- **log.h** is output; **uctx.h** is not included; the build has no behaviour.
- Of valet: LLVM's option parser, the compilation database, comments and `#line` in the
  inserted text, the tokens between a co_await and its semicolon; in Rewritten the hidden
  variables of a range-for (range, begin, end), which the goto passes over: a loop there
  decides freely whether it goes round again. Of the runtime: an empty `std::any` as a
  result, which `has` tells from a stored one (valor.h:72) and no client here supplies;
  two co_awaits in one full-expression, which README.md:25-30 rules out;
  exceptions of the coroutine other than `bad_any_cast`; `await_transform`'s
  copies of the awaiter; calls on handles that were moved from.

## 8. Plan

Done, in this order: CoroProgram, Coro, SerCtx, HandCoro, ValetCoro, Programs with
their runs; Pipeline; Handle; the proofs of SerCtx, HandCoro, ValetCoro and Handle;
CmpSw; ValetTool; Vapor and Toy; the exit of the tool, standard input and its options;
Rewritten; the proofs of CmpSw, Pipeline, Vapor and Toy, ValetTool, Rewritten.

Next:

1. the life of an awaiter (`await_transform`, valor.h:88-103) as a component: copied
   or stored, its `await_ready`, `await_suspend` and `await_resume` on which object;
2. an `if` and lambdas in Rewritten, so that what they break shows up as behaviour;
3. the pieces of the liveness proofs that do not need ENABLED: the measures that
   `Terminates` and `Finishes` rest on, as action properties.
