--------------------------- MODULE PipelineProofs ---------------------------
(***************************************************************************)
(* The pipeline of valor.cc, for any coroutine, argument and results.      *)
(***************************************************************************)
EXTENDS Pipeline, HandCoroProofs

\* What is in the pipe or on its way has been serialized.
Strings == {NoState} \cup {w.str : w \in wire}
Labels  == {"main", "saving", "start", "serialize", "end", "loop", "ended"}

Flow ==
  /\ {cout, pipe} \subseteq Strings
  /\ pc \in [{Saver, Reader} -> Labels]

\* The wire only grows.
LEMMA WireGrows ==
  ASSUME NEW p \in Proc, ClientNext(p) \/ CoroNext(p)
  PROVE  wire \subseteq wire'
  BY DEF ClientNext, Call, CallWith, Deserialize, SetAwRet, Start, ContinueFrom, continue_from,
     Serialize, Get, Exit, CoroNext, Begin, Await, Take, BadCast, Resume, Segment

LEMMA OneRet ==
  ASSUME NEW ret \in Rets
  PROVE  <<ret>> \in RetSeq /\ <<ret>> # <<>>
<1>1. <<ret>> \in Seq(Result) /\ Len(<<ret>>) = 1 /\ <<ret>> # <<>>
  BY PipelineAssumption
<1>2. Len(<<ret>>) <= MaxRets
  BY <1>1, PipelineAssumption, ClientAssumption
<1> QED
  BY <1>1, <1>2, RetSeqDef, Zenon

\* What main does is a step of the handles.
LEMMA StepOfHandles ==
  ASSUME Flow, PNext
  PROVE  (\E p \in Proc : ClientNext(p) \/ CoroNext(p)) \/ UNCHANGED vars
<1>0. Saver \in Proc /\ Reader \in Proc
  BY PipelineAssumption
<1>1. CASE Saving
  BY <1>0, <1>1 DEF Saving, ClientNext
<1>2. CASE Write
  BY <1>0, <1>2 DEF Write, ClientNext
<1>3. CASE End
  BY <1>0, <1>3 DEF End, ClientNext
<1>4. CASE Runs(Saver) \/ Runs(Reader)
  BY <1>0, <1>4 DEF Runs
<1>5. CASE Crash
  BY <1>0, <1>5 DEF Crash, ClientNext
<1>6. CASE Restore
  <2>1. PICK ret \in Rets : continue_from(Reader, pipe, <<ret>>)
    BY <1>6 DEF Restore
  <2>2. pipe \in {NoState} \cup {w.str : w \in wire}
    BY DEF Flow, Strings
  <2>3. ContinueFrom(Reader)
    BY <2>1, <2>2, OneRet, Zenon DEF ContinueFrom
  <2> QED
    BY <1>0, <2>3 DEF ClientNext
<1>7. CASE Loop
  BY <1>0, <1>7 DEF Loop, CoroNext
<1>8. CASE Retval
  BY <1>0, <1>8 DEF Retval, ClientNext
<1> QED
  BY <1>1, <1>2, <1>3, <1>4, <1>5, <1>6, <1>7, <1>8 DEF PNext, SaverNext, ReaderNext

LEMMA FlowStep ==
  ASSUME Flow, PNext
  PROVE  Flow'
<1>1. wire \subseteq wire'
  <2>1. CASE UNCHANGED vars
    BY <2>1 DEF vars
  <2> QED
    BY <2>1, StepOfHandles, WireGrows
<1>2. Strings \subseteq Strings'
  BY <1>1 DEF Strings
<1>3. pc' \in [{Saver, Reader} -> Labels]
  <2>1. pc' = pc \/ \E p \in {Saver, Reader}, l \in Labels : Goto(p, l)
    <3>1. CASE SaverNext
      BY <3>1 DEF SaverNext, Saving, Write, End, Runs, pvars, Labels
    <3>2. CASE ReaderNext
      BY <3>2 DEF ReaderNext, Restore, Loop, Retval, Runs, pvars, Labels
    <3>3. CASE Crash
      BY <3>3 DEF Crash, Labels
    <3> QED
      BY <3>1, <3>2, <3>3 DEF PNext
  <2> QED
    BY <2>1 DEF Flow, Goto
<1>4. CASE Write
  <2>1. [str |-> state[Saver], of |-> [at |-> absAt(Saver), env |-> absEnv(Saver)]] \in wire'
    BY <1>4 DEF Write, Serialize
  <2>2. state[Saver] \in Strings'
    BY <2>1 DEF Strings
  <2> QED
    BY <1>2, <1>3, <1>4, <2>2 DEF Write, Flow
<1>5. CASE ~Write
  <2>1. {cout', pipe'} \subseteq {cout, pipe}
    BY <1>5 DEF PNext, SaverNext, ReaderNext, Saving, End, Runs, Crash, Restore, Loop, Retval, pvars
  <2> QED
    BY <1>2, <1>3, <2>1 DEF Flow
<1> QED
  BY <1>4, <1>5

LEMMA FlowHolds == PSpec => []Flow
<1>1. PInit => Flow
  BY DEF PInit, Flow, Strings, Labels
<1>2. Flow /\ [PNext]_<<vars, pvars>> => Flow'
  <2> SUFFICES ASSUME Flow, [PNext]_<<vars, pvars>> PROVE Flow'
    OBVIOUS
  <2>1. CASE UNCHANGED <<vars, pvars>>
    BY <2>1 DEF vars, pvars, Flow, Strings
  <2> QED
    BY <2>1, FlowStep
<1> QED
  BY <1>1, <1>2, PTL DEF PSpec

\* `./valor s | ./valor r`, crashed or not, is one of the ways to use handles
\* that HandCoro stands for (valor.cc:86-114).
LEMMA PipelineUsesHandles == PSpec => Spec
<1>1. PInit => Init
  BY DEF PInit
<1>2. Flow /\ [PNext]_<<vars, pvars>> => [Next]_vars
  BY StepOfHandles DEF Next
<1> QED
  BY <1>1, <1>2, FlowHolds, PTL DEF PSpec, Spec

\* So everything that is proved of handles holds in the pipeline (valor.h:59-151).
LEMMA PipelineIInv ==
  ASSUME Rules
  PROVE  PSpec => []IInv
  BY PipelineUsesHandles, IInvInductive, PTL

\* The types of both processes and of what lies between them (valor.cc:86-114).
THEOREM PipelineTypeCorrect ==
  ASSUME Rules
  PROVE  PSpec => []PTypeOK
<1>1. Flow /\ IInv => PTypeOK
  BY DEF Flow, Strings, Labels, IInv, CoreInv, WireInv, PTypeOK
<1> QED
  BY <1>1, FlowHolds, PipelineIInv, PTL

\* The two processes together behave as one coroutine that is recorded and
\* revived (README.md:20-23; valor.cc:86-114).
THEOREM PipelineImplementsCoro ==
  ASSUME Rules
  PROVE  PSpec => ImplementsCoro
  BY PipelineUsesHandles, HandImplementsCoro, PTL

-----------------------------------------------------------------------------
(* The reader *)

\* What the reader's coroutine is from the string in the pipe on.
ReaderInv ==
  /\ pc[Reader] \in {"main", "loop", "ended"}
  /\ pc[Reader] # "main" => pc[Saver] = "ended"
  /\ at[Reader] = NoCoro <=> pc[Reader] = "main"
  /\ run[Reader] => aw[Reader] \in {<<>>} \cup {<<ret>> : ret \in Rets}
  /\ pc[Reader] = "ended" => at[Reader] = Done
  /\ pc[Reader] # "main" /\ pipe # NoState => at[Reader] >= stage(pipe)
  /\ HandedOver

\* What one process does leaves the frame and promise of the other alone.
LEMMA OthersUntouched ==
  ASSUME IInv, NEW p \in Proc, ClientNext(p) \/ CoroNext(p), NEW q \in Proc \ {p}
  PROVE  /\ at'[q] = at[q] /\ run'[q] = run[q] /\ env'[q] = env[q]
         /\ state'[q] = state[q] /\ aw'[q] = aw[q]
<1>0. Arrays
  BY CoreParts DEF IInv
<1> USE <1>0 DEF Arrays
<1>1. CASE ClientNext(p)
  BY <1>1 DEF ClientNext, Call, CallWith, Deserialize, SetAwRet, Start, ContinueFrom, continue_from,
     Serialize, Get, Exit
<1>2. CASE CoroNext(p)
  BY <1>2 DEF CoroNext, Begin, Await, await_transform, Take, BadCast, Exit, Resume, Segment
<1> QED
  BY <1>1, <1>2

LEMMA PipeStage ==
  ASSUME Flow, IInv
  PROVE  /\ pipe \in Saved \cup {NoState}
         /\ pipe # NoState => stage(pipe) \in Stages
<1>1. pipe \in Saved \cup {NoState}
  BY DEF Flow, Strings, IInv, CoreInv, WireInv
<1> QED
  BY <1>1, SavedParts

\* A segment takes the reader forward and hands the parameters on.
LEMMA ReaderSegment ==
  ASSUME Forward, KeepsParameters, Flow, IInv, ReaderInv, UNCHANGED pvars, pc[Reader] = "loop",
         NEW n \in 0 .. N, NEW e \in Locals(n), NEW r \in ResultOf[n],
         n = at[Reader],
         (pipe # NoState /\ n \in Stages) => e = absEnv(Reader),
         Segment(Reader, n, e, r)
  PROVE  ReaderInv'
<1>0. Reader \in Proc /\ Arrays /\ GoodProc(Reader)
  BY PipelineAssumption, CoreParts DEF IInv
<1>1. PICK o \in Body(n, e, r) :
        /\ at' = [at EXCEPT ![Reader] = o.next]
        /\ env' = [env EXCEPT ![Reader] = o.env]
        /\ run' = [run EXCEPT ![Reader] = o.next # Done]
        /\ aw' = [aw EXCEPT ![Reader] = IF o.next = Done THEN @ ELSE resize(@)]
  BY DEF Segment
<1>2. o.next \in 1 .. Done /\ o.next >= n
  BY BodyOutcome DEF Forward
<1>3. at'[Reader] = o.next /\ env'[Reader] = o.env /\ run'[Reader] = (o.next # Done)
      /\ (o.next # Done => aw'[Reader] = <<>>)
  BY <1>0, <1>1, ResizeEmpty DEF Arrays
<1>4. pc' = pc /\ pipe' = pipe
  BY DEF pvars
<1>5. pipe # NoState => stage(pipe) \in Stages /\ n \in Stages /\ o.next >= stage(pipe)
  BY <1>2, PipeStage, ProgramBounds DEF ReaderInv
<1>6. ASSUME pipe # NoState, o.next \in Stages, NEW v \in Live[0]
      PROVE  absEnv(Reader)'[v] = pipe.vals[v]
  <2>1. absEnv(Reader)' = o.env
    BY <1>3, <1>6, ProgramBounds DEF absEnv, Pending, fresh
  <2>2. o.env[v] = e[v]
    BY <1>5, <1>6, ProgramBounds DEF KeepsParameters
  <2>3. e[v] = pipe.vals[v]
    BY <1>5, <1>6 DEF ReaderInv, HandedOver
  <2> QED
    BY <2>1, <2>2, <2>3
<1>7. HandedOver'
  BY <1>3, <1>4, <1>6 DEF HandedOver
<1>8. run'[Reader] => aw'[Reader] = <<>>
  BY <1>3
<1>9. at'[Reader] # NoCoro
  BY <1>2, <1>3, ProgramBounds
<1>10. stage(pipe)' = stage(pipe)
  BY <1>4
<1> QED
  BY <1>3, <1>4, <1>5, <1>7, <1>8, <1>9, <1>10 DEF ReaderInv

\* Only the label's result type and the end of the coroutine can make the reader's
\* body take another way, and with results that fit it does not.
LEMMA ReaderBody ==
  ASSUME Forward, KeepsParameters, AwaitsRets, Flow, IInv, ReaderInv, UNCHANGED pvars,
         pc[Reader] = "loop", CoroNext(Reader)
  PROVE  ReaderInv'
<1>0. Reader \in Proc /\ Arrays /\ GoodProc(Reader) /\ Labelled(Reader)
  BY PipelineAssumption, CoreParts DEF IInv, AtLabelInv
<1>1. CASE Begin(Reader)
  <2>1. env[Reader] \in Locals(0) /\ NoRes \in ResultOf[0] /\ 0 \in 0 .. N /\ 0 \notin Stages
    BY <1>0, <1>1, ProgramAssumption, ProgramBounds DEF Begin, GoodProc, Good
  <2> QED
    BY <1>1, <2>1, ReaderSegment DEF Begin
<1>2. CASE Await(Reader)
  <2>1. at[Reader] \in Stages /\ aw[Reader] = <<>> /\ run[Reader] /\ at' = at
        /\ run'[Reader] = FALSE /\ env'[Reader] = env[Reader]
    BY <1>0, <1>2 DEF Await, atLabel, has, loaded, load, Arrays
  <2>2. absEnv(Reader) = env[Reader] /\ absEnv(Reader)' = env[Reader]
    BY <2>1, ProgramBounds DEF absEnv, Pending, fresh
  <2>3. pc' = pc /\ pipe' = pipe /\ stage(pipe)' = stage(pipe)
    BY DEF pvars
  <2>4. HandedOver'
    BY <2>1, <2>2, <2>3 DEF ReaderInv, HandedOver
  <2> QED
    BY <2>1, <2>3, <2>4 DEF ReaderInv
<1>3. CASE Take(Reader)
  <2> DEFINE r == IF at[Reader] \in Void THEN NoRes ELSE Head(aw[Reader])
  <2>1. at[Reader] \in 0 .. N /\ at[Reader] \in Stages /\ run[Reader] /\ aw[Reader] # <<>>
    BY <1>3, ProgramBounds DEF Take, atLabel, has
  <2>2. loaded(Reader) = state[Reader].vals /\ loaded(Reader) \in Locals(at[Reader])
    BY <1>0, <1>3, LoadedLocals DEF Take, has
  <2>3. absEnv(Reader) = loaded(Reader)
    BY <2>1, <2>2, ProgramBounds DEF absEnv, Pending, fresh
  <2>4. r \in ResultOf[at[Reader]]
    BY <1>3 DEF Take, Void
  <2>5. Segment(Reader, at[Reader], loaded(Reader), r)
    BY <1>3 DEF Take
  <2> HIDE DEF r
  <2> QED
    BY <2>1, <2>2, <2>3, <2>4, <2>5, ReaderSegment
<1>4. CASE BadCast(Reader)
  <2>1. PICK ret \in Rets : aw[Reader] = <<ret>>
    BY <1>4 DEF BadCast, atLabel, has, ReaderInv
  <2>2. Head(aw[Reader]) \in Rets
    BY <2>1
  <2> QED
    BY <1>4, <2>2 DEF BadCast, atLabel, AwaitsRets
<1>5. CASE Resume(Reader)
  <2>1. suspended(Reader) /\ at[Reader] \in 0 .. N
    BY <1>5, ProgramBounds DEF Resume, suspended
  <2>2. env[Reader] \in Locals(at[Reader]) /\ absEnv(Reader) = env[Reader]
    BY <1>0, <2>1, SuspendedState DEF IInv
  <2>3. PICK r \in ResultOf[at[Reader]] : Segment(Reader, at[Reader], env[Reader], r)
    BY <1>5 DEF Resume
  <2> QED
    BY <2>1, <2>2, <2>3, ReaderSegment
<1> QED
  BY <1>1, <1>2, <1>3, <1>4, <1>5 DEF CoroNext

\* The saver does not write any more once the reader has begun.
LEMMA SaverSteps ==
  ASSUME Flow, IInv, ReaderInv, SaverNext \/ Crash
  PROVE  ReaderInv'
<1>0. Saver \in Proc /\ Reader \in Proc \ {Saver} /\ GoodProc(Reader) /\ CoreInv
  BY PipelineAssumption, CoreParts DEF IInv
<1>1. /\ at'[Reader] = at[Reader] /\ run'[Reader] = run[Reader] /\ env'[Reader] = env[Reader]
      /\ state'[Reader] = state[Reader] /\ aw'[Reader] = aw[Reader]
  <2>1. ClientNext(Saver) \/ CoroNext(Saver) \/ UNCHANGED vars
    BY DEF SaverNext, Saving, Write, End, Runs, Crash, ClientNext
  <2>2. CASE UNCHANGED vars
    BY <2>2 DEF vars
  <2> QED
    BY <1>0, <2>1, <2>2, OthersUntouched
<1>2. pc'[Reader] = pc[Reader]
  BY <1>0 DEF Flow, SaverNext, Saving, Write, End, Runs, Crash, Goto, pvars
<1>3. absEnv(Reader)' = absEnv(Reader)
  BY <1>1 DEF absEnv, Pending, fresh
<1>4. CASE pc[Saver] = "ended"
  <2>1. UNCHANGED pvars
    BY <1>4 DEF SaverNext, Saving, Write, End, Runs, Crash
  <2>2. stage(pipe)' = stage(pipe) /\ pc' = pc /\ pipe' = pipe
    BY <2>1 DEF pvars
  <2> QED
    BY <1>1, <1>3, <2>2 DEF ReaderInv, HandedOver
<1>5. CASE pc[Saver] # "ended"
  <2>1. pc[Reader] = "main" /\ at[Reader] = NoCoro /\ ~run[Reader]
    BY <1>0, <1>5 DEF ReaderInv, GoodProc, Good
  <2> QED
    BY <1>1, <1>2, <2>1, ProgramBounds DEF ReaderInv, HandedOver
<1> QED
  BY <1>4, <1>5

LEMMA RestoreStep ==
  ASSUME Flow, IInv, ReaderInv, Restore
  PROVE  ReaderInv'
<1>0. Reader \in Proc /\ Arrays
  BY PipelineAssumption, CoreParts DEF IInv
<1>1. PICK ret \in Rets : continue_from(Reader, pipe, <<ret>>)
  BY DEF Restore
<1>2. /\ at'[Reader] = stage(pipe) /\ run'[Reader] = TRUE
      /\ state'[Reader] = pipe /\ aw'[Reader] = <<ret>>
  BY <1>0, <1>1 DEF continue_from, Arrays
<1>3. pc'[Reader] = "loop" /\ pc'[Saver] = "ended" /\ pipe' = pipe /\ stage(pipe)' = stage(pipe)
  BY PipelineAssumption DEF Restore, Goto, Flow
<1>4. stage(pipe) \in 0 .. N
  BY PipeStage, NoStateStage, ProgramBounds
<1>5. pipe # NoState => absEnv(Reader)' = pipe.vals
  <2>1. <<ret>> # <<>>
    OBVIOUS
  <2> QED
    BY <1>2, <2>1, PipeStage DEF absEnv, Pending
<1>6. HandedOver'
  BY <1>3, <1>5 DEF HandedOver
<1> QED
  BY <1>2, <1>3, <1>4, <1>6, ProgramBounds DEF ReaderInv

LEMMA RetvalStep ==
  ASSUME Flow, IInv, ReaderInv, Retval
  PROVE  ReaderInv'
<1>0. Reader \in Proc /\ GoodProc(Reader)
  BY PipelineAssumption, CoreParts DEF IInv
<1>1. at' = at /\ at[Reader] = Done /\ run' = run /\ aw' = aw
  BY DEF Retval, Get
<1>2. pc[Reader] = "loop" /\ pc'[Reader] = "ended" /\ pc'[Saver] = pc[Saver]
      /\ pipe' = pipe /\ stage(pipe)' = stage(pipe)
  BY PipelineAssumption DEF Retval, Goto, Flow
<1>3. HandedOver'
  BY <1>1, ProgramBounds DEF HandedOver
<1> QED
  BY <1>0, <1>1, <1>2, <1>3, ProgramBounds DEF ReaderInv, GoodProc, Good

\* The types of results, and where control is, keep ReaderInv at every step.
LEMMA ReaderInvHolds ==
  ASSUME Rules, Forward, KeepsParameters, AwaitsRets
  PROVE  PSpec => []ReaderInv
<1>1. PInit => ReaderInv
  BY PipelineAssumption, ProgramBounds DEF PInit, Init, ReaderInv, HandedOver
<1>2. Flow /\ IInv /\ ReaderInv /\ [PNext]_<<vars, pvars>> => ReaderInv'
  <2> SUFFICES ASSUME Flow, IInv, ReaderInv, [PNext]_<<vars, pvars>> PROVE ReaderInv'
    OBVIOUS
  <2>1. CASE Loop
    BY <2>1, ReaderBody DEF Loop, CoroNext
  <2>2. CASE Runs(Reader)
    <3>1. GoodProc(Reader) /\ run[Reader]
      BY <2>2, PipelineAssumption, CoreParts DEF IInv, Runs
    <3>2. pc[Reader] = "loop"
      BY <3>1 DEF ReaderInv, GoodProc, Good
    <3> QED
      BY <2>2, <3>2, ReaderBody DEF Runs
  <2>3. CASE UNCHANGED <<vars, pvars>>
    BY <2>3 DEF vars, pvars, ReaderInv, HandedOver, absEnv, Pending, fresh, stage
  <2> QED
    BY <2>1, <2>2, <2>3, SaverSteps, RestoreStep, RetvalStep DEF PNext, ReaderNext
<1> QED
  BY <1>1, <1>2, FlowHolds, PipelineIInv, PTL DEF PSpec

\* If anything was written, the reader never runs what precedes the co_await that
\* the saver was suspended at, for any coroutine that does not go back
\* (valor.cc:97-101, README.md:23).
THEOREM PipelineRunsOnce ==
  ASSUME Rules, Forward, KeepsParameters, AwaitsRets
  PROVE  PSpec => []NothingRunsTwice
<1>1. ReaderInv => NothingRunsTwice
  BY DEF ReaderInv, NothingRunsTwice
<1> QED
  BY <1>1, ReaderInvHolds, PTL

\* The parameters arrive in the other process and stay there (valor.cc:48, 60, 77;
\* README.md:6).
THEOREM PipelineHandsOver ==
  ASSUME Rules, Forward, KeepsParameters, AwaitsRets
  PROVE  PSpec => []HandedOver
<1>1. ReaderInv => HandedOver
  BY DEF ReaderInv
<1> QED
  BY <1>1, ReaderInvHolds, PTL
=============================================================================
