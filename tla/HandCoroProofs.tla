--------------------------- MODULE HandCoroProofs ---------------------------
(***************************************************************************)
(* HandCoro, for any program, number of processes and results, as long as  *)
(* the client keeps to the rules.                                          *)
(***************************************************************************)
EXTENDS HandCoro, SerCtxProofs

\* An update of p that keeps the other processes as they are.
LEMMA OneLabelled ==
  ASSUME IInv, NEW p \in Proc,
         NEW a, NEW r, NEW e, NEW s, NEW w, NEW h,
         Update(p, a, r, e, s, w, h),
         r => /\ h = "none"
              /\ (a \in Stages /\ w = <<>>) => s = save(a, e)
  PROVE  AtLabelInv'
<1>1. Labelled(p)'
  BY Updated DEF IInv, Labelled, atLabel
<1>2. ASSUME NEW q \in Proc \ {p} PROVE Labelled(q)'
  BY <1>2, Updated DEF IInv, AtLabelInv, Labelled, atLabel
<1> QED
  BY <1>1, <1>2 DEF AtLabelInv

-----------------------------------------------------------------------------
(* The client *)

LEMMA ClientLabelled ==
  ASSUME Rules, IInv, NEW p \in Proc, ClientNext(p)
  PROVE  AtLabelInv'
<1> USE DEF IInv
<1>0. GoodProc(p) /\ Labelled(p)
  BY CoreParts DEF AtLabelInv
<1>1. ASSUME NEW e \in Locals(0), CallWith(p, e) PROVE AtLabelInv'
  <2>1. Update(p, 0, run[p], e, state[p], aw[p], hold[p])
    BY <1>1, Unchanged DEF CallWith, Update
  <2> QED
    BY <1>1, <1>0, <2>1, OneLabelled, ProgramBounds DEF CallWith, GoodProc, Good
<1>2. CASE Deserialize(p)
  <2>1. PICK w \in wire : Update(p, at[p], run[p], env[p], w.str, aw[p], hold[p])
    BY <1>2, Unchanged DEF Deserialize, Update
  <2> QED
    BY <1>2, <2>1, OneLabelled DEF Deserialize, Rules, fresh
<1>3. CASE SetAwRet(p)
  <2>1. ~run[p]
    BY <1>3 DEF SetAwRet, fresh, suspended
  <2>2. PICK w, h : Update(p, at[p], run[p], env[p], state[p], w, h)
    BY <1>3, Unchanged, CoreParts DEF SetAwRet, Update, Arrays
  <2> QED
    BY <2>1, <2>2, OneLabelled
<1>4. CASE Start(p)
  <2> DEFINE n == stage(state[p])
  <2>1. Update(p, n, TRUE, jump(n, env[p]), state[p], aw[p], hold[p])
    BY <1>4, Unchanged, CoreParts DEF Start, Update, Arrays
  <2>2. n \in Stages => aw[p] # <<>>
    BY <1>4, ProgramBounds DEF Start, Rules
  <2>3. hold[p] = "none"
    BY <1>4, <1>0 DEF Start, fresh, GoodProc, Good
  <2> HIDE DEF n
  <2> QED
    BY <2>1, <2>2, <2>3, OneLabelled
<1>5. CASE ContinueFrom(p)
  <2>1. PICK s \in {NoState} \cup {w.str : w \in wire}, rets \in RetSeq :
          rets # <<>> /\ continue_from(p, s, rets)
    BY <1>5 DEF ContinueFrom, Rules
  <2> DEFINE n == stage(s)
             d == [v \in Live[0] |-> Default]
  <2>2. Update(p, n, TRUE, jump(n, d), s, rets, hold[p])
    BY <2>1, Unchanged DEF continue_from, Update
  <2>3. hold[p] = "none"
    BY <2>1, <1>0 DEF continue_from, GoodProc, Good
  <2> HIDE DEF n, d
  <2> QED
    BY <2>1, <2>2, <2>3, OneLabelled
<1>6. CASE Serialize(p)
  <2>1. Update(p, at[p], run[p], env[p], state[p], aw[p], hold[p])
    BY <1>6, Unchanged DEF Serialize, Update
  <2> QED
    BY <2>1, <1>0, OneLabelled DEF Labelled, atLabel
<1>7. CASE Get(p)
  <2>1. PICK e : Update(p, at[p], run[p], e, state[p], aw[p], hold[p])
    BY <1>7, Unchanged DEF Get, Update
  <2>2. ~run[p]
    BY <1>7, <1>0 DEF Get, GoodProc, Good
  <2> QED
    BY <2>1, <2>2, OneLabelled
<1>8. CASE Exit(p)
  <2>1. Update(p, NoCoro, FALSE, NoLocals, NoState, <<>>, "none")
    BY <1>8 DEF Exit, Update
  <2> QED
    BY <2>1, OneLabelled
<1> QED
  BY <1>1, <1>2, <1>3, <1>4, <1>5, <1>6, <1>7, <1>8 DEF ClientNext, Call

-----------------------------------------------------------------------------
(* The coroutine *)

LEMMA SegmentKeeps ==
  ASSUME IInv, NEW p \in Proc, NEW n \in 0 .. N, NEW e \in Locals(n),
         NEW r \in ResultOf[n], Segment(p, n, e, r)
  PROVE  IInv'
<1> USE DEF IInv
<1>1. PICK o \in Body(n, e, r) :
        /\ at' = [at EXCEPT ![p] = o.next]
        /\ env' = [env EXCEPT ![p] = o.env]
        /\ run' = [run EXCEPT ![p] = o.next # Done]
        /\ state' = [state EXCEPT ![p] = IF o.next = Done THEN @ ELSE save(o.next, o.env)]
        /\ aw' = [aw EXCEPT ![p] = IF o.next = Done THEN @ ELSE resize(@)]
        /\ hold' = [hold EXCEPT ![p] = "none"]
        /\ UNCHANGED wire
  BY DEF Segment
<1>2. GoodProc(p) /\ WireInv'
  BY <1>1, CoreParts, WireUnchanged
<1>3. o.next \in 1 .. Done /\ o.env \in Locals(o.next) /\ o.env \in Memory(o.next)
  BY BodyOutcome, LocalsInMemory
<1> DEFINE m == o.next
           v == o.env
<1> HIDE DEF m, v
<1>4. CASE m = Done
  <2>1. Update(p, m, FALSE, v, state[p], aw[p], "none")
    BY <1>1, <1>4, Unchanged DEF Update, m, v
  <2>2. Good(m, FALSE, v, state[p], aw[p], "none")
    BY <1>2, <1>3, <1>4, ProgramBounds DEF GoodProc, Good, m, v
  <2> QED
    BY <1>2, <2>1, <2>2, OneProcess, OneLabelled
<1>5. CASE m # Done
  <2>1. resize(aw[p]) = <<>>
    BY <1>2, ResizeEmpty DEF GoodProc, Good
  <2>2. m \in Stages
    BY <1>3, <1>5, ProgramBounds DEF m
  <2>3. Update(p, m, TRUE, v, save(m, v), <<>>, "none")
    BY <1>1, <1>5, <2>1, CoreParts DEF Update, Arrays, m, v
  <2>4. Good(m, TRUE, v, save(m, v), <<>>, "none")
    BY <1>3, <2>2, SaveIsSaved, EmptyRetSeq, ProgramBounds DEF Good, m, v
  <2> QED
    BY <1>2, <2>3, <2>4, OneProcess, OneLabelled
<1> QED
  BY <1>4, <1>5

\* At a label with a result, the locals are read from the state.
LEMMA LoadedLocals ==
  ASSUME IInv, NEW p \in Proc, atLabel(p), aw[p] # <<>>
  PROVE  /\ state[p] \in Saved /\ stage(state[p]) = at[p]
         /\ loaded(p) = state[p].vals
         /\ loaded(p) \in Locals(at[p])
<1>1. GoodProc(p) /\ at[p] \in Stages /\ run[p]
  BY CoreParts DEF IInv, atLabel
<1>2. stage(state[p]) = at[p] /\ state[p] \in Saved \cup {NoState} /\ env[p] \in Memory(at[p])
  BY <1>1 DEF GoodProc, Good
<1>3. state[p] \in Saved
  BY <1>1, <1>2, NoStateStage, ProgramBounds
<1> QED
  BY <1>2, <1>3, LoadSaved, SavedParts DEF loaded

LEMMA BeginKeeps ==
  ASSUME IInv, NEW p \in Proc, Begin(p)
  PROVE  IInv'
<1>1. env[p] \in Locals(0)
  BY CoreParts DEF IInv, Begin, GoodProc, Good
<1>2. NoRes \in ResultOf[0] /\ 0 \in 0 .. N
  BY ProgramAssumption
<1> QED
  BY <1>1, <1>2, SegmentKeeps DEF Begin

LEMMA AwaitKeeps ==
  ASSUME IInv, NEW p \in Proc, Await(p)
  PROVE  IInv'
<1>1. GoodProc(p) /\ WireInv' /\ Labelled(p) /\ at[p] \in Stages /\ run[p] /\ aw[p] = <<>>
  BY CoreParts, WireUnchanged DEF IInv, AtLabelInv, Await, atLabel, has
<1>2. Update(p, at[p], FALSE, env[p], state[p], <<Awaiter>>, "ref")
  BY <1>1, Unchanged DEF IInv, Await, await_transform, put, loaded, load, Update
<1>3. Good(at[p], FALSE, env[p], state[p], <<Awaiter>>, "ref")
  BY <1>1, ProgramBounds DEF Labelled, atLabel, GoodProc, Good
<1> QED
  BY <1>1, <1>2, <1>3, OneProcess, OneLabelled DEF IInv

LEMMA TakeKeeps ==
  ASSUME IInv, NEW p \in Proc, Take(p)
  PROVE  IInv'
<1> DEFINE r == IF at[p] \in Void THEN NoRes ELSE Head(aw[p])
<1>1. at[p] \in 0 .. N /\ loaded(p) \in Locals(at[p])
  BY LoadedLocals, ProgramBounds DEF Take, has, atLabel
<1>2. r \in ResultOf[at[p]]
  BY DEF Take, Void
<1>3. Segment(p, at[p], loaded(p), r)
  BY DEF Take
<1> HIDE DEF r
<1> QED
  BY <1>1, <1>2, <1>3, SegmentKeeps

LEMMA ResumeKeeps ==
  ASSUME IInv, NEW p \in Proc, Resume(p)
  PROVE  IInv'
<1>1. env[p] \in Locals(at[p]) /\ at[p] \in 0 .. N
  BY SuspendedState, ProgramBounds DEF IInv, Resume, suspended
<1>2. PICK r \in ResultOf[at[p]] : Segment(p, at[p], env[p], r)
  BY DEF Resume
<1> QED
  BY <1>1, <1>2, SegmentKeeps

LEMMA IInvInductive ==
  ASSUME Rules
  PROVE  Spec => []IInv
<1>1. Init => IInv
  <2> SUFFICES ASSUME Init PROVE AtLabelInv
    BY InitGood DEF IInv
  <2> QED
    BY DEF Init, AtLabelInv, Labelled
<1>2. IInv /\ [Next]_vars => IInv'
  <2> SUFFICES ASSUME IInv, [Next]_vars PROVE IInv'
    OBVIOUS
  <2>1. ASSUME NEW p \in Proc, ClientNext(p) PROVE IInv'
    BY <2>1, ClientKeeps, ClientLabelled DEF IInv
  <2>2. ASSUME NEW p \in Proc, CoroNext(p) PROVE IInv'
    <3>1. CASE BadCast(p)
      BY <2>1, <3>1 DEF BadCast, ClientNext
    <3> QED
      BY <2>2, <3>1, BeginKeeps, AwaitKeeps, TakeKeeps, ResumeKeeps DEF CoroNext
  <2>3. CASE UNCHANGED vars
    BY <2>3 DEF vars, IInv, CoreInv, TypeOK, SavedIsCurrent, CoroInv, WireInv, AtLabelInv,
       Labelled, atLabel, suspended, Clean, NotYet, Awaiting, Finished, Whole, Restoring, Supplied
  <2> QED
    BY <2>1, <2>2, <2>3 DEF Next
<1> QED
  BY <1>1, <1>2, PTL DEF Spec

\* The types of valor.h:59-82 and of the locals, whatever the coroutine.
THEOREM HandTypeCorrect ==
  ASSUME Rules
  PROVE  Spec => []TypeOK
<1>1. IInv => TypeOK
  BY DEF IInv, CoreInv
<1> QED
  BY <1>1, IInvInductive, PTL

\* At every co_await suspension the serialized state is that of the present
\* stage and locals (valor.h:39, 113-122; valor.cc:57-60, 74-77).
THEOREM HandSavedIsCurrent ==
  ASSUME Rules
  PROVE  Spec => []SavedIsCurrent
<1>1. IInv => SavedIsCurrent
  BY DEF IInv, CoreInv
<1> QED
  BY <1>1, IInvInductive, PTL

\* Strings do not confuse coroutines that are in different places or have
\* different locals (valor.h:40, 113).
THEOREM HandWireFaithful ==
  ASSUME Rules
  PROVE  Spec => []WireFaithful
<1>1. IInv => WireFaithful
  BY CoreWire DEF IInv
<1> QED
  BY <1>1, IInvInductive, PTL

-----------------------------------------------------------------------------
(* The coroutine's steps are steps of Coro. *)

\* A segment that starts from the abstract locals with the result that is due.
LEMMA SegmentRefines ==
  ASSUME IInv, NEW p \in Proc, absAt(p) \in 0 .. N, absEnv(p) \in Locals(absAt(p)),
         NEW r \in ResultOf[absAt(p)],
         (absDue(p) # <<>> /\ absAt(p) \notin Void) => r = Head(absDue(p)),
         Segment(p, absAt(p), absEnv(p), r)
  PROVE  C!Step(p)
<1>1. PICK o \in Body(absAt(p), absEnv(p), r) :
        /\ at' = [at EXCEPT ![p] = o.next]
        /\ env' = [env EXCEPT ![p] = o.env]
        /\ run' = [run EXCEPT ![p] = o.next # Done]
        /\ state' = [state EXCEPT ![p] = IF o.next = Done THEN @ ELSE save(o.next, o.env)]
        /\ aw' = [aw EXCEPT ![p] = IF o.next = Done THEN @ ELSE resize(@)]
        /\ hold' = [hold EXCEPT ![p] = "none"]
        /\ UNCHANGED wire
  BY DEF Segment
<1>2. Arrays /\ GoodProc(p) /\ CoreInv
  BY CoreParts DEF IInv
<1>3. o.next \in 1 .. Done
  BY BodyOutcome
<1> DEFINE m == o.next
           v == o.env
           s == IF m = Done THEN state[p] ELSE save(m, v)
           w == IF m = Done THEN aw[p] ELSE resize(aw[p])
<1>4. Update(p, m, m # Done, v, s, w, "none")
  BY <1>1, <1>2 DEF Update, Arrays
<1>5. m # Done => w = <<>>
  BY <1>2, ResizeEmpty DEF GoodProc, Good
<1>6. at'[p] = m /\ env'[p] = v /\ aw'[p] = w /\ hold'[p] = "none"
  BY <1>2, <1>4 DEF Update, Arrays
<1> HIDE DEF m, v, s, w
<1>7. absAt(p)' = m /\ absEnv(p)' = v /\ absDue(p)' = <<>>
  <2>1. m \in 1 .. Done
    BY <1>3 DEF m
  <2> QED
    BY <1>5, <1>6, <2>1, ProgramBounds DEF absAt, absEnv, absDue, fresh, Pending
<1>8. C!Place(p, m, v, <<>>)
  BY <1>2, <1>4, <1>7, Placed
<1> QED
  BY <1>1, <1>8, SameConstants DEF C!Step, m, v

LEMMA BeginRefines ==
  ASSUME IInv, NEW p \in Proc, Begin(p)
  PROVE  C!Step(p)
<1>1. absAt(p) = 0 /\ absEnv(p) = env[p] /\ env[p] \in Locals(0)
  BY CoreParts, ProgramBounds DEF IInv, Begin, GoodProc, Good, absAt, absEnv, fresh, Pending
<1>2. ResultOf[0] = {NoRes} /\ 0 \in Void /\ 0 \in 0 .. N
  BY ProgramAssumption DEF Void
<1> QED
  BY <1>1, <1>2, SegmentRefines DEF Begin

LEMMA AwaitRefines ==
  ASSUME IInv, NEW p \in Proc, Await(p)
  PROVE  UNCHANGED C!cvars
<1>1. /\ GoodProc(p) /\ Labelled(p) /\ at[p] \in Stages /\ run[p] /\ aw[p] = <<>>
      /\ wire' = wire /\ Arrays /\ CoreInv
  BY CoreParts DEF IInv, AtLabelInv, Await, atLabel, has
<1>2. Update(p, at[p], FALSE, env[p], state[p], <<Awaiter>>, "ref")
  BY <1>1, Unchanged DEF Await, await_transform, put, loaded, load, Update
<1>3. /\ at'[p] = at[p] /\ run'[p] = FALSE /\ env'[p] = env[p] /\ hold'[p] = "ref"
  BY <1>1, <1>2 DEF Update, Arrays
<1>4. absAt(p)' = absAt(p) /\ absEnv(p)' = absEnv(p) /\ absDue(p)' = absDue(p)
  BY <1>1, <1>3, ProgramBounds DEF absAt, absEnv, absDue, fresh, Pending
<1> QED
  BY <1>1, <1>2, <1>4, Stutter

LEMMA TakeRefines ==
  ASSUME IInv, NEW p \in Proc, Take(p)
  PROVE  C!Step(p)
<1> DEFINE r == IF at[p] \in Void THEN NoRes ELSE Head(aw[p])
<1>1. atLabel(p) /\ aw[p] # <<>> /\ at[p] \in Stages /\ run[p] /\ Labelled(p)
  BY DEF Take, has, atLabel, IInv, AtLabelInv
<1>2. absAt(p) = at[p] /\ absEnv(p) = loaded(p) /\ absDue(p) = aw[p]
  BY <1>1, LoadedLocals, ProgramBounds DEF Labelled, absAt, absEnv, absDue, fresh, Pending
<1>3. at[p] \in 0 .. N /\ loaded(p) \in Locals(at[p])
  BY <1>1, LoadedLocals, ProgramBounds
<1>4. r \in ResultOf[at[p]] /\ (at[p] \notin Void => r = Head(aw[p]))
  BY DEF Take, Void
<1>5. Segment(p, at[p], loaded(p), r)
  BY DEF Take
<1> HIDE DEF r
<1> QED
  BY <1>2, <1>3, <1>4, <1>5, SegmentRefines

LEMMA ResumeRefines ==
  ASSUME IInv, NEW p \in Proc, Resume(p)
  PROVE  C!Step(p)
<1>1. suspended(p) /\ CoreInv /\ hold[p] # "none"
  BY CoreParts DEF Resume, IInv, suspended, GoodProc, Good
<1>2. absAt(p) = at[p] /\ absEnv(p) = env[p] /\ env[p] \in Locals(at[p])
  BY <1>1, SuspendedState
<1>3. absDue(p) = <<>> /\ at[p] \in 0 .. N
  BY <1>1, ProgramBounds DEF absDue, suspended
<1>4. PICK r \in ResultOf[at[p]] : Segment(p, at[p], env[p], r)
  BY DEF Resume
<1> QED
  BY <1>2, <1>3, <1>4, SegmentRefines

\* A coroutine instrumented by hand behaves, over all processes and strings, as
\* one whose suspended state is a value that can be recorded and revived
\* (README.md:20-23; valor.cc:44-84, valor.h:59-151).
THEOREM HandImplementsCoro ==
  ASSUME Rules
  PROVE  Spec => ImplementsCoro
<1>1. Init => C!CInit
  BY InitRefines
<1>2. IInv /\ [Next]_vars => [C!CNext]_C!cvars
  <2> SUFFICES ASSUME IInv, [Next]_vars PROVE C!CNext \/ UNCHANGED C!cvars
    OBVIOUS
  <2>1. ASSUME NEW p \in Proc, ClientNext(p) PROVE C!CNext \/ UNCHANGED C!cvars
    BY <2>1, ClientRefines DEF IInv
  <2>2. ASSUME NEW p \in Proc, CoroNext(p) PROVE C!CNext \/ UNCHANGED C!cvars
    <3>1. CASE BadCast(p)
      BY <2>1, <3>1 DEF BadCast, ClientNext
    <3>2. CASE Begin(p) \/ Take(p) \/ Resume(p)
      BY <3>2, BeginRefines, TakeRefines, ResumeRefines DEF C!CNext
    <3> QED
      BY <2>2, <3>1, <3>2, AwaitRefines DEF CoroNext
  <2>3. CASE UNCHANGED vars
    BY <2>3 DEF vars, C!cvars, absAt, absEnv, absDue, fresh, Pending
  <2> QED
    BY <2>1, <2>2, <2>3 DEF Next
<1> QED
  BY <1>1, <1>2, IInvInductive, PTL DEF Spec, ImplementsCoro, C!CSpec
=============================================================================
