--------------------------- MODULE ValetCoroProofs ---------------------------
(***************************************************************************)
(* ValetCoro, for any program of void co_awaits, number of processes and   *)
(* results, as long as the client keeps to the rules.                      *)
(***************************************************************************)
EXTENDS ValetCoro, SerCtxProofs

LEMMA OneLabelled ==
  ASSUME IInv, NEW p \in Proc,
         NEW a, NEW r, NEW e, NEW s, NEW w, NEW h,
         Update(p, a, r, e, s, w, h),
         a \in Stages => /\ w # <<>>
                         /\ (r /\ h # "none") => s = save(a, e)
  PROVE  AtLabelInv'
<1>1. Labelled(p)'
  BY Updated DEF IInv, Labelled
<1>2. ASSUME NEW q \in Proc \ {p} PROVE Labelled(q)'
  BY <1>2, Updated DEF IInv, AtLabelInv, Labelled
<1> QED
  BY <1>1, <1>2 DEF AtLabelInv

-----------------------------------------------------------------------------
(* The client *)

LEMMA ClientLabelled ==
  ASSUME Rules, IInv, NEW p \in Proc, ClientNext(p)
  PROVE  AtLabelInv'
<1> USE DEF IInv
<1>0. GoodProc(p) /\ Labelled(p)
  BY CoreParts DEF AtLabelInv
<1>1. ASSUME NEW e \in Locals(0), CallWith(p, e) PROVE AtLabelInv'
  <2>1. Update(p, 0, run[p], e, state[p], aw[p], hold[p])
    BY <1>1, Unchanged DEF CallWith, Update
  <2> QED
    BY <2>1, OneLabelled, ProgramBounds
<1>2. CASE Deserialize(p)
  <2>1. PICK w \in wire : Update(p, at[p], run[p], env[p], w.str, aw[p], hold[p])
    BY <1>2, Unchanged DEF Deserialize, Update
  <2> QED
    BY <1>2, <2>1, OneLabelled, ProgramBounds DEF Deserialize, Rules, fresh
<1>3. CASE SetAwRet(p)
  <2>1. ~run[p] /\ aw[p] \in Seq(Result \cup {Awaiter})
    BY <1>3, <1>0 DEF SetAwRet, fresh, suspended, GoodProc, Good
  <2>2. PICK x, h : x \in Result /\ Update(p, at[p], run[p], env[p], state[p], put(aw[p], x), h)
    BY <1>3, Unchanged, CoreParts DEF SetAwRet, Update, Arrays
  <2>3. put(aw[p], x) # <<>>
    BY <2>1 DEF put
  <2> QED
    BY <2>1, <2>2, <2>3, OneLabelled
<1>4. CASE Start(p)
  <2> DEFINE n == stage(state[p])
  <2>1. Update(p, n, TRUE, jump(n, env[p]), state[p], aw[p], hold[p])
    BY <1>4, Unchanged, CoreParts DEF Start, Update, Arrays
  <2>2. n \in Stages => aw[p] # <<>>
    BY <1>4, ProgramBounds DEF Start, Rules
  <2>3. hold[p] = "none"
    BY <1>4, <1>0 DEF Start, fresh, GoodProc, Good
  <2> HIDE DEF n
  <2> QED
    BY <2>1, <2>2, <2>3, OneLabelled
<1>5. CASE ContinueFrom(p)
  <2>1. PICK s \in {NoState} \cup {w.str : w \in wire}, rets \in RetSeq :
          rets # <<>> /\ continue_from(p, s, rets)
    BY <1>5 DEF ContinueFrom, Rules
  <2> DEFINE n == stage(s)
             d == [v \in Live[0] |-> Default]
  <2>2. Update(p, n, TRUE, jump(n, d), s, rets, hold[p])
    BY <2>1, Unchanged DEF continue_from, Update
  <2>3. hold[p] = "none"
    BY <2>1, <1>0 DEF continue_from, GoodProc, Good
  <2> HIDE DEF n, d
  <2> QED
    BY <2>1, <2>2, <2>3, OneLabelled
<1>6. CASE Serialize(p)
  <2>1. Update(p, at[p], run[p], env[p], state[p], aw[p], hold[p])
    BY <1>6, Unchanged DEF Serialize, Update
  <2> QED
    BY <2>1, <1>0, OneLabelled DEF Labelled
<1>7. CASE Get(p)
  <2>1. PICK e : Update(p, at[p], run[p], e, state[p], aw[p], hold[p])
    BY <1>7, Unchanged DEF Get, Update
  <2>2. at[p] \notin Stages
    BY <1>7, ProgramBounds DEF Get
  <2> QED
    BY <2>1, <2>2, OneLabelled
<1>8. CASE Exit(p)
  <2>1. Update(p, NoCoro, FALSE, NoLocals, NoState, <<>>, "none")
    BY <1>8 DEF Exit, Update
  <2>2. NoCoro \notin Stages
    BY ProgramBounds
  <2> QED
    BY <2>1, <2>2, OneLabelled
<1> QED
  BY <1>1, <1>2, <1>3, <1>4, <1>5, <1>6, <1>7, <1>8 DEF ClientNext, Call

-----------------------------------------------------------------------------
(* The coroutine *)

\* A segment ends suspended at the next co_await, with an awaiter, or done.
LEMMA SegmentUpdate ==
  ASSUME IInv, NEW p \in Proc, NEW n \in 0 .. N, NEW e \in Locals(n), Segment(p, n, e)
  PROVE  \E o, s, w, h :
           /\ o \in Body(n, e, NoRes)
           /\ Update(p, o.next, FALSE, o.env, s, w, h)
           /\ Good(o.next, FALSE, o.env, s, w, h)
           /\ o.next \in Stages => w # <<>>
           /\ o.next = Done => h = "none"
           /\ o.next \in 1 .. Done
<1> USE DEF IInv
<1>1. PICK o \in Body(n, e, NoRes) :
        /\ at' = [at EXCEPT ![p] = o.next]
        /\ env' = [env EXCEPT ![p] = o.env]
        /\ run' = [run EXCEPT ![p] = FALSE]
        /\ IF o.next = Done
             THEN /\ hold' = [hold EXCEPT ![p] = "none"]
                  /\ UNCHANGED <<state, aw>>
             ELSE /\ state' = [state EXCEPT ![p] = save(o.next, o.env)]
                  /\ await_transform(p, aw[p])
  BY DEF Segment
<1>2. GoodProc(p)
  BY CoreParts
<1>3. o.next \in 1 .. Done /\ o.env \in Locals(o.next) /\ o.env \in Memory(o.next)
  <2>1. NoRes \in ResultOf[n]
    BY VoidAssumption, ProgramAssumption, ProgramBounds
  <2> QED
    BY <2>1, BodyOutcome, LocalsInMemory
<1> DEFINE m == o.next
           v == o.env
<1> HIDE DEF m, v
<1>4. CASE m = Done
  <2>1. Update(p, m, FALSE, v, state[p], aw[p], "none")
    BY <1>1, <1>4, Unchanged DEF Update, m, v
  <2>2. Good(m, FALSE, v, state[p], aw[p], "none")
    BY <1>2, <1>3, <1>4, ProgramBounds DEF GoodProc, Good, m, v
  <2>3. m \notin Stages
    BY <1>4, ProgramBounds
  <2> QED
    BY <1>3, <2>1, <2>2, <2>3 DEF m, v
<1>5. CASE m # Done
  <2> DEFINE w == IF aw[p] = <<>> THEN put(aw[p], Awaiter) ELSE aw[p]
             h == IF aw[p] = <<>> THEN "ref" ELSE "own"
  <2>1. m \in Stages
    BY <1>3, <1>5, ProgramBounds DEF m
  <2>2. Update(p, m, FALSE, v, save(m, v), w, h)
    BY <1>1, <1>5, CoreParts DEF await_transform, Update, Arrays, m, v
  <2>3. w \in Seq(Result \cup {Awaiter}) /\ w # <<>>
    BY <1>2 DEF GoodProc, Good, put
  <2>4. Good(m, FALSE, v, save(m, v), w, h)
    BY <1>3, <2>1, <2>3, SaveIsSaved, ProgramBounds DEF Good, m, v
  <2> HIDE DEF w, h
  <2> QED
    BY <1>3, <1>5, <2>2, <2>3, <2>4 DEF m, v
<1> QED
  BY <1>4, <1>5

LEMMA SegmentKeeps ==
  ASSUME IInv, NEW p \in Proc, NEW n \in 0 .. N, NEW e \in Locals(n), Segment(p, n, e)
  PROVE  IInv'
<1>1. PICK o, s, w, h :
        /\ o \in Body(n, e, NoRes)
        /\ Update(p, o.next, FALSE, o.env, s, w, h)
        /\ Good(o.next, FALSE, o.env, s, w, h)
        /\ o.next \in Stages => w # <<>>
        /\ o.next = Done => h = "none"
        /\ o.next \in 1 .. Done
  BY SegmentUpdate
<1> DEFINE m == o.next
           v == o.env
<1> HIDE DEF m, v
<1>2. Update(p, m, FALSE, v, s, w, h) /\ Good(m, FALSE, v, s, w, h) /\ (m \in Stages => w # <<>>)
  BY <1>1 DEF m, v
<1>3. WireInv'
  BY WireUnchanged DEF Segment, IInv
<1>4. CoreInv'
  BY <1>2, <1>3, OneProcess DEF IInv
<1>5. AtLabelInv'
  BY <1>2, OneLabelled
<1> QED
  BY <1>4, <1>5 DEF IInv

\* At a label the locals are read from the state.
LEMMA LoadedLocals ==
  ASSUME IInv, NEW p \in Proc, at[p] \in Stages, run[p]
  PROVE  /\ state[p] \in Saved
         /\ load(aw[p], state[p], env[p]) = state[p].vals
         /\ state[p].vals \in Locals(at[p])
         /\ aw[p] # <<>>
<1>1. GoodProc(p) /\ aw[p] # <<>>
  BY CoreParts DEF IInv, AtLabelInv, Labelled
<1>2. stage(state[p]) = at[p] /\ state[p] \in Saved \cup {NoState} /\ env[p] \in Memory(at[p])
  BY <1>1 DEF GoodProc, Good
<1>3. state[p] \in Saved
  BY <1>1, <1>2, NoStateStage, ProgramBounds
<1> QED
  BY <1>1, <1>2, <1>3, LoadSaved, SavedParts

LEMMA BeginKeeps ==
  ASSUME IInv, NEW p \in Proc, Begin(p)
  PROVE  IInv'
<1>1. env[p] \in Locals(0) /\ 0 \in 0 .. N
  BY CoreParts, ProgramBounds DEF IInv, Begin, GoodProc, Good
<1> QED
  BY <1>1, SegmentKeeps DEF Begin

LEMMA LoadKeeps ==
  ASSUME IInv, NEW p \in Proc, Load(p)
  PROVE  IInv'
<1>1. load(aw[p], state[p], env[p]) \in Locals(at[p]) /\ at[p] \in 0 .. N
  BY LoadedLocals, ProgramBounds DEF Load
<1> QED
  BY <1>1, SegmentKeeps DEF Load

LEMMA ResumeUpdate ==
  ASSUME IInv, NEW p \in Proc, Resume(p)
  PROVE  Update(p, at[p], TRUE, env[p], state[p], aw[p], hold[p])
  BY Unchanged DEF IInv, Resume, Update

LEMMA ResumeKeeps ==
  ASSUME IInv, NEW p \in Proc, Resume(p)
  PROVE  IInv'
<1>1. GoodProc(p) /\ Labelled(p) /\ WireInv' /\ suspended(p)
  BY CoreParts, WireUnchanged DEF IInv, AtLabelInv, Resume
<1>2. state[p] = save(at[p], env[p]) /\ stage(state[p]) = at[p] /\ hold[p] # "none"
  BY <1>1, SuspendedState DEF IInv, GoodProc, Good, suspended
<1>3. Good(at[p], TRUE, env[p], state[p], aw[p], hold[p])
  BY <1>1, <1>2, ProgramBounds DEF GoodProc, Good, suspended
<1>4. CoreInv'
  BY <1>1, <1>3, ResumeUpdate, OneProcess DEF IInv
<1>5. AtLabelInv'
  BY <1>1, <1>2, ResumeUpdate, OneLabelled DEF Labelled
<1> QED
  BY <1>4, <1>5 DEF IInv

LEMMA IInvInductive ==
  ASSUME Rules
  PROVE  Spec => []IInv
<1>1. Init => IInv
  <2> SUFFICES ASSUME Init PROVE AtLabelInv
    BY InitGood DEF IInv
  <2> QED
    BY ProgramBounds DEF Init, AtLabelInv, Labelled
<1>2. IInv /\ [Next]_vars => IInv'
  <2> SUFFICES ASSUME IInv, [Next]_vars PROVE IInv'
    OBVIOUS
  <2>1. ASSUME NEW p \in Proc, ClientNext(p) PROVE IInv'
    BY <2>1, ClientKeeps, ClientLabelled DEF IInv
  <2>2. ASSUME NEW p \in Proc, CoroNext(p) PROVE IInv'
    BY <2>2, BeginKeeps, LoadKeeps, ResumeKeeps DEF CoroNext
  <2>3. CASE UNCHANGED vars
    BY <2>3 DEF vars, IInv, CoreInv, TypeOK, SavedIsCurrent, CoroInv, WireInv, AtLabelInv,
       Labelled, suspended, Clean, NotYet, Awaiting, Finished, Whole, Restoring, Supplied
  <2> QED
    BY <2>1, <2>2, <2>3 DEF Next
<1> QED
  BY <1>1, <1>2, PTL DEF Spec

\* The types of valor.h:59-82 and of the locals, whatever the coroutine.
THEOREM ValetTypeCorrect ==
  ASSUME Rules
  PROVE  Spec => []TypeOK
<1>1. IInv => TypeOK
  BY DEF IInv, CoreInv
<1> QED
  BY <1>1, IInvInductive, PTL

\* At every co_await suspension the serialized state is that of the present
\* stage and locals (valor.h:39, 113-122; valet.h:181-191).
THEOREM ValetSavedIsCurrent ==
  ASSUME Rules
  PROVE  Spec => []SavedIsCurrent
<1>1. IInv => SavedIsCurrent
  BY DEF IInv, CoreInv
<1> QED
  BY <1>1, IInvInductive, PTL

\* Strings do not confuse coroutines that are in different places or have
\* different locals (valor.h:40, 113).
THEOREM ValetWireFaithful ==
  ASSUME Rules
  PROVE  Spec => []WireFaithful
<1>1. IInv => WireFaithful
  BY CoreWire DEF IInv
<1> QED
  BY <1>1, IInvInductive, PTL

-----------------------------------------------------------------------------
(* The coroutine's steps are steps of Coro. *)

LEMMA SegmentRefines ==
  ASSUME IInv, NEW p \in Proc, absAt(p) \in 0 .. N, absEnv(p) \in Locals(absAt(p)),
         Segment(p, absAt(p), absEnv(p))
  PROVE  C!Step(p)
<1>1. PICK o, s, w, h :
        /\ o \in Body(absAt(p), absEnv(p), NoRes)
        /\ Update(p, o.next, FALSE, o.env, s, w, h)
        /\ Good(o.next, FALSE, o.env, s, w, h)
        /\ o.next \in 1 .. Done
  BY SegmentUpdate
<1>2. Arrays /\ CoreInv
  BY CoreParts DEF IInv
<1> DEFINE m == o.next
           v == o.env
<1>3. at'[p] = m /\ env'[p] = v /\ run'[p] = FALSE /\ hold'[p] = h
  BY <1>1, <1>2 DEF Update, Arrays
<1>4. m \in Stages => h # "none"
  BY <1>1 DEF Good
<1>5. m \in 1 .. Done
  BY <1>1
<1> HIDE DEF m, v
<1>6. absAt(p)' = m /\ absEnv(p)' = v /\ absDue(p)' = <<>>
  BY <1>3, <1>4, <1>5, ProgramBounds DEF absAt, absEnv, absDue, fresh, Pending
<1>7. C!Place(p, m, v, <<>>)
  BY <1>1, <1>2, <1>6, Placed DEF m, v
<1>8. wire' = wire
  BY DEF Segment
<1>9. absAt(p) \in Void /\ NoRes \in ResultOf[absAt(p)]
  BY VoidAssumption, ProgramAssumption, ProgramBounds DEF Void
<1> QED
  BY <1>1, <1>7, <1>8, <1>9, SameConstants DEF C!Step, m, v

LEMMA BeginRefines ==
  ASSUME IInv, NEW p \in Proc, Begin(p)
  PROVE  C!Step(p)
<1>1. absAt(p) = 0 /\ absEnv(p) = env[p] /\ env[p] \in Locals(0) /\ 0 \in 0 .. N
  BY CoreParts, ProgramBounds DEF IInv, Begin, GoodProc, Good, absAt, absEnv, fresh, Pending
<1> QED
  BY <1>1, SegmentRefines DEF Begin

LEMMA LoadRefines ==
  ASSUME IInv, NEW p \in Proc, Load(p)
  PROVE  C!Step(p)
<1>1. at[p] \in Stages /\ run[p] /\ Segment(p, at[p], load(aw[p], state[p], env[p]))
  BY DEF Load
<1>2. absAt(p) = at[p] /\ absEnv(p) = load(aw[p], state[p], env[p])
  BY <1>1, LoadedLocals, ProgramBounds DEF absAt, absEnv, fresh, Pending
<1>3. at[p] \in 0 .. N /\ absEnv(p) \in Locals(at[p])
  BY <1>1, <1>2, LoadedLocals, ProgramBounds
<1> QED
  BY <1>1, <1>2, <1>3, SegmentRefines

LEMMA ResumeRefines ==
  ASSUME IInv, NEW p \in Proc, Resume(p)
  PROVE  UNCHANGED C!cvars
<1>1. suspended(p) /\ CoreInv /\ wire' = wire /\ hold[p] # "none" /\ Arrays
  BY CoreParts DEF Resume, IInv, suspended, GoodProc, Good
<1>2. absAt(p) = at[p] /\ absEnv(p) = env[p] /\ state[p].vals = env[p]
  BY <1>1, SuspendedState
<1>3. at'[p] = at[p] /\ run'[p] /\ env'[p] = env[p] /\ state'[p] = state[p] /\ hold'[p] = hold[p]
  BY <1>1 DEF Resume, Arrays
<1>4. absAt(p)' = absAt(p) /\ absEnv(p)' = absEnv(p) /\ absDue(p)' = absDue(p)
  BY <1>1, <1>2, <1>3, ProgramBounds DEF absAt, absEnv, absDue, fresh, Pending, suspended
<1> QED
  BY <1>1, <1>4, ResumeUpdate, Stutter

\* A coroutine instrumented by valet behaves, over all processes and strings, as
\* one whose suspended state is a value that can be recorded and revived
\* (README.md:20-23; valet.h:162-191, valor.h:59-151).
THEOREM ValetImplementsCoro ==
  ASSUME Rules
  PROVE  Spec => ImplementsCoro
<1>1. Init => C!CInit
  BY InitRefines
<1>2. IInv /\ [Next]_vars => [C!CNext]_C!cvars
  <2> SUFFICES ASSUME IInv, [Next]_vars PROVE C!CNext \/ UNCHANGED C!cvars
    OBVIOUS
  <2>1. ASSUME NEW p \in Proc, ClientNext(p) PROVE C!CNext \/ UNCHANGED C!cvars
    BY <2>1, ClientRefines DEF IInv
  <2>2. ASSUME NEW p \in Proc, CoroNext(p) PROVE C!CNext \/ UNCHANGED C!cvars
    BY <2>2, BeginRefines, LoadRefines, ResumeRefines DEF CoroNext, C!CNext
  <2>3. CASE UNCHANGED vars
    BY <2>3 DEF vars, C!cvars, absAt, absEnv, absDue, fresh, Pending
  <2> QED
    BY <2>1, <2>2, <2>3 DEF Next
<1> QED
  BY <1>1, <1>2, IInvInductive, PTL DEF Spec, ImplementsCoro, C!CSpec
=============================================================================
