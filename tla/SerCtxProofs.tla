---------------------------- MODULE SerCtxProofs ----------------------------
(***************************************************************************)
(* Facts about strings, locals and awaiters, and what the calls of a       *)
(* client that keeps to the rules preserve, however the coroutine is       *)
(* instrumented.                                                           *)
(***************************************************************************)
EXTENDS SerCtx, SequenceTheorems, TLAPS

LEMMA ProgramBounds ==
  /\ N \in Nat \ {0} /\ N < UInt16
  /\ Done = N + 1 /\ Done \in Nat /\ NoCoro = -1
  /\ Stages = 1 .. N
  /\ Default \in Val
  BY ProgramAssumption DEF Done, NoCoro, Stages, UInt16

LEMMA StageModulo ==
  ASSUME NEW n \in 0 .. N
  PROVE  n % UInt16 = n
  BY ProgramAssumption DEF UInt16

\* What save() writes, stage() reads back.
LEMMA SaveStage ==
  ASSUME NEW n \in Stages, NEW e
  PROVE  save(n, e) = [stage |-> n, vals |-> e] /\ stage(save(n, e)) = n
  BY StageModulo, ProgramBounds DEF save, stage

LEMMA SaveIsSaved ==
  ASSUME NEW n \in Stages, NEW e \in Locals(n)
  PROVE  save(n, e) \in Saved
  BY SaveStage DEF Saved

\* A saved string is determined by its stage and values; only the empty string
\* has stage 0.
LEMMA SavedParts ==
  ASSUME NEW s \in Saved
  PROVE  /\ stage(s) = s.stage
         /\ stage(s) \in Stages
         /\ s.vals \in Locals(stage(s))
         /\ s = save(stage(s), s.vals)
<1>1. PICK n \in Stages : s \in [stage : {n}, vals : Locals(n)]
  BY DEF Saved
<1>2. s.stage = n /\ s.vals \in Locals(n) /\ s = [stage |-> n, vals |-> s.vals]
  BY <1>1
<1>3. stage(s) = n
  BY <1>2, StageModulo, ProgramBounds DEF stage
<1> QED
  BY <1>2, <1>3, SaveStage

LEMMA NoStateStage == stage(NoState) = 0
  BY StageModulo, ProgramBounds DEF stage, NoState

LEMMA StageRange ==
  ASSUME NEW s \in Saved \cup {NoState}
  PROVE  stage(s) \in 0 .. N /\ (stage(s) = 0 <=> s = NoState)
  BY SavedParts, NoStateStage, ProgramBounds

\* Locals have their values' types and the names that are in scope.
LEMMA LocalsInMemory ==
  ASSUME NEW n
  PROVE  Locals(n) \subseteq Memory(n)
  BY DEF Locals, Memory

LEMMA JumpMemory ==
  ASSUME NEW n \in 0 .. N, NEW e \in Locals(0)
  PROVE  jump(n, e) \in Memory(n)
  BY DEF jump, Locals, Memory, Scope, NoCoro

LEMMA JumpZero ==
  ASSUME NEW e \in Locals(0)
  PROVE  jump(0, e) = e
  BY DEF jump, Locals, Scope, NoCoro

LEMMA DefaultLocals == [v \in Live[0] |-> Default] \in Locals(0)
  BY ProgramBounds DEF Locals, Scope, NoCoro

LEMMA NoLocalsType == NoLocals \in Locals(NoCoro)
  BY DEF NoLocals, Locals, Scope

\* load() with something in aw replaces all locals by the saved ones.
LEMMA LoadSaved ==
  ASSUME NEW w, w # <<>>, NEW s \in Saved, NEW e \in Memory(stage(s))
  PROVE  load(w, s, e) = s.vals
<1>1. s.vals \in [Scope(stage(s)) -> Val] /\ DOMAIN e = Scope(stage(s))
  BY SavedParts DEF Locals, Memory
<1> QED
  BY <1>1 DEF load

\* What the body leaves at the next point.
LEMMA BodyOutcome ==
  ASSUME NEW n \in 0 .. N, NEW e \in Locals(n), NEW r \in ResultOf[n], NEW o \in Body(n, e, r)
  PROVE  o.next \in 1 .. Done /\ o.env \in Locals(o.next)
<1>1. o \in Outcome
  BY BodyAssumption
<1> QED
  BY <1>1 DEF Outcome

-----------------------------------------------------------------------------
LEMMA RetSeqDef ==
  ASSUME NEW w
  PROVE  w \in RetSeq <=> w \in Seq(Result) /\ Len(w) <= MaxRets
<1>1. ASSUME w \in RetSeq PROVE w \in Seq(Result) /\ Len(w) <= MaxRets
  <2>1. PICK k \in 0 .. MaxRets : w \in [1 .. k -> Result]
    BY <1>1 DEF RetSeq
  <2> QED
    BY <2>1, ClientAssumption
<1>2. ASSUME w \in Seq(Result), Len(w) <= MaxRets PROVE w \in RetSeq
  <2>1. Len(w) \in 0 .. MaxRets /\ w \in [1 .. Len(w) -> Result]
    BY <1>2, ClientAssumption
  <2> QED
    BY <2>1 DEF RetSeq
<1> QED
  BY <1>1, <1>2

LEMMA EmptyRetSeq == <<>> \in RetSeq
<1>1. <<>> \in Seq(Result) /\ Len(<<>>) <= MaxRets
  BY ClientAssumption
<1> QED
  BY <1>1, RetSeqDef, Zenon

LEMMA PutRetSeq ==
  ASSUME NEW w \in RetSeq, Len(w) < MaxRets, NEW x \in Result
  PROVE  put(w, x) \in RetSeq
<1>1. w \in Seq(Result)
  BY RetSeqDef
<1>2. Append(w, x) \in Seq(Result) /\ Len(Append(w, x)) = Len(w) + 1
  BY <1>1, AppendProperties
<1>3. Len(Append(w, x)) <= MaxRets
  BY <1>1, <1>2, LenProperties, ClientAssumption
<1> QED
  BY <1>2, <1>3, RetSeqDef, Zenon DEF put

LEMMA ResizeEmpty ==
  ASSUME NEW S, NEW w \in Seq(S)
  PROVE  resize(w) = <<>>
  BY DEF resize

-----------------------------------------------------------------------------
\* What CoreInv says of one process with a at its point, r if running, and so on
\* for env, state, aw and hold.
Good(a, r, e, s, w, h) ==
  /\ a \in -1 .. Done /\ r \in BOOLEAN /\ e \in Memory(a)
  /\ s \in Saved \cup {NoState}
  /\ w \in Seq(Result \cup {Awaiter})
  /\ h \in {"none", "own", "ref", "dangling"}
  /\ (a \in Stages /\ ~r) => s = save(a, e) /\ h # "none"
  /\ a = NoCoro => ~r /\ s = NoState /\ w = <<>>
  /\ a \in {NoCoro, 0} => h = "none"
  /\ a = Done => ~r
  /\ a \in {0, Done} => e \in Locals(a)
  /\ (a \in Stages /\ r /\ w # <<>>) => stage(s) = a
  /\ (a \in 0 .. N /\ h = "none") => w \in RetSeq

GoodProc(p) == Good(at[p], run[p], env[p], state[p], aw[p], hold[p])

Arrays ==
  /\ at \in [Proc -> -1 .. Done]
  /\ run \in [Proc -> BOOLEAN]
  /\ env \in [Proc -> UNION {Memory(n) : n \in -1 .. Done}]
  /\ state \in [Proc -> Saved \cup {NoState}]
  /\ aw \in [Proc -> Seq(Result \cup {Awaiter})]
  /\ hold \in [Proc -> {"none", "own", "ref", "dangling"}]

\* A step that gives p these values.
Update(p, a, r, e, s, w, h) ==
  /\ at' = [at EXCEPT ![p] = a]
  /\ run' = [run EXCEPT ![p] = r]
  /\ env' = [env EXCEPT ![p] = e]
  /\ state' = [state EXCEPT ![p] = s]
  /\ aw' = [aw EXCEPT ![p] = w]
  /\ hold' = [hold EXCEPT ![p] = h]

LEMMA CoreParts == CoreInv <=> Arrays /\ (\A p \in Proc : GoodProc(p)) /\ WireInv
<1>1. ASSUME CoreInv PROVE Arrays /\ (\A p \in Proc : GoodProc(p)) /\ WireInv
  BY <1>1 DEF CoreInv, TypeOK, SavedIsCurrent, CoroInv, Arrays, GoodProc, Good, suspended,
     Clean, NotYet, Awaiting, Finished, Whole, Restoring, Supplied
<1>2. ASSUME Arrays, \A p \in Proc : GoodProc(p), WireInv PROVE CoreInv
  <2>1. TypeOK
    BY <1>2 DEF TypeOK, Arrays, GoodProc, Good, WireInv
  <2>2. SavedIsCurrent /\ CoroInv
    BY <1>2 DEF SavedIsCurrent, CoroInv, GoodProc, Good, suspended,
       Clean, NotYet, Awaiting, Finished, Whole, Restoring, Supplied
  <2> QED
    BY <2>1, <2>2, <1>2 DEF CoreInv
<1> QED
  BY <1>1, <1>2

\* A step of one process that leaves it good and the wire alone.
LEMMA OneProcess ==
  ASSUME CoreInv, NEW p \in Proc,
         NEW a, NEW r, NEW e, NEW s, NEW w, NEW h, Good(a, r, e, s, w, h),
         Update(p, a, r, e, s, w, h), WireInv'
  PROVE  CoreInv'
<1>1. Arrays /\ \A q \in Proc : GoodProc(q)
  BY CoreParts
<1>2. Arrays'
  <2>1. /\ a \in -1 .. Done /\ r \in BOOLEAN /\ e \in Memory(a)
        /\ s \in Saved \cup {NoState} /\ w \in Seq(Result \cup {Awaiter})
        /\ h \in {"none", "own", "ref", "dangling"}
    BY DEF Good
  <2>2. e \in UNION {Memory(n) : n \in -1 .. Done}
    BY <2>1
  <2> QED
    BY <1>1, <2>1, <2>2 DEF Arrays, Update
<1>3. ASSUME NEW q \in Proc PROVE GoodProc(q)'
  <2>1. CASE q = p
    <3>1. /\ at'[q] = a /\ run'[q] = r /\ env'[q] = e
          /\ state'[q] = s /\ aw'[q] = w /\ hold'[q] = h
      BY <1>1, <2>1 DEF Arrays, Update
    <3> QED
      BY <3>1 DEF GoodProc
  <2>2. CASE q # p
    <3>1. /\ at'[q] = at[q] /\ run'[q] = run[q] /\ env'[q] = env[q]
          /\ state'[q] = state[q] /\ aw'[q] = aw[q] /\ hold'[q] = hold[q]
      BY <1>1, <2>2 DEF Arrays, Update
    <3> QED
      BY <3>1, <1>1 DEF GoodProc
  <2> QED
    BY <2>1, <2>2
<1>4. TypeOK'
  BY <1>2, <1>3 DEF TypeOK, Arrays, GoodProc, Good, WireInv
<1>5. SavedIsCurrent' /\ CoroInv'
  BY <1>3 DEF SavedIsCurrent, CoroInv, GoodProc, Good, suspended,
     Clean, NotYet, Awaiting, Finished, Whole, Restoring, Supplied
<1> QED
  BY <1>4, <1>5 DEF CoreInv

\* The values after an update.
LEMMA Updated ==
  ASSUME CoreInv, NEW p \in Proc,
         NEW a, NEW r, NEW e, NEW s, NEW w, NEW h, Update(p, a, r, e, s, w, h)
  PROVE  /\ at'[p] = a /\ run'[p] = r /\ env'[p] = e
         /\ state'[p] = s /\ aw'[p] = w /\ hold'[p] = h
         /\ \A q \in Proc \ {p} :
              /\ at'[q] = at[q] /\ run'[q] = run[q] /\ env'[q] = env[q]
              /\ state'[q] = state[q] /\ aw'[q] = aw[q] /\ hold'[q] = hold[q]
  BY CoreParts DEF Update, Arrays

\* What an action leaves alone is an update by the present value.
LEMMA Unchanged ==
  ASSUME CoreInv, NEW p \in Proc
  PROVE  /\ at = [at EXCEPT ![p] = at[p]]
         /\ run = [run EXCEPT ![p] = run[p]]
         /\ env = [env EXCEPT ![p] = env[p]]
         /\ state = [state EXCEPT ![p] = state[p]]
         /\ aw = [aw EXCEPT ![p] = aw[p]]
         /\ hold = [hold EXCEPT ![p] = hold[p]]
  BY CoreParts DEF Arrays

LEMMA WireUnchanged ==
  ASSUME CoreInv, wire' = wire
  PROVE  WireInv'
  BY DEF CoreInv, WireInv

-----------------------------------------------------------------------------
LEMMA CallKeeps ==
  ASSUME CoreInv, NEW p \in Proc, NEW e \in Locals(0), CallWith(p, e)
  PROVE  CoreInv'
<1>1. GoodProc(p) /\ WireInv'
  BY CoreParts, WireUnchanged DEF CallWith
<1>2. Good(0, run[p], e, state[p], aw[p], hold[p])
  <2>1. aw[p] \in RetSeq
    BY <1>1, EmptyRetSeq DEF CallWith, GoodProc, Good
  <2> QED
    BY <1>1, <2>1, LocalsInMemory, ProgramBounds DEF CallWith, GoodProc, Good
<1>3. Update(p, 0, run[p], e, state[p], aw[p], hold[p])
  BY Unchanged DEF CallWith, Update
<1> QED
  BY <1>1, <1>2, <1>3, OneProcess

LEMMA DeserializeKeeps ==
  ASSUME Rules, CoreInv, NEW p \in Proc, Deserialize(p)
  PROVE  CoreInv'
<1>1. PICK w \in wire : state' = [state EXCEPT ![p] = w.str]
  BY DEF Deserialize
<1>2. GoodProc(p) /\ WireInv' /\ w.str \in Saved
  BY CoreParts, WireUnchanged DEF Deserialize, WireInv
<1>3. Good(at[p], run[p], env[p], w.str, aw[p], hold[p])
  BY <1>2, ProgramBounds DEF Deserialize, Rules, fresh, GoodProc, Good
<1>4. Update(p, at[p], run[p], env[p], w.str, aw[p], hold[p])
  BY <1>1, Unchanged DEF Deserialize, Update
<1> QED
  BY <1>2, <1>3, <1>4, OneProcess

LEMMA SetAwRetKeeps ==
  ASSUME CoreInv, NEW p \in Proc, SetAwRet(p)
  PROVE  CoreInv'
<1>1. PICK x \in Result, h \in {"dangling", hold[p]} :
        /\ aw' = [aw EXCEPT ![p] = put(aw[p], x)]
        /\ hold' = [hold EXCEPT ![p] = h]
        /\ h = "dangling" => hold[p] = "ref"
  BY CoreParts DEF SetAwRet, Arrays
<1>2. GoodProc(p) /\ WireInv'
  BY CoreParts, WireUnchanged DEF SetAwRet
<1>3. Good(at[p], run[p], env[p], state[p], put(aw[p], x), h)
  <2>1. put(aw[p], x) \in Seq(Result \cup {Awaiter})
    BY <1>2 DEF GoodProc, Good, put
  <2>2. aw[p] \in RetSeq => put(aw[p], x) \in RetSeq
    BY PutRetSeq DEF SetAwRet
  <2> QED
    BY <1>1, <1>2, <2>1, <2>2, ProgramBounds DEF SetAwRet, fresh, suspended, GoodProc, Good
<1>4. Update(p, at[p], run[p], env[p], state[p], put(aw[p], x), h)
  BY <1>1, Unchanged DEF SetAwRet, Update
<1> QED
  BY <1>2, <1>3, <1>4, OneProcess

LEMMA StartKeeps ==
  ASSUME Rules, CoreInv, NEW p \in Proc, Start(p)
  PROVE  CoreInv'
<1> DEFINE n == stage(state[p])
<1>1. GoodProc(p) /\ WireInv' /\ at[p] = 0 /\ ~run[p]
  BY CoreParts, WireUnchanged DEF Start, fresh
<1>2. n \in 0 .. N /\ env[p] \in Locals(0)
  BY <1>1, StageRange DEF GoodProc, Good
<1>3. n \in Stages => aw[p] # <<>>
  BY ProgramBounds DEF Start, Rules
<1>4. Good(n, TRUE, jump(n, env[p]), state[p], aw[p], hold[p])
  <2>1. jump(n, env[p]) \in Memory(n) /\ (n = 0 => jump(n, env[p]) \in Locals(0))
    BY <1>2, JumpMemory, JumpZero
  <2> QED
    BY <1>1, <1>2, <2>1, ProgramBounds DEF GoodProc, Good
<1>5. Update(p, n, TRUE, jump(n, env[p]), state[p], aw[p], hold[p])
  BY Unchanged, CoreParts DEF Start, Update, Arrays
<1> QED
  BY <1>1, <1>4, <1>5, OneProcess

LEMMA ContinueFromKeeps ==
  ASSUME CoreInv, NEW p \in Proc, NEW s \in Saved \cup {NoState}, NEW rets \in RetSeq,
         rets # <<>>, continue_from(p, s, rets)
  PROVE  CoreInv'
<1> DEFINE n == stage(s)
           d == [v \in Live[0] |-> Default]
<1>1. GoodProc(p) /\ WireInv' /\ at[p] = NoCoro
  BY CoreParts, WireUnchanged DEF continue_from
<1>2. n \in 0 .. N
  BY StageRange
<1>3. Good(n, TRUE, jump(n, d), s, rets, hold[p])
  <2>1. jump(n, d) \in Memory(n) /\ (n = 0 => jump(n, d) \in Locals(0))
    BY <1>2, JumpMemory, JumpZero, DefaultLocals
  <2>2. rets \in Seq(Result \cup {Awaiter})
    BY RetSeqDef
  <2> HIDE DEF n, d
  <2>3. hold[p] = "none"
    BY <1>1 DEF GoodProc, Good
  <2> QED
    BY <1>2, <2>1, <2>2, <2>3, ProgramBounds DEF Good, n
<1>4. Update(p, n, TRUE, jump(n, d), s, rets, hold[p])
  BY Unchanged DEF continue_from, Update
<1> QED
  BY <1>1, <1>3, <1>4, OneProcess

\* What a suspended coroutine's state says of it.
LEMMA SuspendedState ==
  ASSUME CoreInv, NEW p \in Proc, suspended(p)
  PROVE  /\ state[p] \in Saved
         /\ stage(state[p]) = at[p] /\ state[p].vals = env[p]
         /\ env[p] \in Locals(at[p])
         /\ absAt(p) = at[p] /\ absEnv(p) = env[p]
<1>1. GoodProc(p) /\ at[p] \in Stages /\ ~run[p]
  BY CoreParts DEF suspended
<1>2. state[p] = save(at[p], env[p]) /\ state[p] \in Saved \cup {NoState}
  BY <1>1 DEF GoodProc, Good
<1>3. stage(state[p]) = at[p] /\ state[p].vals = env[p]
  BY <1>1, <1>2, SaveStage
<1>4. state[p] \in Saved
  BY <1>1, <1>2, <1>3, NoStateStage, ProgramBounds
<1>5. ~fresh(p) /\ ~Pending(p)
  BY <1>1, ProgramBounds DEF fresh, Pending
<1> QED
  BY <1>3, <1>4, <1>5, SavedParts DEF absAt, absEnv

LEMMA SerializeKeeps ==
  ASSUME Rules, CoreInv, NEW p \in Proc, Serialize(p)
  PROVE  CoreInv'
<1>1. suspended(p)
  BY DEF Serialize, Rules
<1>2. wire' = wire \cup {[str |-> state[p], of |-> [at |-> at[p], env |-> env[p]]]}
  BY <1>1, SuspendedState DEF Serialize
<1>3. WireInv'
  BY <1>1, <1>2, SuspendedState DEF CoreInv, WireInv
<1>4. Update(p, at[p], run[p], env[p], state[p], aw[p], hold[p])
  BY Unchanged DEF Serialize, Update
<1>5. Good(at[p], run[p], env[p], state[p], aw[p], hold[p])
  BY CoreParts DEF GoodProc
<1> QED
  BY <1>3, <1>4, <1>5, OneProcess

LEMMA GetKeeps ==
  ASSUME CoreInv, NEW p \in Proc, Get(p)
  PROVE  CoreInv'
<1>1. PICK e \in Locals(Done) : env' = [env EXCEPT ![p] = e]
  BY DEF Get
<1>2. GoodProc(p) /\ WireInv' /\ at[p] = Done
  BY CoreParts, WireUnchanged DEF Get
<1>3. Good(at[p], run[p], e, state[p], aw[p], hold[p])
  BY <1>2, LocalsInMemory, ProgramBounds DEF GoodProc, Good
<1>4. Update(p, at[p], run[p], e, state[p], aw[p], hold[p])
  BY <1>1, Unchanged DEF Get, Update
<1> QED
  BY <1>2, <1>3, <1>4, OneProcess

LEMMA ExitKeeps ==
  ASSUME CoreInv, NEW p \in Proc, Exit(p)
  PROVE  CoreInv'
<1>1. WireInv'
  BY WireUnchanged DEF Exit
<1>2. Good(NoCoro, FALSE, NoLocals, NoState, <<>>, "none")
  BY NoLocalsType, LocalsInMemory, ProgramBounds DEF Good
<1>3. Update(p, NoCoro, FALSE, NoLocals, NoState, <<>>, "none")
  BY DEF Exit, Update
<1> QED
  BY <1>1, <1>2, <1>3, OneProcess

\* Every call of a client that keeps to the rules.
LEMMA ClientKeeps ==
  ASSUME Rules, CoreInv, NEW p \in Proc, ClientNext(p)
  PROVE  CoreInv'
<1>1. CASE Call(p)
  BY <1>1, CallKeeps DEF Call
<1>2. CASE ContinueFrom(p)
  <2>1. \A w \in wire : w.str \in Saved
    BY DEF CoreInv, WireInv
  <2>2. PICK s \in {NoState} \cup {w.str : w \in wire}, rets \in RetSeq :
          rets # <<>> /\ continue_from(p, s, rets)
    BY <1>2 DEF ContinueFrom, Rules
  <2> QED
    BY <2>1, <2>2, ContinueFromKeeps
<1> QED
  BY <1>1, <1>2, DeserializeKeeps, SetAwRetKeeps, StartKeeps, SerializeKeeps, GetKeeps,
     ExitKeeps DEF ClientNext

LEMMA InitGood == Init => CoreInv
<1> SUFFICES ASSUME Init PROVE CoreInv
  OBVIOUS
<1>1. Good(NoCoro, FALSE, NoLocals, NoState, <<>>, "none")
  BY NoLocalsType, LocalsInMemory, ProgramBounds DEF Good
<1>2. \A p \in Proc : GoodProc(p)
  BY <1>1 DEF Init, GoodProc
<1>3. NoLocals \in UNION {Memory(n) : n \in -1 .. Done}
  BY NoLocalsType, LocalsInMemory, ProgramBounds
<1>4. Arrays
  BY <1>3, ProgramBounds DEF Init, Arrays
<1> QED
  BY <1>2, <1>4, CoreParts DEF Init, WireInv

\* The strings on the wire tell apart what they came from.
LEMMA CoreWire == CoreInv => WireFaithful
  BY DEF CoreInv, WireInv, WireFaithful

-----------------------------------------------------------------------------
(* The client's steps are steps of Coro. *)

absPos   == [q \in Proc |-> absAt(q)]
absLoc   == [q \in Proc |-> absEnv(q)]
absDues  == [q \in Proc |-> absDue(q)]
absStore == {w.of : w \in wire}

\* Coro's constants are this module's.
LEMMA SameConstants ==
  /\ C!NoCoro = NoCoro /\ C!Done = Done /\ C!NoLocals = NoLocals
  /\ C!RetSeq = RetSeq /\ C!Void = Void
  /\ \A n : C!Locals(n) = Locals(n)
  BY DEF C!NoCoro, NoCoro, C!Done, Done, C!NoLocals, NoLocals, C!RetSeq, RetSeq, C!Void, Void,
         C!Locals, Locals, C!Scope, Scope

\* Only the abstract process of the one that moved changes.
LEMMA AbsUpdate ==
  ASSUME CoreInv, NEW p \in Proc,
         NEW a, NEW r, NEW e, NEW s, NEW w, NEW h, Update(p, a, r, e, s, w, h)
  PROVE  /\ absPos' = [absPos EXCEPT ![p] = absAt(p)']
         /\ absLoc' = [absLoc EXCEPT ![p] = absEnv(p)']
         /\ absDues' = [absDues EXCEPT ![p] = absDue(p)']
<1>1. ASSUME NEW q \in Proc \ {p}
      PROVE  absAt(q)' = absAt(q) /\ absEnv(q)' = absEnv(q) /\ absDue(q)' = absDue(q)
  BY <1>1, Updated DEF absAt, absEnv, absDue, fresh, Pending
<1> QED
  BY <1>1 DEF absPos, absLoc, absDues

LEMMA Placed ==
  ASSUME CoreInv, NEW p \in Proc,
         NEW a, NEW r, NEW e, NEW s, NEW w, NEW h, Update(p, a, r, e, s, w, h),
         NEW x, NEW y, NEW z, absAt(p)' = x, absEnv(p)' = y, absDue(p)' = z
  PROVE  C!Place(p, x, y, z)
  BY AbsUpdate DEF C!Place, absPos, absLoc, absDues

\* A step that changes nothing abstract of the process that makes it.
LEMMA Stutter ==
  ASSUME CoreInv, NEW p \in Proc,
         NEW a, NEW r, NEW e, NEW s, NEW w, NEW h, Update(p, a, r, e, s, w, h),
         absAt(p)' = absAt(p), absEnv(p)' = absEnv(p), absDue(p)' = absDue(p),
         wire' = wire
  PROVE  UNCHANGED C!cvars
<1>1. absPos' = absPos /\ absLoc' = absLoc /\ absDues' = absDues
  BY AbsUpdate DEF absPos, absLoc, absDues
<1> QED
  BY <1>1 DEF C!cvars, absPos, absLoc, absDues

\* A coroutine that has not run is at the stage of its state.
LEMMA FreshAbs ==
  ASSUME CoreInv, NEW p \in Proc, fresh(p)
  PROVE  /\ absAt(p) = stage(state[p]) /\ absAt(p) \in 0 .. N
         /\ absDue(p) = aw[p] /\ aw[p] \in RetSeq /\ hold[p] = "none"
<1>1. GoodProc(p) /\ at[p] = 0
  BY CoreParts DEF fresh
<1> QED
  BY <1>1, StageRange, ProgramBounds DEF GoodProc, Good, absAt, absDue

LEMMA CallRefines ==
  ASSUME CoreInv, NEW p \in Proc, NEW e \in Locals(0), CallWith(p, e)
  PROVE  C!Begin(p)
<1>1. Update(p, 0, run[p], e, state[p], aw[p], hold[p]) /\ wire' = wire
  BY Unchanged DEF CallWith, Update
<1>2. GoodProc(p) /\ at[p] = NoCoro
  BY CoreParts DEF CallWith
<1>3. ~run[p] /\ state[p] = NoState /\ aw[p] = <<>> /\ hold[p] = "none"
  BY <1>2 DEF GoodProc, Good
<1>4. absAt(p) = NoCoro
  BY <1>2, ProgramBounds DEF absAt, fresh
<1>5. absAt(p)' = 0 /\ absEnv(p)' = e /\ absDue(p)' = <<>>
  BY <1>1, <1>3, Updated, NoStateStage, ProgramBounds
     DEF absAt, absEnv, absDue, fresh, Pending
<1>6. C!Place(p, 0, e, <<>>)
  BY <1>1, <1>5, Placed
<1> QED
  BY <1>1, <1>4, <1>6, SameConstants, EmptyRetSeq DEF C!Begin

LEMMA DeserializeRefines ==
  ASSUME Rules, CoreInv, NEW p \in Proc, Deserialize(p)
  PROVE  C!Revive(p)
<1>1. PICK w \in wire : Update(p, at[p], run[p], env[p], w.str, aw[p], hold[p])
  BY Unchanged DEF Deserialize, Update
<1>2. w.str \in Saved /\ w.of.at = stage(w.str) /\ w.of.env = w.str.vals
  <2>1. w.str \in Saved /\ w.of = [at |-> stage(w.str), env |-> w.str.vals]
    BY DEF CoreInv, WireInv
  <2> QED
    BY <2>1
<1>3. stage(w.str) # 0
  BY <1>2, SavedParts, ProgramBounds
<1>4. fresh(p) /\ wire' = wire
  BY DEF Deserialize, Rules
<1>5. absAt(p)' = w.of.at /\ absEnv(p)' = w.of.env /\ absDue(p)' = aw[p]
  BY <1>1, <1>2, <1>3, <1>4, Updated, FreshAbs, ProgramBounds
     DEF absAt, absEnv, absDue, fresh, Pending
<1>6. C!Place(p, w.of.at, w.of.env, aw[p])
  BY <1>1, <1>5, Placed
<1>7. absAt(p) # Done /\ aw[p] \in RetSeq
  BY <1>4, FreshAbs, ProgramBounds
<1> QED
  BY <1>4, <1>6, <1>7, SameConstants DEF C!Revive

LEMMA SetAwRetRefines ==
  ASSUME CoreInv, NEW p \in Proc, SetAwRet(p)
  PROVE  C!Supply(p) \/ UNCHANGED C!cvars
<1>1. PICK x \in Result, h \in {"dangling", hold[p]} :
        /\ Update(p, at[p], run[p], env[p], state[p], put(aw[p], x), h)
        /\ h = "dangling" => hold[p] = "ref"
  BY Unchanged, CoreParts DEF SetAwRet, Update, Arrays
<1>2. wire' = wire /\ Len(aw[p]) < MaxRets /\ ~run[p] /\ at[p] \in 0 .. N
  BY ProgramBounds DEF SetAwRet, fresh, suspended
<1>3. absAt(p)' = absAt(p) /\ absEnv(p)' = absEnv(p) /\ absAt(p) \in 0 .. N
  BY <1>1, <1>2, Updated, FreshAbs, ProgramBounds DEF absAt, absEnv, fresh, Pending
<1>4. CASE hold[p] = "none"
  <2>1. absDue(p) = aw[p]
    BY <1>2, <1>4, ProgramBounds DEF absDue
  <2>2. absDue(p)' = Append(absDue(p), x)
    <3>1. at'[p] = at[p] /\ aw'[p] = put(aw[p], x) /\ hold'[p] = "none"
      BY <1>1, <1>4, Updated
    <3> QED
      BY <1>2, <2>1, <3>1, ProgramBounds DEF absDue, put
  <2>3. absPos' = absPos /\ absLoc' = absLoc
        /\ absDues' = [absDues EXCEPT ![p] = Append(@, x)]
    BY <1>1, <1>3, <2>2, AbsUpdate DEF absPos, absLoc, absDues
  <2> QED
    BY <1>2, <1>3, <2>1, <2>3 DEF C!Supply, absPos, absLoc, absDues
<1>5. CASE hold[p] # "none"
  <2>1. absDue(p)' = absDue(p)
    BY <1>1, <1>5, Updated DEF absDue
  <2> QED
    BY <1>1, <1>2, <1>3, <2>1, Stutter
<1> QED
  BY <1>4, <1>5

\* The jump is invisible: what it skips is about to be loaded.
LEMMA StartRefines ==
  ASSUME Rules, CoreInv, NEW p \in Proc, Start(p)
  PROVE  UNCHANGED C!cvars
<1> DEFINE n == stage(state[p])
<1>1. Update(p, n, TRUE, jump(n, env[p]), state[p], aw[p], hold[p]) /\ wire' = wire
  BY Unchanged, CoreParts DEF Start, Update, Arrays
<1>2. fresh(p) /\ GoodProc(p) /\ at[p] = 0
  BY CoreParts DEF Start, fresh
<1>3. n \in Stages => aw[p] # <<>>
  BY ProgramBounds DEF Start, Rules
<1>4. /\ absAt(p) = n /\ n \in 0 .. N /\ absDue(p) = aw[p] /\ hold[p] = "none"
      /\ absEnv(p) = IF n # 0 THEN state[p].vals ELSE env[p]
  BY <1>2, FreshAbs, ProgramBounds DEF absEnv, Pending
<1>5. n = 0 => jump(n, env[p]) = env[p]
  BY <1>2, JumpZero, ProgramBounds DEF GoodProc, Good
<1>6. /\ at'[p] = n /\ run'[p] = TRUE /\ env'[p] = jump(n, env[p])
      /\ state'[p] = state[p] /\ aw'[p] = aw[p] /\ hold'[p] = hold[p]
  BY <1>1, CoreParts DEF Update, Arrays
<1> HIDE DEF n
<1>7. absAt(p)' = absAt(p) /\ absDue(p)' = absDue(p)
  BY <1>4, <1>6, ProgramBounds DEF absAt, absDue, fresh
<1>8. absEnv(p)' = absEnv(p)
  BY <1>3, <1>4, <1>5, <1>6, ProgramBounds DEF absEnv, Pending, fresh
<1> QED
  BY <1>1, <1>7, <1>8, Stutter

LEMMA ContinueFromRefines ==
  ASSUME Rules, CoreInv, NEW p \in Proc, ContinueFrom(p)
  PROVE  C!Begin(p) \/ C!Revive(p)
<1>1. PICK s \in {NoState} \cup {w.str : w \in wire}, rets \in RetSeq :
        rets # <<>> /\ continue_from(p, s, rets)
  BY DEF ContinueFrom, Rules
<1> DEFINE n == stage(s)
           d == [v \in Live[0] |-> Default]
<1>2. Update(p, n, TRUE, jump(n, d), s, rets, hold[p]) /\ wire' = wire
  BY <1>1, Unchanged DEF continue_from, Update
<1>3. at[p] = NoCoro /\ hold[p] = "none"
  BY <1>1, CoreParts DEF continue_from, GoodProc, Good
<1>4. absAt(p) = NoCoro
  BY <1>3, ProgramBounds DEF absAt, fresh
<1>5. /\ at'[p] = n /\ run'[p] = TRUE /\ env'[p] = jump(n, d)
      /\ state'[p] = s /\ aw'[p] = rets /\ hold'[p] = "none"
  BY <1>2, <1>3, CoreParts DEF Update, Arrays
<1>6. CASE s = NoState
  <2>1. n = 0 /\ jump(n, d) = d /\ d \in Locals(0)
    BY <1>6, NoStateStage, DefaultLocals, JumpZero
  <2> HIDE DEF n, d
  <2>2. absAt(p)' = 0 /\ absEnv(p)' = d /\ absDue(p)' = rets
    BY <1>5, <2>1, ProgramBounds DEF absAt, absEnv, absDue, fresh, Pending
  <2>3. C!Place(p, 0, d, rets)
    BY <1>2, <2>2, Placed
  <2> QED
    BY <1>2, <1>4, <2>1, <2>3, SameConstants DEF C!Begin
<1>7. CASE s # NoState
  <2>1. PICK w \in wire : s = w.str
    BY <1>1, <1>7
  <2>2. w.str \in Saved /\ w.of = [at |-> stage(w.str), env |-> w.str.vals]
    BY DEF CoreInv, WireInv
  <2>3. w.of.at = n /\ w.of.env = s.vals /\ n \in Stages
    BY <2>1, <2>2, SavedParts
  <2> HIDE DEF n, d
  <2>4. absAt(p)' = w.of.at /\ absEnv(p)' = w.of.env /\ absDue(p)' = rets
    BY <1>1, <1>5, <2>3, ProgramBounds DEF absAt, absEnv, absDue, fresh, Pending
  <2>5. C!Place(p, w.of.at, w.of.env, rets)
    BY <1>2, <2>4, Placed
  <2> QED
    BY <1>2, <1>4, <2>5, SameConstants, ProgramBounds DEF C!Revive
<1> QED
  BY <1>6, <1>7

LEMMA SerializeRefines ==
  ASSUME Rules, CoreInv, NEW p \in Proc, Serialize(p)
  PROVE  C!Record(p)
<1>1. suspended(p) /\ absAt(p) \in 0 .. N
  BY SuspendedState, ProgramBounds DEF Serialize, Rules, suspended
<1>2. Update(p, at[p], run[p], env[p], state[p], aw[p], hold[p])
  BY Unchanged DEF Serialize, Update
<1>3. absPos' = absPos /\ absLoc' = absLoc /\ absDues' = absDues
  BY DEF Serialize, absPos, absLoc, absDues, absAt, absEnv, absDue, fresh, Pending
<1>4. wire' = wire \cup {[str |-> state[p], of |-> [at |-> absAt(p), env |-> absEnv(p)]]}
  BY DEF Serialize
<1>5. absStore' = absStore \cup {[at |-> absAt(p), env |-> absEnv(p)]}
  <2> DEFINE c == [at |-> absAt(p), env |-> absEnv(p)]
             t == [str |-> state[p], of |-> c]
  <2>1. wire' = wire \cup {t} /\ t.of = c
    BY <1>4
  <2> HIDE DEF c, t
  <2>2. {w.of : w \in wire'} = {w.of : w \in wire} \cup {c}
    BY <2>1
  <2> QED
    BY <2>2 DEF absStore, c
<1> QED
  BY <1>1, <1>3, <1>5 DEF C!Record, absPos, absLoc, absDues, absStore

LEMMA GetRefines ==
  ASSUME CoreInv, NEW p \in Proc, Get(p)
  PROVE  C!Collect(p)
<1>1. PICK e \in Locals(Done) : Update(p, at[p], run[p], e, state[p], aw[p], hold[p])
  BY Unchanged DEF Get, Update
<1>2. at[p] = Done /\ wire' = wire
  BY DEF Get
<1>3. absAt(p) = Done /\ absAt(p)' = Done /\ absEnv(p)' = e /\ absDue(p)' = absDue(p)
  BY <1>1, <1>2, Updated, ProgramBounds DEF absAt, absEnv, absDue, fresh, Pending
<1>4. absPos' = absPos /\ absLoc' = [absLoc EXCEPT ![p] = e] /\ absDues' = absDues
  BY <1>1, <1>3, AbsUpdate DEF absPos, absDues
<1> QED
  BY <1>2, <1>3, <1>4, SameConstants DEF C!Collect, absPos, absLoc, absDues

LEMMA ExitRefines ==
  ASSUME CoreInv, NEW p \in Proc, Exit(p)
  PROVE  C!Vanish(p)
<1>1. Update(p, NoCoro, FALSE, NoLocals, NoState, <<>>, "none") /\ wire' = wire
  BY DEF Exit, Update
<1>2. absAt(p)' = NoCoro /\ absEnv(p)' = NoLocals /\ absDue(p)' = <<>>
  <2>1. at'[p] = NoCoro /\ env'[p] = NoLocals /\ aw'[p] = <<>>
    BY <1>1, CoreParts DEF Update, Arrays
  <2> QED
    BY <2>1, ProgramBounds DEF absAt, absEnv, absDue, fresh, Pending
<1>3. C!Place(p, NoCoro, NoLocals, <<>>)
  BY <1>1, <1>2, Placed
<1>4. at[p] # NoCoro /\ GoodProc(p)
  BY CoreParts DEF Exit
<1>5. absAt(p) # NoCoro
  BY <1>4, FreshAbs, ProgramBounds DEF absAt
<1> QED
  BY <1>1, <1>3, <1>5, SameConstants DEF C!Vanish

LEMMA ClientRefines ==
  ASSUME Rules, CoreInv, NEW p \in Proc, ClientNext(p)
  PROVE  C!CNext \/ UNCHANGED C!cvars
<1>1. CASE Call(p)
  BY <1>1, CallRefines DEF Call, C!CNext
<1> QED
  BY <1>1, DeserializeRefines, SetAwRetRefines, StartRefines, ContinueFromRefines,
     SerializeRefines, GetRefines, ExitRefines DEF ClientNext, C!CNext

LEMMA InitRefines == Init => C!CInit
<1> SUFFICES ASSUME Init PROVE C!CInit
  OBVIOUS
<1>1. \A p \in Proc : absAt(p) = NoCoro /\ absEnv(p) = NoLocals /\ absDue(p) = <<>>
  BY ProgramBounds DEF Init, absAt, absEnv, absDue, fresh, Pending
<1> QED
  BY <1>1, SameConstants DEF Init, C!CInit
=============================================================================
