---------------------------- MODULE CmpSwProofs -----------------------------
(***************************************************************************)
(* The benchmark for every number on the command line and every stack.     *)
(***************************************************************************)
EXTENDS CmpSw, SequenceTheorems, TLAPS

\* Fibers, of a number that is not negative: main waits for f1, the fibers
\* alternate in the queue until f2 is through, and main finds both done.
Together ==
  /\ n \in -1 .. arg
  /\ count["f2"] = arg - n
  /\ \/ /\ run = "main" /\ ready = <<"f1", "f2">> /\ at["main"] = "f1"
        /\ at["f1"] # "done" /\ at["f2"] # "done"
        /\ n # -1 /\ count["f1"] = arg - n
     \/ /\ run = "f1" /\ ready = <<"f2">> /\ at["main"] = "f1"
        /\ at["f1"] # "done" /\ at["f2"] # "done"
        /\ n # -1 /\ count["f1"] = arg - n
     \/ /\ run = "f2" /\ ready = <<"f1">> /\ at["main"] = "f1"
        /\ at["f1"] # "done" /\ at["f2"] # "done"
        /\ n # -1 /\ count["f1"] = arg - n + 1
     \/ /\ run = "f1" /\ ready = <<>> /\ at["main"] = "f1"
        /\ at["f1"] # "done" /\ at["f2"] = "done"
        /\ n = -1 /\ count["f1"] = arg - n
     \/ /\ run = "main" /\ ready = <<>>
        /\ at["f1"] = "done" /\ at["f2"] = "done"
        /\ n = -1 /\ count["f1"] = arg + 2

\* Fibers, of a negative number: f1 has one turn, then f2 is alone with main,
\* which waits for it.
Alone ==
  \/ /\ run = "main" /\ ready = <<"f1", "f2">> /\ at["main"] = "f1"
     /\ at["f1"] # "done" /\ at["f2"] # "done" /\ n = arg
  \/ /\ run = "f1" /\ ready = <<"f2">> /\ at["main"] = "f1"
     /\ at["f1"] # "done" /\ at["f2"] # "done" /\ n = arg
  \/ /\ run = "f2" /\ ready = <<"main">> /\ at["main"] = "f1"
     /\ at["f1"] = "done" /\ at["f2"] # "done"
  \/ /\ run = "main" /\ ready = <<"f2">> /\ at["main"] \in Parties
     /\ at["f1"] = "done" /\ at["f2"] # "done"
  \/ /\ run = "f2" /\ ready = <<>> /\ at["main"] = "f2"
     /\ at["f1"] = "done" /\ at["f2"] # "done"
  \/ /\ run = "main" /\ ready = <<>>
     /\ at["f1"] = "done" /\ at["f2"] = "done"
  \/ run = "crashed" /\ at["f1"] = "done"

Fibers ==
  /\ then = Null /\ val = [f \in Parties |-> Empty] /\ depth = 0
  /\ IF arg >= 0 THEN Together ELSE Alone

\* coro2: every resumption of f1 by main lets f1 and then f2 have a turn, on a
\* stack that main finds empty again.
Scheduled ==
  /\ ready = <<>>
  /\ run \in {"main", "f1", "f2", "crashed"}
  /\ at["f2"] # "end"
  /\ arg >= 0 => /\ n \in -1 .. arg
                 /\ count["f2"] = arg - n
                 /\ n = -1 => at["f2"] = "done"
  /\ at["f2"] = "done" => n = -1
  /\ val["f2"] = IF at["f2"] = "done" THEN count["f2"] ELSE Empty
  /\ val["f1"] = IF at["f1"] = "done" THEN count["f1"] ELSE Empty
  /\ at["f1"] = "done" => run = "main" /\ at["f2"] = "done" /\ count["f1"] = count["f2"] + 1
  /\ at["main"] = "out" => at["f1"] = "done"
  /\ run \in {"main", "f1"} /\ at["f1"] # "done" => count["f1"] = count["f2"]
  /\ run = "f2" => /\ at["f2"] # "done" /\ then = "f1" /\ at["f1"] = "wait"
                   /\ count["f1"] = count["f2"] + 1
  /\ run = "main" => depth = 0
  /\ run = "f1" => depth = 1
  /\ depth <= 2

\* coro: f1 and f2 resume each other on a growing stack until f2 is through or
\* the stack is full; f1 is left suspended.
Chained ==
  /\ ready = <<>>
  /\ run \in {"main", "f1", "f2", "crashed"}
  /\ at["f1"] # "done"
  /\ at["f2"] = "end" => run = "crashed"
  /\ arg >= 0 => n \in -1 .. arg
  /\ run \in Parties => at["f2"] # "done" /\ at["main"] = "out" /\ (arg >= 0 => n >= 0)
  /\ run = "f1" => then = Null
  /\ run = "f2" => then = "f1" /\ at["f1"] = "wait"
  /\ run = "main" => IF at["main"] = "out" THEN at["f2"] = "done"
                   ELSE n = arg /\ then = Null /\ at["f2"] # "done"

\* The inductive invariant.
IInv ==
  /\ TypeOK
  /\ mode = "f" => Fibers
  /\ mode = "C" => Scheduled
  /\ mode = "c" => Chained

-----------------------------------------------------------------------------
\* The value of n-- is an int.
LEMMA Decremented ==
  ASSUME NEW i \in Ints
  PROVE  decremented(i) \in Ints /\ (i > MinInt => decremented(i) = i - 1)
BY CmpSwAssumption DEF decremented, Ints, MinInt

\* The queue of a scheduler with two fibers.
LEMMA Queues ==
  ASSUME NEW f, NEW g
  PROVE  /\ Append(<<>>, f) = <<f>> /\ Append(<<f>>, g) = <<f, g>>
         /\ <<f>> # <<>> /\ Head(<<f>>) = f /\ Tail(<<f>>) = <<>>
         /\ <<f, g>> # <<>> /\ Head(<<f, g>>) = f /\ Tail(<<f, g>>) = <<g>>
<1>1. Append(<<>>, f) = <<f>> /\ <<f>> # <<>> /\ Head(<<f>>) = f /\ Tail(<<f>>) = <<>>
  OBVIOUS
<1>2. <<f, g>> # <<>> /\ Head(<<f, g>>) = f /\ Tail(<<f, g>>) = <<g>>
  OBVIOUS
<1>3. Append(<<f>>, g) = <<f, g>>
  <2> DEFINE S == {f, g}
             a == Append(<<f>>, g)
             b == <<f, g>>
  <2>1. <<f>> \in Seq(S) /\ g \in S /\ Len(<<f>>) = 1 /\ <<f>>[1] = f
    OBVIOUS
  <2>2. a \in Seq(S) /\ Len(a) = 2 /\ a[1] = f /\ a[2] = g
    <3> HIDE DEF S
    <3> QED
      BY <2>1, AppendProperties
  <2>3. b \in Seq(S) /\ Len(b) = 2 /\ b[1] = f /\ b[2] = g
    OBVIOUS
  <2> HIDE DEF S, a, b
  <2>4. \A i \in 1 .. Len(a) : a[i] = b[i]
    BY <2>2, <2>3
  <2>5. a = b
    BY <2>2, <2>3, <2>4, SeqEqual
  <2> QED
    BY <2>5 DEF a, b
<1> QED
  BY <1>1, <1>2, <1>3

\* Whom the scheduler runs.
LEMMA Dispatched ==
  ASSUME NEW f, NEW g
  PROVE  /\ Dispatch(<<f>>) => run' = f /\ ready' = <<>>
         /\ Dispatch(<<f, g>>) => run' = f /\ ready' = <<g>>
BY Queues, Zenon DEF Dispatch

\* Whom it runs when g becomes ready behind f.
LEMMA DispatchedBoth ==
  ASSUME NEW f, NEW g, ready = <<f>>, Dispatch(Append(ready, g))
  PROVE  run' = f /\ ready' = <<g>>
<1>1. Append(ready, g) = <<f, g>>
  BY Queues, Zenon
<1>2. <<f, g>> # <<>> /\ Head(<<f, g>>) = f /\ Tail(<<f, g>>) = <<g>>
  BY Queues, Zenon
<1> DEFINE q == Append(ready, g)
<1>3. q # <<>> /\ Head(q) = f /\ Tail(q) = <<g>>
  BY <1>1, <1>2, Zenon
<1>4. run' = IF q = <<>> THEN "idle" ELSE Head(q)
  BY Zenon DEF Dispatch
<1>5. ready' = IF q = <<>> THEN q ELSE Tail(q)
  BY Zenon DEF Dispatch
<1> HIDE DEF q
<1> QED
  BY <1>3, <1>4, <1>5, Zenon

LEMMA InitHolds == Init => IInv
<1> SUFFICES ASSUME Init PROVE IInv
  OBVIOUS
<1> USE CmpSwAssumption DEF Init, Parties, Null, Empty
<1>1. TypeOK
  <2>1. ready \in Seq(Parties \cup {"main"})
    <3>1. <<"f1", "f2">> \in Seq({"f1", "f2", "main"}) /\ <<>> \in Seq({"f1", "f2", "main"})
      OBVIOUS
    <3> QED
      BY <3>1
  <2>2. at \in [Parties \cup {"main"} -> Parties \cup {"start", "wait", "end", "done", "out"}]
    OBVIOUS
  <2> QED
    BY <2>1, <2>2 DEF TypeOK
<1>2. arg \in Int
  BY <1>1 DEF TypeOK, Ints, MinInt
<1>3. mode = "f" => Fibers
  BY <1>2 DEF Fibers, Together, Alone
<1>4. mode = "C" => Scheduled
  BY <1>2 DEF Scheduled
<1>5. mode = "c" => Chained
  BY <1>2 DEF Chained
<1> QED
  BY <1>1, <1>3, <1>4, <1>5 DEF IInv

-----------------------------------------------------------------------------
\* What main does when it runs: it goes on or gives way to a fiber.
LEMMA Joins ==
  ASSUME IInv, Join
  PROVE  \/ at[at["main"]] = "done" /\ UNCHANGED <<run, ready>>
         \/ /\ at[at["main"]] # "done" /\ UNCHANGED at
            /\ ready = <<"f1", "f2">> /\ run' = "f1" /\ ready' = <<"f2">>
         \/ /\ at[at["main"]] # "done" /\ UNCHANGED at
            /\ ready = <<"f2">> /\ at["main"] = "f2" /\ run' = "f2" /\ ready' = <<>>
<1>1. CASE at[at["main"]] = "done"
  BY <1>1 DEF Join
<1>2. CASE at[at["main"]] # "done"
  <2>1. /\ UNCHANGED at /\ Dispatch(ready)
        /\ ready = <<"f1", "f2">> \/ (ready = <<"f2">> /\ at["main"] = "f2")
    BY <1>2 DEF Join, IInv, Fibers, Together, Alone, Parties
  <2>2. CASE ready = <<"f1", "f2">>
    BY <1>2, <2>1, <2>2, Dispatched
  <2>3. CASE ready = <<"f2">> /\ at["main"] = "f2"
    BY <1>2, <2>1, <2>3, Dispatched
  <2> QED
    BY <2>1, <2>2, <2>3
<1> QED
  BY <1>1, <1>2

\* Who runs after f1.
LEMMA AfterFiber1 ==
  ASSUME IInv, Fiber1
  PROVE  IF n >= 0 THEN ready = <<"f2">> /\ run' = "f2" /\ ready' = <<"f1">>
         ELSE IF arg >= 0 THEN ready = <<>> /\ run' = "main" /\ ready' = <<>>
         ELSE ready = <<"f2">> /\ run' = "f2" /\ ready' = <<"main">>
<1>0. n \in Int /\ arg \in Int
  BY CmpSwAssumption DEF IInv, TypeOK, Ints, MinInt
<1>1. CASE n >= 0
  <2>1. ready = <<"f2">> /\ Dispatch(Append(ready, "f1"))
    BY <1>0, <1>1 DEF Fiber1, Yield, IInv, Fibers, Together, Alone
  <2>2. run' = "f2" /\ ready' = <<"f1">>
    BY <2>1, DispatchedBoth
  <2> QED
    BY <1>1, <2>1, <2>2, Zenon
<1>2. CASE ~(n >= 0) /\ arg >= 0
  <2>1. ready = <<>> /\ at["main"] = "f1" /\ Dispatch(Append(ready, "main"))
    BY <1>0, <1>2 DEF Fiber1, Terminate, IInv, Fibers, Together, Alone, TypeOK, Parties
  <2>2. Dispatch(<<"main">>)
    BY <2>1, Queues
  <2> QED
    BY <1>2, <2>1, <2>2, Dispatched
<1>3. CASE ~(n >= 0) /\ ~(arg >= 0)
  <2>1. ready = <<"f2">> /\ at["main"] = "f1" /\ Dispatch(Append(ready, "main"))
    BY <1>0, <1>3 DEF Fiber1, Terminate, IInv, Fibers, Together, Alone, TypeOK, Parties
  <2>2. run' = "f2" /\ ready' = <<"main">>
    BY <2>1, DispatchedBoth
  <2> QED
    BY <1>3, <2>1, <2>2, Zenon
<1> QED
  BY <1>1, <1>2, <1>3

\* Who runs after f2.
LEMMA AfterFiber2 ==
  ASSUME IInv, Fiber2
  PROVE  IF arg >= 0
           THEN ready = <<"f1">> /\ run' = "f1" /\ ready' = IF n # 0 THEN <<"f2">> ELSE <<>>
           ELSE \/ n # 0 /\ ready = <<"main">> /\ run' = "main" /\ ready' = <<"f2">>
                \/ n # 0 /\ ready = <<>> /\ run' = "f2" /\ ready' = <<>>
                \/ n = 0 /\ run' = "main" /\ ready' = <<>>
<1>1. CASE arg >= 0 /\ n # 0
  <2>1. ready = <<"f1">> /\ Dispatch(Append(ready, "f2"))
    BY <1>1 DEF Fiber2, Yield, IInv, Fibers, Together, Alone
  <2>2. run' = "f1" /\ ready' = <<"f2">>
    BY <2>1, DispatchedBoth
  <2> QED
    BY <1>1, <2>1, <2>2, Zenon
<1>2. CASE arg >= 0 /\ n = 0
  <2>1. ready = <<"f1">> /\ Dispatch(ready)
    BY <1>2 DEF Fiber2, Terminate, IInv, Fibers, Together, Alone
  <2> QED
    BY <1>2, <2>1, Dispatched
<1>3. CASE ~(arg >= 0) /\ n # 0 /\ ready = <<"main">>
  <2>1. Dispatch(Append(ready, "f2"))
    BY <1>3 DEF Fiber2, Yield, IInv, Fibers, Together, Alone
  <2>2. run' = "main" /\ ready' = <<"f2">>
    BY <1>3, <2>1, DispatchedBoth
  <2> QED
    BY <1>3, <2>2, Zenon
<1>4. CASE ~(arg >= 0) /\ n # 0 /\ ready = <<>>
  <2>1. Dispatch(Append(ready, "f2"))
    BY <1>4 DEF Fiber2, Yield, IInv, Fibers, Together, Alone
  <2>2. Dispatch(<<"f2">>)
    BY <1>4, <2>1, Queues
  <2> QED
    BY <1>4, <2>2, Dispatched
<1>5. CASE ~(arg >= 0) /\ n = 0
  <2>1. Dispatch(<<"main">>)
    <3>1. CASE ready = <<"main">> /\ at["main"] = "f1"
      BY <1>5, <3>1 DEF Fiber2, Terminate, IInv, Fibers, Together, Alone
    <3>2. CASE ready = <<>> /\ at["main"] = "f2"
      <4>1. Dispatch(Append(ready, "main"))
        BY <1>5, <3>2 DEF Fiber2, Terminate, IInv, Fibers, Together, Alone
      <4> QED
        BY <3>2, <4>1, Queues
    <3> QED
      BY <1>5, <3>1, <3>2 DEF Fiber2, IInv, Fibers, Alone
  <2> QED
    BY <1>5, <2>1, Dispatched
<1>6. ~(arg >= 0) => ready = <<"main">> \/ ready = <<>>
  BY DEF Fiber2, IInv, Fibers, Alone
<1> QED
  BY <1>1, <1>2, <1>3, <1>4, <1>5, <1>6

LEMMA FibersStep ==
  ASSUME IInv, Join \/ Fiber1 \/ Fiber2
  PROVE  IInv'
<1> USE CmpSwAssumption DEF Parties, Null, Empty, Goto, Count
<1>0. /\ mode = "f" /\ mode' = "f" /\ arg' = arg /\ then' = then /\ val' = val /\ depth' = depth
      /\ TypeOK /\ Fibers
  BY DEF IInv, Join, Fiber1, Fiber2
<1>n. n \in Int /\ arg \in Int
  BY <1>0 DEF TypeOK, Ints, MinInt
<1>q. ready' \in Seq(Parties \cup {"main"})
  <2>1. \A x \in Parties \cup {"main"} : <<x>> \in Seq(Parties \cup {"main"})
    OBVIOUS
  <2>2. ready' = ready \/ ready' = <<>> \/ \E x \in Parties \cup {"main"} : ready' = <<x>>
    <3>1. CASE Join
      BY <3>1, Joins
    <3>2. CASE Fiber1
      BY <3>2, AfterFiber1, <1>n
    <3>3. CASE Fiber2
      BY <3>3, AfterFiber2, <1>n
    <3> QED
      BY <3>1, <3>2, <3>3
  <2>3. <<>> \in Seq(Parties \cup {"main"}) /\ ready \in Seq(Parties \cup {"main"})
    BY <1>0 DEF TypeOK
  <2> HIDE DEF Parties
  <2> QED
    BY <2>1, <2>2, <2>3
<1>1. CASE Join
  <2>1. TypeOK'
    BY <1>q, <1>0, <1>1, Joins DEF Join, TypeOK
  <2>2. Fibers'
    BY <1>0, <1>n, <1>1, Joins DEF Join, Fibers, Together, Alone, TypeOK
  <2> QED
    BY <1>0, <2>1, <2>2 DEF IInv
<1>2. CASE Fiber1
  <2>1. TypeOK'
    BY <1>n, <1>q, <1>0, <1>2, AfterFiber1 DEF Fiber1, Yield, Terminate, TypeOK
  <2>2. Fibers'
    BY <1>0, <1>n, <1>2, AfterFiber1 DEF Fiber1, Yield, Terminate, Fibers, Together, Alone, TypeOK
  <2> QED
    BY <1>0, <2>1, <2>2 DEF IInv
<1>3. CASE Fiber2
  <2>1. n' \in Ints /\ count' \in [Parties -> Nat] /\ (n > MinInt => n' = n - 1)
    BY <1>0, <1>3, Decremented DEF Fiber2, TypeOK
  <2>2. /\ run' \in Parties \cup {"main"}
        /\ at' \in [Parties \cup {"main"} -> Parties \cup {"start", "wait", "end", "done", "out"}]
    BY <1>0, <1>3, AfterFiber2 DEF Fiber2, Yield, Terminate, TypeOK
  <2>3. TypeOK'
    BY <1>q, <1>0, <1>3, <2>1, <2>2 DEF TypeOK, Fiber2
  <2>4. Fibers'
    <3>1. CASE arg >= 0
      <4>1. n >= 0 /\ n' = n - 1
        BY <1>0, <1>n, <1>3, <2>1, <3>1 DEF Fiber2, Fibers, Together, MinInt
      <4> QED
        BY <1>0, <1>n, <1>3, <3>1, <4>1, AfterFiber2
           DEF Fiber2, Yield, Terminate, Fibers, Together, TypeOK
    <3>2. CASE ~(arg >= 0)
      BY <1>0, <1>n, <1>3, <3>2, AfterFiber2 DEF Fiber2, Yield, Terminate, Fibers, Alone, TypeOK
    <3> QED
      BY <3>1, <3>2
  <2> QED
    BY <1>0, <2>3, <2>4 DEF IInv
<1> QED
  BY <1>1, <1>2, <1>3

LEMMA TaskStep ==
  ASSUME IInv, Resume \/ Report \/ Counter \/ Timer \/ Timer2
  PROVE  IInv'
<1> USE CmpSwAssumption
    DEF IInv, TypeOK, Scheduled, Chained, Parties, Null, Empty, Goto, Count, Transfer, Return, co_return
<1>n. n \in Int /\ arg \in Int
  BY DEF Ints, MinInt
<1>d. decremented(n) \in Ints /\ decremented(n) \in Int /\ (n > MinInt => decremented(n) = n - 1)
  BY Decremented DEF Ints, MinInt
<1>0. MinInt \in Int /\ MinInt < 0
  BY DEF MinInt
<1>1. CASE Resume
  <2>1. CASE mode = "C"
    BY <1>1, <2>1, <1>n DEF Resume
  <2>2. CASE mode = "c"
    BY <1>1, <2>2, <1>n DEF Resume
  <2> QED
    BY <1>1, <2>1, <2>2 DEF Resume
<1>2. CASE Report
  BY <1>2, <1>n DEF Report
<1>3. CASE Counter
  BY <1>3, <1>n DEF Counter
<1>4. CASE Timer
  BY <1>4, <1>n, <1>d, <1>0 DEF Timer
<1>5. CASE Timer2
  BY <1>5, <1>n, <1>d, <1>0 DEF Timer2
<1> QED
  BY <1>1, <1>2, <1>3, <1>4, <1>5

\* Only a negative number overflows.
LEMMA OverflowStep ==
  ASSUME IInv, Overflow
  PROVE  IInv'
<1> USE CmpSwAssumption DEF IInv, Overflow, MinInt
<1>1. TypeOK'
  BY DEF TypeOK
<1>2. arg \in Int
  BY DEF TypeOK, Ints
<1>3. CASE mode = "f"
  BY <1>1, <1>2, <1>3 DEF Fibers, Together, Alone
<1>4. CASE mode = "C"
  BY <1>1, <1>2, <1>4 DEF Scheduled
<1>5. CASE mode = "c"
  BY <1>1, <1>2, <1>5 DEF Chained, Parties
<1> QED
  BY <1>3, <1>4, <1>5 DEF TypeOK

LEMMA IInvInductive == Spec => []IInv
<1>1. IInv /\ [Next]_vars => IInv'
  <2> SUFFICES ASSUME IInv, [Next]_vars PROVE IInv'
    OBVIOUS
  <2>1. CASE UNCHANGED vars
    BY <2>1 DEF vars, IInv, TypeOK, Fibers, Together, Alone, Scheduled, Chained
  <2> QED
    BY <2>1, FibersStep, TaskStep, OverflowStep DEF Next
<1> QED
  BY <1>1, InitHolds, PTL DEF Spec

\* The counts, the handle in then and the stack keep their types, and the stack
\* does not outgrow MaxDepth (cmp_sw.cc:8-86).
THEOREM TypeCorrect == Spec => []TypeOK
<1>1. IInv => TypeOK
  BY DEF IInv
<1> QED
  BY <1>1, IInvInductive, PTL

\* Fibers and coro2 print arg + 2 and arg + 1, however far they count down, and
\* coro2 always has one switch more in f1 (cmp_sw.cc:20, 85).
THEOREM CountsAreTheSame == Spec => []SameCounts
<1>1. IInv => SameCounts
  <2> SUFFICES ASSUME IInv, at["main"] = "out", mode # "c" PROVE SameCounts
    BY DEF SameCounts
  <2>1. CASE mode = "f"
    BY <2>1, CmpSwAssumption DEF IInv, TypeOK, Ints, MinInt, Fibers, Together, Parties, SameCounts
  <2>2. CASE mode = "C"
    BY <2>2, CmpSwAssumption DEF IInv, TypeOK, Ints, MinInt, Scheduled, Parties, Empty, SameCounts
  <2> QED
    BY <2>1, <2>2 DEF IInv, TypeOK
<1> QED
  BY <1>1, IInvInductive, PTL

\* coro2 needs a stack of two resume functions for any number of switches, even if
\* no call is a tail call (cmp_sw.cc:72).
THEOREM StackIsBounded == Spec => []StackBounded
<1>1. IInv => StackBounded
  BY DEF IInv, Scheduled, StackBounded
<1> QED
  BY <1>1, IInvInductive, PTL

\* What is resumed is suspended: main and timer never resume a finished task, and
\* then is counter's handle when the yielder transfers to it (cmp_sw.cc:33,
\* 47, 83).
THEOREM SuspendedIsResumed == Spec => []ResumesSuspended
<1>1. IInv => ResumesSuspended
  BY DEF IInv, TypeOK, Scheduled, Chained, Parties, ResumesSuspended
<1> QED
  BY <1>1, IInvInductive, PTL

-----------------------------------------------------------------------------
\* What Alternation sees of the benchmark.
Seen == <<arg, n, Turn, count["f1"], at["f1"] = "done">>

\* A step is a turn of one party, or nothing that Alternation sees.
LEMMA TurnOrStutter ==
  ASSUME IInv, Next
  PROVE  A!First \/ A!Second \/ UNCHANGED Seen
<1> USE DEF IInv, TypeOK, Turn, Parties, Null, Empty, Goto, Count, Transfer, Return, co_return,
            Seen, Together, Alone
<1>n. n \in Int /\ arg \in Int
  BY CmpSwAssumption DEF Ints, MinInt
<1>1. CASE Join
  BY <1>1, <1>n, Joins DEF Join, Fibers
<1>2. CASE Fiber1
  BY <1>2, <1>n, AfterFiber1 DEF Fiber1, Fibers, Yield, Terminate, A!First
<1>3. CASE Fiber2
  BY <1>3, <1>n, AfterFiber2 DEF Fiber2, Fibers, Yield, Terminate, decremented, MinInt, A!Second
<1>4. CASE Resume
  BY <1>4, <1>n DEF Resume, Scheduled, Chained
<1>5. CASE Report
  BY <1>5 DEF Report, Scheduled
<1>6. CASE Counter
  BY <1>6, <1>n DEF Counter, Scheduled, Chained, A!First
<1>7. CASE Timer
  BY <1>7 DEF Timer, Chained, decremented, MinInt, A!Second
<1>8. CASE Timer2
  BY <1>8 DEF Timer2, Scheduled, decremented, MinInt, A!Second
<1>9. CASE Overflow
  BY <1>9, <1>n, CmpSwAssumption DEF Overflow, Fibers, Scheduled, Chained, MinInt
<1> QED
  BY <1>1, <1>2, <1>3, <1>4, <1>5, <1>6, <1>7, <1>8, <1>9 DEF Next

\* In all three modes, of every number, the parties take turns as Alternation has
\* it, so that the benchmark compares the same switches (README.md:34,
\* cmp_sw.cc:8-92).
THEOREM ModesAlternate == Spec => Alternates
<1>1. Init => A!AInit
  BY CmpSwAssumption DEF Init, A!AInit, Turn, Parties, Null, Ints, MinInt
<1>2. IInv /\ [Next]_vars => [A!First \/ A!Second]_Seen
  <2> SUFFICES ASSUME IInv, [Next]_vars
               PROVE  A!First \/ A!Second \/ UNCHANGED Seen
    OBVIOUS
  <2>1. CASE UNCHANGED vars
    BY <2>1 DEF vars, Turn, Seen
  <2> QED
    BY <2>1, TurnOrStutter
<1> QED
  BY <1>1, <1>2, IInvInductive, PTL DEF Spec, Alternates, A!ASpec, Seen
=============================================================================
