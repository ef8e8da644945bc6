-------------------------- MODULE ValetToolProofs ---------------------------
(***************************************************************************)
(* What valet writes, for any command line.                                *)
(***************************************************************************)
EXTENDS Rewritten, SequenceTheorems, FiniteSetTheorems, TLAPS

Stage == [aw : Nat, scope : SUBSET Nat, vars : Seq(Int)]
Match(c, k, i) == [f |-> c, await |-> k, var |-> i]

\* What a stage st of coroutine c of file f has, with the matches M left: the
\* captured variables that run() has been called for.
Gathered(f, M, c, st) ==
  {i \in Vars(f[c]) : captured(f[c], st, i) /\ Match(c, st.aw, i) \notin M}
StageOK(f, M, c, st) ==
  /\ st.aw \in Awaits(f[c])
  /\ st.scope = blocks(f[c].text, st.aw)
  /\ IsInjective(st.vars)
  /\ ToSet(st.vars) = Gathered(f, M, c, st)

\* The stages ss of coroutine c: one for every co_await that run() was called for.
Collected(f, M, c, ss) ==
  /\ ss \in Seq(Stage)
  /\ \A n \in 1 .. Len(ss) : StageOK(f, M, c, ss[n])
  /\ \A n, o \in 1 .. Len(ss) : ss[n].aw = ss[o].aw => n = o
  /\ \A m \in Matches(f) \ M : m.f = c => \E n \in 1 .. Len(ss) : ss[n].aw = m.await
  /\ ss # <<>> => matched(f[c])

-----------------------------------------------------------------------------
(* The inductive invariant *)

Done    == Len(cmd.files) - Len(todo)                     \* files begun,
Past(x) == x \in 1 .. Done /\ (x < Done \/ file = NoFile)  \* and done with
Broken(f) == \E c \in DOMAIN f : f[c].kind = "broken"

Queued ==
  /\ cmd \in Inputs
  /\ todo \in Seq(SourceFile)
  /\ Len(todo) <= Len(cmd.files)
  /\ \A x \in 1 .. Len(todo) : todo[x] = cmd.files[Done + x]
  /\ file # NoFile => Done >= 1 /\ file = cmd.files[Done]
  /\ status \in {Running, 0, 1, 2}

Collecting ==
  /\ matches \subseteq Matches(file)
  /\ DOMAIN stages = DOMAIN file
  /\ \A c \in DOMAIN file : Collected(file, matches, c, stages[c])

\* A buffer with edits is of a file that is done with.
Buffered ==
  buffer # NoBuffer =>
    \E x \in 1 .. Done : Past(x) /\ ToInstrument(cmd.files[x]) /\ ~HasMacro(cmd.files[x])

Wrote ==
  /\ written \in Seq(ToSet(written))
  /\ Len(written) <= Done
  /\ file # NoFile => Len(written) < Done
  /\ \A x \in 1 .. Done : Past(x) /\ ToInstrument(cmd.files[x]) =>
       \E y \in 1 .. Len(written) : written[y].of = cmd.files[x]

Reported ==
  /\ failed \in BOOLEAN
  /\ \A x \in 1 .. Done : cmd.verbose /\ Broken(cmd.files[x]) => failed
  /\ status = 0 => todo = <<>> /\ file = NoFile /\ ~failed

TInv == Queued /\ Collecting /\ Buffered /\ Wrote /\ Reported

-----------------------------------------------------------------------------
(* Blocks *)

LEMMA LeastExists ==
  ASSUME NEW S \in SUBSET Nat, S # {}
  PROVE  \E b \in S : \A x \in S : b <= x
<1> DEFINE R == {ss \in Nat \X Nat : ss[1] < ss[2]}
<1>1. IsWellFoundedOn(R, Nat)
  BY NatLessThanWellFounded, Zenon DEF OpToRel
<1>2. PICK m \in S : \A y \in S : ~(<<y, m>> \in R)
  <2> HIDE DEF R
  <2> QED
    BY <1>1, WFMin
<1>3. \A y \in S : m <= y
  <2> SUFFICES ASSUME NEW y \in S, y < m
               PROVE  FALSE
    OBVIOUS
  <2>1. <<y, m>> \in R
    OBVIOUS
  <2> QED
    BY <1>2, <2>1
<1> QED
  BY <1>3

LEMMA GreatestExists ==
  ASSUME NEW S \in SUBSET Nat, NEW n \in Nat, S # {}, \A x \in S : x <= n
  PROVE  \E b \in S : \A x \in S : x <= b
<1> DEFINE T == {k \in Nat : \E x \in S : k = n - x}
<1>1. \A x \in S : n - x \in T
  OBVIOUS
<1>2. T \subseteq Nat /\ T # {}
  BY <1>1
<1>3. PICK m \in T : \A y \in T : m <= y
  <2> HIDE DEF T
  <2> QED
    BY <1>2, LeastExists
<1>4. PICK b \in S : m = n - b
  OBVIOUS
<1>5. \A x \in S : n - b <= n - x
  BY <1>1, <1>3, <1>4
<1> QED
  BY <1>5

\* The items of an interval are those of its two parts.
LEMMA CountsAdd ==
  ASSUME NEW S, NEW a \in Int, NEW m \in Int, NEW b \in Int, a <= m + 1, m <= b
  PROVE  /\ Cardinality(S \cap (a .. b)) =
              Cardinality(S \cap (a .. m)) + Cardinality(S \cap (m + 1 .. b))
         /\ Cardinality(S \cap (a .. m)) \in Nat
         /\ Cardinality(S \cap (m + 1 .. b)) \in Nat
<1> DEFINE P == S \cap (a .. m)
           Q == S \cap (m + 1 .. b)
<1>1. IsFiniteSet(P) /\ IsFiniteSet(Q)
  <2>1. IsFiniteSet(a .. m) /\ IsFiniteSet(m + 1 .. b)
    BY FS_Interval
  <2> QED
    BY <2>1, FS_Intersection
<1>2. P \cup Q = S \cap (a .. b) /\ P \cap Q = {}
  OBVIOUS
<1>3. Cardinality(P \cup Q) = Cardinality(P) + Cardinality(Q) - Cardinality(P \cap Q)
  BY <1>1, FS_Union
<1>4. Cardinality(P) \in Nat /\ Cardinality(Q) \in Nat
  BY <1>1, FS_CardinalityType
<1>5. Cardinality(P \cap Q) = 0
  BY <1>2, FS_EmptySet
<1>6. Cardinality(P \cup Q) = Cardinality(P) + Cardinality(Q)
  <2> HIDE DEF P, Q
  <2> QED
    BY <1>3, <1>4, <1>5
<1> QED
  BY <1>2, <1>4, <1>6

LEMMA OpensAdd ==
  ASSUME NEW t, NEW a \in Int, NEW m \in Int, NEW b \in Int, a <= m + 1, m <= b
  PROVE  /\ Opens(t, a, b) = Opens(t, a, m) + Opens(t, m + 1, b)
         /\ Opens(t, a, m) \in Nat /\ Opens(t, m + 1, b) \in Nat
<1> DEFINE S == {x \in Int : t[x].k \in {"open", "for"}}
<1>1. /\ {x \in a .. b : t[x].k \in {"open", "for"}} = S \cap (a .. b)
      /\ {x \in a .. m : t[x].k \in {"open", "for"}} = S \cap (a .. m)
      /\ {x \in m + 1 .. b : t[x].k \in {"open", "for"}} = S \cap (m + 1 .. b)
  OBVIOUS
<1> HIDE DEF S
<1>2. /\ Opens(t, a, b) = Cardinality(S \cap (a .. b))
      /\ Opens(t, a, m) = Cardinality(S \cap (a .. m))
      /\ Opens(t, m + 1, b) = Cardinality(S \cap (m + 1 .. b))
  BY <1>1, Zenon DEF Opens
<1>3. /\ Cardinality(S \cap (a .. b)) =
           Cardinality(S \cap (a .. m)) + Cardinality(S \cap (m + 1 .. b))
      /\ Cardinality(S \cap (a .. m)) \in Nat
      /\ Cardinality(S \cap (m + 1 .. b)) \in Nat
  BY CountsAdd
<1> QED
  BY <1>2, <1>3, Zenon

LEMMA ClosesAdd ==
  ASSUME NEW t, NEW a \in Int, NEW m \in Int, NEW b \in Int, a <= m + 1, m <= b
  PROVE  /\ Closes(t, a, b) = Closes(t, a, m) + Closes(t, m + 1, b)
         /\ Closes(t, a, m) \in Nat /\ Closes(t, m + 1, b) \in Nat
<1> DEFINE S == {x \in Int : t[x].k = "close"}
<1>1. /\ {x \in a .. b : t[x].k = "close"} = S \cap (a .. b)
      /\ {x \in a .. m : t[x].k = "close"} = S \cap (a .. m)
      /\ {x \in m + 1 .. b : t[x].k = "close"} = S \cap (m + 1 .. b)
  OBVIOUS
<1> HIDE DEF S
<1>2. /\ Closes(t, a, b) = Cardinality(S \cap (a .. b))
      /\ Closes(t, a, m) = Cardinality(S \cap (a .. m))
      /\ Closes(t, m + 1, b) = Cardinality(S \cap (m + 1 .. b))
  BY <1>1, Zenon DEF Closes
<1>3. /\ Cardinality(S \cap (a .. b)) =
           Cardinality(S \cap (a .. m)) + Cardinality(S \cap (m + 1 .. b))
      /\ Cardinality(S \cap (a .. m)) \in Nat
      /\ Cardinality(S \cap (m + 1 .. b)) \in Nat
  BY CountsAdd
<1> QED
  BY <1>2, <1>3, Zenon

\* A block around i that begins in front of j is around j, if j is in front of i.
LEMMA BlocksInFront ==
  ASSUME NEW t, NEW i \in Int, NEW j \in Int, NEW b \in blocks(t, i), b < j, j <= i
  PROVE  b \in blocks(t, j)
BY DEF blocks

\* The blocks around a block are around what is in it.
LEMMA BlocksOfBlock ==
  ASSUME NEW t, NEW k \in Int, NEW i \in blocks(t, k), i # 0, NEW b \in blocks(t, i)
  PROVE  b \in blocks(t, k)
<1>1. CASE b = 0
  BY <1>1 DEF blocks
<1>2. CASE b # 0
  <2>1. /\ i \in 1 .. k - 1 /\ t[i].k \in {"open", "for"}
        /\ \A e \in i + 1 .. k - 1 : Closes(t, i + 1, e) <= Opens(t, i + 1, e)
    BY DEF blocks
  <2>2. /\ b \in 1 .. i - 1 /\ t[b].k \in {"open", "for"}
        /\ \A e \in b + 1 .. i - 1 : Closes(t, b + 1, e) <= Opens(t, b + 1, e)
    BY <1>2, <2>1 DEF blocks
  <2>3. Opens(t, i, i) = 1 /\ Closes(t, i, i) = 0
    <3>1. {x \in i .. i : t[x].k \in {"open", "for"}} = {i}
      BY <2>1
    <3>2. {x \in i .. i : t[x].k = "close"} = {}
      BY <2>1
    <3> QED
      BY <3>1, <3>2, FS_Singleton, FS_EmptySet DEF Opens, Closes
  <2>4. \A e \in i .. k - 1 : Closes(t, b + 1, e) <= Opens(t, b + 1, e)
    <3> SUFFICES ASSUME NEW e \in i .. k - 1
                 PROVE  Closes(t, b + 1, e) <= Opens(t, b + 1, e)
      OBVIOUS
    <3>1. e \in Int /\ i \in Int /\ b \in Int
      BY <2>1, <2>2
    <3>a. b + 1 \in Int /\ i - 1 \in Int /\ e \in Int /\ b + 1 <= i - 1 + 1 /\ i - 1 <= e
      BY <3>1, <2>2
    <3>2. /\ Opens(t, b + 1, e) = Opens(t, b + 1, i - 1) + Opens(t, i - 1 + 1, e)
          /\ Opens(t, b + 1, i - 1) \in Nat
      BY <3>a, OpensAdd
    <3>3. /\ Closes(t, b + 1, e) = Closes(t, b + 1, i - 1) + Closes(t, i - 1 + 1, e)
          /\ Closes(t, b + 1, i - 1) \in Nat
      BY <3>a, ClosesAdd
    <3>4. Opens(t, i, e) = 1 + Opens(t, i + 1, e) /\ Opens(t, i + 1, e) \in Nat
      BY <3>1, <2>3, OpensAdd
    <3>5. Closes(t, i, e) = Closes(t, i + 1, e) /\ Closes(t, i + 1, e) \in Nat
      BY <3>1, <2>3, ClosesAdd
    <3>6. Closes(t, b + 1, i - 1) <= Opens(t, b + 1, i - 1)
      <4>1. CASE b + 1 <= i - 1
        BY <4>1, <2>2, <3>1
      <4>2. CASE b + 1 = i
        <5>1. {x \in b + 1 .. i - 1 : t[x].k = "close"} = {}
          BY <4>2, <3>1
        <5> QED
          BY <5>1, <3>2, FS_EmptySet DEF Closes
      <4> QED
        BY <4>1, <4>2, <2>2, <3>1
    <3>7. Closes(t, i + 1, e) <= Opens(t, i + 1, e)
      <4>1. CASE e > i
        BY <4>1, <2>1, <3>1
      <4>2. CASE e = i
        <5>1. {x \in i + 1 .. e : t[x].k = "close"} = {}
          BY <4>2, <3>1
        <5>2. Closes(t, i + 1, e) = 0
          BY <5>1, FS_EmptySet DEF Closes
        <5> QED
          BY <5>2, <3>4
      <4> QED
        BY <4>1, <4>2, <3>1
    <3>8. i - 1 + 1 = i
      BY <3>1
    <3> HIDE DEF Opens, Closes
    <3> QED
      BY <3>2, <3>3, <3>4, <3>5, <3>6, <3>7, <3>8
  <2> QED
    BY <2>1, <2>2, <2>4 DEF blocks
<1> QED
  BY <1>1, <1>2

\* Every position is in a block, the innermost of which begins in front of it.
LEMMA BlockOf ==
  ASSUME NEW c, NEW i \in Int, i >= 1
  PROVE  /\ block_of(c, i) \in blocks(c.text, i) /\ block_of(c, i) \in 0 .. i - 1
         /\ \A x \in blocks(c.text, i) : x <= block_of(c, i)
<1>1. blocks(c.text, i) \subseteq 0 .. i - 1 /\ 0 \in blocks(c.text, i)
  BY DEF blocks
<1>2. blocks(c.text, i) \in SUBSET Nat /\ i \in Nat /\ \A x \in blocks(c.text, i) : x <= i
  BY <1>1
<1>3. \E b \in blocks(c.text, i) : \A x \in blocks(c.text, i) : x <= b
  BY <1>1, <1>2, GreatestExists
<1> QED
  BY <1>1, <1>3 DEF block_of

\* What one item opens and closes.
LEMMA ItemCounts ==
  ASSUME NEW t, NEW q \in Int
  PROVE  /\ t[q].k \in {"open", "for"} => Opens(t, q, q) = 1 /\ Closes(t, q, q) = 0
         /\ t[q].k = "close" => Opens(t, q, q) = 0 /\ Closes(t, q, q) = 1
         /\ t[q].k \notin {"open", "for"} => Opens(t, q, q) = 0
         /\ t[q].k # "close" => Closes(t, q, q) = 0
<1> DEFINE O == {x \in q .. q : t[x].k \in {"open", "for"}}
           C == {x \in q .. q : t[x].k = "close"}
<1>1. O = IF t[q].k \in {"open", "for"} THEN {q} ELSE {}
  OBVIOUS
<1>2. C = IF t[q].k = "close" THEN {q} ELSE {}
  OBVIOUS
<1>3. Opens(t, q, q) = Cardinality(O) /\ Closes(t, q, q) = Cardinality(C)
  BY DEF Opens, Closes
<1>4. Cardinality({q}) = 1 /\ Cardinality({}) = 0
  BY FS_Singleton, FS_EmptySet
<1> HIDE DEF O, C
<1> QED
  BY <1>1, <1>2, <1>3, <1>4

LEMMA NoItems ==
  ASSUME NEW t, NEW a \in Int, NEW b \in Int, b < a
  PROVE  Opens(t, a, b) = 0 /\ Closes(t, a, b) = 0
<1>1. {x \in a .. b : t[x].k \in {"open", "for"}} = {} /\ {x \in a .. b : t[x].k = "close"} = {}
  OBVIOUS
<1> QED
  BY <1>1, FS_EmptySet DEF Opens, Closes

\* An interval and its two parts.
LEMMA SplitOpens ==
  ASSUME NEW t, NEW a \in Int, NEW m \in Int, NEW n \in Int, NEW b \in Int,
         n = m + 1, a <= n, m <= b
  PROVE  Opens(t, a, b) = Opens(t, a, m) + Opens(t, n, b)
  BY OpensAdd

LEMMA SplitCloses ==
  ASSUME NEW t, NEW a \in Int, NEW m \in Int, NEW n \in Int, NEW b \in Int,
         n = m + 1, a <= n, m <= b
  PROVE  Closes(t, a, b) = Closes(t, a, m) + Closes(t, n, b)
  BY ClosesAdd

LEMMA CountsAreNat ==
  ASSUME NEW t, NEW a \in Int, NEW b \in Int
  PROVE  Opens(t, a, b) \in Nat /\ Closes(t, a, b) \in Nat
<1>1. CASE b < a
  BY <1>1, NoItems
<1>2. CASE a <= b
  <2>1. a <= b + 1 /\ b <= b
    BY <1>2
  <2> QED
    BY <1>2, <2>1, OpensAdd, ClosesAdd
<1> QED
  BY <1>1, <1>2

\* The items of an interval but for the last one, and but for the first one.
LEMMA LastItem ==
  ASSUME NEW t, NEW a \in Int, NEW b \in Int, NEW c \in Int, c = b - 1, a <= b
  PROVE  /\ t[b].k \in {"open", "for"} =>
              Opens(t, a, b) = Opens(t, a, c) + 1 /\ Closes(t, a, b) = Closes(t, a, c)
         /\ t[b].k = "close" =>
              Opens(t, a, b) = Opens(t, a, c) /\ Closes(t, a, b) = Closes(t, a, c) + 1
         /\ t[b].k # "close" => Closes(t, a, b) = Closes(t, a, c)
         /\ Opens(t, a, c) <= Opens(t, a, b)
<1>1. b = c + 1 /\ a <= b /\ c <= b
  OBVIOUS
<1>2. Opens(t, a, b) = Opens(t, a, c) + Opens(t, b, b)
  BY <1>1, SplitOpens
<1>3. Closes(t, a, b) = Closes(t, a, c) + Closes(t, b, b)
  BY <1>1, SplitCloses
<1>4. /\ Opens(t, a, c) \in Nat /\ Closes(t, a, c) \in Nat
      /\ Opens(t, b, b) \in Nat /\ Closes(t, b, b) \in Nat
  BY CountsAreNat
<1> QED
  BY <1>2, <1>3, <1>4, ItemCounts

LEMMA FirstItem ==
  ASSUME NEW t, NEW a \in Int, NEW b \in Int, NEW n \in Int, n = a + 1, a <= b
  PROVE  /\ t[a].k \in {"open", "for"} =>
              Opens(t, a, b) = 1 + Opens(t, n, b) /\ Closes(t, a, b) = Closes(t, n, b)
         /\ t[a].k \notin {"open", "for"} => Opens(t, a, b) = Opens(t, n, b)
         /\ Closes(t, n, b) <= Closes(t, a, b)
<1>1. a <= n
  OBVIOUS
<1>2. Opens(t, a, b) = Opens(t, a, a) + Opens(t, n, b)
  BY <1>1, SplitOpens
<1>3. Closes(t, a, b) = Closes(t, a, a) + Closes(t, n, b)
  BY <1>1, SplitCloses
<1>4. /\ Opens(t, n, b) \in Nat /\ Closes(t, n, b) \in Nat
      /\ Opens(t, a, a) \in Nat /\ Closes(t, a, a) \in Nat
  BY CountsAreNat
<1> QED
  BY <1>2, <1>3, <1>4, ItemCounts

\* An interval in which more is opened than closed has a block that is not closed in it.
LEMMA Unclosed ==
  ASSUME NEW t, NEW a \in Nat \ {0}, NEW b \in Nat, Opens(t, a, b) > Closes(t, a, b)
  PROVE  \E q \in a .. b : q \in blocks(t, b + 1)
<1> DEFINE S == {j \in a .. b : Opens(t, j, b) > Closes(t, j, b)}
<1>1. a <= b
  BY NoItems
<1>2. S \in SUBSET Nat /\ S # {} /\ \A x \in S : x <= b
  BY <1>1
<1>3. PICK q \in S : \A x \in S : x <= q
  <2> HIDE DEF S
  <2> QED
    BY <1>2, GreatestExists
<1>4. q \in Int /\ a <= q /\ q <= b /\ Opens(t, q, b) > Closes(t, q, b)
  OBVIOUS
<1>5. ASSUME NEW j \in q + 1 .. b + 1
      PROVE  Opens(t, j, b) <= Closes(t, j, b)
  <2>1. CASE j = b + 1
    BY <2>1, NoItems
  <2>2. CASE j # b + 1
    <3>1. j \in a .. b /\ j \notin S
      BY <2>2, <1>3, <1>4
    <3>2. j \in Int /\ j <= b /\ ~(Opens(t, j, b) > Closes(t, j, b))
      BY <3>1
    <3>3. Opens(t, j, b) \in Nat /\ Closes(t, j, b) \in Nat
      BY <3>2, CountsAreNat
    <3> QED
      BY <3>2, <3>3
  <2> QED
    BY <2>1, <2>2
<1>6. q + 1 \in Int /\ Opens(t, q + 1, b) \in Nat /\ Closes(t, q + 1, b) \in Nat
  BY <1>4, CountsAreNat
<1>7. Opens(t, q + 1, b) <= Closes(t, q + 1, b)
  BY <1>4, <1>5
<1>a. Opens(t, q, b) \in Nat /\ Closes(t, q, b) \in Nat
  BY <1>4, CountsAreNat
<1>8. t[q].k \in {"open", "for"}
  <2>1. ASSUME t[q].k \notin {"open", "for"}
        PROVE  Opens(t, q, b) = Opens(t, q + 1, b) /\ Closes(t, q + 1, b) <= Closes(t, q, b)
    BY <2>1, <1>4, <1>6, FirstItem
  <2> QED
    BY <2>1, <1>4, <1>6, <1>7, <1>a
<1>9. Opens(t, q + 1, b) = Closes(t, q + 1, b)
  <2>1. Opens(t, q, b) = 1 + Opens(t, q + 1, b) /\ Closes(t, q, b) = Closes(t, q + 1, b)
    BY <1>4, <1>6, <1>8, FirstItem
  <2> QED
    BY <2>1, <1>4, <1>6, <1>7
<1>10. ASSUME NEW e \in q + 1 .. b
       PROVE  Closes(t, q + 1, e) <= Opens(t, q + 1, e)
  <2>1. /\ Opens(t, q + 1, b) = Opens(t, q + 1, e) + Opens(t, e + 1, b)
        /\ Closes(t, q + 1, b) = Closes(t, q + 1, e) + Closes(t, e + 1, b)
        /\ Opens(t, q + 1, e) \in Nat /\ Opens(t, e + 1, b) \in Nat
        /\ Closes(t, q + 1, e) \in Nat /\ Closes(t, e + 1, b) \in Nat
    <3>1. /\ q + 1 \in Int /\ e \in Int /\ e + 1 \in Int /\ b \in Int
          /\ q + 1 <= e + 1 /\ e <= b
      BY <1>4
    <3>2. Opens(t, q + 1, b) = Opens(t, q + 1, e) + Opens(t, e + 1, b)
      BY <3>1, SplitOpens
    <3>3. Closes(t, q + 1, b) = Closes(t, q + 1, e) + Closes(t, e + 1, b)
      BY <3>1, SplitCloses
    <3> QED
      BY <3>1, <3>2, <3>3, CountsAreNat
  <2>2. Opens(t, e + 1, b) <= Closes(t, e + 1, b)
    BY <1>4, <1>5
  <2> QED
    BY <2>1, <2>2, <1>9
<1> QED
  BY <1>4, <1>8, <1>10 DEF blocks

\* At a close there is a block to close.
LEMMA CloseIsInBlock ==
  ASSUME NEW t \in Seq(Item), Balanced(t), NEW p \in DOMAIN t, t[p].k = "close"
  PROVE  \E q \in 1 .. p - 1 : q \in blocks(t, p)
<1>1. p \in Int /\ p >= 1 /\ p - 1 \in Nat
  OBVIOUS
<1>2. Closes(t, 1, p) <= Opens(t, 1, p)
  BY DEF Balanced
<1>3. /\ Opens(t, 1, p) = Opens(t, 1, p - 1) /\ Closes(t, 1, p) = Closes(t, 1, p - 1) + 1
      /\ Opens(t, 1, p - 1) \in Nat /\ Closes(t, 1, p - 1) \in Nat
  BY <1>1, LastItem, CountsAreNat
<1>4. Opens(t, 1, p - 1) > Closes(t, 1, p - 1)
  BY <1>2, <1>3
<1>5. \E q \in 1 .. p - 1 : q \in blocks(t, p - 1 + 1)
  BY <1>1, <1>4, Unclosed
<1> QED
  BY <1>1, <1>5

\* A close ends the innermost block around it.
LEMMA ClosedBehind ==
  ASSUME NEW t, NEW e \in Nat, t[e].k = "close",
         NEW o \in blocks(t, e), o # 0, \A b \in blocks(t, e) : b <= o
  PROVE  o \notin blocks(t, e + 1)
<1> SUFFICES ASSUME o \in blocks(t, e + 1)
             PROVE  FALSE
  OBVIOUS
<1>1. o \in Nat /\ o + 1 \in Nat \ {0} /\ o + 1 <= e /\ e - 1 \in Nat
  BY DEF blocks
<1>2. \A x \in o + 1 .. e + 1 - 1 : Closes(t, o + 1, x) <= Opens(t, o + 1, x)
  BY DEF blocks
<1>3. Closes(t, o + 1, e) <= Opens(t, o + 1, e)
  BY <1>1, <1>2
<1>4. /\ Opens(t, o + 1, e) = Opens(t, o + 1, e - 1) /\ Closes(t, o + 1, e) = Closes(t, o + 1, e - 1) + 1
      /\ Opens(t, o + 1, e - 1) \in Nat /\ Closes(t, o + 1, e - 1) \in Nat
  BY <1>1, LastItem, CountsAreNat
<1>5. Opens(t, o + 1, e - 1) > Closes(t, o + 1, e - 1)
  BY <1>3, <1>4
<1>6. \E q \in o + 1 .. e - 1 : q \in blocks(t, e - 1 + 1)
  BY <1>1, <1>5, Unclosed
<1>7. e - 1 + 1 = e
  OBVIOUS
<1> QED
  BY <1>1, <1>6, <1>7

\* Every block is closed.
LEMMA CloseExists ==
  ASSUME NEW t \in Seq(Item), Balanced(t), NEW p \in DOMAIN t, t[p].k \in {"open", "for"}
  PROVE  \E e \in DOMAIN t : /\ p < e /\ t[e].k = "close"
                             /\ p \in blocks(t, e) /\ \A b \in blocks(t, e) : b <= p
<1> DEFINE L == Len(t)
           S == {e \in p + 1 .. L : Closes(t, p + 1, e) > Opens(t, p + 1, e)}
<1>1. L \in Nat /\ DOMAIN t = 1 .. L /\ p \in Nat /\ 1 <= p /\ p <= L /\ p - 1 \in Nat
  OBVIOUS
<1> HIDE DEF L
<1>2. Closes(t, 1, p - 1) <= Opens(t, 1, p - 1)
  <2>1. CASE p = 1
    BY <2>1, NoItems
  <2>2. CASE p # 1
    <3>1. p - 1 \in DOMAIN t
      BY <2>2, <1>1
    <3> QED
      BY <3>1 DEF Balanced
  <2> QED
    BY <2>1, <2>2
<1>3. Closes(t, p + 1, L) > Opens(t, p + 1, L)
  <2>1. /\ Opens(t, 1, L) = Opens(t, 1, p) + Opens(t, p + 1, L)
        /\ Closes(t, 1, L) = Closes(t, 1, p) + Closes(t, p + 1, L)
        /\ Opens(t, p + 1, L) \in Nat /\ Closes(t, p + 1, L) \in Nat
    <3>1. 1 \in Int /\ p \in Int /\ p + 1 \in Int /\ L \in Int /\ 1 <= p + 1 /\ p <= L
      BY <1>1
    <3>2. Opens(t, 1, L) = Opens(t, 1, p) + Opens(t, p + 1, L)
      BY <3>1, SplitOpens
    <3>3. Closes(t, 1, L) = Closes(t, 1, p) + Closes(t, p + 1, L)
      BY <3>1, SplitCloses
    <3> QED
      BY <3>1, <3>2, <3>3, CountsAreNat
  <2>2. /\ Opens(t, 1, p) = Opens(t, 1, p - 1) + 1 /\ Closes(t, 1, p) = Closes(t, 1, p - 1)
        /\ Opens(t, 1, p - 1) \in Nat /\ Closes(t, 1, p - 1) \in Nat
    BY <1>1, LastItem, CountsAreNat
  <2>3. Opens(t, 1, L) = Closes(t, 1, L)
    BY DEF Balanced, L
  <2> QED
    BY <2>1, <2>2, <2>3, <1>2
<1>4. L \in S
  BY <1>1, <1>3, NoItems
<1>5. S \in SUBSET Nat
  BY <1>1
<1>6. PICK e \in S : \A x \in S : e <= x
  <2> HIDE DEF S
  <2> QED
    BY <1>4, <1>5, LeastExists
<1>7. /\ e \in Nat /\ p + 1 <= e /\ e <= L /\ e \in DOMAIN t
      /\ Closes(t, p + 1, e) > Opens(t, p + 1, e)
  BY <1>1, <1>6
<1>8. ASSUME NEW x \in p .. e - 1
      PROVE  Closes(t, p + 1, x) <= Opens(t, p + 1, x)
  <2>1. CASE x = p
    BY <2>1, <1>1, NoItems
  <2>2. CASE x # p
    <3>1. x \in p + 1 .. L /\ ~(e <= x) /\ x \in Int
      BY <2>2, <1>1, <1>7
    <3>2. ~(Closes(t, p + 1, x) > Opens(t, p + 1, x))
      BY <3>1, <1>6
    <3>3. Closes(t, p + 1, x) \in Nat /\ Opens(t, p + 1, x) \in Nat
      BY <3>1, <1>1, CountsAreNat
    <3> QED
      BY <3>2, <3>3
  <2> QED
    BY <2>1, <2>2
<1>9. p \in blocks(t, e)
  BY <1>1, <1>7, <1>8 DEF blocks
<1>10. Closes(t, p + 1, e - 1) <= Opens(t, p + 1, e - 1)
  BY <1>1, <1>7, <1>8
<1>11. /\ p + 1 \in Int /\ e - 1 \in Int
       /\ Opens(t, p + 1, e - 1) \in Nat /\ Closes(t, p + 1, e - 1) \in Nat
       /\ Opens(t, p + 1, e) \in Nat /\ Closes(t, p + 1, e) \in Nat
  BY <1>1, <1>7, CountsAreNat
<1>12. t[e].k = "close"
  <2>1. ASSUME t[e].k # "close"
        PROVE  /\ Closes(t, p + 1, e) = Closes(t, p + 1, e - 1)
               /\ Opens(t, p + 1, e - 1) <= Opens(t, p + 1, e)
    BY <2>1, <1>7, <1>11, LastItem
  <2> QED
    BY <2>1, <1>7, <1>10, <1>11
<1>13. ASSUME NEW q \in blocks(t, e), q > p
       PROVE  FALSE
  <2>1. /\ q \in Nat /\ q <= e - 1 /\ t[q].k \in {"open", "for"} /\ p + 1 <= q
        /\ \A x \in q + 1 .. e - 1 : Closes(t, q + 1, x) <= Opens(t, q + 1, x)
    BY <1>1, <1>7, <1>13 DEF blocks
  <2>2. Closes(t, q + 1, e - 1) <= Opens(t, q + 1, e - 1)
    <3>1. CASE q = e - 1
      BY <3>1, <2>1, <1>7, NoItems
    <3>2. CASE q # e - 1
      BY <3>2, <2>1, <1>7
    <3> QED
      BY <3>1, <3>2
  <2>3. Closes(t, p + 1, q - 1) <= Opens(t, p + 1, q - 1)
    BY <2>1, <1>1, <1>7, <1>8
  <2>4. /\ Opens(t, p + 1, q) = Opens(t, p + 1, q - 1) + 1
        /\ Closes(t, p + 1, q) = Closes(t, p + 1, q - 1)
        /\ Opens(t, p + 1, q - 1) \in Nat /\ Closes(t, p + 1, q - 1) \in Nat
    <3>1. p + 1 \in Int /\ q - 1 \in Int /\ p + 1 <= q
      BY <2>1, <1>1
    <3> QED
      BY <2>1, <3>1, LastItem, CountsAreNat
  <2>5. /\ Opens(t, p + 1, e - 1) = Opens(t, p + 1, q) + Opens(t, q + 1, e - 1)
        /\ Closes(t, p + 1, e - 1) = Closes(t, p + 1, q) + Closes(t, q + 1, e - 1)
        /\ Opens(t, q + 1, e - 1) \in Nat /\ Closes(t, q + 1, e - 1) \in Nat
    <3>1. /\ p + 1 \in Int /\ q \in Int /\ q + 1 \in Int /\ e - 1 \in Int
          /\ p + 1 <= q + 1 /\ q <= e - 1
      BY <2>1, <1>1, <1>7
    <3>2. Opens(t, p + 1, e - 1) = Opens(t, p + 1, q) + Opens(t, q + 1, e - 1)
      BY <3>1, SplitOpens
    <3>3. Closes(t, p + 1, e - 1) = Closes(t, p + 1, q) + Closes(t, q + 1, e - 1)
      BY <3>1, SplitCloses
    <3> QED
      BY <3>1, <3>2, <3>3, CountsAreNat
  <2>6. Opens(t, p + 1, e) = Opens(t, p + 1, e - 1) /\ Closes(t, p + 1, e) = Closes(t, p + 1, e - 1) + 1
    BY <1>7, <1>11, <1>12, LastItem
  <2> QED
    BY <2>2, <2>3, <2>4, <2>5, <2>6, <1>7
<1>14. \A b \in blocks(t, e) : b <= p
  <2>1. \A b \in blocks(t, e) : b \in Nat
    BY <1>7 DEF blocks
  <2> QED
    BY <2>1, <1>1, <1>13
<1> QED
  BY <1>7, <1>9, <1>12, <1>14

\* Max() of the blocks around a position.
LEMMA MaxIs ==
  ASSUME NEW S \in SUBSET Nat, NEW n \in Nat, S # {}, \A x \in S : x <= n
  PROVE  Max(S) \in S /\ \A x \in S : x <= Max(S)
<1>1. \E b \in S : \A x \in S : b >= x
  BY GreatestExists
<1> QED
  BY <1>1 DEF Max

-----------------------------------------------------------------------------
(* Variables *)

LEMMA VariablesAre ==
  ASSUME NEW c \in Coroutine
  PROVE  /\ none(c) \in Nat /\ none(c) \notin Vars(c)
         /\ DOMAIN c.text = 1 .. Len(c.text)
         /\ \A i \in Vars(c) : i \in Int
         /\ \A i \in Vars(c) : i > 0 =>
              i \in DOMAIN c.text /\ c.text[i].k \in {"decl", "for", "lambda"}
         /\ \A k \in Awaits(c) : k \in 1 .. Len(c.text)
<1>1. c.text \in Seq(Item) /\ c.params \in Seq(STRING)
  BY DEF Coroutine
<1>2. DOMAIN c.text = 1 .. Len(c.text) /\ Len(c.text) \in Nat /\ Len(c.params) \in Nat
  BY <1>1
<1> QED
  BY <1>2 DEF none, Vars, Awaits

\* In a text that valet handles, a co_await captures what is alive at it.
LEMMA CapturesAlive ==
  ASSUME NEW c \in Coroutine, Supported(c), NEW k \in Awaits(c), NEW i \in Vars(c),
         NEW st, st.aw = k, st.scope = blocks(c.text, k)
  PROVE  captured(c, st, i) <=> i \in alive(c, k)
<1>1. /\ i \in Int /\ i # none(c) /\ k \in Int /\ k >= 1 /\ DOMAIN c.text = 1 .. Len(c.text)
      /\ i > 0 => i \in DOMAIN c.text /\ c.text[i].k \in {"decl", "for"}
  BY VariablesAre DEF Supported
<1>2. CASE i <= 0
  BY <1>1, <1>2 DEF captured, isParm, alive, lives, blocks
<1>3. CASE i > 0 /\ c.text[i].k = "decl"
  BY <1>1, <1>3 DEF captured, isParm, alive, lives
<1>4. CASE i > 0 /\ c.text[i].k = "for"
  <2>1. ASSUME i < k
        PROVE  i \in blocks(c.text, k)
    BY <1>1, <1>4, <2>1 DEF Supported, HeadLeft
  <2>2. ASSUME i < k
        PROVE  block_of(c, i) \in blocks(c.text, k)
    <3>1. i \in blocks(c.text, k) /\ block_of(c, i) \in blocks(c.text, i)
      BY <1>1, <1>4, <2>1, <2>2, BlockOf
    <3>2. i # 0 /\ i \in Int /\ k \in Int
      BY <1>1, <1>4
    <3> QED
      BY <3>1, <3>2, BlocksOfBlock
  <2> QED
    BY <1>1, <1>4, <2>1, <2>2 DEF captured, isParm, alive, lives
<1> QED
  BY <1>1, <1>2, <1>3, <1>4

\* No two variables that are alive at a co_await have the same name.
LEMMA AliveNamesDiffer ==
  ASSUME NEW c \in Coroutine, Supported(c), NEW k \in Awaits(c),
         NEW i \in alive(c, k), NEW j \in alive(c, k), name(c, i) = name(c, j)
  PROVE  i = j
<1>1. ASSUME NEW x \in alive(c, k), NEW y \in alive(c, k), name(c, x) = name(c, y), x < y
      PROVE  FALSE
  <2>1. /\ x \in Vars(c) /\ y \in Vars(c) /\ x \in Int /\ y \in Int /\ y < k /\ k \in Int
        /\ lives(c, x) \in blocks(c.text, k)
        /\ x > 0 => c.text[x].k \in {"decl", "for"}
    BY VariablesAre DEF alive, Supported
  <2>2. CASE x <= 0
    BY <2>1, <2>2, <1>1 DEF Supported, Shadows, lives, blocks
  <2>3. CASE x > 0
    <3>1. lives(c, x) \in 0 .. x
      BY <2>1, <2>3, BlockOf DEF lives
    <3>2. lives(c, x) < y
      BY <3>1, <2>1, <1>1
    <3>3. lives(c, x) \in blocks(c.text, y)
      BY <2>1, <3>2, BlocksInFront
    <3> QED
      BY <3>3, <2>1, <1>1 DEF Supported, Shadows
  <2> QED
    BY <2>1, <2>2, <2>3
<1>2. i \in Int /\ j \in Int
  BY VariablesAre DEF alive
<1> QED
  BY <1>1, <1>2

\* A name in a call stands for the variable that was captured.
LEMMA NameRefers ==
  ASSUME NEW c \in Coroutine, Supported(c), NEW k \in Awaits(c), NEW i \in alive(c, k)
  PROVE  refers(c, k, name(c, i)) = {i} /\ innermost(refers(c, k, name(c, i))) = i
<1>1. refers(c, k, name(c, i)) = {i}
  BY AliveNamesDiffer DEF refers
<1>2. i \in Int
  BY VariablesAre DEF alive
<1> QED
  BY <1>1, <1>2 DEF innermost

LEMMA ItemsAre ==
  ASSUME NEW c \in Coroutine, Supported(c)
  PROVE  /\ c.text \in Seq(Item) /\ Balanced(c.text) /\ Len(c.text) \in Nat
         /\ DOMAIN c.text = 1 .. Len(c.text)
         /\ \A p \in DOMAIN c.text :
              /\ c.text[p].k \in {"open", "close", "await", "decl", "for"}
              /\ p \in Vars(c) <=> c.text[p].k \in {"decl", "for"}
<1>1. c.text \in Seq(Item) /\ Balanced(c.text)
  BY DEF Coroutine
<1>2. DOMAIN c.text = 1 .. Len(c.text) /\ Len(c.text) \in Nat
      /\ \A p \in DOMAIN c.text : c.text[p] \in Item
  BY <1>1
<1>3. \A p \in DOMAIN c.text : c.text[p].k \in {"open", "close", "await", "if", "decl", "for", "lambda"}
  BY <1>2 DEF Item
<1>4. Len(c.params) \in Nat
  BY DEF Coroutine
<1>5. \A p \in DOMAIN c.text : p \in Vars(c) <=> c.text[p].k \in {"decl", "for", "lambda"}
  BY <1>2, <1>4 DEF Vars
<1> QED
  BY <1>1, <1>2, <1>3, <1>5 DEF Supported

\* The block that a variable lives in begins in front of it, or with it if that
\* is a `for`.
LEMMA LivesIn ==
  ASSUME NEW c \in Coroutine, Supported(c), NEW i \in Vars(c)
  PROVE  /\ i \in Int /\ lives(c, i) \in Nat
         /\ i <= 0 => lives(c, i) = 0
         /\ i > 0 => /\ i \in DOMAIN c.text /\ lives(c, i) <= i
                     /\ c.text[i].k \in {"decl", "for"}
                     /\ c.text[i].k = "for" => lives(c, i) = i
                     /\ c.text[i].k = "decl" => lives(c, i) = block_of(c, i)
<1>1. /\ i \in Int
      /\ i > 0 => i \in DOMAIN c.text /\ c.text[i].k \in {"decl", "for"}
  BY VariablesAre, ItemsAre DEF Supported
<1>2. CASE i <= 0
  BY <1>1, <1>2 DEF lives
<1>3. CASE i > 0 /\ c.text[i].k = "for"
  BY <1>1, <1>3 DEF lives
<1>4. CASE i > 0 /\ c.text[i].k = "decl"
  <2>1. lives(c, i) = block_of(c, i)
    BY <1>1, <1>4 DEF lives
  <2>2. block_of(c, i) \in 0 .. i - 1
    BY <1>1, <1>4, BlockOf
  <2> QED
    BY <2>1, <2>2, <1>1, <1>4
<1> QED
  BY <1>1, <1>2, <1>3, <1>4

\* What is alive behind an item was alive at it, or is declared by it.
LEMMA AliveBehind ==
  ASSUME NEW c \in Coroutine, Supported(c), NEW p \in DOMAIN c.text, NEW i \in alive(c, p + 1)
  PROVE  i \in alive(c, p) \/ (i = p /\ p \in Vars(c))
<1>1. /\ i \in Vars(c) /\ i \in Int /\ p \in Int /\ p >= 1 /\ i <= p
      /\ lives(c, i) \in blocks(c.text, p + 1) /\ lives(c, i) \in Nat
  BY ItemsAre, LivesIn DEF alive
<1>2. CASE i = p
  BY <1>1, <1>2
<1>3. CASE i < p
  <2>1. lives(c, i) < p
    BY <1>1, <1>3, LivesIn
  <2>2. p \in Int /\ p + 1 \in Int /\ p <= p + 1
    BY <1>1
  <2>3. lives(c, i) \in blocks(c.text, p)
    BY <1>1, <2>1, <2>2, BlocksInFront
  <2> QED
    BY <1>1, <1>3, <2>3 DEF alive
<1> QED
  BY <1>1, <1>2, <1>3

\* What is alive in a loop at its beginning is alive at its end, too, but for the
\* loop's variable.
LEMMA AliveInLoop ==
  ASSUME NEW c \in Coroutine, Supported(c), NEW p \in DOMAIN c.text,
         NEW o \in blocks(c.text, p), o # 0, NEW i \in alive(c, o + 1)
  PROVE  i \in alive(c, p) \/ i = o
<1>1. o \in DOMAIN c.text /\ o \in Int /\ p \in Int /\ o < p
  BY ItemsAre DEF blocks
<1>2. CASE i \in alive(c, o)
  <2>1. i \in Vars(c) /\ i \in Int /\ i < o /\ lives(c, i) \in blocks(c.text, o)
    BY <1>2, LivesIn DEF alive
  <2>2. lives(c, i) \in blocks(c.text, p)
    BY <1>1, <2>1, BlocksOfBlock
  <2> QED
    BY <1>1, <2>1, <2>2 DEF alive
<1> QED
  BY <1>1, <1>2, AliveBehind

\* What is alive behind a loop was alive in front of it.
LEMMA AliveBehindLoop ==
  ASSUME NEW c \in Coroutine, Supported(c), NEW p \in DOMAIN c.text, c.text[p].k = "for",
         NEW e \in DOMAIN c.text, c.text[e].k = "close",
         p \in blocks(c.text, e), \A b \in blocks(c.text, e) : b <= p,
         NEW i \in alive(c, e + 1)
  PROVE  i \in alive(c, p)
<1>1. /\ i \in Vars(c) /\ i \in Int /\ i <= e /\ p \in Nat /\ e \in Nat /\ p < e /\ p # 0 /\ p >= 1
      /\ lives(c, i) \in blocks(c.text, e + 1) /\ lives(c, i) \in Nat
  BY ItemsAre, LivesIn DEF alive, blocks
<1>2. i # e
  BY <1>1, ItemsAre
<1>3. lives(c, i) < e
  BY <1>1, <1>2, LivesIn
<1>4. lives(c, i) \in blocks(c.text, e)
  <2>1. e \in Int /\ e + 1 \in Int /\ e <= e + 1
    BY <1>1
  <2> QED
    BY <1>1, <1>3, <2>1, BlocksInFront
<1>5. lives(c, i) # p
  BY <1>1, ClosedBehind
<1>6. lives(c, i) < p
  BY <1>1, <1>4, <1>5
<1>7. i < p
  <2> SUFFICES ASSUME i >= p
               PROVE  FALSE
    BY <1>1
  <2>1. c.text[i].k = "decl" /\ lives(c, i) = block_of(c, i) /\ i > p /\ i >= 1
    BY <1>1, <1>6, LivesIn
  <2>2. p \in blocks(c.text, i)
    BY <1>1, <1>2, <2>1, BlocksInFront
  <2>3. \A x \in blocks(c.text, i) : x <= block_of(c, i)
    BY <2>1, <1>1, BlockOf
  <2> QED
    BY <2>1, <2>2, <2>3, <1>1, <1>6
<1>8. lives(c, i) \in blocks(c.text, p)
  <2>1. p \in Int /\ e \in Int /\ p <= e
    BY <1>1
  <2> QED
    BY <1>4, <1>6, <2>1, BlocksInFront
<1> QED
  BY <1>1, <1>7, <1>8 DEF alive

-----------------------------------------------------------------------------
(* Stages *)

LEMMA MatchesAre ==
  ASSUME NEW f, NEW m
  PROVE  m \in Matches(f) <=>
           \E c \in DOMAIN f : \E k \in Awaits(f[c]), i \in Bound(f[c]) :
             matched(f[c]) /\ m = Match(c, k, i)
<1> DEFINE One(c) == {[f |-> c, await |-> k, var |-> i] : k \in Awaits(f[c]), i \in Bound(f[c])}
           D == {c \in DOMAIN f : matched(f[c])}
<1>1. Matches(f) = UNION {One(c) : c \in D}
  BY DEF Matches
<1>2. \A c : m \in One(c) <=> \E k \in Awaits(f[c]), i \in Bound(f[c]) : m = Match(c, k, i)
  BY DEF Match
<1>3. m \in UNION {One(c) : c \in D} <=> \E c \in D : m \in One(c)
  <2> HIDE DEF One, D
  <2> QED
    OBVIOUS
<1> HIDE DEF One
<1> QED
  BY <1>1, <1>2, <1>3

LEMMA IntervalOf ==
  ASSUME NEW n \in Nat
  PROVE  IsFiniteSet(1 .. n) /\ Cardinality(1 .. n) = n
<1>1. IsFiniteSet(1 .. n) /\ Cardinality(1 .. n) = IF 1 > n THEN 0 ELSE n - 1 + 1
  BY FS_Interval
<1> QED
  BY <1>1

LEMMA AppendedSet ==
  ASSUME NEW s \in Seq(Int), NEW i \in Int, IsInjective(s), i \notin ToSet(s)
  PROVE  ToSet(Append(s, i)) = ToSet(s) \cup {i} /\ IsInjective(Append(s, i))
<1> DEFINE a == Append(s, i)
<1>1. /\ DOMAIN s = 1 .. Len(s) /\ Len(s) \in Nat
      /\ DOMAIN a = 1 .. Len(s) + 1 /\ a[Len(s) + 1] = i
      /\ \A n \in 1 .. Len(s) : a[n] = s[n]
  OBVIOUS
<1> HIDE DEF a
<1>2. \A n \in 1 .. Len(s) + 1 : n \in 1 .. Len(s) \/ n = Len(s) + 1
  BY <1>1
<1>3. ToSet(a) = ToSet(s) \cup {i}
  BY <1>1, <1>2 DEF ToSet
<1>4. IsInjective(a)
  BY <1>1, <1>2 DEF IsInjective, ToSet
<1> QED
  BY <1>3, <1>4 DEF a

LEMMA StageIs ==
  ASSUME NEW ss \in Seq(Stage), NEW n \in 1 .. Len(ss)
  PROVE  ss[n] \in Stage /\ ss[n].aw \in Nat /\ ss[n].vars \in Seq(Int)
<1>1. ss[n] \in Stage
  BY ElementOfSeq
<1> QED
  BY <1>1 DEF Stage

\* A match that is done with takes nothing from the other stages.
LEMMA GatheredElsewhere ==
  ASSUME NEW f, NEW M, NEW c, NEW st, NEW m, ~(m.f = c /\ m.await = st.aw)
  PROVE  Gathered(f, M \ {m}, c, st) = Gathered(f, M, c, st)
<1>1. \A i : Match(c, st.aw, i) # m
  BY DEF Match
<1> QED
  BY <1>1 DEF Gathered

LEMMA CollectedElsewhere ==
  ASSUME NEW f, NEW M, NEW c, NEW ss, NEW m \in M, m.f # c, Collected(f, M, c, ss)
  PROVE  Collected(f, M \ {m}, c, ss)
<1>1. \A n \in 1 .. Len(ss) : Gathered(f, M \ {m}, c, ss[n]) = Gathered(f, M, c, ss[n])
  BY GatheredElsewhere
<1>2. \A n \in 1 .. Len(ss) : StageOK(f, M \ {m}, c, ss[n])
  BY <1>1 DEF Collected, StageOK
<1> QED
  BY <1>2 DEF Collected

\* ensure_stage_for(): afterwards there is a stage for the co_await.
LEMMA EnsureCollects ==
  ASSUME NEW f \in Seq(Coroutine), NEW M, M \subseteq Matches(f), NEW m \in M,
         NEW ss, Collected(f, M, m.f, ss)
  PROVE  /\ Collected(f, M, m.f, ensure_stage_for(ss, f[m.f], m.await))
         /\ \E n \in 1 .. Len(ensure_stage_for(ss, f[m.f], m.await)) :
              ensure_stage_for(ss, f[m.f], m.await)[n].aw = m.await
<1> DEFINE c  == m.f
           st == [aw |-> m.await, scope |-> blocks(f[c].text, m.await), vars |-> <<>>]
           t  == Append(ss, st)
<1>1. /\ c \in DOMAIN f /\ m.await \in Awaits(f[c]) /\ matched(f[c])
      /\ \A i \in Vars(f[c]) : Match(c, m.await, i) \in Matches(f)
  <2>1. PICK d \in DOMAIN f : \E k \in Awaits(f[d]), i \in Bound(f[d]) :
               matched(f[d]) /\ m = Match(d, k, i)
    BY MatchesAre
  <2>2. c = d /\ m.await \in Awaits(f[c]) /\ matched(f[c])
    BY <2>1 DEF Match
  <2>3. Vars(f[c]) \subseteq Bound(f[c])
    BY DEF Bound
  <2> QED
    BY <2>2, <2>3, MatchesAre
<1>2. CASE \E n \in DOMAIN ss : ss[n].aw = m.await
  <2>1. DOMAIN ss = 1 .. Len(ss)
    BY DEF Collected
  <2> QED
    BY <1>2, <2>1 DEF ensure_stage_for
<1>3. CASE ~ \E n \in DOMAIN ss : ss[n].aw = m.await
  <2>1. ensure_stage_for(ss, f[c], m.await) = t
    BY <1>3 DEF ensure_stage_for
  <2>2. ss \in Seq(Stage) /\ Len(ss) \in Nat /\ DOMAIN ss = 1 .. Len(ss)
    BY DEF Collected
  <2>3. f[c] \in Coroutine /\ m.await \in Nat
    BY <1>1, VariablesAre
  <2>4. st \in Stage
    <3>1. blocks(f[c].text, m.await) \subseteq Nat
      BY <2>3 DEF blocks
    <3> QED
      BY <2>3, <3>1 DEF Stage
  <2> HIDE DEF st
  <2>5. /\ t \in Seq(Stage) /\ Len(t) = Len(ss) + 1 /\ t[Len(ss) + 1] = st
        /\ \A n \in 1 .. Len(ss) : t[n] = ss[n]
        /\ t # <<>>
    BY <2>2, <2>4
  <2> HIDE DEF t
  <2>6. Gathered(f, M, c, st) = {}
    <3> SUFFICES ASSUME NEW i \in Vars(f[c]), Match(c, m.await, i) \notin M
                 PROVE  FALSE
      BY DEF Gathered, st
    <3>1. Match(c, m.await, i) \in Matches(f) \ M
      BY <1>1
    <3>2. Match(c, m.await, i).f = c /\ Match(c, m.await, i).await = m.await
      BY DEF Match
    <3> QED
      BY <3>1, <3>2, <1>3, <2>2 DEF Collected
  <2>7. StageOK(f, M, c, st)
    BY <2>6, <1>1 DEF StageOK, st, ToSet, IsInjective
  <2>8. st.aw = m.await
    BY DEF st
  <2>9. \A n \in 1 .. Len(t) : n \in 1 .. Len(ss) \/ n = Len(ss) + 1
    BY <2>2, <2>5
  <2>10. \A n \in 1 .. Len(t) : StageOK(f, M, c, t[n])
    BY <2>5, <2>7, <2>9 DEF Collected
  <2>11. \A n, o \in 1 .. Len(t) : t[n].aw = t[o].aw => n = o
    BY <2>5, <2>8, <2>9, <2>2, <1>3 DEF Collected
  <2>12. Len(ss) + 1 \in 1 .. Len(t) /\ \A n \in 1 .. Len(ss) : n \in 1 .. Len(t)
    BY <2>2, <2>5
  <2>13. \A x \in Matches(f) \ M : x.f = c => \E n \in 1 .. Len(t) : t[n].aw = x.await
    BY <2>5, <2>12 DEF Collected
  <2>14. Collected(f, M, c, t)
    BY <2>5, <2>10, <2>11, <2>13, <1>1 DEF Collected
  <2> QED
    BY <2>1, <2>14, <2>12, <2>5, <2>8
<1> QED
  BY <1>2, <1>3

\* run() for a match that is still to come, once its co_await has a stage.
LEMMA AddedCollects ==
  ASSUME NEW f \in Seq(Coroutine), NEW M, M \subseteq Matches(f), NEW m \in M,
         NEW t, Collected(f, M, m.f, t), \E n \in 1 .. Len(t) : t[n].aw = m.await
  PROVE  Collected(f, M \ {m}, m.f, added(t, f[m.f], m))
<1> DEFINE c == m.f
           L == M \ {m}
           r == added(t, f[c], m)
           joins(n) == t[n].aw = m.await /\ captured(f[c], t[n], m.var)
<1>1. /\ t \in Seq(Stage) /\ Len(t) \in Nat /\ DOMAIN t = 1 .. Len(t)
      /\ \A n \in 1 .. Len(t) : t[n] \in Stage
  BY StageIs DEF Collected
<1>2. /\ c \in DOMAIN f /\ m.await \in Awaits(f[c]) /\ m.var \in Bound(f[c])
      /\ f[c] \in Coroutine
      /\ \A k, i : Match(c, k, i) = m <=> k = m.await /\ i = m.var
  <2>1. PICK d \in DOMAIN f : \E k \in Awaits(f[d]), i \in Bound(f[d]) :
               matched(f[d]) /\ m = Match(d, k, i)
    BY MatchesAre
  <2> QED
    BY <2>1 DEF Match
<1>4. \A n \in 1 .. Len(t) : joins(n) => m.var \in Vars(f[c]) /\ m.var \in Int
  BY <1>2, VariablesAre DEF captured, Bound
<1>5. /\ DOMAIN r = 1 .. Len(t)
      /\ \A n \in 1 .. Len(t) :
           r[n] = IF joins(n) THEN [t[n] EXCEPT !.vars = Append(@, m.var)] ELSE t[n]
  BY <1>1 DEF added
<1> HIDE DEF r, joins
<1>6. \A n \in 1 .. Len(t) : r[n].aw = t[n].aw /\ r[n].scope = t[n].scope /\ r[n] \in Stage
  <2> SUFFICES ASSUME NEW n \in 1 .. Len(t)
               PROVE  r[n].aw = t[n].aw /\ r[n].scope = t[n].scope /\ r[n] \in Stage
    OBVIOUS
  <2>1. t[n] \in Stage
    BY <1>1
  <2>2. joins(n) => Append(t[n].vars, m.var) \in Seq(Int)
    BY <2>1, <1>4 DEF Stage
  <2> QED
    BY <2>1, <2>2, <1>5 DEF Stage
<1>7. r \in Seq(Stage) /\ Len(r) = Len(t) /\ (r # <<>> => t # <<>>)
  <2>1. r = [n \in 1 .. Len(t) |-> r[n]]
    BY <1>1, <1>5 DEF r, added
  <2> QED
    BY <2>1, <1>5, <1>6, <1>1
<1>8. \A n \in 1 .. Len(t) : StageOK(f, L, c, r[n])
  <2> SUFFICES ASSUME NEW n \in 1 .. Len(t)
               PROVE  StageOK(f, L, c, r[n])
    OBVIOUS
  <2>1. StageOK(f, M, c, t[n]) /\ t[n] \in Stage
    BY <1>1 DEF Collected
  <2>2. Gathered(f, L, c, r[n]) = Gathered(f, L, c, t[n])
    BY <1>6 DEF Gathered, captured
  <2>3. CASE t[n].aw # m.await
    <3>1. r[n] = t[n]
      BY <2>3, <1>5 DEF joins
    <3>2. Gathered(f, L, c, t[n]) = Gathered(f, M, c, t[n])
      BY <2>3, GatheredElsewhere
    <3> QED
      BY <3>1, <3>2, <2>1 DEF StageOK
  <2>4. CASE t[n].aw = m.await /\ ~joins(n)
    <3>1. r[n] = t[n]
      BY <2>4, <1>5
    <3>2. Gathered(f, L, c, t[n]) = Gathered(f, M, c, t[n])
      BY <2>4, <1>2 DEF Gathered, joins
    <3> QED
      BY <3>1, <3>2, <2>1 DEF StageOK
  <2>5. CASE t[n].aw = m.await /\ joins(n)
    <3>1. r[n].vars = Append(t[n].vars, m.var) /\ t[n].vars \in Seq(Int) /\ m.var \in Int
      BY <2>1, <2>5, <1>4, <1>5 DEF Stage
    <3>2. Gathered(f, L, c, t[n]) = Gathered(f, M, c, t[n]) \cup {m.var}
      BY <2>5, <1>2, <1>4 DEF Gathered, joins
    <3>3. m.var \notin Gathered(f, M, c, t[n])
      BY <2>5, <1>2 DEF Gathered
    <3>4. IsInjective(t[n].vars) /\ m.var \notin ToSet(t[n].vars)
      BY <3>3, <2>1 DEF StageOK
    <3>5. /\ ToSet(Append(t[n].vars, m.var)) = ToSet(t[n].vars) \cup {m.var}
          /\ IsInjective(Append(t[n].vars, m.var))
      BY <3>1, <3>4, AppendedSet
    <3>6. ToSet(t[n].vars) = Gathered(f, M, c, t[n])
      BY <2>1 DEF StageOK
    <3> QED
      BY <3>1, <3>2, <3>5, <3>6, <2>1, <2>2, <1>6 DEF StageOK
  <2> QED
    BY <2>3, <2>4, <2>5
<1>9. \A n, o \in 1 .. Len(r) : r[n].aw = r[o].aw => n = o
  BY <1>6, <1>7 DEF Collected
<1>10. \A x \in Matches(f) \ L : x.f = c => \E n \in 1 .. Len(r) : r[n].aw = x.await
  <2> SUFFICES ASSUME NEW x \in Matches(f) \ L, x.f = c
               PROVE  \E n \in 1 .. Len(t) : t[n].aw = x.await
    BY <1>6, <1>7
  <2> QED
    BY DEF Collected
<1>11. Collected(f, L, c, r)
  BY <1>7, <1>8, <1>9, <1>10 DEF Collected
<1> QED
  BY <1>11 DEF r
\* When no match is left, every co_await that can be matched has its stage.
LEMMA EveryAwaitStaged ==
  ASSUME NEW f, NEW c \in DOMAIN f, matched(f[c]), NEW ss, Collected(f, {}, c, ss)
  PROVE  \A k \in Awaits(f[c]) : \E n \in 1 .. Len(ss) : ss[n].aw = k
<1> SUFFICES ASSUME NEW k \in Awaits(f[c])
             PROVE  \E n \in 1 .. Len(ss) : ss[n].aw = k
  OBVIOUS
<1>1. PICK i \in Bound(f[c]) : TRUE
  BY DEF Bound
<1>2. Match(c, k, i) \in Matches(f) \ {}
  BY MatchesAre
<1>3. Match(c, k, i).f = c /\ Match(c, k, i).await = k
  BY DEF Match
<1> QED
  BY <1>2, <1>3 DEF Collected

LEMMA HasStages ==
  ASSUME NEW f \in Seq(Coroutine), NEW c \in DOMAIN f, NEW ss, Collected(f, {}, c, ss)
  PROVE  ss # <<>> <=> f[c].kind \in {"plain", "macro"} /\ Awaits(f[c]) # {}
<1>1. f[c].kind \in {"plain", "skip", "macro", "broken"}
  <2>1. f[c] \in Coroutine
    OBVIOUS
  <2> QED
    BY <2>1 DEF Coroutine
<1>2. ss \in Seq(Stage) /\ Len(ss) \in Nat /\ (ss # <<>> => 1 \in 1 .. Len(ss)) /\ Len(<<>>) = 0
  BY DEF Collected
<1>3. ss # <<>> => ss[1].aw \in Awaits(f[c])
  BY <1>2 DEF Collected, StageOK
<1>4. ss # <<>> => matched(f[c])
  BY DEF Collected
<1>5. matched(f[c]) /\ Awaits(f[c]) # {} => \E n \in 1 .. Len(ss) : TRUE
  BY EveryAwaitStaged
<1>6. matched(f[c]) <=> f[c].kind \in {"plain", "macro"}
  BY <1>1 DEF matched
<1> QED
  BY <1>2, <1>3, <1>4, <1>5, <1>6

-----------------------------------------------------------------------------
(* What is written *)

PreambleEdit(c, ss) == [f |-> c, at |-> 0, n |-> Len(ss), names |-> <<>>]
Names(c, st)        == [x \in DOMAIN st.vars |-> name(c, st.vars[x])]
CallEdit(f, c, ss, n) == [f |-> c, at |-> ss[n].aw, n |-> n, names |-> Names(f[c], ss[n])]
EditsFor(f, c, ss) ==
  IF ss = <<>> THEN {} ELSE {PreambleEdit(c, ss)} \cup {CallEdit(f, c, ss, n) : n \in DOMAIN ss}

LEMMA EditsAre == edits = UNION {EditsFor(file, c, stages[c]) : c \in DOMAIN file}
BY DEF edits, EditsFor, PreambleEdit, CallEdit, Names

LEMMA EditsOfCoroutine ==
  ASSUME NEW c \in DOMAIN file
  PROVE  {e \in edits : e.f = c} = EditsFor(file, c, stages[c])
<1>1. \A d \in DOMAIN file : \A e \in EditsFor(file, d, stages[d]) : e.f = d
  BY DEF EditsFor, PreambleEdit, CallEdit
<1> QED
  BY <1>1, EditsAre

\* The names in the calls at a co_await stand for what is alive there.
LEMMA NamesAreAlive ==
  ASSUME NEW f \in Seq(Coroutine), NEW c \in DOMAIN f, Supported(f[c]),
         NEW st \in Stage, StageOK(f, {}, c, st)
  PROVE  /\ \A x \in DOMAIN Names(f[c], st) : refers(f[c], st.aw, Names(f[c], st)[x]) # {}
         /\ {innermost(refers(f[c], st.aw, v)) : v \in ToSet(Names(f[c], st))} = alive(f[c], st.aw)
         /\ IsInjective(Names(f[c], st))
<1> DEFINE k == st.aw
<1>1. f[c] \in Coroutine /\ k \in Awaits(f[c])
  BY DEF StageOK
<1>2. ToSet(st.vars) = alive(f[c], k)
  <2>1. \A i \in Vars(f[c]) : captured(f[c], st, i) <=> i \in alive(f[c], k)
    BY <1>1, CapturesAlive DEF StageOK
  <2>2. alive(f[c], k) \subseteq Vars(f[c])
    BY DEF alive
  <2> QED
    BY <2>1, <2>2 DEF StageOK, Gathered
<1>3. \A x \in DOMAIN st.vars : st.vars[x] \in alive(f[c], k)
  BY <1>2 DEF ToSet
<1>4. \A x \in DOMAIN st.vars :
        /\ refers(f[c], k, name(f[c], st.vars[x])) = {st.vars[x]}
        /\ innermost(refers(f[c], k, name(f[c], st.vars[x]))) = st.vars[x]
  BY <1>1, <1>3, NameRefers
<1>5. ToSet(Names(f[c], st)) = {name(f[c], st.vars[x]) : x \in DOMAIN st.vars}
  BY DEF ToSet, Names
<1>6. {innermost(refers(f[c], k, v)) : v \in ToSet(Names(f[c], st))} = ToSet(st.vars)
  <2> DEFINE inn(v) == innermost(refers(f[c], k, v))
             nm(x)  == name(f[c], st.vars[x])
  <2>1. \A x \in DOMAIN st.vars : inn(nm(x)) = st.vars[x]
    BY <1>4
  <2>2. ToSet(Names(f[c], st)) = {nm(x) : x \in DOMAIN st.vars}
    BY <1>5
  <2> HIDE DEF inn, nm
  <2>3. {inn(v) : v \in {nm(x) : x \in DOMAIN st.vars}} = {st.vars[x] : x \in DOMAIN st.vars}
    BY <2>1
  <2>4. {inn(v) : v \in ToSet(Names(f[c], st))} = ToSet(st.vars)
    BY <2>2, <2>3 DEF ToSet
  <2> QED
    BY <2>4 DEF inn
<1>7. IsInjective(Names(f[c], st))
  <2> SUFFICES ASSUME NEW x \in DOMAIN st.vars, NEW y \in DOMAIN st.vars,
                      name(f[c], st.vars[x]) = name(f[c], st.vars[y])
               PROVE  x = y
    BY DEF IsInjective, Names
  <2>1. st.vars[x] = st.vars[y]
    BY <1>1, <1>3, AliveNamesDiffer
  <2> QED
    BY <2>1 DEF StageOK, IsInjective
<1> QED
  BY <1>2, <1>4, <1>6, <1>7 DEF Names

\* When no match is left, the edits of a coroutine instrument it.
LEMMA CollectedInstruments ==
  ASSUME NEW f \in Seq(Coroutine), NEW c \in DOMAIN f, Supported(f[c]),
         NEW ss, Collected(f, {}, c, ss)
  PROVE  Instrumented(f[c], EditsFor(f, c, ss))
<1>1. /\ ss \in Seq(Stage) /\ Len(ss) \in Nat /\ DOMAIN ss = 1 .. Len(ss)
      /\ \A n \in 1 .. Len(ss) : ss[n] \in Stage /\ StageOK(f, {}, c, ss[n])
  BY StageIs DEF Collected
<1>2. f[c] \in Coroutine /\ \A n \in 1 .. Len(ss) : ss[n].aw \in Awaits(f[c])
  BY <1>1 DEF StageOK
<1>3. CASE f[c].kind \in {"skip", "broken"} \/ Awaits(f[c]) = {}
  <2>1. ss = <<>>
    <3>1. CASE Awaits(f[c]) = {}
      BY <3>1, <1>1, <1>2
    <3>2. CASE f[c].kind \in {"skip", "broken"}
      BY <3>2 DEF Collected, matched
    <3> QED
      BY <1>3, <3>1, <3>2
  <2> QED
    BY <1>3, <2>1 DEF Instrumented, EditsFor
<1>4. CASE f[c].kind \notin {"skip", "broken"} /\ Awaits(f[c]) # {}
  <2> DEFINE es    == EditsFor(f, c, ss)
             calls == {e \in es : e.at # 0}
             C     == {CallEdit(f, c, ss, n) : n \in 1 .. Len(ss)}
  <2>1. \A k \in Awaits(f[c]) : \E n \in 1 .. Len(ss) : ss[n].aw = k
    BY <1>4, EveryAwaitStaged DEF matched
  <2>2. {ss[n].aw : n \in 1 .. Len(ss)} = Awaits(f[c])
    BY <2>1, <1>2
  <2>3. ss # <<>> /\ Len(ss) >= 1
    BY <2>1, <1>4, <1>1
  <2>4. \A n \in 1 .. Len(ss) : ss[n].aw # 0
    BY <1>2, VariablesAre
  <2>5. es = {PreambleEdit(c, ss)} \cup C
    BY <2>3, <1>1 DEF EditsFor
  <2>6. PreambleEdit(c, ss).at = 0 /\ PreambleEdit(c, ss).n = Len(ss)
    BY DEF PreambleEdit
  <2>7. \A n \in 1 .. Len(ss) :
          /\ CallEdit(f, c, ss, n).at = ss[n].aw /\ CallEdit(f, c, ss, n).n = n
          /\ CallEdit(f, c, ss, n).names = Names(f[c], ss[n])
    BY DEF CallEdit
  <2> HIDE DEF es
  <2>8. calls = C /\ es \ calls = {PreambleEdit(c, ss)}
    BY <2>4, <2>5, <2>6, <2>7
  <2>9. Cardinality(C) = Len(ss)
    <3> DEFINE g == [n \in 1 .. Len(ss) |-> CallEdit(f, c, ss, n)]
    <3>1. g \in Bijection(1 .. Len(ss), C)
      BY <2>7 DEF Bijection, Injection, Surjection, IsInjective
    <3>2. IsFiniteSet(1 .. Len(ss)) /\ Cardinality(1 .. Len(ss)) = Len(ss)
      BY <1>1, IntervalOf
    <3> HIDE DEF C
    <3> QED
      BY <3>1, <3>2, FS_Bijection DEF ExistsBijection
  <2>10. {e.at : e \in C} = Awaits(f[c])
    BY <2>2, <2>7
  <2>11. {e.n : e \in C} = 1 .. Len(ss)
    BY <2>7
  <2>12. {e.n : e \in {PreambleEdit(c, ss)}} = {Len(ss)}
    BY <2>6
  <2>c. \A n, o \in 1 .. Len(ss) : ss[n].aw = ss[o].aw => n = o
    BY DEF Collected
  <2>d. \A e, d \in C : e.at = d.at \/ e.n = d.n => e = d
    BY <2>7, <2>c
  <2>13. \A e \in C :
           /\ \A x \in DOMAIN e.names : refers(f[c], e.at, e.names[x]) # {}
           /\ {innermost(refers(f[c], e.at, v)) : v \in ToSet(e.names)} = alive(f[c], e.at)
           /\ IsInjective(e.names)
           /\ e.at = 1 \/ f[c].text[e.at - 1].k # "if"
    <3> SUFFICES ASSUME NEW n \in 1 .. Len(ss), NEW e, e = CallEdit(f, c, ss, n)
                 PROVE  /\ \A x \in DOMAIN e.names : refers(f[c], e.at, e.names[x]) # {}
                        /\ {innermost(refers(f[c], e.at, v)) : v \in ToSet(e.names)} = alive(f[c], e.at)
                        /\ IsInjective(e.names)
                        /\ e.at = 1 \/ f[c].text[e.at - 1].k # "if"
      OBVIOUS
    <3>1. e.at = ss[n].aw /\ e.names = Names(f[c], ss[n])
      BY <2>7
    <3>2. e.at - 1 \in DOMAIN f[c].text \/ e.at = 1
      BY <3>1, <1>2, VariablesAre
    <3>3. e.at = 1 \/ f[c].text[e.at - 1].k # "if"
      BY <3>2 DEF Supported
    <3>4. ss[n] \in Stage /\ StageOK(f, {}, c, ss[n])
      BY <1>1
    <3>5. /\ \A x \in DOMAIN Names(f[c], ss[n]) : refers(f[c], ss[n].aw, Names(f[c], ss[n])[x]) # {}
          /\ {innermost(refers(f[c], ss[n].aw, v)) : v \in ToSet(Names(f[c], ss[n]))}
               = alive(f[c], ss[n].aw)
          /\ IsInjective(Names(f[c], ss[n]))
      <4> HIDE DEF es, calls, C
      <4> QED
        BY <3>4, NamesAreAlive
    <3> QED
      BY <3>1, <3>3, <3>5
  <2> HIDE DEF C
  <2>14. Instrumented(f[c], es)
    BY <1>4, <2>8, <2>9, <2>10, <2>11, <2>12, <2>13, <2>d DEF Instrumented
  <2> QED
    BY <2>14 DEF es
<1> QED
  BY <1>3, <1>4
-----------------------------------------------------------------------------
(* Steps *)

LEMMA InputsAre ==
  ASSUME Queued
  PROVE  /\ cmd.files \in Seq(SourceFile) /\ cmd.args \in Seq(STRING)
         /\ cmd.stdin \in BOOLEAN /\ cmd.verbose \in BOOLEAN
         /\ Len(cmd.files) \in Nat /\ Len(todo) \in Nat /\ Done \in 0 .. Len(cmd.files)
         /\ DOMAIN cmd.files = 1 .. Len(cmd.files)
         /\ \A x \in 1 .. Len(cmd.files) : cmd.files[x] \in SourceFile
         /\ file \in Seq(Coroutine)
<1>1. cmd \in [stdin : BOOLEAN, verbose : BOOLEAN, args : Seq(STRING), files : Seq(SourceFile)]
  BY ValetToolAssumption DEF Queued
<1>2. /\ cmd.files \in Seq(SourceFile) /\ cmd.args \in Seq(STRING)
      /\ cmd.stdin \in BOOLEAN /\ cmd.verbose \in BOOLEAN
  BY <1>1
<1>3. /\ Len(cmd.files) \in Nat /\ Len(todo) \in Nat /\ Done \in 0 .. Len(cmd.files)
      /\ DOMAIN cmd.files = 1 .. Len(cmd.files)
  BY <1>2 DEF Queued, Done
<1>4. \A x \in 1 .. Len(cmd.files) : cmd.files[x] \in SourceFile
  BY <1>2, ElementOfSeq
<1>5. file \in Seq(Coroutine)
  <2>1. CASE file = NoFile
    BY <2>1 DEF NoFile
  <2>2. CASE file # NoFile
    <3>1. file \in SourceFile
      BY <2>2, <1>3, <1>4 DEF Queued
    <3> QED
      BY <3>1 DEF SourceFile
  <2> QED
    BY <2>1, <2>2
<1> QED
  BY <1>2, <1>3, <1>4, <1>5

LEMMA InitIsOK == Init => TInv
<1> SUFFICES ASSUME Init
             PROVE  TInv
  OBVIOUS
<1> USE DEF Init
<1>1. cmd.files \in Seq(SourceFile)
  BY ValetToolAssumption
<1>2. Done = 0
  BY <1>1 DEF Done
<1>3. Queued
  BY <1>1, <1>2 DEF Queued
<1>4. Collecting
  BY DEF Collecting, NoFile
<1>5. Buffered
  BY DEF Buffered
<1>6. Wrote
  BY <1>2 DEF Wrote, ToSet
<1>7. Reported
  <2>1. failed \in BOOLEAN
    BY Zenon
  <2>2. status # 0
    BY DEF Running
  <2> HIDE DEF Init
  <2> QED
    BY <1>2, <2>1, <2>2 DEF Reported
<1> QED
  BY <1>3, <1>4, <1>5, <1>6, <1>7 DEF TInv

LEMMA BeginSourceStep ==
  ASSUME TInv, BeginSource
  PROVE  TInv'
<1> DEFINE D == Done
<1>1. /\ cmd' = cmd /\ file = NoFile /\ todo # <<>> /\ file' = Head(todo) /\ todo' = Tail(todo)
      /\ matches' = Matches(file') /\ stages' = [c \in DOMAIN file' |-> <<>>]
      /\ failed' = (failed \/ (cmd.verbose /\ Broken(file')))
      /\ buffer' = buffer /\ written' = written /\ status' = status /\ status = Running
  BY DEF BeginSource, Broken
<1>2. /\ cmd.files \in Seq(SourceFile) /\ Len(cmd.files) \in Nat /\ D \in 0 .. Len(cmd.files)
      /\ \A x \in 1 .. Len(cmd.files) : cmd.files[x] \in SourceFile
      /\ todo \in Seq(SourceFile) /\ Len(todo) \in Nat
  BY InputsAre DEF TInv, Queued
<1>3. /\ Len(todo) >= 1 /\ file' = todo[1]
      /\ todo' \in Seq(SourceFile) /\ Len(todo') = Len(todo) - 1
      /\ \A x \in 1 .. Len(todo') : todo'[x] = todo[x + 1]
  BY <1>1, <1>2
<1>4. Done' = D + 1 /\ D + 1 \in 1 .. Len(cmd.files)
  BY <1>1, <1>2, <1>3 DEF Done
<1>5. file' = cmd.files[D + 1] /\ file' # NoFile
  BY <1>2, <1>3, <1>4 DEF TInv, Queued, SourceFile, NoFile
<1>6. \A x : Past(x)' <=> x \in 1 .. D /\ Past(x)
  BY <1>1, <1>2, <1>4, <1>5 DEF Past
<1>7. Queued'
  <2>1. \A x \in 1 .. Len(todo') : todo'[x] = cmd.files[Done' + x]
    <3> SUFFICES ASSUME NEW x \in 1 .. Len(todo')
                 PROVE  todo'[x] = cmd.files[Done' + x]
      OBVIOUS
    <3>a. x \in Nat /\ 1 <= x /\ x <= Len(todo') /\ Len(todo') = Len(todo) - 1
      BY <1>3
    <3>b. x + 1 \in 1 .. Len(todo) /\ todo'[x] = todo[x + 1]
      BY <3>a, <1>2, <1>3
    <3>1. x + 1 \in 1 .. Len(todo) /\ todo'[x] = todo[x + 1] /\ D + (x + 1) = Done' + x
      BY <3>a, <3>b, <1>2, <1>4
    <3>2. todo[x + 1] = cmd.files[D + (x + 1)]
      BY <3>1 DEF TInv, Queued
    <3> QED
      BY <3>1, <3>2
  <2> QED
    BY <2>1, <1>1, <1>2, <1>3, <1>4, <1>5 DEF TInv, Queued
<1>8. Collecting'
  <2>1. \A c \in DOMAIN file' : Collected(file', Matches(file'), c, <<>>)
    BY DEF Collected
  <2> QED
    BY <2>1, <1>1 DEF Collecting
<1>9. Buffered'
  BY <1>1, <1>2, <1>4, <1>6 DEF TInv, Buffered
<1>10. Wrote'
  BY <1>1, <1>2, <1>4, <1>6 DEF TInv, Wrote
<1>11. Reported'
  <2>1. \A x \in 1 .. D + 1 : x \in 1 .. D \/ x = D + 1
    BY <1>2
  <2>2. failed \in BOOLEAN /\ \A x \in 1 .. D : cmd.verbose /\ Broken(cmd.files[x]) => failed
    BY DEF TInv, Reported
  <2>3. failed' \in BOOLEAN
    BY <1>1, <2>2
  <2>4. \A x \in 1 .. Done' : cmd.verbose /\ Broken(cmd.files[x]) => failed'
    BY <1>1, <1>4, <1>5, <2>1, <2>2
  <2>5. status' # 0
    BY <1>1 DEF Running
  <2> QED
    BY <2>3, <2>4, <2>5, <1>1 DEF Reported
<1> QED
  BY <1>7, <1>8, <1>9, <1>10, <1>11 DEF TInv

LEMMA RunStep ==
  ASSUME TInv, Run
  PROVE  TInv'
<1>1. PICK m \in matches :
        /\ matches' = matches \ {m}
        /\ stages' = [stages EXCEPT ![m.f] =
                        added(ensure_stage_for(@, file[m.f], m.await), file[m.f], m)]
  BY DEF Run
<1>2. /\ cmd' = cmd /\ todo' = todo /\ file' = file /\ buffer' = buffer /\ written' = written
      /\ failed' = failed /\ status' = status
  BY DEF Run
<1>3. Done' = Done /\ \A x : Past(x)' <=> Past(x)
  BY <1>2 DEF Done, Past
<1>4. Queued'
  BY <1>2, <1>3 DEF TInv, Queued
<1>5. Collecting'
  <2>1. /\ file \in Seq(Coroutine) /\ matches \subseteq Matches(file) /\ DOMAIN stages = DOMAIN file
        /\ \A c \in DOMAIN file : Collected(file, matches, c, stages[c])
    BY InputsAre DEF TInv, Collecting
  <2>2. m.f \in DOMAIN file
    <3>1. PICK c \in DOMAIN file : \E k \in Awaits(file[c]), i \in Bound(file[c]) :
                 matched(file[c]) /\ m = Match(c, k, i)
      BY <2>1, MatchesAre
    <3> QED
      BY <3>1 DEF Match
  <2> DEFINE ss == stages[m.f]
           t  == ensure_stage_for(ss, file[m.f], m.await)
  <2>a. Collected(file, matches, m.f, ss)
    BY <2>1, <2>2
  <2> HIDE DEF ss
  <2>b. \A M, s : M \subseteq Matches(file) /\ m \in M /\ Collected(file, M, m.f, s) =>
          LET u == ensure_stage_for(s, file[m.f], m.await)
          IN  Collected(file, M, m.f, u) /\ \E n \in 1 .. Len(u) : u[n].aw = m.await
    BY <2>1, EnsureCollects
  <2>3. Collected(file, matches, m.f, t) /\ \E n \in 1 .. Len(t) : t[n].aw = m.await
    BY <2>1, <2>a, <2>b
  <2> HIDE DEF t
  <2>4. Collected(file, matches \ {m}, m.f, added(t, file[m.f], m))
    BY <2>1, <2>3, AddedCollects
  <2>5. stages' = [stages EXCEPT ![m.f] = added(t, file[m.f], m)]
    BY <1>1 DEF t, ss
  <2>6. \A c \in DOMAIN file : c # m.f => Collected(file, matches \ {m}, c, stages[c])
    BY <2>1, CollectedElsewhere
  <2>7. DOMAIN stages' = DOMAIN file /\ stages'[m.f] = added(t, file[m.f], m)
        /\ \A c \in DOMAIN file : c # m.f => stages'[c] = stages[c]
    BY <2>1, <2>2, <2>5
  <2>8. \A c \in DOMAIN file : Collected(file, matches \ {m}, c, stages'[c])
    BY <2>4, <2>6, <2>7
  <2> QED
    BY <1>1, <1>2, <2>1, <2>7, <2>8 DEF Collecting
<1>6. Buffered'
  BY <1>2, <1>3 DEF TInv, Buffered
<1>7. Wrote'
  BY <1>2, <1>3 DEF TInv, Wrote
<1>8. Reported'
  BY <1>2, <1>3 DEF TInv, Reported
<1> QED
  BY <1>4, <1>5, <1>6, <1>7, <1>8 DEF TInv

\* At the end of a file: there are edits if and only if something in it is to be
\* instrumented, and they are not refused if that is not in a macro.
LEMMA AtTheEnd ==
  ASSUME TInv, AtEnd
  PROVE  /\ file \in Seq(Coroutine)
         /\ \A c \in DOMAIN file : Collected(file, {}, c, stages[c])
         /\ edits # {} <=> ToInstrument(file)
         /\ refused <=> HasMacro(file)
<1>1. /\ file \in Seq(Coroutine) /\ DOMAIN stages = DOMAIN file
      /\ \A c \in DOMAIN file : Collected(file, {}, c, stages[c])
  BY InputsAre DEF TInv, Collecting, AtEnd
<1>2. \A c \in DOMAIN file :
        stages[c] # <<>> <=> file[c].kind \in {"plain", "macro"} /\ Awaits(file[c]) # {}
  BY <1>1, HasStages
<1>3. \A c \in DOMAIN file : EditsFor(file, c, stages[c]) # {} <=> stages[c] # <<>>
  BY DEF EditsFor
<1>4. edits # {} <=> \E c \in DOMAIN file : EditsFor(file, c, stages[c]) # {}
  BY EditsAre
<1>5. edits # {} <=> ToInstrument(file)
  BY <1>2, <1>3, <1>4 DEF ToInstrument
<1>6. refused <=> HasMacro(file)
  BY <1>1, <1>2 DEF refused, HasMacro
<1> QED
  BY <1>1, <1>5, <1>6

LEMMA AppendedOutput ==
  ASSUME NEW s, s \in Seq(ToSet(s)), NEW w
  PROVE  /\ Append(s, w) \in Seq(ToSet(Append(s, w))) /\ Len(s) \in Nat
         /\ DOMAIN Append(s, w) = 1 .. Len(s) + 1
         /\ Len(Append(s, w)) = Len(s) + 1 /\ Append(s, w)[Len(s) + 1] = w
         /\ \A n \in 1 .. Len(s) : Append(s, w)[n] = s[n]
<1> DEFINE S == ToSet(s) \cup {w}
           a == Append(s, w)
<1>1. s \in Seq(S)
  BY SeqMonotonic
<1>2. w \in S
  OBVIOUS
<1> HIDE DEF S
<1>3. /\ a \in Seq(S) /\ Len(s) \in Nat /\ Len(a) = Len(s) + 1 /\ a[Len(s) + 1] = w
      /\ \A n \in 1 .. Len(s) : a[n] = s[n]
      /\ DOMAIN a = 1 .. Len(s) + 1
  BY <1>1, <1>2
<1> HIDE DEF a
<1>4. \A n \in 1 .. Len(a) : a[n] \in ToSet(a)
  BY <1>3 DEF ToSet
<1>5. a = [n \in 1 .. Len(a) |-> a[n]]
  BY <1>3
<1>6. a \in Seq(ToSet(a))
  BY <1>3, <1>4, <1>5
<1> QED
  BY <1>3, <1>6 DEF a

LEMMA EndSourceStep ==
  ASSUME TInv, EndSource
  PROVE  TInv'
<1>1. /\ cmd' = cmd /\ todo' = todo /\ file # NoFile /\ file' = NoFile /\ stages' = <<>>
      /\ matches' = matches /\ matches = {} /\ status = Running /\ status' = status
      /\ failed' = failed /\ ~refused /\ AtEnd
      /\ buffer' = edited(buffer, edits)
      /\ written' = IF buffer' = NoBuffer THEN written
                    ELSE Append(written, [of |-> file, text |-> buffer'])
  BY DEF EndSource, AtEnd
<1>2. /\ Done' = Done /\ Done \in 1 .. Len(cmd.files) /\ file = cmd.files[Done]
      /\ Len(cmd.files) \in Nat /\ Done \in Nat
  BY <1>1, InputsAre DEF TInv, Queued, Done
<1>3. \A x \in 1 .. Done : Past(x)' /\ (Past(x) \/ x = Done)
  BY <1>1, <1>2 DEF Past
<1>4. Queued'
  BY <1>1, <1>2 DEF TInv, Queued
<1>5. Collecting'
  BY <1>1 DEF Collecting, NoFile
<1>6. edits # {} => ToInstrument(file) /\ ~HasMacro(file)
  BY <1>1, AtTheEnd
<1>7. buffer' # NoBuffer <=> buffer # NoBuffer \/ edits # {}
  BY <1>1 DEF edited, NoBuffer
<1>8. Buffered'
  <2> SUFFICES ASSUME buffer' # NoBuffer
               PROVE  \E x \in 1 .. Done : /\ Past(x)' /\ ToInstrument(cmd.files[x])
                                         /\ ~HasMacro(cmd.files[x])
    BY <1>1, <1>2 DEF Buffered
  <2>1. CASE buffer # NoBuffer
    BY <2>1, <1>3 DEF TInv, Buffered
  <2>2. CASE edits # {}
    BY <2>2, <1>2, <1>3, <1>6
  <2> QED
    BY <1>7, <2>1, <2>2
<1>9. Wrote'
  <2>1. /\ written \in Seq(ToSet(written)) /\ Len(written) < Done
        /\ \A x \in 1 .. Done : Past(x) /\ ToInstrument(cmd.files[x]) =>
             \E y \in 1 .. Len(written) : written[y].of = cmd.files[x]
    BY <1>1 DEF TInv, Wrote
  <2>2. CASE buffer' = NoBuffer
    <3>1. ~ToInstrument(file)
      BY <2>2, <1>1, <1>7, AtTheEnd
    <3>2. written' = written /\ Len(written) \in Nat
      BY <2>1, <2>2, <1>1, LenProperties
    <3>3. \A x \in 1 .. Done : ToInstrument(cmd.files[x]) =>
             \E y \in 1 .. Len(written) : written[y].of = cmd.files[x]
      BY <3>1, <2>1, <1>2, <1>3
    <3> QED
      BY <3>2, <3>3, <2>1, <1>1, <1>2 DEF Wrote
  <2>3. CASE buffer' # NoBuffer
    <3> DEFINE w == [of |-> file, text |-> buffer']
    <3>1. written' = Append(written, w) /\ w.of = file
      BY <2>3, <1>1
    <3> HIDE DEF w
    <3>2. /\ written' \in Seq(ToSet(written')) /\ Len(written) \in Nat
          /\ Len(written') = Len(written) + 1 /\ written'[Len(written) + 1] = w
          /\ \A n \in 1 .. Len(written) : written'[n] = written[n]
      BY <2>1, <3>1, AppendedOutput
    <3>3. \A x \in 1 .. Done : ToInstrument(cmd.files[x]) =>
             \E y \in 1 .. Len(written') : written'[y].of = cmd.files[x]
      <4> SUFFICES ASSUME NEW x \in 1 .. Done, ToInstrument(cmd.files[x])
                   PROVE  \E y \in 1 .. Len(written') : written'[y].of = cmd.files[x]
        OBVIOUS
      <4>1. CASE Past(x)
        <5>1. PICK y \in 1 .. Len(written) : written[y].of = cmd.files[x]
          BY <4>1, <2>1
        <5>2. y \in 1 .. Len(written') /\ written'[y] = written[y]
          BY <3>2
        <5> QED
          BY <5>1, <5>2
      <4>2. CASE x = Done
        <5>1. Len(written) + 1 \in 1 .. Len(written')
          BY <3>2
        <5> QED
          BY <5>1, <4>2, <3>1, <3>2, <1>2
      <4> QED
        BY <4>1, <4>2, <1>3
    <3> QED
      BY <3>2, <3>3, <2>1, <1>1, <1>2 DEF Wrote
  <2> QED
    BY <2>2, <2>3
<1>10. Reported'
  BY <1>1, <1>2 DEF TInv, Reported, Running
<1> QED
  BY <1>4, <1>5, <1>8, <1>9, <1>10 DEF TInv

LEMMA BailStep ==
  ASSUME TInv, Bail
  PROVE  TInv'
<1>1. /\ cmd' = cmd /\ todo' = todo /\ file' = file /\ stages' = stages /\ matches' = matches
      /\ failed' = failed /\ buffer' = buffer /\ written' = written /\ status' = 2
  BY DEF Bail, bail
<1>2. Done' = Done /\ \A x : Past(x)' <=> Past(x)
  BY <1>1 DEF Done, Past
<1>3. Queued'
  BY <1>1, <1>2 DEF TInv, Queued
<1>4. Collecting'
  BY <1>1 DEF TInv, Collecting
<1>5. Buffered' /\ Wrote'
  BY <1>1, <1>2 DEF TInv, Buffered, Wrote
<1>6. Reported'
  BY <1>1, <1>2 DEF TInv, Reported
<1> QED
  BY <1>3, <1>4, <1>5, <1>6 DEF TInv

LEMMA LeaveStep ==
  ASSUME TInv, Leave
  PROVE  TInv'
<1>1. /\ cmd' = cmd /\ todo' = todo /\ file' = file /\ stages' = stages /\ matches' = matches
      /\ failed' = failed /\ buffer' = buffer /\ written' = written
      /\ file = NoFile /\ todo = <<>> /\ status' = IF failed THEN 1 ELSE 0
  BY DEF Leave
<1>2. Done' = Done /\ \A x : Past(x)' <=> Past(x)
  BY <1>1 DEF Done, Past
<1>3. Queued'
  BY <1>1, <1>2 DEF TInv, Queued
<1>4. Collecting'
  BY <1>1 DEF TInv, Collecting
<1>5. Buffered' /\ Wrote'
  BY <1>1, <1>2 DEF TInv, Buffered, Wrote
<1>6. Reported'
  BY <1>1, <1>2 DEF TInv, Reported
<1> QED
  BY <1>3, <1>4, <1>5, <1>6 DEF TInv

LEMMA StutterStep ==
  ASSUME TInv, UNCHANGED vars
  PROVE  TInv'
<1>1. /\ cmd' = cmd /\ todo' = todo /\ file' = file /\ stages' = stages /\ matches' = matches
      /\ failed' = failed /\ buffer' = buffer /\ written' = written /\ status' = status
  BY DEF vars
<1>2. Done' = Done /\ \A x : Past(x)' <=> Past(x)
  BY <1>1 DEF Done, Past
<1> QED
  BY <1>1, <1>2 DEF TInv, Queued, Collecting, Buffered, Wrote, Reported

LEMMA ToolInvariant == Spec => []TInv
<1>1. TInv /\ [Next]_vars => TInv'
  BY BeginSourceStep, RunStep, EndSourceStep, BailStep, LeaveStep, StutterStep DEF Next
<1> QED
  BY <1>1, InitIsOK, PTL DEF Spec

-----------------------------------------------------------------------------
(* Steps of an output *)

\* Where a `for` ends.
LEMMA CloseOfIs ==
  ASSUME src.c \in Coroutine, Supported(src.c), NEW p \in DOMAIN Text, Text[p].k = "for"
  PROVE  /\ CloseOf(p) \in DOMAIN Text /\ Text[CloseOf(p)].k = "close"
         /\ p \in blocks(Text, CloseOf(p)) /\ \A b \in blocks(Text, CloseOf(p)) : b <= p
<1> DEFINE t == Text
           inner(e) == {b \in blocks(t, e) : b # 0}
           closes(e) == t[e].k = "close" /\ p = Max(inner(e))
<1>1. t \in Seq(Item) /\ Balanced(t) /\ Len(t) \in Nat /\ DOMAIN t = 1 .. Len(t)
  BY ItemsAre DEF Text
<1> HIDE DEF t
<1>2. ASSUME NEW e \in DOMAIN t, inner(e) # {}
      PROVE  Max(inner(e)) \in inner(e) /\ \A x \in inner(e) : x <= Max(inner(e))
  <2>1. inner(e) \in SUBSET Nat /\ e \in Nat /\ \A x \in inner(e) : x <= e
    BY <1>1 DEF blocks
  <2> HIDE DEF inner
  <2> QED
    BY <1>2, <2>1, MaxIs
<1>3. \E e \in DOMAIN t : closes(e)
  <2>1. PICK e \in DOMAIN t : /\ p < e /\ t[e].k = "close"
                              /\ p \in blocks(t, e) /\ \A b \in blocks(t, e) : b <= p
    BY <1>1, CloseExists DEF t
  <2>2. p \in inner(e) /\ p \in Nat /\ inner(e) \subseteq Nat
    BY <1>1, <2>1 DEF t, blocks
  <2>3. Max(inner(e)) \in inner(e) /\ p <= Max(inner(e)) /\ Max(inner(e)) <= p
    BY <1>2, <2>1, <2>2
  <2>4. p = Max(inner(e))
    <3> HIDE DEF inner
    <3> QED
      BY <2>2, <2>3
  <2> QED
    BY <2>1, <2>4
<1>4. CloseOf(p) \in DOMAIN t /\ closes(CloseOf(p))
  BY <1>3 DEF CloseOf, t
<1>5. PICK q \in 1 .. CloseOf(p) - 1 : q \in blocks(t, CloseOf(p))
  BY <1>1, <1>4, CloseIsInBlock
<1>6. inner(CloseOf(p)) # {}
  BY <1>5
<1>7. p \in inner(CloseOf(p)) /\ \A x \in inner(CloseOf(p)) : x <= p
  BY <1>2, <1>4, <1>6
<1>8. p \in Nat
  BY <1>1 DEF t
<1> QED
  BY <1>4, <1>7, <1>8 DEF t

\* The block that is closed at p.
LEMMA ClosedBlockIs ==
  ASSUME src.c \in Coroutine, Supported(src.c), NEW p \in DOMAIN Text, Text[p].k = "close"
  PROVE  Max(blocks(Text, p)) \in blocks(Text, p) /\ Max(blocks(Text, p)) \in 1 .. p - 1
<1> DEFINE t == Text
           B == blocks(t, p)
<1>1. t \in Seq(Item) /\ Balanced(t) /\ p \in Nat /\ p \in DOMAIN t
  BY ItemsAre DEF Text
<1>2. PICK q \in 1 .. p - 1 : q \in B
  BY <1>1, CloseIsInBlock
<1>3. B \in SUBSET Nat /\ \A x \in B : x <= p - 1 /\ x <= p
  BY <1>1, <1>2 DEF blocks
<1>4. Max(B) \in B /\ \A x \in B : x <= Max(B)
  <2> HIDE DEF B
  <2> QED
    BY <1>1, <1>2, <1>3, MaxIs
<1> HIDE DEF B
<1>5. Max(B) \in Nat /\ Max(B) <= p - 1 /\ q <= Max(B)
  BY <1>2, <1>3, <1>4, Zenon
<1>6. Max(B) \in 1 .. p - 1
  <2> DEFINE o == Max(B)
  <2>1. o \in Nat /\ o <= p - 1 /\ q <= o /\ q \in Nat /\ 1 <= q /\ p \in Nat
    BY <1>1, <1>2, <1>5
  <2> HIDE DEF o
  <2>2. o \in 1 .. p - 1
    BY <2>1
  <2> QED
    BY <2>2 DEF o
<1> QED
  BY <1>4, <1>6 DEF B, t

Goes(p, x, enter, q) ==
  /\ alive(src.c, q) \subseteq alive(src.c, p)
  /\ \A m : step(p, m, x, enter) = [p |-> q, m |-> m]

Sets(p, x, enter, q, d) ==
  /\ d \in Vars(src.c) /\ alive(src.c, q) \subseteq alive(src.c, p) \cup {d}
  /\ \A m : step(p, m, x, enter) = [p |-> q, m |-> [m EXCEPT ![d] = x]]

\* A step brings no variable to life but the one that it gives a value.
LEMMA StepIs ==
  ASSUME src.c \in Coroutine, Supported(src.c), NEW p \in DOMAIN Text, Text[p].k # "await",
         NEW x \in Val, NEW enter \in BOOLEAN
  PROVE  \E q \in 1 .. Len(Text) + 1 :
           Goes(p, x, enter, q) \/ \E d : Sets(p, x, enter, q, d)
<1> DEFINE c == src.c
           k == Text[p].k
           o == Max(blocks(Text, p))
<1>1. /\ Text = c.text /\ Len(Text) \in Nat /\ DOMAIN Text = 1 .. Len(Text)
      /\ k \in {"open", "close", "decl", "for"} /\ (p \in Vars(c) <=> k \in {"decl", "for"})
  BY ItemsAre DEF Text
<1>2. p + 1 \in 1 .. Len(Text) + 1 /\ p \in Nat
  BY <1>1
<1>3. alive(c, p + 1) \subseteq alive(c, p) \cup {p}
  BY <1>1, AliveBehind
<1>4. k \notin {"decl", "for"} => alive(c, p + 1) \subseteq alive(c, p)
  BY <1>1, AliveBehind
<1>5. CASE k = "decl"
  <2>1. \A m : step(p, m, x, enter) = [p |-> p + 1, m |-> [m EXCEPT ![p] = x]]
    BY <1>5 DEF step
  <2>2. Sets(p, x, enter, p + 1, p)
    BY <1>1, <1>3, <1>5, <2>1 DEF Sets
  <2> QED
    BY <1>2, <2>2
<1>6. CASE k = "for" /\ enter
  <2>1. \A m : step(p, m, x, enter) = [p |-> p + 1, m |-> [m EXCEPT ![p] = x]]
    BY <1>6 DEF step
  <2>2. Sets(p, x, enter, p + 1, p)
    BY <1>1, <1>3, <1>6, <2>1 DEF Sets
  <2> QED
    BY <1>2, <2>2
<1>7. CASE k = "for" /\ ~enter
  <2> DEFINE e == CloseOf(p)
  <2>1. \A m : step(p, m, x, enter) = [p |-> e + 1, m |-> m]
    BY <1>7 DEF step
  <2>2. /\ e \in DOMAIN Text /\ Text[e].k = "close"
        /\ p \in blocks(Text, e) /\ \A b \in blocks(Text, e) : b <= p
    BY <1>7, CloseOfIs
  <2> HIDE DEF e
  <2>3. alive(c, e + 1) \subseteq alive(c, p)
    BY <1>1, <1>7, <2>2, AliveBehindLoop
  <2>4. e + 1 \in 1 .. Len(Text) + 1
    BY <1>1, <2>2
  <2> QED
    BY <2>1, <2>3, <2>4 DEF Goes
<1>8. CASE k = "close" /\ Text[o].k = "for" /\ enter
  <2>1. \A m : step(p, m, x, enter) = [p |-> o + 1, m |-> [m EXCEPT ![o] = x]]
    BY <1>8 DEF step
  <2>2. o \in blocks(Text, p) /\ o \in 1 .. p - 1
    BY <1>8, ClosedBlockIs
  <2>3. Text[o].k = "for"
    BY <1>8
  <2> HIDE DEF o
  <2>4. alive(c, o + 1) \subseteq alive(c, p) \cup {o}
    BY <1>1, <2>2, AliveInLoop
  <2>5. o \in DOMAIN Text /\ o \in Vars(c)
    BY <1>1, <2>2, <2>3, ItemsAre
  <2>6. o + 1 \in 1 .. Len(Text) + 1
    BY <1>1, <2>2
  <2>7. Sets(p, x, enter, o + 1, o)
    BY <2>1, <2>4, <2>5 DEF Sets
  <2> QED
    BY <2>6, <2>7
<1>9. CASE k = "open" \/ (k = "close" /\ ~(Text[o].k = "for" /\ enter))
  <2>1. \A m : step(p, m, x, enter) = [p |-> p + 1, m |-> m]
    BY <1>9 DEF step
  <2>2. Goes(p, x, enter, p + 1)
    BY <1>4, <1>9, <2>1 DEF Goes
  <2> QED
    BY <1>2, <2>2
<1> QED
  BY <1>1, <1>5, <1>6, <1>7, <1>8, <1>9

-----------------------------------------------------------------------------
(* The two runs *)

Values == Val \cup {Junk}

\* What the name v in a call at k stands for.
ref(c, k, v) == innermost(refers(c, k, v))

\* The calls es of a coroutine c list what is alive at each of its co_awaits, every
\* variable once.
CallsOf(c, es) ==
  /\ {e.at : e \in es} = Awaits(c)
  /\ \A e, d \in es : e.at = d.at \/ e.n = d.n => e = d
  /\ \A e \in es :
       /\ DOMAIN e.names \subseteq Int
       /\ \A x \in DOMAIN e.names : ref(c, e.at, e.names[x]) \in alive(c, e.at)
       /\ \A x, y \in DOMAIN e.names :
            ref(c, e.at, e.names[x]) = ref(c, e.at, e.names[y]) => x = y
       /\ \A i \in alive(c, e.at) : \E x \in DOMAIN e.names : ref(c, e.at, e.names[x]) = i

\* What the call e saves of the variables m.
Saved(c, e, m) ==
  [n |-> e.n, vals |-> [x \in DOMAIN e.names |-> m[ref(c, e.at, e.names[x])]]]

\* Both runs are at the same place with the same values in what is alive there,
\* and at a co_await these values have been saved.
Lockstep ==
  /\ src.c \in Coroutine /\ Supported(src.c) /\ CallsOf(src.c, src.calls)
  /\ pc \in 1 .. Len(Text) + 1 /\ rpc = pc
  /\ mem \in [Vars(src.c) -> Values] /\ rmem \in [Vars(src.c) -> Values]
  /\ \A i \in alive(src.c, pc) : rmem[i] = mem[i]
  /\ held => /\ pc \in DOMAIN Text /\ Text[pc].k = "await"
             /\ \E e \in src.calls : e.at = pc /\ state = Saved(src.c, e, rmem)

RInv == IF src = NoCoroutine THEN pc = 0 /\ rpc = 0 /\ ~held ELSE Lockstep

\* The calls in an output as it should be.
LEMMA CallsAre ==
  ASSUME NEW c \in Coroutine, Supported(c), NEW es, Instrumented(c, es),
         \A e \in es : DOMAIN e.names \subseteq Int,
         NEW calls, calls = {e \in es : e.at # 0}, calls # {}
  PROVE  CallsOf(c, calls)
<1>1. /\ {e.at : e \in calls} = Awaits(c)
      /\ \A e, d \in calls : e.at = d.at \/ e.n = d.n => e = d
      /\ \A e \in calls :
           /\ \A x \in DOMAIN e.names : refers(c, e.at, e.names[x]) # {}
           /\ {innermost(refers(c, e.at, v)) : v \in ToSet(e.names)} = alive(c, e.at)
           /\ IsInjective(e.names)
  BY DEF Instrumented
<1>2. ASSUME NEW e \in calls
      PROVE  /\ \A x \in DOMAIN e.names : /\ ref(c, e.at, e.names[x]) \in alive(c, e.at)
                                          /\ name(c, ref(c, e.at, e.names[x])) = e.names[x]
             /\ \A i \in alive(c, e.at) : \E x \in DOMAIN e.names : ref(c, e.at, e.names[x]) = i
  <2> DEFINE k == e.at
             nm == e.names
  <2>1. k \in Awaits(c)
    BY <1>1
  <2>2. /\ \A x \in DOMAIN nm : refers(c, k, nm[x]) # {}
        /\ {innermost(refers(c, k, v)) : v \in ToSet(nm)} = alive(c, k)
    BY <1>1
  <2> HIDE DEF k, nm
  <2>3. ASSUME NEW x \in DOMAIN nm
        PROVE  ref(c, k, nm[x]) \in alive(c, k) /\ name(c, ref(c, k, nm[x])) = nm[x]
    <3>1. PICK i \in alive(c, k) : name(c, i) = nm[x]
      BY <2>2 DEF refers
    <3>2. innermost(refers(c, k, name(c, i))) = i
      BY <2>1, NameRefers
    <3> QED
      BY <3>1, <3>2 DEF ref
  <2>4. ASSUME NEW i \in alive(c, k)
        PROVE  \E x \in DOMAIN nm : ref(c, k, nm[x]) = i
    <3>1. PICK v \in ToSet(nm) : innermost(refers(c, k, v)) = i
      BY <2>2
    <3>2. PICK x \in DOMAIN nm : v = nm[x]
      BY DEF ToSet
    <3> QED
      BY <3>1, <3>2 DEF ref
  <2> QED
    BY <2>3, <2>4 DEF k, nm
<1>3. ASSUME NEW e \in calls, NEW x \in DOMAIN e.names, NEW y \in DOMAIN e.names,
             ref(c, e.at, e.names[x]) = ref(c, e.at, e.names[y])
      PROVE  x = y
  <2>1. e.names[x] = e.names[y]
    BY <1>2, <1>3
  <2> QED
    BY <2>1, <1>1 DEF IsInjective
<1> QED
  BY <1>1, <1>2, <1>3 DEF CallsOf

\* load() gives the variables that are alive what the same call has saved.
LEMMA LoadRestores ==
  ASSUME NEW c, c = src.c, NEW es, CallsOf(c, es), NEW e \in es,
         NEW m \in [Vars(c) -> Values], state = Saved(c, e, m),
         NEW l \in [Vars(c) -> Values]
  PROVE  /\ load(e, l) \in [Vars(c) -> Values]
         /\ \A i \in alive(c, e.at) : load(e, l)[i] = m[i]
<1> DEFINE k == e.at
           nm == e.names
<1>1. /\ DOMAIN nm \subseteq Int
      /\ \A x \in DOMAIN nm : ref(c, k, nm[x]) \in alive(c, k)
      /\ \A x, y \in DOMAIN nm : ref(c, k, nm[x]) = ref(c, k, nm[y]) => x = y
      /\ \A i \in alive(c, k) : \E x \in DOMAIN nm : ref(c, k, nm[x]) = i
  BY DEF CallsOf
<1>2. \A i : listed(e, i) = {x \in DOMAIN nm : ref(c, k, nm[x]) = i}
  BY DEF listed, referent, ref
<1>3. /\ load(e, l) = [i \in Vars(c) |-> IF listed(e, i) = {} THEN l[i]
                                        ELSE state.vals[Max(listed(e, i))]]
  BY DEF load
<1>4. \A x \in DOMAIN nm : state.vals[x] = m[ref(c, k, nm[x])]
  BY DEF Saved
<1>5. alive(c, k) \subseteq Vars(c)
  BY DEF alive
<1> HIDE DEF k, nm
<1>6. ASSUME NEW i, listed(e, i) # {}
      PROVE  /\ i \in alive(c, k)
             /\ Max(listed(e, i)) \in DOMAIN nm /\ ref(c, k, nm[Max(listed(e, i))]) = i
  <2>1. PICK x \in DOMAIN nm : ref(c, k, nm[x]) = i
    BY <1>2, <1>6
  <2>2. listed(e, i) = {x}
    BY <1>1, <1>2, <2>1
  <2>3. x \in Int
    BY <1>1
  <2>4. Max({x}) = x
    BY <2>3 DEF Max
  <2> QED
    BY <1>1, <2>1, <2>2, <2>4
<1>7. ASSUME NEW i, listed(e, i) # {}
      PROVE  i \in alive(c, k) /\ state.vals[Max(listed(e, i))] = m[i]
  BY <1>4, <1>6, <1>7
<1>8. \A i \in alive(c, k) : listed(e, i) # {}
  BY <1>1, <1>2
<1>9. \A i \in Vars(c) : load(e, l)[i] \in Values
  BY <1>3, <1>5, <1>7
<1>10. \A i \in alive(c, k) : load(e, l)[i] = m[i]
  BY <1>3, <1>5, <1>7, <1>8
<1>11. load(e, l) \in [Vars(c) -> Values]
  BY <1>3, <1>9
<1> QED
  BY <1>10, <1>11 DEF k

LEMMA StepKeeps == RInv /\ Step => RInv'
<1> SUFFICES ASSUME RInv, Step
             PROVE  RInv'
  OBVIOUS
<1> DEFINE c == src.c
<1>1. /\ src # NoCoroutine /\ Lockstep /\ ~held /\ pc \in DOMAIN Text /\ Text[pc].k # "await"
      /\ src' = src /\ state' = state /\ held' = held
  BY DEF RInv, Step, Executing
<1>2. PICK x \in Val, enter \in BOOLEAN :
        LET s == step(pc, mem, x, enter)
            r == step(rpc, rmem, x, enter)
        IN  pc' = s.p /\ mem' = s.m /\ rpc' = r.p /\ rmem' = r.m
  BY DEF Step
<1>3. /\ c \in Coroutine /\ Supported(c) /\ CallsOf(c, src.calls) /\ rpc = pc
      /\ mem \in [Vars(c) -> Values] /\ rmem \in [Vars(c) -> Values]
      /\ \A i \in alive(c, pc) : rmem[i] = mem[i]
  BY <1>1 DEF Lockstep
<1>4. PICK q \in 1 .. Len(Text) + 1 : Goes(pc, x, enter, q) \/ \E d : Sets(pc, x, enter, q, d)
  BY <1>1, <1>3, StepIs
<1>5. CASE Goes(pc, x, enter, q)
  <2>1. pc' = q /\ rpc' = q /\ mem' = mem /\ rmem' = rmem /\ alive(c, q) \subseteq alive(c, pc)
    BY <1>2, <1>3, <1>5 DEF Goes
  <2> QED
    BY <1>1, <1>3, <2>1 DEF RInv, Lockstep, Text
<1>6. CASE \E d : Sets(pc, x, enter, q, d)
  <2>1. PICK d : Sets(pc, x, enter, q, d)
    BY <1>6
  <2>2. /\ d \in Vars(c) /\ alive(c, q) \subseteq alive(c, pc) \cup {d}
        /\ pc' = q /\ rpc' = q
        /\ mem' = [mem EXCEPT ![d] = x] /\ rmem' = [rmem EXCEPT ![d] = x]
    <3>1. step(pc, mem, x, enter) = [p |-> q, m |-> [mem EXCEPT ![d] = x]]
      BY <2>1 DEF Sets
    <3>2. step(rpc, rmem, x, enter) = [p |-> q, m |-> [rmem EXCEPT ![d] = x]]
      BY <1>3, <2>1 DEF Sets
    <3>3. pc' = q /\ rpc' = q /\ mem' = [mem EXCEPT ![d] = x] /\ rmem' = [rmem EXCEPT ![d] = x]
      BY <1>2, <3>1, <3>2
    <3> QED
      BY <2>1, <3>3 DEF Sets
  <2>3. x \in Values /\ alive(c, pc) \subseteq Vars(c)
    BY DEF Values, alive
  <2>4. mem' \in [Vars(c) -> Values] /\ rmem' \in [Vars(c) -> Values]
    BY <1>3, <2>2, <2>3
  <2>5. \A i \in alive(c, q) : rmem'[i] = mem'[i]
    BY <1>3, <2>2, <2>3
  <2> QED
    BY <1>1, <1>3, <2>2, <2>4, <2>5 DEF RInv, Lockstep, Text
<1> QED
  BY <1>4, <1>5, <1>6

LEMMA SuspendKeeps == RInv /\ Suspend => RInv'
<1> SUFFICES ASSUME RInv, Suspend
             PROVE  RInv'
  OBVIOUS
<1>1. /\ src # NoCoroutine /\ Lockstep /\ pc \in DOMAIN Text /\ Text[pc].k = "await"
      /\ src' = src /\ pc' = pc /\ mem' = mem /\ rpc' = rpc /\ rmem' = rmem
  BY DEF RInv, Suspend, Executing
<1>2. PICK e \in src.calls :
        /\ e.at = rpc
        /\ state' = [n |-> e.n, vals |-> [x \in DOMAIN e.names |-> rmem[referent(rpc, e.names[x])]]]
  BY DEF Suspend
<1>3. e.at = pc /\ state' = Saved(src.c, e, rmem)
  BY <1>1, <1>2 DEF Lockstep, Saved, ref, referent
<1> QED
  BY <1>1, <1>3 DEF RInv, Lockstep, Text

\* Continued in the same process or in another one: the call is the one that saved.
LEMMA GoOnKeeps ==
  ASSUME RInv, NEW e \in src.calls, e.at = rpc \/ e.n = state.n,
         NEW l \in [Vars(src.c) -> Values], src # NoCoroutine, goOn(e, l)
  PROVE  RInv'
<1> DEFINE c == src.c
<1>1. /\ Lockstep /\ held /\ held' = FALSE /\ pc' = pc + 1 /\ rpc' = e.at + 1
      /\ rmem' = load(e, l) /\ src' = src /\ mem' = mem
  BY DEF RInv, goOn, behind
<1>2. /\ c \in Coroutine /\ Supported(c) /\ CallsOf(c, src.calls) /\ rpc = pc
      /\ pc \in DOMAIN Text /\ Text[pc].k = "await"
      /\ mem \in [Vars(c) -> Values] /\ rmem \in [Vars(c) -> Values]
      /\ \A i \in alive(c, pc) : rmem[i] = mem[i]
  BY <1>1 DEF Lockstep
<1>3. PICK d \in src.calls : d.at = pc /\ state = Saved(c, d, rmem)
  BY <1>1 DEF Lockstep
<1>4. state.n = d.n
  BY <1>3 DEF Saved
<1>5. e = d
  BY <1>2, <1>3, <1>4 DEF CallsOf
<1>6. /\ load(e, l) \in [Vars(c) -> Values]
      /\ \A i \in alive(c, pc) : load(e, l)[i] = rmem[i]
  BY <1>2, <1>3, <1>5, LoadRestores
<1>7. alive(c, pc + 1) \subseteq alive(c, pc)
  BY <1>2, ItemsAre, AliveBehind DEF Text
<1>8. pc + 1 \in 1 .. Len(Text) + 1
  BY <1>2, ItemsAre DEF Text
<1> QED
  BY <1>1, <1>2, <1>3, <1>5, <1>6, <1>7, <1>8 DEF RInv, Lockstep, Text

LEMMA ContinueKeeps == RInv /\ Continue => RInv'
<1> SUFFICES ASSUME RInv, Continue
             PROVE  RInv'
  OBVIOUS
<1>1. PICK e \in src.calls : e.at = rpc /\ goOn(e, rmem)
  BY DEF Continue
<1>2. src # NoCoroutine
  BY <1>1 DEF NoCoroutine
<1>3. rmem \in [Vars(src.c) -> Values]
  BY <1>2 DEF RInv, Lockstep
<1> QED
  BY <1>1, <1>2, <1>3, GoOnKeeps

LEMMA MigrateKeeps == RInv /\ Migrate => RInv'
<1> SUFFICES ASSUME RInv, Migrate
             PROVE  RInv'
  OBVIOUS
<1> DEFINE l == [i \in Vars(src.c) |-> Junk]
<1>1. PICK e \in src.calls : e.n = state.n /\ goOn(e, l)
  BY DEF Migrate
<1>2. src # NoCoroutine
  BY <1>1 DEF NoCoroutine
<1>3. l \in [Vars(src.c) -> Values]
  BY DEF Values
<1> HIDE DEF l
<1> QED
  BY <1>1, <1>2, <1>3, GoOnKeeps

\* What is written is a file of the command line with numbered names.
NumberedNames(es) == \A e \in es : DOMAIN e.names \subseteq Int
OutputsOfFiles ==
  /\ NumberedNames(buffer.ins)
  /\ \A w \in ToSet(written) : NumberedNames(w.text.ins) /\ \E x \in DOMAIN cmd.files : w.of = cmd.files[x]

LEMMA EditsNumbered == TInv => NumberedNames(edits)
<1> SUFFICES ASSUME TInv, NEW c \in DOMAIN file, NEW e \in EditsFor(file, c, stages[c])
             PROVE  DOMAIN e.names \subseteq Int
  BY EditsAre DEF NumberedNames
<1> DEFINE ss == stages[c]
<1>1. Collected(file, matches, c, ss)
  BY DEF TInv, Collecting
<1>2. ss \in Seq(Stage) /\ DOMAIN ss = 1 .. Len(ss)
  BY <1>1 DEF Collected
<1>3. CASE e = PreambleEdit(c, ss)
  BY <1>3 DEF PreambleEdit
<1>4. CASE \E n \in DOMAIN ss : e = CallEdit(file, c, ss, n)
  <2>1. PICK n \in DOMAIN ss : e = CallEdit(file, c, ss, n)
    BY <1>4
  <2>2. ss[n].vars \in Seq(Int)
    BY <1>2, StageIs
  <2>3. DOMAIN e.names = DOMAIN ss[n].vars
    BY <2>1 DEF CallEdit, Names
  <2> QED
    BY <2>2, <2>3
<1> QED
  BY <1>3, <1>4 DEF EditsFor

LEMMA OutputsOfFilesHolds == Spec => []OutputsOfFiles
<1>1. Init => OutputsOfFiles
  BY DEF Init, OutputsOfFiles, NumberedNames, NoBuffer, ToSet
<1>2. ASSUME OutputsOfFiles, TInv, [Next]_vars
      PROVE  OutputsOfFiles'
  <2>1. cmd' = cmd
    BY <1>2 DEF Next, BeginSource, Run, EndSource, Bail, Leave, vars
  <2>2. CASE written' = written /\ buffer' = buffer
    BY <1>2, <2>1, <2>2 DEF OutputsOfFiles
  <2>3. CASE EndSource
    <3> DEFINE w == [of |-> file, text |-> buffer']
    <3>1. /\ AtEnd /\ buffer' = edited(buffer, edits)
          /\ written' = IF buffer' = NoBuffer THEN written ELSE Append(written, w)
      BY <2>3 DEF EndSource
    <3>2. NumberedNames(buffer'.ins)
      BY <3>1, <1>2, EditsNumbered DEF edited, OutputsOfFiles, NumberedNames
    <3>3. \E x \in DOMAIN cmd.files : file = cmd.files[x]
      <4>1. Done \in DOMAIN cmd.files /\ file = cmd.files[Done]
        BY <3>1, <1>2, InputsAre DEF TInv, Queued, AtEnd
      <4> QED
        BY <4>1
    <3>4. w.of = file /\ w.text = buffer'
      OBVIOUS
    <3> HIDE DEF w
    <3>5. ToSet(written') \subseteq ToSet(written) \cup {w}
      <4>1. CASE written' = written
        BY <4>1
      <4>2. CASE written' = Append(written, w)
        <5>1. /\ Len(written') = Len(written) + 1 /\ written'[Len(written) + 1] = w
              /\ \A n \in 1 .. Len(written) : written'[n] = written[n]
              /\ written' \in Seq(ToSet(written')) /\ Len(written) \in Nat
              /\ written \in Seq(ToSet(written))
          BY <4>2, <1>2, AppendedOutput DEF TInv, Wrote
        <5>2. DOMAIN written' = 1 .. Len(written) + 1 /\ DOMAIN written = 1 .. Len(written)
          BY <5>1
        <5>3. \A n \in 1 .. Len(written) + 1 : n \in 1 .. Len(written) \/ n = Len(written) + 1
          BY <5>1
        <5> QED
          BY <5>1, <5>2, <5>3 DEF ToSet
      <4> QED
        BY <4>1, <4>2, <3>1
    <3> QED
      BY <3>2, <3>3, <3>4, <3>5, <2>1, <1>2 DEF OutputsOfFiles
  <2> QED
    BY <1>2, <2>2, <2>3 DEF Next, BeginSource, Run, Bail, Leave, vars
<1> QED
  BY <1>1, <1>2, ToolInvariant, PTL DEF Spec

LEMMA RewrittenUsesTool == RSpec => Spec
<1>1. RInit => Init
  BY DEF RInit
<1>2. [RNext]_all => [Next]_vars
  BY DEF RNext, Call, Step, Executing, Suspend, Continue, Migrate, goOn, all
<1> QED
  BY <1>1, <1>2, PTL DEF RSpec, Spec

\* A coroutine of an output is called.
LEMMA CallKeeps ==
  ASSUME TInv, OutputsOfFiles, Manageable(cmd), OutputsRight, RInv, Call
  PROVE  RInv'
<1>1. /\ src = NoCoroutine /\ ~held /\ held' = held /\ rmem' = mem' /\ pc' = 1 /\ rpc' = 1
  BY DEF Call, RInv
<1>a. PICK w \in ToSet(written) : \E f \in DOMAIN w.of :
        LET c  == w.of[f]
            es == {e \in w.text.ins : e.f = f /\ e.at # 0}
        IN  /\ es # {}
            /\ src' = [c |-> c, calls |-> es]
            /\ \E args \in [{i \in Vars(c) : i <= 0} -> Val] :
                 mem' = [i \in Vars(c) |-> IF i <= 0 THEN args[i] ELSE Junk]
  BY DEF Call
<1>2. PICK f \in DOMAIN w.of :
        LET c  == w.of[f]
            es == {e \in w.text.ins : e.f = f /\ e.at # 0}
        IN  /\ es # {}
            /\ src' = [c |-> c, calls |-> es]
            /\ \E args \in [{i \in Vars(c) : i <= 0} -> Val] :
                 mem' = [i \in Vars(c) |-> IF i <= 0 THEN args[i] ELSE Junk]
  BY <1>a
<1> DEFINE c  == w.of[f]
           es == {e \in w.text.ins : e.f = f}
           calls == {e \in es : e.at # 0}
<1>3. calls = {e \in w.text.ins : e.f = f /\ e.at # 0}
  OBVIOUS
<1>4. calls # {} /\ src' = [c |-> c, calls |-> calls]
  BY <1>2, <1>3
<1>5. mem' \in [Vars(c) -> Values]
  BY <1>2 DEF Values
<1>6. PICK y \in DOMAIN cmd.files : w.of = cmd.files[y]
  BY DEF OutputsOfFiles
<1>7. c \in Coroutine /\ Supported(c)
  <2>1. cmd.files[y] \in SourceFile
    BY <1>6, InputsAre DEF TInv
  <2>2. cmd.files[y] \in Seq(Coroutine)
    BY <2>1 DEF SourceFile
  <2> QED
    BY <2>2, <1>6 DEF Manageable
<1>8. Instrumented(c, es)
  <2>1. PICK x \in DOMAIN written : w = written[x]
    BY DEF ToSet
  <2> QED
    BY <2>1 DEF OutputsRight
<1>9. \A e \in es : DOMAIN e.names \subseteq Int
  BY DEF OutputsOfFiles, NumberedNames
<1> HIDE DEF c, es
<1>10. CallsOf(c, calls)
  BY <1>4, <1>7, <1>8, <1>9, CallsAre
<1> HIDE DEF calls
<1>11. src'.c = c /\ src'.calls = calls
  BY <1>4
<1>12. src' # NoCoroutine
  BY <1>4 DEF NoCoroutine
<1>13. 1 \in 1 .. Len(c.text) + 1
  BY <1>7, ItemsAre
<1>14. Lockstep'
  BY <1>1, <1>5, <1>7, <1>10, <1>11, <1>13 DEF Lockstep, Text
<1> QED
  BY <1>12, <1>14 DEF RInv

-----------------------------------------------------------------------------
(* Theorems *)

\* The stages are of co_awaits and variables of the file that valet is at, and
\* no more outputs are written than there are files.
THEOREM ToolTypeCorrect == Spec => []TypeOK
<1>1. TInv => TypeOK
  <2> SUFFICES ASSUME TInv
               PROVE  TypeOK
    OBVIOUS
  <2>1. \A c \in DOMAIN stages : \A n \in DOMAIN stages[c] :
          /\ stages[c][n].aw \in Awaits(file[c])
          /\ ToSet(stages[c][n].vars) \subseteq Vars(file[c])
    <3> SUFFICES ASSUME NEW c \in DOMAIN file, NEW n \in DOMAIN stages[c]
                 PROVE  /\ stages[c][n].aw \in Awaits(file[c])
                        /\ ToSet(stages[c][n].vars) \subseteq Vars(file[c])
      BY DEF TInv, Collecting
    <3>1. Collected(file, matches, c, stages[c])
      BY DEF TInv, Collecting
    <3>2. StageOK(file, matches, c, stages[c][n])
      BY <3>1 DEF Collected
    <3> QED
      BY <3>2 DEF StageOK, Gathered
  <2>2. \A m \in matches : m.f \in DOMAIN file
    <3> SUFFICES ASSUME NEW m \in matches
                 PROVE  m.f \in DOMAIN file
      OBVIOUS
    <3>1. PICK c \in DOMAIN file : \E k \in Awaits(file[c]), i \in Bound(file[c]) :
                 matched(file[c]) /\ m = Match(c, k, i)
      BY MatchesAre DEF TInv, Collecting
    <3> QED
      BY <3>1 DEF Match
  <2>3. Len(written) <= Len(cmd.files)
    <3>1. Len(written) \in Nat
      BY DEF TInv, Wrote
    <3> QED
      BY <3>1, InputsAre DEF TInv, Wrote
  <2> QED
    BY <2>1, <2>2, <2>3 DEF TypeOK, TInv, Collecting, Queued
<1> QED
  BY <1>1, ToolInvariant, PTL

\* A status of 0 says that every file with something to instrument has an output
\* and, if clang was let report it, that no coroutine was dropped (valet.h:83,
\* 103; valet.cc:47, 51).
THEOREM ExitIsHonest == Spec => []ExitHonest
<1>1. TInv => ExitHonest
  <2> SUFFICES ASSUME TInv, status = 0
               PROVE  /\ \A x \in DOMAIN cmd.files : ToInstrument(cmd.files[x]) =>
                           \E w \in ToSet(written) : w.of = cmd.files[x]
                      /\ cmd.verbose => \A x \in DOMAIN cmd.files : ~Broken(cmd.files[x])
    BY DEF ExitHonest, Broken
  <2>1. todo = <<>> /\ file = NoFile /\ ~failed
    BY DEF TInv, Reported
  <2>2. Done = Len(cmd.files) /\ DOMAIN cmd.files = 1 .. Done
    BY <2>1, InputsAre DEF TInv, Done
  <2>3. \A x \in 1 .. Done : Past(x)
    BY <2>1 DEF Past
  <2>4. \A x \in 1 .. Done : ToInstrument(cmd.files[x]) =>
           \E y \in 1 .. Len(written) : written[y].of = cmd.files[x]
    BY <2>3 DEF TInv, Wrote
  <2>5. \A y \in 1 .. Len(written) : written[y] \in ToSet(written)
    BY DEF TInv, Wrote, ToSet
  <2>6. \A x \in 1 .. Done : cmd.verbose => ~Broken(cmd.files[x])
    BY <2>1 DEF TInv, Reported
  <2> QED
    BY <2>2, <2>4, <2>5, <2>6
<1> QED
  BY <1>1, ToolInvariant, PTL

\* Of a command line of texts that valet handles, which does not bring two files
\* to the one buffer, every output is its file with its own coroutines
\* instrumented (README.md:13; valet.h:66).
THEOREM OutputsAreRight == Spec => [](Manageable(cmd) => OutputsRight)
<1> DEFINE P == Manageable(cmd) => OutputsRight
<1>1. Init => P
  BY DEF Init, OutputsRight
<1>2. ASSUME P, TInv, TInv', [Next]_vars
      PROVE  P'
  <2>1. cmd' = cmd
    BY <1>2 DEF Next, BeginSource, Run, EndSource, Bail, Leave, vars
  <2>2. CASE written' = written
    BY <1>2, <2>1, <2>2 DEF OutputsRight, Manageable
  <2>3. CASE EndSource /\ buffer' # NoBuffer
    <3> SUFFICES ASSUME Manageable(cmd), OutputsRight
                 PROVE  OutputsRight'
      BY <1>2, <2>1 DEF Manageable
    <3> DEFINE w == [of |-> file, text |-> buffer']
    <3>1. /\ AtEnd /\ ~refused /\ file # NoFile /\ buffer' = edited(buffer, edits)
          /\ written' = Append(written, w)
      BY <2>3 DEF EndSource, AtEnd
    <3>2. Done \in 1 .. Len(cmd.files) /\ file = cmd.files[Done] /\ Len(cmd.files) \in Nat
          /\ DOMAIN cmd.files = 1 .. Len(cmd.files)
      BY <1>2, <3>1, InputsAre DEF TInv, Queued
    <3>3. buffer = NoBuffer
      <4> SUFFICES ASSUME buffer # NoBuffer
                   PROVE  FALSE
        OBVIOUS
      <4>1. PICK x \in 1 .. Done :
                   Past(x) /\ ToInstrument(cmd.files[x]) /\ ~HasMacro(cmd.files[x])
        BY <1>2 DEF TInv, Buffered
      <4>2. x < Done /\ x \in DOMAIN cmd.files /\ Done \in DOMAIN cmd.files
        BY <4>1, <3>1, <3>2 DEF Past
      <4>3. HasMacro(file)
        BY <4>1, <4>2, <3>2 DEF Manageable, OneBuffer
      <4> QED
        BY <4>3, <3>1, <1>2, AtTheEnd
    <3>4. w.of = file /\ w.text.base = file /\ w.text.ins = edits
      BY <3>1, <3>3, <2>3 DEF edited, NoBuffer
    <3>5. \A c \in DOMAIN file : Instrumented(file[c], {e \in edits : e.f = c})
      <4> SUFFICES ASSUME NEW c \in DOMAIN file
                   PROVE  Instrumented(file[c], {e \in edits : e.f = c})
        OBVIOUS
      <4>1. Supported(file[c])
        BY <3>2 DEF Manageable
      <4>2. Instrumented(file[c], EditsFor(file, c, stages[c]))
        BY <4>1, <3>1, <1>2, AtTheEnd, CollectedInstruments
      <4> QED
        BY <4>2, EditsOfCoroutine
    <3> HIDE DEF w
    <3>6. /\ DOMAIN written' = 1 .. Len(written) + 1 /\ Len(written) \in Nat
          /\ written'[Len(written) + 1] = w
          /\ \A n \in 1 .. Len(written) : written'[n] = written[n]
          /\ DOMAIN written = 1 .. Len(written)
      BY <3>1, <1>2, AppendedOutput DEF TInv, Wrote
    <3>7. \A x \in DOMAIN written' : x \in DOMAIN written \/ x = Len(written) + 1
      BY <3>6
    <3> DEFINE right(o) == /\ o.text.base = o.of
                           /\ \A c \in DOMAIN o.of :
                                Instrumented(o.of[c], {e \in o.text.ins : e.f = c})
    <3>8. right(w)
      BY <3>4, <3>5
    <3>9. \A x \in DOMAIN written : right(written[x])
      BY DEF OutputsRight
    <3>10. (\A x \in DOMAIN written' : right(written'[x])) => OutputsRight'
      BY DEF OutputsRight
    <3> HIDE DEF right
    <3> QED
      BY <3>6, <3>7, <3>8, <3>9, <3>10
  <2>4. written' = written \/ (EndSource /\ buffer' # NoBuffer)
    BY <1>2 DEF Next, BeginSource, Run, EndSource, Bail, Leave, vars
  <2> QED
    BY <2>2, <2>3, <2>4
<1> HIDE DEF P
<1>3. Spec => []P
  BY <1>1, <1>2, ToolInvariant, PTL DEF Spec
<1> QED
  BY <1>3 DEF P

\* The two runs stay in lockstep.
LEMMA RInvHolds == RSpec => [](Manageable(cmd) => RInv)
<1> DEFINE P == Manageable(cmd) => RInv
           R == Manageable(cmd) => OutputsRight
<1>1. RInit => P
  BY DEF RInit, RInv
<1>2. ASSUME P, R, TInv, OutputsOfFiles, [RNext]_all
      PROVE  P'
  <2>1. cmd' = cmd
    BY <1>2 DEF RNext, Call, Step, Executing, Suspend, Continue, Migrate, goOn, all, vars,
       Next, BeginSource, Run, EndSource, Bail, Leave
  <2> SUFFICES ASSUME Manageable(cmd), RInv, OutputsRight
               PROVE  RInv'
    BY <1>2, <2>1 DEF Manageable
  <2>2. CASE UNCHANGED rvars
    BY <2>2 DEF RInv, Lockstep, Text, rvars
  <2> QED
    BY <1>2, <2>2, CallKeeps, StepKeeps, SuspendKeeps, ContinueKeeps, MigrateKeeps
       DEF RNext, all
<1> HIDE DEF P
<1>3. RSpec => []R
  BY RewrittenUsesTool, OutputsAreRight, PTL
<1> HIDE DEF R
<1>4. RSpec => []P
  BY <1>1, <1>2, <1>3, RewrittenUsesTool, ToolInvariant, OutputsOfFilesHolds, PTL DEF RSpec
<1> QED
  BY <1>4 DEF P

\* Both runs of a coroutine of an output stay in its text and have values for its
\* variables.
THEOREM RunsTypeCorrect == RSpec => [](Manageable(cmd) => RTypeOK)
<1>1. ASSUME RInv
      PROVE  RTypeOK
  <2>1. CASE src = NoCoroutine
    BY <1>1, <2>1 DEF RInv, RTypeOK, Text, NoCoroutine
  <2>2. CASE src # NoCoroutine
    <3>1. Len(Text) \in Nat
      BY <1>1, <2>2, ItemsAre DEF RInv, Lockstep, Text
    <3> QED
      BY <1>1, <2>2, <3>1 DEF RInv, Lockstep, RTypeOK, Values
  <2> QED
    BY <2>1, <2>2
<1> QED
  BY <1>1, RInvHolds, PTL

\* Of a command line of texts that valet handles, a coroutine of an output, brought
\* to another process at any of its co_awaits, as often as one likes, is where the
\* source would be, with the same values in all variables that are alive there,
\* whatever its statements compute (README.md:6, 13; valet.h:162-191).
THEOREM OutputsBehaveAsSources == RSpec => [](Manageable(cmd) => Indistinguishable)
<1>1. RInv => Indistinguishable
  BY DEF RInv, Lockstep, Indistinguishable
<1> QED
  BY <1>1, RInvHolds, PTL
=============================================================================
