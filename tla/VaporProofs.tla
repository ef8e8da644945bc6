---------------------------- MODULE VaporProofs -----------------------------
(***************************************************************************)
(* The walk of vapor and what it patches, for any record types and units;  *)
(* and toy.cc's main on top of it.                                         *)
(***************************************************************************)
EXTENDS Toy, SequenceTheorems, TLAPS

Calls == [r : STRING, i : Nat]

\* The walk has been past member j of r, with v visited; past all of them.
Passed(r, j, v)  == fits(Struct[r][j]) /\ (walked(Struct[r][j]) => Struct[r][j].t \in v)
PassedAll(r, v)  == \A j \in 1 .. Len(Struct[r]) : Passed(r, j, v)

\* The calls s of walk_rec(), with v visited and W all that can be: each was made
\* at a member of the one before it, and is past the members in front of the one
\* it is at; a type that has been visited is at work or done with.
Entered(s, k, v) ==
  /\ s[k].r \in v
  /\ s[k].i <= Len(Struct[s[k].r]) + 1
  /\ \A j \in 1 .. s[k].i - 1 : Passed(s[k].r, j, v)
Calling(s, k) ==
  /\ s[k].i \in 1 .. Len(Struct[s[k].r])
  /\ walked(Struct[s[k].r][s[k].i])
  /\ s[k + 1].r = Struct[s[k].r][s[k].i].t

WalkOK(s, v, W) ==
  /\ s \in Seq(Calls)
  /\ \A k \in 1 .. Len(s) : s[k].r \in W
  /\ \A k \in 1 .. Len(s) : s[k].i > 0 => Entered(s, k, v)
  /\ \A k \in 1 .. Len(s) - 1 : Calling(s, k)
  /\ v \subseteq W \cap DOMAIN Struct
  /\ \A r \in v : PassedAll(r, v) \/ \E k \in 1 .. Len(s) : s[k].r = r /\ s[k].i > 0

-----------------------------------------------------------------------------
(* Sequences of calls *)

LEMMA AdvancedCalls ==
  ASSUME NEW s \in Seq(Calls), NEW n \in 1 .. Len(s)
  PROVE  /\ advanced(s, n) \in Seq(Calls) /\ Len(advanced(s, n)) = Len(s)
         /\ \A k \in 1 .. Len(s) : advanced(s, n)[k].r = s[k].r
         /\ \A k \in 1 .. Len(s) : advanced(s, n)[k].i = IF k = n THEN s[k].i + 1 ELSE s[k].i
         /\ \A k \in 1 .. Len(s) : s[k] \in Calls
<1> DEFINE e == [s[n] EXCEPT !.i = @ + 1]
<1>1. \A k \in 1 .. Len(s) : s[k] \in Calls
  BY ElementOfSeq
<1>2. e \in Calls /\ e.r = s[n].r /\ e.i = s[n].i + 1
  BY <1>1 DEF Calls
<1>3. advanced(s, n) = [s EXCEPT ![n] = e]
  BY DEF advanced
<1> HIDE DEF e
<1>4. /\ [s EXCEPT ![n] = e] \in Seq(Calls)
      /\ Len([s EXCEPT ![n] = e]) = Len(s)
      /\ \A j \in 1 .. Len(s) : [s EXCEPT ![n] = e][j] = IF j = n THEN e ELSE s[j]
  BY <1>2, ExceptSeq
<1> QED
  BY <1>1, <1>2, <1>3, <1>4

LEMMA FrontCalls ==
  ASSUME NEW s \in Seq(Calls), s # <<>>
  PROVE  /\ Front(s) \in Seq(Calls) /\ Len(Front(s)) = Len(s) - 1
         /\ \A k \in 1 .. Len(s) - 1 : Front(s)[k] = s[k]
<1>1. Len(s) \in Nat /\ Len(s) - 1 \in Nat
  BY EmptySeq, LenProperties
<1>2. \A k \in 1 .. Len(s) - 1 : s[k] \in Calls
  BY <1>1, ElementOfSeq
<1>3. /\ SubSeq(s, 1, Len(s) - 1) \in Seq(Calls)
      /\ Len(SubSeq(s, 1, Len(s) - 1)) = Len(s) - 1
      /\ \A k \in 1 .. Len(s) - 1 : SubSeq(s, 1, Len(s) - 1)[k] = s[k]
  <2>1. PICK m \in Nat : m = Len(s) - 1
    BY <1>1
  <2>2. /\ SubSeq(s, 1, m) \in Seq(Calls)
        /\ Len(SubSeq(s, 1, m)) = IF 1 <= m THEN m - 1 + 1 ELSE 0
        /\ \A k \in 1 .. m - 1 + 1 : SubSeq(s, 1, m)[k] = s[1 + k - 1]
    BY <1>2, <2>1, SubSeqProperties
  <2>3. Len(SubSeq(s, 1, m)) = m
    BY <2>2
  <2>4. \A k \in 1 .. m : SubSeq(s, 1, m)[k] = s[k]
    BY <2>2
  <2> QED
    BY <2>1, <2>2, <2>3, <2>4
<1> QED
  BY <1>3 DEF Front

\* More that is visited does not undo what was passed.
LEMMA PassedMore ==
  ASSUME NEW r, NEW j, NEW v, NEW w, v \subseteq w, Passed(r, j, v)
  PROVE  Passed(r, j, w)
  BY DEF Passed

LEMMA StructSeq ==
  ASSUME NEW r \in DOMAIN Struct
  PROVE  r \in STRING /\ Struct[r] \in Seq(Member) /\ Len(Struct[r]) \in Nat
         /\ DOMAIN Struct[r] = 1 .. Len(Struct[r])
         /\ \A j \in 1 .. Len(Struct[r]) : Struct[r][j] \in Member
  BY VaporAssumption, LenProperties, ElementOfSeq

-----------------------------------------------------------------------------
(* The walk *)

LEMMA EnterKeeps ==
  ASSUME NEW s, NEW v, NEW W, WalkOK(s, v, W), NEW n, n = Len(s), s # <<>>,
         s[n].i = 0, s[n].r \notin v, s[n].r \in DOMAIN Struct
  PROVE  WalkOK(advanced(s, n), v \cup {s[n].r}, W)
<1> DEFINE t == advanced(s, n)
           w == v \cup {s[n].r}
<1>1. s \in Seq(Calls) /\ n \in 1 .. Len(s) /\ Len(s) \in Nat
  BY EmptySeq, LenProperties DEF WalkOK
<1>2. /\ t \in Seq(Calls) /\ Len(t) = Len(s)
      /\ \A k \in 1 .. Len(s) : t[k].r = s[k].r
      /\ \A k \in 1 .. Len(s) : t[k].i = IF k = n THEN s[k].i + 1 ELSE s[k].i
      /\ \A k \in 1 .. Len(s) : s[k] \in Calls
  BY <1>1, AdvancedCalls
<1> HIDE DEF t
<1>3. \A k \in 1 .. Len(t) : t[k].r \in W
  BY <1>2 DEF WalkOK
<1>4. ASSUME NEW k \in 1 .. Len(t), t[k].i > 0 PROVE Entered(t, k, w)
  <2>1. CASE k = n
    <3>1. t[k].i = 1 /\ t[k].r = s[n].r
      BY <1>1, <1>2, <2>1
    <3> QED
      BY <3>1, StructSeq DEF Entered
  <2>2. CASE k # n
    <3>1. Entered(s, k, v) /\ t[k].r = s[k].r /\ t[k].i = s[k].i
      BY <1>2, <1>4, <2>2 DEF WalkOK
    <3> QED
      BY <3>1, PassedMore DEF Entered
  <2> QED
    BY <2>1, <2>2
<1>5. ASSUME NEW k \in 1 .. Len(t) - 1 PROVE Calling(t, k)
  <2>1. k \in 1 .. Len(s) - 1 /\ k \in 1 .. Len(s) /\ k + 1 \in 1 .. Len(s) /\ k # n
    BY <1>1, <1>2, <1>5
  <2>2. t[k].i = s[k].i /\ t[k].r = s[k].r /\ t[k + 1].r = s[k + 1].r
    BY <1>2, <2>1
  <2> QED
    BY <2>1, <2>2 DEF WalkOK, Calling
<1>6. w \subseteq W \cap DOMAIN Struct
  BY <1>1 DEF WalkOK
<1>7. ASSUME NEW r \in w PROVE PassedAll(r, w) \/ \E k \in 1 .. Len(t) : t[k].r = r /\ t[k].i > 0
  <2>1. CASE r = s[n].r
    <3>1. t[n].r = r /\ t[n].i > 0 /\ n \in 1 .. Len(t)
      BY <1>1, <1>2, <2>1
    <3> QED
      BY <3>1
  <2>2. CASE r \in v /\ PassedAll(r, v)
    BY <2>2, PassedMore DEF PassedAll
  <2>3. ASSUME r \in v, NEW k \in 1 .. Len(s), s[k].r = r, s[k].i > 0
        PROVE  t[k].r = r /\ t[k].i > 0 /\ k \in 1 .. Len(t)
    BY <1>2, <2>3 DEF Calls
  <2> QED
    BY <2>1, <2>2, <2>3 DEF WalkOK
<1> QED
  BY <1>2, <1>3, <1>4, <1>5, <1>6, <1>7 DEF WalkOK, t

\* A type that a member names is below its record.
LEMMA MemberIsBelow ==
  ASSUME NEW r \in DOMAIN Struct, NEW j \in 1 .. Len(Struct[r]), walked(Struct[r][j])
  PROVE  Struct[r][j].t \in STRING /\ Struct[r][j].t \in Below(r)
  BY StructSeq DEF Below, walked, ToSet, Member

LEMMA DescendKeeps ==
  ASSUME NEW s, NEW v, NEW W, WalkOK(s, v, W), \A r \in W : Below(r) \subseteq W,
         NEW n, n = Len(s), s # <<>>, s[n].i > 0, s[n].i \in 1 .. Len(Struct[s[n].r]),
         walked(Struct[s[n].r][s[n].i])
  PROVE  WalkOK(Append(s, call(Struct[s[n].r][s[n].i].t)), v, W)
<1> DEFINE c == call(Struct[s[n].r][s[n].i].t)
           t == Append(s, c)
<1>1. s \in Seq(Calls) /\ n \in 1 .. Len(s) /\ Len(s) \in Nat
  BY EmptySeq, LenProperties DEF WalkOK
<1>2. s[n] \in Calls
  BY <1>1, ElementOfSeq
<1>3. s[n].r \in DOMAIN Struct /\ s[n].r \in W
  BY <1>1, <1>2 DEF WalkOK, Entered
<1>4. c \in Calls /\ c.r = Struct[s[n].r][s[n].i].t /\ c.i = 0 /\ c.r \in W
  BY <1>3, MemberIsBelow DEF call, Calls
<1> HIDE DEF c
<1>5. /\ t \in Seq(Calls) /\ Len(t) = n + 1 /\ t[n + 1] = c
      /\ \A k \in 1 .. n : t[k] = s[k]
  BY <1>1, <1>4, AppendProperties
<1> HIDE DEF t
<1>6. \A k \in 1 .. Len(t) : t[k].r \in W
  BY <1>1, <1>4, <1>5 DEF WalkOK
<1>7. ASSUME NEW k \in 1 .. Len(t), t[k].i > 0 PROVE Entered(t, k, v)
  <2>1. k \in 1 .. n /\ t[k] = s[k]
    BY <1>1, <1>4, <1>5, <1>7
  <2> QED
    BY <1>1, <1>7, <2>1 DEF WalkOK, Entered
<1>8. ASSUME NEW k \in 1 .. Len(t) - 1 PROVE Calling(t, k)
  <2>1. CASE k = n
    <3>1. t[k] = s[n] /\ t[k + 1] = c
      BY <1>1, <1>5, <2>1
    <3> QED
      BY <1>4, <3>1 DEF Calling
  <2>2. CASE k # n
    <3>1. k \in 1 .. Len(s) - 1 /\ t[k] = s[k] /\ t[k + 1] = s[k + 1]
      BY <1>1, <1>5, <1>8, <2>2
    <3> QED
      BY <3>1 DEF WalkOK, Calling
  <2> QED
    BY <2>1, <2>2
<1>9. ASSUME NEW r \in v PROVE PassedAll(r, v) \/ \E k \in 1 .. Len(t) : t[k].r = r /\ t[k].i > 0
  BY <1>1, <1>5 DEF WalkOK
<1>10. v \subseteq W \cap DOMAIN Struct
  BY DEF WalkOK
<1> QED
  BY <1>5, <1>6, <1>7, <1>8, <1>9, <1>10 DEF WalkOK, t, c

LEMMA PassKeeps ==
  ASSUME NEW s, NEW v, NEW W, WalkOK(s, v, W), NEW n, n = Len(s), s # <<>>,
         s[n].i \in 1 .. Len(Struct[s[n].r]), Passed(s[n].r, s[n].i, v)
  PROVE  WalkOK(advanced(s, n), v, W)
<1> DEFINE t == advanced(s, n)
<1>1. s \in Seq(Calls) /\ n \in 1 .. Len(s) /\ Len(s) \in Nat
  BY EmptySeq, LenProperties DEF WalkOK
<1>2. /\ t \in Seq(Calls) /\ Len(t) = Len(s)
      /\ \A k \in 1 .. Len(s) : t[k].r = s[k].r
      /\ \A k \in 1 .. Len(s) : t[k].i = IF k = n THEN s[k].i + 1 ELSE s[k].i
      /\ \A k \in 1 .. Len(s) : s[k] \in Calls
  BY <1>1, AdvancedCalls
<1> HIDE DEF t
<1>3. Entered(s, n, v) /\ s[n].i \in Nat /\ s[n].i > 0
  BY <1>1, <1>2 DEF WalkOK, Calls
<1>4. s[n].r \in DOMAIN Struct /\ Len(Struct[s[n].r]) \in Nat
  BY <1>3, StructSeq DEF WalkOK, Entered
<1>5. \A k \in 1 .. Len(t) : t[k].r \in W
  BY <1>2 DEF WalkOK
<1>6. ASSUME NEW k \in 1 .. Len(t), t[k].i > 0 PROVE Entered(t, k, v)
  <2>1. CASE k = n
    <3>1. t[k].r = s[n].r /\ t[k].i = s[n].i + 1
      BY <1>1, <1>2, <2>1
    <3>2. s[n].i + 1 <= Len(Struct[s[n].r]) + 1
      BY <1>3, <1>4
    <3>3. \A j \in 1 .. s[n].i + 1 - 1 : j = s[n].i \/ j \in 1 .. s[n].i - 1
      BY <1>3
    <3> QED
      BY <1>3, <3>1, <3>2, <3>3 DEF Entered
  <2>2. CASE k # n
    <3>1. t[k].r = s[k].r /\ t[k].i = s[k].i /\ Entered(s, k, v)
      BY <1>2, <1>6, <2>2 DEF WalkOK
    <3> QED
      BY <3>1 DEF Entered
  <2> QED
    BY <2>1, <2>2
<1>7. ASSUME NEW k \in 1 .. Len(t) - 1 PROVE Calling(t, k)
  <2>1. k \in 1 .. Len(s) - 1 /\ k \in 1 .. Len(s) /\ k + 1 \in 1 .. Len(s) /\ k # n
    BY <1>1, <1>2, <1>7
  <2>2. t[k].i = s[k].i /\ t[k].r = s[k].r /\ t[k + 1].r = s[k + 1].r
    BY <1>2, <2>1
  <2> QED
    BY <2>1, <2>2 DEF WalkOK, Calling
<1>8. ASSUME NEW r \in v PROVE PassedAll(r, v) \/ \E k \in 1 .. Len(t) : t[k].r = r /\ t[k].i > 0
  <2>1. ASSUME NEW k \in 1 .. Len(s), s[k].r = r, s[k].i > 0
        PROVE  t[k].r = r /\ t[k].i > 0 /\ k \in 1 .. Len(t)
    BY <1>2, <2>1 DEF Calls
  <2> QED
    BY <2>1 DEF WalkOK
<1>9. v \subseteq W \cap DOMAIN Struct
  BY DEF WalkOK
<1> QED
  BY <1>2, <1>5, <1>6, <1>7, <1>8, <1>9 DEF WalkOK, t

\* The call that returns has been to its type, and with what is below it unless
\* another call is at work there; the call that made it is at a member of this type.
LEMMA ReturnKeeps ==
  ASSUME NEW s, NEW v, NEW W, WalkOK(s, v, W), NEW n, n = Len(s), s # <<>>,
         \/ s[n].i = 0 /\ s[n].r \in v
         \/ s[n].i > 0 /\ s[n].i \notin 1 .. Len(Struct[s[n].r])
  PROVE  /\ WalkOK(Front(s), v, W)
         /\ s[n].r \in v
<1> DEFINE t == Front(s)
<1>1. s \in Seq(Calls) /\ n \in 1 .. Len(s) /\ Len(s) \in Nat
  BY EmptySeq, LenProperties DEF WalkOK
<1>2. t \in Seq(Calls) /\ Len(t) = n - 1 /\ \A k \in 1 .. n - 1 : t[k] = s[k]
  BY <1>1, FrontCalls
<1> HIDE DEF t
<1>3. s[n] \in Calls
  BY <1>1, ElementOfSeq
<1>4. s[n].r \in v /\ s[n].r \in DOMAIN Struct
  BY <1>1 DEF WalkOK, Entered
<1>5. s[n].i > 0 => PassedAll(s[n].r, v)
  <2> SUFFICES ASSUME s[n].i > 0 PROVE PassedAll(s[n].r, v)
    OBVIOUS
  <2>1. Entered(s, n, v)
    BY <1>1 DEF WalkOK
  <2>2. Len(Struct[s[n].r]) \in Nat /\ s[n].i \in Nat
    BY <1>3, <1>4, StructSeq DEF Calls
  <2>3. s[n].i = Len(Struct[s[n].r]) + 1
    BY <2>1, <2>2 DEF Entered
  <2> QED
    BY <2>1, <2>2, <2>3 DEF Entered, PassedAll
<1>6. \A k \in 1 .. Len(t) : k \in 1 .. Len(s) /\ t[k] = s[k]
  BY <1>1, <1>2
<1>7. ASSUME NEW k \in 1 .. Len(t), t[k].i > 0 PROVE Entered(t, k, v)
  BY <1>6, <1>7 DEF WalkOK, Entered
<1>8. ASSUME NEW k \in 1 .. Len(t) - 1 PROVE Calling(t, k)
  <2>1. k \in 1 .. Len(s) - 1 /\ t[k] = s[k] /\ t[k + 1] = s[k + 1]
    BY <1>1, <1>2, <1>8
  <2> QED
    BY <2>1 DEF WalkOK, Calling
<1>9. ASSUME NEW r \in v PROVE PassedAll(r, v) \/ \E k \in 1 .. Len(t) : t[k].r = r /\ t[k].i > 0
  <2>1. ASSUME NEW k \in 1 .. Len(s), s[k].r = r, s[k].i > 0
        PROVE  PassedAll(r, v) \/ (t[k].r = r /\ t[k].i > 0 /\ k \in 1 .. Len(t))
    <3>1. CASE k = n
      <4>1. s[n].i > 0 /\ s[n].r = r
        BY <2>1, <3>1
      <4> QED
        BY <1>5, <4>1
    <3>2. CASE k # n
      BY <1>1, <1>2, <2>1, <3>2
    <3> QED
      BY <3>1, <3>2
  <2> QED
    BY <2>1 DEF WalkOK
<1>10. (\A k \in 1 .. Len(t) : t[k].r \in W) /\ v \subseteq W \cap DOMAIN Struct
  BY <1>6 DEF WalkOK
<1> QED
  BY <1>2, <1>4, <1>7, <1>8, <1>9, <1>10 DEF WalkOK, t

-----------------------------------------------------------------------------
(* The types within a frame, and where its index is *)

LEMMA Leading ==
  ASSUME NEW R, NEW r \in R
  PROVE  Below(r) \subseteq Leads(R)
  BY DEF Leads

LEMMA StructsAreTypes == DOMAIN Struct \cup Leads(DOMAIN Struct) \subseteq Types
<1> DEFINE U == UNION {ToSet(u.funs) \ {NoFrame} : u \in Units}
<1>1. Types = U \cup DOMAIN Struct \cup Leads(DOMAIN Struct)
  BY DEF Types
<1> HIDE DEF U
<1> QED
  BY <1>1

LEMMA WithinCloses ==
  ASSUME NEW u \in Units, NEW F, F = ToSet(u.funs) \ {NoFrame}
  PROVE  F \subseteq Within(F) /\ \A r \in Within(F) : Below(r) \subseteq Within(F)
<1>1. F \subseteq Types
  BY DEF Types
<1>2. F \subseteq Within(F)
  BY <1>1 DEF Within
<1>3. ASSUME NEW r \in Within(F), NEW t \in Below(r) PROVE t \in Within(F)
  <2>1. r \in DOMAIN Struct
    BY <1>3 DEF Below
  <2>2. t \in Types
    <3>1. Below(r) \subseteq Leads(DOMAIN Struct)
      BY <2>1, Leading
    <3> QED
      BY <1>3, <3>1, StructsAreTypes
  <2>3. ASSUME NEW S \in Closed, F \subseteq S PROVE t \in S
    <3>1. r \in S
      BY <1>3, <2>3 DEF Within
    <3>2. Leads(S) \subseteq S
      BY <2>3 DEF Closed
    <3> QED
      BY <1>3, <3>1, <3>2, Leading
  <2> QED
    BY <2>2, <2>3 DEF Within
<1> QED
  BY <1>2, <1>3

LEMMA WithinIsLeast ==
  ASSUME NEW F, NEW S, S \subseteq Types, Leads(S) \subseteq S, F \subseteq S
  PROVE  Within(F) \subseteq S
<1>1. S = S \cup Leads(S)
  OBVIOUS
<1>2. S \in Closed
  BY <1>1 DEF Closed
<1> QED
  BY <1>2 DEF Within

\* A walk that is over has been to all that is within the frames it began at.
LEMMA WalkIsWhole ==
  ASSUME NEW v, NEW F, WalkOK(<<>>, v, Within(F)), F \subseteq v
  PROVE  v = Within(F) /\ v \subseteq DOMAIN Struct /\ \A r \in v : PassedAll(r, v)
<1>1. v \subseteq Within(F) \cap DOMAIN Struct /\ \A r \in v : PassedAll(r, v)
  BY DEF WalkOK
<1>2. ASSUME NEW r \in v, NEW t \in Below(r) PROVE t \in v
  <2>1. r \in DOMAIN Struct
    BY <1>1
  <2>2. PICK j \in 1 .. Len(Struct[r]) : Struct[r][j].k \in {"record", "inner"} /\ t = Struct[r][j].t
    BY <1>2, <2>1, StructSeq DEF Below, ToSet
  <2> QED
    BY <1>1, <2>2 DEF PassedAll, Passed, walked
<1>3. v \subseteq Types
  BY <1>1, StructsAreTypes
<1>4. Leads(v) \subseteq v
  BY <1>2 DEF Leads
<1> QED
  BY <1>1, <1>3, <1>4, WithinIsLeast

LEMMA UInt16IsPositive == UInt16 \in Nat \ {0}
  BY DEF UInt16

LEMMA SmallOnesFit == ASSUME NEW n \in Nat, n < UInt16 PROVE n % UInt16 = n
<1> DEFINE w == UInt16
<1>1. w \in Nat \ {0} /\ n < w
  BY UInt16IsPositive
<1> HIDE DEF w
<1>2. n % w = n
  BY <1>1
<1> QED
  BY <1>2 DEF w

LEMMA WhereTheIndexIs ==
  ASSUME NEW u \in Units, NEW f \in ToSet(u.funs) \cap DOMAIN Struct
  PROVE  \E x \in DOMAIN Struct[f] :
           /\ Named("_Coro_resume_index", f) = {x}
           /\ Struct[f][x].byte \in Nat /\ Struct[f][x].bit \in Nat /\ Struct[f][x].bit % 8 = 0
           /\ coro_member_offset(f) = (Struct[f][x].byte + Struct[f][x].bit \div 8) % UInt16
           /\ coro_member_offset(f) \in Offsets
<1>1. PICK x \in DOMAIN Struct[f] :
        /\ Named("_Coro_resume_index", f) = {x}
        /\ Struct[f][x].k = "field" /\ Struct[f][x].bit % 8 = 0
  BY VaporAssumption
<1>2. x \in 1 .. Len(Struct[f]) /\ x \in Nat /\ x # 0 /\ Struct[f][x] \in Member
  BY StructSeq
<1> DEFINE is(m) == m.k = "field" /\ m.n = "_Coro_resume_index"
           I == {i \in 1 .. Len(Struct[f]) : is(Struct[f][i])}
<1>3. I = {x}
  BY <1>1, <1>2, StructSeq DEF Named
<1>4. Min(I) = x
  BY <1>2, <1>3 DEF Min
<1>5. SelectInSeq(Struct[f], is) = x
  BY <1>3, <1>4 DEF SelectInSeq
<1>6. coro_member_offset(f) = (Struct[f][x].byte + Struct[f][x].bit \div 8) % UInt16
  BY <1>2, <1>5 DEF coro_member_offset
<1>7. Struct[f][x].byte + Struct[f][x].bit \div 8 \in Nat
  BY <1>2 DEF Member
<1>8. \A n \in Nat : n % UInt16 \in Offsets
  BY UInt16IsPositive DEF Offsets
<1> QED
  BY <1>1, <1>2, <1>6, <1>7, <1>8 DEF Member

-----------------------------------------------------------------------------
(* The invariant *)

Coroutines == {f \in 1 .. next - 1 : unit.funs[f] # NoFrame}

\* What the plugin can handle.
Expected  == unit.helpers = [f \in {"seri", "resi"} |-> "expected"]
Supported == Frames # {} => Walkable /\ Expected

Parses == unit \in Units /\ next \in 1 .. Len(unit.funs) + 1
Walks  == WalkOK(stack, visited, Within(Frames))
InFunction ==
  stack # <<>> => ~parsed /\ stack[1].r = unit.funs[next] /\ unit.funs[next] # NoFrame
Finds  == coros = Coroutines /\ \A f \in coros : unit.funs[f] \in visited
OneOffset ==
  offset \in [{"seri", "resi"} -> Offsets] /\ offset["seri"] = offset["resi"]
Patches ==
  /\ once => parsed
  /\ once /\ status # "failed" /\ coros # {} =>
       /\ unit.helpers["seri"] = "expected" /\ unit.helpers["resi"] # "none"
       /\ \E last \in coros : offset["seri"] = coro_member_offset(unit.funs[last])
Ends ==
  /\ status \in {"parsing", "compiled", "failed"}
  /\ status = "compiled" => once /\ ~unit.errors
  /\ status = "failed" => ~Supported \/ unit.errors

VIInv == Parses /\ Walks /\ InFunction /\ Finds /\ OneOffset /\ Patches /\ Ends

LEMMA SameUnit ==
  ASSUME unit' = unit
  PROVE  /\ Frames' = Frames /\ Within(Frames)' = Within(Frames)
         /\ Supported' = Supported
         /\ next' = next => parsed' = parsed /\ Coroutines' = Coroutines
  BY DEF Frames, Within, Supported, Walkable, Expected, parsed, Coroutines

LEMMA OffsetStays ==
  ASSUME VIInv, offset' = offset
  PROVE  OneOffset'
  BY DEF VIInv, OneOffset

LEMMA FunctionsOfUnit ==
  ASSUME Parses
  PROVE  /\ Len(unit.funs) \in Nat /\ next \in Nat /\ next >= 1
         /\ \A f \in 1 .. Len(unit.funs) :
              unit.funs[f] \in STRING /\ (unit.funs[f] # NoFrame => unit.funs[f] \in Frames)
         /\ Frames \subseteq Within(Frames)
         /\ \A r \in Within(Frames) : Below(r) \subseteq Within(Frames)
<1>1. unit \in Units
  BY DEF Parses
<1>2. unit.funs \in Seq(STRING)
  BY <1>1, VaporAssumption
<1> DEFINE fs == unit.funs
<1>3. Len(fs) \in Nat /\ DOMAIN fs = 1 .. Len(fs)
  BY <1>2, LenProperties
<1>4. \A f \in 1 .. Len(fs) : fs[f] \in STRING
  BY <1>2, ElementOfSeq
<1>5. \A f \in 1 .. Len(fs) : fs[f] # NoFrame => fs[f] \in Frames
  BY <1>3 DEF Frames, ToSet
<1>6. Frames \subseteq Within(Frames) /\ \A r \in Within(Frames) : Below(r) \subseteq Within(Frames)
  BY <1>1, WithinCloses DEF Frames
<1>7. next \in Nat /\ next >= 1
  BY <1>3 DEF Parses
<1> QED
  BY <1>3, <1>4, <1>5, <1>6, <1>7

LEMMA TopOfStack ==
  ASSUME VIInv, stack # <<>>
  PROVE  /\ stack \in Seq(Calls) /\ Len(stack) \in Nat /\ Len(stack) \in 1 .. Len(stack)
         /\ top = stack[Len(stack)] /\ top \in Calls /\ top.r \in Within(Frames)
         /\ top.i > 0 => top.r \in DOMAIN Struct
         /\ Frames # {}
         /\ ~parsed /\ ~once
         /\ next \in 1 .. Len(unit.funs)
<1>1. Parses /\ Walks /\ InFunction /\ Patches
  BY DEF VIInv
<1>2. stack \in Seq(Calls)
  BY <1>1 DEF Walks, WalkOK
<1>3. Len(stack) \in Nat /\ Len(stack) \in 1 .. Len(stack)
  BY <1>2, EmptySeq, LenProperties
<1>4. top = stack[Len(stack)] /\ top \in Calls
  BY <1>2, <1>3, ElementOfSeq DEF top, Last
<1>5. top.r \in Within(Frames) /\ (top.i > 0 => top.r \in visited)
  BY <1>1, <1>3, <1>4 DEF Walks, WalkOK, Entered
<1>6. visited \subseteq DOMAIN Struct
  BY <1>1 DEF Walks, WalkOK
<1>7. ~parsed /\ ~once /\ unit.funs[next] # NoFrame
  BY <1>1 DEF InFunction, Patches
<1>8. next \in 1 .. Len(unit.funs)
  BY <1>1, <1>7, FunctionsOfUnit DEF parsed
<1> QED
  BY <1>1, <1>2, <1>3, <1>4, <1>5, <1>6, <1>7, <1>8, FunctionsOfUnit

LEMMA VInitHolds == VInit => VIInv
<1> SUFFICES ASSUME VInit PROVE VIInv
  OBVIOUS
<1>1. unit \in Units /\ next = 1 /\ stack = <<>> /\ visited = {} /\ coros = {} /\ once = FALSE
      /\ offset = [f \in {"seri", "resi"} |-> 3] /\ status = "parsing"
  BY DEF VInit, SourceOffset
<1>2. Len(unit.funs) \in Nat
  BY <1>1, VaporAssumption, LenProperties
<1>3. Parses
  BY <1>1, <1>2 DEF Parses
<1>4. Walks
  BY <1>1 DEF Walks, WalkOK
<1>5. Coroutines = {}
  BY <1>1 DEF Coroutines
<1>6. OneOffset
  <2>1. 3 \in Offsets
    BY DEF Offsets, UInt16
  <2> QED
    BY <1>1, <2>1 DEF OneOffset
<1> QED
  BY <1>1, <1>3, <1>4, <1>5, <1>6 DEF VIInv, InFunction, Finds, Patches, Ends

LEMMA PassHolds ==
  ASSUME VIInv, status = "parsing", stack # <<>>,
         NEW s, NEW n, n = Len(s), s # <<>>, WalkOK(s, visited, Within(Frames)),
         s[1].r = stack[1].r, s[n].i > 0, s[n].i \in 1 .. Len(Struct[s[n].r]),
         walked(Struct[s[n].r][s[n].i]) => Struct[s[n].r][s[n].i].t \in visited, Pass(s)
  PROVE  VIInv'
<1> DEFINE m == Struct[s[n].r][s[n].i]
<1>1. s \in Seq(Calls) /\ Len(s) \in Nat /\ n \in 1 .. Len(s) /\ 1 \in 1 .. Len(s)
  BY EmptySeq, LenProperties DEF WalkOK
<1>2. /\ fits(m) => stack' = advanced(s, n) /\ status' = status
      /\ ~fits(m) => stack' = s /\ status' = "failed"
      /\ unit' = unit /\ next' = next /\ visited' = visited /\ coros' = coros
      /\ once' = once /\ offset' = offset
  BY DEF Pass, Last
<1>3. s[n].r \in Within(Frames) /\ s[n].r \in visited /\ visited \subseteq DOMAIN Struct
  BY <1>1 DEF WalkOK, Entered
<1>4. Walks' /\ stack'[1].r = stack[1].r
  <2>1. CASE fits(m)
    <3>1. WalkOK(advanced(s, n), visited, Within(Frames))
      BY <2>1, PassKeeps DEF Passed
    <3>2. advanced(s, n)[1].r = s[1].r
      BY <1>1, AdvancedCalls
    <3> QED
      BY <1>2, <2>1, <3>1, <3>2, SameUnit DEF Walks
  <2>2. CASE ~fits(m)
    BY <1>2, <2>2, SameUnit DEF Walks
  <2> QED
    BY <2>1, <2>2
<1>5. ~fits(m) => ~Supported
  <2>1. m \in ToSet(Struct[s[n].r])
    BY <1>3, StructSeq DEF ToSet
  <2> QED
    BY <1>3, <2>1, TopOfStack DEF Supported, Walkable
<1>6. Ends'
  BY <1>2, <1>5, SameUnit DEF Ends, VIInv
<1>7. ~once'
  BY <1>2, TopOfStack
<1>8. InFunction'
  BY <1>2, <1>4, SameUnit DEF VIInv, InFunction
<1>9. Parses'
  BY <1>2 DEF VIInv, Parses
<1>10. OneOffset'
  BY <1>2, OffsetStays
<1>11. Finds'
  BY <1>2, SameUnit DEF VIInv, Finds
<1> QED
  BY <1>4, <1>6, <1>7, <1>8, <1>9, <1>10, <1>11 DEF VIInv, Patches

\* A step that does not concern the walk.
LEMMA WalkStays ==
  ASSUME VIInv, unit' = unit, next' = next, stack' = stack, visited' = visited, coros' = coros
  PROVE  Parses' /\ Walks' /\ InFunction' /\ Finds'
<1>1. Parses' /\ Walks'
  BY SameUnit DEF VIInv, Parses, Walks
<1>2. InFunction'
  BY SameUnit DEF VIInv, InFunction
<1>3. Finds'
  BY SameUnit DEF VIInv, Finds
<1> QED
  BY <1>1, <1>2, <1>3

LEMMA CollectKeeps == VIInv /\ CollectCoro => VIInv'
<1> SUFFICES ASSUME VIInv, CollectCoro PROVE VIInv'
  OBVIOUS
<1>1. /\ status = "parsing" /\ stack = <<>> /\ ~parsed
      /\ unit' = unit /\ visited' = visited /\ coros' = coros /\ once' = once
      /\ offset' = offset /\ status' = status
  BY DEF CollectCoro
<1>2. next \in 1 .. Len(unit.funs) /\ next \in Nat /\ Len(unit.funs) \in Nat
  BY <1>1, FunctionsOfUnit DEF VIInv, parsed
<1>3. OneOffset' /\ Ends'
  <2>1. OneOffset'
    BY <1>1, OffsetStays
  <2>2. Ends'
    BY <1>1, SameUnit DEF VIInv, Ends
  <2> QED
    BY <2>1, <2>2
<1>4. Patches'
  BY <1>1 DEF VIInv, Patches
<1>5. CASE unit.funs[next] = NoFrame
  <2>1. next' = next + 1 /\ stack' = <<>>
    BY <1>1, <1>5 DEF CollectCoro
  <2>2. Parses'
    BY <1>1, <1>2, <2>1 DEF VIInv, Parses
  <2>3. Walks' /\ InFunction'
    BY <1>1, <2>1, SameUnit DEF VIInv, Walks, InFunction
  <2>4. Coroutines' = Coroutines
    BY <1>1, <1>2, <1>5, <2>1 DEF Coroutines
  <2>5. Finds'
    BY <1>1, <2>4 DEF VIInv, Finds
  <2> QED
    BY <1>3, <1>4, <2>2, <2>3, <2>5 DEF VIInv
<1>6. CASE unit.funs[next] # NoFrame
  <2> DEFINE c == call(unit.funs[next])
  <2>1. next' = next /\ stack' = <<c>>
    BY <1>1, <1>6 DEF CollectCoro
  <2>2. c \in Calls /\ c.r = unit.funs[next] /\ c.i = 0 /\ c.r \in Within(Frames)
    BY <1>2, <1>6, FunctionsOfUnit DEF call, Calls, VIInv
  <2> HIDE DEF c
  <2>3. WalkOK(<<>>, visited, Within(Frames))
    BY <1>1 DEF VIInv, Walks
  <2>4. <<c>> \in Seq(Calls) /\ Len(<<c>>) = 1 /\ <<c>>[1] = c
    BY <2>2
  <2>5. WalkOK(<<c>>, visited, Within(Frames))
    <3>1. visited \subseteq Within(Frames) \cap DOMAIN Struct /\ \A r \in visited : PassedAll(r, visited)
      BY <2>3 DEF WalkOK
    <3>2. \A k \in 1 .. 1 : k = 1
      OBVIOUS
    <3> QED
      BY <2>2, <2>4, <3>1, <3>2 DEF WalkOK
  <2>6. Walks'
    BY <1>1, <2>1, <2>5, SameUnit DEF Walks
  <2>7. InFunction'
    BY <1>1, <1>6, <2>1, <2>2, <2>4, SameUnit DEF InFunction
  <2>8. Parses' /\ Finds'
    BY <1>1, <2>1, SameUnit DEF VIInv, Parses, Finds
  <2> QED
    BY <1>3, <1>4, <2>6, <2>7, <2>8 DEF VIInv
<1> QED
  BY <1>5, <1>6

LEMMA EnterHolds == VIInv /\ Enter => VIInv'
<1> SUFFICES ASSUME VIInv, Enter PROVE VIInv'
  OBVIOUS
<1>1. /\ status = "parsing" /\ stack # <<>> /\ top.i = 0 /\ top.r \notin visited
      /\ unit' = unit /\ next' = next /\ coros' = coros /\ once' = once /\ offset' = offset
  BY DEF Enter
<1>2. OneOffset' /\ Parses'
  <2>1. OneOffset'
    BY <1>1, OffsetStays
  <2>2. Parses'
    BY <1>1 DEF VIInv, Parses
  <2> QED
    BY <2>1, <2>2
<1>3. Patches'
  BY <1>1, TopOfStack DEF Patches
<1>4. CASE top.r \in DOMAIN Struct
  <2>1. visited' = visited \cup {top.r} /\ stack' = advanced(stack, Len(stack)) /\ status' = status
    BY <1>4 DEF Enter, gcc_assert
  <2>2. WalkOK(stack', visited', Within(Frames))
    BY <1>1, <1>4, <2>1, TopOfStack, EnterKeeps DEF VIInv, Walks
  <2>3. stack'[1].r = stack[1].r
    <3>1. stack \in Seq(Calls) /\ Len(stack) \in 1 .. Len(stack) /\ 1 \in 1 .. Len(stack)
      BY <1>1, TopOfStack
    <3>2. advanced(stack, Len(stack))[1].r = stack[1].r
      BY <3>1, AdvancedCalls
    <3> QED
      BY <2>1, <3>2
  <2>4. Walks'
    BY <1>1, <2>2, SameUnit DEF Walks
  <2>5. InFunction'
    BY <1>1, <2>3, SameUnit DEF VIInv, InFunction
  <2>6. Finds' /\ Ends'
    BY <1>1, <2>1, SameUnit DEF VIInv, Finds, Ends
  <2> QED
    BY <1>2, <1>3, <2>4, <2>5, <2>6 DEF VIInv
<1>5. CASE top.r \notin DOMAIN Struct
  <2>1. visited' = visited /\ stack' = stack /\ status' = "failed"
    BY <1>5 DEF Enter, gcc_assert
  <2>2. ~Supported
    BY <1>1, <1>5, TopOfStack DEF Supported, Walkable
  <2>3. Ends'
    BY <1>1, <2>1, <2>2, SameUnit DEF Ends
  <2> QED
    BY <1>1, <1>2, <1>3, <2>1, <2>3, WalkStays DEF VIInv
<1> QED
  BY <1>4, <1>5

LEMMA DescendHolds == VIInv /\ Descend => VIInv'
<1> SUFFICES ASSUME VIInv, Descend PROVE VIInv'
  OBVIOUS
<1> DEFINE n == Len(stack)
           c == call(Struct[stack[n].r][stack[n].i].t)
<1>1. /\ stack # <<>> /\ top.i > 0 /\ atMember /\ walked(member)
      /\ stack' = Append(stack, call(member.t))
      /\ unit' = unit /\ next' = next /\ visited' = visited /\ coros' = coros
      /\ once' = once /\ offset' = offset /\ status' = status
  BY DEF Descend
<1>2. stack[n].i > 0 /\ stack[n].i \in 1 .. Len(Struct[stack[n].r])
      /\ walked(Struct[stack[n].r][stack[n].i]) /\ stack' = Append(stack, c)
  BY <1>1, TopOfStack DEF atMember, member
<1>3. WalkOK(Append(stack, c), visited, Within(Frames))
  BY <1>1, <1>2, FunctionsOfUnit, DescendKeeps DEF VIInv, Walks
<1>4. stack'[1] = stack[1] /\ stack' # <<>>
  <2>1. stack \in Seq(Calls) /\ c \in Calls /\ n \in Nat /\ 1 \in 1 .. n
    <3>1. stack[n].r \in DOMAIN Struct
      BY <1>1, TopOfStack
    <3>2. c \in Calls
      BY <1>2, <3>1, MemberIsBelow DEF call, Calls
    <3> QED
      BY <1>1, <3>2, TopOfStack
  <2> HIDE DEF c
  <2> QED
    BY <1>2, <2>1, AppendProperties
<1>5. Walks'
  BY <1>1, <1>2, <1>3, SameUnit DEF Walks
<1>6. InFunction'
  BY <1>1, <1>4, SameUnit DEF VIInv, InFunction
<1>7. Parses' /\ Finds' /\ OneOffset'
  <2>1. Parses'
    BY <1>1 DEF VIInv, Parses
  <2>2. Finds'
    BY <1>1, SameUnit DEF VIInv, Finds
  <2>3. OneOffset'
    BY <1>1, OffsetStays
  <2> QED
    BY <2>1, <2>2, <2>3
<1>8. Ends'
  BY <1>1, SameUnit DEF VIInv, Ends
<1>9. Patches'
  BY <1>1, TopOfStack DEF Patches
<1> QED
  BY <1>5, <1>6, <1>7, <1>8, <1>9 DEF VIInv

LEMMA SkipHolds == VIInv /\ Skip => VIInv'
<1> SUFFICES ASSUME VIInv, Skip PROVE VIInv'
  OBVIOUS
<1> DEFINE n == Len(stack)
<1>1. status = "parsing" /\ stack # <<>> /\ top.i > 0 /\ atMember /\ ~walked(member) /\ Pass(stack)
  BY DEF Skip
<1>2. stack[n].i > 0 /\ stack[n].i \in 1 .. Len(Struct[stack[n].r])
      /\ ~walked(Struct[stack[n].r][stack[n].i])
  BY <1>1, TopOfStack DEF atMember, member
<1> QED
  BY <1>1, <1>2, PassHolds DEF VIInv, Walks

LEMMA ReturnHolds == VIInv /\ Return => VIInv'
<1> SUFFICES ASSUME VIInv, Return PROVE VIInv'
  OBVIOUS
<1> DEFINE n == Len(stack)
           s == Front(stack)
           k == n - 1
<1>1. status = "parsing" /\ stack # <<>> /\ (seen \/ done)
  BY DEF Return
<1>2. stack \in Seq(Calls) /\ n \in Nat /\ n \in 1 .. n /\ stack[n] = top
  BY <1>1, TopOfStack
<1>3. /\ WalkOK(s, visited, Within(Frames)) /\ stack[n].r \in visited
  <2>1. \/ stack[n].i = 0 /\ stack[n].r \in visited
        \/ stack[n].i > 0 /\ stack[n].i \notin 1 .. Len(Struct[stack[n].r])
    BY <1>1, <1>2 DEF seen, done, atMember
  <2> QED
    BY <1>1, <2>1, ReturnKeeps DEF VIInv, Walks
<1>4. s \in Seq(Calls) /\ Len(s) = k /\ \A j \in 1 .. k : s[j] = stack[j]
  BY <1>1, <1>2, FrontCalls
<1>5. CASE n > 1
  <2>1. k \in Nat /\ k \in 1 .. n - 1 /\ 1 \in 1 .. k /\ k + 1 = n
    BY <1>2, <1>5
  <2>2. s # <<>> /\ s[1] = stack[1] /\ s[k] = stack[k]
    BY <1>4, <2>1
  <2>3. Calling(stack, k)
    BY <2>1 DEF VIInv, Walks, WalkOK
  <2>4. stack[k].i > 0
    <3>1. stack[k] \in Calls /\ k \in 1 .. n
      BY <1>2, <2>1, ElementOfSeq
    <3>2. stack[k].i # 0
      <4>1. stack[k].i \in 1 .. Len(Struct[stack[k].r])
        BY <2>3 DEF Calling
      <4> QED
        BY <4>1
    <3> QED
      BY <3>1, <3>2 DEF Calls
  <2>5. /\ s[k].i > 0 /\ s[k].i \in 1 .. Len(Struct[s[k].r])
        /\ Struct[s[k].r][s[k].i].t \in visited
    BY <1>3, <2>1, <2>2, <2>3, <2>4 DEF Calling
  <2>6. Pass(s)
    BY <1>5 DEF Return
  <2> QED
    BY <1>1, <1>3, <1>4, <2>2, <2>5, <2>6, PassHolds
<1>6. CASE ~(n > 1)
  <2>1. n = 1 /\ s = <<>>
    BY <1>2, <1>4, <1>6, EmptySeq
  <2>2. /\ stack' = <<>> /\ coros' = coros \cup {next} /\ next' = next + 1
        /\ unit' = unit /\ visited' = visited /\ once' = once /\ offset' = offset /\ status' = status
    BY <1>6 DEF Return
  <2>3. next \in 1 .. Len(unit.funs) /\ Len(unit.funs) \in Nat /\ next \in Nat
    BY <1>1, TopOfStack, FunctionsOfUnit DEF VIInv
  <2>4. Parses'
    BY <2>2, <2>3 DEF VIInv, Parses
  <2>5. Walks' /\ InFunction'
    BY <1>3, <2>1, <2>2, SameUnit DEF Walks, InFunction
  <2>6. unit.funs[next] # NoFrame /\ unit.funs[next] \in visited
    BY <1>1, <1>3, <2>1 DEF VIInv, InFunction
  <2>7. Coroutines' = Coroutines \cup {next}
    BY <2>2, <2>3, <2>6 DEF Coroutines
  <2>8. Finds'
    BY <2>2, <2>6, <2>7 DEF VIInv, Finds
  <2>9. OneOffset'
    BY <2>2, OffsetStays
  <2>10. Patches'
    BY <1>1, <2>2, TopOfStack DEF Patches
  <2>11. Ends'
    BY <2>2, SameUnit DEF VIInv, Ends
  <2> QED
    BY <2>4, <2>5, <2>8, <2>9, <2>10, <2>11 DEF VIInv
<1> QED
  BY <1>5, <1>6

\* When all functions are parsed, the walk has been to what is within the frames.
LEMMA ParsedUnit ==
  ASSUME VIInv, parsed
  PROVE  /\ visited = Within(Frames) /\ visited \subseteq DOMAIN Struct
         /\ \A r \in visited : PassedAll(r, visited)
         /\ coros = {f \in 1 .. Len(unit.funs) : unit.funs[f] # NoFrame}
         /\ coros # {} <=> Frames # {}
         /\ \A f \in coros : unit.funs[f] \in Frames
<1>1. stack = <<>>
  BY DEF VIInv, InFunction
<1>2. Len(unit.funs) \in Nat /\ next = Len(unit.funs) + 1
  BY FunctionsOfUnit DEF VIInv, Parses, parsed
<1>3. coros = {f \in 1 .. Len(unit.funs) : unit.funs[f] # NoFrame}
  BY <1>2 DEF VIInv, Finds, Coroutines
<1>4. \A f \in coros : unit.funs[f] \in Frames
  BY <1>3, FunctionsOfUnit DEF VIInv
<1>5. \A t \in Frames : \E f \in coros : t = unit.funs[f]
  <2>1. unit.funs \in Seq(STRING)
    BY VaporAssumption DEF VIInv, Parses
  <2>2. DOMAIN unit.funs = 1 .. Len(unit.funs)
    BY <2>1, LenProperties
  <2> QED
    BY <1>3, <2>2 DEF Frames, ToSet
<1>6. Frames \subseteq visited
  BY <1>5 DEF VIInv, Finds
<1>7. WalkOK(<<>>, visited, Within(Frames))
  BY <1>1 DEF VIInv, Walks
<1>8. visited = Within(Frames) /\ visited \subseteq DOMAIN Struct
      /\ \A r \in visited : PassedAll(r, visited)
  BY <1>6, <1>7, WalkIsWhole
<1> QED
  BY <1>3, <1>4, <1>5, <1>8

LEMMA GateHolds == VIInv /\ OverrideGate => VIInv'
<1> SUFFICES ASSUME VIInv, OverrideGate PROVE VIInv'
  OBVIOUS
<1>1. /\ status = "parsing" /\ parsed /\ once' = TRUE /\ ~unit.errors /\ patch_seri
      /\ unit' = unit /\ next' = next /\ stack' = stack /\ visited' = visited /\ coros' = coros
  BY DEF OverrideGate
<1>2. parsed'
  BY <1>1, SameUnit
<1>3. DOMAIN offset = {"seri", "resi"}
  BY DEF VIInv, OneOffset
<1>4. CASE coros = {}
  <2>1. offset' = offset /\ status' = status
    BY <1>4, <1>1 DEF patch_seri
  <2>2. OneOffset'
    BY <2>1, OffsetStays
  <2>3. Patches' /\ Ends'
    BY <1>1, <1>2, <1>4, <2>1 DEF Patches, Ends
  <2> QED
    BY <1>1, <2>2, <2>3, WalkStays DEF VIInv
<1>5. ASSUME coros # {}, unit.helpers["seri"] = "expected", unit.helpers["resi"] # "none",
             NEW last \in coros, offset' = patch(coro_member_offset(unit.funs[last])),
             status' = status
      PROVE  VIInv'
  <2> DEFINE o == coro_member_offset(unit.funs[last])
  <2>1. o \in Offsets
    <3>1. unit \in Units
      BY DEF VIInv, Parses
    <3>2. unit.funs[last] \in ToSet(unit.funs) \cap DOMAIN Struct
      BY <1>1, ParsedUnit DEF VIInv, Finds, Frames
    <3> QED
      BY <3>1, <3>2, WhereTheIndexIs
  <2>2. offset' = [f \in {"seri", "resi"} |-> o]
    BY <1>3, <1>5 DEF patch
  <2> HIDE DEF o
  <2>3. OneOffset' /\ offset'["seri"] = o
    BY <2>1, <2>2 DEF OneOffset
  <2>4. Patches'
    BY <1>1, <1>2, <1>3, <1>5, <2>3 DEF Patches, o
  <2>5. Ends'
    BY <1>1, <1>5 DEF Ends
  <2> QED
    BY <1>1, <2>3, <2>4, <2>5, WalkStays DEF VIInv
<1>6. ASSUME coros # {}, NEW f \in DOMAIN offset, unit.helpers[f] # "expected",
             status' = "failed", offset' = offset
      PROVE  VIInv'
  <2>1. ~Supported
    BY <1>1, <1>3, <1>6, ParsedUnit DEF Supported, Expected
  <2>2. OneOffset'
    BY <1>6, OffsetStays
  <2>3. Patches' /\ Ends'
    BY <1>1, <1>2, <1>6, <2>1, SameUnit DEF Patches, Ends
  <2> QED
    BY <1>1, <2>2, <2>3, WalkStays DEF VIInv
<1> QED
  BY <1>1, <1>4, <1>5, <1>6 DEF patch_seri

LEMMA FinishHolds == VIInv /\ Finish => VIInv'
<1> SUFFICES ASSUME VIInv, Finish PROVE VIInv'
  OBVIOUS
<1>1. /\ status = "parsing" /\ (once \/ unit.errors)
      /\ status' = IF unit.errors THEN "failed" ELSE "compiled"
      /\ unit' = unit /\ next' = next /\ stack' = stack /\ visited' = visited /\ coros' = coros
      /\ once' = once /\ offset' = offset
  BY DEF Finish
<1>2. OneOffset'
  BY <1>1, OffsetStays
<1>3. Ends'
  BY <1>1, SameUnit DEF Ends
<1>4. Patches'
  BY <1>1, SameUnit DEF VIInv, Patches
<1> QED
  BY <1>1, <1>2, <1>3, <1>4, WalkStays DEF VIInv

LEMMA StutterHolds == VIInv /\ UNCHANGED vvars => VIInv'
<1> SUFFICES ASSUME VIInv, UNCHANGED vvars PROVE VIInv'
  OBVIOUS
<1>1. /\ unit' = unit /\ next' = next /\ stack' = stack /\ visited' = visited /\ coros' = coros
      /\ once' = once /\ offset' = offset /\ status' = status
  BY DEF vvars
<1>2. OneOffset'
  BY <1>1, OffsetStays
<1>3. Patches'
  BY <1>1, SameUnit DEF VIInv, Patches
<1>4. Ends'
  BY <1>1, SameUnit DEF VIInv, Ends
<1> QED
  BY <1>1, <1>2, <1>3, <1>4, WalkStays DEF VIInv

LEMMA VIInvHolds == VSpec => []VIInv
<1>1. VIInv /\ [VNext]_vvars => VIInv'
  BY CollectKeeps, EnterHolds, DescendHolds, SkipHolds, ReturnHolds, GateHolds, FinishHolds,
     StutterHolds DEF VNext
<1> QED
  BY <1>1, VInitHolds, PTL DEF VSpec

-----------------------------------------------------------------------------
(* The theorems *)

\* The stack of walk_rec(), the coroutines of the map and the offset have their
\* types, and nothing but a record is walked.
THEOREM VTypeCorrect == VSpec => []VTypeOK
<1>1. VIInv => VTypeOK
  <2> SUFFICES ASSUME VIInv PROVE VTypeOK
    OBVIOUS
  <2>1. next \in 1 .. Len(unit.funs) + 1 /\ (stack # <<>> => ~parsed)
    BY DEF VIInv, Parses, InFunction
  <2>2. coros \subseteq 1 .. next - 1
    BY DEF VIInv, Finds, Coroutines
  <2>3. visited \subseteq DOMAIN Struct /\ stack \in Seq(Calls)
    BY DEF VIInv, Walks, WalkOK
  <2>4. \A n \in DOMAIN stack : stack[n].i \in Nat
    <3>1. DOMAIN stack = 1 .. Len(stack)
      BY <2>3, LenProperties
    <3>2. \A n \in 1 .. Len(stack) : stack[n] \in Calls
      BY <2>3, ElementOfSeq
    <3> QED
      BY <3>1, <3>2 DEF Calls
  <2>5. offset \in [{"seri", "resi"} -> Offsets] /\ status \in {"parsing", "compiled", "failed"}
    BY DEF VIInv, OneOffset, Ends
  <2> QED
    BY <2>1, <2>2, <2>3, <2>4, <2>5 DEF VTypeOK
<1> QED
  BY <1>1, VIInvHolds, PTL

\* walk_rec() ends with every type in the frames of the unit's coroutines visited
\* and no other one, however the record types contain each other.
THEOREM WalkIsComplete == VSpec => []Walked
<1>1. VIInv => Walked
  <2> SUFFICES ASSUME VIInv, parsed PROVE Walked
    BY DEF Walked
  <2>1. DOMAIN unit.funs = 1 .. Len(unit.funs)
    BY VaporAssumption, LenProperties DEF VIInv, Parses
  <2> QED
    BY <2>1, ParsedUnit DEF Walked
<1> QED
  BY <1>1, VIInvHolds, PTL

\* A unit is compiled or refused for what it is: never because of the order of its
\* functions or of the path on which the walk came to a type.  Only about a unit
\* with another resi() it leaves open which of both it is (vapor.cc:485).
THEOREM CompilesSupported == VSpec => []CompilesWhatItCan
<1>1. ASSUME VIInv, status = "compiled"
      PROVE  /\ ~unit.errors
             /\ Frames # {} =>
                  Walkable /\ unit.helpers["seri"] = "expected" /\ unit.helpers["resi"] # "none"
  <2>1. once /\ ~unit.errors /\ parsed
    BY <1>1 DEF VIInv, Ends, Patches
  <2>2. /\ Within(Frames) \subseteq DOMAIN Struct
        /\ \A r \in Within(Frames) : PassedAll(r, visited)
        /\ coros # {} <=> Frames # {}
    BY <1>1, <2>1, ParsedUnit
  <2>3. Frames # {} => unit.helpers["seri"] = "expected" /\ unit.helpers["resi"] # "none"
    BY <1>1, <2>1, <2>2 DEF VIInv, Patches
  <2>4. ASSUME NEW t \in Within(Frames), NEW m \in ToSet(Struct[t]) PROVE fits(m)
    <3>1. PICK j \in 1 .. Len(Struct[t]) : m = Struct[t][j]
      BY <2>2, <2>4, StructSeq DEF ToSet
    <3> QED
      BY <2>2, <2>4, <3>1 DEF PassedAll, Passed
  <2> QED
    BY <2>1, <2>2, <2>3, <2>4 DEF Walkable
<1>2. VIInv => CompilesWhatItCan
  BY <1>1 DEF CompilesWhatItCan, VIInv, Ends, Supported, Expected
<1> QED
  BY <1>2, VIInvHolds, PTL

\* The offset of the index is one that coro_member_offset() can return, which is
\* a uint16_t.
IndexFits ==
  \A u \in Units : \A f \in ToSet(u.funs) \cap DOMAIN Struct :
    \A x \in Named("_Coro_resume_index", f) :
      Struct[f][x].byte + Struct[f][x].bit \div 8 < UInt16

LEMMA PatchedHolds == ASSUME IndexFits, VIInv PROVE Patched
<1> SUFFICES ASSUME status = "compiled", Frames # {}
             PROVE  \E f \in Frames : offset["seri"] * 8 \in Index(f)
  BY DEF Patched, VIInv, OneOffset
<1>1. once /\ parsed
  BY DEF VIInv, Ends, Patches
<1>2. PICK last \in coros : offset["seri"] = coro_member_offset(unit.funs[last])
  BY <1>1, ParsedUnit DEF VIInv, Patches
<1> DEFINE f == unit.funs[last]
<1>3. unit \in Units /\ f \in Frames /\ f \in ToSet(unit.funs) \cap DOMAIN Struct
  BY <1>1, ParsedUnit DEF VIInv, Parses, Finds, Frames
<1>4. PICK x \in DOMAIN Struct[f] :
         /\ Named("_Coro_resume_index", f) = {x}
         /\ Struct[f][x].byte \in Nat /\ Struct[f][x].bit \in Nat /\ Struct[f][x].bit % 8 = 0
         /\ coro_member_offset(f) = (Struct[f][x].byte + Struct[f][x].bit \div 8) % UInt16
  BY <1>3, WhereTheIndexIs
<1> DEFINE byte == Struct[f][x].byte
           bit  == Struct[f][x].bit
<1>5. byte + bit \div 8 < UInt16
  BY <1>3, <1>4 DEF IndexFits
<1>6. Struct[f][x].n = "_Coro_resume_index" /\ Struct[f][x] \in ToSet(Struct[f])
  BY <1>4 DEF Named, ToSet
<1>7. byte * 8 + bit \in Index(f)
  BY <1>6 DEF Index
<1> HIDE DEF f, byte, bit
<1>8. byte \in Nat /\ bit \in Nat /\ bit % 8 = 0
  BY <1>4 DEF byte, bit
<1>9. coro_member_offset(f) = byte + bit \div 8
  <2> DEFINE n == byte + bit \div 8
  <2>1. coro_member_offset(f) = n % UInt16 /\ n < UInt16
    BY <1>4, <1>5 DEF byte, bit
  <2>2. n \in Nat
    BY <1>8
  <2> HIDE DEF n
  <2>3. n % UInt16 = n
    BY <2>1, <2>2, SmallOnesFit
  <2> QED
    BY <2>1, <2>3 DEF n
<1>10. coro_member_offset(f) * 8 = byte * 8 + bit
  BY <1>8, <1>9
<1> QED
  BY <1>2, <1>3, <1>7, <1>10 DEF f

\* seri() and a resi() as expected in a compiled unit read and write the same place,
\* and it is the resume index in a coroutine's frame, wherever GCC has put it there.
THEOREM OffsetIsTheIndex == ASSUME IndexFits PROVE VSpec => []Patched
<1>1. VIInv => Patched
  BY PatchedHolds
<1> QED
  BY <1>1, VIInvHolds, PTL

\* main does not write what the plugin has.
LEMMA ToyUsesVapor == Spec => VSpec
<1>1. Init => VInit
  BY DEF Init
<1>2. [Next]_vars => [VNext]_vvars
  BY DEF Next, vars, MainNext, Call, Continue, Seri, Resi, While, Leave, Main
<1> QED
  BY <1>1, <1>2, PTL DEF Spec, VSpec

-----------------------------------------------------------------------------
(* toy.cc's main *)

Texts == {Text[i] : i \in 1 .. End}

\* What g has put out when it is at its nth co_await: from its beginning, or from
\* its first co_await and then on from the one that is saved.
Puts(s, n) == s \in Seq(Texts) /\ Len(s) = n /\ \A i \in 1 .. n : s[i] = Text[i]
Goes(s, n) ==
  s \in Seq(Texts) /\ Len(s) = n - 1 /\ \A i \in 1 .. n - 1 : s[i] = IF i = 1 THEN Text[1] ELSE Text[i + 1]

Calling1(n) == out \in Seq(Seq(Texts)) /\ Len(out) = 1 /\ Puts(out[1], n) /\ index = Idx(n)
Calling2    == out \in Seq(Seq(Texts)) /\ Len(out) = 2 /\ Puts(out[1], 2)

TInv ==
  /\ pc \in {"call", "continue", "seri", "call again", "resi", "while", "returned", "crash"}
  /\ pc = "call" => out = <<>>
  /\ pc # "call" => status = "compiled" /\ G \in Frames
  /\ pc = "continue" => Calling1(1)
  /\ pc \in {"seri", "call again"} => Calling1(2)
  /\ pc \in {"call again", "resi"} /\ SamePlace => stage = Idx(2)
  /\ pc = "resi" => Calling2 /\ Goes(out[2], 2) /\ at = 1
  /\ pc \in {"while", "returned"} /\ SamePlace =>
       /\ Calling2
       /\ \E n \in 2 .. End :
            index = Idx(n) /\ Goes(out[2], n) /\ (at = n \/ (at = 1 /\ n = 2))
  /\ pc = "crash" => ~SamePlace

LEMMA FourInSeq ==
  ASSUME NEW S, NEW a \in S, NEW b \in S, NEW c \in S, NEW d \in S
  PROVE  <<a, b, c, d>> \in Seq(S)
  OBVIOUS

LEMMA TextIs == End = 4 /\ Text \in Seq(Texts) /\ Len(Text) = 4 /\ \A i \in 1 .. 4 : Text[i] \in Texts
<1>1. Text = <<Text[1], Text[2], Text[3], Text[4]>> /\ Len(Text) = 4 /\ End = 4
  BY DEF Text, End
<1>2. \A i \in 1 .. 4 : Text[i] \in Texts
  BY <1>1 DEF Texts
<1>3. Text[1] \in Texts /\ Text[2] \in Texts /\ Text[3] \in Texts /\ Text[4] \in Texts
  BY <1>2
<1>4. <<Text[1], Text[2], Text[3], Text[4]>> \in Seq(Texts)
  BY <1>3, FourInSeq
<1> QED
  BY <1>1, <1>2, <1>4

LEMMA OneInSeq ==
  ASSUME NEW S, NEW a \in S
  PROVE  <<a>> \in Seq(S) /\ Len(<<a>>) = 1 /\ <<a>>[1] = a
  OBVIOUS

LEMMA AppendToNone ==
  ASSUME NEW S, NEW a \in S
  PROVE  Append(<<>>, a) \in Seq(S) /\ Len(Append(<<>>, a)) = 1 /\ Append(<<>>, a)[1] = a
  BY AppendProperties, EmptySeq

LEMMA AppendToOne ==
  ASSUME NEW S, NEW a \in S, NEW s \in Seq(S)
  PROVE  Len(s) = 1 => /\ Append(s, a) \in Seq(S) /\ Len(Append(s, a)) = 2
                       /\ Append(s, a)[1] = s[1] /\ Append(s, a)[2] = a
<1>1. /\ Append(s, a) \in Seq(S) /\ Len(Append(s, a)) = Len(s) + 1
      /\ \A i \in 1 .. Len(s) : Append(s, a)[i] = s[i]
      /\ Append(s, a)[Len(s) + 1] = a
  BY AppendProperties
<1>2. Len(s) = 1 => 1 \in 1 .. Len(s) /\ Len(s) + 1 = 2
  OBVIOUS
<1> QED
  BY <1>1, <1>2

LEMMA PutsMore ==
  ASSUME NEW n \in 0 .. End - 1, NEW s, Puts(s, n)
  PROVE  Puts(Append(s, Text[n + 1]), n + 1)
<1>1. n \in Nat /\ n + 1 \in 1 .. 4 /\ Text[n + 1] \in Texts /\ s \in Seq(Texts) /\ Len(s) = n
  BY TextIs DEF Puts
<1>2. /\ Append(s, Text[n + 1]) \in Seq(Texts) /\ Len(Append(s, Text[n + 1])) = n + 1
      /\ \A i \in 1 .. n : Append(s, Text[n + 1])[i] = s[i]
      /\ Append(s, Text[n + 1])[n + 1] = Text[n + 1]
  BY <1>1, AppendProperties
<1>3. \A i \in 1 .. n + 1 : i \in 1 .. n \/ i = n + 1
  BY <1>1
<1> QED
  BY <1>2, <1>3 DEF Puts

LEMMA GoesMore ==
  ASSUME NEW n \in 2 .. End - 1, NEW s, Goes(s, n)
  PROVE  Goes(Append(s, Text[n + 1]), n + 1)
<1>1. n \in Nat /\ n # 1 /\ n + 1 \in 1 .. 4 /\ Text[n + 1] \in Texts
  BY TextIs
<1>2. s \in Seq(Texts) /\ Len(s) = n - 1 /\ n - 1 + 1 = n /\ n + 1 - 1 = n
  BY <1>1 DEF Goes
<1>3. /\ Append(s, Text[n + 1]) \in Seq(Texts) /\ Len(Append(s, Text[n + 1])) = n
      /\ \A i \in 1 .. n - 1 : Append(s, Text[n + 1])[i] = s[i]
      /\ Append(s, Text[n + 1])[n] = Text[n + 1]
  BY <1>1, <1>2, AppendProperties
<1>4. \A i \in 1 .. n : i \in 1 .. n - 1 \/ i = n
  BY <1>1
<1> QED
  BY <1>1, <1>2, <1>3, <1>4 DEF Goes

LEMMA PutsFirst == <<Text[1]>> \in Seq(Texts) /\ Puts(<<Text[1]>>, 1)
<1>1. <<Text[1]>> \in Seq(Texts) /\ Len(<<Text[1]>>) = 1 /\ <<Text[1]>>[1] = Text[1]
  <2>1. 1 \in 1 .. 4
    OBVIOUS
  <2> QED
    BY <2>1, OneInSeq, TextIs
<1>2. \A i \in 1 .. 1 : i = 1
  OBVIOUS
<1> QED
  BY <1>1, <1>2 DEF Puts

LEMMA GoesFromPuts ==
  ASSUME NEW s, Puts(s, 1)
  PROVE  Goes(s, 2)
  BY DEF Puts, Goes

\* Both outputs, without the co_await #1 of the second, are one of g's.
LEMMA OutputsJoin ==
  ASSUME NEW n \in 2 .. End, NEW s, NEW t, Puts(s, 2), Goes(t, n)
  PROVE  IsPrefix(s \o Tail(t), Text)
<1> DEFINE u == s \o Tail(t)
<1>1. n \in Nat /\ n >= 2 /\ n <= 4
  BY TextIs
<1>2. s \in Seq(Texts) /\ Len(s) = 2 /\ t \in Seq(Texts) /\ Len(t) = n - 1 /\ t # <<>>
  BY <1>1 DEF Puts, Goes
<1>3. Tail(t) \in Seq(Texts) /\ Len(Tail(t)) = n - 2 /\ \A i \in 1 .. n - 2 : Tail(t)[i] = t[i + 1]
  BY <1>1, <1>2, HeadTailProperties
<1>4. /\ u \in Seq(Texts) /\ Len(u) = n
      /\ \A i \in 1 .. n : u[i] = IF i <= 2 THEN s[i] ELSE Tail(t)[i - 2]
  <2>1. /\ u \in Seq(Texts) /\ Len(u) = Len(s) + Len(Tail(t))
        /\ \A i \in 1 .. Len(s) + Len(Tail(t)) :
             u[i] = IF i <= Len(s) THEN s[i] ELSE Tail(t)[i - Len(s)]
    BY <1>2, <1>3, ConcatProperties
  <2>2. Len(s) + Len(Tail(t)) = n
    BY <1>1, <1>2, <1>3
  <2> HIDE DEF u
  <2> QED
    BY <1>2, <2>1, <2>2
<1> HIDE DEF u
<1>5. ASSUME NEW i \in 1 .. n PROVE u[i] = Text[i]
  <2>1. CASE i <= 2
    BY <1>1, <1>4, <2>1 DEF Puts
  <2>2. CASE i > 2
    <3>1. i - 2 \in 1 .. n - 2 /\ i - 2 + 1 = i - 1 /\ i - 1 \in 1 .. n - 1 /\ i - 1 # 1 /\ i - 1 + 1 = i
      BY <1>1, <2>2
    <3>2. u[i] = t[i - 1]
      BY <1>3, <1>4, <2>2, <3>1
    <3> QED
      BY <3>1, <3>2 DEF Goes
  <2> QED
    BY <2>1, <2>2
<1>6. \A i \in 1 .. n : u[i] \in Texts /\ Text[i] \in Texts
  BY <1>1, <1>5, TextIs
<1> DEFINE a == SubSeq(u, 1, n)
           b == SubSeq(Text, 1, n)
<1>7. /\ a \in Seq(Texts) /\ Len(a) = (IF 1 <= n THEN n - 1 + 1 ELSE 0)
      /\ \A i \in 1 .. n - 1 + 1 : a[i] = u[1 + i - 1]
  BY <1>1, <1>6, SubSeqProperties
<1>8. /\ b \in Seq(Texts) /\ Len(b) = (IF 1 <= n THEN n - 1 + 1 ELSE 0)
      /\ \A i \in 1 .. n - 1 + 1 : b[i] = Text[1 + i - 1]
  BY <1>1, <1>6, SubSeqProperties
<1> HIDE DEF a, b
<1>9. Len(a) = n /\ Len(b) = n /\ \A i \in 1 .. n : a[i] = u[i] /\ b[i] = Text[i]
  BY <1>1, <1>7, <1>8
<1>10. a = b
  BY <1>5, <1>7, <1>8, <1>9, SeqEqual
<1> QED
  BY <1>1, <1>4, <1>10, TextIs DEF IsPrefix, a, b, u

\* The last call's output gets another text.
LEMMA OutputGrows ==
  ASSUME NEW o \in Seq(Seq(Texts)), o # <<>>, NEW t \in Texts,
         NEW p, p = [o EXCEPT ![Len(o)] = Append(@, t)]
  PROVE  /\ p \in Seq(Seq(Texts)) /\ Len(p) = Len(o)
         /\ p[Len(o)] = Append(o[Len(o)], t)
         /\ \A j \in 1 .. Len(o) - 1 : p[j] = o[j]
<1> DEFINE e == Append(o[Len(o)], t)
<1>1. Len(o) \in Nat /\ Len(o) \in 1 .. Len(o)
  BY EmptySeq, LenProperties
<1>2. o[Len(o)] \in Seq(Texts)
  BY <1>1, ElementOfSeq
<1>3. e \in Seq(Texts) /\ p = [o EXCEPT ![Len(o)] = e]
  BY <1>2, AppendProperties
<1> HIDE DEF e
<1>4. /\ [o EXCEPT ![Len(o)] = e] \in Seq(Seq(Texts)) /\ Len([o EXCEPT ![Len(o)] = e]) = Len(o)
      /\ \A j \in 1 .. Len(o) : [o EXCEPT ![Len(o)] = e][j] = IF j = Len(o) THEN e ELSE o[j]
  BY <1>1, <1>3, ExceptSeq
<1>5. \A j \in 1 .. Len(o) - 1 : j \in 1 .. Len(o) /\ j # Len(o)
  BY <1>1
<1>6. p[Len(o)] = e
  BY <1>1, <1>3, <1>4
<1>7. \A j \in 1 .. Len(o) - 1 : p[j] = o[j]
  BY <1>3, <1>4, <1>5
<1> QED
  BY <1>3, <1>4, <1>6, <1>7 DEF e

\* With the index where seri() and resi() are patched to.
LEMMA OffsetIsIndex ==
  ASSUME IndexFits, VIInv, status = "compiled", G \in Frames, SamePlace
  PROVE  Place(offset["seri"]) = "index" /\ Place(offset["resi"]) = "index"
<1>1. offset["seri"] = offset["resi"] /\ \E f \in Frames : offset["seri"] * 8 \in Index(f)
  BY PatchedHolds DEF Patched, SamePlace
<1>2. offset["seri"] * 8 \in Index(G)
  BY <1>1 DEF SamePlace
<1>3. once /\ parsed /\ unit \in Units
  BY DEF VIInv, Parses, Ends, Patches
<1>4. G \in ToSet(unit.funs) \cap DOMAIN Struct
  BY <1>3, ParsedUnit, FunctionsOfUnit DEF VIInv, Frames
<1>5. PICK x \in DOMAIN Struct[G] : Named("_Coro_resume_index", G) = {x}
  BY <1>3, <1>4, WhereTheIndexIs
<1>6. Index(G) = {Struct[G][x].byte * 8 + Struct[G][x].bit}
  <2>1. {m \in ToSet(Struct[G]) : m.n = "_Coro_resume_index"} = {Struct[G][x]}
    BY <1>5 DEF Named, ToSet
  <2> QED
    BY <2>1 DEF Index
<1>7. {offset["seri"] * 8} = Index(G)
  BY <1>2, <1>6
<1> QED
  BY <1>1, <1>7 DEF Place

LEMMA TInitHolds == Init => TInv
  BY DEF Init, TInv

LEMMA VaporKeepsT == TInv /\ VNext /\ UNCHANGED tvars => TInv'
<1> SUFFICES ASSUME TInv, VNext, UNCHANGED tvars PROVE TInv'
  OBVIOUS
<1>1. status = "parsing"
  BY DEF VNext, CollectCoro, Enter, Descend, Skip, Return, OverrideGate, Finish
<1>2. pc = "call"
  BY <1>1 DEF TInv
<1> QED
  BY <1>2 DEF TInv, tvars

\* Where main is leaves open what is compiled.
LEMMA MainRuns ==
  ASSUME NEW l, Main(l)
  PROVE  /\ pc = l /\ status = "compiled" /\ G \in Frames /\ status' = status /\ Frames' = Frames
         /\ offset' = offset /\ (SamePlace' <=> SamePlace)
  BY DEF Main, vvars, Frames, SamePlace

LEMMA CallKeepsT == TInv /\ Call => TInv'
<1> SUFFICES ASSUME TInv, NEW l \in {"call", "call again"}, Main(l), stage' = stage,
                    out' = Append(out, <<Text[1]>>), at' = 1, index' = Idx(1),
                    pc' = IF l = "call" THEN "continue" ELSE "resi"
             PROVE  TInv'
  BY DEF Call
<1> DEFINE g == <<Text[1]>>
<1>1. g \in Seq(Texts) /\ Puts(g, 1)
  BY PutsFirst
<1>0. out' = Append(out, g)
  OBVIOUS
<1> HIDE DEF g
<1>2. CASE l = "call"
  <2>1. out = <<>> /\ out \in Seq(Seq(Texts))
    BY <1>2, MainRuns, EmptySeq DEF TInv
  <2>2. out' \in Seq(Seq(Texts)) /\ Len(out') = 1 /\ out'[1] = g
    BY <1>0, <1>1, <2>1, AppendToNone
  <2>3. Calling1(1)'
    BY <1>1, <2>2 DEF Calling1
  <2> QED
    BY <1>2, <2>3, MainRuns DEF TInv
<1>3. CASE l = "call again"
  <2>1. out \in Seq(Seq(Texts)) /\ Len(out) = 1 /\ Puts(out[1], 2)
    BY <1>3, MainRuns DEF TInv, Calling1
  <2>2. out' \in Seq(Seq(Texts)) /\ Len(out') = 2 /\ out'[1] = out[1] /\ out'[2] = g
    <3>1. /\ Append(out, g) \in Seq(Seq(Texts)) /\ Len(Append(out, g)) = 2
          /\ Append(out, g)[1] = out[1] /\ Append(out, g)[2] = g
      BY <1>1, <2>1, AppendToOne
    <3> QED
      BY <1>0, <3>1
  <2>3. Calling2' /\ Goes(out'[2], 2)
    BY <1>1, <2>1, <2>2, GoesFromPuts DEF Calling2
  <2>4. SamePlace => stage = Idx(2)
    BY <1>3, MainRuns DEF TInv
  <2> QED
    BY <1>3, <2>3, <2>4, MainRuns DEF TInv
<1> QED
  BY <1>2, <1>3

LEMMA GoesOn ==
  ASSUME NEW n \in 0 .. End - 1, index = Idx(n), NEW to, goOn(to)
  PROVE  /\ at' = n + 1 /\ index' = Idx(n + 1) /\ pc' = to
         /\ out' = [out EXCEPT ![Len(out)] = Append(@, Text[n + 1])]
         /\ Text[n + 1] \in Texts
<1>1. n \in Nat /\ n + 1 \in 1 .. 4
  BY TextIs
<1>2. (index - 2) \div 2 = n
  BY <1>1 DEF Idx
<1>3. resume((index - 2) \div 2, to)
  BY DEF goOn
<1> QED
  BY <1>1, <1>2, <1>3, TextIs DEF resume

LEMMA ContinueKeepsT == TInv /\ Continue => TInv'
<1> SUFFICES ASSUME TInv, Main("continue"), goOn("seri") PROVE TInv'
  BY DEF Continue
<1>1. Calling1(1)
  BY MainRuns DEF TInv
<1>2. 1 \in 0 .. End - 1 /\ 1 + 1 = 2
  BY TextIs
<1>3. /\ index' = Idx(2) /\ pc' = "seri"
      /\ out' = [out EXCEPT ![Len(out)] = Append(@, Text[2])] /\ Text[2] \in Texts
  BY <1>1, <1>2, GoesOn DEF Calling1
<1>4. out \in Seq(Seq(Texts)) /\ out # <<>> /\ Len(out) = 1 /\ Puts(out[1], 1)
  BY <1>1, EmptySeq DEF Calling1
<1>5. out' \in Seq(Seq(Texts)) /\ Len(out') = 1 /\ out'[1] = Append(out[1], Text[2])
  BY <1>3, <1>4, OutputGrows
<1>6. Puts(out'[1], 2)
  BY <1>2, <1>4, <1>5, PutsMore
<1>7. Calling1(2)'
  BY <1>3, <1>5, <1>6 DEF Calling1
<1> QED
  BY <1>3, <1>7, MainRuns DEF TInv

LEMMA SeriKeepsT == ASSUME IndexFits, VIInv, TInv, Seri PROVE TInv'
<1>1. Main("seri") /\ stage' \in seri /\ pc' = "call again" /\ index' = index /\ out' = out
  BY DEF Seri
<1>2. Calling1(2) /\ status = "compiled" /\ G \in Frames
  BY <1>1, MainRuns DEF TInv
<1>3. SamePlace => stage' = Idx(2)
  BY <1>1, <1>2, OffsetIsIndex DEF seri, Calling1
<1>4. Calling1(2)'
  BY <1>1, <1>2 DEF Calling1
<1> QED
  BY <1>1, <1>3, <1>4, MainRuns DEF TInv

LEMMA ResiKeepsT == ASSUME IndexFits, VIInv, TInv, Resi PROVE TInv'
<1>1. /\ Main("resi") /\ at' = at /\ out' = out /\ stage' = stage
      /\ \E place \in resi : /\ pc' = IF place = "code" THEN "crash" ELSE "while"
                             /\ index' = IF place = "index" THEN stage ELSE index
  BY DEF Resi
<1>2. /\ Calling2 /\ Goes(out[2], 2) /\ at = 1 /\ (SamePlace => stage = Idx(2))
      /\ status = "compiled" /\ G \in Frames
  BY <1>1, MainRuns DEF TInv
<1>3. SamePlace => pc' = "while" /\ index' = Idx(2)
  BY <1>1, <1>2, OffsetIsIndex DEF resi, SamePlace
<1>4. Calling2'
  BY <1>1, <1>2 DEF Calling2
<1>5. 2 \in 2 .. End
  BY TextIs
<1> QED
  BY <1>1, <1>2, <1>3, <1>4, <1>5, MainRuns DEF TInv

LEMMA WhileKeepsT == TInv /\ While => TInv'
<1> SUFFICES ASSUME TInv, at # End, Main("while"), goOn("while") PROVE TInv'
  BY DEF While
<1>1. pc' \in {"while", "crash"}
  BY DEF goOn, resume
<1>2. CASE ~SamePlace
  BY <1>1, <1>2, MainRuns DEF TInv
<1>3. CASE SamePlace
  <2>1. Calling2 /\ \E n \in 2 .. End :
          index = Idx(n) /\ Goes(out[2], n) /\ (at = n \/ (at = 1 /\ n = 2))
    BY <1>3, MainRuns DEF TInv
  <2>2. PICK n \in 2 .. End :
          index = Idx(n) /\ Goes(out[2], n) /\ (at = n \/ (at = 1 /\ n = 2))
    BY <2>1
  <2>3. n \in 2 .. End - 1 /\ n \in 0 .. End - 1 /\ n + 1 \in 2 .. End
    BY <2>2, TextIs
  <2>4. /\ at' = n + 1 /\ index' = Idx(n + 1) /\ pc' = "while"
        /\ out' = [out EXCEPT ![Len(out)] = Append(@, Text[n + 1])] /\ Text[n + 1] \in Texts
    BY <2>2, <2>3, GoesOn
  <2>5. out \in Seq(Seq(Texts)) /\ out # <<>> /\ Len(out) = 2 /\ Puts(out[1], 2)
    BY <2>1, EmptySeq DEF Calling2
  <2>6. 1 \in 1 .. 2 - 1
    OBVIOUS
  <2>7. /\ out' \in Seq(Seq(Texts)) /\ Len(out') = 2 /\ out'[2] = Append(out[2], Text[n + 1])
        /\ out'[1] = out[1]
    <3> DEFINE t == Text[n + 1]
               p == [out EXCEPT ![Len(out)] = Append(@, t)]
    <3>1. t \in Texts /\ out \in Seq(Seq(Texts)) /\ out # <<>>
      BY <2>4, <2>5
    <3>2. out' = p
      BY <2>4
    <3> HIDE DEF t
    <3>3. /\ p \in Seq(Seq(Texts)) /\ Len(p) = Len(out)
          /\ p[Len(out)] = Append(out[Len(out)], t)
          /\ \A j \in 1 .. Len(out) - 1 : p[j] = out[j]
      BY <3>1, OutputGrows
    <3> HIDE DEF p
    <3> QED
      BY <2>5, <2>6, <3>2, <3>3 DEF t
  <2>8. Goes(out'[2], n + 1)
    BY <2>2, <2>3, <2>7, GoesMore
  <2>9. Calling2'
    BY <2>5, <2>7 DEF Calling2
  <2> QED
    BY <2>3, <2>4, <2>8, <2>9, MainRuns DEF TInv
<1> QED
  BY <1>2, <1>3

LEMMA LeaveKeepsT == TInv /\ Leave => TInv'
<1> SUFFICES ASSUME TInv, Main("while"), pc' = "returned",
                    at' = at, index' = index, out' = out, stage' = stage
             PROVE  TInv'
  BY DEF Leave
<1>1. Calling2' <=> Calling2
  BY DEF Calling2
<1> QED
  BY <1>1, MainRuns DEF TInv

LEMMA StutterKeepsT == TInv /\ UNCHANGED vars => TInv'
<1> SUFFICES ASSUME TInv, UNCHANGED vvars, UNCHANGED tvars PROVE TInv'
  BY DEF vars
<1>1. /\ pc' = pc /\ at' = at /\ index' = index /\ out' = out /\ stage' = stage
      /\ status' = status /\ unit' = unit
  BY DEF vvars, tvars
<1>2. (SamePlace' <=> SamePlace) /\ Frames' = Frames
  BY <1>1 DEF SamePlace, Frames
<1>3. (Calling1(1)' <=> Calling1(1)) /\ (Calling1(2)' <=> Calling1(2)) /\ (Calling2' <=> Calling2)
  BY <1>1 DEF Calling1, Calling2
<1> QED
  BY <1>1, <1>2, <1>3 DEF TInv

LEMMA TInvHolds == ASSUME IndexFits PROVE Spec => []TInv
<1>1. VIInv /\ TInv /\ [Next]_vars => TInv'
  BY CallKeepsT, ContinueKeepsT, SeriKeepsT, ResiKeepsT, WhileKeepsT, LeaveKeepsT, VaporKeepsT,
     StutterKeepsT DEF Next, MainNext
<1> QED
  BY <1>1, TInitHolds, ToyUsesVapor, VIInvHolds, PTL DEF Spec

\* Whatever the unit has beside g and wherever GCC puts the index of its frames, as
\* long as it is the same place in each of them: main continues g where it was, or
\* there is no main.
THEOREM MainContinues == ASSUME IndexFits PROVE Spec => []ContinuesFromSaved
<1>1. TInv => ContinuesFromSaved
  <2> SUFFICES ASSUME TInv, pc \in {"while", "returned", "crash"}, SamePlace
               PROVE  pc # "crash" /\ IsPrefix(out[1] \o Tail(out[2]), Text)
    BY DEF ContinuesFromSaved
  <2>1. pc # "crash"
    BY DEF TInv
  <2>2. Calling2 /\ \E n \in 2 .. End : Goes(out[2], n)
    BY <2>1 DEF TInv
  <2> QED
    BY <2>1, <2>2, OutputsJoin DEF Calling2
<1> QED
  BY <1>1, TInvHolds, PTL
=============================================================================
