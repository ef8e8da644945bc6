---------------------------- MODULE HandleProofs ----------------------------
(***************************************************************************)
(* Ownership of frames for any number of handles and frames.               *)
(***************************************************************************)
EXTENDS Handle, TLAPS

\* Handles only ever hold frames, and frames are in one of their four states
\* (valor.h:30-31).
THEOREM TypeCorrect == Spec => []TypeOK
<1>1. Init => TypeOK
  BY DEF Init, TypeOK
<1>2. TypeOK /\ [Next]_vars => TypeOK'
  <2> SUFFICES ASSUME TypeOK, [Next]_vars PROVE TypeOK'
    OBVIOUS
  <2>1. ASSUME NEW s \in Slot, Default(s) PROVE TypeOK'
    BY <2>1 DEF Default, TypeOK
  <2>2. ASSUME NEW s \in Slot, Call(s) PROVE TypeOK'
    BY <2>2 DEF Call, TypeOK
  <2>3. ASSUME NEW s \in Slot, Dtor(s) PROVE TypeOK'
    BY <2>3 DEF Dtor, TypeOK
  <2>4. ASSUME NEW s \in Slot, Resume(s) PROVE TypeOK'
    BY <2>4 DEF Resume, resumed, TypeOK
  <2>5. ASSUME NEW s \in Slot, ContinueFrom(s) PROVE TypeOK'
    BY <2>5 DEF ContinueFrom, TypeOK
  <2>6. ASSUME NEW s \in Slot, NEW o \in Slot, MoveAssign(s, o) PROVE TypeOK'
    BY <2>6 DEF MoveAssign, move, TypeOK
  <2>7. ASSUME NEW s \in Slot, NEW o \in Slot, MoveCtor(s, o) PROVE TypeOK'
    BY <2>7 DEF MoveCtor, move, TypeOK
  <2>8. ASSUME NEW s \in Slot, NEW o \in Slot, Start(s, o) PROVE TypeOK'
    BY <2>8 DEF Start, resumed, move, TypeOK
  <2>9. CASE UNCHANGED vars
    BY <2>9 DEF vars, TypeOK
  <2> QED
    BY <2>1, <2>2, <2>3, <2>4, <2>5, <2>6, <2>7, <2>8, <2>9 DEF Next
<1> QED
  BY <1>1, <1>2, PTL DEF Spec

-----------------------------------------------------------------------------
\* Resuming changes one frame, from suspended to suspended or done.
LEMMA ResumedKeeps ==
  ASSUME TypeOK, NEW s \in Slot, frame' \in resumed(s), NEW f \in Frame,
         frame[f] \in {"suspended", "done"}
  PROVE  frame'[f] \in {"suspended", "done"}
  BY DEF resumed, TypeOK

\* Every operation either leaves the owner of a frame alone, hands its ownership
\* on with the handle, or destroys the frame.
LEMMA OneOwnerStep ==
  ASSUME StartOwners, TypeOK, OneOwner, [Next]_vars
  PROVE  OneOwner'
<1>1. ASSUME NEW s \in Slot, Default(s) PROVE OneOwner'
  BY <1>1, HandleAssumption DEF Default, TypeOK, OneOwner, owns
<1>2. ASSUME NEW s \in Slot, Call(s) PROVE OneOwner'
  BY <1>2, HandleAssumption DEF Call, TypeOK, OneOwner, owns
<1>3. ASSUME NEW s \in Slot, Dtor(s) PROVE OneOwner'
  BY <1>3, HandleAssumption DEF Dtor, TypeOK, OneOwner, owns
<1>4. ASSUME NEW s \in Slot, Resume(s) PROVE OneOwner'
  BY <1>4, ResumedKeeps, HandleAssumption DEF Resume, TypeOK, OneOwner, owns
<1>5. ASSUME NEW s \in Slot, ContinueFrom(s) PROVE OneOwner'
  BY <1>5, HandleAssumption DEF ContinueFrom, TypeOK, OneOwner, owns
<1>6. ASSUME NEW s \in Slot, NEW o \in Slot, MoveAssign(s, o) PROVE OneOwner'
  BY <1>6, HandleAssumption DEF MoveAssign, move, TypeOK, OneOwner, owns
<1>7. ASSUME NEW s \in Slot, NEW o \in Slot, MoveCtor(s, o) PROVE OneOwner'
  BY <1>7, HandleAssumption DEF MoveCtor, move, TypeOK, OneOwner, owns
<1>8. ASSUME NEW s \in Slot, NEW t \in Slot, Start(s, t) PROVE OneOwner'
  <2>1. /\ owns(s) /\ t \notin live /\ s # t
        /\ live' = live \cup {t}
        /\ handle' = [handle EXCEPT ![t] = handle[s]]
        /\ owner' = [x \in Slot |-> IF x = s THEN FALSE ELSE x = t \/ owner[x]]
    BY <1>8 DEF Start, move, owns, TypeOK
  <2>2. \A f \in Frame : frame[f] \in {"suspended", "done"} => frame'[f] \in {"suspended", "done"}
    BY <1>8, ResumedKeeps DEF Start
  <2> QED
    BY <2>1, <2>2, HandleAssumption DEF TypeOK, OneOwner, owns
<1>9. CASE UNCHANGED vars
  BY <1>9 DEF vars, OneOwner, owns
<1> QED
  BY <1>1, <1>2, <1>3, <1>4, <1>5, <1>6, <1>7, <1>8, <1>9 DEF Next

\* No frame is ever destroyed twice, or under a handle that owns it, as long as
\* start() is only given handles that own (valor.h:37-38, 83, 128).
THEOREM OwnersAreUnique ==
  ASSUME StartOwners
  PROVE  Spec => []OneOwner
<1>1. Init => OneOwner
  BY DEF Init, OneOwner, owns
<1>2. TypeOK /\ OneOwner /\ [Next]_vars => OneOwner'
  BY OneOwnerStep
<1> QED
  BY <1>1, <1>2, TypeCorrect, PTL DEF Spec

-----------------------------------------------------------------------------
\* An owned frame keeps an owner until it is destroyed or its owner is assigned
\* to (valor.h:37-38, 128).
THEOREM FramesAreNotLeaked == Spec => NoLeak
<1> DEFINE Kept == \A f \in Frame : Owned(f) => \/ Owned(f)'
                                                \/ frame'[f] = "destroyed"
                                                \/ Assigned(f)
<1>1. ASSUME TypeOK, [Next]_vars PROVE [Kept]_vars
  <2> SUFFICES ASSUME Next PROVE Kept
    BY <1>1
  <2> SUFFICES ASSUME NEW f \in Frame, NEW u \in Slot, owns(u), handle[u] = f
               PROVE  Owned(f)' \/ frame'[f] = "destroyed" \/ Assigned(f)
    BY DEF Owned
  <2> USE <1>1, HandleAssumption DEF TypeOK, Owned, owns
  <2>1. ASSUME NEW s \in Slot, Default(s) PROVE Owned(f)'
    BY <2>1 DEF Default
  <2>2. ASSUME NEW s \in Slot, Call(s) PROVE Owned(f)'
    BY <2>2 DEF Call
  <2>3. ASSUME NEW s \in Slot, Dtor(s) PROVE Owned(f)' \/ frame'[f] = "destroyed"
    BY <2>3 DEF Dtor
  <2>4. ASSUME NEW s \in Slot, Resume(s) PROVE Owned(f)'
    BY <2>4 DEF Resume
  <2>5. ASSUME NEW s \in Slot, ContinueFrom(s) PROVE Owned(f)'
    BY <2>5 DEF ContinueFrom
  <2>6. ASSUME NEW s \in Slot, NEW o \in Slot, MoveAssign(s, o)
        PROVE  Owned(f)' \/ Assigned(f)
    <3>1. CASE s = u
      BY <2>6, <3>1 DEF Assigned
    <3>2. CASE s # u
      BY <2>6, <3>2 DEF MoveAssign, move
    <3> QED
      BY <3>1, <3>2
  <2>7. ASSUME NEW s \in Slot, NEW o \in Slot, MoveCtor(s, o) PROVE Owned(f)'
    BY <2>7 DEF MoveCtor, move
  <2>8. ASSUME NEW s \in Slot, NEW t \in Slot, Start(s, t) PROVE Owned(f)'
    BY <2>8 DEF Start, move
  <2> QED
    BY <2>1, <2>2, <2>3, <2>4, <2>5, <2>6, <2>7, <2>8 DEF Next
<1>2. []TypeOK /\ [][Next]_vars => [][Kept]_vars
  BY <1>1, PTL
<1> QED
  BY <1>2, TypeCorrect, PTL DEF Spec, NoLeak
=============================================================================
