------------------------------- MODULE Handle -------------------------------
(***************************************************************************)
(* Who destroys a coroutine frame: the ser_ctx objects of valor.h:27-58    *)
(* with their raw coroutine handle and owner flag, start() and             *)
(* continue_from().                                                        *)
(***************************************************************************)
CONSTANTS
  Slot,       \* places for ser_ctx objects
  Frame,      \* coroutine frames
  Null,       \* the empty coroutine_handle
  StartOwners \* client rule: start() is only given handles that own

ASSUME HandleAssumption == Null \notin Frame /\ StartOwners \in BOOLEAN

VARIABLES
  live,   \* constructed ser_ctx objects
  handle,
  owner,
  frame   \* "unborn", "suspended" (initially or at a co_await), "done", "destroyed"

vars == <<live, handle, owner, frame>>

Init ==
  /\ live   = {}
  /\ handle = [s \in Slot |-> Null]
  /\ owner  = [s \in Slot |-> FALSE]
  /\ frame  = [f \in Frame |-> "unborn"]

\* ser_ctx() = default: owner is indeterminate.
Default(s) ==
  /\ s \notin live
  /\ live' = live \cup {s}
  /\ handle' = [handle EXCEPT ![s] = Null]
  /\ \E b \in BOOLEAN : owner' = [owner EXCEPT ![s] = b]
  /\ UNCHANGED frame

\* get_return_object(): a new frame and the handle that owns it.
Call(s) ==
  /\ s \notin live
  /\ \E f \in Frame :
       /\ frame[f] = "unborn"
       /\ frame' = [frame EXCEPT ![f] = "suspended"]
       /\ handle' = [handle EXCEPT ![s] = f]
  /\ live' = live \cup {s}
  /\ owner' = [owner EXCEPT ![s] = TRUE]

\* Defects: the other object remains an owner; the ownership is lost.
move_shares(own, s, o) == [x \in Slot |-> IF x = s THEN own[o] ELSE own[x]]
move_loses(own, s, o)  == [x \in Slot |-> IF x \in {s, o} THEN FALSE ELSE own[x]]

\* operator=(ser_ctx&&): owner is reset, then swapped with the other's; an
\* object that is assigned to itself loses it.
move(own, s, o) == [x \in Slot |-> IF x = o THEN FALSE
                                    ELSE IF x = s THEN own[o] ELSE own[x]]

MoveAssign(s, o) ==
  /\ {s, o} \subseteq live
  /\ handle' = [handle EXCEPT ![s] = handle[o]]
  /\ owner'  = move(owner, s, o)
  /\ UNCHANGED <<live, frame>>

MoveCtor(s, o) ==
  /\ s \notin live
  /\ o \in live
  /\ live'   = live \cup {s}
  /\ handle' = [handle EXCEPT ![s] = handle[o]]
  /\ owner'  = move(owner, s, o)
  /\ UNCHANGED frame

owns(s) == s \in live /\ owner[s] /\ handle[s] # Null

Dtor(s) ==
  /\ s \in live
  /\ live'  = live \ {s}
  /\ frame' = IF owns(s) THEN [frame EXCEPT ![handle[s]] = "destroyed"] ELSE frame
  /\ UNCHANGED <<handle, owner>>

\* Defect: whatever the handle is, it is resumed.
resumed_unchecked(s) ==
  {[f \in Frame \cup {handle[s]} |-> IF f = handle[s] THEN now ELSE frame[f]] :
     now \in {"suspended", "done"}}

\* operator(): to the next suspension or to the end, nothing if there is no
\* coroutine or it is done.  Of a destroyed frame it is undefined.
resumed(s) ==
  IF handle[s] # Null /\ frame[handle[s]] = "suspended"
  THEN {[frame EXCEPT ![handle[s]] = now] : now \in {"suspended", "done"}}
  ELSE {frame}

defined(s) == s \in live /\ (handle[s] # Null => frame[handle[s]] # "destroyed")

Resume(s) ==
  /\ defined(s)
  /\ frame' \in resumed(s)
  /\ UNCHANGED <<live, handle, owner>>

\* t = start(std::move(s)): claim ownership, resume, move into the result.
Start(s, t) ==
  /\ defined(s)
  /\ t \notin live
  /\ StartOwners => owns(s)
  /\ frame' \in resumed(s)
  /\ live'   = live \cup {t}
  /\ handle' = [handle EXCEPT ![t] = handle[s]]
  /\ owner'  = move([owner EXCEPT ![s] = TRUE], t, s)

\* t = continue_from(...): its local c is created, started into t and gone.
ContinueFrom(t) ==
  /\ t \notin live
  /\ \E f \in Frame, now \in {"suspended", "done"} :
       /\ frame[f] = "unborn"
       /\ frame' = [frame EXCEPT ![f] = now]
       /\ handle' = [handle EXCEPT ![t] = f]
  /\ live'  = live \cup {t}
  /\ owner' = [owner EXCEPT ![t] = TRUE]

Next ==
  \/ \E s \in Slot : Default(s) \/ Call(s) \/ Dtor(s) \/ Resume(s) \/ ContinueFrom(s)
  \/ \E s, o \in Slot : MoveAssign(s, o) \/ MoveCtor(s, o) \/ Start(s, o)

Spec == Init /\ [][Next]_vars
-----------------------------------------------------------------------------
TypeOK ==
  /\ live \subseteq Slot
  /\ handle \in [Slot -> Frame \cup {Null}]
  /\ owner \in [Slot -> BOOLEAN]
  /\ frame \in [Frame -> {"unborn", "suspended", "done", "destroyed"}]

\* No frame is destroyed twice: a frame has at most one owner, and it exists as
\* long as it has one (valor.h:37-38, 83, 128).
OneOwner ==
  \A s \in Slot : owns(s) =>
    /\ frame[handle[s]] \in {"suspended", "done"}
    /\ \A t \in Slot : owns(t) /\ handle[t] = handle[s] => t = s

\* A frame that has an owner keeps one until it is destroyed, unless an owner
\* is assigned to: operator= drops what its left-hand side owned (valor.h:37).
Owned(f) == \E s \in Slot : owns(s) /\ handle[s] = f
Assigned(f) == \E s, o \in Slot : owns(s) /\ handle[s] = f /\ MoveAssign(s, o)

NoLeak ==
  [][\A f \in Frame : Owned(f) => \/ Owned(f)'
                                  \/ frame'[f] = "destroyed"
                                  \/ Assigned(f)]_vars
=============================================================================
