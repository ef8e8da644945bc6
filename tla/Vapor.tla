------------------------------- MODULE Vapor --------------------------------
(***************************************************************************)
(* vapor: the plugin of GCC that finds where the frame of a coroutine      *)
(* keeps the index it resumes from, and patches this offset into the       *)
(* functions seri() and resi() of the same translation unit.               *)
(*                                                                         *)
(* GCC is external: it calls collect_coro() for every function it has      *)
(* finished, lays out the frames, and opens the gates of its passes when   *)
(* the whole unit is parsed.                                               *)
(***************************************************************************)
EXTENDS Integers, FiniteSets, SequencesExt

CONSTANTS
  Struct,  \* Struct[r]: the sequence of the members of record type r
  Units    \* translation units: their functions, seri() and resi() among their
           \* helpers, and errors of their own

\* A helper function has the body that patch_seri() expects, another one, or is not
\* there.
Helpers == [{"seri", "resi"} -> {"expected", "other", "none"}]

Member == [k : {"field", "record", "inner", "other"}, n : STRING, t : STRING,
           byte : Nat, bit : Nat, size : Nat]
Named(n, f) == {x \in DOMAIN Struct[f] : Struct[f][x].n = n}

\* GCC: a coroutine's frame has one resume index, at a whole byte.
ASSUME VaporAssumption ==
  /\ \A r \in DOMAIN Struct : r \in STRING /\ Struct[r] \in Seq(Member)
  /\ \A u \in Units :
       /\ u.funs \in Seq(STRING) /\ u.helpers \in Helpers /\ u.errors \in BOOLEAN
       /\ \A f \in ToSet(u.funs) \cap DOMAIN Struct : \E x \in DOMAIN Struct[f] :
            /\ Named("_Coro_resume_index", f) = {x}
            /\ Struct[f][x].k = "field" /\ Struct[f][x].bit % 8 = 0

VARIABLES
  unit,
  next,     \* the next function of the unit to be finished
  stack,    \* calls of walk_rec(): its record, the member it is at
  visited,  \* walk_rec()'s static vector of the record types it has been to
  coros,    \* the coroutines that collect_coro() has put in its map
  once,     \* patch_seri() has been called
  offset,   \* the offset added to the frame's address in seri() and resi(), if
            \* they have the expected bodies
  status    \* of the compilation: parsing, compiled or failed

vvars == <<unit, next, stack, visited, coros, once, offset, status>>

OffsetAlign  == 128  \* DECL_OFFSET_ALIGN of a member, in bits
NoFrame      == "no frame"
UInt16       == 65536  \* a uint16_t
Offsets      == 0 .. UInt16 - 1
SourceOffset == 3    \* what toy.cc has in place of the offset

parsed     == next > Len(unit.funs)

VInit ==
  /\ unit \in Units
  /\ next = 1
  /\ stack = <<>>
  /\ visited = {}
  /\ coros = {}
  /\ once = FALSE
  /\ offset = [f \in {"seri", "resi"} |-> SourceOffset]
  /\ status = "parsing"

-----------------------------------------------------------------------------
(* collect_coro() and walk_rec() *)

call(r) == [r |-> r, i |-> 0]

CollectCoro ==
  /\ status = "parsing"
  /\ stack = <<>>
  /\ ~parsed
  /\ IF unit.funs[next] = NoFrame
     THEN next' = next + 1 /\ UNCHANGED stack
     ELSE stack' = <<call(unit.funs[next])>> /\ UNCHANGED next
  /\ UNCHANGED <<unit, visited, coros, once, offset, status>>

top      == Last(stack)
member   == Struct[top.r][top.i]
atMember == top.i \in 1 .. Len(Struct[top.r])

\* Defect: only fields are walked.
walked_fields(m) == m.k = "record"

walked(m) == m.k \in {"record", "inner"}

\* The assertion behind a field, "fits the word".
fits(m) == m.k \in {"field", "record"} => m.bit + m.size <= OffsetAlign

\* Go on behind the member that call s[n] is at.
advanced(s, n) == [s EXCEPT ![n].i = @ + 1]

\* Defect: walk_rec() does not go on to the next member.
Pass_not(s) == stack' = s /\ UNCHANGED <<status, unit, next, visited, coros, once, offset>>

Pass(s) ==
  /\ IF fits(Struct[Last(s).r][Last(s).i])
     THEN stack' = advanced(s, Len(s)) /\ UNCHANGED status
     ELSE stack' = s /\ status' = "failed"
  /\ UNCHANGED <<unit, next, visited, coros, once, offset>>

\* Defect: the assertion is compiled out.
gcc_assert_off(r) == TRUE

\* At the head of walk_rec(): anything else than a record aborts.
gcc_assert(r) == r \in DOMAIN Struct

Enter ==
  /\ status = "parsing"
  /\ stack # <<>>
  /\ top.i = 0 /\ top.r \notin visited
  /\ IF gcc_assert(top.r)
     THEN /\ visited' = visited \cup {top.r}
          /\ stack' = advanced(stack, Len(stack))
          /\ UNCHANGED status
     ELSE status' = "failed" /\ UNCHANGED <<visited, stack>>
  /\ UNCHANGED <<unit, next, coros, once, offset>>

\* The type of a field that is a record, or of an inner type.
Descend ==
  /\ status = "parsing"
  /\ stack # <<>>
  /\ top.i > 0 /\ atMember /\ walked(member)
  /\ stack' = Append(stack, call(member.t))
  /\ UNCHANGED <<unit, next, visited, coros, once, offset, status>>

Skip ==
  /\ status = "parsing"
  /\ stack # <<>>
  /\ top.i > 0 /\ atMember /\ ~walked(member)
  /\ Pass(stack)

seen == top.i = 0 /\ top.r \in visited
done == top.i > 0 /\ ~atMember

\* walk_rec() returns into the call of it at a member; the first one returns to
\* collect_coro(), which then has the coroutine in its map.
Return ==
  /\ status = "parsing"
  /\ stack # <<>>
  /\ seen \/ done
  /\ IF Len(stack) > 1 THEN Pass(Front(stack))
     ELSE /\ stack' = <<>>
          /\ coros' = coros \cup {next}
          /\ next'  = next + 1
          /\ UNCHANGED <<unit, visited, once, offset, status>>

-----------------------------------------------------------------------------
(* patch_seri() *)

\* Defect: the bits are left out.
bytes_only(r) ==
  LET is(m) == m.k = "field" /\ m.n = "_Coro_resume_index"
  IN  Struct[r][SelectInSeq(Struct[r], is)].byte

\* The offset in bytes as the function returns it, a uint16_t.
coro_member_offset(r) ==
  LET is(m) == m.k = "field" /\ m.n = "_Coro_resume_index"
      n     == SelectInSeq(Struct[r], is)
  IN  IF n = 0 THEN (-1) % UInt16
      ELSE (Struct[r][n].byte + Struct[r][n].bit \div 8) % UInt16

\* Defects: only seri() is patched; a unit without the two functions is passed.
patch_half(o)  == [offset EXCEPT !["seri"] = o]
patch_if_found == UNCHANGED <<offset, status>>

patch(o) == [f \in DOMAIN offset |-> o]

\* For each coroutine of the map, in the order of its hashes: the last one's
\* offset remains.  It is the end of the compiler if a function is missing, or if
\* seri() does not pass the two assertions.  There is none for resi(): the
\* operands of another body are followed to a null pointer, or something in it is
\* overwritten and the compilation goes on.
patch_seri ==
  \/ coros = {} /\ UNCHANGED <<offset, status>>
  \/ /\ coros # {}
     /\ unit.helpers["seri"] = "expected" /\ unit.helpers["resi"] # "none"
     /\ \E last \in coros : offset' = patch(coro_member_offset(unit.funs[last]))
     /\ UNCHANGED status
  \/ /\ coros # {}
     /\ \E f \in DOMAIN offset : unit.helpers[f] # "expected"
     /\ status' = "failed" /\ UNCHANGED offset

OverrideGate ==
  /\ status = "parsing"
  /\ parsed
  /\ ~once /\ ~unit.errors
  /\ once' = TRUE
  /\ patch_seri
  /\ UNCHANGED <<unit, next, stack, visited, coros>>

\* GCC: the passes are over.
Finish ==
  /\ status = "parsing"
  /\ parsed
  /\ once \/ unit.errors
  /\ status' = IF unit.errors THEN "failed" ELSE "compiled"
  /\ UNCHANGED <<unit, next, stack, visited, coros, once, offset>>

VNext ==
  \/ CollectCoro \/ Enter \/ Descend \/ Skip \/ Return
  \/ OverrideGate \/ Finish
VSpec == VInit /\ [][VNext]_vvars
-----------------------------------------------------------------------------
(* Properties *)

VTypeOK ==
  /\ next \in 1 .. Len(unit.funs) + 1
  /\ visited \subseteq DOMAIN Struct
  /\ coros \subseteq 1 .. next - 1
  /\ stack # <<>> => ~parsed
  /\ \A n \in DOMAIN stack : stack[n].i \in Nat
  /\ offset \in [{"seri", "resi"} -> Offsets]
  /\ status \in {"parsing", "compiled", "failed"}

\* The types that walk_rec() finds below r or below those of R, and all types
\* within the frames F: what the sets that have F and lead nowhere else share.
Below(r)  == IF r \in DOMAIN Struct THEN {m.t : m \in {x \in ToSet(Struct[r]) : x.k \in {"record", "inner"}}} ELSE {}
Leads(R)  == UNION {Below(r) : r \in R}
Frames    == ToSet(unit.funs) \ {NoFrame}
Types     == (UNION {ToSet(u.funs) \ {NoFrame} : u \in Units}) \cup DOMAIN Struct \cup Leads(DOMAIN Struct)
Closed    == {S \in {R \cup Leads(R) : R \in SUBSET Types} : Leads(S) \subseteq S}
Within(F) == {t \in Types : \A S \in Closed : F \subseteq S => t \in S}

\* Every record type in a coroutine's frame is walked, whatever the order in
\* which they contain each other and also if they do so in a cycle (vapor.cc:187
\* "would recurse inf"), and no other one.
Walked ==
  parsed => visited = Within(Frames) /\ coros = {f \in DOMAIN unit.funs : unit.funs[f] # NoFrame}

Walkable ==
  LET types == Within(Frames) IN
    /\ types \subseteq DOMAIN Struct
    /\ \A t \in types : \A m \in ToSet(Struct[t]) : fits(m)

\* The plugin stops GCC only for a unit with coroutines that it cannot handle, and
\* lets none pass but one with another resi() (vapor.cc:179 "fits the word", 467,
\* 471, 485).
CompilesWhatItCan ==
  /\ status = "compiled" =>
       /\ ~unit.errors
       /\ Frames # {} =>
            Walkable /\ unit.helpers["seri"] = "expected" /\ unit.helpers["resi"] # "none"
  /\ status = "failed" =>
       \/ unit.errors
       \/ Frames # {} /\ ~(Walkable /\ unit.helpers = [f \in {"seri", "resi"} |-> "expected"])

\* In the compiled unit seri() and a resi() as expected agree about the place of
\* the index, and it is the one in the frame of a coroutine, if the unit has one
\* (toy.cc:7, 21; vapor.cc:473).
Index(f) == {m.byte * 8 + m.bit : m \in {x \in ToSet(Struct[f]) : x.n = "_Coro_resume_index"}}
Patched ==
  status = "compiled" =>
    /\ unit.helpers["resi"] = "expected" => offset["seri"] = offset["resi"]
    /\ Frames # {} => \E f \in Frames : offset["seri"] * 8 \in Index(f)
=============================================================================
