------------------------------- MODULE MCToy --------------------------------
(* Units of up to two functions, with the frames of toy.cc and others. *)
EXTENDS Toy

field(n, byte, bit, size) == [k |-> "field", n |-> n, t |-> "", byte |-> byte, bit |-> bit, size |-> size]
record(t, byte, bit, size) == [field("", byte, bit, size) EXCEPT !.k = "record", !.t = t]
inner(t) == [field("", 0, 0, 0) EXCEPT !.k = "inner", !.t = t]
other    == [field("", 0, 0, 0) EXCEPT !.k = "other"]

\* _Coro_resume_fn up to _Coro_self_handle.
head(p) == <<field("_Coro_resume_fn", 0, 0, 64), field("_Coro_destroy_fn", 0, 64, 64),
             record(p, 16, 0, 8), record("handle", 16, 64, 64)>>
ResumeIndex(byte, bit) == field("_Coro_resume_index", byte, bit, 16)

\* vapor.cc:316-428, in part.
frame_g == head("promise") \o
  <<field("in", 32, 0, 32), field("dummy", 32, 32, 32), ResumeIndex(32, 64),
    record("suspend_never", 48, 0, 8), record("S", 48, 32, 32), record("h", 80, 0, 32), record("h", 96, 0, 32)>>

MCStruct ==
  "g"     :> frame_g @@
  "same"  :> (head("promise") \o <<record("A", 32, 0, 64), ResumeIndex(32, 64)>>) @@
  "int"   :> (head("promise") \o <<field("in", 32, 0, 32), ResumeIndex(32, 32), record("h", 48, 0, 32)>>) @@
  "wide"  :> (head("promise") \o <<ResumeIndex(32, 0), record("string", 48, 0, 256)>>) @@
  "alias" :> (head("value_promise") \o <<ResumeIndex(32, 64)>>) @@
  "promise"       :> <<other, other>> @@
  "handle"        :> <<other, field("_M_fr_ptr", 0, 0, 64)>> @@
  "suspend_never" :> <<other>> @@
  "S"             :> <<field("k", 0, 0, 32)>> @@
  "h"             :> <<field("i_of_h", 0, 0, 32), other>> @@
  "A"             :> <<inner("B"), field("b", 0, 0, 64)>> @@
  "B"             :> <<inner("A"), inner("h"), other>> @@
  "string"        :> <<field("_M_p", 0, 0, 64)>> @@
  "value_promise" :> <<inner("unsigned")>>

\* Both helpers as expected, or one of them.
MCHelpers == {h \in Helpers : "expected" \in {h[f] : f \in DOMAIN h}}
FrameOf == {"g", "same", "int", "wide", "alias", NoFrame}
MCUnits ==
  [funs : UNION {[1 .. n -> FrameOf] : n \in 0 .. 2},
   helpers : MCHelpers, errors : BOOLEAN]
=============================================================================
