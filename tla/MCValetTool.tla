---------------------------- MODULE MCValetTool -----------------------------
(***************************************************************************)
(* Every command line of up to MaxFiles files with small coroutines, as    *)
(* far as their texts keep to the constructs that valet can handle.        *)
(***************************************************************************)
EXTENDS ValetTool

CONSTANTS
  Names,
  MaxFiles,
  MaxText,   \* bound: items of a coroutine that is alone in its file
  MaxTexts,  \* bound: items of one of two coroutines
  Constructs \* texts may also have: "shadow", "head", "lambda", "if"

Items == [k : {"open", "close", "await"}] \cup [k : {"decl", "for"}, v : Names]
          \cup (IF "lambda" \in Constructs THEN [k : {"lambda"}, v : Names] ELSE {})
          \cup (IF "if" \in Constructs THEN [k : {"if"}] ELSE {})

\* C++: a name is declared once in a block, and an `if` has a statement.
Valid(c) ==
  /\ Balanced(c.text)
  /\ \A i, j \in Vars(c) :
       i < j /\ name(c, i) = name(c, j) => lives(c, i) # lives(c, j) \/ lives(c, i) = none(c)
  /\ \A i \in DOMAIN c.text : c.text[i].k = "if" =>
       i < Len(c.text) /\ c.text[i + 1].k = "await"

Texts(m) == UNION {[1 .. l -> Items] : l \in 0 .. m}
Coroutines(kinds, m, ps) ==
  {c \in [kind : kinds, params : ps, text : Texts(m)] :
     /\ Valid(c)
     /\ "shadow" \in Constructs \/ ~Shadows(c)
     /\ "head" \in Constructs \/ ~HeadLeft(c)}

Single  == {<<c>> : c \in Coroutines({"plain", "skip"}, MaxText, {<<>>, <<"p">>})}
Double  == {<<c, d>> : c, d \in Coroutines({"plain", "skip"}, MaxTexts, {<<>>})}
Faulty  == {<<c, d>> : c, d \in Coroutines({"plain", "skip", "macro", "broken"}, 1, {<<>>})}

\* Command lines that only name files.
Files(fs) == [stdin |-> FALSE, verbose |-> FALSE, args |-> <<>>, files |-> fs]
CommandLines == {Files(fs) : fs \in UNION {[1 .. m -> Single \cup Double] : m \in 1 .. MaxFiles}}

\* One file, or two of which the first leaves no buffer behind, or the second
\* is not written; every way to give one file.
Unedited(f) == ~ToInstrument(f)
OneOutput ==
  {Files(<<f>>) : f \in Single \cup Double}
  \cup [stdin : BOOLEAN, verbose : BOOLEAN, files : {<<f>> : f \in Faulty},
        args : {<<>>, <<"-std=c++23">>, <<"-DX", "-std=c++23">>}]
  \cup [stdin : {FALSE}, verbose : BOOLEAN, args : {<<>>},
        files : {fs \in [1 .. 2 -> Faulty] : Unedited(fs[1]) \/ HasMacro(fs[2])}]
=============================================================================
