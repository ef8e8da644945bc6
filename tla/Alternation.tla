---------------------------- MODULE Alternation -----------------------------
(***************************************************************************)
(* The task switching that balor/cmp_sw.cc is to measure (README.md:34):   *)
(* two parties take turns, the second counts down once in each of its      *)
(* turns, and when it is through the first finds out in its next turn.     *)
(* A negative number is not what it is made for: the first party may then  *)
(* take it for the end and leave the second one to count alone, or go on.  *)
(***************************************************************************)
EXTENDS Integers

CONSTANT MaxInt

VARIABLES
  from,   \* the number to count down from
  left,   \* what is left to count down
  turn,   \* whose turn it is
  turns,  \* how many turns the first party has had
  over

AInit ==
  /\ from \in -MaxInt - 1 .. MaxInt
  /\ left = from
  /\ turn = 1
  /\ turns = 0
  /\ over = FALSE

First ==
  /\ turn = 1
  /\ ~over
  /\ turns' = turns + 1
  /\ \/ /\ left >= 0 \/ from < 0
        /\ turn' = 2 /\ UNCHANGED over
     \/ /\ left < 0
        /\ over' = TRUE /\ UNCHANGED turn
  /\ UNCHANGED <<from, left>>

Second ==
  /\ turn = 2 \/ (over /\ from < 0)
  /\ left' = IF left = -MaxInt - 1 THEN MaxInt ELSE left - 1
  /\ turn' = 1
  /\ UNCHANGED <<from, turns, over>>

ASpec == AInit /\ [][First \/ Second]_<<from, left, turn, turns, over>>
=============================================================================
