----------------------------- MODULE MCPipeline -----------------------------
(***************************************************************************)
(* The pipeline of valor.cc with k.                                        *)
(***************************************************************************)
EXTENDS Pipeline

CONSTANTS M, Addr

INSTANCE Programs

Results == Ints \cup {NoRes}
Procs   == {Saver, Reader}

\* k is a coroutine of the kind that the theorems about the pipeline are for.
ASSUME kAssumption == Forward /\ KeepsParameters /\ AwaitsRets
=============================================================================
