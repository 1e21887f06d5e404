----------------------------- MODULE MCPipeline -----------------------------
(***************************************************************************)
(* Small instances of Pipeline.                                            *)
(***************************************************************************)
EXTENDS Pipeline, TLC

MCFds1 == 1..1
MCFds2 == 1..2

SlotsAndWorkers == Permutations(Slots) \cup Permutations(Workers)
=============================================================================
