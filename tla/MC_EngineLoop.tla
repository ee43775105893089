------------------------- MODULE MC_EngineLoop -------------------------
(***************************************************************************)
(* Instantiates EngineLoop for TLC.  No symmetry: the run checks liveness. *)
(***************************************************************************)
EXTENDS EngineLoop, TLC
=============================================================================
