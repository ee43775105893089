------------------------ MODULE MC_ResourceManager ------------------------
(***************************************************************************)
(* Instantiates ResourceManager for TLC.  Connections and session handles  *)
(* are model values; both are symmetric because the code only ever         *)
(* compares them for equality (the TPM picks any free session handle).     *)
(***************************************************************************)
EXTENDS ResourceManager, TLC

Symmetry == Permutations(Conns) \cup Permutations(SessHandles)
=============================================================================
