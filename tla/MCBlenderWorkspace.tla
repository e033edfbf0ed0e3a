------------------------- MODULE MCBlenderWorkspace -------------------------
(* Instances of BlenderWorkspace for TLC. *)
EXTENDS BlenderWorkspace, TLC

MCSymmetry == Permutations(Calls) \cup Permutations(Scripts)
MCAllKinds == {"init", "execute", "saveView", "render"}
MCInitAndExecute == {"init", "execute"}
=============================================================================
