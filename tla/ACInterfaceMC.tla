--------------------------- MODULE ACInterfaceMC ---------------------------
(* The applications are interchangeable. *)
EXTENDS ACInterface, TLC

Symmetry == Permutations(Apps)
=============================================================================
