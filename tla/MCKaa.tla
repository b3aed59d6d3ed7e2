------------------------------- MODULE MCKaa --------------------------------
(***************************************************************************)
(* Kaa for model checking: pixmaps and colours are interchangeable.        *)
(***************************************************************************)
EXTENDS Kaa

Symmetry == Permutations(Pixmaps) \cup Permutations(Colors)
=============================================================================
