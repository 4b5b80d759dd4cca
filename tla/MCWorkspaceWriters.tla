------------------------ MODULE MCWorkspaceWriters ------------------------
(***************************************************************************)
(* Two writers of one workspace.  Generation ids are interchangeable: the  *)
(* one CHOOSE takes is named by no part of the state.                      *)
(***************************************************************************)
EXTENDS WorkspaceWriters

CONSTANTS w1, w2, r1, r2, n1, g1, g2, g3

Symmetry == Permutations(Writers) \cup Permutations(GenIds)
=============================================================================
