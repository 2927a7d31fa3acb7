--------------------------- MODULE MCSwitcherState ---------------------------
(* A small instance of SwitcherState.                                      *)
EXTENDS SwitcherState, TLC

\* Nicknames, kinds and file names are interchangeable.
Symmetry == Permutations(Nicks) \cup Permutations(Kinds) \cup Permutations(Stems)
=============================================================================
