------------------------- MODULE MCQuiddityContainer -------------------------
(* Small instances of QuiddityContainer.                                   *)
EXTENDS QuiddityContainer, TLC

\* The users, and the detached threads, are interchangeable.
Symmetry == Permutations(Users) \cup Permutations(Detached)
=============================================================================
