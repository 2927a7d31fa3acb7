-------------------------- MODULE MCThreadedWrapper --------------------------
(* Small instances of ThreadedWrapper.                                     *)
EXTENDS ThreadedWrapper

CONSTANTS c1, c2

=============================================================================
