---------------------------- MODULE MCShmdataTree ----------------------------
(* An instance of ShmdataTree: every kind of owner, two types of streams.  *)
EXTENDS ShmdataTree

CONSTANTS audio, video
=============================================================================
