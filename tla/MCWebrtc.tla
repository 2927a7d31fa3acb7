------------------------------- MODULE MCWebrtc -------------------------------
(* An instance of Webrtc: one peer in the room.                            *)
EXTENDS Webrtc

CONSTANTS p1
=============================================================================
