-------------------------------- MODULE MCClaw --------------------------------
(* Instances of Claw: a has followers, b has writers.                      *)
EXTENDS Claw

CONSTANTS a, b, audio, video, Percent, Left, raw

Entry(label, types) == [label |-> label, can_do |-> types]

\* a meta follower, then a follower of video or audio
MetaFirst == <<Entry(Percent, <<All>>), Entry(Left, <<video, audio>>)>>
\* the follower first
MetaLast == <<Entry(Left, <<video>>), Entry(Percent, <<audio>>)>>
OneEach == <<Entry(Percent, <<audio>>), Entry(Left, <<video>>)>>

MCFollowerSpecs == (a :> {MetaFirst, MetaLast}) @@ (b :> {<<>>})
MCWriterSpecs == (a :> {<<>>}) @@ (b :> {OneEach})
\* as shm-delay.cpp:104 gives
MCTypeLists == {<<audio, video>>}
=============================================================================
