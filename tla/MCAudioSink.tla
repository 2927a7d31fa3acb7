----------------------------- MODULE MCAudioSink -----------------------------
(* Small instances of the two audio sinks. *)
EXTENDS AudioSink

Sink(name, channels) == [sink |-> name, channels |-> channels]

MCEverySink == {Sink("jack", 1), Sink("jack", 2), Sink("pulse", 2)}
MCJackStereo == {Sink("jack", 2)}
=============================================================================
