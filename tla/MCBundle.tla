------------------------------ MODULE MCBundle ------------------------------
(* A camera with two writers is piped to a window and to a converter,      *)
(* which is piped to the window too: "cam <shmw <add_to_start ! win        *)
(* <top_level <add_to_start & .cam ! conv group=g ! .win".                 *)
(* Where it does not matter who starts, only the window is started.        *)
EXTENDS Bundle, TLC

CONSTANTS cam, conv, win, w1, w2, w3, video, other, level, group

MCSymmetry == Permutations({w1, w2})
MCPipedTo == [m \in Members |-> CASE m = cam -> {conv, win} [] m = conv -> {win} [] OTHER -> {}]
MCStartQuids == <<cam, win>>
MCOneStarted == <<win>>
MCMaxProps == [m \in Members |-> IF m = win THEN 1 ELSE 2]
MCWriterOf == [w \in Writers |-> IF w = w3 THEN conv ELSE cam]
MCCanDo == [m \in Members |-> IF m = win THEN {video, other} ELSE {video}]
MCMetaChoices == {{}, {conv}}
MCParentOf == [p \in Props |-> IF p = level THEN group ELSE NoParent]
MCHidden == {<<win, group>>}
=============================================================================
