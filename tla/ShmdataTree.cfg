CONSTANTS
  audio = audio
  video = video
  Kinds = {"follower", "on_connect", "writer", "source"}
  Types = {audio, video}
  MaxLives = 3
SPECIFICATION FairSpec
INVARIANTS
  CapsShown LeavesNoType
PROPERTIES
  DestructionEnds
CHECK_DEADLOCK FALSE
