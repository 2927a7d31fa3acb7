CONSTANTS
  a = a
  b = b
  audio = audio
  video = video
  Percent = Percent
  Left = Left
  All = All
  NoLabel = NoLabel
  IdMax = 4
  Quids = {a, b}
  FollowerSpecs <- MCFollowerSpecs
  WriterSpecs <- MCWriterSpecs
  TypeLists <- MCTypeLists
  MetaLabels = {Percent}
  NewLabels = {Left}
  RawPaths = {raw}
  raw = raw
SPECIFICATION Spec
INVARIANTS
  SpecAgrees
  DynamicConnected
PROPERTIES
  NewWriterUnfollowed
  FailedTryLeavesNoTrace
