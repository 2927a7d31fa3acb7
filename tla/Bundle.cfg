CONSTANTS
  cam = cam
  conv = conv
  win = win
  w1 = w1
  w2 = w2
  w3 = w3
  video = video
  other = other
  level = level
  group = group
  NoParent = NoParent
  NoCaps = NoCaps
  NoPath = NoPath
  Members = {cam, conv, win}
  PipedTo <- MCPipedTo
  Exposed = {cam}
  StartQuids <- MCOneStarted
  TopLevel = {win}
  Grouped = {conv}
  Writers = {w1, w2, w3}
  WriterOf <- MCWriterOf
  Types = {video, other}
  CanDo <- MCCanDo
  MetaChoices <- MCMetaChoices
  Refusing = {conv}
  Props = {level, group}
  ParentOf <- MCParentOf
  StaticProps = {group}
  Hidden <- MCHidden
  MaxProps <- MCMaxProps
SPECIFICATION Spec
SYMMETRY MCSymmetry
INVARIANTS
  SinksFollowWriters MirrorsAgree
CHECK_DEADLOCK FALSE
