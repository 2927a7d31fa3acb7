CONSTANTS
  p1 = p1
  Peers = {p1}
  MaxStarts = 2
SPECIFICATION FairSpec
INVARIANTS
  PolledConnectionLives CutOffOnlyAfterFailure StoppedIsSilent
PROPERTIES
  StopCompletes CalledPeerGetsOffer
