CONSTANTS
  IdMax = 9
  Users = {u1}
  Detached = {d1}
  Nicks = {n1}
  NoNick = NoNick
  MaxCreated = 1
  MaxCbs = 2
  MayFail = TRUE
SPECIFICATION FairSpec
INVARIANTS
  TypeOK
PROPERTIES
  RemovalAnnounced CreationAnnounced RemoveReturns SelfDestructed
