CONSTANTS
  IdMax = 9
  Users = {u1, u2}
  Detached = {}
  Nicks = {n1}
  NoNick = NoNick
  MaxCreated = 2
  MaxCbs = 0
  MayFail = TRUE
SPECIFICATION Spec
INVARIANTS
  FailedIdReleased
