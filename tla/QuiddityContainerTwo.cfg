CONSTANTS
  IdMax = 9
  Users = {u1, u2}
  Detached = {d1}
  Nicks = {n1}
  NoNick = NoNick
  MaxCreated = 3
  MaxCbs = 0
  MayFail = FALSE
SPECIFICATION Spec
INVARIANTS
  IdsAgree MutexOutlivesHandover
PROPERTIES
  IdsNotRecycled
SYMMETRY Symmetry
