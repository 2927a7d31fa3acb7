CONSTANTS
  IdMax = 9
  Nicks = {n1, n2}
  Kinds = {k1, k2}
  Values = {0, 1}
  Default = 0
  Stems = {f1}
  NoState = NoState
  MaxIds = 4
  MaxEdits = 2
SPECIFICATION StateSpec
INVARIANTS
  CreatedIsSaved
PROPERTIES
  LoadRestores
SYMMETRY Symmetry
