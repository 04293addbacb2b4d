\* At head, what the service needs is not there.
SPECIFICATION Spec
CONSTANTS
  Ids = {i1, i2}
  Names = {n1, n2}
  Values = {v1, v2}
  NoName = NoName
  Null = Null
  Dialects <- BothDialects
SYMMETRY Symmetric
INVARIANT
  ReadyForRuns
