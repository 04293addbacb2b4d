\* Two tasks, two names, two results; both databases.
SPECIFICATION Spec
CONSTANTS
  Ids = {i1, i2}
  Names = {n1, n2}
  Values = {v1, v2}
  NoName = NoName
  Null = Null
  Dialects <- BothDialects
SYMMETRY Symmetric
INVARIANTS
  TypeOK
  RevisionShape
  DataKept
  NeverStuck
  ReadyComplete
