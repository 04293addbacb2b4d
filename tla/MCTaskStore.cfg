\* Three ids in pages of two, two deleting clients, two runs, one reader; runs
\* end in one of two seconds, on the second or after it.
SPECIFICATION Spec
CONSTANTS
  Ids <- ThreeIds
  Names = {n1, n2, n3}
  Runs = {r1, r2}
  Admins = {a1, a2}
  Readers = {s1}
  Limit = 2
  Seconds = {1, 2}
  Fractions = {0, 5}
SYMMETRY Symmetric
INVARIANTS
  TypeOK
  ScanComplete
  ScanNoRepeat
  UniqueNames
  DeletedStaysGone
  LostOnlyByDelete
  HistoryOrdered
