\* One task, one run, one DELETE.
SPECIFICATION Spec
CONSTANTS
  Ids <- ThreeIds
  Names = {n1, n2}
  Runs = {r1}
  Admins = {a1}
  Readers = {s1}
  Limit = 2
  Seconds = {1, 2}
  Fractions = {0, 5}
SYMMETRY Symmetric
INVARIANT DeleteRemovesHistory
