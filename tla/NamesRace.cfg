\* Two renames at a time, of which one may fail at any await, and mints in between.
SPECIFICATION Spec
CONSTANTS
  u1 = u1  n1 = n1  n2 = n2  n3 = n3  r1 = r1  r2 = r2  None = None
  Users = {u1}
  Names = {n1, n2, n3}  Drawn = {n1}
  MaxBuds = 3
  AllowedTime = 1  MaxTime = 2
  Reqs = {r1, r2}
  MayFail = TRUE
SYMMETRY Symmetry
INVARIANTS
  NameInv
  ChosenNamesDiffer
PROPERTIES
  NameSettles
