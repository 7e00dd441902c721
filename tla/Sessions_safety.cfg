SPECIFICATION Spec
CONSTANTS
  Users = {u1, u2}
  Requests = {r1, r2, r3}
  NoUser = NoUser
  MaxTokens = 3
SYMMETRY Symmetry
INVARIANTS
  LateReuseRefused
PROPERTIES
  DeactivationDrains
