SPECIFICATION Spec
CONSTANTS
  Adapters = {a1, a2}
  Opens = {o1, o2}
  Radios = {r1, r2}
  Blank = blank
  FindMax = 1
INVARIANTS WorkingIsListed ListedIsRecent
VIEW ClaimView
SYMMETRY ClaimSymmetry
CHECK_DEADLOCK FALSE
