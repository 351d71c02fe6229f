CONSTANTS
  Variable = {x, y}
  Object = {o1, o2, o3}
  Null = Null
  MaxRaw = 1
  Owner = {u1, u2, u3}
  Handle = {h1, h2, h3}
SPECIFICATION RuntimeSpec
INVARIANTS ReferencesCounted HandlesOwnedOnce
SYMMETRY Symmetry
CHECK_DEADLOCK FALSE
