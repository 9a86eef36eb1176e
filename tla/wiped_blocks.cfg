SPECIFICATION Spec
CONSTANTS
  g1 = g1
  g2 = g2
  g3 = g3
  o1 = o1
  o2 = o2
  Owners = {o1, o2}
  Registrations = {g1, g2, g3}
  OwnerOf <- TwoOwners
  Direct = {g3}
  Calls = {k1, k2}
  Taps = {}
  Faults = {}
  MaxFailures = 0
  MaxCounter = 1
  NoCall = NoCall
  NoOwner = NoOwner
SYMMETRY Symmetry
CHECK_DEADLOCK FALSE
INVARIANTS WipedMakesRoom
