CONSTANTS
  a = a
  b = b
  x = x
  y = y
  Wild = Wild
  Member <- MCMember
  Setting <- MCSetting
  Headers <- MCHeaders
  Bodies = {"member", "text", "name"}
  MaxArms = 3
  MaxCovered = 2
  MaxPairs = 2
SYMMETRY MCSymmetry
SPECIFICATION Spec
INVARIANTS
  CheckedIsTotal
  ErrorsAreGaps
  DefaultsAreAnnounced
  
CHECK_DEADLOCK FALSE
