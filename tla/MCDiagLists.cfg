CONSTANTS
  c1 = c1
  c2 = c2
  Category <- MCCategory
  MaxErrorsPerCategory = 2
  MaxTotalErrors = 3
  MaxNesting = 3
  MaxReports = 5
SPECIFICATION Spec
SYMMETRY CategorySymmetry
INVARIANTS
  FailureIsShown
  ErrorsReachTheDriver
  HiddenIsAnnounced
  WarningsSurvive
CHECK_DEADLOCK FALSE
