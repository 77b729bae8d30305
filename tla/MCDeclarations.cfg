CONSTANTS
  role = role
  hue = hue
  p = p
  q = q
  f = f
  Stem <- MCStem
  MaxPlural = 2
  Vocabularies <- MCVocabularies
  MaxImported = 2
  MaxLocals = 2
  MaxDims = 2
SPECIFICATION Spec
INVARIANTS
  LookupsAgree
  ConfusionsFound
  PerpendicularsFound
  CallsJudgedAlike
CHECK_DEADLOCK FALSE
