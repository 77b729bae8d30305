CONSTANTS
    Texts <- MCTexts
    Comments <- MCComments
    MaxDepth = 3
SPECIFICATION Spec
INVARIANTS BlocksBalance AcceptedIsComplete StartersSurvive NothingDropped PrecedenceRespected
CHECK_DEADLOCK FALSE
