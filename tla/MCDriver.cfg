CONSTANTS
    None = None
    Absent = Absent
    Empty = Empty
    Camel <- CamelTable
    Lower <- LowerTable
    Procs = {p1, p2}
    Files = {"f", "g"}
    Outputs = {o1, o2}
    CodeFiles = {"x.ts", "y.py"}
    Python = {"y.py"}
    Nested = {}
    Worlds <- MCWorlds
    MaxOrdbok = 2
    MaxLintScans = 2
    MaxMapScans = 1
    Faults = {"killed", "denied", "full"}
SYMMETRY Symmetry
SPECIFICATION Spec
INVARIANTS TrendTellsDirection GrowthIsSeen CleanMeansAgreement LintIsWitnessed
PROPERTY ExitTellsTheOutput
CHECK_DEADLOCK FALSE
