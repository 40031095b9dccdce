SPECIFICATION Spec
CONSTANTS
    Tasks = {t1, t2, t3}
    Projects = {p1}
    Editors = {c1}
    Rules = {"daily"}
    Period <- MCPeriod
    Horizon = 2
    Dues = {1}
    Blocks = {1}
    MaxEdits = 4
    Aspects <- MCAspects
SYMMETRY MCSymmetry
CHECK_DEADLOCK FALSE
PROPERTIES
    OnlyUntouchedRemoved
