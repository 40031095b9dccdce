CONSTANTS
    Events = {e1, e2, e3}
    Born = {e1}
    Foreign = {g1}
    NoEvent = NoEvent
    Policies = {"ask"}
    Choices = {"google"}
    Operations = {"create", "edit"}
    BusyOperations = {"edit"}
    MaxEdits = 3
    MaxFaults = 0
SPECIFICATION Spec
SYMMETRY EventSymmetry
INVARIANTS
    SettledMappingsAgree
