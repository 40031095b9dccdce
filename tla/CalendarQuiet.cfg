CONSTANTS
    Events = {e1, e2, e3, e4}
    Born = {e1}
    Foreign = {g1}
    NoEvent = NoEvent
    Policies = {"ask", "google", "latest", "prosepect"}
    Choices = {"google", "prosepect", "latest"}
    Operations = {"create", "edit", "delete", "move", "resolve", "google edit", "google delete"}
    BusyOperations = {}
    MaxEdits = 3
    MaxFaults = 1
SPECIFICATION Spec
SYMMETRY EventSymmetry
INVARIANTS
    SettledMappingsAgree
PROPERTIES
    AskProtectsLocalEdits
