CONSTANTS
    Events = {e1, e2, e3, e4, e5}
    Born = {e1}
    Foreign = {g1}
    NoEvent = NoEvent
    Policies = {"ask"}
    Choices = {"google", "prosepect"}
    Operations = {"create", "edit", "delete", "resolve", "google edit", "google delete"}
    BusyOperations = {"create", "edit", "delete"}
    MaxEdits = 4
    MaxFaults = 0
SPECIFICATION Spec
SYMMETRY EventSymmetry
INVARIANTS
    TokenCoversOnlyApplied
    UnresolvedIsVisible
PROPERTIES
    ConflictBlocksOverwrite
