SPECIFICATION Spec
CONSTANTS
    NULL = NULL
    Jobs = {1, 2}
    Slots = {s1, s2}
    FirstStatuses = {"success"}
    FetchRetries = 0
    MaxEvents = 3
    Panels = {}
    Ticks = {1, 2}
SYMMETRY SlotSymmetry
INVARIANTS
    RefusedOnlyIfChanged
    OneRequestPerControl
PROPERTIES
    ReadsOwnWrites
