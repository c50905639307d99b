SPECIFICATION FairSpec
CONSTANTS
    NULL = NULL
    Jobs = {1}
    Slots = {s1}
    FirstStatuses = {"success"}
    FetchRetries = 1
    MaxEvents = 2
    Panels = {1}
    Ticks = {}
PROPERTIES
    ReadsOwnWrites
    TheRoomCatchesUp
    ControlsComeBack
    IndicatorFollows
