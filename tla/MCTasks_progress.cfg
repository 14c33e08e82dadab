\* Two calls of two clients, of every control, on each kind of object.
SPECIFICATION FairSpec
CONSTANTS
    Client = {k1, k2}
    Device = {d1}
    Root = Root
    Manager = Manager
    Types = {"get_version", "never_quit", "may_quit", "get_all_props", "get_icon", "open_uri"}
    ContextsFail = TRUE
    MaxCalls = 2
CHECK_DEADLOCK FALSE
PROPERTIES
    ImplementsCalls
    CancelIsExact
    LastClientEndsService
    EventuallyAnswered
    EventuallyStops
