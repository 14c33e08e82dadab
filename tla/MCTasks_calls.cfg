\* Three calls of two clients on one renderer that may lose a context.
SPECIFICATION Spec
CONSTANTS
    Client = {k1, k2}
    Device = {d1}
    Root = Root
    Manager = Manager
    Types = {"get_prop", "get_all_props", "command", "open_uri"}
    ContextsFail = TRUE
    MaxCalls = 3
CHECK_DEADLOCK FALSE
SYMMETRY Symmetry
INVARIANTS
    TypeOK
    AnsweredOnce
    OneContinuation
    TasksFindDevice
