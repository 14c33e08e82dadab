\* Two clients that call, release and leave.
SPECIFICATION FairSpec
CONSTANTS
    Client = {k1, k2}
    Device = {d1}
    Root = Root
    Manager = Manager
    Types = {"get_version"}
    ContextsFail = FALSE
    MaxCalls = 2
CHECK_DEADLOCK FALSE
PROPERTY
    QuitsWithLastClient
