\* Contexts lost between the steps of a construction.
SPECIFICATION Spec
CONSTANTS
    u1 = u1
    lo = lo
    eth = eth
    wlan = wlan
    NoIp = NoIp
    Udn <- OneUdn
    Ip <- PlainIps
    Loopback = {}
    Service = {"cm"}
    LossyService = {}
    PublishMayFail = FALSE
    MaxHandlers = 2
INVARIANTS
    ListedArePublished
