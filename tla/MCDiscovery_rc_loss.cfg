\* The renderer drops the subscription to RenderingControl.
SPECIFICATION Spec
CONSTANTS
    u1 = u1
    lo = lo
    eth = eth
    wlan = wlan
    NoIp = NoIp
    Udn <- OneUdn
    Ip <- OneIp
    Loopback = {}
    Service = {"av", "cm", "rc"}
    LossyService = {"rc"}
    PublishMayFail = FALSE
    MaxHandlers = 2
INVARIANTS
    FlagMeansLive
