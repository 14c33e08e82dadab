\* One renderer that drops subscriptions, on three networks; its objects may
\* fail to be published.
SPECIFICATION FairSpec
CONSTANTS
    u1 = u1
    lo = lo
    eth = eth
    wlan = wlan
    NoIp = NoIp
    Udn <- OneUdn
    Ip <- ThreeIps
    Loopback <- JustLo
    Service = {"av", "cm", "rc"}
    LossyService = {"av", "cm"}
    PublishMayFail = TRUE
    MaxHandlers = 2
INVARIANTS
    TypeOK
    OwnedOnce
    ContextsTrackNetwork
    FlagMeansLive
    FlagMeansNotified
PROPERTIES
    ConstructionEnds
