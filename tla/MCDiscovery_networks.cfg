\* One renderer on three networks, one of them loopback, that drops its
\* AVTransport subscriptions.
SPECIFICATION FairSpec
CONSTANTS
    u1 = u1
    lo = lo
    eth = eth
    wlan = wlan
    NoIp = NoIp
    Udn <- OneUdn
    Ip <- ThreeIps
    Loopback <- JustLo
    Service = {"av", "cm", "rc"}
    LossyService = {"av"}
    PublishMayFail = FALSE
    MaxHandlers = 4
INVARIANTS
    ContextsTrackNetwork
    ConstructionOnLiveContext
    OnlyPreferredSubscribed
    SubscribedOrTimerArmed
PROPERTIES
    Resubscribed
    ImplementsDirectory
