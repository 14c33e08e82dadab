\* One client and two events of RenderingControl; contexts may be lost.
SPECIFICATION Spec
CONSTANTS
    Caller = {c1}
    None = None
    Descriptions <- Described
    AvEvents <- Reported
    Asked <- AskedRates
    MaxEvents = 2
    MaxFrames = 2
    MaxLosses = 1
INVARIANTS
    TypeOK
    AgreedRatesAreAccepted
    RatesWithinRange
    RefusedSetFails
PROPERTIES
    OnlySyncOverrides
    RateIsTheSpeedSent
    VolumeGoesBackInFramesOnly
    SynchronisationsEnd
