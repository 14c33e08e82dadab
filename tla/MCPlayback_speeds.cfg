\* Get, LastChange and Set(Rate) on a renderer that knows both kinds of speeds.
SPECIFICATION Spec
CONSTANTS
    Caller = {c1}
    None = None
    Descriptions <- Described
    AvEvents <- Reported
    Asked <- AskedRates
    MaxEvents = 0
    MaxFrames = 1
    MaxLosses = 0
INVARIANT
    ExposedRatesAreAccepted
