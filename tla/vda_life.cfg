\* Every advertised action and one that is not; the bridge may raise.
CONSTANTS
    Messages = {m1}
    Requested <- AllAndUnknown
    BridgeMayFail = TRUE
    MaxStates = 2
SPECIFICATION FairSpec
INVARIANTS
    TypeOK
    AdvertisedIsServed
PROPERTIES
    NothingAfterOffline
    StopReturns
\* The process stops.
CHECK_DEADLOCK FALSE
