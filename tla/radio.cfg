SPECIFICATION Spec
CONSTANTS
    gw = gw
    nd = nd
    NoId = NoId
    other = other
    Identities = {gw, nd, other}
    Stations = {gw, nd}
    Scenarios <- All
    TX_MAX_COUNT = 2
    MAX_DEVICES = 3
    ID_MODULUS = 65536
    PubCapacity = 2
    RxCapacity = 1
INVARIANTS PeersKept LayersAgree OwnMessage AiredBound AtMostOnceInOrder
    DoneMeansHeard SubscriptionsTaken WorkPlanned
CHECK_DEADLOCK FALSE
