SPECIFICATION LeaseFairSpec
CONSTANTS
    Leases = {l1, l2}
    Ttls = {1, 2, 6}
    MaxTtl = 3
    MaxClock = 5
CHECK_DEADLOCK FALSE
INVARIANTS NothingLeaks
PROPERTIES LivesItsTerm SilenceIsRelease BrokerCloses
