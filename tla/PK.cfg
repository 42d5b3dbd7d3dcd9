SPECIFICATION Spec
CONSTANTS
    r1 = r1
    r2 = r2
    RoomIDs = {r1, r2}
    Sessions <- OnePair
    Modes = {"off", "good", "flaky"}
    Givers = {h1}
    Hosts = {h2}
    None = None
    MaxGifts = 1
    MaxOpens <- Reopens
    MaxCrashes = 1
INVARIANTS SessionsPaired Ledger ShownIsEarned
PROPERTIES ScoresReachRedis
CHECK_DEADLOCK FALSE
