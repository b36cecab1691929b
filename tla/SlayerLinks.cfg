CONSTANTS
    p1 = p1
    p2 = p2
    p3 = p3
    s1 = s1
    s2 = s2
    Players = {p1, p2, p3}
    Slots = {s1, s2}
    LINK_RANK_COSTS <- Costs
    MAX_POINTS = 2
    Pools <- PrizePools
    Catalog = {"rams"}
    Events = {e1}
    MAX_INVITES = 2
    MAX_GRANTS = 2
    MAX_PARTINGS = 1
    Asks <- Asked
    Collectors = {p1}
SPECIFICATION Spec
CHECK_DEADLOCK FALSE
INVARIANTS
    SlotsExclusive
    AvailabilityHonest
    NoticeShown
    GrantedIsEarned
    NothingForfeited
    XpCountedOnce
