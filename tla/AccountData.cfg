CONSTANTS
    u1 = u1
    c1 = c1
    dust = dust
    chips = chips
    plat = plat
    cell = cell
    key = key
    rare = rare
    emote = emote
    skin = skin
    sword = sword
    slot1 = slot1
    ex1 = ex1
    ex2 = ex2
    club = club
    tSeed = tSeed
    tStart = tStart
    tNext = tNext
    tSpeed = tSpeed
    tReveal = tReveal
    tAgain = tAgain
    tOld = tOld
    tNew = tNew
    Users = {u1}
    Characters = {c1}
    OwnerOf <- Owner
    Currencies <- Money
    Stackables <- Goods
    Canonical <- Canon
    Units <- UnitsOf
    StartBalance <- Purse
    Transactions <- Sent
    ItemUpdates <- Updates
    MAX_TIME = 4
    Offers <- OfferTable
    Families <- CellFamilies
    DAY = 2
    WEEK = 4
    TOKEN_TERM = 1
    MAX_TOKENS = 2
    pass = pass
    mastery = mastery
    o1 = o1
    o2 = o2
    r1 = r1
    none = none
    Tracks <- TrackTable
    FreeElite = {}
    MasteryTracks = {mastery}
    Awards <- AwardSet
    NoRequest = none
    Multiplier <- PointsCount
    INT32_MAX = 2
    MAX_GENERATION = 1
    b1 = b1
    b2 = b2
    d1 = d1
    w1 = w1
    w2 = w2
    KindOf <- BoardKinds
    Posts <- PostSet
    Abandoned = {b1, b2}
    DAILY_RESET = 1
    WEEKLY_RESET = 3
    SelectWeekly <- Drawn
    LAST_TICK = 7
    tA = tA
    tB = tB
    tC = tC
    egg = egg
    LevelCosts <- LevelTable
    Talents <- TalentTable
    UnlockLevel <- Rewards
    STUB_XP = 9
    MAX_POSTS = 2
    MAX_VERSION = 2
    MAX_XP = 0
    x1 = x1
    x2 = x2
    NoRow = NoRow
    DefaultSlot = DefaultSlot
    Journeys <- Snapshots
    Crumbs <- Snapshots
    Encounters <- Seen
    LoadoutData = {x1}
    CharacterData <- Blobs
    Cooldowns <- Timers
    Returning = {}
    MAX_LOADOUT_SLOTS = 2
SPECIFICATION Spec
CHECK_DEADLOCK FALSE
INVARIANTS
    CellPaidOnce
    OncePerWindow
    MasteryNotInflated
    RewardsHonest
    BoardSound
    NativeAccepted
PROPERTIES
    NothingStale
    ChargedForSomething
    NothingShortened
    Settles
    GenerationsFinal
    SeasonKept
    SavesKept
