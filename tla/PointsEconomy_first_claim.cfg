SPECIFICATION Spec
CONSTANTS
    ann = ann
    bob = bob
    cid = cid
    r1 = r1
    r2 = r2
    r3 = r3
    r4 = r4
    r5 = r5
    Member = {ann, bob, cid}
    Req = {r1, r2, r3, r4, r5}
    InitBalance <- Purses
    Plans <- FirstClaims
    MaxFaults <- NoFaults
    InitStock = {1}
    InitCost = 2
    MedalPrice = 2
    CastCost <- Cheaper
    LevelXP = 2
    BoostCost = 1
    JoinCost = 2
    InviteUses = 1
    Rid = {1, 2}
    MaxCycles = 2
    PotTarget = 3
    PotWinPct = 50
    PotDailyMax = 2
    PotRewardMin = 2
    Needy <- Poorer
    FirstDay = 1
    LastDay = 2
    Claimed = {ann}
    RewardFor <- Growing
    Reward <- Catalogue
    Baseline <- Seeded
    MaxCount = 3
    Threshold = 2
    Badge = "badge"
INVARIANT OneClaimADay
CHECK_DEADLOCK FALSE
