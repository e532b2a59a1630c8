SPECIFICATION FairSpec
CONSTANTS
    ann = ann
    bob = bob
    t1 = t1
    t2 = t2
    web = web
    api = api
    r1 = r1
    r2 = r2
    r3 = r3
    r4 = r4
    i1 = i1
    i2 = i2
    h1 = h1
    h2 = h2
    p1 = p1
    p2 = p2
    Req = {r1, r2, r3, r4}
    Plans <- AllPlans
    MaxFaults <- FaultsOf
    MaxTicks <- TicksOf
    InitWindows <- WindowsOf
    InitStats <- StatsOf
    Member = {ann, bob}
    Torrent = {t1, t2}
    NoTorrent = NoTorrent
    NoHost = NoHost
    WindowLength = 2
    Invoice = {i1, i2}
    Price = 2
    Stock = 2
    Goal = 2
    MonthLength = 3
    Process = {web, api}
    Web = web
    InitTokens <- Tokens
    TokenLife = 1
    LockWindow = 1
    PeerTTL = 1
    ActiveWindow = 1
    Prewarn = 1
    Grace = 1
    WarnLife = 1
INVARIANTS CreditHonest SpendsMatch OneRewardAMonth ToldBeforeWarned
PROPERTIES FreeWasGranted SpentApplies InvoiceRecorded
CHECK_DEADLOCK FALSE
