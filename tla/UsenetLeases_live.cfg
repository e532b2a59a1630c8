SPECIFICATION FairSpec
CONSTANTS
    w1 = w1
    w2 = w2
    crawl = crawl
    backfill = backfill
    k1 = k1
    Worker = {w1, w2}
    NoWorker = NoWorker
    Job = {crawl}
    Key = {k1}
    JobKeys <- BothOnOne
    TTL = 3
    RenewEvery = 1
    DeadAfter = 2
    BeatEvery = 1
    Punctual = {}
    DbOk = {}
PROPERTIES DisplacedPassStops OrphanFreed
