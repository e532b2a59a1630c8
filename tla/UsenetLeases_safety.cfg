SPECIFICATION Spec
CONSTANTS
    w1 = w1
    w2 = w2
    crawl = crawl
    backfill = backfill
    k1 = k1
    Worker = {w1, w2}
    NoWorker = NoWorker
    Job = {crawl, backfill}
    Key = {k1}
    JobKeys <- BothOnOne
    TTL = 3
    RenewEvery = 1
    DeadAfter = 2
    BeatEvery = 1
    Punctual = {w1}
    DbOk = {w1}
INVARIANTS RefCountExact ReliableOwns
PROPERTIES RowNotDroppedUnderHold
