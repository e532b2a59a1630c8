SPECIFICATION Spec
CONSTANTS
    w1 = w1
    w2 = w2
    NoWorker = NoWorker
    Worker = {w1, w2}
    MaxArticle = 3
    InitHigh = 3
    Batch = 1
    FirstCap = 2
    Headroom = 0
    Budget = 2
    Horizon = 2
    Adopted <- MidAdopted
    Leads = {"deep"}
    ShallowLow = 1
    Resets = {"history", "rescan"}
    QuietResets = TRUE
    Takeover = TRUE
INVARIANTS CoverageHonest NoHole DoneSound
SYMMETRY Interchangeable
