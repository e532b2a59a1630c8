SPECIFICATION FairSpec
CONSTANTS
    w1 = w1
    w2 = w2
    NoWorker = NoWorker
    Worker = {w1}
    MaxArticle = 3
    InitHigh = 2
    Batch = 2
    FirstCap = 2
    Headroom = 1
    Budget = 1
    Horizon = 2
    Adopted <- NoneAdopted
    Leads = {"deep", "shallow"}
    ShallowLow = 2
    Resets = {"forward"}
    QuietResets = TRUE
    Takeover = FALSE
PROPERTIES BackfillFinishes ForwardCatchesUp
