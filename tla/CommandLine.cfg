SPECIFICATION CommandSpec
CONSTANTS
    trainer = trainer
    analyst = analyst
    unreachable = unreachable
    tooManySteps = tooManySteps
    Levels <- MCLevels
    Scale = 6
    Lambda <- MCLambda
    Profiles = {"conservative", "balanced", "aggressive"}
    Target <- MCTarget
    MaxAmount = 30
    MaxPaise = 30
    MaxSteps = 3
    Unreachable = unreachable
    TooManySteps = tooManySteps
    RatioUnit = 1000
    Buffer = 20
    MinHistory = 2
    TrainPercent = 70
    CheckPercent = 15
    Processes = {trainer, analyst}
    Kinds = {"base", "personalized"}
    Files <- MCFiles
    Metadata = "metadata"
    WriteOrder <- MCWriteOrder
    ReadOrder <- MCReadOrder
    MaxTrainings = 3
    Sessions <- MCSessions
    Shuffle <- MCShuffle
INVARIANTS
    BlockIsBest
    CoverageIsHonest
    StricterProfileReservesMore
    SweepIsCausal
    OlderOnlyIfOverlapping
    HeldOutIsUnseen
    ReportsAddUp
    EveryFaultIsReported
CHECK_DEADLOCK FALSE
