\* One server and any three events.
CONSTANTS
    srv = srv  cli = cli  Nobody = Nobody  Gone = Gone
    Procs = {srv}
    Servers = {srv}
    Plan <- ThreeStages
    StopStage = "revise"
    VerifyStage = "rank"
    RankStage = "rank"
    ReviseStage = "revise"
    ExportStage = "export"
    EvidenceLeg = {"rank", "export"}
    GateLeg = {"rank"}
    FeedbackLeg = {"revise", "export"}
    ExperimentLeg = {"revise", "export"}
    MaxQualityRounds = 2
    MaxIterationRounds = 2
    Limit <- Anything
SPECIFICATION Spec
INVARIANTS TypeOK CompletedIsSettled FullExecutionIsAdoptable
PROPERTIES DraftStaysParked RankedSetIsGated
CHECK_DEADLOCK FALSE
