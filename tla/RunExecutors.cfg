\* A server and a CLI process and any three of resumes, a draft, crashes, stalls and progress reports.
CONSTANTS
    srv = srv  cli = cli  Nobody = Nobody  Gone = Gone
    Procs = {srv, cli}
    Servers = {srv}
    Plan <- OneStage
    StopStage = "export"
    VerifyStage = "export"
    RankStage = "export"
    ReviseStage = "export"
    ExportStage = "export"
    EvidenceLeg = {"export"}
    GateLeg = {"export"}
    FeedbackLeg = {"export"}
    ExperimentLeg = {"export"}
    MaxQualityRounds = 1
    MaxIterationRounds = 1
    Limit <- Takeovers
SPECIFICATION FairSpec
INVARIANTS OneExecutor 
PROPERTY FrozenRunSettles
CHECK_DEADLOCK FALSE
