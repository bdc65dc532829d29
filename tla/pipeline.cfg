CONSTANTS
    Findings = {1, 2}
    Histories = {{}, {1}}
    IndexTimes = {0, 4}
    Verdicts = {"accepted", "rejected"}
    Invocations <- MCInvocations
    Lanes = 2
    Concurrency = 0
    RunSeconds = 4
    ReserveMax = 2
    AgentSeconds = 3
    WorkerSeconds = 2
    Grace = 1
    DedupMargin = 1
    DedupMax = 1
SPECIFICATION FairSpec
CHECK_DEADLOCK FALSE
INVARIANTS
    CompleteMeansChecked
    CandidatesSurvive
    ReportInTime
PROPERTIES
    RunFinishes
