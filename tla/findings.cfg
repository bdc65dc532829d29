SPECIFICATION FindingsSpec
CONSTANTS
    Findings = {1, 2, 3}
    File = "F"
    Paths = {"F", "A", "B", "G"}
    Inputs <- MCInputs
    Spans <- TwoSpans
    Severities = {1, 2, 3, 4}
    MinSeverity = 2
    InlineMin = 3
    MaxFindings = 1
INVARIANTS
    HeadLinesAreReal
    NothingVanishes
    MostSevereInline
PROPERTIES
    FinishImplementsReview
CHECK_DEADLOCK FALSE
