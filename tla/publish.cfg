CONSTANTS
    Findings = {f1, f2}
    Targets = {t1, t2}
    MaxFindings = 1
    PublishUncertain = FALSE
    Faults = {"network"}
SPECIFICATION Spec
SYMMETRY Symmetry
CHECK_DEADLOCK FALSE
INVARIANTS
    InlineOnce
    OneSummary
    PlannedIsInline
PROPERTIES
    CommentedIsRemembered
