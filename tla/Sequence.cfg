SPECIFICATION MCSpec
CONSTANTS
    Commits <- Histories
    Heads <- Tips
    Chain <- FirstParents
    Anc <- Reachable
    GraphMode = "mirror"
    Consumers = {"c1"}
    Runners = {"d1"}
    Repairers = {"p1"}
    MaxPushes = 2
CHECK_DEADLOCK FALSE
INVARIANTS ApiNumberingIsChain HeadEndsRows AnalysisIsCurrent RowsHaveWork QuiescentCaughtUp 
PROPERTIES RowsAppendOnly RepairYieldsChain
