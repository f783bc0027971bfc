SPECIFICATION Spec
CONSTANTS
    Hashes <- MCHashes
    MaxPaths = 3
    MaxOthers = 1
    OtherFiles <- MCOtherFiles
CHECK_DEADLOCK FALSE
INVARIANTS MergedSoFar ReportsDifference
