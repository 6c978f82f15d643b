SPECIFICATION FairControllerSpec
CONSTANTS
    Key = {nagKey}
    Label = {workerLabel}
    Protected = Protected
    AName = {nameA, nameB, nameD}
    None = None
    workerLabel = workerLabel
    nameA = nameA
    nameB = nameB
    nameD = nameD
    Node = {1, 2}
    Specs <- ConvergeSpecs
    Edits = {"spec", "addNode", "deleteTarget", "label", "taint", "finalizer"}
    LastEdits = {"spec", "addNode", "deleteTarget", "label", "taint", "finalizer"}
    Faults = {}
    Recreation = FALSE
    MaxEdits = 3
    MaxFaults = 0
    MaxVersion = 12
INVARIANTS ControllerTypeOK QuiescentMeansConverged
PROPERTIES EventuallyConverged OtherTaintsKept
CHECK_DEADLOCK FALSE
