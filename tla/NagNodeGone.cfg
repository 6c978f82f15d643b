SPECIFICATION ControllerSpec
CONSTANTS
    Key = {nagKey}
    Label = {workerLabel}
    Protected = Protected
    AName = {nameA, nameB, nameD}
    None = None
    workerLabel = workerLabel
    nameA = nameA
    nameB = nameB
    nameD = nameD
    Node = {1, 2}
    Specs <- NarrowedSpecs
    Edits = {"spec", "deleteNode"}
    LastEdits = {"spec", "deleteNode"}
    Faults = {}
    Recreation = FALSE
    MaxEdits = 3
    MaxFaults = 0
    MaxVersion = 12
INVARIANTS UnknownAlwaysUnassigned
CHECK_DEADLOCK FALSE
