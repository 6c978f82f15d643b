SPECIFICATION Spec
CONSTANTS
    Label = {workerLabel}
    Protected = Protected
    AName = {nameA, nameB, nameD}
    None = None
    workerLabel = workerLabel
    nameA = nameA
    nameB = nameB
    nameD = nameD
    Node = {1, 2}
    Specs <- PrioritySpecs
    Edits = {"spec", "deleteNode"}
    LastEdits = {"spec", "deleteNode"}
    Faults = {}
    Recreation = FALSE
    MaxEdits = 2
    MaxFaults = 0
    MaxVersion = 4
INVARIANTS HigherTakesFromLower
CHECK_DEADLOCK FALSE
