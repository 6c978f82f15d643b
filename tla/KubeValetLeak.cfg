SPECIFICATION ValetSpec
CONSTANTS
    Label = {}
    Protected = Protected
    AName = {nameA, nameD}
    None = None
    workerLabel = {}
    nameA = nameA
    nameB = nameB
    nameD = nameD
    Node = {1, 2}
    Pod = {}
    InitialPods <- NoPods
    Request <- NoRequests
    Allocatable <- Capacity
    Specs <- TaintedSpecs
    Edits = {"spec"}
    LastEdits = {"spec"}
    Faults = {}
    Recreation = FALSE
    MaxEdits = 2
    MaxFaults = 0
    MaxVersion = 4
INVARIANTS DeletedLeavesNothing
CHECK_DEADLOCK FALSE
