SPECIFICATION ValetSpec
CONSTANTS
    Label = {}
    Protected = Protected
    AName = {nameA, nameD}
    None = None
    workerLabel = {}
    nameA = nameA
    nameB = nameB
    nameD = nameD
    Node = {1, 2}
    Pod = {}
    InitialPods <- NoPods
    Request <- NoRequests
    Allocatable <- Capacity
    Specs <- BothSpecs
    Edits = {"spec"}
    LastEdits = {"spec"}
    Faults = {}
    Recreation = FALSE
    MaxEdits = 2
    MaxFaults = 0
    MaxVersion = 5
 
PROPERTIES NoLostWrites
CHECK_DEADLOCK FALSE
