SPECIFICATION Spec
CONSTANTS
    Label = {workerLabel}
    Protected = Protected
    AName = {nameA, nameB, nameD}
    None = None
    workerLabel = workerLabel
    nameA = nameA
    nameB = nameB
    nameD = nameD
    Node = {1, 2, 3}
    Specs <- AssignSpecs
    Edits = {"spec", "finalizer", "addNode", "deleteNode", "label", "protect", "taint"}
    LastEdits = {"spec", "finalizer"}
    Faults = {"nodeGet", "nodePatch", "nodeList", "nagGet", "nagUpdate", "crash"}
    Recreation = FALSE
    MaxEdits = 3
    MaxFaults = 1
    MaxVersion = 4
INVARIANTS TypeOK RunSatisfiesGroup PriorityRespected OnlySurplusMoves TracesImplyFinalizer
PROPERTIES NeverBare ImplementsFinalizerGuard
CHECK_DEADLOCK FALSE
