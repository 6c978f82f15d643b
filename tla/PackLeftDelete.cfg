SPECIFICATION FairPLControllerSpec
CONSTANTS
    Key = {nagKey}
    Label = {}
    Protected = Protected
    AName = {nameA, nameB, nameD}
    None = None
    workerLabel = workerLabel
    nameA = nameA
    nameB = nameB
    nameD = nameD
    bigPod = bigPod
    smallPod = smallPod
    Node = {1}
    Pod = {smallPod}
    Labels = {nameA, None}
    InitialLabel = nameA
    InitialPods <- Running
    Request <- Requests
    Allocatable <- Capacity
    Specs <- OneSpec
    Disturbances = {"group", "assign", "ready", "podGone", "addNode", "deleteNode"}
    Faults = {"nodePatch", "nagGet", "nagUpdate"}
    MaxEdits = 3
    MaxFaults = 1
INVARIANTS PLControllerTypeOK
PROPERTIES DeletionReleased
CHECK_DEADLOCK FALSE
