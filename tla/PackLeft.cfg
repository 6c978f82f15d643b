SPECIFICATION PLControllerSpec
CONSTANTS
    Key = {nagKey}
    Label = {}
    Protected = Protected
    AName = {nameA, nameB, nameD}
    None = None
    workerLabel = workerLabel
    nameA = nameA
    nameB = nameB
    nameD = nameD
    bigPod = bigPod
    smallPod = smallPod
    Node = {1, 2, 3}
    Pod = {bigPod, smallPod}
    Labels = {nameA, None}
    InitialLabel = nameA
    InitialPods <- Running
    Request <- Requests
    Allocatable <- Capacity
    Specs <- BalanceSpecs
    Disturbances = {"group", "assign", "ready", "taint", "pod", "podDone"}
    Faults = {}
    MaxEdits = 2
    MaxFaults = 0
INVARIANTS FreshRunBalances
PROPERTIES OtherTaintsSurvive NoThrashing
CHECK_DEADLOCK FALSE
