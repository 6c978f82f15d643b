-------------------------- MODULE PackLeftController --------------------------
(***************************************************************************)
(* packleft.Controller: the event handlers of                              *)
(* pkg/controller/scheduling/packleft/controller.go put the group into a   *)
(* RetryingWorkQueue with one worker, which runs the business logic of     *)
(* module PackLeft.  The node assignment controller is not running         *)
(* (--no-node-assignment): nodes are labelled by others.                   *)
(*                                                                         *)
(* An informer changes its indexer, calls the handlers, and takes the next *)
(* event of its kind only when they have returned.  The model takes both   *)
(* as one step: a run that reads the indexer in between finds the change,  *)
(* and the handler queues another one all the same.  Pods are known to     *)
(* packleft through the indexer only: the model holds no other copy.       *)
(***************************************************************************)
EXTENDS PackLeft, WorkQueue

CONSTANTS
    Disturbances,   \* what users, the scheduler and the kubelet may change
    Labels,         \* assignment labels that nodes may carry; None for no label
    InitialLabel    \* the one they have when the process starts

ASSUME DisturbancesAssumption ==
    Disturbances \subseteq {"group", "assign", "ready", "addNode", "deleteNode", "taint",
                            "pod", "podDone", "podGone"}
ASSUME LabelsAssumption == Labels \subseteq AName \cup {None} /\ InitialLabel \in Labels

VARIABLES
    plWorker,       \* where the worker is in processNextItem
    settled,        \* ghost: a fresh run has balanced the nodes, and nothing has
                    \*   changed since but by packleft
    gaveUp          \* ghost: the last run was one failure too many, and the queue
                    \*   has not handed the group out since

ghostVars == <<settled, gaveUp>>
clusterVars == <<apiVars, cacheVars, plCacheVars, edits, faults>>
plAllVars == <<clusterVars, nodeWatch, plVars, queueVars, plWorker, ghostVars>>

PLControllerTypeOK ==
    /\ PLTypeOK
    /\ QueueTypeOK
    /\ plWorker \in {"idle", "lookup", "busy", "finish"}
    /\ settled \in BOOLEAN /\ gaveUp \in BOOLEAN

NewNag(spec) ==
    [spec |-> spec, finalizers |-> 0, others |-> FALSE, deleting |-> FALSE, rv |-> 0]

\* The process starts in a cluster whose nodes are labelled; if there is a
\* group the informer is about to list it.
PLControllerInit ==
    /\ nodes = [n \in Node |-> [Fresh({}) EXCEPT !.assign = InitialLabel]]
    /\ nag \in {None} \cup {NewNag(spec) : spec \in Specs}
    /\ version = 0
    /\ nagIndex = None
    /\ watch = IF nag = None THEN <<>> ELSE <<nag>>
    /\ edits = 0
    /\ faults = 0
    /\ PLInit
    /\ QueueInit
    /\ plWorker = "idle"
    /\ settled = FALSE
    /\ gaveUp = FALSE

-----------------------------------------------------------------------------
(* The informers and their handlers. *)

AddIf(condition) ==
    IF condition THEN \E k \in Key : Add(k) ELSE UNCHANGED <<queue, dirty, processing>>

\* OnAddNag, OnUpdateNag and OnDeleteNag queue the group unconditionally.
PLDeliverNag ==
    /\ watch # <<>>
    /\ nagIndex' = Head(watch)
    /\ watch' = Tail(watch)
    /\ AddIf(TRUE)
    /\ UNCHANGED <<apiVars, plCacheVars, nodeWatch, edits, faults, plVars, waiting, failures,
                   plWorker, ghostVars>>

\* getNodeAssignmentGroupsWithPackLeft finds the group.
PackedBy(node) ==
    /\ nagIndex # None
    /\ TargetsNode(nagIndex.spec, node)
    /\ HasPackLeftAssignment(nagIndex.spec, node)

\* OnAddNode queues all groups, OnUpdateNode does so when targeting or
\* readiness have changed, OnDeleteNode queues the groups that pack the node.
PLDeliverNode ==
    /\ nodeWatch # <<>>
    /\ LET n == Head(nodeWatch).node
           old == nodeIndex[n]
           new == Head(nodeWatch).obj
       IN  /\ nodeIndex' = [nodeIndex EXCEPT ![n] = new]
           /\ AddIf(CASE new = None -> old # None /\ PackedBy(old)
                      [] old = None -> nagIndex # None
                      [] OTHER -> /\ nagIndex # None
                                  /\ \/ NodeTargetingHasChanged(old, new)
                                     \/ old.ready # new.ready)
    /\ nodeWatch' = Tail(nodeWatch)
    /\ UNCHANGED <<apiVars, cacheVars, podIndex, edits, faults, plVars, waiting, failures,
                   plWorker, ghostVars>>

\* ProcessPodNags looks for the node of the pod in the indexer.
Hosted(n) == n # None /\ nodeIndex[n] # None

-----------------------------------------------------------------------------
(* The worker. *)

PLDequeue ==
    /\ plWorker = "idle"
    /\ \E k \in Key : Get(k)
    /\ plWorker' = "lookup"
    /\ gaveUp' = FALSE
    /\ UNCHANGED <<clusterVars, nodeWatch, plVars, settled>>

PLLookupFound ==
    /\ plWorker = "lookup"
    /\ PLStart
    /\ plWorker' = "busy"
    /\ UNCHANGED <<nodeWatch, queueVars, ghostVars>>

PLLookupAbsent ==
    /\ plWorker = "lookup"
    /\ nagIndex = None
    /\ \E k \in processing : HandleErr(k, FALSE)
    /\ plWorker' = "finish"
    /\ UNCHANGED <<clusterVars, nodeWatch, plVars, ghostVars>>

PLRunStep ==
    /\ plWorker = "busy"
    /\ PLRun
    /\ WatchNodes
    /\ settled' = (settled \/ (EndRebalance /\ plClean /\ ~plFailed))
    /\ UNCHANGED <<queueVars, plWorker, gaveUp>>

PLRunReturns ==
    /\ plWorker = "busy"
    /\ plPc = "done"
    /\ \E k \in processing :
          /\ HandleErr(k, plErr)
          /\ gaveUp' = (plErr /\ Exhausted(k))
    /\ plWorker' = "finish"
    /\ UNCHANGED <<clusterVars, nodeWatch, plVars, settled>>

PLFinishItem ==
    /\ plWorker = "finish"
    /\ \E k \in processing : Done(k)
    /\ plWorker' = "idle"
    /\ UNCHANGED <<clusterVars, nodeWatch, plVars, ghostVars>>

PLRetryDue ==
    /\ \E k \in Key : Fire(k)
    /\ UNCHANGED <<clusterVars, nodeWatch, plVars, plWorker, ghostVars>>

-----------------------------------------------------------------------------
(* Users, the scheduler, the kubelet. *)

Disturb(kind) ==
    /\ kind \in Disturbances
    /\ edits < MaxEdits
    /\ edits' = edits + 1
    /\ plClean' = FALSE
    /\ settled' = FALSE
    /\ WatchNodes
    /\ UNCHANGED <<nagIndex, nodeIndex, faults, plPc, plLoopVars, plFailed, waiting, failures,
                   plWorker, gaveUp>>

DisturbNag(obj) ==
    /\ UNCHANGED <<nodes, podIndex, queue, dirty, processing>>
    /\ Store(obj)
    /\ Disturb("group")

DisturbNode(kind, n, obj) ==
    /\ nodes' = [nodes EXCEPT ![n] = obj]
    /\ Disturb(kind)
    /\ UNCHANGED <<nag, version, watch, podIndex, queue, dirty, processing>>

\* The informer of pods takes a change; its handler queues groups if `queued'.
DisturbPod(kind, p, obj, queued) ==
    /\ podIndex' = [podIndex EXCEPT ![p] = obj]
    /\ UNCHANGED <<nodes, nag, version, watch>>
    /\ AddIf(queued)
    /\ Disturb(kind)

PLCreateNag ==
    /\ nag = None /\ version = 0
    /\ \E spec \in Specs : DisturbNag(NewNag(spec))

PLUpdateNag ==
    /\ nag # None
    /\ \E spec \in Specs \ {nag.spec} : DisturbNag([nag EXCEPT !.spec = spec])

PLDeleteNag ==
    /\ nag # None /\ ~nag.deleting
    /\ DisturbNag(AfterFinalizers([nag EXCEPT !.deleting = TRUE]))

RelabelAssignment ==
    \E n \in Node, l \in Labels :
        /\ nodes[n] # None /\ nodes[n].assign # l
        /\ DisturbNode("assign", n, [nodes[n] EXCEPT !.assign = l])

\* The node is cordoned or loses its kubelet, or comes back.
ToggleReady ==
    \E n \in Node :
        nodes[n] # None /\ DisturbNode("ready", n, [nodes[n] EXCEPT !.ready = ~@])

ToggleTaint ==
    LET t == [key |-> "other", value |-> None, effect |-> "NoExecute"] IN
    \E n \in Node :
        /\ nodes[n] # None
        /\ DisturbNode("taint", n,
             [nodes[n] EXCEPT !.taints = IF t \in @ THEN @ \ {t} ELSE @ \cup {t}])

PLAddNode ==
    \E n \in Node, l \in Labels :
        nodes[n] = None /\ DisturbNode("addNode", n, [Fresh({}) EXCEPT !.assign = l])

PLDeleteNode ==
    \E n \in Node : nodes[n] # None /\ DisturbNode("deleteNode", n, None)

\* OnAddPod
AddPod ==
    \E p \in Pod, n \in Node \cup {None} :
        /\ podIndex[p] = None
        /\ DisturbPod("pod", p, [node |-> n, done |-> FALSE],
                      Hosted(n) /\ PackedBy(nodeIndex[n]))

\* OnUpdatePod for a pod that gets its node queues all groups.
SchedulePod ==
    \E p \in Pod, n \in Node :
        /\ podIndex[p] # None /\ podIndex[p].node = None
        /\ DisturbPod("pod", p, [podIndex[p] EXCEPT !.node = n], Hosted(n) /\ nagIndex # None)

\* ... and ignores every other update.
CompletePod ==
    \E p \in Pod :
        /\ podIndex[p] # None /\ podIndex[p].node # None /\ ~podIndex[p].done
        /\ DisturbPod("podDone", p, [podIndex[p] EXCEPT !.done = TRUE], FALSE)

\* OnDeletePod
DeletePod ==
    \E p \in Pod :
        /\ podIndex[p] # None
        /\ LET n == podIndex[p].node IN
           DisturbPod("podGone", p, None, Hosted(n) /\ PackedBy(nodeIndex[n]))

-----------------------------------------------------------------------------

PLWorkerNext ==
    \/ PLDequeue \/ PLLookupFound \/ PLLookupAbsent \/ PLRunStep \/ PLRunReturns
    \/ PLFinishItem

Disturbed ==
    \/ PLCreateNag \/ PLUpdateNag \/ PLDeleteNag
    \/ RelabelAssignment \/ ToggleReady \/ ToggleTaint \/ PLAddNode \/ PLDeleteNode
    \/ AddPod \/ SchedulePod \/ CompletePod \/ DeletePod

PLControllerNext ==
    \/ PLDeliverNag \/ PLDeliverNode \/ PLRetryDue \/ PLWorkerNext \/ Disturbed

PLControllerSpec == PLControllerInit /\ [][PLControllerNext]_plAllVars

\* Watches deliver, handlers run, delays end, the worker is scheduled.
PLControllerFairness ==
    /\ WF_plAllVars(PLDeliverNag)
    /\ WF_plAllVars(PLDeliverNode)
    /\ WF_plAllVars(PLRetryDue)
    /\ WF_plAllVars(PLWorkerNext)

FairPLControllerSpec == PLControllerSpec /\ PLControllerFairness

-----------------------------------------------------------------------------
(* Properties *)

\* balanceNodes: the order "must be deterministic when values are equal
\* otherwise there might be state thrashing".  Once a fresh run has balanced
\* the nodes, later runs change nothing until somebody else does, although
\* their caches may not show yet what the first one patched.
NoThrashing ==
    [][settled /\ settled' => nodes' = nodes]_plAllVars

\* A group that is being deleted is released in the end, although calls may
\* fail, before or after the API server has done what they ask for: every error
\* that CleanAllNodes and RemoveFinalizer meet goes back to the queue, which
\* tries again.  It is left only when the queue has used up its retries.
DeletionReleased == <>[](nag # None /\ nag.deleting => gaveUp)
=============================================================================
