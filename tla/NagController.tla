---------------------------- MODULE NagController ----------------------------
(***************************************************************************)
(* nodeassignment.Controller: the event handlers of                        *)
(* pkg/controller/nodeassignment/controller.go put the group into a        *)
(* RetryingWorkQueue with one worker, which runs ReconcileNag.  Composes   *)
(* NodeAssignment with WorkQueue: a run starts only when the queue hands   *)
(* out the key of the group.                                               *)
(*                                                                         *)
(* Informers call handlers after they have changed their cache, at some    *)
(* later time and in the order of the changes.  An update of a node that   *)
(* OnUpdateNode ignores is not kept in the model's event queue.  Restarts  *)
(* of the process are not part of this module.                             *)
(***************************************************************************)
EXTENDS NodeAssignment, WorkQueue

VARIABLES
    worker,         \* where the worker is in processNextItem
    nagEvents,      \* number of nag events whose handler has not run
    nodeEvents      \* node events whose handlers have not run

controllerVars == <<worker, nagEvents, nodeEvents>>
allVars == <<vars, queueVars, controllerVars>>

NodeEvent ==
    [type: {"add", "update", "delete"}, node: NodeObject]

ControllerTypeOK ==
    /\ TypeOK
    /\ QueueTypeOK
    /\ worker \in {"idle", "lookup", "busy", "finish"}
    /\ nagEvents \in Nat
    /\ nodeEvents \in Seq(NodeEvent)

ControllerInit ==
    /\ Init
    /\ QueueInit
    /\ worker = "idle"
    /\ nagEvents = 0
    /\ nodeEvents = <<>>

-----------------------------------------------------------------------------
(* Handlers. *)

\* The watch of nodes reports what a step did to node n.
Event(n) ==
    CASE nodes[n] = None /\ nodes'[n] # None ->
            <<[type |-> "add", node |-> nodes'[n]]>>
      [] nodes[n] # None /\ nodes'[n] = None ->
            <<[type |-> "delete", node |-> nodes[n]]>>
      [] nodes[n] # None /\ nodes'[n] # None
                /\ NodeTargetingHasChanged(nodes[n], nodes'[n]) ->
            <<[type |-> "update", node |-> nodes'[n]]>>
      [] OTHER -> <<>>

\* Somebody edits a node: at most one node changes.
EditNodes ==
    /\ NodeEdit
    /\ nodeEvents' = IF \E n \in Node : Event(n) # <<>>
                       THEN nodeEvents \o Event(CHOOSE n \in Node : Event(n) # <<>>)
                       ELSE nodeEvents
    /\ UNCHANGED <<queueVars, worker, nagEvents>>

EditGroup ==
    /\ NagEdit
    /\ UNCHANGED <<queueVars, controllerVars>>

\* The indexer takes a version of the group; its event will be handled.
Deliver ==
    /\ DeliverNag
    /\ nagEvents' = nagEvents + 1
    /\ UNCHANGED <<queueVars, worker, nodeEvents>>

\* OnAddNag, OnDeleteNag, and OnUpdateNag, for which every version delivered
\* has a new resource version.
OnNagEvent ==
    /\ nagEvents > 0
    /\ nagEvents' = nagEvents - 1
    /\ \E k \in Key : Add(k)
    /\ UNCHANGED <<vars, waiting, failures, worker, nodeEvents>>

\* Mutant of OnNodeEvent: deleted nodes are ignored.
OnNodeEventNoDelete ==
    /\ nodeEvents # <<>>
    /\ nodeEvents' = Tail(nodeEvents)
    /\ IF nagIndex # None /\ Head(nodeEvents).type # "delete"
         THEN \E k \in Key : Add(k)
         ELSE UNCHANGED <<queue, dirty, processing>>
    /\ UNCHANGED <<vars, waiting, failures, worker, nagEvents>>

\* OnAddNode and OnUpdateNode queue all groups of the indexer, OnDeleteNode
\* those that target the node.
OnNodeEvent ==
    /\ nodeEvents # <<>>
    /\ nodeEvents' = Tail(nodeEvents)
    /\ LET e == Head(nodeEvents) IN
       IF nagIndex # None /\ (e.type = "delete" => TargetsNode(nagIndex.spec, e.node))
         THEN \E k \in Key : Add(k)
         ELSE UNCHANGED <<queue, dirty, processing>>
    /\ UNCHANGED <<vars, waiting, failures, worker, nagEvents>>

-----------------------------------------------------------------------------
(* The worker: processNextItem with ReconcileNag as the business logic. *)

Dequeue ==
    /\ worker = "idle"
    /\ \E k \in Key : Get(k)
    /\ worker' = "lookup"
    /\ UNCHANGED <<vars, nagEvents, nodeEvents>>

LookupFound ==
    /\ worker = "lookup"
    /\ Start
    /\ worker' = "busy"
    /\ UNCHANGED <<queueVars, nagEvents, nodeEvents>>

LookupAbsent ==
    /\ worker = "lookup"
    /\ nagIndex = None
    /\ \E k \in processing : HandleErr(k, FALSE)
    /\ worker' = "finish"
    /\ UNCHANGED <<vars, nagEvents, nodeEvents>>

\* A patch of the run changes nothing that OnUpdateNode looks at.
RunStep ==
    /\ worker = "busy"
    /\ ReconcileNag
    /\ UNCHANGED <<queueVars, controllerVars>>

RunReturns ==
    /\ worker = "busy"
    /\ pc = "done"
    /\ \E k \in processing : HandleErr(k, err)
    /\ worker' = "finish"
    /\ UNCHANGED <<vars, nagEvents, nodeEvents>>

\* Mutant of FinishItem: Done is not called, so the key is never handed out
\* again.
FinishItemNotDone ==
    /\ worker = "finish"
    /\ worker' = "idle"
    /\ UNCHANGED <<queueVars, vars, nagEvents, nodeEvents>>

\* The deferred queue.Done.
FinishItem ==
    /\ worker = "finish"
    /\ \E k \in processing : Done(k)
    /\ worker' = "idle"
    /\ UNCHANGED <<vars, nagEvents, nodeEvents>>

RetryDue ==
    /\ \E k \in Key : Fire(k)
    /\ UNCHANGED <<vars, controllerVars>>

-----------------------------------------------------------------------------

WorkerNext ==
    Dequeue \/ LookupFound \/ LookupAbsent \/ RunStep \/ RunReturns \/ FinishItem

ControllerNext ==
    \/ EditNodes \/ EditGroup
    \/ Deliver \/ OnNagEvent \/ OnNodeEvent \/ RetryDue
    \/ WorkerNext

ControllerSpec == ControllerInit /\ [][ControllerNext]_allVars

\* Watches deliver, handlers run, delays end, the worker is scheduled.  Users
\* and other controllers owe nothing.
ControllerFairness ==
    /\ WF_allVars(Deliver)
    /\ WF_allVars(OnNagEvent)
    /\ WF_allVars(OnNodeEvent)
    /\ WF_allVars(RetryDue)
    /\ WF_allVars(WorkerNext)

FairControllerSpec == ControllerSpec /\ ControllerFairness

-----------------------------------------------------------------------------
(* Properties *)

NoTraces == \A n \in Node : nodes[n] = None \/ ~HasTraces(nodes[n])

\* The cluster is what the group asks for: a live group has its finalizer
\* and is satisfied, a deleted group has left no traces and does not hold
\* the deletion up.
Converged ==
    IF nag = None \/ nag.deleting
      THEN NoTraces /\ (nag # None => nag.finalizers = 0)
      ELSE Satisfied(nag.spec) /\ nag.finalizers > 0

\* Once users and other controllers stop making changes the group converges
\* and stays that way: every change that matters queues the group, whatever
\* run it overtakes.
EventuallyConverged == <>[]Converged

\* Nothing is left to be handled, retried or run.
Quiescent ==
    /\ watch = <<>> /\ nagEvents = 0 /\ nodeEvents = <<>>
    /\ dirty = {} /\ waiting = {} /\ worker = "idle"

\* Whatever is reported while a run is under way, nothing is forgotten: when
\* the controller has no event, no queued key and no run left, the cluster is
\* what the group asks for.
QuiescentMeansConverged == Quiescent => Converged

\* updateNodeSets: "Always unassign nodes assigned to assignments that are no
\* longer in the group".
UnknownAlwaysUnassigned ==
    Quiescent /\ nag # None /\ ~nag.deleting =>
        \A n \in Node :
            nodes[n] # None /\ IsAssigned(nodes[n])
                => GetAssignment(nodes[n]) \in KnownAssignments(nag.spec)
=============================================================================
