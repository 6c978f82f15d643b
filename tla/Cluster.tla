------------------------------- MODULE Cluster -------------------------------
(***************************************************************************)
(* What the controllers of kube-valet share: the nodes and one group in    *)
(* the API server, the informer's cache of the group (resource_watcher.go  *)
(* makes one indexer for all of them), and the bounds of the models.       *)
(***************************************************************************)
EXTENDS Assignments

CONSTANTS
    Node,           \* names of nodes; the API lists them in this order
    Specs,          \* the specs that users give the group
    Faults,         \* the calls that may fail, "crash" for the process
    MaxEdits,       \* bound: changes made by users and other controllers
    MaxFaults       \* bound: failures

ASSUME NodeAssumption == Node \subseteq Nat /\ IsFiniteSet(Node)
ASSUME SpecsAssumption == Specs \subseteq NagSpec
ASSUME BoundsAssumption == MaxEdits \in Nat /\ MaxFaults \in Nat
ASSUME FaultsAssumption ==
    Faults \subseteq {"nodeList", "nodeGet", "nodePatch", "nagGet", "nagUpdate", "crash"}

VARIABLES
    (* the API server *)
    nodes,          \* the node objects; None for a node that does not exist
    nag,            \* the group, None when it does not exist
    version,        \* the last resource version given to the group
    (* the informer *)
    nagIndex,       \* the group in the indexer
    watch,          \* versions of the group the watch has not delivered
    (* bounds *)
    edits, faults   \* how much of the bounds is used

apiVars == <<nodes, nag, version>>
cacheVars == <<nagIndex, watch>>

\* `finalizers' counts the entries nag.finalizer.kube-valet.io, `others' says
\* whether packleft.nag.finalizer.kube-valet.io is present.
NagObject ==
    [spec: Specs, finalizers: Nat, others: BOOLEAN, deleting: BOOLEAN, rv: Nat]

Nags == NagObject \cup {None}

ASSUME NoNagAssumption == None \notin NagObject

NodeMap == [Node -> NodeObject \cup {None}]

Gone == [n \in Node |-> None]

\* A node as the kubelet registers it.
Fresh(labels) ==
    [labels |-> labels, assign |-> None, packleft |-> None, taints |-> {}, ready |-> TRUE]

-----------------------------------------------------------------------------

\* The API server stores a new version of the group, and the watch of the
\* informer will deliver it.
Store(obj) ==
    /\ version' = version + 1
    /\ nag' = IF obj = None THEN None ELSE [obj EXCEPT !.rv = version + 1]
    /\ watch' = Append(watch, nag')

\* An object that is being deleted goes when its last finalizer goes.
AfterFinalizers(obj) ==
    IF obj.deleting /\ obj.finalizers = 0 /\ ~obj.others THEN None ELSE obj
=============================================================================
