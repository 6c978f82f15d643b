# TLA+ models of kube-valet

kube-valet assigns the nodes of a Kubernetes cluster to groups: a
`NodeAssignmentGroup` (nag) says which nodes it targets and how many of them
each of its assignments wants, and the controller keeps labels and taints of
the nodes in line with it. Two more parts use these labels: *packleft*
scheduling, which concentrates pods on few nodes of an assignment, and the pod
assignment webhook, which gives pods node selectors, affinities and
tolerations. Several replicas of the process may run; the controllers act in
the elected one only, the webhook in all of them.

This directory has the TLA+ modules that model the system, TLC configurations
that check them on small instances, and theorems that the TLA+ proof system
checks for all instances. `PROJECT.json` holds the index: which definition
models which lines, what every run checks, the hazards and the findings.

1. [Inventory](#inventory)
2. [Modules](#modules)
3. [Runs](#runs)
4. [Proofs](#proofs)
5. [Findings](#findings)
6. [Not modelled](#not-modelled)
7. [Plan](#plan)

## Inventory

### Components

| component | source | state | operations |
|---|---|---|---|
| retrying work queue | `pkg/queues/retrying_work_queue.go` | client-go's FIFO, dirty and processing sets, delayed adds, failure counts | `AddItem`, `processNextItem`, `handleErr` |
| types and helpers | `pkg/apis/assignments/v1alpha1/{types,helpers}.go` | none (pure) | `TargetsNode`, `GetAssignment`, `Assign`, `Unassign`, `SetTaint`, `RemoveTaint`; `RemoveLabel`, `SetLabel` |
| pod rules | the same files | none (pure) | `TargetsPod`, `GetMergeStrategy`, `GetPatchOps` |
| utils | `pkg/utils/utils.go` | none (pure) | `NodeTargetingHasChanged`, `FilterValues`, `IsEmptyPatch` |
| node assignment writer | `pkg/controller/nodeassignment/writer_context.go` | copies of the nodes, the targeted nodes, the nodes unassigned in memory, the missing counts | `Update`, `Reconcile`, `UnassignNodeByName`, `UnassignAllNodes`, `UpdateNodeAssignment` |
| node assignment manager | `pkg/controller/nodeassignment/manager.go` | none; finalizers live in the API | `ReconcileNag`, `AddFinalizer`, `RemoveFinalizer` |
| node assignment controller | `pkg/controller/nodeassignment/controller.go` | a queue of group keys | `OnAdd/Update/DeleteNode`, `OnAdd/Update/DeleteNag`, `Run` |
| packleft | `pkg/controller/scheduling/packleft` | a queue of group keys; labels and taints on nodes | `RebalanceNag`, `CleanAllNodes`, `CleanUnassignedNodes`, `ensureFinalizer`, `RemoveFinalizer`; handlers of nodes, groups and pods |
| resource watcher, election | `pkg/controller/resource_watcher.go`, `controller.go`, `main.go` | informers and their indexers, the registered controllers, the lease | `Run`, `StartElectedComponents`, `StopElectedComponents` |
| pod assignment | `pkg/controller/podassignment` | caches of rules; a queue that nothing runs | `PodIsProtected`, `GetPodAssignmentsScheduling`, `GetPodSchedulingPatches` |
| webhook | `pkg/webhook/server.go` | the listener, the reviews under way | `Run`, `mutateHandler`, `mutatePod` |
| valetctl | `bin/valetctl.go` | none | `group create`, `assignment create`, reports |

### Interactions

Informers keep caches (indexers) of groups, nodes and pods and call the
handlers of the registered controllers after each change. Handlers put the key
of a group into the controller's queue; a worker takes the key, reads the group
*from the cache*, and calls `ReconcileNag`. `ReconcileNag` lists the nodes
*from the API*, patches them one by one with strategic merge patches, and adds
or removes a finalizer of the group with get and update, retried on conflict.
packleft does the same with its own queue, worker and finalizer, from cached
nodes and pods. Users, kubelets, the node lifecycle controller and valetctl
write the same objects at any time. Only the group's updates are protected by
a resource version; patches of nodes are not.

The API server calls the webhook for every pod that is created. The webhook asks
the pod assignment manager, which reads the two kinds of rules from their
indexers, and answers with one JSON patch. Rules and groups are made by
valetctl, among others; the rules' tolerations have to fit the taints that
groups put on nodes.

### What is hard here

* A run works on three views that disagree: the cached group, the nodes as
  they were listed, the API.
* Others write between any two API calls. Labels are merged by key, the taint
  list is replaced as a whole.
* Calls fail, before or after they took effect; many errors are only logged.
* The process may die, or lose the lead, between two calls.
* Which event starts a run is decided by filters (`NodeTargetingHasChanged`,
  `TargetsNode` of a deleted node, resource versions); an event that is
  filtered out, or that arrives during a run, must not be needed or not be
  lost.
* Retries with a delay race with events for the same key.
* packleft and node assignment patch the same nodes from copies that the other
  makes stale, and write the same group.
* The lease is the only lock on the nodes, and it is kept by timers of different
  machines; a leader learns late that it leads no more.
* Two caches of rules advance independently, and are read one after another.

The list, with the line where each hazard bites and the properties that would
catch it, is `hazards` in `PROJECT.json`.

### What makes the components correct

* *Queue*: a key is never processed twice at once; the latest version of an
  object is processed or given up on after five retries; a slow worker does not
  record an old version over a new one.
* *Writer*: one undisturbed run gives every assignment what it desires, in the
  order of priority, moving surplus nodes only, never leaving a node of a group
  with a default without its label, never touching taints of others.
* *Manager*: while a node carries the group's label or taint the group has the
  finalizer, so that a deleted group cannot go before its traces; the nodes for
  which the code does not achieve this are named (`spilled`).
* *Controller*: when nothing is left to handle the cluster is what the group
  asks for; it gets there once users stop.
* *packleft*: a run on fresh caches packs every assignment to the left; what it
  has done is stable; a group that is being deleted is released.
* *Both controllers*: neither loses what the other, or a user, has written.
* *Election*: the controllers of one replica act at a time, and some replica's do.
* *Webhook*: a pod gets the rules that stand, namespaced ones before those of the
  cluster, and ends up with tolerations for the nodes it is sent to.

## Modules

| module | models | extends |
|---|---|---|
| `WorkQueue` | client-go's rate limiting queue as far as it is used (external), and `handleErr` | |
| `RetryingWorkQueue` | `AddItem`, `Run`, `processNextItem` with any number of workers and keys | `WorkQueue` |
| `Assignments` | types, helpers, `NodeTargetingHasChanged`, the counting of `WriterContext`, the strategic merge patch; pure operators | |
| `NodeAssignment` | `ReconcileNag` with its `WriterContext`, `AddFinalizer`, `RemoveFinalizer`; everybody else; refines `FinalizerGuard` | `Cluster` |
| `NagController` | the handlers and the worker of `nodeassignment.Controller`; composes the queue and the manager | `NodeAssignment`, `WorkQueue` |
| `FinalizerGuard` | abstract: what a finalizer promises, with three variables | |
| `Cluster` | the nodes, the group, its informer's cache, the bounds: what the two controllers share | `Assignments` |
| `PackLeft` | `packleft.Manager` and one run of the controller's business logic, over cached nodes and pods | `Cluster` |
| `PackLeftController` | the handlers and the worker of `packleft.Controller`; everybody else who changes nodes and pods | `PackLeft`, `WorkQueue` |
| `KubeValet` | node assignment and packleft on the same nodes and group | `NodeAssignment`, `PackLeft` |
| `Election` | replicas, the lease, the callbacks that register the controllers, informers | |
| `PodRules` | rules of pods, their patch operations, the rules and groups valetctl makes; pure operators | `Assignments` |
| `PodAdmission` | the caches of rules, the webhook's server, one admission per pod | `PodRules` |
| `MCGroups`, `MC...` | constants for TLC | |
| `...Proofs` | theorems about the module of that name, `PackLeftProofs` about `PackLeftController`, too; `ReconcileProofs` is about `NodeAssignment` | the module, `TLAPS` |

### How the state corresponds to the code

`RetryingWorkQueue`. The variables of `WorkQueue` are the fields of client-go's
queue. `version` and `present` are the indexer, `notify` the handlers that have
not run. A worker's `phase` is its place in `processNextItem`: `lookup` after
`Get`, `busy` in the business logic, `finish` before the deferred `Done`.
`synced` and `dropped` are history: the last version processed without an
error, and the keys given up on.

`Assignments`. One group is considered, so the label keys that carry its name
are the fields `assign` and `packleft` of a node, and the taints are told apart
by whose they are. All other labels are a set of key=value pairs. Names of
assignments are atomic values. Taints are a set: the API rejects two taints
with the same key and effect, and no operation depends on their order.
`Desired` computes with integers what the code computes with `float32`; the two
agree as long as nodes times percentage is below 2^24, which every cluster
satisfies. `PercentDesired` and `NumDesired` are natural numbers. A `Mode` that
is none of the three defined ones is not considered.

`NodeAssignment`. `nodes`, `nag`, `version` are the API server; `nagIndex` and
`watch` the informer's cache and the versions on their way to it. The run has
the fields of `WriterContext` (`wcNag`, `targeted`, `unassigned`, `changes`),
its copies of the nodes (`mem`), the nodes its current loop has not visited
(`todo`) and its place `pc`:

| `pc` | code | actions |
|---|---|---|
| `list`, `sets` | `updateNodeSets` | `ListNodes`, `UnassignUntargeted` |
| (end of `sets`) | the rest of `Update`, the branch of `ReconcileNag` | `Decide` |
| `addGet`, `addUpdate` | `AddFinalizer` | `AddGet`, `AddUpdate`, `AddRetry`, `AddFails` |
| `reconcile`, `default` | the first loop of `Reconcile` | `KeepNode`, `ReleaseNode`, `AssignNode`, `ApplyDefault`, `EndAssigning` |
| `cleanup`, `cleanupPatch` | its second loop, `UnassignNodeByName` | `CleanupGet`, `CleanupPatch`, `EndReconcile` |
| `unassignList`, `unassignAll` | `UnassignAllNodes` | `UnassignList`, `UnassignNode`, `EndUnassign` |
| `removeGet`, `removeUpdate` | `RemoveFinalizer` | `RemoveGet`, `RemoveUpdate`, `RemoveRetry`, `RemoveFails` |

An action makes at most one API call. What the code does in memory between two
calls is part of one of them. The loop of `updateNodeSets` changes only copies
for all nodes but those it patches, so `ListNodes` does that work at once and
`UnassignUntargeted` takes it back for the nodes behind a patch that failed:
the code leaves the loop there. Ends of errors are as in the code: an error of
`updateNodeSets` and of `assignNode` is dropped, one of the default assignment
is returned, those of `UnassignAllNodes` and `RemoveFinalizer` are dropped.

The ghosts are `listed` (the nodes as the run found them), `clean` (the run has
the current group, and nobody else has written since it listed the nodes),
`failed` and `spilled`. `edits`, `LastEdits`, `faults` and `MaxVersion` only
bound the exploration. Packleft appears as one action of others, `OtherFinalizer`, which
`KubeValet` leaves out in favour of the real one.

A failing call of a patch or an update of the group may have taken effect, its
reply being lost (`PatchFails`, `Answered`). The process may die at any point of
a run, and another replica may take the lead (`Crash`). A process that starts
lists the group. The informer of a replica that stood by has been running all
the time, may be behind the one of the leader before, and lists nothing when it
is elected (`resource_watcher.go:86`, `223`). So the cache of the next leader is
any version of the group from the first to the last: `past` keeps those that
were delivered, and `TakeOver` cuts the versions at the point the new leader has
got to. `NagController` and `KubeValet` have one process, and no change of leader.

`spilled` are the nodes that the code leaves to themselves: the patch of
`UnassignAllNodes` failed on them, or its list of all nodes did, and no later
patch of it has succeeded (`writer_context.go:301`, `307`); or a replica has
taken the lead whose cache still shows a live group with the finalizer when the
group has none. `TracesImplyFinalizer` speaks of all other nodes.

`NagController`. `nagEvents` and `nodeEvents` are events whose handlers have not
run; `worker` is the place of the one worker that `main.go` starts (its flag
for more is commented out). Node updates that `OnUpdateNode` ignores leave no
event. The patches of a run change only labels with `kube-valet.io` in their
key and taints, which `NodeTargetingHasChanged` does not look at, so a run
starts no other run, and `RunStep` adds no event.

`FinalizerGuard`. `Guarding` in `NodeAssignment` maps its variables: `phase` is
whether the group exists and is being deleted, `guarded` whether it has the
finalizer of node assignment, `traces` whether a node that is not `spilled`
carries the group's label or taint. `ImplementsFinalizerGuard` is the abstract
specification under this mapping.

`PackLeft`. `nodeIndex` and `podIndex` are indexers, `nodeWatch` the changes of
nodes on their way. The run's place is `plPc`:

| `plPc` | code | actions |
|---|---|---|
| `ensureGet`, `ensureUpdate` | `ensureFinalizer` | `EnsureGet`, `EnsureUpdate`, `EnsureRetry`, `EnsureFails` |
| `groups`, `balance` | `RebalanceNag`, `balanceNodes` | `ListGroups`, `BalanceNodes`, `SendState` |
| `cleaning` | `CleanUnassignedNodes` | `CleanUnassigned`, `SendClear`, `EndRebalance` |
| `deleteAll`, `deleting` | `CleanAllNodes` | `CleanAll`, `SendDelete` |
| `deleting` (end), `removeUpdate` | `RemoveFinalizer` | `PLRemoveGet`, `PLRemoveUpdate`, `PLRemoveRetry`, `PLRemoveFails` |

`balanceNodes` computes all states before the first patch (each state depends on
the sorted list only), so `BalanceNodes` makes the whole `plan` of patches and
`SendState` sends them one by one, each from the copy the cache had. Percentages
are fractions compared by cross multiplication where the code has `float64`; the
results agree for the exact halves and fifths of the instances, and a quotient
that `float64` rounds onto the limit is not considered. `sort.Slice` is not
stable: the model takes every order that the comparison allows. `Allocatable` is
positive; a node that reports none would have a NaN or infinite percentage.

`PackLeftController`. An informer changes its indexer and calls its handlers in
one step, as the next event waits for the handlers, and a run that reads the
indexer in between finds the change and is queued all the same. The indexer of
pods is the only copy packleft has, so a change of a pod is the change of the
indexer. `settled` is history: a fresh run has ended, and only packleft has
changed anything since. `gaveUp` is, too: the last run was one failure too many
for the queue, which has dropped the group.

`KubeValet` has no queues: a run of either controller may start whenever the
indexer holds the group, which is every order the queues allow, and more.

`Election`. The lease is the record in the config map (`holder`), and for each
replica whether its elector has seen the record as it is (`known`), for how long
(`watched`), and for how long it has led without a renewal (`sinceRenew`). Time
is `Tick`; a leader whose renewal is due renews, fails, or stops before time goes
on, so that no timer fires late. This is what client-go relies on too: it
compares local times only, and a process that is paused for longer than the
lease is out of its, and of this model's, reach. `registered` is the list of
controllers of `ResourceWatcher`, `index` how many changes the informer has
taken, `queued` whether the work queue holds something.

`PodAdmission`. All versions of the two kinds of rules are kept, as the property
speaks of the rules that stood during an admission; `seen` is the version in a
replica's indexer. An admission reads the rules in two steps, `Receive` and
`ReadNamespaced`, in the order of the code, and each of them in any order inside
the kind, as an indexer is a map ("TODO make this ordered!" says the code). The
API server applies the operations in order; a `replace` of a member that a pod
lacks adds it, as the JSON patch library of the API servers of that time does.

## Runs

`tlc -config X.cfg M` with the module and cfg `PROJECT.json` names. Deadlock is
not checked: edits are bounded, and a cluster nobody edits comes to rest.

| run | instance | shows |
|---|---|---|
| `queue` | 1 key, 2 workers, 4 versions, failing indexer | `ExclusiveProcessing`, `NoLostUpdate`, `NoRegress`, `EventuallyHandled` |
| `nag_reconcile` | 3 nodes, 2 specs, 3 edits: the group, packleft's finalizer, and, but for the last one, labels, protection, taints, deletion and return of nodes; 1 fault: any patch, list or read of nodes, any read or write of the group, a crash or change of leader | `RunSatisfiesGroup`, `PriorityRespected`, `OnlySurplusMoves`, `NeverBare`, `TracesImplyFinalizer`, `ImplementsFinalizerGuard` |
| `nag_converge` | controller, 2 nodes that come and go, 2 specs, 3 edits of specs, labels, taints, nodes, finalizers | `QuiescentMeansConverged`, `EventuallyConverged`, `OtherTaintsKept` |
| `pack_left` | controller, 3 nodes of different size, 2 pods, 2 specs, 2 edits of 6 kinds | `FreshRunBalances`, `OtherTaintsSurvive`, `NoThrashing` |
| `pack_left_delete` | controller, 1 node, 1 pod, 3 edits: the group, the node's assignment, readiness, deletion and return, the pod; 1 failing call or lost reply | `DeletionReleased` |
| `kube_valet` | both controllers, 2 nodes, 2 specs, 2 edits of the group | `AssignedDespitePacking`, `NoLostWrites` |
| `election` | 2 replicas, 2 changes, 2 faults (crash, lost pod, lost or failing renewal), lease 3, deadline and retry 1 | `OneActs`, `EventuallyLed`, `LaterChangesHandled` |
| `pods` | 1 replica, 1 pod of 4, 5 commands, 3 groups, 3 edits of rules, 1 crash or failing listener | `StandingRulesApply`, `NamespacedRulesWin`, `MembersAccept`, `EventuallyCreated` |
| `nag_node_gone` | controller, 2 nodes, 2 specs, a node that is deleted | violates `UnknownAlwaysUnassigned` |
| `nag_priority` | 2 nodes, 1 spec, 2 edits: the group, deletion of a node | violates `HigherTakesFromLower` |
| `kube_valet_leak` | both controllers, 2 nodes, 1 spec, 2 edits of the group | violates `DeletedLeavesNothing` |
| `election_resync` | 2 replicas, 1 change, no faults | violates `MissedChangesHandled` |

### Why the bounds are enough

*Queue.* Two workers are needed for a clash, and a clash is about one key; a
second key meets the first one in the FIFO only, whose order no property
depends on, and the proofs are for any keys. Four versions let a change arrive
in each of the places a key can be in. The retry limit of five is not reduced.

*Assignment.* Three nodes are the least at which a percentage (50%) rounds down, a
count is in surplus by one and another assignment misses one. The two specs
disagree on everything: the order of the assignments, who is tainted, counts
against percentages, whether there is a default and which nodes are targeted, so
that changing one for the other moves nodes in every way the code distinguishes.
Every initial cluster is tried (any node absent, or with or without the label).
One edit creates the group; one of the other two changes it, deletes it, or
happens to a node or to packleft's finalizer, and the last one (`LastEdits`) to
the group or packleft's finalizer, each at any point of a run. So a node leaves
the group by a change of the spec or of its labels, by becoming protected, or by
being deleted, or joins it, before the group is changed or deleted, and while no
edit follows; what edits of nodes do after two of the group is in `nag_converge`,
on two nodes. One fault reaches the error path of every call, `UnassignAllNodes`
and its list included, and every point for a crash or a change of leader.
Behaviours with two failures of node assignment are covered by proofs only.

*Finalizer.* Five updates of the group by the controller and others between the
get and the update of one attempt would need more edits than a run has; the
bound of five attempts is reached in no run, and the proof does not depend on
it. `MaxVersion` is the revision from which on no new run starts. Stale runs may
add the finalizer again and again, so that `Spec` alone has no bound on
revisions. With 4, in `nag_reconcile`, a group can be created, guarded, changed
or deleted, and reconciled or cleaned up after that; a run that the third edit,
or a leader whose cache lags, needs after the fourth revision does not start. So a
lagging leader starts runs while the group is being deleted, and none after the
finalizer is gone: that part of the exemption of `spilled` is covered by the
proof only, where there is no such bound. In the runs of the controller
12 is more than the edits and the runs they cause use up, as
`EventuallyConverged` would fail if a queued group were kept from its run.

*packleft.* Three nodes are the least for one of each state, and for a buffer of
67 % that rounds down to two. The small pod fills the cpu of the small node, on
which it runs from the start (`InitialPods`); the big pod, which is created
later, takes four fifths of the memory of any node, which is over the limit of
one spec and exactly the default limit of the other. So a full node is first in
the order, last, or absent, and there may be two of them. Two edits give each
pair of kinds in every order and at every point of a run: the caches lag behind
by them and by the run's own patches. `pack_left` has the edits of the group,
labels, readiness and taints of nodes, and new, scheduled and completed pods.
`CleanAllNodes` patches only nodes that have left their assignment or are not
ready, with the state of an earlier run still on them. So `pack_left_delete` has
edits of labels and readiness, next to the deletion and return of the node and
the end of the pod: a group exists at the start or is created, a run labels the
node, the node leaves, the group is deleted, and the patch of `CleanAllNodes` is
among the calls that fail or whose reply is lost. One node is enough, as the
error path of a patch ends the run whatever is behind it. The patch of a node that
is gone fails without being counted as a fault, as often as a stale cache leads
to it.

*Both controllers.* One node of the first assignment, the rest in a packed
default, so that node assignment moves a node while packleft labels it; two
users' edits change the spec in between or delete the group. `MaxVersion` 5 is
one for the creation and one for each finalizer, added and removed. As in
`nag_reconcile` no new run starts after it.

*Election.* Two replicas make a leader and a candidate; the proof of `OneActs`
is for any number. The durations have the order that the flags of `main.go`
have (retry < deadline < lease, 2 s, 10 s and 30 s), with `RetryPeriod +
RenewDeadline < LeaseDuration` as small as it can be, so that the old leader's
end and the new one's start are one tick apart. Two faults give a crash of the
new leader after one of the old, or a crash while an answer is lost.

*Pods.* The commands make each kind of rule the command line can: of a cluster
and of a namespace, required, preferred, for a selector, for other pods, with
both `-A` and `-a`. Three edits give two standing rules and one that comes or
goes between the two lists, or two versions of which the replica has seen one.

### Fairness

`RetryingWorkQueue`: handlers run, delays end, workers are scheduled (weak
fairness). The business logic may fail any number of times: nothing is assumed
of its result, only that it returns; an unchanged object is then dropped after
five retries. `NagController`: weak fairness of the watch, the handlers, the
delays and of the worker as a whole, as a goroutine that is runnable is
scheduled and API calls return. Users, kubelets and packleft owe nothing, and
faults are never required or excluded by fairness. `PackLeftController`: the
same of its watches, delays and worker. `Election`: time passes, and every
replica's own steps are taken if they stay possible; none of the faults is
fair. `PodAdmission`: processes run, replies arrive, and who wants a pod asks
again, as the controllers of Kubernetes do; that a pod is asked for again until
it is there is an assumption on them, not on kube-valet. Convergence is claimed for
runs in which calls do not fail, as an error of `updateNodeSets` is dropped
without another run; see Findings. The deletion by packleft is claimed with
failures, which go back to the queue. `MaxFaults` is less than the queue's five
retries, but patches of a node that is gone are not counted: with a stale cache
they can use up the retries before the watch delivers the deletion. The queue
then drops the group, and nothing handles it until its next event, so
`DeletionReleased` allows for a group that the queue has given up on (`gaveUp`),
and for no other.

## Proofs

All constants are arbitrary up to the `ASSUME`s: any finite set of nodes, any
specs, any set of edits, any bounds. The bounds on edits and faults only occur in
type invariants that state them (`PodTypes`); no other theorem depends on a bound.

A theorem has the form `Spec => []Inv`, for an `Inv` that a run checks. Where
it needs more than the `ASSUME`s, the condition is a definition of its own in
front of it (`AllDistinct`, `AllReported`, `OtherAffinities`), or is the constant
`Recreation` being false, and the text below says why it is needed and which
states satisfy it.

### `RetryingWorkQueueProofs`

`TypeCorrect`, `KeysProcessedExclusively`, `UpdatesNotLost`,
`SyncedNeverRegresses`, for any keys and workers. None of these is inductive.
The invariant `IInv` adds what ties the queue to the workers: a key is in the
FIFO at most once, and exactly if it is dirty and not being processed; the keys
being processed are those that workers hold, one each; a worker that has read
an object has seen a version between the one last recorded and the current one,
and `Done` has not been called for it. From these, a second worker cannot get
the key (exclusive), and a change after the read leaves its key in `notify`,
`dirty` or `waiting` (not lost).

### `NodeAssignmentProofs`

`TypeCorrect` shows that a run never touches a node that its list did not have:
`TypeOK` with `MemInv` (in every loop, what `todo`, `targeted` and `at` name is
in `mem`).

`FinalizerGuardsTraces` is the safety of deletion, `TracesImplyFinalizer`, for
any set of faults. Its one condition is `~Recreation`, that a deleted group is not
created again; with `Recreation` the property is false (see Findings). Stale
caches, conflicts, lost replies, failing calls of every kind, crashes, changes of
leader, and edits by everybody are allowed. Without the exemption of `spilled` it
would be false: a discarded error of `UnassignAllNodes` leaves its node as it is,
and a leader whose cache lags can start a run for a group that has lost its
finalizer. The exemption is no larger than that: a node enters `spilled` by its own
failing patch, and all of them do by the failing list or such a change of leader.

The property alone is not inductive, since a run acts on what it saw long ago. The
strengthening has three parts:

* `ViewInv` relates the places where versions of the group are held: the API, the
  run, and `AllVersions`, the row of all versions that have been delivered or are
  on their way, with the cache at a place of it. `VersionInv`: the group has the
  last version given, and a copy with that version is the group, so that an update
  without conflict changes only what it means to. `DeletionInv`: deletion is final
  along the row (`DeletionLasts`), and a run that saw it is not ahead of the
  cache. `FinalizerInv`: once the finalizer is gone, nothing from the cache on
  shows a group to be reconciled (`InactiveFrom`), as it is only removed by a run
  that has seen the deletion; or a leader has taken over that is behind this
  place, and no node is claimed.
* `PhaseInv`: a run that reconciles saw a live group with the finalizer, a run
  that cleans up saw the group deleted.
* `CleanupInv`: in a cleanup the nodes already visited have no traces, but for
  those of failed patches, and nobody puts them back: only a reconciling run
  does, and there is one worker.

`RemoveUpdate` is then the one step that removes the finalizer, and it is taken
only when all nodes that are not spilled are without traces. Patches that unassign
never create traces, whatever copy they are computed from.

### `ReconcileProofs`

About runs that nobody disturbs (`clean`: the run saw the current group, and
nobody else has written since it listed the nodes).

`OtherTaintsAreKept` and `ReassignmentsAreAtomic` hold with any failing calls.
Neither property says anything of the run's memory, which both depend on;
`CleanInv` does:

* `CopiesInv`: the run's copies, and those `UnassignNodeByName` reads again,
  have the same foreign taints as the nodes. So the list that a patch replaces
  is the same list as far as others are concerned (`PatchKeeps`).
* `SparedInv`: a node that is unassigned in memory only is still in the loop that
  assigns, and one that the loop leaves is in no list of what is cleaned; with a
  default the loop skips none of them (`ApplyDefault`), and an error ends the run
  before the cleanup. What `updateNodeSets` and `UnassignNodeByName` do clean is
  not of the group. The nodes of the group do not change meanwhile
  (`TargetsKept`).

`OneRunSatisfiesGroup`, `NodesGoInOrder` and `OnlySurplusIsMoved` are what such
a run has achieved at its end if none of its calls failed: the controller
reaches the user's intent in one run, whatever earlier runs, crashes and edits
have left. They need `AllDistinct`: no two assignments of a spec, the default
included, have the same name. The code keeps its counts in a map by name, and
nothing rejects such a spec. Without the condition they are false: of two
assignments of one name, both counts end in the same entry. All specs of the
runs are distinct.

The argument is book-keeping. `HeldNow` is what each node of the group is
assigned to in the eyes of the run, which is its label, or nothing if it was
unassigned in memory only; `HeldBefore` is the same when the run listed the
nodes. `BookInv` relates both to `changes`, the map of `AssignmentChanges`:

* `Counted`: what an assignment holds plus its change is what it desires, so each
  entry of the loop (keep, release, assign) is paid for in `changes`.
* `Bounded`: what it holds less the nodes that are still to be visited is
  not over what it desires. A surplus is thus gone when the loop ends.
* `Served`: an assignment that misses nodes when nothing is left to visit has no
  free node and none of the default to take.
* `OneWay`: an assignment loses nodes or gains nodes in a run, not both: it
  releases only below zero, and is served only above.
* The order: a node goes to a later assignment only when the earlier ones have
  their number, which never turns again.

The lemmas up to `ClosedBook` are about books alone, with cardinalities
from `FiniteSetTheorems`; the rest shows that a step of `ReconcileNag` makes one
entry (`RunLabel`), that everybody else ends `clean` or leaves labels alone
(`OthersLabel`), that an undisturbed run returns no error (`NoErrInv`), and that
a node without a tainted assignment has no taint of the group at the end
(`TaintInv`).

### `ElectionProofs`

`ElectionTypes` and `ElectionOneActs`, for any replicas and any durations with
`RetryPeriod + RenewDeadline < LeaseDuration` (`DurationsAssumption`; the
defaults satisfy it, and client-go refuses a lease not longer than the
deadline). `IInv` relates three ages: what a replica has watched of a record is
no older than the record (`WatchersAreYoung`), the record is no older than what
its leader has gone without a renewal (`LeadersHold`), and no leader goes
without one for longer than its patience (`TypeOK`). So nobody who knows the
record has watched it for `LeaseDuration` while its leader has not stopped
(`LeaseProtects`), and only the holder's controllers are registered or have a
queue (`OnlyLeadersAct`). `OneActs` alone is not inductive: it says nothing of
when the lease may be taken.

### `PodAdmissionProofs`

`StandingRules`, for any replicas, pods, rules, crashes and failures. The
argument is about versions of the stores (`PInv`): versions are never rewritten
(`StoresInv`); the indexers of a process are between the version that was
current when it started and the current one, and those of a process that serves
have been listed (`SpansInv`, the place where `waitForCacheSync` is needed);
what an admission has read of a kind is what matched in one version of that span
(`PodsInv`). `StandingRulesApply` follows, as a rule that stood for the whole
span is in that version, too. The span of a pod is cut off when the pod is
stored, and later versions do not change it.

The other two are about the operations. `JsonPatched` is a fold, and
`SchedulingPatches` flattens a list of lists; what they make of a list of any
length is shown by induction over the set of the lengths for which it is so
(`SetInduction`).

* `PodTypes`: every pod that is stored has a pod's spec, however many rules were
  merged, and a replica's indexer has a version that there is.
* `NamespaceBeforeCluster`, `NamespacedRulesWin`: an operation adds or replaces a
  whole member, so the last rule that says something about a member has its way
  (`SaidLast`); the rules of a namespace are behind those of the cluster
  (`ClusterFirst`, from the order of the two reads).
* `MembersTolerated`, `MembersAccept`: a rule is what a command of valetctl has
  made (`Made`), and one that sends pods to an assignment tolerates its taints.
  The last word on the affinity may come from another rule than the last word on
  the tolerations, but such a rule would say something of the nodes, too. This
  needs `OtherAffinities`: the affinities that users write themselves with `-a`
  have keys of their own (`NodeKey`) and not those of a group's assignments. The
  run's commands satisfy it, with `-a` as well as without. It is needed because
  `-a` implies no toleration.

### `NagControllerProofs`

`NodeAssignmentGuards`: if `~Recreation`, `Spec => Guarding!Spec`, with any faults,
crashes and changes of leader, by the usual two facts: initial states map to the
abstract initial state, and each step maps to an abstract step or to a stutter,
given the invariant of `NodeAssignmentProofs`. The traces of the mapping are those
on nodes that are not `spilled`; a node that is left to itself is an abstract `Clean`.
A step that leaves the group alone can only mark (then the group is guarded, by
`TracesImplyFinalizer` of the next state) or clean. A write of the group changes
what it read: the invariant's `VersionInv` makes the copy the group itself, and
`CleanupInv` shows that the removal of the finalizer is an abstract `Release`,
without those traces. `AddUpdate` may add the finalizer a second time, a stutter.

`ControllerImplementsNodeAssignment`: `ControllerSpec => Spec`. The controller
with its handlers, queue and worker implements the specification of the manager,
with the variables of the manager mapped to themselves: the queue only restricts
when runs start. The process of `ControllerSpec` does not crash and keeps the lead, so
`ControllerSpec` allows less than `Spec`; the guarantees about finalizers are
stated for `Spec`. `ControllerTypeCorrect` is about the queue, the events and the
worker around the manager.

`NothingIsForgotten` is `QuiescentMeansConverged`: when the handlers have run and
the queue is empty, the cluster is what the group asks for, and if the group is
gone or being deleted, nothing of it is left. It puts the theorems about the
manager (`AllInv` of `ReconcileProofs`, `IInv` of `NodeAssignmentProofs`) and the
queue together. The invariant `QueuedInv` adds what links them:

* `Pending`: something that will put the group into the queue is on its way. It
  stays so until a worker takes the key: each write of the group is seen by the
  watch, each edit of a node leaves an event (`EditedNodesPending`), a key that
  is added under a run stays dirty.
* `AwakeInv`: if nothing is pending, a run under way knows everything there is
  (`RunUpToDate`: its group is the current one, it is `clean`, and no call of it
  has failed), so that it ends with `Outcome` (`UpToDateConverged`); and between
  two runs the cluster is what the group asks for.

Its condition is `AllReported`, next to `AllDistinct`: no call fails (an error of
`updateNodeSets` is dropped, and one that is returned is retried five times only),
a deleted group is not created again, and the edits are those that the handlers
do not ignore. That excludes marks of protection and the deletion of nodes that
the group does not target: the edit `"deleteTarget"` deletes those it does, and
`nag_node_gone` is what happens to others. `nag_converge` satisfies both
conditions. As no call fails, no node is spilled (`NoneSpilled`).

### `PackLeftProofs`

`PLControllerTypeCorrect`: the invariant `PLControllerInv` says more of the plan
than its type. Every patch in it is `Faithful`: made from the copy of the node
that the run listed, with no difference but packleft's own label and taint
(`SetStateFacts`, `ClearPackLeftFacts`). So packleft never assigns a node.

`PackLeftKeepsTaints`: a patch of packleft replaces the whole list of taints,
computed from a copy. While the run is fresh (`plClean`), all copies there are
(`plSeen`, the indexer, and the changes on their way) agree with the nodes in the
taints of others (`PLTaintInv`), and a faithful patch leaves them as they are.

`FreshRunLeavesBalance` is `FreshRunBalances`: a run that saw the current group,
nodes and pods, is not disturbed and meets no failure leaves every packed
assignment packed to the left, and no state on a node that is in none, whatever
earlier runs have left. It has two halves.

* What `balanceNodes` computes. `LeftPacked` says of any states, loads, limit and
  buffer what `BalancedAssignment` says of the nodes; `PlacedIsPacked` proves it
  of the states that are given along any sequence with the fullest node first.
  That the sequence is in order for nodes far apart needs loads to be ordered
  (`ExceedsTransitive`), so they must be fractions (`PercentFullFraction`), so
  the requests of a node's pods must add up to a number (`RequestedNat`). This
  needs `PodAssumption`: an indexer holds finitely many pods. The sum is a fold,
  and what a fold returns is an induction; it goes by the set of the numbers a
  claim holds for (`SetInduction`), as induction over an operator is beyond the
  provers.
* What the steps of the run keep. The invariant `FreshInv` looks at the nodes
  through the rest of the plan: in `Balancing`, each node of an assignment that
  has been planned `Becomes` what was `Planned` for it once the rest is sent, and
  the nodes of the others are `Untouched`. Patches are made from the copies that
  were listed, and deliveries of the first ones reach the indexer while the rest
  is sent, so `CleanUnassignedNodes` may list some nodes before their own patch
  and some after; `Cleaning` holds because it clears nodes only that are in no
  packed assignment, and those are untouched. Labels and readiness are the same
  in all copies (`Shapes`).

`removeTaint` takes only the first of packleft's taints off a node. That is
enough because packleft never puts two on one: `OneTaints`, of every copy there is.

### `KubeValetProofs`

`NothingIsLost`: no write of the group by either controller undoes what a user
or the other controller has written since it read the group. `ValetVersions` is
the invariant: a copy with the last resource version is the group itself, in the
hands of either controller, so an update that the API server accepts changes
the writer's own finalizer only.

`PackingDisturbsNoAssignment`: `ValetInv` takes the invariant of `ReconcileProofs`
over to the composition. packleft's patches may come from stale copies and land
anywhere in a run of node assignment, but they are `Faithful` and the patch of
labels is a merge, so no entry of a book changes (`PackStepLabel`). The taints are
another matter: there the two do overwrite each other, and
`OneRunSatisfiesGroup` does not hold of the composition.

### Only model-checked

Liveness (`EventuallyHandled`, `EventuallyConverged`, `DeletionReleased`,
`EventuallyLed`, `LaterChangesHandled`, `EventuallyCreated`), which is out of the
prover's reach. `NoThrashing`, an action property of packleft, could be proved
and is not: on top of `FreshInv` it needs that sorting the same nodes twice gives
the same list, and an invariant of the runs that work on copies older than the
last patches.

## Findings

Four runs violate a property that is quoted from a comment or a README;
`PROJECT.json` has the lines.

* `nag_priority`: a higher assignment that misses nodes does not take those of a
  lower one that has what it desires (`writer_context.go:228`), although
  `_examples/resources/nodeassignmentgroups/README.md:23` says so.
* `kube_valet_leak`: a run of packleft that began before a group was deleted
  patches nodes from its cached copies after the group is gone. Without any
  failure: packleft's `ensureFinalizer` finds the group being deleted, its error
  is ignored, node assignment removes the last finalizer, and then the patches
  are sent. One node is left with packleft's avoid label and taint, and with the
  group's own taint, as the patch replaces the list of taints by one made from the
  cached copy (`manager.go:332` of packleft); the other with packleft's label.
  This contradicts `packleft/controller.go:104` and `writer_context.go:297`.
* `nag_node_gone`: a node that is deleted between the list and its patch ends
  `updateNodeSets` early (`writer_context.go:92`), and the nodes behind it are in
  no set of the run. If the group does not target the deleted node, its event
  queues nothing, and the controller comes to rest with a node in an assignment
  that is no longer in the group. No call is lost. The proof of
  `NothingIsForgotten` needs a condition at this place, which the edits of
  `nag_converge` satisfy.
* `election_resync`: `Resync` of an indexer of `NewIndexerInformer` does nothing,
  so what the informer of the new leader took before its election is handled when
  the object changes next, and not at the election. The trace shows it at the
  first election; between two leaders the handlers find no controllers either.

While modelling, more places came up in which code and documentation differ, or
an error has a lasting effect. The modules show them; no run is kept for each.

* One failing patch or list while a group is being deleted leaves the group's label
  and taint on its nodes: `UnassignAllNodes` and `ReconcileNag` ignore the error
  (`writer_context.go:307`, `manager.go:58`) and the finalizer is removed. This, too,
  contradicts `writer_context.go:297`. `TracesImplyFinalizer` fails in
  `nag_reconcile` if it speaks of all nodes, and exempts these as `spilled`.
* A replica that takes the lead with a cache that lags may reconcile, and so mark
  nodes for, a group that has lost its finalizer or is gone: nothing is listed again
  at the election. Nodes are `spilled` there, too.
* A failing removal of the finalizer of node assignment is not retried
  (`manager.go:58`), and the deletion never completes. packleft returns its
  error, and there the deletion completes (`DeletionReleased`).
* A node that moves from an assignment with a taint to one without keeps the
  taint (`writer_context.go:236`): unassigning happens in memory only and the
  patch does not mention taints that are equal in both copies.
* Marking a node as protected starts no run (`utils.go:31` ignores the key), and
  does not clean the node as `helpers.go:12` says.
* packleft's `CleanAllNodes` leaves the state of nodes that are still in the
  packed assignment (`manager.go:75` of packleft) and clears those that are not
  ready, before the finalizer is removed; the label and taint of the others stay.
* The patch of a node that is gone makes packleft's run fail. With a cache that is
  slow to learn it, this uses up the queue's five retries, and a group that is being
  deleted keeps packleft's finalizer until its next event (`gaveUp`).
* `valetctl` calls `configureClients` before it parses its flags
  (`bin/valetctl.go:133`), so `--kubeconfig` and `--dry-run` come too late for it.
* `valetctl assignment create` with `-A` and `-a` keeps only the affinity of `-a`
  (`NodeTerm`), with the tolerations of `-A`.
* `valetctl group create` keeps the last of several defaults (`GroupCreate`).
* A key that was given up on after five retries is processed again, unchanged,
  by a retry that an earlier failure scheduled (`dropped` and `waiting` of
  `RetryingWorkQueue` are not disjoint).
* `AddFinalizer` looks for the finalizer in the cached group and appends it to
  the one it reads, so a stale cache adds it twice (`nag.finalizers = 2`). This
  is harmless, as `RemoveFinalizer` removes all entries.
* With `Faults = {"nodePatch"}`, a patch of `assignNode` that was applied and
  reported as failed makes the run assign one node too many, and one that was
  not applied leaves an assignment short; in both cases the run returns nil and
  nothing starts another. The next run repairs both (`nag_reconcile`).
* With `Recreation = TRUE`, a run that started before a group was deleted
  assigns nodes after the group was created again without the finalizer; the
  uid is never compared. The next run adds the finalizer.

## Not modelled

* HTTP, TLS and JSON of the webhook, flags, logging, metrics, and the reports of
  valetctl: pure I/O.
* Generated clients, listers, informers and deep copies, and client-go, which
  is modelled from its use.
* Several groups at once: a group's labels and taints have its name in their
  keys; groups meet only in the replaced taint list, which `ForeignTaint` and
  `ToggleTaint` stand for.
* `ShutDown` of the queue and the stop channel: nobody closes it; the process
  exits.
* The queue of the pod assignment controller: its handlers fill it, nothing runs
  it.
* `ApplyToPod` and `getPackLeftNodeAssignment`, which nobody calls.
* Tombstones of informers (`DeletedFinalStateUnknown`): the handlers' type
  assertion panics, which is a crash of the process.

## Plan

1. Done: queue, assignments, node assignment and its controller, packleft and
   its controller, their composition, election, pod rules and admission; the
   abstract finalizer and its refinement.
2. Left: the proof of `NoThrashing`.
3. Left: `PackLeft` as a second implementation of `FinalizerGuard`, with the
   guarantee that its code does give: what `CleanAllNodes` lists is clean.
4. Left: several groups with overlapping targets, each with both controllers.
