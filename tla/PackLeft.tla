------------------------------- MODULE PackLeft -------------------------------
(***************************************************************************)
(* pkg/controller/scheduling/packleft/manager.go: nodes of an assignment   *)
(* whose scheduling mode is PackLeft are labelled and tainted so that the  *)
(* scheduler fills them one after another.  One run of the controller's    *)
(* business logic is RebalanceNag and CleanUnassignedNodes, or, when the   *)
(* group is being deleted, CleanAllNodes and RemoveFinalizer.              *)
(*                                                                         *)
(* Unlike node assignment, packleft reads nodes and pods from the caches   *)
(* of the informers, and makes its patches from those copies.  A run may   *)
(* start at any time the cache holds the group; module                     *)
(* PackLeftController adds the events that queue it.                       *)
(***************************************************************************)
EXTENDS Cluster, FiniteSetsExt, SequencesExt

CONSTANTS
    Pod,            \* names of pods
    InitialPods,    \* the pods the indexer may hold when the process starts
    Request,        \* what the containers of a pod request
    Allocatable     \* what a node can give

Resource == {"mem", "cpu"}

ASSUME PodAssumption == IsFiniteSet(Pod)
ASSUME RequestAssumption == Request \in [Pod -> [Resource -> Nat]]
ASSUME AllocatableAssumption == Allocatable \in [Node -> [Resource -> Nat \ {0}]]

VARIABLES
    nodeIndex,      \* the nodes in the indexer
    nodeWatch,      \* versions of nodes the watch has not delivered
    podIndex,       \* the pods in the indexer
    (* the run *)
    plPc,
    plNag,          \* the group the run was started with
    plCopy,         \* the group as ensureFinalizer or RemoveFinalizer read it
    plTries,        \* attempts of RetryOnConflict so far
    plSeen,         \* the nodes as the indexer listed them
    plGroups,       \* names of the assignments that are not balanced yet
    plan,           \* the patches the current loop has still to send
    plErr,          \* whether the last run returned an error
    (* history *)
    plClean,        \* ghost: the run saw the current group, nodes and pods, and
                    \*   nothing but its own patches has changed them since
    plFailed        \* ghost: a call of the run has failed

plCacheVars == <<nodeIndex, podIndex>>
plLoopVars == <<plNag, plCopy, plTries, plSeen, plGroups, plan, plErr>>
plVars == <<plPc, plLoopVars, plClean, plFailed>>

PodObject == [node: Node \cup {None}, done: BOOLEAN]

ASSUME InitialPodsAssumption == InitialPods \subseteq [Pod -> PodObject \cup {None}]

PatchObject == [node: Node, new: NodeObject]

PLPhase ==
    {"done", "ensureGet", "ensureUpdate", "groups", "balance", "cleaning",
     "deleteAll", "deleting", "removeUpdate"}

PLTypeOK ==
    /\ nodes \in NodeMap
    /\ nag \in Nags
    /\ version \in Nat
    /\ nagIndex \in Nags
    /\ watch \in Seq(Nags)
    /\ edits \in Nat /\ faults \in Nat
    /\ nodeIndex \in NodeMap
    /\ nodeWatch \in Seq([node: Node, obj: NodeObject \cup {None}])
    /\ podIndex \in [Pod -> PodObject \cup {None}]
    /\ plPc \in PLPhase
    /\ plNag \in Nags
    /\ plPc # "done" => plNag # None
    /\ plCopy \in Nags
    /\ plTries \in Nat
    /\ plSeen \in NodeMap
    /\ plGroups \in SUBSET AName
    /\ plan \in Seq(PatchObject)
    /\ \A i \in DOMAIN plan : plSeen[plan[i].node] # None
    /\ plErr \in BOOLEAN /\ plClean \in BOOLEAN /\ plFailed \in BOOLEAN

PLInit ==
    /\ nodeIndex = nodes
    /\ nodeWatch = <<>>
    /\ podIndex \in InitialPods
    /\ plPc = "done"
    /\ plNag = None
    /\ plCopy = None
    /\ plTries = 0
    /\ plSeen = Gone
    /\ plGroups = {}
    /\ plan = <<>>
    /\ plErr = FALSE
    /\ plClean = FALSE
    /\ plFailed = FALSE

-----------------------------------------------------------------------------
(* Which assignment a node is in. *)

\* getAllAssignments: the default comes last.
AllAssignments(spec) ==
    IF HasDefault(spec) THEN Append(spec.assignments, spec.defaultAssignment)
                        ELSE spec.assignments

\* getAssignmentByName: the first one that has the name.
AssignmentByName(spec, name) ==
    LET as == AllAssignments(spec)
        named == {i \in DOMAIN as : as[i].name = name}
    IN  IF named = {} THEN None ELSE as[CHOOSE i \in named : \A j \in named : i <= j]

IsPackLeft(a) == a # None /\ a.schedulingMode = "PackLeft"

\* NodeHasPackLeftAssignment
HasPackLeftAssignment(spec, node) ==
    \E i \in DOMAIN AllAssignments(spec) :
        LET a == AllAssignments(spec)[i] IN
        GetAssignment(node) = a.name /\ IsPackLeft(a)

\* NodeHasPackLeftAttributes
HasPackLeftAttributes(node) ==
    node.packleft # None \/ \E t \in node.taints : t.key = "packleft"

\* getPackLeftNodeGroups: the nodes to balance for one assignment, out of the
\* nodes of the indexer that the group targets.
PackLeftNodes(spec, cached, name) ==
    {n \in Node : /\ cached[n] # None
                  /\ TargetsNode(spec, cached[n])
                  /\ GetAssignment(cached[n]) = name
                  /\ IsPackLeft(AssignmentByName(spec, name))}

-----------------------------------------------------------------------------
(* How full a node is.  A fraction is a pair; the float64 quotients of the *)
(* code are compared by cross multiplication.                              *)

\* Completed pods do not count.
Requested(n, r) ==
    MapThenSumSet(LAMBDA p : Request[p][r],
                  {p \in Pod : podIndex[p] # None /\ podIndex[p].node = n /\ ~podIndex[p].done})

Exceeds(f, g) == f[1] * g[2] > g[1] * f[2]

\* getNodePercentFullMemory and getNodePercentFullCPU, the larger one.
PercentFull(n) ==
    LET mem == <<Requested(n, "mem"), Allocatable[n]["mem"]>>
        cpu == <<Requested(n, "cpu"), Allocatable[n]["cpu"]>>
    IN  IF Exceeds(mem, cpu) THEN mem ELSE cpu

DefaultFullPercent == 80

\* The limit is exclusive.
IsFull(a, n) ==
    LET options == a.packLeft
        percent == IF options = None \/ options.fullPercent = None
                     THEN DefaultFullPercent ELSE options.fullPercent
    IN  Exceeds(PercentFull(n), <<percent, 100>>)

\* avoidBufferSize: the percentage is of all nodes of the assignment, the
\* ones that cannot be balanced included, and rounds down; a larger NumAvoid
\* wins; one node at least.
AvoidBufferSize(a, total) ==
    LET options == a.packLeft
        percent == IF options = None \/ options.percentAvoid = None
                     THEN 0 ELSE (total * options.percentAvoid) \div 100
        num == IF options = None THEN 0 ELSE options.numAvoid
    IN  Max({percent, num, 1})

\* Mutant of Fuller: equally full nodes stay as sort.Slice happens to leave
\* them.
FullerOnly(m, n) == Exceeds(PercentFull(m), PercentFull(n))

\* The order the nodes are sorted in: fullest first, and by name, descending.
Fuller(m, n) ==
    \/ Exceeds(PercentFull(m), PercentFull(n))
    \/ ~Exceeds(PercentFull(n), PercentFull(m)) /\ m > n

\* What sort.Slice, which is not stable, may return.
Sorted(S) ==
    {s \in SetToSeqs(S) : \A i, j \in DOMAIN s : i < j => ~Fuller(s[j], s[i])}

\* Mutant of StateOf: the first node counts as one of the buffer.
StateOfCountingFirst(a, buffer, s, i) ==
    IF i = 1 \/ IsFull(a, s[i])
      THEN "Use"
      ELSE IF Cardinality({j \in 1..(i - 1) : ~IsFull(a, s[j])}) < buffer
             THEN "Avoid" ELSE "Deny"

\* The state of the i-th of the sorted nodes: the first one is to be used
\* whatever it holds, and so are the others that are full; the next ones are
\* avoided, up to the size of the buffer; the rest is denied.
StateOf(a, buffer, s, i) ==
    IF i = 1 \/ IsFull(a, s[i])
      THEN "Use"
      ELSE IF Cardinality({j \in 2..(i - 1) : ~IsFull(a, s[j])}) < buffer
             THEN "Avoid" ELSE "Deny"

\* Mutant of RemoveFirstTaint: the list is replaced.
RemoveEveryTaint(taints) == {}

\* removeTaint finds the first taint with the key only.
RemoveFirstTaint(taints) ==
    LET ours == {t \in taints : t.key = "packleft"} IN
    IF ours = {} THEN taints ELSE taints \ {CHOOSE t \in ours : TRUE}

\* unassignNode
ClearPackLeft(node) ==
    [node EXCEPT !.packleft = None, !.taints = RemoveFirstTaint(@)]

StateTaint(state) ==
    IF state = "Use"
      THEN {}
      ELSE {[key |-> "packleft", value |-> state,
             effect |-> IF state = "Deny" THEN "NoSchedule" ELSE "PreferNoSchedule"]}

\* assignNode of the packleft manager: label and taint are replaced.
SetState(node, state) ==
    [node EXCEPT !.packleft = state, !.taints = RemoveFirstTaint(@) \cup StateTaint(state)]

-----------------------------------------------------------------------------
(* The loops that patch nodes. *)

\* Patches that change nothing are not sent.  (The code compares lists of
\* taints, the model sets: it leaves out patches that only reorder them.)
Sendable(seen, patches) == {p \in patches : p.new # seen[p.node]}

\* Patches are sent in the order of the sequence s of their nodes.
InOrder(s, patches) ==
    {t \in SetToSeqs(patches) :
        \A i, j \in DOMAIN t : i < j =>
            \E k, l \in DOMAIN s : k < l /\ s[k] = t[i].node /\ s[l] = t[j].node}

\* balanceNodes: nodes that are cordoned or not ready are left as they are.
\* The patches are sent in the order of the sorted nodes.
BalancePlans(seen, spec, name) ==
    LET group == PackLeftNodes(spec, seen, name)
        a == AssignmentByName(spec, name)
        buffer == AvoidBufferSize(a, Cardinality(group))
        Patches(s) == {[node |-> s[i], new |-> SetState(seen[s[i]], StateOf(a, buffer, s, i))] :
                          i \in DOMAIN s}
    IN  UNION {InOrder(s, Sendable(seen, Patches(s))) : s \in Sorted({n \in group : seen[n].ready})}

\* The indexer lists its objects in any order.
ClearPlans(seen, S) ==
    SetToSeqs(Sendable(seen, {[node |-> n, new |-> ClearPackLeft(seen[n])] : n \in S}))

Leftover(spec, node) == ~HasPackLeftAssignment(spec, node) /\ HasPackLeftAttributes(node)

PLGoto(phase) == plPc' = phase /\ UNCHANGED <<plNag, plErr>>

PLEndRun(e) ==
    /\ plPc' = "done"
    /\ plNag' = None
    /\ plCopy' = None
    /\ plTries' = 0
    /\ plSeen' = Gone
    /\ plGroups' = {}
    /\ plan' = <<>>
    /\ plErr' = e

PLFail(call) ==
    /\ call \in Faults
    /\ faults < MaxFaults
    /\ faults' = faults + 1
    /\ plFailed' = TRUE

PLNoFault == UNCHANGED <<faults, plFailed>>

\* Mutant of SendPatch: the whole node is written.
SendObject(p) ==
    /\ nodes[p.node] # None
    /\ nodes' = [nodes EXCEPT ![p.node] = p.new]
    /\ PLNoFault

\* patchNodeState succeeds.
SendPatch(p) ==
    /\ nodes[p.node] # None
    /\ nodes' = [nodes EXCEPT ![p.node] = Patch(@, plSeen[p.node], p.new)]
    /\ PLNoFault

\* patchNodeState returns an error: the node is gone, or the call fails,
\* before or after the API server has applied the patch.
SendFails(p) ==
    IF nodes[p.node] = None
      THEN UNCHANGED nodes /\ PLNoFault
      ELSE /\ nodes' \in {nodes, [nodes EXCEPT ![p.node] = Patch(@, plSeen[p.node], p.new)]}
           /\ PLFail("nodePatch")

\* A loop that ignores the errors of its patches sends the next one.
SendNext(phase) ==
    /\ plPc = phase
    /\ plan # <<>>
    /\ SendPatch(Head(plan)) \/ SendFails(Head(plan))
    /\ plan' = Tail(plan)
    /\ UNCHANGED <<nag, version, cacheVars, plCacheVars, plPc, plNag, plCopy, plTries, plSeen,
                   plGroups, plErr, plClean, edits>>

-----------------------------------------------------------------------------
(* The business logic of the controller. *)

\* Mutant of PLStart: the object is not known to exist.
PLStartUnchecked ==
    /\ plPc = "done"
    /\ plPc' = IF nagIndex = None THEN "ensureGet" ELSE "groups"
    /\ plNag' = nagIndex
    /\ plClean' = FALSE
    /\ plFailed' = FALSE
    /\ UNCHANGED <<apiVars, cacheVars, plCacheVars, plCopy, plTries, plSeen, plGroups, plan,
                   plErr, edits, faults>>

\* The worker takes the group from the indexer.
PLStart ==
    /\ plPc = "done"
    /\ nagIndex # None
    /\ plPc' = IF nagIndex.deleting
                 THEN "deleteAll"
                 ELSE IF nagIndex.others THEN "groups" ELSE "ensureGet"
    /\ plNag' = nagIndex
    /\ plClean' = FALSE
    /\ plFailed' = FALSE
    /\ UNCHANGED <<apiVars, cacheVars, plCacheVars, plCopy, plTries, plSeen, plGroups, plan,
                   plErr, edits, faults>>

\* ensureFinalizer and RemoveFinalizer read the group.  On an error the code
\* goes on with an empty object.
PLGetNag(from, to) ==
    /\ plPc = from
    /\ plan = <<>>
    /\ PLGoto(to)
    /\ plTries' = plTries + 1
    /\ \/ plCopy' = nag /\ PLNoFault
       \/ plCopy' = None /\ PLFail("nagGet")
    /\ UNCHANGED <<apiVars, cacheVars, plCacheVars, plSeen, plGroups, plan, plClean, edits>>

PLConflict == plCopy # None /\ nag # None /\ plCopy.rv # nag.rv

PLMaxTries == 5

\* The update meets a newer version and there are attempts left.
PLRetry(from, to) ==
    /\ plPc = from
    /\ PLConflict
    /\ plTries < PLMaxTries
    /\ PLGoto(to)
    /\ UNCHANGED <<apiVars, cacheVars, plCacheVars, plCopy, plTries, plSeen, plGroups, plan,
                   plClean, plFailed, edits, faults>>

\* The update fails for good and changes nothing: attempts used up, no name in the empty object,
\* the group is gone, the call fails, or a finalizer is added to a deleted
\* object.
PLUpdateFails(forbidden) ==
    \/ PLConflict /\ plTries >= PLMaxTries /\ PLNoFault
    \/ (plCopy = None \/ nag = None \/ (~PLConflict /\ forbidden)) /\ PLNoFault
    \/ PLFail("nagUpdate")

\* The API server has stored the update, but its reply may be lost, which is
\* an error for the caller.
PLReplyLost == PLFail("nagUpdate")

EnsureGet == PLGetNag("ensureGet", "ensureUpdate")
EnsureRetry == PLRetry("ensureUpdate", "ensureGet")

EnsureForbidden == plCopy # None /\ plCopy.deleting /\ ~plCopy.others

\* RebalanceNag ignores the error and goes on.
EnsureFails ==
    /\ plPc = "ensureUpdate"
    /\ PLUpdateFails(EnsureForbidden)
    /\ PLGoto("groups")
    /\ plCopy' = None
    /\ plTries' = 0
    /\ UNCHANGED <<apiVars, cacheVars, plCacheVars, plSeen, plGroups, plan, plClean, edits>>

\* The finalizer is appended, even to a list that has it already.
EnsureUpdate ==
    /\ plPc = "ensureUpdate"
    /\ plCopy # None /\ nag # None /\ ~PLConflict /\ ~EnsureForbidden
    /\ Store([plCopy EXCEPT !.others = TRUE])
    /\ PLNoFault \/ PLReplyLost
    /\ PLGoto("groups")
    /\ plCopy' = None
    /\ plTries' = 0
    /\ UNCHANGED <<nodes, nagIndex, plCacheVars, plSeen, plGroups, plan, plClean, edits>>

\* For the ghost: the caches are current, but for finalizers.
CachesCurrent ==
    /\ nodeIndex = nodes /\ nodeWatch = <<>>
    /\ nag # None /\ ~nag.deleting
    /\ \A obj \in {plNag, nagIndex} \cup {watch[i] : i \in DOMAIN watch} :
          obj # None /\ obj.spec = nag.spec

\* getPackLeftNodeGroups lists the indexer.
ListGroups ==
    /\ plPc = "groups"
    /\ PLGoto("balance")
    /\ plSeen' = nodeIndex
    /\ plGroups' = {name \in AName : PackLeftNodes(plNag.spec, nodeIndex, name) # {}}
    /\ plClean' = CachesCurrent
    /\ UNCHANGED <<apiVars, cacheVars, plCacheVars, plCopy, plTries, plan, plFailed, edits,
                   faults>>

\* balanceNodes for one assignment; the map of groups is visited in any order.
BalanceNodes ==
    \E name \in plGroups :
        /\ plPc = "balance"
        /\ plan = <<>>
        /\ plan' \in BalancePlans(plSeen, plNag.spec, name)
        /\ plGroups' = plGroups \ {name}
        /\ UNCHANGED <<apiVars, cacheVars, plCacheVars, plPc, plNag, plErr, plCopy, plTries,
                       plSeen, plClean, plFailed, edits, faults>>

SendState == SendNext("balance")

\* CleanUnassignedNodes lists the indexer again.
CleanUnassigned ==
    /\ plPc = "balance"
    /\ plan = <<>>
    /\ plGroups = {}
    /\ PLGoto("cleaning")
    /\ plSeen' = nodeIndex
    /\ plan' \in ClearPlans(nodeIndex,
                 {n \in Node : nodeIndex[n] # None /\ Leftover(plNag.spec, nodeIndex[n])})
    /\ UNCHANGED <<apiVars, cacheVars, plCacheVars, plCopy, plTries, plGroups, plClean,
                   plFailed, edits, faults>>

SendClear == SendNext("cleaning")

\* The run returns nil, whatever has failed.
EndRebalance ==
    /\ plPc = "cleaning"
    /\ plan = <<>>
    /\ PLEndRun(FALSE)
    /\ UNCHANGED <<apiVars, cacheVars, plCacheVars, plClean, plFailed, edits, faults>>

-----------------------------------------------------------------------------
(* A group that is being deleted. *)

\* CleanAllNodes: nodes of the indexer that carry a state without being in a
\* packleft assignment, and nodes that cannot be balanced.
CleanAll ==
    /\ plPc = "deleteAll"
    /\ PLGoto("deleting")
    /\ plSeen' = nodeIndex
    /\ plan' \in ClearPlans(nodeIndex,
                 {n \in Node : /\ nodeIndex[n] # None
                               /\ Leftover(plNag.spec, nodeIndex[n]) \/ ~nodeIndex[n].ready})
    /\ UNCHANGED <<apiVars, cacheVars, plCacheVars, plCopy, plTries, plGroups, plClean,
                   plFailed, edits, faults>>

\* Mutant of SendDelete: the error is logged and not returned.
SendDeleteIgnored ==
    /\ plPc = "deleting"
    /\ plan # <<>>
    /\ \/ /\ SendPatch(Head(plan))
          /\ plan' = Tail(plan)
          /\ UNCHANGED <<plPc, plNag, plCopy, plTries, plSeen, plGroups, plErr>>
       \/ SendFails(Head(plan)) /\ PLEndRun(FALSE)
    /\ UNCHANGED <<nag, version, cacheVars, plCacheVars, plClean, edits>>

\* The first error is returned, and the queue tries again.
SendDelete ==
    /\ plPc = "deleting"
    /\ plan # <<>>
    /\ \/ /\ SendPatch(Head(plan))
          /\ plan' = Tail(plan)
          /\ UNCHANGED <<plPc, plNag, plCopy, plTries, plSeen, plGroups, plErr>>
       \/ SendFails(Head(plan)) /\ PLEndRun(TRUE)
    /\ UNCHANGED <<nag, version, cacheVars, plCacheVars, plClean, edits>>

\* All patches are sent.
PLRemoveGet == PLGetNag("deleting", "removeUpdate")
PLRemoveRetry == PLRetry("removeUpdate", "deleting")

\* Mutant of PLRemoveFails: the error is ignored, as node assignment does.
PLRemoveFailsIgnored ==
    /\ plPc = "removeUpdate"
    /\ PLUpdateFails(FALSE)
    /\ PLEndRun(FALSE)
    /\ UNCHANGED <<apiVars, cacheVars, plCacheVars, plClean, edits>>

PLRemoveFails ==
    /\ plPc = "removeUpdate"
    /\ PLUpdateFails(FALSE)
    /\ PLEndRun(TRUE)
    /\ UNCHANGED <<apiVars, cacheVars, plCacheVars, plClean, edits>>

\* An update that changes nothing makes no new version.
PLRemoveUpdate ==
    /\ plPc = "removeUpdate"
    /\ plCopy # None /\ nag # None /\ ~PLConflict
    /\ IF plCopy.others
         THEN Store(AfterFinalizers([plCopy EXCEPT !.others = FALSE]))
         ELSE UNCHANGED <<nag, version, watch>>
    /\ \/ PLEndRun(FALSE) /\ PLNoFault
       \/ PLEndRun(TRUE) /\ PLReplyLost
    /\ UNCHANGED <<nodes, nagIndex, plCacheVars, plClean, edits>>

-----------------------------------------------------------------------------

\* The watch of nodes reports the node that a step has changed.
WatchNodes ==
    nodeWatch' = IF nodes' = nodes
                   THEN nodeWatch
                   ELSE LET n == CHOOSE m \in Node : nodes'[m] # nodes[m]
                        IN  Append(nodeWatch, [node |-> n, obj |-> nodes'[n]])

PLRun ==
    \/ EnsureGet \/ EnsureRetry \/ EnsureFails \/ EnsureUpdate
    \/ ListGroups \/ BalanceNodes \/ SendState
    \/ CleanUnassigned \/ SendClear \/ EndRebalance
    \/ CleanAll \/ SendDelete
    \/ PLRemoveGet \/ PLRemoveRetry \/ PLRemoveFails \/ PLRemoveUpdate

-----------------------------------------------------------------------------
(* What is correct. *)

\* Members of an assignment that can be balanced, as they are.
Members(spec, name) == {n \in PackLeftNodes(spec, nodes, name) : nodes[n].ready}

InState(S, state) == {n \in S : nodes[n].packleft = state}

\* The assignment is packed to the left.
BalancedAssignment(spec, name) ==
    LET a == AssignmentByName(spec, name)
        S == Members(spec, name)
        buffer == AvoidBufferSize(a, Cardinality(PackLeftNodes(spec, nodes, name)))
        Left(m, n) == ~Exceeds(PercentFull(n), PercentFull(m))
        use == InState(S, "Use")
        avoid == InState(S, "Avoid")
        deny == InState(S, "Deny")
    IN  S # {} =>
          /\ use # {}
          /\ S = use \cup avoid \cup deny
          /\ \A m \in use, n \in avoid \cup deny : Left(m, n) /\ ~IsFull(a, n)
          /\ \A m \in avoid, n \in deny : Left(m, n)
          /\ Cardinality({n \in use : ~IsFull(a, n)}) <= 1
          /\ IF deny = {} THEN Cardinality(avoid) <= buffer ELSE Cardinality(avoid) = buffer
          /\ \A n \in S : {t \in nodes[n].taints : t.key = "packleft"}
                            = StateTaint(nodes[n].packleft)

\* ... and no other node carries a state.
Balanced(spec) ==
    /\ \A name \in AName : BalancedAssignment(spec, name)
    /\ \A n \in Node : nodes[n] = None \/ ~Leftover(spec, nodes[n])

\* A run that worked on fresh caches and was not disturbed leaves the nodes
\* balanced, whatever states earlier runs, made from stale caches or ended by
\* failures, have left: the fullest nodes are used, the next ones avoided, up
\* to the buffer, the rest denied; and nodes that have left their assignment
\* carry no state any more.
FreshRunBalances ==
    plPc = "done" /\ plClean /\ ~plFailed => Balanced(nag.spec)

NotPackLeft(node) == {t \in node.taints : t.key # "packleft"}

\* Although packleft replaces the whole taint list of a node, it drops and
\* restores no taint of anybody else, as long as its copies were current.
OtherTaintsSurvive ==
    [][plClean /\ plClean'
         => \A n \in Node :
                nodes[n] # None => NotPackLeft(nodes'[n]) = NotPackLeft(nodes[n])]_<<nodes, plClean>>
=============================================================================
