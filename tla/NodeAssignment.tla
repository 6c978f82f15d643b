--------------------------- MODULE NodeAssignment ---------------------------
(***************************************************************************)
(* pkg/controller/nodeassignment: Manager.ReconcileNag and the             *)
(* WriterContext it drives, for one NodeAssignmentGroup and the single     *)
(* worker that main.go starts.                                             *)
(*                                                                         *)
(* ReconcileNag works on three views of the world that disagree: the group *)
(* as the informer's cache had it when the run started (wcNag), the nodes  *)
(* as they were listed (mem), and what the API server holds (nodes, nag).  *)
(* Each action makes at most one API call, so other writers get in between *)
(* any two calls.  A run may start at any time the cache holds the group;  *)
(* module NagController restricts that to the events that queue it.        *)
(***************************************************************************)
EXTENDS Cluster

CONSTANTS
    Edits,          \* what users and other controllers may change
    LastEdits,      \* bound: what the last of the edits may change
    Recreation,     \* whether a deleted group may be created again
    MaxVersion      \* bound: a run starts only below this revision

ASSUME RecreationAssumption == Recreation \in BOOLEAN
ASSUME MaxVersionAssumption == MaxVersion \in Nat
ASSUME EditsAssumption ==
    Edits \subseteq {"spec", "finalizer", "addNode", "deleteNode", "deleteTarget", "label",
                     "protect", "taint"}
ASSUME LastEditsAssumption == LastEdits \subseteq Edits

VARIABLES
    (* the run of ReconcileNag *)
    pc,
    wcNag,          \* the group the run was started with
    mem,            \* the run's copies of the nodes
    todo,           \* nodes the current loop has still to visit
    targeted,       \* TargetedNodes
    unassigned,     \* UnassignedNodeNames
    changes,        \* AssignmentChanges
    at,             \* the node UnassignNodeByName works on
    copy,           \* the group as AddFinalizer or RemoveFinalizer read it
    tries,          \* attempts of RetryOnConflict so far
    err,            \* whether the last run returned an error
    (* history *)
    past,           \* the versions of the group that were delivered before nagIndex,
                    \*   oldest first; kept only where the leader may change
    spilled,        \* ghost: the nodes that a cleaning has left to themselves
    listed,         \* ghost: the nodes as the run found them
    clean,          \* ghost: the run saw the current group, and nobody else has
                    \*   changed anything since it listed the nodes
    failed          \* ghost: a call of the run has failed

loopVars == <<wcNag, mem, todo, targeted, unassigned, changes, at, copy, tries>>
historyVars == <<past, spilled>>
vars ==
    <<apiVars, cacheVars, pc, loopVars, err, historyVars, listed, clean, failed, edits, faults>>

Unchanging == [name \in AName |-> 0]

Phase ==
    {"done", "list", "sets", "addGet", "addUpdate", "reconcile", "default", "cleanup",
     "cleanupPatch", "unassignList", "unassignAll", "removeGet", "removeUpdate"}

TypeOK ==
    /\ nodes \in NodeMap
    /\ nag \in Nags
    /\ version \in Nat
    /\ nagIndex \in Nags
    /\ watch \in Seq(Nags)
    /\ pc \in Phase
    /\ wcNag \in Nags
    /\ pc # "done" => wcNag # None
    /\ mem \in NodeMap
    /\ todo \in SUBSET Node
    /\ targeted \in SUBSET Node
    /\ unassigned \in SUBSET Node
    /\ changes \in [AName -> Int]
    /\ at \in Node \cup {None}
    /\ copy \in Nags
    /\ tries \in Nat
    /\ err \in BOOLEAN
    /\ past \in Seq(Nags)
    /\ spilled \in SUBSET Node
    /\ listed \in NodeMap
    /\ clean \in BOOLEAN
    /\ failed \in BOOLEAN
    /\ edits \in Nat
    /\ faults \in Nat

\* A cluster of fresh nodes without a group.
Init ==
    /\ nodes \in [Node -> {None} \cup {Fresh(ls) : ls \in SUBSET Label}]
    /\ nag = None
    /\ version = 0
    /\ nagIndex = None
    /\ watch = <<>>
    /\ pc = "done"
    /\ wcNag = None
    /\ mem = Gone
    /\ todo = {}
    /\ targeted = {}
    /\ unassigned = {}
    /\ changes = Unchanging
    /\ at = None
    /\ copy = None
    /\ tries = 0
    /\ err = FALSE
    /\ past = <<>>
    /\ spilled = {}
    /\ listed = Gone
    /\ clean = FALSE
    /\ failed = FALSE
    /\ edits = 0
    /\ faults = 0

-----------------------------------------------------------------------------
(* Helpers of the actions. *)

\* A run ends and its WriterContext is garbage.
EndRun(e) ==
    /\ pc' = "done"
    /\ wcNag' = None
    /\ mem' = Gone
    /\ todo' = {}
    /\ targeted' = {}
    /\ unassigned' = {}
    /\ changes' = Unchanging
    /\ at' = None
    /\ copy' = None
    /\ tries' = 0
    /\ err' = e

Goto(phase) == pc' = phase /\ UNCHANGED <<wcNag, err>>

\* A call of the given kind fails: the ghost remembers, the bound is charged.
Fail(call) ==
    /\ call \in Faults
    /\ faults < MaxFaults
    /\ faults' = faults + 1
    /\ failed' = TRUE

NoFault == UNCHANGED <<faults, failed>>

\* Loops over a node list visit the nodes in the order of the list.
IsFirst(n, S) == n \in S /\ \A m \in S : n <= m

\* UpdateNodeAssignment from the copy `old' to `new' without an error: an
\* empty patch is not sent.
PatchNode(n, old, new) ==
    /\ IF new = old
         THEN UNCHANGED nodes
         ELSE /\ nodes[n] # None
              /\ nodes' = [nodes EXCEPT ![n] = Patch(@, old, new)]
    /\ NoFault

\* The same with an error: the node is gone, or the call fails, before or
\* after the API server has applied the patch.
PatchFails(n, old, new) ==
    /\ new # old
    /\ IF nodes[n] = None
         THEN UNCHANGED nodes /\ NoFault
         ELSE /\ nodes' \in {nodes, [nodes EXCEPT ![n] = Patch(@, old, new)]}
              /\ Fail("nodePatch")

-----------------------------------------------------------------------------
(* Start of a run: ReconcileNag and NewWriterContext.Update. *)

\* Mutant of Start: the object is not known to exist.
StartUnchecked ==
    /\ pc = "done"
    /\ version < MaxVersion
    /\ pc' = "list"
    /\ wcNag' = nagIndex
    /\ clean' = FALSE
    /\ failed' = FALSE
    /\ UNCHANGED <<apiVars, cacheVars, mem, todo, targeted, unassigned, changes, at, copy, tries,
                   err, historyVars, listed, edits, faults>>

\* The worker takes the object of the key from the indexer.
Start ==
    /\ pc = "done"
    /\ nagIndex # None
    /\ version < MaxVersion
    /\ pc' = "list"
    /\ wcNag' = nagIndex
    /\ clean' = FALSE
    /\ failed' = FALSE
    /\ UNCHANGED <<apiVars, cacheVars, mem, todo, targeted, unassigned, changes, at, copy, tries,
                   err, historyVars, listed, edits, faults>>

\* updateNodeSets lists the nodes.  What it does in memory only, and for
\* every node, happens here: nodes whose assignment is not known (any more)
\* are unassigned, nodes are split by TargetsNode.  Left to do are the nodes
\* that are not targeted but still have an assignment.
ListNodes ==
    LET Unknown(n) == IsAssigned(nodes[n])
                        /\ GetAssignment(nodes[n]) \notin KnownAssignments(wcNag.spec)
        present == {n \in Node : nodes[n] # None}
        unknown == {n \in present : Unknown(n)}
        target == {n \in present : TargetsNode(wcNag.spec, nodes[n])}
    IN  /\ pc = "list"
        /\ Goto("sets")
        /\ mem' = [n \in Node |-> IF n \in unknown THEN Unassign(nodes[n]) ELSE nodes[n]]
        /\ unassigned' = unknown
        /\ targeted' = target
        /\ todo' = {n \in present \ target : IsAssigned(nodes[n]) /\ ~Unknown(n)}
        /\ listed' = nodes
        /\ clean' = (wcNag = nag)
        /\ UNCHANGED <<apiVars, cacheVars, changes, at, copy, tries, historyVars, failed, edits,
                       faults>>

\* updateNodeSets takes the assignment off a node that is not targeted.  An
\* error ends the loop, and Update ignores it: the nodes that come later in
\* the list are in no set.
UnassignUntargeted ==
    \E n \in todo :
        LET new == Unassign(mem[n]) IN
        /\ pc = "sets"
        /\ IsFirst(n, todo)
        /\ \/ /\ PatchNode(n, mem[n], new)
              /\ todo' = todo \ {n}
              /\ UNCHANGED <<targeted, unassigned>>
           \/ /\ PatchFails(n, mem[n], new)
              /\ todo' = {}
              /\ targeted' = {m \in targeted : m < n}
              /\ unassigned' = {m \in unassigned : m < n}
        /\ UNCHANGED <<nag, version, cacheVars, pc, wcNag, mem, changes, at, copy, tries,
                       err, historyVars, listed, clean, edits>>

\* Mutant of Decide: the group is reconciled whether it has the finalizer or
\* not.
DecideWithoutFinalizer ==
    /\ pc = "sets"
    /\ todo = {}
    /\ Goto(IF wcNag.deleting THEN "unassignList" ELSE "reconcile")
    /\ changes' = AssignmentChanges(wcNag.spec, [n \in targeted |-> mem[n]])
    /\ todo' = targeted
    /\ UNCHANGED <<apiVars, cacheVars, mem, targeted, unassigned, at, copy, tries,
                   historyVars, listed, clean, failed, edits, faults>>

\* Mutant of Decide: a group that is being deleted is released at once.
DecideWithoutCleaning ==
    /\ pc = "sets"
    /\ todo = {}
    /\ Goto(IF wcNag.deleting
              THEN "removeGet"
              ELSE IF wcNag.finalizers > 0 THEN "reconcile" ELSE "addGet")
    /\ changes' = AssignmentChanges(wcNag.spec, [n \in targeted |-> mem[n]])
    /\ todo' = targeted
    /\ UNCHANGED <<apiVars, cacheVars, mem, targeted, unassigned, at, copy, tries,
                   historyVars, listed, clean, failed, edits, faults>>

\* The rest of Update, and the branch of ReconcileNag: a group that is being
\* deleted is cleaned up; otherwise AddFinalizer looks for the finalizer in
\* the cached object.
Decide ==
    /\ pc = "sets"
    /\ todo = {}
    /\ Goto(IF wcNag.deleting
              THEN "unassignList"
              ELSE IF wcNag.finalizers > 0 THEN "reconcile" ELSE "addGet")
    /\ changes' = AssignmentChanges(wcNag.spec, [n \in targeted |-> mem[n]])
    /\ todo' = targeted
    /\ UNCHANGED <<apiVars, cacheVars, mem, targeted, unassigned, at, copy, tries,
                   historyVars, listed, clean, failed, edits, faults>>

-----------------------------------------------------------------------------
(* AddFinalizer and RemoveFinalizer: a get and an update, repeated while   *)
(* the update meets a newer version (retry.DefaultRetry: five attempts).   *)

MaxTries == 5

\* Read the group.  On an error the code goes on with an empty object.
GetNag(from, to) ==
    /\ pc = from
    /\ Goto(to)
    /\ tries' = tries + 1
    /\ \/ copy' = nag /\ NoFault
       \/ copy' = None /\ Fail("nagGet")
    /\ UNCHANGED <<apiVars, cacheVars, mem, todo, targeted, unassigned, changes, at,
                   historyVars, listed, clean, edits>>

Conflict == copy # None /\ nag # None /\ copy.rv # nag.rv

\* The update is refused because the object has changed; try again, or
\* return the conflict to the caller.
RetryUpdate(from, to, e) ==
    /\ pc = from
    /\ Conflict
    /\ IF tries < MaxTries
         THEN /\ Goto(to)
              /\ UNCHANGED <<mem, todo, targeted, unassigned, changes, at, copy, tries>>
         ELSE EndRun(e)
    /\ UNCHANGED <<apiVars, cacheVars, historyVars, listed, clean, failed, edits, faults>>

\* The update fails and changes nothing: the empty object has no name, the
\* group is gone, the call fails, or (forbidden) it adds a finalizer to a
\* deleted object.
UpdateFails(from, forbidden, e) ==
    /\ pc = from
    /\ EndRun(e)
    /\ \/ (copy = None \/ nag = None \/ (~Conflict /\ forbidden)) /\ NoFault
       \/ Fail("nagUpdate")
    /\ UNCHANGED <<apiVars, cacheVars, historyVars, listed, clean, edits>>

\* An update that the API server has stored ends the run; its reply may be
\* lost, and then the caller gets an error.
Answered(e) ==
    \/ EndRun(FALSE) /\ NoFault
    \/ EndRun(e) /\ Fail("nagUpdate")

AddGet == GetNag("addGet", "addUpdate")

AddRetry == RetryUpdate("addUpdate", "addGet", TRUE)

AddForbidden == copy # None /\ copy.deleting /\ copy.finalizers = 0

AddFails == UpdateFails("addUpdate", AddForbidden, TRUE)

\* Mutant of AddUpdate: the list of finalizers is replaced.
AddUpdateReplacing ==
    /\ pc = "addUpdate"
    /\ copy # None /\ nag # None /\ ~Conflict /\ ~AddForbidden
    /\ Store([copy EXCEPT !.finalizers = 1, !.others = FALSE])
    /\ Answered(TRUE)
    /\ clean' = FALSE
    /\ UNCHANGED <<nodes, nagIndex, historyVars, listed, edits>>

\* The finalizer is appended, and the run ends: the update event is expected
\* to start the one that reconciles.
AddUpdate ==
    /\ pc = "addUpdate"
    /\ copy # None /\ nag # None /\ ~Conflict /\ ~AddForbidden
    /\ Store([copy EXCEPT !.finalizers = @ + 1])
    /\ Answered(TRUE)
    /\ clean' = FALSE
    /\ UNCHANGED <<nodes, nagIndex, historyVars, listed, edits>>

RemoveGet == GetNag("removeGet", "removeUpdate")

RemoveRetry == RetryUpdate("removeUpdate", "removeGet", FALSE)

\* ReconcileNag ignores the error of RemoveFinalizer.
RemoveFails == UpdateFails("removeUpdate", FALSE, FALSE)

\* Every entry of the finalizer is filtered out.  An update that changes
\* nothing makes no new version.
RemoveUpdate ==
    /\ pc = "removeUpdate"
    /\ copy # None /\ nag # None /\ ~Conflict
    /\ IF copy.finalizers = 0
         THEN UNCHANGED <<nag, version, watch>>
         ELSE Store(AfterFinalizers([copy EXCEPT !.finalizers = 0]))
    /\ Answered(FALSE)
    /\ UNCHANGED <<nodes, nagIndex, historyVars, listed, clean, edits>>

-----------------------------------------------------------------------------
(* WriterContext.Reconcile: the loop over the targeted nodes, and then the *)
(* loop over the nodes that were only unassigned in memory.                *)

\* Mutant of Releasable: a node of the default assignment is kept.
ReleasableNotDefault(node) == IsAssigned(node) /\ changes[GetAssignment(node)] < 0

\* Mutant of Releasable: a node is taken from an assignment that has exactly
\* what it desires.
ReleasableEarly(node) ==
    LET ca == GetAssignment(node) IN
    IsAssigned(node) /\ (changes[ca] <= 0 \/ IsDefault(wcNag.spec, ca))

\* The node may be taken away from its assignment.
Releasable(node) ==
    LET ca == GetAssignment(node) IN
    IsAssigned(node) /\ (changes[ca] < 0 \/ IsDefault(wcNag.spec, ca))

\* The node stays where it is.
KeepNode ==
    \E n \in todo :
        /\ pc = "reconcile"
        /\ IsFirst(n, todo)
        /\ IsAssigned(mem[n]) /\ ~Releasable(mem[n])
        /\ todo' = todo \ {n}
        /\ UNCHANGED <<apiVars, cacheVars, pc, wcNag, mem, targeted, unassigned, changes,
                       at, copy, tries, err, historyVars, listed, clean, failed, edits,
                       faults>>

\* Mutant of ReleaseNode: the node is unassigned in the API first.
ReleaseNodeInApi ==
    \E n \in todo :
        /\ pc = "reconcile"
        /\ IsFirst(n, todo)
        /\ Releasable(mem[n])
        /\ PatchNode(n, mem[n], Unassign(mem[n]))
        /\ mem' = [mem EXCEPT ![n] = Unassign(@)]
        /\ changes' = [changes EXCEPT ![GetAssignment(mem[n])] = @ + 1]
        /\ UNCHANGED <<nag, version, cacheVars, pc, wcNag, todo, targeted, unassigned, at,
                       copy, tries, err, historyVars, listed, clean, edits>>

\* The node is unassigned in memory, so that the next patch reassigns it.
ReleaseNode ==
    \E n \in todo :
        /\ pc = "reconcile"
        /\ IsFirst(n, todo)
        /\ Releasable(mem[n])
        /\ mem' = [mem EXCEPT ![n] = Unassign(@)]
        /\ unassigned' = unassigned \cup {n}
        /\ changes' = [changes EXCEPT ![GetAssignment(mem[n])] = @ + 1]
        /\ UNCHANGED <<apiVars, cacheVars, pc, wcNag, todo, targeted, at, copy, tries,
                       err, historyVars, listed, clean, failed, edits, faults>>

\* assignNode gives an unassigned node to the first assignment that misses
\* nodes.  An error is not reported: the default assignment is tried next.
AssignNode ==
    \E n \in todo :
        LET a == FirstNeeding(wcNag.spec, changes) IN
        /\ pc = "reconcile"
        /\ IsFirst(n, todo)
        /\ ~IsAssigned(mem[n])
        /\ a # None
        /\ \/ /\ PatchNode(n, mem[n], Assign(mem[n], a))
              /\ changes' = [changes EXCEPT ![a.name] = @ - 1]
              /\ todo' = todo \ {n}
              /\ unassigned' = unassigned \ {n}
              /\ UNCHANGED pc
           \/ /\ PatchFails(n, mem[n], Assign(mem[n], a))
              /\ pc' = "default"
              /\ UNCHANGED <<changes, todo, unassigned>>
        /\ UNCHANGED <<nag, version, cacheVars, wcNag, mem, targeted, at, copy, tries,
                       err, historyVars, listed, clean, edits>>

\* No assignment takes the unassigned node: apply the default, if any.  Its
\* error ends the run.
ApplyDefault ==
    \E n \in todo :
        LET a == wcNag.spec.defaultAssignment IN
        /\ \/ pc = "reconcile" /\ FirstNeeding(wcNag.spec, changes) = None
           \/ pc = "default"
        /\ IsFirst(n, todo)
        /\ ~IsAssigned(mem[n])
        /\ \/ /\ a = None
              /\ todo' = todo \ {n}
              /\ Goto("reconcile")
              /\ NoFault
              /\ UNCHANGED <<nodes, mem, targeted, unassigned, changes, at, copy, tries>>
           \/ /\ a # None
              /\ PatchNode(n, mem[n], Assign(mem[n], a))
              /\ todo' = todo \ {n}
              /\ unassigned' = unassigned \ {n}
              /\ Goto("reconcile")
              /\ UNCHANGED <<mem, targeted, changes, at, copy, tries>>
           \/ /\ a # None
              /\ PatchFails(n, mem[n], Assign(mem[n], a))
              /\ EndRun(TRUE)
        /\ UNCHANGED <<nag, version, cacheVars, historyVars, listed, clean, edits>>

EndAssigning ==
    /\ pc = "reconcile"
    /\ todo = {}
    /\ Goto("cleanup")
    /\ todo' = unassigned
    /\ UNCHANGED <<apiVars, cacheVars, mem, targeted, unassigned, changes, at, copy,
                   tries, historyVars, listed, clean, failed, edits, faults>>

\* UnassignNodeByName reads the node; the map is visited in any order.
CleanupGet ==
    \E n \in todo :
        /\ pc = "cleanup"
        /\ todo' = todo \ {n}
        /\ \/ /\ nodes[n] # None
              /\ Goto("cleanupPatch")
              /\ at' = n
              /\ mem' = [mem EXCEPT ![n] = nodes[n]]
              /\ NoFault
           \/ /\ nodes[n] = None
              /\ NoFault
              /\ UNCHANGED <<pc, wcNag, err, at, mem>>
           \/ /\ Fail("nodeGet")
              /\ UNCHANGED <<pc, wcNag, err, at, mem>>
        /\ UNCHANGED <<apiVars, cacheVars, targeted, unassigned, changes, copy, tries,
                       historyVars, listed, clean, edits>>

\* ... and takes everything of the group off it.  Errors are only logged.
CleanupPatch ==
    /\ pc = "cleanupPatch"
    /\ \/ PatchNode(at, mem[at], Unassign(mem[at])) /\ unassigned' = unassigned \ {at}
       \/ PatchFails(at, mem[at], Unassign(mem[at])) /\ UNCHANGED unassigned
    /\ Goto("cleanup")
    /\ at' = None
    /\ UNCHANGED <<nag, version, cacheVars, mem, todo, targeted, changes, copy, tries,
                   historyVars, listed, clean, edits>>

EndReconcile ==
    /\ pc = "cleanup"
    /\ todo = {}
    /\ EndRun(FALSE)
    /\ UNCHANGED <<apiVars, cacheVars, historyVars, listed, clean, failed, edits, faults>>

-----------------------------------------------------------------------------
(* WriterContext.UnassignAllNodes *)

\* List all nodes again.  An error is ignored by ReconcileNag.
UnassignList ==
    /\ pc = "unassignList"
    /\ \/ /\ Goto("unassignAll")
          /\ mem' = nodes
          /\ todo' = {n \in Node : nodes[n] # None}
          /\ NoFault
          /\ UNCHANGED spilled
       \/ /\ Goto("removeGet")
          /\ Fail("nodeList")
          /\ todo' = {}
          /\ spilled' = Node
          /\ UNCHANGED mem
    /\ UNCHANGED <<apiVars, cacheVars, targeted, unassigned, changes, at, copy, tries, past,
                   listed, clean, edits>>

\* The error of each patch is ignored.
UnassignNode ==
    \E n \in todo :
        /\ pc = "unassignAll"
        /\ IsFirst(n, todo)
        /\ \/ /\ PatchNode(n, mem[n], Unassign(mem[n]))
              /\ spilled' = spilled \ {n}
           \/ /\ PatchFails(n, mem[n], Unassign(mem[n]))
              /\ spilled' = IF nodes[n] = None THEN spilled ELSE spilled \cup {n}
        /\ todo' = todo \ {n}
        /\ UNCHANGED <<nag, version, cacheVars, pc, wcNag, mem, targeted, unassigned, changes,
                       at, copy, tries, err, past, listed, clean, edits>>

EndUnassign ==
    /\ pc = "unassignAll"
    /\ todo = {}
    /\ Goto("removeGet")
    /\ UNCHANGED <<apiVars, cacheVars, mem, todo, targeted, unassigned, changes, at, copy,
                   tries, historyVars, listed, clean, failed, edits, faults>>

-----------------------------------------------------------------------------
(* The process and its informer. *)

\* The watch delivers the next version of the group to the indexer of the
\* leader.
DeliverNag ==
    /\ watch # <<>>
    /\ past' = IF "crash" \in Faults THEN Append(past, nagIndex) ELSE past
    /\ nagIndex' = Head(watch)
    /\ watch' = Tail(watch)
    /\ UNCHANGED <<apiVars, pc, loopVars, err, spilled, listed, clean, failed, edits, faults>>

\* ReconcileNag would assign nodes if it was given this copy of the group.
Reconciles(obj) == obj # None /\ ~obj.deleting /\ obj.finalizers > 0

\* The informer of the process that goes on has got as far as the i-th of all
\* versions of the group.
TakeOver(all, i) ==
    /\ past' = SubSeq(all, 1, i - 1)
    /\ nagIndex' = all[i]
    /\ watch' = SubSeq(all, i + 1, Len(all))

\* The process dies and is restarted, or another replica takes the lead.  An
\* informer that starts lists the group; the one of a replica that stood by
\* has been running all the time, and nothing is listed again when it becomes
\* the leader: it may be behind the one before, and show a group that has lost
\* its finalizer since as one to be reconciled.  A failing node list in
\* updateNodeSets is fatal (log.Fatal) and has the same effect.
Crash ==
    LET all == past \o <<nagIndex>> \o watch
        unguarded == nag = None \/ nag.finalizers = 0
    IN  /\ \/ Fail("crash")
           \/ pc = "list" /\ Fail("nodeList")
        /\ EndRun(FALSE)
        /\ \E i \in DOMAIN all :
              /\ TakeOver(all, i)
              /\ spilled' = IF unguarded /\ \E j \in i..Len(all) : Reconciles(all[j])
                              THEN Node ELSE spilled
        /\ clean' = FALSE
        /\ UNCHANGED <<apiVars, listed, edits>>

-----------------------------------------------------------------------------
(* Users and other controllers. *)

Edit(kind) ==
    /\ kind \in Edits
    /\ edits < MaxEdits
    /\ edits + 1 = MaxEdits => kind \in LastEdits
    /\ edits' = edits + 1
    /\ clean' = FALSE
    /\ UNCHANGED <<pc, loopVars, err, historyVars, listed, failed, faults, nagIndex>>

\* Only the group is written.
EditNag(kind, obj) == Edit(kind) /\ Store(obj) /\ UNCHANGED nodes

\* Only node n is written.
EditNode(kind, n, obj) ==
    /\ Edit(kind)
    /\ nodes' = [nodes EXCEPT ![n] = obj]
    /\ UNCHANGED <<nag, version, watch>>

CreateNag ==
    /\ nag = None
    /\ version = 0 \/ Recreation
    /\ \E spec \in Specs :
        EditNag("spec", [spec |-> spec, finalizers |-> 0, others |-> FALSE,
                         deleting |-> FALSE, rv |-> 0])

UpdateNag ==
    /\ nag # None
    /\ \E spec \in Specs \ {nag.spec} : EditNag("spec", [nag EXCEPT !.spec = spec])

\* A delete marks an object that has finalizers and removes one that has none.
DeleteNag ==
    /\ nag # None
    /\ ~nag.deleting
    /\ EditNag("spec", AfterFinalizers([nag EXCEPT !.deleting = TRUE]))

\* The packleft controller adds its finalizer, and removes it in the end.
OtherFinalizer ==
    /\ nag # None
    /\ \/ ~nag.others /\ ~nag.deleting /\ EditNag("finalizer", [nag EXCEPT !.others = TRUE])
       \/ nag.others /\ EditNag("finalizer", AfterFinalizers([nag EXCEPT !.others = FALSE]))

AddNode ==
    \E n \in Node, ls \in SUBSET Label :
        nodes[n] = None /\ EditNode("addNode", n, Fresh(ls))

\* Any node goes; or only one that belongs to the group, whatever its spec.
DeleteNode ==
    \E n \in Node :
        /\ nodes[n] # None
        /\ \/ EditNode("deleteNode", n, None)
           \/ /\ \A spec \in Specs : TargetsNode(spec, nodes[n])
              /\ EditNode("deleteTarget", n, None)

RelabelNode ==
    \E n \in Node, l \in Label :
        /\ nodes[n] # None
        /\ \E ls \in {nodes[n].labels \cup {l}, nodes[n].labels \ {l}} \ {nodes[n].labels} :
            EditNode("label", n, [nodes[n] EXCEPT !.labels = ls])

ProtectNode ==
    \E n \in Node :
        /\ nodes[n] # None
        /\ Protected \notin nodes[n].labels
        /\ EditNode("protect", n, [nodes[n] EXCEPT !.labels = @ \cup {Protected}])

\* A taint of somebody else, packleft for one, comes or goes.
ForeignTaint ==
    LET t == [key |-> "other", value |-> None, effect |-> "NoExecute"] IN
    \E n \in Node :
        /\ nodes[n] # None
        /\ EditNode("taint", n,
             [nodes[n] EXCEPT !.taints = IF t \in @ THEN @ \ {t} ELSE @ \cup {t}])

-----------------------------------------------------------------------------

ReconcileNag ==
    \/ ListNodes \/ UnassignUntargeted \/ Decide
    \/ AddGet \/ AddRetry \/ AddFails \/ AddUpdate
    \/ KeepNode \/ ReleaseNode \/ AssignNode \/ ApplyDefault \/ EndAssigning
    \/ CleanupGet \/ CleanupPatch \/ EndReconcile
    \/ UnassignList \/ UnassignNode \/ EndUnassign
    \/ RemoveGet \/ RemoveRetry \/ RemoveFails \/ RemoveUpdate

NagEdit == CreateNag \/ UpdateNag \/ DeleteNag \/ OtherFinalizer

NodeEdit == AddNode \/ DeleteNode \/ RelabelNode \/ ProtectNode \/ ForeignTaint

Next == Start \/ ReconcileNag \/ DeliverNag \/ Crash \/ NagEdit \/ NodeEdit

Spec == Init /\ [][Next]_vars

-----------------------------------------------------------------------------
(* What is correct. *)

\* Labels and taints that carry the name of the group.
GroupTaints(node) == {t \in node.taints : t.key = "nag"}

HasTraces(node) == IsAssigned(node) \/ GroupTaints(node) # {}

\* As long as a node carries the group's label or taint, the group exists and
\* has the finalizer, so that its deletion cannot complete before the node
\* has been cleaned (AddFinalizer before Reconcile, UnassignAllNodes before
\* RemoveFinalizer).  Stale caches, conflicts, lost replies, crashes and
\* failing calls do not break this, but for the nodes that the code leaves to
\* themselves: the patch of UnassignAllNodes, or its list of all nodes, has
\* failed, and no later one has succeeded; or a replica has taken the lead that
\* does not know yet that the finalizer is gone.
TracesImplyFinalizer ==
    \A n \in Node \ spilled :
        nodes[n] # None /\ HasTraces(nodes[n]) => nag # None /\ nag.finalizers > 0

\* The same as a protocol: what ReconcileNag does to the group, its finalizer
\* and the traces on the nodes is what FinalizerGuard allows.  No run takes the
\* finalizer off a group that is not being deleted, or off one that still has
\* traces on nodes it has not left to themselves, however stale the cached
\* group is that the run was started with.
Guarding ==
    INSTANCE FinalizerGuard WITH
        phase <- IF nag = None THEN "absent" ELSE IF nag.deleting THEN "deleting" ELSE "live",
        guarded <- nag # None /\ nag.finalizers > 0,
        traces <- \E n \in Node \ spilled : nodes[n] # None /\ HasTraces(nodes[n])

ImplementsFinalizerGuard == Guarding!Spec

\* The nodes that exist and that the spec targets.
Targets(spec) == {n \in Node : nodes[n] # None /\ TargetsNode(spec, nodes[n])}

Count(spec, name) == NumAssigned([n \in Targets(spec) |-> nodes[n]], name)

\* What the group asks for and the nodes allow.
LabelsSatisfied(spec) ==
    LET total == Cardinality(Targets(spec))
        Free(n) == ~IsAssigned(nodes[n]) \/ IsDefault(spec, GetAssignment(nodes[n]))
    IN  /\ \A n \in Node \ Targets(spec) : nodes[n] = None \/ ~IsAssigned(nodes[n])
        /\ \A n \in Targets(spec) :
             IF IsAssigned(nodes[n])
               THEN GetAssignment(nodes[n]) \in KnownAssignments(spec)
               ELSE ~HasDefault(spec)
        /\ \A i \in DOMAIN spec.assignments :
             LET a == spec.assignments[i]
                 have == Count(spec, a.name)
             IN  /\ have <= Desired(a, total)
                 /\ have < Desired(a, total) => \A n \in Targets(spec) : ~Free(n)

\* A node that is not assigned has no taint of the group.
TaintsSatisfied ==
    \A n \in Node : nodes[n] = None \/ IsAssigned(nodes[n]) \/ GroupTaints(nodes[n]) = {}

Satisfied(spec) == LabelsSatisfied(spec) /\ TaintsSatisfied

\* A run that reconciled the current group and was not disturbed has just
\* ended.
Reconciled == pc = "done" /\ clean /\ ~failed /\ nag # None /\ ~nag.deleting

\* One undisturbed run of Reconcile is enough, from every state that earlier
\* runs, crashes, failures and edits have left: nodes that are not targeted
\* are clean, no assignment has more nodes than it desires, none misses a
\* node while one is free or in the default, the default has the rest.
RunSatisfiesGroup == Reconciled => Satisfied(nag.spec)

\* Nodes are handed out in the order of the spec: as long as an assignment
\* misses nodes, the run gives none to a later one.
PriorityRespected ==
    Reconciled =>
        LET as == nag.spec.assignments IN
        \A i, j \in DOMAIN as :
            i < j /\ Count(nag.spec, as[i].name) < Desired(as[i], Cardinality(Targets(nag.spec)))
                => \A n \in Targets(nag.spec) :
                     GetAssignment(nodes[n]) = as[j].name
                        => GetAssignment(listed[n]) = as[j].name

\* _examples/resources/nodeassignmentgroups/README.md, lines 23 and 24: "it is
\* a prioritized list so if there are not enough nodes for all assignments than
\* it will take from lower assignments to allocate for higher assignments".
HigherTakesFromLower ==
    Reconciled =>
        LET as == nag.spec.assignments IN
        \A i, j \in DOMAIN as :
            i < j /\ Count(nag.spec, as[i].name) < Desired(as[i], Cardinality(Targets(nag.spec)))
                => Count(nag.spec, as[j].name) = 0

\* A run moves no more nodes out of an assignment than the assignment has too
\* many of.
OnlySurplusMoves ==
    Reconciled =>
        \A i \in DOMAIN nag.spec.assignments :
            LET a == nag.spec.assignments[i]
                had == {n \in Targets(nag.spec) : GetAssignment(listed[n]) = a.name}
                lost == {n \in had : GetAssignment(nodes[n]) # a.name}
                surplus == Cardinality(had) - Desired(a, Cardinality(Targets(nag.spec)))
            IN  Cardinality(lost) <= IF surplus > 0 THEN surplus ELSE 0

\* "Makes any reassignments atomic" (updateNodeSets, Reconcile): a group with
\* a default never leaves a targeted node without its label, not even
\* between two API calls, as long as nobody else writes.
NeverBare ==
    [][pc # "done" /\ clean /\ clean' /\ ~wcNag.deleting /\ HasDefault(wcNag.spec)
         => \A n \in Targets(wcNag.spec) :
                IsAssigned(nodes[n]) => IsAssigned(nodes'[n])]_vars

OtherTaints(node) == {t \in node.taints : t.key = "other"}

\* Taints that do not belong to the group survive every step of a run,
\* although the taint list is replaced as a whole, as long as nobody else
\* writes the nodes between the list and the patch.
OtherTaintsKept ==
    [][clean /\ clean'
         => \A n \in Node :
                nodes[n] # None => OtherTaints(nodes'[n]) = OtherTaints(nodes[n])]_vars
=============================================================================
