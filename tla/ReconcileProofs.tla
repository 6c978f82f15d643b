-------------------------- MODULE ReconcileProofs --------------------------
(***************************************************************************)
(* What an undisturbed run of ReconcileNag does to the nodes, for every    *)
(* cluster, set of specs, set of failing calls and bound.                  *)
(*                                                                         *)
(* On the way it takes no taint of somebody else away, and with a default  *)
(* assignment it leaves no node of the group without its label, not even   *)
(* between two API calls.  At its end, when the names of the spec are      *)
(* distinct, the group is satisfied, in the order of its assignments, and  *)
(* no more nodes have moved than had to.                                   *)
(*                                                                         *)
(* The second half keeps the books of the loop: what each node of the      *)
(* group is assigned to as the run sees it, against AssignmentChanges.     *)
(* The lemmas about the books mention no variable; a step of the run is    *)
(* then shown to make one of their entries.                                *)
(***************************************************************************)
EXTENDS NodeAssignmentProofs

-----------------------------------------------------------------------------
(* What happens on the way. *)

\* The nodes that the run is about.
GroupNodes == Targets(wcNag.spec)

\* The run's copies agree with the nodes in what is not the group's.
CopiesInv ==
    clean => \A n \in Node :
        mem[n] # None /\ nodes[n] # None => OtherTaints(mem[n]) = OtherTaints(nodes[n])

\* Nodes that are unassigned in memory only are still to be assigned, and
\* nodes that are going to be cleaned are not of the group.
Spared ==
    /\ pc = "sets" => todo \cap GroupNodes = {} /\ unassigned \cap GroupNodes \subseteq targeted
    /\ pc \in {"sets", "reconcile", "default"} => \A n \in unassigned : ~IsAssigned(mem[n])
    /\ pc \in {"reconcile", "default"} /\ HasDefault(wcNag.spec) =>
        unassigned \cap GroupNodes \subseteq todo
    /\ pc \in {"cleanup", "cleanupPatch"} /\ HasDefault(wcNag.spec) => todo \cap GroupNodes = {}
    /\ pc = "cleanupPatch" /\ HasDefault(wcNag.spec) => at \notin GroupNodes
    /\ pc \in {"unassignList", "unassignAll"} => wcNag.deleting

SparedInv == clean => Spared

CleanInv == CopiesInv /\ SparedInv

\* What a step does to a node that nobody else writes.
Kept(n) ==
    \/ nodes'[n] = nodes[n]
    \/ /\ nodes[n] # None /\ nodes'[n] # None
       /\ nodes'[n].labels = nodes[n].labels
       /\ OtherTaints(nodes'[n]) = OtherTaints(nodes[n])

LabelKept(n) == IsAssigned(nodes[n]) => IsAssigned(nodes'[n])

Harmless ==
    clean /\ clean' =>
        /\ \A n \in Node : Kept(n)
        /\ pc # "done" /\ ~wcNag.deleting /\ HasDefault(wcNag.spec) =>
            \A n \in GroupNodes : LabelKept(n)

-----------------------------------------------------------------------------
(* The operators. *)

LEMMA UnassignKeeps ==
    ASSUME NEW node \in NodeObject
    PROVE  OtherTaints(Unassign(node)) = OtherTaints(node)
<1>1. Unassign(node).taints = {t \in node.taints : t.key \notin {"nag", "packleft"}}
    BY UnassignFacts
<1> QED  BY <1>1 DEF OtherTaints

LEMMA AssignKeeps ==
    ASSUME NEW node \in NodeObject, NEW a \in AssignmentObject
    PROVE  /\ OtherTaints(Assign(node, a)) = OtherTaints(node)
           /\ Assign(node, a).assign = a.name
           /\ a.name # None
<1> DEFINE labelled == SetLabel(node, a)
           t == [key |-> "nag", value |-> a.name, effect |-> TaintEffect(a)]
<1>1. labelled.taints = node.taints /\ labelled.assign = a.name
    BY DEF SetLabel, NodeObject
<1>2. a.name # None
    BY NoneAssumption DEF AssignmentObject
<1>3. t.key # "other"
    OBVIOUS
<1>4. /\ SetTaint(labelled, a).taints = node.taints \cup {t}
      /\ SetTaint(labelled, a).assign = a.name
    BY <1>1 DEF SetTaint, SetLabel, NodeObject
<1> HIDE DEF t, labelled
<1>5. Assign(node, a) \in {labelled, SetTaint(labelled, a)}
    BY DEF Assign, labelled
<1> QED  BY <1>1, <1>2, <1>3, <1>4, <1>5 DEF OtherTaints

\* A patch made from the run's copy changes nothing that is not the group's,
\* as the copy agrees with the node.
LEMMA PatchKeeps ==
    ASSUME TypeInv, CopiesInv, clean, NEW n \in Node, mem[n] \in NodeObject, mem[n] # None,
           NEW new \in NodeObject, OtherTaints(new) = OtherTaints(mem[n]),
           PatchNode(n, mem[n], new) \/ PatchFails(n, mem[n], new)
    PROVE  /\ \A m \in Node : Kept(m)
           /\ \A m \in Node : m # n => nodes'[m] = nodes[m]
           /\ new.assign # None => LabelKept(n)
<1> DEFINE old == mem[n]
           patched == Patch(nodes[n], old, new)
<1>1. nodes' = nodes \/ (nodes[n] # None /\ nodes' = [nodes EXCEPT ![n] = patched])
    BY DEF PatchNode, PatchFails
<1>2. ASSUME nodes[n] # None
      PROVE  /\ patched # None
             /\ patched.labels = nodes[n].labels
             /\ OtherTaints(patched) = OtherTaints(nodes[n])
             /\ new.assign # None /\ nodes[n].assign # None => patched.assign # None
    <2>1. nodes[n] \in NodeObject
        BY <1>2 DEF TypeInv, TypeOK, NodeMap
    <2>2. patched \in NodeObject
        BY <2>1, PatchType
    <2>3. patched.assign = IF new.assign = old.assign THEN nodes[n].assign ELSE new.assign
        BY <2>1 DEF Patch, NodeObject
    <2>4. patched.taints = IF new.taints = old.taints THEN nodes[n].taints ELSE new.taints
        BY <2>1 DEF Patch, NodeObject
    <2>5. patched.labels = nodes[n].labels
        BY <2>1 DEF Patch, NodeObject
    <2>6. OtherTaints(old) = OtherTaints(nodes[n])
        BY <1>2 DEF CopiesInv
    <2> HIDE DEF patched
    <2> QED  BY <2>2, <2>3, <2>4, <2>5, <2>6, NoneAssumption DEF OtherTaints
<1> HIDE DEF patched
<1>3. ASSUME NEW m \in Node, m # n
      PROVE  nodes'[m] = nodes[m]
    BY <1>1, <1>3 DEF TypeInv, TypeOK, NodeMap
<1>4. nodes'[n] = nodes[n] \/ (nodes[n] # None /\ nodes'[n] = patched)
    BY <1>1 DEF TypeInv, TypeOK, NodeMap
<1>5. Kept(n)
    BY <1>2, <1>4 DEF Kept
<1>6. new.assign # None => LabelKept(n)
    BY <1>2, <1>4 DEF LabelKept, IsAssigned, GetAssignment
<1> QED  BY <1>3, <1>5, <1>6 DEF Kept

\* Neither do the nodes of the group change.
LEMMA TargetsKept ==
    ASSUME \A n \in Node : Kept(n), wcNag' = wcNag
    PROVE  GroupNodes' = GroupNodes
<1>1. ASSUME NEW n \in Node
      PROVE  /\ nodes'[n] # None <=> nodes[n] # None
             /\ nodes[n] # None =>
                  (TargetsNode(wcNag.spec, nodes'[n]) <=> TargetsNode(wcNag.spec, nodes[n]))
    BY DEF Kept, TargetsNode
<1>2. GroupNodes' = {n \in Node : nodes'[n] # None /\ TargetsNode(wcNag.spec, nodes'[n])}
    BY DEF GroupNodes, Targets
<1>3. GroupNodes = {n \in Node : nodes[n] # None /\ TargetsNode(wcNag.spec, nodes[n])}
    BY DEF GroupNodes, Targets
<1> QED  BY <1>1, <1>2, <1>3

LEMMA CopiesKept ==
    ASSUME CopiesInv, clean, \A n \in Node : Kept(n), mem' = mem
    PROVE  CopiesInv'
    BY DEF CopiesInv, Kept

-----------------------------------------------------------------------------
(* Steps that leave the nodes alone. *)

\* After somebody else has written, or at the start of a run, nothing is
\* claimed.
LEMMA UncleanStep ==
    Start \/ AddUpdate \/ Crash \/ NagEdit \/ NodeEdit => CleanInv' /\ Harmless
<1>1. ASSUME Start \/ AddUpdate \/ Crash \/ NagEdit \/ NodeEdit
      PROVE  clean' = FALSE
    <2>1. CASE Start
        BY <2>1 DEF Start
    <2>2. CASE AddUpdate
        BY <2>2 DEF AddUpdate
    <2>3. CASE Crash
        BY <2>3 DEF Crash
    <2>4. CASE NagEdit
        BY <2>4 DEF NagEdit, CreateNag, UpdateNag, DeleteNag, OtherFinalizer, EditNag, Edit
    <2>5. CASE NodeEdit
        BY <2>5 DEF NodeEdit, AddNode, DeleteNode, RelabelNode, ProtectNode, ForeignTaint,
            EditNode, Edit
    <2> QED  BY <1>1, <2>1, <2>2, <2>3, <2>4, <2>5
<1> QED  BY <1>1 DEF CleanInv, CopiesInv, SparedInv, Harmless

LEMMA SameNodesHarmless ==
    ASSUME nodes' = nodes
    PROVE  Harmless /\ (\A n \in Node : Kept(n)) /\ (wcNag' = wcNag => GroupNodes' = GroupNodes)
<1>1. Harmless /\ \A n \in Node : Kept(n)
    BY DEF Harmless, Kept, LabelKept
<1> QED  BY <1>1, TargetsKept

\* A run that ends leaves no copies behind.
LEMMA EndedRun ==
    ASSUME mem' = Gone, pc' = "done"
    PROVE  CleanInv'
    BY DEF CleanInv, CopiesInv, SparedInv, Spared, Gone

LEMMA FinalizerStep ==
    CleanInv /\ (AddGet \/ AddRetry \/ AddFails \/ RemoveGet \/ RemoveRetry \/ RemoveFails
                    \/ RemoveUpdate \/ EndReconcile)
        => CleanInv' /\ Harmless
<1> SUFFICES ASSUME CleanInv,
                    AddGet \/ AddRetry \/ AddFails \/ RemoveGet \/ RemoveRetry \/ RemoveFails
                        \/ RemoveUpdate \/ EndReconcile
             PROVE  CleanInv' /\ Harmless
    OBVIOUS
<1>1. nodes' = nodes /\ clean' = clean
    BY DEF AddGet, AddRetry, AddFails, RemoveGet, RemoveRetry, RemoveFails, RemoveUpdate,
        Answered, EndReconcile, GetNag, RetryUpdate, UpdateFails, apiVars
<1>2. \/ mem' = Gone /\ pc' = "done"
      \/ mem' = mem /\ pc' \in {"addGet", "addUpdate", "removeGet", "removeUpdate"}
    BY DEF AddGet, AddRetry, AddFails, RemoveGet, RemoveRetry, RemoveFails, RemoveUpdate,
        Answered, EndReconcile, GetNag, RetryUpdate, UpdateFails, EndRun, Goto
<1>3. ASSUME mem' = mem, pc' \in {"addGet", "addUpdate", "removeGet", "removeUpdate"}
      PROVE  CleanInv'
    BY <1>1, <1>3 DEF CleanInv, CopiesInv, SparedInv, Spared
<1> QED  BY <1>1, <1>2, <1>3, EndedRun, SameNodesHarmless

\* Steps in memory.
LEMMA QuietCleanStep ==
    TypeInv /\ CleanInv
        /\ (Decide \/ KeepNode \/ EndAssigning \/ EndUnassign \/ DeliverNag \/ UNCHANGED vars)
        => CleanInv' /\ Harmless
<1> SUFFICES ASSUME TypeInv, CleanInv,
                    Decide \/ KeepNode \/ EndAssigning \/ EndUnassign \/ DeliverNag
                        \/ UNCHANGED vars
             PROVE  CleanInv' /\ Harmless
    OBVIOUS
<1>1. nodes' = nodes /\ clean' = clean /\ mem' = mem /\ wcNag' = wcNag /\ unassigned' = unassigned
        /\ targeted' = targeted /\ at' = at
    BY DEF Decide, KeepNode, EndAssigning, EndUnassign, DeliverNag, vars, apiVars, cacheVars,
        loopVars, Goto
<1>2. GroupNodes' = GroupNodes
    BY <1>1, SameNodesHarmless
<1>3. CopiesInv'
    BY <1>1 DEF CleanInv, CopiesInv
<1>4. ASSUME Spared PROVE Spared'
    <2>1. CASE Decide
        BY <1>1, <1>2, <1>4, <2>1 DEF Decide, Spared, Goto
    <2>2. CASE KeepNode
        <3>1. PICK n \in todo : pc = "reconcile" /\ pc' = pc /\ IsAssigned(mem[n])
                                    /\ todo' = todo \ {n}
            BY <2>2 DEF KeepNode
        <3>2. n \notin unassigned
            BY <1>4, <3>1 DEF Spared
        <3> QED  BY <1>1, <1>2, <1>4, <3>1, <3>2 DEF Spared
    <2>3. CASE EndAssigning
        BY <1>1, <1>2, <1>4, <2>3 DEF EndAssigning, Spared, Goto
    <2>4. CASE EndUnassign
        BY <1>1, <1>2, <1>4, <2>4 DEF EndUnassign, Spared, Goto
    <2>5. CASE DeliverNag \/ UNCHANGED vars
        <3>1. pc' = pc /\ todo' = todo
            BY <2>5 DEF DeliverNag, vars, loopVars
        <3> QED  BY <1>1, <1>2, <1>4, <3>1 DEF Spared
    <2> QED  BY <2>1, <2>2, <2>3, <2>4, <2>5
<1>5. SparedInv'
    BY <1>1, <1>4 DEF CleanInv, SparedInv
<1> QED  BY <1>1, <1>3, <1>5, SameNodesHarmless DEF CleanInv

-----------------------------------------------------------------------------
(* Steps that change the copies. *)

LEMMA ListNodesClean == TypeInv /\ CleanInv /\ ListNodes => CleanInv' /\ Harmless
<1> SUFFICES ASSUME TypeInv, CleanInv, ListNodes PROVE CleanInv' /\ Harmless
    OBVIOUS
<1> DEFINE Unknown(n) == IsAssigned(nodes[n])
                            /\ GetAssignment(nodes[n]) \notin KnownAssignments(wcNag.spec)
           present == {n \in Node : nodes[n] # None}
           unknown == {n \in present : Unknown(n)}
           target == {n \in present : TargetsNode(wcNag.spec, nodes[n])}
<1>1. /\ nodes' = nodes /\ wcNag' = wcNag /\ pc' = "sets"
      /\ mem' = [n \in Node |-> IF n \in unknown THEN Unassign(nodes[n]) ELSE nodes[n]]
      /\ unassigned' = unknown
      /\ targeted' = target
      /\ todo' = {n \in present \ target : IsAssigned(nodes[n]) /\ ~Unknown(n)}
    BY DEF ListNodes, Goto, apiVars
<1>2. target = GroupNodes /\ GroupNodes' = GroupNodes
    <2>1. target = GroupNodes
        BY DEF GroupNodes, Targets
    <2> QED  BY <1>1, <2>1, SameNodesHarmless
<1>3. \A n \in present : nodes[n] \in NodeObject
    BY DEF TypeInv, TypeOK, NodeMap
<1> HIDE DEF target, Unknown
<1>4. CopiesInv'
    BY <1>1, <1>3, UnassignKeeps DEF CopiesInv
<1>5. \A n \in unknown : ~IsAssigned(mem'[n])
    BY <1>1, <1>3, UnassignFacts DEF IsAssigned, GetAssignment
<1>6. todo' \cap GroupNodes' = {} /\ unassigned' \cap GroupNodes' \subseteq targeted'
    BY <1>1, <1>2
<1>7. Spared'
    BY <1>1, <1>5, <1>6 DEF Spared
<1> QED  BY <1>1, <1>4, <1>7, SameNodesHarmless DEF CleanInv, SparedInv

LEMMA ReleaseNodeClean == TypeInv /\ CleanInv /\ ReleaseNode => CleanInv' /\ Harmless
<1> SUFFICES ASSUME TypeInv, CleanInv, ReleaseNode PROVE CleanInv' /\ Harmless
    OBVIOUS
<1>1. PICK n \in todo :
        /\ pc = "reconcile" /\ pc' = pc
        /\ mem' = [mem EXCEPT ![n] = Unassign(mem[n])]
        /\ unassigned' = unassigned \cup {n}
        /\ nodes' = nodes /\ wcNag' = wcNag /\ todo' = todo /\ clean' = clean
    BY DEF ReleaseNode, apiVars
<1>2. n \in Node /\ mem[n] \in NodeObject /\ mem[n] # None
    BY <1>1 DEF TypeInv, TypeOK, MemInv, NodeMap
<1>3. /\ mem'[n] = Unassign(mem[n])
      /\ \A m \in Node : m # n => mem'[m] = mem[m]
    BY <1>1, <1>2 DEF TypeInv, TypeOK, NodeMap
<1>4. OtherTaints(mem'[n]) = OtherTaints(mem[n]) /\ ~IsAssigned(mem'[n])
    BY <1>2, <1>3, UnassignKeeps, UnassignFacts DEF IsAssigned, GetAssignment
<1>5. CopiesInv'
    BY <1>1, <1>2, <1>3, <1>4 DEF CleanInv, CopiesInv
<1>6. GroupNodes' = GroupNodes
    BY <1>1, SameNodesHarmless
<1>7. ASSUME Spared PROVE Spared'
    <2>1. \A m \in unassigned : m \in Node
        BY DEF TypeInv, TypeOK
    <2> QED  BY <1>1, <1>3, <1>4, <1>6, <1>7, <2>1 DEF Spared
<1> QED  BY <1>1, <1>5, <1>7, SameNodesHarmless DEF CleanInv, SparedInv

LEMMA CleanupGetClean == TypeInv /\ CleanInv /\ CleanupGet => CleanInv' /\ Harmless
<1> SUFFICES ASSUME TypeInv, CleanInv, CleanupGet PROVE CleanInv' /\ Harmless
    OBVIOUS
<1>1. PICK n \in todo :
        /\ pc = "cleanup" /\ todo' = todo \ {n}
        /\ nodes' = nodes /\ clean' = clean /\ wcNag' = wcNag
        /\ \/ pc' = "cleanupPatch" /\ at' = n /\ mem' = [mem EXCEPT ![n] = nodes[n]]
           \/ pc' = pc /\ mem' = mem
    BY DEF CleanupGet, apiVars, Goto
<1>2. CopiesInv'
    BY <1>1 DEF CleanInv, CopiesInv, TypeInv, TypeOK, NodeMap
<1>3. GroupNodes' = GroupNodes
    BY <1>1, SameNodesHarmless
<1>4. ASSUME Spared PROVE Spared'
    BY <1>1, <1>3, <1>4 DEF Spared
<1> QED  BY <1>1, <1>2, <1>4, SameNodesHarmless DEF CleanInv, SparedInv

LEMMA UnassignListClean == CleanInv /\ UnassignList => CleanInv' /\ Harmless
<1> SUFFICES ASSUME CleanInv, UnassignList PROVE CleanInv' /\ Harmless
    OBVIOUS
<1>1. /\ nodes' = nodes /\ clean' = clean /\ wcNag' = wcNag /\ pc = "unassignList"
      /\ pc' \in {"unassignAll", "removeGet"}
      /\ mem' = nodes \/ mem' = mem
    BY DEF UnassignList, apiVars, Goto
<1>2. CopiesInv'
    BY <1>1 DEF CleanInv, CopiesInv
<1>3. ASSUME Spared PROVE Spared'
    BY <1>1, <1>3 DEF Spared
<1> QED  BY <1>1, <1>2, <1>3, SameNodesHarmless DEF CleanInv, SparedInv

-----------------------------------------------------------------------------
(* Steps that patch a node. *)

\* Such a step, as far as the nodes and copies are concerned.
LEMMA PatchStep ==
    ASSUME TypeInv, CleanInv, clean, NEW n \in Node, mem[n] # None,
           NEW new \in NodeObject, OtherTaints(new) = OtherTaints(mem[n]),
           PatchNode(n, mem[n], new) \/ PatchFails(n, mem[n], new),
           pc # "done" /\ ~wcNag.deleting /\ HasDefault(wcNag.spec) /\ n \in GroupNodes
               => new.assign # None
    PROVE  /\ Harmless
           /\ mem' = mem => CopiesInv'
           /\ wcNag' = wcNag => GroupNodes' = GroupNodes
<1>1. mem[n] \in NodeObject
    BY DEF TypeInv, TypeOK, NodeMap
<1>2. /\ \A m \in Node : Kept(m)
      /\ \A m \in Node : m # n => nodes'[m] = nodes[m]
      /\ new.assign # None => LabelKept(n)
    BY <1>1, PatchKeeps DEF CleanInv
<1>3. Harmless
    <2>1. GroupNodes \subseteq Node
        BY DEF GroupNodes, Targets
    <2> QED  BY <1>2, <2>1 DEF Harmless, LabelKept
<1> QED  BY <1>2, <1>3, CopiesKept, TargetsKept DEF CleanInv

\* The steps that take the group off a node: it is not one of the group's, or
\* the group is being deleted.
LEMMA UnassignStep ==
    TypeInv /\ CleanInv /\ (UnassignUntargeted \/ CleanupPatch \/ UnassignNode)
        => CleanInv' /\ Harmless
<1> SUFFICES ASSUME TypeInv, CleanInv, UnassignUntargeted \/ CleanupPatch \/ UnassignNode
             PROVE  CleanInv' /\ Harmless
    OBVIOUS
<1>1. mem' = mem /\ wcNag' = wcNag /\ clean' = clean
    BY DEF UnassignUntargeted, CleanupPatch, UnassignNode, Goto
<1>2. CASE ~clean
    BY <1>1, <1>2 DEF CleanInv, CopiesInv, SparedInv, Harmless
<1>3. CASE clean
    <2>1. Spared
        BY <1>3 DEF CleanInv, SparedInv
    <2>2. ASSUME NEW n \in Node, mem[n] # None,
                 ~wcNag.deleting /\ HasDefault(wcNag.spec) => n \notin GroupNodes,
                 \/ PatchNode(n, mem[n], Unassign(mem[n]))
                 \/ PatchFails(n, mem[n], Unassign(mem[n]))
          PROVE  Harmless /\ CopiesInv' /\ GroupNodes' = GroupNodes
        <3>1. mem[n] \in NodeObject
            BY <2>2 DEF TypeInv, TypeOK, NodeMap
        <3>2. /\ Unassign(mem[n]) \in NodeObject
              /\ OtherTaints(Unassign(mem[n])) = OtherTaints(mem[n])
            BY <3>1, UnassignFacts, UnassignKeeps
        <3> QED  BY <1>1, <1>3, <2>2, <3>2, PatchStep
    <2>3. CASE UnassignUntargeted
        <3>1. PICK n \in todo :
                /\ pc = "sets" /\ pc' = pc
                /\ \/ PatchNode(n, mem[n], Unassign(mem[n]))
                   \/ PatchFails(n, mem[n], Unassign(mem[n]))
                /\ \/ todo' = todo \ {n} /\ UNCHANGED <<targeted, unassigned>>
                   \/ /\ todo' = {}
                      /\ targeted' = {m \in targeted : m < n}
                      /\ unassigned' = {m \in unassigned : m < n}
            BY <2>3 DEF UnassignUntargeted
        <3>2. n \in Node /\ mem[n] # None
            BY <3>1 DEF TypeInv, TypeOK, MemInv
        <3>3. n \notin GroupNodes
            BY <2>1, <3>1 DEF Spared
        <3>4. Harmless /\ CopiesInv' /\ GroupNodes' = GroupNodes
            BY <2>2, <3>1, <3>2, <3>3
        <3>5. todo' \cap GroupNodes = {} /\ unassigned' \cap GroupNodes \subseteq targeted'
                /\ unassigned' \subseteq unassigned
            BY <2>1, <3>1 DEF Spared
        <3>6. Spared'
            BY <1>1, <2>1, <3>1, <3>4, <3>5 DEF Spared
        <3> QED  BY <3>4, <3>6 DEF CleanInv, SparedInv
    <2>4. CASE CleanupPatch
        <3>1. /\ pc = "cleanupPatch" /\ pc' = "cleanup" /\ todo' = todo
              /\ \/ PatchNode(at, mem[at], Unassign(mem[at]))
                 \/ PatchFails(at, mem[at], Unassign(mem[at]))
            BY <2>4 DEF CleanupPatch, Goto
        <3>2. at \in Node /\ mem[at] # None
            BY <3>1 DEF TypeInv, MemInv
        <3>3. HasDefault(wcNag.spec) => at \notin GroupNodes
            BY <2>1, <3>1 DEF Spared
        <3>4. Harmless /\ CopiesInv' /\ GroupNodes' = GroupNodes
            BY <2>2, <3>1, <3>2, <3>3
        <3>5. Spared'
            BY <1>1, <2>1, <3>1, <3>4 DEF Spared
        <3> QED  BY <3>4, <3>5 DEF CleanInv, SparedInv
    <2>5. CASE UnassignNode
        <3>1. PICK n \in todo :
                /\ pc = "unassignAll" /\ pc' = pc
                /\ \/ PatchNode(n, mem[n], Unassign(mem[n]))
                   \/ PatchFails(n, mem[n], Unassign(mem[n]))
            BY <2>5 DEF UnassignNode
        <3>2. n \in Node /\ mem[n] # None
            BY <3>1 DEF TypeInv, TypeOK, MemInv
        <3>3. wcNag.deleting
            BY <2>1, <3>1 DEF Spared
        <3>4. Harmless /\ CopiesInv' /\ GroupNodes' = GroupNodes
            BY <2>2, <3>1, <3>2, <3>3
        <3>5. Spared'
            BY <1>1, <2>1, <3>1, <3>4 DEF Spared
        <3> QED  BY <3>4, <3>5 DEF CleanInv, SparedInv
    <2> QED  BY <2>3, <2>4, <2>5
<1> QED  BY <1>2, <1>3

\* What the two steps that assign a node have in common.
LEMMA AssignPatch ==
    ASSUME TypeInv, CleanInv, clean, NEW n \in Node, mem[n] # None, NEW a \in AssignmentObject,
           \/ PatchNode(n, mem[n], Assign(mem[n], a))
           \/ PatchFails(n, mem[n], Assign(mem[n], a))
    PROVE  /\ Harmless
           /\ mem' = mem => CopiesInv'
           /\ wcNag' = wcNag => GroupNodes' = GroupNodes
<1>1. mem[n] \in NodeObject
    BY DEF TypeInv, TypeOK, NodeMap
<1>2. /\ Assign(mem[n], a) \in NodeObject
      /\ OtherTaints(Assign(mem[n], a)) = OtherTaints(mem[n])
      /\ Assign(mem[n], a).assign # None
    BY <1>1, AssignType, AssignKeeps
<1> QED  BY <1>2, PatchStep

LEMMA AssignNodeClean == TypeInv /\ CleanInv /\ AssignNode => CleanInv' /\ Harmless
<1> SUFFICES ASSUME TypeInv, CleanInv, AssignNode PROVE CleanInv' /\ Harmless
    OBVIOUS
<1> DEFINE a == FirstNeeding(wcNag.spec, changes)
<1>1. PICK n \in todo :
        /\ pc = "reconcile" /\ a # None
        /\ \/ PatchNode(n, mem[n], Assign(mem[n], a))
           \/ PatchFails(n, mem[n], Assign(mem[n], a))
        /\ \/ pc' = pc /\ todo' = todo \ {n} /\ unassigned' = unassigned \ {n}
           \/ pc' = "default" /\ UNCHANGED <<todo, unassigned>>
        /\ wcNag' = wcNag /\ mem' = mem /\ clean' = clean
    BY DEF AssignNode
<1>2. n \in Node /\ mem[n] # None
    BY <1>1 DEF TypeInv, TypeOK, MemInv
<1>3. a \in AssignmentObject
    <2>1. wcNag.spec \in NagSpec /\ changes \in [AName -> Int]
        BY <1>1, SpecsAssumption DEF TypeInv, TypeOK, Nags, NagObject
    <2> QED  BY <1>1, <2>1, FirstNeedingType
<1> HIDE DEF a
<1>4. CASE ~clean
    BY <1>1, <1>4 DEF CleanInv, CopiesInv, SparedInv, Harmless
<1>5. CASE clean
    <2>1. Harmless /\ CopiesInv' /\ GroupNodes' = GroupNodes
        BY <1>1, <1>2, <1>3, <1>5, AssignPatch
    <2>2. Spared'
        BY <1>1, <1>5, <2>1 DEF CleanInv, SparedInv, Spared
    <2> QED  BY <2>1, <2>2 DEF CleanInv, SparedInv
<1> QED  BY <1>4, <1>5

LEMMA ApplyDefaultClean == TypeInv /\ CleanInv /\ ApplyDefault => CleanInv' /\ Harmless
<1> SUFFICES ASSUME TypeInv, CleanInv, ApplyDefault PROVE CleanInv' /\ Harmless
    OBVIOUS
<1> DEFINE a == wcNag.spec.defaultAssignment
<1>1. PICK n \in todo :
        /\ pc \in {"reconcile", "default"}
        /\ clean' = clean
        /\ \/ /\ a = None /\ nodes' = nodes /\ mem' = mem /\ wcNag' = wcNag
              /\ pc' = "reconcile" /\ unassigned' = unassigned
           \/ /\ a # None /\ PatchNode(n, mem[n], Assign(mem[n], a))
              /\ todo' = todo \ {n} /\ unassigned' = unassigned \ {n}
              /\ pc' = "reconcile" /\ mem' = mem /\ wcNag' = wcNag
           \/ /\ a # None /\ PatchFails(n, mem[n], Assign(mem[n], a))
              /\ pc' = "done" /\ mem' = Gone
    BY DEF ApplyDefault, Goto, EndRun
<1>2. n \in Node /\ mem[n] # None
    BY <1>1 DEF TypeInv, TypeOK, MemInv
<1>3. a # None => a \in AssignmentObject
    <2>1. wcNag.spec \in NagSpec
        BY <1>1, SpecsAssumption DEF TypeInv, TypeOK, Nags, NagObject
    <2> QED  BY <2>1 DEF NagSpec
<1>4. a # None <=> HasDefault(wcNag.spec)
    BY DEF HasDefault
<1> HIDE DEF a
<1>5. CASE ~clean
    BY <1>1, <1>5 DEF CleanInv, CopiesInv, SparedInv, Harmless
<1>6. CASE clean
    <2>0. Spared
        BY <1>6 DEF CleanInv, SparedInv
    <2>1. CASE a = None
        <3>1. GroupNodes' = GroupNodes /\ Harmless
            BY <1>1, <2>1, SameNodesHarmless
        <3>2. CopiesInv'
            BY <1>1, <2>1 DEF CleanInv, CopiesInv
        <3>3. Spared'
            BY <1>1, <1>4, <2>0, <2>1, <3>1 DEF Spared
        <3> QED  BY <3>1, <3>2, <3>3 DEF CleanInv, SparedInv
    <2>2. CASE a # None
        <3>1. Harmless /\ (mem' = mem => CopiesInv') /\ (wcNag' = wcNag => GroupNodes' = GroupNodes)
            BY <1>1, <1>2, <1>3, <1>6, <2>2, AssignPatch
        <3>2. CASE pc' = "done" /\ mem' = Gone
            BY <3>1, <3>2, EndedRun
        <3>3. CASE /\ todo' = todo \ {n} /\ unassigned' = unassigned \ {n}
                   /\ pc' = "reconcile" /\ mem' = mem /\ wcNag' = wcNag
            <4>1. Spared'
                BY <1>1, <2>0, <3>1, <3>3 DEF Spared
            <4> QED  BY <3>1, <3>3, <4>1 DEF CleanInv, SparedInv
        <3> QED  BY <1>1, <2>2, <3>2, <3>3
    <2> QED  BY <2>1, <2>2
<1> QED  BY <1>5, <1>6

-----------------------------------------------------------------------------

LEMMA NextClean == TypeInv /\ CleanInv /\ [Next]_vars => CleanInv' /\ Harmless
<1> SUFFICES ASSUME TypeInv, CleanInv, [Next]_vars PROVE CleanInv' /\ Harmless
    OBVIOUS
<1>1. CASE ReconcileNag
    BY <1>1, ListNodesClean, UnassignStep, QuietCleanStep, FinalizerStep, UncleanStep,
        ReleaseNodeClean, AssignNodeClean, ApplyDefaultClean, CleanupGetClean, UnassignListClean
        DEF ReconcileNag
<1> QED  BY <1>1, QuietCleanStep, UncleanStep DEF Next

LEMMA InitClean == Init => CleanInv
    BY DEF Init, CleanInv, CopiesInv, SparedInv, Spared

\* Taints that are not the group's survive every step of an undisturbed run,
\* although each patch replaces the whole list: the copy it is made from has
\* the taints of the node (UpdateNodeAssignment, updateNodeSets).
THEOREM OtherTaintsAreKept == Spec => OtherTaintsKept
<1>1. TypeInv /\ CleanInv /\ [Next]_vars =>
        [clean /\ clean'
            => \A n \in Node :
                   nodes[n] # None => OtherTaints(nodes'[n]) = OtherTaints(nodes[n])]_vars
    BY NextClean DEF Harmless, Kept
<1>2. TypeInv /\ CleanInv /\ [Next]_vars => TypeInv' /\ CleanInv'
    BY NextType, NextClean
<1> QED  BY <1>1, <1>2, InitType, InitClean, PTL DEF Spec, OtherTaintsKept

\* "Makes any reassignments atomic": nodes are taken from their assignment in
\* memory first, and given to the next one by a single patch; what is cleaned
\* in the end (Reconcile) is not of the group, if it has a default.
THEOREM ReassignmentsAreAtomic == Spec => NeverBare
<1>1. TypeInv /\ CleanInv /\ [Next]_vars =>
        [pc # "done" /\ clean /\ clean' /\ ~wcNag.deleting /\ HasDefault(wcNag.spec)
            => \A n \in Targets(wcNag.spec) :
                   IsAssigned(nodes[n]) => IsAssigned(nodes'[n])]_vars
    BY NextClean DEF Harmless, LabelKept, GroupNodes
<1>2. TypeInv /\ CleanInv /\ [Next]_vars => TypeInv' /\ CleanInv'
    BY NextType, NextClean
<1> QED  BY <1>1, <1>2, InitType, InitClean, PTL DEF Spec, NeverBare

-----------------------------------------------------------------------------
(* The books. *)

\* Maps of WriterContext have the names as keys: two assignments of one name
\* would share an entry.
DistinctNames(spec) ==
    /\ \A i, j \in DOMAIN spec.assignments :
        spec.assignments[i].name = spec.assignments[j].name => i = j
    /\ \A i \in DOMAIN spec.assignments : ~IsDefault(spec, spec.assignments[i].name)

NodesOf(G, held, name) == {n \in G : held[n] = name}

\* The books of the i-th assignment: G are the nodes of the group, `had' what
\* they were assigned to when the run listed them, `held' what they are now,
\* `change' is its entry in AssignmentChanges, and `left' are the nodes that
\* the loop has still to visit.
Counted(a, G, held, change) ==
    change = Desired(a, Cardinality(G)) - Cardinality(NodesOf(G, held, a.name))

\* What has been visited is not too many.
Bounded(a, G, held, left) ==
    Cardinality(NodesOf(G, held, a.name) \ left) <= Desired(a, Cardinality(G))

\* Nothing is missing once a visited node is free or in the default.
Served(spec, G, held, left, change) ==
    (\E n \in G \ left : held[n] = None \/ IsDefault(spec, held[n])) => change <= 0

\* Nothing is missing once a node was given to a later assignment.
Ordered(spec, i, G, held, had, change) ==
    \A j \in DOMAIN spec.assignments, n \in G :
        i < j /\ held[n] = spec.assignments[j].name /\ had[n] # spec.assignments[j].name
            => change <= 0

\* An assignment that lost nodes got none.
OneWay(a, G, held, had, change) ==
    \/ change >= 0 /\ NodesOf(G, had, a.name) \subseteq NodesOf(G, held, a.name)
    \/ change <= 0 /\ NodesOf(G, held, a.name) \subseteq NodesOf(G, had, a.name)

Entry(spec, i, G, held, had, ch, left) ==
    LET a == spec.assignments[i] IN
    /\ Counted(a, G, held, ch[a.name])
    /\ Bounded(a, G, held, left)
    /\ Served(spec, G, held, left, ch[a.name])
    /\ Ordered(spec, i, G, held, had, ch[a.name])
    /\ OneWay(a, G, held, had, ch[a.name])

Book(spec, G, held, had, ch, left) ==
    /\ left \subseteq G
    /\ \A n \in G : held[n] \in KnownAssignments(spec) \cup {None}
    /\ \A n \in G \ left : held[n] = None => ~HasDefault(spec)
    /\ \A i \in DOMAIN spec.assignments : Entry(spec, i, G, held, had, ch, left)

\* What every lemma about the books assumes.
IsBook(spec, G, held, ch) ==
    /\ spec \in NagSpec /\ DistinctNames(spec)
    /\ IsFiniteSet(G)
    /\ DOMAIN held = G
    /\ ch \in [AName -> Int]

LEMMA SpecFacts ==
    ASSUME NEW spec \in NagSpec
    PROVE  /\ \A i \in DOMAIN spec.assignments :
                /\ i \in Nat
                /\ spec.assignments[i] \in AssignmentObject
                /\ spec.assignments[i].name \in AName
                /\ spec.assignments[i].name # None
           /\ HasDefault(spec) =>
                /\ spec.defaultAssignment \in AssignmentObject
                /\ spec.defaultAssignment.name \in AName
                /\ spec.defaultAssignment.name # None
<1>1. spec.assignments \in Seq(AssignmentObject)
    BY DEF NagSpec
<1>2. \A a \in AssignmentObject : a.name \in AName /\ a.name # None
    BY NoneAssumption DEF AssignmentObject
<1>3. \A i \in DOMAIN spec.assignments : i \in Nat /\ spec.assignments[i] \in AssignmentObject
    BY <1>1
<1>4. HasDefault(spec) => spec.defaultAssignment \in AssignmentObject
    BY DEF NagSpec, HasDefault
<1> QED  BY <1>2, <1>3, <1>4

\* FirstNeeding picks the first entry that is positive.
LEMMA FirstNeedingFacts ==
    ASSUME NEW spec \in NagSpec, NEW ch \in [AName -> Int]
    PROVE  \/ /\ FirstNeeding(spec, ch) = None
              /\ \A i \in DOMAIN spec.assignments : ch[spec.assignments[i].name] <= 0
           \/ \E i \in DOMAIN spec.assignments :
                /\ FirstNeeding(spec, ch) = spec.assignments[i]
                /\ FirstNeeding(spec, ch) # None
                /\ ch[spec.assignments[i].name] > 0
                /\ \A j \in DOMAIN spec.assignments : j < i => ch[spec.assignments[j].name] <= 0
<1> DEFINE as == spec.assignments
           needing == {i \in DOMAIN as : ch[as[i].name] > 0}
           first == CHOOSE i \in needing : \A j \in needing : i <= j
<1>1. \A i \in DOMAIN as : i \in Nat /\ as[i] \in AssignmentObject /\ ch[as[i].name] \in Int
    BY SpecFacts
<1>2. FirstNeeding(spec, ch) = IF needing = {} THEN None ELSE as[first]
    BY DEF FirstNeeding
<1>3. \A i \in DOMAIN as : as[i] # None
    BY <1>1, NoneAssumption
<1>4. needing \in SUBSET Nat
    BY <1>1
<1>5. \A i \in DOMAIN as : i \notin needing => ch[as[i].name] <= 0
    <2>1. \A i \in DOMAIN as : i \notin needing => ~(ch[as[i].name] > 0)
        OBVIOUS
    <2> HIDE DEF needing
    <2> QED  BY <2>1, <1>1
<1>6. needing \subseteq DOMAIN as /\ \A i \in needing : ch[as[i].name] > 0
    OBVIOUS
<1> HIDE DEF needing
<1>7. CASE needing = {}
    BY <1>2, <1>5, <1>7
<1>8. CASE needing # {}
    <2>1. \E i \in needing : \A j \in needing : i <= j
        BY <1>4, <1>8, HasLeast
    <2>2. first \in needing /\ \A j \in needing : first <= j
        BY <2>1
    <2> HIDE DEF first
    <2>3. ASSUME NEW j \in needing PROVE ~(j < first)
        <3>1. j \in Nat /\ first \in Nat /\ first <= j
            BY <1>4, <2>2
        <3> QED  BY <3>1
    <2>4. FirstNeeding(spec, ch) = as[first] /\ as[first] # None
        BY <1>2, <1>3, <1>6, <1>8, <2>2
    <2> QED  BY <1>5, <1>6, <2>2, <2>3, <2>4
<1> QED  BY <1>7, <1>8

\* The nodes of an assignment, and those that have been visited.
LEMMA CountFacts ==
    ASSUME NEW G, IsFiniteSet(G), NEW held, NEW name, NEW left
    PROVE  LET all == NodesOf(G, held, name) IN
           /\ IsFiniteSet(all) /\ Cardinality(all) \in Nat
           /\ IsFiniteSet(all \ left) /\ Cardinality(all \ left) \in Nat
           /\ Cardinality(all \ left) <= Cardinality(all)
<1> DEFINE all == NodesOf(G, held, name)
<1>1. IsFiniteSet(all) /\ Cardinality(all) \in Nat
    <2>1. all \subseteq G
        BY DEF NodesOf
    <2> QED  BY <2>1, FS_Subset, FS_CardinalityType
<1>2. all \ left \in SUBSET all
    OBVIOUS
<1> QED  BY <1>1, <1>2, FS_Subset, FS_CardinalityType

\* One node n is given something else, and may count as visited then.
Moved(G, held, new, name, left, n) ==
    LET before == NodesOf(G, held, name)
        after == NodesOf(G, new, name)
    IN  /\ after \ left = before \ left
        /\ IF new[n] = name
             THEN /\ after = before \cup {n}
                  /\ Cardinality(after \ (left \ {n})) = Cardinality(before \ left) + 1
             ELSE /\ after = before \ {n}
                  /\ after \ (left \ {n}) = before \ left
        /\ Cardinality(after) = Cardinality(before) - (IF held[n] = name THEN 1 ELSE 0)
                                                    + (IF new[n] = name THEN 1 ELSE 0)

LEMMA MoveFacts ==
    ASSUME NEW G, IsFiniteSet(G), NEW held, NEW new, NEW name,
           NEW left, left \subseteq G, NEW n \in left,
           \A m \in G : m # n => new[m] = held[m]
    PROVE  Moved(G, held, new, name, left, n)
<1> DEFINE before == NodesOf(G, held, name)
           after == NodesOf(G, new, name)
<1>1. /\ new[n] # name => after = before \ {n}
      /\ new[n] = name => after = before \cup {n}
      /\ n \in before <=> held[n] = name
    BY DEF NodesOf
<1>2. /\ IsFiniteSet(before) /\ Cardinality(before) \in Nat
      /\ IsFiniteSet(before \ left) /\ Cardinality(before \ left) \in Nat
    BY CountFacts
<1> HIDE DEF before, after
<1>3. after \ left = before \ left
    BY <1>1
<1>4. new[n] # name => after \ (left \ {n}) = before \ left
    BY <1>1
<1>5. ASSUME new[n] = name
      PROVE  Cardinality(after \ (left \ {n})) = Cardinality(before \ left) + 1
    <2>1. after \ (left \ {n}) = (before \ left) \cup {n} /\ n \notin before \ left
        BY <1>1, <1>5
    <2>2. Cardinality((before \ left) \cup {n}) = Cardinality(before \ left) + 1
        BY <1>2, <2>1, FS_AddElement
    <2> QED  BY <2>1, <2>2
<1>6. Cardinality(after) = Cardinality(before) - (IF held[n] = name THEN 1 ELSE 0)
                                               + (IF new[n] = name THEN 1 ELSE 0)
    <2>1. CASE held[n] = name /\ new[n] = name
        <3>1. after = before
            BY <1>1, <2>1
        <3> QED  BY <1>2, <2>1, <3>1
    <2>2. CASE held[n] = name /\ new[n] # name
        <3>1. Cardinality(before \ {n}) = Cardinality(before) - 1
            BY <1>1, <1>2, <2>2, FS_RemoveElement
        <3> QED  BY <1>1, <1>2, <2>2, <3>1
    <2>3. CASE held[n] # name /\ new[n] = name
        <3>1. Cardinality(before \cup {n}) = Cardinality(before) + 1
            BY <1>1, <1>2, <2>3, FS_AddElement
        <3>2. Cardinality(after) = Cardinality(before) + 1
            BY <1>1, <2>3, <3>1
        <3> QED  BY <1>2, <2>3, <3>2
    <2>4. CASE held[n] # name /\ new[n] # name
        <3>1. after = before
            BY <1>1, <2>4
        <3> QED  BY <1>2, <2>4, <3>1
    <2> QED  BY <2>1, <2>2, <2>3, <2>4
<1> QED  BY <1>1, <1>3, <1>4, <1>5, <1>6 DEF before, after, Moved

\* What the entries of a book are made of.
LEMMA EntryFacts ==
    ASSUME NEW spec, NEW G, NEW held, NEW ch, IsBook(spec, G, held, ch)
    PROVE  /\ Cardinality(G) \in Nat
           /\ \A i \in DOMAIN spec.assignments :
                /\ i \in Nat
                /\ spec.assignments[i].name \in AName
                /\ spec.assignments[i].name # None
                /\ spec.assignments[i].name \in KnownAssignments(spec)
                /\ ~IsDefault(spec, spec.assignments[i].name)
                /\ ch[spec.assignments[i].name] \in Int
                /\ Desired(spec.assignments[i], Cardinality(G)) \in Nat
<1>1. Cardinality(G) \in Nat
    BY FS_CardinalityType DEF IsBook
<1>2. \A i \in DOMAIN spec.assignments :
        /\ i \in Nat /\ spec.assignments[i] \in AssignmentObject
        /\ spec.assignments[i].name \in AName /\ spec.assignments[i].name # None
    BY SpecFacts DEF IsBook
<1>3. \A i \in DOMAIN spec.assignments : Desired(spec.assignments[i], Cardinality(G)) \in Nat
    BY <1>1, <1>2, DesiredType
<1>4. \A i \in DOMAIN spec.assignments : spec.assignments[i].name \in KnownAssignments(spec)
    BY DEF KnownAssignments, AssignmentNames
<1>5. \A i \in DOMAIN spec.assignments : ~IsDefault(spec, spec.assignments[i].name)
    BY DEF IsBook, DistinctNames
<1>6. \A i \in DOMAIN spec.assignments : ch[spec.assignments[i].name] \in Int
    BY <1>2 DEF IsBook
<1> QED  BY <1>1, <1>2, <1>3, <1>4, <1>5, <1>6

\* A visited node that stays is counted.
LEMMA KeepEntry ==
    ASSUME NEW spec, NEW G, NEW held, NEW had, NEW ch, NEW left, IsBook(spec, G, held, ch),
           Book(spec, G, held, had, ch, left), NEW n \in left,
           held[n] # None, ~IsDefault(spec, held[n]),
           \A i \in DOMAIN spec.assignments :
              spec.assignments[i].name = held[n] => ch[held[n]] >= 0
    PROVE  Book(spec, G, held, had, ch, left \ {n})
<1> DEFINE rest == left \ {n}
<1>1. /\ left \subseteq G /\ IsFiniteSet(G) /\ rest \subseteq G
      /\ \A m \in G \ rest : m = n \/ m \in G \ left
    BY DEF Book, IsBook
<1>2. ASSUME NEW i \in DOMAIN spec.assignments
      PROVE  Entry(spec, i, G, held, had, ch, rest)
    <2> DEFINE a == spec.assignments[i]
               all == NodesOf(G, held, a.name)
    <2>1. /\ Counted(a, G, held, ch[a.name])
          /\ Bounded(a, G, held, left)
          /\ Served(spec, G, held, left, ch[a.name])
          /\ Ordered(spec, i, G, held, had, ch[a.name])
          /\ OneWay(a, G, held, had, ch[a.name])
        BY DEF Book, Entry
    <2>2. /\ Cardinality(all) \in Nat
          /\ Cardinality(all \ rest) \in Nat
          /\ Cardinality(all \ rest) <= Cardinality(all)
        BY <1>1, CountFacts
    <2>3. Bounded(a, G, held, rest)
        <3>1. CASE held[n] = a.name
            <4>1. ch[a.name] >= 0 /\ ch[a.name] \in Int /\ Desired(a, Cardinality(G)) \in Nat
                BY <3>1, EntryFacts
            <4>2. Cardinality(all) <= Desired(a, Cardinality(G))
                BY <2>1, <2>2, <4>1 DEF Counted
            <4> QED  BY <2>2, <4>1, <4>2 DEF Bounded
        <3>2. CASE held[n] # a.name
            <4>1. all \ rest = all \ left
                BY <3>2 DEF NodesOf
            <4> QED  BY <2>1, <4>1 DEF Bounded
        <3> QED  BY <3>1, <3>2
    <2>4. Served(spec, G, held, rest, ch[a.name])
        BY <1>1, <2>1 DEF Served
    <2> QED  BY <2>1, <2>3, <2>4 DEF Entry
<1>3. \A m \in G \ rest : held[m] = None => ~HasDefault(spec)
    BY <1>1 DEF Book
<1> QED  BY <1>1, <1>2, <1>3 DEF Book

\* A node is taken from an assignment that has too many, or from the default.
LEMMA ReleaseEntry ==
    ASSUME NEW spec, NEW G, NEW held, NEW had, NEW ch, NEW left, IsBook(spec, G, held, ch),
           Book(spec, G, held, had, ch, left), NEW n \in left,
           held[n] \in AName, ch[held[n]] < 0 \/ IsDefault(spec, held[n])
    PROVE  LET new == [held EXCEPT ![n] = None]
               change == [ch EXCEPT ![held[n]] = @ + 1]
           IN  IsBook(spec, G, new, change) /\ Book(spec, G, new, had, change, left)
<1> DEFINE new == [held EXCEPT ![n] = None]
           change == [ch EXCEPT ![held[n]] = @ + 1]
<1>1. /\ left \subseteq G /\ IsFiniteSet(G) /\ DOMAIN held = G
      /\ ch \in [AName -> Int] /\ held[n] # None
    BY NoneAssumption DEF Book, IsBook
<1>2. new[n] = None /\ (\A m \in G : m # n => new[m] = held[m]) /\ DOMAIN new = G
    BY <1>1
<1>3. /\ change \in [AName -> Int]
      /\ \A name \in AName :
            change[name] = IF name = held[n] THEN ch[name] + 1 ELSE ch[name]
    BY <1>1
<1>4. IsBook(spec, G, new, change)
    BY <1>2, <1>3 DEF IsBook
<1>5. ASSUME NEW i \in DOMAIN spec.assignments
      PROVE  Entry(spec, i, G, new, had, change, left)
    <2> DEFINE a == spec.assignments[i]
               before == NodesOf(G, held, a.name)
               after == NodesOf(G, new, a.name)
    <2>1. /\ Counted(a, G, held, ch[a.name])
          /\ Bounded(a, G, held, left)
          /\ Served(spec, G, held, left, ch[a.name])
          /\ Ordered(spec, i, G, held, had, ch[a.name])
          /\ OneWay(a, G, held, had, ch[a.name])
        BY DEF Book, Entry
    <2>2. /\ a.name \in AName /\ a.name # None /\ ~IsDefault(spec, a.name)
          /\ ch[a.name] \in Int /\ Desired(a, Cardinality(G)) \in Nat
          /\ \A j \in DOMAIN spec.assignments : spec.assignments[j].name # None
        BY EntryFacts
    <2>3. /\ after \ left = before \ left
          /\ after = before \ {n}
          /\ Cardinality(after) = Cardinality(before) - (IF held[n] = a.name THEN 1 ELSE 0)
          /\ Cardinality(before) \in Nat
          /\ held[n] # a.name => after = before
        <3> HIDE DEF new
        <3>1. Cardinality(before) \in Nat
            BY <1>1, CountFacts
        <3>2. Moved(G, held, new, a.name, left, n)
            BY <1>1, <1>2, MoveFacts
        <3>3. new[n] # a.name
            BY <1>2, <2>2
        <3>4. held[n] # a.name => after = before
            BY <3>2, <3>3 DEF Moved, NodesOf
        <3> QED  BY <3>1, <3>2, <3>3, <3>4 DEF Moved
    <2>4. IF held[n] = a.name
            THEN ch[a.name] < 0 /\ change[a.name] = ch[a.name] + 1
            ELSE change[a.name] = ch[a.name]
        BY <1>3, <2>2
    <2> HIDE DEF a, new, change
    <2>5. Counted(a, G, new, change[a.name])
        BY <2>1, <2>2, <2>3, <2>4 DEF Counted
    <2>6. Bounded(a, G, new, left)
        BY <2>1, <2>3 DEF Bounded
    <2>7. Served(spec, G, new, left, change[a.name])
        BY <1>1, <1>2, <2>1, <2>2, <2>4 DEF Served
    <2>8. Ordered(spec, i, G, new, had, change[a.name])
        BY <1>1, <1>2, <2>1, <2>2, <2>4 DEF Ordered
    <2>9. OneWay(a, G, new, had, change[a.name])
        BY <2>1, <2>2, <2>3, <2>4 DEF OneWay
    <2> QED  BY <2>5, <2>6, <2>7, <2>8, <2>9 DEF Entry, a
<1>6. /\ \A m \in G : new[m] \in KnownAssignments(spec) \cup {None}
      /\ \A m \in G \ left : new[m] = None => ~HasDefault(spec)
    BY <1>1, <1>2 DEF Book
<1> HIDE DEF new, change
<1> QED  BY <1>1, <1>4, <1>5, <1>6 DEF Book, new, change

\* A free node is given to the first assignment that misses nodes.
LEMMA AssignEntry ==
    ASSUME NEW spec, NEW G, NEW held, NEW had, NEW ch, NEW left, IsBook(spec, G, held, ch),
           Book(spec, G, held, had, ch, left), NEW n \in left, held[n] = None,
           NEW k \in DOMAIN spec.assignments, ch[spec.assignments[k].name] > 0,
           \A j \in DOMAIN spec.assignments : j < k => ch[spec.assignments[j].name] <= 0
    PROVE  LET a == spec.assignments[k]
               new == [held EXCEPT ![n] = a.name]
               change == [ch EXCEPT ![a.name] = @ - 1]
           IN  IsBook(spec, G, new, change) /\ Book(spec, G, new, had, change, left \ {n})
<1> DEFINE given == spec.assignments[k].name
           new == [held EXCEPT ![n] = given]
           change == [ch EXCEPT ![given] = @ - 1]
           rest == left \ {n}
<1>1. /\ left \subseteq G /\ IsFiniteSet(G) /\ DOMAIN held = G
      /\ ch \in [AName -> Int]
      /\ \A i, j \in DOMAIN spec.assignments :
            spec.assignments[i].name = spec.assignments[j].name => i = j
      /\ \A m \in G \ rest : m = n \/ m \in G \ left
      /\ rest \subseteq G
    BY DEF Book, IsBook, DistinctNames
<1>2. /\ given \in AName /\ given # None /\ given \in KnownAssignments(spec)
      /\ ~IsDefault(spec, given) /\ ch[given] \in Int /\ ch[given] > 0
      /\ k \in Nat /\ \A i \in DOMAIN spec.assignments : i \in Nat
    BY EntryFacts
<1>3. new[n] = given /\ (\A m \in G : m # n => new[m] = held[m]) /\ DOMAIN new = G
    BY <1>1
<1>4. /\ change \in [AName -> Int]
      /\ \A name \in AName : change[name] = IF name = given THEN ch[name] - 1 ELSE ch[name]
    BY <1>1, <1>2
<1>5. IsBook(spec, G, new, change)
    BY <1>3, <1>4 DEF IsBook
<1>6. ASSUME NEW i \in DOMAIN spec.assignments
      PROVE  Entry(spec, i, G, new, had, change, rest)
    <2> DEFINE a == spec.assignments[i]
               before == NodesOf(G, held, a.name)
               after == NodesOf(G, new, a.name)
    <2>1. /\ Counted(a, G, held, ch[a.name])
          /\ Bounded(a, G, held, left)
          /\ Served(spec, G, held, left, ch[a.name])
          /\ Ordered(spec, i, G, held, had, ch[a.name])
          /\ OneWay(a, G, held, had, ch[a.name])
        BY DEF Book, Entry
    <2>2. /\ a.name \in AName /\ a.name # None /\ ~IsDefault(spec, a.name)
          /\ ch[a.name] \in Int /\ Desired(a, Cardinality(G)) \in Nat
        BY EntryFacts
    <2>3. a.name = given <=> i = k
        BY <1>1
    <2>4. /\ Cardinality(before) \in Nat /\ Cardinality(before \ left) \in Nat
          /\ Cardinality(before \ left) <= Cardinality(before)
        BY <1>1, CountFacts
    <2>5. IF i = k
            THEN /\ after = before \cup {n}
                 /\ Cardinality(after \ rest) = Cardinality(before \ left) + 1
                 /\ Cardinality(after) = Cardinality(before) + 1
                 /\ change[a.name] = ch[a.name] - 1
            ELSE /\ after = before /\ after \ rest = before \ left
                 /\ change[a.name] = ch[a.name]
        <3> HIDE DEF new, change, given, a
        <3>1. Moved(G, held, new, a.name, left, n)
            BY <1>1, <1>3, MoveFacts
        <3>2. CASE i = k
            <4>1. new[n] = a.name /\ held[n] # a.name
                BY <1>3, <2>2, <2>3, <3>2
            <4>2. Cardinality(after) = Cardinality(before) - 0 + 1
                BY <3>1, <4>1 DEF Moved
            <4>3. after = before \cup {n} /\ Cardinality(after \ rest) = Cardinality(before \ left) + 1
                BY <3>1, <4>1 DEF Moved
            <4> QED  BY <1>4, <2>2, <2>3, <2>4, <3>2, <4>2, <4>3
        <3>3. CASE i # k
            <4>1. new[n] # a.name /\ held[n] # a.name
                BY <1>3, <2>2, <2>3, <3>3
            <4>2. after = before \ {n} /\ after \ rest = before \ left
                BY <3>1, <4>1 DEF Moved
            <4>3. after = before
                BY <4>1, <4>2 DEF NodesOf
            <4> QED  BY <1>4, <2>2, <2>3, <3>3, <4>2, <4>3
        <3> QED  BY <3>2, <3>3
    <2>6. \A m \in G \ rest : m # n => held[m] = new[m] /\ m \in G \ left
        BY <1>1, <1>3
    <2>7. i < k => ch[a.name] <= 0
        OBVIOUS
    <2>8. i = k => ch[a.name] > 0
        OBVIOUS
    <2>9. \A j \in DOMAIN spec.assignments : given = spec.assignments[j].name => j = k
        BY <1>1
    <2> HIDE DEF a, new, change, rest, given, before, after
    <2>10. Counted(a, G, new, change[a.name])
        BY <2>1, <2>2, <2>4, <2>5 DEF Counted, before, after
    <2>11. Bounded(a, G, new, rest)
        <3>1. CASE i = k
            <4>1. Cardinality(before) < Desired(a, Cardinality(G))
                BY <2>1, <2>2, <2>4, <2>8, <3>1 DEF Counted, before
            <4> QED  BY <2>2, <2>4, <2>5, <3>1, <4>1 DEF Bounded, after
        <3> QED  BY <2>1, <2>5, <3>1 DEF Bounded, before, after
    <2>12. Served(spec, G, new, rest, change[a.name])
        <3> SUFFICES ASSUME NEW m \in G \ rest, new[m] = None \/ IsDefault(spec, new[m])
                     PROVE  change[a.name] <= 0
            BY DEF Served
        <3>1. m # n
            BY <1>2, <1>3
        <3>2. ch[a.name] <= 0
            BY <2>1, <2>6, <3>1 DEF Served
        <3> QED  BY <2>2, <2>5, <2>8, <3>2
    <2>13. Ordered(spec, i, G, new, had, change[a.name])
        <3> SUFFICES ASSUME NEW j \in DOMAIN spec.assignments, NEW m \in G, i < j,
                            new[m] = spec.assignments[j].name, had[m] # spec.assignments[j].name
                     PROVE  change[a.name] <= 0
            BY DEF Ordered
        <3>1. CASE m = n
            <4>1. j = k
                BY <1>3, <2>9, <3>1
            <4>2. ch[a.name] <= 0 /\ i # k
                BY <1>2, <2>7, <4>1
            <4> QED  BY <2>5, <4>2
        <3>2. CASE m # n
            <4>1. ch[a.name] <= 0
                BY <1>3, <2>1, <3>2 DEF Ordered
            <4> QED  BY <2>2, <2>5, <2>8, <4>1
        <3> QED  BY <3>1, <3>2
    <2>14. OneWay(a, G, new, had, change[a.name])
        BY <2>1, <2>2, <2>5, <2>8 DEF OneWay, before, after
    <2> QED  BY <2>10, <2>11, <2>12, <2>13, <2>14 DEF Entry, a
<1>7. /\ \A m \in G : new[m] \in KnownAssignments(spec) \cup {None}
      /\ \A m \in G \ rest : new[m] = None => ~HasDefault(spec)
    BY <1>1, <1>2, <1>3 DEF Book
<1> HIDE DEF new, change, rest
<1> QED  BY <1>1, <1>5, <1>6, <1>7 DEF Book, new, change, rest

\* Nothing is missing: a free node is given to the default, if there is one.
LEMMA DefaultEntry ==
    ASSUME NEW spec, NEW G, NEW held, NEW had, NEW ch, NEW left, IsBook(spec, G, held, ch),
           Book(spec, G, held, had, ch, left), NEW n \in left, held[n] = None,
           \A i \in DOMAIN spec.assignments : ch[spec.assignments[i].name] <= 0,
           NEW name, IF HasDefault(spec) THEN name = spec.defaultAssignment.name ELSE name = None
    PROVE  LET new == [held EXCEPT ![n] = name]
           IN  IsBook(spec, G, new, ch) /\ Book(spec, G, new, had, ch, left \ {n})
<1> DEFINE new == [held EXCEPT ![n] = name]
           rest == left \ {n}
<1>1. /\ left \subseteq G /\ IsFiniteSet(G) /\ DOMAIN held = G /\ spec \in NagSpec
      /\ \A m \in G \ rest : m = n \/ m \in G \ left
      /\ rest \subseteq G
    BY DEF Book, IsBook
<1>2. new[n] = name /\ (\A m \in G : m # n => new[m] = held[m]) /\ DOMAIN new = G
    BY <1>1
<1>3. IsBook(spec, G, new, ch)
    BY <1>2 DEF IsBook
<1>4. /\ name \in KnownAssignments(spec) \cup {None}
      /\ name = None => ~HasDefault(spec)
    BY <1>1, SpecFacts DEF KnownAssignments
<1>5. ASSUME NEW i \in DOMAIN spec.assignments
      PROVE  Entry(spec, i, G, new, had, ch, rest)
    <2> DEFINE a == spec.assignments[i]
               before == NodesOf(G, held, a.name)
               after == NodesOf(G, new, a.name)
    <2>1. /\ Counted(a, G, held, ch[a.name])
          /\ Bounded(a, G, held, left)
          /\ OneWay(a, G, held, had, ch[a.name])
        BY DEF Book, Entry
    <2>2. a.name # None /\ ~IsDefault(spec, a.name) /\ ch[a.name] <= 0
        BY EntryFacts
    <2>3. new[n] # a.name /\ held[n] # a.name
        BY <1>2, <2>2 DEF IsDefault
    <2>4. after = before /\ after \ rest = before \ left
        <3> HIDE DEF new
        <3>1. Moved(G, held, new, a.name, left, n)
            BY <1>1, <1>2, MoveFacts
        <3> QED  BY <2>3, <3>1 DEF Moved, NodesOf
    <2> HIDE DEF a, new, rest
    <2> QED  BY <2>1, <2>2, <2>4 DEF Entry, Counted, Bounded, Served, Ordered, OneWay, a
<1>6. /\ \A m \in G : new[m] \in KnownAssignments(spec) \cup {None}
      /\ \A m \in G \ rest : new[m] = None => ~HasDefault(spec)
    BY <1>1, <1>2, <1>4 DEF Book
<1> HIDE DEF new, rest
<1> QED  BY <1>1, <1>3, <1>5, <1>6 DEF Book, new, rest

-----------------------------------------------------------------------------
(* How the books are opened and closed. *)

\* With distinct names every assignment has its own entry in the map.
LEMMA ChangesFacts ==
    ASSUME NEW spec \in NagSpec, DistinctNames(spec), NEW f, IsFiniteSet(DOMAIN f)
    PROVE  \A i \in DOMAIN spec.assignments :
             AssignmentChanges(spec, f)[spec.assignments[i].name]
               = Desired(spec.assignments[i], Cardinality(DOMAIN f))
                   - NumAssigned(f, spec.assignments[i].name)
<1> DEFINE as == spec.assignments
           Missing(i) == Desired(as[i], Cardinality(DOMAIN f)) - CurrentAssignments(spec, f)[as[i].name]
           Entries(name) == {i \in DOMAIN as : as[i].name = name /\ Missing(i) # 0}
           Last(name) == CHOOSE i \in Entries(name) : \A j \in Entries(name) : j <= i
<1> SUFFICES ASSUME NEW i \in DOMAIN as
             PROVE  AssignmentChanges(spec, f)[as[i].name]
                      = Desired(as[i], Cardinality(DOMAIN f)) - NumAssigned(f, as[i].name)
    OBVIOUS
<1>1. as[i].name \in AName /\ i \in Nat /\ ~IsDefault(spec, as[i].name)
    BY SpecFacts DEF DistinctNames
<1>2. CurrentAssignments(spec, f)[as[i].name] = NumAssigned(f, as[i].name)
    BY <1>1 DEF CurrentAssignments
<1>3. AssignmentChanges(spec, f)[as[i].name]
        = IF Entries(as[i].name) = {} THEN 0 ELSE Missing(Last(as[i].name))
    BY <1>1 DEF AssignmentChanges
<1>4. \A j \in Entries(as[i].name) : j = i
    BY DEF DistinctNames
<1>5. Missing(i) # 0 <=> i \in Entries(as[i].name)
    OBVIOUS
<1> HIDE DEF Entries, Missing
<1>6. CASE Missing(i) = 0
    BY <1>2, <1>3, <1>4, <1>5, <1>6 DEF Missing
<1>7. CASE Missing(i) # 0
    <2>1. \A j \in Entries(as[i].name) : j <= i
        BY <1>1, <1>4
    <2>2. Last(as[i].name) \in Entries(as[i].name)
        BY <1>5, <1>7, <2>1
    <2> HIDE DEF Last
    <2> QED  BY <1>2, <1>3, <1>4, <1>5, <1>7, <2>2 DEF Missing
<1> QED  BY <1>6, <1>7

\* updateAssignmentChanges opens the books.
LEMMA OpenBook ==
    ASSUME NEW spec \in NagSpec, DistinctNames(spec), NEW G, IsFiniteSet(G),
           NEW f, DOMAIN f = G, NEW held, DOMAIN held = G, NEW had,
           \A n \in G : /\ f[n].assign = held[n]
                        /\ held[n] \in KnownAssignments(spec) \cup {None}
                        /\ held[n] # had[n] =>
                             held[n] = None /\ had[n] \notin KnownAssignments(spec)
    PROVE  /\ IsBook(spec, G, held, AssignmentChanges(spec, f))
           /\ Book(spec, G, held, had, AssignmentChanges(spec, f), G)
<1> DEFINE ch == AssignmentChanges(spec, f)
<1>1. IsBook(spec, G, held, ch)
    BY ChangesType DEF IsBook
<1>2. ASSUME NEW i \in DOMAIN spec.assignments
      PROVE  Entry(spec, i, G, held, had, ch, G)
    <2> DEFINE a == spec.assignments[i]
    <2>1. /\ a.name # None /\ a.name \in KnownAssignments(spec)
          /\ ch[a.name] \in Int /\ Desired(a, Cardinality(G)) \in Nat
          /\ \A j \in DOMAIN spec.assignments :
                spec.assignments[j].name # None /\ spec.assignments[j].name \in KnownAssignments(spec)
        BY <1>1, EntryFacts
    <2>2. Counted(a, G, held, ch[a.name])
        <3>1. {n \in DOMAIN f : GetAssignment(f[n]) = a.name} = NodesOf(G, held, a.name)
            BY DEF NodesOf, GetAssignment
        <3> QED  BY <3>1, ChangesFacts DEF Counted, NumAssigned
    <2>3. Bounded(a, G, held, G)
        <3>1. NodesOf(G, held, a.name) \ G = {}
            BY DEF NodesOf
        <3>2. Cardinality({}) = 0
            BY FS_EmptySet
        <3>3. Cardinality(NodesOf(G, held, a.name) \ G) = 0
            BY <3>1, <3>2
        <3>4. 0 <= Desired(a, Cardinality(G))
            <4> HIDE DEF a
            <4> QED  BY <2>1
        <3> HIDE DEF a
        <3> QED  BY <3>3, <3>4 DEF Bounded
    <2>4. NodesOf(G, had, a.name) = NodesOf(G, held, a.name)
        BY <2>1 DEF NodesOf
    <2> HIDE DEF a, ch
    <2>5. OneWay(a, G, held, had, ch[a.name])
        BY <2>1, <2>4 DEF OneWay
    <2>6. Ordered(spec, i, G, held, had, ch[a.name])
        BY <2>1 DEF Ordered
    <2>7. Served(spec, G, held, G, ch[a.name])
        BY DEF Served
    <2> QED  BY <2>2, <2>3, <2>5, <2>6, <2>7 DEF Entry, a
<1> HIDE DEF ch
<1> QED  BY <1>1, <1>2 DEF Book, ch

\* What closed books say.
LEMMA CloseBook ==
    ASSUME NEW spec, NEW G, NEW held, NEW had, NEW ch, IsBook(spec, G, held, ch),
           Book(spec, G, held, had, ch, {}), NEW i \in DOMAIN spec.assignments
    PROVE  LET a == spec.assignments[i]
               have == Cardinality(NodesOf(G, held, a.name))
               desired == Desired(a, Cardinality(G))
               before == NodesOf(G, had, a.name)
               lost == {n \in before : held[n] # a.name}
               surplus == Cardinality(before) - desired
           IN  /\ have <= desired
               /\ have < desired => \A n \in G : held[n] # None /\ ~IsDefault(spec, held[n])
               /\ Cardinality(lost) <= IF surplus > 0 THEN surplus ELSE 0
<1> DEFINE a == spec.assignments[i]
           all == NodesOf(G, held, a.name)
           have == Cardinality(all)
           desired == Desired(a, Cardinality(G))
           before == NodesOf(G, had, a.name)
           lost == {n \in before : held[n] # a.name}
           surplus == Cardinality(before) - desired
<1>1. /\ Counted(a, G, held, ch[a.name])
      /\ Bounded(a, G, held, {})
      /\ Served(spec, G, held, {}, ch[a.name])
      /\ OneWay(a, G, held, had, ch[a.name])
    BY DEF Book, Entry
<1>2. ch[a.name] \in Int /\ desired \in Nat
    BY EntryFacts
<1>3. IsFiniteSet(G)
    BY DEF IsBook
<1>4. /\ have \in Nat /\ Cardinality(before) \in Nat
      /\ IsFiniteSet(before) /\ IsFiniteSet(all)
    BY <1>3, CountFacts
<1>5. have <= desired
    <2>1. all \ {} = all
        OBVIOUS
    <2> QED  BY <1>1, <2>1 DEF Bounded
<1>6. ch[a.name] = desired - have
    BY <1>1 DEF Counted
<1>7. have < desired => ~(ch[a.name] <= 0)
    <2> HIDE DEF have, desired
    <2> QED  BY <1>2, <1>4, <1>6
<1>8. have < desired => \A n \in G : held[n] # None /\ ~IsDefault(spec, held[n])
    BY <1>1, <1>7 DEF Served
<1>9. Cardinality(lost) <= IF surplus > 0 THEN surplus ELSE 0
    <2>1. lost = before \ all
        BY DEF NodesOf
    <2>2. CASE before \subseteq all
        <3>1. lost = {}
            BY <2>1, <2>2
        <3>2. Cardinality({}) = 0
            BY FS_EmptySet
        <3> HIDE DEF lost, desired, before
        <3> QED  BY <1>2, <1>4, <3>1, <3>2
    <2>3. CASE ch[a.name] <= 0 /\ all \subseteq before
        <3>1. before \cap all = all
            BY <2>3
        <3> HIDE DEF lost, desired, before, all
        <3>2. Cardinality(before \ all) = Cardinality(before) - Cardinality(all)
            BY <1>4, <3>1, FS_Difference
        <3>3. have = desired
            BY <1>2, <1>4, <1>5, <1>6, <2>3
        <3>4. Cardinality(lost) \in Nat
            <4>1. IsFiniteSet(before \ all)
                BY <1>4, FS_Difference
            <4> QED  BY <2>1, <4>1, FS_CardinalityType
        <3> QED  BY <1>2, <1>4, <2>1, <3>2, <3>3, <3>4
    <2> QED  BY <1>1, <2>2, <2>3 DEF OneWay
<1> QED  BY <1>5, <1>8, <1>9

-----------------------------------------------------------------------------
(* The invariant of a run. *)

AllDistinct == \A spec \in Specs : DistinctNames(spec)

\* What the run takes a node to be assigned to: nodes that are unassigned in
\* memory only are free.
Held(n) == IF n \in unassigned THEN None ELSE nodes[n].assign

HeldNow == [n \in GroupNodes |-> Held(n)]

\* What the nodes of the group were assigned to when the run listed them.
HeldBefore == [n \in GroupNodes |-> listed[n].assign]

\* Nodes that the loop of Reconcile has still to visit.
ToVisit == IF pc = "reconcile" THEN todo ELSE {}

Undisturbed == clean /\ ~failed

\* The group of the run is the current one, in what matters to the nodes.
CurrentInv ==
    /\ pc \in {"unassignList", "unassignAll", "removeGet", "removeUpdate"} => wcNag.deleting
    /\ clean /\ pc # "done" /\ nag # None =>
        nag.spec = wcNag.spec /\ nag.deleting = wcNag.deleting
    /\ clean /\ pc = "removeUpdate" /\ copy # None => copy.deleting

\* After updateNodeSets: the nodes of the group are the targeted ones, and
\* what has changed is that unknown assignments were taken off in memory.
ListedInv ==
    pc = "sets" =>
        /\ targeted = GroupNodes /\ todo \cap GroupNodes = {}
        /\ \A n \in GroupNodes :
             /\ Held(n) \in KnownAssignments(wcNag.spec) \cup {None}
             /\ Held(n) # listed[n].assign =>
                  Held(n) = None /\ listed[n].assign \notin KnownAssignments(wcNag.spec)

\* Copies that are still to be patched show the assignment, nodes to be
\* patched exist.
CopyInv ==
    /\ pc = "sets" => \A n \in todo \cup targeted : nodes[n] # None /\ mem[n].assign = Held(n)
    /\ pc = "reconcile" => \A n \in todo : nodes[n] # None /\ mem[n].assign = Held(n)
    /\ pc \in {"sets", "reconcile", "cleanup", "cleanupPatch"} =>
        \A n \in unassigned : nodes[n] # None
    /\ pc = "cleanupPatch" => nodes[at] # None /\ mem[at].assign = nodes[at].assign

\* Nodes that are not of the group are free, or about to be.
RestInv ==
    pc \in {"sets", "reconcile", "cleanup", "cleanupPatch"} =>
        \A n \in Node \ GroupNodes :
            nodes[n] = None \/ Held(n) = None \/ (pc = "sets" /\ n \in todo)

BookInv ==
    pc \in {"reconcile", "cleanup", "cleanupPatch"} =>
        /\ IsBook(wcNag.spec, GroupNodes, HeldNow, changes)
        /\ Book(wcNag.spec, GroupNodes, HeldNow, HeldBefore, changes, ToVisit)

\* What is left to clean are the nodes that are unassigned in memory only.
CleaningInv ==
    /\ pc = "cleanup" => unassigned = todo
    /\ pc = "cleanupPatch" => unassigned = todo \cup {at} /\ at \notin todo

RunInv == ListedInv /\ CopyInv /\ RestInv /\ BookInv /\ CleaningInv /\ pc # "default"

\* What PriorityRespected and OnlySurplusMoves say of the group.
Orderly(spec) ==
    \A i, j \in DOMAIN spec.assignments :
        i < j /\ Count(spec, spec.assignments[i].name)
                    < Desired(spec.assignments[i], Cardinality(Targets(spec)))
            => \A n \in Targets(spec) :
                 GetAssignment(nodes[n]) = spec.assignments[j].name
                    => GetAssignment(listed[n]) = spec.assignments[j].name

Sparing(spec) ==
    \A i \in DOMAIN spec.assignments :
        LET a == spec.assignments[i]
            had == {n \in Targets(spec) : GetAssignment(listed[n]) = a.name}
            lost == {n \in had : GetAssignment(nodes[n]) # a.name}
            surplus == Cardinality(had) - Desired(a, Cardinality(Targets(spec)))
        IN  Cardinality(lost) <= IF surplus > 0 THEN surplus ELSE 0

Outcome(spec) == LabelsSatisfied(spec) /\ Orderly(spec) /\ Sparing(spec)

\* An undisturbed run that ends without an error has done its work.
DoneInv ==
    pc = "done" /\ ~err =>
        \A spec \in Specs : nag # None /\ ~nag.deleting /\ nag.spec = spec => Outcome(spec)

LabelInv == Undisturbed => RunInv /\ DoneInv

\* A step that changes no label, at most taints and the packleft of a node.
LabelsKept ==
    \A n \in Node :
        /\ nodes'[n] = None <=> nodes[n] = None
        /\ nodes[n] # None =>
             nodes'[n].labels = nodes[n].labels /\ nodes'[n].assign = nodes[n].assign

\* ... at most those of one node, and its assignment.
OnlyAssigns(n, name) ==
    /\ \A m \in Node : m # n => nodes'[m] = nodes[m]
    /\ nodes[n] # None /\ nodes'[n] # None
    /\ nodes'[n].labels = nodes[n].labels
    /\ nodes'[n].assign = name

LEMMA GroupKept ==
    ASSUME wcNag' = wcNag,
           LabelsKept \/ \E n \in Node, name \in AName \cup {None} : OnlyAssigns(n, name)
    PROVE  GroupNodes' = GroupNodes
<1>1. ASSUME NEW n \in Node
      PROVE  /\ nodes'[n] # None <=> nodes[n] # None
             /\ nodes[n] # None =>
                  (TargetsNode(wcNag.spec, nodes'[n]) <=> TargetsNode(wcNag.spec, nodes[n]))
    <2>1. CASE LabelsKept
        BY <2>1 DEF LabelsKept, TargetsNode
    <2>2. CASE \E k \in Node, name \in AName \cup {None} : OnlyAssigns(k, name)
        <3>1. PICK k \in Node, name \in AName \cup {None} : OnlyAssigns(k, name)
            BY <2>2
        <3>2. CASE n = k
            BY <3>1, <3>2 DEF OnlyAssigns, TargetsNode
        <3>3. CASE n # k
            <4>1. nodes'[n] = nodes[n]
                BY <3>1, <3>3 DEF OnlyAssigns
            <4> QED  BY <4>1
        <3> QED  BY <3>2, <3>3
    <2> QED  BY <2>1, <2>2
<1>2. GroupNodes' = {n \in Node : nodes'[n] # None /\ TargetsNode(wcNag.spec, nodes'[n])}
    BY DEF GroupNodes, Targets
<1>3. GroupNodes = {n \in Node : nodes[n] # None /\ TargetsNode(wcNag.spec, nodes[n])}
    BY DEF GroupNodes, Targets
<1> QED  BY <1>1, <1>2, <1>3

\* What a patch without an error does to the label of the group.
LEMMA PatchAssigns ==
    ASSUME TypeInv, NEW n \in Node, mem[n] \in NodeObject, nodes[n] # None, NEW new \in NodeObject,
           PatchNode(n, mem[n], new)
    PROVE  OnlyAssigns(n, IF new.assign = mem[n].assign THEN nodes[n].assign ELSE new.assign)
<1> DEFINE old == mem[n]
           patched == Patch(nodes[n], old, new)
<1>1. nodes[n] \in NodeObject
    BY DEF TypeInv, TypeOK, NodeMap
<1>2. patched.assign = IF new.assign = old.assign THEN nodes[n].assign ELSE new.assign
    BY <1>1 DEF Patch, NodeObject
<1>3. patched.labels = nodes[n].labels /\ patched \in NodeObject
    <2>1. patched.labels = nodes[n].labels
        BY <1>1 DEF Patch, NodeObject
    <2>2. patched \in NodeObject
        BY <1>1, PatchType
    <2> QED  BY <2>1, <2>2
<1> HIDE DEF patched
<1>4. (nodes' = nodes /\ new = old) \/ nodes' = [nodes EXCEPT ![n] = patched]
    BY DEF PatchNode, patched
<1>5. \A m \in Node : m # n => nodes'[m] = nodes[m]
    BY <1>4 DEF TypeInv, TypeOK, NodeMap
<1>6. (nodes'[n] = nodes[n] /\ new = old) \/ nodes'[n] = patched
    BY <1>4 DEF TypeInv, TypeOK, NodeMap
<1> QED  BY <1>2, <1>3, <1>5, <1>6, NoneAssumption DEF OnlyAssigns

-----------------------------------------------------------------------------
(* Steps that change no label. *)

LEMMA BooksKept ==
    ASSUME GroupNodes' = GroupNodes, listed' = listed,
           \A n \in GroupNodes : Held(n)' = Held(n)
    PROVE  HeldNow' = HeldNow /\ HeldBefore' = HeldBefore
    BY DEF HeldNow, HeldBefore

LEMMA OutcomeKept ==
    ASSUME NEW CONSTANT spec, LabelsKept, listed' = listed, Outcome(spec)
    PROVE  Outcome(spec)'
<1>1. ASSUME NEW n \in Node
      PROVE  /\ nodes'[n] # None <=> nodes[n] # None
             /\ nodes[n] # None =>
                  /\ TargetsNode(spec, nodes'[n]) <=> TargetsNode(spec, nodes[n])
                  /\ GetAssignment(nodes'[n]) = GetAssignment(nodes[n])
    BY DEF LabelsKept, TargetsNode, GetAssignment
<1>2. Targets(spec)' = Targets(spec)
    BY <1>1 DEF Targets
<1>3. \A n \in Targets(spec) : n \in Node /\ GetAssignment(nodes'[n]) = GetAssignment(nodes[n])
    BY <1>1 DEF Targets
<1>4. ASSUME NEW name PROVE Count(spec, name)' = Count(spec, name)
    <2>1. {n \in Targets(spec) : GetAssignment(nodes'[n]) = name}
            = {n \in Targets(spec) : GetAssignment(nodes[n]) = name}
        BY <1>3
    <2> QED  BY <1>2, <2>1 DEF Count, NumAssigned
<1>5. LabelsSatisfied(spec)'
    BY <1>1, <1>2, <1>3, <1>4 DEF Outcome, LabelsSatisfied, IsAssigned
<1>6. Orderly(spec)'
    BY <1>2, <1>3, <1>4 DEF Outcome, Orderly
<1>7. Sparing(spec)'
    BY <1>2, <1>3 DEF Outcome, Sparing
<1> QED  BY <1>5, <1>6, <1>7 DEF Outcome

LEMMA QuietLabels ==
    ASSUME TypeInv, LabelInv, LabelsKept,
           UNCHANGED <<pc, loopVars, err, listed, failed>>, clean' => clean,
           clean' /\ nag' # None =>
              nag # None /\ nag'.spec = nag.spec /\ nag'.deleting = nag.deleting
    PROVE  LabelInv'
<1> SUFFICES ASSUME clean, ~failed, clean', ~failed' PROVE RunInv' /\ DoneInv'
    BY DEF LabelInv, Undisturbed
<1>1. RunInv /\ DoneInv
    BY DEF LabelInv, Undisturbed
<1>2. /\ pc' = pc /\ wcNag' = wcNag /\ mem' = mem /\ todo' = todo /\ targeted' = targeted
      /\ unassigned' = unassigned /\ changes' = changes /\ at' = at /\ err' = err /\ listed' = listed
    BY DEF loopVars
<1>3. GroupNodes' = GroupNodes
    BY <1>2, GroupKept
<1>4. ASSUME NEW n \in Node
      PROVE  /\ nodes'[n] = None <=> nodes[n] = None
             /\ nodes[n] # None => nodes'[n].assign = nodes[n].assign /\ Held(n)' = Held(n)
    BY <1>2 DEF LabelsKept, Held
<1>5. GroupNodes \subseteq Node /\ (\A n \in GroupNodes : nodes[n] # None)
        /\ todo \subseteq Node /\ targeted \subseteq Node /\ unassigned \subseteq Node
        /\ (pc = "cleanupPatch" => at \in Node)
    BY DEF GroupNodes, Targets, TypeInv, TypeOK, MemInv
<1>6. \A n \in GroupNodes : Held(n)' = Held(n)
    BY <1>4, <1>5
<1>7. ListedInv'
    BY <1>1, <1>2, <1>3, <1>6 DEF RunInv, ListedInv
<1>8. CopyInv'
    BY <1>1, <1>2, <1>4, <1>5 DEF RunInv, CopyInv
<1>9. RestInv'
    BY <1>1, <1>2, <1>3, <1>4 DEF RunInv, RestInv
<1>10. BookInv'
    <2>1. HeldNow' = HeldNow /\ HeldBefore' = HeldBefore /\ ToVisit' = ToVisit
        BY <1>2, <1>3, <1>6, BooksKept DEF ToVisit
    <2> QED  BY <1>1, <1>2, <1>3, <2>1 DEF RunInv, BookInv
<1>11. CleaningInv' /\ pc' # "default"
    BY <1>1, <1>2 DEF RunInv, CleaningInv
<1>12. DoneInv'
    <2> SUFFICES ASSUME pc' = "done", ~err', NEW CONSTANT spec \in Specs,
                        nag' # None, ~nag'.deleting, nag'.spec = spec
                 PROVE  Outcome(spec)'
        BY DEF DoneInv
    <2>1. Outcome(spec)
        BY <1>1, <1>2 DEF DoneInv
    <2> QED  BY <1>2, <2>1, OutcomeKept
<1> QED  BY <1>7, <1>8, <1>9, <1>10, <1>11, <1>12 DEF RunInv

\* After a failure, or when somebody else has written, nothing is claimed,
\* nor while the group is released.
LEMMA Unclaimed ==
    ASSUME \/ ~clean' \/ failed'
           \/ pc' \notin {"sets", "reconcile", "default", "cleanup", "cleanupPatch", "done"}
           \/ pc' = "done" /\ (err' \/ (nag' # None => nag'.deleting))
    PROVE  LabelInv'
    BY DEF LabelInv, Undisturbed, RunInv, ListedInv, CopyInv, RestInv, BookInv, CleaningInv, DoneInv

LEMMA CurrentStep == TypeInv /\ CurrentInv /\ (Start \/ ReconcileNag) => CurrentInv'
<1> SUFFICES ASSUME TypeInv, CurrentInv, Start \/ ReconcileNag PROVE CurrentInv'
    OBVIOUS
<1> DEFINE removing == {"unassignList", "unassignAll", "removeGet", "removeUpdate"}
<1>1. CASE Start
    BY <1>1 DEF Start, CurrentInv
<1>2. CASE ListNodes
    BY <1>2 DEF ListNodes, CurrentInv, Goto, apiVars
<1>3. CASE Decide
    BY <1>3 DEF Decide, CurrentInv, Goto, apiVars
<1>4. CASE AddGet \/ RemoveGet
    <2>1. /\ wcNag' = wcNag /\ nag' = nag /\ clean' = clean
          /\ (copy' = nag \/ copy' = None)
          /\ \/ pc = "addGet" /\ pc' = "addUpdate"
             \/ pc = "removeGet" /\ pc' = "removeUpdate"
        BY <1>4 DEF AddGet, RemoveGet, GetNag, Goto, apiVars
    <2> QED  BY <2>1, NoNagAssumption DEF CurrentInv
<1>5. CASE AddRetry \/ AddFails \/ AddUpdate \/ RemoveRetry \/ RemoveFails \/ RemoveUpdate
    <2>1. \/ pc' = "done"
          \/ /\ wcNag' = wcNag /\ nag' = nag /\ clean' = clean
             /\ \/ pc = "addUpdate" /\ pc' = "addGet"
                \/ pc = "removeUpdate" /\ pc' = "removeGet"
        BY <1>5 DEF AddRetry, AddFails, AddUpdate, RemoveRetry, RemoveFails, RemoveUpdate,
            Answered, RetryUpdate, UpdateFails, EndRun, Goto, apiVars
    <2> QED  BY <2>1 DEF CurrentInv
<1>6. CASE UnassignUntargeted \/ KeepNode \/ ReleaseNode \/ AssignNode \/ ApplyDefault
             \/ EndAssigning \/ CleanupGet \/ CleanupPatch \/ EndReconcile
    <2>1. \/ pc' = "done"
          \/ /\ wcNag' = wcNag /\ nag' = nag /\ clean' = clean /\ pc # "done"
             /\ pc' \in {"sets", "reconcile", "default", "cleanup", "cleanupPatch"}
        BY <1>6 DEF UnassignUntargeted, KeepNode, ReleaseNode, AssignNode, ApplyDefault,
            EndAssigning, CleanupGet, CleanupPatch, EndReconcile, EndRun, Goto, apiVars
    <2> QED  BY <2>1 DEF CurrentInv
<1>7. CASE UnassignList \/ UnassignNode \/ EndUnassign
    <2>1. /\ wcNag' = wcNag /\ nag' = nag /\ clean' = clean
          /\ pc \in removing /\ pc' \in {"unassignAll", "removeGet"}
        BY <1>7 DEF UnassignList, UnassignNode, EndUnassign, Goto, apiVars
    <2> QED  BY <2>1 DEF CurrentInv
<1> QED  BY <1>1, <1>2, <1>3, <1>4, <1>5, <1>6, <1>7 DEF ReconcileNag

\* Nobody else disturbs what a run that stays clean knows of the group.
LEMMA OtherCurrent ==
    ASSUME CurrentInv, UNCHANGED <<pc, wcNag, copy>>, clean' => clean,
           clean' /\ nag' # None =>
              nag # None /\ nag'.spec = nag.spec /\ nag'.deleting = nag.deleting
    PROVE  CurrentInv'
    BY DEF CurrentInv

-----------------------------------------------------------------------------
(* The steps that list and decide. *)

LEMMA ListNodesLabel == TypeInv /\ ListNodes => LabelInv'
<1> SUFFICES ASSUME TypeInv, ListNodes PROVE RunInv' /\ DoneInv'
    BY DEF LabelInv
<1> DEFINE Unknown(n) == IsAssigned(nodes[n])
                            /\ GetAssignment(nodes[n]) \notin KnownAssignments(wcNag.spec)
           present == {n \in Node : nodes[n] # None}
           unknown == {n \in present : Unknown(n)}
           target == {n \in present : TargetsNode(wcNag.spec, nodes[n])}
<1>1. /\ nodes' = nodes /\ wcNag' = wcNag /\ pc' = "sets" /\ listed' = nodes
      /\ mem' = [n \in Node |-> IF n \in unknown THEN Unassign(nodes[n]) ELSE nodes[n]]
      /\ unassigned' = unknown
      /\ targeted' = target
      /\ todo' = {n \in present \ target : IsAssigned(nodes[n]) /\ ~Unknown(n)}
    BY DEF ListNodes, Goto, apiVars
<1>2. target = GroupNodes /\ GroupNodes' = GroupNodes
    <2>1. target = GroupNodes
        BY DEF GroupNodes, Targets
    <2> QED  BY <1>1, <2>1, SameNodesHarmless
<1>3. \A n \in present : nodes[n] \in NodeObject
    BY DEF TypeInv, TypeOK, NodeMap
<1>4. ASSUME NEW n \in Node
      PROVE  /\ Held(n)' = IF n \in unknown THEN None ELSE nodes[n].assign
             /\ n \in present => mem'[n].assign = Held(n)'
    <2>1. Held(n)' = IF n \in unknown THEN None ELSE nodes[n].assign
        BY <1>1 DEF Held
    <2> QED  BY <1>1, <1>3, <2>1, UnassignFacts
<1>5. \A n \in Node \ unknown : nodes[n] = None \/ nodes[n].assign = None
                                  \/ nodes[n].assign \in KnownAssignments(wcNag.spec)
    BY DEF IsAssigned, GetAssignment
<1>6. \A n \in unknown : nodes[n] # None /\ nodes[n].assign \notin KnownAssignments(wcNag.spec)
    BY DEF GetAssignment
<1>7. target \subseteq present /\ unknown \subseteq present /\ present \subseteq Node
        /\ todo' \subseteq present /\ todo' \cap target = {}
    BY <1>1
<1>8. \A n \in present : nodes[n] # None
    OBVIOUS
<1>9. \A n \in present \ (target \cup unknown) : nodes[n].assign = None \/ n \in todo'
    BY <1>1 DEF IsAssigned, GetAssignment
<1>10. \A n \in Node \ present : nodes[n] = None
    OBVIOUS
<1> HIDE DEF present, unknown, target
<1>11. ListedInv'
    BY <1>1, <1>2, <1>4, <1>5, <1>6, <1>7, <1>8 DEF ListedInv
<1>12. CopyInv'
    BY <1>1, <1>2, <1>4, <1>7, <1>8 DEF CopyInv
<1>13. RestInv'
    BY <1>1, <1>2, <1>4, <1>7, <1>9, <1>10 DEF RestInv
<1> QED  BY <1>1, <1>11, <1>12, <1>13 DEF RunInv, BookInv, CleaningInv, DoneInv

LEMMA UntargetedLabel == TypeInv /\ LabelInv /\ UnassignUntargeted => LabelInv'
<1> SUFFICES ASSUME TypeInv, LabelInv, UnassignUntargeted, clean', ~failed'
             PROVE  RunInv' /\ DoneInv'
    BY DEF LabelInv, Undisturbed
<1>1. PICK n \in todo :
        /\ pc = "sets" /\ pc' = pc /\ wcNag' = wcNag /\ mem' = mem /\ listed' = listed
        /\ clean' = clean
        /\ \/ /\ PatchNode(n, mem[n], Unassign(mem[n])) /\ todo' = todo \ {n}
              /\ UNCHANGED <<targeted, unassigned>>
           \/ PatchFails(n, mem[n], Unassign(mem[n]))
    BY DEF UnassignUntargeted
<1>2. RunInv
    BY <1>1 DEF PatchNode, PatchFails, NoFault, Fail, LabelInv, Undisturbed
<1>3. /\ n \in Node /\ mem[n] \in NodeObject /\ mem[n] # None
      /\ nodes[n] # None /\ mem[n].assign = Held(n)
      /\ targeted = GroupNodes /\ n \notin GroupNodes
    BY <1>1, <1>2 DEF TypeInv, TypeOK, MemInv, NodeMap, RunInv, CopyInv, ListedInv
<1>4. /\ PatchNode(n, mem[n], Unassign(mem[n])) /\ todo' = todo \ {n}
      /\ targeted' = targeted /\ unassigned' = unassigned
    BY <1>1, <1>3 DEF PatchFails, Fail
<1>5. /\ OnlyAssigns(n, IF None = mem[n].assign THEN nodes[n].assign ELSE None)
      /\ nodes[n].assign \in AName \cup {None}
    <2>1. Unassign(mem[n]) \in NodeObject /\ Unassign(mem[n]).assign = None
        BY <1>3, UnassignFacts
    <2>2. nodes[n] \in NodeObject
        BY <1>3 DEF TypeInv, TypeOK, NodeMap
    <2>3. nodes[n].assign \in AName \cup {None}
        BY <2>2 DEF NodeObject
    <2> QED  BY <1>3, <1>4, <2>1, <2>3, PatchAssigns
<1>6. GroupNodes' = GroupNodes
    BY <1>1, <1>3, <1>5, GroupKept
<1>7. /\ Held(n)' = None
      /\ \A m \in Node : m # n => nodes'[m] = nodes[m] /\ Held(m)' = Held(m)
      /\ nodes'[n] # None
    BY <1>3, <1>4, <1>5 DEF Held, OnlyAssigns
<1>8. GroupNodes \subseteq Node /\ todo \subseteq Node /\ targeted \subseteq Node
        /\ unassigned \subseteq Node
    BY DEF GroupNodes, Targets, TypeInv, TypeOK
<1>9. ListedInv'
    BY <1>1, <1>2, <1>3, <1>4, <1>6, <1>7, <1>8 DEF RunInv, ListedInv
<1>10. CopyInv'
    BY <1>1, <1>2, <1>3, <1>4, <1>6, <1>7, <1>8 DEF RunInv, CopyInv
<1>11. RestInv'
    BY <1>1, <1>2, <1>4, <1>6, <1>7 DEF RunInv, RestInv
<1> QED  BY <1>1, <1>9, <1>10, <1>11 DEF RunInv, BookInv, CleaningInv, DoneInv

LEMMA DecideLabel == AllDistinct /\ TypeInv /\ LabelInv /\ Decide => LabelInv'
<1> SUFFICES ASSUME AllDistinct, TypeInv, LabelInv, Decide PROVE LabelInv'
    OBVIOUS
<1>0. pc' \in {"reconcile", "unassignList", "addGet"}
    <2>1. wcNag \in NagObject
        BY DEF Decide, TypeInv, TypeOK, Nags
    <2>2. wcNag.deleting \in BOOLEAN
        BY <2>1 DEF NagObject
    <2> QED  BY <2>2 DEF Decide, Goto
<1> SUFFICES ASSUME clean', ~failed', pc' = "reconcile" PROVE RunInv' /\ DoneInv'
    <2>1. CASE pc' # "reconcile"
        <3>1. pc' \notin {"sets", "reconcile", "default", "cleanup", "cleanupPatch", "done"}
            BY <1>0, <2>1
        <3> QED  BY <3>1, Unclaimed
    <2> QED  BY <2>1 DEF LabelInv, Undisturbed
<1>1. /\ pc = "sets" /\ todo' = targeted /\ todo = {}
      /\ nodes' = nodes /\ wcNag' = wcNag /\ mem' = mem /\ listed' = listed
      /\ targeted' = targeted /\ unassigned' = unassigned /\ clean' = clean /\ failed' = failed
      /\ changes' = AssignmentChanges(wcNag.spec, [n \in targeted |-> mem[n]])
    BY DEF Decide, Goto, apiVars
<1>2. RunInv
    BY <1>1 DEF LabelInv, Undisturbed
<1>3. wcNag.spec \in Specs /\ wcNag.spec \in NagSpec /\ DistinctNames(wcNag.spec)
    BY <1>1, SpecsAssumption DEF AllDistinct, TypeInv, TypeOK, Nags, NagObject
<1>4. GroupNodes' = GroupNodes /\ targeted = GroupNodes /\ GroupNodes \subseteq Node
    BY <1>1, <1>2, SameNodesHarmless DEF RunInv, ListedInv, GroupNodes, Targets
<1>5. \A n \in Node : Held(n)' = Held(n)
    BY <1>1 DEF Held
<1>6. HeldNow' = HeldNow /\ HeldBefore' = HeldBefore /\ ToVisit' = GroupNodes
    BY <1>1, <1>4, <1>5, BooksKept DEF ToVisit
<1>7. IsFiniteSet(GroupNodes)
    BY <1>4, NodeAssumption, FS_Subset
<1>8. /\ IsBook(wcNag.spec, GroupNodes, HeldNow, changes')
      /\ Book(wcNag.spec, GroupNodes, HeldNow, HeldBefore, changes', GroupNodes)
    <2> DEFINE f == [n \in targeted |-> mem[n]]
    <2>1. DOMAIN f = GroupNodes /\ DOMAIN HeldNow = GroupNodes
        BY <1>4 DEF HeldNow
    <2>2. ASSUME NEW n \in GroupNodes
          PROVE  /\ f[n].assign = HeldNow[n]
                 /\ HeldNow[n] \in KnownAssignments(wcNag.spec) \cup {None}
                 /\ HeldNow[n] # HeldBefore[n] =>
                      HeldNow[n] = None /\ HeldBefore[n] \notin KnownAssignments(wcNag.spec)
        <3>1. f[n] = mem[n] /\ HeldNow[n] = Held(n) /\ HeldBefore[n] = listed[n].assign
            BY <1>4 DEF HeldNow, HeldBefore
        <3> HIDE DEF f
        <3> QED  BY <1>1, <1>2, <1>4, <3>1 DEF RunInv, CopyInv, ListedInv
    <2>3. changes' = AssignmentChanges(wcNag.spec, f)
        BY <1>1
    <2> HIDE DEF f
    <2> QED  BY <1>3, <1>7, <2>1, <2>2, <2>3, OpenBook
<1>9. BookInv'
    BY <1>1, <1>4, <1>6, <1>8 DEF BookInv
<1>10. CopyInv'
    BY <1>1, <1>2, <1>4, <1>5 DEF RunInv, CopyInv, TypeInv, TypeOK
<1>11. RestInv'
    BY <1>1, <1>2, <1>4, <1>5 DEF RunInv, RestInv
<1> QED  BY <1>9, <1>10, <1>11 DEF RunInv, ListedInv, CleaningInv, DoneInv

-----------------------------------------------------------------------------
(* The loop of Reconcile. *)

\* What a step of the loop knows of the node it visits.
LEMMA VisitFacts ==
    ASSUME TypeInv, RunInv, pc = "reconcile", NEW n \in todo
    PROVE  /\ n \in Node /\ n \in GroupNodes /\ n \in ToVisit /\ ToVisit = todo
           /\ mem[n] \in NodeObject /\ nodes[n] \in NodeObject /\ nodes[n] # None
           /\ mem[n].assign = Held(n) /\ HeldNow[n] = Held(n)
           /\ mem[n].assign \in AName \cup {None}
           /\ wcNag.spec \in NagSpec /\ changes \in [AName -> Int]
           /\ IsBook(wcNag.spec, GroupNodes, HeldNow, changes)
           /\ Book(wcNag.spec, GroupNodes, HeldNow, HeldBefore, changes, todo)
<1>1. IsBook(wcNag.spec, GroupNodes, HeldNow, changes)
        /\ Book(wcNag.spec, GroupNodes, HeldNow, HeldBefore, changes, todo)
        /\ ToVisit = todo
    BY DEF RunInv, BookInv, ToVisit
<1>2. n \in GroupNodes
    BY <1>1 DEF Book
<1>3. n \in Node /\ mem[n] \in NodeObject /\ nodes[n] \in NodeObject /\ nodes[n] # None
        /\ mem[n].assign = Held(n)
    BY DEF TypeInv, TypeOK, MemInv, NodeMap, RunInv, CopyInv
<1>4. HeldNow[n] = Held(n)
    BY <1>2 DEF HeldNow
<1>5. mem[n].assign \in AName \cup {None}
    BY <1>3 DEF NodeObject
<1> QED  BY <1>1, <1>2, <1>3, <1>4, <1>5 DEF IsBook

\* A step of the loop in memory, or one that assigns the node it visits.
LEMMA LoopStep ==
    ASSUME TypeInv, RunInv, pc = "reconcile", pc' = "reconcile",
           UNCHANGED <<wcNag, listed>>,
           NEW n \in todo, n \in Node, n \in GroupNodes,
           UNCHANGED nodes \/ \E name \in AName \cup {None} : OnlyAssigns(n, name),
           todo' \subseteq todo, unassigned' \subseteq unassigned \cup {n},
           \A m \in todo' : mem'[m].assign = Held(m)',
           \A m \in Node : m # n => mem'[m] = mem[m] /\ Held(m)' = Held(m),
           LET new == [HeldNow EXCEPT ![n] = Held(n)'] IN
              /\ IsBook(wcNag.spec, GroupNodes, new, changes')
              /\ Book(wcNag.spec, GroupNodes, new, HeldBefore, changes', todo')
    PROVE  RunInv'
<1>1. GroupNodes' = GroupNodes
    <2>1. CASE UNCHANGED nodes
        BY <2>1, SameNodesHarmless
    <2>2. CASE \E name \in AName \cup {None} : OnlyAssigns(n, name)
        BY <2>2, GroupKept
    <2> QED  BY <2>1, <2>2
<1>2. \A m \in Node : nodes'[m] = None <=> nodes[m] = None
    BY DEF OnlyAssigns
<1>3. HeldNow' = [HeldNow EXCEPT ![n] = Held(n)'] /\ HeldBefore' = HeldBefore
    <2>1. HeldBefore' = HeldBefore
        BY <1>1 DEF HeldBefore
    <2>2. HeldNow' = [m \in GroupNodes |-> Held(m)']
        BY <1>1 DEF HeldNow
    <2>3. HeldNow = [m \in GroupNodes |-> Held(m)]
        BY DEF HeldNow
    <2>4. GroupNodes \subseteq Node
        BY DEF GroupNodes, Targets
    <2> QED  BY <2>1, <2>2, <2>3, <2>4
<1>4. BookInv'
    BY <1>1, <1>3 DEF BookInv, ToVisit
<1>5. CopyInv'
    <2>1. todo \subseteq Node /\ unassigned \subseteq Node
        BY DEF TypeInv, TypeOK
    <2>2. \A m \in todo \cup unassigned : nodes[m] # None
        BY DEF RunInv, CopyInv
    <2> QED  BY <1>2, <2>1, <2>2 DEF CopyInv
<1>6. RestInv'
    BY <1>1, <1>2 DEF RunInv, RestInv
<1> QED  BY <1>4, <1>5, <1>6 DEF RunInv, ListedInv, CleaningInv

LEMMA KeepNodeLabel == TypeInv /\ LabelInv /\ KeepNode => LabelInv'
<1> SUFFICES ASSUME TypeInv, LabelInv, KeepNode, clean', ~failed' PROVE RunInv' /\ DoneInv'
    BY DEF LabelInv, Undisturbed
<1>1. PICK n \in todo :
        /\ pc = "reconcile" /\ pc' = pc
        /\ IsAssigned(mem[n]) /\ ~Releasable(mem[n])
        /\ todo' = todo \ {n}
        /\ UNCHANGED <<nodes, wcNag, mem, unassigned, changes, listed, clean, failed>>
    BY DEF KeepNode, apiVars
<1>2. RunInv
    BY <1>1 DEF LabelInv, Undisturbed
<1>3. /\ n \in Node /\ n \in GroupNodes /\ HeldNow[n] = mem[n].assign
      /\ mem[n].assign \in AName \cup {None} /\ changes \in [AName -> Int]
      /\ IsBook(wcNag.spec, GroupNodes, HeldNow, changes)
      /\ Book(wcNag.spec, GroupNodes, HeldNow, HeldBefore, changes, todo)
    BY <1>1, <1>2, VisitFacts
<1>4. /\ HeldNow[n] \in AName /\ HeldNow[n] # None
      /\ ~(changes[HeldNow[n]] < 0) /\ ~IsDefault(wcNag.spec, HeldNow[n])
    BY <1>1, <1>3 DEF IsAssigned, Releasable, GetAssignment
<1>5. changes[HeldNow[n]] >= 0
    BY <1>3, <1>4
<1>6. Book(wcNag.spec, GroupNodes, HeldNow, HeldBefore, changes, todo \ {n})
    BY <1>3, <1>4, <1>5, KeepEntry
<1>7. \A m \in Node : Held(m)' = Held(m)
    BY <1>1 DEF Held
<1>8. [HeldNow EXCEPT ![n] = Held(n)'] = HeldNow
    BY <1>3, <1>7 DEF HeldNow
<1>9. \A m \in todo' : mem'[m].assign = Held(m)'
    BY <1>1, <1>2, <1>7 DEF RunInv, CopyInv, TypeInv, TypeOK
<1>10. RunInv'
    <2>1. /\ todo' \subseteq todo /\ unassigned' \subseteq unassigned \cup {n}
          /\ \A m \in Node : m # n => mem'[m] = mem[m] /\ Held(m)' = Held(m)
        BY <1>1, <1>7
    <2> QED  BY <1>1, <1>2, <1>3, <1>6, <1>8, <1>9, <2>1, LoopStep
<1> QED  BY <1>1, <1>10 DEF DoneInv

LEMMA ReleaseNodeLabel == TypeInv /\ LabelInv /\ ReleaseNode => LabelInv'
<1> SUFFICES ASSUME TypeInv, LabelInv, ReleaseNode, clean', ~failed' PROVE RunInv' /\ DoneInv'
    BY DEF LabelInv, Undisturbed
<1>1. PICK n \in todo :
        /\ pc = "reconcile" /\ pc' = pc
        /\ Releasable(mem[n])
        /\ mem' = [mem EXCEPT ![n] = Unassign(@)]
        /\ unassigned' = unassigned \cup {n}
        /\ changes' = [changes EXCEPT ![GetAssignment(mem[n])] = @ + 1]
        /\ UNCHANGED <<nodes, wcNag, todo, listed, clean, failed>>
    BY DEF ReleaseNode, apiVars
<1>2. RunInv
    BY <1>1 DEF LabelInv, Undisturbed
<1>3. /\ n \in Node /\ n \in GroupNodes /\ HeldNow[n] = mem[n].assign
      /\ mem[n] \in NodeObject
      /\ mem[n].assign \in AName \cup {None} /\ changes \in [AName -> Int]
      /\ IsBook(wcNag.spec, GroupNodes, HeldNow, changes)
      /\ Book(wcNag.spec, GroupNodes, HeldNow, HeldBefore, changes, todo)
    BY <1>1, <1>2, VisitFacts
<1>4. /\ HeldNow[n] \in AName
      /\ changes[HeldNow[n]] < 0 \/ IsDefault(wcNag.spec, HeldNow[n])
      /\ changes' = [changes EXCEPT ![HeldNow[n]] = @ + 1]
    BY <1>1, <1>3 DEF IsAssigned, Releasable, GetAssignment
<1>5. /\ IsBook(wcNag.spec, GroupNodes, [HeldNow EXCEPT ![n] = None], changes')
      /\ Book(wcNag.spec, GroupNodes, [HeldNow EXCEPT ![n] = None], HeldBefore, changes', todo)
    BY <1>3, <1>4, ReleaseEntry
<1>6. Held(n)' = None /\ \A m \in Node : m # n => Held(m)' = Held(m)
    BY <1>1 DEF Held
<1>7. mem'[n].assign = None /\ \A m \in Node : m # n => mem'[m] = mem[m]
    <2>1. mem'[n] = Unassign(mem[n]) /\ \A m \in Node : m # n => mem'[m] = mem[m]
        BY <1>1, <1>3 DEF TypeInv, TypeOK, NodeMap
    <2> QED  BY <1>3, <2>1, UnassignFacts
<1>8. \A m \in todo' : mem'[m].assign = Held(m)'
    BY <1>1, <1>2, <1>6, <1>7 DEF RunInv, CopyInv, TypeInv, TypeOK
<1>9. RunInv'
    <2>1. todo' \subseteq todo /\ unassigned' \subseteq unassigned \cup {n}
        BY <1>1
    <2>2. /\ IsBook(wcNag.spec, GroupNodes, [HeldNow EXCEPT ![n] = Held(n)'], changes')
          /\ Book(wcNag.spec, GroupNodes, [HeldNow EXCEPT ![n] = Held(n)'], HeldBefore, changes', todo')
        BY <1>1, <1>5, <1>6
    <2> QED  BY <1>1, <1>2, <1>3, <1>6, <1>7, <1>8, <2>1, <2>2, LoopStep
<1> QED  BY <1>1, <1>9 DEF DoneInv

\* The step gives the visited node to an assignment.
LEMMA GiveStep ==
    ASSUME TypeInv, RunInv, pc = "reconcile", pc' = "reconcile",
           UNCHANGED <<wcNag, listed, mem>>,
           NEW n \in todo, ~IsAssigned(mem[n]), NEW a \in AssignmentObject,
           PatchNode(n, mem[n], Assign(mem[n], a)),
           todo' = todo \ {n}, unassigned' = unassigned \ {n},
           LET new == [HeldNow EXCEPT ![n] = a.name] IN
              /\ IsBook(wcNag.spec, GroupNodes, new, changes')
              /\ Book(wcNag.spec, GroupNodes, new, HeldBefore, changes', todo \ {n})
    PROVE  RunInv'
<1>1. /\ n \in Node /\ n \in GroupNodes
      /\ mem[n] \in NodeObject /\ nodes[n] # None
    BY VisitFacts
<1>2. /\ Assign(mem[n], a) \in NodeObject
      /\ Assign(mem[n], a).assign = a.name
      /\ a.name # None /\ mem[n].assign = None /\ a.name \in AName
    BY <1>1, AssignType, AssignKeeps DEF IsAssigned, GetAssignment, AssignmentObject
<1>3. OnlyAssigns(n, a.name)
    BY <1>1, <1>2, PatchAssigns
<1>4. Held(n)' = a.name /\ \A m \in Node : m # n => Held(m)' = Held(m)
    BY <1>3 DEF Held, OnlyAssigns
<1>5. \A m \in todo' : mem'[m].assign = Held(m)'
    BY <1>4 DEF RunInv, CopyInv, TypeInv, TypeOK
<1>6. /\ IsBook(wcNag.spec, GroupNodes, [HeldNow EXCEPT ![n] = Held(n)'], changes')
      /\ Book(wcNag.spec, GroupNodes, [HeldNow EXCEPT ![n] = Held(n)'], HeldBefore, changes', todo')
    BY <1>4
<1>7. /\ todo' \subseteq todo /\ unassigned' \subseteq unassigned \cup {n}
      /\ UNCHANGED nodes \/ \E name \in AName \cup {None} : OnlyAssigns(n, name)
      /\ UNCHANGED <<wcNag, listed>>
      /\ \A m \in Node : m # n => mem'[m] = mem[m] /\ Held(m)' = Held(m)
    BY <1>2, <1>3, <1>4
<1> QED  BY <1>1, <1>5, <1>6, <1>7, LoopStep

LEMMA AssignNodeLabel == TypeInv /\ LabelInv /\ AssignNode => LabelInv'
<1> SUFFICES ASSUME TypeInv, LabelInv, AssignNode, clean', ~failed' PROVE RunInv' /\ DoneInv'
    BY DEF LabelInv, Undisturbed
<1> DEFINE a == FirstNeeding(wcNag.spec, changes)
<1>1. PICK n \in todo :
        /\ pc = "reconcile" /\ ~IsAssigned(mem[n]) /\ a # None
        /\ \/ /\ PatchNode(n, mem[n], Assign(mem[n], a))
              /\ changes' = [changes EXCEPT ![a.name] = @ - 1]
              /\ todo' = todo \ {n} /\ unassigned' = unassigned \ {n} /\ pc' = pc
           \/ PatchFails(n, mem[n], Assign(mem[n], a))
        /\ UNCHANGED <<wcNag, listed, mem, clean>>
    BY DEF AssignNode
<1>2. RunInv
    <2> HIDE DEF a
    <2> QED  BY <1>1 DEF PatchNode, PatchFails, NoFault, Fail, LabelInv, Undisturbed
<1>3. /\ n \in GroupNodes /\ HeldNow[n] = mem[n].assign /\ nodes[n] # None
      /\ wcNag.spec \in NagSpec /\ changes \in [AName -> Int]
      /\ IsBook(wcNag.spec, GroupNodes, HeldNow, changes)
      /\ Book(wcNag.spec, GroupNodes, HeldNow, HeldBefore, changes, todo)
    BY <1>1, <1>2, VisitFacts
<1>4. PICK k \in DOMAIN wcNag.spec.assignments :
        /\ a = wcNag.spec.assignments[k]
        /\ changes[wcNag.spec.assignments[k].name] > 0
        /\ \A j \in DOMAIN wcNag.spec.assignments :
              j < k => changes[wcNag.spec.assignments[j].name] <= 0
    BY <1>1, <1>3, FirstNeedingFacts
<1>5. a \in AssignmentObject
    BY <1>3, <1>4, SpecFacts
<1> HIDE DEF a
<1>6. /\ PatchNode(n, mem[n], Assign(mem[n], a))
      /\ changes' = [changes EXCEPT ![a.name] = @ - 1]
      /\ todo' = todo \ {n} /\ unassigned' = unassigned \ {n} /\ pc' = pc
    BY <1>1, <1>3 DEF PatchFails, Fail
<1>7. HeldNow[n] = None
    BY <1>1, <1>3 DEF IsAssigned, GetAssignment
<1>8. /\ IsBook(wcNag.spec, GroupNodes, [HeldNow EXCEPT ![n] = a.name], changes')
      /\ Book(wcNag.spec, GroupNodes, [HeldNow EXCEPT ![n] = a.name], HeldBefore, changes', todo \ {n})
    BY <1>3, <1>4, <1>6, <1>7, AssignEntry
<1>9. RunInv'
    BY <1>1, <1>2, <1>5, <1>6, <1>8, GiveStep
<1> QED  BY <1>1, <1>6, <1>9 DEF DoneInv

LEMMA ApplyDefaultLabel == TypeInv /\ LabelInv /\ ApplyDefault => LabelInv'
<1> SUFFICES ASSUME TypeInv, LabelInv, ApplyDefault, clean', ~failed' PROVE RunInv' /\ DoneInv'
    BY DEF LabelInv, Undisturbed
<1> DEFINE a == wcNag.spec.defaultAssignment
<1>1. PICK n \in todo :
        /\ \/ pc = "reconcile" /\ FirstNeeding(wcNag.spec, changes) = None
           \/ pc = "default"
        /\ ~IsAssigned(mem[n])
        /\ \/ /\ a = None /\ todo' = todo \ {n} /\ NoFault
              /\ UNCHANGED <<nodes, wcNag, mem, unassigned, changes>> /\ pc' = "reconcile"
           \/ /\ a # None /\ PatchNode(n, mem[n], Assign(mem[n], a))
              /\ todo' = todo \ {n} /\ unassigned' = unassigned \ {n}
              /\ UNCHANGED <<wcNag, mem, changes>> /\ pc' = "reconcile"
           \/ PatchFails(n, mem[n], Assign(mem[n], a))
        /\ UNCHANGED <<listed, clean>>
    BY DEF ApplyDefault, Goto
<1>2. RunInv
    <2> HIDE DEF a
    <2> QED  BY <1>1 DEF PatchNode, PatchFails, NoFault, Fail, LabelInv, Undisturbed
<1>3. pc = "reconcile" /\ FirstNeeding(wcNag.spec, changes) = None
    BY <1>1, <1>2 DEF RunInv
<1>4. /\ n \in Node /\ n \in GroupNodes /\ HeldNow[n] = mem[n].assign /\ nodes[n] # None
      /\ HeldNow[n] = Held(n)
      /\ wcNag.spec \in NagSpec /\ changes \in [AName -> Int]
      /\ IsBook(wcNag.spec, GroupNodes, HeldNow, changes)
      /\ Book(wcNag.spec, GroupNodes, HeldNow, HeldBefore, changes, todo)
    BY <1>2, <1>3, VisitFacts
<1>5. \A i \in DOMAIN wcNag.spec.assignments : changes[wcNag.spec.assignments[i].name] <= 0
    BY <1>3, <1>4, FirstNeedingFacts
<1>6. HeldNow[n] = None
    BY <1>1, <1>4 DEF IsAssigned, GetAssignment
<1>7. a # None => a \in AssignmentObject
    BY <1>4, SpecFacts DEF HasDefault
<1>8. a # None <=> HasDefault(wcNag.spec)
    BY DEF HasDefault
<1>9. ASSUME NEW name, IF HasDefault(wcNag.spec) THEN name = a.name ELSE name = None
      PROVE  LET new == [HeldNow EXCEPT ![n] = name] IN
               /\ IsBook(wcNag.spec, GroupNodes, new, changes)
               /\ Book(wcNag.spec, GroupNodes, new, HeldBefore, changes, todo \ {n})
    BY <1>4, <1>5, <1>6, <1>9, DefaultEntry
<1> HIDE DEF a
<1>10. CASE /\ a = None /\ todo' = todo \ {n}
            /\ UNCHANGED <<nodes, wcNag, mem, unassigned, changes>> /\ pc' = "reconcile"
    <2>1. /\ IsBook(wcNag.spec, GroupNodes, [HeldNow EXCEPT ![n] = None], changes)
          /\ Book(wcNag.spec, GroupNodes, [HeldNow EXCEPT ![n] = None], HeldBefore, changes, todo \ {n})
        BY <1>8, <1>9, <1>10
    <2>2. \A m \in Node : Held(m)' = Held(m)
        BY <1>10 DEF Held
    <2>3. \A m \in todo' : mem'[m].assign = Held(m)'
        BY <1>2, <1>3, <1>10, <2>2 DEF RunInv, CopyInv, TypeInv, TypeOK
    <2>4. Held(n)' = None
        BY <1>4, <1>6, <2>2
    <2>5. /\ todo' \subseteq todo /\ unassigned' \subseteq unassigned \cup {n}
          /\ \A m \in Node : m # n => mem'[m] = mem[m] /\ Held(m)' = Held(m)
          /\ UNCHANGED <<wcNag, listed>>
        BY <1>1, <1>10, <2>2
    <2>6. /\ IsBook(wcNag.spec, GroupNodes, [HeldNow EXCEPT ![n] = Held(n)'], changes')
          /\ Book(wcNag.spec, GroupNodes, [HeldNow EXCEPT ![n] = Held(n)'], HeldBefore, changes', todo')
        BY <1>10, <2>1, <2>4
    <2>7. RunInv'
        BY <1>2, <1>3, <1>4, <1>10, <2>3, <2>5, <2>6, LoopStep
    <2> QED  BY <1>10, <2>7 DEF DoneInv
<1>11. CASE /\ a # None /\ PatchNode(n, mem[n], Assign(mem[n], a))
            /\ todo' = todo \ {n} /\ unassigned' = unassigned \ {n}
            /\ UNCHANGED <<wcNag, mem, changes>> /\ pc' = "reconcile"
    <2>1. /\ IsBook(wcNag.spec, GroupNodes, [HeldNow EXCEPT ![n] = a.name], changes)
          /\ Book(wcNag.spec, GroupNodes, [HeldNow EXCEPT ![n] = a.name], HeldBefore, changes, todo \ {n})
        BY <1>8, <1>9, <1>11
    <2>2. UNCHANGED <<wcNag, listed, mem>> /\ changes' = changes
        BY <1>1, <1>11
    <2>3. RunInv'
        BY <1>1, <1>2, <1>3, <1>7, <1>11, <2>1, <2>2, GiveStep
    <2> QED  BY <1>11, <2>3 DEF DoneInv
<1>12. ~PatchFails(n, mem[n], Assign(mem[n], a))
    BY <1>4 DEF PatchFails, Fail
<1> QED  BY <1>1, <1>10, <1>11, <1>12

-----------------------------------------------------------------------------
(* The loop over the nodes that were only unassigned in memory. *)

LEMMA EndAssigningLabel == TypeInv /\ LabelInv /\ EndAssigning => LabelInv'
<1> SUFFICES ASSUME TypeInv, LabelInv, EndAssigning, clean', ~failed' PROVE RunInv' /\ DoneInv'
    BY DEF LabelInv, Undisturbed
<1>1. /\ pc = "reconcile" /\ todo = {} /\ pc' = "cleanup" /\ todo' = unassigned
      /\ UNCHANGED <<nodes, wcNag, unassigned, changes, listed, clean, failed>>
    BY DEF EndAssigning, Goto, apiVars
<1>2. RunInv
    BY <1>1 DEF LabelInv, Undisturbed
<1>3. GroupNodes' = GroupNodes /\ \A n \in Node : Held(n)' = Held(n)
    BY <1>1, SameNodesHarmless DEF Held
<1>4. HeldNow' = HeldNow /\ HeldBefore' = HeldBefore /\ ToVisit' = ToVisit
    <2>1. GroupNodes \subseteq Node
        BY DEF GroupNodes, Targets
    <2> QED  BY <1>1, <1>3, <2>1, BooksKept DEF ToVisit
<1>5. BookInv' /\ CopyInv' /\ RestInv'
    BY <1>1, <1>2, <1>3, <1>4 DEF RunInv, BookInv, CopyInv, RestInv
<1> QED  BY <1>1, <1>5 DEF RunInv, ListedInv, CleaningInv, DoneInv

LEMMA CleanupGetLabel == TypeInv /\ LabelInv /\ CleanupGet => LabelInv'
<1> SUFFICES ASSUME TypeInv, LabelInv, CleanupGet, clean', ~failed' PROVE RunInv' /\ DoneInv'
    BY DEF LabelInv, Undisturbed
<1>1. PICK n \in todo :
        /\ pc = "cleanup" /\ todo' = todo \ {n}
        /\ \/ /\ nodes[n] # None /\ pc' = "cleanupPatch" /\ at' = n
              /\ mem' = [mem EXCEPT ![n] = nodes[n]] /\ NoFault
           \/ nodes[n] = None
           \/ Fail("nodeGet")
        /\ UNCHANGED <<nodes, wcNag, unassigned, changes, listed, clean>>
    BY DEF CleanupGet, Goto, apiVars
<1>2. RunInv
    BY <1>1 DEF CleanupGet, Fail, NoFault, LabelInv, Undisturbed
<1>3. n \in Node /\ n \in unassigned /\ nodes[n] # None
    BY <1>1, <1>2 DEF RunInv, CleaningInv, CopyInv, TypeInv, TypeOK
<1>4. /\ pc' = "cleanupPatch" /\ at' = n /\ mem'[n] = nodes[n]
    BY <1>1, <1>3 DEF Fail, TypeInv, TypeOK, NodeMap
<1>5. GroupNodes' = GroupNodes /\ \A m \in Node : Held(m)' = Held(m)
    BY <1>1, SameNodesHarmless DEF Held
<1>6. HeldNow' = HeldNow /\ HeldBefore' = HeldBefore /\ ToVisit' = ToVisit
    <2>1. GroupNodes \subseteq Node
        BY DEF GroupNodes, Targets
    <2> QED  BY <1>1, <1>4, <1>5, <2>1, BooksKept DEF ToVisit
<1>7. BookInv' /\ CopyInv' /\ RestInv'
    BY <1>1, <1>2, <1>3, <1>4, <1>5, <1>6 DEF RunInv, BookInv, CopyInv, RestInv
<1>8. CleaningInv'
    BY <1>1, <1>2, <1>4 DEF RunInv, CleaningInv
<1> QED  BY <1>4, <1>7, <1>8 DEF RunInv, ListedInv, DoneInv

LEMMA CleanupPatchLabel == TypeInv /\ LabelInv /\ CleanupPatch => LabelInv'
<1> SUFFICES ASSUME TypeInv, LabelInv, CleanupPatch, clean', ~failed' PROVE RunInv' /\ DoneInv'
    BY DEF LabelInv, Undisturbed
<1>1. /\ pc = "cleanupPatch" /\ pc' = "cleanup"
      /\ \/ PatchNode(at, mem[at], Unassign(mem[at])) /\ unassigned' = unassigned \ {at}
         \/ PatchFails(at, mem[at], Unassign(mem[at]))
      /\ UNCHANGED <<wcNag, todo, changes, listed, clean>>
    BY DEF CleanupPatch, Goto
<1>2. RunInv
    BY <1>1 DEF PatchNode, PatchFails, NoFault, Fail, LabelInv, Undisturbed
<1>3. /\ at \in Node /\ mem[at] \in NodeObject /\ nodes[at] # None
      /\ mem[at].assign = nodes[at].assign
      /\ unassigned = todo \cup {at} /\ at \notin todo
    BY <1>1, <1>2 DEF TypeInv, TypeOK, MemInv, NodeMap, RunInv, CopyInv, CleaningInv
<1>4. PatchNode(at, mem[at], Unassign(mem[at])) /\ unassigned' = todo
    BY <1>1, <1>3 DEF PatchFails, Fail
<1>5. OnlyAssigns(at, None)
    <2>1. Unassign(mem[at]) \in NodeObject /\ Unassign(mem[at]).assign = None
        BY <1>3, UnassignFacts
    <2> QED  BY <1>3, <1>4, <2>1, PatchAssigns
<1>6. GroupNodes' = GroupNodes
    BY <1>1, <1>3, <1>5, GroupKept
<1>7. \A m \in Node : Held(m)' = Held(m)
    BY <1>3, <1>4, <1>5 DEF Held, OnlyAssigns
<1>8. HeldNow' = HeldNow /\ HeldBefore' = HeldBefore /\ ToVisit' = ToVisit
    <2>1. GroupNodes \subseteq Node
        BY DEF GroupNodes, Targets
    <2> QED  BY <1>1, <1>6, <1>7, <2>1, BooksKept DEF ToVisit
<1>9. BookInv'
    BY <1>1, <1>2, <1>6, <1>8 DEF RunInv, BookInv
<1>10. \A m \in Node : nodes'[m] = None <=> nodes[m] = None
    BY <1>5 DEF OnlyAssigns
<1>11. CopyInv'
    BY <1>1, <1>2, <1>3, <1>4, <1>10 DEF RunInv, CopyInv, TypeInv, TypeOK
<1>12. RestInv'
    BY <1>1, <1>2, <1>6, <1>7, <1>10 DEF RunInv, RestInv
<1> QED  BY <1>1, <1>4, <1>9, <1>11, <1>12 DEF RunInv, ListedInv, CleaningInv, DoneInv

LEMMA ClosedBook ==
    ASSUME TypeInv, RunInv, pc = "cleanup", todo = {}
    PROVE  Outcome(wcNag.spec)
<1> DEFINE spec == wcNag.spec
           G == GroupNodes
<1>1. unassigned = {} /\ \A n \in Node : Held(n) = nodes[n].assign
    BY DEF RunInv, CleaningInv, Held
<1>2. /\ G = Targets(spec) /\ G \subseteq Node
      /\ \A n \in G : /\ nodes[n] # None /\ HeldNow[n] = GetAssignment(nodes[n])
                      /\ HeldBefore[n] = GetAssignment(listed[n])
    BY <1>1 DEF GroupNodes, Targets, HeldNow, HeldBefore, GetAssignment
<1>3. IsBook(spec, G, HeldNow, changes) /\ Book(spec, G, HeldNow, HeldBefore, changes, {})
    BY DEF RunInv, BookInv, ToVisit
<1>4. ASSUME NEW name
      PROVE  /\ Count(spec, name) = Cardinality(NodesOf(G, HeldNow, name))
             /\ NodesOf(G, HeldBefore, name) = {n \in G : GetAssignment(listed[n]) = name}
    <2>1. {n \in G : GetAssignment(nodes[n]) = name} = NodesOf(G, HeldNow, name)
        BY <1>2 DEF NodesOf
    <2>2. Count(spec, name) = Cardinality({n \in G : GetAssignment(nodes[n]) = name})
        BY <1>2 DEF Count, NumAssigned
    <2>3. NodesOf(G, HeldBefore, name) = {n \in G : GetAssignment(listed[n]) = name}
        BY <1>2 DEF NodesOf
    <2> QED  BY <2>1, <2>2, <2>3
<1>5. ASSUME NEW i \in DOMAIN spec.assignments
      PROVE  LET a == spec.assignments[i]
                 have == Count(spec, a.name)
                 desired == Desired(a, Cardinality(G))
                 had == {n \in G : GetAssignment(listed[n]) = a.name}
                 lost == {n \in had : GetAssignment(nodes[n]) # a.name}
                 surplus == Cardinality(had) - desired
             IN  /\ have <= desired
                 /\ have < desired => \A n \in G : /\ GetAssignment(nodes[n]) # None
                                                   /\ ~IsDefault(spec, GetAssignment(nodes[n]))
                 /\ have < desired => \A j \in DOMAIN spec.assignments, n \in G :
                      i < j /\ GetAssignment(nodes[n]) = spec.assignments[j].name
                        => GetAssignment(listed[n]) = spec.assignments[j].name
                 /\ Cardinality(lost) <= IF surplus > 0 THEN surplus ELSE 0
    <2> DEFINE a == spec.assignments[i]
               desired == Desired(a, Cardinality(G))
               before == NodesOf(G, HeldBefore, a.name)
               surplus == Cardinality(before) - desired
               lost == {n \in before : HeldNow[n] # a.name}
    <2>1. /\ Cardinality(NodesOf(G, HeldNow, a.name)) <= desired
          /\ Cardinality(NodesOf(G, HeldNow, a.name)) < desired =>
                \A n \in G : HeldNow[n] # None /\ ~IsDefault(spec, HeldNow[n])
          /\ Cardinality(NodesOf(G, HeldNow, a.name)) < desired =>
                \A j \in DOMAIN spec.assignments, n \in G :
                  i < j /\ HeldNow[n] = spec.assignments[j].name
                    => HeldBefore[n] = spec.assignments[j].name
          /\ Cardinality(lost) <= IF surplus > 0 THEN surplus ELSE 0
        <3> HIDE DEF G, spec
        <3>1. Cardinality(NodesOf(G, HeldNow, a.name)) <= desired
            BY <1>3, CloseBook
        <3>2. Cardinality(NodesOf(G, HeldNow, a.name)) < desired =>
                \A n \in G : HeldNow[n] # None /\ ~IsDefault(spec, HeldNow[n])
            BY <1>3, CloseBook
        <3>3. Cardinality(NodesOf(G, HeldNow, a.name)) < desired =>
                \A j \in DOMAIN spec.assignments, n \in G :
                  i < j /\ HeldNow[n] = spec.assignments[j].name
                    => HeldBefore[n] = spec.assignments[j].name
            <4>1. Counted(a, G, HeldNow, changes[a.name])
                    /\ Ordered(spec, i, G, HeldNow, HeldBefore, changes[a.name])
                BY <1>3 DEF Book, Entry
            <4>2. /\ changes[a.name] \in Int /\ desired \in Nat
                  /\ Cardinality(NodesOf(G, HeldNow, a.name)) \in Nat
                <5>1. changes[a.name] \in Int /\ desired \in Nat
                    BY <1>3, EntryFacts
                <5>2. IsFiniteSet(G)
                    BY <1>3 DEF IsBook
                <5> QED  BY <5>1, <5>2, CountFacts
            <4>3. Cardinality(NodesOf(G, HeldNow, a.name)) < desired => ~(changes[a.name] <= 0)
                BY <4>1, <4>2 DEF Counted
            <4> QED  BY <4>1, <4>3 DEF Ordered
        <3>4. Cardinality(lost) <= IF surplus > 0 THEN surplus ELSE 0
            BY <1>3, CloseBook
        <3> QED  BY <3>1, <3>2, <3>3, <3>4
    <2>2. before = {n \in G : GetAssignment(listed[n]) = a.name}
            /\ Count(spec, a.name) = Cardinality(NodesOf(G, HeldNow, a.name))
        BY <1>4
    <2>3. lost = {n \in before : GetAssignment(nodes[n]) # a.name}
        BY <1>2 DEF NodesOf
    <2> HIDE DEF a, lost, before, G, spec
    <2> QED  BY <1>2, <2>1, <2>2, <2>3 DEF a, lost
<1>6. LabelsSatisfied(spec)
    <2>1. \A n \in Node \ G : nodes[n] = None \/ ~IsAssigned(nodes[n])
        BY <1>1 DEF RunInv, RestInv, IsAssigned, GetAssignment
    <2>2. \A n \in G : IF IsAssigned(nodes[n])
                         THEN GetAssignment(nodes[n]) \in KnownAssignments(spec)
                         ELSE ~HasDefault(spec)
        <3>1. \A n \in G : /\ HeldNow[n] \in KnownAssignments(spec) \cup {None}
                           /\ HeldNow[n] = None => ~HasDefault(spec)
            <4> HIDE DEF G, spec
            <4> QED  BY <1>3 DEF Book
        <3> HIDE DEF G, spec
        <3> QED  BY <1>2, <3>1 DEF IsAssigned
    <2> HIDE DEF G, spec
    <2> QED  BY <1>2, <1>5, <2>1, <2>2 DEF LabelsSatisfied, IsAssigned
<1>7. Orderly(spec)
    <2> HIDE DEF G, spec
    <2> QED  BY <1>2, <1>5 DEF Orderly
<1>8. Sparing(spec)
    <2> HIDE DEF G, spec
    <2> QED  BY <1>2, <1>5 DEF Sparing
<1> QED  BY <1>6, <1>7, <1>8 DEF Outcome

LEMMA EndReconcileLabel == TypeInv /\ CurrentInv /\ LabelInv /\ EndReconcile => LabelInv'
<1> SUFFICES ASSUME TypeInv, CurrentInv, LabelInv, EndReconcile, clean', ~failed'
             PROVE  RunInv' /\ DoneInv'
    BY DEF LabelInv, Undisturbed
<1>1. /\ pc = "cleanup" /\ todo = {} /\ pc' = "done"
      /\ UNCHANGED <<nodes, nag, listed, clean, failed>>
    BY DEF EndReconcile, EndRun, apiVars
<1>2. Outcome(wcNag.spec)
    BY <1>1, ClosedBook DEF LabelInv, Undisturbed
<1>3. DoneInv'
    <2> SUFFICES ASSUME NEW CONSTANT spec \in Specs, nag' # None, nag'.spec = spec
                 PROVE  Outcome(spec)'
        BY DEF DoneInv
    <2>1. nag.spec = wcNag.spec /\ nag.spec = spec
        BY <1>1 DEF CurrentInv
    <2>2. Outcome(spec)
        BY <1>2, <2>1
    <2>3. LabelsKept
        BY <1>1 DEF LabelsKept
    <2> QED  BY <1>1, <2>2, <2>3, OutcomeKept
<1> QED  BY <1>1, <1>3 DEF RunInv, ListedInv, CopyInv, RestInv, BookInv, CleaningInv

-----------------------------------------------------------------------------
(* All steps. *)

\* The steps that add and remove the finalizer, or release the group: when
\* such a run ends without an error the group is not live.
LEMMA FinalizerLabel ==
    ASSUME TypeInv, CurrentInv,
           Start \/ AddGet \/ AddRetry \/ AddFails \/ AddUpdate
             \/ RemoveGet \/ RemoveRetry \/ RemoveFails \/ RemoveUpdate
             \/ UnassignList \/ UnassignNode \/ EndUnassign
    PROVE  LabelInv'
<1>1. CASE Start \/ AddUpdate
    <2>1. clean' = FALSE
        BY <1>1 DEF Start, AddUpdate
    <2> QED  BY <2>1, Unclaimed
<1>2. CASE AddGet \/ RemoveGet \/ UnassignList \/ UnassignNode \/ EndUnassign
    <2>1. pc' \in {"addUpdate", "removeUpdate", "unassignAll", "removeGet"}
        BY <1>2 DEF AddGet, RemoveGet, UnassignList, UnassignNode, EndUnassign, GetNag, Goto
    <2> QED  BY <2>1, Unclaimed
<1>3. CASE AddRetry \/ AddFails
    <2>1. pc' = "addGet" \/ (pc' = "done" /\ err' = TRUE)
        BY <1>3 DEF AddRetry, AddFails, RetryUpdate, UpdateFails, EndRun, Goto
    <2> QED  BY <2>1, Unclaimed
<1>4. CASE RemoveRetry \/ RemoveFails
    <2>1. /\ pc = "removeUpdate" /\ nag' = nag /\ clean' = clean
          /\ pc' = "removeGet" \/ pc' = "done"
        BY <1>4 DEF RemoveRetry, RemoveFails, RetryUpdate, UpdateFails, EndRun, Goto, apiVars
    <2>2. clean /\ nag # None => nag.deleting
        BY <2>1 DEF CurrentInv
    <2>3. CASE clean
        BY <2>1, <2>2, <2>3, Unclaimed
    <2>4. CASE ~clean
        BY <2>1, <2>4, Unclaimed
    <2> QED  BY <2>3, <2>4
<1>5. CASE RemoveUpdate
    <2> DEFINE obj == [copy EXCEPT !.finalizers = 0]
    <2>1. /\ pc = "removeUpdate" /\ pc' = "done" /\ copy # None /\ clean' = clean
          /\ nag' = nag \/ Store(AfterFinalizers(obj))
        BY <1>5 DEF RemoveUpdate, Answered, EndRun
    <2>2. CASE ~clean
        BY <2>1, <2>2, Unclaimed
    <2>3. CASE clean
        <3>1. copy.deleting /\ copy \in NagObject /\ (nag # None => nag.deleting)
            BY <2>1, <2>3 DEF CurrentInv, TypeInv, TypeOK, Nags
        <3>2. obj.deleting /\ obj \in NagObject
            BY <3>1, NagEditType DEF NagObject
        <3> HIDE DEF obj
        <3>3. nag' # None => nag'.deleting
            <4>1. CASE nag' = nag
                BY <3>1, <4>1
            <4>2. CASE Store(AfterFinalizers(obj))
                BY <3>2, <4>2 DEF Store, AfterFinalizers, NagObject
            <4> QED  BY <2>1, <4>1, <4>2
        <3> QED  BY <2>1, <3>3, Unclaimed
    <2> QED  BY <2>2, <2>3
<1> QED  BY <1>1, <1>2, <1>3, <1>4, <1>5

LEMMA RunLabel ==
    AllDistinct /\ TypeInv /\ CurrentInv /\ LabelInv /\ (Start \/ ReconcileNag) => LabelInv'
    BY FinalizerLabel, ListNodesLabel, UntargetedLabel, DecideLabel, KeepNodeLabel,
        ReleaseNodeLabel, AssignNodeLabel, ApplyDefaultLabel, EndAssigningLabel,
        CleanupGetLabel, CleanupPatchLabel, EndReconcileLabel DEF ReconcileNag

\* Steps that end the claim: a crash, and what others write.
LEMMA OthersLabel ==
    ASSUME TypeInv, CurrentInv, LabelInv,
           DeliverNag \/ Crash \/ NagEdit \/ NodeEdit \/ UNCHANGED vars
    PROVE  CurrentInv' /\ LabelInv'
<1>1. CASE DeliverNag \/ UNCHANGED vars
    <2>1. UNCHANGED <<nodes, nag, pc, loopVars, err, listed, clean, failed>>
        BY <1>1 DEF DeliverNag, vars, apiVars
    <2>2. UNCHANGED <<pc, wcNag, copy>>
        BY <2>1 DEF loopVars
    <2>3. LabelsKept
        BY <2>1 DEF LabelsKept
    <2> QED  BY <2>1, <2>2, <2>3, QuietLabels, OtherCurrent
<1>2. CASE Crash \/ NagEdit \/ NodeEdit
    <2>1. clean' = FALSE
        BY <1>2 DEF Crash, NagEdit, CreateNag, UpdateNag, DeleteNag, OtherFinalizer, EditNag, NodeEdit,
            AddNode, DeleteNode, RelabelNode, ProtectNode, ForeignTaint, EditNode, Edit
    <2>2. pc' = "done" \/ UNCHANGED <<pc, wcNag, copy>>
        BY <1>2 DEF Crash, EndRun, NagEdit, CreateNag, UpdateNag, DeleteNag, OtherFinalizer, EditNag,
            NodeEdit, AddNode, DeleteNode, RelabelNode, ProtectNode, ForeignTaint,
            EditNode, Edit, loopVars
    <2>3. CurrentInv'
        BY <2>1, <2>2 DEF CurrentInv
    <2> QED  BY <2>1, <2>3, Unclaimed
<1> QED  BY <1>1, <1>2

LEMMA NextLabel ==
    AllDistinct /\ TypeInv /\ CurrentInv /\ LabelInv /\ [Next]_vars => CurrentInv' /\ LabelInv'
    BY CurrentStep, RunLabel, OthersLabel DEF Next

LEMMA InitLabel == Init => CurrentInv /\ LabelInv
    BY DEF Init, CurrentInv, LabelInv, Undisturbed

-----------------------------------------------------------------------------
(* An undisturbed run of a live group returns no error. *)

NoErrInv ==
    Undisturbed =>
        /\ pc = "addUpdate" => copy = nag
        /\ pc = "done" /\ nag # None /\ ~nag.deleting => ~err

LEMMA RunErr ==
    ASSUME TypeInv, LabelInv, NoErrInv, ReconcileNag, clean', ~failed'
    PROVE  NoErrInv'
<1>1. CASE AddGet
    <2>1. pc' = "addUpdate" /\ nag' = nag /\ (copy' = nag \/ failed')
        BY <1>1 DEF AddGet, GetNag, Goto, Fail, apiVars
    <2> QED  BY <2>1 DEF NoErrInv
<1>2. CASE AddRetry \/ AddFails
    <2>0. pc = "addUpdate" /\ nag' = nag /\ clean' = clean /\ (failed' = failed \/ failed' = TRUE)
        BY <1>2 DEF AddRetry, AddFails, RetryUpdate, UpdateFails, Fail, NoFault, apiVars
    <2>1. pc = "addUpdate" /\ nag' = nag /\ clean /\ ~failed
        BY <2>0
    <2>2. copy = nag
        BY <2>1 DEF NoErrInv, Undisturbed
    <2>3. ~Conflict
        BY <2>2 DEF Conflict
    <2>4. AddFails
        BY <1>2, <2>3 DEF AddRetry, RetryUpdate
    <2>5. pc' = "done" /\ (copy = None \/ nag = None \/ AddForbidden)
        BY <2>4 DEF AddFails, UpdateFails, EndRun, Fail
    <2>6. nag' # None => nag'.deleting
        BY <2>1, <2>2, <2>5 DEF AddForbidden
    <2> QED  BY <2>5, <2>6 DEF NoErrInv
<1>3. CASE ApplyDefault
    <2> DEFINE a == wcNag.spec.defaultAssignment
    <2>1. PICK n \in todo :
            /\ pc \in {"reconcile", "default"} /\ clean' = clean
            /\ \/ pc' = "reconcile" /\ (NoFault \/ PatchNode(n, mem[n], Assign(mem[n], a)))
               \/ PatchFails(n, mem[n], Assign(mem[n], a))
        BY <1>3 DEF ApplyDefault, Goto
    <2> HIDE DEF a
    <2>2. CASE pc' = "reconcile"
        BY <2>2 DEF NoErrInv
    <2>3. CASE PatchFails(n, mem[n], Assign(mem[n], a))
        <3>1. nodes[n] = None /\ ~failed
            BY <2>3 DEF PatchFails, NoFault, Fail
        <3>2. RunInv
            BY <2>1, <3>1 DEF LabelInv, Undisturbed
        <3>3. nodes[n] # None
            BY <2>1, <3>2 DEF RunInv, CopyInv
        <3> QED  BY <3>1, <3>3
    <2> QED  BY <2>1, <2>2, <2>3
<1>4. CASE AddUpdate
    BY <1>4 DEF AddUpdate
<1>5. CASE RemoveRetry \/ RemoveFails \/ RemoveUpdate \/ EndReconcile
    <2>1. (pc' = "done" /\ err' = FALSE) \/ pc' = "removeGet"
        BY <1>5 DEF RemoveRetry, RemoveFails, RemoveUpdate, Answered, EndReconcile, RetryUpdate,
            UpdateFails, EndRun, Goto
    <2> QED  BY <2>1 DEF NoErrInv
<1>6. CASE \/ ListNodes \/ UnassignUntargeted \/ Decide \/ KeepNode \/ ReleaseNode \/ AssignNode
           \/ EndAssigning \/ CleanupGet \/ CleanupPatch \/ UnassignList \/ UnassignNode
           \/ EndUnassign \/ RemoveGet
    <2>1. pc' \notin {"done", "addUpdate"}
        BY <1>6 DEF ListNodes, UnassignUntargeted, Decide, KeepNode, ReleaseNode, AssignNode,
            EndAssigning, CleanupGet, CleanupPatch, UnassignList, UnassignNode, EndUnassign,
            RemoveGet, GetNag, Goto
    <2> QED  BY <2>1 DEF NoErrInv
<1> QED  BY <1>1, <1>2, <1>3, <1>4, <1>5, <1>6 DEF ReconcileNag

LEMMA NextErr == TypeInv /\ LabelInv /\ NoErrInv /\ [Next]_vars => NoErrInv'
<1> SUFFICES ASSUME TypeInv, LabelInv, NoErrInv, [Next]_vars, clean', ~failed' PROVE NoErrInv'
    BY DEF NoErrInv, Undisturbed
<1>1. CASE Start \/ Crash \/ NagEdit \/ NodeEdit
    BY <1>1, UncleanStep DEF Start, Crash, NagEdit, CreateNag, UpdateNag, DeleteNag, OtherFinalizer,
        EditNag, NodeEdit, AddNode, DeleteNode, RelabelNode, ProtectNode, ForeignTaint,
        EditNode, Edit
<1>2. CASE DeliverNag \/ UNCHANGED vars
    BY <1>2 DEF DeliverNag, vars, apiVars, loopVars, NoErrInv, Undisturbed
<1> QED  BY <1>1, <1>2, RunErr DEF Next

LEMMA InitErr == Init => NoErrInv
    BY DEF Init, NoErrInv, Undisturbed

-----------------------------------------------------------------------------
(* The taints. *)

Untainted(n) == nodes[n] = None \/ IsAssigned(nodes[n]) \/ GroupTaints(nodes[n]) = {}

\* The node is going to be unassigned.
ToClean(n) ==
    \/ pc \in {"sets", "unassignAll"} /\ n \in todo
    \/ pc = "cleanupPatch" /\ n = at

\* The copy of a node that is going to be unassigned shows whether there is
\* a taint to remove.
MemTaintInv ==
    \A n \in Node :
        ToClean(n) /\ nodes[n] # None /\ GroupTaints(mem[n]) = {} => GroupTaints(nodes[n]) = {}

TaintInv == (\A n \in Node : Untainted(n)) /\ MemTaintInv

\* A step that adds no taint of the group and gives no other copy to clean.
LEMMA KeepsMemTaint ==
    ASSUME MemTaintInv, \A n \in Node : Cleaner(n),
           pc' \notin {"sets", "unassignAll", "cleanupPatch"}
             \/ (UNCHANGED <<pc, mem, at>> /\ todo' \subseteq todo)
    PROVE  MemTaintInv'
<1>1. CASE pc' \notin {"sets", "unassignAll", "cleanupPatch"}
    BY <1>1 DEF MemTaintInv, ToClean
<1>2. CASE UNCHANGED <<pc, mem, at>> /\ todo' \subseteq todo
    <2>1. \A n \in Node : nodes'[n] # None =>
            IF nodes[n] = None THEN GroupTaints(nodes'[n]) = {}
            ELSE GroupTaints(nodes[n]) = {} => GroupTaints(nodes'[n]) = {}
        BY DEF Cleaner, HasTraces
    <2> QED  BY <1>2, <2>1 DEF MemTaintInv, ToClean
<1> QED  BY <1>1, <1>2

LEMMA KeepsUntainted ==
    ASSUME \A n \in Node : Untainted(n), \A n \in Node : Cleaner(n) /\ SameAssign(n)
    PROVE  \A n \in Node : Untainted(n)'
    BY DEF Untainted, Cleaner, SameAssign, HasTraces, IsAssigned, GetAssignment

\* What UpdateNodeAssignment does when it takes the group off a node: the
\* label and the taints go together.
LEMMA UnassignUntaints ==
    ASSUME TypeInv, NEW n \in Node, mem[n] \in NodeObject,
           nodes[n] # None /\ GroupTaints(mem[n]) = {} => GroupTaints(nodes[n]) = {},
           \A m \in Node : Untainted(m),
           \/ PatchNode(n, mem[n], Unassign(mem[n]))
           \/ PatchFails(n, mem[n], Unassign(mem[n]))
    PROVE  \A m \in Node : Untainted(m)'
<1> DEFINE old == mem[n]
           new == Unassign(mem[n])
           patched == Patch(nodes[n], old, new)
<1>1. nodes' = nodes \/ (nodes[n] # None /\ nodes' = [nodes EXCEPT ![n] = patched])
    BY DEF PatchNode, PatchFails
<1>2. new \in NodeObject /\ GroupTaints(new) = {}
    BY UnassignFacts DEF HasTraces
<1>3. ASSUME nodes[n] # None
      PROVE  GroupTaints(patched) = {}
    <2> HIDE DEF new
    <2>1. nodes[n] \in NodeObject
        BY <1>3 DEF TypeInv, TypeOK, NodeMap
    <2>2. patched.taints = IF new.taints = old.taints THEN nodes[n].taints ELSE new.taints
        BY <2>1 DEF Patch, NodeObject
    <2>3. new.taints = old.taints => GroupTaints(nodes[n]) = {}
        BY <1>2, <1>3 DEF GroupTaints
    <2> QED  BY <1>2, <2>2, <2>3 DEF GroupTaints
<1> HIDE DEF patched
<1>4. ASSUME NEW m \in Node PROVE nodes'[m] = nodes[m] \/ GroupTaints(nodes'[m]) = {}
    BY <1>1, <1>3 DEF TypeInv, TypeOK, NodeMap
<1> QED  BY <1>4 DEF Untainted

LEMMA AssignUntaints ==
    ASSUME TypeInv, NEW n \in Node, mem[n] \in NodeObject, ~IsAssigned(mem[n]),
           NEW a \in AssignmentObject,
           \A m \in Node : Untainted(m),
           \/ PatchNode(n, mem[n], Assign(mem[n], a))
           \/ PatchFails(n, mem[n], Assign(mem[n], a))
    PROVE  \A m \in Node : Untainted(m)'
<1> DEFINE old == mem[n]
           new == Assign(mem[n], a)
           patched == Patch(nodes[n], old, new)
<1>1. nodes' = nodes \/ (nodes[n] # None /\ nodes' = [nodes EXCEPT ![n] = patched])
    BY DEF PatchNode, PatchFails
<1>2. new.assign = a.name /\ a.name # None /\ old.assign = None
    BY AssignKeeps DEF IsAssigned, GetAssignment
<1>3. ASSUME nodes[n] # None
      PROVE  patched.assign # None
    <2> HIDE DEF new
    <2>1. nodes[n] \in NodeObject
        BY <1>3 DEF TypeInv, TypeOK, NodeMap
    <2>2. patched.assign = IF new.assign = old.assign THEN nodes[n].assign ELSE new.assign
        BY <2>1 DEF Patch, NodeObject
    <2> QED  BY <1>2, <2>2
<1> HIDE DEF patched
<1>4. ASSUME NEW m \in Node PROVE nodes'[m] = nodes[m] \/ nodes'[m].assign # None
    BY <1>1, <1>3 DEF TypeInv, TypeOK, NodeMap
<1> QED  BY <1>4 DEF Untainted, IsAssigned, GetAssignment

LEMMA UnassignTaint ==
    TypeInv /\ TaintInv /\ (UnassignUntargeted \/ CleanupPatch \/ UnassignNode) => TaintInv'
<1> SUFFICES ASSUME TypeInv, TaintInv, UnassignUntargeted \/ CleanupPatch \/ UnassignNode
             PROVE  TaintInv'
    OBVIOUS
<1>1. \E n \in Node :
        /\ mem[n] # None
        /\ ToClean(n)
        /\ \/ PatchNode(n, mem[n], Unassign(mem[n]))
           \/ PatchFails(n, mem[n], Unassign(mem[n]))
    <2>1. CASE UnassignUntargeted
        BY <2>1 DEF UnassignUntargeted, TypeInv, TypeOK, MemInv, ToClean
    <2>2. CASE CleanupPatch
        BY <2>2 DEF CleanupPatch, TypeInv, MemInv, ToClean
    <2>3. CASE UnassignNode
        BY <2>3 DEF UnassignNode, TypeInv, TypeOK, MemInv, ToClean
    <2> QED  BY <2>1, <2>2, <2>3
<1>2. PICK n \in Node :
        /\ mem[n] # None
        /\ ToClean(n)
        /\ \/ PatchNode(n, mem[n], Unassign(mem[n]))
           \/ PatchFails(n, mem[n], Unassign(mem[n]))
    BY <1>1
<1>3. mem[n] \in NodeObject
    BY <1>2 DEF TypeInv, TypeOK, NodeMap
<1>4. nodes[n] # None /\ GroupTaints(mem[n]) = {} => GroupTaints(nodes[n]) = {}
    BY <1>2 DEF TaintInv, MemTaintInv, ToClean
<1>5. \A m \in Node : Untainted(m)'
    BY <1>2, <1>3, <1>4, UnassignUntaints DEF TaintInv
<1>6. \A m \in Node : Cleaner(m)
    BY <1>2, <1>3, UnassignCleaner
<1>7. pc' = "cleanup" \/ (UNCHANGED <<pc, mem, at>> /\ todo' \subseteq todo)
    BY DEF UnassignUntargeted, CleanupPatch, UnassignNode, Goto
<1> QED  BY <1>5, <1>6, <1>7, KeepsMemTaint DEF TaintInv

LEMMA AssignTaint == TypeInv /\ TaintInv /\ (AssignNode \/ ApplyDefault) => TaintInv'
<1> SUFFICES ASSUME TypeInv, TaintInv, AssignNode \/ ApplyDefault PROVE TaintInv'
    OBVIOUS
<1>1. pc' \in {"reconcile", "default", "done"} /\ pc \in {"reconcile", "default"}
    BY DEF AssignNode, ApplyDefault, Goto, EndRun
<1>2. wcNag.spec \in NagSpec /\ changes \in [AName -> Int]
    BY <1>1, SpecsAssumption DEF TypeInv, TypeOK, Nags, NagObject
<1>3. \/ nodes' = nodes
      \/ \E n \in todo, a \in AssignmentObject :
            /\ ~IsAssigned(mem[n])
            /\ \/ PatchNode(n, mem[n], Assign(mem[n], a))
               \/ PatchFails(n, mem[n], Assign(mem[n], a))
    <2>1. CASE AssignNode
        <3> DEFINE a == FirstNeeding(wcNag.spec, changes)
        <3>1. a # None => a \in AssignmentObject
            BY <1>2, FirstNeedingType
        <3>2. \E n \in todo :
                /\ a # None /\ ~IsAssigned(mem[n])
                /\ \/ PatchNode(n, mem[n], Assign(mem[n], a))
                   \/ PatchFails(n, mem[n], Assign(mem[n], a))
            BY <2>1 DEF AssignNode
        <3> QED  BY <3>1, <3>2
    <2>2. CASE ApplyDefault
        <3> DEFINE a == wcNag.spec.defaultAssignment
        <3>1. a # None => a \in AssignmentObject
            BY <1>2 DEF NagSpec
        <3>2. nodes' = nodes \/ \E n \in todo :
                /\ a # None /\ ~IsAssigned(mem[n])
                /\ \/ PatchNode(n, mem[n], Assign(mem[n], a))
                   \/ PatchFails(n, mem[n], Assign(mem[n], a))
            BY <2>2 DEF ApplyDefault
        <3> QED  BY <3>1, <3>2
    <2> QED  BY <2>1, <2>2
<1>4. \A m \in Node : Untainted(m)'
    <2>1. CASE nodes' = nodes
        BY <2>1 DEF TaintInv, Untainted
    <2>2. CASE nodes' # nodes
        <3>1. PICK n \in todo, a \in AssignmentObject :
                /\ ~IsAssigned(mem[n])
                /\ \/ PatchNode(n, mem[n], Assign(mem[n], a))
                   \/ PatchFails(n, mem[n], Assign(mem[n], a))
            BY <1>3, <2>2
        <3>2. n \in Node /\ mem[n] \in NodeObject
            BY <1>1 DEF TypeInv, TypeOK, MemInv, NodeMap
        <3> QED  BY <3>1, <3>2, AssignUntaints DEF TaintInv
    <2> QED  BY <2>1, <2>2
<1>5. MemTaintInv'
    BY <1>1 DEF MemTaintInv, ToClean
<1> QED  BY <1>4, <1>5 DEF TaintInv

\* Steps that leave the nodes alone.
LEMMA SameNodesTaint ==
    ASSUME TypeInv, TaintInv, nodes' = nodes,
           \/ pc' \notin {"sets", "unassignAll", "cleanupPatch"}
           \/ UNCHANGED <<pc, mem, at>> /\ todo' \subseteq todo
           \/ \A n \in Node : ToClean(n)' /\ nodes[n] # None => mem'[n] = nodes[n]
    PROVE  TaintInv'
<1>1. \A n \in Node : Untainted(n)'
    BY DEF TaintInv, Untainted
<1>2. MemTaintInv'
    BY KeepsMemTaint, SameNodes DEF TaintInv, MemTaintInv, ToClean
<1> QED  BY <1>1, <1>2 DEF TaintInv

LEMMA NextTaint == TypeInv /\ TaintInv /\ [Next]_vars => TaintInv'
<1> SUFFICES ASSUME TypeInv, TaintInv, [Next]_vars PROVE TaintInv'
    OBVIOUS
<1>1. CASE ListNodes
    <2>1. /\ nodes' = nodes /\ pc' = "sets"
          /\ \A n \in Node : nodes[n] # None /\ n \in todo' => mem'[n] = nodes[n]
        BY <1>1 DEF ListNodes, Goto, apiVars
    <2> QED  BY <2>1, SameNodesTaint DEF ToClean
<1>2. CASE CleanupGet
    <2>1. /\ nodes' = nodes
          /\ pc' = "cleanup" \/ (pc' = "cleanupPatch" /\ at' \in Node /\ mem' = [mem EXCEPT ![at'] = nodes[at']])
        BY <1>2 DEF CleanupGet, Goto, apiVars, TypeInv, TypeOK
    <2>2. pc' = "cleanupPatch" => mem'[at'] = nodes[at']
        BY <2>1 DEF TypeInv, TypeOK, NodeMap
    <2> QED  BY <2>1, <2>2, SameNodesTaint DEF ToClean
<1>3. CASE UnassignList
    <2>1. nodes' = nodes /\ (mem' = nodes \/ pc' = "removeGet")
        BY <1>3 DEF UnassignList, Goto, apiVars
    <2> QED  BY <2>1, SameNodesTaint DEF ToClean
<1>4. CASE NodeEdit
    <2>1. \A n \in Node : Cleaner(n) /\ SameAssign(n)
        BY <1>4, NodeEditCleaner
    <2>2. UNCHANGED <<pc, mem, at, todo>>
        BY <1>4 DEF NodeEdit, AddNode, DeleteNode, RelabelNode, ProtectNode, ForeignTaint,
            EditNode, Edit, loopVars
    <2> QED  BY <2>1, <2>2, KeepsUntainted, KeepsMemTaint DEF TaintInv
<1>5. CASE \/ Start \/ Decide \/ AddGet \/ AddRetry \/ AddFails \/ AddUpdate \/ KeepNode \/ ReleaseNode
           \/ EndAssigning \/ EndReconcile \/ EndUnassign \/ RemoveGet \/ RemoveRetry \/ RemoveFails
           \/ RemoveUpdate \/ Crash
    <2>1. nodes' = nodes /\ pc' \notin {"sets", "unassignAll", "cleanupPatch"}
        BY <1>5 DEF Start, Decide, AddGet, AddRetry, AddFails, AddUpdate, KeepNode, ReleaseNode,
            EndAssigning, EndReconcile, EndUnassign, RemoveGet, RemoveRetry, RemoveFails, RemoveUpdate,
            Crash, Answered, GetNag, RetryUpdate, UpdateFails, EndRun, Goto, apiVars
    <2> QED  BY <2>1, SameNodesTaint
<1>6. CASE DeliverNag \/ NagEdit \/ UNCHANGED vars
    <2>1. UNCHANGED <<nodes, pc, mem, at, todo>>
        BY <1>6 DEF DeliverNag, NagEdit, CreateNag, UpdateNag, DeleteNag, OtherFinalizer, EditNag, Edit,
            vars, apiVars, loopVars
    <2> QED  BY <2>1, SameNodesTaint
<1> QED
    BY <1>1, <1>2, <1>3, <1>4, <1>5, <1>6, UnassignTaint, AssignTaint DEF Next, ReconcileNag

LEMMA InitTaint == Init => TaintInv
<1> SUFFICES ASSUME Init PROVE TaintInv
    OBVIOUS
<1>1. \A ls \in SUBSET Label : GroupTaints(Fresh(ls)) = {}
    BY DEF Fresh, GroupTaints
<1>2. \A n \in Node : nodes[n] = None \/ \E ls \in SUBSET Label : nodes[n] = Fresh(ls)
    BY DEF Init
<1>3. \A n \in Node : Untainted(n)
    BY <1>1, <1>2 DEF Untainted
<1>4. MemTaintInv
    BY DEF Init, MemTaintInv, ToClean
<1> QED  BY <1>3, <1>4 DEF TaintInv

-----------------------------------------------------------------------------
(* The theorems. *)

AllInv == TypeInv /\ CurrentInv /\ LabelInv /\ NoErrInv /\ TaintInv

LEMMA InitAll == Init => AllInv
    BY InitType, InitLabel, InitErr, InitTaint DEF AllInv

LEMMA NextAll == AllDistinct /\ AllInv /\ [Next]_vars => AllInv'
    BY NextType, NextLabel, NextErr, NextTaint DEF AllInv

\* What the invariant says of a group that has just been reconciled.
LEMMA ReconciledOutcome ==
    ASSUME AllInv, Reconciled
    PROVE  Outcome(nag.spec) /\ TaintsSatisfied
<1>1. pc = "done" /\ Undisturbed /\ nag # None /\ ~nag.deleting
    BY DEF Reconciled, Undisturbed
<1>2. ~err
    BY <1>1 DEF AllInv, NoErrInv
<1>3. nag.spec \in Specs
    BY <1>1 DEF AllInv, TypeInv, TypeOK, Nags, NagObject
<1>4. Outcome(nag.spec)
    BY <1>1, <1>2, <1>3 DEF AllInv, LabelInv, DoneInv
<1> QED  BY <1>4 DEF AllInv, TaintInv, Untainted, TaintsSatisfied

\* One undisturbed run of Reconcile is enough to satisfy the group, whatever
\* earlier runs, crashes, failures and edits have left of the nodes: the loop
\* ends with every assignment at the number updateAssignmentChanges desires,
\* or with no node left to give to it.
THEOREM OneRunSatisfiesGroup == AllDistinct => (Spec => []RunSatisfiesGroup)
<1>1. AllInv => RunSatisfiesGroup
    BY ReconciledOutcome DEF RunSatisfiesGroup, Satisfied, Outcome
<1> SUFFICES ASSUME AllDistinct PROVE Spec => []RunSatisfiesGroup
    OBVIOUS
<1>2. AllInv /\ [Next]_vars => AllInv'
    BY NextAll
<1> QED  BY <1>1, <1>2, InitAll, PTL DEF Spec

\* As long as an assignment misses nodes the run gives none to a later one
\* (assignNode takes the first of the list with a positive change).
THEOREM NodesGoInOrder == AllDistinct => (Spec => []PriorityRespected)
<1>1. AllInv => PriorityRespected
    <2> SUFFICES ASSUME AllInv, Reconciled PROVE Orderly(nag.spec)
        BY DEF PriorityRespected, Orderly
    <2> QED  BY ReconciledOutcome DEF Outcome
<1> SUFFICES ASSUME AllDistinct PROVE Spec => []PriorityRespected
    OBVIOUS
<1>2. AllInv /\ [Next]_vars => AllInv'
    BY NextAll
<1> QED  BY <1>1, <1>2, InitAll, PTL DEF Spec

\* A run takes no more nodes from an assignment than it has too many of
\* (Reconcile unassigns while the change is negative), and gives it none of
\* them back to another.
THEOREM OnlySurplusIsMoved == AllDistinct => (Spec => []OnlySurplusMoves)
<1>1. AllInv => OnlySurplusMoves
    <2> SUFFICES ASSUME AllInv, Reconciled PROVE Sparing(nag.spec)
        BY DEF OnlySurplusMoves, Sparing
    <2> QED  BY ReconciledOutcome DEF Outcome
<1> SUFFICES ASSUME AllDistinct PROVE Spec => []OnlySurplusMoves
    OBVIOUS
<1>2. AllInv /\ [Next]_vars => AllInv'
    BY NextAll
<1> QED  BY <1>1, <1>2, InitAll, PTL DEF Spec
=============================================================================
