------------------------ MODULE NodeAssignmentProofs ------------------------
(***************************************************************************)
(* TLAPS proofs about NodeAssignment: type correctness, and the guarantee  *)
(* of the finalizer, for every cluster, every set of groups and every      *)
(* bound.                                                                  *)
(***************************************************************************)
EXTENDS NodeAssignment, FiniteSetTheorems, SequenceTheorems, WellFoundedInduction, TLAPS

-----------------------------------------------------------------------------
(* The operators of Assignments. *)

\* Every nonempty set of naturals has a least element.
LEMMA HasLeast ==
    ASSUME NEW S \in SUBSET Nat, S # {}
    PROVE  \E i \in S : \A j \in S : i <= j
<1> DEFINE R == OpToRel(<, Nat)
<1>1. IsWellFoundedOn(R, Nat)
    BY NatLessThanWellFounded
<1>2. PICK x \in S : \A y \in S : ~(<<y, x>> \in R)
    BY <1>1, WFMin
<1>3. \A y \in S : y < x => <<y, x>> \in R
    BY DEF OpToRel
<1>4. \A y \in S : ~(y < x)
    <2> HIDE DEF R
    <2> QED  BY <1>2, <1>3
<1>5. \A y \in S : x <= y
    BY ONLY <1>4, S \in SUBSET Nat, x \in S
<1> QED  BY <1>5

\* ... and every nonempty bounded one a greatest.
LEMMA HasGreatest ==
    ASSUME NEW m \in Nat, NEW S \in SUBSET (1..m), S # {}
    PROVE  \E i \in S : \A j \in S : j <= i
<1> DEFINE T == {m - i : i \in S}
<1>1. T \in SUBSET Nat /\ T # {}
    <2>1. \A i \in S : m - i \in Nat
        OBVIOUS
    <2>2. PICK i \in S : TRUE
        OBVIOUS
    <2> QED  BY <2>1, <2>2
<1>2. PICK t \in T : \A u \in T : t <= u
    BY <1>1, HasLeast
<1>3. PICK i \in S : t = m - i
    BY <1>2
<1>4. \A j \in S : m - i <= m - j
    BY <1>2, <1>3
<1>5. \A j \in S : j <= i
    BY <1>4
<1> QED  BY <1>5

\* Unassign leaves nothing of the group on the node.
LEMMA UnassignFacts ==
    ASSUME NEW node \in NodeObject
    PROVE  /\ Unassign(node) \in NodeObject
           /\ Unassign(node).assign = None
           /\ Unassign(node).taints = {t \in node.taints : t.key \notin {"nag", "packleft"}}
           /\ ~HasTraces(Unassign(node))
    BY DEF NodeObject, Unassign, RemoveTaint, RemoveLabel, HasTraces, IsAssigned, GetAssignment,
        GroupTaints

LEMMA AssignType ==
    ASSUME NEW node \in NodeObject, NEW a \in AssignmentObject
    PROVE  Assign(node, a) \in NodeObject
<1>1. [key |-> "nag", value |-> a.name, effect |-> TaintEffect(a)] \in Taint
    BY DEF Taint, AssignmentObject, TaintEffect, Effect
<1>2. SetLabel(node, a) \in NodeObject
    BY DEF SetLabel, NodeObject, AssignmentObject
<1>3. SetTaint(SetLabel(node, a), a) \in NodeObject
    BY <1>1, <1>2 DEF SetTaint, NodeObject
<1> QED  BY <1>2, <1>3 DEF Assign

LEMMA PatchType ==
    ASSUME NEW live \in NodeObject, NEW old \in NodeObject, NEW new \in NodeObject
    PROVE  Patch(live, old, new) \in NodeObject
    BY DEF Patch, NodeObject

\* The assignment that is chosen next is one of the spec.
LEMMA FirstNeedingType ==
    ASSUME NEW spec \in NagSpec, NEW f \in [AName -> Int], FirstNeeding(spec, f) # None
    PROVE  FirstNeeding(spec, f) \in AssignmentObject
<1> DEFINE needing == {i \in DOMAIN spec.assignments : f[spec.assignments[i].name] > 0}
<1>1. needing # {}
    BY DEF FirstNeeding
<1>2. spec.assignments \in Seq(AssignmentObject)
    BY DEF NagSpec
<1>3. needing \in SUBSET Nat
    BY <1>2
<1>4. \E i \in needing : \A j \in needing : i <= j
    <2> HIDE DEF needing
    <2> QED  BY <1>1, <1>3, HasLeast
<1>5. (CHOOSE i \in needing : \A j \in needing : i <= j) \in needing
    <2> HIDE DEF needing
    <2> QED  BY <1>4
<1>6. FirstNeeding(spec, f) = spec.assignments[CHOOSE i \in needing : \A j \in needing : i <= j]
    BY <1>1 DEF FirstNeeding
<1>7. \A i \in DOMAIN spec.assignments : spec.assignments[i] \in AssignmentObject
    BY <1>2
<1>8. (CHOOSE i \in needing : \A j \in needing : i <= j) \in DOMAIN spec.assignments
    BY <1>5
<1> HIDE DEF needing
<1> QED  BY <1>6, <1>7, <1>8

LEMMA ProductType ==
    ASSUME NEW x \in Nat, NEW y \in Nat
    PROVE  x * y \in Nat
    OBVIOUS

LEMMA DesiredType ==
    ASSUME NEW a \in AssignmentObject, NEW total \in Nat
    PROVE  Desired(a, total) \in Nat
<1>1. a.percentDesired \in Nat /\ a.numDesired \in Nat
    BY DEF AssignmentObject
<1>2. total * a.percentDesired \in Nat
    BY <1>1, ProductType
<1>3. (total * a.percentDesired) \div 100 \in Nat
    BY <1>2
<1> QED  BY <1>1, <1>3 DEF Desired

LEMMA ChangesType ==
    ASSUME NEW spec \in NagSpec, NEW f, IsFiniteSet(DOMAIN f)
    PROVE  AssignmentChanges(spec, f) \in [AName -> Int]
<1> DEFINE as == spec.assignments
           Missing(i) == Desired(as[i], Cardinality(DOMAIN f)) - CurrentAssignments(spec, f)[as[i].name]
           Entries(name) == {i \in DOMAIN as : as[i].name = name /\ Missing(i) # 0}
           Last(name) == CHOOSE i \in Entries(name) : \A j \in Entries(name) : j <= i
<1>1. /\ Len(as) \in Nat /\ DOMAIN as = 1..Len(as)
      /\ \A i \in DOMAIN as : as[i] \in AssignmentObject /\ as[i].name \in AName
    <2>1. as \in Seq(AssignmentObject)
        BY DEF NagSpec
    <2>2. \A x \in AssignmentObject : x.name \in AName
        BY DEF AssignmentObject
    <2>3. Len(as) \in Nat /\ DOMAIN as = 1..Len(as)
        BY <2>1
    <2>4. \A i \in DOMAIN as : as[i] \in AssignmentObject
        BY <2>1
    <2> HIDE DEF as
    <2> QED  BY <2>2, <2>3, <2>4
<1>2. Cardinality(DOMAIN f) \in Nat
    BY FS_CardinalityType
<1>3. \A name \in AName : CurrentAssignments(spec, f)[name] \in Nat
    <2> SUFFICES ASSUME NEW name \in AName PROVE NumAssigned(f, name) \in Nat
        BY DEF CurrentAssignments
    <2>1. {n \in DOMAIN f : GetAssignment(f[n]) = name} \in SUBSET DOMAIN f
        OBVIOUS
    <2> QED  BY <2>1, FS_Subset, FS_CardinalityType DEF NumAssigned
<1>4. ASSUME NEW i \in DOMAIN as PROVE Missing(i) \in Int
    <2>1. Desired(as[i], Cardinality(DOMAIN f)) \in Nat
        BY <1>1, <1>2, DesiredType
    <2>2. CurrentAssignments(spec, f)[as[i].name] \in Nat
        BY <1>1, <1>3
    <2> QED  BY <2>1, <2>2
<1> HIDE DEF Missing
<1>5. ASSUME NEW name \in AName, Entries(name) # {}
      PROVE  Last(name) \in DOMAIN as
    <2>1. Entries(name) \in SUBSET (1..Len(as))
        BY <1>1
    <2>2. Entries(name) \in SUBSET DOMAIN as
        OBVIOUS
    <2> HIDE DEF Entries
    <2>3. \E i \in Entries(name) : \A j \in Entries(name) : j <= i
        BY <1>1, <1>5, <2>1, HasGreatest
    <2> QED  BY <2>2, <2>3
<1>6. ASSUME NEW name \in AName
      PROVE  (IF Entries(name) = {} THEN 0 ELSE Missing(Last(name))) \in Int
    <2> HIDE DEF Entries, Last
    <2> QED  BY <1>4, <1>5
<1>7. AssignmentChanges(spec, f) =
        [name \in AName |-> IF Entries(name) = {} THEN 0 ELSE Missing(Last(name))]
    BY DEF AssignmentChanges, Missing
<1> HIDE DEF Entries, Last
<1> QED  BY <1>6, <1>7

-----------------------------------------------------------------------------
(* Type correctness. *)

\* The loops over mem only visit nodes that the list had.
MemInv ==
    /\ pc \in {"sets", "reconcile", "default", "unassignAll"} => \A n \in todo : mem[n] # None
    /\ pc = "sets" => \A n \in targeted : mem[n] # None
    /\ pc = "cleanupPatch" => at \in Node /\ mem[at] # None

TypeInv == TypeOK /\ MemInv

LEMMA FaultType ==
    ASSUME faults \in Nat, failed \in BOOLEAN, NEW call, Fail(call) \/ NoFault
    PROVE  faults' \in Nat /\ failed' \in BOOLEAN
<1>1. faults' \in Nat
    BY DEF Fail, NoFault
<1>2. failed' \in BOOLEAN
    BY Zenon DEF Fail, NoFault
<1> QED  BY <1>1, <1>2

LEMMA PatchNodeType ==
    ASSUME nodes \in NodeMap, faults \in Nat, failed \in BOOLEAN, NEW n \in Node,
           NEW old \in NodeObject, NEW new \in NodeObject,
           PatchNode(n, old, new) \/ PatchFails(n, old, new)
    PROVE  nodes' \in NodeMap /\ faults' \in Nat /\ failed' \in BOOLEAN
<1>1. nodes[n] # None => Patch(nodes[n], old, new) \in NodeObject
    BY PatchType DEF NodeMap
<1>2. nodes' \in NodeMap
    <2>1. [nodes EXCEPT ![n] = Patch(nodes[n], old, new)] \in NodeMap \/ nodes[n] = None
        BY <1>1 DEF NodeMap
    <2> QED  BY <2>1 DEF PatchNode, PatchFails
<1>3. faults' \in Nat /\ failed' \in BOOLEAN
    BY FaultType DEF PatchNode, PatchFails
<1> QED  BY <1>2, <1>3

LEMMA StoreType ==
    ASSUME version \in Nat, watch \in Seq(Nags), NEW obj \in Nags, Store(obj)
    PROVE  version' \in Nat /\ nag' \in Nags /\ watch' \in Seq(Nags)
<1>1. nag' \in Nags
    BY DEF Store, Nags, NagObject
<1> QED  BY <1>1 DEF Store

LEMMA NagEditType ==
    ASSUME NEW obj \in NagObject
    PROVE  /\ \A k \in Nat : [obj EXCEPT !.finalizers = k] \in NagObject
           /\ [obj EXCEPT !.finalizers = @ + 1] \in NagObject
           /\ \A b \in BOOLEAN : [obj EXCEPT !.others = b] \in NagObject
           /\ [obj EXCEPT !.deleting = TRUE] \in NagObject
           /\ \A spec \in Specs : [obj EXCEPT !.spec = spec] \in NagObject
           /\ AfterFinalizers(obj) \in Nags
<1>1. /\ \A k \in Nat : [obj EXCEPT !.finalizers = k] \in NagObject
      /\ [obj EXCEPT !.finalizers = @ + 1] \in NagObject
      /\ \A b \in BOOLEAN : [obj EXCEPT !.others = b] \in NagObject
      /\ \A spec \in Specs : [obj EXCEPT !.spec = spec] \in NagObject
    BY DEF NagObject
<1>2. [obj EXCEPT !.deleting = TRUE] \in NagObject
    BY DEF NagObject
<1> QED  BY <1>1, <1>2 DEF AfterFinalizers, Nags

LEMMA InitType == Init => TypeInv
<1> SUFFICES ASSUME Init PROVE TypeInv
    OBVIOUS
<1>1. \A ls \in SUBSET Label : Fresh(ls) \in NodeObject
    BY DEF Fresh, NodeObject
<1>2. nodes \in NodeMap
    BY <1>1 DEF Init, NodeMap
<1>3. /\ mem \in NodeMap /\ listed \in NodeMap /\ changes \in [AName -> Int]
      /\ past \in Seq(Nags) /\ spilled \in SUBSET Node
    BY DEF Init, NodeMap, Gone, Unchanging
<1>4. err \in BOOLEAN /\ clean \in BOOLEAN /\ failed \in BOOLEAN
    BY Zenon DEF Init
<1> QED
    BY <1>2, <1>3, <1>4 DEF Init, TypeInv, TypeOK, MemInv, Nags, Phase

LEMMA EndRunType ==
    ASSUME NEW e \in BOOLEAN, EndRun(e)
    PROVE  /\ pc' \in Phase /\ pc' = "done" /\ wcNag' \in Nags
           /\ mem' \in NodeMap
           /\ todo' \in SUBSET Node /\ targeted' \in SUBSET Node /\ unassigned' \in SUBSET Node
           /\ changes' \in [AName -> Int]
           /\ at' \in Node \cup {None}
           /\ copy' \in Nags
           /\ tries' \in Nat
           /\ err' \in BOOLEAN
    BY DEF EndRun, Gone, Unchanging, NodeMap, Nags, Phase

LEMMA AnsweredType ==
    ASSUME faults \in Nat, failed \in BOOLEAN, NEW e \in BOOLEAN, Answered(e)
    PROVE  /\ \E f \in BOOLEAN : EndRun(f)
           /\ faults' \in Nat /\ failed' \in BOOLEAN
<1>1. \E f \in BOOLEAN : EndRun(f)
    BY DEF Answered
<1>2. faults' \in Nat /\ failed' \in BOOLEAN
    BY FaultType DEF Answered
<1> QED  BY <1>1, <1>2

\* A run that has stored its update ends.
LEMMA AnsweredRunType ==
    ASSUME TypeInv, NEW e \in BOOLEAN, Answered(e),
           nag' \in Nags, version' \in Nat, watch' \in Seq(Nags), clean' \in BOOLEAN,
           UNCHANGED <<nodes, nagIndex, historyVars, listed, edits>>
    PROVE  TypeInv'
<1>1. PICK f \in BOOLEAN : EndRun(f)
    BY AnsweredType DEF TypeInv, TypeOK
<1>2. faults' \in Nat /\ failed' \in BOOLEAN
    BY AnsweredType DEF TypeInv, TypeOK
<1> QED
    BY <1>1, <1>2, EndRunType DEF TypeInv, TypeOK, MemInv, historyVars

LEMMA StartType == TypeInv /\ Start => TypeInv'
    BY DEF TypeInv, TypeOK, MemInv, Start, apiVars, cacheVars, historyVars, Phase

LEMMA ListNodesType == TypeInv /\ ListNodes => TypeInv'
<1> SUFFICES ASSUME TypeInv, ListNodes PROVE TypeInv'
    OBVIOUS
<1>1. \A n \in Node : nodes[n] # None => nodes[n] \in NodeObject /\ Unassign(nodes[n]) \in NodeObject
    BY UnassignFacts DEF TypeInv, TypeOK, NodeMap
<1>2. mem' \in NodeMap /\ \A n \in Node : nodes[n] # None => mem'[n] # None
    BY <1>1, NoneAssumption DEF ListNodes, NodeMap, TypeInv, TypeOK
<1>3. todo' \in SUBSET {n \in Node : nodes[n] # None}
        /\ targeted' \in SUBSET {n \in Node : nodes[n] # None}
        /\ unassigned' \in SUBSET Node
    BY DEF ListNodes
<1>4. UNCHANGED <<apiVars, cacheVars, wcNag, err, changes, at, copy, tries, historyVars, failed,
                  edits, faults>>
        /\ pc' = "sets" /\ pc = "list" /\ listed' = nodes /\ clean' \in BOOLEAN
    BY DEF ListNodes, Goto
<1> QED
    BY <1>2, <1>3, <1>4 DEF TypeInv, TypeOK, MemInv, apiVars, cacheVars, historyVars, Phase

LEMMA UnassignUntargetedType == TypeInv /\ UnassignUntargeted => TypeInv'
<1> SUFFICES ASSUME TypeInv, UnassignUntargeted PROVE TypeInv'
    OBVIOUS
<1>1. PICK n \in todo :
        /\ pc = "sets"
        /\ \/ PatchNode(n, mem[n], Unassign(mem[n]))
           \/ PatchFails(n, mem[n], Unassign(mem[n]))
        /\ todo' \in SUBSET todo /\ targeted' \in SUBSET targeted /\ unassigned' \in SUBSET unassigned
        /\ UNCHANGED <<nag, version, cacheVars, pc, wcNag, mem, changes, at, copy, tries, err,
                       historyVars, listed, clean, edits>>
    BY DEF UnassignUntargeted
<1>2. n \in Node /\ mem[n] \in NodeObject
    BY <1>1 DEF TypeInv, TypeOK, MemInv, NodeMap
<1>3. nodes' \in NodeMap /\ faults' \in Nat /\ failed' \in BOOLEAN
    BY <1>1, <1>2, UnassignFacts, PatchNodeType DEF TypeInv, TypeOK
<1> QED
    BY <1>1, <1>3 DEF TypeInv, TypeOK, MemInv, cacheVars, historyVars

LEMMA DecideType == TypeInv /\ Decide => TypeInv'
<1> SUFFICES ASSUME TypeInv, Decide PROVE TypeInv'
    OBVIOUS
<1>1. pc' \in {"unassignList", "reconcile", "addGet"} /\ UNCHANGED <<wcNag, err>>
        /\ pc = "sets" /\ todo' = targeted
        /\ UNCHANGED <<apiVars, cacheVars, mem, targeted, unassigned, at, copy, tries,
                   historyVars, listed, clean, failed, edits, faults>>
    <2>1. wcNag \in NagObject
        BY DEF Decide, TypeInv, TypeOK, Nags
    <2>2. wcNag.deleting \in BOOLEAN /\ wcNag.finalizers \in Nat
        BY <2>1 DEF NagObject
    <2> QED  BY <2>2 DEF Decide, Goto
<1>2. changes' \in [AName -> Int]
    <2>1. wcNag.spec \in NagSpec
        BY SpecsAssumption DEF Decide, TypeInv, TypeOK, Nags, NagObject
    <2>2. IsFiniteSet(DOMAIN [n \in targeted |-> mem[n]])
        BY NodeAssumption, FS_Subset DEF TypeInv, TypeOK
    <2> QED  BY <2>1, <2>2, ChangesType DEF Decide
<1> QED
    BY <1>1, <1>2 DEF TypeInv, TypeOK, MemInv, apiVars, cacheVars, historyVars, Phase

LEMMA GetNagType ==
    ASSUME TypeInv,
           NEW from \in {"addGet", "removeGet"}, NEW to \in {"addUpdate", "removeUpdate"},
           GetNag(from, to)
    PROVE  TypeInv'
<1>1. faults' \in Nat /\ failed' \in BOOLEAN
    BY FaultType DEF GetNag, TypeInv, TypeOK
<1>2. copy' \in Nags
    BY DEF GetNag, TypeInv, TypeOK, Nags
<1> QED
    BY <1>1, <1>2 DEF TypeInv, TypeOK, MemInv, GetNag, Goto, apiVars, cacheVars, historyVars, Phase

LEMMA RetryUpdateType ==
    ASSUME TypeInv,
           NEW from \in {"addUpdate", "removeUpdate"}, NEW to \in {"addGet", "removeGet"},
           NEW e \in BOOLEAN, RetryUpdate(from, to, e)
    PROVE  TypeInv'
<1>1. CASE EndRun(e)
    BY <1>1, EndRunType DEF TypeInv, TypeOK, MemInv, RetryUpdate, apiVars, cacheVars, historyVars
<1>2. CASE ~EndRun(e)
    BY <1>2 DEF TypeInv, TypeOK, MemInv, RetryUpdate, Goto, apiVars, cacheVars, historyVars, Phase
<1> QED  BY <1>1, <1>2

LEMMA UpdateFailsType ==
    ASSUME TypeInv, NEW from, NEW forbidden, NEW e \in BOOLEAN, UpdateFails(from, forbidden, e)
    PROVE  TypeInv'
<1>1. EndRun(e) /\ UNCHANGED <<apiVars, cacheVars, historyVars, listed, clean, edits>>
    BY DEF UpdateFails
<1>2. faults' \in Nat /\ failed' \in BOOLEAN
    BY FaultType DEF UpdateFails, TypeInv, TypeOK
<1> QED
    BY <1>1, <1>2, EndRunType DEF TypeInv, TypeOK, MemInv, apiVars, cacheVars, historyVars

LEMMA FinalizerType ==
    ASSUME TypeInv,
           AddGet \/ AddRetry \/ AddFails \/ AddUpdate
             \/ RemoveGet \/ RemoveRetry \/ RemoveFails \/ RemoveUpdate
    PROVE  TypeInv'
<1>1. CASE AddGet
    BY <1>1, GetNagType DEF AddGet
<1>2. CASE AddRetry
    BY <1>2, RetryUpdateType DEF AddRetry
<1>3. CASE AddFails
    BY <1>3, UpdateFailsType DEF AddFails
<1>4. CASE AddUpdate
    <2>1. [copy EXCEPT !.finalizers = @ + 1] \in Nags
        BY <1>4, NagEditType DEF AddUpdate, TypeInv, TypeOK, Nags
    <2>2. version' \in Nat /\ nag' \in Nags /\ watch' \in Seq(Nags)
        BY <1>4, <2>1, StoreType DEF AddUpdate, TypeInv, TypeOK
    <2>3. Answered(TRUE) /\ UNCHANGED <<nodes, nagIndex, historyVars, listed, edits>>
        BY <1>4 DEF AddUpdate
    <2>4. clean' \in BOOLEAN
        BY <1>4, Zenon DEF AddUpdate
    <2> QED  BY <2>2, <2>3, <2>4, AnsweredRunType
<1>5. CASE RemoveGet
    BY <1>5, GetNagType DEF RemoveGet
<1>6. CASE RemoveRetry
    BY <1>6, RetryUpdateType DEF RemoveRetry
<1>7. CASE RemoveFails
    BY <1>7, UpdateFailsType DEF RemoveFails
<1>8. CASE RemoveUpdate
    <2>1. AfterFinalizers([copy EXCEPT !.finalizers = 0]) \in Nags
        <3>1. copy \in NagObject
            BY <1>8 DEF RemoveUpdate, TypeInv, TypeOK, Nags
        <3>2. [copy EXCEPT !.finalizers = 0] \in NagObject
            BY <3>1, NagEditType
        <3> QED  BY <3>2, NagEditType
    <2>2. version' \in Nat /\ nag' \in Nags /\ watch' \in Seq(Nags)
        BY <1>8, <2>1, StoreType DEF RemoveUpdate, TypeInv, TypeOK
    <2>3. Answered(FALSE) /\ UNCHANGED <<nodes, nagIndex, historyVars, listed, edits>>
        BY <1>8 DEF RemoveUpdate
    <2>4. clean' \in BOOLEAN
        BY <1>8, Zenon DEF RemoveUpdate, TypeInv, TypeOK
    <2> QED  BY <2>2, <2>3, <2>4, AnsweredRunType
<1> QED
    BY <1>1, <1>2, <1>3, <1>4, <1>5, <1>6, <1>7, <1>8

LEMMA KeepNodeType == TypeInv /\ KeepNode => TypeInv'
    BY DEF TypeInv, TypeOK, MemInv, KeepNode, apiVars, cacheVars, historyVars

LEMMA ReleaseNodeType == TypeInv /\ ReleaseNode => TypeInv'
<1> SUFFICES ASSUME TypeInv, NEW n \in todo,
        pc = "reconcile",
        Releasable(mem[n]),
        mem' = [mem EXCEPT ![n] = Unassign(@)],
        unassigned' = unassigned \cup {n},
        changes' = [changes EXCEPT ![GetAssignment(mem[n])] = @ + 1],
        UNCHANGED <<apiVars, cacheVars, pc, wcNag, todo, targeted, at, copy, tries, err,
                       historyVars, listed, clean, failed, edits, faults>>
    PROVE TypeInv'
    BY DEF ReleaseNode
<1>1. n \in Node /\ mem[n] \in NodeObject
    BY DEF TypeInv, TypeOK, MemInv, NodeMap
<1>2. Unassign(mem[n]) \in NodeObject /\ Unassign(mem[n]) # None
    BY <1>1, UnassignFacts, NoneAssumption
<1>3. mem' \in NodeMap /\ mem'[n] # None /\ \A m \in Node : m # n => mem'[m] = mem[m]
    BY <1>1, <1>2 DEF TypeInv, TypeOK, NodeMap
<1>4. changes' \in [AName -> Int]
    <2>1. GetAssignment(mem[n]) \in AName
        BY <1>1 DEF Releasable, IsAssigned, GetAssignment, NodeObject
    <2> QED  BY <2>1 DEF TypeInv, TypeOK
<1> QED
    BY <1>1, <1>3, <1>4 DEF TypeInv, TypeOK, MemInv, apiVars, cacheVars, historyVars

LEMMA AssignNodeType == TypeInv /\ AssignNode => TypeInv'
<1> SUFFICES ASSUME TypeInv, AssignNode PROVE TypeInv'
    OBVIOUS
<1> DEFINE a == FirstNeeding(wcNag.spec, changes)
<1>1. PICK n \in todo :
        /\ pc = "reconcile"
        /\ a # None
        /\ \/ PatchNode(n, mem[n], Assign(mem[n], a))
           \/ PatchFails(n, mem[n], Assign(mem[n], a))
        /\ pc' \in {pc, "default"}
        /\ changes' \in {changes, [changes EXCEPT ![a.name] = @ - 1]}
        /\ todo' \in SUBSET todo
        /\ unassigned' \in SUBSET unassigned
        /\ UNCHANGED <<nag, version, cacheVars, wcNag, mem, targeted, at, copy, tries, err,
                       historyVars, listed, clean, edits>>
    BY DEF AssignNode
<1>2. wcNag.spec \in NagSpec
    BY <1>1, SpecsAssumption DEF TypeInv, TypeOK, Nags, NagObject
<1>3. a \in AssignmentObject
    BY <1>1, <1>2, FirstNeedingType DEF TypeInv, TypeOK
<1> HIDE DEF a
<1>4. n \in Node /\ mem[n] \in NodeObject
    BY <1>1 DEF TypeInv, TypeOK, MemInv, NodeMap
<1>5. nodes' \in NodeMap /\ faults' \in Nat /\ failed' \in BOOLEAN
    BY <1>1, <1>3, <1>4, AssignType, PatchNodeType DEF TypeInv, TypeOK
<1>6. changes' \in [AName -> Int]
    <2>1. a.name \in AName
        BY <1>3 DEF AssignmentObject
    <2> QED  BY <1>1, <2>1 DEF TypeInv, TypeOK
<1> QED
    BY <1>1, <1>5, <1>6 DEF TypeInv, TypeOK, MemInv, cacheVars, historyVars, Phase

LEMMA ApplyDefaultType == TypeInv /\ ApplyDefault => TypeInv'
<1> SUFFICES ASSUME TypeInv, ApplyDefault PROVE TypeInv'
    OBVIOUS
<1> DEFINE a == wcNag.spec.defaultAssignment
<1>1. PICK n \in todo :
        /\ pc \in {"reconcile", "default"}
        /\ \/ /\ NoFault /\ UNCHANGED nodes
              /\ todo' \in SUBSET todo
              /\ unassigned' \in SUBSET unassigned
              /\ Goto("reconcile")
              /\ UNCHANGED <<mem, targeted, changes, at, copy, tries>>
           \/ /\ a # None
              /\ PatchNode(n, mem[n], Assign(mem[n], a))
              /\ todo' \in SUBSET todo
              /\ unassigned' \in SUBSET unassigned
              /\ Goto("reconcile")
              /\ UNCHANGED <<mem, targeted, changes, at, copy, tries>>
           \/ /\ a # None
              /\ PatchFails(n, mem[n], Assign(mem[n], a))
              /\ EndRun(TRUE)
        /\ UNCHANGED <<nag, version, cacheVars, historyVars, listed, clean, edits>>
    BY DEF ApplyDefault
<1>2. a # None => a \in AssignmentObject
    BY <1>1, SpecsAssumption DEF TypeInv, TypeOK, Nags, NagObject, NagSpec
<1>3. n \in Node /\ mem[n] \in NodeObject
    BY <1>1 DEF TypeInv, TypeOK, MemInv, NodeMap
<1> HIDE DEF a
<1>4. nodes' \in NodeMap /\ faults' \in Nat /\ failed' \in BOOLEAN
    <2>1. CASE NoFault /\ UNCHANGED nodes
        BY <2>1, FaultType DEF TypeInv, TypeOK
    <2>2. CASE a # None /\ (\/ PatchNode(n, mem[n], Assign(mem[n], a))
                            \/ PatchFails(n, mem[n], Assign(mem[n], a)))
        BY <1>2, <1>3, <2>2, AssignType, PatchNodeType DEF TypeInv, TypeOK
    <2> QED  BY <1>1, <2>1, <2>2
<1>5. CASE EndRun(TRUE)
    BY <1>1, <1>4, <1>5, EndRunType DEF TypeInv, TypeOK, MemInv, cacheVars, historyVars
<1>6. CASE ~EndRun(TRUE)
    BY <1>1, <1>4, <1>6 DEF Goto, TypeInv, TypeOK, MemInv, cacheVars, historyVars, Phase
<1> QED  BY <1>5, <1>6

LEMMA EndAssigningType == TypeInv /\ EndAssigning => TypeInv'
    BY DEF TypeInv, TypeOK, MemInv, EndAssigning, Goto, apiVars, cacheVars, historyVars, Phase

LEMMA CleanupGetType == TypeInv /\ CleanupGet => TypeInv'
<1> SUFFICES ASSUME TypeInv, CleanupGet PROVE TypeInv'
    OBVIOUS
<1>1. PICK n \in todo :
        /\ pc = "cleanup"
        /\ todo' = todo \ {n}
        /\ Fail("nodeGet") \/ NoFault
        /\ UNCHANGED <<wcNag, err>>
        /\ \/ /\ nodes[n] # None
              /\ pc' = "cleanupPatch"
              /\ at' = n
              /\ mem' = [mem EXCEPT ![n] = nodes[n]]
           \/ UNCHANGED <<pc, at, mem>>
        /\ UNCHANGED <<apiVars, cacheVars, targeted, unassigned, changes, copy, tries,
                       historyVars, listed, clean, edits>>
    BY DEF CleanupGet, Goto
<1>2. faults' \in Nat /\ failed' \in BOOLEAN
    BY <1>1, FaultType DEF TypeInv, TypeOK
<1>3. n \in Node /\ mem' \in NodeMap
    BY <1>1 DEF TypeInv, TypeOK, NodeMap
<1>4. MemInv'
    BY <1>1, <1>3 DEF TypeInv, TypeOK, MemInv, NodeMap
<1> QED
    BY <1>1, <1>2, <1>3, <1>4 DEF TypeInv, TypeOK, apiVars, cacheVars, historyVars, Phase

LEMMA CleanupPatchType == TypeInv /\ CleanupPatch => TypeInv'
<1> SUFFICES ASSUME TypeInv, CleanupPatch PROVE TypeInv'
    OBVIOUS
<1>1. at \in Node /\ mem[at] \in NodeObject
    BY DEF CleanupPatch, TypeInv, TypeOK, MemInv, NodeMap
<1>2. nodes' \in NodeMap /\ faults' \in Nat /\ failed' \in BOOLEAN
    BY <1>1, UnassignFacts, PatchNodeType DEF CleanupPatch, TypeInv, TypeOK
<1> QED
    BY <1>2 DEF CleanupPatch, Goto, TypeInv, TypeOK, MemInv, cacheVars, historyVars, Phase

LEMMA EndReconcileType == TypeInv /\ EndReconcile => TypeInv'
    BY EndRunType DEF TypeInv, TypeOK, MemInv, EndReconcile, apiVars, cacheVars, historyVars

LEMMA UnassignListType == TypeInv /\ UnassignList => TypeInv'
<1> SUFFICES ASSUME TypeInv, UnassignList PROVE TypeInv'
    OBVIOUS
<1>1. faults' \in Nat /\ failed' \in BOOLEAN
    BY FaultType DEF UnassignList, TypeInv, TypeOK
<1>2. spilled' \in SUBSET Node /\ past' = past
    BY DEF UnassignList, TypeInv, TypeOK
<1> QED
    BY <1>1, <1>2 DEF UnassignList, Goto, TypeInv, TypeOK, MemInv, apiVars, cacheVars, Phase

LEMMA UnassignNodeType == TypeInv /\ UnassignNode => TypeInv'
<1> SUFFICES ASSUME TypeInv, UnassignNode PROVE TypeInv'
    OBVIOUS
<1>1. PICK n \in todo :
        /\ pc = "unassignAll"
        /\ \/ PatchNode(n, mem[n], Unassign(mem[n]))
           \/ PatchFails(n, mem[n], Unassign(mem[n]))
        /\ todo' = todo \ {n}
        /\ UNCHANGED <<nag, version, cacheVars, pc, wcNag, mem, targeted, unassigned, changes,
                       at, copy, tries, err, past, listed, clean, edits>>
        /\ spilled' \in SUBSET (spilled \cup {n})
    BY DEF UnassignNode
<1>2. n \in Node /\ mem[n] \in NodeObject
    BY <1>1 DEF TypeInv, TypeOK, MemInv, NodeMap
<1>3. nodes' \in NodeMap /\ faults' \in Nat /\ failed' \in BOOLEAN
    BY <1>1, <1>2, UnassignFacts, PatchNodeType DEF TypeInv, TypeOK
<1> QED
    BY <1>1, <1>3 DEF TypeInv, TypeOK, MemInv, cacheVars

LEMMA EndUnassignType == TypeInv /\ EndUnassign => TypeInv'
    BY DEF TypeInv, TypeOK, MemInv, EndUnassign, Goto, apiVars, cacheVars, historyVars, Phase

LEMMA DeliverNagType == TypeInv /\ DeliverNag => TypeInv'
<1> SUFFICES ASSUME TypeInv, DeliverNag PROVE TypeInv'
    OBVIOUS
<1>1. nagIndex' \in Nags /\ watch' \in Seq(Nags)
    BY DEF DeliverNag, TypeInv, TypeOK
<1>2. past' \in Seq(Nags)
    BY DEF DeliverNag, TypeInv, TypeOK
<1> QED
    BY <1>1, <1>2 DEF DeliverNag, TypeInv, TypeOK, MemInv, apiVars, loopVars

(* All versions of the group that the informers have seen or will see. *)

Versions(p, x, w) == p \o <<x>> \o w

\* The versions before, at and after the one in the cache.
Parts(all, p, x, w) ==
    /\ all \in Seq(Nags) /\ p \in Seq(Nags) /\ x \in Nags /\ w \in Seq(Nags)
    /\ Len(p) \in Nat /\ Len(w) \in Nat
    /\ Len(all) = Len(p) + 1 + Len(w)
    /\ \A i \in 1..Len(p) : all[i] = p[i]
    /\ all[Len(p) + 1] = x
    /\ \A i \in 1..Len(w) : all[Len(p) + 1 + i] = w[i]

LEMMA VersionsFacts ==
    ASSUME NEW p \in Seq(Nags), NEW x \in Nags, NEW w \in Seq(Nags)
    PROVE  Parts(Versions(p, x, w), p, x, w)
<1> DEFINE q == p \o <<x>>
<1>1. q \in Seq(Nags) /\ Len(q) = Len(p) + 1 /\ Len(p) \in Nat /\ Len(w) \in Nat
    OBVIOUS
<1>2. (\A i \in 1..Len(p) : q[i] = p[i]) /\ q[Len(p) + 1] = x
    OBVIOUS
<1>3. Versions(p, x, w) = q \o w
    BY DEF Versions
<1> HIDE DEF q
<1>4. /\ q \o w \in Seq(Nags)
      /\ Len(q \o w) = Len(q) + Len(w)
      /\ \A i \in 1..Len(q) + Len(w) : (q \o w)[i] = IF i <= Len(q) THEN q[i] ELSE w[i - Len(q)]
    BY <1>1, ConcatProperties
<1> DEFINE all == Versions(p, x, w)
<1>5. /\ all \in Seq(Nags) /\ Len(all) = Len(p) + 1 + Len(w)
      /\ \A i \in 1..Len(p) + 1 + Len(w) :
           all[i] = IF i <= Len(p) + 1 THEN q[i] ELSE w[i - (Len(p) + 1)]
    BY <1>1, <1>3, <1>4
<1> HIDE DEF all
<1>6. \A i \in 1..Len(w) : Len(p) + 1 + i \in 1..Len(p) + 1 + Len(w)
                            /\ ~(Len(p) + 1 + i <= Len(p) + 1) /\ Len(p) + 1 + i - (Len(p) + 1) = i
    BY <1>1
<1>7. \A i \in 1..Len(w) : all[Len(p) + 1 + i] = w[i]
    BY <1>5, <1>6
<1>8. (\A i \in 1..Len(p) : all[i] = p[i]) /\ all[Len(p) + 1] = x
    BY <1>1, <1>2, <1>5
<1> QED  BY <1>1, <1>5, <1>7, <1>8 DEF all, Parts

\* Cut before and after the i-th version.
Before(all, i) == SubSeq(all, 1, i - 1)
After(all, i) == SubSeq(all, i + 1, Len(all))

LEMMA CutFacts ==
    ASSUME NEW all \in Seq(Nags), NEW i \in 1..Len(all)
    PROVE  /\ Before(all, i) \in Seq(Nags) /\ all[i] \in Nags /\ After(all, i) \in Seq(Nags)
           /\ Len(Before(all, i)) = i - 1 /\ Len(After(all, i)) = Len(all) - i
           /\ Versions(Before(all, i), all[i], After(all, i)) = all
<1> DEFINE p == Before(all, i)
           w == After(all, i)
<1>1. Len(all) \in Nat /\ \A k \in 1..Len(all) : all[k] \in Nags
    OBVIOUS
<1>2. /\ p \in Seq(Nags) /\ Len(p) = i - 1
      /\ \A k \in 1..(i - 1) : p[k] = all[k]
    <2>1. \A k \in 1..(i - 1) : all[k] \in Nags
        BY <1>1
    <2>2. /\ p \in Seq(Nags)
          /\ Len(p) = IF 1 <= i - 1 THEN i - 1 - 1 + 1 ELSE 0
          /\ \A k \in 1..(i - 1 - 1 + 1) : p[k] = all[1 + k - 1]
        BY <1>1, <2>1, SubSeqProperties DEF Before
    <2> QED  BY <1>1, <2>2
<1>3. /\ w \in Seq(Nags) /\ Len(w) = Len(all) - i
      /\ \A k \in 1..(Len(all) - i) : w[k] = all[i + k]
    <2>1. \A k \in (i + 1)..Len(all) : all[k] \in Nags
        BY <1>1
    <2>2. /\ w \in Seq(Nags)
          /\ Len(w) = IF i + 1 <= Len(all) THEN Len(all) - (i + 1) + 1 ELSE 0
          /\ \A k \in 1..(Len(all) - (i + 1) + 1) : w[k] = all[i + 1 + k - 1]
        BY <1>1, <2>1, SubSeqProperties DEF After
    <2>3. Len(w) = Len(all) - i
        BY <1>1, <2>2
    <2>4. ASSUME NEW k \in 1..(Len(all) - i)
          PROVE  w[k] = all[i + k]
        <3>1. k \in 1..(Len(all) - (i + 1) + 1) /\ i + 1 + k - 1 = i + k
            BY <1>1
        <3>2. w[k] = all[i + 1 + k - 1]
            BY <2>2, <3>1
        <3> QED  BY <3>1, <3>2
    <2> QED  BY <2>2, <2>3, <2>4
<1> HIDE DEF p, w
<1> DEFINE new == Versions(p, all[i], w)
<1>4. all[i] \in Nags
    BY <1>1
<1>5. Parts(new, p, all[i], w)
    BY <1>2, <1>3, <1>4, VersionsFacts
<1> HIDE DEF new
<1>6. Len(new) = Len(all)
    BY <1>1, <1>2, <1>3, <1>5 DEF Parts
<1>7. ASSUME NEW k \in 1..Len(all) PROVE new[k] = all[k]
    <2>1. CASE k < i
        <3>1. k \in 1..(i - 1)
            BY <1>1, <2>1
        <3> QED  BY <1>2, <1>5, <3>1 DEF Parts
    <2>2. CASE k = i
        <3>1. i - 1 + 1 = i
            OBVIOUS
        <3> QED  BY <1>2, <1>5, <2>2, <3>1 DEF Parts
    <2>3. CASE k > i
        <3>1. k - i \in 1..(Len(all) - i) /\ i + (k - i) = k /\ i - 1 + 1 + (k - i) = k
            BY <1>1, <2>3
        <3>2. new[i - 1 + 1 + (k - i)] = w[k - i]
            BY <1>2, <1>3, <1>5, <3>1 DEF Parts
        <3> QED  BY <1>3, <3>1, <3>2
    <2> QED  BY <1>1, <2>1, <2>2, <2>3
<1>8. new = all
    BY <1>5, <1>6, <1>7, SeqEqual DEF Parts
<1> QED  BY <1>2, <1>3, <1>4, <1>8 DEF new, p, w

\* The informer of the process that goes on shows the i-th version.
LEMMA TakeOverFacts ==
    ASSUME NEW all \in Seq(Nags), NEW i \in DOMAIN all, TakeOver(all, i)
    PROVE  /\ past' \in Seq(Nags) /\ nagIndex' \in Nags /\ watch' \in Seq(Nags)
           /\ Len(past') = i - 1 /\ Len(watch') = Len(all) - i
           /\ Versions(past', nagIndex', watch') = all
<1>1. i \in 1..Len(all)
    OBVIOUS
<1>2. past' = Before(all, i) /\ nagIndex' = all[i] /\ watch' = After(all, i)
    BY DEF TakeOver, Before, After
<1> QED  BY <1>1, <1>2, CutFacts

LEMMA CrashType == TypeInv /\ Crash => TypeInv'
<1> SUFFICES ASSUME TypeInv, Crash PROVE TypeInv'
    OBVIOUS
<1> DEFINE all == Versions(past, nagIndex, watch)
<1>1. faults' \in Nat /\ failed' \in BOOLEAN
    BY FaultType DEF Crash, TypeInv, TypeOK
<1>2. clean' \in BOOLEAN
    BY Zenon DEF Crash
<1>3. EndRun(FALSE)
    BY Zenon DEF Crash
<1>4. UNCHANGED <<apiVars, listed, edits>>
    BY Zenon DEF Crash
<1>5. past' \in Seq(Nags) /\ nagIndex' \in Nags /\ watch' \in Seq(Nags) /\ spilled' \in SUBSET Node
    <2>1. PICK i \in DOMAIN all : TakeOver(all, i) /\ spilled' \in {Node, spilled}
        BY DEF Crash, Versions
    <2>2. Parts(all, past, nagIndex, watch)
        BY VersionsFacts DEF TypeInv, TypeOK
    <2>3. all \in Seq(Nags)
        BY <2>2 DEF Parts
    <2> HIDE DEF all
    <2> QED  BY <2>1, <2>3, TakeOverFacts DEF TypeInv, TypeOK
<1>6. UNCHANGED <<nodes, nag, version, listed, edits>>
    BY <1>4 DEF apiVars
<1> QED
    BY <1>1, <1>2, <1>3, <1>5, <1>6, EndRunType DEF TypeInv, TypeOK, MemInv

LEMMA EditNagType ==
    ASSUME TypeInv, NEW kind, NEW obj \in Nags, EditNag(kind, obj)
    PROVE  TypeInv'
<1>1. version' \in Nat /\ nag' \in Nags /\ watch' \in Seq(Nags)
    BY StoreType DEF EditNag, TypeInv, TypeOK
<1>2. clean' \in BOOLEAN
    BY Zenon DEF EditNag, Edit
<1> QED
    BY <1>1, <1>2 DEF EditNag, Edit, TypeInv, TypeOK, MemInv, loopVars, historyVars

LEMMA NagEditsType == TypeInv /\ NagEdit => TypeInv'
<1> SUFFICES ASSUME TypeInv, NagEdit PROVE TypeInv'
    OBVIOUS
<1>0. nag # None => nag \in NagObject
    BY DEF TypeInv, TypeOK, Nags
<1>1. CASE CreateNag
    <2>1. PICK spec \in Specs :
            EditNag("spec", [spec |-> spec, finalizers |-> 0, others |-> FALSE,
                             deleting |-> FALSE, rv |-> 0])
        BY <1>1 DEF CreateNag
    <2>2. [spec |-> spec, finalizers |-> 0, others |-> FALSE, deleting |-> FALSE, rv |-> 0] \in Nags
        BY DEF Nags, NagObject
    <2> QED  BY <2>1, <2>2, EditNagType
<1>2. CASE UpdateNag
    <2>1. PICK spec \in Specs : EditNag("spec", [nag EXCEPT !.spec = spec])
        BY <1>2 DEF UpdateNag
    <2>2. [nag EXCEPT !.spec = spec] \in Nags
        BY <1>0, <1>2, NagEditType DEF UpdateNag, Nags
    <2> QED  BY <2>1, <2>2, EditNagType
<1>3. CASE DeleteNag
    <2>1. [nag EXCEPT !.deleting = TRUE] \in NagObject
        BY <1>0, <1>3, NagEditType DEF DeleteNag
    <2>2. AfterFinalizers([nag EXCEPT !.deleting = TRUE]) \in Nags
        BY <2>1, NagEditType
    <2> QED  BY <1>3, <2>2, EditNagType DEF DeleteNag
<1>4. CASE OtherFinalizer
    <2>1. [nag EXCEPT !.others = TRUE] \in NagObject /\ [nag EXCEPT !.others = FALSE] \in NagObject
        BY <1>0, <1>4, NagEditType DEF OtherFinalizer
    <2>2. AfterFinalizers([nag EXCEPT !.others = FALSE]) \in Nags
        BY <2>1, NagEditType
    <2> QED  BY <1>4, <2>1, <2>2, EditNagType DEF OtherFinalizer, Nags
<1> QED  BY <1>1, <1>2, <1>3, <1>4 DEF NagEdit

LEMMA EditNodeType ==
    ASSUME TypeInv, NEW kind, NEW n \in Node, NEW obj \in NodeObject \cup {None},
           EditNode(kind, n, obj)
    PROVE  TypeInv'
<1>1. nodes' \in NodeMap
    BY DEF EditNode, TypeInv, TypeOK, NodeMap
<1>2. clean' \in BOOLEAN
    BY Zenon DEF EditNode, Edit
<1> QED
    BY <1>1, <1>2 DEF EditNode, Edit, TypeInv, TypeOK, MemInv, loopVars, historyVars

LEMMA NodeEditsType == TypeInv /\ NodeEdit => TypeInv'
<1> SUFFICES ASSUME TypeInv, NodeEdit PROVE TypeInv'
    OBVIOUS
<1>1. \A n \in Node : nodes[n] # None => nodes[n] \in NodeObject
    BY DEF TypeInv, TypeOK, NodeMap
<1>2. CASE AddNode
    <2>1. \A ls \in SUBSET Label : Fresh(ls) \in NodeObject
        BY DEF Fresh, NodeObject
    <2> QED  BY <1>2, <2>1, EditNodeType DEF AddNode
<1>3. CASE DeleteNode
    BY <1>3, EditNodeType DEF DeleteNode
<1>4. CASE RelabelNode
    <2>1. PICK n \in Node, l \in Label : nodes[n] # None /\
            \E ls \in {nodes[n].labels \cup {l}, nodes[n].labels \ {l}} :
                EditNode("label", n, [nodes[n] EXCEPT !.labels = ls])
        BY <1>4 DEF RelabelNode
    <2>2. \A ls \in {nodes[n].labels \cup {l}, nodes[n].labels \ {l}} :
            [nodes[n] EXCEPT !.labels = ls] \in NodeObject
        BY <1>1, <2>1 DEF NodeObject
    <2> QED  BY <2>1, <2>2, EditNodeType
<1>5. CASE ProtectNode
    <2>1. PICK n \in Node : nodes[n] # None
            /\ EditNode("protect", n, [nodes[n] EXCEPT !.labels = @ \cup {Protected}])
        BY <1>5 DEF ProtectNode
    <2>2. [nodes[n] EXCEPT !.labels = @ \cup {Protected}] \in NodeObject
        BY <1>1, <2>1 DEF NodeObject
    <2> QED  BY <2>1, <2>2, EditNodeType
<1>6. CASE ForeignTaint
    <2> DEFINE t == [key |-> "other", value |-> None, effect |-> "NoExecute"]
    <2>1. PICK n \in Node : nodes[n] # None
            /\ EditNode("taint", n,
                 [nodes[n] EXCEPT !.taints = IF t \in @ THEN @ \ {t} ELSE @ \cup {t}])
        BY <1>6 DEF ForeignTaint
    <2>2. t \in Taint
        BY DEF Taint, Effect
    <2>3. [nodes[n] EXCEPT !.taints = IF t \in @ THEN @ \ {t} ELSE @ \cup {t}] \in NodeObject
        <3> HIDE DEF t
        <3> QED  BY <1>1, <2>1, <2>2 DEF NodeObject
    <2> QED  BY <2>1, <2>3, EditNodeType
<1> QED  BY <1>2, <1>3, <1>4, <1>5, <1>6 DEF NodeEdit

LEMMA NextType == TypeInv /\ [Next]_vars => TypeInv'
<1> SUFFICES ASSUME TypeInv, [Next]_vars PROVE TypeInv'
    OBVIOUS
<1>1. CASE ReconcileNag
    BY <1>1, ListNodesType, UnassignUntargetedType, DecideType, FinalizerType, KeepNodeType,
        ReleaseNodeType, AssignNodeType, ApplyDefaultType, EndAssigningType, CleanupGetType,
        CleanupPatchType, EndReconcileType, UnassignListType, UnassignNodeType, EndUnassignType
        DEF ReconcileNag
<1>2. CASE UNCHANGED vars
    BY <1>2 DEF vars, apiVars, cacheVars, historyVars, loopVars, TypeInv, TypeOK, MemInv
<1> QED
    BY <1>1, <1>2, StartType, DeliverNagType, CrashType, NagEditsType, NodeEditsType DEF Next

THEOREM TypeInvHolds == Spec => []TypeInv
    BY InitType, NextType, PTL DEF Spec

\* Every variable keeps its type; in particular a run always works on a
\* group and on nodes that exist in its copy.
THEOREM TypeCorrect == Spec => []TypeOK
    BY TypeInvHolds, PTL DEF TypeInv

-----------------------------------------------------------------------------
(* The guarantee of the finalizer: the inductive invariant.                *)

Deleting(x) == x # None /\ x.deleting
Dead(x) == x = None \/ x.deleting
Guarded(x) == x # None /\ x.finalizers > 0
Active(x) == Guarded(x) /\ ~x.deleting

AllVersions == Versions(past, nagIndex, watch)

\* Only deleted versions follow a deleted one, up to the current one, x.
DeletionLasts(all, x) ==
    \A i \in 1..Len(all) :
        Deleting(all[i]) => Dead(x) /\ \A j \in 1..Len(all) : i < j => Dead(all[j])

\* From the version in the cache on, which the k versions before it precede.
DeadFrom(all, k) == \A i \in 1..Len(all) : k < i => Dead(all[i])
InactiveFrom(all, k) == \A i \in 1..Len(all) : k < i => ~Active(all[i])

\* What the resource versions tell: the group has the latest, and a copy
\* that has the latest is the group.
VersionInv ==
    /\ version = 0 => nag = None /\ pc = "done" /\ \A i \in 1..Len(AllVersions) : AllVersions[i] = None
    /\ nag # None => nag.rv = version
    /\ copy # None => copy.rv <= version /\ (copy.rv = version => copy = nag)

\* Deletion is final: in the order of the versions, for the API server, and
\* from the run on that has seen it.
DeletionInv ==
    /\ DeletionLasts(AllVersions, nag)
    /\ pc # "done" /\ Deleting(wcNag) => Dead(nag) /\ DeadFrom(AllVersions, Len(past))

\* Whoever sees a live group with the finalizer may rely on it, or all nodes
\* have been left to themselves.
FinalizerInv ==
    \/ Guarded(nag)
    \/ spilled = Node
    \/ /\ InactiveFrom(AllVersions, Len(past))
       /\ pc # "done" => ~Active(wcNag)

\* The branch that a run has taken.
PhaseInv ==
    /\ pc \in {"reconcile", "default", "cleanup", "cleanupPatch"} => Active(wcNag)
    /\ pc \in {"unassignList", "unassignAll", "removeGet", "removeUpdate"} => Deleting(wcNag)

ViewInv == VersionInv /\ DeletionInv /\ FinalizerInv

Traceless(n) == nodes[n] = None \/ ~HasTraces(nodes[n])

\* UnassignAllNodes: nodes that have been visited are clean or have been left
\* to themselves, and the copies of the others show whatever is still to be
\* removed.
CleanupInv ==
    /\ pc = "unassignAll" => \A n \in Node \ (todo \cup spilled) : Traceless(n)
    /\ pc = "unassignAll" => \A n \in todo :
         nodes[n] # None =>
              /\ mem[n].assign = None => nodes[n].assign = None
              /\ GroupTaints(mem[n]) = {} => GroupTaints(nodes[n]) = {}
    /\ pc \in {"removeGet", "removeUpdate"} => \A n \in Node \ spilled : Traceless(n)

\* The inductive invariant.
IInv ==
    /\ TypeInv
    /\ ViewInv
    /\ PhaseInv
    /\ CleanupInv
    /\ TracesImplyFinalizer

-----------------------------------------------------------------------------
(* The views of the group.                                                 *)

LEMMA AllVersionsParts ==
    ASSUME TypeInv
    PROVE  Parts(AllVersions, past, nagIndex, watch)
    BY VersionsFacts DEF TypeInv, TypeOK, AllVersions

\* The sequence t is s and then x.
Extends(s, t, x) ==
    /\ Len(s) \in Nat /\ Len(t) = Len(s) + 1
    /\ \A i \in 1..Len(s) : t[i] = s[i]
    /\ t[Len(s) + 1] = x

LEMMA StoreVersions ==
    ASSUME TypeInv, NEW obj \in Nags, Store(obj), UNCHANGED <<past, nagIndex>>
    PROVE  Extends(AllVersions, AllVersions', nag') /\ Len(past) < Len(AllVersions)
<1>1. version' \in Nat /\ nag' \in Nags /\ watch' \in Seq(Nags)
    BY StoreType DEF TypeInv, TypeOK
<1> DEFINE all == AllVersions
           new == AllVersions'
<1>2. Parts(all, past, nagIndex, watch)
    BY AllVersionsParts
<1>3. Parts(new, past, nagIndex, watch')
    BY <1>1, VersionsFacts DEF TypeInv, TypeOK, AllVersions
<1>4. /\ Len(watch) \in Nat /\ Len(watch') = Len(watch) + 1
      /\ \A i \in 1..Len(watch) : watch'[i] = watch[i]
      /\ watch'[Len(watch) + 1] = nag'
    BY <1>1 DEF Store, TypeInv, TypeOK
<1> HIDE DEF all, new
<1>5. Len(all) \in Nat /\ Len(new) = Len(all) + 1 /\ Len(past) < Len(all) /\ Len(past) \in Nat
        /\ Len(all) = Len(past) + 1 + Len(watch)
    BY <1>2, <1>3, <1>4 DEF Parts
<1>6. ASSUME NEW i \in 1..Len(all) PROVE new[i] = all[i]
    <2>1. CASE i <= Len(past)
        <3>1. i \in 1..Len(past)
            BY <1>5, <2>1
        <3> QED  BY <1>2, <1>3, <3>1 DEF Parts
    <2>2. CASE i = Len(past) + 1
        BY <1>2, <1>3, <2>2 DEF Parts
    <2>3. CASE i > Len(past) + 1
        <3>1. PICK k \in 1..Len(watch) : i = Len(past) + 1 + k
            <4>1. i - (Len(past) + 1) \in 1..Len(watch)
                BY <1>5, <1>4, <2>3
            <4>2. i = Len(past) + 1 + (i - (Len(past) + 1))
                BY <1>5
            <4> QED  BY <4>1, <4>2
        <3>2. k \in 1..Len(watch')
            BY <1>4
        <3>3. all[Len(past) + 1 + k] = watch[k]
            BY <1>2 DEF Parts
        <3>4. new[Len(past) + 1 + k] = watch'[k]
            BY <1>3, <3>2 DEF Parts
        <3> QED  BY <1>4, <3>1, <3>3, <3>4
    <2> QED  BY <1>5, <2>1, <2>2, <2>3
<1>7. new[Len(all) + 1] = nag'
    <2>1. Len(watch) + 1 \in 1..Len(watch')
        BY <1>4
    <2>2. new[Len(past) + 1 + (Len(watch) + 1)] = nag'
        BY <1>3, <1>4, <2>1 DEF Parts
    <2>3. Len(past) + 1 + (Len(watch) + 1) = Len(all) + 1
        BY <1>4, <1>5
    <2> QED  BY <2>2, <2>3
<1> QED  BY <1>5, <1>6, <1>7 DEF Extends, all, new

\* The sequence t is s, or s without element k + 1; the versions of t from
\* position l + 1 on come later than k + 1 in s.
Advances(s, t, k, l) ==
    \E d \in {0, 1} :
        /\ Len(s) \in Nat /\ k \in Nat /\ Len(t) = Len(s) - d /\ l = k + 1 - d
        /\ \A i \in 1..Len(t) : IF i <= k THEN t[i] = s[i] ELSE i + d \in 1..Len(s) /\ t[i] = s[i + d]

LEMMA DeliverVersions ==
    ASSUME TypeInv, DeliverNag
    PROVE  Advances(AllVersions, AllVersions', Len(past), Len(past'))
<1>1. past' \in Seq(Nags) /\ nagIndex' \in Nags /\ watch' \in Seq(Nags)
    BY DeliverNagType DEF TypeInv, TypeOK
<1> DEFINE all == AllVersions
           new == AllVersions'
<1>2. Parts(all, past, nagIndex, watch)
    BY AllVersionsParts
<1>3. Parts(new, past', nagIndex', watch')
    BY <1>1, VersionsFacts DEF AllVersions
<1>4. /\ Len(watch) \in Nat /\ Len(watch) > 0 /\ Len(watch') = Len(watch) - 1
      /\ nagIndex' = watch[1]
      /\ \A i \in 1..Len(watch') : watch'[i] = watch[i + 1]
    BY DEF DeliverNag, TypeInv, TypeOK
<1>5. ASSUME NEW i \in 1..Len(watch) PROVE new[Len(past') + i] = watch[i]
    <2>1. CASE i = 1
        BY <1>3, <1>4, <2>1 DEF Parts
    <2>2. CASE i > 1
        <3>1. i - 1 \in 1..Len(watch') /\ i - 1 + 1 = i
            BY <1>4, <2>2
        <3>2. new[Len(past') + 1 + (i - 1)] = watch'[i - 1]
            BY <1>3, <3>1 DEF Parts
        <3>3. Len(past') + 1 + (i - 1) = Len(past') + i
            BY <1>3 DEF Parts
        <3> QED  BY <1>4, <3>1, <3>2, <3>3
    <2> QED  BY <2>1, <2>2
<1> HIDE DEF all, new
<1>6. Len(past) \in Nat /\ Len(all) = Len(past) + 1 + Len(watch) /\ Len(all) \in Nat
    BY <1>2 DEF Parts
<1>7. ASSUME NEW i \in 1..Len(watch) PROVE all[Len(past) + 1 + i] = watch[i]
    BY <1>2 DEF Parts
<1>8. CASE past' = past
    <2>1. Len(new) = Len(all) - 1
        BY <1>2, <1>3, <1>4, <1>8 DEF Parts
    <2>2. ASSUME NEW i \in 1..Len(new)
          PROVE  IF i <= Len(past) THEN new[i] = all[i] ELSE i + 1 \in 1..Len(all) /\ new[i] = all[i + 1]
        <3>1. CASE i <= Len(past)
            <4>1. i \in 1..Len(past)
                BY <1>6, <3>1
            <4>2. new[i] = past[i]
                BY <1>3, <1>8, <4>1 DEF Parts
            <4> QED  BY <1>2, <3>1, <4>1, <4>2 DEF Parts
        <3>2. CASE i > Len(past)
            <4>1. i - Len(past) \in 1..Len(watch) /\ Len(past) + (i - Len(past)) = i
                    /\ Len(past) + 1 + (i - Len(past)) = i + 1 /\ i + 1 \in 1..Len(all)
                BY <1>4, <1>6, <2>1, <3>2
            <4>2. new[i] = watch[i - Len(past)] /\ all[i + 1] = watch[i - Len(past)]
                BY <1>5, <1>7, <1>8, <4>1
            <4> QED  BY <1>6, <3>2, <4>1, <4>2
        <3> QED  BY <1>6, <2>1, <3>1, <3>2
    <2>3. Len(past') = Len(past) + 1 - 1
        BY <1>6, <1>8
    <2> QED  BY <1>6, <2>1, <2>2, <2>3 DEF Advances, all, new
<1>9. CASE past' = Append(past, nagIndex)
    <2>1. /\ Len(past') = Len(past) + 1 /\ past'[Len(past) + 1] = nagIndex
          /\ \A i \in 1..Len(past) : past'[i] = past[i]
        <3> HIDE DEF Nags
        <3>1. past \in Seq(Nags) /\ nagIndex \in Nags
            BY DEF TypeInv, TypeOK
        <3> QED  BY ONLY <1>9, <3>1, AppendProperties
    <2>2. Len(new) = Len(all)
        BY <1>2, <1>3, <1>4, <2>1 DEF Parts
    <2>3. ASSUME NEW i \in 1..Len(new)
          PROVE  IF i <= Len(past) THEN new[i] = all[i] ELSE i + 0 \in 1..Len(all) /\ new[i] = all[i + 0]
        <3>1. CASE i <= Len(past) + 1
            <4>1. i \in 1..Len(past')
                BY <1>6, <2>1, <3>1
            <4>2. new[i] = past'[i]
                BY <1>3, <4>1 DEF Parts
            <4>3. CASE i = Len(past) + 1
                <5>1. all[i] = nagIndex
                    BY <1>2, <4>3 DEF Parts
                <5> QED  BY <1>6, <2>1, <2>2, <4>2, <4>3, <5>1
            <4>4. CASE i <= Len(past)
                <5>1. i \in 1..Len(past)
                    BY <1>6, <4>4
                <5> QED  BY <1>2, <2>1, <4>2, <4>4, <5>1 DEF Parts
            <4> QED  BY <1>6, <2>2, <3>1, <4>3, <4>4
        <3>2. CASE i > Len(past) + 1
            <4>1. i - (Len(past) + 1) \in 1..Len(watch) /\ Len(past) + 1 + (i - (Len(past) + 1)) = i
                BY <1>4, <1>6, <2>2, <3>2
            <4>2. new[i] = watch[i - (Len(past) + 1)]
                BY <1>5, <2>1, <4>1
            <4>3. all[i] = watch[i - (Len(past) + 1)]
                BY <1>7, <4>1
            <4> QED  BY <1>6, <2>2, <3>2, <4>2, <4>3
        <3> QED  BY <1>6, <2>2, <3>1, <3>2
    <2> QED  BY <1>6, <2>1, <2>2, <2>3 DEF Advances, all, new
<1> QED  BY <1>8, <1>9 DEF DeliverNag

\* A step of a run that does not write the group.
LEMMA RunStepView ==
    ASSUME TypeInv, ViewInv, pc # "done",
           UNCHANGED <<nag, version, nagIndex, watch, past>>,
           pc' = "done" \/ wcNag' = wcNag,
           copy' \in {copy, nag, None},
           spilled' = spilled \/ spilled' = Node \/ Deleting(wcNag)
    PROVE  ViewInv'
<1>1. AllVersions' = AllVersions
    BY DEF AllVersions
<1>2. VersionInv'
    <2>1. nag # None => nag.rv \in Nat /\ nag.rv <= version
        BY DEF TypeInv, TypeOK, Nags, NagObject, ViewInv, VersionInv
    <2> QED  BY <1>1, <2>1 DEF ViewInv, VersionInv
<1>3. DeletionInv'
    BY <1>1 DEF ViewInv, DeletionInv, DeletionLasts, DeadFrom, Deleting, Dead
<1>4. FinalizerInv'
    <2>1. CASE spilled' = spilled \/ spilled' = Node
        BY <1>1, <2>1 DEF ViewInv, FinalizerInv, InactiveFrom, Active, Guarded
    <2>2. CASE Deleting(wcNag)
        <3>1. DeadFrom(AllVersions, Len(past))
            BY <2>2 DEF ViewInv, DeletionInv
        <3> QED
            BY <1>1, <2>2, <3>1 DEF FinalizerInv, DeadFrom, Dead, InactiveFrom, Active, Guarded, Deleting
    <2> QED  BY <2>1, <2>2
<1> QED  BY <1>2, <1>3, <1>4 DEF ViewInv

\* A write of the group: it does not bring a deleted group back, and either
\* keeps the finalizer or happens when nobody relies on it.
LEMMA StoreView ==
    ASSUME TypeInv, ViewInv, NEW obj \in Nags, Store(obj), UNCHANGED <<nagIndex, historyVars>>,
           pc' = "done" \/ UNCHANGED <<pc, wcNag>>,
           copy' \in {copy, None},
           version = 0 \/ (Dead(nag) => Dead(obj)),
           \/ Guarded(nag) => Guarded(obj)
           \/ /\ pc' = "done" /\ Dead(nag)
              /\ DeadFrom(AllVersions, Len(past))
    PROVE  ViewInv'
<1>1. /\ nag' = None => obj = None
      /\ nag' # None => /\ obj # None /\ nag'.rv = version + 1
                        /\ nag'.deleting = obj.deleting /\ nag'.finalizers = obj.finalizers
    <2>1. CASE obj = None
        BY <2>1 DEF Store
    <2>2. CASE obj \in NagObject
        <3>1. nag' = [obj EXCEPT !.rv = version + 1]
            BY <2>2, NoNagAssumption DEF Store
        <3>2. version + 1 \in Nat
            BY DEF TypeInv, TypeOK
        <3>3. /\ nag' \in NagObject /\ nag'.rv = version + 1
              /\ nag'.deleting = obj.deleting /\ nag'.finalizers = obj.finalizers
            BY <2>2, <3>1, <3>2 DEF NagObject
        <3> QED  BY <2>2, <3>3, NoNagAssumption
    <2> QED  BY <2>1, <2>2 DEF Nags
<1> DEFINE all == AllVersions
           new == AllVersions'
<1>2. Extends(all, new, nag') /\ Len(past) < Len(all)
    BY StoreVersions DEF historyVars
<1>3. version \in Nat /\ version' = version + 1 /\ past' = past /\ spilled' = spilled
    BY DEF Store, TypeInv, TypeOK, historyVars
<1>4. VersionInv'
    <2>1. copy # None => copy.rv \in Nat
        BY DEF TypeInv, TypeOK, Nags, NagObject
    <2> QED  BY <1>1, <1>3, <2>1 DEF ViewInv, VersionInv
<1>5. Dead(nag) /\ version # 0 => Dead(nag')
    BY <1>1 DEF Dead
<1>6. DeletionLasts(all, nag) /\ (version = 0 => \A i \in 1..Len(all) : all[i] = None)
    BY DEF ViewInv, VersionInv, DeletionInv
<1> HIDE DEF all, new
<1>7. Len(past) \in Nat
    BY DEF TypeInv, TypeOK
<1>8. DeletionLasts(new, nag')
    <2> SUFFICES ASSUME NEW i \in 1..Len(new), Deleting(new[i])
                 PROVE  Dead(nag') /\ \A j \in 1..Len(new) : i < j => Dead(new[j])
        BY DEF DeletionLasts
    <2>1. CASE i = Len(all) + 1
        <3>1. Dead(nag')
            BY <1>2, <2>1 DEF Extends, Deleting, Dead
        <3>2. \A j \in 1..Len(new) : ~(i < j)
            BY <1>2, <2>1 DEF Extends
        <3> QED  BY <3>1, <3>2
    <2>2. CASE i \in 1..Len(all)
        <3>1. Deleting(all[i])
            BY <1>2, <2>2 DEF Extends, Deleting
        <3>2. version # 0
            BY <1>6, <2>2, <3>1 DEF Deleting
        <3>3. Dead(nag')
            BY <1>5, <1>6, <2>2, <3>1, <3>2 DEF DeletionLasts
        <3>4. ASSUME NEW j \in 1..Len(new), i < j PROVE Dead(new[j])
            <4>1. j = Len(all) + 1 \/ j \in 1..Len(all)
                BY <1>2 DEF Extends
            <4>2. CASE j = Len(all) + 1
                BY <1>2, <3>3, <4>2 DEF Extends
            <4>3. CASE j \in 1..Len(all)
                <5>1. Dead(all[j])
                    BY <1>6, <2>2, <3>1, <3>4, <4>3 DEF DeletionLasts
                <5>2. new[j] = all[j]
                    BY <1>2, <4>3 DEF Extends
                <5> QED  BY <5>1, <5>2
            <4> QED  BY <4>1, <4>2, <4>3
        <3> QED  BY <3>3, <3>4
    <2> QED  BY <1>2, <2>1, <2>2 DEF Extends
<1>9. DeletionInv'
    <2> SUFFICES ASSUME pc' # "done", Deleting(wcNag') PROVE Dead(nag') /\ DeadFrom(new, Len(past))
        BY <1>3, <1>8 DEF DeletionInv, Deleting, Dead, new, DeletionLasts, DeadFrom
    <2>1. Dead(nag) /\ DeadFrom(all, Len(past)) /\ version # 0
        BY DEF ViewInv, VersionInv, DeletionInv, all
    <2>2. Dead(nag')
        BY <1>5, <2>1
    <2>3. \A i \in 1..Len(new) : i = Len(all) + 1 \/ i \in 1..Len(all)
        BY <1>2 DEF Extends
    <2> QED  BY <1>2, <2>1, <2>2, <2>3 DEF DeadFrom, Extends
<1>10. FinalizerInv'
    <2>1. \A i \in 1..Len(new) : i = Len(all) + 1 \/ i \in 1..Len(all)
        BY <1>2 DEF Extends
    <2>2. CASE Guarded(nag) => Guarded(obj)
        <3>1. Guarded(nag) => Guarded(nag')
            BY <1>1, <2>2 DEF Guarded
        <3>2. CASE Guarded(nag') \/ spilled = Node
            BY <1>3, <3>2 DEF FinalizerInv, Guarded
        <3>3. CASE ~Guarded(nag') /\ spilled # Node
            <4>1. InactiveFrom(all, Len(past)) /\ (pc # "done" => ~Active(wcNag))
                BY <3>1, <3>3 DEF ViewInv, FinalizerInv, all
            <4>2. ~Active(nag')
                BY <3>3 DEF Active
            <4>3. InactiveFrom(new, Len(past))
                BY <1>2, <2>1, <4>1, <4>2 DEF InactiveFrom, Extends
            <4> QED  BY <1>3, <4>1, <4>3 DEF FinalizerInv, new, InactiveFrom, Active, Guarded
        <3> QED  BY <3>2, <3>3
    <2>3. CASE /\ pc' = "done" /\ Dead(nag)
               /\ DeadFrom(AllVersions, Len(past))
        <3>1. CASE version = 0
            <4>1. ~Guarded(nag)
                BY <3>1 DEF ViewInv, VersionInv, Guarded
            <4> QED  BY <2>2, <4>1
        <3>2. CASE version # 0
            <4>1. Dead(nag')
                BY <1>5, <2>3, <3>2
            <4>2. DeadFrom(all, Len(past))
                BY <2>3 DEF all
            <4>3. InactiveFrom(new, Len(past))
                BY <1>2, <2>1, <4>1, <4>2 DEF InactiveFrom, DeadFrom, Extends, Dead, Active, Guarded
            <4> QED  BY <1>3, <2>3, <4>3 DEF FinalizerInv, new, InactiveFrom, Active, Guarded
        <3> QED  BY <3>1, <3>2
    <2> QED  BY <2>2, <2>3
<1> QED  BY <1>4, <1>9, <1>10 DEF ViewInv

LEMMA StartView == TypeInv /\ ViewInv /\ Start => ViewInv'
<1> SUFFICES ASSUME TypeInv, ViewInv, Start PROVE ViewInv'
    OBVIOUS
<1>1. /\ UNCHANGED <<nag, version, nagIndex, watch, past, spilled, copy>>
      /\ nagIndex # None /\ wcNag' = nagIndex
    BY DEF Start, apiVars, cacheVars, historyVars
<1>2. AllVersions' = AllVersions
    BY <1>1 DEF AllVersions
<1> DEFINE all == AllVersions
           k == Len(past) + 1
<1>3. k \in 1..Len(all) /\ all[k] = nagIndex /\ Len(past) \in Nat /\ Len(all) \in Nat
    BY AllVersionsParts DEF Parts
<1>4. VersionInv'
    <2>1. version # 0
        BY <1>1, <1>3 DEF ViewInv, VersionInv
    <2> QED  BY <1>1, <2>1 DEF ViewInv, VersionInv
<1>5. DeletionLasts(all, nag) /\ FinalizerInv
    BY DEF ViewInv, DeletionInv
<1> HIDE DEF all
<1>6. DeletionInv'
    <2>1. ASSUME Deleting(nagIndex) PROVE Dead(nag) /\ DeadFrom(all, Len(past))
        <3>1. Dead(nag) /\ \A j \in 1..Len(all) : k < j => Dead(all[j])
            BY <1>3, <1>5, <2>1 DEF DeletionLasts
        <3>2. Dead(all[k])
            BY <1>3, <2>1 DEF Deleting, Dead
        <3>3. \A j \in 1..Len(all) : Len(past) < j => j = k \/ k < j
            BY <1>3
        <3> QED  BY <3>1, <3>2, <3>3 DEF DeadFrom
    <2> QED
        BY <1>1, <1>2, <1>5, <2>1 DEF DeletionInv, DeletionLasts, DeadFrom, Deleting, Dead, all
<1>7. FinalizerInv'
    <2>1. InactiveFrom(all, Len(past)) => ~Active(nagIndex)
        <3>1. Len(past) < k
            BY <1>3
        <3> QED  BY <1>3, <3>1 DEF InactiveFrom
    <2> QED  BY <1>1, <1>2, <1>5, <2>1 DEF FinalizerInv, InactiveFrom, Active, Guarded, all
<1> QED  BY <1>4, <1>6, <1>7 DEF ViewInv

LEMMA DeliverView == TypeInv /\ ViewInv /\ DeliverNag => ViewInv'
<1> SUFFICES ASSUME TypeInv, ViewInv, DeliverNag PROVE ViewInv'
    OBVIOUS
<1>1. UNCHANGED <<nag, version, pc, wcNag, copy, spilled>>
    BY DEF DeliverNag, apiVars, loopVars
<1> DEFINE all == AllVersions
           new == AllVersions'
           k == Len(past)
           l == Len(past')
<1>2. PICK d \in {0, 1} :
        /\ Len(all) \in Nat /\ k \in Nat /\ Len(new) = Len(all) - d /\ l = k + 1 - d
        /\ \A i \in 1..Len(new) : IF i <= k THEN new[i] = all[i] ELSE i + d \in 1..Len(all) /\ new[i] = all[i + d]
    BY DeliverVersions DEF Advances
<1>3. VersionInv /\ DeletionInv /\ FinalizerInv
    BY DEF ViewInv
<1> DEFINE pos(i) == IF i <= k THEN i ELSE i + d
<1> HIDE DEF all, new, k, l
<1>4. \A i \in 1..Len(new) : /\ pos(i) \in 1..Len(all) /\ new[i] = all[pos(i)]
                             /\ l < i => k < pos(i)
                             /\ \A j \in 1..Len(new) : i < j => pos(i) < pos(j)
    BY <1>2
<1> HIDE DEF pos
<1>5. VersionInv'
    <2>1. version = 0 => \A i \in 1..Len(new) : new[i] = None
        BY <1>3, <1>4 DEF VersionInv, all
    <2> QED  BY <1>1, <1>3, <2>1 DEF VersionInv, new
<1>6. DeletionInv'
    <2>1. DeletionLasts(new, nag)
        <3>1. DeletionLasts(all, nag)
            BY <1>3 DEF DeletionInv, all
        <3> QED  BY <1>4, <3>1 DEF DeletionLasts
    <2>2. DeadFrom(all, k) => DeadFrom(new, l)
        BY <1>4 DEF DeadFrom
    <2> QED
        BY <1>1, <1>3, <2>1, <2>2
            DEF DeletionInv, DeletionLasts, DeadFrom, Deleting, Dead, all, new, k, l
<1>7. FinalizerInv'
    <2>1. InactiveFrom(all, k) => InactiveFrom(new, l)
        BY <1>4 DEF InactiveFrom
    <2> QED  BY <1>1, <1>3, <2>1 DEF FinalizerInv, InactiveFrom, Active, Guarded, all, new, k, l
<1> QED  BY <1>5, <1>6, <1>7 DEF ViewInv

\* An informer that is behind the one before may show versions of a guarded
\* group whose finalizer is gone by now; Crash then leaves all nodes to
\* themselves.
LEMMA CrashView == TypeInv /\ ViewInv /\ Crash => ViewInv'
<1> SUFFICES ASSUME TypeInv, ViewInv, Crash PROVE ViewInv'
    OBVIOUS
<1> DEFINE all == AllVersions
<1>1. pc' = "done" /\ copy' = None /\ UNCHANGED <<nag, version>>
    BY DEF Crash, EndRun, apiVars
<1>2. PICK i \in DOMAIN all :
        /\ TakeOver(all, i)
        /\ spilled' = IF (nag = None \/ nag.finalizers = 0) /\ \E j \in i..Len(all) : Reconciles(all[j])
                        THEN Node ELSE spilled
    BY DEF Crash, Versions, AllVersions
<1>3. all \in Seq(Nags)
    BY AllVersionsParts DEF Parts
<1>4. VersionInv /\ DeletionInv /\ FinalizerInv
    BY DEF ViewInv
<1>5. nag # None => nag.finalizers \in Nat
    BY DEF TypeInv, TypeOK, Nags, NagObject
<1>6. AllVersions' = Versions(past', nagIndex', watch')
    BY DEF AllVersions
<1> HIDE DEF all
<1>7. AllVersions' = all /\ Len(past') = i - 1
    BY <1>2, <1>3, <1>6, TakeOverFacts
<1>8. i \in 1..Len(all) /\ Len(all) \in Nat
    BY <1>2, <1>3
<1>9. VersionInv'
    BY <1>1, <1>4, <1>7 DEF VersionInv, all
<1>10. DeletionInv'
    BY <1>1, <1>4, <1>7 DEF DeletionInv, DeletionLasts, Deleting, Dead, all
<1>11. FinalizerInv'
    <2>1. CASE Guarded(nag) \/ spilled' = Node
        BY <1>1, <2>1 DEF FinalizerInv, Guarded
    <2>2. CASE ~Guarded(nag) /\ spilled' # Node
        <3>1. \A j \in i..Len(all) : ~Reconciles(all[j])
            BY <1>2, <1>5, <2>2 DEF Guarded
        <3>2. \A j \in 1..Len(all) : i - 1 < j => j \in i..Len(all)
            BY <1>8
        <3>3. InactiveFrom(all, i - 1)
            BY <3>1, <3>2 DEF InactiveFrom, Reconciles, Active, Guarded
        <3> QED  BY <1>1, <1>7, <3>3 DEF FinalizerInv, InactiveFrom, Active, Guarded
    <2> QED  BY <2>1, <2>2
<1> QED  BY <1>9, <1>10, <1>11 DEF ViewInv

-----------------------------------------------------------------------------
(* The traces of the group on the nodes. *)

\* The step leaves no trace on node n that was not there.
Cleaner(n) ==
    nodes'[n] # None =>
        IF nodes[n] = None
          THEN ~HasTraces(nodes'[n])
          ELSE /\ nodes[n].assign = None => nodes'[n].assign = None
               /\ GroupTaints(nodes[n]) = {} => GroupTaints(nodes'[n]) = {}

\* The step does not write the assignment of node n.
SameAssign(n) == nodes[n] # None /\ nodes'[n] # None => nodes'[n].assign = nodes[n].assign

\* What UpdateNodeAssignment does to the live node when it takes the group
\* off: a stale copy never puts a trace back.
LEMMA UnassignCleaner ==
    ASSUME TypeInv, NEW n \in Node, mem[n] \in NodeObject,
           \/ PatchNode(n, mem[n], Unassign(mem[n]))
           \/ PatchFails(n, mem[n], Unassign(mem[n]))
    PROVE  /\ \A m \in Node : Cleaner(m)
           /\ \A m \in Node : m # n => nodes'[m] = nodes[m]
<1> DEFINE old == mem[n]
           new == Unassign(mem[n])
           patched == Patch(nodes[n], old, new)
<1>1. nodes' = nodes \/ (nodes[n] # None /\ nodes' = [nodes EXCEPT ![n] = patched])
    BY DEF PatchNode, PatchFails
<1>2. new \in NodeObject /\ new.assign = None /\ GroupTaints(new) = {}
    BY UnassignFacts DEF HasTraces
<1>3. ASSUME nodes[n] # None
      PROVE  /\ nodes[n].assign = None => patched.assign = None
             /\ GroupTaints(nodes[n]) = {} => GroupTaints(patched) = {}
    <2> HIDE DEF new
    <2>1. nodes[n] \in NodeObject
        BY <1>3 DEF TypeInv, TypeOK, NodeMap
    <2>2. patched.assign = IF new.assign = old.assign THEN nodes[n].assign ELSE new.assign
        BY <2>1 DEF Patch, NodeObject
    <2>3. patched.taints = IF new.taints = old.taints THEN nodes[n].taints ELSE new.taints
        BY <2>1 DEF Patch, NodeObject
    <2> QED  BY <1>2, <2>2, <2>3 DEF GroupTaints
<1> HIDE DEF patched
<1>4. ASSUME NEW m \in Node, m # n
      PROVE  nodes'[m] = nodes[m]
    BY <1>1, <1>4 DEF TypeInv, TypeOK, NodeMap
<1>5. nodes'[n] = nodes[n] \/ (nodes[n] # None /\ nodes'[n] = patched)
    BY <1>1 DEF TypeInv, TypeOK, NodeMap
<1>6. \A m \in Node : Cleaner(m)
    BY <1>3, <1>4, <1>5 DEF Cleaner
<1> QED  BY <1>4, <1>6

\* The same patch, made from a copy that shows the traces there are, leaves
\* none.
LEMMA UnassignCleans ==
    ASSUME TypeInv, NEW n \in Node, mem[n] \in NodeObject,
           nodes[n] # None =>
              /\ mem[n].assign = None => nodes[n].assign = None
              /\ GroupTaints(mem[n]) = {} => GroupTaints(nodes[n]) = {},
           PatchNode(n, mem[n], Unassign(mem[n]))
    PROVE  nodes'[n] = None \/ ~HasTraces(nodes'[n])
<1> DEFINE old == mem[n]
           new == Unassign(mem[n])
           patched == Patch(nodes[n], old, new)
<1>1. \/ new = old /\ nodes' = nodes
      \/ nodes[n] # None /\ nodes' = [nodes EXCEPT ![n] = patched]
    BY DEF PatchNode
<1>2. new \in NodeObject /\ new.assign = None /\ GroupTaints(new) = {}
    BY UnassignFacts DEF HasTraces
<1>3. ASSUME nodes[n] # None
      PROVE  patched.assign = None /\ GroupTaints(patched) = {}
    <2> HIDE DEF new
    <2>1. nodes[n] \in NodeObject
        BY <1>3 DEF TypeInv, TypeOK, NodeMap
    <2>2. patched.assign = IF new.assign = old.assign THEN nodes[n].assign ELSE new.assign
        BY <2>1 DEF Patch, NodeObject
    <2>3. patched.taints = IF new.taints = old.taints THEN nodes[n].taints ELSE new.taints
        BY <2>1 DEF Patch, NodeObject
    <2>4. new.taints = old.taints => GroupTaints(old) = {}
        BY <1>2 DEF GroupTaints
    <2> QED  BY <1>2, <1>3, <2>2, <2>3, <2>4 DEF GroupTaints
<1> HIDE DEF patched, new
<1>4. CASE new = old /\ nodes' = nodes
    BY <1>2, <1>4 DEF HasTraces, IsAssigned, GetAssignment
<1>5. CASE nodes[n] # None /\ nodes' = [nodes EXCEPT ![n] = patched]
    <2>1. nodes'[n] = patched
        BY <1>5 DEF TypeInv, TypeOK, NodeMap
    <2> QED  BY <1>3, <1>5, <2>1 DEF HasTraces, IsAssigned, GetAssignment
<1> QED  BY <1>1, <1>4, <1>5

LEMMA CleanerTraceless ==
    ASSUME NEW n, Cleaner(n), Traceless(n)
    PROVE  nodes'[n] = None \/ ~HasTraces(nodes'[n])
    BY DEF Cleaner, Traceless, HasTraces, IsAssigned, GetAssignment

\* Users and other controllers do not put traces of the group on a node, nor
\* do they assign it.
LEMMA NodeEditCleaner ==
    ASSUME TypeInv, NodeEdit
    PROVE  \A n \in Node : Cleaner(n) /\ SameAssign(n)
<1> DEFINE Harmless(n, obj) ==
        /\ obj \in NodeObject \cup {None}
        /\ obj # None =>
             IF nodes[n] = None
               THEN obj.assign = None /\ GroupTaints(obj) = {}
               ELSE obj.assign = nodes[n].assign /\ GroupTaints(obj) = GroupTaints(nodes[n])
<1>1. ASSUME NEW n \in Node, NEW obj, NEW kind, Harmless(n, obj), EditNode(kind, n, obj)
      PROVE  \A m \in Node : Cleaner(m) /\ SameAssign(m)
    <2>1. nodes'[n] = obj /\ \A m \in Node : m # n => nodes'[m] = nodes[m]
        BY <1>1 DEF EditNode, TypeInv, TypeOK, NodeMap
    <2> QED  BY <1>1, <2>1 DEF Cleaner, SameAssign, HasTraces, IsAssigned, GetAssignment
<1>2. \A n \in Node : nodes[n] # None => nodes[n] \in NodeObject
    BY DEF TypeInv, TypeOK, NodeMap
<1>3. CASE AddNode
    <2>1. PICK n \in Node, ls \in SUBSET Label :
            nodes[n] = None /\ EditNode("addNode", n, Fresh(ls))
        BY <1>3 DEF AddNode
    <2>2. Harmless(n, Fresh(ls))
        BY <2>1 DEF Fresh, NodeObject, GroupTaints
    <2> QED  BY <1>1, <2>1, <2>2
<1>4. CASE DeleteNode
    <2>1. \A n \in Node : Harmless(n, None)
        OBVIOUS
    <2> HIDE DEF Harmless
    <2> QED  BY <1>1, <1>4, <2>1 DEF DeleteNode
<1>5. CASE RelabelNode
    <2>0. PICK n \in Node, l \in Label : nodes[n] # None /\
            \E ls \in {nodes[n].labels \cup {l}, nodes[n].labels \ {l}} :
                EditNode("label", n, [nodes[n] EXCEPT !.labels = ls])
        BY <1>5 DEF RelabelNode
    <2>1. PICK ls \in {nodes[n].labels \cup {l}, nodes[n].labels \ {l}} :
            nodes[n] # None /\ EditNode("label", n, [nodes[n] EXCEPT !.labels = ls])
        BY <2>0
    <2>2. Harmless(n, [nodes[n] EXCEPT !.labels = ls])
        BY <1>2, <2>1 DEF NodeObject, GroupTaints
    <2> HIDE DEF Harmless
    <2> QED  BY <1>1, <2>1, <2>2
<1>6. CASE ProtectNode
    <2>1. PICK n \in Node : nodes[n] # None
            /\ EditNode("protect", n, [nodes[n] EXCEPT !.labels = @ \cup {Protected}])
        BY <1>6 DEF ProtectNode
    <2>2. Harmless(n, [nodes[n] EXCEPT !.labels = @ \cup {Protected}])
        BY <1>2, <2>1 DEF NodeObject, GroupTaints
    <2> HIDE DEF Harmless
    <2> QED  BY <1>1, <2>1, <2>2
<1>7. CASE ForeignTaint
    <2> DEFINE t == [key |-> "other", value |-> None, effect |-> "NoExecute"]
    <2>1. PICK n \in Node : nodes[n] # None
            /\ EditNode("taint", n,
                 [nodes[n] EXCEPT !.taints = IF t \in @ THEN @ \ {t} ELSE @ \cup {t}])
        BY <1>7 DEF ForeignTaint
    <2>2. t \in Taint /\ t.key # "nag"
        BY DEF Taint, Effect
    <2>3. Harmless(n, [nodes[n] EXCEPT !.taints = IF t \in @ THEN @ \ {t} ELSE @ \cup {t}])
        <3> HIDE DEF t
        <3> QED  BY <1>2, <2>1, <2>2 DEF NodeObject, GroupTaints
    <2> HIDE DEF Harmless
    <2> QED  BY <1>1, <2>1, <2>3
<1> QED  BY <1>3, <1>4, <1>5, <1>6, <1>7 DEF NodeEdit

\* A step that leaves no new trace, keeps the group's finalizer and does not
\* move the run preserves what is known of the traces.
LEMMA KeepsTraceless ==
    ASSUME IInv, \A n \in Node : Cleaner(n), Guarded(nag) => Guarded(nag'),
           spilled \subseteq spilled'
    PROVE  TracesImplyFinalizer'
<1>1. ASSUME NEW n \in Node \ spilled', nodes'[n] # None, HasTraces(nodes'[n])
      PROVE  Guarded(nag')
    <2>1. ~Traceless(n)
        BY <1>1, CleanerTraceless
    <2> QED  BY <2>1 DEF Traceless, IInv, TracesImplyFinalizer, Guarded
<1> QED
    BY <1>1 DEF TracesImplyFinalizer, HasTraces, Guarded, IsAssigned, GetAssignment, GroupTaints

LEMMA KeepsCleanup ==
    ASSUME IInv, \A n \in Node : Cleaner(n), pc' = "done" \/ UNCHANGED <<pc, mem, todo, spilled>>
    PROVE  CleanupInv'
<1>1. \A n \in Node : Traceless(n) => Traceless(n)'
    <2> SUFFICES ASSUME NEW n \in Node, Traceless(n) PROVE Traceless(n)'
        OBVIOUS
    <2>1. nodes'[n] = None \/ ~HasTraces(nodes'[n])
        BY CleanerTraceless
    <2> QED  BY <2>1 DEF Traceless, HasTraces, IsAssigned, GetAssignment, GroupTaints
<1>2. CASE pc' = "done"
    BY <1>2 DEF CleanupInv
<1>3. CASE UNCHANGED <<pc, mem, todo, spilled>>
    <2>1. pc = "unassignAll" => (\A n \in todo :
           nodes[n] # None =>
              /\ mem[n].assign = None => nodes[n].assign = None
              /\ GroupTaints(mem[n]) = {} => GroupTaints(nodes[n]) = {})'
        BY <1>3 DEF IInv, TypeInv, TypeOK, CleanupInv, Cleaner, HasTraces, IsAssigned, GetAssignment,
            GroupTaints
    <2>2. pc = "unassignAll" => (\A n \in Node \ (todo \cup spilled) : Traceless(n))'
        <3> SUFFICES ASSUME pc = "unassignAll", NEW n \in Node, n \notin todo \cup spilled
                     PROVE  Traceless(n)'
            BY <1>3
        <3> QED  BY <1>1, <1>3 DEF IInv, CleanupInv
    <2>3. pc \in {"removeGet", "removeUpdate"} => (\A n \in Node \ spilled : Traceless(n))'
        <3> SUFFICES ASSUME pc \in {"removeGet", "removeUpdate"}, NEW n \in Node \ spilled
                     PROVE  Traceless(n)'
            BY <1>3
        <3> QED  BY <1>1 DEF IInv, CleanupInv
    <2> QED  BY <1>3, <2>1, <2>2, <2>3 DEF CleanupInv
<1> QED  BY <1>2, <1>3

LEMMA SameNodes ==
    ASSUME UNCHANGED nodes
    PROVE  \A n \in Node : Cleaner(n)
    BY DEF Cleaner

-----------------------------------------------------------------------------
(* Every step preserves the invariant, if the group is not created again.  *)

Reconciling == {"reconcile", "default", "cleanup", "cleanupPatch"}
Removing == {"unassignList", "unassignAll", "removeGet", "removeUpdate"}

LEMMA InitInv == Init => IInv
<1> SUFFICES ASSUME Init PROVE IInv
    OBVIOUS
<1>1. TypeInv
    BY InitType
<1>2. ViewInv
    <2>1. Len(past) = 0 /\ Len(watch) = 0
        BY DEF Init
    <2>2. Parts(AllVersions, past, nagIndex, watch)
        BY <1>1, AllVersionsParts
    <2>3. \A i \in 1..Len(AllVersions) : AllVersions[i] = None
        <3> DEFINE all == AllVersions
        <3> HIDE DEF all
        <3>1. Len(all) = 1 /\ all[1] = nagIndex
            BY <2>1, <2>2 DEF Parts, all
        <3>2. \A i \in 1..Len(all) : all[i] = None
            BY <3>1 DEF Init
        <3> QED  BY <3>2 DEF all
    <2>4. VersionInv
        BY <2>3 DEF Init, VersionInv
    <2>5. DeletionInv
        BY <2>3 DEF Init, DeletionInv, DeletionLasts, Deleting
    <2>6. FinalizerInv
        BY <2>3 DEF Init, FinalizerInv, InactiveFrom, Active, Guarded
    <2> QED  BY <2>4, <2>5, <2>6 DEF ViewInv
<1>3. PhaseInv /\ CleanupInv
    BY DEF Init, PhaseInv, CleanupInv
<1>4. TracesImplyFinalizer
    <2>1. \A n \in Node : nodes[n] = None \/ \E ls \in SUBSET Label : nodes[n] = Fresh(ls)
        BY DEF Init
    <2>2. \A ls \in SUBSET Label : ~HasTraces(Fresh(ls))
        BY DEF Fresh, HasTraces, IsAssigned, GetAssignment, GroupTaints
    <2> QED  BY <2>1, <2>2 DEF TracesImplyFinalizer
<1> QED  BY <1>1, <1>2, <1>3, <1>4 DEF IInv

\* A step of a run that writes neither the group nor a node, and that does
\* not enter UnassignAllNodes or RemoveFinalizer.
LEMMA QuietStep ==
    ASSUME IInv, TypeInv', pc # "done",
           UNCHANGED <<nodes, nag, version, nagIndex, watch, historyVars>>,
           copy' \in {copy, nag, None},
           \/ pc' = "done"
           \/ /\ wcNag' = wcNag
              /\ pc' \in Reconciling => pc \in Reconciling \/ Active(wcNag)
              /\ pc' \in Removing => pc \in Removing \/ Deleting(wcNag)
              /\ pc' # "unassignAll"
              /\ pc' \in {"removeGet", "removeUpdate"} => pc \in {"removeGet", "removeUpdate"}
    PROVE  IInv'
<1>1. ViewInv'
    BY RunStepView DEF IInv, historyVars
<1>2. PhaseInv'
    BY DEF IInv, PhaseInv, Reconciling, Removing, Active, Guarded, Deleting
<1>3. CleanupInv'
    BY DEF IInv, CleanupInv, Traceless, HasTraces, IsAssigned, GetAssignment, GroupTaints,
        historyVars
<1>4. TracesImplyFinalizer'
    BY SameNodes, KeepsTraceless DEF Guarded, historyVars
<1> QED  BY <1>1, <1>2, <1>3, <1>4 DEF IInv

LEMMA QuietSteps ==
    ASSUME IInv, TypeInv',
           \/ ListNodes \/ Decide \/ AddGet \/ AddRetry \/ AddFails \/ KeepNode \/ ReleaseNode
           \/ EndAssigning \/ CleanupGet \/ EndReconcile
           \/ RemoveGet \/ RemoveRetry \/ RemoveFails
    PROVE  IInv'
<1> USE QuietStep DEF apiVars, cacheVars, Reconciling, Removing
<1>1. CASE ListNodes
    BY <1>1 DEF ListNodes, Goto
<1>2. CASE Decide
    <2>1. pc = "sets" /\ wcNag' = wcNag /\ wcNag # None
            /\ UNCHANGED <<nodes, nag, version, nagIndex, watch, historyVars, copy>>
        BY <1>2 DEF Decide, Goto, IInv, TypeInv, TypeOK
    <2>2. \/ pc' = "unassignList" /\ Deleting(wcNag)
          \/ pc' = "reconcile" /\ Active(wcNag)
          \/ pc' = "addGet"
        BY <1>2, <2>1 DEF Decide, Goto, Deleting, Active, Guarded
    <2> QED  BY <2>1, <2>2
<1>3. CASE AddGet
    BY <1>3 DEF AddGet, GetNag, Goto
<1>4. CASE AddRetry
    BY <1>4 DEF AddRetry, RetryUpdate, Goto, EndRun
<1>5. CASE AddFails
    BY <1>5 DEF AddFails, UpdateFails, EndRun
<1>6. CASE KeepNode
    BY <1>6 DEF KeepNode
<1>7. CASE ReleaseNode
    BY <1>7 DEF ReleaseNode
<1>8. CASE EndAssigning
    BY <1>8 DEF EndAssigning, Goto
<1>9. CASE CleanupGet
    BY <1>9 DEF CleanupGet, Goto
<1>10. CASE EndReconcile
    BY <1>10 DEF EndReconcile, EndRun
<1>11. CASE RemoveGet
    BY <1>11 DEF RemoveGet, GetNag, Goto
<1>12. CASE RemoveRetry
    BY <1>12 DEF RemoveRetry, RetryUpdate, Goto, EndRun
<1>13. CASE RemoveFails
    BY <1>13 DEF RemoveFails, UpdateFails, EndRun
<1> QED
    BY <1>1, <1>2, <1>3, <1>4, <1>5, <1>6, <1>7, <1>8, <1>9, <1>10, <1>11, <1>12, <1>13

\* UnassignAllNodes works on a fresh list, or leaves all nodes to themselves
\* when it gets none ...
LEMMA UnassignListInv == IInv /\ TypeInv' /\ UnassignList => IInv'
<1> SUFFICES ASSUME IInv, TypeInv', UnassignList PROVE IInv'
    OBVIOUS
<1>1. /\ pc = "unassignList" /\ wcNag' = wcNag
      /\ \/ pc' = "unassignAll" /\ mem' = nodes /\ todo' = {n \in Node : nodes[n] # None}
              /\ spilled' = spilled
         \/ pc' = "removeGet" /\ spilled' = Node
      /\ UNCHANGED <<nodes, nag, version, nagIndex, watch, past, copy>>
    BY DEF UnassignList, Goto, apiVars, cacheVars
<1>2. ViewInv'
    BY <1>1, RunStepView DEF IInv
<1>3. PhaseInv'
    BY <1>1 DEF IInv, PhaseInv, Deleting
<1>4. CleanupInv'
    BY <1>1 DEF CleanupInv, Traceless, HasTraces, IsAssigned, GetAssignment, GroupTaints
<1>5. TracesImplyFinalizer'
    <2>1. spilled \subseteq spilled'
        BY <1>1 DEF IInv, TypeInv, TypeOK
    <2> QED  BY <1>1, <2>1, SameNodes, KeepsTraceless DEF Guarded
<1> QED  BY <1>2, <1>3, <1>4, <1>5 DEF IInv

\* ... cleans one node after the other, or leaves it to itself ...
LEMMA UnassignNodeInv == IInv /\ TypeInv' /\ UnassignNode => IInv'
<1> SUFFICES ASSUME IInv, TypeInv', UnassignNode PROVE IInv'
    OBVIOUS
<1>1. PICK n \in todo :
        /\ pc = "unassignAll"
        /\ \/ PatchNode(n, mem[n], Unassign(mem[n])) /\ spilled' = spilled \ {n}
           \/ /\ PatchFails(n, mem[n], Unassign(mem[n]))
              /\ spilled' = IF nodes[n] = None THEN spilled ELSE spilled \cup {n}
        /\ todo' = todo \ {n}
        /\ UNCHANGED <<nag, version, cacheVars, pc, wcNag, mem, copy, past>>
    BY DEF UnassignNode
<1>2. n \in Node /\ mem[n] \in NodeObject
    BY <1>1 DEF IInv, TypeInv, TypeOK, MemInv, NodeMap
<1>3. nodes[n] # None =>
        /\ mem[n].assign = None => nodes[n].assign = None
        /\ GroupTaints(mem[n]) = {} => GroupTaints(nodes[n]) = {}
    BY <1>1 DEF IInv, CleanupInv
<1>4. n \in spilled' \/ nodes'[n] = None \/ ~HasTraces(nodes'[n])
    <2>1. CASE PatchNode(n, mem[n], Unassign(mem[n]))
        BY <1>2, <1>3, <2>1, UnassignCleans DEF IInv
    <2>2. CASE /\ PatchFails(n, mem[n], Unassign(mem[n]))
               /\ spilled' = IF nodes[n] = None THEN spilled ELSE spilled \cup {n}
        BY <2>2 DEF PatchFails
    <2> QED  BY <1>1, <2>1, <2>2
<1>5. (\A m \in Node : Cleaner(m)) /\ \A m \in Node : m # n => nodes'[m] = nodes[m]
    BY <1>1, <1>2, UnassignCleaner DEF IInv
<1>6. Deleting(wcNag)
    BY <1>1 DEF IInv, PhaseInv
<1>7. ViewInv'
    BY <1>1, <1>6, RunStepView DEF IInv, cacheVars
<1>8. PhaseInv'
    BY <1>1 DEF IInv, PhaseInv, Deleting
<1>9. \A m \in Node : m # n /\ m \in spilled => m \in spilled'
    BY <1>1
<1>10. CleanupInv'
    <2>1. ASSUME NEW m \in Node, m \notin todo', m \notin spilled'
          PROVE  nodes'[m] = None \/ ~HasTraces(nodes'[m])
        <3>1. CASE m = n
            BY <1>4, <2>1, <3>1
        <3>2. CASE m # n
            BY <1>1, <1>5, <1>9, <2>1, <3>2 DEF IInv, CleanupInv, Traceless
        <3> QED  BY <3>1, <3>2
    <2>2. \A m \in todo' : m \in todo /\ m \in Node /\ nodes'[m] = nodes[m]
        BY <1>1, <1>5 DEF IInv, TypeInv, TypeOK
    <2>3. (\A m \in Node \ (todo \cup spilled) : Traceless(m))'
        BY <2>1 DEF Traceless, HasTraces, IsAssigned, GetAssignment, GroupTaints
    <2>4. (\A m \in todo :
             nodes[m] # None =>
                /\ mem[m].assign = None => nodes[m].assign = None
                /\ GroupTaints(mem[m]) = {} => GroupTaints(nodes[m]) = {})'
        BY <1>1, <2>2 DEF IInv, CleanupInv, GroupTaints
    <2> QED  BY <1>1, <2>3, <2>4 DEF CleanupInv
<1>11. TracesImplyFinalizer'
    <2> SUFFICES ASSUME NEW m \in Node \ spilled', nodes'[m] # None, HasTraces(nodes'[m])
                 PROVE  Guarded(nag)
        BY <1>1 DEF TracesImplyFinalizer, HasTraces, Guarded, IsAssigned, GetAssignment, GroupTaints
    <2>1. m # n
        BY <1>4
    <2>2. m \notin spilled /\ nodes'[m] = nodes[m]
        BY <1>5, <1>9, <2>1
    <2> QED  BY <2>2 DEF IInv, TracesImplyFinalizer, Guarded
<1> QED  BY <1>7, <1>8, <1>10, <1>11 DEF IInv

\* ... and leaves nothing to RemoveFinalizer.
LEMMA EndUnassignInv == IInv /\ TypeInv' /\ EndUnassign => IInv'
<1> SUFFICES ASSUME IInv, TypeInv', EndUnassign PROVE IInv'
    OBVIOUS
<1>1. /\ pc = "unassignAll" /\ todo = {} /\ pc' = "removeGet" /\ wcNag' = wcNag
      /\ UNCHANGED <<nodes, nag, version, nagIndex, watch, past, spilled, copy>>
    BY DEF EndUnassign, Goto, apiVars, cacheVars, historyVars
<1>2. ViewInv'
    BY <1>1, RunStepView DEF IInv
<1>3. PhaseInv'
    BY <1>1 DEF IInv, PhaseInv, Deleting
<1>4. CleanupInv'
    BY <1>1 DEF IInv, CleanupInv, Traceless, HasTraces, IsAssigned, GetAssignment, GroupTaints
<1>5. TracesImplyFinalizer'
    BY <1>1, SameNodes, KeepsTraceless DEF Guarded
<1> QED  BY <1>2, <1>3, <1>4, <1>5 DEF IInv

\* The two other places where nodes are unassigned.
LEMMA UnassignInv == IInv /\ TypeInv' /\ (UnassignUntargeted \/ CleanupPatch) => IInv'
<1> SUFFICES ASSUME IInv, TypeInv', UnassignUntargeted \/ CleanupPatch PROVE IInv'
    OBVIOUS
<1>1. /\ \/ pc = "sets" /\ pc' = "sets"
         \/ pc = "cleanupPatch" /\ pc' = "cleanup"
      /\ wcNag' = wcNag
      /\ UNCHANGED <<nag, version, nagIndex, watch, past, spilled, copy>>
    BY DEF UnassignUntargeted, CleanupPatch, Goto, cacheVars, historyVars
<1>2. \E n \in Node : /\ mem[n] \in NodeObject
                      /\ \/ PatchNode(n, mem[n], Unassign(mem[n]))
                         \/ PatchFails(n, mem[n], Unassign(mem[n]))
    BY DEF UnassignUntargeted, CleanupPatch, IInv, TypeInv, TypeOK, MemInv, NodeMap
<1>3. \A m \in Node : Cleaner(m)
    BY <1>2, UnassignCleaner DEF IInv
<1>4. ViewInv'
    BY <1>1, RunStepView DEF IInv
<1>5. PhaseInv'
    BY <1>1 DEF IInv, PhaseInv, Active, Guarded
<1>6. CleanupInv'
    BY <1>1 DEF CleanupInv
<1>7. TracesImplyFinalizer'
    BY <1>1, <1>3, KeepsTraceless DEF Guarded
<1> QED  BY <1>4, <1>5, <1>6, <1>7 DEF IInv

\* Nodes are only assigned by a run that has seen a live group with the
\* finalizer, and that finalizer is still there, or all nodes have been left
\* to themselves.
LEMMA AssignInv == IInv /\ TypeInv' /\ (AssignNode \/ ApplyDefault) => IInv'
<1> SUFFICES ASSUME IInv, TypeInv', AssignNode \/ ApplyDefault PROVE IInv'
    OBVIOUS
<1>1. /\ pc \in {"reconcile", "default"}
      /\ UNCHANGED <<nag, version, nagIndex, watch, past, spilled>>
      /\ \/ pc' = "done" /\ copy' = None
         \/ pc' \in {"reconcile", "default"} /\ wcNag' = wcNag /\ copy' = copy
    BY DEF AssignNode, ApplyDefault, Goto, EndRun, cacheVars, historyVars
<1>2. Active(wcNag) /\ (Guarded(nag) \/ spilled = Node)
    BY <1>1 DEF IInv, PhaseInv, ViewInv, FinalizerInv
<1>3. ViewInv'
    BY <1>1, RunStepView DEF IInv
<1>4. PhaseInv'
    BY <1>1, <1>2 DEF PhaseInv, Active, Guarded
<1>5. CleanupInv'
    BY <1>1 DEF CleanupInv
<1>6. TracesImplyFinalizer'
    BY <1>1, <1>2 DEF TracesImplyFinalizer, Guarded
<1> QED  BY <1>3, <1>4, <1>5, <1>6 DEF IInv

\* A write of the group that keeps the finalizer.
LEMMA GuardedStore ==
    ASSUME IInv, TypeInv', NEW obj \in Nags, Store(obj),
           UNCHANGED <<nodes, nagIndex, historyVars>>,
           \/ pc' = "done" /\ copy' = None
           \/ UNCHANGED <<pc, wcNag, mem, todo, copy>>,
           version = 0 \/ (Dead(nag) => Dead(obj)),
           Guarded(nag) => Guarded(obj)
    PROVE  IInv'
<1>1. ViewInv'
    BY StoreView DEF IInv
<1>2. Guarded(nag) => Guarded(nag')
    <2>1. CASE obj = None
        BY <2>1 DEF Guarded
    <2>2. CASE obj \in NagObject
        <3>1. nag' = [obj EXCEPT !.rv = version + 1]
            BY <2>2, NoNagAssumption DEF Store
        <3>2. version + 1 \in Nat
            BY DEF IInv, TypeInv, TypeOK
        <3>3. nag' \in NagObject /\ nag'.finalizers = obj.finalizers
            BY <2>2, <3>1, <3>2 DEF NagObject
        <3> QED  BY <2>2, <3>3, NoNagAssumption DEF Guarded
    <2> QED  BY <2>1, <2>2 DEF Nags
<1>3. PhaseInv'
    BY DEF IInv, PhaseInv, Active, Guarded, Deleting
<1>4. CleanupInv'
    BY SameNodes, KeepsCleanup DEF historyVars
<1>5. TracesImplyFinalizer'
    BY <1>2, SameNodes, KeepsTraceless DEF historyVars
<1> QED  BY <1>1, <1>3, <1>4, <1>5 DEF IInv

\* An update that meets no conflict was made from the current group.
LEMMA NoConflict ==
    ASSUME IInv, copy # None, nag # None, ~Conflict
    PROVE  copy = nag /\ copy \in NagObject
    BY DEF IInv, TypeInv, TypeOK, Nags, ViewInv, VersionInv, Conflict

LEMMA AddUpdateInv == IInv /\ TypeInv' /\ AddUpdate => IInv'
<1> SUFFICES ASSUME IInv, TypeInv', AddUpdate PROVE IInv'
    OBVIOUS
<1> DEFINE obj == [copy EXCEPT !.finalizers = @ + 1]
<1>1. copy = nag /\ copy \in NagObject
    BY NoConflict DEF AddUpdate
<1>2. obj \in NagObject /\ obj.finalizers = copy.finalizers + 1 /\ obj.deleting = copy.deleting
    BY <1>1 DEF NagObject
<1>3. Guarded(obj) /\ (Dead(nag) => Dead(obj))
    BY <1>1, <1>2, NoNagAssumption DEF Guarded, Dead, NagObject
<1>4. Store(obj) /\ UNCHANGED <<nodes, nagIndex, historyVars>> /\ pc' = "done" /\ copy' = None
    BY DEF AddUpdate, Answered, EndRun
<1> HIDE DEF obj
<1> QED  BY <1>2, <1>3, <1>4, GuardedStore DEF Nags

\* The finalizer goes when no node has a trace and nobody relies on it.
LEMMA RemoveUpdateInv == IInv /\ TypeInv' /\ RemoveUpdate => IInv'
<1> SUFFICES ASSUME IInv, TypeInv', RemoveUpdate PROVE IInv'
    OBVIOUS
<1> DEFINE obj == AfterFinalizers([copy EXCEPT !.finalizers = 0])
<1>1. copy = nag /\ copy \in NagObject
    BY NoConflict DEF RemoveUpdate
<1>2. /\ pc = "removeUpdate" /\ pc' = "done" /\ copy' = None /\ UNCHANGED <<nodes, nagIndex, past, spilled>>
      /\ UNCHANGED <<nag, version, watch>> \/ Store(obj)
    BY DEF RemoveUpdate, Answered, EndRun, historyVars
<1>3. [copy EXCEPT !.finalizers = 0] \in NagObject
        /\ [copy EXCEPT !.finalizers = 0].deleting = copy.deleting
    BY <1>1 DEF NagObject
<1>4. obj \in Nags
    BY <1>3, NagEditType
<1>5. Dead(nag) => Dead(obj)
    BY <1>1, <1>3, NoNagAssumption DEF Dead, AfterFinalizers
<1> HIDE DEF obj
<1>6. Dead(nag) /\ DeadFrom(AllVersions, Len(past))
    BY <1>2 DEF IInv, PhaseInv, ViewInv, DeletionInv
<1>7. ViewInv'
    <2>1. CASE UNCHANGED <<nag, version, watch>>
        BY <1>2, <2>1, RunStepView DEF IInv
    <2>2. CASE Store(obj)
        BY <1>2, <1>4, <1>5, <1>6, <2>2, StoreView DEF IInv, historyVars
    <2> QED  BY <1>2, <2>1, <2>2
<1>8. PhaseInv' /\ CleanupInv'
    BY <1>2 DEF PhaseInv, CleanupInv
<1>9. TracesImplyFinalizer'
    BY <1>2 DEF IInv, CleanupInv, Traceless, TracesImplyFinalizer, HasTraces, IsAssigned,
        GetAssignment, GroupTaints
<1> QED  BY <1>7, <1>8, <1>9 DEF IInv

LEMMA NagEditInv == ~Recreation /\ IInv /\ TypeInv' /\ NagEdit => IInv'
<1> SUFFICES ASSUME ~Recreation, IInv, TypeInv', NagEdit PROVE IInv'
    OBVIOUS
<1>1. ASSUME NEW kind, NEW obj \in Nags, EditNag(kind, obj),
             version = 0 \/ (Dead(nag) => Dead(obj)), Guarded(nag) => Guarded(obj)
      PROVE  IInv'
    <2>1. /\ Store(obj) /\ UNCHANGED <<nodes, nagIndex, historyVars>>
          /\ UNCHANGED <<pc, wcNag, mem, todo, copy>>
        BY <1>1 DEF EditNag, Edit, loopVars
    <2> QED  BY <1>1, <2>1, GuardedStore
<1>2. nag # None => nag \in NagObject
    BY DEF IInv, TypeInv, TypeOK, Nags
<1>3. CASE CreateNag
    <2>1. PICK spec \in Specs :
            EditNag("spec", [spec |-> spec, finalizers |-> 0, others |-> FALSE,
                             deleting |-> FALSE, rv |-> 0])
        BY <1>3 DEF CreateNag
    <2>2. [spec |-> spec, finalizers |-> 0, others |-> FALSE, deleting |-> FALSE, rv |-> 0] \in Nags
        BY DEF Nags, NagObject
    <2>3. version = 0 /\ ~Guarded(nag)
        BY <1>3 DEF CreateNag, Guarded
    <2> QED  BY <1>1, <2>1, <2>2, <2>3
<1>4. CASE UpdateNag
    <2>1. PICK spec \in Specs : EditNag("spec", [nag EXCEPT !.spec = spec])
        BY <1>4 DEF UpdateNag
    <2> DEFINE obj == [nag EXCEPT !.spec = spec]
    <2>2. obj \in NagObject /\ obj.deleting = nag.deleting /\ obj.finalizers = nag.finalizers
        BY <1>2, <1>4 DEF UpdateNag, NagObject
    <2>3. (Dead(nag) => Dead(obj)) /\ (Guarded(nag) => Guarded(obj))
        BY <1>4, <2>2, NoNagAssumption DEF UpdateNag, Dead, Guarded
    <2> HIDE DEF obj
    <2>4. EditNag("spec", obj)
        BY <2>1 DEF obj
    <2> QED  BY <1>1, <2>2, <2>3, <2>4 DEF Nags
<1>5. CASE DeleteNag
    <2> DEFINE marked == [nag EXCEPT !.deleting = TRUE]
    <2>1. marked \in NagObject /\ marked.deleting /\ marked.finalizers = nag.finalizers
        BY <1>2, <1>5 DEF DeleteNag, NagObject
    <2> HIDE DEF marked
    <2>2. Dead(AfterFinalizers(marked)) /\ (Guarded(nag) => Guarded(AfterFinalizers(marked)))
        BY <2>1, NoNagAssumption DEF AfterFinalizers, Dead, Guarded
    <2>3. AfterFinalizers(marked) \in Nags
        BY <2>1, NagEditType
    <2>4. EditNag("spec", AfterFinalizers(marked))
        BY <1>5 DEF DeleteNag, marked
    <2> QED  BY <1>1, <2>2, <2>3, <2>4
<1>6. CASE OtherFinalizer
    <2> DEFINE on == [nag EXCEPT !.others = TRUE]
               off == [nag EXCEPT !.others = FALSE]
    <2>1. /\ on \in NagObject /\ on.deleting = nag.deleting /\ on.finalizers = nag.finalizers
          /\ off \in NagObject /\ off.deleting = nag.deleting /\ off.finalizers = nag.finalizers
        BY <1>2, <1>6 DEF OtherFinalizer, NagObject
    <2>2. EditNag("finalizer", on) \/ EditNag("finalizer", AfterFinalizers(off))
        BY <1>6 DEF OtherFinalizer
    <2> HIDE DEF on, off
    <2>3. (Dead(nag) => Dead(on)) /\ (Guarded(nag) => Guarded(on))
        BY <1>6, <2>1, NoNagAssumption DEF OtherFinalizer, Dead, Guarded
    <2>4. /\ Dead(nag) => Dead(AfterFinalizers(off))
          /\ Guarded(nag) => Guarded(AfterFinalizers(off))
        BY <1>6, <2>1, NoNagAssumption DEF OtherFinalizer, AfterFinalizers, Dead, Guarded
    <2>5. on \in Nags /\ AfterFinalizers(off) \in Nags
        BY <2>1, NagEditType DEF Nags
    <2> QED  BY <1>1, <2>2, <2>3, <2>4, <2>5
<1> QED  BY <1>3, <1>4, <1>5, <1>6 DEF NagEdit

\* Steps outside the run that leave the group alone.
LEMMA OtherInv ==
    IInv /\ TypeInv' /\ (Start \/ DeliverNag \/ Crash \/ NodeEdit \/ UNCHANGED vars) => IInv'
<1>1. ASSUME IInv, TypeInv', Start PROVE IInv'
    <2>1. UNCHANGED <<nodes, nag, spilled>> /\ pc' = "list"
        BY <1>1 DEF Start, apiVars, historyVars
    <2>2. ViewInv'
        BY <1>1, StartView DEF IInv
    <2>3. PhaseInv' /\ CleanupInv'
        BY <2>1 DEF PhaseInv, CleanupInv
    <2>4. TracesImplyFinalizer'
        BY <1>1, <2>1, SameNodes, KeepsTraceless DEF Guarded
    <2> QED  BY <1>1, <2>2, <2>3, <2>4 DEF IInv
<1>2. ASSUME IInv, TypeInv', DeliverNag PROVE IInv'
    <2>1. UNCHANGED <<nodes, nag, pc, wcNag, mem, todo, spilled>>
        BY <1>2 DEF DeliverNag, apiVars, loopVars
    <2>2. ViewInv'
        BY <1>2, DeliverView DEF IInv
    <2>3. PhaseInv'
        BY <1>2, <2>1 DEF IInv, PhaseInv, Active, Guarded, Deleting
    <2>4. CleanupInv' /\ TracesImplyFinalizer'
        BY <1>2, <2>1, SameNodes, KeepsTraceless, KeepsCleanup DEF Guarded
    <2> QED  BY <1>2, <2>2, <2>3, <2>4 DEF IInv
<1>3. ASSUME IInv, TypeInv', Crash PROVE IInv'
    <2>1. UNCHANGED <<nodes, nag>> /\ pc' = "done" /\ spilled' \in {Node, spilled}
        BY <1>3 DEF Crash, EndRun, apiVars
    <2>2. ViewInv'
        BY <1>3, CrashView DEF IInv
    <2>3. PhaseInv' /\ CleanupInv'
        BY <2>1 DEF PhaseInv, CleanupInv
    <2>4. spilled \subseteq spilled'
        BY <1>3, <2>1 DEF IInv, TypeInv, TypeOK
    <2>5. TracesImplyFinalizer'
        BY <1>3, <2>1, <2>4, SameNodes, KeepsTraceless DEF Guarded
    <2> QED  BY <1>3, <2>2, <2>3, <2>5 DEF IInv
<1>4. ASSUME IInv, TypeInv', \A n \in Node : Cleaner(n),
             UNCHANGED <<nag, version, nagIndex, watch, past, spilled, pc, wcNag, mem, todo, copy>>
      PROVE  IInv'
    <2>0. AllVersions' = AllVersions
        BY <1>4 DEF AllVersions
    <2>1. VersionInv'
        BY <1>4, <2>0 DEF IInv, ViewInv, VersionInv
    <2>2. DeletionInv'
        BY <1>4, <2>0 DEF IInv, ViewInv, DeletionInv, DeletionLasts, DeadFrom, Deleting, Dead
    <2>3. FinalizerInv'
        BY <1>4, <2>0 DEF IInv, ViewInv, FinalizerInv, InactiveFrom, Active, Guarded
    <2>4. PhaseInv'
        BY <1>4 DEF IInv, PhaseInv, Active, Guarded, Deleting
    <2>5. CleanupInv' /\ TracesImplyFinalizer'
        BY <1>4, KeepsTraceless, KeepsCleanup DEF Guarded
    <2> QED  BY <1>4, <2>1, <2>2, <2>3, <2>4, <2>5 DEF IInv, ViewInv
<1>5. ASSUME IInv, TypeInv', NodeEdit PROVE IInv'
    <2>1. UNCHANGED <<nag, version, nagIndex, watch, past, spilled, pc, wcNag, mem, todo, copy>>
        BY <1>5 DEF NodeEdit, AddNode, DeleteNode, RelabelNode, ProtectNode, ForeignTaint,
            EditNode, Edit, loopVars, historyVars
    <2>2. \A n \in Node : Cleaner(n)
        BY <1>5, NodeEditCleaner DEF IInv
    <2> QED  BY <1>4, <1>5, <2>1, <2>2
<1>6. ASSUME IInv, TypeInv', UNCHANGED vars PROVE IInv'
    <2>1. UNCHANGED <<nag, version, nagIndex, watch, past, spilled, pc, wcNag, mem, todo, copy,
                       nodes>>
        BY <1>6 DEF vars, apiVars, cacheVars, historyVars, loopVars
    <2> QED  BY <1>4, <1>6, <2>1, SameNodes
<1> QED  BY <1>1, <1>2, <1>3, <1>5, <1>6

LEMMA NextInv == ~Recreation /\ IInv /\ [Next]_vars => IInv'
<1> SUFFICES ASSUME ~Recreation, IInv, [Next]_vars PROVE IInv'
    OBVIOUS
<1>1. TypeInv'
    BY NextType DEF IInv
<1>2. CASE ReconcileNag
    BY <1>1, <1>2, QuietSteps, UnassignListInv, UnassignNodeInv, EndUnassignInv, UnassignInv,
        AssignInv, AddUpdateInv, RemoveUpdateInv DEF ReconcileNag
<1> QED
    BY <1>1, <1>2, OtherInv, NagEditInv DEF Next

\* As long as any node that the code has not left to itself carries the
\* group's label or its taint, AddFinalizer, ReconcileNag and RemoveFinalizer
\* keep the finalizer on the group, whatever the cache, the watch, conflicting
\* writers, failing calls and patches, lost replies, crashes and changes of the
\* leader do, provided that the group is not created again.  A node is left to
\* itself (spilled) by a patch or a list of UnassignAllNodes that fails, until
\* a later one succeeds, and by a new leader that is so far behind that it
\* still sees a live group with the finalizer when the finalizer is gone.
THEOREM FinalizerGuardsTraces ==
    ASSUME ~Recreation
    PROVE  Spec => []TracesImplyFinalizer
<1>1. Init => IInv
    BY InitInv
<1>2. IInv /\ [Next]_vars => IInv'
    BY NextInv
<1>3. IInv => TracesImplyFinalizer
    BY DEF IInv
<1> QED  BY <1>1, <1>2, <1>3, PTL DEF Spec
=============================================================================
