------------------------- MODULE NagControllerProofs -------------------------
(***************************************************************************)
(* TLAPS proofs about NagController.  NodeAssignment implements            *)
(* FinalizerGuard, on the inductive invariant of NodeAssignmentProofs.     *)
(* NagController, with its handlers, its queue and its worker, implements  *)
(* NodeAssignment, so everything that is proved of NodeAssignment holds of *)
(* it.  And the queue does its part: no change that matters is forgotten,  *)
(* so a controller that is at rest has done its work.                      *)
(***************************************************************************)
EXTENDS NagController, ReconcileProofs

-----------------------------------------------------------------------------
(* NodeAssignment implements FinalizerGuard. *)

\* The state of the abstract specification, as NodeAssignment maps it.
PhaseOf(x) == IF x = None THEN "absent" ELSE IF x.deleting THEN "deleting" ELSE "live"
Traced == \E n \in Node \ spilled : nodes[n] # None /\ HasTraces(nodes[n])

\* What a step of the implementation has to show.
AbstractStep ==
    \/ PhaseOf(nag) = "absent" /\ PhaseOf(nag') = "live"
        /\ (Guarded(nag') <=> Guarded(nag)) /\ (Traced' <=> Traced)
    \/ PhaseOf(nag) = "live" /\ PhaseOf(nag') = "live" /\ Guarded(nag') /\ (Traced' <=> Traced)
    \/ Guarded(nag) /\ Guarded(nag') /\ Traced' /\ PhaseOf(nag') = PhaseOf(nag)
    \/ ~Traced' /\ PhaseOf(nag') = PhaseOf(nag) /\ (Guarded(nag') <=> Guarded(nag))
    \/ PhaseOf(nag) = "live"
        /\ PhaseOf(nag') \in (IF Guarded(nag) THEN {"deleting"} ELSE {"deleting", "absent"})
        /\ (Guarded(nag') <=> Guarded(nag)) /\ (Traced' <=> Traced)
    \/ PhaseOf(nag) = "deleting" /\ Guarded(nag) /\ ~Traced /\ ~Guarded(nag')
        /\ PhaseOf(nag') \in {"deleting", "absent"} /\ ~Traced'
    \/ PhaseOf(nag) = "deleting" /\ ~Guarded(nag) /\ PhaseOf(nag') = "absent"
        /\ (Guarded(nag') <=> Guarded(nag)) /\ (Traced' <=> Traced)
    \/ PhaseOf(nag') = PhaseOf(nag) /\ (Guarded(nag') <=> Guarded(nag)) /\ (Traced' <=> Traced)

LEMMA AbstractStepSuffices == AbstractStep => [Guarding!Next]_(Guarding!guardVars)
    BY Zenon DEF AbstractStep, PhaseOf, Guarded, Traced, Guarding!Next, Guarding!guardVars,
        Guarding!Create, Guarding!Guard, Guarding!Mark, Guarding!Clean, Guarding!Delete,
        Guarding!Release, Guarding!Finish

LEMMA InitGuards == Init => Guarding!Init
    BY DEF Init, Guarding!Init, HasTraces, Fresh, IsAssigned, GetAssignment, GroupTaints

\* A step that leaves the group alone may mark or clean nodes.
LEMMA SameNagGuards ==
    ASSUME TracesImplyFinalizer', UNCHANGED nag
    PROVE  AbstractStep
<1>1. Traced' => Guarded(nag')
    BY DEF TracesImplyFinalizer, Traced, Guarded
<1>2. PhaseOf(nag') = PhaseOf(nag) /\ (Guarded(nag') <=> Guarded(nag))
    OBVIOUS
<1> QED  BY <1>1, <1>2 DEF AbstractStep

\* What the API server makes of an object that it stores.
LEMMA StoredFlags ==
    ASSUME version \in Nat, NEW obj \in Nags, Store(obj)
    PROVE  PhaseOf(nag') = PhaseOf(obj) /\ (Guarded(nag') <=> Guarded(obj))
<1>1. CASE obj = None
    BY <1>1 DEF Store
<1>2. CASE obj # None
    <2>1. obj \in NagObject
        BY <1>2 DEF Nags
    <2>2. nag' = [obj EXCEPT !.rv = version + 1]
        BY <1>2 DEF Store
    <2>3. nag'.deleting = obj.deleting /\ nag'.finalizers = obj.finalizers
        BY <2>1, <2>2 DEF NagObject
    <2>4. nag' \in NagObject
        BY <2>1, <2>2 DEF NagObject
    <2>5. nag' # None
        BY <2>4, NoNagAssumption
    <2> QED  BY <1>2, <2>3, <2>5 DEF PhaseOf, Guarded
<1> QED  BY <1>1, <1>2

\* Nodes are neither touched nor given up by a step that writes the group.
LEMMA SameTraces ==
    ASSUME UNCHANGED <<nodes, spilled>>
    PROVE  Traced' <=> Traced
    BY DEF Traced

\* AddFinalizer guards a live group; one that is being deleted was guarded.
LEMMA AddUpdateGuards == IInv /\ AddUpdate => AbstractStep
<1> SUFFICES ASSUME IInv, AddUpdate PROVE AbstractStep
    OBVIOUS
<1> DEFINE obj == [copy EXCEPT !.finalizers = @ + 1]
<1>1. copy = nag /\ copy \in NagObject /\ version \in Nat /\ nag # None
    BY NoConflict DEF AddUpdate, IInv, TypeInv, TypeOK
<1>2. obj \in NagObject /\ obj.finalizers = nag.finalizers + 1 /\ obj.deleting = nag.deleting
    BY <1>1 DEF NagObject
<1>3. Store(obj) /\ UNCHANGED <<nodes, spilled>>
    BY DEF AddUpdate, historyVars
<1>4. obj # None /\ nag.finalizers \in Nat /\ nag.deleting \in BOOLEAN
    BY <1>1, <1>2, NoNagAssumption DEF NagObject
<1>5. Guarded(obj) /\ PhaseOf(obj) = PhaseOf(nag)
    BY <1>1, <1>2, <1>4 DEF Guarded, PhaseOf
<1>6. nag.deleting => Guarded(nag)
    BY <1>1, <1>4 DEF AddUpdate, AddForbidden, Guarded
<1>7. PhaseOf(nag) = "live" \/ nag.deleting
    BY <1>1 DEF PhaseOf
<1> HIDE DEF obj
<1>8. PhaseOf(nag') = PhaseOf(nag) /\ Guarded(nag')
    BY <1>1, <1>2, <1>3, <1>5, StoredFlags DEF Nags
<1>9. Traced' <=> Traced
    BY <1>3, SameTraces
<1> QED  BY <1>6, <1>7, <1>8, <1>9 DEF AbstractStep

\* RemoveFinalizer releases a group that is being deleted and has no traces.
LEMMA RemoveUpdateGuards == IInv /\ RemoveUpdate => AbstractStep
<1> SUFFICES ASSUME IInv, RemoveUpdate PROVE AbstractStep
    OBVIOUS
<1> DEFINE off == [copy EXCEPT !.finalizers = 0]
           obj == AfterFinalizers(off)
<1>1. copy = nag /\ copy \in NagObject /\ version \in Nat /\ nag # None
    BY NoConflict DEF RemoveUpdate, IInv, TypeInv, TypeOK
<1>2. off \in NagObject /\ off.finalizers = 0 /\ off.deleting = nag.deleting
    BY <1>1 DEF NagObject
<1>3. nag.deleting
    BY <1>1 DEF RemoveUpdate, IInv, PhaseInv, ViewInv, DeletionInv, Dead, Deleting
<1>4. ~Traced /\ ~Traced'
    BY DEF RemoveUpdate, historyVars, IInv, CleanupInv, Traceless, Traced, HasTraces, IsAssigned,
        GetAssignment, GroupTaints
<1>5. CASE UNCHANGED <<nag, version, watch>>
    BY <1>4, <1>5 DEF AbstractStep
<1>6. CASE copy.finalizers # 0 /\ Store(obj)
    <2>1. Guarded(nag) /\ PhaseOf(nag) = "deleting"
        BY <1>1, <1>3, <1>6 DEF Guarded, PhaseOf, NagObject
    <2>2. obj \in Nags
        BY <1>2, NagEditType
    <2>3. ~Guarded(obj) /\ PhaseOf(obj) \in {"deleting", "absent"}
        <3> HIDE DEF off
        <3>1. obj = None \/ obj = off
            BY DEF AfterFinalizers
        <3>2. off.deleting /\ off.finalizers = 0 /\ ~(off.finalizers > 0)
            BY <1>2, <1>3
        <3> HIDE DEF obj
        <3> QED  BY <3>1, <3>2 DEF Guarded, PhaseOf
    <2> HIDE DEF obj
    <2>4. ~Guarded(nag') /\ PhaseOf(nag') \in {"deleting", "absent"}
        BY <1>1, <1>6, <2>2, <2>3, StoredFlags
    <2> QED  BY <1>4, <2>1, <2>4 DEF AbstractStep
<1> QED  BY <1>5, <1>6 DEF RemoveUpdate

\* What users and the other controller do to the group: create it, change its
\* spec, mark it as deleted, and let go of it.
LEMMA NagEditGuards == IInv /\ NagEdit => AbstractStep
<1> SUFFICES ASSUME IInv, NagEdit PROVE AbstractStep
    OBVIOUS
<1>1. version \in Nat /\ (nag # None => nag \in NagObject)
    BY DEF IInv, TypeInv, TypeOK, Nags
<1>2. ASSUME NEW kind, NEW obj \in Nags, EditNag(kind, obj)
      PROVE  /\ PhaseOf(nag') = PhaseOf(obj) /\ (Guarded(nag') <=> Guarded(obj))
             /\ Traced' <=> Traced
    BY <1>1, <1>2, StoredFlags, SameTraces DEF EditNag, Edit, historyVars
<1>3. CASE CreateNag
    <2> DEFINE obj(spec) == [spec |-> spec, finalizers |-> 0, others |-> FALSE,
                             deleting |-> FALSE, rv |-> 0]
    <2>1. PICK spec \in Specs : EditNag("spec", obj(spec))
        BY <1>3 DEF CreateNag
    <2>2. obj(spec) \in NagObject /\ ~obj(spec).deleting /\ obj(spec).finalizers = 0
        BY DEF NagObject
    <2> HIDE DEF obj
    <2>3. PhaseOf(obj(spec)) = "live" /\ ~Guarded(obj(spec)) /\ obj(spec) \in Nags
        BY <2>2, NoNagAssumption DEF PhaseOf, Guarded, Nags
    <2>4. PhaseOf(nag) = "absent" /\ ~Guarded(nag)
        BY <1>3 DEF CreateNag, PhaseOf, Guarded
    <2>5. PhaseOf(nag') = "live" /\ ~Guarded(nag') /\ (Traced' <=> Traced)
        BY <1>2, <2>1, <2>3
    <2> QED  BY <2>4, <2>5 DEF AbstractStep
<1>4. CASE UpdateNag
    <2> DEFINE obj(spec) == [nag EXCEPT !.spec = spec]
    <2>1. PICK spec \in Specs : EditNag("spec", obj(spec))
        BY <1>4 DEF UpdateNag
    <2>2. /\ obj(spec) \in NagObject
          /\ obj(spec).deleting = nag.deleting /\ obj(spec).finalizers = nag.finalizers
        BY <1>1, <1>4 DEF UpdateNag, NagObject
    <2> HIDE DEF obj
    <2>3. /\ PhaseOf(obj(spec)) = PhaseOf(nag) /\ (Guarded(obj(spec)) <=> Guarded(nag))
          /\ obj(spec) \in Nags
        BY <1>4, <2>2, NoNagAssumption DEF UpdateNag, PhaseOf, Guarded, Nags
    <2> QED  BY <1>2, <2>1, <2>3 DEF AbstractStep
<1>5. CASE DeleteNag
    <2> DEFINE marked == [nag EXCEPT !.deleting = TRUE]
               obj == AfterFinalizers(marked)
    <2>1. marked \in NagObject /\ marked.deleting /\ marked.finalizers = nag.finalizers
        BY <1>1, <1>5 DEF DeleteNag, NagObject
    <2>2. EditNag("spec", obj) /\ PhaseOf(nag) = "live" /\ nag # None /\ nag.finalizers \in Nat
        BY <1>1, <1>5 DEF DeleteNag, PhaseOf, NagObject
    <2>3. obj \in Nags
        BY <2>1, NagEditType
    <2>4. obj = marked \/ (obj = None /\ nag.finalizers = 0)
        <3> HIDE DEF marked
        <3> QED  BY <2>1 DEF AfterFinalizers
    <2> HIDE DEF obj, marked
    <2>5. /\ PhaseOf(obj) \in (IF Guarded(nag) THEN {"deleting"} ELSE {"deleting", "absent"})
          /\ Guarded(obj) <=> Guarded(nag)
        BY <2>1, <2>2, <2>4, NoNagAssumption DEF PhaseOf, Guarded
    <2>6. /\ PhaseOf(nag') \in (IF Guarded(nag) THEN {"deleting"} ELSE {"deleting", "absent"})
          /\ Guarded(nag') <=> Guarded(nag)
          /\ Traced' <=> Traced
        BY <1>2, <2>2, <2>3, <2>5
    <2> QED  BY <2>2, <2>6 DEF AbstractStep
<1>6. CASE OtherFinalizer
    <2> DEFINE on == [nag EXCEPT !.others = TRUE]
               off == [nag EXCEPT !.others = FALSE]
    <2>1. nag # None /\ (EditNag("finalizer", on) \/ EditNag("finalizer", AfterFinalizers(off)))
        BY <1>6 DEF OtherFinalizer
    <2>2. /\ on \in NagObject /\ on.deleting = nag.deleting /\ on.finalizers = nag.finalizers
          /\ off \in NagObject /\ off.deleting = nag.deleting /\ off.finalizers = nag.finalizers
        BY <1>1, <2>1 DEF NagObject
    <2> HIDE DEF on, off
    <2>3. CASE EditNag("finalizer", on)
        <3>1. PhaseOf(on) = PhaseOf(nag) /\ (Guarded(on) <=> Guarded(nag)) /\ on \in Nags
            BY <2>1, <2>2, NoNagAssumption DEF PhaseOf, Guarded, Nags
        <3> QED  BY <1>2, <2>3, <3>1 DEF AbstractStep
    <2>4. CASE EditNag("finalizer", AfterFinalizers(off))
        <3>1. AfterFinalizers(off) \in Nags
            BY <2>2, NagEditType
        <3>2. CASE AfterFinalizers(off) = off
            <4>1. PhaseOf(off) = PhaseOf(nag) /\ (Guarded(off) <=> Guarded(nag))
                BY <2>1, <2>2, NoNagAssumption DEF PhaseOf, Guarded
            <4> QED  BY <1>2, <2>4, <3>1, <3>2, <4>1 DEF AbstractStep
        <3>3. CASE AfterFinalizers(off) # off
            <4>1. off.deleting /\ off.finalizers = 0 /\ AfterFinalizers(off) = None
                BY <3>3 DEF AfterFinalizers
            <4>2. PhaseOf(nag) = "deleting" /\ ~Guarded(nag)
                BY <2>1, <2>2, <4>1 DEF PhaseOf, Guarded
            <4>3. PhaseOf(None) = "absent" /\ ~Guarded(None)
                BY DEF PhaseOf, Guarded
            <4>4. PhaseOf(nag') = "absent" /\ ~Guarded(nag') /\ (Traced' <=> Traced)
                BY <1>2, <2>4, <3>1, <4>1, <4>3
            <4> QED  BY <4>2, <4>4 DEF AbstractStep
        <3> QED  BY <3>2, <3>3
    <2> QED  BY <2>1, <2>3, <2>4
<1> QED  BY <1>3, <1>4, <1>5, <1>6 DEF NagEdit

\* Every step of NodeAssignment is an abstract one.
LEMMA NextGuards == ~Recreation /\ IInv /\ [Next]_vars => AbstractStep
<1> SUFFICES ASSUME ~Recreation, IInv, [Next]_vars PROVE AbstractStep
    OBVIOUS
<1>1. TracesImplyFinalizer'
    BY NextInv DEF IInv
<1>2. CASE UNCHANGED nag
    BY <1>1, <1>2, SameNagGuards
<1>3. CASE nag' # nag
    <2>1. ~(Start \/ DeliverNag \/ Crash \/ NodeEdit \/ UNCHANGED vars)
        BY <1>3 DEF Start, DeliverNag, Crash, NodeEdit, AddNode, DeleteNode, RelabelNode,
            ProtectNode, ForeignTaint, EditNode, vars, apiVars
    <2>2. ~(ListNodes \/ UnassignUntargeted \/ Decide \/ KeepNode \/ ReleaseNode \/ AssignNode
             \/ ApplyDefault \/ EndAssigning \/ CleanupGet \/ CleanupPatch \/ EndReconcile
             \/ UnassignList \/ UnassignNode \/ EndUnassign)
        BY <1>3 DEF ListNodes, UnassignUntargeted, Decide, KeepNode, ReleaseNode, AssignNode,
            ApplyDefault, EndAssigning, CleanupGet, CleanupPatch, EndReconcile, UnassignList,
            UnassignNode, EndUnassign, apiVars
    <2>3. ~(AddGet \/ AddRetry \/ AddFails \/ RemoveGet \/ RemoveRetry \/ RemoveFails)
        BY <1>3 DEF AddGet, AddRetry, AddFails, RemoveGet, RemoveRetry, RemoveFails, GetNag,
            RetryUpdate, UpdateFails, apiVars
    <2>4. AddUpdate \/ RemoveUpdate \/ NagEdit
        BY <2>1, <2>2, <2>3 DEF Next, ReconcileNag
    <2> QED  BY <2>4, AddUpdateGuards, RemoveUpdateGuards, NagEditGuards
<1> QED  BY <1>2, <1>3

\* ReconcileNag, AddFinalizer and RemoveFinalizer follow the protocol of
\* FinalizerGuard: a step of theirs never marks a node without the guard, and
\* never drops the guard of a group that lives or of one that has traces on a
\* node the code has not left to itself, whatever the cache, the watch,
\* conflicting writers, failing calls and patches, lost replies, crashes and
\* changes of the leader do, provided that the group is not created again.
THEOREM NodeAssignmentGuards ==
    ASSUME ~Recreation
    PROVE  Spec => ImplementsFinalizerGuard
<1>1. Init => IInv /\ Guarding!Init
    BY InitInv, InitGuards
<1>2. IInv /\ [Next]_vars => IInv'
    BY NextInv
<1>3. IInv /\ [Next]_vars => [Guarding!Next]_(Guarding!guardVars)
    BY NextGuards, AbstractStepSuffices
<1> QED  BY <1>1, <1>2, <1>3, PTL DEF Spec, ImplementsFinalizerGuard, Guarding!Spec

-----------------------------------------------------------------------------
(* NagController implements NodeAssignment. *)

\* Every step of the controller is a step of NodeAssignment or leaves its
\* variables alone.
LEMMA ControllerStep == [ControllerNext]_allVars => [Next]_vars
<1> SUFFICES ASSUME [ControllerNext]_allVars PROVE [Next]_vars
    OBVIOUS
<1>1. CASE EditNodes \/ EditGroup
    BY <1>1 DEF EditNodes, EditGroup, Next
<1>2. CASE Deliver
    BY <1>2 DEF Deliver, Next
<1>3. CASE OnNagEvent \/ OnNodeEvent \/ RetryDue
    BY <1>3 DEF OnNagEvent, OnNodeEvent, RetryDue
<1>4. CASE Dequeue \/ LookupAbsent \/ RunReturns \/ FinishItem
    BY <1>4 DEF Dequeue, LookupAbsent, RunReturns, FinishItem
<1>5. CASE LookupFound \/ RunStep
    BY <1>5 DEF LookupFound, RunStep, Next
<1>6. CASE UNCHANGED allVars
    BY <1>6 DEF allVars
<1> QED
    BY <1>1, <1>2, <1>3, <1>4, <1>5, <1>6 DEF ControllerNext, WorkerNext

\* The handlers of controller.go and the retrying queue only decide when
\* ReconcileNag runs: what the controller does is what NodeAssignment allows.
THEOREM ControllerImplementsNodeAssignment == ControllerSpec => Spec
<1>1. ControllerInit => Init
    BY DEF ControllerInit
<1> QED  BY <1>1, ControllerStep, PTL DEF ControllerSpec, Spec

-----------------------------------------------------------------------------
(* The types of the controller. *)

LEMMA AddType ==
    ASSUME QueueTypeOK, NEW k \in Key, Add(k), UNCHANGED <<waiting, failures>>
    PROVE  QueueTypeOK'
BY DEF Add, QueueTypeOK

LEMMA HandleErrType ==
    ASSUME QueueTypeOK, NEW k \in Key, NEW e, HandleErr(k, e)
    PROVE  QueueTypeOK'
<1>1. failures[k] \in 0..MaxRequeues /\ (~Exhausted(k) => failures[k] + 1 \in 0..MaxRequeues)
    BY DEF QueueTypeOK, Exhausted, MaxRequeues
<1>2. failures' \in [Key -> 0..MaxRequeues] /\ waiting' \in SUBSET Key
    <2>1. CASE AddRateLimited(k) /\ ~Exhausted(k)
        BY <1>1, <2>1 DEF AddRateLimited, QueueTypeOK
    <2>2. CASE Forget(k)
        BY <2>2 DEF Forget, QueueTypeOK, MaxRequeues
    <2> QED  BY <2>1, <2>2 DEF HandleErr
<1> QED  BY <1>2 DEF HandleErr, QueueTypeOK

LEMMA QueueStepType ==
    ASSUME QueueTypeOK,
           \/ \E k \in Key : Get(k) \/ Fire(k) \/ (Add(k) /\ UNCHANGED <<waiting, failures>>)
           \/ \E k \in processing : Done(k) \/ HandleErr(k, err) \/ HandleErr(k, FALSE)
    PROVE  QueueTypeOK'
<1>1. ASSUME NEW k \in Key, Get(k) PROVE QueueTypeOK'
    BY <1>1 DEF Get, QueueTypeOK
<1>2. ASSUME NEW k \in Key, Fire(k) PROVE QueueTypeOK'
    BY <1>2 DEF Fire, Add, QueueTypeOK
<1>3. ASSUME NEW k \in Key, Done(k) PROVE QueueTypeOK'
    BY <1>3 DEF Done, QueueTypeOK
<1>4. processing \subseteq Key
    BY DEF QueueTypeOK
<1> QED  BY <1>1, <1>2, <1>3, <1>4, AddType, HandleErrType

\* What the watch of nodes reports are events of nodes that exist.
LEMMA EventType ==
    ASSUME nodes \in NodeMap, nodes' \in NodeMap, NEW n \in Node
    PROVE  Event(n) \in Seq(NodeEvent)
<1> DEFINE E(type, node) == [type |-> type, node |-> node]
<1>1. /\ nodes[n] # None => nodes[n] \in NodeObject
      /\ nodes'[n] # None => nodes'[n] \in NodeObject
    BY DEF NodeMap
<1>2. \A type \in {"add", "update", "delete"}, node \in NodeObject : E(type, node) \in NodeEvent
    BY DEF NodeEvent
<1> HIDE DEF E
<1>3. \A e \in NodeEvent : <<e>> \in Seq(NodeEvent)
    OBVIOUS
<1>4. \/ Event(n) = <<>>
      \/ nodes'[n] # None /\ Event(n) = <<E("add", nodes'[n])>>
      \/ nodes[n] # None /\ Event(n) = <<E("delete", nodes[n])>>
      \/ nodes'[n] # None /\ Event(n) = <<E("update", nodes'[n])>>
    BY DEF Event, E
<1>5. <<>> \in Seq(NodeEvent)
    OBVIOUS
<1> QED  BY <1>1, <1>2, <1>3, <1>4, <1>5

LEMMA EventsType ==
    ASSUME TypeInv, TypeInv', nodeEvents \in Seq(NodeEvent), EditNodes
    PROVE  nodeEvents' \in Seq(NodeEvent)
<1>1. nodes \in NodeMap /\ nodes' \in NodeMap
    BY DEF TypeInv, TypeOK
<1> DEFINE n == CHOOSE m \in Node : Event(m) # <<>>
<1>2. CASE \E m \in Node : Event(m) # <<>>
    <2>1. n \in Node
        BY <1>2
    <2>2. nodeEvents' = nodeEvents \o Event(n)
        BY <1>2 DEF EditNodes
    <2> HIDE DEF n
    <2>3. Event(n) \in Seq(NodeEvent)
        BY <1>1, <2>1, EventType
    <2> QED  BY <2>2, <2>3
<1>3. CASE ~\E m \in Node : Event(m) # <<>>
    BY <1>3 DEF EditNodes
<1> QED  BY <1>2, <1>3

LEMMA ControllerStepType ==
    ASSUME TypeInv, TypeInv', ControllerTypeOK, [ControllerNext]_allVars
    PROVE  ControllerTypeOK'
<1> USE DEF controllerVars
<1>1. /\ QueueTypeOK
      /\ worker \in {"idle", "lookup", "busy", "finish"}
      /\ nagEvents \in Nat
      /\ nodeEvents \in Seq(NodeEvent)
      /\ TypeOK'
    BY DEF ControllerTypeOK, TypeInv
<1>2. ASSUME UNCHANGED queueVars PROVE QueueTypeOK'
    BY <1>1, <1>2 DEF queueVars, QueueTypeOK
<1>3. CASE EditNodes
    BY <1>1, <1>2, <1>3, EventsType DEF EditNodes, ControllerTypeOK
<1>4. CASE EditGroup \/ LookupFound \/ RunStep \/ UNCHANGED allVars
    BY <1>1, <1>2, <1>4 DEF EditGroup, LookupFound, RunStep, allVars, ControllerTypeOK
<1>5. CASE Deliver
    BY <1>1, <1>2, <1>5 DEF Deliver, ControllerTypeOK
<1>6. CASE OnNagEvent
    <2>1. QueueTypeOK'
        BY <1>1, <1>6, QueueStepType DEF OnNagEvent
    <2> QED  BY <1>1, <1>6, <2>1 DEF OnNagEvent, ControllerTypeOK
<1>7. CASE OnNodeEvent
    <2>1. QueueTypeOK'
        <3>1. CASE \E k \in Key : Add(k)
            BY <1>1, <1>7, <3>1, QueueStepType DEF OnNodeEvent
        <3>2. CASE UNCHANGED <<queue, dirty, processing>>
            BY <1>2, <1>7, <3>2 DEF OnNodeEvent, queueVars
        <3> QED  BY <1>7, <3>1, <3>2 DEF OnNodeEvent
    <2>2. nodeEvents' \in Seq(NodeEvent)
        <3>1. nodeEvents # <<>> /\ nodeEvents' = Tail(nodeEvents)
            BY <1>7 DEF OnNodeEvent
        <3> QED  BY <1>1, <3>1
    <2> QED  BY <1>1, <1>7, <2>1, <2>2 DEF OnNodeEvent, ControllerTypeOK
<1>8. CASE RetryDue \/ Dequeue
    <2>1. QueueTypeOK'
        BY <1>1, <1>8, QueueStepType DEF RetryDue, Dequeue
    <2> QED  BY <1>1, <1>8, <2>1 DEF RetryDue, Dequeue, ControllerTypeOK
<1>9. CASE LookupAbsent \/ RunReturns \/ FinishItem
    <2>1. QueueTypeOK'
        BY <1>1, <1>9, QueueStepType DEF LookupAbsent, RunReturns, FinishItem
    <2> QED  BY <1>1, <1>9, <2>1 DEF LookupAbsent, RunReturns, FinishItem, ControllerTypeOK
<1> QED  BY <1>3, <1>4, <1>5, <1>6, <1>7, <1>8, <1>9 DEF ControllerNext, WorkerNext

\* The type invariant of the controller.
THEOREM ControllerTypeCorrect == ControllerSpec => []ControllerTypeOK
<1>1. ControllerInit => ControllerTypeOK /\ TypeInv
    BY InitType DEF ControllerInit, ControllerTypeOK, TypeInv, QueueInit, QueueTypeOK, MaxRequeues
<1>2. TypeInv /\ [ControllerNext]_allVars => TypeInv'
    BY ControllerStep, NextType
<1>3. TypeInv /\ ControllerTypeOK /\ [ControllerNext]_allVars => ControllerTypeOK'
    BY <1>2, ControllerStepType
<1> QED  BY <1>1, <1>2, <1>3, PTL DEF ControllerSpec

-----------------------------------------------------------------------------
(* A controller that has nothing left to do has done its work.             *)

\* Nothing is lost, and whatever is edited is reported to the controller and
\* queued: the handlers ignore marks of protection, taints, and the deletion
\* of nodes that the group does not target.
AllReported ==
    /\ Faults \subseteq {"crash"} /\ ~Recreation
    /\ Edits \subseteq {"spec", "finalizer", "addNode", "deleteTarget", "label"}

\* The handler of the event will queue the group.
Relevant(group, e) == e.type = "delete" => TargetsNode(group.spec, e.node)

\* The key of the group is queued, or going to be.
Pending ==
    \/ watch # <<>> \/ nagEvents > 0 \/ dirty # {}
    \/ nagIndex # None /\ \E i \in DOMAIN nodeEvents : Relevant(nagIndex, nodeEvents[i])

\* The last version of the group that the watch delivers is the current one.
IndexInv == IF watch = <<>> THEN nagIndex = nag ELSE watch[Len(watch)] = nag

WorkerInv == worker # "busy" => pc = "done"

Unprotected == \A n \in Node : nodes[n] # None => Protected \notin nodes[n].labels

\* Nothing has happened that the run does not know.
RunUpToDate ==
    /\ ~failed /\ nag # None
    /\ pc # "list" => clean
    /\ pc # "done" => wcNag = nag
    /\ pc \in {"addGet", "addUpdate"} => ~wcNag.deleting
    /\ pc \in {"addUpdate", "removeUpdate"} => copy = nag
    /\ pc = "done" => (nag.deleting <=> nag.finalizers = 0)

\* As long as no event and no key is on its way, the run is up to date, and
\* between two runs the cluster is what the group asks for.
AwakeInv ==
    ~Pending => /\ worker = "busy" => RunUpToDate
                /\ worker \in {"idle", "finish"} /\ nag # None => Converged

ManagerInv == AllInv /\ IInv /\ spilled = {}

QueuedInv ==
    /\ ControllerTypeOK /\ ManagerInv
    /\ IndexInv /\ WorkerInv /\ Unprotected /\ AwakeInv

\* Calls do not fail, and the controller does not crash: no node is left to
\* itself.
LEMMA NoneSpilled ==
    ASSUME AllReported, spilled = {}, [ControllerNext]_allVars
    PROVE  spilled' = {}
<1>1. CASE UnassignList
    BY <1>1 DEF UnassignList, Fail, AllReported
<1>2. CASE UnassignNode
    BY <1>2 DEF UnassignNode, PatchFails, Fail, AllReported
<1>3. CASE \/ Start \/ ListNodes \/ UnassignUntargeted \/ Decide
           \/ AddGet \/ AddRetry \/ AddFails \/ AddUpdate
           \/ RemoveGet \/ RemoveRetry \/ RemoveFails \/ RemoveUpdate \/ EndUnassign
    BY <1>3 DEF Start, ListNodes, UnassignUntargeted, Decide, AddGet, AddRetry, AddFails, AddUpdate,
        RemoveGet, RemoveRetry, RemoveFails, RemoveUpdate, GetNag, RetryUpdate, UpdateFails,
        EndUnassign, historyVars
<1>4. CASE \/ KeepNode \/ ReleaseNode \/ AssignNode \/ ApplyDefault \/ EndAssigning
           \/ CleanupGet \/ CleanupPatch \/ EndReconcile
    BY <1>4 DEF KeepNode, ReleaseNode, AssignNode, ApplyDefault, EndAssigning, CleanupGet,
        CleanupPatch, EndReconcile, historyVars
<1>5. CASE DeliverNag \/ NagEdit \/ NodeEdit
    BY <1>5 DEF DeliverNag, NagEdit, CreateNag, UpdateNag, DeleteNag, OtherFinalizer, EditNag,
        NodeEdit, AddNode, DeleteNode, RelabelNode, ProtectNode, ForeignTaint, EditNode, Edit,
        historyVars
<1>6. CASE UNCHANGED vars
    BY <1>6 DEF vars, historyVars
<1>7. \/ Start \/ ReconcileNag \/ DeliverNag \/ NagEdit \/ NodeEdit \/ UNCHANGED vars
    BY DEF ControllerNext, WorkerNext, EditNodes, EditGroup, Deliver, OnNagEvent, OnNodeEvent,
        RetryDue, Dequeue, LookupFound, LookupAbsent, RunStep, RunReturns, FinishItem, allVars
<1> QED  BY <1>1, <1>2, <1>3, <1>4, <1>5, <1>6, <1>7 DEF ReconcileNag

LEMMA ManagerStep ==
    AllReported /\ AllDistinct /\ ManagerInv /\ [ControllerNext]_allVars => ManagerInv'
    BY NoneSpilled, ControllerStep, NextAll, NextInv DEF ManagerInv, AllReported

\* A group that is gone has left nothing behind.
LEMMA GoneConverged == ManagerInv /\ nag = None => Converged
    BY DEF ManagerInv, IInv, TracesImplyFinalizer, Converged, NoTraces

\* A step that writes the group is seen by the watch.
Written == UNCHANGED nagIndex /\ watch' = Append(watch, nag')
Unwritten == UNCHANGED <<nag, nagIndex, watch>>

LEMMA GroupWrites ==
    /\ NagEdit => Written /\ UNCHANGED pc
    /\ NodeEdit => Unwritten /\ UNCHANGED pc
    /\ ReconcileNag => Written \/ Unwritten
<1>1. NagEdit => Written /\ UNCHANGED pc
    BY DEF NagEdit, CreateNag, UpdateNag, DeleteNag, OtherFinalizer, EditNag, Edit, Store, Written
<1>2. NodeEdit => Unwritten /\ UNCHANGED pc
    BY DEF NodeEdit, AddNode, DeleteNode, RelabelNode, ProtectNode, ForeignTaint,
        EditNode, Edit, Unwritten
<1>3. ASSUME ReconcileNag PROVE Written \/ Unwritten
    <2>1. CASE AddUpdate \/ RemoveUpdate
        BY <2>1 DEF AddUpdate, RemoveUpdate, Store, Written, Unwritten
    <2>2. CASE \/ ListNodes \/ UnassignUntargeted \/ Decide
               \/ AddGet \/ AddRetry \/ AddFails
               \/ RemoveGet \/ RemoveRetry \/ RemoveFails
               \/ UnassignList \/ UnassignNode \/ EndUnassign
        BY <2>2 DEF ListNodes, UnassignUntargeted, Decide, AddGet, AddRetry, AddFails, RemoveGet,
            RemoveRetry, RemoveFails, GetNag, RetryUpdate, UpdateFails, UnassignList,
            UnassignNode, EndUnassign, apiVars, cacheVars, Unwritten
    <2>3. CASE \/ KeepNode \/ ReleaseNode \/ AssignNode \/ ApplyDefault \/ EndAssigning
               \/ CleanupGet \/ CleanupPatch \/ EndReconcile
        BY <2>3 DEF KeepNode, ReleaseNode, AssignNode, ApplyDefault, EndAssigning, CleanupGet,
            CleanupPatch, EndReconcile, apiVars, cacheVars, Unwritten
    <2> QED  BY <1>3, <2>1, <2>2, <2>3 DEF ReconcileNag
<1> QED  BY <1>1, <1>2, <1>3

LEMMA WrittenIndex ==
    ASSUME TypeInv, TypeInv', Written
    PROVE  IndexInv' /\ Pending'
<1>1. watch \in Seq(Nags) /\ nag' \in Nags
    BY DEF TypeInv, TypeOK
<1>2. watch' # <<>> /\ watch'[Len(watch')] = nag'
    BY <1>1 DEF Written
<1> QED  BY <1>2 DEF IndexInv, Pending

LEMMA DeliveredIndex ==
    ASSUME TypeInv, IndexInv, DeliverNag
    PROVE  IndexInv'
<1>1. watch \in Seq(Nags) /\ watch # <<>>
    BY DEF TypeInv, TypeOK, DeliverNag
<1>2. nagIndex' = watch[1] /\ watch' = Tail(watch) /\ nag' = nag
    BY <1>1 DEF DeliverNag, apiVars
<1>3. watch[Len(watch)] = nag
    BY <1>1 DEF IndexInv
<1>4. CASE Len(watch) = 1
    <2>1. watch' = <<>>
        BY <1>1, <1>2, <1>4
    <2> QED  BY <1>2, <1>3, <1>4, <2>1 DEF IndexInv
<1>5. CASE Len(watch) # 1
    <2>1. Len(watch') = Len(watch) - 1 /\ Len(watch') \in Nat /\ Len(watch') > 0
        <3>1. Len(watch) \in Nat /\ Len(watch) # 0
            BY <1>1
        <3>2. Len(Tail(watch)) = Len(watch) - 1
            BY <1>1
        <3> QED  BY <1>2, <1>5, <3>1, <3>2
    <2>2. watch'[Len(watch')] = watch[Len(watch') + 1]
        BY <1>1, <1>2, <2>1
    <2>3. Len(watch') + 1 = Len(watch) /\ watch' # <<>>
        BY <1>1, <2>1
    <2> QED  BY <1>2, <1>3, <2>2, <2>3 DEF IndexInv
<1> QED  BY <1>4, <1>5

\* An edit of node n that the watch reports as e.
EditedNode(n, e) ==
    /\ Event(n) = <<e>>
    /\ \A m \in Node \ {n} : Event(m) = <<>>
    /\ nagIndex # None => Relevant(nagIndex, e)
    /\ nodes'[n] # None => Protected \notin nodes'[n].labels
    /\ \A m \in Node \ {n} : nodes'[m] = nodes[m]

LEMMA SameNodeNoEvent ==
    ASSUME NEW m \in Node, nodes'[m] = nodes[m]
    PROVE  Event(m) = <<>>
BY DEF Event, NodeTargetingHasChanged

LEMMA NodeEdits ==
    ASSUME AllReported, TypeInv, Unprotected, NodeEdit
    PROVE  \E n \in Node : \E e : EditedNode(n, e)
<1>1. nodes \in NodeMap /\ (nagIndex # None => nagIndex.spec \in Specs)
    BY DEF TypeInv, TypeOK, Nags, NagObject
<1> DEFINE How(n, kind, obj) ==
        /\ EditNode(kind, n, obj)
        /\ \/ kind = "addNode" /\ nodes[n] = None /\ \E ls \in SUBSET Label : obj = Fresh(ls)
           \/ /\ kind = "deleteTarget" /\ nodes[n] # None /\ obj = None
              /\ \A spec \in Specs : TargetsNode(spec, nodes[n])
           \/ /\ kind = "label" /\ nodes[n] # None
              /\ \E l \in Label :
                   \E ls \in {nodes[n].labels \cup {l}, nodes[n].labels \ {l}} \ {nodes[n].labels} :
                     obj = [nodes[n] EXCEPT !.labels = ls]
<1>9. PICK n \in Node : \E kind, obj : How(n, kind, obj)
    <2>1. ~(ProtectNode \/ ForeignTaint)
        BY DEF AllReported, ProtectNode, ForeignTaint, EditNode, Edit
    <2>2. CASE AddNode
        BY <2>2 DEF AddNode, EditNode, Edit
    <2>3. CASE DeleteNode
        <3>1. "deleteNode" \notin Edits
            BY DEF AllReported
        <3>2. PICK n \in Node :
                /\ nodes[n] # None
                /\ \A spec \in Specs : TargetsNode(spec, nodes[n])
                /\ EditNode("deleteTarget", n, None)
            BY <2>3, <3>1 DEF DeleteNode, EditNode, Edit
        <3>3. How(n, "deleteTarget", None)
            BY <3>2
        <3> QED  BY <3>3
    <2>4. CASE RelabelNode
        <3>1. PICK n \in Node, l \in Label : nodes[n] # None /\
                \E ls \in {nodes[n].labels \cup {l}, nodes[n].labels \ {l}} \ {nodes[n].labels} :
                    EditNode("label", n, [nodes[n] EXCEPT !.labels = ls])
            BY <2>4 DEF RelabelNode
        <3>2. PICK ls \in {nodes[n].labels \cup {l}, nodes[n].labels \ {l}} \ {nodes[n].labels} :
                    EditNode("label", n, [nodes[n] EXCEPT !.labels = ls])
            BY <3>1
        <3>3. How(n, "label", [nodes[n] EXCEPT !.labels = ls])
            BY <3>1, <3>2
        <3> QED  BY <3>3
    <2> QED  BY <2>1, <2>2, <2>3, <2>4 DEF NodeEdit
<1>2. PICK kind, obj : How(n, kind, obj)
    BY <1>9
<1>3. nodes'[n] = obj /\ \A m \in Node \ {n} : nodes'[m] = nodes[m]
    BY <1>1, <1>2 DEF EditNode, NodeMap
<1>4. \A m \in Node \ {n} : Event(m) = <<>>
    BY <1>3, SameNodeNoEvent
<1>5. CASE kind = "addNode"
    <2>1. PICK ls \in SUBSET Label : obj = Fresh(ls)
        BY <1>2, <1>5
    <2>2. nodes[n] = None /\ nodes'[n] \in NodeObject /\ nodes'[n].labels = ls
        BY <1>2, <1>3, <1>5, <2>1 DEF Fresh, NodeObject
    <2> DEFINE e == [type |-> "add", node |-> nodes'[n]]
    <2>3. Event(n) = <<e>>
        BY <2>2, NoneAssumption DEF Event
    <2>4. Relevant(nagIndex, e) /\ Protected \notin nodes'[n].labels
        BY <2>2, ProtectedAssumption DEF Relevant
    <2> QED  BY <1>3, <1>4, <2>3, <2>4 DEF EditedNode
<1>6. CASE kind = "deleteTarget"
    <2>1. nodes[n] # None /\ nodes'[n] = None /\ Protected \notin nodes[n].labels
        BY <1>2, <1>3, <1>6 DEF Unprotected
    <2> DEFINE e == [type |-> "delete", node |-> nodes[n]]
    <2>2. Event(n) = <<e>>
        BY <2>1 DEF Event
    <2>3. nagIndex # None => Relevant(nagIndex, e)
        BY <1>1, <1>2, <1>6 DEF Relevant
    <2> QED  BY <1>3, <1>4, <2>1, <2>2, <2>3 DEF EditedNode
<1>7. CASE kind = "label"
    <2>1. PICK l \in Label, ls \in SUBSET (Label \cup {Protected}) :
            /\ ls \in {nodes[n].labels \cup {l}, nodes[n].labels \ {l}} /\ ls # nodes[n].labels
            /\ obj = [nodes[n] EXCEPT !.labels = ls]
        <3>1. nodes[n] \in NodeObject
            BY <1>1, <1>2, <1>7 DEF NodeMap
        <3>2. nodes[n].labels \in SUBSET (Label \cup {Protected})
            BY <3>1 DEF NodeObject
        <3> QED  BY <1>2, <1>7, <3>2
    <2>2. nodes[n] # None /\ nodes[n] \in NodeObject /\ Protected \notin nodes[n].labels
        BY <1>1, <1>2, <1>7 DEF NodeMap, Unprotected
    <2>3. nodes'[n] \in NodeObject /\ nodes'[n].labels = ls
        BY <1>3, <2>1, <2>2 DEF NodeObject
    <2>4. NodeTargetingHasChanged(nodes[n], nodes'[n]) /\ Protected \notin ls
        BY <2>1, <2>2, <2>3, ProtectedAssumption DEF NodeTargetingHasChanged
    <2> DEFINE e == [type |-> "update", node |-> nodes'[n]]
    <2>5. Event(n) = <<e>>
        BY <2>2, <2>3, <2>4, NoneAssumption DEF Event
    <2> QED  BY <1>3, <1>4, <2>3, <2>4, <2>5 DEF EditedNode, Relevant
<1> QED  BY <1>2, <1>5, <1>6, <1>7

\* The edit of a node queues the group, if there is one.
LEMMA EditedNodesPending ==
    ASSUME AllReported, TypeInv, Unprotected, nodeEvents \in Seq(NodeEvent), EditNodes
    PROVE  Unprotected' /\ (nagIndex # None => Pending')
<1>1. PICK n \in Node : \E e : EditedNode(n, e)
    BY NodeEdits DEF EditNodes
<1>0. PICK e : EditedNode(n, e)
    BY <1>1
<1>2. Unprotected'
    BY <1>0 DEF Unprotected, EditedNode
<1>3. Event(n) # <<>> /\ n = CHOOSE m \in Node : Event(m) # <<>>
    BY <1>0 DEF EditedNode
<1>4. nodeEvents' = nodeEvents \o <<e>>
    BY <1>0, <1>3 DEF EditNodes, EditedNode
<1>5. Len(nodeEvents) + 1 \in DOMAIN nodeEvents' /\ nodeEvents'[Len(nodeEvents) + 1] = e
    BY <1>4
<1>6. nagIndex' = nagIndex
    BY GroupWrites DEF EditNodes, Unwritten
<1>7. nagIndex # None => Relevant(nagIndex', e)
    BY <1>0, <1>6 DEF EditedNode, Relevant
<1> QED  BY <1>2, <1>5, <1>6, <1>7 DEF Pending, Relevant

\* Calls do not fail.
LEMMA NoCallFails ==
    ASSUME AllReported, NEW call, Fail(call)
    PROVE  call = "crash"
BY DEF AllReported, Fail

\* How a run that is up to date ends.
LEMMA UpToDateEnd ==
    ASSUME AllReported, ManagerInv, RunUpToDate, ReconcileNag, Unwritten, pc' = "done"
    PROVE  nag.deleting <=> nag.finalizers = 0
<1>1. pc # "done" => wcNag = nag
    BY DEF RunUpToDate
<1>2. TypeInv /\ LabelInv /\ PhaseInv
    BY DEF ManagerInv, AllInv, IInv
<1>3. nag \in NagObject /\ watch \in Seq(Nags)
    BY <1>2 DEF TypeInv, TypeOK, Nags, RunUpToDate
<1>4. CASE EndReconcile \/ ApplyDefault
    <2>1. pc \in {"reconcile", "default", "cleanup"}
        BY <1>4 DEF EndReconcile, ApplyDefault
    <2>2. Active(nag)
        BY <1>1, <1>2, <2>1 DEF PhaseInv
    <2> QED  BY <1>3, <2>2 DEF Active, Guarded, NagObject
<1>5. CASE AddRetry \/ AddFails \/ AddUpdate
    <2>1. pc = "addUpdate" /\ copy = nag /\ ~nag.deleting
        BY <1>5 DEF AddRetry, AddFails, AddUpdate, RetryUpdate, UpdateFails, RunUpToDate
    <2>2. ~Conflict /\ ~AddForbidden
        BY <2>1 DEF Conflict, AddForbidden
    <2>3. ~AddRetry
        BY <2>2 DEF AddRetry, RetryUpdate
    <2>4. ~AddFails
        BY <2>1, <2>2, NoCallFails DEF AddFails, UpdateFails, RunUpToDate
    <2>5. ~AddUpdate
        <3>1. AddUpdate => watch' = Append(watch, nag')
            BY DEF AddUpdate, Store
        <3> QED  BY <1>3, <3>1 DEF Unwritten
    <2> QED  BY <1>5, <2>3, <2>4, <2>5
<1>6. CASE RemoveRetry \/ RemoveFails \/ RemoveUpdate
    <2>1. pc = "removeUpdate" /\ copy = nag
        BY <1>6 DEF RemoveRetry, RemoveFails, RemoveUpdate, RetryUpdate, UpdateFails, RunUpToDate
    <2>2. ~Conflict /\ nag.deleting
        BY <1>2, <2>1 DEF Conflict, PhaseInv, Deleting, RunUpToDate
    <2>3. ~RemoveRetry
        BY <2>2 DEF RemoveRetry, RetryUpdate
    <2>4. ~RemoveFails
        BY <2>1, <2>2, NoCallFails DEF RemoveFails, UpdateFails, RunUpToDate
    <2>5. RemoveUpdate => copy.finalizers = 0
        <3>1. RemoveUpdate /\ copy.finalizers # 0 => watch' = Append(watch, nag')
            BY DEF RemoveUpdate, Store
        <3> QED  BY <1>3, <3>1 DEF Unwritten
    <2> QED  BY <1>6, <2>1, <2>2, <2>3, <2>4, <2>5
<1>7. pc' = "done" => EndReconcile \/ ApplyDefault \/ AddRetry \/ AddFails \/ AddUpdate
                        \/ RemoveRetry \/ RemoveFails \/ RemoveUpdate
    <2>1. CASE \/ ListNodes \/ UnassignUntargeted \/ Decide \/ AddGet \/ RemoveGet
               \/ UnassignList \/ UnassignNode \/ EndUnassign
        BY <2>1 DEF ListNodes, UnassignUntargeted, Decide, AddGet, RemoveGet, GetNag,
            UnassignList, UnassignNode, EndUnassign, Goto
    <2>2. CASE \/ KeepNode \/ ReleaseNode \/ AssignNode \/ EndAssigning
               \/ CleanupGet \/ CleanupPatch
        BY <2>2 DEF KeepNode, ReleaseNode, AssignNode, EndAssigning, CleanupGet, CleanupPatch,
            Goto
    <2> QED  BY <2>1, <2>2 DEF ReconcileNag
<1> QED  BY <1>4, <1>5, <1>6, <1>7

\* As long as the run does not write the group, it stays up to date.
LEMMA StaysUpToDate ==
    ASSUME AllReported, ManagerInv, RunUpToDate, ReconcileNag, Unwritten
    PROVE  RunUpToDate'
<1>1. nag' = nag /\ nag # None /\ watch' = watch
    BY DEF Unwritten, RunUpToDate
<1>2. /\ ~failed'
      /\ pc' # "list" => clean'
      /\ pc' # "done" => wcNag' = nag
      /\ pc' \in {"addGet", "addUpdate"} => ~wcNag'.deleting
      /\ pc' \in {"addUpdate", "removeUpdate"} => copy' = nag
    <2>1. CASE ListNodes
        <3>1. clean' = (wcNag = nag) /\ wcNag = nag
            BY <2>1 DEF ListNodes, RunUpToDate
        <3> QED  BY <2>1, <3>1 DEF ListNodes, RunUpToDate, Goto
    <2>12. CASE Decide
        BY <2>12 DEF Decide, RunUpToDate, Goto
    <2>2. CASE UnassignUntargeted
        BY <2>2, NoCallFails DEF UnassignUntargeted, PatchNode, PatchFails, NoFault, RunUpToDate
    <2>3. CASE AddGet \/ RemoveGet
        BY <2>3, NoCallFails DEF AddGet, RemoveGet, GetNag, NoFault, RunUpToDate, Goto
    <2>4. CASE AddRetry \/ RemoveRetry
        BY <2>4 DEF AddRetry, RemoveRetry, RetryUpdate, RunUpToDate, Conflict
    <2>5. CASE AddFails \/ RemoveFails
        BY <2>5, NoCallFails DEF AddFails, RemoveFails, UpdateFails, EndRun, NoFault, RunUpToDate
    <2>6. CASE AddUpdate
        <3>1. watch \in Seq(Nags) /\ watch' = Append(watch, nag')
            BY <2>6 DEF AddUpdate, Store, ManagerInv, IInv, TypeInv, TypeOK
        <3> QED  BY <1>1, <3>1
    <2>7. CASE RemoveUpdate \/ EndReconcile
        BY <2>7, NoCallFails DEF RemoveUpdate, Answered, EndReconcile, EndRun, NoFault, RunUpToDate
    <2>8. CASE KeepNode \/ ReleaseNode \/ EndAssigning \/ EndUnassign
        BY <2>8 DEF KeepNode, ReleaseNode, EndAssigning, EndUnassign, Goto, RunUpToDate
    <2>9. CASE AssignNode \/ UnassignNode
        BY <2>9, NoCallFails DEF AssignNode, UnassignNode, PatchNode, PatchFails, NoFault,
            RunUpToDate
    <2>10. CASE ApplyDefault
        BY <2>10, NoCallFails DEF ApplyDefault, PatchNode, PatchFails, NoFault, Goto, EndRun,
            RunUpToDate
    <2>11. CASE CleanupGet \/ CleanupPatch \/ UnassignList
        BY <2>11, NoCallFails DEF CleanupGet, CleanupPatch, UnassignList, PatchNode, PatchFails,
            NoFault, Goto, RunUpToDate
    <2> QED  BY <2>1, <2>2, <2>3, <2>4, <2>5, <2>6, <2>7, <2>8, <2>9, <2>10, <2>11, <2>12
             DEF ReconcileNag
<1>3. pc' = "done" => (nag'.deleting <=> nag'.finalizers = 0)
    BY <1>1, UpToDateEnd
<1> QED  BY <1>1, <1>2, <1>3 DEF RunUpToDate

\* What a run that has stayed up to date has made of the cluster.
LEMMA UpToDateConverged ==
    ASSUME ManagerInv, RunUpToDate, pc = "done"
    PROVE  Converged
<1>1. nag \in NagObject /\ clean /\ ~failed
    BY DEF RunUpToDate, ManagerInv, IInv, TypeInv, TypeOK, Nags
<1>2. CASE nag.deleting
    <2>1. nag.finalizers = 0
        BY <1>2 DEF RunUpToDate
    <2>2. ~(nag.finalizers > 0)
        BY <2>1
    <2> QED  BY <1>2, <2>1, <2>2 DEF ManagerInv, IInv, TracesImplyFinalizer, Converged, NoTraces
<1>3. CASE ~nag.deleting
    <2>1. nag.finalizers > 0
        BY <1>1, <1>3 DEF RunUpToDate, NagObject
    <2>2. Satisfied(nag.spec)
        BY <1>1, <1>3, ReconciledOutcome DEF RunUpToDate, Reconciled, ManagerInv, Outcome,
            Satisfied
    <2> QED  BY <1>3, <2>1, <2>2 DEF Converged, RunUpToDate
<1> QED  BY <1>2, <1>3

\* A run changes no label of users: patches carry those of the group only.
PatchedBy(n, old, new) ==
    nodes[n] # None /\ nodes' = [nodes EXCEPT ![n] = Patch(nodes[n], old, new)]

LEMMA PatchedOne ==
    ASSUME NEW n \in Node, NEW old, NEW new, PatchNode(n, old, new) \/ PatchFails(n, old, new)
    PROVE  nodes' = nodes \/ PatchedBy(n, old, new)
BY DEF PatchNode, PatchFails, PatchedBy

LEMMA RunPatches ==
    ASSUME TypeInv, ReconcileNag
    PROVE  nodes' = nodes \/ \E n \in Node : \E old, new : PatchedBy(n, old, new)
<1>1. CASE UnassignUntargeted \/ AssignNode \/ ApplyDefault \/ UnassignNode
    <2>1. PICK n \in todo : nodes' = nodes \/
            \E new : PatchNode(n, mem[n], new) \/ PatchFails(n, mem[n], new)
        BY <1>1 DEF UnassignUntargeted, AssignNode, ApplyDefault, UnassignNode
    <2> QED  BY <2>1, PatchedOne DEF TypeInv, TypeOK
<1>2. CASE CleanupPatch
    <2>1. at \in Node
        BY <1>2 DEF CleanupPatch, TypeInv, MemInv
    <2> QED  BY <1>2, <2>1, PatchedOne DEF CleanupPatch
<1>3. CASE \/ ListNodes \/ Decide
           \/ AddGet \/ AddRetry \/ AddFails \/ AddUpdate
           \/ RemoveGet \/ RemoveRetry \/ RemoveFails \/ RemoveUpdate
    BY <1>3 DEF ListNodes, Decide, AddGet, AddRetry, AddFails, AddUpdate, RemoveGet,
        RemoveRetry, RemoveFails, RemoveUpdate, GetNag, RetryUpdate, UpdateFails, apiVars
<1>4. CASE \/ KeepNode \/ ReleaseNode \/ EndAssigning \/ CleanupGet \/ EndReconcile
           \/ UnassignList \/ EndUnassign
    BY <1>4 DEF KeepNode, ReleaseNode, EndAssigning, CleanupGet, EndReconcile, UnassignList,
        EndUnassign, apiVars
<1> QED  BY <1>1, <1>2, <1>3, <1>4 DEF ReconcileNag

LEMMA RunKeepsLabels ==
    ASSUME TypeInv, Unprotected, ReconcileNag
    PROVE  Unprotected'
<1>1. nodes \in NodeMap
    BY DEF TypeInv, TypeOK
<1>2. CASE nodes' = nodes
    BY <1>2 DEF Unprotected
<1>3. ASSUME NEW n \in Node, NEW old, NEW new, PatchedBy(n, old, new) PROVE Unprotected'
    <2>1. nodes[n] \in NodeObject
        BY <1>1, <1>3 DEF PatchedBy, NodeMap
    <2>2. Patch(nodes[n], old, new).labels = nodes[n].labels
        BY <2>1 DEF Patch, NodeObject
    <2> QED  BY <1>1, <1>3, <2>2 DEF Unprotected, PatchedBy, NodeMap
<1> QED  BY <1>2, <1>3, RunPatches

\* A step that neither the group nor the nodes notice.
Unnoticed == UNCHANGED <<nodes, nag, nagIndex, watch>>

LEMMA UnnoticedBasics ==
    ASSUME IndexInv, Unprotected, Unnoticed
    PROVE  IndexInv' /\ Unprotected'
BY DEF IndexInv, Unprotected, Unnoticed

LEMMA UnnoticedConverged ==
    ASSUME Unnoticed, Converged
    PROVE  Converged'
BY DEF Unnoticed, Converged, NoTraces, Satisfied, LabelsSatisfied, TaintsSatisfied, Targets, Count

\* The steps of everybody but the worker.
LEMMA OutsideQueued ==
    ASSUME AllReported, QueuedInv, TypeInv',
           EditNodes \/ EditGroup \/ Deliver \/ OnNagEvent \/ OnNodeEvent \/ RetryDue
    PROVE  IndexInv' /\ WorkerInv' /\ Unprotected' /\ AwakeInv'
<1>1. /\ TypeInv /\ nagEvents \in Nat /\ nodeEvents \in Seq(NodeEvent)
      /\ IndexInv /\ WorkerInv /\ Unprotected /\ AwakeInv
    BY DEF QueuedInv, ManagerInv, IInv, ControllerTypeOK
<1>2. CASE EditNodes
    <2>1. Unwritten /\ UNCHANGED <<pc, worker, dirty, nagEvents>>
        BY <1>2, GroupWrites DEF EditNodes, queueVars
    <2>2. Unprotected' /\ (nagIndex # None => Pending')
        BY <1>1, <1>2, EditedNodesPending
    <2>3. ASSUME nagIndex = None, ~Pending' PROVE nag = None /\ ~Pending
        BY <1>1, <2>1, <2>3 DEF Pending, IndexInv, Unwritten
    <2>4. AwakeInv'
        BY <1>1, <2>1, <2>2, <2>3 DEF AwakeInv, RunUpToDate, Unwritten
    <2> QED  BY <1>1, <2>1, <2>2, <2>4 DEF IndexInv, WorkerInv, Unwritten
<1>3. CASE EditGroup
    <2>1. Written /\ UNCHANGED <<pc, worker, nodes>>
        BY <1>3, GroupWrites DEF EditGroup, controllerVars, NagEdit, CreateNag, UpdateNag, DeleteNag,
            OtherFinalizer, EditNag
    <2>2. IndexInv' /\ Pending'
        BY <1>1, <2>1, WrittenIndex
    <2> QED  BY <1>1, <2>1, <2>2 DEF WorkerInv, Unprotected, AwakeInv
<1>4. CASE Deliver
    <2>1. IndexInv' /\ nagEvents' > 0
        BY <1>1, <1>4, DeliveredIndex DEF Deliver
    <2>2. UNCHANGED <<pc, worker, nodes>>
        BY <1>4 DEF Deliver, DeliverNag, apiVars
    <2> QED  BY <1>1, <2>1, <2>2 DEF WorkerInv, Unprotected, AwakeInv, Pending
<1>5. CASE (OnNagEvent \/ OnNodeEvent \/ RetryDue) /\ \E k \in Key : Add(k)
    <2>1. UNCHANGED vars /\ worker' = worker
        BY <1>5 DEF OnNagEvent, OnNodeEvent, RetryDue, controllerVars
    <2>2. dirty' # {}
        BY <1>5 DEF Add
    <2> QED  BY <1>1, <2>1, <2>2, UnnoticedBasics
             DEF WorkerInv, AwakeInv, Pending, Unnoticed, vars, apiVars, cacheVars
<1>6. CASE OnNodeEvent /\ ~\E k \in Key : Add(k)
    <2>1. UNCHANGED vars /\ UNCHANGED <<worker, dirty, nagEvents>>
        BY <1>6 DEF OnNodeEvent
    <2>2. nodeEvents # <<>> /\ nodeEvents' = Tail(nodeEvents)
        BY <1>6 DEF OnNodeEvent
    <2>3. nagIndex # None => ~Relevant(nagIndex, nodeEvents[1])
        <3>1. Head(nodeEvents) = nodeEvents[1]
            BY <1>1, <2>2
        <3> QED  BY <1>6, <3>1 DEF OnNodeEvent, Relevant
    <2>4. ASSUME NEW i \in DOMAIN nodeEvents, i # 1
          PROVE  i - 1 \in DOMAIN nodeEvents' /\ nodeEvents'[i - 1] = nodeEvents[i]
        <3>1. Len(nodeEvents) \in Nat /\ i \in 2..Len(nodeEvents)
            BY <1>1, <2>4
        <3>2. Len(Tail(nodeEvents)) = Len(nodeEvents) - 1 /\ Tail(nodeEvents) \in Seq(NodeEvent)
            BY <1>1, <2>2
        <3>3. i - 1 \in 1..Len(Tail(nodeEvents)) /\ (i - 1) + 1 = i
            BY <3>1, <3>2
        <3> QED  BY <1>1, <2>2, <3>2, <3>3
    <2>5. nagIndex' = nagIndex
        BY <2>1 DEF vars, cacheVars
    <2>6. Pending => Pending'
        <3>1. ASSUME nagIndex # None, NEW i \in DOMAIN nodeEvents, Relevant(nagIndex, nodeEvents[i])
              PROVE  \E j \in DOMAIN nodeEvents' : Relevant(nagIndex', nodeEvents'[j])
            <4>1. i # 1
                BY <2>3, <3>1
            <4>2. Relevant(nagIndex', nodeEvents'[i - 1])
                BY <2>4, <2>5, <3>1, <4>1 DEF Relevant
            <4> QED  BY <2>4, <4>1, <4>2
        <3> QED  BY <2>1, <2>5, <3>1 DEF Pending, vars, cacheVars
    <2>7. Converged => Converged'
        BY <2>1, UnnoticedConverged DEF Unnoticed, vars, apiVars, cacheVars
    <2>8. RunUpToDate => RunUpToDate'
        BY <2>1 DEF RunUpToDate, vars, apiVars, loopVars
    <2>9. AwakeInv'
        BY <1>1, <2>1, <2>6, <2>7, <2>8 DEF AwakeInv, vars, apiVars
    <2> QED  BY <1>1, <2>1, <2>9, UnnoticedBasics
             DEF WorkerInv, Unnoticed, vars, apiVars, cacheVars
<1> QED
    BY <1>2, <1>3, <1>4, <1>5, <1>6 DEF OnNagEvent, RetryDue, Fire

\* The steps of the worker.
LEMMA WorkerQueued ==
    ASSUME AllReported, QueuedInv, TypeInv', WorkerNext
    PROVE  IndexInv' /\ WorkerInv' /\ Unprotected' /\ AwakeInv'
<1>1. /\ TypeInv /\ ManagerInv
      /\ IndexInv /\ WorkerInv /\ Unprotected /\ AwakeInv
    BY DEF QueuedInv, ManagerInv, IInv
<1>2. CASE Dequeue
    <2>1. UNCHANGED vars /\ worker = "idle" /\ worker' = "lookup"
        BY <1>2 DEF Dequeue
    <2> QED  BY <1>1, <2>1, UnnoticedBasics
             DEF WorkerInv, AwakeInv, Unnoticed, vars, apiVars, cacheVars
<1>3. CASE LookupFound
    <2>1. /\ Unnoticed /\ nagIndex # None
          /\ pc' = "list" /\ wcNag' = nagIndex /\ failed' = FALSE /\ worker' = "busy"
        BY <1>3 DEF LookupFound, Start, apiVars, cacheVars, Unnoticed
    <2>2. ~Pending' => nag = nagIndex
        BY <1>1, <2>1 DEF Pending, IndexInv, Unnoticed
    <2>3. ~Pending' => RunUpToDate'
        BY <2>1, <2>2 DEF RunUpToDate, Unnoticed
    <2> QED  BY <1>1, <2>1, <2>3, UnnoticedBasics DEF WorkerInv, AwakeInv
<1>4. CASE LookupAbsent
    <2>1. UNCHANGED vars /\ worker' = "finish" /\ worker = "lookup" /\ nagIndex = None
        BY <1>4 DEF LookupAbsent
    <2>2. ~Pending' => nag' = None
        BY <1>1, <2>1 DEF Pending, IndexInv, vars, apiVars, cacheVars
    <2> QED  BY <1>1, <2>1, <2>2, UnnoticedBasics
             DEF WorkerInv, AwakeInv, Unnoticed, vars, apiVars, cacheVars
<1>5. CASE RunStep
    <2>1. ReconcileNag /\ worker = "busy" /\ worker' = "busy"
          /\ UNCHANGED <<dirty, nagEvents, nodeEvents>>
        BY <1>5 DEF RunStep, queueVars, controllerVars
    <2>2. Unprotected'
        BY <1>1, <2>1, RunKeepsLabels
    <2>3. CASE Written
        <3>1. IndexInv' /\ Pending'
            BY <1>1, <2>3, WrittenIndex
        <3> QED  BY <2>1, <2>2, <3>1 DEF WorkerInv, AwakeInv
    <2>4. CASE Unwritten
        <3>1. Pending => Pending'
            BY <2>1, <2>4 DEF Pending, Unwritten, Relevant
        <3>2. RunUpToDate => RunUpToDate'
            BY <1>1, <2>1, <2>4, StaysUpToDate
        <3> QED  BY <1>1, <2>1, <2>2, <2>4, <3>1, <3>2 DEF IndexInv, WorkerInv, AwakeInv, Unwritten
    <2> QED  BY <2>1, <2>3, <2>4, GroupWrites
<1>6. CASE RunReturns \/ FinishItem
    <2>1. UNCHANGED vars /\ UNCHANGED <<dirty, nagEvents, nodeEvents>>
        <3>1. FinishItem => UNCHANGED vars /\ UNCHANGED <<dirty, nagEvents, nodeEvents>>
            BY DEF FinishItem, Done
        <3>2. RunReturns => UNCHANGED vars /\ UNCHANGED <<dirty, nagEvents, nodeEvents>>
            BY DEF RunReturns, HandleErr
        <3> QED  BY <1>6, <3>1, <3>2
    <2>2. \/ worker = "busy" /\ pc = "done" /\ worker' = "finish"
          \/ worker = "finish" /\ worker' = "idle"
        BY <1>6 DEF RunReturns, FinishItem
    <2>3. Pending => Pending'
        BY <2>1 DEF Pending, Relevant, vars, cacheVars
    <2>4. Converged => Converged'
        BY <2>1, UnnoticedConverged DEF Unnoticed, vars, apiVars, cacheVars
    <2>5. worker = "busy" /\ RunUpToDate => Converged
        BY <1>1, <2>2, UpToDateConverged
    <2>6. pc' = "done" /\ nag' = nag
        BY <1>1, <2>1, <2>2 DEF WorkerInv, vars, apiVars
    <2>7. AwakeInv' /\ WorkerInv'
        BY <1>1, <2>2, <2>3, <2>4, <2>5, <2>6 DEF AwakeInv, WorkerInv
    <2> QED  BY <1>1, <2>1, <2>7, UnnoticedBasics DEF Unnoticed, vars, apiVars, cacheVars
<1> QED  BY <1>2, <1>3, <1>4, <1>5, <1>6 DEF WorkerNext

LEMMA QueuedStep ==
    AllReported /\ AllDistinct /\ QueuedInv /\ [ControllerNext]_allVars => QueuedInv'
<1> SUFFICES ASSUME AllReported, AllDistinct, QueuedInv, [ControllerNext]_allVars
             PROVE  QueuedInv'
    OBVIOUS
<1>1. ManagerInv'
    BY ManagerStep DEF QueuedInv
<1>2. TypeInv /\ TypeInv'
    BY <1>1 DEF QueuedInv, ManagerInv, IInv
<1>3. ControllerTypeOK'
    BY <1>2, ControllerStepType DEF QueuedInv
<1>4. IndexInv' /\ WorkerInv' /\ Unprotected' /\ AwakeInv'
    <2>1. CASE UNCHANGED allVars
        <3>1. UNCHANGED vars /\ UNCHANGED <<dirty, nagEvents, nodeEvents, worker>>
            BY <2>1 DEF allVars, queueVars, controllerVars
        <3>2. Pending => Pending'
            BY <3>1 DEF Pending, Relevant, vars, cacheVars
        <3>3. Converged => Converged'
            BY <3>1, UnnoticedConverged DEF Unnoticed, vars, apiVars, cacheVars
        <3>4. RunUpToDate => RunUpToDate'
            BY <3>1 DEF RunUpToDate, vars, apiVars, loopVars
        <3>5. pc' = pc /\ nag' = nag
            BY <3>1 DEF vars, apiVars
        <3> QED  BY <3>1, <3>2, <3>3, <3>4, <3>5, UnnoticedBasics
                 DEF QueuedInv, AwakeInv, WorkerInv, Unnoticed, vars, apiVars, cacheVars
    <2> QED  BY <1>2, <2>1, OutsideQueued, WorkerQueued DEF ControllerNext
<1> QED  BY <1>1, <1>3, <1>4 DEF QueuedInv

LEMMA QueuedStart == ControllerInit => QueuedInv
<1> SUFFICES ASSUME ControllerInit PROVE QueuedInv
    OBVIOUS
<1>1. Init /\ QueueInit
    BY DEF ControllerInit
<1>2. ManagerInv
    BY <1>1, InitAll, InitInv DEF ManagerInv, Init
<1>3. ControllerTypeOK
    BY <1>1, InitType
       DEF ControllerInit, ControllerTypeOK, TypeInv, QueueInit, QueueTypeOK, MaxRequeues
<1>4. Unprotected
    <2>1. \A n \in Node : nodes[n] = None \/ \E ls \in SUBSET Label : nodes[n] = Fresh(ls)
        BY <1>1 DEF Init
    <2>2. \A ls \in SUBSET Label : Protected \notin Fresh(ls).labels
        BY ProtectedAssumption DEF Fresh
    <2> QED  BY <2>1, <2>2 DEF Unprotected
<1>5. IndexInv /\ WorkerInv /\ AwakeInv
    BY <1>1 DEF Init, ControllerInit, IndexInv, WorkerInv, AwakeInv
<1> QED  BY <1>2, <1>3, <1>4, <1>5 DEF QueuedInv

\* However changes overtake runs of the worker, none is forgotten: when the
\* handlers have run and the queue is empty (OnAddNode to OnDeleteNag,
\* processNextItem), the cluster is what the group asks for.
THEOREM NothingIsForgotten ==
    AllReported /\ AllDistinct => (ControllerSpec => []QuiescentMeansConverged)
<1>1. QueuedInv => QuiescentMeansConverged
    <2> SUFFICES ASSUME QueuedInv, Quiescent PROVE Converged
        BY DEF QuiescentMeansConverged
    <2>1. ManagerInv /\ AwakeInv
        BY DEF QueuedInv
    <2>2. ~Pending
        <3>1. DOMAIN nodeEvents = {}
            BY DEF Quiescent
        <3> QED  BY <3>1 DEF Pending, Quiescent
    <2>3. worker = "idle"
        BY DEF Quiescent
    <2> QED  BY <2>1, <2>2, <2>3, GoneConverged DEF AwakeInv
<1> SUFFICES ASSUME AllReported /\ AllDistinct
             PROVE  ControllerSpec => []QuiescentMeansConverged
    OBVIOUS
<1>2. QueuedInv /\ [ControllerNext]_allVars => QueuedInv'
    BY QueuedStep
<1> QED  BY <1>1, <1>2, QueuedStart, PTL DEF ControllerSpec
=============================================================================
