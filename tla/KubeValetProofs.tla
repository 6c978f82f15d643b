--------------------------- MODULE KubeValetProofs ---------------------------
(***************************************************************************)
(* TLAPS proofs about KubeValet, node assignment and packleft in one       *)
(* process: neither undoes what a user or the other has written of the     *)
(* group, and packleft's patches do not disturb the assignments.           *)
(***************************************************************************)
EXTENDS KubeValet, ReconcileProofs, PackLeftProofs

-----------------------------------------------------------------------------
(* The types. *)

ValetType == TypeInv /\ PLTypeInv

LEMMA ValetInitType == ValetInit => ValetType
<1> SUFFICES ASSUME ValetInit PROVE ValetType
    OBVIOUS
<1>1. TypeInv
    BY InitType DEF ValetInit
<1>2. /\ nodes \in NodeMap /\ nag \in Nags /\ version \in Nat /\ nagIndex \in Nags
      /\ watch \in Seq(Nags) /\ edits \in Nat /\ faults \in Nat
    BY <1>1 DEF TypeInv, TypeOK
<1>3. /\ RunType /\ WatchType
      /\ nodeIndex \in NodeMap /\ podIndex \in [Pod -> PodObject \cup {None}]
    BY <1>2, PLInitType DEF ValetInit
<1>4. plClean \in BOOLEAN /\ plFailed \in BOOLEAN
    BY DEF ValetInit, PLInit
<1>5. WorldType
    BY <1>2, <1>3, <1>4 DEF WorldType
<1> QED  BY <1>1, <1>3, <1>5 DEF ValetType, PLTypeInv

\* A step of node assignment, of a user or of the informer of groups.
Aside == /\ WatchNodes
         /\ plClean' = (plClean /\ UNCHANGED <<nodes, nag>>)
         /\ UNCHANGED <<plCacheVars, plPc, plLoopVars, plFailed>>

LEMMA AsideType ==
    ASSUME ValetType, [Next]_vars, Aside
    PROVE  ValetType'
<1>1. TypeInv'
    BY NextType DEF ValetType
<1>2. /\ nodes' \in NodeMap /\ nag' \in Nags /\ version' \in Nat /\ nagIndex' \in Nags
      /\ watch' \in Seq(Nags) /\ edits' \in Nat /\ faults' \in Nat
    BY <1>1 DEF TypeInv, TypeOK
<1>3. nodeIndex' \in NodeMap /\ podIndex' \in [Pod -> PodObject \cup {None}]
    BY DEF ValetType, PLTypeInv, WorldType, Aside, plCacheVars
<1>4. plFailed' \in BOOLEAN
    BY DEF ValetType, PLTypeInv, WorldType, Aside
<1>5. plClean' \in BOOLEAN
    BY DEF Aside
<1>6. WorldType'
    BY <1>2, <1>3, <1>4, <1>5 DEF WorldType
<1>7. RunType'
    BY DEF ValetType, PLTypeInv, RunType, Aside, plLoopVars
<1>8. WatchType'
    BY <1>2, WatchNodesFacts DEF ValetType, PLTypeInv, WorldType, Aside
<1> QED  BY <1>1, <1>6, <1>7, <1>8 DEF ValetType, PLTypeInv

\* What packleft leaves of node assignment's run.
LEMMA PackStepType == ValetType /\ PackStep => ValetType' /\ PLStepOK
<1> SUFFICES ASSUME ValetType, PackStep PROVE ValetType' /\ PLStepOK
    OBVIOUS
<1>1. PLStepOK
    BY PLRunStepOK, PLStartOK DEF ValetType, PLTypeInv, PackStep
<1>2. WatchType'
    BY <1>1, WatchNodesFacts DEF ValetType, PLTypeInv, WorldType, PackStep, PLStepOK
<1>3. TypeInv'
    BY <1>1 DEF ValetType, TypeInv, TypeOK, MemInv, PackStep, PLStepOK, WorldType,
        naRunVars, loopVars, historyVars
<1> QED  BY <1>1, <1>2, <1>3 DEF ValetType, PLTypeInv, PLStepOK

LEMMA DeliverNodeType == ValetType /\ DeliverNode => ValetType'
<1> SUFFICES ASSUME ValetType, DeliverNode PROVE ValetType'
    OBVIOUS
<1> DEFINE T == [node: Node, obj: NodeObject \cup {None}]
<1>1. nodeWatch # <<>> /\ nodeWatch' = Tail(nodeWatch) /\ nodeWatch \in Seq(T)
    BY DEF DeliverNode, ValetType, PLTypeInv, WatchType
<1>2. Head(nodeWatch) \in T /\ nodeWatch' \in Seq(T)
    <2> HIDE DEF T
    <2> QED  BY <1>1
<1>3. nodeIndex' \in NodeMap
    BY <1>2 DEF DeliverNode, ValetType, PLTypeInv, WorldType, NodeMap
<1>4. TypeInv'
    BY NextType DEF DeliverNode, ValetType
<1>5. WorldType'
    BY <1>3 DEF DeliverNode, ValetType, PLTypeInv, WorldType, vars, plVars, apiVars, cacheVars
<1>6. RunType'
    BY DEF DeliverNode, ValetType, PLTypeInv, RunType, plVars, plLoopVars
<1> QED  BY <1>2, <1>4, <1>5, <1>6 DEF ValetType, PLTypeInv, WatchType

\* The step of node assignment in a step of the process.
LEMMA AroundStep ==
    ASSUME AssignStep \/ DeliverGroup \/ UserStep
    PROVE  /\ Aside
           /\ \/ Start \/ ReconcileNag
              \/ DeliverNag
              \/ CreateNag \/ UpdateNag \/ DeleteNag
BY DEF AssignStep, DeliverGroup, UserStep, Around, Aside

LEMMA ValetStepType == ValetType /\ [ValetNext]_valetVars => ValetType'
<1> SUFFICES ASSUME ValetType, [ValetNext]_valetVars PROVE ValetType'
    OBVIOUS
<1>1. CASE AssignStep \/ DeliverGroup \/ UserStep
    BY <1>1, AroundStep, AsideType DEF Next, NagEdit
<1>2. CASE UNCHANGED valetVars
    <2>1. TypeInv'
        BY <1>2, NextType DEF ValetType, valetVars
    <2>2. PLTypeInv'
        BY <1>2 DEF ValetType, PLTypeInv, WorldType, WatchType, RunType, valetVars, vars, plVars,
            plLoopVars, apiVars, cacheVars
    <2> QED  BY <2>1, <2>2 DEF ValetType
<1> QED  BY <1>1, <1>2, PackStepType, DeliverNodeType DEF ValetNext

-----------------------------------------------------------------------------
(* Who writes the group, and what. *)

\* A copy of the group that has the latest resource version is the group.
Versioned(x) == x # None => x.rv <= version /\ (x.rv = version => x = nag)

ValetVersions ==
    /\ nag # None => nag.rv = version
    /\ Versioned(copy) /\ Versioned(plCopy)

\* The step writes the group, and leaves the copies alone.
WritesGroup(obj) ==
    /\ obj \in Nags /\ Store(obj)
    /\ copy' \in {copy, None} /\ plCopy' \in {plCopy, None}

\* The step does not write the group, and copies are made of what is there.
ReadsGroup ==
    /\ UNCHANGED <<nag, version>>
    /\ copy' \in {copy, nag, None} /\ plCopy' \in {plCopy, nag, None}

LEMMA StoredObject ==
    ASSUME version \in Nat, NEW obj \in Nags, Store(obj)
    PROVE  /\ version' = version + 1
           /\ obj = None => nag' = None
           /\ obj # None => /\ nag' # None /\ nag'.rv = version + 1
                            /\ nag'.spec = obj.spec /\ nag'.deleting = obj.deleting
                            /\ nag'.finalizers = obj.finalizers /\ nag'.others = obj.others
<1>1. CASE obj = None
    BY <1>1 DEF Store
<1>2. CASE obj \in NagObject
    <2>1. nag' = [obj EXCEPT !.rv = version + 1] /\ version' = version + 1
        BY <1>2, NoNagAssumption DEF Store
    <2>2. version + 1 \in Nat
        OBVIOUS
    <2>3. /\ nag' \in NagObject /\ nag'.rv = version + 1
          /\ nag'.spec = obj.spec /\ nag'.deleting = obj.deleting
          /\ nag'.finalizers = obj.finalizers /\ nag'.others = obj.others
        BY <1>2, <2>1, <2>2 DEF NagObject
    <2> QED  BY <1>2, <2>1, <2>3, NoNagAssumption
<1> QED  BY <1>1, <1>2 DEF Nags

LEMMA VersionsKept ==
    ASSUME ValetType, ValetVersions, ReadsGroup \/ \E obj : WritesGroup(obj)
    PROVE  ValetVersions'
<1>1. /\ version \in Nat
      /\ nag # None => nag.rv \in Nat
      /\ copy # None => copy.rv \in Nat
      /\ plCopy # None => plCopy.rv \in Nat
    BY DEF ValetType, TypeInv, TypeOK, PLTypeInv, RunType, Nags, NagObject
<1>2. CASE ReadsGroup
    BY <1>1, <1>2 DEF ReadsGroup, ValetVersions, Versioned
<1>3. CASE \E obj : WritesGroup(obj)
    <2>1. PICK obj : WritesGroup(obj)
        BY <1>3
    <2>2. version' = version + 1 /\ (nag' # None => nag'.rv = version + 1)
        BY <1>1, <2>1, StoredObject DEF WritesGroup
    <2> QED  BY <1>1, <2>1, <2>2 DEF WritesGroup, ValetVersions, Versioned
<1> QED  BY <1>2, <1>3

LEMMA EditsOf ==
    ASSUME NEW obj \in NagObject
    PROVE  /\ [obj EXCEPT !.others = TRUE] \in NagObject
           /\ [obj EXCEPT !.others = FALSE] \in NagObject
BY DEF NagObject

\* Node assignment writes the group it has read last: it appends its
\* finalizer, or takes it off.
LEMMA AssignWrites ==
    ASSUME ValetType, ValetVersions, ReconcileNag, plCopy' = plCopy
    PROVE  \/ ReadsGroup
           \/ /\ nag # None /\ nag = copy
              /\ WritesGroup([nag EXCEPT !.finalizers = @ + 1])
           \/ /\ nag # None /\ nag = copy
              /\ WritesGroup(AfterFinalizers([nag EXCEPT !.finalizers = 0]))
<1>1. CASE AddUpdate
    <2>1. copy = nag /\ nag # None
        BY <1>1 DEF AddUpdate, Conflict, ValetVersions, Versioned
    <2>2. copy \in NagObject
        BY <2>1 DEF ValetType, TypeInv, TypeOK, Nags
    <2>3. [nag EXCEPT !.finalizers = @ + 1] \in Nags /\ Store([nag EXCEPT !.finalizers = @ + 1])
        BY <1>1, <2>1, <2>2, NagEditType DEF AddUpdate, Nags
    <2> QED  BY <1>1, <2>1, <2>3 DEF AddUpdate, Answered, WritesGroup, EndRun
<1>2. CASE RemoveUpdate
    <2>1. copy = nag /\ nag # None
        BY <1>2 DEF RemoveUpdate, Conflict, ValetVersions, Versioned
    <2>2. copy \in NagObject
        BY <2>1 DEF ValetType, TypeInv, TypeOK, Nags
    <2>3. CASE UNCHANGED <<nag, version, watch>>
        BY <1>2, <2>3 DEF RemoveUpdate, Answered, ReadsGroup, EndRun
    <2>4. CASE Store(AfterFinalizers([nag EXCEPT !.finalizers = 0]))
        <3>1. AfterFinalizers([nag EXCEPT !.finalizers = 0]) \in Nags
            BY <2>1, <2>2, NagEditType
        <3> QED  BY <1>2, <2>1, <2>4, <3>1 DEF RemoveUpdate, Answered, WritesGroup, EndRun
    <2> QED  BY <1>2, <2>1, <2>3, <2>4 DEF RemoveUpdate
<1>3. CASE ~AddUpdate /\ ~RemoveUpdate
    BY <1>3 DEF ReconcileNag, ReadsGroup, apiVars, loopVars, EndRun, Goto,
        ListNodes, UnassignUntargeted, Decide, AddGet, AddRetry, AddFails, KeepNode, ReleaseNode,
        AssignNode, ApplyDefault, EndAssigning, CleanupGet, CleanupPatch, EndReconcile,
        UnassignList, UnassignNode, EndUnassign, RemoveGet, RemoveRetry, RemoveFails,
        GetNag, RetryUpdate, UpdateFails
<1> QED  BY <1>1, <1>2, <1>3

\* ... and so does packleft, with a finalizer of its own.
LEMMA PackWrites ==
    ASSUME ValetType, ValetVersions, PLRun \/ PLStart, copy' = copy
    PROVE  \/ ReadsGroup
           \/ /\ nag # None /\ nag = plCopy
              /\ WritesGroup([nag EXCEPT !.others = TRUE])
           \/ /\ nag # None /\ nag = plCopy
              /\ WritesGroup(AfterFinalizers([nag EXCEPT !.others = FALSE]))
<1>1. CASE EnsureUpdate
    <2>1. plCopy = nag /\ nag # None
        BY <1>1 DEF EnsureUpdate, PLConflict, ValetVersions, Versioned
    <2>2. plCopy \in NagObject
        BY <2>1 DEF ValetType, PLTypeInv, RunType, Nags
    <2>3. [nag EXCEPT !.others = TRUE] \in Nags /\ Store([nag EXCEPT !.others = TRUE])
        BY <1>1, <2>1, <2>2, EditsOf DEF EnsureUpdate, Nags
    <2> QED  BY <1>1, <2>1, <2>3 DEF EnsureUpdate, WritesGroup
<1>2. CASE PLRemoveUpdate
    <2>1. plCopy = nag /\ nag # None
        BY <1>2 DEF PLRemoveUpdate, PLConflict, ValetVersions, Versioned
    <2>2. plCopy \in NagObject
        BY <2>1 DEF ValetType, PLTypeInv, RunType, Nags
    <2>3. CASE UNCHANGED <<nag, version, watch>>
        BY <1>2, <2>3 DEF PLRemoveUpdate, ReadsGroup, PLEndRun
    <2>4. CASE Store(AfterFinalizers([nag EXCEPT !.others = FALSE]))
        <3>1. AfterFinalizers([nag EXCEPT !.others = FALSE]) \in Nags
            BY <2>1, <2>2, EditsOf, NagEditType
        <3> QED  BY <1>2, <2>1, <2>4, <3>1 DEF PLRemoveUpdate, WritesGroup, PLEndRun
    <2> QED  BY <1>2, <2>1, <2>3, <2>4 DEF PLRemoveUpdate
<1>3. CASE ~EnsureUpdate /\ ~PLRemoveUpdate
    BY <1>3 DEF PLRun, PLStart, ReadsGroup, apiVars, PLEndRun,
        EnsureGet, EnsureRetry, EnsureFails, ListGroups, BalanceNodes, SendState, CleanUnassigned,
        SendClear, EndRebalance, CleanAll, SendDelete, PLRemoveGet, PLRemoveRetry, PLRemoveFails,
        PLGetNag, PLRetry, SendNext
<1> QED  BY <1>1, <1>2, <1>3

\* Users write what they please, and are charged for it.
LEMMA UserWrites ==
    ASSUME ValetType, CreateNag \/ UpdateNag \/ DeleteNag
    PROVE  /\ edits' # edits /\ clean' = FALSE /\ UNCHANGED <<pc, copy, wcNag>>
           /\ \E obj \in Nags : Store(obj)
<1>1. edits \in Nat /\ nag \in Nags
    BY DEF ValetType, TypeInv, TypeOK
<1>2. PICK obj \in Nags : EditNag("spec", obj)
    <2>1. CASE CreateNag
        <3>1. PICK spec \in Specs :
                EditNag("spec", [spec |-> spec, finalizers |-> 0, others |-> FALSE,
                                 deleting |-> FALSE, rv |-> 0])
            BY <2>1 DEF CreateNag
        <3>2. [spec |-> spec, finalizers |-> 0, others |-> FALSE,
               deleting |-> FALSE, rv |-> 0] \in Nags
            BY DEF Nags, NagObject
        <3> QED  BY <3>1, <3>2
    <2>2. CASE UpdateNag
        <3>1. PICK spec \in Specs : EditNag("spec", [nag EXCEPT !.spec = spec])
            BY <2>2 DEF UpdateNag
        <3>2. nag \in NagObject
            BY <1>1, <2>2 DEF UpdateNag, Nags
        <3>3. [nag EXCEPT !.spec = spec] \in Nags
            BY <3>2, NagEditType DEF Nags
        <3> QED  BY <3>1, <3>3
    <2>3. CASE DeleteNag
        <3>1. nag \in NagObject
            BY <1>1, <2>3 DEF DeleteNag, Nags
        <3>2. AfterFinalizers([nag EXCEPT !.deleting = TRUE]) \in Nags
            BY <3>1, NagEditType
        <3> QED  BY <2>3, <3>2 DEF DeleteNag
    <2> QED  BY <2>1, <2>2, <2>3
<1> QED  BY <1>1, <1>2 DEF EditNag, Edit, loopVars

LEMMA ValetInitVersions == ValetInit => ValetVersions
    BY DEF ValetInit, Init, PLInit, ValetVersions, Versioned

LEMMA ValetStepVersions ==
    ValetType /\ ValetVersions /\ [ValetNext]_valetVars => ValetVersions'
<1> SUFFICES ASSUME ValetType, ValetVersions, [ValetNext]_valetVars PROVE ValetVersions'
    OBVIOUS
<1>1. CASE AssignStep \/ DeliverGroup \/ UserStep
    <2>1. plCopy' = plCopy
        BY <1>1, AroundStep DEF Aside, plLoopVars
    <2>2. CASE ReconcileNag
        BY <2>1, <2>2, AssignWrites, VersionsKept
    <2>3. CASE Start \/ DeliverNag
        <3>1. ReadsGroup
            BY <2>1, <2>3 DEF Start, DeliverNag, ReadsGroup, apiVars, loopVars
        <3> QED  BY <3>1, VersionsKept
    <2>4. CASE CreateNag \/ UpdateNag \/ DeleteNag
        <3>1. \E obj : WritesGroup(obj)
            BY <2>1, <2>4, UserWrites DEF WritesGroup
        <3> QED  BY <3>1, VersionsKept
    <2> QED  BY <1>1, <2>2, <2>3, <2>4, AroundStep
<1>2. CASE PackStep
    <2>1. copy' = copy
        BY <1>2 DEF PackStep, naRunVars, loopVars
    <2>2. ReadsGroup \/ \E obj : WritesGroup(obj)
        BY <1>2, <2>1, PackWrites DEF PackStep
    <2> QED  BY <2>2, VersionsKept
<1>3. CASE DeliverNode \/ UNCHANGED valetVars
    <2>1. ReadsGroup
        BY <1>3 DEF DeliverNode, ReadsGroup, valetVars, vars, plVars, plLoopVars, loopVars, apiVars
    <2> QED  BY <2>1, VersionsKept
<1> QED  BY <1>1, <1>2, <1>3 DEF ValetNext

\* What a step may do to a group that no user writes.
GroupKeptBy(myPc, otherPc) ==
    IF nag' = None
      THEN nag.deleting /\ (nag.finalizers = 0 \/ ~nag.others)
      ELSE /\ nag'.spec = nag.spec /\ nag'.deleting = nag.deleting
           /\ nag'.others # nag.others => otherPc
           /\ nag'.finalizers # nag.finalizers => myPc

LEMMA AssignKeepsGroup ==
    ASSUME ValetType, ValetVersions, ReconcileNag, plCopy' = plCopy, nag # None
    PROVE  GroupKeptBy(TRUE, FALSE)
<1>1. nag \in NagObject /\ version \in Nat
    BY DEF ValetType, TypeInv, TypeOK, Nags
<1> DEFINE added == [nag EXCEPT !.finalizers = @ + 1]
           removed == [nag EXCEPT !.finalizers = 0]
<1>2. CASE ReadsGroup
    BY <1>2 DEF ReadsGroup, GroupKeptBy
<1>3. CASE WritesGroup(added)
    <2>1. /\ added \in NagObject
          /\ added.spec = nag.spec /\ added.deleting = nag.deleting /\ added.others = nag.others
        BY <1>1 DEF NagObject
    <2>2. Store(added)
        BY <1>3 DEF WritesGroup
    <2> HIDE DEF added
    <2> QED  BY <1>1, <2>1, <2>2, NoNagAssumption, StoredObject DEF GroupKeptBy, Nags
<1>4. CASE WritesGroup(AfterFinalizers(removed))
    <2>1. /\ removed \in NagObject /\ removed.finalizers = 0
          /\ removed.spec = nag.spec /\ removed.deleting = nag.deleting /\ removed.others = nag.others
        BY <1>1 DEF NagObject
    <2>2. Store(AfterFinalizers(removed)) /\ AfterFinalizers(removed) \in Nags
        BY <1>4 DEF WritesGroup
    <2> HIDE DEF removed
    <2>3. CASE removed.deleting /\ ~removed.others
        BY <1>1, <2>1, <2>2, <2>3, StoredObject DEF GroupKeptBy, AfterFinalizers
    <2>4. CASE ~(removed.deleting /\ ~removed.others)
        BY <1>1, <2>1, <2>2, <2>4, NoNagAssumption, StoredObject DEF GroupKeptBy, AfterFinalizers
    <2> QED  BY <2>3, <2>4
<1> QED  BY <1>2, <1>3, <1>4, AssignWrites

LEMMA PackKeepsGroup ==
    ASSUME ValetType, ValetVersions, PLRun \/ PLStart, copy' = copy, nag # None
    PROVE  GroupKeptBy(FALSE, TRUE)
<1>1. nag \in NagObject /\ version \in Nat
    BY DEF ValetType, TypeInv, TypeOK, Nags
<1> DEFINE added == [nag EXCEPT !.others = TRUE]
           removed == [nag EXCEPT !.others = FALSE]
<1>2. CASE ReadsGroup
    BY <1>2 DEF ReadsGroup, GroupKeptBy
<1>3. CASE WritesGroup(added)
    <2>1. /\ added \in NagObject
          /\ added.spec = nag.spec /\ added.deleting = nag.deleting
          /\ added.finalizers = nag.finalizers
        BY <1>1 DEF NagObject
    <2>2. Store(added)
        BY <1>3 DEF WritesGroup
    <2> HIDE DEF added
    <2> QED  BY <1>1, <2>1, <2>2, NoNagAssumption, StoredObject DEF GroupKeptBy, Nags
<1>4. CASE WritesGroup(AfterFinalizers(removed))
    <2>1. /\ removed \in NagObject /\ removed.others = FALSE
          /\ removed.spec = nag.spec /\ removed.deleting = nag.deleting
          /\ removed.finalizers = nag.finalizers
        BY <1>1 DEF NagObject
    <2>2. Store(AfterFinalizers(removed)) /\ AfterFinalizers(removed) \in Nags
        BY <1>4 DEF WritesGroup
    <2> HIDE DEF removed
    <2>3. CASE removed.deleting /\ removed.finalizers = 0
        BY <1>1, <2>1, <2>2, <2>3, StoredObject DEF GroupKeptBy, AfterFinalizers
    <2>4. CASE ~(removed.deleting /\ removed.finalizers = 0)
        BY <1>1, <2>1, <2>2, <2>4, NoNagAssumption, StoredObject DEF GroupKeptBy, AfterFinalizers
    <2> QED  BY <2>3, <2>4
<1> QED  BY <1>2, <1>3, <1>4, PackWrites

\* Whatever the two controllers have read of the group, their writes keep
\* what users and the other have written since: the resource version tells
\* them (AddFinalizer, RemoveFinalizer, ensureFinalizer).
THEOREM NothingIsLost == ValetSpec => NoLostWrites
<1>1. ValetType /\ ValetVersions /\ [ValetNext]_valetVars =>
        [edits' = edits /\ nag # None =>
         IF nag' = None
           THEN nag.deleting /\ (nag.finalizers = 0 \/ ~nag.others)
           ELSE /\ nag'.spec = nag.spec /\ nag'.deleting = nag.deleting
                /\ nag'.others # nag.others => pc' = pc
                /\ nag'.finalizers # nag.finalizers => plPc' = plPc]_valetVars
    <2> SUFFICES ASSUME ValetType, ValetVersions, ValetNext, edits' = edits, nag # None
                 PROVE  GroupKeptBy(plPc' = plPc, pc' = pc)
        BY DEF GroupKeptBy
    <2>1. CASE AssignStep \/ DeliverGroup \/ UserStep
        <3>1. plPc' = plPc /\ plCopy' = plCopy
            BY <2>1, AroundStep DEF Aside, plLoopVars
        <3>2. CASE ReconcileNag
            BY <3>1, <3>2, AssignKeepsGroup DEF GroupKeptBy
        <3>3. CASE Start \/ DeliverNag
            BY <3>3 DEF Start, DeliverNag, apiVars, GroupKeptBy
        <3>4. CASE CreateNag \/ UpdateNag \/ DeleteNag
            BY <3>4, UserWrites
        <3> QED  BY <2>1, <3>2, <3>3, <3>4, AroundStep
    <2>2. CASE PackStep
        <3>1. pc' = pc /\ copy' = copy
            BY <2>2 DEF PackStep, naRunVars, loopVars
        <3>2. GroupKeptBy(FALSE, TRUE)
            BY <2>2, <3>1, PackKeepsGroup DEF PackStep
        <3> QED  BY <3>1, <3>2 DEF GroupKeptBy
    <2>3. CASE DeliverNode
        BY <2>3 DEF DeliverNode, vars, apiVars, GroupKeptBy
    <2> QED  BY <2>1, <2>2, <2>3 DEF ValetNext
<1> QED  BY <1>1, ValetInitType, ValetInitVersions, ValetStepType, ValetStepVersions, PTL
         DEF ValetSpec, NoLostWrites

-----------------------------------------------------------------------------
(* Assignments are what one run of node assignment makes them, whatever    *)
(* packleft does meanwhile.                                                *)

ValetInv == ValetType /\ ValetVersions /\ CurrentInv /\ LabelInv

\* packleft's patches leave what node assignment's run knows as it is, and
\* so do its writes of the group.
LEMMA PackStepLabel == ValetInv /\ PackStep => CurrentInv' /\ LabelInv'
<1> SUFFICES ASSUME ValetInv, PackStep PROVE CurrentInv' /\ LabelInv'
    OBVIOUS
<1>1. UNCHANGED <<pc, loopVars, err, listed, clean, failed>> /\ UNCHANGED <<wcNag, copy>>
    BY DEF PackStep, naRunVars, loopVars
<1>2. LabelsKept
    BY PackStepType DEF ValetInv, PLStepOK, RunFrame, OnlyPackLeft, LabelsKept
<1>3. nag' # None => nag # None /\ nag'.spec = nag.spec /\ nag'.deleting = nag.deleting
    <2>1. CASE nag = None
        <3>1. ReadsGroup
            BY <1>1, <2>1, PackWrites DEF PackStep, ValetInv
        <3> QED  BY <2>1, <3>1 DEF ReadsGroup
    <2>2. CASE nag # None
        BY <1>1, <2>2, PackKeepsGroup DEF PackStep, ValetInv, GroupKeptBy
    <2> QED  BY <2>1, <2>2
<1>4. LabelInv'
    BY <1>1, <1>2, <1>3, QuietLabels DEF ValetInv, ValetType
<1>5. CurrentInv'
    BY <1>1, <1>3, OtherCurrent DEF ValetInv
<1> QED  BY <1>4, <1>5

LEMMA ValetStepInv == AllDistinct /\ ValetInv /\ [ValetNext]_valetVars => ValetInv'
<1> SUFFICES ASSUME AllDistinct, ValetInv, [ValetNext]_valetVars PROVE ValetInv'
    OBVIOUS
<1>1. ValetType' /\ ValetVersions'
    BY ValetStepType, ValetStepVersions DEF ValetInv
<1>2. CurrentInv' /\ LabelInv'
    <2>1. CASE AssignStep \/ DeliverGroup \/ UserStep
        BY <2>1, AroundStep, NextLabel DEF ValetInv, ValetType, Next, NagEdit
    <2>2. CASE DeliverNode \/ UNCHANGED valetVars
        BY <2>2, NextLabel DEF ValetInv, ValetType, DeliverNode, valetVars
    <2>3. CASE PackStep
        BY <2>3, PackStepLabel
    <2> QED  BY <2>1, <2>2, <2>3 DEF ValetNext
<1> QED  BY <1>1, <1>2 DEF ValetInv

\* However the two controllers interleave, a run of Reconcile that no user
\* disturbs and that returns no error puts the nodes in their assignments:
\* packleft's patches, made from stale copies, carry other labels only.
THEOREM PackingDisturbsNoAssignment == AllDistinct => (ValetSpec => []AssignedDespitePacking)
<1>1. ValetInit => ValetInv
    BY ValetInitType, ValetInitVersions, InitLabel DEF ValetInit, ValetInv
<1>2. ValetInv => AssignedDespitePacking
    <2> SUFFICES ASSUME ValetInv, Reconciled, ~err PROVE LabelsSatisfied(nag.spec)
        BY DEF AssignedDespitePacking
    <2>1. pc = "done" /\ Undisturbed /\ nag # None /\ ~nag.deleting
        BY DEF Reconciled, Undisturbed
    <2>2. nag.spec \in Specs
        BY <2>1 DEF ValetInv, ValetType, TypeInv, TypeOK, Nags, NagObject
    <2>3. Outcome(nag.spec)
        BY <2>1, <2>2 DEF ValetInv, LabelInv, DoneInv
    <2> QED  BY <2>3 DEF Outcome
<1> SUFFICES ASSUME AllDistinct PROVE ValetSpec => []AssignedDespitePacking
    OBVIOUS
<1>3. ValetInv /\ [ValetNext]_valetVars => ValetInv'
    BY ValetStepInv
<1> QED  BY <1>1, <1>2, <1>3, PTL DEF ValetSpec
=============================================================================
