------------------------------ MODULE KubeValet ------------------------------
(***************************************************************************)
(* Node assignment and packleft in one process (main.go starts both), on   *)
(* the same nodes and the same group.  They share the indexer of groups    *)
(* and nothing else: each patches the nodes from copies the other may have *)
(* made stale, and each adds and removes a finalizer of its own.           *)
(*                                                                         *)
(* The packleft of NodeAssignment's OtherFinalizer is the real one here.   *)
(* Runs of either start at any time the indexer holds the group, which     *)
(* covers every order in which the queues could start them.                *)
(***************************************************************************)
EXTENDS NodeAssignment, PackLeft

naRunVars == <<pc, loopVars, err, historyVars, listed, clean, failed>>
valetVars == <<vars, nodeIndex, nodeWatch, podIndex, plVars>>

ValetInit == Init /\ PLInit

\* A step of node assignment, of a user, or of the informer of groups; the
\* nodes it changes are reported to packleft's informer.
Around(step) ==
    /\ step
    /\ WatchNodes
    /\ plClean' = (plClean /\ UNCHANGED <<nodes, nag>>)
    /\ UNCHANGED <<plCacheVars, plPc, plLoopVars, plFailed>>

AssignStep == Around(Start \/ ReconcileNag)

\* The ghost `clean' of node assignment outlives what packleft does.
PackStep ==
    /\ PLRun \/ (version < MaxVersion /\ PLStart)
    /\ WatchNodes
    /\ UNCHANGED naRunVars

DeliverGroup == Around(DeliverNag)

DeliverNode ==
    /\ nodeWatch # <<>>
    /\ nodeIndex' = [nodeIndex EXCEPT ![Head(nodeWatch).node] = Head(nodeWatch).obj]
    /\ nodeWatch' = Tail(nodeWatch)
    /\ UNCHANGED <<vars, podIndex, plVars>>

UserStep == Around(CreateNag \/ UpdateNag \/ DeleteNag)

ValetNext == AssignStep \/ PackStep \/ DeliverGroup \/ DeliverNode \/ UserStep

ValetSpec == ValetInit /\ [][ValetNext]_valetVars

-----------------------------------------------------------------------------
(* Properties *)

\* However packleft's patches, made from copies that are stale by now, get in
\* between, a run of Reconcile that no user disturbs, and that returns no error
\* (a conflict with packleft over the finalizers), puts the nodes in their
\* assignments: the two controllers write different labels, and a patch
\* carries only the labels it changes.
AssignedDespitePacking == Reconciled /\ ~err => LabelsSatisfied(nag.spec)

\* AddFinalizer, RemoveFinalizer and packleft's ensureFinalizer and
\* RemoveFinalizer write the whole group.  None of them undoes what a user or
\* the other controller has written since it read the group: the spec, the
\* deletion and the other's finalizer survive every step of both.
NoLostWrites ==
    [][edits' = edits /\ nag # None =>
         IF nag' = None
           THEN nag.deleting /\ (nag.finalizers = 0 \/ ~nag.others)
           ELSE /\ nag'.spec = nag.spec /\ nag'.deleting = nag.deleting
                /\ nag'.others # nag.others => pc' = pc
                /\ nag'.finalizers # nag.finalizers => plPc' = plPc]_valetVars

\* No run is under way, and none can start again.
OverAndDone ==
    /\ nag = None /\ version > 0
    /\ nagIndex = None /\ watch = <<>>
    /\ pc = "done" /\ plPc = "done"

\* writer_context.go, UnassignAllNodes: "Ensuring that deleting a group always
\* removes ALL traces of the group from nodes"; packleft/controller.go,
\* OnDeleteNag: "when a nag is deleted clean up all the nodes to make sure they
\* don't have taints from this nag".
DeletedLeavesNothing ==
    OverAndDone => \A n \in Node : nodes[n] = None \/ ~HasTraces(nodes[n])
=============================================================================
