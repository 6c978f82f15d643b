---------------------------- MODULE FinalizerGuard ----------------------------
(***************************************************************************)
(* What a controller promises with a finalizer, whatever it does to nodes: *)
(* nodes carry traces of a group only under its guard, and the guard goes  *)
(* only from a group that is being deleted and has no traces left.  So the *)
(* API server keeps the group until the nodes are clean.                   *)
(***************************************************************************)

VARIABLES
    phase,          \* the group: absent, live, or being deleted
    guarded,        \* whether it has the finalizer of the controller
    traces          \* whether a node carries its label or its taint

guardVars == <<phase, guarded, traces>>

Init ==
    /\ phase = "absent"
    /\ guarded = FALSE
    /\ traces = FALSE

\* A user creates the group.
Create ==
    /\ phase = "absent"
    /\ phase' = "live"
    /\ UNCHANGED <<guarded, traces>>

\* The controller takes the group under its guard, if it is not too late.
Guard ==
    /\ phase = "live"
    /\ guarded' = TRUE
    /\ UNCHANGED <<phase, traces>>

\* The first node is assigned.
Mark ==
    /\ guarded
    /\ traces' = TRUE
    /\ UNCHANGED <<phase, guarded>>

\* The last node is unassigned, or goes.
Clean ==
    /\ traces' = FALSE
    /\ UNCHANGED <<phase, guarded>>

\* A user deletes the group: it stays if it is guarded, and may stay for the
\* sake of another controller if it is not.
Delete ==
    /\ phase = "live"
    /\ phase' \in IF guarded THEN {"deleting"} ELSE {"deleting", "absent"}
    /\ UNCHANGED <<guarded, traces>>

\* The controller lets go.
Release ==
    /\ phase = "deleting"
    /\ guarded
    /\ ~traces
    /\ guarded' = FALSE
    /\ phase' \in {"deleting", "absent"}
    /\ UNCHANGED traces

\* So does the last of the others.
Finish ==
    /\ phase = "deleting"
    /\ ~guarded
    /\ phase' = "absent"
    /\ UNCHANGED <<guarded, traces>>

Next == Create \/ Guard \/ Mark \/ Clean \/ Delete \/ Release \/ Finish

Spec == Init /\ [][Next]_guardVars
=============================================================================
