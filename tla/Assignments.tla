----------------------------- MODULE Assignments -----------------------------
(***************************************************************************)
(* The types of pkg/apis/assignments/v1alpha1 that node assignment uses,   *)
(* and what helpers.go, utils.go and the counting half of WriterContext    *)
(* compute from them.  Everything here is a pure operator.                 *)
(*                                                                         *)
(* One NodeAssignmentGroup (nag) is considered, so the two label keys that *)
(* carry its name are the fields `assign' and `packleft' of a node, and    *)
(* the taints with those keys are the ones whose key is "nag" and          *)
(* "packleft".  Everything else that is on a node is a member of `labels'  *)
(* (one value per key=value pair) or a taint whose key is "other".         *)
(***************************************************************************)
EXTENDS Integers, Sequences, FiniteSets

CONSTANTS
    Label,          \* key=value pairs that groups may target
    Protected,      \* nags.kube-valet.io/protected=true
    AName,          \* names of assignments
    None            \* no label, no assignment, no object

ASSUME ProtectedAssumption == Protected \notin Label

Mode == {"", "LabelOnly", "LabelAndTaint"}
Effect == {"NoSchedule", "PreferNoSchedule", "NoExecute"}
SchedulingMode == {"", "PackLeft"}

\* None stands for a pointer that is nil.
PackLeftScheduling ==
    [fullPercent: Nat \cup {None}, numAvoid: Nat, percentAvoid: Nat \cup {None}]

AssignmentObject ==
    [name: AName, mode: Mode, taintEffect: Effect \cup {""},
     numDesired: Nat, percentDesired: Nat,
     schedulingMode: SchedulingMode, packLeft: PackLeftScheduling \cup {None}]

NagSpec ==
    [targetLabels: SUBSET Label,
     assignments: Seq(AssignmentObject),
     defaultAssignment: AssignmentObject \cup {None}]

PackLeftState == {"Use", "Avoid", "Deny"}

Taint ==
    [key: {"nag", "packleft", "other"},
     value: AName \cup PackLeftState \cup {None},
     effect: Effect]

NodeObject ==
    [labels: SUBSET (Label \cup {Protected}),
     assign: AName \cup {None},
     packleft: PackLeftState \cup {None},
     taints: SUBSET Taint,
     ready: BOOLEAN]        \* NodeCanBeBalanced: ready, and not cordoned

\* None is nothing else.
ASSUME NoneAssumption ==
    None \notin AName \cup PackLeftState /\ None \notin NodeObject /\ None \notin AssignmentObject

-----------------------------------------------------------------------------
(* helpers.go *)

TargetsNode(spec, node) ==
    Protected \notin node.labels /\ spec.targetLabels \subseteq node.labels

GetAssignment(node) == node.assign

IsAssigned(node) == GetAssignment(node) # None

SetLabel(node, a) == [node EXCEPT !.assign = a.name]

\* An unspecified effect is NoSchedule.
TaintEffect(a) == IF a.taintEffect = "" THEN "NoSchedule" ELSE a.taintEffect

SetTaint(node, a) ==
    [node EXCEPT !.taints =
        @ \cup {[key |-> "nag", value |-> a.name, effect |-> TaintEffect(a)]}]

\* Both keys that carry the name of the group are removed.
RemoveLabel(node) == [node EXCEPT !.assign = None, !.packleft = None]

\* Mutant of RemoveTaint: the whole list is cleared.
RemoveAllTaints(node) == [node EXCEPT !.taints = {}]

\* Every effect of both keys is removed, so every taint that has the key.
RemoveTaint(node) ==
    [node EXCEPT !.taints = {t \in @ : t.key \notin {"nag", "packleft"}}]

\* An undefined mode is LabelOnly.
Assign(node, a) ==
    IF a.mode = "LabelAndTaint" THEN SetTaint(SetLabel(node, a), a)
                                ELSE SetLabel(node, a)

Unassign(node) == RemoveTaint(RemoveLabel(node))

-----------------------------------------------------------------------------
(* utils.go *)

\* Mutant of NodeTargetingHasChanged: only the keys of the old node are
\* compared.
TargetingLost(old, new) == ~((old.labels \cap Label) \subseteq new.labels)

\* Keys that contain "kube-valet.io" are ignored: the two keys of the group,
\* and the key of Protected.
NodeTargetingHasChanged(old, new) == old.labels \cap Label # new.labels \cap Label

-----------------------------------------------------------------------------
(* The counting of WriterContext.  `nodes' maps the targeted nodes to      *)
(* their copies in memory.                                                 *)

AssignmentNames(spec) == {spec.assignments[i].name : i \in DOMAIN spec.assignments}

HasDefault(spec) == spec.defaultAssignment # None

IsDefault(spec, name) == HasDefault(spec) /\ spec.defaultAssignment.name = name

KnownAssignments(spec) ==
    AssignmentNames(spec)
        \cup (IF HasDefault(spec) THEN {spec.defaultAssignment.name} ELSE {})

NumAssigned(nodes, name) == Cardinality({n \in DOMAIN nodes : GetAssignment(nodes[n]) = name})

\* updateCurrentAssignments: nodes in the default assignment do not count.
CurrentAssignments(spec, nodes) ==
    [name \in AName |-> IF IsDefault(spec, name) THEN 0 ELSE NumAssigned(nodes, name)]

\* The percentage rounds down, to 1 at least; a larger NumDesired wins.
Desired(a, total) ==
    LET percent == (total * a.percentDesired) \div 100
        least == IF percent = 0 THEN 1 ELSE percent
    IN  IF a.numDesired > least THEN a.numDesired ELSE least

\* updateAssignmentChanges: how many nodes each assignment misses (or has
\* too many of); 0 stands for a name that is not in the map.  When several
\* assignments share a name the last one that is not satisfied counts.
AssignmentChanges(spec, nodes) ==
    LET total == Cardinality(DOMAIN nodes)
        Missing(i) == Desired(spec.assignments[i], total)
                        - CurrentAssignments(spec, nodes)[spec.assignments[i].name]
        Entries(name) == {i \in DOMAIN spec.assignments :
                            spec.assignments[i].name = name /\ Missing(i) # 0}
    IN  [name \in AName |->
            IF Entries(name) = {}
              THEN 0
              ELSE Missing(CHOOSE i \in Entries(name) : \A j \in Entries(name) : j <= i)]

\* Mutant of FirstNeeding: the last one.
LastNeeding(spec, changes) ==
    LET needing == {i \in DOMAIN spec.assignments : changes[spec.assignments[i].name] > 0}
    IN  IF needing = {}
          THEN None
          ELSE spec.assignments[CHOOSE i \in needing : \A j \in needing : i >= j]

\* The first assignment of the group, in the order of the spec, that misses
\* nodes; None when there is no such assignment.
FirstNeeding(spec, changes) ==
    LET needing == {i \in DOMAIN spec.assignments : changes[spec.assignments[i].name] > 0}
    IN  IF needing = {}
          THEN None
          ELSE spec.assignments[CHOOSE i \in needing : \A j \in needing : i <= j]

-----------------------------------------------------------------------------
(* The API server. *)

\* A strategic merge patch made from two copies of a node and applied to
\* what the API server holds.  Labels are merged key by key; the taint list
\* has no patch strategy and is replaced as a whole, if it differs at all.
Patch(live, old, new) ==
    [live EXCEPT
        !.assign = IF new.assign = old.assign THEN @ ELSE new.assign,
        !.packleft = IF new.packleft = old.packleft THEN @ ELSE new.packleft,
        !.taints = IF new.taints = old.taints THEN @ ELSE new.taints]
=============================================================================
