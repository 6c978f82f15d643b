------------------------------ MODULE PodRules ------------------------------
(***************************************************************************)
(* PodAssignmentRule and ClusterPodAssignmentRule of                       *)
(* pkg/apis/assignments/v1alpha1, what helpers.go computes from them, and  *)
(* the commands of bin/valetctl.go that make rules and groups.  Everything *)
(* here is a pure operator.                                                *)
(*                                                                         *)
(* A key of a node label is the name of a group, for                       *)
(* nag.assignments.kube-valet.io/<group>, or a member of NodeKey.          *)
(***************************************************************************)
EXTENDS Assignments, SequencesExt

CONSTANTS
    GroupName,      \* names of groups
    NodeKey,        \* keys of other labels of nodes
    PodLabel,       \* key=value pairs of pods that rules target
    PodProtected,   \* pod.initializer.kube-valet.io/protected=true
    Namespace, RuleName

ASSUME PodProtectedAssumption == PodProtected \notin PodLabel
ASSUME NodeKeyAssumption == GroupName \cap NodeKey = {}
ASSUME NoNamespaceAssumption == None \notin Namespace

\* A requirement on a label: one of the values, or any if there are none.
Term == [key: GroupName \cup NodeKey, values: SUBSET AName]

\* The same for a taint of any effect; None tolerates every value.
Toleration == [key: GroupName, value: AName \cup {None}]

NodeAffinityMode == {"prefer", "require"}
PodAffinityMode == {"prefer-others", "require-others", "avoid-others", "deny-others"}

\* `term' is about nodes, `others' about the pods on them.
Affinity ==
    [mode: NodeAffinityMode \cup PodAffinityMode, term: Term \cup {None},
     others: SUBSET PodLabel]

ASSUME NoAffinityAssumption == None \notin Affinity

SchedulingMember == {"nodeSelector", "affinity", "tolerations"}

PodSpec ==
    [nodeSelector: SUBSET Label, affinity: Affinity \cup {None},
     tolerations: SUBSET Toleration]

MergeStrategy == {"", "OverwriteAll", "unknown"}

\* A rule without a namespace is a ClusterPodAssignmentRule.
Rule ==
    [name: RuleName, namespace: Namespace \cup {None}, targetLabels: SUBSET PodLabel,
     mergeStrategy: MergeStrategy, scheduling: PodSpec]

PodObject ==
    [namespace: Namespace, labels: SUBSET (PodLabel \cup {PodProtected}), spec: PodSpec]

-----------------------------------------------------------------------------
(* helpers.go *)

TargetsPod(rule, pod) == rule.targetLabels \subseteq pod.labels

GetMergeStrategy(rule) ==
    IF rule.mergeStrategy = "" THEN "OverwriteAll" ELSE rule.mergeStrategy

\* What a rule says something about.
Given(scheduling) ==
    {m \in {"nodeSelector", "tolerations"} : scheduling[m] # {}}
        \cup (IF scheduling.affinity = None THEN {} ELSE {"affinity"})

\* A "replace" of a member if it is given.
Replace(scheduling, m) ==
    IF m \in Given(scheduling) THEN <<[path |-> m, value |-> scheduling[m]]>> ELSE << >>

GetPatchOps(rule) ==
    IF GetMergeStrategy(rule) = "OverwriteAll"
      THEN Replace(rule.scheduling, "nodeSelector") \o Replace(rule.scheduling, "affinity")
               \o Replace(rule.scheduling, "tolerations")
      ELSE << >>

\* What the API server makes of a list of operations.  A member of the
\* encoded pod that is missing is taken to be added.
JsonPatched(spec, ops) ==
    FoldLeft(LAMBDA s, op : [s EXCEPT ![op.path] = op.value], spec, ops)

-----------------------------------------------------------------------------
(* valetctl assignment create *)

\* The arguments of a command; None for a flag that is not given.
AssignmentCommand ==
    [name: RuleName, mode: NodeAffinityMode \cup PodAffinityMode \cup {"nodes"},
     namespace: Namespace \cup {None}, targetLabels: SUBSET PodLabel,
     nodeSelector: SUBSET Label, nodeAffinity: Term \cup {None},
     assignment: [key: GroupName, values: SUBSET AName] \cup {None}]

ForNodes(command) == command.mode \in NodeAffinityMode

\* Mutant of Tolerations: only the assignments that are named.
TolerationsNamed(command) ==
    IF ForNodes(command) /\ command.assignment # None
      THEN {[key |-> command.assignment.key, value |-> v] : v \in command.assignment.values}
      ELSE {}

\* The taints of the assignments that are named, or of the whole group.
Tolerations(command) ==
    IF ForNodes(command) /\ command.assignment # None
      THEN {[key |-> command.assignment.key, value |-> v] :
                v \in IF command.assignment.values = {} THEN {None}
                                                        ELSE command.assignment.values}
      ELSE {}

\* The term of a node affinity takes the place of that of an assignment.
NodeTerm(command) ==
    IF command.nodeAffinity = None THEN command.assignment ELSE command.nodeAffinity

AffinityOf(command) ==
    CASE command.mode \in PodAffinityMode ->
            [mode |-> command.mode, term |-> None, others |-> command.targetLabels]
      [] ForNodes(command) /\ NodeTerm(command) # None ->
            [mode |-> command.mode, term |-> NodeTerm(command), others |-> {}]
      [] OTHER -> None

AssignmentCreate(command) ==
    [name |-> command.name, namespace |-> command.namespace,
     targetLabels |-> command.targetLabels, mergeStrategy |-> "OverwriteAll",
     scheduling |->
        [nodeSelector |-> IF command.mode = "nodes" THEN command.nodeSelector ELSE {},
         affinity |-> AffinityOf(command),
         tolerations |-> Tolerations(command)]]

-----------------------------------------------------------------------------
(* valetctl group create *)

\* NAME:NUM:MODE; an argument without NUM is a default.
GroupArgument ==
    [name: AName, num: {"DEFAULT", "percent", "number", "invalid"}, n: Nat,
     mode: {"LabelOnly", "LabelAndTaint"}]

AssignmentOf(arg) ==
    [name |-> arg.name, mode |-> arg.mode, taintEffect |-> "",
     numDesired |-> IF arg.num = "number" THEN arg.n ELSE 0,
     percentDesired |-> IF arg.num = "percent" THEN arg.n ELSE 0,
     schedulingMode |-> "", packLeft |-> None]

\* The last default counts.  None if the command ends with an error.
GroupCreate(targetLabels, args) ==
    LET numbered == SelectSeq(args, LAMBDA arg : arg.num # "DEFAULT")
        defaults == SelectSeq(args, LAMBDA arg : arg.num = "DEFAULT")
    IN  IF \E i \in DOMAIN args : args[i].num = "invalid"
          THEN None
          ELSE [targetLabels |-> targetLabels,
                assignments |-> [i \in DOMAIN numbered |-> AssignmentOf(numbered[i])],
                defaultAssignment |->
                    IF defaults = << >> THEN None ELSE AssignmentOf(Last(defaults))]
=============================================================================
