---------------------------- MODULE PodAdmission ----------------------------
(***************************************************************************)
(* The admission of pods: the webhook of pkg/webhook/server.go, which      *)
(* every replica of kube-valet serves whether it leads or not, asks the    *)
(* manager of pkg/controller/podassignment, which reads the rules from two *)
(* informer caches of resource_watcher.go.                                 *)
(*                                                                         *)
(* The API server is external: it calls the webhook of a replica that      *)
(* serves for each pod that is created, applies the patch of the answer,   *)
(* and, with failurePolicy Fail, refuses the pod if there is no answer.    *)
(* Requests that are not reviews of pods are answered with an error        *)
(* without any effect and are left out.                                    *)
(***************************************************************************)
EXTENDS PodRules

CONSTANTS
    Replica, Pod,
    PodObjects,     \* the pods that users create
    Commands,       \* the rules that users create with valetctl
    GroupCommands,  \* the arguments of valetctl group create in use
    MaxEdits,       \* bound: changes of rules
    MaxFaults       \* bound: crashes of replicas, failures of listeners

ASSUME CommandsAssumption == Commands \subseteq AssignmentCommand

\* A pod's own affinity is not about groups: their taints are the users'
\* affair then.
ASSUME PodObjectsAssumption ==
    \A pod \in PodObjects :
        /\ pod \in PodObject
        /\ pod.spec.affinity # None /\ pod.spec.affinity.term # None
            => pod.spec.affinity.term.key \in NodeKey

ASSUME PodBoundsAssumption == MaxEdits \in Nat /\ MaxFaults \in Nat

VARIABLES
    (* the API server *)
    stores,         \* all versions of the rules of each kind, the last is current
    pods,           \* the creation of each pod
    (* each replica *)
    phase,          \* "syncing", "synced" (but not listening) or "serving"
    seen,           \* the version of each kind in its indexer, 0 before the list
    (* bounds and history *)
    edits, faults,
    since           \* ghost: the current versions when the process started

replicaVars == <<phase, seen, since>>
vars == <<stores, pods, replicaVars, edits, faults>>

Kind == {"cluster", "namespaced"}

KindOf(rule) == IF rule.namespace = None THEN "cluster" ELSE "namespaced"

Current(kind) == stores[kind][Len(stores[kind])]

Versions == [kind \in Kind |-> Len(stores[kind])]

\* A creation: the pod the user sent, the replica that is asked, the rules it
\* has read, in order; and, of the history, the versions that were current
\* when that replica started and when the pod was stored.
Creation ==
    [state: {"none", "asked", "reading", "answering", "created", "refused"},
     object: PodObjects \cup {None}, replica: Replica \cup {None}, rules: Seq(Rule),
     spec: PodSpec \cup {None}, from: [Kind -> Nat], until: [Kind -> Nat]]

TypeOK ==
    /\ \A kind \in Kind :
        \A v \in DOMAIN stores[kind] :
            \A rule \in stores[kind][v] : rule \in Rule /\ KindOf(rule) = kind
    /\ \A p \in Pod : pods[p] \in Creation
    /\ phase \in [Replica -> {"syncing", "synced", "serving"}]
    /\ \A r \in Replica, kind \in Kind :
        /\ seen[r][kind] \in 0..Versions[kind]
        /\ phase[r] # "syncing" => seen[r][kind] > 0
    /\ edits \in 0..MaxEdits /\ faults \in 0..MaxFaults

NoVersion == [kind \in Kind |-> 0]

Nothing ==
    [state |-> "none", object |-> None, replica |-> None, rules |-> << >>, spec |-> None,
     from |-> NoVersion, until |-> NoVersion]

Init ==
    /\ stores = [kind \in Kind |-> <<{}>>]
    /\ pods = [p \in Pod |-> Nothing]
    /\ phase = [r \in Replica |-> "syncing"]
    /\ seen = [r \in Replica |-> NoVersion]
    /\ edits = 0 /\ faults = 0
    /\ since = [r \in Replica |-> [kind \in Kind |-> 1]]

-----------------------------------------------------------------------------
(* Users and their rules. *)

StoreRules(kind, rules) ==
    /\ edits < MaxEdits
    /\ edits' = edits + 1
    /\ stores' = [stores EXCEPT ![kind] = Append(@, rules)]
    /\ UNCHANGED <<pods, replicaVars, faults>>

\* The API server refuses a name that is taken.
CreateRule(command) ==
    LET rule == AssignmentCreate(command)
        kind == KindOf(rule)
    IN  /\ \A other \in Current(kind) :
            other.name # rule.name \/ other.namespace # rule.namespace
        /\ StoreRules(kind, Current(kind) \cup {rule})

EditRule(kind, rule, strategy) ==
    /\ rule.mergeStrategy # strategy
    /\ StoreRules(kind, (Current(kind) \ {rule}) \cup {[rule EXCEPT !.mergeStrategy = strategy]})

DeleteRule(kind, rule) == StoreRules(kind, Current(kind) \ {rule})

-----------------------------------------------------------------------------
(* The process: resource_watcher.go, controller.go, Server.Run. *)

\* The informer lists the rules.
ListRules(r, kind) ==
    /\ seen[r][kind] = 0
    /\ seen' = [seen EXCEPT ![r][kind] = Versions[kind]]
    /\ UNCHANGED <<stores, pods, phase, since, edits, faults>>

\* The informer takes the next change.
Deliver(r, kind) ==
    /\ seen[r][kind] \in 1..(Versions[kind] - 1)
    /\ seen' = [seen EXCEPT ![r][kind] = @ + 1]
    /\ UNCHANGED <<stores, pods, phase, since, edits, faults>>

\* Mutant of CachesSynced: there is no wait for the second kind.
ClusterCacheSynced(r) == seen[r]["cluster"] > 0

\* waitForCacheSync, for each kind.
CachesSynced(r) == \A kind \in Kind : seen[r][kind] > 0

Sync(r) ==
    /\ phase[r] = "syncing"
    /\ CachesSynced(r)
    /\ phase' = [phase EXCEPT ![r] = "synced"]
    /\ UNCHANGED <<stores, pods, seen, since, edits, faults>>

\* "Start the server, restart on errors".
Listen(r) ==
    /\ phase[r] = "synced"
    /\ phase' = [phase EXCEPT ![r] = "serving"]
    /\ UNCHANGED <<stores, pods, seen, since, edits, faults>>

\* The pods whose review is with the replica.
WithReplica(r) ==
    {p \in Pod : pods[p].state \in {"reading", "answering"} /\ pods[p].replica = r}

\* There will be no answer for these.
Refused(lost) ==
    [p \in Pod |->
        IF p \in lost THEN [pods[p] EXCEPT !.state = "refused", !.replica = None, !.rules = << >>,
                                           !.from = NoVersion]
                      ELSE pods[p]]

\* Mutant of ListenFails: the loop is left.
ListenFailsForGood(r) ==
    /\ faults < MaxFaults
    /\ faults' = faults + 1
    /\ phase[r] = "serving"
    /\ phase' = [phase EXCEPT ![r] = "ended"]
    /\ UNCHANGED <<stores, pods, seen, since, edits>>

\* ListenAndServeTLS returns an error; answers under way are finished.
ListenFails(r) ==
    /\ faults < MaxFaults
    /\ faults' = faults + 1
    /\ phase[r] = "serving"
    /\ phase' = [phase EXCEPT ![r] = "synced"]
    /\ UNCHANGED <<stores, pods, seen, since, edits>>

Crash(r) ==
    /\ faults < MaxFaults
    /\ faults' = faults + 1
    /\ phase' = [phase EXCEPT ![r] = "syncing"]
    /\ seen' = [seen EXCEPT ![r] = NoVersion]
    /\ since' = [since EXCEPT ![r] = Versions]
    /\ pods' = Refused(WithReplica(r))
    /\ UNCHANGED <<stores, edits>>

-----------------------------------------------------------------------------
(* Pods. *)

\* A user or a controller creates the pod.
AskFor(p, object) ==
    /\ pods[p].state = "none"
    /\ pods' = [pods EXCEPT ![p].state = "asked", ![p].object = object]
    /\ UNCHANGED <<stores, replicaVars, edits, faults>>

\* Nobody serves the webhook.
Refuse(p) ==
    /\ pods[p].state = "asked"
    /\ \A r \in Replica : phase[r] # "serving"
    /\ pods' = Refused({p})
    /\ UNCHANGED <<stores, replicaVars, edits, faults>>

\* Whoever wants the pod asks again.
AskAgain(p) ==
    /\ pods[p].state = "refused"
    /\ pods' = [pods EXCEPT ![p].state = "asked"]
    /\ UNCHANGED <<stores, replicaVars, edits, faults>>

PodIsProtected(pod) == PodProtected \in pod.labels

Indexed(r, kind) == IF seen[r][kind] = 0 THEN {} ELSE stores[kind][seen[r][kind]]

\* One of the two lists of GetPodAssignmentsScheduling.
MatchingRules(r, kind, pod) ==
    {rule \in Indexed(r, kind) : TargetsPod(rule, pod) /\ rule.namespace \in {None, pod.namespace}}

\* The review arrives and the cluster rules are read, in any order, as an
\* indexer is a map; a protected pod is answered at once.
Receive(p, r) ==
    LET pod == pods[p].object
        protected == PodIsProtected(pod)
    IN  /\ pods[p].state = "asked"
        /\ phase[r] = "serving"
        /\ \E rules \in SetToSeqs(IF protected THEN {} ELSE MatchingRules(r, "cluster", pod)) :
            pods' = [pods EXCEPT ![p] = [@ EXCEPT
                        !.state = IF protected THEN "answering" ELSE "reading",
                        !.replica = r, !.rules = rules, !.from = since[r]]]
        /\ UNCHANGED <<stores, replicaVars, edits, faults>>

\* Mutant of ReadNamespaced: the namespace comes first.
ReadNamespacedFirst(p) ==
    /\ pods[p].state = "reading"
    /\ \E rules \in SetToSeqs(MatchingRules(pods[p].replica, "namespaced", pods[p].object)) :
        pods' = [pods EXCEPT ![p].state = "answering", ![p].rules = rules \o @]
    /\ UNCHANGED <<stores, replicaVars, edits, faults>>

\* Then those of the namespace.
ReadNamespaced(p) ==
    /\ pods[p].state = "reading"
    /\ \E rules \in SetToSeqs(MatchingRules(pods[p].replica, "namespaced", pods[p].object)) :
        pods' = [pods EXCEPT ![p].state = "answering", ![p].rules = @ \o rules]
    /\ UNCHANGED <<stores, replicaVars, edits, faults>>

\* GetPodSchedulingPatches: the operations of all rules, one after another.
SchedulingPatches(rules) == FlattenSeq([i \in DOMAIN rules |-> GetPatchOps(rules[i])])

\* The answer arrives, and the API server stores the pod.
Answer(p) ==
    /\ pods[p].state = "answering"
    /\ pods' = [pods EXCEPT ![p] = [@ EXCEPT
                    !.state = "created", !.replica = None, !.until = Versions,
                    !.spec = JsonPatched(pods[p].object.spec,
                                         SchedulingPatches(pods[p].rules))]]
    /\ UNCHANGED <<stores, replicaVars, edits, faults>>

-----------------------------------------------------------------------------

Next ==
    \/ \E command \in Commands : CreateRule(command)
    \/ \E kind \in Kind : \E rule \in Current(kind) :
        \/ \E strategy \in MergeStrategy : EditRule(kind, rule, strategy)
        \/ DeleteRule(kind, rule)
    \/ \E r \in Replica :
        \/ \E kind \in Kind : ListRules(r, kind) \/ Deliver(r, kind)
        \/ Sync(r) \/ Listen(r) \/ ListenFails(r) \/ Crash(r)
    \/ \E p \in Pod :
        \/ \E object \in PodObjects : AskFor(p, object)
        \/ Refuse(p) \/ AskAgain(p) \/ ReadNamespaced(p) \/ Answer(p)
        \/ \E r \in Replica : Receive(p, r)

Spec == Init /\ [][Next]_vars

\* Processes run, calls return, and whoever wants a pod goes on asking.
Fairness ==
    /\ \A r \in Replica :
        /\ \A kind \in Kind : WF_vars(ListRules(r, kind))
        /\ WF_vars(Sync(r)) /\ WF_vars(Listen(r))
    /\ \A p \in Pod :
        /\ WF_vars(AskAgain(p)) /\ WF_vars(ReadNamespaced(p)) /\ WF_vars(Answer(p))
        /\ WF_vars(\E r \in Replica : Receive(p, r))

FairSpec == Spec /\ Fairness

-----------------------------------------------------------------------------
(* Properties *)

Created(p) == pods[p].state = "created"

RuleSet(p) == {pods[p].rules[i] : i \in DOMAIN pods[p].rules}

\* The lists of a replica lag behind, and are read one after another while
\* rules come and go, but a pod always gets the rules that target it and were
\* there from the start of the process that answers until the pod was stored:
\* the webhook does not serve before both caches have synced
\* (resource_watcher.go, waitForCacheSync).  And it gets no rule that was not
\* there at any time in between, or that is of another namespace.
StandingRulesApply ==
    \A p \in Pod : Created(p) /\ ~PodIsProtected(pods[p].object) =>
        \A kind \in Kind :
            LET span == pods[p].from[kind]..pods[p].until[kind]
                mine(rule) ==
                    /\ TargetsPod(rule, pods[p].object)
                    /\ kind = "namespaced" => rule.namespace = pods[p].object.namespace
                used == {rule \in RuleSet(p) : KindOf(rule) = kind}
            IN  /\ \A rule \in stores[kind][pods[p].from[kind]] :
                    mine(rule) /\ (\A v \in span : rule \in stores[kind][v]) => rule \in used
                /\ \A rule \in used :
                    mine(rule) /\ \E v \in span : rule \in stores[kind][v]

\* Each member of a pod's scheduling is what a rule of its namespace says, if
\* one of those that apply says anything about it, else what a cluster rule
\* says, else what the user said: the operations of all the rules are one
\* JSON patch, so the last one wins, member by member.  Protected pods are as
\* their users made them.
NamespacedRulesWin ==
    \A p \in Pod : Created(p) =>
        \A m \in SchedulingMember :
            LET saying(kind) ==
                    {rule \in RuleSet(p) : /\ KindOf(rule) = kind
                                           /\ GetMergeStrategy(rule) = "OverwriteAll"
                                           /\ CASE m = "affinity" -> rule.scheduling.affinity # None
                                                [] OTHER -> rule.scheduling[m] # {}}
                said(kind) == \E rule \in saying(kind) : pods[p].spec[m] = rule.scheduling[m]
                unsaid == pods[p].spec[m] = pods[p].object.spec[m]
            IN  IF PodIsProtected(pods[p].object) THEN unsaid
                ELSE IF saying("namespaced") # {} THEN said("namespaced")
                ELSE IF saying("cluster") # {} THEN said("cluster")
                ELSE unsaid

\* The assignments of the groups that valetctl makes.
GroupAssignments ==
    UNION {LET group == GroupCreate({}, command) IN
           IF group = None
             THEN {}
             ELSE {group.assignments[i] : i \in DOMAIN group.assignments}
                    \cup ({group.defaultAssignment} \ {None})
           : command \in GroupCommands}

\* A node of the group that has been given an assignment satisfies the term.
Satisfies(node, term) ==
    IsAssigned(node) /\ (term.values = {} \/ GetAssignment(node) \in term.values)

\* A pod tolerates the group's taints on a node.
Tolerates(spec, group, node) ==
    \A t \in node.taints : \E toleration \in spec.tolerations :
        toleration.key = group /\ toleration.value \in {None, t.value}

\* valetctl assignment create, help: "Pods will be given a required affinity
\* to 'io/fast' node assignment members. Implies toleration".  Whatever rules
\* are merged in whatever order, a pod that is sent to the nodes of an
\* assignment tolerates the taints that the assignment puts on them.
MembersAccept ==
    \A p \in Pod : Created(p) =>
        LET affinity == pods[p].spec.affinity IN
        affinity # None /\ affinity.term # None /\ affinity.term.key \in GroupName =>
            \A a \in GroupAssignments :
                LET node == Assign([labels |-> {}, assign |-> None, packleft |-> None,
                                    taints |-> {}, ready |-> TRUE], a)
                IN  Satisfies(node, affinity.term)
                        => Tolerates(pods[p].spec, affinity.term.key, node)

\* server.go, line 88: "Start the server, restart on errors".  A pod that is
\* asked for until it is there is created, although the API server refuses
\* pods while nobody serves the webhook.
EventuallyCreated == \A p \in Pod : (pods[p].state = "asked") ~> Created(p)
=============================================================================
