--------------------------- MODULE PackLeftProofs ---------------------------
(***************************************************************************)
(* TLAPS proofs about PackLeft and PackLeftController, for every cluster,  *)
(* set of specs, set of pods and bound: the types, that packleft neither   *)
(* assigns a node nor takes a taint of somebody else away, and that a run  *)
(* which saw the current cluster and met no failure leaves it balanced.    *)
(***************************************************************************)
EXTENDS PackLeftController, FiniteSetTheorems, WellFoundedInduction, TLAPS

-----------------------------------------------------------------------------
(* What the patches change. *)

\* The patch was made from the copy in `seen', and writes only packleft's
\* label and taint.
Faithful(seen, p) ==
    /\ p \in PatchObject
    /\ seen[p.node] # None
    /\ p.new.assign = seen[p.node].assign
    /\ NotPackLeft(p.new) = NotPackLeft(seen[p.node])

LEMMA RemoveFirstTaintFacts ==
    ASSUME NEW taints \in SUBSET Taint
    PROVE  /\ RemoveFirstTaint(taints) \in SUBSET Taint
           /\ {t \in RemoveFirstTaint(taints) : t.key # "packleft"}
                = {t \in taints : t.key # "packleft"}
<1> DEFINE ours == {t \in taints : t.key = "packleft"}
           first == CHOOSE t \in ours : TRUE
<1>1. CASE ours = {}
    BY <1>1 DEF RemoveFirstTaint
<1>2. CASE ours # {}
    <2>1. first \in ours
        BY <1>2
    <2>2. RemoveFirstTaint(taints) = taints \ {first}
        BY <1>2 DEF RemoveFirstTaint
    <2> HIDE DEF first
    <2> QED  BY <2>1, <2>2
<1> QED  BY <1>1, <1>2

LEMMA SetStateFacts ==
    ASSUME NEW node \in NodeObject, NEW state \in PackLeftState
    PROVE  /\ SetState(node, state) \in NodeObject
           /\ SetState(node, state).assign = node.assign
           /\ NotPackLeft(SetState(node, state)) = NotPackLeft(node)
<1> DEFINE rest == RemoveFirstTaint(node.taints)
           set == [node EXCEPT !.packleft = state, !.taints = rest \cup StateTaint(state)]
<1>1. node.taints \in SUBSET Taint
    BY DEF NodeObject
<1>2. /\ rest \in SUBSET Taint
      /\ {t \in rest : t.key # "packleft"} = {t \in node.taints : t.key # "packleft"}
    BY <1>1, RemoveFirstTaintFacts
<1>3. StateTaint(state) \in SUBSET Taint /\ \A t \in StateTaint(state) : t.key = "packleft"
    BY DEF StateTaint, Taint, Effect, PackLeftState
<1>4. SetState(node, state) = set
    BY DEF SetState
<1> HIDE DEF rest
<1>5. set \in NodeObject /\ set.assign = node.assign /\ set.taints = rest \cup StateTaint(state)
    BY <1>2, <1>3 DEF NodeObject
<1> HIDE DEF set
<1>6. NotPackLeft(set) = NotPackLeft(node)
    BY <1>2, <1>3, <1>5 DEF NotPackLeft
<1> QED  BY <1>4, <1>5, <1>6

LEMMA ClearPackLeftFacts ==
    ASSUME NEW node \in NodeObject
    PROVE  /\ ClearPackLeft(node) \in NodeObject
           /\ ClearPackLeft(node).assign = node.assign
           /\ NotPackLeft(ClearPackLeft(node)) = NotPackLeft(node)
<1> DEFINE rest == RemoveFirstTaint(node.taints)
           cleared == [node EXCEPT !.packleft = None, !.taints = rest]
<1>1. node.taints \in SUBSET Taint
    BY DEF NodeObject
<1>2. /\ rest \in SUBSET Taint
      /\ {t \in rest : t.key # "packleft"} = {t \in node.taints : t.key # "packleft"}
    BY <1>1, RemoveFirstTaintFacts
<1>3. ClearPackLeft(node) = cleared
    BY DEF ClearPackLeft
<1> HIDE DEF rest
<1>4. cleared \in NodeObject /\ cleared.assign = node.assign /\ cleared.taints = rest
    BY <1>2 DEF NodeObject
<1> HIDE DEF cleared
<1> QED  BY <1>2, <1>3, <1>4 DEF NotPackLeft

\* A sequence of all members of a finite set.
LEMMA SeqsOf ==
    ASSUME NEW S, IsFiniteSet(S), NEW t \in SetToSeqs(S)
    PROVE  t \in Seq(S) /\ IsFiniteSet(DOMAIN t)
<1>1. Cardinality(S) \in Nat
    BY FS_CardinalityType
<1>2. t \in [1..Cardinality(S) -> S]
    BY DEF SetToSeqs
<1>3. IsFiniteSet(1..Cardinality(S))
    BY <1>1, FS_Interval
<1> QED  BY <1>1, <1>2, <1>3

\* Plans that send a finite set of faithful patches, in some order.
LEMMA PlanOf ==
    ASSUME NEW seen, NEW patches, IsFiniteSet(patches), \A p \in patches : Faithful(seen, p),
           NEW t \in SetToSeqs(Sendable(seen, patches))
    PROVE  t \in Seq(PatchObject) /\ \A i \in DOMAIN t : Faithful(seen, t[i])
<1>1. Sendable(seen, patches) \subseteq patches
    BY DEF Sendable
<1>2. t \in Seq(Sendable(seen, patches))
    BY <1>1, FS_Subset, SeqsOf
<1>3. \A i \in DOMAIN t : t[i] \in patches
    BY <1>1, <1>2
<1>4. \A i \in DOMAIN t : t[i] \in PatchObject
    BY <1>3 DEF Faithful
<1> QED  BY <1>2, <1>3, <1>4

LEMMA BalancePlansFacts ==
    ASSUME NEW seen \in NodeMap, NEW spec, NEW name, NEW t \in BalancePlans(seen, spec, name)
    PROVE  t \in Seq(PatchObject) /\ \A i \in DOMAIN t : Faithful(seen, t[i])
<1> DEFINE group == PackLeftNodes(spec, seen, name)
           a == AssignmentByName(spec, name)
           buffer == AvoidBufferSize(a, Cardinality(group))
           ready == {n \in group : seen[n].ready}
           Patches(s) == {[node |-> s[i], new |-> SetState(seen[s[i]], StateOf(a, buffer, s, i))] :
                            i \in DOMAIN s}
<1>1. PICK s \in Sorted(ready) : t \in InOrder(s, Sendable(seen, Patches(s)))
    BY DEF BalancePlans
<1>2. ready \subseteq Node /\ \A n \in ready : seen[n] \in NodeObject /\ seen[n] # None
    BY DEF PackLeftNodes, NodeMap
<1>3. IsFiniteSet(ready)
    BY <1>2, NodeAssumption, FS_Subset
<1>4. s \in Seq(ready) /\ IsFiniteSet(DOMAIN s)
    BY <1>1, <1>3, SeqsOf DEF Sorted
<1>5. IsFiniteSet(Patches(s))
    <2> DEFINE patch == [i \in DOMAIN s |->
                 [node |-> s[i], new |-> SetState(seen[s[i]], StateOf(a, buffer, s, i))]]
    <2>1. patch \in Surjection(DOMAIN s, Patches(s))
        BY DEF Surjection
    <2> HIDE DEF patch, Patches
    <2> QED  BY <1>4, <2>1, FS_Surjection
<1>6. ASSUME NEW p \in Patches(s) PROVE Faithful(seen, p)
    <2>1. PICK i \in DOMAIN s :
            p = [node |-> s[i], new |-> SetState(seen[s[i]], StateOf(a, buffer, s, i))]
        OBVIOUS
    <2>2. s[i] \in Node /\ seen[s[i]] \in NodeObject /\ seen[s[i]] # None
        BY <1>2, <1>4
    <2>3. StateOf(a, buffer, s, i) \in PackLeftState
        BY DEF StateOf, PackLeftState
    <2> HIDE DEF a, buffer
    <2>4. p.node = s[i] /\ p.new = SetState(seen[s[i]], StateOf(a, buffer, s, i)) /\ p \in PatchObject
        BY <2>1, <2>2, <2>3, SetStateFacts DEF PatchObject
    <2> QED  BY <2>2, <2>3, <2>4, SetStateFacts DEF Faithful
<1>7. t \in SetToSeqs(Sendable(seen, Patches(s)))
    BY <1>1 DEF InOrder
<1> HIDE DEF Patches
<1> QED  BY <1>5, <1>6, <1>7, PlanOf

LEMMA ClearPlansFacts ==
    ASSUME NEW seen \in NodeMap, NEW S \in SUBSET Node, \A n \in S : seen[n] # None,
           NEW t \in ClearPlans(seen, S)
    PROVE  t \in Seq(PatchObject) /\ \A i \in DOMAIN t : Faithful(seen, t[i])
<1> DEFINE patches == {[node |-> n, new |-> ClearPackLeft(seen[n])] : n \in S}
<1>1. IsFiniteSet(S)
    BY NodeAssumption, FS_Subset
<1>2. IsFiniteSet(patches)
    <2> DEFINE patch == [n \in S |-> [node |-> n, new |-> ClearPackLeft(seen[n])]]
    <2>1. patch \in Surjection(S, patches)
        BY DEF Surjection
    <2> HIDE DEF patch, patches
    <2> QED  BY <1>1, <2>1, FS_Surjection
<1>3. ASSUME NEW p \in patches PROVE Faithful(seen, p)
    <2>1. PICK n \in S : p = [node |-> n, new |-> ClearPackLeft(seen[n])]
        OBVIOUS
    <2>2. n \in Node /\ seen[n] \in NodeObject /\ seen[n] # None
        BY DEF NodeMap
    <2>3. p.node = n /\ p.new = ClearPackLeft(seen[n]) /\ p \in PatchObject
        BY <2>1, <2>2, ClearPackLeftFacts DEF PatchObject
    <2> QED  BY <2>2, <2>3, ClearPackLeftFacts DEF Faithful
<1>4. t \in SetToSeqs(Sendable(seen, patches))
    BY DEF ClearPlans
<1> HIDE DEF patches
<1> QED  BY <1>2, <1>3, <1>4, PlanOf

-----------------------------------------------------------------------------
(* What one patch does to a node. *)

LEMMA PatchOfPackLeft ==
    ASSUME NEW live \in NodeObject, NEW old \in NodeObject, NEW new \in NodeObject,
           new.assign = old.assign, NotPackLeft(new) = NotPackLeft(old)
    PROVE  /\ Patch(live, old, new) \in NodeObject
           /\ Patch(live, old, new).labels = live.labels
           /\ Patch(live, old, new).assign = live.assign
           /\ Patch(live, old, new).ready = live.ready
           /\ NotPackLeft(live) = NotPackLeft(old)
                => NotPackLeft(Patch(live, old, new)) = NotPackLeft(live)
<1> DEFINE label == IF new.packleft = old.packleft THEN live.packleft ELSE new.packleft
           taints == IF new.taints = old.taints THEN live.taints ELSE new.taints
           patched == [live EXCEPT !.assign = live.assign, !.packleft = label, !.taints = taints]
<1>1. label \in PackLeftState \cup {None} /\ taints \in SUBSET Taint
    BY DEF NodeObject
<1>2. Patch(live, old, new) = patched
    BY DEF Patch, NodeObject
<1>3. NotPackLeft(live) = NotPackLeft(old)
        => {t \in taints : t.key # "packleft"} = {t \in live.taints : t.key # "packleft"}
    BY DEF NotPackLeft
<1> HIDE DEF label, taints
<1>4. /\ patched \in NodeObject
      /\ patched.labels = live.labels
      /\ patched.assign = live.assign
      /\ patched.ready = live.ready
      /\ patched.taints = taints
    BY <1>1 DEF NodeObject
<1> HIDE DEF patched
<1> QED  BY <1>2, <1>3, <1>4 DEF NotPackLeft

\* Nodes come and go by others, and their labels but packleft's are theirs.
OnlyPackLeft(old, new) ==
    /\ new \in NodeMap
    /\ \A n \in Node :
        /\ old[n] = None => new[n] = None
        /\ old[n] # None => /\ new[n] # None
                            /\ new[n].labels = old[n].labels
                            /\ new[n].assign = old[n].assign
                            /\ new[n].ready = old[n].ready

Agrees(x, node) == x # None /\ node # None => NotPackLeft(x) = NotPackLeft(node)

\* Where the copy of a node has the taints of others that it has, it keeps them.
KeepsTaints(seen, old, new) ==
    \A n \in Node :
        old[n] # None /\ Agrees(seen[n], old[n]) => NotPackLeft(new[n]) = NotPackLeft(old[n])

LEMMA SamePackLeft ==
    ASSUME NEW old \in NodeMap, NEW seen
    PROVE  OnlyPackLeft(old, old) /\ KeepsTaints(seen, old, old)
BY DEF OnlyPackLeft, KeepsTaints

\* A patch changes the node it is for, and of it what is packleft's.
LEMMA PatchedNodes ==
    ASSUME nodes \in NodeMap, plSeen \in NodeMap, NEW p, Faithful(plSeen, p), nodes[p.node] # None
    PROVE  LET new == [nodes EXCEPT ![p.node] = Patch(@, plSeen[p.node], p.new)] IN
           OnlyPackLeft(nodes, new) /\ KeepsTaints(plSeen, nodes, new)
<1> DEFINE n == p.node
           x == Patch(nodes[n], plSeen[n], p.new)
           new == [nodes EXCEPT ![n] = x]
<1>1. /\ n \in Node /\ p.new \in NodeObject
      /\ nodes[n] \in NodeObject /\ plSeen[n] \in NodeObject
    BY DEF Faithful, PatchObject, NodeMap
<1>2. p.new.assign = plSeen[n].assign /\ NotPackLeft(p.new) = NotPackLeft(plSeen[n])
    BY DEF Faithful
<1> HIDE DEF n
<1>3. /\ x \in NodeObject
      /\ x.labels = nodes[n].labels
      /\ x.assign = nodes[n].assign
      /\ x.ready = nodes[n].ready
      /\ NotPackLeft(nodes[n]) = NotPackLeft(plSeen[n]) => NotPackLeft(x) = NotPackLeft(nodes[n])
    BY <1>1, <1>2, PatchOfPackLeft
<1> HIDE DEF x
<1>4. new[n] = x /\ \A m \in Node \ {n} : new[m] = nodes[m]
    BY <1>1 DEF NodeMap
<1>5. new \in NodeMap /\ x # None
    BY <1>1, <1>3, NoneAssumption DEF NodeMap
<1> HIDE DEF new
<1>6. OnlyPackLeft(nodes, new)
    BY <1>1, <1>3, <1>4, <1>5, NoneAssumption DEF OnlyPackLeft
<1>7. KeepsTaints(plSeen, nodes, new)
    BY <1>1, <1>3, <1>4, NoneAssumption DEF KeepsTaints, Agrees
<1> QED  BY <1>6, <1>7 DEF new, x, n

LEMMA FaultFacts ==
    ASSUME faults \in Nat, plFailed \in BOOLEAN, PLNoFault \/ (\E call : PLFail(call))
    PROVE  faults' \in Nat /\ plFailed' \in BOOLEAN
<1>1. CASE PLNoFault
    BY <1>1 DEF PLNoFault
<1>2. CASE \E call : PLFail(call)
    BY <1>2 DEF PLFail
<1> QED  BY <1>1, <1>2

LEMMA SendFacts ==
    ASSUME nodes \in NodeMap, plSeen \in NodeMap, faults \in Nat, plFailed \in BOOLEAN,
           NEW p, Faithful(plSeen, p), SendPatch(p) \/ SendFails(p)
    PROVE  /\ OnlyPackLeft(nodes, nodes') /\ KeepsTaints(plSeen, nodes, nodes')
           /\ faults' \in Nat /\ plFailed' \in BOOLEAN
<1>1. PLNoFault \/ PLFail("nodePatch")
    BY DEF SendPatch, SendFails
<1>2. \/ nodes' = nodes
      \/ /\ nodes[p.node] # None
         /\ nodes' = [nodes EXCEPT ![p.node] = Patch(@, plSeen[p.node], p.new)]
    BY DEF SendPatch, SendFails
<1>3. OnlyPackLeft(nodes, nodes') /\ KeepsTaints(plSeen, nodes, nodes')
    BY <1>2, SamePackLeft, PatchedNodes
<1>4. faults' \in Nat /\ plFailed' \in BOOLEAN
    BY <1>1, FaultFacts
<1> QED  BY <1>3, <1>4

-----------------------------------------------------------------------------
(* The types, and what a step of a run does to the rest. *)

WorldType ==
    /\ nodes \in NodeMap
    /\ nag \in Nags
    /\ version \in Nat
    /\ nagIndex \in Nags
    /\ watch \in Seq(Nags)
    /\ edits \in Nat /\ faults \in Nat
    /\ nodeIndex \in NodeMap
    /\ podIndex \in [Pod -> PodObject \cup {None}]
    /\ plClean \in BOOLEAN /\ plFailed \in BOOLEAN

WatchType == nodeWatch \in Seq([node: Node, obj: NodeObject \cup {None}])

RunType ==
    /\ plPc \in PLPhase
    /\ plNag \in Nags
    /\ plPc # "done" => plNag # None
    /\ plCopy \in Nags
    /\ plTries \in Nat
    /\ plSeen \in NodeMap
    /\ plGroups \in SUBSET AName
    /\ plan \in Seq(PatchObject)
    /\ plPc \in {"balance", "cleaning", "deleting"} \/ plan = <<>>
    /\ \A i \in DOMAIN plan : Faithful(plSeen, plan[i])
    /\ plErr \in BOOLEAN

\* The types, and that every patch a run has still to send was made from the
\* copy of its node that the run holds, and writes what is packleft's.
PLTypeInv == WorldType /\ WatchType /\ RunType

LEMMA PLTypeInvIsType == PLTypeInv => PLTypeOK
BY DEF PLTypeInv, WorldType, WatchType, RunType, PLTypeOK, Faithful

\* What no step of a run does otherwise.
RunFrame ==
    /\ OnlyPackLeft(nodes, nodes') /\ KeepsTaints(plSeen, nodes, nodes')
    /\ UNCHANGED <<nagIndex, nodeIndex, podIndex, edits>>
    /\ plSeen' \in {plSeen, nodeIndex, Gone}
    /\ plClean' => plClean \/ (CachesCurrent /\ nodes' = nodes /\ plSeen' = nodeIndex)

PLStepOK == WorldType' /\ RunType' /\ RunFrame

LEMMA PLStoreType ==
    ASSUME version \in Nat, watch \in Seq(Nags), NEW obj \in Nags, Store(obj)
    PROVE  version' \in Nat /\ nag' \in Nags /\ watch' \in Seq(Nags)
<1>1. nag' \in Nags
    BY DEF Store, Nags, NagObject
<1> QED  BY <1>1 DEF Store

LEMMA PLEndRunType ==
    ASSUME NEW e \in BOOLEAN, PLEndRun(e)
    PROVE  RunType' /\ plSeen' = Gone
BY DEF PLEndRun, RunType, PLPhase, Nags, Gone, NodeMap

\* A step that changes the group or the run, and no node.
LEMMA NodesKept ==
    ASSUME WorldType, nodes' = nodes
    PROVE  OnlyPackLeft(nodes, nodes') /\ KeepsTaints(plSeen, nodes, nodes')
BY SamePackLeft DEF WorldType

LEMMA GetType ==
    ASSUME WorldType, RunType, NEW from, NEW to \in PLPhase, from # "done", PLGetNag(from, to)
    PROVE  PLStepOK
<1>1. plCopy' \in Nags
    BY DEF PLGetNag, WorldType, Nags
<1>2. faults' \in Nat /\ plFailed' \in BOOLEAN
    BY FaultFacts DEF PLGetNag, WorldType
<1>3. RunType'
    BY <1>1 DEF PLGetNag, PLGoto, RunType
<1>4. WorldType'
    BY <1>2 DEF PLGetNag, WorldType, apiVars, cacheVars, plCacheVars
<1>5. RunFrame
    BY NodesKept DEF PLGetNag, RunFrame, apiVars, cacheVars, plCacheVars
<1> QED  BY <1>3, <1>4, <1>5 DEF PLStepOK

LEMMA RetryType ==
    ASSUME WorldType, RunType, NEW from \in {"ensureUpdate", "removeUpdate"}, NEW to \in PLPhase,
           PLRetry(from, to)
    PROVE  PLStepOK
<1>1. RunType'
    BY DEF PLRetry, PLGoto, RunType
<1>2. WorldType'
    BY DEF PLRetry, WorldType, apiVars, cacheVars, plCacheVars
<1>3. RunFrame
    BY NodesKept DEF PLRetry, RunFrame, apiVars, cacheVars, plCacheVars
<1> QED  BY <1>1, <1>2, <1>3 DEF PLStepOK

LEMMA UpdateFailsFacts ==
    ASSUME WorldType, NEW forbidden, PLUpdateFails(forbidden)
    PROVE  faults' \in Nat /\ plFailed' \in BOOLEAN
BY FaultFacts DEF PLUpdateFails, WorldType

LEMMA EnsureFailsType == WorldType /\ RunType /\ EnsureFails => PLStepOK
<1> SUFFICES ASSUME WorldType, RunType, EnsureFails PROVE PLStepOK
    OBVIOUS
<1>1. faults' \in Nat /\ plFailed' \in BOOLEAN
    BY UpdateFailsFacts DEF EnsureFails
<1>2. RunType'
    BY DEF EnsureFails, PLGoto, RunType, PLPhase, Nags
<1>3. WorldType'
    BY <1>1 DEF EnsureFails, WorldType, apiVars, cacheVars, plCacheVars
<1>4. RunFrame
    BY NodesKept DEF EnsureFails, RunFrame, apiVars, cacheVars, plCacheVars
<1> QED  BY <1>2, <1>3, <1>4 DEF PLStepOK

LEMMA EnsureUpdateType == WorldType /\ RunType /\ EnsureUpdate => PLStepOK
<1> SUFFICES ASSUME WorldType, RunType, EnsureUpdate PROVE PLStepOK
    OBVIOUS
<1>1. [plCopy EXCEPT !.others = TRUE] \in Nags
    BY DEF EnsureUpdate, RunType, Nags, NagObject
<1>2. version' \in Nat /\ nag' \in Nags /\ watch' \in Seq(Nags)
    BY <1>1, PLStoreType DEF EnsureUpdate, WorldType
<1>3. RunType'
    BY DEF EnsureUpdate, PLGoto, RunType, PLPhase, Nags
<1>4. WorldType'
    <2>1. faults' \in Nat /\ plFailed' \in BOOLEAN
        <3>1. CASE PLNoFault
            BY <3>1 DEF PLNoFault, WorldType
        <3>2. CASE PLReplyLost
            BY <3>2 DEF PLReplyLost, PLFail, WorldType
        <3> QED  BY <3>1, <3>2 DEF EnsureUpdate
    <2> QED  BY <1>2, <2>1 DEF EnsureUpdate, WorldType, plCacheVars
<1>5. RunFrame
    BY NodesKept DEF EnsureUpdate, RunFrame, plCacheVars
<1> QED  BY <1>3, <1>4, <1>5 DEF PLStepOK

LEMMA ListGroupsType == WorldType /\ RunType /\ ListGroups => PLStepOK
<1> SUFFICES ASSUME WorldType, RunType, ListGroups PROVE PLStepOK
    OBVIOUS
<1>1. RunType'
    BY DEF ListGroups, PLGoto, RunType, WorldType, PLPhase
<1>2. plClean' \in BOOLEAN
    BY DEF ListGroups, CachesCurrent
<1>3. WorldType'
    BY <1>2 DEF ListGroups, WorldType, apiVars, cacheVars, plCacheVars
<1>4. RunFrame
    BY NodesKept DEF ListGroups, RunFrame, apiVars, cacheVars, plCacheVars
<1> QED  BY <1>1, <1>3, <1>4 DEF PLStepOK

LEMMA BalanceNodesType == WorldType /\ RunType /\ BalanceNodes => PLStepOK
<1> SUFFICES ASSUME WorldType, RunType, NEW name \in plGroups,
                    plPc = "balance",
                    plan' \in BalancePlans(plSeen, plNag.spec, name),
                    plGroups' = plGroups \ {name},
                    UNCHANGED <<apiVars, cacheVars, plCacheVars, plPc, plNag, plErr, plCopy, plTries,
                                plSeen, plClean, plFailed, edits, faults>>
             PROVE  PLStepOK
    BY DEF BalanceNodes
<1>1. plan' \in Seq(PatchObject) /\ \A i \in DOMAIN plan' : Faithful(plSeen', plan'[i])
    BY BalancePlansFacts DEF RunType
<1>2. RunType'
    BY <1>1 DEF RunType
<1>3. WorldType'
    BY DEF WorldType, apiVars, cacheVars, plCacheVars
<1>4. RunFrame
    BY NodesKept DEF RunFrame, apiVars, cacheVars, plCacheVars
<1> QED  BY <1>2, <1>3, <1>4 DEF PLStepOK

\* The plans of CleanUnassigned and CleanAll.
LEMMA ClearingType ==
    ASSUME WorldType, RunType, NEW to \in {"cleaning", "deleting"}, plPc # "done",
           NEW S \in SUBSET Node, \A n \in S : nodeIndex[n] # None,
           PLGoto(to), plSeen' = nodeIndex, plan' \in ClearPlans(nodeIndex, S),
           UNCHANGED <<apiVars, cacheVars, plCacheVars, plCopy, plTries, plGroups, plClean,
                       plFailed, edits, faults>>
    PROVE  PLStepOK
<1>1. plan' \in Seq(PatchObject) /\ \A i \in DOMAIN plan' : Faithful(plSeen', plan'[i])
    BY ClearPlansFacts DEF WorldType
<1>2. RunType'
    BY <1>1 DEF RunType, WorldType, PLGoto, PLPhase
<1>3. WorldType'
    BY DEF WorldType, apiVars, cacheVars, plCacheVars
<1>4. RunFrame
    BY NodesKept DEF RunFrame, apiVars, cacheVars, plCacheVars
<1> QED  BY <1>2, <1>3, <1>4 DEF PLStepOK

LEMMA CleanUnassignedType == WorldType /\ RunType /\ CleanUnassigned => PLStepOK
<1> SUFFICES ASSUME WorldType, RunType, CleanUnassigned PROVE PLStepOK
    OBVIOUS
<1> DEFINE S == {n \in Node : nodeIndex[n] # None /\ Leftover(plNag.spec, nodeIndex[n])}
<1>1. S \in SUBSET Node /\ \A n \in S : nodeIndex[n] # None
    OBVIOUS
<1>2. plan' \in ClearPlans(nodeIndex, S)
    BY DEF CleanUnassigned
<1> HIDE DEF S
<1> QED  BY <1>1, <1>2, ClearingType DEF CleanUnassigned

LEMMA CleanAllType == WorldType /\ RunType /\ CleanAll => PLStepOK
<1> SUFFICES ASSUME WorldType, RunType, CleanAll PROVE PLStepOK
    OBVIOUS
<1> DEFINE S == {n \in Node : /\ nodeIndex[n] # None
                              /\ Leftover(plNag.spec, nodeIndex[n]) \/ ~nodeIndex[n].ready}
<1>1. S \in SUBSET Node /\ \A n \in S : nodeIndex[n] # None
    OBVIOUS
<1>2. plan' \in ClearPlans(nodeIndex, S)
    BY DEF CleanAll
<1> HIDE DEF S
<1> QED  BY <1>1, <1>2, ClearingType DEF CleanAll

\* What is left of a plan.
LEMMA TailOfPlan ==
    ASSUME RunType, plan # <<>>
    PROVE  /\ Faithful(plSeen, Head(plan))
           /\ Tail(plan) \in Seq(PatchObject)
           /\ \A i \in DOMAIN Tail(plan) : Faithful(plSeen, Tail(plan)[i])
<1>1. plan \in Seq(PatchObject) /\ \A i \in DOMAIN plan : Faithful(plSeen, plan[i])
    BY DEF RunType
<1>2. Head(plan) = plan[1] /\ 1 \in DOMAIN plan
    BY <1>1
<1>3. Tail(plan) \in Seq(PatchObject)
    BY <1>1
<1>4. ASSUME NEW i \in DOMAIN Tail(plan) PROVE Faithful(plSeen, Tail(plan)[i])
    <2>1. i + 1 \in DOMAIN plan /\ Tail(plan)[i] = plan[i + 1]
        BY <1>1
    <2> QED  BY <1>1, <2>1
<1> QED  BY <1>1, <1>2, <1>3, <1>4

LEMMA SendNextType ==
    ASSUME WorldType, RunType, NEW phase \in {"balance", "cleaning"}, SendNext(phase)
    PROVE  PLStepOK
<1>1. /\ Faithful(plSeen, Head(plan))
      /\ plan' \in Seq(PatchObject)
      /\ \A i \in DOMAIN plan' : Faithful(plSeen, plan'[i])
    BY TailOfPlan DEF SendNext
<1>2. /\ OnlyPackLeft(nodes, nodes') /\ KeepsTaints(plSeen, nodes, nodes')
      /\ faults' \in Nat /\ plFailed' \in BOOLEAN
    BY <1>1, SendFacts DEF SendNext, WorldType, RunType
<1>3. RunType'
    BY <1>1 DEF SendNext, RunType
<1>4. WorldType'
    BY <1>2 DEF SendNext, WorldType, cacheVars, plCacheVars, OnlyPackLeft
<1>5. RunFrame
    BY <1>2 DEF SendNext, RunFrame, cacheVars, plCacheVars
<1> QED  BY <1>3, <1>4, <1>5 DEF PLStepOK

LEMMA SendDeleteType == WorldType /\ RunType /\ SendDelete => PLStepOK
<1> SUFFICES ASSUME WorldType, RunType, SendDelete PROVE PLStepOK
    OBVIOUS
<1>1. /\ Faithful(plSeen, Head(plan))
      /\ Tail(plan) \in Seq(PatchObject)
      /\ \A i \in DOMAIN Tail(plan) : Faithful(plSeen, Tail(plan)[i])
    BY TailOfPlan DEF SendDelete
<1>2. /\ OnlyPackLeft(nodes, nodes') /\ KeepsTaints(plSeen, nodes, nodes')
      /\ faults' \in Nat /\ plFailed' \in BOOLEAN
    BY <1>1, SendFacts DEF SendDelete, WorldType, RunType
<1>3. RunType' /\ plSeen' \in {plSeen, Gone}
    <2>1. CASE /\ plan' = Tail(plan)
               /\ UNCHANGED <<plPc, plNag, plCopy, plTries, plSeen, plGroups, plErr>>
        BY <1>1, <2>1 DEF RunType, SendDelete
    <2>2. CASE PLEndRun(TRUE)
        BY <2>2, PLEndRunType
    <2> QED  BY <2>1, <2>2 DEF SendDelete
<1>4. WorldType'
    BY <1>2 DEF SendDelete, WorldType, cacheVars, plCacheVars, OnlyPackLeft
<1>5. RunFrame
    BY <1>2, <1>3 DEF SendDelete, RunFrame, cacheVars, plCacheVars
<1> QED  BY <1>3, <1>4, <1>5 DEF PLStepOK

LEMMA EndRebalanceType == WorldType /\ RunType /\ EndRebalance => PLStepOK
<1> SUFFICES ASSUME WorldType, RunType, EndRebalance PROVE PLStepOK
    OBVIOUS
<1>1. RunType' /\ plSeen' = Gone
    BY PLEndRunType DEF EndRebalance
<1>2. WorldType'
    BY DEF EndRebalance, WorldType, apiVars, cacheVars, plCacheVars
<1>3. RunFrame
    BY <1>1, NodesKept DEF EndRebalance, RunFrame, apiVars, cacheVars, plCacheVars
<1> QED  BY <1>1, <1>2, <1>3 DEF PLStepOK

LEMMA PLRemoveFailsType == WorldType /\ RunType /\ PLRemoveFails => PLStepOK
<1> SUFFICES ASSUME WorldType, RunType, PLRemoveFails PROVE PLStepOK
    OBVIOUS
<1>1. faults' \in Nat /\ plFailed' \in BOOLEAN
    BY UpdateFailsFacts DEF PLRemoveFails
<1>2. RunType' /\ plSeen' = Gone
    BY PLEndRunType DEF PLRemoveFails
<1>3. WorldType'
    BY <1>1 DEF PLRemoveFails, WorldType, apiVars, cacheVars, plCacheVars
<1>4. RunFrame
    BY <1>2, NodesKept DEF PLRemoveFails, RunFrame, apiVars, cacheVars, plCacheVars
<1> QED  BY <1>2, <1>3, <1>4 DEF PLStepOK

LEMMA PLRemoveUpdateType == WorldType /\ RunType /\ PLRemoveUpdate => PLStepOK
<1> SUFFICES ASSUME WorldType, RunType, PLRemoveUpdate PROVE PLStepOK
    OBVIOUS
<1>1. AfterFinalizers([plCopy EXCEPT !.others = FALSE]) \in Nags
    BY DEF PLRemoveUpdate, RunType, Nags, NagObject, AfterFinalizers
<1>2. version' \in Nat /\ nag' \in Nags /\ watch' \in Seq(Nags)
    BY <1>1, PLStoreType DEF PLRemoveUpdate, WorldType
<1>3. RunType' /\ plSeen' = Gone
    BY PLEndRunType DEF PLRemoveUpdate
<1>4. WorldType'
    <2>1. faults' \in Nat /\ plFailed' \in BOOLEAN
        <3>1. CASE PLNoFault
            BY <3>1 DEF PLNoFault, WorldType
        <3>2. CASE PLReplyLost
            BY <3>2 DEF PLReplyLost, PLFail, WorldType
        <3> QED  BY <3>1, <3>2 DEF PLRemoveUpdate
    <2> QED  BY <1>2, <2>1 DEF PLRemoveUpdate, WorldType, plCacheVars
<1>5. RunFrame
    BY <1>3, NodesKept DEF PLRemoveUpdate, RunFrame, plCacheVars
<1> QED  BY <1>3, <1>4, <1>5 DEF PLStepOK

LEMMA PLRunStepOK == WorldType /\ RunType /\ PLRun => PLStepOK
<1> SUFFICES ASSUME WorldType, RunType, PLRun PROVE PLStepOK
    OBVIOUS
<1>1. CASE EnsureGet \/ PLRemoveGet
    BY <1>1, GetType DEF EnsureGet, PLRemoveGet, PLPhase
<1>2. CASE EnsureRetry \/ PLRemoveRetry
    BY <1>2, RetryType DEF EnsureRetry, PLRemoveRetry, PLPhase
<1>3. CASE SendState \/ SendClear
    BY <1>3, SendNextType DEF SendState, SendClear
<1> QED  BY <1>1, <1>2, <1>3, EnsureFailsType, EnsureUpdateType, ListGroupsType, BalanceNodesType,
            CleanUnassignedType, CleanAllType, SendDeleteType, EndRebalanceType,
            PLRemoveFailsType, PLRemoveUpdateType DEF PLRun

LEMMA PLStartOK == WorldType /\ RunType /\ PLStart => PLStepOK
<1> SUFFICES ASSUME WorldType, RunType, PLStart PROVE PLStepOK
    OBVIOUS
<1>1. RunType'
    BY DEF PLStart, RunType, WorldType, PLPhase
<1>2. WorldType'
    BY DEF PLStart, WorldType, apiVars, cacheVars, plCacheVars
<1>3. RunFrame
    BY NodesKept DEF PLStart, RunFrame, apiVars, cacheVars, plCacheVars
<1> QED  BY <1>1, <1>2, <1>3 DEF PLStepOK

\* The informer is told of the one node that is not what it was.
LEMMA WatchNodesFacts ==
    ASSUME nodes \in NodeMap, nodes' \in NodeMap, WatchType, WatchNodes
    PROVE  /\ WatchType'
           /\ \/ nodeWatch' = nodeWatch
              \/ \E n \in Node : nodeWatch' = Append(nodeWatch, [node |-> n, obj |-> nodes'[n]])
<1>1. CASE nodes' = nodes
    BY <1>1 DEF WatchNodes, WatchType
<1>2. CASE nodes' # nodes
    <2> DEFINE n == CHOOSE m \in Node : nodes'[m] # nodes[m]
    <2>1. \E m \in Node : nodes'[m] # nodes[m]
        BY <1>2 DEF NodeMap
    <2>2. n \in Node
        BY <2>1
    <2>3. nodeWatch' = Append(nodeWatch, [node |-> n, obj |-> nodes'[n]])
        BY <1>2 DEF WatchNodes
    <2> HIDE DEF n
    <2>4. [node |-> n, obj |-> nodes'[n]] \in [node: Node, obj: NodeObject \cup {None}]
        BY <2>2 DEF NodeMap
    <2> QED  BY <2>2, <2>3, <2>4 DEF WatchType
<1> QED  BY <1>1, <1>2

LEMMA PLInitType ==
    ASSUME nodes \in NodeMap, PLInit
    PROVE  /\ RunType /\ WatchType
           /\ nodeIndex \in NodeMap /\ podIndex \in [Pod -> PodObject \cup {None}]
<1>1. Gone \in NodeMap
    BY DEF Gone, NodeMap
<1>2. plSeen \in NodeMap /\ plNag \in Nags /\ plCopy \in Nags
    BY <1>1 DEF PLInit, Nags
<1>3. plan \in Seq(PatchObject) /\ DOMAIN plan = {}
    BY DEF PLInit
<1>4. RunType
    BY <1>2, <1>3 DEF PLInit, RunType, PLPhase
<1>5. podIndex \in [Pod -> PodObject \cup {None}]
    BY InitialPodsAssumption DEF PLInit
<1> QED  BY <1>4, <1>5 DEF PLInit, WatchType

-----------------------------------------------------------------------------
(* The queue. *)

LEMMA PLAddType ==
    ASSUME QueueTypeOK, NEW c, AddIf(c), UNCHANGED <<waiting, failures>>
    PROVE  QueueTypeOK'
<1>1. CASE \E k \in Key : Add(k)
    <2>1. PICK k \in Key : Add(k)
        BY <1>1
    <2> QED  BY <2>1 DEF Add, QueueTypeOK
<1>2. CASE UNCHANGED <<queue, dirty, processing>>
    BY <1>2 DEF QueueTypeOK
<1> QED  BY <1>1, <1>2 DEF AddIf

LEMMA PLHandleErrType ==
    ASSUME QueueTypeOK, NEW k \in Key, NEW e, HandleErr(k, e)
    PROVE  QueueTypeOK'
<1>1. failures[k] \in 0..MaxRequeues /\ (~Exhausted(k) => failures[k] + 1 \in 0..MaxRequeues)
    BY DEF QueueTypeOK, Exhausted, MaxRequeues
<1>2. failures' \in [Key -> 0..MaxRequeues] /\ waiting' \in SUBSET Key
    <2>1. CASE AddRateLimited(k) /\ ~Exhausted(k)
        BY <1>1, <2>1 DEF AddRateLimited, QueueTypeOK
    <2>2. CASE Forget(k)
        BY <2>2 DEF Forget, QueueTypeOK, MaxRequeues
    <2> QED  BY <2>1, <2>2 DEF HandleErr
<1> QED  BY <1>2 DEF HandleErr, QueueTypeOK

LEMMA PLQueueStepType ==
    ASSUME QueueTypeOK,
           \/ \E k \in Key : Get(k) \/ Fire(k)
           \/ \E k \in processing : Done(k) \/ HandleErr(k, plErr) \/ HandleErr(k, FALSE)
    PROVE  QueueTypeOK'
<1>1. ASSUME NEW k \in Key, Get(k) PROVE QueueTypeOK'
    BY <1>1 DEF Get, QueueTypeOK
<1>2. ASSUME NEW k \in Key, Fire(k) PROVE QueueTypeOK'
    BY <1>2 DEF Fire, Add, QueueTypeOK
<1>3. ASSUME NEW k \in Key, Done(k) PROVE QueueTypeOK'
    BY <1>3 DEF Done, QueueTypeOK
<1>4. processing \subseteq Key
    BY DEF QueueTypeOK
<1> QED  BY <1>1, <1>2, <1>3, <1>4, PLHandleErrType

-----------------------------------------------------------------------------
(* The steps of the controller. *)

\* The inductive invariant of the types.
PLControllerInv ==
    /\ PLTypeInv
    /\ QueueTypeOK
    /\ plWorker \in {"idle", "lookup", "busy", "finish"}
    /\ settled \in BOOLEAN /\ gaveUp \in BOOLEAN

LEMMA FreshType ==
    ASSUME NEW l \in AName \cup {None}
    PROVE  [Fresh({}) EXCEPT !.assign = l] \in NodeObject
BY DEF Fresh, NodeObject

LEMMA PLControllerInitType == PLControllerInit => PLControllerInv
<1> SUFFICES ASSUME PLControllerInit PROVE PLControllerInv
    OBVIOUS
<1>1. [Fresh({}) EXCEPT !.assign = InitialLabel] \in NodeObject
    BY FreshType, LabelsAssumption
<1>2. nodes \in NodeMap
    BY <1>1 DEF PLControllerInit, NodeMap
<1>3. \A spec \in Specs : NewNag(spec) \in NagObject
    BY DEF NewNag, NagObject
<1>4. nag \in Nags /\ watch \in Seq(Nags) /\ nagIndex \in Nags
    <2>1. nag \in Nags /\ nagIndex \in Nags
        BY <1>3 DEF PLControllerInit, Nags
    <2> HIDE DEF Nags
    <2>2. <<nag>> \in Seq(Nags) /\ <<>> \in Seq(Nags)
        BY <2>1
    <2> QED  BY <2>1, <2>2 DEF PLControllerInit
<1>5. /\ RunType /\ WatchType
      /\ nodeIndex \in NodeMap /\ podIndex \in [Pod -> PodObject \cup {None}]
    BY <1>2, PLInitType DEF PLControllerInit
<1>6. plClean \in BOOLEAN /\ plFailed \in BOOLEAN
    BY DEF PLControllerInit, PLInit
<1>7. PLTypeInv
    BY <1>2, <1>4, <1>5, <1>6 DEF PLTypeInv, WorldType, PLControllerInit
<1>8. QueueTypeOK
    BY DEF PLControllerInit, QueueInit, QueueTypeOK, MaxRequeues
<1> QED  BY <1>7, <1>8 DEF PLControllerInv, PLControllerInit

\* A step that leaves nodes, pods, group and run alone.
Elsewhere == UNCHANGED <<clusterVars, nodeWatch, plVars>>

LEMMA ElsewhereType ==
    ASSUME PLTypeInv, Elsewhere
    PROVE  PLTypeInv' /\ CachesCurrent' = CachesCurrent
<1> USE DEF Elsewhere, clusterVars, plVars, plLoopVars, apiVars, cacheVars, plCacheVars
<1>1. WorldType'
    BY DEF PLTypeInv, WorldType
<1>2. WatchType'
    BY DEF PLTypeInv, WatchType
<1>3. RunType'
    BY DEF PLTypeInv, RunType
<1> QED  BY <1>1, <1>2, <1>3 DEF PLTypeInv, CachesCurrent

LEMMA PLDeliverNagType == PLControllerInv /\ PLDeliverNag => PLControllerInv'
<1> SUFFICES ASSUME PLControllerInv, PLDeliverNag PROVE PLControllerInv'
    OBVIOUS
<1> USE DEF plVars, plLoopVars, apiVars, plCacheVars
<1>1. nagIndex' \in Nags /\ watch' \in Seq(Nags)
    BY DEF PLControllerInv, PLTypeInv, WorldType, PLDeliverNag
<1>2. WorldType'
    BY <1>1 DEF PLControllerInv, PLTypeInv, WorldType, PLDeliverNag
<1>3. WatchType' /\ RunType'
    BY DEF PLControllerInv, PLTypeInv, WatchType, RunType, PLDeliverNag
<1>4. QueueTypeOK'
    BY PLAddType DEF PLControllerInv, PLDeliverNag
<1> QED  BY <1>2, <1>3, <1>4 DEF PLControllerInv, PLTypeInv, PLDeliverNag, ghostVars

LEMMA PLDeliverNodeType == PLControllerInv /\ PLDeliverNode => PLControllerInv'
<1> SUFFICES ASSUME PLControllerInv, PLDeliverNode PROVE PLControllerInv'
    OBVIOUS
<1> USE DEF plVars, plLoopVars, apiVars, cacheVars
<1>1. Head(nodeWatch) \in [node: Node, obj: NodeObject \cup {None}] /\ WatchType'
    <2>1. nodeWatch # <<>> /\ nodeWatch' = Tail(nodeWatch)
        BY DEF PLDeliverNode
    <2> DEFINE T == [node: Node, obj: NodeObject \cup {None}]
    <2>2. nodeWatch \in Seq(T)
        BY DEF PLControllerInv, PLTypeInv, WatchType
    <2> HIDE DEF T
    <2>3. Head(nodeWatch) \in T /\ nodeWatch' \in Seq(T)
        BY <2>1, <2>2
    <2> QED  BY <2>3 DEF WatchType, T
<1>2. nodeIndex' \in NodeMap
    BY <1>1 DEF PLControllerInv, PLTypeInv, WorldType, PLDeliverNode, NodeMap
<1>3. WorldType'
    BY <1>2 DEF PLControllerInv, PLTypeInv, WorldType, PLDeliverNode
<1>4. RunType'
    BY DEF PLControllerInv, PLTypeInv, RunType, PLDeliverNode
<1>5. QueueTypeOK'
    <2>1. PICK c : AddIf(c)
        BY DEF PLDeliverNode
    <2> QED  BY <2>1, PLAddType DEF PLControllerInv, PLDeliverNode
<1> QED  BY <1>1, <1>3, <1>4, <1>5 DEF PLControllerInv, PLTypeInv, PLDeliverNode, ghostVars

LEMMA PLWorkerType == PLControllerInv /\ (PLWorkerNext \/ PLRetryDue) => PLControllerInv'
<1> SUFFICES ASSUME PLControllerInv, PLWorkerNext \/ PLRetryDue PROVE PLControllerInv'
    OBVIOUS
<1>1. CASE PLDequeue \/ PLRetryDue
    <2>1. QueueTypeOK'
        BY <1>1, PLQueueStepType DEF PLControllerInv, PLDequeue, PLRetryDue
    <2>2. PLTypeInv'
        BY <1>1, ElsewhereType DEF PLControllerInv, PLDequeue, PLRetryDue, Elsewhere
    <2> QED  BY <1>1, <2>1, <2>2 DEF PLControllerInv, PLDequeue, PLRetryDue, ghostVars
<1>2. CASE PLLookupAbsent \/ PLRunReturns \/ PLFinishItem
    <2>1. QueueTypeOK'
        BY <1>2, PLQueueStepType DEF PLControllerInv, PLLookupAbsent, PLRunReturns, PLFinishItem
    <2>2. PLTypeInv'
        BY <1>2, ElsewhereType
           DEF PLControllerInv, PLLookupAbsent, PLRunReturns, PLFinishItem, Elsewhere
    <2>3. gaveUp' \in BOOLEAN
        <3>1. CASE PLRunReturns
            BY <3>1 DEF PLRunReturns, Exhausted
        <3>2. CASE PLLookupAbsent \/ PLFinishItem
            BY <3>2 DEF PLControllerInv, PLLookupAbsent, PLFinishItem, ghostVars
        <3> QED  BY <1>2, <3>1, <3>2
    <2> QED
        BY <1>2, <2>1, <2>2, <2>3
           DEF PLControllerInv, PLLookupAbsent, PLRunReturns, PLFinishItem, ghostVars
<1>3. CASE PLLookupFound
    <2>1. WorldType' /\ RunType'
        BY <1>3, PLStartOK DEF PLControllerInv, PLTypeInv, PLLookupFound, PLStepOK
    <2>2. WatchType'
        BY <1>3 DEF PLControllerInv, PLTypeInv, PLLookupFound, WatchType
    <2>3. QueueTypeOK'
        BY <1>3 DEF PLControllerInv, PLLookupFound, QueueTypeOK, queueVars
    <2> QED  BY <1>3, <2>1, <2>2, <2>3 DEF PLControllerInv, PLTypeInv, PLLookupFound, ghostVars
<1>4. CASE PLRunStep
    <2>1. WorldType' /\ RunType'
        BY <1>4, PLRunStepOK DEF PLControllerInv, PLTypeInv, PLRunStep, PLStepOK
    <2>2. WatchType'
        BY <1>4, <2>1, WatchNodesFacts DEF PLControllerInv, PLTypeInv, PLRunStep, WorldType
    <2>3. QueueTypeOK'
        BY <1>4 DEF PLControllerInv, PLRunStep, QueueTypeOK, queueVars
    <2>4. settled' \in BOOLEAN /\ plWorker' = plWorker
        BY <1>4 DEF PLControllerInv, PLRunStep
    <2> QED  BY <1>4, <2>1, <2>2, <2>3, <2>4 DEF PLControllerInv, PLTypeInv, PLRunStep
<1> QED  BY <1>1, <1>2, <1>3, <1>4 DEF PLWorkerNext

-----------------------------------------------------------------------------
(* What users, the scheduler and the kubelet do. *)

LEMMA DisturbType ==
    ASSUME PLControllerInv, NEW kind, Disturb(kind),
           nodes' \in NodeMap, nag' \in Nags, version' \in Nat, watch' \in Seq(Nags),
           podIndex' \in [Pod -> PodObject \cup {None}], QueueTypeOK'
    PROVE  PLControllerInv' /\ plClean' = FALSE
<1> USE DEF Disturb, plLoopVars
<1>1. WorldType'
    <2>1. plClean' \in BOOLEAN
        OBVIOUS
    <2>2. plFailed' \in BOOLEAN
        BY DEF PLControllerInv, PLTypeInv, WorldType
    <2>3. edits' \in Nat /\ faults' \in Nat /\ nagIndex' \in Nags /\ nodeIndex' \in NodeMap
        BY DEF PLControllerInv, PLTypeInv, WorldType
    <2> QED  BY <2>1, <2>2, <2>3 DEF WorldType
<1>2. RunType'
    BY DEF PLControllerInv, PLTypeInv, RunType
<1>3. WatchType'
    BY WatchNodesFacts DEF PLControllerInv, PLTypeInv, WorldType
<1> QED  BY <1>1, <1>2, <1>3 DEF PLControllerInv, PLTypeInv

LEMMA DisturbNagType ==
    ASSUME PLControllerInv, NEW obj \in Nags, DisturbNag(obj)
    PROVE  PLControllerInv' /\ plClean' = FALSE
<1>1. version' \in Nat /\ nag' \in Nags /\ watch' \in Seq(Nags)
    BY PLStoreType DEF PLControllerInv, PLTypeInv, WorldType, DisturbNag
<1>2. nodes' \in NodeMap /\ podIndex' \in [Pod -> PodObject \cup {None}]
    BY DEF PLControllerInv, PLTypeInv, WorldType, DisturbNag
<1>3. QueueTypeOK'
    BY DEF PLControllerInv, QueueTypeOK, DisturbNag, Disturb
<1> QED  BY <1>1, <1>2, <1>3, DisturbType DEF DisturbNag

LEMMA DisturbNodeType ==
    ASSUME PLControllerInv, NEW kind, NEW n \in Node, NEW obj \in NodeObject \cup {None},
           DisturbNode(kind, n, obj)
    PROVE  PLControllerInv' /\ plClean' = FALSE
<1>1. nodes' \in NodeMap
    BY DEF PLControllerInv, PLTypeInv, WorldType, DisturbNode, NodeMap
<1>2. /\ nag' \in Nags /\ version' \in Nat /\ watch' \in Seq(Nags)
      /\ podIndex' \in [Pod -> PodObject \cup {None}]
    BY DEF PLControllerInv, PLTypeInv, WorldType, DisturbNode
<1>3. QueueTypeOK'
    BY DEF PLControllerInv, QueueTypeOK, DisturbNode, Disturb
<1> QED  BY <1>1, <1>2, <1>3, DisturbType DEF DisturbNode

LEMMA DisturbPodType ==
    ASSUME PLControllerInv, NEW kind, NEW p \in Pod, NEW obj \in PodObject \cup {None}, NEW queued,
           DisturbPod(kind, p, obj, queued)
    PROVE  PLControllerInv' /\ plClean' = FALSE
<1>1. podIndex' \in [Pod -> PodObject \cup {None}]
    BY DEF PLControllerInv, PLTypeInv, WorldType, DisturbPod
<1>2. nodes' \in NodeMap /\ nag' \in Nags /\ version' \in Nat /\ watch' \in Seq(Nags)
    BY DEF PLControllerInv, PLTypeInv, WorldType, DisturbPod
<1>3. QueueTypeOK'
    BY PLAddType DEF PLControllerInv, DisturbPod, Disturb
<1> QED  BY <1>1, <1>2, <1>3, DisturbType DEF DisturbPod

LEMMA DisturbedType == PLControllerInv /\ Disturbed => PLControllerInv' /\ plClean' = FALSE
<1> SUFFICES ASSUME PLControllerInv, Disturbed PROVE PLControllerInv' /\ plClean' = FALSE
    OBVIOUS
<1>1. /\ nag \in Nags /\ nodes \in NodeMap /\ podIndex \in [Pod -> PodObject \cup {None}]
    BY DEF PLControllerInv, PLTypeInv, WorldType
<1>2. CASE PLCreateNag
    <2>1. PICK spec \in Specs : DisturbNag(NewNag(spec))
        BY <1>2 DEF PLCreateNag
    <2>2. NewNag(spec) \in Nags
        BY DEF NewNag, Nags, NagObject
    <2> QED  BY <2>1, <2>2, DisturbNagType
<1>3. CASE PLUpdateNag
    <2>1. PICK spec \in Specs : DisturbNag([nag EXCEPT !.spec = spec]) /\ nag # None
        BY <1>3 DEF PLUpdateNag
    <2>2. [nag EXCEPT !.spec = spec] \in Nags
        BY <1>1, <2>1 DEF Nags, NagObject
    <2> QED  BY <2>1, <2>2, DisturbNagType
<1>4. CASE PLDeleteNag
    <2>1. AfterFinalizers([nag EXCEPT !.deleting = TRUE]) \in Nags
        BY <1>1, <1>4 DEF PLDeleteNag, Nags, NagObject, AfterFinalizers
    <2> QED  BY <1>4, <2>1, DisturbNagType DEF PLDeleteNag
<1>5. CASE RelabelAssignment
    <2>1. PICK n \in Node, l \in Labels :
            nodes[n] # None /\ DisturbNode("assign", n, [nodes[n] EXCEPT !.assign = l])
        BY <1>5 DEF RelabelAssignment
    <2>2. [nodes[n] EXCEPT !.assign = l] \in NodeObject
        BY <1>1, <2>1, LabelsAssumption DEF NodeMap, NodeObject
    <2> QED  BY <2>1, <2>2, DisturbNodeType
<1>6. CASE ToggleReady
    <2>1. PICK n \in Node :
            nodes[n] # None /\ DisturbNode("ready", n, [nodes[n] EXCEPT !.ready = ~@])
        BY <1>6 DEF ToggleReady
    <2>2. [nodes[n] EXCEPT !.ready = ~@] \in NodeObject
        BY <1>1, <2>1 DEF NodeMap, NodeObject
    <2> QED  BY <2>1, <2>2, DisturbNodeType
<1>7. CASE ToggleTaint
    <2> DEFINE t == [key |-> "other", value |-> None, effect |-> "NoExecute"]
    <2>1. PICK n \in Node :
            /\ nodes[n] # None
            /\ DisturbNode("taint", n,
                 [nodes[n] EXCEPT !.taints = IF t \in @ THEN @ \ {t} ELSE @ \cup {t}])
        BY <1>7 DEF ToggleTaint
    <2>2. t \in Taint
        BY DEF Taint, Effect
    <2> HIDE DEF t
    <2>3. [nodes[n] EXCEPT !.taints = IF t \in @ THEN @ \ {t} ELSE @ \cup {t}] \in NodeObject
        BY <1>1, <2>1, <2>2 DEF NodeMap, NodeObject
    <2> QED  BY <2>1, <2>3, DisturbNodeType
<1>8. CASE PLAddNode
    <2>1. PICK n \in Node, l \in Labels :
            DisturbNode("addNode", n, [Fresh({}) EXCEPT !.assign = l])
        BY <1>8 DEF PLAddNode
    <2> QED  BY <2>1, FreshType, LabelsAssumption, DisturbNodeType
<1>9. CASE PLDeleteNode
    BY <1>9, DisturbNodeType DEF PLDeleteNode
<1>10. CASE AddPod
    <2>1. PICK p \in Pod, n \in Node \cup {None} :
            \E queued : DisturbPod("pod", p, [node |-> n, done |-> FALSE], queued)
        BY <1>10 DEF AddPod
    <2>2. [node |-> n, done |-> FALSE] \in PodObject
        BY DEF PodObject
    <2> QED  BY <2>1, <2>2, DisturbPodType
<1>11. CASE SchedulePod
    <2>1. PICK p \in Pod, n \in Node :
            podIndex[p] # None /\ \E queued : DisturbPod("pod", p, [podIndex[p] EXCEPT !.node = n], queued)
        BY <1>11 DEF SchedulePod
    <2>2. [podIndex[p] EXCEPT !.node = n] \in PodObject
        BY <1>1, <2>1 DEF PodObject
    <2> QED  BY <2>1, <2>2, DisturbPodType
<1>12. CASE CompletePod
    <2>1. PICK p \in Pod :
            podIndex[p] # None /\ DisturbPod("podDone", p, [podIndex[p] EXCEPT !.done = TRUE], FALSE)
        BY <1>12 DEF CompletePod
    <2>2. [podIndex[p] EXCEPT !.done = TRUE] \in PodObject
        BY <1>1, <2>1 DEF PodObject
    <2> QED  BY <2>1, <2>2, DisturbPodType
<1>13. CASE DeletePod
    <2>1. PICK p \in Pod : \E queued : DisturbPod("podGone", p, None, queued)
        BY <1>13 DEF DeletePod
    <2> QED  BY <2>1, DisturbPodType
<1> QED  BY <1>2, <1>3, <1>4, <1>5, <1>6, <1>7, <1>8, <1>9, <1>10, <1>11, <1>12, <1>13
         DEF Disturbed

LEMMA PLControllerStepType ==
    PLControllerInv /\ [PLControllerNext]_plAllVars => PLControllerInv'
<1> SUFFICES ASSUME PLControllerInv, [PLControllerNext]_plAllVars PROVE PLControllerInv'
    OBVIOUS
<1>1. CASE UNCHANGED plAllVars
    <2>1. PLTypeInv'
        BY <1>1, ElsewhereType DEF plAllVars, Elsewhere, PLControllerInv
    <2>2. QueueTypeOK'
        BY <1>1 DEF plAllVars, queueVars, QueueTypeOK, PLControllerInv
    <2> QED  BY <1>1, <2>1, <2>2 DEF plAllVars, ghostVars, PLControllerInv
<1> QED  BY <1>1, PLDeliverNagType, PLDeliverNodeType, PLWorkerType, DisturbedType
         DEF PLControllerNext

\* The type invariant.
THEOREM PLControllerTypeCorrect == PLControllerSpec => []PLControllerTypeOK
<1>1. PLControllerInv => PLControllerTypeOK
    BY PLTypeInvIsType DEF PLControllerInv, PLControllerTypeOK
<1> QED  BY <1>1, PLControllerInitType, PLControllerStepType, PTL DEF PLControllerSpec

-----------------------------------------------------------------------------
(* The taints of others. *)

\* Every copy of a node has the taints of others that the node has.
CopiesAgree ==
    /\ \A n \in Node : Agrees(plSeen[n], nodes[n]) /\ Agrees(nodeIndex[n], nodes[n])
    /\ \A i \in DOMAIN nodeWatch : Agrees(nodeWatch[i].obj, nodes[nodeWatch[i].node])

PLTaintInv == plClean => CopiesAgree

\* The watch agrees with the nodes after a step that keeps the taints.
LEMMA WatchAgrees ==
    ASSUME nodes \in NodeMap, nodes' \in NodeMap, WatchType, WatchNodes,
           \A n \in Node : nodes'[n] # None =>
               nodes[n] # None /\ NotPackLeft(nodes'[n]) = NotPackLeft(nodes[n]),
           \A i \in DOMAIN nodeWatch : Agrees(nodeWatch[i].obj, nodes[nodeWatch[i].node]),
           NEW i \in DOMAIN nodeWatch'
    PROVE  Agrees(nodeWatch'[i].obj, nodes'[nodeWatch'[i].node])
<1> DEFINE T == [node: Node, obj: NodeObject \cup {None}]
<1>1. nodeWatch \in Seq(T)
    BY DEF WatchType
<1>2. ASSUME NEW e \in T, Agrees(e.obj, nodes[e.node])
      PROVE  Agrees(e.obj, nodes'[e.node])
    BY <1>2 DEF Agrees
<1>3. \A j \in DOMAIN nodeWatch : nodeWatch[j] \in T
    <2> HIDE DEF T
    <2> QED  BY <1>1
<1>4. \A j \in DOMAIN nodeWatch : Agrees(nodeWatch[j].obj, nodes'[nodeWatch[j].node])
    BY <1>2, <1>3
<1>5. CASE nodeWatch' = nodeWatch
    BY <1>4, <1>5
<1>6. CASE \E n \in Node : nodeWatch' = Append(nodeWatch, [node |-> n, obj |-> nodes'[n]])
    <2>1. PICK n \in Node : nodeWatch' = Append(nodeWatch, [node |-> n, obj |-> nodes'[n]])
        BY <1>6
    <2> DEFINE e == [node |-> n, obj |-> nodes'[n]]
    <2>2. Agrees(e.obj, nodes'[e.node])
        BY DEF Agrees
    <2> HIDE DEF T, e
    <2>3. \/ i \in DOMAIN nodeWatch /\ nodeWatch'[i] = nodeWatch[i]
          \/ nodeWatch'[i] = e
        BY <1>1, <2>1 DEF e
    <2> QED  BY <1>4, <2>2, <2>3
<1> QED  BY <1>5, <1>6, WatchNodesFacts

LEMMA KeptByRun ==
    ASSUME WorldType, RunFrame, plClean, CopiesAgree
    PROVE  \A n \in Node : /\ nodes'[n] # None => nodes[n] # None
                           /\ nodes[n] # None =>
                                nodes'[n] # None /\ NotPackLeft(nodes'[n]) = NotPackLeft(nodes[n])
BY DEF RunFrame, OnlyPackLeft, KeepsTaints, CopiesAgree

\* A run passes on what it knows of the taints of others, or looks anew.
LEMMA RunKeepsAgreement ==
    ASSUME PLTypeInv, PLTaintInv, PLStepOK, WatchNodes
    PROVE  PLTaintInv'
<1> SUFFICES ASSUME plClean' PROVE CopiesAgree'
    BY DEF PLTaintInv
<1> USE DEF PLTypeInv, WorldType
<1>1. CASE plClean
    <2>1. CopiesAgree
        BY <1>1 DEF PLTaintInv
    <2>2. \A n \in Node : /\ nodes'[n] # None => nodes[n] # None
                          /\ nodes[n] # None =>
                               nodes'[n] # None /\ NotPackLeft(nodes'[n]) = NotPackLeft(nodes[n])
        BY <1>1, <2>1, KeptByRun DEF PLStepOK
    <2>3. ASSUME NEW i \in DOMAIN nodeWatch'
          PROVE  Agrees(nodeWatch'[i].obj, nodes'[nodeWatch'[i].node])
        BY <2>1, <2>2, WatchAgrees DEF PLStepOK, CopiesAgree
    <2>4. ASSUME NEW n \in Node
          PROVE  Agrees(nodeIndex'[n], nodes'[n]) /\ Agrees(plSeen'[n], nodes'[n])
        <3>1. Agrees(nodeIndex[n], nodes'[n]) /\ Agrees(plSeen[n], nodes'[n])
            BY <2>1, <2>2 DEF CopiesAgree, Agrees
        <3>2. Agrees(Gone[n], nodes'[n])
            BY DEF Gone, Agrees
        <3> QED  BY <3>1, <3>2 DEF PLStepOK, RunFrame
    <2> QED  BY <2>3, <2>4 DEF CopiesAgree
<1>2. CASE CachesCurrent /\ nodes' = nodes /\ plSeen' = nodeIndex
    <2>1. nodeIndex' = nodes' /\ plSeen' = nodes' /\ nodeWatch' = <<>>
        BY <1>2 DEF CachesCurrent, PLStepOK, RunFrame, WatchNodes
    <2> QED  BY <2>1 DEF CopiesAgree, Agrees
<1> QED  BY <1>1, <1>2 DEF PLStepOK, RunFrame

\* Deliveries move copies from the watch to the indexer.
LEMMA DeliveryKeepsAgreement ==
    ASSUME PLTypeInv, PLTaintInv, nodeWatch # <<>>, nodeWatch' = Tail(nodeWatch),
           nodeIndex' = [nodeIndex EXCEPT ![Head(nodeWatch).node] = Head(nodeWatch).obj],
           UNCHANGED <<nodes, plSeen, plClean>>
    PROVE  PLTaintInv'
<1> SUFFICES ASSUME plClean' PROVE CopiesAgree'
    BY DEF PLTaintInv
<1>1. CopiesAgree
    BY DEF PLTaintInv
<1> DEFINE T == [node: Node, obj: NodeObject \cup {None}]
<1>2. nodeWatch \in Seq(T) /\ nodeIndex \in NodeMap
    BY DEF PLTypeInv, WatchType, WorldType
<1> HIDE DEF T
<1>3. 1 \in DOMAIN nodeWatch /\ Head(nodeWatch) = nodeWatch[1]
    BY <1>2
<1>4. \A i \in DOMAIN nodeWatch' : i + 1 \in DOMAIN nodeWatch /\ nodeWatch'[i] = nodeWatch[i + 1]
    BY <1>2
<1>5. \A n \in Node : nodeIndex'[n] = IF n = nodeWatch[1].node THEN nodeWatch[1].obj
                                                                ELSE nodeIndex[n]
    BY <1>2, <1>3 DEF NodeMap
<1>6. \A n \in Node : Agrees(nodeIndex'[n], nodes[n])
    BY <1>1, <1>3, <1>5 DEF CopiesAgree
<1>7. \A i \in DOMAIN nodeWatch' : Agrees(nodeWatch'[i].obj, nodes[nodeWatch'[i].node])
    BY <1>1, <1>4 DEF CopiesAgree
<1> QED  BY <1>1, <1>6, <1>7 DEF CopiesAgree

LEMMA PLTaintStep ==
    PLControllerInv /\ PLTaintInv /\ [PLControllerNext]_plAllVars => PLTaintInv'
<1> SUFFICES ASSUME PLControllerInv, PLTaintInv, [PLControllerNext]_plAllVars PROVE PLTaintInv'
    OBVIOUS
<1>1. ASSUME UNCHANGED <<nodes, nodeIndex, nodeWatch, plSeen, plClean>> PROVE PLTaintInv'
    BY <1>1 DEF PLTaintInv, CopiesAgree
<1> USE DEF clusterVars, plVars, plLoopVars, apiVars, cacheVars, plCacheVars
<1>2. CASE PLDeliverNag
    BY <1>1, <1>2 DEF PLDeliverNag
<1>3. CASE PLDeliverNode
    BY <1>3, DeliveryKeepsAgreement DEF PLDeliverNode, PLControllerInv
<1>4. CASE PLRetryDue \/ PLDequeue \/ PLLookupAbsent \/ PLRunReturns \/ PLFinishItem
    BY <1>1, <1>4 DEF PLRetryDue, PLDequeue, PLLookupAbsent, PLRunReturns, PLFinishItem
<1>5. CASE PLLookupFound
    BY <1>5 DEF PLLookupFound, PLStart, PLTaintInv
<1>6. CASE PLRunStep
    BY <1>6, PLRunStepOK, RunKeepsAgreement DEF PLRunStep, PLControllerInv, PLTypeInv
<1>7. CASE Disturbed
    BY <1>7, DisturbedType DEF PLTaintInv
<1>8. CASE UNCHANGED plAllVars
    BY <1>1, <1>8 DEF plAllVars
<1> QED  BY <1>2, <1>3, <1>4, <1>5, <1>6, <1>7, <1>8 DEF PLControllerNext, PLWorkerNext

\* While the copies of a run are current it neither drops nor restores a
\* taint of anybody else.
THEOREM PackLeftKeepsTaints == PLControllerSpec => OtherTaintsSurvive
<1> DEFINE Kept == \A n \in Node :
                nodes[n] # None => NotPackLeft(nodes'[n]) = NotPackLeft(nodes[n])
<1>1. PLControllerInit => PLTaintInv
    BY DEF PLControllerInit, PLInit, PLTaintInv
<1>2. PLControllerInv /\ PLTaintInv /\ [PLControllerNext]_plAllVars /\ plClean /\ plClean' => Kept
    <2> SUFFICES ASSUME PLControllerInv, PLTaintInv, [PLControllerNext]_plAllVars, plClean, plClean'
                 PROVE  Kept
        OBVIOUS
    <2>1. CASE PLRunStep
        <3>1. WorldType /\ RunFrame
            BY <2>1, PLRunStepOK DEF PLRunStep, PLControllerInv, PLTypeInv, PLStepOK
        <3> QED  BY <3>1, KeptByRun DEF PLTaintInv
    <2>2. CASE nodes' = nodes
        BY <2>2
    <2>3. CASE Disturbed
        BY <2>3, DisturbedType
    <2> QED  BY <2>1, <2>2, <2>3
             DEF PLControllerNext, PLWorkerNext, PLDeliverNag, PLDeliverNode, PLRetryDue,
                 PLDequeue, PLLookupFound, PLStart, PLLookupAbsent, PLRunReturns, PLFinishItem,
                 plAllVars, clusterVars, apiVars
<1>3. PLControllerInv /\ PLTaintInv /\ [PLControllerNext]_plAllVars
        => [plClean /\ plClean'
              => \A n \in Node :
                     nodes[n] # None => NotPackLeft(nodes'[n]) = NotPackLeft(nodes[n])]_<<nodes, plClean>>
    BY <1>2
<1> HIDE DEF Kept
<1> QED  BY <1>1, <1>3, PLControllerInitType, PLControllerStepType, PLTaintStep, PTL
         DEF PLControllerSpec, OtherTaintsSurvive

-----------------------------------------------------------------------------
(* Numbers and sums. *)

LEMMA LeastMember ==
    ASSUME NEW T \in SUBSET Nat, T # {}
    PROVE  \E n \in T : \A m \in T : n <= m
<1>1. IsWellFoundedOn(OpToRel(<, Nat), Nat)
    BY NatLessThanWellFounded
<1>2. PICK n \in T : \A m \in T : ~(<<m, n>> \in OpToRel(<, Nat))
    BY <1>1, WFMin
<1>3. \A m \in T : ~(m < n)
    BY <1>2 DEF OpToRel
<1> QED  BY <1>3

\* The set is that of the numbers that satisfy a claim.
LEMMA SetInduction ==
    ASSUME NEW S \in SUBSET Nat, 0 \in S, \A n \in S : n + 1 \in S
    PROVE  S = Nat
<1> SUFFICES ASSUME Nat \ S # {} PROVE FALSE
    OBVIOUS
<1>1. PICK n \in Nat \ S : \A m \in Nat \ S : n <= m
    BY LeastMember
<1>2. n # 0 /\ n - 1 \in Nat /\ ~(n <= n - 1)
    BY <1>1
<1>3. n - 1 \in S
    BY <1>1, <1>2
<1> QED  BY <1>1, <1>2, <1>3

\* A function that adds v over the subsets of D with up to k elements, one
\* element after the other.
Sums(f, v, D, k) ==
    LET small == {s \in SUBSET D : Cardinality(s) <= k}
    IN  /\ f \in [small -> Nat]
        /\ \A s \in small :
            f[s] = IF s = {} THEN 0
                   ELSE v[CHOOSE x \in s : TRUE] + f[s \ {CHOOSE x \in s : TRUE}]

LEMMA SumsExist ==
    ASSUME NEW D, IsFiniteSet(D), NEW v \in [D -> Nat], NEW k \in Nat
    PROVE  \E f : Sums(f, v, D, k)
<1> DEFINE Good == {j \in Nat : \E f : Sums(f, v, D, j)}
           small(j) == {s \in SUBSET D : Cardinality(s) <= j}
           rest(s) == s \ {CHOOSE x \in s : TRUE}
<1>1. \A s \in SUBSET D : /\ IsFiniteSet(s) /\ Cardinality(s) \in Nat
                          /\ Cardinality(s) = 0 <=> s = {}
    BY FS_Subset, FS_CardinalityType, FS_EmptySet
<1>2. \A s \in SUBSET D : s # {} =>
          /\ (CHOOSE x \in s : TRUE) \in s
          /\ rest(s) \in SUBSET D /\ Cardinality(rest(s)) = Cardinality(s) - 1
    <2> SUFFICES ASSUME NEW s \in SUBSET D, s # {}
                 PROVE  /\ (CHOOSE x \in s : TRUE) \in s
                        /\ rest(s) \in SUBSET D /\ Cardinality(rest(s)) = Cardinality(s) - 1
        OBVIOUS
    <2>1. (CHOOSE x \in s : TRUE) \in s
        OBVIOUS
    <2> QED  BY <1>1, <2>1, FS_RemoveElement
<1>3. 0 \in Good
    <2> DEFINE f == [s \in small(0) |-> 0]
    <2>1. \A s \in small(0) : s = {}
        BY <1>1
    <2>2. Sums(f, v, D, 0)
        BY <2>1 DEF Sums
    <2> QED  BY <2>2
<1>4. ASSUME NEW j \in Good PROVE j + 1 \in Good
    <2>1. PICK f : Sums(f, v, D, j)
        OBVIOUS
    <2> DEFINE g == [s \in small(j + 1) |->
                        IF s = {} THEN 0 ELSE v[CHOOSE x \in s : TRUE] + f[rest(s)]]
    <2>2. j \in Nat /\ f \in [small(j) -> Nat]
        BY <2>1 DEF Sums
    <2>3. \A s \in small(j + 1) : s # {} => rest(s) \in small(j)
        BY <1>1, <1>2, <2>2
    <2>4. g \in [small(j + 1) -> Nat]
        BY <1>2, <2>2, <2>3
    <2>5. \A s \in small(j) : s \in small(j + 1) /\ g[s] = f[s]
        <3>1. \A s \in small(j) : s \in small(j + 1)
            BY <1>1, <2>2
        <3> QED  BY <2>1, <3>1 DEF Sums
    <2>6. \A s \in small(j + 1) :
              g[s] = IF s = {} THEN 0 ELSE v[CHOOSE x \in s : TRUE] + g[rest(s)]
        <3>1. ASSUME NEW s \in small(j + 1), s # {}
              PROVE  g[s] = v[CHOOSE x \in s : TRUE] + g[rest(s)]
            <4>1. rest(s) \in small(j)
                BY <2>3, <3>1
            <4>2. g[rest(s)] = f[rest(s)]
                BY <2>5, <4>1
            <4>3. g[s] = v[CHOOSE x \in s : TRUE] + f[rest(s)]
                BY <3>1
            <4> QED  BY <4>2, <4>3
        <3>2. ASSUME NEW s \in small(j + 1), s = {} PROVE g[s] = 0
            BY <3>2
        <3> HIDE DEF g, small, rest
        <3> QED  BY <3>1, <3>2
    <2> HIDE DEF g
    <2>7. Sums(g, v, D, j + 1)
        BY <2>4, <2>6 DEF Sums
    <2> QED  BY <2>2, <2>7
<1>5. Good \in SUBSET Nat
    OBVIOUS
<1>6. k \in Good
    <2> HIDE DEF Good
    <2> QED  BY <1>3, <1>4, <1>5, SetInduction
<1> QED  BY <1>6

\* What the pods of a node request is a number.
LEMMA RequestedNat ==
    ASSUME NEW n \in Node, NEW r \in Resource
    PROVE  Requested(n, r) \in Nat
<1> DEFINE S == {p \in Pod : podIndex[p] # None /\ podIndex[p].node = n /\ ~podIndex[p].done}
           first(s) == CHOOSE x \in s : TRUE
           v == [p \in S |-> Request[p][r]]
           Solves(f) == f = [s \in SUBSET S |->
                               IF s = {} THEN 0 ELSE Request[first(s)][r] + f[s \ {first(s)}]]
           g == CHOOSE f : Solves(f)
<1>1. Requested(n, r) = g[S]
    BY DEF Requested, MapThenSumSet, MapThenFoldSet
<1>2. IsFiniteSet(S) /\ S \subseteq Pod
    BY PodAssumption, FS_Subset
<1>3. v \in [S -> Nat] /\ \A p \in S : v[p] = Request[p][r]
    BY <1>2, RequestAssumption
<1>4. \A s \in SUBSET S : s # {} => first(s) \in s
    OBVIOUS
<1> HIDE DEF S, first, v
<1>5. \A s \in SUBSET S : /\ Cardinality(s) \in Nat /\ Cardinality(s) <= Cardinality(S)
                          /\ Cardinality(s) = 0 <=> s = {}
                          /\ s # {} => Cardinality(s \ {first(s)}) = Cardinality(s) - 1
    BY <1>2, <1>4, FS_Subset, FS_CardinalityType, FS_EmptySet, FS_RemoveElement
<1>6. PICK f : Sums(f, v, S, Cardinality(S))
    BY <1>2, <1>3, <1>5, SumsExist
<1>7. Solves(f)
    <2>1. {s \in SUBSET S : Cardinality(s) <= Cardinality(S)} = SUBSET S
        BY <1>5
    <2>2. f \in [SUBSET S -> Nat]
        BY <1>6, <2>1 DEF Sums
    <2>3. \A s \in SUBSET S : f[s] = IF s = {} THEN 0 ELSE v[first(s)] + f[s \ {first(s)}]
        BY <1>6, <2>1 DEF Sums, first
    <2>4. \A s \in SUBSET S : s # {} => v[first(s)] = Request[first(s)][r]
        BY <1>3, <1>4
    <2>5. \A s \in SUBSET S :
            f[s] = IF s = {} THEN 0 ELSE Request[first(s)][r] + f[s \ {first(s)}]
        BY <2>3, <2>4
    <2> QED  BY <2>2, <2>5
<1>8. Solves(g)
    <2> HIDE DEF Solves
    <2> QED  BY <1>7
<1> HIDE DEF g
<1> DEFINE Good == {k \in Nat : \A s \in SUBSET S : Cardinality(s) <= k => g[s] \in Nat}
<1>9. \A s \in SUBSET S : g[s] = IF s = {} THEN 0 ELSE Request[first(s)][r] + g[s \ {first(s)}]
    BY <1>8
<1>10. 0 \in Good
    <2> SUFFICES ASSUME NEW s \in SUBSET S, Cardinality(s) <= 0 PROVE g[s] \in Nat
        OBVIOUS
    <2>1. s = {}
        <3>1. Cardinality(s) \in Nat /\ (Cardinality(s) = 0 <=> s = {})
            BY <1>5
        <3> QED  BY <3>1
    <2>2. g[{}] = 0
        BY <1>9
    <2> QED  BY <2>1, <2>2
<1>11. ASSUME NEW k \in Good PROVE k + 1 \in Good
    <2> SUFFICES ASSUME NEW s \in SUBSET S, Cardinality(s) <= k + 1, s # {}
                 PROVE  g[s] \in Nat
        BY <1>9
    <2>1. g[s \ {first(s)}] \in Nat
        BY <1>5
    <2>2. Request[first(s)][r] \in Nat
        BY <1>3, <1>4
    <2>3. g[s] = Request[first(s)][r] + g[s \ {first(s)}]
        BY <1>9
    <2> QED  BY <2>1, <2>2, <2>3
<1>12. Cardinality(S) \in Good
    <2>1. Good \in SUBSET Nat /\ Cardinality(S) \in Nat
        BY <1>5
    <2> HIDE DEF Good
    <2> QED  BY <1>10, <1>11, <2>1, SetInduction
<1> QED  BY <1>1, <1>5, <1>12

\* How full a node is is a fraction.
Fraction == Nat \X (Nat \ {0})

LEMMA PercentFullFraction ==
    ASSUME NEW n \in Node
    PROVE  PercentFull(n) \in Fraction
<1>1. "mem" \in Resource /\ "cpu" \in Resource
    BY DEF Resource
<1>2. Requested(n, "mem") \in Nat /\ Requested(n, "cpu") \in Nat
    BY <1>1, RequestedNat
<1>3. Allocatable[n]["mem"] \in Nat \ {0} /\ Allocatable[n]["cpu"] \in Nat \ {0}
    BY <1>1, AllocatableAssumption
<1> QED  BY <1>2, <1>3 DEF PercentFull, Fraction

LEMMA TimesMonotone ==
    ASSUME NEW a \in Nat, NEW b \in Nat, NEW c \in Nat \ {0}
    PROVE  a <= b <=> a * c <= b * c
OBVIOUS

\* Fractions are ordered.
LEMMA ExceedsTransitive ==
    ASSUME NEW f \in Fraction, NEW g \in Fraction, NEW h \in Fraction,
           ~Exceeds(g, f), ~Exceeds(h, g)
    PROVE  ~Exceeds(h, f)
<1> DEFINE a == f[1]  b == f[2]  c == g[1]  d == g[2]  e == h[1]  k == h[2]
<1>1. /\ a \in Nat /\ b \in Nat \ {0} /\ c \in Nat /\ d \in Nat \ {0}
      /\ e \in Nat /\ k \in Nat \ {0}
    BY DEF Fraction
<1>2. c * b <= a * d /\ e * d <= c * k
    <2> HIDE DEF a, b, c, d, e, k
    <2>1. c * b \in Nat /\ a * d \in Nat /\ e * d \in Nat /\ c * k \in Nat
        BY <1>1
    <2> QED  BY <2>1 DEF Exceeds, a, b, c, d, e, k
<1> SUFFICES e * b <= a * k
    <2>1. e * b \in Nat /\ a * k \in Nat
        BY <1>1
    <2> QED  BY <2>1 DEF Exceeds
<1> HIDE DEF a, b, c, d, e, k
<1>3. (c * b) * k <= (a * d) * k
    BY <1>1, <1>2, TimesMonotone
<1>4. (e * d) * b <= (c * k) * b
    BY <1>1, <1>2, TimesMonotone
<1>5. (c * b) * k = (c * k) * b /\ (e * d) * b = (e * b) * d /\ (a * d) * k = (a * k) * d
    BY <1>1
<1>6. (e * b) * d <= (a * k) * d
    <2>1. /\ (c * b) * k \in Nat /\ (a * d) * k \in Nat /\ (e * d) * b \in Nat
        BY <1>1
    <2> QED  BY <1>3, <1>4, <1>5, <2>1
<1> QED  BY <1>1, <1>6, TimesMonotone

-----------------------------------------------------------------------------
(* A sequence of nodes, fullest first, and the states given out along it.  *)
(* `load' says how full a node is, `limit' from where on it is full.       *)

Ranked(load, S) ==
    {s \in SetToSeqs(S) : \A i, j \in DOMAIN s : i < j => ~Exceeds(load[s[j]], load[s[i]])}

Room(load, limit, n) == ~Exceeds(load[n], limit)

\* The nodes before the i-th that take up the buffer.
Buffered(load, limit, s, i) == {j \in 2..(i - 1) : Room(load, limit, s[j])}

Place(load, limit, buffer, s, i) ==
    IF i = 1 \/ ~Room(load, limit, s[i])
      THEN "Use"
      ELSE IF Cardinality(Buffered(load, limit, s, i)) < buffer THEN "Avoid" ELSE "Deny"

Having(S, state, x) == {n \in S : state[n] = x}

\* What BalancedAssignment says of the states.
LeftPacked(load, limit, buffer, S, state) ==
    LET use == Having(S, state, "Use")
        avoid == Having(S, state, "Avoid")
        deny == Having(S, state, "Deny")
    IN  /\ use # {}
        /\ S = use \cup avoid \cup deny
        /\ \A m \in use, n \in avoid \cup deny :
              ~Exceeds(load[n], load[m]) /\ Room(load, limit, n)
        /\ \A m \in avoid, n \in deny : ~Exceeds(load[n], load[m])
        /\ Cardinality({n \in use : Room(load, limit, n)}) <= 1
        /\ IF deny = {} THEN Cardinality(avoid) <= buffer ELSE Cardinality(avoid) = buffer

\* The members of a finite set in a sequence, each once.
LEMMA SeqsOfBijection ==
    ASSUME NEW S, IsFiniteSet(S), NEW s \in SetToSeqs(S)
    PROVE  /\ DOMAIN s = 1..Cardinality(S) /\ Cardinality(S) \in Nat
           /\ \A i \in DOMAIN s : s[i] \in S
           /\ \A n \in S : \E i \in DOMAIN s : s[i] = n
           /\ \A i, j \in DOMAIN s : s[i] = s[j] => i = j
<1> DEFINE D == 1..Cardinality(S)
<1>1. Cardinality(S) \in Nat
    BY FS_CardinalityType
<1>2. IsFiniteSet(D) /\ Cardinality(D) = Cardinality(S)
    BY <1>1, FS_Interval
<1>3. s \in [D -> S] /\ \A i, j \in D : i # j => s[i] # s[j]
    BY DEF SetToSeqs
<1> HIDE DEF D
<1>4. s \in Injection(D, S)
    BY <1>3 DEF Injection, IsInjective
<1>5. s \in Surjection(D, S)
    BY <1>2, <1>4, FS_Injection
<1> QED  BY <1>1, <1>3, <1>5 DEF Surjection, D

LEMMA ExceedsAsymmetric ==
    ASSUME NEW f \in Fraction, NEW g \in Fraction, Exceeds(f, g)
    PROVE  ~Exceeds(g, f)
<1> DEFINE a == f[1]  b == f[2]  c == g[1]  d == g[2]
<1>1. a \in Nat /\ b \in Nat /\ c \in Nat /\ d \in Nat
    BY DEF Fraction
<1>2. a * d > c * b
    BY DEF Exceeds
<1> HIDE DEF a, b, c, d
<1>3. a * d \in Nat /\ c * b \in Nat
    BY <1>1
<1>4. ~(c * b > a * d)
    BY <1>2, <1>3
<1> QED  BY <1>4 DEF Exceeds, a, b, c, d

\* As many nodes as places.
LEMMA NodesAt ==
    ASSUME NEW S, IsFiniteSet(S), NEW s \in SetToSeqs(S), NEW J \in SUBSET DOMAIN s
    PROVE  /\ IsFiniteSet(J) /\ IsFiniteSet({s[j] : j \in J})
           /\ Cardinality({s[j] : j \in J}) = Cardinality(J)
<1> DEFINE T == {s[j] : j \in J}
           f == [j \in J |-> s[j]]
<1>1. DOMAIN s = 1..Cardinality(S) /\ Cardinality(S) \in Nat
    BY SeqsOfBijection
<1>2. \A i, j \in DOMAIN s : s[i] = s[j] => i = j
    BY SeqsOfBijection
<1>3. IsFiniteSet(J)
    <2>1. IsFiniteSet(1..Cardinality(S))
        BY <1>1, FS_Interval
    <2> QED  BY <1>1, <2>1, FS_Subset
<1>4. f \in Surjection(J, T)
    BY DEF Surjection
<1>5. f \in Injection(J, T)
    BY <1>2 DEF Injection, IsInjective
<1> HIDE DEF f, T
<1>6. IsFiniteSet(T) /\ Cardinality(T) = Cardinality(J)
    BY <1>3, <1>4, <1>5, FS_Surjection
<1> QED  BY <1>3, <1>6 DEF T

\* States that are given out along the sequence pack the nodes to the left.
LEMMA PlacedIsPacked ==
    ASSUME NEW S \in SUBSET Node, S # {}, NEW load \in [Node -> Fraction], NEW limit \in Fraction,
           NEW buffer \in Nat, NEW s \in Ranked(load, S), NEW state,
           \A i \in DOMAIN s : state[s[i]] = Place(load, limit, buffer, s, i)
    PROVE  LeftPacked(load, limit, buffer, S, state)
<1> DEFINE use == Having(S, state, "Use")
           avoid == Having(S, state, "Avoid")
           deny == Having(S, state, "Deny")
           before(i) == Buffered(load, limit, s, i)
           P(i) == Place(load, limit, buffer, s, i)
           N == Cardinality(S)
           At(x) == {i \in DOMAIN s : P(i) = x}
<1>1. IsFiniteSet(S) /\ s \in SetToSeqs(S)
    BY NodeAssumption, FS_Subset DEF Ranked
<1>2. /\ DOMAIN s = 1..N /\ N \in Nat
      /\ \A i \in DOMAIN s : s[i] \in S
      /\ \A n \in S : \E i \in DOMAIN s : s[i] = n
      /\ \A i, j \in DOMAIN s : s[i] = s[j] => i = j
    BY <1>1, SeqsOfBijection
<1>3. N >= 1 /\ 1 \in DOMAIN s
    BY <1>1, <1>2, FS_EmptySet
<1>4. \A i, j \in DOMAIN s : i < j => ~Exceeds(load[s[j]], load[s[i]])
    BY DEF Ranked
<1>5. \A i \in DOMAIN s : load[s[i]] \in Fraction
    BY <1>2
<1>6. \A i \in DOMAIN s :
        /\ P(i) \in {"Use", "Avoid", "Deny"}
        /\ P(i) = "Use" => i = 1 \/ ~Room(load, limit, s[i])
        /\ P(i) \in {"Avoid", "Deny"} => i # 1 /\ Room(load, limit, s[i])
        /\ P(i) = "Avoid" => Cardinality(before(i)) < buffer
        /\ P(i) = "Deny" => ~(Cardinality(before(i)) < buffer)
    BY DEF Place
<1>7. P(1) = "Use"
    BY DEF Place
<1>8. \A i \in DOMAIN s : /\ IsFiniteSet(before(i)) /\ Cardinality(before(i)) \in Nat
                          /\ before(i) \subseteq DOMAIN s
    <2> SUFFICES ASSUME NEW i \in DOMAIN s
                 PROVE  /\ IsFiniteSet(before(i)) /\ Cardinality(before(i)) \in Nat
                        /\ before(i) \subseteq DOMAIN s
        OBVIOUS
    <2>1. before(i) \subseteq DOMAIN s
        BY <1>2 DEF Buffered
    <2>2. IsFiniteSet(before(i))
        BY <1>1, <2>1, NodesAt
    <2> QED  BY <2>1, <2>2, FS_CardinalityType
<1>9. \A i, j \in DOMAIN s : i <= j => Cardinality(before(i)) <= Cardinality(before(j))
    <2> SUFFICES ASSUME NEW i \in DOMAIN s, NEW j \in DOMAIN s, i <= j
                 PROVE  Cardinality(before(i)) <= Cardinality(before(j))
        OBVIOUS
    <2>1. before(i) \subseteq before(j)
        BY <1>2 DEF Buffered
    <2> QED  BY <1>8, <2>1, FS_Subset
<1>10. /\ use = {s[i] : i \in At("Use")}
       /\ avoid = {s[i] : i \in At("Avoid")}
       /\ deny = {s[i] : i \in At("Deny")}
    BY <1>2 DEF Having
<1> HIDE DEF before, P, N, use, avoid, deny
<1>11. use # {}
    BY <1>3, <1>7, <1>10
<1>12. S = use \cup avoid \cup deny
    BY <1>2, <1>6, <1>10
<1>13. ASSUME NEW m \in use, NEW n \in avoid \cup deny
       PROVE  ~Exceeds(load[n], load[m]) /\ Room(load, limit, n)
    <2>1. PICK i \in DOMAIN s : m = s[i] /\ P(i) = "Use"
        BY <1>10
    <2>2. PICK j \in DOMAIN s : n = s[j] /\ P(j) \in {"Avoid", "Deny"}
        BY <1>10
    <2>3. j # 1 /\ Room(load, limit, n)
        BY <1>6, <2>2
    <2>4. CASE i = 1
        <3>1. i < j
            BY <1>2, <2>3, <2>4
        <3> QED  BY <1>4, <2>1, <2>2, <2>3, <3>1
    <2>5. CASE ~Room(load, limit, m)
        <3>1. Exceeds(load[m], limit) /\ ~Exceeds(load[n], limit)
            BY <2>3, <2>5 DEF Room
        <3>2. load[m] \in Fraction /\ load[n] \in Fraction
            BY <1>5, <2>1, <2>2
        <3>3. ~Exceeds(limit, load[m])
            BY <3>1, <3>2, ExceedsAsymmetric
        <3>4. ~Exceeds(load[n], load[m])
            BY <3>1, <3>2, <3>3, ExceedsTransitive
        <3> QED  BY <2>3, <3>4
    <2> QED  BY <1>6, <2>1, <2>4, <2>5
<1>14. ASSUME NEW m \in avoid, NEW n \in deny
       PROVE  ~Exceeds(load[n], load[m])
    <2>1. PICK i \in DOMAIN s : m = s[i] /\ P(i) = "Avoid"
        BY <1>10
    <2>2. PICK j \in DOMAIN s : n = s[j] /\ P(j) = "Deny"
        BY <1>10
    <2>3. ~(j <= i)
        BY <1>6, <1>8, <1>9, <2>1, <2>2
    <2>4. i < j
        BY <1>2, <2>3
    <2> QED  BY <1>4, <2>1, <2>2, <2>4
<1>15. Cardinality({n \in use : Room(load, limit, n)}) <= 1
    <2> DEFINE R == {n \in use : Room(load, limit, n)}
    <2>1. R \subseteq {s[1]}
        BY <1>6, <1>10
    <2>2. IsFiniteSet({s[1]}) /\ Cardinality({s[1]}) = 1
        BY FS_Singleton
    <2> QED  BY <2>1, <2>2, FS_Subset
<1>16. /\ Cardinality(avoid) = Cardinality(At("Avoid")) /\ IsFiniteSet(At("Avoid"))
       /\ Cardinality(At("Avoid")) \in Nat
    <2>1. At("Avoid") \subseteq DOMAIN s
        OBVIOUS
    <2> QED  BY <1>1, <1>10, <2>1, NodesAt, FS_CardinalityType
<1>17. Cardinality(At("Avoid")) <= buffer
    <2> DEFINE A == At("Avoid")
    <2>1. CASE A = {}
        BY <2>1, FS_EmptySet
    <2>2. CASE A # {}
        <3>1. PICK k \in A : \A i \in A : i <= k
            <4> DEFINE U == {N - i : i \in A}
            <4>1. U \in SUBSET Nat /\ U # {}
                BY <1>2, <2>2
            <4>2. PICK u \in U : \A w \in U : u <= w
                BY <4>1, LeastMember
            <4>3. PICK k \in A : u = N - k
                BY <4>2
            <4>4. \A i \in A : N - k <= N - i
                BY <4>2, <4>3
            <4>5. \A i \in A : i <= k
                BY <1>2, <4>4
            <4> QED  BY <4>5
        <3> DEFINE B == before(k)
        <3>2. A \subseteq B \cup {k}
            <4> SUFFICES ASSUME NEW i \in A, i # k PROVE i \in B
                OBVIOUS
            <4>1. i # 1 /\ Room(load, limit, s[i]) /\ i <= k
                BY <1>6, <3>1
            <4>2. i \in 2..(k - 1)
                BY <1>2, <4>1
            <4> QED  BY <4>1, <4>2 DEF before, Buffered
        <3>3. Cardinality(B) < buffer /\ Cardinality(B) \in Nat /\ IsFiniteSet(B)
            BY <1>6, <1>8
        <3>4. Cardinality(A) \in Nat
            BY <1>16
        <3> HIDE DEF A, B
        <3>5. /\ IsFiniteSet(B \cup {k})
              /\ Cardinality(B \cup {k}) = IF k \in B THEN Cardinality(B) ELSE Cardinality(B) + 1
            BY <3>3, FS_AddElement
        <3>6. Cardinality(B \cup {k}) \in Nat /\ Cardinality(B \cup {k}) <= buffer
            BY <3>3, <3>5
        <3>7. Cardinality(A) <= Cardinality(B \cup {k})
            BY <3>2, <3>5, FS_Subset
        <3> QED  BY <3>4, <3>6, <3>7 DEF A
    <2> QED  BY <2>1, <2>2
<1>18. ASSUME deny # {} PROVE Cardinality(At("Avoid")) >= buffer
    <2>1. At("Deny") \in SUBSET Nat /\ At("Deny") # {}
        BY <1>2, <1>10, <1>18
    <2>2. PICK k \in At("Deny") : \A i \in At("Deny") : k <= i
        BY <2>1, LeastMember
    <2>3. before(k) \subseteq At("Avoid")
        <3> SUFFICES ASSUME NEW i \in before(k) PROVE P(i) = "Avoid"
            BY <1>8
        <3>1. i \in DOMAIN s /\ i # 1 /\ i < k /\ Room(load, limit, s[i])
            BY <1>2 DEF before, Buffered
        <3>2. P(i) # "Use"
            BY <1>6, <3>1
        <3>3. P(i) # "Deny"
            BY <1>2, <2>2, <3>1
        <3> QED  BY <1>6, <3>1, <3>2, <3>3
    <2>4. Cardinality(before(k)) >= buffer /\ Cardinality(before(k)) \in Nat
        BY <1>6, <1>8
    <2>5. Cardinality(before(k)) <= Cardinality(At("Avoid"))
        BY <1>16, <2>3, FS_Subset
    <2> QED  BY <1>16, <2>4, <2>5
<1>19. IF deny = {} THEN Cardinality(avoid) <= buffer ELSE Cardinality(avoid) = buffer
    BY <1>16, <1>17, <1>18
<1> QED  BY <1>11, <1>12, <1>13, <1>14, <1>15, <1>19 DEF LeftPacked, use, avoid, deny

-----------------------------------------------------------------------------
(* What a fresh run has done so far.  The operators take the state as      *)
(* parameters: `map' for nodes, `pods' for podIndex, `rest' for plan.      *)

Total(r, S) == MapThenSumSet(LAMBDA p : Request[p][r], S)

RunningOn(pods, n) == {p \in Pod : pods[p] # None /\ pods[p].node = n /\ ~pods[p].done}

LoadOf(pods) ==
    [n \in Node |->
        LET mem == <<Total("mem", RunningOn(pods, n)), Allocatable[n]["mem"]>>
            cpu == <<Total("cpu", RunningOn(pods, n)), Allocatable[n]["cpu"]>>
        IN  IF Exceeds(mem, cpu) THEN mem ELSE cpu]

LimitOf(a) ==
    <<IF a.packLeft = None \/ a.packLeft.fullPercent = None
        THEN DefaultFullPercent ELSE a.packLeft.fullPercent, 100>>

\* The nodes of an assignment that can be balanced, and the buffer it has.
Balanceable(map, spec, name) == {n \in PackLeftNodes(spec, map, name) : map[n].ready}

BufferOf(map, spec, name) ==
    AvoidBufferSize(AssignmentByName(spec, name), Cardinality(PackLeftNodes(spec, map, name)))

PackLeftTaints(node) == {t \in node.taints : t.key = "packleft"}

\* BalancedAssignment.
GroupPacked(load, map, spec, name) ==
    LET S == Balanceable(map, spec, name) IN
    S # {} => /\ LeftPacked(load, LimitOf(AssignmentByName(spec, name)), BufferOf(map, spec, name),
                            S, [n \in S |-> map[n].packleft])
              /\ \A n \in S : PackLeftTaints(map[n]) = StateTaint(map[n].packleft)

\* What node s[i] will be when balanceNodes is through with the sequence s.
Planned(load, seen, spec, name, s, i) ==
    SetState(seen[s[i]],
             Place(load, LimitOf(AssignmentByName(spec, name)), BufferOf(seen, spec, name), s, i))

\* Node n will be x when the rest of the plan is sent.
Becomes(map, rest, n, x) ==
    /\ \A k \in DOMAIN rest : rest[k].node = n => rest[k].new = x
    /\ (\A k \in DOMAIN rest : rest[k].node # n) => map[n] = x

GroupPlanned(load, seen, map, rest, spec, name) ==
    LET S == Balanceable(seen, spec, name) IN
    S # {} => \E s \in Ranked(load, S) :
                \A i \in DOMAIN s : Becomes(map, rest, s[i], Planned(load, seen, spec, name, s, i))

SameShape(x, y) ==
    /\ x = None <=> y = None
    /\ x # None => x.labels = y.labels /\ x.assign = y.assign /\ x.ready = y.ready

\* Every copy has the labels and the readiness that the node has.
Shapes ==
    /\ \A n \in Node : SameShape(nodeIndex[n], nodes[n])
    /\ plPc # "done" => \A n \in Node : SameShape(plSeen[n], nodes[n])
    /\ \A i \in DOMAIN nodeWatch : SameShape(nodeWatch[i].obj, nodes[nodeWatch[i].node])

\* The run has not come to node n.
Untouched(n) ==
    /\ nodes[n] = plSeen[n] /\ nodeIndex[n] = plSeen[n]
    /\ \A i \in DOMAIN nodeWatch : nodeWatch[i].node # n

\* balanceNodes has been called for the assignment of node n.
Reached(spec, seen, groups, n) ==
    \E name \in AName \ groups : n \in PackLeftNodes(spec, seen, name)

Once(rest) == \A k, l \in DOMAIN rest : rest[k].node = rest[l].node => k = l

Balancing ==
    /\ \A name \in AName \ plGroups :
          GroupPlanned(LoadOf(podIndex), plSeen, nodes, plan, plNag.spec, name)
    /\ \A n \in Node : Untouched(n) \/ Reached(plNag.spec, plSeen, plGroups, n)
    /\ Once(plan)
    /\ \A k \in DOMAIN plan :
          /\ nodes[plan[k].node] = plSeen[plan[k].node]
          /\ \E state \in PackLeftState : plan[k].new = SetState(plSeen[plan[k].node], state)
          /\ Reached(plNag.spec, plSeen, plGroups, plan[k].node)

AllPacked(spec) == \A name \in AName : GroupPacked(LoadOf(podIndex), nodes, spec, name)

Cleaning ==
    /\ AllPacked(plNag.spec)
    /\ Once(plan)
    /\ \A k \in DOMAIN plan :
          /\ nodes[plan[k].node] = plSeen[plan[k].node]
          /\ plan[k].new = ClearPackLeft(plSeen[plan[k].node])
          /\ ~HasPackLeftAssignment(plNag.spec, nodes[plan[k].node])
    /\ \A n \in Node : \/ nodes[n] = None \/ ~Leftover(plNag.spec, nodes[n])
                       \/ \E k \in DOMAIN plan : plan[k].node = n

AllClean(spec) == \A n \in Node : nodes[n] = None \/ ~Leftover(spec, nodes[n])

FreshInv ==
    plClean /\ ~plFailed =>
        /\ nag # None /\ Shapes
        /\ plPc \in {"balance", "cleaning", "done"}
        /\ plPc # "done" => plNag.spec = nag.spec
        /\ plPc = "balance" => Balancing
        /\ plPc = "cleaning" => Cleaning
        /\ plPc = "done" => AllPacked(nag.spec) /\ AllClean(nag.spec)

\* packleft's taint is on a node once at most, and so it is on all copies.
OneTaint(node) == node # None => \A t, u \in PackLeftTaints(node) : t = u

OneTaints ==
    /\ \A n \in Node : OneTaint(nodes[n]) /\ OneTaint(nodeIndex[n]) /\ OneTaint(plSeen[n])
    /\ \A i \in DOMAIN nodeWatch : OneTaint(nodeWatch[i].obj)
    /\ \A k \in DOMAIN plan : OneTaint(plan[k].new)

-----------------------------------------------------------------------------
(* The operators of the model, in those terms. *)

LEMMA LoadIs ==
    ASSUME NEW n \in Node
    PROVE  LoadOf(podIndex)[n] = PercentFull(n)
<1>1. \A r \in Resource : Total(r, RunningOn(podIndex, n)) = Requested(n, r)
    BY DEF Total, RunningOn, Requested
<1>2. "mem" \in Resource /\ "cpu" \in Resource
    BY DEF Resource
<1> QED  BY <1>1, <1>2 DEF LoadOf, PercentFull

LEMMA LoadType == LoadOf(podIndex) \in [Node -> Fraction]
<1>1. \A n \in Node : LoadOf(podIndex)[n] \in Fraction
    BY LoadIs, PercentFullFraction
<1>2. LoadOf(podIndex) = [n \in Node |-> LoadOf(podIndex)[n]]
    BY DEF LoadOf
<1> QED  BY <1>1, <1>2

LEMMA FullIsNoRoom ==
    ASSUME NEW a, NEW n \in Node
    PROVE  IsFull(a, n) <=> ~Room(LoadOf(podIndex), LimitOf(a), n)
BY LoadIs DEF IsFull, Room, LimitOf

LEMMA LimitType ==
    ASSUME NEW a \in AssignmentObject
    PROVE  LimitOf(a) \in Fraction
<1>1. a.packLeft \in PackLeftScheduling \cup {None}
    BY DEF AssignmentObject
<1>2. a.packLeft # None => a.packLeft.fullPercent \in Nat \cup {None}
    BY <1>1 DEF PackLeftScheduling
<1> QED  BY <1>2 DEF LimitOf, Fraction, DefaultFullPercent

LEMMA BufferType ==
    ASSUME NEW a \in AssignmentObject, NEW total \in Nat
    PROVE  AvoidBufferSize(a, total) \in Nat
<1> DEFINE percent == IF a.packLeft = None \/ a.packLeft.percentAvoid = None
                        THEN 0 ELSE (total * a.packLeft.percentAvoid) \div 100
           num == IF a.packLeft = None THEN 0 ELSE a.packLeft.numAvoid
           sizes == {percent, num, 1}
<1>1. a.packLeft \in PackLeftScheduling \cup {None}
    BY DEF AssignmentObject
<1>2. a.packLeft # None => a.packLeft.percentAvoid \in Nat \cup {None} /\ a.packLeft.numAvoid \in Nat
    BY <1>1 DEF PackLeftScheduling
<1>3. \A p \in Nat : (total * p) \in Nat
    OBVIOUS
<1>4. \A q \in Nat : q \div 100 \in Nat
    OBVIOUS
<1>5. percent \in Nat /\ num \in Nat
    BY <1>2, <1>3, <1>4
<1>6. AvoidBufferSize(a, total) = Max(sizes)
    BY DEF AvoidBufferSize
<1> HIDE DEF percent, num
<1>7. \E x \in sizes : \A y \in sizes : x >= y
    BY <1>5
<1>8. Max(sizes) \in sizes
    BY <1>7 DEF Max
<1> QED  BY <1>5, <1>6, <1>8

LEMMA SeqMembers ==
    ASSUME NEW T, NEW s \in Seq(T)
    PROVE  DOMAIN s \in SUBSET Nat /\ \A i \in DOMAIN s : s[i] \in T
OBVIOUS

LEMMA AssignmentFound ==
    ASSUME NEW spec \in NagSpec, NEW name, AssignmentByName(spec, name) # None
    PROVE  /\ AssignmentByName(spec, name) \in AssignmentObject
           /\ AssignmentByName(spec, name).name = name
           /\ \E i \in DOMAIN AllAssignments(spec) :
                AllAssignments(spec)[i] = AssignmentByName(spec, name)
<1> DEFINE list == AllAssignments(spec)
           named == {i \in DOMAIN list : list[i].name = name}
           first == CHOOSE i \in named : \A j \in named : i <= j
<1>1. list \in Seq(AssignmentObject)
    <2>1. /\ spec.assignments \in Seq(AssignmentObject)
          /\ spec.defaultAssignment \in AssignmentObject \cup {None}
        BY DEF NagSpec
    <2>2. HasDefault(spec) =>
            Append(spec.assignments, spec.defaultAssignment) \in Seq(AssignmentObject)
        BY <2>1 DEF HasDefault
    <2> QED  BY <2>1, <2>2 DEF AllAssignments
<1>2. named # {} /\ AssignmentByName(spec, name) = list[first]
    BY DEF AssignmentByName
<1> HIDE DEF list
<1>3. named \in SUBSET Nat
    <2>1. DOMAIN list \in SUBSET Nat
        BY <1>1, SeqMembers
    <2> QED  BY <2>1
<1>4. first \in named
    <2> HIDE DEF named
    <2> QED  BY <1>2, <1>3, LeastMember
<1> HIDE DEF first
<1>5. first \in DOMAIN list /\ list[first].name = name
    BY <1>4
<1>6. list[first] \in AssignmentObject
    <2>1. \A i \in DOMAIN list : list[i] \in AssignmentObject
        BY <1>1, SeqMembers
    <2> QED  BY <1>5, <2>1
<1> QED  BY <1>2, <1>5, <1>6 DEF list

LEMMA StateIsPlace ==
    ASSUME NEW a, NEW buffer, NEW s, NEW i \in Nat \ {0}, \A j \in 1..i : s[j] \in Node
    PROVE  StateOf(a, buffer, s, i) = Place(LoadOf(podIndex), LimitOf(a), buffer, s, i)
<1>1. \A j \in 1..i : IsFull(a, s[j]) <=> ~Room(LoadOf(podIndex), LimitOf(a), s[j])
    BY FullIsNoRoom
<1>2. {j \in 2..(i - 1) : ~IsFull(a, s[j])} = Buffered(LoadOf(podIndex), LimitOf(a), s, i)
    BY <1>1 DEF Buffered
<1> QED  BY <1>1, <1>2 DEF StateOf, Place

LEMMA SortedIsRanked ==
    ASSUME NEW S \in SUBSET Node, NEW s \in Sorted(S)
    PROVE  s \in Ranked(LoadOf(podIndex), S)
<1>1. IsFiniteSet(S) /\ s \in SetToSeqs(S)
    BY NodeAssumption, FS_Subset DEF Sorted
<1>2. \A i \in DOMAIN s : s[i] \in Node
    BY <1>1, SeqsOfBijection
<1>3. ASSUME NEW i \in DOMAIN s, NEW j \in DOMAIN s, i < j
      PROVE  ~Exceeds(LoadOf(podIndex)[s[j]], LoadOf(podIndex)[s[i]])
    BY <1>2, <1>3, LoadIs DEF Sorted, Fuller
<1> QED  BY <1>1, <1>3 DEF Ranked

\* A group that is packed is balanced.
LEMMA PackedIsBalanced ==
    ASSUME NEW spec, NEW name, GroupPacked(LoadOf(podIndex), nodes, spec, name)
    PROVE  BalancedAssignment(spec, name)
<1> DEFINE a == AssignmentByName(spec, name)
           S == Members(spec, name)
           buffer == AvoidBufferSize(a, Cardinality(PackLeftNodes(spec, nodes, name)))
           load == LoadOf(podIndex)
           state == [n \in S |-> nodes[n].packleft]
           free(T) == {n \in T : ~IsFull(a, n)}
<1>1. S = Balanceable(nodes, spec, name) /\ S \subseteq Node /\ buffer = BufferOf(nodes, spec, name)
    BY DEF Members, Balanceable, BufferOf, PackLeftNodes
<1>2. SUFFICES ASSUME S # {} PROVE BalancedAssignment(spec, name)
    BY DEF BalancedAssignment
<1>3. /\ LeftPacked(load, LimitOf(a), buffer, S, state)
      /\ \A n \in S : PackLeftTaints(nodes[n]) = StateTaint(nodes[n].packleft)
    BY <1>1, <1>2 DEF GroupPacked
<1>4. \A x : Having(S, state, x) = InState(S, x) /\ InState(S, x) \subseteq S
    BY DEF Having, InState
<1>5. \A n \in S : IsFull(a, n) <=> ~Room(load, LimitOf(a), n)
    BY <1>1, FullIsNoRoom
<1>6. \A m, n \in S : Exceeds(PercentFull(n), PercentFull(m)) <=> Exceeds(load[n], load[m])
    BY <1>1, LoadIs
<1> HIDE DEF a, S, buffer, load, state
<1>7. /\ InState(S, "Use") # {}
      /\ S = InState(S, "Use") \cup InState(S, "Avoid") \cup InState(S, "Deny")
      /\ \A m \in InState(S, "Use"), n \in InState(S, "Avoid") \cup InState(S, "Deny") :
            ~Exceeds(load[n], load[m]) /\ Room(load, LimitOf(a), n)
      /\ \A m \in InState(S, "Avoid"), n \in InState(S, "Deny") : ~Exceeds(load[n], load[m])
      /\ Cardinality({n \in InState(S, "Use") : Room(load, LimitOf(a), n)}) <= 1
      /\ IF InState(S, "Deny") = {} THEN Cardinality(InState(S, "Avoid")) <= buffer
                                    ELSE Cardinality(InState(S, "Avoid")) = buffer
    BY <1>3, <1>4 DEF LeftPacked
<1>8. {n \in InState(S, "Use") : Room(load, LimitOf(a), n)} = free(InState(S, "Use"))
    BY <1>4, <1>5
<1>9. /\ \A m \in InState(S, "Use"), n \in InState(S, "Avoid") \cup InState(S, "Deny") :
            ~Exceeds(PercentFull(n), PercentFull(m)) /\ ~IsFull(a, n)
      /\ \A m \in InState(S, "Avoid"), n \in InState(S, "Deny") :
            ~Exceeds(PercentFull(n), PercentFull(m))
    BY <1>4, <1>5, <1>6, <1>7
<1>10. \A n \in S : {t \in nodes[n].taints : t.key = "packleft"} = StateTaint(nodes[n].packleft)
    BY <1>3 DEF PackLeftTaints
<1> QED  BY <1>7, <1>8, <1>9, <1>10 DEF BalancedAssignment, a, S, buffer

\* The labels and the readiness decide which nodes are balanced together.
LEMMA ShapeDecides ==
    ASSUME NEW x \in NodeMap, NEW y \in NodeMap, \A n \in Node : SameShape(x[n], y[n]),
           NEW spec, NEW name
    PROVE  /\ PackLeftNodes(spec, x, name) = PackLeftNodes(spec, y, name)
           /\ Balanceable(x, spec, name) = Balanceable(y, spec, name)
           /\ BufferOf(x, spec, name) = BufferOf(y, spec, name)
<1>1. PackLeftNodes(spec, x, name) = PackLeftNodes(spec, y, name)
    BY DEF PackLeftNodes, SameShape, TargetsNode, GetAssignment
<1>2. Balanceable(x, spec, name) = Balanceable(y, spec, name)
    BY <1>1 DEF Balanceable, PackLeftNodes, SameShape
<1> QED  BY <1>1, <1>2 DEF BufferOf

\* removeTaint takes packleft's taint away when there is only one.
LEMMA TaintRemoved ==
    ASSUME NEW node \in NodeObject, OneTaint(node)
    PROVE  {t \in RemoveFirstTaint(node.taints) : t.key = "packleft"} = {}
<1> DEFINE ours == {t \in node.taints : t.key = "packleft"}
           first == CHOOSE t \in ours : TRUE
<1>1. CASE ours = {}
    BY <1>1 DEF RemoveFirstTaint
<1>2. CASE ours # {}
    <2>1. first \in ours
        BY <1>2
    <2>2. RemoveFirstTaint(node.taints) = node.taints \ {first}
        BY <1>2 DEF RemoveFirstTaint
    <2> HIDE DEF first
    <2>3. \A t \in ours : t = first
        BY <2>1, NoneAssumption DEF OneTaint, PackLeftTaints
    <2> QED  BY <2>2, <2>3
<1> QED  BY <1>1, <1>2

LEMMA StateGiven ==
    ASSUME NEW node \in NodeObject, OneTaint(node), NEW state \in PackLeftState
    PROVE  /\ SetState(node, state) \in NodeObject
           /\ SetState(node, state).packleft = state
           /\ PackLeftTaints(SetState(node, state)) = StateTaint(state)
           /\ OneTaint(SetState(node, state))
           /\ SameShape(SetState(node, state), node)
<1> DEFINE rest == RemoveFirstTaint(node.taints)
           taints == rest \cup StateTaint(state)
           set == [node EXCEPT !.packleft = state, !.taints = taints]
<1>1. {t \in rest : t.key = "packleft"} = {}
    BY TaintRemoved
<1>2. /\ \A t \in StateTaint(state) : t.key = "packleft"
      /\ \A t, u \in StateTaint(state) : t = u
    BY DEF StateTaint, PackLeftState
<1>3. SetState(node, state) = set
    BY DEF SetState
<1> HIDE DEF rest
<1>4. {t \in taints : t.key = "packleft"} = StateTaint(state)
    BY <1>1, <1>2
<1> HIDE DEF taints
<1>5. /\ set.packleft = state /\ set.taints = taints
      /\ set.labels = node.labels /\ set.assign = node.assign /\ set.ready = node.ready
    BY DEF NodeObject
<1>6. set \in NodeObject
    BY <1>3, SetStateFacts
<1> HIDE DEF set
<1>7. PackLeftTaints(set) = StateTaint(state)
    BY <1>4, <1>5 DEF PackLeftTaints
<1>8. OneTaint(set)
    BY <1>2, <1>7 DEF OneTaint
<1>9. SameShape(set, node)
    BY <1>5, <1>6, NoneAssumption DEF SameShape
<1> QED  BY <1>3, <1>5, <1>6, <1>7, <1>8, <1>9

LEMMA StateCleared ==
    ASSUME NEW node \in NodeObject, OneTaint(node)
    PROVE  /\ ClearPackLeft(node) \in NodeObject
           /\ ~HasPackLeftAttributes(ClearPackLeft(node))
           /\ OneTaint(ClearPackLeft(node))
           /\ SameShape(ClearPackLeft(node), node)
<1> DEFINE rest == RemoveFirstTaint(node.taints)
           cleared == [node EXCEPT !.packleft = None, !.taints = rest]
<1>1. {t \in rest : t.key = "packleft"} = {}
    BY TaintRemoved
<1>2. ClearPackLeft(node) = cleared
    BY DEF ClearPackLeft
<1> HIDE DEF rest
<1>3. /\ cleared.packleft = None /\ cleared.taints = rest
      /\ cleared.labels = node.labels /\ cleared.assign = node.assign
      /\ cleared.ready = node.ready
    BY DEF NodeObject
<1>4. cleared \in NodeObject
    BY <1>2, ClearPackLeftFacts
<1> HIDE DEF cleared
<1>5. ~HasPackLeftAttributes(cleared) /\ PackLeftTaints(cleared) = {}
    BY <1>1, <1>3 DEF HasPackLeftAttributes, PackLeftTaints
<1>6. OneTaint(cleared) /\ SameShape(cleared, node)
    BY <1>3, <1>4, <1>5, NoneAssumption DEF OneTaint, SameShape
<1> QED  BY <1>2, <1>4, <1>5, <1>6

\* When nothing of the plan is left the group is packed.
LEMMA PlannedIsPacked ==
    ASSUME NEW load \in [Node -> Fraction], NEW seen \in NodeMap, NEW map \in NodeMap,
           NEW spec \in NagSpec, NEW name, GroupPlanned(load, seen, map, <<>>, spec, name),
           \A n \in Node : SameShape(seen[n], map[n]),
           \A n \in Node : OneTaint(seen[n])
    PROVE  GroupPacked(load, map, spec, name)
<1> DEFINE S == Balanceable(map, spec, name)
           a == AssignmentByName(spec, name)
           buffer == BufferOf(map, spec, name)
           state == [n \in S |-> map[n].packleft]
           place(s, i) == Place(load, LimitOf(a), buffer, s, i)
<1>1. S = Balanceable(seen, spec, name) /\ buffer = BufferOf(seen, spec, name)
    BY ShapeDecides
<1>2. SUFFICES ASSUME S # {} PROVE GroupPacked(load, map, spec, name)
    BY DEF GroupPacked
<1>3. S \in SUBSET Node /\ a # None /\ \A n \in S : seen[n] # None
    BY <1>1, <1>2 DEF Balanceable, PackLeftNodes, IsPackLeft
<1>4. IsFiniteSet(S)
    BY <1>3, NodeAssumption, FS_Subset
<1>5. a \in AssignmentObject
    BY <1>3, AssignmentFound
<1>6. LimitOf(a) \in Fraction
    BY <1>5, LimitType
<1>7. buffer \in Nat
    <2>1. IsFiniteSet(PackLeftNodes(spec, map, name))
        BY NodeAssumption, FS_Subset DEF PackLeftNodes
    <2>2. Cardinality(PackLeftNodes(spec, map, name)) \in Nat
        BY <2>1, FS_CardinalityType
    <2> QED  BY <1>5, <2>2, BufferType DEF BufferOf
<1>8. PICK s \in Ranked(load, S) :
        \A i \in DOMAIN s : Becomes(map, <<>>, s[i], Planned(load, seen, spec, name, s, i))
    BY <1>1, <1>2 DEF GroupPlanned
<1>9. /\ \A i \in DOMAIN s : s[i] \in S
      /\ \A n \in S : \E i \in DOMAIN s : s[i] = n
    BY <1>4, SeqsOfBijection DEF Ranked
<1>10. ASSUME NEW i \in DOMAIN s
       PROVE  map[s[i]] = SetState(seen[s[i]], place(s, i)) /\ place(s, i) \in PackLeftState
    <2>1. DOMAIN <<>> = {}
        OBVIOUS
    <2>2. map[s[i]] = Planned(load, seen, spec, name, s, i)
        BY <1>8, <2>1 DEF Becomes
    <2> QED  BY <1>1, <2>2 DEF Planned, Place, PackLeftState
<1> HIDE DEF S, a, buffer, place
<1>11. ASSUME NEW i \in DOMAIN s
       PROVE  map[s[i]].packleft = place(s, i) /\ PackLeftTaints(map[s[i]]) = StateTaint(place(s, i))
    <2>1. seen[s[i]] \in NodeObject /\ OneTaint(seen[s[i]])
        BY <1>3, <1>9 DEF NodeMap
    <2> QED  BY <1>10, <2>1, StateGiven
<1>12. \A i \in DOMAIN s : state[s[i]] = place(s, i)
    BY <1>9, <1>11
<1> HIDE DEF state
<1>13. LeftPacked(load, LimitOf(a), buffer, S, state)
    BY <1>2, <1>3, <1>6, <1>7, <1>12, PlacedIsPacked DEF place
<1>14. \A n \in S : PackLeftTaints(map[n]) = StateTaint(map[n].packleft)
    BY <1>9, <1>11
<1> QED  BY <1>13, <1>14 DEF GroupPacked, S, a, buffer, state

-----------------------------------------------------------------------------
(* packleft's taint is on no node twice. *)

LEMMA OneTaintPatched ==
    ASSUME NEW live \in NodeObject, NEW old \in NodeObject, NEW new \in NodeObject,
           OneTaint(live), OneTaint(new)
    PROVE  OneTaint(Patch(live, old, new))
<1>1. Patch(live, old, new).taints \in {live.taints, new.taints}
    BY DEF Patch, NodeObject
<1> QED  BY <1>1, NoneAssumption DEF OneTaint, PackLeftTaints

\* The patches for the sorted nodes, each made from the copy of its node.
PatchesAlong(seen, spec, name, s) ==
    {[node |-> s[i],
      new |-> SetState(seen[s[i]],
                StateOf(AssignmentByName(spec, name), BufferOf(seen, spec, name), s, i))] :
        i \in DOMAIN s}

LEMMA PlannedAlong ==
    ASSUME NEW seen, NEW spec, NEW name, NEW t \in BalancePlans(seen, spec, name)
    PROVE  \E s \in Sorted(Balanceable(seen, spec, name)) :
              t \in SetToSeqs(Sendable(seen, PatchesAlong(seen, spec, name, s)))
BY DEF BalancePlans, Balanceable, BufferOf, InOrder, PatchesAlong

\* Each member of a finite set is somewhere in the sequence.
LEMMA PatchesOf ==
    ASSUME NEW patches, IsFiniteSet(patches), NEW t \in SetToSeqs(patches)
    PROVE  /\ \A k \in DOMAIN t : t[k] \in patches
           /\ \A p \in patches : \E k \in DOMAIN t : t[k] = p
           /\ \A k, l \in DOMAIN t : t[k] = t[l] => k = l
BY SeqsOfBijection

\* What is to be sent along the sequence s.
LEMMA BalancePatches ==
    ASSUME NEW seen \in NodeMap, NEW spec \in NagSpec, NEW name,
           NEW t \in BalancePlans(seen, spec, name)
    PROVE  \E s \in Ranked(LoadOf(podIndex), Balanceable(seen, spec, name)) :
              /\ \A k \in DOMAIN t : \E i \in DOMAIN s :
                    /\ t[k].node = s[i]
                    /\ t[k].new = Planned(LoadOf(podIndex), seen, spec, name, s, i)
              /\ \A i \in DOMAIN s :
                    \/ Planned(LoadOf(podIndex), seen, spec, name, s, i) = seen[s[i]]
                    \/ \E k \in DOMAIN t : t[k].node = s[i]
              /\ Once(t)
<1> DEFINE S == Balanceable(seen, spec, name)
           a == AssignmentByName(spec, name)
           buffer == BufferOf(seen, spec, name)
           load == LoadOf(podIndex)
           patch(s, i) == [node |-> s[i], new |-> SetState(seen[s[i]], StateOf(a, buffer, s, i))]
           patches(s) == {patch(s, i) : i \in DOMAIN s}
<1>1. PICK s \in Sorted(S) : t \in SetToSeqs(Sendable(seen, patches(s)))
    <2>1. PICK s \in Sorted(S) : t \in SetToSeqs(Sendable(seen, PatchesAlong(seen, spec, name, s)))
        BY PlannedAlong
    <2>2. PatchesAlong(seen, spec, name, s) = patches(s)
        BY DEF PatchesAlong
    <2> HIDE DEF patches, S
    <2> QED  BY <2>1, <2>2
<1>2. S \in SUBSET Node /\ IsFiniteSet(S)
    BY NodeAssumption, FS_Subset DEF Balanceable, PackLeftNodes
<1>3. s \in Ranked(load, S)
    BY <1>1, <1>2, SortedIsRanked
<1>4. /\ s \in SetToSeqs(S) /\ IsFiniteSet(DOMAIN s)
      /\ DOMAIN s = 1..Cardinality(S) /\ Cardinality(S) \in Nat
      /\ \A i \in DOMAIN s : s[i] \in S
      /\ \A i, j \in DOMAIN s : s[i] = s[j] => i = j
    BY <1>2, <1>3, SeqsOfBijection, SeqsOf DEF Ranked
<1>5. ASSUME NEW i \in DOMAIN s
      PROVE  SetState(seen[s[i]], StateOf(a, buffer, s, i)) = Planned(load, seen, spec, name, s, i)
    <2>1. i \in Nat \ {0} /\ \A j \in 1..i : s[j] \in Node
        BY <1>2, <1>4
    <2> QED  BY <2>1, StateIsPlace DEF Planned
<1>6. IsFiniteSet(Sendable(seen, patches(s)))
    <2> DEFINE f == [i \in DOMAIN s |-> patch(s, i)]
    <2>1. f \in Surjection(DOMAIN s, patches(s))
        BY DEF Surjection
    <2> HIDE DEF f, patches
    <2>2. IsFiniteSet(patches(s))
        BY <1>4, <2>1, FS_Surjection
    <2> QED  BY <2>2, FS_Subset DEF Sendable
<1>7. /\ \A k \in DOMAIN t : t[k] \in Sendable(seen, patches(s))
      /\ \A p \in Sendable(seen, patches(s)) : \E k \in DOMAIN t : t[k] = p
      /\ \A k, l \in DOMAIN t : t[k] = t[l] => k = l
    BY <1>1, <1>6, PatchesOf
<1>8. \A i \in DOMAIN s :
        patch(s, i).node = s[i] /\ patch(s, i).new = Planned(load, seen, spec, name, s, i)
    BY <1>5
<1> HIDE DEF a, buffer, load, S, patch
<1>9. \A k \in DOMAIN t : \E i \in DOMAIN s : t[k] = patch(s, i)
    BY <1>7 DEF Sendable
<1>10. ASSUME NEW i \in DOMAIN s, Planned(load, seen, spec, name, s, i) # seen[s[i]]
       PROVE  \E k \in DOMAIN t : t[k].node = s[i]
    <2>1. patch(s, i) \in Sendable(seen, patches(s))
        BY <1>8, <1>10 DEF Sendable
    <2> QED  BY <1>7, <1>8, <2>1
<1>11. \A k, l \in DOMAIN t : t[k].node = t[l].node => t[k] = t[l]
    BY <1>4, <1>8, <1>9
<1>12. Once(t)
    BY <1>7, <1>11 DEF Once
<1>13. \A k \in DOMAIN t : \E i \in DOMAIN s :
          t[k].node = s[i] /\ t[k].new = Planned(load, seen, spec, name, s, i)
    BY <1>8, <1>9
<1> QED  BY <1>3, <1>10, <1>12, <1>13 DEF load, S

LEMMA ClearPatches ==
    ASSUME NEW seen \in NodeMap, NEW S \in SUBSET Node, NEW t \in ClearPlans(seen, S)
    PROVE  /\ \A k \in DOMAIN t : t[k].node \in S /\ t[k].new = ClearPackLeft(seen[t[k].node])
           /\ \A n \in S : ClearPackLeft(seen[n]) = seen[n] \/ \E k \in DOMAIN t : t[k].node = n
           /\ Once(t)
<1> DEFINE patch(n) == [node |-> n, new |-> ClearPackLeft(seen[n])]
           patches == {patch(n) : n \in S}
<1>1. t \in SetToSeqs(Sendable(seen, patches))
    BY DEF ClearPlans
<1>2. IsFiniteSet(Sendable(seen, patches))
    <2> DEFINE f == [n \in S |-> patch(n)]
    <2>1. f \in Surjection(S, patches) /\ IsFiniteSet(S)
        BY NodeAssumption, FS_Subset DEF Surjection
    <2> HIDE DEF f, patches
    <2>2. IsFiniteSet(patches)
        BY <2>1, FS_Surjection
    <2> QED  BY <2>2, FS_Subset DEF Sendable
<1>3. /\ \A k \in DOMAIN t : t[k] \in Sendable(seen, patches)
      /\ \A p \in Sendable(seen, patches) : \E k \in DOMAIN t : t[k] = p
      /\ \A k, l \in DOMAIN t : t[k] = t[l] => k = l
    BY <1>1, <1>2, PatchesOf
<1>4. \A n : patch(n).node = n /\ patch(n).new = ClearPackLeft(seen[n])
    OBVIOUS
<1> HIDE DEF patch
<1>5. \A k \in DOMAIN t : \E n \in S : t[k] = patch(n)
    BY <1>3 DEF Sendable
<1>6. ASSUME NEW n \in S, ClearPackLeft(seen[n]) # seen[n]
      PROVE  \E k \in DOMAIN t : t[k].node = n
    <2>1. patch(n) \in Sendable(seen, patches)
        BY <1>4, <1>6 DEF Sendable
    <2> QED  BY <1>3, <1>4, <2>1
<1>7. \A k, l \in DOMAIN t : t[k].node = t[l].node => t[k] = t[l]
    BY <1>4, <1>5
<1>8. Once(t)
    BY <1>3, <1>7 DEF Once
<1>9. \A k \in DOMAIN t : t[k].node \in S /\ t[k].new = ClearPackLeft(seen[t[k].node])
    BY <1>4, <1>5
<1> QED  BY <1>6, <1>8, <1>9

LEMMA NodesAreOne ==
    ASSUME WorldType, RunType, PLRun
    PROVE  \/ nodes' = nodes
           \/ /\ plan # <<>> /\ Faithful(plSeen, Head(plan)) /\ nodes[Head(plan).node] # None
              /\ nodes' = [nodes EXCEPT ![Head(plan).node] =
                              Patch(@, plSeen[Head(plan).node], Head(plan).new)]
<1>1. ASSUME NEW p, SendPatch(p) \/ SendFails(p)
      PROVE  \/ nodes' = nodes
             \/ /\ nodes[p.node] # None
                /\ nodes' = [nodes EXCEPT ![p.node] = Patch(@, plSeen[p.node], p.new)]
    BY <1>1 DEF SendPatch, SendFails
<1>2. CASE SendState \/ SendClear
    BY <1>1, <1>2, TailOfPlan DEF SendState, SendClear, SendNext
<1>3. CASE SendDelete
    BY <1>1, <1>3, TailOfPlan DEF SendDelete
<1>4. CASE EnsureGet \/ PLRemoveGet
    BY <1>4 DEF EnsureGet, PLRemoveGet, PLGetNag, apiVars
<1>5. CASE EnsureRetry \/ PLRemoveRetry
    BY <1>5 DEF EnsureRetry, PLRemoveRetry, PLRetry, apiVars
<1>6. CASE EnsureFails \/ EnsureUpdate \/ PLRemoveFails \/ PLRemoveUpdate
    BY <1>6 DEF EnsureFails, EnsureUpdate, PLRemoveFails, PLRemoveUpdate, apiVars
<1>7. CASE ListGroups \/ BalanceNodes \/ CleanUnassigned \/ EndRebalance \/ CleanAll
    BY <1>7 DEF ListGroups, BalanceNodes, CleanUnassigned, EndRebalance, CleanAll, apiVars
<1> QED  BY <1>2, <1>3, <1>4, <1>5, <1>6, <1>7 DEF PLRun

LEMMA SpecOfRun ==
    ASSUME RunType, plPc # "done"
    PROVE  plNag.spec \in NagSpec
BY SpecsAssumption DEF RunType, Nags, NagObject

PlanTaints(rest) == \A k \in DOMAIN rest : OneTaint(rest[k].new)

LEMMA TailTaints ==
    ASSUME RunType, plan # <<>>, PlanTaints(plan)
    PROVE  OneTaint(Head(plan).new) /\ PlanTaints(Tail(plan))
<1>1. plan \in Seq(PatchObject)
    BY DEF RunType
<1>2. Head(plan) = plan[1] /\ 1 \in DOMAIN plan
    BY <1>1
<1>3. \A i \in DOMAIN Tail(plan) : i + 1 \in DOMAIN plan /\ Tail(plan)[i] = plan[i + 1]
    BY <1>1
<1> QED  BY <1>2, <1>3 DEF PlanTaints

LEMMA ClearTaints ==
    ASSUME NEW seen \in NodeMap, \A n \in Node : OneTaint(seen[n]),
           NEW S \in SUBSET Node, \A n \in S : seen[n] # None,
           NEW t \in ClearPlans(seen, S)
    PROVE  PlanTaints(t)
<1>1. \A k \in DOMAIN t : t[k].node \in S /\ t[k].new = ClearPackLeft(seen[t[k].node])
    BY ClearPatches
<1>2. \A n \in S : OneTaint(ClearPackLeft(seen[n]))
    BY StateCleared DEF NodeMap
<1> QED  BY <1>1, <1>2 DEF PlanTaints

LEMMA BalanceTaints ==
    ASSUME NEW seen \in NodeMap, \A n \in Node : OneTaint(seen[n]),
           NEW spec \in NagSpec, NEW name, NEW t \in BalancePlans(seen, spec, name)
    PROVE  PlanTaints(t)
<1> DEFINE load == LoadOf(podIndex)
           S == Balanceable(seen, spec, name)
<1>1. PICK s \in Ranked(load, S) :
        \A k \in DOMAIN t : \E i \in DOMAIN s :
            t[k].node = s[i] /\ t[k].new = Planned(load, seen, spec, name, s, i)
    BY BalancePatches
<1>2. S \in SUBSET Node /\ IsFiniteSet(S) /\ \A n \in S : seen[n] \in NodeObject
    BY NodeAssumption, FS_Subset DEF Balanceable, PackLeftNodes, NodeMap
<1>3. \A i \in DOMAIN s : s[i] \in S
    BY <1>2, SeqsOfBijection DEF Ranked
<1> HIDE DEF load, S
<1>4. ASSUME NEW i \in DOMAIN s PROVE OneTaint(Planned(load, seen, spec, name, s, i))
    <2> DEFINE state == Place(load, LimitOf(AssignmentByName(spec, name)),
                              BufferOf(seen, spec, name), s, i)
    <2>1. state \in PackLeftState
        BY DEF Place, PackLeftState
    <2>2. Planned(load, seen, spec, name, s, i) = SetState(seen[s[i]], state)
        BY DEF Planned
    <2> HIDE DEF state
    <2> QED  BY <1>2, <1>3, <2>1, <2>2, StateGiven
<1> QED  BY <1>1, <1>4 DEF PlanTaints

LEMMA RunTaints ==
    ASSUME WorldType, RunType, OneTaints, PLRun
    PROVE  /\ \A n \in Node : /\ OneTaint(nodes'[n]) /\ OneTaint(nodeIndex'[n])
                              /\ OneTaint(plSeen'[n])
           /\ PlanTaints(plan')
<1> USE DEF plCacheVars
<1>1. PlanTaints(plan) /\ PlanTaints(<<>>)
    BY DEF OneTaints, PlanTaints
<1>2. \A n \in Node : OneTaint(nodes'[n])
    <2>1. CASE nodes' = nodes
        BY <2>1 DEF OneTaints
    <2>2. CASE nodes' # nodes
        <3> DEFINE n == Head(plan).node
                   x == Patch(nodes[n], plSeen[n], Head(plan).new)
        <3>1. /\ plan # <<>> /\ Faithful(plSeen, Head(plan)) /\ nodes[n] # None
              /\ nodes' = [nodes EXCEPT ![n] = x]
            BY <2>2, NodesAreOne
        <3>2. /\ n \in Node /\ Head(plan).new \in NodeObject
              /\ nodes[n] \in NodeObject /\ plSeen[n] \in NodeObject
            BY <3>1 DEF Faithful, PatchObject, NodeMap, WorldType, RunType
        <3>3. OneTaint(Head(plan).new) /\ OneTaint(nodes[n])
            BY <1>1, <3>1, <3>2, TailTaints DEF OneTaints
        <3> HIDE DEF n
        <3>4. OneTaint(x)
            BY <3>2, <3>3, OneTaintPatched
        <3> HIDE DEF x
        <3>5. \A m \in Node : nodes'[m] = IF m = n THEN x ELSE nodes[m]
            BY <3>1, <3>2 DEF WorldType, NodeMap
        <3> QED  BY <3>4, <3>5 DEF OneTaints
    <2> QED  BY <2>1, <2>2
<1>3. \A n \in Node : OneTaint(nodeIndex'[n]) /\ OneTaint(plSeen'[n])
    <2>1. nodeIndex' = nodeIndex /\ plSeen' \in {plSeen, nodeIndex, Gone}
        BY PLRunStepOK DEF PLStepOK, RunFrame
    <2>2. \A n \in Node : OneTaint(Gone[n])
        BY DEF Gone, OneTaint
    <2> QED  BY <2>1, <2>2 DEF OneTaints
<1>4. PlanTaints(plan')
    <2>1. CASE EnsureGet \/ PLRemoveGet
        BY <1>1, <2>1 DEF EnsureGet, PLRemoveGet, PLGetNag
    <2>2. CASE EnsureRetry \/ PLRemoveRetry
        BY <1>1, <2>2 DEF EnsureRetry, PLRemoveRetry, PLRetry
    <2>3. CASE EnsureFails \/ EnsureUpdate \/ ListGroups
        BY <1>1, <2>3 DEF EnsureFails, EnsureUpdate, ListGroups
    <2>4. CASE PLRemoveFails \/ PLRemoveUpdate \/ EndRebalance
        BY <1>1, <2>4 DEF PLRemoveFails, PLRemoveUpdate, EndRebalance, PLEndRun
    <2>5. CASE SendState \/ SendClear
        BY <1>1, <2>5, TailTaints DEF SendState, SendClear, SendNext
    <2>6. CASE SendDelete
        BY <1>1, <2>6, TailTaints DEF SendDelete, PLEndRun
    <2>7. CASE BalanceNodes
        <3>1. PICK name : plPc = "balance" /\ plan' \in BalancePlans(plSeen, plNag.spec, name)
            BY <2>7 DEF BalanceNodes
        <3> QED  BY <3>1, SpecOfRun, BalanceTaints DEF RunType, OneTaints
    <2>8. CASE CleanUnassigned
        <3> DEFINE S == {n \in Node : nodeIndex[n] # None /\ Leftover(plNag.spec, nodeIndex[n])}
        <3>1. /\ plan' \in ClearPlans(nodeIndex, S)
              /\ S \in SUBSET Node /\ \A n \in S : nodeIndex[n] # None
            BY <2>8 DEF CleanUnassigned
        <3> HIDE DEF S
        <3> QED  BY <3>1, ClearTaints DEF WorldType, OneTaints
    <2>9. CASE CleanAll
        <3> DEFINE S == {n \in Node : /\ nodeIndex[n] # None
                                      /\ Leftover(plNag.spec, nodeIndex[n]) \/ ~nodeIndex[n].ready}
        <3>1. /\ plan' \in ClearPlans(nodeIndex, S)
              /\ S \in SUBSET Node /\ \A n \in S : nodeIndex[n] # None
            BY <2>9 DEF CleanAll
        <3> HIDE DEF S
        <3> QED  BY <3>1, ClearTaints DEF WorldType, OneTaints
    <2> QED  BY <2>1, <2>2, <2>3, <2>4, <2>5, <2>6, <2>7, <2>8, <2>9 DEF PLRun
<1> QED  BY <1>2, <1>3, <1>4

LEMMA AppendMembers ==
    ASSUME NEW T, NEW s \in Seq(T), NEW e \in T, NEW i \in DOMAIN Append(s, e)
    PROVE  (i \in DOMAIN s /\ Append(s, e)[i] = s[i]) \/ Append(s, e)[i] = e
OBVIOUS

\* What the watch will deliver, after a step of the API server.
LEMMA WatchMembers ==
    ASSUME nodes \in NodeMap, nodes' \in NodeMap, WatchType, WatchNodes, NEW i \in DOMAIN nodeWatch'
    PROVE  \/ i \in DOMAIN nodeWatch /\ nodeWatch'[i] = nodeWatch[i]
           \/ \E n \in Node : nodes'[n] # nodes[n] /\ nodeWatch'[i] = [node |-> n, obj |-> nodes'[n]]
<1> DEFINE T == [node: Node, obj: NodeObject \cup {None}]
           n == CHOOSE m \in Node : nodes'[m] # nodes[m]
           e == [node |-> n, obj |-> nodes'[n]]
<1>1. nodeWatch \in Seq(T)
    BY DEF WatchType
<1>2. CASE nodes' = nodes
    BY <1>2 DEF WatchNodes
<1>3. CASE nodes' # nodes
    <2>1. \E m \in Node : nodes'[m] # nodes[m]
        BY <1>3 DEF NodeMap
    <2>2. n \in Node /\ nodes'[n] # nodes[n]
        BY <2>1
    <2>3. nodeWatch' = Append(nodeWatch, e)
        BY <1>3 DEF WatchNodes
    <2> HIDE DEF n
    <2>4. e \in T
        BY <2>2 DEF NodeMap
    <2> HIDE DEF T
    <2>5. \/ i \in DOMAIN nodeWatch /\ nodeWatch'[i] = nodeWatch[i]
          \/ nodeWatch'[i] = e
        BY <1>1, <2>3, <2>4, AppendMembers
    <2> QED  BY <2>2, <2>5
<1> QED  BY <1>2, <1>3

WatchTaints(pending) == \A i \in DOMAIN pending : OneTaint(pending[i].obj)

LEMMA WatchKeepsTaints ==
    ASSUME nodes \in NodeMap, nodes' \in NodeMap, WatchType, WatchNodes, WatchTaints(nodeWatch),
           \A n \in Node : OneTaint(nodes'[n])
    PROVE  WatchTaints(nodeWatch')
<1> SUFFICES ASSUME NEW i \in DOMAIN nodeWatch' PROVE OneTaint(nodeWatch'[i].obj)
    BY DEF WatchTaints
<1>1. CASE i \in DOMAIN nodeWatch /\ nodeWatch'[i] = nodeWatch[i]
    BY <1>1 DEF WatchTaints
<1>2. CASE \E n \in Node : nodeWatch'[i] = [node |-> n, obj |-> nodes'[n]]
    BY <1>2
<1> QED  BY <1>1, <1>2, WatchMembers

LEMMA DisturbedTaints ==
    ASSUME PLControllerInv, OneTaints, Disturbed
    PROVE  /\ \A n \in Node : OneTaint(nodes'[n])
           /\ WatchNodes /\ UNCHANGED <<nodeIndex, plSeen, plan>>
<1>1. nodes \in NodeMap /\ \A n \in Node : OneTaint(nodes[n])
    BY DEF PLControllerInv, PLTypeInv, WorldType, OneTaints
<1>2. ASSUME NEW kind, Disturb(kind) PROVE WatchNodes /\ UNCHANGED <<nodeIndex, plSeen, plan>>
    BY <1>2 DEF Disturb, plLoopVars
<1>3. ASSUME NEW kind, NEW n \in Node, NEW obj, OneTaint(obj), DisturbNode(kind, n, obj)
      PROVE  /\ \A m \in Node : OneTaint(nodes'[m])
             /\ WatchNodes /\ UNCHANGED <<nodeIndex, plSeen, plan>>
    <2>1. \A m \in Node : nodes'[m] = IF m = n THEN obj ELSE nodes[m]
        BY <1>1, <1>3 DEF DisturbNode, NodeMap
    <2> QED  BY <1>1, <1>2, <1>3, <2>1 DEF DisturbNode
<1>4. CASE PLCreateNag \/ PLUpdateNag \/ PLDeleteNag
    <2>1. PICK obj : DisturbNag(obj)
        BY <1>4 DEF PLCreateNag, PLUpdateNag, PLDeleteNag
    <2> QED  BY <1>1, <1>2, <2>1 DEF DisturbNag
<1>5. CASE AddPod \/ SchedulePod \/ CompletePod \/ DeletePod
    <2>1. PICK kind, p, obj, queued : DisturbPod(kind, p, obj, queued)
        BY <1>5 DEF AddPod, SchedulePod, CompletePod, DeletePod
    <2> QED  BY <1>1, <1>2, <2>1 DEF DisturbPod
<1>6. CASE RelabelAssignment
    <2>1. PICK n \in Node, l \in Labels :
            nodes[n] # None /\ DisturbNode("assign", n, [nodes[n] EXCEPT !.assign = l])
        BY <1>6 DEF RelabelAssignment
    <2>2. OneTaint([nodes[n] EXCEPT !.assign = l])
        <3>1. nodes[n] \in NodeObject /\ OneTaint(nodes[n])
            BY <1>1, <2>1 DEF NodeMap
        <3>2. [nodes[n] EXCEPT !.assign = l].taints = nodes[n].taints
            BY <3>1 DEF NodeObject
        <3> QED  BY <2>1, <3>1, <3>2 DEF OneTaint, PackLeftTaints
    <2> QED  BY <1>3, <2>1, <2>2
<1>7. CASE ToggleReady
    <2>1. PICK n \in Node :
            nodes[n] # None /\ DisturbNode("ready", n, [nodes[n] EXCEPT !.ready = ~@])
        BY <1>7 DEF ToggleReady
    <2>2. OneTaint([nodes[n] EXCEPT !.ready = ~@])
        <3>1. nodes[n] \in NodeObject /\ OneTaint(nodes[n])
            BY <1>1, <2>1 DEF NodeMap
        <3>2. [nodes[n] EXCEPT !.ready = ~@].taints = nodes[n].taints
            BY <3>1 DEF NodeObject
        <3> QED  BY <2>1, <3>1, <3>2 DEF OneTaint, PackLeftTaints
    <2> QED  BY <1>3, <2>1, <2>2
<1>8. CASE ToggleTaint
    <2> DEFINE t == [key |-> "other", value |-> None, effect |-> "NoExecute"]
               toggled(n) == [nodes[n] EXCEPT !.taints = IF t \in @ THEN @ \ {t} ELSE @ \cup {t}]
    <2>1. PICK n \in Node : nodes[n] # None /\ DisturbNode("taint", n, toggled(n))
        BY <1>8 DEF ToggleTaint
    <2>2. OneTaint(toggled(n))
        <3>1. nodes[n] \in NodeObject /\ OneTaint(nodes[n])
            BY <1>1, <2>1 DEF NodeMap
        <3>2. t.key # "packleft"
            OBVIOUS
        <3> HIDE DEF t
        <3>3. \A u \in toggled(n).taints : u \in nodes[n].taints \/ u = t
            BY <3>1 DEF NodeObject
        <3> HIDE DEF toggled
        <3>4. PackLeftTaints(toggled(n)) \subseteq PackLeftTaints(nodes[n])
            BY <3>2, <3>3 DEF PackLeftTaints
        <3> QED  BY <2>1, <3>1, <3>4 DEF OneTaint
    <2> QED  BY <1>3, <2>1, <2>2
<1>9. CASE PLAddNode
    <2>1. PICK n \in Node, l \in Labels :
            DisturbNode("addNode", n, [Fresh({}) EXCEPT !.assign = l])
        BY <1>9 DEF PLAddNode
    <2>2. OneTaint([Fresh({}) EXCEPT !.assign = l])
        BY DEF OneTaint, Fresh, PackLeftTaints
    <2> QED  BY <1>3, <2>1, <2>2
<1>10. CASE PLDeleteNode
    <2>1. PICK n \in Node : DisturbNode("deleteNode", n, None)
        BY <1>10 DEF PLDeleteNode
    <2>2. OneTaint(None)
        BY DEF OneTaint
    <2> QED  BY <1>3, <2>1, <2>2
<1> QED  BY <1>4, <1>5, <1>6, <1>7, <1>8, <1>9, <1>10 DEF Disturbed

LEMMA OneTaintsInit == PLControllerInit => OneTaints
<1> SUFFICES ASSUME PLControllerInit PROVE OneTaints
    OBVIOUS
<1>1. OneTaint([Fresh({}) EXCEPT !.assign = InitialLabel]) /\ OneTaint(None)
    BY DEF OneTaint, Fresh, PackLeftTaints
<1>2. \A n \in Node : nodes[n] = [Fresh({}) EXCEPT !.assign = InitialLabel] /\ plSeen[n] = None
    BY DEF PLControllerInit, PLInit, Gone
<1>3. nodeIndex = nodes /\ plan = <<>> /\ nodeWatch = <<>>
    BY DEF PLControllerInit, PLInit
<1> QED  BY <1>1, <1>2, <1>3 DEF OneTaints

LEMMA OneTaintsStep ==
    PLControllerInv /\ OneTaints /\ [PLControllerNext]_plAllVars => OneTaints'
<1> SUFFICES ASSUME PLControllerInv, OneTaints, [PLControllerNext]_plAllVars PROVE OneTaints'
    OBVIOUS
<1>1. /\ WorldType /\ RunType /\ WatchType /\ nodes' \in NodeMap
    BY PLControllerStepType DEF PLControllerInv, PLTypeInv, WorldType
<1>2. nodes \in NodeMap /\ WatchTaints(nodeWatch)
    BY <1>1 DEF WorldType, OneTaints, WatchTaints
<1>3. ASSUME UNCHANGED <<nodes, nodeIndex, nodeWatch, plSeen, plan>> PROVE OneTaints'
    BY <1>3 DEF OneTaints
<1> USE DEF clusterVars, plVars, plLoopVars, apiVars, cacheVars, plCacheVars
<1>4. CASE PLDeliverNag
    BY <1>3, <1>4 DEF PLDeliverNag
<1>5. CASE PLDeliverNode
    <2> DEFINE T == [node: Node, obj: NodeObject \cup {None}]
    <2>1. /\ nodeWatch # <<>> /\ nodeWatch' = Tail(nodeWatch)
          /\ nodeIndex' = [nodeIndex EXCEPT ![Head(nodeWatch).node] = Head(nodeWatch).obj]
          /\ UNCHANGED <<nodes, plSeen, plan>>
        BY <1>5 DEF PLDeliverNode
    <2>2. nodeWatch \in Seq(T) /\ nodeIndex \in NodeMap
        BY <1>1 DEF WatchType, WorldType
    <2> HIDE DEF T
    <2>3. 1 \in DOMAIN nodeWatch /\ Head(nodeWatch) = nodeWatch[1]
        BY <2>1, <2>2
    <2>4. \A i \in DOMAIN nodeWatch' : i + 1 \in DOMAIN nodeWatch /\ nodeWatch'[i] = nodeWatch[i + 1]
        BY <2>1, <2>2
    <2>5. \A n \in Node : nodeIndex'[n] \in {nodeIndex[n], nodeWatch[1].obj}
        BY <2>1, <2>2, <2>3 DEF NodeMap
    <2>6. \A n \in Node : OneTaint(nodeIndex'[n])
        BY <2>3, <2>5 DEF OneTaints
    <2>7. \A i \in DOMAIN nodeWatch' : OneTaint(nodeWatch'[i].obj)
        BY <2>4 DEF OneTaints
    <2> QED  BY <2>1, <2>6, <2>7 DEF OneTaints
<1>6. CASE PLRetryDue \/ PLDequeue \/ PLLookupAbsent \/ PLRunReturns \/ PLFinishItem
    BY <1>3, <1>6 DEF PLRetryDue, PLDequeue, PLLookupAbsent, PLRunReturns, PLFinishItem
<1>7. CASE PLLookupFound
    BY <1>3, <1>7 DEF PLLookupFound, PLStart
<1>8. CASE PLRunStep
    <2>1. /\ \A n \in Node : /\ OneTaint(nodes'[n]) /\ OneTaint(nodeIndex'[n])
                             /\ OneTaint(plSeen'[n])
          /\ PlanTaints(plan')
        BY <1>1, <1>8, RunTaints DEF PLRunStep
    <2>2. WatchTaints(nodeWatch')
        BY <1>1, <1>2, <1>8, <2>1, WatchKeepsTaints DEF PLRunStep
    <2> QED  BY <2>1, <2>2 DEF OneTaints, PlanTaints, WatchTaints
<1>9. CASE Disturbed
    <2>1. /\ \A n \in Node : OneTaint(nodes'[n])
          /\ WatchNodes /\ UNCHANGED <<nodeIndex, plSeen, plan>>
        BY <1>9, DisturbedTaints
    <2>2. WatchTaints(nodeWatch')
        BY <1>1, <1>2, <2>1, WatchKeepsTaints
    <2> QED  BY <2>1, <2>2 DEF OneTaints, WatchTaints
<1>10. CASE UNCHANGED plAllVars
    BY <1>3, <1>10 DEF plAllVars
<1> QED  BY <1>4, <1>5, <1>6, <1>7, <1>8, <1>9, <1>10 DEF PLControllerNext, PLWorkerNext

-----------------------------------------------------------------------------
(* The steps of a fresh run. *)

LEMMA TailMembers ==
    ASSUME NEW T, NEW s \in Seq(T), s # <<>>
    PROVE  /\ 1 \in DOMAIN s /\ Head(s) = s[1]
           /\ \A i \in DOMAIN Tail(s) : /\ i \in Nat /\ i # 0
                                        /\ i + 1 \in DOMAIN s /\ Tail(s)[i] = s[i + 1]
           /\ \A k \in DOMAIN s : k = 1 \/ (k - 1 \in DOMAIN Tail(s) /\ Tail(s)[k - 1] = s[k])
<1>1. 1 \in DOMAIN s /\ Head(s) = s[1]
    OBVIOUS
<1>2. \A i \in DOMAIN Tail(s) : i \in Nat /\ i # 0 /\ i + 1 \in DOMAIN s /\ Tail(s)[i] = s[i + 1]
    OBVIOUS
<1>3. ASSUME NEW k \in DOMAIN s, k # 1
      PROVE  k - 1 \in DOMAIN Tail(s) /\ Tail(s)[k - 1] = s[k]
    BY <1>3
<1> QED  BY <1>1, <1>2, <1>3

LEMMA OnceSent ==
    ASSUME NEW rest \in Seq(PatchObject), rest # <<>>, Once(rest)
    PROVE  /\ Once(Tail(rest))
           /\ \A k \in DOMAIN Tail(rest) : Tail(rest)[k].node # Head(rest).node
<1> DEFINE t == Tail(rest)
<1>1. /\ 1 \in DOMAIN rest /\ Head(rest) = rest[1]
      /\ \A i \in DOMAIN t : i \in Nat /\ i # 0 /\ i + 1 \in DOMAIN rest /\ t[i] = rest[i + 1]
    BY TailMembers
<1> HIDE DEF t
<1>2. ASSUME NEW k \in DOMAIN t, NEW l \in DOMAIN t, t[k].node = t[l].node PROVE k = l
    <2>1. k + 1 = l + 1
        BY <1>1, <1>2 DEF Once
    <2> QED  BY <1>1, <2>1
<1>3. ASSUME NEW k \in DOMAIN t, t[k].node = Head(rest).node PROVE FALSE
    <2>1. k + 1 = 1
        BY <1>1, <1>3 DEF Once
    <2> QED  BY <1>1, <2>1
<1> QED  BY <1>2, <1>3 DEF Once, t

LEMMA BecomesSent ==
    ASSUME NEW map \in NodeMap, NEW rest \in Seq(PatchObject), rest # <<>>,
           NEW m \in Node, NEW x, Becomes(map, rest, m, x)
    PROVE  Becomes([map EXCEPT ![Head(rest).node] = Head(rest).new], Tail(rest), m, x)
<1> DEFINE p == Head(rest)
           t == Tail(rest)
           map2 == [map EXCEPT ![p.node] = p.new]
<1>1. /\ 1 \in DOMAIN rest /\ p = rest[1]
      /\ \A i \in DOMAIN t : i + 1 \in DOMAIN rest /\ t[i] = rest[i + 1]
      /\ \A k \in DOMAIN rest : k = 1 \/ (k - 1 \in DOMAIN t /\ t[k - 1] = rest[k])
    BY TailMembers
<1>2. map2[m] = IF m = p.node THEN p.new ELSE map[m]
    BY DEF NodeMap
<1> HIDE DEF p, t, map2
<1>3. \A k \in DOMAIN t : t[k].node = m => t[k].new = x
    BY <1>1 DEF Becomes
<1>4. ASSUME \A k \in DOMAIN t : t[k].node # m PROVE map2[m] = x
    <2>1. CASE p.node = m
        BY <1>1, <1>2, <2>1 DEF Becomes
    <2>2. CASE p.node # m
        <3>1. \A k \in DOMAIN rest : rest[k].node # m
            BY <1>1, <1>4, <2>2
        <3> QED  BY <1>2, <2>2, <3>1 DEF Becomes
    <2> QED  BY <2>1, <2>2
<1>5. Becomes(map2, t, m, x)
    BY <1>3, <1>4 DEF Becomes
<1> QED  BY <1>5 DEF map2, p, t

LEMMA PlannedSent ==
    ASSUME NEW map \in NodeMap, NEW rest \in Seq(PatchObject), rest # <<>>,
           NEW load, NEW seen, NEW spec, NEW name, GroupPlanned(load, seen, map, rest, spec, name)
    PROVE  GroupPlanned(load, seen, [map EXCEPT ![Head(rest).node] = Head(rest).new], Tail(rest),
                        spec, name)
<1> DEFINE S == Balanceable(seen, spec, name)
           map2 == [map EXCEPT ![Head(rest).node] = Head(rest).new]
<1>1. SUFFICES ASSUME S # {} PROVE GroupPlanned(load, seen, map2, Tail(rest), spec, name)
    BY DEF GroupPlanned
<1>2. PICK s \in Ranked(load, S) :
        \A i \in DOMAIN s : Becomes(map, rest, s[i], Planned(load, seen, spec, name, s, i))
    BY <1>1 DEF GroupPlanned
<1>3. S \in SUBSET Node /\ IsFiniteSet(S)
    BY NodeAssumption, FS_Subset DEF Balanceable, PackLeftNodes
<1>4. \A i \in DOMAIN s : s[i] \in Node
    BY <1>3, SeqsOfBijection DEF Ranked
<1> HIDE DEF S
<1>5. ASSUME NEW i \in DOMAIN s
      PROVE  Becomes(map2, Tail(rest), s[i], Planned(load, seen, spec, name, s, i))
    BY <1>2, <1>4, BecomesSent
<1> HIDE DEF map2
<1> QED  BY <1>5 DEF GroupPlanned, S, map2

LEMMA PatchFromCopy ==
    ASSUME NEW x \in NodeObject, NEW new \in NodeObject, SameShape(new, x)
    PROVE  Patch(x, x, new) = new
<1>1. new.labels = x.labels /\ new.assign = x.assign /\ new.ready = x.ready
    BY NoneAssumption DEF SameShape
<1>2. Patch(x, x, new) = [x EXCEPT !.assign = new.assign, !.packleft = new.packleft,
                                   !.taints = new.taints]
    BY DEF Patch, NodeObject
<1> QED  BY <1>1, <1>2 DEF NodeObject

\* A patch that does not fail, made from a current copy, stores what was planned.
LEMMA SentFresh ==
    ASSUME PLControllerInv, NEW phase, SendNext(phase), plFailed' = FALSE,
           nodes[Head(plan).node] = plSeen[Head(plan).node],
           SameShape(Head(plan).new, plSeen[Head(plan).node])
    PROVE  /\ plan \in Seq(PatchObject) /\ plan # <<>> /\ plan' = Tail(plan)
           /\ Faithful(plSeen, Head(plan))
           /\ nodes' = [nodes EXCEPT ![Head(plan).node] = Head(plan).new]
           /\ \A n \in Node : SameShape(nodes'[n], nodes[n])
           /\ UNCHANGED <<nag, podIndex, nodeIndex, plPc, plNag, plSeen, plGroups, plClean>>
<1> DEFINE p == Head(plan)
           n == p.node
<1>1. plan \in Seq(PatchObject) /\ plan # <<>> /\ plan' = Tail(plan)
    BY DEF PLControllerInv, PLTypeInv, RunType, SendNext
<1>2. Faithful(plSeen, p)
    BY <1>1, TailOfPlan DEF PLControllerInv, PLTypeInv
<1>3. n \in Node /\ p.new \in NodeObject /\ plSeen[n] \in NodeObject /\ nodes[n] # None
    BY <1>2 DEF Faithful, PatchObject, PLControllerInv, PLTypeInv, RunType, NodeMap
<1>4. SendPatch(p) \/ SendFails(p)
    BY DEF SendNext
<1>5. nodes' = [nodes EXCEPT ![n] = Patch(@, plSeen[n], p.new)]
    BY <1>3, <1>4 DEF SendPatch, SendFails, PLFail
<1>6. Patch(plSeen[n], plSeen[n], p.new) = p.new
    BY <1>3, PatchFromCopy
<1>7. nodes' = [nodes EXCEPT ![n] = p.new]
    BY <1>5, <1>6
<1>8. ASSUME NEW m \in Node PROVE SameShape(nodes'[m], nodes[m])
    <2>1. nodes'[m] = IF m = n THEN p.new ELSE nodes[m]
        BY <1>7 DEF PLControllerInv, PLTypeInv, WorldType, NodeMap
    <2> QED  BY <2>1 DEF SameShape
<1> QED  BY <1>1, <1>2, <1>7, <1>8 DEF SendNext, cacheVars, plCacheVars

\* Labels and readiness stay what they are.
LEMMA ShapesKept ==
    ASSUME PLControllerInv, Shapes, nodes' \in NodeMap, WatchNodes, nodeIndex' = nodeIndex,
           \A n \in Node : SameShape(nodes'[n], nodes[n]),
           plPc' # "done" => plSeen' = nodeIndex \/ (plPc # "done" /\ plSeen' = plSeen)
    PROVE  Shapes'
<1>1. nodes \in NodeMap /\ WatchType
    BY DEF PLControllerInv, PLTypeInv, WorldType
<1>2. \A n \in Node : SameShape(nodeIndex'[n], nodes'[n])
    BY DEF Shapes, SameShape
<1>3. plPc' # "done" => \A n \in Node : SameShape(plSeen'[n], nodes'[n])
    BY DEF Shapes, SameShape
<1>4. ASSUME NEW i \in DOMAIN nodeWatch'
      PROVE  SameShape(nodeWatch'[i].obj, nodes'[nodeWatch'[i].node])
    <2>1. CASE i \in DOMAIN nodeWatch /\ nodeWatch'[i] = nodeWatch[i]
        <3>1. nodeWatch[i].node \in Node
            <4> DEFINE T == [node: Node, obj: NodeObject \cup {None}]
            <4>1. nodeWatch \in Seq(T)
                BY <1>1 DEF WatchType
            <4> HIDE DEF T
            <4>2. nodeWatch[i] \in T
                BY <2>1, <4>1
            <4> QED  BY <4>2 DEF T
        <3>2. SameShape(nodeWatch[i].obj, nodes[nodeWatch[i].node])
            BY <2>1 DEF Shapes
        <3> QED  BY <2>1, <3>1, <3>2 DEF SameShape
    <2>2. CASE \E n \in Node : nodeWatch'[i] = [node |-> n, obj |-> nodes'[n]]
        BY <2>2 DEF SameShape
    <2> QED  BY <1>1, <2>1, <2>2, WatchMembers
<1> QED  BY <1>2, <1>3, <1>4 DEF Shapes

LEMMA PackedHasAssignment ==
    ASSUME NEW spec \in NagSpec, NEW seen, NEW name, NEW n \in PackLeftNodes(spec, seen, name)
    PROVE  HasPackLeftAssignment(spec, seen[n])
<1> DEFINE a == AssignmentByName(spec, name)
<1>1. GetAssignment(seen[n]) = name /\ IsPackLeft(a) /\ a # None
    BY DEF PackLeftNodes, IsPackLeft
<1>2. a.name = name /\ \E i \in DOMAIN AllAssignments(spec) : AllAssignments(spec)[i] = a
    BY <1>1, AssignmentFound
<1> QED  BY <1>1, <1>2 DEF HasPackLeftAssignment

LEMMA ShapeAssigns ==
    ASSUME NEW spec, NEW x, NEW y, x # None, SameShape(x, y)
    PROVE  HasPackLeftAssignment(spec, x) <=> HasPackLeftAssignment(spec, y)
BY DEF HasPackLeftAssignment, SameShape, GetAssignment

\* What holds of a fresh run in the state before one of its steps.
LEMMA FreshFacts ==
    ASSUME PLControllerInv, OneTaints, FreshInv, plClean, ~plFailed
    PROVE  /\ nag # None /\ Shapes
           /\ plPc = "balance" => Balancing /\ plNag.spec = nag.spec
           /\ plPc = "cleaning" => Cleaning /\ plNag.spec = nag.spec
           /\ plPc = "done" => AllPacked(nag.spec) /\ AllClean(nag.spec)
           /\ plPc \in {"balance", "cleaning", "done"}
           /\ plPc # "done" => plNag.spec \in NagSpec
           /\ WorldType /\ RunType /\ WatchType
           /\ nodes \in NodeMap /\ nodeIndex \in NodeMap /\ plSeen \in NodeMap
           /\ plan \in Seq(PatchObject)
BY SpecOfRun DEF FreshInv, PLControllerInv, PLTypeInv, WorldType, RunType

LEMMA SendStateFresh ==
    ASSUME PLControllerInv, OneTaints, FreshInv, plClean, ~plFailed,
           SendState, WatchNodes, plFailed' = FALSE, nodes' \in NodeMap
    PROVE  FreshInv'
<1> DEFINE p == Head(plan)
           n == p.node
           load == LoadOf(podIndex)
           spec == plNag.spec
<1>1. /\ Shapes /\ Balancing /\ spec = nag.spec /\ nag # None /\ plPc = "balance" /\ plan # <<>>
      /\ WorldType /\ RunType /\ WatchType /\ plSeen \in NodeMap /\ nodes \in NodeMap
      /\ plan \in Seq(PatchObject)
    BY FreshFacts DEF SendState, SendNext
<1>2. /\ 1 \in DOMAIN plan /\ p = plan[1]
      /\ \A i \in DOMAIN Tail(plan) : i + 1 \in DOMAIN plan /\ Tail(plan)[i] = plan[i + 1]
    BY <1>1, TailMembers
<1>3. /\ nodes[n] = plSeen[n]
      /\ \E state \in PackLeftState : p.new = SetState(plSeen[n], state)
      /\ Reached(spec, plSeen, plGroups, n)
    BY <1>1, <1>2 DEF Balancing
<1>4. Faithful(plSeen, p)
    BY <1>1, TailOfPlan
<1>5. n \in Node /\ plSeen[n] \in NodeObject /\ OneTaint(plSeen[n])
    BY <1>1, <1>4 DEF Faithful, PatchObject, NodeMap, OneTaints
<1>6. SameShape(p.new, plSeen[n])
    BY <1>3, <1>5, StateGiven
<1>7. /\ plan' = Tail(plan)
      /\ nodes' = [nodes EXCEPT ![n] = p.new]
      /\ \A m \in Node : SameShape(nodes'[m], nodes[m])
      /\ UNCHANGED <<nag, podIndex, nodeIndex, plPc, plNag, plSeen, plGroups, plClean>>
    BY <1>3, <1>6, SentFresh DEF SendState
<1> HIDE DEF p, n
<1>8. Shapes'
    BY <1>1, <1>7, ShapesKept
<1>9. ASSUME NEW name \in AName \ plGroups
      PROVE  GroupPlanned(load, plSeen, nodes', plan', spec, name)
    <2>1. GroupPlanned(load, plSeen, nodes, plan, spec, name)
        BY <1>1 DEF Balancing
    <2> QED  BY <1>1, <1>7, <2>1, PlannedSent DEF n, p
<1>10. ASSUME NEW m \in Node
       PROVE  Untouched(m)' \/ Reached(spec, plSeen, plGroups, m)
    <2>1. CASE m = n
        BY <1>3, <2>1
    <2>2. CASE m # n /\ Untouched(m)
        <3>1. nodes'[m] = nodes[m]
            BY <1>1, <1>7, <2>2 DEF NodeMap
        <3>2. \A i \in DOMAIN nodeWatch' : nodeWatch'[i].node # m
            BY <1>1, <2>2, <3>1, WatchMembers DEF Untouched
        <3> QED  BY <1>7, <2>2, <3>1, <3>2 DEF Untouched
    <2>3. CASE Reached(spec, plSeen, plGroups, m)
        BY <2>3
    <2> QED  BY <1>1, <2>1, <2>2, <2>3 DEF Balancing
<1>11. Once(plan') /\ \A k \in DOMAIN plan' : plan'[k].node # n
    <2>1. Once(plan)
        BY <1>1 DEF Balancing
    <2> QED  BY <1>1, <1>7, <2>1, OnceSent DEF n, p
<1>12. ASSUME NEW k \in DOMAIN plan'
       PROVE  /\ nodes'[plan'[k].node] = plSeen[plan'[k].node]
              /\ \E state \in PackLeftState : plan'[k].new = SetState(plSeen[plan'[k].node], state)
              /\ Reached(spec, plSeen, plGroups, plan'[k].node)
    <2>1. k + 1 \in DOMAIN plan /\ plan'[k] = plan[k + 1]
        BY <1>2, <1>7
    <2>2. /\ nodes[plan'[k].node] = plSeen[plan'[k].node]
          /\ \E state \in PackLeftState : plan'[k].new = SetState(plSeen[plan'[k].node], state)
          /\ Reached(spec, plSeen, plGroups, plan'[k].node)
        BY <1>1, <2>1 DEF Balancing
    <2>3. nodes'[plan'[k].node] = nodes[plan'[k].node]
        BY <1>1, <1>7, <1>11 DEF NodeMap
    <2> QED  BY <2>2, <2>3
<1>13. Balancing'
    BY <1>7, <1>9, <1>10, <1>11, <1>12 DEF Balancing
<1> QED  BY <1>1, <1>7, <1>8, <1>13 DEF FreshInv

LEMMA ListGroupsFresh ==
    ASSUME PLControllerInv, ListGroups, WatchNodes, plClean'
    PROVE  FreshInv'
<1> DEFINE spec == plNag.spec
<1>1. /\ nodeIndex = nodes /\ nodeWatch = <<>> /\ nag # None
      /\ plNag.spec = nag.spec
    BY DEF ListGroups, CachesCurrent
<1>2. /\ plPc' = "balance" /\ plSeen' = nodeIndex
      /\ plGroups' = {name \in AName : PackLeftNodes(spec, nodeIndex, name) # {}}
      /\ UNCHANGED <<nodes, nag, nodeIndex, podIndex, plNag, plan>>
    BY DEF ListGroups, PLGoto, apiVars, plCacheVars
<1>3. plan = <<>>
    BY DEF ListGroups, PLControllerInv, PLTypeInv, RunType
<1>4. nodeWatch' = nodeWatch
    BY <1>2 DEF WatchNodes
<1>5. Shapes'
    BY <1>1, <1>2, <1>4 DEF Shapes, SameShape
<1>6. \A name \in AName \ plGroups' :
        GroupPlanned(LoadOf(podIndex'), plSeen', nodes', plan', plNag'.spec, name)
    BY <1>2 DEF GroupPlanned, Balanceable
<1>7. \A n \in Node : Untouched(n)'
    BY <1>1, <1>2, <1>4 DEF Untouched
<1>8. DOMAIN plan' = {}
    BY <1>2, <1>3
<1>9. Balancing'
    BY <1>6, <1>7, <1>8 DEF Balancing, Once
<1> QED  BY <1>1, <1>2, <1>5, <1>9 DEF FreshInv

\* balanceNodes plans for nodes the run has not come to yet.
LEMMA BalanceNodesFresh ==
    ASSUME PLControllerInv, OneTaints, FreshInv, plClean, ~plFailed, BalanceNodes, WatchNodes
    PROVE  FreshInv'
<1> DEFINE load == LoadOf(podIndex)
           spec == plNag.spec
<1>1. PICK name \in plGroups :
        /\ plPc = "balance" /\ plan = <<>>
        /\ plan' \in BalancePlans(plSeen, spec, name)
        /\ plGroups' = plGroups \ {name}
        /\ UNCHANGED <<apiVars, cacheVars, plCacheVars, plPc, plNag, plErr, plCopy, plTries,
                       plSeen, plClean, plFailed, edits, faults>>
    BY DEF BalanceNodes
<1> DEFINE S == Balanceable(plSeen, spec, name)
<1>2. /\ Shapes /\ Balancing /\ spec = nag.spec /\ nag # None
      /\ spec \in NagSpec /\ RunType /\ plSeen \in NodeMap
    BY <1>1, FreshFacts
<1>3. /\ UNCHANGED <<nodes, nag, nodeIndex, podIndex, plPc, plNag, plSeen>>
      /\ nodeWatch' = nodeWatch
    BY <1>1 DEF WatchNodes, apiVars, plCacheVars
<1>4. Shapes'
    BY <1>2, <1>3 DEF Shapes
<1>5. PICK s \in Ranked(load, S) :
        /\ \A k \in DOMAIN plan' : \E i \in DOMAIN s :
              /\ plan'[k].node = s[i]
              /\ plan'[k].new = Planned(load, plSeen, spec, name, s, i)
        /\ \A i \in DOMAIN s :
              \/ Planned(load, plSeen, spec, name, s, i) = plSeen[s[i]]
              \/ \E k \in DOMAIN plan' : plan'[k].node = s[i]
        /\ Once(plan')
    BY <1>1, <1>2, BalancePatches
<1>6. S \in SUBSET Node /\ IsFiniteSet(S) /\ S \subseteq PackLeftNodes(spec, plSeen, name)
    BY NodeAssumption, FS_Subset DEF Balanceable, PackLeftNodes
<1>7. /\ \A i \in DOMAIN s : s[i] \in S
      /\ \A i, j \in DOMAIN s : s[i] = s[j] => i = j
    BY <1>6, SeqsOfBijection DEF Ranked
<1>8. name \in AName /\ name \notin plGroups' /\ name \in plGroups
    BY <1>1, <1>2 DEF RunType
<1>9. ASSUME NEW n \in PackLeftNodes(spec, plSeen, name)
      PROVE  /\ n \in Node /\ nodes[n] = plSeen[n]
             /\ \A other : n \in PackLeftNodes(spec, plSeen, other) => other = name
    <2>1. n \in Node /\ \A other : n \in PackLeftNodes(spec, plSeen, other) => other = name
        BY DEF PackLeftNodes
    <2>2. ~Reached(spec, plSeen, plGroups, n)
        BY <1>8, <2>1 DEF Reached
    <2> QED  BY <1>2, <2>1, <2>2 DEF Balancing, Untouched
<1> HIDE DEF load
<1>10. GroupPlanned(load, plSeen, nodes, plan', spec, name)
    <2>1. ASSUME NEW i \in DOMAIN s
          PROVE  Becomes(nodes, plan', s[i], Planned(load, plSeen, spec, name, s, i))
        <3>1. \A k \in DOMAIN plan' : plan'[k].node = s[i] =>
                plan'[k].new = Planned(load, plSeen, spec, name, s, i)
            BY <1>5, <1>7
        <3>2. nodes[s[i]] = plSeen[s[i]]
            BY <1>6, <1>7, <1>9
        <3> QED  BY <1>5, <3>1, <3>2 DEF Becomes
    <2> QED  BY <2>1 DEF GroupPlanned
<1>11. ASSUME NEW other \in AName \ plGroups, other # name
       PROVE  GroupPlanned(load, plSeen, nodes, plan', spec, other)
    <2> DEFINE T == Balanceable(plSeen, spec, other)
    <2>1. GroupPlanned(load, plSeen, nodes, <<>>, spec, other)
        BY <1>1, <1>2 DEF Balancing, load
    <2>2. SUFFICES ASSUME T # {} PROVE GroupPlanned(load, plSeen, nodes, plan', spec, other)
        BY DEF GroupPlanned
    <2>3. PICK r \in Ranked(load, T) :
            \A i \in DOMAIN r : Becomes(nodes, <<>>, r[i], Planned(load, plSeen, spec, other, r, i))
        BY <2>1, <2>2 DEF GroupPlanned
    <2>4. T \in SUBSET Node /\ IsFiniteSet(T) /\ T \subseteq PackLeftNodes(spec, plSeen, other)
        BY NodeAssumption, FS_Subset DEF Balanceable, PackLeftNodes
    <2>5. \A i \in DOMAIN r : r[i] \in T
        BY <2>4, SeqsOfBijection DEF Ranked
    <2>6. \A n \in T : n \notin S
        BY <1>6, <1>9, <1>11, <2>4
    <2>7. DOMAIN <<>> = {}
        OBVIOUS
    <2>8. \A i \in DOMAIN r, k \in DOMAIN plan' : plan'[k].node # r[i]
        BY <1>5, <1>7, <2>5, <2>6
    <2> HIDE DEF T, S
    <2>9. \A i \in DOMAIN r : Becomes(nodes, plan', r[i], Planned(load, plSeen, spec, other, r, i))
        BY <2>3, <2>7, <2>8 DEF Becomes
    <2> QED  BY <2>9 DEF GroupPlanned, T
<1>12. \A other \in AName \ plGroups' : GroupPlanned(load, plSeen, nodes, plan', spec, other)
    BY <1>1, <1>10, <1>11
<1>13. \A n \in Node : Reached(spec, plSeen, plGroups, n) => Reached(spec, plSeen, plGroups', n)
    BY <1>1 DEF Reached
<1>14. \A n \in Node : Untouched(n)' \/ Reached(spec, plSeen, plGroups', n)
    <2>1. \A n \in Node : Untouched(n) => Untouched(n)'
        BY <1>3 DEF Untouched
    <2> QED  BY <1>2, <1>13, <2>1 DEF Balancing
<1>15. ASSUME NEW k \in DOMAIN plan'
       PROVE  /\ nodes[plan'[k].node] = plSeen[plan'[k].node]
              /\ \E state \in PackLeftState : plan'[k].new = SetState(plSeen[plan'[k].node], state)
              /\ Reached(spec, plSeen, plGroups', plan'[k].node)
    <2>1. PICK i \in DOMAIN s :
            plan'[k].node = s[i] /\ plan'[k].new = Planned(load, plSeen, spec, name, s, i)
        BY <1>5
    <2>2. s[i] \in PackLeftNodes(spec, plSeen, name)
        BY <1>6, <1>7
    <2>3. nodes[s[i]] = plSeen[s[i]]
        BY <1>9, <2>2
    <2>4. \E state \in PackLeftState :
            Planned(load, plSeen, spec, name, s, i) = SetState(plSeen[s[i]], state)
        BY DEF Planned, Place, PackLeftState
    <2>5. Reached(spec, plSeen, plGroups', s[i])
        BY <1>8, <2>2 DEF Reached
    <2> QED  BY <2>1, <2>3, <2>4, <2>5
<1>16. Balancing'
    <2>1. Once(plan')
        BY <1>5
    <2> QED  BY <1>3, <1>12, <1>14, <1>15, <2>1 DEF Balancing, load
<1> QED  BY <1>1, <1>2, <1>3, <1>4, <1>16 DEF FreshInv

\* Every assignment is packed when the last one's patches are sent, and what
\* is left over can be seen in the indexer.
LEMMA CleanUnassignedFresh ==
    ASSUME PLControllerInv, OneTaints, FreshInv, plClean, ~plFailed, CleanUnassigned, WatchNodes
    PROVE  FreshInv'
<1> DEFINE load == LoadOf(podIndex)
           spec == plNag.spec
           S == {n \in Node : nodeIndex[n] # None /\ Leftover(spec, nodeIndex[n])}
<1>1. /\ plPc = "balance" /\ plan = <<>> /\ plGroups = {}
      /\ plPc' = "cleaning" /\ plSeen' = nodeIndex
      /\ plan' \in ClearPlans(nodeIndex, S)
      /\ UNCHANGED <<nodes, nag, nodeIndex, podIndex, plNag, plClean, plFailed>>
    BY DEF CleanUnassigned, PLGoto, apiVars, plCacheVars
<1>2. /\ Shapes /\ Balancing /\ spec = nag.spec /\ nag # None /\ spec \in NagSpec
      /\ nodes \in NodeMap /\ nodeIndex \in NodeMap /\ plSeen \in NodeMap
    BY <1>1, FreshFacts
<1>3. nodeWatch' = nodeWatch
    BY <1>1 DEF WatchNodes
<1>4. Shapes'
    BY <1>1, <1>2, <1>3 DEF Shapes
<1>5. AllPacked(spec)
    <2>1. ASSUME NEW name \in AName PROVE GroupPacked(load, nodes, spec, name)
        <3>1. GroupPlanned(load, plSeen, nodes, <<>>, spec, name)
            BY <1>1, <1>2 DEF Balancing
        <3>2. \A n \in Node : SameShape(plSeen[n], nodes[n]) /\ OneTaint(plSeen[n])
            BY <1>1, <1>2 DEF Shapes, OneTaints
        <3> QED  BY <1>2, <3>1, <3>2, LoadType, PlannedIsPacked
    <2> QED  BY <2>1 DEF AllPacked
<1>6. ASSUME NEW n \in Node, nodes[n] # None, ~HasPackLeftAssignment(spec, nodes[n])
      PROVE  nodeIndex[n] = nodes[n]
    <2>1. ASSUME NEW name, n \in PackLeftNodes(spec, plSeen, name) PROVE FALSE
        <3>1. HasPackLeftAssignment(spec, plSeen[n]) /\ plSeen[n] # None
            BY <1>2, <2>1, PackedHasAssignment DEF PackLeftNodes
        <3>2. SameShape(plSeen[n], nodes[n])
            BY <1>1, <1>2 DEF Shapes
        <3> QED  BY <1>6, <3>1, <3>2, ShapeAssigns
    <2>2. ~Reached(spec, plSeen, plGroups, n)
        BY <2>1 DEF Reached
    <2> QED  BY <1>2, <2>2 DEF Balancing, Untouched
<1>7. ASSUME NEW n \in S
      PROVE  nodes[n] = nodeIndex[n] /\ ~HasPackLeftAssignment(spec, nodes[n])
    <2>1. SameShape(nodeIndex[n], nodes[n])
        BY <1>2 DEF Shapes
    <2>2. nodes[n] # None /\ ~HasPackLeftAssignment(spec, nodes[n])
        BY <2>1, ShapeAssigns DEF Leftover, SameShape
    <2> QED  BY <1>6, <2>2
<1>8. S \in SUBSET Node /\ \A n \in S : nodeIndex[n] \in NodeObject /\ OneTaint(nodeIndex[n])
    BY <1>2 DEF NodeMap, OneTaints
<1>9. /\ \A k \in DOMAIN plan' :
            plan'[k].node \in S /\ plan'[k].new = ClearPackLeft(nodeIndex[plan'[k].node])
      /\ \A n \in S : \/ ClearPackLeft(nodeIndex[n]) = nodeIndex[n]
                     \/ \E k \in DOMAIN plan' : plan'[k].node = n
      /\ Once(plan')
    <2> HIDE DEF S
    <2> QED  BY <1>1, <1>2, <1>8, ClearPatches
<1>10. ASSUME NEW n \in Node
       PROVE  \/ nodes[n] = None \/ ~Leftover(spec, nodes[n])
              \/ \E k \in DOMAIN plan' : plan'[k].node = n
    <2>1. SUFFICES ASSUME nodes[n] # None, Leftover(spec, nodes[n])
                   PROVE  \E k \in DOMAIN plan' : plan'[k].node = n
        OBVIOUS
    <2>2. n \in S /\ HasPackLeftAttributes(nodeIndex[n])
        BY <1>6, <2>1 DEF Leftover
    <2>3. ClearPackLeft(nodeIndex[n]) # nodeIndex[n]
        BY <1>8, <2>2, StateCleared
    <2> QED  BY <1>9, <2>2, <2>3
<1> HIDE DEF S
<1>11. Cleaning'
    <2>1. AllPacked(spec)'
        BY <1>1, <1>5 DEF AllPacked
    <2>2. /\ Once(plan')
          /\ \A k \in DOMAIN plan' :
                /\ nodes[plan'[k].node] = nodeIndex[plan'[k].node]
                /\ plan'[k].new = ClearPackLeft(nodeIndex[plan'[k].node])
                /\ ~HasPackLeftAssignment(spec, nodes[plan'[k].node])
        BY <1>7, <1>9
    <2> QED  BY <1>1, <1>10, <2>1, <2>2 DEF Cleaning
<1> QED  BY <1>1, <1>2, <1>4, <1>11 DEF FreshInv

\* A group is packed as long as its own nodes stay.
LEMMA StaysPacked ==
    ASSUME NEW load, NEW map \in NodeMap, NEW map2 \in NodeMap, NEW spec, NEW name,
           \A n \in Node : SameShape(map2[n], map[n]),
           \A n \in PackLeftNodes(spec, map, name) : map2[n] = map[n],
           GroupPacked(load, map, spec, name)
    PROVE  GroupPacked(load, map2, spec, name)
<1> DEFINE S == Balanceable(map, spec, name)
<1>1. Balanceable(map2, spec, name) = S /\ BufferOf(map2, spec, name) = BufferOf(map, spec, name)
    BY ShapeDecides
<1>2. \A n \in S : map2[n] = map[n]
    BY DEF Balanceable
<1> HIDE DEF S
<1>3. [n \in S |-> map2[n].packleft] = [n \in S |-> map[n].packleft]
    BY <1>2
<1> QED  BY <1>1, <1>2, <1>3 DEF GroupPacked, S

LEMMA SendClearFresh ==
    ASSUME PLControllerInv, OneTaints, FreshInv, plClean, ~plFailed,
           SendClear, WatchNodes, plFailed' = FALSE, nodes' \in NodeMap
    PROVE  FreshInv'
<1> DEFINE p == Head(plan)
           n == p.node
           load == LoadOf(podIndex)
           spec == plNag.spec
<1>1. /\ Shapes /\ Cleaning /\ spec = nag.spec /\ nag # None /\ plPc = "cleaning" /\ plan # <<>>
      /\ RunType /\ plSeen \in NodeMap /\ nodes \in NodeMap /\ plan \in Seq(PatchObject)
      /\ spec \in NagSpec
    BY FreshFacts DEF SendClear, SendNext
<1>2. /\ 1 \in DOMAIN plan /\ p = plan[1]
      /\ \A i \in DOMAIN Tail(plan) : i + 1 \in DOMAIN plan /\ Tail(plan)[i] = plan[i + 1]
      /\ \A k \in DOMAIN plan : k = 1 \/ (k - 1 \in DOMAIN Tail(plan) /\ Tail(plan)[k - 1] = plan[k])
    BY <1>1, TailMembers
<1>3. /\ nodes[n] = plSeen[n] /\ p.new = ClearPackLeft(plSeen[n])
      /\ ~HasPackLeftAssignment(spec, nodes[n])
    BY <1>1, <1>2 DEF Cleaning
<1>4. Faithful(plSeen, p)
    BY <1>1, TailOfPlan
<1>5. n \in Node /\ plSeen[n] \in NodeObject /\ OneTaint(plSeen[n])
    BY <1>1, <1>4 DEF Faithful, PatchObject, NodeMap, OneTaints
<1>6. SameShape(p.new, plSeen[n]) /\ ~HasPackLeftAttributes(p.new)
    BY <1>3, <1>5, StateCleared
<1>7. /\ plan' = Tail(plan)
      /\ nodes' = [nodes EXCEPT ![n] = p.new]
      /\ \A m \in Node : SameShape(nodes'[m], nodes[m])
      /\ UNCHANGED <<nag, podIndex, nodeIndex, plPc, plNag, plSeen, plGroups, plClean>>
    BY <1>3, <1>6, SentFresh DEF SendClear
<1>8. \A m \in Node : nodes'[m] = IF m = n THEN p.new ELSE nodes[m]
    BY <1>1, <1>7 DEF NodeMap
<1>9. Once(plan') /\ \A k \in DOMAIN plan' : plan'[k].node # n
    <2>1. Once(plan)
        BY <1>1 DEF Cleaning
    <2> QED  BY <1>1, <1>7, <2>1, OnceSent
<1> HIDE DEF p, n
<1>10. Shapes'
    BY <1>1, <1>7, ShapesKept
<1>11. AllPacked(spec)'
    <2>1. ASSUME NEW name \in AName PROVE GroupPacked(load, nodes', spec, name)
        <3>1. GroupPacked(load, nodes, spec, name)
            BY <1>1 DEF Cleaning, AllPacked
        <3>2. n \notin PackLeftNodes(spec, nodes, name)
            BY <1>1, <1>3, PackedHasAssignment
        <3>3. \A m \in PackLeftNodes(spec, nodes, name) : nodes'[m] = nodes[m]
            BY <1>8, <3>2 DEF PackLeftNodes
        <3> HIDE DEF load, spec
        <3> QED  BY <1>1, <1>7, <3>1, <3>3, StaysPacked
    <2> QED  BY <1>7, <2>1 DEF AllPacked
<1>12. ASSUME NEW k \in DOMAIN plan'
       PROVE  /\ nodes'[plan'[k].node] = plSeen[plan'[k].node]
              /\ plan'[k].new = ClearPackLeft(plSeen[plan'[k].node])
              /\ ~HasPackLeftAssignment(spec, nodes'[plan'[k].node])
    <2>1. k + 1 \in DOMAIN plan /\ plan'[k] = plan[k + 1]
        BY <1>2, <1>7
    <2>2. /\ nodes[plan'[k].node] = plSeen[plan'[k].node]
          /\ plan'[k].new = ClearPackLeft(plSeen[plan'[k].node])
          /\ ~HasPackLeftAssignment(spec, nodes[plan'[k].node])
        BY <1>1, <2>1 DEF Cleaning
    <2>3. nodes'[plan'[k].node] = nodes[plan'[k].node]
        BY <1>1, <1>7, <1>9 DEF NodeMap
    <2> QED  BY <2>2, <2>3
<1>13. ASSUME NEW m \in Node
       PROVE  \/ nodes'[m] = None \/ ~Leftover(spec, nodes'[m])
              \/ \E k \in DOMAIN plan' : plan'[k].node = m
    <2>1. CASE m = n
        BY <1>6, <1>8, <2>1 DEF Leftover
    <2>2. CASE m # n /\ \E k \in DOMAIN plan : plan[k].node = m
        <3>1. PICK k \in DOMAIN plan : plan[k].node = m
            BY <2>2
        <3>2. k # 1
            BY <1>2, <2>2, <3>1 DEF n
        <3> QED  BY <1>2, <1>7, <3>1, <3>2
    <2>3. CASE m # n /\ (nodes[m] = None \/ ~Leftover(spec, nodes[m]))
        BY <1>8, <2>3
    <2> QED  BY <1>1, <2>1, <2>2, <2>3 DEF Cleaning
<1>14. Cleaning'
    BY <1>7, <1>9, <1>11, <1>12, <1>13 DEF Cleaning
<1> QED  BY <1>1, <1>7, <1>10, <1>14 DEF FreshInv

LEMMA EndRebalanceFresh ==
    ASSUME PLControllerInv, OneTaints, FreshInv, plClean, ~plFailed, EndRebalance, WatchNodes
    PROVE  FreshInv'
<1>1. /\ plPc = "cleaning" /\ plan = <<>> /\ plPc' = "done"
      /\ UNCHANGED <<nodes, nag, nodeIndex, podIndex, plClean, plFailed>>
    BY DEF EndRebalance, PLEndRun, apiVars, plCacheVars
<1>2. Shapes /\ Cleaning /\ plNag.spec = nag.spec /\ nag # None
    BY <1>1, FreshFacts
<1>3. nodeWatch' = nodeWatch
    BY <1>1 DEF WatchNodes
<1>4. Shapes'
    BY <1>1, <1>2, <1>3 DEF Shapes
<1>5. AllPacked(nag.spec)'
    BY <1>1, <1>2 DEF Cleaning, AllPacked
<1>6. AllClean(nag.spec)'
    <2>1. DOMAIN plan = {}
        BY <1>1
    <2> QED  BY <1>1, <1>2, <2>1 DEF Cleaning, AllClean
<1> QED  BY <1>1, <1>2, <1>4, <1>5, <1>6 DEF FreshInv

\* No other step of a run leaves it fresh.
LEMMA RunFresh ==
    ASSUME PLControllerInv, OneTaints, FreshInv, PLRun, WatchNodes, nodes' \in NodeMap,
           plClean', ~plFailed', plFailed' \in BOOLEAN
    PROVE  FreshInv'
<1>1. CASE ListGroups
    BY <1>1, ListGroupsFresh
<1>2. CASE ~ListGroups
    <2>1. plClean /\ ~plFailed
        <3>1. ASSUME PLNoFault \/ (\E call : PLFail(call)) PROVE ~plFailed
            BY <3>1 DEF PLNoFault, PLFail
        <3>2. ASSUME NEW p, SendPatch(p) \/ SendFails(p) PROVE ~plFailed
            BY <3>1, <3>2 DEF SendPatch, SendFails
        <3>3. ASSUME NEW forbidden, PLUpdateFails(forbidden) PROVE ~plFailed
            BY <3>1, <3>3 DEF PLUpdateFails
        <3>0. ASSUME plClean' = plClean, plFailed' = plFailed PROVE plClean /\ ~plFailed
            BY <3>0
        <3>4. CASE EnsureGet \/ PLRemoveGet
            BY <3>1, <3>4 DEF EnsureGet, PLRemoveGet, PLGetNag
        <3>5. CASE EnsureRetry \/ PLRemoveRetry
            BY <3>0, <3>5 DEF EnsureRetry, PLRemoveRetry, PLRetry
        <3>6. CASE EnsureFails \/ PLRemoveFails
            BY <3>3, <3>6 DEF EnsureFails, PLRemoveFails
        <3>7. CASE EnsureUpdate \/ PLRemoveUpdate \/ EndRebalance
            BY <3>0, <3>1, <3>7 DEF EnsureUpdate, PLRemoveUpdate, PLReplyLost, EndRebalance
        <3>8. CASE BalanceNodes \/ CleanUnassigned \/ CleanAll
            BY <3>0, <3>8 DEF BalanceNodes, CleanUnassigned, CleanAll
        <3>9. CASE SendState \/ SendClear
            BY <3>2, <3>9 DEF SendState, SendClear, SendNext
        <3>10. CASE SendDelete
            BY <3>2, <3>10 DEF SendDelete
        <3> QED  BY <1>2, <3>4, <3>5, <3>6, <3>7, <3>8, <3>9, <3>10 DEF PLRun
    <2>2. plPc \in {"balance", "cleaning", "done"}
        BY <2>1, FreshFacts
    <2>3. SendState \/ SendClear \/ BalanceNodes \/ CleanUnassigned \/ EndRebalance
        BY <1>2, <2>2
           DEF PLRun, EnsureGet, EnsureRetry, EnsureFails, EnsureUpdate, CleanAll, SendDelete,
               PLRemoveGet, PLRemoveRetry, PLRemoveFails, PLRemoveUpdate, PLGetNag, PLRetry
    <2> QED  BY <2>1, <2>3, SendStateFresh, SendClearFresh, BalanceNodesFresh,
                CleanUnassignedFresh, EndRebalanceFresh
<1> QED  BY <1>1, <1>2

\* A delivery of one of the run's own patches.
LEMMA DeliveryFresh ==
    ASSUME PLControllerInv, OneTaints, FreshInv, PLDeliverNode, plClean', ~plFailed'
    PROVE  FreshInv'
<1> DEFINE T == [node: Node, obj: NodeObject \cup {None}]
           e == Head(nodeWatch)
<1>1. /\ nodeWatch # <<>> /\ nodeWatch' = Tail(nodeWatch)
      /\ nodeIndex' = [nodeIndex EXCEPT ![e.node] = e.obj]
      /\ UNCHANGED <<nodes, nag, podIndex, plPc, plNag, plSeen, plGroups, plan, plClean, plFailed>>
    BY DEF PLDeliverNode, apiVars, plVars, plLoopVars
<1>2. /\ Shapes /\ nag # None /\ nodeIndex \in NodeMap
      /\ plPc = "balance" => Balancing /\ plNag.spec = nag.spec
      /\ plPc = "cleaning" => Cleaning /\ plNag.spec = nag.spec
      /\ plPc = "done" => AllPacked(nag.spec) /\ AllClean(nag.spec)
      /\ plPc \in {"balance", "cleaning", "done"}
    BY <1>1, FreshFacts
<1>3. nodeWatch \in Seq(T)
    BY DEF PLControllerInv, PLTypeInv, WatchType
<1> HIDE DEF T
<1>4. /\ 1 \in DOMAIN nodeWatch /\ e = nodeWatch[1]
      /\ \A i \in DOMAIN nodeWatch' : i + 1 \in DOMAIN nodeWatch /\ nodeWatch'[i] = nodeWatch[i + 1]
    BY <1>1, <1>3, TailMembers
<1> HIDE DEF e
<1>5. \A n \in Node : nodeIndex'[n] = IF n = e.node THEN e.obj ELSE nodeIndex[n]
    BY <1>1, <1>2 DEF NodeMap
<1>6. Shapes'
    <2>1. \A n \in Node : SameShape(nodeIndex'[n], nodes'[n])
        BY <1>1, <1>2, <1>4, <1>5 DEF Shapes
    <2>2. \A i \in DOMAIN nodeWatch' : SameShape(nodeWatch'[i].obj, nodes'[nodeWatch'[i].node])
        BY <1>1, <1>2, <1>4 DEF Shapes
    <2>3. plPc' # "done" => \A n \in Node : SameShape(plSeen'[n], nodes'[n])
        BY <1>1, <1>2 DEF Shapes
    <2> QED  BY <2>1, <2>2, <2>3 DEF Shapes
<1>7. \A n \in Node : Untouched(n) => Untouched(n)'
    BY <1>1, <1>4, <1>5 DEF Untouched
<1>8. Balancing => Balancing'
    BY <1>1, <1>7 DEF Balancing
<1>9. Cleaning => Cleaning'
    BY <1>1 DEF Cleaning, AllPacked
<1>10. /\ AllPacked(nag.spec) => AllPacked(nag.spec)'
       /\ AllClean(nag.spec) => AllClean(nag.spec)'
    BY <1>1 DEF AllPacked, AllClean
<1> QED  BY <1>1, <1>2, <1>6, <1>8, <1>9, <1>10 DEF FreshInv

LEMMA FreshElsewhere ==
    ASSUME FreshInv, plClean', ~plFailed',
           UNCHANGED <<nodes, nag, podIndex, nodeIndex, nodeWatch, plPc, plNag, plSeen, plGroups,
                       plan, plClean, plFailed>>
    PROVE  FreshInv'
<1>1. /\ Shapes => Shapes'
      /\ Balancing => Balancing'
      /\ Cleaning => Cleaning'
      /\ AllPacked(nag.spec) => AllPacked(nag.spec)'
      /\ AllClean(nag.spec) => AllClean(nag.spec)'
    BY DEF Shapes, Balancing, Untouched, Cleaning, AllPacked, AllClean
<1> QED  BY <1>1 DEF FreshInv

LEMMA FreshStep ==
    PLControllerInv /\ OneTaints /\ FreshInv /\ [PLControllerNext]_plAllVars => FreshInv'
<1> SUFFICES ASSUME PLControllerInv, OneTaints, FreshInv, [PLControllerNext]_plAllVars,
                    plClean', ~plFailed'
             PROVE  FreshInv'
    BY DEF FreshInv
<1>1. nodes' \in NodeMap /\ plFailed' \in BOOLEAN
    BY PLControllerStepType DEF PLControllerInv, PLTypeInv, WorldType
<1> USE DEF clusterVars, plVars, plLoopVars, apiVars, cacheVars, plCacheVars
<1>2. CASE PLDeliverNag
    BY <1>2, FreshElsewhere DEF PLDeliverNag
<1>3. CASE PLDeliverNode
    BY <1>3, DeliveryFresh
<1>4. CASE PLRetryDue \/ PLDequeue \/ PLLookupAbsent \/ PLRunReturns \/ PLFinishItem
    BY <1>4, FreshElsewhere DEF PLRetryDue, PLDequeue, PLLookupAbsent, PLRunReturns, PLFinishItem
<1>5. CASE PLLookupFound
    BY <1>5 DEF PLLookupFound, PLStart
<1>6. CASE PLRunStep
    BY <1>1, <1>6, RunFresh DEF PLRunStep
<1>7. CASE Disturbed
    BY <1>7, DisturbedType
<1>8. CASE UNCHANGED plAllVars
    BY <1>8, FreshElsewhere DEF plAllVars
<1> QED  BY <1>2, <1>3, <1>4, <1>5, <1>6, <1>7, <1>8 DEF PLControllerNext, PLWorkerNext

\* Whatever earlier runs have left, a run that saw the current cluster and
\* met no failure leaves every assignment packed to the left, and no state
\* on any node that is in none.
THEOREM FreshRunLeavesBalance == PLControllerSpec => []FreshRunBalances
<1>1. PLControllerInit => FreshInv
    BY DEF PLControllerInit, PLInit, FreshInv
<1>2. PLControllerInv /\ OneTaints /\ FreshInv => FreshRunBalances
    <2> SUFFICES ASSUME PLControllerInv, OneTaints, FreshInv, plPc = "done", plClean, ~plFailed
                 PROVE  Balanced(nag.spec)
        BY DEF FreshRunBalances
    <2>1. AllPacked(nag.spec) /\ AllClean(nag.spec)
        BY FreshFacts
    <2>2. \A name \in AName : BalancedAssignment(nag.spec, name)
        BY <2>1, PackedIsBalanced DEF AllPacked
    <2> QED  BY <2>1, <2>2 DEF AllClean, Balanced
<1> QED  BY <1>1, <1>2, PLControllerInitType, PLControllerStepType, OneTaintsInit, OneTaintsStep,
            FreshStep, PTL DEF PLControllerSpec
=============================================================================
