------------------------- MODULE PodAdmissionProofs -------------------------
(***************************************************************************)
(* StandingRulesApply, NamespacedRulesWin, MembersAccept and TypeOK, for    *)
(* any replicas, pods, rules, crashes and failures.                        *)
(*                                                                         *)
(* The first argument is about versions.  The indexers of a process that serves  *)
(* have been listed since it started, so they are somewhere between the    *)
(* version that was current then and the one that is current now.  What an *)
(* admission has read of a kind is therefore what matched in one version   *)
(* of that span; versions are never rewritten, and the span only grows     *)
(* until the pod is stored.                                                *)
(*                                                                         *)
(* The second one is about lists of operations.  What JsonPatched and      *)
(* SchedulingPatches make of a list is shown by induction over the length  *)
(* of the list: with the set of the numbers for which it is so, as         *)
(* SetInduction has no operator for a parameter.  So the last rule that    *)
(* says something about a member has its way; the rules of the namespace   *)
(* are the last ones; and as rules are made by valetctl, whoever has his   *)
(* way about the nodes has it about the tolerations.                       *)
(***************************************************************************)
EXTENDS PodAdmission, FiniteSetTheorems, SequenceTheorems, WellFoundedInduction, TLAPS

Elements(s) == {s[i] : i \in DOMAIN s}

\* Being a record with these fields, whatever their values.
IsRule(rule) ==
    rule = [name |-> rule.name, namespace |-> rule.namespace,
            targetLabels |-> rule.targetLabels, mergeStrategy |-> rule.mergeStrategy,
            scheduling |-> rule.scheduling]

IsCreation(c) ==
    c = [state |-> c.state, object |-> c.object, replica |-> c.replica, rules |-> c.rules,
         spec |-> c.spec, from |-> c.from, until |-> c.until]

IsVersion(kind, rules) ==
    /\ IsFiniteSet(rules)
    /\ \A rule \in rules : IsRule(rule) /\ KindOf(rule) = kind

\* A store is a list of versions.
StoresInv ==
    /\ DOMAIN stores = Kind /\ stores = [kind \in Kind |-> stores[kind]]
    /\ \A kind \in Kind :
        /\ stores[kind] \in Seq(Elements(stores[kind]))
        /\ Len(stores[kind]) > 0
        /\ \A v \in 1..Len(stores[kind]) : IsVersion(kind, stores[kind][v])

\* The indexers of a process are in the span of versions of its lifetime.
SpansInv ==
    /\ phase \in [Replica -> {"syncing", "synced", "serving"}]
    /\ seen \in [Replica -> [Kind -> Nat]]
    /\ since \in [Replica -> [Kind -> Nat]]
    /\ \A r \in Replica, kind \in Kind :
        /\ since[r][kind] \in 1..Len(stores[kind])
        /\ seen[r][kind] = 0 \/ seen[r][kind] \in since[r][kind]..Len(stores[kind])
        /\ phase[r] # "syncing" => seen[r][kind] # 0

\* What matches a pod in a version.
Matching(kind, v, pod) ==
    {rule \in stores[kind][v] : TargetsPod(rule, pod) /\ rule.namespace \in {None, pod.namespace}}

\* What a creation has read, when the span has ended at `until'.
ReadCluster(c, until) ==
    \E v \in c.from["cluster"]..until["cluster"] :
        Elements(c.rules) = Matching("cluster", v, c.object)

ReadBoth(c, until) ==
    \E v \in c.from["cluster"]..until["cluster"],
       w \in c.from["namespaced"]..until["namespaced"] :
        Elements(c.rules) = Matching("cluster", v, c.object)
                                \cup Matching("namespaced", w, c.object)

CreationInv(c) ==
    /\ IsCreation(c)
    /\ c.rules \in Seq(Elements(c.rules))
    /\ c.from \in [Kind -> Nat]
    /\ c.state = "reading" =>
        /\ c.replica \in Replica /\ phase[c.replica] # "syncing"
        /\ c.from = since[c.replica]
        /\ ReadCluster(c, Versions)
    /\ c.state \in {"answering", "created"} /\ ~PodIsProtected(c.object) =>
        \A kind \in Kind : c.from[kind] > 0
    /\ c.state = "answering" /\ ~PodIsProtected(c.object) => ReadBoth(c, Versions)
    /\ c.state = "created" /\ ~PodIsProtected(c.object) =>
        /\ \A kind \in Kind : c.until[kind] \in 1..Len(stores[kind])
        /\ ReadBoth(c, c.until)

PodsInv ==
    /\ DOMAIN pods = Pod /\ pods = [p \in Pod |-> pods[p]]
    /\ \A p \in Pod : CreationInv(pods[p])

PInv == StoresInv /\ SpansInv /\ PodsInv

-----------------------------------------------------------------------------
(* Sequences *)

\* A list of a set has all its members: there are as many places as members,
\* and no member is there twice.
LEMMA SetToSeqsElements ==
    ASSUME NEW S, IsFiniteSet(S), NEW s \in SetToSeqs(S)
    PROVE  s \in Seq(Elements(s)) /\ Elements(s) = S
<1> DEFINE D == 1..Cardinality(S)
<1>1. Cardinality(S) \in Nat
  BY FS_CardinalityType
<1>2. s \in [D -> S] /\ \A i, j \in D : i # j => s[i] # s[j]
  BY DEF SetToSeqs
<1>3. IsFiniteSet(D) /\ Cardinality(D) = Cardinality(S)
  BY <1>1, FS_Interval
<1>4. s \in Injection(D, S)
  BY <1>2 DEF Injection, IsInjective
<1>5. s \in Surjection(D, S)
  BY <1>3, <1>4, FS_Injection
<1>6. Elements(s) = S
  BY <1>2, <1>5 DEF Elements, Surjection
<1>7. s \in Seq(S)
  BY <1>1, <1>2
<1> QED
  BY <1>6, <1>7

LEMMA ElementsOfSeq ==
    ASSUME NEW S, NEW s \in Seq(S)
    PROVE  DOMAIN s = 1..Len(s) /\ Elements(s) = {s[i] : i \in 1..Len(s)}
<1>1. DOMAIN s = 1..Len(s)
  OBVIOUS
<1> QED
  BY <1>1 DEF Elements

LEMMA SeqOfElements ==
    ASSUME NEW S, NEW s \in Seq(S)
    PROVE  s \in Seq(Elements(s)) /\ \A i \in 1..Len(s) : s[i] \in Elements(s)
<1>1. Len(s) \in Nat /\ s \in [1..Len(s) -> S]
  OBVIOUS
<1>2. \A i \in 1..Len(s) : s[i] \in Elements(s)
  BY ElementsOfSeq
<1>3. s \in [1..Len(s) -> Elements(s)]
  BY <1>1, <1>2
<1> QED
  BY <1>1, <1>2, <1>3

LEMMA ConcatElements ==
    ASSUME NEW s, s \in Seq(Elements(s)), NEW t, t \in Seq(Elements(t))
    PROVE  /\ s \o t \in Seq(Elements(s \o t))
           /\ Elements(s \o t) = Elements(s) \cup Elements(t)
<1> DEFINE E == Elements(s) \cup Elements(t)
<1>1. s \in Seq(E) /\ t \in Seq(E)
  OBVIOUS
<1>2. s \o t \in Seq(E)
  BY <1>1
<1>3. /\ Len(s \o t) = Len(s) + Len(t)
      /\ \A i \in 1..(Len(s) + Len(t)) :
            (s \o t)[i] = IF i <= Len(s) THEN s[i] ELSE t[i - Len(s)]
  BY <1>1
<1>4. Elements(s \o t) \subseteq E
  <2>1. \A i \in 1..Len(s \o t) : (s \o t)[i] \in E
    BY <1>2
  <2>2. Elements(s \o t) = {(s \o t)[i] : i \in 1..Len(s \o t)}
    BY <1>2, ElementsOfSeq
  <2> QED
    BY <2>1, <2>2
<1>5. Elements(s) \subseteq Elements(s \o t)
  <2>1. Len(s) \in Nat /\ Len(t) \in Nat
    BY <1>1
  <2>2. \A i \in 1..Len(s) : i \in 1..Len(s \o t) /\ (s \o t)[i] = s[i]
    BY <1>3, <2>1
  <2>3. \A i \in 1..Len(s \o t) : (s \o t)[i] \in Elements(s \o t)
    BY <1>2, SeqOfElements
  <2> QED
    BY <1>1, <2>2, <2>3, ElementsOfSeq
<1>6. ASSUME NEW i \in 1..Len(t) PROVE t[i] \in Elements(s \o t)
  <2>1. i + Len(s) \in 1..Len(s \o t) /\ (s \o t)[i + Len(s)] = t[i]
    BY <1>1, <1>3
  <2> QED
    BY <1>2, <2>1, ElementsOfSeq
<1>7. Elements(t) \subseteq Elements(s \o t)
  BY <1>1, <1>6, ElementsOfSeq
<1> QED
  BY <1>2, <1>4, <1>5, <1>7, SeqOfElements

LEMMA AppendElements ==
    ASSUME NEW s, s \in Seq(Elements(s)), NEW x
    PROVE  /\ Append(s, x) \in Seq(Elements(Append(s, x)))
           /\ Len(Append(s, x)) = Len(s) + 1
           /\ \A i \in 1..Len(s) : Append(s, x)[i] = s[i]
           /\ Append(s, x)[Len(s) + 1] = x
<1> DEFINE E == Elements(s) \cup {x}
<1>1. s \in Seq(E) /\ x \in E
  OBVIOUS
<1>2. Append(s, x) \in Seq(E)
  BY <1>1
<1>3. Append(s, x) \in Seq(Elements(Append(s, x)))
  BY <1>2, SeqOfElements
<1> QED
  BY <1>1, <1>3

-----------------------------------------------------------------------------
(* The versions of the rules. *)

\* No version is taken back or rewritten.
StoresGrow ==
    \A kind \in Kind :
        /\ Len(stores[kind]) <= Len(stores'[kind])
        /\ \A v \in 1..Len(stores[kind]) : stores'[kind][v] = stores[kind][v]

LEMMA StoreStep ==
    ASSUME StoresInv, NEW kind \in Kind, NEW rules, StoreRules(kind, rules),
           IsVersion(kind, rules)
    PROVE  StoresInv' /\ StoresGrow
<1>1. stores' = [stores EXCEPT ![kind] = Append(stores[kind], rules)]
  BY DEF StoreRules
<1>2. stores[kind] \in Seq(Elements(stores[kind]))
  BY DEF StoresInv
<1>3. stores'[kind] = Append(stores[kind], rules)
  BY <1>1 DEF StoresInv
<1>4. /\ stores'[kind] \in Seq(Elements(stores'[kind]))
      /\ Len(stores'[kind]) = Len(stores[kind]) + 1
      /\ \A v \in 1..Len(stores[kind]) : stores'[kind][v] = stores[kind][v]
      /\ stores'[kind][Len(stores[kind]) + 1] = rules
  BY <1>2, <1>3, AppendElements
<1>5. Len(stores[kind]) \in Nat
  BY <1>2
<1>6. \A v \in 1..Len(stores'[kind]) : IsVersion(kind, stores'[kind][v])
  BY <1>4, <1>5 DEF StoresInv
<1>7. \A other \in Kind \ {kind} : stores'[other] = stores[other]
  BY <1>1 DEF StoresInv
<1>8. DOMAIN stores' = Kind /\ stores' = [k \in Kind |-> stores'[k]]
  BY <1>1 DEF StoresInv
<1>9. StoresGrow
  <2> SUFFICES ASSUME NEW k \in Kind
               PROVE  /\ Len(stores[k]) <= Len(stores'[k])
                      /\ \A v \in 1..Len(stores[k]) : stores'[k][v] = stores[k][v]
    BY DEF StoresGrow
  <2>1. CASE k = kind
    BY <2>1, <1>4, <1>5
  <2>2. CASE k # kind
    BY <2>2, <1>7 DEF StoresInv
  <2> QED
    BY <2>1, <2>2
<1>10. StoresInv'
  <2> SUFFICES ASSUME NEW k \in Kind
               PROVE  /\ stores'[k] \in Seq(Elements(stores'[k]))
                      /\ Len(stores'[k]) > 0
                      /\ \A v \in 1..Len(stores'[k]) : IsVersion(k, stores'[k][v])
    BY <1>8 DEF StoresInv
  <2>1. CASE k = kind
    BY <2>1, <1>4, <1>5, <1>6
  <2>2. CASE k # kind
    BY <2>2, <1>7 DEF StoresInv
  <2> QED
    BY <2>1, <2>2
<1> QED
  BY <1>9, <1>10

LEMMA CurrentVersion ==
    ASSUME StoresInv, NEW kind \in Kind
    PROVE  IsVersion(kind, Current(kind)) /\ Len(stores[kind]) \in Nat
<1>1. stores[kind] \in Seq(Elements(stores[kind])) /\ Len(stores[kind]) > 0
  BY DEF StoresInv
<1>2. Len(stores[kind]) \in 1..Len(stores[kind])
  BY <1>1
<1> QED
  BY <1>1, <1>2 DEF StoresInv, Current

\* What users do to the rules.
UserStep ==
    \/ \E command \in Commands : CreateRule(command)
    \/ \E kind \in Kind : \E rule \in Current(kind) :
        \/ \E strategy \in MergeStrategy : EditRule(kind, rule, strategy)
        \/ DeleteRule(kind, rule)

LEMMA UserStores ==
    ASSUME StoresInv, UserStep
    PROVE  StoresInv' /\ StoresGrow /\ UNCHANGED <<pods, replicaVars>>
<1>1. ASSUME NEW command \in Commands, CreateRule(command)
      PROVE  \E kind \in Kind : \E rules : StoreRules(kind, rules) /\ IsVersion(kind, rules)
  <2> DEFINE rule == AssignmentCreate(command)
             kind == KindOf(rule)
  <2>1. kind \in Kind /\ IsRule(rule)
    BY DEF Kind, KindOf, IsRule, AssignmentCreate
  <2>2. IsVersion(kind, Current(kind))
    BY <2>1, CurrentVersion
  <2>3. IsVersion(kind, Current(kind) \cup {rule})
    <3> HIDE DEF rule
    <3> QED
      BY <2>1, <2>2, FS_AddElement DEF IsVersion
  <2>4. StoreRules(kind, Current(kind) \cup {rule})
    BY <1>1 DEF CreateRule
  <2> QED
    BY <2>1, <2>3, <2>4
<1>2. ASSUME NEW kind \in Kind, NEW rule \in Current(kind), NEW strategy \in MergeStrategy,
             EditRule(kind, rule, strategy)
      PROVE  \E k \in Kind : \E rules : StoreRules(k, rules) /\ IsVersion(k, rules)
  <2> DEFINE edited == [rule EXCEPT !.mergeStrategy = strategy]
             left == Current(kind) \ {rule}
  <2>1. IsVersion(kind, Current(kind))
    BY CurrentVersion
  <2>2. IsRule(rule) /\ KindOf(rule) = kind
    BY <2>1 DEF IsVersion
  <2>3. IsRule(edited) /\ edited.namespace = rule.namespace
    BY <2>2 DEF IsRule
  <2>4. KindOf(edited) = kind
    BY <2>2, <2>3 DEF KindOf
  <2>5. IsVersion(kind, left)
    BY <2>1, FS_RemoveElement DEF IsVersion
  <2>6. IsVersion(kind, left \cup {edited})
    <3> HIDE DEF left, edited
    <3> QED
      BY <2>3, <2>4, <2>5, FS_AddElement DEF IsVersion
  <2> QED
    BY <1>2, <2>6 DEF EditRule
<1>3. ASSUME NEW kind \in Kind, NEW rule \in Current(kind), DeleteRule(kind, rule)
      PROVE  \E k \in Kind : \E rules : StoreRules(k, rules) /\ IsVersion(k, rules)
  <2>1. IsVersion(kind, Current(kind) \ {rule})
    BY CurrentVersion, FS_RemoveElement DEF IsVersion
  <2> QED
    BY <1>3, <2>1 DEF DeleteRule
<1>4. PICK kind \in Kind : \E rules : StoreRules(kind, rules) /\ IsVersion(kind, rules)
  BY <1>1, <1>2, <1>3 DEF UserStep
<1>5. PICK rules : StoreRules(kind, rules) /\ IsVersion(kind, rules)
  BY <1>4
<1> QED
  BY <1>5, StoreStep DEF StoreRules

-----------------------------------------------------------------------------
(* The spans of the processes. *)

LEMMA InitPInv == Init => PInv
<1> SUFFICES ASSUME Init PROVE PInv
  OBVIOUS
<1>1. StoresInv
  <2>1. \A kind \in Kind : stores[kind] = <<{}>>
    BY DEF Init
  <2>2. <<{}>> \in Seq({{}}) /\ Len(<<{}>>) = 1 /\ <<{}>>[1] = {}
    OBVIOUS
  <2>3. <<{}>> \in Seq(Elements(<<{}>>))
    BY <2>2, SeqOfElements
  <2>4. \A kind \in Kind : IsVersion(kind, {})
    BY FS_EmptySet DEF IsVersion
  <2>5. \A kind \in Kind : \A v \in 1..1 : IsVersion(kind, <<{}>>[v])
    BY <2>2, <2>4
  <2>6. DOMAIN stores = Kind /\ stores = [kind \in Kind |-> stores[kind]]
    BY DEF Init
  <2>7. ASSUME NEW kind \in Kind
        PROVE  /\ stores[kind] \in Seq(Elements(stores[kind]))
               /\ Len(stores[kind]) > 0
               /\ \A v \in 1..Len(stores[kind]) : IsVersion(kind, stores[kind][v])
    <3>1. stores[kind] = <<{}>>
      BY <2>1
    <3>2. Len(stores[kind]) = 1
      BY <2>2, <3>1
    <3> QED
      BY <2>3, <2>5, <3>1, <3>2
  <2> QED
    BY <2>6, <2>7 DEF StoresInv
<1>2. SpansInv
  <2>1. \A kind \in Kind : Len(stores[kind]) = 1
    BY DEF Init
  <2> QED
    BY <2>1 DEF Init, SpansInv, NoVersion
<1>3. PodsInv
  <2>1. << >> \in Seq(Elements(<< >>))
    OBVIOUS
  <2>2. \A p \in Pod : pods[p] = Nothing
    BY DEF Init
  <2>3. IsCreation(Nothing)
    BY DEF IsCreation, Nothing
  <2>4. /\ Nothing.state = "none" /\ Nothing.rules = << >>
        /\ Nothing.from \in [Kind -> Nat]
    BY DEF Nothing, NoVersion
  <2>5. \A p \in Pod : CreationInv(pods[p])
    BY <2>1, <2>2, <2>3, <2>4 DEF CreationInv
  <2> QED
    BY <2>5 DEF Init, PodsInv
<1> QED
  BY <1>1, <1>2, <1>3 DEF PInv

\* A step of a process lists, takes a change, starts or stops, or starts anew.
SpanStep ==
    \/ \E r \in Replica :
        \/ \E kind \in Kind : ListRules(r, kind) \/ Deliver(r, kind)
        \/ Sync(r) \/ Listen(r) \/ ListenFails(r) \/ Crash(r)

LEMMA StoreLengths ==
    ASSUME StoresInv, NEW kind \in Kind
    PROVE  Len(stores[kind]) \in Nat \ {0}
BY CurrentVersion DEF StoresInv

LEMMA SpansStep ==
    ASSUME StoresInv, SpansInv, SpanStep
    PROVE  SpansInv'
<1> USE DEF SpansInv
<1>0. \A kind \in Kind : Len(stores[kind]) \in Nat \ {0}
  BY StoreLengths
<1>1. ASSUME NEW r \in Replica, NEW kind \in Kind, ListRules(r, kind)
      PROVE  SpansInv'
  BY <1>0, <1>1 DEF ListRules, Versions
<1>2. ASSUME NEW r \in Replica, NEW kind \in Kind, Deliver(r, kind)
      PROVE  SpansInv'
  BY <1>0, <1>2 DEF Deliver, Versions
<1>3. ASSUME NEW r \in Replica, Sync(r) PROVE SpansInv'
  BY <1>3 DEF Sync, CachesSynced
<1>4. ASSUME NEW r \in Replica, Listen(r) \/ ListenFails(r) PROVE SpansInv'
  BY <1>4 DEF Listen, ListenFails
<1>5. ASSUME NEW r \in Replica, Crash(r) PROVE SpansInv'
  BY <1>0, <1>5 DEF Crash, Versions, NoVersion
<1> QED
  BY <1>1, <1>2, <1>3, <1>4, <1>5 DEF SpanStep

\* Spans grow with the stores.
LEMMA SpansGrow ==
    ASSUME StoresInv, SpansInv, StoresInv', StoresGrow, UNCHANGED replicaVars
    PROVE  SpansInv'
<1>1. \A kind \in Kind : Len(stores[kind]) \in Nat /\ Len(stores[kind])' \in Nat
  BY StoreLengths DEF StoresInv
<1>2. \A kind \in Kind : Len(stores[kind]) <= Len(stores'[kind])
  BY DEF StoresGrow
<1>3. ASSUME NEW r \in Replica, NEW kind \in Kind
      PROVE  /\ since'[r][kind] \in 1..Len(stores'[kind])
             /\ \/ seen'[r][kind] = 0
                \/ seen'[r][kind] \in since'[r][kind]..Len(stores'[kind])
  <2> DEFINE n == Len(stores[kind])
             m == Len(stores'[kind])
             s == since[r][kind]
             v == seen[r][kind]
  <2>1. n \in Nat /\ m \in Nat /\ n <= m
    BY <1>1, <1>2
  <2>2. s \in 1..n /\ (v = 0 \/ v \in s..n)
    BY DEF SpansInv
  <2>3. since'[r][kind] = s /\ seen'[r][kind] = v
    BY DEF replicaVars
  <2> HIDE DEF n, m, s, v
  <2>4. s \in 1..m /\ (v = 0 \/ v \in s..m)
    BY <2>1, <2>2
  <2> QED
    BY <2>3, <2>4 DEF m
<1> QED
  BY <1>3 DEF SpansInv, replicaVars

-----------------------------------------------------------------------------
(* The creations that a step leaves alone. *)

LEMMA KeptCreation ==
    ASSUME PInv, StoresInv', StoresGrow, NEW p \in Pod, pods'[p] = pods[p],
           pods[p].state = "reading" =>
               /\ phase'[pods[p].replica] # "syncing"
               /\ since'[pods[p].replica] = since[pods[p].replica]
    PROVE  CreationInv(pods[p])'
<1>1. CreationInv(pods[p])
  BY DEF PInv, PodsInv
<1>2. \A kind \in Kind : Len(stores[kind]) \in Nat \ {0}
  BY StoreLengths DEF PInv
<1>3. \A kind \in Kind : Len(stores'[kind]) \in Nat /\ Len(stores[kind]) <= Len(stores'[kind])
  BY DEF StoresInv, StoresGrow
<1>4. \A kind \in Kind : \A v \in 1..Len(stores[kind]) : stores'[kind][v] = stores[kind][v]
  BY DEF StoresGrow
<1>5. "cluster" \in Kind /\ "namespaced" \in Kind
  BY DEF Kind
<1>6. pods[p].from \in [Kind -> Nat]
  BY <1>1 DEF CreationInv
<1>7. ASSUME pods[p].state = "reading" PROVE ReadCluster(pods[p], Versions)'
  <2>1. PICK v \in pods[p].from["cluster"]..Len(stores["cluster"]) :
            Elements(pods[p].rules) = Matching("cluster", v, pods[p].object)
    BY <1>1, <1>5, <1>7 DEF CreationInv, ReadCluster, Versions
  <2>2. pods[p].from["cluster"] > 0
    BY <1>1, <1>2, <1>5, <1>7 DEF CreationInv, PInv, SpansInv
  <2>3. stores'["cluster"][v] = stores["cluster"][v]
    BY <1>2, <1>4, <1>5, <1>6, <2>2
  <2>4. v \in pods[p].from["cluster"]..Len(stores'["cluster"])
    BY <1>2, <1>3, <1>5, <1>6
  <2> QED
    BY <1>5, <2>1, <2>3, <2>4 DEF ReadCluster, Versions, Matching
<1>8. ASSUME pods[p].state \in {"answering", "created"}, ~PodIsProtected(pods[p].object),
             NEW until, ReadBoth(pods[p], until),
             \A kind \in Kind : until[kind] \in 0..Len(stores[kind])
      PROVE  \E v \in pods[p].from["cluster"]..until["cluster"],
                w \in pods[p].from["namespaced"]..until["namespaced"] :
                 Elements(pods[p].rules)
                     = Matching("cluster", v, pods[p].object)'
                           \cup Matching("namespaced", w, pods[p].object)'
  <2>1. PICK v \in pods[p].from["cluster"]..until["cluster"],
             w \in pods[p].from["namespaced"]..until["namespaced"] :
                Elements(pods[p].rules) = Matching("cluster", v, pods[p].object)
                                    \cup Matching("namespaced", w, pods[p].object)
    BY <1>8 DEF ReadBoth
  <2>2. \A kind \in Kind : pods[p].from[kind] > 0
    BY <1>1, <1>8 DEF CreationInv
  <2>3. v \in 1..Len(stores["cluster"]) /\ w \in 1..Len(stores["namespaced"])
    BY <1>2, <1>5, <1>6, <1>8, <2>2
  <2>4. /\ stores'["cluster"][v] = stores["cluster"][v]
        /\ stores'["namespaced"][w] = stores["namespaced"][w]
    BY <1>4, <1>5, <2>3
  <2> QED
    BY <2>1, <2>4 DEF Matching
<1>9. ASSUME pods[p].state = "answering", ~PodIsProtected(pods[p].object)
      PROVE  ReadBoth(pods[p], Versions)'
  <2>1. Versions \in [Kind -> Nat] /\ \A kind \in Kind : Versions[kind] = Len(stores[kind])
    BY <1>2 DEF Versions
  <2>2. ReadBoth(pods[p], Versions)
    BY <1>1, <1>9 DEF CreationInv
  <2>3. PICK v \in pods[p].from["cluster"]..Versions["cluster"],
             w \in pods[p].from["namespaced"]..Versions["namespaced"] :
                 Elements(pods[p].rules)
                     = Matching("cluster", v, pods[p].object)'
                           \cup Matching("namespaced", w, pods[p].object)'
    BY <1>2, <1>8, <1>9, <2>1, <2>2
  <2>4. /\ v \in pods[p].from["cluster"]..Len(stores'["cluster"])
        /\ w \in pods[p].from["namespaced"]..Len(stores'["namespaced"])
    BY <1>2, <1>3, <1>5, <1>6, <2>1
  <2> QED
    BY <1>5, <2>3, <2>4 DEF ReadBoth, Versions, Matching
<1>10. ASSUME pods[p].state = "created", ~PodIsProtected(pods[p].object)
       PROVE  /\ \A kind \in Kind : pods[p].until[kind] \in 1..Len(stores'[kind])
              /\ ReadBoth(pods[p], pods[p].until)'
  <2>1. /\ \A kind \in Kind : pods[p].until[kind] \in 1..Len(stores[kind])
        /\ ReadBoth(pods[p], pods[p].until)
    BY <1>1, <1>10 DEF CreationInv
  <2>2. \A kind \in Kind : pods[p].until[kind] \in 1..Len(stores'[kind])
    BY <1>2, <1>3, <2>1
  <2>3. PICK v \in pods[p].from["cluster"]..pods[p].until["cluster"],
             w \in pods[p].from["namespaced"]..pods[p].until["namespaced"] :
                 Elements(pods[p].rules)
                     = Matching("cluster", v, pods[p].object)'
                           \cup Matching("namespaced", w, pods[p].object)'
    BY <1>2, <1>8, <1>10, <2>1
  <2> QED
    BY <2>2, <2>3 DEF ReadBoth, Matching
<1> QED
  BY <1>1, <1>7, <1>9, <1>10 DEF CreationInv

\* Nothing happens to the rules, and each creation stays or satisfies the
\* invariant for another reason.
LEMMA KeptPods ==
    ASSUME PInv, StoresInv', StoresGrow,
           DOMAIN pods' = Pod, pods' = [p \in Pod |-> pods'[p]],
           \A p \in Pod :
               \/ CreationInv(pods[p])'
               \/ /\ pods'[p] = pods[p]
                  /\ pods[p].state = "reading" =>
                         /\ phase'[pods[p].replica] # "syncing"
                         /\ since'[pods[p].replica] = since[pods[p].replica]
    PROVE  PodsInv'
<1>1. ASSUME NEW p \in Pod PROVE CreationInv(pods[p])'
  BY KeptCreation
<1> QED
  BY <1>1 DEF PodsInv

LEMMA UnchangedStores ==
    ASSUME StoresInv, UNCHANGED stores
    PROVE  StoresInv' /\ StoresGrow
<1>1. \A kind \in Kind : Len(stores[kind]) \in Nat
  BY StoreLengths
<1>2. StoresGrow
  BY <1>1 DEF StoresGrow
<1>3. StoresInv'
  BY DEF StoresInv
<1> QED
  BY <1>2, <1>3

\* Creations that nobody answers promise nothing.
LEMMA IdleCreation ==
    ASSUME NEW p \in Pod, IsCreation(pods'[p]),
           pods'[p].rules \in Seq(Elements(pods'[p].rules)),
           pods'[p].from \in [Kind -> Nat], pods'[p].state \in {"asked", "refused"}
    PROVE  CreationInv(pods[p])'
BY DEF CreationInv

LEMMA RefusedCreation ==
    ASSUME PodsInv, NEW lost, pods' = Refused(lost), NEW p \in Pod \cap lost
    PROVE  CreationInv(pods[p])'
<1>1. IsCreation(pods[p])
  BY DEF PodsInv, CreationInv
<1>2. pods'[p] = [pods[p] EXCEPT !.state = "refused", !.replica = None, !.rules = << >>,
                                 !.from = NoVersion]
  BY DEF Refused
<1>3. /\ IsCreation(pods'[p])
      /\ pods'[p].state = "refused" /\ pods'[p].rules = << >> /\ pods'[p].from = NoVersion
  BY <1>1, <1>2 DEF IsCreation
<1>4. << >> \in Seq(Elements(<< >>)) /\ NoVersion \in [Kind -> Nat]
  BY DEF NoVersion
<1> QED
  BY <1>3, <1>4, IdleCreation

LEMMA OtherPods ==
    ASSUME PodsInv, NEW p \in Pod, NEW c, pods' = [pods EXCEPT ![p] = c]
    PROVE  /\ DOMAIN pods' = Pod /\ pods' = [q \in Pod |-> pods'[q]]
           /\ pods'[p] = c
           /\ \A q \in Pod \ {p} : pods'[q] = pods[q]
BY DEF PodsInv

\* What a replica that serves has in its indexer is a version of its span.
LEMMA IndexedVersion ==
    ASSUME StoresInv, SpansInv, NEW r \in Replica, phase[r] # "syncing",
           NEW kind \in Kind, NEW pod
    PROVE  \E v \in since[r][kind]..Len(stores[kind]) :
               /\ v \in 1..Len(stores[kind])
               /\ MatchingRules(r, kind, pod) = Matching(kind, v, pod)
               /\ IsFiniteSet(Matching(kind, v, pod))
<1>1. Len(stores[kind]) \in Nat \ {0}
  BY StoreLengths
<1>2. /\ seen[r][kind] # 0 /\ since[r][kind] \in 1..Len(stores[kind])
      /\ seen[r][kind] \in since[r][kind]..Len(stores[kind])
  BY DEF SpansInv
<1>3. seen[r][kind] \in 1..Len(stores[kind])
  BY <1>1, <1>2
<1>4. MatchingRules(r, kind, pod) = Matching(kind, seen[r][kind], pod)
  BY <1>2 DEF MatchingRules, Matching, Indexed
<1>5. IsFiniteSet(stores[kind][seen[r][kind]])
  BY <1>3 DEF StoresInv, IsVersion
<1>6. IsFiniteSet(Matching(kind, seen[r][kind], pod))
  BY <1>5, FS_Subset DEF Matching
<1> QED
  BY <1>2, <1>3, <1>4, <1>6

LEMMA ReceiveStep ==
    ASSUME PInv, NEW p \in Pod, NEW r \in Replica, Receive(p, r)
    PROVE  CreationInv(pods[p])'
<1> DEFINE pod == pods[p].object
           protected == PodIsProtected(pod)
<1>1. /\ phase[r] = "serving"
      /\ UNCHANGED <<stores, replicaVars>>
  BY DEF Receive
<1>2. PICK rules \in SetToSeqs(IF protected THEN {} ELSE MatchingRules(r, "cluster", pod)) :
          pods' = [pods EXCEPT ![p] = [pods[p] EXCEPT
                      !.state = IF protected THEN "answering" ELSE "reading",
                      !.replica = r, !.rules = rules, !.from = since[r]]]
  BY DEF Receive
<1>3. IsCreation(pods[p])
  BY DEF PInv, PodsInv, CreationInv
<1>4. pods'[p] = [pods[p] EXCEPT !.state = IF protected THEN "answering" ELSE "reading",
                                 !.replica = r, !.rules = rules, !.from = since[r]]
  BY <1>2, OtherPods DEF PInv
<1>5. /\ IsCreation(pods'[p])
      /\ pods'[p].state = IF protected THEN "answering" ELSE "reading"
      /\ pods'[p].replica = r /\ pods'[p].rules = rules /\ pods'[p].from = since[r]
      /\ pods'[p].object = pod
  <2> HIDE DEF pod, protected
  <2> QED
    BY <1>3, <1>4 DEF IsCreation, pod
<1>6. since[r] \in [Kind -> Nat]
  BY DEF PInv, SpansInv
<1>7. CASE protected
  <2>1. rules \in Seq(Elements(rules))
    BY <1>2, <1>7, FS_EmptySet, SetToSeqsElements
  <2> QED
    BY <1>5, <1>6, <1>7, <2>1 DEF CreationInv
<1>8. CASE ~protected
  <2>1. PICK v \in since[r]["cluster"]..Len(stores["cluster"]) :
            /\ MatchingRules(r, "cluster", pod) = Matching("cluster", v, pod)
            /\ IsFiniteSet(Matching("cluster", v, pod))
    BY <1>1, IndexedVersion DEF PInv, Kind
  <2>2. rules \in Seq(Elements(rules)) /\ Elements(rules) = Matching("cluster", v, pod)
    BY <1>2, <1>8, <2>1, SetToSeqsElements
  <2>3. ReadCluster(pods[p], Versions)'
    BY <1>1, <1>5, <2>2 DEF ReadCluster, Versions, Matching, Kind
  <2>4. phase'[r] # "syncing" /\ since'[r] = since[r]
    BY <1>1 DEF replicaVars
  <2> QED
    BY <1>5, <1>6, <1>8, <2>2, <2>3, <2>4 DEF CreationInv
<1> QED
  BY <1>7, <1>8

LEMMA ReadNamespacedStep ==
    ASSUME PInv, NEW p \in Pod, ReadNamespaced(p)
    PROVE  CreationInv(pods[p])'
<1> DEFINE pod == pods[p].object
           r == pods[p].replica
<1>1. pods[p].state = "reading" /\ UNCHANGED <<stores, replicaVars>>
  BY DEF ReadNamespaced
<1>2. PICK rules \in SetToSeqs(MatchingRules(r, "namespaced", pod)) :
          pods' = [pods EXCEPT ![p].state = "answering", ![p].rules = @ \o rules]
  BY DEF ReadNamespaced
<1>3. CreationInv(pods[p])
  BY DEF PInv, PodsInv
<1>4. /\ r \in Replica /\ phase[r] # "syncing" /\ pods[p].from = since[r]
      /\ ReadCluster(pods[p], Versions)
  BY <1>1, <1>3 DEF CreationInv
<1>5. pods'[p] = [pods[p] EXCEPT !.state = "answering", !.rules = pods[p].rules \o rules]
  BY <1>2, <1>3 DEF PInv, PodsInv, CreationInv, IsCreation
<1>6. /\ IsCreation(pods'[p])
      /\ pods'[p].state = "answering" /\ pods'[p].rules = pods[p].rules \o rules
      /\ pods'[p].from = pods[p].from /\ pods'[p].object = pod
  <2>1. IsCreation(pods[p])
    BY <1>3 DEF CreationInv
  <2> QED
    BY <1>5, <2>1 DEF IsCreation
<1>7. PICK w \in since[r]["namespaced"]..Len(stores["namespaced"]) :
          /\ MatchingRules(r, "namespaced", pod) = Matching("namespaced", w, pod)
          /\ IsFiniteSet(Matching("namespaced", w, pod))
  BY <1>4, IndexedVersion DEF PInv, Kind
<1>8. rules \in Seq(Elements(rules)) /\ Elements(rules) = Matching("namespaced", w, pod)
  BY <1>2, <1>7, SetToSeqsElements
<1>9. PICK v \in since[r]["cluster"]..Len(stores["cluster"]) :
          Elements(pods[p].rules) = Matching("cluster", v, pod)
  BY <1>4 DEF ReadCluster, Versions, Kind
<1>10. pods[p].rules \in Seq(Elements(pods[p].rules))
  BY <1>3 DEF CreationInv
<1>11. /\ pods'[p].rules \in Seq(Elements(pods'[p].rules))
       /\ Elements(pods'[p].rules)
              = Matching("cluster", v, pod) \cup Matching("namespaced", w, pod)
  BY <1>6, <1>8, <1>9, <1>10, ConcatElements
<1>12. ReadBoth(pods[p], Versions)'
  <2>1. stores' = stores
    BY <1>1
  <2>2. /\ v \in pods'[p].from["cluster"]..Versions'["cluster"]
        /\ w \in pods'[p].from["namespaced"]..Versions'["namespaced"]
    BY <1>4, <1>6, <2>1 DEF Versions, Kind
  <2>3. Elements(pods'[p].rules) = Matching("cluster", v, pods[p].object)'
                                     \cup Matching("namespaced", w, pods[p].object)'
    BY <1>6, <1>11, <2>1 DEF Matching
  <2> QED
    BY <2>2, <2>3 DEF ReadBoth
<1>13. pods[p].from \in [Kind -> Nat] /\ \A kind \in Kind : pods[p].from[kind] > 0
  <2>1. \A kind \in Kind : since[r][kind] \in 1..Len(stores[kind])
    BY <1>4 DEF PInv, SpansInv
  <2>2. \A kind \in Kind : Len(stores[kind]) \in Nat
    BY StoreLengths DEF PInv
  <2> QED
    BY <1>3, <1>4, <2>1, <2>2 DEF CreationInv
<1> QED
  BY <1>6, <1>11, <1>12, <1>13 DEF CreationInv

LEMMA AnswerStep ==
    ASSUME PInv, NEW p \in Pod, Answer(p)
    PROVE  CreationInv(pods[p])'
<1> DEFINE spec == JsonPatched(pods[p].object.spec, SchedulingPatches(pods[p].rules))
<1> HIDE DEF spec
<1>1. /\ pods[p].state = "answering" /\ UNCHANGED <<stores, replicaVars>>
      /\ pods' = [pods EXCEPT ![p] = [pods[p] EXCEPT
                     !.state = "created", !.replica = None, !.until = Versions, !.spec = spec]]
  BY DEF Answer, spec
<1>2. CreationInv(pods[p])
  BY DEF PInv, PodsInv
<1>3. pods'[p] = [pods[p] EXCEPT !.state = "created", !.replica = None,
                                 !.until = Versions, !.spec = spec]
  BY <1>1, OtherPods DEF PInv
<1>4. /\ IsCreation(pods'[p])
      /\ pods'[p].state = "created" /\ pods'[p].rules = pods[p].rules
      /\ pods'[p].from = pods[p].from /\ pods'[p].object = pods[p].object
      /\ pods'[p].until = Versions
  <2>1. IsCreation(pods[p])
    BY <1>2 DEF CreationInv
  <2> QED
    BY <1>3, <2>1 DEF IsCreation
<1>5. ASSUME ~PodIsProtected(pods[p].object)
      PROVE  /\ \A kind \in Kind : pods'[p].until[kind] \in 1..Len(stores'[kind])
             /\ ReadBoth(pods[p], pods[p].until)'
             /\ \A kind \in Kind : pods[p].from[kind] > 0
  <2>1. ReadBoth(pods[p], Versions) /\ \A kind \in Kind : pods[p].from[kind] > 0
    BY <1>1, <1>2, <1>5 DEF CreationInv
  <2>2. \A kind \in Kind : Versions[kind] \in 1..Len(stores[kind])
    BY StoreLengths DEF PInv, Versions
  <2>3. ReadBoth(pods[p], pods[p].until)'
    BY <1>1, <1>4, <2>1 DEF ReadBoth, Matching
  <2> QED
    BY <1>1, <1>4, <2>1, <2>2, <2>3
<1> QED
  BY <1>2, <1>4, <1>5 DEF CreationInv

-----------------------------------------------------------------------------
(* The invariant. *)

LEMMA NextPInv == PInv /\ [Next]_vars => PInv'
<1> SUFFICES ASSUME PInv, [Next]_vars PROVE PInv'
  OBVIOUS
<1>1. CASE UserStep
  <2>1. StoresInv' /\ StoresGrow /\ UNCHANGED <<pods, replicaVars>>
    BY <1>1, UserStores DEF PInv
  <2>2. SpansInv'
    BY <2>1, SpansGrow DEF PInv
  <2>3. ASSUME NEW p \in Pod, pods[p].state = "reading"
        PROVE  /\ phase'[pods[p].replica] # "syncing"
               /\ since'[pods[p].replica] = since[pods[p].replica]
    BY <2>1, <2>3 DEF PInv, PodsInv, CreationInv, replicaVars
  <2>4. DOMAIN pods' = Pod /\ pods' = [p \in Pod |-> pods'[p]]
    BY <2>1 DEF PInv, PodsInv
  <2>5. PodsInv'
    BY <2>1, <2>3, <2>4, KeptPods
  <2> QED
    BY <2>1, <2>2, <2>5 DEF PInv
<1>2. CASE SpanStep
  <2>1. UNCHANGED stores
    BY <1>2 DEF SpanStep, ListRules, Deliver, Sync, Listen, ListenFails, Crash
  <2>2. StoresInv' /\ StoresGrow
    BY <2>1, UnchangedStores DEF PInv
  <2>3. SpansInv'
    BY <1>2, SpansStep DEF PInv
  <2>4. ASSUME NEW r \in Replica, Crash(r) PROVE PodsInv'
    <3>1. pods' = Refused(WithReplica(r))
      BY <2>4 DEF Crash
    <3>2. DOMAIN pods' = Pod /\ pods' = [p \in Pod |-> pods'[p]]
      BY <3>1 DEF Refused
    <3>3. ASSUME NEW p \in Pod, p \in WithReplica(r) PROVE CreationInv(pods[p])'
      BY <3>1, <3>3, RefusedCreation DEF PInv
    <3>4. ASSUME NEW p \in Pod, p \notin WithReplica(r)
          PROVE  /\ pods'[p] = pods[p]
                 /\ pods[p].state = "reading" =>
                        /\ phase'[pods[p].replica] # "syncing"
                        /\ since'[pods[p].replica] = since[pods[p].replica]
      <4>1. pods'[p] = pods[p]
        BY <3>1, <3>4 DEF Refused
      <4>2. ASSUME pods[p].state = "reading"
            PROVE  /\ pods[p].replica \in Replica /\ pods[p].replica # r
                   /\ phase[pods[p].replica] # "syncing"
        BY <3>4, <4>2 DEF WithReplica, PInv, PodsInv, CreationInv
      <4>3. /\ phase' = [phase EXCEPT ![r] = "syncing"]
            /\ since' = [since EXCEPT ![r] = Versions]
        BY <2>4 DEF Crash
      <4> QED
        BY <4>1, <4>2, <4>3 DEF PInv, SpansInv
    <3> QED
      BY <2>2, <3>2, <3>3, <3>4, KeptPods
  <2>5. ASSUME UNCHANGED <<pods, since>>,
               \A r \in Replica : phase[r] # "syncing" => phase'[r] # "syncing"
        PROVE  PodsInv'
    <3>1. DOMAIN pods' = Pod /\ pods' = [p \in Pod |-> pods'[p]]
      BY <2>5 DEF PInv, PodsInv
    <3>2. ASSUME NEW p \in Pod, pods[p].state = "reading"
          PROVE  /\ phase'[pods[p].replica] # "syncing"
                 /\ since'[pods[p].replica] = since[pods[p].replica]
      BY <2>5, <3>2 DEF PInv, PodsInv, CreationInv
    <3> QED
      BY <2>2, <2>5, <3>1, <3>2, KeptPods
  <2>6. ASSUME NEW r \in Replica,
               \/ \E kind \in Kind : ListRules(r, kind) \/ Deliver(r, kind)
               \/ Sync(r) \/ Listen(r) \/ ListenFails(r)
        PROVE  /\ UNCHANGED <<pods, since>>
               /\ \A s \in Replica : phase[s] # "syncing" => phase'[s] # "syncing"
    BY <2>6 DEF ListRules, Deliver, Sync, Listen, ListenFails, PInv, SpansInv
  <2>7. PodsInv'
    BY <1>2, <2>4, <2>5, <2>6 DEF SpanStep
  <2> QED
    BY <2>2, <2>3, <2>7 DEF PInv
<1>3. ASSUME UNCHANGED <<stores, replicaVars>>,
             DOMAIN pods' = Pod, pods' = [p \in Pod |-> pods'[p]],
             \A p \in Pod : CreationInv(pods[p])' \/ pods'[p] = pods[p]
      PROVE  PInv'
  <2>1. StoresInv' /\ StoresGrow
    BY <1>3, UnchangedStores DEF PInv
  <2>2. SpansInv'
    BY <1>3, <2>1, SpansGrow DEF PInv
  <2>3. ASSUME NEW p \in Pod, pods[p].state = "reading"
        PROVE  /\ phase'[pods[p].replica] # "syncing"
               /\ since'[pods[p].replica] = since[pods[p].replica]
    BY <1>3, <2>3 DEF PInv, PodsInv, CreationInv, replicaVars
  <2>4. PodsInv'
    BY <1>3, <2>1, <2>3, KeptPods
  <2> QED
    BY <2>1, <2>2, <2>4 DEF PInv
<1>4. ASSUME NEW p \in Pod, NEW object \in PodObjects, AskFor(p, object) PROVE PInv'
  <2>1. /\ pods' = [pods EXCEPT ![p] = [pods[p] EXCEPT !.state = "asked", !.object = object]]
        /\ UNCHANGED <<stores, replicaVars>>
    BY <1>4 DEF AskFor, PInv, PodsInv
  <2>2. /\ DOMAIN pods' = Pod /\ pods' = [q \in Pod |-> pods'[q]]
        /\ pods'[p] = [pods[p] EXCEPT !.state = "asked", !.object = object]
        /\ \A q \in Pod \ {p} : pods'[q] = pods[q]
    BY <2>1, OtherPods DEF PInv
  <2>3. CreationInv(pods[p])
    BY DEF PInv, PodsInv
  <2>4. CreationInv(pods[p])'
    BY <2>2, <2>3, IdleCreation DEF CreationInv, IsCreation
  <2> QED
    BY <1>3, <2>1, <2>2, <2>4
<1>5. ASSUME NEW p \in Pod, Refuse(p) PROVE PInv'
  <2>1. pods' = Refused({p}) /\ UNCHANGED <<stores, replicaVars>>
    BY <1>5 DEF Refuse
  <2>2. CreationInv(pods[p])'
    BY <2>1, RefusedCreation DEF PInv
  <2>3. /\ DOMAIN pods' = Pod /\ pods' = [q \in Pod |-> pods'[q]]
        /\ \A q \in Pod \ {p} : pods'[q] = pods[q]
    BY <2>1 DEF Refused
  <2> QED
    BY <1>3, <2>1, <2>2, <2>3
<1>6. ASSUME NEW p \in Pod, AskAgain(p) PROVE PInv'
  <2>1. /\ pods' = [pods EXCEPT ![p] = [pods[p] EXCEPT !.state = "asked"]]
        /\ UNCHANGED <<stores, replicaVars>>
    BY <1>6 DEF AskAgain, PInv, PodsInv
  <2>2. /\ DOMAIN pods' = Pod /\ pods' = [q \in Pod |-> pods'[q]]
        /\ pods'[p] = [pods[p] EXCEPT !.state = "asked"]
        /\ \A q \in Pod \ {p} : pods'[q] = pods[q]
    BY <2>1, OtherPods DEF PInv
  <2>3. CreationInv(pods[p])
    BY DEF PInv, PodsInv
  <2>4. CreationInv(pods[p])'
    BY <2>2, <2>3, IdleCreation DEF CreationInv, IsCreation
  <2> QED
    BY <1>3, <2>1, <2>2, <2>4
<1>7. ASSUME NEW p \in Pod,
             ReadNamespaced(p) \/ Answer(p) \/ \E r \in Replica : Receive(p, r)
      PROVE  PInv'
  <2>1. CreationInv(pods[p])'
    BY <1>7, ReadNamespacedStep, AnswerStep, ReceiveStep
  <2>2. /\ \E c : pods' = [pods EXCEPT ![p] = c]
        /\ UNCHANGED <<stores, replicaVars>>
    BY <1>7 DEF ReadNamespaced, Answer, Receive
  <2>3. /\ DOMAIN pods' = Pod /\ pods' = [q \in Pod |-> pods'[q]]
        /\ \A q \in Pod \ {p} : pods'[q] = pods[q]
    BY <2>2, OtherPods DEF PInv
  <2> QED
    BY <1>3, <2>1, <2>2, <2>3
<1>8. CASE UNCHANGED vars
  <2>1. DOMAIN pods' = Pod /\ pods' = [p \in Pod |-> pods'[p]]
    BY <1>8 DEF vars, PInv, PodsInv
  <2> QED
    BY <1>3, <1>8, <2>1 DEF vars
<1> QED
  BY <1>1, <1>2, <1>4, <1>5, <1>6, <1>7, <1>8 DEF Next, UserStep, SpanStep

\* Of a version only the rules of its kind are read: all that are the pod's.
LEMMA SpansSuffice == PInv => StandingRulesApply
<1> SUFFICES ASSUME PInv, NEW p \in Pod, Created(p), ~PodIsProtected(pods[p].object),
                    NEW kind \in Kind
    PROVE  LET span == pods[p].from[kind]..pods[p].until[kind]
               mine(rule) ==
                   /\ TargetsPod(rule, pods[p].object)
                   /\ kind = "namespaced" => rule.namespace = pods[p].object.namespace
               used == {rule \in RuleSet(p) : KindOf(rule) = kind}
           IN  /\ \A rule \in stores[kind][pods[p].from[kind]] :
                   mine(rule) /\ (\A v \in span : rule \in stores[kind][v]) => rule \in used
               /\ \A rule \in used :
                   mine(rule) /\ \E v \in span : rule \in stores[kind][v]
  BY DEF StandingRulesApply
<1> DEFINE span(k) == pods[p].from[k]..pods[p].until[k]
           pod == pods[p].object
<1>1. CreationInv(pods[p]) /\ pods[p].state = "created"
  BY DEF PInv, PodsInv, Created
<1>2. PICK v \in span("cluster"), w \in span("namespaced") :
          Elements(pods[p].rules) = Matching("cluster", v, pod) \cup Matching("namespaced", w, pod)
  BY <1>1 DEF CreationInv, ReadBoth
<1>3. /\ pods[p].from \in [Kind -> Nat]
      /\ \A k \in Kind : pods[p].from[k] > 0 /\ pods[p].until[k] \in 1..Len(stores[k])
      /\ \A k \in Kind : Len(stores[k]) \in Nat
  BY <1>1, StoreLengths DEF CreationInv, PInv
<1>4. "cluster" \in Kind /\ "namespaced" \in Kind /\ kind \in {"cluster", "namespaced"}
  BY DEF Kind
<1>5. v \in 1..Len(stores["cluster"]) /\ w \in 1..Len(stores["namespaced"])
  BY <1>3, <1>4
<1>6. \A k \in Kind : \A i \in 1..Len(stores[k]) : \A rule \in stores[k][i] : KindOf(rule) = k
  BY DEF PInv, StoresInv, IsVersion
<1>7. /\ \A rule \in stores["cluster"][v] : KindOf(rule) = "cluster"
      /\ \A rule \in stores["namespaced"][w] : KindOf(rule) = "namespaced"
  BY <1>4, <1>5, <1>6
<1>8. RuleSet(p) = Matching("cluster", v, pod) \cup Matching("namespaced", w, pod)
  BY <1>2 DEF RuleSet, Elements
<1>9. CASE kind = "cluster"
  <2>1. {rule \in RuleSet(p) : KindOf(rule) = kind} = Matching("cluster", v, pod)
    BY <1>7, <1>8, <1>9 DEF Matching
  <2>2. \A rule \in stores[kind][v] : rule.namespace = None
    BY <1>7, <1>9 DEF KindOf
  <2> QED
    BY <1>9, <2>1, <2>2 DEF Matching
<1>10. CASE kind = "namespaced"
  <2>1. {rule \in RuleSet(p) : KindOf(rule) = kind} = Matching("namespaced", w, pod)
    BY <1>7, <1>8, <1>10 DEF Matching
  <2>2. \A rule \in stores[kind][w] : rule.namespace # None
    BY <1>7, <1>10 DEF KindOf
  <2> QED
    BY <1>10, <2>1, <2>2 DEF Matching
<1> QED
  BY <1>4, <1>9, <1>10

\* A pod always gets the rules that stood while it was admitted, whichever
\* replica answers and however far behind and apart its two indexers are, and
\* no others (GetPodAssignmentsScheduling of podassignment/manager.go behind
\* waitForCacheSync of resource_watcher.go).
THEOREM StandingRules == Spec => []StandingRulesApply
<1>1. PInv /\ [Next]_vars => PInv'
  BY NextPInv
<1> QED
  BY InitPInv, <1>1, SpansSuffice, PTL DEF Spec

-----------------------------------------------------------------------------
(* Numbers *)

LEMMA LeastMember ==
    ASSUME NEW T \in SUBSET Nat, T # {}
    PROVE  \E n \in T : \A m \in T : n <= m
<1>1. IsWellFoundedOn(OpToRel(<, Nat), Nat)
  BY NatLessThanWellFounded
<1>2. PICK n \in T : \A m \in T : ~(<<m, n>> \in OpToRel(<, Nat))
  BY <1>1, WFMin
<1>3. \A m \in T : ~(m < n)
  BY <1>2 DEF OpToRel
<1> QED
  BY <1>3

\* The set is that of the numbers that satisfy a claim.
LEMMA SetInduction ==
    ASSUME NEW S \in SUBSET Nat, 0 \in S, \A n \in S : n + 1 \in S
    PROVE  S = Nat
<1> SUFFICES ASSUME Nat \ S # {} PROVE FALSE
  OBVIOUS
<1>1. PICK n \in Nat \ S : \A m \in Nat \ S : n <= m
  BY LeastMember
<1>2. n # 0 /\ n - 1 \in Nat /\ ~(n <= n - 1)
  BY <1>1
<1>3. n - 1 \in S
  BY <1>1, <1>2
<1> QED
  BY <1>1, <1>2, <1>3

LEMMA GreatestMember ==
    ASSUME NEW n \in Nat, NEW T \in SUBSET (1..n), T # {}
    PROVE  Max(T) \in T /\ \A x \in T : x <= Max(T)
<1> DEFINE B == {k \in Nat : \A x \in T : x <= k}
<1>1. PICK k \in B : \A j \in B : k <= j
  <2>1. n \in B /\ B \in SUBSET Nat
    OBVIOUS
  <2> HIDE DEF B
  <2> QED
    BY <2>1, LeastMember
<1>2. k \in T
  <2> SUFFICES ASSUME k \notin T PROVE FALSE
    OBVIOUS
  <2>1. PICK x \in T : TRUE
    OBVIOUS
  <2>2. \A y \in T : y < k
    BY <1>1
  <2>3. k - 1 \in B
    BY <1>1, <2>1, <2>2
  <2> QED
    BY <1>1, <2>3
<1> QED
  BY <1>1, <1>2 DEF Max

-----------------------------------------------------------------------------
(* What a list of operations makes of a spec. *)

PatchOp ==
    [path: SchedulingMember,
     value: (SUBSET Label) \cup Affinity \cup {None} \cup SUBSET Toleration]

\* The places in s of the operations on member m.
Ats(ops, s, m) == {i \in s : ops[i].path = m}

Apply(spec, op) == [spec EXCEPT ![op.path] = op.value]

\* Each member gets the value of the last operation on it among those in s.
Patched(spec, ops, s) ==
    [m \in SchedulingMember |->
        IF Ats(ops, s, m) = {} THEN spec[m] ELSE ops[Max(Ats(ops, s, m))].value]

\* That is the equation of FoldLeft: the operation at the greatest place is
\* applied to what the others make.
LEMMA PatchStep ==
    ASSUME NEW spec, spec = [m \in SchedulingMember |-> spec[m]],
           NEW ops, \A i \in DOMAIN ops : ops[i].path \in SchedulingMember,
           NEW n \in Nat, DOMAIN ops = 1..n,
           NEW s \in SUBSET DOMAIN ops
    PROVE  Patched(spec, ops, s) =
            IF s = {} THEN spec
            ELSE Apply(Patched(spec, ops, s \ {Max(s)}), ops[Max(s)])
<1>1. CASE s = {}
  BY <1>1 DEF Patched, Ats
<1>2. CASE s # {}
  <2> DEFINE x == Max(s)
             old == Patched(spec, ops, s \ {x})
  <2>1. x \in s /\ x \in Nat /\ \A y \in s : y <= x
    BY <1>2, GreatestMember
  <2> SUFFICES ASSUME NEW m \in SchedulingMember
               PROVE  Patched(spec, ops, s)[m] = IF m = ops[x].path THEN ops[x].value ELSE old[m]
    <3>1. Patched(spec, ops, s) = [m \in SchedulingMember |-> Patched(spec, ops, s)[m]]
      BY DEF Patched
    <3>2. old = [m \in SchedulingMember |-> old[m]]
      BY DEF Patched
    <3> HIDE DEF old
    <3> QED  BY <1>2, <3>1, <3>2 DEF old, Apply
  <2>2. CASE m # ops[x].path
    <3>1. Ats(ops, s, m) = Ats(ops, s \ {x}, m)
      BY <2>2 DEF Ats
    <3> QED
      BY <2>2, <3>1 DEF Patched
  <2>3. CASE m = ops[x].path
    <3>1. x \in Ats(ops, s, m) /\ \A y \in Ats(ops, s, m) : y <= x
      BY <2>1, <2>3 DEF Ats
    <3>2. Ats(ops, s, m) \in SUBSET (1..n)
      BY DEF Ats
    <3>3. Max(Ats(ops, s, m)) = x
      <4>1. /\ Max(Ats(ops, s, m)) \in Ats(ops, s, m)
            /\ \A y \in Ats(ops, s, m) : y <= Max(Ats(ops, s, m))
        BY <3>1, <3>2, GreatestMember
      <4> QED  BY <2>1, <3>1, <3>2, <4>1
    <3> QED
      BY <2>3, <3>1, <3>3 DEF Patched
  <2> QED  BY <2>2, <2>3
<1> QED  BY <1>1, <1>2

\* And it has no other solution.
LEMMA FoldPatches ==
    ASSUME NEW spec, spec = [m \in SchedulingMember |-> spec[m]],
           NEW ops, \A i \in DOMAIN ops : ops[i].path \in SchedulingMember,
           NEW n \in Nat, DOMAIN ops = 1..n
    PROVE  JsonPatched(spec, ops) = Patched(spec, ops, DOMAIN ops)
<1> DEFINE D == DOMAIN ops
           Rec(f) == [s \in SUBSET D |-> IF s = {} THEN spec
                         ELSE Apply(f[s \ {Max(s)}], ops[Max(s)])]
           iter == CHOOSE f : f = Rec(f)
           W == [s \in SUBSET D |-> Patched(spec, ops, s)]
<1>1. JsonPatched(spec, ops) = iter[D]
  BY DEF JsonPatched, Apply, FoldLeft, MapThenFoldSet
<1>2. \A s \in SUBSET D :
          Patched(spec, ops, s) =
              IF s = {} THEN spec ELSE Apply(Patched(spec, ops, s \ {Max(s)}), ops[Max(s)])
  BY PatchStep
<1>3. W = Rec(W)
  <2> SUFFICES ASSUME NEW s \in SUBSET D
               PROVE  Patched(spec, ops, s) =
                         IF s = {} THEN spec
                         ELSE Apply(W[s \ {Max(s)}], ops[Max(s)])
    OBVIOUS
  <2>1. W[s \ {Max(s)}] = Patched(spec, ops, s \ {Max(s)})
    OBVIOUS
  <2> HIDE DEF W
  <2> QED  BY <2>1, <1>2
<1>4. iter = Rec(iter)
  <2> HIDE DEF W, Rec
  <2> QED  BY <1>3
<1>5. \A s \in SUBSET D : iter[s] = IF s = {} THEN spec
                 ELSE Apply(iter[s \ {Max(s)}], ops[Max(s)])
  <2> HIDE DEF iter
  <2> QED  BY <1>4
<1> HIDE DEF iter
<1> DEFINE Good == {k \in Nat : k <= n => iter[1..k] = Patched(spec, ops, 1..k)}
<1>6. 0 \in Good
  <2>1. 1..0 = {}
    OBVIOUS
  <2> QED  BY <1>5, <1>2, <2>1
<1>7. ASSUME NEW k \in Good PROVE k + 1 \in Good
  <2> SUFFICES ASSUME k + 1 <= n PROVE iter[1..(k + 1)] = Patched(spec, ops, 1..(k + 1))
    OBVIOUS
  <2> DEFINE s == 1..(k + 1)
  <2>1. s # {} /\ s \in SUBSET D
    OBVIOUS
  <2>2. Max(s) \in s /\ \A x \in s : x <= Max(s)
    BY <2>1, GreatestMember
  <2>3. Max(s) = k + 1
    BY <2>2
  <2>4. s \ {Max(s)} = 1..k
    BY <2>3
  <2>5. iter[1..k] = Patched(spec, ops, 1..k)
    OBVIOUS
  <2> HIDE DEF Good, s
  <2>6. iter[s] = Apply(iter[s \ {Max(s)}], ops[Max(s)])
    BY <1>5, <2>1
  <2>7. Patched(spec, ops, s) = Apply(Patched(spec, ops, s \ {Max(s)}), ops[Max(s)])
    BY <1>2, <2>1
  <2> QED  BY <2>4, <2>5, <2>6, <2>7 DEF s
<1>8. n \in Good
  <2> HIDE DEF Good
  <2>1. Good \in SUBSET Nat
    BY DEF Good
  <2> QED  BY <1>6, <1>7, <2>1, SetInduction
<1> QED
  BY <1>1, <1>8

-----------------------------------------------------------------------------
(* What FlattenSeq makes of a list of lists. *)

\* f has the lists in seqs one after another, up to each of them.
Flattens(f, seqs, n) ==
    /\ f = [i \in 1..n |-> f[i]]
    /\ \A i \in 1..n : f[i] = IF i = 1 THEN seqs[1] ELSE f[i - 1] \o seqs[i]

LEMMA FlattenExists ==
    ASSUME NEW seqs, NEW n \in Nat
    PROVE  \E f : Flattens(f, seqs, n)
<1> DEFINE S == {k \in Nat : \E f : Flattens(f, seqs, k)}
<1>1. 0 \in S
  <2> DEFINE f == [i \in 1..0 |-> i]
  <2>1. Flattens(f, seqs, 0)
    BY DEF Flattens
  <2> QED  BY <2>1
<1>2. ASSUME NEW k \in S PROVE k + 1 \in S
  <2>1. PICK f : Flattens(f, seqs, k)
    OBVIOUS
  <2> DEFINE g == [i \in 1..(k + 1) |-> IF i <= k THEN f[i]
                                       ELSE IF i = 1 THEN seqs[1] ELSE f[k] \o seqs[i]]
  <2>2. \A i \in 1..(k + 1) : g[i] = IF i = 1 THEN seqs[1] ELSE g[i - 1] \o seqs[i]
    <3> SUFFICES ASSUME NEW i \in 1..(k + 1)
                 PROVE  g[i] = IF i = 1 THEN seqs[1] ELSE g[i - 1] \o seqs[i]
      OBVIOUS
    <3>1. k \in Nat
      OBVIOUS
    <3>2. CASE i <= k
      <4>1. i \in 1..k /\ g[i] = f[i]
        BY <3>1, <3>2
      <4>2. i # 1 => i - 1 \in 1..(k + 1) /\ i - 1 <= k /\ g[i - 1] = f[i - 1]
        BY <3>1, <3>2
      <4> HIDE DEF g
      <4> QED  BY <2>1, <4>1, <4>2 DEF Flattens
    <3>3. CASE i = k + 1
      <4>1. g[i] = IF i = 1 THEN seqs[1] ELSE f[k] \o seqs[i]
        BY <3>1, <3>3
      <4>2. i # 1 => i - 1 = k /\ g[k] = f[k]
        BY <3>1, <3>3
      <4> HIDE DEF g
      <4> QED  BY <4>1, <4>2
    <3> QED  BY <3>1, <3>2, <3>3
  <2>3. g = [i \in 1..(k + 1) |-> g[i]]
    OBVIOUS
  <2>4. Flattens(g, seqs, k + 1)
    <3> HIDE DEF g
    <3> QED  BY <2>2, <2>3 DEF Flattens
  <2>5. k + 1 \in Nat
    OBVIOUS
  <2> HIDE DEF g
  <2> QED  BY <2>4, <2>5
<1>3. n \in S
  <2>1. S \in SUBSET Nat
    OBVIOUS
  <2> HIDE DEF S
  <2> QED  BY <1>1, <1>2, <2>1, SetInduction
<1> QED  BY <1>3

\* f is the function that FlattenSeq chooses.
LEMMA FlattenIs ==
    ASSUME NEW seqs, Len(seqs) \in Nat \ {0}
    PROVE  \E f : Flattens(f, seqs, Len(seqs)) /\ FlattenSeq(seqs) = f[Len(seqs)]
<1> DEFINE n == Len(seqs)
           Rec(f) == [i \in 1..n |-> IF i = 1 THEN seqs[i] ELSE f[i - 1] \o seqs[i]]
           flatten == CHOOSE f : f = Rec(f)
<1>1. FlattenSeq(seqs) = flatten[n]
  BY DEF FlattenSeq
<1>2. PICK f : Flattens(f, seqs, n)
  BY FlattenExists
<1>3. f = Rec(f)
  BY <1>2 DEF Flattens
<1>4. flatten = Rec(flatten)
  <2> HIDE DEF Rec
  <2> QED  BY <1>3
<1>5. Flattens(flatten, seqs, n)
  <2> HIDE DEF flatten
  <2> QED  BY <1>4 DEF Flattens
<1> QED  BY <1>1, <1>5

-----------------------------------------------------------------------------
(* The operations of a rule. *)

\* The rule replaces member m.
Says(rule, m) == GetMergeStrategy(rule) = "OverwriteAll" /\ m \in Given(rule.scheduling)

\* No operation on m.
Silent(ops, m) == \A i \in 1..Len(ops) : ops[i].path # m

\* The last operation on m has the value v.
Ends(ops, m, v) ==
    \E i \in 1..Len(ops) :
        /\ ops[i].path = m /\ ops[i].value = v
        /\ \A j \in (i + 1)..Len(ops) : ops[j].path # m

LEMMA ConcatOps ==
    ASSUME NEW s \in Seq(PatchOp), NEW t \in Seq(PatchOp), NEW m
    PROVE  /\ s \o t \in Seq(PatchOp)
           /\ Silent(s, m) /\ Silent(t, m) => Silent(s \o t, m)
           /\ \A v : Ends(s, m, v) /\ Silent(t, m) => Ends(s \o t, m, v)
           /\ \A v : Ends(t, m, v) => Ends(s \o t, m, v)
<1>1. /\ s \o t \in Seq(PatchOp)
      /\ Len(s) \in Nat /\ Len(t) \in Nat /\ Len(s \o t) = Len(s) + Len(t)
      /\ \A i \in 1..Len(s) : (s \o t)[i] = s[i]
      /\ \A i \in (Len(s) + 1)..(Len(s) + Len(t)) : (s \o t)[i] = t[i - Len(s)]
  OBVIOUS
<1>2. \A i \in 1..Len(t) : (s \o t)[i + Len(s)] = t[i]
  BY <1>1
<1>3. ASSUME Silent(t, m), NEW i \in (Len(s) + 1)..Len(s \o t) PROVE (s \o t)[i].path # m
  <2>1. i - Len(s) \in 1..Len(t) /\ (s \o t)[i] = t[i - Len(s)]
    BY <1>1
  <2> QED  BY <1>3, <2>1 DEF Silent
<1>4. ASSUME Silent(s, m), Silent(t, m) PROVE Silent(s \o t, m)
  <2> SUFFICES ASSUME NEW i \in 1..Len(s \o t) PROVE (s \o t)[i].path # m
    BY DEF Silent
  <2>1. CASE i <= Len(s)
    BY <1>1, <1>4, <2>1 DEF Silent
  <2>2. CASE i > Len(s)
    BY <1>1, <1>3, <1>4, <2>2
  <2> QED  BY <1>1, <2>1, <2>2
<1>5. ASSUME NEW v, Ends(s, m, v), Silent(t, m) PROVE Ends(s \o t, m, v)
  <2>1. PICK i \in 1..Len(s) : /\ s[i].path = m /\ s[i].value = v
                              /\ \A j \in (i + 1)..Len(s) : s[j].path # m
    BY <1>5 DEF Ends
  <2>2. i \in 1..Len(s \o t) /\ (s \o t)[i] = s[i]
    BY <1>1
  <2>3. ASSUME NEW j \in (i + 1)..Len(s \o t) PROVE (s \o t)[j].path # m
    <3>1. CASE j <= Len(s)
      BY <1>1, <2>1, <3>1
    <3>2. CASE j > Len(s)
      BY <1>1, <1>3, <1>5, <3>2
    <3> QED  BY <1>1, <3>1, <3>2
  <2> QED  BY <2>1, <2>2, <2>3 DEF Ends
<1>6. ASSUME NEW v, Ends(t, m, v) PROVE Ends(s \o t, m, v)
  <2>1. PICK i \in 1..Len(t) : /\ t[i].path = m /\ t[i].value = v
                              /\ \A j \in (i + 1)..Len(t) : t[j].path # m
    BY <1>6 DEF Ends
  <2>2. i + Len(s) \in 1..Len(s \o t) /\ (s \o t)[i + Len(s)] = t[i]
    BY <1>1, <1>2
  <2>3. ASSUME NEW j \in (i + Len(s) + 1)..Len(s \o t) PROVE (s \o t)[j].path # m
    <3>1. j - Len(s) \in (i + 1)..Len(t) /\ (s \o t)[j] = t[j - Len(s)]
      BY <1>1
    <3> QED  BY <2>1, <3>1
  <2> QED  BY <2>1, <2>2, <2>3 DEF Ends
<1> QED  BY <1>1, <1>4, <1>5, <1>6

LEMMA ReplaceOps ==
    ASSUME NEW rule \in Rule, NEW m \in SchedulingMember
    PROVE  LET ops == Replace(rule.scheduling, m)
           IN  /\ ops \in Seq(PatchOp)
               /\ \A k \in SchedulingMember \ {m} : Silent(ops, k)
               /\ IF m \in Given(rule.scheduling) THEN Ends(ops, m, rule.scheduling[m])
                                                 ELSE Silent(ops, m)
<1>1. CASE m \in Given(rule.scheduling)
  <2> DEFINE op == [path |-> m, value |-> rule.scheduling[m]]
  <2>1. op \in PatchOp
    BY DEF PatchOp, Rule, PodSpec, SchedulingMember
  <2>2. op.path = m /\ op.value = rule.scheduling[m]
    OBVIOUS
  <2> HIDE DEF op
  <2>3. <<op>> \in Seq(PatchOp) /\ Len(<<op>>) = 1 /\ <<op>>[1] = op
    BY <2>1
  <2>4. Replace(rule.scheduling, m) = <<op>>
    BY <1>1 DEF Replace, op
  <2>5. Ends(<<op>>, m, rule.scheduling[m])
    BY <2>2, <2>3 DEF Ends
  <2>6. \A k \in SchedulingMember \ {m} : Silent(<<op>>, k)
    BY <2>2, <2>3 DEF Silent
  <2> QED  BY <1>1, <2>3, <2>4, <2>5, <2>6
<1>2. CASE m \notin Given(rule.scheduling)
  <2>1. Replace(rule.scheduling, m) = << >>
    BY <1>2 DEF Replace
  <2>2. << >> \in Seq(PatchOp) /\ \A k : Silent(<< >>, k)
    BY DEF Silent
  <2> QED  BY <1>2, <2>1, <2>2
<1> QED  BY <1>1, <1>2

LEMMA RuleOps ==
    ASSUME NEW rule \in Rule
    PROVE  /\ GetPatchOps(rule) \in Seq(PatchOp)
           /\ \A m \in SchedulingMember :
                IF Says(rule, m) THEN Ends(GetPatchOps(rule), m, rule.scheduling[m])
                                 ELSE Silent(GetPatchOps(rule), m)
<1>1. CASE GetMergeStrategy(rule) = "OverwriteAll"
  <2> DEFINE a == Replace(rule.scheduling, "nodeSelector")
             b == Replace(rule.scheduling, "affinity")
             c == Replace(rule.scheduling, "tolerations")
  <2>1. GetPatchOps(rule) = (a \o b) \o c
    BY <1>1 DEF GetPatchOps
  <2>2. /\ "nodeSelector" \in SchedulingMember /\ "affinity" \in SchedulingMember
        /\ "tolerations" \in SchedulingMember
    BY DEF SchedulingMember
  <2>3. a \in Seq(PatchOp) /\ b \in Seq(PatchOp) /\ c \in Seq(PatchOp)
    BY <2>2, ReplaceOps
  <2>4. /\ Silent(a, "affinity") /\ Silent(a, "tolerations")
        /\ Silent(b, "nodeSelector") /\ Silent(b, "tolerations")
        /\ Silent(c, "nodeSelector") /\ Silent(c, "affinity")
    BY <2>2, ReplaceOps
  <2>5. /\ IF "nodeSelector" \in Given(rule.scheduling)
             THEN Ends(a, "nodeSelector", rule.scheduling["nodeSelector"])
             ELSE Silent(a, "nodeSelector")
        /\ IF "affinity" \in Given(rule.scheduling)
             THEN Ends(b, "affinity", rule.scheduling["affinity"])
             ELSE Silent(b, "affinity")
        /\ IF "tolerations" \in Given(rule.scheduling)
             THEN Ends(c, "tolerations", rule.scheduling["tolerations"])
             ELSE Silent(c, "tolerations")
    BY <2>2, ReplaceOps
  <2> HIDE DEF a, b, c
  <2>6. a \o b \in Seq(PatchOp)
    BY <2>3, ConcatOps
  <2>7. (a \o b) \o c \in Seq(PatchOp)
    BY <2>3, <2>6, ConcatOps
  <2>8. ASSUME NEW m \in SchedulingMember
        PROVE  IF m \in Given(rule.scheduling) THEN Ends((a \o b) \o c, m, rule.scheduling[m])
                                              ELSE Silent((a \o b) \o c, m)
    <3>1. CASE m = "nodeSelector"
      BY <2>3, <2>4, <2>5, <2>6, <3>1, ConcatOps
    <3>2. CASE m = "affinity"
      BY <2>3, <2>4, <2>5, <2>6, <3>2, ConcatOps
    <3>3. CASE m = "tolerations"
      BY <2>3, <2>4, <2>5, <2>6, <3>3, ConcatOps
    <3> QED  BY <3>1, <3>2, <3>3 DEF SchedulingMember
  <2> QED  BY <1>1, <2>1, <2>7, <2>8 DEF Says
<1>2. CASE GetMergeStrategy(rule) # "OverwriteAll"
  <2>1. GetPatchOps(rule) = << >>
    BY <1>2 DEF GetPatchOps
  <2>2. << >> \in Seq(PatchOp) /\ \A k : Silent(<< >>, k)
    BY DEF Silent
  <2> QED  BY <1>2, <2>1, <2>2 DEF Says
<1> QED  BY <1>1, <1>2

-----------------------------------------------------------------------------
(* The rules that are merged. *)

LEMMA PatchedMember ==
    ASSUME NEW spec, spec = [m \in SchedulingMember |-> spec[m]],
           NEW ops \in Seq(PatchOp), NEW m \in SchedulingMember
    PROVE  LET patched == JsonPatched(spec, ops)
           IN  /\ patched = [k \in SchedulingMember |-> patched[k]]
               /\ Silent(ops, m) => patched[m] = spec[m]
               /\ \A v : Ends(ops, m, v) => patched[m] = v
<1> DEFINE patched == JsonPatched(spec, ops)
           n == Len(ops)
<1>1. n \in Nat /\ DOMAIN ops = 1..n
  OBVIOUS
<1>2. \A i \in 1..n : ops[i].path \in SchedulingMember
  <2>1. \A i \in 1..n : ops[i] \in PatchOp
    BY <1>1
  <2> QED  BY <2>1 DEF PatchOp
<1>3. patched = Patched(spec, ops, 1..n)
  BY <1>1, <1>2, FoldPatches
<1> HIDE DEF n, patched
<1>4. patched = [k \in SchedulingMember |-> patched[k]]
  BY <1>3 DEF Patched
<1>5. patched[m] = IF Ats(ops, 1..n, m) = {} THEN spec[m] ELSE ops[Max(Ats(ops, 1..n, m))].value
  BY <1>3 DEF Patched
<1>6. ASSUME Silent(ops, m) PROVE patched[m] = spec[m]
  BY <1>5, <1>6 DEF Silent, Ats, n
<1>7. ASSUME NEW v, Ends(ops, m, v) PROVE patched[m] = v
  <2>1. PICK i \in 1..n : /\ ops[i].path = m /\ ops[i].value = v
                         /\ \A j \in (i + 1)..n : ops[j].path # m
    BY <1>7 DEF Ends, n
  <2>2. /\ i \in Ats(ops, 1..n, m) /\ Ats(ops, 1..n, m) \in SUBSET (1..n)
        /\ \A j \in Ats(ops, 1..n, m) : j <= i
    BY <1>1, <2>1 DEF Ats
  <2>3. /\ Max(Ats(ops, 1..n, m)) \in Ats(ops, 1..n, m)
        /\ \A x \in Ats(ops, 1..n, m) : x <= Max(Ats(ops, 1..n, m))
    BY <1>1, <2>2, GreatestMember
  <2>4. Max(Ats(ops, 1..n, m)) = i
    BY <1>1, <2>2, <2>3
  <2> QED  BY <1>5, <2>1, <2>2, <2>4
<1> QED  BY <1>4, <1>6, <1>7 DEF patched

\* Of the first n rules the last one that says something about m says v.
SaidLast(rules, n, m, v) ==
    \E i \in 1..n :
        /\ Says(rules[i], m) /\ v = rules[i].scheduling[m]
        /\ \A j \in (i + 1)..n : ~Says(rules[j], m)

Unsaid(rules, n, m) == \A i \in 1..n : ~Says(rules[i], m)

\* What the operations of the first n rules do.
Merges(ops, rules, n) ==
    /\ ops \in Seq(PatchOp)
    /\ \A m \in SchedulingMember :
        \/ Unsaid(rules, n, m) /\ Silent(ops, m)
        \/ \E v : SaidLast(rules, n, m, v) /\ Ends(ops, m, v)

LEMMA MergesOne ==
    ASSUME NEW rules \in Seq(Rule), Len(rules) # 0
    PROVE  Merges(GetPatchOps(rules[1]), rules, 1)
<1>1. rules[1] \in Rule
  OBVIOUS
<1>2. GetPatchOps(rules[1]) \in Seq(PatchOp)
  BY <1>1, RuleOps
<1>3. ASSUME NEW m \in SchedulingMember
      PROVE  \/ Unsaid(rules, 1, m) /\ Silent(GetPatchOps(rules[1]), m)
             \/ \E v : SaidLast(rules, 1, m, v) /\ Ends(GetPatchOps(rules[1]), m, v)
  <2>1. CASE Says(rules[1], m)
    <3>1. SaidLast(rules, 1, m, rules[1].scheduling[m])
      BY <2>1 DEF SaidLast
    <3> QED  BY <1>1, <2>1, <3>1, RuleOps
  <2>2. CASE ~Says(rules[1], m)
    <3>1. Unsaid(rules, 1, m)
      BY <2>2 DEF Unsaid
    <3> QED  BY <1>1, <2>2, <3>1, RuleOps
  <2> QED  BY <2>1, <2>2
<1> QED  BY <1>2, <1>3 DEF Merges

LEMMA MergesNext ==
    ASSUME NEW rules \in Seq(Rule), NEW n \in Nat, n + 1 \in 1..Len(rules), NEW ops,
           Merges(ops, rules, n)
    PROVE  Merges(ops \o GetPatchOps(rules[n + 1]), rules, n + 1)
<1> DEFINE next == GetPatchOps(rules[n + 1])
<1>1. rules[n + 1] \in Rule
  OBVIOUS
<1>2. ops \in Seq(PatchOp) /\ next \in Seq(PatchOp)
  BY <1>1, RuleOps DEF Merges
<1>3. \A m \in SchedulingMember : IF Says(rules[n + 1], m)
                                  THEN Ends(next, m, rules[n + 1].scheduling[m])
                                  ELSE Silent(next, m)
  BY <1>1, RuleOps
<1> HIDE DEF next
<1>4. ops \o next \in Seq(PatchOp)
  BY <1>2, ConcatOps
<1>5. ASSUME NEW m \in SchedulingMember
      PROVE  \/ Unsaid(rules, n + 1, m) /\ Silent(ops \o next, m)
             \/ \E v : SaidLast(rules, n + 1, m, v) /\ Ends(ops \o next, m, v)
  <2>1. CASE Says(rules[n + 1], m)
    <3>1. SaidLast(rules, n + 1, m, rules[n + 1].scheduling[m])
      BY <2>1 DEF SaidLast
    <3>2. Ends(ops \o next, m, rules[n + 1].scheduling[m])
      BY <1>2, <1>3, <2>1, ConcatOps
    <3> QED  BY <3>1, <3>2
  <2>2. CASE ~Says(rules[n + 1], m)
    <3>1. Silent(next, m)
      BY <1>3, <2>2
    <3>2. CASE Unsaid(rules, n, m) /\ Silent(ops, m)
      <4>1. Unsaid(rules, n + 1, m)
        BY <2>2, <3>2 DEF Unsaid
      <4> QED  BY <1>2, <3>1, <3>2, <4>1, ConcatOps
    <3>3. ASSUME NEW v, SaidLast(rules, n, m, v), Ends(ops, m, v)
          PROVE  SaidLast(rules, n + 1, m, v) /\ Ends(ops \o next, m, v)
      <4>1. SaidLast(rules, n + 1, m, v)
        BY <2>2, <3>3 DEF SaidLast
      <4> QED  BY <1>2, <3>1, <3>3, <4>1, ConcatOps
    <3> QED  BY <3>2, <3>3 DEF Merges
  <2> QED  BY <2>1, <2>2
<1> QED  BY <1>4, <1>5 DEF Merges, next

LEMMA RulesMerge ==
    ASSUME NEW rules \in Seq(Rule)
    PROVE  Merges(SchedulingPatches(rules), rules, Len(rules))
<1> DEFINE n == Len(rules)
           seqs == [i \in DOMAIN rules |-> GetPatchOps(rules[i])]
<1>1. n \in Nat /\ DOMAIN rules = 1..n
  OBVIOUS
<1>2. Len(seqs) = n
  BY <1>1
<1>3. CASE n = 0
  <2>1. SchedulingPatches(rules) = << >>
    BY <1>1, <1>2, <1>3 DEF SchedulingPatches, FlattenSeq
  <2>2. << >> \in Seq(PatchOp) /\ \A m : Silent(<< >>, m) /\ Unsaid(rules, n, m)
    BY <1>3 DEF Silent, Unsaid
  <2> QED  BY <2>1, <2>2 DEF Merges
<1>4. CASE n # 0
  <2>1. PICK f : Flattens(f, seqs, n) /\ SchedulingPatches(rules) = f[n]
    BY <1>1, <1>2, <1>4, FlattenIs DEF SchedulingPatches
  <2> DEFINE S == {k \in Nat : k = 0 \/ k > n \/ Merges(f[k], rules, k)}
  <2>2. ASSUME NEW k \in S PROVE k + 1 \in S
    <3> SUFFICES ASSUME k + 1 <= n PROVE Merges(f[k + 1], rules, k + 1)
      BY <1>1
    <3>1. k \in Nat /\ k + 1 \in 1..n
      BY <1>1
    <3>2. /\ f[k + 1] = IF k + 1 = 1 THEN seqs[1] ELSE f[(k + 1) - 1] \o seqs[k + 1]
          /\ seqs[k + 1] = GetPatchOps(rules[k + 1])
      BY <1>1, <2>1, <3>1 DEF Flattens
    <3> HIDE DEF seqs, n
    <3>3. CASE k = 0
      BY <1>4, <3>2, <3>3, MergesOne DEF n
    <3>4. CASE k # 0
      <4>1. (k + 1) - 1 = k /\ k + 1 # 1 /\ ~(k > n)
        BY <1>1, <3>1, <3>4
      <4>2. Merges(f[k], rules, k) /\ f[k + 1] = f[k] \o GetPatchOps(rules[k + 1])
        BY <3>2, <3>4, <4>1
      <4> QED  BY <3>1, <4>2, MergesNext DEF n
    <3> QED  BY <3>3, <3>4
  <2>3. n \in S
    <3>1. 0 \in S /\ S \in SUBSET Nat
      OBVIOUS
    <3> HIDE DEF S
    <3> QED  BY <1>1, <2>2, <3>1, SetInduction
  <2> QED  BY <1>1, <1>4, <2>1, <2>3
<1> QED  BY <1>3, <1>4

-----------------------------------------------------------------------------
(* Rules and creations. *)

\* A rule is what a command made of it, but for the strategy.
Made(rule) ==
    \E command \in Commands, strategy \in MergeStrategy :
        rule = [AssignmentCreate(command) EXCEPT !.mergeStrategy = strategy]

MadeInv ==
    \A kind \in Kind : \A v \in 1..Len(stores[kind]) : \A rule \in stores[kind][v] : Made(rule)

\* The rules of the cluster come first.
ClusterFirst(rules) ==
    \A i, j \in 1..Len(rules) :
        i < j /\ KindOf(rules[i]) = "namespaced" => KindOf(rules[j]) = "namespaced"

MergedInv(c) ==
    /\ c.state \in {"none", "asked", "reading", "answering", "created", "refused"}
    /\ c.object \in PodObjects \cup {None} /\ (c.state # "none" => c.object \in PodObjects)
    /\ c.replica \in Replica \cup {None}
    /\ c.rules \in Seq(Rule) /\ \A i \in 1..Len(c.rules) : Made(c.rules[i])
    /\ c.spec \in PodSpec \cup {None} /\ c.until \in [Kind -> Nat]
    /\ c.state = "reading" =>
        /\ ~PodIsProtected(c.object)
        /\ \A i \in 1..Len(c.rules) : KindOf(c.rules[i]) = "cluster"
    /\ c.state \in {"answering", "created"} =>
        /\ ClusterFirst(c.rules)
        /\ PodIsProtected(c.object) => c.rules = << >>
    /\ c.state = "created" =>
        c.spec = JsonPatched(c.object.spec, SchedulingPatches(c.rules))

BoundsInv == edits \in 0..MaxEdits /\ faults \in 0..MaxFaults

AInv == PInv /\ MadeInv /\ (\A p \in Pod : MergedInv(pods[p])) /\ BoundsInv

LEMMA CommandRule ==
    ASSUME NEW command \in Commands
    PROVE  /\ AssignmentCreate(command) \in Rule
           /\ Made(AssignmentCreate(command))
<1>1. command \in AssignmentCommand
  BY CommandsAssumption
<1>2. Tolerations(command) \in SUBSET Toleration
  BY <1>1 DEF Tolerations, AssignmentCommand, Toleration
<1>3. AffinityOf(command) \in Affinity \cup {None}
  <2>1. NodeTerm(command) \in Term \cup {None}
    BY <1>1 DEF NodeTerm, AssignmentCommand, Term
  <2>2. command.mode \in NodeAffinityMode \cup PodAffinityMode \cup {"nodes"}
        /\ command.targetLabels \in SUBSET PodLabel
    BY <1>1 DEF AssignmentCommand
  <2>3. CASE command.mode \in PodAffinityMode
    <3>1. ~ForNodes(command)
      BY <2>3 DEF ForNodes, PodAffinityMode, NodeAffinityMode
    <3> QED  BY <2>2, <2>3, <3>1 DEF AffinityOf, Affinity
  <2>4. CASE command.mode \notin PodAffinityMode /\ ForNodes(command) /\ NodeTerm(command) # None
    BY <2>1, <2>2, <2>4 DEF AffinityOf, Affinity, ForNodes
  <2>5. CASE command.mode \notin PodAffinityMode /\ ~(ForNodes(command) /\ NodeTerm(command) # None)
    BY <2>5 DEF AffinityOf
  <2> QED  BY <2>3, <2>4, <2>5
<1>4. /\ command.name \in RuleName /\ command.namespace \in Namespace \cup {None}
      /\ command.targetLabels \in SUBSET PodLabel /\ command.nodeSelector \in SUBSET Label
  BY <1>1 DEF AssignmentCommand
<1>5. AssignmentCreate(command) \in Rule
  <2> DEFINE selector == IF command.mode = "nodes" THEN command.nodeSelector ELSE {}
  <2>1. selector \in SUBSET Label
    BY <1>4
  <2>2. [nodeSelector |-> selector, affinity |-> AffinityOf(command),
         tolerations |-> Tolerations(command)] \in PodSpec
    BY <1>2, <1>3, <2>1 DEF PodSpec
  <2>3. "OverwriteAll" \in MergeStrategy
    BY DEF MergeStrategy
  <2> HIDE DEF selector
  <2> QED  BY <1>4, <2>2, <2>3 DEF AssignmentCreate, Rule, selector
<1>6. "OverwriteAll" \in MergeStrategy /\ AssignmentCreate(command).mergeStrategy = "OverwriteAll"
  BY DEF MergeStrategy, AssignmentCreate
<1>7. AssignmentCreate(command)
          = [AssignmentCreate(command) EXCEPT !.mergeStrategy = "OverwriteAll"]
  BY <1>5, <1>6 DEF Rule
<1> QED
  BY <1>5, <1>6, <1>7 DEF Made

LEMMA MadeRule ==
    ASSUME NEW rule, Made(rule)
    PROVE  /\ rule \in Rule
           /\ \A strategy \in MergeStrategy : Made([rule EXCEPT !.mergeStrategy = strategy])
<1>1. PICK command \in Commands, given \in MergeStrategy :
          rule = [AssignmentCreate(command) EXCEPT !.mergeStrategy = given]
  BY DEF Made
<1>2. AssignmentCreate(command) \in Rule
  BY CommandRule
<1>3. rule \in Rule
  BY <1>1, <1>2 DEF Rule
<1>4. \A strategy \in MergeStrategy :
          [rule EXCEPT !.mergeStrategy = strategy]
              = [AssignmentCreate(command) EXCEPT !.mergeStrategy = strategy]
  BY <1>1, <1>2 DEF Rule
<1> QED
  BY <1>3, <1>4 DEF Made

LEMMA StoreMade ==
    ASSUME StoresInv, MadeInv, NEW kind \in Kind, NEW rules, StoreRules(kind, rules),
           \A rule \in rules : Made(rule)
    PROVE  MadeInv'
<1>1. stores' = [stores EXCEPT ![kind] = Append(stores[kind], rules)]
  BY DEF StoreRules
<1>2. stores[kind] \in Seq(Elements(stores[kind])) /\ stores'[kind] = Append(stores[kind], rules)
  BY <1>1 DEF StoresInv
<1>3. /\ Len(stores'[kind]) = Len(stores[kind]) + 1 /\ Len(stores[kind]) \in Nat
      /\ \A v \in 1..Len(stores[kind]) : stores'[kind][v] = stores[kind][v]
      /\ stores'[kind][Len(stores[kind]) + 1] = rules
  BY <1>2, AppendElements
<1>4. \A v \in 1..Len(stores'[kind]) : \A rule \in stores'[kind][v] : Made(rule)
  BY <1>3 DEF MadeInv
<1>5. \A other \in Kind \ {kind} : stores'[other] = stores[other]
  BY <1>1 DEF StoresInv
<1> QED
  BY <1>4, <1>5 DEF MadeInv, Made

LEMMA UserMade ==
    ASSUME StoresInv, MadeInv, UserStep
    PROVE  MadeInv'
<1>1. \A kind \in Kind : \A rule \in Current(kind) : Made(rule)
  <2> SUFFICES ASSUME NEW kind \in Kind PROVE \A rule \in Current(kind) : Made(rule)
    OBVIOUS
  <2>1. Len(stores[kind]) \in 1..Len(stores[kind])
    BY StoreLengths
  <2> QED  BY <2>1 DEF MadeInv, Current
<1>2. ASSUME NEW command \in Commands, CreateRule(command) PROVE MadeInv'
  <2> DEFINE rule == AssignmentCreate(command)
             kind == KindOf(rule)
  <2>1. kind \in Kind
    BY DEF Kind, KindOf
  <2>2. Made(rule) /\ StoreRules(kind, Current(kind) \cup {rule})
    BY <1>2, CommandRule DEF CreateRule
  <2> HIDE DEF kind, rule
  <2> QED  BY <1>1, <2>1, <2>2, StoreMade
<1>3. ASSUME NEW kind \in Kind, NEW rule \in Current(kind), NEW strategy \in MergeStrategy,
             EditRule(kind, rule, strategy)
      PROVE  MadeInv'
  <2> DEFINE edited == [rule EXCEPT !.mergeStrategy = strategy]
  <2>1. Made(edited)
    BY <1>1, MadeRule
  <2>2. StoreRules(kind, (Current(kind) \ {rule}) \cup {edited})
    BY <1>3 DEF EditRule
  <2> HIDE DEF edited
  <2> QED  BY <1>1, <2>1, <2>2, StoreMade
<1>4. ASSUME NEW kind \in Kind, NEW rule \in Current(kind), DeleteRule(kind, rule)
      PROVE  MadeInv'
  BY <1>1, <1>4, StoreMade DEF DeleteRule
<1> QED  BY <1>2, <1>3, <1>4 DEF UserStep

-----------------------------------------------------------------------------
(* The steps of a creation. *)

\* A list of rules of one kind.
LEMMA ListOfRules ==
    ASSUME PInv, MadeInv, NEW r \in Replica, phase[r] # "syncing", NEW kind \in Kind, NEW pod,
           NEW rules \in SetToSeqs(MatchingRules(r, kind, pod))
    PROVE  /\ rules \in Seq(Rule)
           /\ \A i \in 1..Len(rules) : Made(rules[i]) /\ KindOf(rules[i]) = kind
<1>1. PICK v \in since[r][kind]..Len(stores[kind]) :
          /\ v \in 1..Len(stores[kind])
          /\ MatchingRules(r, kind, pod) = Matching(kind, v, pod)
          /\ IsFiniteSet(Matching(kind, v, pod))
  BY IndexedVersion DEF PInv
<1>2. rules \in Seq(Elements(rules)) /\ Elements(rules) = Matching(kind, v, pod)
  BY <1>1, SetToSeqsElements
<1>3. \A rule \in Matching(kind, v, pod) : Made(rule) /\ rule \in Rule /\ KindOf(rule) = kind
  BY <1>1, MadeRule DEF Matching, MadeInv, PInv, StoresInv, IsVersion
<1>4. Elements(rules) \subseteq Rule
  BY <1>2, <1>3
<1>5. rules \in Seq(Rule)
  BY <1>2, <1>4
<1>6. \A i \in 1..Len(rules) : rules[i] \in Elements(rules)
  BY <1>2, SeqOfElements
<1> QED  BY <1>2, <1>3, <1>5, <1>6

LEMMA ReceiveMerged ==
    ASSUME PInv, MadeInv, NEW p \in Pod, MergedInv(pods[p]), NEW r \in Replica, Receive(p, r)
    PROVE  MergedInv(pods'[p])
<1> DEFINE pod == pods[p].object
           protected == PodIsProtected(pod)
<1>1. phase[r] = "serving" /\ pods[p].state = "asked"
  BY DEF Receive
<1>2. PICK rules \in SetToSeqs(IF protected THEN {} ELSE MatchingRules(r, "cluster", pod)) :
          pods' = [pods EXCEPT ![p] = [pods[p] EXCEPT
                      !.state = IF protected THEN "answering" ELSE "reading",
                      !.replica = r, !.rules = rules, !.from = since[r]]]
  BY DEF Receive
<1>3. pods'[p] = [pods[p] EXCEPT !.state = IF protected THEN "answering" ELSE "reading",
                                 !.replica = r, !.rules = rules, !.from = since[r]]
  BY <1>2, OtherPods DEF PInv
<1>4. IsCreation(pods[p])
  BY DEF PInv, PodsInv, CreationInv
<1>5. /\ pods'[p].state = IF protected THEN "answering" ELSE "reading"
      /\ pods'[p].replica = r /\ pods'[p].rules = rules
      /\ pods'[p].object = pod /\ pods'[p].spec = pods[p].spec /\ pods'[p].until = pods[p].until
  <2> HIDE DEF pod, protected
  <2> QED  BY <1>3, <1>4 DEF IsCreation, pod
<1>6. CASE protected
  <2>1. rules \in Seq(Elements(rules)) /\ Elements(rules) = {}
    BY <1>2, <1>6, FS_EmptySet, SetToSeqsElements
  <2>2. rules = << >>
    BY <2>1
  <2>3. << >> \in Seq(Rule) /\ ClusterFirst(<< >>)
    BY DEF ClusterFirst
  <2> QED  BY <1>1, <1>5, <1>6, <2>2, <2>3 DEF MergedInv
<1>7. CASE ~protected
  <2>1. /\ rules \in Seq(Rule)
        /\ \A i \in 1..Len(rules) : Made(rules[i]) /\ KindOf(rules[i]) = "cluster"
    BY <1>1, <1>2, <1>7, ListOfRules DEF Kind
  <2> QED  BY <1>1, <1>5, <1>7, <2>1 DEF MergedInv
<1> QED  BY <1>6, <1>7

LEMMA ReadMerged ==
    ASSUME PInv, MadeInv, NEW p \in Pod, MergedInv(pods[p]), ReadNamespaced(p)
    PROVE  MergedInv(pods'[p])
<1> DEFINE r == pods[p].replica
           old == pods[p].rules
<1>1. PICK rules \in SetToSeqs(MatchingRules(r, "namespaced", pods[p].object)) :
          pods' = [pods EXCEPT ![p].state = "answering", ![p].rules = old \o rules]
  BY DEF ReadNamespaced, PInv, PodsInv
<1>2. pods' = [pods EXCEPT ![p] = [pods[p] EXCEPT !.state = "answering", !.rules = old \o rules]]
  BY <1>1 DEF PInv, PodsInv
<1>3. pods'[p] = [pods[p] EXCEPT !.state = "answering", !.rules = old \o rules]
  BY <1>2, OtherPods DEF PInv
<1>4. IsCreation(pods[p]) /\ pods[p].state = "reading" /\ r \in Replica /\ phase[r] # "syncing"
  BY DEF PInv, PodsInv, CreationInv, ReadNamespaced
<1>5. /\ pods'[p].state = "answering" /\ pods'[p].rules = old \o rules
      /\ pods'[p].replica = r /\ pods'[p].object = pods[p].object
      /\ pods'[p].spec = pods[p].spec /\ pods'[p].until = pods[p].until
  BY <1>3, <1>4 DEF IsCreation
<1>6. /\ rules \in Seq(Rule)
      /\ \A i \in 1..Len(rules) : Made(rules[i]) /\ KindOf(rules[i]) = "namespaced"
  BY <1>1, <1>4, ListOfRules DEF Kind
<1>7. /\ old \in Seq(Rule) /\ ~PodIsProtected(pods[p].object)
      /\ \A i \in 1..Len(old) : Made(old[i]) /\ KindOf(old[i]) = "cluster"
  BY <1>4 DEF MergedInv
<1> HIDE DEF old
<1>8. /\ old \o rules \in Seq(Rule)
      /\ Len(old) \in Nat /\ Len(rules) \in Nat /\ Len(old \o rules) = Len(old) + Len(rules)
      /\ \A i \in 1..Len(old) : (old \o rules)[i] = old[i]
      /\ \A i \in (Len(old) + 1)..Len(old \o rules) :
            i - Len(old) \in 1..Len(rules) /\ (old \o rules)[i] = rules[i - Len(old)]
  BY <1>6, <1>7
<1>9. \A i \in 1..Len(old \o rules) :
          /\ Made((old \o rules)[i])
          /\ i <= Len(old) => KindOf((old \o rules)[i]) = "cluster"
          /\ i > Len(old) => KindOf((old \o rules)[i]) = "namespaced"
  <2> SUFFICES ASSUME NEW i \in 1..Len(old \o rules)
               PROVE  /\ Made((old \o rules)[i])
                      /\ i <= Len(old) => KindOf((old \o rules)[i]) = "cluster"
                      /\ i > Len(old) => KindOf((old \o rules)[i]) = "namespaced"
    OBVIOUS
  <2>1. CASE i <= Len(old)
    BY <1>7, <1>8, <2>1
  <2>2. CASE i > Len(old)
    <3>1. i - Len(old) \in 1..Len(rules) /\ (old \o rules)[i] = rules[i - Len(old)]
      BY <1>8, <2>2
    <3> QED  BY <1>6, <1>8, <2>2, <3>1
  <2> QED  BY <1>8, <2>1, <2>2
<1>10. ClusterFirst(old \o rules)
  <2> SUFFICES ASSUME NEW i \in 1..Len(old \o rules), NEW j \in 1..Len(old \o rules), i < j,
                      KindOf((old \o rules)[i]) = "namespaced"
               PROVE  KindOf((old \o rules)[j]) = "namespaced"
    BY DEF ClusterFirst
  <2>1. i > Len(old)
    BY <1>8, <1>9
  <2> QED  BY <1>8, <1>9, <2>1
<1> QED  BY <1>4, <1>5, <1>7, <1>8, <1>9, <1>10 DEF MergedInv

\* What the API server makes of the operations is the spec of a pod.
LEMMA MergedSpec ==
    ASSUME NEW spec \in PodSpec, NEW rules \in Seq(Rule)
    PROVE  LET merged == JsonPatched(spec, SchedulingPatches(rules))
           IN  /\ merged \in PodSpec
               /\ \A m \in SchedulingMember :
                    \/ Unsaid(rules, Len(rules), m) /\ merged[m] = spec[m]
                    \/ SaidLast(rules, Len(rules), m, merged[m])
<1> DEFINE ops == SchedulingPatches(rules)
           merged == JsonPatched(spec, ops)
<1>1. Merges(ops, rules, Len(rules))
  BY RulesMerge
<1>2. spec = [m \in SchedulingMember |-> spec[m]]
  BY DEF PodSpec, SchedulingMember
<1> HIDE DEF ops
<1>3. ops \in Seq(PatchOp)
  BY <1>1 DEF Merges
<1>4. \A m \in SchedulingMember : /\ Silent(ops, m) => merged[m] = spec[m]
                                 /\ \A v : Ends(ops, m, v) => merged[m] = v
  BY <1>2, <1>3, PatchedMember
<1>5. merged = [k \in SchedulingMember |-> merged[k]]
  <2>1. "affinity" \in SchedulingMember
    BY DEF SchedulingMember
  <2> QED  BY <1>2, <1>3, <2>1, PatchedMember
<1> HIDE DEF merged
<1>6. ASSUME NEW m \in SchedulingMember
      PROVE  \/ Unsaid(rules, Len(rules), m) /\ merged[m] = spec[m]
             \/ SaidLast(rules, Len(rules), m, merged[m])
  <2>1. CASE Unsaid(rules, Len(rules), m) /\ Silent(ops, m)
    BY <1>4, <2>1
  <2>2. ASSUME NEW v, SaidLast(rules, Len(rules), m, v), Ends(ops, m, v)
        PROVE  SaidLast(rules, Len(rules), m, merged[m])
    BY <1>4, <2>2
  <2> QED  BY <1>1, <2>1, <2>2 DEF Merges
<1>7. \A i \in 1..Len(rules) : rules[i].scheduling \in PodSpec
  <2>1. \A i \in 1..Len(rules) : rules[i] \in Rule
    OBVIOUS
  <2> QED  BY <2>1 DEF Rule
<1>8. \A m \in SchedulingMember :
          merged[m] = spec[m] \/ \E i \in 1..Len(rules) : merged[m] = rules[i].scheduling[m]
  BY <1>6 DEF SaidLast
<1>9. /\ merged["nodeSelector"] \in SUBSET Label
      /\ merged["affinity"] \in Affinity \cup {None}
      /\ merged["tolerations"] \in SUBSET Toleration
  <2>1. \A s \in PodSpec : /\ s["nodeSelector"] \in SUBSET Label
                           /\ s["affinity"] \in Affinity \cup {None}
                           /\ s["tolerations"] \in SUBSET Toleration
    BY DEF PodSpec
  <2>2. \A m \in SchedulingMember : \E s \in PodSpec : merged[m] = s[m]
    BY <1>7, <1>8
  <2>3. /\ "nodeSelector" \in SchedulingMember /\ "affinity" \in SchedulingMember
        /\ "tolerations" \in SchedulingMember
    BY DEF SchedulingMember
  <2> QED  BY <2>1, <2>2, <2>3
<1>10. merged \in PodSpec
  BY <1>5, <1>9 DEF PodSpec, SchedulingMember
<1> QED  BY <1>6, <1>10 DEF merged, ops

-----------------------------------------------------------------------------
(* The invariant of the merged rules. *)

LEMMA AnswerMerged ==
    ASSUME PInv, NEW p \in Pod, MergedInv(pods[p]), Answer(p)
    PROVE  MergedInv(pods'[p])
<1> DEFINE spec == JsonPatched(pods[p].object.spec, SchedulingPatches(pods[p].rules))
<1> HIDE DEF spec
<1>1. /\ pods[p].state = "answering"
      /\ pods' = [pods EXCEPT ![p] = [pods[p] EXCEPT
                     !.state = "created", !.replica = None, !.until = Versions, !.spec = spec]]
  BY DEF Answer, spec
<1>2. IsCreation(pods[p])
  BY DEF PInv, PodsInv, CreationInv
<1>3. pods'[p] = [pods[p] EXCEPT !.state = "created", !.replica = None,
                                 !.until = Versions, !.spec = spec]
  BY <1>1, OtherPods DEF PInv
<1>4. /\ pods'[p].state = "created" /\ pods'[p].rules = pods[p].rules
      /\ pods'[p].replica = None /\ pods'[p].object = pods[p].object
      /\ pods'[p].spec = spec /\ pods'[p].until = Versions
  BY <1>2, <1>3 DEF IsCreation
<1>5. pods[p].object \in PodObjects /\ pods[p].rules \in Seq(Rule)
  BY <1>1 DEF MergedInv
<1>6. spec \in PodSpec
  <2>1. pods[p].object.spec \in PodSpec
    BY <1>5, PodObjectsAssumption DEF PodObject
  <2> QED  BY <1>5, <2>1, MergedSpec DEF spec
<1>7. Versions \in [Kind -> Nat]
  BY StoreLengths DEF Versions, PInv
<1> QED  BY <1>1, <1>4, <1>5, <1>6, <1>7 DEF MergedInv, spec

LEMMA RefusedMerged ==
    ASSUME PInv, NEW lost, pods' = Refused(lost), NEW p \in Pod, MergedInv(pods[p]),
           p \in lost => pods[p].state # "none"
    PROVE  MergedInv(pods'[p])
<1>1. CASE p \in lost
  <2>1. IsCreation(pods[p])
    BY DEF PInv, PodsInv, CreationInv
  <2>2. pods'[p] = [pods[p] EXCEPT !.state = "refused", !.replica = None, !.rules = << >>,
                                   !.from = NoVersion]
    BY <1>1 DEF Refused
  <2>3. /\ pods'[p].state = "refused" /\ pods'[p].replica = None /\ pods'[p].rules = << >>
        /\ pods'[p].object = pods[p].object /\ pods'[p].spec = pods[p].spec
        /\ pods'[p].until = pods[p].until
    BY <2>1, <2>2 DEF IsCreation
  <2>4. << >> \in Seq(Rule) /\ Len(<< >>) = 0
    OBVIOUS
  <2> QED  BY <1>1, <2>3, <2>4 DEF MergedInv
<1>2. CASE p \notin lost
  BY <1>2 DEF Refused
<1> QED  BY <1>1, <1>2

LEMMA NextMerged ==
    ASSUME PInv, MadeInv, \A p \in Pod : MergedInv(pods[p]), [Next]_vars
    PROVE  \A p \in Pod : MergedInv(pods'[p])
<1> SUFFICES ASSUME NEW p \in Pod PROVE MergedInv(pods'[p])
  OBVIOUS
<1>1. ASSUME NEW q \in Pod, NEW c, pods' = [pods EXCEPT ![q] = c], q = p => MergedInv(pods'[p])
      PROVE  MergedInv(pods'[p])
  <2>1. p # q => pods'[p] = pods[p]
    BY <1>1, OtherPods DEF PInv
  <2> QED  BY <1>1, <2>1
<1>2. CASE UNCHANGED pods
  BY <1>2
<1>3. ASSUME NEW q \in Pod, NEW object \in PodObjects, AskFor(q, object)
      PROVE  MergedInv(pods'[p])
  <2> DEFINE c == [pods[q] EXCEPT !.state = "asked", !.object = object]
  <2>1. pods' = [pods EXCEPT ![q] = c]
    BY <1>3 DEF AskFor, PInv, PodsInv
  <2>2. IsCreation(pods[q]) /\ MergedInv(pods[q])
    BY DEF PInv, PodsInv, CreationInv
  <2>3. /\ c.state = "asked" /\ c.object = object /\ c.replica = pods[q].replica
        /\ c.rules = pods[q].rules /\ c.spec = pods[q].spec /\ c.until = pods[q].until
    BY <2>2 DEF IsCreation
  <2> HIDE DEF c
  <2>4. MergedInv(c)
    BY <2>2, <2>3 DEF MergedInv
  <2>5. pods'[q] = c
    BY <2>1, OtherPods DEF PInv
  <2> QED  BY <1>1, <2>1, <2>4, <2>5
<1>4. ASSUME NEW q \in Pod, AskAgain(q) PROVE MergedInv(pods'[p])
  <2> DEFINE c == [pods[q] EXCEPT !.state = "asked"]
  <2>1. pods' = [pods EXCEPT ![q] = c] /\ pods[q].state = "refused"
    BY <1>4 DEF AskAgain, PInv, PodsInv
  <2>2. IsCreation(pods[q]) /\ MergedInv(pods[q])
    BY DEF PInv, PodsInv, CreationInv
  <2>3. /\ c.state = "asked" /\ c.object = pods[q].object /\ c.replica = pods[q].replica
        /\ c.rules = pods[q].rules /\ c.spec = pods[q].spec /\ c.until = pods[q].until
    BY <2>2 DEF IsCreation
  <2> HIDE DEF c
  <2>4. MergedInv(c)
    BY <2>1, <2>2, <2>3 DEF MergedInv
  <2>5. pods'[q] = c
    BY <2>1, OtherPods DEF PInv
  <2> QED  BY <1>1, <2>1, <2>4, <2>5
<1>5. ASSUME NEW q \in Pod, Refuse(q) PROVE MergedInv(pods'[p])
  <2>1. pods' = Refused({q}) /\ pods[q].state # "none"
    BY <1>5 DEF Refuse
  <2> QED  BY <2>1, RefusedMerged
<1>6. ASSUME NEW r \in Replica, Crash(r) PROVE MergedInv(pods'[p])
  <2>1. pods' = Refused(WithReplica(r))
    BY <1>6 DEF Crash
  <2>2. p \in WithReplica(r) => pods[p].state # "none"
    BY DEF WithReplica
  <2> QED  BY <2>1, <2>2, RefusedMerged
<1>7. ASSUME NEW q \in Pod, ReadNamespaced(q) \/ Answer(q) \/ \E r \in Replica : Receive(q, r)
      PROVE  MergedInv(pods'[p])
  <2>1. MergedInv(pods'[q])
    BY <1>7, ReadMerged, AnswerMerged, ReceiveMerged
  <2>2. \E c : pods' = [pods EXCEPT ![q] = c]
    BY <1>7 DEF ReadNamespaced, Answer, Receive
  <2> QED  BY <1>1, <2>1, <2>2
<1>8. CASE UserStep
  BY <1>2, <1>8, UserStores DEF PInv
<1>9. ASSUME NEW r \in Replica,
             \/ \E kind \in Kind : ListRules(r, kind) \/ Deliver(r, kind)
             \/ Sync(r) \/ Listen(r) \/ ListenFails(r)
      PROVE  UNCHANGED pods
  BY <1>9 DEF ListRules, Deliver, Sync, Listen, ListenFails
<1>10. CASE UNCHANGED vars
  BY <1>2, <1>10 DEF vars
<1> QED
  BY <1>2, <1>3, <1>4, <1>5, <1>6, <1>7, <1>8, <1>9, <1>10 DEF Next, UserStep

LEMMA NextMade ==
    ASSUME PInv, MadeInv, [Next]_vars
    PROVE  MadeInv'
<1>1. CASE UserStep
  BY <1>1, UserMade DEF PInv
<1>2. CASE UNCHANGED stores
  BY <1>2 DEF MadeInv, Made
<1>3. UserStep \/ UNCHANGED stores
  BY DEF Next, UserStep, vars, ListRules, Deliver, Sync, Listen, ListenFails, Crash, AskFor,
         Refuse, AskAgain, ReadNamespaced, Answer, Receive
<1> QED  BY <1>1, <1>2, <1>3

LEMMA NextBounds ==
    ASSUME BoundsInv, [Next]_vars
    PROVE  BoundsInv'
<1>1. MaxEdits \in Nat /\ MaxFaults \in Nat
  BY PodBoundsAssumption
<1>2. CASE UserStep
  BY <1>1, <1>2 DEF BoundsInv, UserStep, CreateRule, EditRule, DeleteRule, StoreRules
<1>3. ASSUME NEW r \in Replica, ListenFails(r) \/ Crash(r) PROVE BoundsInv'
  BY <1>1, <1>3 DEF BoundsInv, ListenFails, Crash
<1>4. CASE UNCHANGED <<edits, faults>>
  BY <1>4 DEF BoundsInv
<1>5. \/ UserStep \/ \E r \in Replica : ListenFails(r) \/ Crash(r)
      \/ UNCHANGED <<edits, faults>>
  BY DEF Next, UserStep, vars, ListRules, Deliver, Sync, Listen, AskFor,
         Refuse, AskAgain, ReadNamespaced, Answer, Receive
<1> QED  BY <1>2, <1>3, <1>4, <1>5

LEMMA InitAInv == Init => AInv
<1> SUFFICES ASSUME Init PROVE AInv
  OBVIOUS
<1>1. BoundsInv
  BY PodBoundsAssumption DEF Init, BoundsInv
<1>2. MadeInv
  <2>1. \A kind \in Kind : \A v \in 1..Len(stores[kind]) : stores[kind][v] = {}
    BY DEF Init
  <2> QED  BY <2>1 DEF MadeInv
<1>3. \A p \in Pod : MergedInv(pods[p])
  <2>1. \A p \in Pod : pods[p] = Nothing
    BY DEF Init
  <2>2. /\ Nothing.state = "none" /\ Nothing.object = None /\ Nothing.replica = None
        /\ Nothing.rules = << >> /\ Nothing.spec = None /\ Nothing.until \in [Kind -> Nat]
    BY DEF Nothing, NoVersion
  <2>3. << >> \in Seq(Rule) /\ Len(<< >>) = 0
    OBVIOUS
  <2>4. MergedInv(Nothing)
    BY <2>2, <2>3 DEF MergedInv
  <2> QED  BY <2>1, <2>4
<1> QED  BY <1>1, <1>2, <1>3, InitPInv DEF AInv

LEMMA NextAInv == AInv /\ [Next]_vars => AInv'
<1> SUFFICES ASSUME AInv, [Next]_vars PROVE AInv'
  OBVIOUS
<1>1. PInv' /\ MadeInv' /\ BoundsInv'
  BY NextPInv, NextMade, NextBounds DEF AInv
<1>2. (\A p \in Pod : MergedInv(pods[p]))'
  BY NextMerged DEF AInv
<1> QED  BY <1>1, <1>2 DEF AInv

\* The caches, versions and creations keep their types: in particular a
\* replica has never seen a version that was not there, and serves only with
\* both kinds listed, and every spec that a patch makes is the spec of a pod.
THEOREM PodTypes == Spec => []TypeOK
<1>1. AInv => TypeOK
  <2> SUFFICES ASSUME AInv PROVE TypeOK
    OBVIOUS
  <2>1. ASSUME NEW kind \in Kind, NEW v \in DOMAIN stores[kind], NEW rule \in stores[kind][v]
        PROVE  rule \in Rule /\ KindOf(rule) = kind
    <3>1. v \in 1..Len(stores[kind])
      BY DEF AInv, PInv, StoresInv
    <3> QED  BY <3>1, MadeRule DEF AInv, MadeInv, PInv, StoresInv, IsVersion
  <2>2. ASSUME NEW p \in Pod PROVE pods[p] \in Creation
    <3>1. IsCreation(pods[p]) /\ pods[p].from \in [Kind -> Nat] /\ MergedInv(pods[p])
      BY DEF AInv, PInv, PodsInv, CreationInv
    <3> QED  BY <3>1 DEF IsCreation, MergedInv, Creation
  <2>3. ASSUME NEW r \in Replica, NEW kind \in Kind
        PROVE  /\ seen[r][kind] \in 0..Versions[kind]
               /\ phase[r] # "syncing" => seen[r][kind] > 0
    <3>1. Len(stores[kind]) \in Nat \ {0} /\ Versions[kind] = Len(stores[kind])
      BY StoreLengths DEF AInv, PInv, Versions
    <3> QED  BY <3>1 DEF AInv, PInv, SpansInv
  <2>4. phase \in [Replica -> {"syncing", "synced", "serving"}]
    BY DEF AInv, PInv, SpansInv
  <2> QED  BY <2>1, <2>2, <2>3, <2>4 DEF TypeOK, AInv, BoundsInv
<1> QED  BY InitAInv, NextAInv, <1>1, PTL DEF Spec

-----------------------------------------------------------------------------
(* Which rules win. *)

LEMMA SaysWhat ==
    ASSUME NEW rule, NEW m \in SchedulingMember
    PROVE  Says(rule, m) <=>
              /\ GetMergeStrategy(rule) = "OverwriteAll"
              /\ CASE m = "affinity" -> rule.scheduling.affinity # None
                   [] OTHER -> rule.scheduling[m] # {}
BY DEF Says, Given, SchedulingMember

\* What is known of the spec of a pod that is stored.
LEMMA CreatedSpec ==
    ASSUME AInv, NEW p \in Pod, Created(p)
    PROVE  LET rules == pods[p].rules
           IN  /\ pods[p].object \in PodObjects
               /\ rules \in Seq(Rule) /\ RuleSet(p) = {rules[i] : i \in 1..Len(rules)}
               /\ ClusterFirst(rules) /\ \A i \in 1..Len(rules) : Made(rules[i])
               /\ PodIsProtected(pods[p].object) => Len(rules) = 0
               /\ \A m \in SchedulingMember :
                    \/ Unsaid(rules, Len(rules), m) /\ pods[p].spec[m] = pods[p].object.spec[m]
                    \/ SaidLast(rules, Len(rules), m, pods[p].spec[m])
<1> DEFINE rules == pods[p].rules
<1>1. /\ pods[p].object \in PodObjects /\ rules \in Seq(Rule)
      /\ ClusterFirst(rules) /\ \A i \in 1..Len(rules) : Made(rules[i])
      /\ PodIsProtected(pods[p].object) => rules = << >>
      /\ pods[p].spec = JsonPatched(pods[p].object.spec, SchedulingPatches(rules))
  BY DEF AInv, MergedInv, Created
<1>2. pods[p].object.spec \in PodSpec
  BY <1>1, PodObjectsAssumption DEF PodObject
<1>3. RuleSet(p) = {rules[i] : i \in 1..Len(rules)}
  BY <1>1 DEF RuleSet
<1>4. Len(<< >>) = 0
  OBVIOUS
<1> HIDE DEF rules
<1>5. \A m \in SchedulingMember :
          \/ Unsaid(rules, Len(rules), m) /\ pods[p].spec[m] = pods[p].object.spec[m]
          \/ SaidLast(rules, Len(rules), m, pods[p].spec[m])
  BY <1>1, <1>2, MergedSpec
<1> QED  BY <1>1, <1>3, <1>4, <1>5 DEF rules

\* The rules of a kind that apply to a pod and say something about a member.
Saying(p, kind, m) == {rule \in RuleSet(p) : KindOf(rule) = kind /\ Says(rule, m)}

LEMMA SayingIs ==
    ASSUME NEW p \in Pod, NEW kind, NEW m \in SchedulingMember
    PROVE  {rule \in RuleSet(p) :
                /\ KindOf(rule) = kind
                /\ GetMergeStrategy(rule) = "OverwriteAll"
                /\ CASE m = "affinity" -> rule.scheduling.affinity # None
                     [] OTHER -> rule.scheduling[m] # {}} = Saying(p, kind, m)
BY SaysWhat DEF Saying

\* What NamespacedRulesWin says of one pod and one member.
RulesWin(p, m) ==
    LET said(kind) == \E rule \in Saying(p, kind, m) : pods[p].spec[m] = rule.scheduling[m]
        unsaid == pods[p].spec[m] = pods[p].object.spec[m]
    IN  IF PodIsProtected(pods[p].object) THEN unsaid
        ELSE IF Saying(p, "namespaced", m) # {} THEN said("namespaced")
        ELSE IF Saying(p, "cluster", m) # {} THEN said("cluster")
        ELSE unsaid

LEMMA WinIsRulesWin ==
    ASSUME \A p \in Pod : Created(p) => \A m \in SchedulingMember : RulesWin(p, m)
    PROVE  NamespacedRulesWin
BY SayingIs DEF NamespacedRulesWin, RulesWin

\* The operations of all rules are one patch, those of the namespace behind
\* those of the cluster, so that they win, member by member (podassignment's
\* GetPodAssignmentsScheduling and GetPodSchedulingPatches).
THEOREM NamespaceBeforeCluster == Spec => []NamespacedRulesWin
<1>1. AInv => NamespacedRulesWin
  <2> SUFFICES ASSUME AInv, NEW p \in Pod, Created(p), NEW m \in SchedulingMember
               PROVE  RulesWin(p, m)
    BY WinIsRulesWin
  <2> DEFINE rules == pods[p].rules
             n == Len(rules)
  <2>1. /\ n \in Nat /\ RuleSet(p) = {rules[i] : i \in 1..n} /\ ClusterFirst(rules)
        /\ PodIsProtected(pods[p].object) => n = 0
        /\ \/ Unsaid(rules, n, m) /\ pods[p].spec[m] = pods[p].object.spec[m]
           \/ SaidLast(rules, n, m, pods[p].spec[m])
    BY CreatedSpec
  <2> HIDE DEF rules, n
  <2>2. CASE Unsaid(rules, n, m) /\ pods[p].spec[m] = pods[p].object.spec[m]
    <3>1. Saying(p, "namespaced", m) = {} /\ Saying(p, "cluster", m) = {}
      BY <2>1, <2>2 DEF Unsaid, Saying
    <3> QED  BY <2>2, <3>1 DEF RulesWin
  <2>3. CASE SaidLast(rules, n, m, pods[p].spec[m])
    <3>1. PICK i \in 1..n : /\ Says(rules[i], m) /\ pods[p].spec[m] = rules[i].scheduling[m]
                            /\ \A j \in (i + 1)..n : ~Says(rules[j], m)
      BY <2>3 DEF SaidLast
    <3>2. rules[i] \in RuleSet(p) /\ ~PodIsProtected(pods[p].object)
      BY <2>1, <3>1
    <3>3. rules[i] \in Saying(p, KindOf(rules[i]), m)
      BY <3>1, <3>2 DEF Saying
    <3>4. CASE KindOf(rules[i]) = "namespaced"
      BY <3>1, <3>2, <3>3, <3>4 DEF RulesWin
    <3>5. CASE KindOf(rules[i]) = "cluster"
      <4>1. ASSUME NEW j \in 1..n, KindOf(rules[j]) = "namespaced", Says(rules[j], m)
            PROVE  FALSE
        <5>1. j # i /\ ~(j > i)
          BY <2>1, <3>1, <3>5, <4>1
        <5>2. j < i
          BY <2>1, <5>1
        <5> QED  BY <2>1, <3>5, <4>1, <5>2 DEF ClusterFirst, n
      <4>2. Saying(p, "namespaced", m) = {}
        BY <2>1, <4>1 DEF Saying
      <4> QED  BY <3>1, <3>2, <3>3, <3>5, <4>2 DEF RulesWin
    <3> QED  BY <3>4, <3>5 DEF KindOf
  <2> QED  BY <2>1, <2>2, <2>3
<1> QED  BY InitAInv, NextAInv, <1>1, PTL DEF Spec

-----------------------------------------------------------------------------
(* Affinities and tolerations. *)

\* The affinities that are given with -a are about other labels of nodes, not
\* about those of groups: then nobody promised a toleration.
OtherAffinities ==
    \A command \in Commands :
        command.nodeAffinity # None => command.nodeAffinity.key \in NodeKey

\* Who tolerates also requires or prefers; and who sends pods to a group
\* tolerates its taints.
LEMMA MadeTolerates ==
    ASSUME OtherAffinities, NEW rule, Made(rule)
    PROVE  /\ Says(rule, "tolerations") => Says(rule, "affinity")
           /\ LET affinity == rule.scheduling.affinity IN
              Says(rule, "affinity") /\ affinity.term # None /\ affinity.term.key \in GroupName
                => /\ Says(rule, "tolerations")
                   /\ rule.scheduling.tolerations =
                        {[key |-> affinity.term.key, value |-> v] :
                            v \in IF affinity.term.values = {} THEN {None}
                                                              ELSE affinity.term.values}
<1>1. PICK command \in Commands, given \in MergeStrategy :
          rule = [AssignmentCreate(command) EXCEPT !.mergeStrategy = given]
  BY DEF Made
<1>2. AssignmentCreate(command) \in Rule
  BY CommandRule
<1>3. /\ rule.scheduling.affinity = AffinityOf(command)
      /\ rule.scheduling.tolerations = Tolerations(command)
  BY <1>1, <1>2 DEF Rule, AssignmentCreate
<1>4. /\ Says(rule, "affinity") <=>
            GetMergeStrategy(rule) = "OverwriteAll" /\ AffinityOf(command) # None
      /\ Says(rule, "tolerations") <=>
            GetMergeStrategy(rule) = "OverwriteAll" /\ Tolerations(command) # {}
  BY <1>3 DEF Says, Given
<1>5. command \in AssignmentCommand
  BY CommandsAssumption
<1>6. ForNodes(command) => command.mode \notin PodAffinityMode
  BY DEF ForNodes, NodeAffinityMode, PodAffinityMode
<1>7. AffinityOf(command) # None =>
          \/ ~ForNodes(command) /\ AffinityOf(command).term = None
          \/ /\ ForNodes(command) /\ NodeTerm(command) # None
             /\ AffinityOf(command).term = NodeTerm(command)
  <2>1. CASE command.mode \in PodAffinityMode
    BY <1>6, <2>1 DEF AffinityOf
  <2>2. CASE command.mode \notin PodAffinityMode /\ ForNodes(command) /\ NodeTerm(command) # None
    BY <2>2 DEF AffinityOf
  <2>3. CASE command.mode \notin PodAffinityMode /\ ~(ForNodes(command) /\ NodeTerm(command) # None)
    BY <2>3 DEF AffinityOf
  <2> QED  BY <2>1, <2>2, <2>3
<1>8. ASSUME Says(rule, "tolerations") PROVE Says(rule, "affinity")
  <2>1. ForNodes(command) /\ command.assignment # None
    BY <1>4, <1>8 DEF Tolerations
  <2>2. NodeTerm(command) # None /\ NodeTerm(command) \in Term
    BY <1>5, <2>1 DEF NodeTerm, AssignmentCommand, Term
  <2>3. AffinityOf(command) \in Affinity
    BY <1>5, <1>6, <2>1, <2>2 DEF AffinityOf, Affinity, ForNodes
  <2> QED  BY <1>4, <1>8, <2>3, NoAffinityAssumption
<1>9. ASSUME Says(rule, "affinity"), AffinityOf(command).term # None,
             AffinityOf(command).term.key \in GroupName
      PROVE  /\ Says(rule, "tolerations")
             /\ Tolerations(command) =
                    {[key |-> AffinityOf(command).term.key, value |-> v] :
                        v \in IF AffinityOf(command).term.values = {}
                                THEN {None} ELSE AffinityOf(command).term.values}
  <2>1. ForNodes(command) /\ AffinityOf(command).term = NodeTerm(command)
    BY <1>4, <1>7, <1>9
  <2>2. command.nodeAffinity = None
    BY <1>9, <2>1, NodeKeyAssumption DEF NodeTerm, OtherAffinities
  <2>3. command.assignment # None /\ AffinityOf(command).term = command.assignment
    BY <1>9, <2>1, <2>2 DEF NodeTerm
  <2>4. Tolerations(command) =
            {[key |-> command.assignment.key, value |-> v] :
                v \in IF command.assignment.values = {} THEN {None}
                                                        ELSE command.assignment.values}
    BY <2>1, <2>3 DEF Tolerations
  <2>5. Tolerations(command) # {}
    <3>1. CASE command.assignment.values = {}
      BY <2>4, <3>1
    <3>2. CASE command.assignment.values # {}
      <4>1. PICK v \in command.assignment.values : TRUE
        BY <3>2
      <4>2. [key |-> command.assignment.key, value |-> v] \in Tolerations(command)
        BY <2>4, <3>2, <4>1
      <4> QED  BY <4>2
    <3> QED  BY <3>1, <3>2
  <2> QED  BY <1>4, <1>9, <2>3, <2>4, <2>5
<1> QED  BY <1>3, <1>8, <1>9

\* So the last rule on the affinity is the last one on the tolerations.
LEMMA LastTolerates ==
    ASSUME OtherAffinities, NEW rules \in Seq(Rule), \A i \in 1..Len(rules) : Made(rules[i]),
           NEW affinity, SaidLast(rules, Len(rules), "affinity", affinity),
           affinity.term # None, affinity.term.key \in GroupName,
           NEW tolerations,
           \/ Unsaid(rules, Len(rules), "tolerations")
           \/ SaidLast(rules, Len(rules), "tolerations", tolerations)
    PROVE  tolerations = {[key |-> affinity.term.key, value |-> v] :
                            v \in IF affinity.term.values = {} THEN {None}
                                                              ELSE affinity.term.values}
<1> DEFINE n == Len(rules)
<1>1. n \in Nat
  OBVIOUS
<1>2. PICK i \in 1..n : /\ Says(rules[i], "affinity")
                        /\ affinity = rules[i].scheduling["affinity"]
                        /\ \A j \in (i + 1)..n : ~Says(rules[j], "affinity")
  BY DEF SaidLast
<1> HIDE DEF n
<1>3. \A j \in 1..n : Made(rules[j])
  BY DEF n
<1>4. /\ Says(rules[i], "tolerations")
      /\ rules[i].scheduling["tolerations"] =
            {[key |-> affinity.term.key, value |-> v] :
                v \in IF affinity.term.values = {} THEN {None} ELSE affinity.term.values}
  BY <1>2, <1>3, MadeTolerates
<1>5. SaidLast(rules, n, "tolerations", tolerations)
  BY <1>4 DEF Unsaid, n
<1>6. PICK k \in 1..n : /\ Says(rules[k], "tolerations")
                        /\ tolerations = rules[k].scheduling["tolerations"]
                        /\ \A j \in (k + 1)..n : ~Says(rules[j], "tolerations")
  BY <1>5 DEF SaidLast
<1>7. Says(rules[k], "affinity")
  BY <1>3, <1>6, MadeTolerates
<1>8. ~(k > i) /\ ~(i > k)
  BY <1>1, <1>2, <1>4, <1>6, <1>7
<1>9. i = k
  BY <1>1, <1>8
<1> QED  BY <1>4, <1>6, <1>9

\* Whichever rules are merged, the rule that sends a pod to the nodes of an
\* assignment also has the last word on its tolerations (bin/valetctl.go,
\* "Implies toleration").
THEOREM MembersTolerated == OtherAffinities => (Spec => []MembersAccept)
<1>1. OtherAffinities /\ AInv => MembersAccept
  <2> SUFFICES ASSUME OtherAffinities, AInv, NEW p \in Pod, Created(p),
                      pods[p].spec.affinity # None, pods[p].spec.affinity.term # None,
                      pods[p].spec.affinity.term.key \in GroupName, NEW a \in GroupAssignments
               PROVE  LET affinity == pods[p].spec.affinity
                          node == Assign([labels |-> {}, assign |-> None, packleft |-> None,
                                          taints |-> {}, ready |-> TRUE], a)
                      IN  Satisfies(node, affinity.term)
                              => Tolerates(pods[p].spec, affinity.term.key, node)
    BY DEF MembersAccept
  <2> DEFINE rules == pods[p].rules
             affinity == pods[p].spec["affinity"]
             tolerations == pods[p].spec["tolerations"]
             node == Assign([labels |-> {}, assign |-> None, packleft |-> None,
                             taints |-> {}, ready |-> TRUE], a)
  <2>1. /\ pods[p].object \in PodObjects
        /\ rules \in Seq(Rule) /\ \A i \in 1..Len(rules) : Made(rules[i])
        /\ \/ Unsaid(rules, Len(rules), "affinity") /\ affinity = pods[p].object.spec["affinity"]
           \/ SaidLast(rules, Len(rules), "affinity", affinity)
        /\ \/ Unsaid(rules, Len(rules), "tolerations")
           \/ SaidLast(rules, Len(rules), "tolerations", tolerations)
    BY CreatedSpec DEF SchedulingMember
  <2>2. affinity # pods[p].object.spec["affinity"]
    BY <2>1, PodObjectsAssumption, NodeKeyAssumption
  <2> HIDE DEF rules, affinity, tolerations
  <2>3. affinity.term # None /\ affinity.term.key \in GroupName
    BY DEF affinity
  <2>4. tolerations = {[key |-> affinity.term.key, value |-> v] :
                            v \in IF affinity.term.values = {} THEN {None}
                                                              ELSE affinity.term.values}
    BY <2>1, <2>2, <2>3, LastTolerates
  <2>5. node.assign = a.name /\ \A t \in node.taints : t.value = a.name
    BY DEF Assign, SetTaint, SetLabel
  <2> HIDE DEF node
  <2> SUFFICES ASSUME Satisfies(node, affinity.term), NEW t \in node.taints
               PROVE  \E toleration \in tolerations :
                        toleration.key = affinity.term.key /\ toleration.value \in {None, t.value}
    BY DEF Tolerates, affinity, tolerations, node
  <2>6. CASE affinity.term.values = {}
    <3>1. [key |-> affinity.term.key, value |-> None] \in tolerations
      BY <2>4, <2>6
    <3> QED  BY <3>1
  <2>7. CASE affinity.term.values # {}
    <3>1. a.name \in affinity.term.values
      BY <2>5, <2>7 DEF Satisfies, GetAssignment
    <3>2. [key |-> affinity.term.key, value |-> a.name] \in tolerations
      BY <2>4, <2>7, <3>1
    <3> QED  BY <2>5, <3>2
  <2> QED  BY <2>6, <2>7
<1>2. OtherAffinities \in BOOLEAN
  BY DEF OtherAffinities
<1> SUFFICES ASSUME OtherAffinities PROVE Spec => []MembersAccept
  OBVIOUS
<1>3. AInv => MembersAccept
  BY <1>1
<1> QED  BY InitAInv, NextAInv, <1>3, PTL DEF Spec
=============================================================================
