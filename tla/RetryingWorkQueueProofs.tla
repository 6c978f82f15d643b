----------------------- MODULE RetryingWorkQueueProofs -----------------------
(***************************************************************************)
(* TLAPS proofs about RetryingWorkQueue, for any set of keys, any number   *)
(* of workers and any number of changes.                                   *)
(***************************************************************************)
EXTENDS RetryingWorkQueue, TLAPS

\* The FIFO has no key twice, and holds exactly the dirty keys that no worker
\* has.
QueueInv ==
    /\ \A i \in 1..Len(queue) : queue[i] \in dirty /\ queue[i] \notin processing
    /\ \A i, j \in 1..Len(queue) : queue[i] = queue[j] => i = j
    /\ \A k \in dirty \ processing : \E i \in 1..Len(queue) : queue[i] = k

\* A worker that is not idle owns its key, and no other worker does.
WorkerInv ==
    /\ \A w \in Worker : phase[w] = "idle" => item[w] = NoKey
    /\ \A w \in Worker : phase[w] # "idle" => item[w] \in processing
    /\ ExclusiveProcessing

\* A busy worker has the latest version, or the key will be processed again;
\* what it has is never older than what was processed before.
VersionInv ==
    /\ \A k \in Key : synced[k] <= version[k]
    /\ \A w \in Worker : phase[w] = "busy" =>
        /\ seen[w] = version[item[w]] \/ item[w] \in notify \cup dirty
        /\ synced[item[w]] <= seen[w]
        /\ seen[w] <= version[item[w]]

\* The inductive invariant.
IInv == TypeOK /\ QueueInv /\ WorkerInv /\ VersionInv /\ NoLostUpdate
-----------------------------------------------------------------------------
(* What the operations of client-go's queue preserve. *)

\* Add keeps the FIFO free of duplicates and complete.
LEMMA AddKeepsQueueInv ==
    ASSUME QueueTypeOK, QueueInv, NEW k \in Key, Add(k)
    PROVE  queue' \in Seq(Key) /\ dirty' \subseteq Key /\ QueueInv'
<1>1. CASE k \in dirty \cup processing
    BY <1>1 DEF QueueTypeOK, QueueInv, Add
<1>2. CASE k \notin dirty \cup processing
    <2>1. queue' = Append(queue, k) /\ dirty' = dirty \cup {k} /\ processing' = processing
        BY <1>2 DEF Add
    <2>2. queue' \in Seq(Key) /\ Len(queue') = Len(queue) + 1
            /\ queue'[Len(queue) + 1] = k
            /\ \A i \in 1..Len(queue) : queue'[i] = queue[i]
        BY <2>1 DEF QueueTypeOK
    <2> QED  BY <1>2, <2>1, <2>2 DEF QueueTypeOK, QueueInv
<1> QED  BY <1>1, <1>2

\* Get takes the head: the key is in nobody's hands, and not in the tail.
LEMMA GetKeepsQueueInv ==
    ASSUME QueueTypeOK, QueueInv, NEW k \in Key, Get(k)
    PROVE  /\ queue' \in Seq(Key) /\ QueueInv'
           /\ k \notin processing
<1>1. queue # <<>> /\ k = queue[1] /\ queue' = Tail(queue)
        /\ processing' = processing \cup {k} /\ dirty' = dirty \ {k}
    BY DEF Get, QueueTypeOK
<1>2. queue' \in Seq(Key) /\ Len(queue) \in Nat /\ Len(queue') = Len(queue) - 1 /\ Len(queue) >= 1
        /\ \A i \in 1..Len(queue') : queue'[i] = queue[i + 1]
    BY <1>1 DEF QueueTypeOK
<1>3. k \in dirty /\ k \notin processing
    BY <1>1, <1>2 DEF QueueInv
<1>4. \A i \in 1..Len(queue') : queue'[i] \in dirty' /\ queue'[i] \notin processing'
    <2> SUFFICES ASSUME NEW i \in 1..Len(queue')
                 PROVE  queue'[i] \in dirty' /\ queue'[i] \notin processing'
        OBVIOUS
    <2>1. i + 1 \in 1..Len(queue) /\ queue'[i] = queue[i + 1] /\ 1 \in 1..Len(queue)
        BY <1>2
    <2>2. queue[i + 1] # k
        BY <1>1, <2>1 DEF QueueInv
    <2> QED  BY <1>1, <2>1, <2>2 DEF QueueInv
<1>5. \A i, j \in 1..Len(queue') : queue'[i] = queue'[j] => i = j
    <2> SUFFICES ASSUME NEW i \in 1..Len(queue'), NEW j \in 1..Len(queue'),
                        queue'[i] = queue'[j]
                 PROVE  i = j
        OBVIOUS
    <2>1. i + 1 \in 1..Len(queue) /\ j + 1 \in 1..Len(queue)
        BY <1>2
    <2>2. queue[i + 1] = queue[j + 1]
        BY <1>2
    <2>3. i + 1 = j + 1
        BY <2>1, <2>2 DEF QueueInv
    <2> QED  BY <2>3
<1>6. \A x \in dirty' \ processing' : \E i \in 1..Len(queue') : queue'[i] = x
    <2> SUFFICES ASSUME NEW x \in dirty' \ processing'
                 PROVE  \E i \in 1..Len(queue') : queue'[i] = x
        OBVIOUS
    <2>1. x \in dirty \ processing /\ x # k
        BY <1>1
    <2>2. PICK j \in 1..Len(queue) : queue[j] = x
        BY <2>1 DEF QueueInv
    <2>3. j # 1
        BY <1>1, <2>1, <2>2
    <2>4. j - 1 \in 1..Len(queue') /\ queue'[j - 1] = queue[(j - 1) + 1] /\ (j - 1) + 1 = j
        BY <1>2, <2>3
    <2> QED  BY <2>2, <2>4
<1> QED  BY <1>2, <1>3, <1>4, <1>5, <1>6 DEF QueueInv

\* Done puts a key back that became dirty while it was processed.
LEMMA DoneKeepsQueueInv ==
    ASSUME QueueTypeOK, QueueInv, NEW k \in processing, Done(k)
    PROVE  queue' \in Seq(Key) /\ QueueInv'
<1>1. CASE k \in dirty
    <2>1. queue' = Append(queue, k) /\ dirty' = dirty /\ processing' = processing \ {k}
        BY <1>1 DEF Done
    <2>2. queue' \in Seq(Key) /\ Len(queue') = Len(queue) + 1
            /\ queue'[Len(queue) + 1] = k
            /\ \A i \in 1..Len(queue) : queue'[i] = queue[i]
        BY <2>1 DEF QueueTypeOK
    <2> QED  BY <1>1, <2>1, <2>2 DEF QueueTypeOK, QueueInv
<1>2. CASE k \notin dirty
    BY <1>2 DEF QueueTypeOK, QueueInv, Done
<1> QED  BY <1>1, <1>2

\* handleErr never counts more than MaxRequeues failures and cancels no retry.
LEMMA HandleErrFacts ==
    ASSUME QueueTypeOK, NEW k \in Key, NEW f \in BOOLEAN, HandleErr(k, f)
    PROVE  /\ QueueTypeOK'
           /\ UNCHANGED <<queue, dirty, processing>>
           /\ waiting \subseteq waiting'
           /\ f /\ ~Exhausted(k) => k \in waiting'
<1> USE DEF HandleErr, QueueTypeOK
<1>1. CASE f /\ ~Exhausted(k)
    <2>1. failures[k] + 1 \in 0..MaxRequeues
        BY <1>1 DEF Exhausted, MaxRequeues
    <2> QED  BY <1>1, <2>1 DEF AddRateLimited
<1>2. CASE ~(f /\ ~Exhausted(k))
    BY <1>2 DEF Forget, MaxRequeues
<1> QED  BY <1>1, <1>2

-----------------------------------------------------------------------------
(* The steps of the informer and of the workers. *)

LEMMA ChangeKeepsIInv ==
    ASSUME IInv, NEW k \in Key, Change(k)
    PROVE  IInv'
<1> USE DEF Change, queueVars, workerVars
<1>1. TypeOK'
    BY MaxVersionAssumption DEF IInv, TypeOK, QueueTypeOK
<1>2. QueueInv'
    BY DEF IInv, QueueInv
<1>3. WorkerInv'
    BY DEF IInv, WorkerInv, ExclusiveProcessing, Holds
<1>4. VersionInv'
    BY MaxVersionAssumption DEF IInv, VersionInv, TypeOK
<1>5. NoLostUpdate'
    BY DEF IInv, NoLostUpdate, TypeOK
<1> QED  BY <1>1, <1>2, <1>3, <1>4, <1>5 DEF IInv

LEMMA AddItemKeepsIInv ==
    ASSUME IInv, NEW k \in Key, AddItem(k)
    PROVE  IInv'
<1>1. Add(k) /\ UNCHANGED <<waiting, failures, version, present, phase, item, seen, synced, dropped>>
        /\ notify' = notify \ {k}
    BY DEF AddItem, workerVars
<1>2. queue' \in Seq(Key) /\ dirty' \subseteq Key /\ QueueInv'
    BY <1>1, AddKeepsQueueInv DEF IInv, TypeOK
<1>3. dirty' = dirty \cup {k} /\ processing' = processing
    BY <1>1 DEF Add
<1>4. TypeOK'
    BY <1>1, <1>2, <1>3 DEF IInv, TypeOK, QueueTypeOK
<1>5. WorkerInv'
    BY <1>1, <1>3 DEF IInv, WorkerInv, ExclusiveProcessing, Holds
<1>6. VersionInv'
    BY <1>1, <1>3 DEF IInv, VersionInv
<1>7. NoLostUpdate'
    BY <1>1, <1>3 DEF IInv, NoLostUpdate
<1> QED  BY <1>2, <1>4, <1>5, <1>6, <1>7 DEF IInv

LEMMA FireWaitingKeepsIInv ==
    ASSUME IInv, NEW k \in Key, FireWaiting(k)
    PROVE  IInv'
<1>1. Add(k) /\ UNCHANGED <<failures, version, present, notify, phase, item, seen, synced, dropped>>
        /\ waiting' = waiting \ {k}
    BY DEF FireWaiting, Fire, workerVars
<1>2. queue' \in Seq(Key) /\ dirty' \subseteq Key /\ QueueInv'
    BY <1>1, AddKeepsQueueInv DEF IInv, TypeOK
<1>3. dirty' = dirty \cup {k} /\ processing' = processing
    BY <1>1 DEF Add
<1>4. TypeOK'
    BY <1>1, <1>2, <1>3 DEF IInv, TypeOK, QueueTypeOK
<1>5. WorkerInv'
    BY <1>1, <1>3 DEF IInv, WorkerInv, ExclusiveProcessing, Holds
<1>6. VersionInv'
    BY <1>1, <1>3 DEF IInv, VersionInv
<1>7. NoLostUpdate'
    BY <1>1, <1>3 DEF IInv, NoLostUpdate
<1> QED  BY <1>2, <1>4, <1>5, <1>6, <1>7 DEF IInv

LEMMA GetItemKeepsIInv ==
    ASSUME IInv, NEW w \in Worker, GetItem(w)
    PROVE  IInv'
<1>1. PICK k \in Key : Get(k) /\ item' = [item EXCEPT ![w] = k]
    BY DEF GetItem
<1>2. phase[w] = "idle" /\ phase' = [phase EXCEPT ![w] = "lookup"]
        /\ UNCHANGED <<waiting, failures, seen, version, present, notify, synced, dropped>>
    BY <1>1 DEF GetItem, Get
<1>3. queue' \in Seq(Key) /\ QueueInv' /\ k \notin processing
    BY <1>1, GetKeepsQueueInv DEF IInv, TypeOK
<1>4. dirty' = dirty \ {k} /\ processing' = processing \cup {k}
    BY <1>1 DEF Get
<1>5. TypeOK'
    BY <1>1, <1>2, <1>3, <1>4 DEF IInv, TypeOK, QueueTypeOK
<1>6. item \in [Worker -> Key \cup {NoKey}] /\ phase \in [Worker -> {"idle", "lookup", "busy", "finish"}]
    BY DEF IInv, TypeOK
<1>7. WorkerInv'
    BY <1>1, <1>2, <1>3, <1>4, <1>6 DEF IInv, WorkerInv, ExclusiveProcessing, Holds
<1>8. VersionInv'
    <2> SUFFICES ASSUME NEW v \in Worker, phase'[v] = "busy"
                 PROVE  /\ seen[v] = version[item'[v]] \/ item'[v] \in notify \cup dirty'
                        /\ synced[item'[v]] <= seen[v]
                        /\ seen[v] <= version[item'[v]]
        BY <1>2 DEF IInv, VersionInv
    <2>1. v # w /\ item'[v] = item[v] /\ phase[v] = "busy"
        BY <1>1, <1>2, <1>6
    <2>2. item[v] \in processing /\ item[v] # k
        BY <1>3, <2>1 DEF IInv, WorkerInv
    <2> QED  BY <1>4, <2>1, <2>2 DEF IInv, VersionInv
<1>9. NoLostUpdate'
    <2> SUFFICES ASSUME NEW x \in Key,
                        synced[x] # version[x],
                        x \notin notify \cup dirty' \cup waiting \cup dropped
                 PROVE  \E v \in Worker :
                            /\ item'[v] = x
                            /\ \/ phase'[v] = "lookup"
                               \/ phase'[v] = "busy" /\ seen[v] = version[x]
        BY <1>2 DEF NoLostUpdate
    <2>1. CASE x = k
        BY <1>1, <1>2, <1>6, <2>1
    <2>2. CASE x # k
        <3>1. PICK v \in Worker : /\ item[v] = x
                                  /\ \/ phase[v] = "lookup"
                                     \/ phase[v] = "busy" /\ seen[v] = version[x]
            BY <1>4, <2>2 DEF IInv, NoLostUpdate
        <3>2. v # w
            BY <1>2, <3>1
        <3> QED  BY <1>1, <1>2, <1>6, <3>1, <3>2
    <2> QED  BY <2>1, <2>2
<1> QED  BY <1>3, <1>5, <1>7, <1>8, <1>9 DEF IInv

\* The end of processNextItem: v is the version the worker has handled.
LEMMA ConcludeKeepsIInv ==
    ASSUME IInv, NEW w \in Worker, NEW f \in BOOLEAN, NEW v,
           Conclude(w, f, v),
           phase[w] \in {"lookup", "busy"},
           v = version[item[w]] \/ (phase[w] = "busy" /\ v = seen[w])
    PROVE  IInv'
<1> DEFINE k == item[w]
<1>1. k \in Key /\ k \in processing
    BY DEF IInv, TypeOK, QueueTypeOK, WorkerInv
<1>2. HandleErr(k, f)
        /\ phase' = [phase EXCEPT ![w] = "finish"]
        /\ synced' = (IF f THEN synced ELSE [synced EXCEPT ![k] = v])
        /\ dropped' = (IF f /\ Exhausted(k) /\ v = version[k] THEN dropped \cup {k} ELSE dropped)
        /\ UNCHANGED <<item, seen, version, present, notify>>
    BY DEF Conclude
<1>3. /\ QueueTypeOK'
      /\ UNCHANGED <<queue, dirty, processing>>
      /\ waiting \subseteq waiting'
      /\ f /\ ~Exhausted(k) => k \in waiting'
    BY <1>1, <1>2, HandleErrFacts DEF IInv, TypeOK
<1>4. v \in 0..MaxVersion /\ synced[k] <= v /\ v <= version[k]
        /\ (v = version[k] \/ k \in notify \cup dirty)
    BY <1>1, MaxVersionAssumption DEF IInv, TypeOK, VersionInv
<1>5. TypeOK'
    BY <1>1, <1>2, <1>3, <1>4 DEF IInv, TypeOK
<1>6. QueueInv'
    BY <1>3 DEF IInv, QueueInv
<1>7. WorkerInv'
    BY <1>1, <1>2, <1>3 DEF IInv, TypeOK, WorkerInv, ExclusiveProcessing, Holds
<1>8. VersionInv'
    <2>1. \A x \in Key : synced'[x] <= version'[x]
        BY <1>1, <1>2, <1>4 DEF IInv, TypeOK, VersionInv
    <2>2. ASSUME NEW u \in Worker, phase'[u] = "busy"
          PROVE  /\ seen'[u] = version'[item'[u]] \/ item'[u] \in notify' \cup dirty'
                 /\ synced'[item'[u]] <= seen'[u]
                 /\ seen'[u] <= version'[item'[u]]
        <3>1. u # w /\ phase[u] = "busy"
            BY <1>2, <2>2 DEF IInv, TypeOK
        <3>2. item[u] # k /\ item[u] \in Key
            BY <1>1, <3>1 DEF IInv, TypeOK, QueueTypeOK, WorkerInv, ExclusiveProcessing, Holds
        <3>3. synced'[item[u]] = synced[item[u]]
            BY <1>2, <3>2 DEF IInv, TypeOK
        <3> QED  BY <1>2, <1>3, <3>1, <3>3 DEF IInv, VersionInv
    <2> QED  BY <2>1, <2>2 DEF VersionInv
<1>9. NoLostUpdate'
    <2> SUFFICES ASSUME NEW x \in Key,
                        synced'[x] # version[x],
                        x \notin notify \cup dirty \cup waiting' \cup dropped'
                 PROVE  \E u \in Worker :
                            /\ item[u] = x
                            /\ \/ phase'[u] = "lookup"
                               \/ phase'[u] = "busy" /\ seen[u] = version[x]
        BY <1>2, <1>3 DEF NoLostUpdate
    <2>1. x # k
        BY <1>1, <1>2, <1>3, <1>4 DEF IInv, TypeOK
    <2>2. synced[x] # version[x] /\ x \notin dropped /\ x \notin waiting
        BY <1>2, <1>3, <2>1 DEF IInv, TypeOK
    <2>3. PICK u \in Worker : /\ item[u] = x
                              /\ \/ phase[u] = "lookup"
                                 \/ phase[u] = "busy" /\ seen[u] = version[x]
        BY <2>2 DEF IInv, NoLostUpdate
    <2>4. u # w
        BY <2>1, <2>3
    <2> QED  BY <1>2, <2>3, <2>4 DEF IInv, TypeOK
<1> QED  BY <1>5, <1>6, <1>7, <1>8, <1>9 DEF IInv

LEMMA LookupItemKeepsIInv ==
    ASSUME IInv, NEW w \in Worker, LookupItem(w)
    PROVE  IInv'
<1>1. CASE present[item[w]]
    <2>1. /\ phase[w] = "lookup"
          /\ phase' = [phase EXCEPT ![w] = "busy"]
          /\ seen' = [seen EXCEPT ![w] = version[item[w]]]
          /\ UNCHANGED <<queueVars, item, version, present, notify, synced, dropped>>
        BY <1>1 DEF LookupItem
    <2>2. item[w] \in Key
        BY <2>1 DEF IInv, TypeOK, QueueTypeOK, WorkerInv
    <2>3. TypeOK'
        BY <2>1, <2>2 DEF IInv, TypeOK, QueueTypeOK, queueVars
    <2>4. QueueInv'
        BY <2>1 DEF IInv, QueueInv, queueVars
    <2>5. WorkerInv'
        BY <2>1 DEF IInv, TypeOK, WorkerInv, ExclusiveProcessing, Holds, queueVars
    <2>6. VersionInv'
        BY <2>1, <2>2, MaxVersionAssumption DEF IInv, TypeOK, VersionInv, queueVars
    <2>7. NoLostUpdate'
        BY <2>1, <2>2 DEF IInv, TypeOK, NoLostUpdate, queueVars
    <2> QED  BY <2>3, <2>4, <2>5, <2>6, <2>7 DEF IInv
<1>2. CASE ~present[item[w]]
    BY <1>2, ConcludeKeepsIInv DEF LookupItem
<1> QED  BY <1>1, <1>2

LEMMA FinishItemKeepsIInv ==
    ASSUME IInv, NEW w \in Worker, FinishItem(w)
    PROVE  IInv'
<1> DEFINE k == item[w]
<1>1. /\ phase[w] = "finish"
      /\ Done(k)
      /\ phase' = [phase EXCEPT ![w] = "idle"]
      /\ item' = [item EXCEPT ![w] = NoKey]
      /\ UNCHANGED <<seen, version, present, notify, synced, dropped>>
    BY DEF FinishItem
<1>2. k \in processing /\ k \in Key
    BY <1>1 DEF IInv, TypeOK, QueueTypeOK, WorkerInv
<1>3. queue' \in Seq(Key) /\ QueueInv'
    BY <1>1, <1>2, DoneKeepsQueueInv DEF IInv, TypeOK
<1>4. processing' = processing \ {k} /\ UNCHANGED <<dirty, waiting, failures>>
    BY <1>1 DEF Done
<1>5. TypeOK'
    BY <1>1, <1>3, <1>4 DEF IInv, TypeOK, QueueTypeOK
<1>6. WorkerInv'
    BY <1>1, <1>2, <1>4, NoKeyAssumption
       DEF IInv, TypeOK, QueueTypeOK, WorkerInv, ExclusiveProcessing, Holds
<1>7. VersionInv'
    BY <1>1, <1>4 DEF IInv, TypeOK, VersionInv
<1>8. NoLostUpdate'
    BY <1>1, <1>4 DEF IInv, TypeOK, NoLostUpdate
<1> QED  BY <1>3, <1>5, <1>6, <1>7, <1>8 DEF IInv

-----------------------------------------------------------------------------
(* The theorems. *)

LEMMA InitIInv == Init => IInv
<1> SUFFICES ASSUME Init PROVE IInv
    OBVIOUS
<1> USE DEF Init, QueueInit
<1>1. TypeOK
    BY MaxVersionAssumption DEF TypeOK, QueueTypeOK, MaxRequeues
<1>2. QueueInv
    BY DEF QueueInv
<1>3. WorkerInv
    BY DEF WorkerInv, ExclusiveProcessing, Holds
<1>4. VersionInv /\ NoLostUpdate
    BY DEF VersionInv, NoLostUpdate
<1> QED  BY <1>1, <1>2, <1>3, <1>4 DEF IInv

LEMMA NextIInv == IInv /\ [Next]_vars => IInv'
<1> SUFFICES ASSUME IInv, [Next]_vars PROVE IInv'
    OBVIOUS
<1>1. ASSUME NEW k \in Key, Change(k) PROVE IInv'
    BY <1>1, ChangeKeepsIInv
<1>2. ASSUME NEW k \in Key, AddItem(k) PROVE IInv'
    BY <1>2, AddItemKeepsIInv
<1>3. ASSUME NEW k \in Key, FireWaiting(k) PROVE IInv'
    BY <1>3, FireWaitingKeepsIInv
<1>4. ASSUME NEW w \in Worker, GetItem(w) PROVE IInv'
    BY <1>4, GetItemKeepsIInv
<1>5. ASSUME NEW w \in Worker, LookupItem(w) PROVE IInv'
    BY <1>5, LookupItemKeepsIInv
<1>6. ASSUME NEW w \in Worker, LookupFails(w) PROVE IInv'
    BY <1>6, ConcludeKeepsIInv DEF LookupFails
<1>7. ASSUME NEW w \in Worker, NEW f \in BOOLEAN, ProcessItem(w, f) PROVE IInv'
    BY <1>7, ConcludeKeepsIInv DEF ProcessItem
<1>8. ASSUME NEW w \in Worker, FinishItem(w) PROVE IInv'
    BY <1>8, FinishItemKeepsIInv
<1>9. CASE UNCHANGED vars
    BY <1>9 DEF vars, queueVars, workerVars, IInv, TypeOK, QueueTypeOK, QueueInv, WorkerInv,
        ExclusiveProcessing, Holds, VersionInv, NoLostUpdate
<1> QED  BY <1>1, <1>2, <1>3, <1>4, <1>5, <1>6, <1>7, <1>8, <1>9 DEF Next, WorkerStep

\* The inductive invariant holds: the FIFO and the dirty set agree, workers
\* own their keys, and stale work is always requeued.
THEOREM IInvHolds == Spec => []IInv
<1>1. Init => IInv
    BY InitIInv
<1>2. IInv /\ [Next]_vars => IInv'
    BY NextIInv
<1> QED  BY <1>1, <1>2, PTL DEF Spec

\* The variables keep their types; in particular the rate limiter never
\* counts more than five requeues of a key.
THEOREM TypeCorrect == Spec => []TypeOK
<1>1. IInv => TypeOK
    BY DEF IInv
<1> QED  BY <1>1, IInvHolds, PTL

\* "Two pods with the same key are never processed in parallel"
\* (processNextItem), for any number of workers.
THEOREM KeysProcessedExclusively == Spec => []ExclusiveProcessing
<1>1. IInv => ExclusiveProcessing
    BY DEF IInv, WorkerInv
<1> QED  BY <1>1, IInvHolds, PTL

\* No change of an object is lost by the queue: it has been processed, given
\* up on, or something still to happen will have it processed.
THEOREM UpdatesNotLost == Spec => []NoLostUpdate
<1>1. IInv => NoLostUpdate
    BY DEF IInv
<1> QED  BY <1>1, IInvHolds, PTL

\* What a worker concludes with is never older than what was processed before.
LEMMA ConcludeNoRegress ==
    ASSUME IInv, NEW w \in Worker, NEW f \in BOOLEAN, NEW v,
           Conclude(w, f, v),
           phase[w] \in {"lookup", "busy"},
           v = version[item[w]] \/ (phase[w] = "busy" /\ v = seen[w])
    PROVE  \A k \in Key : synced'[k] >= synced[k]
<1>1. item[w] \in Key
    BY DEF IInv, TypeOK, QueueTypeOK, WorkerInv
<1>2. synced[item[w]] <= v /\ v \in Nat
    BY <1>1, MaxVersionAssumption DEF IInv, TypeOK, VersionInv
<1>3. synced' = IF f THEN synced ELSE [synced EXCEPT ![item[w]] = v]
    BY DEF Conclude
<1>4. synced \in [Key -> Nat]
    BY MaxVersionAssumption DEF IInv, TypeOK
<1> QED  BY <1>1, <1>2, <1>3, <1>4

\* A slow worker never records an older version over a newer one.
THEOREM SyncedNeverRegresses == Spec => NoRegress
<1>1. IInv /\ [Next]_vars => [\A k \in Key : synced'[k] >= synced[k]]_vars
    <2> SUFFICES ASSUME IInv, Next PROVE \A k \in Key : synced'[k] >= synced[k]
        OBVIOUS
    <2>1. ASSUME UNCHANGED synced PROVE \A k \in Key : synced'[k] >= synced[k]
        BY <2>1, MaxVersionAssumption DEF IInv, TypeOK
    <2>2. ASSUME NEW k \in Key, Change(k) \/ AddItem(k) \/ FireWaiting(k)
          PROVE  \A x \in Key : synced'[x] >= synced[x]
        BY <2>1, <2>2 DEF Change, AddItem, FireWaiting
    <2>3. ASSUME NEW w \in Worker, GetItem(w) \/ FinishItem(w)
          PROVE  \A x \in Key : synced'[x] >= synced[x]
        BY <2>1, <2>3 DEF GetItem, FinishItem
    <2>4. ASSUME NEW w \in Worker, LookupItem(w)
          PROVE  \A x \in Key : synced'[x] >= synced[x]
        BY <2>1, <2>4, ConcludeNoRegress DEF LookupItem
    <2>5. ASSUME NEW w \in Worker, LookupFails(w)
          PROVE  \A x \in Key : synced'[x] >= synced[x]
        BY <2>5, ConcludeNoRegress DEF LookupFails
    <2>6. ASSUME NEW w \in Worker, NEW f \in BOOLEAN, ProcessItem(w, f)
          PROVE  \A x \in Key : synced'[x] >= synced[x]
        BY <2>6, ConcludeNoRegress DEF ProcessItem
    <2> QED  BY <2>2, <2>3, <2>4, <2>5, <2>6 DEF Next, WorkerStep
<1> QED  BY <1>1, IInvHolds, PTL DEF Spec, NoRegress
=============================================================================
