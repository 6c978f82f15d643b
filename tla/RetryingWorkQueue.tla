-------------------------- MODULE RetryingWorkQueue --------------------------
(***************************************************************************)
(* pkg/queues/retrying_work_queue.go: `threadiness' workers process the    *)
(* keys of objects held in an informer's cache (the indexer).  Informers   *)
(* change the cache first and call the event handler, and with it AddItem, *)
(* later; between the two, and at any point of a worker's processNextItem, *)
(* other threads run.                                                      *)
(*                                                                         *)
(* An object is a version number, 0 for an object that does not exist.     *)
(* The business logic is a parameter of the queue: it may return an error  *)
(* at any time.                                                            *)
(***************************************************************************)
EXTENDS WorkQueue

CONSTANTS
    Worker,         \* the threads started by Run
    NoKey,          \* the item of an idle worker
    IndexerFails,   \* whether reading the indexer may fail
    MaxVersion      \* bound: how often the cache may change a key

ASSUME NoKeyAssumption == NoKey \notin Key
ASSUME IndexerFailsAssumption == IndexerFails \in BOOLEAN
ASSUME MaxVersionAssumption == MaxVersion \in Nat

VARIABLES
    version,        \* changes of the key's cache entry so far
    present,        \* whether the indexer holds an object for the key
    notify,         \* keys whose event handler has not called AddItem yet
    phase,          \* where each worker is in processNextItem
    item,           \* the key each worker got from the queue
    seen,           \* the version of the object a worker is processing
    synced,         \* ghost: the last version processed without an error
    dropped         \* ghost: keys given up on since their last change

workerVars == <<phase, item, seen>>
vars == <<queueVars, version, present, notify, workerVars, synced, dropped>>

TypeOK ==
    /\ QueueTypeOK
    /\ version \in [Key -> 0..MaxVersion]
    /\ present \in [Key -> BOOLEAN]
    /\ notify \in SUBSET Key
    /\ phase \in [Worker -> {"idle", "lookup", "busy", "finish"}]
    /\ item \in [Worker -> Key \cup {NoKey}]
    /\ seen \in [Worker -> 0..MaxVersion]
    /\ synced \in [Key -> 0..MaxVersion]
    /\ dropped \in SUBSET Key

Init ==
    /\ QueueInit
    /\ version = [k \in Key |-> 0]
    /\ present = [k \in Key |-> FALSE]
    /\ notify = {}
    /\ phase = [w \in Worker |-> "idle"]
    /\ item = [w \in Worker |-> NoKey]
    /\ seen = [w \in Worker |-> 0]
    /\ synced = [k \in Key |-> 0]
    /\ dropped = {}

-----------------------------------------------------------------------------
(* The informer. *)

\* The watch adds, updates or deletes the object in the cache.
Change(k) ==
    /\ version[k] < MaxVersion
    /\ version' = [version EXCEPT ![k] = @ + 1]
    /\ \E p \in BOOLEAN : present' = [present EXCEPT ![k] = p]
    /\ notify' = notify \cup {k}
    /\ dropped' = dropped \ {k}
    /\ UNCHANGED <<queueVars, workerVars, synced>>

\* The handler of the change puts the key into the queue.
AddItem(k) ==
    /\ k \in notify
    /\ notify' = notify \ {k}
    /\ Add(k)
    /\ UNCHANGED <<waiting, failures, version, present, workerVars, synced, dropped>>

\* A rate limited re-add of the key is due.
FireWaiting(k) ==
    /\ Fire(k)
    /\ UNCHANGED <<version, present, notify, workerVars, synced, dropped>>

-----------------------------------------------------------------------------
(* processNextItem *)

\* queue.Get returns a key to an idle worker.
GetItem(w) ==
    /\ phase[w] = "idle"
    /\ \E k \in Key :
        /\ Get(k)
        /\ item' = [item EXCEPT ![w] = k]
    /\ phase' = [phase EXCEPT ![w] = "lookup"]
    /\ UNCHANGED <<seen, version, present, notify, synced, dropped>>

\* The worker holds version v of the key: record what handleErr concludes.
Conclude(w, failed, v) ==
    LET k == item[w] IN
    /\ HandleErr(k, failed)
    /\ phase' = [phase EXCEPT ![w] = "finish"]
    /\ synced' = IF failed THEN synced ELSE [synced EXCEPT ![k] = v]
    /\ dropped' = IF failed /\ Exhausted(k) /\ v = version[k]
                    THEN dropped \cup {k}
                    ELSE dropped
    /\ UNCHANGED <<item, seen, version, present, notify>>

\* Mutant of LookupItem: Done is called before the object is processed.
LookupItemDoneFirst(w) ==
    /\ phase[w] = "lookup"
    /\ IF present[item[w]]
         THEN /\ phase' = [phase EXCEPT ![w] = "busy"]
              /\ seen' = [seen EXCEPT ![w] = version[item[w]]]
              /\ Done(item[w])
              /\ UNCHANGED <<item, version, present, notify, synced, dropped>>
         ELSE Conclude(w, FALSE, version[item[w]])

\* indexer.GetByKey: an absent object needs no processing and no retry.
LookupItem(w) ==
    /\ phase[w] = "lookup"
    /\ IF present[item[w]]
         THEN /\ phase' = [phase EXCEPT ![w] = "busy"]
              /\ seen' = [seen EXCEPT ![w] = version[item[w]]]
              /\ UNCHANGED <<queueVars, item, version, present, notify, synced, dropped>>
         ELSE Conclude(w, FALSE, version[item[w]])

\* The indexer is not set, or returns an error.
LookupFails(w) ==
    /\ IndexerFails
    /\ phase[w] = "lookup"
    /\ Conclude(w, TRUE, version[item[w]])

\* businessLogicFunc returns, with or without an error.
ProcessItem(w, failed) ==
    /\ phase[w] = "busy"
    /\ Conclude(w, failed, seen[w])

\* The deferred queue.Done.
FinishItem(w) ==
    /\ phase[w] = "finish"
    /\ Done(item[w])
    /\ phase' = [phase EXCEPT ![w] = "idle"]
    /\ item' = [item EXCEPT ![w] = NoKey]
    /\ UNCHANGED <<seen, version, present, notify, synced, dropped>>

WorkerStep(w) ==
    \/ GetItem(w)
    \/ LookupItem(w)
    \/ LookupFails(w)
    \/ \E failed \in BOOLEAN : ProcessItem(w, failed)
    \/ FinishItem(w)

Next ==
    \/ \E k \in Key : Change(k) \/ AddItem(k) \/ FireWaiting(k)
    \/ \E w \in Worker : WorkerStep(w)

Spec == Init /\ [][Next]_vars

\* Handlers run, delays end and the goroutines of Run are scheduled.
Fairness ==
    /\ \A k \in Key : WF_vars(AddItem(k)) /\ WF_vars(FireWaiting(k))
    /\ \A w \in Worker : WF_vars(WorkerStep(w))

FairSpec == Spec /\ Fairness

-----------------------------------------------------------------------------
(* Properties *)

Holds(w, k) == phase[w] # "idle" /\ item[w] = k

\* processNextItem, lines 75-77: "two pods with the same key are never
\* processed in parallel".  No two workers hold the same key, whatever is
\* added, retried or finished meanwhile.
ExclusiveProcessing ==
    \A w1, w2 \in Worker, k \in Key : Holds(w1, k) /\ Holds(w2, k) => w1 = w2

\* The latest version of every object has been processed, or given up on
\* after the retries, or something that is still to happen will have it
\* processed: a handler, the queue, a pending retry or a worker that has not
\* read an older version.
NoLostUpdate ==
    \A k \in Key :
        \/ synced[k] = version[k]
        \/ k \in notify \cup dirty \cup waiting \cup dropped
        \/ \E w \in Worker :
            /\ item[w] = k
            /\ \/ phase[w] = "lookup"
               \/ phase[w] = "busy" /\ seen[w] = version[k]

\* A slow worker never records an older version over a newer one.
NoRegress ==
    [][\A k \in Key : synced'[k] >= synced[k]]_vars

\* Every change of an object is eventually processed, or dropped after the
\* retries; a key is never forgotten in the queue.
EventuallyHandled ==
    \A k \in Key : (synced[k] # version[k]) ~> (synced[k] = version[k] \/ k \in dropped)
=============================================================================
