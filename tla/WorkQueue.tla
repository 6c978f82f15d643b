------------------------------ MODULE WorkQueue ------------------------------
(***************************************************************************)
(* The rate limiting work queue of client-go, as far as kube-valet uses    *)
(* it, and the retry policy that RetryingWorkQueue.handleErr puts on top.  *)
(* The module has no specification of its own: it is extended by the       *)
(* modules whose workers use a queue (RetryingWorkQueue, NagController).   *)
(*                                                                         *)
(* client-go is not in this repository.  Its queue is modelled by what     *)
(* pkg/queues relies on: a key is in the FIFO at most once, a key added    *)
(* while a worker holds it is put back when the worker calls Done, and a   *)
(* rate limited key waits an unspecified time before it is added.          *)
(***************************************************************************)
EXTENDS Naturals, Sequences

CONSTANT Key        \* the keys of the objects that are queued

VARIABLES
    queue,          \* the FIFO of keys ready to be processed
    dirty,          \* keys that need processing (queued or re-added)
    processing,     \* keys handed to a worker and not yet Done
    waiting,        \* keys whose rate limited re-add has not fired yet
    failures        \* the rate limiter's count of requeues of each key

queueVars == <<queue, dirty, processing, waiting, failures>>

\* handleErr: "retries 5 times if something goes wrong".
MaxRequeues == 5

QueueTypeOK ==
    /\ queue \in Seq(Key)
    /\ dirty \in SUBSET Key
    /\ processing \in SUBSET Key
    /\ waiting \in SUBSET Key
    /\ failures \in [Key -> 0..MaxRequeues]

QueueInit ==
    /\ queue = <<>>
    /\ dirty = {}
    /\ processing = {}
    /\ waiting = {}
    /\ failures = [k \in Key |-> 0]

-----------------------------------------------------------------------------
(* workqueue.Type: Add, Get and Done. *)

\* Adding a dirty key does nothing; a key being processed is only marked.
Add(k) ==
    /\ dirty' = dirty \cup {k}
    /\ queue' = IF k \in dirty \cup processing THEN queue ELSE Append(queue, k)
    /\ UNCHANGED processing

\* A blocked Get returns the key that has waited longest.
Get(k) ==
    /\ queue # <<>>
    /\ k = Head(queue)
    /\ queue' = Tail(queue)
    /\ processing' = processing \cup {k}
    /\ dirty' = dirty \ {k}
    /\ UNCHANGED <<waiting, failures>>

\* A key that became dirty while it was processed goes back to the FIFO.
Done(k) ==
    /\ processing' = processing \ {k}
    /\ queue' = IF k \in dirty THEN Append(queue, k) ELSE queue
    /\ UNCHANGED <<dirty, waiting, failures>>

-----------------------------------------------------------------------------
(* The rate limiter and the delaying queue. *)

\* AddRateLimited counts the failure and schedules one delayed Add per key.
AddRateLimited(k) ==
    /\ failures' = [failures EXCEPT ![k] = @ + 1]
    /\ waiting' = waiting \cup {k}

Forget(k) ==
    /\ failures' = [failures EXCEPT ![k] = 0]
    /\ UNCHANGED waiting

\* The delay of a rate limited key is over.
Fire(k) ==
    /\ k \in waiting
    /\ waiting' = waiting \ {k}
    /\ Add(k)
    /\ UNCHANGED failures

-----------------------------------------------------------------------------
(* RetryingWorkQueue.handleErr *)

\* Mutant of Exhausted: one retry too many.
ExhaustedLate(k) == failures[k] > MaxRequeues

\* The sixth failure in a row is not retried.
Exhausted(k) == failures[k] >= MaxRequeues

\* Mutant of HandleErr: a failure is not retried.
HandleErrNoRetry(k, failed) ==
    /\ Forget(k)
    /\ UNCHANGED <<queue, dirty, processing>>

HandleErr(k, failed) ==
    /\ IF failed /\ ~Exhausted(k) THEN AddRateLimited(k) ELSE Forget(k)
    /\ UNCHANGED <<queue, dirty, processing>>
=============================================================================
