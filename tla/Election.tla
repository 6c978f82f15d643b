------------------------------- MODULE Election -------------------------------
(***************************************************************************)
(* The replicas of kube-valet: controller.go runs the informers of         *)
(* resource_watcher.go in each of them, and client-go's leader election,   *)
(* whose callbacks register the controllers with the informers and remove  *)
(* them.  A replica that stops leading leaves RunOrDie, so its process     *)
(* ends, and its container is started again.                               *)
(*                                                                         *)
(* client-go's elector is modelled by what controller.go relies on: the    *)
(* lease is taken over only by a replica that has watched the same record  *)
(* for LeaseDuration, and a leader that has failed to renew for            *)
(* RenewDeadline stops.  Time is counted in ticks of each replica's own    *)
(* timers; none is paused for longer than its timers allow.                *)
(*                                                                         *)
(* What the controllers watch is one object, of which only the number of   *)
(* changes matters.                                                        *)
(***************************************************************************)
EXTENDS Naturals, FiniteSets

CONSTANTS
    Replica,        \* the identities, by default the names of the pods
    Nobody,
    LeaseDuration, RenewDeadline, RetryPeriod,
    MaxChanges,     \* bound: changes of the object
    MaxFaults       \* bound: crashes and failing calls

ASSUME NobodyAssumption == Nobody \notin Replica

\* A leader gives up before anybody may take over.
ASSUME DurationsAssumption ==
    /\ LeaseDuration \in Nat /\ RenewDeadline \in Nat /\ RetryPeriod \in Nat
    /\ RetryPeriod + RenewDeadline < LeaseDuration

ASSUME BoundsAssumption == MaxChanges \in Nat /\ MaxFaults \in Nat

VARIABLES
    (* the API server *)
    holder,         \* HolderIdentity of the election record
    current,        \* number of changes of the watched object
    handled,        \* the last change a controller has acted on
    (* each replica *)
    phase,
    known,          \* its elector has observed the record as it is now
    watched,        \* for how long it has observed the same record
    sinceRenew,     \* for how long it has led without a renewal
    failing,        \* its tries to renew have begun to fail
    registered,     \* its controllers get the informers' events
    index,          \* the last change in its indexer
    queued,         \* its work queue is not empty
    (* bounds and history *)
    faults,
    leaseAge        \* ghost: the time since the record was last written

electorVars == <<holder, known, watched, sinceRenew, failing, leaseAge>>
informerVars == <<index, queued>>
vars == <<electorVars, informerVars, current, handled, phase, registered, faults>>

\* The time a leader may lead without a renewal: a try is made every
\* RetryPeriod, and the tries end RenewDeadline after the first that fails.
Patience == RetryPeriod + RenewDeadline

TypeOK ==
    /\ holder \in Replica \cup {Nobody}
    /\ current \in Nat /\ handled \in Nat
    /\ phase \in [Replica -> {"syncing", "standby", "leading", "stopping", "gone"}]
    /\ known \in [Replica -> BOOLEAN]
    /\ watched \in [Replica -> 0..LeaseDuration]
    /\ sinceRenew \in [Replica -> 0..Patience]
    /\ failing \in [Replica -> BOOLEAN]
    /\ registered \in [Replica -> BOOLEAN]
    /\ index \in [Replica -> Nat]
    /\ queued \in [Replica -> BOOLEAN]
    /\ faults \in Nat
    /\ leaseAge \in 0..LeaseDuration

Init ==
    /\ holder = Nobody
    /\ current = 0 /\ handled = 0
    /\ phase = [r \in Replica |-> "syncing"]
    /\ known = [r \in Replica |-> FALSE]
    /\ watched = [r \in Replica |-> 0]
    /\ sinceRenew = [r \in Replica |-> 0]
    /\ failing = [r \in Replica |-> FALSE]
    /\ registered = [r \in Replica |-> FALSE]
    /\ index = [r \in Replica |-> 0]
    /\ queued = [r \in Replica |-> FALSE]
    /\ faults = 0
    /\ leaseAge = LeaseDuration

-----------------------------------------------------------------------------
(* The process. *)

\* Run waits for the caches before it starts the election.
Sync(r) ==
    /\ phase[r] = "syncing"
    /\ phase' = [phase EXCEPT ![r] = "standby"]
    /\ index' = [index EXCEPT ![r] = current]
    /\ UNCHANGED <<electorVars, queued, current, handled, registered, faults>>

Running(r) == phase[r] \in {"standby", "leading", "stopping"}

\* What a process knows is lost with it.
Leave(r, next) ==
    /\ phase' = [phase EXCEPT ![r] = next]
    /\ known' = [known EXCEPT ![r] = FALSE]
    /\ registered' = [registered EXCEPT ![r] = FALSE]
    /\ queued' = [queued EXCEPT ![r] = FALSE]
    /\ UNCHANGED <<holder, watched, sinceRenew, failing, leaseAge, index, current, handled>>

\* The container is started again, in the same pod.
Crash(r) ==
    /\ faults < MaxFaults
    /\ faults' = faults + 1
    /\ Running(r)
    /\ Leave(r, "syncing")

\* The pod is deleted or its node is lost; others are left.
Lose(r) ==
    /\ faults < MaxFaults
    /\ faults' = faults + 1
    /\ phase[r] # "gone"
    /\ \E s \in Replica \ {r} : phase[s] # "gone"
    /\ Leave(r, "gone")

-----------------------------------------------------------------------------
(* The elector. *)

\* The election record is read and has changed: the lease starts again.
Observe(r) ==
    /\ phase[r] \in {"standby", "leading"}
    /\ ~known[r]
    /\ known' = [known EXCEPT ![r] = TRUE]
    /\ watched' = [watched EXCEPT ![r] = 0]
    /\ UNCHANGED <<holder, sinceRenew, failing, leaseAge, informerVars, current, handled,
                   phase, registered, faults>>

\* Mutant of MayLead: the renew deadline is taken for the lease.
MayLeadEarly(r) == holder \in {r, Nobody} \/ watched[r] >= RenewDeadline

\* Mutant of MayLead: a lease never runs out.
MayLeadOwn(r) == holder \in {r, Nobody}

\* The lease is mine, nobody's, or has run out.
MayLead(r) == holder \in {r, Nobody} \/ watched[r] = LeaseDuration

\* The record is written.  The API server refuses the update of one who has
\* not read the latest record.
WriteRecord(r) ==
    /\ phase[r] \in {"standby", "leading"}
    /\ known[r]
    /\ MayLead(r)
    /\ holder' = r
    /\ leaseAge' = 0

\* The lease is acquired or renewed.
Renew(r) ==
    /\ WriteRecord(r)
    /\ phase' = [phase EXCEPT ![r] = "leading"]
    /\ known' = [s \in Replica |-> s = r]
    /\ watched' = [watched EXCEPT ![r] = 0]
    /\ sinceRenew' = [sinceRenew EXCEPT ![r] = 0]
    /\ failing' = [failing EXCEPT ![r] = FALSE]
    /\ UNCHANGED <<informerVars, current, handled, registered, faults>>

\* The record is written, but the replica is told otherwise.
RenewLost(r) ==
    /\ faults < MaxFaults
    /\ faults' = faults + 1
    /\ WriteRecord(r)
    /\ known' = [s \in Replica |-> FALSE]
    /\ failing' = [failing EXCEPT ![r] = TRUE]
    /\ UNCHANGED <<informerVars, current, handled, phase, watched, sinceRenew, registered>>

\* The API server cannot be reached: the record is not written.
RenewFails(r) ==
    /\ faults < MaxFaults
    /\ faults' = faults + 1
    /\ phase[r] = "leading"
    /\ failing' = [failing EXCEPT ![r] = TRUE]
    /\ UNCHANGED <<holder, known, watched, sinceRenew, leaseAge, informerVars, current,
                   handled, phase, registered>>

\* OnStartedLeading is called in a goroutine of its own.  Resync of the
\* indexer does nothing: it has no queue of events.
StartElectedComponents(r) ==
    /\ phase[r] \in {"leading", "stopping"}
    /\ ~registered[r]
    /\ registered' = [registered EXCEPT ![r] = TRUE]
    /\ UNCHANGED <<electorVars, informerVars, current, handled, phase, faults>>

\* OnStoppedLeading.  The queue keeps what it has.
StopElectedComponents(r) ==
    /\ phase[r] = "leading"
    /\ sinceRenew[r] = Patience
    /\ phase' = [phase EXCEPT ![r] = "stopping"]
    /\ registered' = [registered EXCEPT ![r] = FALSE]
    /\ UNCHANGED <<electorVars, informerVars, current, handled, faults>>

\* Run and main return.
Exit(r) ==
    /\ phase[r] = "stopping"
    /\ Leave(r, "syncing")
    /\ UNCHANGED faults

\* A leader tries to renew every RetryPeriod.
RenewalDue(r) == phase[r] = "leading" /\ sinceRenew[r] >= RetryPeriod /\ ~failing[r]

\* It gives up after Patience, and its process ends.
Overdue(r) == phase[r] = "stopping" \/ (phase[r] = "leading" /\ sinceRenew[r] = Patience)

\* The timers advance.
Pass ==
    LET Later(age) == IF age < LeaseDuration THEN age + 1 ELSE age IN
    /\ watched' = [r \in Replica |-> Later(watched[r])]
    /\ sinceRenew' = [r \in Replica |->
                        IF phase[r] = "leading" THEN sinceRenew[r] + 1 ELSE sinceRenew[r]]
    /\ leaseAge' = Later(leaseAge)
    /\ UNCHANGED <<holder, known, failing, informerVars, current, handled, phase, registered,
                   faults>>

\* Mutant of Tick: a leader goes on trying.
TickPastDeadline ==
    /\ \A r \in Replica : ~RenewalDue(r)
    /\ Pass

\* Time passes.  Nobody is late.
Tick ==
    /\ \A r \in Replica : ~RenewalDue(r) /\ ~Overdue(r)
    /\ Pass

-----------------------------------------------------------------------------
(* The informers and the controllers. *)

\* A user, the kubelet or the scheduler changes what is watched.
Change ==
    /\ current < MaxChanges
    /\ current' = current + 1
    /\ UNCHANGED <<electorVars, informerVars, handled, phase, registered, faults>>

\* Mutant of Deliver: the handlers keep the list of controllers that the
\* watcher had when its informers were made.
DeliverToNobody(r) ==
    /\ Running(r)
    /\ index[r] < current
    /\ index' = [index EXCEPT ![r] = @ + 1]
    /\ UNCHANGED <<queued, electorVars, current, handled, phase, registered, faults>>

\* The informer takes the change and calls the controllers that are
\* registered.
Deliver(r) ==
    /\ Running(r)
    /\ index[r] < current
    /\ index' = [index EXCEPT ![r] = @ + 1]
    /\ queued' = [queued EXCEPT ![r] = @ \/ registered[r]]
    /\ UNCHANGED <<electorVars, current, handled, phase, registered, faults>>

\* The worker of a queue, which knows nothing of the election, acts on what
\* the indexer holds.
Work(r) ==
    /\ queued[r]
    /\ queued' = [queued EXCEPT ![r] = FALSE]
    /\ handled' = index[r]
    /\ UNCHANGED <<electorVars, index, current, phase, registered, faults>>

-----------------------------------------------------------------------------

Next ==
    \/ Tick \/ Change
    \/ \E r \in Replica :
        \/ Sync(r) \/ Crash(r) \/ Lose(r) \/ Exit(r)
        \/ Observe(r) \/ Renew(r) \/ RenewLost(r) \/ RenewFails(r)
        \/ StartElectedComponents(r) \/ StopElectedComponents(r)
        \/ Deliver(r) \/ Work(r)

Spec == Init /\ [][Next]_vars

\* Time passes, processes run, calls return.  Nobody owes changes or faults.
Fairness ==
    /\ WF_vars(Tick)
    /\ \A r \in Replica :
        /\ WF_vars(Sync(r)) /\ WF_vars(Exit(r))
        /\ WF_vars(Observe(r)) /\ WF_vars(Renew(r))
        /\ WF_vars(StartElectedComponents(r)) /\ WF_vars(StopElectedComponents(r))
        /\ WF_vars(Deliver(r)) /\ WF_vars(Work(r))

FairSpec == Spec /\ Fairness

-----------------------------------------------------------------------------
(* Properties *)

\* The replica may patch nodes and groups: its handlers fill its queue, or the
\* queue still holds what they have put there.
MayAct(r) == registered[r] \/ queued[r]

\* deployment.yaml: "so only one pod is active at a time".  Nodes and groups
\* are not locked, so two replicas that act at once would undo each other's
\* work; the lease alone keeps them apart, through lost answers, crashes and
\* the time between OnStoppedLeading and the end of the process.
OneActs == \A r, s \in Replica : MayAct(r) /\ MayAct(s) => r = s

\* A leader that has crashed or lost its lease is replaced.
EventuallyLed == []<>(\E r \in Replica : registered[r])

\* A change that the informer of the registered controllers has not seen yet
\* is acted on, unless the replica goes first.
LaterChangesHandled ==
    \A r \in Replica : (registered[r] /\ index[r] < current) ~> (handled = current \/ ~registered[r])

\* resource_watcher.go, line 104: "Force a resync of all watched resources in
\* case something was missed during leader switch".
MissedChangesHandled == <>[](handled = current)
=============================================================================
