---------------------------- MODULE ElectionProofs ----------------------------
(***************************************************************************)
(* At most one replica acts, for any replicas and any durations with       *)
(* RetryPeriod + RenewDeadline < LeaseDuration, through any number of      *)
(* crashes and lost answers.                                               *)
(*                                                                         *)
(* The argument is about three ages.  What a standby has watched is no     *)
(* older than the record, the record is no older than what its leader has  *)
(* gone without a renewal, and no leader goes without one for as long as   *)
(* the lease: so nobody has watched for that long while there is a leader. *)
(***************************************************************************)
EXTENDS Election, TLAPS

Acting == {"leading", "stopping"}

\* The record names the leader, and is as young as the leader believes.
LeadersHold ==
    \A r \in Replica :
        phase[r] \in Acting => holder = r /\ leaseAge <= sinceRenew[r]

\* The record that a replica knows has been there for as long as the replica
\* has watched it.
WatchersAreYoung == \A r \in Replica : known[r] => watched[r] <= leaseAge

OnlyLeadersAct == \A r \in Replica : MayAct(r) => phase[r] \in Acting

IInv ==
    /\ TypeOK
    /\ LeadersHold
    /\ WatchersAreYoung
    /\ OnlyLeadersAct

-----------------------------------------------------------------------------

LEMMA PatienceFact == Patience \in Nat /\ Patience < LeaseDuration /\ LeaseDuration \in Nat
BY DurationsAssumption DEF Patience

\* Nobody takes the lease from a leader, who has not given up.
LEMMA LeaseProtects ==
    ASSUME IInv, NEW r \in Replica, NEW s \in Replica,
           phase[r] \in Acting, known[s], MayLead(s)
    PROVE  s = r
<1>1. holder = r /\ leaseAge <= sinceRenew[r]
  BY DEF IInv, LeadersHold
<1>2. watched[s] <= leaseAge
  BY DEF IInv, WatchersAreYoung
<1>3. /\ watched[s] \in Nat /\ leaseAge \in Nat /\ sinceRenew[r] \in Nat
      /\ sinceRenew[r] <= Patience
  BY PatienceFact DEF IInv, TypeOK
<1>4. watched[s] # LeaseDuration
  BY <1>1, <1>2, <1>3, PatienceFact
<1>5. holder # Nobody
  BY <1>1, NobodyAssumption
<1> QED
  BY <1>1, <1>4, <1>5 DEF MayLead

LEMMA InitIInv == Init => IInv
<1> SUFFICES ASSUME Init PROVE IInv
  OBVIOUS
<1> USE PatienceFact DEF Init
<1>1. TypeOK
  BY DEF TypeOK
<1>2. LeadersHold
  BY DEF LeadersHold, Acting
<1>3. WatchersAreYoung
  BY DEF WatchersAreYoung
<1>4. OnlyLeadersAct
  BY DEF OnlyLeadersAct, MayAct
<1> QED
  BY <1>1, <1>2, <1>3, <1>4 DEF IInv

-----------------------------------------------------------------------------
(* The types. *)

LEMMA TypeStep == TypeOK /\ [Next]_vars => TypeOK'
<1> SUFFICES ASSUME TypeOK, [Next]_vars PROVE TypeOK'
  OBVIOUS
<1> USE PatienceFact, BoundsAssumption DEF TypeOK
<1>1. CASE Tick
  BY <1>1 DEF Tick, Pass, Overdue, informerVars
<1>2. CASE Change
  BY <1>2 DEF Change, electorVars, informerVars
<1>3. ASSUME NEW r \in Replica, Sync(r) PROVE TypeOK'
  BY <1>3 DEF Sync, electorVars
<1>4. ASSUME NEW r \in Replica, Crash(r) \/ Lose(r) \/ Exit(r) PROVE TypeOK'
  <2>1. /\ \E next \in {"syncing", "gone"} : Leave(r, next)
        /\ faults' = faults \/ faults' = faults + 1
    BY <1>4 DEF Crash, Lose, Exit
  <2>2. PICK next \in {"syncing", "gone"} : Leave(r, next)
    BY <2>1
  <2>3. faults' \in Nat
    BY <2>1
  <2> QED
    BY <2>2, <2>3 DEF Leave
<1>5. ASSUME NEW r \in Replica, Observe(r) PROVE TypeOK'
  BY <1>5 DEF Observe, informerVars
<1>6. ASSUME NEW r \in Replica, Renew(r) PROVE TypeOK'
  BY <1>6 DEF Renew, WriteRecord, informerVars
<1>7. ASSUME NEW r \in Replica, RenewLost(r) PROVE TypeOK'
  BY <1>7 DEF RenewLost, WriteRecord, informerVars
<1>8. ASSUME NEW r \in Replica, RenewFails(r) PROVE TypeOK'
  BY <1>8 DEF RenewFails, informerVars
<1>9. ASSUME NEW r \in Replica, StartElectedComponents(r) PROVE TypeOK'
  BY <1>9 DEF StartElectedComponents, electorVars, informerVars
<1>10. ASSUME NEW r \in Replica, StopElectedComponents(r) PROVE TypeOK'
  BY <1>10 DEF StopElectedComponents, electorVars, informerVars
<1>11. ASSUME NEW r \in Replica, Deliver(r) PROVE TypeOK'
  BY <1>11 DEF Deliver, electorVars
<1>12. ASSUME NEW r \in Replica, Work(r) PROVE TypeOK'
  BY <1>12 DEF Work, electorVars
<1>13. CASE UNCHANGED vars
  BY <1>13 DEF vars, electorVars, informerVars
<1> QED
  BY <1>1, <1>2, <1>3, <1>4, <1>5, <1>6, <1>7, <1>8, <1>9, <1>10, <1>11, <1>12, <1>13
  DEF Next

-----------------------------------------------------------------------------
(* The lease. *)

LEMMA LeaseStep == IInv /\ [Next]_vars => LeadersHold' /\ WatchersAreYoung'
<1> SUFFICES ASSUME IInv, [Next]_vars PROVE LeadersHold' /\ WatchersAreYoung'
  OBVIOUS
<1> USE PatienceFact DEF IInv, TypeOK, LeadersHold, WatchersAreYoung, Acting
<1>1. CASE Tick
  BY <1>1 DEF Tick, Pass, Overdue
<1>2. CASE Change
  BY <1>2 DEF Change, electorVars
<1>3. ASSUME NEW r \in Replica, Sync(r) PROVE LeadersHold' /\ WatchersAreYoung'
  BY <1>3 DEF Sync, electorVars
<1>4. ASSUME NEW r \in Replica, Crash(r) \/ Lose(r) \/ Exit(r)
      PROVE  LeadersHold' /\ WatchersAreYoung'
  <2>1. PICK next \in {"syncing", "gone"} : Leave(r, next)
    BY <1>4 DEF Crash, Lose, Exit
  <2> QED
    BY <2>1 DEF Leave
<1>5. ASSUME NEW r \in Replica, Observe(r) PROVE LeadersHold' /\ WatchersAreYoung'
  BY <1>5 DEF Observe
<1>6. ASSUME NEW r \in Replica, Renew(r) PROVE LeadersHold' /\ WatchersAreYoung'
  <2>1. \A s \in Replica : phase[s] \in Acting => r = s
    BY <1>6, LeaseProtects DEF Renew, WriteRecord
  <2>2. holder' = r /\ leaseAge' = 0
    BY <1>6 DEF Renew, WriteRecord
  <2>3. /\ phase' = [phase EXCEPT ![r] = "leading"]
        /\ known' = [s \in Replica |-> s = r]
        /\ watched' = [watched EXCEPT ![r] = 0]
        /\ sinceRenew' = [sinceRenew EXCEPT ![r] = 0]
    BY <1>6 DEF Renew
  <2>4. LeadersHold'
    BY <2>1, <2>2, <2>3
  <2>5. \A s \in Replica : known'[s] => s = r
    BY <2>3
  <2>6. watched'[r] = 0
    BY <2>3
  <2>7. WatchersAreYoung'
    BY <2>2, <2>5, <2>6
  <2> QED
    BY <2>4, <2>7
<1>7. ASSUME NEW r \in Replica, RenewLost(r) PROVE LeadersHold' /\ WatchersAreYoung'
  <2>1. \A s \in Replica : phase[s] \in Acting => r = s
    BY <1>7, LeaseProtects DEF RenewLost, WriteRecord
  <2>2. holder' = r /\ leaseAge' = 0 /\ known' = [s \in Replica |-> FALSE]
    BY <1>7 DEF RenewLost, WriteRecord
  <2>3. UNCHANGED <<phase, sinceRenew, watched>>
    BY <1>7 DEF RenewLost
  <2>4. LeadersHold'
    BY <2>1, <2>2, <2>3
  <2>5. WatchersAreYoung'
    BY <2>2
  <2> QED
    BY <2>4, <2>5
<1>8. ASSUME NEW r \in Replica, RenewFails(r) PROVE LeadersHold' /\ WatchersAreYoung'
  BY <1>8 DEF RenewFails
<1>9. ASSUME NEW r \in Replica, StartElectedComponents(r)
      PROVE  LeadersHold' /\ WatchersAreYoung'
  BY <1>9 DEF StartElectedComponents, electorVars
<1>10. ASSUME NEW r \in Replica, StopElectedComponents(r)
       PROVE  LeadersHold' /\ WatchersAreYoung'
  BY <1>10 DEF StopElectedComponents, electorVars
<1>11. ASSUME NEW r \in Replica, Deliver(r) \/ Work(r)
       PROVE  LeadersHold' /\ WatchersAreYoung'
  BY <1>11 DEF Deliver, Work, electorVars
<1>12. CASE UNCHANGED vars
  BY <1>12 DEF vars, electorVars
<1> QED
  BY <1>1, <1>2, <1>3, <1>4, <1>5, <1>6, <1>7, <1>8, <1>9, <1>10, <1>11, <1>12 DEF Next

-----------------------------------------------------------------------------
(* The controllers. *)

LEMMA ActStep == IInv /\ [Next]_vars => OnlyLeadersAct'
<1> SUFFICES ASSUME IInv, [Next]_vars PROVE OnlyLeadersAct'
  OBVIOUS
<1> USE DEF IInv, TypeOK, OnlyLeadersAct, MayAct, Acting
<1>1. CASE Tick \/ Change
  BY <1>1 DEF Tick, Pass, Change, informerVars
<1>2. ASSUME NEW r \in Replica, Sync(r) PROVE OnlyLeadersAct'
  BY <1>2 DEF Sync
<1>3. ASSUME NEW r \in Replica, Crash(r) \/ Lose(r) \/ Exit(r) PROVE OnlyLeadersAct'
  <2>1. PICK next \in {"syncing", "gone"} : Leave(r, next)
    BY <1>3 DEF Crash, Lose, Exit
  <2> QED
    BY <2>1 DEF Leave
<1>4. ASSUME NEW r \in Replica, Observe(r) \/ RenewFails(r) \/ RenewLost(r)
      PROVE  OnlyLeadersAct'
  BY <1>4 DEF Observe, RenewFails, RenewLost, informerVars
<1>5. ASSUME NEW r \in Replica, Renew(r) PROVE OnlyLeadersAct'
  BY <1>5 DEF Renew, informerVars
<1>6. ASSUME NEW r \in Replica, StartElectedComponents(r) PROVE OnlyLeadersAct'
  BY <1>6 DEF StartElectedComponents, informerVars
<1>7. ASSUME NEW r \in Replica, StopElectedComponents(r) PROVE OnlyLeadersAct'
  BY <1>7 DEF StopElectedComponents, informerVars
<1>8. ASSUME NEW r \in Replica, Deliver(r) \/ Work(r) PROVE OnlyLeadersAct'
  BY <1>8 DEF Deliver, Work
<1>9. CASE UNCHANGED vars
  BY <1>9 DEF vars, informerVars
<1> QED
  BY <1>1, <1>2, <1>3, <1>4, <1>5, <1>6, <1>7, <1>8, <1>9 DEF Next

-----------------------------------------------------------------------------

LEMMA Inductive == Spec => []IInv
<1>1. IInv /\ [Next]_vars => IInv'
  BY TypeStep, LeaseStep, ActStep DEF IInv
<1> QED
  BY <1>1, InitIInv, PTL DEF Spec

\* The variables keep their types; in particular no leader goes without a
\* renewal for longer than its deadlines allow.
THEOREM ElectionTypes == Spec => []TypeOK
<1>1. IInv => TypeOK
  BY DEF IInv
<1> QED
  BY <1>1, Inductive, PTL

\* At most one replica's controllers have handlers or queued work at a time
\* (controller.go, lines 83 to 97; resource_watcher.go, lines 86 to 118).
THEOREM ElectionOneActs == Spec => []OneActs
<1>1. IInv => OneActs
  BY DEF IInv, OnlyLeadersAct, LeadersHold, OneActs
<1> QED
  BY <1>1, Inductive, PTL

=============================================================================
