------------------------ MODULE WebhookInboxProofs ------------------------
(* Safety of the webhook inbox for any set of deliveries and workers.       *)
EXTENDS WebhookInbox, TLAPS

\* A busy worker has a delivery, and what it believes of the run is true.
WalksKnow ==
  \A w \in Workers :
    /\ phase[w] # "idle" => task[w] \in Deliveries
    /\ submitted[w] \/ phase[w] = "submitting" => phase[w] # "idle" /\ runs[task[w]] # "none"
    /\ outcome[w] = "success" => submitted[w]

\* The runs table holds only runs that were created, and all of them that
\* are not archived.
RunsKept ==
  \A d \in Deliveries :
    /\ built[d] # "none" => runs[d] # "none"
    /\ runs[d] # "none" /\ d \notin Archived => built[d] # "none"

IInv == TypeOK /\ WalksKnow /\ RunsKept /\ DoneMeansSubmitted /\ OneRunEach

USE InboxAssumption

(* The empty inbox satisfies the invariant.                                 *)
LEMMA InitIInv == Init => IInv
<1>1. MaxAttempts + 1 \in Nat /\ 0 \in 0..(MaxAttempts + 1) /\ 0 \in 0..MaxOutages
  OBVIOUS
<1>2. Init => TypeOK
  <2> SUFFICES ASSUME Init PROVE TypeOK
    OBVIOUS
  <2>1. /\ state \in [Deliveries -> States]
        /\ attempts \in [Deliveries -> 0..(MaxAttempts + 1)]
        /\ lease \in [Deliveries -> {"none", "future", "past"}]
        /\ holder \in [Deliveries -> Workers \cup {None}]
        /\ older \in [Deliveries -> SUBSET Deliveries]
    BY <1>1 DEF Init, States
  <2>2. /\ phase \in [Workers -> Phases]
        /\ task \in [Workers -> Deliveries \cup {None}]
        /\ outcome \in [Workers -> Outcomes \cup {"none"}]
        /\ submitted \in [Workers -> BOOLEAN]
        /\ lost \in [Workers -> BOOLEAN]
    BY DEF Init, Phases
  <2>3. /\ breaker \in {"closed", "limited", "down"}
        /\ outages \in 0..MaxOutages
        /\ stopping \in BOOLEAN
        /\ runs \in [Deliveries -> {"none", "one", "many"}]
        /\ built \in [Deliveries -> {"none", "partial", "whole", "poisoned"}]
    BY <1>1 DEF Init
  <2> QED BY <2>1, <2>2, <2>3 DEF TypeOK
<1>3. Init => WalksKnow /\ RunsKept /\ DoneMeansSubmitted /\ OneRunEach
  BY DEF Init, WalksKnow, RunsKept, DoneMeansSubmitted, OneRunEach
<1> QED BY <1>2, <1>3 DEF IInv

(* A fenced write by a busy worker that leaves the row in an allowed state  *)
(* preserves everything but, perhaps, the meaning of done.                  *)
LEMMA WriteIInv ==
  ASSUME IInv, NEW w \in Workers, phase[w] # "idle",
         NEW st \in {"received", "done", "failed"}, NEW ls \in {"none", "future"},
         NEW n \in 0..(MaxAttempts + 1),
         st = "done" => outcome[w] = "success",
         Write(w, st, ls, n), Releases({w}), UNCHANGED <<hostVars, runVars>>
  PROVE  IInv'
<1>1. task[w] \in Deliveries
  BY DEF IInv, WalksKnow
<1>2. TypeOK'
  BY <1>1 DEF IInv, TypeOK, Write, Releases, rowVars, hostVars, runVars, States, Outcomes, Phases
<1>3. WalksKnow' /\ RunsKept' /\ OneRunEach'
  BY DEF IInv, TypeOK, WalksKnow, RunsKept, OneRunEach, Releases, runVars
<1>4. DoneMeansSubmitted'
  BY <1>1 DEF IInv, TypeOK, WalksKnow, DoneMeansSubmitted, Write, rowVars, runVars, Owned
<1> QED BY <1>2, <1>3, <1>4 DEF IInv

(* Every step of the inbox, its workers, GitHub, the archiver and the       *)
(* server preserves the invariant.                                          *)
LEMMA StepIInv == IInv /\ [Next]_vars => IInv'
<1> SUFFICES ASSUME IInv, [Next]_vars PROVE IInv'
  OBVIOUS
<1> USE DEF IInv, TypeOK, WalksKnow, RunsKept, DoneMeansSubmitted, OneRunEach,
            States, Outcomes, Phases, Terminal
<1>1. ASSUME NEW d \in Deliveries, Enqueue(d) \/ Replay(d) \/ Prune(d) PROVE IInv'
  <2>1. CASE Enqueue(d)
    BY <2>1 DEF Enqueue, workerVars, hostVars, runVars
  <2>2. CASE Replay(d)
    BY <2>2 DEF Replay, workerVars, hostVars, runVars
  <2>3. CASE Prune(d)
    BY <2>3 DEF Prune, workerVars, hostVars, runVars
  <2> QED BY <1>1, <2>1, <2>2, <2>3
<1>2. ASSUME NEW d \in Deliveries, Expire(d) PROVE IInv'
  BY <1>2 DEF Expire, workerVars, hostVars, runVars
<1>3. ASSUME NEW d \in Deliveries, ArchiveRun(d) PROVE IInv'
  BY <1>3 DEF ArchiveRun, workerVars, hostVars, rowVars
<1>4. ASSUME NEW w \in Workers, NEW d \in Deliveries, Claim(w, d) PROVE IInv'
  <2>1. Charged(d) \in 0..(MaxAttempts + 1)
    BY DEF Charged
  <2> QED BY <1>4, <2>1 DEF Claim, hostVars, runVars
<1>5. ASSUME NEW w \in Workers, SubmitHead(w) PROVE IInv'
  <2>1. task[w] \in Deliveries
    BY <1>5 DEF SubmitHead
  <2>2. CASE Existing(task[w])
    BY <1>5, <2>1, <2>2 DEF SubmitHead, Existing, rowVars, hostVars, runVars
  <2>3. CASE ~Existing(task[w])
    BY <1>5, <2>1, <2>3 DEF SubmitHead, Existing, rowVars, hostVars
  <2> QED BY <2>2, <2>3
<1>5a. ASSUME NEW w \in Workers, SubmitFinalize(w) \/ PoisonPartialSubmit(w) PROVE IInv'
  <2>1. task[w] \in Deliveries
    BY <1>5a DEF SubmitFinalize, PoisonPartialSubmit
  <2>2. CASE SubmitFinalize(w)
    BY <2>1, <2>2 DEF SubmitFinalize, rowVars, hostVars
  <2>3. CASE PoisonPartialSubmit(w)
    BY <2>1, <2>3 DEF PoisonPartialSubmit, rowVars, hostVars
  <2> QED BY <1>5a, <2>2, <2>3
<1>6. ASSUME NEW w \in Workers, HeartbeatStops(w) PROVE IInv'
  BY <1>6 DEF HeartbeatStops, rowVars, hostVars, runVars
<1>7. ASSUME NEW w \in Workers, NEW o \in Outcomes, WalkReturns(w, o) PROVE IInv'
  BY <1>7 DEF WalkReturns, Discards, rowVars, hostVars, runVars
<1>8. ASSUME NEW w \in Workers, Drop(w) PROVE IInv'
  BY <1>8 DEF Drop, Releases, rowVars, hostVars, runVars
<1>9. ASSUME NEW w \in Workers, Report(w) PROVE IInv'
  BY <1>9 DEF Report, rowVars, hostVars, runVars
<1>10. ASSUME NEW w \in Workers,
              \/ CompleteDelivery(w) \/ ParkDelivery(w)
              \/ RetryDelivery(w) \/ DeadLetter(w)
       PROVE  IInv'
  <2>1. phase[w] # "idle"
    BY <1>10 DEF CompleteDelivery, ParkDelivery, RetryDelivery, DeadLetter
  <2>2. task[w] \in Deliveries
    BY <2>1
  <2>3. attempts[task[w]] \in 0..(MaxAttempts + 1) /\ Refunded(task[w]) \in 0..(MaxAttempts + 1)
    BY <2>2 DEF Refunded
  <2> HIDE DEF IInv
  <2>4. CASE CompleteDelivery(w)
    BY <2>1, <2>3, <2>4, WriteIInv DEF CompleteDelivery, Recorded, Verdict
  <2>5. CASE ParkDelivery(w)
    BY <2>1, <2>3, <2>5, WriteIInv DEF ParkDelivery
  <2>6. CASE RetryDelivery(w)
    BY <2>1, <2>3, <2>6, WriteIInv DEF RetryDelivery
  <2>7. CASE DeadLetter(w)
    BY <2>1, <2>3, <2>7, WriteIInv DEF DeadLetter, Recorded
  <2> QED BY <1>10, <2>4, <2>5, <2>6, <2>7
<1>11. ASSUME NEW b \in {"limited", "down"}, BreakerOpens(b) PROVE IInv'
  BY <1>11 DEF BreakerOpens, rowVars, workerVars, runVars
<1>12. CASE BreakerCloses
  BY <1>12 DEF BreakerCloses, rowVars, workerVars, runVars
<1>13. CASE Shutdown
  BY <1>13 DEF Shutdown, rowVars, workerVars, runVars
<1>14. CASE Restart
  BY <1>14 DEF Restart, Releases, runVars
<1>15. CASE UNCHANGED vars
  BY <1>15 DEF vars, rowVars, workerVars, hostVars, runVars
<1> HIDE DEF IInv
<1> QED BY <1>1, <1>2, <1>3, <1>4, <1>5, <1>6, <1>7, <1>8, <1>9, <1>10, <1>11, <1>12,
           <1>13, <1>14, <1>15, <1>5a DEF Next

(* The inductive invariant holds in every reachable state.                  *)
THEOREM InboxInvHolds == Spec => []IInv
  BY InitIInv, StepIInv, PTL DEF Spec

(* Every row, worker and run stays within its type, the attempt counter in  *)
(* particular.                                                              *)
THEOREM InboxTypeCorrect == Spec => []TypeOK
<1>1. IInv => TypeOK
  BY DEF IInv
<1> QED BY <1>1, InboxInvHolds, PTL

(* A done delivery has had its run submitted, for any number of workers,    *)
(* lost leases, shutdowns and restarts.                                     *)
THEOREM DoneIsSubmitted == Spec => []DoneMeansSubmitted
<1>1. IInv => DoneMeansSubmitted
  BY DEF IInv
<1> QED BY <1>1, InboxInvHolds, PTL

(* The delivery id creates one run as long as that run stays in the runs    *)
(* table.                                                                   *)
THEOREM RunsAreUnique == Spec => []OneRunEach
<1>1. IInv => OneRunEach
  BY DEF IInv
<1> QED BY <1>1, InboxInvHolds, PTL

(* Only the holder of a running lease ends the processing of its row.       *)
THEOREM LeaseFences == Spec => FencedOutcome
<1>1. ASSUME IInv, [Next]_vars PROVE [Fenced]_vars
  <2> SUFFICES ASSUME NEW d \in Deliveries, state[d] = "processing",
                      lease[d] = "future", state'[d] # "processing"
               PROVE  \E w \in Workers : /\ task[w] = d /\ holder[d] = w
                                         /\ phase[w] \in {"outcome", "reported"}
                                         /\ phase'[w] = "idle"
    BY DEF Fenced
  <2> USE DEF Terminal
  <2>1. TypeOK
    BY <1>1 DEF IInv
  <2>2. PICK w \in Workers : \/ CompleteDelivery(w) \/ ParkDelivery(w)
                             \/ RetryDelivery(w) \/ DeadLetter(w)
    <3>1. ~ \E e \in Deliveries : Enqueue(e) \/ Replay(e) \/ Prune(e) \/ Expire(e) \/ ArchiveRun(e)
      BY <2>1 DEF TypeOK, Enqueue, Replay, Prune, Expire, ArchiveRun, rowVars
    <3>2. ~ \E v \in Workers, e \in Deliveries : Claim(v, e)
      BY <2>1 DEF TypeOK, Claim
    <3>3. ~ \E v \in Workers, o \in Outcomes : WalkReturns(v, o)
      BY <2>1 DEF WalkReturns, rowVars
    <3>4. ~ \E v \in Workers : \/ SubmitHead(v) \/ SubmitFinalize(v) \/ PoisonPartialSubmit(v)
                             \/ HeartbeatStops(v) \/ Drop(v) \/ Report(v)
      BY <2>1 DEF SubmitHead, SubmitFinalize, PoisonPartialSubmit, HeartbeatStops, Drop, Report, rowVars
    <3>5. ~ (\E b \in {"limited", "down"} : BreakerOpens(b)) /\ ~ BreakerCloses /\ ~ Shutdown
      BY <2>1 DEF BreakerOpens, BreakerCloses, Shutdown, rowVars
    <3>6. ~ Restart
      BY <2>1 DEF TypeOK, Restart
    <3>7. ~ UNCHANGED vars
      BY DEF vars, rowVars
    <3> QED BY <1>1, <3>1, <3>2, <3>3, <3>4, <3>5, <3>6, <3>7 DEF Next
  <2>3. /\ phase[w] \in {"outcome", "reported"}
        /\ Releases({w})
        /\ \E st \in {"received", "done", "failed"}, ls \in {"none", "future"}, n \in Int :
             Write(w, st, ls, n)
    <3>1. task[w] \in Deliveries
      BY <1>1, <2>2 DEF IInv, WalksKnow, CompleteDelivery, ParkDelivery, RetryDelivery, DeadLetter
    <3>2. attempts[task[w]] \in Int /\ Refunded(task[w]) \in Int
      BY <2>1, <3>1 DEF TypeOK, Refunded
    <3> QED BY <2>2, <3>2 DEF CompleteDelivery, ParkDelivery, RetryDelivery, DeadLetter, Recorded
  <2>4. Owned(w) /\ task[w] = d
    BY <2>1, <2>3 DEF TypeOK, Write, rowVars
  <2>5. phase'[w] = "idle"
    BY <2>3 DEF Releases
  <2> QED BY <2>3, <2>4, <2>5 DEF Owned
<1> QED BY <1>1, InboxInvHolds, PTL DEF Spec, FencedOutcome
===========================================================================
