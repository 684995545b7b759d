---------------------------- MODULE WebhookInbox ----------------------------
(***************************************************************************)
(* The durable webhook inbox (control/lite/webhooks.rs) and the workers    *)
(* that drain it (github.rs).  The handler commits a delivery before it    *)
(* acknowledges it; a worker leases the oldest claimable row, walks the    *)
(* payload, submits the run it triggers and records the outcome under the  *)
(* lease.  A heartbeat task renews the lease while the payload is walked   *)
(* and cancels the walk when the lease is gone or the server stops.        *)
(*                                                                         *)
(* Each transaction is one action.  What happens between two of them is    *)
(* not atomic: a lease may expire, the server may stop and another worker  *)
(* may take the row at any point of a walk, and a submit commits the run   *)
(* row first, its jobs after that and the whole last.                      *)
(*                                                                         *)
(* A delivery here is one that triggers exactly one workflow.              *)
(***************************************************************************)
EXTENDS Integers

CONSTANTS
  Deliveries,    \* X-GitHub-Delivery ids
  Workers,       \* claim loops (PRELOOP_WEBHOOK_WORKERS)
  Archived,      \* deliveries whose run may finish and move to run_history
  None,          \* SQL NULL
  MaxAttempts,   \* WEBHOOK_MAX_ATTEMPTS
  MaxOutages     \* bound: how often a GitHub breaker opens

ASSUME InboxAssumption ==
  /\ None \notin Deliveries \cup Workers
  /\ Archived \subseteq Deliveries
  /\ MaxAttempts \in Nat \ {0}
  /\ MaxOutages \in Nat

VARIABLES
  state,      \* webhook_deliveries.state (absent: no row)
  attempts,   \* webhook_deliveries.attempts, saturating above MaxAttempts
  lease,      \* lease_until: none, or in the future, or in the past
  holder,     \* the worker whose claim minted lease_token
  older,      \* rows received before this one (received_at)
  phase,      \* a worker: idle, walking a payload, inside submit_run, holding
              \* its outcome, or having reported a permanent failure
  task,       \* the delivery it claimed
  outcome,    \* what the walk returned, or will return
  submitted,  \* did this walk get its run accepted?
  lost,       \* the walk's lease_lost token
  breaker,    \* closed, this credential limited, or GitHub down
  outages,    \* how often it has opened
  stopping,   \* the server is shutting down
  runs,       \* runs ever created for the delivery: none, one, many
  built       \* the one in the runs table: none, or partial while its jobs
              \* are being inserted, then whole, or poisoned as a failure

rowVars    == <<state, attempts, lease, holder, older>>
workerVars == <<phase, task, outcome, submitted, lost>>
hostVars   == <<breaker, outages, stopping>>
runVars    == <<runs, built>>
vars       == <<rowVars, workerVars, hostVars, runVars>>

States   == {"absent", "received", "processing", "done", "failed"}
Terminal == {"done", "failed"}
Outcomes == {"success", "transient", "permanent", "unreportable"}
Phases   == {"idle", "walking", "submitting", "outcome", "reported"}

TypeOK ==
  /\ state \in [Deliveries -> States]
  /\ attempts \in [Deliveries -> 0..(MaxAttempts + 1)]
  /\ lease \in [Deliveries -> {"none", "future", "past"}]
  /\ holder \in [Deliveries -> Workers \cup {None}]
  /\ older \in [Deliveries -> SUBSET Deliveries]
  /\ phase \in [Workers -> Phases]
  /\ task \in [Workers -> Deliveries \cup {None}]
  /\ outcome \in [Workers -> Outcomes \cup {"none"}]
  /\ submitted \in [Workers -> BOOLEAN]
  /\ lost \in [Workers -> BOOLEAN]
  /\ breaker \in {"closed", "limited", "down"}
  /\ outages \in 0..MaxOutages
  /\ stopping \in BOOLEAN
  /\ runs \in [Deliveries -> {"none", "one", "many"}]
  /\ built \in [Deliveries -> {"none", "partial", "whole", "poisoned"}]

Init ==
  /\ state = [d \in Deliveries |-> "absent"]
  /\ attempts = [d \in Deliveries |-> 0]
  /\ lease = [d \in Deliveries |-> "none"]
  /\ holder = [d \in Deliveries |-> None]
  /\ older = [d \in Deliveries |-> {}]
  /\ phase = [w \in Workers |-> "idle"]
  /\ task = [w \in Workers |-> None]
  /\ outcome = [w \in Workers |-> "none"]
  /\ submitted = [w \in Workers |-> FALSE]
  /\ lost = [w \in Workers |-> FALSE]
  /\ breaker = "closed"
  /\ outages = 0
  /\ stopping = FALSE
  /\ runs = [d \in Deliveries |-> "none"]
  /\ built = [d \in Deliveries |-> "none"]

-----------------------------------------------------------------------------
\* Reading the rows

\* OWNED_LEASE, the fence of every write of a lease holder.
OwnedByAny(w) ==
  /\ state[task[w]] = "processing"
  /\ lease[task[w]] = "future"
Owned(w) ==
  /\ state[task[w]] = "processing"
  /\ lease[task[w]] = "future"
  /\ holder[task[w]] = w

\* A retry whose delay has passed, or a walk whose lease has expired.
ClaimableReceived(d) == state[d] = "received" /\ lease[d] # "future"
Claimable(d) ==
  \/ state[d] = "received" /\ lease[d] # "future"
  \/ state[d] = "processing" /\ lease[d] = "past"

\* Does the runs table hold a run of the delivery, in whatever shape?
ExistingNever(d) == FALSE
Existing(d) == built[d] # "none"

\* An outcome reached after lease_lost was cancelled is dropped.
DiscardsNever(w) == FALSE
Discards(w) == lost[w]

\* The state an outcome is recorded as.
Recorded(o) == IF o = "success" THEN "done" ELSE "failed"

Charged(d) == IF attempts[d] > MaxAttempts THEN attempts[d] ELSE attempts[d] + 1
Refunded(d) == IF attempts[d] > 0 THEN attempts[d] - 1 ELSE 0

-----------------------------------------------------------------------------
\* Intake and operators

(* enqueue_webhook_delivery: a new delivery, or GitHub's redelivery of one  *)
(* that was dead-lettered.  Any other duplicate is acknowledged and changes *)
(* nothing.                                                                 *)
Enqueue(d) ==
  /\ state[d] \in {"absent", "failed"}
  /\ state' = [state EXCEPT ![d] = "received"]
  /\ attempts' = [attempts EXCEPT ![d] = 0]
  /\ lease' = [lease EXCEPT ![d] = "none"]
  /\ holder' = [holder EXCEPT ![d] = None]
  /\ older' = [e \in Deliveries |->
                 IF e = d THEN {x \in Deliveries \ {d} : state[x] # "absent"}
                 ELSE older[e] \ {d}]
  /\ UNCHANGED <<workerVars, hostVars, runVars>>

\* requeue_webhook_delivery, by an operator.
Replay(d) ==
  /\ state[d] \in Terminal
  /\ state' = [state EXCEPT ![d] = "received"]
  /\ attempts' = [attempts EXCEPT ![d] = 0]
  /\ lease' = [lease EXCEPT ![d] = "none"]
  /\ holder' = [holder EXCEPT ![d] = None]
  /\ UNCHANGED <<older, workerVars, hostVars, runVars>>

\* prune_webhook_deliveries, once the retention has passed.
Prune(d) ==
  /\ state[d] \in Terminal
  /\ state' = [state EXCEPT ![d] = "absent"]
  /\ attempts' = [attempts EXCEPT ![d] = 0]
  /\ lease' = [lease EXCEPT ![d] = "none"]
  /\ holder' = [holder EXCEPT ![d] = None]
  /\ older' = [e \in Deliveries |-> IF e = d THEN {} ELSE older[e] \ {d}]
  /\ UNCHANGED <<workerVars, hostVars, runVars>>

\* A retry delay or a lease that is not renewed runs out.
Expire(d) ==
  /\ lease[d] = "future"
  /\ lease' = [lease EXCEPT ![d] = "past"]
  /\ UNCHANGED <<state, attempts, holder, older, workerVars, hostVars, runVars>>

-----------------------------------------------------------------------------
\* A worker

\* drain_webhook_queue_loop claims nothing while GitHub is down.
Drains(w) == phase[w] = "idle" /\ ~stopping /\ breaker # "down"

\* The claim takes the oldest claimable row and charges an attempt.
Claim(w, d) ==
  /\ Drains(w)
  /\ Claimable(d)
  /\ \A e \in older[d] : ~Claimable(e)
  /\ state' = [state EXCEPT ![d] = "processing"]
  /\ attempts' = [attempts EXCEPT ![d] = Charged(d)]
  /\ lease' = [lease EXCEPT ![d] = "future"]
  /\ holder' = [holder EXCEPT ![d] = w]
  /\ phase' = [phase EXCEPT ![w] = "walking"]
  /\ task' = [task EXCEPT ![w] = d]
  /\ outcome' = [outcome EXCEPT ![w] = "none"]
  /\ submitted' = [submitted EXCEPT ![w] = FALSE]
  /\ lost' = [lost EXCEPT ![w] = FALSE]
  /\ UNCHANGED <<older, hostVars, runVars>>

(* Phase 1 of submit_run: a delivery that has a run is accepted as it is;   *)
(* otherwise the run row is inserted.  A walk whose lease is gone may still  *)
(* get this far.                                                             *)
SubmitHead(w) ==
  /\ phase[w] = "walking"
  /\ ~submitted[w]
  /\ outcome[w] = "none"
  /\ LET d == task[w]
     IN  \/ /\ Existing(d)
            /\ submitted' = [submitted EXCEPT ![w] = TRUE]
            /\ UNCHANGED <<phase, runVars>>
         \/ /\ ~Existing(d)
            /\ phase' = [phase EXCEPT ![w] = "submitting"]
            /\ built' = [built EXCEPT ![d] = "partial"]
            /\ runs' = [runs EXCEPT ![d] = IF @ = "none" THEN "one" ELSE "many"]
            /\ UNCHANGED submitted
  /\ UNCHANGED <<rowVars, task, outcome, lost, hostVars>>

\* The job chunks and the final transaction commit ...
SubmitFinalize(w) ==
  /\ phase[w] = "submitting"
  /\ phase' = [phase EXCEPT ![w] = "walking"]
  /\ submitted' = [submitted EXCEPT ![w] = TRUE]
  /\ built' = [built EXCEPT ![task[w]] = "whole"]
  /\ UNCHANGED <<rowVars, task, outcome, lost, hostVars, runs>>

\* ... or one of them fails: the run is poisoned and the walk will return a
\* transient error.
PoisonPartialSubmit(w) ==
  /\ phase[w] = "submitting"
  /\ phase' = [phase EXCEPT ![w] = "walking"]
  /\ outcome' = [outcome EXCEPT ![w] = "transient"]
  /\ built' = [built EXCEPT ![task[w]] = "poisoned"]
  /\ UNCHANGED <<rowVars, task, submitted, lost, hostVars, runs>>

\* The heartbeat finds its lease fenced or expired, or the server stopping.
HeartbeatStops(w) ==
  /\ phase[w] \in {"walking", "submitting"}
  /\ ~lost[w]
  /\ stopping \/ ~Owned(w)
  /\ lost' = [lost EXCEPT ![w] = TRUE]
  /\ UNCHANGED <<rowVars, phase, task, outcome, submitted, hostVars, runVars>>

(* The walk returns and its heartbeat is aborted.  It returns success once  *)
(* the run is submitted, and also when it saw its lease lost half way.      *)
WalkReturns(w, o) ==
  /\ phase[w] = "walking"
  /\ ~Discards(w)
  /\ outcome[w] \in {"none", o}
  /\ o = "success" => submitted[w] \/ lost[w]
  /\ phase' = [phase EXCEPT ![w] = "outcome"]
  /\ outcome' = [outcome EXCEPT ![w] = o]
  /\ UNCHANGED <<rowVars, task, submitted, lost, hostVars, runVars>>

\* The workers W forget what they were processing.
Releases(W) ==
  /\ phase' = [w \in Workers |-> IF w \in W THEN "idle" ELSE phase[w]]
  /\ task' = [w \in Workers |-> IF w \in W THEN None ELSE task[w]]
  /\ outcome' = [w \in Workers |-> IF w \in W THEN "none" ELSE outcome[w]]
  /\ submitted' = [w \in Workers |-> submitted[w] /\ w \notin W]
  /\ lost' = [w \in Workers |-> lost[w] /\ w \notin W]

\* The worker drops its delivery without a write: its lease was lost, or the
\* write that should end it failed.
Drop(w) ==
  /\ phase[w] \notin {"idle", "submitting"}
  /\ phase[w] = "walking" => lost[w]
  /\ Releases({w})
  /\ UNCHANGED <<rowVars, hostVars, runVars>>

\* Permanent failures with a commit are reported as checks before they are
\* recorded.  The heartbeat, which alone cancels lost, no longer runs.
Report(w) ==
  /\ phase[w] = "outcome"
  /\ outcome[w] = "permanent"
  /\ ~lost[w]
  /\ phase' = [phase EXCEPT ![w] = "reported"]
  /\ UNCHANGED <<rowVars, task, outcome, submitted, lost, hostVars, runVars>>

\* A write under the owned lease: it changes the row, or finds it fenced.
Write(w, st, ls, n) ==
  LET d == task[w]
  IN  \/ /\ Owned(w)
         /\ state' = [state EXCEPT ![d] = st]
         /\ lease' = [lease EXCEPT ![d] = ls]
         /\ attempts' = [attempts EXCEPT ![d] = n]
         /\ holder' = [holder EXCEPT ![d] = None]
         /\ UNCHANGED older
      \/ ~Owned(w) /\ UNCHANGED rowVars

(* What the outcome counts as when it is recorded: a transient error is the *)
(* outage's while a breaker the delivery depends on is open, and the        *)
(* delivery's own once it has used up its attempts.  (Under an owned lease  *)
(* the row's attempts are those the claim returned.)                        *)
Verdict(w) ==
  IF outcome[w] # "transient" THEN outcome[w]
  ELSE IF breaker # "closed" THEN "unavailable"
  ELSE IF attempts[task[w]] >= MaxAttempts THEN "unreportable"
  ELSE "transient"

CompleteDelivery(w) ==
  /\ phase[w] = "outcome"
  /\ Verdict(w) = "success"
  /\ Write(w, Recorded("success"), "none", attempts[task[w]])
  /\ Releases({w})
  /\ UNCHANGED <<hostVars, runVars>>

ParkDelivery(w) ==
  /\ phase[w] = "outcome"
  /\ Verdict(w) = "unavailable"
  /\ Write(w, "received", "future", Refunded(task[w]))
  /\ Releases({w})
  /\ UNCHANGED <<hostVars, runVars>>

\* Also when a permanent failure could not be reported.
RetryDelivery(w) ==
  /\ phase[w] \in {"outcome", "reported"}
  /\ Verdict(w) \in {"transient", "permanent"}
  /\ Write(w, "received", "future", attempts[task[w]])
  /\ Releases({w})
  /\ UNCHANGED <<hostVars, runVars>>

DeadLetter(w) ==
  /\ phase[w] \in {"outcome", "reported"}
  /\ Verdict(w) \in {"permanent", "unreportable"}
  /\ Write(w, Recorded("failure"), "none", attempts[task[w]])
  /\ Releases({w})
  /\ UNCHANGED <<hostVars, runVars>>

-----------------------------------------------------------------------------
\* GitHub, the server and the archiver

BreakerOpens(b) ==
  /\ breaker = "closed"
  /\ outages < MaxOutages
  /\ breaker' = b
  /\ outages' = outages + 1
  /\ UNCHANGED <<rowVars, workerVars, stopping, runVars>>

BreakerCloses ==
  /\ breaker # "closed"
  /\ breaker' = "closed"
  /\ UNCHANGED <<rowVars, workerVars, outages, stopping, runVars>>

Shutdown ==
  /\ ~stopping
  /\ stopping' = TRUE
  /\ UNCHANGED <<rowVars, workerVars, breaker, outages, runVars>>

(* The process ends, gracefully or not, and starts again: expired walks are *)
(* put back, unexpired leases run out on their own.                         *)
Restart ==
  LET stale == {d \in Deliveries : state[d] = "processing" /\ lease[d] = "past"}
  IN  /\ state' = [d \in Deliveries |-> IF d \in stale THEN "received" ELSE state[d]]
      /\ lease' = [d \in Deliveries |-> IF d \in stale THEN "none" ELSE lease[d]]
      /\ holder' = [d \in Deliveries |-> IF d \in stale THEN None ELSE holder[d]]
      /\ Releases(Workers)
      /\ stopping' = FALSE
      /\ breaker' = "closed"
      /\ UNCHANGED <<attempts, older, outages, runVars>>

\* The run finished more than a minute ago: its row moves to run_history,
\* which does not keep the delivery id.
ArchiveRun(d) ==
  /\ d \in Archived
  /\ built[d] \in {"whole", "poisoned"}
  /\ built' = [built EXCEPT ![d] = "none"]
  /\ UNCHANGED <<rowVars, workerVars, hostVars, runs>>

Next ==
  \/ \E d \in Deliveries : Enqueue(d) \/ Replay(d) \/ Prune(d) \/ Expire(d) \/ ArchiveRun(d)
  \/ \E w \in Workers, d \in Deliveries : Claim(w, d)
  \/ \E w \in Workers, o \in Outcomes : WalkReturns(w, o)
  \/ \E w \in Workers : \/ SubmitHead(w) \/ SubmitFinalize(w) \/ PoisonPartialSubmit(w)
                        \/ HeartbeatStops(w) \/ Drop(w) \/ Report(w)
                        \/ CompleteDelivery(w) \/ ParkDelivery(w)
                        \/ RetryDelivery(w) \/ DeadLetter(w)
  \/ \E b \in {"limited", "down"} : BreakerOpens(b)
  \/ BreakerCloses
  \/ Shutdown
  \/ Restart

Spec == Init /\ [][Next]_vars

(* Leases and delays run out, breakers close, a stopped server comes back.  *)
(* Strong fairness per worker and delivery: restarts, lost leases and       *)
(* failed writes do not hit every walk of a delivery, for ever.             *)
FairSpec ==
  /\ Spec
  /\ WF_vars(BreakerCloses) /\ WF_vars(stopping /\ Restart)
  /\ \A d \in Deliveries : WF_vars(Expire(d))
  /\ \A w \in Workers : /\ WF_vars(Drop(w))
                         /\ WF_vars(HeartbeatStops(w))
                         /\ WF_vars(SubmitFinalize(w) \/ PoisonPartialSubmit(w))
  /\ \A w \in Workers, d \in Deliveries :
       /\ SF_vars(Claim(w, d))
       /\ SF_vars(task[w] = d /\ Owned(w) /\ \E o \in Outcomes : WalkReturns(w, o))
       /\ SF_vars(task[w] = d /\ Owned(w) /\ (CompleteDelivery(w) \/ DeadLetter(w)))

-----------------------------------------------------------------------------
\* Properties

(* A delivery is done only when its run was submitted: a walk cut short by  *)
(* a lost lease or a shutdown, which returns success as well, is never      *)
(* recorded as done, whatever the order of heartbeat, walk and write.       *)
DoneMeansSubmitted ==
  \A d \in Deliveries : state[d] = "done" => runs[d] # "none"

(* While the run of a delivery is in the runs table, no retry, replay,      *)
(* redelivery or fenced-out worker creates a second one.                    *)
OneRunEach ==
  \A d \in Deliveries \ Archived : runs[d] # "many"

(* A walk in progress under a running lease is ended only by the worker     *)
(* holding it: a worker that lost the row to another, and comes back late,  *)
(* cannot complete, retry, park or dead-letter it.                          *)
Fenced ==
  \A d \in Deliveries :
    state[d] = "processing" /\ lease[d] = "future" /\ state'[d] # "processing"
    => \E w \in Workers : /\ task[w] = d /\ holder[d] = w
                          /\ phase[w] \in {"outcome", "reported"} /\ phase'[w] = "idle"
FencedOutcome == [][Fenced]_vars

(* Every delivery the server acknowledged ends as done or as a dead letter  *)
(* an operator sees, through crashes, outages and lost leases.              *)
InboxDrains ==
  \A d \in Deliveries : state[d] \in {"received", "processing"} ~> state[d] \in Terminal
=============================================================================
