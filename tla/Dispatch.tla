------------------------------ MODULE Dispatch ------------------------------
(***************************************************************************)
(* Job dispatch of the control plane (crates/preloop-runner-server,        *)
(* control/lite): runners poll sessions, claim ready jobs, keep the lease  *)
(* of their attempt alive, report results; users cancel jobs; the reaper   *)
(* expires leases and timeouts; purged runners and restarts put claimed    *)
(* jobs back on the ready queue behind a fresh attempt.                    *)
(*                                                                         *)
(* Every backend command is one BEGIN IMMEDIATE transaction, so it is one  *)
(* action.  What is NOT one transaction in the code is not one action      *)
(* here: the reaper reads its inputs, sweeps and completes in separate     *)
(* transactions, and the legacy PATCH stamps the attempt before it         *)
(* completes the job.                                                      *)
(*                                                                         *)
(* Jobs enter already enqueued (queue_state ready) with the attempt that   *)
(* submit minted; gates, needs and labels belong to other modules, so a    *)
(* poll may pick any ready job.                                            *)
(***************************************************************************)
EXTENDS FiniteSets, Functions

CONSTANTS
  Jobs,             \* logical jobs (rows of jobs)
  Runners,          \* runner registrations; ids are never reused
  Sessions,         \* broker sessions
  Reqs,             \* attempts (rows of job_requests), bounds the retries
  Tolerant,         \* jobs declared continue-on-error
  None,             \* SQL NULL
  LoseCompletions   \* may the 2nd transaction of a completion be lost?

ASSUME DispatchAssumption ==
  /\ None \notin Jobs \cup Runners \cup Sessions \cup Reqs
  /\ Tolerant \subseteq Jobs
  /\ LoseCompletions \in BOOLEAN
  /\ ExistsInjection(Jobs, Reqs)

VARIABLES
  status,      \* jobs.status
  queue,       \* jobs.queue_state
  claimedBy,   \* jobs.claimed_by_runner_id
  reqJob,      \* job_requests.job_id (None: the row does not exist yet)
  result,      \* job_requests.result ("null" while in flight)
  owner,       \* job_requests.runner_id
  bound,       \* job_requests.session_id
  timedOut,    \* job_requests.timeout_triggered
  lease,       \* job_leases of an attempt in flight (a settled attempt's is
               \* never read): none, or renewed recently (fresh), or not (stale)
  cancels,     \* attempts with an undelivered job_cancellations row
  inbox,       \* session_messages: unacknowledged cancellations per session
  sessRunner,  \* runner_sessions.runner_id (None: no such session)
  runners,     \* registered runners
  gone,        \* purged runner ids
  dead,        \* runner processes that crashed
  tick,        \* the reaper task: idle, or holding inputs it has read
  snap,        \* the inputs it holds
  reaping,     \* attempts whose failure the reaper has yet to complete
  patched      \* attempts a legacy PATCH stamped but has yet to complete

jobVars  == <<status, queue, claimedBy>>
reqVars  == <<reqJob, result, owner, bound, timedOut, lease, cancels>>
sessVars == <<inbox, sessRunner, runners, gone, dead>>
taskVars == <<tick, snap, reaping, patched>>
vars     == <<jobVars, reqVars, sessVars, taskVars>>

Verdicts == {"success", "failure", "cancelled"}
Statuses == Verdicts \cup {"queued", "in_progress"}
NoInputs == [ready |-> {}, timeouts |-> {}, expired |-> {}]

TypeOK ==
  /\ status \in [Jobs -> Statuses]
  /\ queue \in [Jobs -> {"ready", "claimed", "none"}]
  /\ claimedBy \in [Jobs -> Runners \cup {None}]
  /\ reqJob \in [Reqs -> Jobs \cup {None}]
  /\ result \in [Reqs -> Verdicts \cup {"null"}]
  /\ owner \in [Reqs -> Runners \cup {None}]
  /\ bound \in [Reqs -> Sessions \cup {None}]
  /\ timedOut \in [Reqs -> BOOLEAN]
  /\ lease \in [Reqs -> {"none", "fresh", "stale"}]
  /\ cancels \subseteq Reqs
  /\ inbox \in [Sessions -> SUBSET Reqs]
  /\ sessRunner \in [Sessions -> Runners \cup {None}]
  /\ runners \subseteq Runners
  /\ gone \subseteq Runners
  /\ dead \subseteq Runners
  /\ tick \in {"idle", "read"}
  /\ snap \in [ready: SUBSET Jobs, timeouts: SUBSET Reqs, expired: SUBSET Reqs]
  /\ reaping \subseteq Reqs
  /\ patched \subseteq Reqs

-----------------------------------------------------------------------------
\* Reading the rows

Live(r) == reqJob[r] # None /\ result[r] = "null"
LiveOf(j) == {r \in Reqs : reqJob[r] = j /\ result[r] = "null"}
Unused == {r \in Reqs : reqJob[r] = None}
SessionsOf(n) == {s \in Sessions : sessRunner[s] = n}

\* The session's live request, when it holds one.
ActiveOf(s) == {r \in Reqs : Live(r) /\ bound[r] = s}
IdleAlways(s) == TRUE
Idle(s) == ActiveOf(s) = {}

\* Recorded owner, else the runner of the claiming session.
MayReport(n, r) ==
  \/ owner[r] = n
  \/ owner[r] = None /\ bound[r] # None /\ sessRunner[bound[r]] = n

\* A terminal verdict sticks; a cancelled job is settled again, as cancelled.
ReplayedNever(j) == FALSE
Replayed(j) == status[j] \in {"success", "failure"}

\* completion_decision: what a reported verdict means for the job.
EffectivePrior(j, st) == status[j]
EffectiveReport(j, st) == st
Effective(j, st) ==
  IF status[j] = "cancelled" THEN "cancelled"
  ELSE IF st = "failure" /\ j \in Tolerant THEN "success" ELSE st

\* Attempts whose undelivered cancellations a completion of j by r makes moot.
Moot(j, r) == LiveOf(j) \cup {r}

\* Live attempts that requeueing the jobs J replaces (retry_attempt).
RetiredNone(J) == {}
Retired(J) == {r \in Reqs : Live(r) /\ reqJob[r] \in J}

\* Attempts that lose owner, session and lease: R is replaced, U released.
DisownedKept(R, U) == U
Disowned(R, U) == R \cup U

\* The jobs runner n holds: the claim names it, or its session is bound.
ClaimsForgotten(n) == {}
ClaimsOf(n) ==
  {j \in Jobs : /\ queue[j] = "claimed"
                /\ \/ claimedBy[j] = n
                   \/ \E r \in LiveOf(j) : bound[r] \in SessionsOf(n)}

\* Attempts in flight not renewed for longer than the reaper allows.
Expired == {r \in Reqs : Live(r) /\ lease[r] = "stale"}

\* Fresh rows of job_requests for the jobs in K, and the job of each row.
Mint(K) == CHOOSE f \in Injection(K, Unused) : TRUE
MintedJob(f, K, r) == IF \E j \in K : f[j] = r
                      THEN CHOOSE j \in K : f[j] = r ELSE reqJob[r]

Init ==
  /\ status = [j \in Jobs |-> "queued"]
  /\ queue = [j \in Jobs |-> "ready"]
  /\ claimedBy = [j \in Jobs |-> None]
  /\ LET f == CHOOSE f \in Injection(Jobs, Reqs) : TRUE
     IN  reqJob = [r \in Reqs |-> IF \E j \in Jobs : f[j] = r
                                  THEN CHOOSE j \in Jobs : f[j] = r ELSE None]
  /\ result = [r \in Reqs |-> "null"]
  /\ owner = [r \in Reqs |-> None]
  /\ bound = [r \in Reqs |-> None]
  /\ timedOut = [r \in Reqs |-> FALSE]
  /\ lease = [r \in Reqs |-> "none"]
  /\ cancels = {}
  /\ inbox = [s \in Sessions |-> {}]
  /\ sessRunner = [s \in Sessions |-> None]
  /\ runners = {}
  /\ gone = {}
  /\ dead = {}
  /\ tick = "idle"
  /\ snap = NoInputs
  /\ reaping = {}
  /\ patched = {}

-----------------------------------------------------------------------------
\* Effects several handlers share

\* The job is terminal: out of the queue, and nobody's claim.
FinishJobRow(j, st) ==
  /\ status' = [status EXCEPT ![j] = st]
  /\ queue' = [queue EXCEPT ![j] = "none"]
  /\ claimedBy' = [claimedBy EXCEPT ![j] = None]

\* Every attempt of j in flight takes the verdict of the job.
SettleRequestsForJob(j, st) ==
  /\ result' = [q \in Reqs |-> IF q \in LiveOf(j) THEN st ELSE result[q]]
  /\ lease' = [q \in Reqs |-> IF q \in LiveOf(j) THEN "none" ELSE lease[q]]

(* complete_node and settle_request_tx: settle job j with the verdict st of *)
(* attempt r.  Nothing changes when the job already holds a verdict; else   *)
(* every live attempt of the job takes it too, and what is still queued for *)
(* delivery about those attempts is moot.                                   *)
CompleteNode(j, r, st) ==
  \/ Replayed(j) /\ UNCHANGED <<jobVars, reqVars, inbox>>
  \/ /\ ~Replayed(j)
     /\ FinishJobRow(j, Effective(j, st))
     /\ SettleRequestsForJob(j, Effective(j, st))
     /\ bound' = [bound EXCEPT ![r] = None]
     /\ cancels' = cancels \ Moot(j, r)
     /\ inbox' = [s \in Sessions |-> inbox[s] \ Moot(j, r)]
     /\ UNCHANGED <<reqJob, owner, timedOut>>

(* requeue_claimed for every job of J: the live attempt settles as          *)
(* cancelled, a fresh one replaces it, and the job is ready again.  A job   *)
(* with nothing in flight gets no replacement but is ready all the same.    *)
(* U: attempts that lose their owner first.  T: attempts settled with the   *)
(* verdict their job already has.                                           *)
Requeue(J, U, T) ==
  LET K == {j \in J : LiveOf(j) # {}}
      f == Mint(K)
      retired == Retired(K)
      released == Disowned(retired, U)
  IN  /\ ExistsInjection(K, Unused)          \* bound: a row is left to mint
      /\ status' = [j \in Jobs |-> IF j \in J THEN "queued" ELSE status[j]]
      /\ queue' = [j \in Jobs |-> IF j \in J THEN "ready" ELSE queue[j]]
      /\ claimedBy' = [j \in Jobs |-> IF j \in J THEN None ELSE claimedBy[j]]
      /\ reqJob' = [r \in Reqs |-> MintedJob(f, K, r)]
      /\ result' = [r \in Reqs |-> IF r \in retired THEN "cancelled"
                                   ELSE IF r \in T THEN status[reqJob[r]]
                                   ELSE result[r]]
      /\ owner' = [r \in Reqs |-> IF r \in released THEN None ELSE owner[r]]
      /\ bound' = [r \in Reqs |-> IF r \in released \cup T THEN None ELSE bound[r]]
      /\ timedOut' = [r \in Reqs |-> timedOut[r] /\ r \notin U]
      /\ lease' = [r \in Reqs |-> IF r \in released \cup T THEN "none" ELSE lease[r]]
      /\ cancels' = cancels \ T

-----------------------------------------------------------------------------
\* Registrations and sessions

RegisterRunner(n) ==
  /\ n \notin runners \cup gone
  /\ runners' = runners \cup {n}
  /\ UNCHANGED <<jobVars, reqVars, inbox, sessRunner, gone, dead, taskVars>>

OpenRunnerSession(n, s) ==
  /\ n \in runners \ dead
  /\ sessRunner[s] = None
  /\ sessRunner' = [sessRunner EXCEPT ![s] = n]
  /\ UNCHANGED <<jobVars, reqVars, inbox, runners, gone, dead, taskVars>>

\* The attempt keeps its owner and lease; only the session binding goes.
UnboundKept(s) == {}
Unbound(s) == ActiveOf(s)
CloseRunnerSession(s) ==
  /\ sessRunner[s] # None
  /\ sessRunner' = [sessRunner EXCEPT ![s] = None]
  /\ inbox' = [inbox EXCEPT ![s] = {}]
  /\ bound' = [r \in Reqs |-> IF r \in Unbound(s) THEN None ELSE bound[r]]
  /\ UNCHANGED <<jobVars, reqJob, result, owner, timedOut, lease, cancels,
                 runners, gone, dead, taskVars>>

\* purge_runner: by the runner itself, an operator, or the liveness sweep.
PurgeRunner(n) ==
  LET mine == {r \in Reqs : Live(r) /\ (owner[r] = n \/ bound[r] \in SessionsOf(n))}
  IN  /\ n \in runners
      /\ Requeue(ClaimsOf(n), mine, {})
      /\ sessRunner' = [s \in Sessions |-> IF s \in SessionsOf(n) THEN None ELSE sessRunner[s]]
      /\ inbox' = [s \in Sessions |-> IF s \in SessionsOf(n) THEN {} ELSE inbox[s]]
      /\ runners' = runners \ {n}
      /\ gone' = gone \cup {n}
      /\ UNCHANGED <<dead, taskVars>>

\* The runner's machine dies; the control plane is not told.
Die(n) ==
  /\ n \in runners \ dead
  /\ dead' = dead \cup {n}
  /\ UNCHANGED <<jobVars, reqVars, inbox, sessRunner, runners, gone, taskVars>>

-----------------------------------------------------------------------------
\* Polling: an unacknowledged message is redelivered first (no change of
\* state), then a pending cancellation of the session's attempt, then that
\* attempt again (no change), and only an idle session claims.

PollsAhead(s) == sessRunner[s] # None /\ sessRunner[s] \notin dead
Polls(s) == sessRunner[s] # None /\ sessRunner[s] \notin dead /\ inbox[s] = {}

PollCancel(s) ==
  /\ Polls(s)
  /\ \E r \in ActiveOf(s) \cap cancels :
       /\ cancels' = cancels \ {r}
       /\ inbox' = [inbox EXCEPT ![s] = {r}]
  /\ UNCHANGED <<jobVars, reqJob, result, owner, bound, timedOut, lease,
                 sessRunner, runners, gone, dead, taskVars>>

\* claim_one flips the row of a ready job (which of them the labels, the
\* assignment tiers and the namespace caps pick is left open) ...
ClaimOne(n, j) ==
  /\ queue[j] = "ready"
  /\ status' = [status EXCEPT ![j] = "in_progress"]
  /\ queue' = [queue EXCEPT ![j] = "claimed"]
  /\ claimedBy' = [claimedBy EXCEPT ![j] = n]

\* ... before bind_claim looks for the attempt to bind.
PollClaim(s, j) ==
  /\ Polls(s)
  /\ Idle(s)
  /\ ClaimOne(sessRunner[s], j)
  /\ owner' = [r \in Reqs |-> IF r \in LiveOf(j) THEN sessRunner[s] ELSE owner[r]]
  /\ bound' = [r \in Reqs |-> IF r \in LiveOf(j) THEN s ELSE bound[r]]
  /\ lease' = [r \in Reqs |-> IF r \in LiveOf(j) THEN "fresh" ELSE lease[r]]
  /\ UNCHANGED <<reqJob, result, timedOut, cancels, sessVars, taskVars>>

\* delete_inflight: the runner acknowledges a message.
AckMessage(s, r) ==
  /\ sessRunner[s] \notin dead
  /\ r \in inbox[s]
  /\ inbox' = [inbox EXCEPT ![s] = @ \ {r}]
  /\ UNCHANGED <<jobVars, reqVars, sessRunner, runners, gone, dead, taskVars>>

-----------------------------------------------------------------------------
\* The runner holding the attempt

\* Time passes with no renewal, past the reaper's threshold for the lease.
LeaseAges(r) ==
  /\ Live(r)
  /\ lease[r] = "fresh"
  /\ lease' = [lease EXCEPT ![r] = "stale"]
  /\ UNCHANGED <<jobVars, reqJob, result, owner, bound, timedOut, cancels,
                 sessVars, taskVars>>

RenewBrokerRequest(n, r) ==
  /\ n \notin dead
  /\ Live(r)
  /\ MayReport(n, r)
  /\ lease[r] # "fresh"
  /\ lease' = [lease EXCEPT ![r] = "fresh"]
  /\ UNCHANGED <<jobVars, reqJob, result, owner, bound, timedOut, cancels,
                 sessVars, taskVars>>

\* completejob: the ownership check, then the completion, in one transaction.
BrokerCompleteJob(n, r, st) ==
  /\ n \notin dead
  /\ reqJob[r] # None
  /\ MayReport(n, r)
  /\ CompleteNode(reqJob[r], r, st)
  /\ UNCHANGED <<sessRunner, runners, gone, dead, taskVars>>

\* The legacy PATCH stamps the attempt in a transaction of its own ...
AgentRequestPatch(n, r, st) ==
  /\ n \notin dead
  /\ Live(r)
  /\ MayReport(n, r)
  /\ result' = [result EXCEPT ![r] = st]
  /\ lease' = [lease EXCEPT ![r] = "none"]
  /\ patched' = patched \cup {r}
  /\ UNCHANGED <<jobVars, reqJob, owner, bound, timedOut, cancels, sessVars,
                 tick, snap, reaping>>

\* ... and completes the job in the next.
PatchComplete(r) ==
  /\ r \in patched
  /\ patched' = patched \ {r}
  /\ CompleteNode(reqJob[r], r, result[r])
  /\ UNCHANGED <<sessRunner, runners, gone, dead, tick, snap, reaping>>

\* cancel_job / cancel_run: the verdict is immediate; an attempt in flight is
\* told through its session and settles when its runner reports.
CancelJob(j) ==
  /\ status[j] \notin Verdicts
  /\ cancels' = cancels \cup (IF status[j] = "in_progress" THEN LiveOf(j) ELSE {})
  /\ FinishJobRow(j, "cancelled")
  /\ UNCHANGED <<reqJob, result, owner, bound, timedOut, lease, sessVars, taskVars>>

-----------------------------------------------------------------------------
\* The reaper: read, sweep, complete, each in a transaction of its own

ReapInputs ==
  /\ tick = "idle" /\ reaping = {}
  /\ \E due \in SUBSET {j \in Jobs : queue[j] = "ready"},
        old \in SUBSET {r \in Reqs : Live(r) /\ owner[r] # None /\ ~timedOut[r]} :
       snap' = [ready |-> due, timeouts |-> old,
                expired |-> Expired]
  /\ snap' # NoInputs
  /\ tick' = "read"
  /\ UNCHANGED <<jobVars, reqVars, sessVars, reaping, patched>>

\* Ready jobs no runner can or did take fail; no attempt is settled.
StarveJobs(S) ==
  /\ status' = [j \in Jobs |-> IF j \in S THEN "failure" ELSE status[j]]
  /\ queue' = [j \in Jobs |-> IF j \in S THEN "none" ELSE queue[j]]

\* The attempts told to stop when those of T are past their timeout: the ones
\* now in flight for their jobs.
QueueJobCancellation(T) ==
  {r \in Reqs : Live(r) /\ \E q \in T : reqJob[q] = reqJob[r]}

(* Jobs that starved and are still ready fail; attempts past their timeout  *)
(* are marked and the live attempt of their job is told to stop; attempts   *)
(* whose lease expired settle as failures.  The job of an expired lease is  *)
(* completed afterwards.                                                    *)
ReapSweep ==
  /\ tick = "read"
  /\ \E starved \in SUBSET {j \in snap.ready : queue[j] = "ready"} :
       StarveJobs(starved)
  /\ timedOut' = [r \in Reqs |-> timedOut[r] \/ r \in snap.timeouts]
  /\ cancels' = cancels \cup QueueJobCancellation(snap.timeouts)
  /\ result' = [r \in Reqs |-> IF r \in snap.expired /\ result[r] = "null"
                               THEN "failure" ELSE result[r]]
  /\ bound' = [r \in Reqs |-> IF r \in snap.expired /\ result[r] = "null"
                              THEN None ELSE bound[r]]
  /\ lease' = [r \in Reqs |-> IF r \in snap.expired THEN "none" ELSE lease[r]]
  /\ reaping' = snap.expired
  /\ tick' = "idle"
  /\ snap' = NoInputs
  /\ UNCHANGED <<claimedBy, reqJob, owner, sessVars, patched>>

ReapComplete(r) ==
  /\ r \in reaping
  /\ reaping' = reaping \ {r}
  /\ CompleteNode(reqJob[r], r, "failure")
  /\ UNCHANGED <<sessRunner, runners, gone, dead, tick, snap, patched>>

\* The completion exceeds 30 s, or an error of it is dropped by the caller.
LoseCompletion(r) ==
  /\ LoseCompletions
  /\ r \in reaping \cup patched
  /\ reaping' = reaping \ {r}
  /\ patched' = patched \ {r}
  /\ UNCHANGED <<jobVars, reqVars, sessVars, tick, snap>>

\* Claimed jobs with no session behind their attempt.
OrphanedJobs ==
  {j \in Jobs : queue[j] = "claimed" /\ \A r \in LiveOf(j) : bound[r] = None}

\* Owned attempts of finished jobs whose session is gone.
OrphanedClaims ==
  {r \in Reqs : /\ Live(r) /\ owner[r] # None /\ bound[r] = None
                /\ status[reqJob[r]] \in Verdicts}

(* The server stops at any point and starts again: reconcile_on_boot puts   *)
(* orphaned jobs back on the queue and reconcile_orphaned_claims settles    *)
(* orphaned claims, all before it serves again.  Sessions survive.          *)
Restart ==
  /\ LoseCompletions \/ reaping \cup patched = {}
  /\ Requeue(OrphanedJobs, {}, OrphanedClaims)
  /\ inbox' = [s \in Sessions |-> inbox[s] \ OrphanedClaims]
  /\ tick' = "idle"
  /\ snap' = NoInputs
  /\ reaping' = {}
  /\ patched' = {}
  /\ UNCHANGED <<sessRunner, runners, gone, dead>>

Next ==
  \/ \E n \in Runners : RegisterRunner(n) \/ PurgeRunner(n) \/ Die(n)
  \/ \E n \in Runners, s \in Sessions : OpenRunnerSession(n, s)
  \/ \E s \in Sessions : CloseRunnerSession(s) \/ PollCancel(s)
  \/ \E s \in Sessions, j \in Jobs : PollClaim(s, j)
  \/ \E s \in Sessions, r \in Reqs : AckMessage(s, r)
  \/ \E r \in Reqs : LeaseAges(r) \/ PatchComplete(r) \/ ReapComplete(r)
                     \/ LoseCompletion(r)
  \/ \E n \in Runners, r \in Reqs : RenewBrokerRequest(n, r)
  \/ \E n \in Runners, r \in Reqs, st \in Verdicts :
       BrokerCompleteJob(n, r, st) \/ AgentRequestPatch(n, r, st)
  \/ \E j \in Jobs : CancelJob(j)
  \/ ReapInputs
  \/ ReapSweep
  \/ Restart

Spec == Init /\ [][Next]_vars

-----------------------------------------------------------------------------
\* Properties

\* A completion of job j is in flight: the attempt is stamped, the job is not.
Completing(j) == \E r \in reaping \cup patched : reqJob[r] = j

(* The job_requests_inflight index is never violated: no sequence of        *)
(* claims, purges, restarts and completions leaves a job with two attempts  *)
(* in flight, so no retry fails on the unique index.                        *)
OneLiveAttempt ==
  \A q, r \in Reqs : Live(q) /\ Live(r) /\ reqJob[q] = reqJob[r] => q = r

(* A job on the ready queue has an attempt a poll can bind, and a claimed   *)
(* job has one with the claimant's lease, which is all the reaper looks at. *)
(* The only exception is a job whose completion is still in flight.         *)
NoStrandedJob ==
  \A j \in Jobs :
    \/ Completing(j)
    \/ /\ queue[j] = "ready" => \E r \in LiveOf(j) : owner[r] = None /\ bound[r] = None
       /\ queue[j] = "claimed" => \E r \in LiveOf(j) : owner[r] = claimedBy[j] /\ lease[r] # "none"

(* Fencing: once a job is back on the queue or claimed again, no runner but *)
(* the current claimant can settle it through any of its past attempts,     *)
(* however late the report arrives.                                         *)
OnlyClaimantReports ==
  \A r \in Reqs : \A n \in Runners :
    /\ reqJob[r] # None
    /\ queue[reqJob[r]] # "none"
    /\ MayReport(n, r)
    => \/ Completing(reqJob[r])
       \/ queue[reqJob[r]] = "claimed" /\ claimedBy[reqJob[r]] = n

(* A runner that executes an attempt is never handed the cancellation of an *)
(* earlier one: redelivery comes before claiming, so a message left over    *)
(* from a settled attempt is acknowledged before the session takes new work.*)
CancellationsMatch ==
  \A s \in Sessions : \A r \in inbox[s], q \in ActiveOf(s) : r = q

(* A session runs at most one attempt, and an attempt in flight is bound    *)
(* only to an existing session of its owner.  So poll_session's "newest     *)
(* active request" is the only one, and boot never meets a claim that is    *)
(* neither requeued nor terminal (fail_unclaimable_request).                *)
SessionsHoldOneAttempt ==
  /\ \A s \in Sessions : \A q, r \in ActiveOf(s) : q = r
  /\ \A r \in Reqs : Live(r) /\ bound[r] # None =>
       sessRunner[bound[r]] # None /\ sessRunner[bound[r]] = owner[r]

(* First result wins: a job's verdict is never replaced and the job never   *)
(* returns to the queue; an attempt's result is never overwritten.          *)
ResultsStick ==
  /\ \A j \in Jobs : status[j] \in Verdicts => status'[j] = status[j] /\ queue'[j] = "none"
  /\ \A r \in Reqs : result[r] # "null" => result'[r] = result[r]
FirstResultWins == [][ResultsStick]_vars
=============================================================================
