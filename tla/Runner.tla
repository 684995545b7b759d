------------------------------- MODULE Runner -------------------------------
(***************************************************************************)
(* The runner process (crates/preloop-runner): a listener that polls the   *)
(* broker and a worker process per job, composed with the control plane of *)
(* module Dispatch.  In Dispatch a runner may do anything at any time; here *)
(* runner Me polls, acquires, renews, reports, is told to cancel and shuts *)
(* down the way its code does, while answers get lost and processes die.   *)
(*                                                                         *)
(* The listener's loop is one select!: the poll in flight, the exit of the *)
(* worker, the kill timer and the shutdown signal.  An action is one branch *)
(* of it, one HTTP call, or one step of a worker.                          *)
(***************************************************************************)
EXTENDS Dispatch

CONSTANT Me         \* the runner whose process is modelled

ASSUME RunnerAssumption ==
  /\ Me \in Runners
  /\ None \notin {"job", "cancel"} \X Reqs      \* no message is no answer

VARIABLES
  lis,       \* the listener: where run_broker_loop is
  cur,       \* session_id
  poll,      \* pending_poll: none, or in flight with status Online or Busy
  answer,    \* what the server put on that poll, not received yet, or the
             \* job reference being acquired: <<kind, attempt>>
  seen,      \* processed_message_ids
  active,    \* active_job
  told,      \* its cancel_sent
  killAt,    \* its kill_at: off, armed, or due
  worker,    \* the worker process of each attempt
  once       \* --once or an ephemeral registration

lisVars == <<lis, cur, poll, answer, seen, active, told, killAt, worker, once>>
rvars   == <<vars, lisVars>>

Executing == {"gate", "steps"}          \* before and after the first renewal
Exits == {"acked", "unacked", "crashed"} \* how it ended, or is about to

RInit ==
  /\ Init
  /\ lis = "noSession" /\ cur = None
  /\ poll = "none" /\ answer = None /\ seen = {}
  /\ active = None /\ told = FALSE /\ killAt = "off"
  /\ worker = [r \in Reqs |-> "none"]
  /\ once \in BOOLEAN

-----------------------------------------------------------------------------
\* Sessions and polls

\* The id of the next session.
NewSession ==
  LET free == {s \in Sessions : sessRunner[s] = None}
  IN  IF free = {} THEN {} ELSE {CHOOSE s \in free : TRUE}

\* A new session forgets which messages were processed.  The attempt of a
\* running job stays bound to the session that claimed it.
CreateSession ==
  /\ lis = "noSession"
  /\ NewSession # {}                               \* bound: one is left
  /\ \E s \in NewSession : OpenRunnerSession(Me, s) /\ cur' = s
  /\ lis' = "loop"
  /\ seen' = {}
  /\ UNCHANGED <<poll, answer, active, told, killAt, worker, once>>

\* The poll outlives the job it was started under: its status may be stale.
StartPoll ==
  /\ lis = "loop" /\ poll = "none"
  /\ poll' = IF active = None THEN "online" ELSE "busy"
  /\ UNCHANGED <<vars, lis, cur, answer, seen, active, told, killAt, worker, once>>

Waits == poll # "none" /\ answer = None

\* next_message_broker_ref_root: the server answers the poll it holds.  Jobs
\* that are ready are offered to the one runner in a fixed order.
DispatchesAlways(p) == TRUE
Dispatches(p) == p = "online"
AnswerJob(j) ==
  /\ Waits
  /\ Dispatches(poll)
  /\ queue[j] = "ready"
  /\ j = CHOOSE k \in Jobs : queue[k] = "ready"
  /\ PollClaim(cur, j)
  /\ \E r \in LiveOf(j) : answer' = <<"job", r>>
  /\ UNCHANGED <<lis, cur, poll, seen, active, told, killAt, worker, once>>

AnswerCancel ==
  /\ Waits
  /\ PollCancel(cur)
  /\ \E r \in inbox'[cur] : answer' = <<"cancel", r>>
  /\ UNCHANGED <<lis, cur, poll, seen, active, told, killAt, worker, once>>

\* A message that was never acknowledged is delivered again and again: the
\* listener acknowledges job references only.
AnswerInflight ==
  /\ Waits
  /\ \E r \in inbox[cur] : answer' = <<"cancel", r>>
  /\ UNCHANGED <<vars, lis, cur, poll, seen, active, told, killAt, worker, once>>

\* The window ends; a session with an attempt in flight is not sent it again.
AnswerEmpty ==
  /\ Waits
  /\ cur # None
  /\ inbox[cur] = {} /\ ActiveOf(cur) \cap cancels = {}
  /\ poll' = "none"
  /\ UNCHANGED <<vars, lis, cur, answer, seen, active, told, killAt, worker, once>>

\* The request fails or its answer is lost.
PollFails ==
  /\ lis = "loop" /\ poll # "none"
  /\ lis' = "backoff"
  /\ poll' = "none" /\ answer' = None
  /\ UNCHANGED <<vars, cur, seen, active, told, killAt, worker, once>>

BackoffEnds ==
  /\ lis = "backoff"
  /\ lis' = "loop"
  /\ UNCHANGED <<vars, cur, poll, answer, seen, active, told, killAt, worker, once>>

\* Unauthorized: a new token and a new session; the old one is not deleted.
TokenExpired ==
  /\ lis = "loop" /\ Waits
  /\ NewSession # {}
  /\ Me \in runners
  /\ lis' = "noSession"
  /\ poll' = "none"
  /\ UNCHANGED <<vars, cur, answer, seen, active, told, killAt, worker, once>>

-----------------------------------------------------------------------------
\* Messages

\* Job references carry the request id, cancellations an id far above those.
MessageIdShared(kind, r) == r
MessageId(kind, r) == <<kind, r>>

\* A message id that was processed before: dropped.
DropRepeated ==
  /\ lis = "loop" /\ answer # None
  /\ MessageId(answer[1], answer[2]) \in seen
  /\ poll' = "none" /\ answer' = None
  /\ UNCHANGED <<vars, lis, cur, seen, active, told, killAt, worker, once>>

\* RunnerJobRequest.  That a worker is still active (the overlap) is excluded
\* by ClaimsOnlyWhenFree.
ReceiveJob(r) ==
  /\ lis = "loop" /\ answer = <<"job", r>> /\ active = None
  /\ MessageId("job", r) \notin seen
  /\ seen' = seen \cup {MessageId("job", r)}
  /\ lis' = "acquiring"
  /\ poll' = "none"
  /\ UNCHANGED <<vars, cur, answer, active, told, killAt, worker, once>>

\* JobCancellation: told once; the kill timer starts, or starts anew.
ReceiveCancel(r) ==
  /\ lis = "loop" /\ answer = <<"cancel", r>>
  /\ MessageId("cancel", r) \notin seen
  /\ seen' = seen \cup {MessageId("cancel", r)}
  /\ poll' = "none" /\ answer' = None
  /\ told' = (told \/ active = r)
  /\ killAt' = IF active = r THEN "armed" ELSE killAt
  /\ UNCHANGED <<vars, lis, cur, active, worker, once>>

\* acquirejob succeeds and the worker is spawned.
Acquire(r) ==
  /\ lis = "acquiring" /\ answer = <<"job", r>>
  /\ Live(r) /\ MayReport(Me, r)
  /\ worker' = [worker EXCEPT ![r] = "gate"]
  /\ active' = r /\ told' = FALSE /\ killAt' = "off"
  /\ lis' = "loop" /\ answer' = None
  /\ UNCHANGED <<vars, cur, poll, seen, once>>

\* It is refused, it fails or the spawn does: the error ends the listener.
AcquireFails ==
  /\ lis = "acquiring"
  /\ lis' = "ending" /\ answer' = None
  /\ UNCHANGED <<vars, cur, poll, seen, active, told, killAt, worker, once>>

\* fail_unclaimable_request: no token for the job, so the server settles the
\* attempt, completes the job in the next transaction and refuses the acquire.
AcquireUnclaimable(r) ==
  /\ lis = "acquiring" /\ answer = <<"job", r>>
  /\ Live(r) /\ MayReport(Me, r)
  /\ result' = [result EXCEPT ![r] = "failure"]
  /\ lease' = [lease EXCEPT ![r] = "none"]
  /\ bound' = [bound EXCEPT ![r] = None]
  /\ cancels' = cancels \ {r}
  /\ inbox' = [s \in Sessions |-> inbox[s] \ {r}]
  /\ patched' = patched \cup {r}
  /\ lis' = "ending" /\ answer' = None
  /\ UNCHANGED <<jobVars, reqJob, owner, timedOut, sessRunner, runners, gone, dead,
                 tick, snap, reaping,
                 cur, poll, seen, active, told, killAt, worker, once>>

-----------------------------------------------------------------------------
\* The worker

\* first_renew_gate: no step runs before a renewal succeeded.
FirstRenewal(r) ==
  /\ worker[r] = "gate" /\ active = r
  /\ Live(r) /\ MayReport(Me, r)
  /\ lease' = [lease EXCEPT ![r] = "fresh"]
  /\ worker' = [worker EXCEPT ![r] = "steps"]
  /\ UNCHANGED <<jobVars, reqJob, result, owner, bound, timedOut, cancels, sessVars, taskVars,
                 lis, cur, poll, answer, seen, active, told, killAt, once>>

\* The renew loop ends when the worker is told to cancel, and when its stdin
\* closes because the listener is gone, although the steps go on then.
RenewsOrphaned(r) == worker[r] = "steps"
Renews(r) == worker[r] = "steps" /\ active = r /\ ~told

RenewLoop(r) ==
  /\ Renews(r)
  /\ RenewBrokerRequest(Me, r)
  /\ UNCHANGED lisVars

\* The conclusions a worker may reach: at the gate it is abandoned (a failure)
\* or cancelled; a job with steps is cancelled only when told.
Conclusions(r) ==
  (IF worker[r] = "gate" THEN {"failure"} ELSE {"success", "failure"})
    \cup (IF (told /\ active = r) \/ (worker[r] = "gate" /\ active # r)
          THEN {"cancelled"} ELSE {})

\* How it ends matters to its listener only.
Leaves(r, e) == [worker EXCEPT ![r] = IF active = r THEN e ELSE "done"]

\* report_completion: the report is applied or not, and its answer may be
\* lost; the process exits normally all the same.
ReportCompletion(r) ==
  /\ worker[r] \in Executing
  /\ \/ /\ \E st \in Conclusions(r) : BrokerCompleteJob(Me, r, st)
        /\ \E e \in {"acked", "unacked"} : worker' = Leaves(r, e)
     \/ /\ worker' = Leaves(r, "unacked")
        /\ UNCHANGED vars
  /\ UNCHANGED <<lis, cur, poll, answer, seen, active, told, killAt, once>>

WorkerCrashes(r) ==
  /\ worker[r] \in Executing
  /\ worker' = Leaves(r, "crashed")
  /\ UNCHANGED <<vars, lis, cur, poll, answer, seen, active, told, killAt, once>>

-----------------------------------------------------------------------------
\* The listener and its worker

\* force_fail_job: a report by the listener, which may fail as well.
ForceFail(r, st) == BrokerCompleteJob(Me, r, st) \/ UNCHANGED vars

\* The worker has exited; a completion it did not see acknowledged is forced.
WorkerExited(r) ==
  /\ lis \in {"loop", "noSession", "draining"}
  /\ active = r /\ worker[r] \in Exits
  /\ IF worker[r] = "acked" THEN UNCHANGED vars ELSE ForceFail(r, "failure")
  /\ worker' = [worker EXCEPT ![r] = "done"]
  /\ active' = None /\ told' = FALSE /\ killAt' = "off"
  /\ IF once \/ lis = "draining"
     THEN lis' = "ending" /\ poll' = "none" /\ answer' = None
     ELSE UNCHANGED <<lis, poll, answer>>
  /\ UNCHANGED <<cur, seen, once>>

GraceRuns ==
  /\ killAt = "armed"
  /\ killAt' = "due"
  /\ UNCHANGED <<vars, lis, cur, poll, answer, seen, active, told, worker, once>>

\* The worker and its process tree are killed, unless it has just exited.
KillTimer ==
  /\ lis = "loop" /\ killAt = "due"
  /\ killAt' = "off"
  /\ worker' = [worker EXCEPT ![active] = IF @ \in Executing THEN "crashed" ELSE @]
  /\ UNCHANGED <<vars, lis, cur, poll, answer, seen, active, told, once>>

\* SIGTERM or Ctrl-C.  Between two polls the running job is drained; while the
\* listener backs off it just returns, and the worker goes on without it.
Shutdown ==
  /\ lis \in {"loop", "backoff", "noSession"}
  /\ poll' = "none" /\ answer' = None
  /\ IF lis = "loop" /\ active # None
     THEN lis' = "draining" /\ told' = TRUE /\ UNCHANGED <<active, killAt>>
     ELSE lis' = "ending" /\ active' = None /\ told' = FALSE /\ killAt' = "off"
  /\ UNCHANGED <<vars, cur, seen, worker, once>>

\* shutdown_gracefully: the worker is killed when the grace has passed.
DrainExpires(r) ==
  /\ lis = "draining" /\ active = r
  /\ ForceFail(r, "cancelled")
  /\ worker' = [worker EXCEPT ![r] = "done"]
  /\ active' = None /\ told' = FALSE /\ killAt' = "off"
  /\ lis' = "ending"
  /\ UNCHANGED <<cur, poll, answer, seen, once>>

\* delete_broker_session, as far as it succeeds, is the last thing.
Ending ==
  /\ lis = "ending"
  /\ lis' = "ended"
  /\ UNCHANGED vars \/ (cur # None /\ CloseRunnerSession(cur))
  /\ cur' = None /\ seen' = {}
  /\ UNCHANGED <<poll, answer, active, told, killAt, worker, once>>

\* The listener process is killed; its worker, if any, stays behind.
ListenerDies ==
  /\ lis \notin {"ending", "ended"}
  /\ lis' = "ended"
  /\ cur' = None /\ seen' = {} /\ poll' = "none" /\ answer' = None
  /\ active' = None /\ told' = FALSE /\ killAt' = "off"
  /\ UNCHANGED <<vars, worker, once>>

\* The machine is lost, with everything on it.
MachineDies ==
  /\ Die(Me)
  /\ lis' = "ended"
  /\ cur' = None /\ seen' = {} /\ poll' = "none" /\ answer' = None
  /\ active' = None /\ told' = FALSE /\ killAt' = "off"
  /\ worker' = [r \in Reqs |-> IF worker[r] = "none" THEN "none" ELSE "done"]
  /\ UNCHANGED once

-----------------------------------------------------------------------------
\* The control plane

\* The reaper's ticks that expire leases.  Starvation and timeouts (to the
\* runner one more cancellation) are left to Dispatch, like purges and the
\* cancellation of a job nobody has claimed.
ReaperLooks == ReapInputs /\ snap'.ready = {} /\ snap'.timeouts = {}

\* A restart breaks the poll the server holds.
ServerRestarts ==
  /\ Restart
  /\ IF Waits THEN poll' = "none" /\ lis' = "backoff" ELSE UNCHANGED <<poll, lis>>
  /\ UNCHANGED <<cur, answer, seen, active, told, killAt, worker, once>>

ServerSteps ==
  /\ \/ RegisterRunner(Me)
     \/ \E r \in Reqs : LeaseAges(r) \/ PatchComplete(r) \/ ReapComplete(r)
     \/ \E j \in Jobs : claimedBy[j] = Me /\ CancelJob(j)
     \/ ReaperLooks
     \/ ReapSweep
  /\ UNCHANGED lisVars

RNext ==
  \/ CreateSession
  \/ StartPoll \/ AnswerCancel \/ AnswerInflight \/ AnswerEmpty
  \/ \E j \in Jobs : AnswerJob(j)
  \/ PollFails \/ BackoffEnds \/ TokenExpired
  \/ DropRepeated
  \/ AcquireFails
  \/ \E r \in Reqs : \/ ReceiveJob(r) \/ ReceiveCancel(r)
                     \/ Acquire(r) \/ AcquireUnclaimable(r)
                     \/ FirstRenewal(r) \/ RenewLoop(r)
                     \/ ReportCompletion(r) \/ WorkerCrashes(r)
                     \/ WorkerExited(r) \/ DrainExpires(r)
  \/ GraceRuns \/ KillTimer
  \/ Shutdown \/ Ending \/ ListenerDies \/ MachineDies
  \/ ServerRestarts
  \/ ServerSteps

RSpec == RInit /\ [][RNext]_rvars

\* What the listener does next of its own accord, wherever it is.
ListenerGoesOn ==
  \/ StartPoll \/ BackoffEnds \/ Ending
  \/ CreateSession
  \/ AcquireFails
  \/ \E r \in Reqs : Acquire(r) \/ AcquireUnclaimable(r) \/ DrainExpires(r)

\* It takes the answer of a poll.
Receives == DropRepeated \/ \E r \in Reqs : ReceiveJob(r) \/ ReceiveCancel(r)

(* The listener goes round its loop, timers run, and not every poll fails   *)
(* and not every answer is lost; on the server a lease nobody renews ages,  *)
(* a completion that was begun is finished and restarts do not cut off every *)
(* tick of the reaper.  Nothing is assumed of what a job executes: its      *)
(* steps may run, and be renewed, for ever.                                 *)
Fairness ==
  /\ WF_rvars(ListenerGoesOn)
  /\ SF_rvars(AnswerCancel \/ AnswerInflight)
  /\ SF_rvars(Receives)
  /\ WF_rvars(GraceRuns) /\ SF_rvars(KillTimer)
  /\ WF_rvars((\E r \in Reqs : ~Renews(r) /\ LeaseAges(r)) /\ UNCHANGED lisVars)
  /\ WF_rvars((\E r \in Reqs : ReapComplete(r) \/ PatchComplete(r)) /\ UNCHANGED lisVars)
  /\ SF_rvars(ReaperLooks /\ UNCHANGED lisVars)
  /\ SF_rvars(ReapSweep /\ UNCHANGED lisVars)

RFairSpec == RSpec /\ Fairness

-----------------------------------------------------------------------------
\* Properties

(* A runner takes one job at a time, and a single-use runner takes one in   *)
(* all: no poll of its session claims a job while a worker process is alive *)
(* (it may have reported already, the poll may be older than the job), so   *)
(* the overlap that would cancel the running job never happens.             *)
ClaimsOnlyWhenFree ==
  [][\A r \in Reqs : owner[r] # Me /\ owner'[r] = Me =>
       /\ \A q \in Reqs : worker[q] \in {"none", "done"}
       /\ once => \A q \in Reqs : worker[q] = "none"]_rvars

(* A cancellation reaches the worker and ends it, also one that ignores it: *)
(* queued for the attempt an attended worker executes, it leads to the      *)
(* worker's end or to the attempt leaving the session it was claimed on.    *)
Attended == active # None /\ worker[active] \in Executing /\ bound[active] = cur
Cancelling == Attended /\ active \in cancels \cup inbox[cur]
CancelledJobStops == Cancelling ~> ~Attended

(* A claim without a worker does not last: when an answer is lost, a worker *)
(* crashes or cannot be started, a report fails, or listener or machine die *)
(* before or after the claim, the job is given to a worker or taken back.   *)
Unattended ==
  \E j \in Jobs : /\ queue[j] = "claimed" /\ claimedBy[j] = Me
                  /\ \A r \in LiveOf(j) : ~(active = r /\ worker[r] \in Executing)
ClaimsAreWorked == Unattended ~> ~Unattended
=============================================================================
