---------------------------- MODULE RunnerProofs ----------------------------
(***************************************************************************)
(* Proofs about the runner process of Runner, for every set of jobs,        *)
(* sessions and attempts.  ListenerInv says what run_broker_loop relies on  *)
(* from one branch of its select! to the next; with it every call of the    *)
(* process is a step of Dispatch, one refused acquire apart, so the         *)
(* invariants of the control plane hold of the composition too.  AttemptInv *)
(* relates the two halves: an attempt that reached the process is owned or  *)
(* settled, and one that a poll can still hand out is neither.              *)
(***************************************************************************)
EXTENDS Runner, DispatchProofs

Over == {"ending", "ended"}

WorkerStates == {"none", "done"} \cup Executing \cup Exits

\* Where the listener is: a poll is in flight only in the loop, and only a
\* listener with a session is there.
Whereabouts ==
  /\ cur \in Sessions \cup {None}
  /\ lis \in {"loop", "backoff", "acquiring", "draining"} => cur # None
  /\ poll # "none" => lis = "loop"
  /\ worker \in [Reqs -> WorkerStates]

\* A worker that has not exited, or whose exit is not seen yet, is the active
\* one, unless the listener is over; a poll with status Online, a job on its
\* way and an acquire mean that there is none; and a single-use listener
\* without an active worker never had one.
OneAtATime ==
  /\ poll = "online" => active = None
  /\ lis = "acquiring" => active = None
  /\ answer # None /\ answer[1] = "job" => active = None
  /\ \A q \in Reqs : active = q => worker[q] # "none"
  /\ lis \notin Over =>
       /\ \A q \in Reqs : worker[q] \notin {"none", "done"} => active = q
       /\ once /\ active = None => \A q \in Reqs : worker[q] = "none"

ListenerInv == Whereabouts /\ OneAtATime

\* The attempt was handed to the process: on its way to it, or to a worker.
Handed(r) == worker[r] # "none" \/ answer = <<"job", r>>

\* A job reference on its way has no worker yet; an attempt handed out stays
\* owned until it is settled; and an attempt a poll may bind is nobody's.
AttemptInv ==
  /\ \A r \in Reqs : answer = <<"job", r>> => worker[r] = "none"
  /\ \A r \in Reqs : Handed(r) => reqJob[r] # None /\ (result[r] # "null" \/ owner[r] # None)
  /\ \A j \in Jobs : queue[j] = "ready" => \A r \in LiveOf(j) : owner[r] = None

(* An attempt is executed at most once: no lost answer, repeated message,   *)
(* new session, crash or restart makes a listener spawn a worker for an     *)
(* attempt that had one.                                                    *)
SpawnsOnce == \A r \in Reqs : worker[r] # "none" /\ worker'[r] = "gate" => worker[r] = "gate"
ExecutedOnce == [][SpawnsOnce]_rvars

(* The overlap (a job arrives while another is active, which would cancel   *)
(* or kill the running one) never happens, so that ReceiveJob without that  *)
(* branch is the whole handler.                                             *)
NoOverlap == \A r \in Reqs : lis = "loop" /\ answer = <<"job", r>> => active = None

-----------------------------------------------------------------------------
\* The listener

\* At first there is no session, no poll and no worker.
LEMMA InitListener == RInit => ListenerInv
BY DispatchAssumption, RunnerAssumption
   DEF RInit, ListenerInv, Whereabouts, OneAtATime, WorkerStates, Over

\* Sessions, polls and answers: no worker is touched.
LEMMA PollsKeepListener ==
  ASSUME ListenerInv,
         \/ CreateSession \/ StartPoll \/ AnswerCancel \/ AnswerInflight \/ AnswerEmpty
         \/ \E j \in Jobs : AnswerJob(j)
         \/ PollFails \/ BackoffEnds \/ TokenExpired
         \/ ServerRestarts
  PROVE  ListenerInv'
<1> USE DEF ListenerInv, Whereabouts, OneAtATime, Over
<1>1. ASSUME CreateSession PROVE ListenerInv'
  <2>1. PICK s \in NewSession : cur' = s
    BY <1>1 DEF CreateSession
  <2>2. cur' \in Sessions /\ cur' # None
    BY <2>1, DispatchAssumption DEF NewSession
  <2> QED
    BY <1>1, <2>2 DEF CreateSession
<1>2. ASSUME StartPoll PROVE ListenerInv'
  BY <1>2 DEF StartPoll
<1>3. ASSUME AnswerCancel PROVE ListenerInv'
  <2>1. PICK r : answer' = <<"cancel", r>>
    BY <1>3 DEF AnswerCancel
  <2> QED
    BY <1>3, <2>1 DEF AnswerCancel
<1>4. ASSUME AnswerInflight PROVE ListenerInv'
  <2>1. PICK r : answer' = <<"cancel", r>>
    BY <1>4 DEF AnswerInflight
  <2> QED
    BY <1>4, <2>1 DEF AnswerInflight
<1>5. ASSUME AnswerEmpty PROVE ListenerInv'
  BY <1>5 DEF AnswerEmpty
<1>6. ASSUME NEW j \in Jobs, AnswerJob(j) PROVE ListenerInv'
  BY <1>6 DEF AnswerJob, Dispatches
<1>7. ASSUME PollFails PROVE ListenerInv'
  BY <1>7 DEF PollFails
<1>8. ASSUME BackoffEnds PROVE ListenerInv'
  BY <1>8 DEF BackoffEnds
<1>9. ASSUME TokenExpired PROVE ListenerInv'
  BY <1>9 DEF TokenExpired, Waits
<1>10. ASSUME ServerRestarts PROVE ListenerInv'
  BY <1>10 DEF ServerRestarts, Waits
<1> QED
  BY <1>1, <1>2, <1>3, <1>4, <1>5, <1>6, <1>7, <1>8, <1>9, <1>10

\* Messages, and the end of the listener.
LEMMA MessagesKeepListener ==
  ASSUME ListenerInv,
         \/ DropRepeated \/ AcquireFails \/ GraceRuns
         \/ \E r \in Reqs : \/ ReceiveJob(r) \/ ReceiveCancel(r)
                            \/ Acquire(r) \/ AcquireUnclaimable(r)
         \/ Shutdown \/ Ending \/ ListenerDies \/ MachineDies
  PROVE  ListenerInv'
<1> USE DispatchAssumption DEF ListenerInv, Whereabouts, OneAtATime, Over
<1>1. ASSUME DropRepeated PROVE ListenerInv'
  BY <1>1 DEF DropRepeated
<1>2. ASSUME AcquireFails PROVE ListenerInv'
  BY <1>2 DEF AcquireFails
<1>3. ASSUME GraceRuns PROVE ListenerInv'
  BY <1>3 DEF GraceRuns
<1>4. ASSUME NEW r \in Reqs, ReceiveJob(r) PROVE ListenerInv'
  BY <1>4 DEF ReceiveJob
<1>5. ASSUME NEW r \in Reqs, ReceiveCancel(r) PROVE ListenerInv'
  BY <1>5 DEF ReceiveCancel
<1>6. ASSUME NEW r \in Reqs, Acquire(r) PROVE ListenerInv'
  <2>1. poll = "none" /\ active = None /\ poll' = poll
    BY <1>6 DEF Acquire
  <2>2. worker' \in [Reqs -> WorkerStates]
    BY <1>6 DEF Acquire, WorkerStates, Executing
  <2> QED
    BY <1>6, <2>1, <2>2 DEF Acquire
<1>7. ASSUME NEW r \in Reqs, AcquireUnclaimable(r) PROVE ListenerInv'
  BY <1>7 DEF AcquireUnclaimable
<1>8. ASSUME Shutdown PROVE ListenerInv'
  BY <1>8 DEF Shutdown
<1>9. ASSUME Ending PROVE ListenerInv'
  BY <1>9 DEF Ending
<1>10. ASSUME ListenerDies PROVE ListenerInv'
  BY <1>10 DEF ListenerDies
<1>11. ASSUME MachineDies PROVE ListenerInv'
  BY <1>11 DEF MachineDies, WorkerStates
<1> QED
  BY <1>1, <1>2, <1>3, <1>4, <1>5, <1>6, <1>7, <1>8, <1>9, <1>10, <1>11

\* A worker changes only from one state of work to another, or exits.
LEMMA WorkersKeepListener ==
  ASSUME ListenerInv,
         \/ \E r \in Reqs : \/ FirstRenewal(r) \/ RenewLoop(r)
                            \/ ReportCompletion(r) \/ WorkerCrashes(r)
                            \/ WorkerExited(r) \/ DrainExpires(r)
         \/ KillTimer
         \/ ServerSteps
         \/ UNCHANGED lisVars
  PROVE  ListenerInv'
<1> USE DispatchAssumption DEF ListenerInv, Whereabouts, OneAtATime, Over
<1>1. ASSUME NEW r \in Reqs, FirstRenewal(r) PROVE ListenerInv'
  BY <1>1 DEF FirstRenewal, WorkerStates, Executing
<1>2. ASSUME UNCHANGED lisVars PROVE ListenerInv'
  BY <1>2 DEF lisVars
<1>3. ASSUME NEW r \in Reqs, NEW e \in Exits, worker[r] \in Executing, worker' = Leaves(r, e),
             UNCHANGED <<lis, cur, poll, answer, active, once>>
      PROVE  ListenerInv'
  BY <1>3 DEF Leaves, WorkerStates, Executing, Exits
<1>4. ASSUME NEW r \in Reqs, ReportCompletion(r) PROVE ListenerInv'
  <2>1. PICK e \in Exits : worker' = Leaves(r, e)
    BY <1>4 DEF ReportCompletion, Exits
  <2> QED
    BY <1>3, <1>4, <2>1 DEF ReportCompletion
<1>5. ASSUME NEW r \in Reqs, WorkerCrashes(r) PROVE ListenerInv'
  <2>1. "crashed" \in Exits
    BY DEF Exits
  <2> QED
    BY <1>3, <1>5, <2>1 DEF WorkerCrashes
<1>6. ASSUME NEW r \in Reqs, WorkerExited(r) PROVE ListenerInv'
  <2>1. active = r /\ active # None /\ worker[r] # "none"
    BY <1>6 DEF WorkerExited, Exits
  <2>2. worker' \in [Reqs -> WorkerStates] /\ cur' = cur /\ active' = None /\ once' = once
    BY <1>6 DEF WorkerExited, WorkerStates
  <2>3. \A q \in Reqs : worker'[q] \in {"none", "done"} \/ (q # r /\ worker'[q] = worker[q])
    BY <1>6 DEF WorkerExited
  <2>4. CASE once \/ lis = "draining"
    BY <1>6, <2>2, <2>4 DEF WorkerExited
  <2>5. CASE ~(once \/ lis = "draining")
    <3>1. UNCHANGED <<lis, poll, answer>>
      BY <1>6, <2>5 DEF WorkerExited
    <3> QED
      BY <2>1, <2>2, <2>3, <2>5, <3>1
  <2> QED
    BY <2>4, <2>5
<1>7. ASSUME NEW r \in Reqs, DrainExpires(r) PROVE ListenerInv'
  BY <1>7 DEF DrainExpires, WorkerStates
<1>8. ASSUME KillTimer PROVE ListenerInv'
  <2>1. \A q \in Reqs : /\ worker'[q] \in WorkerStates
                        /\ worker'[q] \in {"none", "done"} <=> worker[q] \in {"none", "done"}
                        /\ worker'[q] = "none" <=> worker[q] = "none"
    BY <1>8 DEF KillTimer, WorkerStates, Executing, Exits
  <2>2. worker' \in [Reqs -> WorkerStates]
    BY <1>8, <2>1 DEF KillTimer
  <2> QED
    BY <1>8, <2>1, <2>2 DEF KillTimer
<1> QED
  BY <1>1, <1>2, <1>4, <1>5, <1>6, <1>7, <1>8 DEF RenewLoop, ServerSteps

\* Every step of the process, of a worker or of the server keeps the listener
\* sound.
LEMMA ListenerStep == ListenerInv /\ [RNext]_rvars => ListenerInv'
<1> SUFFICES ASSUME ListenerInv, [RNext]_rvars PROVE ListenerInv'
  OBVIOUS
<1>1. CASE RNext
  BY <1>1, PollsKeepListener, MessagesKeepListener, WorkersKeepListener DEF RNext
<1>2. CASE UNCHANGED rvars
  BY <1>2, WorkersKeepListener DEF rvars
<1> QED
  BY <1>1, <1>2
-----------------------------------------------------------------------------
\* The server's half of a step

\* A call of the process is a step of the control plane or none at all; the
\* exceptions are the first renewal, which may renew a lease that is fresh,
\* and the acquire for which the server has no token.
LEMMA ServerHalf ==
  ASSUME ListenerInv, [RNext]_rvars
  PROVE  [Next]_vars \/ \E r \in Reqs : FirstRenewal(r) \/ AcquireUnclaimable(r)
<1> DEFINE Half == [Next]_vars \/ \E r \in Reqs : FirstRenewal(r) \/ AcquireUnclaimable(r)
<1> USE RunnerAssumption
<1>1. ASSUME NEW r \in Reqs, NEW st \in Verdicts, BrokerCompleteJob(Me, r, st) PROVE Half
  BY <1>1 DEF Next
<1>2. {"success", "failure", "cancelled"} = Verdicts
  BY DEF Verdicts
<1>3. ASSUME NEW r \in Reqs, NEW st \in Verdicts, ForceFail(r, st) PROVE Half
  BY <1>1, <1>3 DEF ForceFail
<1>4. ASSUME CreateSession PROVE Half
  <2>1. PICK s \in NewSession : OpenRunnerSession(Me, s)
    BY <1>4 DEF CreateSession
  <2>2. s \in Sessions
    BY DEF NewSession
  <2> QED
    BY <2>1, <2>2 DEF Next
<1>5. Waits => cur \in Sessions
  BY DEF Waits, ListenerInv, Whereabouts
<1>6. ASSUME AnswerCancel PROVE Half
  BY <1>5, <1>6 DEF AnswerCancel, Next
<1>7. ASSUME NEW j \in Jobs, AnswerJob(j) PROVE Half
  BY <1>5, <1>7 DEF AnswerJob, Next
<1>8. ASSUME NEW r \in Reqs, RenewLoop(r) PROVE Half
  BY <1>8 DEF RenewLoop, Next
<1>9. ASSUME NEW r \in Reqs, ReportCompletion(r) PROVE Half
  <2>1. Conclusions(r) \subseteq Verdicts
    BY <1>2 DEF Conclusions
  <2>2. CASE UNCHANGED vars
    BY <2>2
  <2>3. CASE \E st \in Conclusions(r) : BrokerCompleteJob(Me, r, st)
    BY <1>1, <2>1, <2>3
  <2> QED
    BY <1>9, <2>2, <2>3 DEF ReportCompletion
<1>10. ASSUME NEW r \in Reqs, WorkerExited(r) PROVE Half
  BY <1>2, <1>3, <1>10 DEF WorkerExited
<1>11. ASSUME NEW r \in Reqs, DrainExpires(r) PROVE Half
  BY <1>2, <1>3, <1>11 DEF DrainExpires
<1>12. ASSUME Ending PROVE Half
  <2>1. CASE cur # None /\ CloseRunnerSession(cur)
    BY <2>1 DEF ListenerInv, Whereabouts, Next
  <2> QED
    BY <1>12, <2>1 DEF Ending
<1>13. ASSUME MachineDies PROVE Half
  BY <1>13 DEF MachineDies, Next
<1>14. ASSUME ServerRestarts PROVE Half
  BY <1>14 DEF ServerRestarts, Next
<1>15. ASSUME ServerSteps PROVE Half
  BY <1>15 DEF ServerSteps, ReaperLooks, Next
<1>16. ASSUME \/ StartPoll \/ AnswerInflight \/ AnswerEmpty \/ PollFails \/ BackoffEnds
              \/ TokenExpired \/ DropRepeated \/ AcquireFails \/ GraceRuns \/ KillTimer
              \/ Shutdown \/ ListenerDies
              \/ \E r \in Reqs : ReceiveJob(r) \/ ReceiveCancel(r) \/ Acquire(r) \/ WorkerCrashes(r)
       PROVE  UNCHANGED vars
  BY <1>16 DEF StartPoll, AnswerInflight, AnswerEmpty, PollFails, BackoffEnds, TokenExpired,
               DropRepeated, AcquireFails, GraceRuns, KillTimer, Shutdown, ListenerDies,
               ReceiveJob, ReceiveCancel, Acquire, WorkerCrashes
<1>17. ASSUME UNCHANGED rvars PROVE UNCHANGED vars
  BY <1>17 DEF rvars
<1> HIDE DEF Half
<1>18. ASSUME UNCHANGED vars PROVE Half
  BY <1>18 DEF Half
<1>19. ASSUME NEW r \in Reqs, FirstRenewal(r) \/ AcquireUnclaimable(r) PROVE Half
  BY <1>19 DEF Half
<1>20. ASSUME RNext PROVE Half
  BY <1>4, <1>6, <1>7, <1>8, <1>9, <1>10, <1>11, <1>12, <1>13, <1>14, <1>15, <1>16, <1>18, <1>19, <1>20
     DEF RNext
<1>21. Half
  BY <1>17, <1>18, <1>20
<1> QED
  BY <1>21 DEF Half

\* Renewing a lease that is fresh or not changes nothing but the lease.
LEMMA FirstRenewalSafe ==
  ASSUME DispatchInv, NEW r \in Reqs, FirstRenewal(r)
  PROVE  /\ DispatchInv' /\ ResultsStick
         /\ SessionInv => SessionInv'
         /\ ClaimInv => ClaimInv'
<1>1. ReqsTyped' /\ UNCHANGED <<jobVars, reqJob, result>>
  BY DEF FirstRenewal, ReqsTyped, DispatchInv, TypeOK, jobVars
<1>2. RestTyped' /\ TasksNameAttempts'
  BY DEF FirstRenewal, RestTyped, TasksNameAttempts, DispatchInv, TypeOK, sessVars, taskVars
<1>3. StepSafe
  BY <1>1, RowsUntouched
<1>4. DispatchInv'
  BY <1>1, <1>2, <1>3 DEF StepSafe, JobsTyped, ReqsTyped, RestTyped, TypeOK, DispatchInv
<1>5. BindingsKept
  BY DEF FirstRenewal, BindingsKept, sessVars, Live, DispatchInv, TypeOK
<1>6. ASSUME ClaimInv, NEW j \in Jobs PROVE Backed(j)'
  <2>1. Completing(j)' <=> Completing(j)
    BY DEF FirstRenewal, Completing, taskVars
  <2>2. JobKept(j)
    BY <2>1 DEF FirstRenewal, JobKept, jobVars, DispatchInv, TypeOK
  <2> QED
    BY <1>6, <2>2, KeptStaysBacked DEF ClaimInv
<1>7. ClaimInv => ClaimInv'
  BY <1>6 DEF ClaimInv, OneSweep, FirstRenewal, taskVars
<1> QED
  BY <1>3, <1>4, <1>5, <1>7, LettingGoKeepsSessions DEF StepSafe

\* fail_unclaimable_request settles the attempt, lets it go and leaves the
\* completion of the job for the next transaction.
LEMMA UnclaimableSafe ==
  ASSUME DispatchInv, NEW r \in Reqs, AcquireUnclaimable(r)
  PROVE  /\ DispatchInv' /\ ResultsStick
         /\ SessionInv => SessionInv'
         /\ ClaimInv => ClaimInv'
<1>1. JobsTyped' /\ ReqsTyped'
  BY DEF AcquireUnclaimable, JobsTyped, ReqsTyped, DispatchInv, TypeOK, Verdicts, jobVars
<1>2. QueueMatchesStatus'
  BY DEF AcquireUnclaimable, QueueMatchesStatus, DispatchInv, TypeOK, jobVars
<1>3. \A q \in Reqs : result'[q] = "null" => result[q] = "null"
  BY DEF AcquireUnclaimable, DispatchInv, TypeOK
<1>4. OneLiveAttempt' /\ RowsKept
  BY <1>3, SettlingKeepsOne DEF AcquireUnclaimable, RowsKept, DispatchInv
<1>5. ResultsStick
  BY DEF AcquireUnclaimable, Live, ResultsStick, QueueMatchesStatus, Verdicts,
         DispatchInv, TypeOK, jobVars
<1>6. RestTyped' /\ TasksNameAttempts'
  BY DEF AcquireUnclaimable, Live, RestTyped, TasksNameAttempts, DispatchInv, TypeOK
<1>7. DispatchInv'
  BY <1>1, <1>2, <1>4, <1>6 DEF JobsTyped, ReqsTyped, RestTyped, TypeOK, DispatchInv
<1>8. BindingsKept
  BY DEF AcquireUnclaimable, BindingsKept, Live, DispatchInv, TypeOK
<1>9. ASSUME ClaimInv, NEW j \in Jobs PROVE Backed(j)'
  <2>1. CASE reqJob[r] = j
    BY <2>1 DEF AcquireUnclaimable, Backed, Completing
  <2>2. CASE reqJob[r] # j
    <3>1. Completing(j)' <=> Completing(j)
      BY <2>2 DEF AcquireUnclaimable, Completing
    <3>2. JobKept(j)
      BY <2>2, <3>1 DEF AcquireUnclaimable, JobKept, jobVars, DispatchInv, TypeOK
    <3> QED
      BY <1>9, <3>2, KeptStaysBacked DEF ClaimInv
  <2> QED
    BY <2>1, <2>2
<1>10. ClaimInv => ClaimInv'
  BY <1>9 DEF ClaimInv, OneSweep, AcquireUnclaimable
<1> QED
  BY <1>5, <1>7, <1>8, <1>10, LettingGoKeepsSessions

\* Every step of the composition keeps what the control plane relies on.
LEMMA ControlStep ==
  ASSUME ListenerInv, DispatchInv, SessionInv, [RNext]_rvars
  PROVE  /\ DispatchInv' /\ SessionInv' /\ (ResultsStick \/ UNCHANGED vars)
         /\ ~LoseCompletions /\ ClaimInv => ClaimInv'
<1>1. CASE [Next]_vars
  <2>1. DispatchInv' /\ (ResultsStick \/ UNCHANGED vars)
    BY <1>1, InvInductive, StepInv DEF StepSafe
  <2> QED
    BY <1>1, <2>1, SessionStep, ClaimStep
<1>2. CASE \E r \in Reqs : FirstRenewal(r) \/ AcquireUnclaimable(r)
  BY <1>2, FirstRenewalSafe, UnclaimableSafe
<1> QED
  BY <1>1, <1>2, ServerHalf
-----------------------------------------------------------------------------
\* Attempts and the process

\* A step that mints nothing, hands nothing out and at most settles attempts.
Settling ==
  /\ reqJob' = reqJob /\ owner' = owner
  /\ \A j \in Jobs : queue'[j] = "ready" => queue[j] = "ready"
  /\ \A r \in Reqs : result'[r] = "null" => result[r] = "null"

\* settle_request_tx is such a step.
LEMMA CompleteNodeSettles ==
  ASSUME DispatchInv, NEW j, NEW r, NEW st \in Verdicts, CompleteNode(j, r, st)
  PROVE  Settling
<1>1. CASE UNCHANGED <<jobVars, reqVars, inbox>>
  BY <1>1 DEF Settling, jobVars, reqVars
<1>2. CASE /\ FinishJobRow(j, Effective(j, st)) /\ SettleRequestsForJob(j, Effective(j, st))
           /\ UNCHANGED <<reqJob, owner, timedOut>>
  <2>1. \A q \in Reqs : result'[q] = "null" => result[q] = "null"
    BY <1>2 DEF SettleRequestsForJob, LiveOf
  <2>2. \A i \in Jobs : queue'[i] = "ready" => queue[i] = "ready"
    BY <1>2 DEF FinishJobRow, DispatchInv, TypeOK
  <2> QED
    BY <1>2, <2>1, <2>2 DEF Settling
<1> QED
  BY <1>1, <1>2 DEF CompleteNode

\* Only a poll that claims and a restart do more.
LEMMA StepSettles ==
  ASSUME DispatchInv, [RNext]_rvars
  PROVE  Settling \/ ServerRestarts \/ \E j \in Jobs : AnswerJob(j)
<1> DEFINE Half == Settling \/ ServerRestarts \/ \E j \in Jobs : AnswerJob(j)
<1>1. ASSUME UNCHANGED vars PROVE Settling
  BY <1>1 DEF vars, Settling, jobVars, reqVars
<1>2. ASSUME NEW r \in Reqs, NEW st \in Verdicts, BrokerCompleteJob(Me, r, st) PROVE Settling
  BY <1>2, CompleteNodeSettles DEF BrokerCompleteJob
<1>3. {"success", "failure", "cancelled"} = Verdicts
  BY DEF Verdicts
<1>4. ASSUME NEW r \in Reqs, NEW st \in Verdicts, ForceFail(r, st) PROVE Settling
  BY <1>1, <1>2, <1>4 DEF ForceFail
<1>5. ASSUME CreateSession PROVE Settling
  BY <1>5 DEF CreateSession, OpenRunnerSession, Settling, jobVars, reqVars
<1>6. ASSUME AnswerCancel PROVE Settling
  BY <1>6 DEF AnswerCancel, PollCancel, Settling, jobVars
<1>7. ASSUME NEW r \in Reqs, FirstRenewal(r) PROVE Settling
  BY <1>7 DEF FirstRenewal, Settling, jobVars
<1>8. ASSUME NEW r \in Reqs, RenewLoop(r) PROVE Settling
  BY <1>8 DEF RenewLoop, RenewBrokerRequest, Settling, jobVars
<1>9. ASSUME NEW r \in Reqs, ReportCompletion(r) PROVE Settling
  <2>1. Conclusions(r) \subseteq Verdicts
    BY <1>3 DEF Conclusions
  <2> QED
    BY <1>1, <1>2, <1>9, <2>1 DEF ReportCompletion
<1>10. ASSUME NEW r \in Reqs, WorkerExited(r) PROVE Settling
  BY <1>1, <1>3, <1>4, <1>10 DEF WorkerExited
<1>11. ASSUME NEW r \in Reqs, DrainExpires(r) PROVE Settling
  BY <1>3, <1>4, <1>11 DEF DrainExpires
<1>12. ASSUME Ending PROVE Settling
  <2>1. CASE CloseRunnerSession(cur)
    BY <2>1 DEF CloseRunnerSession, Settling, jobVars
  <2> QED
    BY <1>1, <1>12, <2>1 DEF Ending
<1>13. ASSUME MachineDies PROVE Settling
  BY <1>13 DEF MachineDies, Die, Settling, jobVars, reqVars
<1>14. ASSUME NEW r \in Reqs, AcquireUnclaimable(r) PROVE Settling
  BY <1>14 DEF AcquireUnclaimable, Settling, jobVars, DispatchInv, TypeOK
<1>15. ASSUME ServerSteps PROVE Settling
  <2>1. ASSUME RegisterRunner(Me) PROVE Settling
    BY <2>1 DEF RegisterRunner, Settling, jobVars, reqVars
  <2>2. ASSUME NEW r \in Reqs, LeaseAges(r) PROVE Settling
    BY <2>2 DEF LeaseAges, Settling, jobVars
  <2>3. ASSUME NEW r \in Reqs, PatchComplete(r) PROVE Settling
    <3>1. result[r] \in Verdicts
      BY <2>3 DEF PatchComplete, DispatchInv, TypeOK, TasksNameAttempts
    <3> QED
      BY <2>3, <3>1, CompleteNodeSettles DEF PatchComplete
  <2>4. ASSUME NEW r \in Reqs, ReapComplete(r) PROVE Settling
    BY <1>3, <2>4, CompleteNodeSettles DEF ReapComplete
  <2>5. ASSUME NEW j \in Jobs, CancelJob(j) PROVE Settling
    BY <2>5 DEF CancelJob, FinishJobRow, Settling, DispatchInv, TypeOK
  <2>6. ASSUME ReaperLooks PROVE Settling
    BY <2>6 DEF ReaperLooks, ReapInputs, Settling, jobVars, reqVars
  <2>7. ASSUME ReapSweep PROVE Settling
    <3>1. /\ \A q \in Reqs : result'[q] = "null" => result[q] = "null"
          /\ reqJob' = reqJob /\ owner' = owner
      BY <2>7 DEF ReapSweep
    <3>2. \A i \in Jobs : queue'[i] = "ready" => queue[i] = "ready"
      BY <2>7 DEF ReapSweep, StarveJobs
    <3> QED
      BY <3>1, <3>2 DEF Settling
  <2> QED
    BY <1>15, <2>1, <2>2, <2>3, <2>4, <2>5, <2>6, <2>7 DEF ServerSteps
<1>16. ASSUME \/ StartPoll \/ AnswerInflight \/ AnswerEmpty \/ PollFails \/ BackoffEnds
              \/ TokenExpired \/ DropRepeated \/ AcquireFails \/ GraceRuns \/ KillTimer
              \/ Shutdown \/ ListenerDies
              \/ \E r \in Reqs : ReceiveJob(r) \/ ReceiveCancel(r) \/ Acquire(r) \/ WorkerCrashes(r)
       PROVE  UNCHANGED vars
  BY <1>16 DEF StartPoll, AnswerInflight, AnswerEmpty, PollFails, BackoffEnds, TokenExpired,
               DropRepeated, AcquireFails, GraceRuns, KillTimer, Shutdown, ListenerDies,
               ReceiveJob, ReceiveCancel, Acquire, WorkerCrashes
<1>17. ASSUME UNCHANGED rvars PROVE UNCHANGED vars
  BY <1>17 DEF rvars
<1>18. ASSUME RNext PROVE Half
  BY <1>1, <1>5, <1>6, <1>7, <1>8, <1>9, <1>10, <1>11, <1>12, <1>13, <1>14, <1>15, <1>16, <1>18
     DEF RNext
<1> QED
  BY <1>1, <1>17, <1>18

\* reconcile_on_boot takes an attempt from its owner only when it settles it,
\* and the attempts it mints are nobody's.
LEMMA RestartReleases ==
  ASSUME DispatchInv, SessionInv, Restart
  PROVE  /\ \A r \in Reqs : \/ owner'[r] = owner[r]
                            \/ owner'[r] = None /\ result'[r] # "null"
         /\ \A j \in Jobs : queue'[j] = "ready" =>
              \/ queue[j] = "ready" /\ \A r \in LiveOf(j)' : r \in LiveOf(j)
              \/ \A r \in LiveOf(j)' : reqJob[r] = None /\ owner'[r] = None
<1> DEFINE K == {i \in OrphanedJobs : LiveOf(i) # {}}
           retired == Retired(K)
           released == Disowned(retired, {})
<1>1. /\ ExistsInjection(K, Unused)
      /\ queue' = [i \in Jobs |-> IF i \in OrphanedJobs THEN "ready" ELSE queue[i]]
      /\ reqJob' = [r \in Reqs |-> MintedJob(Mint(K), K, r)]
      /\ result' = [r \in Reqs |-> IF r \in retired THEN "cancelled"
                                   ELSE IF r \in OrphanedClaims THEN status[reqJob[r]]
                                   ELSE result[r]]
      /\ owner' = [r \in Reqs |-> IF r \in released THEN None ELSE owner[r]]
  BY DEF Restart, Requeue
<1>2. K \in SUBSET Jobs /\ K \subseteq OrphanedJobs /\ \A i \in OrphanedJobs : LiveOf(i) # {} => i \in K
  BY DEF OrphanedJobs
<1>3. \A r \in Reqs : /\ r \in retired <=> Live(r) /\ reqJob[r] \in K
                      /\ r \in released <=> r \in retired
  BY DEF Disowned, Retired
<1>4. \A r \in OrphanedClaims : status[reqJob[r]] # "null"
  BY DEF OrphanedClaims, Verdicts
<1> HIDE DEF K, retired, released
<1>5. \A r \in Reqs : /\ reqJob[r] # None => reqJob'[r] = reqJob[r]
                      /\ reqJob'[r] # reqJob[r] => reqJob'[r] \in K
  BY <1>1, <1>2, MintedJobIs DEF DispatchInv
<1>6. \A r \in Reqs : \/ owner'[r] = owner[r]
                      \/ owner'[r] = None /\ result'[r] # "null"
  BY <1>1, <1>3
<1>7. \A r \in Reqs : result'[r] = "null" => result[r] = "null" /\ r \notin retired
  BY <1>1, <1>4
<1>8. ASSUME NEW j \in Jobs, queue'[j] = "ready", j \notin OrphanedJobs
      PROVE  queue[j] = "ready" /\ \A r \in LiveOf(j)' : r \in LiveOf(j)
  BY <1>1, <1>2, <1>5, <1>7, <1>8 DEF LiveOf
<1>9. ASSUME NEW j \in OrphanedJobs, NEW r \in LiveOf(j)' PROVE reqJob[r] = None /\ owner'[r] = None
  <2>1. r \in Reqs /\ reqJob'[r] = j /\ result[r] = "null" /\ r \notin retired
    BY <1>7 DEF LiveOf
  <2>2. j \in Jobs /\ j # None
    BY DispatchAssumption DEF OrphanedJobs
  <2>3. reqJob[r] = None
    <3> SUFFICES ASSUME reqJob[r] # None PROVE FALSE
      OBVIOUS
    <3>1. reqJob[r] = j /\ r \in LiveOf(j)
      BY <1>5, <2>1 DEF LiveOf
    <3>2. Live(r) /\ reqJob[r] \in K
      BY <1>2, <2>1, <2>2, <3>1 DEF Live
    <3> QED
      BY <1>3, <2>1, <3>2
  <2> QED
    BY <1>1, <1>3, <2>1, <2>3 DEF SessionInv, UnusedBare
<1> QED
  BY <1>1, <1>6, <1>8, <1>9

\* At first nothing is handed out.
LEMMA InitAttempts == RInit => AttemptInv
BY RunnerAssumption DEF RInit, Init, AttemptInv, Handed, LiveOf

\* Only a claim adds an attempt to those handed out, and only an acquire
\* spawns a worker: for the job reference it holds.
LEMMA HandedStep ==
  ASSUME ListenerInv, [RNext]_rvars, ~\E j \in Jobs : AnswerJob(j),
         \A r \in Reqs : answer = <<"job", r>> => worker[r] = "none"
  PROVE  \A r \in Reqs : /\ Handed(r)' => Handed(r)
                         /\ answer' = <<"job", r>> => answer = <<"job", r>> /\ worker'[r] = worker[r]
                         /\ worker[r] # "none" /\ worker'[r] = "gate" => worker[r] = "gate"
<1> DEFINE Kept(r) == /\ Handed(r)' => Handed(r)
                      /\ answer' = <<"job", r>> => answer = <<"job", r>> /\ worker'[r] = worker[r]
                      /\ worker[r] # "none" /\ worker'[r] = "gate" => worker[r] = "gate"
<1> SUFFICES ASSUME NEW r \in Reqs PROVE Kept(r)
  OBVIOUS
<1>1. None # <<"job", r>> /\ \A q : <<"cancel", q>> # <<"job", r>>
  BY RunnerAssumption
<1>2. worker \in [Reqs -> WorkerStates]
  BY DEF ListenerInv, Whereabouts
<1>3. ASSUME UNCHANGED worker, answer' # <<"job", r>> \/ answer' = answer PROVE Kept(r)
  BY <1>3 DEF Handed
<1>4. ASSUME \/ StartPoll \/ AnswerEmpty \/ BackoffEnds \/ TokenExpired \/ CreateSession
             \/ GraceRuns \/ ServerRestarts \/ ServerSteps \/ UNCHANGED lisVars
             \/ \E q \in Reqs : ReceiveJob(q) \/ RenewLoop(q)
      PROVE  Kept(r)
  <2>1. UNCHANGED <<worker, answer>>
    BY <1>4 DEF StartPoll, AnswerEmpty, BackoffEnds, TokenExpired, CreateSession, GraceRuns,
                ServerRestarts, ServerSteps, lisVars, ReceiveJob, RenewLoop
  <2> QED
    BY <1>3, <2>1
<1>5. ASSUME \/ PollFails \/ DropRepeated \/ AcquireFails \/ Shutdown \/ ListenerDies
             \/ \E q \in Reqs : ReceiveCancel(q) \/ AcquireUnclaimable(q)
      PROVE  Kept(r)
  <2>1. worker' = worker /\ answer' = None
    BY <1>5 DEF PollFails, DropRepeated, AcquireFails, Shutdown, ListenerDies,
                ReceiveCancel, AcquireUnclaimable
  <2> QED
    BY <1>1, <1>3, <2>1
<1>6. ASSUME Ending PROVE Kept(r)
  BY <1>3, <1>6 DEF Ending
<1>7. ASSUME AnswerCancel \/ AnswerInflight PROVE Kept(r)
  <2>1. worker' = worker /\ \E q : answer' = <<"cancel", q>>
    BY <1>7 DEF AnswerCancel, AnswerInflight
  <2> QED
    BY <1>1, <1>3, <2>1
<1>8. ASSUME NEW q \in Reqs, Acquire(q) PROVE Kept(r)
  BY <1>1, <1>2, <1>8 DEF Acquire, Handed
<1>9. ASSUME NEW q \in Reqs, worker[q] # "none", answer' = None \/ answer' = answer,
             \A p \in Reqs : p # q => worker'[p] = worker[p],
             worker'[q] # "gate"
      PROVE  Kept(r)
  BY <1>1, <1>9 DEF Handed
<1>10. ASSUME NEW q \in Reqs, FirstRenewal(q) PROVE Kept(r)
  BY <1>2, <1>9, <1>10 DEF FirstRenewal
<1>11. ASSUME NEW q \in Reqs, ReportCompletion(q) PROVE Kept(r)
  <2>1. PICK e \in {"acked", "unacked"} : worker' = Leaves(q, e)
    BY <1>11 DEF ReportCompletion
  <2> QED
    BY <1>2, <1>9, <1>11, <2>1 DEF ReportCompletion, Leaves, Executing
<1>12. ASSUME NEW q \in Reqs, WorkerCrashes(q) PROVE Kept(r)
  BY <1>2, <1>9, <1>12 DEF WorkerCrashes, Leaves, Executing
<1>13. ASSUME NEW q \in Reqs, WorkerExited(q) PROVE Kept(r)
  BY <1>2, <1>9, <1>13 DEF WorkerExited, Exits
<1>14. ASSUME KillTimer PROVE Kept(r)
  <2>1. /\ worker'[r] = worker[r] \/ (worker[r] \in Executing /\ worker'[r] = "crashed")
        /\ answer' = answer
    BY <1>2, <1>14 DEF KillTimer
  <2> QED
    BY <2>1 DEF Handed, Executing
<1>15. ASSUME MachineDies PROVE Kept(r)
  BY <1>1, <1>15 DEF MachineDies, Handed
<1>16. ASSUME NEW q \in Reqs, DrainExpires(q) PROVE Kept(r)
  <2>1. worker[q] # "none"
    BY <1>16 DEF DrainExpires, ListenerInv, OneAtATime
  <2> QED
    BY <1>2, <1>9, <1>16, <2>1 DEF DrainExpires
<1> HIDE DEF Kept
<1>17. ASSUME UNCHANGED rvars PROVE Kept(r)
  BY <1>4, <1>17 DEF rvars
<1>18. ASSUME RNext PROVE Kept(r)
  BY <1>4, <1>5, <1>6, <1>7, <1>8, <1>10, <1>11, <1>12, <1>13, <1>14, <1>15, <1>16, <1>18
     DEF RNext
<1> QED
  BY <1>17, <1>18
\* Every step keeps the process and the tables in agreement, and spawns no
\* second worker for an attempt.
LEMMA AttemptStep ==
  ASSUME ListenerInv, DispatchInv, SessionInv, AttemptInv, [RNext]_rvars
  PROVE  AttemptInv' /\ SpawnsOnce
<1> DEFINE Owned(r) == reqJob[r] # None /\ (result[r] # "null" \/ owner[r] # None)
           Free(j) == queue[j] = "ready" => \A r \in LiveOf(j) : owner[r] = None
<1>1. /\ \A r \in Reqs : answer = <<"job", r>> => worker[r] = "none"
      /\ \A r \in Reqs : Handed(r) => Owned(r)
      /\ \A j \in Jobs : Free(j)
  BY DEF AttemptInv
<1>2. \A r \in Reqs : /\ reqJob[r] # None => reqJob'[r] # None
                      /\ result[r] # "null" => result'[r] # "null"
  <2>1. CASE [Next]_vars
    BY <2>1, StepInv DEF StepSafe, RowsKept, ResultsStick
  <2>2. CASE \E r \in Reqs : FirstRenewal(r) \/ AcquireUnclaimable(r)
    <3>1. reqJob' = reqJob
      BY <2>2 DEF FirstRenewal, AcquireUnclaimable
    <3> QED
      BY <2>2, <3>1, FirstRenewalSafe, UnclaimableSafe DEF ResultsStick
  <2> QED
    BY <2>1, <2>2, ServerHalf
<1>3. CASE \E j \in Jobs : AnswerJob(j)
  <2>1. PICK j \in Jobs : AnswerJob(j)
    BY <1>3
  <2>2. PICK q \in LiveOf(j) : answer' = <<"job", q>>
    BY <2>1 DEF AnswerJob
  <2>3. /\ worker' = worker /\ reqJob' = reqJob /\ result' = result
        /\ queue[j] = "ready" /\ queue' = [queue EXCEPT ![j] = "claimed"]
        /\ sessRunner[cur] # None
        /\ owner' = [r \in Reqs |-> IF r \in LiveOf(j) THEN sessRunner[cur] ELSE owner[r]]
    BY <2>1 DEF AnswerJob, PollClaim, ClaimOne, Polls
  <2>4. q \in Reqs /\ reqJob[q] = j /\ j # None /\ owner[q] = None /\ result[q] = "null"
    BY <1>1, <2>3, DispatchAssumption DEF LiveOf
  <2>5. worker[q] = "none"
    BY <1>1, <2>4 DEF Handed
  <2>6. \A r \in Reqs : answer' = <<"job", r>> => r = q
    BY <2>2
  <2>7. ASSUME NEW r \in Reqs, Handed(r)' PROVE Owned(r)'
    <3>1. CASE r = q
      BY <2>3, <2>4, <3>1
    <3>2. CASE worker[r] # "none"
      BY <1>1, <2>3, <3>2 DEF Handed
    <3> QED
      BY <2>3, <2>6, <2>7, <3>1, <3>2 DEF Handed
  <2>8. ASSUME NEW i \in Jobs, queue'[i] = "ready", NEW r \in LiveOf(i)' PROVE owner'[r] = None
    <3>1. i # j /\ queue[i] = "ready"
      BY <2>3, <2>8 DEF DispatchInv, TypeOK
    <3>2. r \in LiveOf(i) /\ r \notin LiveOf(j) /\ r \in Reqs
      BY <2>3, <3>1 DEF LiveOf
    <3> QED
      BY <1>1, <2>3, <3>1, <3>2
  <2> QED
    BY <2>3, <2>5, <2>6, <2>7, <2>8 DEF AttemptInv, SpawnsOnce
<1>4. CASE ~\E j \in Jobs : AnswerJob(j)
  <2>1. \A r \in Reqs : /\ Handed(r)' => Handed(r)
                        /\ answer' = <<"job", r>> => answer = <<"job", r>> /\ worker'[r] = worker[r]
                        /\ worker[r] # "none" /\ worker'[r] = "gate" => worker[r] = "gate"
    BY <1>1, <1>4, HandedStep
  <2>2. CASE Settling
    <3>1. ASSUME NEW r \in Reqs, Handed(r)' PROVE Owned(r)'
      BY <1>1, <1>2, <2>1, <2>2, <3>1 DEF Settling
    <3>2. ASSUME NEW j \in Jobs, queue'[j] = "ready", NEW r \in LiveOf(j)' PROVE owner'[r] = None
      <4>1. queue[j] = "ready" /\ r \in LiveOf(j) /\ owner'[r] = owner[r]
        BY <2>2, <3>2 DEF Settling, LiveOf
      <4> QED
        BY <1>1, <4>1
    <3> QED
      BY <1>1, <2>1, <3>1, <3>2 DEF AttemptInv, SpawnsOnce
  <2>3. CASE ServerRestarts
    <3>1. Restart
      BY <2>3 DEF ServerRestarts
    <3>2. ASSUME NEW r \in Reqs, Handed(r)' PROVE Owned(r)'
      <4>1. Owned(r)
        BY <1>1, <2>1, <3>2
      <4>2. owner'[r] = owner[r] \/ result'[r] # "null"
        BY <3>1, RestartReleases
      <4> QED
        BY <1>2, <4>1, <4>2
    <3>3. ASSUME NEW j \in Jobs, queue'[j] = "ready", NEW r \in LiveOf(j)' PROVE owner'[r] = None
      <4>1. \/ queue[j] = "ready" /\ r \in LiveOf(j)
            \/ owner'[r] = None
        BY <3>1, <3>3, RestartReleases
      <4>2. r \in Reqs
        BY DEF LiveOf
      <4>3. owner'[r] = owner[r] \/ owner'[r] = None
        BY <3>1, <4>2, RestartReleases
      <4> QED
        BY <1>1, <4>1, <4>3
    <3> QED
      BY <1>1, <2>1, <3>2, <3>3 DEF AttemptInv, SpawnsOnce
  <2> QED
    BY <1>4, <2>2, <2>3, StepSettles
<1> QED
  BY <1>3, <1>4

-----------------------------------------------------------------------------
\* The theorems

\* The invariants of the two halves and of what they share.
RunnerInv == ListenerInv /\ DispatchInv /\ SessionInv /\ AttemptInv

(* With a real listener and its workers in the place of a runner that does  *)
(* anything, the control plane keeps its invariants, the acquire that the   *)
(* server refuses and settles itself included, and so does the listener,    *)
(* across lost answers, new sessions, crashes and restarts.                 *)
THEOREM RunnerInvHolds == RSpec => []RunnerInv
<1>1. RInit => RunnerInv
  BY InitListener, InitAttempts, InitInv, InitSessions DEF RInit, RunnerInv
<1>2. RunnerInv /\ [RNext]_rvars => RunnerInv'
  BY ListenerStep, ControlStep, AttemptStep DEF RunnerInv
<1> QED
  BY <1>1, <1>2, PTL DEF RSpec

(* A runner takes one job at a time and a single-use runner one in all: a   *)
(* poll claims for it only while no worker process of it is alive.          *)
THEOREM TakesOneJob == RSpec => ClaimsOnlyWhenFree
<1>1. RunnerInv /\ [RNext]_rvars =>
        [\A r \in Reqs : owner[r] # Me /\ owner'[r] = Me =>
           /\ \A q \in Reqs : worker[q] \in {"none", "done"}
           /\ once => \A q \in Reqs : worker[q] = "none"]_rvars
  <2> SUFFICES ASSUME RunnerInv, [RNext]_rvars, NEW r \in Reqs, owner[r] # Me, owner'[r] = Me
               PROVE  /\ \A q \in Reqs : worker[q] \in {"none", "done"}
                      /\ once => \A q \in Reqs : worker[q] = "none"
    OBVIOUS
  <2>1. Me # None /\ None \notin Reqs
    BY RunnerAssumption, DispatchAssumption
  <2>2. ~Settling
    BY DEF Settling
  <2>3. ~ServerRestarts
    BY <2>1, RestartReleases DEF ServerRestarts, RunnerInv
  <2>4. PICK j \in Jobs : AnswerJob(j)
    BY <2>2, <2>3, StepSettles DEF RunnerInv
  <2>5. poll = "online"
    BY <2>4 DEF AnswerJob, Dispatches
  <2> QED
    BY <2>1, <2>5 DEF RunnerInv, ListenerInv, Whereabouts, OneAtATime, Over
<1> QED
  BY <1>1, RunnerInvHolds, PTL DEF RSpec, ClaimsOnlyWhenFree

(* No job reaches a listener whose worker is active: the branch of          *)
(* run_broker_loop that would cancel or kill the running one is dead.       *)
THEOREM JobsArriveFree == RSpec => []NoOverlap
<1>1. RunnerInv => NoOverlap
  <2> SUFFICES ASSUME RunnerInv, NEW r \in Reqs, answer = <<"job", r>> PROVE active = None
    BY DEF NoOverlap
  <2>1. answer # None /\ answer[1] = "job"
    BY RunnerAssumption
  <2> QED
    BY <2>1 DEF RunnerInv, ListenerInv, OneAtATime
<1> QED
  BY <1>1, RunnerInvHolds, PTL

(* An attempt is executed at most once, whatever answers are lost, messages *)
(* repeated, sessions renewed or servers restarted.                         *)
THEOREM AttemptsRunOnce == RSpec => ExecutedOnce
<1>1. RunnerInv /\ [RNext]_rvars => [SpawnsOnce]_rvars
  BY AttemptStep DEF RunnerInv
<1> QED
  BY <1>1, RunnerInvHolds, PTL DEF RSpec, ExecutedOnce

(* With a real listener, too, every job to be run is backed by an attempt   *)
(* in flight and its attempts are fenced, unless a completion is lost.      *)
THEOREM RunnerClaimsHold ==
  ASSUME ~LoseCompletions
  PROVE  RSpec => []ClaimInv
<1>1. RInit => ClaimInv
  BY InitClaims DEF RInit
<1>2. RunnerInv /\ ClaimInv /\ [RNext]_rvars => ClaimInv'
  BY ControlStep DEF RunnerInv
<1> QED
  BY <1>1, <1>2, RunnerInvHolds, PTL DEF RSpec

(* So a claim that its runner lost the answer to, or dropped, keeps the     *)
(* lease by which the reaper finds it, and a worker that outlives its claim *)
(* can no longer settle the job.                                            *)
THEOREM RunnerLeavesNothing ==
  ASSUME ~LoseCompletions
  PROVE  RSpec => [](NoStrandedJob /\ OnlyClaimantReports)
<1>1. RunnerInv /\ ClaimInv => NoStrandedJob /\ OnlyClaimantReports
  BY BackedIsNotStranded, BackedIsFenced DEF RunnerInv
<1> QED
  BY <1>1, RunnerInvHolds, RunnerClaimsHold, PTL
=============================================================================
