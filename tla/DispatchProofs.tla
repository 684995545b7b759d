--------------------------- MODULE DispatchProofs ---------------------------
(***************************************************************************)
(* Proofs about Dispatch for every set of jobs, runners, sessions and       *)
(* attempts, along three inductive invariants.  DispatchInv adds to the     *)
(* types what the handlers rely on without checking it: the queue slot of a *)
(* job agrees with its status, a task in flight names an attempt that       *)
(* exists (and that is stamped, for the PATCH), and a job has one attempt   *)
(* in flight.  SessionInv adds that rows not handed out are blank, and from *)
(* it that sessions hold one attempt and hear only of that one.  ClaimInv,  *)
(* which needs every completion to be carried out, says which attempts      *)
(* stand behind a job that is still to be run.                              *)
(***************************************************************************)
EXTENDS Dispatch, TLAPS

QueueMatchesStatus ==
  \A j \in Jobs : /\ queue[j] = "ready" => status[j] = "queued"
                  /\ queue[j] = "claimed" => status[j] = "in_progress"

TasksNameAttempts ==
  /\ \A r \in snap.timeouts \cup snap.expired \cup reaping \cup patched : reqJob[r] # None
  /\ \A r \in patched : result[r] # "null"

DispatchInv ==
  TypeOK /\ QueueMatchesStatus /\ TasksNameAttempts /\ OneLiveAttempt

-----------------------------------------------------------------------------
\* Minting attempts

\* insert_attempt hands every requeued job a row of its own that was unused.
LEMMA MintInjects ==
  ASSUME NEW K, ExistsInjection(K, Unused)
  PROVE  /\ Mint(K) \in [K -> Unused]
         /\ \A i, j \in K : Mint(K)[i] = Mint(K)[j] => i = j
<1>1. \E f \in Injection(K, Unused) : TRUE
  BY DEF ExistsInjection
<1>2. Mint(K) \in Injection(K, Unused)
  BY <1>1 DEF Mint
<1> QED
  BY <1>2 DEF Injection, IsInjective

\* A row that exists keeps its job; a row that is minted gets one of K.
LEMMA MintedJobIs ==
  ASSUME TypeOK, NEW K \in SUBSET Jobs, ExistsInjection(K, Unused), NEW r \in Reqs
  PROVE  /\ MintedJob(Mint(K), K, r) \in Jobs \cup {None}
         /\ reqJob[r] # None => MintedJob(Mint(K), K, r) = reqJob[r]
         /\ MintedJob(Mint(K), K, r) # reqJob[r] =>
              /\ MintedJob(Mint(K), K, r) \in K
              /\ Mint(K)[MintedJob(Mint(K), K, r)] = r
<1> DEFINE f == Mint(K)
<1>1. f \in [K -> Unused]
  BY MintInjects
<1> HIDE DEF f
<1>2. CASE \E j \in K : f[j] = r
  <2>1. PICK j \in K : f[j] = r
    BY <1>2
  <2>2. reqJob[r] = None
    BY <1>1, <2>1 DEF Unused
  <2>3. MintedJob(f, K, r) \in K /\ f[MintedJob(f, K, r)] = r
    BY <1>2 DEF MintedJob
  <2> QED
    BY <2>2, <2>3 DEF f
<1>3. CASE ~ \E j \in K : f[j] = r
  <2>1. MintedJob(f, K, r) = reqJob[r]
    BY <1>3 DEF MintedJob
  <2>2. reqJob[r] \in Jobs \cup {None}
    BY DEF TypeOK
  <2> QED
    BY <2>1, <2>2 DEF f
<1> QED
  BY <1>2, <1>3

-----------------------------------------------------------------------------
\* What every step guarantees about the rows of jobs and job_requests

JobsTyped ==
  /\ status \in [Jobs -> Statuses]
  /\ queue \in [Jobs -> {"ready", "claimed", "none"}]
  /\ claimedBy \in [Jobs -> Runners \cup {None}]

ReqsTyped ==
  /\ reqJob \in [Reqs -> Jobs \cup {None}]
  /\ result \in [Reqs -> Verdicts \cup {"null"}]
  /\ owner \in [Reqs -> Runners \cup {None}]
  /\ bound \in [Reqs -> Sessions \cup {None}]
  /\ timedOut \in [Reqs -> BOOLEAN]
  /\ lease \in [Reqs -> {"none", "fresh", "stale"}]
  /\ cancels \subseteq Reqs

RestTyped ==
  /\ inbox \in [Sessions -> SUBSET Reqs]
  /\ sessRunner \in [Sessions -> Runners \cup {None}]
  /\ runners \subseteq Runners
  /\ gone \subseteq Runners
  /\ dead \subseteq Runners
  /\ tick \in {"idle", "read"}
  /\ snap \in [ready: SUBSET Jobs, timeouts: SUBSET Reqs, expired: SUBSET Reqs]
  /\ reaping \subseteq Reqs
  /\ patched \subseteq Reqs

RowsKept == \A r \in Reqs : reqJob[r] # None => reqJob'[r] = reqJob[r]

StepSafe ==
  JobsTyped' /\ ReqsTyped' /\ QueueMatchesStatus' /\ OneLiveAttempt' /\ RowsKept /\ ResultsStick

\* A step that mints nothing and only settles attempts keeps one in flight.
LEMMA SettlingKeepsOne ==
  ASSUME TypeOK, OneLiveAttempt, reqJob' = reqJob,
         \A r \in Reqs : result'[r] = "null" => result[r] = "null"
  PROVE  OneLiveAttempt'
BY DEF OneLiveAttempt, Live

\* settle_node and settle_request_tx, whoever calls them.
LEMMA CompleteNodeSafe ==
  ASSUME DispatchInv, NEW j \in Jobs, NEW r \in Reqs, NEW st \in Verdicts,
         CompleteNode(j, r, st)
  PROVE  StepSafe /\ reqJob' = reqJob /\ inbox' \in [Sessions -> SUBSET Reqs]
<1> USE DEF DispatchInv
<1>1. CASE Replayed(j) /\ UNCHANGED <<jobVars, reqVars, inbox>>
  BY <1>1, SettlingKeepsOne
     DEF StepSafe, JobsTyped, ReqsTyped, QueueMatchesStatus, RowsKept, ResultsStick,
         TypeOK, jobVars, reqVars, Statuses, Verdicts
<1>2. CASE ~Replayed(j) /\ UNCHANGED <<reqJob, owner, timedOut>>
  <2>1. Effective(j, st) \in Verdicts
    BY DEF Effective, Verdicts
  <2>2. status[j] \in Verdicts => Effective(j, st) = status[j]
    BY <1>2 DEF Replayed, Effective, Verdicts
  <2>3. LiveOf(j) \subseteq Reqs /\ \A q \in LiveOf(j) : result[q] = "null"
    BY DEF LiveOf
  <2>4. /\ status' = [status EXCEPT ![j] = Effective(j, st)]
        /\ queue' = [queue EXCEPT ![j] = "none"]
        /\ claimedBy' = [claimedBy EXCEPT ![j] = None]
        /\ result' = [q \in Reqs |-> IF q \in LiveOf(j) THEN Effective(j, st) ELSE result[q]]
        /\ lease' = [q \in Reqs |-> IF q \in LiveOf(j) THEN "none" ELSE lease[q]]
        /\ bound' = [bound EXCEPT ![r] = None]
        /\ cancels' = cancels \ Moot(j, r)
        /\ inbox' = [s \in Sessions |-> inbox[s] \ Moot(j, r)]
    BY <1>2 DEF CompleteNode, FinishJobRow, SettleRequestsForJob
  <2>5. JobsTyped'
    BY <2>1, <2>4 DEF JobsTyped, TypeOK, Statuses
  <2>6. ReqsTyped'
    BY <1>2, <2>1, <2>4 DEF ReqsTyped, TypeOK
  <2>7. QueueMatchesStatus'
    BY <2>4 DEF QueueMatchesStatus, TypeOK
  <2>8. OneLiveAttempt'
    BY <1>2, <2>1, <2>4, SettlingKeepsOne DEF Verdicts
  <2>9. ResultsStick
    <3>1. \A i \in Jobs : status[i] \in Verdicts => queue[i] = "none"
      BY DEF QueueMatchesStatus, TypeOK, Verdicts
    <3>2. \A i \in Jobs : status[i] \in Verdicts => status'[i] = status[i] /\ queue'[i] = "none"
      BY <2>2, <2>4, <3>1 DEF TypeOK
    <3> QED
      BY <2>3, <2>4, <3>2 DEF ResultsStick
  <2>10. inbox' \in [Sessions -> SUBSET Reqs]
    BY <2>4 DEF TypeOK
  <2> QED
    BY <1>2, <2>5, <2>6, <2>7, <2>8, <2>9, <2>10 DEF StepSafe, RowsKept
<1> QED
  BY <1>1, <1>2 DEF CompleteNode

\* requeue_claimed, for the claimed jobs J of a purge or a restart.
LEMMA RequeueSafe ==
  ASSUME DispatchInv,
         NEW J \in SUBSET Jobs, \A j \in J : queue[j] = "claimed",
         NEW U \in SUBSET Reqs,
         NEW T \in SUBSET Reqs,
         \A r \in T : Live(r) /\ status[reqJob[r]] \in Verdicts,
         Requeue(J, U, T)
  PROVE  StepSafe
<1> USE DEF DispatchInv
<1> DEFINE K == {j \in J : LiveOf(j) # {}}
           retired == Retired(K)
           released == Disowned(retired, U)
<1>0. /\ ExistsInjection(K, Unused)
      /\ status' = [j \in Jobs |-> IF j \in J THEN "queued" ELSE status[j]]
      /\ queue' = [j \in Jobs |-> IF j \in J THEN "ready" ELSE queue[j]]
      /\ claimedBy' = [j \in Jobs |-> IF j \in J THEN None ELSE claimedBy[j]]
      /\ reqJob' = [r \in Reqs |-> MintedJob(Mint(K), K, r)]
      /\ result' = [r \in Reqs |-> IF r \in retired THEN "cancelled"
                                   ELSE IF r \in T THEN status[reqJob[r]]
                                   ELSE result[r]]
      /\ owner' = [r \in Reqs |-> IF r \in released THEN None ELSE owner[r]]
      /\ bound' = [r \in Reqs |-> IF r \in released \cup T THEN None ELSE bound[r]]
      /\ timedOut' = [r \in Reqs |-> timedOut[r] /\ r \notin U]
      /\ lease' = [r \in Reqs |-> IF r \in released \cup T THEN "none" ELSE lease[r]]
      /\ cancels' = cancels \ T
  BY DEF Requeue
<1>1. K \in SUBSET Jobs
  OBVIOUS
<1>2. \A r \in retired : r \in Reqs /\ Live(r)
  BY DEF Retired
<1> HIDE DEF K, retired, released
<1>3. \A r \in Reqs : /\ reqJob'[r] \in Jobs \cup {None}
                      /\ reqJob[r] # None => reqJob'[r] = reqJob[r]
                      /\ reqJob'[r] # reqJob[r] => reqJob'[r] \in K /\ Mint(K)[reqJob'[r]] = r
  BY <1>0, <1>1, MintedJobIs
<1>4. JobsTyped'
  BY <1>0 DEF JobsTyped, TypeOK, Statuses
<1>5. ReqsTyped'
  <2>1. reqJob' \in [Reqs -> Jobs \cup {None}]
    BY <1>0, <1>3
  <2>2. result' \in [Reqs -> Verdicts \cup {"null"}]
    BY <1>0 DEF TypeOK, Verdicts
  <2>3. timedOut' \in [Reqs -> BOOLEAN]
    BY <1>0 DEF TypeOK
  <2>4. /\ owner' \in [Reqs -> Runners \cup {None}]
        /\ bound' \in [Reqs -> Sessions \cup {None}]
        /\ lease' \in [Reqs -> {"none", "fresh", "stale"}]
        /\ cancels' \subseteq Reqs
    BY <1>0 DEF TypeOK
  <2> QED
    BY <2>1, <2>2, <2>3, <2>4 DEF ReqsTyped
<1>6. QueueMatchesStatus'
  BY <1>0 DEF QueueMatchesStatus, TypeOK
<1>7. ResultsStick
  <2>1. \A j \in Jobs : status[j] \in Verdicts => queue[j] = "none"
    BY DEF QueueMatchesStatus, TypeOK, Verdicts
  <2>2. \A j \in Jobs : status[j] \in Verdicts => status'[j] = status[j] /\ queue'[j] = "none"
    BY <1>0, <2>1
  <2>3. \A r \in Reqs : result[r] # "null" => result'[r] = result[r]
    BY <1>0, <1>2 DEF Live
  <2> QED
    BY <2>2, <2>3 DEF ResultsStick
<1>8. OneLiveAttempt'
  <2> SUFFICES ASSUME NEW q \in Reqs, NEW r \in Reqs,
                      reqJob'[q] # None, result'[q] = "null",
                      reqJob'[r] # None, result'[r] = "null",
                      reqJob'[q] = reqJob'[r]
               PROVE  q = r
    BY DEF OneLiveAttempt, Live
  <2>1. \A t \in Reqs : result'[t] = "null" => result[t] = "null"
    BY <1>0 DEF Verdicts
  <2>2. \A t \in Reqs : result'[t] = "null" /\ reqJob[t] # None => reqJob[t] \notin K
    BY <1>0, <2>1 DEF retired, Retired, Live
  <2>3. CASE reqJob'[q] = reqJob[q] /\ reqJob'[r] = reqJob[r]
    BY <2>1, <2>3 DEF OneLiveAttempt, Live
  <2>4. CASE reqJob'[q] # reqJob[q] /\ reqJob'[r] # reqJob[r]
    BY <1>3, <2>4
  <2>5. CASE reqJob'[q] # reqJob[q] /\ reqJob'[r] = reqJob[r]
    BY <1>3, <2>2, <2>5
  <2>6. CASE reqJob'[q] = reqJob[q] /\ reqJob'[r] # reqJob[r]
    <3>1. reqJob[q] # None /\ reqJob[q] = reqJob'[r]
      BY <2>6
    <3>2. reqJob[q] \notin K
      BY <2>2, <3>1
    <3>3. reqJob'[r] \in K
      BY <1>3, <2>6
    <3> QED
      BY <3>1, <3>2, <3>3
  <2> QED
    BY <2>3, <2>4, <2>5, <2>6
<1> QED
  BY <1>3, <1>4, <1>5, <1>6, <1>7, <1>8 DEF StepSafe, RowsKept

-----------------------------------------------------------------------------
\* The invariant is inductive, and every step lets the first result win

\* A fresh queue, one attempt of its own for each job, satisfies the invariant.
LEMMA InitInv == Init => DispatchInv
<1> SUFFICES ASSUME Init PROVE DispatchInv
  OBVIOUS
<1> DEFINE f == CHOOSE g \in Injection(Jobs, Reqs) : TRUE
<1>1. f \in Injection(Jobs, Reqs)
  BY DispatchAssumption DEF ExistsInjection
<1>2. f \in [Jobs -> Reqs]
  BY <1>1 DEF Injection
<1>3. reqJob = [r \in Reqs |-> IF \E j \in Jobs : f[j] = r
                              THEN CHOOSE j \in Jobs : f[j] = r ELSE None]
  BY DEF Init
<1> HIDE DEF f
<1>4. \A r \in Reqs : /\ reqJob[r] \in Jobs \cup {None}
                      /\ reqJob[r] # None => reqJob[r] \in Jobs /\ f[reqJob[r]] = r
  <2> SUFFICES ASSUME NEW r \in Reqs
               PROVE  /\ reqJob[r] \in Jobs \cup {None}
                      /\ reqJob[r] # None => reqJob[r] \in Jobs /\ f[reqJob[r]] = r
    OBVIOUS
  <2>1. CASE \E j \in Jobs : f[j] = r
    BY <1>3, <2>1
  <2>2. CASE ~ \E j \in Jobs : f[j] = r
    BY <1>3, <2>2
  <2> QED
    BY <2>1, <2>2
<1>5. reqJob \in [Reqs -> Jobs \cup {None}]
  BY <1>3, <1>4
<1>6. TypeOK
  BY <1>5 DEF Init, TypeOK, Statuses, Verdicts, NoInputs
<1>7. OneLiveAttempt
  BY <1>4 DEF OneLiveAttempt, Live
<1> QED
  BY <1>6, <1>7 DEF DispatchInv, Init, QueueMatchesStatus, TasksNameAttempts, NoInputs

\* Nothing changes in jobs and job_requests but the owner, session and lease.
LEMMA RowsUntouched ==
  ASSUME DispatchInv, ReqsTyped', UNCHANGED <<jobVars, reqJob, result>>
  PROVE  StepSafe
<1>1. JobsTyped' /\ QueueMatchesStatus'
  BY DEF DispatchInv, JobsTyped, QueueMatchesStatus, TypeOK, jobVars
<1>2. OneLiveAttempt' /\ RowsKept
  BY DEF DispatchInv, OneLiveAttempt, Live, RowsKept
<1>3. ResultsStick
  BY DEF DispatchInv, ResultsStick, QueueMatchesStatus, TypeOK, Verdicts, jobVars
<1> QED
  BY <1>1, <1>2, <1>3 DEF StepSafe

\* Whatever handler, sweep, crash or restart runs next, the rows stay sound
\* and no settled row is rewritten.
LEMMA StepInv ==
  ASSUME DispatchInv, [Next]_vars
  PROVE  StepSafe /\ RestTyped' /\ TasksNameAttempts'
<1> DEFINE Safe == StepSafe /\ RestTyped' /\ TasksNameAttempts'
<1>1. ASSUME NEW n \in Runners, RegisterRunner(n) PROVE Safe
  <2>1. ReqsTyped' /\ UNCHANGED <<jobVars, reqJob, result>>
    BY <1>1 DEF RegisterRunner, ReqsTyped, DispatchInv, TypeOK, jobVars, reqVars, sessVars, taskVars
  <2>2. RestTyped' /\ TasksNameAttempts'
    BY <1>1 DEF RegisterRunner, RestTyped, TasksNameAttempts, DispatchInv, TypeOK, jobVars, reqVars, sessVars, taskVars
  <2> QED
    BY <2>1, <2>2, RowsUntouched
<1>2. ASSUME NEW n \in Runners, NEW s \in Sessions, OpenRunnerSession(n, s) PROVE Safe
  <2>1. ReqsTyped' /\ UNCHANGED <<jobVars, reqJob, result>>
    BY <1>2 DEF OpenRunnerSession, ReqsTyped, DispatchInv, TypeOK, jobVars, reqVars, sessVars, taskVars
  <2>2. RestTyped' /\ TasksNameAttempts'
    BY <1>2 DEF OpenRunnerSession, RestTyped, TasksNameAttempts, DispatchInv, TypeOK, jobVars, reqVars, sessVars, taskVars
  <2> QED
    BY <2>1, <2>2, RowsUntouched
<1>3. ASSUME NEW s \in Sessions, CloseRunnerSession(s) PROVE Safe
  <2>1. ReqsTyped' /\ UNCHANGED <<jobVars, reqJob, result>>
    BY <1>3 DEF CloseRunnerSession, ReqsTyped, DispatchInv, TypeOK, jobVars, reqVars, sessVars, taskVars
  <2>2. RestTyped' /\ TasksNameAttempts'
    BY <1>3 DEF CloseRunnerSession, RestTyped, TasksNameAttempts, DispatchInv, TypeOK, jobVars, reqVars, sessVars, taskVars
  <2> QED
    BY <2>1, <2>2, RowsUntouched
<1>4. ASSUME NEW n \in Runners, PurgeRunner(n) PROVE Safe
  <2> DEFINE mine == {r \in Reqs : Live(r) /\ (owner[r] = n \/ bound[r] \in SessionsOf(n))}
  <2>1. Requeue(ClaimsOf(n), mine, {})
    BY <1>4 DEF PurgeRunner
  <2>2. ClaimsOf(n) \in SUBSET Jobs /\ \A j \in ClaimsOf(n) : queue[j] = "claimed"
    BY DEF ClaimsOf
  <2>3. StepSafe
    BY <2>1, <2>2, RequeueSafe
  <2>4. RestTyped'
    BY <1>4 DEF PurgeRunner, RestTyped, DispatchInv, TypeOK, taskVars
  <2>5. TasksNameAttempts'
    BY <1>4, <2>3 DEF PurgeRunner, StepSafe, RowsKept, ResultsStick, TasksNameAttempts, DispatchInv, TypeOK, taskVars
  <2> QED
    BY <2>3, <2>4, <2>5
<1>5. ASSUME NEW n \in Runners, Die(n) PROVE Safe
  <2>1. ReqsTyped' /\ UNCHANGED <<jobVars, reqJob, result>>
    BY <1>5 DEF Die, ReqsTyped, DispatchInv, TypeOK, jobVars, reqVars, sessVars, taskVars
  <2>2. RestTyped' /\ TasksNameAttempts'
    BY <1>5 DEF Die, RestTyped, TasksNameAttempts, DispatchInv, TypeOK, jobVars, reqVars, sessVars, taskVars
  <2> QED
    BY <2>1, <2>2, RowsUntouched
<1>6. ASSUME NEW s \in Sessions, PollCancel(s) PROVE Safe
  <2>1. ReqsTyped' /\ UNCHANGED <<jobVars, reqJob, result>>
    BY <1>6 DEF PollCancel, ReqsTyped, DispatchInv, TypeOK, jobVars, reqVars, sessVars, taskVars
  <2>2. RestTyped' /\ TasksNameAttempts'
    BY <1>6 DEF PollCancel, RestTyped, TasksNameAttempts, DispatchInv, TypeOK, jobVars, reqVars, sessVars, taskVars
  <2> QED
    BY <2>1, <2>2, RowsUntouched
<1>7. ASSUME NEW s \in Sessions, NEW j \in Jobs, PollClaim(s, j) PROVE Safe
  <2>1. JobsTyped' /\ ReqsTyped'
    BY <1>7 DEF PollClaim, ClaimOne, JobsTyped, ReqsTyped, Statuses, DispatchInv, TypeOK
  <2>2. QueueMatchesStatus'
    BY <1>7 DEF PollClaim, ClaimOne, QueueMatchesStatus, DispatchInv, TypeOK
  <2>3. OneLiveAttempt' /\ RowsKept
    BY <1>7, SettlingKeepsOne DEF PollClaim, ClaimOne, RowsKept, DispatchInv
  <2>4. ResultsStick
    BY <1>7 DEF PollClaim, ClaimOne, ResultsStick, QueueMatchesStatus, Verdicts, DispatchInv, TypeOK
  <2>5. RestTyped' /\ TasksNameAttempts'
    BY <1>7 DEF PollClaim, ClaimOne, RestTyped, TasksNameAttempts, DispatchInv, TypeOK, sessVars, taskVars
  <2> QED
    BY <2>1, <2>2, <2>3, <2>4, <2>5 DEF StepSafe
<1>8. ASSUME NEW s \in Sessions, NEW r \in Reqs, AckMessage(s, r) PROVE Safe
  <2>1. ReqsTyped' /\ UNCHANGED <<jobVars, reqJob, result>>
    BY <1>8 DEF AckMessage, ReqsTyped, DispatchInv, TypeOK, jobVars, reqVars, sessVars, taskVars
  <2>2. RestTyped' /\ TasksNameAttempts'
    BY <1>8 DEF AckMessage, RestTyped, TasksNameAttempts, DispatchInv, TypeOK, jobVars, reqVars, sessVars, taskVars
  <2> QED
    BY <2>1, <2>2, RowsUntouched
<1>9. ASSUME NEW r \in Reqs, LeaseAges(r) PROVE Safe
  <2>1. ReqsTyped' /\ UNCHANGED <<jobVars, reqJob, result>>
    BY <1>9 DEF LeaseAges, ReqsTyped, DispatchInv, TypeOK, jobVars, reqVars, sessVars, taskVars
  <2>2. RestTyped' /\ TasksNameAttempts'
    BY <1>9 DEF LeaseAges, RestTyped, TasksNameAttempts, DispatchInv, TypeOK, jobVars, reqVars, sessVars, taskVars
  <2> QED
    BY <2>1, <2>2, RowsUntouched
<1>10. ASSUME NEW n \in Runners, NEW r \in Reqs, RenewBrokerRequest(n, r) PROVE Safe
  <2>1. ReqsTyped' /\ UNCHANGED <<jobVars, reqJob, result>>
    BY <1>10 DEF RenewBrokerRequest, ReqsTyped, DispatchInv, TypeOK, jobVars, reqVars, sessVars, taskVars
  <2>2. RestTyped' /\ TasksNameAttempts'
    BY <1>10 DEF RenewBrokerRequest, RestTyped, TasksNameAttempts, DispatchInv, TypeOK, jobVars, reqVars, sessVars, taskVars
  <2> QED
    BY <2>1, <2>2, RowsUntouched
<1>11. ASSUME NEW n \in Runners, NEW r \in Reqs, NEW st \in Verdicts,
              BrokerCompleteJob(n, r, st)
       PROVE  Safe
  <2>1. reqJob[r] \in Jobs
    BY <1>11 DEF BrokerCompleteJob, DispatchInv, TypeOK
  <2>2. StepSafe /\ reqJob' = reqJob /\ inbox' \in [Sessions -> SUBSET Reqs]
    BY <1>11, <2>1, CompleteNodeSafe DEF BrokerCompleteJob
  <2>3. RestTyped' /\ TasksNameAttempts'
    BY <1>11, <2>2 DEF BrokerCompleteJob, RestTyped, TasksNameAttempts, StepSafe, ResultsStick,
                       DispatchInv, TypeOK, taskVars
  <2> QED
    BY <2>2, <2>3
<1>12. ASSUME NEW n \in Runners, NEW r \in Reqs, NEW st \in Verdicts,
              AgentRequestPatch(n, r, st)
       PROVE  Safe
  <2>1. JobsTyped' /\ ReqsTyped'
    BY <1>12 DEF AgentRequestPatch, JobsTyped, ReqsTyped, DispatchInv, TypeOK, jobVars
  <2>2. QueueMatchesStatus'
    BY <1>12 DEF AgentRequestPatch, QueueMatchesStatus, DispatchInv, TypeOK, jobVars
  <2>3. \A q \in Reqs : result'[q] = "null" => result[q] = "null"
    BY <1>12 DEF AgentRequestPatch, DispatchInv, TypeOK, Verdicts
  <2>4. OneLiveAttempt' /\ RowsKept
    BY <1>12, <2>3, SettlingKeepsOne DEF AgentRequestPatch, RowsKept, DispatchInv
  <2>5. ResultsStick
    BY <1>12 DEF AgentRequestPatch, Live, ResultsStick, QueueMatchesStatus, Verdicts,
                 DispatchInv, TypeOK, jobVars
  <2>6. RestTyped' /\ TasksNameAttempts'
    BY <1>12 DEF AgentRequestPatch, Live, RestTyped, TasksNameAttempts, Verdicts,
                 DispatchInv, TypeOK, sessVars
  <2> QED
    BY <2>1, <2>2, <2>4, <2>5, <2>6 DEF StepSafe
<1>13. ASSUME NEW r \in Reqs, PatchComplete(r) PROVE Safe
  <2>1. reqJob[r] \in Jobs /\ result[r] \in Verdicts
    BY <1>13 DEF PatchComplete, DispatchInv, TypeOK, TasksNameAttempts
  <2>2. StepSafe /\ reqJob' = reqJob /\ inbox' \in [Sessions -> SUBSET Reqs]
    BY <1>13, <2>1, CompleteNodeSafe DEF PatchComplete
  <2>3. RestTyped' /\ TasksNameAttempts'
    BY <1>13, <2>2 DEF PatchComplete, RestTyped, TasksNameAttempts, StepSafe, ResultsStick,
                       DispatchInv, TypeOK
  <2> QED
    BY <2>2, <2>3
<1>14. ASSUME NEW j \in Jobs, CancelJob(j) PROVE Safe
  <2>1. JobsTyped' /\ ReqsTyped'
    BY <1>14 DEF CancelJob, FinishJobRow, JobsTyped, ReqsTyped, LiveOf, Statuses, Verdicts, DispatchInv, TypeOK
  <2>2. QueueMatchesStatus'
    BY <1>14 DEF CancelJob, FinishJobRow, QueueMatchesStatus, DispatchInv, TypeOK
  <2>3. OneLiveAttempt' /\ RowsKept
    BY <1>14, SettlingKeepsOne DEF CancelJob, FinishJobRow, RowsKept, DispatchInv
  <2>4. ResultsStick
    BY <1>14 DEF CancelJob, FinishJobRow, ResultsStick, QueueMatchesStatus, Verdicts, DispatchInv, TypeOK
  <2>5. RestTyped' /\ TasksNameAttempts'
    BY <1>14 DEF CancelJob, FinishJobRow, RestTyped, TasksNameAttempts, DispatchInv, TypeOK, sessVars, taskVars
  <2> QED
    BY <2>1, <2>2, <2>3, <2>4, <2>5 DEF StepSafe
<1>15. ASSUME ReapInputs PROVE Safe
  <2>1. ReqsTyped' /\ UNCHANGED <<jobVars, reqJob, result>>
    BY <1>15 DEF ReapInputs, ReqsTyped, DispatchInv, TypeOK, jobVars, reqVars
  <2>2. PICK due \in SUBSET {j \in Jobs : queue[j] = "ready"},
             old \in SUBSET {r \in Reqs : Live(r) /\ owner[r] # None /\ ~timedOut[r]} :
          snap' = [ready |-> due, timeouts |-> old, expired |-> Expired]
    BY <1>15 DEF ReapInputs
  <2>3. \A r \in old \cup Expired : r \in Reqs /\ reqJob[r] # None
    BY DEF Expired, Live
  <2>4. RestTyped'
    BY <1>15, <2>2, <2>3 DEF ReapInputs, RestTyped, DispatchInv, TypeOK, sessVars
  <2>5. TasksNameAttempts'
    BY <1>15, <2>1, <2>2, <2>3 DEF ReapInputs, TasksNameAttempts, DispatchInv
  <2> QED
    BY <2>1, <2>4, <2>5, RowsUntouched
<1>16. ASSUME ReapSweep PROVE Safe
  <2>1. PICK starved \in SUBSET {j \in snap.ready : queue[j] = "ready"} :
          /\ status' = [j \in Jobs |-> IF j \in starved THEN "failure" ELSE status[j]]
          /\ queue' = [j \in Jobs |-> IF j \in starved THEN "none" ELSE queue[j]]
    BY <1>16 DEF ReapSweep, StarveJobs
  <2>2. JobsTyped' /\ QueueMatchesStatus'
    BY <1>16, <2>1 DEF ReapSweep, JobsTyped, QueueMatchesStatus, Statuses, Verdicts, DispatchInv, TypeOK
  <2>3. timedOut' \in [Reqs -> BOOLEAN]
    BY <1>16 DEF ReapSweep, DispatchInv, TypeOK
  <2>4. ReqsTyped'
    BY <1>16, <2>3 DEF ReapSweep, QueueJobCancellation, ReqsTyped, Verdicts, DispatchInv, TypeOK
  <2>5. \A q \in Reqs : /\ result'[q] = "null" => result[q] = "null"
                        /\ result[q] # "null" => result'[q] = result[q]
    BY <1>16 DEF ReapSweep
  <2>6. OneLiveAttempt' /\ RowsKept
    BY <1>16, <2>5, SettlingKeepsOne DEF ReapSweep, RowsKept, DispatchInv
  <2>7. \A j \in Jobs : status[j] \in Verdicts => status'[j] = status[j] /\ queue'[j] = "none"
    BY <2>1 DEF QueueMatchesStatus, Verdicts, DispatchInv, TypeOK
  <2>8. RestTyped'
    BY <1>16 DEF ReapSweep, RestTyped, NoInputs, DispatchInv, TypeOK, sessVars
  <2>9. TasksNameAttempts'
    BY <1>16, <2>5 DEF ReapSweep, TasksNameAttempts, NoInputs, DispatchInv, TypeOK
  <2> QED
    BY <2>2, <2>4, <2>5, <2>6, <2>7, <2>8, <2>9 DEF StepSafe, ResultsStick
<1>17. ASSUME NEW r \in Reqs, ReapComplete(r) PROVE Safe
  <2>1. reqJob[r] \in Jobs /\ "failure" \in Verdicts
    BY <1>17 DEF ReapComplete, DispatchInv, TypeOK, TasksNameAttempts, Verdicts
  <2>2. StepSafe /\ reqJob' = reqJob /\ inbox' \in [Sessions -> SUBSET Reqs]
    BY <1>17, <2>1, CompleteNodeSafe DEF ReapComplete
  <2>3. RestTyped' /\ TasksNameAttempts'
    BY <1>17, <2>2 DEF ReapComplete, RestTyped, TasksNameAttempts, StepSafe, ResultsStick,
                       DispatchInv, TypeOK
  <2> QED
    BY <2>2, <2>3
<1>18. ASSUME NEW r \in Reqs, LoseCompletion(r) PROVE Safe
  <2>1. ReqsTyped' /\ UNCHANGED <<jobVars, reqJob, result>>
    BY <1>18 DEF LoseCompletion, ReqsTyped, DispatchInv, TypeOK, jobVars, reqVars
  <2>2. RestTyped' /\ TasksNameAttempts'
    BY <1>18 DEF LoseCompletion, RestTyped, TasksNameAttempts, DispatchInv, TypeOK, reqVars, sessVars
  <2> QED
    BY <2>1, <2>2, RowsUntouched
<1>19. ASSUME Restart PROVE Safe
  <2>1. Requeue(OrphanedJobs, {}, OrphanedClaims)
    BY <1>19 DEF Restart
  <2>2. /\ OrphanedJobs \in SUBSET Jobs /\ \A j \in OrphanedJobs : queue[j] = "claimed"
        /\ OrphanedClaims \in SUBSET Reqs
        /\ \A r \in OrphanedClaims : Live(r) /\ status[reqJob[r]] \in Verdicts
    BY DEF OrphanedJobs, OrphanedClaims
  <2>3. StepSafe
    BY <2>1, <2>2, RequeueSafe
  <2>4. RestTyped' /\ TasksNameAttempts'
    BY <1>19 DEF Restart, RestTyped, TasksNameAttempts, NoInputs, DispatchInv, TypeOK
  <2> QED
    BY <2>3, <2>4
<1>20. ASSUME UNCHANGED vars PROVE Safe
  <2>1. ReqsTyped' /\ UNCHANGED <<jobVars, reqJob, result>>
    BY <1>20 DEF vars, ReqsTyped, DispatchInv, TypeOK, jobVars, reqVars
  <2>2. RestTyped' /\ TasksNameAttempts'
    BY <1>20 DEF vars, RestTyped, TasksNameAttempts, DispatchInv, TypeOK, reqVars, sessVars, taskVars
  <2> QED
    BY <2>1, <2>2, RowsUntouched
<1> HIDE DEF Safe
<1>21. Safe
  BY <1>1, <1>2, <1>3, <1>4, <1>5, <1>6, <1>7, <1>8, <1>9, <1>10, <1>11, <1>12,
     <1>13, <1>14, <1>15, <1>16, <1>17, <1>18, <1>19, <1>20
     DEF Next
<1> QED
  BY <1>21 DEF Safe

\* One step of the control plane preserves the invariant.
LEMMA InvInductive == DispatchInv /\ [Next]_vars => DispatchInv'
<1> SUFFICES ASSUME DispatchInv, [Next]_vars PROVE DispatchInv'
  OBVIOUS
<1>1. StepSafe /\ RestTyped' /\ TasksNameAttempts'
  BY StepInv
<1>2. TypeOK'
  BY <1>1 DEF StepSafe, JobsTyped, ReqsTyped, RestTyped, TypeOK
<1> QED
  BY <1>1, <1>2 DEF StepSafe, DispatchInv

-----------------------------------------------------------------------------
\* Sessions: who is bound to which attempt, and what is told about it

\* A row not handed out yet is blank, so the attempt minted from it is too.
UnusedBare ==
  \A r \in Reqs : reqJob[r] = None => owner[r] = None /\ bound[r] = None /\ result[r] = "null"

SessionInv == UnusedBare /\ SessionsHoldOneAttempt /\ CancellationsMatch

\* What a step leaves alone: an attempt still bound was bound to the same
\* session by the same owner, and no session gets a message.
BindingsKept ==
  /\ \A r \in Reqs :
       /\ reqJob'[r] = None =>
            reqJob[r] = None /\ owner'[r] = owner[r] /\ result'[r] = result[r] /\ bound'[r] = bound[r]
       /\ reqJob'[r] # None /\ result'[r] = "null" /\ bound'[r] # None =>
            /\ Live(r)
            /\ bound'[r] = bound[r]
            /\ owner'[r] = owner[r]
            /\ sessRunner'[bound[r]] = sessRunner[bound[r]]
  /\ \A s \in Sessions : inbox'[s] \subseteq inbox[s]

\* A step that only lets go of attempts keeps the sessions sound.
LEMMA LettingGoKeepsSessions ==
  ASSUME DispatchInv, DispatchInv', SessionInv, BindingsKept
  PROVE  SessionInv'
<1>1. UnusedBare'
  BY DEF SessionInv, UnusedBare, BindingsKept
<1>2. \A s \in Sessions : \A q \in Reqs :
        q \in ActiveOf(s)' => q \in ActiveOf(s)
  <2> SUFFICES ASSUME NEW s \in Sessions, NEW q \in Reqs,
                      reqJob'[q] # None, result'[q] = "null", bound'[q] = s
               PROVE  q \in ActiveOf(s)
    BY DEF ActiveOf, Live
  <2>1. s # None
    BY DispatchAssumption
  <2> QED
    BY <2>1 DEF BindingsKept, ActiveOf
<1>3. \A s \in Sessions : \A q, r \in ActiveOf(s)' : q = r
  BY <1>2 DEF SessionInv, SessionsHoldOneAttempt, ActiveOf
<1>4. ASSUME NEW r \in Reqs, reqJob'[r] # None, result'[r] = "null", bound'[r] # None
      PROVE  sessRunner'[bound'[r]] # None /\ sessRunner'[bound'[r]] = owner'[r]
  BY <1>4 DEF SessionInv, SessionsHoldOneAttempt, BindingsKept
<1>5. SessionsHoldOneAttempt'
  BY <1>3, <1>4 DEF SessionsHoldOneAttempt, Live
<1>6. CancellationsMatch'
  <2> SUFFICES ASSUME NEW s \in Sessions, NEW r \in inbox'[s], NEW q \in ActiveOf(s)'
               PROVE  r = q
    BY DEF CancellationsMatch
  <2>1. r \in inbox[s]
    BY DEF BindingsKept
  <2>2. q \in ActiveOf(s)
    BY <1>2 DEF ActiveOf
  <2> QED
    BY <2>1, <2>2 DEF SessionInv, CancellationsMatch
<1> QED
  BY <1>1, <1>5, <1>6 DEF SessionInv

\* settle_request_tx settles attempts and takes back what was queued for them.
LEMMA CompleteNodeLetsGo ==
  ASSUME DispatchInv, SessionInv, NEW j \in Jobs, NEW r \in Reqs, NEW st \in Verdicts,
         reqJob[r] # None, CompleteNode(j, r, st), sessRunner' = sessRunner
  PROVE  BindingsKept
<1>1. CASE Replayed(j) /\ UNCHANGED <<jobVars, reqVars, inbox>>
  BY <1>1 DEF BindingsKept, reqVars, Live, DispatchInv, TypeOK
<1>2. CASE ~Replayed(j) /\ UNCHANGED <<reqJob, owner, timedOut>>
  <2>1. /\ result' = [q \in Reqs |-> IF q \in LiveOf(j) THEN Effective(j, st) ELSE result[q]]
        /\ bound' = [bound EXCEPT ![r] = None]
        /\ inbox' = [s \in Sessions |-> inbox[s] \ Moot(j, r)]
    BY <1>2 DEF CompleteNode, SettleRequestsForJob
  <2>2. Effective(j, st) # "null"
    BY DEF Effective, Verdicts, DispatchInv, TypeOK
  <2>3. \A q \in LiveOf(j) : reqJob[q] # None
    BY DispatchAssumption DEF LiveOf
  <2> QED
    BY <1>2, <2>1, <2>2, <2>3 DEF BindingsKept, Live, DispatchInv, TypeOK
<1> QED
  BY <1>1, <1>2 DEF CompleteNode

\* requeue_claimed mints blank attempts and unbinds the ones it replaces.
LEMMA RequeueLetsGo ==
  ASSUME DispatchInv, SessionInv, NEW J \in SUBSET Jobs,
         NEW U \in SUBSET Reqs, \A r \in U : Live(r),
         NEW T \in SUBSET Reqs, \A r \in T : Live(r),
         Requeue(J, U, T),
         \A r \in Reqs : Live(r) /\ bound[r] # None /\ r \notin U =>
                           sessRunner'[bound[r]] = sessRunner[bound[r]],
         \A s \in Sessions : inbox'[s] \subseteq inbox[s]
  PROVE  BindingsKept
<1> DEFINE K == {j \in J : LiveOf(j) # {}}
           retired == Retired(K)
           released == Disowned(retired, U)
<1>1. /\ ExistsInjection(K, Unused)
      /\ reqJob' = [r \in Reqs |-> MintedJob(Mint(K), K, r)]
      /\ result' = [r \in Reqs |-> IF r \in retired THEN "cancelled"
                                   ELSE IF r \in T THEN status[reqJob[r]]
                                   ELSE result[r]]
      /\ owner' = [r \in Reqs |-> IF r \in released THEN None ELSE owner[r]]
      /\ bound' = [r \in Reqs |-> IF r \in released \cup T THEN None ELSE bound[r]]
  BY DEF Requeue
<1>2. K \in SUBSET Jobs
  OBVIOUS
<1>3. \A r \in released : Live(r)
  BY DEF Disowned, Retired
<1>4. retired \subseteq released /\ U \subseteq released
  BY DEF Disowned
<1> HIDE DEF K, retired, released
<1>5. \A r \in Reqs : reqJob[r] # None => reqJob'[r] = reqJob[r]
  BY <1>1, <1>2, MintedJobIs DEF DispatchInv
<1>6. ASSUME NEW r \in Reqs, reqJob'[r] = None
      PROVE  reqJob[r] = None /\ owner'[r] = owner[r] /\ result'[r] = result[r] /\ bound'[r] = bound[r]
  <2>1. reqJob[r] = None /\ ~Live(r)
    BY <1>5, <1>6 DEF Live
  <2> QED
    BY <1>1, <1>3, <1>4, <2>1
<1>7. ASSUME NEW r \in Reqs, reqJob'[r] # None, result'[r] = "null", bound'[r] # None
      PROVE  /\ Live(r)
             /\ bound'[r] = bound[r]
             /\ owner'[r] = owner[r]
             /\ sessRunner'[bound[r]] = sessRunner[bound[r]]
  <2>1. r \notin released \cup T /\ bound[r] # None /\ result[r] = "null"
    BY <1>1, <1>4, <1>7
  <2>2. Live(r)
    BY <2>1 DEF Live, SessionInv, UnusedBare
  <2> QED
    BY <1>1, <1>4, <2>1, <2>2
<1> QED
  BY <1>6, <1>7 DEF BindingsKept

\* The first attempts are blank.
LEMMA InitSessions == Init => SessionInv
<1> SUFFICES ASSUME Init PROVE SessionInv
  OBVIOUS
<1>1. \A r \in Reqs : owner[r] = None /\ bound[r] = None /\ result[r] = "null"
  BY DEF Init
<1>2. \A s \in Sessions : ActiveOf(s) = {}
  BY <1>1, DispatchAssumption DEF ActiveOf
<1> QED
  BY <1>1, <1>2 DEF SessionInv, UnusedBare, SessionsHoldOneAttempt, CancellationsMatch

\* Every step keeps the sessions sound, lost completions included.
LEMMA SessionStep ==
  ASSUME DispatchInv, DispatchInv', SessionInv, [Next]_vars
  PROVE  SessionInv'
<1>1. ASSUME NEW n \in Runners, RegisterRunner(n) PROVE SessionInv'
  <2>1. BindingsKept
    BY <1>1 DEF RegisterRunner, BindingsKept, reqVars, sessVars, Live, DispatchInv, TypeOK
  <2> QED
    BY <2>1, LettingGoKeepsSessions
<1>2. ASSUME NEW n \in Runners, NEW s \in Sessions, OpenRunnerSession(n, s) PROVE SessionInv'
  <2>1. \A r \in Reqs : Live(r) /\ bound[r] # None => bound[r] # s
    BY <1>2 DEF OpenRunnerSession, SessionInv, SessionsHoldOneAttempt
  <2>2. BindingsKept
    BY <1>2, <2>1 DEF OpenRunnerSession, BindingsKept, reqVars, Live, DispatchInv, TypeOK
  <2> QED
    BY <2>2, LettingGoKeepsSessions
<1>3. ASSUME NEW s \in Sessions, CloseRunnerSession(s) PROVE SessionInv'
  <2>1. \A r \in ActiveOf(s) : reqJob[r] # None
    BY DEF ActiveOf, Live
  <2>2. BindingsKept
    BY <1>3, <2>1 DEF CloseRunnerSession, Unbound, ActiveOf, BindingsKept, Live, DispatchInv, TypeOK
  <2> QED
    BY <2>2, LettingGoKeepsSessions
<1>4. ASSUME NEW n \in Runners, PurgeRunner(n) PROVE SessionInv'
  <2> DEFINE mine == {r \in Reqs : Live(r) /\ (owner[r] = n \/ bound[r] \in SessionsOf(n))}
  <2>1. Requeue(ClaimsOf(n), mine, {})
    BY <1>4 DEF PurgeRunner
  <2>2. ClaimsOf(n) \in SUBSET Jobs
    BY DEF ClaimsOf
  <2>3. \A r \in Reqs : Live(r) /\ bound[r] # None /\ r \notin mine =>
                          sessRunner'[bound[r]] = sessRunner[bound[r]]
    BY <1>4 DEF PurgeRunner, DispatchInv, TypeOK
  <2>4. \A s \in Sessions : inbox'[s] \subseteq inbox[s]
    BY <1>4 DEF PurgeRunner
  <2>5. BindingsKept
    BY <2>1, <2>2, <2>3, <2>4, RequeueLetsGo
  <2> QED
    BY <2>5, LettingGoKeepsSessions
<1>5. ASSUME NEW n \in Runners, Die(n) PROVE SessionInv'
  <2>1. BindingsKept
    BY <1>5 DEF Die, BindingsKept, reqVars, sessVars, Live, DispatchInv, TypeOK
  <2> QED
    BY <2>1, LettingGoKeepsSessions
<1>6. ASSUME NEW s \in Sessions, PollCancel(s) PROVE SessionInv'
  <2>1. PICK r \in ActiveOf(s) \cap cancels : inbox' = [inbox EXCEPT ![s] = {r}]
    BY <1>6 DEF PollCancel
  <2>2. UNCHANGED <<reqJob, result, owner, bound, sessRunner>>
    BY <1>6 DEF PollCancel
  <2>3. UnusedBare' /\ SessionsHoldOneAttempt'
    BY <2>2 DEF SessionInv, UnusedBare, SessionsHoldOneAttempt, ActiveOf, Live
  <2>4. \A t \in Sessions : ActiveOf(t)' = ActiveOf(t)
    BY <2>2 DEF ActiveOf, Live
  <2>5. CancellationsMatch'
    BY <2>1, <2>4 DEF SessionInv, CancellationsMatch, SessionsHoldOneAttempt, DispatchInv, TypeOK
  <2> QED
    BY <2>3, <2>5 DEF SessionInv
<1>7. ASSUME NEW s \in Sessions, NEW j \in Jobs, PollClaim(s, j) PROVE SessionInv'
  <2>1. /\ owner' = [r \in Reqs |-> IF r \in LiveOf(j) THEN sessRunner[s] ELSE owner[r]]
        /\ bound' = [r \in Reqs |-> IF r \in LiveOf(j) THEN s ELSE bound[r]]
        /\ UNCHANGED <<reqJob, result, sessRunner, inbox>>
        /\ sessRunner[s] # None /\ inbox[s] = {} /\ ActiveOf(s) = {}
    BY <1>7 DEF PollClaim, Polls, Idle, sessVars
  <2>2. \A r \in LiveOf(j) : Live(r) /\ r \in Reqs
    BY DispatchAssumption DEF LiveOf, Live
  <2>3. \A q, r \in LiveOf(j) : q = r
    BY <2>2 DEF LiveOf, DispatchInv, OneLiveAttempt
  <2>4. UnusedBare'
    BY <2>1, <2>2 DEF SessionInv, UnusedBare, Live
  <2>5. \A r \in Reqs : Live(r)' <=> Live(r)
    BY <2>1 DEF Live
  <2>6. ASSUME NEW t \in Sessions, NEW q \in ActiveOf(t)'
        PROVE  \/ t = s /\ q \in LiveOf(j)
               \/ t # s /\ q \in ActiveOf(t)
    <3>1. q \in Reqs /\ Live(q) /\ bound'[q] = t
      BY <2>5, <2>6 DEF ActiveOf
    <3> QED
      BY <2>1, <3>1 DEF ActiveOf
  <2>7. SessionsHoldOneAttempt'
    <3>1. \A t \in Sessions : \A q, r \in ActiveOf(t)' : q = r
      BY <2>3, <2>6 DEF SessionInv, SessionsHoldOneAttempt
    <3>2. ASSUME NEW r \in Reqs, Live(r)', bound'[r] # None
          PROVE  sessRunner'[bound'[r]] # None /\ sessRunner'[bound'[r]] = owner'[r]
      BY <2>1, <2>5, <3>2 DEF SessionInv, SessionsHoldOneAttempt
    <3> QED
      BY <3>1, <3>2 DEF SessionsHoldOneAttempt
  <2>8. CancellationsMatch'
    BY <2>1, <2>6 DEF SessionInv, CancellationsMatch
  <2> QED
    BY <2>4, <2>7, <2>8 DEF SessionInv
<1>8. ASSUME NEW s \in Sessions, NEW r \in Reqs, AckMessage(s, r) PROVE SessionInv'
  <2>1. BindingsKept
    BY <1>8 DEF AckMessage, BindingsKept, reqVars, Live, DispatchInv, TypeOK
  <2> QED
    BY <2>1, LettingGoKeepsSessions
<1>9. ASSUME NEW r \in Reqs, LeaseAges(r) PROVE SessionInv'
  <2>1. BindingsKept
    BY <1>9 DEF LeaseAges, BindingsKept, reqVars, sessVars, Live, DispatchInv, TypeOK
  <2> QED
    BY <2>1, LettingGoKeepsSessions
<1>10. ASSUME NEW n \in Runners, NEW r \in Reqs, RenewBrokerRequest(n, r) PROVE SessionInv'
  <2>1. BindingsKept
    BY <1>10 DEF RenewBrokerRequest, BindingsKept, reqVars, sessVars, Live, DispatchInv, TypeOK
  <2> QED
    BY <2>1, LettingGoKeepsSessions
<1>11. ASSUME NEW n \in Runners, NEW r \in Reqs, NEW st \in Verdicts,
              BrokerCompleteJob(n, r, st)
       PROVE  SessionInv'
  <2>1. reqJob[r] \in Jobs /\ reqJob[r] # None
    BY <1>11 DEF BrokerCompleteJob, DispatchInv, TypeOK
  <2>2. BindingsKept
    BY <1>11, <2>1, CompleteNodeLetsGo DEF BrokerCompleteJob
  <2> QED
    BY <2>2, LettingGoKeepsSessions
<1>12. ASSUME NEW n \in Runners, NEW r \in Reqs, NEW st \in Verdicts,
              AgentRequestPatch(n, r, st)
       PROVE  SessionInv'
  <2>1. BindingsKept
    BY <1>12 DEF AgentRequestPatch, BindingsKept, sessVars, Verdicts, Live, DispatchInv, TypeOK
  <2> QED
    BY <2>1, LettingGoKeepsSessions
<1>13. ASSUME NEW r \in Reqs, PatchComplete(r) PROVE SessionInv'
  <2>1. reqJob[r] \in Jobs /\ reqJob[r] # None /\ result[r] \in Verdicts
    BY <1>13, DispatchAssumption DEF PatchComplete, DispatchInv, TypeOK, TasksNameAttempts
  <2>2. BindingsKept
    BY <1>13, <2>1, CompleteNodeLetsGo DEF PatchComplete
  <2> QED
    BY <2>2, LettingGoKeepsSessions
<1>14. ASSUME NEW j \in Jobs, CancelJob(j) PROVE SessionInv'
  <2>1. BindingsKept
    BY <1>14 DEF CancelJob, BindingsKept, reqVars, sessVars, Live, DispatchInv, TypeOK
  <2> QED
    BY <2>1, LettingGoKeepsSessions
<1>15. ASSUME ReapInputs PROVE SessionInv'
  <2>1. BindingsKept
    BY <1>15 DEF ReapInputs, BindingsKept, reqVars, sessVars, Live, DispatchInv, TypeOK
  <2> QED
    BY <2>1, LettingGoKeepsSessions
<1>16. ASSUME ReapSweep PROVE SessionInv'
  <2>1. \A r \in snap.expired : reqJob[r] # None
    BY DEF DispatchInv, TasksNameAttempts
  <2>2. BindingsKept
    BY <1>16, <2>1 DEF ReapSweep, BindingsKept, sessVars, Live, DispatchInv, TypeOK
  <2> QED
    BY <2>2, LettingGoKeepsSessions
<1>17. ASSUME NEW r \in Reqs, ReapComplete(r) PROVE SessionInv'
  <2>1. reqJob[r] \in Jobs /\ reqJob[r] # None /\ "failure" \in Verdicts
    BY <1>17, DispatchAssumption DEF ReapComplete, DispatchInv, TypeOK, TasksNameAttempts, Verdicts
  <2>2. BindingsKept
    BY <1>17, <2>1, CompleteNodeLetsGo DEF ReapComplete
  <2> QED
    BY <2>2, LettingGoKeepsSessions
<1>18. ASSUME NEW r \in Reqs, LoseCompletion(r) PROVE SessionInv'
  <2>1. BindingsKept
    BY <1>18 DEF LoseCompletion, BindingsKept, reqVars, sessVars, Live, DispatchInv, TypeOK
  <2> QED
    BY <2>1, LettingGoKeepsSessions
<1>19. ASSUME Restart PROVE SessionInv'
  <2>1. Requeue(OrphanedJobs, {}, OrphanedClaims)
    BY <1>19 DEF Restart
  <2>2. /\ OrphanedJobs \in SUBSET Jobs
        /\ OrphanedClaims \in SUBSET Reqs
        /\ \A r \in OrphanedClaims : Live(r)
    BY DEF OrphanedJobs, OrphanedClaims
  <2>3. /\ sessRunner' = sessRunner
        /\ \A s \in Sessions : inbox'[s] \subseteq inbox[s]
    BY <1>19 DEF Restart
  <2>4. BindingsKept
    BY <2>1, <2>2, <2>3, RequeueLetsGo
  <2> QED
    BY <2>4, LettingGoKeepsSessions
<1>20. ASSUME UNCHANGED vars PROVE SessionInv'
  <2>1. BindingsKept
    BY <1>20 DEF vars, BindingsKept, reqVars, sessVars, Live, DispatchInv, TypeOK
  <2> QED
    BY <2>1, LettingGoKeepsSessions
<1> QED
  BY <1>1, <1>2, <1>3, <1>4, <1>5, <1>6, <1>7, <1>8, <1>9, <1>10, <1>11, <1>12,
     <1>13, <1>14, <1>15, <1>16, <1>17, <1>18, <1>19, <1>20
     DEF Next

-----------------------------------------------------------------------------
\* Claims: the attempt behind a queued or claimed job, when no completion is lost

\* An attempt nobody may report, or the one of the job's claimant.
AttemptFenced(r) ==
  \/ owner[r] = None /\ bound[r] = None /\ (Live(r) => queue[reqJob[r]] = "ready")
  \/ /\ Live(r) /\ queue[reqJob[r]] = "claimed" /\ claimedBy[reqJob[r]] # None
     /\ owner[r] = claimedBy[reqJob[r]] /\ lease[r] # "none"

\* A job still to be run and not about to be completed has an attempt in
\* flight, and all its attempts are fenced.
Backed(j) ==
  queue[j] # "none" /\ ~Completing(j) =>
    LiveOf(j) # {} /\ \A r \in Reqs : reqJob[r] = j => AttemptFenced(r)

\* A sweep starts only when the completions of the last one are through.
OneSweep == tick = "read" => reaping = {}

ClaimInv == OneSweep /\ \A j \in Jobs : Backed(j)

\* What a step leaves alone of job j and its attempts.
JobKept(j) ==
  \/ queue'[j] = "none"
  \/ Completing(j)'
  \/ /\ ~Completing(j) /\ queue'[j] = queue[j] /\ claimedBy'[j] = claimedBy[j]
     /\ \A r \in Reqs :
          /\ reqJob'[r] = j <=> reqJob[r] = j
          /\ reqJob[r] = j => /\ result'[r] = result[r] /\ owner'[r] = owner[r]
                              /\ bound'[r] \in {bound[r], None}
                              /\ lease[r] # "none" => lease'[r] # "none"

\* A step that leaves a job and its attempts alone keeps it backed.
LEMMA KeptStaysBacked ==
  ASSUME DispatchInv, NEW j \in Jobs, Backed(j), JobKept(j)
  PROVE  Backed(j)'
<1> SUFFICES ASSUME queue'[j] # "none", ~Completing(j)'
             PROVE  LiveOf(j)' # {} /\ \A r \in Reqs : reqJob'[r] = j => AttemptFenced(r)'
  BY DEF Backed
<1>1. /\ ~Completing(j) /\ queue'[j] = queue[j] /\ claimedBy'[j] = claimedBy[j]
      /\ \A r \in Reqs :
           /\ reqJob'[r] = j <=> reqJob[r] = j
           /\ reqJob[r] = j => /\ result'[r] = result[r] /\ owner'[r] = owner[r]
                               /\ bound'[r] \in {bound[r], None}
                               /\ lease[r] # "none" => lease'[r] # "none"
  BY DEF JobKept
<1>2. LiveOf(j) # {} /\ \A r \in Reqs : reqJob[r] = j => AttemptFenced(r)
  BY <1>1 DEF Backed
<1>3. LiveOf(j)' # {}
  BY <1>1, <1>2 DEF LiveOf
<1>4. ASSUME NEW r \in Reqs, reqJob'[r] = j PROVE AttemptFenced(r)'
  BY <1>1, <1>2, <1>4 DEF AttemptFenced, Live
<1> QED
  BY <1>3, <1>4

\* A completed job leaves the queue; the attempts of others are left alone.
LEMMA CompleteNodeKeeps ==
  ASSUME DispatchInv, ClaimInv, NEW j \in Jobs, NEW r \in Reqs, NEW st \in Verdicts,
         reqJob[r] = j, CompleteNode(j, r, st),
         \A i \in Jobs : i # j => (Completing(i)' <=> Completing(i)),
         NEW i \in Jobs
  PROVE  JobKept(i)
<1>1. CASE i = j
  <2>1. CASE Replayed(j) /\ UNCHANGED <<jobVars, reqVars, inbox>>
    BY <1>1, <2>1 DEF JobKept, Replayed, jobVars, DispatchInv, TypeOK, QueueMatchesStatus
  <2>2. CASE queue' = [queue EXCEPT ![j] = "none"]
    BY <1>1, <2>2 DEF JobKept, DispatchInv, TypeOK
  <2> QED
    BY <2>1, <2>2 DEF CompleteNode, FinishJobRow
<1>2. CASE i # j
  <2>1. Completing(i)' <=> Completing(i)
    BY <1>2
  <2>2. CASE Replayed(j) /\ UNCHANGED <<jobVars, reqVars, inbox>>
    BY <2>1, <2>2 DEF JobKept, jobVars, reqVars, DispatchInv, TypeOK
  <2>3. CASE ~Replayed(j)
    <3>1. /\ queue' = [queue EXCEPT ![j] = "none"]
          /\ claimedBy' = [claimedBy EXCEPT ![j] = None]
          /\ result' = [q \in Reqs |-> IF q \in LiveOf(j) THEN Effective(j, st) ELSE result[q]]
          /\ lease' = [q \in Reqs |-> IF q \in LiveOf(j) THEN "none" ELSE lease[q]]
          /\ bound' = [bound EXCEPT ![r] = None]
          /\ UNCHANGED <<reqJob, owner>>
      BY <2>3 DEF CompleteNode, FinishJobRow, SettleRequestsForJob
    <3>2. \A q \in Reqs : reqJob[q] = i => q \notin LiveOf(j)
      BY <1>2 DEF LiveOf
    <3> QED
      BY <1>2, <2>1, <3>1, <3>2 DEF JobKept, DispatchInv, TypeOK
  <2> QED
    BY <2>2, <2>3 DEF CompleteNode
<1> QED
  BY <1>1, <1>2

\* The row insert_attempt mints for a job is that job's.
LEMMA MintedForJob ==
  ASSUME NEW K \in SUBSET Jobs, ExistsInjection(K, Unused), NEW j \in K
  PROVE  /\ Mint(K)[j] \in Unused
         /\ MintedJob(Mint(K), K, Mint(K)[j]) = j
<1> DEFINE f == Mint(K)
<1>1. f \in [K -> Unused] /\ \A i, k \in K : f[i] = f[k] => i = k
  BY MintInjects
<1> HIDE DEF f
<1>2. MintedJob(f, K, f[j]) = CHOOSE i \in K : f[i] = f[j]
  BY DEF MintedJob
<1>3. (CHOOSE i \in K : f[i] = f[j]) \in K /\ f[CHOOSE i \in K : f[i] = f[j]] = f[j]
  OBVIOUS
<1>4. MintedJob(f, K, f[j]) = j
  BY <1>1, <1>2, <1>3
<1> QED
  BY <1>1, <1>4 DEF f

\* requeue_claimed: a requeued job has its fresh, unowned attempt; a job not
\* requeued keeps its own.
LEMMA RequeueKeepsBacked ==
  ASSUME DispatchInv, SessionInv, ClaimInv,
         NEW J \in SUBSET Jobs, \A j \in J : queue[j] = "claimed",
         NEW U \in SUBSET Reqs,
         \A r \in U : Live(r) /\ (\/ reqJob[r] \in J
                                  \/ queue[reqJob[r]] = "none"
                                  \/ Completing(reqJob[r])),
         NEW T \in SUBSET Reqs,
         \A r \in T : Live(r) /\ status[reqJob[r]] \in Verdicts,
         Requeue(J, U, T),
         \A j \in Jobs : Completing(j)' <=> Completing(j),
         NEW j \in Jobs
  PROVE  Backed(j)'
<1> DEFINE K == {i \in J : LiveOf(i) # {}}
           retired == Retired(K)
           released == Disowned(retired, U)
<1>1. /\ ExistsInjection(K, Unused)
      /\ queue' = [i \in Jobs |-> IF i \in J THEN "ready" ELSE queue[i]]
      /\ claimedBy' = [i \in Jobs |-> IF i \in J THEN None ELSE claimedBy[i]]
      /\ reqJob' = [r \in Reqs |-> MintedJob(Mint(K), K, r)]
      /\ result' = [r \in Reqs |-> IF r \in retired THEN "cancelled"
                                   ELSE IF r \in T THEN status[reqJob[r]]
                                   ELSE result[r]]
      /\ owner' = [r \in Reqs |-> IF r \in released THEN None ELSE owner[r]]
      /\ bound' = [r \in Reqs |-> IF r \in released \cup T THEN None ELSE bound[r]]
      /\ lease' = [r \in Reqs |-> IF r \in released \cup T THEN "none" ELSE lease[r]]
  BY DEF Requeue
<1>2. K \in SUBSET Jobs /\ \A i \in J : LiveOf(i) # {} => i \in K
  OBVIOUS
<1>3. /\ \A r \in Reqs : r \in retired <=> Live(r) /\ reqJob[r] \in K
      /\ \A r \in Reqs : r \in released <=> r \in retired \/ r \in U
  BY DEF Disowned, Retired
<1>4. K \subseteq J
  OBVIOUS
<1> HIDE DEF K, retired, released
<1>5. \A r \in Reqs : /\ reqJob[r] # None => reqJob'[r] = reqJob[r]
                      /\ reqJob'[r] # reqJob[r] => reqJob'[r] \in K
  BY <1>1, <1>2, MintedJobIs DEF DispatchInv
<1>6. j # None
  BY DispatchAssumption
<1>7. \A r \in T : queue[reqJob[r]] = "none"
  BY DEF Live, DispatchInv, TypeOK, QueueMatchesStatus, Verdicts
<1>8. CASE queue'[j] = "none" \/ Completing(j)'
  BY <1>8 DEF Backed
<1>9. CASE queue'[j] # "none" /\ ~Completing(j)' /\ j \notin J
  <2>1. queue'[j] = queue[j] /\ claimedBy'[j] = claimedBy[j] /\ ~Completing(j)
    BY <1>1, <1>9
  <2>2. ASSUME NEW r \in Reqs
        PROVE  reqJob'[r] = j <=> reqJob[r] = j
    BY <1>4, <1>5, <1>6, <1>9
  <2>3. ASSUME NEW r \in Reqs, reqJob[r] = j
        PROVE  r \notin retired /\ r \notin released /\ r \notin T
    BY <1>3, <1>4, <1>7, <1>9, <2>1, <2>3
  <2>4. JobKept(j)
    BY <1>1, <2>1, <2>2, <2>3 DEF JobKept
  <2> QED
    BY <2>4, KeptStaysBacked DEF ClaimInv
<1>10. CASE ~Completing(j)' /\ j \in J
  <2>1. LiveOf(j) # {} /\ \A r \in Reqs : reqJob[r] = j => AttemptFenced(r)
    BY <1>10 DEF ClaimInv, Backed
  <2>2. j \in K /\ queue'[j] = "ready"
    BY <1>1, <1>2, <1>10, <2>1
  <2> DEFINE fresh == Mint(K)[j]
  <2>3. fresh \in Reqs /\ reqJob[fresh] = None /\ reqJob'[fresh] = j
    BY <1>1, <1>2, <2>2, MintedForJob DEF Unused
  <2> HIDE DEF fresh
  <2>4. /\ result[fresh] = "null" /\ owner[fresh] = None /\ bound[fresh] = None
        /\ fresh \notin retired /\ fresh \notin T
    BY <1>3, <2>3 DEF SessionInv, UnusedBare, Live
  <2>5. fresh \in LiveOf(j)'
    BY <1>1, <2>3, <2>4 DEF LiveOf
  <2>6. ASSUME NEW r \in Reqs, reqJob'[r] = j
        PROVE  owner'[r] = None /\ bound'[r] = None
    <3>1. CASE reqJob[r] = None
      BY <1>1, <3>1 DEF SessionInv, UnusedBare
    <3>2. CASE reqJob[r] = j /\ result[r] = "null"
      <4>1. r \in released
        BY <1>3, <1>6, <2>2, <3>2 DEF Live
      <4> QED
        BY <1>1, <4>1
    <3>3. CASE reqJob[r] = j /\ result[r] # "null"
      <4>1. AttemptFenced(r) /\ ~Live(r)
        BY <2>1, <3>3 DEF Live
      <4>2. owner[r] = None /\ bound[r] = None
        BY <4>1 DEF AttemptFenced
      <4> QED
        BY <1>1, <4>2
    <3> QED
      BY <1>5, <2>6, <3>1, <3>2, <3>3
  <2>7. ASSUME NEW r \in Reqs, reqJob'[r] = j PROVE AttemptFenced(r)'
    BY <2>2, <2>6, <2>7 DEF AttemptFenced
  <2> QED
    BY <2>5, <2>7 DEF Backed
<1> QED
  BY <1>8, <1>9, <1>10

\* Every job starts with a fresh attempt on the ready queue.
LEMMA InitClaims == Init => ClaimInv
<1> SUFFICES ASSUME Init PROVE ClaimInv
  OBVIOUS
<1> DEFINE f == CHOOSE g \in Injection(Jobs, Reqs) : TRUE
<1>1. f \in Injection(Jobs, Reqs)
  BY DispatchAssumption DEF ExistsInjection
<1>2. f \in [Jobs -> Reqs] /\ \A i, k \in Jobs : f[i] = f[k] => i = k
  BY <1>1 DEF Injection, IsInjective
<1>3. reqJob = [r \in Reqs |-> IF \E j \in Jobs : f[j] = r
                              THEN CHOOSE j \in Jobs : f[j] = r ELSE None]
  BY DEF Init
<1> HIDE DEF f
<1>4. ASSUME NEW j \in Jobs PROVE f[j] \in LiveOf(j)
  <2>1. reqJob[f[j]] = CHOOSE i \in Jobs : f[i] = f[j]
    BY <1>2, <1>3
  <2>2. (CHOOSE i \in Jobs : f[i] = f[j]) \in Jobs /\ f[CHOOSE i \in Jobs : f[i] = f[j]] = f[j]
    OBVIOUS
  <2>3. reqJob[f[j]] = j
    BY <1>2, <2>1, <2>2
  <2> QED
    BY <1>2, <2>3 DEF LiveOf, Init
<1>5. ASSUME NEW j \in Jobs, NEW r \in Reqs, reqJob[r] = j PROVE AttemptFenced(r)
  BY <1>5 DEF Init, AttemptFenced
<1> QED
  BY <1>4, <1>5 DEF ClaimInv, Backed, OneSweep, Init

\* Unless a completion is lost, every step keeps every job backed.
LEMMA ClaimStep ==
  ASSUME ~LoseCompletions, DispatchInv, SessionInv, ClaimInv, [Next]_vars
  PROVE  ClaimInv'
<1> DEFINE Good == ClaimInv'
<1>1. ASSUME NEW n \in Runners, RegisterRunner(n) PROVE Good
  <2>1. OneSweep'
    BY <1>1 DEF RegisterRunner, ClaimInv, OneSweep, taskVars
  <2>2. ASSUME NEW j \in Jobs PROVE JobKept(j)
    BY <1>1 DEF RegisterRunner, JobKept, Completing, jobVars, reqVars, sessVars, taskVars, DispatchInv, TypeOK
  <2> QED
    BY <2>1, <2>2, KeptStaysBacked DEF ClaimInv
<1>2. ASSUME NEW n \in Runners, NEW s \in Sessions, OpenRunnerSession(n, s) PROVE Good
  <2>1. OneSweep'
    BY <1>2 DEF OpenRunnerSession, ClaimInv, OneSweep, taskVars
  <2>2. ASSUME NEW j \in Jobs PROVE JobKept(j)
    BY <1>2 DEF OpenRunnerSession, JobKept, Completing, jobVars, reqVars, sessVars, taskVars, DispatchInv, TypeOK
  <2> QED
    BY <2>1, <2>2, KeptStaysBacked DEF ClaimInv
<1>3. ASSUME NEW s \in Sessions, CloseRunnerSession(s) PROVE Good
  <2>1. OneSweep'
    BY <1>3 DEF CloseRunnerSession, ClaimInv, OneSweep, taskVars
  <2>2. ASSUME NEW j \in Jobs PROVE JobKept(j)
    BY <1>3 DEF CloseRunnerSession, JobKept, Completing, jobVars, reqVars, sessVars, taskVars, DispatchInv, TypeOK
  <2> QED
    BY <2>1, <2>2, KeptStaysBacked DEF ClaimInv
<1>4. ASSUME NEW n \in Runners, PurgeRunner(n) PROVE Good
  <2> DEFINE mine == {r \in Reqs : Live(r) /\ (owner[r] = n \/ bound[r] \in SessionsOf(n))}
  <2>1. Requeue(ClaimsOf(n), mine, {})
    BY <1>4 DEF PurgeRunner
  <2>2. ClaimsOf(n) \in SUBSET Jobs /\ \A j \in ClaimsOf(n) : queue[j] = "claimed"
    BY DEF ClaimsOf
  <2>3. ASSUME NEW r \in mine
        PROVE  Live(r) /\ (\/ reqJob[r] \in ClaimsOf(n)
                           \/ queue[reqJob[r]] = "none"
                           \/ Completing(reqJob[r]))
    <3> SUFFICES ASSUME queue[reqJob[r]] # "none", ~Completing(reqJob[r])
                 PROVE  reqJob[r] \in ClaimsOf(n)
      OBVIOUS
    <3>1. r \in Reqs /\ reqJob[r] \in Jobs /\ r \in LiveOf(reqJob[r]) /\ Live(r)
      BY DEF Live, LiveOf, DispatchInv, TypeOK
    <3>2. AttemptFenced(r)
      BY <3>1 DEF ClaimInv, Backed
    <3>3. n # None /\ ~ None \in SessionsOf(n)
      BY DispatchAssumption DEF SessionsOf
    <3>4. queue[reqJob[r]] = "claimed" /\ owner[r] = claimedBy[reqJob[r]]
      BY <3>2, <3>3 DEF AttemptFenced
    <3> QED
      BY <3>1, <3>4 DEF ClaimsOf
  <2>4. StepSafe
    BY <2>1, <2>2, RequeueSafe
  <2>5. reaping' = reaping /\ patched' = patched /\ tick' = tick
    BY <1>4 DEF PurgeRunner, taskVars
  <2>6. \A j \in Jobs : Completing(j)' <=> Completing(j)
    BY <2>4, <2>5 DEF Completing, StepSafe, RowsKept, DispatchInv, TypeOK, TasksNameAttempts
  <2>7. \A j \in Jobs : Backed(j)'
    BY <2>1, <2>2, <2>3, <2>6, RequeueKeepsBacked
  <2> QED
    BY <2>5, <2>7 DEF ClaimInv, OneSweep
<1>5. ASSUME NEW n \in Runners, Die(n) PROVE Good
  <2>1. OneSweep'
    BY <1>5 DEF Die, ClaimInv, OneSweep, taskVars
  <2>2. ASSUME NEW j \in Jobs PROVE JobKept(j)
    BY <1>5 DEF Die, JobKept, Completing, jobVars, reqVars, sessVars, taskVars, DispatchInv, TypeOK
  <2> QED
    BY <2>1, <2>2, KeptStaysBacked DEF ClaimInv
<1>6. ASSUME NEW s \in Sessions, PollCancel(s) PROVE Good
  <2>1. OneSweep'
    BY <1>6 DEF PollCancel, ClaimInv, OneSweep, taskVars
  <2>2. ASSUME NEW j \in Jobs PROVE JobKept(j)
    BY <1>6 DEF PollCancel, JobKept, Completing, jobVars, reqVars, sessVars, taskVars, DispatchInv, TypeOK
  <2> QED
    BY <2>1, <2>2, KeptStaysBacked DEF ClaimInv
<1>7. ASSUME NEW s \in Sessions, NEW j \in Jobs, PollClaim(s, j) PROVE Good
  <2>1. /\ queue[j] = "ready"
        /\ queue' = [queue EXCEPT ![j] = "claimed"]
        /\ claimedBy' = [claimedBy EXCEPT ![j] = sessRunner[s]]
        /\ owner' = [r \in Reqs |-> IF r \in LiveOf(j) THEN sessRunner[s] ELSE owner[r]]
        /\ bound' = [r \in Reqs |-> IF r \in LiveOf(j) THEN s ELSE bound[r]]
        /\ lease' = [r \in Reqs |-> IF r \in LiveOf(j) THEN "fresh" ELSE lease[r]]
        /\ UNCHANGED <<reqJob, result, tick, reaping, patched>>
        /\ sessRunner[s] # None
    BY <1>7 DEF PollClaim, ClaimOne, Polls, taskVars
  <2>2. \A i \in Jobs : Completing(i)' <=> Completing(i)
    BY <2>1 DEF Completing
  <2>3. ASSUME NEW i \in Jobs, i # j PROVE Backed(i)'
    <3>1. \A r \in Reqs : reqJob[r] = i => r \notin LiveOf(j)
      BY <2>3 DEF LiveOf
    <3>2. JobKept(i)
      BY <2>1, <2>2, <2>3, <3>1 DEF JobKept, DispatchInv, TypeOK
    <3> QED
      BY <3>2, KeptStaysBacked DEF ClaimInv
  <2>4. Backed(j)'
    <3> SUFFICES ASSUME ~Completing(j)
                 PROVE  LiveOf(j)' # {} /\ \A r \in Reqs : reqJob'[r] = j => AttemptFenced(r)'
      BY <2>2 DEF Backed
    <3>1. LiveOf(j) # {} /\ \A r \in Reqs : reqJob[r] = j => AttemptFenced(r)
      BY <2>1 DEF ClaimInv, Backed
    <3>2. LiveOf(j)' = LiveOf(j)
      BY <2>1 DEF LiveOf
    <3>3. ASSUME NEW r \in Reqs, reqJob'[r] = j PROVE AttemptFenced(r)'
      <4>1. reqJob[r] = j /\ AttemptFenced(r) /\ j # None
        BY <2>1, <3>1, <3>3, DispatchAssumption
      <4>2. CASE r \in LiveOf(j)
        BY <2>1, <4>1, <4>2 DEF AttemptFenced, Live, LiveOf, DispatchInv, TypeOK
      <4>3. CASE r \notin LiveOf(j)
        BY <2>1, <4>1, <4>3 DEF AttemptFenced, Live, LiveOf
      <4> QED
        BY <4>2, <4>3
    <3> QED
      BY <3>1, <3>2, <3>3
  <2> QED
    BY <2>1, <2>3, <2>4 DEF ClaimInv, OneSweep
<1>8. ASSUME NEW s \in Sessions, NEW r \in Reqs, AckMessage(s, r) PROVE Good
  <2>1. OneSweep'
    BY <1>8 DEF AckMessage, ClaimInv, OneSweep, taskVars
  <2>2. ASSUME NEW j \in Jobs PROVE JobKept(j)
    BY <1>8 DEF AckMessage, JobKept, Completing, jobVars, reqVars, sessVars, taskVars, DispatchInv, TypeOK
  <2> QED
    BY <2>1, <2>2, KeptStaysBacked DEF ClaimInv
<1>9. ASSUME NEW r \in Reqs, LeaseAges(r) PROVE Good
  <2>1. OneSweep'
    BY <1>9 DEF LeaseAges, ClaimInv, OneSweep, taskVars
  <2>2. ASSUME NEW j \in Jobs PROVE JobKept(j)
    BY <1>9 DEF LeaseAges, JobKept, Completing, jobVars, reqVars, sessVars, taskVars, DispatchInv, TypeOK
  <2> QED
    BY <2>1, <2>2, KeptStaysBacked DEF ClaimInv
<1>10. ASSUME NEW n \in Runners, NEW r \in Reqs, RenewBrokerRequest(n, r) PROVE Good
  <2>1. OneSweep'
    BY <1>10 DEF RenewBrokerRequest, ClaimInv, OneSweep, taskVars
  <2>2. ASSUME NEW j \in Jobs PROVE JobKept(j)
    BY <1>10 DEF RenewBrokerRequest, JobKept, Completing, jobVars, reqVars, sessVars, taskVars, DispatchInv, TypeOK
  <2> QED
    BY <2>1, <2>2, KeptStaysBacked DEF ClaimInv
<1>11. ASSUME NEW n \in Runners, NEW r \in Reqs, NEW st \in Verdicts,
              BrokerCompleteJob(n, r, st)
       PROVE Good
  <2>1. reqJob[r] \in Jobs /\ st \in Verdicts
    BY <1>11 DEF BrokerCompleteJob, DispatchInv, TypeOK, TasksNameAttempts, Verdicts
  <2>2. CompleteNode(reqJob[r], r, st)
    BY <1>11 DEF BrokerCompleteJob
  <2>3. reqJob' = reqJob
    BY <2>1, <2>2, CompleteNodeSafe
  <2>4. \A i \in Jobs : i # reqJob[r] => (Completing(i)' <=> Completing(i))
    BY <1>11, <2>3 DEF BrokerCompleteJob, Completing, taskVars
  <2>5. \A i \in Jobs : JobKept(i)
    BY <2>1, <2>2, <2>4, CompleteNodeKeeps
  <2>6. OneSweep'
    BY <1>11 DEF BrokerCompleteJob, ClaimInv, OneSweep, taskVars
  <2> QED
    BY <2>5, <2>6, KeptStaysBacked DEF ClaimInv
<1>12. ASSUME NEW n \in Runners, NEW r \in Reqs, NEW st \in Verdicts,
              AgentRequestPatch(n, r, st)
       PROVE  Good
  <2>1. OneSweep'
    BY <1>12 DEF AgentRequestPatch, ClaimInv, OneSweep
  <2>2. ASSUME NEW j \in Jobs PROVE JobKept(j)
    <3>1. CASE j = reqJob[r]
      BY <1>12, <3>1 DEF AgentRequestPatch, JobKept, Completing
    <3>2. CASE j # reqJob[r]
      BY <1>12, <3>2 DEF AgentRequestPatch, JobKept, Completing, jobVars, DispatchInv, TypeOK
    <3> QED
      BY <3>1, <3>2
  <2> QED
    BY <2>1, <2>2, KeptStaysBacked DEF ClaimInv
<1>13. ASSUME NEW r \in Reqs, PatchComplete(r) PROVE Good
  <2>1. reqJob[r] \in Jobs /\ result[r] \in Verdicts
    BY <1>13 DEF PatchComplete, DispatchInv, TypeOK, TasksNameAttempts, Verdicts
  <2>2. CompleteNode(reqJob[r], r, result[r])
    BY <1>13 DEF PatchComplete
  <2>3. reqJob' = reqJob
    BY <2>1, <2>2, CompleteNodeSafe
  <2>4. \A i \in Jobs : i # reqJob[r] => (Completing(i)' <=> Completing(i))
    BY <1>13, <2>3 DEF PatchComplete, Completing, taskVars
  <2>5. \A i \in Jobs : JobKept(i)
    BY <2>1, <2>2, <2>4, CompleteNodeKeeps
  <2>6. OneSweep'
    BY <1>13 DEF PatchComplete, ClaimInv, OneSweep, taskVars
  <2> QED
    BY <2>5, <2>6, KeptStaysBacked DEF ClaimInv
<1>14. ASSUME NEW i \in Jobs, CancelJob(i) PROVE Good
  <2>1. OneSweep'
    BY <1>14 DEF CancelJob, ClaimInv, OneSweep, taskVars
  <2>2. ASSUME NEW j \in Jobs PROVE JobKept(j)
    BY <1>14 DEF CancelJob, FinishJobRow, JobKept, Completing, taskVars, DispatchInv, TypeOK
  <2> QED
    BY <2>1, <2>2, KeptStaysBacked DEF ClaimInv
<1>15. ASSUME ReapInputs PROVE Good
  <2>1. OneSweep'
    BY <1>15 DEF ReapInputs, OneSweep
  <2>2. ASSUME NEW j \in Jobs PROVE JobKept(j)
    BY <1>15 DEF ReapInputs, JobKept, Completing, jobVars, reqVars, DispatchInv, TypeOK
  <2> QED
    BY <2>1, <2>2, KeptStaysBacked DEF ClaimInv
<1>16. ASSUME ReapSweep PROVE Good
  <2>1. PICK starved \in SUBSET {j \in snap.ready : queue[j] = "ready"} :
          queue' = [j \in Jobs |-> IF j \in starved THEN "none" ELSE queue[j]]
    BY <1>16 DEF ReapSweep, StarveJobs
  <2>2. /\ reaping = {} /\ reaping' = snap.expired /\ tick' = "idle"
        /\ UNCHANGED <<patched, claimedBy, reqJob, owner>>
    BY <1>16 DEF ReapSweep, ClaimInv, OneSweep
  <2>3. ASSUME NEW j \in Jobs PROVE JobKept(j)
    <3>1. CASE \E r \in snap.expired : reqJob[r] = j
      BY <2>2, <3>1 DEF JobKept, Completing
    <3>2. CASE \A r \in snap.expired : reqJob[r] # j
      <4>1. Completing(j)' <=> Completing(j)
        BY <2>2, <3>2 DEF Completing
      <4> QED
        BY <1>16, <2>1, <2>2, <3>2, <4>1 DEF ReapSweep, JobKept, DispatchInv, TypeOK
    <3> QED
      BY <3>1, <3>2
  <2> QED
    BY <2>2, <2>3, KeptStaysBacked DEF ClaimInv, OneSweep
<1>17. ASSUME NEW r \in Reqs, ReapComplete(r) PROVE Good
  <2>1. reqJob[r] \in Jobs /\ "failure" \in Verdicts
    BY <1>17 DEF ReapComplete, DispatchInv, TypeOK, TasksNameAttempts, Verdicts
  <2>2. CompleteNode(reqJob[r], r, "failure")
    BY <1>17 DEF ReapComplete
  <2>3. reqJob' = reqJob
    BY <2>1, <2>2, CompleteNodeSafe
  <2>4. \A i \in Jobs : i # reqJob[r] => (Completing(i)' <=> Completing(i))
    BY <1>17, <2>3 DEF ReapComplete, Completing, taskVars
  <2>5. \A i \in Jobs : JobKept(i)
    BY <2>1, <2>2, <2>4, CompleteNodeKeeps
  <2>6. OneSweep'
    BY <1>17 DEF ReapComplete, ClaimInv, OneSweep, taskVars
  <2> QED
    BY <2>5, <2>6, KeptStaysBacked DEF ClaimInv
<1>18. ASSUME NEW r \in Reqs, LoseCompletion(r) PROVE Good
  BY <1>18 DEF LoseCompletion
<1>19. ASSUME Restart PROVE Good
  <2>1. Requeue(OrphanedJobs, {}, OrphanedClaims)
    BY <1>19 DEF Restart
  <2>2. /\ OrphanedJobs \in SUBSET Jobs /\ \A j \in OrphanedJobs : queue[j] = "claimed"
        /\ OrphanedClaims \in SUBSET Reqs
        /\ \A r \in OrphanedClaims : Live(r) /\ status[reqJob[r]] \in Verdicts
    BY DEF OrphanedJobs, OrphanedClaims
  <2>3. \A j \in Jobs : ~Completing(j) /\ ~Completing(j)'
    BY <1>19 DEF Restart, Completing
  <2>4. \A j \in Jobs : Backed(j)'
    BY <2>1, <2>2, <2>3, RequeueKeepsBacked
  <2> QED
    BY <1>19, <2>4 DEF Restart, ClaimInv, OneSweep
<1>20. ASSUME UNCHANGED vars PROVE Good
  <2>1. OneSweep'
    BY <1>20 DEF vars, ClaimInv, OneSweep, taskVars
  <2>2. ASSUME NEW j \in Jobs PROVE JobKept(j)
    BY <1>20 DEF vars, JobKept, Completing, jobVars, reqVars, taskVars, DispatchInv, TypeOK
  <2> QED
    BY <2>1, <2>2, KeptStaysBacked DEF ClaimInv
<1> HIDE DEF Good
<1>21. Good
  BY <1>1, <1>2, <1>3, <1>4, <1>5, <1>6, <1>7, <1>8, <1>9, <1>10, <1>11, <1>12,
     <1>13, <1>14, <1>15, <1>16, <1>17, <1>18, <1>19, <1>20
     DEF Next
<1> QED
  BY <1>21 DEF Good

\* An attempt that backs a job is one a poll can bind, or the claimant's.
LEMMA BackedIsNotStranded == DispatchInv /\ ClaimInv => NoStrandedJob
<1> SUFFICES ASSUME DispatchInv, ClaimInv, NEW j \in Jobs, ~Completing(j)
             PROVE  /\ queue[j] = "ready" =>
                         \E r \in LiveOf(j) : owner[r] = None /\ bound[r] = None
                    /\ queue[j] = "claimed" =>
                         \E r \in LiveOf(j) : owner[r] = claimedBy[j] /\ lease[r] # "none"
  BY DEF NoStrandedJob
<1> SUFFICES ASSUME queue[j] # "none"
             PROVE  /\ queue[j] = "ready" =>
                         \E r \in LiveOf(j) : owner[r] = None /\ bound[r] = None
                    /\ queue[j] = "claimed" =>
                         \E r \in LiveOf(j) : owner[r] = claimedBy[j] /\ lease[r] # "none"
  OBVIOUS
<1>1. PICK r \in LiveOf(j) : AttemptFenced(r)
  BY DEF ClaimInv, Backed, LiveOf
<1>2. reqJob[r] = j /\ Live(r)
  BY DispatchAssumption DEF LiveOf, Live
<1> QED
  BY <1>1, <1>2 DEF AttemptFenced

\* The attempts of a job that is backed are reported by its claimant only.
LEMMA BackedIsFenced == DispatchInv /\ ClaimInv => OnlyClaimantReports
<1> SUFFICES ASSUME DispatchInv, ClaimInv, NEW r \in Reqs, NEW n \in Runners,
                    reqJob[r] # None, queue[reqJob[r]] # "none", MayReport(n, r),
                    ~Completing(reqJob[r])
             PROVE  queue[reqJob[r]] = "claimed" /\ claimedBy[reqJob[r]] = n
  BY DEF OnlyClaimantReports
<1>1. reqJob[r] \in Jobs
  BY DEF DispatchInv, TypeOK
<1>2. AttemptFenced(r)
  BY <1>1 DEF ClaimInv, Backed
<1>3. n # None
  BY DispatchAssumption
<1> QED
  BY <1>2, <1>3 DEF AttemptFenced, MayReport

-----------------------------------------------------------------------------
\* The theorems

(* Every reachable state satisfies the inductive invariant.                 *)
THEOREM InvHolds == Spec => []DispatchInv
BY InitInv, InvInductive, PTL DEF Spec

(* The tables hold only what the schema's CHECK constraints allow, and every*)
(* completion in flight names an attempt that exists.                       *)
THEOREM TypeCorrect == Spec => []TypeOK
<1>1. DispatchInv => TypeOK
  BY DEF DispatchInv
<1> QED
  BY <1>1, InvHolds, PTL

(* No retry, purge, restart or completion ever leaves a job with two        *)
(* attempts in flight: the unique index job_requests_inflight never fires.  *)
THEOREM AttemptsExclusive == Spec => []OneLiveAttempt
<1>1. DispatchInv => OneLiveAttempt
  BY DEF DispatchInv
<1> QED
  BY <1>1, InvHolds, PTL

(* The first verdict of a job and the first result of an attempt stand,     *)
(* whatever reports, retries, sweeps and restarts follow, and even when     *)
(* completions are lost.                                                    *)
THEOREM FirstResultStands == Spec => FirstResultWins
<1>1. DispatchInv /\ [Next]_vars => [ResultsStick]_vars
  BY StepInv DEF StepSafe
<1> QED
  BY <1>1, InvHolds, PTL DEF Spec, FirstResultWins

(* Whatever sessions are opened, closed, purged or lost, and even when      *)
(* completions are, the sessions stay sound.                                *)
THEOREM SessionsHold == Spec => []SessionInv
<1>1. DispatchInv /\ SessionInv /\ [Next]_vars => SessionInv'
  BY InvInductive, SessionStep
<1> QED
  BY <1>1, InitSessions, InvHolds, PTL DEF Spec

(* A session runs one attempt at a time, and an attempt in flight is bound  *)
(* only to an open session of its owner: poll_session's "newest active      *)
(* request" is the only one.                                                *)
THEOREM SessionsExclusive == Spec => []SessionsHoldOneAttempt
<1>1. SessionInv => SessionsHoldOneAttempt
  BY DEF SessionInv
<1> QED
  BY <1>1, SessionsHold, PTL

(* A runner executing an attempt is never handed the cancellation of        *)
(* another one.                                                             *)
THEOREM CancellationsAreMine == Spec => []CancellationsMatch
<1>1. SessionInv => CancellationsMatch
  BY DEF SessionInv
<1> QED
  BY <1>1, SessionsHold, PTL

(* Unless a completion is lost, every job to be run is backed by an attempt *)
(* in flight and its attempts are fenced.                                   *)
THEOREM ClaimsHold ==
  ASSUME ~LoseCompletions
  PROVE  Spec => []ClaimInv
<1>1. DispatchInv /\ SessionInv /\ ClaimInv /\ [Next]_vars => ClaimInv'
  BY ClaimStep
<1> QED
  BY <1>1, InitClaims, InvHolds, SessionsHold, PTL DEF Spec

(* Unless a completion is lost, a ready job has an attempt a poll can bind  *)
(* and a claimed one has an attempt with the claimant's lease, which the    *)
(* reaper watches; a job may lack it only while its completion is under way.*)
THEOREM NothingStranded ==
  ASSUME ~LoseCompletions
  PROVE  Spec => []NoStrandedJob
<1>1. DispatchInv /\ ClaimInv => NoStrandedJob
  BY BackedIsNotStranded
<1> QED
  BY <1>1, InvHolds, ClaimsHold, PTL

(* Unless a completion is lost, a runner whose job was requeued or claimed  *)
(* again can no longer settle it, however late its report arrives.          *)
THEOREM LateReportsFenced ==
  ASSUME ~LoseCompletions
  PROVE  Spec => []OnlyClaimantReports
<1>1. DispatchInv /\ ClaimInv => OnlyClaimantReports
  BY BackedIsFenced
<1> QED
  BY <1>1, InvHolds, ClaimsHold, PTL
=============================================================================
