----------------------------- MODULE Promotion -----------------------------
(***************************************************************************)
(* The job graph of one run (control/lite/promote.rs, settle.rs,           *)
(* expansion.rs, the completion half of dispatch.rs): needs and `if:`      *)
(* conditions, fail-fast, max-parallel, job-level gates, environment       *)
(* gates, and the nodes that are replaced by other jobs at run time        *)
(* (deferred matrices and reusable workflow calls).                        *)
(*                                                                         *)
(* SQLite has one writer, so a command is one transaction.  What a command *)
(* does before its promotion sweep is one action; the sweep, a loop over   *)
(* candidates that reads a graph loaded before the loop, is one action per *)
(* candidate.  While a sweep runs no other action is enabled: a crash in   *)
(* the middle of it rolls back to the state before the command.            *)
(*                                                                         *)
(* A condition is abstracted to the decision it makes for each aggregate   *)
(* of its ancestors.  A gated job's group is contended only by other runs, *)
(* whose arrivals and departures are CancelJobInner, FailJobset, GrantSlot. *)
(* The attempts behind a claim are those of module Dispatch.               *)
(***************************************************************************)
EXTENDS Naturals, FiniteSets

CONSTANTS
  Jobs,           \* every job id the run may come to have
  Submitted,      \* the ids the submit inserts
  Order,          \* jobs.job_order; expanded jobs share their node's
  Base,           \* jobs.base_id
  Needs,          \* job_needs: job ids and base ids
  If,             \* the decision of `if:` for each aggregate status
  Matrix,         \* nodes with a deferred matrix
  Callers,        \* nodes that call a reusable workflow
  Inner,          \* the jobs a node is expanded into
  FailFast,       \* base ids whose fail-fast is on
  Limit,          \* max-parallel of a base id
  Unsatisfiable,  \* jobs whose runs-on no runner and no pool offers
  Unhostable,     \* those of them whose platform no runner has
  Tolerated,      \* jobs with continue-on-error
  Gated,          \* jobs and callers in a concurrency group
  Guarded,        \* jobs with a protected environment
  MaxDrains,      \* bound: expansion loops at a time
  MaxRestarts     \* bound: restarts of the server

Terminal == {"success", "failure", "cancelled", "skipped"}
Live     == {"pending", "queued", "in_progress"}
Names    == Jobs \cup {Base[j] : j \in Jobs}
Nodes    == Matrix \cup Callers

\* A gated or guarded job waits for a need first, so that the submit itself
\* takes no gate; a call is not nested in another and has no max-parallel.
\* The submit numbers its jobs (job_offset + index); the ids of expanded jobs
\* carry their node's, so nodes share none, and a job outside names at most
\* the matrix, never a leg or a job of a call.  The legs of a base are made
\* from one job and share its needs (job_plan_from_job).
ASSUME PromotionAssumption ==
  /\ IsFiniteSet(Jobs)
  /\ Submitted \subseteq Jobs
  /\ Order \in [Jobs -> Nat]
  /\ \A j, k \in Submitted : Order[j] = Order[k] => j = k
  /\ \A j \in Jobs : Needs[j] \subseteq Names
  /\ \A j, k \in Jobs : Base[j] = Base[k] => Needs[j] = Needs[k]
  /\ If \in [Jobs -> [Terminal -> {"run", "skip", "error"}]]
  /\ Matrix \subseteq Jobs /\ Callers \subseteq Jobs /\ Matrix \cap Callers = {}
  /\ Inner \in [Jobs -> SUBSET (Jobs \ Submitted)]
  /\ \A n \in Nodes : Inner[n] \cap Nodes = {}
  /\ \A m, n \in Nodes : m # n => Inner[m] \cap Inner[n] = {}
  /\ \A n \in Nodes : \A k \in Inner[n], j \in Jobs \ Inner[n] :
       k \notin Needs[j] /\ (Base[k] \in Needs[j] => n \in Matrix)
  /\ \A n \in Matrix : Needs[n] # {} /\ \A j \in Inner[n] \cup {n} : Base[j] = n
  /\ Limit \in [Names -> Nat]
  /\ \A c \in Callers : Limit[Base[c]] >= Cardinality(Jobs)
  /\ Unhostable \subseteq Unsatisfiable
  /\ \A j \in Gated \cup Guarded : Needs[j] # {}
  /\ MaxDrains \in Nat \ {0} /\ MaxRestarts \in Nat

VARIABLES
  status,      \* jobs.status, absent before the row exists
  queue,       \* jobs.queue_state
  remaining,   \* jobs.remaining_needs
  generation,  \* jobs.expand_generation
  gate,        \* the job's row in concurrency_waits or concurrency_holds
  conclusion,  \* runs.conclusion, none while the run is not completed
  onRunner,    \* jobs a runner has claimed and not yet reported
  sweep,       \* the promotion sweep of the running transaction
  drains,      \* running drain_expansions loops
  builds,      \* claims of loops that are building a subtree
  restarts,    \* history: restarts so far
  starved      \* history: jobs the reaper failed in the ready queue

rows  == <<status, queue, remaining, gate, conclusion>>
loops == <<drains, builds, restarts, starved>>
vars  == <<rows, generation, onRunner, sweep, loops>>

QueueStates == {"none", "blocked", "held", "ready", "claimed",
                "pending_expansion", "expanding"}

TypeOK ==
  /\ status \in [Jobs -> Terminal \cup Live \cup {"absent"}]
  /\ queue \in [Jobs -> QueueStates]
  /\ remaining \in [Jobs -> Nat]
  /\ generation \in [Jobs -> Nat]
  /\ gate \in [Jobs -> {"none", "waiting", "holding"}]
  /\ conclusion \in Terminal \cup {"none"}
  /\ onRunner \subseteq Jobs
  /\ sweep \in [parked : SUBSET Jobs, todo : SUBSET Jobs, settled : BOOLEAN,
                graph : [Jobs -> Terminal \cup Live \cup {"absent"}]]
  /\ drains \in 0..MaxDrains
  /\ builds \subseteq [node : Jobs, generation : Nat]
  /\ restarts \in 0..MaxRestarts
  /\ starved \subseteq Jobs

-----------------------------------------------------------------------------
(* The graph (jobs::run_graph) and what is read off it. *)

\* Mutant: an expanded matrix node stays beside its legs.
LeavesWithNodes(st) == {j \in Jobs : st[j] # "absent"}

\* A matrix node with a leg is replaced by its legs.
Leaves(st) ==
  {j \in Jobs : /\ st[j] # "absent"
                /\ ~ (j \in Matrix /\ \E k \in Inner[j] : st[k] # "absent")}

Matching(st, need) == {j \in Leaves(st) : j = need \/ Base[j] = need}

Direct(st, j) == UNION {Matching(st, n) : n \in Needs[j]}

\* Mutant: a condition looks at the direct needs only.
AncestorsDirect(st, j) == Direct(st, j)

Ancestors(st, j) ==
  LET reach[n \in Nat] ==
        IF n = 0 THEN Direct(st, j)
        ELSE LET near == reach[n - 1] IN near \cup UNION {Direct(st, k) : k \in near}
  IN  reach[Cardinality(Jobs)]

Aggregate(statuses) ==
  IF "failure" \in statuses THEN "failure"
  ELSE IF "cancelled" \in statuses THEN "cancelled"
  ELSE IF statuses = {"success"} THEN "success" ELSE "skipped"

DependencyDecision(st, j) ==
  IF Needs[j] = {} THEN "run"
  ELSE IF Direct(st, j) = {} \/ \E k \in Direct(st, j) : st[k] \notin Terminal THEN "wait"
  ELSE If[j][Aggregate({st[k] : k \in Ancestors(st, j)})]

OpenNeeds(st, j) ==
  Cardinality({n \in Needs[j] : \E k \in Matching(st, n) : st[k] \notin Terminal})

\* Mutant: dependents that name a matrix by its base id are not refreshed.
RefreshedForIds(names, st, q, rem) ==
  [j \in Jobs |-> IF q[j] # "none" /\ Needs[j] \cap names \cap Jobs # {}
                  THEN OpenNeeds(st, j) ELSE rem[j]]

\* refresh_remaining_needs for dependents of the named jobs or bases.
RefreshedFor(names, st, q, rem) ==
  [j \in Jobs |-> IF q[j] # "none" /\ Needs[j] \cap names # {} THEN OpenNeeds(st, j)
                  ELSE rem[j]]

Refreshed(st, q, rem) ==
  [j \in Jobs |-> IF q[j] # "none" THEN OpenNeeds(st, j) ELSE rem[j]]

\* summarize_run over the leaves of a run that has no live one.
Summary(st) ==
  LET statuses == {st[j] : j \in Leaves(st)}
  IN  IF "failure" \in statuses THEN "failure"
      ELSE IF "cancelled" \in statuses THEN "cancelled"
      ELSE IF statuses = {"skipped"} THEN "skipped" ELSE "success"

AllDone(st) == \A j \in Leaves(st) : st[j] \in Terminal

\* Mutant: a live summary is stored.
ConcludedLive(st) == IF AllDone(st) THEN Summary(st) ELSE "in_progress"

\* summarize_run_row: a concluded run is never reopened.
Concluded(st) == IF AllDone(st) THEN Summary(st) ELSE conclusion

\* Mutant: one leg too many.
UnderLimitOver(j) ==
  Cardinality({k \in Jobs : /\ Base[k] = Base[j]
                            /\ \/ status[k] = "in_progress"
                               \/ queue[k] \in {"ready", "claimed"}})
    <= Limit[Base[j]]

UnderLimit(j) ==
  Cardinality({k \in Jobs : /\ Base[k] = Base[j]
                            /\ \/ status[k] = "in_progress"
                               \/ queue[k] \in {"ready", "claimed"}})
    < Limit[Base[j]]

-----------------------------------------------------------------------------
(* Settlement (settle.rs). *)

\* A reported cancellation stands; continue-on-error forgives a failure.
Effective(j, reported) ==
  IF status[j] = "cancelled" THEN "cancelled"
  ELSE IF j \in Tolerated /\ reported = "failure" THEN "success" ELSE reported

\* Mutant: fail-fast takes finished legs as well.
FailedFastAll(j, reported) ==
  {k \in Jobs \ {j} : /\ status[j] \in Live /\ Effective(j, reported) = "failure"
                      /\ Base[j] \in FailFast
                      /\ Base[k] = Base[j] /\ status[k] # "absent"}

\* The siblings a failed leg takes with it.
FailedFast(j, reported) ==
  {k \in Jobs \ {j} : /\ status[j] \in Live /\ Effective(j, reported) = "failure"
                      /\ Base[j] \in FailFast
                      /\ Base[k] = Base[j] /\ status[k] \in Live}

\* The rows finish_job_row closes when j is settled.
Closed(j, reported) ==
  FailedFast(j, reported) \cup {k \in {j} : status[k] \in Live}

SettledStatus(j, reported) ==
  [k \in Jobs |-> IF k \in FailedFast(j, reported) THEN "cancelled"
                  ELSE IF k = j /\ status[j] \in Live THEN Effective(j, reported)
                  ELSE status[k]]

SettledQueue(j, reported) ==
  [k \in Jobs |-> IF k \in Closed(j, reported) THEN "none" ELSE queue[k]]

SettledRemaining(j, reported) ==
  RefreshedFor({j, Base[j]} \cup FailedFast(j, reported),
               SettledStatus(j, reported), SettledQueue(j, reported), remaining)

\* The gates after some jobs are closed; a run whose last job ends gives up
\* all it has (release_concurrency_for_job, release_concurrency_for_run).
Released(closed, st) ==
  [k \in Jobs |-> IF k \in closed \/ AllDone(st) THEN "none" ELSE gate[k]]

\* settle_node: a verdict other than a cancellation is not replaced.
SettleNode(j, reported) ==
  LET st == SettledStatus(j, reported)
  IN  IF status[j] \in Terminal \ {"cancelled"} THEN UNCHANGED rows
      ELSE /\ status' = st
           /\ queue' = SettledQueue(j, reported)
           /\ remaining' = SettledRemaining(j, reported)
           /\ gate' = Released(Closed(j, reported) \cup {j}, st)
           /\ conclusion' = Concluded(st)

-----------------------------------------------------------------------------
(* The promotion sweep (promote.rs). *)

Idle == sweep.todo = {} /\ sweep.parked = {}

Candidates(q, rem) == {j \in Jobs : q[j] = "blocked" /\ rem[j] = 0}

\* A pass loads its candidates and the graph; one without candidates ends.
Pass(st, q, rem) ==
  [parked |-> {}, todo |-> Candidates(q, rem), graph |-> st, settled |-> FALSE]

\* One candidate less; the pass after the last one runs only if some
\* candidate of this one was settled or sent to expansion.
Advance(j, settles) ==
  LET rest == sweep.todo \ {j}
      now  == sweep.settled \/ settles
  IN  sweep' = IF rest # {} \/ ~ now
               THEN [sweep EXCEPT !.todo = rest, !.settled = now]
               ELSE Pass(status', queue', remaining')

Settles(j, reported) == SettleNode(j, reported) /\ Advance(j, TRUE)

Put(j, q, s, g) ==
  /\ queue' = [queue EXCEPT ![j] = q]
  /\ status' = [status EXCEPT ![j] = s]
  /\ gate' = [gate EXCEPT ![j] = g]
  /\ UNCHANGED <<remaining, conclusion>>

\* JobSet admission of a caller whose condition holds.
AdmitCaller(j) ==
  \/ /\ j \notin Gated \/ gate[j] # "waiting"
     /\ Put(j, "pending_expansion", status[j], IF j \in Gated THEN "holding" ELSE "none")
     /\ Advance(j, TRUE)
  \/ /\ j \in Gated /\ gate[j] # "holding"
     /\ Put(j, "held", "pending", "waiting")
     /\ Advance(j, TRUE)
  \/ /\ j \in Gated /\ gate[j] = "none"
     /\ \E s \in {"cancelled", "failure"} : Settles(j, s)

DeferMatrix(j) ==
  /\ Put(j, "pending_expansion", status[j], gate[j])
  /\ Advance(j, TRUE)

EnqueueReady(j) == Put(j, "ready", "queued", IF j \in Gated THEN "holding" ELSE "none")

\* acquire_job_gate: the slot is taken, waited for or refused; a group whose
\* expression does not evaluate fails the job.
AdmitJob(j) ==
  \/ /\ EnqueueReady(j)
     /\ Advance(j, FALSE)
  \/ /\ j \in Gated
     /\ Put(j, "held", "pending", "waiting")
     /\ Advance(j, FALSE)
  \/ /\ j \in Gated
     /\ \E s \in {"cancelled", "failure"} : Settles(j, s)

\* The environment gate comes before the runs-on check and the job gate.
StartJob(j) ==
  \/ /\ j \in Guarded
     /\ Put(j, "held", "pending", gate[j])
     /\ Advance(j, FALSE)
  \/ /\ j \in Guarded \cup Unsatisfiable
     /\ Settles(j, "failure")
  \/ /\ j \notin Unsatisfiable
     /\ AdmitJob(j)

\* One candidate of promote_run, decided on the graph the pass loaded.
SweepCandidate(j) ==
  /\ sweep.parked = {}
  /\ j \in sweep.todo
  /\ \A k \in sweep.todo : Order[j] <= Order[k]
  /\ LET decision == DependencyDecision(sweep.graph, j)
     IN  CASE decision = "run" /\ j \in Callers -> AdmitCaller(j)
           [] decision = "run" /\ j \in Matrix -> DeferMatrix(j)
           [] decision = "run" /\ j \notin Nodes /\ UnderLimit(j) -> StartJob(j)
           [] decision = "skip" -> Settles(j, "skipped")
           [] decision = "error" -> Settles(j, "failure")
           [] OTHER -> Advance(j, FALSE) /\ UNCHANGED rows
  /\ UNCHANGED <<generation, onRunner, loops>>

\* The reaper's or an approval's sweep revisits the jobs held without a
\* concurrency wait of their own, then promotes.
Parked == {j \in Jobs : queue[j] = "held" /\ status[j] = "pending" /\ gate[j] # "waiting"}

ReleaseParked ==
  /\ Idle /\ Parked # {}
  /\ sweep' = [parked |-> Parked, todo |-> {}, graph |-> status, settled |-> FALSE]
  /\ UNCHANGED <<rows, generation, onRunner, loops>>

\* release_parked_jobs for one of them: still waiting, lifted, or refused.
RevisitParked(j) ==
  /\ j \in sweep.parked
  /\ \A k \in sweep.parked : Order[j] <= Order[k]
  /\ \/ UNCHANGED rows
     \/ IF queue[j] = "held" THEN Put(j, "blocked", "queued", gate[j]) ELSE UNCHANGED rows
     \/ SettleNode(j, "failure")
  /\ sweep' = IF sweep.parked = {j} THEN Pass(status', queue', remaining')
              ELSE [sweep EXCEPT !.parked = @ \ {j}]
  /\ UNCHANGED <<generation, onRunner, loops>>

-----------------------------------------------------------------------------
(* Commands of runners, of the API and of other runs. *)

\* claim_job: a poll takes a ready job.
Claim(j) ==
  /\ Idle /\ queue[j] = "ready"
  /\ Put(j, "claimed", "in_progress", gate[j])
  /\ onRunner' = onRunner \cup {j}
  /\ UNCHANGED <<generation, sweep, loops>>

\* starve_job: the reaper fails a ready job that no runner has taken.  It
\* recounts no dependent, runs no sweep and no fail-fast, forgives nothing
\* and leaves the job's concurrency slot taken.
Starve(j) ==
  LET st == [status EXCEPT ![j] = "failure"]
  IN  /\ Idle /\ queue[j] = "ready"
      /\ status' = st
      /\ queue' = [queue EXCEPT ![j] = "none"]
      /\ conclusion' = Concluded(st)
      /\ starved' = starved \cup {j}
      /\ UNCHANGED <<remaining, gate, generation, onRunner, sweep, drains, builds, restarts>>

\* The handler of a submit or of a completion ends in drain_expansions.
StartDrain == drains' = IF drains < MaxDrains THEN drains + 1 ELSE drains

\* Mutant: one finished inner job is enough.
FoldableEarly(st) ==
  {c \in Callers : st[c] \in Live /\ \E k \in Inner[c] : st[k] \in Terminal}

\* finalize_reusable_callers: callers all of whose inner jobs are terminal.
Foldable(st) ==
  {c \in Callers : /\ st[c] \in Live /\ Inner[c] # {}
                   /\ \A k \in Inner[c] : st[k] \in Terminal}

Folded(st) ==
  [j \in Jobs |-> IF j \in Foldable(st) THEN Aggregate({st[k] : k \in Inner[j]}) ELSE st[j]]

\* complete_node, then promote_run.  A job that was cancelled meanwhile stays
\* cancelled, but its report still refreshes its dependents.
Report(j, reported) ==
  LET st     == SettledStatus(j, reported)
      folded == Foldable(st)
      q      == [k \in Jobs |-> IF k \in folded THEN "none" ELSE SettledQueue(j, reported)[k]]
  IN  /\ Idle /\ j \in onRunner
      /\ IF status[j] \in Terminal \ {"cancelled"} THEN UNCHANGED rows
         ELSE /\ status' = Folded(st)
              /\ queue' = q
              /\ remaining' = RefreshedFor(folded, Folded(st), q, SettledRemaining(j, reported))
              /\ gate' = Released(Closed(j, reported) \cup folded \cup {j}, Folded(st))
              /\ conclusion' = Concluded(Folded(st))
      /\ sweep' = Pass(status', queue', remaining')
      /\ onRunner' = onRunner \ {j}
      /\ StartDrain
      /\ UNCHANGED <<generation, builds, restarts, starved>>

\* cancel_run_inner: every live job is cancelled and its build fenced off.
CancelRun ==
  LET open == {j \in Jobs : status[j] \in Live}
  IN  /\ Idle /\ open # {}
      /\ status' = [j \in Jobs |-> IF j \in open THEN "cancelled" ELSE status[j]]
      /\ queue' = [j \in Jobs |-> IF j \in open THEN "none" ELSE queue[j]]
      /\ generation' = [j \in Jobs |-> IF j \in open THEN generation[j] + 1 ELSE generation[j]]
      /\ gate' = [j \in Jobs |-> "none"]
      /\ conclusion' = IF conclusion = "none" THEN "cancelled" ELSE conclusion
      /\ UNCHANGED <<remaining, onRunner, sweep, loops>>

\* Another run's arrival cancels a holder or a waiter of the job's group: its
\* dependents are neither recounted nor promoted.  A starved holder has ended
\* and only gives up the slot.
Displaced(j) ==
  LET st == [status EXCEPT ![j] = IF @ \in Live THEN "cancelled" ELSE @]
  IN  /\ Idle /\ gate[j] # "none"
      /\ status' = st
      /\ queue' = [queue EXCEPT ![j] = "none"]
      /\ generation' = [generation EXCEPT ![j] = @ + 1]
      /\ gate' = [gate EXCEPT ![j] = "none"]
      /\ conclusion' = Concluded(st)
      /\ UNCHANGED <<remaining, onRunner, sweep, loops>>

CancelJobInner(j) == j \notin Callers /\ Displaced(j)

FailJobset(j) == j \in Callers /\ Displaced(j)

\* promote_next_in_group hands the freed slot to this waiter.  On a base that
\* is at its max-parallel the waiter is put back in its place, and the slot
\* stays free until another run of the group gives it up again.
GrantSlot(j) ==
  /\ Idle /\ gate[j] = "waiting"
  /\ \/ /\ j \in Callers
        /\ Put(j, "blocked", "queued", "holding")
        /\ sweep' = Pass(status', queue', remaining')
     \/ /\ j \notin Callers /\ UnderLimit(j)
        /\ EnqueueReady(j)
        /\ UNCHANGED sweep
  /\ UNCHANGED <<generation, onRunner, loops>>

-----------------------------------------------------------------------------
(* Deferred expansion (expansion.rs, drain_expansions). *)

\* A loop leases a node and builds its subtree outside the transaction.
ClaimExpansion(n) ==
  /\ Idle /\ drains > Cardinality(builds)
  /\ queue[n] = "pending_expansion"
  /\ queue' = [queue EXCEPT ![n] = "expanding"]
  /\ generation' = [generation EXCEPT ![n] = @ + 1]
  /\ builds' = builds \cup {[node |-> n, generation |-> generation[n] + 1]}
  /\ UNCHANGED <<status, remaining, gate, conclusion, onRunner, sweep, drains, restarts, starved>>

\* The rows of a subtree that is folded in.
Install(n) ==
  /\ status' = [j \in Jobs |->
                  IF j \in Inner[n] THEN IF j \in Unhostable THEN "failure" ELSE "pending"
                  ELSE IF j = n /\ n \in Callers THEN "in_progress" ELSE status[j]]
  /\ queue' = [j \in Jobs |-> IF j \in Inner[n] \ Unhostable THEN "blocked"
                              ELSE IF j = n THEN "none" ELSE queue[j]]
  /\ remaining' = Refreshed(status', queue', remaining)
  /\ UNCHANGED <<gate, conclusion>>

\* The node of an empty matrix is skipped, that of a failed build fails; the
\* counts of the whole run are recomputed after it.
ConcludeNode(n, verdict) ==
  /\ status' = SettledStatus(n, verdict)
  /\ queue' = SettledQueue(n, verdict)
  /\ remaining' = Refreshed(status', queue', remaining)
  /\ gate' = Released(Closed(n, verdict) \cup {n}, status')
  /\ conclusion' = Concluded(status')

\* Mutant: the lease of the build is not compared.
ApplyExpansionUnfenced(b, outcome) ==
  /\ Idle /\ b \in builds
  /\ builds' = builds \ {b}
  /\ \/ outcome = "built" /\ Inner[b.node] # {} /\ Install(b.node)
     \/ outcome = "empty" /\ b.node \in Matrix /\ ConcludeNode(b.node, "skipped")
     \/ outcome = "failed" /\ ConcludeNode(b.node, "failure")
  /\ sweep' = Pass(status', queue', remaining')
  /\ UNCHANGED <<generation, onRunner, drains, restarts, starved>>

\* apply_expansion: a build whose lease is stale is discarded.
ApplyExpansion(b, outcome) ==
  /\ Idle /\ b \in builds
  /\ builds' = builds \ {b}
  /\ IF b.generation # generation[b.node] THEN UNCHANGED <<rows, sweep>>
     ELSE /\ \/ outcome = "built" /\ Inner[b.node] # {} /\ Install(b.node)
             \/ outcome = "empty" /\ b.node \in Matrix /\ ConcludeNode(b.node, "skipped")
             \/ outcome = "failed" /\ ConcludeNode(b.node, "failure")
          /\ sweep' = Pass(status', queue', remaining')
  /\ UNCHANGED <<generation, onRunner, drains, restarts, starved>>

\* A loop ends when no node is pending; another run's handler starts one.
EndDrain ==
  /\ Idle /\ drains > Cardinality(builds)
  /\ \A n \in Jobs : queue[n] # "pending_expansion"
  /\ drains' = drains - 1
  /\ UNCHANGED <<rows, generation, onRunner, sweep, builds, restarts, starved>>

DrainElsewhere ==
  /\ Idle /\ drains < MaxDrains
  /\ \E n \in Jobs : queue[n] = "pending_expansion"
  /\ StartDrain
  /\ UNCHANGED <<rows, generation, onRunner, sweep, builds, restarts, starved>>

\* Mutant: the boot leaves the leased nodes as they are.
RestartKeeps ==
  /\ Idle /\ restarts < MaxRestarts
  /\ restarts' = restarts + 1
  /\ drains' = 0 /\ builds' = {}
  /\ UNCHANGED <<rows, generation, onRunner, sweep, starved>>

\* A restart loses the loops; the boot releases the nodes they leased.
Restart ==
  /\ Idle /\ restarts < MaxRestarts
  /\ restarts' = restarts + 1
  /\ drains' = 0 /\ builds' = {}
  /\ queue' = [j \in Jobs |-> IF queue[j] = "expanding" THEN "pending_expansion" ELSE queue[j]]
  /\ UNCHANGED <<status, remaining, gate, conclusion, generation, onRunner, sweep, starved>>

-----------------------------------------------------------------------------
(* The submit (submit.rs). *)

\* Jobs without needs that the submit does not conclude.
Startable ==
  {j \in Submitted \ Nodes : /\ Needs[j] = {} /\ j \notin Unsatisfiable
                             /\ If[j]["success"] = "run"}

\* The legs of a base that get a slot, in job order.
InitiallyReady ==
  {j \in Startable :
     Cardinality({k \in Startable : Base[k] = Base[j] /\ Order[k] < Order[j]}) < Limit[Base[j]]}

InitialStatus(j) ==
  IF j \notin Submitted THEN "absent"
  ELSE IF Needs[j] # {} THEN "queued"
  ELSE IF j \in Unhostable THEN "failure"
  ELSE IF If[j]["success"] # "run" THEN "skipped"
  ELSE IF j \in Unsatisfiable \ Nodes THEN "failure"
  ELSE IF j \in Callers THEN "pending" ELSE "queued"

InitialQueue(j) ==
  IF InitialStatus(j) \notin Live THEN "none"
  ELSE IF j \in InitiallyReady THEN "ready" ELSE "blocked"

Init ==
  /\ status = [j \in Jobs |-> InitialStatus(j)]
  /\ queue = [j \in Jobs |-> InitialQueue(j)]
  /\ remaining = [j \in Jobs |-> IF InitialQueue(j) = "none" THEN 0 ELSE OpenNeeds(status, j)]
  /\ generation = [j \in Jobs |-> 0]
  /\ gate = [j \in Jobs |-> "none"]
  /\ conclusion = IF AllDone(status) THEN Summary(status) ELSE "none"
  /\ onRunner = {}
  /\ sweep = Pass(status, queue, remaining)
  /\ drains = 1 /\ builds = {} /\ restarts = 0 /\ starved = {}

Next ==
  \/ \E j \in Jobs : SweepCandidate(j) \/ RevisitParked(j)
  \/ ReleaseParked
  \/ \E j \in Jobs : Claim(j) \/ Starve(j) \/ GrantSlot(j) \/ ClaimExpansion(j)
  \/ \E j \in Jobs : CancelJobInner(j) \/ FailJobset(j)
  \/ \E j \in Jobs, s \in {"success", "failure", "cancelled"} : Report(j, s)
  \/ CancelRun
  \/ \E b \in builds, o \in {"built", "empty", "failed"} : ApplyExpansion(b, o)
  \/ EndDrain \/ DrainElsewhere \/ Restart

\* A transaction runs to its end, runners poll and report, an expansion loop
\* goes on until nothing is pending, a group's holder ends some day.
Fairness ==
  /\ \A j \in Jobs : /\ WF_vars(SweepCandidate(j)) /\ WF_vars(RevisitParked(j))
                     /\ WF_vars(Claim(j)) /\ WF_vars(GrantSlot(j))
                     /\ WF_vars(\E s \in {"success", "failure", "cancelled"} : Report(j, s))
                     /\ WF_vars(ClaimExpansion(j))
  /\ WF_vars(\E b \in builds, o \in {"built", "empty", "failed"} : ApplyExpansion(b, o))

Spec == Init /\ [][Next]_vars
FairSpec == Spec /\ Fairness

-----------------------------------------------------------------------------
(* Properties. *)

\* A job is offered to runners only while everything it needs, by job id or
\* by base id, is terminal, and with a call the jobs it was expanded into
\* (remaining_needs, dependency_decision, finalize_reusable_callers).  It
\* is claimed of graphs whose calls are in no concurrency group of their own:
\* a call displaced from its group leaves its jobs running.
StartsAfterNeeds ==
  \A j \in Jobs : queue[j] \in {"ready", "claimed"} =>
    \A k \in Direct(status, j) :
      /\ status[k] \in Terminal
      /\ k \in Callers => \A i \in Inner[k] : status[i] \notin Live

\* No more legs of a base are ready or running than its max-parallel, whoever
\* let them through: the submit, a sweep or a freed concurrency slot
\* (under_max_parallel).
MaxParallelKept ==
  \A b \in Names :
    Cardinality({k \in Jobs : /\ Base[k] = b
                              /\ \/ status[k] = "in_progress" /\ k \notin Callers
                                 \/ queue[k] \in {"ready", "claimed"}}) <= Limit[b]

\* Between two commands a completed run has no live job
\* (summarize_run_row, release_concurrency_for_run).
CompletedRunIsDone == Idle /\ conclusion # "none" => AllDone(status)

WaitsFor(j, k) == {k, Base[k]} \cap Needs[j] # {}

\* A live job that nobody moves and that a starved job may have left behind:
\* it needs that job, shares its base, or is the call it belongs to.
Abandoned ==
  \E j \in Jobs, k \in starved :
    /\ status[j] \in Live /\ queue[j] \in {"none", "blocked"}
    /\ WaitsFor(j, k) \/ Base[j] = Base[k] \/ (j \in Callers /\ k \in Inner[j])

\* Between two commands a run that is not completed has a job some actor
\* will move, a runner, an expansion loop, a gate or an approval, unless it
\* has one next to a starved job: starve_job tells nobody.  Any other blocked
\* job that nothing will promote leaves the run hanging (apply_fail_fast,
\* propagate_reusable_outputs).
NoHungRun ==
  Idle /\ conclusion = "none" =>
    \/ \E j \in Jobs : queue[j] \in {"ready", "claimed", "held", "pending_expansion", "expanding"}
    \/ Abandoned

\* A terminal job keeps its status: a fail-fast or cancelled job does not
\* come back, and a subtree built before a cancellation is not folded in
\* (finish_job_row, apply_expansion).  It is claimed of graphs in which no
\* sweep and no build fails one of several legs of a fail-fast matrix: the
\* others are cancelled, and the sweep or their builds go on with them.
VerdictsStand ==
  [][\A j \in Jobs : status[j] \in Terminal => status'[j] = status[j]]_vars

\* Everything a job depends on, directly or not: what lies in every set that
\* holds its needs and is closed under needs.
Behind(j) ==
  {k \in Jobs : \A A \in SUBSET Jobs :
     Direct(status, j) \subseteq A /\ (\A a \in A : Direct(status, a) \subseteq A) => k \in A}

\* A job is skipped or started only as its condition says of everything it
\* depends on at that moment, although the sweep decides on the graph it
\* loaded before it settled other candidates (promote_run,
\* ancestor_statuses).
ConditionsDecide ==
  [][\A j \in Jobs \ Nodes :
       LET decision == If[j][Aggregate({status[k] : k \in Behind(j)})]
       IN  Needs[j] # {} =>
             /\ status[j] \in Live /\ status'[j] = "skipped" => decision = "skip"
             /\ queue[j] = "blocked" /\ queue'[j] = "ready" => decision = "run"]_vars

\* A node waits for an expansion loop and none runs: only the handler of the
\* next submit or completion, of this run or another, starts one.
AwaitsLoop == drains = 0 /\ \E n \in Jobs : queue[n] = "pending_expansion"

\* Under the fairness above every run is completed in the end, waits for an
\* expansion loop, or has a live job next to a starved one (remaining_needs,
\* the folding of calls, drain_expansions, starve_job).
RunConcludes == <>[](conclusion # "none" \/ AwaitsLoop \/ Abandoned)
=============================================================================
