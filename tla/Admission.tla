----------------------------- MODULE Admission -----------------------------
(***************************************************************************)
(* A workflow-level concurrency group (control/lite/concurrency.rs) and    *)
(* the runs that contend for it.  A submit commits admission and the run   *)
(* row, then one chunk of jobs per transaction, then a final fixup         *)
(* (submit.rs); completions, cancellations, starvation and a restart       *)
(* release the slot and hand it to the oldest waiter (settle.rs,           *)
(* reaper.rs, lifecycle.rs).                                               *)
(*                                                                         *)
(* Each transaction is one action, so anything may happen between two      *)
(* steps of a submit.  There is one group, a chunk is one job without      *)
(* needs, matrix or gate of its own, and its attempts are those of         *)
(* module Dispatch: here a job is only held, ready, claimed or done.  A    *)
(* run all of whose jobs conclude at submit takes no slot and is left out. *)
(***************************************************************************)
EXTENDS Naturals, FiniteSets

CONSTANTS
  Runs,        \* runs whose workflow names the group
  NoRun,       \* no row in concurrency_holds
  NumChunks,   \* job chunks of a submit
  MaxWaiters,  \* MAX_CONCURRENCY_WAITERS
  EventTime,   \* the payload's timestamp, 0 when it carries none
  Skipped,     \* chunks whose job concludes at submit
  External     \* runs whose jobs need a macos or windows host

Chunks == 1..NumChunks

ASSUME AdmissionAssumption ==
  /\ NoRun \notin Runs
  /\ NumChunks \in Nat \ {0}
  /\ MaxWaiters \in Nat \ {0}
  /\ EventTime \in [Runs -> Nat]
  /\ Skipped \in [Runs -> (SUBSET Chunks) \ {Chunks}]
  /\ External \subseteq Runs

VARIABLES
  server,    \* serving, stopped, or refusing to start
  status,    \* runs.status: queued and in_progress are both live
  hold,      \* concurrency_holds: the group's one row
  wait,      \* concurrency_waits.wait_id of the run's row, 0 without one
  lastWait,  \* the AUTOINCREMENT counter behind wait_id
  job,       \* jobs.queue_state of each inserted chunk, done once terminal
  next,      \* a submit: the chunk it inserts next, 0 when none is running
  held,      \* SubmitProceed.held, decided by the head of the submit
  evicted    \* history: holders displaced as stuck

groupVars  == <<hold, wait, lastWait, evicted>>
submitVars == <<next, held>>
vars       == <<server, status, job, groupVars, submitVars>>

JobStates == {"absent", "held", "ready", "claimed", "done"}

TypeOK ==
  /\ server \in {"up", "down", "aborted"}
  /\ status \in [Runs -> {"absent", "live", "completed"}]
  /\ hold \in Runs \cup {NoRun}
  /\ wait \in [Runs -> Nat]
  /\ lastWait \in Nat
  /\ job \in [Runs -> [Chunks -> JobStates]]
  /\ next \in [Runs -> 0..(NumChunks + 1)]
  /\ held \in [Runs -> BOOLEAN]
  /\ evicted \in SUBSET Runs

Init ==
  /\ server = "up"
  /\ status = [r \in Runs |-> "absent"]
  /\ hold = NoRun
  /\ wait = [r \in Runs |-> 0]
  /\ lastWait = 0
  /\ job = [r \in Runs |-> [c \in Chunks |-> "absent"]]
  /\ next = [r \in Runs |-> 0]
  /\ held = [r \in Runs |-> FALSE]
  /\ evicted = {}

-----------------------------------------------------------------------------
\* Reading the rows

Waiting == {r \in Runs : wait[r] # 0}

\* first_waiter: the lowest wait_id.
LatestWaiter(w) == w \in Waiting /\ \A v \in Waiting : wait[v] <= wait[w]
FirstWaiter(w) == w \in Waiting /\ \A v \in Waiting : wait[w] <= wait[v]

\* concurrency_queue_decision: no place left behind the holder.
QueueOverfull == Cardinality(Waiting) > MaxWaiters
QueueFull == Cardinality(Waiting) >= MaxWaiters

\* EventOrder::is_older_than.
Older(r, s) == 0 < EventTime[r] /\ EventTime[r] < EventTime[s]

\* A late delivery that would displace a newer holder or waiter.
SupersededByHolder(r, cip, single) ==
  (cip \/ single) /\ hold # NoRun /\ Older(r, hold)
Superseded(r, cip, single) ==
  (cip \/ single) /\ \E s \in Runs : (s = hold \/ s \in Waiting) /\ Older(r, s)

\* run_stuck_on_external_hosts: no row of the holder is claimable work that
\* some host could serve.  A holder without any row qualifies as well.
Stuck(r, ext) ==
  ~ext /\ \A c \in Chunks : \/ job[r][c] \in {"absent", "done"}
                            \/ job[r][c] = "ready" /\ r \in External

\* Every job row the run has is terminal.
AllTerminal(r, js) == \A c \in Chunks : js[r][c] \in {"absent", "done"}

\* The jobs table after cancel_run_inner of each run in S.
Cancelled(S) ==
  [r \in Runs |-> [c \in Chunks |->
     IF r \in S /\ job[r][c] # "absent" THEN "done" ELSE job[r][c]]]

\* runs.status after the runs in S were finished.
Finished(S) == [r \in Runs |-> IF r \in S THEN "completed" ELSE status[r]]

-----------------------------------------------------------------------------
\* Releasing the slot

\* promote_run over the jobs a waiter parked: held rows become ready.
Promoted(w, js) ==
  [js EXCEPT ![w] = [c \in Chunks |-> IF js[w][c] = "held" THEN "ready"
                                      ELSE js[w][c]]]

\* promote_next_in_group for the slot r gave up, jobs being js.  A waiter
\* that parked no job is consumed and the slot stays free.
HandOver(r, js) ==
  \/ /\ Waiting = {}
     /\ hold' = NoRun
     /\ wait' = [wait EXCEPT ![r] = 0]
     /\ job' = js
  \/ \E w \in Runs :
       /\ FirstWaiter(w)
       /\ wait' = [wait EXCEPT ![w] = 0, ![r] = 0]
       /\ \/ /\ \E c \in Chunks : js[w][c] = "held"
             /\ hold' = w
             /\ job' = Promoted(w, js)
          \/ /\ \A c \in Chunks : js[w][c] # "held"
             /\ hold' = NoRun
             /\ job' = js

\* release_concurrency_for_run: the run's hold, then its wait rows.
ReleaseRun(r, js) ==
  \/ hold = r /\ HandOver(r, js)
  \/ hold # r /\ hold' = hold /\ wait' = [wait EXCEPT ![r] = 0] /\ job' = js

-----------------------------------------------------------------------------
\* submit_run_head: the gate.  cip and single are the workflow's
\* cancel-in-progress and queue settings, ext tells whether a macos or
\* windows runner is registered.

Arrives(r) == server = "up" /\ status[r] = "absent"

\* The head commits a run that goes on to insert its jobs.
Proceeds(r, parked) ==
  /\ next' = [next EXCEPT ![r] = 1]
  /\ held' = [held EXCEPT ![r] = parked]

\* Superseded by a newer event, or behind a full queue: every job lands
\* cancelled.
ArrivalCancelled(r, cip, single, ext) ==
  /\ Arrives(r)
  /\ \/ Superseded(r, cip, single)
     \/ /\ hold # NoRun /\ ~Stuck(hold, ext)
        /\ ~cip /\ ~single /\ QueueFull
  /\ status' = [status EXCEPT ![r] = "completed"]
  /\ job' = [job EXCEPT ![r] = [c \in Chunks |-> "done"]]
  /\ UNCHANGED <<server, groupVars, submitVars>>

\* No holder.
TakeFreeSlot(r, cip, single) ==
  /\ Arrives(r)
  /\ ~Superseded(r, cip, single)
  /\ hold = NoRun
  /\ hold' = r
  /\ status' = [status EXCEPT ![r] = "live"]
  /\ Proceeds(r, FALSE)
  /\ UNCHANGED <<server, wait, lastWait, evicted, job>>

\* A stuck holder loses the slot without being cancelled.
DisplaceStuck(r, cip, single, ext) ==
  /\ Arrives(r)
  /\ ~Superseded(r, cip, single)
  /\ hold # NoRun /\ Stuck(hold, ext)
  /\ hold' = r
  /\ evicted' = evicted \cup {hold}
  /\ status' = [status EXCEPT ![r] = "live"]
  /\ Proceeds(r, FALSE)
  /\ UNCHANGED <<server, wait, lastWait, job>>

\* cancel-in-progress: every waiter and the holder are cancelled.
CancelCurrentKept(r, single, ext) ==
  /\ Arrives(r)
  /\ ~Superseded(r, TRUE, single)
  /\ hold # NoRun /\ ~Stuck(hold, ext)
  /\ status' = [Finished(Waiting) EXCEPT ![r] = "live"]
  /\ job' = Cancelled(Waiting)
  /\ wait' = [s \in Runs |-> 0]
  /\ hold' = r
  /\ Proceeds(r, FALSE)
  /\ UNCHANGED <<server, lastWait, evicted>>
CancelCurrent(r, single, ext) ==
  /\ Arrives(r)
  /\ ~Superseded(r, TRUE, single)
  /\ hold # NoRun /\ ~Stuck(hold, ext)
  /\ status' = [Finished(Waiting \cup {hold}) EXCEPT ![r] = "live"]
  /\ job' = Cancelled(Waiting \cup {hold})
  /\ wait' = [s \in Runs |-> 0]
  /\ hold' = r
  /\ Proceeds(r, FALSE)
  /\ UNCHANGED <<server, lastWait, evicted>>

\* Park behind the holder; a single queue cancels whoever waited before.
Park(r, single, ext) ==
  /\ Arrives(r)
  /\ ~Superseded(r, FALSE, single)
  /\ hold # NoRun /\ ~Stuck(hold, ext)
  /\ single \/ ~QueueFull
  /\ LET out == IF single THEN Waiting ELSE {} IN
       /\ status' = [Finished(out) EXCEPT ![r] = "live"]
       /\ job' = Cancelled(out)
       /\ wait' = [s \in Runs |-> IF s = r THEN lastWait + 1
                                  ELSE IF s \in out THEN 0 ELSE wait[s]]
  /\ lastWait' = lastWait + 1
  /\ Proceeds(r, TRUE)
  /\ UNCHANGED <<server, hold, evicted>>

SubmitHead(r) ==
  \E cip, single, ext \in BOOLEAN :
    \/ ArrivalCancelled(r, cip, single, ext)
    \/ TakeFreeSlot(r, cip, single)
    \/ DisplaceStuck(r, cip, single, ext)
    \/ cip /\ CancelCurrent(r, single, ext)
    \/ ~cip /\ Park(r, single, ext)

-----------------------------------------------------------------------------
\* The rest of a submit

\* submit_run_chunk: classified by what the head decided, whatever has become
\* of the run since.
InsertedReady(r, c) == IF c \in Skipped[r] THEN "done" ELSE "ready"
Inserted(r, c) ==
  IF c \in Skipped[r] THEN "done" ELSE IF held[r] THEN "held" ELSE "ready"

SubmitChunk(r) ==
  /\ server = "up" /\ next[r] \in Chunks
  /\ job' = [job EXCEPT ![r][next[r]] = Inserted(r, next[r])]
  /\ next' = [next EXCEPT ![r] = @ + 1]
  /\ UNCHANGED <<server, status, groupVars, held>>

SubmitEnds(r) ==
  /\ next' = [next EXCEPT ![r] = 0]
  /\ held' = [held EXCEPT ![r] = FALSE]

\* submit_run_finalize: a run with nothing left to do releases its slot.
SubmitFinalize(r) ==
  /\ server = "up" /\ next[r] = NumChunks + 1
  /\ SubmitEnds(r)
  /\ \/ /\ AllTerminal(r, job)
        /\ status' = [status EXCEPT ![r] = "completed"]
        /\ ReleaseRun(r, job)
     \/ ~AllTerminal(r, job) /\ UNCHANGED <<status, hold, wait, job>>
  /\ UNCHANGED <<server, lastWait, evicted>>

\* A chunk or the fixup failed: poison_partial_submit, or not even that.
SubmitFails(r) ==
  /\ server = "up" /\ next[r] # 0
  /\ SubmitEnds(r)
  /\ \/ /\ status' = [status EXCEPT ![r] = "completed"]
        /\ ReleaseRun(r, job)
     \/ UNCHANGED <<status, hold, wait, job>>
  /\ UNCHANGED <<server, lastWait, evicted>>

-----------------------------------------------------------------------------
\* Jobs

\* A runner takes a ready job; the run's status is not consulted.
Claim(r, c) ==
  /\ server = "up" /\ job[r][c] = "ready"
  /\ job' = [job EXCEPT ![r][c] = "claimed"]
  /\ UNCHANGED <<server, status, groupVars, submitVars>>

\* requeue_claimed: the runner is gone.
Requeue(r, c) ==
  /\ server = "up" /\ job[r][c] = "claimed"
  /\ job' = [job EXCEPT ![r][c] = "ready"]
  /\ UNCHANGED <<server, status, groupVars, submitVars>>

\* settle_node: the last terminal job finishes the run and frees the slot.
Complete(r, c) ==
  /\ server = "up" /\ job[r][c] = "claimed"
  /\ LET js == [job EXCEPT ![r][c] = "done"] IN
       \/ /\ AllTerminal(r, js)
          /\ status' = [status EXCEPT ![r] = "completed"]
          /\ ReleaseRun(r, js)
       \/ /\ ~AllTerminal(r, js)
          /\ job' = js
          /\ wait' = [wait EXCEPT ![r] = 0]
          /\ UNCHANGED <<status, hold>>
  /\ UNCHANGED <<server, lastWait, evicted, submitVars>>

\* starve_job: the run may finish, its slot is not released.
Starve(r, c) ==
  /\ server = "up" /\ job[r][c] = "ready"
  /\ job' = [job EXCEPT ![r][c] = "done"]
  /\ status' = IF AllTerminal(r, job') THEN [status EXCEPT ![r] = "completed"]
               ELSE status
  /\ UNCHANGED <<server, groupVars, submitVars>>

\* cancel_run_inner, for an operator.
CancelRun(r) ==
  /\ server = "up" /\ status[r] # "absent"
  /\ status' = [status EXCEPT ![r] = "completed"]
  /\ ReleaseRun(r, Cancelled({r}))
  /\ UNCHANGED <<server, lastWait, evicted, submitVars>>

-----------------------------------------------------------------------------
\* The server

\* The process stops; a submit under way is never resumed.
Crash ==
  /\ server = "up"
  /\ server' = "down"
  /\ next' = [r \in Runs |-> 0]
  /\ held' = [r \in Runs |-> FALSE]
  /\ UNCHANGED <<status, job, groupVars>>

HoldIsDead == hold # NoRun /\ status[hold] = "completed"

\* The wait rows left once those of S and of finished runs are dropped.
WaitsWithout(S) ==
  [r \in Runs |-> IF r \in S \/ status[r] = "completed" THEN 0 ELSE wait[r]]

\* The jobs table after requeue_claimed of the claims in Q.
Requeued(Q) ==
  [r \in Runs |-> [c \in Chunks |->
     IF <<r, c>> \in Q THEN "ready" ELSE job[r][c]]]

\* reconcile_on_boot.  The slot of a finished holder goes to its oldest
\* waiter, but the holder's row is still there when the waiter's is inserted:
\* the primary key refuses it and the server does not start.
BootAborts ==
  /\ server # "up" /\ HoldIsDead
  /\ \E w \in Runs : FirstWaiter(w) /\ \E c \in Chunks : job[w][c] = "held"
  /\ server' = "aborted"
  /\ UNCHANGED <<status, job, groupVars, submitVars>>

Boot ==
  /\ server # "up"
  /\ \/ ~HoldIsDead /\ hold' = hold /\ wait' = WaitsWithout({})
     \/ HoldIsDead /\ Waiting = {} /\ hold' = NoRun /\ wait' = WaitsWithout({})
     \/ /\ HoldIsDead /\ hold' = hold
        /\ \E w \in Runs : /\ FirstWaiter(w)
                           /\ \A c \in Chunks : job[w][c] # "held"
                           /\ wait' = WaitsWithout({w})
  /\ \E Q \in SUBSET {q \in Runs \X Chunks : job[q[1]][q[2]] = "claimed"} :
       job' = Requeued(Q)
  /\ server' = "up"
  /\ UNCHANGED <<status, lastWait, evicted, submitVars>>

Next ==
  \/ \E r \in Runs : \/ SubmitHead(r) \/ SubmitChunk(r) \/ SubmitFinalize(r)
                     \/ SubmitFails(r) \/ CancelRun(r)
                     \/ \E c \in Chunks : Claim(r, c) \/ Complete(r, c)
                                          \/ Starve(r, c) \/ Requeue(r, c)
  \/ Crash \/ BootAborts \/ Boot

Spec == Init /\ [][Next]_vars

-----------------------------------------------------------------------------
\* Properties

Group == INSTANCE GroupSlot
  WITH slot    <- hold,
       ticket  <- wait,
       last    <- lastWait,
       arrived <- {r \in Runs : status[r] # "absent"},
       ended   <- {r \in Runs : status[r] = "completed"}

\* Whatever its submits, jobs and restarts do, the group behaves as a single
\* slot with a bounded first-in first-out queue (submit_run_head,
\* promote_next_in_group, reconcile_on_boot).
ImplementsGroupSlot == Group!Spec

\* A live run with work a runner can take or has taken.
Active(r) ==
  status[r] = "live" /\ \E c \in Chunks : job[r][c] \in {"ready", "claimed"}

\* A run with a wait row is unfinished, is not the holder, has not been
\* displaced and has nothing a runner could take, whatever happened to it
\* between the steps of its submit; and no two rows share a wait_id.
WaitersParked ==
  \A r \in Waiting :
    /\ status[r] = "live" /\ hold # r /\ r \notin evicted
    /\ \A c \in Chunks : job[r][c] \notin {"ready", "claimed"}
    /\ \A s \in Waiting : wait[r] = wait[s] => r = s

\* Mutual exclusion: apart from holders that were displaced as stuck, the
\* only run whose jobs can execute before it finishes is the one in
\* concurrency_holds.
OnlyHolderRuns ==
  \A r \in Runs : Active(r) /\ r \notin evicted => hold = r

\* A run that left the queue for the slot was the oldest waiter, and every
\* row that was younger is still queued in the same order.
OldestWaiterFirst ==
  [][\A r \in Waiting : hold' = r =>
       \A s \in Waiting \ {r} : wait[r] < wait[s] /\ wait'[s] = wait[s]]_vars

\* However runs of both queue modes arrive, fail, are cancelled and survive
\* restarts, the queue stays within its limit.
QueueBounded == Cardinality(Waiting) <= MaxWaiters

\* An arrival never ends a run whose event is newer than its own, neither the
\* holder nor a waiter.
NewerRunsSurvive ==
  [][\A r, s \in Runs :
       /\ status[r] = "absent" /\ status'[r] # "absent"
       /\ status[s] = "live" /\ status'[s] = "completed"
       => ~Older(r, s)]_vars
=============================================================================
