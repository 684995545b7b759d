----------------------------- MODULE CheckRuns -----------------------------
(***************************************************************************)
(* How the statuses of jobs reach GitHub as check runs: the projector that *)
(* reads the outbox and keeps one desired state per job in                 *)
(* check_run_updates (control/lite/check_runs.rs, the same statements in   *)
(* control/pg/check_runs.rs), and the sender that leases those rows and    *)
(* calls the Checks API (github.rs).                                       *)
(*                                                                         *)
(* A transaction or a request is one action; anything may happen between   *)
(* two of them.  A status is abstracted to jobs.version, which counts the  *)
(* status changes of a job; an event only makes the projector look at the  *)
(* job.  Most changes commit their event with them, some leave it to the   *)
(* handler, which may not come to it.  The rows of workflow evaluation     *)
(* failures have no job: they are enqueued directly and found again by     *)
(* their external id.  GitHub handles a request before the client's        *)
(* timeout or not at all, and the renewal before a request outlives that   *)
(* timeout.                                                                *)
(***************************************************************************)
EXTENDS Integers

CONSTANTS
  Jobs,            \* jobs of a run that reports checks
  Failures,        \* rows of report_check_run_permanent_failure
  External,        \* external_id of a row
  Senders,         \* one per server process
  None,            \* SQL NULL
  MaxVersion,      \* bound: status changes of a job; the last is terminal
  MaxAttempts,     \* attempts before a row is dropped
  NotFoundRetries, \* CHECK_RUN_NOT_FOUND_RETRIES
  MaxChecks,       \* bound: check runs GitHub creates
  MaxRestarts      \* bound: restarts of a server process

Keys   == Jobs \cup Failures
Checks == 1..MaxChecks
Mock   == 0

ASSUME CheckRunsAssumption ==
  /\ Jobs \cap Failures = {}
  /\ External \in [Keys -> Keys]
  /\ \A j \in Jobs, k \in Keys : External[j] = External[k] => j = k
  /\ None \notin Senders \cup Keys \cup Int
  /\ "gone" \notin Senders
  /\ MaxVersion \in Nat /\ MaxChecks \in Nat /\ MaxRestarts \in Nat
  /\ MaxAttempts \in Nat \ {0} /\ NotFoundRetries \in Nat

VARIABLES
  version,    \* jobs.version
  reports,    \* runs.reports_check_runs
  woken,      \* keys the reporter has queued itself, after the stamp
  unread,     \* jobs with an outbox event behind the consumer's offset
  row,        \* check_run_updates
  mapping,    \* jobs.check_run_id
  at,         \* a sender: what it does next with its update
  update,     \* the update in hand, as it was leased
  batch,      \* leased updates it has not come to
  of,         \* GitHub: external_id of a check run
  shown,      \* GitHub: the version a check run shows
  told,       \* history: the version when a job's latest event was committed
  dropped,    \* history: keys whose latest row was given up
  simulated,  \* history: keys whose latest row was simulated
  restarts    \* history: restarts so far

jobVars    == <<version, reports, woken, unread, told>>
senderVars == <<at, update, batch>>
gitHub     == <<of, shown>>
history    == <<dropped, simulated>>
vars       == <<jobVars, row, mapping, senderVars, gitHub, history, restarts>>

Versions == 0..MaxVersion
Ids      == Checks \cup {Mock, None}
Owners   == Senders \cup {None, "gone"}
Updates  == [key : Keys, version : Versions, id : Ids, attempts : 0..MaxAttempts]
Phases   == {"idle", "started", "lookup", "found", "send", "inflight",
             "created", "sent", "mocked", "failed", "rejected"}

NoRow    == [version |-> -1, id |-> None, attempts |-> 0, due |-> FALSE,
             owner |-> None, lease |-> "none"]
NoUpdate == [key |-> None, version |-> -1, id |-> None, attempts |-> 0]

TypeOK ==
  /\ version \in [Jobs -> Versions]
  /\ reports \in BOOLEAN
  /\ woken \subseteq Keys
  /\ unread \subseteq Jobs
  /\ told \in [Jobs -> Versions]
  /\ row \in [Keys -> [version : Versions, id : Ids, attempts : 0..MaxAttempts,
                       due : BOOLEAN, owner : Owners,
                       lease : {"none", "future", "past"}] \cup {NoRow}]
  /\ mapping \in [Keys -> Ids]
  /\ at \in [Senders -> Phases]
  /\ update \in [Senders -> Updates \cup {NoUpdate}]
  /\ \A s \in Senders : update[s] = NoUpdate <=> at[s] = "idle"
  /\ batch \in [Senders -> SUBSET Updates]
  /\ of \in [Checks -> Keys \cup {None}]
  /\ shown \in [Checks -> Versions]
  /\ dropped \subseteq Keys
  /\ simulated \subseteq Keys
  /\ restarts \in 0..MaxRestarts

Init ==
  /\ version = [j \in Jobs |-> 0]
  /\ reports = FALSE
  /\ woken = {}
  /\ unread = Jobs
  /\ told = [j \in Jobs |-> 0]
  /\ row = [k \in Keys |-> NoRow]
  /\ mapping = [k \in Keys |-> None]
  /\ at = [s \in Senders |-> "idle"]
  /\ update = [s \in Senders |-> NoUpdate]
  /\ batch = [s \in Senders |-> {}]
  /\ of = [c \in Checks |-> None]
  /\ shown = [c \in Checks |-> 0]
  /\ dropped = {}
  /\ simulated = {}
  /\ restarts = 0

-----------------------------------------------------------------------------
(* Jobs, reporters and the projector. *)

\* An outbox row about the jobs of S is committed; a row with no job_id is
\* about every job of the run.
Tells(S) ==
  /\ unread' = unread \cup S
  /\ told' = [j \in Jobs |-> IF j \in S THEN version'[j] ELSE told[j]]

\* jobs_version counts every change of a job's row.
Changes(j) ==
  /\ version[j] < MaxVersion
  /\ version' = [version EXCEPT ![j] = @ + 1]

\* A job is released, claimed or reported, with the event in the same
\* transaction; one that concludes the run writes run.completed as well.
StatusChanges(j) ==
  /\ Changes(j)
  /\ Tells({j}) \/ Tells(Jobs)
  /\ UNCHANGED <<reports, woken, row, mapping, senderVars, gitHub, history, restarts>>

\* A job is starved, cancelled or ended by fail-fast, which leaves the event
\* to the handler, or is requeued or held, which has none.
ChangesUntold(j) ==
  /\ Changes(j)
  /\ UNCHANGED <<reports, woken, unread, told, row, mapping, senderVars, gitHub, history, restarts>>

\* append_event, from emit, any time after the change, or never: an append
\* that fails is only logged, a status the job has left since is not
\* published, and the process may end first.  Events of a status already told
\* of do what a repeated Wake does.
Emit(j) ==
  /\ told[j] < version[j]
  /\ UNCHANGED version
  /\ Tells({j})
  /\ UNCHANGED <<reports, woken, row, mapping, senderVars, gitHub, history, restarts>>

\* set_reports_check_runs: the stamp lands after the run was submitted ...
StampReports ==
  /\ ~reports
  /\ reports' = TRUE
  /\ UNCHANGED <<version, woken, unread, told, row, mapping, senderVars, gitHub, history,
                 restarts>>

\* ... and append_check_run_projection wakes the projector for each job.
Wake(j) ==
  /\ reports
  /\ woken' = woken \cup {j}
  /\ UNCHANGED version
  /\ Tells({j})
  /\ UNCHANGED <<reports, row, mapping, senderVars, gitHub, history, restarts>>

\* enqueue_check_run_update; every report has a run id of its own.
EnqueueFailure(f) ==
  /\ f \notin woken
  /\ woken' = woken \cup {f}
  /\ row' = [row EXCEPT ![f] = [NoRow EXCEPT !.version = 0, !.due = TRUE]]
  /\ UNCHANGED <<version, reports, unread, told, mapping, senderVars, gitHub, history, restarts>>

\* The jobs of S that project_row upserts: only a newer version counts.
Newer(S) == {j \in S : reports /\ version[j] > row[j].version}

\* consume_check_run_outbox: the events tell which jobs to look at, the row
\* is made of what the job is now; a lease on the older row is void.
Project(S) ==
  /\ S # {} /\ S \subseteq unread
  /\ unread' = unread \ S
  /\ row' = [k \in Keys |->
       IF k \in Newer(S)
       THEN [NoRow EXCEPT !.version = version[k], !.due = TRUE,
                          !.id = IF mapping[k] # None THEN mapping[k] ELSE row[k].id]
       ELSE row[k]]
  /\ dropped' = dropped \ Newer(S)
  /\ simulated' = simulated \ Newer(S)
  /\ UNCHANGED <<version, reports, woken, told, mapping, senderVars, gitHub, restarts>>

-----------------------------------------------------------------------------
(* The sender. *)

\* The condition of the statements a sender writes under its lease.
Owns(s, k) == row[k].owner = s
OwnsVersion(s, k) == Owns(s, k) /\ row[k].version = update[s].version

Moves(s, phase) == at' = [at EXCEPT ![s] = phase]

\* send_one returns.
Ends(s) == Moves(s, "idle") /\ update' = [update EXCEPT ![s] = NoUpdate]

Stays == UNCHANGED <<jobVars, gitHub, history, restarts>>

\* The row after its lease was given back.
Released(r) == [r EXCEPT !.owner = None, !.lease = "none", !.due = FALSE]

\* Mutant: a lease that ran out is not taken over.
LeasableFree(s) == {k \in Keys : row[k].due /\ row[k].lease = "none"}

Leasable(s) ==
  {k \in Keys : row[k].due /\ (row[k].lease # "future" \/ Owns(s, k))}

\* Mutant: a second batch is leased before the first is done.
LeaseAhead(s) ==
  /\ at[s] = "idle" /\ Leasable(s) # {}
  /\ row' = [k \in Keys |-> IF k \in Leasable(s)
                            THEN [row[k] EXCEPT !.owner = s, !.lease = "future"] ELSE row[k]]
  /\ batch' = [batch EXCEPT ![s] = @ \cup
       {[key |-> k, version |-> row[k].version, id |-> row[k].id,
         attempts |-> row[k].attempts] : k \in Leasable(s)}]
  /\ UNCHANGED <<mapping, at, update>> /\ Stays

\* lease_check_run_updates
Lease(s) ==
  /\ at[s] = "idle" /\ batch[s] = {} /\ Leasable(s) # {}
  /\ row' = [k \in Keys |-> IF k \in Leasable(s)
                            THEN [row[k] EXCEPT !.owner = s, !.lease = "future"] ELSE row[k]]
  /\ batch' = [batch EXCEPT ![s] =
       {[key |-> k, version |-> row[k].version, id |-> row[k].id,
         attempts |-> row[k].attempts] : k \in Leasable(s)}]
  /\ UNCHANGED <<mapping, at, update>> /\ Stays

\* drain_once comes to the next update of its batch.
Begin(s) ==
  /\ at[s] = "idle"
  /\ \E u \in batch[s] : /\ update' = [update EXCEPT ![s] = u]
                         /\ batch' = [batch EXCEPT ![s] = @ \ {u}]
  /\ Moves(s, "started")
  /\ UNCHANGED <<row, mapping>> /\ Stays

\* The breaker is open, at the start or when a request is due: the row is
\* given back without an attempt being counted.
Defer(s) ==
  LET k == update[s].key
  IN  /\ at[s] \in {"started", "lookup", "inflight"}
      /\ row' = IF Owns(s, k) THEN [row EXCEPT ![k] = Released(@)] ELSE row
      /\ Ends(s)
      /\ UNCHANGED <<mapping, batch>> /\ Stays

\* No token: a made-up id is recorded, unless that fails ...
Simulate(s) ==
  LET k == update[s].key
  IN  /\ at[s] = "started"
      /\ \/ /\ mapping' = IF k \in Jobs /\ mapping[k] = None
                          THEN [mapping EXCEPT ![k] = Mock] ELSE mapping
            /\ Moves(s, "mocked")
         \/ Moves(s, "failed") /\ UNCHANGED mapping
      /\ UNCHANGED <<row, update, batch>> /\ Stays

\* The rows after set_check_run_update_id.
WithId(s, id) ==
  LET k == update[s].key
  IN  IF OwnsVersion(s, k) THEN [row EXCEPT ![k].id = id, ![k].lease = "future"] ELSE row

\* persist_check_run_id: the row, then the job's mapping; either may fail.
Persists(s, id, phase) ==
  LET k == update[s].key
  IN  \/ /\ row' = WithId(s, id)
         /\ mapping' = IF k \in Jobs THEN [mapping EXCEPT ![k] = id] ELSE mapping
         /\ Moves(s, phase)
      \/ row' \in {row, WithId(s, id)} /\ Moves(s, "failed") /\ UNCHANGED mapping

\* The id of the row, else that of the job, else GitHub is asked; a read of
\* the job that fails counts as no id.
Resolve(s) ==
  LET known == mapping[update[s].key]
  IN  /\ at[s] = "started"
      /\ \/ /\ update[s].id # None
            /\ Moves(s, "send")
            /\ UNCHANGED <<row, mapping, update>>
         \/ /\ update[s].id = None /\ known # None
            /\ update' = [update EXCEPT ![s].id = known]
            /\ Persists(s, known, "send")
         \/ /\ update[s].id = None
            /\ Moves(s, "lookup")
            /\ UNCHANGED <<row, mapping, update>>
      /\ UNCHANGED batch /\ Stays

\* Mutant: GitHub is not asked for an earlier create.
MatchesNone(k) == {c \in Checks : FALSE}

\* find_existing_check_run: a check with the row's external_id, or none.
Matches(k) == {c \in Checks : of[c] = External[k]}

Lookup(s) ==
  LET k == update[s].key
  IN  /\ at[s] = "lookup"
      /\ \/ \E c \in Matches(k) : /\ update' = [update EXCEPT ![s].id = c]
                                  /\ Moves(s, "found")
         \/ Matches(k) = {} /\ Moves(s, "send") /\ UNCHANGED update
         \/ (Moves(s, "failed") \/ Moves(s, "rejected")) /\ UNCHANGED update
      /\ UNCHANGED <<row, mapping, batch>> /\ Stays

\* The id GitHub answered with is persisted.
Persist(s) ==
  /\ at[s] \in {"found", "created"}
  /\ Persists(s, update[s].id, IF at[s] = "found" THEN "send" ELSE "sent")
  /\ UNCHANGED <<update, batch>> /\ Stays

\* renew_check_run_update before each request: a row that was taken over or
\* replaced is left alone.
Renew(s) ==
  LET k == update[s].key
  IN  /\ at[s] = "send"
      /\ \/ /\ Owns(s, k)
            /\ row' = [row EXCEPT ![k].lease = "future"]
            /\ Moves(s, "inflight")
            /\ UNCHANGED update
         \/ ~ Owns(s, k) /\ Ends(s) /\ UNCHANGED row
      /\ UNCHANGED <<mapping, batch>> /\ Stays

\* GitHub creates a check run.  With many annotations the first requests of a
\* terminal update do not conclude it yet; the answer may be lost.
Create(s, last) ==
  LET k == update[s].key
  IN  /\ at[s] = "inflight" /\ update[s].id = None
      /\ last \/ update[s].version = MaxVersion
      /\ \E c \in Checks :
           /\ of[c] = None /\ \A d \in Checks : d < c => of[d] # None
           /\ of' = [of EXCEPT ![c] = External[k]]
           /\ shown' = [shown EXCEPT ![c] = IF last THEN update[s].version ELSE 0]
           /\ \/ /\ update' = [update EXCEPT ![s].id = c]
                 /\ Moves(s, IF last THEN "created" ELSE "found")
              \/ Moves(s, "failed") /\ UNCHANGED update
      /\ UNCHANGED <<row, mapping, batch, jobVars, history, restarts>>

\* GitHub updates one.
Patch(s, last) ==
  LET c == update[s].id
  IN  /\ at[s] = "inflight" /\ c \in Checks
      /\ last \/ update[s].version = MaxVersion
      /\ shown' = IF last THEN [shown EXCEPT ![c] = update[s].version] ELSE shown
      /\ \/ Moves(s, IF last THEN "sent" ELSE "send")
         \/ Moves(s, "failed")
      /\ UNCHANGED <<row, mapping, update, batch, of, jobVars, history, restarts>>

\* GitHub does not know the check, or not yet: the id is forgotten only
\* after a few attempts.
NotFound(s) ==
  LET k == update[s].key
      c == update[s].id
      forget == update[s].attempts >= NotFoundRetries
  IN  /\ at[s] = "inflight" /\ c # None
      /\ row' = IF forget /\ Owns(s, k) /\ row[k].id = c THEN [row EXCEPT ![k].id = None] ELSE row
      /\ mapping' = IF forget /\ mapping[k] = c THEN [mapping EXCEPT ![k] = None] ELSE mapping
      /\ Moves(s, "failed")
      /\ UNCHANGED <<update, batch>> /\ Stays

\* GitHub refuses the request, for good (422) or not, or does not answer.
Refuse(s) ==
  /\ at[s] = "inflight"
  /\ Moves(s, "failed") \/ Moves(s, "rejected")
  /\ UNCHANGED <<row, mapping, update, batch>> /\ Stays

\* Mutant: the row is deleted whatever version it has by now.
FinishAny(s) ==
  /\ at[s] \in {"sent", "mocked"}
  /\ row' = [row EXCEPT ![update[s].key] = NoRow]
  /\ Ends(s)
  /\ UNCHANGED <<mapping, batch>> /\ Stays

\* finish_check_run_update, of an update that was sent or simulated
Finish(s) ==
  LET k == update[s].key
  IN  /\ at[s] \in {"sent", "mocked"}
      /\ \/ /\ row' = IF OwnsVersion(s, k) THEN [row EXCEPT ![k] = NoRow] ELSE row
            /\ simulated' = IF OwnsVersion(s, k) /\ at[s] = "mocked"
                            THEN simulated \cup {k} ELSE simulated
            /\ Ends(s)
         \/ Moves(s, "failed") /\ UNCHANGED <<row, update, simulated>>
      /\ UNCHANGED <<mapping, batch, jobVars, gitHub, dropped, restarts>>

\* Mutant: the attempts are counted but not limited.
RetryForever(s) ==
  LET k == update[s].key
  IN  /\ at[s] \in {"failed", "rejected"}
      /\ row' = IF Owns(s, k) THEN [row EXCEPT ![k] = [Released(row[k]) EXCEPT !.attempts = @ + 1]]
                ELSE row
      /\ Ends(s)
      /\ UNCHANGED <<mapping, batch>> /\ Stays

\* retry_check_run_update: whatever version the row has, if it is owned.
Retry(s) ==
  LET k == update[s].key
      permanent == at[s] = "rejected" \/ update[s].attempts >= MaxAttempts - 1
  IN  /\ at[s] \in {"failed", "rejected"}
      /\ \/ /\ Owns(s, k) /\ permanent
            /\ row' = [row EXCEPT ![k] = NoRow]
            /\ dropped' = dropped \cup {k}
         \/ /\ Owns(s, k) /\ ~permanent
            /\ row' = [row EXCEPT ![k] = [Released(row[k]) EXCEPT !.attempts = @ + 1]]
            /\ UNCHANGED dropped
         \/ ~Owns(s, k) /\ UNCHANGED <<row, dropped>>
      /\ Ends(s)
      /\ UNCHANGED <<mapping, batch, jobVars, gitHub, simulated, restarts>>

-----------------------------------------------------------------------------
(* Time and crashes. *)

\* not_before passes.
BecomesDue(k) ==
  /\ row[k] # NoRow /\ ~ row[k].due
  /\ row' = [row EXCEPT ![k].due = TRUE]
  /\ UNCHANGED <<mapping, senderVars>> /\ Stays

\* A lease runs out, but not while the request it was renewed for is out.
Expires(k) ==
  /\ row[k].lease = "future"
  /\ \A s \in Senders : Owns(s, k) => ~ (at[s] = "inflight" /\ update[s].key = k)
  /\ row' = [row EXCEPT ![k].lease = "past"]
  /\ UNCHANGED <<mapping, senderVars>> /\ Stays

\* A server process ends; the next one's sender has an owner id of its own.
Restart(s) ==
  /\ restarts < MaxRestarts
  /\ restarts' = restarts + 1
  /\ row' = [k \in Keys |-> IF Owns(s, k) THEN [row[k] EXCEPT !.owner = "gone"] ELSE row[k]]
  /\ Ends(s)
  /\ batch' = [batch EXCEPT ![s] = {}]
  /\ UNCHANGED <<jobVars, mapping, gitHub, history>>

Sends(s) ==
  \/ Lease(s) \/ Begin(s) \/ Defer(s) \/ Simulate(s) \/ Resolve(s) \/ Lookup(s)
  \/ Persist(s) \/ Renew(s) \/ NotFound(s) \/ Refuse(s) \/ Finish(s) \/ Retry(s)
  \/ \E last \in BOOLEAN : Create(s, last) \/ Patch(s, last)

Next ==
  \/ \E j \in Jobs : StatusChanges(j) \/ ChangesUntold(j) \/ Emit(j) \/ Wake(j)
  \/ StampReports
  \/ \E f \in Failures : EnqueueFailure(f)
  \/ \E S \in SUBSET Jobs : Project(S)
  \/ \E s \in Senders : Sends(s) \/ Restart(s)
  \/ \E k \in Keys : BecomesDue(k) \/ Expires(k)

Spec == Init /\ [][Next]_vars

\* The projector polls, the sender goes on with what it has in hand, a
\* breaker closes and a token is minted some day; requests may always fail,
\* which the attempts bound.
Fairness ==
  /\ \A j \in Jobs : WF_vars(Project({j}))
  /\ \A s \in Senders :
       /\ WF_vars(Lease(s)) /\ WF_vars(Begin(s)) /\ SF_vars(Resolve(s)) /\ SF_vars(Lookup(s))
       /\ WF_vars(Persist(s)) /\ WF_vars(Renew(s)) /\ WF_vars(Finish(s)) /\ WF_vars(Retry(s))
       /\ SF_vars(Create(s, TRUE) \/ Patch(s, TRUE) \/ NotFound(s) \/ Refuse(s))
  /\ \A k \in Keys : WF_vars(BecomesDue(k)) /\ WF_vars(Expires(k))

FairSpec == Spec /\ Fairness

-----------------------------------------------------------------------------
(* Properties. *)

\* A sender has an update of this key in hand.
Busy(k) ==
  \E s \in Senders : \/ at[s] # "idle" /\ update[s].key = k
                     \/ \E u \in batch[s] : u.key = k

\* GitHub shows the status the latest event of the job told of, or a later.
IsShown(j) == \E c \in Checks : of[c] = External[j] /\ shown[c] >= told[j]

\* GitHub has one check run for an external id, although a create whose
\* answer was lost is repeated, the server may stop after any request and an
\* id may be forgotten (find_existing_check_run, persist_check_run_id).
OneCheckEach ==
  \A c, d \in Checks : of[c] # None /\ of[c] = of[d] => c = d

\* A job the reporter has queued, with no event unread, no row and no send
\* under way, shows on GitHub the status it had when its latest event was
\* committed, or a later one, unless its row was given up or simulated: a row
\* replaced while its older version was being sent is not deleted with it
\* (finish_check_run_update, project_row).  A change that was never told of
\* may stay unseen: emit only logs an append that fails.
QuietMeansShown ==
  \A j \in woken \cap Jobs :
    j \notin unread \cup dropped \cup simulated /\ row[j] = NoRow /\ ~ Busy(j) => IsShown(j)

\* A check run never goes back to an older status, whatever is retried
\* (lease_check_run_updates, renew_check_run_update).
NeverGoesBack == [][\A c \in Checks : shown'[c] >= shown[c]]_vars

\* Every status an event told of is shown or overtaken in the end once the
\* job is queued, unless its row is given up or simulated (run_consumer,
\* run_check_run_sender).
StatusReachesGitHub ==
  \A j \in Jobs : j \in woken ~> (IsShown(j) \/ j \in dropped \cup simulated)
=============================================================================
