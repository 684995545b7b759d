-------------------------- MODULE AdmissionProofs --------------------------
(* Safety of the concurrency group for every set of runs, every number of    *)
(* chunks and every queue bound.                                             *)
EXTENDS Admission, FiniteSetTheorems, TLAPS

\* A run the server has not seen yet owns nothing.
AbsentOwnsNothing ==
  \A r \in Runs : status[r] = "absent" =>
    /\ wait[r] = 0 /\ hold # r /\ next[r] = 0 /\ r \notin evicted
    /\ \A c \in Chunks : job[r][c] = "absent"

\* What a submit decided at its head stays true of an unfinished run: parked
\* runs insert held jobs, and only the holder inserts ready ones.
SubmitsAgree ==
  \A r \in Runs : next[r] # 0 /\ status[r] = "live" =>
    /\ r \in Waiting => held[r]
    /\ ~held[r] /\ r \notin evicted => hold = r

\* wait_id comes from a counter.
WaitIdsIssued == \A r \in Runs : wait[r] <= lastWait

Inv == /\ TypeOK
       /\ WaitersParked
       /\ OnlyHolderRuns
       /\ AbsentOwnsNothing
       /\ SubmitsAgree
       /\ WaitIdsIssued

-----------------------------------------------------------------------------

JobTable == [Runs -> [Chunks -> JobStates]]

\* Cancelling runs in the jobs table (cancel_run_inner) yields a jobs table
\* in which only the rows of those runs differ, and they are terminal.
LEMMA CancelledTable ==
  ASSUME TypeOK, NEW S
  PROVE  /\ Cancelled(S) \in JobTable
         /\ \A r \in Runs \ S : Cancelled(S)[r] = job[r]
         /\ \A r \in Runs \cap S : \A c \in Chunks :
              Cancelled(S)[r][c] \in {"absent", "done"}
  <1>1. Cancelled(S) \in JobTable
    BY DEF Cancelled, TypeOK, JobTable, JobStates
  <1>2. ASSUME NEW r \in Runs \ S PROVE Cancelled(S)[r] = job[r]
    <2>1. job[r] = [c \in Chunks |-> job[r][c]]
      BY DEF TypeOK
    <2> QED BY <2>1 DEF Cancelled
  <1>3. ASSUME NEW r \in Runs \cap S, NEW c \in Chunks
        PROVE  Cancelled(S)[r][c] \in {"absent", "done"}
    BY DEF Cancelled
  <1> QED BY <1>1, <1>2, <1>3

\* A step that finishes run r and releases what it owns in the group
\* (release_concurrency_for_run with promote_next_in_group) keeps the
\* invariant, whatever it does to the rows of r and to the submit of r.
LEMMA ReleaseStep ==
  ASSUME Inv, NEW r \in Runs, NEW js \in JobTable,
         status[r] # "absent",
         \A s \in Runs \ {r} : js[s] = job[s],
         status' = [status EXCEPT ![r] = "completed"],
         ReleaseRun(r, js),
         server' = server, lastWait' = lastWait, evicted' = evicted,
         next' \in [Runs -> 0..(NumChunks + 1)],
         held' \in [Runs -> BOOLEAN],
         \A s \in Runs \ {r} : next'[s] = next[s] /\ held'[s] = held[s]
  PROVE  Inv'
  <1> USE AdmissionAssumption
  <1>1. CASE hold # r
    <2>1. /\ hold' = hold
          /\ wait' = [wait EXCEPT ![r] = 0]
          /\ job' = js
      BY <1>1 DEF ReleaseRun
    <2>2. TypeOK'
      BY <2>1 DEF Inv, TypeOK, JobTable
    <2>3. WaitersParked' /\ WaitIdsIssued'
      BY <2>1 DEF Inv, TypeOK, WaitersParked, WaitIdsIssued, Waiting, JobTable
    <2>4. OnlyHolderRuns'
      BY <2>1 DEF Inv, TypeOK, OnlyHolderRuns, Active, JobTable
    <2>5. AbsentOwnsNothing' /\ SubmitsAgree'
      BY <2>1 DEF Inv, TypeOK, AbsentOwnsNothing, SubmitsAgree, Waiting, JobTable
    <2> QED BY <2>2, <2>3, <2>4, <2>5 DEF Inv
  <1>2. CASE hold = r /\ Waiting = {}
    <2>1. /\ hold' = NoRun
          /\ wait' = [wait EXCEPT ![r] = 0]
          /\ job' = js
      BY <1>2 DEF ReleaseRun, HandOver, FirstWaiter
    <2>2. TypeOK'
      BY <2>1 DEF Inv, TypeOK, JobTable
    <2>3. WaitersParked' /\ WaitIdsIssued'
      BY <1>2, <2>1 DEF Inv, TypeOK, WaitersParked, WaitIdsIssued, Waiting, JobTable
    <2>4. OnlyHolderRuns'
      BY <1>2, <2>1 DEF Inv, TypeOK, OnlyHolderRuns, Active, JobTable
    <2>5. AbsentOwnsNothing' /\ SubmitsAgree'
      BY <1>2, <2>1 DEF Inv, TypeOK, AbsentOwnsNothing, SubmitsAgree, Waiting, JobTable
    <2> QED BY <2>2, <2>3, <2>4, <2>5 DEF Inv
  <1>3. CASE hold = r /\ Waiting # {}
    <2>1. PICK w \in Runs :
            /\ FirstWaiter(w)
            /\ wait' = [wait EXCEPT ![w] = 0, ![r] = 0]
            /\ \/ /\ \E c \in Chunks : js[w][c] = "held"
                  /\ hold' = w
                  /\ job' = Promoted(w, js)
               \/ /\ \A c \in Chunks : js[w][c] # "held"
                  /\ hold' = NoRun
                  /\ job' = js
      BY <1>3 DEF ReleaseRun, HandOver
    <2>2. /\ w \in Waiting /\ w # r /\ status[w] = "live" /\ w \notin evicted
          /\ js[w] = job[w]
          /\ \A c \in Chunks : job[w][c] \notin {"ready", "claimed"}
          /\ next[w] # 0 => held[w]
      BY <1>3, <2>1 DEF FirstWaiter, Waiting, Inv, WaitersParked, SubmitsAgree
    <2>3. Promoted(w, js) \in JobTable
          /\ \A s \in Runs \ {w} : Promoted(w, js)[s] = js[s]
      BY DEF Promoted, JobTable, JobStates
    <2>4. /\ job' \in JobTable
          /\ hold' \in {w, NoRun}
          /\ \A s \in Runs \ {r, w} : job'[s] = job[s]
          /\ hold' = NoRun => job'[w] = job[w]
      BY <2>1, <2>2, <2>3
    <2>5. /\ wait' \in [Runs -> Nat]
          /\ wait'[w] = 0 /\ wait'[r] = 0
          /\ \A s \in Runs \ {r, w} : wait'[s] = wait[s]
      BY <2>1 DEF Inv, TypeOK
    <2>6. /\ \A s \in Runs \ {r} : status'[s] = status[s]
          /\ status'[r] = "completed"
          /\ status' \in [Runs -> {"absent", "live", "completed"}]
      BY DEF Inv, TypeOK
    <2>7. TypeOK'
      BY <2>4, <2>5, <2>6 DEF Inv, TypeOK, JobTable
    <2>8. WaitersParked'
      <3>1. ASSUME NEW s \in Runs, wait'[s] # 0
            PROVE  /\ s \in Runs \ {r, w} /\ wait[s] # 0 /\ wait'[s] = wait[s]
                   /\ hold' # s /\ job'[s] = job[s] /\ status'[s] = status[s]
        BY <2>4, <2>5, <2>6, <3>1
      <3>2. WaitersParked
        BY DEF Inv
      <3> QED BY <3>1, <3>2 DEF WaitersParked, Waiting
    <2>9. WaitIdsIssued'
      BY <2>5 DEF Inv, TypeOK, WaitIdsIssued
    <2>10. OnlyHolderRuns'
      BY <1>3, <2>2, <2>4, <2>6 DEF Inv, OnlyHolderRuns, Active
    <2>11. AbsentOwnsNothing'
      BY <1>3, <2>2, <2>4, <2>5, <2>6 DEF Inv, AbsentOwnsNothing
    <2>12. SubmitsAgree'
      BY <1>3, <2>2, <2>4, <2>5, <2>6 DEF Inv, SubmitsAgree, Waiting
    <2> QED BY <2>7, <2>8, <2>9, <2>10, <2>11, <2>12 DEF Inv
  <1> QED BY <1>1, <1>2, <1>3

-----------------------------------------------------------------------------

\* The head of a submit (submit_run_head): an arrival that takes the slot, is
\* parked or is cancelled keeps the invariant.
LEMMA HeadStep ==
  ASSUME Inv, NEW r \in Runs, SubmitHead(r)
  PROVE  Inv'
  <1> USE AdmissionAssumption
  <1>0. /\ status[r] = "absent" /\ wait[r] = 0 /\ hold # r /\ next[r] = 0
        /\ r \notin evicted /\ r \notin Waiting
        /\ \A c \in Chunks : job[r][c] = "absent"
    BY DEF SubmitHead, ArrivalCancelled, TakeFreeSlot, DisplaceStuck,
           CancelCurrent, Park, Arrives, Inv, AbsentOwnsNothing, Waiting
  <1>1. ASSUME NEW cip \in BOOLEAN, NEW single \in BOOLEAN, NEW ext \in BOOLEAN,
               ArrivalCancelled(r, cip, single, ext)
        PROVE  Inv'
    <2> USE <1>1 DEF ArrivalCancelled, groupVars, submitVars
    <2>1. TypeOK'
      BY DEF Inv, TypeOK, JobStates
    <2>2. WaitersParked' /\ WaitIdsIssued'
      BY <1>0 DEF Inv, TypeOK, WaitersParked, WaitIdsIssued, Waiting
    <2>3. OnlyHolderRuns'
      BY <1>0 DEF Inv, TypeOK, OnlyHolderRuns, Active
    <2>4. AbsentOwnsNothing' /\ SubmitsAgree'
      BY <1>0 DEF Inv, TypeOK, AbsentOwnsNothing, SubmitsAgree, Waiting
    <2> QED BY <2>1, <2>2, <2>3, <2>4 DEF Inv
  <1>2. ASSUME NEW cip \in BOOLEAN, NEW single \in BOOLEAN,
               TakeFreeSlot(r, cip, single)
        PROVE  Inv'
    <2> USE <1>2 DEF TakeFreeSlot, Proceeds
    <2>1. TypeOK'
      BY DEF Inv, TypeOK
    <2>2. WaitersParked' /\ WaitIdsIssued'
      BY <1>0 DEF Inv, TypeOK, WaitersParked, WaitIdsIssued, Waiting
    <2>3. OnlyHolderRuns'
      BY <1>0 DEF Inv, TypeOK, OnlyHolderRuns, Active
    <2>4. AbsentOwnsNothing' /\ SubmitsAgree'
      BY <1>0 DEF Inv, TypeOK, AbsentOwnsNothing, SubmitsAgree, Waiting
    <2> QED BY <2>1, <2>2, <2>3, <2>4 DEF Inv
  <1>3. ASSUME NEW cip \in BOOLEAN, NEW single \in BOOLEAN, NEW ext \in BOOLEAN,
               DisplaceStuck(r, cip, single, ext)
        PROVE  Inv'
    <2> USE <1>3 DEF DisplaceStuck, Proceeds
    <2>1. TypeOK'
      BY DEF Inv, TypeOK
    <2>2. WaitersParked' /\ WaitIdsIssued'
      BY <1>0 DEF Inv, TypeOK, WaitersParked, WaitIdsIssued, Waiting
    <2>3. OnlyHolderRuns'
      BY <1>0 DEF Inv, TypeOK, OnlyHolderRuns, Active
    <2>4. AbsentOwnsNothing' /\ SubmitsAgree'
      BY <1>0 DEF Inv, TypeOK, AbsentOwnsNothing, SubmitsAgree, Waiting
    <2> QED BY <2>1, <2>2, <2>3, <2>4 DEF Inv
  <1>4. ASSUME NEW single \in BOOLEAN, NEW ext \in BOOLEAN,
               CancelCurrent(r, single, ext)
        PROVE  Inv'
    <2> DEFINE S == Waiting \cup {hold}
    <2>a. /\ hold \in Runs /\ hold' = r
          /\ wait' = [s \in Runs |-> 0]
          /\ next' = [next EXCEPT ![r] = 1]
          /\ held' = [held EXCEPT ![r] = FALSE]
          /\ UNCHANGED <<server, lastWait, evicted>>
      BY <1>4 DEF CancelCurrent, Proceeds, Inv, TypeOK
    <2>0. /\ job' \in JobTable
          /\ \A s \in Runs \ S : job'[s] = job[s]
          /\ \A s \in Runs \cap S : \A c \in Chunks :
               job'[s][c] \in {"absent", "done"}
          /\ status' \in [Runs -> {"absent", "live", "completed"}]
          /\ status'[r] = "live"
          /\ \A s \in Runs \ {r} :
               status'[s] = IF s \in S THEN "completed" ELSE status[s]
      <3>1. job' = Cancelled(S)
        BY <1>4 DEF CancelCurrent
      <3>2. status' = [Finished(S) EXCEPT ![r] = "live"]
        BY <1>4 DEF CancelCurrent
      <3>3. TypeOK
        BY DEF Inv
      <3> HIDE DEF S
      <3> QED BY <3>1, <3>2, <3>3, CancelledTable DEF Finished, TypeOK
    <2>1. TypeOK'
      <3>1. next' \in [Runs -> 0..(NumChunks + 1)] /\ held' \in [Runs -> BOOLEAN]
        BY <2>a DEF Inv, TypeOK
      <3>2. hold' \in Runs \cup {NoRun} /\ wait' \in [Runs -> Nat]
        BY <2>a
      <3> QED BY <2>a, <2>0, <3>1, <3>2 DEF Inv, TypeOK, JobTable
    <2>2. WaitersParked' /\ WaitIdsIssued'
      BY <2>a DEF Inv, TypeOK, WaitersParked, WaitIdsIssued, Waiting
    <2>3. OnlyHolderRuns'
      BY <1>0, <2>a, <2>0 DEF Inv, OnlyHolderRuns, Active
    <2>4. AbsentOwnsNothing'
      BY <1>0, <2>a, <2>0 DEF Inv, TypeOK, AbsentOwnsNothing
    <2>5. SubmitsAgree'
      BY <1>0, <2>a, <2>0 DEF Inv, TypeOK, SubmitsAgree, Waiting
    <2> QED BY <2>1, <2>2, <2>3, <2>4, <2>5 DEF Inv
  <1>5. ASSUME NEW single \in BOOLEAN, NEW ext \in BOOLEAN,
               Park(r, single, ext)
        PROVE  Inv'
    <2> DEFINE S == IF single THEN Waiting ELSE {}
    <2>a. /\ hold \in Runs
          /\ lastWait' = lastWait + 1
          /\ next' = [next EXCEPT ![r] = 1]
          /\ held' = [held EXCEPT ![r] = TRUE]
          /\ UNCHANGED <<server, hold, evicted>>
      BY <1>5 DEF Park, Proceeds, Inv, TypeOK
    <2>0. /\ job' \in JobTable
          /\ \A s \in Runs \ S : job'[s] = job[s]
          /\ \A s \in Runs \cap S : \A c \in Chunks :
               job'[s][c] \in {"absent", "done"}
          /\ status' \in [Runs -> {"absent", "live", "completed"}]
          /\ status'[r] = "live"
          /\ \A s \in Runs \ {r} :
               status'[s] = IF s \in S THEN "completed" ELSE status[s]
          /\ wait' \in [Runs -> Nat]
          /\ wait'[r] = lastWait + 1
          /\ \A s \in Runs \ {r} : wait'[s] = IF s \in S THEN 0 ELSE wait[s]
      <3>1. job' = Cancelled(S)
        BY <1>5 DEF Park
      <3>2. status' = [Finished(S) EXCEPT ![r] = "live"]
        BY <1>5 DEF Park
      <3>3. wait' = [s \in Runs |-> IF s = r THEN lastWait + 1
                                    ELSE IF s \in S THEN 0 ELSE wait[s]]
        BY <1>5 DEF Park
      <3>4. TypeOK
        BY DEF Inv
      <3> HIDE DEF S
      <3> QED BY <3>1, <3>2, <3>3, <3>4, CancelledTable DEF Finished, TypeOK
    <2>01. S \subseteq Waiting /\ hold \notin S /\ r \notin S
      BY <1>0 DEF Inv, WaitersParked
    <2> HIDE DEF S
    <2>1. TypeOK'
      <3>1. next' \in [Runs -> 0..(NumChunks + 1)] /\ held' \in [Runs -> BOOLEAN]
        BY <2>a DEF Inv, TypeOK
      <3>2. lastWait' \in Nat
        BY <2>a DEF Inv, TypeOK
      <3> QED BY <2>a, <2>0, <3>1, <3>2 DEF Inv, TypeOK, JobTable
    <2>2. WaitersParked'
      <3>1. ASSUME NEW s \in Runs \ {r}, wait'[s] # 0
            PROVE  /\ wait[s] # 0 /\ wait'[s] = wait[s] /\ wait'[s] # wait'[r]
                   /\ job'[s] = job[s] /\ status'[s] = status[s]
        BY <2>0, <3>1 DEF Inv, TypeOK, WaitIdsIssued
      <3>2. /\ status'[r] = "live" /\ hold' # r /\ r \notin evicted'
            /\ \A c \in Chunks : job'[r][c] = "absent"
        BY <1>0, <2>a, <2>0, <2>01
      <3>3. WaitersParked
        BY DEF Inv
      <3> QED BY <2>a, <3>1, <3>2, <3>3 DEF WaitersParked, Waiting
    <2>3. WaitIdsIssued'
      BY <2>a, <2>0 DEF Inv, TypeOK, WaitIdsIssued
    <2>4. OnlyHolderRuns'
      BY <1>0, <2>a, <2>0, <2>01 DEF Inv, OnlyHolderRuns, Active
    <2>5. AbsentOwnsNothing'
      BY <1>0, <2>a, <2>0, <2>01 DEF Inv, TypeOK, AbsentOwnsNothing
    <2>6. SubmitsAgree'
      BY <1>0, <2>a, <2>0, <2>01 DEF Inv, TypeOK, SubmitsAgree, Waiting
    <2> QED BY <2>1, <2>2, <2>3, <2>4, <2>5, <2>6 DEF Inv
  <1> QED BY <1>1, <1>2, <1>3, <1>4, <1>5 DEF SubmitHead

\* The later steps of a submit (submit_run_chunk, submit_run_finalize and
\* poison_partial_submit) keep the invariant although they act on what the
\* head decided.
LEMMA SubmitStep ==
  ASSUME Inv, NEW r \in Runs,
         SubmitChunk(r) \/ SubmitFinalize(r) \/ SubmitFails(r)
  PROVE  Inv'
  <1>0. next[r] # 0 /\ status[r] # "absent"
    BY AdmissionAssumption
    DEF SubmitChunk, SubmitFinalize, SubmitFails, Inv, AbsentOwnsNothing, Chunks
  <1>1. CASE SubmitChunk(r)
    <2> DEFINE c == next[r]
    <2>1. /\ c \in Chunks
          /\ job' = [job EXCEPT ![r][c] = Inserted(r, c)]
          /\ next' = [next EXCEPT ![r] = c + 1]
          /\ UNCHANGED <<server, status, hold, wait, lastWait, evicted, held>>
      BY <1>1 DEF SubmitChunk, groupVars
    <2>2. /\ Inserted(r, c) \in {"done", "held", "ready"}
          /\ held[r] => Inserted(r, c) # "ready"
      BY DEF Inserted
    <2>3. /\ job' \in JobTable
          /\ \A s \in Runs \ {r} : job'[s] = job[s]
          /\ job'[r][c] = Inserted(r, c)
          /\ \A d \in Chunks \ {c} : job'[r][d] = job[r][d]
      BY <2>1, <2>2 DEF Inv, TypeOK, JobTable, JobStates
    <2>4. TypeOK'
      <3>1. next' \in [Runs -> 0..(NumChunks + 1)]
        BY <2>1, AdmissionAssumption DEF Inv, TypeOK, Chunks
      <3> QED BY <2>1, <2>3, <3>1 DEF Inv, TypeOK, JobTable
    <2>5. WaitersParked'
      <3>1. r \in Waiting => held[r]
        BY <1>0 DEF Inv, SubmitsAgree, WaitersParked
      <3> QED BY <2>1, <2>2, <2>3, <3>1 DEF Inv, WaitersParked, Waiting
    <2>6. OnlyHolderRuns'
      <3>1. SUFFICES ASSUME NEW s \in Runs, Active(s)', s \notin evicted
                     PROVE  hold = s
        BY <2>1 DEF OnlyHolderRuns
      <3>2. CASE s # r
        BY <2>1, <2>3, <3>1, <3>2 DEF Inv, OnlyHolderRuns, Active
      <3>3. CASE s = r /\ held[r]
        BY <2>1, <2>2, <2>3, <3>1, <3>3 DEF Inv, OnlyHolderRuns, Active
      <3>4. CASE s = r /\ ~held[r]
        BY <1>0, <2>1, <3>1, <3>4 DEF Inv, SubmitsAgree, Active
      <3> QED BY <3>2, <3>3, <3>4
    <2>7. AbsentOwnsNothing'
      BY <1>0, <2>1, <2>3 DEF Inv, TypeOK, AbsentOwnsNothing
    <2>8. SubmitsAgree' /\ WaitIdsIssued'
      BY <1>0, <2>1 DEF Inv, TypeOK, SubmitsAgree, WaitIdsIssued, Waiting
    <2> QED BY <2>4, <2>5, <2>6, <2>7, <2>8 DEF Inv
  <1>2. ASSUME SubmitEnds(r),
               UNCHANGED <<server, status, hold, wait, job, lastWait, evicted>>
        PROVE  Inv'
    <2>1. TypeOK'
      BY <1>2, AdmissionAssumption DEF SubmitEnds, Inv, TypeOK
    <2>2. WaitersParked' /\ WaitIdsIssued' /\ OnlyHolderRuns'
      BY <1>2 DEF Inv, WaitersParked, WaitIdsIssued, OnlyHolderRuns, Waiting, Active
    <2>3. AbsentOwnsNothing' /\ SubmitsAgree'
      BY <1>2 DEF SubmitEnds, Inv, TypeOK, AbsentOwnsNothing, SubmitsAgree, Waiting
    <2> QED BY <2>1, <2>2, <2>3 DEF Inv
  <1>3. ASSUME SubmitEnds(r), status' = [status EXCEPT ![r] = "completed"],
               ReleaseRun(r, job), UNCHANGED <<server, lastWait, evicted>>
        PROVE  Inv'
    <2>1. job \in JobTable
      BY DEF Inv, TypeOK, JobTable
    <2>2. /\ next' \in [Runs -> 0..(NumChunks + 1)]
          /\ held' \in [Runs -> BOOLEAN]
          /\ \A s \in Runs \ {r} : next'[s] = next[s] /\ held'[s] = held[s]
      BY <1>3, AdmissionAssumption DEF SubmitEnds, Inv, TypeOK
    <2> QED BY <1>0, <1>3, <2>1, <2>2, ReleaseStep
  <1>4. CASE SubmitFinalize(r)
    BY <1>2, <1>3, <1>4 DEF SubmitFinalize
  <1>5. CASE SubmitFails(r)
    BY <1>2, <1>3, <1>5 DEF SubmitFails
  <1> QED BY <1>1, <1>4, <1>5

\* What runners, the reaper and operators do to the jobs of a run (claim,
\* settle_node, starve_job, cancel_run_inner) keeps the invariant.
LEMMA JobStep ==
  ASSUME Inv, NEW r \in Runs,
         \/ CancelRun(r)
         \/ \E c \in Chunks : \/ Claim(r, c) \/ Complete(r, c)
                              \/ Starve(r, c) \/ Requeue(r, c)
  PROVE  Inv'
  <1>1. CASE CancelRun(r)
    <2>1. /\ Cancelled({r}) \in JobTable
          /\ \A s \in Runs \ {r} : Cancelled({r})[s] = job[s]
      BY CancelledTable DEF Inv
    <2>2. /\ next' \in [Runs -> 0..(NumChunks + 1)]
          /\ held' \in [Runs -> BOOLEAN]
          /\ next' = next /\ held' = held
          /\ server' = server /\ lastWait' = lastWait /\ evicted' = evicted
      BY <1>1 DEF CancelRun, submitVars, Inv, TypeOK
    <2>3. /\ status[r] # "absent"
          /\ status' = [status EXCEPT ![r] = "completed"]
          /\ ReleaseRun(r, Cancelled({r}))
      BY <1>1 DEF CancelRun
    <2> QED BY <2>1, <2>2, <2>3, ReleaseStep
  <1>2. ASSUME NEW c \in Chunks, NEW q \in {"ready", "claimed", "done"},
               job[r][c] \in {"ready", "claimed"}
        PROVE  /\ [job EXCEPT ![r][c] = q] \in JobTable
               /\ \A s \in Runs \ {r} : [job EXCEPT ![r][c] = q][s] = job[s]
               /\ \A d \in Chunks : [job EXCEPT ![r][c] = q][r][d]
                                    = IF d = c THEN q ELSE job[r][d]
               /\ status[r] # "absent" /\ r \notin Waiting
    <2>1. [job EXCEPT ![r][c] = q] \in JobTable
      BY DEF Inv, TypeOK, JobTable, JobStates
    <2>2. /\ \A s \in Runs \ {r} : [job EXCEPT ![r][c] = q][s] = job[s]
          /\ \A d \in Chunks : [job EXCEPT ![r][c] = q][r][d]
                               = IF d = c THEN q ELSE job[r][d]
      BY DEF Inv, TypeOK
    <2>3. status[r] # "absent" /\ r \notin Waiting
      BY <1>2 DEF Inv, AbsentOwnsNothing, WaitersParked
    <2> QED BY <2>1, <2>2, <2>3
  <1>3. ASSUME NEW c \in Chunks, NEW q \in {"ready", "claimed", "done"},
               job[r][c] \in {"ready", "claimed"},
               job' = [job EXCEPT ![r][c] = q],
               status' \in {status, [status EXCEPT ![r] = "completed"]},
               wait' \in {wait, [wait EXCEPT ![r] = 0]},
               UNCHANGED <<server, hold, lastWait, evicted, next, held>>
        PROVE  Inv'
    <2> DEFINE js == [job EXCEPT ![r][c] = q]
    <2>0. /\ js \in JobTable
          /\ \A s \in Runs \ {r} : js[s] = job[s]
          /\ \A d \in Chunks : js[r][d] = IF d = c THEN q ELSE job[r][d]
          /\ status[r] # "absent" /\ r \notin Waiting
      BY <1>2, <1>3, Zenon
    <2> HIDE DEF js
    <2>1. /\ job' \in JobTable
          /\ \A s \in Runs \ {r} : job'[s] = job[s]
          /\ \A d \in Chunks : job'[r][d] = IF d = c THEN q ELSE job[r][d]
          /\ status[r] # "absent" /\ r \notin Waiting
      BY <1>3, <2>0 DEF js
    <2>2. wait' = wait
      BY <1>3, <2>1 DEF Inv, TypeOK, Waiting
    <2>3. /\ status' \in [Runs -> {"absent", "live", "completed"}]
          /\ \A s \in Runs \ {r} : status'[s] = status[s]
          /\ status'[r] \in {status[r], "completed"}
      BY <1>3 DEF Inv, TypeOK
    <2>4. TypeOK'
      BY <1>3, <2>1, <2>2, <2>3 DEF Inv, TypeOK, JobTable
    <2>5. WaitersParked' /\ WaitIdsIssued'
      BY <1>3, <2>1, <2>2, <2>3 DEF Inv, WaitersParked, WaitIdsIssued, Waiting
    <2>6. OnlyHolderRuns'
      BY <1>3, <2>1, <2>3 DEF Inv, OnlyHolderRuns, Active
    <2>7. AbsentOwnsNothing'
      BY <1>3, <2>1, <2>2, <2>3 DEF Inv, AbsentOwnsNothing
    <2>8. SubmitsAgree'
      BY <1>3, <2>2, <2>3 DEF Inv, SubmitsAgree, Waiting
    <2> QED BY <2>4, <2>5, <2>6, <2>7, <2>8 DEF Inv
  <1>4. ASSUME NEW c \in Chunks, Claim(r, c) PROVE Inv'
    BY <1>3, <1>4 DEF Claim, groupVars, submitVars
  <1>5. ASSUME NEW c \in Chunks, Starve(r, c) PROVE Inv'
    BY <1>3, <1>5 DEF Starve, groupVars, submitVars
  <1>6. ASSUME NEW c \in Chunks, Complete(r, c) PROVE Inv'
    <2> DEFINE js == [job EXCEPT ![r][c] = "done"]
    <2>1. job[r][c] = "claimed"
          /\ UNCHANGED <<server, lastWait, evicted, next, held>>
      BY <1>6 DEF Complete, submitVars
    <2>2. CASE AllTerminal(r, js)
      <3>1. status' = [status EXCEPT ![r] = "completed"] /\ ReleaseRun(r, js)
        BY <1>6, <2>2 DEF Complete
      <3>2. /\ js \in JobTable
            /\ \A s \in Runs \ {r} : js[s] = job[s]
            /\ status[r] # "absent"
        BY <1>2, <2>1
      <3>3. next' \in [Runs -> 0..(NumChunks + 1)] /\ held' \in [Runs -> BOOLEAN]
        BY <2>1 DEF Inv, TypeOK
      <3> HIDE DEF js
      <3> QED BY <2>1, <3>1, <3>2, <3>3, ReleaseStep
    <2>3. CASE ~AllTerminal(r, js)
      <3>1. /\ job' = js /\ wait' = [wait EXCEPT ![r] = 0]
            /\ UNCHANGED <<status, hold>>
        BY <1>6, <2>3 DEF Complete
      <3> QED BY <1>3, <2>1, <3>1
    <2> QED BY <2>2, <2>3
  <1>7. ASSUME NEW c \in Chunks, Requeue(r, c) PROVE Inv'
    BY <1>3, <1>7 DEF Requeue, groupVars, submitVars
  <1> QED BY <1>1, <1>4, <1>5, <1>6, <1>7

\* A crash, a failed start and reconcile_on_boot keep the invariant.
LEMMA ServerStep ==
  ASSUME Inv, Crash \/ BootAborts \/ Boot
  PROVE  Inv'
  <1>1. CASE Crash
    <2>1. TypeOK'
      BY <1>1, AdmissionAssumption DEF Crash, groupVars, Inv, TypeOK
    <2>2. WaitersParked' /\ WaitIdsIssued' /\ OnlyHolderRuns'
      BY <1>1 DEF Crash, groupVars, Inv, WaitersParked, WaitIdsIssued,
                  OnlyHolderRuns, Waiting, Active
    <2>3. AbsentOwnsNothing' /\ SubmitsAgree'
      BY <1>1 DEF Crash, groupVars, Inv, AbsentOwnsNothing, SubmitsAgree, Waiting
    <2> QED BY <2>1, <2>2, <2>3 DEF Inv
  <1>2. CASE BootAborts
    BY <1>2 DEF BootAborts, groupVars, submitVars, Inv, TypeOK, WaitersParked,
                WaitIdsIssued, OnlyHolderRuns, AbsentOwnsNothing, SubmitsAgree,
                Waiting, Active
  <1>3. CASE Boot
    <2>1. /\ server' = "up"
          /\ UNCHANGED <<status, lastWait, evicted, next, held>>
          /\ hold' = hold \/ (HoldIsDead /\ hold' = NoRun)
          /\ \E S \in SUBSET Runs : wait' = WaitsWithout(S)
      BY <1>3 DEF Boot, submitVars
    <2>0. /\ job' \in JobTable
          /\ \A s \in Runs : \A c \in Chunks :
               job'[s][c] = job[s][c] \/ (job[s][c] = "claimed" /\ job'[s][c] = "ready")
      <3>1. PICK Q \in SUBSET {q \in Runs \X Chunks : job[q[1]][q[2]] = "claimed"} :
              job' = Requeued(Q)
        BY <1>3 DEF Boot
      <3>2. \A s \in Runs, c \in Chunks : <<s, c>> \in Q => job[s][c] = "claimed"
        BY <3>1
      <3> QED BY <3>1, <3>2 DEF Requeued, JobTable, JobStates, Inv, TypeOK
    <2>2. /\ wait' \in [Runs -> Nat]
          /\ \A s \in Runs : wait'[s] # 0 => wait'[s] = wait[s]
      BY <2>1 DEF WaitsWithout, Inv, TypeOK
    <2>3. \A s \in Runs : status[s] # "completed" => (hold' = s <=> hold = s)
      BY <2>1, AdmissionAssumption DEF HoldIsDead
    <2>4. TypeOK'
      BY <2>0, <2>1, <2>2 DEF Inv, TypeOK, JobTable
    <2>5. WaitersParked'
      BY <2>0, <2>1, <2>2, <2>3 DEF Inv, TypeOK, WaitersParked, Waiting
    <2>6. WaitIdsIssued'
      BY <2>1, <2>2 DEF Inv, TypeOK, WaitIdsIssued
    <2>7. OnlyHolderRuns'
      BY <2>0, <2>1, <2>3 DEF Inv, OnlyHolderRuns, Active
    <2>8. AbsentOwnsNothing'
      BY <2>0, <2>1, <2>2, <2>3 DEF Inv, TypeOK, AbsentOwnsNothing
    <2>9. SubmitsAgree'
      BY <2>1, <2>2, <2>3 DEF Inv, TypeOK, SubmitsAgree, Waiting
    <2> QED BY <2>4, <2>5, <2>6, <2>7, <2>8, <2>9 DEF Inv
  <1> QED BY <1>1, <1>2, <1>3

\* The invariant holds in every state the submits, completions, cancellations
\* and restarts of Admission reach.
THEOREM AdmissionInvHolds == Spec => []Inv
  <1>1. Init => Inv
    BY AdmissionAssumption
    DEF Init, Inv, TypeOK, JobStates, WaitersParked, OnlyHolderRuns, Active,
        AbsentOwnsNothing, SubmitsAgree, WaitIdsIssued, Waiting
  <1>2. Inv /\ [Next]_vars => Inv'
    <2> SUFFICES ASSUME Inv, [Next]_vars PROVE Inv'
      OBVIOUS
    <2>1. CASE Next
      BY <2>1, HeadStep, SubmitStep, JobStep, ServerStep DEF Next
    <2>2. CASE UNCHANGED vars
      BY <2>2 DEF vars, groupVars, submitVars, Inv, TypeOK, WaitersParked,
                  WaitIdsIssued, OnlyHolderRuns, AbsentOwnsNothing,
                  SubmitsAgree, Waiting, Active
    <2> QED BY <2>1, <2>2
  <1> QED BY <1>1, <1>2, PTL DEF Spec

\* The rows always have the shapes the schema gives them.
THEOREM AdmissionTypeCorrect == Spec => []TypeOK
  <1>1. Inv => TypeOK
    BY DEF Inv
  <1> QED BY <1>1, AdmissionInvHolds, PTL

\* A run in concurrency_waits is unfinished and has nothing to execute.
THEOREM WaitersStayParked == Spec => []WaitersParked
  <1>1. Inv => WaitersParked
    BY DEF Inv
  <1> QED BY <1>1, AdmissionInvHolds, PTL

\* Mutual exclusion of the group, displaced holders aside: only the run in
\* concurrency_holds has jobs to execute.
THEOREM GroupExclusive == Spec => []OnlyHolderRuns
  <1>1. Inv => OnlyHolderRuns
    BY DEF Inv
  <1> QED BY <1>1, AdmissionInvHolds, PTL

\* Only a release moves a waiter into the slot (promote_next_in_group), and it
\* takes the oldest; an arrival, a restart and the rest of a submit do not.
LEMMA PromotionStep ==
  ASSUME Inv, Next, NEW w \in Waiting, hold' = w
  PROVE  \A s \in Waiting \ {w} : wait[w] < wait[s] /\ wait'[s] = wait[s]
  <1>1. hold # w /\ w \in Runs /\ status[w] # "absent"
    BY DEF Inv, WaitersParked, Waiting
  <1>2. ASSUME NEW r \in Runs, NEW js, ReleaseRun(r, js)
        PROVE  \A s \in Waiting \ {w} : wait[w] < wait[s] /\ wait'[s] = wait[s]
    <2>1. hold = r /\ HandOver(r, js)
      BY <1>1, <1>2 DEF ReleaseRun
    <2>2. r \notin Waiting
      BY <2>1 DEF Inv, WaitersParked
    <2>3. FirstWaiter(w) /\ wait' = [wait EXCEPT ![w] = 0, ![r] = 0]
      BY <1>1, <2>1, AdmissionAssumption DEF HandOver
    <2>4. ASSUME NEW s \in Waiting \ {w} PROVE wait[w] < wait[s]
      <3>1. wait[w] <= wait[s] /\ wait[w] \in Nat /\ wait[s] \in Nat
        BY <2>3 DEF FirstWaiter, Inv, TypeOK, Waiting
      <3>2. wait[w] # wait[s]
        BY <2>4 DEF Inv, WaitersParked
      <3> QED BY <3>1, <3>2
    <2>5. ASSUME NEW s \in Waiting \ {w} PROVE wait'[s] = wait[s]
      BY <2>2, <2>3 DEF Inv, TypeOK, Waiting
    <2> QED BY <2>4, <2>5
  <1>3. ASSUME NEW r \in Runs, SubmitHead(r) PROVE FALSE
    BY <1>1, <1>3 DEF SubmitHead, ArrivalCancelled, TakeFreeSlot, DisplaceStuck,
                      CancelCurrent, Park, Arrives, groupVars
  <1>4. ASSUME NEW r \in Runs, SubmitChunk(r) PROVE FALSE
    BY <1>1, <1>4 DEF SubmitChunk, groupVars
  <1>5. ASSUME NEW r \in Runs,
               SubmitFinalize(r) \/ SubmitFails(r) \/ CancelRun(r)
        PROVE  \E js : ReleaseRun(r, js)
    BY <1>1, <1>5 DEF SubmitFinalize, SubmitFails, CancelRun
  <1>6. ASSUME NEW r \in Runs, NEW c \in Chunks,
               Claim(r, c) \/ Complete(r, c) \/ Starve(r, c) \/ Requeue(r, c)
        PROVE  \E js : ReleaseRun(r, js)
    BY <1>1, <1>6 DEF Claim, Complete, Starve, Requeue, groupVars
  <1>7. ASSUME Crash \/ BootAborts \/ Boot PROVE FALSE
    BY <1>1, <1>7, AdmissionAssumption DEF Crash, BootAborts, Boot, groupVars
  <1> QED BY <1>2, <1>3, <1>4, <1>5, <1>6, <1>7 DEF Next

\* The group's queue is first in, first out, through every failure, displacement
\* and restart.
THEOREM QueueIsFifo == Spec => OldestWaiterFirst
  <1>1. Inv /\ [Next]_vars =>
          [\A r \in Waiting : hold' = r =>
             \A s \in Waiting \ {r} : wait[r] < wait[s] /\ wait'[s] = wait[s]]_vars
    BY PromotionStep
  <1> QED BY <1>1, AdmissionInvHolds, PTL DEF Spec, OldestWaiterFirst

\* A run appears by the head of its own submit alone.
LEMMA ArrivalIsHead ==
  ASSUME Inv, Next, NEW r \in Runs, status[r] = "absent", status'[r] # "absent"
  PROVE  SubmitHead(r)
  <1>1. ASSUME NEW q \in Runs, status' = [status EXCEPT ![q] = "completed"],
               status[q] # "absent"
        PROVE  FALSE
    BY <1>1 DEF Inv, TypeOK
  <1>2. ASSUME NEW q \in Runs, SubmitHead(q) PROVE q = r
    <2>1. \E S \in SUBSET Runs :
            /\ \A x \in S : status[x] # "absent"
            /\ status' \in {[status EXCEPT ![q] = "completed"],
                            [Finished(S) EXCEPT ![q] = "live"],
                            [status EXCEPT ![q] = "live"]}
      <3>1. CASE \E cip, single, ext \in BOOLEAN :
                   \/ ArrivalCancelled(q, cip, single, ext)
                   \/ TakeFreeSlot(q, cip, single)
                   \/ DisplaceStuck(q, cip, single, ext)
        <4>1. status' \in {[status EXCEPT ![q] = "completed"],
                           [status EXCEPT ![q] = "live"]}
          BY <3>1 DEF ArrivalCancelled, TakeFreeSlot, DisplaceStuck
        <4> WITNESS {} \in SUBSET Runs
        <4> QED BY <4>1
      <3>2. CASE \E single, ext \in BOOLEAN : CancelCurrent(q, single, ext)
        <4>1. /\ Waiting \cup {hold} \in SUBSET Runs
              /\ \A x \in Waiting \cup {hold} : status[x] # "absent"
          BY <3>2 DEF CancelCurrent, Waiting, Inv, TypeOK, AbsentOwnsNothing
        <4> QED BY <3>2, <4>1 DEF CancelCurrent
      <3>3. CASE \E single, ext \in BOOLEAN : Park(q, single, ext)
        <4>1. /\ Waiting \in SUBSET Runs /\ {} \in SUBSET Runs
              /\ \A x \in Waiting : status[x] # "absent"
          BY DEF Waiting, Inv, TypeOK, AbsentOwnsNothing
        <4> QED BY <3>3, <4>1 DEF Park
      <3> QED BY <1>2, <3>1, <3>2, <3>3 DEF SubmitHead
    <2> QED BY <2>1 DEF Finished, Inv, TypeOK
  <1>3. ASSUME NEW q \in Runs, SubmitChunk(q) PROVE FALSE
    BY <1>3 DEF SubmitChunk
  <1>4. ASSUME NEW q \in Runs,
               SubmitFinalize(q) \/ SubmitFails(q) \/ CancelRun(q)
        PROVE  FALSE
    <2>1. status[q] # "absent"
      BY <1>4, AdmissionAssumption
      DEF SubmitFinalize, SubmitFails, CancelRun, Inv, AbsentOwnsNothing
    <2> QED BY <1>1, <1>4, <2>1 DEF SubmitFinalize, SubmitFails, CancelRun
  <1>5. ASSUME NEW q \in Runs, NEW c \in Chunks,
               Claim(q, c) \/ Complete(q, c) \/ Starve(q, c) \/ Requeue(q, c)
        PROVE  FALSE
    <2>1. status[q] # "absent"
      BY <1>5 DEF Claim, Complete, Starve, Requeue, Inv, AbsentOwnsNothing
    <2> QED BY <1>1, <1>5, <2>1 DEF Claim, Complete, Starve, Requeue
  <1>6. ASSUME Crash \/ BootAborts \/ Boot PROVE FALSE
    BY <1>6 DEF Crash, BootAborts, Boot
  <1> QED BY <1>2, <1>3, <1>4, <1>5, <1>6 DEF Next

\* A late delivery never costs a newer run its slot or its place in the queue
\* (the event-order check of acquire).
THEOREM NewerSurvives == Spec => NewerRunsSurvive
  <1>1. ASSUME Inv, Next, NEW r \in Runs, NEW s \in Runs,
               status[r] = "absent", status'[r] # "absent",
               status[s] = "live", status'[s] = "completed"
        PROVE  ~Older(r, s)
    <2>1. SubmitHead(r)
      BY <1>1, ArrivalIsHead
    <2>2. PICK cip, single, ext \in BOOLEAN :
            \/ ArrivalCancelled(r, cip, single, ext)
            \/ TakeFreeSlot(r, cip, single)
            \/ DisplaceStuck(r, cip, single, ext)
            \/ cip /\ CancelCurrent(r, single, ext)
            \/ ~cip /\ Park(r, single, ext)
      BY <2>1 DEF SubmitHead
    <2>3. CASE \/ ArrivalCancelled(r, cip, single, ext)
               \/ TakeFreeSlot(r, cip, single)
               \/ DisplaceStuck(r, cip, single, ext)
      BY <1>1, <2>3
      DEF ArrivalCancelled, TakeFreeSlot, DisplaceStuck, Inv, TypeOK
    <2>4. CASE cip /\ CancelCurrent(r, single, ext)
      <3>1. status' = [Finished(Waiting \cup {hold}) EXCEPT ![r] = "live"]
        BY <2>4 DEF CancelCurrent
      <3>2. s = hold \/ s \in Waiting
        BY <1>1, <3>1 DEF Finished, Inv, TypeOK
      <3> QED BY <2>4, <3>2 DEF CancelCurrent, Superseded
    <2>5. CASE ~cip /\ Park(r, single, ext)
      <3>1. status' = [Finished(IF single THEN Waiting ELSE {})
                         EXCEPT ![r] = "live"]
        BY <2>5 DEF Park
      <3>2. single /\ s \in Waiting
        BY <1>1, <3>1 DEF Finished, Inv, TypeOK
      <3> QED BY <2>5, <3>2 DEF Park, Superseded
    <2> QED BY <2>2, <2>3, <2>4, <2>5
  <1>2. Inv /\ [Next]_vars =>
          [\A r, s \in Runs :
             /\ status[r] = "absent" /\ status'[r] # "absent"
             /\ status[s] = "live" /\ status'[s] = "completed"
             => ~Older(r, s)]_vars
    BY <1>1
  <1> QED BY <1>2, AdmissionInvHolds, PTL DEF Spec, NewerRunsSurvive
-----------------------------------------------------------------------------

\* The queue is finite and within its limit, even if Runs is not finite.
QueueFits == IsFiniteSet(Waiting) /\ Cardinality(Waiting) <= MaxWaiters

\* Only a run that is parked behind the holder joins the queue.
LEMMA OnlyParkQueues ==
  ASSUME Inv, Next
  PROVE  \/ Waiting' \subseteq Waiting
         \/ \E r \in Runs, single, ext \in BOOLEAN : Park(r, single, ext)
  <1>1. ASSUME NEW r \in Runs, NEW js, ReleaseRun(r, js)
        PROVE  Waiting' \subseteq Waiting
    BY <1>1 DEF ReleaseRun, HandOver, Waiting, Inv, TypeOK
  <1>2. ASSUME wait' = wait PROVE Waiting' \subseteq Waiting
    BY <1>2 DEF Waiting
  <1>3. ASSUME NEW r \in Runs, SubmitHead(r),
               ~ \E single, ext \in BOOLEAN : Park(r, single, ext)
        PROVE  Waiting' \subseteq Waiting
    BY <1>3 DEF SubmitHead, ArrivalCancelled, TakeFreeSlot, DisplaceStuck,
                CancelCurrent, groupVars, Waiting
  <1>4. ASSUME NEW r \in Runs, SubmitFinalize(r) \/ SubmitFails(r) \/ CancelRun(r)
        PROVE  Waiting' \subseteq Waiting
    BY <1>1, <1>2, <1>4 DEF SubmitFinalize, SubmitFails, CancelRun
  <1>5. ASSUME NEW r \in Runs, SubmitChunk(r) PROVE Waiting' \subseteq Waiting
    BY <1>2, <1>5 DEF SubmitChunk, groupVars
  <1>6. ASSUME NEW r \in Runs, NEW c \in Chunks,
               Claim(r, c) \/ Starve(r, c) \/ Requeue(r, c)
        PROVE  Waiting' \subseteq Waiting
    BY <1>2, <1>6 DEF Claim, Starve, Requeue, groupVars
  <1>7. ASSUME NEW r \in Runs, NEW c \in Chunks, Complete(r, c)
        PROVE  Waiting' \subseteq Waiting
    <2>1. CASE wait' = [wait EXCEPT ![r] = 0]
      BY <2>1 DEF Waiting, Inv, TypeOK
    <2> QED BY <1>1, <1>7, <2>1 DEF Complete
  <1>8. CASE Crash \/ BootAborts
    BY <1>2, <1>8 DEF Crash, BootAborts, groupVars
  <1>9. CASE Boot
    <2>1. PICK S : wait' = WaitsWithout(S)
      BY <1>9 DEF Boot
    <2> QED BY <2>1 DEF WaitsWithout, Waiting
  <1> QED BY <1>3, <1>4, <1>5, <1>6, <1>7, <1>8, <1>9 DEF Next

\* A queue with both modes never exceeds its limit: a full queue refuses, and a
\* single queue keeps one (concurrency_queue_decision).
LEMMA QueueStep ==
  ASSUME Inv, QueueFits, Next
  PROVE  QueueFits'
  <1> USE AdmissionAssumption
  <1>1. CASE Waiting' \subseteq Waiting
    <2>1. /\ IsFiniteSet(Waiting')
          /\ Cardinality(Waiting') <= Cardinality(Waiting)
      BY <1>1, FS_Subset DEF QueueFits
    <2>2. Cardinality(Waiting) \in Nat /\ Cardinality(Waiting') \in Nat
      BY <2>1, FS_CardinalityType DEF QueueFits
    <2> QED BY <2>1, <2>2 DEF QueueFits
  <1>2. ASSUME NEW r \in Runs, NEW single \in BOOLEAN, NEW ext \in BOOLEAN,
               Park(r, single, ext)
        PROVE  QueueFits'
    <2>1. CASE single
      <3>1. Waiting' = {r}
        BY <1>2, <2>1 DEF Park, Waiting, Inv, TypeOK
      <3>2. IsFiniteSet({r}) /\ Cardinality({r}) = 1
        BY FS_Singleton
      <3> QED BY <3>1, <3>2 DEF QueueFits
    <2>2. CASE ~single
      <3>1. Waiting' = Waiting \cup {r} /\ r \notin Waiting
        BY <1>2, <2>2 DEF Park, Arrives, Waiting, Inv, TypeOK, AbsentOwnsNothing
      <3>2. ~ (Cardinality(Waiting) >= MaxWaiters)
        BY <1>2, <2>2 DEF Park, QueueFull
      <3>3. Cardinality(Waiting) \in Nat
        BY FS_CardinalityType DEF QueueFits
      <3>4. /\ IsFiniteSet(Waiting \cup {r})
            /\ Cardinality(Waiting \cup {r}) = Cardinality(Waiting) + 1
        BY <3>1, FS_AddElement DEF QueueFits
      <3> QED BY <3>1, <3>2, <3>3, <3>4 DEF QueueFits
    <2> QED BY <2>1, <2>2
  <1> QED BY <1>1, <1>2, OnlyParkQueues

\* The bound with its finiteness holds in every reachable state.
LEMMA QueueAlwaysFits == Spec => []QueueFits
  <1>1. Init => QueueFits
    <2>1. Init => Waiting = {}
      BY DEF Init, Waiting
    <2> QED BY <2>1, FS_EmptySet, AdmissionAssumption DEF QueueFits
  <1>2. Inv /\ QueueFits /\ [Next]_vars => QueueFits'
    <2>1. UNCHANGED vars => Waiting' = Waiting
      BY DEF vars, groupVars, Waiting
    <2> QED BY <2>1, QueueStep DEF QueueFits
  <1> QED BY <1>1, <1>2, AdmissionInvHolds, PTL DEF Spec

\* No sequence of arrivals, failures, cancellations and restarts overfills a
\* group's queue (MAX_CONCURRENCY_WAITERS).
THEOREM QueueStaysBounded == Spec => []QueueBounded
  <1>1. QueueFits => QueueBounded
    BY DEF QueueFits, QueueBounded
  <1> QED BY <1>1, QueueAlwaysFits, PTL

-----------------------------------------------------------------------------
(* The concurrency group implements the abstract slot with its queue.      *)

Arrived == {r \in Runs : status[r] # "absent"}
Ended   == {r \in Runs : status[r] = "completed"}

\* The instance counts its queue as this module does.
LEMMA SameCardinality == \A S : Group!Cardinality(S) = Cardinality(S)
  BY DEF Group!Cardinality, Cardinality

\* The slot, the queue and what became of the runs all stay as they are.
LEMMA GroupStutters ==
  ASSUME hold' = hold, wait' = wait, lastWait' = lastWait, status' = status
  PROVE  UNCHANGED Group!vars
  BY DEF Group!vars

\* Marking one run finished adds it to those that ended; a run that had
\* arrived before stays the only change.
LEMMA OneMoreEnded ==
  ASSUME Inv, NEW r \in Runs, status' = [status EXCEPT ![r] = "completed"]
  PROVE  /\ Ended' = Ended \cup {r}
         /\ Arrived' = Arrived \cup {r}
  BY DEF Inv, TypeOK, Ended, Arrived

\* Finishing a set of runs that had arrived, while another one arrives live.
LEMMA SomeMoreEnded ==
  ASSUME Inv, NEW r \in Runs, status[r] = "absent", NEW S \in SUBSET Arrived,
         status' = [Finished(S) EXCEPT ![r] = "live"]
  PROVE  /\ Ended' = Ended \cup S
         /\ Arrived' = Arrived \cup {r} /\ r \notin Arrived
  <1>1. /\ status'[r] = "live"
        /\ \A s \in Runs \ {r} :
             status'[s] = IF s \in S THEN "completed" ELSE status[s]
    BY DEF Finished, Inv, TypeOK
  <1>2. r \notin S /\ r \notin Arrived
    BY DEF Arrived
  <1>3. Ended' = Ended \cup S
    BY <1>1, <1>2 DEF Ended, Arrived
  <1>4. Arrived' = Arrived \cup {r}
    BY <1>1, <1>2 DEF Arrived
  <1> QED BY <1>2, <1>3, <1>4

\* release_concurrency_for_run, with promote_next_in_group, is a run leaving.
LEMMA ReleaseLeaves ==
  ASSUME Inv, NEW r \in Runs, NEW js, status[r] # "absent",
         status' = [status EXCEPT ![r] = "completed"],
         ReleaseRun(r, js), lastWait' = lastWait
  PROVE  Group!Leave(r)
  <1>1. /\ r \in Arrived
        /\ Ended' = Ended \cup {r}
        /\ Arrived' = Arrived
    BY OneMoreEnded DEF Arrived
  <1>2. CASE hold # r
    BY <1>1, <1>2 DEF ReleaseRun, Group!Leave, Arrived, Ended
  <1>3. CASE hold = r
    <2>1. wait[r] = 0 /\ [wait EXCEPT ![r] = 0] = wait
      BY <1>3 DEF Inv, TypeOK, WaitersParked, Waiting
    <2>2. HandOver(r, js)
      BY <1>3 DEF ReleaseRun
    <2>3. CASE Waiting = {} /\ hold' = NoRun /\ wait' = [wait EXCEPT ![r] = 0]
      <3>1. Group!Pass
        BY <2>1, <2>3 DEF Group!Pass, Group!Queue, Waiting
      <3> QED BY <1>1, <1>3, <3>1 DEF Group!Leave, Arrived, Ended
    <2>4. ASSUME NEW w \in Runs, FirstWaiter(w), hold' \in {w, NoRun},
                 wait' = [wait EXCEPT ![w] = 0, ![r] = 0]
          PROVE  Group!Leave(r)
      <3>1. wait' = [wait EXCEPT ![w] = 0]
        BY <2>1, <2>4 DEF Inv, TypeOK
      <3>2. Group!Oldest(w)
        BY <2>4 DEF FirstWaiter, Waiting, Group!Oldest, Group!Queue
      <3>3. Group!Pass
        BY <2>4, <3>1, <3>2 DEF Group!Pass
      <3> QED BY <1>1, <1>3, <3>3 DEF Group!Leave, Arrived, Ended
    <2> QED BY <2>2, <2>3, <2>4 DEF HandOver
  <1> QED BY <1>2, <1>3

\* The head of a submit (submit_run_head) is an arrival of the abstract group:
\* the run enters the slot, joins the queue or is refused.
LEMMA HeadArrives ==
  ASSUME Inv, QueueFits, NEW r \in Runs, SubmitHead(r)
  PROVE  Group!Enter(r) \/ Group!Join(r) \/ Group!Refuse(r)
  <1> USE AdmissionAssumption
  <1>0. /\ status[r] = "absent" /\ wait[r] = 0 /\ r \notin Arrived /\ r \notin Waiting
        /\ Waiting \in SUBSET Arrived
        /\ hold # NoRun => hold \in Arrived
    BY DEF SubmitHead, ArrivalCancelled, TakeFreeSlot, DisplaceStuck,
           CancelCurrent, Park, Arrives, Inv, TypeOK, AbsentOwnsNothing, Waiting, Arrived
  <1>1. Waiting = Group!Queue
    BY DEF Waiting, Group!Queue
  <1>2. ASSUME NEW cip \in BOOLEAN, NEW single \in BOOLEAN, NEW ext \in BOOLEAN,
               ArrivalCancelled(r, cip, single, ext)
        PROVE  Group!Refuse(r)
    <2>1. Ended' = Ended \cup {r} /\ Arrived' = Arrived \cup {r}
      BY <1>2, OneMoreEnded DEF ArrivalCancelled
    <2> QED BY <1>0, <1>2, <2>1
            DEF ArrivalCancelled, groupVars, Group!Refuse, Group!Arrives, Arrived, Ended
  <1>3. ASSUME hold' = r, UNCHANGED <<wait, lastWait>>,
               status' = [status EXCEPT ![r] = "live"]
        PROVE  Group!Enter(r)
    <2>1. Ended' = Ended /\ Arrived' = Arrived \cup {r}
      BY <1>0, <1>3 DEF Inv, TypeOK, Ended, Arrived
    <2> QED BY <1>0, <1>3, <2>1 DEF Group!Enter, Group!Arrives, Arrived, Ended
  <1>4. ASSUME NEW single \in BOOLEAN, NEW ext \in BOOLEAN,
               CancelCurrent(r, single, ext)
        PROVE  Group!Enter(r)
    <2> DEFINE S == Waiting \cup {hold}
    <2>1. /\ hold # NoRun /\ hold' = r /\ lastWait' = lastWait
          /\ wait' = [s \in Runs |-> 0]
          /\ status' = [Finished(S) EXCEPT ![r] = "live"]
      BY <1>4 DEF CancelCurrent
    <2>2. S \in SUBSET Arrived
      BY <1>0, <2>1
    <2>3. Ended' = Ended \cup S /\ Arrived' = Arrived \cup {r}
      <3> HIDE DEF S
      <3> QED BY <1>0, <2>1, <2>2, SomeMoreEnded
    <2>4. Ended' = Ended \cup Group!Queue \cup {hold}
      BY <1>1, <2>3
    <2> QED BY <1>0, <2>1, <2>3, <2>4
            DEF Group!Enter, Group!Arrives, Arrived, Ended
  <1>5. ASSUME NEW single \in BOOLEAN, NEW ext \in BOOLEAN, Park(r, single, ext)
        PROVE  Group!Join(r)
    <2> DEFINE S == IF single THEN Waiting ELSE {}
    <2>1. /\ hold # NoRun /\ hold' = hold /\ lastWait' = lastWait + 1
          /\ single \/ ~QueueFull
          /\ status' = [Finished(S) EXCEPT ![r] = "live"]
          /\ wait' = [s \in Runs |-> IF s = r THEN lastWait + 1
                                     ELSE IF s \in S THEN 0 ELSE wait[s]]
      BY <1>5 DEF Park
    <2>2. S \in SUBSET Arrived
      BY <1>0
    <2>3. Ended' = Ended \cup S /\ Arrived' = Arrived \cup {r}
      <3> HIDE DEF S
      <3> QED BY <1>0, <2>1, <2>2, SomeMoreEnded
    <2>4. CASE single
      <3>1. /\ Ended' = Ended \cup Group!Queue
            /\ wait' = [s \in Runs |-> IF s = r THEN lastWait + 1 ELSE 0]
        BY <1>1, <2>1, <2>3, <2>4 DEF Waiting, Inv, TypeOK
      <3> QED BY <1>0, <2>1, <2>3, <3>1 DEF Group!Join, Group!Arrives, Arrived, Ended
    <2>5. CASE ~single
      <3>1. /\ Ended' = Ended
            /\ wait' = [wait EXCEPT ![r] = lastWait + 1]
        BY <2>1, <2>3, <2>5 DEF Inv, TypeOK
      <3>2. Cardinality(Waiting) < MaxWaiters
        BY <2>1, <2>5, FS_CardinalityType DEF QueueFull, QueueFits
      <3>3. Group!Cardinality(Group!Queue) < MaxWaiters
        BY <1>1, <3>2, SameCardinality
      <3> QED BY <1>0, <2>1, <2>3, <3>1, <3>3
              DEF Group!Join, Group!Arrives, Arrived, Ended
    <2> QED BY <2>4, <2>5
  <1> QED BY <1>2, <1>3, <1>4, <1>5 DEF SubmitHead, TakeFreeSlot, DisplaceStuck

\* reconcile_on_boot drops no wait row of a live run: it recovers the slot of a
\* dead holder, or its oldest waiter's place, or changes nothing.
LEMMA BootRecovers ==
  ASSUME Inv, Boot
  PROVE  Group!Recover \/ UNCHANGED Group!vars
  <1>1. status' = status /\ lastWait' = lastWait
    BY DEF Boot
  <1>2. \A r \in Runs : status[r] = "completed" => wait[r] = 0
    BY DEF Inv, WaitersParked, Waiting
  <1>3. WaitsWithout({}) = wait
    BY <1>2 DEF WaitsWithout, Inv, TypeOK
  <1>4. ASSUME NEW w \in Runs PROVE WaitsWithout({w}) = [wait EXCEPT ![w] = 0]
    BY <1>2 DEF WaitsWithout, Inv, TypeOK
  <1>5. HoldIsDead => hold \in Ended
    BY DEF HoldIsDead, Ended, Inv, TypeOK
  <1>6. CASE hold' = hold /\ wait' = wait
    BY <1>1, <1>6, GroupStutters
  <1>7. CASE HoldIsDead /\ Waiting = {} /\ hold' = NoRun /\ wait' = wait
    BY <1>1, <1>5, <1>7 DEF Group!Recover, Group!Queue, Waiting, Ended
  <1>8. ASSUME HoldIsDead, hold' = hold, NEW w \in Runs, FirstWaiter(w),
               wait' = WaitsWithout({w})
        PROVE  Group!Recover
    <2>1. Group!Oldest(w)
      BY <1>8 DEF FirstWaiter, Waiting, Group!Oldest, Group!Queue
    <2> QED BY <1>1, <1>4, <1>5, <1>8, <2>1 DEF Group!Recover, Ended
  <1> QED BY <1>3, <1>6, <1>7, <1>8 DEF Boot

\* A run whose last job starves ends and keeps the slot (starve_job).
LEMMA StarveEnds ==
  ASSUME Inv, NEW r \in Runs, NEW c \in Chunks, Starve(r, c)
  PROVE  Group!End(r) \/ UNCHANGED Group!vars
  <1>1. /\ status[r] # "absent" /\ r \notin Waiting
        /\ UNCHANGED <<hold, wait, lastWait>>
    BY DEF Starve, groupVars, Inv, AbsentOwnsNothing, WaitersParked
  <1>2. CASE status' = status
    BY <1>1, <1>2, GroupStutters
  <1>3. CASE status' = [status EXCEPT ![r] = "completed"]
    <2>1. Ended' = Ended \cup {r} /\ Arrived' = Arrived
      BY <1>1, <1>3, OneMoreEnded DEF Arrived
    <2> QED BY <1>1, <2>1 DEF Group!End, Group!Queue, Waiting, Arrived, Ended
  <1> QED BY <1>2, <1>3 DEF Starve

\* Every step of a submit, a job, an operator or the server is a step of the
\* abstract group, or changes nothing that it sees.
LEMMA GroupStep ==
  ASSUME Inv, QueueFits, Next
  PROVE  Group!Next \/ UNCHANGED Group!vars
  <1>1. ASSUME NEW r \in Runs, SubmitHead(r) PROVE Group!Next
    BY <1>1, HeadArrives DEF Group!Next
  <1>2. ASSUME NEW r \in Runs, SubmitFinalize(r) \/ SubmitFails(r)
        PROVE  Group!Next \/ UNCHANGED Group!vars
    <2>1. status[r] # "absent" /\ lastWait' = lastWait
      BY <1>2, AdmissionAssumption
      DEF SubmitFinalize, SubmitFails, Inv, AbsentOwnsNothing
    <2>2. CASE UNCHANGED <<status, hold, wait>>
      BY <2>1, <2>2, GroupStutters
    <2>3. CASE /\ status' = [status EXCEPT ![r] = "completed"]
               /\ ReleaseRun(r, job)
      BY <2>1, <2>3, ReleaseLeaves DEF Group!Next
    <2> QED BY <1>2, <2>2, <2>3 DEF SubmitFinalize, SubmitFails
  <1>3. ASSUME NEW r \in Runs, CancelRun(r) PROVE Group!Next
    BY <1>3, ReleaseLeaves DEF CancelRun, Group!Next
  <1>4. ASSUME NEW r \in Runs, NEW c \in Chunks, Complete(r, c)
        PROVE  Group!Next \/ UNCHANGED Group!vars
    <2> DEFINE js == [job EXCEPT ![r][c] = "done"]
    <2>1. /\ status[r] # "absent" /\ lastWait' = lastWait
          /\ wait[r] = 0 /\ [wait EXCEPT ![r] = 0] = wait
      BY <1>4 DEF Complete, Inv, TypeOK, AbsentOwnsNothing, WaitersParked, Waiting
    <2>2. \/ status' = [status EXCEPT ![r] = "completed"] /\ ReleaseRun(r, js)
          \/ wait' = [wait EXCEPT ![r] = 0] /\ UNCHANGED <<status, hold>>
      BY <1>4 DEF Complete
    <2> HIDE DEF js
    <2> QED BY <2>1, <2>2, ReleaseLeaves, GroupStutters DEF Group!Next
  <1>5. ASSUME NEW r \in Runs, NEW c \in Chunks, Starve(r, c)
        PROVE  Group!Next \/ UNCHANGED Group!vars
    BY <1>5, StarveEnds DEF Group!Next
  <1>6. ASSUME NEW r \in Runs, NEW c \in Chunks,
               Claim(r, c) \/ Requeue(r, c)
        PROVE  UNCHANGED Group!vars
    BY <1>6, GroupStutters DEF Claim, Requeue, groupVars
  <1>7. ASSUME NEW r \in Runs, SubmitChunk(r) PROVE UNCHANGED Group!vars
    BY <1>7, GroupStutters DEF SubmitChunk, groupVars
  <1>8. CASE Crash \/ BootAborts
    BY <1>8, GroupStutters DEF Crash, BootAborts, groupVars
  <1>9. CASE Boot
    BY <1>9, BootRecovers DEF Group!Next
  <1> QED BY <1>1, <1>2, <1>3, <1>4, <1>5, <1>6, <1>7, <1>8, <1>9 DEF Next

\* The group of the code (concurrency_holds and concurrency_waits, with chunked
\* submits, failed submits, starvation, cancellations and restarts) implements
\* one slot with a bounded first-in first-out queue.
THEOREM GroupImplementsSlot == Spec => ImplementsGroupSlot
  <1>1. Init => Group!Init
    BY DEF Init, Group!Init
  <1>2. Inv /\ QueueFits /\ [Next]_vars => [Group!Next]_(Group!vars)
    <2> SUFFICES ASSUME Inv, QueueFits, [Next]_vars
             PROVE  Group!Next \/ UNCHANGED Group!vars
      OBVIOUS
    <2>1. CASE UNCHANGED vars
      BY <2>1, GroupStutters DEF vars, groupVars
    <2> QED BY <2>1, GroupStep
  <1> QED BY <1>1, <1>2, AdmissionInvHolds, QueueAlwaysFits, PTL
          DEF Spec, ImplementsGroupSlot, Group!Spec
=============================================================================
