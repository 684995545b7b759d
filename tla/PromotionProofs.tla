-------------------------- MODULE PromotionProofs --------------------------
(***************************************************************************)
(* Proofs about the job graph of Promotion.                                *)
(*                                                                         *)
(* Any graph: the rows stay well typed, and no base id ever has more legs  *)
(* ready or running than its max-parallel.                                 *)
(* Graphs in which no sweep and no build fails one of several legs that    *)
(* fail-fast ties together (FailsAlone): verdicts stand and a completed    *)
(* run has no live job.                                                    *)
(* If besides no call is in a concurrency group (CallsUngated): jobs start *)
(* after what they need.                                                   *)
(***************************************************************************)
EXTENDS Promotion, FiniteSetTheorems, WellFoundedInduction, TLAPS

Statuses == Terminal \cup Live \cup {"absent"}

-----------------------------------------------------------------------------
(* Counting. *)

\* A run has finitely many names, so the needs of a job can be counted.
LEMMA NamesFinite == IsFiniteSet(Names)
<1> DEFINE Image == {Base[j] : j \in Jobs}
           base  == [j \in Jobs |-> Base[j]]
<1>1. base \in Surjection(Jobs, Image)
  BY DEF Surjection
<1>2. IsFiniteSet(Jobs)
  BY PromotionAssumption
<1>3. IsFiniteSet(Image)
  <2> HIDE DEF Image, base
  <2> QED BY <1>1, <1>2, FS_Surjection
<1> QED
  BY <1>2, <1>3, FS_Union DEF Names

\* The open needs of a job are finitely many.
LEMMA OpenNeedsCounted ==
  ASSUME NEW st, NEW j \in Jobs
  PROVE  OpenNeeds(st, j) \in Nat
<1> DEFINE Open == {n \in Needs[j] : \E k \in Matching(st, n) : st[k] \notin Terminal}
<1>1. Open \in SUBSET Names
  BY PromotionAssumption
<1>2. IsFiniteSet(Open)
  BY <1>1, NamesFinite, FS_Subset
<1> QED
  BY <1>2, FS_CardinalityType DEF OpenNeeds

\* The counts that a recount writes are numbers.
LEMMA RefreshedCounted ==
  ASSUME NEW names, NEW st, NEW q, NEW rem \in [Jobs -> Nat]
  PROVE  /\ RefreshedFor(names, st, q, rem) \in [Jobs -> Nat]
         /\ Refreshed(st, q, rem) \in [Jobs -> Nat]
BY OpenNeedsCounted DEF RefreshedFor, Refreshed

-----------------------------------------------------------------------------
(* The type invariant. *)

\* The rows a command writes and the sweep that begins or goes on with them.
RowsTyped ==
  /\ status \in [Jobs -> Statuses]
  /\ queue \in [Jobs -> QueueStates]
  /\ remaining \in [Jobs -> Nat]
  /\ gate \in [Jobs -> {"none", "waiting", "holding"}]
  /\ conclusion \in Terminal \cup {"none"}

SweepTyped ==
  sweep \in [parked : SUBSET Jobs, todo : SUBSET Jobs, settled : BOOLEAN,
             graph : [Jobs -> Statuses]]

LoopsTyped ==
  /\ generation \in [Jobs -> Nat]
  /\ onRunner \subseteq Jobs
  /\ drains \in 0..MaxDrains
  /\ builds \subseteq [node : Jobs, generation : Nat]
  /\ IsFiniteSet(builds)
  /\ restarts \in 0..MaxRestarts
  /\ starved \subseteq Jobs

\* TypeOK by parts; the claims of the loops can be counted besides.
Typed == RowsTyped /\ SweepTyped /\ LoopsTyped

\* The summary of a run is a verdict, and a conclusion stays one.
LEMMA SummaryTyped ==
  ASSUME NEW st, conclusion \in Terminal \cup {"none"}
  PROVE  Summary(st) \in Terminal /\ Concluded(st) \in Terminal \cup {"none"}
BY DEF Summary, Concluded, Terminal

\* The aggregate of any statuses is a verdict.
LEMMA AggregateTyped == ASSUME NEW S PROVE Aggregate(S) \in Terminal
BY DEF Aggregate, Terminal

\* The columns that a settlement computes have their types.
LEMMA SettledTyped ==
  ASSUME RowsTyped, NEW j \in Jobs, NEW r \in Terminal
  PROVE  /\ SettledStatus(j, r) \in [Jobs -> Statuses]
         /\ SettledQueue(j, r) \in [Jobs -> QueueStates]
         /\ SettledRemaining(j, r) \in [Jobs -> Nat]
<1>1. Effective(j, r) \in Terminal
  BY DEF Effective, Terminal
<1>2. SettledStatus(j, r) \in [Jobs -> Statuses]
  BY <1>1 DEF SettledStatus, RowsTyped, Statuses, Terminal
<1>3. SettledQueue(j, r) \in [Jobs -> QueueStates]
  BY DEF SettledQueue, RowsTyped, QueueStates
<1>4. SettledRemaining(j, r) \in [Jobs -> Nat]
  BY RefreshedCounted DEF SettledRemaining, RowsTyped
<1> QED
  BY <1>2, <1>3, <1>4

\* So have the gates that are left.
LEMMA ReleasedTyped ==
  ASSUME RowsTyped, NEW closed, NEW st
  PROVE  Released(closed, st) \in [Jobs -> {"none", "waiting", "holding"}]
BY DEF Released, RowsTyped

\* settle_node writes typed rows.
LEMMA SettleTyped ==
  ASSUME RowsTyped, NEW j \in Jobs, NEW r \in Terminal, SettleNode(j, r)
  PROVE  RowsTyped'
<1>1. CASE UNCHANGED rows
  BY <1>1 DEF RowsTyped, rows
<1>2. CASE ~UNCHANGED rows
  <2>1. /\ status' = SettledStatus(j, r)
        /\ queue' = SettledQueue(j, r)
        /\ remaining' = SettledRemaining(j, r)
        /\ gate' = Released(Closed(j, r) \cup {j}, SettledStatus(j, r))
        /\ conclusion' = Concluded(SettledStatus(j, r))
    BY <1>2 DEF SettleNode
  <2>2. gate' \in [Jobs -> {"none", "waiting", "holding"}]
    BY <2>1, ReleasedTyped
  <2>3. conclusion' \in Terminal \cup {"none"}
    BY <2>1, SummaryTyped DEF RowsTyped
  <2> QED
    BY <2>1, <2>2, <2>3, SettledTyped DEF RowsTyped
<1> QED
  BY <1>1, <1>2

\* So does the update of one row.
LEMMA PutTyped ==
  ASSUME RowsTyped, NEW j \in Jobs, NEW q \in QueueStates, NEW s \in Statuses,
         NEW g \in {"none", "waiting", "holding"}, Put(j, q, s, g)
  PROVE  RowsTyped'
BY DEF Put, RowsTyped

\* A pass loads typed candidates and a typed graph.
LEMMA PassTyped ==
  ASSUME RowsTyped', sweep' = Pass(status', queue', remaining')
  PROVE  SweepTyped'
BY DEF Pass, SweepTyped, RowsTyped, Candidates, Statuses

\* A sweep that goes on, or begins another pass, stays typed.
LEMMA AdvanceTyped ==
  ASSUME SweepTyped, RowsTyped', NEW j \in Jobs, NEW settles \in BOOLEAN, Advance(j, settles)
  PROVE  SweepTyped'
<1>1. CASE sweep' = Pass(status', queue', remaining')
  BY <1>1, PassTyped
<1>2. CASE sweep' = [sweep EXCEPT !.todo = sweep.todo \ {j},
                                  !.settled = sweep.settled \/ settles]
  BY <1>2 DEF SweepTyped
<1> QED
  BY <1>1, <1>2 DEF Advance

-----------------------------------------------------------------------------
(* What a sweep does to a candidate. *)

\* Neither the sweep nor a build fails the job: it is not a node, has no
\* protected environment and no concurrency group, its runs-on is offered and
\* its condition evaluates.
Spare(j) ==
  /\ j \notin Nodes \cup Guarded \cup Unsatisfiable \cup Gated
  /\ \A s \in Terminal : If[j][s] # "error"

\* The rows of a candidate that is let through.
LetThrough(j, q, s, g) ==
  /\ DependencyDecision(sweep.graph, j) = "run"
  /\ g \notin {"none", gate[j]} => j \in Gated
  /\ \/ q = "pending_expansion" /\ s = status[j] /\ j \in Nodes /\ g \in {"none", "holding", gate[j]}
     \/ /\ q = "held" /\ s = "pending" /\ j \notin Matrix
        /\ (g = "waiting" \/ (g = gate[j] /\ j \in Guarded \ Nodes))
     \/ q = "ready" /\ s = "queued" /\ j \notin Nodes /\ g \in {"none", "holding"} /\ UnderLimit(j)

Visits(j) ==
  \/ UNCHANGED rows /\ Advance(j, FALSE)
  \/ \E q, s, g : \E settles \in BOOLEAN :
       LetThrough(j, q, s, g) /\ Put(j, q, s, g) /\ Advance(j, settles)
  \/ \E r \in Terminal : (r = "failure" => ~Spare(j)) /\ Settles(j, r)

\* A candidate is left alone, let through, or settled; it is failed only if
\* it is none of the jobs that a sweep spares.
LEMMA SweepVisits ==
  ASSUME NEW j \in Jobs, SweepCandidate(j)
  PROVE  Visits(j)
<1> DEFINE decision == DependencyDecision(sweep.graph, j)
<1>0. {"skipped", "failure", "cancelled"} \subseteq Terminal
  BY DEF Terminal
<1>1. decision = "error" => ~Spare(j)
  BY AggregateTyped DEF DependencyDecision, Spare
<1>a. ASSUME NEW r \in {"skipped", "failure", "cancelled"}, Settles(j, r),
             r = "failure" => ~Spare(j)
      PROVE  Visits(j)
  BY <1>0, <1>a DEF Visits
<1>b. ASSUME NEW q, NEW s, NEW g, NEW settles \in BOOLEAN,
             LetThrough(j, q, s, g), Put(j, q, s, g), Advance(j, settles)
      PROVE  Visits(j)
  BY <1>b DEF Visits
<1>2. CASE decision = "run" /\ j \in Callers /\ AdmitCaller(j)
  <2>1. j \in Nodes /\ j \notin Matrix
    BY <1>2, PromotionAssumption DEF Nodes
  <2> DEFINE g == IF j \in Gated THEN "holding" ELSE "none"
  <2>2. CASE Put(j, "pending_expansion", status[j], g) /\ Advance(j, TRUE)
    <3>1. LetThrough(j, "pending_expansion", status[j], g)
      BY <1>2, <2>1 DEF LetThrough
    <3> HIDE DEF g
    <3> QED BY <1>b, <2>2, <3>1
  <2>3. CASE j \in Gated /\ Put(j, "held", "pending", "waiting") /\ Advance(j, TRUE)
    <3>1. LetThrough(j, "held", "pending", "waiting")
      BY <1>2, <2>1, <2>3 DEF LetThrough
    <3> QED BY <1>b, <2>3, <3>1
  <2>4. ASSUME NEW s \in {"cancelled", "failure"}, j \in Gated, Settles(j, s)
        PROVE  Visits(j)
    BY <1>a, <2>4 DEF Spare
  <2> QED
    BY <1>2, <2>2, <2>3, <2>4 DEF AdmitCaller
<1>3. CASE decision = "run" /\ j \in Matrix /\ DeferMatrix(j)
  <2>1. LetThrough(j, "pending_expansion", status[j], gate[j])
    BY <1>3 DEF LetThrough, Nodes
  <2> QED BY <1>b, <1>3, <2>1 DEF DeferMatrix
<1>4. CASE decision = "run" /\ j \notin Nodes /\ UnderLimit(j) /\ StartJob(j)
  <2>0. j \notin Matrix
    BY <1>4 DEF Nodes
  <2>1. CASE j \in Guarded /\ Put(j, "held", "pending", gate[j]) /\ Advance(j, FALSE)
    <3>1. LetThrough(j, "held", "pending", gate[j])
      BY <1>4, <2>0, <2>1 DEF LetThrough
    <3> QED BY <1>b, <2>1, <3>1
  <2>2. CASE j \in Guarded \cup Unsatisfiable /\ Settles(j, "failure")
    BY <1>a, <2>2 DEF Spare
  <2>3. CASE EnqueueReady(j) /\ Advance(j, FALSE)
    <3> DEFINE g == IF j \in Gated THEN "holding" ELSE "none"
    <3>1. LetThrough(j, "ready", "queued", g) /\ Put(j, "ready", "queued", g)
      BY <1>4, <2>3 DEF LetThrough, EnqueueReady
    <3> HIDE DEF g
    <3> QED BY <1>b, <2>3, <3>1
  <2>4. CASE j \in Gated /\ Put(j, "held", "pending", "waiting") /\ Advance(j, FALSE)
    <3>1. LetThrough(j, "held", "pending", "waiting")
      BY <1>4, <2>0, <2>4 DEF LetThrough
    <3> QED BY <1>b, <2>4, <3>1
  <2>5. ASSUME NEW s \in {"cancelled", "failure"}, j \in Gated, Settles(j, s)
        PROVE  Visits(j)
    BY <1>a, <2>5 DEF Spare
  <2> QED
    BY <1>4, <2>1, <2>2, <2>3, <2>4, <2>5 DEF StartJob, AdmitJob
<1>5. CASE decision = "skip" /\ Settles(j, "skipped")
  BY <1>a, <1>5
<1>6. CASE decision = "error" /\ Settles(j, "failure")
  BY <1>a, <1>1, <1>6
<1>7. CASE Advance(j, FALSE) /\ UNCHANGED rows
  BY <1>7 DEF Visits
<1> QED
  BY <1>2, <1>3, <1>4, <1>5, <1>6, <1>7 DEF SweepCandidate

\* A settled or let-through candidate is one of those still to visit.
LEMMA VisitFrame ==
  ASSUME NEW j \in Jobs, SweepCandidate(j)
  PROVE  /\ j \in sweep.todo /\ sweep.parked = {}
         /\ UNCHANGED <<generation, onRunner, loops>>
BY DEF SweepCandidate

-----------------------------------------------------------------------------
(* Types are kept. *)

\* Types are kept by the visit of a candidate.
LEMMA SweepKeepsTypes ==
  ASSUME Typed, NEW j \in Jobs, SweepCandidate(j)
  PROVE  Typed'
<1>0. RowsTyped /\ SweepTyped /\ LoopsTyped
  BY DEF Typed
<1>1. LoopsTyped'
  BY <1>0, VisitFrame DEF LoopsTyped, loops
<1>2. CASE UNCHANGED rows /\ Advance(j, FALSE)
  <2>1. RowsTyped'
    BY <1>0, <1>2 DEF RowsTyped, rows
  <2> QED
    BY <1>0, <1>1, <1>2, <2>1, AdvanceTyped DEF Typed
<1>3. ASSUME NEW q, NEW s, NEW g, NEW settles \in BOOLEAN,
             LetThrough(j, q, s, g), Put(j, q, s, g), Advance(j, settles)
      PROVE  Typed'
  <2>1. q \in QueueStates /\ s \in Statuses /\ g \in {"none", "waiting", "holding"}
    BY <1>0, <1>3 DEF LetThrough, QueueStates, Statuses, Live, RowsTyped
  <2>2. RowsTyped'
    BY <1>0, <1>3, <2>1, PutTyped
  <2> QED
    BY <1>0, <1>1, <1>3, <2>2, AdvanceTyped DEF Typed
<1>4. ASSUME NEW r \in Terminal, Settles(j, r)
      PROVE  Typed'
  <2>1. RowsTyped'
    BY <1>0, <1>4, SettleTyped DEF Settles
  <2> QED
    BY <1>0, <1>1, <1>4, <2>1, AdvanceTyped DEF Typed, Settles
<1> QED
  BY <1>2, <1>3, <1>4, SweepVisits DEF Visits

\* Types are kept by the sweep over parked jobs.
LEMMA ParkedKeepsTypes ==
  ASSUME Typed, \/ ReleaseParked
                \/ \E j \in Jobs : RevisitParked(j)
  PROVE  Typed'
<1>0. RowsTyped /\ SweepTyped /\ LoopsTyped
  BY DEF Typed
<1>1. CASE ReleaseParked
  <2>1. RowsTyped' /\ LoopsTyped'
    BY <1>0, <1>1 DEF ReleaseParked, RowsTyped, LoopsTyped, rows, loops
  <2>2. SweepTyped'
    BY <1>0, <1>1 DEF ReleaseParked, SweepTyped, Parked, RowsTyped
  <2> QED BY <2>1, <2>2 DEF Typed
<1>2. ASSUME NEW j \in Jobs, RevisitParked(j) PROVE Typed'
  <2>1. LoopsTyped'
    BY <1>0, <1>2 DEF RevisitParked, LoopsTyped, loops
  <2>2. RowsTyped'
    <3>1. CASE UNCHANGED rows
      BY <1>0, <3>1 DEF RowsTyped, rows
    <3>2. CASE Put(j, "blocked", "queued", gate[j])
      <4>1. gate[j] \in {"none", "waiting", "holding"}
        BY <1>0 DEF RowsTyped
      <4> QED
        BY <1>0, <3>2, <4>1, PutTyped DEF QueueStates, Statuses, Live
    <3>3. CASE SettleNode(j, "failure")
      BY <1>0, <3>3, SettleTyped DEF Terminal
    <3> QED
      BY <1>2, <3>1, <3>2, <3>3 DEF RevisitParked
  <2>3. SweepTyped'
    <3>1. CASE sweep' = Pass(status', queue', remaining')
      BY <2>2, <3>1, PassTyped
    <3>2. CASE sweep' = [sweep EXCEPT !.parked = @ \ {j}]
      BY <1>0, <3>2 DEF SweepTyped
    <3> QED
      BY <1>2, <3>1, <3>2 DEF RevisitParked
  <2> QED BY <2>1, <2>2, <2>3 DEF Typed
<1> QED
  BY <1>1, <1>2

\* The rows after a completion: settled, then finished calls folded.
LEMMA ReportRows ==
  ASSUME NEW j \in Jobs, NEW r \in Terminal, Report(j, r)
  PROVE  \/ UNCHANGED rows
         \/ LET st == SettledStatus(j, r)
            IN  /\ status[j] \notin Terminal \ {"cancelled"}
                /\ status' = Folded(st)
                /\ queue' = [k \in Jobs |-> IF k \in Foldable(st) THEN "none"
                                            ELSE SettledQueue(j, r)[k]]
                /\ remaining' = RefreshedFor(Foldable(st), Folded(st), queue', SettledRemaining(j, r))
                /\ gate' = Released(Closed(j, r) \cup Foldable(st) \cup {j}, Folded(st))
                /\ conclusion' = Concluded(Folded(st))
BY DEF Report

\* Types are kept by a completion.
LEMMA ReportKeepsTypes ==
  ASSUME Typed, NEW j \in Jobs, NEW r \in Terminal, Report(j, r)
  PROVE  Typed'
<1>0. RowsTyped /\ SweepTyped /\ LoopsTyped
  BY DEF Typed
<1>1. LoopsTyped'
  <2>1. drains' \in 0..MaxDrains
    BY <1>0, PromotionAssumption DEF Report, StartDrain, LoopsTyped
  <2> QED
    BY <1>0, <2>1 DEF Report, LoopsTyped
<1>2. RowsTyped'
  <2>1. CASE UNCHANGED rows
    BY <1>0, <2>1 DEF RowsTyped, rows
  <2>2. CASE ~UNCHANGED rows
    <3> DEFINE st == SettledStatus(j, r)
    <3>1. /\ status' = Folded(st)
          /\ queue' = [k \in Jobs |-> IF k \in Foldable(st) THEN "none" ELSE SettledQueue(j, r)[k]]
          /\ remaining' = RefreshedFor(Foldable(st), Folded(st), queue', SettledRemaining(j, r))
          /\ gate' = Released(Closed(j, r) \cup Foldable(st) \cup {j}, Folded(st))
          /\ conclusion' = Concluded(Folded(st))
      BY <2>2, ReportRows
    <3>2. /\ st \in [Jobs -> Statuses]
          /\ SettledQueue(j, r) \in [Jobs -> QueueStates]
          /\ SettledRemaining(j, r) \in [Jobs -> Nat]
      BY <1>0, SettledTyped
    <3> HIDE DEF st
    <3>3. status' \in [Jobs -> Statuses]
      BY <3>1, <3>2, AggregateTyped DEF Folded, Statuses
    <3>4. queue' \in [Jobs -> QueueStates] /\ gate' \in [Jobs -> {"none", "waiting", "holding"}]
      BY <1>0, <3>1, <3>2, ReleasedTyped DEF QueueStates
    <3>5. remaining' \in [Jobs -> Nat]
      BY <3>1, <3>2, RefreshedCounted
    <3>6. conclusion' \in Terminal \cup {"none"}
      BY <1>0, <3>1, SummaryTyped DEF RowsTyped
    <3> QED
      BY <3>3, <3>4, <3>5, <3>6 DEF RowsTyped
  <2> QED BY <2>1, <2>2
<1>3. SweepTyped'
  BY <1>2, PassTyped DEF Report
<1> QED
  BY <1>1, <1>2, <1>3 DEF Typed

\* Types are kept by claims, cancellations, the reaper and other runs.
LEMMA CommandsKeepTypes ==
  ASSUME Typed, \/ CancelRun
                \/ \E j \in Jobs : Claim(j) \/ Starve(j) \/ GrantSlot(j) \/ Displaced(j)
  PROVE  Typed'
<1>0. RowsTyped /\ SweepTyped /\ LoopsTyped
  BY DEF Typed
<1>1. CASE CancelRun
  <2>1. RowsTyped'
    BY <1>0, <1>1 DEF CancelRun, RowsTyped, Statuses, Terminal, QueueStates
  <2>2. LoopsTyped' /\ SweepTyped'
    BY <1>0, <1>1 DEF CancelRun, LoopsTyped, SweepTyped, loops
  <2> QED BY <2>1, <2>2 DEF Typed
<1>2. ASSUME NEW j \in Jobs, Claim(j) PROVE Typed'
  <2>1. RowsTyped'
    <3>1. gate[j] \in {"none", "waiting", "holding"}
      BY <1>0 DEF RowsTyped
    <3> QED
      BY <1>0, <1>2, <3>1, PutTyped DEF Claim, QueueStates, Statuses, Live
  <2>2. LoopsTyped' /\ SweepTyped'
    BY <1>0, <1>2 DEF Claim, LoopsTyped, SweepTyped, loops
  <2> QED BY <2>1, <2>2 DEF Typed
<1>3. ASSUME NEW j \in Jobs, GrantSlot(j) PROVE Typed'
  <2>1. RowsTyped'
    BY <1>0, <1>3, PutTyped DEF GrantSlot, EnqueueReady, QueueStates, Statuses, Live
  <2>2. LoopsTyped'
    BY <1>0, <1>3 DEF GrantSlot, LoopsTyped, loops
  <2>3. SweepTyped'
    <3>1. CASE UNCHANGED sweep
      BY <1>0, <3>1 DEF SweepTyped
    <3> QED
      BY <1>3, <2>1, <3>1, PassTyped DEF GrantSlot
  <2> QED BY <2>1, <2>2, <2>3 DEF Typed
<1>4. ASSUME NEW j \in Jobs, Displaced(j) PROVE Typed'
  <2>1. conclusion' \in Terminal \cup {"none"}
    BY <1>0, <1>4, SummaryTyped DEF Displaced, RowsTyped
  <2>2. RowsTyped'
    BY <1>0, <1>4, <2>1 DEF Displaced, RowsTyped, Statuses, Terminal, QueueStates
  <2>3. LoopsTyped' /\ SweepTyped'
    BY <1>0, <1>4 DEF Displaced, LoopsTyped, SweepTyped, loops
  <2> QED BY <2>2, <2>3 DEF Typed
<1>5. ASSUME NEW j \in Jobs, Starve(j) PROVE Typed'
  <2>1. conclusion' \in Terminal \cup {"none"}
    BY <1>0, <1>5, SummaryTyped DEF Starve, RowsTyped
  <2>2. RowsTyped'
    BY <1>0, <1>5, <2>1 DEF Starve, RowsTyped, Statuses, Terminal, QueueStates
  <2>3. LoopsTyped' /\ SweepTyped'
    BY <1>0, <1>5 DEF Starve, LoopsTyped, SweepTyped
  <2> QED BY <2>2, <2>3 DEF Typed
<1> QED
  BY <1>1, <1>2, <1>3, <1>4, <1>5

\* Types are kept by the expansion loops and a restart.
LEMMA LoopsKeepTypes ==
  ASSUME Typed, \/ EndDrain \/ DrainElsewhere \/ Restart
                \/ \E n \in Jobs : ClaimExpansion(n)
  PROVE  Typed'
<1>0. RowsTyped /\ SweepTyped /\ LoopsTyped /\ Cardinality(builds) \in Nat
  BY FS_CardinalityType DEF Typed, LoopsTyped
<1>1. SweepTyped'
  BY <1>0 DEF SweepTyped, EndDrain, DrainElsewhere, Restart, ClaimExpansion
<1>2. CASE EndDrain
  <2>1. drains' \in 0..MaxDrains
    BY <1>0, <1>2, PromotionAssumption DEF EndDrain, LoopsTyped
  <2>2. LoopsTyped' /\ RowsTyped'
    BY <1>0, <1>2, <2>1 DEF EndDrain, RowsTyped, LoopsTyped, rows
  <2> QED BY <1>1, <2>2 DEF Typed
<1>3. CASE DrainElsewhere
  <2>1. drains' \in 0..MaxDrains
    BY <1>0, <1>3, PromotionAssumption DEF DrainElsewhere, StartDrain, LoopsTyped
  <2>2. LoopsTyped' /\ RowsTyped'
    BY <1>0, <1>3, <2>1 DEF DrainElsewhere, RowsTyped, LoopsTyped, rows
  <2> QED BY <1>1, <2>2 DEF Typed
<1>4. CASE Restart
  <2>1. LoopsTyped'
    BY <1>0, <1>4, FS_EmptySet, PromotionAssumption DEF Restart, LoopsTyped
  <2>2. RowsTyped'
    BY <1>0, <1>4 DEF Restart, RowsTyped, QueueStates
  <2> QED BY <1>1, <2>1, <2>2 DEF Typed
<1>5. ASSUME NEW n \in Jobs, ClaimExpansion(n) PROVE Typed'
  <2>1. IsFiniteSet(builds')
    BY <1>0, <1>5, FS_AddElement DEF ClaimExpansion, LoopsTyped
  <2>2. LoopsTyped'
    BY <1>0, <1>5, <2>1 DEF ClaimExpansion, LoopsTyped
  <2>3. RowsTyped'
    BY <1>0, <1>5 DEF ClaimExpansion, RowsTyped, QueueStates
  <2> QED BY <1>1, <2>2, <2>3 DEF Typed
<1> QED
  BY <1>2, <1>3, <1>4, <1>5

\* What a build does to the rows: nothing, its subtree, or a verdict.
LEMMA ApplyRows ==
  ASSUME NEW b \in builds, NEW o, ApplyExpansion(b, o)
  PROVE  \/ b.generation # generation[b.node] /\ UNCHANGED <<rows, sweep>>
         \/ /\ b.generation = generation[b.node]
            /\ \/ Install(b.node)
               \/ \E v \in {"skipped", "failure"} : ConcludeNode(b.node, v)
            /\ sweep' = Pass(status', queue', remaining')
BY DEF ApplyExpansion

\* Types are kept when a build is applied.
LEMMA ApplyKeepsTypes ==
  ASSUME Typed, NEW b \in builds, NEW o, ApplyExpansion(b, o)
  PROVE  Typed'
<1>0. RowsTyped /\ SweepTyped /\ LoopsTyped
  BY DEF Typed
<1>1. b.node \in Jobs
  BY <1>0 DEF LoopsTyped
<1>2. LoopsTyped'
  BY <1>0, FS_RemoveElement DEF ApplyExpansion, LoopsTyped
<1>3. CASE UNCHANGED <<rows, sweep>>
  BY <1>0, <1>2, <1>3 DEF Typed, RowsTyped, SweepTyped, rows
<1>4. CASE Install(b.node) /\ sweep' = Pass(status', queue', remaining')
  <2>1. status' \in [Jobs -> Statuses] /\ queue' \in [Jobs -> QueueStates]
    BY <1>0, <1>4 DEF Install, RowsTyped, Statuses, Terminal, Live, QueueStates
  <2>2. remaining' \in [Jobs -> Nat]
    BY <1>0, <1>4, RefreshedCounted DEF Install, RowsTyped
  <2>3. RowsTyped'
    BY <1>0, <1>4, <2>1, <2>2 DEF Install, RowsTyped
  <2> QED
    BY <1>2, <1>4, <2>3, PassTyped DEF Typed
<1>5. ASSUME NEW v \in {"skipped", "failure"}, ConcludeNode(b.node, v),
             sweep' = Pass(status', queue', remaining')
      PROVE  Typed'
  <2>0. v \in Terminal
    BY DEF Terminal
  <2>1. status' \in [Jobs -> Statuses] /\ queue' \in [Jobs -> QueueStates]
    BY <1>0, <1>1, <1>5, <2>0, SettledTyped DEF ConcludeNode
  <2>2. remaining' \in [Jobs -> Nat]
    BY <1>0, <1>5, RefreshedCounted DEF ConcludeNode, RowsTyped
  <2>3. gate' \in [Jobs -> {"none", "waiting", "holding"}]
    BY <1>0, <1>5, ReleasedTyped DEF ConcludeNode
  <2>4. conclusion' \in Terminal \cup {"none"}
    BY <1>0, <1>5, SummaryTyped DEF ConcludeNode, RowsTyped
  <2>5. RowsTyped'
    BY <2>1, <2>2, <2>3, <2>4 DEF RowsTyped
  <2> QED
    BY <1>2, <1>5, <2>5, PassTyped DEF Typed
<1> QED
  BY <1>3, <1>4, <1>5, ApplyRows

\* The submit writes typed rows.
LEMMA InitTyped == Init => Typed
<1> SUFFICES ASSUME Init PROVE Typed
  OBVIOUS
<1>1. \A j \in Jobs : InitialStatus(j) \in Statuses /\ InitialQueue(j) \in QueueStates
  BY DEF InitialStatus, InitialQueue, Statuses, Terminal, Live, QueueStates
<1>2. RowsTyped
  <2>1. conclusion \in Terminal \cup {"none"}
    BY DEF Init, Summary, Terminal
  <2>2. remaining \in [Jobs -> Nat]
    BY OpenNeedsCounted DEF Init
  <2> QED
    BY <1>1, <2>1, <2>2 DEF Init, RowsTyped
<1>3. SweepTyped
  BY <1>2 DEF Init, Pass, Candidates, SweepTyped, RowsTyped
<1>4. LoopsTyped
  BY FS_EmptySet, PromotionAssumption DEF Init, LoopsTyped
<1> QED
  BY <1>2, <1>3, <1>4 DEF Typed

\* Every step keeps the types.
LEMMA StepTyped == Typed /\ [Next]_vars => Typed'
<1> SUFFICES ASSUME Typed, [Next]_vars PROVE Typed'
  OBVIOUS
<1>1. CASE UNCHANGED vars
  BY <1>1 DEF Typed, RowsTyped, SweepTyped, LoopsTyped, vars, rows, loops
<1>2. ASSUME NEW j \in Jobs, NEW s \in {"success", "failure", "cancelled"}, Report(j, s)
      PROVE  Typed'
  BY <1>2, ReportKeepsTypes DEF Terminal
<1> QED
  BY <1>1, <1>2, SweepKeepsTypes, ParkedKeepsTypes, CommandsKeepTypes, LoopsKeepTypes,
     ApplyKeepsTypes DEF Next, CancelJobInner, FailJobset

\* The tables of any run, whatever its graph, stay as the schema has them:
\* counts of needs and generations are numbers, and the loops that build are
\* within their bound (promote.rs, expansion.rs).
THEOREM PromotionTypeCorrect == Spec => []TypeOK
<1>1. Spec => []Typed
  BY InitTyped, StepTyped, PTL DEF Spec
<1>2. Typed => TypeOK
  BY DEF Typed, TypeOK, RowsTyped, SweepTyped, LoopsTyped, Statuses
<1> QED
  BY <1>1, <1>2, PTL

-----------------------------------------------------------------------------
(* max-parallel. *)

\* The job takes one of its base's places.
Busy(k) ==
  \/ status[k] = "in_progress" /\ k \notin Callers
  \/ queue[k] \in {"ready", "claimed"}

\* No job but the given ones becomes busy.
OnlyBusies(S) == \A k \in Jobs \ S : Busy(k)' => Busy(k)

\* The two ways in which the rows of several jobs change at once.
LEMMA SettleIdles ==
  ASSUME RowsTyped, NEW j \in Jobs, NEW r \in Terminal,
         status' = SettledStatus(j, r), queue' = SettledQueue(j, r)
  PROVE  OnlyBusies({})
<1>1. Effective(j, r) # "in_progress"
  BY DEF Effective, Terminal
<1> QED
  BY <1>1 DEF OnlyBusies, Busy, SettledStatus, SettledQueue, RowsTyped

\* Folding a call makes nobody busy.
LEMMA FoldIdles ==
  ASSUME NEW st, NEW q, st \in [Jobs -> Statuses], q \in [Jobs -> QueueStates],
         status' = Folded(st),
         queue' = [k \in Jobs |-> IF k \in Foldable(st) THEN "none" ELSE q[k]],
         NEW k \in Jobs, Busy(k)'
  PROVE  (st[k] = "in_progress" /\ k \notin Callers) \/ q[k] \in {"ready", "claimed"}
<1>1. Folded(st)[k] = "in_progress" => st[k] = "in_progress"
  BY AggregateTyped DEF Folded, Terminal
<1> QED
  BY <1>1 DEF Busy

\* A job becomes busy only below the limit of its base.
LEMMA BusyStep ==
  ASSUME Typed, [Next]_vars
  PROVE  OnlyBusies({}) \/ \E j \in Jobs : UnderLimit(j) /\ OnlyBusies({j})
<1>0. RowsTyped /\ LoopsTyped
  BY DEF Typed
<1>u. ASSUME UNCHANGED rows PROVE OnlyBusies({})
  BY <1>u DEF OnlyBusies, Busy, rows
<1>s. ASSUME NEW j \in Jobs, NEW r \in Terminal, SettleNode(j, r)
      PROVE  OnlyBusies({})
  BY <1>0, <1>u, <1>s, SettleIdles DEF SettleNode
<1>p. ASSUME NEW j \in Jobs, NEW q, NEW s, NEW g, Put(j, q, s, g)
      PROVE  /\ OnlyBusies({j})
             /\ status'[j] = s /\ queue'[j] = q
  BY <1>0, <1>p DEF Put, OnlyBusies, Busy, RowsTyped
<1>1. ASSUME NEW j \in Jobs, SweepCandidate(j)
      PROVE  OnlyBusies({}) \/ (UnderLimit(j) /\ OnlyBusies({j}))
  <2>1. ASSUME NEW q, NEW s, NEW g, LetThrough(j, q, s, g), Put(j, q, s, g), q # "ready"
        PROVE  OnlyBusies({})
    <3>1. OnlyBusies({j}) /\ status'[j] = s /\ queue'[j] = q
      BY <1>p, <2>1
    <3>2. Busy(j)' => Busy(j)
      BY <2>1, <3>1 DEF LetThrough, Busy
    <3> QED
      BY <3>1, <3>2 DEF OnlyBusies
  <2>2. ASSUME NEW q, NEW s, NEW g, LetThrough(j, q, s, g), Put(j, q, s, g), q = "ready"
        PROVE  UnderLimit(j) /\ OnlyBusies({j})
    BY <1>p, <2>2 DEF LetThrough
  <2> QED
    BY <1>1, <1>u, <1>s, <2>1, <2>2, SweepVisits DEF Visits, Settles
<1>2. ASSUME NEW j \in Jobs, RevisitParked(j)
      PROVE  OnlyBusies({})
  <2>1. CASE Put(j, "blocked", "queued", gate[j])
    BY <1>p, <2>1 DEF OnlyBusies, Busy
  <2>2. CASE SettleNode(j, "failure")
    BY <1>s, <2>2 DEF Terminal
  <2> QED
    BY <1>2, <1>u, <2>1, <2>2 DEF RevisitParked
<1>3. ASSUME NEW j \in Jobs, Claim(j)
      PROVE  OnlyBusies({})
  BY <1>3, <1>p DEF Claim, OnlyBusies, Busy
<1>4. ASSUME NEW j \in Jobs, GrantSlot(j)
      PROVE  OnlyBusies({}) \/ (UnderLimit(j) /\ OnlyBusies({j}))
  <2>1. CASE Put(j, "blocked", "queued", "holding")
    BY <1>p, <2>1 DEF OnlyBusies, Busy
  <2>2. CASE UnderLimit(j) /\ EnqueueReady(j)
    BY <1>p, <2>2 DEF EnqueueReady
  <2> QED
    BY <1>4, <2>1, <2>2 DEF GrantSlot
<1>5. ASSUME NEW j \in Jobs, ClaimExpansion(j) \/ Displaced(j) \/ Starve(j)
      PROVE  OnlyBusies({})
  BY <1>0, <1>5 DEF ClaimExpansion, Displaced, Starve, OnlyBusies, Busy, RowsTyped
<1>6. ASSUME NEW j \in Jobs, NEW r \in {"success", "failure", "cancelled"}, Report(j, r)
      PROVE  OnlyBusies({})
  <2>0. r \in Terminal
    BY DEF Terminal
  <2>1. CASE ~UNCHANGED rows
    <3> DEFINE st == SettledStatus(j, r)
               q  == SettledQueue(j, r)
    <3>1. /\ status' = Folded(st)
          /\ queue' = [k \in Jobs |-> IF k \in Foldable(st) THEN "none" ELSE q[k]]
      BY <1>6, <2>0, <2>1, ReportRows
    <3>2. st \in [Jobs -> Statuses] /\ q \in [Jobs -> QueueStates]
      BY <1>0, <2>0, SettledTyped
    <3>3. ASSUME NEW k \in Jobs,
                 (st[k] = "in_progress" /\ k \notin Callers) \/ q[k] \in {"ready", "claimed"}
          PROVE  Busy(k)
      <4>1. Effective(j, r) # "in_progress"
        BY <2>0 DEF Effective, Terminal
      <4> QED
        BY <1>0, <3>3, <4>1 DEF Busy, SettledStatus, SettledQueue, RowsTyped
    <3> HIDE DEF st, q
    <3> QED
      BY <3>1, <3>2, <3>3, FoldIdles DEF OnlyBusies
  <2> QED BY <1>u, <2>1
<1>7. CASE CancelRun
  BY <1>0, <1>7 DEF CancelRun, OnlyBusies, Busy, RowsTyped
<1>8. ASSUME NEW b \in builds, NEW o, ApplyExpansion(b, o)
      PROVE  OnlyBusies({})
  <2>0. b.node \in Jobs
    BY <1>0 DEF LoopsTyped
  <2>1. CASE Install(b.node)
    BY <1>0, <2>1 DEF Install, OnlyBusies, Busy, RowsTyped
  <2>2. ASSUME NEW v \in {"skipped", "failure"}, ConcludeNode(b.node, v)
        PROVE  OnlyBusies({})
    BY <1>0, <2>0, <2>2, SettleIdles DEF ConcludeNode, Terminal
  <2> QED
    BY <1>8, <1>u, <2>1, <2>2, ApplyRows
<1>9. CASE Restart
  BY <1>0, <1>9 DEF Restart, OnlyBusies, Busy, RowsTyped
<1>10. CASE ReleaseParked \/ EndDrain \/ DrainElsewhere \/ UNCHANGED vars
  <2>1. UNCHANGED rows
    BY <1>10 DEF ReleaseParked, EndDrain, DrainElsewhere, vars
  <2> QED BY <1>u, <2>1
<1> QED
  BY <1>1, <1>2, <1>3, <1>4, <1>5, <1>6, <1>7, <1>8, <1>9, <1>10
     DEF Next, CancelJobInner, FailJobset

BusyLegs(b) == {k \in Jobs : Base[k] = b /\ Busy(k)}

\* The busy legs of a base can be counted.
LEMMA BusyLegsCounted ==
  ASSUME NEW b
  PROVE  IsFiniteSet(BusyLegs(b)) /\ Cardinality(BusyLegs(b)) \in Nat
<1>1. IsFiniteSet(Jobs) /\ BusyLegs(b) \in SUBSET Jobs
  BY PromotionAssumption DEF BusyLegs
<1> QED
  BY <1>1, FS_Subset, FS_CardinalityType

\* max-parallel is a bound on the number of busy legs.
LEMMA KeptIsCounted == MaxParallelKept <=> \A b \in Names : Cardinality(BusyLegs(b)) <= Limit[b]
BY DEF MaxParallelKept, BusyLegs, Busy

\* Below the limit there is room for one more.
LEMMA MaxParallelStep ==
  ASSUME Typed, MaxParallelKept, [Next]_vars
  PROVE  MaxParallelKept'
<1> SUFFICES ASSUME NEW b \in Names PROVE Cardinality(BusyLegs(b)') <= Limit[b]
  BY DEF MaxParallelKept, BusyLegs, Busy
<1> DEFINE L == BusyLegs(b)
           M == BusyLegs(b)'
<1>0. /\ IsFiniteSet(L) /\ Cardinality(L) \in Nat /\ Cardinality(L) <= Limit[b]
      /\ Limit[b] \in Nat
  BY BusyLegsCounted, KeptIsCounted, PromotionAssumption
<1>1. CASE OnlyBusies({})
  <2>1. M \in SUBSET L
    BY <1>1 DEF OnlyBusies, BusyLegs
  <2>2. Cardinality(M) <= Cardinality(L) /\ Cardinality(M) \in Nat
    <3> HIDE DEF L, M
    <3> QED BY <1>0, <2>1, FS_Subset, FS_CardinalityType
  <2> QED
    BY <1>0, <2>2
<1>2. ASSUME NEW j \in Jobs, UnderLimit(j), OnlyBusies({j})
      PROVE  Cardinality(M) <= Limit[b]
  <2>1. CASE Base[j] # b
    <3>1. M \in SUBSET L
      BY <1>2, <2>1 DEF OnlyBusies, BusyLegs
    <3>2. Cardinality(M) <= Cardinality(L) /\ Cardinality(M) \in Nat
      <4> HIDE DEF L, M
      <4> QED BY <1>0, <3>1, FS_Subset, FS_CardinalityType
    <3> QED
      BY <1>0, <3>2
  <2>2. CASE Base[j] = b
    <3> DEFINE U == {k \in Jobs : /\ Base[k] = Base[j]
                                  /\ \/ status[k] = "in_progress"
                                     \/ queue[k] \in {"ready", "claimed"}}
    <3>1. Cardinality(U) < Limit[b]
      BY <1>2, <2>2 DEF UnderLimit
    <3>2. M \in SUBSET (U \cup {j})
      BY <1>2, <2>2 DEF OnlyBusies, BusyLegs, Busy
    <3>3. IsFiniteSet(U)
      <4>1. IsFiniteSet(Jobs) /\ U \in SUBSET Jobs
        BY PromotionAssumption
      <4> HIDE DEF U
      <4> QED BY <4>1, FS_Subset
    <3> HIDE DEF U, M
    <3>a. Cardinality(U) \in Nat
      BY <3>3, FS_CardinalityType
    <3>b. /\ IsFiniteSet(U \cup {j})
          /\ Cardinality(U \cup {j}) = IF j \in U THEN Cardinality(U) ELSE Cardinality(U) + 1
      BY <3>3, FS_AddElement
    <3>4. IsFiniteSet(U \cup {j}) /\ Cardinality(U \cup {j}) <= Cardinality(U) + 1
      BY <3>a, <3>b
    <3>5. Cardinality(M) <= Cardinality(U \cup {j}) /\ Cardinality(M) \in Nat /\ Cardinality(U \cup {j}) \in Nat
      BY <3>2, <3>4, FS_Subset, FS_CardinalityType
    <3> QED
      BY <1>0, <3>1, <3>a, <3>4, <3>5
  <2> QED BY <2>1, <2>2
<1> QED
  BY <1>1, <1>2, BusyStep

\* A finite nonempty set of jobs has one that comes last.
LEMMA LastOne ==
  ASSUME NEW S \in SUBSET Jobs, S # {}
  PROVE  \E j \in S : \A k \in S : Order[k] <= Order[j]
<1> DEFINE Later(j) == {k \in S : Order[j] < Order[k]}
           T == {Later(j) : j \in S}
           R == StrictSubsetOrdering(S)
<1>0. IsFiniteSet(S) /\ \A j \in S : Order[j] \in Nat
  BY PromotionAssumption, FS_Subset
<1>1. T \subseteq FiniteSubsetsOf(S) /\ T # {}
  <2>1. \A j \in S : Later(j) \in SUBSET S /\ IsFiniteSet(Later(j))
    BY <1>0, FS_Subset
  <2> QED
    BY <2>1 DEF FiniteSubsetsOf
<1>2. PICK X \in T : \A Y \in T : <<Y, X>> \notin R
  <2> HIDE DEF T, R
  <2>1. IsWellFoundedOn(R, FiniteSubsetsOf(S))
    BY FS_StrictSubsetOrderingWellFounded DEF R
  <2> QED
    BY <1>1, <2>1, WFMin
<1>3. PICK j \in S : X = Later(j)
  OBVIOUS
<1>4. ASSUME NEW k \in S, ~(Order[k] <= Order[j])
      PROVE  FALSE
  <2>1. k \in Later(j)
    BY <1>0, <1>4
  <2>2. Later(k) \subseteq Later(j) /\ Later(k) # Later(j)
    BY <1>0, <2>1
  <2>3. <<Later(k), Later(j)>> \in R
    BY <2>2 DEF StrictSubsetOrdering
  <2> QED
    BY <1>2, <1>3, <2>3
<1> QED
  BY <1>4

\* The submit lets no more legs of a base through than its limit: of those
\* it lets through, all but the last come before the last.
LEMMA MaxParallelInit == Init => MaxParallelKept
<1> SUFFICES ASSUME Init, NEW b \in Names
             PROVE  Cardinality(BusyLegs(b)) <= Limit[b]
  BY KeptIsCounted
<1> DEFINE L == BusyLegs(b)
<1>0. IsFiniteSet(L) /\ Cardinality(L) \in Nat /\ L \in SUBSET Jobs /\ Limit[b] \in Nat
  <2>1. L \in SUBSET Jobs
    BY DEF BusyLegs
  <2> QED
    BY <2>1, BusyLegsCounted, PromotionAssumption
<1>1. CASE L = {}
  BY <1>0, <1>1, FS_EmptySet
<1>2. CASE L # {}
  <2>1. L \subseteq InitiallyReady
    BY DEF Init, BusyLegs, Busy, InitialStatus, InitialQueue
  <2>2. PICK j \in L : \A k \in L : Order[k] <= Order[j]
    BY <1>0, <1>2, LastOne
  <2> DEFINE E == {k \in Startable : Base[k] = Base[j] /\ Order[k] < Order[j]}
  <2>3. Cardinality(E) < Limit[b]
    BY <2>1, <2>2 DEF InitiallyReady, BusyLegs
  <2>4. L \ {j} \in SUBSET E
    <3>1. \A k \in L : k \in Submitted /\ k \in Startable /\ Base[k] = b
      BY <2>1 DEF InitiallyReady, Startable, BusyLegs
    <3>2. \A k \in L \ {j} : Order[k] # Order[j]
      BY <3>1, PromotionAssumption
    <3>3. \A k \in L : Order[k] \in Nat
      BY <1>0, PromotionAssumption
    <3> QED
      BY <2>2, <3>1, <3>2, <3>3
  <2>5. IsFiniteSet(E)
    <3>1. IsFiniteSet(Jobs) /\ E \in SUBSET Jobs
      BY PromotionAssumption DEF Startable
    <3> HIDE DEF E
    <3> QED BY <3>1, FS_Subset
  <2> HIDE DEF E, L
  <2>6. Cardinality(L \ {j}) = Cardinality(L) - 1
    BY <1>0, <2>2, FS_RemoveElement
  <2>7. Cardinality(L \ {j}) <= Cardinality(E) /\ Cardinality(E) \in Nat
    BY <2>4, <2>5, FS_Subset, FS_CardinalityType
  <2> QED
    BY <1>0, <2>3, <2>6, <2>7 DEF L
<1> QED
  BY <1>1, <1>2

\* However a leg gets its place, by the submit, a sweep, an approval or a
\* freed concurrency slot, a base never has more legs ready or running than
\* its max-parallel, for any matrix and any graph (under_max_parallel).
THEOREM LimitsHold == Spec => []MaxParallelKept
<1>1. Init => Typed /\ MaxParallelKept
  BY InitTyped, MaxParallelInit
<1>2. Typed /\ MaxParallelKept /\ [Next]_vars => (Typed /\ MaxParallelKept)'
  BY StepTyped, MaxParallelStep
<1> QED
  BY <1>1, <1>2, PTL DEF Spec

-----------------------------------------------------------------------------
(* Verdicts. *)

\* Of two legs that fail-fast ties together, neither is failed by a sweep or
\* by a build; a matrix node and the legs it is expanded into are no such
\* pair.  Without this a sweep goes on with candidates it has cancelled, and
\* a build goes on for a node that was.
FailsAlone ==
  \A j, k \in Jobs : j # k /\ Base[j] = Base[k] /\ Base[j] \in FailFast =>
    Spare(j) \/ (j \in Matrix /\ k \in Inner[j]) \/ (k \in Matrix /\ j \in Inner[k])

\* The columns of one job agree.
Agree(j, s, q, g) ==
  /\ q # "none" => s \in Live
  /\ q \in {"ready", "claimed"} => j \notin Nodes
  /\ q \in {"pending_expansion", "expanding"} => j \in Nodes
  /\ q = "held" => g = "waiting" \/ j \in Guarded \ Nodes
  /\ g = "waiting" => q = "held" /\ j \notin Matrix
  /\ g # "none" => j \in Gated

RowsAgree == \A j \in Jobs : Agree(j, status[j], queue[j], gate[j])

\* A node that is still queued has none of its jobs yet.
NotYetExpanded ==
  \A n \in Nodes : queue[n] # "none" => \A k \in Inner[n] : status[k] = "absent"

\* A concluded run has no live job, in the middle of a sweep as well.
ConcludedIsDone == conclusion # "none" => AllDone(status)

RowsFit == RowsAgree /\ NotYetExpanded /\ ConcludedIsDone

\* A build that will be folded in is that of a node still leased to it.
BuildsCurrent ==
  \A b \in builds : /\ b.generation <= generation[b.node]
                    /\ b.generation = generation[b.node] => queue[b.node] = "expanding"

\* What is left of a sweep is still blocked, or parked without a wait row.
SweepFits ==
  /\ \A j \in sweep.todo : queue[j] = "blocked"
  /\ sweep.parked # {} => sweep.todo = {}
  /\ \A j \in sweep.parked : j \in Guarded \ Nodes /\ gate[j] # "waiting"

VerdictInv == Typed /\ RowsFit /\ BuildsCurrent /\ SweepFits

\* The step that VerdictsStand allows.
Stands == \A j \in Jobs : status[j] \in Terminal => status'[j] = status[j]

\* A queued job is a live leaf, so the run is not concluded.
LEMMA QueuedIsOpen ==
  ASSUME RowsFit, NEW j \in Jobs, queue[j] # "none"
  PROVE  status[j] \in Live /\ status[j] \notin Terminal /\ status[j] # "absent" /\ conclusion = "none"
<1>1. status[j] \in Live /\ status[j] \notin Terminal /\ status[j] # "absent"
  BY DEF RowsFit, RowsAgree, Agree, Live, Terminal
<1>2. j \in Leaves(status)
  BY <1>1 DEF RowsFit, NotYetExpanded, Leaves, Nodes
<1> QED
  BY <1>1, <1>2 DEF RowsFit, ConcludedIsDone, AllDone

\* One queued job gets new, agreeing columns.
LEMMA PutFits ==
  ASSUME Typed, RowsFit, NEW j \in Jobs, NEW q, NEW s, NEW g, Put(j, q, s, g),
         queue[j] # "none", q # "none", Agree(j, s, q, g)
  PROVE  RowsFit' /\ Stands
<1>0. status \in [Jobs -> Statuses] /\ queue \in [Jobs -> QueueStates]
      /\ gate \in [Jobs -> {"none", "waiting", "holding"}]
  BY DEF Typed, RowsTyped
<1>1. status[j] \in Live /\ status[j] \notin Terminal /\ status[j] # "absent" /\ conclusion = "none"
  BY QueuedIsOpen
<1>2. Stands
  BY <1>0, <1>1 DEF Put, Stands
<1>3. RowsAgree'
  BY <1>0 DEF Put, RowsAgree, RowsFit
<1>4. NotYetExpanded'
  BY <1>0, <1>1, PromotionAssumption DEF Put, NotYetExpanded, RowsFit, Nodes
<1>5. ConcludedIsDone'
  BY <1>1 DEF Put, ConcludedIsDone
<1> QED
  BY <1>2, <1>3, <1>4, <1>5 DEF RowsFit

\* A step that only closes rows: each row is as it was, or loses the gate of a
\* job out of the queue, or is given a verdict and at most keeps its slot.
Closing ==
  /\ \A k \in Jobs :
       \/ status'[k] = status[k] /\ queue'[k] = queue[k] /\ gate'[k] = gate[k]
       \/ status'[k] = status[k] /\ queue'[k] = queue[k] /\ queue[k] = "none" /\ gate'[k] = "none"
       \/ /\ status[k] \in Live /\ status'[k] \in Terminal /\ queue'[k] = "none"
          /\ gate'[k] = "none" \/ (gate'[k] = gate[k] /\ queue[k] = "ready")
  /\ conclusion' = conclusion \/ AllDone(status')

\* Closing rows keeps them in agreement and undoes no verdict.
LEMMA ClosingFits ==
  ASSUME RowsFit, Closing
  PROVE  /\ RowsFit' /\ Stands
         /\ \A k \in Jobs : status'[k] = "absent" <=> status[k] = "absent"
<1>0. Live \cap Terminal = {} /\ "absent" \notin Live \cup Terminal
  BY DEF Live, Terminal
<1>1. Stands
  BY <1>0 DEF Closing, Stands
<1>2. \A k \in Jobs : status'[k] = "absent" <=> status[k] = "absent"
  BY <1>0 DEF Closing
<1>3. RowsAgree'
  BY DEF RowsFit, RowsAgree, Agree, Closing
<1>4. NotYetExpanded'
  BY <1>2, PromotionAssumption DEF RowsFit, NotYetExpanded, Closing, Nodes
<1>5. ConcludedIsDone'
  <2> SUFFICES ASSUME conclusion' # "none", conclusion' = conclusion
               PROVE  AllDone(status')
    BY DEF Closing, ConcludedIsDone
  <2>1. AllDone(status)
    BY DEF RowsFit, ConcludedIsDone
  <2>2. Leaves(status') = Leaves(status)
    BY <1>2, PromotionAssumption DEF Leaves, Nodes
  <2> QED
    BY <1>1, <2>1, <2>2 DEF AllDone, Stands, Leaves
<1> QED
  BY <1>1, <1>2, <1>3, <1>4, <1>5 DEF RowsFit

\* A reported verdict is effective as a verdict.
LEMMA EffectiveTyped == ASSUME NEW j, NEW r \in Terminal PROVE Effective(j, r) \in Terminal
BY DEF Effective, Terminal

\* A new conclusion is written only when every leaf is terminal.
LEMMA ConcludedSays == ASSUME NEW st PROVE Concluded(st) = conclusion \/ AllDone(st)
BY DEF Concluded

\* A gate that is released belongs to a closed job, or to one out of the queue
\* of a run that is over.
LEMMA ReleasedOutOfQueue ==
  ASSUME RowsFit, NEW closed, NEW st, NEW k \in Jobs, k \notin closed, st[k] = status[k],
         \A i \in Jobs : st[i] = "absent" <=> status[i] = "absent"
  PROVE  \/ Released(closed, st)[k] = gate[k]
         \/ Released(closed, st)[k] = "none" /\ queue[k] = "none"
<1> SUFFICES ASSUME AllDone(st), queue[k] # "none" PROVE FALSE
  BY DEF Released
<1>1. status[k] \notin Terminal /\ status[k] # "absent"
  BY QueuedIsOpen
<1>2. k \in Matrix => \A i \in Inner[k] : status[i] = "absent" /\ i \in Jobs
  BY PromotionAssumption DEF RowsFit, NotYetExpanded, Nodes
<1>3. k \in Leaves(st)
  BY <1>1, <1>2 DEF Leaves
<1> QED
  BY <1>1, <1>3 DEF AllDone

\* A settlement and the folding of calls add and remove no row.
LEMMA SettledRows ==
  ASSUME NEW j \in Jobs, NEW r \in Terminal, NEW k \in Jobs
  PROVE  /\ SettledStatus(j, r)[k] = "absent" <=> status[k] = "absent"
         /\ Folded(SettledStatus(j, r))[k] = "absent" <=> status[k] = "absent"
<1> DEFINE st == SettledStatus(j, r)
<1>0. "absent" \notin Live \cup Terminal /\ "cancelled" \in Terminal
  BY DEF Live, Terminal
<1>1. st[k] = "absent" <=> status[k] = "absent"
  BY <1>0, EffectiveTyped DEF SettledStatus, FailedFast
<1> HIDE DEF st
<1>2. Folded(st)[k] = "absent" <=> st[k] = "absent"
  BY <1>0, AggregateTyped DEF Folded, Foldable
<1> QED
  BY <1>1, <1>2 DEF st

\* The columns that a settlement computes only close rows.
LEMMA SettleCloses ==
  ASSUME Typed, RowsFit, NEW j \in Jobs, NEW r \in Terminal,
         status' = SettledStatus(j, r),
         queue' = SettledQueue(j, r),
         gate' = Released(Closed(j, r) \cup {j}, status'),
         conclusion' = Concluded(status')
  PROVE  Closing
<1>1. Effective(j, r) \in Terminal /\ "cancelled" \in Terminal
  BY EffectiveTyped DEF Terminal
<1>2. \A k \in Jobs : status[k] \notin Live => queue[k] = "none"
  BY DEF RowsFit, RowsAgree, Agree
<1>3. ASSUME NEW k \in FailedFast(j, r)
      PROVE  /\ status[k] \in Live /\ status'[k] \in Terminal
             /\ queue'[k] = "none" /\ gate'[k] = "none"
  BY <1>1, <1>3 DEF SettledStatus, SettledQueue, Closed, FailedFast, Released
<1>4. ASSUME NEW k \in Jobs, k \notin FailedFast(j, r), k # j
      PROVE  /\ status'[k] = status[k] /\ queue'[k] = queue[k]
             /\ gate'[k] = gate[k] \/ (gate'[k] = "none" /\ queue[k] = "none")
  <2>1. status'[k] = status[k] /\ queue'[k] = queue[k] /\ k \notin Closed(j, r) \cup {j}
    BY <1>4 DEF SettledStatus, SettledQueue, Closed
  <2> QED
    BY <2>1, ReleasedOutOfQueue, SettledRows
<1>5. CASE status[j] \in Live
  <2>1. status'[j] \in Terminal /\ queue'[j] = "none" /\ gate'[j] = "none"
    BY <1>1, <1>5 DEF SettledStatus, SettledQueue, Closed, FailedFast, Released
  <2> QED
    BY <1>3, <1>4, <1>5, <2>1, ConcludedSays DEF Closing
<1>6. CASE status[j] \notin Live
  <2>1. status'[j] = status[j] /\ queue'[j] = queue[j] /\ queue[j] = "none" /\ gate'[j] = "none"
    BY <1>2, <1>6 DEF SettledStatus, SettledQueue, Closed, FailedFast, Released
  <2> QED
    BY <1>3, <1>4, <2>1, ConcludedSays DEF Closing
<1> QED
  BY <1>5, <1>6

\* settle_node only closes rows, fail-fast included.
LEMMA SettleNodeCloses ==
  ASSUME Typed, RowsFit, NEW j \in Jobs, NEW r \in Terminal, SettleNode(j, r)
  PROVE  Closing
<1>1. CASE UNCHANGED rows
  BY <1>1 DEF Closing, rows
<1>2. CASE ~UNCHANGED rows
  BY <1>2, SettleCloses DEF SettleNode
<1> QED
  BY <1>1, <1>2

\* A completion only closes rows, folded calls included.
LEMMA ReportCloses ==
  ASSUME Typed, RowsFit, NEW j \in Jobs, NEW r \in Terminal, Report(j, r)
  PROVE  Closing
<1>1. CASE UNCHANGED rows
  BY <1>1 DEF Closing, rows
<1>2. CASE ~UNCHANGED rows
  <2> DEFINE st == SettledStatus(j, r)
  <2>1. /\ status' = Folded(st)
        /\ queue' = [k \in Jobs |-> IF k \in Foldable(st) THEN "none" ELSE SettledQueue(j, r)[k]]
        /\ gate' = Released(Closed(j, r) \cup Foldable(st) \cup {j}, Folded(st))
        /\ conclusion' = Concluded(Folded(st))
    BY <1>2, ReportRows
  <2>2. Effective(j, r) \in Terminal /\ "cancelled" \in Terminal /\ Live \cap Terminal = {}
    BY EffectiveTyped DEF Terminal, Live
  <2>3. \A k \in Jobs : status[k] \notin Live => queue[k] = "none"
    BY DEF RowsFit, RowsAgree, Agree
  <2>4. ASSUME NEW k \in Foldable(st)
        PROVE  /\ k \in Jobs /\ status[k] \in Live /\ status'[k] \in Terminal
               /\ queue'[k] = "none" /\ gate'[k] = "none"
    <3>1. k \in Jobs /\ st[k] \in Live
      BY PromotionAssumption DEF Foldable
    <3>2. status[k] \in Live
      BY <2>2, <3>1 DEF SettledStatus
    <3> HIDE DEF st
    <3> QED
      BY <2>1, <3>1, <3>2, AggregateTyped DEF Folded, Released
  <2>5. ASSUME NEW k \in FailedFast(j, r)
        PROVE  /\ status[k] \in Live /\ status'[k] \in Terminal
               /\ queue'[k] = "none" /\ gate'[k] = "none"
    BY <2>1, <2>2, AggregateTyped DEF SettledStatus, SettledQueue, Closed, FailedFast, Folded,
                                      Released
  <2>6. ASSUME NEW k \in Jobs, k \notin FailedFast(j, r) \cup Foldable(st), k # j
        PROVE  /\ status'[k] = status[k] /\ queue'[k] = queue[k]
               /\ gate'[k] = gate[k] \/ (gate'[k] = "none" /\ queue[k] = "none")
    <3>1. /\ Folded(st)[k] = status[k] /\ queue'[k] = queue[k]
          /\ k \notin Closed(j, r) \cup Foldable(st) \cup {j}
      BY <2>1, <2>6 DEF SettledStatus, SettledQueue, Closed, Folded
    <3> QED
      BY <2>1, <3>1, ReleasedOutOfQueue, SettledRows
  <2>7. CASE status[j] \in Live
    <3>1. status'[j] \in Terminal /\ queue'[j] = "none" /\ gate'[j] = "none"
      BY <2>1, <2>2, <2>7, AggregateTyped DEF SettledStatus, SettledQueue, Closed, FailedFast,
                                              Folded, Released
    <3> QED
      BY <2>1, <2>4, <2>5, <2>6, <2>7, <3>1, ConcludedSays DEF Closing
  <2>8. CASE status[j] \notin Live /\ j \notin Foldable(st)
    <3>1. status'[j] = status[j] /\ queue'[j] = queue[j] /\ queue[j] = "none" /\ gate'[j] = "none"
      BY <2>1, <2>3, <2>8 DEF SettledStatus, SettledQueue, Closed, FailedFast, Folded, Released
    <3> QED
      BY <2>1, <2>4, <2>5, <2>6, <3>1, ConcludedSays DEF Closing
  <2> QED
    BY <2>4, <2>7, <2>8
<1> QED
  BY <1>1, <1>2

\* Cancelling a run, or ending a job from outside, only closes rows.
LEMMA CancelCloses ==
  ASSUME Typed, RowsFit, \/ CancelRun
                         \/ \E j \in Jobs : Displaced(j) \/ Starve(j)
  PROVE  Closing
<1>0. /\ \A k \in Jobs : status[k] \notin Live => queue[k] = "none"
      /\ status \in [Jobs -> Statuses] /\ queue \in [Jobs -> QueueStates]
      /\ gate \in [Jobs -> {"none", "waiting", "holding"}]
      /\ \A k \in Jobs : queue[k] = "ready" => status[k] \in Live
      /\ {"cancelled", "failure"} \subseteq Terminal
  BY DEF RowsFit, RowsAgree, Agree, Typed, RowsTyped, Terminal
<1>1. CASE CancelRun
  <2>1. AllDone(status')
    BY <1>0, <1>1 DEF CancelRun, AllDone, Leaves, Statuses
  <2> QED
    BY <1>0, <1>1, <2>1 DEF CancelRun, Closing
<1>2. ASSUME NEW j \in Jobs, Displaced(j) PROVE Closing
  <2>1. conclusion' = conclusion \/ AllDone(status')
    BY <1>2, ConcludedSays DEF Displaced
  <2> QED
    BY <1>0, <1>2, <2>1 DEF Displaced, Closing
<1>3. ASSUME NEW j \in Jobs, Starve(j) PROVE Closing
  <2>1. conclusion' = conclusion \/ AllDone(status')
    BY <1>3, ConcludedSays DEF Starve
  <2> QED
    BY <1>0, <1>3, <2>1 DEF Starve, Closing
<1> QED
  BY <1>1, <1>2, <1>3

\* A build that fails or is empty only closes rows.
LEMMA ConcludeCloses ==
  ASSUME Typed, RowsFit, NEW n \in Jobs, NEW v \in {"skipped", "failure"}, ConcludeNode(n, v)
  PROVE  Closing
BY SettleCloses DEF ConcludeNode, Terminal

\* A subtree is folded in below a node that was waiting for it.
LEMMA InstallFits ==
  ASSUME Typed, RowsFit, NEW n \in Jobs, queue[n] = "expanding", Install(n)
  PROVE  RowsFit' /\ Stands
<1>0. /\ status \in [Jobs -> Statuses] /\ queue \in [Jobs -> QueueStates]
      /\ gate \in [Jobs -> {"none", "waiting", "holding"}]
      /\ "absent" \notin Live \cup Terminal /\ "pending" \in Live
  BY DEF Typed, RowsTyped, Live, Terminal
<1>1. status[n] \in Live /\ status[n] \notin Terminal /\ conclusion = "none"
  BY QueuedIsOpen
<1>2. n \in Nodes /\ n \notin Inner[n] /\ Inner[n] \subseteq Jobs
  BY PromotionAssumption DEF RowsFit, RowsAgree, Agree
<1>3. \A k \in Inner[n] : status[k] = "absent" /\ queue[k] = "none" /\ gate[k] # "waiting" /\ k \notin Nodes
  BY <1>0, <1>2, PromotionAssumption DEF RowsFit, NotYetExpanded, RowsAgree, Agree
<1>4. Stands
  BY <1>0, <1>1, <1>3 DEF Install, Stands
<1>5. RowsAgree'
  <2> SUFFICES ASSUME NEW k \in Jobs PROVE Agree(k, status'[k], queue'[k], gate'[k])
    BY DEF RowsAgree
  <2>0. Agree(k, status[k], queue[k], gate[k])
    BY DEF RowsFit, RowsAgree
  <2>1. CASE k \in Inner[n]
    BY <1>0, <1>2, <1>3, <2>0, <2>1 DEF Install, Agree
  <2>2. CASE k = n
    BY <1>2, <2>0, <2>2 DEF Install, Agree
  <2>3. CASE k \notin Inner[n] /\ k # n
    BY <2>0, <2>3 DEF Install
  <2> QED BY <2>1, <2>2, <2>3
<1>6. NotYetExpanded'
  <2> SUFFICES ASSUME NEW m \in Nodes, queue'[m] # "none", NEW k \in Inner[m]
               PROVE  status'[k] = "absent"
    BY DEF NotYetExpanded
  <2>1. m \in Jobs /\ k \in Jobs /\ k \notin Nodes /\ m \notin Inner[n]
    BY <1>3, PromotionAssumption DEF Nodes
  <2>2. m # n /\ queue'[m] = queue[m]
    BY <1>2, <2>1 DEF Install
  <2>3. k \notin Inner[n] /\ k # n
    BY <1>2, <2>1, <2>2, PromotionAssumption
  <2>4. status[k] = "absent"
    BY <2>2 DEF RowsFit, NotYetExpanded
  <2> QED
    BY <2>1, <2>3, <2>4 DEF Install
<1>7. ConcludedIsDone'
  BY <1>1 DEF Install, ConcludedIsDone
<1> QED
  BY <1>4, <1>5, <1>6, <1>7 DEF RowsFit

\* Nodes move between waiting for a loop and being built.
LEMMA LeaseFits ==
  ASSUME RowsFit, UNCHANGED <<status, gate, conclusion>>,
         \A k \in Jobs : \/ queue'[k] = queue[k]
                         \/ /\ queue[k] \in {"pending_expansion", "expanding"}
                            /\ queue'[k] \in {"pending_expansion", "expanding"}
  PROVE  RowsFit' /\ Stands
<1>1. Stands
  BY DEF Stands
<1>2. RowsAgree'
  BY DEF RowsFit, RowsAgree, Agree
<1>3. NotYetExpanded'
  BY PromotionAssumption DEF RowsFit, NotYetExpanded, Nodes
<1>4. ConcludedIsDone'
  BY DEF RowsFit, ConcludedIsDone
<1> QED
  BY <1>1, <1>2, <1>3, <1>4 DEF RowsFit

-----------------------------------------------------------------------------
(* Sweeps and builds under fail-fast. *)

\* A job that is not spared takes no queued sibling with it.
LEMMA FailFastQuiet ==
  ASSUME FailsAlone, RowsFit, NEW j \in Jobs, ~Spare(j), NEW r, NEW k \in FailedFast(j, r),
         j \in Matrix => queue[j] # "none"
  PROVE  queue[k] = "none"
<1>1. /\ k \in Jobs /\ j # k /\ Base[j] = Base[k] /\ Base[j] \in FailFast
      /\ status[j] # "absent" /\ status[k] # "absent"
  BY DEF FailedFast, Live
<1> QED
  BY <1>1 DEF FailsAlone, RowsFit, NotYetExpanded, Nodes

\* A failing job takes no node with it that is being built.
LEMMA FailFastSparesBuilds ==
  ASSUME FailsAlone, RowsFit, NEW j \in Jobs, NEW r, NEW k \in FailedFast(j, r),
         j \notin Matrix
  PROVE  queue[k] # "expanding"
<1>1. /\ k \in Jobs /\ j # k /\ Base[j] = Base[k] /\ Base[j] \in FailFast
      /\ status[j] # "absent" /\ status[k] # "absent"
  BY DEF FailedFast, Live
<1>2. CASE k \in Nodes
  BY <1>1, <1>2 DEF FailsAlone, RowsFit, NotYetExpanded, Nodes, Spare
<1>3. CASE k \notin Nodes
  BY <1>1, <1>3 DEF RowsFit, RowsAgree, Agree
<1> QED
  BY <1>2, <1>3

\* The candidates of a new pass are blocked.
LEMMA PassFits ==
  ASSUME sweep' = Pass(status', queue', remaining')
  PROVE  SweepFits'
BY DEF Pass, Candidates, SweepFits

\* A sweep goes on with blocked candidates if the visit left them alone.
LEMMA AdvanceFits ==
  ASSUME Typed, SweepFits, sweep.parked = {}, NEW j, NEW settles, Advance(j, settles),
         \A k \in sweep.todo \ {j} : queue'[k] = queue[k]
  PROVE  SweepFits'
<1>1. CASE sweep' = Pass(status', queue', remaining')
  BY <1>1, PassFits
<1>2. CASE sweep' = [sweep EXCEPT !.todo = sweep.todo \ {j},
                                  !.settled = sweep.settled \/ settles]
  <2>1. sweep'.todo = sweep.todo \ {j} /\ sweep'.parked = {}
    BY <1>2 DEF Typed, SweepTyped
  <2> QED
    BY <2>1 DEF SweepFits
<1> QED
  BY <1>1, <1>2 DEF Advance

\* Builds stay current while nodes stay leased or are fenced off.
LEMMA BuildsStay ==
  ASSUME Typed, Typed', BuildsCurrent, builds' \subseteq builds,
         \A n \in Jobs : \/ generation'[n] > generation[n]
                         \/ /\ generation'[n] = generation[n]
                            /\ queue[n] = "expanding" => queue'[n] = "expanding"
  PROVE  BuildsCurrent'
<1> SUFFICES ASSUME NEW b \in builds'
             PROVE  /\ b.generation <= generation'[b.node]
                    /\ b.generation = generation'[b.node] => queue'[b.node] = "expanding"
  BY DEF BuildsCurrent
<1>1. /\ b \in builds /\ b.node \in Jobs /\ b.generation \in Nat
      /\ generation[b.node] \in Nat /\ generation'[b.node] \in Nat
  BY DEF Typed, LoopsTyped
<1> QED
  BY <1>1 DEF BuildsCurrent

\* A candidate is visited: what is left to visit stays blocked, what is being
\* built stays leased.
LEMMA SweepVerdict ==
  ASSUME FailsAlone, VerdictInv, Typed', NEW j \in Jobs, SweepCandidate(j)
  PROVE  VerdictInv' /\ Stands
<1>0. /\ Typed /\ RowsFit /\ BuildsCurrent /\ SweepFits /\ RowsTyped
      /\ sweep.todo \subseteq Jobs
  BY DEF VerdictInv, Typed, SweepTyped
<1>1. /\ j \in sweep.todo /\ sweep.parked = {} /\ queue[j] = "blocked"
      /\ UNCHANGED <<generation, builds>>
  BY <1>0, VisitFrame DEF SweepFits, loops
<1>2. ASSUME RowsFit', Stands, NEW settles, Advance(j, settles),
             \A k \in Jobs \ {j} : queue[k] # "none" => queue'[k] = queue[k]
      PROVE  VerdictInv' /\ Stands
  <2>1. SweepFits'
    BY <1>0, <1>1, <1>2, AdvanceFits DEF SweepFits
  <2>2. BuildsCurrent'
    BY <1>0, <1>1, <1>2, BuildsStay DEF Typed, LoopsTyped
  <2> QED
    BY <1>2, <2>1, <2>2 DEF VerdictInv
<1>3. CASE UNCHANGED rows /\ Advance(j, FALSE)
  <2>1. RowsFit' /\ Stands
    BY <1>0, <1>3 DEF RowsFit, RowsAgree, NotYetExpanded, ConcludedIsDone, Stands, rows
  <2> QED
    BY <1>2, <1>3, <2>1 DEF rows
<1>4. ASSUME NEW q, NEW s, NEW g, NEW settles \in BOOLEAN,
             LetThrough(j, q, s, g), Put(j, q, s, g), Advance(j, settles)
      PROVE  VerdictInv' /\ Stands
  <2>1. Agree(j, s, q, g) /\ q # "none"
    BY <1>0, <1>1, <1>4 DEF RowsFit, RowsAgree, Agree, LetThrough, Live
  <2>2. RowsFit' /\ Stands
    BY <1>0, <1>1, <1>4, <2>1, PutFits
  <2> QED
    BY <1>0, <1>2, <1>4, <2>2 DEF Put, RowsTyped
<1>5. ASSUME NEW r \in Terminal, r = "failure" => ~Spare(j), Settles(j, r)
      PROVE  VerdictInv' /\ Stands
  <2>1. RowsFit' /\ Stands
    BY <1>0, <1>5, SettleNodeCloses, ClosingFits DEF Settles
  <2>2. \A k \in FailedFast(j, r) : queue[k] = "none"
    <3>1. CASE r = "failure"
      BY <1>0, <1>1, <1>5, <3>1, FailFastQuiet
    <3>2. CASE r # "failure"
      BY <3>2 DEF FailedFast, Effective
    <3> QED BY <3>1, <3>2
  <2>3. \A k \in Jobs \ {j} : queue[k] # "none" => queue'[k] = queue[k]
    BY <1>0, <1>5, <2>2 DEF Settles, SettleNode, SettledQueue, Closed, rows
  <2> QED
    BY <1>2, <1>5, <2>1, <2>3 DEF Settles
<1> QED
  BY <1>3, <1>4, <1>5, SweepVisits DEF Visits

\* The sweep over parked jobs keeps the invariant and all verdicts.
LEMMA ParkedVerdict ==
  ASSUME FailsAlone, VerdictInv, Typed', NEW j \in Jobs, RevisitParked(j)
  PROVE  VerdictInv' /\ Stands
<1>0. /\ Typed /\ RowsFit /\ BuildsCurrent /\ SweepFits /\ RowsTyped /\ SweepTyped
      /\ j \in sweep.parked /\ sweep.todo = {}
      /\ j \in Guarded \ Nodes /\ gate[j] # "waiting"
      /\ UNCHANGED <<generation, builds>>
  BY DEF VerdictInv, Typed, RevisitParked, SweepFits, loops
<1>1. ASSUME RowsFit', Stands,
             \A k \in Jobs : /\ gate[k] # "waiting" => gate'[k] # "waiting"
                             /\ queue[k] = "expanding" => queue'[k] = "expanding"
      PROVE  VerdictInv' /\ Stands
  <2>1. SweepFits'
    <3>1. CASE sweep' = Pass(status', queue', remaining')
      BY <3>1, PassFits
    <3>2. CASE sweep' = [sweep EXCEPT !.parked = @ \ {j}]
      <4>1. sweep'.parked = sweep.parked \ {j} /\ sweep'.todo = {} /\ sweep.parked \subseteq Jobs
        BY <1>0, <3>2 DEF SweepTyped
      <4> QED
        BY <1>0, <1>1, <4>1 DEF SweepFits
    <3> QED
      BY <3>1, <3>2 DEF RevisitParked
  <2>2. BuildsCurrent'
    BY <1>0, <1>1, BuildsStay DEF Typed, LoopsTyped
  <2> QED
    BY <1>1, <2>1, <2>2 DEF VerdictInv
<1>2. CASE UNCHANGED rows
  <2>1. RowsFit' /\ Stands
    BY <1>0, <1>2 DEF RowsFit, RowsAgree, NotYetExpanded, ConcludedIsDone, Stands, rows
  <2> QED
    BY <1>1, <1>2, <2>1 DEF rows
<1>3. CASE queue[j] = "held" /\ Put(j, "blocked", "queued", gate[j])
  <2>1. Agree(j, "queued", "blocked", gate[j])
    BY <1>0 DEF RowsFit, RowsAgree, Agree, Live
  <2>2. RowsFit' /\ Stands
    BY <1>0, <1>3, <2>1, PutFits
  <2> QED
    BY <1>0, <1>1, <1>3, <2>2 DEF Put, RowsTyped
<1>4. CASE SettleNode(j, "failure")
  <2>1. Closing
    BY <1>0, <1>4, SettleNodeCloses DEF Terminal
  <2>2. \A k \in FailedFast(j, "failure") \cup {j} : queue[k] # "expanding"
    BY <1>0, FailFastSparesBuilds DEF RowsFit, RowsAgree, Agree, Nodes
  <2>3. \A k \in Jobs : queue[k] = "expanding" => queue'[k] = "expanding"
    BY <1>0, <1>4, <2>2 DEF SettleNode, SettledQueue, Closed, rows
  <2>4. \A k \in Jobs : gate[k] # "waiting" => gate'[k] # "waiting"
    BY <2>1 DEF Closing
  <2> QED
    BY <1>0, <1>1, <2>1, <2>3, <2>4, ClosingFits
<1> QED
  BY <1>2, <1>3, <1>4 DEF RevisitParked

\* So does its beginning.
LEMMA ReleaseVerdict ==
  ASSUME VerdictInv, Typed', ReleaseParked
  PROVE  VerdictInv' /\ Stands
<1>0. RowsFit /\ BuildsCurrent /\ Typed
  BY DEF VerdictInv
<1>1. RowsFit' /\ BuildsCurrent' /\ Stands
  BY <1>0 DEF ReleaseParked, RowsFit, RowsAgree, NotYetExpanded, ConcludedIsDone, Stands,
              BuildsCurrent, rows, loops
<1>2. SweepFits'
  BY <1>0 DEF ReleaseParked, Parked, SweepFits, RowsFit, RowsAgree, Agree, rows
<1> QED
  BY <1>1, <1>2 DEF VerdictInv

\* Between two sweeps nothing is left to visit.
LEMMA IdleFits ==
  ASSUME Idle, UNCHANGED sweep
  PROVE  SweepFits'
BY DEF Idle, SweepFits

\* A completion keeps the invariant and all verdicts.
LEMMA ReportVerdict ==
  ASSUME FailsAlone, VerdictInv, Typed', NEW j \in Jobs, NEW r \in Terminal, Report(j, r),
         j \notin Nodes
  PROVE  VerdictInv' /\ Stands
<1>0. /\ Typed /\ RowsFit /\ BuildsCurrent /\ UNCHANGED <<generation, builds>>
      /\ generation \in [Jobs -> Nat]
  BY DEF VerdictInv, Report, Typed, LoopsTyped
<1>1. RowsFit' /\ Stands
  BY <1>0, ReportCloses, ClosingFits
<1>2. SweepFits'
  BY PassFits DEF Report
<1>3. \A k \in Jobs : queue[k] = "expanding" => queue'[k] = "expanding"
  <2>1. CASE UNCHANGED rows
    BY <2>1 DEF rows
  <2>2. CASE ~UNCHANGED rows
    <3> DEFINE st == SettledStatus(j, r)
    <3>1. queue' = [k \in Jobs |-> IF k \in Foldable(st) THEN "none" ELSE SettledQueue(j, r)[k]]
      BY <2>2, ReportRows
    <3>2. \A k \in FailedFast(j, r) \cup {j} : queue[k] # "expanding"
      BY <1>0, FailFastSparesBuilds DEF RowsFit, RowsAgree, Agree, Nodes
    <3>3. \A k \in Foldable(st) : queue[k] = "none"
      <4> SUFFICES ASSUME NEW c \in Foldable(st) PROVE queue[c] = "none"
        OBVIOUS
      <4>1. PICK k \in Inner[c] : st[k] \in Terminal
        BY DEF Foldable
      <4>2. c \in Nodes /\ k \in Jobs
        BY <4>1, PromotionAssumption DEF Foldable, Nodes
      <4>3. status[k] # "absent"
        BY <4>1, <4>2 DEF SettledStatus, FailedFast, Terminal, Live
      <4> QED
        BY <1>0, <4>2, <4>3 DEF RowsFit, NotYetExpanded
    <3> HIDE DEF st
    <3> QED
      BY <3>1, <3>2, <3>3 DEF SettledQueue, Closed
  <2> QED BY <2>1, <2>2
<1>4. BuildsCurrent'
  BY <1>0, <1>3, BuildsStay
<1> QED
  BY <1>1, <1>2, <1>4 DEF VerdictInv

\* So do claims, cancellations, the reaper and what other runs do.
LEMMA CommandsVerdict ==
  ASSUME VerdictInv, Typed',
         \/ CancelRun
         \/ \E j \in Jobs : Claim(j) \/ Starve(j) \/ GrantSlot(j) \/ Displaced(j)
  PROVE  VerdictInv' /\ Stands
<1>0. /\ Typed /\ RowsFit /\ BuildsCurrent /\ RowsTyped
      /\ generation \in [Jobs -> Nat]
  BY DEF VerdictInv, Typed, LoopsTyped
<1>1. CASE CancelRun \/ \E j \in Jobs : Displaced(j) \/ Starve(j)
  <2>1. RowsFit' /\ Stands
    BY <1>0, <1>1, CancelCloses, ClosingFits
  <2>2. SweepFits'
    BY <1>1, IdleFits DEF CancelRun, Displaced, Starve
  <2>3. BuildsCurrent'
    <3>1. \A n \in Jobs : \/ generation'[n] > generation[n]
                          \/ /\ generation'[n] = generation[n]
                             /\ queue[n] = "expanding" => queue'[n] = "expanding"
      <4>1. \A n \in Jobs : queue[n] = "expanding" => status[n] \in Live
        BY <1>0 DEF RowsFit, RowsAgree, Agree
      <4>2. CASE CancelRun
        BY <1>0, <4>1, <4>2 DEF CancelRun, RowsTyped
      <4>3. ASSUME NEW j \in Jobs, Displaced(j), NEW n \in Jobs
            PROVE  \/ generation'[n] > generation[n]
                   \/ generation'[n] = generation[n] /\ queue'[n] = queue[n]
        BY <1>0, <4>3 DEF Displaced, RowsTyped
      <4>4. ASSUME NEW j \in Jobs, Starve(j), NEW n \in Jobs
            PROVE  /\ generation'[n] = generation[n]
                   /\ queue[n] = "expanding" => queue'[n] = "expanding"
        BY <1>0, <4>4 DEF Starve, RowsTyped
      <4> QED
        BY <1>1, <4>2, <4>3, <4>4
    <3>2. builds' = builds
      BY <1>1 DEF CancelRun, Displaced, Starve, loops
    <3> QED
      BY <1>0, <3>1, <3>2, BuildsStay
  <2> QED
    BY <2>1, <2>2, <2>3 DEF VerdictInv
<1>2. ASSUME NEW j \in Jobs, NEW q, NEW s, NEW g, Put(j, q, s, g), Agree(j, s, q, g),
             queue[j] \notin {"none", "expanding"}, q # "none", SweepFits',
             UNCHANGED <<generation, builds>>
      PROVE  VerdictInv' /\ Stands
  <2>1. RowsFit' /\ Stands
    BY <1>0, <1>2, PutFits
  <2>2. BuildsCurrent'
    BY <1>0, <1>2, BuildsStay DEF Put, RowsTyped
  <2> QED
    BY <1>2, <2>1, <2>2 DEF VerdictInv
<1>3. ASSUME NEW j \in Jobs, Claim(j) PROVE VerdictInv' /\ Stands
  <2>1. Agree(j, "in_progress", "claimed", gate[j])
    BY <1>0, <1>3 DEF Claim, RowsFit, RowsAgree, Agree, Live
  <2> QED
    BY <1>2, <1>3, <2>1, IdleFits DEF Claim, loops
<1>4. ASSUME NEW j \in Jobs, GrantSlot(j) PROVE VerdictInv' /\ Stands
  <2>0. queue[j] = "held" /\ j \in Gated /\ j \notin Matrix
    BY <1>0, <1>4 DEF GrantSlot, RowsFit, RowsAgree, Agree
  <2>1. SweepFits'
    BY <1>4, IdleFits, PassFits DEF GrantSlot
  <2>2. CASE Put(j, "blocked", "queued", "holding")
    <3>1. Agree(j, "queued", "blocked", "holding")
      BY <2>0 DEF Agree, Live
    <3> QED
      BY <1>2, <1>4, <2>0, <2>1, <2>2, <3>1 DEF GrantSlot, loops
  <2>3. CASE j \notin Callers /\ Put(j, "ready", "queued", "holding")
    <3>1. Agree(j, "queued", "ready", "holding")
      BY <2>0, <2>3 DEF Agree, Live, Nodes
    <3> QED
      BY <1>2, <1>4, <2>0, <2>1, <2>3, <3>1 DEF GrantSlot, loops
  <2> QED
    BY <1>4, <2>0, <2>2, <2>3 DEF GrantSlot, EnqueueReady
<1> QED
  BY <1>1, <1>3, <1>4

\* So do the expansion loops and a restart.
LEMMA LoopsVerdict ==
  ASSUME VerdictInv, Typed', \/ EndDrain \/ DrainElsewhere \/ Restart
                             \/ \E n \in Jobs : ClaimExpansion(n)
  PROVE  VerdictInv' /\ Stands
<1>0. /\ Typed /\ RowsFit /\ BuildsCurrent /\ RowsTyped
      /\ generation \in [Jobs -> Nat] /\ builds \subseteq [node : Jobs, generation : Nat]
  BY DEF VerdictInv, Typed, LoopsTyped
<1>1. SweepFits'
  BY IdleFits DEF EndDrain, DrainElsewhere, Restart, ClaimExpansion
<1>2. RowsFit' /\ Stands
  BY <1>0, LeaseFits DEF EndDrain, DrainElsewhere, Restart, ClaimExpansion, rows, RowsTyped
<1>3. BuildsCurrent'
  <2>1. CASE EndDrain \/ DrainElsewhere
    BY <1>0, <2>1 DEF EndDrain, DrainElsewhere, BuildsCurrent, rows
  <2>2. CASE Restart
    BY <2>2 DEF Restart, BuildsCurrent
  <2>3. ASSUME NEW n \in Jobs, ClaimExpansion(n) PROVE BuildsCurrent'
    <3> SUFFICES ASSUME NEW b \in builds'
                 PROVE  /\ b.generation <= generation'[b.node]
                        /\ b.generation = generation'[b.node] => queue'[b.node] = "expanding"
      BY DEF BuildsCurrent
    <3>1. CASE b \in builds /\ b.node # n
      BY <1>0, <2>3, <3>1 DEF ClaimExpansion, BuildsCurrent
    <3>2. CASE b \in builds /\ b.node = n
      BY <1>0, <2>3, <3>2 DEF ClaimExpansion, BuildsCurrent
    <3>3. CASE b = [node |-> n, generation |-> generation[n] + 1]
      BY <1>0, <2>3, <3>3 DEF ClaimExpansion, RowsTyped
    <3> QED
      BY <2>3, <3>1, <3>2, <3>3 DEF ClaimExpansion
  <2> QED
    BY <2>1, <2>2, <2>3
<1> QED
  BY <1>1, <1>2, <1>3 DEF VerdictInv

\* What a finished build may do: its lease is the node's last one, and no
\* other build has it.
LEMMA ApplyVerdict ==
  ASSUME FailsAlone, VerdictInv, Typed', NEW b \in builds, NEW o, ApplyExpansion(b, o)
  PROVE  VerdictInv' /\ Stands
<1> DEFINE n == b.node
<1>0. /\ Typed /\ RowsFit /\ BuildsCurrent /\ RowsTyped
      /\ generation \in [Jobs -> Nat] /\ builds \subseteq [node : Jobs, generation : Nat]
      /\ n \in Jobs /\ builds' = builds \ {b} /\ generation' = generation
  BY DEF VerdictInv, Typed, LoopsTyped, ApplyExpansion
<1>1. CASE UNCHANGED <<rows, sweep>>
  <2>1. RowsFit' /\ BuildsCurrent' /\ Stands
    BY <1>0, <1>1 DEF RowsFit, RowsAgree, NotYetExpanded, ConcludedIsDone, Stands,
                      BuildsCurrent, rows
  <2>2. SweepFits'
    BY <1>1, IdleFits DEF ApplyExpansion
  <2> QED BY <2>1, <2>2 DEF VerdictInv
<1>2. ASSUME RowsFit', Stands, sweep' = Pass(status', queue', remaining'),
             b.generation = generation[n],
             \A k \in Jobs \ {n} : queue[k] = "expanding" => queue'[k] = "expanding"
      PROVE  VerdictInv' /\ Stands
  <2>1. ASSUME NEW c \in builds, c # b
        PROVE  /\ c.generation <= generation[c.node]
               /\ c.generation = generation[c.node] => queue'[c.node] = "expanding"
    <3>1. c.node \in Jobs /\ (c.node = n => c.generation # b.generation)
      BY <1>0, <2>1
    <3> QED
      BY <1>0, <1>2, <3>1 DEF BuildsCurrent
  <2>2. BuildsCurrent'
    BY <1>0, <2>1 DEF BuildsCurrent
  <2> QED
    BY <1>2, <2>2, PassFits DEF VerdictInv
<1>3. CASE b.generation = generation[n] /\ sweep' = Pass(status', queue', remaining')
  <2>0. queue[n] = "expanding" /\ n \in Nodes
    BY <1>0, <1>3 DEF BuildsCurrent, RowsFit, RowsAgree, Agree
  <2>1. CASE Install(n)
    <3>1. RowsFit' /\ Stands
      BY <1>0, <2>0, <2>1, InstallFits
    <3>2. \A k \in Jobs \ {n} : queue[k] = "expanding" => queue'[k] = "expanding"
      BY <1>0, <2>0, <2>1, PromotionAssumption DEF Install, RowsFit, RowsAgree, Agree
    <3> QED
      BY <1>2, <1>3, <3>1, <3>2
  <2>2. ASSUME NEW v \in {"skipped", "failure"}, ConcludeNode(n, v)
        PROVE  VerdictInv' /\ Stands
    <3>1. RowsFit' /\ Stands
      BY <1>0, <2>2, ConcludeCloses, ClosingFits
    <3>2. ~Spare(n)
      BY <2>0 DEF Spare
    <3>3. \A k \in FailedFast(n, v) : queue[k] = "none"
      BY <1>0, <2>0, <3>2, FailFastQuiet
    <3>4. \A k \in Jobs \ {n} : queue[k] = "expanding" => queue'[k] = "expanding"
      BY <2>2, <3>3 DEF ConcludeNode, SettledQueue, Closed
    <3> QED
      BY <1>2, <1>3, <3>1, <3>4
  <2> QED
    BY <1>1, <1>3, <2>1, <2>2, ApplyRows
<1> QED
  BY <1>1, <1>3, ApplyRows

\* The submit establishes the invariant.
LEMMA InitVerdict == Init => VerdictInv
<1> SUFFICES ASSUME Init PROVE VerdictInv
  OBVIOUS
<1>1. Typed
  BY InitTyped
<1>2. RowsAgree
  <2> SUFFICES ASSUME NEW j \in Jobs PROVE Agree(j, InitialStatus(j), InitialQueue(j), "none")
    BY DEF Init, RowsAgree
  <2>1. InitialQueue(j) # "none" => InitialStatus(j) \in Live
    BY DEF InitialQueue
  <2>2. InitialQueue(j) \in {"none", "ready", "blocked"}
    BY DEF InitialQueue
  <2>3. InitialQueue(j) = "ready" => j \notin Nodes
    BY DEF InitialQueue, InitiallyReady, Startable
  <2> QED
    BY <2>1, <2>2, <2>3 DEF Agree
<1>3. NotYetExpanded
  BY PromotionAssumption DEF Init, NotYetExpanded, InitialStatus, Nodes
<1>4. ConcludedIsDone
  BY DEF Init, ConcludedIsDone
<1>5. BuildsCurrent /\ SweepFits
  BY DEF Init, BuildsCurrent, SweepFits, Pass, Candidates
<1> QED
  BY <1>1, <1>2, <1>3, <1>4, <1>5 DEF VerdictInv, RowsFit

\* Runners work on jobs, never on the nodes that jobs are expanded from.
OnRunnerJobs == onRunner \cap Nodes = {}

\* A runner takes ready jobs only, and no node is ready.
LEMMA OnRunnerStep ==
  ASSUME VerdictInv, OnRunnerJobs, [Next]_vars
  PROVE  OnRunnerJobs'
<1>1. ASSUME NEW j \in Jobs, Claim(j) PROVE OnRunnerJobs'
  BY <1>1 DEF Claim, OnRunnerJobs, VerdictInv, RowsFit, RowsAgree, Agree
<1>2. ASSUME NEW j \in Jobs, NEW s, Report(j, s) PROVE OnRunnerJobs'
  BY <1>2 DEF Report, OnRunnerJobs
<1>3. ASSUME UNCHANGED onRunner PROVE OnRunnerJobs'
  BY <1>3 DEF OnRunnerJobs
<1> QED
  BY <1>1, <1>2, <1>3
     DEF Next, vars, SweepCandidate, RevisitParked, ReleaseParked, GrantSlot, ClaimExpansion,
         Starve, CancelJobInner, FailJobset, Displaced, CancelRun, ApplyExpansion, EndDrain,
         DrainElsewhere, Restart

\* Every step keeps the invariant and all verdicts.
LEMMA StepVerdict ==
  ASSUME FailsAlone, VerdictInv, OnRunnerJobs, [Next]_vars
  PROVE  VerdictInv' /\ Stands
<1>0. Typed'
  BY StepTyped DEF VerdictInv
<1>1. CASE UNCHANGED vars
  <2>1. RowsFit' /\ BuildsCurrent' /\ SweepFits' /\ Stands
    BY <1>1 DEF VerdictInv, RowsFit, RowsAgree, NotYetExpanded, ConcludedIsDone, Stands,
                BuildsCurrent, SweepFits, vars, rows, loops
  <2> QED BY <1>0, <2>1 DEF VerdictInv
<1>2. ASSUME NEW j \in Jobs, NEW s \in {"success", "failure", "cancelled"}, Report(j, s)
      PROVE  VerdictInv' /\ Stands
  <2>1. s \in Terminal /\ j \notin Nodes
    BY <1>2 DEF Terminal, Report, OnRunnerJobs
  <2> QED
    BY <1>0, <1>2, <2>1, ReportVerdict
<1> QED
  BY <1>0, <1>1, <1>2, SweepVerdict, ParkedVerdict, ReleaseVerdict, CommandsVerdict,
     LoopsVerdict, ApplyVerdict DEF Next, CancelJobInner, FailJobset

\* The inductive invariant of verdicts, and that each step keeps them.
THEOREM VerdictsHold == ASSUME FailsAlone PROVE Spec => [](VerdictInv /\ OnRunnerJobs)
<1>1. Init => VerdictInv /\ OnRunnerJobs
  BY InitVerdict DEF Init, OnRunnerJobs
<1>2. VerdictInv /\ OnRunnerJobs /\ [Next]_vars => (VerdictInv /\ OnRunnerJobs)'
  BY StepVerdict, OnRunnerStep
<1> QED
  BY <1>1, <1>2, PTL DEF Spec

\* Where no sweep and no build fails one of several legs tied by fail-fast, a
\* terminal job keeps its status in every graph: whatever is cancelled,
\* displaced, expanded late or restarted (finish_job_row, apply_expansion).
THEOREM VerdictsAreFinal == ASSUME FailsAlone PROVE Spec => VerdictsStand
<1>1. VerdictInv /\ OnRunnerJobs /\ [Next]_vars =>
        [\A j \in Jobs : status[j] \in Terminal => status'[j] = status[j]]_vars
  BY StepVerdict DEF Stands
<1> QED
  BY <1>1, VerdictsHold, PTL DEF Spec, VerdictsStand

\* Under the same condition a completed run has no live job, so that whatever
\* is released with the run is released for good (summarize_run_row).
THEOREM CompletedIsDone == ASSUME FailsAlone PROVE Spec => []CompletedRunIsDone
<1>1. VerdictInv => CompletedRunIsDone
  BY DEF VerdictInv, RowsFit, ConcludedIsDone, CompletedRunIsDone
<1> QED
  BY <1>1, VerdictsHold, PTL

-----------------------------------------------------------------------------
(* Needs. *)

\* No call is in a concurrency group of its own.  A call that is displaced
\* from its group is cancelled while its jobs go on.
CallsUngated == Callers \cap Gated = {}

Past == {"held", "ready", "claimed"}

NeedsMet(j) == \A k \in Direct(status, j) : status[k] \in Terminal

\* A job that was let through, to a runner or to a gate, has its needs.
LetThroughMet == \A j \in Jobs : queue[j] \in Past => NeedsMet(j)

\* A finished call has no live job.
CallsOver ==
  \A c \in Callers : status[c] \in Terminal => \A i \in Inner[c] : status[i] \notin Live

\* The graph a sweep decides on has the rows of the run, and verdicts in it
\* are still verdicts.
GraphStands ==
  sweep.todo # {} =>
    \A k \in Jobs : /\ sweep.graph[k] = "absent" <=> status[k] = "absent"
                    /\ sweep.graph[k] \in Terminal => status[k] = sweep.graph[k]

NeedsInv == LetThroughMet /\ CallsOver /\ GraphStands

\* What all steps but the installation of a subtree have in common.
NoNewRows ==
  \A k \in Jobs : /\ status'[k] = "absent" <=> status[k] = "absent"
                  /\ status[k] \notin Live => status'[k] \notin Live

LetsThroughMet == \A k \in Jobs : queue'[k] \in Past => queue[k] \in Past \/ NeedsMet(k)

EndsCallsOver ==
  \A c \in Callers : status[c] \in Live /\ status'[c] \in Terminal =>
                       \A i \in Inner[c] : status'[i] \notin Live

\* What a job needs depends on which rows there are.
LEMMA DirectSame ==
  ASSUME NEW st, NEW tt, \A k \in Jobs : st[k] = "absent" <=> tt[k] = "absent", NEW j \in Jobs
  PROVE  Direct(st, j) = Direct(tt, j)
<1>1. Leaves(st) = Leaves(tt)
  BY PromotionAssumption DEF Leaves, Nodes
<1> QED
  BY <1>1 DEF Direct, Matching

\* Needs are jobs of the run.
LEMMA DirectIsJobs == ASSUME NEW st, NEW j \in Jobs PROVE Direct(st, j) \subseteq Jobs
BY DEF Direct, Matching, Leaves

\* Needs that are met stay met.
LEMMA MetStays ==
  ASSUME Stands, NoNewRows, NEW j \in Jobs, NeedsMet(j)
  PROVE  NeedsMet(j)'
<1>1. Direct(status', j) = Direct(status, j)
  BY DirectSame DEF NoNewRows
<1> QED
  BY <1>1, DirectIsJobs DEF NeedsMet, Stands

\* A step without new rows keeps needs met and calls over.
LEMMA OrdinaryNeeds ==
  ASSUME Typed, LetThroughMet, CallsOver, Stands, NoNewRows, LetsThroughMet, EndsCallsOver
  PROVE  LetThroughMet' /\ CallsOver'
<1>1. LetThroughMet'
  BY MetStays DEF LetThroughMet, LetsThroughMet
<1>2. CallsOver'
  <2> SUFFICES ASSUME NEW c \in Callers, status'[c] \in Terminal, NEW i \in Inner[c]
               PROVE  status'[i] \notin Live
    BY DEF CallsOver
  <2>1. c \in Jobs /\ i \in Jobs
    BY PromotionAssumption
  <2>2. CASE status[c] \in Terminal
    BY <2>1, <2>2 DEF CallsOver, NoNewRows
  <2>3. CASE status[c] \in Live
    BY <2>1, <2>3 DEF EndsCallsOver
  <2>4. CASE status[c] \notin Terminal \cup Live
    BY <2>1, <2>4 DEF Typed, RowsTyped, Statuses, NoNewRows, Terminal
  <2> QED
    BY <2>2, <2>3, <2>4
<1> QED
  BY <1>1, <1>2

\* The graph of a sweep stays true while the sweep goes on.
LEMMA GraphAdvances ==
  ASSUME Typed, GraphStands, Stands, NoNewRows, NEW j, NEW settles, Advance(j, settles),
         j \in sweep.todo
  PROVE  GraphStands'
<1>1. CASE sweep' = Pass(status', queue', remaining')
  BY <1>1 DEF Pass, GraphStands
<1>2. CASE sweep' = [sweep EXCEPT !.todo = sweep.todo \ {j},
                                  !.settled = sweep.settled \/ settles]
  <2>1. sweep'.graph = sweep.graph
    BY <1>2 DEF Typed, SweepTyped
  <2>2. \A k \in Jobs : /\ sweep.graph[k] = "absent" <=> status[k] = "absent"
                        /\ sweep.graph[k] \in Terminal => status[k] = sweep.graph[k]
    BY DEF GraphStands
  <2>3. \A k \in Jobs : sweep.graph[k] \in Terminal => status'[k] = sweep.graph[k]
    BY <2>2 DEF Stands
  <2>4. \A k \in Jobs : sweep.graph[k] = "absent" <=> status'[k] = "absent"
    BY <2>2 DEF NoNewRows
  <2> QED
    BY <2>1, <2>3, <2>4 DEF GraphStands
<1> QED
  BY <1>1, <1>2 DEF Advance

\* A new pass loads the graph as it is.
LEMMA PassStands == ASSUME sweep' = Pass(status', queue', remaining') PROVE GraphStands'
BY DEF Pass, GraphStands

\* Between two sweeps no graph is in use.
LEMMA IdleStands == ASSUME Idle, UNCHANGED sweep PROVE GraphStands'
BY DEF Idle, GraphStands

\* One queued job gets new columns.
LEMMA PutOrdinary ==
  ASSUME Typed, RowsFit, NEW j \in Jobs, NEW q, NEW s \in Live, NEW g, Put(j, q, s, g),
         queue[j] # "none", q \in Past => queue[j] \in Past \/ NeedsMet(j)
  PROVE  NoNewRows /\ LetsThroughMet /\ EndsCallsOver
<1>0. /\ status \in [Jobs -> Statuses] /\ queue \in [Jobs -> QueueStates]
      /\ status[j] \in Live /\ status[j] # "absent" /\ s # "absent" /\ s \notin Terminal
      /\ Live \cap Terminal = {} /\ Callers \subseteq Jobs
  BY QueuedIsOpen, PromotionAssumption DEF Typed, RowsTyped, Live, Terminal
<1>1. NoNewRows
  BY <1>0 DEF Put, NoNewRows
<1>2. LetsThroughMet
  BY <1>0 DEF Put, LetsThroughMet
<1>3. EndsCallsOver
  BY <1>0 DEF Put, EndsCallsOver
<1> QED
  BY <1>1, <1>2, <1>3

\* A closing step, as long as it closes no call over the head of its jobs.
LEMMA ClosingOrdinary ==
  ASSUME RowsFit, Closing
  PROVE  NoNewRows /\ LetsThroughMet
<1>1. NoNewRows
  BY ClosingFits DEF Closing, NoNewRows, Live, Terminal
<1>2. LetsThroughMet
  BY DEF Closing, LetsThroughMet, Past
<1> QED
  BY <1>1, <1>2

\* Fail-fast never takes a call.
LEMMA FailFastSparesCalls ==
  ASSUME FailsAlone, NEW j \in Jobs, NEW r
  PROVE  FailedFast(j, r) \cap Callers = {}
<1> SUFFICES ASSUME NEW c \in Callers, c \in FailedFast(j, r) PROVE FALSE
  OBVIOUS
<1>1. c \in Jobs /\ j # c /\ Base[j] = Base[c] /\ Base[j] \in FailFast
  BY DEF FailedFast
<1>2. ~Spare(c) /\ c \notin Matrix /\ (j \in Matrix => c \notin Inner[j])
  BY PromotionAssumption DEF Spare, Nodes
<1> QED
  BY <1>1, <1>2 DEF FailsAlone

\* A call that is settled itself is still queued, so it has no jobs.
LEMMA SettleEndsCallsOver ==
  ASSUME FailsAlone, RowsFit, NoNewRows, NEW j \in Jobs, NEW r,
         j \in Callers => queue[j] # "none",
         status' = SettledStatus(j, r)
  PROVE  EndsCallsOver
<1> SUFFICES ASSUME NEW c \in Callers, status[c] \in Live, status'[c] \in Terminal,
                    NEW i \in Inner[c]
             PROVE  status'[i] \notin Live
  BY DEF EndsCallsOver
<1>1. c \in Jobs /\ i \in Jobs /\ c \in Nodes
  BY PromotionAssumption DEF Nodes
<1>2. c = j
  BY <1>1, FailFastSparesCalls DEF SettledStatus, Live, Terminal
<1>3. status[i] = "absent"
  BY <1>1, <1>2 DEF RowsFit, NotYetExpanded
<1> QED
  BY <1>1, <1>3 DEF NoNewRows, Live

\* A candidate is let through only when its needs are met.
LEMMA SweepNeeds ==
  ASSUME FailsAlone, VerdictInv, Stands, NeedsInv, NEW j \in Jobs, SweepCandidate(j)
  PROVE  NeedsInv'
<1>0. /\ Typed /\ RowsFit /\ SweepFits /\ LetThroughMet /\ CallsOver /\ GraphStands
      /\ j \in sweep.todo /\ queue[j] = "blocked"
  BY VisitFrame DEF VerdictInv, NeedsInv, SweepFits
<1>1. ASSUME NoNewRows, LetsThroughMet, EndsCallsOver, NEW settles, Advance(j, settles)
      PROVE  NeedsInv'
  BY <1>0, <1>1, OrdinaryNeeds, GraphAdvances DEF NeedsInv
<1>2. CASE UNCHANGED rows /\ Advance(j, FALSE)
  <2>1. NoNewRows /\ LetsThroughMet /\ EndsCallsOver
    BY <1>2 DEF NoNewRows, LetsThroughMet, EndsCallsOver, rows, Live, Terminal
  <2> QED BY <1>1, <1>2, <2>1
<1>3. ASSUME NEW q, NEW s, NEW g, NEW settles \in BOOLEAN,
             LetThrough(j, q, s, g), Put(j, q, s, g), Advance(j, settles)
      PROVE  NeedsInv'
  <2>1. s \in Live
    BY <1>0, <1>3, QueuedIsOpen DEF LetThrough, Live
  <2>2. NeedsMet(j)
    <3>1. Direct(sweep.graph, j) = Direct(status, j)
      BY <1>0, DirectSame DEF GraphStands
    <3>2. \A k \in Direct(sweep.graph, j) : sweep.graph[k] \in Terminal
      <4>1. CASE Needs[j] = {}
        BY <4>1 DEF Direct
      <4>2. CASE Needs[j] # {}
        BY <1>3, <4>2 DEF LetThrough, DependencyDecision
      <4> QED BY <4>1, <4>2
    <3> QED
      BY <1>0, <3>1, <3>2, DirectIsJobs DEF NeedsMet, GraphStands
  <2>3. NoNewRows /\ LetsThroughMet /\ EndsCallsOver
    BY <1>0, <1>3, <2>1, <2>2, PutOrdinary
  <2> QED BY <1>1, <1>3, <2>3
<1>4. ASSUME NEW r \in Terminal, Settles(j, r)
      PROVE  NeedsInv'
  <2>1. NoNewRows /\ LetsThroughMet
    BY <1>0, <1>4, SettleNodeCloses, ClosingOrdinary DEF Settles
  <2>2. EndsCallsOver
    <3>1. CASE UNCHANGED rows
      BY <3>1 DEF EndsCallsOver, rows, Live, Terminal
    <3>2. CASE ~UNCHANGED rows
      <4>1. status' = SettledStatus(j, r)
        BY <1>4, <3>2 DEF Settles, SettleNode
      <4> QED
        BY <1>0, <2>1, <4>1, SettleEndsCallsOver
    <3> QED BY <3>1, <3>2
  <2> QED BY <1>1, <1>4, <2>1, <2>2 DEF Settles
<1> QED
  BY <1>2, <1>3, <1>4, SweepVisits DEF Visits

\* A parked job had its needs when it was parked.
LEMMA ParkedNeeds ==
  ASSUME FailsAlone, VerdictInv, Stands, NeedsInv, NEW j \in Jobs, RevisitParked(j)
  PROVE  NeedsInv'
<1>0. /\ Typed /\ RowsFit /\ LetThroughMet /\ CallsOver
      /\ j \in sweep.parked /\ sweep.todo = {} /\ j \notin Nodes
  BY DEF VerdictInv, NeedsInv, RevisitParked, SweepFits
<1>1. GraphStands'
  <2>1. CASE sweep' = Pass(status', queue', remaining')
    BY <2>1, PassStands
  <2>2. CASE sweep' = [sweep EXCEPT !.parked = @ \ {j}]
    <3>1. sweep'.todo = {}
      BY <1>0, <2>2 DEF Typed, SweepTyped
    <3> QED
      BY <3>1 DEF GraphStands
  <2> QED
    BY <2>1, <2>2 DEF RevisitParked
<1>2. ASSUME NoNewRows, LetsThroughMet, EndsCallsOver PROVE NeedsInv'
  BY <1>0, <1>1, <1>2, OrdinaryNeeds DEF NeedsInv
<1>u. ASSUME UNCHANGED rows PROVE NoNewRows /\ LetsThroughMet /\ EndsCallsOver
  BY <1>u DEF NoNewRows, LetsThroughMet, EndsCallsOver, rows, Live, Terminal
<1>3. CASE queue[j] = "held" /\ Put(j, "blocked", "queued", gate[j])
  <2>1. "queued" \in Live /\ "blocked" \notin Past
    BY DEF Live, Past
  <2> QED
    BY <1>0, <1>2, <1>3, <2>1, PutOrdinary
<1>4. CASE SettleNode(j, "failure")
  <2>1. NoNewRows /\ LetsThroughMet
    BY <1>0, <1>4, SettleNodeCloses, ClosingOrdinary DEF Terminal
  <2>2. j \notin Callers
    BY <1>0 DEF Nodes
  <2>3. EndsCallsOver
    BY <1>0, <1>4, <1>u, <2>1, <2>2, SettleEndsCallsOver DEF SettleNode
  <2> QED BY <1>2, <2>1, <2>3
<1> QED
  BY <1>2, <1>3, <1>4, <1>u DEF RevisitParked

\* A completion ends a call only with the last of its jobs.
LEMMA ReportNeeds ==
  ASSUME FailsAlone, VerdictInv, Stands, NeedsInv, NEW j \in Jobs, NEW r \in Terminal,
         Report(j, r), j \notin Nodes
  PROVE  NeedsInv'
<1>0. Typed /\ RowsFit /\ LetThroughMet /\ CallsOver
  BY DEF VerdictInv, NeedsInv
<1>1. GraphStands'
  BY PassStands DEF Report
<1>2. NoNewRows /\ LetsThroughMet
  BY <1>0, ReportCloses, ClosingOrdinary
<1>3. EndsCallsOver
  <2>1. CASE UNCHANGED rows
    BY <2>1 DEF EndsCallsOver, rows, Live, Terminal
  <2>2. CASE ~UNCHANGED rows
    <3> DEFINE st == SettledStatus(j, r)
    <3>1. status' = Folded(st)
      BY <2>2, ReportRows
    <3> SUFFICES ASSUME NEW c \in Callers, status[c] \in Live, status'[c] \in Terminal,
                        NEW i \in Inner[c]
                 PROVE  status'[i] \notin Live
      BY DEF EndsCallsOver
    <3>2. c \in Jobs /\ i \in Jobs /\ c \in Nodes /\ i \notin Callers /\ c # j
      BY PromotionAssumption DEF Nodes
    <3>3. st[c] = status[c]
      BY <3>2, FailFastSparesCalls DEF SettledStatus
    <3> HIDE DEF st
    <3>4. c \in Foldable(st)
      BY <3>1, <3>2, <3>3 DEF Folded, Live, Terminal
    <3>5. st[i] \in Terminal /\ i \notin Foldable(st)
      BY <3>2, <3>4 DEF Foldable
    <3> QED
      BY <3>1, <3>2, <3>5 DEF Folded, Live, Terminal
  <2> QED BY <2>1, <2>2
<1> QED
  BY <1>0, <1>1, <1>2, <1>3, OrdinaryNeeds DEF NeedsInv

\* A claim and a granted slot move jobs whose needs are met; what is starved
\* is no call.
LEMMA CommandsNeeds ==
  ASSUME CallsUngated, VerdictInv, Stands, NeedsInv,
         \/ CancelRun
         \/ \E j \in Jobs : Claim(j) \/ Starve(j) \/ GrantSlot(j) \/ Displaced(j)
  PROVE  NeedsInv'
<1>0. Typed /\ RowsFit /\ LetThroughMet /\ CallsOver
  BY DEF VerdictInv, NeedsInv
<1>1. ASSUME GraphStands', NoNewRows, LetsThroughMet, EndsCallsOver PROVE NeedsInv'
  BY <1>0, <1>1, OrdinaryNeeds DEF NeedsInv
<1>2. CASE CancelRun
  <2>1. NoNewRows /\ LetsThroughMet
    BY <1>0, <1>2, CancelCloses, ClosingOrdinary
  <2>2. EndsCallsOver
    BY <1>2, PromotionAssumption DEF CancelRun, EndsCallsOver, Live
  <2> QED
    BY <1>1, <1>2, <2>1, <2>2, IdleStands DEF CancelRun
<1>3. ASSUME NEW j \in Jobs, Displaced(j) PROVE NeedsInv'
  <2>1. NoNewRows /\ LetsThroughMet
    BY <1>0, <1>3, CancelCloses, ClosingOrdinary
  <2>2. j \notin Callers
    BY <1>0, <1>3 DEF Displaced, RowsFit, RowsAgree, Agree, CallsUngated
  <2>3. EndsCallsOver
    BY <1>0, <1>3, <2>2, PromotionAssumption
       DEF Displaced, EndsCallsOver, Typed, RowsTyped, Live, Terminal
  <2> QED
    BY <1>1, <1>3, <2>1, <2>3, IdleStands DEF Displaced
<1>4. ASSUME NEW j \in Jobs, Claim(j) PROVE NeedsInv'
  <2>1. "in_progress" \in Live /\ queue[j] \in Past /\ queue[j] # "none"
    BY <1>4 DEF Claim, Live, Past
  <2>2. NoNewRows /\ LetsThroughMet /\ EndsCallsOver
    BY <1>0, <1>4, <2>1, PutOrdinary DEF Claim
  <2> QED
    BY <1>1, <1>4, <2>2, IdleStands DEF Claim
<1>5. ASSUME NEW j \in Jobs, GrantSlot(j) PROVE NeedsInv'
  <2>1. "queued" \in Live /\ queue[j] \in Past /\ queue[j] # "none"
    BY <1>0, <1>5 DEF GrantSlot, RowsFit, RowsAgree, Agree, Live, Past
  <2>2. NoNewRows /\ LetsThroughMet /\ EndsCallsOver
    BY <1>0, <1>5, <2>1, PutOrdinary DEF GrantSlot, EnqueueReady
  <2>3. GraphStands'
    BY <1>5, IdleStands, PassStands DEF GrantSlot
  <2> QED
    BY <1>1, <2>2, <2>3
<1>6. ASSUME NEW j \in Jobs, Starve(j) PROVE NeedsInv'
  <2>1. NoNewRows /\ LetsThroughMet
    BY <1>0, <1>6, CancelCloses, ClosingOrdinary
  <2>2. j \notin Callers
    BY <1>0, <1>6 DEF Starve, RowsFit, RowsAgree, Agree, Nodes
  <2>3. EndsCallsOver
    BY <1>0, <1>6, <2>2, PromotionAssumption
       DEF Starve, EndsCallsOver, Typed, RowsTyped, Live, Terminal
  <2> QED
    BY <1>1, <1>6, <2>1, <2>3, IdleStands DEF Starve
<1> QED
  BY <1>2, <1>3, <1>4, <1>5, <1>6

\* Steps that write no status and let no job through.
LEMMA QuietNeeds ==
  ASSUME VerdictInv, NeedsInv, GraphStands', UNCHANGED status,
         \A k \in Jobs : queue'[k] \in Past => queue'[k] = queue[k]
  PROVE  NeedsInv'
<1>0. Typed /\ LetThroughMet /\ CallsOver
  BY DEF VerdictInv, NeedsInv
<1>1. Stands /\ NoNewRows /\ LetsThroughMet /\ EndsCallsOver
  BY DEF Stands, NoNewRows, LetsThroughMet, EndsCallsOver, Live, Terminal
<1> QED
  BY <1>0, <1>1, OrdinaryNeeds DEF NeedsInv

\* Loops, restarts and the beginning of a sweep let nothing through.
LEMMA LoopsNeeds ==
  ASSUME VerdictInv, NeedsInv,
         \/ ReleaseParked \/ EndDrain \/ DrainElsewhere \/ Restart
         \/ \E n \in Jobs : ClaimExpansion(n)
         \/ UNCHANGED vars
  PROVE  NeedsInv'
<1>0. queue \in [Jobs -> QueueStates]
  BY DEF VerdictInv, Typed, RowsTyped
<1>1. CASE ReleaseParked
  BY <1>1, QuietNeeds DEF ReleaseParked, GraphStands, rows
<1>2. CASE EndDrain \/ DrainElsewhere
  BY <1>2, QuietNeeds, IdleStands DEF EndDrain, DrainElsewhere, rows
<1>3. CASE Restart
  BY <1>0, <1>3, QuietNeeds, IdleStands DEF Restart, Past
<1>4. ASSUME NEW n \in Jobs, ClaimExpansion(n) PROVE NeedsInv'
  BY <1>0, <1>4, QuietNeeds, IdleStands DEF ClaimExpansion, Past
<1>5. CASE UNCHANGED vars
  <2>1. GraphStands'
    BY <1>5 DEF NeedsInv, GraphStands, vars, rows
  <2> QED
    BY <1>5, <2>1, QuietNeeds DEF vars, rows
<1> QED
  BY <1>1, <1>2, <1>3, <1>4, <1>5

\* New rows are below a node that was live, and nothing outside names them.
LEMMA InstallNeeds ==
  ASSUME VerdictInv, Stands, LetThroughMet, CallsOver, NEW n \in Jobs,
         queue[n] = "expanding", Install(n)
  PROVE  LetThroughMet' /\ CallsOver'
<1>0. /\ Typed /\ RowsFit /\ status \in [Jobs -> Statuses]
      /\ Live \cap Terminal = {} /\ "absent" \notin Live \cup Terminal
  BY DEF VerdictInv, Typed, RowsTyped, Live, Terminal
<1>1. status[n] \in Live /\ status[n] \notin Terminal /\ n \in Nodes
  BY <1>0, QueuedIsOpen DEF RowsFit, RowsAgree, Agree
<1>2. /\ \A k \in Inner[n] : status[k] = "absent" /\ k \in Jobs /\ k \notin Nodes
      /\ n \in Leaves(status)
  BY <1>0, <1>1, PromotionAssumption DEF RowsFit, NotYetExpanded, Leaves, Nodes
<1>3. LetThroughMet'
  <2> SUFFICES ASSUME NEW j \in Jobs, queue'[j] \in Past, NEW k \in Direct(status', j)
               PROVE  status'[k] \in Terminal
    BY DEF LetThroughMet, NeedsMet
  <2>1. j \notin Inner[n] /\ queue[j] \in Past
    BY <1>0, <1>2 DEF Install, Past, RowsFit, RowsAgree, Agree
  <2>2. NeedsMet(j)
    BY <2>1 DEF LetThroughMet
  <2>3. PICK m \in Needs[j] : k \in Leaves(status') /\ (k = m \/ Base[k] = m)
    BY DEF Direct, Matching
  <2>4. n \notin Direct(status, j)
    BY <1>1, <2>2 DEF NeedsMet
  <2>5. k \notin Inner[n]
    <3> SUFFICES ASSUME k \in Inner[n] PROVE FALSE
      OBVIOUS
    <3>1. k \notin Needs[j] /\ (Base[k] \in Needs[j] => n \in Matrix)
      BY <1>1, <2>1, PromotionAssumption
    <3>2. Base[k] = m /\ n \in Matrix
      BY <2>3, <3>1
    <3>3. m = n
      BY <3>2, PromotionAssumption
    <3> QED
      BY <1>2, <2>4, <3>3 DEF Direct, Matching
  <2>6. k \in Jobs /\ status[k] # "absent"
    BY <1>0, <1>1, <2>3, <2>5 DEF Leaves, Install
  <2>7. \A i \in Jobs : status[i] # "absent" => status'[i] # "absent"
    BY <1>0, <1>1, <1>2 DEF Install
  <2>8. k \in Leaves(status)
    BY <2>3, <2>6, <2>7, PromotionAssumption DEF Leaves, Nodes
  <2>9. status[k] \in Terminal
    BY <2>2, <2>3, <2>8 DEF NeedsMet, Direct, Matching
  <2> QED
    BY <2>6, <2>9 DEF Stands
<1>4. CallsOver'
  <2> SUFFICES ASSUME NEW c \in Callers, status'[c] \in Terminal, NEW i \in Inner[c]
               PROVE  status'[i] \notin Live
    BY DEF CallsOver
  <2>1. c \in Jobs /\ i \in Jobs /\ c \in Nodes /\ i \notin Nodes
    BY PromotionAssumption DEF Nodes
  <2>2. c # n /\ c \notin Inner[n]
    BY <1>0, <1>1, <1>2, <2>1 DEF Install, Live, Terminal
  <2>3. i \notin Inner[n] /\ i # n
    BY <1>1, <2>1, <2>2, PromotionAssumption
  <2>4. status'[c] = status[c] /\ status'[i] = status[i]
    BY <2>1, <2>2, <2>3 DEF Install
  <2> QED
    BY <2>4 DEF CallsOver
<1> QED
  BY <1>3, <1>4

\* A build that is applied leaves met needs met.
LEMMA ApplyNeeds ==
  ASSUME FailsAlone, VerdictInv, Stands, NeedsInv, NEW b \in builds, NEW o, ApplyExpansion(b, o)
  PROVE  NeedsInv'
<1> DEFINE n == b.node
<1>0. /\ Typed /\ RowsFit /\ BuildsCurrent /\ LetThroughMet /\ CallsOver /\ n \in Jobs
  BY DEF VerdictInv, NeedsInv, Typed, LoopsTyped
<1>1. CASE UNCHANGED <<rows, sweep>>
  BY <1>1, QuietNeeds, IdleStands DEF ApplyExpansion, rows
<1>2. CASE b.generation = generation[n] /\ sweep' = Pass(status', queue', remaining')
  <2>0. queue[n] = "expanding" /\ GraphStands'
    BY <1>0, <1>2, PassStands DEF BuildsCurrent
  <2>1. CASE Install(n)
    BY <1>0, <2>0, <2>1, InstallNeeds DEF NeedsInv
  <2>2. ASSUME NEW v \in {"skipped", "failure"}, ConcludeNode(n, v)
        PROVE  NeedsInv'
    <3>1. NoNewRows /\ LetsThroughMet
      BY <1>0, <2>2, ConcludeCloses, ClosingOrdinary
    <3>2. EndsCallsOver
      BY <1>0, <2>0, <2>2, <3>1, SettleEndsCallsOver DEF ConcludeNode
    <3> QED
      BY <1>0, <2>0, <3>1, <3>2, OrdinaryNeeds DEF NeedsInv
  <2> QED
    BY <1>1, <1>2, <2>1, <2>2, ApplyRows
<1> QED
  BY <1>1, <1>2, ApplyRows

\* Every step keeps needs met.
LEMMA StepNeeds ==
  ASSUME FailsAlone, CallsUngated, VerdictInv, OnRunnerJobs, NeedsInv, [Next]_vars
  PROVE  NeedsInv'
<1>0. Stands
  BY StepVerdict
<1>1. ASSUME NEW j \in Jobs, NEW s \in {"success", "failure", "cancelled"}, Report(j, s)
      PROVE  NeedsInv'
  <2>1. s \in Terminal /\ j \notin Nodes
    BY <1>1 DEF Terminal, Report, OnRunnerJobs
  <2> QED
    BY <1>0, <1>1, <2>1, ReportNeeds
<1> QED
  BY <1>0, <1>1, SweepNeeds, ParkedNeeds, CommandsNeeds, LoopsNeeds, ApplyNeeds
     DEF Next, CancelJobInner, FailJobset

\* The submit lets through jobs without needs only.
LEMMA InitNeeds == Init => NeedsInv
<1> SUFFICES ASSUME Init PROVE NeedsInv
  OBVIOUS
<1>1. LetThroughMet
  <2> SUFFICES ASSUME NEW j \in Jobs, queue[j] \in Past PROVE NeedsMet(j)
    BY DEF LetThroughMet
  <2>1. Needs[j] = {}
    BY DEF Init, Past, InitialQueue, InitiallyReady, Startable
  <2> QED
    BY <2>1 DEF NeedsMet, Direct
<1>2. CallsOver
  BY PromotionAssumption DEF Init, CallsOver, InitialStatus, Live
<1>3. GraphStands
  BY DEF Init, GraphStands, Pass
<1> QED
  BY <1>1, <1>2, <1>3 DEF NeedsInv

\* Where, besides, no call is in a concurrency group, no job of any graph is
\* offered to runners before everything it needs has ended, calls with all of
\* their jobs, although sweeps decide on a graph loaded earlier and subtrees
\* are folded in between (dependency_decision, finalize_reusable_callers).
THEOREM NeedsComeFirst ==
  ASSUME FailsAlone, CallsUngated
  PROVE  Spec => []StartsAfterNeeds
<1>1. Init => VerdictInv /\ OnRunnerJobs /\ NeedsInv
  BY InitVerdict, InitNeeds DEF Init, OnRunnerJobs
<1>2. VerdictInv /\ OnRunnerJobs /\ NeedsInv /\ [Next]_vars
        => (VerdictInv /\ OnRunnerJobs /\ NeedsInv)'
  BY StepVerdict, OnRunnerStep, StepNeeds
<1>3. NeedsInv => StartsAfterNeeds
  BY DEF NeedsInv, LetThroughMet, CallsOver, NeedsMet, StartsAfterNeeds, Past
<1> QED
  BY <1>1, <1>2, <1>3, PTL DEF Spec
=============================================================================
