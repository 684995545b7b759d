----------------------- MODULE PromotionGraphProofs -----------------------
(***************************************************************************)
(* What the whole graph behind a job decides.                              *)
(*                                                                         *)
(* Conditions: the rounds of Ancestors end in the least set that holds the *)
(* needs of a job and is closed under needs, and a verdict is followed     *)
(* back to verdicts only, so that the graph a sweep has loaded and the     *)
(* rows of the moment give the same decision (FailsAlone).                 *)
(* Progress: in a graph that can end (EndingGraph) the counts tell which   *)
(* needs have ended, a sweep stops only at jobs that wait for a place, and *)
(* a call waits for a job that a runner will report; so an open run always *)
(* has a job that somebody will move, or one that a starved job left       *)
(* behind.                                                                 *)
(***************************************************************************)
EXTENDS PromotionProofs

-----------------------------------------------------------------------------
(* Ancestors. *)

\* Induction in the form the provers can use: a nonempty set of numbers has a
\* least one, so a claim that fails somewhere has a first place where it does.
LEMMA LeastNumber ==
  ASSUME NEW T, T \subseteq Nat, T # {}
  PROVE  \E n \in T : \A m \in T : n <= m
<1> DEFINE R == OpToRel(<, Nat)
<1>1. \E n \in T : \A m \in T : ~ (<<m, n>> \in R)
  <2>1. IsWellFoundedOn(R, Nat)
    BY NatLessThanWellFounded
  <2> HIDE DEF R
  <2> QED BY <2>1, WFMin
<1>2. PICK n \in T : \A m \in T : ~ (<<m, n>> \in R)
  BY <1>1
<1>3. ASSUME NEW m \in T PROVE n <= m
  <2>1. ~ (<<m, n>> \in R) /\ m \in Nat /\ n \in Nat
    BY <1>2
  <2> QED BY <2>1 DEF OpToRel
<1> QED BY <1>3

\* One round of the search: what was found and what that needs.
Round(st, S) == S \cup UNION {Direct(st, k) : k \in S}

\* The first n rounds of the search.
IsSearch(st, j, n, f) ==
  /\ f \in [0..n -> SUBSET Jobs]
  /\ f[0] = Direct(st, j)
  /\ \A i \in 1..n : f[i] = Round(st, f[i - 1])

\* A round stays among the jobs.
LEMMA RoundIsJobs ==
  ASSUME NEW st, NEW S \in SUBSET Jobs
  PROVE  Round(st, S) \in SUBSET Jobs
BY DirectIsJobs DEF Round

\* The search can be carried on for any number of rounds.
LEMMA SearchExists ==
  ASSUME NEW st, NEW j \in Jobs, NEW n \in Nat
  PROVE  \E f : IsSearch(st, j, n, f)
<1> DEFINE Stuck == {i \in Nat : \A f : ~ IsSearch(st, j, i, f)}
<1> SUFFICES ASSUME Stuck # {} PROVE FALSE
  OBVIOUS
<1>1. PICK i \in Stuck : \A m \in Stuck : i <= m
  <2>1. Stuck \subseteq Nat
    OBVIOUS
  <2> HIDE DEF Stuck
  <2> QED BY <2>1, LeastNumber
<1>2. CASE i = 0
  <2> DEFINE f == [k \in 0..0 |-> Direct(st, j)]
  <2>1. IsSearch(st, j, 0, f)
    BY DirectIsJobs DEF IsSearch
  <2> QED BY <1>2, <2>1
<1>3. CASE i # 0
  <2>1. i \in Nat /\ i - 1 \in Nat /\ i - 1 \notin Stuck
    BY <1>1, <1>3
  <2>2. PICK g : IsSearch(st, j, i - 1, g)
    BY <2>1
  <2> DEFINE f == [k \in 0..i |-> IF k = i THEN Round(st, g[i - 1]) ELSE g[k]]
  <2>3. g \in [0..(i - 1) -> SUBSET Jobs] /\ g[0] = Direct(st, j)
        /\ \A k \in 1..(i - 1) : g[k] = Round(st, g[k - 1])
    BY <2>2 DEF IsSearch
  <2>4. Round(st, g[i - 1]) \in SUBSET Jobs
    BY <2>1, <2>3, RoundIsJobs
  <2>5. f \in [0..i -> SUBSET Jobs]
    BY <2>1, <2>3, <2>4
  <2>6. f[0] = Direct(st, j)
    BY <1>3, <2>1, <2>3
  <2>7. ASSUME NEW k \in 1..i PROVE f[k] = Round(st, f[k - 1])
    <3>1. CASE k = i
      BY <2>1, <3>1
    <3>2. CASE k # i
      BY <2>1, <2>3, <3>2
    <3> QED BY <3>1, <3>2
  <2>8. IsSearch(st, j, i, f)
    BY <2>5, <2>6, <2>7 DEF IsSearch
  <2> QED BY <1>1, <2>8
<1> QED BY <1>2, <1>3

\* Two searches agree as far as both go.
LEMMA SearchUnique ==
  ASSUME NEW st, NEW j \in Jobs, NEW m \in Nat, NEW n \in Nat, NEW f, NEW g,
         IsSearch(st, j, m, f), IsSearch(st, j, n, g),
         NEW i \in Nat, i <= m, i <= n
  PROVE  f[i] = g[i]
<1> DEFINE Differ == {k \in Nat : k <= m /\ k <= n /\ f[k] # g[k]}
<1> SUFFICES ASSUME Differ # {} PROVE FALSE
  OBVIOUS
<1>1. PICK k \in Differ : \A l \in Differ : k <= l
  <2>1. Differ \subseteq Nat
    OBVIOUS
  <2> HIDE DEF Differ
  <2> QED BY <2>1, LeastNumber
<1>2. k # 0
  BY <1>1 DEF IsSearch
<1>3. k - 1 \in Nat /\ k - 1 <= m /\ k - 1 <= n /\ k - 1 \notin Differ
  BY <1>1, <1>2
<1>4. f[k - 1] = g[k - 1]
  BY <1>3
<1>5. k \in 1..m /\ k \in 1..n
  BY <1>1, <1>2
<1> QED
  BY <1>1, <1>4, <1>5 DEF IsSearch

\* The search as Ancestors defines it, by recursion on the round.
IsReach(st, j, f) ==
  f = [n \in Nat |-> IF n = 0 THEN Direct(st, j)
                     ELSE f[n - 1] \cup UNION {Direct(st, k) : k \in f[n - 1]}]

\* The recursion has a solution.
LEMMA ReachExists ==
  ASSUME NEW st, NEW j \in Jobs
  PROVE  \E f : IsReach(st, j, f)
<1> DEFINE search(n) == CHOOSE f : IsSearch(st, j, n, f)
           F == [n \in Nat |-> search(n)[n]]
<1>1. ASSUME NEW n \in Nat PROVE IsSearch(st, j, n, search(n))
  BY SearchExists
<1> HIDE DEF search
<1>2. ASSUME NEW n \in Nat
      PROVE  F[n] = IF n = 0 THEN Direct(st, j)
                    ELSE F[n - 1] \cup UNION {Direct(st, k) : k \in F[n - 1]}
  <2>1. CASE n = 0
    BY <1>1, <2>1 DEF IsSearch
  <2>2. CASE n # 0
    <3>1. n - 1 \in Nat /\ n \in 1..n /\ n - 1 <= n
      BY <2>2
    <3>2. search(n)[n] = Round(st, search(n)[n - 1])
      BY <1>1, <3>1 DEF IsSearch
    <3>3. search(n)[n - 1] = search(n - 1)[n - 1]
      BY <1>1, <3>1, SearchUnique
    <3>4. F[n] = search(n)[n] /\ F[n - 1] = search(n - 1)[n - 1]
      BY <3>1
    <3> QED
      BY <2>2, <3>2, <3>3, <3>4 DEF Round
  <2> QED BY <2>1, <2>2
<1>3. IsReach(st, j, F)
  BY <1>2 DEF IsReach
<1> QED BY <1>3

\* So Ancestors is the last round of a search.
LEMMA AncestorsReach ==
  ASSUME NEW st, NEW j \in Jobs
  PROVE  \E f : IsReach(st, j, f) /\ Ancestors(st, j) = f[Cardinality(Jobs)]
<1> DEFINE reach == CHOOSE f : IsReach(st, j, f)
<1>1. IsReach(st, j, reach)
  BY ReachExists
<1>2. Ancestors(st, j) = reach[Cardinality(Jobs)]
  BY DEF Ancestors, IsReach
<1> QED BY <1>1, <1>2

\* A set that holds with each job what it needs.
ClosedUnder(st, A) == \A k \in A : Direct(st, k) \subseteq A

\* Ancestors is the least set that holds the needs of the job and is closed
\* under needs: as many rounds as there are jobs are enough, since a round
\* that is not the last one finds a job at least.
LEMMA AncestorsLeast ==
  ASSUME NEW st, NEW j \in Jobs
  PROVE  /\ Ancestors(st, j) \subseteq Jobs
         /\ Direct(st, j) \subseteq Ancestors(st, j)
         /\ ClosedUnder(st, Ancestors(st, j))
         /\ \A A \in SUBSET Jobs :
              Direct(st, j) \subseteq A /\ ClosedUnder(st, A) => Ancestors(st, j) \subseteq A
<1> DEFINE N == Cardinality(Jobs)
<1>0. N \in Nat /\ IsFiniteSet(Jobs)
  BY PromotionAssumption, FS_CardinalityType
<1>1. PICK f : IsReach(st, j, f) /\ Ancestors(st, j) = f[N]
  BY AncestorsReach
<1>2. f[0] = Direct(st, j)
  BY <1>1 DEF IsReach
<1>3. \A n \in Nat : n # 0 => f[n] = Round(st, f[n - 1])
  BY <1>1 DEF IsReach, Round
<1> HIDE DEF N
<1>4. ASSUME NEW A \in SUBSET Jobs, Direct(st, j) \subseteq A, ClosedUnder(st, A), NEW n \in Nat
      PROVE  f[n] \subseteq A
  <2> DEFINE Out == {i \in Nat : ~ (f[i] \subseteq A)}
  <2> SUFFICES ASSUME Out # {} PROVE FALSE
    OBVIOUS
  <2>1. PICK i \in Out : \A m \in Out : i <= m
    <3>1. Out \subseteq Nat
      OBVIOUS
    <3> HIDE DEF Out
    <3> QED BY <3>1, LeastNumber
  <2>2. i # 0
    BY <1>2, <1>4, <2>1
  <2>3. i - 1 \in Nat /\ i - 1 \notin Out
    BY <2>1, <2>2
  <2>4. f[i - 1] \subseteq A
    BY <2>3
  <2>5. f[i] \subseteq A
    BY <1>3, <1>4, <2>1, <2>2, <2>4 DEF Round, ClosedUnder
  <2> QED BY <2>1, <2>5
<1>5. \A n \in Nat : f[n] \subseteq Jobs
  <2>1. Direct(st, j) \subseteq Jobs /\ ClosedUnder(st, Jobs)
    BY DirectIsJobs DEF ClosedUnder
  <2> QED BY <1>4, <2>1
<1>6. \A n \in Nat : IsFiniteSet(f[n]) /\ Cardinality(f[n]) \in Nat
  BY <1>0, <1>5, FS_Subset, FS_CardinalityType
<1>7. \A n \in Nat : f[n + 1] = Round(st, f[n]) /\ f[n] \subseteq f[n + 1]
  BY <1>3 DEF Round
<1>8. ASSUME NEW n \in Nat, f[n + 1] # f[n] PROVE Cardinality(f[n]) >= n
  <2> DEFINE Short == {i \in Nat : f[i + 1] # f[i] /\ Cardinality(f[i]) < i}
  <2> SUFFICES ASSUME ~ (Cardinality(f[n]) >= n) PROVE FALSE
    OBVIOUS
  <2>0. Short # {}
    <3>1. Cardinality(f[n]) < n
      BY <1>6
    <3> QED BY <1>8, <3>1
  <2>1. PICK i \in Short : \A m \in Short : i <= m
    <3>1. Short \subseteq Nat
      OBVIOUS
    <3> HIDE DEF Short
    <3> QED BY <2>0, <3>1, LeastNumber
  <2>2. i # 0 /\ Cardinality(f[i]) \in Nat
    BY <1>6, <2>1
  <2>3. i - 1 \in Nat /\ i - 1 \notin Short /\ (i - 1) + 1 = i
    BY <2>1, <2>2
  <2>4. f[i] # f[i - 1]
    BY <1>7, <2>1, <2>3
  <2>5. Cardinality(f[i - 1]) >= i - 1
    BY <1>6, <2>3, <2>4
  <2>6. f[i - 1] \subseteq f[i]
    BY <1>7, <2>3
  <2>7. Cardinality(f[i - 1]) < Cardinality(f[i])
    <3>1. IsFiniteSet(f[i]) /\ Cardinality(f[i - 1]) \in Nat
      BY <1>6, <2>1, <2>3
    <3>2. Cardinality(f[i - 1]) <= Cardinality(f[i])
      BY <2>6, <3>1, FS_Subset
    <3>3. Cardinality(f[i - 1]) # Cardinality(f[i])
      BY <2>4, <2>6, <3>1, FS_Subset
    <3> QED BY <2>2, <3>1, <3>2, <3>3
  <2> QED BY <1>6, <2>1, <2>2, <2>3, <2>5, <2>7
<1>9. Round(st, f[N]) \subseteq f[N]
  <2>1. CASE f[N + 1] = f[N]
    BY <1>0, <1>7, <2>1
  <2>2. CASE f[N + 1] # f[N]
    <3>1. Cardinality(f[N]) >= N /\ f[N] \subseteq Jobs
      BY <1>0, <1>5, <1>8, <2>2
    <3>2. f[N] = Jobs
      <4>1. Cardinality(f[N]) <= Cardinality(Jobs)
        BY <1>0, <3>1, FS_Subset
      <4>2. Cardinality(f[N]) = Cardinality(Jobs)
        BY <1>0, <1>6, <3>1, <4>1 DEF N
      <4> QED BY <1>0, <3>1, <4>2, FS_Subset
    <3> QED
      BY <1>0, <1>5, <1>7, <3>2
  <2> QED BY <2>1, <2>2
<1>10. ClosedUnder(st, f[N])
  BY <1>9 DEF Round, ClosedUnder
<1>11. Direct(st, j) \subseteq f[N]
  <2> DEFINE Lost == {i \in Nat : ~ (Direct(st, j) \subseteq f[i])}
  <2> SUFFICES ASSUME Lost # {} PROVE FALSE
    BY <1>0
  <2>1. PICK i \in Lost : \A m \in Lost : i <= m
    <3>1. Lost \subseteq Nat
      OBVIOUS
    <3> HIDE DEF Lost
    <3> QED BY <3>1, LeastNumber
  <2>2. i # 0
    BY <1>2, <2>1
  <2>3. i - 1 \in Nat /\ i - 1 \notin Lost /\ (i - 1) + 1 = i
    BY <2>1, <2>2
  <2> QED BY <1>7, <2>1, <2>3
<1> QED
  BY <1>0, <1>1, <1>4, <1>5, <1>10, <1>11

\* The ancestors that the sweep collects are all the jobs behind a job.
LEMMA AncestorsAreBehind ==
  ASSUME NEW j \in Jobs
  PROVE  Ancestors(status, j) = Behind(j)
<1>1. Behind(j) \subseteq Ancestors(status, j)
  BY AncestorsLeast DEF Behind, ClosedUnder
<1>2. ASSUME NEW k \in Ancestors(status, j) PROVE k \in Behind(j)
  <2>1. k \in Jobs
    BY AncestorsLeast
  <2>2. ASSUME NEW A \in SUBSET Jobs, Direct(status, j) \subseteq A,
               \A a \in A : Direct(status, a) \subseteq A
        PROVE  k \in A
    BY <2>2, AncestorsLeast DEF ClosedUnder
  <2> QED BY <2>1, <2>2 DEF Behind
<1> QED BY <1>1, <1>2

\* Ancestors depend on which rows there are.
LEMMA AncestorsSame ==
  ASSUME NEW st, NEW tt, \A k \in Jobs : st[k] = "absent" <=> tt[k] = "absent", NEW j \in Jobs
  PROVE  Ancestors(st, j) = Ancestors(tt, j)
<1>1. \A k \in Jobs : Direct(st, k) = Direct(tt, k)
  BY DirectSame
<1>2. \A A \in SUBSET Jobs : ClosedUnder(st, A) <=> ClosedUnder(tt, A)
  BY <1>1 DEF ClosedUnder
<1>3. /\ Ancestors(st, j) \in SUBSET Jobs /\ Direct(st, j) \subseteq Ancestors(st, j)
      /\ ClosedUnder(st, Ancestors(st, j))
      /\ Ancestors(tt, j) \in SUBSET Jobs /\ Direct(tt, j) \subseteq Ancestors(tt, j)
      /\ ClosedUnder(tt, Ancestors(tt, j))
  BY AncestorsLeast
<1>4. Ancestors(st, j) \subseteq Ancestors(tt, j)
  BY <1>1, <1>2, <1>3, AncestorsLeast
<1>5. Ancestors(tt, j) \subseteq Ancestors(st, j)
  BY <1>1, <1>2, <1>3, AncestorsLeast
<1> QED BY <1>4, <1>5

-----------------------------------------------------------------------------
(* What a condition is evaluated over. *)

\* A job whose needs had all ended in the graph.
MetIn(st, j) == \A k \in Direct(st, j) : st[k] \in Terminal

\* A build fails the jobs that no registered runner can host as it folds them
\* in, whatever they need.
FailedAtBirth(st, j) == j \in Unhostable /\ st[j] = "failure"

\* Any other verdict came after those of all needs.
VerdictsMet(st) ==
  \A j \in Jobs : st[j] \in Terminal => MetIn(st, j) \/ FailedAtBirth(st, j)

\* A job that the sweep or a gate has taken on.
Admitted(j) ==
  \/ queue[j] \in {"held", "ready", "claimed", "pending_expansion", "expanding"}
  \/ gate[j] # "none"
  \/ status[j] = "in_progress"

AdmittedMet == \A j \in Jobs : Admitted(j) => NeedsMet(j)

\* What runners work on, and was not cancelled under them, is claimed.
RunnersWork ==
  \A j \in onRunner : status[j] # "absent" /\ (status[j] \in Live => queue[j] = "claimed")

\* A call out of the queue is under way.
CallsUnderWay ==
  \A c \in Callers : status[c] \in Live /\ queue[c] = "none" => status[c] = "in_progress"

GatesHaveRows == \A j \in Jobs : status[j] = "absent" => gate[j] = "none"

RestFits == RunnersWork /\ CallsUnderWay /\ GatesHaveRows

\* Parked jobs that are to be revisited and still live are still held.
ParkedHeld == \A j \in sweep.parked : status[j] \in Live => queue[j] = "held"

GraphMet == sweep.todo # {} => VerdictsMet(sweep.graph)

ConditionInv ==
  /\ AdmittedMet /\ VerdictsMet(status) /\ RestFits
  /\ ParkedHeld /\ GraphStands /\ GraphMet

\* All steps but a cancelled run and a folded subtree: no new rows, and what
\* is taken on or ended was taken on before or has its needs.
Ordinary ==
  /\ NoNewRows
  /\ \A k \in Jobs :
       /\ Admitted(k)' => Admitted(k) \/ NeedsMet(k)
       /\ status'[k] \in Terminal => status[k] \in Terminal \/ Admitted(k) \/ NeedsMet(k)

\* Such a step keeps verdicts after those of the needs.
LEMMA OrdinaryMet ==
  ASSUME Stands, Ordinary, AdmittedMet, VerdictsMet(status)
  PROVE  AdmittedMet' /\ VerdictsMet(status)'
<1>0. NoNewRows
  BY DEF Ordinary
<1>1. AdmittedMet'
  BY <1>0, MetStays DEF Ordinary, AdmittedMet
<1>2. ASSUME NEW j \in Jobs, status'[j] \in Terminal
      PROVE  MetIn(status', j) \/ FailedAtBirth(status', j)
  <2>1. CASE NeedsMet(j)
    BY <1>0, <2>1, MetStays DEF MetIn, NeedsMet
  <2>2. CASE FailedAtBirth(status, j)
    BY <2>2 DEF FailedAtBirth, Stands, Terminal
  <2>3. NeedsMet(j) \/ FailedAtBirth(status, j)
    <3>1. CASE status[j] \in Terminal
      BY <3>1 DEF VerdictsMet, MetIn, NeedsMet
    <3>2. CASE Admitted(j) \/ NeedsMet(j)
      BY <3>2 DEF AdmittedMet
    <3> QED BY <1>2, <3>1, <3>2 DEF Ordinary
  <2> QED BY <2>1, <2>2, <2>3
<1> QED BY <1>1, <1>2 DEF VerdictsMet

\* Legs of one base need the same.
LEMMA SiblingsShareNeeds ==
  ASSUME NEW j \in Jobs, NEW r, NEW k \in FailedFast(j, r), NeedsMet(j)
  PROVE  k \in Jobs /\ NeedsMet(k)
BY PromotionAssumption DEF FailedFast, NeedsMet, Direct

\* Closing rows keeps what is said of them.
LEMMA ClosingRest ==
  ASSUME Typed, RowsFit, RestFits, Closing, onRunner' \subseteq onRunner
  PROVE  RestFits' /\ NoNewRows /\ \A k \in Jobs : Admitted(k)' => Admitted(k)
<1>0. Live \cap Terminal = {} /\ "absent" \notin Live \cup Terminal /\ "in_progress" \notin Terminal
      /\ onRunner \subseteq Jobs /\ Callers \subseteq Jobs
  BY PromotionAssumption DEF Live, Terminal, Typed, LoopsTyped
<1>1. NoNewRows
  BY ClosingOrdinary
<1>2. RunnersWork'
  BY <1>0 DEF RestFits, RunnersWork, Closing
<1>3. CallsUnderWay'
  BY <1>0 DEF RestFits, CallsUnderWay, Closing
<1>4. GatesHaveRows'
  BY <1>0 DEF RestFits, GatesHaveRows, Closing
<1>5. \A k \in Jobs : Admitted(k)' => Admitted(k)
  BY <1>0 DEF Admitted, Closing
<1> QED BY <1>1, <1>2, <1>3, <1>4, <1>5 DEF RestFits

\* One queued job, not claimed, gets new columns.
LEMMA PutRest ==
  ASSUME Typed, RowsFit, RestFits, NEW j \in Jobs, NEW q, NEW s \in Live, NEW g, Put(j, q, s, g),
         queue[j] \notin {"none", "claimed"}, q # "none",
         onRunner' = onRunner \/ (onRunner' = onRunner \cup {j} /\ q = "claimed"),
         NeedsMet(j)
  PROVE  RestFits' /\ Ordinary
<1>0. /\ status \in [Jobs -> Statuses] /\ queue \in [Jobs -> QueueStates]
      /\ gate \in [Jobs -> {"none", "waiting", "holding"}] /\ onRunner \subseteq Jobs
      /\ status[j] \in Live /\ status[j] # "absent" /\ s # "absent" /\ s \notin Terminal
      /\ Callers \subseteq Jobs
  BY QueuedIsOpen, PromotionAssumption DEF Typed, RowsTyped, LoopsTyped, Live, Terminal
<1>1. NoNewRows
  BY <1>0 DEF Put, NoNewRows
<1>2. RunnersWork'
  BY <1>0 DEF RestFits, RunnersWork, Put
<1>3. CallsUnderWay'
  BY <1>0 DEF RestFits, CallsUnderWay, Put
<1>4. GatesHaveRows'
  BY <1>0 DEF RestFits, GatesHaveRows, Put
<1>5. \A k \in Jobs :
       /\ Admitted(k)' => Admitted(k) \/ NeedsMet(k)
       /\ status'[k] \in Terminal => status[k] \in Terminal \/ Admitted(k) \/ NeedsMet(k)
  BY <1>0 DEF Admitted, Put
<1> QED BY <1>1, <1>2, <1>3, <1>4, <1>5 DEF RestFits, Ordinary

\* A settlement ends its job and, by fail-fast, the siblings of it.
LEMMA SettleOrdinary ==
  ASSUME Typed, RowsFit, RestFits, NEW j \in Jobs, NEW r \in Terminal,
         Closing, status' = SettledStatus(j, r), onRunner' \subseteq onRunner,
         status[j] \in Live => NeedsMet(j)
  PROVE  RestFits' /\ Ordinary
<1>1. ASSUME NEW k \in Jobs, status'[k] \in Terminal
      PROVE  status[k] \in Terminal \/ NeedsMet(k)
  <2>1. CASE k \in FailedFast(j, r)
    BY <2>1, SiblingsShareNeeds DEF FailedFast
  <2>2. CASE k \notin FailedFast(j, r)
    BY <1>1, <2>2 DEF SettledStatus
  <2> QED BY <2>1, <2>2
<1> QED BY <1>1, ClosingRest DEF Ordinary

\* A step that writes no row.
LEMMA UnchangedOrdinary ==
  ASSUME UNCHANGED rows, onRunner' \subseteq onRunner, RestFits
  PROVE  RestFits' /\ Ordinary
BY DEF rows, RestFits, RunnersWork, CallsUnderWay, GatesHaveRows, Ordinary, NoNewRows, Admitted

\* The graph of a pass that goes on is the one it loaded.
LEMMA GraphMetAdvances ==
  ASSUME Typed, GraphMet, sweep.parked = {}, NEW j, NEW settles, Advance(j, settles),
         j \in sweep.todo, VerdictsMet(status)'
  PROVE  GraphMet' /\ ParkedHeld'
<1>1. CASE sweep' = Pass(status', queue', remaining')
  BY <1>1 DEF Pass, GraphMet, ParkedHeld, VerdictsMet, MetIn, FailedAtBirth
<1>2. CASE sweep' = [sweep EXCEPT !.todo = sweep.todo \ {j},
                                  !.settled = sweep.settled \/ settles]
  <2>1. sweep'.graph = sweep.graph /\ sweep'.parked = sweep.parked
    BY <1>2 DEF Typed, SweepTyped
  <2> QED
    BY <2>1 DEF GraphMet, ParkedHeld, VerdictsMet, MetIn, FailedAtBirth
<1> QED
  BY <1>1, <1>2 DEF Advance

\* A new pass loads the rows as they are.
LEMMA PassMet ==
  ASSUME sweep' = Pass(status', queue', remaining'), VerdictsMet(status)'
  PROVE  GraphStands' /\ GraphMet' /\ ParkedHeld'
BY PassStands DEF Pass, GraphMet, ParkedHeld, VerdictsMet, MetIn, FailedAtBirth

\* Between two sweeps no graph is in use.
LEMMA IdleMet ==
  ASSUME Idle, UNCHANGED sweep
  PROVE  GraphStands' /\ GraphMet' /\ ParkedHeld'
BY IdleStands DEF Idle, GraphMet, ParkedHeld

\* A candidate that does not wait has its needs.
LEMMA DecidedIsMet ==
  ASSUME Typed, GraphStands, NEW j \in Jobs, j \in sweep.todo,
         DependencyDecision(sweep.graph, j) # "wait"
  PROVE  NeedsMet(j)
<1>1. Direct(sweep.graph, j) = Direct(status, j)
  BY DirectSame DEF GraphStands
<1>2. \A k \in Direct(sweep.graph, j) : sweep.graph[k] \in Terminal
  <2>1. CASE Needs[j] = {}
    BY <2>1 DEF Direct
  <2>2. CASE Needs[j] # {}
    BY <2>2 DEF DependencyDecision
  <2> QED BY <2>1, <2>2
<1> QED
  BY <1>1, <1>2, DirectIsJobs DEF NeedsMet, GraphStands

\* A candidate that waits is left alone.
LEMMA WaitsUnchanged ==
  ASSUME NEW j \in Jobs, SweepCandidate(j), DependencyDecision(sweep.graph, j) = "wait"
  PROVE  UNCHANGED rows /\ Advance(j, FALSE)
BY DEF SweepCandidate

\* The visit of a candidate.
LEMMA SweepMet ==
  ASSUME VerdictInv, Stands, ConditionInv, NEW j \in Jobs, SweepCandidate(j)
  PROVE  ConditionInv'
<1>0. /\ Typed /\ RowsFit /\ AdmittedMet /\ VerdictsMet(status) /\ RestFits
      /\ GraphStands /\ GraphMet /\ j \in sweep.todo /\ sweep.parked = {}
      /\ queue[j] = "blocked" /\ onRunner' = onRunner
  BY VisitFrame DEF VerdictInv, ConditionInv, SweepFits
<1>1. ASSUME RestFits', Ordinary, NEW settles, Advance(j, settles)
      PROVE  ConditionInv'
  <2>1. AdmittedMet' /\ VerdictsMet(status)' /\ NoNewRows
    BY <1>0, <1>1, OrdinaryMet DEF Ordinary
  <2>2. GraphMet' /\ ParkedHeld' /\ GraphStands'
    BY <1>0, <1>1, <2>1, GraphMetAdvances, GraphAdvances
  <2> QED BY <1>1, <2>1, <2>2 DEF ConditionInv
<1>2. CASE UNCHANGED rows /\ Advance(j, FALSE)
  BY <1>0, <1>1, <1>2, UnchangedOrdinary
<1>3. CASE DependencyDecision(sweep.graph, j) # "wait"
  <2>1. NeedsMet(j)
    BY <1>0, <1>3, DecidedIsMet
  <2>2. ASSUME NEW q, NEW s, NEW g, NEW settles \in BOOLEAN,
               LetThrough(j, q, s, g), Put(j, q, s, g), Advance(j, settles)
        PROVE  ConditionInv'
    <3>1. s \in Live /\ q # "none"
      BY <1>0, <2>2, QueuedIsOpen DEF LetThrough, Live
    <3>2. RestFits' /\ Ordinary
      BY <1>0, <2>1, <2>2, <3>1, PutRest
    <3> QED BY <1>1, <2>2, <3>2
  <2>3. ASSUME NEW r \in Terminal, Settles(j, r)
        PROVE  ConditionInv'
    <3>1. CASE UNCHANGED rows
      BY <1>0, <1>1, <2>3, <3>1, UnchangedOrdinary DEF Settles
    <3>2. CASE ~UNCHANGED rows
      <4>1. Closing /\ status' = SettledStatus(j, r)
        BY <1>0, <2>3, <3>2, SettleNodeCloses DEF Settles, SettleNode
      <4>2. RestFits' /\ Ordinary
        BY <1>0, <2>1, <4>1, SettleOrdinary
      <4> QED BY <1>1, <2>3, <4>2 DEF Settles
    <3> QED BY <3>1, <3>2
  <2> QED BY <1>2, <2>2, <2>3, SweepVisits DEF Visits
<1> QED BY <1>2, <1>3, WaitsUnchanged

\* The visit of a parked job.
LEMMA ParkedMet ==
  ASSUME VerdictInv, Stands, ConditionInv, NEW j \in Jobs, RevisitParked(j)
  PROVE  ConditionInv'
<1>0. /\ Typed /\ RowsFit /\ AdmittedMet /\ VerdictsMet(status) /\ RestFits /\ ParkedHeld
      /\ j \in sweep.parked /\ sweep.todo = {} /\ onRunner' = onRunner
      /\ SweepTyped
  BY DEF VerdictInv, ConditionInv, RevisitParked, SweepFits, Typed
<1>1. status[j] \in Live => queue[j] = "held" /\ NeedsMet(j)
  BY <1>0 DEF ParkedHeld, AdmittedMet, Admitted
<1>2. RestFits' /\ Ordinary
      /\ \A k \in sweep.parked \ {j} :
           status'[k] \in Live => status[k] \in Live /\ queue'[k] = queue[k]
  <2>0. sweep.parked \subseteq Jobs /\ Live \cap Terminal = {}
    BY <1>0 DEF SweepTyped, Live, Terminal
  <2>1. CASE UNCHANGED rows
    BY <1>0, <2>1, UnchangedOrdinary DEF rows
  <2>2. CASE queue[j] = "held" /\ Put(j, "blocked", "queued", gate[j])
    <3>1. RestFits' /\ Ordinary
      BY <1>0, <1>1, <2>2, PutRest, QueuedIsOpen DEF Live
    <3> QED BY <1>0, <2>0, <2>2, <3>1 DEF Put, Typed, RowsTyped
  <2>3. CASE SettleNode(j, "failure") /\ ~UNCHANGED rows
    <3>0. "failure" \in Terminal
      BY DEF Terminal
    <3>1. Closing /\ status' = SettledStatus(j, "failure")
      BY <1>0, <2>3, <3>0, SettleNodeCloses DEF SettleNode
    <3>2. RestFits' /\ Ordinary
      BY <1>0, <1>1, <3>0, <3>1, SettleOrdinary
    <3> QED BY <2>0, <3>1, <3>2 DEF Closing
  <2> QED BY <2>1, <2>2, <2>3 DEF RevisitParked
<1>3. AdmittedMet' /\ VerdictsMet(status)'
  BY <1>0, <1>2, OrdinaryMet
<1>4. GraphStands' /\ GraphMet' /\ ParkedHeld'
  <2>1. CASE sweep' = Pass(status', queue', remaining')
    BY <1>3, <2>1, PassMet
  <2>2. CASE sweep' = [sweep EXCEPT !.parked = @ \ {j}]
    <3>1. sweep'.todo = {} /\ sweep'.parked = sweep.parked \ {j}
      BY <1>0, <2>2 DEF SweepTyped
    <3> QED
      BY <1>0, <1>2, <3>1 DEF GraphStands, GraphMet, ParkedHeld
  <2> QED BY <2>1, <2>2 DEF RevisitParked
<1> QED BY <1>2, <1>3, <1>4 DEF ConditionInv

\* A completion ends what a runner had, its siblings, and calls under way.
LEMMA ReportMet ==
  ASSUME VerdictInv, Stands, ConditionInv, NEW j \in Jobs, NEW r \in Terminal, Report(j, r)
  PROVE  ConditionInv'
<1>0. /\ Typed /\ RowsFit /\ AdmittedMet /\ VerdictsMet(status) /\ RestFits
      /\ j \in onRunner /\ onRunner' \subseteq onRunner
      /\ sweep' = Pass(status', queue', remaining')
  BY DEF VerdictInv, ConditionInv, Report
<1>1. status[j] \in Live => NeedsMet(j)
  BY <1>0 DEF RestFits, RunnersWork, AdmittedMet, Admitted
<1>2. RestFits' /\ Ordinary
  <2>1. CASE UNCHANGED rows
    BY <1>0, <2>1, UnchangedOrdinary
  <2>2. CASE ~UNCHANGED rows
    <3> DEFINE st == SettledStatus(j, r)
    <3>1. status' = Folded(st) /\ Closing
      BY <1>0, <2>2, ReportRows, ReportCloses
    <3>2. ASSUME NEW k \in Jobs, status'[k] \in Terminal
          PROVE  status[k] \in Terminal \/ Admitted(k) \/ NeedsMet(k)
      <4>1. CASE k \in FailedFast(j, r)
        BY <1>1, <4>1, SiblingsShareNeeds DEF FailedFast
      <4>2. CASE k \notin FailedFast(j, r) /\ k \notin Foldable(st)
        <5>1. st[k] \in Terminal
          <6> HIDE DEF st
          <6> QED BY <3>1, <3>2, <4>2 DEF Folded
        <5> QED BY <1>1, <4>2, <5>1 DEF SettledStatus
      <4>3. CASE k \notin FailedFast(j, r) /\ k \in Foldable(st)
        <5>1. k \in Callers /\ st[k] \in Live /\ Inner[k] # {}
              /\ \A i \in Inner[k] : st[i] \in Terminal
          BY <4>3 DEF Foldable
        <5>2. status[k] \in Live
          <6>1. Effective(j, r) \notin Live
            BY EffectiveTyped DEF Live, Terminal
          <6> QED BY <4>3, <5>1, <6>1 DEF SettledStatus
        <5>3. PICK i \in Inner[k] : st[i] \in Terminal
          BY <5>1
        <5>4. i \in Jobs /\ k \in Nodes
          BY <5>1, PromotionAssumption DEF Nodes
        <5>5. status[i] # "absent"
          BY <5>3, <5>4 DEF SettledStatus, FailedFast, Live, Terminal
        <5>6. queue[k] = "none"
          BY <1>0, <5>4, <5>5 DEF RowsFit, NotYetExpanded
        <5> QED BY <1>0, <5>1, <5>2, <5>6 DEF RestFits, CallsUnderWay, Admitted
      <4> QED BY <4>1, <4>2, <4>3
    <3> QED BY <1>0, <3>1, <3>2, ClosingRest DEF Ordinary
  <2> QED BY <2>1, <2>2
<1>3. AdmittedMet' /\ VerdictsMet(status)'
  BY <1>0, <1>2, OrdinaryMet
<1> QED BY <1>0, <1>2, <1>3, PassMet DEF ConditionInv

\* Claims, cancellations, the reaper and what other runs do.
LEMMA CommandsMet ==
  ASSUME VerdictInv, Stands, ConditionInv,
         \/ CancelRun
         \/ \E j \in Jobs : Claim(j) \/ Starve(j) \/ GrantSlot(j) \/ Displaced(j)
  PROVE  ConditionInv'
<1>0. /\ Typed /\ RowsFit /\ AdmittedMet /\ VerdictsMet(status) /\ RestFits
  BY DEF VerdictInv, ConditionInv
<1>1. ASSUME RestFits', Ordinary, Idle, UNCHANGED sweep PROVE ConditionInv'
  BY <1>0, <1>1, OrdinaryMet, IdleMet DEF ConditionInv
<1>2. CASE CancelRun
  <2>1. RestFits' /\ NoNewRows
    BY <1>0, <1>2, CancelCloses, ClosingRest DEF CancelRun
  <2>2. \A k \in Jobs : status'[k] \in Terminal \cup {"absent"}
    BY <1>0, <1>2 DEF CancelRun, Typed, RowsTyped, Statuses, Live, Terminal
  <2>3. \A k \in Jobs : MetIn(status', k)
    BY <2>2 DEF MetIn, Direct, Matching, Leaves
  <2>4. AdmittedMet' /\ VerdictsMet(status)'
    BY <2>3 DEF AdmittedMet, NeedsMet, MetIn, VerdictsMet
  <2> QED
    BY <1>2, <2>1, <2>4, IdleMet DEF CancelRun, ConditionInv
<1>3. ASSUME NEW j \in Jobs, Displaced(j) PROVE ConditionInv'
  <2>1. RestFits' /\ NoNewRows /\ \A k \in Jobs : Admitted(k)' => Admitted(k)
    BY <1>0, <1>3, CancelCloses, ClosingRest DEF Displaced
  <2>2. \A k \in Jobs : status'[k] \in Terminal => status[k] \in Terminal \/ Admitted(k)
    BY <1>0, <1>3 DEF Displaced, Admitted, Typed, RowsTyped
  <2> QED
    BY <1>1, <1>3, <2>1, <2>2 DEF Displaced, Ordinary
<1>4. ASSUME NEW j \in Jobs, Claim(j) PROVE ConditionInv'
  <2>1. NeedsMet(j)
    BY <1>0, <1>4 DEF Claim, AdmittedMet, Admitted
  <2>2. RestFits' /\ Ordinary
    BY <1>0, <1>4, <2>1, PutRest DEF Claim, Live
  <2> QED
    BY <1>1, <1>4, <2>2 DEF Claim
<1>5. ASSUME NEW j \in Jobs, GrantSlot(j) PROVE ConditionInv'
  <2>1. NeedsMet(j) /\ queue[j] = "held" /\ "queued" \in Live
    BY <1>0, <1>5 DEF GrantSlot, AdmittedMet, Admitted, RowsFit, RowsAgree, Agree, Live
  <2>2. RestFits' /\ Ordinary
    BY <1>0, <1>5, <2>1, PutRest DEF GrantSlot, EnqueueReady
  <2>3. AdmittedMet' /\ VerdictsMet(status)'
    BY <1>0, <2>2, OrdinaryMet
  <2> QED
    BY <1>1, <1>5, <2>2, <2>3, PassMet DEF GrantSlot, ConditionInv
<1>6. ASSUME NEW j \in Jobs, Starve(j) PROVE ConditionInv'
  <2>1. RestFits' /\ NoNewRows /\ \A k \in Jobs : Admitted(k)' => Admitted(k)
    BY <1>0, <1>6, CancelCloses, ClosingRest DEF Starve
  <2>2. \A k \in Jobs : status'[k] \in Terminal => status[k] \in Terminal \/ Admitted(k)
    BY <1>0, <1>6 DEF Starve, Admitted, Typed, RowsTyped
  <2> QED
    BY <1>1, <1>6, <2>1, <2>2 DEF Starve, Ordinary
<1> QED
  BY <1>2, <1>3, <1>4, <1>5, <1>6

\* Loops, restarts and the beginning of a sweep.
LEMMA LoopsMet ==
  ASSUME VerdictInv, Stands, ConditionInv,
         \/ ReleaseParked \/ EndDrain \/ DrainElsewhere \/ Restart
         \/ \E n \in Jobs : ClaimExpansion(n)
         \/ UNCHANGED vars
  PROVE  ConditionInv'
<1>0. /\ Typed /\ RowsFit /\ AdmittedMet /\ VerdictsMet(status) /\ RestFits
      /\ queue \in [Jobs -> QueueStates] /\ onRunner \subseteq Jobs /\ Callers \subseteq Jobs
  BY PromotionAssumption DEF VerdictInv, ConditionInv, Typed, RowsTyped, LoopsTyped
<1>1. ASSUME RestFits', Ordinary PROVE AdmittedMet' /\ VerdictsMet(status)'
  BY <1>0, <1>1, OrdinaryMet
<1>2. CASE ReleaseParked
  <2>1. RestFits' /\ Ordinary
    BY <1>0, <1>2, UnchangedOrdinary DEF ReleaseParked
  <2>2. GraphStands' /\ GraphMet'
    BY <1>2 DEF ReleaseParked, GraphStands, GraphMet
  <2>3. ParkedHeld'
    BY <1>2 DEF ReleaseParked, ParkedHeld, Parked, rows
  <2> QED BY <1>1, <2>1, <2>2, <2>3 DEF ConditionInv
<1>3. CASE EndDrain \/ DrainElsewhere
  <2>1. RestFits' /\ Ordinary /\ Idle /\ UNCHANGED sweep
    BY <1>0, <1>3, UnchangedOrdinary DEF EndDrain, DrainElsewhere
  <2> QED BY <1>1, <2>1, IdleMet DEF ConditionInv
<1>4. ASSUME UNCHANGED <<status, gate, onRunner, sweep>>, Idle,
             \A k \in Jobs : \/ queue'[k] = queue[k]
                             \/ /\ queue[k] \in {"pending_expansion", "expanding"}
                                /\ queue'[k] \in {"pending_expansion", "expanding"}
      PROVE  ConditionInv'
  <2>1. RestFits'
    BY <1>0, <1>4 DEF RestFits, RunnersWork, CallsUnderWay, GatesHaveRows
  <2>2. Ordinary
    BY <1>0, <1>4 DEF Ordinary, NoNewRows, Admitted
  <2> QED BY <1>1, <1>4, <2>1, <2>2, IdleMet DEF ConditionInv
<1>5. CASE Restart
  BY <1>0, <1>4, <1>5 DEF Restart
<1>6. ASSUME NEW n \in Jobs, ClaimExpansion(n) PROVE ConditionInv'
  BY <1>0, <1>4, <1>6 DEF ClaimExpansion
<1>7. CASE UNCHANGED vars
  BY <1>7 DEF ConditionInv, AdmittedMet, Admitted, NeedsMet, VerdictsMet, MetIn, FailedAtBirth,
              RestFits, RunnersWork, CallsUnderWay, GatesHaveRows, ParkedHeld, GraphStands,
              GraphMet, vars, rows
<1> QED
  BY <1>2, <1>3, <1>5, <1>6, <1>7

\* Only a job below the folded node has new needs; no other job that has its
\* needs names what was folded in.
LEMMA InstallKeepsMet ==
  ASSUME VerdictInv, Stands, NEW n \in Jobs, queue[n] = "expanding", Install(n),
         NEW j \in Jobs \ Inner[n], NeedsMet(j)
  PROVE  NeedsMet(j)'
<1>0. /\ Typed /\ RowsFit /\ status \in [Jobs -> Statuses]
      /\ Live \cap Terminal = {} /\ "absent" \notin Live \cup Terminal
  BY DEF VerdictInv, Typed, RowsTyped, Live, Terminal
<1>1. status[n] \in Live /\ status[n] \notin Terminal /\ n \in Nodes
  BY <1>0, QueuedIsOpen DEF RowsFit, RowsAgree, Agree
<1>2. /\ \A k \in Inner[n] : status[k] = "absent" /\ k \in Jobs /\ k \notin Nodes
      /\ n \in Leaves(status)
  BY <1>0, <1>1, PromotionAssumption DEF RowsFit, NotYetExpanded, Leaves, Nodes
<1> SUFFICES ASSUME NEW k \in Direct(status', j)
             PROVE  status'[k] \in Terminal
  BY DEF NeedsMet
<1>3. PICK m \in Needs[j] : k \in Leaves(status') /\ (k = m \/ Base[k] = m)
  BY DEF Direct, Matching
<1>4. n \notin Direct(status, j)
  BY <1>1 DEF NeedsMet
<1>5. k \notin Inner[n]
  <2> SUFFICES ASSUME k \in Inner[n] PROVE FALSE
    OBVIOUS
  <2>1. k \notin Needs[j] /\ (Base[k] \in Needs[j] => n \in Matrix)
    BY <1>1, PromotionAssumption
  <2>2. Base[k] = m /\ n \in Matrix
    BY <1>3, <2>1
  <2>3. m = n
    BY <2>2, PromotionAssumption
  <2> QED
    BY <1>2, <1>4, <2>3 DEF Direct, Matching
<1>6. k \in Jobs /\ status[k] # "absent"
  BY <1>0, <1>1, <1>3, <1>5 DEF Leaves, Install
<1>7. \A i \in Jobs : status[i] # "absent" => status'[i] # "absent"
  BY <1>0, <1>1, <1>2 DEF Install
<1>8. k \in Leaves(status)
  BY <1>3, <1>6, <1>7, PromotionAssumption DEF Leaves, Nodes
<1>9. status[k] \in Terminal
  BY <1>3, <1>8 DEF NeedsMet, Direct, Matching
<1> QED
  BY <1>6, <1>9 DEF Stands

\* A subtree that is folded in.
LEMMA InstallMet ==
  ASSUME VerdictInv, Stands, AdmittedMet, VerdictsMet(status), RestFits, NEW n \in Jobs,
         queue[n] = "expanding", Install(n), onRunner' = onRunner
  PROVE  AdmittedMet' /\ VerdictsMet(status)' /\ RestFits'
<1>0. /\ Typed /\ RowsFit /\ status \in [Jobs -> Statuses] /\ queue \in [Jobs -> QueueStates]
      /\ onRunner \subseteq Jobs /\ Callers \subseteq Jobs
  BY PromotionAssumption DEF VerdictInv, Typed, RowsTyped, LoopsTyped
<1>1. status[n] \in Live /\ n \in Nodes /\ Admitted(n)
  BY <1>0, QueuedIsOpen DEF RowsFit, RowsAgree, Agree, Admitted
<1>2. \A k \in Inner[n] : /\ status[k] = "absent" /\ gate[k] = "none" /\ k \in Jobs
                          /\ k \notin Nodes /\ k # n /\ k \notin onRunner /\ queue[k] = "none"
  BY <1>0, <1>1, PromotionAssumption
     DEF RowsFit, NotYetExpanded, RowsAgree, Agree, RestFits, GatesHaveRows, RunnersWork, Nodes,
         Live
<1>3. \A j \in Jobs \ Inner[n] : NeedsMet(j) => NeedsMet(j)'
  BY InstallKeepsMet
<1>4. ASSUME NEW j \in Inner[n]
      PROVE  ~Admitted(j)' /\ (status'[j] \in Terminal => FailedAtBirth(status', j))
  BY <1>0, <1>2 DEF Install, Admitted, FailedAtBirth, Terminal
<1>5. ASSUME NEW j \in Jobs \ Inner[n]
      PROVE  /\ Admitted(j)' => Admitted(j)
             /\ status'[j] \in Terminal => status[j] \in Terminal
             /\ FailedAtBirth(status, j) => FailedAtBirth(status', j)
  <2>1. CASE j = n
    BY <1>0, <1>1, <2>1 DEF Install, FailedAtBirth, Live, Terminal
  <2>2. CASE j # n
    BY <1>0, <2>2 DEF Install, Admitted, FailedAtBirth
  <2> QED BY <2>1, <2>2
<1>6. AdmittedMet'
  BY <1>2, <1>3, <1>4, <1>5 DEF AdmittedMet
<1>7. VerdictsMet(status)'
  <2> SUFFICES ASSUME NEW j \in Jobs, status'[j] \in Terminal
               PROVE  MetIn(status', j) \/ FailedAtBirth(status', j)
    BY DEF VerdictsMet
  <2>1. CASE j \in Inner[n]
    BY <1>4, <2>1
  <2>2. CASE j \notin Inner[n]
    BY <1>3, <1>5, <2>2 DEF VerdictsMet, MetIn, NeedsMet
  <2> QED BY <2>1, <2>2
<1>8. RestFits'
  <2>1. RunnersWork'
    BY <1>0, <1>1, <1>2 DEF RestFits, RunnersWork, Install, Live
  <2>2. CallsUnderWay'
    BY <1>0, <1>1, <1>2 DEF RestFits, CallsUnderWay, Install, Nodes
  <2>3. GatesHaveRows'
    BY <1>0, <1>1, <1>2 DEF RestFits, GatesHaveRows, Install, Live
  <2> QED BY <2>1, <2>2, <2>3 DEF RestFits
<1> QED BY <1>6, <1>7, <1>8

\* A build that is applied.
LEMMA ApplyMet ==
  ASSUME VerdictInv, Stands, ConditionInv, NEW b \in builds, NEW o, ApplyExpansion(b, o)
  PROVE  ConditionInv'
<1> DEFINE n == b.node
<1>0. /\ Typed /\ RowsFit /\ BuildsCurrent /\ AdmittedMet /\ VerdictsMet(status) /\ RestFits
      /\ n \in Jobs /\ Idle /\ onRunner' = onRunner
  BY DEF VerdictInv, ConditionInv, Typed, LoopsTyped, ApplyExpansion
<1>1. CASE UNCHANGED <<rows, sweep>>
  <2>1. RestFits' /\ Ordinary
    BY <1>0, <1>1, UnchangedOrdinary
  <2> QED BY <1>0, <1>1, <2>1, OrdinaryMet, IdleMet DEF ConditionInv
<1>2. CASE b.generation = generation[n] /\ sweep' = Pass(status', queue', remaining')
  <2>0. queue[n] = "expanding"
    BY <1>0, <1>2 DEF BuildsCurrent
  <2>1. CASE Install(n)
    BY <1>0, <1>2, <2>0, <2>1, InstallMet, PassMet DEF ConditionInv
  <2>2. ASSUME NEW v \in {"skipped", "failure"}, ConcludeNode(n, v)
        PROVE  ConditionInv'
    <3>1. v \in Terminal /\ Closing /\ status' = SettledStatus(n, v) /\ NeedsMet(n)
      BY <1>0, <2>0, <2>2, ConcludeCloses DEF ConcludeNode, AdmittedMet, Admitted, Terminal
    <3>2. RestFits' /\ Ordinary
      BY <1>0, <3>1, SettleOrdinary
    <3> QED
      BY <1>0, <1>2, <3>2, OrdinaryMet, PassMet DEF ConditionInv
  <2> QED
    BY <1>1, <1>2, <2>1, <2>2, ApplyRows
<1> QED
  BY <1>1, <1>2, ApplyRows

\* Every step keeps verdicts after those of the needs.
LEMMA StepMet ==
  ASSUME FailsAlone, VerdictInv, OnRunnerJobs, ConditionInv, [Next]_vars
  PROVE  ConditionInv'
<1>0. Stands
  BY StepVerdict
<1>1. ASSUME NEW j \in Jobs, NEW s \in {"success", "failure", "cancelled"}, Report(j, s)
      PROVE  ConditionInv'
  <2>1. s \in Terminal
    BY DEF Terminal
  <2> QED
    BY <1>0, <1>1, <2>1, ReportMet
<1> QED
  BY <1>0, <1>1, SweepMet, ParkedMet, CommandsMet, LoopsMet, ApplyMet
     DEF Next, CancelJobInner, FailJobset

\* The submit concludes and lets through jobs without needs only.
LEMMA InitMet == Init => ConditionInv
<1> SUFFICES ASSUME Init PROVE ConditionInv
  OBVIOUS
<1>1. \A j \in Jobs : Admitted(j) \/ status[j] \in Terminal => Needs[j] = {}
  BY DEF Init, Admitted, InitialStatus, InitialQueue, InitiallyReady, Startable, Terminal
<1>2. \A j \in Jobs : Needs[j] = {} => NeedsMet(j) /\ MetIn(status, j)
  BY DEF NeedsMet, MetIn, Direct
<1>3. AdmittedMet /\ VerdictsMet(status)
  BY <1>1, <1>2 DEF AdmittedMet, VerdictsMet
<1>4. RestFits
  BY PromotionAssumption
     DEF Init, RestFits, RunnersWork, CallsUnderWay, GatesHaveRows, InitialStatus, InitialQueue,
         InitiallyReady, Live
<1>5. ParkedHeld /\ GraphStands /\ GraphMet
  BY <1>3 DEF Init, Pass, ParkedHeld, GraphStands, GraphMet
<1> QED
  BY <1>3, <1>4, <1>5 DEF ConditionInv

\* The decision made on the graph that the pass loaded is the one that the
\* rows of the moment give: a verdict is followed back to verdicts only,
\* unless a job failed at birth is met, and that decides the aggregate.
LEMMA DecisionStands ==
  ASSUME Typed, GraphStands, GraphMet, NEW j \in Jobs, j \in sweep.todo, Needs[j] # {},
         DependencyDecision(sweep.graph, j) # "wait"
  PROVE  DependencyDecision(sweep.graph, j) = If[j][Aggregate({status[k] : k \in Behind(j)})]
<1> DEFINE g   == sweep.graph
           anc == Ancestors(g, j)
           old == {g[k] : k \in anc}
           new == {status[k] : k \in anc}
<1>1. anc = Behind(j)
  BY AncestorsAreBehind, AncestorsSame DEF GraphStands
<1>2. /\ anc \subseteq Jobs /\ Direct(g, j) \subseteq anc /\ ClosedUnder(g, anc)
      /\ \A A \in SUBSET Jobs : Direct(g, j) \subseteq A /\ ClosedUnder(g, A) => anc \subseteq A
  BY AncestorsLeast
<1>3. DependencyDecision(g, j) = If[j][Aggregate(old)] /\ MetIn(g, j)
  BY DEF DependencyDecision, MetIn
<1>4. \A k \in Jobs : g[k] \in Terminal => status[k] = g[k]
  BY DEF GraphStands
<1>5. VerdictsMet(g)
  BY DEF GraphMet
<1> HIDE DEF anc, g
<1>6. ASSUME \E k \in anc : FailedAtBirth(g, k)
      PROVE  Aggregate(old) = Aggregate(new)
  <2>1. PICK k \in anc : g[k] = "failure"
    BY <1>6 DEF FailedAtBirth
  <2>2. status[k] = "failure"
    BY <1>2, <1>4, <2>1 DEF Terminal
  <2>3. "failure" \in old /\ "failure" \in new
    BY <2>1, <2>2
  <2>4. Aggregate(old) = "failure" /\ Aggregate(new) = "failure"
    BY <2>3 DEF Aggregate
  <2> QED BY <2>4
<1>7. ASSUME \A k \in anc : ~FailedAtBirth(g, k)
      PROVE  Aggregate(old) = Aggregate(new)
  <2> DEFINE A == {k \in anc : g[k] \in Terminal}
  <2>1. A \in SUBSET Jobs /\ Direct(g, j) \subseteq A
    BY <1>2, <1>3 DEF MetIn
  <2>2. ClosedUnder(g, A)
    BY <1>2, <1>5, <1>7 DEF ClosedUnder, VerdictsMet, MetIn
  <2>3. anc \subseteq A
    <3> HIDE DEF A
    <3> QED BY <1>2, <2>1, <2>2
  <2>4. \A k \in anc : status[k] = g[k]
    BY <1>2, <1>4, <2>3
  <2>5. old = new
    BY <2>4
  <2> QED BY <2>5
<1>8. If[j][Aggregate(old)] = If[j][Aggregate(new)]
  BY <1>6, <1>7
<1> QED BY <1>1, <1>3, <1>8 DEF g

\* What ConditionsDecide says of a step.
Decides ==
  \A j \in Jobs \ Nodes :
    LET decision == If[j][Aggregate({status[k] : k \in Behind(j)})]
    IN  Needs[j] # {} =>
          /\ status[j] \in Live /\ status'[j] = "skipped" => decision = "skip"
          /\ queue[j] = "blocked" /\ queue'[j] = "ready" => decision = "run"

\* A settlement skips no job but the one it settles, and makes none ready.
LEMMA SettleDecides ==
  ASSUME Typed, RowsFit, NEW j \in Jobs, NEW r \in Terminal, SettleNode(j, r)
  PROVE  /\ \A k \in Jobs : queue[k] = "blocked" => queue'[k] # "ready"
         /\ \A k \in Jobs : status[k] \in Live /\ status'[k] = "skipped" => k = j /\ r = "skipped"
<1>1. CASE UNCHANGED rows
  BY <1>1 DEF rows, Live
<1>2. CASE ~UNCHANGED rows
  <2>1. status' = SettledStatus(j, r) /\ queue' = SettledQueue(j, r)
    BY <1>2 DEF SettleNode
  <2> QED
    BY <2>1 DEF SettledStatus, SettledQueue, Effective, Live
<1> QED BY <1>1, <1>2

\* A candidate is skipped or made ready only if that is the decision.
LEMMA SweepDecides ==
  ASSUME VerdictInv, ConditionInv, NEW j \in Jobs, SweepCandidate(j)
  PROVE  Decides
<1>0. /\ Typed /\ RowsFit /\ GraphStands /\ GraphMet /\ j \in sweep.todo /\ queue[j] = "blocked"
      /\ queue \in [Jobs -> QueueStates] /\ status \in [Jobs -> Statuses]
  BY VisitFrame DEF VerdictInv, ConditionInv, SweepFits, Typed, RowsTyped
<1> DEFINE decision == DependencyDecision(sweep.graph, j)
<1>1. SUFFICES ASSUME NEW k \in Jobs \ Nodes, Needs[k] # {},
                      \/ status[k] \in Live /\ status'[k] = "skipped"
                      \/ queue[k] = "blocked" /\ queue'[k] = "ready"
               PROVE  /\ k = j
                      /\ status[k] \in Live /\ status'[k] = "skipped" => decision = "skip"
                      /\ queue[k] = "blocked" /\ queue'[k] = "ready" => decision = "run"
  <2>1. ASSUME NEW k \in Jobs \ Nodes, Needs[k] # {}, k = j, decision # "wait"
        PROVE  decision = If[k][Aggregate({status[i] : i \in Behind(k)})]
    BY <1>0, <2>1, DecisionStands
  <2> QED BY <2>1 DEF Decides
<1>2. CASE UNCHANGED rows
  BY <1>1, <1>2 DEF rows, Live
<1>3. ASSUME NEW q, NEW s, NEW g, decision = "run", Put(j, q, s, g), s \in Live
      PROVE  /\ k = j
             /\ status[k] \in Live /\ status'[k] = "skipped" => decision = "skip"
             /\ queue[k] = "blocked" /\ queue'[k] = "ready" => decision = "run"
  BY <1>0, <1>1, <1>3 DEF Put, Live
<1>4. ASSUME NEW r \in Terminal, SettleNode(j, r), r = "skipped" => decision = "skip"
      PROVE  /\ k = j
             /\ status[k] \in Live /\ status'[k] = "skipped" => decision = "skip"
             /\ queue[k] = "blocked" /\ queue'[k] = "ready" => decision = "run"
  BY <1>0, <1>1, <1>4, SettleDecides
<1>5. status[j] \in Live /\ {"queued", "pending"} \subseteq Live
      /\ {"skipped", "failure", "cancelled"} \subseteq Terminal
  BY <1>0, QueuedIsOpen DEF Live, Terminal
<1>6. CASE decision = "run" /\ j \in Callers /\ AdmitCaller(j)
  BY <1>3, <1>4, <1>5, <1>6 DEF AdmitCaller, Settles
<1>7. CASE decision = "run" /\ j \in Matrix /\ DeferMatrix(j)
  BY <1>3, <1>5, <1>7 DEF DeferMatrix
<1>8. CASE decision = "run" /\ StartJob(j)
  BY <1>3, <1>4, <1>5, <1>8 DEF StartJob, AdmitJob, EnqueueReady, Settles
<1>9. CASE decision = "skip" /\ Settles(j, "skipped")
  BY <1>4, <1>5, <1>9 DEF Settles
<1>10. CASE decision = "error" /\ Settles(j, "failure")
  BY <1>4, <1>5, <1>10 DEF Settles
<1> QED
  BY <1>2, <1>6, <1>7, <1>8, <1>9, <1>10 DEF SweepCandidate

\* No other step skips a job or makes a blocked one ready.
LEMMA OthersDecideNothing ==
  ASSUME VerdictInv, OnRunnerJobs, [Next]_vars, \A j \in Jobs : ~SweepCandidate(j)
  PROVE  \A k \in Jobs \ Nodes : /\ status[k] \in Live => status'[k] # "skipped"
                                 /\ queue[k] = "blocked" => queue'[k] # "ready"
<1> DEFINE Quiet == \A k \in Jobs \ Nodes : /\ status[k] \in Live => status'[k] # "skipped"
                                            /\ queue[k] = "blocked" => queue'[k] # "ready"
<1>0. /\ Typed /\ RowsFit /\ BuildsCurrent /\ "skipped" \notin Live
      /\ queue \in [Jobs -> QueueStates] /\ status \in [Jobs -> Statuses]
  BY DEF VerdictInv, Typed, RowsTyped, Live
<1>1. ASSUME UNCHANGED <<status, queue>> PROVE Quiet
  BY <1>0, <1>1
<1>2. ASSUME NEW j \in Jobs, RevisitParked(j) PROVE Quiet
  <2>1. CASE Put(j, "blocked", "queued", gate[j])
    BY <1>0, <2>1 DEF Put
  <2>2. CASE SettleNode(j, "failure")
    BY <1>0, <2>2, SettleDecides DEF Terminal
  <2> QED BY <1>1, <1>2, <2>1, <2>2 DEF RevisitParked, rows
<1>3. ASSUME NEW j \in Jobs, Claim(j) PROVE Quiet
  BY <1>0, <1>3 DEF Claim, Put
<1>4. ASSUME NEW j \in Jobs, GrantSlot(j) PROVE Quiet
  <2>1. queue[j] = "held"
    BY <1>0, <1>4 DEF GrantSlot, RowsFit, RowsAgree, Agree
  <2> QED
    BY <1>0, <1>4, <2>1 DEF GrantSlot, EnqueueReady, Put
<1>5. ASSUME NEW j \in Jobs, Displaced(j) \/ Starve(j) PROVE Quiet
  BY <1>0, <1>5 DEF Displaced, Starve
<1>6. CASE CancelRun
  BY <1>0, <1>6 DEF CancelRun
<1>7. ASSUME NEW j \in Jobs, NEW s \in {"success", "failure", "cancelled"}, Report(j, s)
      PROVE  Quiet
  <2>1. CASE UNCHANGED rows
    BY <1>1, <2>1 DEF rows
  <2>2. CASE ~UNCHANGED rows
    <3> DEFINE st == SettledStatus(j, s)
    <3>1. /\ status' = Folded(st)
          /\ queue' = [k \in Jobs |-> IF k \in Foldable(st) THEN "none" ELSE SettledQueue(j, s)[k]]
      BY <1>7, <2>2, ReportRows DEF Terminal
    <3>2. \A k \in Jobs : status[k] \in Live => st[k] # "skipped"
      BY <1>0 DEF SettledStatus, Effective
    <3>3. \A k \in Jobs : queue[k] = "blocked" => SettledQueue(j, s)[k] # "ready"
      BY DEF SettledQueue
    <3>4. Foldable(st) \subseteq Nodes
      BY DEF Foldable, Nodes
    <3> HIDE DEF st
    <3> QED BY <3>1, <3>2, <3>3, <3>4 DEF Folded
  <2> QED BY <2>1, <2>2
<1>8. ASSUME NEW n \in Jobs, ClaimExpansion(n) PROVE Quiet
  BY <1>0, <1>8 DEF ClaimExpansion
<1>9. CASE Restart
  BY <1>0, <1>9 DEF Restart
<1>10. ASSUME NEW b \in builds, NEW o, ApplyExpansion(b, o) PROVE Quiet
  <2> DEFINE n == b.node
  <2>0. n \in Jobs
    BY <1>0 DEF Typed, LoopsTyped
  <2>1. CASE UNCHANGED <<rows, sweep>>
    BY <1>1, <2>1 DEF rows
  <2>2. CASE Install(n)
    BY <1>0, <2>2 DEF Install
  <2>3. ASSUME NEW v \in {"skipped", "failure"}, ConcludeNode(n, v), b.generation = generation[n]
        PROVE  Quiet
    <3>1. n \in Nodes
      BY <1>0, <2>0, <2>3 DEF BuildsCurrent, RowsFit, RowsAgree, Agree
    <3> QED
      BY <1>0, <2>3, <3>1 DEF ConcludeNode, SettledStatus, SettledQueue, Effective
  <2> QED BY <1>10, <2>1, <2>2, <2>3, ApplyRows
<1>11. CASE ReleaseParked \/ EndDrain \/ DrainElsewhere \/ UNCHANGED vars
  BY <1>1, <1>11 DEF ReleaseParked, EndDrain, DrainElsewhere, vars, rows
<1> QED
  BY <1>2, <1>3, <1>4, <1>5, <1>6, <1>7, <1>8, <1>9, <1>10, <1>11
     DEF Next, CancelJobInner, FailJobset

\* Where no sweep and no build fails one of several legs tied by fail-fast,
\* every job of every graph is skipped or started as its condition says of
\* everything it depends on, directly or not, at that moment, although the
\* sweep decides on the graph it loaded before it settled other candidates
\* (promote_run, ancestor_statuses).
THEOREM ConditionsAreObeyed == ASSUME FailsAlone PROVE Spec => ConditionsDecide
<1>1. Init => VerdictInv /\ OnRunnerJobs /\ ConditionInv
  BY InitVerdict, InitMet DEF Init, OnRunnerJobs
<1>2. VerdictInv /\ OnRunnerJobs /\ ConditionInv /\ [Next]_vars
        => (VerdictInv /\ OnRunnerJobs /\ ConditionInv)'
  BY StepVerdict, OnRunnerStep, StepMet
<1>3. VerdictInv /\ OnRunnerJobs /\ ConditionInv /\ [Next]_vars => Decides
  BY SweepDecides, OthersDecideNothing DEF Decides
<1>4. VerdictInv /\ OnRunnerJobs /\ ConditionInv /\ [Next]_vars =>
        [\A j \in Jobs \ Nodes :
           LET decision == If[j][Aggregate({status[k] : k \in Behind(j)})]
           IN  Needs[j] # {} =>
                 /\ status[j] \in Live /\ status'[j] = "skipped" => decision = "skip"
                 /\ queue[j] = "blocked" /\ queue'[j] = "ready" => decision = "run"]_vars
  BY <1>3 DEF Decides
<1> QED
  BY <1>1, <1>2, <1>4, PTL DEF Spec, ConditionsDecide

-----------------------------------------------------------------------------
(* Runs that hang. *)

\* Needs and calls have no cycle: of any jobs some one waits for no other of
\* them (validate_job_plans, detect_needs_cycle).
Acyclic ==
  \A S \in SUBSET Jobs : S # {} =>
    \E j \in S : \A k \in S : ~WaitsFor(j, k) /\ (j \in Callers => k \notin Inner[j])

\* Every need names a job of the submit or, inside a subtree, one of the jobs
\* beside it (validate_job_plans, UnknownNeed).
NeedsNamed ==
  \A j \in Jobs : \A n \in Needs[j] :
    \/ \E k \in Submitted : n \in {k, Base[k]}
    \/ \E m \in Nodes : j \in Inner[m] /\ \E k \in Inner[m] : n \in {k, Base[k]}

\* Nobody waits for a job or a call in a concurrency group, as a need or for
\* its place among the legs of a base: what another run displaces from its
\* group is cancelled without a recount and without a sweep.
GatesLast ==
  \A g \in Gated : \A j \in Jobs :
    /\ ~WaitsFor(j, g)
    /\ j # g /\ Base[j] = Base[g] => Limit[Base[g]] >= Cardinality(Jobs)

\* With each of these jobs of a call come those of the call that it waits for.
\* A job that was failed when it was folded in waited for nobody.
NeedsWithin(c, A) ==
  \A a \in A \ Unhostable : \A k \in Inner[c] : WaitsFor(a, k) => k \in A

\* The job of a call that ends after all the others, and on a runner: it is
\* neither skipped nor failed by a sweep, in no group and no leg of a matrix,
\* and the others lie behind it.
LastJob(c, f) ==
  /\ f \in Inner[c] /\ Spare(f)
  /\ \A s \in Terminal : If[f][s] = "run"
  /\ \A k \in Jobs : Base[k] = Base[f] => k = f
  /\ \A A \in SUBSET Inner[c] : f \in A /\ NeedsWithin(c, A) => A = Inner[c]

\* Every call has such a job, and a base id of its own: only a completion folds
\* finished calls, and it recounts what names the call by its id.
CallsEnd ==
  \A c \in Callers : Base[c] = c /\ (Inner[c] # {} => \E f \in Jobs : LastJob(c, f))

\* Some leg of every matrix can be hosted, and every base has a place: a
\* matrix of legs that all fail as they are folded in is not summarised, and
\* under max-parallel 0 no job starts.
LegsStart ==
  /\ \A n \in Matrix : Inner[n] # {} => ~ (Inner[n] \subseteq Unhostable)
  /\ \A b \in Names : Limit[b] > 0

EndingGraph == FailsAlone /\ Acyclic /\ NeedsNamed /\ GatesLast /\ CallsEnd /\ LegsStart

\* The job needs a starved one, whose end nobody has told it.
LeftBehind(j) == \E k \in starved : WaitsFor(j, k)

\* The count of a queued job tells whether its needs have ended, but for the
\* end of a starved one.
CountsFit ==
  \A j \in Jobs : queue[j] # "none" =>
    /\ remaining[j] = 0 => NeedsMet(j)
    /\ NeedsMet(j) => remaining[j] = 0 \/ LeftBehind(j)

\* A run that is not concluded has a live leaf.
RunOpen == conclusion = "none" => ~ AllDone(status)

\* A call under way waits for its last job, or that was starved.
LastJobOpen ==
  \A c \in Callers, f \in Jobs :
    LastJob(c, f) /\ status[c] \in Live /\ queue[c] = "none" => status[f] \in Live \/ f \in starved

\* Live rows out of the queue are those of expanded nodes.
OutOfQueue ==
  \A j \in Jobs : status[j] \in Live /\ queue[j] = "none" =>
    j \in Nodes /\ Inner[j] # {} /\ \A k \in Inner[j] : status[k] # "absent"

\* A job in progress is a runner's.
ClaimedRuns ==
  \A j \in Jobs : status[j] = "in_progress" /\ j \notin Callers => queue[j] = "claimed"

\* The jobs of the submit have rows, and those of a node come together.
RowsThere ==
  /\ \A j \in Submitted : status[j] # "absent"
  /\ \A n \in Nodes : \A j, k \in Inner[n] : status[j] = "absent" => status[k] = "absent"

RowsMove == CountsFit /\ RunOpen /\ LastJobOpen /\ OutOfQueue /\ ClaimedRuns /\ RowsThere

\* A pass that has settled nothing yet sees all verdicts.
GraphFresh ==
  sweep.todo # {} /\ ~sweep.settled =>
    \A k \in Jobs : status[k] \in Terminal => sweep.graph[k] \in Terminal

\* A job whose needs have ended and that no sweep has taken on.
Stalled(j) == queue[j] = "blocked" /\ remaining[j] = 0

\* The places of the job's base are taken.
Crowded(j) ==
  Limit[Base[j]] < Cardinality(Jobs) /\ \E k \in Jobs : Base[k] = Base[j] /\ Busy(k)

\* A leg of the job's base was starved, and gave its place up unnoticed.
Freed(j) == \E k \in starved : Base[k] = Base[j]

\* What a pass leaves behind, if it settles nothing, waits for a place.
PassedOver ==
  /\ sweep.todo = {} => ~sweep.settled
  /\ sweep.parked = {} /\ ~sweep.settled =>
       \A j \in Jobs \ sweep.todo : Stalled(j) => Crowded(j) \/ Freed(j)

HangInv == RowsMove /\ GraphFresh /\ PassedOver

\* No need is open when all have ended.
LEMMA CountZero ==
  ASSUME NEW st, NEW j \in Jobs
  PROVE  OpenNeeds(st, j) = 0 <=> MetIn(st, j)
<1> DEFINE Open == {n \in Needs[j] : \E k \in Matching(st, n) : st[k] \notin Terminal}
<1>1. IsFiniteSet(Open)
  <2>1. Open \in SUBSET Names
    BY PromotionAssumption
  <2> QED BY <2>1, NamesFinite, FS_Subset
<1>2. Open = {} <=> MetIn(st, j)
  BY DEF MetIn, Direct
<1>3. Cardinality(Open) = 0 <=> Open = {}
  <2> HIDE DEF Open
  <2> QED BY <1>1, FS_EmptySet
<1> QED
  BY <1>2, <1>3 DEF OpenNeeds

\* Whether needs have ended depends on the rows that the job names.
LEMMA EndsSame ==
  ASSUME NEW st, NEW tt, \A k \in Jobs : st[k] = "absent" <=> tt[k] = "absent", NEW j \in Jobs,
         \A k \in Jobs : WaitsFor(j, k) => (st[k] \in Terminal <=> tt[k] \in Terminal)
  PROVE  MetIn(st, j) <=> MetIn(tt, j)
<1>1. Direct(st, j) = Direct(tt, j)
  BY DirectSame
<1>2. \A k \in Direct(st, j) : k \in Jobs /\ WaitsFor(j, k)
  BY DEF Direct, Matching, Leaves, WaitsFor
<1> QED
  BY <1>1, <1>2 DEF MetIn

\* A job with a row has the rows that it names.
LEMMA NeedsPresent ==
  ASSUME NeedsNamed, RowsThere, NEW j \in Jobs, status[j] # "absent", NEW n \in Needs[j]
  PROVE  Matching(status, n) # {}
<1>1. ASSUME NEW k \in Submitted, n \in {k, Base[k]}
      PROVE  Matching(status, n) # {}
  <2>1. k \in Jobs /\ status[k] # "absent"
    BY PromotionAssumption DEF RowsThere
  <2>2. CASE k \in Leaves(status)
    BY <1>1, <2>2 DEF Matching
  <2>3. CASE k \notin Leaves(status)
    <3>1. PICK i \in Inner[k] : k \in Matrix /\ status[i] # "absent"
      BY <2>1, <2>3 DEF Leaves
    <3>2. i \in Jobs /\ i \notin Nodes /\ Base[i] = k /\ Base[k] = k
      BY <3>1, PromotionAssumption DEF Nodes
    <3> QED
      BY <1>1, <3>1, <3>2 DEF Matching, Leaves, Nodes
  <2> QED BY <2>2, <2>3
<1>2. ASSUME NEW m \in Nodes, j \in Inner[m], NEW k \in Inner[m], n \in {k, Base[k]}
      PROVE  Matching(status, n) # {}
  <2>1. k \in Jobs /\ k \notin Nodes /\ status[k] # "absent"
    BY <1>2, PromotionAssumption DEF RowsThere, Nodes
  <2> QED
    BY <1>2, <2>1 DEF Matching, Leaves, Nodes
<1> QED
  BY <1>1, <1>2 DEF NeedsNamed

\* A step that writes no row.
LEMMA UnchangedMoves == ASSUME UNCHANGED <<rows, starved>>, RowsMove PROVE RowsMove'
BY DEF rows, RowsMove, CountsFit, LeftBehind, NeedsMet, RunOpen, LastJobOpen, OutOfQueue,
       ClaimedRuns, RowsThere

\* One queued job gets new columns.
LEMMA PutMoves ==
  ASSUME Typed, RowsFit, RowsMove, NEW j \in Jobs, NEW q, NEW s \in Live, NEW g, Put(j, q, s, g),
         queue[j] # "none", q # "none", UNCHANGED starved,
         s = "in_progress" /\ j \notin Callers => q = "claimed"
  PROVE  RowsMove'
<1>0. /\ status \in [Jobs -> Statuses] /\ queue \in [Jobs -> QueueStates]
      /\ status[j] \in Live /\ status[j] # "absent" /\ status[j] \notin Terminal
      /\ s # "absent" /\ s \notin Terminal
      /\ Callers \subseteq Jobs /\ Nodes \subseteq Jobs /\ Submitted \subseteq Jobs
      /\ \A n \in Jobs : Inner[n] \subseteq Jobs
  BY QueuedIsOpen, PromotionAssumption DEF Typed, RowsTyped, Live, Terminal, Nodes
<1>1. \A k \in Jobs : /\ status'[k] = "absent" <=> status[k] = "absent"
                      /\ status'[k] \in Terminal <=> status[k] \in Terminal
                      /\ status'[k] \in Live <=> status[k] \in Live
                      /\ queue'[k] = "none" <=> queue[k] = "none"
                      /\ k # j => queue'[k] = queue[k] /\ status'[k] = status[k]
  BY <1>0 DEF Put
<1>2. CountsFit'
  <2> SUFFICES ASSUME NEW k \in Jobs, queue'[k] # "none"
               PROVE  /\ remaining'[k] = 0 => MetIn(status', k)
                      /\ MetIn(status', k) => remaining'[k] = 0 \/ LeftBehind(k)'
    BY DEF CountsFit, NeedsMet, MetIn
  <2>1. MetIn(status', k) <=> MetIn(status, k)
    BY <1>1, EndsSame
  <2>2. LeftBehind(k)' <=> LeftBehind(k)
    BY DEF LeftBehind
  <2> QED
    BY <1>1, <2>1, <2>2 DEF RowsMove, CountsFit, NeedsMet, MetIn, Put
<1>3. RunOpen'
  <2>1. Leaves(status') = Leaves(status)
    BY <1>0, <1>1, PromotionAssumption DEF Leaves
  <2> QED
    BY <1>1, <2>1 DEF RowsMove, RunOpen, AllDone, Put, Leaves
<1>4. LastJobOpen'
  BY <1>0, <1>1 DEF RowsMove, LastJobOpen
<1>5. OutOfQueue'
  BY <1>0, <1>1 DEF RowsMove, OutOfQueue
<1>6. ClaimedRuns'
  BY <1>0 DEF RowsMove, ClaimedRuns, Put
<1>7. RowsThere'
  BY <1>0, <1>1 DEF RowsMove, RowsThere
<1> QED
  BY <1>2, <1>3, <1>4, <1>5, <1>6, <1>7 DEF RowsMove

\* Nodes move between waiting for a loop and being built.
LEMMA LeaseMoves ==
  ASSUME RowsMove, UNCHANGED <<status, remaining, conclusion, starved>>,
         \A k \in Jobs : \/ queue'[k] = queue[k]
                         \/ /\ queue[k] \in {"pending_expansion", "expanding"}
                            /\ queue'[k] \in {"pending_expansion", "expanding"}
  PROVE  RowsMove'
<1>0. Callers \subseteq Jobs
  BY PromotionAssumption
<1>1. CountsFit'
  BY DEF RowsMove, CountsFit, LeftBehind, NeedsMet
<1>2. RunOpen' /\ RowsThere'
  BY DEF RowsMove, RunOpen, RowsThere
<1>3. LastJobOpen'
  BY <1>0 DEF RowsMove, LastJobOpen
<1>4. OutOfQueue' /\ ClaimedRuns'
  BY DEF RowsMove, OutOfQueue, ClaimedRuns
<1> QED
  BY <1>1, <1>2, <1>3, <1>4 DEF RowsMove

\* Rows are closed, dependents recounted, and the end of a call's last job
\* ends the call, unless the job was starved.
LEMMA ClosingMoves ==
  ASSUME RowsFit, RowsMove, Closing, CountsFit', RunOpen', starved \subseteq starved',
         \A c \in Callers, f \in Jobs :
           LastJob(c, f) /\ status[f] \in Live /\ status'[f] \in Terminal =>
             status'[c] \notin Live \/ f \in starved'
  PROVE  RowsMove'
<1>0. /\ Live \cap Terminal = {} /\ "absent" \notin Live \cup Terminal /\ "in_progress" \in Live
      /\ Callers \subseteq Jobs /\ Nodes \subseteq Jobs /\ Submitted \subseteq Jobs
      /\ \A n \in Jobs : Inner[n] \subseteq Jobs
  BY PromotionAssumption DEF Live, Terminal, Nodes
<1>1. \A k \in Jobs : /\ status'[k] = "absent" <=> status[k] = "absent"
                      /\ status'[k] \in Live => status[k] = status'[k] /\ queue[k] = queue'[k]
  BY <1>0 DEF Closing
<1>2. LastJobOpen'
  <2> SUFFICES ASSUME NEW c \in Callers, NEW f \in Jobs, LastJob(c, f),
                      status'[c] \in Live, queue'[c] = "none"
               PROVE  status'[f] \in Live \/ f \in starved'
    BY DEF LastJobOpen
  <2>1. status[f] \in Live \/ f \in starved
    BY <1>0, <1>1 DEF RowsMove, LastJobOpen
  <2> QED
    BY <2>1 DEF Closing
<1>3. OutOfQueue'
  BY <1>0, <1>1 DEF RowsMove, OutOfQueue
<1>4. ClaimedRuns'
  BY <1>0, <1>1 DEF RowsMove, ClaimedRuns
<1>5. RowsThere'
  BY <1>0, <1>1 DEF RowsMove, RowsThere
<1> QED
  BY <1>2, <1>3, <1>4, <1>5 DEF RowsMove

\* A conclusion is written as soon as no leaf is live.
LEMMA ConcludedOpen ==
  ASSUME NEW st, conclusion \in Terminal \cup {"none"}, Concluded(st) = "none"
  PROVE  ~ AllDone(st)
BY SummaryTyped DEF Concluded, Terminal

\* Neither fail-fast nor the folding of a call ends the last job of a call.
LEMMA LastJobAlone ==
  ASSUME NEW c \in Callers, NEW f \in Jobs, LastJob(c, f), NEW j \in Jobs, NEW r
  PROVE  f \notin FailedFast(j, r) /\ f \notin Nodes /\ f \notin Guarded /\ f \notin Gated
BY DEF LastJob, Spare, FailedFast

\* Once the last job of a call has ended, so have all jobs of the call.
LEMMA LastJobEnds ==
  ASSUME NEW st, VerdictsMet(st), NEW c \in Callers, NEW f \in Jobs, LastJob(c, f),
         st[f] \in Terminal, \A k \in Inner[c] : st[k] # "absent"
  PROVE  \A k \in Inner[c] : st[k] \in Terminal
<1> DEFINE A == {k \in Inner[c] : st[k] \in Terminal}
<1>0. c \in Nodes /\ c \in Jobs /\ Inner[c] \subseteq Jobs /\ Inner[c] \cap Nodes = {}
  BY PromotionAssumption DEF Nodes
<1>1. f \in A /\ A \in SUBSET Inner[c]
  BY DEF LastJob
<1>2. ASSUME NEW a \in A \ Unhostable, NEW k \in Inner[c], WaitsFor(a, k)
      PROVE  k \in A
  <2>1. a \in Jobs /\ MetIn(st, a)
    BY <1>0, <1>2 DEF VerdictsMet, FailedAtBirth
  <2>2. k \in Leaves(st)
    BY <1>0 DEF Leaves, Nodes
  <2>3. k \in Direct(st, a)
    BY <1>2, <2>2 DEF Direct, Matching, WaitsFor
  <2> QED
    BY <2>1, <2>3 DEF MetIn
<1>3. A = Inner[c]
  <2> HIDE DEF A
  <2> QED BY <1>1, <1>2 DEF LastJob, NeedsWithin
<1> QED
  BY <1>3

\* settle_node recounts what waits for the rows it closed.
LEMMA SettleCounts ==
  ASSUME Typed, RowsFit, CountsFit, NEW j \in Jobs, NEW r \in Terminal, NEW k \in Jobs,
         SettledQueue(j, r)[k] # "none"
  PROVE  /\ SettledRemaining(j, r)[k] = 0 => MetIn(SettledStatus(j, r), k)
         /\ MetIn(SettledStatus(j, r), k) => SettledRemaining(j, r)[k] = 0 \/ LeftBehind(k)
<1> DEFINE st    == SettledStatus(j, r)
           names == {j, Base[j]} \cup FailedFast(j, r)
<1>1. CASE Needs[k] \cap names # {}
  <2>1. SettledRemaining(j, r)[k] = OpenNeeds(st, k)
    BY <1>1 DEF SettledRemaining, RefreshedFor
  <2> QED
    BY <2>1, CountZero
<1>2. CASE Needs[k] \cap names = {}
  <2>1. SettledRemaining(j, r)[k] = remaining[k]
    BY <1>2 DEF SettledRemaining, RefreshedFor
  <2>2. queue[k] # "none"
    BY DEF SettledQueue
  <2>3. \A i \in Jobs : status[i] = "absent" <=> st[i] = "absent"
    BY EffectiveTyped DEF SettledStatus, FailedFast, Live, Terminal
  <2>4. ASSUME NEW i \in Jobs, WaitsFor(k, i)
        PROVE  status[i] \in Terminal <=> st[i] \in Terminal
    <3>1. i # j /\ i \notin FailedFast(j, r)
      BY <1>2, <2>4 DEF WaitsFor, FailedFast
    <3> QED
      BY <3>1 DEF SettledStatus
  <2>5. MetIn(status, k) <=> MetIn(st, k)
    <3> HIDE DEF st
    <3> QED BY <2>3, <2>4, EndsSame
  <2> QED
    BY <2>1, <2>2, <2>5 DEF CountsFit, NeedsMet, MetIn
<1> QED
  BY <1>1, <1>2

\* A settlement that spares the last jobs of calls.
LEMMA SettleMoves ==
  ASSUME Typed, RowsFit, RowsMove, NEW j \in Jobs, NEW r \in Terminal, SettleNode(j, r),
         UNCHANGED starved, \A c \in Callers : ~LastJob(c, j)
  PROVE  RowsMove'
<1>1. CASE UNCHANGED rows
  BY <1>1, UnchangedMoves
<1>2. CASE ~UNCHANGED rows
  <2>1. /\ status' = SettledStatus(j, r) /\ queue' = SettledQueue(j, r)
        /\ remaining' = SettledRemaining(j, r) /\ conclusion' = Concluded(status')
    BY <1>2 DEF SettleNode
  <2>2. CountsFit'
    BY <2>1, SettleCounts DEF RowsMove, CountsFit, NeedsMet, MetIn, LeftBehind
  <2>3. RunOpen'
    BY <2>1, ConcludedOpen DEF RunOpen, Typed, RowsTyped
  <2>4. ASSUME NEW c \in Callers, NEW f \in Jobs, LastJob(c, f)
        PROVE  status'[f] = status[f]
    BY <2>1, <2>4, LastJobAlone DEF SettledStatus
  <2> QED
    BY <2>2, <2>3, <2>4, SettleNodeCloses, ClosingMoves DEF Live, Terminal
<1> QED
  BY <1>1, <1>2

\* A completion: the end of a call's last job folds the call, and the jobs
\* that name the call are recounted once more.
LEMMA ReportMoves ==
  ASSUME CallsEnd, Typed, RowsFit, RowsMove, OnRunnerJobs, VerdictsMet(status)',
         NEW j \in Jobs, NEW r \in Terminal, Report(j, r)
  PROVE  RowsMove'
<1>0. UNCHANGED starved
  BY DEF Report
<1>1. CASE UNCHANGED rows
  BY <1>0, <1>1, UnchangedMoves
<1>2. CASE ~UNCHANGED rows
  <2> DEFINE st == SettledStatus(j, r)
             q  == SettledQueue(j, r)
  <2>1. /\ status' = Folded(st)
        /\ queue' = [k \in Jobs |-> IF k \in Foldable(st) THEN "none" ELSE q[k]]
        /\ remaining' = RefreshedFor(Foldable(st), Folded(st), queue', SettledRemaining(j, r))
        /\ conclusion' = Concluded(status')
    BY <1>2, ReportRows
  <2>2. Closing
    BY ReportCloses
  <2>3. /\ Foldable(st) \subseteq Callers /\ Callers \subseteq Jobs
        /\ \A c \in Foldable(st) : st[c] \in Live /\ status'[c] \in Terminal
        /\ \A k \in Jobs \ Foldable(st) : status'[k] = st[k]
    <3>1. Foldable(st) \subseteq Callers /\ Callers \subseteq Jobs
          /\ \A c \in Foldable(st) : st[c] \in Live
      BY PromotionAssumption DEF Foldable
    <3> HIDE DEF st
    <3> QED BY <2>1, <3>1, AggregateTyped DEF Folded
  <2>4. \A k \in Jobs : st[k] = "absent" <=> status'[k] = "absent"
    <3> HIDE DEF st
    <3> QED BY <2>3 DEF Live, Terminal
  <2>5. CountsFit'
    <3> SUFFICES ASSUME NEW k \in Jobs, queue'[k] # "none"
                 PROVE  /\ remaining'[k] = 0 => MetIn(status', k)
                        /\ MetIn(status', k) => remaining'[k] = 0 \/ LeftBehind(k)'
      BY DEF CountsFit, NeedsMet, MetIn
    <3>0. q[k] # "none" /\ k \notin Foldable(st) /\ (LeftBehind(k) => LeftBehind(k)')
      BY <1>0, <2>1 DEF LeftBehind
    <3>1. CASE Needs[k] \cap Foldable(st) # {}
      <4>1. remaining'[k] = OpenNeeds(status', k)
        <5> HIDE DEF st
        <5> QED BY <2>1, <3>1 DEF RefreshedFor
      <4> QED
        BY <4>1, CountZero
    <3>2. CASE Needs[k] \cap Foldable(st) = {}
      <4>1. remaining'[k] = SettledRemaining(j, r)[k]
        <5> HIDE DEF st
        <5> QED BY <2>1, <3>2 DEF RefreshedFor
      <4>2. /\ SettledRemaining(j, r)[k] = 0 => MetIn(st, k)
            /\ MetIn(st, k) => SettledRemaining(j, r)[k] = 0 \/ LeftBehind(k)
        BY <3>0, SettleCounts DEF RowsMove
      <4>3. ASSUME NEW i \in Jobs, WaitsFor(k, i)
            PROVE  st[i] \in Terminal <=> status'[i] \in Terminal
        <5>1. i \notin Foldable(st)
          <6> HIDE DEF st
          <6> QED BY <2>3, <3>2, <4>3 DEF WaitsFor, CallsEnd
        <5> HIDE DEF st
        <5> QED BY <2>3, <5>1
      <4>4. MetIn(st, k) <=> MetIn(status', k)
        <5> HIDE DEF st
        <5> QED BY <2>4, <4>3, EndsSame
      <4> QED
        BY <3>0, <4>1, <4>2, <4>4
    <3> QED BY <3>1, <3>2
  <2>6. RunOpen'
    BY <2>1, ConcludedOpen DEF RunOpen, Typed, RowsTyped
  <2>7. ASSUME NEW c \in Callers, NEW f \in Jobs, LastJob(c, f),
               status[f] \in Live, status'[f] \in Terminal, status'[c] \in Live
        PROVE  FALSE
    <3>0. /\ c \in Jobs /\ c \in Nodes /\ Inner[c] \subseteq Jobs /\ Inner[c] \cap Nodes = {}
          /\ f \in Inner[c] /\ Live \cap Terminal = {}
      BY <2>7, PromotionAssumption DEF Nodes, LastJob, Live, Terminal
    <3>1. \A k \in Inner[c] : status'[k] # "absent"
      BY <2>2, <2>7, <3>0, ClosingFits DEF RowsMove, RowsThere, Live
    <3>2. \A k \in Inner[c] : status'[k] \in Terminal
      BY <2>7, <3>1, LastJobEnds DEF VerdictsMet, MetIn, FailedAtBirth
    <3>3. \A k \in Inner[c] : st[k] \in Terminal
      <4> HIDE DEF st
      <4> QED BY <2>3, <3>0, <3>2 DEF Nodes
    <3>4. c \notin Foldable(st) /\ st[c] \in Live
      <4> HIDE DEF st
      <4> QED BY <2>3, <2>7, <3>0
    <3> HIDE DEF st
    <3> QED
      BY <3>0, <3>3, <3>4 DEF Foldable
  <2> QED
    BY <1>0, <2>2, <2>5, <2>6, <2>7, ClosingMoves
<1> QED
  BY <1>1, <1>2

\* A node whose build failed or gave nothing.
LEMMA ConcludeMoves ==
  ASSUME Typed, RowsFit, RowsMove, NEW n \in Jobs, n \in Nodes, NEW v \in {"skipped", "failure"},
         ConcludeNode(n, v), UNCHANGED starved
  PROVE  RowsMove'
<1>1. CountsFit'
  <2>1. \A k \in Jobs : queue'[k] # "none" => remaining'[k] = OpenNeeds(status', k)
    BY DEF ConcludeNode, Refreshed
  <2> QED
    BY <2>1, CountZero DEF CountsFit, NeedsMet, MetIn
<1>2. RunOpen'
  BY ConcludedOpen DEF RunOpen, Typed, RowsTyped, ConcludeNode
<1>3. ASSUME NEW c \in Callers, NEW f \in Jobs, LastJob(c, f)
      PROVE  status'[f] = status[f]
  BY <1>3, LastJobAlone DEF ConcludeNode, SettledStatus
<1> QED
  BY <1>1, <1>2, <1>3, ConcludeCloses, ClosingMoves DEF Live, Terminal

\* A cancelled run, and a job or call that another run displaces.
LEMMA CancelMoves ==
  ASSUME GatesLast, Typed, RowsFit, RowsMove,
         CancelRun \/ \E g \in Jobs : Displaced(g)
  PROVE  RowsMove'
<1>0. /\ Closing /\ status \in [Jobs -> Statuses] /\ queue \in [Jobs -> QueueStates]
      /\ conclusion \in Terminal \cup {"none"} /\ Live \cap Terminal = {} /\ Callers \subseteq Jobs
      /\ \A k \in Jobs : queue[k] # "none" => status[k] \in Live
  BY CancelCloses, PromotionAssumption
     DEF Typed, RowsTyped, Live, Terminal, RowsFit, RowsAgree, Agree
<1>1. CASE CancelRun
  <2>1. /\ \A k \in Jobs : queue'[k] = "none" /\ status'[k] \notin Live
        /\ starved' = starved
    BY <1>0, <1>1 DEF CancelRun, Live, loops
  <2>2. CountsFit' /\ RunOpen'
    BY <1>1, <2>1 DEF CountsFit, RunOpen, CancelRun
  <2> QED
    BY <1>0, <2>1, <2>2, ClosingMoves
<1>2. ASSUME NEW g \in Jobs, Displaced(g) PROVE RowsMove'
  <2>0. g \in Gated /\ \A k \in Jobs \ {g} : status'[k] = status[k] /\ queue'[k] = queue[k]
    BY <1>0, <1>2 DEF Displaced, RowsFit, RowsAgree, Agree
  <2>1. CountsFit'
    <3> SUFFICES ASSUME NEW k \in Jobs, queue'[k] # "none"
                 PROVE  /\ remaining'[k] = 0 => MetIn(status', k)
                        /\ MetIn(status', k) => remaining'[k] = 0 \/ LeftBehind(k)'
      BY DEF CountsFit, NeedsMet, MetIn
    <3>1. /\ k # g /\ queue[k] # "none" /\ remaining' = remaining
          /\ LeftBehind(k)' <=> LeftBehind(k)
      BY <1>0, <1>2 DEF Displaced, LeftBehind, loops
    <3>2. \A i \in Jobs : WaitsFor(k, i) => (status[i] \in Terminal <=> status'[i] \in Terminal)
      BY <2>0 DEF GatesLast
    <3>3. \A i \in Jobs : status[i] = "absent" <=> status'[i] = "absent"
      BY <1>0, ClosingFits
    <3>4. MetIn(status, k) <=> MetIn(status', k)
      BY <3>2, <3>3, EndsSame
    <3> QED
      BY <3>1, <3>4 DEF RowsMove, CountsFit, NeedsMet, MetIn
  <2>2. RunOpen'
    BY <1>0, <1>2, ConcludedOpen DEF Displaced, RunOpen
  <2>3. ASSUME NEW c \in Callers, NEW f \in Jobs, LastJob(c, f)
        PROVE  status'[f] = status[f]
    BY <2>0, <2>3 DEF LastJob, Spare
  <2>4. starved' = starved
    BY <1>2 DEF Displaced, loops
  <2> QED
    BY <1>0, <2>1, <2>2, <2>3, <2>4, ClosingMoves
<1> QED
  BY <1>1, <1>2

\* A starved job: whoever needs it, waits for its place or called it was told
\* nothing.
LEMMA StarveMoves ==
  ASSUME Typed, RowsFit, RowsMove, Stands, NEW g \in Jobs, Starve(g)
  PROVE  RowsMove'
<1>0. /\ Closing /\ status \in [Jobs -> Statuses] /\ queue \in [Jobs -> QueueStates]
      /\ conclusion \in Terminal \cup {"none"} /\ Live \cap Terminal = {}
      /\ \A k \in Jobs \ {g} : status'[k] = status[k] /\ queue'[k] = queue[k]
      /\ queue'[g] = "none" /\ remaining' = remaining /\ starved' = starved \cup {g}
  BY CancelCloses DEF Typed, RowsTyped, Live, Terminal, Starve
<1>1. CountsFit'
  <2> SUFFICES ASSUME NEW k \in Jobs, queue'[k] # "none"
               PROVE  /\ remaining'[k] = 0 => NeedsMet(k)'
                      /\ NeedsMet(k)' => remaining'[k] = 0 \/ LeftBehind(k)'
    BY DEF CountsFit
  <2>1. k # g /\ queue[k] # "none" /\ NoNewRows
    BY <1>0, ClosingOrdinary
  <2>2. NeedsMet(k) => NeedsMet(k)'
    BY <2>1, MetStays
  <2>3. CASE WaitsFor(k, g)
    BY <1>0, <2>1, <2>2, <2>3 DEF RowsMove, CountsFit, LeftBehind
  <2>4. CASE ~WaitsFor(k, g)
    <3>1. \A i \in Jobs : WaitsFor(k, i) => (status[i] \in Terminal <=> status'[i] \in Terminal)
      BY <1>0, <2>4
    <3>2. \A i \in Jobs : status[i] = "absent" <=> status'[i] = "absent"
      BY <1>0, ClosingFits
    <3>3. NeedsMet(k) <=> NeedsMet(k)'
      BY <3>1, <3>2, EndsSame DEF NeedsMet, MetIn
    <3>4. LeftBehind(k) => LeftBehind(k)'
      BY <1>0 DEF LeftBehind
    <3> QED
      BY <1>0, <2>1, <3>3, <3>4 DEF RowsMove, CountsFit
  <2> QED BY <2>3, <2>4
<1>2. RunOpen'
  BY <1>0, ConcludedOpen DEF Starve, RunOpen
<1>3. ASSUME NEW f \in Jobs, status[f] \in Live, status'[f] \in Terminal
      PROVE  f \in starved'
  BY <1>0, <1>3
<1> QED
  BY <1>0, <1>1, <1>2, <1>3, ClosingMoves

\* A subtree that is folded in.
LEMMA InstallMoves ==
  ASSUME LegsStart, Typed, RowsFit, RowsMove, NEW n \in Jobs, queue[n] = "expanding",
         Inner[n] # {}, Install(n), UNCHANGED starved
  PROVE  RowsMove'
<1>0. /\ status \in [Jobs -> Statuses] /\ queue \in [Jobs -> QueueStates]
      /\ "absent" \notin Live \cup Terminal /\ {"pending", "in_progress"} \subseteq Live
      /\ Live \cap Terminal = {} /\ "failure" \in Terminal
      /\ Callers \subseteq Nodes /\ Nodes \subseteq Jobs /\ Submitted \subseteq Jobs
      /\ \A m \in Jobs : Inner[m] \subseteq Jobs
      /\ \A m \in Nodes : Inner[m] \cap Nodes = {}
      /\ \A m \in Nodes : m # n => Inner[m] \cap Inner[n] = {}
      /\ n \in Nodes /\ status[n] \in Live
  BY QueuedIsOpen, PromotionAssumption
     DEF Typed, RowsTyped, Live, Terminal, Nodes, RowsFit, RowsAgree, Agree
<1>1. /\ \A k \in Inner[n] : status[k] = "absent" /\ k # n /\ k \notin Submitted
      /\ n \notin Inner[n]
  BY <1>0, PromotionAssumption DEF RowsFit, NotYetExpanded
<1>2. \A k \in Inner[n] : IF k \in Unhostable THEN status'[k] = "failure" /\ queue'[k] = queue[k]
                          ELSE status'[k] = "pending" /\ queue'[k] = "blocked"
  BY <1>0, <1>1 DEF Install
<1>3. /\ queue'[n] = "none"
      /\ status'[n] = IF n \in Callers THEN "in_progress" ELSE status[n]
  BY <1>0, <1>1 DEF Install
<1>4. \A k \in Jobs \ Inner[n] : k # n => status'[k] = status[k] /\ queue'[k] = queue[k]
  BY DEF Install
<1>5. CountsFit'
  <2>1. \A k \in Jobs : queue'[k] # "none" => remaining'[k] = OpenNeeds(status', k)
    BY DEF Install, Refreshed
  <2> QED
    BY <2>1, CountZero DEF CountsFit, NeedsMet, MetIn
<1>6. RunOpen'
  <2>1. CASE n \in Callers
    <3>1. n \in Leaves(status') /\ status'[n] \notin Terminal
      BY <1>0, <1>3, <2>1, PromotionAssumption DEF Leaves
    <3> QED BY <3>1 DEF RunOpen, AllDone
  <2>2. CASE n \in Matrix
    <3>1. PICK k \in Inner[n] : k \notin Unhostable
      BY <2>2 DEF LegsStart
    <3>2. k \in Leaves(status') /\ status'[k] \notin Terminal
      BY <1>0, <1>2, <3>1 DEF Leaves, Nodes
    <3> QED BY <3>2 DEF RunOpen, AllDone
  <2> QED BY <1>0, <2>1, <2>2 DEF Nodes
<1>7. LastJobOpen'
  <2> SUFFICES ASSUME NEW c \in Callers, NEW f \in Jobs, LastJob(c, f),
                      status'[c] \in Live, queue'[c] = "none"
               PROVE  status'[f] \in Live \/ f \in starved'
    BY DEF LastJobOpen
  <2>0. f \in Inner[c] /\ f \notin Unhostable /\ f \notin Nodes /\ c \in Nodes /\ c \notin Inner[n]
    BY <1>0, PromotionAssumption DEF LastJob, Spare
  <2>1. CASE c = n
    BY <1>0, <1>2, <2>0, <2>1
  <2>2. CASE c # n
    BY <1>0, <1>4, <2>0, <2>2 DEF RowsMove, LastJobOpen
  <2> QED BY <2>1, <2>2
<1>8. \A k \in Jobs : status[k] # "absent" => status'[k] # "absent"
  BY <1>0, <1>1, <1>3, <1>4
<1>9. OutOfQueue'
  <2> SUFFICES ASSUME NEW j \in Jobs, status'[j] \in Live, queue'[j] = "none"
               PROVE  j \in Nodes /\ Inner[j] # {} /\ \A k \in Inner[j] : status'[k] # "absent"
    BY DEF OutOfQueue
  <2>1. CASE j = n
    BY <1>0, <1>2, <2>1
  <2>2. CASE j # n
    BY <1>0, <1>2, <1>4, <1>8, <2>2 DEF RowsMove, OutOfQueue
  <2> QED BY <2>1, <2>2
<1>10. ClaimedRuns'
  <2> SUFFICES ASSUME NEW j \in Jobs, status'[j] = "in_progress", j \notin Callers
               PROVE  queue'[j] = "claimed"
    BY DEF ClaimedRuns
  <2>1. j # n
    BY <1>3 DEF RowsMove, ClaimedRuns
  <2> QED
    BY <1>2, <1>4, <2>1 DEF RowsMove, ClaimedRuns
<1>11. RowsThere'
  <2>1. ASSUME NEW m \in Nodes, NEW j \in Inner[m], NEW k \in Inner[m], status'[j] = "absent"
        PROVE  status'[k] = "absent"
    <3>1. m # n
      BY <1>0, <1>2, <2>1
    <3>2. j \in Jobs \ Inner[n] /\ k \in Jobs \ Inner[n] /\ j # n /\ k # n
      BY <1>0, <3>1
    <3> QED
      BY <1>4, <2>1, <3>2 DEF RowsMove, RowsThere
  <2> QED
    BY <1>0, <1>8, <2>1 DEF RowsMove, RowsThere
<1> QED
  BY <1>5, <1>6, <1>7, <1>9, <1>10, <1>11 DEF RowsMove

\* A new pass sees all verdicts and takes on all that is stalled.
LEMMA PassPasses ==
  ASSUME sweep' = Pass(status', queue', remaining')
  PROVE  GraphFresh' /\ PassedOver'
BY DEF Pass, Candidates, GraphFresh, PassedOver, Stalled

\* What was passed over, and no sweep has begun since.
LEMMA IdlePasses ==
  ASSUME Idle, UNCHANGED sweep, PassedOver, starved \subseteq starved',
         \A k \in Jobs :
           Stalled(k)' => Stalled(k) /\ (Crowded(k) => Crowded(k)' \/ Freed(k)')
  PROVE  GraphFresh' /\ PassedOver'
<1>1. \A k \in Jobs : Freed(k) => Freed(k)'
  BY DEF Freed
<1> QED
  BY <1>1 DEF Idle, GraphFresh, PassedOver

\* A pass goes on after a candidate that it left or let through.
LEMMA AdvancePasses ==
  ASSUME Typed, GraphFresh, PassedOver, NEW j \in Jobs, NEW settles \in BOOLEAN,
         Advance(j, settles), j \in sweep.todo, sweep.parked = {}, UNCHANGED starved,
         ~settles /\ ~sweep.settled =>
           /\ \A k \in Jobs : status'[k] \in Terminal => status[k] \in Terminal
           /\ \A k \in Jobs \ {j} : Stalled(k)' => Stalled(k) /\ (Crowded(k) => Crowded(k)')
           /\ Stalled(j)' => Crowded(j)'
  PROVE  GraphFresh' /\ PassedOver'
<1>1. CASE sweep' = Pass(status', queue', remaining')
  BY <1>1, PassPasses
<1>2. CASE /\ sweep' = [sweep EXCEPT !.todo = sweep.todo \ {j},
                                     !.settled = sweep.settled \/ settles]
           /\ sweep.todo \ {j} # {} \/ ~ (sweep.settled \/ settles)
  <2>1. /\ sweep'.graph = sweep.graph /\ sweep'.parked = {} /\ sweep'.todo = sweep.todo \ {j}
        /\ sweep'.settled = (sweep.settled \/ settles)
    BY <1>2 DEF Typed, SweepTyped
  <2>2. GraphFresh'
    BY <2>1 DEF GraphFresh
  <2>3. sweep'.todo = {} => ~sweep'.settled
    BY <1>2, <2>1
  <2>4. ASSUME ~sweep'.settled, NEW k \in Jobs \ sweep'.todo, Stalled(k)'
        PROVE  Crowded(k)' \/ Freed(k)'
    BY <2>1, <2>4 DEF PassedOver, Freed
  <2> QED
    BY <2>2, <2>3, <2>4 DEF PassedOver
<1> QED
  BY <1>1, <1>2 DEF Advance

\* The last job of a call is left or let through by a sweep, never settled.
LEMMA LastJobVisited ==
  ASSUME NEW c \in Callers, NEW f \in Jobs, LastJob(c, f), SweepCandidate(f)
  PROVE  \/ UNCHANGED rows /\ Advance(f, FALSE)
         \/ EnqueueReady(f) /\ UnderLimit(f) /\ Advance(f, FALSE)
            /\ DependencyDecision(sweep.graph, f) = "run"
<1>1. DependencyDecision(sweep.graph, f) \in {"run", "wait"}
  BY AggregateTyped DEF DependencyDecision, LastJob
<1>2. f \notin Nodes /\ f \notin Callers /\ f \notin Matrix
      /\ f \notin Guarded \cup Unsatisfiable /\ f \notin Gated
  BY DEF LastJob, Spare, Nodes
<1>3. CASE DependencyDecision(sweep.graph, f) = "run" /\ UnderLimit(f)
  BY <1>2, <1>3 DEF SweepCandidate, StartJob, AdmitJob
<1>4. CASE ~ (DependencyDecision(sweep.graph, f) = "run" /\ UnderLimit(f))
  BY <1>1, <1>2, <1>4 DEF SweepCandidate
<1> QED
  BY <1>3, <1>4

\* A stalled candidate does not wait for a need: it is decided on.
LEMMA StalledIsDecided ==
  ASSUME NeedsNamed, Typed, RowsFit, RowsMove, GraphStands, GraphFresh, ~sweep.settled,
         NEW j \in Jobs, j \in sweep.todo, Stalled(j)
  PROVE  DependencyDecision(sweep.graph, j) \in {"run", "skip", "error"}
<1>1. NeedsMet(j) /\ status[j] # "absent"
  BY QueuedIsOpen DEF Stalled, RowsMove, CountsFit
<1>2. Direct(sweep.graph, j) = Direct(status, j) /\ Direct(status, j) \subseteq Jobs
  BY DirectSame, DirectIsJobs DEF GraphStands
<1>3. \A k \in Direct(sweep.graph, j) : sweep.graph[k] \in Terminal
  BY <1>1, <1>2 DEF NeedsMet, GraphFresh
<1>4. Needs[j] # {} => Direct(sweep.graph, j) # {}
  BY <1>1, <1>2, NeedsPresent DEF RowsMove, Direct
<1>5. \A s \in Terminal : If[j][s] \in {"run", "skip", "error"}
  BY PromotionAssumption
<1> QED
  BY <1>3, <1>4, <1>5, AggregateTyped DEF DependencyDecision

\* A candidate that is decided on and left as it is has no place to run.
LEMMA LeftIsCrowded ==
  ASSUME NeedsNamed, LegsStart, Typed, RowsFit, RowsMove, GraphStands, GraphFresh,
         ~sweep.settled, NEW j \in Jobs, SweepCandidate(j), Stalled(j), UNCHANGED rows
  PROVE  Crowded(j)
<1> DEFINE decision == DependencyDecision(sweep.graph, j)
<1>0. /\ j \in sweep.todo /\ queue[j] = "blocked" /\ queue \in [Jobs -> QueueStates]
      /\ status[j] \in Live /\ queue' = queue
      /\ decision \in {"run", "skip", "error"}
  BY VisitFrame, StalledIsDecided, QueuedIsOpen DEF Stalled, Typed, RowsTyped, rows
<1>1. \A r \in Terminal : ~SettleNode(j, r)
  <2> SUFFICES ASSUME NEW r \in Terminal, SettleNode(j, r) PROVE FALSE
    OBVIOUS
  <2>1. queue' = SettledQueue(j, r)
    BY <1>0 DEF SettleNode, Live, Terminal
  <2> QED
    BY <1>0, <2>1 DEF SettledQueue, Closed
<1>2. \A q, s, g : Put(j, q, s, g) => q = "blocked"
  BY <1>0 DEF Put
<1>3. {"skipped", "failure", "cancelled"} \subseteq Terminal
  BY DEF Terminal
<1>4. ~AdmitCaller(j) /\ ~DeferMatrix(j) /\ ~StartJob(j)
  BY <1>1, <1>2, <1>3 DEF AdmitCaller, DeferMatrix, StartJob, AdmitJob, EnqueueReady, Settles
<1>5. decision = "run" /\ j \notin Nodes /\ ~UnderLimit(j)
  BY <1>0, <1>1, <1>3, <1>4 DEF SweepCandidate, Settles, Nodes
<1> DEFINE U == {k \in Jobs : /\ Base[k] = Base[j]
                              /\ \/ status[k] = "in_progress"
                                 \/ queue[k] \in {"ready", "claimed"}}
<1>6. /\ ~ (Cardinality(U) < Limit[Base[j]])
      /\ Limit[Base[j]] \in Nat /\ Limit[Base[j]] > 0
      /\ IsFiniteSet(Jobs)
  BY <1>5, PromotionAssumption DEF UnderLimit, LegsStart, Names
<1>7. U \in SUBSET (Jobs \ {j})
  BY <1>0, <1>5 DEF RowsMove, ClaimedRuns, Nodes
<1>8. /\ Cardinality(U) \in Nat /\ Cardinality(U) < Cardinality(Jobs) /\ Cardinality(Jobs) \in Nat
      /\ Cardinality(U) = 0 => U = {}
  <2> HIDE DEF U
  <2>1. IsFiniteSet(Jobs \ {j}) /\ Cardinality(Jobs \ {j}) = Cardinality(Jobs) - 1
        /\ Cardinality(Jobs) \in Nat
    BY <1>6, FS_RemoveElement, FS_CardinalityType
  <2>2. IsFiniteSet(U) /\ Cardinality(U) <= Cardinality(Jobs \ {j})
    BY <1>7, <2>1, FS_Subset
  <2>3. Cardinality(U) \in Nat /\ (Cardinality(U) = 0 => U = {})
    BY <2>2, FS_CardinalityType, FS_EmptySet
  <2> QED
    BY <2>1, <2>2, <2>3
<1>9. Limit[Base[j]] < Cardinality(Jobs) /\ U # {}
  <2> HIDE DEF U
  <2>1. U # {}
    <3>1. Cardinality({}) = 0
      BY FS_EmptySet
    <3> QED BY <1>6, <1>8, <3>1
  <2> QED
    BY <1>6, <1>8, <2>1
<1>10. PICK k \in U : TRUE
  BY <1>9
<1>11. k \notin Callers
  BY <1>6, <1>8, <1>9, <1>10, PromotionAssumption
<1> QED
  BY <1>9, <1>10, <1>11 DEF Crowded, Busy

\* The visit of a candidate.
LEMMA SweepMoves ==
  ASSUME EndingGraph, VerdictInv, ConditionInv, HangInv, NEW j \in Jobs, SweepCandidate(j)
  PROVE  HangInv'
<1>0. /\ Typed /\ RowsFit /\ RowsMove /\ GraphStands /\ GraphFresh /\ PassedOver
      /\ j \in sweep.todo /\ sweep.parked = {} /\ queue[j] = "blocked"
      /\ status[j] \in Live /\ status[j] \notin Terminal
      /\ status \in [Jobs -> Statuses] /\ queue \in [Jobs -> QueueStates]
      /\ NeedsNamed /\ LegsStart /\ UNCHANGED starved
  BY VisitFrame, QueuedIsOpen
     DEF VerdictInv, ConditionInv, HangInv, SweepFits, EndingGraph, Typed, RowsTyped, loops
<1>1. CASE UNCHANGED rows /\ Advance(j, FALSE)
  <2>1. RowsMove'
    BY <1>0, <1>1, UnchangedMoves
  <2>2. /\ \A k \in Jobs : status'[k] \in Terminal => status[k] \in Terminal
        /\ \A k \in Jobs : (Stalled(k)' => Stalled(k)) /\ (Crowded(k) => Crowded(k)')
    BY <1>1 DEF rows, Stalled, Crowded, Busy
  <2>3. ~sweep.settled => (Stalled(j)' => Crowded(j)')
    BY <1>0, <1>1, <2>2, LeftIsCrowded
  <2>4. GraphFresh' /\ PassedOver'
    BY <1>0, <1>1, <2>2, <2>3, AdvancePasses
  <2> QED BY <2>1, <2>4 DEF HangInv
<1>2. ASSUME NEW q, NEW s, NEW g, NEW settles \in BOOLEAN,
             LetThrough(j, q, s, g), Put(j, q, s, g), Advance(j, settles)
      PROVE  HangInv'
  <2>1. s \in Live /\ q \notin {"none", "blocked"} /\ (s = "in_progress" => j \in Callers)
    <3>1. status[j] = "in_progress" => j \in Callers
      BY <1>0 DEF RowsMove, ClaimedRuns
    <3> QED BY <1>0, <1>2, <3>1 DEF LetThrough, Live
  <2>2. RowsMove'
    BY <1>0, <1>2, <2>1, PutMoves
  <2>3. ~Busy(j)
    BY <1>0 DEF RowsMove, ClaimedRuns, Busy
  <2>4. \A k \in Jobs \ {j} : status'[k] = status[k] /\ queue'[k] = queue[k]
    BY <1>0, <1>2 DEF Put
  <2>5. \A k \in Jobs : Busy(k) => Busy(k)'
    BY <2>3, <2>4 DEF Busy
  <2>6. /\ \A k \in Jobs : status'[k] \in Terminal => status[k] \in Terminal
        /\ \A k \in Jobs \ {j} : Stalled(k)' => Stalled(k)
        /\ ~Stalled(j)'
    BY <1>0, <1>2, <2>1, <2>4 DEF Put, Stalled, Live, Terminal
  <2>7. \A k \in Jobs : Crowded(k) => Crowded(k)'
    BY <2>5 DEF Crowded
  <2>8. GraphFresh' /\ PassedOver'
    BY <1>0, <1>2, <2>6, <2>7, AdvancePasses
  <2> QED BY <2>2, <2>8 DEF HangInv
<1>3. ASSUME NEW r \in Terminal, Settles(j, r), \A c \in Callers : ~LastJob(c, j)
      PROVE  HangInv'
  <2>1. RowsMove'
    BY <1>0, <1>3, SettleMoves DEF Settles
  <2>2. GraphFresh' /\ PassedOver'
    BY <1>0, <1>3, AdvancePasses DEF Settles
  <2> QED BY <2>1, <2>2 DEF HangInv
<1>4. CASE \E c \in Callers : LastJob(c, j)
  <2>1. CASE EnqueueReady(j) /\ UnderLimit(j) /\ Advance(j, FALSE)
             /\ DependencyDecision(sweep.graph, j) = "run"
    <3> DEFINE g == IF j \in Gated THEN "holding" ELSE "none"
    <3>1. LetThrough(j, "ready", "queued", g) /\ Put(j, "ready", "queued", g)
      BY <1>4, <2>1, LastJobAlone DEF LetThrough, EnqueueReady
    <3> HIDE DEF g
    <3> QED BY <1>2, <2>1, <3>1
  <2> QED BY <1>1, <1>4, <2>1, LastJobVisited
<1> QED
  BY <1>1, <1>2, <1>3, <1>4, SweepVisits DEF Visits

\* The visit of a parked job: the last of them begins a pass.
LEMMA ParkedMoves ==
  ASSUME VerdictInv, HangInv, NEW j \in Jobs, RevisitParked(j)
  PROVE  HangInv'
<1>0. /\ Typed /\ RowsFit /\ RowsMove /\ SweepTyped /\ PassedOver
      /\ j \in sweep.parked /\ sweep.todo = {} /\ j \in Guarded \ Nodes /\ UNCHANGED starved
  BY DEF VerdictInv, HangInv, RevisitParked, SweepFits, Typed, loops
<1>1. RowsMove'
  <2>1. CASE UNCHANGED rows
    BY <1>0, <2>1, UnchangedMoves
  <2>2. CASE queue[j] = "held" /\ Put(j, "blocked", "queued", gate[j])
    BY <1>0, <2>2, PutMoves DEF Live
  <2>3. CASE SettleNode(j, "failure")
    <3>1. "failure" \in Terminal /\ \A c \in Callers : ~LastJob(c, j)
      BY <1>0 DEF Terminal, LastJob, Spare
    <3> QED BY <1>0, <2>3, <3>1, SettleMoves
  <2> QED BY <2>1, <2>2, <2>3 DEF RevisitParked
<1>2. GraphFresh' /\ PassedOver'
  <2>1. CASE sweep' = Pass(status', queue', remaining')
    BY <2>1, PassPasses
  <2>2. CASE sweep' = [sweep EXCEPT !.parked = @ \ {j}] /\ sweep.parked # {j}
    <3>1. sweep'.todo = {} /\ sweep'.parked # {} /\ sweep'.settled = sweep.settled
      BY <1>0, <2>2 DEF SweepTyped
    <3> QED
      BY <1>0, <3>1 DEF GraphFresh, PassedOver
  <2> QED BY <2>1, <2>2 DEF RevisitParked
<1> QED BY <1>1, <1>2 DEF HangInv

\* Claims, cancellations, the reaper and what other runs do.
LEMMA CommandsMove ==
  ASSUME EndingGraph, VerdictInv, HangInv, Stands,
         \/ CancelRun
         \/ \E j \in Jobs : Claim(j) \/ Starve(j) \/ GrantSlot(j) \/ Displaced(j)
  PROVE  HangInv'
<1>0. /\ Typed /\ RowsFit /\ RowsMove /\ PassedOver /\ GatesLast
      /\ status \in [Jobs -> Statuses] /\ queue \in [Jobs -> QueueStates]
      /\ remaining \in [Jobs -> Nat]
      /\ \A k \in Jobs : queue[k] # "none" => status[k] \in Live
  BY DEF VerdictInv, HangInv, EndingGraph, Typed, RowsTyped, RowsFit, RowsAgree, Agree
<1>1. CASE CancelRun
  <2>1. RowsMove'
    BY <1>0, <1>1, CancelMoves
  <2>2. \A k \in Jobs : ~Stalled(k)'
    BY <1>0, <1>1 DEF CancelRun, Stalled
  <2> QED
    BY <1>0, <1>1, <2>1, <2>2, IdlePasses DEF CancelRun, HangInv, loops
<1>2. ASSUME NEW g \in Jobs, Displaced(g) PROVE HangInv'
  <2>1. RowsMove'
    BY <1>0, <1>2, CancelMoves
  <2>2. /\ g \in Gated /\ queue'[g] = "none"
        /\ \A k \in Jobs \ {g} : status'[k] = status[k] /\ queue'[k] = queue[k]
        /\ remaining' = remaining
    BY <1>0, <1>2 DEF Displaced, RowsFit, RowsAgree, Agree
  <2>3. ASSUME NEW k \in Jobs, Stalled(k)'
        PROVE  Stalled(k) /\ (Crowded(k) => Crowded(k)')
    <3>1. k # g /\ Stalled(k)
      BY <2>2, <2>3 DEF Stalled
    <3>2. ASSUME Crowded(k) PROVE Crowded(k)'
      <4>1. PICK i \in Jobs : Base[i] = Base[k] /\ Busy(i)
        BY <3>2 DEF Crowded
      <4>2. /\ Limit[Base[k]] < Cardinality(Jobs)
            /\ Limit[Base[k]] \in Nat /\ Cardinality(Jobs) \in Nat
        BY <3>2, PromotionAssumption, FS_CardinalityType DEF Crowded, Names
      <4>3. i # g
        BY <2>2, <3>1, <4>1, <4>2, <1>0 DEF GatesLast
      <4> QED
        BY <2>2, <4>1, <4>2, <4>3 DEF Crowded, Busy
    <3> QED BY <3>1, <3>2
  <2> QED
    BY <1>0, <1>2, <2>1, <2>3, IdlePasses DEF Displaced, HangInv, loops
<1>3. ASSUME NEW j \in Jobs, NEW q \in {"ready", "claimed"}, NEW s \in Live, NEW g, Put(j, q, s, g),
             queue[j] # "none", s = "in_progress" => q = "claimed", Idle,
             UNCHANGED <<sweep, starved>>
      PROVE  HangInv'
  <2>1. RowsMove'
    BY <1>0, <1>3, PutMoves
  <2>2. \A k \in Jobs : Busy(k) => Busy(k)'
    BY <1>0, <1>3 DEF Put, Busy
  <2>3. \A k \in Jobs : Stalled(k)' => Stalled(k)
    BY <1>0, <1>3 DEF Put, Stalled
  <2> QED
    BY <1>0, <1>3, <2>1, <2>2, <2>3, IdlePasses DEF Crowded, HangInv
<1>4. ASSUME NEW j \in Jobs, Claim(j) PROVE HangInv'
  BY <1>3, <1>4 DEF Claim, Live, loops
<1>5. ASSUME NEW j \in Jobs, GrantSlot(j) PROVE HangInv'
  <2>0. queue[j] = "held" /\ UNCHANGED starved
    BY <1>0, <1>5 DEF GrantSlot, RowsFit, RowsAgree, Agree, loops
  <2>1. CASE Put(j, "blocked", "queued", "holding") /\ sweep' = Pass(status', queue', remaining')
    BY <1>0, <2>0, <2>1, PutMoves, PassPasses DEF HangInv, Live
  <2>2. CASE EnqueueReady(j) /\ UNCHANGED sweep
    BY <1>3, <1>5, <2>0, <2>2 DEF EnqueueReady, GrantSlot, Live
  <2> QED BY <1>5, <2>1, <2>2 DEF GrantSlot
<1>6. ASSUME NEW g \in Jobs, Starve(g) PROVE HangInv'
  <2>1. RowsMove'
    BY <1>0, <1>6, StarveMoves
  <2>2. /\ queue'[g] = "none" /\ remaining' = remaining /\ starved' = starved \cup {g}
        /\ \A k \in Jobs \ {g} : status'[k] = status[k] /\ queue'[k] = queue[k]
    BY <1>0, <1>6 DEF Starve
  <2>3. ASSUME NEW k \in Jobs, Stalled(k)'
        PROVE  Stalled(k) /\ (Crowded(k) => Crowded(k)' \/ Freed(k)')
    <3>1. Stalled(k)
      BY <2>2, <2>3 DEF Stalled
    <3>2. ASSUME Crowded(k) PROVE Crowded(k)' \/ Freed(k)'
      <4>1. PICK i \in Jobs : Base[i] = Base[k] /\ Busy(i)
        BY <3>2 DEF Crowded
      <4> QED
        BY <2>2, <3>2, <4>1 DEF Crowded, Busy, Freed
    <3> QED BY <3>1, <3>2
  <2> QED
    BY <1>0, <1>6, <2>1, <2>2, <2>3, IdlePasses DEF Starve, HangInv
<1> QED
  BY <1>1, <1>2, <1>4, <1>5, <1>6

\* Loops, restarts and the beginning of a sweep.
LEMMA LoopsMove ==
  ASSUME HangInv, \/ ReleaseParked \/ EndDrain \/ DrainElsewhere \/ Restart
                  \/ \E n \in Jobs : ClaimExpansion(n)
                  \/ UNCHANGED vars,
         Typed
  PROVE  HangInv'
<1>0. RowsMove /\ PassedOver /\ GraphFresh /\ queue \in [Jobs -> QueueStates]
  BY DEF HangInv, Typed, RowsTyped
<1>1. CASE ReleaseParked
  <2>1. GraphFresh' /\ PassedOver'
    BY <1>1 DEF ReleaseParked, GraphFresh, PassedOver
  <2> QED BY <1>0, <1>1, <2>1, UnchangedMoves DEF ReleaseParked, HangInv, loops
<1>2. ASSUME Idle, UNCHANGED <<status, remaining, conclusion, sweep, starved>>,
             \A k \in Jobs : \/ queue'[k] = queue[k]
                             \/ /\ queue[k] \in {"pending_expansion", "expanding"}
                                /\ queue'[k] \in {"pending_expansion", "expanding"}
      PROVE  HangInv'
  <2>1. RowsMove'
    BY <1>0, <1>2, LeaseMoves
  <2>2. \A k \in Jobs : (Stalled(k)' => Stalled(k)) /\ (Crowded(k) => Crowded(k)')
    BY <1>2 DEF Stalled, Crowded, Busy
  <2> QED BY <1>0, <1>2, <2>1, <2>2, IdlePasses DEF HangInv
<1>3. CASE EndDrain \/ DrainElsewhere \/ Restart \/ \E n \in Jobs : ClaimExpansion(n)
  BY <1>0, <1>2, <1>3 DEF EndDrain, DrainElsewhere, Restart, ClaimExpansion, rows
<1>4. CASE UNCHANGED vars
  <2>1. UNCHANGED rows /\ UNCHANGED sweep /\ UNCHANGED starved
    BY <1>4 DEF vars, loops
  <2>2. GraphFresh' /\ PassedOver'
    BY <1>0, <2>1 DEF GraphFresh, PassedOver, Stalled, Crowded, Freed, Busy, rows
  <2> QED BY <1>0, <2>1, <2>2, UnchangedMoves DEF HangInv
<1> QED
  BY <1>1, <1>3, <1>4

\* A build that is applied.
LEMMA ApplyMoves ==
  ASSUME EndingGraph, VerdictInv, HangInv, NEW b \in builds, NEW o, ApplyExpansion(b, o)
  PROVE  HangInv'
<1> DEFINE n == b.node
<1>0. /\ Typed /\ RowsFit /\ BuildsCurrent /\ RowsMove /\ PassedOver /\ LegsStart
      /\ n \in Jobs /\ Idle /\ UNCHANGED starved
  BY DEF VerdictInv, HangInv, EndingGraph, Typed, LoopsTyped, ApplyExpansion
<1>1. CASE UNCHANGED <<rows, sweep>>
  <2>1. \A k \in Jobs : (Stalled(k)' => Stalled(k)) /\ (Crowded(k) => Crowded(k)')
    BY <1>1 DEF Stalled, Crowded, Busy, rows
  <2> QED BY <1>0, <1>1, <2>1, UnchangedMoves, IdlePasses DEF HangInv
<1>2. CASE b.generation = generation[n] /\ ~UNCHANGED <<rows, sweep>>
  <2>0. queue[n] = "expanding" /\ n \in Nodes
    BY <1>0, <1>2 DEF BuildsCurrent, RowsFit, RowsAgree, Agree
  <2>1. ASSUME Inner[n] # {}, Install(n) PROVE RowsMove'
    BY <1>0, <2>0, <2>1, InstallMoves
  <2>2. ASSUME NEW v \in {"skipped", "failure"}, ConcludeNode(n, v) PROVE RowsMove'
    BY <1>0, <2>0, <2>2, ConcludeMoves
  <2>3. RowsMove' /\ sweep' = Pass(status', queue', remaining')
    BY <1>2, <2>1, <2>2 DEF ApplyExpansion
  <2> QED BY <2>3, PassPasses DEF HangInv
<1> QED
  BY <1>1, <1>2 DEF ApplyExpansion

\* Every step keeps the invariant.
LEMMA StepMoves ==
  ASSUME EndingGraph, VerdictInv, OnRunnerJobs, ConditionInv, HangInv, [Next]_vars
  PROVE  HangInv'
<1>0. Typed /\ FailsAlone /\ Stands
  BY StepVerdict DEF VerdictInv, EndingGraph
<1>1. ASSUME NEW j \in Jobs, NEW s \in {"success", "failure", "cancelled"}, Report(j, s)
      PROVE  HangInv'
  <2>1. s \in Terminal /\ Typed /\ RowsFit /\ RowsMove /\ CallsEnd
    BY DEF Terminal, VerdictInv, HangInv, EndingGraph
  <2>2. VerdictsMet(status)'
    BY <1>0, StepMet DEF ConditionInv
  <2>3. RowsMove'
    BY <1>1, <2>1, <2>2, ReportMoves
  <2> QED
    BY <1>1, <2>3, PassPasses DEF Report, HangInv
<1> QED
  BY <1>0, <1>1, SweepMoves, ParkedMoves, CommandsMove, LoopsMove, ApplyMoves
     DEF Next, CancelJobInner, FailJobset

\* The submit establishes it.
LEMMA InitMoves == Init => HangInv
<1> SUFFICES ASSUME Init PROVE HangInv
  OBVIOUS
<1>0. /\ Callers \subseteq Jobs /\ Submitted \subseteq Jobs
      /\ \A n \in Nodes : n \in Jobs /\ Inner[n] \subseteq Jobs \ Submitted
  BY PromotionAssumption DEF Nodes
<1>1. \A j \in Jobs : /\ status[j] = InitialStatus(j) /\ queue[j] = InitialQueue(j)
                      /\ status[j] \in Live => queue[j] # "none"
                      /\ status[j] # "in_progress"
                      /\ status[j] = "absent" <=> j \notin Submitted
  BY DEF Init, InitialStatus, InitialQueue, Live
<1>2. CountsFit
  <2>1. \A j \in Jobs : queue[j] # "none" => remaining[j] = OpenNeeds(status, j)
    BY DEF Init
  <2> QED BY <2>1, CountZero DEF CountsFit, NeedsMet, MetIn
<1>3. RunOpen
  BY DEF Init, RunOpen, Summary, Terminal
<1>4. LastJobOpen /\ OutOfQueue /\ ClaimedRuns
  BY <1>0, <1>1 DEF LastJobOpen, OutOfQueue, ClaimedRuns
<1>5. RowsThere
  BY <1>0, <1>1 DEF RowsThere
<1>6. GraphFresh /\ PassedOver
  BY DEF Init, Pass, Candidates, GraphFresh, PassedOver, Stalled
<1> QED
  BY <1>2, <1>3, <1>4, <1>5, <1>6 DEF HangInv, RowsMove

\* Among the live leaves of an open run one waits for none of the others: it
\* is the business of a runner, a loop, a gate or an approval, waits for a
\* place that a runner has, or was left behind by a starved job.
LEMMA SomeoneMoves ==
  ASSUME EndingGraph, VerdictInv, HangInv
  PROVE  NoHungRun
<1> SUFFICES ASSUME Idle, conclusion = "none", ~Abandoned,
                    \A j \in Jobs : queue[j] \notin {"ready", "claimed", "held",
                                                     "pending_expansion", "expanding"}
             PROVE  FALSE
  BY DEF NoHungRun
<1> DEFINE S == {j \in Leaves(status) : status[j] \in Live}
<1>0. /\ Typed /\ RowsFit /\ RowsMove /\ PassedOver /\ Acyclic /\ CallsEnd
      /\ status \in [Jobs -> Statuses] /\ queue \in [Jobs -> QueueStates]
  BY DEF VerdictInv, HangInv, EndingGraph, Typed, RowsTyped
<1>1. S # {} /\ S \in SUBSET Jobs
  BY <1>0 DEF RowsMove, RunOpen, AllDone, Leaves, Statuses
<1>2. PICK j \in S : \A k \in S : ~WaitsFor(j, k) /\ (j \in Callers => k \notin Inner[j])
  <2> HIDE DEF S
  <2> QED BY <1>0, <1>1 DEF Acyclic
<1>3. j \in Jobs /\ j \in Leaves(status) /\ status[j] \in Live
  BY <1>1, <1>2
<1>4. NeedsMet(j)
  <2> SUFFICES ASSUME NEW k \in Direct(status, j) PROVE status[k] \in Terminal
    BY DEF NeedsMet
  <2>1. k \in Leaves(status) /\ WaitsFor(j, k)
    BY DEF Direct, Matching, WaitsFor
  <2>2. k \notin S
    BY <1>2, <2>1
  <2> QED
    BY <1>0, <2>1, <2>2 DEF Leaves, Statuses
<1>5. CASE queue[j] = "none"
  <2>1. j \in Callers /\ Inner[j] # {}
    BY <1>0, <1>3, <1>5 DEF RowsMove, OutOfQueue, Leaves, Nodes
  <2>2. PICK f \in Jobs : LastJob(j, f)
    BY <1>0, <2>1 DEF CallsEnd
  <2>3. status[f] \in Live /\ f \in Inner[j] /\ f \notin Nodes
    BY <1>0, <1>3, <1>5, <2>1, <2>2 DEF RowsMove, LastJobOpen, LastJob, Spare, Abandoned
  <2>4. f \in S
    BY <2>3 DEF Leaves, Nodes, Live
  <2> QED
    BY <1>2, <2>1, <2>3, <2>4
<1>6. CASE queue[j] = "blocked"
  <2>0. ~LeftBehind(j) /\ ~Freed(j)
    BY <1>3, <1>6 DEF Abandoned, LeftBehind, Freed
  <2>1. Stalled(j)
    BY <1>0, <1>3, <1>4, <1>6, <2>0 DEF RowsMove, CountsFit, Stalled
  <2>2. Crowded(j)
    BY <1>0, <1>3, <2>0, <2>1 DEF Idle, PassedOver
  <2> QED
    BY <1>0, <2>2 DEF Crowded, Busy, RowsMove, ClaimedRuns
<1> QED
  BY <1>0, <1>3, <1>5, <1>6 DEF QueueStates

\* In every graph whose needs are named and acyclic, whose calls end with a
\* job that always runs, whose legs can start and in which nobody waits for a
\* job of a concurrency group, a run that is not completed has, between two
\* commands, a job that a runner, a loop, a gate or an approval will move: no
\* recount is missed, no sweep stops too early and no call is left unfolded
\* (refresh_remaining_needs, promote_run, finalize_reusable_callers).  The one
\* exception is a live job that needs a starved job, shares its base or is
\* the call it belongs to (starve_job).
THEOREM RunsDoNotHang == ASSUME EndingGraph PROVE Spec => []NoHungRun
<1> DEFINE I == VerdictInv /\ OnRunnerJobs /\ ConditionInv /\ HangInv
<1>0. FailsAlone
  BY DEF EndingGraph
<1>1. Init => I
  BY InitVerdict, InitMet, InitMoves DEF Init, OnRunnerJobs
<1>2. I /\ [Next]_vars => I'
  BY <1>0, StepVerdict, OnRunnerStep, StepMet, StepMoves
<1>3. I => NoHungRun
  BY SomeoneMoves
<1> HIDE DEF I
<1> QED
  BY <1>1, <1>2, <1>3, PTL DEF Spec
=============================================================================
