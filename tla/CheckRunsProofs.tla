-------------------------- MODULE CheckRunsProofs --------------------------
(***************************************************************************)
(* Proofs about CheckRuns for every set of jobs, failures and senders and   *)
(* every bound.  For any number of senders: HandInv says that a row is      *)
(* owned only by a sender that still has it as it was leased, which the     *)
(* count of attempts rests on, and IdsBelong that no id is of another       *)
(* external id.  For one sender, SendInv orders the versions of job, row,   *)
(* update in hand and check run, and says what the sender knows at each     *)
(* phase; from it no check run is doubled, goes back or is left behind.     *)
(* Two senders may create two check runs of one external id, so those three *)
(* are stated of one.                                                       *)
(***************************************************************************)
EXTENDS CheckRuns, TLAPS

-----------------------------------------------------------------------------
\* Rows and hands

RowType == [version : Versions, id : Ids, attempts : 0..MaxAttempts, due : BOOLEAN,
            owner : Owners, lease : {"none", "future", "past"}]

RowsTyped == row \in [Keys -> RowType \cup {NoRow}]

SendersTyped ==
  /\ at \in [Senders -> Phases]
  /\ update \in [Senders -> Updates \cup {NoUpdate}]
  /\ \A s \in Senders : update[s] = NoUpdate <=> at[s] = "idle"
  /\ batch \in [Senders -> SUBSET Updates]

OthersTyped ==
  /\ version \in [Jobs -> Versions]
  /\ reports \in BOOLEAN
  /\ woken \subseteq Keys
  /\ unread \subseteq Jobs
  /\ told \in [Jobs -> Versions]
  /\ mapping \in [Keys -> Ids]
  /\ of \in [Checks -> Keys \cup {None}]
  /\ shown \in [Checks -> Versions]
  /\ dropped \subseteq Keys
  /\ simulated \subseteq Keys
  /\ restarts \in 0..MaxRestarts

\* The updates of a batch, and the one in hand, are of different keys.
HandsApart ==
  \A s \in Senders : \A u \in batch[s] :
    /\ \A v \in batch[s] : u.key = v.key => u = v
    /\ at[s] # "idle" => u.key # update[s].key

\* The update still describes the row.
AsLeased(u, k) ==
  u.key = k /\ u.version = row[k].version /\ u.attempts = row[k].attempts

\* A row is owned only by a sender that has it in its batch or in hand.
OwnedInHand ==
  \A s \in Senders, k \in Keys : row[k].owner = s =>
    \/ \E u \in batch[s] : AsLeased(u, k)
    \/ at[s] # "idle" /\ AsLeased(update[s], k)

HandInv == TypeOK /\ HandsApart /\ OwnedInHand

\* The type invariant, by what changes together.
LEMMA TypeParts == TypeOK <=> RowsTyped /\ SendersTyped /\ OthersTyped
BY DEF TypeOK, RowsTyped, SendersTyped, OthersTyped, RowType

\* A sender at work has a proper update in hand.
LEMMA InHandTyped ==
  ASSUME TypeOK, NEW s \in Senders, at[s] # "idle"
  PROVE  /\ update[s] \in Updates
         /\ update[s].key \in Keys
         /\ update[s].version \in Versions
         /\ update[s].id \in Ids
         /\ update[s].attempts \in 0..MaxAttempts
<1>1. update[s] \in Updates
  BY DEF TypeOK
<1> QED
  BY <1>1 DEF Updates

\* A row that exists is told by its version, its owner, its lease or its flag.
LEMMA RowTyped ==
  ASSUME TypeOK, NEW k \in Keys
  PROVE  /\ row[k] # NoRow => row[k] \in RowType
         /\ row[k].owner # None => row[k] \in RowType
         /\ row[k].lease # "none" => row[k] \in RowType
         /\ row[k].due => row[k] \in RowType
         /\ row[k].id \in Ids
         /\ row[k].version \in Versions \cup {-1}
         /\ row[k].attempts \in 0..MaxAttempts
         /\ row[k].version = -1 <=> row[k] = NoRow
<1>1. row[k] \in RowType \cup {NoRow}
  BY DEF TypeOK, RowType
<1>2. CASE row[k] = NoRow
  BY <1>2, CheckRunsAssumption DEF NoRow, Ids
<1>3. CASE row[k] \in RowType
  BY <1>3, CheckRunsAssumption DEF RowType, Versions, NoRow
<1> QED
  BY <1>1, <1>2, <1>3

\* A sender that owns the row of its update has it as it was leased.
LEMMA OwnsAsLeased ==
  ASSUME HandInv, NEW s \in Senders, at[s] # "idle", Owns(s, update[s].key)
  PROVE  AsLeased(update[s], update[s].key) /\ OwnsVersion(s, update[s].key)
<1>1. update[s].key \in Keys
  BY InHandTyped DEF HandInv
<1>2. \A u \in batch[s] : u.key # update[s].key
  BY DEF HandInv, HandsApart
<1> QED
  BY <1>1, <1>2 DEF HandInv, OwnedInHand, Owns, OwnsVersion, AsLeased

\* The next state of a row: each way a statement changes one.
LEMMA RowChanges ==
  ASSUME NEW r \in RowType
  PROVE  /\ Released(r) \in RowType
         /\ \A o \in Owners : [r EXCEPT !.owner = o] \in RowType
         /\ \A s \in Senders : [r EXCEPT !.owner = s, !.lease = "future"] \in RowType
         /\ \A i \in Ids : [r EXCEPT !.id = i] \in RowType
         /\ \A i \in Ids : [r EXCEPT !.id = i, !.lease = "future"] \in RowType
         /\ [r EXCEPT !.lease = "future"] \in RowType
         /\ [r EXCEPT !.lease = "past"] \in RowType
         /\ [r EXCEPT !.due = TRUE] \in RowType
         /\ r.attempts < MaxAttempts => [Released(r) EXCEPT !.attempts = @ + 1] \in RowType
<1>1. Released(r) \in RowType /\ Released(r).attempts = r.attempts
  BY DEF RowType, Released, Owners
<1>2. \A o \in Owners : [r EXCEPT !.owner = o] \in RowType
  BY DEF RowType
<1>3. \A s \in Senders : [r EXCEPT !.owner = s, !.lease = "future"] \in RowType
  BY DEF RowType, Owners
<1>4. \A i \in Ids : /\ [r EXCEPT !.id = i] \in RowType
                     /\ [r EXCEPT !.id = i, !.lease = "future"] \in RowType
  BY DEF RowType
<1>5. /\ [r EXCEPT !.lease = "future"] \in RowType
      /\ [r EXCEPT !.lease = "past"] \in RowType
      /\ [r EXCEPT !.due = TRUE] \in RowType
  BY DEF RowType
<1>6. r.attempts < MaxAttempts => [Released(r) EXCEPT !.attempts = @ + 1] \in RowType
  <2>1. r.attempts < MaxAttempts => r.attempts + 1 \in 0..MaxAttempts
    BY CheckRunsAssumption DEF RowType
  <2>2. \A q \in RowType : \A a \in 0..MaxAttempts : [q EXCEPT !.attempts = a] \in RowType
    BY DEF RowType
  <2> QED
    BY <1>1, <2>1, <2>2
<1> QED
  BY <1>1, <1>2, <1>3, <1>4, <1>5, <1>6

-----------------------------------------------------------------------------
\* One step of a sender at work on the update in its hand

\* It touches no row but that of the update, which it deletes, gives back or
\* keeps; the update stays the same but for its id, or the work ends.
WorkKept(s) ==
  LET k == update[s].key
  IN  /\ at[s] # "idle" /\ batch' = batch
      /\ \A t \in Senders : t # s => at'[t] = at[t] /\ update'[t] = update[t]
      /\ \A i \in Keys : i # k => row'[i] = row[i]
      /\ \/ row'[k] = NoRow
         \/ /\ row'[k] \in RowType /\ row[k] \in RowType /\ row'[k].version = row[k].version
            /\ \/ row'[k].owner = None
               \/ row'[k].owner = row[k].owner /\ row'[k].attempts = row[k].attempts
      /\ \/ /\ at'[s] # "idle" /\ update'[s] \in Updates /\ update'[s].key = k
            /\ update'[s].version = update[s].version /\ update'[s].attempts = update[s].attempts
         \/ at'[s] = "idle" /\ update'[s] = NoUpdate /\ row'[k].owner # s

WorkDone(s) == WorkKept(s) /\ RowsTyped' /\ SendersTyped'

\* The two things a step may do with the update in hand.
LEMMA WorkParts ==
  ASSUME HandInv, NEW s \in Senders, at[s] # "idle", batch' = batch,
         \/ \E p \in Phases : p # "idle" /\ Moves(s, p) /\
              (\/ update' = update
               \/ \E i \in Ids : update' = [update EXCEPT ![s].id = i])
         \/ Ends(s) /\ row'[update[s].key].owner # s,
         \/ row' = row
         \/ \E r \in RowType \cup {NoRow} :
              /\ row' = [row EXCEPT ![update[s].key] = r]
              /\ \/ r = NoRow
                 \/ /\ row[update[s].key] \in RowType /\ r.version = row[update[s].key].version
                    /\ \/ r.owner = None
                       \/ /\ r.owner = row[update[s].key].owner
                          /\ r.attempts = row[update[s].key].attempts
  PROVE  WorkDone(s)
<1> DEFINE k == update[s].key
<1>1. /\ k \in Keys /\ update[s] \in Updates /\ TypeOK
      /\ row \in [Keys -> RowType \cup {NoRow}]
      /\ update \in [Senders -> Updates \cup {NoUpdate}]
      /\ at \in [Senders -> Phases]
      /\ batch \in [Senders -> SUBSET Updates]
      /\ \A t \in Senders : update[t] = NoUpdate <=> at[t] = "idle"
  BY InHandTyped DEF HandInv, TypeOK, RowType
<1>2. NoUpdate \notin Updates
  BY CheckRunsAssumption DEF NoUpdate, Updates
<1>3. ASSUME NEW i \in Ids
      PROVE  LET u == [update[s] EXCEPT !.id = i]
             IN  /\ u \in Updates /\ u.key = k
                 /\ u.version = update[s].version /\ u.attempts = update[s].attempts
  BY <1>1 DEF Updates
<1>4. /\ RowsTyped'
      /\ \A i \in Keys : i # k => row'[i] = row[i]
      /\ \/ row'[k] = NoRow
         \/ /\ row'[k] \in RowType /\ row[k] \in RowType /\ row'[k].version = row[k].version
            /\ \/ row'[k].owner = None
               \/ row'[k].owner = row[k].owner /\ row'[k].attempts = row[k].attempts
  <2>1. CASE row' = row
    BY <1>1, <2>1 DEF RowsTyped
  <2>2. CASE row' # row
    <3>1. PICK r \in RowType \cup {NoRow} :
              /\ row' = [row EXCEPT ![k] = r]
              /\ \/ r = NoRow
                 \/ /\ row[k] \in RowType /\ r.version = row[k].version
                    /\ \/ r.owner = None
                       \/ r.owner = row[k].owner /\ r.attempts = row[k].attempts
      BY <2>2
    <3>2. row'[k] = r /\ \A i \in Keys : i # k => row'[i] = row[i]
      BY <1>1, <3>1
    <3>3. row' \in [Keys -> RowType \cup {NoRow}]
      BY <1>1, <3>1
    <3> QED
      BY <3>1, <3>2, <3>3 DEF RowsTyped
  <2> QED
    BY <2>1, <2>2
<1>5. CASE Ends(s) /\ row'[k].owner # s
  <2>1. /\ at' = [at EXCEPT ![s] = "idle"]
        /\ update' = [update EXCEPT ![s] = NoUpdate]
    BY <1>5 DEF Ends, Moves
  <2>2. SendersTyped'
    BY <1>1, <2>1 DEF SendersTyped, Phases
  <2> QED
    BY <1>1, <1>4, <1>5, <2>1, <2>2 DEF WorkDone, WorkKept
<1>6. ASSUME NEW p \in Phases, p # "idle", Moves(s, p),
             \/ update' = update
             \/ \E i \in Ids : update' = [update EXCEPT ![s].id = i]
      PROVE  WorkDone(s)
  <2>1. at' = [at EXCEPT ![s] = p]
    BY <1>6 DEF Moves
  <2>2. /\ update'[s] \in Updates /\ update'[s].key = k
        /\ update'[s].version = update[s].version /\ update'[s].attempts = update[s].attempts
        /\ \A t \in Senders : t # s => update'[t] = update[t]
        /\ update' \in [Senders -> Updates \cup {NoUpdate}]
    <3>1. CASE update' = update
      BY <1>1, <3>1
    <3>2. CASE \E i \in Ids : update' = [update EXCEPT ![s].id = i]
      <4>1. PICK i \in Ids : update' = [update EXCEPT ![s].id = i]
        BY <3>2
      <4>2. update'[s] = [update[s] EXCEPT !.id = i]
        BY <1>1, <4>1
      <4>3. \A t \in Senders : t # s => update'[t] = update[t]
        BY <1>1, <4>1
      <4>4. update'[s] \in Updates
        BY <1>3, <4>2
      <4>5. update' \in [Senders -> Updates \cup {NoUpdate}]
        BY <1>1, <4>1, <4>2, <4>3, <4>4
      <4> QED
        BY <1>3, <4>2, <4>3, <4>4, <4>5
    <3> QED
      BY <1>6, <3>1, <3>2
  <2>3. SendersTyped'
    BY <1>1, <1>2, <1>6, <2>1, <2>2 DEF SendersTyped
  <2> QED
    BY <1>1, <1>4, <1>6, <2>1, <2>2, <2>3 DEF WorkDone, WorkKept
<1> QED
  BY <1>5, <1>6

\* The steps of send_one.
Work(s) ==
  \/ Defer(s) \/ Simulate(s) \/ Resolve(s) \/ Lookup(s) \/ Persist(s) \/ Renew(s)
  \/ NotFound(s) \/ Refuse(s) \/ Finish(s) \/ Retry(s)
  \/ \E last \in BOOLEAN : Create(s, last) \/ Patch(s, last)

\* The row of a sender that owns it, after the statements that keep its lease.
LEMMA OwnedRowChanges ==
  ASSUME HandInv, NEW s \in Senders, at[s] # "idle"
  PROVE  LET k == update[s].key
         IN  /\ k \in Keys
             /\ Owns(s, k) => row[k] \in RowType
             /\ \A i \in Ids :
                  \/ WithId(s, i) = row
                  \/ \E r \in RowType :
                       /\ WithId(s, i) = [row EXCEPT ![k] = r]
                       /\ row[k] \in RowType /\ r.version = row[k].version
                       /\ r.owner = row[k].owner /\ r.attempts = row[k].attempts
<1> DEFINE k == update[s].key
<1>1. k \in Keys /\ TypeOK /\ row \in [Keys -> RowType \cup {NoRow}]
  BY InHandTyped DEF HandInv, TypeOK, RowType
<1>2. Owns(s, k) => row[k] \in RowType
  BY <1>1, RowTyped, CheckRunsAssumption DEF Owns
<1>3. ASSUME NEW i \in Ids, OwnsVersion(s, k)
      PROVE  \E r \in RowType :
                       /\ WithId(s, i) = [row EXCEPT ![k] = r]
                       /\ row[k] \in RowType /\ r.version = row[k].version
                       /\ r.owner = row[k].owner /\ r.attempts = row[k].attempts
  <2> DEFINE r == [row[k] EXCEPT !.id = i, !.lease = "future"]
  <2>1. row[k] \in RowType
    BY <1>2, <1>3 DEF OwnsVersion
  <2>2. r \in RowType
    BY <2>1, RowChanges
  <2>3. r.version = row[k].version /\ r.owner = row[k].owner /\ r.attempts = row[k].attempts
    BY <2>1 DEF RowType
  <2>4. WithId(s, i) = [row EXCEPT ![k] = r]
    BY <1>1, <1>3 DEF WithId
  <2> QED
    BY <2>1, <2>2, <2>3, <2>4
<1>4. ASSUME NEW i \in Ids, ~OwnsVersion(s, k) PROVE WithId(s, i) = row
  BY <1>4 DEF WithId
<1> QED
  BY <1>1, <1>2, <1>3, <1>4

\* Every step of send_one keeps to the row and the update it works on.
LEMMA WorkStep ==
  ASSUME HandInv, NEW s \in Senders, Work(s)
  PROVE  WorkDone(s)
<1> DEFINE k == update[s].key
<1>0. /\ TypeOK
      /\ \A p \in {"started", "lookup", "found", "send", "inflight", "created", "sent",
                   "mocked", "failed", "rejected"} : p \in Phases /\ p # "idle"
      /\ Checks \subseteq Ids /\ None \in Ids
      /\ NoRow.owner # s
  BY CheckRunsAssumption DEF HandInv, Phases, Ids, NoRow
<1>1. CASE Defer(s)
  <2>1. at[s] # "idle" /\ batch' = batch /\ Ends(s)
    BY <1>1 DEF Defer
  <2>2. CASE Owns(s, k)
    <3>1. k \in Keys /\ row[k] \in RowType /\ row \in [Keys -> RowType \cup {NoRow}]
      BY <2>1, <2>2, OwnedRowChanges DEF HandInv, TypeOK, RowType
    <3>2. Released(row[k]) \in RowType
      BY <3>1, RowChanges
    <3>3. Released(row[k]).version = row[k].version /\ Released(row[k]).owner = None
      BY <3>1 DEF Released, RowType
    <3>4. row' = [row EXCEPT ![k] = Released(row[k])]
      BY <1>1, <2>2, <3>1 DEF Defer
    <3>5. row'[k].owner # s
      BY <3>1, <3>3, <3>4, CheckRunsAssumption
    <3> QED
      BY <2>1, <3>1, <3>2, <3>3, <3>4, <3>5, WorkParts
  <2>3. CASE ~Owns(s, k)
    <3>1. row' = row /\ row'[k].owner # s
      BY <1>1, <2>3 DEF Defer, Owns
    <3> QED
      BY <2>1, <3>1, WorkParts
  <2> QED
    BY <2>2, <2>3
<1>2. ASSUME at[s] # "idle", batch' = batch, Ends(s),
             row' = IF OwnsVersion(s, k) THEN [row EXCEPT ![k] = NoRow] ELSE row
      PROVE  WorkDone(s)
  <2>1. k \in Keys /\ row \in [Keys -> RowType \cup {NoRow}]
    BY <1>2, InHandTyped DEF HandInv, TypeOK, RowType
  <2>2. CASE OwnsVersion(s, k)
    <3>1. row' = [row EXCEPT ![k] = NoRow] /\ row'[k].owner # s
      BY <1>0, <1>2, <2>1, <2>2
    <3> QED
      BY <1>2, <3>1, WorkParts
  <2>3. CASE ~OwnsVersion(s, k)
    <3>1. row' = row /\ row'[k].owner # s
      BY <1>2, <2>3, OwnsAsLeased DEF Owns
    <3> QED
      BY <1>2, <3>1, WorkParts
  <2> QED
    BY <2>2, <2>3
<1>3. CASE Simulate(s)
  <2>1. at[s] # "idle" /\ batch' = batch /\ row' = row /\ update' = update
    BY <1>3 DEF Simulate
  <2>2. Moves(s, "mocked") \/ Moves(s, "failed")
    BY <1>3 DEF Simulate
  <2> QED
    BY <1>0, <2>1, <2>2, WorkParts
<1>4. CASE Finish(s)
  <2>1. at[s] # "idle" /\ batch' = batch
    BY <1>4 DEF Finish
  <2>2. CASE Moves(s, "failed") /\ UNCHANGED <<row, update>>
    BY <1>0, <2>1, <2>2, WorkParts
  <2>3. CASE Ends(s)
    BY <1>0, <1>2, <1>4, <2>1, <2>2, <2>3 DEF Finish
  <2> QED
    BY <1>4, <2>2, <2>3 DEF Finish
<1>5. CASE Resolve(s)
  <2>1. at[s] # "idle" /\ batch' = batch /\ k \in Keys
    BY <1>5, OwnedRowChanges DEF Resolve
  <2>2. CASE UNCHANGED <<row, update>>
    <3>1. Moves(s, "send") \/ Moves(s, "lookup") \/ Moves(s, "failed")
      BY <1>5, <2>2 DEF Resolve, Persists
    <3> QED
      BY <1>0, <2>1, <2>2, <3>1, WorkParts
  <2>3. CASE /\ row' \in {row, WithId(s, mapping[k])}
             /\ update' = [update EXCEPT ![s].id = mapping[k]]
             /\ Moves(s, "send") \/ Moves(s, "failed")
    <3>1. mapping[k] \in Ids
      BY <2>1 DEF HandInv, TypeOK
    <3>2. \/ row' = row
          \/ \E r \in RowType :
               /\ row' = [row EXCEPT ![k] = r]
               /\ row[k] \in RowType /\ r.version = row[k].version
               /\ r.owner = row[k].owner /\ r.attempts = row[k].attempts
      BY <2>1, <2>3, <3>1, OwnedRowChanges
    <3> QED
      BY <1>0, <2>1, <2>3, <3>1, <3>2, WorkParts
  <2> QED
    BY <1>5, <2>2, <2>3 DEF Resolve, Persists
<1>6. CASE Lookup(s)
  <2>1. at[s] # "idle" /\ batch' = batch /\ row' = row
    BY <1>6 DEF Lookup
  <2>2. \/ \E c \in Checks : update' = [update EXCEPT ![s].id = c] /\ Moves(s, "found")
        \/ update' = update /\ Moves(s, "send")
        \/ update' = update /\ (Moves(s, "failed") \/ Moves(s, "rejected"))
    BY <1>6 DEF Lookup, Matches
  <2> QED
    BY <1>0, <2>1, <2>2, WorkParts
<1>7. CASE Persist(s)
  <2>1. /\ at[s] # "idle" /\ batch' = batch /\ update' = update
        /\ row' \in {row, WithId(s, update[s].id)}
    BY <1>7 DEF Persist, Persists
  <2>2. update[s].id \in Ids
    BY <1>0, <2>1, InHandTyped
  <2>3. Moves(s, "send") \/ Moves(s, "sent") \/ Moves(s, "failed")
    BY <1>7 DEF Persist, Persists
  <2>4. \/ row' = row
        \/ \E r \in RowType :
             /\ row' = [row EXCEPT ![k] = r]
             /\ row[k] \in RowType /\ r.version = row[k].version
             /\ r.owner = row[k].owner /\ r.attempts = row[k].attempts
    BY <2>1, <2>2, OwnedRowChanges
  <2> QED
    BY <1>0, <2>1, <2>3, <2>4, WorkParts
<1>8. CASE Renew(s)
  <2>1. at[s] # "idle" /\ batch' = batch
    BY <1>8 DEF Renew
  <2>2. CASE Owns(s, k)
    <3>1. k \in Keys /\ row[k] \in RowType /\ row \in [Keys -> RowType \cup {NoRow}]
      BY <2>1, <2>2, OwnedRowChanges DEF HandInv, TypeOK, RowType
    <3> DEFINE r == [row[k] EXCEPT !.lease = "future"]
    <3>2. r \in RowType
      BY <3>1, RowChanges
    <3>3. r.version = row[k].version /\ r.owner = row[k].owner /\ r.attempts = row[k].attempts
      BY <3>1 DEF RowType
    <3>4. row' = [row EXCEPT ![k] = r]
      BY <1>8, <2>2, <3>1 DEF Renew
    <3>5. Moves(s, "inflight") /\ update' = update
      BY <1>8, <2>2 DEF Renew
    <3> HIDE DEF r
    <3> QED
      BY <1>0, <2>1, <3>1, <3>2, <3>3, <3>4, <3>5, WorkParts
  <2>3. CASE ~Owns(s, k)
    <3>1. row' = row /\ Ends(s) /\ row'[k].owner # s
      BY <1>8, <2>3 DEF Renew, Owns
    <3> QED
      BY <2>1, <3>1, WorkParts
  <2> QED
    BY <2>2, <2>3
<1>9. CASE NotFound(s)
  <2>1. at[s] # "idle" /\ batch' = batch /\ update' = update /\ Moves(s, "failed")
    BY <1>9 DEF NotFound
  <2>2. CASE row' = row
    BY <1>0, <2>1, <2>2, WorkParts
  <2>3. CASE row' # row
    <3>1. Owns(s, k) /\ row' = [row EXCEPT ![k].id = None]
      BY <1>9, <2>3 DEF NotFound
    <3>2. k \in Keys /\ row[k] \in RowType /\ row \in [Keys -> RowType \cup {NoRow}]
      BY <2>1, <3>1, OwnedRowChanges DEF HandInv, TypeOK, RowType
    <3> DEFINE r == [row[k] EXCEPT !.id = None]
    <3>3. r \in RowType
      BY <1>0, <3>2, RowChanges
    <3>4. r.version = row[k].version /\ r.owner = row[k].owner /\ r.attempts = row[k].attempts
      BY <3>2 DEF RowType
    <3>5. row' = [row EXCEPT ![k] = r]
      BY <3>1, <3>2
    <3> HIDE DEF r
    <3> QED
      BY <1>0, <2>1, <3>2, <3>3, <3>4, <3>5, WorkParts
  <2> QED
    BY <2>2, <2>3
<1>10. CASE Refuse(s)
  <2>1. at[s] # "idle" /\ batch' = batch /\ update' = update /\ row' = row
    BY <1>10 DEF Refuse
  <2>2. Moves(s, "failed") \/ Moves(s, "rejected")
    BY <1>10 DEF Refuse
  <2> QED
    BY <1>0, <2>1, <2>2, WorkParts
<1>11. CASE Retry(s)
  <2>1. at[s] # "idle" /\ batch' = batch /\ Ends(s)
    BY <1>11 DEF Retry
  <2>2. k \in Keys /\ row \in [Keys -> RowType \cup {NoRow}] /\ update[s].attempts \in 0..MaxAttempts
    BY <2>1, InHandTyped DEF HandInv, TypeOK, RowType
  <2>3. CASE row' = [row EXCEPT ![k] = NoRow]
    <3>1. row'[k].owner # s
      BY <1>0, <2>2, <2>3
    <3> QED
      BY <2>1, <2>3, <3>1, WorkParts
  <2>4. CASE ~Owns(s, k) /\ row' = row
    BY <2>1, <2>4, WorkParts DEF Owns
  <2>5. CASE /\ Owns(s, k) /\ ~(update[s].attempts >= MaxAttempts - 1)
             /\ row' = [row EXCEPT ![k] = [Released(row[k]) EXCEPT !.attempts = @ + 1]]
    <3>1. row[k] \in RowType
      BY <2>1, <2>5, OwnedRowChanges
    <3>2. row[k].attempts = update[s].attempts
      BY <2>1, <2>5, OwnsAsLeased DEF AsLeased
    <3>3. row[k].attempts < MaxAttempts
      BY <2>2, <2>5, <3>2, CheckRunsAssumption
    <3> DEFINE r == [Released(row[k]) EXCEPT !.attempts = @ + 1]
    <3>4. r \in RowType
      BY <3>1, <3>3, RowChanges
    <3>5. r.version = row[k].version /\ r.owner = None
      BY <3>1 DEF RowType, Released
    <3>6. row' = [row EXCEPT ![k] = r]
      BY <2>5
    <3>7. row'[k].owner # s
      BY <2>2, <3>5, <3>6, CheckRunsAssumption
    <3> HIDE DEF r
    <3> QED
      BY <2>1, <3>1, <3>4, <3>5, <3>6, <3>7, WorkParts
  <2> QED
    BY <1>11, <2>3, <2>4, <2>5 DEF Retry
<1>12. ASSUME NEW last \in BOOLEAN, Create(s, last) PROVE WorkDone(s)
  <2>1. at[s] # "idle" /\ batch' = batch /\ row' = row
    BY <1>12 DEF Create
  <2>2. \/ \E c \in Checks : /\ update' = [update EXCEPT ![s].id = c]
                             /\ Moves(s, "created") \/ Moves(s, "found")
        \/ update' = update /\ Moves(s, "failed")
    BY <1>12 DEF Create
  <2> QED
    BY <1>0, <2>1, <2>2, WorkParts
<1>13. ASSUME NEW last \in BOOLEAN, Patch(s, last) PROVE WorkDone(s)
  <2>1. at[s] # "idle" /\ batch' = batch /\ row' = row /\ update' = update
    BY <1>13 DEF Patch
  <2>2. Moves(s, "sent") \/ Moves(s, "send") \/ Moves(s, "failed")
    BY <1>13 DEF Patch
  <2> QED
    BY <1>0, <2>1, <2>2, WorkParts
<1> QED
  BY <1>1, <1>3, <1>4, <1>5, <1>6, <1>7, <1>8, <1>9, <1>10, <1>11, <1>12, <1>13 DEF Work

\* Work keeps hands apart and owned rows in hand.
LEMMA WorkKeepsHands ==
  ASSUME HandInv, NEW s \in Senders, WorkDone(s)
  PROVE  HandsApart' /\ OwnedInHand'
<1> DEFINE k == update[s].key
<1>1. /\ at[s] # "idle" /\ batch' = batch /\ k \in Keys
      /\ \A t \in Senders : t # s => at'[t] = at[t] /\ update'[t] = update[t]
      /\ \A i \in Keys : i # k => row'[i] = row[i]
  BY InHandTyped DEF HandInv, WorkDone, WorkKept
<1>2. \/ row'[k].owner = None
      \/ /\ row'[k].owner = row[k].owner /\ row'[k].version = row[k].version
         /\ row'[k].attempts = row[k].attempts
  BY DEF WorkDone, WorkKept, NoRow
<1>3. \/ /\ at'[s] # "idle" /\ update'[s].key = k
         /\ update'[s].version = update[s].version /\ update'[s].attempts = update[s].attempts
      \/ at'[s] = "idle" /\ row'[k].owner # s
  BY DEF WorkDone, WorkKept
<1>4. HandsApart'
  BY <1>1, <1>3 DEF HandInv, HandsApart
<1>5. OwnedInHand'
  <2> SUFFICES ASSUME NEW t \in Senders, NEW i \in Keys, row'[i].owner = t
               PROVE  \/ \E u \in batch'[t] : AsLeased(u, i)'
                      \/ at'[t] # "idle" /\ AsLeased(update[t], i)'
    BY DEF OwnedInHand
  <2>1. /\ row[i].owner = t /\ row'[i].version = row[i].version
        /\ row'[i].attempts = row[i].attempts
    BY <1>1, <1>2, CheckRunsAssumption
  <2>2. \/ \E u \in batch[t] : AsLeased(u, i)
        \/ at[t] # "idle" /\ AsLeased(update[t], i)
    BY <2>1 DEF HandInv, OwnedInHand
  <2>3. CASE \E u \in batch[t] : AsLeased(u, i)
    BY <1>1, <2>1, <2>3 DEF AsLeased
  <2>4. CASE t # s /\ at[t] # "idle" /\ AsLeased(update[t], i)
    BY <1>1, <2>1, <2>4 DEF AsLeased
  <2>5. CASE t = s /\ at[t] # "idle" /\ AsLeased(update[t], i)
    BY <1>3, <2>1, <2>5 DEF AsLeased
  <2> QED
    BY <2>2, <2>3, <2>4, <2>5
<1> QED
  BY <1>4, <1>5

\* The steps of send_one keep the types of mapping, check runs and history.
LEMMA WorkOthersTyped ==
  ASSUME HandInv, NEW s \in Senders, Work(s)
  PROVE  OthersTyped'
<1> DEFINE k == update[s].key
<1>0. OthersTyped /\ TypeOK
  BY TypeParts DEF HandInv
<1>1. CASE Defer(s) \/ Lookup(s) \/ Renew(s) \/ Refuse(s)
  <2>1. UNCHANGED <<version, reports, woken, unread, told, mapping, of, shown, dropped, simulated, restarts>>
    BY <1>1 DEF Defer, Lookup, Renew, Refuse, Stays, jobVars, gitHub, history
  <2> QED
    BY <1>0, <2>1 DEF OthersTyped
<1>2. CASE Simulate(s)
  <2>1. k \in Keys /\ Mock \in Ids
    BY <1>0, <1>2, InHandTyped DEF Simulate, Ids
  <2>2. UNCHANGED <<version, reports, woken, unread, told, of, shown, dropped, simulated, restarts>>
    BY <1>2 DEF Simulate, Stays, jobVars, gitHub, history
  <2> QED
    BY <1>0, <1>2, <2>1, <2>2 DEF Simulate, OthersTyped
<1>3. CASE Persist(s)
  <2>1. k \in Keys /\ update[s].id \in Ids
    BY <1>0, <1>3, InHandTyped DEF Persist
  <2>2. UNCHANGED <<version, reports, woken, unread, told, of, shown, dropped, simulated, restarts>>
    BY <1>3 DEF Persist, Stays, jobVars, gitHub, history
  <2> QED
    BY <1>0, <1>3, <2>1, <2>2 DEF Persist, Persists, OthersTyped
<1>4. CASE NotFound(s)
  <2>1. k \in Keys /\ None \in Ids
    BY <1>0, <1>4, InHandTyped DEF NotFound, Ids
  <2>2. UNCHANGED <<version, reports, woken, unread, told, of, shown, dropped, simulated, restarts>>
    BY <1>4 DEF NotFound, Stays, jobVars, gitHub, history
  <2> QED
    BY <1>0, <1>4, <2>1, <2>2 DEF NotFound, OthersTyped
<1>5. CASE Retry(s)
  <2>1. k \in Keys
    BY <1>0, <1>5, InHandTyped DEF Retry
  <2>2. UNCHANGED <<version, reports, woken, unread, told, mapping, of, shown, simulated, restarts>>
    BY <1>5 DEF Retry, jobVars, gitHub
  <2> QED
    BY <1>0, <1>5, <2>1, <2>2 DEF Retry, OthersTyped
<1>6. ASSUME NEW last \in BOOLEAN, Create(s, last) PROVE OthersTyped'
  <2>1. k \in Keys /\ update[s].version \in Versions /\ 0 \in Versions
    BY <1>0, <1>6, InHandTyped, CheckRunsAssumption DEF Create, Versions
  <2>2. External[k] \in Keys
    BY <2>1, CheckRunsAssumption
  <2>3. UNCHANGED <<version, reports, woken, unread, told, mapping, dropped, simulated, restarts>>
    BY <1>6 DEF Create, jobVars, history
  <2>4. PICK c \in Checks : /\ of' = [of EXCEPT ![c] = External[k]]
                            /\ shown' = [shown EXCEPT ![c] = IF last THEN update[s].version ELSE 0]
    BY <1>6 DEF Create
  <2> QED
    BY <1>0, <2>1, <2>2, <2>3, <2>4 DEF OthersTyped
<1>7. ASSUME NEW last \in BOOLEAN, Patch(s, last) PROVE OthersTyped'
  <2>1. update[s].version \in Versions
    BY <1>0, <1>7, InHandTyped DEF Patch
  <2>2. UNCHANGED <<version, reports, woken, unread, told, mapping, of, dropped, simulated, restarts>>
    BY <1>7 DEF Patch, jobVars, history
  <2> QED
    BY <1>0, <1>7, <2>1, <2>2 DEF Patch, OthersTyped
<1>8. CASE Resolve(s)
  <2>1. k \in Keys /\ mapping[k] \in Ids
    BY <1>0, <1>8, InHandTyped DEF Resolve, OthersTyped
  <2>2. UNCHANGED <<version, reports, woken, unread, told, of, shown, dropped, simulated, restarts>>
    BY <1>8 DEF Resolve, Stays, jobVars, gitHub, history
  <2>3. mapping' = mapping \/ mapping' = [mapping EXCEPT ![k] = mapping[k]]
    BY <1>8 DEF Resolve, Persists
  <2> QED
    BY <1>0, <2>1, <2>2, <2>3 DEF OthersTyped
<1>9. CASE Finish(s)
  <2>1. k \in Keys
    BY <1>0, <1>9, InHandTyped DEF Finish
  <2>2. UNCHANGED <<version, reports, woken, unread, told, mapping, of, shown, dropped, restarts>>
    BY <1>9 DEF Finish, jobVars, gitHub
  <2> QED
    BY <1>0, <1>9, <2>1, <2>2 DEF Finish, OthersTyped
<1> QED
  BY <1>1, <1>2, <1>3, <1>4, <1>5, <1>6, <1>7, <1>8, <1>9 DEF Work

\* A step of no sender keeps the hands when it leaves owned rows as they are.
LEMMA RowsAsLeased ==
  ASSUME HandInv, UNCHANGED senderVars,
         \A i \in Keys : \/ row'[i].owner = None
                         \/ /\ row'[i].owner = row[i].owner /\ row'[i].version = row[i].version
                            /\ row'[i].attempts = row[i].attempts
  PROVE  SendersTyped' /\ HandsApart' /\ OwnedInHand'
<1>1. at' = at /\ update' = update /\ batch' = batch
  BY DEF senderVars
<1>2. SendersTyped' /\ HandsApart'
  BY <1>1, TypeParts DEF HandInv, SendersTyped, HandsApart
<1>3. OwnedInHand'
  <2> SUFFICES ASSUME NEW t \in Senders, NEW i \in Keys, row'[i].owner = t
               PROVE  \/ \E u \in batch'[t] : AsLeased(u, i)'
                      \/ at'[t] # "idle" /\ AsLeased(update[t], i)'
    BY DEF OwnedInHand
  <2>1. /\ row[i].owner = t /\ row'[i].version = row[i].version
        /\ row'[i].attempts = row[i].attempts
    BY CheckRunsAssumption
  <2>2. \/ \E u \in batch[t] : AsLeased(u, i)
        \/ at[t] # "idle" /\ AsLeased(update[t], i)
    BY <2>1 DEF HandInv, OwnedInHand
  <2> QED
    BY <1>1, <2>1, <2>2 DEF AsLeased
<1> QED
  BY <1>2, <1>3

\* lease_check_run_updates: what it leases is its batch.
LEMMA LeaseStep ==
  ASSUME HandInv, NEW s \in Senders, Lease(s)
  PROVE  /\ RowsTyped' /\ SendersTyped' /\ HandsApart' /\ OwnedInHand'
         /\ \A i \in Leasable(s) : row[i] \in RowType /\ i \in Keys
         /\ \A i \in Keys : /\ row'[i].version = row[i].version
                            /\ row'[i].attempts = row[i].attempts
                            /\ row'[i].id = row[i].id
                            /\ row'[i] = NoRow <=> row[i] = NoRow
<1> DEFINE taken(i) == [key |-> i, version |-> row[i].version, id |-> row[i].id,
                        attempts |-> row[i].attempts]
           held(i)  == [row[i] EXCEPT !.owner = s, !.lease = "future"]
<1>1. /\ at[s] = "idle" /\ batch[s] = {}
      /\ row' = [i \in Keys |-> IF i \in Leasable(s) THEN held(i) ELSE row[i]]
      /\ batch' = [batch EXCEPT ![s] = {taken(i) : i \in Leasable(s)}]
      /\ UNCHANGED <<at, update>>
  BY DEF Lease
<1>2. TypeOK /\ RowsTyped /\ SendersTyped
  BY TypeParts DEF HandInv
<1>3. ASSUME NEW i \in Leasable(s)
      PROVE  /\ i \in Keys /\ row[i] \in RowType
             /\ held(i) \in RowType /\ held(i).owner = s
             /\ held(i).version = row[i].version /\ held(i).attempts = row[i].attempts
             /\ held(i).id = row[i].id
             /\ taken(i) \in Updates /\ taken(i).key = i
             /\ taken(i).version = row[i].version /\ taken(i).attempts = row[i].attempts
  <2>1. i \in Keys /\ row[i] \in RowType
    BY <1>2, RowTyped DEF Leasable
  <2>2. held(i) \in RowType
    BY <2>1, RowChanges
  <2>3. held(i).owner = s /\ held(i).version = row[i].version /\ held(i).attempts = row[i].attempts
        /\ held(i).id = row[i].id
    BY <2>1 DEF RowType
  <2>4. taken(i) \in Updates
    BY <2>1 DEF RowType, Updates
  <2> QED
    BY <2>1, <2>2, <2>3, <2>4
<1> HIDE DEF taken, held
<1>4. RowsTyped'
  BY <1>1, <1>2, <1>3 DEF RowsTyped
<1>5. SendersTyped'
  BY <1>1, <1>2, <1>3 DEF SendersTyped
<1>6. HandsApart'
  <2> SUFFICES ASSUME NEW t \in Senders, NEW u \in batch'[t]
               PROVE  /\ \A v \in batch'[t] : u.key = v.key => u = v
                      /\ at'[t] # "idle" => u.key # update'[t].key
    BY DEF HandsApart
  <2>1. CASE t = s
    <3>1. batch'[t] = {taken(i) : i \in Leasable(s)}
      BY <1>1, <1>2, <2>1 DEF SendersTyped
    <3>2. PICK i \in Leasable(s) : u = taken(i)
      BY <3>1
    <3>3. \A v \in batch'[t] : u.key = v.key => u = v
      BY <1>3, <3>1, <3>2
    <3> QED
      BY <1>1, <2>1, <3>3
  <2>2. CASE t # s
    <3>1. batch'[t] = batch[t] /\ at' = at /\ update' = update
      BY <1>1, <1>2, <2>2 DEF SendersTyped
    <3> QED
      BY <3>1 DEF HandInv, HandsApart
  <2> QED
    BY <2>1, <2>2
<1>7. OwnedInHand'
  <2> SUFFICES ASSUME NEW t \in Senders, NEW i \in Keys, row'[i].owner = t
               PROVE  \/ \E u \in batch'[t] : AsLeased(u, i)'
                      \/ at'[t] # "idle" /\ AsLeased(update[t], i)'
    BY DEF OwnedInHand
  <2>1. CASE i \in Leasable(s)
    <3>1. t = s /\ row'[i] = held(i)
      BY <1>1, <1>3, <2>1
    <3>2. taken(i) \in batch'[t]
      BY <1>1, <1>2, <2>1, <3>1 DEF SendersTyped
    <3>3. /\ taken(i).key = i /\ taken(i).version = row'[i].version
          /\ taken(i).attempts = row'[i].attempts
      BY <1>3, <2>1, <3>1
    <3> QED
      BY <3>2, <3>3 DEF AsLeased
  <2>2. CASE i \notin Leasable(s)
    <3>1. row'[i] = row[i] /\ row[i].owner = t
      BY <1>1, <2>2
    <3>2. \/ \E u \in batch[t] : AsLeased(u, i)
          \/ at[t] # "idle" /\ AsLeased(update[t], i)
      BY <3>1 DEF HandInv, OwnedInHand
    <3>3. t # s
      BY <1>1, <3>2
    <3>4. batch'[t] = batch[t] /\ at' = at /\ update' = update
      BY <1>1, <1>2, <3>3 DEF SendersTyped
    <3> QED
      BY <3>1, <3>2, <3>4 DEF AsLeased
  <2> QED
    BY <2>1, <2>2
<1>8. ASSUME NEW i \in Keys
      PROVE  /\ row'[i].version = row[i].version
             /\ row'[i].attempts = row[i].attempts
             /\ row'[i].id = row[i].id
             /\ row'[i] = NoRow <=> row[i] = NoRow
  <2>1. NoRow \notin RowType
    BY CheckRunsAssumption DEF NoRow, RowType, Versions
  <2> QED
    BY <1>1, <1>3, <2>1
<1> QED
  BY <1>3, <1>4, <1>5, <1>6, <1>7, <1>8

\* drain_once takes an update from its batch into its hand.
LEMMA BeginStep ==
  ASSUME HandInv, NEW s \in Senders, Begin(s)
  PROVE  SendersTyped' /\ HandsApart' /\ OwnedInHand'
<1>1. PICK u \in batch[s] : /\ update' = [update EXCEPT ![s] = u]
                            /\ batch' = [batch EXCEPT ![s] = @ \ {u}]
  BY DEF Begin
<1>2. at[s] = "idle" /\ at' = [at EXCEPT ![s] = "started"] /\ row' = row
  BY DEF Begin, Moves
<1>3. SendersTyped /\ NoUpdate \notin Updates
  BY TypeParts, CheckRunsAssumption DEF HandInv, NoUpdate, Updates
<1>4. SendersTyped'
  BY <1>1, <1>2, <1>3 DEF SendersTyped, Phases
<1>5. HandsApart'
  BY <1>1, <1>2, <1>3 DEF HandInv, HandsApart, SendersTyped
<1>6. OwnedInHand'
  <2> SUFFICES ASSUME NEW t \in Senders, NEW i \in Keys, row[i].owner = t
               PROVE  \/ \E v \in batch'[t] : AsLeased(v, i)
                      \/ at'[t] # "idle" /\ AsLeased(update'[t], i)
    BY <1>2 DEF OwnedInHand, AsLeased
  <2>1. \/ \E v \in batch[t] : AsLeased(v, i)
        \/ at[t] # "idle" /\ AsLeased(update[t], i)
    BY DEF HandInv, OwnedInHand
  <2> QED
    BY <1>1, <1>2, <1>3, <2>1 DEF SendersTyped
<1> QED
  BY <1>4, <1>5, <1>6

\* A restart: the rows of the sender belong to a process that is gone.
LEMMA RestartStep ==
  ASSUME HandInv, NEW s \in Senders, Restart(s)
  PROVE  RowsTyped' /\ SendersTyped' /\ HandsApart' /\ OwnedInHand'
<1>1. /\ row' = [k \in Keys |-> IF row[k].owner = s THEN [row[k] EXCEPT !.owner = "gone"]
                                ELSE row[k]]
      /\ at' = [at EXCEPT ![s] = "idle"]
      /\ update' = [update EXCEPT ![s] = NoUpdate]
      /\ batch' = [batch EXCEPT ![s] = {}]
  BY DEF Restart, Ends, Moves, Owns
<1>2. TypeOK /\ RowsTyped /\ SendersTyped
  BY TypeParts DEF HandInv
<1>3. ASSUME NEW k \in Keys, row[k].owner = s
      PROVE  /\ [row[k] EXCEPT !.owner = "gone"] \in RowType
             /\ [row[k] EXCEPT !.owner = "gone"].owner = "gone"
  <2>1. row[k] \in RowType
    BY <1>2, <1>3, RowTyped, CheckRunsAssumption
  <2>2. [row[k] EXCEPT !.owner = "gone"] \in RowType
    BY <2>1, RowChanges DEF Owners
  <2>3. [row[k] EXCEPT !.owner = "gone"].owner = "gone"
    BY <2>1 DEF RowType
  <2> QED
    BY <2>2, <2>3
<1>4. RowsTyped'
  BY <1>1, <1>2, <1>3 DEF RowsTyped
<1>5. SendersTyped' /\ HandsApart'
  BY <1>1, <1>2 DEF SendersTyped, Phases, HandInv, HandsApart
<1>6. OwnedInHand'
  <2> SUFFICES ASSUME NEW t \in Senders, NEW i \in Keys, row'[i].owner = t
               PROVE  \/ \E u \in batch'[t] : AsLeased(u, i)'
                      \/ at'[t] # "idle" /\ AsLeased(update[t], i)'
    BY DEF OwnedInHand
  <2>1. row'[i] = row[i] /\ row[i].owner = t /\ t # s
    BY <1>1, <1>3, CheckRunsAssumption
  <2>2. \/ \E u \in batch[t] : AsLeased(u, i)
        \/ at[t] # "idle" /\ AsLeased(update[t], i)
    BY <2>1 DEF HandInv, OwnedInHand
  <2>3. batch'[t] = batch[t] /\ at'[t] = at[t] /\ update'[t] = update[t]
    BY <1>1, <1>2, <2>1 DEF SendersTyped
  <2> QED
    BY <2>1, <2>2, <2>3 DEF AsLeased
<1> QED
  BY <1>4, <1>5, <1>6

\* A row that is inserted: unleased, due, no attempt counted.
LEMMA FreshRow ==
  ASSUME NEW v \in Versions, NEW i \in Ids
  PROVE  LET r == [NoRow EXCEPT !.version = v, !.due = TRUE, !.id = i]
             q == [NoRow EXCEPT !.version = v, !.due = TRUE]
         IN  /\ r \in RowType /\ r.version = v /\ r.owner = None /\ r.id = i
             /\ q \in RowType /\ q.version = v /\ q.owner = None /\ q.id = None
<1> DEFINE Blank == [version : Int, id : Ids, attempts : 0..MaxAttempts, due : BOOLEAN,
                     owner : Owners, lease : {"none", "future", "past"}]
<1>1. NoRow \in Blank /\ NoRow.owner = None /\ NoRow.id = None
  BY CheckRunsAssumption DEF NoRow, Ids, Owners
<1>2. \A b \in Blank : /\ [b EXCEPT !.version = v, !.due = TRUE, !.id = i] \in RowType
                       /\ [b EXCEPT !.version = v, !.due = TRUE] \in RowType
  BY DEF RowType
<1>3. \A b \in Blank :
        /\ [b EXCEPT !.version = v, !.due = TRUE, !.id = i].version = v
        /\ [b EXCEPT !.version = v, !.due = TRUE, !.id = i].owner = b.owner
        /\ [b EXCEPT !.version = v, !.due = TRUE, !.id = i].id = i
        /\ [b EXCEPT !.version = v, !.due = TRUE].version = v
        /\ [b EXCEPT !.version = v, !.due = TRUE].owner = b.owner
        /\ [b EXCEPT !.version = v, !.due = TRUE].id = b.id
  OBVIOUS
<1> QED
  BY <1>1, <1>2, <1>3

\* project_row: the row a job gets is well formed and nobody's.
LEMMA ProjectStep ==
  ASSUME HandInv, NEW S \in SUBSET Jobs, Project(S)
  PROVE  /\ RowsTyped'
         /\ \A k \in Keys \ Newer(S) : row'[k] = row[k]
         /\ \A k \in Newer(S) : /\ k \in Jobs /\ k \in S /\ reports
                                /\ version[k] > row[k].version
                                /\ row'[k] \in RowType
                                /\ row'[k].version = version[k] /\ row'[k].owner = None
                                /\ row'[k].id \in {mapping[k], row[k].id}
<1> DEFINE known(k) == IF mapping[k] # None THEN mapping[k] ELSE row[k].id
           fresh(k) == [NoRow EXCEPT !.version = version[k], !.due = TRUE, !.id = known(k)]
<1>1. row' = [k \in Keys |-> IF k \in Newer(S) THEN fresh(k) ELSE row[k]]
  BY DEF Project
<1>2. TypeOK /\ RowsTyped
  BY TypeParts DEF HandInv
<1>3. ASSUME NEW k \in Newer(S)
      PROVE  /\ k \in Jobs /\ k \in S /\ k \in Keys /\ reports /\ version[k] > row[k].version
             /\ fresh(k) \in RowType /\ fresh(k).version = version[k]
             /\ fresh(k).owner = None /\ fresh(k).id \in {mapping[k], row[k].id}
  <2>1. k \in Jobs /\ k \in S /\ k \in Keys /\ reports /\ version[k] > row[k].version
    BY DEF Newer, Keys
  <2>2. row[k].id \in Ids /\ mapping[k] \in Ids /\ version[k] \in Versions
    BY <1>2, <2>1, RowTyped DEF TypeOK
  <2>3. known(k) \in Ids /\ known(k) \in {mapping[k], row[k].id}
    BY <2>2
  <2> HIDE DEF known
  <2>4. PICK v \in Versions, i \in Ids : v = version[k] /\ i = known(k)
    BY <2>2, <2>3
  <2> DEFINE r == [NoRow EXCEPT !.version = v, !.due = TRUE, !.id = i]
  <2>5. r \in RowType /\ r.version = v /\ r.owner = None /\ r.id = i
    BY FreshRow
  <2>6. fresh(k) = r
    BY <2>4
  <2> QED
    BY <2>1, <2>3, <2>4, <2>5, <2>6
<1> HIDE DEF fresh
<1>4. RowsTyped'
  BY <1>1, <1>2, <1>3 DEF RowsTyped
<1> QED
  BY <1>1, <1>3, <1>4

\* A job changes, or an event about it is appended.
Touches(j) == StatusChanges(j) \/ ChangesUntold(j) \/ Emit(j) \/ Wake(j)

\* Whatever touches a job leaves rows, senders and GitHub alone, and moves
\* what was told only for a job it leaves unread.
LEMMA TouchesStep ==
  ASSUME TypeOK, NEW j \in Jobs, Touches(j)
  PROVE  /\ UNCHANGED <<reports, row, mapping, senderVars, of, shown, dropped, simulated, restarts>>
         /\ version' \in [Jobs -> Versions] /\ told' \in [Jobs -> Versions]
         /\ \A i \in Jobs : version'[i] >= version[i]
         /\ \A i \in Jobs : \/ told'[i] = told[i]
                            \/ told'[i] = version'[i] /\ i \in unread'
         /\ unread \subseteq unread' /\ unread' \subseteq Jobs
         /\ woken' \subseteq Keys
         /\ \/ woken' = woken
            \/ woken' = woken \cup {j} /\ reports /\ j \in unread'
<1>0. /\ version \in [Jobs -> Versions] /\ told \in [Jobs -> Versions] /\ unread \subseteq Jobs
      /\ woken \subseteq Keys /\ j \in Keys /\ \A v \in Versions : v \in Nat
  BY CheckRunsAssumption DEF TypeOK, Keys, Versions
<1>1. UNCHANGED <<reports, row, mapping, senderVars, of, shown, dropped, simulated, restarts>>
  BY DEF Touches, StatusChanges, ChangesUntold, Emit, Wake, gitHub, history
<1>2. /\ version' \in [Jobs -> Versions]
      /\ \A i \in Jobs : version'[i] >= version[i]
  <2>1. CASE version' = version
    BY <1>0, <2>1
  <2>2. CASE Changes(j)
    <3>1. version[j] + 1 \in Versions /\ version' = [version EXCEPT ![j] = version[j] + 1]
      BY <1>0, <2>2, CheckRunsAssumption DEF Changes, Versions
    <3> QED
      BY <1>0, <3>1
  <2> QED
    BY <2>1, <2>2 DEF Touches, StatusChanges, ChangesUntold, Emit, Wake
<1>3. UNCHANGED <<unread, told>> \/ Tells({j}) \/ Tells(Jobs)
  BY DEF Touches, StatusChanges, ChangesUntold, Emit, Wake
<1>4. /\ told' \in [Jobs -> Versions]
      /\ \A i \in Jobs : \/ told'[i] = told[i]
                         \/ told'[i] = version'[i] /\ i \in unread'
      /\ unread \subseteq unread' /\ unread' \subseteq Jobs
  BY <1>0, <1>2, <1>3 DEF Tells
<1>5. woken' = woken \/ (woken' = woken \cup {j} /\ reports /\ j \in unread')
  BY DEF Touches, StatusChanges, ChangesUntold, Emit, Wake, Tells
<1> QED
  BY <1>0, <1>1, <1>2, <1>4, <1>5

\* Every step of jobs, reporters, projector, senders, clock and crashes keeps
\* the types and the hands.
LEMMA HandStep ==
  ASSUME HandInv, [Next]_vars
  PROVE  HandInv'
<1>0. TypeOK /\ RowsTyped /\ SendersTyped /\ OthersTyped
  BY TypeParts DEF HandInv
<1> DEFINE Good == RowsTyped' /\ SendersTyped' /\ OthersTyped' /\ HandsApart' /\ OwnedInHand'
<1>1. ASSUME NEW j \in Jobs, Touches(j) PROVE Good
  <2>1. OthersTyped' /\ row' = row /\ UNCHANGED senderVars
    BY <1>0, <1>1, TouchesStep DEF OthersTyped
  <2> QED
    BY <1>0, <2>1, RowsAsLeased DEF RowsTyped
<1>3. ASSUME StampReports PROVE Good
  <2>1. OthersTyped'
    BY <1>0, <1>3 DEF StampReports, OthersTyped, gitHub, history
  <2> QED
    BY <1>0, <1>3, <2>1, RowsAsLeased DEF StampReports, RowsTyped
<1>4. ASSUME NEW f \in Failures, EnqueueFailure(f) PROVE Good
  <2>1. f \in Keys
    BY DEF Keys
  <2> DEFINE r == [NoRow EXCEPT !.version = 0, !.due = TRUE]
  <2>2. 0 \in Versions /\ None \in Ids
    BY CheckRunsAssumption DEF Versions, Ids
  <2>3. r \in RowType /\ r.owner = None
    BY <2>2, FreshRow
  <2>4. row' = [row EXCEPT ![f] = r]
    BY <1>4 DEF EnqueueFailure
  <2> HIDE DEF r
  <2>5. RowsTyped' /\ \A i \in Keys : row'[i].owner = None \/ row'[i] = row[i]
    BY <1>0, <2>1, <2>3, <2>4 DEF RowsTyped
  <2>6. OthersTyped'
    BY <1>0, <1>4, <2>1 DEF EnqueueFailure, OthersTyped, gitHub, history
  <2>7. UNCHANGED senderVars
    BY <1>4 DEF EnqueueFailure
  <2> QED
    BY <2>5, <2>6, <2>7, RowsAsLeased
<1>5. ASSUME NEW S \in SUBSET Jobs, Project(S) PROVE Good
  <2>1. OthersTyped'
    BY <1>0, <1>5 DEF Project, OthersTyped, gitHub
  <2>2. UNCHANGED senderVars
    BY <1>5 DEF Project
  <2> QED
    BY <1>5, <2>1, <2>2, ProjectStep, RowsAsLeased
<1>6. ASSUME NEW s \in Senders, Lease(s) PROVE Good
  <2>1. OthersTyped'
    BY <1>0, <1>6 DEF Lease, Stays, OthersTyped, jobVars, gitHub, history
  <2> QED
    BY <1>6, <2>1, LeaseStep
<1>7. ASSUME NEW s \in Senders, Begin(s) PROVE Good
  <2>1. OthersTyped' /\ RowsTyped'
    BY <1>0, <1>7 DEF Begin, Stays, OthersTyped, RowsTyped, jobVars, gitHub, history
  <2> QED
    BY <1>7, <2>1, BeginStep
<1>8. ASSUME NEW s \in Senders, Work(s) PROVE Good
  <2>1. WorkDone(s)
    BY <1>8, WorkStep
  <2> QED
    BY <1>8, <2>1, WorkKeepsHands, WorkOthersTyped DEF WorkDone
<1>9. ASSUME NEW s \in Senders, Restart(s) PROVE Good
  <2>1. restarts + 1 \in 0..MaxRestarts
    BY <1>0, <1>9, CheckRunsAssumption DEF Restart, OthersTyped
  <2>2. OthersTyped'
    BY <1>0, <1>9, <2>1 DEF Restart, OthersTyped, jobVars, gitHub, history
  <2> QED
    BY <1>9, <2>2, RestartStep
<1>10. ASSUME NEW k \in Keys, BecomesDue(k) \/ Expires(k) PROVE Good
  <2>1. row[k] \in RowType
    BY <1>0, <1>10, RowTyped DEF BecomesDue, Expires
  <2>2. PICK r \in RowType : /\ row' = [row EXCEPT ![k] = r]
                             /\ r.owner = row[k].owner /\ r.version = row[k].version
                             /\ r.attempts = row[k].attempts
    <3>1. CASE BecomesDue(k)
      <4> DEFINE r == [row[k] EXCEPT !.due = TRUE]
      <4>1. r \in RowType
        BY <2>1, RowChanges
      <4>2. r.owner = row[k].owner /\ r.version = row[k].version /\ r.attempts = row[k].attempts
        BY <2>1 DEF RowType
      <4>3. row' = [row EXCEPT ![k] = r]
        BY <1>0, <3>1 DEF BecomesDue, RowsTyped
      <4> QED
        BY <4>1, <4>2, <4>3
    <3>2. CASE Expires(k)
      <4> DEFINE r == [row[k] EXCEPT !.lease = "past"]
      <4>1. r \in RowType
        BY <2>1, RowChanges
      <4>2. r.owner = row[k].owner /\ r.version = row[k].version /\ r.attempts = row[k].attempts
        BY <2>1 DEF RowType
      <4>3. row' = [row EXCEPT ![k] = r]
        BY <1>0, <3>2 DEF Expires, RowsTyped
      <4> QED
        BY <4>1, <4>2, <4>3
    <3> QED
      BY <1>10, <3>1, <3>2
  <2>3. RowsTyped' /\ \A i \in Keys : /\ row'[i].owner = row[i].owner
                                      /\ row'[i].version = row[i].version
                                      /\ row'[i].attempts = row[i].attempts
    BY <1>0, <2>2 DEF RowsTyped
  <2>4. OthersTyped' /\ UNCHANGED senderVars
    BY <1>0, <1>10 DEF BecomesDue, Expires, Stays, OthersTyped, jobVars, gitHub, history, senderVars
  <2> QED
    BY <2>3, <2>4, RowsAsLeased
<1>11. ASSUME UNCHANGED vars PROVE Good
  <2>1. OthersTyped' /\ RowsTyped' /\ UNCHANGED <<senderVars, row>>
    BY <1>0, <1>11 DEF vars, OthersTyped, RowsTyped, jobVars, gitHub, history
  <2> QED
    BY <2>1, RowsAsLeased
<1> HIDE DEF Good
<1>12. Good
  BY <1>1, <1>3, <1>4, <1>5, <1>6, <1>7, <1>8, <1>9, <1>10, <1>11
     DEF Next, Sends, Work, Touches
<1>13. TypeOK'
  BY <1>12, TypeParts DEF Good, RowsTyped, SendersTyped, OthersTyped, TypeOK, RowType
<1> QED
  BY <1>12, <1>13 DEF Good, HandInv

\* At the start no row exists and nothing is in hand.
LEMMA InitHands == Init => HandInv
<1> SUFFICES ASSUME Init PROVE HandInv
  OBVIOUS
<1>1. TypeOK
  <2>1. 0 \in Versions /\ None \in Ids /\ 0 \in 0..MaxRestarts /\ "idle" \in Phases
    BY CheckRunsAssumption DEF Versions, Ids, Phases
  <2>2. RowsTyped /\ SendersTyped
    BY <2>1 DEF Init, RowsTyped, SendersTyped
  <2>3. OthersTyped
    BY <2>1 DEF Init, OthersTyped
  <2> QED
    BY <2>2, <2>3, TypeParts
<1>2. HandsApart
  BY DEF Init, HandsApart
<1>3. OwnedInHand
  BY CheckRunsAssumption DEF Init, OwnedInHand, NoRow
<1> QED
  BY <1>1, <1>2, <1>3 DEF HandInv

\* A sender that owns a row has it in its batch or in hand with the version
\* and the attempts the row has: what lease_check_run_updates returned is
\* still true when retry_check_run_update and finish_check_run_update use it.
THEOREM HandsHold == Spec => []HandInv
<1>1. HandInv /\ [Next]_vars => HandInv'
  BY HandStep
<1> QED
  BY <1>1, InitHands, PTL DEF Spec

\* Rows, updates and check runs stay well formed; no row is ever leased for
\* more attempts than are allowed (retry_check_run_update).
THEOREM CheckRunsTypeCorrect == Spec => []TypeOK
<1>1. HandInv => TypeOK
  BY DEF HandInv
<1> QED
  BY <1>1, HandsHold, PTL

-----------------------------------------------------------------------------
\* Where ids and versions come from

\* The sender has the update in its batch or is at work on it.
InHand(s, u) == u \in batch[s] \/ (at[s] # "idle" /\ u = update[s])

\* The version a row of this key would have now; failures have one status.
Present(k) == IF k \in Jobs THEN version[k] ELSE 0

\* Some sender at work on this key has this id.
Resolved(k, i) == \E s \in Senders : at[s] # "idle" /\ update[s].key = k /\ update[s].id = i

\* A row after a step: its id was known before, and it is gone, of the same
\* version or of the present one.
RowFrom(k) ==
  /\ \/ row'[k].id \in {None, row[k].id, mapping[k]}
     \/ Resolved(k, row'[k].id)
  /\ \/ row'[k] = NoRow
     \/ row[k] # NoRow /\ row'[k].version = row[k].version
     \/ row'[k].version = Present(k) /\ version' = version

\* An update in hand after a step: it was there before, or its row was leased.
HandFrom(s, u) ==
  /\ u.key \in Keys
  /\ \/ u.id \in {row[u.key].id, mapping[u.key]}
     \/ \E v : InHand(s, v) /\ v.key = u.key /\ v.id = u.id
     \/ u.id \in Checks /\ of'[u.id] = External[u.key]
  /\ \/ \E v : InHand(s, v) /\ v.key = u.key /\ v.version = u.version
     \/ /\ row[u.key] # NoRow /\ u.version = row[u.key].version
        /\ UNCHANGED <<version, of, shown>>
        /\ row'[u.key].version = row[u.key].version

\* What any step does to ids and versions.
Origins ==
  /\ \A c \in Checks : of[c] # None => of'[c] = of[c]
  /\ \A j \in Jobs : version'[j] >= version[j]
  /\ \A k \in Keys : /\ RowFrom(k)
                     /\ \/ mapping'[k] \in {None, Mock, mapping[k]}
                        \/ Resolved(k, mapping'[k])
  /\ \A s \in Senders : \A u : InHand(s, u)' => HandFrom(s, u)

\* The ids of the rows, the mapping and the hand after a step of send_one.
WorkIds(s) ==
  LET k == update[s].key
  IN  /\ row'[k].id \in {None, row[k].id, mapping[k], update[s].id}
      /\ \A i \in Keys : i # k => mapping'[i] = mapping[i]
      /\ mapping'[k] \in {None, Mock, mapping[k], update[s].id}
      /\ at'[s] # "idle" => \/ update'[s].id \in {update[s].id, mapping[k]}
                            \/ update'[s].id \in Checks /\ of'[update'[s].id] = External[k]
      /\ version' = version
      /\ \A c \in Checks : of[c] # None => of'[c] = of[c]

\* The rows after set_check_run_update_id.
LEMMA WithIdIds ==
  ASSUME HandInv, NEW s \in Senders, at[s] # "idle", NEW i \in Ids
  PROVE  WithId(s, i)[update[s].key].id \in {row[update[s].key].id, i}
<1> DEFINE k == update[s].key
<1>1. k \in Keys /\ row \in [Keys -> RowType \cup {NoRow}]
  BY InHandTyped DEF HandInv, TypeOK, RowType
<1>2. CASE OwnsVersion(s, k)
  <2>1. row[k] \in RowType
    BY <1>2, OwnedRowChanges DEF OwnsVersion
  <2>2. WithId(s, i) = [row EXCEPT ![k] = [row[k] EXCEPT !.id = i, !.lease = "future"]]
    BY <1>1, <1>2 DEF WithId
  <2>3. [row[k] EXCEPT !.id = i, !.lease = "future"].id = i
    BY <2>1 DEF RowType
  <2> QED
    BY <1>1, <2>2, <2>3
<1>3. CASE ~OwnsVersion(s, k)
  BY <1>3 DEF WithId
<1> QED
  BY <1>2, <1>3

\* Every step of send_one takes ids only from where they were known.
LEMMA WorkIdsStep ==
  ASSUME HandInv, NEW s \in Senders, Work(s)
  PROVE  WorkIds(s)
<1> DEFINE k == update[s].key
<1>0. /\ at[s] # "idle" /\ k \in Keys /\ update[s] \in Updates /\ update[s].id \in Ids
      /\ TypeOK /\ row \in [Keys -> RowType \cup {NoRow}] /\ mapping \in [Keys -> Ids]
      /\ update \in [Senders -> Updates \cup {NoUpdate}]
      /\ of \in [Checks -> Keys \cup {None}]
      /\ NoRow.id = None
  <2>1. at[s] # "idle"
    BY DEF Work, Defer, Simulate, Resolve, Lookup, Persist, Renew, NotFound, Refuse, Finish,
           Retry, Create, Patch
  <2> QED
    BY <2>1, InHandTyped DEF HandInv, TypeOK, RowType, NoRow
<1>1. \A i \in Ids : [update EXCEPT ![s].id = i][s].id = i
  BY <1>0 DEF Updates
<1>2. Owns(s, k) => row[k] \in RowType
  BY <1>0, OwnedRowChanges
<1>3. Owns(s, k) => /\ Released(row[k]).id = row[k].id
                    /\ [Released(row[k]) EXCEPT !.attempts = @ + 1].id = row[k].id
                    /\ [row[k] EXCEPT !.lease = "future"].id = row[k].id
                    /\ [row[k] EXCEPT !.id = None].id = None
  BY <1>2 DEF Released, RowType
<1>4. CASE Defer(s)
  <2>1. row'[k].id = row[k].id
    BY <1>0, <1>3, <1>4 DEF Defer
  <2>2. at'[s] = "idle"
    BY <1>0, <1>4 DEF Defer, Ends, Moves, HandInv, TypeOK
  <2> QED
    BY <1>4, <2>1, <2>2 DEF Defer, Stays, jobVars, gitHub, WorkIds
<1>5. CASE Simulate(s)
  <2>1. mapping'[k] \in {Mock, mapping[k]} /\ \A i \in Keys : i # k => mapping'[i] = mapping[i]
    BY <1>0, <1>5 DEF Simulate
  <2> QED
    BY <1>5, <2>1 DEF Simulate, Stays, jobVars, gitHub, WorkIds
<1>6. CASE Resolve(s)
  <2>1. row'[k].id \in {row[k].id, mapping[k]}
    BY <1>0, <1>6, WithIdIds DEF Resolve, Persists
  <2>2. update'[s].id \in {update[s].id, mapping[k]}
    BY <1>0, <1>1, <1>6 DEF Resolve
  <2>3. mapping' = mapping \/ mapping' = [mapping EXCEPT ![k] = mapping[k]]
    BY <1>6 DEF Resolve, Persists
  <2>4. mapping' = mapping
    BY <1>0, <2>3
  <2> QED
    BY <1>6, <2>1, <2>2, <2>4 DEF Resolve, Stays, jobVars, gitHub, WorkIds
<1>7. CASE Lookup(s)
  <2>1. row' = row /\ mapping' = mapping /\ version' = version /\ of' = of
    BY <1>7 DEF Lookup, Stays, jobVars, gitHub
  <2>2. update' = update \/ \E c \in Matches(k) : update' = [update EXCEPT ![s].id = c]
    BY <1>7 DEF Lookup
  <2>3. \/ update'[s].id = update[s].id
        \/ update'[s].id \in Checks /\ of[update'[s].id] = External[k]
    BY <1>1, <2>2 DEF Matches, Ids
  <2> QED
    BY <2>1, <2>3 DEF WorkIds
<1>8. CASE Persist(s)
  <2>1. row'[k].id \in {row[k].id, update[s].id}
    BY <1>0, <1>8, WithIdIds DEF Persist, Persists
  <2>2. mapping'[k] \in {mapping[k], update[s].id} /\ \A i \in Keys : i # k => mapping'[i] = mapping[i]
    BY <1>0, <1>8 DEF Persist, Persists
  <2> QED
    BY <1>8, <2>1, <2>2 DEF Persist, Stays, jobVars, gitHub, WorkIds
<1>9. CASE Renew(s)
  <2>1. row'[k].id = row[k].id
    BY <1>0, <1>3, <1>9 DEF Renew
  <2>2. update' = update \/ at'[s] = "idle"
    BY <1>0, <1>9 DEF Renew, Ends, Moves, HandInv, TypeOK
  <2> QED
    BY <1>9, <2>1, <2>2 DEF Renew, Stays, jobVars, gitHub, WorkIds
<1>10. CASE NotFound(s)
  <2>1. row'[k].id \in {row[k].id, None}
    BY <1>0, <1>3, <1>10 DEF NotFound
  <2>2. mapping'[k] \in {mapping[k], None} /\ \A i \in Keys : i # k => mapping'[i] = mapping[i]
    BY <1>0, <1>10 DEF NotFound
  <2> QED
    BY <1>10, <2>1, <2>2 DEF NotFound, Stays, jobVars, gitHub, WorkIds
<1>11. CASE Refuse(s)
  BY <1>11 DEF Refuse, Stays, jobVars, gitHub, WorkIds
<1>12. CASE Finish(s)
  <2>1. row'[k].id \in {None, row[k].id}
    BY <1>0, <1>12 DEF Finish
  <2>2. at'[s] = "idle" \/ update' = update
    BY <1>0, <1>12 DEF Finish, Ends, Moves, HandInv, TypeOK
  <2> QED
    BY <1>12, <2>1, <2>2 DEF Finish, jobVars, gitHub, WorkIds
<1>13. CASE Retry(s)
  <2>1. row'[k].id \in {None, row[k].id}
    BY <1>0, <1>3, <1>13 DEF Retry
  <2>2. at'[s] = "idle"
    BY <1>0, <1>13 DEF Retry, Ends, Moves, HandInv, TypeOK
  <2> QED
    BY <1>13, <2>1, <2>2 DEF Retry, jobVars, gitHub, WorkIds
<1>14. ASSUME NEW last \in BOOLEAN, Create(s, last) PROVE WorkIds(s)
  <2>1. row' = row /\ mapping' = mapping /\ version' = version
    BY <1>14 DEF Create, jobVars
  <2>2. PICK c \in Checks : /\ of[c] = None /\ of' = [of EXCEPT ![c] = External[k]]
                            /\ update' = update \/ update' = [update EXCEPT ![s].id = c]
    BY <1>14 DEF Create
  <2>3. of'[c] = External[k] /\ \A d \in Checks : d # c => of'[d] = of[d]
    BY <1>0, <2>2
  <2>4. update'[s].id \in {update[s].id, c}
    BY <1>1, <2>2 DEF Ids
  <2> QED
    BY <2>1, <2>2, <2>3, <2>4 DEF WorkIds
<1>15. ASSUME NEW last \in BOOLEAN, Patch(s, last) PROVE WorkIds(s)
  BY <1>15 DEF Patch, jobVars, WorkIds
<1> QED
  BY <1>4, <1>5, <1>6, <1>7, <1>8, <1>9, <1>10, <1>11, <1>12, <1>13, <1>14, <1>15 DEF Work

\* Every step of the specification keeps to the origins.
LEMMA OriginsStep ==
  ASSUME HandInv, [Next]_vars
  PROVE  Origins
<1>0. TypeOK /\ RowsTyped /\ SendersTyped /\ OthersTyped
  BY TypeParts DEF HandInv
<1>1. ASSUME NEW s \in Senders, NEW u, InHand(s, u)
      PROVE  u \in Updates /\ u.key \in Keys
  BY <1>0, <1>1, InHandTyped DEF InHand, SendersTyped, Updates
<1>2. \A j \in Jobs : version[j] \in Int
  BY <1>0 DEF OthersTyped, Versions
\* steps that leave the senders and the mapping alone
<1>3. ASSUME UNCHANGED <<senderVars, mapping, of>>,
             \A j \in Jobs : version'[j] >= version[j],
             \A k \in Keys : RowFrom(k)
      PROVE  Origins
  <2>1. ASSUME NEW s \in Senders, NEW u, InHand(s, u)' PROVE HandFrom(s, u)
    <3>1. InHand(s, u)
      BY <1>3, <2>1 DEF InHand, senderVars
    <3> QED
      BY <1>1, <3>1 DEF HandFrom
  <2> QED
    BY <1>3, <2>1 DEF Origins
<1>4. ASSUME NEW k \in Keys, row'[k] = row[k] PROVE RowFrom(k)
  BY <1>4 DEF RowFrom
<1>5. ASSUME NEW j \in Jobs, Touches(j) PROVE Origins
  BY <1>0, <1>3, <1>4, <1>5, TouchesStep
<1>7. ASSUME StampReports PROVE Origins
  BY <1>2, <1>3, <1>4, <1>7 DEF StampReports, gitHub
<1>8. ASSUME NEW f \in Failures, EnqueueFailure(f) PROVE Origins
  <2>1. 0 \in Versions /\ None \in Ids /\ f \in Keys /\ f \notin Jobs
    BY CheckRunsAssumption DEF Versions, Ids, Keys
  <2> DEFINE r == [NoRow EXCEPT !.version = 0, !.due = TRUE]
  <2>2. r.version = 0 /\ r.id = None
    BY <2>1, FreshRow
  <2>3. row' = [row EXCEPT ![f] = r]
    BY <1>8 DEF EnqueueFailure
  <2> HIDE DEF r
  <2>4. row'[f] = r /\ \A k \in Keys : k # f => row'[k] = row[k]
    BY <1>0, <2>1, <2>3 DEF RowsTyped
  <2>5. version' = version /\ UNCHANGED <<senderVars, mapping, of>>
    BY <1>8 DEF EnqueueFailure, gitHub
  <2>6. RowFrom(f)
    BY <2>1, <2>2, <2>4, <2>5 DEF RowFrom, Present
  <2> QED
    BY <1>2, <1>3, <1>4, <2>4, <2>5, <2>6
<1>9. ASSUME NEW S \in SUBSET Jobs, Project(S) PROVE Origins
  <2>1. version' = version /\ UNCHANGED <<senderVars, mapping, of>>
    BY <1>9 DEF Project, gitHub
  <2>2. ASSUME NEW k \in Keys PROVE RowFrom(k)
    <3>1. CASE k \in Newer(S)
      BY <1>9, <2>1, <3>1, ProjectStep DEF RowFrom, Present
    <3>2. CASE k \notin Newer(S)
      BY <1>4, <1>9, <3>2, ProjectStep
    <3> QED
      BY <3>1, <3>2
  <2> QED
    BY <1>2, <1>3, <2>1, <2>2
<1>10. ASSUME NEW k \in Keys, BecomesDue(k) \/ Expires(k) PROVE Origins
  <2>1. version' = version /\ UNCHANGED <<senderVars, mapping, of>>
    BY <1>10 DEF BecomesDue, Expires, Stays, jobVars, gitHub
  <2>2. row[k] \in RowType
    BY <1>0, <1>10, RowTyped DEF BecomesDue, Expires
  <2>3. \A i \in Keys : i # k => row'[i] = row[i]
    BY <1>0, <1>10 DEF BecomesDue, Expires, RowsTyped
  <2>4. \/ row'[k] = [row[k] EXCEPT !.due = TRUE]
        \/ row'[k] = [row[k] EXCEPT !.lease = "past"]
    BY <1>0, <1>10 DEF BecomesDue, Expires, RowsTyped
  <2>5. row'[k].id = row[k].id /\ row'[k].version = row[k].version /\ row[k] # NoRow
    BY <1>0, <2>2, <2>4, RowTyped, CheckRunsAssumption DEF RowType, Versions
  <2>6. RowFrom(k)
    BY <2>5 DEF RowFrom
  <2> QED
    BY <1>2, <1>3, <1>4, <2>1, <2>3, <2>6
<1>11. ASSUME NEW s \in Senders, Restart(s) PROVE Origins
  <2>1. version' = version /\ mapping' = mapping /\ of' = of
    BY <1>11 DEF Restart, jobVars, gitHub
  <2>2. ASSUME NEW k \in Keys PROVE RowFrom(k)
    <3>1. CASE row[k].owner = s
      <4>1. row[k] \in RowType /\ row[k] # NoRow
        BY <1>0, <3>1, RowTyped, CheckRunsAssumption DEF NoRow
      <4>2. row'[k] = [row[k] EXCEPT !.owner = "gone"]
        BY <1>11, <3>1 DEF Restart, Owns
      <4>3. row'[k].id = row[k].id /\ row'[k].version = row[k].version
        BY <4>1, <4>2 DEF RowType
      <4> QED
        BY <4>1, <4>3 DEF RowFrom
    <3>2. CASE row[k].owner # s
      BY <1>4, <1>11, <3>2 DEF Restart, Owns
    <3> QED
      BY <3>1, <3>2
  <2>3. ASSUME NEW t \in Senders, NEW u, InHand(t, u)' PROVE HandFrom(t, u)
    <3>1. InHand(t, u)
      BY <1>0, <1>11, <2>3 DEF Restart, Ends, Moves, InHand, SendersTyped
    <3> QED
      BY <1>1, <3>1 DEF HandFrom
  <2> QED
    BY <1>2, <2>1, <2>2, <2>3 DEF Origins
<1>12. ASSUME NEW s \in Senders, Begin(s) PROVE Origins
  <2>1. version' = version /\ mapping' = mapping /\ of' = of /\ row' = row
    BY <1>12 DEF Begin, Stays, jobVars, gitHub
  <2>2. ASSUME NEW t \in Senders, NEW u, InHand(t, u)' PROVE HandFrom(t, u)
    <3>1. PICK v \in batch[s] : /\ update' = [update EXCEPT ![s] = v]
                                /\ batch' = [batch EXCEPT ![s] = @ \ {v}]
      BY <1>12 DEF Begin
    <3>2. \A p \in Senders : p # s => at'[p] = at[p]
      BY <1>0, <1>12 DEF Begin, Moves, SendersTyped
    <3>3. InHand(t, u)
      BY <1>0, <2>2, <3>1, <3>2 DEF InHand, SendersTyped
    <3> QED
      BY <1>1, <3>3 DEF HandFrom
  <2> QED
    BY <1>2, <1>4, <2>1, <2>2 DEF Origins
<1>13. ASSUME NEW s \in Senders, Lease(s) PROVE Origins
  <2>1. version' = version /\ mapping' = mapping /\ of' = of /\ shown' = shown
    BY <1>13 DEF Lease, Stays, jobVars, gitHub
  <2>2. ASSUME NEW k \in Keys PROVE RowFrom(k)
    BY <1>13, LeaseStep DEF RowFrom
  <2>3. ASSUME NEW t \in Senders, NEW u, InHand(t, u)' PROVE HandFrom(t, u)
    <3>1. CASE InHand(t, u)
      BY <1>1, <3>1 DEF HandFrom
    <3>2. CASE ~InHand(t, u)
      <4>1. u \in batch'[t] /\ t = s
        BY <1>0, <1>13, <2>3, <3>2 DEF Lease, InHand, SendersTyped
      <4>2. PICK i \in Leasable(s) : u = [key |-> i, version |-> row[i].version, id |-> row[i].id,
                                          attempts |-> row[i].attempts]
        BY <1>0, <1>13, <4>1 DEF Lease, SendersTyped
      <4>3. i \in Keys /\ row[i] # NoRow /\ row'[i].version = row[i].version
        BY <1>0, <1>13, <4>2, LeaseStep, RowTyped, CheckRunsAssumption DEF RowType, Versions
      <4>4. u.key = i /\ u.version = row[i].version /\ u.id = row[i].id
        BY <4>2
      <4> QED
        BY <2>1, <4>3, <4>4 DEF HandFrom
    <3> QED
      BY <3>1, <3>2
  <2> QED
    BY <1>2, <2>1, <2>2, <2>3 DEF Origins
<1>14. ASSUME NEW s \in Senders, Work(s) PROVE Origins
  <2> DEFINE k == update[s].key
  <2>1. WorkIds(s) /\ WorkKept(s)
    BY <1>14, WorkIdsStep, WorkStep DEF WorkDone
  <2>2. at[s] # "idle" /\ k \in Keys
    BY <1>0, <2>1, InHandTyped DEF WorkKept
  <2>3. Resolved(k, update[s].id)
    BY <2>2 DEF Resolved
  <2>4. ASSUME NEW i \in Keys PROVE RowFrom(i)
    <3>1. CASE i = k
      <4>1. \/ row'[k] = NoRow
            \/ row[k] # NoRow /\ row'[k].version = row[k].version
        BY <1>0, <2>1, <2>2, RowTyped, CheckRunsAssumption DEF WorkKept, RowType, Versions
      <4> QED
        BY <2>1, <2>3, <3>1, <4>1 DEF RowFrom, WorkIds
    <3>2. CASE i # k
      BY <1>4, <2>1, <3>2 DEF WorkKept
    <3> QED
      BY <3>1, <3>2
  <2>5. ASSUME NEW i \in Keys
        PROVE  mapping'[i] \in {None, Mock, mapping[i]} \/ Resolved(i, mapping'[i])
    BY <2>1, <2>3 DEF WorkIds
  <2>6. ASSUME NEW t \in Senders, NEW u, InHand(t, u)' PROVE HandFrom(t, u)
    <3>1. CASE InHand(t, u)
      BY <1>1, <3>1 DEF HandFrom
    <3>2. CASE ~InHand(t, u)
      <4>1. t = s /\ at'[s] # "idle" /\ u = update'[s]
        BY <2>1, <2>6, <3>2 DEF InHand, WorkKept
      <4>2. u.key = k /\ u.version = update[s].version /\ InHand(s, update[s])
        BY <2>1, <2>2, <4>1 DEF WorkKept, InHand
      <4>3. \/ u.id \in {update[s].id, mapping[k]}
            \/ u.id \in Checks /\ of'[u.id] = External[k]
        BY <2>1, <4>1 DEF WorkIds
      <4> QED
        BY <2>2, <4>1, <4>2, <4>3 DEF HandFrom
    <3> QED
      BY <3>1, <3>2
  <2> QED
    BY <1>2, <2>1, <2>4, <2>5, <2>6 DEF Origins, WorkIds
<1>15. ASSUME UNCHANGED vars PROVE Origins
  BY <1>2, <1>3, <1>4, <1>15 DEF vars, jobVars, gitHub
<1> QED
  BY <1>5, <1>7, <1>8, <1>9, <1>10, <1>11, <1>12, <1>13, <1>14, <1>15
     DEF Next, Sends, Work, Touches

-----------------------------------------------------------------------------
\* Ids are never mixed up

\* If the id is one of GitHub's, it is the id of a check run of this key.
Belongs(id, k) == id \in Checks => of[id] = External[k]

\* Every id the rows, the jobs and the senders remember is of a check run
\* that was created for that row's external id.
IdsBelong ==
  /\ \A k \in Keys : Belongs(row[k].id, k) /\ Belongs(mapping[k], k)
  /\ \A s \in Senders : \A u : InHand(s, u) => Belongs(u.id, u.key)

\* Every step keeps ids with their external id.
LEMMA IdsBelongStep ==
  ASSUME HandInv, IdsBelong, [Next]_vars
  PROVE  IdsBelong'
<1>0. Origins /\ None \notin Checks /\ Mock \notin Checks
  BY OriginsStep, CheckRunsAssumption DEF Checks, Mock
<1>1. ASSUME NEW i, NEW k \in Keys, Belongs(i, k) PROVE Belongs(i, k)'
  <2>1. External[k] # None
    BY CheckRunsAssumption
  <2> QED
    BY <1>0, <1>1, <2>1 DEF Belongs, Origins
<1>2. ASSUME NEW k \in Keys, NEW i, Resolved(k, i) PROVE Belongs(i, k)
  BY <1>2 DEF Resolved, IdsBelong, InHand
<1>3. ASSUME NEW k \in Keys PROVE Belongs(row[k].id, k)' /\ Belongs(mapping[k], k)'
  <2>1. Belongs(row[k].id, k) /\ Belongs(mapping[k], k) /\ Belongs(None, k) /\ Belongs(Mock, k)
    BY <1>0 DEF IdsBelong, Belongs
  <2>2. Belongs(row'[k].id, k)
    BY <1>0, <1>2, <2>1 DEF Origins, RowFrom
  <2>3. Belongs(mapping'[k], k)
    BY <1>0, <1>2, <2>1 DEF Origins
  <2> QED
    BY <1>0, <1>1, <2>2, <2>3 DEF Belongs
<1>4. ASSUME NEW s \in Senders, NEW u, InHand(s, u)' PROVE Belongs(u.id, u.key)'
  <2>1. HandFrom(s, u) /\ u.key \in Keys
    BY <1>0, <1>4 DEF Origins, HandFrom
  <2>2. CASE u.id \in Checks /\ of'[u.id] = External[u.key]
    BY <2>2 DEF Belongs
  <2>3. CASE \/ u.id \in {row[u.key].id, mapping[u.key]}
             \/ \E v : InHand(s, v) /\ v.key = u.key /\ v.id = u.id
    <3>1. Belongs(u.id, u.key)
      BY <2>1, <2>3 DEF IdsBelong
    <3> QED
      BY <1>1, <2>1, <3>1
  <2> QED
    BY <2>1, <2>2, <2>3 DEF HandFrom
<1> QED
  BY <1>3, <1>4 DEF IdsBelong

\* No id is mixed up, by any number of senders: the id in a row, a job or an
\* update in hand is of a check run with that external id (project_row,
\* set_check_run_update_id, persist_check_run_id).
THEOREM IdsStay == Spec => []IdsBelong
<1>1. Init => IdsBelong
  BY CheckRunsAssumption DEF Init, IdsBelong, Belongs, InHand, NoRow, Checks
<1>2. HandInv /\ IdsBelong /\ [Next]_vars => IdsBelong'
  BY IdsBelongStep
<1> QED
  BY <1>1, <1>2, HandsHold, PTL DEF Spec

-----------------------------------------------------------------------------
\* One sender

\* There is at most one server process sending.
OneSender == \A s, t \in Senders : s = t

\* A check run that is not there shows nothing; rows, updates in hand and
\* check runs are at most as new as the job; and what is shown is at most as
\* new as the row and as the update in hand.
VersionsOrdered ==
  /\ \A c \in Checks : of[c] = None => shown[c] = 0
  /\ \A k \in Keys : row[k].version <= Present(k)
  /\ \A k \in Keys : \A c \in Matches(k) : /\ shown[c] <= Present(k)
                                           /\ row[k] # NoRow => shown[c] <= row[k].version
  /\ \A s \in Senders : \A u : InHand(s, u) =>
       /\ u.version <= Present(u.key)
       /\ row[u.key] # NoRow => u.version <= row[u.key].version
       /\ \A c \in Matches(u.key) : shown[c] <= u.version

\* GitHub handles one request: the check run is new or that of the update,
\* and it shows the update's version, or nothing while more requests follow.
Shows(s) ==
  LET u == update[s]
  IN  /\ at[s] = "inflight" /\ UNCHANGED <<version, row, batch>>
      /\ \E c \in Checks :
           /\ \A d \in Checks : d # c => of'[d] = of[d] /\ shown'[d] = shown[d]
           /\ of'[c] = External[u.key]
           /\ \/ of[c] = None /\ shown'[c] \in {0, u.version}
              \/ of[c] = of'[c] /\ shown'[c] \in {shown[c], u.version}

\* Only a request changes what GitHub has.
LEMMA ShowsStep ==
  ASSUME HandInv, IdsBelong, [Next]_vars
  PROVE  UNCHANGED <<of, shown>> \/ \E s \in Senders : Shows(s)
<1>0. TypeOK /\ OthersTyped
  BY TypeParts DEF HandInv
<1>1. ASSUME NEW s \in Senders, NEW last \in BOOLEAN, Create(s, last) PROVE Shows(s)
  <2>1. at[s] = "inflight" /\ UNCHANGED <<version, row, batch>>
    BY <1>1 DEF Create, jobVars
  <2>2. PICK c \in Checks :
          /\ of[c] = None /\ of' = [of EXCEPT ![c] = External[update[s].key]]
          /\ shown' = [shown EXCEPT ![c] = IF last THEN update[s].version ELSE 0]
    BY <1>1 DEF Create
  <2>3. /\ \A d \in Checks : d # c => of'[d] = of[d] /\ shown'[d] = shown[d]
        /\ of'[c] = External[update[s].key]
        /\ shown'[c] \in {0, update[s].version}
    BY <1>0, <2>2 DEF OthersTyped
  <2> QED
    BY <2>1, <2>2, <2>3 DEF Shows
<1>2. ASSUME NEW s \in Senders, NEW last \in BOOLEAN, Patch(s, last) PROVE Shows(s)
  <2> DEFINE c == update[s].id
  <2>1. at[s] = "inflight" /\ UNCHANGED <<version, row, batch, of>> /\ c \in Checks
    BY <1>2 DEF Patch, jobVars
  <2>2. of[c] = External[update[s].key]
    BY <2>1 DEF IdsBelong, InHand, Belongs
  <2>3. /\ \A d \in Checks : d # c => shown'[d] = shown[d]
        /\ shown'[c] \in {shown[c], update[s].version}
    BY <1>0, <1>2, <2>1 DEF Patch, OthersTyped
  <2> QED
    BY <2>1, <2>2, <2>3 DEF Shows
<1>3. CASE UNCHANGED vars
  BY <1>3 DEF vars, gitHub
<1>4. CASE \E s \in Senders : Restart(s)
  BY <1>4 DEF Restart, gitHub
<1>5. CASE \E s \in Senders : \/ Lease(s) \/ Begin(s) \/ Defer(s) \/ Simulate(s) \/ Resolve(s)
                              \/ Lookup(s) \/ Persist(s)
  BY <1>5 DEF Lease, Begin, Defer, Simulate, Resolve, Lookup, Persist, Stays, gitHub
<1>6. CASE \E s \in Senders : Renew(s) \/ NotFound(s) \/ Refuse(s) \/ Finish(s) \/ Retry(s)
  BY <1>6 DEF Renew, NotFound, Refuse, Finish, Retry, Stays, gitHub
<1>7. CASE \/ StampReports
           \/ \E f \in Failures : EnqueueFailure(f)
           \/ \E S \in SUBSET Jobs : Project(S)
           \/ \E k \in Keys : BecomesDue(k) \/ Expires(k)
  BY <1>7 DEF StampReports, EnqueueFailure, Project, BecomesDue, Expires, Stays, gitHub
<1>8. CASE \E j \in Jobs : Touches(j)
  BY <1>0, <1>8, TouchesStep
<1> QED
  BY <1>1, <1>2, <1>3, <1>4, <1>5, <1>6, <1>7, <1>8 DEF Next, Sends, Touches

\* The numbers that are compared.
LEMMA Numbers ==
  ASSUME TypeOK
  PROVE  /\ \A k \in Keys : /\ Present(k) \in Nat
                            /\ row[k].version \in Int /\ row[k].version >= -1
                            /\ row[k] # NoRow => row[k].version \in Nat
         /\ \A c \in Checks : shown[c] \in Nat
         /\ \A s \in Senders : \A u : InHand(s, u) => u.key \in Keys /\ u.version \in Nat
<1>1. ASSUME NEW k \in Keys
      PROVE  /\ Present(k) \in Nat
             /\ row[k].version \in Int /\ row[k].version >= -1
             /\ row[k] # NoRow => row[k].version \in Nat
  <2>1. Present(k) \in Nat
    BY CheckRunsAssumption DEF Present, TypeOK, Versions
  <2>2. row[k].version \in Versions \cup {-1} /\ (row[k].version = -1 <=> row[k] = NoRow)
    BY RowTyped
  <2> QED
    BY <2>1, <2>2, CheckRunsAssumption DEF Versions
<1>2. \A c \in Checks : shown[c] \in Nat
  BY CheckRunsAssumption DEF TypeOK, Versions
<1>3. ASSUME NEW s \in Senders, NEW u, InHand(s, u) PROVE u.key \in Keys /\ u.version \in Nat
  <2>1. u \in Updates
    BY <1>3, InHandTyped DEF InHand, TypeOK
  <2> QED
    BY <2>1, CheckRunsAssumption DEF Updates, Versions
<1> QED
  BY <1>1, <1>2, <1>3

\* A request never shows something older, and nothing newer than the update.
LEMMA ShowsNewer ==
  ASSUME HandInv, VersionsOrdered, NEW s \in Senders, Shows(s)
  PROVE  /\ \A c \in Checks : shown'[c] >= shown[c]
         /\ \A c \in Checks : \/ of'[c] = of[c] /\ shown'[c] = shown[c]
                              \/ /\ of'[c] = External[update[s].key]
                                 /\ shown'[c] <= update[s].version
                                 /\ shown'[c] \in Nat
<1> DEFINE u == update[s]
<1>1. InHand(s, u) /\ TypeOK
  BY DEF Shows, InHand, HandInv
<1>2. u.key \in Keys /\ u.version \in Nat /\ \A c \in Checks : shown[c] \in Nat
  BY <1>1, Numbers
<1>3. \A c \in Matches(u.key) : shown[c] <= u.version
  BY <1>1 DEF VersionsOrdered
<1>4. PICK c \in Checks :
        /\ \A d \in Checks : d # c => of'[d] = of[d] /\ shown'[d] = shown[d]
        /\ of'[c] = External[u.key]
        /\ \/ of[c] = None /\ shown'[c] \in {0, u.version}
           \/ of[c] = of'[c] /\ shown'[c] \in {shown[c], u.version}
  BY DEF Shows
<1>5. shown'[c] >= shown[c] /\ shown'[c] <= u.version /\ shown'[c] \in Nat
  <2>1. CASE of[c] = None /\ shown'[c] \in {0, u.version}
    <3>1. shown[c] = 0
      BY <2>1 DEF VersionsOrdered
    <3> QED
      BY <1>2, <2>1, <3>1
  <2>2. CASE of[c] = of'[c] /\ shown'[c] \in {shown[c], u.version}
    <3>1. shown[c] <= u.version
      BY <1>3, <1>4, <2>2 DEF Matches
    <3> QED
      BY <1>2, <2>2, <3>1
  <2> QED
    BY <1>4, <2>1, <2>2
<1> QED
  BY <1>2, <1>4, <1>5

\* Every step of one sender keeps the order of the versions.
LEMMA VersionsOrderedStep ==
  ASSUME OneSender, HandInv, IdsBelong, VersionsOrdered, [Next]_vars
  PROVE  VersionsOrdered'
<1>0. TypeOK /\ Origins
  BY OriginsStep DEF HandInv
<1>1. HandInv'
  BY HandStep
<1>2. /\ \A k \in Keys : /\ Present(k) \in Nat
                         /\ row[k].version \in Int /\ row[k].version >= -1
                         /\ row[k] # NoRow => row[k].version \in Nat
      /\ \A c \in Checks : shown[c] \in Nat
      /\ \A s \in Senders : \A u : InHand(s, u) => u.key \in Keys /\ u.version \in Nat
  BY <1>0, Numbers
<1>3. /\ \A k \in Keys : Present(k)' \in Nat /\ row'[k].version \in Int
      /\ \A c \in Checks : shown'[c] \in Nat
  <2>1. TypeOK'
    BY <1>1 DEF HandInv
  <2>2. \A k \in Keys : Present(k)' \in Nat
    BY <2>1, CheckRunsAssumption DEF Present, TypeOK, Versions
  <2>3. \A c \in Checks : shown'[c] \in Nat
    BY <2>1, CheckRunsAssumption DEF TypeOK, Versions
  <2>4. ASSUME NEW k \in Keys PROVE row'[k].version \in Int
    <3>1. row'[k] \in RowType \cup {NoRow}
      BY <2>1 DEF TypeOK, RowType
    <3>2. \A r \in RowType \cup {NoRow} : r.version \in Int
      BY DEF RowType, NoRow, Versions
    <3> QED
      BY <3>1, <3>2
  <2> QED
    BY <2>2, <2>3, <2>4
<1>4. \A k \in Keys : Present(k)' >= Present(k)
  BY <1>0, <1>2 DEF Origins, Present
<1>5. NoRow.version = -1
  BY DEF NoRow
<1>6. ASSUME NEW k \in Keys PROVE row'[k].version <= Present(k)'
  <2>1. row[k].version <= Present(k)
    BY DEF VersionsOrdered
  <2>2. RowFrom(k)
    BY <1>0 DEF Origins
  <2> QED
    BY <1>2, <1>3, <1>4, <1>5, <2>1, <2>2 DEF RowFrom
\* a new row, if there is one, is as new as anything its old row bounded
<1>7. ASSUME NEW k \in Keys, NEW n \in Nat, n <= Present(k),
             row[k] # NoRow => n <= row[k].version, row'[k] # NoRow
      PROVE  n <= row'[k].version
  <2>1. RowFrom(k)
    BY <1>0 DEF Origins
  <2> QED
    BY <1>2, <1>7, <2>1 DEF RowFrom
<1>8. CASE UNCHANGED <<of, shown>>
  <2>1. \A k : Matches(k)' = Matches(k)
    BY <1>8 DEF Matches
  <2>2. \A c \in Checks : of'[c] = None => shown'[c] = 0
    BY <1>8 DEF VersionsOrdered
  <2>3. ASSUME NEW k \in Keys, NEW c \in Matches(k)
        PROVE  shown'[c] <= Present(k)' /\ (row'[k] # NoRow => shown'[c] <= row'[k].version)
    <3>1. c \in Checks /\ shown'[c] = shown[c]
      BY <1>8 DEF Matches
    <3>2. shown[c] <= Present(k) /\ (row[k] # NoRow => shown[c] <= row[k].version)
      BY DEF VersionsOrdered
    <3> QED
      BY <1>2, <1>3, <1>4, <1>7, <3>1, <3>2
  <2>4. ASSUME NEW s \in Senders, NEW u, InHand(s, u)'
        PROVE  /\ u.version <= Present(u.key)'
               /\ row'[u.key] # NoRow => u.version <= row'[u.key].version
               /\ \A c \in Matches(u.key) : shown'[c] <= u.version
    <3>1. HandFrom(s, u) /\ u.key \in Keys
      BY <1>0, <2>4 DEF Origins, HandFrom
    <3>2. CASE \E v : InHand(s, v) /\ v.key = u.key /\ v.version = u.version
      <4>1. /\ u.version <= Present(u.key) /\ u.version \in Nat
            /\ row[u.key] # NoRow => u.version <= row[u.key].version
            /\ \A c \in Matches(u.key) : shown[c] <= u.version
        BY <1>2, <3>2 DEF VersionsOrdered
      <4> QED
        BY <1>2, <1>3, <1>4, <1>7, <1>8, <3>1, <4>1
    <3>3. CASE /\ row[u.key] # NoRow /\ u.version = row[u.key].version
               /\ row'[u.key].version = row[u.key].version
      <4>1. /\ u.version <= Present(u.key) /\ u.version \in Nat
            /\ \A c \in Matches(u.key) : shown[c] <= u.version
        BY <1>2, <3>1, <3>3 DEF VersionsOrdered
      <4> QED
        BY <1>2, <1>3, <1>4, <1>8, <3>1, <3>3, <4>1
    <3> QED
      BY <3>1, <3>2, <3>3 DEF HandFrom
  <2> QED
    BY <1>6, <2>1, <2>2, <2>3, <2>4 DEF VersionsOrdered
<1>9. ASSUME NEW s \in Senders, Shows(s), ~UNCHANGED <<of, shown>> PROVE VersionsOrdered'
  <2> DEFINE w == update[s]
  <2>1. InHand(s, w) /\ w.key \in Keys /\ w.version \in Nat
    BY <1>2, <1>9 DEF Shows, InHand
  <2>2. /\ w.version <= Present(w.key)
        /\ row[w.key] # NoRow => w.version <= row[w.key].version
    BY <2>1 DEF VersionsOrdered
  <2>3. row' = row /\ version' = version /\ \A k \in Keys : Present(k)' = Present(k)
    BY <1>9 DEF Shows, Present
  <2>4. \A c \in Checks : \/ of'[c] = of[c] /\ shown'[c] = shown[c]
                          \/ /\ of'[c] = External[w.key]
                             /\ shown'[c] <= w.version
    BY <1>9, ShowsNewer
  \* whatever is of this external id bounds what the request shows
  <2>5. ASSUME NEW k \in Keys, NEW c \in Checks, of'[c] = External[k],
               ~ (of'[c] = of[c] /\ shown'[c] = shown[c])
        PROVE  \/ k = w.key /\ shown'[c] <= w.version
               \/ shown'[c] = 0
    <3>1. External[k] = External[w.key] /\ shown'[c] <= w.version
      BY <2>4, <2>5
    <3>2. k = w.key \/ (k \notin Jobs /\ w.key \notin Jobs)
      BY <2>1, <3>1, CheckRunsAssumption
    <3>3. CASE w.key \notin Jobs
      <4>1. w.version = 0
        BY <2>1, <2>2, <3>3 DEF Present
      <4> QED
        BY <1>3, <2>5, <3>1, <4>1
    <3> QED
      BY <3>1, <3>2, <3>3
  <2>6. ASSUME NEW c \in Checks, of'[c] = None PROVE shown'[c] = 0
    <3>1. External[w.key] # None
      BY <2>1, CheckRunsAssumption
    <3> QED
      BY <2>4, <2>6, <3>1 DEF VersionsOrdered
  <2>7. ASSUME NEW k \in Keys, NEW c \in Matches(k)'
        PROVE  shown'[c] <= Present(k)' /\ (row'[k] # NoRow => shown'[c] <= row'[k].version)
    <3>1. c \in Checks /\ of'[c] = External[k]
      BY <2>7 DEF Matches
    <3>2. CASE of'[c] = of[c] /\ shown'[c] = shown[c]
      BY <2>3, <3>1, <3>2 DEF Matches, VersionsOrdered
    <3>3. CASE k = w.key /\ shown'[c] <= w.version
      BY <1>2, <1>3, <2>1, <2>2, <2>3, <3>1, <3>3
    <3>4. CASE shown'[c] = 0
      BY <1>2, <2>3, <3>4
    <3> QED
      BY <2>5, <3>1, <3>2, <3>3, <3>4
  <2>8. ASSUME NEW t \in Senders, NEW u, InHand(t, u)'
        PROVE  /\ u.version <= Present(u.key)'
               /\ row'[u.key] # NoRow => u.version <= row'[u.key].version
               /\ \A c \in Matches(u.key)' : shown'[c] <= u.version
    <3>1. t = s
      BY DEF OneSender
    <3>2. PICK v : InHand(s, v) /\ v.key = u.key /\ v.version = u.version
      BY <1>0, <1>9, <2>8, <3>1 DEF Origins, HandFrom
    <3>3. u.key \in Keys /\ u.version \in Nat
      BY <1>2, <3>2
    <3>4. /\ u.version <= Present(u.key)
          /\ row[u.key] # NoRow => u.version <= row[u.key].version
          /\ \A c \in Matches(u.key) : shown[c] <= u.version
      BY <3>2 DEF VersionsOrdered
    <3>5. u.key = w.key => u.version = w.version
      BY <1>9, <3>2 DEF HandInv, HandsApart, InHand, Shows
    <3>6. ASSUME NEW c \in Matches(u.key)' PROVE shown'[c] <= u.version
      <4>1. c \in Checks /\ of'[c] = External[u.key]
        BY <3>6 DEF Matches
      <4>2. CASE of'[c] = of[c] /\ shown'[c] = shown[c]
        BY <3>4, <4>1, <4>2 DEF Matches
      <4>3. CASE u.key = w.key /\ shown'[c] <= w.version
        BY <3>5, <4>3
      <4>4. CASE shown'[c] = 0
        BY <3>3, <4>4
      <4> QED
        BY <2>5, <3>3, <4>1, <4>2, <4>3, <4>4
    <3> QED
      BY <2>3, <3>3, <3>4, <3>6
  <2> QED
    BY <1>6, <2>6, <2>7, <2>8 DEF VersionsOrdered
<1> QED
  BY <1>8, <1>9, ShowsStep

\* What a sender knows at each phase: an id it was told is GitHub's, it goes
\* on without an id only when GitHub has no such check run, and what it was
\* told is done shows there.
PhasesKnow ==
  \A s \in Senders :
    /\ at[s] \in {"found", "created", "sent"} => update[s].id \in Checks
    /\ at[s] \in {"send", "inflight"} /\ update[s].id = None => Matches(update[s].key) = {}
    /\ at[s] \in {"created", "sent"} => shown[update[s].id] = update[s].version

\* Every step of one sender keeps what its phase says.
LEMMA PhasesStep ==
  ASSUME OneSender, HandInv, PhasesKnow, [Next]_vars
  PROVE  PhasesKnow'
<1>0. TypeOK /\ SendersTyped /\ OthersTyped /\ None \notin Checks
  BY TypeParts, CheckRunsAssumption DEF HandInv, Checks
<1>1. CASE UNCHANGED <<at, update, of, shown>>
  BY <1>1 DEF PhasesKnow, Matches
<1>2. ASSUME NEW s \in Senders, NEW p, Moves(s, p),
             p \in {"idle", "started", "lookup", "mocked", "failed", "rejected"}
      PROVE  PhasesKnow'
  <2>1. at'[s] = p /\ \A t \in Senders : t = s
    BY <1>0, <1>2 DEF Moves, SendersTyped, OneSender
  <2> QED
    BY <1>2, <2>1 DEF PhasesKnow
\* the sender's own step: enough to look at its own phase
<1>3. ASSUME NEW s \in Senders,
             /\ at'[s] \in {"found", "created", "sent"} => update'[s].id \in Checks
             /\ at'[s] \in {"send", "inflight"} /\ update'[s].id = None =>
                  Matches(update[s].key)' = {}
             /\ at'[s] \in {"created", "sent"} => shown'[update'[s].id] = update'[s].version
      PROVE  PhasesKnow'
  BY <1>3 DEF PhasesKnow, OneSender
<1>4. ASSUME NEW s \in Senders, at[s] # "idle"
      PROVE  \A i \in Ids : /\ [update EXCEPT ![s].id = i][s].id = i
                            /\ [update EXCEPT ![s].id = i][s].key = update[s].key
                            /\ [update EXCEPT ![s].id = i][s].version = update[s].version
  <2>1. update[s] \in Updates
    BY <1>0, <1>4, InHandTyped
  <2> QED
    BY <1>0, <2>1 DEF Updates, SendersTyped
<1>5. ASSUME NEW s \in Senders, Resolve(s) PROVE PhasesKnow'
  <2>1. at[s] = "started" /\ of' = of /\ update[s].key \in Keys
    BY <1>0, <1>5, InHandTyped DEF Resolve, Stays, gitHub
  <2>2. CASE Moves(s, "lookup")
    BY <1>2, <2>2
  <2>3. CASE Moves(s, "send") /\ update' = update /\ update[s].id # None
    <3>1. at'[s] = "send"
      BY <1>0, <2>3 DEF Moves, SendersTyped
    <3> QED
      BY <1>3, <2>3, <3>1
  <2>4. CASE /\ Moves(s, "send") /\ mapping[update[s].key] # None
             /\ update' = [update EXCEPT ![s].id = mapping[update[s].key]]
    <3>1. at'[s] = "send"
      BY <1>0, <2>4 DEF Moves, SendersTyped
    <3>2. mapping[update[s].key] \in Ids
      BY <1>0, <2>1 DEF OthersTyped
    <3>3. update'[s].id # None
      BY <1>4, <2>1, <2>4, <3>2
    <3> QED
      BY <1>3, <3>1, <3>3
  <2>5. CASE Moves(s, "failed")
    BY <1>2, <2>5
  <2> QED
    BY <1>5, <2>2, <2>3, <2>4, <2>5 DEF Resolve, Persists
<1>6. ASSUME NEW s \in Senders, Lookup(s) PROVE PhasesKnow'
  <2>1. at[s] = "lookup" /\ of' = of
    BY <1>6 DEF Lookup, Stays, gitHub
  <2>2. CASE Moves(s, "failed") \/ Moves(s, "rejected")
    BY <1>2, <2>2
  <2>3. CASE Moves(s, "send") /\ update' = update /\ Matches(update[s].key) = {}
    <3>1. at'[s] = "send" /\ Matches(update[s].key)' = {}
      BY <1>0, <2>1, <2>3 DEF Moves, SendersTyped, Matches
    <3> QED
      BY <1>3, <3>1
  <2>4. CASE /\ Moves(s, "found")
             /\ \E c \in Matches(update[s].key) : update' = [update EXCEPT ![s].id = c]
    <3>1. at'[s] = "found"
      BY <1>0, <2>4 DEF Moves, SendersTyped
    <3>2. update'[s].id \in Checks
      BY <1>4, <2>1, <2>4 DEF Matches, Ids
    <3> QED
      BY <1>3, <3>1, <3>2
  <2> QED
    BY <1>6, <2>2, <2>3, <2>4 DEF Lookup
<1>7. ASSUME NEW s \in Senders, Persist(s) PROVE PhasesKnow'
  <2>1. at[s] \in {"found", "created"} /\ UNCHANGED <<update, shown>>
    BY <1>7 DEF Persist, Stays, gitHub
  <2>2. update[s].id \in Checks /\ (at[s] = "created" => shown[update[s].id] = update[s].version)
    BY <2>1 DEF PhasesKnow
  <2>3. CASE Moves(s, "failed")
    BY <1>2, <2>3
  <2>4. CASE Moves(s, IF at[s] = "found" THEN "send" ELSE "sent")
    <3>1. at'[s] = IF at[s] = "found" THEN "send" ELSE "sent"
      BY <1>0, <2>4 DEF Moves, SendersTyped
    <3> QED
      BY <1>0, <1>3, <2>1, <2>2, <3>1
  <2> QED
    BY <1>7, <2>3, <2>4 DEF Persist, Persists
<1>8. ASSUME NEW s \in Senders, Renew(s) PROVE PhasesKnow'
  <2>1. at[s] = "send" /\ of' = of
    BY <1>8 DEF Renew, Stays, gitHub
  <2>2. CASE Ends(s)
    BY <1>2, <2>2 DEF Ends
  <2>3. CASE Moves(s, "inflight") /\ update' = update
    <3>1. at'[s] = "inflight" /\ Matches(update[s].key)' = Matches(update[s].key)
      BY <1>0, <2>1, <2>3 DEF Moves, SendersTyped, Matches
    <3> QED
      BY <1>3, <2>1, <2>3, <3>1 DEF PhasesKnow
  <2> QED
    BY <1>8, <2>2, <2>3 DEF Renew
<1>9. ASSUME NEW s \in Senders, NEW last \in BOOLEAN, Create(s, last) PROVE PhasesKnow'
  <2>1. at[s] # "idle"
    BY <1>9 DEF Create
  <2>2. CASE Moves(s, "failed")
    BY <1>2, <2>2
  <2>3. CASE ~Moves(s, "failed")
    <3>1. PICK c \in Checks :
            /\ shown' = [shown EXCEPT ![c] = IF last THEN update[s].version ELSE 0]
            /\ update' = [update EXCEPT ![s].id = c]
            /\ Moves(s, IF last THEN "created" ELSE "found")
      BY <1>9, <2>3 DEF Create
    <3>2. at'[s] = IF last THEN "created" ELSE "found"
      BY <1>0, <3>1 DEF Moves, SendersTyped
    <3>3. update'[s].id = c /\ update'[s].version = update[s].version
      BY <1>4, <2>1, <3>1 DEF Ids
    <3>4. last => shown'[c] = update[s].version
      BY <1>0, <3>1 DEF OthersTyped
    <3> QED
      BY <1>3, <3>2, <3>3, <3>4
  <2> QED
    BY <2>2, <2>3
<1>10. ASSUME NEW s \in Senders, NEW last \in BOOLEAN, Patch(s, last) PROVE PhasesKnow'
  <2>1. update' = update /\ update[s].id \in Checks
    BY <1>10 DEF Patch
  <2>2. CASE Moves(s, "failed")
    BY <1>2, <2>2
  <2>3. CASE Moves(s, IF last THEN "sent" ELSE "send")
    <3>1. at'[s] = IF last THEN "sent" ELSE "send"
      BY <1>0, <2>3 DEF Moves, SendersTyped
    <3>2. last => shown'[update[s].id] = update[s].version
      BY <1>0, <1>10, <2>1 DEF Patch, OthersTyped
    <3> QED
      BY <1>0, <1>3, <2>1, <3>1, <3>2
  <2> QED
    BY <1>10, <2>2, <2>3 DEF Patch
<1>11. ASSUME NEW s \in Senders,
              \/ Begin(s) \/ Defer(s) \/ Simulate(s) \/ NotFound(s) \/ Refuse(s) \/ Finish(s)
              \/ Retry(s) \/ Restart(s)
       PROVE  PhasesKnow'
  <2>1. \E p \in {"idle", "started", "lookup", "mocked", "failed", "rejected"} : Moves(s, p)
    BY <1>11 DEF Begin, Defer, Simulate, NotFound, Refuse, Finish, Retry, Restart, Ends
  <2> QED
    BY <1>2, <2>1
<1>12. CASE \E s \in Senders : Lease(s)
  BY <1>1, <1>12 DEF Lease, Stays, gitHub
<1>13. CASE \/ StampReports
            \/ \E f \in Failures : EnqueueFailure(f)
            \/ \E S \in SUBSET Jobs : Project(S)
            \/ \E k \in Keys : BecomesDue(k) \/ Expires(k)
  BY <1>1, <1>13 DEF StampReports, EnqueueFailure, Project, BecomesDue, Expires, Stays, gitHub,
                     senderVars
<1>15. CASE \E j \in Jobs : Touches(j)
  BY <1>0, <1>1, <1>15, TouchesStep DEF senderVars
<1>14. CASE UNCHANGED vars
  BY <1>1, <1>14 DEF vars, gitHub, senderVars
<1> QED
  BY <1>5, <1>6, <1>7, <1>8, <1>9, <1>10, <1>11, <1>12, <1>13, <1>14, <1>15
     DEF Next, Sends, Touches

\* A check run is created only for an external id GitHub has none for.
LEMMA OneCheckStep ==
  ASSUME HandInv, IdsBelong, PhasesKnow, OneCheckEach, [Next]_vars
  PROVE  OneCheckEach'
<1>0. OthersTyped
  BY TypeParts DEF HandInv
<1>1. CASE of' = of
  BY <1>1 DEF OneCheckEach
<1>2. ASSUME NEW s \in Senders, NEW last \in BOOLEAN, Create(s, last) PROVE OneCheckEach'
  <2>1. at[s] = "inflight" /\ update[s].id = None
    BY <1>2 DEF Create
  <2>2. PICK c \in Checks : of[c] = None /\ of' = [of EXCEPT ![c] = External[update[s].key]]
    BY <1>2 DEF Create
  <2>3. \A d \in Checks : of[d] # External[update[s].key]
    BY <2>1 DEF PhasesKnow, Matches
  <2>4. /\ of'[c] = External[update[s].key]
        /\ \A d \in Checks : d # c => of'[d] = of[d]
    BY <1>0, <2>2 DEF OthersTyped
  <2> QED
    BY <2>3, <2>4 DEF OneCheckEach
<1>3. of' = of \/ \E s \in Senders, last \in BOOLEAN : Create(s, last)
  BY DEF Next, Sends, Lease, Begin, Defer, Simulate, Resolve, Lookup, Persist, Renew, NotFound,
         Refuse, Finish, Retry, Patch, Restart, StatusChanges, ChangesUntold, Emit, Wake, StampReports,
         EnqueueFailure, Project, BecomesDue, Expires, Stays, gitHub, vars
<1> QED
  BY <1>1, <1>2, <1>3

\* The row holds what the job's latest event told of, or something later.
RowIsTold(j) == row[j] # NoRow /\ row[j].version >= told[j]

\* No event tells of more than happened, and a queued job of which no event
\* is unread has what its latest event told of in its row or on GitHub,
\* unless the row was given up or simulated.
Reported ==
  /\ \A j \in Jobs : told[j] <= version[j]
  /\ \A j \in woken \cap Jobs :
       /\ reports
       /\ j \notin unread \cup dropped \cup simulated => IsShown(j) \/ RowIsTold(j)

\* What is shown stays until an event tells of something newer.
LEMMA ShownStays ==
  ASSUME HandInv, IdsBelong, VersionsOrdered, [Next]_vars,
         NEW j \in Jobs, IsShown(j), told'[j] = told[j]
  PROVE  IsShown(j)'
<1>0. TypeOK /\ Origins /\ j \in Keys
  BY OriginsStep DEF HandInv, Keys
<1>1. PICK c \in Checks : of[c] = External[j] /\ shown[c] >= told[j]
  BY DEF IsShown
<1>2. of'[c] = External[j]
  BY <1>0, <1>1, CheckRunsAssumption DEF Origins
<1>3. shown[c] \in Nat /\ told[j] \in Nat /\ shown'[c] \in Nat
  <2>1. TypeOK'
    BY HandStep DEF HandInv
  <2> QED
    BY <1>0, <2>1, CheckRunsAssumption DEF TypeOK, Versions
<1>4. shown'[c] >= shown[c]
  <2>1. CASE UNCHANGED <<of, shown>>
    BY <1>3, <2>1
  <2>2. CASE \E s \in Senders : Shows(s)
    BY <2>2, ShowsNewer
  <2> QED
    BY <2>1, <2>2, ShowsStep
<1>5. shown'[c] >= told'[j]
  BY <1>1, <1>3, <1>4
<1> QED
  BY <1>2, <1>5 DEF IsShown

\* Only a finished and a dropped update delete their row.
LEMMA WorkKeepsRow ==
  ASSUME HandInv, NEW s \in Senders,
         \/ Defer(s) \/ Simulate(s) \/ Resolve(s) \/ Lookup(s) \/ Persist(s) \/ Renew(s) \/ NotFound(s)
         \/ Refuse(s) \/ \E last \in BOOLEAN : Create(s, last) \/ Patch(s, last)
  PROVE  /\ \A k \in Keys : row'[k].version = row[k].version
         /\ UNCHANGED <<jobVars, history>>
<1> DEFINE k == update[s].key
<1>0. WorkKept(s)
  BY WorkStep DEF Work, WorkDone
<1>1. /\ at[s] # "idle" /\ k \in Keys /\ update[s].id \in Ids
      /\ TypeOK /\ row \in [Keys -> RowType \cup {NoRow}] /\ mapping \in [Keys -> Ids]
  BY <1>0, InHandTyped DEF WorkKept, HandInv, TypeOK, RowType
<1>2. Owns(s, k) => row[k] \in RowType
  BY <1>1, OwnedRowChanges
<1>3. Owns(s, k) => /\ Released(row[k]).version = row[k].version
                    /\ [row[k] EXCEPT !.lease = "future"].version = row[k].version
                    /\ [row[k] EXCEPT !.id = None].version = row[k].version
  BY <1>2 DEF Released, RowType
<1>4. \A i \in Ids : WithId(s, i)[k].version = row[k].version
  BY <1>1, OwnedRowChanges
<1>5. row'[k].version = row[k].version
  <2>1. CASE Defer(s)
    BY <1>1, <1>3, <2>1 DEF Defer
  <2>2. CASE Resolve(s)
    BY <1>1, <1>4, <2>2 DEF Resolve, Persists
  <2>3. CASE Persist(s)
    BY <1>1, <1>4, <2>3 DEF Persist, Persists
  <2>4. CASE Renew(s)
    BY <1>1, <1>3, <2>4 DEF Renew
  <2>5. CASE NotFound(s)
    BY <1>1, <1>3, <2>5 DEF NotFound
  <2>6. CASE Simulate(s) \/ Lookup(s) \/ Refuse(s) \/ \E last \in BOOLEAN : Create(s, last) \/ Patch(s, last)
    BY <2>6 DEF Simulate, Lookup, Refuse, Create, Patch
  <2> QED
    BY <2>1, <2>2, <2>3, <2>4, <2>5, <2>6
<1>6. UNCHANGED <<jobVars, history>>
  BY DEF Defer, Simulate, Resolve, Lookup, Persist, Renew, NotFound, Refuse, Create, Patch, Stays
<1> QED
  BY <1>0, <1>5, <1>6 DEF WorkKept

\* Every step keeps what was told of in the row or on GitHub.
LEMMA ReportedStep ==
  ASSUME HandInv, IdsBelong, VersionsOrdered, PhasesKnow, Reported, [Next]_vars
  PROVE  Reported'
<1>0. /\ TypeOK /\ RowsTyped /\ SendersTyped /\ OthersTyped /\ Jobs \subseteq Keys
      /\ NoRow.version = -1
  BY TypeParts DEF HandInv, Keys, NoRow
<1>1. /\ \A j \in Jobs : /\ told[j] \in Nat /\ version[j] \in Nat /\ told[j] <= version[j]
                         /\ row[j].version \in Int
      /\ \A j \in Jobs : told'[j] \in Nat /\ version'[j] \in Nat
  <2>1. TypeOK'
    BY HandStep DEF HandInv
  <2> QED
    BY <1>0, <2>1, Numbers, CheckRunsAssumption DEF TypeOK, Versions, Reported
<1>2. ASSUME NEW j \in Jobs, row'[j].version = row[j].version, told'[j] = told[j], RowIsTold(j)
      PROVE  RowIsTold(j)'
  <2>1. row[j].version # -1
    BY <1>1, <1>2 DEF RowIsTold
  <2>2. row'[j] # NoRow
    BY <1>0, <1>2, <2>1
  <2> QED
    BY <1>2, <2>2 DEF RowIsTold
\* a step that tells of nothing, takes no event and deletes no row
<1>3. ASSUME UNCHANGED <<version, reports, woken, unread, told>>,
             dropped \subseteq dropped', simulated \subseteq simulated',
             \A j \in Jobs : \/ row'[j].version = row[j].version
                             \/ IsShown(j) \/ j \in dropped' \cup simulated'
                             \/ ~ RowIsTold(j)
      PROVE  Reported'
  <2> SUFFICES ASSUME NEW j \in woken' \cap Jobs
               PROVE  /\ reports'
                      /\ j \notin unread' \cup dropped' \cup simulated' =>
                           IsShown(j)' \/ RowIsTold(j)'
    BY <1>1, <1>3 DEF Reported
  <2>1. reports /\ (j \notin unread \cup dropped \cup simulated => IsShown(j) \/ RowIsTold(j))
    BY <1>3 DEF Reported
  <2>2. IsShown(j) => IsShown(j)'
    BY <1>3, ShownStays
  <2>3. RowIsTold(j) /\ row'[j].version = row[j].version => RowIsTold(j)'
    BY <1>2, <1>3
  <2> QED
    BY <1>3, <2>1, <2>2, <2>3
<1>4. ASSUME NEW i \in Jobs, Touches(i) PROVE Reported'
  <2>1. /\ UNCHANGED <<reports, row, dropped, simulated>> /\ unread \subseteq unread'
        /\ \A j \in Jobs : version'[j] >= version[j]
        /\ \A j \in Jobs : \/ told'[j] = told[j]
                           \/ told'[j] = version'[j] /\ j \in unread'
        /\ woken' = woken \/ (woken' = woken \cup {i} /\ reports /\ i \in unread')
    BY <1>0, <1>4, TouchesStep
  <2>2. ASSUME NEW j \in Jobs PROVE told'[j] <= version'[j]
    BY <1>1, <2>1
  <2>3. ASSUME NEW j \in woken' \cap Jobs
        PROVE  /\ reports'
               /\ j \notin unread' \cup dropped' \cup simulated' => IsShown(j)' \/ RowIsTold(j)'
    <3>1. CASE j \in unread' /\ j \notin woken
      BY <2>1, <2>3, <3>1
    <3>2. CASE j \in unread' /\ j \in woken
      BY <2>1, <3>2 DEF Reported
    <3>3. CASE j \notin unread'
      <4>1. j \in woken /\ j \notin unread /\ told'[j] = told[j]
        BY <2>1, <2>3, <3>3
      <4>2. reports /\ (j \notin dropped \cup simulated => IsShown(j) \/ RowIsTold(j))
        BY <4>1 DEF Reported
      <4>3. /\ IsShown(j) => IsShown(j)'
            /\ RowIsTold(j) => RowIsTold(j)'
        BY <1>2, <2>1, <4>1, ShownStays
      <4> QED
        BY <2>1, <4>2, <4>3
    <3> QED
      BY <3>1, <3>2, <3>3
  <2> QED
    BY <2>2, <2>3 DEF Reported
<1>6. ASSUME StampReports PROVE Reported'
  BY <1>6 DEF StampReports, Reported, IsShown, RowIsTold, gitHub, history
<1>7. ASSUME NEW f \in Failures, EnqueueFailure(f) PROVE Reported'
  <2>1. f \notin Jobs
    BY CheckRunsAssumption
  <2>2. \A j \in Jobs : row'[j] = row[j]
    BY <1>0, <1>7, <2>1 DEF EnqueueFailure, RowsTyped
  <2> QED
    BY <1>7, <2>1, <2>2 DEF EnqueueFailure, Reported, IsShown, RowIsTold, gitHub, history
<1>8. ASSUME NEW S \in SUBSET Jobs, Project(S) PROVE Reported'
  <2>1. /\ UNCHANGED <<version, reports, woken, told, of, shown>>
        /\ unread' = unread \ S /\ dropped' = dropped \ Newer(S)
        /\ simulated' = simulated \ Newer(S)
    BY <1>8 DEF Project, gitHub
  <2> SUFFICES ASSUME NEW j \in woken \cap Jobs
               PROVE  /\ reports
                      /\ j \notin unread' \cup dropped' \cup simulated' =>
                           IsShown(j)' \/ RowIsTold(j)'
    BY <1>1, <2>1 DEF Reported
  <2>2. reports /\ (j \notin unread \cup dropped \cup simulated => IsShown(j) \/ RowIsTold(j))
    BY DEF Reported
  <2>3. j \in Keys /\ version[j] \in Nat /\ row[j].version \in Int /\ row[j].version <= version[j]
    BY <1>0, Numbers, CheckRunsAssumption DEF VersionsOrdered, Present, OthersTyped, Versions
  <2>4. CASE j \in Newer(S)
    <3>1. row'[j] \in RowType /\ row'[j].version = version[j]
      BY <1>8, <2>4, ProjectStep
    <3>2. row'[j] # NoRow
      BY <1>0, <2>3, <3>1
    <3> QED
      BY <1>1, <2>1, <2>2, <2>3, <3>1, <3>2 DEF RowIsTold
  <2>5. CASE j \in S /\ j \notin Newer(S)
    <3>1. row[j].version = version[j] /\ row'[j] = row[j]
      BY <1>8, <2>2, <2>3, <2>5, ProjectStep DEF Newer
    <3> QED
      BY <1>0, <1>1, <2>1, <2>2, <2>3, <3>1 DEF RowIsTold
  <2>6. CASE j \notin S
    <3>1. row'[j] = row[j] /\ j \notin Newer(S)
      BY <1>8, <2>3, <2>6, ProjectStep DEF Newer
    <3> QED
      BY <2>1, <2>2, <2>6, <3>1 DEF RowIsTold, IsShown
  <2> QED
    BY <2>4, <2>5, <2>6
<1>9. ASSUME NEW s \in Senders, Lease(s) PROVE Reported'
  BY <1>0, <1>3, <1>9, LeaseStep DEF Lease, Stays, jobVars, history
<1>10. ASSUME NEW s \in Senders, Begin(s) PROVE Reported'
  BY <1>3, <1>10 DEF Begin, Stays, jobVars, history
<1>11. ASSUME NEW s \in Senders,
              \/ Defer(s) \/ Simulate(s) \/ Resolve(s) \/ Lookup(s) \/ Persist(s) \/ Renew(s) \/ NotFound(s)
              \/ Refuse(s) \/ \E last \in BOOLEAN : Create(s, last) \/ Patch(s, last)
       PROVE  Reported'
  BY <1>0, <1>3, <1>11, WorkKeepsRow DEF jobVars, history
<1>13. ASSUME NEW s \in Senders, Retry(s) PROVE Reported'
  <2> DEFINE k == update[s].key
  <2>1. ASSUME NEW j \in Jobs PROVE row'[j].version = row[j].version \/ j \in dropped'
    <3>1. CASE j # k
      BY <1>0, <1>13, <3>1 DEF Retry, RowsTyped
    <3>2. CASE j = k /\ row' = row
      BY <3>2
    <3>3. CASE j = k /\ dropped' = dropped \cup {k}
      BY <3>3
    <3>4. CASE j = k /\ Owns(s, k) /\ row' = [row EXCEPT ![k] = [Released(row[k]) EXCEPT !.attempts = @ + 1]]
      <4>1. row[k] \in RowType
        BY <1>0, <3>4, RowTyped, CheckRunsAssumption DEF Owns
      <4>2. [Released(row[k]) EXCEPT !.attempts = @ + 1].version = row[k].version
        BY <4>1 DEF Released, RowType
      <4> QED
        BY <1>0, <3>4, <4>2 DEF RowsTyped
    <3> QED
      BY <1>13, <3>1, <3>2, <3>3, <3>4 DEF Retry
  <2> QED
    BY <1>3, <1>13, <2>1 DEF Retry, jobVars
<1>14. ASSUME NEW s \in Senders, Finish(s) PROVE Reported'
  <2> DEFINE k == update[s].key
  <2>1. at[s] \in {"sent", "mocked"} /\ k \in Keys
    BY <1>0, <1>14, InHandTyped DEF Finish
  <2>2. ASSUME NEW j \in Jobs
        PROVE  row'[j].version = row[j].version \/ IsShown(j) \/ j \in simulated' \/ ~RowIsTold(j)
    <3>1. CASE j # k \/ ~OwnsVersion(s, k) \/ row' = row
      BY <1>0, <1>14, <2>1, <3>1 DEF Finish, RowsTyped
    <3>2. CASE j = k /\ OwnsVersion(s, k) /\ at[s] = "mocked" /\ row' # row
      BY <1>14, <3>2 DEF Finish
    <3>3. CASE j = k /\ OwnsVersion(s, k) /\ at[s] = "sent" /\ RowIsTold(j)
      <4>1. update[s].version >= told[j]
        BY <3>3 DEF OwnsVersion, RowIsTold
      <4>2. update[s].id \in Checks /\ shown[update[s].id] = update[s].version
        BY <3>3 DEF PhasesKnow
      <4>3. of[update[s].id] = External[j]
        BY <3>3, <4>2 DEF IdsBelong, InHand, Belongs
      <4> QED
        BY <4>1, <4>2, <4>3 DEF IsShown
    <3> QED
      BY <2>1, <3>1, <3>2, <3>3
  <2>3. UNCHANGED <<version, reports, woken, unread, told, dropped>> /\ simulated \subseteq simulated'
    BY <1>14 DEF Finish, jobVars
  <2> QED
    BY <1>3, <2>2, <2>3
<1>15. ASSUME NEW s \in Senders, Restart(s) PROVE Reported'
  <2>1. ASSUME NEW j \in Jobs PROVE row'[j].version = row[j].version
    <3>1. CASE row[j].owner = s
      <4>1. row[j] \in RowType
        BY <1>0, <3>1, RowTyped, CheckRunsAssumption
      <4>2. row'[j] = [row[j] EXCEPT !.owner = "gone"]
        BY <1>0, <1>15, <3>1 DEF Restart, Owns
      <4> QED
        BY <4>1, <4>2 DEF RowType
    <3>2. CASE row[j].owner # s
      BY <1>0, <1>15, <3>2 DEF Restart, Owns
    <3> QED
      BY <3>1, <3>2
  <2> QED
    BY <1>3, <1>15, <2>1 DEF Restart, jobVars, history
<1>16. ASSUME NEW k \in Keys, BecomesDue(k) \/ Expires(k) PROVE Reported'
  <2>1. row[k] \in RowType
    BY <1>0, <1>16, RowTyped DEF BecomesDue, Expires
  <2>2. \/ row' = [row EXCEPT ![k] = [row[k] EXCEPT !.due = TRUE]]
        \/ row' = [row EXCEPT ![k] = [row[k] EXCEPT !.lease = "past"]]
    BY <1>0, <1>16 DEF BecomesDue, Expires, RowsTyped
  <2>3. /\ [row[k] EXCEPT !.due = TRUE].version = row[k].version
        /\ [row[k] EXCEPT !.lease = "past"].version = row[k].version
    BY <2>1 DEF RowType
  <2>4. \A j \in Jobs : row'[j].version = row[j].version
    BY <1>0, <2>2, <2>3 DEF RowsTyped
  <2> QED
    BY <1>3, <1>16, <2>4 DEF BecomesDue, Expires, Stays, jobVars, history
<1>17. ASSUME UNCHANGED vars PROVE Reported'
  BY <1>3, <1>17 DEF vars, jobVars, history
<1> QED
  BY <1>4, <1>6, <1>7, <1>8, <1>9, <1>10, <1>11, <1>13, <1>14, <1>15, <1>16, <1>17
     DEF Next, Sends, Touches

-----------------------------------------------------------------------------
\* The theorems about one sender

\* The inductive invariant of one sender.
SendInv == HandInv /\ IdsBelong /\ VersionsOrdered /\ PhasesKnow /\ OneCheckEach /\ Reported

\* At the start nothing is sent.
LEMMA InitSend == Init => SendInv
<1> SUFFICES ASSUME Init PROVE SendInv
  OBVIOUS
<1>1. HandInv
  BY InitHands
<1>2. \A k \in Keys : External[k] # None /\ NoRow.version = -1 /\ NoRow.id = None
  BY CheckRunsAssumption DEF NoRow
<1>3. \A s \in Senders : \A u : ~InHand(s, u)
  BY DEF Init, InHand
<1>4. \A k \in Keys : Matches(k) = {}
  BY <1>2 DEF Init, Matches
<1>5. IdsBelong
  BY <1>2, <1>3, CheckRunsAssumption DEF Init, IdsBelong, Belongs, Checks
<1>6. VersionsOrdered
  BY <1>2, <1>3, <1>4 DEF Init, VersionsOrdered, Present
<1>7. PhasesKnow /\ OneCheckEach /\ Reported
  BY DEF Init, PhasesKnow, OneCheckEach, Reported
<1> QED
  BY <1>1, <1>5, <1>6, <1>7 DEF SendInv

\* One sender sends every status in order, knows at each phase what GitHub
\* has, and leaves behind no status that an event told of.
THEOREM SendsInOrder ==
  ASSUME OneSender
  PROVE  Spec => []SendInv
<1>1. SendInv /\ [Next]_vars => SendInv'
  <2> SUFFICES ASSUME SendInv, [Next]_vars PROVE SendInv'
    OBVIOUS
  <2>1. HandInv' /\ IdsBelong' /\ VersionsOrdered'
    BY HandStep, IdsBelongStep, VersionsOrderedStep DEF SendInv
  <2>2. PhasesKnow' /\ OneCheckEach' /\ Reported'
    BY PhasesStep, OneCheckStep, ReportedStep DEF SendInv
  <2> QED
    BY <2>1, <2>2 DEF SendInv
<1> QED
  BY <1>1, InitSend, PTL DEF Spec

\* One sender creates one check run for an external id, although answers are
\* lost, requests repeated, ids forgotten and processes restarted between
\* them (find_existing_check_run, persist_check_run_id).
THEOREM OneCheckRun ==
  ASSUME OneSender
  PROVE  Spec => []OneCheckEach
<1>1. SendInv => OneCheckEach
  BY DEF SendInv
<1> QED
  BY <1>1, SendsInOrder, PTL

\* A queued job that nothing is left to do for shows the status it had when
\* its latest event was committed, or a later one: the row of a newer status
\* survives the send of an older one
\* (finish_check_run_update, project_row).
THEOREM QuietIsShown ==
  ASSUME OneSender
  PROVE  Spec => []QuietMeansShown
<1>1. SendInv => QuietMeansShown
  BY DEF SendInv, Reported, RowIsTold, QuietMeansShown
<1> QED
  BY <1>1, SendsInOrder, PTL

\* With one sender a check run never goes back to an older status
\* (lease_check_run_updates, renew_check_run_update).
THEOREM ChecksOnlyAdvance ==
  ASSUME OneSender
  PROVE  Spec => NeverGoesBack
<1>1. SendInv /\ [Next]_vars => [\A c \in Checks : shown'[c] >= shown[c]]_vars
  <2> SUFFICES ASSUME SendInv, [Next]_vars
               PROVE  \A c \in Checks : shown'[c] >= shown[c]
    OBVIOUS
  <2>1. HandInv /\ IdsBelong /\ VersionsOrdered /\ TypeOK
    BY DEF SendInv, HandInv
  <2>2. \A c \in Checks : shown[c] \in Nat
    BY <2>1, Numbers
  <2>3. CASE UNCHANGED <<of, shown>>
    BY <2>2, <2>3
  <2>4. CASE \E s \in Senders : Shows(s)
    BY <2>1, <2>4, ShowsNewer
  <2> QED
    BY <2>1, <2>3, <2>4, ShowsStep
<1> QED
  BY <1>1, SendsInOrder, PTL DEF Spec, NeverGoesBack

=============================================================================
