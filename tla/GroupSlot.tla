----------------------------- MODULE GroupSlot -----------------------------
(***************************************************************************)
(* What a concurrency group promises, without jobs, submits or restarts of *)
(* the server: one slot, and a bounded queue in the order of arrival from  *)
(* which only the oldest run can get the slot.  Admission implements it.   *)
(***************************************************************************)
EXTENDS Naturals, FiniteSets

CONSTANTS Runs, NoRun, MaxWaiters

VARIABLES
  slot,     \* the run the group belongs to
  ticket,   \* a queued run's place, 0 when it is not queued
  last,     \* the last place handed out
  arrived,  \* runs that have come
  ended     \* runs that are finished

vars == <<slot, ticket, last, arrived, ended>>

Init ==
  /\ slot = NoRun
  /\ ticket = [r \in Runs |-> 0]
  /\ last = 0
  /\ arrived = {}
  /\ ended = {}

Queue == {r \in Runs : ticket[r] # 0}

Oldest(w) == w \in Queue /\ \A v \in Queue : ticket[w] <= ticket[v]

Arrives(r) == r \notin arrived /\ arrived' = arrived \cup {r}

\* A new run takes the slot: it is free, its owner cannot use it, or the
\* owner and the whole queue are ended to make room.
Enter(r) ==
  /\ Arrives(r)
  /\ slot' = r
  /\ \/ UNCHANGED <<ticket, ended>>
     \/ /\ slot # NoRun
        /\ ticket' = [s \in Runs |-> 0]
        /\ ended' = ended \cup Queue \cup {slot}
  /\ UNCHANGED last

\* A new run queues behind the owner: last in a queue that has room, or as
\* the only one, the others being ended.
Join(r) ==
  /\ Arrives(r)
  /\ slot # NoRun
  /\ last' = last + 1
  /\ \/ /\ Cardinality(Queue) < MaxWaiters
        /\ ticket' = [ticket EXCEPT ![r] = last + 1]
        /\ UNCHANGED ended
     \/ /\ ticket' = [s \in Runs |-> IF s = r THEN last + 1 ELSE 0]
        /\ ended' = ended \cup Queue
  /\ UNCHANGED slot

\* A new run is turned away.
Refuse(r) ==
  /\ Arrives(r)
  /\ ended' = ended \cup {r}
  /\ UNCHANGED <<slot, ticket, last>>

\* The oldest of the queue gets the slot, or loses its place to nobody.
Pass ==
  \/ Queue = {} /\ slot' = NoRun /\ UNCHANGED ticket
  \/ \E w \in Runs : /\ Oldest(w)
                     /\ ticket' = [ticket EXCEPT ![w] = 0]
                     /\ slot' \in {w, NoRun}

\* A run ends and leaves the slot or the queue.
Leave(r) ==
  /\ r \in arrived
  /\ ended' = ended \cup {r}
  /\ \/ slot = r /\ Pass
     \/ slot # r /\ slot' = slot /\ ticket' = [ticket EXCEPT ![r] = 0]
  /\ UNCHANGED <<last, arrived>>

\* A run that is not queued ends and keeps the slot, if it has it ...
End(r) ==
  /\ r \in arrived \ Queue
  /\ ended' = ended \cup {r}
  /\ UNCHANGED <<slot, ticket, last, arrived>>

\* ... until a recovery takes it, or only the oldest place in the queue.
Recover ==
  /\ slot \in ended
  /\ \/ Queue = {} /\ slot' = NoRun /\ UNCHANGED ticket
     \/ /\ \E w \in Runs : Oldest(w) /\ ticket' = [ticket EXCEPT ![w] = 0]
        /\ UNCHANGED slot
  /\ UNCHANGED <<last, arrived, ended>>

Next ==
  \/ \E r \in Runs : Enter(r) \/ Join(r) \/ Refuse(r) \/ Leave(r) \/ End(r)
  \/ Recover

Spec == Init /\ [][Next]_vars
=============================================================================
