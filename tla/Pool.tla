---------------------------------- MODULE Pool ----------------------------------
(***************************************************************************)
(* The VM pool of a co-hosted engine: start-up (sweep of the machines an   *)
(* earlier engine left, preparation of the golden), the slots that boot    *)
(* one machine per job, the budget of goldens, the permits of the          *)
(* on-demand mode and what a debug pause does to them, shutdown, teardown  *)
(* and crashes.  A machine is named by its slot and generation.            *)
(***************************************************************************)
EXTENDS Integers, FiniteSets

CONSTANTS
  MaxSlots,    \* slots ever started by one engine (a bound; the code's counter runs on)
  MaxGen,      \* generations of a slot's machines (a bound)
  MaxBoots,    \* machines the slots of one engine boot (a bound)
  Envs,        \* environments the runs-on labels of the queue resolve to
  Default,     \* the environment of the configured base image
  Capacity,    \* host_vm_capacity: machines the host's memory holds
  Size,        \* config.size, the warm mode's slots
  ByCpu,       \* the on-demand mode's limit by CPU
  MaxLost      \* purge notifications outstanding that the control plane missed (a bound)

ASSUME PoolAssumption ==
  /\ MaxSlots \in Nat \ {0} /\ MaxGen \in Nat \ {0}
  /\ MaxBoots \in Nat
  /\ Capacity \in Nat \ {0}
  /\ Size \in 1..MaxSlots /\ ByCpu \in 1..MaxSlots
  /\ Default \in Envs /\ IsFiniteSet(Envs)
  /\ MaxLost \in Nat

Slots == 0..(MaxSlots - 1)
Main == MaxSlots              \* the pool's own task, which prepares the first golden
Tasks == 0..MaxSlots
Machines == Slots \X (1..MaxGen)

VARIABLES
  mode,        \* "warm" or "demand": whether config.size is positive
  engine,      \* "off", "sweep", "prepare" or "serving"
  shutdown,    \* the pool's cancellation token
  pc,          \* where each task is
  env,         \* the environment it works for
  gen,         \* the generation of the slot's machine
  cache,       \* environments in the GoldenCache
  budget,      \* golden slots left (GoldenBudget.free)
  base,        \* the golden machine on the host: "none", "partial" or "whole"
  record,      \* whether its fingerprint record exists
  permits,     \* free permits of the on-demand semaphore
  holds,       \* whether the slot's permit is in its permit_slot
  watch,       \* the slot's pause watcher: "off", "on", "paused" or "waiting"
  count,       \* provisions in flight (PreparingGuard)
  signal,      \* preparing_signal, which holds the starvation clock
  present,     \* runner machines that exist
  conf,        \* machines whose guest has not finished registering
  registered,  \* runners the control plane knows
  leaked,      \* machines left by a failed provision or a failed start-up delete
  missed       \* runners whose purge was lost, or came before they registered

poolVars == <<engine, shutdown, mode>>
goldenVars == <<cache, budget, base, record>>
permitVars == <<permits, holds, watch>>
clockVars == <<count, signal>>
hostVars == <<present, conf, registered, leaked, missed>>
vars == <<poolVars, pc, env, gen, goldenVars, permitVars, clockVars, hostVars>>

(***************************************************************************)
(* Sizes.                                                                  *)
(***************************************************************************)
Least(a, b) == IF a < b THEN a ELSE b

\* on_demand_memory_cap: one ceiling is the default golden's.
MemoryCap == IF Capacity - 1 > 1 THEN Capacity - 1 ELSE 1

Runners == Least(IF mode = "warm" THEN Size ELSE ByCpu, MemoryCap)

\* A mutant: the goldens already retained are not charged.
GoldenBudgetUncharged(retained) ==
  IF Runners < Capacity THEN Capacity - Runners ELSE 0

GoldenBudget(retained) ==
  IF Runners + retained < Capacity THEN Capacity - Runners - retained ELSE 0

Machine(s) == <<s, gen[s]>>

\* The machines booted or about to be.
Boots == Cardinality({m \in Machines : m[2] <= gen[m[1]]})
           + Cardinality({s \in Slots : pc[s] \in {"resolve", "bake", "strip", "build", "boot"}})

(***************************************************************************)
(* Guards and notifications.                                               *)
(***************************************************************************)
GuardEnter ==
  /\ signal' = TRUE
  /\ count' = count + 1

\* A mutant: the first runner that is ready clears the signal.
GuardDropClears ==
  /\ count' = count - 1
  /\ signal' = FALSE

GuardDrop ==
  /\ count' = count - 1
  /\ signal' = IF count = 1 THEN FALSE ELSE signal

\* notify_runner_gone: fire and forget.
NotifyGone(m) ==
  \E lost \in IF Cardinality(missed) < MaxLost THEN BOOLEAN ELSE {FALSE} :
    /\ registered' = IF lost THEN registered ELSE registered \ {m}
    /\ missed' = IF lost THEN missed \cup ({m} \cap registered) ELSE missed \ {m}

\* A mutant: a permit goes back whether or not the slot still has one.
GiveBackAlways(s) ==
  /\ permits' = permits + 1
  /\ holds' = [holds EXCEPT ![s] = FALSE]
  /\ watch' = [watch EXCEPT ![s] = "off"]

\* The slot's task ends and its permit, if it is there, goes back.
GiveBack(s) ==
  /\ permits' = IF holds[s] THEN permits + 1 ELSE permits
  /\ holds' = [holds EXCEPT ![s] = FALSE]
  /\ watch' = [watch EXCEPT ![s] = "off"]

End(s) ==
  /\ pc' = [pc EXCEPT ![s] = "ended"]
  /\ GiveBack(s)

\* A warm slot starts over; an on-demand slot has had its one try.
NextRound(s) ==
  \/ mode = "warm" /\ pc' = [pc EXCEPT ![s] = "loop"] /\ UNCHANGED permitVars
  \/ mode = "demand" /\ End(s)

(***************************************************************************)
(* Start, serving, stop.                                                   *)
(***************************************************************************)
\* The state of a process that does not run; the host and the server keep theirs.
ProcessGone ==
  /\ engine' = "off" /\ shutdown' = FALSE
  /\ pc' = [t \in Tasks |-> "new"]
  /\ env' = [t \in Tasks |-> Default]
  /\ gen' = [s \in Slots |-> 0]
  /\ cache' = {} /\ budget' = 0
  /\ permits' = 0
  /\ holds' = [s \in Slots |-> FALSE]
  /\ watch' = [s \in Slots |-> "off"]
  /\ count' = 0 /\ signal' = FALSE

Init ==
  /\ mode \in {"warm", "demand"}
  /\ engine = "off" /\ shutdown = FALSE
  /\ pc = [t \in Tasks |-> "new"]
  /\ env = [t \in Tasks |-> Default]
  /\ gen = [s \in Slots |-> 0]
  /\ cache = {} /\ budget = 0
  /\ base = [e \in Envs |-> "none"]
  /\ record = [e \in Envs |-> FALSE]
  /\ permits = 0
  /\ holds = [s \in Slots |-> FALSE]
  /\ watch = [s \in Slots |-> "off"]
  /\ count = 0 /\ signal = FALSE
  /\ present = {} /\ conf = {} /\ registered = {} /\ leaked = {} /\ missed = {}

Start ==
  /\ engine = "off"
  /\ engine' = "sweep"
  /\ signal' = TRUE
  /\ UNCHANGED <<shutdown, mode, pc, env, gen, goldenVars, permitVars, count,
                 hostVars>>

\* remove_stale_runner_machines: every machine that is no recorded golden is
\* purged and deleted; a failed delete is logged and the machine stays, without
\* the process behind it (purge_orphaned_vms).
RemoveStale ==
  \E stays \in SUBSET present, lost \in SUBSET (registered \cap present),
     kept \in SUBSET {e \in Envs : base[e] # "none" /\ ~record[e]} :
    /\ Cardinality(lost) <= MaxLost
    /\ present' = stays
    /\ conf' = {}
    /\ registered' = registered \ (present \ lost)
    /\ missed' = (missed \ present) \cup lost
    /\ base' = [e \in Envs |-> IF record[e] \/ e \in kept THEN base[e] ELSE "none"]

StaleSweep ==
  /\ engine = "sweep"
  /\ RemoveStale
  /\ leaked' = present'
  /\ engine' = "prepare"
  /\ pc' = [pc EXCEPT ![Main] = "bake"]
  /\ UNCHANGED <<shutdown, mode, env, gen, cache, budget, record, permitVars,
                 clockVars>>

\* The warm is done: the signal falls, the budget and the permits are set,
\* and in warm mode every slot starts.
Serve ==
  /\ engine' = "serving"
  /\ signal' = FALSE
  /\ budget' = GoldenBudget(Cardinality(cache'))
  /\ permits' = IF mode = "demand" THEN Runners ELSE 0
  /\ pc' = [t \in Tasks |->
             IF t = Main THEN "ended"
             ELSE IF mode = "warm" /\ t < Runners THEN "loop" ELSE "new"]
  /\ UNCHANGED <<holds, watch, count>>

Shutdown ==
  /\ engine # "off" /\ ~shutdown
  /\ shutdown' = TRUE
  /\ UNCHANGED <<engine, mode, pc, env, gen, goldenVars, permitVars, clockVars,
                 hostVars>>

Drained == \A s \in Slots : pc[s] \in {"new", "ended"}

\* teardown: on a failed or interrupted start, and when all slots have ended.
Teardown ==
  /\ \/ engine \in {"sweep", "prepare"}
     \/ engine = "serving" /\ shutdown /\ Drained
  /\ RemoveStale
  /\ leaked' = {}
  /\ ProcessGone
  /\ UNCHANGED <<mode, record>>

\* The engine dies; machines, records and registrations stay behind.
Crash ==
  /\ engine # "off"
  /\ ProcessGone
  /\ leaked' = {}
  /\ UNCHANGED <<mode, base, record, present, conf, registered, missed>>

(***************************************************************************)
(* Goldens: prepare_fork_base, by the pool's task or under a slot's build  *)
(* lock and reservation.                                                   *)
(***************************************************************************)
Baking == {"bake", "strip", "build"}

\* The golden is there: the slot goes on to boot from it.
GoldenInHand(t) ==
  /\ cache' = cache \cup {env[t]}
  /\ \/ t = Main /\ Serve
     \/ /\ t # Main
        /\ pc' = [pc EXCEPT ![t] = "boot"]
        /\ UNCHANGED <<engine, budget, permitVars, clockVars>>

\* adopt_golden looks at the record and at whether the machine exists.
Adopt(t) ==
  /\ pc[t] = "bake" /\ ~shutdown
  /\ record[env[t]] /\ base[env[t]] # "none"
  /\ GoldenInHand(t)
  /\ UNCHANGED <<shutdown, mode, env, gen, base, record, hostVars>>

\* A mutant: the record outlives the machine it speaks of.
StripRecordLate(t) ==
  /\ pc[t] = "bake" /\ ~shutdown
  /\ pc' = [pc EXCEPT ![t] = "strip"]
  /\ UNCHANGED <<poolVars, env, gen, goldenVars, permitVars, clockVars, hostVars>>

\* No record, or a re-arm that failed: the record dies before the machine.
\* (The error of a removal that fails is ignored; that case is left out.)
StripRecord(t) ==
  /\ pc[t] = "bake" /\ ~shutdown
  /\ record' = [record EXCEPT ![env[t]] = FALSE]
  /\ pc' = [pc EXCEPT ![t] = "strip"]
  /\ UNCHANGED <<poolVars, env, gen, cache, budget, base, permitVars, clockVars,
                 hostVars>>

\* The old machine is deleted and the new one created.
Build(t) ==
  /\ pc[t] = "strip" /\ ~shutdown
  /\ base' = [base EXCEPT ![env[t]] = "partial"]
  /\ pc' = [pc EXCEPT ![t] = "build"]
  /\ UNCHANGED <<poolVars, env, gen, cache, budget, record, permitVars, clockVars,
                 hostVars>>

GoldenReady(t) ==
  /\ pc[t] = "build" /\ ~shutdown
  /\ base' = [base EXCEPT ![env[t]] = "whole"]
  /\ record' = [record EXCEPT ![env[t]] = TRUE]
  /\ GoldenInHand(t)
  /\ UNCHANGED <<shutdown, mode, env, gen, hostVars>>

\* A slot's bake fails: its reservation goes back and what was built is
\* deleted, if it can be.  (The pool's own failure is Teardown.)
BakeFails(s) ==
  /\ pc[s] \in {"strip", "build"} /\ ~shutdown
  /\ budget' = budget + 1
  /\ \/ UNCHANGED base
     \/ base' = [base EXCEPT ![env[s]] = "none"]
  /\ GuardDrop
  /\ NextRound(s)
  /\ UNCHANGED <<poolVars, env, gen, cache, record, hostVars>>

(***************************************************************************)
(* A slot, from its start to a registered runner.                          *)
(***************************************************************************)
\* The on-demand loop: work is queued and a permit is free.
Spawn(s) ==
  /\ engine = "serving" /\ mode = "demand" /\ ~shutdown
  /\ permits > 0
  /\ pc[s] = "new" /\ \A r \in Slots : r < s => pc[r] # "new"
  /\ permits' = permits - 1
  /\ holds' = [holds EXCEPT ![s] = TRUE]
  /\ pc' = [pc EXCEPT ![s] = "loop"]
  /\ UNCHANGED <<poolVars, env, gen, goldenVars, watch, clockVars, hostVars>>

\* The environment is that of the job at the head of the queue.
Enter(s) ==
  /\ pc[s] = "loop"
  /\ ~(mode = "warm" /\ shutdown)
  /\ gen[s] < MaxGen /\ Boots < MaxBoots
  /\ GuardEnter
  /\ \E e \in Envs : env' = [env EXCEPT ![s] = e]
  /\ pc' = [pc EXCEPT ![s] = "resolve"]
  /\ UNCHANGED <<poolVars, gen, goldenVars, permitVars, hostVars>>

LoopEnds(s) ==
  /\ pc[s] = "loop" /\ mode = "warm" /\ shutdown
  /\ End(s)
  /\ UNCHANGED <<poolVars, env, gen, goldenVars, clockVars, hostVars>>

\* get_or_prepare: a hit, or, under the lock of the environment, a
\* reservation and a bake, or no room for another golden.
Resolve(s) ==
  /\ pc[s] = "resolve" /\ ~shutdown
  /\ \/ /\ env[s] \in cache
        /\ pc' = [pc EXCEPT ![s] = "boot"]
        /\ UNCHANGED budget
     \/ /\ env[s] \notin cache
        /\ \A r \in Slots : pc[r] \in Baking => env[r] # env[s]
        /\ \/ /\ budget > 0
              /\ budget' = budget - 1
              /\ pc' = [pc EXCEPT ![s] = "bake"]
           \/ /\ budget = 0
              /\ pc' = [pc EXCEPT ![s] = "boot"]
              /\ UNCHANGED budget
  /\ UNCHANGED <<poolVars, env, gen, cache, base, record, permitVars, clockVars,
                 hostVars>>

\* A machine under a name this engine has not used; its guest starts to register.
CreateVm(s) ==
  /\ pc[s] = "boot" /\ ~shutdown
  /\ gen' = [gen EXCEPT ![s] = @ + 1]
  /\ <<s, gen[s] + 1>> \notin present
  /\ present' = present \cup {<<s, gen[s] + 1>>}
  /\ conf' = conf \cup {<<s, gen[s] + 1>>}
  /\ pc' = [pc EXCEPT ![s] = "made"]
  /\ UNCHANGED <<poolVars, env, goldenVars, permitVars, clockVars, registered,
                 leaked, missed>>

\* The guest's configure registers the runner, also when the host has given
\* up on it: ending the host's side of an exec does not end the guest's.
Configure(m) ==
  /\ m \in conf
  /\ conf' = conf \ {m}
  /\ registered' = registered \cup {m}
  /\ missed' = IF pc[m[1]] = "failed" /\ gen[m[1]] = m[2]
               THEN missed \cup {m} ELSE missed \ {m}
  /\ UNCHANGED <<poolVars, pc, env, gen, goldenVars, permitVars, clockVars,
                 present, leaked>>

\* provision_slot returns a registered runner: the guard drops.
Ready(s) ==
  /\ pc[s] = "made" /\ ~shutdown
  /\ Machine(s) \notin conf
  /\ GuardDrop
  /\ pc' = [pc EXCEPT ![s] = "serve"]
  /\ watch' = [watch EXCEPT ![s] = IF mode = "demand" THEN "on" ELSE "off"]
  /\ UNCHANGED <<poolVars, env, gen, goldenVars, permits, holds, hostVars>>

\* Provisioning fails before or after the machine exists; the runner is purged ...
ProvisionFails(s) ==
  /\ pc[s] \in {"boot", "made"} /\ ~shutdown
  /\ gen' = [gen EXCEPT ![s] = IF pc[s] = "boot" THEN @ + 1 ELSE @]
  /\ NotifyGone(<<s, gen'[s]>>)
  /\ pc' = [pc EXCEPT ![s] = "failed"]
  /\ UNCHANGED <<poolVars, env, goldenVars, permitVars, clockVars, present, conf,
                 leaked>>

\* ... and its machine deleted, once: a failure is logged and the slot goes on.
DeleteFailed(s) ==
  /\ pc[s] = "failed" /\ ~shutdown
  /\ \/ /\ present' = present \ {Machine(s)}
        /\ conf' = conf \ {Machine(s)}
        /\ leaked' = leaked \ {Machine(s)}
     \/ /\ Machine(s) \in present
        /\ leaked' = leaked \cup {Machine(s)}
        /\ UNCHANGED <<present, conf>>
  /\ GuardDrop
  /\ NextRound(s)
  /\ UNCHANGED <<poolVars, env, gen, goldenVars, registered, missed>>

\* unless_shutdown drops a resolution or a provision; teardown has the rest.
Provisioning == Baking \cup {"resolve", "boot", "made", "failed"}

Abandon(s) ==
  /\ shutdown /\ pc[s] \in Provisioning
  /\ budget' = IF pc[s] \in Baking THEN budget + 1 ELSE budget
  /\ GuardDrop
  /\ End(s)
  /\ UNCHANGED <<poolVars, env, gen, cache, base, record, hostVars>>

(***************************************************************************)
(* A runner, from registration to a machine that is gone.                  *)
(***************************************************************************)
JobTaken(s) ==
  /\ pc[s] = "serve"
  /\ pc' = [pc EXCEPT ![s] = "busy"]
  /\ UNCHANGED <<poolVars, env, gen, goldenVars, permitVars, clockVars, hostVars>>

\* run_one_runner's select: the guest exits, by itself or found wedged; the
\* pool stops; an idle runner of another environment is recycled.
RunEnds(s) ==
  /\ pc[s] \in {"serve", "busy"}
  /\ pc' = [pc EXCEPT ![s] = "teardown"]
  /\ UNCHANGED <<poolVars, env, gen, goldenVars, permitVars, clockVars, hostVars>>

\* A failed job left the marker: the machine is held for debugging.
Preserve(s) ==
  /\ pc[s] = "busy"
  /\ pc' = [pc EXCEPT ![s] = "held"]
  /\ UNCHANGED <<poolVars, env, gen, goldenVars, permitVars, clockVars, hostVars>>

HoldEnds(s) ==
  /\ pc[s] = "held"
  /\ pc' = [pc EXCEPT ![s] = "teardown"]
  /\ UNCHANGED <<poolVars, env, gen, goldenVars, permitVars, clockVars, hostVars>>

\* A mutant: the machine is deleted first.
RunnerGoneUntold(s) ==
  /\ pc[s] = "teardown"
  /\ pc' = [pc EXCEPT ![s] = "delete"]
  /\ UNCHANGED <<poolVars, env, gen, goldenVars, permitVars, clockVars, hostVars>>

\* The control plane hears of it before the machine goes.
RunnerGone(s) ==
  /\ pc[s] = "teardown"
  /\ NotifyGone(Machine(s))
  /\ pc' = [pc EXCEPT ![s] = "delete"]
  /\ UNCHANGED <<poolVars, env, gen, goldenVars, permitVars, clockVars, present,
                 conf, leaked>>

\* delete_machine: after a few attempts it gives up.  The pause watcher ends.
DeleteMachine(s) ==
  /\ pc[s] = "delete"
  /\ \/ present' = present \ {Machine(s)}
     \/ UNCHANGED present
  /\ pc' = [pc EXCEPT ![s] = "gone"]
  /\ watch' = [watch EXCEPT ![s] = "off"]
  /\ UNCHANGED <<poolVars, env, gen, goldenVars, permits, holds, clockVars, conf,
                 registered, leaked, missed>>

\* await_machine_gone: the machine is missing, or a delete goes through ...
MachineIsGone(s) ==
  /\ pc[s] = "gone"
  /\ present' = present \ {Machine(s)}
  /\ NextRound(s)
  /\ UNCHANGED <<poolVars, env, gen, goldenVars, clockVars, conf, registered,
                 leaked, missed>>

\* A mutant: the slot does not wait for the machine to be gone.
StopWaitingAnyway(s) ==
  /\ pc[s] = "gone"
  /\ NextRound(s)
  /\ UNCHANGED <<poolVars, env, gen, goldenVars, clockVars, hostVars>>

\* A mutant: the wait does not end with the pool.
StopWaitingNever(s) ==
  /\ FALSE
  /\ UNCHANGED vars

\* ... or the pool stops and the next start sweeps it.
StopWaiting(s) ==
  /\ pc[s] = "gone" /\ shutdown
  /\ NextRound(s)
  /\ UNCHANGED <<poolVars, env, gen, goldenVars, clockVars, hostVars>>

(***************************************************************************)
(* The pause watcher of an on-demand slot.                                 *)
(***************************************************************************)
\* A mutant: the paused job keeps its permit.
PauseSeenKept(s) ==
  /\ watch[s] = "on" /\ pc[s] = "busy"
  /\ watch' = [watch EXCEPT ![s] = "paused"]
  /\ UNCHANGED <<poolVars, pc, env, gen, goldenVars, permits, holds, clockVars,
                 hostVars>>

PauseSeen(s) ==
  /\ watch[s] = "on" /\ pc[s] = "busy"
  /\ watch' = [watch EXCEPT ![s] = "paused"]
  /\ permits' = IF holds[s] THEN permits + 1 ELSE permits
  /\ holds' = [holds EXCEPT ![s] = FALSE]
  /\ UNCHANGED <<poolVars, pc, env, gen, goldenVars, clockVars, hostVars>>

ResumeSeen(s) ==
  /\ watch[s] = "paused" /\ pc[s] \in {"busy", "held", "teardown", "delete"}
  /\ watch' = [watch EXCEPT ![s] = "waiting"]
  /\ UNCHANGED <<poolVars, pc, env, gen, goldenVars, permits, holds, clockVars,
                 hostVars>>

Reacquire(s) ==
  /\ watch[s] = "waiting" /\ permits > 0
  /\ permits' = permits - 1
  /\ holds' = [holds EXCEPT ![s] = TRUE]
  /\ watch' = [watch EXCEPT ![s] = "on"]
  /\ UNCHANGED <<poolVars, pc, env, gen, goldenVars, clockVars, hostVars>>

(***************************************************************************)
(* Specification.                                                          *)
(***************************************************************************)
\* The steps a slot takes by itself; whether a delete goes through is not among them.
Slot(s) ==
  \/ Adopt(s) \/ StripRecord(s) \/ Build(s) \/ GoldenReady(s) \/ BakeFails(s)
  \/ Enter(s) \/ LoopEnds(s) \/ Resolve(s) \/ CreateVm(s) \/ Ready(s)
  \/ ProvisionFails(s) \/ DeleteFailed(s) \/ Abandon(s)
  \/ JobTaken(s) \/ RunEnds(s) \/ Preserve(s) \/ HoldEnds(s)
  \/ RunnerGone(s) \/ DeleteMachine(s) \/ StopWaiting(s)

Next ==
  \/ Start \/ StaleSweep \/ Shutdown \/ Teardown \/ Crash
  \/ Adopt(Main) \/ StripRecord(Main) \/ Build(Main) \/ GoldenReady(Main)
  \/ \E s \in Slots :
       \/ Spawn(s) \/ Slot(s) \/ MachineIsGone(s)
       \/ PauseSeen(s) \/ ResumeSeen(s) \/ Reacquire(s)
  \/ \E m \in Machines : Configure(m)

Spec == Init /\ [][Next]_vars

\* Nobody has to answer a paused job, unless the pool stops.
Unanswered(s) == pc[s] = "busy" /\ watch[s] = "paused" /\ ~shutdown

\* Work stays queued, a job that is not paused ends, a debug shell is left,
\* a call to the provider returns, with success or not, and guests register.
FairSpec ==
  /\ Spec
  /\ WF_vars(Teardown /\ shutdown)
  /\ \A s \in Slots :
       /\ WF_vars(Spawn(s))
       /\ SF_vars(Slot(s) /\ ~Unanswered(s))
  /\ \A m \in Machines : WF_vars(Configure(m))

(***************************************************************************)
(* Properties.                                                             *)
(***************************************************************************)
Points == Provisioning \cup
  {"new", "loop", "serve", "busy", "held", "teardown", "delete", "gone", "ended"}

\* Every variable has its type; there are never more permits or golden slots
\* than the pool was given.
TypeOK ==
  /\ mode \in {"warm", "demand"}
  /\ engine \in {"off", "sweep", "prepare", "serving"} /\ shutdown \in BOOLEAN
  /\ pc \in [Tasks -> Points] /\ env \in [Tasks -> Envs]
  /\ gen \in [Slots -> 0..MaxGen]
  /\ cache \subseteq Envs /\ budget \in 0..Capacity
  /\ base \in [Envs -> {"none", "partial", "whole"}]
  /\ record \in [Envs -> BOOLEAN]
  /\ permits \in 0..Runners /\ holds \in [Slots -> BOOLEAN]
  /\ watch \in [Slots -> {"off", "on", "paused", "waiting"}]
  /\ count \in 0..MaxSlots /\ signal \in BOOLEAN
  /\ present \subseteq Machines /\ conf \subseteq present
  /\ registered \subseteq Machines
  /\ leaked \subseteq present /\ missed \subseteq Machines

\* The machine of a job that gave its permit back for a debug pause.
Unpaid(s) ==
  /\ mode = "demand" /\ ~holds[s]
  /\ pc[s] \in {"busy", "held", "teardown", "delete", "gone"}

\* A host of one machine gets a runner beside the golden all the same.
Room == IF Capacity > 1 THEN Capacity ELSE 2

\* The host is never asked for more machines than its memory holds: runners,
\* retained goldens and goldens being baked fit together, whatever order slots
\* finish, bake, fail and pause in (host_vm_capacity, GoldenBudget, the permits
\* and await_machine_gone).  A host that holds only one is asked for two
\* (on_demand_memory_cap).  Set apart are the machines of paused jobs and
\* those a failed provision, bake or start-up sweep could not delete.
WithinCapacity ==
  engine = "serving" /\ ~shutdown =>
    Cardinality(present \ (leaked \cup {Machine(s) : s \in {r \in Slots : Unpaid(r)}}))
      + Cardinality(cache) + Cardinality({s \in Slots : pc[s] \in Baking})
    <= Room

\* A runner the control plane still believes in has a machine, unless its purge
\* was lost or came before the guest registered: the purge precedes the delete on
\* every path (run_one_runner, provision_slot, remove_stale_runner_machines).
RunnersHosted == registered \ present \subseteq missed

\* While the pool serves, the starvation clock is held exactly while some slot
\* has no registered runner yet (PreparingGuard, shared by all slots).
StarvationClock ==
  engine = "serving" => (signal <=> \E s \in Slots : pc[s] \in Provisioning)

\* A recorded golden is a complete one: a bake that was interrupted, by an
\* error, a shutdown or a crash, is never adopted by the next engine
\* (prepare_fork_base removes the record first and writes it last).  The record
\* file can be removed whenever it is to be: remove_golden_record hides an error.
AdoptableIsWhole == \A e \in Envs : record[e] => base[e] = "whole"

\* A shutdown ends the pool whatever its slots are doing, deletes that keep
\* failing included.
StopsOnShutdown == shutdown ~> engine = "off"

\* Jobs that wait in a debug session for an answer nobody gives do not stop the
\* pool: it goes on to start a slot for every queued job, unless a machine
\* cannot be deleted.
PoolAdvances ==
  []<>(\/ engine # "serving" \/ shutdown \/ mode = "warm"
       \/ \A s \in Slots : pc[s] # "new"
       \/ \E s \in Slots : pc[s] = "gone")

=============================================================================
