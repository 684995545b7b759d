------------------------------ MODULE PoolProofs ------------------------------
(* Safety of the VM pool for every number of slots, generations and           *)
(* environments, every host capacity and every loss of notifications.         *)
EXTENDS Pool, FiniteSetTheorems, TLAPS

Preparing == {s \in Slots : pc[s] \in Provisioning}
Bakers    == {s \in Slots : pc[s] \in Baking}
Holders   == {s \in Slots : holds[s]}

\* A slot that has, or may have, a machine of its own.
Hosting == {"made", "failed", "serve", "busy", "held", "teardown", "delete", "gone"}

\* The shapes of TypeOK, without the bounds that need counting; a slot that
\* prepares a machine has a generation left for it.
Shape ==
  /\ mode \in {"warm", "demand"}
  /\ engine \in {"off", "sweep", "prepare", "serving"} /\ shutdown \in BOOLEAN
  /\ pc \in [Tasks -> Points] /\ env \in [Tasks -> Envs]
  /\ gen \in [Slots -> 0..MaxGen]
  /\ cache \subseteq Envs /\ budget \in Nat
  /\ base \in [Envs -> {"none", "partial", "whole"}]
  /\ record \in [Envs -> BOOLEAN]
  /\ permits \in Nat /\ holds \in [Slots -> BOOLEAN]
  /\ watch \in [Slots -> {"off", "on", "paused", "waiting"}]
  /\ count \in Int /\ signal \in BOOLEAN
  /\ present \subseteq Machines /\ conf \subseteq Machines
  /\ registered \subseteq Machines
  /\ leaked \subseteq Machines /\ missed \subseteq Machines
  /\ \A s \in Slots :
       pc[s] \in {"resolve", "bake", "strip", "build", "boot"} => gen[s] < MaxGen

\* What runs in which phase: the pool's task bakes before any slot exists.
Phases ==
  /\ engine \in {"off", "sweep"} => \A t \in Tasks : pc[t] = "new"
  /\ engine = "prepare" => pc[Main] \in Baking /\ \A s \in Slots : pc[s] = "new"
  /\ engine = "serving" => pc[Main] = "ended"
  /\ engine # "serving" =>
       /\ cache = {} /\ budget = 0 /\ permits = 0 /\ count = 0
       /\ \A s \in Slots : ~holds[s] /\ watch[s] = "off"

\* The pool's task is none of the slots; slots and environments are finite.
LEMMA Constants ==
  /\ Main \in Tasks /\ Main \notin Slots /\ Slots \subseteq Tasks
  /\ \A t \in Tasks : t # Main => t \in Slots
  /\ IsFiniteSet(Slots) /\ Cardinality(Slots) = MaxSlots
  /\ IsFiniteSet(Envs)
  <1>1. 0 \in Int /\ MaxSlots - 1 \in Int
    BY PoolAssumption
  <1>2. IsFiniteSet(Slots) /\ Cardinality(Slots) = MaxSlots
    BY <1>1, PoolAssumption, FS_Interval DEF Slots
  <1> QED BY <1>2, PoolAssumption DEF Main, Tasks, Slots

\* The sizes fit: there is room for a golden beside the runners.
LEMMA Sizes ==
  ASSUME mode \in {"warm", "demand"}
  PROVE  /\ Runners \in Nat /\ Runners >= 1 /\ Runners + 1 <= Room /\ Runners <= Capacity
         /\ Runners <= MaxSlots
         /\ mode' = mode => Runners' = Runners
  BY PoolAssumption DEF Runners, Least, MemoryCap, Room
\* The order in which the pool starts and stops is common to all parts.
LEMMA ShapeStep ==
  ASSUME Shape, Next
  PROVE  Shape'
  <1> USE PoolAssumption, Constants DEF poolVars, goldenVars, permitVars, clockVars,
          hostVars, Points, Provisioning, Baking
  <1>1. ASSUME ProcessGone, mode' = mode, base' \in [Envs -> {"none", "partial", "whole"}],
               record' \in [Envs -> BOOLEAN], present' \subseteq Machines,
               conf' \subseteq Machines, registered' \subseteq Machines,
               leaked' \subseteq Machines, missed' \subseteq Machines
        PROVE  Shape'
    <2>1. /\ pc' \in [Tasks -> Points] /\ env' \in [Tasks -> Envs]
          /\ gen' \in [Slots -> 0..MaxGen] /\ budget' \in Nat /\ permits' \in Nat
          /\ cache' \subseteq Envs /\ count' \in Int
          /\ engine' \in {"off", "sweep", "prepare", "serving"}
      BY <1>1 DEF ProcessGone
    <2>2. shutdown' \in BOOLEAN /\ signal' \in BOOLEAN
      BY <1>1, Zenon DEF ProcessGone
    <2>3. holds' \in [Slots -> BOOLEAN]
      BY <1>1 DEF ProcessGone
    <2>4. watch' \in [Slots -> {"off", "on", "paused", "waiting"}]
      BY <1>1 DEF ProcessGone
    <2>5. \A s \in Slots : pc'[s] = "new"
      BY <1>1 DEF ProcessGone
    <2> QED BY <1>1, <2>1, <2>2, <2>3, <2>4, <2>5 DEF Shape
  <1>2. ASSUME RemoveStale
        PROVE  /\ base' \in [Envs -> {"none", "partial", "whole"}]
               /\ present' \subseteq Machines /\ conf' \subseteq Machines
               /\ registered' \subseteq Machines /\ missed' \subseteq Machines
    BY <1>2 DEF RemoveStale, Shape
  <1>3. CASE Crash
    BY <1>1, <1>3 DEF Crash, Shape
  <1>4. CASE Teardown
    BY <1>1, <1>2, <1>4 DEF Teardown, Shape
  <1>5. CASE StaleSweep
    BY <1>2, <1>5 DEF StaleSweep, Shape
  <1>6. CASE Start \/ Shutdown
    BY <1>6 DEF Start, Shutdown, Shape
  <1>7. ASSUME NEW t \in Tasks, Adopt(t) \/ StripRecord(t) \/ Build(t) \/ GoldenReady(t)
        PROVE  Shape'
    <2>1. ASSUME GoldenInHand(t), pc[t] \in Baking
          PROVE  /\ pc' \in [Tasks -> Points] /\ cache' \subseteq Envs
                 /\ engine' \in {"off", "sweep", "prepare", "serving"}
                 /\ budget' \in Nat /\ permits' \in Nat /\ signal' \in BOOLEAN
                 /\ count' = count /\ holds' = holds /\ watch' = watch
                 /\ \A s \in Slots : pc'[s] \in {"resolve", "bake", "strip", "build", "boot"}
                      => pc[s] \in {"resolve", "bake", "strip", "build", "boot"}
      <3>1. cache' \subseteq Envs
        BY <2>1 DEF GoldenInHand, Shape
      <3>2. CASE t # Main
        BY <2>1, <3>1, <3>2 DEF GoldenInHand, Shape
      <3>3. CASE t = Main
        <4>1. Cardinality(cache') \in Nat
          BY <3>1, FS_Subset, FS_CardinalityType
        <4>2. Runners \in Nat /\ GoldenBudget(Cardinality(cache')) \in Nat
          BY <4>1, Sizes DEF GoldenBudget, Shape
        <4>3. Serve
          BY <2>1, <3>3 DEF GoldenInHand
        <4>4. signal' \in BOOLEAN
          BY <4>3, Zenon DEF Serve
        <4>5. pc' \in [Tasks -> Points]
          BY <4>3 DEF Serve
        <4>6. \A s \in Slots : pc'[s] \in {"loop", "new"}
          BY <4>3 DEF Serve
        <4> QED BY <3>1, <4>2, <4>3, <4>4, <4>5, <4>6 DEF Serve
      <3> QED BY <3>2, <3>3
    <2>2. CASE Adopt(t)
      BY <2>1, <2>2 DEF Adopt, Shape
    <2>3. CASE StripRecord(t)
      BY <2>3 DEF StripRecord, Shape
    <2>4. CASE Build(t)
      BY <2>4 DEF Build, Shape
    <2>5. CASE GoldenReady(t)
      BY <2>1, <2>5 DEF GoldenReady, Shape
    <2> QED BY <1>7, <2>2, <2>3, <2>4, <2>5
  <1>8. ASSUME NEW s \in Slots, NextRound(s) \/ End(s)
        PROVE  /\ pc' \in [Tasks -> Points]
               /\ permits' \in Nat /\ holds' \in [Slots -> BOOLEAN]
               /\ watch' \in [Slots -> {"off", "on", "paused", "waiting"}]
               /\ \A r \in Slots : pc'[r] \in {"resolve", "bake", "strip", "build", "boot"}
                    => pc[r] \in {"resolve", "bake", "strip", "build", "boot"}
    <2>1. /\ pc' \in [Tasks -> Points]
          /\ \A r \in Slots : pc'[r] \in {"resolve", "bake", "strip", "build", "boot"}
               => pc[r] \in {"resolve", "bake", "strip", "build", "boot"}
      BY <1>8 DEF NextRound, End, Shape
    <2>2. CASE UNCHANGED permitVars
      BY <2>1, <2>2 DEF Shape
    <2>3. CASE GiveBack(s)
      <3>1. permits' \in Nat
        BY <2>3 DEF GiveBack, Shape
      <3>2. /\ holds' \in [Slots -> BOOLEAN]
            /\ watch' \in [Slots -> {"off", "on", "paused", "waiting"}]
        BY <2>3 DEF GiveBack, Shape
      <3> QED BY <2>1, <3>1, <3>2
    <2> QED BY <1>8, <2>2, <2>3 DEF NextRound, End
  <1>9. ASSUME GuardDrop
        PROVE  count' \in Int /\ signal' \in BOOLEAN
    <2>1. count' \in Int
      BY <1>9 DEF GuardDrop, Shape
    <2>2. signal' \in BOOLEAN
      BY <1>9, Zenon DEF GuardDrop, Shape
    <2> QED BY <2>1, <2>2
  <1>10. ASSUME NEW s \in Slots, BakeFails(s) PROVE Shape'
    BY <1>8, <1>9, <1>10 DEF BakeFails, Shape
  <1>11. ASSUME NEW s \in Slots, DeleteFailed(s) PROVE Shape'
    BY <1>8, <1>9, <1>11 DEF DeleteFailed, Shape
  <1>12. ASSUME NEW s \in Slots, Abandon(s) PROVE Shape'
    BY <1>8, <1>9, <1>12 DEF Abandon, Shape
  <1>13. ASSUME NEW s \in Slots, MachineIsGone(s) \/ StopWaiting(s) \/ LoopEnds(s)
         PROVE  Shape'
    BY <1>8, <1>13 DEF MachineIsGone, StopWaiting, LoopEnds, Shape
  <1>14. ASSUME NEW s \in Slots, Spawn(s) \/ Enter(s) \/ Resolve(s) PROVE Shape'
    <2>1. CASE Spawn(s)
      BY <2>1 DEF Spawn, Shape
    <2>2. CASE Enter(s)
      <3>1. count' \in Int
        BY <2>2 DEF Enter, GuardEnter, Shape
      <3>2. signal' \in BOOLEAN
        BY <2>2, Zenon DEF Enter, GuardEnter
      <3> QED BY <2>2, <3>1, <3>2 DEF Enter, Shape
    <2>3. CASE Resolve(s)
      BY <2>3 DEF Resolve, Shape
    <2> QED BY <1>14, <2>1, <2>2, <2>3
  <1>15. ASSUME NEW s \in Slots, CreateVm(s) PROVE Shape'
    BY <1>15 DEF CreateVm, Shape, Machines
  <1>16. ASSUME NEW s \in Slots, Ready(s) PROVE Shape'
    BY <1>9, <1>16 DEF Ready, Shape
  <1>17. ASSUME NEW s \in Slots, ProvisionFails(s) \/ RunnerGone(s) PROVE Shape'
    <2>1. ASSUME NEW m, NotifyGone(m)
          PROVE  registered' \subseteq Machines /\ missed' \subseteq Machines
      <3>1. PICK lost \in BOOLEAN :
              /\ registered' = IF lost THEN registered ELSE registered \ {m}
              /\ missed' = IF lost THEN missed \cup ({m} \cap registered) ELSE missed \ {m}
        BY <2>1 DEF NotifyGone
      <3> QED BY <3>1 DEF Shape
    <2>2. CASE RunnerGone(s)
      BY <2>1, <2>2 DEF RunnerGone, Shape
    <2>3. CASE ProvisionFails(s)
      BY <2>1, <2>3 DEF ProvisionFails, Shape
    <2> QED BY <1>17, <2>2, <2>3
  <1>18. ASSUME NEW s \in Slots,
                JobTaken(s) \/ RunEnds(s) \/ Preserve(s) \/ HoldEnds(s) \/ DeleteMachine(s)
         PROVE  Shape'
    BY <1>18 DEF JobTaken, RunEnds, Preserve, HoldEnds, DeleteMachine, Shape
  <1>19. ASSUME NEW s \in Slots, PauseSeen(s) \/ ResumeSeen(s) \/ Reacquire(s)
         PROVE  Shape'
    <2>1. CASE PauseSeen(s)
      <3>1. permits' \in Nat
        BY <2>1 DEF PauseSeen, Shape
      <3>2. /\ holds' \in [Slots -> BOOLEAN]
            /\ watch' \in [Slots -> {"off", "on", "paused", "waiting"}]
        BY <2>1 DEF PauseSeen, Shape
      <3> QED BY <2>1, <3>1, <3>2 DEF PauseSeen, Shape
    <2>2. CASE ResumeSeen(s)
      BY <2>2 DEF ResumeSeen, Shape
    <2>3. CASE Reacquire(s)
      BY <2>3 DEF Reacquire, Shape
    <2> QED BY <1>19, <2>1, <2>2, <2>3
  <1>20. ASSUME NEW m \in Machines, Configure(m) PROVE Shape'
    BY <1>20 DEF Configure, Shape
  <1> QED BY <1>3, <1>4, <1>5, <1>6, <1>7, <1>10, <1>11, <1>12, <1>13, <1>14, <1>15,
             <1>16, <1>17, <1>18, <1>19, <1>20 DEF Next, Slot
-----------------------------------------------------------------------------

\* All that a slot does by itself, and what is done to it.
SlotStep(s) ==
  Spawn(s) \/ Slot(s) \/ MachineIsGone(s) \/ PauseSeen(s) \/ ResumeSeen(s) \/ Reacquire(s)

\* Slots run only while the pool serves, and a step of one leaves the others,
\* the pool's task, its mode and its token alone.
LEMMA SlotsServe ==
  ASSUME Shape, Phases, NEW s \in Slots, SlotStep(s)
  PROVE  /\ engine = "serving" /\ engine' = engine /\ shutdown' = shutdown /\ mode' = mode
         /\ \A t \in Tasks \ {s} : pc'[t] = pc[t] /\ env'[t] = env[t]
         /\ \A r \in Slots \ {s} :
              gen'[r] = gen[r] /\ holds'[r] = holds[r] /\ watch'[r] = watch[r]
  <1> USE Constants DEF poolVars, goldenVars, permitVars, clockVars, hostVars
  <1>1. engine = "serving"
    <2>1. CASE pc[s] # "new"
      BY <2>1 DEF Phases, Shape
    <2>2. CASE Spawn(s) \/ PauseSeen(s) \/ ResumeSeen(s) \/ Reacquire(s)
      BY <2>2 DEF Spawn, PauseSeen, ResumeSeen, Reacquire, Phases
    <2>3. CASE Slot(s) \/ MachineIsGone(s)
      <3>1. pc[s] # "new"
        BY <2>3 DEF Slot, Adopt, StripRecord, Build, GoldenReady, BakeFails, Enter,
                    LoopEnds, Resolve, CreateVm, Ready, ProvisionFails, DeleteFailed,
                    Abandon, JobTaken, RunEnds, Preserve, HoldEnds, RunnerGone,
                    DeleteMachine, StopWaiting, MachineIsGone, Provisioning, Baking
      <3> QED BY <2>1, <3>1
    <2> QED BY <2>2, <2>3 DEF SlotStep
  <1>2. ASSUME GoldenInHand(s)
        PROVE  /\ engine' = engine /\ UNCHANGED <<budget, permitVars, clockVars>>
               /\ pc' = [pc EXCEPT ![s] = "boot"]
    BY <1>2 DEF GoldenInHand
  <1>3. ASSUME NextRound(s) \/ End(s)
        PROVE  /\ \A t \in Tasks \ {s} : pc'[t] = pc[t]
               /\ \A r \in Slots \ {s} : holds'[r] = holds[r] /\ watch'[r] = watch[r]
    BY <1>3 DEF NextRound, End, GiveBack, Shape
  <1>4. CASE Adopt(s) \/ GoldenReady(s)
    BY <1>1, <1>2, <1>4 DEF Adopt, GoldenReady, Shape
  <1>5. CASE StripRecord(s) \/ Build(s)
    BY <1>1, <1>5 DEF StripRecord, Build, Shape
  <1>6. CASE BakeFails(s) \/ DeleteFailed(s) \/ Abandon(s) \/ MachineIsGone(s)
             \/ StopWaiting(s) \/ LoopEnds(s)
    BY <1>1, <1>3, <1>6 DEF BakeFails, DeleteFailed, Abandon, MachineIsGone, StopWaiting,
                            LoopEnds
  <1>7. CASE Spawn(s) \/ Enter(s) \/ Resolve(s)
    BY <1>1, <1>7 DEF Spawn, Enter, Resolve, Shape
  <1>8. CASE CreateVm(s) \/ Ready(s) \/ ProvisionFails(s) \/ RunnerGone(s)
    BY <1>1, <1>8 DEF CreateVm, Ready, ProvisionFails, RunnerGone, Shape
  <1>9. CASE JobTaken(s) \/ RunEnds(s) \/ Preserve(s) \/ HoldEnds(s) \/ DeleteMachine(s)
    BY <1>1, <1>9 DEF JobTaken, RunEnds, Preserve, HoldEnds, DeleteMachine, Shape
  <1>10. CASE PauseSeen(s) \/ ResumeSeen(s) \/ Reacquire(s)
    BY <1>1, <1>10 DEF PauseSeen, ResumeSeen, Reacquire, Shape
  <1> QED BY <1>4, <1>5, <1>6, <1>7, <1>8, <1>9, <1>10 DEF SlotStep, Slot

\* The pool's own steps, seen from the slots: nothing serves, or serving begins
\* with fresh slots.
LEMMA PhaseStep ==
  ASSUME Shape, Phases, Next
  PROVE  Phases'
  <1> USE Constants DEF poolVars, goldenVars, permitVars, clockVars, hostVars
  <1>1. ASSUME NEW s \in Slots, SlotStep(s) PROVE Phases'
    BY <1>1, SlotsServe DEF Phases
  <1>2. CASE Start \/ Shutdown
    BY <1>2 DEF Start, Shutdown, Phases
  <1>3. CASE StaleSweep
    BY <1>3 DEF StaleSweep, Phases, Baking, Shape
  <1>4. CASE Teardown \/ Crash
    <2>1. ProcessGone
      BY <1>4 DEF Teardown, Crash
    <2>2. /\ engine' = "off" /\ \A t \in Tasks : pc'[t] = "new"
          /\ cache' = {} /\ budget' = 0 /\ permits' = 0 /\ count' = 0
          /\ \A s \in Slots : watch'[s] = "off"
      BY <2>1 DEF ProcessGone
    <2>3. \A s \in Slots : ~holds'[s]
      BY <2>1 DEF ProcessGone
    <2> QED BY <2>2, <2>3 DEF Phases
  <1>5. CASE Adopt(Main) \/ GoldenReady(Main)
    <2>1. Serve
      BY <1>5 DEF Adopt, GoldenReady, GoldenInHand
    <2>2. engine' = "serving" /\ pc'[Main] = "ended"
      BY <2>1 DEF Serve
    <2> QED BY <2>2 DEF Phases
  <1>6. CASE StripRecord(Main) \/ Build(Main)
    BY <1>6 DEF StripRecord, Build, Phases, Baking, Shape
  <1>7. ASSUME NEW m \in Machines, Configure(m) PROVE Phases'
    BY <1>7 DEF Configure, Phases
  <1> QED BY <1>1, <1>2, <1>3, <1>4, <1>5, <1>6, <1>7 DEF Next, SlotStep
-----------------------------------------------------------------------------

\* Nobody bakes the golden another task bakes, and while one is replaced it
\* has no record.
Goldens ==
  /\ \A s, t \in Tasks :
       pc[s] \in Baking /\ pc[t] \in Baking /\ env[s] = env[t] => s = t
  /\ \A t \in Tasks : pc[t] \in {"strip", "build"} => ~record[env[t]]
  /\ AdoptableIsWhole

\* A bake (prepare_fork_base) removes the record before it touches the machine
\* and writes it last; the lock of the environment keeps others out.
LEMMA GoldenStep ==
  ASSUME Shape, Phases, Goldens, Next
  PROVE  Goldens'
  <1> USE Constants DEF poolVars, goldenVars, permitVars, clockVars, hostVars, Baking
  <1>1. ASSUME \A t \in Tasks : pc'[t] \in Baking => pc'[t] = pc[t] /\ env'[t] = env[t],
               UNCHANGED <<base, record>>
        PROVE  Goldens'
    BY <1>1 DEF Goldens, AdoptableIsWhole
  <1>2. ASSUME NEW s \in Slots, NextRound(s) \/ End(s)
        PROVE  \A t \in Tasks : pc'[t] \in Baking => pc'[t] = pc[t] /\ t # s
    BY <1>2 DEF NextRound, End, Shape
  <1>3. ASSUME NEW t \in Tasks, GoldenInHand(t)
        PROVE  \A u \in Tasks : pc'[u] \in Baking => pc'[u] = pc[u] /\ u # t
    <2>1. CASE t = Main
      <3>1. pc' = [u \in Tasks |->
                    IF u = Main THEN "ended"
                    ELSE IF mode = "warm" /\ u < Runners THEN "loop" ELSE "new"]
        BY <1>3, <2>1 DEF GoldenInHand, Serve
      <3> QED BY <3>1
    <2>2. CASE t # Main
      BY <1>3, <2>2 DEF GoldenInHand, Shape
    <2> QED BY <2>1, <2>2
  <1>4. CASE Start \/ Shutdown
    BY <1>1, <1>4 DEF Start, Shutdown
  <1>5. CASE StaleSweep
    <2>1. /\ env' = env /\ record' = record
          /\ pc' = [pc EXCEPT ![Main] = "bake"] /\ \A s \in Slots : pc[s] = "new"
          /\ \A e \in Envs : record[e] => base'[e] = base[e]
      BY <1>5 DEF StaleSweep, RemoveStale, Phases
    <2> QED BY <2>1 DEF Goldens, AdoptableIsWhole, Shape
  <1>6. CASE Teardown \/ Crash
    <2>1. ProcessGone /\ record' = record
          /\ \A e \in Envs : record[e] => base'[e] = base[e]
      BY <1>6 DEF Teardown, Crash, RemoveStale
    <2>2. \A t \in Tasks : pc'[t] = "new"
      BY <2>1 DEF ProcessGone
    <2> QED BY <2>1, <2>2 DEF Goldens, AdoptableIsWhole
  <1>7. ASSUME NEW t \in Tasks, Adopt(t) PROVE Goldens'
    BY <1>1, <1>3, <1>7 DEF Adopt
  <1>8. ASSUME NEW t \in Tasks, StripRecord(t) PROVE Goldens'
    <2>1. /\ pc[t] = "bake" /\ pc'[t] = "strip" /\ env' = env /\ base' = base
          /\ \A u \in Tasks \ {t} : pc'[u] = pc[u]
          /\ record' = [record EXCEPT ![env[t]] = FALSE]
      BY <1>8 DEF StripRecord, Shape
    <2>2. /\ ~record'[env[t]]
          /\ \A e \in Envs : record'[e] => record[e]
      BY <2>1 DEF Shape
    <2> QED BY <2>1, <2>2 DEF Goldens, AdoptableIsWhole, Shape
  <1>9. ASSUME NEW t \in Tasks, Build(t) PROVE Goldens'
    <2>1. /\ pc[t] = "strip" /\ pc'[t] = "build" /\ env' = env /\ record' = record
          /\ \A u \in Tasks \ {t} : pc'[u] = pc[u]
          /\ \A e \in Envs : e # env[t] => base'[e] = base[e]
      BY <1>9 DEF Build, Shape
    <2> QED BY <2>1 DEF Goldens, AdoptableIsWhole, Shape
  <1>10. ASSUME NEW t \in Tasks, GoldenReady(t) PROVE Goldens'
    <2>1. /\ pc[t] = "build" /\ env' = env
          /\ \A u \in Tasks : pc'[u] \in Baking => pc'[u] = pc[u] /\ u # t
      BY <1>3, <1>10 DEF GoldenReady
    <2>2. /\ base'[env[t]] = "whole"
          /\ \A e \in Envs : e # env[t] => base'[e] = base[e] /\ record'[e] = record[e]
      BY <1>10 DEF GoldenReady, Shape
    <2> QED BY <2>1, <2>2 DEF Goldens, AdoptableIsWhole, Shape
  <1>11. ASSUME NEW s \in Slots, BakeFails(s) PROVE Goldens'
    <2>1. /\ ~record[env[s]] /\ env' = env /\ record' = record
          /\ \A t \in Tasks : pc'[t] \in Baking => pc'[t] = pc[t]
      BY <1>2, <1>11 DEF BakeFails, Goldens
    <2>2. \A e \in Envs : e # env[s] => base'[e] = base[e]
      BY <1>11 DEF BakeFails, Shape
    <2> QED BY <2>1, <2>2 DEF Goldens, AdoptableIsWhole, Shape
  <1>12. ASSUME NEW s \in Slots, Enter(s) PROVE Goldens'
    BY <1>1, <1>12 DEF Enter, Shape
  <1>13. ASSUME NEW s \in Slots, Resolve(s) PROVE Goldens'
    <2>0. pc[Main] = "ended"
      BY <1>13, SlotsServe DEF SlotStep, Slot, Phases
    <2>1. CASE pc' = [pc EXCEPT ![s] = "boot"]
      BY <1>1, <1>13, <2>1 DEF Resolve, Shape
    <2>2. CASE /\ \A r \in Slots : pc[r] \in Baking => env[r] # env[s]
               /\ pc' = [pc EXCEPT ![s] = "bake"]
      <3>1. UNCHANGED <<env, base, record>> /\ pc[s] = "resolve"
        BY <1>13 DEF Resolve
      <3>2. pc'[s] = "bake" /\ \A t \in Tasks \ {s} : pc'[t] = pc[t]
        BY <2>2 DEF Shape
      <3> QED BY <2>0, <2>2, <3>1, <3>2 DEF Goldens, AdoptableIsWhole
    <2> QED BY <1>13, <2>1, <2>2 DEF Resolve
  <1>14. ASSUME NEW s \in Slots,
                DeleteFailed(s) \/ Abandon(s) \/ MachineIsGone(s) \/ StopWaiting(s)
                \/ LoopEnds(s)
         PROVE  Goldens'
    BY <1>1, <1>2, <1>14 DEF DeleteFailed, Abandon, MachineIsGone, StopWaiting, LoopEnds
  <1>15. ASSUME NEW s \in Slots,
                Spawn(s) \/ CreateVm(s) \/ Ready(s) \/ ProvisionFails(s) \/ RunnerGone(s)
         PROVE  Goldens'
    BY <1>1, <1>15 DEF Spawn, CreateVm, Ready, ProvisionFails, RunnerGone, Shape
  <1>16. ASSUME NEW s \in Slots,
                JobTaken(s) \/ RunEnds(s) \/ Preserve(s) \/ HoldEnds(s) \/ DeleteMachine(s)
         PROVE  Goldens'
    BY <1>1, <1>16 DEF JobTaken, RunEnds, Preserve, HoldEnds, DeleteMachine, Shape
  <1>17. ASSUME NEW s \in Slots, PauseSeen(s) \/ ResumeSeen(s) \/ Reacquire(s)
         PROVE  Goldens'
    BY <1>1, <1>17 DEF PauseSeen, ResumeSeen, Reacquire
  <1>18. ASSUME NEW m \in Machines, Configure(m) PROVE Goldens'
    BY <1>1, <1>18 DEF Configure
  <1> QED BY <1>4, <1>5, <1>6, <1>7, <1>8, <1>9, <1>10, <1>11, <1>12, <1>13, <1>14,
             <1>15, <1>16, <1>17, <1>18 DEF Next, Slot
-----------------------------------------------------------------------------

\* Sets of slots are counted one slot at a time.
LEMMA SlotCounts ==
  ASSUME NEW S \in SUBSET Slots
  PROVE  /\ IsFiniteSet(S) /\ Cardinality(S) \in 0..MaxSlots
         /\ Cardinality(S) = 0 <=> S = {}
         /\ \A s \in Slots \ S : Cardinality(S \cup {s}) = Cardinality(S) + 1
         /\ \A s \in S : Cardinality(S \ {s}) = Cardinality(S) - 1
  <1>1. IsFiniteSet(S) /\ Cardinality(S) <= MaxSlots
    BY Constants, FS_Subset
  <1>2. Cardinality(S) \in Nat
    BY <1>1, FS_CardinalityType
  <1>3. Cardinality(S) = 0 <=> S = {}
    BY <1>1, FS_EmptySet
  <1>4. \A s \in Slots \ S : Cardinality(S \cup {s}) = Cardinality(S) + 1
    BY <1>1, FS_AddElement
  <1>5. \A s \in S : Cardinality(S \ {s}) = Cardinality(S) - 1
    BY <1>1, FS_RemoveElement
  <1> QED BY <1>1, <1>2, <1>3, <1>4, <1>5, PoolAssumption

\* The guards count the slots that have no registered runner yet.
Clock ==
  /\ count = Cardinality(Preparing)
  /\ StarvationClock

\* Every slot enters with a guard and leaves with its drop (PreparingGuard).
LEMMA ClockStep ==
  ASSUME Shape, Phases, Clock, Next
  PROVE  Clock'
  <1> USE Constants DEF poolVars, goldenVars, permitVars, clockVars, hostVars
  <1>0. /\ Preparing \in SUBSET Slots
        /\ engine = "serving" => (signal <=> Preparing # {})
    BY DEF Clock, StarvationClock, Preparing
  <1>1. ASSUME Preparing' = Preparing, engine' = engine, UNCHANGED <<count, signal>>
        PROVE  Clock'
    BY <1>1 DEF Clock, StarvationClock, Preparing
  <1>2. ASSUME NEW s \in Slots \ Preparing, GuardEnter,
               Preparing' = Preparing \cup {s}
        PROVE  Clock'
    <2>1. count' = Cardinality(Preparing')
      BY <1>0, <1>2, SlotCounts DEF GuardEnter, Clock
    <2>2. signal' <=> Preparing' # {}
      BY <1>2, Zenon DEF GuardEnter
    <2> QED BY <2>1, <2>2 DEF Clock, StarvationClock, Preparing
  <1>3. ASSUME NEW s \in Preparing, GuardDrop, engine = "serving",
               Preparing' = Preparing \ {s}
        PROVE  Clock'
    <2>1. /\ count' = Cardinality(Preparing')
          /\ count = 1 <=> Preparing' = {}
      <3>1. Preparing \ {s} \in SUBSET Slots
        BY <1>0
      <3>2. /\ Cardinality(Preparing \ {s}) = Cardinality(Preparing) - 1
            /\ Cardinality(Preparing) \in 0..MaxSlots
        BY <1>0, <1>3, SlotCounts
      <3>3. Cardinality(Preparing \ {s}) = 0 <=> Preparing \ {s} = {}
        BY <3>1, SlotCounts
      <3> QED BY <1>3, <3>2, <3>3, PoolAssumption DEF GuardDrop, Clock
    <2>2. signal
      BY <1>0, <1>3
    <2>3. CASE count = 1
      <3>1. ~signal'
        BY <1>3, <2>3, Zenon DEF GuardDrop
      <3> QED BY <2>1, <2>3, <3>1 DEF Clock, StarvationClock, Preparing
    <2>4. CASE count # 1
      <3>1. signal'
        BY <1>3, <2>2, <2>4, Zenon DEF GuardDrop
      <3> QED BY <2>1, <2>4, <3>1 DEF Clock, StarvationClock, Preparing
    <2> QED BY <2>3, <2>4
  <1>4. ASSUME NEW s \in Slots, SlotStep(s)
        PROVE  /\ engine = "serving" /\ engine' = engine
               /\ pc'[s] \in Provisioning => Preparing' = Preparing \cup {s}
               /\ pc'[s] \notin Provisioning => Preparing' = Preparing \ {s}
               /\ pc[s] \in Provisioning <=> s \in Preparing
    BY <1>4, SlotsServe DEF Preparing
  <1>5. ASSUME NEW s \in Slots, SlotStep(s), pc[s] \in Provisioning,
               GuardDrop, pc'[s] \notin Provisioning
        PROVE  Clock'
    BY <1>3, <1>4, <1>5
  <1>6. ASSUME NEW s \in Slots, SlotStep(s), UNCHANGED <<count, signal>>,
               pc[s] \in Provisioning <=> pc'[s] \in Provisioning
        PROVE  Clock'
    BY <1>1, <1>4, <1>6
  <1>7. ASSUME NEW s \in Slots, NextRound(s) \/ End(s)
        PROVE  pc'[s] \notin Provisioning
    BY <1>7 DEF NextRound, End, Shape, Provisioning, Baking
  <1>8. ASSUME NEW s \in Slots, BakeFails(s) \/ DeleteFailed(s) \/ Abandon(s) \/ Ready(s)
        PROVE  Clock'
    <2>1. SlotStep(s)
      BY <1>8 DEF SlotStep, Slot
    <2>2. pc[s] \in Provisioning /\ GuardDrop
      BY <1>8 DEF BakeFails, DeleteFailed, Abandon, Ready, Provisioning, Baking
    <2>3. Ready(s) => pc'[s] \notin Provisioning
      BY DEF Ready, Shape, Provisioning, Baking
    <2> QED BY <1>5, <1>7, <1>8, <2>1, <2>2, <2>3 DEF BakeFails, DeleteFailed, Abandon
  <1>9. ASSUME NEW s \in Slots, Enter(s) PROVE Clock'
    <2>1. SlotStep(s)
      BY <1>9 DEF SlotStep, Slot
    <2>2. pc[s] \notin Provisioning /\ pc'[s] \in Provisioning /\ GuardEnter
      BY <1>9 DEF Enter, Shape, Provisioning, Baking
    <2> QED BY <1>2, <1>4, <2>1, <2>2
  <1>10. ASSUME NEW s \in Slots, MachineIsGone(s) \/ StopWaiting(s) \/ LoopEnds(s)
         PROVE  Clock'
    <2>1. SlotStep(s)
      BY <1>10 DEF SlotStep, Slot
    <2>2. pc[s] \notin Provisioning /\ UNCHANGED <<count, signal>>
      BY <1>10 DEF MachineIsGone, StopWaiting, LoopEnds, Provisioning, Baking
    <2> QED BY <1>6, <1>7, <1>10, <2>1, <2>2 DEF MachineIsGone, StopWaiting, LoopEnds
  <1>11. ASSUME NEW s \in Slots,
                \/ Adopt(s) \/ StripRecord(s) \/ Build(s) \/ GoldenReady(s)
                \/ Resolve(s) \/ CreateVm(s) \/ ProvisionFails(s)
         PROVE  Clock'
    <2>1. SlotStep(s)
      BY <1>11 DEF SlotStep, Slot
    <2>2. pc[s] \in Provisioning
      BY <1>11 DEF Adopt, StripRecord, Build, GoldenReady, Resolve, CreateVm,
                   ProvisionFails, Provisioning, Baking
    <2>3. GoldenInHand(s) => pc'[s] \in Provisioning /\ UNCHANGED <<count, signal>>
      BY DEF GoldenInHand, Shape, Provisioning
    <2>4. pc'[s] \in Provisioning /\ UNCHANGED <<count, signal>>
      <3>1. CASE Adopt(s) \/ GoldenReady(s)
        BY <2>3, <3>1 DEF Adopt, GoldenReady
      <3>2. CASE StripRecord(s) \/ Build(s) \/ Resolve(s)
        BY <3>2 DEF StripRecord, Build, Resolve, Shape, Provisioning, Baking
      <3>3. CASE CreateVm(s) \/ ProvisionFails(s)
        BY <3>3 DEF CreateVm, ProvisionFails, Shape, Provisioning, Baking
      <3> QED BY <1>11, <3>1, <3>2, <3>3
    <2> QED BY <1>6, <2>1, <2>2, <2>4
  <1>12. ASSUME NEW s \in Slots,
                \/ Spawn(s) \/ JobTaken(s) \/ RunEnds(s) \/ Preserve(s) \/ HoldEnds(s)
                \/ RunnerGone(s) \/ DeleteMachine(s)
                \/ PauseSeen(s) \/ ResumeSeen(s) \/ Reacquire(s)
         PROVE  Clock'
    <2>1. SlotStep(s)
      BY <1>12 DEF SlotStep, Slot
    <2>2. UNCHANGED <<count, signal>>
      BY <1>12 DEF Spawn, JobTaken, RunEnds, Preserve, HoldEnds, RunnerGone,
                   DeleteMachine, PauseSeen, ResumeSeen, Reacquire
    <2>3. pc[s] \in Provisioning <=> pc'[s] \in Provisioning
      BY <1>12 DEF Spawn, JobTaken, RunEnds, Preserve, HoldEnds, RunnerGone,
                   DeleteMachine, PauseSeen, ResumeSeen, Reacquire, Shape,
                   Provisioning, Baking
    <2> QED BY <1>6, <2>1, <2>2, <2>3
  <1>13. ASSUME \A s \in Slots : pc'[s] \notin Provisioning, count' = 0,
                engine' = "serving" => ~signal'
         PROVE  Clock'
    <2>1. Preparing' = {}
      BY <1>13 DEF Preparing
    <2>2. Cardinality({}) = 0
      BY FS_EmptySet
    <2> QED BY <1>13, <2>1, <2>2 DEF Clock, StarvationClock, Preparing
  <1>14. CASE Start \/ StaleSweep
    BY <1>13, <1>14 DEF Start, StaleSweep, Phases, Shape, Provisioning, Baking
  <1>15. CASE Teardown \/ Crash
    <2>1. ProcessGone
      BY <1>15 DEF Teardown, Crash
    <2>2. engine' = "off" /\ count' = 0 /\ \A s \in Slots : pc'[s] = "new"
      BY <2>1 DEF ProcessGone
    <2> QED BY <1>13, <2>2 DEF Provisioning, Baking
  <1>16. CASE Adopt(Main) \/ GoldenReady(Main)
    <2>1. Serve /\ count = 0
      BY <1>16 DEF Adopt, GoldenReady, GoldenInHand, Phases, Shape
    <2>2. ~signal'
      BY <2>1, Zenon DEF Serve
    <2>3. count' = 0 /\ \A s \in Slots : pc'[s] \in {"loop", "new"}
      BY <2>1 DEF Serve
    <2> QED BY <1>13, <2>2, <2>3 DEF Provisioning, Baking
  <1>17. CASE Shutdown
    BY <1>1, <1>17 DEF Shutdown, Preparing
  <1>18. CASE StripRecord(Main) \/ Build(Main)
    BY <1>1, <1>18 DEF StripRecord, Build, Preparing, Shape
  <1>19. ASSUME NEW m \in Machines, Configure(m) PROVE Clock'
    BY <1>1, <1>19 DEF Configure, Preparing
  <1> QED BY <1>8, <1>9, <1>10, <1>11, <1>12, <1>14, <1>15, <1>16, <1>17, <1>18, <1>19
          DEF Next, Slot
-----------------------------------------------------------------------------

\* A slot and its permit: a pause gives the permit back, a slot that prepares
\* or waits for a job has it, and the warm mode has no permits but fixed slots.
PermitOf(s) ==
  /\ watch[s] \in {"paused", "waiting"} => ~holds[s]
  /\ watch[s] # "off" => pc[s] \in {"serve", "busy", "held", "teardown", "delete"}
  /\ pc[s] \in {"new", "ended"} => ~holds[s]
  /\ mode = "warm" => ~holds[s] /\ watch[s] = "off" /\ (pc[s] # "new" => s < Runners)
  /\ mode = "demand" /\ pc[s] \in Provisioning \cup {"loop", "serve"} => holds[s]

Permits ==
  /\ \A s \in Slots : PermitOf(s)
  /\ mode = "warm" => permits = 0
  /\ mode = "demand" /\ engine = "serving" => permits + Cardinality(Holders) = Runners

\* A step of a slot moves at most one permit, between the semaphore and it.
PermitMoves(s) ==
  \/ permits' = permits /\ holds'[s] = holds[s]
  \/ permits' = permits + 1 /\ holds[s] /\ ~holds'[s]
  \/ permits' = permits - 1 /\ mode = "demand" /\ ~holds[s] /\ holds'[s]

\* Each step of a slot, of its pause watcher or of run_on_demand moves a permit
\* that way and keeps what ties it to the slot.
LEMMA SlotPermit ==
  ASSUME Shape, Phases, NEW s \in Slots, PermitOf(s), SlotStep(s)
  PROVE  PermitMoves(s) /\ PermitOf(s)'
  <1> USE Constants DEF poolVars, goldenVars, permitVars, clockVars, hostVars
  <1>0. mode' = mode /\ Runners' = Runners
    BY SlotsServe DEF Runners
  <1>1. ASSUME UNCHANGED permitVars, pc[s] # "new", pc'[s] # "new",
               pc[s] \in Provisioning \cup {"loop", "serve"}
                 \/ pc'[s] \notin Provisioning \cup {"loop", "serve"},
               pc'[s] # "ended",
               watch[s] # "off" => pc'[s] \in {"serve", "busy", "held", "teardown", "delete"}
        PROVE  PermitMoves(s) /\ PermitOf(s)'
    BY <1>0, <1>1 DEF PermitOf, PermitMoves
  <1>2. ASSUME pc[s] # "new", End(s) PROVE PermitMoves(s) /\ PermitOf(s)'
    <2>1. /\ pc'[s] = "ended" /\ watch'[s] = "off" /\ ~holds'[s]
          /\ permits' = IF holds[s] THEN permits + 1 ELSE permits
      BY <1>2 DEF End, GiveBack, Shape
    <2>2. PermitOf(s)'
      BY <1>0, <1>2, <2>1 DEF PermitOf, Provisioning, Baking
    <2>3. PermitMoves(s)
      <3>1. CASE holds[s]
        BY <2>1, <3>1 DEF PermitMoves
      <3>2. CASE ~holds[s]
        <4>1. permits' = permits
          BY <2>1, <3>2
        <4>2. holds'[s] = holds[s]
          BY <1>2, <3>2, Zenon DEF End, GiveBack, Shape
        <4> QED BY <4>1, <4>2 DEF PermitMoves
      <3> QED BY <3>1, <3>2
    <2> QED BY <2>2, <2>3
  <1>3. ASSUME pc[s] # "new", NextRound(s)
        PROVE  PermitMoves(s) /\ PermitOf(s)'
    <2>1. CASE mode = "warm" /\ pc' = [pc EXCEPT ![s] = "loop"] /\ UNCHANGED permitVars
      BY <1>0, <1>3, <2>1 DEF PermitOf, PermitMoves, Shape
    <2> QED BY <1>2, <1>3, <2>1 DEF NextRound
  <1>4. CASE BakeFails(s) \/ DeleteFailed(s) \/ MachineIsGone(s) \/ StopWaiting(s)
    BY <1>3, <1>4 DEF BakeFails, DeleteFailed, MachineIsGone, StopWaiting
  <1>5. CASE Abandon(s) \/ LoopEnds(s)
    BY <1>2, <1>5 DEF Abandon, LoopEnds, Provisioning, Baking
  <1>6. CASE Adopt(s) \/ GoldenReady(s)
    <2>1. pc[s] \in Baking /\ GoldenInHand(s)
      BY <1>6 DEF Adopt, GoldenReady, Baking
    <2>2. pc'[s] = "boot" /\ UNCHANGED permitVars
      BY <2>1 DEF GoldenInHand, Shape
    <2> QED BY <1>0, <1>1, <2>1, <2>2 DEF PermitOf, Provisioning, Baking
  <1>7. CASE StripRecord(s) \/ Build(s) \/ Enter(s) \/ Resolve(s)
    BY <1>1, <1>7 DEF StripRecord, Build, Enter, Resolve, Shape, PermitOf,
                      Provisioning, Baking
  <1>8. CASE CreateVm(s) \/ ProvisionFails(s)
    BY <1>1, <1>8 DEF CreateVm, ProvisionFails, Shape, PermitOf, Provisioning, Baking
  <1>9. CASE JobTaken(s) \/ RunEnds(s) \/ Preserve(s) \/ HoldEnds(s) \/ RunnerGone(s)
    BY <1>1, <1>9 DEF JobTaken, RunEnds, Preserve, HoldEnds, RunnerGone, Shape,
                      Provisioning, Baking
  <1>10. CASE Ready(s)
    <2>1. /\ pc[s] = "made" /\ pc'[s] = "serve" /\ permits' = permits /\ holds' = holds
          /\ watch'[s] = IF mode = "demand" THEN "on" ELSE "off"
      BY <1>10 DEF Ready, Shape
    <2> QED BY <1>0, <2>1 DEF PermitOf, PermitMoves, Provisioning
  <1>11. CASE DeleteMachine(s)
    <2>1. /\ pc[s] = "delete" /\ pc'[s] = "gone" /\ permits' = permits /\ holds' = holds
          /\ watch'[s] = "off"
      BY <1>11 DEF DeleteMachine, Shape
    <2> QED BY <1>0, <2>1 DEF PermitOf, PermitMoves, Provisioning, Baking
  <1>12. CASE Spawn(s)
    <2>1. /\ mode = "demand" /\ pc[s] = "new" /\ pc'[s] = "loop" /\ watch' = watch
          /\ permits' = permits - 1
      BY <1>12 DEF Spawn, Shape
    <2>2. holds'[s]
      BY <1>12 DEF Spawn, Shape
    <2> QED BY <1>0, <2>1, <2>2 DEF PermitOf, PermitMoves
  <1>13. CASE PauseSeen(s)
    <2>1. /\ pc[s] = "busy" /\ pc' = pc /\ watch'[s] = "paused" /\ watch[s] = "on"
          /\ permits' = IF holds[s] THEN permits + 1 ELSE permits
      BY <1>13 DEF PauseSeen, Shape
    <2>2. ~holds'[s]
      BY <1>13 DEF PauseSeen, Shape
    <2>3. PermitOf(s)'
      BY <1>0, <2>1, <2>2 DEF PermitOf, Provisioning, Baking
    <2>4. CASE holds[s]
      BY <2>1, <2>2, <2>3, <2>4 DEF PermitMoves
    <2>5. CASE ~holds[s]
      <3>1. permits' = permits
        BY <2>1, <2>5
      <3>2. holds'[s] = holds[s]
        BY <1>13, <2>5, Zenon DEF PauseSeen, Shape
      <3> QED BY <2>3, <3>1, <3>2 DEF PermitMoves
    <2> QED BY <2>4, <2>5
  <1>14. CASE ResumeSeen(s)
    <2>1. /\ pc' = pc /\ watch'[s] = "waiting" /\ watch[s] = "paused"
          /\ permits' = permits /\ holds' = holds
      BY <1>14 DEF ResumeSeen, Shape
    <2> QED BY <1>0, <2>1 DEF PermitOf, PermitMoves
  <1>15. CASE Reacquire(s)
    <2>1. /\ pc' = pc /\ watch'[s] = "on" /\ watch[s] = "waiting"
          /\ permits' = permits - 1
      BY <1>15 DEF Reacquire, Shape
    <2>2. holds'[s]
      BY <1>15 DEF Reacquire, Shape
    <2>3. mode = "demand"
      BY <2>1 DEF PermitOf, Shape
    <2> QED BY <1>0, <2>1, <2>2, <2>3 DEF PermitOf, PermitMoves
  <1> QED BY <1>4, <1>5, <1>6, <1>7, <1>8, <1>9, <1>10, <1>11, <1>12, <1>13, <1>14, <1>15
          DEF SlotStep, Slot
\* Permits are neither lost nor made, by pauses, resumes, failures and ends of
\* slots in any order (run_on_demand, watch_guest_pause_with_suspension).
LEMMA PermitStep ==
  ASSUME Shape, Phases, Permits, Next
  PROVE  Permits'
  <1> USE Constants DEF poolVars, goldenVars, permitVars, clockVars, hostVars
  <1>0. Holders \in SUBSET Slots
    BY DEF Holders
  <1>1. ASSUME NEW s \in Slots, SlotStep(s) PROVE Permits'
    <2>1. /\ mode' = mode /\ engine = "serving" /\ engine' = engine /\ Runners' = Runners
          /\ \A r \in Slots \ {s} :
               pc'[r] = pc[r] /\ holds'[r] = holds[r] /\ watch'[r] = watch[r]
      BY <1>1, SlotsServe DEF Runners
    <2>2. PermitMoves(s) /\ PermitOf(s)'
      BY <1>1, SlotPermit DEF Permits
    <2>3. \A r \in Slots \ {s} : PermitOf(r)'
      BY <2>1 DEF Permits, PermitOf
    <2>4. mode = "warm" => permits' = 0
      BY <2>2 DEF Permits, PermitOf, PermitMoves
    <2>5. ASSUME mode = "demand"
          PROVE  permits' + Cardinality(Holders') = Runners
      <3>1. permits + Cardinality(Holders) = Runners
            /\ Cardinality(Holders) \in 0..MaxSlots /\ permits \in Nat
        BY <1>0, <2>1, <2>5, SlotCounts DEF Permits, Shape
      <3>2. CASE permits' = permits /\ holds'[s] = holds[s]
        <4>1. Holders' = Holders
          BY <2>1, <3>2 DEF Holders
        <4> QED BY <3>1, <3>2, <4>1
      <3>3. CASE permits' = permits + 1 /\ holds[s] /\ ~holds'[s]
        <4>1. Holders' = Holders \ {s} /\ s \in Holders
          BY <2>1, <3>3 DEF Holders
        <4>2. Cardinality(Holders') = Cardinality(Holders) - 1
          BY <1>0, <4>1, SlotCounts
        <4> QED BY <3>1, <3>3, <4>2, PoolAssumption
      <3>4. CASE permits' = permits - 1 /\ ~holds[s] /\ holds'[s]
        <4>1. Holders' = Holders \cup {s} /\ s \notin Holders
          BY <2>1, <3>4 DEF Holders
        <4>2. Cardinality(Holders') = Cardinality(Holders) + 1
          BY <1>0, <4>1, SlotCounts
        <4> QED BY <3>1, <3>4, <4>2, PoolAssumption
      <3> QED BY <2>2, <3>2, <3>3, <3>4 DEF PermitMoves
    <2> QED BY <2>1, <2>2, <2>3, <2>4, <2>5 DEF Permits
  <1>2. ASSUME mode' = mode, engine' # "serving", permits' = 0,
               \A s \in Slots : pc'[s] = "new" /\ ~holds'[s] /\ watch'[s] = "off"
        PROVE  Permits'
    BY <1>2 DEF Permits, PermitOf, Provisioning, Baking
  <1>3. CASE Start \/ StaleSweep
    BY <1>2, <1>3 DEF Start, StaleSweep, Phases, Shape
  <1>4. CASE Teardown \/ Crash
    <2>1. ProcessGone /\ mode' = mode
      BY <1>4 DEF Teardown, Crash
    <2>2. \A s \in Slots : ~holds'[s]
      BY <2>1 DEF ProcessGone
    <2> QED BY <1>2, <2>1, <2>2 DEF ProcessGone
  <1>5. CASE Adopt(Main) \/ GoldenReady(Main)
    <2>1. Serve /\ engine = "prepare" /\ mode' = mode /\ Runners' = Runners
      BY <1>5 DEF Adopt, GoldenReady, GoldenInHand, Phases, Shape, Runners
    <2>2. \A s \in Slots : ~holds'[s] /\ watch'[s] = "off"
      BY <2>1 DEF Serve, Phases
    <2>3. \A s \in Slots : pc'[s] = IF mode = "warm" /\ s < Runners THEN "loop" ELSE "new"
      BY <2>1 DEF Serve
    <2>4. \A s \in Slots : PermitOf(s)'
      BY <2>1, <2>2, <2>3 DEF PermitOf, Provisioning, Baking
    <2>5. Holders' = {}
      BY <2>2 DEF Holders
    <2>6. Cardinality({}) = 0 /\ Runners \in Nat
      BY FS_EmptySet, Sizes DEF Shape
    <2>7. permits' = IF mode = "demand" THEN Runners ELSE 0
      BY <2>1 DEF Serve
    <2> QED BY <2>1, <2>4, <2>5, <2>6, <2>7 DEF Permits
  <1>6. ASSUME UNCHANGED <<mode, engine, permitVars>>, \A s \in Slots : pc'[s] = pc[s]
        PROVE  Permits'
    BY <1>6 DEF Permits, PermitOf, Holders, Runners
  <1>7. CASE Shutdown \/ StripRecord(Main) \/ Build(Main)
    BY <1>6, <1>7 DEF Shutdown, StripRecord, Build, Shape
  <1>8. ASSUME NEW m \in Machines, Configure(m) PROVE Permits'
    BY <1>6, <1>8 DEF Configure
  <1> QED BY <1>1, <1>3, <1>4, <1>5, <1>7, <1>8 DEF Next, SlotStep

-----------------------------------------------------------------------------

\* Runners, golden slots left, retained goldens and bakes fit on the host.
Budget ==
  engine = "serving" =>
    Runners + budget + Cardinality(cache) + Cardinality(Bakers) <= Room

\* A bake takes a golden slot, which becomes the golden's or goes back
\* (GoldenBudget, get_or_prepare).
LEMMA BudgetStep ==
  ASSUME Shape, Phases, Budget, Next
  PROVE  Budget'
  <1> USE Constants DEF poolVars, goldenVars, permitVars, clockVars, hostVars
  <1>0. /\ Bakers \in SUBSET Slots /\ Cardinality(Bakers) \in 0..MaxSlots
        /\ IsFiniteSet(cache) /\ Cardinality(cache) \in Nat
        /\ budget \in Nat /\ Runners \in Nat /\ Room \in Nat /\ Capacity \in Nat
    <2>1. Bakers \in SUBSET Slots
      BY DEF Bakers
    <2>2. IsFiniteSet(cache) /\ Cardinality(cache) \in Nat
      BY FS_Subset, FS_CardinalityType DEF Shape
    <2> QED BY <2>1, <2>2, SlotCounts, Sizes, PoolAssumption DEF Shape, Room
  <1>1. ASSUME NEW e
        PROVE  /\ Cardinality(cache \cup {e}) \in Nat
               /\ Cardinality(cache \cup {e}) <= Cardinality(cache) + 1
    <2>1. Cardinality(cache \cup {e})
            = IF e \in cache THEN Cardinality(cache) ELSE Cardinality(cache) + 1
      BY <1>0, FS_AddElement
    <2> QED BY <1>0, <2>1
  <1>2. ASSUME NEW s \in Slots, SlotStep(s)
        PROVE  /\ Runners' = Runners /\ engine = "serving"
               /\ pc'[s] \in Baking => Bakers' = Bakers \cup {s}
               /\ pc'[s] \notin Baking => Bakers' = Bakers \ {s}
               /\ pc[s] \in Baking <=> s \in Bakers
    BY <1>2, SlotsServe DEF Bakers, Runners
  <1>3. ASSUME NEW s \in Slots, SlotStep(s), pc[s] \in Baking, pc'[s] \notin Baking,
               \/ budget' = budget + 1 /\ cache' = cache
               \/ budget' = budget /\ cache' = cache \cup {env[s]}
        PROVE  Budget'
    <2>1. Cardinality(Bakers') = Cardinality(Bakers) - 1
      BY <1>0, <1>2, <1>3, SlotCounts
    <2>2. Runners + budget + Cardinality(cache) + Cardinality(Bakers) <= Room
      BY <1>2, <1>3 DEF Budget
    <2>3. CASE budget' = budget + 1 /\ cache' = cache
      BY <1>0, <1>2, <1>3, <2>1, <2>2, <2>3 DEF Budget
    <2>4. CASE budget' = budget /\ cache' = cache \cup {env[s]}
      <3>1. /\ Cardinality(cache') \in Nat
            /\ Cardinality(cache') <= Cardinality(cache) + 1
        BY <1>1, <2>4
      <3> QED BY <1>0, <1>2, <1>3, <2>1, <2>2, <2>4, <3>1 DEF Budget
    <2> QED BY <1>3, <2>3, <2>4
  <1>4. ASSUME NEW s \in Slots, SlotStep(s), UNCHANGED <<budget, cache>>,
               pc[s] \in Baking <=> pc'[s] \in Baking
        PROVE  Budget'
    <2>1. Bakers' = Bakers
      BY <1>2, <1>4
    <2> QED BY <1>2, <1>4, <2>1 DEF Budget
  <1>5. ASSUME NEW s \in Slots, NextRound(s) \/ End(s)
        PROVE  pc'[s] \notin Baking
    BY <1>5 DEF NextRound, End, Shape, Baking
  <1>6. ASSUME NEW s \in Slots, Adopt(s) \/ GoldenReady(s) PROVE Budget'
    <2>1. SlotStep(s)
      BY <1>6 DEF SlotStep, Slot
    <2>2. pc[s] \in Baking /\ GoldenInHand(s)
      BY <1>6 DEF Adopt, GoldenReady, Baking
    <2>3. pc'[s] \notin Baking /\ budget' = budget /\ cache' = cache \cup {env[s]}
      BY <2>2 DEF GoldenInHand, Shape, Baking
    <2> QED BY <1>3, <2>1, <2>2, <2>3
  <1>7. ASSUME NEW s \in Slots, BakeFails(s) PROVE Budget'
    <2>1. SlotStep(s)
      BY <1>7 DEF SlotStep, Slot
    <2>2. pc[s] \in Baking /\ budget' = budget + 1 /\ cache' = cache /\ NextRound(s)
      BY <1>7 DEF BakeFails, Baking
    <2> QED BY <1>3, <1>5, <2>1, <2>2
  <1>8. ASSUME NEW s \in Slots, Abandon(s) PROVE Budget'
    <2>1. SlotStep(s) /\ pc'[s] \notin Baking /\ cache' = cache
      BY <1>5, <1>8 DEF SlotStep, Slot, Abandon
    <2>2. budget' = IF pc[s] \in Baking THEN budget + 1 ELSE budget
      BY <1>8 DEF Abandon
    <2> QED BY <1>3, <1>4, <2>1, <2>2
  <1>9. ASSUME NEW s \in Slots, Resolve(s) PROVE Budget'
    <2>1. SlotStep(s) /\ pc[s] \notin Baking /\ cache' = cache
      BY <1>9 DEF SlotStep, Slot, Resolve, Baking
    <2>2. CASE budget' = budget /\ pc' = [pc EXCEPT ![s] = "boot"]
      BY <1>4, <2>1, <2>2 DEF Shape, Baking
    <2>3. CASE budget > 0 /\ budget' = budget - 1 /\ pc' = [pc EXCEPT ![s] = "bake"]
      <3>1. pc'[s] \in Baking
        BY <2>3 DEF Shape, Baking
      <3>2. Cardinality(Bakers') = Cardinality(Bakers) + 1
        BY <1>0, <1>2, <2>1, <3>1, SlotCounts
      <3> QED BY <1>0, <1>2, <2>1, <2>3, <3>2 DEF Budget
    <2> QED BY <1>9, <2>2, <2>3 DEF Resolve
  <1>10. ASSUME NEW s \in Slots,
                \/ DeleteFailed(s) \/ MachineIsGone(s) \/ StopWaiting(s) \/ LoopEnds(s)
                \/ Spawn(s) \/ Enter(s) \/ StripRecord(s) \/ Build(s)
                \/ CreateVm(s) \/ Ready(s) \/ ProvisionFails(s)
         PROVE  Budget'
    <2>1. SlotStep(s)
      BY <1>10 DEF SlotStep, Slot
    <2>2. UNCHANGED <<budget, cache>>
      BY <1>10 DEF DeleteFailed, MachineIsGone, StopWaiting, LoopEnds, Spawn, Enter,
                   StripRecord, Build, CreateVm, Ready, ProvisionFails
    <2>3. pc[s] \in Baking <=> pc'[s] \in Baking
      <3>1. CASE DeleteFailed(s) \/ MachineIsGone(s) \/ StopWaiting(s) \/ LoopEnds(s)
        BY <1>5, <3>1 DEF DeleteFailed, MachineIsGone, StopWaiting, LoopEnds, Baking
      <3>2. CASE Spawn(s) \/ Enter(s) \/ StripRecord(s) \/ Build(s)
        BY <3>2 DEF Spawn, Enter, StripRecord, Build, Shape, Baking
      <3>3. CASE CreateVm(s) \/ Ready(s) \/ ProvisionFails(s)
        BY <3>3 DEF CreateVm, Ready, ProvisionFails, Shape, Baking
      <3> QED BY <1>10, <3>1, <3>2, <3>3
    <2> QED BY <1>4, <2>1, <2>2, <2>3
  <1>11. ASSUME NEW s \in Slots,
                \/ JobTaken(s) \/ RunEnds(s) \/ Preserve(s) \/ HoldEnds(s)
                \/ RunnerGone(s) \/ DeleteMachine(s)
                \/ PauseSeen(s) \/ ResumeSeen(s) \/ Reacquire(s)
         PROVE  Budget'
    <2>1. SlotStep(s)
      BY <1>11 DEF SlotStep, Slot
    <2>2. UNCHANGED <<budget, cache>>
      BY <1>11 DEF JobTaken, RunEnds, Preserve, HoldEnds, RunnerGone, DeleteMachine,
                   PauseSeen, ResumeSeen, Reacquire
    <2>3. pc[s] \in Baking <=> pc'[s] \in Baking
      BY <1>11 DEF JobTaken, RunEnds, Preserve, HoldEnds, RunnerGone, DeleteMachine,
                   PauseSeen, ResumeSeen, Reacquire, Shape, Baking
    <2> QED BY <1>4, <2>1, <2>2, <2>3
  <1>12. CASE Start \/ StaleSweep \/ Teardown \/ Crash
    BY <1>12 DEF Start, StaleSweep, Teardown, Crash, ProcessGone, Budget
  <1>13. CASE Adopt(Main) \/ GoldenReady(Main)
    <2>1. /\ Serve /\ cache = {} /\ cache' = {env[Main]} /\ mode' = mode
          /\ Runners' = Runners
      BY <1>13 DEF Adopt, GoldenReady, GoldenInHand, Phases, Shape, Runners
    <2>2. Cardinality(cache') = 1
      BY <2>1, FS_Singleton
    <2>3. budget' = GoldenBudget(1)
      BY <2>1, <2>2 DEF Serve
    <2>4. Runners + budget' + 1 <= Room
      BY <1>0, <2>3, Sizes DEF GoldenBudget, Shape, Room
    <2>5. \A s \in Slots : pc'[s] \in {"loop", "new"}
      BY <2>1 DEF Serve
    <2>6. Bakers' = {}
      BY <2>5 DEF Bakers, Baking
    <2>7. Cardinality({}) = 0 /\ budget' \in Nat
      BY <1>0, <2>3, FS_EmptySet DEF GoldenBudget
    <2> QED BY <1>0, <2>1, <2>2, <2>4, <2>6, <2>7 DEF Budget
  <1>14. ASSUME UNCHANGED <<engine, mode, budget, cache>>, \A s \in Slots : pc'[s] = pc[s]
         PROVE  Budget'
    BY <1>14 DEF Budget, Bakers, Runners
  <1>15. CASE Shutdown \/ StripRecord(Main) \/ Build(Main)
    BY <1>14, <1>15 DEF Shutdown, StripRecord, Build, Shape
  <1>16. ASSUME NEW m \in Machines, Configure(m) PROVE Budget'
    BY <1>14, <1>16 DEF Configure
  <1> QED BY <1>6, <1>7, <1>8, <1>9, <1>10, <1>11, <1>12, <1>13, <1>15, <1>16
          DEF Next, Slot
-----------------------------------------------------------------------------

\* What the host and the control plane know of a slot's machine: a runner that
\* serves has registered, a machine that is deleted has been purged first, and
\* no slot's machine was given up before.
MachineOf(s) ==
  /\ pc[s] \in {"serve", "busy", "held", "teardown", "delete", "gone"} => Machine(s) \notin conf
  /\ pc[s] \in Hosting \ {"failed"} => Machine(s) \notin leaked
  /\ pc[s] \in {"failed", "delete", "gone"} => Machine(s) \notin registered \ missed

\* Every machine belongs to a slot or was given up, until a shutdown.
Hosted ==
  /\ engine = "prepare" => present \subseteq leaked
  /\ engine = "serving" /\ ~shutdown =>
       \A m \in present \ leaked : \E s \in Slots : pc[s] \in Hosting /\ m = Machine(s)

Hosts ==
  /\ conf \subseteq present /\ leaked \subseteq present
  /\ \A s \in Slots : MachineOf(s)
  /\ Hosted
  /\ RunnersHosted

\* Machines of different slots have different names.
LEMMA NamesDiffer ==
  ASSUME NEW s \in Slots, NEW r \in Slots \ {s}
  PROVE  Machine(s) # Machine(r) /\ Machine(s)' # Machine(r)' /\ Machine(s)' # Machine(r)
         /\ Machine(s) # Machine(r)'
  BY DEF Machine

\* A step of a slot that touches no machine but its own keeps Hosts if it keeps
\* it for that slot.
LEMMA OwnMachine ==
  ASSUME Shape, Phases, Hosts, NEW s \in Slots, SlotStep(s),
         MachineOf(s)', conf' \subseteq present', leaked' \subseteq present',
         RunnersHosted',
         \A r \in Slots \ {s} :
           /\ Machine(r) \in conf' => Machine(r) \in conf
           /\ Machine(r) \in leaked' => Machine(r) \in leaked
           /\ Machine(r) \in registered' \ missed' => Machine(r) \in registered \ missed,
         \A m \in present' \ leaked' :
           \/ m \in present \ leaked /\ m # Machine(s)
           \/ pc'[s] \in Hosting /\ m = Machine(s)'
           \/ shutdown
  PROVE  Hosts'
  <1>1. /\ engine = "serving" /\ engine' = engine /\ shutdown' = shutdown
        /\ \A r \in Slots \ {s} : pc'[r] = pc[r] /\ Machine(r)' = Machine(r)
    BY SlotsServe, Constants DEF Machine
  <1>2. \A r \in Slots \ {s} : MachineOf(r)'
    BY <1>1 DEF Hosts, MachineOf
  <1>3. Hosted'
    <2>1. SUFFICES ASSUME ~shutdown, NEW m \in present' \ leaked'
                   PROVE  \E r \in Slots : pc'[r] \in Hosting /\ m = Machine(r)'
      BY <1>1 DEF Hosted
    <2>2. CASE m \in present \ leaked /\ m # Machine(s)
      <3>1. PICK r \in Slots : pc[r] \in Hosting /\ m = Machine(r)
        BY <1>1, <2>1, <2>2 DEF Hosts, Hosted
      <3> QED BY <1>1, <2>2, <3>1
    <2> QED BY <2>1, <2>2
  <1> QED BY <1>2, <1>3 DEF Hosts

\* The purge precedes the delete on every path, and a machine outlives its slot
\* only if a failed provision could not delete it (run_one_runner,
\* provision_slot, await_machine_gone).
LEMMA HostStep ==
  ASSUME Shape, Phases, Hosts, Next
  PROVE  Hosts'
  <1> USE Constants, NamesDiffer
          DEF poolVars, goldenVars, permitVars, clockVars, hostVars
  <1>1. ASSUME NEW s \in Slots, SlotStep(s), UNCHANGED <<hostVars, gen>>,
               pc[s] \in Hosting <=> pc'[s] \in Hosting,
               pc'[s] \in Hosting \ {"failed"} => pc[s] \in Hosting \ {"failed"},
               pc'[s] \in {"serve", "busy", "held", "teardown", "delete", "gone"} =>
                 pc[s] \in {"serve", "busy", "held", "teardown", "delete", "gone"},
               pc'[s] \in {"failed", "delete", "gone"} => pc[s] \in {"failed", "delete", "gone"}
        PROVE  Hosts'
    <2>1. Machine(s)' = Machine(s)
      BY <1>1 DEF Machine
    <2>2. MachineOf(s)'
      BY <1>1, <2>1 DEF Hosts, MachineOf
    <2>3. conf' \subseteq present' /\ leaked' \subseteq present' /\ RunnersHosted'
      BY <1>1 DEF Hosts, RunnersHosted
    <2>4. /\ engine = "serving" /\ engine' = engine /\ shutdown' = shutdown
          /\ \A r \in Slots \ {s} : pc'[r] = pc[r] /\ Machine(r)' = Machine(r)
      BY <1>1, SlotsServe DEF Machine
    <2>5. \A r \in Slots \ {s} : MachineOf(r)'
      BY <1>1, <2>4 DEF Hosts, MachineOf
    <2>6. Hosted'
      BY <1>1, <2>1, <2>4 DEF Hosts, Hosted
    <2> QED BY <2>2, <2>3, <2>5, <2>6 DEF Hosts
  <1>2. ASSUME NEW s \in Slots,
               \/ Adopt(s) \/ GoldenReady(s) \/ StripRecord(s) \/ Build(s) \/ BakeFails(s)
               \/ Enter(s) \/ LoopEnds(s) \/ Resolve(s) \/ Spawn(s)
        PROVE  Hosts'
    <2>1. SlotStep(s)
      BY <1>2 DEF SlotStep, Slot
    <2>2. UNCHANGED <<hostVars, gen>>
      BY <1>2 DEF Adopt, GoldenReady, StripRecord, Build, BakeFails, Enter, LoopEnds,
                  Resolve, Spawn
    <2>3. pc[s] \notin Hosting
      BY <1>2 DEF Adopt, GoldenReady, StripRecord, Build, BakeFails, Enter, LoopEnds,
                  Resolve, Spawn, Hosting
    <2>4. pc'[s] \notin Hosting
      <3>1. CASE Adopt(s) \/ GoldenReady(s)
        BY <3>1 DEF Adopt, GoldenReady, GoldenInHand, Shape, Hosting
      <3>2. CASE BakeFails(s) \/ LoopEnds(s)
        BY <3>2 DEF BakeFails, LoopEnds, NextRound, End, Shape, Hosting
      <3>3. CASE StripRecord(s) \/ Build(s) \/ Enter(s) \/ Resolve(s) \/ Spawn(s)
        BY <3>3 DEF StripRecord, Build, Enter, Resolve, Spawn, Shape, Hosting
      <3> QED BY <1>2, <3>1, <3>2, <3>3
    <2> QED BY <1>1, <2>1, <2>2, <2>3, <2>4 DEF Hosting
  <1>3. ASSUME NEW s \in Slots,
               \/ JobTaken(s) \/ RunEnds(s) \/ Preserve(s) \/ HoldEnds(s)
               \/ PauseSeen(s) \/ ResumeSeen(s) \/ Reacquire(s)
        PROVE  Hosts'
    <2>1. SlotStep(s) /\ UNCHANGED <<hostVars, gen>>
      BY <1>3 DEF SlotStep, Slot, JobTaken, RunEnds, Preserve, HoldEnds, PauseSeen,
                  ResumeSeen, Reacquire
    <2>2. \/ /\ pc[s] \in {"serve", "busy", "held"}
             /\ pc'[s] \in {"busy", "held", "teardown"}
          \/ pc'[s] = pc[s]
      BY <1>3 DEF JobTaken, RunEnds, Preserve, HoldEnds, PauseSeen, ResumeSeen,
                  Reacquire, Shape
    <2> QED BY <1>1, <2>1, <2>2 DEF Hosting
  <1>4. ASSUME NEW s \in Slots, CreateVm(s) PROVE Hosts'
    <2>1. /\ SlotStep(s) /\ pc'[s] = "made" /\ gen'[s] = gen[s] + 1
          /\ pc[s] = "boot" /\ UNCHANGED <<registered, leaked, missed>>
      BY <1>4 DEF SlotStep, Slot, CreateVm, Shape
    <2> DEFINE m == <<s, gen[s] + 1>>
    <2>2. /\ m \notin present /\ present' = present \cup {m} /\ conf' = conf \cup {m}
          /\ Machine(s)' = m
      BY <1>4, <2>1 DEF CreateVm, Machine
    <2>3. \A r \in Slots \ {s} : Machine(r) # m
      BY DEF Machine
    <2> HIDE DEF m
    <2>4. MachineOf(s)'
      BY <2>1, <2>2 DEF MachineOf, Hosts
    <2>5. conf' \subseteq present' /\ leaked' \subseteq present' /\ RunnersHosted'
      BY <2>1, <2>2 DEF Hosts, RunnersHosted
    <2>6. \A x \in present \ leaked : x # Machine(s) \/ shutdown
      <3>1. engine = "serving"
        BY <2>1, SlotsServe
      <3> QED BY <2>1, <3>1 DEF Hosts, Hosted, Hosting
    <2>7. \A x \in present' \ leaked' :
            \/ x \in present \ leaked /\ x # Machine(s)
            \/ pc'[s] \in Hosting /\ x = Machine(s)'
            \/ shutdown
      BY <2>1, <2>2, <2>6 DEF Hosting
    <2>8. \A r \in Slots \ {s} :
           /\ Machine(r) \in conf' => Machine(r) \in conf
           /\ Machine(r) \in leaked' => Machine(r) \in leaked
           /\ Machine(r) \in registered' \ missed' => Machine(r) \in registered \ missed
      BY <2>1, <2>2, <2>3
    <2> QED BY <2>1, <2>4, <2>5, <2>7, <2>8, OwnMachine
  <1>5. ASSUME NEW s \in Slots, Ready(s) PROVE Hosts'
    <2>1. /\ SlotStep(s) /\ UNCHANGED <<hostVars, gen>>
          /\ pc[s] = "made" /\ pc'[s] = "serve" /\ Machine(s) \notin conf
      BY <1>5 DEF SlotStep, Slot, Ready, Shape
    <2>2. Machine(s)' = Machine(s)
      BY <2>1 DEF Machine
    <2>3. MachineOf(s)'
      BY <2>1, <2>2 DEF Hosts, MachineOf, Hosting
    <2>4. conf' \subseteq present' /\ leaked' \subseteq present' /\ RunnersHosted'
      BY <2>1 DEF Hosts, RunnersHosted
    <2>5. \A x \in present' \ leaked' :
            \/ x \in present \ leaked /\ x # Machine(s)
            \/ pc'[s] \in Hosting /\ x = Machine(s)'
            \/ shutdown
      BY <2>1, <2>2 DEF Hosting
    <2> QED BY <2>1, <2>3, <2>4, <2>5, OwnMachine
  <1>6. ASSUME NEW m, NotifyGone(m), present' = present
        PROVE  /\ m \notin registered' \ missed'
               /\ \A x : x \in registered' \ missed' => x \in registered \ missed
               /\ RunnersHosted'
    <2>1. PICK lost \in BOOLEAN :
            /\ registered' = IF lost THEN registered ELSE registered \ {m}
            /\ missed' = IF lost THEN missed \cup ({m} \cap registered) ELSE missed \ {m}
      BY <1>6 DEF NotifyGone
    <2> QED BY <1>6, <2>1 DEF Hosts, RunnersHosted
  <1>7. ASSUME NEW s \in Slots, ProvisionFails(s) PROVE Hosts'
    <2>1. /\ SlotStep(s) /\ UNCHANGED <<present, conf, leaked>>
          /\ pc[s] \in {"boot", "made"} /\ pc'[s] = "failed"
          /\ pc[s] = "made" => gen'[s] = gen[s]
          /\ NotifyGone(<<s, gen'[s]>>)
      BY <1>7 DEF SlotStep, Slot, ProvisionFails, Shape
    <2>2. /\ Machine(s)' = <<s, gen'[s]>>
          /\ pc[s] = "made" => Machine(s)' = Machine(s)
      BY <2>1 DEF Machine
    <2>3. MachineOf(s)' /\ RunnersHosted'
          /\ \A x : x \in registered' \ missed' => x \in registered \ missed
      BY <1>6, <2>1, <2>2 DEF MachineOf, Hosting
    <2>4. engine = "serving"
      BY <2>1, SlotsServe
    <2>5. \A x \in present' \ leaked' :
            \/ x \in present \ leaked /\ x # Machine(s)
            \/ pc'[s] \in Hosting /\ x = Machine(s)'
            \/ shutdown
      <3>1. CASE pc[s] = "made"
        BY <2>1, <2>2, <3>1 DEF Hosting
      <3>2. CASE pc[s] = "boot"
        BY <2>1, <2>4, <3>2 DEF Hosts, Hosted, Hosting
      <3> QED BY <2>1, <3>1, <3>2
    <2> QED BY <2>1, <2>3, <2>5, OwnMachine DEF Hosts
  <1>8. ASSUME NEW s \in Slots, RunnerGone(s) PROVE Hosts'
    <2>1. /\ SlotStep(s) /\ UNCHANGED <<present, conf, leaked, gen>>
          /\ pc[s] = "teardown" /\ pc'[s] = "delete" /\ NotifyGone(Machine(s))
      BY <1>8 DEF SlotStep, Slot, RunnerGone, Shape
    <2>2. Machine(s)' = Machine(s)
      BY <2>1 DEF Machine
    <2>3. MachineOf(s)' /\ RunnersHosted'
          /\ \A x : x \in registered' \ missed' => x \in registered \ missed
      BY <1>6, <2>1, <2>2 DEF Hosts, MachineOf, Hosting
    <2>4. \A x \in present' \ leaked' :
            \/ x \in present \ leaked /\ x # Machine(s)
            \/ pc'[s] \in Hosting /\ x = Machine(s)'
            \/ shutdown
      BY <2>1, <2>2 DEF Hosting
    <2> QED BY <2>1, <2>3, <2>4, OwnMachine DEF Hosts
  <1>9. ASSUME NEW s \in Slots, NextRound(s) \/ End(s)
        PROVE  pc'[s] \in {"loop", "ended"}
    BY <1>9 DEF NextRound, End, Shape
  <1>10. ASSUME NEW s \in Slots, DeleteFailed(s) PROVE Hosts'
    <2>1. /\ SlotStep(s) /\ UNCHANGED <<gen, registered, missed>>
          /\ pc[s] = "failed" /\ pc'[s] \notin Hosting
      BY <1>9, <1>10 DEF SlotStep, Slot, DeleteFailed, Hosting
    <2>2. \/ /\ present' = present \ {Machine(s)}
             /\ conf' = conf \ {Machine(s)}
             /\ leaked' = leaked \ {Machine(s)}
          \/ /\ Machine(s) \in present
             /\ leaked' = leaked \cup {Machine(s)}
             /\ UNCHANGED <<present, conf>>
      BY <1>10 DEF DeleteFailed
    <2>3. MachineOf(s)'
      BY <2>1 DEF MachineOf, Hosting
    <2>4. conf' \subseteq present' /\ leaked' \subseteq present' /\ RunnersHosted'
      BY <2>1, <2>2 DEF Hosts, MachineOf, RunnersHosted
    <2>5. \A x \in present' \ leaked' : x \in present \ leaked /\ x # Machine(s)
      BY <2>2 DEF Hosts
    <2>6. \A r \in Slots \ {s} :
           /\ Machine(r) \in conf' => Machine(r) \in conf
           /\ Machine(r) \in leaked' => Machine(r) \in leaked
      BY <2>2
    <2> QED BY <2>1, <2>3, <2>4, <2>5, <2>6, OwnMachine
  <1>11. ASSUME NEW s \in Slots, DeleteMachine(s) PROVE Hosts'
    <2>1. /\ SlotStep(s) /\ UNCHANGED <<gen, conf, registered, leaked, missed>>
          /\ pc[s] = "delete" /\ pc'[s] = "gone"
          /\ present' = present \ {Machine(s)} \/ present' = present
      BY <1>11 DEF SlotStep, Slot, DeleteMachine, Shape
    <2>2. Machine(s)' = Machine(s)
      BY <2>1 DEF Machine
    <2>3. MachineOf(s)'
      BY <2>1, <2>2 DEF Hosts, MachineOf, Hosting
    <2>4. conf' \subseteq present' /\ leaked' \subseteq present' /\ RunnersHosted'
      BY <2>1 DEF Hosts, MachineOf, RunnersHosted, Hosting
    <2>5. \A x \in present' \ leaked' :
            \/ x \in present \ leaked /\ x # Machine(s)
            \/ pc'[s] \in Hosting /\ x = Machine(s)'
            \/ shutdown
      BY <2>1, <2>2 DEF Hosting
    <2> QED BY <2>1, <2>3, <2>4, <2>5, OwnMachine
  <1>12. ASSUME NEW s \in Slots, MachineIsGone(s) PROVE Hosts'
    <2>1. /\ SlotStep(s) /\ UNCHANGED <<gen, conf, registered, leaked, missed>>
          /\ pc[s] = "gone" /\ pc'[s] \notin Hosting
          /\ present' = present \ {Machine(s)}
      BY <1>9, <1>12 DEF SlotStep, Slot, MachineIsGone, Hosting
    <2>2. MachineOf(s)'
      BY <2>1 DEF MachineOf, Hosting
    <2>3. conf' \subseteq present' /\ leaked' \subseteq present' /\ RunnersHosted'
      BY <2>1 DEF Hosts, MachineOf, RunnersHosted, Hosting
    <2>4. \A x \in present' \ leaked' : x \in present \ leaked /\ x # Machine(s)
      BY <2>1
    <2> QED BY <2>1, <2>2, <2>3, <2>4, OwnMachine
  <1>13. ASSUME NEW s \in Slots, StopWaiting(s) \/ Abandon(s) PROVE Hosts'
    <2>1. SlotStep(s) /\ shutdown /\ UNCHANGED <<hostVars, gen>> /\ pc'[s] \notin Hosting
      BY <1>9, <1>13 DEF SlotStep, Slot, StopWaiting, Abandon, Hosting
    <2>2. MachineOf(s)'
      BY <2>1 DEF MachineOf, Hosting
    <2>3. conf' \subseteq present' /\ leaked' \subseteq present' /\ RunnersHosted'
      BY <2>1 DEF Hosts, RunnersHosted
    <2> QED BY <2>1, <2>2, <2>3, OwnMachine
  <1>14. ASSUME RemoveStale
         PROVE  conf' = {} /\ present' \subseteq present /\ RunnersHosted'
    BY <1>14 DEF RemoveStale, Hosts, RunnersHosted
  <1>15. ASSUME \A s \in Slots : pc'[s] = "new"
         PROVE  \A s \in Slots : MachineOf(s)'
    BY <1>15 DEF MachineOf, Hosting
  <1>16. CASE StaleSweep
    <2>1. \A s \in Slots : pc'[s] = "new"
      BY <1>16 DEF StaleSweep, Phases, Shape
    <2>2. leaked' = present' /\ engine' = "prepare" /\ RemoveStale
      BY <1>16 DEF StaleSweep
    <2> QED BY <1>14, <1>15, <2>1, <2>2 DEF Hosts, Hosted
  <1>17. CASE Teardown
    <2>1. /\ \A s \in Slots : pc'[s] = "new"
          /\ engine' = "off" /\ leaked' = {} /\ RemoveStale
      BY <1>17 DEF Teardown, ProcessGone
    <2> QED BY <1>14, <1>15, <2>1 DEF Hosts, Hosted
  <1>18. CASE Crash
    <2>1. /\ \A s \in Slots : pc'[s] = "new"
          /\ engine' = "off" /\ leaked' = {}
          /\ UNCHANGED <<present, conf, registered, missed>>
      BY <1>18 DEF Crash, ProcessGone
    <2> QED BY <1>15, <2>1 DEF Hosts, Hosted, RunnersHosted
  <1>19. ASSUME UNCHANGED <<hostVars, gen>>, \A s \in Slots : pc'[s] = pc[s],
                engine' # "prepare" \/ engine = "prepare",
                engine' = "serving" => engine = "serving", shutdown => shutdown'
         PROVE  Hosts'
    <2>1. \A s \in Slots : MachineOf(s)' /\ Machine(s)' = Machine(s)
      BY <1>19 DEF Hosts, MachineOf, Machine
    <2> QED BY <1>19, <2>1 DEF Hosts, Hosted, RunnersHosted
  <1>20. CASE Start \/ Shutdown \/ StripRecord(Main) \/ Build(Main)
    BY <1>19, <1>20 DEF Start, Shutdown, StripRecord, Build, Shape
  <1>21. CASE Adopt(Main) \/ GoldenReady(Main)
    <2>1. Serve /\ engine = "prepare" /\ UNCHANGED <<hostVars, gen>>
      BY <1>21 DEF Adopt, GoldenReady, GoldenInHand, Phases, Shape
    <2>2. \A s \in Slots : pc'[s] \in {"loop", "new"}
      BY <2>1 DEF Serve
    <2>3. \A s \in Slots : MachineOf(s)'
      BY <2>2 DEF MachineOf, Hosting
    <2> QED BY <2>1, <2>3 DEF Hosts, Hosted, RunnersHosted, Serve
  <1>22. ASSUME NEW m \in Machines, Configure(m) PROVE Hosts'
    <2>1. /\ m \in conf /\ conf' = conf \ {m} /\ registered' = registered \cup {m}
          /\ UNCHANGED <<pc, gen, engine, shutdown, present, leaked>>
          /\ missed' = IF pc[m[1]] = "failed" /\ gen[m[1]] = m[2]
                       THEN missed \cup {m} ELSE missed \ {m}
      BY <1>22 DEF Configure
    <2>2. \A s \in Slots : Machine(s)' = Machine(s)
      BY <2>1 DEF Machine
    <2>3. ASSUME NEW s \in Slots PROVE MachineOf(s)'
      <3>1. CASE Machine(s) # m
        BY <2>1, <2>2, <3>1 DEF Hosts, MachineOf
      <3>2. CASE Machine(s) = m
        <4>1. m[1] = s /\ m[2] = gen[s]
          BY <3>2 DEF Machine
        <4>2. pc[s] \notin {"delete", "gone"}
          BY <2>1, <3>2 DEF Hosts, MachineOf
        <4> QED BY <2>1, <2>2, <3>2, <4>1, <4>2 DEF Hosts, MachineOf
      <3> QED BY <3>1, <3>2
    <2>4. m \in present
      BY <2>1 DEF Hosts
    <2>5. RunnersHosted'
      BY <2>1, <2>4 DEF Hosts, RunnersHosted
    <2>6. Hosted'
      BY <2>1, <2>2 DEF Hosts, Hosted
    <2> QED BY <2>1, <2>3, <2>5, <2>6 DEF Hosts
  <1> QED BY <1>2, <1>3, <1>4, <1>5, <1>7, <1>8, <1>10, <1>11, <1>12, <1>13, <1>16, <1>17,
             <1>18, <1>20, <1>21, <1>22 DEF Next, Slot
-----------------------------------------------------------------------------

\* The inductive invariant of the pool.
PoolInv == Shape /\ Phases /\ Goldens /\ Clock /\ Permits /\ Budget /\ Hosts

\* A pool that is off, with an empty host, satisfies it.
LEMMA PoolStarts ==
  ASSUME Init
  PROVE  PoolInv
  <1> USE PoolAssumption, Constants
  <1>1. Shape
    <2>1. shutdown \in BOOLEAN /\ signal \in BOOLEAN
      BY Zenon DEF Init
    <2>2. record \in [Envs -> BOOLEAN] /\ holds \in [Slots -> BOOLEAN]
      BY DEF Init
    <2>3. /\ pc \in [Tasks -> Points] /\ env \in [Tasks -> Envs] /\ gen \in [Slots -> 0..MaxGen]
          /\ watch \in [Slots -> {"off", "on", "paused", "waiting"}]
          /\ base \in [Envs -> {"none", "partial", "whole"}]
      BY DEF Init, Points
    <2>4. \A s \in Slots : pc[s] = "new"
      BY DEF Init
    <2> QED BY <2>1, <2>2, <2>3, <2>4 DEF Init, Shape
  <1>2. /\ \A t \in Tasks : pc[t] = "new"
        /\ \A s \in Slots : watch[s] = "off"
    BY DEF Init
  <1>3. \A s \in Slots : ~holds[s]
    BY DEF Init
  <1>4. \A e \in Envs : ~record[e]
    BY DEF Init
  <1>5. Phases
    BY <1>2, <1>3 DEF Init, Phases
  <1>6. Goldens
    BY <1>2, <1>4 DEF Goldens, AdoptableIsWhole, Baking
  <1>7. Clock
    <2>1. Preparing = {}
      BY <1>2 DEF Preparing, Provisioning, Baking
    <2>2. Cardinality(Preparing) = 0
      BY <2>1, FS_EmptySet
    <2> QED BY <2>2 DEF Init, Clock, StarvationClock
  <1>8. Permits
    BY <1>2, <1>3 DEF Init, Permits, PermitOf, Provisioning, Baking
  <1>9. Budget
    BY DEF Init, Budget
  <1>10. Hosts
    BY <1>2 DEF Init, Hosts, MachineOf, Hosted, RunnersHosted, Hosting
  <1> QED BY <1>1, <1>5, <1>6, <1>7, <1>8, <1>9, <1>10 DEF PoolInv

\* A step that changes nothing changes none of its parts.
LEMMA PoolStutters ==
  ASSUME PoolInv, UNCHANGED vars
  PROVE  PoolInv'
  <1> USE DEF vars, poolVars, goldenVars, permitVars, clockVars, hostVars, PoolInv
  <1>1. Shape' /\ Phases'
    BY DEF Shape, Phases
  <1>2. Goldens' /\ Clock'
    BY DEF Goldens, AdoptableIsWhole, Clock, StarvationClock, Preparing
  <1>3. Permits'
    BY DEF Permits, PermitOf, Holders, Runners
  <1>4. Budget'
    BY DEF Budget, Bakers, Runners
  <1>5. Hosts'
    BY DEF Hosts, MachineOf, Hosted, RunnersHosted, Machine
  <1> QED BY <1>1, <1>2, <1>3, <1>4, <1>5

\* The invariant of the pool holds in every reachable state.
THEOREM PoolInvHolds == Spec => []PoolInv
  <1>1. Init => PoolInv
    BY PoolStarts
  <1>2. PoolInv /\ [Next]_vars => PoolInv'
    <2>1. CASE Next
      BY <2>1, ShapeStep, PhaseStep, GoldenStep, ClockStep, PermitStep, BudgetStep,
         HostStep DEF PoolInv
    <2>2. CASE UNCHANGED vars
      BY <2>2, PoolStutters
    <2> QED BY <2>1, <2>2
  <1> QED BY <1>1, <1>2, PTL DEF Spec

\* What the pool keeps has its type, and permits, golden slots and provisions in
\* flight stay within what the pool was given.
THEOREM PoolTypeCorrect == Spec => []TypeOK
  <1>1. PoolInv => TypeOK
    <2> SUFFICES ASSUME PoolInv PROVE TypeOK
      OBVIOUS
    <2> USE PoolAssumption, Constants DEF PoolInv
    <2>1. Runners \in Nat /\ Runners >= 1 /\ Runners <= Capacity /\ Room - 1 <= Capacity
      BY Sizes DEF Shape, Room
    <2>2. permits \in 0..Runners
      <3>1. Cardinality(Holders) \in Nat
        BY SlotCounts DEF Holders
      <3> QED BY <2>1, <3>1 DEF Permits, Phases, Shape
    <2>3. budget \in 0..Capacity
      <3>1. Cardinality(Bakers) \in Nat
        BY SlotCounts DEF Bakers
      <3>2. Cardinality(cache) \in Nat
        BY FS_Subset, FS_CardinalityType DEF Shape
      <3> QED BY <2>1, <3>1, <3>2 DEF Budget, Phases, Shape, Room
    <2>4. count \in 0..MaxSlots
      BY SlotCounts DEF Preparing, Clock
    <2> QED BY <2>2, <2>3, <2>4 DEF TypeOK, Shape, Hosts
  <1> QED BY <1>1, PoolInvHolds, PTL
\* No golden that was interrupted while it was baked is ever adopted.
THEOREM GoldensAreWhole == Spec => []AdoptableIsWhole
  <1>1. PoolInv => AdoptableIsWhole
    BY DEF PoolInv, Goldens
  <1> QED BY <1>1, PoolInvHolds, PTL

\* The control plane believes in no runner whose machine is gone, unless the
\* purge was lost or came too early.
THEOREM RunnersAreHosted == Spec => []RunnersHosted
  <1>1. PoolInv => RunnersHosted
    BY DEF PoolInv, Hosts
  <1> QED BY <1>1, PoolInvHolds, PTL

\* While the pool serves, the starvation clock is held exactly while a slot
\* prepares a runner.
THEOREM ClockIsHeld == Spec => []StarvationClock
  <1>1. PoolInv => StarvationClock
    BY DEF PoolInv, Clock
  <1> QED BY <1>1, PoolInvHolds, PTL

\* There are no more machines than slots that have one.
LEMMA MachinesOfSlots ==
  ASSUME NEW S \in SUBSET Slots, NEW P, P \subseteq {Machine(s) : s \in S}
  PROVE  IsFiniteSet(P) /\ Cardinality(P) \in Nat /\ Cardinality(P) <= Cardinality(S)
  <1> DEFINE T == {Machine(s) : s \in S}
             f == [s \in S |-> Machine(s)]
  <1>1. IsFiniteSet(S) /\ Cardinality(S) \in Nat
    BY SlotCounts
  <1>2. f \in Surjection(S, T)
    BY DEF Surjection
  <1>3. IsFiniteSet(T) /\ Cardinality(T) <= Cardinality(S)
    <2> HIDE DEF f, T
    <2> QED BY <1>1, <1>2, FS_Surjection
  <1>4. IsFiniteSet(P) /\ Cardinality(P) <= Cardinality(T)
    <2> HIDE DEF T
    <2>1. P \in SUBSET T
      BY DEF T
    <2> QED BY <1>3, <2>1, FS_Subset
  <1>5. Cardinality(P) \in Nat /\ Cardinality(T) \in Nat
    <2> HIDE DEF T
    <2> QED BY <1>3, <1>4, FS_CardinalityType
  <1> HIDE DEF T
  <1> QED BY <1>1, <1>3, <1>4, <1>5

\* The slots whose machine the pool pays for are no more than its runners: in
\* warm mode there are no others, on demand each of them holds a permit.
LEMMA PayingSlots ==
  ASSUME Shape, Permits, engine = "serving"
  PROVE  Cardinality({s \in Slots : pc[s] \in Hosting /\ ~Unpaid(s)}) <= Runners
  <1> DEFINE S == {s \in Slots : pc[s] \in Hosting /\ ~Unpaid(s)}
  <1> USE PoolAssumption, Constants
  <1>1. Runners \in Nat /\ Runners >= 1
    BY Sizes DEF Shape
  <1>2. CASE mode = "warm"
    <2>1. \A s \in S : s < Runners
      BY <1>2 DEF Permits, PermitOf, Hosting
    <2>2. S \subseteq 0..(Runners - 1)
      BY <1>1, <2>1 DEF Slots
    <2>3. IsFiniteSet(0..(Runners - 1)) /\ Cardinality(0..(Runners - 1)) = Runners
      BY <1>1, FS_Interval
    <2> HIDE DEF S
    <2>4. Cardinality(S) <= Cardinality(0..(Runners - 1))
      BY <2>2, <2>3, FS_Subset
    <2> QED BY <2>3, <2>4 DEF S
  <1>3. CASE mode = "demand"
    <2>1. S \subseteq Holders
      BY <1>3 DEF Permits, PermitOf, Hosting, Unpaid, Holders, Provisioning
    <2>2. Holders \in SUBSET Slots
      BY DEF Holders
    <2>3. IsFiniteSet(Holders) /\ Cardinality(Holders) \in Nat
      BY <2>2, SlotCounts
    <2>4. Cardinality(Holders) <= Runners
      BY <1>1, <1>3, <2>3 DEF Permits, Shape
    <2> HIDE DEF S
    <2>5. Cardinality(S) \in Nat /\ Cardinality(S) <= Cardinality(Holders)
      BY <2>1, <2>3, FS_Subset, FS_CardinalityType
    <2> QED BY <1>1, <2>3, <2>4, <2>5 DEF S
  <1> QED BY <1>2, <1>3 DEF Shape

\* The machines of the runners, the goldens kept and the goldens being baked fit
\* the host, whatever order slots finish, bake, fail and pause in; only a host
\* that holds one machine gets two.
THEOREM PoolFitsHost == Spec => []WithinCapacity
  <1>1. PoolInv => WithinCapacity
    <2> SUFFICES ASSUME PoolInv, engine = "serving", ~shutdown
                 PROVE  Cardinality(present \ (leaked \cup {Machine(s) : s \in {r \in Slots : Unpaid(r)}}))
                          + Cardinality(cache) + Cardinality(Bakers)
                        <= Room
      BY DEF WithinCapacity, Bakers
    <2> DEFINE S == {s \in Slots : pc[s] \in Hosting /\ ~Unpaid(s)}
               P == present \ (leaked \cup {Machine(s) : s \in {r \in Slots : Unpaid(r)}})
    <2>1. P \subseteq {Machine(s) : s \in S}
      BY DEF PoolInv, Hosts, Hosted
    <2>2. Cardinality(P) \in Nat /\ Cardinality(P) <= Cardinality(S)
      <3>1. S \in SUBSET Slots
        OBVIOUS
      <3> HIDE DEF S, P
      <3> QED BY <2>1, <3>1, MachinesOfSlots
    <2>3. Cardinality(S) \in Nat /\ Cardinality(S) <= Runners
      BY PayingSlots, SlotCounts DEF PoolInv
    <2>4. Cardinality(Bakers) \in Nat
      BY SlotCounts DEF Bakers
    <2>5. Cardinality(cache) \in Nat
      BY Constants, FS_Subset, FS_CardinalityType DEF PoolInv, Shape
    <2>6. Runners \in Nat /\ Room \in Nat /\ budget \in Nat
      BY Sizes, PoolAssumption DEF PoolInv, Shape, Room
    <2>7. Runners + budget + Cardinality(cache) + Cardinality(Bakers) <= Room
      BY DEF PoolInv, Budget
    <2> HIDE DEF S, P
    <2>8. Cardinality(P) + Cardinality(cache) + Cardinality(Bakers) <= Room
      BY <2>2, <2>3, <2>4, <2>5, <2>6, <2>7
    <2> QED BY <2>8 DEF P
  <1> QED BY <1>1, PoolInvHolds, PTL
=============================================================================
