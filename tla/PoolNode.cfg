\* Two warm slots with two boots between them, or one on-demand permit and two
\* queued jobs; a custom image and the official one, room for three machines.
CONSTANTS
  MaxSlots = 2
  MaxGen = 2
  MaxBoots = 2
  ubuntu = ubuntu
  custom = custom
  Envs <- MCEnvs
  Default = custom
  Capacity = 3
  Size = 2
  ByCpu = 1
  MaxLost = 1
SPECIFICATION FairSpec
INVARIANTS
  TypeOK
  WithinCapacity
  RunnersHosted
  StarvationClock
  AdoptableIsWhole
PROPERTIES
  StopsOnShutdown
  PoolAdvances
