CONSTANTS
  i1 = i1
  d1 = d1
  Installs <- TheInstalls
  Devs <- TheDevs
  MaxPid = 3
  MaxLaunches = 3
  MaxEdits = 1
  MaxFaults = 1
SPECIFICATION FairSpec
INVARIANTS
  TypeOK
  DevGetsCurrentServer
  OneServer
PROPERTY
  EveryLaunchEnds
CHECK_DEADLOCK FALSE
