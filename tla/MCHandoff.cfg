SPECIFICATION FairSpec
CONSTANTS
  h1 = h1  h2 = h2
  s1 = s1  s2 = s2  s3 = s3
  ipA = ipA  ipB = ipB
  Hilos <- MCHilos
  Sockets <- MCSockets
  IPs <- MCIPs
  Main = Main
  Nadie = Nadie
  Destruido = Destruido
  Mezcla = Mezcla
CHECK_DEADLOCK FALSE
INVARIANTS
  TypeOK
  DescriptorServedOnce
  NoLostWakeup
  HandoffInv
PROPERTIES
  ArgsStableUntilCopied
  HandoffEnds
  ThreadFinishes
