SPECIFICATION FairSpec
CONSTANTS
  Threads = {"main", "worker"}
  Nobody = Nobody
  Ticks = 20
  Transfer = Transfer
  Response = Response
INVARIANTS
  TypeOK
  RaceFree
  WorkerOutlived
  CallbackLostOnlyLate
PROPERTY
  MainEnds
