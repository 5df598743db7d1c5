SPECIFICATION Spec
CONSTANTS
  Threads = {"main", "worker"}
  Nobody = Nobody
  Ticks = 20
  Transfer = Transfer
  Response = Response
INVARIANT
  ThreadSafeReads
