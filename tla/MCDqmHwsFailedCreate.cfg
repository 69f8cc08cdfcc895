\* A create whose run-list submission fails.
CONSTANTS
  Procs = {p1, p2}
  Queues = {q1}
  KQueues = {k1}
  NoProc = NoProc
  MaxQueues = 2
  RingSize = 3
  FenceMayTimeOut = TRUE
  IbMayFail = TRUE
  SuspendExclusive = TRUE
  UserQueueTypes = {"COMPUTE"}
SPECIFICATION Spec
SYMMETRY Symmetry
INVARIANT FailedCreateNotListed
