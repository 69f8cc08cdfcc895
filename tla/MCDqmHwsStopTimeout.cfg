\* Firmware that may miss the fence deadline during suspend: the timeout
\* path looks up the calling process.
CONSTANTS
  Procs = {p1, p2}
  Queues = {q1}
  KQueues = {k1}
  NoProc = NoProc
  MaxQueues = 2
  RingSize = 5
  FenceMayTimeOut = TRUE
  IbMayFail = FALSE
  SuspendExclusive = TRUE
  UserQueueTypes = {"COMPUTE"}
SPECIFICATION Spec
SYMMETRY Symmetry
PROPERTY TimeoutHasCaller
