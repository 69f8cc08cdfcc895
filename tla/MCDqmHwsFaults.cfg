\* Firmware that may miss the fence deadline, a small HIQ ring, run-list IB
\* failures and SDMA queues: the counters match the lists, and every call
\* and every suspend/resume still returns. No symmetry: liveness is checked.
CONSTANTS
  Procs = {p1}
  Queues = {q1}
  KQueues = {k1}
  NoProc = NoProc
  MaxQueues = 2
  RingSize = 2
  FenceMayTimeOut = TRUE
  IbMayFail = TRUE
  SuspendExclusive = TRUE
  UserQueueTypes = {"COMPUTE", "SDMA"}
SPECIFICATION FairSpec
INVARIANT QueueCounters
PROPERTY OperationsReturn
