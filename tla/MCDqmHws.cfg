\* Healthy firmware, compute queues only, suspend and resume between calls:
\* counters and run-list agree, stop leaves nothing mapped.
CONSTANTS
  Procs = {p1, p2}
  Queues = {q1, q2, q3}
  KQueues = {k1}
  NoProc = NoProc
  MaxQueues = 3
  RingSize = 5
  FenceMayTimeOut = FALSE
  IbMayFail = FALSE
  SuspendExclusive = TRUE
  UserQueueTypes = {"COMPUTE"}
SPECIFICATION Spec
SYMMETRY Symmetry
INVARIANTS TypeOK QueueCounters RunlistInSync NoFreedMqdMapped FenceAnswersOwnQuery StoppedNothingMapped
