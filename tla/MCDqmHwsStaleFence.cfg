\* A fence wait that times out leaves its query in the HIQ; the next wait
\* takes its answer for its own.
CONSTANTS
  Procs = {p1, p2}
  Queues = {q1}
  KQueues = {k1}
  NoProc = NoProc
  MaxQueues = 2
  RingSize = 2
  FenceMayTimeOut = TRUE
  IbMayFail = FALSE
  SuspendExclusive = TRUE
  UserQueueTypes = {"COMPUTE"}
SPECIFICATION Spec
SYMMETRY Symmetry
INVARIANT FenceAnswersOwnQuery
