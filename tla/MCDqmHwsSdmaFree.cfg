\* Healthy firmware with SDMA queues: is a freed MQD ever left mapped?
CONSTANTS
  Procs = {p1, p2}
  Queues = {q1, q2}
  KQueues = {k1}
  NoProc = NoProc
  MaxQueues = 2
  RingSize = 5
  FenceMayTimeOut = FALSE
  IbMayFail = FALSE
  SuspendExclusive = TRUE
  UserQueueTypes = {"COMPUTE", "SDMA"}
SPECIFICATION Spec
SYMMETRY Symmetry
INVARIANT NoFreedMqdMapped
