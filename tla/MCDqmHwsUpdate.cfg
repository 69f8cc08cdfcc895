\* Healthy firmware: does update_queue rewrite a mapped MQD?
CONSTANTS
  Procs = {p1, p2}
  Queues = {q1, q2}
  KQueues = {k1}
  NoProc = NoProc
  MaxQueues = 2
  RingSize = 5
  FenceMayTimeOut = FALSE
  IbMayFail = FALSE
  SuspendExclusive = TRUE
  UserQueueTypes = {"COMPUTE"}
SPECIFICATION Spec
SYMMETRY Symmetry
PROPERTY NoUpdateOfMappedMqd
