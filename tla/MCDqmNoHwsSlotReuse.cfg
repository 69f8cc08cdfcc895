CONSTANTS
  Procs = {p1, p2}
  Queues = {q1, q2, q3}
  NoProc = NoProc
  NoQueue = NoQueue
  NumPipes = 3
  QueuesPerPipe = 2
  QueueBitmap <- MCQueueBitmap
  VmidNum = 1
  VmidStart = 8
  SdmaQueues = 4
  SdmaQueuesPerEngine = 2
  SdmaEngineNum = 2
  MaxQueues = 3
  MaxDestroyMqdFailures = 1
SPECIFICATION Spec
SYMMETRY Symmetry
INVARIANT
  ListedQueuesLoaded
