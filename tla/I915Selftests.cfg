\* Mock suite: seqnos of 8 bits (INT_MAX 127, UINT_MAX 255), context ids of
\* 4 bits (orders 1..3: 8 contexts in igt_sync, 16 random ids in
\* bench_sync), bench loops of up to 3 iterations, sync_set may fail.
\* Live suite: 3 engines of which 1 and 3 can store a dword (so the loops
\* skip one), 2 timelines per engine, 5 slots (one more than the 4 the
\* engine test keeps live, so recycling has a choice), 2 recycle iterations
\* per engine, and every fault: allocation, wait timeout, flush, reset.
CONSTANTS
  SeqnoBits = 8
  CtxBits = 4
  SetMayFail = TRUE
  MaxBench = 3
  NumEngines = 3
  CanStore = {1, 3}
  NumTimelines = 2
  Slots = {s1, s2, s3, s4, s5}
  MaxRecycle = 2
  AllocMayFail = TRUE
  WaitMayTimeOut = TRUE
  FlushMayFail = TRUE
  ResetMaySkip = TRUE
SPECIFICATION Spec
VIEW View
INVARIANT SyncNoFalseAlarm HwspNoFalseAlarm HwspNoPendingStoreToFreeSlot
