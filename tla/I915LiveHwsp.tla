---------------------------- MODULE I915LiveHwsp ----------------------------
(***************************************************************************)
(* The live selftests of selftests/i915_timeline.c: live_hwsp_recycle,    *)
(* live_hwsp_engine and live_hwsp_alternate, run in that order by          *)
(* i915_timeline_live_selftests, which stops at the first that fails.     *)
(* Each creates timelines, has an engine store a value into the timeline's *)
(* breadcrumb slot (HWSP) with a GPU request, and checks the slot.        *)
(*                                                                         *)
(* Two actors: the test thread, and the GPU, which executes the            *)
(* MI_STORE_DWORD of each request later, in order per engine (the requests *)
(* are on the kernel context's timeline of that engine). The timeline code *)
(* (i915_timeline.c of the driver) is not in this repository; it is        *)
(* modelled by its contract: i915_timeline_create takes a slot no live     *)
(* timeline holds and clears it to tl->seqno = 0, and i915_timeline_put    *)
(* gives the slot back at once, pending writes or not.                     *)
(***************************************************************************)
EXTENDS Integers, Sequences, FiniteSetsExt, Functions

CONSTANTS
  NumEngines,     \* engines of the device (I915_NUM_ENGINES)
  CanStore,       \* engines with intel_engine_can_store_dword
  NumTimelines,   \* NUM_TIMELINES (4096)
  Slots,          \* HWSP cachelines the allocator can hand out
  MaxRecycle,     \* most iterations of live_hwsp_recycle's do/while per engine
  AllocMayFail,   \* kvmalloc, timeline creation, pin, request or ring space fail
  WaitMayTimeOut, \* i915_request_wait gives up after HZ/5
  FlushMayFail,   \* igt_flush_test finds the GPU wedged or busy
  ResetMaySkip    \* an engine reset skips a hung request: it completes unwritten

Engines == 1 .. NumEngines

ASSUME CanStore \subseteq Engines /\ NumTimelines >= 1 /\ MaxRecycle >= 1
ASSUME Cardinality(Slots) > NumTimelines * Cardinality(CanStore)

ENOMEM == 12
ENODEV == 19
EINVAL == 22
EIO    == 5

\* i915_timeline_live_selftests: tests[]
Tests == <<"recycle", "engine", "alternate">>

VARIABLES
  test,   \* the subtest running; "out": i915_subtests has returned
  pc,     \* where the subtest is: "begin", "create", "write", "wait",
          \* "flush" (label out:), "check" (after igt_flush_test)
  eng,    \* the engine of for_each_engine; 0 once the loop is over
  n,      \* n of the loops; live_hwsp_recycle: iterations on this engine
  count,  \* count: timelines written so far, the value the next one stores
  err,    \* err of the subtest
  cur,    \* the slot of tl, the timeline being created and written
  tls,    \* timelines[0 .. count-1], by their slots
  free,   \* slots the timeline allocator may hand out
  hwsp,   \* the breadcrumb slots: slot -> the last value stored
  gpu,    \* per engine, the stores its requests have still to execute
  ret,    \* the result of the last subtest that returned
  skipped \* a reset has skipped a store (auxiliary)

vars == <<test, pc, eng, n, count, err, cur, tls, free, hwsp, gpu, ret, skipped>>

\* for_each_engine, skipping engines that cannot store a dword: the next
\* engine after e, or 0 when there is none.
NextStore(e) ==
  LET later == {x \in CanStore : x > e} IN IF later = {} THEN 0 ELSE Min(later)

FirstStore == NextStore(0)

\* Continue the loops at engine e and n = i, or go to out: when e = 0.
Goto(e, i) == /\ eng' = e /\ n' = i
              /\ pc' = IF e = 0 THEN "flush" ELSE "create"

\* i915_timeline_put(tl): its slot goes back to the allocator.
Put(s) == free' = free \cup {s}

\* goto out with error e.
GotoOut(e) == err' = e /\ pc' = "flush"

\* return err; i915_subtests stops at the first error.
Return(e) ==
  LET i == CHOOSE j \in 1 .. 3 : Tests[j] = test IN
  /\ ret' = e
  /\ IF e # 0 \/ i = 3 THEN test' = "out" /\ UNCHANGED pc
                        ELSE test' = Tests[i + 1] /\ pc' = "begin"

\* The start of a subtest: kvmalloc_array of timelines[] (live_hwsp_engine
\* and live_hwsp_alternate only), then count = 0 and the first engine.
live_begin ==
  /\ test # "out" /\ pc = "begin"
  /\ \/ /\ test # "recycle" /\ AllocMayFail
        /\ Return(-ENOMEM)
        /\ UNCHANGED <<eng, n, count, err, tls>>
     \/ /\ count' = 0 /\ err' = 0 /\ tls' = << >>
        /\ Goto(FirstStore, 0)
        /\ UNCHANGED <<test, ret>>
  /\ UNCHANGED <<cur, free, hwsp, gpu, skipped>>

\* i915_timeline_create in checked_i915_timeline_create: fails, or takes a
\* free slot and clears it to tl->seqno.
timeline_create ==
  /\ test # "out" /\ pc = "create"
  /\ \/ /\ AllocMayFail
        /\ GotoOut(-ENOMEM)
        /\ UNCHANGED <<cur, free, hwsp>>
     \/ \E s \in free :
        /\ cur' = s /\ free' = free \ {s} /\ hwsp' = [hwsp EXCEPT ![s] = 0]
        /\ pc' = "write"
        /\ UNCHANGED err
  /\ UNCHANGED <<test, eng, n, count, tls, gpu, ret, skipped>>

\* The loops after timelines[count++] = tl.
NextInLoop ==
  IF test = "engine"
  THEN IF n + 1 < NumTimelines THEN Goto(eng, n + 1) ELSE Goto(NextStore(eng), 0)
  ELSE IF NextStore(eng) # 0 THEN Goto(NextStore(eng), n)
  ELSE IF n + 1 < NumTimelines THEN Goto(FirstStore, n + 1) ELSE Goto(0, 0)

\* checked_i915_timeline_create: *tl->hwsp_seqno == tl->seqno, which is 0
\* for a new timeline.
BreadcrumbCleared == hwsp[cur] = 0

\* The rest of checked_i915_timeline_create (*tl->hwsp_seqno != tl->seqno),
\* then tl_write(tl, engine, count): a request on engine that stores count
\* into the slot. live_hwsp_recycle then waits for it; the other two keep
\* the timeline in timelines[] and go on.
tl_write ==
  /\ test # "out" /\ pc = "write"
  /\ IF ~BreadcrumbCleared
     THEN Put(cur) /\ GotoOut(-EINVAL) /\ UNCHANGED <<eng, n, count, tls, gpu>>
     ELSE \/ /\ AllocMayFail
             /\ Put(cur) /\ GotoOut(-ENOMEM)
             /\ UNCHANGED <<eng, n, count, tls, gpu>>
          \/ /\ gpu' = [gpu EXCEPT ![eng] = Append(@, [slot |-> cur, value |-> count])]
             /\ IF test = "recycle"
                THEN pc' = "wait" /\ UNCHANGED <<eng, n, count, tls>>
                ELSE tls' = Append(tls, cur) /\ count' = count + 1 /\ NextInLoop
             /\ UNCHANGED <<err, free>>
  /\ UNCHANGED <<test, cur, hwsp, ret, skipped>>

\* The do/while of live_hwsp_recycle goes on until its timeout.
RecycleNext ==
  \/ n + 1 < MaxRecycle /\ Goto(eng, n + 1)
  \/ Goto(NextStore(eng), 0)

\* A wait that reads the slot without waiting for the request.
request_wait_nowait ==
  /\ test # "out" /\ pc = "wait"
  /\ Put(cur) /\ count' = count + 1
  /\ IF hwsp[cur] # count THEN GotoOut(-EINVAL) /\ UNCHANGED <<eng, n>> ELSE RecycleNext /\ UNCHANGED err
  /\ UNCHANGED <<test, cur, tls, hwsp, gpu, ret, skipped>>

\* live_hwsp_recycle: i915_request_wait(rq, ..., HZ/5), then the check of
\* the slot, i915_timeline_put, count++ and i915_timelines_park. rq has
\* completed once its engine has nothing left to execute.
request_wait ==
  /\ test # "out" /\ pc = "wait"
  /\ \/ /\ gpu[eng] = << >>
        /\ Put(cur) /\ count' = count + 1
        /\ IF hwsp[cur] # count THEN GotoOut(-EINVAL) /\ UNCHANGED <<eng, n>>
                               ELSE RecycleNext /\ UNCHANGED err
     \/ /\ gpu[eng] # << >> /\ WaitMayTimeOut
        /\ Put(cur) /\ GotoOut(-EIO)
        /\ UNCHANGED <<eng, n, count>>
  /\ UNCHANGED <<test, cur, tls, hwsp, gpu, ret, skipped>>

\* The GPU executes the oldest store of an engine.
gpu_store ==
  /\ \E e \in Engines :
       /\ gpu[e] # << >>
       /\ hwsp' = [hwsp EXCEPT ![Head(gpu[e]).slot] = Head(gpu[e]).value]
       /\ gpu' = [gpu EXCEPT ![e] = Tail(@)]
  /\ UNCHANGED <<test, pc, eng, n, count, err, cur, tls, free, ret, skipped>>

\* An engine reset cancels the oldest request of an engine: its fence is
\* signalled with an error and its store is never executed.
gpu_reset_skip ==
  /\ ResetMaySkip
  /\ \E e \in Engines : gpu[e] # << >> /\ gpu' = [gpu EXCEPT ![e] = Tail(@)]
  /\ skipped' = TRUE
  /\ UNCHANGED <<test, pc, eng, n, count, err, cur, tls, free, hwsp, ret>>

\* A flush that returns before the GPU has idled.
igt_flush_test_nowait ==
  /\ test # "out" /\ pc = "flush"
  /\ \/ UNCHANGED err
     \/ FlushMayFail /\ err' = -EIO
  /\ pc' = "check"
  /\ UNCHANGED <<test, eng, n, count, cur, tls, free, hwsp, gpu, ret, skipped>>

\* out: igt_flush_test waits for the GPU to idle, or fails with -EIO.
igt_flush_test ==
  /\ test # "out" /\ pc = "flush"
  /\ \/ /\ \A e \in Engines : gpu[e] = << >>
        /\ UNCHANGED err
     \/ FlushMayFail /\ err' = -EIO
  /\ pc' = "check"
  /\ UNCHANGED <<test, eng, n, count, cur, tls, free, hwsp, gpu, ret, skipped>>

\* After the flush: unless err, every timelines[n] must hold n; every
\* timeline is put, and the subtest returns err.
check_and_put ==
  LET wrong == \E i \in DOMAIN tls : hwsp[tls[i]] # i - 1
      e     == IF err = 0 /\ wrong THEN -EINVAL ELSE err
  IN
  /\ test # "out" /\ pc = "check"
  /\ err' = e
  /\ free' = free \cup Range(tls)
  /\ Return(e)
  /\ UNCHANGED <<eng, n, count, cur, tls, hwsp, gpu, skipped>>

\* i915_subtests has returned; its result stays.
Returned == test = "out" /\ UNCHANGED vars

Init ==
  /\ test = Tests[1] /\ pc = "begin"
  /\ eng = 0 /\ n = 0 /\ count = 0 /\ err = 0
  /\ cur \in Slots /\ tls = << >>
  /\ free = Slots
  /\ hwsp \in [Slots -> {0}]
  /\ gpu = [e \in Engines |-> << >>]
  /\ ret = -ENODEV
  /\ skipped = FALSE

Next ==
  \/ live_begin \/ timeline_create \/ tl_write \/ request_wait
  \/ gpu_store \/ gpu_reset_skip \/ igt_flush_test \/ check_and_put
  \/ Returned

Spec == Init /\ [][Next]_vars

-----------------------------------------------------------------------------
(* Properties                                                              *)

\* A check of the live selftests fails only after an engine reset skipped a
\* store: otherwise checked_i915_timeline_create finds its slot cleared,
\* live_hwsp_recycle finds count after its wait, and after igt_flush_test
\* every timelines[n] holds n, over every order of the engines' stores. A store of an earlier
\* timeline that lands on a recycled slot, or a check that reads the slot
\* before the GPU wrote it, would show as -EINVAL.
NoFalseAlarm == (err = -EINVAL \/ ret = -EINVAL) => skipped

\* A slot is back with the allocator while the GPU has a store into it
\* still to execute only when the subtest has already failed with -EIO (a
\* wait or a flush gave up on the GPU): the tests put a timeline only after
\* its request has completed.
NoPendingStoreToFreeSlot ==
  \A e \in Engines : \A i \in DOMAIN gpu[e] :
    gpu[e][i].slot \in free => err = -EIO

=============================================================================
