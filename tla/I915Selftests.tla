---------------------------- MODULE I915Selftests ----------------------------
(***************************************************************************)
(* The two suites of selftests/i915_timeline.c in the order the selftest   *)
(* harness runs them when both are asked for: the mock suite              *)
(* (i915_timeline_mock_selftests) when the module loads, and the live      *)
(* suite (i915_timeline_live_selftests) on a real device afterwards, only  *)
(* if the mock suite returned 0. The suites share no state; the live one   *)
(* starts from its initial state once the mock one has returned.           *)
(***************************************************************************)
EXTENDS Integers

CONSTANTS SeqnoBits, CtxBits, SetMayFail, MaxBench,
          NumEngines, CanStore, NumTimelines, Slots, MaxRecycle,
          AllocMayFail, WaitMayTimeOut, FlushMayFail, ResetMaySkip

VARIABLES tl, loop, row, at, mret, ids, mcount, lost,
          test, pc, eng, n, count, err, cur, tls, free, hwsp, gpu, ret, skipped,
          stage   \* "mock" or "live"

Mock == INSTANCE I915SyncTest WITH ret <- mret, count <- mcount
Live == INSTANCE I915LiveHwsp

mockVars == <<tl, loop, row, at, mret, ids, mcount, lost>>
liveVars == <<test, pc, eng, n, count, err, cur, tls, free, hwsp, gpu, ret, skipped>>
vars == <<mockVars, liveVars, stage>>

\* The live suite runs once the mock suite has returned 0.
StartLive ==
  /\ stage = "mock" /\ loop = "out" /\ mret = 0
  /\ stage' = "live"
  /\ UNCHANGED <<mockVars, liveVars>>

Init == Mock!Init /\ Live!Init /\ stage = "mock"

Next ==
  \/ stage = "mock" /\ Mock!Next /\ UNCHANGED <<liveVars, stage>>
  \/ StartLive
  \/ stage = "live" /\ Live!Next /\ UNCHANGED <<mockVars, stage>>

Spec == Init /\ [][Next]_vars

\* Once the mock suite has returned, only its result and lost matter to
\* the properties and its variables no longer change.
View == IF stage = "mock" THEN <<mockVars, stage>>
                          ELSE <<mret, lost, liveVars>>

-----------------------------------------------------------------------------
(* Properties                                                              *)

\* igt_sync and bench_sync report a wrong answer of the sync map only after
\* bench_sync dropped a failed __i915_timeline_sync_set (I915SyncTest).
SyncNoFalseAlarm == Mock!NoFalseAlarm

\* A check of live_hwsp_recycle, live_hwsp_engine or live_hwsp_alternate
\* fails only after an engine reset skipped a store (I915LiveHwsp).
HwspNoFalseAlarm == Live!NoFalseAlarm

\* No timeline's slot is given back while a store into it is still queued
\* on an engine, unless the subtest already failed with -EIO (I915LiveHwsp).
HwspNoPendingStoreToFreeSlot == Live!NoPendingStoreToFreeSlot

==============================================================================
