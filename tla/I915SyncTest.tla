---------------------------- MODULE I915SyncTest ----------------------------
(***************************************************************************)
(* igt_sync of selftests/i915_timeline.c: the mock selftest of a          *)
(* timeline's sync map, which records per fence context the last seqno    *)
(* the timeline has waited for. The test walks a table of (seqno,          *)
(* expected, set) rows over a family of context ids twice: table-major     *)
(* on one timeline, then context-major on a fresh one. For each row and    *)
(* context it asks __i915_timeline_sync_is_later, fails with -EINVAL when  *)
(* the answer is not the expected one, and then calls                      *)
(* __i915_timeline_sync_set when the row says so. i915_subtests then runs  *)
(* bench_sync, which times the map and checks that ids it has set are     *)
(* found again: random ids replayed from the same seed, then 0..count-1   *)
(* looked up from the top. Its later loops check nothing.                  *)
(*                                                                         *)
(* The sync map itself (i915_syncmap.c) is not in this repository: it is   *)
(* modelled by its contract, a partial function from context to the last  *)
(* seqno set, compared with the wrap-around order of i915_seqno_passed.    *)
(* Seqnos are u32 scaled to SeqnoBits bits; context ids are u64 scaled to  *)
(* CtxBits bits, so the loop over order runs 1 .. CtxBits - 1.             *)
(***************************************************************************)
EXTENDS Integers, Sequences

CONSTANTS
  SeqnoBits,   \* bits of a u32 seqno (32)
  CtxBits,     \* bits of a u64 fence context id (64)
  SetMayFail,  \* __i915_timeline_sync_set may fail to allocate
  MaxBench     \* most iterations of a bench_sync loop within its HZ/10

ASSUME SeqnoBits >= 3 /\ CtxBits >= 3 /\ SetMayFail \in BOOLEAN
ASSUME MaxBench \in 1 .. 2^CtxBits

INT_MAX == 2^(SeqnoBits - 1) - 1
UINT_MAX == 2^SeqnoBits - 1

NoSeqno == -1                 \* a context the map has no entry for

ENOMEM == 12
ENODEV == 19
EINVAL == 22

\* (s32)x of a u32 x.
S32(x) == IF x > INT_MAX THEN x - 2^SeqnoBits ELSE x

\* i915_seqno_passed(seq1, seq2): (s32)(seq1 - seq2) >= 0.
SeqnoPassed(seq1, seq2) == S32((seq1 - seq2) % 2^SeqnoBits) >= 0

\* __i915_timeline_sync_is_later(tl, ctx, seqno)
SyncIsLater(map, ctx, seqno) == map[ctx] # NoSeqno /\ SeqnoPassed(map[ctx], seqno)

\* The rows of pass[]: "unset", "new", "0a", "1a", "1b", "0b", "2a", "4",
\* "INT_MAX", "INT_MAX-1", "INT_MAX+1", "INT_MAX", "UINT_MAX", "wrap",
\* "unwrap".
Row(seqno, expected, set) == [seqno |-> seqno, expected |-> expected, set |-> set]
Pass ==
  << Row(0, FALSE, FALSE), Row(0, FALSE, TRUE), Row(0, TRUE, TRUE),
     Row(1, FALSE, TRUE), Row(1, TRUE, TRUE), Row(0, TRUE, FALSE),
     Row(2, FALSE, TRUE), Row(4, FALSE, TRUE),
     Row(INT_MAX, FALSE, TRUE), Row(INT_MAX - 1, TRUE, FALSE),
     Row(INT_MAX + 1, FALSE, TRUE), Row(INT_MAX, TRUE, FALSE),
     Row(UINT_MAX, FALSE, TRUE), Row(0, FALSE, TRUE), Row(UINT_MAX, TRUE, FALSE) >>

\* u64 ctx = BIT_ULL(order) + offset
Ctx(order, offset) == (2^order + offset) % 2^CtxBits
Ctxs == 0 .. 2^CtxBits - 1

\* A context loop that wrongly runs offset up to +1 for order 1 too.
LastOffsetAlways(order) == 1

\* offset runs from -1 to (order > 1): BIT(1) + 1 would be BIT(2) - 1.
LastOffset(order) == IF order > 1 THEN 1 ELSE 0

\* The next (order, offset) of the two inner loops; order = CtxBits ends them.
NextCtx(order, offset) ==
  IF offset < LastOffset(order) THEN [order |-> order, offset |-> offset + 1]
                                ELSE [order |-> order + 1, offset |-> -1]

FirstCtx == [order |-> 1, offset |-> -1]

VARIABLES
  tl,      \* the sync map of the mock timeline: context -> seqno or NoSeqno
  loop,    \* igt_sync: "rows" table-major, "ctxs" context-major; bench_sync:
           \* "rand_set", "rand_get", "seq_set", "seq_get", "untimed";
           \* "out": i915_subtests has returned
  row,     \* index of p in pass[]
  at,      \* [order, offset] of the context loops
  ret,     \* the result of the subtest that ran last
  ids,     \* bench_sync: the ids set so far (the prng sequence), in order
  count,   \* bench_sync: count
  lost     \* a sync_set whose failure bench_sync ignored (auxiliary)

vars == <<tl, loop, row, at, ret, ids, count, lost>>
bench == <<ids, count, lost>>

\* mock_timeline_init(&tl, 0): an empty sync map.
EmptyMap == [c \in Ctxs |-> NoSeqno]

\* The loop variables after a __igt_sync that returned 0, and the map
\* mock_timeline_fini/mock_timeline_init leave between the two loops.
Advance(map) ==
  LET c == NextCtx(at.order, at.offset) IN
  IF loop = "rows"
  THEN IF c.order < CtxBits
         THEN /\ at' = c /\ tl' = map /\ UNCHANGED <<row, loop, ret, bench>>
       ELSE IF row < Len(Pass)
         THEN /\ row' = row + 1 /\ at' = FirstCtx /\ tl' = map
              /\ UNCHANGED <<loop, ret, bench>>
       ELSE /\ loop' = "ctxs" /\ row' = 1 /\ at' = FirstCtx /\ tl' = EmptyMap
            /\ UNCHANGED <<ret, bench>>
  ELSE IF row < Len(Pass)
         THEN /\ row' = row + 1 /\ tl' = map /\ UNCHANGED <<at, loop, ret, bench>>
       ELSE IF c.order < CtxBits
         THEN /\ row' = 1 /\ at' = c /\ tl' = map /\ UNCHANGED <<loop, ret, bench>>
       ELSE \* igt_sync returns 0; bench_sync starts on an empty timeline
            /\ loop' = "rand_set" /\ ret' = 0 /\ tl' = EmptyMap
            /\ UNCHANGED <<row, at, bench>>

\* goto out with the error of the failed call.
Fail(err) == /\ loop' = "out" /\ ret' = err /\ UNCHANGED <<tl, row, at, bench>>

\* One call of __igt_sync(&tl, ctx, p, name) and the loop step after it.
igt_sync_step ==
  LET p   == Pass[row]
      ctx == Ctx(at.order, at.offset)
  IN
  /\ loop \in {"rows", "ctxs"}
  /\ \/ /\ SyncIsLater(tl, ctx, p.seqno) # p.expected
        /\ Fail(-EINVAL)
     \/ /\ SyncIsLater(tl, ctx, p.seqno) = p.expected
        /\ ~p.set
        /\ Advance(tl)
     \/ /\ SyncIsLater(tl, ctx, p.seqno) = p.expected
        /\ p.set
        /\ Advance([tl EXCEPT ![ctx] = p.seqno])     \* __i915_timeline_sync_set
     \/ /\ SyncIsLater(tl, ctx, p.seqno) = p.expected
        /\ p.set /\ SetMayFail
        /\ Fail(-ENOMEM)

-----------------------------------------------------------------------------
(* bench_sync. Each do/while runs until the HZ/10 deadline: at least once  *)
(* and at most MaxBench times. The result of __i915_timeline_sync_set is   *)
(* not checked.                                                            *)

\* __i915_timeline_sync_set(&tl, id, 0), whose -ENOMEM bench_sync drops.
BenchSet(id) ==
  \/ /\ tl' = [tl EXCEPT ![id] = 0] /\ UNCHANGED lost
  \/ /\ SetMayFail /\ lost' = TRUE /\ UNCHANGED tl

\* Setting random context ids: one iteration of the do/while, or its end.
bench_rand_set ==
  /\ loop = "rand_set"
  /\ \/ /\ Len(ids) < MaxBench
        /\ \E id \in Ctxs : ids' = Append(ids, id) /\ BenchSet(id)
        /\ UNCHANGED <<loop, count>>
     \/ /\ ids # << >>                        \* the deadline has passed
        /\ loop' = "rand_get" /\ count' = Len(ids)  \* end_time = count
        /\ UNCHANGED <<tl, ids, lost>>
  /\ UNCHANGED <<row, at, ret>>

\* Looking up the same ids, replayed from the same seed: while (end_time--).
bench_rand_get ==
  LET id == ids[Len(ids) - count + 1] IN
  /\ loop = "rand_get"
  /\ \/ /\ count = 0
        /\ loop' = "seq_set" /\ tl' = EmptyMap
        /\ UNCHANGED <<ids, count, lost, ret>>
     \/ /\ count > 0 /\ SyncIsLater(tl, id, 0)
        /\ count' = count - 1
        /\ UNCHANGED <<loop, tl, ids, lost, ret>>
     \/ /\ count > 0 /\ ~SyncIsLater(tl, id, 0)
        /\ Fail(-EINVAL)
  /\ UNCHANGED <<row, at>>

\* Setting the first N contexts in order: __i915_timeline_sync_set(count++).
bench_seq_set ==
  /\ loop = "seq_set"
  /\ \/ /\ count < MaxBench
        /\ BenchSet(count) /\ count' = count + 1
        /\ UNCHANGED loop
     \/ /\ count > 0
        /\ loop' = "seq_get"
        /\ UNCHANGED <<tl, count, lost>>
  /\ UNCHANGED <<row, at, ret, ids>>

\* end_time = count; while (end_time--) looks up count-1 down to 0.
SeqLookupId(n) == n - 1

bench_seq_get ==
  /\ loop = "seq_get"
  /\ \/ /\ count = 0
        /\ loop' = "untimed" /\ tl' = EmptyMap
        /\ UNCHANGED <<count, ret>>
     \/ /\ count > 0 /\ SyncIsLater(tl, SeqLookupId(count), 0)
        /\ count' = count - 1
        /\ UNCHANGED <<loop, tl, ret>>
     \/ /\ count > 0 /\ ~SyncIsLater(tl, SeqLookupId(count), 0)
        /\ Fail(-EINVAL)
  /\ UNCHANGED <<row, at, ids, lost>>

\* The random engine/seqno loop and the cyclic loops compare and set but
\* check no answer: they end with the timeline freed and return 0.
bench_untimed ==
  /\ loop = "untimed"
  /\ loop' = "out" /\ ret' = 0 /\ tl' = EmptyMap
  /\ UNCHANGED <<row, at, ids, count, lost>>

\* i915_subtests has returned; its result stays.
Returned == loop = "out" /\ UNCHANGED vars

Init ==
  /\ tl = EmptyMap
  /\ loop = "rows"
  /\ row = 1
  /\ at = FirstCtx
  /\ ret = -ENODEV
  /\ ids = << >>
  /\ count = 0
  /\ lost = FALSE

Next ==
  \/ igt_sync_step
  \/ bench_rand_set \/ bench_rand_get \/ bench_seq_set \/ bench_seq_get
  \/ bench_untimed
  \/ Returned

Spec == Init /\ [][Next]_vars

-----------------------------------------------------------------------------
(* Properties                                                              *)

\* The selftests report a wrong answer of the sync map (-EINVAL) only after
\* bench_sync dropped a failed allocation: against the contract of a
\* per-context last seqno with wrap-around comparison, every igt_sync row
\* holds for every context id in both loop orders (the ids must be
\* distinct, the rows around INT_MAX and UINT_MAX must agree with the
\* signed difference), and bench_sync's lookups find exactly the ids it
\* set. igt_sync itself returns a failed allocation as -ENOMEM.
NoFalseAlarm == ret = -EINVAL => lost

==============================================================================
