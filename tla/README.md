# TLA+ models of the amdkfd device queue manager

This directory holds TLA+ models of `src/drivers/gpu/drm/amd/amdkfd/kfd_device_queue_manager.c`,
the Device Queue Manager (DQM) of the AMD KFD compute driver, with TLC configurations that check them,
of the `refcount_t` primitive of linuxkpi, and of the mock and live selftests of
`src/drivers/gpu/drm/i915/selftests/i915_timeline.c`. The other source files are listed under "Not modelled".

## The system

The DQM hands out a small, fixed set of hardware resources to the queues that user processes create:
- VMIDs, one per process;
- HQD slots, as (pipe, queue) pairs;
- SDMA queue ids.

It runs one of two policies, chosen when the device is initialised:

* **No-HWS** (`*_nocpsch`). Each queue is put straight on an HQD slot or an SDMA engine queue:
  `allocate_hqd` and `load_mqd`, or `allocate_sdma_queue` and `load_mqd`.
  The change takes effect at once.
* **HWS** (`*_cpsch`). The queue is only listed. Firmware schedules every active queue from a run-list.
  Any change is pushed by `execute_queues_cpsch`. That function first preempts the current run-list
  (`destroy_queues_cpsch`: UNMAP_QUEUES packets, a QUERY_STATUS packet, then a wait on a fence word
  with a timeout), and then sends a new run-list.
  The driver and the firmware talk through the HIQ ring. The firmware reads that ring concurrently
  with the driver.

Every operation holds `dqm->lock` for its whole body, except `start_cpsch` and `stop_cpsch`, which
`kgd2kfd_suspend`/`kgd2kfd_resume` call: they take the lock only inside `destroy_queues_cpsch` and
`execute_queues_cpsch`, and walk `dqm->queues` and tear down the packet manager without it.

### Components, state and operations

| Component | State | Operations | Module |
|---|---|---|---|
| Slot allocators | `vmid_bitmap`, `allocated_queues[pipe]`, `next_pipe_to_allocate`, `sdma_bitmap` | `allocate_vmid`/`deallocate_vmid`, `allocate_hqd`/`deallocate_hqd`, `allocate_sdma_queue`/`deallocate_sdma_queue` | DqmNoHws |
| Registry | `dqm->queues` (qpd nodes), `qpd->queues_list`, `priv_queue_list`, `qpd->vmid`, `is_debug`; counters `queue_count`, `sdma_queue_count`, `total_queue_count`, `processes_count` | `register_process_nocpsch`, `unregister_process_nocpsch` | both |
| Queue lifecycle, No-HWS | `q->properties`, `q->pipe/queue/sdma_id`; hardware HQD/SDMA-RLC contents; PASID→VMID map | `create_queue_nocpsch` (+ compute / SDMA helpers), `destroy_queue_nocpsch`, `update_queue` | DqmNoHws |
| Queue lifecycle, HWS | queue lists, MQD allocation, kernel queues | `create_queue_cpsch`, `destroy_queue_cpsch`, `update_queue`, `create_kernel_queue_cpsch`, `destroy_kernel_queue_cpsch` | DqmHws |
| Run-list controller | `active_runlist`, fence word, HIQ ring, `pdd->reset_wavefronts` | `destroy_queues_cpsch`, `execute_queues_cpsch`, `amdkfd_fence_wait_timeout` | DqmHws |
| Firmware | the queues it has mapped | consumes run-list, unmap and query packets in order | DqmHws (from the spec) |
| Facade | the operation table, `initialize`/`start`/`stop`/`uninitialize`, the packet manager and fence memory | `start_cpsch`, `stop_cpsch`, `device_queue_manager_init` | DqmHws (start/stop); Init of each module |
| Cache policy | `qpd->sh_mem_ape1_base/limit`, the APE1 registers of the VMID | `set_cache_memory_policy`, `program_sh_mem_settings` | CacheMemoryPolicy |
| i915 mock timeline selftests | the mock timeline's sync map (by its contract), the loop positions, `ret` | `igt_sync`, `bench_sync`, `i915_timeline_mock_selftests` | I915SyncTest |
| i915 live timeline selftests | the breadcrumb slots, the free slots, `timelines[]`, `count`, `err`; each engine's queue of stores | `checked_i915_timeline_create`, `tl_write`, `live_hwsp_recycle/engine/alternate`, `i915_timeline_live_selftests` | I915LiveHwsp |
| GPU | executes each engine's stores in order; an engine reset may skip one | `emit_ggtt_store_dw` (what the store does) | I915LiveHwsp (by its contract) |

The two policies never run on the same device, so they are two separate modules.
Both use the registry operations, and both use `update_queue`.

### What is hard

* **Failure paths with rollback.** Every MQD-manager call can fail. Each failure path must return
  exactly what the call had taken: the VMID of a process's first queue, the HQD slot, the SDMA id.
  The round-robin pipe cursor has already moved by then and stays moved.
* **Ordering inside `destroy_queue_nocpsch`.** The slot is freed before `destroy_mqd` is called,
  and `destroy_mqd` may fail.
* **Concurrency with the firmware under HWS.**
  - The firmware reads the HIQ ring while the lock holder waits.
  - A query that timed out stays in the ring and may be answered late.
  - A send fails when the ring is full.
  - The counters are updated at different points before and after the preemption.
  - MQDs are freed after the preemption.
  - Whether an MQD is still mapped when it is freed or rewritten depends on which packets were sent.
* **Unsigned counters.** They wrap on a second decrement.

## Modules

### DqmNoHws.tla

Each No-HWS operation is one atomic action, because it runs entirely under `dqm->lock`.

- **Variables:** the allocators, the counters, the registry (a bag of qpds), the queue owner and
  properties, the cached MQD managers, and the hardware state: `hqd[(pipe, queue)]`,
  `sdma_rlc[(engine, queue)]` and `pasid_vmid`.
- **Failures:** each MQD-manager failure is a disjunct. `get_mqd_manager` may fail only while nothing
  is cached, as in `get_mqd_manager_nocpsch`. `destroy_mqd` failures are counted against the bound
  `MaxDestroyMqdFailures`.
- **Rollbacks:** a failing create is written as the code runs it. The allocation is taken
  (`allocate_vmid`, the slot or SDMA id removed from its bitmap), and then the error path gives it back
  through the same `deallocate_vmid`, `deallocate_hqd` and `deallocate_sdma_queue` operators that destroy
  uses. `FailedCreateLeavesNoTrace` therefore checks that each rollback really undoes its allocation.
  It is not a restatement of UNCHANGED. A queue's `props` (pipe, slot, SDMA id) stay unchanged on failure.
  The code does write them, but a queue that is not on any list is never read before the next
  create overwrites them.
- **Helpers:** `allocate_hqd_pipe` is the round-robin pipe scan of `allocate_hqd`; `is_pipe_enabled`
  is the `queue_bitmap` test. `SdmaEngineQueue` is the engine/queue split of
  `create_sdma_queue_nocpsch`, with the code's own constants.

### DqmHws.tla

The lock holder is a single driver process.

- **Program counter:** `pc` walks it through the steps of an operation, so that `FwStep` can run
  between them. The labels are:
  - `dq_begin`: the unmaps and the query;
  - `dq_wait`: the fence wait;
  - `ex_end`: the resubmission in `execute_queues_cpsch`;
  - the code after `execute_queues_cpsch` returns: `create_tail`, `destroy_tail`, `dkq_mid` and
    `dkq_tail`.
- **Calls:** `cur` records the operation and its arguments. `rv` is the callee's return value.
- **Firmware state:**
  - `ring` holds the packets not yet read;
  - `fence` is the fence word;
  - `fw_mapped` is the set of queues the firmware runs.
- **`FwStep`:** it consumes the head packet.
  - A run-list maps its queues.
  - UNMAP for COMPUTE removes the user compute queues, and also the kernel queues when the filter is ALL.
  - UNMAP for SDMA engine 0 removes the SDMA queues. The cpsch path leaves `sdma_engine_id` at 0.
  - QUERY_STATUS writes COMPLETED to the fence.
- **Faults:**
  - A send fails when the ring is full. `pm_create_runlist_ib` may also fail when `IbMayFail` is set.
  - The fence wait may time out with a query still pending when `FenceMayTimeOut` is set.
  - With healthy firmware the wait can still end without an answer when no query of the driver is
    left in the ring, because the query did not fit.
- **Caller contracts:**
  - a queue is created only for a registered process;
  - a process has at most one kernel queue;
  - a process is unregistered only after its queues are gone.

#### start_cpsch and stop_cpsch

A second actor, the suspend thread, runs `stop_cpsch` and `start_cpsch` concurrently with the lock
holder. Its state is `sp` (none, or walking the list for stop or start), `walk` (the nodes of
`dqm->queues` not yet visited), `walk_at` (the node the walk stands on), `bound` (`pdd->bound` per
process) and `pm_ready` (the packet manager and fence memory are live).

- `stop_cpsch` takes the lock and enters `destroy_queues_cpsch` with `preempt_all`; `stop_out` is the
  return from it, which releases the lock.
- `visit_node` is one step of the unlocked `list_for_each_entry`: it visits a node still on the list.
- `stop_end` frees the fence and runs `pm_uninit` (`pm_ready` false, the ring gone).
- `start_cpsch` runs `pm_init` and `set_sched_resources` (a SET_RESOURCES packet), then walks the list
  binding processes; `start_end` calls `execute_queues_cpsch`.
- `SuspendExclusive` is the caller contract: when it is TRUE no operation starts while the suspend
  thread is active or the scheduler is stopped (`Callable`). Every run assumes it. The unlocked
  walk of `start_cpsch`/`stop_cpsch` and the `pm_uninit` teardown are safe only because of it, so
  no property states their safety: a property that held only by this guard would restate the guard.
  The code relies on its callers, not on `dqm->lock` as spec section 5 says (hazards at lines 748
  and 753).

### CacheMemoryPolicy.tla

`set_cache_memory_policy` checks an alternate aperture (APE1) given as a base address and a size, and
encodes it into two 32-bit register fields that the hardware sign-extends and shifts by 16. The
module scales the 64-bit arithmetic: `Width` address bits, `Low` fixed low bits (16 in the code),
user-mode addresses below `2^UserBits` (2^47), so that the register fields keep the code's
`UserBits - Low + 1` bits and their top bit. The masks are built from the constants exactly as
`APE1_FIXED_BITS_MASK` and `APE1_LIMIT_ALIGNMENT` are, and `limit` is computed modulo `2^Width`.
The whole call is one action (it runs under the lock), and `allocate_vmid`/`deallocate_vmid` model
when `program_sh_mem_settings` writes the fields to the VMID's registers under No-HWS.

A reference beside it (`Representable`, `Requested`) says which requests are legal: size 0 turns
APE1 off; otherwise the range is 64K-aligned at both ends and lies in user-mode addresses.

### I915SyncTest.tla

The mock selftests of `i915_timeline.c`, run by `i915_timeline_mock_selftests` in order:

- **`igt_sync`** walks the table `pass[]` of (seqno, expected, set) rows over the context ids
  `BIT_ULL(order) + offset`, first table-major on one timeline, then context-major on a fresh one.
  Each `__igt_sync` call is one step (`igt_sync_step`): it fails with `-EINVAL` when
  `__i915_timeline_sync_is_later` does not give the expected answer, and returns `-ENOMEM` when
  `__i915_timeline_sync_set` fails. `Advance` is the three nested loops.
- **`bench_sync`** inserts random ids and looks them up again by replaying the same seed
  (`bench_rand_set`, `bench_rand_get`), then inserts ids `0..count-1` and looks them up from
  `count-1` down (`bench_seq_set`, `bench_seq_get`). Each do/while ends at a deadline: at least one
  and at most `MaxBench` iterations. It ignores the result of `__i915_timeline_sync_set`
  (`BenchSet`; the auxiliary `lost` records a dropped failure). The later loops check nothing and are
  one step (`bench_untimed`); timing and logging are left out.

The sync map itself (`i915_syncmap.c`, `mock_timeline.c`, `i915_seqno_passed`) is not in the
repository. It is modelled by its contract: a partial function from context to the last seqno set,
compared with `(s32)(a - b) >= 0`. Seqnos are scaled to `SeqnoBits` bits and context ids to
`CtxBits` bits, keeping the rows' INT_MAX/UINT_MAX positions relative to the width.

### I915LiveHwsp.tla

The live selftests, run by `i915_timeline_live_selftests` in the order recycle, engine, alternate;
the first that fails stops the suite (`Return`). There are two actors:

- **The test thread.** `pc` follows the code's labels.
  - `live_begin` is the `kvmalloc_array` (which may fail) and `count = 0`.
  - `timeline_create` is `i915_timeline_create`. It takes a slot no live timeline holds and clears it.
  - `tl_write` does two things. It first makes the check of `checked_i915_timeline_create`
    (`BreadcrumbCleared`). It then makes `tl_write`, which queues a store of `count` into the slot
    on the engine, or fails (pin, request or ring space).
  - `request_wait` is `live_hwsp_recycle`'s wait, check, put and park, and the do/while.
  - `NextInLoop` and `RecycleNext` are the loops. The `for_each_engine` loops skip engines that
    cannot store a dword (`NextStore`).
  - `igt_flush_test` waits for the GPU to idle, or fails with `-EIO`.
  - `check_and_put` is the check of `timelines[n]` after the flush, the puts and the return.
- **The GPU.** `gpu_store` executes the oldest store of an engine. The stores are on the kernel
  context's timeline, so each engine executes its own in order; different engines run in any
  relative order. `gpu_reset_skip` is an engine reset cancelling a hung request: it completes
  without its store. The auxiliary `skipped` records that this happened.

The timeline code and the HWSP allocator of the driver are not in the repository, so they are
modelled by their contract. A new timeline gets a slot that no live timeline holds, cleared to
`tl->seqno = 0`. `i915_timeline_put` gives the slot back at once, whether or not a store into it is
still queued. The encoding of the store per GPU generation is abstracted to the write it performs.

The check in `BreadcrumbCleared` never fails in the model: a store can be queued to a free slot only
after the subtest has already failed with `-EIO`, and then the suite stops.

### I915Selftests.tla

This module composes the two suites in the order the selftest harness runs them.
`i915_timeline_mock_selftests` runs at module load. `i915_timeline_live_selftests` runs at probe,
and only if the mock suite returned 0 (`StartLive`). The suites share no state. Once the mock suite
has returned its variables no longer change, so the `View` of a live-stage state keeps only the
mock suite's result and `lost`.

### Refcount.tla and RefcountAtomic.tla

These model the `refcount_t` primitive of `linuxkpi/gplv2/include/linux/refcount.h`, called by
concurrent threads. The counter is an unsigned int of `Width` bits, so its arithmetic wraps modulo
2^Width.

**Atomic steps:**
- `atomic_read`;
- `atomic_inc`, `atomic_dec` and `atomic_dec_and_test`;
- `atomic_cmpxchg`.

**The loops.** `refcount_inc_not_zero` and `refcount_dec_not_one` are compare-and-swap loops, with
one action per round. The local tests of a round are merged with the shared access that follows them.
Merging them does not change the result, because those tests read only the thread's own `val`.

**The abstract specification.** `RefcountAtomic` says what the calls promise: each call is invoked,
then applied at one instant. The effect includes saturation at UINT_MAX and the no-op on underflow.

**The refinement mapping:**
- The count is `r`.
- A call counts as applied once its outcome is fixed.
- For most calls that is the successful `cmpxchg` or the atomic operation.
- For a loop whose `val` is 0, 1 or UINT_MAX, it is the read that produced that `val`. The call
  returns without writing, so the later return step is a stutter.

## Runs

| Run | Config | Expect | Checks | What it shows |
|---|---|---|---|---|
| nohws | MCDqmNoHws.cfg | pass | TypeOK, QueueCounters, VmidConservation, HqdConservation, SdmaConservation, FailedCreateLeavesNoTrace | The No-HWS allocators stay consistent with the queue lists, and every failed create leaves no trace. |
| nohws_faults | MCDqmNoHwsFaults.cfg | pass | QueueCounters, VmidConservation | The same with the queue ceiling reachable and `destroy_mqd` allowed to fail. |
| nohws_slot_reuse | MCDqmNoHwsSlotReuse.cfg | violation | ListedQueuesLoaded | A failed `destroy_mqd` leaves a freed slot that the next create reuses. Its `load_mqd` overwrites a queue that is still listed (code bug, line 312). |
| hws | MCDqmHws.cfg | pass | TypeOK, QueueCounters, RunlistInSync, NoFreedMqdMapped, FenceAnswersOwnQuery, StoppedNothingMapped | With healthy firmware, compute and kernel queues, and stop/start between operations: once the ring is drained, the firmware runs exactly the run-list; no freed MQD stays mapped; a completed fence wait has no unmap of its own left unread; a stopped scheduler has nothing mapped. |
| hws_faults | MCDqmHwsFaults.cfg | pass | QueueCounters, OperationsReturn | With timeouts, late fence answers, a full ring, IB failures and SDMA queues, the counters still match the lists, and under `FairSpec` every operation and every stop/start returns. |
| hws_stale_fence | MCDqmHwsStaleFence.cfg | violation | FenceAnswersOwnQuery | A timed-out query answered late completes the next wait before its unmap was read: all queries write the same value (code bug, line 940). |
| hws_stop_timeout | MCDqmHwsStopTimeout.cfg | violation | TimeoutHasCaller | A timeout in stop's preemption marks `reset_wavefronts` on `kfd_get_process(current)`, which is no process of the device (code bug, line 947). |
| i915_selftests | I915Selftests.cfg | pass | SyncNoFalseAlarm, HwspNoFalseAlarm, HwspNoPendingStoreToFreeSlot | The mock suite reports a wrong sync-map answer only after `bench_sync` dropped a failed allocation: `igt_sync`'s context ids are distinct, its rows around INT_MAX/UINT_MAX agree with the wrap-around order in both loop orders, and `bench_sync` finds what it set. The live suite fails a check only after an engine reset skipped a store, in every order of the engines' stores and every recycling of slots. It gives a slot back with a store into it still queued only after failing with `-EIO` (a wait timeout or a failed flush). |
| cache_policy | CacheMemoryPolicy.cfg | pass | ApertureAsGranted, HardwareApertureCurrent | Over every base and size, the call accepts exactly the representable apertures and the fields decode to the requested range; a No-HWS process's registers follow every change. |
| hws_sdma_free | MCDqmHwsSdmaFree.cfg | violation | NoFreedMqdMapped | Destroying the last SDMA queue sends no SDMA unmap, and the firmware keeps running the freed MQD (code bug, line 1034). |
| hws_update | MCDqmHwsUpdate.cfg | violation | NoUpdateOfMappedMqd | `update_mqd` rewrites a mapped MQD before the preemption (code bug, line 381). |
| refcount | MCRefcount.cfg | pass | Linearizable | With 2 threads and a 2-bit counter, every interleaving of the compare-and-swap loops refines `RefcountAtomic`. No call brings a zero count back to life, `dec_not_one` never takes 1 to 0, and no update is lost. |

`PROJECT.json` gives one mutant per property of each passing run. The mutant is a plausible bug in the
mapped code, and TLC finds the property violated under that mutant. For example:
- the VMID bit freed without subtracting `KFD_VMID_START_OFFSET`;
- `update_queue` without the `queue_count` bookkeeping;
- a leaked HQD slot;
- `execute_queues_cpsch` without its preemption;
- `destroy_kernel_queue_cpsch` with the DYNAMIC filter.

### Bounds

- **No-HWS:**
  - 2 processes and 3 queues;
  - 3 pipes of 2 slots, of which KFD gets slots 1 and 4, so that pipe 2 is skipped and the cursor wraps;
  - 1 VMID, so a second process meets VMID exhaustion;
  - 4 SDMA ids on 2 engines.

  The clean run uses a ceiling of 3 queues. The faults run uses a ceiling of 2 and lets `destroy_mqd`
  fail once.
- **HWS healthy run:** 2 processes, 3 queues, 1 kernel queue, a ceiling of 3 and a ring of 5. That is
  enough for every send to succeed, so the properties are about the protocol, not about lost packets.
- **HWS faults run:** 1 process, 1 user queue (compute or SDMA) and 1 kernel queue, a ceiling of 2
  and a ring of 2. The ring fills, queries are dropped, and late answers reach a later wait. It also
  checks liveness, so it has no symmetry (symmetry is unsound for liveness); one process keeps it
  within a minute.
- **HWS violation runs:** 2 processes, 1 queue, 1 kernel queue; the stale-fence run uses a ring of 2.
- **Cache policy:** `Width` 5, `Low` 1, `UserBits` 3: 32 addresses, every base and size. The mask has
  bits above the user range and a low bit, so misaligned, kernel-mode, wrapping and sign-extended
  requests all occur; larger widths only repeat the same cases and the recursive bitwise AND of
  the `Bitwise` module makes them slow.
- **i915 selftests:** seqnos of 8 bits (INT_MAX 127, UINT_MAX 255) and context ids of 4 bits:
  orders 1..3 give 8 contexts, enough for the order-1/order-2 boundary where ids could collide;
  bench loops of up to 3 iterations over 16 ids; allocation failures on. The live suite has 3
  engines, of which engines 1 and 3 can store a dword, so the loops skip an engine. Each engine gets
  2 timelines, so the engine test keeps 4 timelines live. There are 5 slots, one more than that, so
  recycling can give either the same slot or another one. The recycle loop runs up to 2 iterations
  per engine, so a slot is recycled on one engine and then on the next. Every fault is on:
  allocation, wait timeout, flush and reset. Stores of two engines are queued at once, so they can
  execute in either order.
- **Refcount:** 2 threads and a 2-bit counter. UINT_MAX is 3, so saturation and wrap-around are
  reached within a few calls. With 2 threads a compare-and-swap fails under contention, including
  the A-B-A pattern.
- **Symmetry:** processes and queues are symmetric model values. No operation orders them.

Together the passing runs fire every action and every disjunct.

### Fairness

`MCDqmHws.tla` defines `FairSpec` for the faults run, which checks liveness. It assumes weak fairness of:
- the lock holder's internal steps, because the code between lock and unlock never blocks except in
  the fence wait, which is a loop bounded by `QUEUE_PREEMPT_DEFAULT_TIMEOUT_MS`;
- the suspend thread's walk and teardown steps, which never wait;
- the firmware, which the spec requires to make progress on the HIQ.
New calls (create, destroy, stop, start...) are not fair: nothing forces a caller to call.

## Not modelled, and the plan

* **Failure paths of `start_cpsch`** (`pm_init`, `set_sched_resources`, the GTT allocation) and the
  uninitialise paths, which only free memory. `start_nocpsch`/`stop_nocpsch` only toggle interrupts.
* **The ASIC `set_cache_memory_policy` hook**, which computes `sh_mem_config` from the cache
  policies: no property is about cache policies.
* **Spec section 8, "execute idempotent".** The code always preempts and resubmits. *Planned:* a
  violation run.
* **`destroy_queue_cpsch` after a timeout.** With timeouts allowed, TLC also finds `NoFreedMqdMapped`
  violated: the MQD is freed after `-ETIME` and the firmware maps it from the old run-list (line
  1040; spec section 7 says the timeout is surfaced). This is not kept as a run of its own.
* **A failed create under HWS.** `MCDqmHwsFailedCreate.cfg` checks `FailedCreateNotListed`, and TLC
  finds it violated: when the run-list resubmission fails, `create_queue_cpsch` returns the error
  with the queue listed and counted (line 862), against spec section 7. It is not among the runs of
  `PROJECT.json`.
* **`bench_sync`'s dropped allocation failure.** With `SetMayFail`, TLC reaches `ret = -EINVAL`
  after a failed `__i915_timeline_sync_set` (line 146): the selftest reports a lookup failure for
  what was an allocation failure. `SyncNoFalseAlarm` allows exactly this case.
* **A skipped first store is not detected.** The store of `count = 0` writes the value that the
  allocator already cleared the slot to, so the live tests cannot tell it was skipped. The model
  shows this, and no property is about it.
* **Reset-wavefront recovery** after a timeout: outside this file.
* **Out of scope:**
  - `core_types.h` and `drm_file.h`: declarations;
  - `vc4_trace_freebsd.h`: empty trace macros;
  - the packet-manager, MQD-manager and kfd2kgd internals: collaborators outside `src/`.
