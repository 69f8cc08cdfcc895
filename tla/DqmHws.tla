------------------------------- MODULE DqmHws -------------------------------
(***************************************************************************)
(* The device queue manager of amdkfd under the hardware scheduler (the   *)
(* *_cpsch operation table of kfd_device_queue_manager.c) together with   *)
(* the scheduler firmware it drives.                                       *)
(*                                                                         *)
(* The driver side is the holder of dqm->lock: one operation at a time,   *)
(* stepping through its body with pc. The firmware runs concurrently: it  *)
(* consumes the packets the driver puts on the HIQ ring in order, maps    *)
(* the queues of a run-list, unmaps queues and writes the fence word when *)
(* it reaches a query-status packet. The driver's fence wait either sees  *)
(* the fence completed or times out; a timed-out query stays in the ring  *)
(* and the firmware may still answer it later.                            *)
(***************************************************************************)
EXTENDS Integers, FiniteSets, Sequences

CONSTANTS
  Procs,            \* qcm_process_device objects
  Queues,           \* user queues (struct queue)
  KQueues,          \* kernel (debug interface) queues (struct kernel_queue)
  NoProc,
  MaxQueues,        \* max_num_of_queues_per_device
  RingSize,         \* packets the HIQ ring holds before acquire_packet_buffer fails
  FenceMayTimeOut,  \* whether the fence wait may give up while a query is pending
  IbMayFail,        \* whether pm_create_runlist_ib may fail to allocate the run-list IB
  SuspendExclusive  \* whether callers keep queue and process calls out of stop .. start

ASSUME NoProc \notin Procs /\ Queues \cap KQueues = {}
ASSUME MaxQueues \in Nat /\ RingSize \in Nat \ {0}
ASSUME {FenceMayTimeOut, IbMayFail, SuspendExclusive} \subseteq BOOLEAN

QTypes == {"COMPUTE", "SDMA"}
Engines == {"COMPUTE", "SDMA0", "SDMA1"}
Filters == {"ALL", "DYNAMIC"}   \* KFD_PREEMPT_TYPE_FILTER_{ALL,DYNAMIC}_QUEUES
Ops == {"create", "destroy", "update", "create_kq", "destroy_kq", "stop", "start"}
Codes == {"OK", "EPERM", "EMQD", "EBUSY", "ENOMEM", "ETIME"}

Packets ==
  [kind : {"unmap"}, engine : Engines, filter : Filters] \cup
  [kind : {"query", "set_resources"}] \cup
  [kind : {"runlist"}, queues : SUBSET (Queues \cup KQueues)]

VARIABLES
  owner,            \* the qpd whose queues_list holds a user queue
  props,            \* q->properties: [type, is_active]
  mqd_live,         \* the MQD of a user queue is allocated (init_mqd .. uninit_mqd)
  kq_owner,         \* the qpd whose priv_queue_list holds a kernel queue
  kq_live,          \* the kernel queue's MQD is allocated
  is_debug,         \* qpd->is_debug
  registered,       \* qpds on dqm->queues
  queue_count, sdma_queue_count, total_queue_count, processes_count,
  active_runlist,   \* dqm->active_runlist
  reset_wavefronts, \* pdd->reset_wavefronts
  pc,               \* where the lock holder is ("idle": lock free)
  cur,              \* the operation holding the lock and its arguments
  preempt_all,      \* argument preempt_static_queues of destroy_queues_cpsch
  rv,               \* the return value of the last callee
  ret,              \* [op, q, code] returned by the last finished operation
  ring,             \* HIQ: packets submitted and not yet read by the firmware
  fence,            \* *dqm->fence_addr
  fw_mapped,        \* queues the firmware has mapped
  pm_ready,         \* dqm->packets initialised and dqm->fence_mem allocated
  sp,               \* the thread in start_cpsch/stop_cpsch outside the lock
  walk,             \* nodes of dqm->queues its list walk has still to reach
  walk_at,          \* the node the walk stands on (NoProc: none yet)
  bound             \* pdd->bound of each process's device data

driver == <<owner, props, mqd_live, kq_owner, kq_live, is_debug, registered,
            queue_count, sdma_queue_count, total_queue_count, processes_count,
            active_runlist, reset_wavefronts, pc, cur, preempt_all, rv, ret>>
suspend == <<pm_ready, sp, walk, walk_at, bound>>
vars == <<driver, ring, fence, fw_mapped, suspend>>

\* The bodies step through these labels between taking and dropping the lock.
Labels == {"idle", "dq_begin", "dq_wait", "ex_end", "create_tail",
           "destroy_tail", "dkq_mid", "dkq_tail", "stop_out"}

Created == {q \in Queues : owner[q] # NoProc}
KCreated == {k \in KQueues : kq_owner[k] # NoProc}

\* pm_send_runlist(&dqm->queues): every active queue and kernel queue of
\* every registered process.
RunlistQueues ==
  {q \in Created : owner[q] \in registered /\ props[q].is_active} \cup
  {k \in KCreated : kq_owner[k] \in registered}

\* acquire_packet_buffer on the HIQ fails when the ring has no room.
CanSend(n) == Len(ring) + n <= RingSize

\* Of packets sent one after another with their results ignored, the ones
\* that find room in the ring.
Fitting(pkts) ==
  SubSeq(pkts, 1, IF Len(pkts) < RingSize - Len(ring) THEN Len(pkts)
                  ELSE RingSize - Len(ring))
Unmap(e, f) == [kind |-> "unmap", engine |-> e, filter |-> f]

Finish(code) ==
  /\ ret' = [op |-> cur'.op, q |-> cur'.q, code |-> code]
  /\ pc' = "idle"

\* A caller takes dqm->lock. Under SuspendExclusive the callers of the queue
\* and process operations also wait until the device is started and no
\* start or stop is under way.
Callable == pc = "idle" /\ (SuspendExclusive => sp = "none" /\ pm_ready)

-----------------------------------------------------------------------------
(* destroy_queues_cpsch(dqm, preempt_all, lock = false)                    *)

\* Where destroy_queues_cpsch returns to: its own mutex_unlock when
\* stop_cpsch called it with lock = true, execute_queues_cpsch, or the
\* direct call of destroy_kernel_queue_cpsch (made while the kernel queue
\* is still listed).
ReturnFromPreempt ==
  CASE cur.op = "stop" -> "stop_out"
    [] cur.op = "destroy_kq" /\ kq_owner[cur.q] # NoProc -> "dkq_mid"
    [] OTHER -> "ex_end"

\* The fence word left as the last wait found it.
FenceInitSkipped == UNCHANGED fence

\* *dqm->fence_addr = KFD_FENCE_INIT before the query is sent.
FenceInit == fence' = "INIT"

\* Nothing to preempt; or send the unmaps, reset the fence, ask the firmware
\* for the fence and start waiting. The SDMA unmaps' results are ignored;
\* a failed compute unmap returns at once; a query that does not fit in
\* the ring is dropped (its result is ignored too).
dq_begin ==
  LET sdma == IF sdma_queue_count # 0
              THEN <<Unmap("SDMA0", "DYNAMIC"), Unmap("SDMA1", "DYNAMIC")>>
              ELSE <<>>
      ring2 == ring \o Fitting(sdma)
      cmp == Unmap("COMPUTE", IF preempt_all THEN "ALL" ELSE "DYNAMIC")
  IN
  /\ pc = "dq_begin"
  /\ UNCHANGED suspend
  /\ UNCHANGED <<owner, props, mqd_live, kq_owner, kq_live, is_debug, registered,
                 queue_count, sdma_queue_count, total_queue_count, processes_count,
                 active_runlist, reset_wavefronts, cur, preempt_all, ret, fw_mapped>>
  /\ \/ /\ ~active_runlist
        /\ rv' = "OK" /\ pc' = ReturnFromPreempt
        /\ UNCHANGED <<ring, fence>>
     \/ /\ active_runlist
        /\ Len(ring2) >= RingSize                  \* pm_send_unmap_queue fails
        /\ ring' = ring2
        /\ rv' = "ENOMEM" /\ pc' = ReturnFromPreempt
        /\ UNCHANGED fence
     \/ /\ active_runlist
        /\ Len(ring2) < RingSize
        /\ FenceInit
        /\ ring' = IF Len(ring2) + 2 <= RingSize
                   THEN ring2 \o <<cmp, [kind |-> "query"]>>
                   ELSE Append(ring2, cmp)
        /\ pc' = "dq_wait"
        /\ UNCHANGED rv

\* The fence wait as a loop with no deadline.
dq_wait_untimed ==
  /\ pc = "dq_wait"
  /\ UNCHANGED suspend
  /\ UNCHANGED <<owner, props, mqd_live, kq_owner, kq_live, is_debug, registered,
                 queue_count, sdma_queue_count, total_queue_count, processes_count,
                 cur, preempt_all, ret, ring, fence, fw_mapped, reset_wavefronts>>
  /\ pc' = ReturnFromPreempt
  /\ fence = "COMPLETED"
  /\ active_runlist' = FALSE
  /\ rv' = "OK"

\* amdkfd_fence_wait_timeout and what follows it. The wait can only end
\* early if the firmware may be stuck (FenceMayTimeOut) or no query of the
\* driver is left for the firmware to answer. On a timeout the reset flag
\* goes to the device data of kfd_get_process(current): the calling
\* process, none when the caller is start_cpsch or stop_cpsch.
dq_wait ==
  /\ pc = "dq_wait"
  /\ UNCHANGED suspend
  /\ UNCHANGED <<owner, props, mqd_live, kq_owner, kq_live, is_debug, registered,
                 queue_count, sdma_queue_count, total_queue_count, processes_count,
                 cur, preempt_all, ret, ring, fence, fw_mapped>>
  /\ pc' = ReturnFromPreempt
  /\ \/ /\ fence = "COMPLETED"                     \* pm_release_ib
        /\ active_runlist' = FALSE
        /\ rv' = "OK"
        /\ UNCHANGED reset_wavefronts
     \/ /\ fence # "COMPLETED"
        /\ FenceMayTimeOut \/ \A i \in 1 .. Len(ring) : ring[i].kind # "query"
        /\ reset_wavefronts' = IF cur.p \in Procs
                               THEN [reset_wavefronts EXCEPT ![cur.p] = TRUE]
                               ELSE reset_wavefronts
        /\ rv' = "ETIME"
        /\ UNCHANGED active_runlist

-----------------------------------------------------------------------------
(* execute_queues_cpsch(dqm, lock = false)                                 *)

\* The call of execute_queues_cpsch, its preemption skipped.
CallExecuteUnpreempted == /\ preempt_all' = FALSE
                          /\ pc' = "ex_end"

\* The call of execute_queues_cpsch: its destroy_queues_cpsch(false).
CallExecute == /\ preempt_all' = FALSE
               /\ pc' = "dq_begin"

\* Where execute_queues_cpsch returns to, with its return value rv'.
ReturnFromExecute ==
  CASE cur.op = "create"     -> pc' = "create_tail" /\ UNCHANGED ret
    [] cur.op = "destroy"    -> pc' = "destroy_tail" /\ UNCHANGED ret
    [] cur.op = "update"     -> Finish(rv')
    [] cur.op = "create_kq"  -> Finish("OK")
    [] cur.op = "destroy_kq" -> pc' = "dkq_tail" /\ UNCHANGED ret
    [] cur.op = "start"      -> pc' = "idle" /\ UNCHANGED ret

\* After the preemption: give up on its error; nothing to run; or send a
\* fresh run-list of every active queue.
ex_end ==
  LET runnable == queue_count # 0 /\ processes_count # 0 /\ ~active_runlist
  IN
  /\ pc = "ex_end"
  /\ UNCHANGED suspend
  /\ UNCHANGED <<owner, props, mqd_live, kq_owner, kq_live, is_debug, registered,
                 queue_count, sdma_queue_count, total_queue_count, processes_count,
                 reset_wavefronts, cur, preempt_all, fence, fw_mapped>>
  /\ \/ /\ rv # "OK" \/ ~runnable
        /\ UNCHANGED <<active_runlist, ring, rv>>
     \/ /\ rv = "OK" /\ runnable
        /\ ~CanSend(1) \/ IbMayFail               \* pm_send_runlist fails
        /\ rv' = "ENOMEM"
        /\ UNCHANGED <<active_runlist, ring>>
     \/ /\ rv = "OK" /\ runnable
        /\ CanSend(1)
        /\ ring' = Append(ring, [kind |-> "runlist", queues |-> RunlistQueues])
        /\ active_runlist' = TRUE
        /\ UNCHANGED rv
  /\ ReturnFromExecute

-----------------------------------------------------------------------------
(* The operations                                                          *)

\* Counted once the queue is in place, the total left out.
AccountCreatedUntotalled(t) ==
  /\ sdma_queue_count' = IF t = "SDMA" THEN sdma_queue_count + 1 ELSE sdma_queue_count
  /\ UNCHANGED total_queue_count

\* Counted once the queue is in place (create_queue_cpsch, after execute).
AccountCreated(t) ==
  /\ sdma_queue_count' = IF t = "SDMA" THEN sdma_queue_count + 1 ELSE sdma_queue_count
  /\ total_queue_count' = total_queue_count + 1

\* create_queue_cpsch for a new queue of a registered process. HWS takes
\* no VMID or slot: the firmware maps the queue from the run-list.
create_queue_cpsch(p, q, t, act) ==
  /\ Callable /\ owner[q] = NoProc /\ p \in registered
  /\ UNCHANGED suspend
  /\ cur' = [op |-> "create", p |-> p, q |-> q, t |-> t]
  /\ UNCHANGED <<kq_owner, kq_live, is_debug, registered, processes_count,
                 active_runlist, reset_wavefronts, rv, ring, fence, fw_mapped>>
  /\ \/ /\ total_queue_count >= MaxQueues
        /\ Finish("EPERM")
        /\ UNCHANGED <<owner, props, mqd_live, queue_count, sdma_queue_count,
                       total_queue_count, preempt_all>>
     \/ /\ total_queue_count < MaxQueues           \* get_mqd_manager or init_mqd fails
        /\ Finish("EMQD")
        /\ UNCHANGED <<owner, props, mqd_live, queue_count, sdma_queue_count,
                       total_queue_count, preempt_all>>
     \/ /\ total_queue_count < MaxQueues
        /\ owner' = [owner EXCEPT ![q] = p]
        /\ props' = [props EXCEPT ![q] = [type |-> t, is_active |-> act]]
        /\ mqd_live' = [mqd_live EXCEPT ![q] = TRUE]
        /\ IF act
           THEN /\ queue_count' = queue_count + 1
                /\ CallExecute
                /\ UNCHANGED <<sdma_queue_count, total_queue_count, ret>>
           ELSE /\ AccountCreated(t)
                /\ Finish("OK")
                /\ UNCHANGED <<queue_count, preempt_all>>

create_tail ==
  /\ pc = "create_tail"
  /\ UNCHANGED suspend
  /\ AccountCreated(cur.t)
  /\ UNCHANGED <<owner, props, mqd_live, kq_owner, kq_live, is_debug, registered,
                 queue_count, processes_count, active_runlist, reset_wavefronts,
                 cur, preempt_all, rv, ring, fence, fw_mapped>>
  /\ Finish(rv)

\* The counts destroy_queue_cpsch drops before the run-list is rebuilt,
\* queue_count whether or not the queue was active.
AccountDestroyedAlways(q) ==
  /\ sdma_queue_count' = IF props[q].type = "SDMA" THEN sdma_queue_count - 1
                                                  ELSE sdma_queue_count
  /\ queue_count' = queue_count - 1

\* The counts destroy_queue_cpsch drops before the run-list is rebuilt.
AccountDestroyed(q) ==
  /\ sdma_queue_count' = IF props[q].type = "SDMA" THEN sdma_queue_count - 1
                                                  ELSE sdma_queue_count
  /\ queue_count' = IF props[q].is_active THEN queue_count - 1 ELSE queue_count

\* destroy_queue_cpsch: refused for a debugged process; otherwise the queue
\* leaves the list and the counts, the run-list is rebuilt without it, and
\* its MQD is freed whatever execute_queues_cpsch returned.
destroy_queue_cpsch(p, q) ==
  /\ Callable /\ owner[q] = p
  /\ UNCHANGED suspend
  /\ cur' = [op |-> "destroy", p |-> p, q |-> q, t |-> props[q].type]
  /\ UNCHANGED <<props, mqd_live, kq_owner, kq_live, is_debug, registered,
                 total_queue_count, processes_count, active_runlist,
                 reset_wavefronts, rv, ring, fence, fw_mapped>>
  /\ \/ /\ is_debug[p]
        /\ Finish("EBUSY")
        /\ UNCHANGED <<owner, queue_count, sdma_queue_count, preempt_all>>
     \/ /\ ~is_debug[p]
        /\ AccountDestroyed(q)
        /\ owner' = [owner EXCEPT ![q] = NoProc]
        /\ CallExecute
        /\ UNCHANGED ret

destroy_tail ==
  /\ pc = "destroy_tail"
  /\ UNCHANGED suspend
  /\ mqd_live' = [mqd_live EXCEPT ![cur.q] = FALSE]       \* uninit_mqd
  /\ total_queue_count' = total_queue_count - 1
  /\ UNCHANGED <<owner, props, kq_owner, kq_live, is_debug, registered,
                 queue_count, sdma_queue_count, processes_count, active_runlist,
                 reset_wavefronts, cur, preempt_all, rv, ring, fence, fw_mapped>>
  /\ Finish("OK")

\* update_queue under HWS: update_mqd rewrites the MQD and recomputes
\* is_active (act), the active count follows, then the run-list is rebuilt.
update_queue(q, act) ==
  /\ Callable /\ owner[q] # NoProc
  /\ UNCHANGED suspend
  /\ cur' = [op |-> "update", p |-> owner[q], q |-> q, t |-> props[q].type]
  /\ props' = [props EXCEPT ![q].is_active = act]
  /\ queue_count' = CASE act /\ ~props[q].is_active -> queue_count + 1
                      [] ~act /\ props[q].is_active -> queue_count - 1
                      [] OTHER -> queue_count
  /\ CallExecute
  /\ UNCHANGED <<owner, mqd_live, kq_owner, kq_live, is_debug, registered,
                 sdma_queue_count, total_queue_count, processes_count,
                 active_runlist, reset_wavefronts, rv, ret, ring, fence, fw_mapped>>

\* create_kernel_queue_cpsch: the debug interface queue of a process (one
\* per process, created and initialised by the caller).
create_kernel_queue_cpsch(p, k) ==
  /\ Callable /\ kq_owner[k] = NoProc /\ p \in registered
  /\ UNCHANGED suspend
  /\ \A k2 \in KQueues : kq_owner[k2] # p
  /\ cur' = [op |-> "create_kq", p |-> p, q |-> k, t |-> "COMPUTE"]
  /\ UNCHANGED <<owner, props, mqd_live, registered, sdma_queue_count,
                 processes_count, active_runlist, reset_wavefronts, rv, ring,
                 fence, fw_mapped>>
  /\ \/ /\ total_queue_count >= MaxQueues
        /\ Finish("EPERM")
        /\ UNCHANGED <<kq_owner, kq_live, is_debug, queue_count,
                       total_queue_count, preempt_all>>
     \/ /\ total_queue_count < MaxQueues
        /\ total_queue_count' = total_queue_count + 1
        /\ kq_owner' = [kq_owner EXCEPT ![k] = p]
        /\ kq_live' = [kq_live EXCEPT ![k] = TRUE]
        /\ queue_count' = queue_count + 1
        /\ is_debug' = [is_debug EXCEPT ![p] = TRUE]
        /\ CallExecute
        /\ UNCHANGED ret

\* destroy_kernel_queue_cpsch preempting the dynamic queues only.
destroy_kernel_queue_cpsch_dynamic(p, k) ==
  /\ Callable /\ kq_owner[k] = p
  /\ UNCHANGED suspend
  /\ cur' = [op |-> "destroy_kq", p |-> p, q |-> k, t |-> "COMPUTE"]
  /\ preempt_all' = FALSE
  /\ pc' = "dq_begin"
  /\ UNCHANGED <<owner, props, mqd_live, kq_owner, kq_live, is_debug, registered,
                 queue_count, sdma_queue_count, total_queue_count, processes_count,
                 active_runlist, reset_wavefronts, rv, ret, ring, fence, fw_mapped>>

\* destroy_kernel_queue_cpsch: preempt every queue, static ones included,
\* then take the kernel queue out and rebuild the run-list.
destroy_kernel_queue_cpsch(p, k) ==
  /\ Callable /\ kq_owner[k] = p
  /\ UNCHANGED suspend
  /\ cur' = [op |-> "destroy_kq", p |-> p, q |-> k, t |-> "COMPUTE"]
  /\ preempt_all' = TRUE
  /\ pc' = "dq_begin"
  /\ UNCHANGED <<owner, props, mqd_live, kq_owner, kq_live, is_debug, registered,
                 queue_count, sdma_queue_count, total_queue_count, processes_count,
                 active_runlist, reset_wavefronts, rv, ret, ring, fence, fw_mapped>>

dkq_mid ==
  /\ pc = "dkq_mid"
  /\ UNCHANGED suspend
  /\ kq_owner' = [kq_owner EXCEPT ![cur.q] = NoProc]
  /\ queue_count' = queue_count - 1
  /\ is_debug' = [is_debug EXCEPT ![cur.p] = FALSE]
  /\ CallExecute
  /\ UNCHANGED <<owner, props, mqd_live, kq_live, registered, sdma_queue_count,
                 total_queue_count, processes_count, active_runlist,
                 reset_wavefronts, cur, rv, ret, ring, fence, fw_mapped>>

\* The caller frees the kernel queue (kernel_queue_uninit) once the call
\* has returned.
dkq_tail ==
  /\ pc = "dkq_tail"
  /\ UNCHANGED suspend
  /\ total_queue_count' = total_queue_count - 1
  /\ kq_live' = [kq_live EXCEPT ![cur.q] = FALSE]
  /\ UNCHANGED <<owner, props, mqd_live, kq_owner, is_debug, registered,
                 queue_count, sdma_queue_count, processes_count, active_runlist,
                 reset_wavefronts, cur, preempt_all, rv, ring, fence, fw_mapped>>
  /\ Finish("OK")

\* register_process_nocpsch (shared by both policies).
register_process(p) ==
  /\ Callable /\ p \notin registered
  /\ UNCHANGED suspend
  /\ registered' = registered \cup {p}
  /\ processes_count' = processes_count + 1
  /\ UNCHANGED <<owner, props, mqd_live, kq_owner, kq_live, is_debug,
                 queue_count, sdma_queue_count, total_queue_count,
                 active_runlist, reset_wavefronts, pc, cur, preempt_all, rv, ret,
                 ring, fence, fw_mapped>>

\* unregister_process_nocpsch, called once the process's queues are gone.
unregister_process(p) ==
  /\ Callable /\ p \in registered
  /\ UNCHANGED suspend
  /\ \A q \in Queues : owner[q] # p
  /\ \A k \in KQueues : kq_owner[k] # p
  /\ registered' = registered \ {p}
  /\ processes_count' = processes_count - 1
  /\ UNCHANGED <<owner, props, mqd_live, kq_owner, kq_live, is_debug,
                 queue_count, sdma_queue_count, total_queue_count,
                 active_runlist, reset_wavefronts, pc, cur, preempt_all, rv, ret,
                 ring, fence, fw_mapped>>

-----------------------------------------------------------------------------
(* stop_cpsch and start_cpsch (kgd2kfd_suspend / kgd2kfd_resume). Both     *)
(* walk dqm->queues without dqm->lock; a node that unregister_process      *)
(* unlinks ahead of the walk is skipped, one it stands on is freed under   *)
(* it. A process registered meanwhile is added at the head, behind it.     *)

Walking == {"stop_walk", "start_walk"}

\* stop_cpsch preempting the dynamic queues only.
stop_cpsch_dynamic ==
  /\ sp = "none" /\ pm_ready /\ pc = "idle"
  /\ cur' = [op |-> "stop", p |-> NoProc, q |-> NoProc, t |-> "COMPUTE"]
  /\ preempt_all' = FALSE
  /\ pc' = "dq_begin"
  /\ UNCHANGED <<owner, props, mqd_live, kq_owner, kq_live, is_debug, registered,
                 queue_count, sdma_queue_count, total_queue_count, processes_count,
                 active_runlist, reset_wavefronts, rv, ret, ring, fence, fw_mapped,
                 suspend>>

\* stop_cpsch: destroy_queues_cpsch(dqm, true, true) takes the lock and
\* preempts every queue, static ones included; its result is ignored.
stop_cpsch ==
  /\ sp = "none" /\ pm_ready /\ pc = "idle"
  /\ cur' = [op |-> "stop", p |-> NoProc, q |-> NoProc, t |-> "COMPUTE"]
  /\ preempt_all' = TRUE
  /\ pc' = "dq_begin"
  /\ UNCHANGED <<owner, props, mqd_live, kq_owner, kq_live, is_debug, registered,
                 queue_count, sdma_queue_count, total_queue_count, processes_count,
                 active_runlist, reset_wavefronts, rv, ret, ring, fence, fw_mapped,
                 suspend>>

\* The mutex_unlock at the end of destroy_queues_cpsch; the walk that
\* clears pdd->bound starts at the list head.
stop_out ==
  /\ pc = "stop_out"
  /\ pc' = "idle"
  /\ sp' = "stop_walk" /\ walk' = registered /\ walk_at' = NoProc
  /\ UNCHANGED <<owner, props, mqd_live, kq_owner, kq_live, is_debug, registered,
                 queue_count, sdma_queue_count, total_queue_count, processes_count,
                 active_runlist, reset_wavefronts, cur, preempt_all, rv, ret,
                 ring, fence, fw_mapped, pm_ready, bound>>

\* One iteration of list_for_each_entry: step to a node still linked ahead
\* and set its pdd->bound (false in stop_cpsch, kfd_bind_process_to_device
\* in start_cpsch).
visit_node ==
  /\ sp \in Walking
  /\ \E n \in walk \cap registered :
       /\ walk_at' = n
       /\ walk' = walk \ {n}
       /\ bound' = [bound EXCEPT ![n] = (sp = "start_walk")]
  /\ UNCHANGED <<driver, ring, fence, fw_mapped, pm_ready, sp>>

\* The end of stop_cpsch's walk: kfd_gtt_sa_free of the fence and
\* pm_uninit, which destroys the HIQ with whatever it still holds.
stop_end ==
  /\ sp = "stop_walk" /\ walk \cap registered = {}
  /\ pm_ready' = FALSE
  /\ ring' = <<>>
  /\ sp' = "none" /\ walk_at' = NoProc
  /\ UNCHANGED <<driver, fence, fw_mapped, walk, bound>>

\* set_sched_resources: the SET_RESOURCES packet announcing the VMIDs and
\* the first MEC's queues to the firmware (its masks are left out).
SetResources == [kind |-> "set_resources"]

\* start_cpsch: pm_init, set_sched_resources (a SET_RESOURCES packet on the
\* new HIQ), the fence allocation, then the walk binding every process. A
\* failure of any of the first three undoes what was done and returns with
\* the manager still stopped, the state it was called in.
start_cpsch ==
  /\ sp = "none" /\ ~pm_ready
  /\ pm_ready' = TRUE
  /\ ring' = <<SetResources>>
  /\ sp' = "start_walk" /\ walk' = registered /\ walk_at' = NoProc
  /\ UNCHANGED <<driver, fence, fw_mapped, bound>>

\* The end of start_cpsch's walk: execute_queues_cpsch(dqm, true) takes the
\* lock and submits the run-list; its result is ignored.
start_end ==
  /\ sp = "start_walk" /\ walk \cap registered = {} /\ pc = "idle"
  /\ cur' = [op |-> "start", p |-> NoProc, q |-> NoProc, t |-> "COMPUTE"]
  /\ CallExecute
  /\ sp' = "none" /\ walk_at' = NoProc
  /\ UNCHANGED <<owner, props, mqd_live, kq_owner, kq_live, is_debug, registered,
                 queue_count, sdma_queue_count, total_queue_count, processes_count,
                 active_runlist, reset_wavefronts, rv, ret, ring, fence, fw_mapped,
                 pm_ready, walk, bound>>

-----------------------------------------------------------------------------
(* The scheduler firmware: reads the HIQ ring in order                     *)

\* Queues an UNMAP_QUEUES packet takes off the hardware. Kernel queues are
\* static and only go with the ALL filter; SDMA queues are on engine 0
\* (the cpsch path leaves properties.sdma_engine_id at 0).
UnmappedBy(pkt) ==
  CASE pkt.engine = "COMPUTE" ->
         {q \in Queues : props[q].type = "COMPUTE"} \cup
         (IF pkt.filter = "ALL" THEN KQueues ELSE {})
    [] pkt.engine = "SDMA0" -> {q \in Queues : props[q].type = "SDMA"}
    [] OTHER -> {}

FwStep ==
  /\ ring # <<>>
  /\ ring' = Tail(ring)
  /\ UNCHANGED <<driver, suspend>>
  /\ \/ /\ Head(ring).kind = "runlist"
        /\ fw_mapped' = fw_mapped \cup Head(ring).queues
        /\ UNCHANGED fence
     \/ /\ Head(ring).kind = "unmap"
        /\ fw_mapped' = fw_mapped \ UnmappedBy(Head(ring))
        /\ UNCHANGED fence
     \/ /\ Head(ring).kind = "query"
        /\ fence' = "COMPLETED"
        /\ UNCHANGED fw_mapped
     \/ /\ Head(ring).kind = "set_resources"
        /\ UNCHANGED <<fence, fw_mapped>>

-----------------------------------------------------------------------------

\* initialize_cpsch and start_cpsch on an idle device: no run-list yet,
\* the firmware has read the SET_RESOURCES packet.
Init ==
  /\ owner = [q \in Queues |-> NoProc]
  /\ props = [q \in Queues |-> [type |-> "COMPUTE", is_active |-> FALSE]]
  /\ mqd_live = [q \in Queues |-> FALSE]
  /\ kq_owner = [k \in KQueues |-> NoProc]
  /\ kq_live = [k \in KQueues |-> FALSE]
  /\ is_debug = [p \in Procs |-> FALSE]
  /\ registered = {}
  /\ queue_count = 0 /\ sdma_queue_count = 0
  /\ total_queue_count = 0 /\ processes_count = 0
  /\ active_runlist = FALSE
  /\ reset_wavefronts = [p \in Procs |-> FALSE]
  /\ pc = "idle"
  /\ cur = [op |-> "create", p |-> NoProc, q |-> NoProc, t |-> "COMPUTE"]
  /\ preempt_all = FALSE
  /\ rv = "OK"
  /\ ret = [op |-> "create", q |-> NoProc, code |-> "OK"]
  /\ ring = <<>>
  /\ fence = "INIT"
  /\ fw_mapped = {}
  /\ pm_ready = TRUE
  /\ sp = "none" /\ walk = {} /\ walk_at = NoProc
  /\ bound = [p \in Procs |-> FALSE]

\* The queue types the callers create (a run may leave SDMA out).
CONSTANT UserQueueTypes

Driver ==
  \/ \E p \in Procs, q \in Queues, t \in UserQueueTypes, act \in BOOLEAN :
        create_queue_cpsch(p, q, t, act)
  \/ \E p \in Procs, q \in Queues : destroy_queue_cpsch(p, q)
  \/ \E q \in Queues, act \in BOOLEAN : update_queue(q, act)
  \/ \E p \in Procs, k \in KQueues : create_kernel_queue_cpsch(p, k)
  \/ \E p \in Procs, k \in KQueues : destroy_kernel_queue_cpsch(p, k)
  \/ \E p \in Procs : register_process(p)
  \/ \E p \in Procs : unregister_process(p)
  \/ dq_begin \/ dq_wait \/ ex_end
  \/ create_tail \/ destroy_tail \/ dkq_mid \/ dkq_tail

\* kgd2kfd_suspend and kgd2kfd_resume, serialised with each other.
Suspend == stop_cpsch \/ stop_out \/ visit_node \/ stop_end \/ start_cpsch \/ start_end

Next == Driver \/ Suspend \/ FwStep

Spec == Init /\ [][Next]_vars


-----------------------------------------------------------------------------
(* Properties                                                              *)

TypeOK ==
  /\ owner \in [Queues -> Procs \cup {NoProc}]
  /\ props \in [Queues -> [type : QTypes, is_active : BOOLEAN]]
  /\ mqd_live \in [Queues -> BOOLEAN]
  /\ kq_owner \in [KQueues -> Procs \cup {NoProc}]
  /\ kq_live \in [KQueues -> BOOLEAN]
  /\ is_debug \in [Procs -> BOOLEAN]
  /\ registered \subseteq Procs
  /\ {queue_count, total_queue_count, processes_count} \subseteq Nat
  /\ sdma_queue_count \in Int          \* negative: the unsigned counter wrapped
  /\ active_runlist \in BOOLEAN
  /\ reset_wavefronts \in [Procs -> BOOLEAN]
  /\ pc \in Labels
  /\ preempt_all \in BOOLEAN
  /\ rv \in Codes
  /\ ret \in [op : Ops, q : Queues \cup KQueues \cup {NoProc}, code : Codes]
  /\ ring \in Seq(Packets) /\ Len(ring) <= RingSize
  /\ fence \in {"INIT", "COMPLETED"}
  /\ fw_mapped \subseteq Queues \cup KQueues
  /\ pm_ready \in BOOLEAN
  /\ sp \in {"none"} \cup Walking
  /\ walk \subseteq Procs /\ walk_at \in Procs \cup {NoProc}
  /\ bound \in [Procs -> BOOLEAN]

\* Between operations, the counters that execute_queues_cpsch and the
\* max_num_of_queues_per_device check rely on agree with the lists:
\* queue_count with the active user and kernel queues, sdma_queue_count with
\* the SDMA queues, total_queue_count with all of them. The counters are
\* updated at different points of create/destroy (before and after
\* execute_queues_cpsch) and of the kernel-queue calls.
QueueCounters ==
  pc = "idle" =>
    /\ queue_count = Cardinality({q \in Created : props[q].is_active})
                     + Cardinality(KCreated)
    /\ sdma_queue_count = Cardinality({q \in Created : props[q].type = "SDMA"})
    /\ total_queue_count = Cardinality(Created) + Cardinality(KCreated)
    /\ total_queue_count <= MaxQueues

\* When the lock is free and the firmware has read every packet, the queues
\* it runs are exactly the run-list the driver believes is active: each
\* operation's preempt-then-resubmit leaves no stale mapping behind and
\* misses no active queue.
RunlistInSync ==
  pc = "idle" /\ ring = <<>> =>
    fw_mapped = IF active_runlist THEN RunlistQueues ELSE {}

\* The firmware never runs a queue whose MQD has been freed: uninit_mqd in
\* destroy_queue_cpsch and kernel_queue_uninit after
\* destroy_kernel_queue_cpsch come only after the queue was unmapped.
NoFreedMqdMapped ==
  /\ \A q \in fw_mapped \cap Queues : mqd_live[q]
  /\ \A k \in fw_mapped \cap KQueues : kq_live[k]

\* update_queue never rewrites the MQD of a queue the firmware is running:
\* update_mqd is called with the queue still mapped by the last run-list.
NoUpdateOfMappedMqd ==
  [][\A q \in Queues :
       (pc = "idle" /\ pc' = "dq_begin" /\ cur'.op = "update" /\ cur'.q = q)
          => q \notin fw_mapped]_vars

\* A create that reports an error leaves no queue behind (spec section 7:
\* an error return means no partial mutation).
FailedCreateNotListed ==
  pc = "idle" /\ ret.op = "create" /\ ret.code # "OK" => owner[ret.q] = NoProc

\* The fence the lock holder acts on answers its own query: when the wait in
\* destroy_queues_cpsch sees KFD_FENCE_COMPLETED, the firmware has read
\* every unmap packet the preemption sent. Every query writes the same
\* value, so a query left in the HIQ by an earlier timed-out wait can
\* complete the fence reset by the next preemption before its unmaps run.
FenceAnswersOwnQuery ==
  pc = "dq_wait" /\ fence = "COMPLETED" =>
    \A i \in 1 .. Len(ring) : ring[i].kind # "unmap"

\* Once stop_cpsch has returned, the firmware runs no queue: its preemption
\* of every queue, kernel queues included, completed before pm_uninit
\* destroyed the HIQ.
StoppedNothingMapped ==
  sp = "none" /\ ~pm_ready => fw_mapped = {}

\* A preemption that times out has a calling process whose device data
\* takes the reset flag: kfd_get_process(current) is a process registered
\* with the device.
TimeoutHasCaller ==
  [][dq_wait /\ rv' = "ETIME" => cur.p \in registered]_vars

\* Every call that takes dqm->lock returns, and every start and stop
\* finishes its walk: the fence wait ends, by the firmware's answer or by
\* its timeout, and nothing else in the bodies waits.
OperationsReturn ==
  (pc # "idle" \/ sp # "none") ~> (pc = "idle" /\ sp = "none")
=============================================================================
