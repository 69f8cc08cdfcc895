------------------------------ MODULE DqmNoHws ------------------------------
(***************************************************************************)
(* The device queue manager of amdkfd under the "no hardware scheduler"   *)
(* policy (the *_nocpsch operation table of kfd_device_queue_manager.c). *)
(*                                                                         *)
(* Every operation takes dqm->lock for its whole body, so each is one     *)
(* atomic action; concurrent callers only choose the order of actions.    *)
(* Modelled: the three slot allocators (VMIDs, HQD slots with the         *)
(* round-robin pipe cursor, SDMA ids), the process registry, the queue    *)
(* lists and counters, and the hardware state the operations program:     *)
(* which MQD is loaded on which HQD or SDMA queue and the PASID->VMID     *)
(* mapping. The MQD manager is an external collaborator whose calls may   *)
(* fail; each failure path of the code is a disjunct.                     *)
(***************************************************************************)
EXTENDS Integers, FiniteSets, FiniteSetsExt, Bags

CONSTANTS
  Procs,            \* qcm_process_device objects (one per process on this device)
  Queues,           \* struct queue objects the callers may create
  NoProc, NoQueue,  \* "no owner" / "nothing loaded"
  NumPipes,         \* shared_resources.num_pipe_per_mec
  QueuesPerPipe,    \* shared_resources.num_queue_per_pipe
  QueueBitmap,      \* shared_resources.queue_bitmap: HQD bits given to KFD
  VmidNum,          \* VMID_PER_DEVICE
  VmidStart,        \* KFD_VMID_START_OFFSET
  SdmaQueues,       \* CIK_SDMA_QUEUES
  SdmaQueuesPerEngine, \* CIK_SDMA_QUEUES_PER_ENGINE
  SdmaEngineNum,    \* CIK_SDMA_ENGINE_NUM
  MaxQueues,        \* max_num_of_queues_per_device
  MaxDestroyMqdFailures \* bound on failed mqd->destroy_mqd calls (0: never fails)

ASSUME NoProc \notin Procs /\ NoQueue \notin Queues
ASSUME NumPipes \in Nat \ {0} /\ QueuesPerPipe \in Nat \ {0}
ASSUME QueueBitmap \subseteq 0 .. NumPipes * QueuesPerPipe - 1
ASSUME VmidNum \in Nat \ {0} /\ VmidStart \in Nat \ {0}
ASSUME SdmaQueues \in Nat \ {0} /\ MaxQueues \in Nat /\ MaxDestroyMqdFailures \in Nat

Pipes    == 0 .. NumPipes - 1
Hqds     == Pipes \X (0 .. QueuesPerPipe - 1)
VmidBits == 0 .. VmidNum - 1
Vmids    == {b + VmidStart : b \in VmidBits}
SdmaIds  == 0 .. SdmaQueues - 1
QTypes   == {"COMPUTE", "SDMA"}
MqdTypes == {"COMPUTE", "CP", "SDMA"}   \* KFD_MQD_TYPE_* used by this file
None     == -1                          \* an unassigned pipe, queue or sdma_id

\* The SDMA engine queue a sdma_id is loaded on (create_sdma_queue_nocpsch).
SdmaEngineQueue(id) == <<id \div SdmaEngineNum, id % SdmaQueuesPerEngine>>
SdmaRlcs == {SdmaEngineQueue(id) : id \in SdmaIds}

VARIABLES
  vmid_bitmap,           \* free VMID bits
  allocated_queues,      \* allocated_queues[pipe]: free HQD slots of the pipe
  sdma_bitmap,           \* free SDMA queue ids
  next_pipe_to_allocate, \* round-robin cursor of allocate_hqd
  queue_count, sdma_queue_count, total_queue_count, processes_count, \* unsigned
                         \* int in the code: a negative sdma_queue_count stands
                         \* for its 2^32 wrap-around
  dqm_queues,            \* dqm->queues: bag of registered qpds
  mqds,                  \* dqm->mqds[]: MQD managers created so far
  qpd_vmid,              \* qpd->vmid (0: none)
  owner,                 \* the qpd whose queues_list holds q, NoProc if none
  props,                 \* q->properties and the slot fields of struct queue
  hqd,                   \* hardware: the queue whose MQD is loaded on an HQD
  sdma_rlc,              \* hardware: the queue loaded on an SDMA engine queue
  pasid_vmid,            \* hardware: the process a VMID is mapped to
  destroy_failures,      \* failed destroy_mqd calls so far (bounded)
  ret                    \* [op, code] returned by the last operation

vars == <<vmid_bitmap, allocated_queues, sdma_bitmap, next_pipe_to_allocate,
          queue_count, sdma_queue_count, total_queue_count, processes_count,
          dqm_queues, mqds, qpd_vmid, owner, props, hqd, sdma_rlc, pasid_vmid,
          destroy_failures, ret>>

NoProps == [type |-> "COMPUTE", is_active |-> FALSE,
            pipe |-> None, queue |-> None, sdma_id |-> None]
Props == [type : QTypes, is_active : BOOLEAN, pipe : Pipes \cup {None},
          queue : (0 .. QueuesPerPipe - 1) \cup {None}, sdma_id : SdmaIds \cup {None}]
Codes == {"OK", "EPERM", "ENOMEM", "EBUSY", "EMQD", "NOTFOUND"}

QueuesOf(p) == {q \in Queues : owner[q] = p}
Created     == {q \in Queues : owner[q] # NoProc}

Return(op, code) == ret' = [op |-> op, code |-> code]

-----------------------------------------------------------------------------
(* Slot allocators                                                         *)

\* is_pipe_enabled(dqm, 0, pipe): some HQD bit of the pipe belongs to KFD.
is_pipe_enabled(pipe) ==
  \E i \in 0 .. QueuesPerPipe - 1 : pipe * QueuesPerPipe + i \in QueueBitmap

\* The pipe allocate_hqd takes: the first enabled pipe with a free slot,
\* scanning from next_pipe_to_allocate and wrapping; None when there is none.
allocate_hqd_pipe ==
  LET tries == {i \in 0 .. NumPipes - 1 :
                  LET pipe == (next_pipe_to_allocate + i) % NumPipes
                  IN is_pipe_enabled(pipe) /\ allocated_queues[pipe] # {}}
  IN IF tries = {} THEN None
     ELSE (next_pipe_to_allocate + Min(tries)) % NumPipes

\* deallocate_hqd: the slot goes back to its pipe's free set.
deallocate_hqd_leaked(aq, h) == aq

deallocate_hqd(aq, h) == [aq EXCEPT ![h[1]] = @ \cup {h[2]}]

\* deallocate_sdma_queue: the id goes back to the free set; an id out of
\* range is ignored.
deallocate_sdma_queue_leaked(bm, id) == bm

deallocate_sdma_queue(bm, id) == IF id >= SdmaQueues THEN bm ELSE bm \cup {id}

\* The VMID bookkeeping: vmid_bitmap, qpd->vmid and the PASID->VMID mapping.
VmidState == [bitmap |-> vmid_bitmap, qpd |-> qpd_vmid, pasid |-> pasid_vmid]

SetVmid(s) == vmid_bitmap' = s.bitmap /\ qpd_vmid' = s.qpd /\ pasid_vmid' = s.pasid

\* allocate_vmid on a non-empty bitmap: the lowest free bit, offset by
\* KFD_VMID_START_OFFSET, and set_pasid_vmid_mapping of the process to it.
allocate_vmid(s, p) ==
  LET bit == Min(s.bitmap) IN
  [bitmap |-> s.bitmap \ {bit},
   qpd    |-> [s.qpd EXCEPT ![p] = bit + VmidStart],
   pasid  |-> [s.pasid EXCEPT ![bit + VmidStart] = p]]

\* deallocate_vmid: unmaps the VMID, sets its bit again, qpd->vmid = 0.
deallocate_vmid(s, p) ==
  [bitmap |-> s.bitmap \cup {s.qpd[p] - VmidStart},
   qpd    |-> [s.qpd EXCEPT ![p] = 0],
   pasid  |-> [s.pasid EXCEPT ![s.qpd[p]] = NoProc]]

\* The error path of create_queue_nocpsch without its deallocate_vmid.
rollback_vmid_skipped(s, p) == s

\* The error path of create_queue_nocpsch: deallocate_vmid when the
\* process's queue list is still empty.
rollback_vmid(s, p) == IF QueuesOf(p) = {} THEN deallocate_vmid(s, p) ELSE s

\* get_mqd_manager_nocpsch: a cached manager, or a new one (mqd_manager_init
\* may fail, and then nothing is cached).
get_mqd_manager(t, ok) ==
  IF t \in mqds THEN ok /\ UNCHANGED mqds
  ELSE \/ ok /\ mqds' = mqds \cup {t}
       \/ ~ok /\ UNCHANGED mqds

-----------------------------------------------------------------------------
(* create_queue_nocpsch and the per-type helpers                           *)

\* create_compute_queue_nocpsch: returns its code in ret'. On an error path
\* the code leaves q->pipe/q->queue (q->sdma_id in the SDMA helper) set on
\* a queue that is not listed; nothing reads them before the next create
\* of that queue overwrites them, so props keeps only listed queues' slots.
create_compute_queue_nocpsch(q, act) ==
  /\ UNCHANGED <<sdma_bitmap, sdma_rlc>>
  /\ \/ /\ get_mqd_manager("COMPUTE", FALSE)
        /\ Return("create", "ENOMEM")
        /\ UNCHANGED <<allocated_queues, next_pipe_to_allocate, hqd, props>>
     \/ /\ get_mqd_manager("COMPUTE", TRUE)
        /\ LET pipe == allocate_hqd_pipe
               slot == Min(allocated_queues[pipe])
           IN
           \/ /\ pipe = None                      \* allocate_hqd: -EBUSY
              /\ Return("create", "EBUSY")
              /\ UNCHANGED <<allocated_queues, next_pipe_to_allocate, hqd, props>>
           \/ /\ pipe # None
              /\ next_pipe_to_allocate' = (pipe + 1) % NumPipes
              /\ LET taken == [allocated_queues EXCEPT ![pipe] = @ \ {slot}] IN
                 \/ /\ Return("create", "EMQD")   \* init_mqd or load_mqd failed
                    /\ allocated_queues' = deallocate_hqd(taken, <<pipe, slot>>)
                    /\ UNCHANGED <<hqd, props>>
                 \/ /\ Return("create", "OK")
                    /\ allocated_queues' = taken
                    /\ hqd' = [hqd EXCEPT ![<<pipe, slot>>] = q]
                    /\ props' = [props EXCEPT ![q] = [NoProps EXCEPT
                                   !.is_active = act, !.pipe = pipe, !.queue = slot]]

\* create_sdma_queue_nocpsch: returns its code in ret'.
create_sdma_queue_nocpsch(q, act) ==
  /\ UNCHANGED <<allocated_queues, next_pipe_to_allocate, hqd>>
  /\ \/ /\ get_mqd_manager("SDMA", FALSE)
        /\ Return("create", "ENOMEM")
        /\ UNCHANGED <<sdma_bitmap, sdma_rlc, props>>
     \/ /\ get_mqd_manager("SDMA", TRUE)
        /\ \/ /\ sdma_bitmap = {}                 \* allocate_sdma_queue: -ENOMEM
              /\ Return("create", "ENOMEM")
              /\ UNCHANGED <<sdma_bitmap, sdma_rlc, props>>
           \/ /\ sdma_bitmap # {}
              /\ LET id    == Min(sdma_bitmap)
                     taken == sdma_bitmap \ {id}
                 IN
                 \/ /\ Return("create", "EMQD")   \* init_mqd or load_mqd failed
                    /\ sdma_bitmap' = deallocate_sdma_queue(taken, id)
                    /\ UNCHANGED <<sdma_rlc, props>>
                 \/ /\ Return("create", "OK")
                    /\ sdma_bitmap' = taken
                    /\ sdma_rlc' = [sdma_rlc EXCEPT ![SdmaEngineQueue(id)] = q]
                    /\ props' = [props EXCEPT ![q] = [NoProps EXCEPT
                                   !.type = "SDMA", !.is_active = act, !.sdma_id = id]]

\* create_queue_nocpsch(dqm, q, qpd): the caller (the process queue manager)
\* passes a new queue of a registered process.
create_queue_nocpsch(p, q, t, act) ==
  LET first == QueuesOf(p) = {}
      vm    == IF first THEN allocate_vmid(VmidState, p) ELSE VmidState
  IN
  /\ owner[q] = NoProc
  /\ BagIn(p, dqm_queues)
  /\ UNCHANGED <<processes_count, dqm_queues, destroy_failures>>
  /\ \/ /\ total_queue_count >= MaxQueues
        /\ Return("create", "EPERM")
        /\ UNCHANGED <<vmid_bitmap, allocated_queues, sdma_bitmap, next_pipe_to_allocate,
                       queue_count, sdma_queue_count, total_queue_count, mqds,
                       qpd_vmid, owner, props, hqd, sdma_rlc, pasid_vmid>>
     \/ /\ total_queue_count < MaxQueues
        /\ first /\ vmid_bitmap = {}             \* allocate_vmid: -ENOMEM
        /\ Return("create", "ENOMEM")
        /\ UNCHANGED <<vmid_bitmap, allocated_queues, sdma_bitmap, next_pipe_to_allocate,
                       queue_count, sdma_queue_count, total_queue_count, mqds,
                       qpd_vmid, owner, props, hqd, sdma_rlc, pasid_vmid>>
     \/ /\ total_queue_count < MaxQueues
        /\ ~first \/ vmid_bitmap # {}
        /\ IF t = "COMPUTE" THEN create_compute_queue_nocpsch(q, act)
                            ELSE create_sdma_queue_nocpsch(q, act)
        /\ IF ret'.code = "OK"
           THEN /\ SetVmid(vm)
                /\ owner' = [owner EXCEPT ![q] = p]
                /\ queue_count' = IF act THEN queue_count + 1 ELSE queue_count
                /\ sdma_queue_count' = IF t = "SDMA" THEN sdma_queue_count + 1
                                                     ELSE sdma_queue_count
                /\ total_queue_count' = total_queue_count + 1
           ELSE /\ SetVmid(rollback_vmid(vm, p))
                /\ UNCHANGED <<owner, queue_count, sdma_queue_count, total_queue_count>>

-----------------------------------------------------------------------------
(* destroy_queue_nocpsch                                                   *)

\* deallocate_vmid when the queue list of p has become empty.
release_vmid_if_last_unshifted(p, q) ==
  IF QueuesOf(p) = {q}
  THEN /\ vmid_bitmap' = vmid_bitmap \cup {qpd_vmid[p]}
       /\ pasid_vmid' = [pasid_vmid EXCEPT ![qpd_vmid[p]] = NoProc]
       /\ qpd_vmid' = [qpd_vmid EXCEPT ![p] = 0]
  ELSE UNCHANGED <<vmid_bitmap, pasid_vmid, qpd_vmid>>

release_vmid_if_last_kept(p, q) ==
  IF QueuesOf(p) = {q}
  THEN /\ vmid_bitmap' = vmid_bitmap \cup {qpd_vmid[p] - VmidStart}
       /\ pasid_vmid' = [pasid_vmid EXCEPT ![qpd_vmid[p]] = NoProc]
       /\ UNCHANGED qpd_vmid
  ELSE UNCHANGED <<vmid_bitmap, pasid_vmid, qpd_vmid>>

release_vmid_if_last(p, q) ==
  IF QueuesOf(p) = {q}
  THEN SetVmid(deallocate_vmid(VmidState, p))
  ELSE UNCHANGED <<vmid_bitmap, pasid_vmid, qpd_vmid>>

\* The slot is released and the SDMA count dropped before destroy_mqd is
\* called; when destroy_mqd fails the queue stays listed and loaded.
destroy_queue_nocpsch(p, q) ==
  LET h  == <<props[q].pipe, props[q].queue>>
      id == props[q].sdma_id
  IN
  /\ owner[q] = p
  /\ UNCHANGED <<next_pipe_to_allocate, processes_count, dqm_queues, mqds, props>>
  /\ IF props[q].type = "COMPUTE"
     THEN /\ allocated_queues' = deallocate_hqd(allocated_queues, h)
          /\ UNCHANGED <<sdma_bitmap, sdma_queue_count>>
     ELSE /\ sdma_queue_count' = sdma_queue_count - 1
          /\ sdma_bitmap' = deallocate_sdma_queue(sdma_bitmap, id)
          /\ UNCHANGED allocated_queues
  /\ \/ /\ destroy_failures < MaxDestroyMqdFailures   \* destroy_mqd failed
        /\ destroy_failures' = destroy_failures + 1
        /\ Return("destroy", "EMQD")
        /\ UNCHANGED <<vmid_bitmap, queue_count, total_queue_count, qpd_vmid,
                       owner, hqd, sdma_rlc, pasid_vmid>>
     \/ /\ Return("destroy", "OK")
        /\ UNCHANGED destroy_failures
        /\ IF props[q].type = "COMPUTE"
           THEN hqd' = [hqd EXCEPT ![h] = NoQueue] /\ UNCHANGED sdma_rlc
           ELSE sdma_rlc' = [sdma_rlc EXCEPT ![SdmaEngineQueue(id)] = NoQueue]
                /\ UNCHANGED hqd
        /\ owner' = [owner EXCEPT ![q] = NoProc]
        /\ release_vmid_if_last(p, q)
        /\ queue_count' = IF props[q].is_active THEN queue_count - 1 ELSE queue_count
        /\ total_queue_count' = total_queue_count - 1

-----------------------------------------------------------------------------
(* update_queue, register/unregister                                        *)

\* update_queue with the active-count bookkeeping left out.
update_queue_uncounted(q, act) ==
  LET mt == IF props[q].type = "SDMA" THEN "SDMA" ELSE "CP"
  IN
  /\ owner[q] # NoProc
  /\ UNCHANGED <<vmid_bitmap, allocated_queues, sdma_bitmap, next_pipe_to_allocate,
                 sdma_queue_count, total_queue_count, processes_count, dqm_queues,
                 qpd_vmid, owner, hqd, sdma_rlc, pasid_vmid, destroy_failures>>
  /\ \/ /\ get_mqd_manager(mt, FALSE)
        /\ Return("update", "ENOMEM")
        /\ UNCHANGED <<queue_count, props>>
     \/ /\ get_mqd_manager(mt, TRUE)
        /\ Return("update", "OK")
        /\ props' = [props EXCEPT ![q].is_active = act]
        /\ UNCHANGED queue_count

\* update_queue: update_mqd recomputes is_active from the new properties
\* (act); the active-queue count follows the change. No-HWS never executes
\* a run-list.
update_queue(q, act) ==
  LET mt == IF props[q].type = "SDMA" THEN "SDMA" ELSE "CP"
  IN
  /\ owner[q] # NoProc
  /\ UNCHANGED <<vmid_bitmap, allocated_queues, sdma_bitmap, next_pipe_to_allocate,
                 sdma_queue_count, total_queue_count, processes_count, dqm_queues,
                 qpd_vmid, owner, hqd, sdma_rlc, pasid_vmid, destroy_failures>>
  /\ \/ /\ get_mqd_manager(mt, FALSE)
        /\ Return("update", "ENOMEM")
        /\ UNCHANGED <<queue_count, props>>
     \/ /\ get_mqd_manager(mt, TRUE)
        /\ Return("update", "OK")
        /\ props' = [props EXCEPT ![q].is_active = act]
        /\ queue_count' = CASE act /\ ~props[q].is_active -> queue_count + 1
                            [] ~act /\ props[q].is_active -> queue_count - 1
                            [] OTHER -> queue_count

\* register_process_nocpsch: the caller registers a qpd once.
register_process_nocpsch(p) ==
  /\ ~BagIn(p, dqm_queues)
  /\ dqm_queues' = dqm_queues (+) SetToBag({p})
  /\ processes_count' = processes_count + 1
  /\ Return("register", "OK")
  /\ UNCHANGED <<vmid_bitmap, allocated_queues, sdma_bitmap, next_pipe_to_allocate,
                 queue_count, sdma_queue_count, total_queue_count, mqds, qpd_vmid,
                 owner, props, hqd, sdma_rlc, pasid_vmid, destroy_failures>>

\* unregister_process_nocpsch: removes the qpd's node, or returns 1.
unregister_process_nocpsch(p) ==
  /\ \/ /\ BagIn(p, dqm_queues)
        /\ dqm_queues' = dqm_queues (-) SetToBag({p})
        /\ processes_count' = processes_count - 1
        /\ Return("unregister", "OK")
     \/ /\ ~BagIn(p, dqm_queues)
        /\ Return("unregister", "NOTFOUND")
        /\ UNCHANGED <<dqm_queues, processes_count>>
  /\ UNCHANGED <<vmid_bitmap, allocated_queues, sdma_bitmap, next_pipe_to_allocate,
                 queue_count, sdma_queue_count, total_queue_count, mqds, qpd_vmid,
                 owner, props, hqd, sdma_rlc, pasid_vmid, destroy_failures>>

-----------------------------------------------------------------------------

\* initialize_nocpsch on a zeroed dqm.
Init ==
  /\ vmid_bitmap = VmidBits
  /\ allocated_queues = [pipe \in Pipes |->
                           {i \in 0 .. QueuesPerPipe - 1 : pipe * QueuesPerPipe + i \in QueueBitmap}]
  /\ sdma_bitmap = SdmaIds
  /\ next_pipe_to_allocate = 0
  /\ queue_count = 0 /\ sdma_queue_count = 0
  /\ total_queue_count = 0 /\ processes_count = 0
  /\ dqm_queues = EmptyBag
  /\ mqds = {}
  /\ qpd_vmid = [p \in Procs |-> 0]
  /\ owner = [q \in Queues |-> NoProc]
  /\ props = [q \in Queues |-> NoProps]
  /\ hqd = [h \in Hqds |-> NoQueue]
  /\ sdma_rlc = [r \in SdmaRlcs |-> NoQueue]
  /\ pasid_vmid = [v \in Vmids |-> NoProc]
  /\ destroy_failures = 0
  /\ ret = [op |-> "init", code |-> "OK"]

Next ==
  \/ \E p \in Procs, q \in Queues, t \in QTypes, act \in BOOLEAN :
        create_queue_nocpsch(p, q, t, act)
  \/ \E p \in Procs, q \in Queues : destroy_queue_nocpsch(p, q)
  \/ \E q \in Queues, act \in BOOLEAN : update_queue(q, act)
  \/ \E p \in Procs : register_process_nocpsch(p)
  \/ \E p \in Procs : unregister_process_nocpsch(p)

Spec == Init /\ [][Next]_vars

-----------------------------------------------------------------------------
(* Properties                                                              *)

TypeOK ==
  /\ vmid_bitmap \subseteq VmidBits
  /\ allocated_queues \in [Pipes -> SUBSET (0 .. QueuesPerPipe - 1)]
  /\ sdma_bitmap \subseteq SdmaIds
  /\ next_pipe_to_allocate \in Pipes
  /\ {queue_count, total_queue_count, processes_count} \subseteq Nat
  /\ sdma_queue_count \in Int
  /\ mqds \subseteq MqdTypes
  /\ qpd_vmid \in [Procs -> Vmids \cup {0}]
  /\ owner \in [Queues -> Procs \cup {NoProc}]
  /\ props \in [Queues -> Props]
  /\ hqd \in [Hqds -> Queues \cup {NoQueue}]
  /\ sdma_rlc \in [SdmaRlcs -> Queues \cup {NoQueue}]
  /\ pasid_vmid \in [Vmids -> Procs \cup {NoProc}]
  /\ ret.code \in Codes

\* The device-wide counters agree with the queue lists after any sequence of
\* create/update/destroy calls and their failures: total_queue_count is the
\* number of listed queues and never passes the ceiling, queue_count the
\* number of listed active queues (create_queue_nocpsch, destroy_queue_nocpsch,
\* update_queue).
QueueCounters ==
  /\ total_queue_count = Cardinality(Created)
  /\ total_queue_count <= MaxQueues
  /\ queue_count = Cardinality({q \in Created : props[q].is_active})

\* VMIDs are conserved and exclusive: a qpd holds a VMID exactly while its
\* queue list is non-empty, no two qpds hold the same one, a held VMID is
\* not in vmid_bitmap, every free one is, and the ATC maps a VMID to a
\* process exactly when that process's qpd holds it (allocate_vmid,
\* deallocate_vmid, the rollback of create_queue_nocpsch).
VmidConservation ==
  /\ \A p \in Procs : (qpd_vmid[p] # 0) <=> (QueuesOf(p) # {})
  /\ \A p1, p2 \in Procs : p1 # p2 /\ qpd_vmid[p1] # 0 => qpd_vmid[p1] # qpd_vmid[p2]
  /\ \A b \in VmidBits :
        (b \in vmid_bitmap) <=> (\A p \in Procs : qpd_vmid[p] # b + VmidStart)
  /\ \A v \in Vmids :
        pasid_vmid[v] = IF \E p \in Procs : qpd_vmid[p] = v
                        THEN CHOOSE p \in Procs : qpd_vmid[p] = v ELSE NoProc

\* The listed compute queues holding an HQD slot.
HqdHolders(h) ==
  {q \in Created : props[q].type = "COMPUTE" /\ <<props[q].pipe, props[q].queue>> = h}

\* The HQD slots shared_resources.queue_bitmap gives to KFD.
KfdHqds == {h \in Hqds : h[1] * QueuesPerPipe + h[2] \in QueueBitmap}

\* Every HQD slot given to KFD is free in allocated_queues exactly when no
\* listed queue holds it, at most one listed queue holds it, and the MQD
\* loaded on the HQD is that queue's (allocate_hqd, deallocate_hqd,
\* load_mqd, destroy_queue_nocpsch). A slot freed while its queue is still
\* loaded would be handed to a second queue whose load clobbers the first.
HqdConservation ==
  \A h \in Hqds :
     /\ h \notin KfdHqds => h[2] \notin allocated_queues[h[1]] /\ HqdHolders(h) = {}
     /\ h \in KfdHqds => ((h[2] \in allocated_queues[h[1]]) <=> (HqdHolders(h) = {}))
     /\ Cardinality(HqdHolders(h)) <= 1
     /\ hqd[h] = IF HqdHolders(h) = {} THEN NoQueue ELSE CHOOSE q \in HqdHolders(h) : TRUE

\* The same for SDMA queue ids, the engine queue each is loaded on, and
\* sdma_queue_count (allocate_sdma_queue, deallocate_sdma_queue, the
\* engine/queue split of create_sdma_queue_nocpsch).
SdmaHolders(id) == {q \in Created : props[q].type = "SDMA" /\ props[q].sdma_id = id}

SdmaConservation ==
  /\ sdma_queue_count = Cardinality({q \in Created : props[q].type = "SDMA"})
  /\ \A id \in SdmaIds :
       /\ (id \in sdma_bitmap) <=> (SdmaHolders(id) = {})
       /\ Cardinality(SdmaHolders(id)) <= 1
  /\ \A r \in SdmaRlcs :
       LET hs == UNION {SdmaHolders(id) : id \in {i \in SdmaIds : SdmaEngineQueue(i) = r}}
       IN sdma_rlc[r] = IF hs = {} THEN NoQueue ELSE CHOOSE q \in hs : TRUE

\* Every listed queue is still the one whose MQD is loaded where it was put:
\* no later create_queue_nocpsch loaded another queue over it. This is what
\* a slot handed out twice costs on the hardware.
ListedQueuesLoaded ==
  \A q \in Created :
     IF props[q].type = "COMPUTE"
     THEN hqd[<<props[q].pipe, props[q].queue>>] = q
     ELSE sdma_rlc[SdmaEngineQueue(props[q].sdma_id)] = q

\* A create that fails (queue ceiling, VMID, HQD or SDMA exhaustion, MQD
\* manager failure) leaves every bitmap, list, counter and hardware slot as
\* it was: create_queue_nocpsch and its helpers roll back whatever they took.
FailedCreateLeavesNoTrace ==
  [][ret'.op = "create" /\ ret'.code # "OK" =>
       UNCHANGED <<vmid_bitmap, allocated_queues, sdma_bitmap, queue_count,
                   sdma_queue_count, total_queue_count, qpd_vmid, owner, hqd,
                   sdma_rlc, pasid_vmid>>]_vars

=============================================================================
