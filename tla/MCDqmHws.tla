------------------------------ MODULE MCDqmHws ------------------------------
(* DqmHws instantiated for TLC: two processes, a few user queues and one  *)
(* kernel queue.                                                           *)
EXTENDS DqmHws, TLC

Symmetry == Permutations(Procs) \cup Permutations(Queues)

\* Weak fairness of the lock holder, of the suspend/resume thread and of
\* the firmware: each keeps taking its next step once it can (the fence
\* wait is a bounded busy loop that yields with schedule()). Callers are
\* not required to call anything.
FairSpec == Spec /\ WF_vars(dq_begin \/ dq_wait \/ ex_end \/ create_tail \/
                            destroy_tail \/ dkq_mid \/ dkq_tail \/ stop_out)
                 /\ WF_vars(visit_node \/ stop_end \/ start_end)
                 /\ WF_vars(FwStep)
=============================================================================
