---------------------------- MODULE MCDqmNoHws ----------------------------
(* Model-checking instance of DqmNoHws: two processes, three queues, three *)
(* pipes of two slots of which KFD gets pipe 0 slot 1 and pipe 2 slot 0     *)
(* (pipe 1 is disabled), one VMID, the CIK SDMA layout and a ceiling of     *)
(* three queues, so that every exhaustion path can be taken.                *)
EXTENDS DqmNoHws, TLC

MCQueueBitmap == {1, 4}

Symmetry == Permutations(Procs) \cup Permutations(Queues)

=============================================================================
