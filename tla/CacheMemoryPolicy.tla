-------------------------- MODULE CacheMemoryPolicy --------------------------
(***************************************************************************)
(* set_cache_memory_policy of kfd_device_queue_manager.c: the alternate    *)
(* aperture (APE1) of a process, given as a user base address and a size, *)
(* is checked and encoded into the two register fields qpd->sh_mem_ape1_*  *)
(* that the hardware decodes as                                           *)
(*   APE1_Base  = { 16{BASE[31]},  BASE[31:0],  0x0000 }                   *)
(*   APE1_Limit = { 16{LIMIT[31]}, LIMIT[31:0], 0xFFFF }                   *)
(* Under No-HWS the fields reach the hardware through                     *)
(* program_sh_mem_settings, here and when the process gets its VMID.      *)
(*                                                                         *)
(* The 64-bit address arithmetic is scaled down: Width address bits, Low   *)
(* fixed low bits (16 in the code), user-mode addresses below 2^UserBits   *)
(* (2^47), register fields of FieldWidth bits (32), so that the fields of  *)
(* a user-mode aperture have their top bit clear exactly as in the code.   *)
(* Every call is one atomic step: it runs under dqm->lock.                 *)
(***************************************************************************)
EXTENDS Integers, Bitwise

CONSTANTS
  Width,        \* bits of a uint64_t address
  Low,          \* the low bits fixed to 0000/FFFF (16)
  UserBits,     \* user-mode addresses are below 2^UserBits (2^47)
  Vmid,         \* the VMID allocate_vmid hands the process
  SchedPolicy   \* sched_policy: "HWS" or "NO_HWS"

ASSUME 0 < Low /\ Low < UserBits /\ UserBits < Width
ASSUME Vmid \in Nat \ {0} /\ SchedPolicy \in {"HWS", "NO_HWS"}

FieldWidth == UserBits - Low + 1          \* 32 = 47 - 16 + 1
Addrs == 0 .. 2^Width - 1                 \* uint64_t values

\* APE1_FIXED_BITS_MASK: the bits above the user-mode range and the low bits.
FixedBitsMask == (2^Width - 2^UserBits) + (2^Low - 1)
\* APE1_LIMIT_ALIGNMENT: the low bits of an inclusive, aligned limit.
LimitAlignment == 2^Low - 1

\* uint32_t sh_mem_ape1_* = value >> 16.
Field(x) == (x \div 2^Low) % 2^FieldWidth

\* The hardware's sign extension of a register field to an address.
SignExtend(f) == IF f >= 2^(FieldWidth - 1) THEN f + 2^(Width - Low) - 2^FieldWidth
                                           ELSE f

\* The addresses APE1 covers for register fields (b, l); none when b > l.
Aperture(b, l) == SignExtend(b) * 2^Low .. SignExtend(l) * 2^Low + LimitAlignment

-----------------------------------------------------------------------------
(* The reference: what a caller of set_cache_memory_policy may ask for.    *)

\* A size of 0 turns APE1 off; otherwise the aperture must start and end on
\* a 2^Low boundary and lie entirely in user-mode addresses.
Representable(base, size) ==
  \/ size = 0
  \/ /\ size > 0
     /\ base % 2^Low = 0 /\ size % 2^Low = 0
     /\ base + size <= 2^UserBits

Requested(base, size) == IF size = 0 THEN {} ELSE base .. base + size - 1

-----------------------------------------------------------------------------

VARIABLES
  ape1,       \* [base, limit]: qpd->sh_mem_ape1_base, qpd->sh_mem_ape1_limit
  vmid,       \* qpd->vmid (0: none)
  hw,         \* [base, limit] last programmed for the VMID by program_sh_mem_settings
  ret,        \* the last call's return value
  granted,    \* the aperture of the last request the reference accepts
  ref_ret     \* whether the reference accepts the last request

vars == <<ape1, vmid, hw, ret, granted, ref_ret>>

\* The reference's view of one call (auxiliary: not state of the code).
Reference(base, size) ==
  /\ ref_ret' = Representable(base, size)
  /\ granted' = IF Representable(base, size) THEN Requested(base, size) ELSE granted

\* A limit that wraps past the top of the address space is refused.
ApeRejectedNoWrapCheck(base, limit) ==
  \/ (base & FixedBitsMask) # 0
  \/ (limit & FixedBitsMask) # LimitAlignment

\* The three checks of a non-empty aperture, whose limit is computed
\* modulo 2^64.
ApeRejected(base, limit) ==
  \/ limit <= base
  \/ (base & FixedBitsMask) # 0
  \/ (limit & FixedBitsMask) # LimitAlignment

\* The registers left as they were.
ProgramShMemSkipped(a) == UNCHANGED hw

\* program_sh_mem_settings, under No-HWS for a process holding a VMID.
ProgramShMem(a) ==
  hw' = IF SchedPolicy = "NO_HWS" /\ vmid # 0 THEN a ELSE hw

\* set_cache_memory_policy(dqm, qpd, ..., base, size). The ASIC hook that
\* follows computes sh_mem_config from the cache policies and returns true.
set_cache_memory_policy(base, size) ==
  LET limit == (base + size - 1) % 2^Width
  IN
  /\ Reference(base, size)
  /\ UNCHANGED vmid
  /\ \/ /\ size = 0                               \* base > limit disables APE1
        /\ ape1' = [base |-> 1, limit |-> 0]
        /\ ProgramShMem(ape1')
        /\ ret' = TRUE
     \/ /\ size # 0
        /\ ApeRejected(base, limit)
        /\ ret' = FALSE
        /\ UNCHANGED <<ape1, hw>>
     \/ /\ size # 0
        /\ ~ApeRejected(base, limit)
        /\ ape1' = [base |-> Field(base), limit |-> Field(limit)]
        /\ ProgramShMem(ape1')
        /\ ret' = TRUE

\* allocate_vmid for the process's first queue under No-HWS: the VMID is
\* taken and program_sh_mem_settings writes the current fields.
allocate_vmid ==
  /\ SchedPolicy = "NO_HWS" /\ vmid = 0
  /\ vmid' = Vmid
  /\ hw' = ape1
  /\ UNCHANGED <<ape1, ret, granted, ref_ret>>

\* deallocate_vmid when the process's last queue goes.
deallocate_vmid ==
  /\ vmid # 0
  /\ vmid' = 0
  /\ UNCHANGED <<ape1, hw, ret, granted, ref_ret>>

\* A new qpd: zeroed by kzalloc, its APE1 fields zero as the ASIC
\* register_process hook leaves them; the reference starts from the
\* aperture those fields select.
Init ==
  /\ ape1 = [base |-> 0, limit |-> 0]
  /\ vmid = 0
  /\ hw = [base |-> 0, limit |-> 0]
  /\ ret = TRUE
  /\ granted = Aperture(0, 0)
  /\ ref_ret = TRUE

Next ==
  \/ \E base, size \in Addrs : set_cache_memory_policy(base, size)
  \/ allocate_vmid
  \/ deallocate_vmid

Spec == Init /\ [][Next]_vars

-----------------------------------------------------------------------------
(* Properties                                                              *)

\* set_cache_memory_policy accepts exactly the apertures that can be
\* represented, and the register fields it leaves decode to exactly the
\* aperture last granted: a refused call (wrapping limit, misaligned or
\* kernel-mode range) changes nothing, and an accepted one is encoded
\* without truncation or sign-extension error.
ApertureAsGranted ==
  /\ ret = ref_ret
  /\ Aperture(ape1.base, ape1.limit) = granted

\* Under No-HWS, while the process holds a VMID the hardware's APE1
\* registers for that VMID hold the qpd's current fields: a policy change
\* after the first queue is reprogrammed at once.
HardwareApertureCurrent ==
  SchedPolicy = "NO_HWS" /\ vmid # 0 => hw = ape1

=============================================================================
