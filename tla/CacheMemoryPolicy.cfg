\* 5-bit addresses, 1 fixed low bit, user mode below 8, 3-bit fields:
\* every base and size, so wrap-around, misalignment and kernel-mode
\* apertures all occur.
CONSTANTS
  Width = 5
  Low = 1
  UserBits = 3
  Vmid = 8
  SchedPolicy = "NO_HWS"
SPECIFICATION Spec
INVARIANTS ApertureAsGranted HardwareApertureCurrent
