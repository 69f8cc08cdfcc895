\* Two threads calling every refcount operation on a 2-bit counter.
CONSTANTS
  Threads = {t1, t2}
  Width = 2
  Ops <- MCOps
  InitCount = 1
SPECIFICATION Spec
PROPERTY Linearizable
