------------------------------ MODULE Refcount ------------------------------
(***************************************************************************)
(* The refcount_t primitive of linuxkpi (gplv2/include/linux/refcount.h)  *)
(* called concurrently by several threads. atomic_read, atomic_inc,       *)
(* atomic_dec, atomic_dec_and_test and atomic_cmpxchg are atomic steps;   *)
(* refcount_inc_not_zero and refcount_dec_not_one are compare-and-swap    *)
(* loops whose local tests are merged with the next shared access. The    *)
(* counter is an unsigned int of Width bits: arithmetic wraps mod 2^Width. *)
(***************************************************************************)
EXTENDS Naturals

CONSTANTS
  Threads,     \* callers
  Width,       \* bits of the counter (32 in the code)
  Ops,         \* the calls the threads make
  InitCount    \* the count of the object when the threads start

ASSUME Width \in Nat \ {0} /\ InitCount \in 0 .. 2 ^ Width - 1
ASSUME Ops \subseteq {"inc_not_zero", "dec_not_one", "dec_and_test", "inc", "dec"}

M    == 2 ^ Width
UMax == M - 1

VARIABLES
  r,     \* the atomic_t
  pc,    \* "idle", "read" (before atomic_read), "loop" (in the cmpxchg loop), "atomic"
  op,    \* the call a thread is in (or last made)
  val,   \* the local val of the loop
  ret    \* what the last call returned

vars == <<r, pc, op, val, ret>>

Init == /\ r = InitCount
        /\ pc = [t \in Threads |-> "idle"]
        /\ op = [t \in Threads |-> "inc"]
        /\ val = [t \in Threads |-> 0]
        /\ ret = [t \in Threads |-> FALSE]

Return(t, b) == /\ ret' = [ret EXCEPT ![t] = b]
                /\ pc' = [pc EXCEPT ![t] = "idle"]

\* A thread enters one of the calls.
Call(t, o) ==
  /\ pc[t] = "idle"
  /\ op' = [op EXCEPT ![t] = o]
  /\ pc' = [pc EXCEPT ![t] = IF o \in {"inc_not_zero", "dec_not_one"} THEN "read"
                                                                     ELSE "atomic"]
  /\ UNCHANGED <<r, val, ret>>

\* val = atomic_read(r) at the top of both loops.
ReadVal(t) ==
  /\ pc[t] = "read"
  /\ val' = [val EXCEPT ![t] = r]
  /\ pc' = [pc EXCEPT ![t] = "loop"]
  /\ UNCHANGED <<r, op, ret>>

\* A plain store of new in place of the compare-and-swap.
StoreNew(t, new) == /\ r' = new
                    /\ Return(t, TRUE)
                    /\ UNCHANGED val

\* old = atomic_cmpxchg(r, val, new): on success the loop is left; on
\* failure val = old and the loop goes round again.
Cmpxchg(t, new) ==
  \/ /\ r = val[t]
     /\ r' = new
     /\ Return(t, TRUE)
     /\ UNCHANGED val
  \/ /\ r # val[t]
     /\ val' = [val EXCEPT ![t] = r]
     /\ UNCHANGED <<r, pc, ret>>

\* One round of the loop of refcount_inc_not_zero.
refcount_inc_not_zero(t) ==
  LET v == val[t]
      new == (v + 1) % M
  IN
  /\ pc[t] = "loop" /\ op[t] = "inc_not_zero"
  /\ UNCHANGED op
  /\ \/ /\ v = 0
        /\ Return(t, FALSE) /\ UNCHANGED <<r, val>>
     \/ /\ v # 0 /\ new = 0                       \* saturated: no write
        /\ Return(t, TRUE) /\ UNCHANGED <<r, val>>
     \/ /\ v # 0 /\ new # 0
        /\ Cmpxchg(t, new)

\* One round of the loop of refcount_dec_not_one.
refcount_dec_not_one(t) ==
  LET v == val[t]
      new == (v + UMax) % M
  IN
  /\ pc[t] = "loop" /\ op[t] = "dec_not_one"
  /\ UNCHANGED op
  /\ \/ /\ v = UMax                               \* saturated
        /\ Return(t, TRUE) /\ UNCHANGED <<r, val>>
     \/ /\ v = 1
        /\ Return(t, FALSE) /\ UNCHANGED <<r, val>>
     \/ /\ v \notin {1, UMax} /\ new > v          \* underflow: WARN, no write
        /\ Return(t, TRUE) /\ UNCHANGED <<r, val>>
     \/ /\ v \notin {1, UMax} /\ new <= v
        /\ Cmpxchg(t, new)

\* refcount_dec_and_test, refcount_inc, refcount_dec: one atomic operation.
AtomicOp(t) ==
  /\ pc[t] = "atomic"
  /\ r' = IF op[t] = "inc" THEN (r + 1) % M ELSE (r + UMax) % M
  /\ Return(t, op[t] = "dec_and_test" /\ (r + UMax) % M = 0)
  /\ UNCHANGED <<op, val>>

Next ==
  \E t \in Threads :
     \/ \E o \in Ops : Call(t, o)
     \/ ReadVal(t)
     \/ refcount_inc_not_zero(t)
     \/ refcount_dec_not_one(t)
     \/ AtomicOp(t)

Spec == Init /\ [][Next]_vars

-----------------------------------------------------------------------------

\* A loop whose local val already fixes its outcome: the call took effect
\* when val was read, and only the return is left.
Decided(t) ==
  /\ pc[t] = "loop"
  /\ \/ op[t] = "inc_not_zero" /\ val[t] \in {0, UMax}
     \/ op[t] = "dec_not_one" /\ val[t] \in {0, 1, UMax}

DecidedResult(t) == ~(op[t] = "inc_not_zero" /\ val[t] = 0) /\
                    ~(op[t] = "dec_not_one" /\ val[t] = 1)

Atomic == INSTANCE RefcountAtomic WITH
  count  <- r,
  busy   <- [t \in Threads |-> IF pc[t] = "idle" \/ Decided(t) THEN "none" ELSE op[t]],
  result <- [t \in Threads |-> IF Decided(t) THEN DecidedResult(t) ELSE ret[t]]

\* Every interleaving of the compare-and-swap loops with each other and with
\* the plain atomic operations behaves as if each call took effect at one
\* instant (refcount_inc_not_zero never resurrects a count that reached 0,
\* refcount_dec_not_one never takes it from 1 to 0, no update is lost).
Linearizable == Atomic!Spec
=============================================================================
