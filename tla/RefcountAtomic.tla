--------------------------- MODULE RefcountAtomic ---------------------------
(***************************************************************************)
(* What the refcount_t operations of linuxkpi refcount.h promise: each    *)
(* call takes effect at one instant on an unsigned counter of Width bits, *)
(* with the saturation and underflow rules of the checked operations.     *)
(* A call is invoked, then applied once.                                   *)
(***************************************************************************)
EXTENDS Naturals

CONSTANTS Threads, Width, Ops, InitCount

M    == 2 ^ Width
UMax == M - 1                      \* UINT_MAX of the counter's width

VARIABLES count, busy, result

vars == <<count, busy, result>>

Init == /\ count = InitCount
        /\ busy = [t \in Threads |-> "none"]
        /\ result = [t \in Threads |-> FALSE]

Invoke(t, o) == /\ busy[t] = "none"
                /\ busy' = [busy EXCEPT ![t] = o]
                /\ UNCHANGED <<count, result>>

\* The effect of each call on the counter and the value it returns.
Effect(o, c) ==
  CASE o = "inc_not_zero" ->
         IF c = 0 THEN [c |-> c, r |-> FALSE]
         ELSE IF c = UMax THEN [c |-> c, r |-> TRUE]          \* saturated
         ELSE [c |-> c + 1, r |-> TRUE]
    [] o = "dec_not_one" ->
         IF c = UMax \/ c = 0 THEN [c |-> c, r |-> TRUE]      \* saturated / underflow
         ELSE IF c = 1 THEN [c |-> c, r |-> FALSE]
         ELSE [c |-> c - 1, r |-> TRUE]
    [] o = "dec_and_test" -> [c |-> (c + UMax) % M, r |-> (c + UMax) % M = 0]
    [] o = "inc" -> [c |-> (c + 1) % M, r |-> FALSE]
    [] o = "dec" -> [c |-> (c + UMax) % M, r |-> FALSE]

Apply(t) == /\ busy[t] # "none"
            /\ count' = Effect(busy[t], count).c
            /\ result' = [result EXCEPT ![t] = Effect(busy[t], count).r]
            /\ busy' = [busy EXCEPT ![t] = "none"]

Next == \E t \in Threads : (\E o \in Ops : Invoke(t, o)) \/ Apply(t)

Spec == Init /\ [][Next]_vars
=============================================================================
