------------------------------ MODULE Spinlock ------------------------------
(***************************************************************************)
(* lock_t of kernel.h on the compare-and-exchange of atomic.h, as any      *)
(* number of CPUs use it.  Each access to the lock word is one step.       *)
(***************************************************************************)
EXTENDS Naturals

CONSTANT Cpu

VARIABLES word, \* lock->atomic_val
          pc    \* where each CPU is in lock_spinlock and lock_unlock

spinVars == <<word, pc>>

\* atomic_compare_exchange_weak(object, 0, 1) and the strong form return the
\* value they found; lock_spinlock leaves its loop when that is not zero.
LeavesLoop(found) == found # 0

SpinInit ==
  /\ word = 0
  /\ pc = [c \in Cpu |-> "out"]

\* The weak test before the bus lock.
lock_spinlock(c) ==
  /\ pc[c] \in {"out", "spin"}
  /\ pc' = [pc EXCEPT ![c] = IF word = 0 THEN "cas"
                             ELSE IF LeavesLoop(word) THEN "in" ELSE "spin"]
  /\ UNCHANGED word

\* lock cmpxchg: one atomic step.
CompareExchange(c) ==
  /\ pc[c] = "cas"
  /\ word' = IF word = 0 THEN 1 ELSE word
  /\ pc' = [pc EXCEPT ![c] = IF LeavesLoop(word) THEN "in" ELSE "spin"]

lock_unlock(c) ==
  /\ pc[c] = "in"
  /\ word' = 0
  /\ pc' = [pc EXCEPT ![c] = "out"]

SpinNext == \E c \in Cpu : lock_spinlock(c) \/ CompareExchange(c) \/ lock_unlock(c)

SpinSpec == SpinInit /\ [][SpinNext]_spinVars

\* kernel.h:19: "a very basic spinlock implementation".  No two CPUs are
\* between lock_spinlock and lock_unlock at once.
MutualExclusion == \A c, d \in Cpu : pc[c] = "in" /\ pc[d] = "in" => c = d

=============================================================================
