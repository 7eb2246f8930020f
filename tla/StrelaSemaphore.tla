-------------------------- MODULE StrelaSemaphore --------------------------
(***************************************************************************)
(* The timeline semaphores of the strela HAL driver (semaphore.c).  The    *)
(* counter, the failure status and the list of timepoints belong to IREE's *)
(* async semaphore, which is outside the repository: it is modelled from   *)
(* how semaphore.c:105-172 uses it.  Acquiring a timepoint checks and      *)
(* registers under the semaphore's lock; advancing the counter and         *)
(* resolving the timepoints are two steps.                                 *)
(***************************************************************************)
EXTENDS Naturals

CONSTANTS
  Threads,      \* the host threads that make calls
  Semaphores,
  MaxValue,     \* the largest value a timeline reaches
  Initial       \* Initial[s]: the value s is created with

ASSUME SemaphoreAssumption ==
  /\ MaxValue \in Nat
  /\ Initial \in [Semaphores -> 0 .. MaxValue]

VARIABLES
  value,        \* value[s]: timeline_value
  failed,       \* failed[s]: whether failure_status is set
  points,       \* points[t]: the timepoints thread t waits for
  poisoned      \* poisoned[t]: one of them was resolved with a failure

semVars == <<value, failed, points, poisoned>>

Points == [sem : Semaphores, value : 0 .. MaxValue]

SemTypeOK ==
  /\ value \in [Semaphores -> 0 .. MaxValue]
  /\ failed \in [Semaphores -> BOOLEAN]
  /\ points \in [Threads -> SUBSET Points]
  /\ poisoned \in [Threads -> BOOLEAN]

SemInit ==
  /\ value = Initial
  /\ failed = [s \in Semaphores |-> FALSE]
  /\ points = [t \in Threads |-> {}]
  /\ poisoned = [t \in Threads |-> FALSE]

Reached(p) == value[p.sem] >= p.value

(* A semaphore that failed after it had reached the value may be taken     *)
(* either way.                                                             *)
Acquire(t, p) ==
  /\ \/ Reached(p) /\ UNCHANGED <<points, poisoned>>
     \/ /\ failed[p.sem]
        /\ poisoned' = [poisoned EXCEPT ![t] = TRUE]
        /\ UNCHANGED points
     \/ /\ ~Reached(p) /\ ~failed[p.sem]
        /\ points' = [points EXCEPT ![t] = @ \cup {p}]
        /\ UNCHANGED poisoned
  /\ UNCHANGED <<value, failed>>

(* The wait is over, or given up: no timepoint of t is left behind.        *)
Cancel(t) ==
  /\ points' = [points EXCEPT ![t] = {}]
  /\ poisoned' = [poisoned EXCEPT ![t] = FALSE]
  /\ UNCHANGED <<value, failed>>

(* Mutant: the new value is not compared with the old one.                 *)
CanAdvance_NoOrder(p) == ~failed[p.sem]

(* A timeline only moves forward, and not at all once it has failed.       *)
CanAdvance(p) == value[p.sem] < p.value /\ ~failed[p.sem]

(* Mutant: the value is added, not set.                                    *)
Advance_Adds(p) ==
  /\ CanAdvance(p)
  /\ value' = [value EXCEPT ![p.sem] = @ + p.value]
  /\ UNCHANGED <<failed, points, poisoned>>

Advance(p) ==
  /\ CanAdvance(p)
  /\ value' = [value EXCEPT ![p.sem] = p.value]
  /\ UNCHANGED <<failed, points, poisoned>>

(* Mutant: a waiter for the very value reached is not resolved.            *)
ResolvePoints_OffByOne(p) ==
  /\ points' = [t \in Threads |->
       {q \in points[t] : q.sem # p.sem \/ q.value >= p.value}]
  /\ UNCHANGED <<value, failed, poisoned>>

ResolvePoints(p) ==
  /\ points' = [t \in Threads |->
       {q \in points[t] : q.sem # p.sem \/ q.value > p.value}]
  /\ UNCHANGED <<value, failed, poisoned>>

(* The first failure of a semaphore is the one it keeps.                   *)
SetFailure(s) ==
  /\ failed' = [failed EXCEPT ![s] = TRUE]
  /\ UNCHANGED <<value, points, poisoned>>

PoisonPoints(s) ==
  /\ poisoned' = [t \in Threads |->
       poisoned[t] \/ \E q \in points[t] : q.sem = s]
  /\ points' = [t \in Threads |-> {q \in points[t] : q.sem # s}]
  /\ UNCHANGED <<value, failed>>

=============================================================================
