---------------------------- MODULE StrelaQueue ----------------------------
(***************************************************************************)
(* The queue operations of the strela HAL device (device.c:460-809).  They *)
(* are synchronous: the calling thread waits for the wait list, runs the   *)
(* commands, and signals or fails the signal list before it returns.       *)
(*                                                                         *)
(* Threads run programs, sequences of calls:                               *)
(*   "execute"   queue_execute, and what IREE's emulation records and      *)
(*               submits through it: fill, update, copy, host_call,        *)
(*               dispatch                                                  *)
(*   "alloca"    queue_alloca                                              *)
(*   "dealloca"  queue_dealloca, which has no commands of its own          *)
(*   "wait"      a host wait on one semaphore, which may time out          *)
(*   "signal"    a host signal                                             *)
(*   "query"     a host query                                              *)
(***************************************************************************)
EXTENDS StrelaSemaphore, Sequences

CONSTANT Programs     \* the programs, [Threads -> sequences of calls]

QueueKinds == {"execute", "alloca", "dealloca"}
Kinds == QueueKinds \cup {"wait", "signal", "query"}

(* Host waits and queries signal nothing, a host signal waits for nothing, *)
(* and a query is about one semaphore.                                     *)
Calls ==
  {c \in [kind : Kinds, waits : Seq(Points), signals : Seq(Points)] :
     /\ c.kind = "query" => Len(c.waits) = 1
     /\ c.kind = "signal" => c.waits = <<>>
     /\ c.kind \in {"wait", "query"} => c.signals = <<>>}

ASSUME ProgramAssumption == Programs \subseteq [Threads -> Seq(Calls)]

VARIABLES
  program,    \* program[t]: what thread t does
  pc,         \* pc[t]: where t is in its call
  idx,        \* idx[t]: the entry a loop over a semaphore list has reached
  results,    \* results[t]: what the calls of t returned
  ran,        \* the calls <<t, n>> whose commands have all run
  observed    \* observed[t][s]: what t's last query of s returned

vars == <<value, failed, points, poisoned, program, pc, idx, results, ran,
          observed>>

(* What a query returns for a failed semaphore is above every value.       *)
Failure == MaxValue + 1

Number(t) == Len(results[t]) + 1
Call(t) == program[t][Number(t)]
Entry(t) == IF pc[t] \in {"signal", "resolve", "fail", "poison"}
            THEN Call(t).signals[idx[t]]
            ELSE Call(t).waits[idx[t]]
More(t, list) == idx[t] <= Len(list)

Init ==
  /\ SemInit
  /\ program \in Programs
  /\ pc = [t \in Threads |-> "ready"]
  /\ idx = [t \in Threads |-> 1]
  /\ results = [t \in Threads |-> <<>>]
  /\ ran = {}
  /\ observed = [t \in Threads |-> [s \in Semaphores |-> 0]]

Goto(t, label, i) ==
  /\ pc' = [pc EXCEPT ![t] = label]
  /\ idx' = [idx EXCEPT ![t] = i]

Return(t, r) ==
  /\ Goto(t, "ready", 1)
  /\ results' = [results EXCEPT ![t] = Append(@, r)]

Stay == UNCHANGED <<program, results, ran, observed>>

-----------------------------------------------------------------------------
Begin(t) ==
  /\ pc[t] = "ready" /\ Number(t) <= Len(program[t])
  /\ Goto(t, CASE Call(t).kind = "signal" -> "signal"
               [] Call(t).kind = "query" -> "query"
               [] OTHER -> "acquire", 1)
  /\ ran' = IF Call(t).kind = "signal" THEN ran \cup {<<t, Number(t)>>} ELSE ran
  /\ UNCHANGED <<semVars, program, results, observed>>

(* Every entry of the wait list is checked, and registered if need be.     *)
AcquireNext(t) ==
  /\ pc[t] = "acquire" /\ More(t, Call(t).waits)
  /\ Acquire(t, Entry(t))
  /\ Goto(t, "acquire", idx[t] + 1)
  /\ Stay

Waiting(t) == pc[t] = "acquire" /\ ~More(t, Call(t).waits)

(* Mutant: one timepoint that is reached ends the wait for all of them.    *)
WaitReached_Any(t) ==
  /\ Waiting(t) /\ ~poisoned[t]
  /\ Call(t).waits = <<>> \/ \E i \in DOMAIN Call(t).waits : Call(t).waits[i] \notin points[t]
  /\ Cancel(t)
  /\ CASE Call(t).kind = "wait" -> Return(t, "ok") /\ UNCHANGED ran
       [] Call(t).kind = "dealloca" ->
            /\ Goto(t, "signal", 1)
            /\ ran' = ran \cup {<<t, Number(t)>>}
            /\ UNCHANGED results
       [] OTHER -> Goto(t, "work", 1) /\ UNCHANGED <<results, ran>>
  /\ UNCHANGED <<program, observed>>

(* The wait ends when no timepoint is left, or when one has failed.        *)
WaitReached(t) ==
  /\ Waiting(t) /\ points[t] = {} /\ ~poisoned[t]
  /\ Cancel(t)
  /\ CASE Call(t).kind = "wait" -> Return(t, "ok") /\ UNCHANGED ran
       [] Call(t).kind = "dealloca" ->
            /\ Goto(t, "signal", 1)
            /\ ran' = ran \cup {<<t, Number(t)>>}
            /\ UNCHANGED results
       [] OTHER -> Goto(t, "work", 1) /\ UNCHANGED <<results, ran>>
  /\ UNCHANGED <<program, observed>>

WaitFailed(t) ==
  /\ Waiting(t) /\ poisoned[t]
  /\ Cancel(t)
  /\ IF Call(t).kind = "wait"
     THEN Return(t, "error")
     ELSE Goto(t, "fail", 1) /\ UNCHANGED results
  /\ UNCHANGED <<program, ran, observed>>

(* Only a host wait has a timeout; the queue operations wait forever.      *)
WaitTimesOut(t) ==
  /\ Waiting(t) /\ Call(t).kind = "wait"
  /\ Cancel(t)
  /\ Return(t, "error")
  /\ UNCHANGED <<program, ran, observed>>

(* The commands run on the calling thread, or the buffer is allocated.     *)
Work(t) ==
  /\ pc[t] = "work"
  /\ ran' = ran \cup {<<t, Number(t)>>}
  /\ Goto(t, "signal", 1)
  /\ UNCHANGED <<semVars, program, results, observed>>

(* A foreign command buffer, no memory, a command that failed.             *)
WorkFails(t) ==
  /\ pc[t] = "work"
  /\ Goto(t, "fail", 1)
  /\ UNCHANGED semVars
  /\ Stay

-----------------------------------------------------------------------------
(* The signal list, entry by entry: the timeline advances, then the        *)
(* timepoints it has reached are resolved.                                 *)
Signal(t) ==
  /\ pc[t] = "signal" /\ More(t, Call(t).signals)
  /\ Advance(Entry(t))
  /\ Goto(t, "resolve", idx[t])
  /\ Stay

Resolve(t) ==
  /\ pc[t] = "resolve"
  /\ ResolvePoints(Entry(t))
  /\ Goto(t, "signal", idx[t] + 1)
  /\ Stay

(* Mutant: a queue operation too leaves its list as it is.                 *)
SignalFails_ReturnsAtOnce(t) ==
  /\ pc[t] = "signal" /\ More(t, Call(t).signals)
  /\ ~CanAdvance(Entry(t))
  /\ Return(t, "error")
  /\ UNCHANGED <<semVars, program, ran, observed>>

(* The rest of the list is not signalled; a queue operation fails all of   *)
(* it, the entries it has signalled included.                              *)
SignalFails(t) ==
  /\ pc[t] = "signal" /\ More(t, Call(t).signals)
  /\ ~CanAdvance(Entry(t))
  /\ IF Call(t).kind = "signal"
     THEN Return(t, "error")
     ELSE Goto(t, "fail", 1) /\ UNCHANGED results
  /\ UNCHANGED <<semVars, program, ran, observed>>

SignalDone(t) ==
  /\ pc[t] = "signal" /\ ~More(t, Call(t).signals)
  /\ Return(t, "ok")
  /\ UNCHANGED <<semVars, program, ran, observed>>

(* Mutant: the failure is set and the timepoints are not told.             *)
Fail_NoPoison(t) ==
  /\ pc[t] = "fail" /\ More(t, Call(t).signals)
  /\ SetFailure(Entry(t).sem)
  /\ Goto(t, "fail", idx[t] + 1)
  /\ Stay

(* Mutant: the loop stops at a semaphore that has failed already.          *)
Fail_StopsAtFailed(t) ==
  /\ pc[t] = "fail" /\ More(t, Call(t).signals)
  /\ SetFailure(Entry(t).sem)
  /\ IF failed[Entry(t).sem]
     THEN Goto(t, "fail", Len(Call(t).signals) + 1)
     ELSE Goto(t, "poison", idx[t])
  /\ Stay

Fail(t) ==
  /\ pc[t] = "fail" /\ More(t, Call(t).signals)
  /\ SetFailure(Entry(t).sem)
  /\ IF failed[Entry(t).sem]
     THEN Goto(t, "fail", idx[t] + 1)
     ELSE Goto(t, "poison", idx[t])
  /\ Stay

Poison(t) ==
  /\ pc[t] = "poison"
  /\ PoisonPoints(Entry(t).sem)
  /\ Goto(t, "fail", idx[t] + 1)
  /\ Stay

FailDone(t) ==
  /\ pc[t] = "fail" /\ ~More(t, Call(t).signals)
  /\ Return(t, "error")
  /\ UNCHANGED <<semVars, program, ran, observed>>

-----------------------------------------------------------------------------
(* A query loads the failure status, then the value.                       *)
Observe(t, v) ==
  /\ observed' = [observed EXCEPT ![t][Entry(t).sem] = v]
  /\ Return(t, "ok")
  /\ UNCHANGED <<semVars, program, ran>>

QueryFailure(t) ==
  /\ pc[t] = "query" /\ failed[Entry(t).sem]
  /\ Observe(t, Failure)

QueryNoFailure(t) ==
  /\ pc[t] = "query" /\ ~failed[Entry(t).sem]
  /\ Goto(t, "queryValue", 1)
  /\ UNCHANGED semVars
  /\ Stay

QueryValue(t) ==
  /\ pc[t] = "queryValue"
  /\ Observe(t, value[Entry(t).sem])

-----------------------------------------------------------------------------
Step(t) ==
  \/ Begin(t)
  \/ AcquireNext(t) \/ WaitReached(t) \/ WaitFailed(t)
  \/ Work(t) \/ WorkFails(t)
  \/ Signal(t) \/ Resolve(t) \/ SignalFails(t) \/ SignalDone(t)
  \/ Fail(t) \/ Poison(t) \/ FailDone(t)
  \/ QueryFailure(t) \/ QueryNoFailure(t) \/ QueryValue(t)

Next == \E t \in Threads : Step(t) \/ WaitTimesOut(t)

(* Every thread keeps running; a timeout need never come.                  *)
Spec == Init /\ [][Next]_vars /\ \A t \in Threads : WF_vars(Step(t))

-----------------------------------------------------------------------------
TypeOK ==
  /\ SemTypeOK
  /\ program \in Programs
  /\ pc \in [Threads -> {"ready", "acquire", "work", "signal", "resolve",
                         "fail", "poison", "query", "queryValue"}]
  /\ idx \in [Threads -> Nat \ {0}]
  /\ results \in [Threads -> Seq({"ok", "error"})]
  /\ ran \subseteq Threads \X (Nat \ {0})
  /\ observed \in [Threads -> [Semaphores -> 0 .. Failure]]

ListRange(list) == {list[i] : i \in DOMAIN list}

(* Some call whose commands have run signals p, or p was reached from the  *)
(* start.                                                                  *)
Provided(p) ==
  \/ Initial[p.sem] >= p.value
  \/ \E c \in ran : \E q \in ListRange(program[c[1]][c[2]].signals) :
       q.sem = p.sem /\ q.value >= p.value

(* Commands start only after the commands of everything they wait for are  *)
(* over: the order of the wait and signal lists (device.c:865-868) is the  *)
(* order of execution, whatever the threads, failures and timeouts do.     *)
WorkAfterDependencies ==
  /\ \A t \in Threads : pc[t] = "work" =>
       \A p \in ListRange(Call(t).waits) : Provided(p)
  /\ \A c \in ran : \A p \in ListRange(program[c[1]][c[2]].waits) : Provided(p)

(* A timepoint that its semaphore has reached or failed is never left      *)
(* behind: some thread is about to resolve it.  The order of the two calls *)
(* of semaphore.c:117-124 is what this depends on.                         *)
NoWaiterForgotten ==
  \A t \in Threads : \A p \in points[t] :
    Reached(p) \/ failed[p.sem] =>
      \E u \in Threads :
        \/ pc[u] = "resolve" /\ Entry(u).sem = p.sem /\ Entry(u).value >= p.value
        \/ pc[u] = "poison" /\ Entry(u).sem = p.sem

(* What a call returned is what became of its signal list: reached to the  *)
(* last entry, or, for a queue operation, failed to the last entry         *)
(* (device.c:490-504, 532-537, 791-796).                                   *)
ResultsSettled ==
  \A t \in Threads : \A n \in DOMAIN results[t] :
    LET c == program[t][n] IN
    \A p \in ListRange(c.signals) :
      IF results[t][n] = "ok" THEN Reached(p)
      ELSE c.kind \in QueueKinds => failed[p.sem]

(* A thread that queries a semaphore twice never sees it go back, a        *)
(* failure included, though a query is two loads (semaphore.c:87-103).     *)
QueriesMoveForward ==
  [][\A t \in Threads, s \in Semaphores : observed'[t][s] >= observed[t][s]]_vars

CallIds == UNION {{t} \X DOMAIN program[t] : t \in Threads}

(* The queue of the abstract specification: who called what, and what came *)
(* of it.                                                                  *)
AbstractCall(k) ==
  [kind |-> k.kind, waits |-> ListRange(k.waits), signals |-> ListRange(k.signals)]

AbstractCalls == [c \in CallIds |-> AbstractCall(program[c[1]][c[2]])]

Outcomes ==
  [c \in CallIds |-> IF c[2] \in DOMAIN results[c[1]] THEN results[c[1]][c[2]] ELSE "no"]

Order == INSTANCE QueueOrder WITH calls <- AbstractCalls, over <- Outcomes

(* The threads with their wait lists and timepoints implement the queue:   *)
(* a timeline moves only by a call that has run, fails only by a queue     *)
(* call that is not over, and no call is over before all of its signal     *)
(* list is reached or failed (device.c:460-809, semaphore.c:105-172).      *)
OrderSpec == Order!Spec

(* Every call of every thread returns.  It is a property of the driver     *)
(* only for programs in which no call comes before one it waits for.       *)
AllCallsReturn ==
  <>(\A t \in Threads : Len(results[t]) = Len(program[t]))

=============================================================================
