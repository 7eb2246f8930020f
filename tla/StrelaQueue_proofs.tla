------------------------- MODULE StrelaQueue_proofs -------------------------
(***************************************************************************)
(* Proofs about the queue operations, for any threads, semaphores and      *)
(* programs: the order of the commands, the timepoints, the results, the   *)
(* queries, and that the queue implements QueueOrder.                      *)
(*                                                                         *)
(* What a thread relies on is local: its call, how far its loops have got, *)
(* and what it has seen of the semaphores.  All of it survives what other  *)
(* threads do because a timeline only moves forward, a failure stays, and  *)
(* a timepoint disappears only when it was reached or the thread was told  *)
(* of a failure.  The proofs follow this: one lemma says so (OtherThreads),*)
(* and the lemmas about the actions look at the thread that moves.         *)
(***************************************************************************)
EXTENDS StrelaQueue, SequenceTheorems, TLAPS

Signalling == {"signal", "resolve"}
Failing == {"fail", "poison"}

(* What the place of a thread says of its call.                            *)
PlaceInv(t) ==
  /\ Len(results[t]) <= Len(program[t])
  /\ pc[t] # "ready" => Number(t) <= Len(program[t])
  /\ pc[t] = "acquire" => Call(t).kind \in QueueKinds \cup {"wait"}
  /\ pc[t] = "work" => Call(t).kind \in {"execute", "alloca"}
  /\ pc[t] \in Signalling => Call(t).kind \in QueueKinds \cup {"signal"}
  /\ pc[t] \in Failing => Call(t).kind \in QueueKinds
  /\ pc[t] \in {"query", "queryValue"} => Call(t).kind = "query" /\ idx[t] = 1
  /\ pc[t] \in {"resolve", "poison"} => idx[t] <= Len(Call(t).signals)
  /\ pc[t] # "acquire" => points[t] = {} /\ ~poisoned[t]

(* The entries a loop has passed: what was waited for is reached, or there *)
(* is a timepoint for it, or a failure was seen; what was signalled is     *)
(* reached, and what was failed has failed.                                *)
LoopInv(t) ==
  /\ pc[t] = "acquire" =>
       \/ poisoned[t]
       \/ \A i \in DOMAIN Call(t).waits : i < idx[t] =>
            Reached(Call(t).waits[i]) \/ Call(t).waits[i] \in points[t]
  /\ pc[t] = "work" => \A i \in DOMAIN Call(t).waits : Reached(Call(t).waits[i])
  /\ pc[t] \in Signalling =>
       \A i \in DOMAIN Call(t).signals : i < idx[t] => Reached(Call(t).signals[i])
  /\ pc[t] = "resolve" => Reached(Entry(t))
  /\ pc[t] \in Failing =>
       \A i \in DOMAIN Call(t).signals : i < idx[t] => failed[Call(t).signals[i].sem]
  /\ pc[t] = "poison" => failed[Entry(t).sem]

(* The commands of a call run before it signals, and not before.           *)
RanInv(t) ==
  /\ pc[t] \in Signalling => <<t, Number(t)>> \in ran
  /\ <<t, Number(t)>> \in ran => pc[t] \in Signalling \cup Failing
  /\ \A n \in Nat : <<t, n>> \in ran =>
       /\ 1 <= n /\ n <= Number(t) /\ n <= Len(program[t])
       /\ \A i \in DOMAIN program[t][n].waits : Reached(program[t][n].waits[i])

(* A query that has returned a value returned no more than there is now.   *)
SeenInv(t) ==
  /\ \A s \in Semaphores :
       observed[t][s] <= value[s] \/ (observed[t][s] = Failure /\ failed[s])
  /\ pc[t] = "queryValue" => observed[t][Entry(t).sem] <= value[Entry(t).sem]

(* What the calls that are over returned.                                  *)
SettledInv(t) ==
  \A n \in DOMAIN results[t] :
    LET c == program[t][n] IN
    \A i \in DOMAIN c.signals :
      IF results[t][n] = "ok" THEN Reached(c.signals[i])
      ELSE c.kind \in QueueKinds => failed[c.signals[i].sem]

ThreadInv(t) ==
  PlaceInv(t) /\ LoopInv(t) /\ RanInv(t) /\ SeenInv(t) /\ SettledInv(t)

(* Whatever is reached was provided.                                       *)
ProvidedInv == \A p \in Points : Reached(p) => Provided(p)

IInv ==
  /\ TypeOK
  /\ \A t \in Threads : ThreadInv(t)
  /\ ProvidedInv
  /\ NoWaiterForgotten

-----------------------------------------------------------------------------
(* What is in a program.                                                   *)
LEMMA ProgramTypes ==
  ASSUME TypeOK, NEW t \in Threads
  PROVE  /\ program[t] \in Seq(Calls)
         /\ Len(program[t]) \in Nat /\ DOMAIN program[t] = 1 .. Len(program[t])
         /\ Number(t) \in Nat \ {0}
         /\ results[t] \in Seq({"ok", "error"})
         /\ DOMAIN results[t] = 1 .. Len(results[t]) /\ Len(results[t]) \in Nat
  <1>1. program[t] \in Seq(Calls)
    BY ProgramAssumption DEF TypeOK
  <1>2. results[t] \in Seq({"ok", "error"})
    BY DEF TypeOK
  <1> QED BY <1>1, <1>2, LenProperties DEF Number

LEMMA CallTypes ==
  ASSUME TypeOK, NEW t \in Threads, NEW n \in 1 .. Len(program[t])
  PROVE  LET c == program[t][n] IN
         /\ c \in Calls /\ c.kind \in Kinds
         /\ c.waits \in Seq(Points) /\ c.signals \in Seq(Points)
         /\ Len(c.waits) \in Nat /\ DOMAIN c.waits = 1 .. Len(c.waits)
         /\ Len(c.signals) \in Nat /\ DOMAIN c.signals = 1 .. Len(c.signals)
         /\ \A i \in 1 .. Len(c.waits) : c.waits[i] \in Points
         /\ \A i \in 1 .. Len(c.signals) : c.signals[i] \in Points
  <1> DEFINE c == program[t][n]
  <1>1. c \in Calls
    BY ProgramTypes
  <1> HIDE DEF c
  <1>2. c.kind \in Kinds /\ c.waits \in Seq(Points) /\ c.signals \in Seq(Points)
    BY <1>1 DEF Calls
  <1>3. /\ Len(c.waits) \in Nat /\ DOMAIN c.waits = 1 .. Len(c.waits)
        /\ Len(c.signals) \in Nat /\ DOMAIN c.signals = 1 .. Len(c.signals)
        /\ \A i \in 1 .. Len(c.waits) : c.waits[i] \in Points
        /\ \A i \in 1 .. Len(c.signals) : c.signals[i] \in Points
    BY <1>2, LenProperties
  <1> QED BY <1>1, <1>2, <1>3 DEF c

(* The entry a thread is at.                                               *)
LEMMA EntryTypes ==
  ASSUME TypeOK, NEW t \in Threads, PlaceInv(t),
         \/ pc[t] = "acquire" /\ More(t, Call(t).waits)
         \/ pc[t] \in {"signal", "fail"} /\ More(t, Call(t).signals)
         \/ pc[t] \in {"resolve", "poison", "query", "queryValue"}
  PROVE  /\ Number(t) \in 1 .. Len(program[t])
         /\ Entry(t) \in Points /\ Entry(t).sem \in Semaphores
         /\ Entry(t).value \in 0 .. MaxValue
         /\ pc[t] \in {"acquire", "query", "queryValue"} =>
              idx[t] \in DOMAIN Call(t).waits /\ Entry(t) = Call(t).waits[idx[t]]
         /\ pc[t] \in {"signal", "fail", "resolve", "poison"} =>
              idx[t] \in DOMAIN Call(t).signals /\ Entry(t) = Call(t).signals[idx[t]]
  <1>1. Number(t) \in 1 .. Len(program[t])
    BY ProgramTypes DEF PlaceInv
  <1>2. idx[t] \in Nat \ {0}
    BY DEF TypeOK
  <1>3. Call(t).kind = "query" => Len(Call(t).waits) = 1
    BY <1>1, CallTypes DEF Call, Calls
  <1>4. CASE pc[t] \in {"acquire", "query", "queryValue"}
    <2>1. idx[t] \in DOMAIN Call(t).waits
      BY <1>1, <1>2, <1>3, <1>4, CallTypes DEF Call, PlaceInv, More
    <2>2. Entry(t) = Call(t).waits[idx[t]]
      BY <1>4 DEF Entry
    <2>3. Entry(t) \in Points
      BY <1>1, <2>1, <2>2, CallTypes DEF Call
    <2> QED BY <1>1, <1>4, <2>1, <2>2, <2>3 DEF Points
  <1>5. CASE pc[t] \in {"signal", "fail", "resolve", "poison"}
    <2>1. idx[t] \in DOMAIN Call(t).signals
      BY <1>1, <1>2, <1>5, CallTypes DEF Call, PlaceInv, More
    <2>2. Entry(t) = Call(t).signals[idx[t]]
      BY <1>5 DEF Entry
    <2>3. Entry(t) \in Points
      BY <1>1, <2>1, <2>2, CallTypes DEF Call
    <2> QED BY <1>1, <1>5, <2>1, <2>2, <2>3 DEF Points
  <1> QED BY <1>4, <1>5

-----------------------------------------------------------------------------
(* What every step does to the semaphores and the programs.                *)
Forward ==
  /\ program' = program
  /\ \A s \in Semaphores : value[s] <= value'[s] /\ (failed[s] => failed'[s])

(* What a step of another thread does to u: at most, it resolves some of   *)
(* its timepoints.                                                         *)
Untouched(u) ==
  /\ pc'[u] = pc[u] /\ idx'[u] = idx[u] /\ results'[u] = results[u]
  /\ observed'[u] = observed[u]
  /\ points'[u] \subseteq points[u]
  /\ \A p \in points[u] : p \in points'[u] \/ value'[p.sem] >= p.value \/ poisoned'[u]
  /\ poisoned[u] => poisoned'[u]
  /\ poisoned'[u] => poisoned[u] \/ points[u] # {}
  /\ \A n \in Nat : <<u, n>> \in ran' <=> <<u, n>> \in ran

LEMMA ReachedStays ==
  ASSUME TypeOK, TypeOK', Forward, NEW p \in Points, value[p.sem] >= p.value
  PROVE  value'[p.sem] >= p.value
  <1>1. p.sem \in Semaphores /\ p.value \in Nat
    BY SemaphoreAssumption DEF Points
  <1>2. value[p.sem] \in Nat /\ value'[p.sem] \in Nat
    BY <1>1, SemaphoreAssumption DEF TypeOK, SemTypeOK
  <1> QED BY <1>1, <1>2 DEF Forward

LEMMA FailedStays ==
  ASSUME Forward, NEW p \in Points, failed[p.sem]
  PROVE  failed'[p.sem]
  BY DEF Forward, Points

(* A thread that does not move keeps its call, its place and its entry.    *)
LEMMA SamePlace ==
  ASSUME Forward, NEW u \in Threads, Untouched(u)
  PROVE  /\ pc'[u] = pc[u] /\ idx'[u] = idx[u] /\ results'[u] = results[u]
         /\ program'[u] = program[u]
         /\ Number(u)' = Number(u) /\ Call(u)' = Call(u) /\ Entry(u)' = Entry(u)
  BY DEF Forward, Untouched, Number, Call, Entry

LEMMA OtherPlace ==
  ASSUME Forward, NEW u \in Threads, Untouched(u), PlaceInv(u)
  PROVE  PlaceInv(u)'
  <1>1. pc[u] # "acquire" => points'[u] = {} /\ ~poisoned'[u]
    BY DEF PlaceInv, Untouched
  <1> QED BY <1>1, SamePlace DEF PlaceInv

LEMMA OtherLoop ==
  ASSUME TypeOK, TypeOK', Forward, NEW u \in Threads, Untouched(u),
         PlaceInv(u), LoopInv(u)
  PROVE  LoopInv(u)'
  <1> USE SamePlace
  <1> DEFINE W == Call(u).waits
             S == Call(u).signals
  <1>1. pc[u] # "ready" =>
          /\ \A i \in DOMAIN W : W[i] \in Points
          /\ \A i \in DOMAIN S : S[i] \in Points
    BY CallTypes, ProgramTypes DEF PlaceInv, Call
  <1>2. W' = W /\ S' = S
    OBVIOUS
  <1> HIDE DEF W, S
  <1>3. ASSUME pc[u] = "acquire", ~poisoned'[u], NEW i \in DOMAIN W, i < idx[u]
        PROVE  value'[W[i].sem] >= W[i].value \/ W[i] \in points'[u]
    <2>1. W[i] \in Points
      BY <1>1, <1>3
    <2>2. Reached(W[i]) \/ W[i] \in points[u]
      BY <1>3 DEF LoopInv, Untouched, W
    <2> QED BY <1>3, <2>1, <2>2, ReachedStays DEF Untouched, Reached
  <1>4. ASSUME pc[u] = "work", NEW i \in DOMAIN W
        PROVE  value'[W[i].sem] >= W[i].value
    BY <1>1, <1>4, ReachedStays DEF LoopInv, Reached, W
  <1>5. ASSUME pc[u] \in Signalling, NEW i \in DOMAIN S, i < idx[u]
        PROVE  value'[S[i].sem] >= S[i].value
    BY <1>1, <1>5, ReachedStays DEF LoopInv, Reached, S, Signalling
  <1>6. ASSUME pc[u] \in Failing, NEW i \in DOMAIN S, i < idx[u]
        PROVE  failed'[S[i].sem]
    BY <1>1, <1>6, FailedStays DEF LoopInv, S, Failing
  <1>7. ASSUME pc[u] = "resolve"
        PROVE  value'[Entry(u).sem] >= Entry(u).value
    BY <1>7, EntryTypes, ReachedStays DEF LoopInv, Reached
  <1>8. ASSUME pc[u] = "poison"
        PROVE  failed'[Entry(u).sem]
    BY <1>8, EntryTypes, FailedStays DEF LoopInv
  <1> QED
    BY <1>2, <1>3, <1>4, <1>5, <1>6, <1>7, <1>8 DEF LoopInv, Reached, W, S

LEMMA OtherRan ==
  ASSUME TypeOK, TypeOK', Forward, NEW u \in Threads, Untouched(u), RanInv(u)
  PROVE  RanInv(u)'
  <1> USE SamePlace
  <1>1. Number(u) \in Nat
    BY ProgramTypes
  <1>2. ASSUME NEW n \in Nat, <<u, n>> \in ran,
               NEW i \in DOMAIN program[u][n].waits
        PROVE  value'[program[u][n].waits[i].sem] >= program[u][n].waits[i].value
    <2>1. n \in 1 .. Len(program[u])
      BY <1>2, ProgramTypes DEF RanInv
    <2>2. program[u][n].waits[i] \in Points
      BY <1>2, <2>1, CallTypes
    <2> QED BY <1>2, <2>2, ReachedStays DEF RanInv, Reached
  <1>3. \A n \in Nat : <<u, n>> \in ran' <=> <<u, n>> \in ran
    BY DEF Untouched
  <1> QED BY <1>1, <1>2, <1>3 DEF RanInv, Reached

LEMMA OtherSeen ==
  ASSUME TypeOK, TypeOK', Forward, NEW u \in Threads, Untouched(u),
         PlaceInv(u), SeenInv(u)
  PROVE  SeenInv(u)'
  <1> USE SamePlace
  <1>1. \A s \in Semaphores : observed[u][s] \in Nat /\ value[s] \in Nat /\ value'[s] \in Nat
    BY SemaphoreAssumption DEF TypeOK, SemTypeOK, Failure
  <1>2. observed'[u] = observed[u]
    BY DEF Untouched
  <1>3. \A s \in Semaphores :
          observed'[u][s] <= value'[s] \/ (observed'[u][s] = Failure /\ failed'[s])
    BY <1>1, <1>2 DEF SeenInv, Forward
  <1>4. pc[u] = "queryValue" => observed'[u][Entry(u).sem] <= value'[Entry(u).sem]
    BY <1>1, <1>2, EntryTypes DEF SeenInv, Forward
  <1>5. Failure' = Failure
    BY DEF Failure
  <1> QED BY <1>3, <1>4, <1>5 DEF SeenInv

LEMMA OtherSettled ==
  ASSUME TypeOK, TypeOK', Forward, NEW u \in Threads, Untouched(u),
         PlaceInv(u), SettledInv(u)
  PROVE  SettledInv(u)'
  <1> USE SamePlace
  <1>1. ASSUME NEW n \in DOMAIN results[u], NEW i \in DOMAIN program[u][n].signals
        PROVE  LET c == program[u][n] IN
               IF results[u][n] = "ok" THEN value'[c.signals[i].sem] >= c.signals[i].value
               ELSE c.kind \in QueueKinds => failed'[c.signals[i].sem]
    <2>1. n \in 1 .. Len(program[u])
      BY ProgramTypes DEF PlaceInv
    <2>2. program[u][n].signals[i] \in Points
      BY <2>1, CallTypes
    <2>3. IF results[u][n] = "ok" THEN Reached(program[u][n].signals[i])
          ELSE program[u][n].kind \in QueueKinds => failed[program[u][n].signals[i].sem]
      BY DEF SettledInv
    <2> QED BY <2>2, <2>3, ReachedStays, FailedStays DEF Reached
  <1> QED BY <1>1 DEF SettledInv, Reached

(* Threads that do not move keep their invariant.                          *)
LEMMA OtherThreads ==
  ASSUME TypeOK, TypeOK', Forward, NEW u \in Threads, Untouched(u), ThreadInv(u)
  PROVE  ThreadInv(u)'
  BY OtherPlace, OtherLoop, OtherRan, OtherSeen, OtherSettled DEF ThreadInv

-----------------------------------------------------------------------------
(* What Goto and Return do.                                                *)
Labels == {"ready", "acquire", "work", "signal", "resolve", "fail", "poison",
           "query", "queryValue"}

LEMMA GotoTypes ==
  ASSUME TypeOK, NEW t \in Threads, NEW label \in Labels, NEW i \in Nat \ {0},
         Goto(t, label, i)
  PROVE  /\ pc' \in [Threads -> Labels] /\ idx' \in [Threads -> Nat \ {0}]
         /\ pc'[t] = label /\ idx'[t] = i
         /\ \A u \in Threads \ {t} : pc'[u] = pc[u] /\ idx'[u] = idx[u]
  BY DEF TypeOK, Goto, Labels

LEMMA ReturnTypes ==
  ASSUME TypeOK, NEW t \in Threads, NEW r \in {"ok", "error"}, Return(t, r)
  PROVE  /\ pc' \in [Threads -> Labels] /\ idx' \in [Threads -> Nat \ {0}]
         /\ results' \in [Threads -> Seq({"ok", "error"})]
         /\ pc'[t] = "ready" /\ idx'[t] = 1
         /\ \A u \in Threads \ {t} :
              pc'[u] = pc[u] /\ idx'[u] = idx[u] /\ results'[u] = results[u]
         /\ Len(results'[t]) = Len(results[t]) + 1
         /\ DOMAIN results'[t] = 1 .. Number(t)
         /\ \A n \in 1 .. Len(results[t]) : results'[t][n] = results[t][n]
         /\ results'[t][Number(t)] = r
  <1>1. Goto(t, "ready", 1) /\ results' = [results EXCEPT ![t] = Append(results[t], r)]
    BY DEF Return
  <1>2. /\ pc' \in [Threads -> Labels] /\ idx' \in [Threads -> Nat \ {0}]
        /\ pc'[t] = "ready" /\ idx'[t] = 1
        /\ \A u \in Threads \ {t} : pc'[u] = pc[u] /\ idx'[u] = idx[u]
    BY <1>1, GotoTypes DEF Labels
  <1>3. results[t] \in Seq({"ok", "error"})
    BY DEF TypeOK
  <1>4. /\ Append(results[t], r) \in Seq({"ok", "error"})
        /\ Len(Append(results[t], r)) = Len(results[t]) + 1
        /\ \A n \in 1 .. Len(results[t]) : Append(results[t], r)[n] = results[t][n]
        /\ Append(results[t], r)[Len(results[t]) + 1] = r
    BY <1>3, AppendProperties
  <1>5. /\ results'[t] = Append(results[t], r)
        /\ \A u \in Threads \ {t} : results'[u] = results[u]
        /\ results' \in [Threads -> Seq({"ok", "error"})]
    BY <1>1, <1>4 DEF TypeOK
  <1>6. DOMAIN results'[t] = 1 .. Number(t)
    BY <1>4, <1>5, LenProperties DEF Number
  <1> QED BY <1>2, <1>4, <1>5, <1>6 DEF Number

(* Every step takes its thread to the next place or ends its call, and only *)
(* adds to what has run.                                                   *)
LEMMA Moves ==
  ASSUME TypeOK, NEW t \in Threads, PlaceInv(t), Step(t) \/ WaitTimesOut(t)
  PROVE  /\ \/ \E label \in Labels, i \in Nat \ {0} :
                 Goto(t, label, i) /\ results' = results
            \/ \E r \in {"ok", "error"} : Return(t, r)
         /\ program' = program
         /\ ran' = ran \/ ran' = ran \cup {<<t, Number(t)>>}
         /\ \/ observed' = observed
            \/ \E v \in 0 .. Failure :
                 /\ observed' = [observed EXCEPT ![t][Entry(t).sem] = v]
                 /\ Entry(t).sem \in Semaphores
  <1> DEFINE Goes == \/ \E label \in Labels, i \in Nat \ {0} :
                          Goto(t, label, i) /\ results' = results
                     \/ \E r \in {"ok", "error"} : Return(t, r)
             Sees == \E v \in 0 .. Failure :
                       /\ observed' = [observed EXCEPT ![t][Entry(t).sem] = v]
                       /\ Entry(t).sem \in Semaphores
  <1>1. idx[t] \in Nat \ {0} /\ idx[t] + 1 \in Nat \ {0} /\ 1 \in Nat \ {0}
    BY DEF TypeOK
  <1>2. ASSUME NEW label \in Labels, NEW i \in Nat \ {0}, Goto(t, label, i),
               results' = results
        PROVE  Goes
    BY <1>2
  <1>3. ASSUME NEW r \in {"ok", "error"}, Return(t, r)
        PROVE  Goes
    BY <1>3
  <1> HIDE DEF Goes, Sees
  <1>4. CASE Begin(t)
    <2> DEFINE label == CASE Call(t).kind = "signal" -> "signal"
                          [] Call(t).kind = "query" -> "query"
                          [] OTHER -> "acquire"
    <2>1. label \in Labels
      BY Zenon DEF Labels
    <2>2. Goto(t, label, 1) /\ results' = results
      BY <1>4, Zenon DEF Begin
    <2> HIDE DEF label
    <2>3. Goes
      BY <1>1, <1>2, <2>1, <2>2
    <2>4. program' = program /\ observed' = observed
      BY <1>4, Zenon DEF Begin
    <2>5. ran' = ran \/ ran' = ran \cup {<<t, Number(t)>>}
      BY <1>4, Zenon DEF Begin
    <2> QED BY <2>3, <2>4, <2>5 DEF Goes
  <1>5. CASE AcquireNext(t)
    <2>1. Goes
      BY <1>1, <1>2, <1>5 DEF AcquireNext, Stay, Labels
    <2> QED BY <1>5, <2>1 DEF AcquireNext, Stay, Goes
  <1>6. CASE WaitReached(t)
    <2>1. /\ program' = program /\ observed' = observed
      BY <1>6, Zenon DEF WaitReached
    <2>2. CASE Call(t).kind = "wait"
      <3>1. Return(t, "ok") /\ ran' = ran
        BY <1>6, <2>2, Zenon DEF WaitReached
      <3> QED BY <1>3, <2>1, <3>1 DEF Goes
    <2>3. CASE Call(t).kind = "dealloca"
      <3>1. /\ Goto(t, "signal", 1) /\ results' = results
            /\ ran' = ran \cup {<<t, Number(t)>>}
        BY <1>6, <2>3 DEF WaitReached
      <3>2. Goes
        BY <1>1, <1>2, <3>1 DEF Labels
      <3> QED BY <2>1, <3>1, <3>2 DEF Goes
    <2>4. CASE Call(t).kind \notin {"wait", "dealloca"}
      <3>1. Goto(t, "work", 1) /\ results' = results /\ ran' = ran
        BY <1>6, <2>4 DEF WaitReached
      <3>2. Goes
        BY <1>1, <1>2, <3>1 DEF Labels
      <3> QED BY <2>1, <3>1, <3>2 DEF Goes
    <2> QED BY <2>2, <2>3, <2>4
  <1>7. CASE WaitFailed(t) \/ WaitTimesOut(t) \/ SignalFails(t)
    <2>1. program' = program /\ observed' = observed /\ ran' = ran
      BY <1>7 DEF WaitFailed, WaitTimesOut, SignalFails
    <2>2. Return(t, "error") \/ (Goto(t, "fail", 1) /\ results' = results)
      BY <1>7 DEF WaitFailed, WaitTimesOut, SignalFails
    <2>3. Goes
      BY <1>1, <1>2, <1>3, <2>2 DEF Labels
    <2> QED BY <2>1, <2>3 DEF Goes
  <1>8. CASE Work(t)
    <2>1. Goes
      BY <1>1, <1>2, <1>8 DEF Work, Labels
    <2> QED BY <1>8, <2>1 DEF Work, Goes
  <1>9. CASE WorkFails(t)
    <2>1. Goes
      BY <1>1, <1>2, <1>9 DEF WorkFails, Stay, Labels
    <2> QED BY <1>9, <2>1 DEF WorkFails, Stay, Goes
  <1>10. CASE Signal(t) \/ Resolve(t) \/ Fail(t) \/ Poison(t)
    <2>1. Goes
      BY <1>1, <1>2, <1>10 DEF Signal, Resolve, Fail, Poison, Stay, Labels
    <2> QED BY <1>10, <2>1 DEF Signal, Resolve, Fail, Poison, Stay, Goes
  <1>11. CASE SignalDone(t) \/ FailDone(t)
    <2>1. Goes
      BY <1>3, <1>11 DEF SignalDone, FailDone
    <2> QED BY <1>11, <2>1 DEF SignalDone, FailDone, Goes
  <1>12. CASE QueryNoFailure(t)
    <2>1. Goes
      BY <1>1, <1>2, <1>12 DEF QueryNoFailure, Stay, Labels
    <2> QED BY <1>12, <2>1 DEF QueryNoFailure, Stay, Goes
  <1>13. CASE QueryFailure(t) \/ QueryValue(t)
    <2>1. Entry(t).sem \in Semaphores
      BY <1>13, EntryTypes DEF QueryFailure, QueryValue
    <2>2. Failure \in 0 .. Failure /\ value[Entry(t).sem] \in 0 .. Failure
      BY <2>1, SemaphoreAssumption DEF TypeOK, SemTypeOK, Failure
    <2>3. PICK v \in 0 .. Failure : Observe(t, v)
      BY <1>13, <2>2 DEF QueryFailure, QueryValue
    <2>4. Goes
      BY <1>3, <2>3 DEF Observe
    <2> QED BY <2>1, <2>3, <2>4 DEF Observe, Goes
  <1> QED
    BY <1>4, <1>5, <1>6, <1>7, <1>8, <1>9, <1>10, <1>11, <1>12, <1>13 DEF Step

(* What every step does to the semaphores.                                 *)
LEMMA SemStep ==
  ASSUME TypeOK, NEW t \in Threads, PlaceInv(t), Step(t) \/ WaitTimesOut(t)
  PROVE  \/ UNCHANGED semVars
         \/ Cancel(t)
         \/ AcquireNext(t) \/ Signal(t) \/ Resolve(t) \/ Fail(t) \/ Poison(t)
  BY Zenon DEF Step, Begin, WaitReached, WaitFailed, Work, WorkFails, SignalFails,
     SignalDone, FailDone, Observe, QueryFailure, QueryNoFailure, QueryValue,
     WaitTimesOut

(* The variables keep their types.                                         *)
LEMMA TypeStep ==
  ASSUME TypeOK, NEW t \in Threads, PlaceInv(t), Step(t) \/ WaitTimesOut(t)
  PROVE  TypeOK'
  <1>1. SemTypeOK
    BY DEF TypeOK
  <1>2. SemTypeOK'
    <2>1. CASE UNCHANGED semVars
      BY <1>1, <2>1 DEF SemTypeOK, semVars
    <2>2. CASE Cancel(t)
      BY <1>1, <2>2 DEF SemTypeOK, Cancel
    <2>3. CASE AcquireNext(t)
      <3>1. Entry(t) \in Points
        BY <2>3, EntryTypes DEF AcquireNext
      <3>2. Acquire(t, Entry(t))
        BY <2>3 DEF AcquireNext
      <3> QED BY <1>1, <3>1, <3>2 DEF SemTypeOK, Acquire
    <2>4. CASE Signal(t)
      <3>1. Entry(t).value \in 0 .. MaxValue
        BY <2>4, EntryTypes DEF Signal
      <3>2. Advance(Entry(t))
        BY <2>4 DEF Signal
      <3> QED BY <1>1, <3>1, <3>2 DEF SemTypeOK, Advance
    <2>5. CASE Resolve(t)
      BY <1>1, <2>5 DEF SemTypeOK, Resolve, ResolvePoints
    <2>6. CASE Fail(t)
      BY <1>1, <2>6 DEF SemTypeOK, Fail, SetFailure
    <2>7. CASE Poison(t)
      BY <1>1, <2>7 DEF SemTypeOK, Poison, PoisonPoints
    <2> QED BY <2>1, <2>2, <2>3, <2>4, <2>5, <2>6, <2>7, SemStep
  <1>3. pc' \in [Threads -> Labels] /\ idx' \in [Threads -> Nat \ {0}]
    BY Moves, GotoTypes, ReturnTypes
  <1>4. results' \in [Threads -> Seq({"ok", "error"})]
    BY Moves, ReturnTypes DEF TypeOK
  <1>5. ran' \subseteq Threads \X (Nat \ {0})
    <2>1. <<t, Number(t)>> \in Threads \X (Nat \ {0})
      BY ProgramTypes
    <2>2. ran \subseteq Threads \X (Nat \ {0})
      BY DEF TypeOK
    <2>3. ran' = ran \/ ran' = ran \cup {<<t, Number(t)>>}
      BY Moves
    <2> QED BY <2>1, <2>2, <2>3, Zenon
  <1>6. observed' \in [Threads -> [Semaphores -> 0 .. Failure]]
    <2>1. observed \in [Threads -> [Semaphores -> 0 .. Failure]]
      BY DEF TypeOK
    <2>2. CASE observed' = observed
      BY <2>1, <2>2
    <2>3. ASSUME NEW v \in 0 .. Failure, Entry(t).sem \in Semaphores,
                 observed' = [observed EXCEPT ![t][Entry(t).sem] = v]
          PROVE  observed' \in [Threads -> [Semaphores -> 0 .. Failure]]
      BY <2>1, <2>3
    <2> QED BY <2>2, <2>3, Moves
  <1>7. program' \in Programs /\ Failure' = Failure
    BY Moves DEF TypeOK, Failure
  <1> QED BY <1>2, <1>3, <1>4, <1>5, <1>6, <1>7 DEF TypeOK, Labels

(* A step only moves the semaphores forward.                               *)
LEMMA ForwardStep ==
  ASSUME TypeOK, NEW t \in Threads, PlaceInv(t), Step(t) \/ WaitTimesOut(t)
  PROVE  Forward
  <1>1. SemTypeOK
    BY DEF TypeOK
  <1>2. \A s \in Semaphores : value[s] \in Nat
    BY <1>1, SemaphoreAssumption DEF SemTypeOK
  <1> SUFFICES \A s \in Semaphores : value[s] <= value'[s] /\ (failed[s] => failed'[s])
    BY Moves DEF Forward
  <1>3. CASE Signal(t)
    <2>1. Entry(t).sem \in Semaphores /\ Entry(t).value \in Nat
      BY <1>3, EntryTypes, SemaphoreAssumption DEF Signal
    <2>2. Advance(Entry(t))
      BY <1>3 DEF Signal
    <2> QED BY <1>1, <1>2, <2>1, <2>2 DEF Advance, CanAdvance, SemTypeOK
  <1>4. CASE Fail(t)
    BY <1>1, <1>2, <1>4 DEF Fail, SetFailure, SemTypeOK
  <1>5. CASE value' = value /\ failed' = failed
    BY <1>2, <1>5
  <1> QED
    BY <1>3, <1>4, <1>5, SemStep
       DEF semVars, Cancel, AcquireNext, Acquire, Resolve, ResolvePoints, Poison,
       PoisonPoints

(* A step leaves the other threads alone.                                  *)
LEMMA OthersStep ==
  ASSUME TypeOK, NEW t \in Threads, ThreadInv(t), Step(t) \/ WaitTimesOut(t),
         NEW u \in Threads \ {t}
  PROVE  Untouched(u)
  <1>1. SemTypeOK /\ PlaceInv(t) /\ LoopInv(t)
    BY DEF TypeOK, ThreadInv
  <1>2. pc'[u] = pc[u] /\ idx'[u] = idx[u] /\ results'[u] = results[u]
    BY <1>1, Moves, GotoTypes, ReturnTypes
  <1>3. observed'[u] = observed[u]
    BY <1>1, Moves DEF TypeOK
  <1>4. \A n \in Nat : <<u, n>> \in ran' <=> <<u, n>> \in ran
    BY <1>1, Moves
  <1>5. /\ points'[u] \subseteq points[u]
        /\ \A p \in points[u] : p \in points'[u] \/ value'[p.sem] >= p.value \/ poisoned'[u]
        /\ poisoned[u] => poisoned'[u]
        /\ poisoned'[u] => poisoned[u] \/ points[u] # {}
    <2>1. CASE points'[u] = points[u] /\ poisoned'[u] = poisoned[u]
      BY <2>1
    <2>2. CASE Resolve(t)
      <3>1. /\ pc[t] = "resolve"
            /\ points'[u] = {q \in points[u] : q.sem # Entry(t).sem \/ q.value > Entry(t).value}
            /\ value' = value /\ poisoned' = poisoned
        BY <1>1, <2>2 DEF Resolve, ResolvePoints, SemTypeOK
      <3>2. /\ value[Entry(t).sem] >= Entry(t).value
            /\ Entry(t).sem \in Semaphores /\ Entry(t).value \in Nat
        BY <1>1, <3>1, EntryTypes, SemaphoreAssumption DEF LoopInv, Reached
      <3>3. \A p \in points[u] : p.value \in Nat
        BY <1>1, SemaphoreAssumption DEF SemTypeOK, Points
      <3>4. value[Entry(t).sem] \in Nat
        BY <1>1, <3>2, SemaphoreAssumption DEF SemTypeOK
      <3> QED BY <3>1, <3>2, <3>3, <3>4
    <2>3. CASE Poison(t)
      <3>1. /\ poisoned'[u] <=> (poisoned[u] \/ \E q \in points[u] : q.sem = Entry(t).sem)
            /\ points'[u] = {q \in points[u] : q.sem # Entry(t).sem}
        BY <1>1, <2>3 DEF Poison, PoisonPoints, SemTypeOK
      <3> QED BY <3>1
    <2> QED
      BY <1>1, <2>1, <2>2, <2>3, SemStep
         DEF semVars, Cancel, AcquireNext, Acquire, Signal, Advance, Fail, SetFailure,
         SemTypeOK
  <1> QED BY <1>2, <1>3, <1>4, <1>5 DEF Untouched

-----------------------------------------------------------------------------
(* What a thread has behind it stays true when it moves itself.            *)
LEMMA RanStays ==
  ASSUME TypeOK, TypeOK', Forward, NEW t \in Threads, RanInv(t),
         NEW n \in Nat, <<t, n>> \in ran
  PROVE  /\ 1 <= n /\ n <= Number(t) /\ n <= Len(program[t])
         /\ \A i \in DOMAIN program[t][n].waits :
              value'[program[t][n].waits[i].sem] >= program[t][n].waits[i].value
  <1>1. /\ 1 <= n /\ n <= Number(t) /\ n <= Len(program[t])
        /\ \A i \in DOMAIN program[t][n].waits : Reached(program[t][n].waits[i])
    BY DEF RanInv
  <1>2. n \in 1 .. Len(program[t])
    BY <1>1, ProgramTypes
  <1>3. \A i \in DOMAIN program[t][n].waits : program[t][n].waits[i] \in Points
    BY <1>2, CallTypes
  <1> QED BY <1>1, <1>3, ReachedStays DEF Reached

LEMMA SettledStays ==
  ASSUME TypeOK, TypeOK', Forward, NEW t \in Threads, PlaceInv(t), SettledInv(t),
         NEW n \in DOMAIN results[t], NEW i \in DOMAIN program[t][n].signals
  PROVE  LET c == program[t][n] IN
         IF results[t][n] = "ok" THEN value'[c.signals[i].sem] >= c.signals[i].value
         ELSE c.kind \in QueueKinds => failed'[c.signals[i].sem]
  <1>1. n \in 1 .. Len(program[t])
    BY ProgramTypes DEF PlaceInv
  <1>2. program[t][n].signals[i] \in Points
    BY <1>1, CallTypes
  <1>3. IF results[t][n] = "ok" THEN Reached(program[t][n].signals[i])
        ELSE program[t][n].kind \in QueueKinds => failed[program[t][n].signals[i].sem]
    BY DEF SettledInv
  <1> QED BY <1>2, <1>3, ReachedStays, FailedStays DEF Reached

LEMMA SeenStays ==
  ASSUME TypeOK, TypeOK', Forward, NEW t \in Threads, SeenInv(t),
         NEW s \in Semaphores, observed'[t][s] = observed[t][s]
  PROVE  observed'[t][s] <= value'[s] \/ (observed'[t][s] = Failure /\ failed'[s])
  <1>1. observed[t][s] \in Nat /\ value[s] \in Nat /\ value'[s] \in Nat
    BY SemaphoreAssumption DEF TypeOK, SemTypeOK, Failure
  <1> QED BY <1>1 DEF SeenInv, Forward

(* A thread that goes on with its call.                                    *)
LEMMA GoesOn ==
  ASSUME TypeOK, TypeOK', Forward, NEW t \in Threads, ThreadInv(t),
         NEW label \in Labels, NEW i \in Nat \ {0}, Goto(t, label, i),
         results' = results, observed' = observed,
         ran' = ran \/ ran' = ran \cup {<<t, Number(t)>>},
         Number(t) <= Len(program[t]),
         label \in Signalling => <<t, Number(t)>> \in ran',
         <<t, Number(t)>> \in ran' =>
           /\ label \in Signalling \cup Failing
           /\ \A j \in DOMAIN Call(t).waits :
                value'[Call(t).waits[j].sem] >= Call(t).waits[j].value
  PROVE  /\ pc'[t] = label /\ idx'[t] = i /\ program'[t] = program[t]
         /\ results'[t] = results[t]
         /\ Number(t)' = Number(t) /\ Call(t)' = Call(t)
         /\ RanInv(t)' /\ SettledInv(t)'
         /\ label # "queryValue" => SeenInv(t)'
  <1>1. pc'[t] = label /\ idx'[t] = i
    BY GotoTypes
  <1>2. program'[t] = program[t] /\ results'[t] = results[t]
    BY DEF Forward
  <1>3. Number(t)' = Number(t) /\ Call(t)' = Call(t)
    BY <1>2 DEF Number, Call
  <1>4. Number(t) \in Nat \ {0} /\ Call(t) = program[t][Number(t)]
    BY ProgramTypes DEF Call
  <1>5. RanInv(t) /\ SettledInv(t) /\ SeenInv(t) /\ PlaceInv(t)
    BY DEF ThreadInv
  <1>6. RanInv(t)'
    <2>1. ASSUME NEW n \in Nat, <<t, n>> \in ran'
          PROVE  /\ 1 <= n /\ n <= Number(t) /\ n <= Len(program[t])
                 /\ \A j \in DOMAIN program[t][n].waits :
                      value'[program[t][n].waits[j].sem] >= program[t][n].waits[j].value
      <3>1. CASE <<t, n>> \in ran
        BY <1>5, <3>1, RanStays
      <3>2. CASE <<t, n>> \notin ran
        <4>1. n = Number(t)
          BY <2>1, <3>2
        <4> QED BY <1>4, <2>1, <4>1
      <3> QED BY <3>1, <3>2
    <2> QED BY <1>1, <1>2, <1>3, <2>1 DEF RanInv, Reached
  <1>7. SettledInv(t)'
    BY <1>2, <1>5, SettledStays DEF SettledInv, Reached
  <1>8. label # "queryValue" => SeenInv(t)'
    BY <1>1, <1>5, SeenStays DEF SeenInv, Failure
  <1> QED BY <1>1, <1>2, <1>3, <1>6, <1>7, <1>8

(* A thread whose call is over.                                            *)
LEMMA Returns ==
  ASSUME TypeOK, TypeOK', Forward, NEW t \in Threads, ThreadInv(t),
         NEW r \in {"ok", "error"}, Return(t, r), ran' = ran,
         pc[t] # "ready", points'[t] = {}, ~poisoned'[t],
         \A s \in Semaphores :
           observed'[t][s] <= value'[s] \/ (observed'[t][s] = Failure /\ failed'[s]),
         \A i \in DOMAIN Call(t).signals :
           IF r = "ok" THEN value'[Call(t).signals[i].sem] >= Call(t).signals[i].value
           ELSE Call(t).kind \in QueueKinds => failed'[Call(t).signals[i].sem]
  PROVE  ThreadInv(t)'
  <1>1. PlaceInv(t) /\ RanInv(t) /\ SettledInv(t)
    BY DEF ThreadInv
  <1>2. pc'[t] = "ready" /\ program'[t] = program[t]
    BY ReturnTypes DEF Forward
  <1>3. /\ Len(results'[t]) = Number(t) /\ Number(t)' = Number(t) + 1
        /\ Number(t) \in Nat \ {0} /\ Number(t) <= Len(program[t])
    BY <1>1, ReturnTypes, ProgramTypes DEF Number, PlaceInv
  <1>4. PlaceInv(t)'
    BY <1>2, <1>3 DEF PlaceInv, Signalling, Failing
  <1>5. LoopInv(t)'
    BY <1>2 DEF LoopInv, Signalling, Failing
  <1>6. RanInv(t)'
    <2>1. \A n \in Nat : <<t, n>> \in ran' => n <= Number(t)
      BY <1>1 DEF RanInv
    <2>2. <<t, Number(t) + 1>> \notin ran'
      BY <1>3, <2>1
    <2>3. \A n \in Nat : <<t, n>> \in ran' =>
            /\ 1 <= n /\ n <= Number(t) + 1 /\ n <= Len(program[t])
            /\ \A i \in DOMAIN program[t][n].waits :
                 value'[program[t][n].waits[i].sem] >= program[t][n].waits[i].value
      BY <1>1, <1>3, RanStays
    <2> QED BY <1>2, <1>3, <2>2, <2>3 DEF RanInv, Reached, Signalling
  <1>7. SeenInv(t)'
    BY <1>2 DEF SeenInv, Failure
  <1>8. SettledInv(t)'
    <2>1. ASSUME NEW n \in DOMAIN results'[t], NEW i \in DOMAIN program[t][n].signals
          PROVE  LET c == program[t][n] IN
                 IF results'[t][n] = "ok" THEN value'[c.signals[i].sem] >= c.signals[i].value
                 ELSE c.kind \in QueueKinds => failed'[c.signals[i].sem]
      <3>1. n \in 1 .. Number(t)
        BY <1>3, ReturnTypes
      <3>2. CASE n = Number(t)
        BY <3>2, ReturnTypes DEF Call
      <3>3. CASE n # Number(t)
        <4>1. n \in DOMAIN results[t] /\ results'[t][n] = results[t][n]
          <5>1. /\ Len(results[t]) \in Nat /\ Number(t) = Len(results[t]) + 1
                /\ DOMAIN results[t] = 1 .. Len(results[t])
            BY ProgramTypes DEF Number
          <5>2. n \in 1 .. Len(results[t])
            BY <3>1, <3>3, <5>1
          <5>3. results'[t][n] = results[t][n]
            BY <5>2, ReturnTypes
          <5> QED BY <5>1, <5>2, <5>3
        <4> QED BY <1>1, <4>1, SettledStays
      <3> QED BY <3>2, <3>3
    <2> QED BY <1>2, <2>1 DEF SettledInv, Reached
  <1> QED BY <1>4, <1>5, <1>6, <1>7, <1>8 DEF ThreadInv

-----------------------------------------------------------------------------
(* The call a thread is in.                                                *)
LEMMA InCall ==
  ASSUME TypeOK, NEW t \in Threads, Number(t) <= Len(program[t])
  PROVE  /\ Number(t) \in 1 .. Len(program[t])
         /\ Call(t) \in Calls /\ Call(t).kind \in Kinds
         /\ idx[t] \in Nat \ {0} /\ idx[t] + 1 \in Nat \ {0}
  <1>1. Number(t) \in 1 .. Len(program[t])
    BY ProgramTypes
  <1>2. Call(t) \in Calls /\ Call(t).kind \in Kinds
    BY <1>1, CallTypes DEF Call
  <1>3. idx[t] \in Nat \ {0}
    BY DEF TypeOK
  <1> QED BY <1>1, <1>2, <1>3

(* An index of one of its lists.                                           *)
LEMMA WaitIndex ==
  ASSUME TypeOK, NEW t \in Threads, Number(t) <= Len(program[t]),
         NEW i \in DOMAIN Call(t).waits
  PROVE  /\ i \in Nat /\ 1 <= i /\ i <= Len(Call(t).waits) /\ Len(Call(t).waits) \in Nat
         /\ Call(t).waits[i] \in Points
  <1>1. Number(t) \in 1 .. Len(program[t])
    BY InCall
  <1>2. /\ Len(Call(t).waits) \in Nat /\ DOMAIN Call(t).waits = 1 .. Len(Call(t).waits)
        /\ \A j \in 1 .. Len(Call(t).waits) : Call(t).waits[j] \in Points
    BY <1>1, CallTypes DEF Call
  <1> QED BY <1>2

LEMMA SignalIndex ==
  ASSUME TypeOK, NEW t \in Threads, Number(t) <= Len(program[t]),
         NEW i \in DOMAIN Call(t).signals
  PROVE  /\ i \in Nat /\ 1 <= i /\ i <= Len(Call(t).signals) /\ Len(Call(t).signals) \in Nat
         /\ Call(t).signals[i] \in Points
  <1>1. Number(t) \in 1 .. Len(program[t])
    BY InCall
  <1>2. /\ Len(Call(t).signals) \in Nat /\ DOMAIN Call(t).signals = 1 .. Len(Call(t).signals)
        /\ \A j \in 1 .. Len(Call(t).signals) : Call(t).signals[j] \in Points
    BY <1>1, CallTypes DEF Call
  <1> QED BY <1>2

(* Its commands have run only when it signals or fails.                    *)
LEMMA NotRun ==
  ASSUME TypeOK, NEW t \in Threads, ThreadInv(t), pc[t] \notin Signalling \cup Failing
  PROVE  <<t, Number(t)>> \notin ran
  BY DEF ThreadInv, RanInv

LEMMA HasRun ==
  ASSUME TypeOK, TypeOK', Forward, NEW t \in Threads, ThreadInv(t),
         <<t, Number(t)>> \in ran
  PROVE  \A j \in DOMAIN Call(t).waits :
           value'[Call(t).waits[j].sem] >= Call(t).waits[j].value
  <1>1. Number(t) \in Nat /\ Call(t) = program[t][Number(t)] /\ RanInv(t)
    BY ProgramTypes DEF Call, ThreadInv
  <1> QED BY <1>1, RanStays

(* A loop over the signal list that is at its start has passed nothing.    *)
LEMMA LoopStarts ==
  ASSUME TypeOK, TypeOK', Forward, NEW t \in Threads, ThreadInv(t),
         Number(t) <= Len(program[t]), Call(t)' = Call(t),
         pc'[t] \in {"signal", "fail"}, idx'[t] = 1
  PROVE  LoopInv(t)'
  <1>1. \A i \in DOMAIN Call(t).signals : ~(i < 1)
    BY SignalIndex
  <1> QED BY <1>1 DEF LoopInv, Signalling, Failing

(* A call begins.                                                          *)
LEMMA BeginInv ==
  ASSUME TypeOK, TypeOK', Forward, NEW t \in Threads, ThreadInv(t), Begin(t)
  PROVE  ThreadInv(t)'
  <1> DEFINE label == CASE Call(t).kind = "signal" -> "signal"
                        [] Call(t).kind = "query" -> "query"
                        [] OTHER -> "acquire"
  <1>1. /\ pc[t] = "ready" /\ Number(t) <= Len(program[t])
        /\ Goto(t, label, 1) /\ results' = results /\ observed' = observed
        /\ points' = points /\ poisoned' = poisoned
    BY Zenon DEF Begin, semVars
  <1>2. ran' = IF Call(t).kind = "signal" THEN ran \cup {<<t, Number(t)>>} ELSE ran
    BY Zenon DEF Begin
  <1>3. /\ label \in Labels \cap {"signal", "query", "acquire"}
        /\ label = "signal" <=> Call(t).kind = "signal"
        /\ label = "query" <=> Call(t).kind = "query"
    <2>1. CASE Call(t).kind = "signal"
      BY <2>1, Zenon DEF Labels
    <2>2. CASE Call(t).kind = "query"
      BY <2>2, Zenon DEF Labels
    <2>3. CASE Call(t).kind \notin {"signal", "query"}
      <3>1. label = "acquire"
        BY <2>3
      <3> QED BY <2>3, <3>1 DEF Labels
    <2> QED BY <2>1, <2>2, <2>3
  <1> HIDE DEF label
  <1>4. PlaceInv(t) /\ points[t] = {} /\ ~poisoned[t]
    BY <1>1 DEF ThreadInv, PlaceInv
  <1>5. <<t, Number(t)>> \notin ran
    BY <1>1, NotRun DEF Signalling, Failing
  <1>6. Call(t).kind = "signal" => DOMAIN Call(t).waits = {}
    <2>1. Call(t).kind = "signal" => Call(t).waits = <<>>
      BY <1>1, InCall DEF Calls
    <2> QED BY <2>1
  <1>7. /\ pc'[t] = label /\ idx'[t] = 1 /\ program'[t] = program[t]
        /\ results'[t] = results[t]
        /\ Number(t)' = Number(t) /\ Call(t)' = Call(t)
        /\ RanInv(t)' /\ SettledInv(t)' /\ SeenInv(t)'
    <2>1. label \in Signalling => <<t, Number(t)>> \in ran'
      BY <1>2, <1>3 DEF Signalling
    <2>2. <<t, Number(t)>> \in ran' => label = "signal" /\ DOMAIN Call(t).waits = {}
      BY <1>2, <1>3, <1>5, <1>6
    <2>3. ran' = ran \/ ran' = ran \cup {<<t, Number(t)>>}
      BY <1>2
    <2>4. label \in Labels /\ 1 \in Nat \ {0} /\ label # "queryValue"
      BY <1>3
    <2> QED BY <1>1, <2>1, <2>2, <2>3, <2>4, GoesOn DEF Signalling
  <1>8. Call(t).kind \in Kinds
    BY <1>1, InCall
  <1>9. PlaceInv(t)'
    BY <1>1, <1>3, <1>4, <1>7, <1>8
       DEF PlaceInv, Signalling, Failing, Kinds, QueueKinds
  <1>10. LoopInv(t)'
    <2>1. \A i \in DOMAIN Call(t).waits : ~(i < 1)
      BY <1>1, WaitIndex
    <2>2. \A i \in DOMAIN Call(t).signals : ~(i < 1)
      BY <1>1, SignalIndex
    <2> QED BY <1>3, <1>7, <2>1, <2>2 DEF LoopInv, Signalling, Failing
  <1> QED BY <1>7, <1>9, <1>10 DEF ThreadInv

(* The wait list is gone through, entry by entry.                          *)
LEMMA AcquireInv ==
  ASSUME TypeOK, TypeOK', Forward, NEW t \in Threads, ThreadInv(t), AcquireNext(t)
  PROVE  ThreadInv(t)'
  <1>1. /\ pc[t] = "acquire" /\ Acquire(t, Entry(t)) /\ More(t, Call(t).waits)
        /\ Goto(t, "acquire", idx[t] + 1)
        /\ results' = results /\ observed' = observed /\ ran' = ran
    BY DEF AcquireNext, Stay
  <1>2. PlaceInv(t) /\ LoopInv(t)
    BY DEF ThreadInv
  <1>3. Number(t) <= Len(program[t])
    BY <1>1, <1>2 DEF PlaceInv
  <1>4. <<t, Number(t)>> \notin ran
    BY <1>1, NotRun DEF Signalling, Failing
  <1>5. /\ pc'[t] = "acquire" /\ idx'[t] = idx[t] + 1 /\ program'[t] = program[t]
        /\ results'[t] = results[t]
        /\ Number(t)' = Number(t) /\ Call(t)' = Call(t)
        /\ RanInv(t)' /\ SettledInv(t)' /\ SeenInv(t)'
    <2>1. /\ <<t, Number(t)>> \notin ran' /\ "acquire" \notin Signalling
          /\ "acquire" \in Labels /\ "acquire" # "queryValue"
      BY <1>1, <1>4 DEF Signalling, Labels
    <2>2. idx[t] + 1 \in Nat \ {0}
      BY <1>3, InCall
    <2> QED BY <1>1, <1>3, <2>1, <2>2, GoesOn
  <1>6. PlaceInv(t)'
    BY <1>2, <1>1, <1>5 DEF PlaceInv, Signalling, Failing
  <1>7. LoopInv(t)'
    <2>1. Entry(t) \in Points /\ Entry(t) = Call(t).waits[idx[t]]
      BY <1>1, <1>2, EntryTypes
    <2>2. value' = value
      BY <1>1 DEF Acquire
    <2>3. \/ poisoned'[t]
          \/ /\ Reached(Entry(t)) \/ Entry(t) \in points'[t]
             /\ points[t] \subseteq points'[t]
             /\ poisoned'[t] = poisoned[t]
      BY <1>1 DEF Acquire, TypeOK, SemTypeOK
    <2>4. ASSUME ~poisoned'[t], NEW i \in DOMAIN Call(t).waits, i < idx[t] + 1
          PROVE  Reached(Call(t).waits[i]) \/ Call(t).waits[i] \in points'[t]
      <3>1. CASE i = idx[t]
        BY <2>1, <2>3, <2>4, <3>1
      <3>2. CASE i < idx[t]
        BY <1>1, <1>2, <2>3, <2>4, <3>2 DEF LoopInv
      <3>3. i \in Nat /\ idx[t] \in Nat
        BY <1>3, WaitIndex, InCall
      <3> QED BY <2>4, <3>1, <3>2, <3>3
    <2> QED BY <1>5, <2>2, <2>4 DEF LoopInv, Reached, Signalling, Failing
  <1> QED BY <1>5, <1>6, <1>7 DEF ThreadInv

(* When the wait ends well, all of the wait list is reached.               *)
LEMMA WaitOver ==
  ASSUME TypeOK, NEW t \in Threads, ThreadInv(t), Waiting(t), points[t] = {}, ~poisoned[t]
  PROVE  \A i \in DOMAIN Call(t).waits : Reached(Call(t).waits[i])
  <1>1. PlaceInv(t) /\ LoopInv(t) /\ pc[t] = "acquire" /\ ~More(t, Call(t).waits)
    BY DEF ThreadInv, Waiting
  <1>2. Number(t) \in 1 .. Len(program[t])
    BY <1>1, ProgramTypes DEF PlaceInv
  <1>3. DOMAIN Call(t).waits = 1 .. Len(Call(t).waits) /\ Len(Call(t).waits) \in Nat
    BY <1>2, CallTypes DEF Call
  <1>4. idx[t] \in Nat
    BY DEF TypeOK
  <1> QED BY <1>1, <1>3, <1>4 DEF LoopInv, More

LEMMA WaitReachedInv ==
  ASSUME TypeOK, TypeOK', Forward, NEW t \in Threads, ThreadInv(t), WaitReached(t)
  PROVE  ThreadInv(t)'
  <1>1. /\ Waiting(t) /\ points[t] = {} /\ ~poisoned[t] /\ Cancel(t)
        /\ program' = program /\ observed' = observed
    BY Zenon DEF WaitReached
  <1>2. /\ pc[t] = "acquire" /\ value' = value
        /\ points'[t] = {} /\ ~poisoned'[t]
    BY <1>1 DEF Waiting, Cancel, TypeOK, SemTypeOK
  <1>3. PlaceInv(t) /\ SeenInv(t) /\ Number(t) <= Len(program[t])
    BY <1>2 DEF ThreadInv, PlaceInv
  <1>4. \A i \in DOMAIN Call(t).waits : value'[Call(t).waits[i].sem] >= Call(t).waits[i].value
    BY <1>1, <1>2, WaitOver DEF Reached
  <1>5. <<t, Number(t)>> \notin ran
    BY <1>2, NotRun DEF Signalling, Failing
  <1>6. Call(t).kind \in QueueKinds \cup {"wait"}
    BY <1>2, <1>3 DEF PlaceInv
  <1>7. CASE Call(t).kind = "wait"
    <2>1. Return(t, "ok") /\ ran' = ran
      BY <1>7, Zenon DEF WaitReached
    <2>2. DOMAIN Call(t).signals = {}
      <3>1. Call(t).signals = <<>>
        BY <1>3, <1>7, InCall DEF Calls
      <3> QED BY <3>1
    <2> QED BY <1>1, <1>2, <1>3, <2>1, <2>2, SeenStays, Returns
  <1>8. CASE Call(t).kind = "dealloca"
    <2>1. /\ Goto(t, "signal", 1) /\ results' = results
          /\ ran' = ran \cup {<<t, Number(t)>>}
      BY <1>8 DEF WaitReached
    <2>2. /\ pc'[t] = "signal" /\ idx'[t] = 1 /\ program'[t] = program[t]
          /\ results'[t] = results[t]
          /\ Number(t)' = Number(t) /\ Call(t)' = Call(t)
          /\ RanInv(t)' /\ SettledInv(t)' /\ SeenInv(t)'
      <3>1. <<t, Number(t)>> \in ran' /\ "signal" \in Signalling /\ "signal" \in Labels
        BY <2>1 DEF Signalling, Labels
      <3>2. "signal" # "queryValue" /\ 1 \in Nat \ {0}
        OBVIOUS
      <3>3. ran' = ran \/ ran' = ran \cup {<<t, Number(t)>>}
        BY <2>1
      <3>4. Goto(t, "signal", 1) /\ results' = results /\ observed' = observed
        BY <1>1, <2>1
      <3> QED BY <1>3, <1>4, <3>1, <3>2, <3>3, <3>4, GoesOn
    <2>3. PlaceInv(t)'
      BY <1>2, <1>3, <1>8, <2>2 DEF PlaceInv, Signalling, Failing, QueueKinds
    <2>4. LoopInv(t)'
      BY <1>3, <2>2, LoopStarts
    <2> QED BY <2>2, <2>3, <2>4 DEF ThreadInv
  <1>9. CASE Call(t).kind \in {"execute", "alloca"}
    <2>1. Goto(t, "work", 1) /\ results' = results /\ ran' = ran
      BY <1>9 DEF WaitReached
    <2>2. /\ pc'[t] = "work" /\ idx'[t] = 1 /\ program'[t] = program[t]
          /\ results'[t] = results[t]
          /\ Number(t)' = Number(t) /\ Call(t)' = Call(t)
          /\ RanInv(t)' /\ SettledInv(t)' /\ SeenInv(t)'
      BY <1>1, <1>3, <1>5, <2>1, GoesOn DEF Labels, Signalling
    <2>3. PlaceInv(t)'
      BY <1>2, <1>3, <1>9, <2>2 DEF PlaceInv, Signalling, Failing
    <2>4. LoopInv(t)'
      BY <1>4, <2>2 DEF LoopInv, Signalling, Failing, Reached
    <2> QED BY <2>2, <2>3, <2>4 DEF ThreadInv
  <1> QED BY <1>6, <1>7, <1>8, <1>9 DEF QueueKinds

(* A thread that gives up and fails its signal list.                       *)
LEMMA StartsFailing ==
  ASSUME TypeOK, TypeOK', Forward, NEW t \in Threads, ThreadInv(t), pc[t] # "ready",
         Goto(t, "fail", 1), results' = results, observed' = observed, ran' = ran,
         points'[t] = {}, ~poisoned'[t], Call(t).kind \in QueueKinds
  PROVE  ThreadInv(t)'
  <1>1. Number(t) <= Len(program[t]) /\ PlaceInv(t)
    BY DEF ThreadInv, PlaceInv
  <1>2. /\ "fail" \in Labels /\ "fail" \notin Signalling /\ "fail" \in Signalling \cup Failing
        /\ "fail" # "queryValue" /\ 1 \in Nat \ {0}
    BY DEF Labels, Signalling, Failing
  <1>3. <<t, Number(t)>> \in ran => \A j \in DOMAIN Call(t).waits :
          value'[Call(t).waits[j].sem] >= Call(t).waits[j].value
    BY HasRun
  <1>4. /\ pc'[t] = "fail" /\ idx'[t] = 1 /\ program'[t] = program[t]
        /\ results'[t] = results[t]
        /\ Number(t)' = Number(t) /\ Call(t)' = Call(t)
        /\ RanInv(t)' /\ SettledInv(t)' /\ SeenInv(t)'
    BY <1>1, <1>2, <1>3, GoesOn
  <1>5. PlaceInv(t)'
    BY <1>1, <1>4 DEF PlaceInv, Signalling, Failing
  <1>6. LoopInv(t)'
    BY <1>1, <1>4, LoopStarts
  <1> QED BY <1>4, <1>5, <1>6 DEF ThreadInv

LEMMA WaitFailedInv ==
  ASSUME TypeOK, TypeOK', Forward, NEW t \in Threads, ThreadInv(t),
         WaitFailed(t) \/ WaitTimesOut(t)
  PROVE  ThreadInv(t)'
  <1>1. /\ Waiting(t) /\ Cancel(t)
        /\ program' = program /\ observed' = observed /\ ran' = ran
    BY DEF WaitFailed, WaitTimesOut
  <1>2. /\ pc[t] = "acquire" /\ points'[t] = {} /\ ~poisoned'[t]
    BY <1>1 DEF Waiting, Cancel, TypeOK, SemTypeOK
  <1>3. PlaceInv(t) /\ SeenInv(t) /\ Number(t) <= Len(program[t])
    BY <1>2 DEF ThreadInv, PlaceInv
  <1>4. CASE Call(t).kind = "wait"
    <2>1. Return(t, "error")
      BY <1>4 DEF WaitFailed, WaitTimesOut
    <2>2. Call(t).kind \notin QueueKinds
      BY <1>4 DEF QueueKinds
    <2> QED BY <1>1, <1>2, <1>3, <2>1, <2>2, SeenStays, Returns
  <1>5. CASE Call(t).kind # "wait"
    <2>1. Goto(t, "fail", 1) /\ results' = results
      BY <1>5 DEF WaitFailed, WaitTimesOut
    <2>2. Call(t).kind \in QueueKinds
      BY <1>2, <1>3, <1>5 DEF PlaceInv
    <2> QED BY <1>1, <1>2, <2>1, <2>2, StartsFailing
  <1> QED BY <1>4, <1>5

(* The commands run, or fail.                                              *)
LEMMA WorkInv ==
  ASSUME TypeOK, TypeOK', Forward, NEW t \in Threads, ThreadInv(t), Work(t)
  PROVE  ThreadInv(t)'
  <1>1. /\ pc[t] = "work" /\ Goto(t, "signal", 1) /\ results' = results
        /\ observed' = observed /\ value' = value
        /\ points' = points /\ poisoned' = poisoned
    BY DEF Work, semVars
  <1>2. ran' = ran \cup {<<t, Number(t)>>}
    BY DEF Work
  <1>3. /\ PlaceInv(t) /\ LoopInv(t) /\ Number(t) <= Len(program[t])
        /\ Call(t).kind \in QueueKinds /\ points[t] = {} /\ ~poisoned[t]
    BY <1>1 DEF ThreadInv, PlaceInv, QueueKinds
  <1>4. \A j \in DOMAIN Call(t).waits :
          value'[Call(t).waits[j].sem] >= Call(t).waits[j].value
    BY <1>1, <1>3 DEF LoopInv, Reached
  <1>5. /\ <<t, Number(t)>> \in ran' /\ "signal" \in Signalling /\ "signal" \in Labels
        /\ "signal" # "queryValue" /\ 1 \in Nat \ {0}
    BY <1>2 DEF Signalling, Labels
  <1>6. ran' = ran \/ ran' = ran \cup {<<t, Number(t)>>}
    BY <1>2
  <1>7. /\ pc'[t] = "signal" /\ idx'[t] = 1 /\ program'[t] = program[t]
        /\ results'[t] = results[t]
        /\ Number(t)' = Number(t) /\ Call(t)' = Call(t)
        /\ RanInv(t)' /\ SettledInv(t)' /\ SeenInv(t)'
    BY <1>1, <1>3, <1>4, <1>5, <1>6, GoesOn
  <1>8. PlaceInv(t)'
    BY <1>1, <1>3, <1>7 DEF PlaceInv, Signalling, Failing
  <1>9. LoopInv(t)'
    BY <1>3, <1>7, LoopStarts
  <1> QED BY <1>7, <1>8, <1>9 DEF ThreadInv

LEMMA WorkFailsInv ==
  ASSUME TypeOK, TypeOK', Forward, NEW t \in Threads, ThreadInv(t), WorkFails(t)
  PROVE  ThreadInv(t)'
  <1>1. /\ pc[t] = "work" /\ Goto(t, "fail", 1)
        /\ results' = results /\ observed' = observed /\ ran' = ran
        /\ points' = points /\ poisoned' = poisoned
    BY DEF WorkFails, Stay, semVars
  <1>2. Call(t).kind \in QueueKinds /\ points[t] = {} /\ ~poisoned[t]
    BY <1>1 DEF ThreadInv, PlaceInv, QueueKinds
  <1> QED BY <1>1, <1>2, StartsFailing

(* The signal list, entry by entry.                                        *)
LEMMA SignalInv ==
  ASSUME TypeOK, TypeOK', Forward, NEW t \in Threads, ThreadInv(t),
         Signal(t) \/ Resolve(t)
  PROVE  ThreadInv(t)'
  <1>1. /\ pc[t] \in Signalling /\ results' = results /\ observed' = observed
        /\ ran' = ran /\ poisoned' = poisoned
    BY DEF Signal, Resolve, Stay, Advance, ResolvePoints, Signalling
  <1>2. PlaceInv(t) /\ LoopInv(t) /\ RanInv(t)
    BY DEF ThreadInv
  <1>3. /\ Number(t) <= Len(program[t]) /\ Call(t).kind \in QueueKinds \cup {"signal"}
        /\ points[t] = {} /\ ~poisoned[t] /\ <<t, Number(t)>> \in ran
    BY <1>1, <1>2 DEF PlaceInv, RanInv, Signalling
  <1>4. points'[t] = {} /\ ~poisoned'[t]
    BY <1>1, <1>3 DEF Signal, Resolve, Advance, ResolvePoints, TypeOK, SemTypeOK
  <1>5. \A j \in DOMAIN Call(t).waits :
          value'[Call(t).waits[j].sem] >= Call(t).waits[j].value
    BY <1>3, HasRun
  <1>6. /\ Entry(t) \in Points /\ Entry(t).sem \in Semaphores /\ Entry(t).value \in Nat
        /\ idx[t] \in DOMAIN Call(t).signals /\ Entry(t) = Call(t).signals[idx[t]]
    BY <1>2, EntryTypes, SemaphoreAssumption DEF Signal, Resolve
  <1>7. idx[t] \in Nat \ {0} /\ idx[t] + 1 \in Nat \ {0} /\ idx[t] <= Len(Call(t).signals)
    BY <1>3, <1>6, InCall, SignalIndex
  <1>8. \A i \in DOMAIN Call(t).signals : i < idx[t] =>
          value'[Call(t).signals[i].sem] >= Call(t).signals[i].value
    <2> SUFFICES ASSUME NEW i \in DOMAIN Call(t).signals, i < idx[t]
                 PROVE  value'[Call(t).signals[i].sem] >= Call(t).signals[i].value
      OBVIOUS
    <2>1. Reached(Call(t).signals[i])
      BY <1>1, <1>2 DEF LoopInv
    <2>2. Call(t).signals[i] \in Points
      BY <1>3, SignalIndex
    <2> QED BY <2>1, <2>2, ReachedStays DEF Reached
  <1>9. /\ "signal" \in Labels /\ "resolve" \in Labels
        /\ "signal" \in Signalling /\ "resolve" \in Signalling
        /\ "signal" # "queryValue" /\ "resolve" # "queryValue"
    BY DEF Labels, Signalling
  <1>10. CASE Signal(t)
    <2>1. /\ Goto(t, "resolve", idx[t]) /\ value' = [value EXCEPT ![Entry(t).sem] = Entry(t).value]
      BY <1>10 DEF Signal, Advance
    <2>2. value'[Entry(t).sem] = Entry(t).value
      BY <1>6, <2>1 DEF TypeOK, SemTypeOK
    <2>3. /\ pc'[t] = "resolve" /\ idx'[t] = idx[t] /\ program'[t] = program[t]
          /\ results'[t] = results[t]
          /\ Number(t)' = Number(t) /\ Call(t)' = Call(t)
          /\ RanInv(t)' /\ SettledInv(t)' /\ SeenInv(t)'
      BY <1>1, <1>3, <1>5, <1>7, <1>9, <2>1, GoesOn
    <2>4. PlaceInv(t)'
      BY <1>2, <1>3, <1>4, <1>7, <2>3 DEF PlaceInv, Signalling, Failing
    <2>5. Entry(t)' = Entry(t)
      BY <1>6, <2>3 DEF Entry
    <2>6. LoopInv(t)'
      BY <1>6, <1>8, <2>2, <2>3, <2>5 DEF LoopInv, Reached, Failing
    <2> QED BY <2>3, <2>4, <2>6 DEF ThreadInv
  <1>11. CASE Resolve(t)
    <2>1. pc[t] = "resolve" /\ Goto(t, "signal", idx[t] + 1) /\ value' = value
      BY <1>11 DEF Resolve, ResolvePoints
    <2>2. value'[Entry(t).sem] >= Entry(t).value
      BY <1>2, <2>1 DEF LoopInv, Reached
    <2>3. /\ pc'[t] = "signal" /\ idx'[t] = idx[t] + 1 /\ program'[t] = program[t]
          /\ results'[t] = results[t]
          /\ Number(t)' = Number(t) /\ Call(t)' = Call(t)
          /\ RanInv(t)' /\ SettledInv(t)' /\ SeenInv(t)'
      BY <1>1, <1>3, <1>5, <1>7, <1>9, <2>1, GoesOn
    <2>4. PlaceInv(t)'
      BY <1>2, <1>3, <1>4, <2>3 DEF PlaceInv, Signalling, Failing
    <2>5. \A i \in DOMAIN Call(t).signals : i < idx[t] + 1 =>
            value'[Call(t).signals[i].sem] >= Call(t).signals[i].value
      <3>1. \A i \in DOMAIN Call(t).signals : i < idx[t] + 1 => i < idx[t] \/ i = idx[t]
        BY <1>3, <1>7, SignalIndex
      <3> QED BY <1>6, <1>8, <2>2, <3>1
    <2>6. LoopInv(t)'
      BY <2>3, <2>5 DEF LoopInv, Reached, Failing
    <2> QED BY <2>3, <2>4, <2>6 DEF ThreadInv
  <1> QED BY <1>10, <1>11

LEMMA SignalFailsInv ==
  ASSUME TypeOK, TypeOK', Forward, NEW t \in Threads, ThreadInv(t), SignalFails(t)
  PROVE  ThreadInv(t)'
  <1>1. /\ pc[t] = "signal" /\ observed' = observed /\ ran' = ran
        /\ points' = points /\ poisoned' = poisoned
    BY DEF SignalFails, semVars
  <1>2. /\ points[t] = {} /\ ~poisoned[t] /\ Call(t).kind \in QueueKinds \cup {"signal"}
        /\ SeenInv(t)
    BY <1>1 DEF ThreadInv, PlaceInv, Signalling
  <1>3. CASE Call(t).kind = "signal"
    <2>1. Return(t, "error")
      BY <1>3 DEF SignalFails
    <2>2. Call(t).kind \notin QueueKinds
      BY <1>3 DEF QueueKinds
    <2> QED BY <1>1, <1>2, <2>1, <2>2, SeenStays, Returns
  <1>4. CASE Call(t).kind # "signal"
    <2>1. Goto(t, "fail", 1) /\ results' = results
      BY <1>4 DEF SignalFails
    <2> QED BY <1>1, <1>2, <1>4, <2>1, StartsFailing
  <1> QED BY <1>3, <1>4

LEMMA SignalDoneInv ==
  ASSUME TypeOK, TypeOK', Forward, NEW t \in Threads, ThreadInv(t), SignalDone(t)
  PROVE  ThreadInv(t)'
  <1>1. /\ pc[t] = "signal" /\ observed' = observed /\ ran' = ran
        /\ points' = points /\ poisoned' = poisoned
        /\ ~More(t, Call(t).signals) /\ Return(t, "ok")
    BY DEF SignalDone, semVars
  <1>2. /\ points[t] = {} /\ ~poisoned[t] /\ SeenInv(t) /\ LoopInv(t)
        /\ Number(t) <= Len(program[t])
    BY <1>1 DEF ThreadInv, PlaceInv
  <1>3. ASSUME NEW i \in DOMAIN Call(t).signals
        PROVE  value'[Call(t).signals[i].sem] >= Call(t).signals[i].value
    <2>1. i < idx[t] /\ Call(t).signals[i] \in Points
      BY <1>1, <1>2, SignalIndex, InCall DEF More
    <2>2. Reached(Call(t).signals[i])
      BY <1>1, <1>2, <2>1 DEF LoopInv, Signalling
    <2> QED BY <2>1, <2>2, ReachedStays DEF Reached
  <1> QED BY <1>1, <1>2, <1>3, SeenStays, Returns

(* The signal list is failed, entry by entry.                              *)
LEMMA FailInv ==
  ASSUME TypeOK, TypeOK', Forward, NEW t \in Threads, ThreadInv(t),
         Fail(t) \/ Poison(t)
  PROVE  ThreadInv(t)'
  <1>1. /\ pc[t] \in Failing /\ results' = results /\ observed' = observed /\ ran' = ran
    BY DEF Fail, Poison, Stay, Failing
  <1>2. PlaceInv(t) /\ LoopInv(t)
    BY DEF ThreadInv
  <1>3. /\ Number(t) <= Len(program[t]) /\ Call(t).kind \in QueueKinds
        /\ points[t] = {} /\ ~poisoned[t]
    BY <1>1, <1>2 DEF PlaceInv, Failing
  <1>4. points'[t] = {} /\ ~poisoned'[t]
    <2>1. CASE points' = points /\ poisoned' = poisoned
      BY <1>3, <2>1
    <2>2. CASE Poison(t)
      <3>1. /\ points'[t] = {q \in points[t] : q.sem # Entry(t).sem}
            /\ poisoned'[t] = (poisoned[t] \/ \E q \in points[t] : q.sem = Entry(t).sem)
        BY <2>2 DEF Poison, PoisonPoints
      <3> QED BY <1>3, <3>1
    <2> QED BY <2>1, <2>2 DEF Fail, SetFailure
  <1>5. <<t, Number(t)>> \in ran => \A j \in DOMAIN Call(t).waits :
          value'[Call(t).waits[j].sem] >= Call(t).waits[j].value
    BY HasRun
  <1>6. /\ Entry(t).sem \in Semaphores
        /\ idx[t] \in DOMAIN Call(t).signals /\ Entry(t) = Call(t).signals[idx[t]]
    BY <1>2, EntryTypes DEF Fail, Poison
  <1>7. idx[t] \in Nat \ {0} /\ idx[t] + 1 \in Nat \ {0} /\ idx[t] <= Len(Call(t).signals)
    BY <1>3, <1>6, InCall, SignalIndex
  <1>8. \A i \in DOMAIN Call(t).signals : i < idx[t] => failed'[Call(t).signals[i].sem]
    BY <1>1, <1>2, <1>3, SignalIndex, FailedStays DEF LoopInv
  <1>9. /\ "fail" \in Labels /\ "poison" \in Labels
        /\ "fail" \notin Signalling /\ "poison" \notin Signalling
        /\ "fail" \in Signalling \cup Failing /\ "poison" \in Signalling \cup Failing
        /\ "fail" # "queryValue" /\ "poison" # "queryValue"
    BY DEF Labels, Signalling, Failing
  <1>10. failed'[Entry(t).sem]
    <2>1. CASE Fail(t)
      BY <1>6, <2>1 DEF Fail, SetFailure, TypeOK, SemTypeOK
    <2>2. CASE Poison(t)
      BY <1>2, <2>2 DEF Poison, PoisonPoints, LoopInv
    <2> QED BY <2>1, <2>2
  <1>11. CASE Goto(t, "poison", idx[t])
    <2>1. /\ pc'[t] = "poison" /\ idx'[t] = idx[t] /\ program'[t] = program[t]
          /\ results'[t] = results[t]
          /\ Number(t)' = Number(t) /\ Call(t)' = Call(t)
          /\ RanInv(t)' /\ SettledInv(t)' /\ SeenInv(t)'
      BY <1>1, <1>3, <1>5, <1>7, <1>9, <1>11, GoesOn
    <2>2. PlaceInv(t)'
      BY <1>2, <1>3, <1>4, <1>7, <2>1 DEF PlaceInv, Signalling, Failing
    <2>3. Entry(t)' = Entry(t)
      BY <1>6, <2>1 DEF Entry
    <2>4. LoopInv(t)'
      BY <1>8, <1>10, <2>1, <2>3 DEF LoopInv, Signalling
    <2> QED BY <2>1, <2>2, <2>4 DEF ThreadInv
  <1>12. CASE Goto(t, "fail", idx[t] + 1)
    <2>1. /\ pc'[t] = "fail" /\ idx'[t] = idx[t] + 1 /\ program'[t] = program[t]
          /\ results'[t] = results[t]
          /\ Number(t)' = Number(t) /\ Call(t)' = Call(t)
          /\ RanInv(t)' /\ SettledInv(t)' /\ SeenInv(t)'
      BY <1>1, <1>3, <1>5, <1>7, <1>9, <1>12, GoesOn
    <2>2. PlaceInv(t)'
      BY <1>2, <1>3, <1>4, <2>1 DEF PlaceInv, Signalling, Failing
    <2>3. \A i \in DOMAIN Call(t).signals : i < idx[t] + 1 => failed'[Call(t).signals[i].sem]
      <3>1. \A i \in DOMAIN Call(t).signals : i < idx[t] + 1 => i < idx[t] \/ i = idx[t]
        BY <1>3, <1>7, SignalIndex
      <3> QED BY <1>6, <1>8, <1>10, <3>1
    <2>4. LoopInv(t)'
      BY <2>1, <2>3 DEF LoopInv, Signalling
    <2> QED BY <2>1, <2>2, <2>4 DEF ThreadInv
  <1> QED BY <1>11, <1>12 DEF Fail, Poison

LEMMA FailDoneInv ==
  ASSUME TypeOK, TypeOK', Forward, NEW t \in Threads, ThreadInv(t), FailDone(t)
  PROVE  ThreadInv(t)'
  <1>1. /\ pc[t] = "fail" /\ observed' = observed /\ ran' = ran
        /\ points' = points /\ poisoned' = poisoned
        /\ ~More(t, Call(t).signals) /\ Return(t, "error")
    BY DEF FailDone, semVars
  <1>2. /\ points[t] = {} /\ ~poisoned[t] /\ SeenInv(t) /\ LoopInv(t)
        /\ Number(t) <= Len(program[t])
    BY <1>1 DEF ThreadInv, PlaceInv
  <1>3. ASSUME NEW i \in DOMAIN Call(t).signals
        PROVE  failed'[Call(t).signals[i].sem]
    <2>1. i < idx[t] /\ Call(t).signals[i] \in Points
      BY <1>1, <1>2, SignalIndex, InCall DEF More
    <2>2. failed[Call(t).signals[i].sem]
      BY <1>1, <1>2, <2>1 DEF LoopInv, Failing
    <2> QED BY <2>1, <2>2, FailedStays
  <1> QED BY <1>1, <1>2, <1>3, SeenStays, Returns

(* A query loads the failure, then the value.                              *)
LEMMA QueryNoFailureInv ==
  ASSUME TypeOK, TypeOK', Forward, NEW t \in Threads, ThreadInv(t), QueryNoFailure(t)
  PROVE  ThreadInv(t)'
  <1>1. /\ pc[t] = "query" /\ ~failed[Entry(t).sem]
        /\ Goto(t, "queryValue", 1)
        /\ results' = results /\ observed' = observed /\ ran' = ran
        /\ value' = value /\ points' = points /\ poisoned' = poisoned
    BY DEF QueryNoFailure, Stay, semVars
  <1>2. /\ PlaceInv(t) /\ SeenInv(t) /\ Number(t) <= Len(program[t])
        /\ Call(t).kind = "query" /\ idx[t] = 1
        /\ points[t] = {} /\ ~poisoned[t]
    BY <1>1 DEF ThreadInv, PlaceInv
  <1>3. /\ "queryValue" \in Labels /\ "queryValue" \notin Signalling /\ 1 \in Nat \ {0}
    BY DEF Labels, Signalling
  <1>4. <<t, Number(t)>> \notin ran'
    BY <1>1, NotRun DEF Signalling, Failing
  <1>5. /\ pc'[t] = "queryValue" /\ idx'[t] = 1 /\ program'[t] = program[t]
        /\ results'[t] = results[t]
        /\ Number(t)' = Number(t) /\ Call(t)' = Call(t)
        /\ RanInv(t)' /\ SettledInv(t)'
    BY <1>1, <1>2, <1>3, <1>4, GoesOn
  <1>6. PlaceInv(t)'
    BY <1>1, <1>2, <1>5 DEF PlaceInv, Signalling, Failing
  <1>7. LoopInv(t)'
    BY <1>5 DEF LoopInv, Signalling, Failing
  <1>8. SeenInv(t)'
    <2>1. Entry(t)' = Entry(t)
      BY <1>1, <1>2, <1>5 DEF Entry
    <2>2. Entry(t).sem \in Semaphores
      BY <1>1, <1>2, EntryTypes
    <2>3. observed'[t][Entry(t).sem] <= value'[Entry(t).sem]
      BY <1>1, <1>2, <2>2 DEF SeenInv
    <2> QED BY <1>1, <1>2, <2>1, <2>3, SeenStays DEF SeenInv, Failure
  <1> QED BY <1>5, <1>6, <1>7, <1>8 DEF ThreadInv

LEMMA ObserveInv ==
  ASSUME TypeOK, TypeOK', Forward, NEW t \in Threads, ThreadInv(t),
         QueryFailure(t) \/ QueryValue(t)
  PROVE  /\ ThreadInv(t)'
         /\ \A s \in Semaphores : observed'[t][s] >= observed[t][s]
  <1>1. /\ pc[t] \in {"query", "queryValue"} /\ Return(t, "ok") /\ ran' = ran
        /\ value' = value /\ failed' = failed /\ points' = points /\ poisoned' = poisoned
    BY DEF QueryFailure, QueryValue, Observe, semVars
  <1>2. /\ PlaceInv(t) /\ SeenInv(t) /\ Number(t) <= Len(program[t])
        /\ Call(t).kind = "query" /\ points[t] = {} /\ ~poisoned[t]
    BY <1>1 DEF ThreadInv, PlaceInv
  <1>3. Entry(t).sem \in Semaphores
    BY <1>1, <1>2, EntryTypes
  <1>4. /\ observed \in [Threads -> [Semaphores -> 0 .. Failure]]
        /\ value[Entry(t).sem] \in Nat /\ Failure \in Nat
        /\ value[Entry(t).sem] <= Failure
    BY <1>3, SemaphoreAssumption DEF TypeOK, SemTypeOK, Failure
  <1>5. ASSUME NEW v \in Nat, Observe(t, v)
        PROVE  /\ observed'[t][Entry(t).sem] = v
               /\ \A s \in Semaphores \ {Entry(t).sem} : observed'[t][s] = observed[t][s]
    BY <1>3, <1>4, <1>5 DEF Observe
  <1>6. /\ \A s \in Semaphores \ {Entry(t).sem} : observed'[t][s] = observed[t][s]
        /\ \/ observed'[t][Entry(t).sem] = Failure /\ failed'[Entry(t).sem]
           \/ /\ observed'[t][Entry(t).sem] = value[Entry(t).sem]
              /\ pc[t] = "queryValue"
    BY <1>1, <1>4, <1>5 DEF QueryFailure, QueryValue
  <1>7. \A s \in Semaphores :
          observed'[t][s] <= value'[s] \/ (observed'[t][s] = Failure /\ failed'[s])
    BY <1>1, <1>2, <1>4, <1>6, SeenStays
  <1>8. \A s \in Semaphores : observed'[t][s] >= observed[t][s]
    <2>1. \A s \in Semaphores : observed[t][s] \in Nat /\ observed[t][s] <= Failure
      BY <1>4
    <2>2. pc[t] = "queryValue" => observed[t][Entry(t).sem] <= value[Entry(t).sem]
      BY <1>2 DEF SeenInv
    <2> QED BY <1>4, <1>6, <2>1, <2>2
  <1>9. DOMAIN Call(t).signals = {}
    <2>1. Call(t).signals = <<>>
      BY <1>2, InCall DEF Calls
    <2> QED BY <2>1
  <1> QED BY <1>1, <1>2, <1>7, <1>8, <1>9, Returns

(* The thread that moves keeps its invariant.                              *)
LEMMA MoverInv ==
  ASSUME TypeOK, TypeOK', Forward, NEW t \in Threads, ThreadInv(t),
         Step(t) \/ WaitTimesOut(t)
  PROVE  ThreadInv(t)'
  BY BeginInv, AcquireInv, WaitReachedInv, WaitFailedInv, WorkInv, WorkFailsInv,
     SignalInv, SignalFailsInv, SignalDoneInv, FailInv, FailDoneInv,
     QueryNoFailureInv, ObserveInv DEF Step

-----------------------------------------------------------------------------
(* What is reached was provided: only a signal of a call that has run      *)
(* moves a timeline.                                                       *)
LEMMA ProvidedStep ==
  ASSUME TypeOK, TypeOK', Forward, NEW t \in Threads, ThreadInv(t),
         Step(t) \/ WaitTimesOut(t), ProvidedInv
  PROVE  ProvidedInv'
  <1> SUFFICES ASSUME NEW p \in Points, value'[p.sem] >= p.value
               PROVE  Provided(p)'
    BY DEF ProvidedInv, Reached
  <1>1. PlaceInv(t) /\ RanInv(t)
    BY DEF ThreadInv
  <1>2. ran \subseteq ran' /\ program' = program
    BY <1>1, Moves
  <1>3. CASE Reached(p)
    BY <1>2, <1>3 DEF ProvidedInv, Provided
  <1>4. CASE Signal(t) /\ Entry(t).sem = p.sem
    <2>1. /\ Number(t) \in 1 .. Len(program[t])
          /\ idx[t] \in DOMAIN Call(t).signals /\ Entry(t) = Call(t).signals[idx[t]]
          /\ Entry(t).sem \in Semaphores
      BY <1>1, <1>4, EntryTypes DEF Signal
    <2>2. value'[p.sem] = Entry(t).value
      BY <1>4, <2>1 DEF Signal, Advance, TypeOK, SemTypeOK
    <2>3. <<t, Number(t)>> \in ran
      BY <1>1, <1>4 DEF RanInv, Signal, Signalling
    <2>4. Entry(t) \in ListRange(program[t][Number(t)].signals)
      BY <2>1 DEF ListRange, Call
    <2>5. \E q \in ListRange(program[t][Number(t)].signals) :
            q.sem = p.sem /\ q.value >= p.value
      BY <1>4, <2>2, <2>4
    <2> DEFINE c == <<t, Number(t)>>
    <2>6. c[1] = t /\ c[2] = Number(t) /\ c \in ran'
      BY <1>2, <2>3
    <2> HIDE DEF c
    <2> QED BY <1>2, <2>5, <2>6 DEF Provided
  <1>5. CASE ~Reached(p) /\ ~(Signal(t) /\ Entry(t).sem = p.sem)
    <2>1. p.sem \in Semaphores
      BY DEF Points
    <2>2. value'[p.sem] = value[p.sem]
      <3>1. CASE Signal(t)
        BY <1>5, <2>1, <3>1 DEF Signal, Advance, TypeOK, SemTypeOK
      <3>2. CASE value' = value
        BY <3>2
      <3> QED
        BY <1>1, <3>1, <3>2, SemStep
           DEF semVars, Cancel, AcquireNext, Acquire, Resolve, ResolvePoints, Fail,
           SetFailure, Poison, PoisonPoints
    <2> QED BY <1>5, <2>2 DEF Reached
  <1> QED BY <1>3, <1>4, <1>5

-----------------------------------------------------------------------------
(* That w is about to resolve p.                                           *)
AboutTo(w, p) ==
  \/ pc[w] = "resolve" /\ Entry(w).sem = p.sem /\ Entry(w).value >= p.value
  \/ pc[w] = "poison" /\ Entry(w).sem = p.sem

LEMMA ForgottenStep ==
  ASSUME TypeOK, TypeOK', Forward, NEW t \in Threads, ThreadInv(t),
         \A u \in Threads \ {t} : Untouched(u),
         Step(t) \/ WaitTimesOut(t), NoWaiterForgotten
  PROVE  NoWaiterForgotten'
  <1> SUFFICES ASSUME NEW u \in Threads, NEW p \in points'[u],
                      value'[p.sem] >= p.value \/ failed'[p.sem]
               PROVE  \E w \in Threads : AboutTo(w, p)'
    BY DEF NoWaiterForgotten, AboutTo, Reached
  <1>1. PlaceInv(t)
    BY DEF ThreadInv
  <1>2. p \in Points /\ p.sem \in Semaphores
    BY DEF TypeOK, SemTypeOK, Points
  <1>3. ASSUME NEW w \in Threads \ {t}, AboutTo(w, p)
        PROVE  AboutTo(w, p)'
    BY <1>3, SamePlace DEF AboutTo
  <1>4. CASE Reached(p) \/ failed[p.sem]
    <2>1. p \in points[u]
      <3>1. CASE AcquireNext(t)
        <4>1. value' = value /\ failed' = failed
          BY <3>1 DEF AcquireNext, Acquire
        <4>2. CASE points' = points
          BY <4>2
        <4>3. CASE /\ ~Reached(Entry(t)) /\ ~failed[Entry(t).sem]
                   /\ points' = [points EXCEPT ![t] = @ \cup {Entry(t)}]
          <5>1. p # Entry(t)
            BY <1>4, <4>3
          <5> QED BY <4>3, <5>1 DEF TypeOK, SemTypeOK
        <4> QED BY <3>1, <4>2, <4>3 DEF AcquireNext, Acquire
      <3>2. CASE points'[u] \subseteq points[u]
        BY <3>2
      <3>3. points \in [Threads -> SUBSET Points]
        BY DEF TypeOK, SemTypeOK
      <3>4. CASE Cancel(t)
        BY <3>2, <3>3, <3>4 DEF Cancel
      <3>5. CASE points' = points
        BY <3>5
      <3>6. CASE Resolve(t)
        BY <3>2, <3>6 DEF Resolve, ResolvePoints
      <3>7. CASE Poison(t)
        BY <3>2, <3>7 DEF Poison, PoisonPoints
      <3> QED
        BY <1>1, <3>1, <3>4, <3>5, <3>6, <3>7, SemStep
           DEF semVars, Signal, Advance, Fail, SetFailure
    <2>2. PICK w \in Threads : AboutTo(w, p)
      BY <1>4, <2>1 DEF NoWaiterForgotten, AboutTo
    <2>3. w # t
      <3>1. CASE pc[t] = "resolve"
        <4>1. Resolve(t)
          BY <3>1 DEF Step, Begin, AcquireNext, WaitReached, WaitFailed, Waiting, Work,
             WorkFails, Signal, SignalFails, SignalDone, Fail, Poison, FailDone,
             QueryFailure, QueryNoFailure, QueryValue, WaitTimesOut
        <4>2. points'[u] = {q \in points[u] : q.sem # Entry(t).sem \/ q.value > Entry(t).value}
          BY <4>1 DEF Resolve, ResolvePoints
        <4>3. Entry(t).value \in Nat /\ p.value \in Nat
          BY <1>1, <1>2, <3>1, EntryTypes, SemaphoreAssumption DEF Points
        <4> QED BY <2>2, <3>1, <4>2, <4>3 DEF AboutTo
      <3>2. CASE pc[t] = "poison"
        <4>1. Poison(t)
          BY <3>2 DEF Step, Begin, AcquireNext, WaitReached, WaitFailed, Waiting, Work,
             WorkFails, Signal, Resolve, SignalFails, SignalDone, Fail, FailDone,
             QueryFailure, QueryNoFailure, QueryValue, WaitTimesOut
        <4>2. points'[u] = {q \in points[u] : q.sem # Entry(t).sem}
          BY <4>1 DEF Poison, PoisonPoints
        <4> QED BY <2>2, <3>2, <4>2 DEF AboutTo
      <3> QED BY <2>2, <3>1, <3>2 DEF AboutTo
    <2> QED BY <1>3, <2>2, <2>3
  <1>5. CASE ~Reached(p) /\ ~failed[p.sem]
    <2>1. Signal(t) \/ Fail(t)
      BY <1>1, <1>5, SemStep
         DEF Reached, semVars, Cancel, AcquireNext, Acquire, Resolve, ResolvePoints,
         Poison, PoisonPoints
    <2>2. /\ Entry(t).sem \in Semaphores /\ Entry(t) = Call(t).signals[idx[t]]
          /\ program' = program /\ results' = results
      BY <1>1, <2>1, EntryTypes DEF Signal, Fail, Stay
    <2>3. Call(t)' = Call(t)
      BY <2>2 DEF Call, Number
    <2>4. idx[t] \in Nat \ {0} /\ "resolve" \in Labels /\ "poison" \in Labels
      BY DEF TypeOK, Labels
    <2>5. CASE Signal(t)
      <3>1. /\ value' = [value EXCEPT ![Entry(t).sem] = Entry(t).value]
            /\ failed' = failed /\ Goto(t, "resolve", idx[t])
        BY <2>5 DEF Signal, Advance
      <3>2. Entry(t).sem = p.sem /\ value'[p.sem] = Entry(t).value
        BY <1>2, <1>5, <2>2, <3>1 DEF Reached, TypeOK, SemTypeOK
      <3>3. Entry(t)' = Entry(t) /\ pc'[t] = "resolve"
        BY <2>2, <2>3, <2>4, <3>1, GotoTypes DEF Entry
      <3> QED BY <1>5, <3>1, <3>2, <3>3 DEF AboutTo
    <2>6. CASE Fail(t)
      <3>1. failed' = [failed EXCEPT ![Entry(t).sem] = TRUE] /\ value' = value
        BY <2>6 DEF Fail, SetFailure
      <3>2. Entry(t).sem = p.sem
        BY <1>2, <1>5, <2>2, <3>1 DEF Reached, TypeOK, SemTypeOK
      <3>3. Goto(t, "poison", idx[t])
        BY <1>5, <2>6, <3>2 DEF Fail
      <3>4. Entry(t)' = Entry(t) /\ pc'[t] = "poison"
        BY <2>2, <2>3, <2>4, <3>3, GotoTypes DEF Entry
      <3> QED BY <3>2, <3>4 DEF AboutTo
    <2> QED BY <2>1, <2>5, <2>6
  <1> QED BY <1>4, <1>5

-----------------------------------------------------------------------------
LEMMA InitIInv == Init => IInv
  <1> SUFFICES ASSUME Init PROVE IInv
    OBVIOUS
  <1>1. /\ program \in [Threads -> Seq(Calls)] /\ program \in Programs
        /\ points = [t \in Threads |-> {}] /\ ran = {} /\ value = Initial
        /\ results = [t \in Threads |-> <<>>] /\ pc = [t \in Threads |-> "ready"]
        /\ poisoned = [t \in Threads |-> FALSE]
        /\ observed = [t \in Threads |-> [s \in Semaphores |-> 0]]
    BY ProgramAssumption DEF Init, SemInit
  <1>2. <<>> \in Seq({"ok", "error"}) /\ Len(<<>>) = 0 /\ DOMAIN <<>> = {}
    BY EmptySeq
  <1>3. TypeOK
    BY <1>1, <1>2, SemaphoreAssumption DEF Init, SemInit, TypeOK, SemTypeOK, Failure
  <1>4. ASSUME NEW t \in Threads PROVE ThreadInv(t)
    <2>1. Len(program[t]) \in Nat
      BY <1>3, ProgramTypes
    <2>2. PlaceInv(t)
      BY <1>1, <1>2, <2>1 DEF PlaceInv, Signalling, Failing
    <2>3. LoopInv(t)
      BY <1>1 DEF LoopInv, Signalling, Failing
    <2>4. RanInv(t)
      BY <1>1 DEF RanInv, Signalling
    <2>5. SeenInv(t)
      BY <1>1, SemaphoreAssumption DEF SeenInv
    <2>6. SettledInv(t)
      BY <1>1, <1>2 DEF SettledInv
    <2> QED BY <2>2, <2>3, <2>4, <2>5, <2>6 DEF ThreadInv
  <1>5. ProvidedInv
    BY <1>1 DEF ProvidedInv, Reached, Provided
  <1>6. NoWaiterForgotten
    BY <1>1 DEF NoWaiterForgotten
  <1> QED BY <1>3, <1>4, <1>5, <1>6 DEF IInv

LEMMA StutterIInv == IInv /\ UNCHANGED vars => IInv'
  <1> SUFFICES ASSUME IInv, UNCHANGED vars PROVE IInv'
    OBVIOUS
  <1>1. TypeOK'
    BY DEF IInv, TypeOK, SemTypeOK, vars, Failure
  <1>2. Forward
    BY SemaphoreAssumption DEF Forward, IInv, TypeOK, SemTypeOK, vars
  <1>3. ASSUME NEW t \in Threads PROVE ThreadInv(t)'
    BY <1>1, <1>2, OtherThreads DEF IInv, Untouched, vars
  <1>4. ProvidedInv'
    BY DEF IInv, ProvidedInv, Provided, Reached, vars
  <1>5. NoWaiterForgotten'
    BY DEF IInv, NoWaiterForgotten, Reached, Entry, Call, Number, vars
  <1> QED BY <1>1, <1>3, <1>4, <1>5 DEF IInv

(* One step keeps the invariant: the other threads by OtherThreads, the    *)
(* one that moves by MoverInv.                                             *)
LEMMA StepIInv == IInv /\ [Next]_vars => IInv'
  <1> SUFFICES ASSUME IInv, Next PROVE IInv'
    BY StutterIInv
  <1>1. PICK t \in Threads : Step(t) \/ WaitTimesOut(t)
    BY DEF Next
  <1>2. TypeOK /\ ThreadInv(t) /\ PlaceInv(t) /\ ProvidedInv /\ NoWaiterForgotten
    BY DEF IInv, ThreadInv
  <1>3. TypeOK'
    BY <1>1, <1>2, TypeStep
  <1>4. Forward
    BY <1>1, <1>2, ForwardStep
  <1>5. \A u \in Threads \ {t} : Untouched(u)
    BY <1>1, <1>2, OthersStep
  <1>6. ASSUME NEW u \in Threads PROVE ThreadInv(u)'
    <2>1. CASE u = t
      BY <1>1, <1>2, <1>3, <1>4, <2>1, MoverInv
    <2>2. CASE u # t
      BY <1>2, <1>3, <1>4, <1>5, <2>2, OtherThreads DEF IInv
    <2> QED BY <2>1, <2>2
  <1>7. ProvidedInv'
    BY <1>1, <1>2, <1>3, <1>4, ProvidedStep
  <1>8. NoWaiterForgotten'
    BY <1>1, <1>2, <1>3, <1>4, <1>5, ForgottenStep
  <1> QED BY <1>3, <1>6, <1>7, <1>8 DEF IInv

(* The inductive invariant holds throughout, whatever the programs are.    *)
THEOREM QueueInvariance == Spec => []IInv
  BY InitIInv, StepIInv, PTL DEF Spec

(* The variables of the queue and of its semaphores have their types.      *)
THEOREM QueueTypeCorrectness == Spec => []TypeOK
  <1>1. IInv => TypeOK
    BY DEF IInv
  <1> QED BY <1>1, QueueInvariance, PTL

(* Commands start only after the commands of everything they wait for are  *)
(* over, in every interleaving of the threads, with failures and timeouts  *)
(* (device.c:865-868).                                                     *)
THEOREM CommandsFollowTheirWaits == Spec => []WorkAfterDependencies
  <1>1. IInv => WorkAfterDependencies
    <2> SUFFICES ASSUME IInv PROVE WorkAfterDependencies
      OBVIOUS
    <2>1. ASSUME NEW t \in Threads, pc[t] = "work", NEW p \in ListRange(Call(t).waits)
          PROVE  Provided(p)
      <3>1. PICK i \in DOMAIN Call(t).waits : p = Call(t).waits[i]
        BY DEF ListRange
      <3>2. TypeOK /\ LoopInv(t) /\ Number(t) <= Len(program[t])
        BY <2>1 DEF IInv, ThreadInv, PlaceInv
      <3>3. p \in Points
        BY <3>1, <3>2, WaitIndex
      <3>4. Reached(p)
        BY <2>1, <3>1, <3>2 DEF LoopInv
      <3> QED BY <3>3, <3>4 DEF IInv, ProvidedInv
    <2>2. ASSUME NEW c \in ran, NEW p \in ListRange(program[c[1]][c[2]].waits)
          PROVE  Provided(p)
      <3>1. PICK t \in Threads, n \in Nat \ {0} : c = <<t, n>>
        BY DEF IInv, TypeOK
      <3>2. c[1] = t /\ c[2] = n
        BY <3>1
      <3>3. PICK i \in DOMAIN program[t][n].waits : p = program[t][n].waits[i]
        BY <3>2 DEF ListRange
      <3>4. RanInv(t) /\ TypeOK
        BY DEF IInv, ThreadInv
      <3>5. n \in 1 .. Len(program[t]) /\ Reached(p)
        BY <2>2, <3>1, <3>3, <3>4, ProgramTypes DEF RanInv
      <3>6. p \in Points
        BY <3>3, <3>4, <3>5, CallTypes
      <3> QED BY <3>5, <3>6 DEF IInv, ProvidedInv
    <2> QED BY <2>1, <2>2 DEF WorkAfterDependencies
  <1> QED BY <1>1, QueueInvariance, PTL

(* No timepoint that is reached or failed is left behind: some thread is   *)
(* about to resolve it (semaphore.c:117-124, 156-164).                     *)
THEOREM WaitersAreTold == Spec => []NoWaiterForgotten
  <1>1. IInv => NoWaiterForgotten
    BY DEF IInv
  <1> QED BY <1>1, QueueInvariance, PTL

(* What a call returned is what became of its signal list                  *)
(* (device.c:490-504, 532-537, 791-796).                                   *)
THEOREM ResultsAreTrue == Spec => []ResultsSettled
  <1>1. IInv => ResultsSettled
    BY DEF IInv, ThreadInv, SettledInv, ResultsSettled, ListRange
  <1> QED BY <1>1, QueueInvariance, PTL

(* A thread that queries a semaphore twice never sees it go back           *)
(* (semaphore.c:87-103).                                                   *)
THEOREM QueriesNeverGoBack == Spec => QueriesMoveForward
  <1>1. IInv /\ [Next]_vars =>
          [\A t \in Threads, s \in Semaphores : observed'[t][s] >= observed[t][s]]_vars
    <2> SUFFICES ASSUME IInv, Next, NEW t \in Threads, NEW s \in Semaphores
                 PROVE  observed'[t][s] >= observed[t][s]
      OBVIOUS
    <2>1. PICK u \in Threads : Step(u) \/ WaitTimesOut(u)
      BY DEF Next
    <2>2. TypeOK /\ ThreadInv(u) /\ PlaceInv(u) /\ observed[t][s] \in Nat
      BY SemaphoreAssumption DEF IInv, ThreadInv, TypeOK, Failure
    <2>3. TypeOK' /\ Forward
      BY <2>1, <2>2, TypeStep, ForwardStep
    <2>4. CASE t # u
      BY <2>1, <2>2, <2>4, OthersStep DEF Untouched
    <2>5. CASE t = u /\ (QueryFailure(u) \/ QueryValue(u))
      BY <2>2, <2>3, <2>5, ObserveInv
    <2>6. CASE observed' = observed
      BY <2>2, <2>6
    <2>7. observed' = observed \/ QueryFailure(u) \/ QueryValue(u)
      BY <2>1, Zenon DEF Step, Begin, AcquireNext, WaitReached, WaitFailed, Work,
         WorkFails, Signal, Resolve, SignalFails, SignalDone, Fail, Poison, FailDone,
         QueryNoFailure, Stay, WaitTimesOut
    <2> QED BY <2>4, <2>5, <2>6, <2>7
  <1> QED BY <1>1, QueueInvariance, PTL DEF Spec, QueriesMoveForward

-----------------------------------------------------------------------------
(* The queue as QueueOrder sees it.                                        *)
LEMMA AbstractCallOf ==
  ASSUME TypeOK, NEW t \in Threads, NEW n \in 1 .. Len(program[t])
  PROVE  /\ <<t, n>> \in CallIds
         /\ <<t, n>> \in DOMAIN AbstractCalls
         /\ AbstractCalls[<<t, n>>].kind = program[t][n].kind
         /\ AbstractCalls[<<t, n>>].waits = ListRange(program[t][n].waits)
         /\ AbstractCalls[<<t, n>>].signals = ListRange(program[t][n].signals)
  <1>1. n \in DOMAIN program[t]
    BY ProgramTypes
  <1>2. <<t, n>> \in {t} \X DOMAIN program[t]
    BY <1>1
  <1>3. <<t, n>> \in CallIds
    BY <1>2, Zenon DEF CallIds
  <1>4. <<t, n>>[1] = t /\ <<t, n>>[2] = n
    OBVIOUS
  <1>5. AbstractCalls[<<t, n>>] = AbstractCall(program[t][n])
    BY <1>3, <1>4 DEF AbstractCalls
  <1> QED BY <1>3, <1>5 DEF AbstractCalls, AbstractCall

LEMMA SameCalls ==
  ASSUME program' = program
  PROVE  AbstractCalls' = AbstractCalls
  BY DEF AbstractCalls, AbstractCall, CallIds, ListRange

LEMMA SameOutcomes ==
  ASSUME program' = program, results' = results
  PROVE  Outcomes' = Outcomes
  BY DEF Outcomes, CallIds

LEMMA NotOver ==
  ASSUME TypeOK, NEW t \in Threads, Number(t) <= Len(program[t])
  PROVE  Outcomes[<<t, Number(t)>>] = "no"
  <1>1. Number(t) \in 1 .. Len(program[t]) /\ <<t, Number(t)>> \in CallIds
    BY InCall, AbstractCallOf
  <1>2. Number(t) \notin DOMAIN results[t]
    BY ProgramTypes DEF Number
  <1> DEFINE n == Number(t)
             c == <<t, n>>
  <1>3. c \in CallIds /\ c[1] = t /\ c[2] = n /\ n \notin DOMAIN results[t]
    BY <1>1, <1>2
  <1> HIDE DEF c, n
  <1>4. Outcomes[c] = "no"
    BY <1>3 DEF Outcomes
  <1> QED BY <1>4 DEF c, n

LEMMA NewOutcome ==
  ASSUME TypeOK, NEW t \in Threads, Number(t) <= Len(program[t]),
         program' = program, NEW r \in {"ok", "error"}, Return(t, r)
  PROVE  Outcomes' = [Outcomes EXCEPT ![<<t, Number(t)>>] = r]
  <1>1. /\ Number(t) \in 1 .. Len(program[t]) /\ <<t, Number(t)>> \in CallIds
        /\ DOMAIN results[t] = 1 .. Len(results[t]) /\ Len(results[t]) \in Nat
        /\ Number(t) = Len(results[t]) + 1
    BY InCall, AbstractCallOf, ProgramTypes DEF Number
  <1>2. /\ DOMAIN results'[t] = 1 .. Number(t) /\ results'[t][Number(t)] = r
        /\ \A n \in DOMAIN results[t] : results'[t][n] = results[t][n]
        /\ \A u \in Threads \ {t} : results'[u] = results[u]
    BY <1>1, ReturnTypes
  <1>3. CallIds' = CallIds
    BY DEF CallIds
  <1>4. ASSUME NEW c \in CallIds
        PROVE  (IF c[2] \in DOMAIN results'[c[1]] THEN results'[c[1]][c[2]] ELSE "no")
                 = [Outcomes EXCEPT ![<<t, Number(t)>>] = r][c]
    <2>0. PICK u \in Threads : c \in {u} \X DOMAIN program[u]
      BY DEF CallIds
    <2>1. PICK n \in DOMAIN program[u] : c = <<u, n>>
      BY <2>0
    <2>2. c[1] = u /\ c[2] = n /\ n \in Nat
      BY <2>1, ProgramTypes
    <2>3. Outcomes[c] = IF n \in DOMAIN results[u] THEN results[u][n] ELSE "no"
      BY <2>2 DEF Outcomes
    <2>4. CASE u = t /\ n = Number(t)
      <3>1. n \in DOMAIN results'[u] /\ results'[u][n] = r
        BY <1>1, <1>2, <2>4
      <3>2. c = <<t, Number(t)>>
        BY <2>1, <2>4
      <3>3. [Outcomes EXCEPT ![<<t, Number(t)>>] = r][c] = r
        BY <3>2 DEF Outcomes
      <3> QED BY <2>2, <3>1, <3>3
    <2>5. CASE ~(u = t /\ n = Number(t))
      <3>1. c # <<t, Number(t)>>
        BY <2>2, <2>5
      <3>2. [Outcomes EXCEPT ![<<t, Number(t)>>] = r][c] = Outcomes[c]
        BY <3>1 DEF Outcomes
      <3>3. CASE u = t
        <4>1. n \in DOMAIN results'[t] <=> n \in DOMAIN results[t]
          BY <1>1, <1>2, <2>2, <2>5, <3>3
        <4>2. n \in DOMAIN results[t] => results'[t][n] = results[t][n]
          BY <1>2
        <4>3. c[1] = t /\ c[2] = n
          BY <2>2, <3>3
        <4>4. Outcomes[c] = IF n \in DOMAIN results[t] THEN results[t][n] ELSE "no"
          BY <2>3, <3>3
        <4> QED BY <3>2, <4>1, <4>2, <4>3, <4>4
      <3>4. CASE u # t
        BY <1>2, <2>2, <2>3, <3>2, <3>4
      <3> QED BY <3>3, <3>4
    <2> QED BY <2>4, <2>5
  <1>5. Outcomes' = [c \in CallIds |->
          IF c[2] \in DOMAIN results'[c[1]] THEN results'[c[1]][c[2]] ELSE "no"]
    BY <1>3 DEF Outcomes
  <1>6. DOMAIN [Outcomes EXCEPT ![<<t, Number(t)>>] = r] = CallIds
    BY DEF Outcomes
  <1> QED BY <1>4, <1>5, <1>6

-----------------------------------------------------------------------------
(* The steps of the queue as steps of QueueOrder.                          *)
LEMMA StutterRefines ==
  ASSUME program' = program, results' = results, value' = value, failed' = failed,
         ran' = ran
  PROVE  UNCHANGED Order!vars
  BY SameCalls, SameOutcomes DEF Order!vars

LEMMA RunRefines ==
  ASSUME TypeOK, NEW t \in Threads, Number(t) <= Len(program[t]),
         program' = program, results' = results, value' = value, failed' = failed,
         <<t, Number(t)>> \notin ran, ran' = ran \cup {<<t, Number(t)>>},
         \A i \in DOMAIN Call(t).waits : Reached(Call(t).waits[i])
  PROVE  Order!Next
  <1> DEFINE c == <<t, Number(t)>>
  <1>1. /\ c \in DOMAIN AbstractCalls
        /\ AbstractCalls[c].waits = ListRange(Call(t).waits)
    BY InCall, AbstractCallOf DEF Call
  <1>2. Outcomes[c] = "no"
    BY NotOver
  <1>3. \A p \in ListRange(Call(t).waits) : value[p.sem] >= p.value
    BY DEF ListRange, Reached
  <1> HIDE DEF c
  <1>4. c \notin ran /\ ran' = ran \cup {c}
    BY DEF c
  <1>5. Order!Run(c)
    BY <1>1, <1>2, <1>3, <1>4, SameCalls, SameOutcomes
       DEF Order!Run, Order!Pending, Order!Reached
  <1> QED BY <1>1, <1>5 DEF Order!Next

LEMMA SucceedRefines ==
  ASSUME TypeOK, NEW t \in Threads, Number(t) <= Len(program[t]),
         program' = program, Return(t, "ok"), value' = value, failed' = failed, ran' = ran,
         Call(t).signals = <<>> \/ <<t, Number(t)>> \in ran,
         \A i \in DOMAIN Call(t).signals : Reached(Call(t).signals[i]),
         Call(t).kind = "wait" =>
           \A i \in DOMAIN Call(t).waits : Reached(Call(t).waits[i])
  PROVE  Order!Next
  <1> DEFINE c == <<t, Number(t)>>
  <1>1. /\ c \in DOMAIN AbstractCalls
        /\ AbstractCalls[c].kind = Call(t).kind
        /\ AbstractCalls[c].waits = ListRange(Call(t).waits)
        /\ AbstractCalls[c].signals = ListRange(Call(t).signals)
    BY InCall, AbstractCallOf DEF Call
  <1>2. Outcomes[c] = "no" /\ Outcomes' = [Outcomes EXCEPT ![c] = "ok"]
    BY NotOver, NewOutcome
  <1>3. \A p \in ListRange(Call(t).signals) : c \in ran /\ value[p.sem] >= p.value
    BY DEF ListRange, Reached
  <1>4. Call(t).kind = "wait" =>
          \A p \in ListRange(Call(t).waits) : value[p.sem] >= p.value
    BY DEF ListRange, Reached
  <1> HIDE DEF c
  <1>5. Order!Succeed(c)
    BY <1>1, <1>2, <1>3, <1>4, SameCalls DEF Order!Succeed, Order!Pending, Order!Reached
  <1> QED BY <1>1, <1>5 DEF Order!Next

LEMMA GiveUpRefines ==
  ASSUME TypeOK, NEW t \in Threads, Number(t) <= Len(program[t]),
         program' = program, Return(t, "error"), value' = value, failed' = failed, ran' = ran,
         Call(t).kind \in QueueKinds =>
           \A i \in DOMAIN Call(t).signals : failed[Call(t).signals[i].sem]
  PROVE  Order!Next
  <1> DEFINE c == <<t, Number(t)>>
  <1>1. /\ c \in DOMAIN AbstractCalls
        /\ AbstractCalls[c].kind = Call(t).kind
        /\ AbstractCalls[c].signals = ListRange(Call(t).signals)
    BY InCall, AbstractCallOf DEF Call
  <1>2. Outcomes[c] = "no" /\ Outcomes' = [Outcomes EXCEPT ![c] = "error"]
    BY NotOver, NewOutcome
  <1>3. Call(t).kind \in QueueKinds => \A p \in ListRange(Call(t).signals) : failed[p.sem]
    BY DEF ListRange
  <1> HIDE DEF c
  <1>4. Order!GiveUp(c)
    BY <1>1, <1>2, <1>3, SameCalls
       DEF Order!GiveUp, Order!Pending, Order!IsQueueCall, QueueKinds
  <1> QED BY <1>1, <1>4 DEF Order!Next

LEMMA AdvanceRefines ==
  ASSUME TypeOK, NEW t \in Threads, ThreadInv(t), Signal(t)
  PROVE  Order!Next
  <1> DEFINE c == <<t, Number(t)>>
  <1>1. /\ pc[t] = "signal" /\ CanAdvance(Entry(t))
        /\ value' = [value EXCEPT ![Entry(t).sem] = Entry(t).value]
        /\ failed' = failed /\ program' = program /\ results' = results /\ ran' = ran
    BY DEF Signal, Advance, Stay
  <1>2. /\ idx[t] \in DOMAIN Call(t).signals /\ Entry(t) = Call(t).signals[idx[t]]
        /\ Number(t) \in 1 .. Len(program[t])
    BY EntryTypes DEF Signal, ThreadInv
  <1>3. Number(t) <= Len(program[t]) /\ c \in ran
    BY <1>1 DEF ThreadInv, PlaceInv, RanInv, Signalling
  <1>4. /\ c \in DOMAIN AbstractCalls
        /\ AbstractCalls[c].signals = ListRange(Call(t).signals)
    BY <1>2, AbstractCallOf DEF Call
  <1>5. Outcomes[c] = "no"
    BY <1>3, NotOver
  <1>6. Entry(t) \in ListRange(Call(t).signals)
    BY <1>2 DEF ListRange
  <1>7. ~(value[Entry(t).sem] >= Entry(t).value) /\ ~failed[Entry(t).sem]
    <2>1. value[Entry(t).sem] \in Nat /\ Entry(t).value \in Nat
      BY EntryTypes, SemaphoreAssumption DEF Signal, ThreadInv, TypeOK, SemTypeOK
    <2> QED BY <1>1, <2>1 DEF CanAdvance
  <1> HIDE DEF c
  <1>8. Order!Provide(c, Entry(t))
    BY <1>1, <1>3, <1>4, <1>5, <1>6, <1>7, SameCalls, SameOutcomes
       DEF Order!Provide, Order!Pending, Order!Reached
  <1> QED BY <1>4, <1>6, <1>8 DEF Order!Next

LEMMA FailRefines ==
  ASSUME TypeOK, NEW t \in Threads, ThreadInv(t), Fail(t)
  PROVE  Order!Next
  <1> DEFINE c == <<t, Number(t)>>
  <1>1. /\ pc[t] = "fail" /\ failed' = [failed EXCEPT ![Entry(t).sem] = TRUE]
        /\ value' = value /\ program' = program /\ results' = results /\ ran' = ran
    BY DEF Fail, SetFailure, Stay
  <1>2. /\ idx[t] \in DOMAIN Call(t).signals /\ Entry(t) = Call(t).signals[idx[t]]
        /\ Number(t) \in 1 .. Len(program[t])
    BY EntryTypes DEF Fail, ThreadInv
  <1>3. Number(t) <= Len(program[t]) /\ Call(t).kind \in QueueKinds
    BY <1>1 DEF ThreadInv, PlaceInv, Failing
  <1>4. /\ c \in DOMAIN AbstractCalls
        /\ AbstractCalls[c].kind = Call(t).kind
        /\ AbstractCalls[c].signals = ListRange(Call(t).signals)
    BY <1>2, AbstractCallOf DEF Call
  <1>5. Outcomes[c] = "no"
    BY <1>3, NotOver
  <1>6. Entry(t) \in ListRange(Call(t).signals)
    BY <1>2 DEF ListRange
  <1> HIDE DEF c
  <1>7. Order!Fail(c, Entry(t))
    BY <1>1, <1>3, <1>4, <1>5, <1>6, SameCalls, SameOutcomes
       DEF Order!Fail, Order!Pending, Order!IsQueueCall, QueueKinds
  <1> QED BY <1>4, <1>6, <1>7 DEF Order!Next

(* A call ends: its signal list is reached or failed, or it was a query.   *)
LEMMA EndRefines ==
  ASSUME TypeOK, NEW t \in Threads, ThreadInv(t),
         SignalDone(t) \/ FailDone(t) \/ QueryFailure(t) \/ QueryValue(t)
  PROVE  Order!Next
  <1>1. /\ program' = program /\ value' = value /\ failed' = failed /\ ran' = ran
        /\ pc[t] # "ready" /\ PlaceInv(t) /\ LoopInv(t) /\ RanInv(t)
    BY DEF SignalDone, FailDone, QueryFailure, QueryValue, Observe, semVars, ThreadInv
  <1>2. Number(t) <= Len(program[t])
    BY <1>1 DEF PlaceInv
  <1>3. \A i \in DOMAIN Call(t).signals : i <= Len(Call(t).signals) /\ i \in Nat
    BY <1>2, SignalIndex
  <1>4. idx[t] \in Nat
    BY <1>2, InCall
  <1>5. CASE SignalDone(t)
    <2>1. pc[t] = "signal" /\ ~More(t, Call(t).signals) /\ Return(t, "ok")
      BY <1>5 DEF SignalDone
    <2>2. <<t, Number(t)>> \in ran
      BY <1>1, <2>1 DEF RanInv, Signalling
    <2>3. Len(Call(t).signals) \in Nat
      BY <1>2, InCall, CallTypes DEF Call
    <2>4. \A i \in DOMAIN Call(t).signals : i < idx[t]
      BY <1>3, <1>4, <2>1, <2>3 DEF More
    <2>5. \A i \in DOMAIN Call(t).signals : Reached(Call(t).signals[i])
      BY <1>1, <2>1, <2>4 DEF LoopInv, Signalling
    <2>6. Call(t).kind # "wait"
      BY <1>1, <2>1 DEF PlaceInv, Signalling, QueueKinds
    <2> QED BY <1>1, <1>2, <2>1, <2>2, <2>5, <2>6, SucceedRefines
  <1>6. CASE FailDone(t)
    <2>1. pc[t] = "fail" /\ ~More(t, Call(t).signals) /\ Return(t, "error")
      BY <1>6 DEF FailDone
    <2>2. Len(Call(t).signals) \in Nat
      BY <1>2, InCall, CallTypes DEF Call
    <2>3. \A i \in DOMAIN Call(t).signals : i < idx[t]
      BY <1>3, <1>4, <2>1, <2>2 DEF More
    <2>4. \A i \in DOMAIN Call(t).signals : failed[Call(t).signals[i].sem]
      BY <1>1, <2>1, <2>3 DEF LoopInv, Failing
    <2> QED BY <1>1, <1>2, <2>1, <2>4, GiveUpRefines
  <1>7. CASE QueryFailure(t) \/ QueryValue(t)
    <2>1. Return(t, "ok") /\ Call(t).kind = "query"
      BY <1>1, <1>7 DEF QueryFailure, QueryValue, Observe, PlaceInv
    <2>2. Call(t).signals = <<>>
      BY <1>2, <2>1, InCall DEF Calls
    <2>3. DOMAIN Call(t).signals = {}
      BY <2>2
    <2> QED BY <1>1, <1>2, <2>1, <2>2, <2>3, SucceedRefines
  <1> QED BY <1>5, <1>6, <1>7

(* A call begins, and its wait ends one way or the other.                  *)
LEMMA BeginRefines ==
  ASSUME TypeOK, NEW t \in Threads, ThreadInv(t), Begin(t)
  PROVE  Order!Next \/ UNCHANGED Order!vars
  <1>1. /\ pc[t] = "ready" /\ Number(t) <= Len(program[t])
        /\ program' = program /\ results' = results /\ value' = value /\ failed' = failed
    BY Zenon DEF Begin, semVars
  <1>2. ran' = IF Call(t).kind = "signal" THEN ran \cup {<<t, Number(t)>>} ELSE ran
    BY Zenon DEF Begin
  <1>3. CASE Call(t).kind = "signal"
    <2>1. Call(t).waits = <<>>
      BY <1>1, <1>3, InCall DEF Calls
    <2>2. \A i \in DOMAIN Call(t).waits : Reached(Call(t).waits[i])
      BY <2>1
    <2>3. <<t, Number(t)>> \notin ran
      BY <1>1, NotRun DEF Signalling, Failing
    <2>4. ran' = ran \cup {<<t, Number(t)>>}
      BY <1>2, <1>3
    <2> QED BY <1>1, <2>2, <2>3, <2>4, RunRefines
  <1>4. CASE Call(t).kind # "signal"
    <2>1. ran' = ran
      BY <1>2, <1>4
    <2> QED BY <1>1, <2>1, StutterRefines
  <1> QED BY <1>3, <1>4

LEMMA WaitReachedRefines ==
  ASSUME TypeOK, NEW t \in Threads, ThreadInv(t), WaitReached(t)
  PROVE  Order!Next \/ UNCHANGED Order!vars
  <1>1. /\ Waiting(t) /\ points[t] = {} /\ ~poisoned[t] /\ Cancel(t) /\ program' = program
    BY Zenon DEF WaitReached
  <1>2. /\ value' = value /\ failed' = failed /\ pc[t] = "acquire"
    BY <1>1 DEF Cancel, Waiting
  <1>3. PlaceInv(t) /\ Number(t) <= Len(program[t])
    BY <1>2 DEF ThreadInv, PlaceInv
  <1>4. \A i \in DOMAIN Call(t).waits : Reached(Call(t).waits[i])
    BY <1>1, WaitOver
  <1>5. CASE Call(t).kind = "wait"
    <2>1. Return(t, "ok") /\ ran' = ran
      BY <1>5, Zenon DEF WaitReached
    <2>2. Call(t).signals = <<>>
      BY <1>3, <1>5, InCall DEF Calls
    <2>3. DOMAIN Call(t).signals = {}
      BY <2>2
    <2> QED BY <1>1, <1>2, <1>3, <1>4, <2>1, <2>2, <2>3, SucceedRefines
  <1>6. CASE Call(t).kind = "dealloca"
    <2>1. results' = results /\ ran' = ran \cup {<<t, Number(t)>>}
      BY <1>6 DEF WaitReached
    <2>2. <<t, Number(t)>> \notin ran
      BY <1>2, NotRun DEF Signalling, Failing
    <2> QED BY <1>1, <1>2, <1>3, <1>4, <2>1, <2>2, RunRefines
  <1>7. CASE Call(t).kind \notin {"wait", "dealloca"}
    <2>1. results' = results /\ ran' = ran
      BY <1>7 DEF WaitReached
    <2> QED BY <1>1, <1>2, <2>1, StutterRefines
  <1> QED BY <1>5, <1>6, <1>7

LEMMA WorkRefines ==
  ASSUME TypeOK, NEW t \in Threads, ThreadInv(t), Work(t)
  PROVE  Order!Next
  <1>1. /\ pc[t] = "work" /\ program' = program /\ results' = results
        /\ value' = value /\ failed' = failed /\ ran' = ran \cup {<<t, Number(t)>>}
    BY DEF Work, semVars
  <1>2. Number(t) <= Len(program[t])
    BY <1>1 DEF ThreadInv, PlaceInv
  <1>3. \A i \in DOMAIN Call(t).waits : Reached(Call(t).waits[i])
    BY <1>1 DEF ThreadInv, LoopInv
  <1>4. <<t, Number(t)>> \notin ran
    BY <1>1, NotRun DEF Signalling, Failing
  <1> QED BY <1>1, <1>2, <1>3, <1>4, RunRefines

(* A wait or a host signal that fails gives up; a queue operation goes on  *)
(* to fail its list.                                                       *)
LEMMA FailureRefines ==
  ASSUME TypeOK, NEW t \in Threads, ThreadInv(t),
         WaitFailed(t) \/ WaitTimesOut(t) \/ SignalFails(t)
  PROVE  Order!Next \/ UNCHANGED Order!vars
  <1>1. /\ program' = program /\ value' = value /\ failed' = failed /\ ran' = ran
        /\ pc[t] # "ready"
    BY DEF WaitFailed, WaitTimesOut, SignalFails, Cancel, semVars, Waiting
  <1>2. Number(t) <= Len(program[t])
    BY <1>1 DEF ThreadInv, PlaceInv
  <1>3. \/ Return(t, "error") /\ Call(t).kind \in {"wait", "signal"}
        \/ results' = results
    BY DEF WaitFailed, WaitTimesOut, SignalFails
  <1>4. Call(t).kind \in {"wait", "signal"} => Call(t).kind \notin QueueKinds
    BY DEF QueueKinds
  <1> QED BY <1>1, <1>2, <1>3, <1>4, GiveUpRefines, StutterRefines

LEMMA StepRefines ==
  ASSUME TypeOK, NEW t \in Threads, ThreadInv(t), Step(t) \/ WaitTimesOut(t)
  PROVE  Order!Next \/ UNCHANGED Order!vars
  <1>1. CASE AcquireNext(t) \/ WorkFails(t) \/ Resolve(t) \/ Poison(t) \/ QueryNoFailure(t)
    <2>1. /\ program' = program /\ results' = results /\ value' = value
          /\ failed' = failed /\ ran' = ran
      BY <1>1 DEF AcquireNext, Acquire, WorkFails, Resolve, ResolvePoints, Poison,
         PoisonPoints, QueryNoFailure, Stay, semVars
    <2> QED BY <2>1, StutterRefines
  <1> QED
    BY <1>1, BeginRefines, WaitReachedRefines, WorkRefines, FailureRefines,
       AdvanceRefines, FailRefines, EndRefines DEF Step

(* The threads, with their wait lists, timepoints and loops over the       *)
(* signal lists, implement the queue as QueueOrder describes it: every     *)
(* step is one of its steps, or invisible to it (device.c:460-809,         *)
(* semaphore.c:105-172).                                                   *)
THEOREM QueueRefinement == Spec => OrderSpec
  <1>1. Init => Order!Init
    <2> SUFFICES ASSUME Init PROVE Order!Init
      OBVIOUS
    <2>1. /\ failed = [s \in Semaphores |-> FALSE] /\ DOMAIN value = Semaphores /\ ran = {}
      BY SemaphoreAssumption DEF Init, SemInit
    <2>2. \A t \in Threads : results[t] = <<>>
      BY DEF Init
    <2>3. ASSUME NEW c \in CallIds PROVE c[2] \notin DOMAIN results[c[1]]
      <3>1. PICK t \in Threads : c \in {t} \X DOMAIN program[t]
        BY DEF CallIds
      <3>2. c[1] = t
        BY <3>1
      <3> QED BY <2>2, <3>2
    <2>4. Outcomes = [c \in CallIds |-> "no"]
      BY <2>3 DEF Outcomes
    <2>5. DOMAIN AbstractCalls = CallIds
      BY DEF AbstractCalls
    <2> QED BY <2>1, <2>4, <2>5 DEF Order!Init
  <1>2. IInv /\ [Next]_vars => [Order!Next]_Order!vars
    <2> SUFFICES ASSUME IInv, [Next]_vars PROVE Order!Next \/ UNCHANGED Order!vars
      OBVIOUS
    <2>1. CASE UNCHANGED vars
      BY <2>1, StutterRefines DEF vars
    <2>2. CASE Next
      <3>1. PICK t \in Threads : Step(t) \/ WaitTimesOut(t)
        BY <2>2 DEF Next
      <3>2. TypeOK /\ ThreadInv(t)
        BY DEF IInv
      <3> QED BY <3>1, <3>2, StepRefines
    <2> QED BY <2>1, <2>2
  <1> QED BY <1>1, <1>2, QueueInvariance, PTL DEF Spec, OrderSpec, Order!Spec

=============================================================================
