--------------------------- MODULE StrelaDispatch ---------------------------
(***************************************************************************)
(* The direct command buffer of the strela HAL driver (command_buffer.c)   *)
(* on top of the CPU's cache: transfers, explicit cache maintenance and    *)
(* dispatch, one command at a time, with every cache maintenance call and  *)
(* every libstrela job call a step of its own.  Between two of these steps *)
(* the cache may fetch or evict any line, the CGRA may write, and another  *)
(* host thread may store to words the command does not use.                *)
(*                                                                         *)
(* libstrela's calls may fail, and one that is made while an earlier error *)
(* of the same function is pending has no effect.                          *)
(***************************************************************************)
EXTENDS StrelaMemory, Naturals

CONSTANTS
  ColumnCount,    \* IREE_HAL_STRELA_COLUMN_COUNT
  Kernels,        \* the bound dispatches: the words of each resolved column
  Ranges,         \* the word ranges transfers and maintenance commands name
  CopyMaps,       \* the copies: the source word of every target word
  StrayWords,     \* bound: what a job may have left to do when its free fails
  Kernel(_, _)    \* Kernel(w, in): what the CGRA computes for output word w

Columns == 1 .. ColumnCount
ColumnWords == [Columns -> SUBSET Words]

ASSUME DispatchAssumption ==
  /\ ColumnCount \in Nat \ {0}
  /\ Kernels \subseteq [inp : ColumnWords, out : ColumnWords]
  /\ Ranges \subseteq SUBSET Words
  /\ \A m \in CopyMaps :
       DOMAIN m \in SUBSET Words /\ m \in [DOMAIN m -> Words]
  /\ \A w \in Words, in \in UNION {[S -> Values] : S \in SUBSET Words} :
       Kernel(w, in) \in Values

VARIABLES
  pc,       \* where the command buffer's thread is
  op,       \* the resolved columns of the command it executes
  col,      \* the column a loop over the columns has reached
  job,      \* the libstrela job
  launched, \* whether the CGRA was given op
  todo,     \* output words the CGRA has still to write
  status,   \* the status the command has so far, the last one's when idle
  loose,    \* history: outputs of failed dispatches, not synchronised since
  stray     \* output words of jobs that could not be freed

ctlVars == <<pc, op, col, job, launched, todo, status, loose, stray>>
vars == <<mem, cached, tag, pc, op, col, job, launched, todo, status, loose,
          stray>>

Unused == [c \in Columns |-> {}]
NoOp == [inp |-> Unused, out |-> Unused]

AllWords(cols) == UNION {cols[c] : c \in Columns}
Inp == AllWords(op.inp)
Out == AllWords(op.out)

(* The output words that belong to the CGRA until the dispatch returns.    *)
Owned == IF launched THEN Out ELSE {}

(* The output words of the columns from c on.                              *)
OutFrom(c) == UNION {op.out[d] : d \in {e \in Columns : e >= c}}

Init ==
  /\ MemInit
  /\ pc = "idle" /\ op = NoOp /\ col = 1
  /\ job = "none" /\ launched = FALSE /\ todo = {}
  /\ status = "ok" /\ loose = {} /\ stray = {}

(* The command returns r to the caller.                                    *)
Return(r) ==
  /\ pc' = "idle" /\ op' = NoOp /\ col' = 1
  /\ job' = "none" /\ launched' = FALSE /\ todo' = {}
  /\ status' = r

At(label) == pc = label
Goto(label) == pc' = label

-----------------------------------------------------------------------------
(* Transfers run on the CPU through a mapping.  The map helpers (external) *)
(* write a buffer back only when its memory is not HOST_COHERENT, and the  *)
(* allocator hands out both kinds.  Mapping may be refused, and writing    *)
(* back may fail after the store.                                          *)
Write(S, f) ==
  /\ At("idle")
  /\ \/ /\ \/ CpuStore(S, f) /\ status' \in {"ok", "error"}
           \/ CpuStoreThrough(S, f) /\ status' = "ok"
        /\ loose' = (loose \ S) \cup stray
     \/ UNCHANGED <<memVars, loose>> /\ status' = "error"
  /\ UNCHANGED <<pc, op, col, job, launched, todo, stray>>

FillBuffer(S, v) == Write(S, [w \in S |-> v])

UpdateBuffer(S) == \E f \in [S -> Values] : Write(S, f)

CopyBuffer(m) == Write(DOMAIN m, [w \in DOMAIN m |-> CpuView(m[w])])

(* Explicit maintenance of a range of STRELA memory.                       *)
FlushBuffer(S) ==
  /\ At("idle")
  /\ \/ Clean(Touch(S)) /\ status' = "ok"
     \/ UNCHANGED memVars /\ status' = "error"
  /\ UNCHANGED <<pc, op, col, job, launched, todo, loose, stray>>

(* One range, synchronised like the last output column of a dispatch.      *)
InvalidateBuffer(S) ==
  /\ At("idle")
  /\ Goto("clean")
  /\ op' = [NoOp EXCEPT !.out[ColumnCount] = S]
  /\ col' = ColumnCount
  /\ status' = "ok"
  /\ UNCHANGED <<memVars, job, launched, todo, loose, stray>>

-----------------------------------------------------------------------------
(* A dispatch resolves all of its columns first, or fails.                 *)
Dispatch(k) ==
  /\ At("idle")
  /\ \/ Goto("flushInp") /\ op' = k /\ status' = "ok"
     \/ UNCHANGED <<pc, op>> /\ status' = "error"
  /\ UNCHANGED <<memVars, col, job, launched, todo, loose, stray>>

(* Mutant: the inputs are not flushed.                                     *)
FlushInput_NoFlush ==
  /\ At("flushInp") /\ col \in Columns
  /\ Goto("flushOut")
  /\ UNCHANGED <<memVars, op, col, job, launched, todo, status, loose, stray>>

(* Columns are cleaned in order, the input before the output of each.      *)
FlushInput ==
  /\ At("flushInp") /\ col \in Columns
  /\ Clean(Touch(op.inp[col]))
  /\ Goto("flushOut")
  /\ UNCHANGED <<op, col, job, launched, todo, status, loose, stray>>

(* Mutant: the outputs are not flushed.                                    *)
FlushOutput_NoFlush ==
  /\ At("flushOut") /\ col \in Columns
  /\ Goto("flushInp")
  /\ col' = col + 1
  /\ UNCHANGED <<memVars, op, job, launched, todo, status, loose, stray>>

(* Mutant: the input column is flushed a second time instead.              *)
FlushOutput_FlushesInput ==
  /\ At("flushOut") /\ col \in Columns
  /\ Clean(Touch(op.inp[col]))
  /\ Goto("flushInp")
  /\ col' = col + 1
  /\ UNCHANGED <<op, job, launched, todo, status, loose, stray>>

FlushOutput ==
  /\ At("flushOut") /\ col \in Columns
  /\ Clean(Touch(op.out[col]))
  /\ Goto("flushInp")
  /\ col' = col + 1
  /\ UNCHANGED <<op, job, launched, todo, status, loose, stray>>

FlushFails ==
  /\ col \in Columns
  /\ \/ At("flushInp") /\ op.inp[col] # {}
     \/ At("flushOut") /\ op.out[col] # {}
  /\ Return("error")
  /\ UNCHANGED <<memVars, loose, stray>>

(* strela_job_config fails: no valid job, nothing to free.                 *)
ConfigFails ==
  /\ At("flushInp") /\ col \notin Columns
  /\ Return("error")
  /\ UNCHANGED <<memVars, loose, stray>>

SubmitFails ==
  /\ At("flushInp") /\ col \notin Columns
  /\ Goto("free")
  /\ job' = "configured"
  /\ status' = "error"
  /\ UNCHANGED <<memVars, op, col, launched, todo, loose, stray>>

Submit ==
  /\ At("flushInp") /\ col \notin Columns
  /\ Goto("wait")
  /\ job' = "pending" /\ launched' = TRUE /\ todo' = Out
  /\ UNCHANGED <<memVars, op, col, status, loose, stray>>

(* Mutant: a cancelled job does not end the wait.                          *)
Wait_ForSuccess ==
  /\ At("wait") /\ job = "ok"
  /\ Goto("poll")
  /\ UNCHANGED <<memVars, op, col, job, launched, todo, status, loose, stray>>

(* strela_job_wait returns when the job has ended.                         *)
Wait ==
  /\ At("wait") /\ job # "pending"
  /\ Goto("poll")
  /\ UNCHANGED <<memVars, op, col, job, launched, todo, status, loose, stray>>

(* It may also return early, with or without an error.                     *)
WaitInterrupted ==
  /\ At("wait")
  /\ \/ Goto("poll") /\ UNCHANGED status
     \/ Goto("free") /\ status' = "error"
  /\ UNCHANGED <<memVars, op, col, job, launched, todo, loose, stray>>

(* Mutant: the job's state is returned unconverted.                        *)
Poll_RawStatus ==
  /\ At("poll")
  /\ Goto("free")
  /\ status' = job
  /\ UNCHANGED <<memVars, op, col, job, launched, todo, loose, stray>>

Poll ==
  /\ At("poll")
  /\ Goto("free")
  /\ status' = IF job = "ok" THEN "ok" ELSE "error"
  /\ UNCHANGED <<memVars, op, col, job, launched, todo, loose, stray>>

PollFails ==
  /\ At("poll")
  /\ Goto("free")
  /\ status' = "error"
  /\ UNCHANGED <<memVars, op, col, job, launched, todo, loose, stray>>

(* Mutant: the loop over the outputs does not start again.                 *)
Free_KeepsColumn ==
  /\ At("free") /\ status = "ok"
  /\ Goto("clean")
  /\ job' = "none"
  /\ UNCHANGED <<memVars, op, col, launched, todo, status, loose, stray>>

(* A free that succeeds ends a job that is still pending.  Only a dispatch *)
(* without an error goes on to invalidate its outputs.                     *)
Free ==
  /\ At("free") /\ status = "ok"
  /\ Goto("clean")
  /\ col' = 1
  /\ job' = "none"
  /\ UNCHANGED <<memVars, op, launched, todo, status, loose, stray>>

FreeAfterError ==
  /\ At("free") /\ status = "error"
  /\ Return("error")
  /\ loose' = loose \cup Owned
  /\ UNCHANGED <<memVars, stray>>

(* A free that fails leaves a pending job running.                         *)
FreeFails ==
  /\ At("free")
  /\ job = "pending" => todo \subseteq StrayWords
  /\ Return("error")
  /\ loose' = loose \cup Owned
  /\ stray' = IF job = "pending" THEN stray \cup todo ELSE stray
  /\ UNCHANGED memVars

(* Mutant: the lines are dropped without being written back first.         *)
InvalidateClean_NoClean ==
  /\ At("clean") /\ col \in Columns
  /\ Goto("discard")
  /\ UNCHANGED <<memVars, op, col, job, launched, todo, status, loose, stray>>

(* Every output is cleaned, then dropped.                                  *)
InvalidateClean ==
  /\ At("clean") /\ col \in Columns
  /\ Clean(Touch(op.out[col]))
  /\ Goto("discard")
  /\ UNCHANGED <<op, col, job, launched, todo, status, loose, stray>>

(* Mutant: the lines are written back but never dropped.                   *)
InvalidateDiscard_NoDiscard ==
  /\ At("discard") /\ col \in Columns
  /\ Goto("clean")
  /\ col' = col + 1
  /\ UNCHANGED <<memVars, op, job, launched, todo, status, loose, stray>>

InvalidateDiscard ==
  /\ At("discard") /\ col \in Columns
  /\ Discard(Touch(op.out[col]))
  /\ Goto("clean")
  /\ col' = col + 1
  /\ UNCHANGED <<op, job, launched, todo, status, loose, stray>>

InvalidateFails ==
  /\ At("clean") \/ At("discard")
  /\ col \in Columns /\ op.out[col] # {}
  /\ Return("error")
  /\ loose' = IF launched THEN loose \cup OutFrom(col) ELSE loose
  /\ UNCHANGED <<memVars, stray>>

Done ==
  /\ At("clean") /\ col \notin Columns
  /\ Return("ok")
  /\ loose' = (loose \ Out) \cup stray
  /\ UNCHANGED <<memVars, stray>>

-----------------------------------------------------------------------------
(* The CGRA and its kernel driver.                                         *)
DeviceWrite(w) ==
  /\ job = "pending" /\ w \in todo
  /\ DeviceStore(w, Kernel(w, [i \in Inp |-> mem[i]]))
  /\ todo' = todo \ {w}
  /\ UNCHANGED <<pc, op, col, job, launched, status, loose, stray>>

JobEnds ==
  /\ job = "pending" /\ todo = {}
  /\ job' = "ok"
  /\ UNCHANGED <<memVars, pc, op, col, launched, todo, status, loose, stray>>

(* The driver's timeout cancels a job that hangs, at any point of it.      *)
JobCancelled ==
  /\ job = "pending"
  /\ job' = "failed"
  /\ UNCHANGED <<memVars, pc, op, col, launched, todo, status, loose, stray>>

(* A job that could not be freed may write its words at any time from then *)
(* on: nobody learns when the driver's timeout ends it.                    *)
StrayWrite(w) ==
  /\ w \in stray
  /\ \E v \in Values : DeviceStore(w, v)
  /\ UNCHANGED ctlVars

-----------------------------------------------------------------------------
(* A host thread stores through a mapping to a word that no command in     *)
(* progress uses.                                                          *)
HostStore(w, v) ==
  /\ w \notin Inp \cup Out
  /\ CpuStore({w}, [x \in {w} |-> v])
  /\ loose' = (loose \ {w}) \cup stray
  /\ UNCHANGED <<pc, op, col, job, launched, todo, status, stray>>

(* ... and, in Spec, not on a line that holds an output of it either.      *)
HostStoreApart(w, v) ==
  /\ LineOf[w] \notin Touch(Out)
  /\ HostStore(w, v)

CacheStep ==
  /\ \E l \in Lines : Fetch(l) \/ Evict(l)
  /\ UNCHANGED ctlVars

Transfer ==
  \/ \E S \in Ranges, v \in Values : FillBuffer(S, v)
  \/ \E S \in Ranges : UpdateBuffer(S)
  \/ \E m \in CopyMaps : CopyBuffer(m)

Maintain == \E S \in Ranges : FlushBuffer(S) \/ InvalidateBuffer(S)

(* The steps of a command that has begun.                                  *)
CommandStep ==
  \/ FlushInput \/ FlushOutput \/ FlushFails
  \/ ConfigFails \/ SubmitFails \/ Submit
  \/ Wait \/ Poll \/ PollFails
  \/ Free \/ FreeAfterError \/ FreeFails
  \/ InvalidateClean \/ InvalidateDiscard \/ InvalidateFails \/ Done

DeviceStep == (\E w \in Words : DeviceWrite(w)) \/ JobEnds \/ JobCancelled

Driver ==
  \/ Transfer
  \/ Maintain
  \/ \E k \in Kernels : Dispatch(k)
  \/ CommandStep
  \/ WaitInterrupted

Next ==
  \/ Driver
  \/ DeviceStep
  \/ CacheStep
  \/ \E w \in Words : StrayWrite(w)
  \/ \E w \in Words, v \in Values : HostStoreApart(w, v)

(* The caller's thread keeps running, and the kernel driver's timeout ends *)
(* every job (command_buffer.c:376).                                       *)
Fairness == WF_vars(CommandStep) /\ WF_vars(DeviceStep)

Spec == Init /\ [][Next]_vars /\ Fairness

-----------------------------------------------------------------------------
PcLabels == {"idle", "flushInp", "flushOut", "wait", "poll", "free", "clean",
             "discard"}

TypeOK ==
  /\ MemTypeOK
  /\ pc \in PcLabels
  /\ op \in [inp : ColumnWords, out : ColumnWords]
  /\ col \in 1 .. ColumnCount + 1
  /\ job \in {"none", "configured", "pending", "ok", "failed"}
  /\ launched \in BOOLEAN
  /\ todo \in SUBSET Words
  /\ status \in {"ok", "error"}
  /\ loose \in SUBSET Words
  /\ stray \in SUBSET Words

(* From submission until its job is freed, the CGRA finds in memory what   *)
(* the CPU last wrote to every input (command_buffer.c:346).               *)
DeviceReadsFresh ==
  launched /\ pc \in {"wait", "poll", "free"} =>
    \A w \in Inp \ (Out \cup loose) : mem[w] = CpuView(w)

(* While the CGRA owns its outputs no line of them is dirty, so nothing    *)
(* the CPU left behind can be written back over them                       *)
(* (command_buffer.c:346-347).                                             *)
NoWriteBackOverOutput ==
  \A w \in Owned : Tag(w) # "dirty"

(* When no dispatch owns a word and none failed on it, a clean cached copy *)
(* of it agrees with memory: the CPU sees nothing stale                    *)
(* (allocator.c:120-123).                                                  *)
CpuSeesNothingStale ==
  \A w \in Words \ (Owned \cup loose) :
    Tag(w) = "clean" => cached[w] = mem[w]

(* allocator.c:121-123 as it is written, "every dispatch": with nothing in *)
(* progress, no clean cached copy differs from memory.                     *)
CpuNeverStale ==
  pc = "idle" => \A w \in Words : Tag(w) = "clean" => cached[w] = mem[w]

(* Invalidating a range loses no store of the CPU, neither to the range    *)
(* itself nor to the other words of its lines: only where the CGRA wrote   *)
(* does the CPU see something else afterwards (buffer.c:175-177).          *)
NothingCpuWroteIsLost ==
  [][InvalidateDiscard =>
       \A w \in Words \ (Owned \cup loose) : CpuView(w)' = CpuView(w)]_vars

(* No output the CGRA has written is undone before its dispatch returns,   *)
(* unless an earlier job that could not be freed writes to it              *)
(* (command_buffer.c:346-347).                                             *)
OutputsSurvive ==
  [][\A w \in Owned \ (todo \cup stray) : mem'[w] = mem[w]]_vars

(* Every command returns.                                                  *)
CommandsReturn == pc # "idle" ~> pc = "idle"

(* The driver implements one coherent memory: an output has the value the  *)
(* CGRA left until its dispatch returns, any other word what the CPU sees. *)
OneValue ==
  [w \in Words |-> IF w \in Owned \cup loose THEN mem[w] ELSE CpuView(w)]

Coherent == INSTANCE CoherentMemory WITH
  val <- OneValue,
  loose <- loose,
  stray <- stray,
  busy <- launched,
  inp <- IF launched THEN Inp ELSE {},
  out <- Owned,
  todo <- todo

CoherentSpec == Coherent!Spec

=============================================================================
