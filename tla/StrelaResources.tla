-------------------------- MODULE StrelaResources --------------------------
(***************************************************************************)
(* What the driver holds of libstrela: buffers (allocator.c, buffer.c) and *)
(* kernels (executable.c), and the one sticky error that libstrela keeps   *)
(* per device (strela_driver_module.c:16-38).                              *)
(*                                                                         *)
(* libstrela is outside the repository.  A call of it may fail, which sets *)
(* the sticky error; a call that finds it set has no effect, which is what *)
(* executable.c:210-212 relies on.  A handle is a number, 0 the one that   *)
(* is not valid.                                                           *)
(***************************************************************************)
EXTENDS Naturals, Sequences

CONSTANTS
  Threads,      \* the host threads that may use the device
  BufferCount,  \* how many buffers the device's memory has room for
  KernelCount,  \* how many kernels it has room for
  ExportCounts  \* how many exports an executable may have

ASSUME ResourceAssumption ==
  /\ BufferCount \in Nat /\ KernelCount \in Nat
  /\ ExportCounts \subseteq Nat \ {0}

VARIABLES
  active,   \* the threads that do use it
  freesFail,\* whether libstrela may fail to free a live handle
  err,      \* the sticky error is set
  bufs,     \* the live libstrela buffers
  kernels,  \* the live libstrela kernels
  held,     \* the handles of the live HAL buffers
  exe,      \* exe[t]: the kernel handles of the executable t has, if any
  pc,       \* pc[t]: where t is in its call
  reg,      \* reg[t]: the handles of the object t creates or destroys
  idx,      \* idx[t]: the export a loop over them has reached
  astray,   \* astray[t]: history: the status t's last call returned was
            \* not that call's own
  own       \* own[t]: history: something t's call does has failed

libVars == <<err, bufs, kernels>>
vars == <<active, freesFail, err, bufs, kernels, held, exe, pc, reg, idx, astray, own>>

NoHandle == 0
BufferHandles == 1 .. BufferCount
KernelHandles == 1 .. KernelCount

ListRange(list) == {list[i] : i \in DOMAIN list}

Init ==
  /\ active \in (SUBSET Threads) \ {{}} /\ freesFail \in BOOLEAN
  /\ err = FALSE /\ bufs = {} /\ kernels = {}
  /\ held = {} /\ exe = [t \in Threads |-> <<>>]
  /\ pc = [t \in Threads |-> "idle"]
  /\ reg = [t \in Threads |-> <<>>]
  /\ idx = [t \in Threads |-> 1]
  /\ astray = [t \in Threads |-> FALSE]
  /\ own = [t \in Threads |-> FALSE]

-----------------------------------------------------------------------------
(* libstrela.  Each operator says what becomes of the error and of own[t]. *)
Fails(t) ==
  /\ ~err /\ err' = TRUE
  /\ own' = [own EXCEPT ![t] = TRUE]

Succeeds == ~err /\ UNCHANGED <<err, own>>

(* With the error set already there is no effect.                          *)
Skipped == err /\ UNCHANGED <<err, own>>

BufferAlloc(t) ==
  /\ \/ \E h \in BufferHandles \ bufs :
          Succeeds /\ bufs' = bufs \cup {h} /\ reg' = [reg EXCEPT ![t] = <<h>>]
     \/ /\ Skipped \/ Fails(t)
        /\ reg' = [reg EXCEPT ![t] = <<NoHandle>>]
        /\ UNCHANGED bufs
  /\ UNCHANGED kernels

BufferFree(t, h) ==
  /\ \/ h \in bufs /\ Succeeds /\ bufs' = bufs \ {h}
     \/ (h \notin bufs \/ freesFail) /\ Fails(t) /\ UNCHANGED bufs
     \/ Skipped /\ UNCHANGED bufs
  /\ UNCHANGED kernels

KernelAlloc(t) ==
  /\ \/ \E h \in KernelHandles \ kernels :
          /\ Succeeds /\ kernels' = kernels \cup {h}
          /\ reg' = [reg EXCEPT ![t][idx[t]] = h]
     \/ (Skipped \/ Fails(t)) /\ UNCHANGED <<kernels, reg>>
  /\ UNCHANGED bufs

KernelFree(t, h) ==
  /\ \/ h \in kernels /\ Succeeds /\ kernels' = kernels \ {h}
     \/ (h \notin kernels \/ freesFail) /\ Fails(t) /\ UNCHANGED kernels
     \/ Skipped /\ UNCHANGED kernels
  /\ UNCHANGED bufs

(* A call on a handle that neither allocates nor frees.                    *)
Use(t) ==
  /\ Succeeds \/ Skipped \/ Fails(t)
  /\ UNCHANGED <<bufs, kernels>>

-----------------------------------------------------------------------------
At(t, label) == pc[t] = label
Goto(t, label) == pc' = [pc EXCEPT ![t] = label]

Leave(t) ==
  /\ Goto(t, "idle")
  /\ reg' = [reg EXCEPT ![t] = <<>>]
  /\ idx' = [idx EXCEPT ![t] = 1]
  /\ own' = [own EXCEPT ![t] = FALSE]

Return(t, r) ==
  /\ Leave(t)
  /\ astray' = [astray EXCEPT ![t] = (r = "error") # own[t]]

ReturnOk(t) ==
  /\ At(t, "done")
  /\ Return(t, "ok")
  /\ UNCHANGED <<libVars, held, exe>>

ReturnError(t) ==
  /\ At(t, "fail")
  /\ Return(t, "error")
  /\ UNCHANGED <<libVars, held, exe>>

(* iree_hal_strela_status_from_dev looks at the error...                   *)
DevOk(t, ok, notOk) ==
  /\ Goto(t, IF err THEN notOk ELSE ok)
  /\ UNCHANGED <<libVars, held, exe, reg, idx, astray, own>>

(* Mutant: the error that was seen is not cleared.                         *)
ResetErr_Kept(t, next) ==
  /\ Goto(t, next)
  /\ idx' = [idx EXCEPT ![t] = 1]
  /\ UNCHANGED <<libVars, held, exe, reg, astray, own>>

(* Mutant: the loop that follows starts one entry early.                   *)
ResetErr_OneEarly(t, next) ==
  /\ err' = FALSE
  /\ Goto(t, next)
  /\ idx' = [idx EXCEPT ![t] = 0]
  /\ UNCHANGED <<bufs, kernels, held, exe, reg, astray, own>>

(* ... and clears the one it has seen.                                     *)
ResetErr(t, next) ==
  /\ err' = FALSE
  /\ Goto(t, next)
  /\ idx' = [idx EXCEPT ![t] = 1]
  /\ UNCHANGED <<bufs, kernels, held, exe, reg, astray, own>>

-----------------------------------------------------------------------------
(* A creation that is given up before libstrela is called: nothing has     *)
(* been made that had to be undone.                                        *)
GiveUp(t) ==
  /\ At(t, "idle")
  /\ Goto(t, "fail")
  /\ own' = [own EXCEPT ![t] = TRUE]
  /\ UNCHANGED <<libVars, held, exe, reg, idx, astray>>

(* iree_hal_strela_allocator_allocate_buffer: the parameters are not such  *)
(* as the allocator can satisfy.                                           *)
AllocateRefused(t) == GiveUp(t)

AllocateBuffer(t) ==
  /\ At(t, "idle")
  /\ BufferAlloc(t)
  /\ Goto(t, "allocCheck")
  /\ UNCHANGED <<held, exe, idx, astray>>

AllocateCheck(t) == At(t, "allocCheck") /\ DevOk(t, "wrap", "allocReset")
AllocateReset(t) == At(t, "allocReset") /\ ResetErr(t, "undo")

Wrap(t) ==
  /\ At(t, "wrap")
  /\ held' = held \cup ListRange(reg[t])
  /\ Return(t, "ok")
  /\ UNCHANGED <<libVars, exe>>

WrapFails(t) ==
  /\ At(t, "wrap")
  /\ Goto(t, "undo")
  /\ own' = [own EXCEPT ![t] = TRUE]
  /\ UNCHANGED <<libVars, held, exe, reg, idx, astray>>

(* Mutant: the handle of a buffer that could not be wrapped is forgotten.  *)
Undo_NoFree(t) ==
  /\ At(t, "undo")
  /\ Goto(t, "fail")
  /\ UNCHANGED <<libVars, held, exe, reg, idx, astray, own>>

(* Only a valid handle is given back, and nobody looks at the error.       *)
Undo(t) ==
  /\ At(t, "undo")
  /\ IF reg[t][1] # NoHandle
     THEN BufferFree(t, reg[t][1])
     ELSE UNCHANGED <<libVars, own>>
  /\ Goto(t, "fail")
  /\ UNCHANGED <<held, exe, reg, idx, astray>>

(* iree_hal_strela_buffer_release_fn, the callback of every buffer.        *)
ReleaseFn(t, h) == BufferFree(t, h)

(* The last reference is released: the callback gives the handle back, and *)
(* nobody looks at the error.                                              *)
ReleaseBuffer(t, h) ==
  /\ At(t, "idle") /\ h \in held
  /\ held' = held \ {h}
  /\ ReleaseFn(t, h)
  /\ Goto(t, "released")
  /\ UNCHANGED <<exe, reg, idx, astray>>

Released(t) ==
  /\ At(t, "released")
  /\ Leave(t)
  /\ UNCHANGED <<libVars, held, exe, astray>>

(* flush_range and invalidate_range: libstrela is called, then the status  *)
(* looked at.                                                              *)
Sync(t) ==
  /\ At(t, "idle") /\ held # {}
  /\ Use(t)
  /\ Goto(t, "syncCheck")
  /\ UNCHANGED <<held, exe, reg, idx, astray>>

SyncCheck(t) == At(t, "syncCheck") /\ DevOk(t, "done", "syncReset")
SyncReset(t) == At(t, "syncReset") /\ ResetErr(t, "fail")

-----------------------------------------------------------------------------
(* Mutant: the handles are not zeroed and may look like valid ones.        *)
CreateExecutable_NotZeroed(t) ==
  /\ At(t, "idle") /\ exe[t] = <<>>
  /\ \E n \in ExportCounts, h \in KernelHandles :
       reg' = [reg EXCEPT ![t] = [i \in 1 .. n |-> h]]
  /\ Goto(t, "load")
  /\ UNCHANGED <<libVars, held, exe, idx, astray, own>>

(* iree_hal_strela_executable_create: the flatbuffer has no header, is not *)
(* a correct one or has no room in host memory...                          *)
CreateRefused(t) == exe[t] = <<>> /\ GiveUp(t)

(* ... or all the handles are zeroed before any kernel is loaded.          *)
CreateExecutable(t) ==
  /\ At(t, "idle") /\ exe[t] = <<>>
  /\ \E n \in ExportCounts : reg' = [reg EXCEPT ![t] = [i \in 1 .. n |-> NoHandle]]
  /\ Goto(t, "load")
  /\ UNCHANGED <<libVars, held, exe, idx, astray, own>>

LoadKernel(t) ==
  /\ At(t, "load") /\ idx[t] <= Len(reg[t])
  /\ KernelAlloc(t)
  /\ Goto(t, "set")
  /\ UNCHANGED <<held, exe, idx, astray>>

SetKernel(t) ==
  /\ At(t, "set")
  /\ Use(t)
  /\ Goto(t, "loadCheck")
  /\ idx' = [idx EXCEPT ![t] = @ + 1]
  /\ UNCHANGED <<held, exe, reg, astray>>

(* Mutant: nobody looks at the error of a kernel that was not loaded.      *)
LoadCheck_Unchecked(t) ==
  /\ At(t, "loadCheck") /\ Goto(t, "load")
  /\ UNCHANGED <<libVars, held, exe, reg, idx, astray, own>>

LoadCheck(t) == At(t, "loadCheck") /\ DevOk(t, "load", "loadReset")
LoadReset(t) == At(t, "loadReset") /\ ResetErr(t, "undoLoad")

Created(t) ==
  /\ At(t, "load") /\ idx[t] > Len(reg[t])
  /\ exe' = [exe EXCEPT ![t] = reg[t]]
  /\ Return(t, "ok")
  /\ UNCHANGED <<libVars, held>>

(* iree_hal_strela_executable_destroy, also the way a creation is undone.  *)
DestroyExecutable(t) ==
  /\ At(t, "idle") /\ exe[t] # <<>>
  /\ reg' = [reg EXCEPT ![t] = exe[t]]
  /\ exe' = [exe EXCEPT ![t] = <<>>]
  /\ Goto(t, "unload")
  /\ UNCHANGED <<libVars, held, idx, astray, own>>

Unloading(t) == pc[t] \in {"unload", "undoLoad"}

UnloadKernel(t) ==
  /\ Unloading(t) /\ idx[t] <= Len(reg[t])
  /\ IF reg[t][idx[t]] # NoHandle
     THEN KernelFree(t, reg[t][idx[t]])
     ELSE UNCHANGED <<libVars, own>>
  /\ idx' = [idx EXCEPT ![t] = @ + 1]
  /\ UNCHANGED <<held, exe, pc, reg, astray>>

(* The error of a kernel that cannot be freed is cleared and dropped.      *)
Unloaded(t) ==
  /\ Unloading(t) /\ idx[t] > Len(reg[t])
  /\ ResetErr(t, IF At(t, "unload") THEN "released" ELSE "fail")

Step(t) ==
  \/ AllocateRefused(t) \/ AllocateBuffer(t) \/ AllocateCheck(t) \/ AllocateReset(t)
  \/ Wrap(t) \/ WrapFails(t) \/ Undo(t)
  \/ \E h \in held : ReleaseBuffer(t, h)
  \/ Released(t) \/ ReturnOk(t) \/ ReturnError(t)
  \/ Sync(t) \/ SyncCheck(t) \/ SyncReset(t)
  \/ CreateRefused(t) \/ CreateExecutable(t) \/ LoadKernel(t) \/ SetKernel(t)
  \/ LoadCheck(t) \/ LoadReset(t) \/ Created(t)
  \/ DestroyExecutable(t) \/ UnloadKernel(t) \/ Unloaded(t)

Next == UNCHANGED <<active, freesFail>> /\ \E t \in active : Step(t)

Spec == Init /\ [][Next]_vars

-----------------------------------------------------------------------------
PcLabels == {"idle", "done", "fail", "allocCheck", "allocReset", "wrap", "undo",
             "released", "syncCheck", "syncReset", "load", "set", "loadCheck",
             "loadReset", "unload", "undoLoad"}

TypeOK ==
  /\ active \subseteq Threads /\ freesFail \in BOOLEAN
  /\ err \in BOOLEAN
  /\ bufs \subseteq BufferHandles
  /\ kernels \subseteq KernelHandles
  /\ held \subseteq BufferHandles \cup {NoHandle}
  /\ exe \in [Threads -> Seq(KernelHandles \cup {NoHandle})]
  /\ pc \in [Threads -> PcLabels]
  /\ reg \in [Threads -> Seq(Nat)]
  /\ idx \in [Threads -> Nat \ {0}]
  /\ astray \in [Threads -> BOOLEAN]
  /\ own \in [Threads -> BOOLEAN]

(* The handles that a call in progress has still to hand over or to free.  *)
BuffersInProgress(t) ==
  IF pc[t] \in {"allocCheck", "allocReset", "wrap", "undo"}
  THEN ListRange(reg[t]) ELSE {}

Creating(t) == pc[t] \in {"load", "set", "loadCheck", "loadReset"}

KernelsInProgress(t) ==
  {reg[t][i] : i \in {j \in DOMAIN reg[t] : Creating(t) \/ (Unloading(t) /\ j >= idx[t])}}

OwnedBuffers ==
  (held \cup UNION {BuffersInProgress(t) : t \in Threads}) \ {NoHandle}

OwnedKernels ==
  (UNION {ListRange(exe[t]) \cup KernelsInProgress(t) : t \in Threads}) \ {NoHandle}

(* One thread only uses the device ...                                     *)
Solitary == \A t, u \in active : t = u

(* ... and nothing but a call's own failures can disturb it.               *)
Undisturbed == ~freesFail /\ Solitary

(* Whatever fails and wherever a creation is abandoned, a thread alone on  *)
(* a device that frees what it is asked to leaves no libstrela buffer or   *)
(* kernel that nothing will free (allocator.c:204-211,                     *)
(* executable.c:215-219).                                                  *)
NothingLeaks ==
  Undisturbed => bufs \subseteq OwnedBuffers /\ kernels \subseteq OwnedKernels

(* No handle in use has been freed, by its own call or by another thread's,*)
(* even where an error of one thread makes the calls of another ineffective*)
(* (allocator.c:204-211, executable.c:215-219).                            *)
NothingDangles == OwnedBuffers \subseteq bufs /\ OwnedKernels \subseteq kernels

(* A thread alone on a device is handed a buffer or an executable only with*)
(* what it needs of the device: no handle in it is invalid, also after a   *)
(* free that failed and whose error makes the next calls ineffective       *)
(* (allocator.c:166-171, executable.c:210-214, buffer.c:244).              *)
ObjectsValid ==
  Solitary =>
    /\ NoHandle \notin held
    /\ \A t \in Threads : NoHandle \notin ListRange(exe[t])

(* The sticky error never outlives the call that caused it, so that a call *)
(* fails if and only if something in it did (strela_driver_module.c:16-17).*)
StatusIsOwn ==
  Undisturbed => \A t \in Threads : ~astray[t]

=============================================================================
