----------------------- MODULE StrelaResources_proofs -----------------------
(***************************************************************************)
(* Proofs about buffers, executables and the sticky error, for any threads *)
(* and any number of handles: no handle in use has been freed, whatever    *)
(* the threads do to each other; with one thread on the device no object   *)
(* is made of an invalid handle; and if its frees succeed nothing leaks and*)
(* no call returns the error of another.                                   *)
(*                                                                         *)
(* The argument is one of ownership.  A live handle has one owner: a HAL   *)
(* buffer, an executable, or the call that makes or destroys one.  A call  *)
(* frees what it owns and no more, and libstrela hands out what nobody     *)
(* owns.  The rest follows the error through each call.                    *)
(***************************************************************************)
EXTENDS StrelaResources, SequenceTheorems, TLAPS

WithBuffer == {"allocCheck", "allocReset", "wrap", "undo"}
WithKernels == {"load", "set", "loadCheck", "loadReset", "unload", "undoLoad"}

(* What the place of a thread says of its handles.                         *)
PlaceInv(t) ==
  /\ pc[t] = "idle" => idx[t] = 1
  /\ pc[t] \in WithBuffer =>
       DOMAIN reg[t] = {1} /\ reg[t][1] \in BufferHandles \cup {NoHandle}
  /\ pc[t] \in WithKernels =>
       /\ exe[t] = <<>>
       /\ \A i \in DOMAIN reg[t] : reg[t][i] \in KernelHandles \cup {NoHandle}
  /\ pc[t] \in {"load", "loadCheck"} =>
       \A i \in DOMAIN reg[t] : i >= idx[t] => reg[t][i] = NoHandle
  /\ pc[t] = "set" =>
       /\ idx[t] \in DOMAIN reg[t]
       /\ \A i \in DOMAIN reg[t] : i > idx[t] => reg[t][i] = NoHandle

(* No kernel is in an executable twice.                                    *)
Once(list) ==
  \A i, j \in DOMAIN list : i # j => list[i] # list[j] \/ list[i] = NoHandle

OnceInv(t) ==
  /\ Once(exe[t])
  /\ pc[t] \in WithKernels => Once(reg[t])

(* What a thread owns.                                                     *)
Kernels(t) == (ListRange(exe[t]) \cup KernelsInProgress(t)) \ {NoHandle}
Buffers(t) == BuffersInProgress(t) \ {NoHandle}
Held == held \ {NoHandle}

(* A handle has one owner.                                                 *)
OneOwner ==
  /\ \A t \in Threads : Buffers(t) \cap Held = {}
  /\ \A t, u \in Threads : t # u =>
       Buffers(t) \cap Buffers(u) = {} /\ Kernels(t) \cap Kernels(u) = {}

(* Ownership, whatever the threads do to each other.                       *)
OwnInv ==
  /\ TypeOK
  /\ \A t \in Threads : PlaceInv(t) /\ OnceInv(t)
  /\ OneOwner
  /\ NothingDangles

(* The error, from the call of libstrela that sets it to the one that      *)
(* clears it.                                                              *)
ErrorInv(t) ==
  /\ pc[t] \in {"idle", "done", "released", "wrap", "load", "unload"} => ~err /\ ~own[t]
  /\ pc[t] \in {"undo", "undoLoad", "fail"} => ~err /\ own[t]
  /\ pc[t] \in {"allocReset", "syncReset", "loadReset"} => err /\ own[t]
  /\ pc[t] \in {"allocCheck", "syncCheck", "set", "loadCheck"} => (err <=> own[t])

(* The handles that are valid before and after the error is looked at.     *)
ValidInv(t) ==
  /\ pc[t] = "allocCheck" /\ ~err => reg[t][1] # NoHandle
  /\ pc[t] = "wrap" => reg[t][1] # NoHandle
  /\ pc[t] = "load" => \A i \in DOMAIN reg[t] : i < idx[t] => reg[t][i] # NoHandle
  /\ pc[t] \in {"set", "loadCheck"} /\ ~err =>
       \A i \in DOMAIN reg[t] :
         i < idx[t] \/ (i = idx[t] /\ pc[t] = "set") => reg[t][i] # NoHandle

(* What holds of a thread alone on a device ...                            *)
SolitaryInv ==
  Solitary =>
    /\ \A t \in active : ValidInv(t)
    /\ NoHandle \notin held
    /\ \A t \in Threads : NoHandle \notin ListRange(exe[t])

(* ... that frees what it is asked to.                                     *)
AloneInv ==
  Undisturbed =>
    /\ \A t \in active : ErrorInv(t)
    /\ bufs \subseteq OwnedBuffers /\ kernels \subseteq OwnedKernels
    /\ \A t \in Threads : ~astray[t]

IInv == OwnInv /\ SolitaryInv /\ AloneInv

-----------------------------------------------------------------------------
(* Sequences of handles.                                                   *)
LEMMA SeqOf ==
  ASSUME NEW S, NEW T, NEW s \in Seq(T), \A i \in DOMAIN s : s[i] \in S
  PROVE  s \in Seq(S)
  <1>1. Len(s) \in Nat /\ s \in [1 .. Len(s) -> T] /\ DOMAIN s = 1 .. Len(s)
    BY LenProperties
  <1>2. s \in [1 .. Len(s) -> S]
    BY <1>1
  <1> QED BY <1>1, <1>2

LEMMA ConstantSeq ==
  ASSUME NEW S, NEW n \in Nat, NEW v \in S
  PROVE  /\ [i \in 1 .. n |-> v] \in Seq(S)
         /\ DOMAIN [i \in 1 .. n |-> v] = 1 .. n
         /\ \A j \in 1 .. n : [i \in 1 .. n |-> v][j] = v
  <1>1. [i \in 1 .. n |-> v] \in [1 .. n -> S]
    OBVIOUS
  <1>2. [i \in 1 .. n |-> v] \in Seq(S)
    BY <1>1
  <1> QED BY <1>2

LEMMA SingletonSeq ==
  ASSUME NEW S, NEW v \in S
  PROVE  <<v>> \in Seq(S) /\ DOMAIN <<v>> = {1} /\ <<v>>[1] = v /\ Len(<<v>>) = 1
  OBVIOUS

-----------------------------------------------------------------------------
(* What a step does to the threads that do not move: nothing.              *)
Others(t) ==
  \A u \in Threads \ {t} :
    /\ pc'[u] = pc[u] /\ reg'[u] = reg[u] /\ idx'[u] = idx[u]
    /\ exe'[u] = exe[u] /\ astray'[u] = astray[u] /\ own'[u] = own[u]

LEMMA LibTypes ==
  ASSUME TypeOK, NEW t \in Threads
  PROVE  /\ Fails(t) => err' \in BOOLEAN /\ own' \in [Threads -> BOOLEAN]
         /\ Succeeds => err' \in BOOLEAN /\ own' \in [Threads -> BOOLEAN]
         /\ Skipped => err' \in BOOLEAN /\ own' \in [Threads -> BOOLEAN]
         /\ \A u \in Threads \ {t} : Fails(t) \/ Succeeds \/ Skipped => own'[u] = own[u]
  BY DEF TypeOK, Fails, Succeeds, Skipped

(* The variables keep their types: the calls of libstrela.                 *)
LEMMA BufferTypes ==
  ASSUME TypeOK, NEW t \in Threads
  PROVE  /\ BufferAlloc(t) =>
              /\ err' \in BOOLEAN /\ own' \in [Threads -> BOOLEAN]
              /\ bufs' \subseteq BufferHandles /\ kernels' \subseteq KernelHandles
              /\ \E h \in BufferHandles \cup {NoHandle} : reg' = [reg EXCEPT ![t] = <<h>>]
              /\ \A u \in Threads \ {t} : own'[u] = own[u]
         /\ \A h : BufferFree(t, h) =>
              /\ err' \in BOOLEAN /\ own' \in [Threads -> BOOLEAN]
              /\ bufs' \subseteq BufferHandles /\ kernels' \subseteq KernelHandles
              /\ \A u \in Threads \ {t} : own'[u] = own[u]
  <1>1. bufs \subseteq BufferHandles /\ kernels \subseteq KernelHandles
    BY DEF TypeOK
  <1>2. ASSUME BufferAlloc(t)
        PROVE  /\ bufs' \subseteq BufferHandles /\ kernels' \subseteq KernelHandles
               /\ \E h \in BufferHandles \cup {NoHandle} : reg' = [reg EXCEPT ![t] = <<h>>]
               /\ Fails(t) \/ Succeeds \/ Skipped
    BY <1>1, <1>2 DEF BufferAlloc
  <1>3. ASSUME NEW h, BufferFree(t, h)
        PROVE  /\ bufs' \subseteq BufferHandles /\ kernels' \subseteq KernelHandles
               /\ Fails(t) \/ Succeeds \/ Skipped
    BY <1>1, <1>3 DEF BufferFree
  <1> QED BY <1>2, <1>3, LibTypes

LEMMA KernelTypes ==
  ASSUME TypeOK, NEW t \in Threads
  PROVE  /\ KernelAlloc(t) =>
              /\ err' \in BOOLEAN /\ own' \in [Threads -> BOOLEAN]
              /\ bufs' \subseteq BufferHandles /\ kernels' \subseteq KernelHandles
              /\ \/ reg' = reg
                 \/ \E h \in KernelHandles : reg' = [reg EXCEPT ![t][idx[t]] = h]
              /\ \A u \in Threads \ {t} : own'[u] = own[u]
         /\ \A h : KernelFree(t, h) =>
              /\ err' \in BOOLEAN /\ own' \in [Threads -> BOOLEAN]
              /\ bufs' \subseteq BufferHandles /\ kernels' \subseteq KernelHandles
              /\ \A u \in Threads \ {t} : own'[u] = own[u]
         /\ Use(t) =>
              /\ err' \in BOOLEAN /\ own' \in [Threads -> BOOLEAN]
              /\ bufs' \subseteq BufferHandles /\ kernels' \subseteq KernelHandles
              /\ \A u \in Threads \ {t} : own'[u] = own[u]
  <1>1. bufs \subseteq BufferHandles /\ kernels \subseteq KernelHandles
    BY DEF TypeOK
  <1>2. ASSUME KernelAlloc(t)
        PROVE  /\ bufs' \subseteq BufferHandles /\ kernels' \subseteq KernelHandles
               /\ \/ reg' = reg
                  \/ \E h \in KernelHandles : reg' = [reg EXCEPT ![t][idx[t]] = h]
               /\ Fails(t) \/ Succeeds \/ Skipped
    BY <1>1, <1>2 DEF KernelAlloc
  <1>3. ASSUME NEW h, KernelFree(t, h)
        PROVE  /\ bufs' \subseteq BufferHandles /\ kernels' \subseteq KernelHandles
               /\ Fails(t) \/ Succeeds \/ Skipped
    BY <1>1, <1>3 DEF KernelFree
  <1>4. ASSUME Use(t)
        PROVE  /\ bufs' \subseteq BufferHandles /\ kernels' \subseteq KernelHandles
               /\ Fails(t) \/ Succeeds \/ Skipped
    BY <1>1, <1>4 DEF Use
  <1> QED BY <1>2, <1>3, <1>4, LibTypes

(* A value of reg[t] that is a sequence of handles keeps reg in its type.  *)
LEMMA RegTypes ==
  ASSUME TypeOK, NEW t \in Threads, NEW r \in Seq(Nat), reg' = [reg EXCEPT ![t] = r]
  PROVE  /\ reg' \in [Threads -> Seq(Nat)] /\ reg'[t] = r
         /\ \A u \in Threads \ {t} : reg'[u] = reg[u]
  BY DEF TypeOK

(* ... and all the steps.                                                  *)
LEMMA TypeStep ==
  ASSUME TypeOK, NEW t \in Threads, PlaceInv(t), Step(t),
         active' = active, freesFail' = freesFail
  PROVE  TypeOK' /\ Others(t)
  <1> USE DEF PcLabels, At, Goto, Others
  <1>1. CASE AllocateBuffer(t)
    <2>1. PICK h \in BufferHandles \cup {NoHandle} : reg' = [reg EXCEPT ![t] = <<h>>]
      BY <1>1, BufferTypes DEF AllocateBuffer
    <2>2. <<h>> \in Seq(Nat)
      BY SingletonSeq DEF BufferHandles, NoHandle
    <2>3. /\ reg' \in [Threads -> Seq(Nat)]
          /\ \A u \in Threads \ {t} : reg'[u] = reg[u]
      BY <2>1, <2>2, RegTypes
    <2> QED BY <1>1, <2>3, BufferTypes DEF AllocateBuffer, TypeOK
  <1>2. CASE AllocateCheck(t) \/ SyncCheck(t) \/ LoadCheck(t)
    <2>1. /\ \E l \in PcLabels : pc' = [pc EXCEPT ![t] = l]
          /\ UNCHANGED <<err, bufs, kernels, held, exe, reg, idx, astray, own>>
      BY <1>2 DEF AllocateCheck, SyncCheck, LoadCheck, DevOk, libVars
    <2> QED BY <2>1 DEF TypeOK
  <1>3. CASE AllocateReset(t) \/ SyncReset(t) \/ LoadReset(t) \/ Unloaded(t)
    <2>1. /\ \E l \in PcLabels : pc' = [pc EXCEPT ![t] = l]
          /\ idx' = [idx EXCEPT ![t] = 1] /\ err' = FALSE
          /\ UNCHANGED <<bufs, kernels, held, exe, reg, astray, own>>
      BY <1>3 DEF AllocateReset, SyncReset, LoadReset, Unloaded, ResetErr
    <2>2. /\ pc' \in [Threads -> PcLabels] /\ idx' \in [Threads -> Nat \ {0}]
          /\ \A u \in Threads \ {t} : pc'[u] = pc[u] /\ idx'[u] = idx[u]
      BY <2>1 DEF TypeOK
    <2> QED BY <2>1, <2>2 DEF TypeOK
  <1>4. CASE Wrap(t)
    <2>1. held' \subseteq BufferHandles \cup {NoHandle}
      BY <1>4 DEF Wrap, PlaceInv, WithBuffer, ListRange, TypeOK
    <2>2. /\ reg' \in [Threads -> Seq(Nat)]
          /\ \A u \in Threads \ {t} : reg'[u] = reg[u]
      BY <1>4, EmptySeq, RegTypes DEF Wrap, Return, Leave
    <2> QED BY <1>4, <2>1, <2>2 DEF Wrap, Return, Leave, libVars, TypeOK
  <1>5. CASE WrapFails(t) \/ AllocateRefused(t) \/ CreateRefused(t)
    BY <1>5 DEF WrapFails, AllocateRefused, CreateRefused, GiveUp, libVars, TypeOK
  <1>6. CASE Undo(t)
    <2>1. /\ err' \in BOOLEAN /\ own' \in [Threads -> BOOLEAN]
          /\ bufs' \subseteq BufferHandles /\ kernels' \subseteq KernelHandles
          /\ \A u \in Threads \ {t} : own'[u] = own[u]
      BY <1>6, BufferTypes DEF Undo, libVars, TypeOK
    <2> QED BY <1>6, <2>1 DEF Undo, TypeOK
  <1>7. CASE \E h \in held : ReleaseBuffer(t, h)
    <2>1. PICK h \in held : ReleaseBuffer(t, h)
      BY <1>7
    <2>2. /\ err' \in BOOLEAN /\ own' \in [Threads -> BOOLEAN]
          /\ bufs' \subseteq BufferHandles /\ kernels' \subseteq KernelHandles
          /\ \A u \in Threads \ {t} : own'[u] = own[u]
      BY <2>1, BufferTypes DEF ReleaseBuffer, ReleaseFn
    <2> QED BY <2>1, <2>2 DEF ReleaseBuffer, TypeOK
  <1>8. CASE Released(t) \/ ReturnOk(t) \/ ReturnError(t)
    <2>1. /\ reg' \in [Threads -> Seq(Nat)]
          /\ \A u \in Threads \ {t} : reg'[u] = reg[u]
      BY <1>8, EmptySeq, RegTypes DEF Released, ReturnOk, ReturnError, Return, Leave
    <2>2. UNCHANGED <<err, bufs, kernels, held, exe>>
      BY <1>8 DEF Released, ReturnOk, ReturnError, libVars
    <2>3. /\ pc' = [pc EXCEPT ![t] = "idle"] /\ idx' = [idx EXCEPT ![t] = 1]
          /\ own' = [own EXCEPT ![t] = FALSE]
      BY <1>8 DEF Released, ReturnOk, ReturnError, Return, Leave
    <2>4. \/ astray' = astray
          \/ astray' = [astray EXCEPT ![t] = ("ok" = "error") # own[t]]
          \/ astray' = [astray EXCEPT ![t] = ("error" = "error") # own[t]]
      BY <1>8 DEF Released, ReturnOk, ReturnError, Return
    <2>5. /\ astray' \in [Threads -> BOOLEAN]
          /\ \A u \in Threads \ {t} : astray'[u] = astray[u]
      BY <2>4 DEF TypeOK
    <2>6. /\ pc' \in [Threads -> PcLabels] /\ idx' \in [Threads -> Nat \ {0}]
          /\ own' \in [Threads -> BOOLEAN]
          /\ \A u \in Threads \ {t} : pc'[u] = pc[u] /\ idx'[u] = idx[u] /\ own'[u] = own[u]
      BY <2>3 DEF TypeOK
    <2>7. TypeOK'
      BY <2>1, <2>2, <2>5, <2>6 DEF TypeOK
    <2> QED BY <2>1, <2>2, <2>5, <2>6, <2>7
  <1>9. CASE Sync(t)
    BY <1>9, KernelTypes DEF Sync, TypeOK
  <1>10. CASE CreateExecutable(t)
    <2>1. PICK n \in ExportCounts : reg' = [reg EXCEPT ![t] = [i \in 1 .. n |-> NoHandle]]
      BY <1>10 DEF CreateExecutable
    <2>2. [i \in 1 .. n |-> NoHandle] \in Seq(Nat)
      BY ResourceAssumption, ConstantSeq DEF NoHandle
    <2>3. /\ reg' \in [Threads -> Seq(Nat)]
          /\ \A u \in Threads \ {t} : reg'[u] = reg[u]
      BY <2>1, <2>2, RegTypes
    <2> QED BY <1>10, <2>3 DEF CreateExecutable, libVars, TypeOK
  <1>11. CASE LoadKernel(t)
    <2>1. /\ reg' \in [Threads -> Seq(Nat)]
          /\ \A u \in Threads \ {t} : reg'[u] = reg[u]
      <3>1. CASE reg' = reg
        BY <3>1 DEF TypeOK
      <3>2. ASSUME NEW h \in KernelHandles, reg' = [reg EXCEPT ![t][idx[t]] = h]
            PROVE  <2>1!1 /\ <2>1!2
        <4>1. reg[t] \in Seq(Nat) /\ idx[t] \in 1 .. Len(reg[t]) /\ h \in Nat
          BY <1>11, LenProperties DEF LoadKernel, TypeOK, KernelHandles
        <4>2. [reg[t] EXCEPT ![idx[t]] = h] \in Seq(Nat)
          BY <4>1, ExceptSeq
        <4>3. reg' = [reg EXCEPT ![t] = [reg[t] EXCEPT ![idx[t]] = h]]
          BY <3>2
        <4> QED BY <4>2, <4>3, RegTypes
      <3> QED BY <1>11, <3>1, <3>2, KernelTypes DEF LoadKernel
    <2> QED BY <1>11, <2>1, KernelTypes DEF LoadKernel, TypeOK
  <1>12. CASE SetKernel(t)
    BY <1>12, KernelTypes DEF SetKernel, TypeOK
  <1>13. CASE Created(t)
    <2>1. reg[t] \in Seq(Nat) /\ \A i \in DOMAIN reg[t] : reg[t][i] \in KernelHandles \cup {NoHandle}
      BY <1>13 DEF Created, PlaceInv, WithKernels, TypeOK
    <2>2. reg[t] \in Seq(KernelHandles \cup {NoHandle})
      BY <2>1, SeqOf
    <2>3. exe' \in [Threads -> Seq(KernelHandles \cup {NoHandle})]
          /\ \A u \in Threads \ {t} : exe'[u] = exe[u]
      BY <1>13, <2>2 DEF Created, TypeOK
    <2>4. /\ reg' \in [Threads -> Seq(Nat)]
          /\ \A u \in Threads \ {t} : reg'[u] = reg[u]
      BY <1>13, EmptySeq, RegTypes DEF Created, Return, Leave
    <2> QED BY <1>13, <2>3, <2>4 DEF Created, Return, Leave, libVars, TypeOK
  <1>14. CASE DestroyExecutable(t)
    <2>1. exe[t] \in Seq(KernelHandles \cup {NoHandle})
      BY DEF TypeOK
    <2>2. exe[t] \in Seq(Nat)
      BY <2>1, SeqMonotonic DEF KernelHandles, NoHandle
    <2>3. /\ reg' \in [Threads -> Seq(Nat)]
          /\ \A u \in Threads \ {t} : reg'[u] = reg[u]
      BY <1>14, <2>2, RegTypes DEF DestroyExecutable
    <2>4. /\ exe' \in [Threads -> Seq(KernelHandles \cup {NoHandle})]
          /\ \A u \in Threads \ {t} : exe'[u] = exe[u]
      BY <1>14, EmptySeq DEF DestroyExecutable, TypeOK
    <2> QED BY <1>14, <2>3, <2>4 DEF DestroyExecutable, libVars, TypeOK
  <1>15. CASE UnloadKernel(t)
    <2>1. /\ err' \in BOOLEAN /\ own' \in [Threads -> BOOLEAN]
          /\ bufs' \subseteq BufferHandles /\ kernels' \subseteq KernelHandles
          /\ \A u \in Threads \ {t} : own'[u] = own[u]
      BY <1>15, KernelTypes DEF UnloadKernel, libVars, TypeOK
    <2>2. /\ UNCHANGED <<held, exe, pc, reg, astray>>
          /\ idx' = [idx EXCEPT ![t] = @ + 1]
      BY <1>15 DEF UnloadKernel
    <2> QED BY <2>1, <2>2 DEF TypeOK
  <1> QED
    BY <1>1, <1>2, <1>3, <1>4, <1>5, <1>6, <1>7, <1>8, <1>9, <1>10, <1>11, <1>12,
       <1>13, <1>14, <1>15 DEF Step

-----------------------------------------------------------------------------
(* What a thread owns, handle by handle, before a step and after it.       *)
LEMMA KernelsOf ==
  ASSUME NEW t \in Threads, NEW h
  PROVE  h \in Kernels(t) <=>
           /\ h # NoHandle
           /\ \/ \E i \in DOMAIN exe[t] : h = exe[t][i]
              \/ \E j \in DOMAIN reg[t] :
                   (Creating(t) \/ (Unloading(t) /\ j >= idx[t])) /\ h = reg[t][j]
  BY DEF Kernels, KernelsInProgress, ListRange

LEMMA KernelsThen ==
  ASSUME NEW t \in Threads, NEW h
  PROVE  h \in Kernels(t)' <=>
           /\ h # NoHandle
           /\ \/ \E i \in DOMAIN exe'[t] : h = exe'[t][i]
              \/ \E j \in DOMAIN reg'[t] :
                   (Creating(t)' \/ (Unloading(t)' /\ j >= idx'[t])) /\ h = reg'[t][j]
  BY DEF Kernels, KernelsInProgress, ListRange, NoHandle

LEMMA BuffersOf ==
  ASSUME NEW t \in Threads, PlaceInv(t)
  PROVE  Buffers(t) = IF pc[t] \in WithBuffer THEN {reg[t][1]} \ {NoHandle} ELSE {}
  <1>1. CASE pc[t] \in WithBuffer
    <2>1. DOMAIN reg[t] = {1}
      BY <1>1 DEF PlaceInv
    <2> QED BY <1>1, <2>1 DEF Buffers, BuffersInProgress, ListRange, WithBuffer
  <1>2. CASE pc[t] \notin WithBuffer
    BY <1>2 DEF Buffers, BuffersInProgress, WithBuffer
  <1> QED BY <1>1, <1>2

LEMMA BuffersThen ==
  ASSUME NEW t \in Threads, pc'[t] \in WithBuffer => DOMAIN reg'[t] = {1}
  PROVE  Buffers(t)' = IF pc'[t] \in WithBuffer THEN {reg'[t][1]} \ {NoHandle} ELSE {}
  <1>1. CASE pc'[t] \in WithBuffer
    BY <1>1 DEF Buffers, BuffersInProgress, ListRange, WithBuffer, NoHandle
  <1>2. CASE pc'[t] \notin WithBuffer
    BY <1>2 DEF Buffers, BuffersInProgress, WithBuffer
  <1> QED BY <1>1, <1>2

(* A thread that does not move owns what it owned.                         *)
LEMMA OthersOwn ==
  ASSUME NEW t \in Threads, Others(t), NEW u \in Threads \ {t}
  PROVE  /\ Kernels(u)' = Kernels(u) /\ Buffers(u)' = Buffers(u)
         /\ PlaceInv(u) => PlaceInv(u)'
         /\ OnceInv(u) => OnceInv(u)'
  <1>1. pc'[u] = pc[u] /\ reg'[u] = reg[u] /\ idx'[u] = idx[u] /\ exe'[u] = exe[u]
    BY DEF Others
  <1>2. Kernels(u)' = Kernels(u) /\ Buffers(u)' = Buffers(u)
    BY <1>1 DEF Kernels, KernelsInProgress, Creating, Unloading, Buffers,
       BuffersInProgress, ListRange, NoHandle
  <1>3. PlaceInv(u) => PlaceInv(u)'
    BY <1>1 DEF PlaceInv, WithBuffer, WithKernels, BufferHandles, KernelHandles, NoHandle
  <1>4. OnceInv(u) => OnceInv(u)'
    BY <1>1 DEF OnceInv, Once, WithKernels, NoHandle
  <1> QED BY <1>2, <1>3, <1>4

(* What is owned, owner by owner.                                          *)
LEMMA OwnedParts ==
  /\ \A h : h \in OwnedBuffers <=> h \in Held \/ \E u \in Threads : h \in Buffers(u)
  /\ \A h : h \in OwnedKernels <=> \E u \in Threads : h \in Kernels(u)
  <1>1. \A h : h \in OwnedBuffers <=> h \in Held \/ \E u \in Threads : h \in Buffers(u)
    BY DEF OwnedBuffers, Held, Buffers
  <1>2. \A h : h \in OwnedKernels <=> \E u \in Threads : h \in Kernels(u)
    BY DEF OwnedKernels, Kernels
  <1> QED BY <1>1, <1>2

LEMMA OwnedPartsThen ==
  /\ \A h : h \in OwnedBuffers' <=> h \in Held' \/ \E u \in Threads : h \in Buffers(u)'
  /\ \A h : h \in OwnedKernels' <=> \E u \in Threads : h \in Kernels(u)'
  <1>1. \A h : h \in OwnedBuffers' <=> h \in Held' \/ \E u \in Threads : h \in Buffers(u)'
    BY DEF OwnedBuffers, Held, Buffers, NoHandle
  <1>2. \A h : h \in OwnedKernels' <=> \E u \in Threads : h \in Kernels(u)'
    BY DEF OwnedKernels, Kernels, NoHandle
  <1> QED BY <1>1, <1>2

LEMMA DanglesParts ==
  NothingDangles <=>
    /\ Held \subseteq bufs
    /\ \A u \in Threads : Buffers(u) \subseteq bufs /\ Kernels(u) \subseteq kernels
  BY OwnedParts DEF NothingDangles

LEMMA DanglesPartsThen ==
  (/\ Held' \subseteq bufs'
   /\ \A u \in Threads : Buffers(u)' \subseteq bufs' /\ Kernels(u)' \subseteq kernels')
  => NothingDangles'
  BY OwnedPartsThen DEF NothingDangles

(* What a step of t does to the buffers: it hands over what t or nobody    *)
(* owned, and frees nothing else.                                          *)
BufferStep(t) ==
  /\ Buffers(t)' \cap Held' = {}
  /\ \A h \in Buffers(t)' \cup Held' :
       h \in bufs' /\ (h \in Buffers(t) \cup Held \/ h \notin bufs)
  /\ bufs \ bufs' \subseteq Buffers(t) \cup Held

KernelStep(t) ==
  /\ \A h \in Kernels(t)' : h \in kernels' /\ (h \in Kernels(t) \/ h \notin kernels)
  /\ kernels \ kernels' \subseteq Kernels(t)

(* Then the owners stay apart, and own what is alive.                      *)
LEMMA OwnersStep ==
  ASSUME OneOwner, NothingDangles, NEW t \in Threads, Others(t),
         BufferStep(t), KernelStep(t)
  PROVE  OneOwner' /\ NothingDangles'
  <1>1. /\ Held \subseteq bufs
        /\ \A u \in Threads : Buffers(u) \subseteq bufs /\ Kernels(u) \subseteq kernels
    BY DanglesParts
  <1>2. \A u \in Threads \ {t} : Kernels(u)' = Kernels(u) /\ Buffers(u)' = Buffers(u)
    BY OthersOwn
  <1>3. \A u \in Threads \ {t} :
          /\ Buffers(u) \cap Held = {}
          /\ Buffers(u) \cap Buffers(t) = {} /\ Kernels(u) \cap Kernels(t) = {}
    BY DEF OneOwner
  <1>4. ASSUME NEW u \in Threads \ {t}
        PROVE  /\ Buffers(u)' \subseteq bufs' /\ Kernels(u)' \subseteq kernels'
               /\ Buffers(u)' \cap Held' = {}
               /\ Buffers(u)' \cap Buffers(t)' = {} /\ Kernels(u)' \cap Kernels(t)' = {}
    BY <1>1, <1>2, <1>3 DEF BufferStep, KernelStep
  <1>5. /\ Held' \subseteq bufs'
        /\ \A u \in Threads : Buffers(u)' \subseteq bufs' /\ Kernels(u)' \subseteq kernels'
    BY <1>4 DEF BufferStep, KernelStep
  <1>6. OneOwner'
    <2>1. \A u \in Threads : Buffers(u)' \cap Held' = {}
      BY <1>4 DEF BufferStep
    <2>2. ASSUME NEW u \in Threads, NEW v \in Threads, u # v
          PROVE  Buffers(u)' \cap Buffers(v)' = {} /\ Kernels(u)' \cap Kernels(v)' = {}
      <3>1. CASE u = t
        BY <1>4, <2>2, <3>1
      <3>2. CASE v = t
        BY <1>4, <2>2, <3>2
      <3>3. CASE u # t /\ v # t
        BY <1>2, <2>2, <3>3 DEF OneOwner
      <3> QED BY <3>1, <3>2, <3>3
    <2> QED BY <2>1, <2>2 DEF OneOwner
  <1> QED BY <1>5, <1>6, DanglesPartsThen

-----------------------------------------------------------------------------
(* Steps that free nothing and take nothing.                               *)
LEMMA SameBuffers ==
  ASSUME OneOwner, NothingDangles, NEW t \in Threads,
         bufs' = bufs, held' = held, Buffers(t)' \subseteq Buffers(t)
  PROVE  BufferStep(t)
  <1>1. Held' = Held
    BY DEF Held, NoHandle
  <1>2. Held \subseteq bufs /\ Buffers(t) \subseteq bufs /\ Buffers(t) \cap Held = {}
    BY DanglesParts DEF OneOwner
  <1> QED BY <1>1, <1>2 DEF BufferStep

LEMMA SameKernels ==
  ASSUME NothingDangles, NEW t \in Threads,
         kernels' = kernels, Kernels(t)' \subseteq Kernels(t)
  PROVE  KernelStep(t)
  <1>1. Kernels(t) \subseteq kernels
    BY DanglesParts
  <1> QED BY <1>1 DEF KernelStep

(* Nothing is in hand between calls.                                       *)
LEMMA NoBuffers ==
  ASSUME NEW t \in Threads, pc'[t] \notin WithBuffer
  PROVE  Buffers(t)' = {}
  BY DEF Buffers, BuffersInProgress, WithBuffer

LEMMA NoKernels ==
  ASSUME NEW t \in Threads, pc'[t] \notin WithKernels, exe'[t] = exe[t]
  PROVE  Kernels(t)' \subseteq Kernels(t)
  <1>1. ~Creating(t)' /\ ~Unloading(t)'
    BY DEF Creating, Unloading, WithKernels
  <1> QED BY <1>1, KernelsOf, KernelsThen

(* What holds of a thread that has left the calls that own handles.        *)
LEMMA Outside ==
  ASSUME NEW t \in Threads, OnceInv(t), exe'[t] = exe[t],
         pc'[t] \notin WithBuffer \cup WithKernels,
         pc'[t] = "idle" => idx'[t] = 1
  PROVE  PlaceInv(t)' /\ OnceInv(t)'
  <1>1. PlaceInv(t)'
    BY DEF PlaceInv, WithKernels
  <1>2. OnceInv(t)'
    BY DEF OnceInv, Once, NoHandle
  <1> QED BY <1>1, <1>2

OwnStep(t) ==
  /\ BufferStep(t) /\ KernelStep(t)
  /\ PlaceInv(t)' /\ OnceInv(t)'

(* A buffer is allocated.                                                  *)
LEMMA AllocateBufferOwn ==
  ASSUME OwnInv, NEW t \in Threads, AllocateBuffer(t)
  PROVE  OwnStep(t)
  <1>1. /\ pc[t] = "idle" /\ pc'[t] = "allocCheck" /\ exe'[t] = exe[t]
        /\ held' = held /\ kernels' = kernels
    BY DEF AllocateBuffer, At, Goto, BufferAlloc, OwnInv, TypeOK
  <1>2. PICK h \in BufferHandles \cup {NoHandle} :
          /\ reg'[t] = <<h>>
          /\ \/ h \in BufferHandles \ bufs /\ bufs' = bufs \cup {h}
             \/ h = NoHandle /\ bufs' = bufs
    BY DEF AllocateBuffer, BufferAlloc, OwnInv, TypeOK
  <1>3. DOMAIN reg'[t] = {1} /\ reg'[t][1] = h
    BY <1>2, SingletonSeq
  <1>4. Buffers(t)' = {h} \ {NoHandle}
    BY <1>1, <1>3, BuffersThen DEF WithBuffer
  <1>5. Held' = Held /\ Held \subseteq bufs
    BY <1>1, DanglesParts DEF Held, NoHandle, OwnInv
  <1>6. BufferStep(t)
    BY <1>2, <1>4, <1>5 DEF BufferStep
  <1>7. KernelStep(t)
    BY <1>1, NoKernels, SameKernels DEF OwnInv, WithKernels
  <1>8. PlaceInv(t)' /\ OnceInv(t)'
    BY <1>1, <1>3
       DEF OwnInv, PlaceInv, OnceInv, Once, WithBuffer, WithKernels, BufferHandles, NoHandle
  <1> QED BY <1>6, <1>7, <1>8 DEF OwnStep

(* The allocation goes on, or is about to be undone.                       *)
LEMMA KeepBufferOwn ==
  ASSUME OwnInv, NEW t \in Threads,
         AllocateCheck(t) \/ AllocateReset(t) \/ WrapFails(t)
  PROVE  OwnStep(t)
  <1>1. /\ pc[t] \in WithBuffer /\ pc'[t] \in WithBuffer
        /\ exe'[t] = exe[t] /\ reg'[t] = reg[t]
        /\ held' = held /\ kernels' = kernels /\ bufs' = bufs
    BY DEF AllocateCheck, AllocateReset, WrapFails, DevOk, ResetErr, At, Goto, libVars,
       WithBuffer, OwnInv, TypeOK
  <1>2. DOMAIN reg[t] = {1} /\ reg[t][1] \in BufferHandles \cup {NoHandle}
    BY <1>1 DEF OwnInv, PlaceInv
  <1>3. Buffers(t)' = Buffers(t)
    BY <1>1, <1>2, BuffersOf, BuffersThen DEF OwnInv
  <1>4. pc'[t] \notin WithKernels /\ pc'[t] # "idle"
    BY <1>1 DEF WithBuffer, WithKernels
  <1>5. BufferStep(t) /\ KernelStep(t)
    BY <1>1, <1>3, <1>4, SameBuffers, NoKernels, SameKernels DEF OwnInv
  <1>6. PlaceInv(t)'
    BY <1>1, <1>2, <1>4 DEF PlaceInv, WithKernels, BufferHandles, NoHandle
  <1>7. OnceInv(t)'
    BY <1>1, <1>4 DEF OwnInv, OnceInv, Once, NoHandle
  <1> QED BY <1>5, <1>6, <1>7 DEF OwnStep

(* The buffer is handed over.                                              *)
LEMMA WrapOwn ==
  ASSUME OwnInv, NEW t \in Threads, Wrap(t)
  PROVE  OwnStep(t)
  <1>1. /\ pc[t] = "wrap" /\ pc'[t] = "idle" /\ idx'[t] = 1 /\ exe'[t] = exe[t]
        /\ held' = held \cup ListRange(reg[t]) /\ kernels' = kernels /\ bufs' = bufs
    BY DEF Wrap, Return, Leave, At, Goto, libVars, OwnInv, TypeOK
  <1>2. DOMAIN reg[t] = {1} /\ Buffers(t) = {reg[t][1]} \ {NoHandle}
    BY <1>1, BuffersOf DEF OwnInv, PlaceInv, WithBuffer
  <1>3. Buffers(t)' = {} /\ pc'[t] \notin WithKernels \cup WithBuffer
    BY <1>1, NoBuffers DEF WithBuffer, WithKernels
  <1>4. Held' = Held \cup Buffers(t)
    BY <1>1, <1>2 DEF Held, ListRange, NoHandle
  <1>5. Held \subseteq bufs /\ Buffers(t) \subseteq bufs
    BY DanglesParts DEF OwnInv
  <1>6. BufferStep(t)
    BY <1>1, <1>3, <1>4, <1>5 DEF BufferStep
  <1>7. KernelStep(t)
    BY <1>1, <1>3, NoKernels, SameKernels DEF OwnInv
  <1>8. PlaceInv(t)' /\ OnceInv(t)'
    BY <1>1, <1>3, Outside DEF OwnInv
  <1> QED BY <1>6, <1>7, <1>8 DEF OwnStep

(* It is freed instead: nobody else had it.                                *)
LEMMA UndoOwn ==
  ASSUME OwnInv, NEW t \in Threads, Undo(t)
  PROVE  OwnStep(t)
  <1>1. /\ pc[t] = "undo" /\ pc'[t] = "fail" /\ exe'[t] = exe[t]
        /\ held' = held /\ kernels' = kernels
        /\ bufs' = bufs \/ (bufs' = bufs \ {reg[t][1]} /\ reg[t][1] # NoHandle)
    BY DEF Undo, BufferFree, At, Goto, libVars, OwnInv, TypeOK
  <1>2. Buffers(t) = {reg[t][1]} \ {NoHandle}
    BY <1>1, BuffersOf DEF OwnInv, WithBuffer
  <1>3. Buffers(t)' = {} /\ pc'[t] \notin WithKernels \cup WithBuffer
    BY <1>1, NoBuffers DEF WithBuffer, WithKernels
  <1>4. Held' = Held /\ Held \subseteq bufs /\ Buffers(t) \cap Held = {}
    BY <1>1, DanglesParts DEF OwnInv, OneOwner, Held, NoHandle
  <1>5. BufferStep(t)
    BY <1>1, <1>2, <1>3, <1>4 DEF BufferStep
  <1>6. KernelStep(t)
    BY <1>1, <1>3, NoKernels, SameKernels DEF OwnInv
  <1>7. PlaceInv(t)' /\ OnceInv(t)'
    BY <1>1, <1>3, Outside DEF OwnInv
  <1> QED BY <1>5, <1>6, <1>7 DEF OwnStep

(* A buffer is released.                                                   *)
LEMMA ReleaseOwn ==
  ASSUME OwnInv, NEW t \in Threads, NEW h \in held, ReleaseBuffer(t, h)
  PROVE  OwnStep(t)
  <1>1. /\ pc[t] = "idle" /\ pc'[t] = "released" /\ exe'[t] = exe[t]
        /\ held' = held \ {h} /\ kernels' = kernels
        /\ bufs' = bufs \/ bufs' = bufs \ {h}
    BY DEF ReleaseBuffer, ReleaseFn, BufferFree, At, Goto, OwnInv, TypeOK
  <1>2. Buffers(t)' = {} /\ pc'[t] \notin WithKernels \cup WithBuffer
    BY <1>1, NoBuffers DEF WithBuffer, WithKernels
  <1>3. Held' = Held \ {h} /\ Held \subseteq bufs
    BY <1>1, DanglesParts DEF OwnInv, Held, NoHandle
  <1>4. NoHandle \notin bufs
    BY DEF OwnInv, TypeOK, BufferHandles, NoHandle
  <1>5. h \in Held \/ h = NoHandle
    BY DEF Held
  <1>6. BufferStep(t)
    BY <1>1, <1>2, <1>3, <1>4, <1>5 DEF BufferStep
  <1>7. KernelStep(t)
    BY <1>1, <1>2, NoKernels, SameKernels DEF OwnInv
  <1>8. PlaceInv(t)' /\ OnceInv(t)'
    BY <1>1, <1>2, Outside DEF OwnInv
  <1> QED BY <1>6, <1>7, <1>8 DEF OwnStep

(* Calls that own nothing.                                                 *)
LEMMA NothingOwn ==
  ASSUME OwnInv, NEW t \in Threads,
         \/ Released(t) \/ ReturnOk(t) \/ ReturnError(t)
         \/ Sync(t) \/ SyncCheck(t) \/ SyncReset(t) \/ GiveUp(t)
  PROVE  OwnStep(t)
  <1>1. /\ pc'[t] \in {"idle", "syncCheck", "syncReset", "done", "fail"}
        /\ exe'[t] = exe[t] /\ held' = held /\ kernels' = kernels /\ bufs' = bufs
    BY DEF Released, ReturnOk, ReturnError, Return, Leave, Sync, SyncCheck, SyncReset,
       GiveUp, DevOk, ResetErr, Use, At, Goto, libVars, OwnInv, TypeOK
  <1>2. pc'[t] = "idle" => idx'[t] = 1
    BY DEF Released, ReturnOk, ReturnError, Return, Leave, Sync, SyncCheck, SyncReset,
       GiveUp, DevOk, ResetErr, At, Goto, OwnInv, TypeOK
  <1>3. pc'[t] \notin WithKernels \cup WithBuffer
    BY <1>1 DEF WithBuffer, WithKernels
  <1>4. BufferStep(t) /\ KernelStep(t)
    BY <1>1, <1>3, NoBuffers, NoKernels, SameBuffers, SameKernels DEF OwnInv
  <1>5. PlaceInv(t)' /\ OnceInv(t)'
    BY <1>1, <1>2, <1>3, Outside DEF OwnInv
  <1> QED BY <1>4, <1>5 DEF OwnStep


-----------------------------------------------------------------------------
(* An executable is begun: it owns no kernel yet.                          *)
LEMMA CreateExecutableOwn ==
  ASSUME OwnInv, NEW t \in Threads, CreateExecutable(t)
  PROVE  OwnStep(t)
  <1>1. /\ pc[t] = "idle" /\ pc'[t] = "load" /\ exe'[t] = exe[t] /\ exe[t] = <<>>
        /\ held' = held /\ kernels' = kernels /\ bufs' = bufs
    BY DEF CreateExecutable, At, Goto, libVars, OwnInv, TypeOK
  <1>2. PICK n \in ExportCounts : reg'[t] = [i \in 1 .. n |-> NoHandle]
    BY DEF CreateExecutable, OwnInv, TypeOK
  <1>3. DOMAIN reg'[t] = 1 .. n /\ \A i \in DOMAIN reg'[t] : reg'[t][i] = NoHandle
    BY <1>2
  <1>4. Kernels(t)' \subseteq Kernels(t)
    <2>1. DOMAIN exe'[t] = {}
      BY <1>1
    <2>2. ASSUME NEW h \in Kernels(t)'
          PROVE  FALSE
      <3>1. h # NoHandle /\ \E j \in DOMAIN reg'[t] : h = reg'[t][j]
        BY <2>1, <2>2, KernelsThen
      <3> QED BY <1>3, <3>1
    <2> QED BY <2>2
  <1>5. pc'[t] \notin WithBuffer
    BY <1>1 DEF WithBuffer
  <1>6. BufferStep(t) /\ KernelStep(t)
    BY <1>1, <1>4, <1>5, NoBuffers, SameBuffers, SameKernels DEF OwnInv
  <1>7. PlaceInv(t)'
    BY <1>1, <1>3, <1>5 DEF PlaceInv, WithKernels, KernelHandles, NoHandle
  <1>8. OnceInv(t)'
    BY <1>1, <1>3 DEF OwnInv, OnceInv, Once, NoHandle
  <1> QED BY <1>6, <1>7, <1>8 DEF OwnStep

(* A kernel is loaded into an entry that was free: nobody owned it.        *)
LEMMA LoadKernelOwn ==
  ASSUME OwnInv, NEW t \in Threads, LoadKernel(t)
  PROVE  OwnStep(t)
  <1>1. /\ pc[t] = "load" /\ pc'[t] = "set" /\ idx'[t] = idx[t]
        /\ exe'[t] = exe[t] /\ held' = held /\ bufs' = bufs
    BY DEF LoadKernel, KernelAlloc, At, Goto, OwnInv, TypeOK
  <1>2. exe[t] = <<>> /\ DOMAIN exe[t] = {}
    BY <1>1 DEF OwnInv, PlaceInv, WithKernels
  <1>3. /\ reg[t] \in Seq(Nat) /\ idx[t] \in DOMAIN reg[t] /\ idx[t] \in Nat
        /\ DOMAIN reg[t] \subseteq Nat
    BY LenProperties DEF LoadKernel, OwnInv, TypeOK
  <1>4. /\ \A i \in DOMAIN reg[t] : reg[t][i] \in KernelHandles \cup {NoHandle}
        /\ \A i \in DOMAIN reg[t] : i >= idx[t] => reg[t][i] = NoHandle
        /\ Once(reg[t])
    BY <1>1 DEF OwnInv, PlaceInv, OnceInv, WithKernels
  <1>5. Creating(t) /\ Creating(t)'
    BY <1>1 DEF Creating
  <1>6. Kernels(t) \subseteq kernels
    BY DanglesParts DEF OwnInv
  <1>7. PICK h \in KernelHandles \cup {NoHandle} :
          /\ reg'[t] = [reg[t] EXCEPT ![idx[t]] = h]
          /\ \/ h \in KernelHandles \ kernels /\ kernels' = kernels \cup {h}
             \/ h = NoHandle /\ kernels' = kernels
    <2>1. CASE \E h \in KernelHandles \ kernels :
                 kernels' = kernels \cup {h} /\ reg' = [reg EXCEPT ![t][idx[t]] = h]
      BY <2>1 DEF OwnInv, TypeOK
    <2>2. CASE kernels' = kernels /\ reg' = reg
      <3>1. reg[t] = [reg[t] EXCEPT ![idx[t]] = NoHandle]
        BY <1>3, <1>4, LenProperties
      <3> QED BY <2>2, <3>1
    <2> QED BY <2>1, <2>2 DEF LoadKernel, KernelAlloc
  <1>8. /\ DOMAIN reg'[t] = DOMAIN reg[t] /\ reg'[t][idx[t]] = h
        /\ \A i \in DOMAIN reg[t] : i # idx[t] => reg'[t][i] = reg[t][i]
    BY <1>3, <1>7, LenProperties
  <1>9. \A i \in DOMAIN reg[t] : reg[t][i] \in Kernels(t) \cup {NoHandle}
    BY <1>5, KernelsOf
  <1>10. \A k \in Kernels(t)' : k \in Kernels(t) \/ (k = h /\ h # NoHandle)
    BY <1>1, <1>2, <1>8, <1>9, KernelsThen
  <1>11. KernelStep(t)
    BY <1>6, <1>7, <1>10 DEF KernelStep
  <1>12. pc'[t] \notin WithBuffer
    BY <1>1 DEF WithBuffer
  <1>13. BufferStep(t)
    BY <1>1, <1>12, NoBuffers, SameBuffers DEF OwnInv
  <1>14. PlaceInv(t)'
    <2>1. h \in KernelHandles' \cup {NoHandle'}
      BY <1>7 DEF KernelHandles, NoHandle
    <2>2. \A i \in DOMAIN reg'[t] : reg'[t][i] \in KernelHandles' \cup {NoHandle'}
      BY <1>4, <1>8, <2>1 DEF KernelHandles, NoHandle
    <2>3. \A i \in DOMAIN reg'[t] : i > idx'[t] => reg'[t][i] = NoHandle'
      BY <1>1, <1>3, <1>4, <1>8 DEF NoHandle
    <2>4. idx'[t] \in DOMAIN reg'[t] /\ exe'[t] = <<>>
      BY <1>1, <1>2, <1>3, <1>8
    <2> QED BY <1>1, <1>12, <2>2, <2>3, <2>4 DEF PlaceInv
  <1>15. OnceInv(t)'
    <2>1. \A i \in DOMAIN reg[t] : reg[t][i] # h \/ h = NoHandle
      BY <1>6, <1>7, <1>9 DEF KernelHandles, NoHandle
    <2>2. Once(reg[t])'
      BY <1>4, <1>8, <2>1 DEF Once, NoHandle
    <2> QED BY <1>1, <2>2 DEF OwnInv, OnceInv, Once, NoHandle
  <1> QED BY <1>11, <1>13, <1>14, <1>15 DEF OwnStep

(* A creation goes on, or is about to be undone, with the kernels it has.  *)
LEMMA KeepKernelsOwn ==
  ASSUME OwnInv, NEW t \in Threads,
         SetKernel(t) \/ LoadCheck(t) \/ LoadReset(t)
  PROVE  OwnStep(t)
  <1>1. /\ pc[t] \in {"set", "loadCheck", "loadReset"}
        /\ exe'[t] = exe[t] /\ reg'[t] = reg[t]
        /\ held' = held /\ kernels' = kernels /\ bufs' = bufs
        /\ \/ pc[t] = "set" /\ pc'[t] = "loadCheck" /\ idx'[t] = idx[t] + 1
           \/ pc[t] = "loadCheck" /\ pc'[t] \in {"load", "loadReset"} /\ idx'[t] = idx[t]
           \/ pc[t] = "loadReset" /\ pc'[t] = "undoLoad"
    BY DEF SetKernel, Use, LoadCheck, LoadReset, DevOk, ResetErr, At, Goto, libVars,
       OwnInv, TypeOK
  <1>2. Creating(t) /\ pc[t] \in WithKernels /\ pc'[t] \in WithKernels
    BY <1>1 DEF Creating, WithKernels
  <1>3. pc'[t] \notin WithBuffer /\ pc'[t] \notin {"idle", "set"}
    BY <1>1 DEF WithBuffer
  <1>4. exe[t] = <<>>
    BY <1>2 DEF OwnInv, PlaceInv
  <1>5. Kernels(t)' \subseteq Kernels(t)
    BY <1>1, <1>2, KernelsOf, KernelsThen
  <1>6. BufferStep(t) /\ KernelStep(t)
    BY <1>1, <1>3, <1>5, NoBuffers, SameBuffers, SameKernels DEF OwnInv
  <1>7. \A i \in DOMAIN reg[t] : reg[t][i] \in KernelHandles \cup {NoHandle}
    BY <1>2 DEF OwnInv, PlaceInv
  <1>8. pc'[t] \in {"load", "loadCheck"} =>
          \A i \in DOMAIN reg[t] : i >= idx'[t] => reg[t][i] = NoHandle
    <2>1. DOMAIN reg[t] \subseteq Nat /\ idx[t] \in Nat
      BY LenProperties DEF OwnInv, TypeOK
    <2>2. CASE pc[t] = "set"
      BY <1>1, <2>1, <2>2 DEF OwnInv, PlaceInv
    <2>3. CASE pc[t] # "set"
      BY <1>1, <2>3 DEF OwnInv, PlaceInv
    <2> QED BY <2>2, <2>3
  <1>9. PlaceInv(t)'
    BY <1>1, <1>3, <1>4, <1>7, <1>8 DEF PlaceInv, KernelHandles, NoHandle
  <1>10. OnceInv(t)'
    BY <1>1, <1>2 DEF OwnInv, OnceInv, Once, NoHandle
  <1> QED BY <1>6, <1>9, <1>10 DEF OwnStep


(* The executable owns the kernels of the call that has made it...         *)
LEMMA CreatedOwn ==
  ASSUME OwnInv, NEW t \in Threads, Created(t)
  PROVE  OwnStep(t)
  <1>1. /\ pc[t] = "load" /\ pc'[t] = "idle" /\ idx'[t] = 1 /\ exe'[t] = reg[t]
        /\ held' = held /\ kernels' = kernels /\ bufs' = bufs
    BY DEF Created, Return, Leave, At, Goto, libVars, OwnInv, TypeOK
  <1>2. Creating(t) /\ ~Creating(t)' /\ ~Unloading(t)'
    BY <1>1 DEF Creating, Unloading
  <1>3. Kernels(t)' \subseteq Kernels(t)
    BY <1>1, <1>2, KernelsOf, KernelsThen
  <1>4. pc'[t] \notin WithBuffer \cup WithKernels
    BY <1>1 DEF WithBuffer, WithKernels
  <1>5. BufferStep(t) /\ KernelStep(t)
    BY <1>1, <1>3, <1>4, NoBuffers, SameBuffers, SameKernels DEF OwnInv
  <1>6. PlaceInv(t)'
    BY <1>1, <1>4 DEF PlaceInv, WithKernels
  <1>7. OnceInv(t)'
    BY <1>1, <1>4 DEF OwnInv, OnceInv, Once, NoHandle, WithKernels
  <1> QED BY <1>5, <1>6, <1>7 DEF OwnStep

(* ... and the call that destroys it takes them back.                      *)
LEMMA DestroyExecutableOwn ==
  ASSUME OwnInv, NEW t \in Threads, DestroyExecutable(t)
  PROVE  OwnStep(t)
  <1>1. /\ pc[t] = "idle" /\ pc'[t] = "unload" /\ idx'[t] = idx[t]
        /\ reg'[t] = exe[t] /\ exe'[t] = <<>>
        /\ held' = held /\ kernels' = kernels /\ bufs' = bufs
    BY DEF DestroyExecutable, At, Goto, libVars, OwnInv, TypeOK
  <1>2. /\ \A i \in DOMAIN exe[t] : exe[t][i] \in KernelHandles \cup {NoHandle}
        /\ Once(exe[t])
    <2>1. exe[t] \in Seq(KernelHandles \cup {NoHandle})
      BY DEF OwnInv, TypeOK
    <2> QED BY <2>1, ElementOfSeq, LenProperties DEF OwnInv, OnceInv
  <1>3. DOMAIN exe'[t] = {}
    BY <1>1
  <1>4. Kernels(t)' \subseteq Kernels(t)
    BY <1>1, <1>3, KernelsOf, KernelsThen
  <1>5. pc'[t] \notin WithBuffer
    BY <1>1 DEF WithBuffer
  <1>6. BufferStep(t) /\ KernelStep(t)
    BY <1>1, <1>4, <1>5, NoBuffers, SameBuffers, SameKernels DEF OwnInv
  <1>7. PlaceInv(t)'
    BY <1>1, <1>2, <1>5 DEF PlaceInv, KernelHandles, NoHandle
  <1>8. OnceInv(t)'
    BY <1>1, <1>2, <1>3 DEF OnceInv, Once, NoHandle
  <1> QED BY <1>6, <1>7, <1>8 DEF OwnStep

(* A kernel is freed: it is in one entry only, and nobody else owned it.   *)
LEMMA UnloadKernelOwn ==
  ASSUME OwnInv, NEW t \in Threads, UnloadKernel(t)
  PROVE  OwnStep(t)
  <1>1. /\ pc[t] \in {"unload", "undoLoad"} /\ pc'[t] = pc[t] /\ idx'[t] = idx[t] + 1
        /\ exe'[t] = exe[t] /\ reg'[t] = reg[t] /\ held' = held /\ bufs' = bufs
        /\ \/ kernels' = kernels
           \/ kernels' = kernels \ {reg[t][idx[t]]} /\ reg[t][idx[t]] # NoHandle
    BY DEF UnloadKernel, KernelFree, Unloading, libVars, OwnInv, TypeOK
  <1>2. /\ reg[t] \in Seq(Nat) /\ idx[t] \in DOMAIN reg[t] /\ idx[t] \in Nat
        /\ DOMAIN reg[t] \subseteq Nat
    BY LenProperties DEF UnloadKernel, OwnInv, TypeOK
  <1>3. /\ exe[t] = <<>> /\ DOMAIN exe[t] = {}
        /\ \A i \in DOMAIN reg[t] : reg[t][i] \in KernelHandles \cup {NoHandle}
        /\ Once(reg[t])
    BY <1>1 DEF OwnInv, PlaceInv, OnceInv, WithKernels
  <1>4. ~Creating(t)' /\ Unloading(t)
    BY <1>1 DEF Creating, Unloading
  <1>5. \A h \in Kernels(t)' : h \in Kernels(t) /\ h # reg[t][idx[t]]
    <2>1. ASSUME NEW h \in Kernels(t)'
          PROVE  h \in Kernels(t) /\ h # reg[t][idx[t]]
      <3>1. PICK j \in DOMAIN reg[t] : j >= idx[t] + 1 /\ h = reg[t][j] /\ h # NoHandle
        BY <1>1, <1>3, <1>4, KernelsThen
      <3>2. j >= idx[t] /\ j # idx[t]
        BY <1>2, <3>1
      <3>3. h # reg[t][idx[t]]
        BY <1>2, <1>3, <3>1, <3>2 DEF Once
      <3> QED BY <1>4, <3>1, <3>2, <3>3, KernelsOf
    <2> QED BY <2>1
  <1>6. reg[t][idx[t]] \in Kernels(t) \/ reg[t][idx[t]] = NoHandle
    BY <1>2, <1>4, KernelsOf
  <1>7. Kernels(t) \subseteq kernels
    BY DanglesParts DEF OwnInv
  <1>8. KernelStep(t)
    BY <1>1, <1>5, <1>6, <1>7 DEF KernelStep
  <1>9. pc'[t] \notin WithBuffer /\ pc'[t] \notin {"idle", "load", "set", "loadCheck"}
    BY <1>1 DEF WithBuffer
  <1>10. BufferStep(t)
    BY <1>1, <1>9, NoBuffers, SameBuffers DEF OwnInv
  <1>11. PlaceInv(t)'
    BY <1>1, <1>3, <1>9 DEF PlaceInv, KernelHandles, NoHandle
  <1>12. OnceInv(t)'
    BY <1>1, <1>3 DEF OwnInv, OnceInv, Once, NoHandle
  <1> QED BY <1>8, <1>10, <1>11, <1>12 DEF OwnStep

LEMMA UnloadedOwn ==
  ASSUME OwnInv, NEW t \in Threads, Unloaded(t)
  PROVE  OwnStep(t)
  <1>1. /\ pc'[t] \in {"released", "fail"}
        /\ exe'[t] = exe[t] /\ held' = held /\ kernels' = kernels /\ bufs' = bufs
    BY DEF Unloaded, ResetErr, At, Goto, OwnInv, TypeOK
  <1>2. pc'[t] \notin WithKernels \cup WithBuffer
    BY <1>1 DEF WithBuffer, WithKernels
  <1>3. BufferStep(t) /\ KernelStep(t)
    BY <1>1, <1>2, NoBuffers, NoKernels, SameBuffers, SameKernels DEF OwnInv
  <1>4. PlaceInv(t)' /\ OnceInv(t)'
    BY <1>1, <1>2, Outside DEF OwnInv
  <1> QED BY <1>3, <1>4 DEF OwnStep


-----------------------------------------------------------------------------
(* Ownership is kept by every step.                                        *)
LEMMA OwnSteps ==
  ASSUME OwnInv, NEW t \in Threads, Step(t)
  PROVE  OwnStep(t)
  BY AllocateBufferOwn, KeepBufferOwn, WrapOwn, UndoOwn, ReleaseOwn, NothingOwn,
     CreateExecutableOwn, LoadKernelOwn, KeepKernelsOwn, CreatedOwn, DestroyExecutableOwn,
     UnloadKernelOwn, UnloadedOwn
     DEF Step, AllocateRefused, CreateRefused

LEMMA OwnNext ==
  ASSUME OwnInv, active' = active, freesFail' = freesFail,
         NEW t \in active, Step(t)
  PROVE  OwnInv' /\ OwnStep(t) /\ Others(t)
  <1>1. t \in Threads
    BY DEF OwnInv, TypeOK
  <1>2. OwnStep(t)
    BY <1>1, OwnSteps
  <1>3. TypeOK' /\ Others(t)
    BY <1>1, TypeStep DEF OwnInv
  <1>4. OneOwner' /\ NothingDangles'
    BY <1>1, <1>2, <1>3, OwnersStep DEF OwnInv, OwnStep
  <1>5. ASSUME NEW u \in Threads
        PROVE  PlaceInv(u)' /\ OnceInv(u)'
    <2>1. CASE u = t
      BY <1>2, <2>1 DEF OwnStep
    <2>2. CASE u # t
      BY <1>1, <1>3, <2>2, OthersOwn DEF OwnInv
    <2> QED BY <2>1, <2>2
  <1> QED BY <1>2, <1>3, <1>4, <1>5 DEF OwnInv

LEMMA OwnInit == Init => OwnInv
  <1> SUFFICES ASSUME Init PROVE OwnInv
    OBVIOUS
  <1>1. TypeOK
    <2>1. <<>> \in Seq(KernelHandles \cup {NoHandle}) /\ <<>> \in Seq(Nat)
      BY EmptySeq
    <2>2. /\ exe \in [Threads -> Seq(KernelHandles \cup {NoHandle})]
          /\ reg \in [Threads -> Seq(Nat)]
      BY <2>1 DEF Init
    <2>3. pc \in [Threads -> PcLabels]
      BY DEF Init, PcLabels
    <2>4. active \subseteq Threads /\ freesFail \in BOOLEAN /\ err \in BOOLEAN
      BY DEF Init
    <2>5. idx \in [Threads -> Nat \ {0}]
      BY DEF Init
    <2>6. astray \in [Threads -> BOOLEAN] /\ own \in [Threads -> BOOLEAN]
      BY DEF Init
    <2>7. bufs = {} /\ kernels = {} /\ held = {}
      BY DEF Init
    <2> QED BY <2>2, <2>3, <2>4, <2>5, <2>6, <2>7 DEF TypeOK
  <1>2. ASSUME NEW t \in Threads
        PROVE  /\ pc[t] = "idle" /\ idx[t] = 1 /\ DOMAIN exe[t] = {}
               /\ Buffers(t) = {} /\ Kernels(t) = {}
    <2>1. pc[t] = "idle" /\ idx[t] = 1 /\ DOMAIN exe[t] = {}
      BY DEF Init
    <2>2. Buffers(t) = {}
      BY <2>1 DEF Buffers, BuffersInProgress
    <2>3. ~Creating(t) /\ ~Unloading(t)
      BY <2>1 DEF Creating, Unloading
    <2>4. Kernels(t) = {}
      BY <2>1, <2>3, KernelsOf
    <2> QED BY <2>1, <2>2, <2>4
  <1>3. \A t \in Threads : PlaceInv(t)
    BY <1>2 DEF PlaceInv, WithBuffer, WithKernels
  <1>4. \A t \in Threads : OnceInv(t)
    BY <1>2 DEF OnceInv, Once, WithKernels
  <1>5. OneOwner
    BY <1>2 DEF OneOwner
  <1>6. NothingDangles
    BY <1>2, DanglesParts DEF Init, Held
  <1> QED BY <1>1, <1>3, <1>4, <1>5, <1>6 DEF OwnInv

LEMMA OwnStutter ==
  ASSUME OwnInv, UNCHANGED vars
  PROVE  OwnInv'
  <1>1. UNCHANGED <<active, freesFail, err, bufs, kernels, held, exe, pc, reg, idx, astray, own>>
    BY DEF vars
  <1>2. TypeOK'
    BY <1>1 DEF OwnInv, TypeOK, PcLabels, BufferHandles, KernelHandles, NoHandle
  <1>3. \A t \in Threads : PlaceInv(t)' /\ OnceInv(t)'
    BY <1>1 DEF OwnInv, PlaceInv, OnceInv, Once, WithBuffer, WithKernels,
       BufferHandles, KernelHandles, NoHandle
  <1>4. \A t \in Threads : Buffers(t)' = Buffers(t) /\ Kernels(t)' = Kernels(t)
    BY <1>1 DEF Kernels, KernelsInProgress, Creating, Unloading, Buffers,
       BuffersInProgress, ListRange, NoHandle
  <1>5. Held' = Held
    BY <1>1 DEF Held, NoHandle
  <1>6. OneOwner'
    BY <1>4, <1>5 DEF OwnInv, OneOwner
  <1>7. NothingDangles'
    BY <1>1, <1>4, <1>5, DanglesParts, DanglesPartsThen DEF OwnInv
  <1> QED BY <1>2, <1>3, <1>6, <1>7 DEF OwnInv


-----------------------------------------------------------------------------
(* One thread on the device: what it has made, and what it makes.          *)
Whole(t) == NoHandle \notin held /\ NoHandle \notin ListRange(exe[t])

Sound(t) == OwnInv /\ ValidInv(t) /\ Whole(t)
SoundStep(t) == ValidInv(t)' /\ Whole(t)'

(* At the places where no handle is in hand nothing is said of handles.    *)
LEMMA NothingMade ==
  ASSUME NEW t \in Threads, Sound(t), held' \subseteq held, exe'[t] = exe[t],
         pc'[t] \notin {"allocCheck", "wrap", "load", "set", "loadCheck"}
  PROVE  SoundStep(t)
  BY DEF Sound, SoundStep, ValidInv, Whole, ListRange, NoHandle

LEMMA NothingMadeSteps ==
  ASSUME NEW t \in Threads, Sound(t),
         \/ AllocateReset(t) \/ WrapFails(t) \/ Undo(t) \/ LoadReset(t)
         \/ \E h \in held : ReleaseBuffer(t, h)
         \/ Released(t) \/ ReturnOk(t) \/ ReturnError(t)
         \/ Sync(t) \/ SyncCheck(t) \/ SyncReset(t) \/ GiveUp(t)
         \/ UnloadKernel(t) \/ Unloaded(t)
  PROVE  SoundStep(t)
  <1>1. held' \subseteq held /\ exe'[t] = exe[t]
    BY DEF AllocateReset, WrapFails, Undo, LoadReset, ReleaseBuffer, Released, ReturnOk,
       ReturnError, Return, Leave, Sync, SyncCheck, SyncReset, GiveUp, UnloadKernel,
       Unloaded, DevOk, ResetErr, libVars
  <1>2. pc'[t] \notin {"allocCheck", "wrap", "load", "set", "loadCheck"}
    BY DEF AllocateReset, WrapFails, Undo, LoadReset, ReleaseBuffer, Released, ReturnOk,
       ReturnError, Return, Leave, Sync, SyncCheck, SyncReset, GiveUp, UnloadKernel,
       Unloaded, DevOk, ResetErr, Unloading, At, Goto, Sound, OwnInv, TypeOK
  <1> QED BY <1>1, <1>2, NothingMade

LEMMA BufferSound ==
  ASSUME NEW t \in Threads, Sound(t), AllocateBuffer(t) \/ AllocateCheck(t) \/ Wrap(t)
  PROVE  SoundStep(t)
  <1>1. CASE AllocateBuffer(t)
    <2>1. /\ pc'[t] = "allocCheck" /\ exe'[t] = exe[t] /\ held' = held
      BY <1>1 DEF AllocateBuffer, At, Goto, BufferAlloc, Sound, OwnInv, TypeOK
    <2>2. PICK h \in BufferHandles \cup {NoHandle} :
            /\ reg'[t] = <<h>>
            /\ h \in BufferHandles \/ err'
      BY <1>1 DEF AllocateBuffer, BufferAlloc, Succeeds, Fails, Skipped, Sound, OwnInv, TypeOK
    <2>3. reg'[t][1] = h
      BY <2>2, SingletonSeq
    <2>4. NoHandle \notin BufferHandles
      BY ResourceAssumption DEF BufferHandles, NoHandle
    <2> QED BY <2>1, <2>2, <2>3, <2>4
            DEF Sound, SoundStep, ValidInv, Whole, ListRange, NoHandle
  <1>2. CASE AllocateCheck(t)
    <2>1. /\ pc[t] = "allocCheck" /\ pc'[t] = IF err THEN "allocReset" ELSE "wrap"
          /\ exe'[t] = exe[t] /\ held' = held /\ reg'[t] = reg[t]
      BY <1>2 DEF AllocateCheck, DevOk, At, Goto, libVars, Sound, OwnInv, TypeOK
    <2> QED BY <2>1 DEF Sound, SoundStep, ValidInv, Whole, ListRange, NoHandle
  <1>3. CASE Wrap(t)
    <2>1. /\ pc[t] = "wrap" /\ pc'[t] = "idle" /\ exe'[t] = exe[t]
          /\ held' = held \cup ListRange(reg[t])
      BY <1>3 DEF Wrap, Return, Leave, At, Goto, libVars, Sound, OwnInv, TypeOK
    <2>2. DOMAIN reg[t] = {1} /\ reg[t][1] # NoHandle
      BY <2>1 DEF Sound, OwnInv, PlaceInv, WithBuffer, ValidInv
    <2> QED BY <2>1, <2>2 DEF Sound, SoundStep, ValidInv, Whole, ListRange, NoHandle
  <1> QED BY <1>1, <1>2, <1>3

LEMMA LoadSound ==
  ASSUME NEW t \in Threads, Sound(t), LoadKernel(t)
  PROVE  SoundStep(t)
  <1>1. /\ pc[t] = "load" /\ pc'[t] = "set" /\ idx'[t] = idx[t]
        /\ exe'[t] = exe[t] /\ held' = held
    BY DEF LoadKernel, KernelAlloc, At, Goto, Sound, OwnInv, TypeOK
  <1>2. /\ reg[t] \in Seq(Nat) /\ idx[t] \in DOMAIN reg[t] /\ idx[t] \in Nat
        /\ DOMAIN reg[t] \subseteq Nat
    BY LenProperties DEF LoadKernel, Sound, OwnInv, TypeOK
  <1>3. \A i \in DOMAIN reg[t] : i < idx[t] => reg[t][i] # NoHandle
    BY <1>1 DEF Sound, ValidInv
  <1>4. ASSUME NEW h \in KernelHandles, reg' = [reg EXCEPT ![t][idx[t]] = h]
        PROVE  SoundStep(t)
    <2>1. /\ DOMAIN reg'[t] = DOMAIN reg[t] /\ reg'[t][idx[t]] = h
          /\ \A i \in DOMAIN reg[t] : i # idx[t] => reg'[t][i] = reg[t][i]
      BY <1>2, <1>4, LenProperties DEF Sound, OwnInv, TypeOK
    <2>2. h # NoHandle
      BY ResourceAssumption DEF KernelHandles, NoHandle
    <2> QED BY <1>1, <1>3, <2>1, <2>2
            DEF Sound, SoundStep, ValidInv, Whole, ListRange, NoHandle
  <1>5. CASE err'
    BY <1>1, <1>5 DEF Sound, SoundStep, ValidInv, Whole, ListRange, NoHandle
  <1>6. err' \/ \E h \in KernelHandles : reg' = [reg EXCEPT ![t][idx[t]] = h]
    BY DEF LoadKernel, KernelAlloc, Fails, Skipped
  <1> QED BY <1>4, <1>5, <1>6

LEMMA ExecutableSound ==
  ASSUME NEW t \in Threads, Sound(t),
         \/ CreateExecutable(t) \/ SetKernel(t) \/ LoadCheck(t) \/ Created(t)
         \/ DestroyExecutable(t)
  PROVE  SoundStep(t)
  <1>1. CASE CreateExecutable(t)
    <2>1. /\ pc[t] = "idle" /\ pc'[t] = "load" /\ exe'[t] = exe[t] /\ idx'[t] = 1
          /\ held' = held
      BY <1>1 DEF CreateExecutable, At, Goto, libVars, Sound, OwnInv, TypeOK, PlaceInv
    <2>2. PICK n \in ExportCounts : reg'[t] = [i \in 1 .. n |-> NoHandle]
      BY <1>1 DEF CreateExecutable, Sound, OwnInv, TypeOK
    <2>3. \A i \in DOMAIN reg'[t] : ~(i < 1)
      BY <2>2, ResourceAssumption
    <2> QED BY <2>1, <2>3 DEF Sound, SoundStep, ValidInv, Whole, ListRange, NoHandle
  <1>2. CASE SetKernel(t) \/ LoadCheck(t)
    <2>1. /\ pc[t] \in {"set", "loadCheck"}
          /\ exe'[t] = exe[t] /\ reg'[t] = reg[t] /\ held' = held
          /\ \/ /\ pc[t] = "set" /\ pc'[t] = "loadCheck" /\ idx'[t] = idx[t] + 1
                /\ ~err' => ~err
             \/ /\ pc[t] = "loadCheck" /\ idx'[t] = idx[t] /\ err' = err
                /\ pc'[t] = IF err THEN "loadReset" ELSE "load"
      BY <1>2 DEF SetKernel, Use, Succeeds, Skipped, Fails, LoadCheck, DevOk, At, Goto,
         libVars, Sound, OwnInv, TypeOK
    <2>2. DOMAIN reg[t] \subseteq Nat \ {0} /\ idx[t] \in Nat
      BY LenProperties DEF Sound, OwnInv, TypeOK
    <2>3. ValidInv(t)'
      <3>1. CASE pc[t] = "set"
        BY <2>1, <2>2, <3>1 DEF Sound, ValidInv, NoHandle
      <3>2. CASE pc[t] = "loadCheck"
        BY <2>1, <2>2, <3>2 DEF Sound, ValidInv, NoHandle
      <3> QED BY <2>1, <3>1, <3>2
    <2> QED BY <2>1, <2>3 DEF Sound, SoundStep, Whole, ListRange, NoHandle
  <1>3. CASE Created(t)
    <2>1. /\ pc[t] = "load" /\ pc'[t] = "idle" /\ exe'[t] = reg[t] /\ held' = held
          /\ idx[t] > Len(reg[t])
      BY <1>3 DEF Created, Return, Leave, At, Goto, libVars, Sound, OwnInv, TypeOK
    <2>2. /\ DOMAIN reg[t] = 1 .. Len(reg[t]) /\ Len(reg[t]) \in Nat /\ idx[t] \in Nat
      BY LenProperties DEF Sound, OwnInv, TypeOK
    <2>3. \A i \in DOMAIN reg[t] : i < idx[t]
      BY <2>1, <2>2
    <2>4. \A i \in DOMAIN reg[t] : reg[t][i] # NoHandle
      BY <2>1, <2>3 DEF Sound, ValidInv
    <2> QED BY <2>1, <2>4 DEF Sound, SoundStep, ValidInv, Whole, ListRange, NoHandle
  <1>4. CASE DestroyExecutable(t)
    <2>1. pc'[t] = "unload" /\ exe'[t] = <<>> /\ held' = held
      BY <1>4 DEF DestroyExecutable, At, Goto, libVars, Sound, OwnInv, TypeOK
    <2>2. DOMAIN exe'[t] = {}
      BY <2>1
    <2> QED BY <2>1, <2>2 DEF Sound, SoundStep, ValidInv, Whole, ListRange, NoHandle
  <1> QED BY <1>1, <1>2, <1>3, <1>4

LEMMA SoundSteps ==
  ASSUME NEW t \in Threads, Sound(t), Step(t)
  PROVE  SoundStep(t)
  BY NothingMadeSteps, BufferSound, LoadSound, ExecutableSound
     DEF Step, AllocateRefused, CreateRefused

(* The objects of the others stay as they are.                             *)
LEMMA SolitaryNext ==
  ASSUME IInv, active' = active, freesFail' = freesFail, Solitary, NEW t \in active, Step(t)
  PROVE  SolitaryInv'
  <1>1. t \in Threads /\ OwnInv /\ active = {t} /\ SolitaryInv!2
    BY DEF IInv, OwnInv, TypeOK, Solitary, SolitaryInv
  <1>2. Sound(t)
    BY <1>1 DEF Sound, Whole
  <1>3. SoundStep(t) /\ Others(t)
    BY <1>1, <1>2, SoundSteps, OwnNext
  <1>4. \A u \in active' : ValidInv(u)'
    BY <1>1, <1>3 DEF SoundStep
  <1>5. NoHandle' \notin held'
    BY <1>3 DEF SoundStep, Whole
  <1>6. ASSUME NEW u \in Threads
        PROVE  NoHandle' \notin ListRange(exe[u])'
    <2>1. CASE u = t
      BY <1>3, <2>1 DEF SoundStep, Whole
    <2>2. CASE u # t
      <3>1. exe'[u] = exe[u]
        BY <1>3, <2>2 DEF Others
      <3> QED BY <1>1, <3>1 DEF ListRange, NoHandle
    <2> QED BY <2>1, <2>2
  <1> QED BY <1>4, <1>5, <1>6 DEF SolitaryInv

-----------------------------------------------------------------------------
(* One thread on the device, which frees what it is asked to.              *)
Alone(t) == Sound(t) /\ ~freesFail /\ ErrorInv(t) /\ ~astray[t]

(* What is alive after a step is owned, or was somebody else's.            *)
BuffersKept(t) ==
  \A h \in bufs' :
    h \in Buffers(t)' \cup Held' \/ (h \in bufs /\ h \notin Buffers(t) \cup Held)

KernelsKept(t) ==
  \A h \in kernels' : h \in Kernels(t)' \/ (h \in kernels /\ h \notin Kernels(t))

AloneStep(t) ==
  /\ ErrorInv(t)' /\ ~astray'[t]
  /\ BuffersKept(t) /\ KernelsKept(t)

(* A step away from the buffers in hand, or the kernels, keeps them.       *)
LEMMA BuffersAside ==
  ASSUME NEW t \in Threads, pc[t] \notin WithBuffer, bufs' = bufs, held' = held
  PROVE  BuffersKept(t)
  <1>1. Buffers(t) = {}
    BY DEF Buffers, BuffersInProgress, WithBuffer
  <1>2. Held' = Held
    BY DEF Held, NoHandle
  <1> QED BY <1>1, <1>2 DEF BuffersKept

LEMMA KernelsAside ==
  ASSUME NEW t \in Threads, pc[t] \notin WithKernels, kernels' = kernels, exe'[t] = exe[t]
  PROVE  KernelsKept(t)
  <1>1. ~Creating(t) /\ ~Unloading(t)
    BY DEF Creating, Unloading, WithKernels
  <1>2. Kernels(t) \subseteq Kernels(t)'
    BY <1>1, KernelsOf, KernelsThen
  <1> QED BY <1>2 DEF KernelsKept

LEMMA AllocateBufferAlone ==
  ASSUME NEW t \in Threads, Alone(t), AllocateBuffer(t)
  PROVE  AloneStep(t)
  <1>1. /\ pc[t] = "idle" /\ pc'[t] = "allocCheck" /\ exe'[t] = exe[t]
        /\ held' = held /\ kernels' = kernels /\ astray'[t] = astray[t]
    BY DEF AllocateBuffer, At, Goto, BufferAlloc, Alone, Sound, OwnInv, TypeOK
  <1>2. ~err /\ ~own[t]
    BY <1>1 DEF Alone, ErrorInv
  <1>3. PICK h \in BufferHandles \cup {NoHandle} :
          /\ reg'[t] = <<h>>
          /\ \/ h \in BufferHandles /\ bufs' = bufs \cup {h} /\ ~err' /\ ~own'[t]
             \/ h = NoHandle /\ bufs' = bufs /\ err' /\ own'[t]
    BY <1>2 DEF AllocateBuffer, BufferAlloc, Succeeds, Fails, Skipped, Alone, Sound, OwnInv, TypeOK
  <1>4. DOMAIN reg'[t] = {1} /\ reg'[t][1] = h
    BY <1>3, SingletonSeq
  <1>5. Buffers(t)' = {h} \ {NoHandle} /\ Held' = Held
    BY <1>1, <1>4, BuffersThen DEF WithBuffer, Held, NoHandle
  <1>6. NoHandle \notin BufferHandles
    BY ResourceAssumption DEF BufferHandles, NoHandle
  <1>7. Buffers(t) = {}
    BY <1>1 DEF Buffers, BuffersInProgress
  <1>8. BuffersKept(t)
    BY <1>3, <1>5, <1>6, <1>7 DEF BuffersKept
  <1>9. KernelsKept(t) /\ ~astray'[t]
    BY <1>1, KernelsAside DEF Alone, WithKernels
  <1>10. ErrorInv(t)'
    BY <1>1, <1>3 DEF ErrorInv
  <1> QED BY <1>8, <1>9, <1>10 DEF AloneStep

LEMMA KeepBufferAlone ==
  ASSUME NEW t \in Threads, Alone(t),
         AllocateCheck(t) \/ AllocateReset(t) \/ WrapFails(t)
  PROVE  AloneStep(t)
  <1>1. /\ pc[t] \in WithBuffer /\ pc'[t] \in WithBuffer
        /\ exe'[t] = exe[t] /\ reg'[t] = reg[t] /\ astray'[t] = astray[t]
        /\ held' = held /\ kernels' = kernels /\ bufs' = bufs
    BY DEF AllocateCheck, AllocateReset, WrapFails, DevOk, ResetErr, At, Goto, libVars,
       WithBuffer, Alone, Sound, OwnInv, TypeOK
  <1>2. DOMAIN reg[t] = {1}
    BY <1>1 DEF Alone, Sound, OwnInv, PlaceInv
  <1>3. Buffers(t)' = Buffers(t) /\ Held' = Held
    BY <1>1, <1>2, BuffersOf, BuffersThen DEF Alone, Sound, OwnInv, Held, NoHandle
  <1>4. BuffersKept(t)
    BY <1>1, <1>3 DEF BuffersKept
  <1>5. pc[t] \notin WithKernels
    BY <1>1 DEF WithBuffer, WithKernels
  <1>6. KernelsKept(t) /\ ~astray'[t]
    BY <1>1, <1>5, KernelsAside DEF Alone
  <1>7. ErrorInv(t)'
    BY DEF AllocateCheck, AllocateReset, WrapFails, DevOk, ResetErr, At, Goto, libVars,
       ErrorInv, Alone, Sound, OwnInv, TypeOK
  <1> QED BY <1>4, <1>6, <1>7 DEF AloneStep

LEMMA WrapAlone ==
  ASSUME NEW t \in Threads, Alone(t), Wrap(t)
  PROVE  AloneStep(t)
  <1>1. /\ pc[t] = "wrap" /\ pc'[t] = "idle" /\ exe'[t] = exe[t]
        /\ held' = held \cup ListRange(reg[t]) /\ kernels' = kernels /\ bufs' = bufs
        /\ err' = err /\ ~own'[t]
    BY DEF Wrap, Return, Leave, At, Goto, libVars, Alone, Sound, OwnInv, TypeOK
  <1>2. /\ DOMAIN reg[t] = {1} /\ Buffers(t) = {reg[t][1]} \ {NoHandle}
    BY <1>1, BuffersOf DEF Alone, Sound, OwnInv, PlaceInv, WithBuffer
  <1>3. ~err /\ ~own[t]
    BY <1>1 DEF Alone, ErrorInv
  <1>4. Held' = Held \cup Buffers(t)
    BY <1>1, <1>2 DEF Held, ListRange, NoHandle
  <1>5. BuffersKept(t)
    BY <1>1, <1>4 DEF BuffersKept
  <1>6. KernelsKept(t)
    BY <1>1, KernelsAside DEF WithKernels
  <1>7. ~astray'[t]
    <2>1. astray'[t] = (("ok" = "error") # own[t])
      BY DEF Wrap, Return, Alone, Sound, OwnInv, TypeOK
    <2>2. own[t] = FALSE /\ ("ok" = "error") = FALSE
      BY <1>3 DEF Alone, Sound, OwnInv, TypeOK
    <2> QED BY <2>1, <2>2, Zenon
  <1>8. ErrorInv(t)'
    BY <1>1, <1>3 DEF ErrorInv
  <1> QED BY <1>5, <1>6, <1>7, <1>8 DEF AloneStep

LEMMA UndoAlone ==
  ASSUME NEW t \in Threads, Alone(t), Undo(t)
  PROVE  AloneStep(t)
  <1>1. /\ pc[t] = "undo" /\ pc'[t] = "fail" /\ exe'[t] = exe[t]
        /\ held' = held /\ kernels' = kernels /\ astray'[t] = astray[t]
    BY DEF Undo, BufferFree, At, Goto, libVars, Alone, Sound, OwnInv, TypeOK
  <1>2. Buffers(t) = {reg[t][1]} \ {NoHandle} /\ Buffers(t) \subseteq bufs
    BY <1>1, BuffersOf, DanglesParts DEF Alone, Sound, OwnInv, WithBuffer
  <1>3. ~err /\ own[t]
    BY <1>1 DEF Alone, ErrorInv
  <1>4. bufs' = bufs \ Buffers(t) /\ err' = err /\ own' = own
    BY <1>2, <1>3 DEF Undo, BufferFree, Succeeds, Fails, Skipped, libVars, Alone
  <1>5. Held' = Held
    BY <1>1 DEF Held, NoHandle
  <1>6. BuffersKept(t)
    BY <1>4, <1>5 DEF BuffersKept
  <1>7. KernelsKept(t) /\ ~astray'[t]
    BY <1>1, KernelsAside DEF Alone, WithKernels
  <1>8. ErrorInv(t)'
    BY <1>1, <1>3, <1>4 DEF ErrorInv
  <1> QED BY <1>6, <1>7, <1>8 DEF AloneStep

LEMMA ReleaseAlone ==
  ASSUME NEW t \in Threads, Alone(t), NEW h \in held, ReleaseBuffer(t, h)
  PROVE  AloneStep(t)
  <1>1. /\ pc[t] = "idle" /\ pc'[t] = "released" /\ exe'[t] = exe[t]
        /\ held' = held \ {h} /\ kernels' = kernels /\ astray'[t] = astray[t]
    BY DEF ReleaseBuffer, ReleaseFn, BufferFree, At, Goto, Alone, Sound, OwnInv, TypeOK
  <1>2. ~err /\ ~own[t]
    BY <1>1 DEF Alone, ErrorInv
  <1>3. h \in bufs
    BY DanglesParts DEF Alone, Sound, Whole, OwnInv, Held
  <1>4. bufs' = bufs \ {h} /\ err' = err /\ own' = own
    BY <1>2, <1>3 DEF ReleaseBuffer, ReleaseFn, BufferFree, Succeeds, Fails, Skipped, Alone
  <1>5. Held' = Held \ {h} /\ Buffers(t) = {}
    BY <1>1 DEF Held, NoHandle, Buffers, BuffersInProgress
  <1>6. BuffersKept(t)
    BY <1>4, <1>5 DEF BuffersKept
  <1>7. KernelsKept(t)
    BY <1>1, KernelsAside DEF WithKernels
  <1>8. ErrorInv(t)' /\ ~astray'[t]
    BY <1>1, <1>2, <1>4 DEF Alone, ErrorInv
  <1> QED BY <1>6, <1>7, <1>8 DEF AloneStep


(* A call that returns, or that has no handle in hand.                     *)
LEMMA ReturnAlone ==
  ASSUME NEW t \in Threads, Alone(t), Released(t) \/ ReturnOk(t) \/ ReturnError(t)
  PROVE  AloneStep(t)
  <1>1. /\ pc[t] \in {"released", "done", "fail"} /\ pc'[t] = "idle" /\ exe'[t] = exe[t]
        /\ held' = held /\ kernels' = kernels /\ bufs' = bufs /\ err' = err /\ ~own'[t]
    BY DEF Released, ReturnOk, ReturnError, Return, Leave, At, Goto, libVars,
       Alone, Sound, OwnInv, TypeOK
  <1>2. pc[t] \notin WithBuffer \cup WithKernels
    BY <1>1 DEF WithBuffer, WithKernels
  <1>3. BuffersKept(t) /\ KernelsKept(t)
    BY <1>1, <1>2, BuffersAside, KernelsAside
  <1>4. own[t] \in BOOLEAN /\ ~err /\ (pc[t] \in {"released", "done"} => ~own[t])
        /\ (pc[t] = "fail" => own[t])
    BY <1>1 DEF Alone, Sound, ErrorInv, OwnInv, TypeOK
  <1>5. ~astray'[t]
    <2>1. CASE Released(t)
      BY <2>1 DEF Released, Alone
    <2>2. CASE ReturnOk(t)
      <3>1. astray'[t] = (("ok" = "error") # own[t])
        BY <2>2 DEF ReturnOk, Return, Alone, Sound, OwnInv, TypeOK
      <3>2. own[t] = FALSE /\ ("ok" = "error") = FALSE
        BY <1>4, <2>2 DEF ReturnOk, At
      <3> QED BY <3>1, <3>2, Zenon
    <2>3. CASE ReturnError(t)
      <3>1. astray'[t] = (("error" = "error") # own[t])
        BY <2>3 DEF ReturnError, Return, Alone, Sound, OwnInv, TypeOK
      <3>2. own[t] = TRUE
        BY <1>4, <2>3 DEF ReturnError, At
      <3> QED BY <3>1, <3>2, Zenon
    <2> QED BY <2>1, <2>2, <2>3
  <1>6. ErrorInv(t)'
    BY <1>1, <1>4 DEF ErrorInv
  <1> QED BY <1>3, <1>5, <1>6 DEF AloneStep

LEMMA SyncAlone ==
  ASSUME NEW t \in Threads, Alone(t),
         Sync(t) \/ SyncCheck(t) \/ SyncReset(t) \/ GiveUp(t)
  PROVE  AloneStep(t)
  <1>1. /\ pc[t] \in {"idle", "syncCheck", "syncReset"}
        /\ pc'[t] \in {"syncCheck", "syncReset", "done", "fail"} /\ exe'[t] = exe[t]
        /\ held' = held /\ kernels' = kernels /\ bufs' = bufs /\ astray'[t] = astray[t]
    BY DEF Sync, SyncCheck, SyncReset, GiveUp, DevOk, ResetErr, Use, At, Goto, libVars,
       Alone, Sound, OwnInv, TypeOK
  <1>2. pc[t] \notin WithBuffer \cup WithKernels
    BY <1>1 DEF WithBuffer, WithKernels
  <1>3. BuffersKept(t) /\ KernelsKept(t) /\ ~astray'[t]
    BY <1>1, <1>2, BuffersAside, KernelsAside DEF Alone
  <1>4. ErrorInv(t)'
    BY DEF Sync, SyncCheck, SyncReset, GiveUp, DevOk, ResetErr, Use, Succeeds, Skipped,
       Fails, At, Goto, libVars, ErrorInv, Alone, Sound, OwnInv, TypeOK
  <1> QED BY <1>3, <1>4 DEF AloneStep

LEMMA CreateExecutableAlone ==
  ASSUME NEW t \in Threads, Alone(t), CreateExecutable(t)
  PROVE  AloneStep(t)
  <1>1. /\ pc[t] = "idle" /\ pc'[t] = "load" /\ exe'[t] = exe[t] /\ idx'[t] = 1
        /\ held' = held /\ kernels' = kernels /\ bufs' = bufs /\ astray'[t] = astray[t]
        /\ err' = err /\ own' = own
    BY DEF CreateExecutable, At, Goto, libVars, Alone, Sound, OwnInv, TypeOK, PlaceInv
  <1>2. BuffersKept(t) /\ KernelsKept(t) /\ ~astray'[t]
    BY <1>1, BuffersAside, KernelsAside DEF Alone, WithBuffer, WithKernels
  <1>3. ErrorInv(t)'
    BY <1>1 DEF Alone, ErrorInv
  <1> QED BY <1>2, <1>3 DEF AloneStep

LEMMA LoadKernelAlone ==
  ASSUME NEW t \in Threads, Alone(t), LoadKernel(t)
  PROVE  AloneStep(t)
  <1>1. /\ pc[t] = "load" /\ pc'[t] = "set" /\ idx'[t] = idx[t]
        /\ exe'[t] = exe[t] /\ held' = held /\ bufs' = bufs /\ astray'[t] = astray[t]
    BY DEF LoadKernel, KernelAlloc, At, Goto, Alone, Sound, OwnInv, TypeOK
  <1>2. /\ reg[t] \in Seq(Nat) /\ idx[t] \in DOMAIN reg[t] /\ idx[t] \in Nat
        /\ DOMAIN reg[t] \subseteq Nat
    BY LenProperties DEF LoadKernel, Alone, Sound, OwnInv, TypeOK
  <1>3. ~err /\ ~own[t]
    BY <1>1 DEF Alone, ErrorInv
  <1>4. /\ exe[t] = <<>> /\ DOMAIN exe[t] = {}
        /\ \A i \in DOMAIN reg[t] : i >= idx[t] => reg[t][i] = NoHandle
    BY <1>1, <1>3 DEF Alone, Sound, OwnInv, PlaceInv, WithKernels
  <1>5. BuffersKept(t) /\ ~astray'[t]
    BY <1>1, BuffersAside DEF Alone, WithBuffer
  <1>6. Creating(t) /\ Creating(t)'
    BY <1>1 DEF Creating
  <1>7. CASE /\ kernels' = kernels /\ reg' = reg /\ err' /\ own'[t]
    <2>1. Kernels(t) \subseteq Kernels(t)'
      BY <1>1, <1>6, <1>7, KernelsOf, KernelsThen
    <2>2. KernelsKept(t)
      BY <1>7, <2>1 DEF KernelsKept
    <2>3. ErrorInv(t)'
      BY <1>1, <1>7 DEF ErrorInv
    <2> QED BY <1>5, <2>2, <2>3 DEF AloneStep
  <1>8. ASSUME NEW h \in KernelHandles, kernels' = kernels \cup {h}, ~err', ~own'[t],
               reg' = [reg EXCEPT ![t][idx[t]] = h]
        PROVE  AloneStep(t)
    <2>1. /\ DOMAIN reg'[t] = DOMAIN reg[t] /\ reg'[t][idx[t]] = h
          /\ \A i \in DOMAIN reg[t] : i # idx[t] => reg'[t][i] = reg[t][i]
      BY <1>2, <1>8, LenProperties DEF Alone, Sound, OwnInv, TypeOK
    <2>2. h # NoHandle
      BY ResourceAssumption DEF KernelHandles, NoHandle
    <2>3. h \in Kernels(t)'
      BY <1>2, <1>6, <2>1, <2>2, KernelsThen
    <2>4. Kernels(t) \subseteq Kernels(t)'
      <3>1. ASSUME NEW k \in Kernels(t)
            PROVE  k \in Kernels(t)'
        <4>1. PICK j \in DOMAIN reg[t] : k = reg[t][j] /\ k # NoHandle
          BY <1>4, KernelsOf
        <4>2. j # idx[t]
          BY <1>2, <1>4, <4>1
        <4> QED BY <1>6, <2>1, <4>1, <4>2, KernelsThen
      <3> QED BY <3>1
    <2>5. KernelsKept(t)
      BY <1>8, <2>3, <2>4 DEF KernelsKept
    <2>6. ErrorInv(t)'
      BY <1>1, <1>8 DEF ErrorInv
    <2> QED BY <1>5, <2>5, <2>6 DEF AloneStep
  <1>9. \/ kernels' = kernels /\ reg' = reg /\ err' /\ own'[t]
        \/ \E h \in KernelHandles :
             /\ kernels' = kernels \cup {h} /\ ~err' /\ ~own'[t]
             /\ reg' = [reg EXCEPT ![t][idx[t]] = h]
    <2>1. Fails(t) => err' /\ own'[t]
      BY DEF Fails, Alone, Sound, OwnInv, TypeOK
    <2>2. (Succeeds => ~err' /\ ~own'[t]) /\ ~Skipped
      BY <1>3 DEF Succeeds, Skipped
    <2>3. CASE \E h \in KernelHandles \ kernels :
                 /\ Succeeds /\ kernels' = kernels \cup {h}
                 /\ reg' = [reg EXCEPT ![t][idx[t]] = h]
      BY <2>2, <2>3
    <2>4. CASE Fails(t) /\ UNCHANGED <<kernels, reg>>
      BY <2>1, <2>4
    <2> QED BY <2>2, <2>3, <2>4 DEF LoadKernel, KernelAlloc
  <1> QED BY <1>7, <1>8, <1>9

LEMMA KeepKernelsAlone ==
  ASSUME NEW t \in Threads, Alone(t), SetKernel(t) \/ LoadCheck(t) \/ LoadReset(t)
  PROVE  AloneStep(t)
  <1>1. /\ pc[t] \in {"set", "loadCheck", "loadReset"}
        /\ exe'[t] = exe[t] /\ reg'[t] = reg[t] /\ astray'[t] = astray[t]
        /\ held' = held /\ kernels' = kernels /\ bufs' = bufs
        /\ \/ /\ pc[t] = "set" /\ pc'[t] = "loadCheck" /\ idx'[t] = idx[t] + 1
              /\ ~err' => ~err
           \/ /\ pc[t] = "loadCheck" /\ idx'[t] = idx[t] /\ err' = err
              /\ pc'[t] = IF err THEN "loadReset" ELSE "load"
           \/ pc[t] = "loadReset" /\ pc'[t] = "undoLoad" /\ idx'[t] = 1
    BY DEF SetKernel, Use, Succeeds, Skipped, Fails, LoadCheck, LoadReset, DevOk, ResetErr,
       At, Goto, libVars, Alone, Sound, OwnInv, TypeOK
  <1>2. BuffersKept(t) /\ ~astray'[t]
    BY <1>1, BuffersAside DEF Alone, WithBuffer
  <1>3. DOMAIN reg[t] \subseteq Nat \ {0} /\ idx[t] \in Nat
    BY LenProperties DEF Alone, Sound, OwnInv, TypeOK
  <1>4. Kernels(t) \subseteq Kernels(t)'
    <2>1. Creating(t) /\ ~Unloading(t)
      BY <1>1 DEF Creating, Unloading
    <2>2. Creating(t)' \/ (Unloading(t)' /\ idx'[t] = 1)
      BY <1>1 DEF Creating, Unloading
    <2>3. \A j \in DOMAIN reg'[t] : Creating(t)' \/ (Unloading(t)' /\ j >= idx'[t])
      BY <1>1, <1>3, <2>2
    <2> QED BY <1>1, <2>1, <2>3, KernelsOf, KernelsThen
  <1>5. KernelsKept(t)
    BY <1>1, <1>4 DEF KernelsKept
  <1>6. ErrorInv(t)'
    BY DEF SetKernel, Use, Succeeds, Skipped, Fails, LoadCheck, LoadReset, DevOk, ResetErr,
       At, Goto, libVars, ErrorInv, Alone, Sound, OwnInv, TypeOK
  <1> QED BY <1>2, <1>5, <1>6 DEF AloneStep


LEMMA CreatedAlone ==
  ASSUME NEW t \in Threads, Alone(t), Created(t)
  PROVE  AloneStep(t)
  <1>1. /\ pc[t] = "load" /\ pc'[t] = "idle" /\ exe'[t] = reg[t] /\ idx[t] > Len(reg[t])
        /\ held' = held /\ kernels' = kernels /\ bufs' = bufs /\ err' = err /\ ~own'[t]
    BY DEF Created, Return, Leave, At, Goto, libVars, Alone, Sound, OwnInv, TypeOK
  <1>2. BuffersKept(t)
    BY <1>1, BuffersAside DEF WithBuffer
  <1>3. ~err /\ own[t] = FALSE
    BY <1>1 DEF Alone, Sound, ErrorInv, OwnInv, TypeOK
  <1>4. exe[t] = <<>> /\ DOMAIN exe[t] = {}
    BY <1>1 DEF Alone, Sound, OwnInv, PlaceInv, WithKernels
  <1>5. ~Unloading(t)
    BY <1>1 DEF Unloading
  <1>6. Kernels(t) \subseteq Kernels(t)'
    BY <1>1, <1>4, <1>5, KernelsOf, KernelsThen
  <1>7. KernelsKept(t)
    BY <1>1, <1>6 DEF KernelsKept
  <1>8. ~astray'[t]
    <2>1. astray'[t] = (("ok" = "error") # own[t])
      BY DEF Created, Return, Alone, Sound, OwnInv, TypeOK
    <2>2. ("ok" = "error") = FALSE
      OBVIOUS
    <2> QED BY <1>3, <2>1, <2>2, Zenon
  <1>9. ErrorInv(t)'
    BY <1>1, <1>3 DEF ErrorInv
  <1> QED BY <1>2, <1>7, <1>8, <1>9 DEF AloneStep

LEMMA DestroyExecutableAlone ==
  ASSUME NEW t \in Threads, Alone(t), DestroyExecutable(t)
  PROVE  AloneStep(t)
  <1>1. /\ pc[t] = "idle" /\ pc'[t] = "unload" /\ reg'[t] = exe[t] /\ exe'[t] = <<>>
        /\ idx'[t] = 1 /\ held' = held /\ kernels' = kernels /\ bufs' = bufs
        /\ err' = err /\ own' = own /\ astray' = astray
    BY DEF DestroyExecutable, At, Goto, libVars, Alone, Sound, OwnInv, TypeOK, PlaceInv
  <1>2. BuffersKept(t)
    BY <1>1, BuffersAside DEF WithBuffer
  <1>3. ~Creating(t) /\ ~Unloading(t) /\ Unloading(t)'
    BY <1>1 DEF Creating, Unloading
  <1>4. \A j \in DOMAIN exe[t] : j >= 1
    BY LenProperties DEF Alone, Sound, OwnInv, TypeOK
  <1>5. Kernels(t) \subseteq Kernels(t)'
    BY <1>1, <1>3, <1>4, KernelsOf, KernelsThen
  <1>6. KernelsKept(t)
    BY <1>1, <1>5 DEF KernelsKept
  <1>7. ErrorInv(t)' /\ ~astray'[t]
    BY <1>1 DEF Alone, ErrorInv
  <1> QED BY <1>2, <1>6, <1>7 DEF AloneStep

LEMMA UnloadKernelAlone ==
  ASSUME NEW t \in Threads, Alone(t), UnloadKernel(t)
  PROVE  AloneStep(t)
  <1>1. /\ pc[t] \in {"unload", "undoLoad"} /\ pc'[t] = pc[t] /\ idx'[t] = idx[t] + 1
        /\ exe'[t] = exe[t] /\ reg'[t] = reg[t] /\ held' = held /\ bufs' = bufs
        /\ astray' = astray
    BY DEF UnloadKernel, KernelFree, Unloading, libVars, Alone, Sound, OwnInv, TypeOK
  <1>2. /\ reg[t] \in Seq(Nat) /\ idx[t] \in DOMAIN reg[t] /\ idx[t] \in Nat
        /\ DOMAIN reg[t] \subseteq Nat
    BY LenProperties DEF UnloadKernel, Alone, Sound, OwnInv, TypeOK
  <1>3. DOMAIN exe[t] = {} /\ ~err
    BY <1>1 DEF Alone, Sound, OwnInv, PlaceInv, ErrorInv, WithKernels
  <1>4. ~Creating(t) /\ Unloading(t) /\ Unloading(t)'
    BY <1>1 DEF Creating, Unloading
  <1>5. reg[t][idx[t]] # NoHandle => reg[t][idx[t]] \in kernels
    <2>1. Kernels(t) \subseteq kernels
      BY DanglesParts DEF Alone, Sound, OwnInv
    <2> QED BY <1>2, <1>4, <2>1, KernelsOf
  <1>6. /\ err' = err /\ own' = own
        /\ kernels' = IF reg[t][idx[t]] # NoHandle THEN kernels \ {reg[t][idx[t]]} ELSE kernels
    BY <1>3, <1>5 DEF UnloadKernel, KernelFree, Succeeds, Fails, Skipped, libVars, Alone
  <1>7. Kernels(t) \subseteq Kernels(t)' \cup ({reg[t][idx[t]]} \ {NoHandle})
    <2>1. ASSUME NEW k \in Kernels(t), k # reg[t][idx[t]]
          PROVE  k \in Kernels(t)'
      <3>1. PICK j \in DOMAIN reg[t] : j >= idx[t] /\ k = reg[t][j] /\ k # NoHandle
        BY <1>3, <1>4, KernelsOf
      <3>2. j >= idx'[t]
        BY <1>1, <1>2, <2>1, <3>1
      <3> QED BY <1>1, <1>4, <3>1, <3>2, KernelsThen
    <2>2. NoHandle \notin Kernels(t)
      BY KernelsOf
    <2> QED BY <2>1, <2>2
  <1>8. KernelsKept(t)
    BY <1>6, <1>7 DEF KernelsKept
  <1>9. BuffersKept(t) /\ ~astray'[t]
    BY <1>1, BuffersAside DEF Alone, WithBuffer
  <1>10. ErrorInv(t)'
    BY <1>1, <1>6 DEF Alone, ErrorInv
  <1> QED BY <1>8, <1>9, <1>10 DEF AloneStep

LEMMA UnloadedAlone ==
  ASSUME NEW t \in Threads, Alone(t), Unloaded(t)
  PROVE  AloneStep(t)
  <1>1. /\ pc[t] \in {"unload", "undoLoad"} /\ ~err' /\ own' = own
        /\ pc'[t] = IF pc[t] = "unload" THEN "released" ELSE "fail"
        /\ idx[t] > Len(reg[t])
        /\ exe'[t] = exe[t] /\ held' = held /\ kernels' = kernels /\ bufs' = bufs
        /\ astray' = astray
    BY DEF Unloaded, Unloading, ResetErr, At, Goto, Alone, Sound, OwnInv, TypeOK
  <1>2. DOMAIN exe[t] = {}
    BY <1>1 DEF Alone, Sound, OwnInv, PlaceInv, WithKernels
  <1>3. \A j \in DOMAIN reg[t] : ~(j >= idx[t])
    <2>1. /\ DOMAIN reg[t] = 1 .. Len(reg[t]) /\ Len(reg[t]) \in Nat /\ idx[t] \in Nat
      BY LenProperties DEF Alone, Sound, OwnInv, TypeOK
    <2> QED BY <1>1, <2>1
  <1>4. ~Creating(t)
    BY <1>1 DEF Creating
  <1>5. Kernels(t) = {}
    BY <1>2, <1>3, <1>4, KernelsOf
  <1>6. KernelsKept(t)
    BY <1>1, <1>5 DEF KernelsKept
  <1>7. BuffersKept(t) /\ ~astray'[t]
    BY <1>1, BuffersAside DEF Alone, WithBuffer
  <1>8. ErrorInv(t)'
    BY <1>1 DEF Alone, ErrorInv
  <1> QED BY <1>6, <1>7, <1>8 DEF AloneStep


LEMMA AloneSteps ==
  ASSUME NEW t \in Threads, Alone(t), Step(t)
  PROVE  AloneStep(t)
  BY AllocateBufferAlone, KeepBufferAlone, WrapAlone, UndoAlone, ReleaseAlone, ReturnAlone,
     SyncAlone, CreateExecutableAlone, LoadKernelAlone, KeepKernelsAlone, CreatedAlone,
     DestroyExecutableAlone, UnloadKernelAlone, UnloadedAlone
     DEF Step, AllocateRefused, CreateRefused

(* Nothing of the others is touched, so that all that is alive is owned.   *)
LEMMA AloneNext ==
  ASSUME IInv, active' = active, freesFail' = freesFail, Undisturbed,
         NEW t \in active, Step(t)
  PROVE  AloneInv'
  <1>1. t \in Threads /\ OwnInv /\ active = {t} /\ ~freesFail
    BY DEF IInv, OwnInv, TypeOK, Undisturbed, Solitary
  <1>2. AloneInv!2 /\ SolitaryInv!2
    BY DEF IInv, AloneInv, SolitaryInv, Undisturbed
  <1>3. Alone(t)
    BY <1>1, <1>2 DEF Alone, Sound, Whole
  <1>4. AloneStep(t) /\ Others(t)
    BY <1>1, <1>3, AloneSteps, OwnNext
  <1>5. \A u \in Threads \ {t} : Buffers(u)' = Buffers(u) /\ Kernels(u)' = Kernels(u)
    BY <1>1, <1>4, OthersOwn
  <1>6. ASSUME NEW h \in bufs'
        PROVE  h \in OwnedBuffers'
    <2>1. CASE h \in Buffers(t)' \cup Held'
      BY <1>1, <2>1, OwnedPartsThen
    <2>2. CASE h \in bufs /\ h \notin Buffers(t) \cup Held
      <3>1. PICK u \in Threads : h \in Buffers(u)
        BY <1>2, <2>2, OwnedParts
      <3>2. u # t
        BY <2>2, <3>1
      <3>3. h \in Buffers(u)'
        BY <1>5, <3>1, <3>2
      <3> QED BY <3>3, OwnedPartsThen
    <2> QED BY <1>4, <1>6, <2>1, <2>2 DEF AloneStep, BuffersKept
  <1>7. ASSUME NEW h \in kernels'
        PROVE  h \in OwnedKernels'
    <2>1. CASE h \in Kernels(t)'
      BY <1>1, <2>1, OwnedPartsThen
    <2>2. CASE h \in kernels /\ h \notin Kernels(t)
      <3>1. PICK u \in Threads : h \in Kernels(u)
        BY <1>2, <2>2, OwnedParts
      <3>2. u # t
        BY <2>2, <3>1
      <3>3. h \in Kernels(u)'
        BY <1>5, <3>1, <3>2
      <3> QED BY <3>3, OwnedPartsThen
    <2> QED BY <1>4, <1>7, <2>1, <2>2 DEF AloneStep, KernelsKept
  <1>8. \A u \in active' : ErrorInv(u)'
    BY <1>1, <1>4 DEF AloneStep
  <1>9. ASSUME NEW u \in Threads
        PROVE  ~astray'[u]
    <2>1. CASE u = t
      BY <1>4, <2>1 DEF AloneStep
    <2>2. CASE u # t
      BY <1>2, <1>4, <2>2 DEF Others
    <2> QED BY <2>1, <2>2
  <1> QED BY <1>6, <1>7, <1>8, <1>9 DEF AloneInv

LEMMA AloneInit == Init => SolitaryInv /\ AloneInv
  <1> SUFFICES ASSUME Init PROVE SolitaryInv /\ AloneInv
    OBVIOUS
  <1>1. \A t \in Threads : /\ pc[t] = "idle" /\ ~own[t] /\ ~astray[t] /\ ~err
                           /\ NoHandle \notin ListRange(exe[t])
    <2>1. ASSUME NEW t \in Threads
          PROVE  NoHandle \notin ListRange(exe[t])
      <3>1. DOMAIN exe[t] = {}
        BY DEF Init
      <3> QED BY <3>1 DEF ListRange
    <2>2. \A t \in Threads : pc[t] = "idle" /\ own[t] = FALSE /\ astray[t] = FALSE
      BY DEF Init
    <2> QED BY <2>1, <2>2 DEF Init
  <1>2. active \subseteq Threads /\ bufs = {} /\ kernels = {} /\ held = {}
    BY DEF Init
  <1>3. \A t \in active : ErrorInv(t) /\ ValidInv(t)
    BY <1>1, <1>2 DEF ErrorInv, ValidInv
  <1> QED BY <1>1, <1>2, <1>3 DEF SolitaryInv, AloneInv

LEMMA AloneStutter ==
  ASSUME SolitaryInv, AloneInv, UNCHANGED vars
  PROVE  SolitaryInv' /\ AloneInv'
  <1>1. UNCHANGED <<active, freesFail, err, bufs, kernels, held, exe, pc, reg, idx, astray, own>>
    BY DEF vars
  <1>2. (Undisturbed' <=> Undisturbed) /\ (Solitary' <=> Solitary)
    BY <1>1 DEF Undisturbed, Solitary
  <1>3. \A t : (ErrorInv(t)' <=> ErrorInv(t)) /\ (ValidInv(t)' <=> ValidInv(t))
    BY <1>1 DEF ErrorInv, ValidInv, NoHandle
  <1>4. OwnedBuffers' = OwnedBuffers /\ OwnedKernels' = OwnedKernels
    BY <1>1 DEF OwnedBuffers, OwnedKernels, BuffersInProgress, KernelsInProgress, Creating,
       Unloading, ListRange, NoHandle
  <1>5. SolitaryInv'
    BY <1>1, <1>2, <1>3 DEF SolitaryInv, ListRange, NoHandle
  <1>6. AloneInv'
    BY <1>1, <1>2, <1>3, <1>4 DEF AloneInv
  <1> QED BY <1>5, <1>6

-----------------------------------------------------------------------------
(* Every live handle has one owner, and with one thread on the device every*)
(* handle that is alive has (allocator.c:148-222, executable.c:156-232):   *)
(* the invariant the theorems below rest on.                               *)
THEOREM ResourceInvariance == Spec => []IInv
  <1>1. Init => IInv
    BY OwnInit, AloneInit DEF IInv
  <1>2. IInv /\ [Next]_vars => IInv'
    <2> SUFFICES ASSUME IInv, [Next]_vars PROVE IInv'
      OBVIOUS
    <2>1. CASE UNCHANGED vars
      BY <2>1, OwnStutter, AloneStutter DEF IInv
    <2>2. CASE Next
      <3>1. active' = active /\ freesFail' = freesFail
        BY <2>2 DEF Next
      <3>2. PICK t \in active : Step(t)
        BY <2>2 DEF Next
      <3>3. OwnInv'
        BY <3>1, <3>2, OwnNext DEF IInv
      <3>4. (Undisturbed' <=> Undisturbed) /\ (Solitary' <=> Solitary)
        BY <3>1 DEF Undisturbed, Solitary
      <3>5. SolitaryInv'
        BY <3>1, <3>2, <3>4, SolitaryNext DEF SolitaryInv
      <3>6. AloneInv'
        BY <3>1, <3>2, <3>4, AloneNext DEF AloneInv
      <3> QED BY <3>3, <3>5, <3>6 DEF IInv
    <2> QED BY <2>1, <2>2
  <1> QED BY <1>1, <1>2, PTL DEF Spec

(* Handles, places and flags stay in their ranges.                         *)
THEOREM ResourceTypeCorrectness == Spec => []TypeOK
  <1>1. IInv => TypeOK
    BY DEF IInv, OwnInv
  <1> QED BY <1>1, ResourceInvariance, PTL

(* No handle in use has been freed, however many threads use the device    *)
(* and even where one's error makes the calls of another ineffective       *)
(* (allocator.c:204-211, executable.c:215-219).                            *)
THEOREM HandlesStayAlive == Spec => []NothingDangles
  <1>1. IInv => NothingDangles
    BY DEF IInv, OwnInv
  <1> QED BY <1>1, ResourceInvariance, PTL

(* However a creation is abandoned, a thread alone on a device whose frees *)
(* succeed leaves nothing that nobody will free (allocator.c:204-211,      *)
(* executable.c:215-219).                                                  *)
THEOREM FailuresLeakNothing == Spec => []NothingLeaks
  <1>1. IInv => NothingLeaks
    BY DEF IInv, AloneInv, NothingLeaks
  <1> QED BY <1>1, ResourceInvariance, PTL

(* What a thread alone on the device is handed has no invalid handle, also *)
(* where the error of a failed free lingers (allocator.c:166-171,          *)
(* executable.c:210-214, buffer.c:244).                                    *)
THEOREM ObjectsAreValid == Spec => []ObjectsValid
  <1>1. IInv => ObjectsValid
    BY DEF IInv, SolitaryInv, ObjectsValid
  <1> QED BY <1>1, ResourceInvariance, PTL

(* Alone on a device whose frees succeed, a call fails if and only if      *)
(* something in it did: no sticky error outlives the call that caused it   *)
(* (strela_driver_module.c:16-17).                                         *)
THEOREM ErrorsDoNotLinger == Spec => []StatusIsOwn
  <1>1. IInv => StatusIsOwn
    BY DEF IInv, AloneInv, StatusIsOwn
  <1> QED BY <1>1, ResourceInvariance, PTL

=============================================================================
