----------------------- MODULE StrelaDispatch_proofs -----------------------
EXTENDS StrelaDispatch, TLAPS

(* The flush loop has passed the input, the output of column c.            *)
InpFlushed(c) ==
  \/ pc = "flushInp" /\ c < col
  \/ pc = "flushOut" /\ c <= col
  \/ launched /\ pc \in {"wait", "poll", "free"}

OutFlushed(c) ==
  \/ pc \in {"flushInp", "flushOut"} /\ c < col
  \/ launched
  \/ pc \in {"clean", "discard"} /\ c < col
  \/ pc = "discard" /\ c = col

(* How the control variables hang together.                                *)
ControlInv ==
  /\ pc = "idle" => op = NoOp /\ col = 1
  /\ pc \in {"idle", "flushInp", "flushOut"} =>
       ~launched /\ job = "none" /\ todo = {}
  /\ pc \in {"flushOut", "discard"} => col \in Columns
  /\ pc \in {"wait", "poll"} => launched
  /\ pc \in {"wait", "poll"} => job \in {"pending", "ok", "failed"}
  /\ pc = "free" /\ ~launched => job = "configured"
  /\ pc = "free" /\ launched => job \in {"pending", "ok", "failed"}
  /\ pc = "free" /\ status = "ok" => job = "ok"
  /\ pc \in {"clean", "discard"} => job = "none" /\ todo = {}
  /\ job = "ok" => todo = {}
  /\ job = "configured" => status = "error"
  /\ todo \subseteq Owned
  /\ stray \subseteq loose

(* A flushed input is the same in memory as the CPU sees it.               *)
InputInv ==
  \A c \in Columns : InpFlushed(c) =>
    \A w \in op.inp[c] : w \notin Owned \cup loose => mem[w] = CpuView(w)

(* No line of a flushed output is dirty.                                   *)
OutputInv ==
  \A c \in Columns : OutFlushed(c) =>
    \A w \in op.out[c] : Tag(w) # "dirty"

(* An invalidated output is the same in memory as the CPU sees it, unless  *)
(* a job that could not be freed may write to it.                          *)
InvalidatedInv ==
  pc \in {"clean", "discard"} =>
    \A c \in Columns : c < col =>
      \A w \in op.out[c] \ stray : CpuView(w) = mem[w]

IInv ==
  /\ TypeOK
  /\ ControlInv
  /\ InputInv
  /\ OutputInv
  /\ InvalidatedInv
  /\ CpuSeesNothingStale

-----------------------------------------------------------------------------
(* The maintenance calls and the stores keep the memory's type.            *)
LEMMA MemoryType ==
  ASSUME MemTypeOK
  PROVE  /\ \A L : Clean(L) \/ Discard(L) => MemTypeOK'
         /\ \A S \in SUBSET Words : \A f \in [S -> Values] :
              CpuStore(S, f) \/ CpuStoreThrough(S, f) => MemTypeOK'
         /\ \A w \in Words, v \in Values : DeviceStore(w, v) => MemTypeOK'
         /\ \A l \in Lines : Fetch(l) \/ Evict(l) => MemTypeOK'
         /\ UNCHANGED memVars => MemTypeOK'
  <1> USE DEF MemTypeOK, Tags
  <1>0. \A x \in Words : CpuView(x) \in Values
    BY LayoutAssumption DEF CpuView, Tag
  <1>c. NoCopy \in Values
    BY LayoutAssumption DEF NoCopy
  <1>1. ASSUME NEW L, Clean(L) \/ Discard(L)
        PROVE  MemTypeOK'
    BY <1>1, <1>c DEF Clean, Discard, Without
  <1>2. ASSUME NEW S \in SUBSET Words, NEW f \in [S -> Values],
               CpuStore(S, f) \/ CpuStoreThrough(S, f)
        PROVE  MemTypeOK'
    BY <1>0, <1>2 DEF CpuStore, CpuStoreThrough
  <1>3. ASSUME NEW w \in Words, NEW v \in Values, DeviceStore(w, v)
        PROVE  MemTypeOK'
    BY <1>3 DEF DeviceStore
  <1>4. ASSUME NEW l \in Lines, Fetch(l) \/ Evict(l)
        PROVE  MemTypeOK'
    BY <1>4, <1>c DEF Fetch, Evict, Without
  <1>5. UNCHANGED memVars => MemTypeOK'
    BY DEF memVars
  <1> QED
    BY <1>1, <1>2, <1>3, <1>4, <1>5

(* The words of the columns are words; the kernel's results are values.    *)
LEMMA ColumnsAreWords ==
  ASSUME TypeOK
  PROVE  Inp \subseteq Words /\ Out \subseteq Words /\ Owned \subseteq Words
  BY DEF TypeOK, ColumnWords, Inp, Out, AllWords, Owned

LEMMA KernelType ==
  ASSUME TypeOK, NEW w \in Words
  PROVE  Kernel(w, [i \in Inp |-> mem[i]]) \in Values
  <1> DEFINE in == [i \in Inp |-> mem[i]]
  <1>1. in \in [Inp -> Values]
    BY ColumnsAreWords DEF TypeOK, MemTypeOK
  <1>2. Inp \in SUBSET Words
    BY ColumnsAreWords
  <1>3. in \in UNION {[S -> Values] : S \in SUBSET Words}
    BY <1>1, <1>2
  <1> QED
    BY <1>3, DispatchAssumption

(* A command that returns leaves well-typed control variables.             *)
LEMMA ReturnType ==
  ASSUME NEW r \in {"ok", "error"}, Return(r)
  PROVE  /\ pc' \in PcLabels
         /\ op' \in [inp : ColumnWords, out : ColumnWords]
         /\ col' \in 1 .. ColumnCount + 1
         /\ job' \in {"none", "configured", "pending", "ok", "failed"}
         /\ launched' \in BOOLEAN
         /\ todo' \in SUBSET Words
         /\ status' \in {"ok", "error"}
  <1>1. ColumnCount \in Nat \ {0}
    BY DispatchAssumption
  <1>2. NoOp \in [inp : ColumnWords, out : ColumnWords]
    BY DEF NoOp, Unused, ColumnWords
  <1>3. col' \in 1 .. ColumnCount + 1
    BY <1>1 DEF Return
  <1>4. launched' \in BOOLEAN
    BY Zenon DEF Return
  <1>5. todo' \in SUBSET Words
    BY DEF Return
  <1> QED
    BY <1>2, <1>3, <1>4, <1>5, Zenon DEF Return, PcLabels

-----------------------------------------------------------------------------
(* Every step keeps the type invariant.                                    *)
LEMMA TypeStep ==
  ASSUME TypeOK, [Next]_vars
  PROVE  TypeOK'
  <1>0. ColumnCount \in Nat \ {0} /\ Columns = 1 .. ColumnCount
    BY DispatchAssumption DEF Columns
  <1>1. MemTypeOK'
    <2>1. ASSUME NEW S \in SUBSET Words, NEW f \in [S -> Values], Write(S, f)
          PROVE  MemTypeOK'
      BY <2>1, MemoryType DEF Write, TypeOK
    <2>2. CASE Transfer
      <3>1. ASSUME NEW S \in Ranges, NEW v \in Values, FillBuffer(S, v)
            PROVE  MemTypeOK'
        BY <2>1, <3>1, DispatchAssumption DEF FillBuffer
      <3>2. ASSUME NEW S \in Ranges, UpdateBuffer(S)
            PROVE  MemTypeOK'
        BY <2>1, <3>2, DispatchAssumption DEF UpdateBuffer
      <3>3. ASSUME NEW m \in CopyMaps, CopyBuffer(m)
            PROVE  MemTypeOK'
        <4> DEFINE f == [w \in DOMAIN m |-> CpuView(m[w])]
        <4>1. DOMAIN m \in SUBSET Words /\ m \in [DOMAIN m -> Words]
          BY DispatchAssumption
        <4>2. \A w \in Words : CpuView(w) \in Values
          BY LayoutAssumption DEF TypeOK, MemTypeOK, CpuView, Tag
        <4>3. f \in [DOMAIN m -> Values]
          BY <4>1, <4>2
        <4>4. Write(DOMAIN m, f)
          BY <3>3 DEF CopyBuffer
        <4> HIDE DEF f
        <4> QED
          BY <2>1, <4>1, <4>3, <4>4
      <3> QED
        BY <2>2, <3>1, <3>2, <3>3 DEF Transfer
    <2>3. CASE Maintain
      BY <2>3, MemoryType DEF Maintain, FlushBuffer, InvalidateBuffer, TypeOK
    <2>4. CASE \E k \in Kernels : Dispatch(k)
      BY <2>4, MemoryType DEF Dispatch, TypeOK
    <2>5. CASE CommandStep \/ WaitInterrupted
      <3>1. \/ UNCHANGED memVars
            \/ \E L : Clean(L) \/ Discard(L)
        BY <2>5 DEF CommandStep, FlushInput, FlushOutput, FlushFails,
             ConfigFails, SubmitFails, Submit, Wait, WaitInterrupted, Poll,
             PollFails, Free, FreeAfterError, FreeFails, InvalidateClean,
             InvalidateDiscard, InvalidateFails, Done
      <3> QED
        BY <3>1, MemoryType DEF TypeOK
    <2>6. CASE DeviceStep
      <3>1. ASSUME NEW w \in Words, DeviceWrite(w)
            PROVE  MemTypeOK'
        BY <3>1, KernelType DEF DeviceWrite, DeviceStore, TypeOK, MemTypeOK
      <3> QED
        BY <2>6, <3>1, MemoryType
           DEF DeviceStep, JobEnds, JobCancelled, TypeOK
    <2>7. CASE CacheStep \/ \E w \in Words : StrayWrite(w)
      BY <2>7, MemoryType DEF CacheStep, StrayWrite, TypeOK
    <2>8. CASE \E w \in Words, v \in Values : HostStoreApart(w, v)
      <3>1. ASSUME NEW w \in Words, NEW v \in Values, HostStore(w, v)
            PROVE  MemTypeOK'
        <4> DEFINE f == [x \in {w} |-> v]
        <4>1. CpuStore({w}, f) /\ {w} \in SUBSET Words /\ f \in [{w} -> Values]
          BY <3>1 DEF HostStore
        <4> HIDE DEF f
        <4> QED
          BY <4>1, MemoryType DEF TypeOK
      <3> QED
        BY <2>8, <3>1 DEF HostStoreApart
    <2>9. CASE UNCHANGED vars
      BY <2>9 DEF vars, TypeOK, MemTypeOK
    <2> QED
      BY <2>2, <2>3, <2>4, <2>5, <2>6, <2>7, <2>8, <2>9 DEF Next, Driver
  <1> DEFINE ControlType ==
        /\ pc \in PcLabels
        /\ op \in [inp : ColumnWords, out : ColumnWords]
        /\ col \in 1 .. ColumnCount + 1
        /\ job \in {"none", "configured", "pending", "ok", "failed"}
        /\ launched \in BOOLEAN
        /\ todo \in SUBSET Words
        /\ status \in {"ok", "error"}
  <1>2. ControlType'
    <2> USE DEF At, Goto
    <2>1. ASSUME NEW r \in {"ok", "error"}, Return(r)
          PROVE  ControlType'
      BY <2>1, ReturnType
    <2>2. CASE Transfer
      BY <2>2 DEF Transfer, FillBuffer, UpdateBuffer, CopyBuffer, Write,
           TypeOK
    <2>3. CASE Maintain
      <3>1. CASE \E S \in Ranges : FlushBuffer(S)
        BY <3>1 DEF FlushBuffer, TypeOK
      <3>2. ASSUME NEW S \in Ranges, InvalidateBuffer(S)
            PROVE  ControlType'
        <4>1. op' \in [inp : ColumnWords, out : ColumnWords]
          BY <3>2, DispatchAssumption
             DEF InvalidateBuffer, NoOp, Unused, ColumnWords
        <4> QED
          BY <1>0, <3>2, <4>1 DEF InvalidateBuffer, TypeOK, PcLabels
      <3> QED
        BY <2>3, <3>1, <3>2 DEF Maintain
    <2>4. CASE \E k \in Kernels : Dispatch(k)
      BY <2>4, DispatchAssumption DEF Dispatch, TypeOK, PcLabels
    <2>5. CASE \/ FlushFails \/ ConfigFails \/ FreeAfterError \/ FreeFails
               \/ InvalidateFails \/ Done
      BY <2>1, <2>5
         DEF FlushFails, ConfigFails, FreeAfterError, FreeFails,
             InvalidateFails, Done
    <2>6. CASE FlushInput \/ SubmitFails \/ Wait \/ WaitInterrupted \/ Poll
               \/ PollFails \/ InvalidateClean
      BY <2>6 DEF FlushInput, SubmitFails, Wait, WaitInterrupted, Poll,
           PollFails, InvalidateClean, TypeOK, PcLabels
    <2>7. CASE FlushOutput
      BY <1>0, <2>7 DEF FlushOutput, TypeOK, PcLabels
    <2>8. CASE InvalidateDiscard
      BY <1>0, <2>8 DEF InvalidateDiscard, TypeOK, PcLabels
    <2>9. CASE Submit
      BY <2>9, ColumnsAreWords DEF Submit, TypeOK, PcLabels
    <2>10. CASE Free
      BY <1>0, <2>10 DEF Free, TypeOK, PcLabels
    <2>11. CASE DeviceStep
      BY <2>11 DEF DeviceStep, DeviceWrite, JobEnds, JobCancelled, TypeOK
    <2>12. CASE CacheStep \/ \E w \in Words : StrayWrite(w)
      BY <2>12 DEF CacheStep, StrayWrite, ctlVars, TypeOK
    <2>13. CASE \E w \in Words, v \in Values : HostStoreApart(w, v)
      BY <2>13 DEF HostStoreApart, HostStore, TypeOK
    <2>14. CASE UNCHANGED vars
      BY <2>14 DEF vars, TypeOK
    <2> QED
      BY <2>2, <2>3, <2>4, <2>5, <2>6, <2>7, <2>8, <2>9, <2>10, <2>11,
         <2>12, <2>13, <2>14 DEF Next, Driver, CommandStep
  <1>3. (loose \in SUBSET Words)' /\ (stray \in SUBSET Words)'
    <2>1. /\ loose' \subseteq loose \cup stray \cup Out
          /\ stray' \subseteq stray \cup todo
      BY DEF Next, Driver, Transfer, FillBuffer, UpdateBuffer, CopyBuffer,
           Write, Maintain, FlushBuffer, InvalidateBuffer, Dispatch,
           CommandStep, FlushInput, FlushOutput, FlushFails, ConfigFails,
           SubmitFails, Submit, Wait, WaitInterrupted, Poll, PollFails, Free,
           FreeAfterError, FreeFails, InvalidateClean, InvalidateDiscard,
           InvalidateFails, Done, DeviceStep, DeviceWrite, JobEnds,
           JobCancelled, CacheStep, StrayWrite, ctlVars, HostStoreApart, HostStore, vars,
           Owned, Out, AllWords, OutFrom
    <2> QED
      BY <2>1, ColumnsAreWords DEF TypeOK
  <1> HIDE DEF ControlType
  <1> QED
    BY <1>1, <1>2, <1>3 DEF TypeOK, ControlType

-----------------------------------------------------------------------------
(* What the cache does to one word.  Memory and the CPU agree on it:       *)
Agree(w) == mem[w] = CpuView(w)

(* A step that stores nothing may lose no store, write back no line that   *)
(* is not dirty, and spoil no agreement.                                   *)
Quiet(w) ==
  /\ Tag(w) # "dirty" => Tag(w)' # "dirty" /\ mem'[w] = mem[w]
  /\ Agree(w) => Agree(w)'
  /\ Tag(w) = "dirty" /\ Tag(w)' # "dirty" => Agree(w)'
  /\ Agree(w) \/ Tag(w) = "dirty" => CpuView(w)' = CpuView(w)

LEMMA CleanWord ==
  ASSUME MemTypeOK, NEW L, Clean(L), NEW w \in Words
  PROVE  Quiet(w) /\ (LineOf[w] \in L => Tag(w)' # "dirty")
  BY LayoutAssumption DEF MemTypeOK, Tags, Clean, Quiet, Agree, Tag, CpuView

LEMMA CacheWord ==
  ASSUME MemTypeOK, NEW l \in Lines, Fetch(l) \/ Evict(l), NEW w \in Words
  PROVE  Quiet(w)
  BY LayoutAssumption
     DEF MemTypeOK, Tags, Fetch, Evict, Without, Quiet, Agree, Tag, CpuView

LEMMA DiscardWord ==
  ASSUME MemTypeOK, NEW L, Discard(L), NEW w \in Words,
         LineOf[w] \in L => Tag(w) # "dirty"
  PROVE  Quiet(w) /\ (LineOf[w] \in L => Agree(w)')
  BY LayoutAssumption DEF MemTypeOK, Tags, Discard, Without, Quiet, Agree, Tag, CpuView

LEMMA SameWord ==
  ASSUME UNCHANGED memVars, NEW w \in Words
  PROVE  Quiet(w)
  BY DEF memVars, Quiet, Agree, Tag, CpuView

(* A store to S, seen from a word outside of S.                            *)
LEMMA StoreWord ==
  ASSUME MemTypeOK, NEW S \in SUBSET Words, NEW f, CpuStore(S, f),
         NEW w \in Words \ S
  PROVE  /\ mem'[w] = mem[w]
         /\ CpuView(w)' = CpuView(w)
         /\ LineOf[w] \notin Touch(S) => Tag(w)' = Tag(w)
         /\ Tag(w)' # "dirty" => Tag(w) # "dirty"
  BY LayoutAssumption DEF MemTypeOK, Tags, CpuStore, Tag, CpuView

LEMMA StoreThroughWord ==
  ASSUME MemTypeOK, NEW S \in SUBSET Words, NEW f, CpuStoreThrough(S, f),
         NEW w \in Words
  PROVE  /\ w \notin S => CpuView(w)' = CpuView(w)
         /\ Tag(w) = "dirty" /\ Tag(w)' # "dirty" => Agree(w)'
         /\ Agree(w) => Agree(w)'
         /\ w \in S => Agree(w)'
  BY LayoutAssumption
     DEF MemTypeOK, Tags, CpuStoreThrough, Tag, CpuView, Touch, Agree

(* A word neither owned nor loose agrees unless its line is dirty.         *)
LEMMA AgreeUnlessDirty ==
  ASSUME MemTypeOK
  PROVE  CpuSeesNothingStale <=>
           \A w \in Words \ (Owned \cup loose) : Tag(w) # "dirty" => Agree(w)
  BY LayoutAssumption
     DEF MemTypeOK, Tags, CpuSeesNothingStale, Agree, CpuView, Tag

-----------------------------------------------------------------------------
MemoryInv ==
  /\ InputInv
  /\ OutputInv
  /\ InvalidatedInv
  /\ CpuSeesNothingStale

(* A quiet step within one command keeps the invariants of the memory, if  *)
(* what it newly counts as flushed is not dirty, and what it newly counts  *)
(* as invalidated agrees.                                                  *)
LEMMA QuietStep ==
  ASSUME IInv, TypeOK', \A w \in Words : Quiet(w),
         op' = op, loose' = loose, stray' = stray, launched => launched',
         \A c \in Columns : InpFlushed(c)' =>
           \/ InpFlushed(c)
           \/ \A w \in op.inp[c] : Tag(w)' # "dirty",
         \A c \in Columns : OutFlushed(c)' =>
           \/ OutFlushed(c)
           \/ \A w \in op.out[c] : Tag(w)' # "dirty",
         \A c \in Columns : pc' \in {"clean", "discard"} /\ c < col' =>
           \/ pc \in {"clean", "discard"} /\ c < col
           \/ \A w \in op.out[c] : Agree(w)'
  PROVE  MemoryInv'
  <1>1. Owned \subseteq Owned'
    BY DEF Owned, Out, AllWords
  <1>2. /\ MemTypeOK /\ MemTypeOK'
        /\ \A c \in Columns : op.inp[c] \subseteq Words /\ op.out[c] \subseteq Words
    BY DEF IInv, TypeOK, ColumnWords
  <1>3. \A w \in Words \ (Owned' \cup loose') : Tag(w)' # "dirty" => Agree(w)'
    BY <1>1, <1>2, AgreeUnlessDirty DEF IInv, Quiet
  <1>4. CpuSeesNothingStale'
    <2>1. MemTypeOK' /\ LineOf \in [Words -> Lines]
      BY <1>2, LayoutAssumption
    <2> QED
      BY <1>3, <2>1 DEF CpuSeesNothingStale, Agree, CpuView, Tag
  <1>5. InputInv'
    BY <1>1, <1>2, <1>3 DEF IInv, InputInv, Quiet, Agree
  <1>6. OutputInv'
    BY <1>2 DEF IInv, OutputInv, Quiet
  <1>7. InvalidatedInv'
    BY <1>2 DEF IInv, InvalidatedInv, Quiet, Agree
  <1> QED
    BY <1>4, <1>5, <1>6, <1>7 DEF MemoryInv

(* A command that returns leaves memory alone, and leaves loose whatever   *)
(* was its own and does not agree.                                         *)
LEMMA ReturnStep ==
  ASSUME IInv, TypeOK', NEW r, Return(r), UNCHANGED memVars,
         \A w \in loose \cup Owned :
           w \notin loose' /\ w \in Words => Agree(w)
  PROVE  MemoryInv'
  <1>1. Owned' = {} /\ pc' = "idle" /\ ~launched'
    BY DEF Return, Owned
  <1>2. InputInv' /\ OutputInv' /\ InvalidatedInv'
    BY <1>1 DEF InputInv, OutputInv, InvalidatedInv, InpFlushed, OutFlushed
  <1>3. \A w \in Words \ loose' : Tag(w) # "dirty" => Agree(w)
    BY AgreeUnlessDirty DEF IInv, TypeOK
  <1>4. CpuSeesNothingStale'
    BY <1>1, <1>3, LayoutAssumption
       DEF CpuSeesNothingStale, Agree, CpuView, Tag, memVars, IInv, TypeOK,
           MemTypeOK
  <1> QED
    BY <1>2, <1>4 DEF MemoryInv

-----------------------------------------------------------------------------
(* The control invariant.                                                  *)
LEMMA ControlStep ==
  ASSUME TypeOK, ControlInv, [Next]_vars
  PROVE  ControlInv'
  <1> USE DEF ControlInv, At, Goto
  <1>0. ColumnCount \in Nat \ {0} /\ Columns = 1 .. ColumnCount
    BY DispatchAssumption DEF Columns
  <1>1. CASE Transfer
    <2>1. /\ pc = "idle" /\ UNCHANGED <<pc, op, col, job, launched, todo>>
          /\ stray' \subseteq loose'
      BY <1>1 DEF Transfer, FillBuffer, UpdateBuffer, CopyBuffer, Write
    <2> QED
      BY <2>1 DEF Owned, Out
  <1>2. CASE Maintain
    BY <1>0, <1>2 DEF Maintain, FlushBuffer, InvalidateBuffer, Owned, Out
  <1>3. CASE \E k \in Kernels : Dispatch(k)
    BY <1>3 DEF Dispatch, Owned, Out
  <1>4. CASE \/ FlushFails \/ ConfigFails \/ FreeAfterError \/ FreeFails
             \/ InvalidateFails \/ Done
    <2>1. stray' \subseteq loose'
      BY <1>4 DEF FlushFails, ConfigFails, FreeAfterError, FreeFails,
           InvalidateFails, Done
    <2> QED
      BY <1>4, <2>1 DEF FlushFails, ConfigFails, FreeAfterError, FreeFails,
           InvalidateFails, Done, Return
  <1>5. CASE FlushInput \/ FlushOutput
    BY <1>5 DEF FlushInput, FlushOutput, Owned, Out
  <1>6. CASE SubmitFails
    BY <1>6 DEF SubmitFails, Owned, Out
  <1>7. CASE Submit
    <2>1. Out' = Out
      BY <1>7 DEF Submit, Out, AllWords
    <2>2. launched' /\ todo' = Out /\ pc' = "wait" /\ job' = "pending"
      BY <1>7, Zenon DEF Submit
    <2>3. todo' \subseteq Owned'
      BY <2>1, <2>2 DEF Owned
    <2>4. stray' \subseteq loose'
      BY <1>7 DEF Submit
    <2> QED
      BY <2>2, <2>3, <2>4
  <1>8. CASE Wait \/ WaitInterrupted \/ Poll \/ PollFails \/ Free
    BY <1>8 DEF Wait, WaitInterrupted, Poll, PollFails, Free, Owned, Out
  <1>9. CASE InvalidateClean \/ InvalidateDiscard
    BY <1>9 DEF InvalidateClean, InvalidateDiscard, Owned, Out
  <1>10. CASE DeviceStep
    BY <1>10
       DEF DeviceStep, DeviceWrite, JobEnds, JobCancelled, Owned, Out, AllWords
  <1>11. CASE CacheStep \/ \E w \in Words : StrayWrite(w)
    BY <1>11 DEF CacheStep, StrayWrite, ctlVars, Owned, Out
  <1>12. CASE \E w \in Words, v \in Values : HostStoreApart(w, v)
    BY <1>12 DEF HostStoreApart, HostStore, Owned, Out
  <1>13. CASE UNCHANGED vars
    BY <1>13 DEF vars, Owned, Out
  <1> QED
    BY <1>1, <1>2, <1>3, <1>4, <1>5, <1>6, <1>7, <1>8, <1>9, <1>10, <1>11,
       <1>12, <1>13 DEF Next, Driver, CommandStep

-----------------------------------------------------------------------------
(* The memory invariants, action by action.                                *)
LEMMA TransferStep ==
  ASSUME IInv, TypeOK', NEW S \in SUBSET Words, NEW f, Write(S, f)
  PROVE  MemoryInv'
  <1>1. /\ MemTypeOK /\ MemTypeOK' /\ Owned = {} /\ Owned' = {}
        /\ pc' = "idle" /\ ~launched' /\ loose \ S \subseteq loose'
    BY DEF IInv, TypeOK, ControlInv, Write, At, Owned
  <1>2. InputInv' /\ OutputInv' /\ InvalidatedInv'
    BY <1>1 DEF InputInv, OutputInv, InvalidatedInv, InpFlushed, OutFlushed
  <1>3. \A w \in Words \ loose : Tag(w) # "dirty" => Agree(w)
    BY <1>1, AgreeUnlessDirty DEF IInv
  <1>4. ASSUME NEW w \in Words \ loose', Tag(w)' # "dirty"
        PROVE  Agree(w)'
    <2>1. CASE CpuStore(S, f)
      <3>1. w \notin S
        BY <1>4, <2>1, LayoutAssumption DEF CpuStore, Tag, Touch
      <3> QED
        BY <1>1, <1>3, <1>4, <2>1, <3>1, StoreWord DEF Agree
    <2>2. CASE CpuStoreThrough(S, f)
      BY <1>1, <1>3, <1>4, <2>2, StoreThroughWord
    <2>3. CASE UNCHANGED <<memVars, loose>>
      BY <1>3, <1>4, <2>3 DEF Agree, CpuView, Tag, memVars
    <2> QED
      BY <2>1, <2>2, <2>3 DEF Write
  <1>5. CpuSeesNothingStale'
    BY <1>1, <1>4, LayoutAssumption
       DEF CpuSeesNothingStale, Agree, CpuView, Tag
  <1> QED
    BY <1>2, <1>5 DEF MemoryInv

LEMMA MaintainStep ==
  ASSUME IInv, TypeOK', NEW S \in Ranges,
         FlushBuffer(S) \/ InvalidateBuffer(S)
  PROVE  MemoryInv'
  <1> USE DEF At, Goto
  <1>0. MemTypeOK /\ S \subseteq Words /\ Columns = 1 .. ColumnCount
        /\ ColumnCount \in Nat \ {0}
    BY DispatchAssumption DEF IInv, TypeOK, Columns
  <1>1. CASE FlushBuffer(S)
    <2>1. \A w \in Words : Quiet(w)
      BY <1>0, <1>1, CleanWord, SameWord DEF FlushBuffer
    <2> QED
      BY <1>1, <2>1, QuietStep DEF FlushBuffer, InpFlushed, OutFlushed
  <1>2. CASE InvalidateBuffer(S)
    <2>1. /\ pc' = "clean" /\ ~launched' /\ col' = ColumnCount
          /\ UNCHANGED memVars /\ loose' = loose
          /\ \A c \in Columns : c < ColumnCount => op'.out[c] = {}
      BY <1>0, <1>2 DEF InvalidateBuffer, NoOp, Unused, IInv, ControlInv
    <2>2. Owned = {} /\ Owned' = {}
      BY <1>2, <2>1 DEF Owned, InvalidateBuffer, IInv, ControlInv
    <2>3. InputInv' /\ OutputInv' /\ InvalidatedInv'
      BY <2>1 DEF InputInv, OutputInv, InvalidatedInv, InpFlushed, OutFlushed
    <2>4. CpuSeesNothingStale'
      BY <2>1, <2>2 DEF IInv, CpuSeesNothingStale, Tag, memVars
    <2> QED
      BY <2>3, <2>4 DEF MemoryInv
  <1> QED
    BY <1>1, <1>2

LEMMA DispatchStep ==
  ASSUME IInv, TypeOK', NEW k \in Kernels, Dispatch(k)
  PROVE  MemoryInv'
  <1> USE DEF At, Goto
  <1>1. /\ UNCHANGED memVars /\ loose' = loose /\ ~launched /\ ~launched'
        /\ col' = 1 /\ pc' \in {"idle", "flushInp"}
        /\ Columns = 1 .. ColumnCount /\ ColumnCount \in Nat \ {0}
    BY DispatchAssumption DEF Dispatch, IInv, ControlInv, Columns
  <1>2. Owned = {} /\ Owned' = {}
    BY <1>1 DEF Owned
  <1>3. InputInv' /\ OutputInv' /\ InvalidatedInv'
    BY <1>1 DEF InputInv, OutputInv, InvalidatedInv, InpFlushed, OutFlushed
  <1>4. CpuSeesNothingStale'
    BY <1>1, <1>2 DEF IInv, CpuSeesNothingStale, Tag, memVars
  <1> QED
    BY <1>3, <1>4 DEF MemoryInv

LEMMA FlushStep ==
  ASSUME IInv, TypeOK', FlushInput \/ FlushOutput
  PROVE  MemoryInv'
  <1> USE DEF At, Goto
  <1>0. /\ MemTypeOK /\ Columns = 1 .. ColumnCount
        /\ ColumnCount \in Nat \ {0} /\ col \in Columns
        /\ ~launched
        /\ \A c \in Columns : op.inp[c] \subseteq Words /\ op.out[c] \subseteq Words
    BY DispatchAssumption
       DEF IInv, TypeOK, ControlInv, ColumnWords, Columns, FlushInput, FlushOutput
  <1>1. CASE FlushInput
    <2>1. \A w \in Words : Quiet(w)
      BY <1>0, <1>1, CleanWord DEF FlushInput
    <2>2. \A w \in op.inp[col] : Tag(w)' # "dirty"
      BY <1>0, <1>1, CleanWord DEF FlushInput, Touch
    <2>3. \A c \in Columns : InpFlushed(c)' => InpFlushed(c) \/ c = col
      BY <1>0, <1>1 DEF FlushInput, InpFlushed
    <2>4. \A c \in Columns : OutFlushed(c)' => OutFlushed(c)
      BY <1>0, <1>1 DEF FlushInput, OutFlushed
    <2>5. op' = op /\ UNCHANGED <<loose, stray>> /\ pc' = "flushOut"
      BY <1>1 DEF FlushInput
    <2> QED
      BY <1>0, <2>1, <2>2, <2>3, <2>4, <2>5, QuietStep
  <1>2. CASE FlushOutput
    <2>1. \A w \in Words : Quiet(w)
      BY <1>0, <1>2, CleanWord DEF FlushOutput
    <2>2. \A w \in op.out[col] : Tag(w)' # "dirty"
      BY <1>0, <1>2, CleanWord DEF FlushOutput, Touch
    <2>3. \A c \in Columns : OutFlushed(c)' => OutFlushed(c) \/ c = col
      BY <1>0, <1>2 DEF FlushOutput, OutFlushed
    <2>4. \A c \in Columns : InpFlushed(c)' => InpFlushed(c)
      BY <1>0, <1>2 DEF FlushOutput, InpFlushed
    <2>5. op' = op /\ UNCHANGED <<loose, stray>> /\ pc' = "flushInp"
      BY <1>2 DEF FlushOutput
    <2> QED
      BY <1>0, <2>1, <2>2, <2>3, <2>4, <2>5, QuietStep
  <1> QED
    BY <1>1, <1>2

LEMMA JobStep ==
  ASSUME IInv, TypeOK',
         \/ SubmitFails \/ Submit \/ Wait \/ WaitInterrupted
         \/ Poll \/ PollFails \/ Free \/ JobEnds \/ JobCancelled
  PROVE  MemoryInv'
  <1> USE DEF At, Goto
  <1>0. Columns = 1 .. ColumnCount /\ ColumnCount \in Nat \ {0}
        /\ col \in 1 .. ColumnCount + 1
    BY DispatchAssumption DEF IInv, TypeOK, Columns
  <1>1. UNCHANGED memVars /\ op' = op /\ UNCHANGED <<loose, stray>>
    BY DEF SubmitFails, Submit, Wait, WaitInterrupted, Poll, PollFails, Free,
         JobEnds, JobCancelled
  <1>2. \A w \in Words : Quiet(w)
    BY <1>1, SameWord
  <1>3. launched => launched'
    BY DEF SubmitFails, Submit, Wait, WaitInterrupted, Poll, PollFails, Free,
         JobEnds, JobCancelled
  <1>4. \A c \in Columns : InpFlushed(c)' => InpFlushed(c)
    BY <1>0 DEF SubmitFails, Submit, Wait, WaitInterrupted, Poll, PollFails,
         Free, JobEnds, JobCancelled, InpFlushed, IInv, ControlInv
  <1>5. \A c \in Columns : OutFlushed(c)' => OutFlushed(c)
    BY <1>0 DEF SubmitFails, Submit, Wait, WaitInterrupted, Poll, PollFails,
         Free, JobEnds, JobCancelled, OutFlushed, IInv, ControlInv
  <1>6. \A c \in Columns : pc' \in {"clean", "discard"} /\ c < col' =>
          pc \in {"clean", "discard"} /\ c < col
    BY <1>0 DEF SubmitFails, Submit, Wait, WaitInterrupted, Poll, PollFails,
         Free, JobEnds, JobCancelled
  <1> QED
    BY <1>1, <1>2, <1>3, <1>4, <1>5, <1>6, QuietStep

LEMMA InvalidateStep ==
  ASSUME IInv, TypeOK', InvalidateClean \/ InvalidateDiscard
  PROVE  MemoryInv'
  <1> USE DEF At, Goto
  <1>0. /\ MemTypeOK /\ Columns = 1 .. ColumnCount
        /\ ColumnCount \in Nat \ {0} /\ col \in Columns
        /\ \A c \in Columns : op.inp[c] \subseteq Words /\ op.out[c] \subseteq Words
    BY DispatchAssumption
       DEF IInv, TypeOK, ColumnWords, Columns, InvalidateClean, InvalidateDiscard
  <1>1. CASE InvalidateClean
    <2>1. \A w \in Words : Quiet(w)
      BY <1>0, <1>1, CleanWord DEF InvalidateClean
    <2>2. \A w \in op.out[col] : Tag(w)' # "dirty"
      BY <1>0, <1>1, CleanWord DEF InvalidateClean, Touch
    <2>3. \A c \in Columns : OutFlushed(c)' => OutFlushed(c) \/ c = col
      BY <1>0, <1>1 DEF InvalidateClean, OutFlushed
    <2>4. \A c \in Columns : InpFlushed(c)' => InpFlushed(c)
      BY <1>0, <1>1 DEF InvalidateClean, InpFlushed
    <2>5. op' = op /\ UNCHANGED <<loose, stray>> /\ col' = col /\ pc = "clean"
          /\ (launched => launched')
      BY <1>1 DEF InvalidateClean
    <2> QED
      BY <1>0, <2>1, <2>2, <2>3, <2>4, <2>5, QuietStep
  <1>2. CASE InvalidateDiscard
    <2>0. \A w \in op.out[col] : Tag(w) # "dirty"
      BY <1>0, <1>2 DEF InvalidateDiscard, IInv, OutputInv, OutFlushed
    <2>1. \A w \in Words : LineOf[w] \in Touch(op.out[col]) => Tag(w) # "dirty"
      BY <2>0 DEF Touch, Tag
    <2>2. \A w \in Words : Quiet(w)
      BY <1>0, <1>2, <2>1, DiscardWord DEF InvalidateDiscard
    <2>3. \A w \in op.out[col] : Agree(w)'
      BY <1>0, <1>2, <2>1, DiscardWord DEF InvalidateDiscard, Touch
    <2>4. \A c \in Columns : OutFlushed(c)' => OutFlushed(c)
      BY <1>0, <1>2 DEF InvalidateDiscard, OutFlushed
    <2>5. \A c \in Columns : InpFlushed(c)' => InpFlushed(c)
      BY <1>0, <1>2 DEF InvalidateDiscard, InpFlushed
    <2>6. op' = op /\ UNCHANGED <<loose, stray>> /\ col' = col + 1 /\ pc = "discard"
          /\ (launched => launched')
      BY <1>2 DEF InvalidateDiscard
    <2> QED
      BY <1>0, <2>2, <2>3, <2>4, <2>5, <2>6, QuietStep
  <1> QED
    BY <1>1, <1>2

LEMMA LeaveStep ==
  ASSUME IInv, TypeOK',
         \/ FlushFails \/ ConfigFails \/ FreeAfterError \/ FreeFails
         \/ InvalidateFails \/ Done
  PROVE  MemoryInv'
  <1> USE DEF At, Goto
  <1>0. /\ Columns = 1 .. ColumnCount /\ ColumnCount \in Nat \ {0}
        /\ col \in 1 .. ColumnCount + 1
        /\ \A c \in Columns : op.out[c] \subseteq Words
    BY DispatchAssumption DEF IInv, TypeOK, ColumnWords, Columns
  <1>1. CASE FlushFails \/ ConfigFails
    <2>1. ~launched
      BY <1>1 DEF FlushFails, ConfigFails, IInv, ControlInv
    <2> QED
      BY <1>1, <2>1, ReturnStep DEF FlushFails, ConfigFails, Owned
  <1>2. CASE FreeAfterError \/ FreeFails
    BY <1>2, ReturnStep DEF FreeAfterError, FreeFails
  <1>3. CASE InvalidateFails
    <2>1. \A w \in Owned : w \notin loose' => Agree(w)
      <3>1. ASSUME NEW w \in Owned, w \notin loose'
            PROVE  Agree(w)
        <4>1. launched /\ loose' = loose \cup OutFrom(col)
          BY <1>3, <3>1 DEF InvalidateFails, Owned
        <4>2. PICK c \in Columns : w \in op.out[c]
          BY <3>1 DEF Owned, Out, AllWords
        <4>3. c < col
          BY <1>0, <3>1, <4>1, <4>2 DEF OutFrom
        <4>4. w \notin stray
          BY <3>1, <4>1 DEF IInv, ControlInv
        <4> QED
          BY <1>3, <4>2, <4>3, <4>4
             DEF InvalidateFails, IInv, InvalidatedInv, Agree
      <3> QED
        BY <3>1
    <2>2. loose \subseteq loose'
      BY <1>3 DEF InvalidateFails
    <2> QED
      BY <1>3, <2>1, <2>2, ReturnStep DEF InvalidateFails
  <1>4. CASE Done
    <2>1. \A c \in Columns : c < col
      BY <1>0, <1>4 DEF Done
    <2>2. \A w \in Out \ stray : Agree(w)
      BY <1>4, <2>1
         DEF Done, IInv, InvalidatedInv, Agree, Out, AllWords
    <2>3. \A w \in loose \cup Owned : w \notin loose' => Agree(w)
      BY <1>4, <2>2 DEF Done, Owned
    <2> QED
      BY <1>4, <2>3, ReturnStep DEF Done
  <1> QED
    BY <1>1, <1>2, <1>3, <1>4

LEMMA WriteStep ==
  ASSUME IInv, TypeOK', NEW o \in Words, DeviceWrite(o)
  PROVE  MemoryInv'
  <1>0. /\ MemTypeOK /\ o \in Owned
        /\ \A c \in Columns : op.inp[c] \subseteq Words /\ op.out[c] \subseteq Words
        /\ pc \notin {"clean", "discard"}
    BY DEF IInv, TypeOK, ControlInv, ColumnWords, DeviceWrite
  <1>1. /\ UNCHANGED <<pc, op, col, launched, loose, stray, cached, tag>>
        /\ \A w \in Words \ {o} : mem'[w] = mem[w]
    BY <1>0 DEF DeviceWrite, DeviceStore, MemTypeOK
  <1>2. Owned' = Owned
    BY <1>1 DEF Owned, Out
  <1>3. InputInv'
    BY <1>0, <1>1, <1>2 DEF IInv, InputInv, InpFlushed, CpuView, Tag
  <1>4. OutputInv'
    BY <1>1 DEF IInv, OutputInv, OutFlushed, Tag
  <1>5. InvalidatedInv'
    BY <1>0, <1>1 DEF InvalidatedInv
  <1>6. CpuSeesNothingStale'
    BY <1>0, <1>1, <1>2 DEF IInv, CpuSeesNothingStale, Tag
  <1> QED
    BY <1>3, <1>4, <1>5, <1>6 DEF MemoryInv

LEMMA HostStep ==
  ASSUME IInv, TypeOK', NEW x \in Words, NEW v \in Values, HostStoreApart(x, v)
  PROVE  MemoryInv'
  <1> DEFINE f == [y \in {x} |-> v]
  <1>0. /\ MemTypeOK /\ MemTypeOK'
        /\ \A c \in Columns : op.inp[c] \subseteq Words /\ op.out[c] \subseteq Words
    BY DEF IInv, TypeOK, ColumnWords
  <1>1. /\ CpuStore({x}, f) /\ x \notin Inp \cup Out
        /\ LineOf[x] \notin Touch(Out) /\ loose \ {x} \subseteq loose'
        /\ UNCHANGED <<pc, op, col, launched, stray>>
    BY DEF HostStoreApart, HostStore
  <1> HIDE DEF f
  <1>2. Owned' = Owned /\ Owned \subseteq Out
    BY <1>1 DEF Owned, Out
  <1>3. \A w \in Words \ {x} :
          /\ mem'[w] = mem[w]
          /\ CpuView(w)' = CpuView(w)
          /\ LineOf[w] # LineOf[x] => Tag(w)' = Tag(w)
          /\ Tag(w)' # "dirty" => Tag(w) # "dirty"
    <2>1. Touch({x}) = {LineOf[x]}
      BY DEF Touch
    <2> QED
      BY <1>0, <1>1, <2>1, StoreWord
  <1>4. \A c \in Columns : \A w \in op.out[c] :
          LineOf[w] # LineOf[x] /\ w # x
    BY <1>1 DEF Touch, Out, AllWords
  <1>5. \A c \in Columns : x \notin op.inp[c]
    BY <1>1 DEF Inp, AllWords
  <1>6. InputInv'
    BY <1>0, <1>1, <1>2, <1>3, <1>5 DEF IInv, InputInv, InpFlushed
  <1>7. OutputInv'
    BY <1>0, <1>1, <1>3, <1>4 DEF IInv, OutputInv, OutFlushed
  <1>8. InvalidatedInv'
    BY <1>0, <1>1, <1>3, <1>4 DEF IInv, InvalidatedInv
  <1>9. Tag(x)' = "dirty"
    BY <1>1, LayoutAssumption DEF CpuStore, Tag, Touch
  <1>10. \A w \in Words \ (Owned' \cup loose') : Tag(w)' # "dirty" => Agree(w)'
    BY <1>0, <1>1, <1>2, <1>3, <1>9, AgreeUnlessDirty DEF IInv, Agree
  <1>11. CpuSeesNothingStale'
    BY <1>0, <1>10, LayoutAssumption
       DEF CpuSeesNothingStale, Agree, CpuView, Tag
  <1> QED
    BY <1>6, <1>7, <1>8, <1>11 DEF MemoryInv

(* A job that could not be freed writes to words that are loose.           *)
LEMMA StrayStep ==
  ASSUME IInv, TypeOK', NEW x \in Words, StrayWrite(x)
  PROVE  MemoryInv'
  <1>0. /\ MemTypeOK /\ x \in stray /\ x \in loose
        /\ \A c \in Columns : op.inp[c] \subseteq Words /\ op.out[c] \subseteq Words
    BY DEF IInv, TypeOK, ControlInv, ColumnWords, StrayWrite
  <1>1. /\ UNCHANGED <<pc, op, col, launched, loose, stray, cached, tag>>
        /\ \A w \in Words \ {x} : mem'[w] = mem[w]
    BY <1>0 DEF StrayWrite, DeviceStore, MemTypeOK, ctlVars
  <1>2. Owned' = Owned
    BY <1>1 DEF Owned, Out
  <1>3. InputInv'
    BY <1>0, <1>1, <1>2 DEF IInv, InputInv, InpFlushed, CpuView, Tag
  <1>4. OutputInv'
    BY <1>1 DEF IInv, OutputInv, OutFlushed, Tag
  <1>5. InvalidatedInv'
    BY <1>0, <1>1 DEF IInv, InvalidatedInv, CpuView, Tag
  <1>6. CpuSeesNothingStale'
    BY <1>0, <1>1, <1>2 DEF IInv, CpuSeesNothingStale, Tag
  <1> QED
    BY <1>3, <1>4, <1>5, <1>6 DEF MemoryInv

LEMMA EvictionStep ==
  ASSUME IInv, TypeOK', CacheStep \/ UNCHANGED vars
  PROVE  MemoryInv'
  <1>1. \A w \in Words : Quiet(w)
    BY CacheWord, SameWord DEF CacheStep, IInv, TypeOK, vars, memVars
  <1>2. UNCHANGED <<pc, op, col, launched, loose, stray>>
    BY DEF CacheStep, ctlVars, vars
  <1> QED
    BY <1>1, <1>2, QuietStep DEF InpFlushed, OutFlushed

-----------------------------------------------------------------------------
LEMMA InitIInv == Init => IInv
  <1> SUFFICES ASSUME Init PROVE IInv
    OBVIOUS
  <1>1. TypeOK
    <2>1. MemTypeOK
      BY LayoutAssumption DEF Init, MemInit, MemTypeOK, NoCopy, Tags
    <2>2. op \in [inp : ColumnWords, out : ColumnWords]
      BY DEF Init, NoOp, Unused, ColumnWords
    <2>3. col \in 1 .. ColumnCount + 1
      BY DispatchAssumption DEF Init
    <2> QED
      BY <2>1, <2>2, <2>3, Zenon DEF Init, TypeOK, PcLabels
  <1>2. ControlInv /\ InputInv /\ OutputInv /\ InvalidatedInv
    BY DEF Init, ControlInv, InputInv, InpFlushed, OutputInv, OutFlushed,
         InvalidatedInv
  <1>3. CpuSeesNothingStale
    BY LayoutAssumption DEF Init, MemInit, CpuSeesNothingStale, Tag
  <1> QED
    BY <1>1, <1>2, <1>3 DEF IInv

LEMMA NextIInv == IInv /\ [Next]_vars => IInv'
  <1> SUFFICES ASSUME IInv, [Next]_vars PROVE IInv'
    OBVIOUS
  <1>1. TypeOK' /\ ControlInv'
    BY TypeStep, ControlStep DEF IInv
  <1>2. MemoryInv'
    <2>1. CASE Transfer
      <3>1. ASSUME NEW S \in Ranges, NEW f, Write(S, f)
            PROVE  MemoryInv'
        BY <1>1, <3>1, TransferStep, DispatchAssumption
      <3>2. ASSUME NEW m \in CopyMaps, CopyBuffer(m)
            PROVE  MemoryInv'
        BY <1>1, <3>2, TransferStep, DispatchAssumption DEF CopyBuffer
      <3> QED
        BY <2>1, <3>1, <3>2 DEF Transfer, FillBuffer, UpdateBuffer
    <2>2. CASE Maintain
      BY <1>1, <2>2, MaintainStep DEF Maintain
    <2>3. CASE \E k \in Kernels : Dispatch(k)
      BY <1>1, <2>3, DispatchStep
    <2>4. CASE FlushInput \/ FlushOutput
      BY <1>1, <2>4, FlushStep
    <2>5. CASE \/ SubmitFails \/ Submit \/ Wait \/ WaitInterrupted
               \/ Poll \/ PollFails \/ Free \/ JobEnds \/ JobCancelled
      BY <1>1, <2>5, JobStep
    <2>6. CASE InvalidateClean \/ InvalidateDiscard
      BY <1>1, <2>6, InvalidateStep
    <2>7. CASE \/ FlushFails \/ ConfigFails \/ FreeAfterError \/ FreeFails
               \/ InvalidateFails \/ Done
      BY <1>1, <2>7, LeaveStep
    <2>8. CASE \E w \in Words : DeviceWrite(w)
      BY <1>1, <2>8, WriteStep
    <2>9. CASE \E w \in Words, v \in Values : HostStoreApart(w, v)
      BY <1>1, <2>9, HostStep
    <2>10. CASE CacheStep \/ UNCHANGED vars
      BY <1>1, <2>10, EvictionStep
    <2>11. CASE \E w \in Words : StrayWrite(w)
      BY <1>1, <2>11, StrayStep
    <2> QED
      BY <2>1, <2>2, <2>3, <2>4, <2>5, <2>6, <2>7, <2>8, <2>9, <2>10, <2>11
         DEF Next, Driver, CommandStep, DeviceStep
  <1> QED
    BY <1>1, <1>2 DEF IInv, MemoryInv

(* The inductive invariant holds of every behaviour of the driver.         *)
THEOREM Invariance == Spec => []IInv
  BY InitIInv, NextIInv, PTL DEF Spec

(* The variables keep their types, whatever the layout and the kernels.    *)
THEOREM TypeCorrect == Spec => []TypeOK
  <1>1. IInv => TypeOK
    BY DEF IInv
  <1> QED
    BY <1>1, Invariance, PTL

(* The flush before the job (command_buffer.c:346-359) suffices: the CGRA  *)
(* reads what the CPU last wrote, in spite of fetches, evictions and       *)
(* stores next to its inputs.                                              *)
THEOREM DeviceReadsFreshTheorem == Spec => []DeviceReadsFresh
  <1>1. IInv => DeviceReadsFresh
    <2> SUFFICES ASSUME IInv, launched, pc \in {"wait", "poll", "free"},
                        NEW w \in Inp, w \notin Out \cup loose
                 PROVE  mem[w] = CpuView(w)
      BY DEF DeviceReadsFresh
    <2>1. PICK c \in Columns : w \in op.inp[c]
      BY DEF Inp, AllWords
    <2>2. Owned = Out
      BY DEF Owned
    <2> QED
      BY <2>1, <2>2 DEF IInv, InputInv, InpFlushed
  <1> QED
    BY <1>1, Invariance, PTL

(* The same flush keeps the cache from writing over the outputs.           *)
THEOREM NoWriteBackTheorem == Spec => []NoWriteBackOverOutput
  <1>1. IInv => NoWriteBackOverOutput
    BY DEF IInv, OutputInv, OutFlushed, NoWriteBackOverOutput, Owned, Out,
         AllWords
  <1> QED
    BY <1>1, Invariance, PTL

(* After a dispatch without an error the CPU sees what the CGRA left.      *)
THEOREM NothingStaleTheorem == Spec => []CpuSeesNothingStale
  <1>1. IInv => CpuSeesNothingStale
    BY DEF IInv
  <1> QED
    BY <1>1, Invariance, PTL

(* No line is dropped before it is clean: the CPU's stores next to an      *)
(* output survive its invalidation (buffer.c:175-191).                     *)
THEOREM NothingLostTheorem == Spec => NothingCpuWroteIsLost
  <1>1. ASSUME IInv, InvalidateDiscard, NEW w \in Words \ (Owned \cup loose)
        PROVE  CpuView(w)' = CpuView(w)
    <2>1. \A x \in op.out[col] : Tag(x) # "dirty"
      BY <1>1 DEF InvalidateDiscard, At, IInv, OutputInv, OutFlushed
    <2>2. MemTypeOK /\ (LineOf[w] \in Touch(op.out[col]) => Tag(w) # "dirty")
      BY <1>1, <2>1 DEF IInv, TypeOK, Touch, Tag
    <2>3. Quiet(w)
      BY <1>1, <2>2, DiscardWord DEF InvalidateDiscard
    <2>4. Tag(w) # "dirty" => Agree(w)
      BY <1>1, <2>2, AgreeUnlessDirty DEF IInv, Owned
    <2> QED
      BY <2>3, <2>4 DEF Quiet
  <1>2. IInv /\ [Next]_vars =>
          [InvalidateDiscard =>
             \A w \in Words \ (Owned \cup loose) : CpuView(w)' = CpuView(w)]_vars
    BY <1>1
  <1> QED
    BY <1>2, Invariance, PTL DEF Spec, NothingCpuWroteIsLost

(* What the CGRA wrote stays in memory until the dispatch returns.         *)
THEOREM OutputsSurviveTheorem == Spec => OutputsSurvive
  <1>1. ASSUME IInv, Next, NEW w \in Owned \ (todo \cup stray)
        PROVE  mem'[w] = mem[w]
    <2>0. MemTypeOK /\ w \in Words /\ launched /\ pc # "idle"
      BY <1>1, ColumnsAreWords DEF IInv, TypeOK, ControlInv, Owned
    <2>1. Tag(w) # "dirty"
      BY <1>1, <2>0 DEF IInv, OutputInv, OutFlushed, Owned, Out, AllWords
    <2>2. Quiet(w) => mem'[w] = mem[w]
      BY <2>1 DEF Quiet
    <2>3. CASE DeviceStep
      BY <1>1, <2>0, <2>3 DEF DeviceStep, DeviceWrite, DeviceStore, JobEnds,
           JobCancelled, memVars, MemTypeOK
    <2>4. CASE \E x \in Words, v \in Values : HostStoreApart(x, v)
      BY <2>4 DEF HostStoreApart, HostStore, CpuStore
    <2>5. CASE CacheStep
      BY <2>0, <2>2, <2>5, CacheWord DEF CacheStep
    <2>6. CASE Driver
      <3>1. UNCHANGED mem \/ \E L : Clean(L)
        BY <2>0, <2>6
           DEF Driver, Transfer, FillBuffer, UpdateBuffer, CopyBuffer, Write,
               Maintain, FlushBuffer, InvalidateBuffer, Dispatch, At,
               CommandStep, FlushInput, FlushOutput, FlushFails, ConfigFails,
               SubmitFails, Submit, Wait, WaitInterrupted, Poll, PollFails,
               Free, FreeAfterError, FreeFails, InvalidateClean,
               InvalidateDiscard, InvalidateFails, Done, Discard, memVars
      <3> QED
        BY <2>0, <2>2, <3>1, CleanWord
    <2>7. CASE \E x \in Words : StrayWrite(x)
      BY <1>1, <2>0, <2>7 DEF StrayWrite, DeviceStore, MemTypeOK
    <2> QED
      BY <1>1, <2>3, <2>4, <2>5, <2>6, <2>7 DEF Next
  <1>2. IInv /\ [Next]_vars =>
          [\A w \in Owned \ (todo \cup stray) : mem'[w] = mem[w]]_vars
    BY <1>1
  <1> QED
    BY <1>2, Invariance, PTL DEF Spec, OutputsSurvive

-----------------------------------------------------------------------------
(* The driver implements CoherentMemory.  A step is shown to be one of its *)
(* steps by what it does to the words that are not loose.                  *)
Keeps(S) == \A w \in Words \ (S \cup loose) : OneValue'[w] = OneValue[w]

LEMMA KeepsIsKeepExcept ==
  ASSUME TypeOK', NEW S, Keeps(S)
  PROVE  Coherent!KeepExcept(S)
  <1>1. OneValue' \in [Words -> Values]
    BY LayoutAssumption DEF TypeOK, MemTypeOK, OneValue, CpuView, Tag
  <1> QED
    BY <1>1 DEF Keeps, Coherent!KeepExcept

(* A quiet step that leaves the kernel and the loose words alone.          *)
LEMMA QuietKeeps ==
  ASSUME IInv, \A w \in Words : Quiet(w), Owned' = Owned, loose' = loose
  PROVE  Keeps({})
  <1>1. \A w \in Owned : Tag(w) # "dirty"
    BY DEF IInv, OutputInv, OutFlushed, Owned, Out, AllWords
  <1>2. \A w \in Words \ (Owned \cup loose) : Tag(w) = "dirty" \/ Agree(w)
    BY AgreeUnlessDirty DEF IInv, TypeOK
  <1>3. ASSUME NEW w \in Words \ loose
        PROVE  OneValue'[w] = OneValue[w]
    <2>1. CASE w \in Owned
      BY <1>1, <1>3, <2>1 DEF Quiet, OneValue
    <2>2. CASE w \notin Owned
      BY <1>2, <1>3, <2>2 DEF Quiet, OneValue
    <2> QED
      BY <2>1, <2>2
  <1> QED
    BY <1>3 DEF Keeps

LEMMA QuietRefines ==
  ASSUME IInv, TypeOK', \A w \in Words : Quiet(w),
         UNCHANGED <<op, launched, todo, loose, stray>>
  PROVE  Coherent!Next
  <1>1. Owned' = Owned /\ Inp' = Inp
    BY DEF Owned, Out, Inp
  <1>2. Coherent!KeepExcept({})
    BY <1>1, QuietKeeps, KeepsIsKeepExcept
  <1>3. loose' = (loose \ {}) \cup stray
    BY DEF IInv, ControlInv
  <1>4. Coherent!Settle({})
    BY <1>1, <1>2, <1>3 DEF Coherent!Settle, Coherent!kernelVars
  <1> QED
    BY <1>4 DEF Coherent!Next

(* A returning command: memory stays, and what was owned either agrees or  *)
(* becomes loose.                                                          *)
LEMMA ReturnKeeps ==
  ASSUME IInv, NEW r, Return(r), UNCHANGED memVars,
         \A w \in (loose \cup Owned) : w \notin loose' => Agree(w),
         loose' \subseteq loose \cup Owned
  PROVE  Keeps({})
  <1>1. Owned' = {}
    BY DEF Return, Owned
  <1>2. ASSUME NEW w \in Words \ loose
        PROVE  OneValue'[w] = OneValue[w]
    <2>1. CpuView(w)' = CpuView(w) /\ mem' = mem
      BY DEF CpuView, Tag, memVars
    <2> QED
      BY <1>1, <1>2, <2>1 DEF OneValue, Agree
  <1> QED
    BY <1>2 DEF Keeps

LEMMA LeaveRefines ==
  ASSUME IInv, TypeOK',
         \/ FlushFails \/ ConfigFails \/ FreeAfterError \/ FreeFails
         \/ InvalidateFails \/ Done
  PROVE  Coherent!Next
  <1> USE DEF At, Goto
  <1>0. /\ Columns = 1 .. ColumnCount /\ ColumnCount \in Nat \ {0}
        /\ col \in 1 .. ColumnCount + 1 /\ Out \subseteq Words
        /\ (launched => Owned = Out) /\ (~launched => Owned = {})
    BY DispatchAssumption, ColumnsAreWords DEF IInv, TypeOK, Columns, Owned
  <1>1. ASSUME Keeps({}), NEW r, Return(r), launched,
               NEW S \in SUBSET Out, loose' = loose \cup S,
               NEW R \in SUBSET (S \cap todo), stray' = stray \cup R
        PROVE  Coherent!Next
    <2>1. S \in SUBSET Words /\ R \in SUBSET Words
      BY <1>0
    <2>2. Coherent!Fail(S, R)
      BY <1>0, <1>1, <2>1, KeepsIsKeepExcept
         DEF Coherent!Fail, Coherent!Stop, Return, Owned
    <2> QED
      BY <1>0, <2>2 DEF Coherent!Next
  <1>2. ASSUME Keeps({}), NEW r, Return(r), ~launched, stray' = stray,
               \E S \in SUBSET Words : loose' = (loose \ S) \cup stray
        PROVE  Coherent!Next
    <2>1. PICK S \in SUBSET Words : loose' = (loose \ S) \cup stray
      BY <1>2
    <2>2. ~launched' /\ Owned' = {} /\ todo' = {} /\ Owned = {} /\ todo = {}
      BY <1>0, <1>2 DEF Return, Owned, IInv, ControlInv
    <2>3. (launched' <=> launched) /\ launched' = FALSE /\ launched = FALSE
      BY <1>2, <2>2, Zenon DEF IInv, TypeOK, Return
    <2>4. Coherent!Settle(S)
      BY <1>2, <2>1, <2>2, <2>3, KeepsIsKeepExcept
         DEF Coherent!Settle, Coherent!kernelVars
    <2> QED
      BY <2>4 DEF Coherent!Next
  <1>3. CASE FlushFails \/ ConfigFails
    <2>1. ~launched
      BY <1>3 DEF FlushFails, ConfigFails, IInv, ControlInv
    <2>2. Return("error") /\ UNCHANGED memVars /\ UNCHANGED <<loose, stray>>
      BY <1>3 DEF FlushFails, ConfigFails
    <2>3. Keeps({})
      BY <1>0, <2>1, <2>2, ReturnKeeps
    <2>4. loose' = (loose \ {}) \cup stray
      BY <2>2 DEF IInv, ControlInv
    <2> QED
      BY <1>2, <2>1, <2>2, <2>3, <2>4
  <1>4. CASE FreeAfterError \/ FreeFails
    <2>1. /\ Return("error") /\ UNCHANGED memVars /\ loose' = loose \cup Owned
          /\ stray' \in {stray, stray \cup todo}
      BY <1>4 DEF FreeAfterError, FreeFails
    <2>2. Keeps({})
      BY <2>1, ReturnKeeps
    <2>3. CASE launched
      <3>1. PICK R \in {{}, todo} : stray' = stray \cup R
        BY <2>1
      <3>2. R \in SUBSET (Out \cap todo)
        BY <1>0, <2>3 DEF IInv, ControlInv
      <3> QED
        BY <1>0, <1>1, <2>1, <2>2, <2>3, <3>1, <3>2
    <2>4. CASE ~launched
      <3>1. todo = {} /\ stray' = stray
        BY <1>0, <2>1, <2>4 DEF IInv, ControlInv
      <3>2. loose' = (loose \ {}) \cup stray
        BY <1>0, <2>1, <2>4 DEF IInv, ControlInv
      <3> QED
        BY <1>2, <2>1, <2>2, <2>4, <3>1, <3>2
    <2> QED
      BY <2>3, <2>4
  <1>5. CASE InvalidateFails
    <2>1. Return("error") /\ UNCHANGED memVars /\ stray' = stray
          /\ (launched => loose' = loose \cup OutFrom(col))
          /\ (~launched => loose' = loose)
      BY <1>5 DEF InvalidateFails
    <2>2. OutFrom(col) \subseteq Out
      BY DEF OutFrom, Out, AllWords
    <2>3. \A w \in Out : w \notin OutFrom(col) /\ w \notin loose => Agree(w)
      <3>1. ASSUME NEW w \in Out, w \notin OutFrom(col), w \notin loose
            PROVE  Agree(w)
        <4>1. PICK c \in Columns : w \in op.out[c]
          BY <3>1 DEF Out, AllWords
        <4>2. c < col
          BY <1>0, <3>1, <4>1 DEF OutFrom
        <4>3. w \notin stray
          BY <3>1 DEF IInv, ControlInv
        <4> QED
          BY <1>5, <4>1, <4>2, <4>3
             DEF InvalidateFails, IInv, InvalidatedInv, Agree
      <3> QED
        BY <3>1
    <2>4. Keeps({})
      BY <1>0, <2>1, <2>2, <2>3, ReturnKeeps
    <2>5. CASE launched
      <3>1. stray' = stray \cup {} /\ {} \in SUBSET (OutFrom(col) \cap todo)
        BY <2>1
      <3> QED
        BY <1>1, <2>1, <2>2, <2>4, <2>5, <3>1
    <2>6. CASE ~launched
      <3>1. loose' = (loose \ {}) \cup stray
        BY <2>1, <2>6 DEF IInv, ControlInv
      <3> QED
        BY <1>2, <2>1, <2>4, <2>6, <3>1
    <2> QED
      BY <2>5, <2>6
  <1>6. CASE Done
    <2>1. /\ Return("ok") /\ UNCHANGED memVars /\ stray' = stray
          /\ loose' = (loose \ Out) \cup stray
      BY <1>6 DEF Done
    <2>2. \A w \in Out \ stray : Agree(w)
      BY <1>0, <1>6 DEF Done, IInv, InvalidatedInv, Agree, Out, AllWords
    <2>3. Keeps({})
      <3>1. stray \subseteq loose
        BY DEF IInv, ControlInv
      <3> QED
        BY <1>0, <2>1, <2>2, <3>1, ReturnKeeps
    <2>4. CASE launched
      <3>1. todo = {}
        BY <1>6 DEF Done, IInv, ControlInv
      <3>2. Coherent!Finish
        BY <1>0, <2>1, <2>3, <2>4, <3>1, KeepsIsKeepExcept
           DEF Coherent!Finish, Coherent!Stop, Return, Owned
      <3> QED
        BY <3>2 DEF Coherent!Next
    <2>5. CASE ~launched
      BY <1>0, <1>2, <2>1, <2>3, <2>5
    <2> QED
      BY <2>4, <2>5
  <1> QED
    BY <1>3, <1>4, <1>5, <1>6

LEMMA StoreRefines ==
  ASSUME IInv, TypeOK', NEW S \in SUBSET Words, S \cap (Inp \cup Out) = {},
         \A w \in Words \ S : CpuView(w)' = CpuView(w),
         \A w \in Owned : mem'[w] = mem[w],
         loose' = (loose \ S) \cup stray,
         UNCHANGED <<op, launched, todo, stray>>
  PROVE  Coherent!Next
  <1>1. Owned' = Owned /\ Inp' = Inp
    BY DEF Owned, Out, Inp
  <1>2. Keeps(S)
    BY <1>1 DEF Keeps, OneValue, IInv, ControlInv
  <1>3. S \cap ((IF launched THEN Inp ELSE {}) \cup Owned) = {}
    BY DEF Owned
  <1>4. Coherent!Store(S)
    BY <1>1, <1>2, <1>3, KeepsIsKeepExcept
       DEF Coherent!Store, Coherent!kernelVars
  <1> QED
    BY <1>4 DEF Coherent!Next

LEMMA TransferRefines ==
  ASSUME IInv, TypeOK', NEW S \in SUBSET Words, NEW f, Write(S, f)
  PROVE  Coherent!Next
  <1>1. Owned = {} /\ Inp = {} /\ Out = {}
    BY DEF Write, At, IInv, ControlInv, Owned, Inp, Out, AllWords, NoOp,
         Unused
  <1>2. CASE /\ CpuStore(S, f) \/ CpuStoreThrough(S, f)
             /\ loose' = (loose \ S) \cup stray
    <2>1. \A w \in Words \ S : CpuView(w)' = CpuView(w)
      BY <1>2, StoreWord, StoreThroughWord DEF IInv, TypeOK
    <2> QED
      BY <1>1, <1>2, <2>1, StoreRefines DEF Write
  <1>3. CASE UNCHANGED <<memVars, loose>>
    BY <1>3, SameWord, QuietRefines DEF Write
  <1> QED
    BY <1>2, <1>3 DEF Write

LEMMA HostRefines ==
  ASSUME IInv, TypeOK', NEW x \in Words, NEW v \in Values, HostStoreApart(x, v)
  PROVE  Coherent!Next
  <1> DEFINE f == [y \in {x} |-> v]
  <1>1. CpuStore({x}, f) /\ MemTypeOK /\ {x} \in SUBSET Words
    BY DEF HostStoreApart, HostStore, IInv, TypeOK
  <1> HIDE DEF f
  <1>2. \A w \in Words \ {x} : CpuView(w)' = CpuView(w)
    BY <1>1, StoreWord
  <1>3. mem' = mem
    BY <1>1 DEF CpuStore
  <1>4. {x} \cap (Inp \cup Out) = {}
    BY DEF HostStoreApart, HostStore
  <1> QED
    BY <1>1, <1>2, <1>3, <1>4, StoreRefines DEF HostStoreApart, HostStore

LEMMA SubmitRefines ==
  ASSUME IInv, TypeOK', Submit
  PROVE  Coherent!Next
  <1>0. /\ MemTypeOK /\ Columns = 1 .. ColumnCount
        /\ ColumnCount \in Nat \ {0} /\ col \in 1 .. ColumnCount + 1
        /\ col \notin Columns /\ pc = "flushInp"
        /\ UNCHANGED <<mem, cached, tag, op, loose, stray>>
        /\ launched' /\ todo' = Out
    BY DispatchAssumption, Zenon DEF IInv, TypeOK, Columns, Submit, At, memVars
  <1>1. ~launched /\ launched = FALSE /\ launched' = TRUE /\ Owned = {}
    BY <1>0, Zenon DEF IInv, ControlInv, TypeOK, Owned, Submit
  <1>2. Out' = Out /\ Inp' = Inp /\ Owned' = Out
    BY <1>0 DEF Owned, Out, Inp, AllWords
  <1>3. \A c \in Columns : c < col
    BY <1>0
  <1>4. \A w \in Out : Tag(w) # "dirty"
    BY <1>0, <1>3 DEF IInv, OutputInv, OutFlushed, Out, AllWords
  <1>5. \A w \in Out : w \in Words /\ w \notin loose => Agree(w)
    BY <1>0, <1>1, <1>4, AgreeUnlessDirty DEF IInv
  <1>6. \A w \in Words : CpuView(w)' = CpuView(w)
    BY <1>0 DEF CpuView, Tag
  <1>7. Keeps({})
    BY <1>0, <1>1, <1>2, <1>5, <1>6 DEF Keeps, OneValue, Agree
  <1>8. Coherent!Start(Inp, Out)
    BY <1>0, <1>1, <1>2, <1>7, KeepsIsKeepExcept DEF Coherent!Start
  <1>9. Inp \in SUBSET Words /\ Out \in SUBSET Words
    BY ColumnsAreWords DEF IInv
  <1> QED
    BY <1>8, <1>9 DEF Coherent!Next

LEMMA ComputeRefines ==
  ASSUME IInv, TypeOK', NEW o \in Words, DeviceWrite(o)
  PROVE  Coherent!Next
  <1>0. /\ MemTypeOK /\ o \in Owned /\ o \in todo /\ launched
        /\ pc \in {"wait", "poll", "free"}
        /\ Inp \subseteq Words
    BY ColumnsAreWords
       DEF IInv, TypeOK, ControlInv, PcLabels, DeviceWrite, Owned
  <1>1. /\ UNCHANGED <<op, launched, loose, stray, cached, tag>>
        /\ todo' = todo \ {o}
        /\ \A w \in Words \ {o} : mem'[w] = mem[w]
        /\ mem'[o] = Kernel(o, [i \in Inp |-> mem[i]])
    BY <1>0 DEF DeviceWrite, DeviceStore, MemTypeOK
  <1>2. Owned' = Owned /\ Inp' = Inp
    BY <1>1 DEF Owned, Out, Inp
  <1>3. \A i \in Inp : OneValue[i] = mem[i]
    <2>1. \A i \in Inp : i \notin Owned \cup loose => mem[i] = CpuView(i)
      BY <1>0 DEF IInv, InputInv, InpFlushed, Inp, AllWords
    <2> QED
      BY <1>0, <2>1 DEF OneValue
  <1>4. [i \in Inp |-> OneValue[i]] = [i \in Inp |-> mem[i]]
    BY <1>3
  <1>5. OneValue'[o] = Kernel(o, [i \in Inp |-> OneValue[i]])
    BY <1>0, <1>1, <1>2, <1>4 DEF OneValue
  <1>6. Keeps({o})
    BY <1>1, <1>2 DEF Keeps, OneValue, CpuView, Tag
  <1>7. (IF launched THEN Inp ELSE {}) = Inp
    BY <1>0
  <1>8. Coherent!Compute(o)
    BY <1>0, <1>1, <1>2, <1>5, <1>6, <1>7, KeepsIsKeepExcept
       DEF Coherent!Compute
  <1> QED
    BY <1>8 DEF Coherent!Next

(* What a stray job writes is loose, so nothing is promised about it.      *)
LEMMA StrayRefines ==
  ASSUME IInv, TypeOK', NEW x \in Words, StrayWrite(x)
  PROVE  Coherent!Next
  <1>1. /\ x \in loose /\ stray \subseteq loose
        /\ UNCHANGED <<op, launched, todo, loose, stray, cached, tag>>
        /\ \A w \in Words \ {x} : mem'[w] = mem[w]
    BY DEF IInv, TypeOK, ControlInv, MemTypeOK, StrayWrite, DeviceStore,
         ctlVars
  <1>2. Owned' = Owned /\ Inp' = Inp
    BY <1>1 DEF Owned, Out, Inp
  <1>3. Keeps({})
    BY <1>1, <1>2 DEF Keeps, OneValue, CpuView, Tag
  <1>4. Coherent!Settle({})
    BY <1>1, <1>2, <1>3, KeepsIsKeepExcept
       DEF Coherent!Settle, Coherent!kernelVars
  <1> QED
    BY <1>4 DEF Coherent!Next

LEMMA StepRefines ==
  ASSUME IInv, IInv', [Next]_vars
  PROVE  Coherent!Next
  <1> USE DEF At, Goto
  <1>0. TypeOK' /\ MemTypeOK
    BY DEF IInv, TypeOK
  <1>1. CASE Transfer
    <2>1. ASSUME NEW S \in Ranges, NEW f, Write(S, f)
          PROVE  Coherent!Next
      BY <1>0, <2>1, TransferRefines, DispatchAssumption
    <2>2. ASSUME NEW m \in CopyMaps, CopyBuffer(m)
          PROVE  Coherent!Next
      BY <1>0, <2>2, TransferRefines, DispatchAssumption DEF CopyBuffer
    <2> QED
      BY <1>1, <2>1, <2>2 DEF Transfer, FillBuffer, UpdateBuffer
  <1>2. CASE Maintain
    <2>1. ASSUME NEW S \in Ranges, FlushBuffer(S)
          PROVE  Coherent!Next
      BY <1>0, <2>1, CleanWord, SameWord, QuietRefines DEF FlushBuffer
    <2>2. ASSUME NEW S \in Ranges, InvalidateBuffer(S)
          PROVE  Coherent!Next
      <3>1. /\ Owned = {} /\ Owned' = {} /\ UNCHANGED memVars /\ ~launched
            /\ UNCHANGED <<launched, todo, loose, stray>>
            /\ stray \subseteq loose
        BY <2>2 DEF InvalidateBuffer, Owned, IInv, ControlInv
      <3>2. Keeps({})
        BY <1>0, <3>1, SameWord, QuietKeeps
      <3>3. Coherent!Settle({})
        BY <1>0, <3>1, <3>2, KeepsIsKeepExcept
           DEF Coherent!Settle, Coherent!kernelVars
      <3> QED
        BY <3>3 DEF Coherent!Next
    <2> QED
      BY <1>2, <2>1, <2>2 DEF Maintain
  <1>3. CASE \E k \in Kernels : Dispatch(k)
    <2>1. /\ Owned = {} /\ Owned' = {} /\ UNCHANGED memVars /\ ~launched
          /\ UNCHANGED <<launched, todo, loose, stray>>
          /\ stray \subseteq loose
      BY <1>3 DEF Dispatch, Owned, IInv, ControlInv
    <2>2. Keeps({})
      BY <1>0, <2>1, SameWord, QuietKeeps
    <2>3. Coherent!Settle({})
      BY <1>0, <2>1, <2>2, KeepsIsKeepExcept
         DEF Coherent!Settle, Coherent!kernelVars
    <2> QED
      BY <2>3 DEF Coherent!Next
  <1>4. CASE FlushInput \/ FlushOutput \/ InvalidateClean
    BY <1>0, <1>4, CleanWord, QuietRefines
       DEF FlushInput, FlushOutput, InvalidateClean
  <1>5. CASE InvalidateDiscard
    <2>1. \A w \in op.out[col] : Tag(w) # "dirty"
      BY <1>5 DEF InvalidateDiscard, IInv, OutputInv, OutFlushed
    <2>2. \A w \in Words : LineOf[w] \in Touch(op.out[col]) => Tag(w) # "dirty"
      BY <2>1 DEF Touch, Tag
    <2> QED
      BY <1>0, <1>5, <2>2, DiscardWord, QuietRefines DEF InvalidateDiscard
  <1>6. CASE Submit
    BY <1>0, <1>6, SubmitRefines
  <1>7. CASE \/ SubmitFails \/ Wait \/ WaitInterrupted \/ Poll \/ PollFails
             \/ Free \/ JobEnds \/ JobCancelled \/ UNCHANGED vars
    <2>1. UNCHANGED memVars /\ UNCHANGED <<op, launched, todo, loose, stray>>
      BY <1>7 DEF SubmitFails, Wait, WaitInterrupted, Poll, PollFails, Free,
           JobEnds, JobCancelled, vars, memVars
    <2> QED
      BY <1>0, <2>1, SameWord, QuietRefines
  <1>8. CASE \/ FlushFails \/ ConfigFails \/ FreeAfterError \/ FreeFails
             \/ InvalidateFails \/ Done
    BY <1>0, <1>8, LeaveRefines
  <1>9. CASE \E w \in Words : DeviceWrite(w)
    BY <1>0, <1>9, ComputeRefines
  <1>10. CASE CacheStep
    BY <1>0, <1>10, CacheWord, QuietRefines DEF CacheStep, ctlVars
  <1>11. CASE \E w \in Words, v \in Values : HostStoreApart(w, v)
    BY <1>0, <1>11, HostRefines
  <1>12. CASE \E w \in Words : StrayWrite(w)
    BY <1>0, <1>12, StrayRefines
  <1> QED
    BY <1>1, <1>2, <1>3, <1>4, <1>5, <1>6, <1>7, <1>8, <1>9, <1>10, <1>11,
       <1>12 DEF Next, Driver, CommandStep, DeviceStep

(* Seen through OneValue, the driver, the cache and the CGRA together are  *)
(* one coherent memory on which the CGRA runs one kernel at a time: every  *)
(* step of theirs is one of CoherentMemory's.                              *)
THEOREM Refinement == Spec => CoherentSpec
  <1>1. Init => Coherent!Init
    <2> SUFFICES ASSUME Init PROVE Coherent!Init
      OBVIOUS
    <2>1. Owned = {} /\ (IF launched THEN Inp ELSE {}) = {}
      BY DEF Init, Owned
    <2>2. OneValue \in [Words -> Values]
      BY <2>1, LayoutAssumption DEF Init, MemInit, OneValue, CpuView, Tag
    <2> QED
      BY <2>1, <2>2, Zenon DEF Init, Coherent!Init
  <1>2. IInv /\ IInv' /\ [Next]_vars => [Coherent!Next]_Coherent!cmVars
    BY StepRefines
  <1> QED
    BY <1>1, <1>2, Invariance, PTL DEF Spec, CoherentSpec, Coherent!Spec

=============================================================================
