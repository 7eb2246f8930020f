-------------------------- MODULE StrelaAddressing --------------------------
(***************************************************************************)
(* One CGRA column from the compiler's source to the cache lines that are  *)
(* synchronised for it: the compiler writes the column, the runtime        *)
(* verifies it when the executable is loaded, resolves it when it is       *)
(* dispatched and synchronises its lines.  Columns that another compiler   *)
(* wrote enter at verification; explicit maintenance enters at the lines.  *)
(***************************************************************************)
EXTENDS StrelaBindings, StrelaColumn

CONSTANTS
  Sites,        \* the loads and stores compiled
  Columns,      \* the columns that come from elsewhere, [column, isInput]
  Hosts,        \* what dispatches pass: push constants and bindings
  Maintained    \* the ranges maintained explicitly, each the only binding

Column ==
  [ binding : Nat, byteOffset : Nat, offsetConstants : Seq(Nat),
    wordCount : Nat, stride : Nat ]

Buffer == [at : Nat, length : Nat, size : Nat, base : Nat, strela : BOOLEAN]
Ref == [bound : BOOLEAN, buffer : Buffer, offset : Nat, length : Nat]
Host == [constants : Seq(0 .. Radix - 1), bindings : Seq(Ref)]

Site ==
  [ isInput : BOOLEAN, binding : Nat,
    offset : [form : OffsetForms, value : Int, lo : Nat, hi : Nat],
    shape : Nat \X Nat, offsets : Nat \X Nat, sizes : Nat \X Nat,
    strides : Nat \X Nat ]

(* A dispatch binds ranges of buffers, buffers are parts of allocations,   *)
(* and an allocation can be padded and counted in words: its memory is     *)
(* there.  What is maintained has a buffer, which IREE sees to.            *)
ASSUME AddressingAssumption ==
  /\ MaxColumnWords * WordBytes < Radix
  /\ Sites \subseteq Site
  /\ \A s \in Sites : s.offset.value < DeviceMod
  /\ Columns \subseteq [column : Column, isInput : BOOLEAN]
  /\ Hosts \cup Maintained \subseteq Host
  /\ \A h \in Maintained : Len(h.bindings) = 1 /\ h.bindings[1].bound
  /\ \A h \in Hosts \cup Maintained : \A i \in DOMAIN h.bindings :
       LET ref == h.bindings[i] IN
       /\ ref.offset + RangeLength(ref) <= ref.buffer.length
       /\ ref.buffer.at + ref.buffer.length <= ref.buffer.size
       /\ ref.buffer.size + LineBytes <= AllocationLimit
       /\ (ref.buffer.base * WordBytes) % LineBytes = 0

VARIABLES
  stage,        \* how far the column has come, or why it has not
  site,         \* the source, when there is one
  isInput,
  op,           \* the binding operation that replaces the source
  column,       \* the column as it is in the executable
  host,
  resolved,     \* the column as it is dispatched
  synced        \* the words synchronised, from the base of STRELA memory

vars == <<stage, site, isInput, op, column, host, resolved, synced>>

NoSite == [isInput |-> FALSE]
NoOp == [words |-> 0]
Unresolved == [wordCount |-> 0]

Init ==
  /\ op = NoOp /\ resolved = Unresolved /\ synced = {}
  /\ \/ /\ stage = "source" /\ host \in Hosts
        /\ site \in Sites /\ isInput = site.isInput
        /\ column = NoColumn
     \/ /\ stage = "column" /\ host \in Hosts
        /\ site = NoSite
        /\ \E c \in Columns : column = c.column /\ isInput = c.isInput
     \/ /\ stage = "maintain" /\ host \in Maintained
        /\ site = NoSite /\ isInput = FALSE /\ column = NoColumn

(* MLIR verifies the operation that the pass has created.                  *)
Materialize ==
  /\ stage = "source"
  /\ IF Analyzable(site)
     THEN /\ op' = BindingOp(site)
          /\ stage' = IF VerifyBindingOffsets(BindingOp(site))
                      THEN "materialized" ELSE "malformed"
     ELSE stage' = "not compiled" /\ UNCHANGED op
  /\ UNCHANGED <<site, isInput, column, host, resolved, synced>>

(* getExport, for one operand or the result.                               *)
Serialize ==
  /\ stage = "materialized"
  /\ IF op.words <= MaxColumnWords
     THEN stage' = "column" /\ column' = GetColumn(op)
     ELSE stage' = "not compiled" /\ UNCHANGED column
  /\ UNCHANGED <<site, isInput, op, host, resolved, synced>>

(* The counts are those of the export's layout: what every dispatch of it  *)
(* passes.                                                                 *)
Verify ==
  /\ stage = "column"
  /\ stage' = IF ColumnVerify(column, Len(host.bindings), Len(host.constants))
              THEN "verified" ELSE "not loaded"
  /\ UNCHANGED <<site, isInput, op, column, host, resolved, synced>>

(* Mutant: a column that is not used ends with what its checks answer.     *)
Resolve_Unused ==
  /\ stage = "verified"
  /\ LET status == ResolveStatus(column, isInput, host.constants, host.bindings) IN
     IF status = "ok" /\ column.wordCount # 0
     THEN /\ stage' = "resolved"
          /\ resolved' =
               ColumnResolve(column, isInput, host.constants, host.bindings)
     ELSE stage' = status /\ UNCHANGED resolved
  /\ UNCHANGED <<site, isInput, op, column, host, synced>>

Resolve ==
  /\ stage = "verified"
  /\ LET status == ResolveStatus(column, isInput, host.constants, host.bindings) IN
     IF status = "ok" /\ column.wordCount # 0
     THEN /\ stage' = "resolved"
          /\ resolved' =
               ColumnResolve(column, isInput, host.constants, host.bindings)
     ELSE /\ stage' = IF status = "ok" THEN "unused" ELSE status
          /\ UNCHANGED resolved
  /\ UNCHANGED <<site, isInput, op, column, host, synced>>

(* flush_range and invalidate_range.                                       *)
Sync ==
  /\ stage = "resolved"
  /\ stage' = "synced"
  /\ synced' = SyncedWords(resolved.buffer, resolved.offset, resolved.length)
  /\ UNCHANGED <<site, isInput, op, column, host, resolved>>

(* flush_buffer and invalidate_buffer, on a binding that is STRELA's.      *)
Maintain ==
  /\ stage = "maintain"
  /\ LET ref == host.bindings[1] IN
     IF ref.buffer.strela
     THEN /\ stage' = "maintained"
          /\ synced' = SyncedWords(ref.buffer,
                         AllocatedOffset(ref.buffer, ref.offset), ref.length)
     ELSE stage' = "not STRELA memory" /\ UNCHANGED synced
  /\ UNCHANGED <<site, isInput, op, column, host, resolved>>

Next == Materialize \/ Serialize \/ Verify \/ Resolve \/ Sync \/ Maintain

Spec == Init /\ [][Next]_vars

-----------------------------------------------------------------------------
(* The words the CGRA moves, from the base of STRELA memory: an input      *)
(* every "stride" words, an output one after the other.                    *)
CgraWords ==
  {resolved.wordsFromBase + i * (IF isInput THEN resolved.stride ELSE 1) :
     i \in 0 .. resolved.wordCount - 1}

BoundRef == host.bindings[column.binding + 1]

(* The bytes of a word, and of the bound range.                            *)
WordAt(w) == {w * WordBytes + i : i \in 0 .. WordBytes - 1}

RangeBytes(ref) ==
  LET start == ref.buffer.base * WordBytes + ref.buffer.at + ref.offset IN
  start .. start + RangeLength(ref) - 1

BytesOf(words) == UNION {WordAt(w) : w \in words}

Resolved == stage \in {"resolved", "synced"}

TypeOK ==
  /\ stage \in {"source", "materialized", "malformed", "column", "verified", "resolved", "synced", "maintain",
                "maintained", "unused", "not compiled", "not loaded",
                "no binding", "no buffer", "no constants", "out of range",
                "not STRELA memory", "not aligned"}
  /\ op.words \in Nat /\ column.byteOffset \in Nat
  /\ column.wordCount \in Nat /\ resolved.wordCount \in Nat
  /\ synced \subseteq Nat

(* What the subspan's offset expression means, to the host that evaluates  *)
(* it.                                                                     *)
HostOffset(e) ==
  CASE e.form = "absent" -> 0
    [] e.form = "literal" -> e.value
    [] e.form = "load" -> host.constants[e.lo + 1]
    [] e.form = "pair" -> host.constants[e.lo + 1] + Radix * host.constants[e.hi + 1]

(* The bytes of the slice of the tensor, which is row-major.               *)
SliceBytes ==
  LET ref == BoundRef
      start == ref.buffer.base * WordBytes + ref.buffer.at + ref.offset
               + HostOffset(site.offset)
  IN UNION {{start + WordBytes * (r * site.shape[2] + c) + i :
               i \in 0 .. WordBytes - 1} :
               r \in 0 .. site.sizes[1] - 1, c \in 0 .. site.sizes[2] - 1}

(* A compiled column moves the slice that the source names, to the byte:   *)
(* the offset went through the compiler's attributes, the flatbuffer, the  *)
(* push constants and the binding table, and is still the subspan's        *)
(* (MaterializeBindingsPass.cpp:74-76).                                    *)
ColumnIsItsSlice ==
  Resolved /\ site # NoSite => BytesOf(CgraWords) = SliceBytes

(* The layout that the source was written for: its binding and the push    *)
(* constants it loads exist, and a literal offset is one of a word.        *)
SourceIsInLayout ==
  /\ site.binding < Len(host.bindings)
  /\ site.offset.form \in {"load", "pair"} => site.offset.lo < Len(host.constants)
  /\ site.offset.form = "pair" => site.offset.hi < Len(host.constants)
  /\ site.offset.form = "literal" => site.offset.value % WordBytes = 0

(* What the pass accepts is accepted all the way: the verifier of the      *)
(* binding operations never refuses one that the pass has written          *)
(* (StrelaOps.cpp:5-25), the runtime refuses to load its column only when  *)
(* the source itself is outside of its layout (executable.c:38-64), and a  *)
(* column that was loaded, whoever wrote it, can be dispatched as it       *)
(* stands: what may be wrong then is the memory that was bound, never the  *)
(* column (executable.c:66-67).                                            *)
ColumnsLoadAndRun ==
  /\ stage # "malformed"
  /\ stage = "not loaded" /\ site # NoSite => ~SourceIsInLayout
  /\ stage \notin {"no binding", "no constants"}

(* The bytes from the first to the last word a column touches, whatever a  *)
(* size_t holds, and a column that a dispatch neither makes wrap around in *)
(* its span nor in its end.                                                *)
TrueSpan(c, in) ==
  (IF in /\ c.stride # 1 THEN (c.wordCount - 1) * c.stride + 1 ELSE c.wordCount) * WordBytes

StaysBelow(c, in, h) ==
  ColumnVerify(c, Len(h.bindings), Len(h.constants)) /\ c.wordCount # 0 =>
    /\ TrueSpan(c, in) < SizeMod
    /\ ByteOffset(c, h.constants) + TrueSpan(c, in) < DeviceMod

(* The condition under which the range check means what it says: of all    *)
(* columns, loaded or compiled, and all dispatches.                        *)
NothingWraps ==
  \A h \in Hosts :
    /\ \A c \in Columns : StaysBelow(c.column, c.isInput, h)
    /\ \A s \in Sites :
         Analyzable(s) /\ BindingOp(s).words <= MaxColumnWords =>
           StaysBelow(GetColumn(BindingOp(s)), s.isInput, h)

(* The slices that are compiled are runs of whole rows, or lie in one row: *)
(* a part of several rows is the one case in which a column is not its     *)
(* slice.                                                                  *)
WholeRows ==
  \A s \in Sites : Analyzable(s) => s.sizes[2] = s.shape[2] \/ s.sizes[1] <= 1

(* Every maintained range says how long it is: a range that is all of a    *)
(* buffer is the one case in which maintenance does not reach its bytes.   *)
RangesHaveLengths == \A h \in Maintained : h.bindings[1].length # WholeBuffer

(* Whoever wrote the column, the CGRA stays inside the bound range         *)
(* (command_buffer.c:282-288).                                             *)
WithinBoundRange == Resolved => BytesOf(CgraWords) \subseteq RangeBytes(BoundRef)

(* Every word the CGRA moves is synchronised, and no word outside of the   *)
(* allocation is, which was padded for this (allocator.c:166-167).         *)
SyncIsExact ==
  stage = "synced" =>
    /\ CgraWords \subseteq synced
    /\ LET buffer == resolved.buffer IN
       synced \subseteq buffer.base .. buffer.base + AllocatedWords(buffer.size) - 1

(* Explicit maintenance reaches every word of the range it names           *)
(* (buffer.c:157-161).                                                     *)
MaintenanceCoversRange ==
  stage = "maintained" => RangeBytes(host.bindings[1]) \subseteq BytesOf(synced)

=============================================================================
