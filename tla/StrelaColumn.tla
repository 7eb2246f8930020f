---------------------------- MODULE StrelaColumn ----------------------------
(***************************************************************************)
(* How the runtime turns the program of a CGRA column into addresses:      *)
(* verification of a loaded column (executable.c:38-64), its resolution    *)
(* for a dispatch (command_buffer.c:242-308) and the cache lines that are  *)
(* synchronised for a range of bytes (buffer.c:157-173).                   *)
(*                                                                         *)
(* A buffer is a part of an allocation: "at" bytes into it, "length" bytes *)
(* long; "base" is where libstrela put the allocation, in words, and       *)
(* "strela" whether it is libstrela's at all.  A reference with no buffer  *)
(* behind it is one that is not "bound".                                   *)
(***************************************************************************)
EXTENDS Naturals, Sequences

CONSTANTS
  WordBytes,    \* sizeof(strela_word)
  LineBytes,    \* IREE_HAL_STRELA_CACHE_LINE
  Radix,        \* 2^32: push constants hold values below it
  DeviceMod,    \* 2^64: iree_device_size_t counts modulo this
  SizeMod       \* size_t counts modulo this: 2^32 on ARMv7, or 2^64

ASSUME WidthAssumption ==
  /\ {WordBytes, LineBytes, Radix, DeviceMod, SizeMod} \subseteq Nat \ {0}
  /\ LineBytes % WordBytes = 0
  /\ DeviceMod % LineBytes = 0
  /\ DeviceMod = Radix * Radix
  /\ SizeMod \in {Radix, DeviceMod}

WholeBuffer == DeviceMod - 1
MaxOffsetConstants == 2

ColumnVerify(c, bindingCount, constantCount) ==
  \/ c.wordCount = 0
  \/ /\ c.binding < bindingCount
     /\ c.byteOffset % WordBytes = 0
     /\ Len(c.offsetConstants) <= MaxOffsetConstants
     /\ \A i \in DOMAIN c.offsetConstants : c.offsetConstants[i] < constantCount

(* The compile-time part of the offset plus what the push constants hold.  *)
ByteOffset(c, constants) ==
  LET half(i) == constants[c.offsetConstants[i] + 1] IN
  (c.byteOffset
    + (IF Len(c.offsetConstants) >= 1 THEN half(1) ELSE 0)
    + (IF Len(c.offsetConstants) >= 2 THEN half(2) * Radix ELSE 0)) % DeviceMod

Stride(c, isInput) == IF isInput THEN c.stride ELSE 0

(* Mutant: the span of a strided column is that of a dense one.            *)
SpanBytes_NoStride(c, isInput) == (c.wordCount * WordBytes) % SizeMod

(* From the first to the last word the column touches, in size_t.          *)
SpanBytes(c, isInput) ==
  LET words == IF isInput /\ c.stride # 1
               THEN ((c.wordCount - 1) * c.stride + 1) % SizeMod
               ELSE c.wordCount
  IN (words * WordBytes) % SizeMod

RangeLength(ref) ==
  IF ref.length = WholeBuffer THEN ref.buffer.length - ref.offset ELSE ref.length

(* Byte x of a buffer, counted from the start of its allocation.           *)
AllocatedOffset(buffer, x) == (buffer.at + x) % DeviceMod

(* The first check that fails, in the order of the code, or "ok".          *)
ResolveStatus(c, isInput, constants, bindings) ==
  LET ref == bindings[c.binding + 1]
      off == ByteOffset(c, constants)
  IN
  IF c.wordCount = 0 THEN "ok"
  ELSE IF c.binding >= Len(bindings) THEN "no binding"
  ELSE IF ~ref.bound THEN "no buffer"
  ELSE IF \E i \in DOMAIN c.offsetConstants : c.offsetConstants[i] >= Len(constants)
  THEN "no constants"
  ELSE IF (off + SpanBytes(c, isInput)) % DeviceMod > RangeLength(ref) THEN "out of range"
  ELSE IF ~ref.buffer.strela THEN "not STRELA memory"
  ELSE IF AllocatedOffset(ref.buffer, ref.offset + off) % WordBytes # 0 THEN "not aligned"
  ELSE "ok"

(* iree_hal_strela_column_t of a column that is used.                      *)
ColumnResolve(c, isInput, constants, bindings) ==
  LET ref == bindings[c.binding + 1]
      offset == AllocatedOffset(ref.buffer, ref.offset + ByteOffset(c, constants))
  IN
  [ buffer |-> ref.buffer,
    offset |-> offset,
    length |-> SpanBytes(c, isInput),
    wordsFromBase |-> ref.buffer.base + offset \div WordBytes,
    wordCount |-> c.wordCount,
    stride |-> Stride(c, isInput) ]

-----------------------------------------------------------------------------
(* Mutant: the end of a range is rounded down.                             *)
Align_Down(x) == x - (x % LineBytes)

(* iree_device_align: a sum and a mask, in iree_device_size_t.             *)
Align(x) ==
  LET y == (x + LineBytes - 1) % DeviceMod IN y - (y % LineBytes)

(* The words of the allocation that libstrela is told to synchronise, by   *)
(* their first and their number, each in size_t.                           *)
BufferLines(offset, length) ==
  LET start == offset - (offset % LineBytes)
      end == Align((offset + length) % DeviceMod)
  IN [first |-> (start \div WordBytes) % SizeMod,
      count |-> (((end + DeviceMod - start) % DeviceMod) \div WordBytes) % SizeMod]

(* ... and in words from the base of STRELA memory.                        *)
SyncedWords(buffer, offset, length) ==
  LET lines == BufferLines(offset, length) IN
  {buffer.base + lines.first + i : i \in 0 .. lines.count - 1}

(* Mutant: an allocation is not padded to whole lines.                     *)
AllocatedWords_NotPadded(size) == size \div WordBytes

(* What an allocation of that many bytes takes (allocator.c:166-170).      *)
AllocatedWords(size) == Align(size) \div WordBytes

(* Below this many bytes neither a number of bytes wraps around nor one of *)
(* words.                                                                  *)
AllocationLimit ==
  IF SizeMod * WordBytes < DeviceMod THEN SizeMod * WordBytes ELSE DeviceMod

=============================================================================
