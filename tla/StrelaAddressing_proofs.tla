----------------------- MODULE StrelaAddressing_proofs -----------------------
(***************************************************************************)
(* Proofs about a column on its way from the source to the cache lines,    *)
(* for words, lines and integers of any width: a column that was compiled  *)
(* loads and runs; one that a dispatch does not make wrap around stays in  *)
(* the range that was bound, is synchronised and lets nothing else be, and *)
(* moves the slice it was compiled from.                                   *)
(*                                                                         *)
(* Lines are counted from the start of an allocation, and words in lines.  *)
(***************************************************************************)
EXTENDS StrelaAddressing, SequenceTheorems, TLAPS

-----------------------------------------------------------------------------
(* Division with a remainder.                                              *)
LEMMA MulLess ==
  ASSUME NEW a \in Nat, NEW b \in Nat, NEW N \in Nat, a < b
  PROVE  a * N + N <= b * N /\ a * N \in Nat /\ b * N \in Nat
  OBVIOUS

LEMMA DivMod ==
  ASSUME NEW x \in Nat, NEW N \in Nat \ {0}
  PROVE  x \div N \in Nat /\ (x % N) \in 0 .. N - 1 /\ x = (x \div N) * N + (x % N)
  OBVIOUS

LEMMA QuotientLess ==
  ASSUME NEW a \in Nat, NEW b \in Nat, NEW N \in Nat \ {0}, NEW r \in 0 .. N - 1,
         a * N <= b * N + r
  PROVE  a <= b
  <1>1. SUFFICES ASSUME b < a PROVE FALSE
    OBVIOUS
  <1>2. b * N + N <= a * N /\ b * N \in Nat /\ a * N \in Nat
    BY <1>1, MulLess
  <1> QED BY <1>2

LEMMA QuotientUnique ==
  ASSUME NEW a \in Nat, NEW N \in Nat \ {0}, NEW r \in 0 .. N - 1, NEW x, x = a * N + r
  PROVE  x \div N = a /\ (x % N) = r
  <1>1. x \in Nat
    OBVIOUS
  <1>2. x \div N \in Nat /\ (x % N) \in 0 .. N - 1 /\ x = (x \div N) * N + (x % N)
    BY <1>1, DivMod
  <1>3. a <= x \div N
    BY <1>2, QuotientLess
  <1>4. x \div N <= a
    BY <1>2, QuotientLess
  <1>5. x \div N = a
    BY <1>2, <1>3, <1>4
  <1> QED BY <1>2, <1>5

LEMMA ModSmall ==
  ASSUME NEW N \in Nat \ {0}, NEW x \in 0 .. N - 1
  PROVE  (x % N) = x /\ ((x + N) % N) = x
  <1>1. x = 0 * N + x /\ x + N = 1 * N + x
    OBVIOUS
  <1> QED BY <1>1, QuotientUnique

LEMMA DivMonotone ==
  ASSUME NEW x \in Nat, NEW y \in Nat, NEW N \in Nat \ {0}, x <= y
  PROVE  x \div N <= y \div N
  <1>1. /\ x \div N \in Nat /\ (x % N) \in 0 .. N - 1 /\ x = (x \div N) * N + (x % N)
        /\ y \div N \in Nat /\ (y % N) \in 0 .. N - 1 /\ y = (y \div N) * N + (y % N)
    BY DivMod
  <1>2. (x \div N) * N \in Nat /\ (y \div N) * N \in Nat
    BY <1>1
  <1>3. (x \div N) * N <= (y \div N) * N + (y % N)
    BY <1>1, <1>2
  <1> QED BY <1>1, <1>3, QuotientLess

-----------------------------------------------------------------------------
(* A line is a number of words, and no allocation is so large that padding *)
(* it wraps around.                                                        *)
LineWords == LineBytes \div WordBytes

LEMMA Widths ==
  /\ WordBytes \in Nat \ {0} /\ LineBytes \in Nat \ {0} /\ Radix \in Nat \ {0}
  /\ DeviceMod \in Nat \ {0} /\ SizeMod \in Nat \ {0}
  /\ LineWords \in Nat \ {0} /\ LineBytes = LineWords * WordBytes
  /\ AllocationLimit \in Nat /\ AllocationLimit <= DeviceMod
  /\ AllocationLimit <= SizeMod * WordBytes
  <1>1. /\ WordBytes \in Nat \ {0} /\ LineBytes \in Nat \ {0} /\ Radix \in Nat \ {0}
        /\ DeviceMod \in Nat \ {0} /\ SizeMod \in Nat \ {0}
        /\ (LineBytes % WordBytes) = 0
    BY WidthAssumption
  <1>2. LineWords \in Nat /\ LineBytes = LineWords * WordBytes
    BY <1>1, DivMod DEF LineWords
  <1>3. LineWords # 0
    BY <1>1, <1>2
  <1>4. /\ AllocationLimit \in Nat /\ AllocationLimit <= DeviceMod
        /\ AllocationLimit <= SizeMod * WordBytes
    <2>1. SizeMod * WordBytes \in Nat
      BY <1>1
    <2> QED BY <1>1, <2>1 DEF AllocationLimit
  <1> QED BY <1>1, <1>2, <1>3, <1>4

LEMMA AlignUp ==
  ASSUME NEW x \in Nat, x + LineBytes <= DeviceMod
  PROVE  LET e == (x + LineBytes - 1) \div LineBytes IN
         e \in Nat /\ Align(x) = e * LineBytes /\ x <= e * LineBytes
                   /\ e * LineBytes < DeviceMod
  <1> DEFINE y == x + LineBytes - 1
             e == y \div LineBytes
  <1>1. LineBytes \in Nat \ {0} /\ DeviceMod \in Nat \ {0}
    BY Widths
  <1>2. y \in 0 .. DeviceMod - 1 /\ y \in Nat
    BY <1>1
  <1>3. (y % DeviceMod) = y
    BY <1>1, <1>2, ModSmall
  <1>4. e \in Nat /\ (y % LineBytes) \in 0 .. LineBytes - 1 /\ y = e * LineBytes + (y % LineBytes)
    BY <1>1, <1>2, DivMod
  <1>5. e * LineBytes \in Nat
    BY <1>1, <1>4
  <1>6. Align(x) = y - (y % LineBytes)
    BY <1>3 DEF Align
  <1> HIDE DEF e
  <1>7. Align(x) = e * LineBytes
    BY <1>1, <1>2, <1>4, <1>5, <1>6
  <1>8. x <= e * LineBytes /\ e * LineBytes < DeviceMod
    BY <1>1, <1>4, <1>5
  <1> QED BY <1>4, <1>7, <1>8 DEF e

(* The lines of a range, counted.                                          *)
LEMMA LinesOfRange ==
  ASSUME NEW offset \in Nat, NEW length \in Nat,
         offset + length + LineBytes <= AllocationLimit
  PROVE  LET a == offset \div LineBytes
             e == (offset + length + LineBytes - 1) \div LineBytes
         IN /\ a \in Nat /\ e \in Nat /\ a <= e
            /\ BufferLines(offset, length) =
                 [first |-> a * LineWords, count |-> (e - a) * LineWords]
            /\ a * LineBytes <= offset /\ offset + length <= e * LineBytes
  <1> DEFINE x == offset + length
             a == offset \div LineBytes
             e == (x + LineBytes - 1) \div LineBytes
  <1>1. /\ LineBytes \in Nat \ {0} /\ DeviceMod \in Nat \ {0} /\ WordBytes \in Nat \ {0}
        /\ LineWords \in Nat \ {0} /\ LineBytes = LineWords * WordBytes
        /\ SizeMod \in Nat \ {0} /\ AllocationLimit \in Nat
        /\ AllocationLimit <= DeviceMod /\ AllocationLimit <= SizeMod * WordBytes
    BY Widths
  <1>2. /\ x \in Nat /\ x \in 0 .. DeviceMod - 1
        /\ x + LineBytes <= AllocationLimit /\ x + LineBytes <= DeviceMod
    BY <1>1
  <1>3. (x % DeviceMod) = x
    BY <1>1, <1>2, ModSmall
  <1>4. e \in Nat /\ Align(x) = e * LineBytes /\ x <= e * LineBytes /\ e * LineBytes < DeviceMod
    BY <1>2, AlignUp
  <1>5. /\ a \in Nat /\ (offset % LineBytes) \in 0 .. LineBytes - 1
        /\ offset = a * LineBytes + (offset % LineBytes)
    BY <1>1, DivMod
  <1>6. a * LineBytes \in Nat /\ e * LineBytes \in Nat
    BY <1>1, <1>4, <1>5
  <1> HIDE DEF a, e
  <1>7. offset - (offset % LineBytes) = a * LineBytes /\ a * LineBytes <= offset
    BY <1>1, <1>5, <1>6
  <1>8. a * LineBytes <= e * LineBytes + 0 /\ 0 \in 0 .. LineBytes - 1
    BY <1>1, <1>2, <1>4, <1>6, <1>7
  <1>9. a <= e
    BY <1>1, <1>4, <1>5, <1>8, QuotientLess
  <1>10. e - a \in Nat /\ e * LineBytes - a * LineBytes = (e - a) * LineBytes
    BY <1>1, <1>4, <1>5, <1>9
  <1>11. (e - a) * LineBytes \in 0 .. DeviceMod - 1
    BY <1>1, <1>4, <1>6, <1>8, <1>10
  <1>12. e * LineBytes + DeviceMod - a * LineBytes = (e - a) * LineBytes + DeviceMod
    BY <1>1, <1>6, <1>10
  <1>13. ((e * LineBytes + DeviceMod - a * LineBytes) % DeviceMod) = (e - a) * LineBytes
    BY <1>1, <1>11, <1>12, ModSmall
  <1>14. ASSUME NEW c \in Nat
         PROVE  (c * LineBytes) \div WordBytes = c * LineWords
    <2>1. c * LineBytes = (c * LineWords) * WordBytes + 0 /\ c * LineWords \in Nat
      BY <1>1
    <2>2. 0 \in 0 .. WordBytes - 1
      BY <1>1
    <2> QED BY <1>1, <2>1, <2>2, QuotientUnique
  <1>15. BufferLines(offset, length) =
           [first |-> (a * LineWords) % SizeMod, count |-> ((e - a) * LineWords) % SizeMod]
    <2>1. BufferLines(offset, length) =
            [first |-> ((a * LineBytes) \div WordBytes) % SizeMod,
             count |-> (((e - a) * LineBytes) \div WordBytes) % SizeMod]
      BY <1>3, <1>4, <1>7, <1>13 DEF BufferLines
    <2> QED BY <1>5, <1>10, <1>14, <2>1
  <1>16. /\ a * LineWords \in 0 .. SizeMod - 1
         /\ (e - a) * LineWords \in 0 .. SizeMod - 1
    <2>1. /\ a * LineWords \in Nat /\ e * LineWords \in Nat
          /\ (e - a) * LineWords = e * LineWords - a * LineWords
          /\ (e - a) * LineWords \in Nat
      BY <1>1, <1>4, <1>5, <1>10
    <2>2. e * LineWords < SizeMod
      <3>1. SUFFICES ASSUME SizeMod <= e * LineWords PROVE FALSE
        BY <1>1, <2>1
      <3>2. SizeMod * WordBytes <= (e * LineWords) * WordBytes
        BY <1>1, <2>1, <3>1
      <3>3. (e * LineWords) * WordBytes = e * LineBytes
        BY <1>1, <1>4
      <3>4. e * LineBytes <= x + LineBytes - 1
        <4> DEFINE y == x + LineBytes - 1
        <4>1. y \in Nat
          BY <1>1, <1>2
        <4>2. (y % LineBytes) \in 0 .. LineBytes - 1 /\ y = e * LineBytes + (y % LineBytes)
          BY <1>1, <4>1, DivMod DEF e
        <4> HIDE DEF y
        <4>3. e * LineBytes <= y
          BY <1>1, <1>6, <4>1, <4>2
        <4> QED BY <4>3 DEF y
      <3>5. SizeMod * WordBytes \in Nat
        BY <1>1
      <3> HIDE DEF x
      <3> QED BY <1>1, <1>2, <1>6, <3>2, <3>3, <3>4, <3>5
    <2> QED BY <1>1, <2>1, <2>2
  <1>17. BufferLines(offset, length) =
           [first |-> a * LineWords, count |-> (e - a) * LineWords]
    BY <1>1, <1>15, <1>16, ModSmall
  <1>18. x <= e * LineBytes
    BY <1>4
  <1> QED BY <1>4, <1>5, <1>7, <1>9, <1>17, <1>18 DEF a, e

(* They hold every word of which the range has a byte ...                  *)
LEMMA LinesCover ==
  ASSUME NEW offset \in Nat, NEW length \in Nat,
         offset + length + LineBytes <= AllocationLimit,
         NEW buffer \in Buffer, NEW x \in offset .. offset + length - 1
  PROVE  buffer.base + x \div WordBytes \in SyncedWords(buffer, offset, length)
  <1> DEFINE a == offset \div LineBytes
             e == (offset + length + LineBytes - 1) \div LineBytes
             v == x \div WordBytes
  <1>1. /\ LineBytes \in Nat \ {0} /\ WordBytes \in Nat \ {0}
        /\ LineWords \in Nat \ {0} /\ LineBytes = LineWords * WordBytes
    BY Widths
  <1>2. /\ a \in Nat /\ e \in Nat /\ a <= e
        /\ BufferLines(offset, length) =
             [first |-> a * LineWords, count |-> (e - a) * LineWords]
        /\ a * LineBytes <= offset /\ offset + length <= e * LineBytes
    BY LinesOfRange
  <1>3. x \in Nat
    OBVIOUS
  <1>4. v \in Nat /\ (x % WordBytes) \in 0 .. WordBytes - 1 /\ x = v * WordBytes + (x % WordBytes)
    BY <1>1, <1>3, DivMod
  <1> HIDE DEF a, e, v
  <1>5. a * LineWords \in Nat /\ e * LineWords \in Nat
    BY <1>1, <1>2
  <1>6. a * LineBytes = (a * LineWords) * WordBytes /\ e * LineBytes = (e * LineWords) * WordBytes
    BY <1>1, <1>2
  <1>7. (a * LineWords) * WordBytes <= v * WordBytes + (x % WordBytes)
    BY <1>1, <1>2, <1>4, <1>5, <1>6
  <1>8. a * LineWords <= v
    BY <1>1, <1>4, <1>5, <1>7, QuotientLess
  <1>9. v < e * LineWords
    <2>1. SUFFICES ASSUME e * LineWords <= v PROVE FALSE
      BY <1>4, <1>5
    <2>2. (e * LineWords) * WordBytes <= v * WordBytes
      BY <1>1, <1>4, <1>5, <2>1
    <2>3. v * WordBytes \in Nat /\ (e * LineWords) * WordBytes \in Nat
      BY <1>1, <1>4, <1>5
    <2> QED BY <1>1, <1>2, <1>4, <1>6, <2>2, <2>3
  <1>10. (e - a) * LineWords = e * LineWords - a * LineWords
    BY <1>1, <1>2
  <1>11. v - a * LineWords \in 0 .. (e - a) * LineWords - 1
    BY <1>4, <1>5, <1>8, <1>9, <1>10
  <1>12. buffer.base + v = buffer.base + a * LineWords + (v - a * LineWords)
    BY <1>4, <1>5 DEF Buffer
  <1>13. SyncedWords(buffer, offset, length) =
           {buffer.base + a * LineWords + d : d \in 0 .. (e - a) * LineWords - 1}
    BY <1>2 DEF SyncedWords
  <1> QED BY <1>11, <1>12, <1>13 DEF v

(* ... and none outside of a padded allocation.                            *)
LEMMA LinesInside ==
  ASSUME NEW offset \in Nat, NEW length \in Nat, NEW buffer \in Buffer,
         offset + length <= buffer.size, buffer.size + LineBytes <= AllocationLimit
  PROVE  SyncedWords(buffer, offset, length)
           \subseteq buffer.base .. buffer.base + AllocatedWords(buffer.size) - 1
  <1> DEFINE a == offset \div LineBytes
             e == (offset + length + LineBytes - 1) \div LineBytes
             z == (buffer.size + LineBytes - 1) \div LineBytes
  <1>1. /\ LineBytes \in Nat \ {0} /\ WordBytes \in Nat \ {0} /\ DeviceMod \in Nat \ {0}
        /\ LineWords \in Nat \ {0} /\ LineBytes = LineWords * WordBytes
        /\ AllocationLimit \in Nat /\ AllocationLimit <= DeviceMod
        /\ buffer.size \in Nat /\ buffer.base \in Nat
    BY Widths DEF Buffer
  <1>2. offset + length + LineBytes <= AllocationLimit
    BY <1>1
  <1>3. /\ a \in Nat /\ e \in Nat /\ a <= e
        /\ BufferLines(offset, length) =
             [first |-> a * LineWords, count |-> (e - a) * LineWords]
    BY <1>2, LinesOfRange
  <1>4. z \in Nat /\ Align(buffer.size) = z * LineBytes
    BY <1>1, AlignUp
  <1>5. e <= z
    <2>1. /\ offset + length + LineBytes - 1 \in Nat /\ buffer.size + LineBytes - 1 \in Nat
          /\ offset + length + LineBytes - 1 <= buffer.size + LineBytes - 1
      BY <1>1
    <2> QED BY <1>1, <2>1, DivMonotone
  <1> HIDE DEF a, e, z
  <1>6. AllocatedWords(buffer.size) = z * LineWords
    <2>1. z * LineBytes = (z * LineWords) * WordBytes + 0 /\ z * LineWords \in Nat
      BY <1>1, <1>4
    <2>2. 0 \in 0 .. WordBytes - 1
      BY <1>1
    <2>3. (z * LineBytes) \div WordBytes = z * LineWords
      BY <1>1, <2>1, <2>2, QuotientUnique
    <2> QED BY <1>4, <2>3 DEF AllocatedWords
  <1>7. /\ a * LineWords \in Nat /\ e * LineWords \in Nat /\ z * LineWords \in Nat
        /\ (e - a) * LineWords = e * LineWords - a * LineWords
        /\ e * LineWords <= z * LineWords
    BY <1>1, <1>3, <1>4, <1>5
  <1>8. SyncedWords(buffer, offset, length) =
          {buffer.base + a * LineWords + d : d \in 0 .. (e - a) * LineWords - 1}
    BY <1>3 DEF SyncedWords
  <1>9. ASSUME NEW d \in 0 .. (e - a) * LineWords - 1
        PROVE  buffer.base + a * LineWords + d
                 \in buffer.base .. buffer.base + AllocatedWords(buffer.size) - 1
    BY <1>1, <1>6, <1>7
  <1> QED BY <1>8, <1>9

-----------------------------------------------------------------------------
(* What the compiler makes of an offset.                                   *)
LEMMA OffsetMatched ==
  ASSUME NEW e, MatchBindingOffset(e) # NoMatch
  PROVE  \/ /\ e.form = "absent"
            /\ MatchBindingOffset(e) = Offset(<<>>, {})
         \/ /\ e.form = "literal" /\ e.value >= 0
            /\ MatchBindingOffset(e) = Offset(<<>>, Literal(e.value))
         \/ /\ e.form = "load"
            /\ MatchBindingOffset(e) = Offset(<<e.lo>>, {})
         \/ /\ e.form = "pair" /\ e.value = HalfBits
            /\ MatchBindingOffset(e) = Offset(<<e.lo, e.hi>>, {})
  BY Zenon DEF MatchBindingOffset

LEMMA SiteType ==
  ASSUME NEW s \in Sites
  PROVE  /\ s.isInput \in BOOLEAN /\ s.binding \in Nat
         /\ s.offset.form \in OffsetForms /\ s.offset.value \in Int
         /\ s.offset.lo \in Nat /\ s.offset.hi \in Nat
         /\ s.offset.value < DeviceMod
         /\ s.sizes[1] \in Nat /\ s.sizes[2] \in Nat
         /\ s.shape[1] \in Nat /\ s.shape[2] \in Nat
         /\ s.sizes[1] * s.sizes[2] \in Nat
  <1>1. s \in Site /\ s.offset.value < DeviceMod
    BY AddressingAssumption
  <1>2. /\ s.isInput \in BOOLEAN /\ s.binding \in Nat
        /\ s.offset \in [form : OffsetForms, value : Int, lo : Nat, hi : Nat]
        /\ s.sizes \in Nat \X Nat /\ s.shape \in Nat \X Nat
    BY <1>1 DEF Site
  <1> QED BY <1>1, <1>2

(* The column of an accepted site, form by form.                           *)
LEMMA CompiledColumn ==
  ASSUME NEW s \in Sites, Analyzable(s)
  PROVE  LET c == GetColumn(BindingOp(s))
             e == s.offset
         IN /\ c \in Column
            /\ c.binding = s.binding /\ c.wordCount = s.sizes[1] * s.sizes[2]
            /\ c.stride = (IF s.isInput THEN 1 ELSE 0)
            /\ \/ e.form = "absent" /\ c.byteOffset = 0 /\ c.offsetConstants = <<>>
               \/ e.form = "literal" /\ c.byteOffset = e.value /\ c.offsetConstants = <<>>
               \/ e.form = "load" /\ c.byteOffset = 0 /\ c.offsetConstants = <<e.lo>>
               \/ e.form = "pair" /\ c.byteOffset = 0 /\ c.offsetConstants = <<e.lo, e.hi>>
  <1> DEFINE e == s.offset
             o == MatchBindingOffset(e)
             c == GetColumn(BindingOp(s))
  <1>1. /\ s.isInput \in BOOLEAN /\ s.binding \in Nat /\ e.value \in Int
        /\ e.lo \in Nat /\ e.hi \in Nat /\ s.sizes[1] * s.sizes[2] \in Nat
    BY SiteType
  <1>2. o # NoMatch
    BY DEF Analyzable
  <1>3. /\ c.binding = s.binding /\ c.wordCount = s.sizes[1] * s.sizes[2]
        /\ c.stride = (IF s.isInput THEN 1 ELSE 0)
        /\ c.offsetConstants = o.ordinals
        /\ c.byteOffset = IF o.static = {} THEN 0 ELSE CHOOSE x \in o.static : TRUE
        /\ c = [binding |-> c.binding, byteOffset |-> c.byteOffset,
                offsetConstants |-> c.offsetConstants, wordCount |-> c.wordCount,
                stride |-> c.stride]
    BY DEF GetColumn, BindingOp, NumElements
  <1>4. \/ e.form = "absent" /\ o = Offset(<<>>, {})
        \/ e.form = "literal" /\ e.value >= 0 /\ o = Offset(<<>>, Literal(e.value))
        \/ e.form = "load" /\ o = Offset(<<e.lo>>, {})
        \/ e.form = "pair" /\ o = Offset(<<e.lo, e.hi>>, {})
    BY <1>2, OffsetMatched
  <1> HIDE DEF o, c
  <1>5. \/ e.form = "absent" /\ c.byteOffset = 0 /\ c.offsetConstants = <<>>
        \/ e.form = "literal" /\ e.value >= 0 /\ c.byteOffset = e.value /\ c.offsetConstants = <<>>
        \/ e.form = "load" /\ c.byteOffset = 0 /\ c.offsetConstants = <<e.lo>>
        \/ e.form = "pair" /\ c.byteOffset = 0 /\ c.offsetConstants = <<e.lo, e.hi>>
    <2>1. ASSUME NEW v \in Int
          PROVE  (IF Literal(v) = {} THEN 0 ELSE CHOOSE x \in Literal(v) : TRUE) = v
      BY DEF Literal
    <2>2. \A a, b : Offset(a, b).ordinals = a /\ Offset(a, b).static = b
      BY DEF Offset
    <2>3. CASE e.form = "literal" /\ e.value >= 0 /\ o = Offset(<<>>, Literal(e.value))
      <3>1. o.ordinals = <<>> /\ o.static = Literal(e.value)
        BY <2>2, <2>3
      <3>2. c.byteOffset = e.value
        BY <1>1, <1>3, <2>1, <3>1
      <3> QED BY <1>3, <2>3, <3>1, <3>2
    <2>4. CASE o \in {Offset(<<>>, {}), Offset(<<e.lo>>, {}), Offset(<<e.lo, e.hi>>, {})}
      <3>1. o.static = {}
        BY <2>2, <2>4
      <3>2. c.byteOffset = 0
        BY <1>3, <3>1
      <3> QED BY <1>3, <1>4, <2>2, <2>3, <3>2
    <2> QED BY <1>4, <2>3, <2>4
  <1>6. c.byteOffset \in Nat /\ c.offsetConstants \in Seq(Nat)
    <2>1. <<>> \in Seq(Nat) /\ <<e.lo>> \in Seq(Nat) /\ <<e.lo, e.hi>> \in Seq(Nat)
      BY <1>1
    <2>2. e.value \in Int
      BY <1>1
    <2> HIDE DEF e
    <2>3. c.byteOffset \in Nat
      BY <1>5, <2>2
    <2>4. c.offsetConstants \in {<<>>, <<e.lo>>, <<e.lo, e.hi>>}
      BY <1>5
    <2>5. c.offsetConstants \in Seq(Nat)
      BY <2>1, <2>4
    <2> QED BY <2>3, <2>5
  <1>7. c \in Column
    <2>1. c.binding \in Nat /\ c.wordCount \in Nat /\ c.stride \in Nat
      BY <1>1, <1>3
    <2> QED BY <1>3, <1>6, <2>1, Zenon DEF Column
  <1> QED BY <1>3, <1>5, <1>7 DEF c

(* The verifier of the binding operations takes what the pass writes.      *)
LEMMA OperationsVerify ==
  ASSUME NEW s \in Sites, Analyzable(s)
  PROVE  VerifyBindingOffsets(BindingOp(s)) /\ BindingOp(s).words \in Nat
  <1> DEFINE e == s.offset
             o == MatchBindingOffset(e)
  <1>1. o # NoMatch /\ e.value \in Int /\ BindingOp(s).words \in Nat
    BY SiteType DEF Analyzable, BindingOp, NumElements
  <1>2. \/ o = Offset(<<>>, {}) \/ o = Offset(<<>>, Literal(e.value))
        \/ o = Offset(<<e.lo>>, {}) \/ o = Offset(<<e.lo, e.hi>>, {})
    BY <1>1, OffsetMatched
  <1>3. BindingOp(s).offset = o
    BY DEF BindingOp
  <1> HIDE DEF o
  <1>4. /\ Len(o.ordinals) \in 0 .. 2
        /\ o.ordinals = <<>> \/ o.static = {}
        /\ 0 \notin o.static
    BY <1>1, <1>2 DEF Offset, Literal
  <1> QED BY <1>1, <1>3, <1>4 DEF VerifyBindingOffsets

-----------------------------------------------------------------------------
(* What a dispatch passes.                                                 *)
LEMMA HostRef ==
  ASSUME NEW h \in Hosts \cup Maintained, NEW b \in 1 .. Len(h.bindings)
  PROVE  LET ref == h.bindings[b] IN
         /\ ref.offset \in Nat /\ ref.length \in Nat /\ RangeLength(ref) \in Int
         /\ ref.buffer \in Buffer
         /\ ref.buffer.at \in Nat /\ ref.buffer.length \in Nat /\ ref.buffer.size \in Nat
         /\ ref.buffer.base \in Nat /\ ref.buffer.strela \in BOOLEAN
         /\ ref.offset + RangeLength(ref) <= ref.buffer.length
         /\ ref.buffer.at + ref.buffer.length <= ref.buffer.size
         /\ ref.buffer.size + LineBytes <= AllocationLimit
  <1> DEFINE ref == h.bindings[b]
  <1>1. h \in Host /\ h.bindings \in Seq(Ref)
    BY AddressingAssumption DEF Host
  <1>2. ref \in Ref /\ b \in DOMAIN h.bindings
    BY <1>1, ElementOfSeq, LenProperties
  <1>3. /\ ref.offset + RangeLength(ref) <= ref.buffer.length
        /\ ref.buffer.at + ref.buffer.length <= ref.buffer.size
        /\ ref.buffer.size + LineBytes <= AllocationLimit
    BY <1>2, AddressingAssumption
  <1>4. ref.offset \in Nat /\ ref.length \in Nat /\ ref.buffer \in Buffer
    BY <1>2 DEF Ref
  <1>5. /\ ref.buffer.at \in Nat /\ ref.buffer.length \in Nat /\ ref.buffer.size \in Nat
        /\ ref.buffer.base \in Nat /\ ref.buffer.strela \in BOOLEAN
    BY <1>4 DEF Buffer
  <1>6. RangeLength(ref) \in Int
    BY <1>4, <1>5 DEF RangeLength
  <1> QED BY <1>3, <1>4, <1>5, <1>6

LEMMA ColumnType ==
  ASSUME NEW c \in Column
  PROVE  /\ c.binding \in Nat /\ c.byteOffset \in Nat /\ c.wordCount \in Nat
         /\ c.stride \in Nat /\ c.offsetConstants \in Seq(Nat)
  BY DEF Column

LEMMA OffsetType ==
  ASSUME NEW h \in Hosts \cup Maintained, NEW c \in Column, c.wordCount # 0,
         ColumnVerify(c, Len(h.bindings), Len(h.constants))
  PROVE  /\ ByteOffset(c, h.constants) \in 0 .. DeviceMod - 1
         /\ c.binding + 1 \in 1 .. Len(h.bindings)
  <1> DEFINE o == c.offsetConstants
  <1>1. h.constants \in Seq(0 .. Radix - 1) /\ Len(h.bindings) \in Nat
    BY AddressingAssumption, LenProperties DEF Host
  <1>2. /\ c.binding \in Nat /\ c.byteOffset \in Nat /\ o \in Seq(Nat)
        /\ c.binding < Len(h.bindings)
        /\ \A d \in DOMAIN o : o[d] < Len(h.constants)
    BY ColumnType DEF ColumnVerify
  <1>3. /\ DeviceMod \in Nat \ {0} /\ Radix \in Nat \ {0}
    BY Widths
  <1>4. ASSUME NEW d \in 1 .. Len(o)
        PROVE  h.constants[o[d] + 1] \in Nat
    <2>1. d \in DOMAIN o /\ o[d] \in Nat
      BY <1>2, LenProperties, ElementOfSeq
    <2>2. o[d] + 1 \in 1 .. Len(h.constants)
      BY <1>1, <1>2, <2>1, LenProperties
    <2>3. h.constants[o[d] + 1] \in 0 .. Radix - 1
      BY <1>1, <2>2, ElementOfSeq
    <2> QED BY <1>3, <2>3
  <1>5. Len(o) \in Nat
    BY <1>2, LenProperties
  <1> DEFINE low == IF Len(o) >= 1 THEN h.constants[o[1] + 1] ELSE 0
             high == IF Len(o) >= 2 THEN h.constants[o[2] + 1] * Radix ELSE 0
  <1>6. low \in Nat /\ high \in Nat
    BY <1>3, <1>4, <1>5
  <1>7. ByteOffset(c, h.constants) = ((c.byteOffset + low + high) % DeviceMod)
    BY DEF ByteOffset
  <1> HIDE DEF low, high
  <1>8. c.byteOffset + low + high \in Nat
    BY <1>2, <1>6
  <1>9. ByteOffset(c, h.constants) \in 0 .. DeviceMod - 1
    BY <1>3, <1>7, <1>8, DivMod
  <1>10. c.binding + 1 \in 1 .. Len(h.bindings)
    BY <1>1, <1>2
  <1> QED BY <1>9, <1>10

LEMMA SpanType ==
  ASSUME NEW c \in Column, NEW in \in BOOLEAN
  PROVE  SpanBytes(c, in) \in Nat
  <1> DEFINE strided == (c.wordCount - 1) * c.stride + 1
             words == IF in /\ c.stride # 1 THEN (strided % SizeMod) ELSE c.wordCount
  <1>1. /\ c.wordCount \in Nat /\ c.stride \in Nat
        /\ WordBytes \in Nat \ {0} /\ SizeMod \in Nat \ {0}
    BY ColumnType, Widths
  <1>2. strided \in Int
    BY <1>1
  <1>3. words \in Nat
    BY <1>1, <1>2
  <1>4. SpanBytes(c, in) = ((words * WordBytes) % SizeMod)
    BY DEF SpanBytes
  <1> HIDE DEF words
  <1> DEFINE x == words * WordBytes
  <1>5. x \in Nat
    BY <1>1, <1>3
  <1> HIDE DEF x
  <1>6. (x % SizeMod) \in 0 .. SizeMod - 1
    BY <1>1, <1>5, DivMod
  <1> QED BY <1>1, <1>4, <1>6 DEF x

(* A verified column meets none of the errors that name the column.        *)
LEMMA StatusOfVerified ==
  ASSUME NEW h \in Hosts \cup Maintained, NEW c \in Column, NEW in \in BOOLEAN,
         ColumnVerify(c, Len(h.bindings), Len(h.constants))
  PROVE  LET status == ResolveStatus(c, in, h.constants, h.bindings)
             ref == h.bindings[c.binding + 1]
             off == ByteOffset(c, h.constants)
         IN /\ status \in {"ok", "no buffer", "out of range", "not STRELA memory",
                          "not aligned"}
            /\ status = "ok" /\ c.wordCount # 0 =>
                 /\ ((off + SpanBytes(c, in)) % DeviceMod) <= RangeLength(ref)
                 /\ (AllocatedOffset(ref.buffer, ref.offset + off) % WordBytes) = 0
  <1>1. /\ c.binding \in Nat /\ c.offsetConstants \in Seq(Nat)
        /\ Len(h.bindings) \in Nat /\ Len(h.constants) \in Nat
    BY ColumnType, AddressingAssumption, LenProperties DEF Host
  <1>2. CASE c.wordCount = 0
    BY <1>2 DEF ResolveStatus
  <1>3. CASE c.wordCount # 0
    <2>1. ~(c.binding >= Len(h.bindings))
      BY <1>1, <1>3 DEF ColumnVerify
    <2>2. \A d \in DOMAIN c.offsetConstants : ~(c.offsetConstants[d] >= Len(h.constants))
      <3>1. \A d \in DOMAIN c.offsetConstants : c.offsetConstants[d] \in Nat
        BY <1>1, LenProperties, ElementOfSeq
      <3> QED BY <1>1, <1>3, <3>1 DEF ColumnVerify
    <2> DEFINE ref == h.bindings[c.binding + 1]
               off == ByteOffset(c, h.constants)
               past == ((off + SpanBytes(c, in)) % DeviceMod) > RangeLength(ref)
               odd == (AllocatedOffset(ref.buffer, ref.offset + off) % WordBytes) # 0
    <2>3. ResolveStatus(c, in, h.constants, h.bindings) =
            IF ~ref.bound THEN "no buffer"
            ELSE IF past THEN "out of range"
            ELSE IF ~ref.buffer.strela THEN "not STRELA memory"
            ELSE IF odd THEN "not aligned" ELSE "ok"
      BY <1>3, <2>1, <2>2, Zenon DEF ResolveStatus
    <2>4. RangeLength(ref) \in Int /\ ((off + SpanBytes(c, in)) % DeviceMod) \in Int
      <3>1. off \in Nat /\ c.binding + 1 \in 1 .. Len(h.bindings) /\ DeviceMod \in Nat \ {0}
        BY <1>3, OffsetType, Widths
      <3>2. SpanBytes(c, in) \in Nat
        BY SpanType
      <3> DEFINE end == off + SpanBytes(c, in)
      <3>3. end \in Nat
        BY <3>1, <3>2
      <3> HIDE DEF end
      <3>4. (end % DeviceMod) \in Int
        BY <3>1, <3>3
      <3>5. RangeLength(ref) \in Int
        BY <3>1, HostRef
      <3> QED BY <3>4, <3>5 DEF end
    <2>5. past \/ ((off + SpanBytes(c, in)) % DeviceMod) <= RangeLength(ref)
      BY <2>4
    <2> HIDE DEF past, odd
    <2>6. ResolveStatus(c, in, h.constants, h.bindings)
            \in {"ok", "no buffer", "out of range", "not STRELA memory", "not aligned"}
      BY <2>3, Zenon
    <2>7. ResolveStatus(c, in, h.constants, h.bindings) = "ok" => ~past /\ ~odd
      BY <2>3
    <2> QED BY <2>5, <2>6, <2>7 DEF odd
  <1> QED BY <1>2, <1>3

-----------------------------------------------------------------------------
(* A column that a dispatch does not make wrap around.                     *)
Step(c, in) == IF in THEN c.stride ELSE 1

LEMMA SpanSteps ==
  ASSUME NEW c \in Column, NEW in \in BOOLEAN, c.wordCount # 0
  PROVE  /\ TrueSpan(c, in) \in Nat /\ Step(c, in) \in Nat
         /\ \A w \in 0 .. c.wordCount - 1 :
              /\ w * Step(c, in) \in Nat /\ (w * Step(c, in)) * WordBytes \in Nat
              /\ (w * Step(c, in)) * WordBytes + WordBytes <= TrueSpan(c, in)
  <1> DEFINE st == Step(c, in)
             N == c.wordCount - 1
  <1>1. /\ c.wordCount \in Nat /\ c.stride \in Nat /\ WordBytes \in Nat \ {0}
    BY ColumnType, Widths
  <1>2. st \in Nat /\ N \in Nat
    BY <1>1 DEF Step
  <1>3. TrueSpan(c, in) = (N * st + 1) * WordBytes
    BY <1>1 DEF TrueSpan, Step
  <1> HIDE DEF st
  <1>4. N * st \in Nat /\ N * st + 1 \in Nat
    BY <1>1, <1>2
  <1>5. (N * st + 1) * WordBytes \in Nat
    BY <1>1, <1>4
  <1>6. ASSUME NEW w \in 0 .. N
        PROVE  /\ w * st \in Nat /\ (w * st) * WordBytes \in Nat
               /\ (w * st) * WordBytes + WordBytes <= (N * st + 1) * WordBytes
    <2>1. w * st \in Nat /\ w * st <= N * st
      BY <1>1, <1>2
    <2>2. w * st < N * st + 1
      BY <1>4, <2>1
    <2> HIDE DEF N
    <2> QED BY <1>1, <1>4, <2>1, <2>2, MulLess
  <1> QED BY <1>2, <1>3, <1>5, <1>6 DEF st

LEMMA SpanIsTrue ==
  ASSUME NEW c \in Column, NEW in \in BOOLEAN, c.wordCount # 0,
         TrueSpan(c, in) < SizeMod
  PROVE  SpanBytes(c, in) = TrueSpan(c, in)
  <1> DEFINE strided == (c.wordCount - 1) * c.stride + 1
             words == IF in /\ c.stride # 1 THEN strided ELSE c.wordCount
  <1>1. /\ c.wordCount \in Nat /\ c.stride \in Nat
        /\ WordBytes \in Nat \ {0} /\ SizeMod \in Nat \ {0}
    BY ColumnType, Widths
  <1>2. strided \in Nat
    BY <1>1
  <1> HIDE DEF strided
  <1>3. words \in Nat /\ TrueSpan(c, in) = words * WordBytes
    BY <1>1, <1>2 DEF TrueSpan, strided
  <1>4. words * WordBytes \in Nat /\ words <= words * WordBytes
    BY <1>1, <1>3
  <1>5. words \in 0 .. SizeMod - 1 /\ words * WordBytes \in 0 .. SizeMod - 1
    BY <1>1, <1>3, <1>4
  <1>6. (words % SizeMod) = words /\ ((words * WordBytes) % SizeMod) = words * WordBytes
    BY <1>1, <1>5, ModSmall
  <1>7. SpanBytes(c, in) = ((words * WordBytes) % SizeMod)
    <2>1. CASE in /\ c.stride # 1
      BY <1>6, <2>1 DEF SpanBytes, strided
    <2>2. CASE ~(in /\ c.stride # 1)
      BY <2>2 DEF SpanBytes
    <2> QED BY <2>1, <2>2
  <1> QED BY <1>3, <1>6, <1>7

LEMMA EndInside ==
  ASSUME NEW at \in Nat, NEW offset \in Nat, NEW off \in Nat, NEW span \in Nat,
         NEW length \in Nat, NEW size \in Nat,
         offset + off + span <= length, at + length <= size
  PROVE  at + offset + off + span <= size
  OBVIOUS

(* Where it is resolved to: aligned, and its end in the range, the buffer  *)
(* and the allocation.                                                     *)
LEMMA ResolvedInside ==
  ASSUME NEW h \in Hosts, NEW c \in Column, NEW in \in BOOLEAN,
         StaysBelow(c, in, h), c.wordCount # 0,
         ColumnVerify(c, Len(h.bindings), Len(h.constants)),
         ResolveStatus(c, in, h.constants, h.bindings) = "ok"
  PROVE  LET r == ColumnResolve(c, in, h.constants, h.bindings)
             ref == h.bindings[c.binding + 1]
             off == ByteOffset(c, h.constants)
         IN /\ r.buffer = ref.buffer /\ r.wordCount = c.wordCount
            /\ r.stride = Stride(c, in)
            /\ r.offset = ref.buffer.at + ref.offset + off
            /\ r.offset \in Nat /\ (r.offset % WordBytes) = 0
            /\ r.length = TrueSpan(c, in)
            /\ r.wordsFromBase = ref.buffer.base + r.offset \div WordBytes
            /\ off \in Nat /\ off + TrueSpan(c, in) <= RangeLength(ref)
            /\ r.offset + TrueSpan(c, in) <= ref.buffer.size
  <1> DEFINE ref == h.bindings[c.binding + 1]
             off == ByteOffset(c, h.constants)
             span == TrueSpan(c, in)
             r == ColumnResolve(c, in, h.constants, h.bindings)
  <1>1. /\ off \in 0 .. DeviceMod - 1 /\ c.binding + 1 \in 1 .. Len(h.bindings)
        /\ DeviceMod \in Nat \ {0} /\ LineBytes \in Nat \ {0}
        /\ AllocationLimit \in Nat /\ AllocationLimit <= DeviceMod
    BY OffsetType, Widths
  <1>2. /\ ref.offset \in Nat /\ RangeLength(ref) \in Int
        /\ ref.buffer.at \in Nat /\ ref.buffer.length \in Nat /\ ref.buffer.size \in Nat
        /\ ref.offset + RangeLength(ref) <= ref.buffer.length
        /\ ref.buffer.at + ref.buffer.length <= ref.buffer.size
        /\ ref.buffer.size + LineBytes <= AllocationLimit
    BY <1>1, HostRef
  <1>3. span < SizeMod /\ off + span < DeviceMod
    BY DEF StaysBelow
  <1>4. span \in Nat /\ SpanBytes(c, in) = span
    BY <1>3, SpanSteps, SpanIsTrue
  <1>5. /\ ((off + span) % DeviceMod) <= RangeLength(ref)
        /\ (AllocatedOffset(ref.buffer, ref.offset + off) % WordBytes) = 0
    BY <1>4, StatusOfVerified
  <1>6. r = [buffer |-> ref.buffer,
             offset |-> AllocatedOffset(ref.buffer, ref.offset + off),
             length |-> SpanBytes(c, in),
             wordsFromBase |-> ref.buffer.base
               + AllocatedOffset(ref.buffer, ref.offset + off) \div WordBytes,
             wordCount |-> c.wordCount,
             stride |-> Stride(c, in)]
    BY DEF ColumnResolve
  <1> HIDE DEF ref, off, span, r
  <1>7. ((off + span) % DeviceMod) = off + span
    <2>1. off + span \in 0 .. DeviceMod - 1
      BY <1>1, <1>3, <1>4
    <2> QED BY <1>1, <2>1, ModSmall
  <1>8. off + span <= RangeLength(ref)
    BY <1>5, <1>7
  <1> DEFINE x == ref.buffer.at + (ref.offset + off)
  <1>9. x \in Nat /\ x + span <= ref.buffer.size /\ x = ref.buffer.at + ref.offset + off
    <2>1. off \in Nat
      BY <1>1
    <2>2. ref.offset + off + span <= ref.buffer.length
      <3> DEFINE start == ref.offset
                 range == RangeLength(ref)
                 length == ref.buffer.length
      <3>1. start \in Nat /\ range \in Int /\ length \in Nat /\ start + range <= length
        BY <1>2
      <3>2. off + span <= range /\ span \in Nat
        BY <1>4, <1>8
      <3> HIDE DEF start, range, length
      <3>3. start + off + span <= length
        BY <2>1, <3>1, <3>2
      <3> QED BY <3>3 DEF start, length
    <2>3. x = ref.buffer.at + ref.offset + off /\ x \in Nat
      BY <1>2, <2>1
    <2>4. ref.buffer.at + ref.offset + off + span <= ref.buffer.size
      <3> DEFINE at == ref.buffer.at
                 start == ref.offset
                 length == ref.buffer.length
                 size == ref.buffer.size
      <3>1. at \in Nat /\ start \in Nat /\ length \in Nat /\ size \in Nat
        BY <1>2
      <3>2. start + off + span <= length /\ at + length <= size
        BY <1>2, <2>2
      <3>3. span \in Nat
        BY <1>4
      <3> HIDE DEF at, start, length, size
      <3>4. at + start + off + span <= size
        BY <2>1, <3>1, <3>2, <3>3, EndInside
      <3> QED BY <3>4 DEF at, start, size
    <2> QED BY <2>3, <2>4
  <1>10. x \in 0 .. DeviceMod - 1
    <2> DEFINE size == ref.buffer.size
    <2>1. x \in Nat /\ x + span <= size /\ size \in Nat /\ size + LineBytes <= AllocationLimit
      BY <1>2, <1>9
    <2> HIDE DEF x, size, span
    <2>2. span \in Nat
      BY <1>4
    <2> QED BY <1>1, <2>1, <2>2
  <1> HIDE DEF x
  <1>11. (x % DeviceMod) = x
    BY <1>1, <1>10, ModSmall
  <1>12. AllocatedOffset(ref.buffer, ref.offset + off) = x
    BY <1>11 DEF AllocatedOffset, x
  <1>13. /\ r.buffer = ref.buffer /\ r.wordCount = c.wordCount /\ r.stride = Stride(c, in)
         /\ r.offset = x /\ r.length = span
         /\ r.wordsFromBase = ref.buffer.base + x \div WordBytes
    BY <1>4, <1>6, <1>12
  <1>14. off \in Nat /\ (x % WordBytes) = 0
    BY <1>1, <1>5, <1>12
  <1> QED BY <1>8, <1>9, <1>13, <1>14 DEF ref, off, span, r

(* The bytes of the words it moves.                                        *)
LEMMA MovedBytes ==
  ASSUME NEW c \in Column, NEW in \in BOOLEAN, c.wordCount # 0,
         NEW offset \in Nat, (offset % WordBytes) = 0,
         NEW w \in 0 .. c.wordCount - 1
  PROVE  LET v == offset \div WordBytes + w * Step(c, in)
             x == offset + (w * Step(c, in)) * WordBytes
         IN /\ v \in Nat /\ x \in Nat /\ v * WordBytes = x /\ x \div WordBytes = v
            /\ offset <= x /\ x + WordBytes <= offset + TrueSpan(c, in)
  <1> DEFINE t == w * Step(c, in)
             d == offset \div WordBytes
  <1>1. /\ WordBytes \in Nat \ {0} /\ t \in Nat /\ t * WordBytes \in Nat
        /\ t * WordBytes + WordBytes <= TrueSpan(c, in) /\ TrueSpan(c, in) \in Nat
    BY SpanSteps, Widths
  <1>2. d \in Nat /\ offset = d * WordBytes + (offset % WordBytes)
    BY <1>1, DivMod
  <1> HIDE DEF t, d
  <1>3. d + t \in Nat /\ (d + t) * WordBytes = d * WordBytes + t * WordBytes
        /\ d * WordBytes \in Nat
    BY <1>1, <1>2
  <1>4. (d + t) * WordBytes = offset + t * WordBytes
    BY <1>2, <1>3
  <1>5. 0 \in 0 .. WordBytes - 1 /\ offset + t * WordBytes = (d + t) * WordBytes + 0
    BY <1>1, <1>3, <1>4
  <1>6. (offset + t * WordBytes) \div WordBytes = d + t
    <2> DEFINE x == offset + t * WordBytes
               v == d + t
    <2>1. v \in Nat /\ x = v * WordBytes + 0
      BY <1>3, <1>5
    <2> HIDE DEF x, v
    <2>2. x \div WordBytes = v
      BY <1>1, <1>5, <2>1, QuotientUnique
    <2> QED BY <2>2 DEF x, v
  <1>7. /\ offset + t * WordBytes \in Nat /\ offset <= offset + t * WordBytes
        /\ offset + t * WordBytes + WordBytes <= offset + TrueSpan(c, in)
    BY <1>1
  <1> QED BY <1>3, <1>4, <1>6, <1>7 DEF t, d

-----------------------------------------------------------------------------
(* Where a column comes from, and what each stage has found out about it.  *)
Compiled ==
  /\ site \in Sites /\ isInput = site.isInput
  /\ Analyzable(site) /\ BindingOp(site).words <= MaxColumnWords
  /\ column = GetColumn(BindingOp(site))

Loaded ==
  site = NoSite /\ \E c \in Columns : column = c.column /\ isInput = c.isInput

Passed == ColumnVerify(column, Len(host.bindings), Len(host.constants))

ColumnInv ==
  /\ stage \in {"source", "materialized"} =>
       site \in Sites /\ isInput = site.isInput /\ host \in Hosts
  /\ stage = "materialized" => Analyzable(site) /\ op = BindingOp(site)
  /\ stage \in {"column", "not loaded", "verified", "resolved", "synced"} =>
       (Compiled \/ Loaded) /\ host \in Hosts
  /\ stage \in {"verified", "resolved", "synced"} => Passed
  /\ stage = "not loaded" => ~Passed
  /\ stage \notin {"malformed", "no binding", "no constants"}

SyncInv ==
  /\ Resolved =>
       /\ ResolveStatus(column, isInput, host.constants, host.bindings) = "ok"
       /\ column.wordCount # 0
       /\ resolved = ColumnResolve(column, isInput, host.constants, host.bindings)
  /\ stage = "synced" =>
       synced = SyncedWords(resolved.buffer, resolved.offset, resolved.length)
  /\ stage \in {"maintain", "maintained"} => host \in Maintained
  /\ stage = "maintained" =>
       LET ref == host.bindings[1] IN
       synced = SyncedWords(ref.buffer, AllocatedOffset(ref.buffer, ref.offset), ref.length)

IInv == TypeOK /\ column \in Column /\ ColumnInv /\ SyncInv

LEMMA InTheExecutable ==
  ASSUME Compiled \/ Loaded
  PROVE  column \in Column /\ isInput \in BOOLEAN
  <1>1. CASE Compiled
    BY <1>1, CompiledColumn, SiteType DEF Compiled
  <1>2. CASE Loaded
    <2>1. PICK c \in Columns : column = c.column /\ isInput = c.isInput
      BY <1>2 DEF Loaded
    <2>2. c \in [column : Column, isInput : BOOLEAN]
      BY AddressingAssumption
    <2> QED BY <2>1, <2>2
  <1> QED BY <1>1, <1>2

LEMMA SyncedType ==
  ASSUME NEW buffer \in Buffer, NEW offset \in Nat, NEW length \in Nat
  PROVE  SyncedWords(buffer, offset, length) \subseteq Nat
  <1> DEFINE lines == BufferLines(offset, length)
             start == offset - (offset % LineBytes)
             z == (offset + length) % DeviceMod
             y == (z + LineBytes - 1) % DeviceMod
             end == y - (y % LineBytes)
             far == end + DeviceMod - start
             size == far % DeviceMod
  <1>1. /\ LineBytes \in Nat \ {0} /\ WordBytes \in Nat \ {0} /\ DeviceMod \in Nat \ {0}
        /\ SizeMod \in Nat \ {0} /\ buffer.base \in Nat
    BY Widths DEF Buffer
  <1>2. start \in Nat
    <2>1. /\ offset \div LineBytes \in Nat /\ (offset % LineBytes) \in 0 .. LineBytes - 1
          /\ offset = (offset \div LineBytes) * LineBytes + (offset % LineBytes)
      BY <1>1, DivMod
    <2>2. (offset \div LineBytes) * LineBytes \in Nat
      BY <1>1, <2>1
    <2> QED BY <2>1, <2>2
  <1>3. z \in Nat
    BY <1>1
  <1> HIDE DEF z
  <1>4. y \in Nat
    BY <1>1, <1>3
  <1>5. /\ lines.first = (start \div WordBytes) % SizeMod
        /\ lines.count = (size \div WordBytes) % SizeMod
    BY DEF BufferLines, Align, z
  <1> HIDE DEF y, start
  <1>6. end \in Int
    BY <1>1, <1>4
  <1> HIDE DEF end
  <1>7. far \in Int
    BY <1>1, <1>2, <1>6
  <1> HIDE DEF far
  <1>8. size \in Nat
    BY <1>1, <1>7
  <1> HIDE DEF size, lines
  <1>9. lines.first \in Nat /\ lines.count \in Nat
    <2>1. start \div WordBytes \in Nat /\ size \div WordBytes \in Nat
      BY <1>1, <1>2, <1>8
    <2> QED BY <1>1, <1>5, <2>1
  <1>10. SyncedWords(buffer, offset, length) =
           {buffer.base + lines.first + d : d \in 0 .. lines.count - 1}
    BY DEF SyncedWords, lines
  <1> QED BY <1>1, <1>9, <1>10

-----------------------------------------------------------------------------
(* The stages.                                                             *)
LEMMA NoColumnType == NoColumn \in Column
  <1>1. <<>> \in Seq(Nat)
    OBVIOUS
  <1> QED BY <1>1 DEF NoColumn, Column

LEMMA InitialisesInvariant == Init => IInv
  <1> SUFFICES ASSUME Init PROVE IInv
    OBVIOUS
  <1>1. op.words \in Nat /\ resolved.wordCount \in Nat /\ synced \subseteq Nat
    BY DEF Init, NoOp, Unresolved
  <1>2. CASE stage = "source" /\ host \in Hosts /\ site \in Sites /\ isInput = site.isInput
             /\ column = NoColumn
    <2>1. column \in Column
      BY <1>2, NoColumnType
    <2>2. TypeOK
      BY <1>1, <1>2, <2>1, ColumnType DEF TypeOK
    <2>3. ColumnInv
      BY <1>2, Zenon DEF ColumnInv
    <2> QED BY <1>2, <2>1, <2>2, <2>3 DEF IInv, SyncInv, Resolved
  <1>3. CASE stage = "column" /\ host \in Hosts /\ site = NoSite
             /\ \E c \in Columns : column = c.column /\ isInput = c.isInput
    <2>1. Loaded
      BY <1>3 DEF Loaded
    <2>2. column \in Column
      BY <2>1, InTheExecutable
    <2>3. TypeOK
      BY <1>1, <1>3, <2>2, ColumnType DEF TypeOK
    <2>4. ColumnInv
      BY <1>3, <2>1 DEF ColumnInv
    <2> QED BY <1>3, <2>2, <2>3, <2>4 DEF IInv, SyncInv, Resolved
  <1>4. CASE stage = "maintain" /\ host \in Maintained /\ column = NoColumn
    <2>1. column \in Column
      BY <1>4, NoColumnType
    <2>2. TypeOK
      BY <1>1, <1>4, <2>1, ColumnType DEF TypeOK
    <2>3. ColumnInv
      BY <1>4 DEF ColumnInv
    <2> QED BY <1>4, <2>1, <2>2, <2>3 DEF IInv, SyncInv, Resolved
  <1> QED BY <1>2, <1>3, <1>4, Zenon DEF Init

LEMMA MaterializeKeeps ==
  ASSUME IInv, Materialize
  PROVE  IInv'
  <1>1. /\ stage = "source" /\ UNCHANGED <<site, isInput, column, host, resolved, synced>>
        /\ site \in Sites /\ isInput = site.isInput /\ host \in Hosts
        /\ column \in Column /\ TypeOK
    BY DEF Materialize, IInv, ColumnInv
  <1>2. CASE Analyzable(site)
    <2>1. VerifyBindingOffsets(BindingOp(site)) /\ BindingOp(site).words \in Nat
      BY <1>1, <1>2, OperationsVerify
    <2>2. op' = BindingOp(site) /\ stage' = "materialized"
      BY <1>2, <2>1 DEF Materialize
    <2>3. Analyzable(site)' /\ op' = BindingOp(site)'
      BY <1>1, <1>2, <2>2
    <2>4. TypeOK'
      BY <1>1, <2>1, <2>2 DEF TypeOK
    <2> QED BY <1>1, <2>2, <2>3, <2>4 DEF IInv, ColumnInv, SyncInv, Resolved
  <1>3. CASE ~Analyzable(site)
    <2>1. stage' = "not compiled" /\ op' = op
      BY <1>3 DEF Materialize
    <2>2. TypeOK'
      BY <1>1, <2>1 DEF TypeOK
    <2> QED BY <1>1, <2>1, <2>2 DEF IInv, ColumnInv, SyncInv, Resolved
  <1> QED BY <1>2, <1>3

LEMMA SerializeKeeps ==
  ASSUME IInv, Serialize
  PROVE  IInv'
  <1>1. /\ stage = "materialized" /\ UNCHANGED <<site, isInput, op, host, resolved, synced>>
        /\ site \in Sites /\ isInput = site.isInput /\ host \in Hosts
        /\ Analyzable(site) /\ op = BindingOp(site)
        /\ column \in Column /\ TypeOK
    BY DEF Serialize, IInv, ColumnInv
  <1>2. CASE op.words <= MaxColumnWords
    <2>1. stage' = "column" /\ column' = GetColumn(BindingOp(site))
      BY <1>1, <1>2 DEF Serialize
    <2>2. Compiled'
      BY <1>1, <1>2, <2>1 DEF Compiled
    <2>3. column' \in Column
      BY <1>1, <2>1, CompiledColumn
    <2>4. TypeOK'
      BY <1>1, <2>1, <2>3, ColumnType DEF TypeOK
    <2> QED BY <1>1, <2>1, <2>2, <2>3, <2>4 DEF IInv, ColumnInv, SyncInv, Resolved
  <1>3. CASE ~(op.words <= MaxColumnWords)
    <2>1. stage' = "not compiled" /\ column' = column
      BY <1>3 DEF Serialize
    <2>2. TypeOK'
      BY <1>1, <2>1 DEF TypeOK
    <2> QED BY <1>1, <2>1, <2>2 DEF IInv, ColumnInv, SyncInv, Resolved
  <1> QED BY <1>2, <1>3

(* From verification on the column and the dispatch stay what they are.    *)
LEMMA ColumnStays ==
  ASSUME UNCHANGED <<site, isInput, column, host>>
  PROVE  /\ (Compiled \/ Loaded)' = (Compiled \/ Loaded)
         /\ Passed' = Passed
  <1>1. Compiled' = Compiled
    BY DEF Compiled
  <1>2. Loaded' = Loaded
    BY DEF Loaded
  <1>3. Passed' = Passed
    BY DEF Passed
  <1> QED BY <1>1, <1>2, <1>3

LEMMA VerifyKeeps ==
  ASSUME IInv, Verify
  PROVE  IInv'
  <1>1. /\ stage = "column"
        /\ UNCHANGED <<site, isInput, op, column, host, resolved, synced>>
        /\ Compiled \/ Loaded
        /\ host \in Hosts /\ column \in Column /\ TypeOK
    BY DEF Verify, IInv, ColumnInv
  <1>2. /\ (Compiled \/ Loaded)' = (Compiled \/ Loaded)
        /\ Passed' = Passed
    BY <1>1, ColumnStays
  <1>3. CASE Passed
    <2>1. stage' = "verified"
      BY <1>3 DEF Verify, Passed
    <2>2. TypeOK'
      BY <1>1, <2>1 DEF TypeOK
    <2> QED BY <1>1, <1>2, <1>3, <2>1, <2>2 DEF IInv, ColumnInv, SyncInv, Resolved
  <1>4. CASE ~Passed
    <2>1. stage' = "not loaded"
      BY <1>4 DEF Verify, Passed
    <2>2. TypeOK'
      BY <1>1, <2>1 DEF TypeOK
    <2> QED BY <1>1, <1>2, <1>4, <2>1, <2>2 DEF IInv, ColumnInv, SyncInv, Resolved
  <1> QED BY <1>3, <1>4

LEMMA ResolveKeeps ==
  ASSUME IInv, Resolve
  PROVE  IInv'
  <1> DEFINE status == ResolveStatus(column, isInput, host.constants, host.bindings)
  <1>1. /\ stage = "verified"
        /\ UNCHANGED <<site, isInput, op, column, host, synced>>
        /\ Compiled \/ Loaded
        /\ Passed /\ host \in Hosts /\ column \in Column /\ TypeOK
    BY DEF Resolve, IInv, ColumnInv
  <1>2. /\ (Compiled \/ Loaded)' = (Compiled \/ Loaded)
        /\ Passed' = Passed /\ status' = status
    BY <1>1, ColumnStays
  <1>3. status \in {"ok", "no buffer", "out of range", "not STRELA memory", "not aligned"}
    <2>1. isInput \in BOOLEAN
      BY <1>1, InTheExecutable
    <2> QED BY <1>1, <2>1, StatusOfVerified DEF Passed
  <1>4. CASE status = "ok" /\ column.wordCount # 0
    <2>1. /\ stage' = "resolved"
          /\ resolved' = ColumnResolve(column, isInput, host.constants, host.bindings)
      BY <1>4 DEF Resolve
    <2>2. resolved'.wordCount = column.wordCount
      BY <2>1 DEF ColumnResolve
    <2>3. TypeOK'
      BY <1>1, <2>1, <2>2 DEF TypeOK
    <2>4. resolved' = ColumnResolve(column, isInput, host.constants, host.bindings)'
      BY <1>1, <2>1
    <2> QED BY <1>1, <1>2, <1>4, <2>1, <2>3, <2>4 DEF IInv, ColumnInv, SyncInv, Resolved
  <1>5. CASE ~(status = "ok" /\ column.wordCount # 0)
    <2>1. /\ stage' = (IF status = "ok" THEN "unused" ELSE status)
          /\ resolved' = resolved
      BY <1>5 DEF Resolve
    <2>2. stage' \in {"unused", "no buffer", "out of range", "not STRELA memory",
                       "not aligned"}
      BY <1>3, <2>1
    <2>3. TypeOK'
      BY <1>1, <2>1, <2>2 DEF TypeOK
    <2> QED BY <1>1, <2>2, <2>3 DEF IInv, ColumnInv, SyncInv, Resolved
  <1> QED BY <1>4, <1>5

LEMMA ResolvedType ==
  ASSUME IInv, Resolved
  PROVE  resolved.buffer \in Buffer /\ resolved.offset \in Nat /\ resolved.length \in Nat
  <1> DEFINE ref == host.bindings[column.binding + 1]
             off == ByteOffset(column, host.constants)
  <1>1. /\ Passed /\ host \in Hosts /\ column \in Column /\ column.wordCount # 0
        /\ isInput \in BOOLEAN
        /\ resolved = ColumnResolve(column, isInput, host.constants, host.bindings)
    BY InTheExecutable DEF IInv, ColumnInv, SyncInv, Resolved
  <1>2. off \in Nat /\ column.binding + 1 \in 1 .. Len(host.bindings)
    BY <1>1, OffsetType, Widths DEF Passed
  <1>3. ref.buffer \in Buffer /\ ref.offset \in Nat /\ ref.buffer.at \in Nat
    BY <1>1, <1>2, HostRef
  <1>4. SpanBytes(column, isInput) \in Nat
    BY <1>1, SpanType
  <1>5. /\ resolved.buffer = ref.buffer
        /\ resolved.offset = AllocatedOffset(ref.buffer, ref.offset + off)
        /\ resolved.length = SpanBytes(column, isInput)
    BY <1>1 DEF ColumnResolve
  <1> HIDE DEF ref, off
  <1>6. AllocatedOffset(ref.buffer, ref.offset + off) \in Nat
    <2> DEFINE x == ref.buffer.at + (ref.offset + off)
    <2>1. x \in Nat
      BY <1>2, <1>3
    <2> HIDE DEF x
    <2>2. (x % DeviceMod) \in Nat
      BY <2>1, Widths
    <2> QED BY <2>2 DEF AllocatedOffset, x
  <1> QED BY <1>3, <1>4, <1>5, <1>6

LEMMA SyncKeeps ==
  ASSUME IInv, Sync
  PROVE  IInv'
  <1>1. /\ stage = "resolved" /\ stage' = "synced"
        /\ synced' = SyncedWords(resolved.buffer, resolved.offset, resolved.length)
        /\ UNCHANGED <<site, isInput, op, column, host, resolved>>
    BY DEF Sync
  <1>2. synced' \subseteq Nat
    BY <1>1, ResolvedType, SyncedType DEF Resolved
  <1>3. TypeOK'
    BY <1>1, <1>2 DEF IInv, TypeOK
  <1>4. /\ (Compiled \/ Loaded)' = (Compiled \/ Loaded)
        /\ Passed' = Passed
    BY <1>1, ColumnStays
  <1>5. ColumnInv'
    BY <1>1, <1>4 DEF IInv, ColumnInv
  <1>6. /\ ResolveStatus(column, isInput, host.constants, host.bindings) = "ok"
        /\ column.wordCount # 0
        /\ resolved = ColumnResolve(column, isInput, host.constants, host.bindings)
    BY <1>1 DEF IInv, SyncInv, Resolved
  <1>7. SyncInv'
    BY <1>1, <1>6 DEF SyncInv
  <1> QED BY <1>1, <1>3, <1>5, <1>7 DEF IInv

LEMMA MaintainKeeps ==
  ASSUME IInv, Maintain
  PROVE  IInv'
  <1> DEFINE ref == host.bindings[1]
  <1>1. /\ stage = "maintain" /\ host \in Maintained /\ column \in Column /\ TypeOK
        /\ UNCHANGED <<site, isInput, op, column, host, resolved>>
    BY DEF Maintain, IInv, SyncInv
  <1>2. /\ ref.buffer \in Buffer /\ ref.offset \in Nat /\ ref.length \in Nat
        /\ ref.buffer.at \in Nat
    BY <1>1, AddressingAssumption, HostRef
  <1>3. CASE ref.buffer.strela
    <2>1. /\ stage' = "maintained"
          /\ synced' = SyncedWords(ref.buffer, AllocatedOffset(ref.buffer, ref.offset), ref.length)
      BY <1>3 DEF Maintain
    <2>2. AllocatedOffset(ref.buffer, ref.offset) \in Nat
      BY <1>2, Widths DEF AllocatedOffset
    <2>3. TypeOK'
      BY <1>1, <1>2, <2>1, <2>2, SyncedType DEF TypeOK
    <2>4. ColumnInv'
      BY <1>1, <2>1 DEF ColumnInv
    <2>5. SyncInv'
      BY <1>1, <2>1 DEF SyncInv, Resolved
    <2> QED BY <1>1, <2>3, <2>4, <2>5 DEF IInv
  <1>4. CASE ~ref.buffer.strela
    <2>1. stage' = "not STRELA memory" /\ synced' = synced
      BY <1>4 DEF Maintain
    <2>2. TypeOK'
      BY <1>1, <2>1 DEF TypeOK
    <2> QED BY <1>1, <2>1, <2>2 DEF IInv, ColumnInv, SyncInv, Resolved
  <1> QED BY <1>3, <1>4

LEMMA NextKeepsInvariant == IInv /\ [Next]_vars => IInv'
  <1> SUFFICES ASSUME IInv, [Next]_vars PROVE IInv'
    OBVIOUS
  <1>1. CASE UNCHANGED vars
    <2>1. UNCHANGED <<stage, site, isInput, op, column, host, resolved, synced>>
      BY <1>1 DEF vars
    <2>2. /\ (Compiled \/ Loaded)' = (Compiled \/ Loaded)
          /\ Passed' = Passed
      BY <2>1, ColumnStays
    <2>3. TypeOK'
      BY <2>1 DEF IInv, TypeOK
    <2>4. ColumnInv'
      BY <2>1, <2>2 DEF IInv, ColumnInv
    <2>5. SyncInv'
      BY <2>1 DEF IInv, SyncInv, Resolved
    <2> QED BY <2>1, <2>3, <2>4, <2>5 DEF IInv
  <1> QED BY <1>1, MaterializeKeeps, SerializeKeeps, VerifyKeeps, ResolveKeeps, SyncKeeps,
             MaintainKeeps DEF Next

(* At every stage of a column: it is one that was given or the one         *)
(* compiled from its source, it has passed the checks of the stages before,*)
(* and what was synchronised is what its range names.                      *)
THEOREM AddressingInvariance == Spec => []IInv
  BY InitialisesInvariant, NextKeepsInvariant, PTL DEF Spec

(* Everything has its type (command_buffer.c:225-240).                     *)
THEOREM AddressingTypes == Spec => []TypeOK
  <1>1. IInv => TypeOK
    BY DEF IInv
  <1> QED BY <1>1, AddressingInvariance, PTL

-----------------------------------------------------------------------------
(* A column whose source is in its layout passes the runtime's checks.     *)
LEMMA CompiledPasses ==
  ASSUME Compiled, SourceIsInLayout
  PROVE  Passed
  <1> DEFINE e == site.offset
  <1>1. /\ column \in Column /\ column.binding = site.binding
        /\ \/ e.form = "absent" /\ column.byteOffset = 0 /\ column.offsetConstants = <<>>
           \/ e.form = "literal" /\ column.byteOffset = e.value /\ column.offsetConstants = <<>>
           \/ e.form = "load" /\ column.byteOffset = 0 /\ column.offsetConstants = <<e.lo>>
           \/ e.form = "pair" /\ column.byteOffset = 0 /\ column.offsetConstants = <<e.lo, e.hi>>
    BY CompiledColumn DEF Compiled
  <1>2. WordBytes \in Nat \ {0} /\ (0 % WordBytes) = 0
    BY Widths, ModSmall
  <1>3. column.binding < Len(host.bindings)
    BY <1>1 DEF SourceIsInLayout
  <1>4. (column.byteOffset % WordBytes) = 0
    BY <1>1, <1>2 DEF SourceIsInLayout
  <1>5. /\ Len(column.offsetConstants) <= MaxOffsetConstants
        /\ \A d \in DOMAIN column.offsetConstants :
             column.offsetConstants[d] < Len(host.constants)
    <2>1. CASE column.offsetConstants = <<>>
      BY <2>1 DEF MaxOffsetConstants
    <2>2. CASE e.form = "load" /\ column.offsetConstants = <<e.lo>>
      BY <2>2 DEF MaxOffsetConstants, SourceIsInLayout
    <2>3. CASE e.form = "pair" /\ column.offsetConstants = <<e.lo, e.hi>>
      BY <2>3 DEF MaxOffsetConstants, SourceIsInLayout
    <2> QED BY <1>1, <2>1, <2>2, <2>3
  <1> QED BY <1>3, <1>4, <1>5 DEF Passed, ColumnVerify

(* What the pass accepts, the verifier of its operations accepts; a column *)
(* it wrote is refused only with its source outside of its layout; and a   *)
(* column that was loaded meets no error of its own when it is dispatched  *)
(* (StrelaOps.cpp:5-25, executable.c:38-67).                               *)
THEOREM ColumnsAreAccepted == Spec => []ColumnsLoadAndRun
  <1>1. IInv => ColumnsLoadAndRun
    <2> SUFFICES ASSUME IInv PROVE ColumnsLoadAndRun
      OBVIOUS
    <2>1. stage \notin {"malformed", "no binding", "no constants"}
      BY DEF IInv, ColumnInv
    <2>2. ASSUME stage = "not loaded", site # NoSite
          PROVE  ~SourceIsInLayout
      <3>1. Compiled /\ ~Passed
        BY <2>2 DEF IInv, ColumnInv, Loaded
      <3> QED BY <3>1, CompiledPasses
    <2> QED BY <2>1, <2>2 DEF ColumnsLoadAndRun
  <1> QED BY <1>1, AddressingInvariance, PTL

-----------------------------------------------------------------------------
(* A resolved column, of a dispatch that does not make it wrap around.     *)
LEMMA ResolvedFacts ==
  ASSUME NothingWraps, IInv, Resolved
  PROVE  LET ref == host.bindings[column.binding + 1]
             off == ByteOffset(column, host.constants)
             span == TrueSpan(column, isInput)
         IN /\ column \in Column /\ isInput \in BOOLEAN /\ column.wordCount # 0
            /\ Compiled \/ Loaded
            /\ ref.buffer \in Buffer /\ ref.offset \in Nat /\ RangeLength(ref) \in Int
            /\ ref.buffer.size + LineBytes <= AllocationLimit
            /\ resolved.buffer = ref.buffer /\ resolved.wordCount = column.wordCount
            /\ resolved.stride = Stride(column, isInput)
            /\ resolved.offset = ref.buffer.at + ref.offset + off
            /\ resolved.offset \in Nat /\ (resolved.offset % WordBytes) = 0
            /\ resolved.length = span /\ span \in Nat
            /\ resolved.wordsFromBase = ref.buffer.base + resolved.offset \div WordBytes
            /\ off \in Nat /\ off + span <= RangeLength(ref)
            /\ resolved.offset + span <= ref.buffer.size
  <1>1. /\ Passed /\ host \in Hosts /\ column \in Column /\ column.wordCount # 0
        /\ isInput \in BOOLEAN
        /\ Compiled \/ Loaded
        /\ ResolveStatus(column, isInput, host.constants, host.bindings) = "ok"
        /\ resolved = ColumnResolve(column, isInput, host.constants, host.bindings)
    BY InTheExecutable DEF IInv, ColumnInv, SyncInv, Resolved
  <1>2. StaysBelow(column, isInput, host)
    <2>1. CASE Compiled
      BY <1>1, <2>1 DEF NothingWraps, Compiled
    <2>2. CASE Loaded
      <3>1. PICK c \in Columns : column = c.column /\ isInput = c.isInput
        BY <2>2 DEF Loaded
      <3>2. StaysBelow(c.column, c.isInput, host)
        BY <1>1 DEF NothingWraps
      <3> QED BY <3>1, <3>2
    <2> QED BY <1>1, <2>1, <2>2
  <1>3. TrueSpan(column, isInput) \in Nat
    <2>1. column \in Column /\ isInput \in BOOLEAN /\ column.wordCount # 0
      BY <1>1
    <2> QED BY <2>1, SpanSteps, Zenon
  <1>4. LET ref == host.bindings[column.binding + 1] IN
        /\ ref.buffer \in Buffer /\ ref.offset \in Nat /\ RangeLength(ref) \in Int
        /\ ref.buffer.size + LineBytes <= AllocationLimit
    <2>1. column.binding + 1 \in 1 .. Len(host.bindings)
      BY <1>1, OffsetType DEF Passed
    <2> QED BY <1>1, <2>1, HostRef
  <1>5. /\ host \in Hosts /\ column \in Column /\ isInput \in BOOLEAN
        /\ column.wordCount # 0
        /\ ColumnVerify(column, Len(host.bindings), Len(host.constants))
        /\ ResolveStatus(column, isInput, host.constants, host.bindings) = "ok"
        /\ resolved = ColumnResolve(column, isInput, host.constants, host.bindings)
    BY <1>1 DEF Passed
  <1>6. LET ref == host.bindings[column.binding + 1]
            off == ByteOffset(column, host.constants)
            span == TrueSpan(column, isInput)
        IN /\ resolved.buffer = ref.buffer /\ resolved.wordCount = column.wordCount
           /\ resolved.stride = Stride(column, isInput)
           /\ resolved.offset = ref.buffer.at + ref.offset + off
           /\ resolved.offset \in Nat /\ (resolved.offset % WordBytes) = 0
           /\ resolved.length = span
           /\ resolved.wordsFromBase = ref.buffer.base + resolved.offset \div WordBytes
           /\ off \in Nat /\ off + span <= RangeLength(ref)
           /\ resolved.offset + span <= ref.buffer.size
    BY <1>2, <1>5, ResolvedInside, Zenon
  <1> QED BY <1>1, <1>3, <1>4, <1>6, Zenon

(* The words the CGRA moves, one by one.                                   *)
LEMMA MovedWords ==
  ASSUME NothingWraps, IInv, Resolved
  PROVE  CgraWords = {resolved.buffer.base
                        + (resolved.offset \div WordBytes + t * Step(column, isInput)) :
                        t \in 0 .. column.wordCount - 1}
  <1> DEFINE base == resolved.buffer.base
             d == resolved.offset \div WordBytes
  <1>1. /\ resolved.wordCount = column.wordCount /\ resolved.stride = Stride(column, isInput)
        /\ resolved.wordsFromBase = base + d
        /\ resolved.buffer \in Buffer /\ resolved.offset \in Nat
        /\ column \in Column /\ isInput \in BOOLEAN /\ column.wordCount # 0
    BY ResolvedFacts
  <1>2. (IF isInput THEN resolved.stride ELSE 1) = Step(column, isInput)
    BY <1>1 DEF Step, Stride
  <1>3. base \in Nat /\ d \in Nat
    BY <1>1, Widths, DivMod DEF Buffer
  <1>4. \A t \in 0 .. column.wordCount - 1 : t * Step(column, isInput) \in Nat
    BY <1>1, SpanSteps
  <1> HIDE DEF base, d
  <1>5. ASSUME NEW t \in 0 .. column.wordCount - 1
        PROVE  base + d + t * Step(column, isInput) = base + (d + t * Step(column, isInput))
    <2>1. t * Step(column, isInput) \in Nat
      BY <1>4
    <2> QED BY <1>3, <2>1
  <1>6. CgraWords = {base + d + t * Step(column, isInput) : t \in 0 .. column.wordCount - 1}
    BY <1>1, <1>2 DEF CgraWords
  <1>7. CgraWords = {base + (d + t * Step(column, isInput)) : t \in 0 .. column.wordCount - 1}
    BY <1>5, <1>6
  <1> QED BY <1>7 DEF base, d

(* Every word the CGRA moves is synchronised and no word outside of the    *)
(* padded allocation is, for columns that stay below the wrap              *)
(* (allocator.c:166-167).                                                  *)
THEOREM LinesAreExact ==
  ASSUME NothingWraps
  PROVE  Spec => []SyncIsExact
  <1>1. IInv => SyncIsExact
    <2> SUFFICES ASSUME IInv, stage = "synced"
                 PROVE  /\ CgraWords \subseteq synced
                        /\ synced \subseteq resolved.buffer.base ..
                             resolved.buffer.base + AllocatedWords(resolved.buffer.size) - 1
      BY DEF SyncIsExact
    <2> DEFINE buffer == resolved.buffer
               span == TrueSpan(column, isInput)
    <2>1. /\ buffer \in Buffer /\ resolved.offset \in Nat /\ span \in Nat
          /\ resolved.length = span /\ resolved.offset + span <= buffer.size
          /\ buffer.size + LineBytes <= AllocationLimit
          /\ column \in Column /\ isInput \in BOOLEAN /\ column.wordCount # 0
          /\ (resolved.offset % WordBytes) = 0
      BY ResolvedFacts DEF Resolved
    <2>2. synced = SyncedWords(buffer, resolved.offset, span)
      BY <2>1 DEF IInv, SyncInv
    <2>3. synced \subseteq buffer.base .. buffer.base + AllocatedWords(buffer.size) - 1
      BY <2>1, <2>2, LinesInside
    <2>4. ASSUME NEW t \in 0 .. column.wordCount - 1
          PROVE  buffer.base + (resolved.offset \div WordBytes + t * Step(column, isInput))
                   \in synced
      <3> DEFINE v == resolved.offset \div WordBytes + t * Step(column, isInput)
                 x == resolved.offset + (t * Step(column, isInput)) * WordBytes
      <3>1. /\ x \in Nat /\ x \div WordBytes = v
            /\ resolved.offset <= x /\ x + WordBytes <= resolved.offset + span
        BY <2>1, MovedBytes
      <3>2. WordBytes \in Nat \ {0} /\ LineBytes \in Nat \ {0} /\ AllocationLimit \in Nat
        BY Widths
      <3> HIDE DEF v, x, buffer, span
      <3>3. x \in resolved.offset .. resolved.offset + span - 1
        BY <2>1, <3>1, <3>2
      <3>4. resolved.offset + span + LineBytes <= AllocationLimit
        <4>1. buffer.size \in Nat
          BY <2>1 DEF Buffer
        <4> QED BY <2>1, <3>2, <4>1
      <3>5. buffer.base + x \div WordBytes \in SyncedWords(buffer, resolved.offset, span)
        BY <2>1, <3>3, <3>4, LinesCover
      <3> QED BY <2>2, <3>1, <3>5 DEF v
    <2>5. CgraWords \subseteq synced
      BY <2>4, MovedWords DEF Resolved
    <2> QED BY <2>3, <2>5
  <1> QED BY <1>1, AddressingInvariance, PTL

LEMMA ByteInside ==
  ASSUME NEW low \in Nat, NEW start \in Nat, NEW length \in Int, NEW off \in Nat,
         NEW span \in Nat, NEW x \in Nat, NEW word \in Nat, NEW b \in 0 .. word - 1,
         off + span <= length, start + off <= x, x + word <= start + off + span
  PROVE  low + x + b \in low + start .. low + start + length - 1
  OBVIOUS

(* Whoever wrote the column, the CGRA stays inside of the bound range, for *)
(* columns that stay below the wrap (command_buffer.c:282-288).            *)
THEOREM RangeIsKept ==
  ASSUME NothingWraps
  PROVE  Spec => []WithinBoundRange
  <1>1. IInv => WithinBoundRange
    <2> SUFFICES ASSUME IInv, Resolved
                 PROVE  BytesOf(CgraWords) \subseteq RangeBytes(BoundRef)
      BY DEF WithinBoundRange
    <2> DEFINE ref == host.bindings[column.binding + 1]
               off == ByteOffset(column, host.constants)
               span == TrueSpan(column, isInput)
               base == resolved.buffer.base
    <2>1. /\ resolved.buffer = ref.buffer /\ resolved.offset \in Nat
          /\ resolved.offset = ref.buffer.at + ref.offset + off
          /\ (resolved.offset % WordBytes) = 0
          /\ ref.buffer \in Buffer /\ ref.offset \in Nat /\ off \in Nat /\ span \in Nat
          /\ RangeLength(ref) \in Int /\ off + span <= RangeLength(ref)
          /\ column \in Column /\ isInput \in BOOLEAN /\ column.wordCount # 0
      BY ResolvedFacts
    <2>2. base \in Nat /\ ref.buffer.at \in Nat /\ WordBytes \in Nat \ {0}
      BY <2>1, Widths DEF Buffer
    <2>3. base * WordBytes \in Nat
      BY <2>2
    <2>4. RangeBytes(BoundRef) =
            base * WordBytes + ref.buffer.at + ref.offset ..
              base * WordBytes + ref.buffer.at + ref.offset + RangeLength(ref) - 1
      BY <2>1 DEF RangeBytes, BoundRef
    <2>5. ASSUME NEW t \in 0 .. column.wordCount - 1, NEW b \in 0 .. WordBytes - 1
          PROVE  (base + (resolved.offset \div WordBytes + t * Step(column, isInput)))
                   * WordBytes + b \in RangeBytes(BoundRef)
      <3> DEFINE v == resolved.offset \div WordBytes + t * Step(column, isInput)
                 x == resolved.offset + (t * Step(column, isInput)) * WordBytes
      <3>1. /\ v \in Nat /\ x \in Nat /\ v * WordBytes = x
            /\ resolved.offset <= x /\ x + WordBytes <= resolved.offset + span
        BY <2>1, MovedBytes
      <3> HIDE DEF v, x, off, span, base
      <3> DEFINE low == base * WordBytes
                 start == ref.buffer.at + ref.offset
                 length == RangeLength(ref)
      <3>2. (base + v) * WordBytes = low + x
        BY <2>2, <3>1
      <3>3. /\ low \in Nat /\ start \in Nat /\ length \in Int
            /\ resolved.offset = start + off /\ off + span <= length
        BY <2>1, <2>2, <2>3
      <3>4. RangeBytes(BoundRef) = low + start .. low + start + length - 1
        <4>1. low + ref.buffer.at + ref.offset = low + start
          BY <2>1, <2>2, <2>3
        <4> QED BY <2>4, <4>1
      <3>5. off \in Nat /\ span \in Nat
        BY <2>1
      <3> HIDE DEF low, start, length, ref
      <3>6. low + x + b \in low + start .. low + start + length - 1
        BY <2>2, <3>1, <3>3, <3>5, ByteInside
      <3> QED BY <3>2, <3>4, <3>6 DEF v
    <2>6. CgraWords = {base + (resolved.offset \div WordBytes + t * Step(column, isInput)) :
                         t \in 0 .. column.wordCount - 1}
      BY MovedWords
    <2> QED BY <2>5, <2>6 DEF BytesOf, WordAt
  <1> QED BY <1>1, AddressingInvariance, PTL

-----------------------------------------------------------------------------
(* Explicit maintenance of a range that says how long it is reaches every  *)
(* byte of it (buffer.c:157-161).                                          *)
THEOREM MaintenanceReaches ==
  ASSUME RangesHaveLengths
  PROVE  Spec => []MaintenanceCoversRange
  <1>1. IInv => MaintenanceCoversRange
    <2> SUFFICES ASSUME IInv, stage = "maintained"
                 PROVE  RangeBytes(host.bindings[1]) \subseteq BytesOf(synced)
      BY DEF MaintenanceCoversRange
    <2> DEFINE ref == host.bindings[1]
               base == ref.buffer.base
               offset == ref.buffer.at + ref.offset
    <2>1. host \in Maintained
      BY DEF IInv, SyncInv
    <2>2. synced = SyncedWords(ref.buffer, AllocatedOffset(ref.buffer, ref.offset), ref.length)
      BY DEF IInv, SyncInv
    <2>3. 1 \in 1 .. Len(host.bindings)
      BY <2>1, AddressingAssumption
    <2>4. /\ ref.offset \in Nat /\ ref.length \in Nat /\ ref.buffer \in Buffer
          /\ ref.buffer.at \in Nat /\ ref.buffer.length \in Nat /\ ref.buffer.size \in Nat
          /\ base \in Nat
          /\ ref.offset + RangeLength(ref) <= ref.buffer.length
          /\ ref.buffer.at + ref.buffer.length <= ref.buffer.size
          /\ ref.buffer.size + LineBytes <= AllocationLimit
      BY <2>1, <2>3, HostRef
    <2>5. RangeLength(ref) = ref.length
      BY <2>1 DEF RangesHaveLengths, RangeLength
    <2>6. /\ WordBytes \in Nat \ {0} /\ LineBytes \in Nat \ {0} /\ DeviceMod \in Nat \ {0}
          /\ AllocationLimit \in Nat /\ AllocationLimit <= DeviceMod
      BY Widths
    <2>7. /\ offset \in 0 .. DeviceMod - 1 /\ offset \in Nat
          /\ offset + ref.length + LineBytes <= AllocationLimit
      BY <2>4, <2>5, <2>6
    <2>8. AllocatedOffset(ref.buffer, ref.offset) = offset
      BY <2>6, <2>7, ModSmall DEF AllocatedOffset
    <2>9. base * WordBytes \in Nat
      BY <2>4, <2>6
    <2>10. ASSUME NEW z \in RangeBytes(ref)
           PROVE  z \in BytesOf(synced)
      <3> DEFINE low == base * WordBytes
                 x == z - low
                 q == x \div WordBytes
                 r == x % WordBytes
      <3>1. RangeBytes(ref) = low + ref.buffer.at + ref.offset ..
                                low + ref.buffer.at + ref.offset + ref.length - 1
        BY <2>5 DEF RangeBytes
      <3>2. low \in Nat /\ z \in Int /\ x \in offset .. offset + ref.length - 1
        <4>1. /\ ref.buffer.at \in Nat /\ ref.offset \in Nat /\ ref.length \in Nat
              /\ low \in Nat
          BY <2>4, <2>9
        <4>2. /\ low + ref.buffer.at + ref.offset = low + offset
              /\ low + ref.buffer.at + ref.offset + ref.length - 1
                   = low + offset + ref.length - 1
          BY <4>1
        <4>3. z \in low + offset .. low + offset + ref.length - 1
          BY <3>1, <4>2
        <4>4. offset \in Nat
          BY <4>1
        <4> HIDE DEF low, offset
        <4> QED BY <4>1, <4>3, <4>4
      <3>3. x \in Nat /\ z = low + x
        BY <2>7, <2>4, <3>2
      <3>4. base + q \in synced
        BY <2>2, <2>4, <2>7, <2>8, <3>2, LinesCover
      <3> HIDE DEF x
      <3>5. q \in Nat /\ r \in 0 .. WordBytes - 1 /\ x = q * WordBytes + r
        BY <2>6, <3>3, DivMod
      <3> HIDE DEF q, r, base
      <3>6. (base + q) * WordBytes = low + q * WordBytes /\ q * WordBytes \in Nat
        BY <2>4, <2>6, <3>5
      <3>7. z = (base + q) * WordBytes + r
        BY <2>9, <3>2, <3>3, <3>5, <3>6
      <3>8. z \in WordAt(base + q)
        BY <3>5, <3>7 DEF WordAt
      <3> QED BY <3>4, <3>8 DEF BytesOf
    <2> QED BY <2>10
  <1> QED BY <1>1, AddressingInvariance, PTL


-----------------------------------------------------------------------------
LEMMA RowInside ==
  ASSUME NEW M \in Nat, NEW N \in Nat, NEW S \in Nat, N = S \/ M <= 1,
         NEW a \in 0 .. M - 1, NEW d \in 0 .. N - 1
  PROVE  a * S + d \in 0 .. M * N - 1
  <1>1. CASE N = S
    <2>1. a * N + N <= M * N /\ a * N \in Nat /\ M * N \in Nat
      BY MulLess
    <2> QED BY <1>1, <2>1
  <1>2. CASE M <= 1
    <2>1. M = 1 /\ a = 0
      BY <1>2
    <2> QED BY <2>1
  <1> QED BY <1>1, <1>2

LEMMA RowExists ==
  ASSUME NEW M \in Nat, NEW N \in Nat, NEW S \in Nat, N = S \/ M <= 1,
         NEW t \in 0 .. M * N - 1
  PROVE  \E a \in 0 .. M - 1, d \in 0 .. N - 1 : t = a * S + d
  <1>1. M * N \in Nat /\ N # 0 /\ M # 0 /\ t \in Nat
    OBVIOUS
  <1>2. CASE N = S
    <2>1. t \div N \in Nat /\ (t % N) \in 0 .. N - 1 /\ t = (t \div N) * N + (t % N)
      BY <1>1, DivMod
    <2>2. t \div N < M
      <3>1. SUFFICES ASSUME M <= t \div N PROVE FALSE
        BY <2>1
      <3>2. M * N <= (t \div N) * N
        BY <1>1, <2>1, <3>1
      <3> QED BY <1>1, <2>1, <3>2
    <2>3. t \div N \in 0 .. M - 1
      BY <2>1, <2>2
    <2> QED BY <1>2, <2>1, <2>3
  <1>3. CASE M <= 1
    <2>1. M = 1
      BY <1>1, <1>3
    <2>2. 0 \in 0 .. M - 1 /\ t \in 0 .. N - 1 /\ t = 0 * S + t
      BY <1>1, <2>1
    <2> QED BY <2>2
  <1> QED BY <1>2, <1>3

(* The offset that is read at run time is the one the source asks for.     *)
LEMMA OffsetIsTheSources ==
  ASSUME Compiled, Passed, host \in Hosts, column.wordCount # 0
  PROVE  ByteOffset(column, host.constants) = HostOffset(site.offset)
  <1> DEFINE e == site.offset
             cs == host.constants
             o == column.offsetConstants
  <1>1. /\ site \in Sites /\ Analyzable(site) /\ column = GetColumn(BindingOp(site))
    BY DEF Compiled
  <1>2. /\ e.value \in Int /\ e.value < DeviceMod /\ e.lo \in Nat /\ e.hi \in Nat
    BY <1>1, SiteType
  <1>3. column.byteOffset \in Nat /\ cs \in Seq(0 .. Radix - 1) /\ Len(cs) \in Nat
    BY <1>1, CompiledColumn, ColumnType, AddressingAssumption, LenProperties DEF Host
  <1>4. \A d \in DOMAIN o : o[d] < Len(cs)
    BY DEF Passed, ColumnVerify
  <1>5. \/ e.form = "absent" /\ column.byteOffset = 0 /\ o = <<>>
        \/ e.form = "literal" /\ column.byteOffset = e.value /\ o = <<>>
        \/ e.form = "load" /\ column.byteOffset = 0 /\ o = <<e.lo>>
        \/ e.form = "pair" /\ column.byteOffset = 0 /\ o = <<e.lo, e.hi>>
    BY <1>1, CompiledColumn
  <1>6. /\ DeviceMod \in Nat \ {0} /\ Radix \in Nat \ {0} /\ DeviceMod = Radix * Radix
    BY Widths, WidthAssumption
  <1>7. ByteOffset(column, cs) =
          ((column.byteOffset
             + (IF Len(o) >= 1 THEN cs[o[1] + 1] ELSE 0)
             + (IF Len(o) >= 2 THEN cs[o[2] + 1] * Radix ELSE 0)) % DeviceMod)
    BY DEF ByteOffset
  <1>8. ASSUME NEW p \in Nat, p < Len(cs)
        PROVE  cs[p + 1] \in 0 .. Radix - 1
    <2>1. p + 1 \in 1 .. Len(cs)
      BY <1>3, <1>8
    <2> QED BY <1>3, <2>1, ElementOfSeq
  <1>9. CASE e.form = "absent" /\ column.byteOffset = 0 /\ o = <<>>
    <2>1. ByteOffset(column, cs) = (0 % DeviceMod)
      BY <1>7, <1>9
    <2>2. HostOffset(e) = 0
      BY <1>9 DEF HostOffset
    <2>3. 0 \in 0 .. DeviceMod - 1
      BY <1>6
    <2> QED BY <1>6, <2>1, <2>2, <2>3, ModSmall
  <1>10. CASE e.form = "literal" /\ column.byteOffset = e.value /\ o = <<>>
    <2>1. ByteOffset(column, cs) = (e.value % DeviceMod)
      BY <1>2, <1>7, <1>10
    <2>2. HostOffset(e) = e.value
      BY <1>10 DEF HostOffset
    <2>3. e.value \in 0 .. DeviceMod - 1
      BY <1>2, <1>3, <1>6, <1>10
    <2> QED BY <1>6, <2>1, <2>2, <2>3, ModSmall
  <1>11. CASE e.form = "load" /\ column.byteOffset = 0 /\ o = <<e.lo>>
    <2>1. 1 \in DOMAIN o /\ o[1] = e.lo /\ Len(o) = 1
      BY <1>11
    <2>2. cs[e.lo + 1] \in 0 .. Radix - 1
      BY <1>2, <1>4, <1>8, <2>1
    <2>3. cs[e.lo + 1] \in 0 .. DeviceMod - 1
      BY <1>6, <2>2
    <2>4. ByteOffset(column, cs) = (cs[e.lo + 1] % DeviceMod)
      BY <1>7, <1>11, <2>1, <2>2, <1>6
    <2>5. HostOffset(e) = cs[e.lo + 1]
      BY <1>11 DEF HostOffset
    <2> QED BY <1>6, <2>3, <2>4, <2>5, ModSmall
  <1>12. CASE e.form = "pair" /\ column.byteOffset = 0 /\ o = <<e.lo, e.hi>>
    <2> DEFINE lo == cs[e.lo + 1]
               hi == cs[e.hi + 1]
    <2>1. 1 \in DOMAIN o /\ 2 \in DOMAIN o /\ o[1] = e.lo /\ o[2] = e.hi /\ Len(o) = 2
      BY <1>12
    <2>2. lo \in 0 .. Radix - 1 /\ hi \in 0 .. Radix - 1
      BY <1>2, <1>4, <1>8, <2>1
    <2>3. ByteOffset(column, cs) = ((0 + lo + hi * Radix) % DeviceMod)
      BY <1>7, <1>12, <2>1
    <2>4. HostOffset(e) = lo + Radix * hi
      BY <1>12 DEF HostOffset
    <2> HIDE DEF lo, hi
    <2>5. hi * Radix + Radix <= Radix * Radix /\ hi * Radix \in Nat /\ Radix * hi = hi * Radix
      BY <1>6, <2>2, MulLess
    <2>6. /\ lo + hi * Radix \in 0 .. DeviceMod - 1
          /\ 0 + lo + hi * Radix = lo + hi * Radix
      BY <1>6, <2>2, <2>5
    <2>7. ((lo + hi * Radix) % DeviceMod) = lo + hi * Radix
      BY <1>6, <2>6, ModSmall
    <2> QED BY <2>3, <2>4, <2>5, <2>6, <2>7
  <1> QED BY <1>5, <1>9, <1>10, <1>11, <1>12


(* A byte of the slice, and of the words moved: the same byte.             *)
LEMMA SameByte ==
  ASSUME NEW base \in Nat, NEW inner \in Nat, NEW d \in Nat, NEW t \in Nat, NEW b \in Nat,
         NEW W \in Nat \ {0}, d * W = inner
  PROVE  (base + (d + t * 1)) * W + b = (base * W + inner) + W * t + b
  <1>1. base * W \in Nat /\ d * W \in Nat /\ t * W \in Nat /\ W * t = t * W
    OBVIOUS
  <1>2. (base + (d + t * 1)) * W = base * W + d * W + t * W
    OBVIOUS
  <1> QED BY <1>1, <1>2

LEMMA SumAgain ==
  ASSUME NEW a \in Nat, NEW b \in Nat, NEW e \in Nat, NEW f \in Nat
  PROVE  a + b + e + f = a + (b + e + f)
  OBVIOUS

(* The bytes of the slice, from its first.                                 *)
BytesFrom(start) ==
  UNION {{start + WordBytes * (r * site.shape[2] + c) + i : i \in 0 .. WordBytes - 1} :
           r \in 0 .. site.sizes[1] - 1, c \in 0 .. site.sizes[2] - 1}

(* A compiled column moves the slice that the source names, to the byte,   *)
(* for whole rows and columns that stay below the wrap                     *)
(* (MaterializeBindingsPass.cpp:74-76).                                    *)
THEOREM SlicesAreMoved ==
  ASSUME NothingWraps, WholeRows
  PROVE  Spec => []ColumnIsItsSlice
  <1>1. IInv => ColumnIsItsSlice
    <2> SUFFICES ASSUME IInv, Resolved, site # NoSite
                 PROVE  BytesOf(CgraWords) = SliceBytes
      BY DEF ColumnIsItsSlice
    <2> DEFINE ref == host.bindings[column.binding + 1]
               base == ref.buffer.base
               off == ByteOffset(column, host.constants)
               inner == ref.buffer.at + ref.offset + off
               d == resolved.offset \div WordBytes
               start == base * WordBytes + inner
               M == site.sizes[1]
               N == site.sizes[2]
               S == site.shape[2]
               W == WordBytes
    <2>1. /\ column \in Column /\ isInput \in BOOLEAN /\ column.wordCount # 0
          /\ ref.buffer \in Buffer /\ ref.offset \in Nat /\ off \in Nat
          /\ resolved.buffer = ref.buffer
          /\ resolved.offset = inner /\ resolved.offset \in Nat
          /\ (resolved.offset % WordBytes) = 0
      BY ResolvedFacts
    <2>2. Passed /\ host \in Hosts
      BY DEF IInv, ColumnInv, Resolved
    <2>3. Compiled
      <3>1. Compiled \/ Loaded
        BY ResolvedFacts
      <3> QED BY <3>1 DEF Loaded
    <2>4. /\ site \in Sites /\ Analyzable(site) /\ isInput = site.isInput
          /\ column = GetColumn(BindingOp(site))
      BY <2>3 DEF Compiled
    <2>5. M \in Nat /\ N \in Nat /\ S \in Nat /\ column.wordCount = M * N
      BY <2>4, SiteType, CompiledColumn
    <2>6. N = S \/ M <= 1
      BY <2>4 DEF WholeRows
    <2>7. Step(column, isInput) = 1
      BY <2>4, CompiledColumn DEF Step
    <2>8. off = HostOffset(site.offset)
      BY <2>1, <2>2, <2>3, OffsetIsTheSources
    <2>9. W \in Nat \ {0} /\ base \in Nat /\ ref.buffer.at \in Nat
      BY <2>1, Widths DEF Buffer
    <2>10. inner \in Nat /\ d \in Nat /\ d * W = inner
      <3>1. /\ d \in Nat /\ resolved.offset = d * W + (resolved.offset % W)
        BY <2>1, <2>9, DivMod
      <3> HIDE DEF d
      <3>2. d * W \in Nat
        BY <2>9, <3>1
      <3> QED BY <2>1, <3>1, <3>2
    <2>11. SliceBytes = UNION {{start + W * (r * S + e) + b : b \in 0 .. W - 1} :
                                 r \in 0 .. M - 1, e \in 0 .. N - 1}
      <3>1. ref.buffer.base * WordBytes + ref.buffer.at + ref.offset
              + HostOffset(site.offset) = start
        <4>1. /\ base * W \in Nat /\ ref.buffer.at \in Nat /\ ref.offset \in Nat
              /\ off \in Nat
          BY <2>1, <2>9
        <4>2. base * W + ref.buffer.at + ref.offset + off = start
          BY <4>1, SumAgain
        <4> QED BY <2>8, <4>2
      <3>2. SliceBytes = BytesFrom(ref.buffer.base * WordBytes + ref.buffer.at + ref.offset
                                     + HostOffset(site.offset))
        BY DEF SliceBytes, BoundRef, BytesFrom
      <3>3. SliceBytes = BytesFrom(start)
        BY <3>1, <3>2, Zenon
      <3> QED BY <3>3 DEF BytesFrom
    <2>12. CgraWords = {base + (d + t * 1) : t \in 0 .. M * N - 1}
      BY <2>1, <2>5, <2>7, MovedWords
    <2> HIDE DEF base, off, inner, d, start, M, N, S, ref
    <2>13. ASSUME NEW t \in Nat, NEW b \in 0 .. W - 1
           PROVE  (base + (d + t * 1)) * W + b = start + W * t + b
      BY <2>9, <2>10, SameByte DEF start
    <2>14. ASSUME NEW z \in BytesOf(CgraWords)
           PROVE  z \in SliceBytes
      <3>1. PICK t \in 0 .. M * N - 1, b \in 0 .. W - 1 : z = (base + (d + t * 1)) * W + b
        BY <2>12 DEF BytesOf, WordAt
      <3>2. PICK r \in 0 .. M - 1, e \in 0 .. N - 1 : t = r * S + e
        BY <2>5, <2>6, RowExists
      <3>3. z = start + W * t + b
        BY <2>5, <2>13, <3>1
      <3>4. z = start + W * (r * S + e) + b
        BY <3>2, <3>3
      <3> DEFINE Cell(x, y) == {start + W * (x * S + y) + v : v \in 0 .. W - 1}
      <3>5. z \in Cell(r, e)
        BY <3>1, <3>4
      <3>6. SliceBytes = UNION {Cell(x, y) : x \in 0 .. M - 1, y \in 0 .. N - 1}
        BY <2>11
      <3> HIDE DEF Cell
      <3> QED BY <3>2, <3>5, <3>6
    <2>15. ASSUME NEW z \in SliceBytes
           PROVE  z \in BytesOf(CgraWords)
      <3>1. PICK r \in 0 .. M - 1, e \in 0 .. N - 1, b \in 0 .. W - 1 :
              z = start + W * (r * S + e) + b
        BY <2>11
      <3>2. r * S + e \in 0 .. M * N - 1
        BY <2>5, <2>6, RowInside
      <3> DEFINE t == r * S + e
      <3>3. t \in 0 .. M * N - 1 /\ t \in Nat
        BY <3>2, <2>5
      <3>4. z = start + W * t + b
        BY <3>1
      <3> HIDE DEF t
      <3>5. z = (base + (d + t * 1)) * W + b
        BY <2>13, <3>3, <3>4
      <3>6. z \in WordAt(base + (d + t * 1))
        BY <3>5 DEF WordAt
      <3> QED BY <2>12, <3>3, <3>6 DEF BytesOf
    <2> QED BY <2>14, <2>15
  <1> QED BY <1>1, AddressingInvariance, PTL


=============================================================================
