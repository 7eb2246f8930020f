------------------------- MODULE MCStrelaAddressing -------------------------
(* Words of two bytes, lines of four words, push constants below 32.  An   *)
(* allocation of 46 bytes, two bytes short of six lines, 8 words into      *)
(* STRELA memory.                                                          *)
EXTENDS StrelaAddressing

Expr(form, value, lo, hi) == [form |-> form, value |-> value, lo |-> lo, hi |-> hi]

MCOffsets ==
  { Expr("absent", 0, 0, 0), Expr("other", 0, 0, 0),
    Expr("literal", 0, 0, 0), Expr("literal", 6, 0, 0),
    Expr("literal", 3, 0, 0), Expr("literal", -2, 0, 0),
    Expr("load", 0, 0, 0), Expr("load", 0, 1, 0),
    Expr("pair", 5, 0, 1), Expr("pair", 5, 1, 0), Expr("pair", 4, 0, 1) }

Slice(shape, offsets, sizes, strides) ==
  [shape |-> shape, offsets |-> offsets, sizes |-> sizes, strides |-> strides]

(* Whole tensors and their leading rows, and slices that are refused.      *)
MCSlices ==
  { Slice(<<2, 2>>, <<0, 0>>, <<2, 2>>, <<1, 1>>),
    Slice(<<2, 3>>, <<0, 0>>, <<1, 3>>, <<1, 1>>),
    Slice(<<3, 1>>, <<1, 0>>, <<2, 1>>, <<1, 1>>),
    Slice(<<1, 4>>, <<0, 0>>, <<1, 2>>, <<1, 2>>),
    Slice(<<4, 4>>, <<0, 0>>, <<4, 4>>, <<1, 1>>) }

NewSite(in, b, e, s) ==
  [isInput |-> in, binding |-> b, offset |-> e, shape |-> s.shape,
   offsets |-> s.offsets, sizes |-> s.sizes, strides |-> s.strides]

MCSites == {NewSite(in, b, e, s) :
              in \in BOOLEAN, b \in {0, 1}, e \in MCOffsets, s \in MCSlices}

(* The leading columns of a matrix.                                        *)
MCPartialSites ==
  {NewSite(TRUE, 0, Expr("absent", 0, 0, 0),
           Slice(<<2, 3>>, <<0, 0>>, <<2, 2>>, <<1, 1>>))}

NewColumn(b, off, ords, n, stride) ==
  [binding |-> b, byteOffset |-> off, offsetConstants |-> ords,
   wordCount |-> n, stride |-> stride]

MCColumns ==
  { [column |-> NewColumn(b, off, ords, n, stride), isInput |-> in] :
      b \in {0, 2}, off \in {0, 5, 8}, ords \in {<<>>, <<0>>, <<1, 0>>, <<0, 2>>},
      n \in {0, 1, 4}, stride \in {0, 1, 3}, in \in BOOLEAN }

NewBuffer(at, length, strela) ==
  [at |-> at, length |-> length, size |-> 46, base |-> 8, strela |-> strela]

MCBuffers == {NewBuffer(0, 46, TRUE), NewBuffer(6, 40, TRUE), NewBuffer(0, 46, FALSE)}

NewRef(buffer, offset, length) ==
  [bound |-> TRUE, buffer |-> buffer, offset |-> offset, length |-> length]

MCRefs(lengths) ==
  {ref \in [bound : {TRUE}, buffer : MCBuffers, offset : {0, 4, 7}, length : lengths] :
     ref.offset + RangeLength(ref) <= ref.buffer.length}

MCConstants == {<<lo, hi>> : lo \in {0, 2, 31}, hi \in {0, 1}}

HostsWith(constants, lengths) ==
  {[constants |-> cs, bindings |-> <<ref>>] :
     cs \in constants, ref \in MCRefs(lengths)}

(* A dispatch with nothing bound.                                          *)
MCUnbound ==
  {[constants |-> cs, bindings |-> <<[r EXCEPT !.bound = FALSE]>>] :
     cs \in {<<0, 1>>}, r \in {NewRef(NewBuffer(0, 46, TRUE), 0, 10)}}

MCHosts == HostsWith(MCConstants, {10, 39, WholeBuffer}) \cup MCUnbound

(* Maintenance of ranges with a length of their own, and of all of a buffer.*)
MCRanges == HostsWith({<<>>}, {0, 1, 2, 10, 32, 39, 46})
MCWholeBuffers == HostsWith({<<>>}, {WholeBuffer})

(* What the proofs assume of the dispatches, the slices and the ranges is  *)
(* so of those above.                                                      *)
ASSUME NoWrapAssumption == NothingWraps
ASSUME WholeRowsAssumption == Sites = MCSites => WholeRows
ASSUME LengthsAssumption == Maintained = MCRanges => RangesHaveLengths

=============================================================================
