--------------------------- MODULE StrelaBindings ---------------------------
(***************************************************************************)
(* How the compiler turns one operand or result of a kernel into the       *)
(* program of a CGRA column: MaterializeBindingsPass.cpp finds its binding *)
(* and byte offset, StrelaTarget.cpp writes the column out.                *)
(*                                                                         *)
(* A site is a dispatch tensor load or store: the binding of its subspan,  *)
(* the expression of the subspan's byte offset, and the slice of the       *)
(* tensor it moves.  The expressions of the source are classified by the   *)
(* form matchBindingOffset looks for; "value" is the literal, or by how    *)
(* much the high half is shifted.                                          *)
(***************************************************************************)
EXTENDS Integers, Sequences

CONSTANTS
  MaxColumnWords,   \* strelaMaxColumnWords
  HalfBits          \* 32: the bits of a push constant

ASSUME BindingsAssumption ==
  MaxColumnWords \in Nat \ {0} /\ HalfBits \in Nat \ {0}

OffsetForms == {"absent", "literal", "load", "pair", "other"}

(* A column that is not there: the compiler reports an error instead.      *)
NoColumn == [binding |-> 0, byteOffset |-> 0, offsetConstants |-> <<>>,
             wordCount |-> 0, stride |-> 0]

(* Push constants, or a literal that need not be there; neither is zero.   *)
Offset(ordinals, static) == [ordinals |-> ordinals, static |-> static]
NoMatch == Offset(<<>>, {-1})

Literal(value) == IF value = 0 THEN {} ELSE {value}

(* Mutant: the halves of a 64-bit offset are swapped.                      *)
MatchBindingOffset_Swapped(e) ==
  CASE e.form = "absent" -> Offset(<<>>, {})
    [] e.form = "literal" /\ e.value >= 0 -> Offset(<<>>, Literal(e.value))
    [] e.form = "load" -> Offset(<<e.lo>>, {})
    [] e.form = "pair" /\ e.value = HalfBits -> Offset(<<e.hi, e.lo>>, {})
    [] OTHER -> NoMatch

(* Mutant: a literal zero is recorded like any other literal.              *)
MatchBindingOffset_Zero(e) ==
  CASE e.form = "absent" -> Offset(<<>>, {})
    [] e.form = "literal" /\ e.value >= 0 -> Offset(<<>>, {e.value})
    [] e.form = "load" -> Offset(<<e.lo>>, {})
    [] e.form = "pair" /\ e.value = HalfBits -> Offset(<<e.lo, e.hi>>, {})
    [] OTHER -> NoMatch

MatchBindingOffset(e) ==
  CASE e.form = "absent" -> Offset(<<>>, {})
    [] e.form = "literal" /\ e.value >= 0 -> Offset(<<>>, Literal(e.value))
    [] e.form = "load" -> Offset(<<e.lo>>, {})
    [] e.form = "pair" /\ e.value = HalfBits -> Offset(<<e.lo, e.hi>>, {})
    [] OTHER -> NoMatch

CoversWholeTensor(site) ==
  \A d \in {1, 2} : site.offsets[d] = 0 /\ site.strides[d] = 1

NumElements(sizes) == sizes[1] * sizes[2]

(* analyzeEntryPoint: whether the site is one that can be materialized.    *)
Analyzable(site) ==
  CoversWholeTensor(site) /\ MatchBindingOffset(site.offset) # NoMatch

(* The strela.binding_load or strela.binding_store that replaces the site. *)
BindingOp(site) ==
  [ binding |-> site.binding,
    offset |-> MatchBindingOffset(site.offset),
    words |-> NumElements(site.sizes),
    isInput |-> site.isInput ]

(* What the verifier of both operations asks.                              *)
VerifyBindingOffsets(op) ==
  /\ Len(op.offset.ordinals) \in 0 .. 2
  /\ op.offset.ordinals = <<>> \/ op.offset.static = {}
  /\ 0 \notin op.offset.static

(* getColumn.  Inputs advance by one word, outputs have no stride.         *)
GetColumn(op) ==
  [ binding |-> op.binding,
    byteOffset |-> IF op.offset.static = {} THEN 0
                   ELSE CHOOSE x \in op.offset.static : TRUE,
    offsetConstants |-> op.offset.ordinals,
    wordCount |-> op.words,
    stride |-> IF op.isInput THEN 1 ELSE 0 ]

=============================================================================
