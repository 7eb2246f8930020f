-------------------------- MODULE MCStrelaDispatch --------------------------
(* Two lines of two words and two columns.  Word 1 shares its line with    *)
(* word 2, word 3 with word 4.                                             *)
EXTENDS StrelaDispatch

MCWords == 1 .. 4
MCLines == {"l1", "l2"}
MCLineOf == [w \in MCWords |-> IF w <= 2 THEN "l1" ELSE "l2"]
MCValues == {0, 1}

(* Two inputs and one output, like the addition kernel; an in-place kernel *)
(* with one column, like the ReLU one; an output that shares its line with *)
(* an input.                                                               *)
MCKernels ==
  { [inp |-> <<{1}, {2}>>, out |-> <<{}, {3}>>],
    [inp |-> <<{3, 4}, {}>>, out |-> <<{3, 4}, {}>>],
    [inp |-> <<{4}, {}>>, out |-> <<{1}, {3}>>] }

MCRanges == {{2, 3}}
MCCopyMaps == {[w \in {3} |-> 1]}
MCStrayWords == {3}

(* A kernel that is one exactly when all of its inputs are zero.           *)
MCKernel(w, in) == IF \A i \in DOMAIN in : in[i] = 0 THEN 1 ELSE 0

=============================================================================
