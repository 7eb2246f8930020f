--------------------------- MODULE CoherentMemory ---------------------------
(***************************************************************************)
(* What the driver promises about STRELA memory (allocator.c:120-123): one *)
(* memory, with no caches in sight, on which the CPU stores and the CGRA   *)
(* runs one kernel at a time.  The promise does not cover the words of     *)
(* "loose": the outputs of a dispatch that returned an error, until they   *)
(* are written or synchronised again, and those of "stray", of kernels     *)
(* that could not even be stopped, for good.                               *)
(***************************************************************************)
CONSTANTS Words, Values, Kernel(_, _)

VARIABLES
  val,      \* val[w]: the one value of word w
  loose,    \* words nothing is promised about
  stray,    \* those a kernel that failed may still write
  busy,     \* whether a kernel runs
  inp,      \* the words it reads
  out,      \* the words it writes
  todo      \* output words it has still to compute

cmVars == <<val, loose, stray, busy, inp, out, todo>>

(* Every word keeps its value, except those of S and the loose ones.       *)
KeepExcept(S) ==
  /\ val' \in [Words -> Values]
  /\ \A w \in Words \ (S \cup loose) : val'[w] = val[w]

Init ==
  /\ val \in [Words -> Values]
  /\ loose = {} /\ stray = {}
  /\ busy = FALSE
  /\ inp = {} /\ out = {} /\ todo = {}

kernelVars == <<busy, inp, out, todo>>

(* The CPU stores to the words of S, none of which the kernel uses.        *)
Store(S) ==
  /\ S \cap (inp \cup out) = {}
  /\ KeepExcept(S)
  /\ loose' = (loose \ S) \cup stray
  /\ UNCHANGED <<kernelVars, stray>>

Start(in, res) ==
  /\ ~busy /\ busy' = TRUE
  /\ inp' = in /\ out' = res /\ todo' = res
  /\ KeepExcept({})
  /\ UNCHANGED <<loose, stray>>

Compute(w) ==
  /\ w \in todo
  /\ KeepExcept({w})
  /\ val'[w] = Kernel(w, [i \in inp |-> val[i]])
  /\ todo' = todo \ {w}
  /\ UNCHANGED <<loose, stray, busy, inp, out>>

Stop ==
  /\ busy /\ busy' = FALSE
  /\ inp' = {} /\ out' = {} /\ todo' = {}
  /\ KeepExcept({})

(* Success: every output was computed, and all of them are settled.        *)
Finish ==
  /\ todo = {}
  /\ loose' = (loose \ out) \cup stray
  /\ UNCHANGED stray
  /\ Stop

(* Failure: nothing is promised about S, and R may still be written.       *)
Fail(S, R) ==
  /\ S \subseteq out /\ R \subseteq S \cap todo
  /\ loose' = loose \cup S
  /\ stray' = stray \cup R
  /\ Stop

(* The words of S are synchronised explicitly; loose words drift.          *)
Settle(S) ==
  /\ KeepExcept({})
  /\ loose' = (loose \ S) \cup stray
  /\ UNCHANGED <<kernelVars, stray>>

Next ==
  \/ \E S \in SUBSET Words : Store(S) \/ Settle(S)
  \/ \E S, R \in SUBSET Words : Fail(S, R)
  \/ \E in, res \in SUBSET Words : Start(in, res)
  \/ \E w \in Words : Compute(w)
  \/ Finish

Spec == Init /\ [][Next]_cmVars

=============================================================================
