----------------------------- MODULE StrelaGemm -----------------------------
(***************************************************************************)
(* MyCenteredGemm of the older VM module (strela_module.cc:18-200): a      *)
(* matrix product Y += X W' as a sequence of CGRA jobs, each of which      *)
(* multiplies one row of X by up to three rows of W.                       *)
(*                                                                         *)
(* A column multiplies the words it reads by those column 0 reads; what it *)
(* writes is recorded as what it read, not as a number.  What the caller   *)
(* passes are shapes of two dimensions; a job, and the allocation of the   *)
(* three buffers, may fail.                                                *)
(***************************************************************************)
EXTENDS Integers, Sequences

CONSTANT Lanes        \* 3: the columns beside column 0

ASSUME GemmAssumption == Lanes \in Nat \ {0}

VARIABLES
  m, n, k,      \* X is m by k, W is n by k, Y should be m by n
  i, j,         \* the loop variables
  conf,         \* the configuration of the last job
  sy,           \* sy[w]: what word w of the result buffer holds
  y,            \* y[w]: what was added to word w of the caller's Y
  pc

gemmVars == <<m, n, k, i, j, conf, sy, y, pc>>

LaneSet == 1 .. Lanes
Nothing == [row |-> 0, inp |-> 0, count |-> 0, by |-> "nothing"]

(* What a column computes of the words it and column 0 read.               *)
Dot(x, w, count) == [row |-> x, inp |-> w, count |-> count, by |-> "job"]

Idle == [x |-> 0, lane |-> [l \in LaneSet |-> [inp |-> 0, count |-> 0, out |-> 0, outs |-> 0]]]

GemmInit ==
  /\ m = 0 /\ n = 0 /\ k = 0 /\ i = 0 /\ j = 0
  /\ conf = Idle /\ sy = <<>> /\ y = <<>>
  /\ pc = "idle"

Words(count) == [w \in 0 .. count - 1 |-> Nothing]

(* The shapes fit.  That of Y is not looked at.                            *)
Call(x, w, out) ==
  /\ pc = "idle" /\ x[2] = w[2]
  /\ m' = x[1] /\ n' = w[1] /\ k' = x[2]
  /\ i' = 0 /\ j' = 0 /\ conf' = Idle
  /\ sy' = Words(x[1] * w[1])
  /\ y' = Words(out[1] * out[2])
  /\ pc' = "loop"

(* They do not, or a buffer cannot be mapped or allocated.                 *)
CallFails(out) ==
  /\ pc = "idle"
  /\ y' = Words(out[1] * out[2])
  /\ pc' = "failed"
  /\ UNCHANGED <<m, n, k, i, j, conf, sy>>

(* Mutant: a column without a row is not disabled.                         *)
LaneConf_NeverDisabled(l) ==
  LET row == j + l - 1 IN
  [ inp |-> row * k, count |-> k, out |-> i * n + row, outs |-> 1 ]

(* Column l works on row j + l - 1 of W; one that has no row is disabled   *)
(* for reading and for writing.                                            *)
LaneConf(l) ==
  LET row == j + l - 1
      enabled == row < n
  IN [ inp |-> row * k,
       count |-> IF enabled THEN k ELSE 0,
       out |-> i * n + row,
       outs |-> IF enabled THEN 1 ELSE 0 ]

Config ==
  /\ pc = "loop" /\ i < m /\ j < n
  /\ conf' = [x |-> i * k, lane |-> [l \in LaneSet |-> LaneConf(l)]]
  /\ pc' = "execute"
  /\ UNCHANGED <<m, n, k, i, j, sy, y>>

(* The columns that write word w of the result buffer in the job.          *)
Written(w) == {l \in LaneSet : conf.lane[l].outs = 1 /\ conf.lane[l].out = w}

Execute ==
  /\ pc = "execute"
  /\ sy' = [w \in DOMAIN sy |->
       IF Written(w) = {} THEN sy[w]
       ELSE LET l == CHOOSE c \in Written(w) : TRUE IN
            Dot(conf.x, conf.lane[l].inp, conf.lane[l].count)]
  /\ j' = j + Lanes
  /\ pc' = "loop"
  /\ UNCHANGED <<m, n, k, i, conf, y>>

(* The job did not complete, or libstrela has met an error by the end of   *)
(* the loops: nothing of Y is touched.                                     *)
ExecuteFails ==
  /\ pc = "execute" \/ (pc = "loop" /\ i >= m)
  /\ pc' = "failed"
  /\ UNCHANGED <<m, n, k, i, j, conf, sy, y>>

(* Mutant: the row does not advance.                                       *)
NextRow_SameRow ==
  /\ pc = "loop" /\ i < m /\ j >= n
  /\ j' = 0
  /\ UNCHANGED <<m, n, k, i, conf, sy, y, pc>>

NextRow ==
  /\ pc = "loop" /\ i < m /\ j >= n
  /\ i' = i + 1 /\ j' = 0
  /\ UNCHANGED <<m, n, k, conf, sy, y, pc>>

(* As many words of Y as the product has, whatever the size of Y.          *)
Accumulate ==
  /\ pc = "loop" /\ i >= m
  /\ y' = [w \in DOMAIN y \cup DOMAIN sy |-> IF w \in DOMAIN sy THEN sy[w] ELSE y[w]]
  /\ pc' = "done"
  /\ UNCHANGED <<m, n, k, i, j, conf, sy>>

GemmStep == Config \/ Execute \/ ExecuteFails \/ NextRow \/ Accumulate

-----------------------------------------------------------------------------
(* No column of any job reads outside of the copies of X and W or writes   *)
(* outside of the result buffer, and no job computes an element again that *)
(* another has computed (strela_module.cc:136-151).                        *)
ColumnsStayInside ==
  pc = "execute" =>
    /\ conf.x + k <= m * k
    /\ \A l \in LaneSet :
         LET lane == conf.lane[l] IN
         /\ lane.count > 0 => lane.inp + lane.count <= n * k
         /\ lane.outs > 0 => lane.out < m * n /\ sy[lane.out] = Nothing

=============================================================================
