-------------------------- MODULE StrelaConv_proofs --------------------------
(***************************************************************************)
(* Proofs about the fused convolutions, for modules of any convolutions    *)
(* and any number of lanes: no job of a product leaves the matrices or     *)
(* computes an element again, a call that returns has computed its         *)
(* convolution, and every call runs the kernel that was loaded for it.     *)
(*                                                                         *)
(* The elements of the result are a row and a column; the loops of         *)
(* MyCenteredGemm have done those before (i, j) in the order of the rows.  *)
(* A global is made for one convolution, and the initializer that writes   *)
(* it loads the kernel with the initializer's number.                      *)
(***************************************************************************)
EXTENDS StrelaConv, SequenceTheorems, FiniteSetTheorems, TLAPS

-----------------------------------------------------------------------------
(* Elements of a matrix of N columns, row by row.                          *)
LEMMA MulLess ==
  ASSUME NEW a \in Nat, NEW b \in Nat, NEW c \in Nat, a < b
  PROVE  a * c + c <= b * c /\ a * c \in Nat /\ b * c \in Nat
  OBVIOUS

LEMMA RowUnique ==
  ASSUME NEW a \in Nat, NEW b \in Nat, NEW N \in Nat,
         NEW r \in 0 .. N - 1, NEW s \in 0 .. N - 1, a * N + r = b * N + s
  PROVE  a = b /\ r = s
  <1>1. ~(a < b)
    BY MulLess
  <1>2. ~(b < a)
    BY MulLess
  <1>3. a = b
    BY <1>1, <1>2
  <1> QED BY <1>3

LEMMA RowInside ==
  ASSUME NEW M \in Nat, NEW N \in Nat, NEW a \in 0 .. M - 1, NEW r \in 0 .. N - 1
  PROVE  a * N + r \in 0 .. M * N - 1
  <1>1. a * N + N <= M * N /\ a * N \in Nat /\ M * N \in Nat
    BY MulLess
  <1> QED BY <1>1

LEMMA RowExists ==
  ASSUME NEW M \in Nat, NEW N \in Nat, NEW w \in 0 .. M * N - 1
  PROVE  \E a \in 0 .. M - 1, r \in 0 .. N - 1 : w = a * N + r
  <1>1. M * N \in Nat /\ N # 0 /\ N > 0
    OBVIOUS
  <1>2. w \div N \in Nat /\ w % N \in 0 .. N - 1 /\ w = N * (w \div N) + (w % N)
    BY <1>1
  <1>3. w \div N < M
    OBVIOUS
  <1>4. w \div N \in 0 .. M - 1 /\ w = (w \div N) * N + (w % N)
    BY <1>2, <1>3
  <1> QED BY <1>2, <1>4

-----------------------------------------------------------------------------
(* The product: which elements of the result buffer the jobs have computed.*)
GemmTypes ==
  /\ m \in Nat /\ n \in Nat /\ k \in Nat /\ i \in Nat /\ j \in Nat
  /\ pc \in {"idle", "loop", "execute", "done", "failed"}

Computed(a, r) == a < i \/ (a = i /\ r < j)

Element(a, r) == Dot(a * k, r * k, k)

LoopInv ==
  pc \in {"loop", "execute"} =>
    /\ i <= m
    /\ DOMAIN sy = 0 .. m * n - 1
    /\ \A a \in 0 .. m - 1, r \in 0 .. n - 1 :
         sy[a * n + r] = IF Computed(a, r) THEN Element(a, r) ELSE Nothing

JobInv ==
  pc = "execute" =>
    /\ i < m /\ j < n
    /\ conf = [x |-> i * k, lane |-> [l \in LaneSet |-> LaneConf(l)]]

GemmInv == GemmTypes /\ LoopInv /\ JobInv

LEMMA LaneFields ==
  ASSUME NEW l \in LaneSet
  PROVE  /\ LaneConf(l).inp = (j + l - 1) * k /\ LaneConf(l).out = i * n + (j + l - 1)
         /\ LaneConf(l).count = (IF j + l - 1 < n THEN k ELSE 0)
         /\ LaneConf(l).outs = (IF j + l - 1 < n THEN 1 ELSE 0)
  <1>1. LaneConf(l) = [inp |-> (j + l - 1) * k,
                       count |-> IF j + l - 1 < n THEN k ELSE 0,
                       out |-> i * n + (j + l - 1),
                       outs |-> IF j + l - 1 < n THEN 1 ELSE 0]
    BY Zenon DEF LaneConf
  <1> QED BY <1>1

(* No job leaves the matrices, or meets an element that is computed.       *)
LEMMA GemmInside == GemmInv => ColumnsStayInside
  <1> SUFFICES ASSUME GemmInv, pc = "execute"
               PROVE  /\ conf.x + k <= m * k
                      /\ \A l \in LaneSet :
                           LET lane == conf.lane[l] IN
                           /\ lane.count > 0 => lane.inp + lane.count <= n * k
                           /\ lane.outs > 0 => lane.out < m * n /\ sy[lane.out] = Nothing
    BY DEF ColumnsStayInside
  <1>1. m \in Nat /\ n \in Nat /\ k \in Nat /\ i \in Nat /\ j \in Nat /\ i < m /\ j < n
    BY DEF GemmInv, GemmTypes, JobInv
  <1>2. conf.x = i * k /\ \A l \in LaneSet : conf.lane[l] = LaneConf(l)
    BY DEF GemmInv, JobInv
  <1>3. conf.x + k <= m * k
    BY <1>1, <1>2, MulLess
  <1>4. ASSUME NEW l \in LaneSet
        PROVE  /\ conf.lane[l].count > 0 => conf.lane[l].inp + conf.lane[l].count <= n * k
               /\ conf.lane[l].outs > 0 =>
                    conf.lane[l].out < m * n /\ sy[conf.lane[l].out] = Nothing
    <2> DEFINE row == j + l - 1
    <2>1. row \in Nat /\ row >= j
      BY <1>1, GemmAssumption DEF LaneSet
    <2>2. /\ conf.lane[l].inp = row * k /\ conf.lane[l].out = i * n + row
          /\ conf.lane[l].count = (IF row < n THEN k ELSE 0)
          /\ conf.lane[l].outs = (IF row < n THEN 1 ELSE 0)
      BY <1>2, LaneFields
    <2> HIDE DEF row
    <2>3. CASE row < n
      <3>1. row * k + k <= n * k
        BY <1>1, <2>1, <2>3, MulLess
      <3>2. i \in 0 .. m - 1 /\ row \in 0 .. n - 1
        BY <1>1, <2>1, <2>3
      <3>3. i * n + row \in 0 .. m * n - 1
        BY <1>1, <3>2, RowInside
      <3>4. ~Computed(i, row)
        BY <1>1, <2>1 DEF Computed
      <3>5. sy[i * n + row] = Nothing
        BY <3>2, <3>4 DEF GemmInv, LoopInv
      <3> QED BY <1>1, <2>2, <2>3, <3>1, <3>3, <3>5
    <2>4. CASE ~(row < n)
      BY <2>2, <2>4
    <2> QED BY <2>3, <2>4
  <1> QED BY <1>3, <1>4


(* A job computes the elements from column j on, as many as it has lanes.  *)
LEMMA JobElements ==
  ASSUME GemmInv, pc = "execute", NEW a \in 0 .. m - 1, NEW r \in 0 .. n - 1
  PROVE  LET Run == {l \in LaneSet : a = i /\ r = j + l - 1} IN
         /\ Written(a * n + r) = Run
         /\ \A l \in Run : Dot(conf.x, conf.lane[l].inp, conf.lane[l].count) = Element(a, r)
  <1>1. m \in Nat /\ n \in Nat /\ k \in Nat /\ i \in Nat /\ j \in Nat /\ i < m /\ j < n
    BY DEF GemmInv, GemmTypes, JobInv
  <1>2. conf.x = i * k /\ \A l \in LaneSet : conf.lane[l] = LaneConf(l)
    BY DEF GemmInv, JobInv
  <1>3. ASSUME NEW l \in LaneSet
        PROVE  conf.lane[l].outs = 1 /\ conf.lane[l].out = a * n + r
                 <=> a = i /\ r = j + l - 1
    <2> DEFINE row == j + l - 1
    <2>1. row \in Nat
      BY <1>1, GemmAssumption DEF LaneSet
    <2>2. conf.lane[l].out = i * n + row /\ conf.lane[l].outs = (IF row < n THEN 1 ELSE 0)
      BY <1>2, LaneFields
    <2> HIDE DEF row
    <2>3. ASSUME row < n, i * n + row = a * n + r
          PROVE  a = i /\ r = row
      <3>1. row \in 0 .. n - 1 /\ a \in Nat
        BY <1>1, <2>1, <2>3
      <3> QED BY <1>1, <2>3, <3>1, RowUnique
    <2>4. conf.lane[l].outs = 1 <=> row < n
      BY <2>2
    <2>5. a = i /\ r = row => row < n
      BY <1>1
    <2>6. conf.lane[l].outs = 1 /\ conf.lane[l].out = a * n + r <=> a = i /\ r = row
      BY <2>2, <2>3, <2>4, <2>5
    <2> QED BY <2>6 DEF row
  <1>4. ASSUME NEW l \in LaneSet, a = i, r = j + l - 1
        PROVE  Dot(conf.x, conf.lane[l].inp, conf.lane[l].count) = Element(a, r)
    <2>1. j + l - 1 < n
      BY <1>1, <1>4
    <2> QED BY <1>2, <1>4, <2>1, LaneFields DEF Element
  <1> QED BY <1>3, <1>4 DEF Written

LEMMA ExecuteKeeps ==
  ASSUME GemmInv, Execute
  PROVE  LoopInv'
  <1>1. /\ m \in Nat /\ n \in Nat /\ k \in Nat /\ i \in Nat /\ j \in Nat /\ i < m /\ j < n
        /\ pc = "execute"
    BY DEF GemmInv, GemmTypes, JobInv, Execute
  <1>2. /\ DOMAIN sy = 0 .. m * n - 1
        /\ \A a \in 0 .. m - 1, r \in 0 .. n - 1 :
             sy[a * n + r] = IF Computed(a, r) THEN Element(a, r) ELSE Nothing
    BY <1>1 DEF GemmInv, LoopInv
  <1>3. UNCHANGED <<m, n, k, i>> /\ j' = j + Lanes /\ DOMAIN sy' = DOMAIN sy
    BY DEF Execute
  <1>4. ASSUME NEW a \in 0 .. m - 1, NEW r \in 0 .. n - 1
        PROVE  sy'[a * n + r] = IF Computed(a, r)' THEN Element(a, r) ELSE Nothing
    <2> DEFINE Run == {l \in LaneSet : a = i /\ r = j + l - 1}
               w == a * n + r
               Value(l) == Dot(conf.x, conf.lane[l].inp, conf.lane[l].count)
    <2>1. w \in DOMAIN sy
      BY <1>1, <1>2, RowInside
    <2>2. sy'[w] = IF Written(w) = {} THEN sy[w]
                   ELSE Value(CHOOSE c \in Written(w) : TRUE)
      BY <2>1 DEF Execute
    <2>3. Written(w) = Run /\ \A l \in Run : Value(l) = Element(a, r)
      BY <1>1, JobElements
    <2> HIDE DEF w, Value
    <2>4. CASE Run = {}
      <3>1. ~(a = i /\ r >= j /\ r < j + Lanes)
        <4>1. SUFFICES ASSUME a = i, r >= j, r < j + Lanes PROVE FALSE
          OBVIOUS
        <4>2. r - j + 1 \in LaneSet /\ r = j + (r - j + 1) - 1
          BY <1>1, <4>1, GemmAssumption DEF LaneSet
        <4> QED BY <2>4, <4>1, <4>2
      <3>2. Computed(a, r)' <=> Computed(a, r)
        BY <1>1, <1>3, <3>1, GemmAssumption DEF Computed
      <3> QED BY <1>2, <2>2, <2>3, <2>4, <3>2 DEF w
    <2>5. CASE Run # {}
      <3>1. (CHOOSE c \in Written(w) : TRUE) \in Run
        BY <2>3, <2>5
      <3>2. sy'[w] = Element(a, r)
        BY <2>2, <2>3, <2>5, <3>1
      <3>3. PICK l \in LaneSet : a = i /\ r = j + l - 1
        BY <2>5
      <3>4. Computed(a, r)'
        BY <1>1, <1>3, <3>3, GemmAssumption DEF Computed, LaneSet
      <3> QED BY <3>2, <3>4 DEF w
    <2> QED BY <2>4, <2>5
  <1>5. \A a, r : Element(a, r)' = Element(a, r)
    BY <1>3 DEF Element, Dot
  <1>6. \A a \in 0 .. m' - 1, r \in 0 .. n' - 1 :
          sy'[a * n' + r] = IF Computed(a, r)' THEN Element(a, r)' ELSE Nothing'
    BY <1>3, <1>4, <1>5 DEF Nothing
  <1>7. i' <= m' /\ DOMAIN sy' = 0 .. m' * n' - 1
    BY <1>1, <1>2, <1>3
  <1> QED BY <1>6, <1>7 DEF LoopInv


LEMMA GemmStepKeeps ==
  ASSUME GemmInv, GemmStep
  PROVE  GemmInv'
  <1>1. /\ m \in Nat /\ n \in Nat /\ k \in Nat /\ i \in Nat /\ j \in Nat
        /\ UNCHANGED <<m, n, k>>
    BY DEF GemmInv, GemmTypes, GemmStep, Config, Execute, ExecuteFails, NextRow, Accumulate
  <1>2. CASE Config
    <2>1. /\ pc = "loop" /\ pc' = "execute" /\ i < m /\ j < n /\ UNCHANGED <<i, j, sy>>
          /\ conf' = [x |-> i * k, lane |-> [l \in LaneSet |-> LaneConf(l)]]
      BY <1>2 DEF Config
    <2>2. \A l : LaneConf(l)' = LaneConf(l)
      BY <1>1, <2>1 DEF LaneConf
    <2>3. JobInv'
      BY <1>1, <2>1, <2>2 DEF JobInv, LaneSet
    <2>4. LoopInv'
      BY <1>1, <2>1 DEF GemmInv, LoopInv, Computed, Element, Dot, Nothing
    <2> QED BY <1>1, <2>1, <2>3, <2>4 DEF GemmInv, GemmTypes
  <1>3. CASE Execute
    <2>1. pc' = "loop" /\ i' = i /\ j' = j + Lanes
      BY <1>3 DEF Execute
    <2> QED BY <1>1, <1>3, <2>1, ExecuteKeeps, GemmAssumption DEF GemmInv, GemmTypes, JobInv
  <1>4. CASE ExecuteFails
    BY <1>1, <1>4 DEF ExecuteFails, GemmInv, GemmTypes, LoopInv, JobInv
  <1>5. CASE NextRow
    <2>1. /\ pc = "loop" /\ pc' = "loop" /\ i < m /\ j >= n /\ i' = i + 1 /\ j' = 0
          /\ sy' = sy
      BY <1>5 DEF NextRow
    <2>2. \A a \in 0 .. m - 1, r \in 0 .. n - 1 : Computed(a, r)' <=> Computed(a, r)
      BY <1>1, <2>1 DEF Computed
    <2>3. \A a, r : Element(a, r)' = Element(a, r)
      BY <1>1 DEF Element, Dot
    <2>4. /\ DOMAIN sy = 0 .. m * n - 1
          /\ \A a \in 0 .. m - 1, r \in 0 .. n - 1 :
               sy[a * n + r] = IF Computed(a, r) THEN Element(a, r) ELSE Nothing
      BY <2>1 DEF GemmInv, LoopInv
    <2>5. \A a \in 0 .. m' - 1, r \in 0 .. n' - 1 :
            sy'[a * n' + r] = IF Computed(a, r)' THEN Element(a, r)' ELSE Nothing'
      BY <1>1, <2>1, <2>2, <2>3, <2>4 DEF Nothing
    <2>6. i' <= m' /\ DOMAIN sy' = 0 .. m' * n' - 1
      BY <1>1, <2>1, <2>4
    <2>7. LoopInv'
      BY <2>5, <2>6 DEF LoopInv
    <2> QED BY <1>1, <2>1, <2>7 DEF GemmInv, GemmTypes, JobInv
  <1>6. CASE Accumulate
    BY <1>1, <1>6 DEF Accumulate, GemmInv, GemmTypes, LoopInv, JobInv
  <1> QED BY <1>2, <1>3, <1>4, <1>5, <1>6 DEF GemmStep

(* A call begins with nothing computed.                                    *)
LEMMA CallBegins ==
  ASSUME GemmTypes, NEW x \in Nat \X Nat, NEW w \in Nat \X Nat, NEW out, Call(x, w, out)
  PROVE  GemmInv'
  <1>1. /\ m' = x[1] /\ n' = w[1] /\ k' = x[2] /\ i' = 0 /\ j' = 0 /\ pc' = "loop"
        /\ sy' = Words(x[1] * w[1])
    BY DEF Call
  <1>2. x[1] \in Nat /\ w[1] \in Nat /\ x[2] \in Nat /\ x[1] * w[1] \in Nat
    OBVIOUS
  <1>3. /\ DOMAIN sy' = 0 .. m' * n' - 1
        /\ \A e \in 0 .. m' * n' - 1 : sy'[e] = Nothing
    BY <1>1 DEF Words
  <1>4. ASSUME NEW a \in 0 .. m' - 1, NEW r \in 0 .. n' - 1
        PROVE  sy'[a * n' + r] = IF Computed(a, r)' THEN Element(a, r)' ELSE Nothing'
    <2>1. a * n' + r \in 0 .. m' * n' - 1
      BY <1>1, <1>2, RowInside
    <2>2. ~Computed(a, r)'
      BY <1>1 DEF Computed
    <2> QED BY <1>3, <2>1, <2>2 DEF Nothing
  <1>5. LoopInv'
    BY <1>1, <1>2, <1>3, <1>4 DEF LoopInv
  <1> QED BY <1>1, <1>2, <1>5 DEF GemmInv, GemmTypes, JobInv

LEMMA GemmAside ==
  ASSUME GemmInv, UNCHANGED <<m, n, k, i, j, conf, sy>>,
         pc' = pc \/ pc' \in {"idle", "failed"}
  PROVE  GemmInv'
  <1>1. /\ \A a, r : Element(a, r)' = Element(a, r) /\ (Computed(a, r)' <=> Computed(a, r))
        /\ \A l : LaneConf(l)' = LaneConf(l)
    BY DEF Element, Dot, Computed, LaneConf
  <1>2. CASE pc' = pc
    <2>1. GemmTypes'
      BY <1>2 DEF GemmInv, GemmTypes
    <2>2. LoopInv'
      BY <1>1, <1>2 DEF GemmInv, LoopInv, Nothing
    <2>3. JobInv'
      BY <1>1, <1>2 DEF GemmInv, JobInv, LaneSet
    <2> QED BY <2>1, <2>2, <2>3 DEF GemmInv
  <1>3. CASE pc' \in {"idle", "failed"}
    BY <1>3 DEF GemmInv, GemmTypes, LoopInv, JobInv
  <1> QED BY <1>2, <1>3


-----------------------------------------------------------------------------
(* The pass, the initializers and the calls.                               *)
InitRecord == [global : Nat, for : Nat, kernel : {Bitstream}]

ConvTypes ==
  /\ convs \in Seq(Convolution)
  /\ DOMAIN calls = DOMAIN convs
  /\ inits \in Seq(InitRecord)
  /\ kernels \in Seq([for : Nat, kernel : {Bitstream}])
  /\ stage \in {"fuse", "load", "run", "ended", "failed"}
  /\ at \in Nat \ {0}

InputDims(c) == <<c.batch, c.h, c.w, c.chan>>

(* What a call was made of, and its own initializer.                       *)
CallInv(c) ==
  calls[c].as = "call" =>
    /\ IsMatmulEquivalent(convs[c])
    /\ calls[c].x = CollapseTo2D(InputDims(convs[c]))
    /\ calls[c].w = CollapseTo2D(SourceDims(convs[c]))
    /\ calls[c].y = CollapseTo2D(OutDims(convs[c]))
    /\ \E e \in DOMAIN inits : inits[e].global = calls[c].global /\ inits[e].for = c

GlobalsDiffer ==
  \A e, f \in DOMAIN inits : inits[e].global = inits[f].global => e = f

LoadInv ==
  /\ stage = "fuse" => kernels = <<>> /\ at = 1
  /\ stage = "load" => Len(kernels) = at - 1 /\ at <= Len(inits) + 1
  /\ stage = "run" => Len(kernels) = Len(inits)
  /\ \A e \in DOMAIN inits : e <= Len(kernels) =>
       /\ inits[e].global \in DOMAIN handles /\ handles[inits[e].global] = e
       /\ kernels[e].for = inits[e].for

(* The product in progress is that of the call, and what it has done to Y. *)
Taken(c) == 0 .. calls[c].y[1] * calls[c].y[2] - 1

RunInv ==
  /\ pc \in {"loop", "execute", "done"} =>
       /\ Running("call")
       /\ m = calls[at].x[1] /\ n = calls[at].w[1] /\ k = calls[at].x[2]
       /\ k = calls[at].w[2]
  /\ pc = "failed" => Running("call") \/ stage = "failed"
  /\ pc \in {"loop", "execute"} => DOMAIN y = Taken(at)
  /\ pc \in {"loop", "execute", "failed"} => \A e \in DOMAIN y : y[e] = Nothing
  /\ pc = "done" =>
       /\ DOMAIN y = Taken(at) \cup (0 .. m * n - 1)
       /\ \A a \in 0 .. m - 1, r \in 0 .. n - 1 : y[a * n + r] = Element(a, r)

IInv ==
  /\ GemmInv
  /\ ConvTypes
  /\ \A c \in DOMAIN convs : CallInv(c)
  /\ GlobalsDiffer
  /\ LoadInv
  /\ RunInv

(* A number that no global has is found among one more than there are.     *)
LEMMA FreshGlobal ==
  ASSUME NEW used, IsFiniteSet(used)
  PROVE  GlobalName(used) \in Nat \ used
  <1> DEFINE N == Cardinality(used)
  <1>1. N \in Nat
    BY FS_CardinalityType
  <1>2. \E g \in 0 .. N : g \notin used
    <2>1. SUFFICES ASSUME 0 .. N \subseteq used PROVE FALSE
      OBVIOUS
    <2>2. Cardinality(0 .. N) <= N
      BY <2>1, FS_Subset
    <2>3. Cardinality(0 .. N) = N + 1
      BY <1>1, FS_Interval
    <2> QED BY <1>1, <2>2, <2>3
  <1>3. GlobalName(used) \in 0 .. N /\ GlobalName(used) \notin used
    BY <1>2 DEF GlobalName
  <1> QED BY <1>1, <1>3

LEMMA GlobalsFinite ==
  ASSUME inits \in Seq(InitRecord)
  PROVE  IsFiniteSet(Globals)
  <1> DEFINE f == [e \in DOMAIN inits |-> inits[e].global]
  <1>1. DOMAIN inits = 1 .. Len(inits) /\ Len(inits) \in Nat
    BY LenProperties
  <1>2. f \in Surjection(DOMAIN inits, Globals)
    BY DEF Surjection, Globals
  <1>3. IsFiniteSet(DOMAIN inits)
    BY <1>1, FS_Interval
  <1> QED BY <1>2, <1>3, FS_Surjection

-----------------------------------------------------------------------------
(* The pass.                                                               *)
LEMMA CallStays ==
  ASSUME NEW c, CallInv(c), UNCHANGED convs, calls'[c] = calls[c],
         \A e \in DOMAIN inits : e \in DOMAIN inits' /\ inits'[e] = inits[e]
  PROVE  CallInv(c)'
  <1>1. /\ IsMatmulEquivalent(convs[c])' <=> IsMatmulEquivalent(convs[c])
        /\ CollapseTo2D(InputDims(convs[c]))' = CollapseTo2D(InputDims(convs[c]))
    BY DEF IsMatmulEquivalent, FilterC, FilterF, CollapseTo2D, InputDims
  <1>2. CollapseTo2D(SourceDims(convs[c]))' = CollapseTo2D(SourceDims(convs[c]))
    BY DEF CollapseTo2D, SourceDims, FilterDims
  <1>3. CollapseTo2D(OutDims(convs[c]))' = CollapseTo2D(OutDims(convs[c]))
    BY DEF CollapseTo2D, OutDims, OutSize
  <1>4. SUFFICES ASSUME calls[c].as = "call" PROVE CallInv(c)'
    BY DEF CallInv
  <1>5. PICK e \in DOMAIN inits : inits[e].global = calls[c].global /\ inits[e].for = c
    BY <1>4 DEF CallInv
  <1>6. e \in DOMAIN inits' /\ inits'[e].global = calls'[c].global /\ inits'[e].for = c
    BY <1>5
  <1> QED BY <1>1, <1>2, <1>3, <1>4, <1>6 DEF CallInv

LEMMA FuseKeeps ==
  ASSUME IInv, NEW c \in DOMAIN convs, Fuse(c)
  PROVE  /\ ConvTypes' /\ GlobalsDiffer' /\ LoadInv'
         /\ \A d \in DOMAIN convs : CallInv(d)'
  <1>1. /\ stage = "fuse" /\ UNCHANGED <<convs, handles, kernels, stage, at>>
        /\ kernels = <<>> /\ at = 1
    BY DEF Fuse, IInv, LoadInv
  <1>2. /\ DOMAIN calls = DOMAIN convs /\ inits \in Seq(InitRecord)
        /\ convs \in Seq(Convolution) /\ DOMAIN convs = 1 .. Len(convs) /\ Len(convs) \in Nat
    BY LenProperties DEF IInv, ConvTypes
  <1>3. CASE IsMatmulEquivalent(convs[c])
    <2> DEFINE g == GlobalName(Globals)
               e == [global |-> g, for |-> c, kernel |-> KernelBlob(convs[c])]
    <2>1. g \in Nat \ Globals
      BY <1>2, GlobalsFinite, FreshGlobal
    <2>2. /\ inits' = Append(inits, e)
          /\ calls' = [calls EXCEPT ![c] =
               [ as |-> "call", global |-> g,
                 x |-> CollapseTo2D(InputDims(convs[c])),
                 w |-> CollapseTo2D(SourceDims(convs[c])),
                 y |-> CollapseTo2D(OutDims(convs[c])) ]]
      BY <1>3, Zenon DEF Fuse, InputDims
    <2>3. e \in InitRecord
      BY <1>2, <2>1 DEF InitRecord, KernelBlob
    <2>4. e.global = g /\ e.for = c
      OBVIOUS
    <2> HIDE DEF g, e
    <2>5. /\ inits' \in Seq(InitRecord) /\ Len(inits') = Len(inits) + 1
          /\ DOMAIN inits = 1 .. Len(inits) /\ DOMAIN inits' = 1 .. Len(inits) + 1
          /\ Len(inits) \in Nat
          /\ \A f \in DOMAIN inits : inits'[f] = inits[f]
          /\ inits'[Len(inits) + 1] = e
      BY <1>2, <2>2, <2>3, AppendProperties, LenProperties
    <2>6. ConvTypes'
      BY <1>1, <1>2, <2>2, <2>5 DEF IInv, ConvTypes, InitRecord, Bitstream
    <2>7. GlobalsDiffer'
      <3>1. \A f \in DOMAIN inits : inits[f].global # g
        BY <2>1 DEF Globals
      <3> QED BY <2>4, <2>5, <3>1 DEF IInv, GlobalsDiffer
    <2>8. LoadInv'
      BY <1>1, <2>5, EmptySeq DEF LoadInv
    <2>9. ASSUME NEW d \in DOMAIN convs
          PROVE  CallInv(d)'
      <3>1. CASE d = c
        <4>1. /\ calls'[c].global = g
              /\ calls'[c].x = CollapseTo2D(InputDims(convs[c]))
              /\ calls'[c].w = CollapseTo2D(SourceDims(convs[c]))
              /\ calls'[c].y = CollapseTo2D(OutDims(convs[c]))
          BY <1>2, <2>2
        <4>2. Len(inits) + 1 \in DOMAIN inits'
          BY <2>5
        <4>3. \E f \in DOMAIN inits' : inits'[f].global = calls'[c].global /\ inits'[f].for = c
          BY <2>4, <2>5, <4>1, <4>2
        <4>4. IsMatmulEquivalent(convs[c])'
          BY <1>1, <1>3 DEF IsMatmulEquivalent, FilterC, FilterF
        <4>5. /\ (calls[c].x = CollapseTo2D(InputDims(convs[c])))'
              /\ (calls[c].w = CollapseTo2D(SourceDims(convs[c])))'
              /\ (calls[c].y = CollapseTo2D(OutDims(convs[c])))'
          BY <1>1, <4>1 DEF CollapseTo2D, InputDims, SourceDims, FilterDims, OutDims, OutSize
        <4>6. CallInv(c)'
          BY <4>3, <4>4, <4>5, Zenon DEF CallInv
        <4> QED BY <3>1, <4>6
      <3>2. CASE d # c
        <4>1. calls'[d] = calls[d]
          BY <1>2, <2>2, <3>2
        <4>2. CallInv(d)
          BY DEF IInv
        <4>3. \A f \in DOMAIN inits : f \in DOMAIN inits' /\ inits'[f] = inits[f]
          BY <2>5
        <4> QED BY <1>1, <4>1, <4>2, <4>3, CallStays
      <3> QED BY <3>1, <3>2
    <2> QED BY <2>6, <2>7, <2>8, <2>9
  <1>4. CASE ~IsMatmulEquivalent(convs[c])
    <2>1. calls' = [calls EXCEPT ![c] = Kept] /\ inits' = inits
      BY <1>4 DEF Fuse
    <2>2. ConvTypes'
      BY <1>1, <1>2, <2>1 DEF IInv, ConvTypes, InitRecord, Bitstream
    <2>3. GlobalsDiffer' /\ LoadInv'
      BY <1>1, <2>1 DEF IInv, GlobalsDiffer, LoadInv
    <2>4. ASSUME NEW d \in DOMAIN convs
          PROVE  CallInv(d)'
      <3>1. CASE d = c
        <4>1. calls'[d].as = "convolution"
          BY <1>2, <2>1, <3>1 DEF Kept
        <4> QED BY <4>1 DEF CallInv
      <3>2. CASE d # c
        <4>1. calls'[d] = calls[d]
          BY <1>2, <2>1, <3>2
        <4>2. CallInv(d)
          BY DEF IInv
        <4>3. \A f \in DOMAIN inits : f \in DOMAIN inits' /\ inits'[f] = inits[f]
          BY <2>1
        <4> QED BY <1>1, <4>1, <4>2, <4>3, CallStays
      <3> QED BY <3>1, <3>2
    <2> QED BY <2>2, <2>3, <2>4
  <1> QED BY <1>3, <1>4


-----------------------------------------------------------------------------
(* The shapes of a convolution that is a product, in every layout of its   *)
(* filter: memory holds the features before the channels.                  *)
LEMMA LayoutInverse ==
  ASSUME NEW p \in Layout, NEW d \in 1 .. 4
  PROVE  (CHOOSE e \in 1 .. 4 : p[e] = p[d]) = d
  <1>1. p \in Surjection(1 .. 4, 1 .. 4)
    BY DEF Layout, Surjection
  <1>2. IsFiniteSet(1 .. 4)
    <2>1. 1 \in Int /\ 4 \in Int
      OBVIOUS
    <2> QED BY <2>1, FS_Interval, Zenon
  <1>3. p \in Injection(1 .. 4, 1 .. 4)
    BY <1>1, <1>2, FS_SurjSameCardinalityImpliesInj
  <1>4. \A e \in 1 .. 4 : p[e] = p[d] => e = d
    BY <1>3 DEF Injection, IsInjective
  <1> QED BY <1>4

Matmul(c) == c \in Convolution /\ IsMatmulEquivalent(c)

LEMMA MatmulFields ==
  ASSUME NEW c, Matmul(c)
  PROVE  /\ c.batch \in Nat /\ c.chan \in Nat /\ c.feat \in Nat
         /\ c.h = 1 /\ c.w = 1 /\ c.kh = 1 /\ c.kw = 1 /\ c.stride = 1 /\ c.dilation = 1
         /\ c.perm \in Layout /\ c.perm[4] < c.perm[3]
         /\ c.perm[3] \in 1 .. 4 /\ c.perm[4] \in 1 .. 4
  <1>1. c \in Convolution /\ IsMatmulEquivalent(c)
    BY DEF Matmul
  <1>2. /\ c.batch \in Nat /\ c.chan \in Nat /\ c.feat \in Nat
        /\ c.perm \in Layout \cup {<<>>}
    BY <1>1 DEF Convolution
  <1>3. /\ c.h = 1 /\ c.w = 1 /\ c.kh = 1 /\ c.kw = 1 /\ c.stride = 1 /\ c.dilation = 1
        /\ c.perm # <<>> /\ c.perm[4] < c.perm[3]
    BY <1>1 DEF IsMatmulEquivalent, FilterC, FilterF
  <1>4. c.perm \in Layout
    BY <1>2, <1>3
  <1>5. c.perm[3] \in 1 .. 4 /\ c.perm[4] \in 1 .. 4
    BY <1>4 DEF Layout
  <1> QED BY <1>2, <1>3, <1>4, <1>5

LEMMA MatmulSource ==
  ASSUME NEW c, Matmul(c)
  PROVE  LET D == SourceDims(c) IN
         /\ D[c.perm[3]] = c.chan /\ D[c.perm[4]] = c.feat
         /\ \A s \in 1 .. 4 : s # c.perm[3] /\ s # c.perm[4] => D[s] = 1
  <1> DEFINE p == c.perm
  <1>1. p \in Layout /\ c.kh = 1 /\ c.kw = 1 /\ p[3] \in 1 .. 4 /\ p[4] \in 1 .. 4
    BY MatmulFields
  <1>2. \A s \in 1 .. 4 : \E d \in 1 .. 4 : p[d] = s
    BY <1>1 DEF Layout
  <1>3. ASSUME NEW d \in 1 .. 4
        PROVE  SourceDims(c)[p[d]] = FilterDims(c)[d]
    <2>1. p[d] \in 1 .. 4
      BY <1>1 DEF Layout
    <2>2. SourceDims(c)[p[d]] = FilterDims(c)[CHOOSE e \in 1 .. 4 : p[e] = p[d]]
      BY <2>1, Zenon DEF SourceDims
    <2>3. (CHOOSE e \in 1 .. 4 : p[e] = p[d]) = d
      BY <1>1, LayoutInverse, Zenon
    <2> QED BY <2>2, <2>3
  <1>4. FilterDims(c) = <<1, 1, c.chan, c.feat>>
    BY <1>1 DEF FilterDims
  <1>5. ASSUME NEW s \in 1 .. 4, s # p[3], s # p[4]
        PROVE  SourceDims(c)[s] = 1
    <2>1. PICK d \in 1 .. 4 : p[d] = s
      BY <1>2
    <2>2. d \in {1, 2}
      BY <1>5, <2>1
    <2> QED BY <1>3, <1>4, <2>1, <2>2
  <1> QED BY <1>1, <1>3, <1>4, <1>5

LEMMA MatmulDims ==
  ASSUME NEW c, Matmul(c)
  PROVE  /\ CollapseTo2D(InputDims(c)) = <<c.batch, c.chan>>
         /\ CollapseTo2D(OutDims(c)) = <<c.batch, c.feat>>
         /\ CollapseTo2D(SourceDims(c)) =
              IF c.perm[3] = 4 THEN <<c.feat, c.chan>> ELSE <<c.feat * c.chan, 1>>
  <1> DEFINE D == SourceDims(c)
  <1>1. /\ c.batch \in Nat /\ c.chan \in Nat /\ c.feat \in Nat
        /\ c.h = 1 /\ c.w = 1 /\ c.kh = 1 /\ c.kw = 1 /\ c.stride = 1 /\ c.dilation = 1
        /\ c.perm[4] < c.perm[3] /\ c.perm[3] \in 1 .. 4 /\ c.perm[4] \in 1 .. 4
    BY MatmulFields
  <1>2. CollapseTo2D(InputDims(c)) = <<c.batch, c.chan>>
    BY <1>1 DEF CollapseTo2D, InputDims
  <1>3. OutSize(1, 1, c) = 1
    BY <1>1 DEF OutSize
  <1>4. CollapseTo2D(OutDims(c)) = <<c.batch, c.feat>>
    BY <1>1, <1>3 DEF CollapseTo2D, OutDims
  <1>5. /\ D[c.perm[3]] = c.chan /\ D[c.perm[4]] = c.feat
        /\ \A s \in 1 .. 4 : s # c.perm[3] /\ s # c.perm[4] => D[s] = 1
    BY MatmulSource
  <1> HIDE DEF D
  <1>6. CASE c.perm[3] = 4
    <2>1. D[4] = c.chan /\ D[1] * D[2] * D[3] = c.feat
      <3>1. CASE c.perm[4] = 1
        BY <1>1, <1>5, <1>6, <3>1
      <3>2. CASE c.perm[4] = 2
        BY <1>1, <1>5, <1>6, <3>2
      <3>3. CASE c.perm[4] = 3
        BY <1>1, <1>5, <1>6, <3>3
      <3> QED BY <1>1, <1>6, <3>1, <3>2, <3>3
    <2> QED BY <1>2, <1>4, <1>6, <2>1 DEF CollapseTo2D, D
  <1>7. CASE c.perm[3] # 4
    <2>1. D[4] = 1 /\ D[1] * D[2] * D[3] = c.feat * c.chan
      <3>1. CASE c.perm[3] = 2 /\ c.perm[4] = 1
        BY <1>1, <1>5, <3>1
      <3>2. CASE c.perm[3] = 3 /\ c.perm[4] = 1
        BY <1>1, <1>5, <3>2
      <3>3. CASE c.perm[3] = 3 /\ c.perm[4] = 2
        BY <1>1, <1>5, <3>3
      <3> QED BY <1>1, <1>7, <3>1, <3>2, <3>3
    <2> QED BY <1>2, <1>4, <1>7, <2>1 DEF CollapseTo2D, D
  <1> QED BY <1>6, <1>7

(* Where an element of such a filter is.                                   *)
LEMMA MatmulWord ==
  ASSUME NEW c, Matmul(c), c.perm[3] = 4 \/ c.chan = 1,
         NEW ch \in 0 .. c.chan - 1, NEW f \in Nat
  PROVE  SourceWord(c, <<0, 0, ch, f>>) = f * c.chan + ch
  <1> DEFINE D == SourceDims(c)
             p == c.perm
             idx == <<0, 0, ch, f>>
             I == [s \in 1 .. 4 |-> idx[CHOOSE d \in 1 .. 4 : p[d] = s]]
  <1>1. /\ c.chan \in Nat /\ c.feat \in Nat /\ p \in Layout
        /\ p[4] < p[3] /\ p[3] \in 1 .. 4 /\ p[4] \in 1 .. 4 /\ ch \in Nat
    BY MatmulFields
  <1>2. /\ D[p[3]] = c.chan /\ D[p[4]] = c.feat
        /\ \A s \in 1 .. 4 : s # p[3] /\ s # p[4] => D[s] = 1
    BY MatmulSource
  <1>3. /\ I[p[3]] = ch /\ I[p[4]] = f
        /\ \A s \in 1 .. 4 : s # p[3] /\ s # p[4] => I[s] = 0
    <2>1. \A s \in 1 .. 4 : \E d \in 1 .. 4 : p[d] = s
      BY <1>1 DEF Layout
    <2>2. ASSUME NEW d \in 1 .. 4
          PROVE  I[p[d]] = idx[d]
      <3>1. p[d] \in 1 .. 4
        BY <1>1 DEF Layout
      <3>2. I[p[d]] = idx[CHOOSE e \in 1 .. 4 : p[e] = p[d]]
        BY <3>1, Zenon
      <3>3. (CHOOSE e \in 1 .. 4 : p[e] = p[d]) = d
        BY <1>1, LayoutInverse, Zenon
      <3> QED BY <3>2, <3>3
    <2>3. ASSUME NEW s \in 1 .. 4, s # p[3], s # p[4]
          PROVE  I[s] = 0
      <3>1. PICK d \in 1 .. 4 : p[d] = s
        BY <2>1
      <3>2. d \in {1, 2}
        BY <2>3, <3>1
      <3>3. idx[d] = 0
        BY <3>2
      <3>4. I[p[d]] = idx[d]
        BY <2>2
      <3> HIDE DEF I, idx
      <3> QED BY <3>1, <3>3, <3>4
    <2> QED BY <1>1, <2>2, <2>3
  <1>4. SourceWord(c, idx) = ((I[1] * D[2] + I[2]) * D[3] + I[3]) * D[4] + I[4]
    BY DEF SourceWord, RowMajor
  <1> HIDE DEF D, I, p
  <1>5. CASE p[3] = 4
    <2>1. CASE p[4] = 1
      <3>1. I[1] = f /\ I[2] = 0 /\ I[3] = 0 /\ I[4] = ch /\ D[2] = 1 /\ D[3] = 1 /\ D[4] = c.chan
        BY <1>2, <1>3, <1>5, <2>1
      <3>2. ((I[1] * D[2] + I[2]) * D[3] + I[3]) * D[4] + I[4] = f * c.chan + ch
        BY <1>1, <3>1
      <3> QED BY <1>4, <3>2
    <2>2. CASE p[4] = 2
      <3>1. I[1] = 0 /\ I[2] = f /\ I[3] = 0 /\ I[4] = ch /\ D[2] = c.feat /\ D[3] = 1 /\ D[4] = c.chan
        BY <1>2, <1>3, <1>5, <2>2
      <3>2. ((I[1] * D[2] + I[2]) * D[3] + I[3]) * D[4] + I[4] = f * c.chan + ch
        BY <1>1, <3>1
      <3> QED BY <1>4, <3>2
    <2>3. CASE p[4] = 3
      <3>1. I[1] = 0 /\ I[2] = 0 /\ I[3] = f /\ I[4] = ch /\ D[2] = 1 /\ D[3] = c.feat /\ D[4] = c.chan
        BY <1>2, <1>3, <1>5, <2>3
      <3>2. ((I[1] * D[2] + I[2]) * D[3] + I[3]) * D[4] + I[4] = f * c.chan + ch
        BY <1>1, <3>1
      <3> QED BY <1>4, <3>2
    <2> QED BY <1>1, <1>5, <2>1, <2>2, <2>3
  <1>6. CASE p[3] # 4
    <2>1. c.chan = 1 /\ ch = 0
      BY <1>1, <1>6 DEF p
    <2>2. CASE p[3] = 2 /\ p[4] = 1
      <3>1. I[1] = f /\ I[2] = 0 /\ I[3] = 0 /\ I[4] = 0 /\ D[2] = 1 /\ D[3] = 1 /\ D[4] = 1
        BY <1>2, <1>3, <2>1, <2>2
      <3>2. ((I[1] * D[2] + I[2]) * D[3] + I[3]) * D[4] + I[4] = f * c.chan + ch
        BY <1>1, <2>1, <3>1
      <3> QED BY <1>4, <3>2
    <2>3. CASE p[3] = 3 /\ p[4] = 1
      <3>1. I[1] = f /\ I[2] = 0 /\ I[3] = 0 /\ I[4] = 0 /\ D[2] = 1 /\ D[3] = 1 /\ D[4] = 1
        BY <1>2, <1>3, <2>1, <2>3
      <3>2. ((I[1] * D[2] + I[2]) * D[3] + I[3]) * D[4] + I[4] = f * c.chan + ch
        BY <1>1, <2>1, <3>1
      <3> QED BY <1>4, <3>2
    <2>4. CASE p[3] = 3 /\ p[4] = 2
      <3>1. I[1] = 0 /\ I[2] = f /\ I[3] = 0 /\ I[4] = 0 /\ D[2] = c.feat /\ D[3] = 1 /\ D[4] = 1
        BY <1>2, <1>3, <2>1, <2>4
      <3>2. ((I[1] * D[2] + I[2]) * D[3] + I[3]) * D[4] + I[4] = f * c.chan + ch
        BY <1>1, <2>1, <3>1
      <3> QED BY <1>4, <3>2
    <2> QED BY <1>1, <1>6, <2>2, <2>3, <2>4
  <1> QED BY <1>5, <1>6

-----------------------------------------------------------------------------
(* One lemma for each kind of step.                                        *)
LEMMA CallFacts ==
  ASSUME IInv, Running("call")
  PROVE  /\ at \in DOMAIN convs /\ Matmul(convs[at]) /\ CallInv(at)
         /\ calls[at].x = CollapseTo2D(InputDims(convs[at]))
         /\ calls[at].w = CollapseTo2D(SourceDims(convs[at]))
         /\ calls[at].y = CollapseTo2D(OutDims(convs[at]))
  <1>1. convs \in Seq(Convolution) /\ at \in Nat \ {0} /\ at <= Len(convs)
    BY DEF IInv, ConvTypes, Running
  <1>2. at \in DOMAIN convs /\ convs[at] \in Convolution
    BY <1>1, LenProperties, ElementOfSeq
  <1>3. CallInv(at) /\ calls[at].as = "call"
    BY <1>2 DEF IInv, Running
  <1> QED BY <1>2, <1>3 DEF CallInv, Matmul

(* Outside of a call no product is in progress.                            *)
LEMMA IdleOutside ==
  ASSUME IInv, ~Running("call"), stage # "failed"
  PROVE  pc = "idle"
  BY DEF IInv, RunInv, GemmInv, GemmTypes

LEMMA CallsStay ==
  ASSUME IInv, UNCHANGED <<convs, calls, inits>>
  PROVE  \A c \in DOMAIN convs' : CallInv(c)'
  <1>1. SUFFICES ASSUME NEW c \in DOMAIN convs PROVE CallInv(c)'
    BY Zenon
  <1>2. CallInv(c)
    BY DEF IInv
  <1>3. calls'[c] = calls[c] /\ \A e \in DOMAIN inits : e \in DOMAIN inits' /\ inits'[e] = inits[e]
    OBVIOUS
  <1> QED BY <1>2, <1>3, CallStays

LEMMA IdleRun ==
  ASSUME pc' = "idle"
  PROVE  RunInv'
  BY DEF RunInv

(* A step that only moves on in the stages, with no product in progress.   *)
LEMMA OnwardKeeps ==
  ASSUME IInv, UNCHANGED <<gemmVars, convs, calls, inits, handles, kernels>>,
         pc = "idle" \/ (pc = "failed" /\ stage' = "failed"),
         stage' \in {"load", "run", "ended", "failed"}, at' \in Nat \ {0},
         stage' = "load" => Len(kernels) = at' - 1 /\ at' <= Len(inits) + 1,
         stage' = "run" => Len(kernels) = Len(inits)
  PROVE  IInv'
  <1>1. /\ UNCHANGED <<m, n, k, i, j, conf, sy, y, pc>>
    BY DEF gemmVars
  <1>2. GemmInv'
    BY <1>1, GemmAside DEF IInv
  <1>3. ConvTypes'
    BY DEF IInv, ConvTypes, InitRecord, Bitstream
  <1>4. GlobalsDiffer' /\ LoadInv'
    BY DEF IInv, GlobalsDiffer, LoadInv
  <1>5. RunInv'
    BY <1>1 DEF IInv, RunInv, Nothing
  <1> QED BY <1>2, <1>3, <1>4, <1>5, CallsStay DEF IInv

LEMMA InitialisesInvariant == Init => IInv
  <1> SUFFICES ASSUME Init PROVE IInv
    OBVIOUS
  <1>1. /\ pc = "idle" /\ m = 0 /\ n = 0 /\ k = 0 /\ i = 0 /\ j = 0
        /\ convs \in Seq(Convolution) /\ inits = <<>> /\ kernels = <<>> /\ handles = <<>>
        /\ calls = [c \in DOMAIN convs |-> Unvisited] /\ stage = "fuse" /\ at = 1
    BY ConvAssumption DEF Init, GemmInit
  <1>2. GemmInv
    BY <1>1 DEF GemmInv, GemmTypes, LoopInv, JobInv
  <1>3. ConvTypes
    BY <1>1 DEF ConvTypes
  <1>4. DOMAIN inits = {}
    BY <1>1
  <1>5. \A c \in DOMAIN convs : CallInv(c)
    BY <1>1 DEF CallInv, Unvisited
  <1>6. GlobalsDiffer /\ LoadInv
    BY <1>1, <1>4 DEF GlobalsDiffer, LoadInv
  <1>7. RunInv
    BY <1>1 DEF RunInv
  <1> QED BY <1>2, <1>3, <1>5, <1>6, <1>7 DEF IInv

LEMMA InitAcceleratorKeeps ==
  ASSUME IInv, InitAccelerator
  PROVE  IInv'
  <1> DEFINE g == inits[at].global
             K == [for |-> inits[at].for, kernel |-> inits[at].kernel]
  <1>1. /\ stage = "load" /\ at <= Len(inits) /\ at' = at + 1
        /\ UNCHANGED <<gemmVars, convs, calls, inits, stage>>
        /\ Len(kernels) = at - 1 /\ at \in Nat \ {0}
        /\ inits \in Seq(InitRecord) /\ kernels \in Seq([for : Nat, kernel : {Bitstream}])
    BY DEF InitAccelerator, IInv, ConvTypes, LoadInv
  <1>2. /\ kernels' = Append(kernels, K)
        /\ handles' = [h \in DOMAIN handles \cup {g} |-> IF h = g THEN at ELSE handles[h]]
    <2>1. Len(kernels) + 1 = at
      BY <1>1
    <2> QED BY <2>1 DEF InitAccelerator
  <1>3. at \in DOMAIN inits /\ DOMAIN inits = 1 .. Len(inits) /\ inits[at] \in InitRecord
    BY <1>1, LenProperties, ElementOfSeq
  <1>4. K \in [for : Nat, kernel : {Bitstream}] /\ K.for = inits[at].for
    BY <1>3 DEF InitRecord
  <1> HIDE DEF K
  <1>5. /\ kernels' \in Seq([for : Nat, kernel : {Bitstream}])
        /\ Len(kernels') = at /\ kernels'[at] = K
        /\ \A h \in 1 .. at - 1 : kernels'[h] = kernels[h]
    BY <1>1, <1>2, <1>4, AppendProperties
  <1>6. pc = "idle"
    BY <1>1, IdleOutside DEF Running
  <1>7. /\ UNCHANGED <<m, n, k, i, j, conf, sy, y, pc>>
    BY <1>1 DEF gemmVars
  <1>8. ConvTypes'
    BY <1>1, <1>5 DEF IInv, ConvTypes, InitRecord, Bitstream
  <1>9. GlobalsDiffer'
    BY <1>1 DEF IInv, GlobalsDiffer
  <1>10. LoadInv'
    <2>1. ASSUME NEW e \in DOMAIN inits, e <= at
          PROVE  /\ inits[e].global \in DOMAIN handles' /\ handles'[inits[e].global] = e
                 /\ kernels'[e].for = inits[e].for
      <3>1. CASE e = at
        BY <1>2, <1>4, <1>5, <3>1
      <3>2. CASE e # at
        <4>1. e \in 1 .. at - 1 /\ e <= Len(kernels)
          BY <1>1, <1>3, <2>1, <3>2
        <4>2. /\ inits[e].global \in DOMAIN handles /\ handles[inits[e].global] = e
              /\ kernels[e].for = inits[e].for
          BY <4>1 DEF IInv, LoadInv
        <4>3. inits[e].global # g
          BY <1>3, <3>2 DEF IInv, GlobalsDiffer
        <4> QED BY <1>2, <1>5, <4>1, <4>2, <4>3
      <3> QED BY <3>1, <3>2
    <2> QED BY <1>1, <1>3, <1>5, <2>1 DEF LoadInv
  <1>11. GemmInv'
    BY <1>7, GemmAside DEF IInv
  <1>12. RunInv'
    BY <1>6, <1>7, IdleRun
  <1> QED BY <1>1, <1>8, <1>9, <1>10, <1>11, <1>12, CallsStay DEF IInv

(* The steps of a call change nothing but the product.                     *)
LEMMA InvocationStays ==
  ASSUME IInv, UNCHANGED convVars
  PROVE  /\ ConvTypes' /\ GlobalsDiffer' /\ LoadInv'
         /\ \A c \in DOMAIN convs' : CallInv(c)'
         /\ Running("call")' = Running("call")
         /\ Taken(at)' = Taken(at)
  <1>1. UNCHANGED <<convs, calls, inits, handles, kernels, stage, at>>
    BY DEF convVars
  <1>2. ConvTypes'
    BY <1>1 DEF IInv, ConvTypes, InitRecord, Bitstream
  <1>3. GlobalsDiffer' /\ LoadInv'
    BY <1>1 DEF IInv, GlobalsDiffer, LoadInv
  <1>4. \A c \in DOMAIN convs' : CallInv(c)'
    BY <1>1, CallsStay
  <1>5. Taken(at)' = Taken(at)
    BY <1>1 DEF Taken
  <1>6. Running("call")' = Running("call")
    BY <1>1 DEF Running
  <1> QED BY <1>2, <1>3, <1>4, <1>5, <1>6

LEMMA CallDims ==
  ASSUME IInv, Running("call")
  PROVE  /\ calls[at].x \in Nat \X Nat /\ calls[at].w \in Nat \X Nat
         /\ calls[at].y \in Nat \X Nat
  <1> DEFINE c == convs[at]
  <1>1. /\ Matmul(c)
        /\ calls[at].x = CollapseTo2D(InputDims(c))
        /\ calls[at].w = CollapseTo2D(SourceDims(c))
        /\ calls[at].y = CollapseTo2D(OutDims(c))
    BY CallFacts
  <1>2. c.batch \in Nat /\ c.chan \in Nat /\ c.feat \in Nat /\ c.feat * c.chan \in Nat
    BY <1>1, MatmulFields
  <1>3. /\ calls[at].x = <<c.batch, c.chan>> /\ calls[at].y = <<c.batch, c.feat>>
        /\ calls[at].w = IF c.perm[3] = 4 THEN <<c.feat, c.chan>> ELSE <<c.feat * c.chan, 1>>
    BY <1>1, MatmulDims
  <1> QED BY <1>2, <1>3

LEMMA CallGemmKeeps ==
  ASSUME IInv, CallGemm
  PROVE  IInv'
  <1> DEFINE x == calls[at].x
             w == calls[at].w
             out == calls[at].y
  <1>1. Running("call") /\ UNCHANGED convVars
    BY DEF CallGemm
  <1>2. UNCHANGED <<convs, calls, inits, handles, kernels, stage, at>>
    BY <1>1 DEF convVars
  <1>3. x \in Nat \X Nat /\ w \in Nat \X Nat /\ out \in Nat \X Nat
    BY <1>1, CallDims
  <1>4. GemmInv' /\ RunInv'
    <2>1. CASE Call(x, w, out)
      <3>1. GemmInv'
        BY <1>3, <2>1, CallBegins DEF IInv, GemmInv
      <3>2. /\ m' = x[1] /\ n' = w[1] /\ k' = x[2] /\ x[2] = w[2] /\ pc' = "loop"
            /\ y' = Words(out[1] * out[2])
        BY <2>1 DEF Call
      <3>3. DOMAIN y' = 0 .. out[1] * out[2] - 1 /\ \A e \in DOMAIN y' : y'[e] = Nothing
        BY <3>2 DEF Words
      <3>4. Running("call")' /\ DOMAIN y' = Taken(at)'
        BY <1>1, <1>2, <3>3 DEF Running, Taken
      <3>5. RunInv'
        BY <1>2, <3>2, <3>3, <3>4 DEF RunInv, Nothing
      <3> QED BY <3>1, <3>5
    <2>2. CASE CallFails(out)
      <3>1. /\ UNCHANGED <<m, n, k, i, j, conf, sy>> /\ pc' = "failed"
            /\ y' = Words(out[1] * out[2])
        BY <2>2 DEF CallFails
      <3>2. GemmInv'
        BY <3>1, GemmAside DEF IInv
      <3>3. \A e \in DOMAIN y' : y'[e] = Nothing
        BY <3>1 DEF Words
      <3>4. Running("call")'
        BY <1>1, <1>2 DEF Running
      <3>5. RunInv'
        BY <3>1, <3>3, <3>4 DEF RunInv, Nothing
      <3> QED BY <3>2, <3>5
    <2> QED BY <2>1, <2>2 DEF CallGemm
  <1> QED BY <1>1, <1>4, InvocationStays DEF IInv

(* At the end of the loops every element has been computed.                *)
LEMMA LoopsEnd ==
  ASSUME GemmInv, pc = "loop", i >= m
  PROVE  /\ DOMAIN sy = 0 .. m * n - 1
         /\ \A a \in 0 .. m - 1, r \in 0 .. n - 1 : sy[a * n + r] = Element(a, r)
  <1>1. m \in Nat /\ n \in Nat /\ i \in Nat /\ j \in Nat
    BY DEF GemmInv, GemmTypes
  <1>2. \A a \in 0 .. m - 1, r \in 0 .. n - 1 : Computed(a, r)
    BY <1>1 DEF Computed
  <1> QED BY <1>2 DEF GemmInv, LoopInv

LEMMA GemmKeeps ==
  ASSUME IInv, Gemm
  PROVE  IInv'
  <1>1. Running("call") /\ GemmStep /\ UNCHANGED convVars
    BY DEF Gemm
  <1>2. UNCHANGED <<convs, calls, inits, handles, kernels, stage, at>>
    BY <1>1 DEF convVars
  <1>3. GemmInv'
    BY <1>1, GemmStepKeeps DEF IInv
  <1>4. Running("call")' /\ Taken(at)' = Taken(at)
    BY <1>1, <1>2 DEF Running, Taken
  <1>5. /\ pc \in {"loop", "execute"} /\ UNCHANGED <<m, n, k>>
        /\ m = calls[at].x[1] /\ n = calls[at].w[1] /\ k = calls[at].x[2]
        /\ k = calls[at].w[2]
        /\ DOMAIN y = Taken(at) /\ \A e \in DOMAIN y : y[e] = Nothing
    BY <1>1 DEF GemmStep, Config, Execute, ExecuteFails, NextRow, Accumulate, IInv, RunInv
  <1>6. RunInv'
    <2>1. CASE pc' \in {"loop", "execute", "failed"} /\ y' = y
      BY <1>2, <1>4, <1>5, <2>1 DEF RunInv, Nothing
    <2>2. CASE Accumulate
      <3>1. /\ pc = "loop" /\ i >= m /\ pc' = "done"
            /\ y' = [e \in DOMAIN y \cup DOMAIN sy |-> IF e \in DOMAIN sy THEN sy[e] ELSE y[e]]
        BY <2>2 DEF Accumulate
      <3>2. /\ DOMAIN sy = 0 .. m * n - 1
            /\ \A a \in 0 .. m - 1, r \in 0 .. n - 1 : sy[a * n + r] = Element(a, r)
        BY <3>1, LoopsEnd DEF IInv
      <3>3. m \in Nat /\ n \in Nat
        BY DEF IInv, GemmInv, GemmTypes
      <3>4. ASSUME NEW a \in 0 .. m - 1, NEW r \in 0 .. n - 1
            PROVE  y'[a * n + r] = Element(a, r)
        <4>1. a * n + r \in DOMAIN sy
          BY <3>2, <3>3, RowInside
        <4> QED BY <3>1, <3>2, <4>1
      <3>5. DOMAIN y' = Taken(at) \cup (0 .. m * n - 1)
        BY <1>5, <3>1, <3>2
      <3>6. \A a, r : Element(a, r)' = Element(a, r)
        BY <1>5 DEF Element, Dot
      <3>7. /\ DOMAIN y' = Taken(at)' \cup (0 .. m' * n' - 1)
            /\ \A a \in 0 .. m' - 1, r \in 0 .. n' - 1 : y'[a * n' + r] = Element(a, r)'
        BY <1>4, <1>5, <3>4, <3>5, <3>6
      <3>8. /\ m' = calls'[at'].x[1] /\ n' = calls'[at'].w[1] /\ k' = calls'[at'].x[2]
            /\ k' = calls'[at'].w[2]
        BY <1>2, <1>5
      <3>9. pc' = "done"
        BY <3>1
      <3> QED BY <1>4, <3>7, <3>8, <3>9 DEF RunInv
    <2> QED BY <1>1, <2>1, <2>2 DEF GemmStep, Config, Execute, ExecuteFails, NextRow
  <1> QED BY <1>1, <1>3, <1>6, InvocationStays DEF IInv

LEMMA GemmReturnsKeeps ==
  ASSUME IInv, GemmReturns
  PROVE  IInv'
  <1>1. /\ Running("call") /\ pc' = "idle" /\ at' = at + 1
        /\ UNCHANGED <<m, n, k, i, j, conf, sy, y>>
        /\ UNCHANGED <<convs, calls, inits, handles, kernels, stage>>
    BY DEF GemmReturns
  <1>2. GemmInv'
    BY <1>1, GemmAside DEF IInv
  <1>3. stage = "run" /\ at \in Nat \ {0}
    BY <1>1 DEF Running, IInv, ConvTypes
  <1>4. ConvTypes'
    BY <1>1, <1>3 DEF IInv, ConvTypes, InitRecord, Bitstream
  <1>5. GlobalsDiffer' /\ LoadInv'
    BY <1>1, <1>3 DEF IInv, GlobalsDiffer, LoadInv
  <1>6. RunInv'
    BY <1>1, IdleRun
  <1> QED BY <1>1, <1>2, <1>4, <1>5, <1>6, CallsStay DEF IInv

LEMMA FuseStepKeeps ==
  ASSUME IInv, NEW c \in DOMAIN convs, Fuse(c)
  PROVE  IInv'
  <1>1. stage = "fuse" /\ UNCHANGED <<gemmVars, convs>>
    BY DEF Fuse
  <1>2. pc = "idle" /\ UNCHANGED <<m, n, k, i, j, conf, sy, y, pc>>
    BY <1>1, IdleOutside DEF Running, gemmVars
  <1>3. GemmInv'
    BY <1>2, GemmAside DEF IInv
  <1>4. RunInv'
    BY <1>2, IdleRun
  <1> QED BY <1>1, <1>3, <1>4, FuseKeeps DEF IInv

LEMMA NextKeepsInvariant == IInv /\ [Next]_vars => IInv'
  <1> SUFFICES ASSUME IInv, [Next]_vars PROVE IInv'
    OBVIOUS
  <1>1. /\ at \in Nat \ {0} /\ stage \in {"fuse", "load", "run", "ended", "failed"}
        /\ inits \in Seq(InitRecord) /\ Len(inits) \in Nat
    BY LenProperties DEF IInv, ConvTypes
  <1>2. CASE UNCHANGED vars
    <2>1. UNCHANGED convVars /\ UNCHANGED <<m, n, k, i, j, conf, sy, y, pc>>
      BY <1>2 DEF vars, convVars, gemmVars
    <2>2. GemmInv'
      BY <2>1, GemmAside DEF IInv
    <2>3. RunInv'
      BY <2>1 DEF IInv, RunInv, convVars, Running, Taken, Element, Dot, Nothing
    <2> QED BY <2>1, <2>2, <2>3, InvocationStays DEF IInv
  <1>3. ASSUME NEW c \in DOMAIN convs, Fuse(c)
        PROVE  IInv'
    BY <1>3, FuseStepKeeps
  <1>4. CASE Fused
    <2>1. stage = "fuse" /\ pc = "idle"
      BY <1>4, IdleOutside DEF Fused, Running
    <2>2. kernels = <<>> /\ at = 1
      BY <2>1 DEF IInv, LoadInv
    <2> QED BY <1>1, <1>4, <2>1, <2>2, OnwardKeeps DEF Fused
  <1>5. CASE InitAccelerator
    BY <1>5, InitAcceleratorKeeps
  <1>6. CASE InitAcceleratorFails
    <2>1. stage = "load" /\ pc = "idle"
      BY <1>6, IdleOutside DEF InitAcceleratorFails, Running
    <2> QED BY <1>1, <1>6, <2>1, OnwardKeeps DEF InitAcceleratorFails
  <1>7. CASE Loaded
    <2>1. stage = "load" /\ pc = "idle"
      BY <1>7, IdleOutside DEF Loaded, Running
    <2>2. Len(kernels) = Len(inits)
      BY <1>1, <1>7, <2>1 DEF IInv, LoadInv, Loaded
    <2> QED BY <1>1, <1>7, <2>1, <2>2, OnwardKeeps DEF Loaded
  <1>8. CASE Convolve
    <2>1. stage = "run" /\ pc = "idle"
      BY <1>8, IdleOutside DEF Convolve, Running
    <2>2. Len(kernels) = Len(inits)
      BY <2>1 DEF IInv, LoadInv
    <2> QED BY <1>1, <1>8, <2>1, <2>2, OnwardKeeps DEF Convolve
  <1>9. CASE CallGemm
    BY <1>9, CallGemmKeeps
  <1>10. CASE Gemm
    BY <1>10, GemmKeeps
  <1>11. CASE GemmReturns
    BY <1>11, GemmReturnsKeeps
  <1>12. CASE GemmFailed
    BY <1>1, <1>12, OnwardKeeps DEF GemmFailed
  <1>13. CASE Ended
    <2>1. stage = "run" /\ pc = "idle"
      <3>1. Len(convs) \in Nat
        BY LenProperties DEF IInv, ConvTypes
      <3> QED BY <1>1, <1>13, <3>1, IdleOutside DEF Ended, Running
    <2> QED BY <1>1, <1>13, <2>1, OnwardKeeps DEF Ended
  <1> QED BY <1>2, <1>3, <1>4, <1>5, <1>6, <1>7, <1>8, <1>9, <1>10, <1>11, <1>12, <1>13 DEF Next

-----------------------------------------------------------------------------
(* At every moment the products of the jobs done so far are in the result  *)
(* buffer, each call is of its convolution's shapes and has an initializer *)
(* of its own, and the kernels are numbered as their initializers are      *)
(* (FuseConv2DPass.cpp:94-190, strela_module.cc:119-193).                  *)
THEOREM ConvInvariance == Spec => []IInv
  <1>1. Init => IInv
    BY InitialisesInvariant
  <1>2. IInv /\ [Next]_vars => IInv'
    BY NextKeepsInvariant
  <1> QED BY <1>1, <1>2, PTL DEF Spec

(* No column of any job reads outside of the copies of X and W or writes   *)
(* outside of the result buffer, and no job computes an element again,     *)
(* for any shapes and any number of lanes (strela_module.cc:136-151).      *)
THEOREM JobsStayInside == Spec => []ColumnsStayInside
  <1>1. IInv => ColumnsStayInside
    BY GemmInside DEF IInv
  <1> QED BY <1>1, ConvInvariance, PTL

(* A call runs the kernel that was loaded for its convolution, in whatever *)
(* order the convolutions were rewritten (FuseConv2DPass.cpp:171-184).     *)
THEOREM OwnKernels == Spec => []CallsUseOwnKernel
  <1>1. IInv => CallsUseOwnKernel
    <2> SUFFICES ASSUME IInv, Running("call")
                 PROVE  kernels[handles[calls[at].global]].for = at
      BY DEF CallsUseOwnKernel
    <2>1. CallInv(at) /\ calls[at].as = "call" /\ stage = "run"
      BY CallFacts DEF Running
    <2>2. PICK e \in DOMAIN inits : inits[e].global = calls[at].global /\ inits[e].for = at
      BY <2>1 DEF CallInv
    <2>3. e <= Len(kernels)
      <3>1. inits \in Seq(InitRecord) /\ Len(kernels) = Len(inits)
        BY <2>1 DEF IInv, ConvTypes, LoadInv
      <3> QED BY <3>1, LenProperties
    <2>4. handles[inits[e].global] = e /\ kernels[e].for = inits[e].for
      BY <2>2, <2>3 DEF IInv, LoadInv
    <2> QED BY <2>2, <2>4
  <1> QED BY <1>1, ConvInvariance, PTL

(* What a call that returns has computed: the layouts of a filter whose    *)
(* shape goes through the comparison of the inner dimensions.              *)
LEMMA CallsMultiply ==
  ASSUME IInv, Running("call"), pc = "done"
  PROVE  LET c == convs[at] IN
         /\ Matmul(c) /\ (c.perm[3] = 4 \/ c.chan = 1)
         /\ m = c.batch /\ n = c.feat /\ k = c.chan
         /\ DOMAIN y = 0 .. c.batch * c.feat - 1
         /\ \A a \in 0 .. c.batch - 1, r \in 0 .. c.feat - 1 :
              y[a * c.feat + r] = Dot(a * c.chan, r * c.chan, c.chan)
  <1> DEFINE c == convs[at]
  <1>1. /\ Matmul(c)
        /\ calls[at].x = CollapseTo2D(InputDims(c))
        /\ calls[at].w = CollapseTo2D(SourceDims(c))
        /\ calls[at].y = CollapseTo2D(OutDims(c))
    BY CallFacts
  <1>2. c.batch \in Nat /\ c.chan \in Nat /\ c.feat \in Nat
    BY <1>1, MatmulFields
  <1>3. /\ calls[at].x = <<c.batch, c.chan>> /\ calls[at].y = <<c.batch, c.feat>>
        /\ calls[at].w = IF c.perm[3] = 4 THEN <<c.feat, c.chan>> ELSE <<c.feat * c.chan, 1>>
    BY <1>1, MatmulDims
  <1>4. /\ m = calls[at].x[1] /\ n = calls[at].w[1] /\ k = calls[at].x[2]
        /\ k = calls[at].w[2]
        /\ DOMAIN y = Taken(at) \cup (0 .. m * n - 1)
        /\ \A a \in 0 .. m - 1, r \in 0 .. n - 1 : y[a * n + r] = Element(a, r)
    BY DEF IInv, RunInv
  <1> HIDE DEF c
  <1>5. c.perm[3] = 4 \/ c.chan = 1
    BY <1>3, <1>4
  <1>6. m = c.batch /\ n = c.feat /\ k = c.chan
    <2>1. CASE c.perm[3] = 4
      BY <1>2, <1>3, <1>4, <2>1
    <2>2. CASE c.perm[3] # 4
      <3>1. c.chan = 1
        BY <1>5, <2>2
      <3> QED BY <1>2, <1>3, <1>4, <2>2, <3>1
    <2> QED BY <2>1, <2>2
  <1>7. Taken(at) = 0 .. m * n - 1
    BY <1>3, <1>6 DEF Taken
  <1>8. DOMAIN y = 0 .. c.batch * c.feat - 1
    BY <1>4, <1>6, <1>7
  <1>9. \A a \in 0 .. c.batch - 1, r \in 0 .. c.feat - 1 :
          y[a * c.feat + r] = Dot(a * c.chan, r * c.chan, c.chan)
    BY <1>4, <1>6 DEF Element
  <1> QED BY <1>1, <1>5, <1>6, <1>8, <1>9 DEF c

(* The products of one element of the result.                              *)
LEMMA MatmulProducts ==
  ASSUME NEW c, Matmul(c), c.perm[3] = 4 \/ c.chan = 1,
         NEW a \in 0 .. c.batch - 1, NEW r \in 0 .. c.feat - 1
  PROVE  /\ Products(c, <<a, 0, 0, r>>) = AddedUp(Dot(a * c.chan, r * c.chan, c.chan))
         /\ RowMajor(<<a, 0, 0, r>>, OutDims(c)) = a * c.feat + r
  <1>1. /\ c.batch \in Nat /\ c.chan \in Nat /\ c.feat \in Nat
        /\ c.h = 1 /\ c.w = 1 /\ c.kh = 1 /\ c.kw = 1 /\ c.stride = 1 /\ c.dilation = 1
    BY MatmulFields
  <1>2. OutDims(c) = <<c.batch, 1, 1, c.feat>>
    BY <1>1 DEF OutDims, OutSize
  <1>3. RowMajor(<<a, 0, 0, r>>, OutDims(c)) = a * c.feat + r
    BY <1>1, <1>2 DEF RowMajor
  <1> DEFINE out == <<a, 0, 0, r>>
             word(u, v, ch) ==
               <<RowMajor(<<out[1], out[2] * c.stride + u * c.dilation,
                            out[3] * c.stride + v * c.dilation, ch>>,
                          <<c.batch, c.h, c.w, c.chan>>),
                 SourceWord(c, <<u, v, ch, out[4]>>)>>
  <1>4. ASSUME NEW ch \in 0 .. c.chan - 1
        PROVE  word(0, 0, ch) = <<a * c.chan + ch, r * c.chan + ch>>
    <2>1. SourceWord(c, <<0, 0, ch, r>>) = r * c.chan + ch
      BY MatmulWord
    <2>2. RowMajor(<<a, 0 * c.stride + 0 * c.dilation, 0 * c.stride + 0 * c.dilation, ch>>,
                   <<c.batch, c.h, c.w, c.chan>>) = a * c.chan + ch
      BY <1>1 DEF RowMajor
    <2> QED BY <2>1, <2>2
  <1>5. out = <<a, 0, 0, r>>
    OBVIOUS
  <1> HIDE DEF out
  <1>6. \A e : e \in Products(c, out) <=>
                \E u \in 0 .. c.kh - 1, v \in 0 .. c.kw - 1, ch \in 0 .. c.chan - 1 :
                   e = word(u, v, ch)
    BY SMT DEF Products
  <1> HIDE DEF word
  <1>7. 0 .. c.kh - 1 = {0} /\ 0 .. c.kw - 1 = {0}
    BY <1>1
  <1>8. \A e : e \in Products(c, out) <=>
                \E ch \in 0 .. c.chan - 1 : e = <<a * c.chan + ch, r * c.chan + ch>>
    BY <1>4, <1>6, <1>7
  <1> DEFINE P == Products(c, out)
             A == AddedUp(Dot(a * c.chan, r * c.chan, c.chan))
  <1>9. \A e : e \in A <=>
                \E t \in 0 .. c.chan - 1 : e = <<a * c.chan + t, r * c.chan + t>>
    BY DEF AddedUp, Dot
  <1>10. P = A
    <2>1. \A e : e \in P <=> e \in A
      BY <1>8, <1>9
    <2> HIDE DEF P, A
    <2> QED BY <2>1
  <1> QED BY <1>3, <1>5, <1>10

(* A call that returns has added to each word of its result the products   *)
(* that its convolution adds up, and has touched no other word; one that   *)
(* has not returned, or fails, has touched nothing: for every layout of    *)
(* the filter that the pass takes (FuseConv2DPass.cpp:94-108,              *)
(* strela_module.cc:191-193).                                              *)
THEOREM FusionIsSound == Spec => []FusedIsConvolution
  <1>1. IInv => FusedIsConvolution
    <2> SUFFICES ASSUME IInv, Running("call")
                 PROVE  FusedIsConvolution
      BY DEF FusedIsConvolution
    <2> DEFINE c == convs[at]
    <2>1. ASSUME pc = "done"
          PROVE  /\ DOMAIN y = {RowMajor(out, OutDims(c)) : out \in OutIndices(c)}
                 /\ \A out \in OutIndices(c) :
                      AddedUp(y[RowMajor(out, OutDims(c))]) = Products(c, out)
      <3>1. /\ Matmul(c) /\ (c.perm[3] = 4 \/ c.chan = 1)
            /\ DOMAIN y = 0 .. c.batch * c.feat - 1
            /\ \A a \in 0 .. c.batch - 1, r \in 0 .. c.feat - 1 :
                 y[a * c.feat + r] = Dot(a * c.chan, r * c.chan, c.chan)
        BY <2>1, CallsMultiply
      <3> HIDE DEF c
      <3>2. /\ c.batch \in Nat /\ c.chan \in Nat /\ c.feat \in Nat
            /\ c.h = 1 /\ c.w = 1 /\ c.kh = 1 /\ c.kw = 1 /\ c.stride = 1 /\ c.dilation = 1
        BY <3>1, MatmulFields
      <3>3. OutDims(c) = <<c.batch, 1, 1, c.feat>>
        BY <3>2 DEF OutDims, OutSize
      <3>4. OutIndices(c) = (0 .. c.batch - 1) \X {0} \X {0} \X (0 .. c.feat - 1)
        <4>1. 0 .. 1 - 1 = {0}
          OBVIOUS
        <4> QED BY <3>3, <4>1 DEF OutIndices
      <3>5. ASSUME NEW out \in OutIndices(c)
            PROVE  \E a \in 0 .. c.batch - 1, r \in 0 .. c.feat - 1 : out = <<a, 0, 0, r>>
        BY <3>4
      <3>6. ASSUME NEW a \in 0 .. c.batch - 1, NEW r \in 0 .. c.feat - 1
            PROVE  /\ <<a, 0, 0, r>> \in OutIndices(c)
                   /\ RowMajor(<<a, 0, 0, r>>, OutDims(c)) = a * c.feat + r
                   /\ AddedUp(y[a * c.feat + r]) = Products(c, <<a, 0, 0, r>>)
        BY <3>1, <3>4, MatmulProducts
      <3>7. \A out \in OutIndices(c) :
              AddedUp(y[RowMajor(out, OutDims(c))]) = Products(c, out)
        BY <3>5, <3>6
      <3>8. \A out \in OutIndices(c) : RowMajor(out, OutDims(c)) \in DOMAIN y
        <4> SUFFICES ASSUME NEW out \in OutIndices(c)
                     PROVE  RowMajor(out, OutDims(c)) \in DOMAIN y
          OBVIOUS
        <4>1. PICK a \in 0 .. c.batch - 1, r \in 0 .. c.feat - 1 : out = <<a, 0, 0, r>>
          BY <3>5
        <4>2. a * c.feat + r \in 0 .. c.batch * c.feat - 1
          BY <3>2, RowInside
        <4> QED BY <3>1, <3>6, <4>1, <4>2
      <3>9. \A w \in DOMAIN y : \E out \in OutIndices(c) : w = RowMajor(out, OutDims(c))
        <4> SUFFICES ASSUME NEW w \in 0 .. c.batch * c.feat - 1
                     PROVE  \E out \in OutIndices(c) : w = RowMajor(out, OutDims(c))
          BY <3>1
        <4>1. PICK a \in 0 .. c.batch - 1, r \in 0 .. c.feat - 1 : w = a * c.feat + r
          BY <3>2, RowExists
        <4> QED BY <3>6, <4>1
      <3> QED BY <3>7, <3>8, <3>9
    <2>2. ASSUME pc \notin {"idle", "done"}
          PROVE  \A w \in DOMAIN y : y[w] = Nothing
      BY <2>2 DEF IInv, GemmInv, GemmTypes, RunInv
    <2> QED BY <2>1, <2>2, Zenon DEF FusedIsConvolution
  <1> QED BY <1>1, ConvInvariance, PTL

=============================================================================
