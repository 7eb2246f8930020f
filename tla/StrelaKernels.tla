---------------------------- MODULE StrelaKernels ----------------------------
(***************************************************************************)
(* Which linalg operations the compiler takes for a STRELA kernel          *)
(* (KernelMatchers.cpp), what it makes of them                             *)
(* (ConvertLinalgToStrelaPass.cpp), and what the operation and the kernel  *)
(* compute, word by word.                                                  *)
(*                                                                         *)
(* A linalg.generic with a body of one statement is a record: the          *)
(* statement, the block arguments it uses (0 is a constant of the body),   *)
(* an indexing map per input and one for the result, over an iteration     *)
(* space of rows by cols.  "id" is (d0,d1)->(d0,d1), "swap" is             *)
(* (d0,d1)->(d1,d0), "row" broadcasts: (d0,d1)->(d1).                      *)
(* A linalg.batch_matmul multiplies batch x rows x inner by                *)
(* batch x inner x features; a dynamic size is recorded beside its value.  *)
(***************************************************************************)
EXTENDS Naturals, Sequences, FiniteSets

Maps == {"id", "swap", "row"}

Shape(op, map) ==
  CASE map = "id" -> <<op.rows, op.cols>>
    [] map = "swap" -> <<op.cols, op.rows>>
    [] map = "row" -> <<op.cols>>

Generic(op) == op.kind = "generic"
Matmul(op) == op.kind = "matmul"
ZeroSplat(def) == def.kind = "splat" /\ def.value = 0

(* What the verifiers of linalg say of an operation with so many inputs:   *)
(* there is an indexing map for each, the statement has two operands, and  *)
(* as its loops are parallel it writes each element of the result once.    *)
IsLinalgOp(op, inputs) ==
  /\ Generic(op) =>
       /\ op = [kind |-> "generic", body |-> op.body, uses |-> op.uses, const |-> op.const,
                maps |-> op.maps, out |-> op.out, i32 |-> op.i32, parallel |-> op.parallel,
                static |-> op.static, rows |-> op.rows, cols |-> op.cols]
       /\ op.maps \in [1 .. inputs -> Maps] /\ op.out \in {"id", "swap"}
       /\ op.uses \in [1 .. 2 -> 0 .. inputs]
       /\ op.rows \in Nat /\ op.cols \in Nat
  /\ Matmul(op) => inputs = 2 /\ op.rows \in Nat /\ op.features \in Nat

(* The checks that the matchers of the two generic kernels begin with.     *)
Elementwise(op, counts) ==
  Generic(op) /\ Len(op.maps) \in counts /\ op.i32 /\ op.parallel

IsStrelaLinalgAdd(op) ==
  /\ Elementwise(op, {2})
  /\ op.maps = <<"id", "id">> /\ op.out = "id"
  /\ op.body = "addi" /\ op.uses \in {<<1, 2>>, <<2, 1>>}

(* The zero is a second input or a constant of the body.  def[i] is the    *)
(* operation that defines input i.  Nothing is asked of the indexing maps. *)
IsStrelaLinalgRelu(op, def) ==
  /\ Elementwise(op, {1, 2})
  /\ op.body = "maxsi" /\ op.uses[1] = 1
  /\ IF Len(op.maps) = 2
     THEN op.uses[2] = 2 /\ ZeroSplat(def[2])
     ELSE op.uses[2] = 0 /\ op.const = 0

(* init is the operation that defines what the products are added to.      *)
IsStrelaLinalgMatvec(op, init) ==
  /\ Matmul(op) /\ ~op.userMaps /\ op.i32
  /\ op.batch = 1 /\ op.rhsStatic
  /\ init.kind = "fill" /\ init.value = 0

NoKernel == "none"

(* The kernel the rewrite patterns choose.                                 *)
KernelOf(op, def, init) ==
  CASE IsStrelaLinalgAdd(op) -> "add"
    [] IsStrelaLinalgRelu(op, def) -> "relu"
    [] IsStrelaLinalgMatvec(op, init) -> "matvec"
    [] OTHER -> NoKernel

(* The inputs of the operation that the kernel's operation keeps.          *)
KernelInputs(kernel) == IF kernel = "relu" THEN <<1>> ELSE <<1, 2>>

(* add and relu have operands and a result of one type; the verifier of    *)
(* matvec compares the sizes it knows.  That the result has the batch, rows*)
(* and features of the operands is what linalg verified of batch_matmul,   *)
(* whose types the rewrite keeps.                                          *)
VerifyKernelOp(op, kernel) ==
  CASE kernel \in {"add", "relu"} ->
         \A i \in DOMAIN KernelInputs(kernel) :
           Shape(op, op.maps[i]) = Shape(op, op.out)
    [] kernel = "matvec" ->
         /\ op.batch = 1
         /\ op.inner = op.rhsInner
    [] OTHER -> TRUE

-----------------------------------------------------------------------------
(* Meaning.  A result word of an elementwise operation is the statement    *)
(* applied to terms: word w of input i, or a constant.                     *)
Term(i, w) == [input |-> i, word |-> w]
Constant(v) == [input |-> 0, word |-> v]

Points(op) == (0 .. op.rows - 1) \X (0 .. op.cols - 1)

WordAt(op, map, d) ==
  CASE map = "id" -> d[1] * op.cols + d[2]
    [] map = "swap" -> d[2] * op.rows + d[1]
    [] map = "row" -> d[2]

TermAt(op, def, u, d) ==
  IF u = 0 THEN Constant(op.const)
  ELSE IF def[u].kind = "splat" THEN Constant(def[u].value)
  ELSE Term(u, WordAt(op, op.maps[u], d))

ResultWords(op) == 0 .. op.rows * op.cols - 1

(* What the linalg operation computes.                                     *)
LinalgResult(op, def) ==
  [w \in ResultWords(op) |->
     LET d == CHOOSE p \in Points(op) : WordAt(op, op.out, p) = w IN
     [body |-> op.body,
      terms |-> {TermAt(op, def, op.uses[u], d) : u \in DOMAIN op.uses}]]

(* The column each operand enters and the result leaves by.                *)
KernelColumns(kernel) ==
  IF kernel = "add" THEN [inputs |-> <<0, 1>>, output |-> 1]
  ELSE [inputs |-> <<0>>, output |-> 0]

(* What the CGRA sends down a column: the adders pair the words of two     *)
(* columns as they come, the other bitstream takes one column.  inputs[c]  *)
(* is what enters column c.                                                *)
ColumnResult(kernel, column, inputs, w) ==
  CASE kernel = "add" /\ column \in {1, 3} ->
         [body |-> "addi", terms |-> {Term(inputs[column - 1], w), Term(inputs[column], w)}]
    [] kernel = "relu" /\ column = 0 ->
         [body |-> "maxsi", terms |-> {Term(inputs[0], w), Constant(0)}]
    [] OTHER -> [body |-> "none", terms |-> {}]

(* The numbers of S from the first to the last.                            *)
InOrder(S) ==
  CHOOSE s \in [1 .. Cardinality(S) -> S] :
    \A k, l \in 1 .. Cardinality(S) : k < l => s[k] < s[l]

=============================================================================
