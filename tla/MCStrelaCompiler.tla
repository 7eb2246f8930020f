--------------------------- MODULE MCStrelaCompiler ---------------------------
(***************************************************************************)
(* Functions of one and two linalg operations over 2x2 or 1x2 tensors.     *)
(***************************************************************************)
EXTENDS StrelaCompiler

CONSTANT Transposes  \* whether a relu may transpose its input

Op(body, uses, const, maps) ==
  [kind |-> "generic", body |-> body, uses |-> uses, const |-> const, maps |-> maps,
   out |-> "id", i32 |-> TRUE, parallel |-> TRUE, static |-> TRUE, rows |-> 2, cols |-> 2]

Add == Op("addi", <<1, 2>>, 0, <<"id", "id">>)
Relu == Op("maxsi", <<1, 0>>, 0, <<"id">>)
ReluOfTwo == Op("maxsi", <<1, 2>>, 0, <<"id", "id">>)

Adds == {Add, [Add EXCEPT !.uses = <<2, 1>>], [Add EXCEPT !.uses = <<1, 1>>],
         [Add EXCEPT !.maps = <<"id", "swap">>], [Add EXCEPT !.maps = <<"id", "row">>],
         [Add EXCEPT !.body = "muli"]}
Relus == {Relu, [Relu EXCEPT !.const = 1], [Relu EXCEPT !.rows = 1, !.maps = <<"swap">>]}
         \cup (IF Transposes THEN {[Relu EXCEPT !.maps = <<"swap">>]} ELSE {})
Others == {[Add EXCEPT !.i32 = FALSE], [Add EXCEPT !.parallel = FALSE],
           [Add EXCEPT !.static = FALSE], [Relu EXCEPT !.cols = 3],
           [Add EXCEPT !.rows = 1]}

(* The nodes every function begins with.                                   *)
Plain(id, kind, value) == Node(<<id>>, kind, <<>>, value, NoOperation, NoDevice)
Prelude == << Plain(11, "import", 0), Plain(12, "import", 0),
              Plain(13, "splat", 0), Plain(14, "splat", 1), Plain(15, "dense", 0),
              Plain(16, "empty", 0), Plain(17, "fill", 0), Plain(18, "fill", 1) >>

Linalg(id, args, op) == Node(id, "linalg", args, 0, op, NoDevice)
Export(id, arg) == Node(id, "export", <<arg>>, 0, NoOperation, NoDevice)

X == <<11>>
Y == <<12>>
Constants == {<<13>>, <<14>>, <<15>>}
Empty == <<16>>

(* Operands of a generic operation: a tensor that is computed, and any.    *)
Operands(op, tensors) ==
  IF Len(op.maps) = 1 THEN {<<t>> : t \in tensors}
  ELSE {<<t, u>> : t \in tensors, u \in tensors \cup Constants}
       \cup {<<c, t>> : c \in Constants, t \in tensors}

One(op, args) == Prelude \o <<Linalg(<<1>>, args, op), Export(<<31>>, <<1>>)>>

GenericsOfOne(ops) ==
  UNION {{One(op, ins \o <<Empty>>) : ins \in Operands(op, {X, Y})} : op \in ops}

Product == [kind |-> "matmul", userMaps |-> FALSE, i32 |-> TRUE, batch |-> 1, inner |-> 2,
            rhsInner |-> 2, rows |-> 2, rowsStatic |-> TRUE, features |-> 3, rhsStatic |-> TRUE]

Products == {[Product EXCEPT !.rowsStatic = s, !.features = f, !.rhsInner = i] :
               s \in BOOLEAN, f \in {2, 3, 4, 6}, i \in {2, 3}}
            \cup {[Product EXCEPT !.userMaps = TRUE], [Product EXCEPT !.batch = 2],
                  [Product EXCEPT !.rhsStatic = FALSE]}

ProductsOfOne == {One(op, <<X, w, i>>) : op \in Products, w \in {Y, <<14>>}, i \in {<<16>>, <<17>>, <<18>>}}

(* Two operations: the second reads the first, or not, and its init may    *)
(* have the size of the first's result.  Both results are exported, the    *)
(* first read a second time.                                               *)
Two(op1, args1, op2, args2) ==
  Prelude \o <<Linalg(<<1>>, args1, op1), Node(<<21>>, "empty", <<<<1>>>>, 0, NoOperation, NoDevice),
               Linalg(<<2>>, args2, op2), Export(<<31>>, <<1>>), Export(<<32>>, <<2>>)>>

GenericsOfTwo ==
  UNION {{Two(op1, a \o <<Empty>>, op2, b \o <<<<21>>>>) :
            a \in Operands(op1, {X}), b \in Operands(op2, {X, <<1>>})} :
         <<op1, op2>> \in {Add, Relu, [Add EXCEPT !.body = "muli"]} \X {Add, Relu, ReluOfTwo}}

Machine(devices, default, preset) ==
  [devices |-> devices, default |-> default, preset |-> preset]

Usual == Machine(<<"cpu0", "strela0">>, "cpu0", FALSE)
Unusual == {Machine(<<"cpu0", "strela1", "strela0">>, "cpu0", FALSE),
            Machine(<<"cpu0">>, "cpu0", FALSE),
            Machine(<<"strela0">>, NoDevice, FALSE),
            Machine(<<"cpu0", "strela0">>, "cpu0", TRUE)}

(* The unusual machines are tried with one operation that has a kernel.    *)
MCPrograms ==
  {b @@ Usual : b \in [block : GenericsOfOne(Adds \cup Relus \cup {ReluOfTwo} \cup Others)
                                   \cup ProductsOfOne \cup GenericsOfTwo]}
  \cup {b @@ m : b \in [block : GenericsOfOne({Add, Relu, ReluOfTwo})], m \in Unusual}

(* Executables that were not formed from linalg operations by IREE.        *)
Written(op, n, out) ==
  [op |-> op, defs |-> <<[kind |-> "load", value |-> 0], [kind |-> "load", value |-> 0]>>,
   init |-> [kind |-> "empty", value |-> 0],
   loads |-> <<1, n>>, store |-> out, kernel |-> NoKernel]

WrittenBody(statements, region) ==
  [body |-> statements, region |-> region, workload |-> 0, ordinal |-> 0, grid |-> NoGrid]

TwoTargets ==
  [lazy |-> FALSE,
   variants |-> << [target |-> "bitstream",
                    exports |-> <<WrittenBody(<<Written(Add, 2, 3)>>, "none"),
                                  WrittenBody(<<Written(Add, 1, 2)>>, "placeholder")>>],
                   [target |-> "bitstream_b",
                    exports |-> <<WrittenBody(<<Written(Add, 2, 3)>>, "none")>>] >>]

WrittenAs(statements, region) ==
  <<[lazy |-> FALSE,
     variants |-> <<[target |-> "bitstream", exports |-> <<WrittenBody(statements, region)>>]>>]>>

MCHandWritten ==
  { <<>>, <<TwoTargets>>,
    WrittenAs(<<Written(Add, 2, 3), Written(Add, 2, 4)>>, "none"),
    WrittenAs(<<>>, "none"),
    WrittenAs(<<Written(Add, 2, 3)>>, "broken") }

MCWorkloads == {0, 1, 3}

(* What the proofs assume of the relus is so where none of them transposes *)
(* a square.                                                               *)
ASSUME InPlaceAssumption == Transposes \/ RelusReadInPlace

=============================================================================
