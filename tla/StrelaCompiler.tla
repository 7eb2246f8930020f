---------------------------- MODULE StrelaCompiler ----------------------------
(***************************************************************************)
(* The compiler from a function of linalg operations to the executables    *)
(* the runtime loads: placement, the formation of dispatches, which is     *)
(* IREE's, and the translation of the dispatches of STRELA.                *)
(***************************************************************************)
EXTENDS StrelaPlacement, StrelaTranslation

CONSTANTS
  HandWritten,   \* executables a module may bring along, as sequences
  Workloads      \* the values a size that is not static may have

(* The operations of a function are those that linalg verifies, and what   *)
(* a module brings along are executables.                                  *)
ASSUME CompilerAssumption ==
  /\ \A p \in Programs : \A i \in DOMAIN p.block :
       p.block[i].kind = "linalg" => IsLinalgOp(p.block[i].op, Len(p.block[i].args) - 1)
  /\ Workloads \subseteq Nat
  /\ \A written \in HandWritten :
       IsList(written) /\ \A e \in DOMAIN written : IsExecutable(written[e])

vars == <<placementVars, translationVars, phase>>

Init == PlacementInit /\ TranslationInit

-----------------------------------------------------------------------------
(* Dispatch formation.  A statement per operation that was placed.  Splats *)
(* are folded into the body of a generic operation, where they are a       *)
(* constant, and stay the constant they are in front of a matrix product.  *)
SourceOf(node, i) == block[Defining(block, node.args[i])]
Splats(node) == {i \in DOMAIN Inputs(node) : SourceOf(node, i).kind = "splat"}

Folded(node) ==
  IF ~Generic(node.op) \/ Splats(node) = {} THEN node.op
  ELSE LET kept == InOrder(DOMAIN Inputs(node) \ Splats(node))
           renumber(u) == IF u \in Splats(node) \/ u = 0 THEN 0
                          ELSE CHOOSE k \in DOMAIN kept : kept[k] = u
       IN [node.op EXCEPT
             !.maps = [k \in DOMAIN kept |-> @[kept[k]]],
             !.uses = [k \in DOMAIN @ |-> renumber(@[k])],
             !.const = SourceOf(node, CHOOSE i \in Splats(node) : TRUE).value]

KeptInputs(node) ==
  InOrder(DOMAIN Inputs(node) \ (IF Generic(node.op) THEN Splats(node) ELSE {}))

(* A binding for each tensor that is read, two transfers of one tensor     *)
(* being one, and one for the result.                                      *)
FirstReads(node) ==
  LET reads == DOMAIN Inputs(node) \ Splats(node) IN
  {i \in reads : \A j \in reads : j < i => Origin[node.args[j]] # Origin[node.args[i]]}

Tensors(node) ==
  [b \in DOMAIN InOrder(FirstReads(node)) |-> Origin[node.args[InOrder(FirstReads(node))[b]]]]

Statement(node) ==
  LET tensors == Tensors(node) IN
  [op |-> Folded(node),
   defs |-> [k \in DOMAIN KeptInputs(node) |->
               LET d == SourceOf(node, KeptInputs(node)[k]) IN
               [kind |-> IF d.kind = "splat" THEN "splat" ELSE "load", value |-> d.value]],
   init |-> LET d == block[Defining(block, InitOf(node))] IN [kind |-> d.kind, value |-> d.value],
   loads |-> [k \in DOMAIN KeptInputs(node) |->
                LET i == KeptInputs(node)[k] IN
                IF i \in Splats(node) THEN NoBinding
                ELSE CHOOSE b \in DOMAIN tensors : tensors[b] = Origin[node.args[i]]],
   store |-> Len(tensors) + 1,
   kernel |-> NoKernel]

(* The rows of a product that has them dynamic are the only workload.      *)
Body(node) ==
  [body |-> <<Statement(node)>>,
   region |-> "placeholder",
   workload |-> IF Matmul(node.op) /\ ~node.op.rowsStatic THEN 1 ELSE 0,
   ordinal |-> 0,
   grid |-> NoGrid]

PlacedOps == {p \in LinalgOps(block) : Placed(block[p])}

(* Equal bodies share an executable.                                       *)
FirstOfBody ==
  {p \in PlacedOps : \A q \in PlacedOps : q < p => Body(block[q]) # Body(block[p])}

Bodies == [e \in DOMAIN InOrder(FirstOfBody) |-> Body(block[InOrder(FirstOfBody)[e]])]

FormDispatches ==
  /\ phase = "form"
  /\ \E written \in HandWritten, w \in Workloads, lazy \in BOOLEAN :
       /\ executables' = [e \in DOMAIN Bodies |->
                            [lazy |-> lazy /\ e = 1,
                             variants |-> <<[target |-> "bitstream", exports |-> <<Bodies[e]>>]>>]]
                         \o written
       /\ sites' = [s \in DOMAIN InOrder(PlacedOps) |->
            LET node == block[InOrder(PlacedOps)[s]] IN
            [op |-> node.id,
             executable |-> CHOOSE e \in DOMAIN Bodies : Bodies[e] = Body(node),
             target |-> "bitstream", ordinal |-> 0,
             tensors |-> Tensors(node) \o <<node.id>>,
             workload |-> IF Body(node).workload = 1 THEN <<w>> ELSE <<>>]]
  /\ stage' = [e \in DOMAIN executables' |-> "convert"]
  /\ phase' = "translate"
  /\ UNCHANGED <<placementVars, binary, failure>>

Translating == phase = "translate" /\ UNCHANGED <<placementVars, phase>>

Next ==
  \/ AssignTopology /\ UNCHANGED translationVars
  \/ GatherCandidates /\ UNCHANGED translationVars
  \/ Wrap /\ UNCHANGED translationVars
  \/ WrapDone /\ UNCHANGED translationVars
  \/ FormDispatches
  \/ Translating /\ \E e \in DOMAIN executables : Convert(e)
  \/ Translating /\ \E e \in DOMAIN executables : ResolveWorkgroupCount(e)
  \/ Translating /\ \E e \in DOMAIN executables : MaterializeBindings(e)
  \/ Translating /\ LinkExecutables
  \/ Translating /\ \E e \in DOMAIN executables : SerializeExecutable(e)

Spec == Init /\ [][Next]_vars

-----------------------------------------------------------------------------
SourceOp(id) == source[Defining(source, id)]

(* What the source operation computes, over the tensors of the source.     *)
Wanted(node, w) ==
  LET defs == [i \in DOMAIN Inputs(node) |-> source[Defining(source, node.args[i])]]
      result == LinalgResult(node.op, defs)[w] IN
  [result EXCEPT !.terms =
     {IF t.input = 0 THEN [tensor |-> <<>>, word |-> t.word]
      ELSE [tensor |-> node.args[t.input], word |-> t.word] : t \in @}]

(* The export that a call reaches, by target and ordinal.                  *)
Reached(site) ==
  LET b == binary[site.executable]
  IN b[CHOOSE v \in DOMAIN b : b[v].target = site.target].exports[site.ordinal]

(* Its columns are those of the call's tensors, the result the last.       *)
TakesTensorsOf(x, site) ==
  /\ Len(site.tensors) \in Range(x.outputs)
  /\ Range(x.inputs) \subseteq {NoBinding} \cup 1 .. Len(site.tensors)

(* What the call computes on its tensors.                                  *)
Computed(x, site, w) ==
  LET column == CHOOSE c \in 0 .. 3 : x.outputs[c] = Len(site.tensors)
      result == ColumnResult(x.kernel, column, x.inputs, w)
  IN [result EXCEPT !.terms =
        {IF t.input = NoBinding THEN [tensor |-> <<>>, word |-> t.word]
         ELSE [tensor |-> site.tensors[t.input], word |-> t.word] : t \in @}]

(* Each operation that was placed on STRELA is computed there, word by     *)
(* word, by the export its call reaches in the executable that is loaded:  *)
(* through conversion, sharing, linking and serialisation no operation is  *)
(* handed a kernel that computes something else                            *)
(* (MaterializeBindingsPass.cpp:208-209).                                  *)
CallsComputeTheirOps ==
  \A s \in DOMAIN sites :
    sites[s].executable \in DOMAIN binary =>
      /\ TakesTensorsOf(Reached(sites[s]), sites[s])
      /\ \A w \in ResultWords(SourceOp(sites[s].op).op) :
           Computed(Reached(sites[s]), sites[s], w) = Wanted(SourceOp(sites[s].op), w)

(* The condition under which they do: a relu reads every word where it     *)
(* writes it.  The matcher does not ask for it (KernelMatchers.cpp:70-128), *)
(* and the dialect's verifier sees no more of it than the shapes.          *)
RelusReadInPlace ==
  \A p \in Programs : \A i \in DOMAIN p.block : LET op == p.block[i].op IN
    /\ p.block[i].kind = "linalg" /\ Generic(op) /\ op.body = "maxsi" /\ op.maps # <<>>
    /\ Shape(op, op.maps[1]) = Shape(op, op.out)
    => \A d \in Points(op) : WordAt(op, op.maps[1], d) = WordAt(op, op.out, d)

(* The reasons for which an operation may be placed and not compiled: the  *)
(* backend cannot serialise matrix products yet (StrelaTarget.cpp:81-85),  *)
(* nor sizes that are not static or exceed a column (StrelaTarget.cpp:     *)
(* 39-46), no kernel adds an immediate, and the operands of the dialect's  *)
(* operations have the shape of the result.                                *)
MayFail(node) ==
  \/ Matmul(node.op)
  \/ ~node.op.static \/ node.op.rows * node.op.cols > MaxColumnWords
  \/ node.op.body = "addi" /\ Splats(node) # {}
  \/ Shape(node.op, node.op.maps[1]) # Shape(node.op, node.op.out)

(* All other operations that are placed are compiled: the export a call    *)
(* reaches is fit for the pass it is up to, for what the matchers accept   *)
(* before the operation is wrapped they accept again, wrapped, folded and  *)
(* outlined (TransferWrapPass.cpp:82-85).                                  *)
PlacedOpsCompile ==
  \A s \in DOMAIN sites :
    Fits(stage[sites[s].executable], ExportOf(sites[s])) \/ MayFail(SourceOp(sites[s].op))

=============================================================================
