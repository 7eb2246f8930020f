-------------------------- MODULE StrelaTranslation --------------------------
(***************************************************************************)
(* The executable translation of the STRELA target backend, in the order   *)
(* of StrelaTarget.cpp:152-175: conversion, workgroup counts, bindings,    *)
(* linking, serialisation.  IREE runs the first three passes over every    *)
(* executable by itself.                                                   *)
(*                                                                         *)
(* A statement of a dispatch body is a linalg operation with what defines  *)
(* its inputs (a load of a binding or a constant) and its init, and the    *)
(* bindings its inputs are loaded from (NoBinding: from none) and its      *)
(* result is stored to.  The rows of a matrix product may be a size that   *)
(* is known only when the program runs; the body reads it as the workload  *)
(* value "ordinal".                                                        *)
(***************************************************************************)
EXTENDS StrelaKernels, SequencesExt

CONSTANTS
  MaxColumnWords,   \* the words a column can move: strelaMaxColumnWords
  FeaturesPerJob    \* 3: strelaMatvecFeaturesPerJob

ASSUME TranslationAssumption ==
  MaxColumnWords \in Nat \ {0} /\ FeaturesPerJob \in Nat \ {0}

(* An executable, whatever its exports are.                                *)
IsList(s) == s \in Seq({s[i] : i \in DOMAIN s})

IsExecutable(exe) ==
  /\ exe = [lazy |-> exe.lazy, variants |-> exe.variants] /\ exe.lazy \in BOOLEAN
  /\ IsList(exe.variants)
  /\ \A v \in DOMAIN exe.variants :
       /\ exe.variants[v] = [target |-> exe.variants[v].target, exports |-> exe.variants[v].exports]
       /\ IsList(exe.variants[v].exports)

VARIABLES
  executables,  \* [lazy, variants: a sequence of [target, exports]]
  stage,        \* stage[e]: the next pass over executable e
  sites,        \* the calls: [op, executable, target, ordinal, tensors, workload]
  binary,       \* binary[e]: by variant and ordinal, what the runtime loads
  failure       \* the pass that gave up, or "none"

translationVars == <<executables, stage, sites, binary, failure>>

NoBinding == 0
NoGrid == <<>>

TranslationInit ==
  /\ executables = <<>> /\ stage = <<>> /\ sites = <<>> /\ binary = <<>>
  /\ failure = "none"

MapExports(exe, f) ==
  LET mapped(variant) == [variant EXCEPT !.exports = [x \in DOMAIN @ |-> f[@[x]]]] IN
  [exe EXCEPT !.variants = [v \in DOMAIN @ |-> mapped(@[v])]]

ExportsOf(exe) == UNION {Range(exe.variants[v].exports) : v \in DOMAIN exe.variants}

-----------------------------------------------------------------------------
Converted(stmt) ==
  LET kernel == KernelOf(stmt.op, stmt.defs, stmt.init) IN
  IF kernel = NoKernel THEN stmt
  ELSE [stmt EXCEPT !.kernel = kernel,
          !.loads = [k \in DOMAIN KernelInputs(kernel) |-> @[KernelInputs(kernel)[k]]]]

Verified(stmt) ==
  LET kernel == Converted(stmt).kernel IN VerifyKernelOp(stmt.op, kernel)

CeilDiv(a, b) == (a + b - 1) \div b

Static(n) == [known |-> TRUE, value |-> n]
Argument(i) == [known |-> FALSE, value |-> i]

(* The rows: a constant, or the argument of the count region that follows  *)
(* the device and the workload values before this one.                     *)
ResolveSize(x, op) ==
  IF op.rowsStatic THEN Static(op.rows) ELSE Argument(1 + x.ordinal)

Resolvable(x, op) ==
  op.rowsStatic \/ (x.ordinal >= 0 /\ 1 + x.ordinal < 1 + x.workload)

MatvecsOf(x) == {s \in DOMAIN x.body : x.body[s].kernel = "matvec"}

(* The last matrix product of the body, if there is one.                   *)
LastProduct(x) == x.body[CHOOSE s \in MatvecsOf(x) : \A t \in MatvecsOf(x) : t <= s]
LastMatvec(x) == LastProduct(x).op

(* Mutant: the last features of a row are left out.                        *)
BuildCount_Floor(x) ==
  IF MatvecsOf(x) = {} THEN <<Static(1), Static(1), Static(1)>>
  ELSE LET op == LastMatvec(x) IN
       <<Static(op.features \div FeaturesPerJob), ResolveSize(x, op), Static(1)>>

(* One job, or a job per row and per three features.                       *)
BuildCount(x) ==
  IF MatvecsOf(x) = {} THEN <<Static(1), Static(1), Static(1)>>
  ELSE LET op == LastMatvec(x) IN
       <<Static(CeilDiv(op.features, FeaturesPerJob)), ResolveSize(x, op), Static(1)>>

(* The rows are those of the left operand, which must be loaded.           *)
CountFails(x) ==
  /\ x.region # "none"
  /\ \/ x.region # "placeholder"
     \/ /\ MatvecsOf(x) # {}
        /\ \/ LastMatvec(x).features < FeaturesPerJob
           \/ LastProduct(x).loads[1] = NoBinding
           \/ ~Resolvable(x, LastMatvec(x))

KernelsOf(x) == {s \in DOMAIN x.body : x.body[s].kernel # NoKernel}

HasOneKernel(x) == \E s \in DOMAIN x.body : KernelsOf(x) = {s}

Kernel(x) == x.body[CHOOSE s \in KernelsOf(x) : TRUE]

(* The kernel's operands are loads.  What a load must be a load of - the   *)
(* whole tensor, at an offset the forms cover - is StrelaBindings'         *)
(* Analyzable; here operands are whole tensors at offset 0.                *)
Materializable(x) ==
  HasOneKernel(x) /\ NoBinding \notin Range(Kernel(x).loads)

(* What the serializer can write down: no matrix product yet, and sizes    *)
(* that are known and fit a column.                                        *)
Serializable(x) ==
  LET stmt == x.body[1] IN
  /\ stmt.kernel # "matvec"
  /\ Len(stmt.loads) = Len(KernelColumns(stmt.kernel).inputs)
  /\ stmt.op.static
  /\ stmt.op.rows * stmt.op.cols <= MaxColumnWords

(* Whether a pass takes an export; one that it does not take it gives up.  *)
Fits(pass, x) ==
  CASE pass = "convert" -> \A s \in DOMAIN x.body : Verified(x.body[s])
    [] pass = "count" -> ~CountFails(x)
    [] pass = "bind" -> Materializable(x)
    [] pass = "serialize" -> Serializable(x)
    [] OTHER -> TRUE

(* A pass over executable e: if it takes all exports, it makes f[x] of     *)
(* export x.                                                               *)
Pass(e, name, next, f) ==
  /\ failure = "none" /\ stage[e] = name
  /\ IF \A x \in ExportsOf(executables[e]) : Fits(name, x)
     THEN /\ executables' = [executables EXCEPT ![e] = MapExports(@, f)]
          /\ stage' = [stage EXCEPT ![e] = next]
          /\ UNCHANGED <<sites, binary, failure>>
     ELSE /\ failure' = name
          /\ UNCHANGED <<executables, stage, sites, binary>>

(* Every statement that matches becomes an operation of the dialect, whose *)
(* verifier runs after the pass.                                           *)
ConvertedExport(x) == [x EXCEPT !.body = [s \in DOMAIN @ |-> Converted(@[s])]]

Convert(e) ==
  Pass(e, "convert", "count", [x \in ExportsOf(executables[e]) |-> ConvertedExport(x)])

CountedExport(x) == IF x.region = "none" THEN x ELSE [x EXCEPT !.grid = BuildCount(x)]

ResolveWorkgroupCount(e) ==
  Pass(e, "count", "bind", [x \in ExportsOf(executables[e]) |-> CountedExport(x)])

(* What is left of the body is the kernel: the rest is dead.               *)
BoundExport(x) == [x EXCEPT !.body = <<Kernel(x)>>]

MaterializeBindings(e) ==
  Pass(e, "bind", "link", [x \in ExportsOf(executables[e]) |-> BoundExport(x)])

-----------------------------------------------------------------------------
(* Linking.  linkExecutablesInto moves the exports of one target behind    *)
(* each other and renames every reference to them.                         *)
Sources == InOrder({e \in DOMAIN executables : ~executables[e].lazy})
Lazy == InOrder({e \in DOMAIN executables : executables[e].lazy})

ExportsFor(e, target) ==
  LET at == {v \in DOMAIN executables[e].variants : executables[e].variants[v].target = target}
  IN IF at = {} THEN <<>> ELSE executables[e].variants[CHOOSE v \in at : TRUE].exports

Targets == UNION {{executables[e].variants[v].target : v \in DOMAIN executables[e].variants} :
                    e \in Range(Sources)}

(* What has been moved for a target after n of the executables.            *)
MovedExports(n, target) ==
  LET moved[k \in 0 .. Len(Sources)] ==
        IF k = 0 THEN <<>> ELSE moved[k - 1] \o ExportsFor(Sources[k], target)
  IN moved[n]

Linked ==
  [lazy |-> FALSE,
   variants |-> [v \in 1 .. Cardinality(Targets) |->
                   LET target == SetToSeq(Targets)[v] IN
                   [target |-> target, exports |-> MovedExports(Len(Sources), target)]]]

(* How many of the executables are moved before e.                         *)
Before(e) == CHOOSE n \in 0 .. Len(Sources) - 1 : Sources[n + 1] = e

(* Mutant: the references keep the ordinals they had.                      *)
LinkedSite_KeepsOrdinal(site) ==
  IF executables[site.executable].lazy
  THEN [site EXCEPT !.executable = 1 + CHOOSE k \in DOMAIN Lazy : Lazy[k] = @]
  ELSE [site EXCEPT !.executable = 1]

LinkedSite(site) ==
  IF executables[site.executable].lazy
  THEN [site EXCEPT !.executable = 1 + CHOOSE k \in DOMAIN Lazy : Lazy[k] = @]
  ELSE [site EXCEPT !.executable = 1,
          !.ordinal = @ + Len(MovedExports(Before(site.executable), site.target))]

Translated == \A e \in DOMAIN stage : stage[e] = "link"

(* Executables that are not lazy become one; a single one stays as it is.  *)
LinkExecutables ==
  /\ failure = "none" /\ DOMAIN stage # {} /\ Translated
  /\ IF Len(Sources) <= 1
     THEN UNCHANGED <<executables, sites>>
     ELSE /\ executables' = <<Linked>> \o [k \in DOMAIN Lazy |-> executables[Lazy[k]]]
          /\ sites' = [s \in DOMAIN sites |-> LinkedSite(sites[s])]
  /\ stage' = [e \in DOMAIN executables' |-> "serialize"]
  /\ UNCHANGED <<binary, failure>>

-----------------------------------------------------------------------------
Unused == [c \in 0 .. 3 |-> NoBinding]

(* The kernel of an export and the binding of each column.                 *)
GetExport(x) ==
  LET stmt == x.body[1]
      columns == KernelColumns(stmt.kernel)
  IN [kernel |-> stmt.kernel,
      inputs |-> [c \in 0 .. 3 |->
        IF \E k \in DOMAIN columns.inputs : columns.inputs[k] = c
        THEN stmt.loads[CHOOSE k \in DOMAIN columns.inputs : columns.inputs[k] = c]
        ELSE NoBinding],
      outputs |-> [Unused EXCEPT ![columns.output] = stmt.store]]

(* What the runtime loads: exports go where their ordinals say.            *)
Serialized(exe) ==
  [v \in DOMAIN exe.variants |->
     [target |-> exe.variants[v].target,
      exports |-> [o \in 0 .. Len(exe.variants[v].exports) - 1 |->
                     GetExport(exe.variants[v].exports[o + 1])]]]

SerializeExecutable(e) ==
  /\ failure = "none" /\ stage[e] = "serialize"
  /\ IF \A x \in ExportsOf(executables[e]) : Fits("serialize", x)
     THEN /\ binary' = [d \in DOMAIN binary \cup {e} |->
                          IF d = e THEN Serialized(executables[e]) ELSE binary[d]]
          /\ stage' = [stage EXCEPT ![e] = "done"]
          /\ UNCHANGED <<executables, sites, failure>>
     ELSE /\ failure' = "serialize"
          /\ UNCHANGED <<executables, stage, sites, binary>>

-----------------------------------------------------------------------------
(* The value of a count for a call.  Argument 0 is the device, which has   *)
(* no value as a size.                                                     *)
Count(count, workload) ==
  IF count.known THEN count.value ELSE (<<0>> \o workload)[count.value + 1]

(* The export that a call reaches, by target and ordinal.                  *)
ExportOf(site) ==
  LET variants == executables[site.executable].variants
  IN variants[CHOOSE v \in DOMAIN variants : variants[v].target = site.target]
       .exports[site.ordinal + 1]

(* A job computes the features up to a multiple of FeaturesPerJob, or the  *)
(* last of the row, overlapping the job before it                          *)
(* (resolve_workgroup_count.mlir:49-50): the jobs of a matrix product      *)
(* compute every element of the result and nothing beside it, and none of  *)
(* them could be left out (ResolveWorkgroupCountPass.cpp:43-77).           *)
GridCoversResult ==
  \A s \in DOMAIN sites : LET x == ExportOf(sites[s]) IN
    stage[sites[s].executable] \in {"bind", "link", "serialize"} /\ x.grid # NoGrid
      /\ MatvecsOf(x) # {} =>
      LET op == LastMatvec(x)
          rows == IF op.rowsStatic THEN op.rows ELSE sites[s].workload[x.ordinal + 1]
          jobs == (1 .. Count(x.grid[1], sites[s].workload))
                    \X (1 .. Count(x.grid[2], sites[s].workload))
          last(a) == IF a * FeaturesPerJob < op.features THEN a * FeaturesPerJob ELSE op.features
          computes(j) == {j[2]} \X (last(j[1]) - FeaturesPerJob + 1 .. last(j[1]))
          result == (1 .. rows) \X (1 .. op.features)
      IN /\ UNION {computes(j) : j \in jobs} = result
         /\ \A j \in jobs : UNION {computes(k) : k \in jobs \ {j}} # result

=============================================================================
