--------------------------- MODULE StrelaPlacement ---------------------------
(***************************************************************************)
(* The preprocessing passes, in the order of PluginRegistration.cpp: the   *)
(* topology of the devices (AssignTopologyPass.cpp) and the transfers that *)
(* place the supported operations on STRELA (TransferWrapPass.cpp).        *)
(*                                                                         *)
(* A function is one block, a sequence of nodes.  A node has an id, what   *)
(* it is, the ids of its operands, and, where they mean something, a value *)
(* (of a splat or a fill), the linalg operation and the device a transfer  *)
(* goes to.  The operands of a linalg operation are its inputs and then    *)
(* its init.  Node k of the source has the id <<k>>; what wrapping adds to *)
(* it has longer ids.                                                      *)
(***************************************************************************)
EXTENDS StrelaKernels, FiniteSets, SequencesExt

CONSTANT Programs  \* [block, devices, default, preset]: a function, the devices
                   \* in the order of the module, the default affinity, and
                   \* whether the module has a topology already

Node(id, kind, args, value, op, to) ==
  [id |-> id, kind |-> kind, args |-> args, value |-> value, op |-> op, to |-> to]

IsStrela(device) == device \in {"strela0", "strela1"}

(* A function of the source: a value is defined once, before it is used,   *)
(* a linalg operation has an init, and nothing is transferred yet.         *)
IsFunction(b) ==
  /\ b \in Seq({b[i] : i \in DOMAIN b})
  /\ \A i \in DOMAIN b : LET n == b[i] IN
       /\ n = Node(n.id, n.kind, n.args, n.value, n.op, n.to)
       /\ n.id \in Seq(Nat) /\ Len(n.id) = 1
       /\ n.args \in Seq(Seq(Nat))
       /\ \A j \in DOMAIN b : b[j].id = n.id => j = i
       /\ \A k \in DOMAIN n.args : \E j \in 1 .. i - 1 : b[j].id = n.args[k]
       /\ n.kind = "linalg" => n.args # <<>>
       /\ n.kind # "transfer"

(* The default affinity should be the CPU (TransferWrapPass.cpp:116-117).  *)
ASSUME ProgramAssumption ==
  \A p \in Programs :
    IsFunction(p.block) /\ p.devices \in Seq(STRING) /\ ~IsStrela(p.default)

VARIABLES
  machine,       \* what the module says of the devices
  source,        \* the function as it was given
  block,         \* the function
  topology,      \* links, and whether this pass has made them
  candidates,    \* the operations that are left to wrap
  phase          \* the pass to run

placementVars == <<machine, source, block, topology, candidates>>

NoDevice == "none"
NoOperation == [kind |-> "none"]

Defining(b, id) == CHOOSE i \in DOMAIN b : b[i].id = id
Inputs(node) == SubSeq(node.args, 1, Len(node.args) - 1)
InitOf(node) == Last(node.args)
LinalgOps(b) == {i \in DOMAIN b : b[i].kind = "linalg"}

DevicesOf(m, strela) == {i \in DOMAIN m.devices : IsStrela(m.devices[i]) = strela}

(* The affinity of the first STRELA device of the module.                  *)
StrelaAffinity(m) ==
  IF DevicesOf(m, TRUE) = {} THEN NoDevice
  ELSE m.devices[CHOOSE i \in DevicesOf(m, TRUE) : \A j \in DevicesOf(m, TRUE) : i <= j]

(* What the matchers see of an operation in its block.                     *)
KernelIn(b, node) ==
  KernelOf(node.op, [i \in DOMAIN Inputs(node) |-> b[Defining(b, node.args[i])]],
                    b[Defining(b, InitOf(node))])

-----------------------------------------------------------------------------
PlacementInit ==
  /\ \E p \in Programs :
       /\ machine = [devices |-> p.devices, default |-> p.default, preset |-> p.preset]
       /\ source = p.block
  /\ block = source
  /\ topology = [links |-> {}, ours |-> FALSE]
  /\ candidates = {}
  /\ phase = "topology"

(* Mutant: the flags of the two directions are swapped.                    *)
Links_Swapped(m) ==
  LET strelas == {m.devices[i] : i \in DevicesOf(m, TRUE)}
      others == {m.devices[i] : i \in DevicesOf(m, FALSE)}
  IN {[from |-> o, to |-> s, transparent |-> TRUE] : o \in others, s \in strelas}
     \cup {[from |-> s, to |-> o, transparent |-> FALSE] : s \in strelas, o \in others}

(* Other devices can access STRELA memory but not the contrary.            *)
Links(m) ==
  LET strelas == {m.devices[i] : i \in DevicesOf(m, TRUE)}
      others == {m.devices[i] : i \in DevicesOf(m, FALSE)}
  IN {[from |-> o, to |-> s, transparent |-> FALSE] : o \in others, s \in strelas}
     \cup {[from |-> s, to |-> o, transparent |-> TRUE] : s \in strelas, o \in others}

(* A topology that is present is kept.                                     *)
AssignTopology ==
  /\ phase = "topology"
  /\ topology' = IF machine.preset THEN topology
                 ELSE [links |-> Links(machine), ours |-> TRUE]
  /\ phase' = "gather"
  /\ UNCHANGED <<machine, source, block, candidates>>

(* Imports and exports that have no affinity get the default one.          *)
PinAbiToDefaultDevice(b) ==
  [i \in DOMAIN b |->
     IF b[i].kind \in {"import", "export"} /\ b[i].to = NoDevice
     THEN [b[i] EXCEPT !.to = machine.default]
     ELSE b[i]]

(* The supported operations are looked for before any of them is wrapped.  *)
GatherCandidates ==
  /\ phase = "gather"
  /\ IF StrelaAffinity(machine) = NoDevice
     THEN UNCHANGED <<block, candidates>>
     ELSE /\ block' = PinAbiToDefaultDevice(block)
          /\ candidates' =
               {block[i].id : i \in {l \in LinalgOps(block) :
                                        KernelIn(block, block[l]) # NoKernel}}
  /\ phase' = "wrap"
  /\ UNCHANGED <<machine, source, topology>>

(* Mutant: a splat is transferred as well.                                 *)
IsInt32Immediate_Never(node) == FALSE

(* A splat of 32-bit integers is folded into the operation and stays.      *)
IsInt32Immediate(node) == node.kind = "splat"

DimsId(id) == id \o <<0>>
TransferId(id, i) == id \o <<i>>
BackId(id) == id \o <<0, 0>>

Transferred(b, node) ==
  {i \in DOMAIN Inputs(node) : ~IsInt32Immediate(b[Defining(b, node.args[i])])}

(* Mutant: the sizes of the result are taken from the result.              *)
ResultDims_OfResult(node) ==
  [before |-> <<>>, after |-> <<Node(DimsId(node.id), "dims", <<node.id>>, 0, NoOperation, NoDevice)>>]

(* The sizes of the result, from the init and before the operation.        *)
ResultDims(node) ==
  [before |-> <<Node(DimsId(node.id), "dims", <<InitOf(node)>>, 0, NoOperation, NoDevice)>>,
   after |-> <<>>]

Rewired(node, id, back) ==
  [node EXCEPT !.args = [k \in DOMAIN @ |-> IF @[k] = id THEN back ELSE @[k]]]

(* Mutant: only the next operation is rewired.                             *)
ReplaceUses_NextOnly(b, id, back) ==
  [i \in DOMAIN b |->
     IF i > 1 /\ b[i - 1].id = back THEN Rewired(b[i], id, back) ELSE b[i]]

(* Every use of the result but that of the transfer back.                  *)
ReplaceUses(b, id, back) ==
  [i \in DOMAIN b |-> IF b[i].id = back THEN b[i] ELSE Rewired(b[i], id, back)]

(* Mutant: the k-th transfer replaces the k-th input, immediates or not.   *)
WrapInTransfers_Shifted(b, id, strela, host) ==
  LET p == Defining(b, id)
      node == b[p]
      moved == InOrder(Transferred(b, node))
      in(i) == Node(TransferId(id, i), "transfer", <<node.args[i]>>, 0, NoOperation, strela)
      wrapped == [node EXCEPT !.args =
                    [i \in DOMAIN @ |-> IF i \in DOMAIN moved
                                       THEN TransferId(id, moved[i]) ELSE @[i]]]
      back == Node(BackId(id), "transfer", <<id, DimsId(id)>>, 0, NoOperation, host)
      dims == ResultDims(node)
  IN ReplaceUses(
       SubSeq(b, 1, p - 1) \o dims.before \o [k \in DOMAIN moved |-> in(moved[k])]
         \o <<wrapped>> \o dims.after \o <<back>> \o SubSeq(b, p + 1, Len(b)),
       id, BackId(id))

(* Wraps the operation id: its transferred inputs, and what uses its       *)
(* result.  The sizes a transfer names (TransferWrapPass.cpp:87-88) are    *)
(* those of the value it moves, defined where that is, and are left out.   *)
WrapInTransfers(b, id, strela, host) ==
  LET p == Defining(b, id)
      node == b[p]
      moved == InOrder(Transferred(b, node))
      in(i) == Node(TransferId(id, i), "transfer", <<node.args[i]>>, 0, NoOperation, strela)
      wrapped == [node EXCEPT !.args =
                    [i \in DOMAIN @ |-> IF i \in Transferred(b, node)
                                       THEN TransferId(id, i) ELSE @[i]]]
      back == Node(BackId(id), "transfer", <<id, DimsId(id)>>, 0, NoOperation, host)
      dims == ResultDims(node)
  IN ReplaceUses(
       SubSeq(b, 1, p - 1) \o dims.before \o [k \in DOMAIN moved |-> in(moved[k])]
         \o <<wrapped>> \o dims.after \o <<back>> \o SubSeq(b, p + 1, Len(b)),
       id, BackId(id))

(* The next candidate.  Without a default affinity there is nowhere to     *)
(* transfer its result to, and it is left alone.                           *)
Wrap ==
  /\ phase = "wrap"
  /\ \E id \in candidates :
       /\ \A other \in candidates : Defining(block, id) <= Defining(block, other)
       /\ block' = IF machine.default = NoDevice THEN block
                   ELSE WrapInTransfers(block, id, StrelaAffinity(machine), machine.default)
       /\ candidates' = candidates \ {id}
  /\ UNCHANGED <<machine, source, topology, phase>>

WrapDone ==
  /\ phase = "wrap" /\ candidates = {}
  /\ phase' = "form"
  /\ UNCHANGED placementVars

-----------------------------------------------------------------------------
(* Between two wraps and after the last one every operand is defined       *)
(* before it is used: what a wrap adds or rewires names nothing that comes *)
(* later, or the function does not verify (tests/transfer_wrap.mlir:5-7).  *)
DefinedBeforeUse ==
  \A i \in DOMAIN block : \A k \in DOMAIN block[i].args :
    \E j \in 1 .. i - 1 : block[j].id = block[i].args[k]

Values == {block[i].id : i \in DOMAIN block}

(* The node an operand comes from, transfers aside.                        *)
Origin[id \in Values] ==
  LET node == block[Defining(block, id)] IN
  IF node.kind = "transfer" THEN Origin[node.args[1]] ELSE id

(* Wrapping moves data and changes none: every operation of the source is  *)
(* still there, once and in order, and each of its operands comes from     *)
(* where it came from (TransferWrapPass.cpp:80-101).                       *)
WrappingKeepsDataFlow ==
  DefinedBeforeUse =>
    LET now == [k \in DOMAIN source |-> Defining(block, source[k].id)] IN
    /\ {source[k].id : k \in DOMAIN source} \subseteq Values
    /\ {i \in DOMAIN block : Len(block[i].id) = 1} = {now[k] : k \in DOMAIN source}
    /\ \A k \in 2 .. Len(source) : now[k - 1] < now[k]
    /\ \A k \in DOMAIN source : LET args == block[now[k]].args IN
         /\ DOMAIN args = DOMAIN source[k].args
         /\ \A a \in DOMAIN args : Origin[args[a]] = source[k].args[a]

Placed(node) ==
  \E k \in DOMAIN Inputs(node) : LET d == block[Defining(block, node.args[k])] IN
    d.kind = "transfer" /\ IsStrela(d.to)

(* An operation is placed on STRELA whole or not at all, no matter that    *)
(* others were wrapped before it: all that it reads is transferred there   *)
(* or is an immediate, and nobody but its transfer back reads its result   *)
(* (TransferWrapPass.cpp:80-88, 97-99).                                    *)
PlacementIsWhole ==
  \A p \in LinalgOps(block) : Placed(block[p]) =>
    /\ \A k \in DOMAIN Inputs(block[p]) :
         LET d == block[Defining(block, block[p].args[k])] IN
         d.kind = "splat" \/ (d.kind = "transfer" /\ IsStrela(d.to))
    /\ \A i \in DOMAIN block : block[p].id \in Range(block[i].args) =>
         block[i].kind = "transfer" /\ block[i].to = machine.default

(* Where the words of a value are.  A transfer between devices whose link  *)
(* is transparent is elided, and the value stays where it was.             *)
Elided(from, to) ==
  from = to \/ \E l \in topology.links : l.from = from /\ l.to = to /\ l.transparent

(* The device whose memory a node's result is in, and the device that      *)
(* produced it.                                                            *)
Memory[id \in Values] ==
  LET node == block[Defining(block, id)] IN
  IF node.kind = "linalg" /\ Placed(node) THEN StrelaAffinity(machine)
  ELSE IF node.kind # "transfer" THEN machine.default
  ELSE LET at == Memory[node.args[1]]
           arg == block[Defining(block, node.args[1])]
           from == IF arg.kind = "transfer" THEN arg.to ELSE at
       IN IF Elided(from, node.to) THEN at ELSE node.to

(* STRELA reads from its own memory, which no other device's memory can    *)
(* stand in for, under the topology this pass assigns                      *)
(* (AssignTopologyPass.cpp:56-67).                                         *)
StrelaReadsStrela ==
  phase \notin {"topology", "gather", "wrap"} /\ topology.ours =>
    \A p \in LinalgOps(block) : Placed(block[p]) =>
      \A k \in DOMAIN Inputs(block[p]) :
        block[Defining(block, block[p].args[k])].kind = "transfer" =>
          IsStrela(Memory[block[p].args[k]])

=============================================================================
