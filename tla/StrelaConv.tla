----------------------------- MODULE StrelaConv -----------------------------
(***************************************************************************)
(* The older way to the CGRA: FuseConv2DPass replaces the quantised        *)
(* convolutions of a module that are matrix products by calls of           *)
(* MyCenteredGemm, and gives each of them an initializer that loads its    *)
(* kernel and a global that keeps the handle.                              *)
(*                                                                         *)
(* A convolution is [batch, h, w, kh, kw, chan, feat, stride, dilation,    *)
(* perm, zx, zw, static, typed]: x is batch by h by w by chan; the filter, *)
(* kh by kw by chan by feat, is the transpose by "perm" of what memory     *)
(* holds, or "perm" is empty; zx and zw are the zero points, NotConstant   *)
(* where they are not known; "static" says whether chan is known and       *)
(* "typed" whether the elements have the types the pass looks for.         *)
(***************************************************************************)
EXTENDS StrelaGemm, FiniteSets

CONSTANTS
  Modules,      \* the modules compiled: sequences of convolutions
  MaxChannels,  \* 65535: what fits the 16 bits of the channel count
  NotConstant

(* A dimension that is not known to the compiler has the size it will have.*)
Layout == {p \in [1 .. 4 -> 1 .. 4] : \A s \in 1 .. 4 : \E d \in 1 .. 4 : p[d] = s}

Convolution ==
  [ batch : Nat, h : Nat, w : Nat, kh : Nat, kw : Nat, chan : Nat, feat : Nat,
    stride : Nat \ {0}, dilation : Nat \ {0}, perm : Layout \cup {<<>>},
    zx : Int, zw : Int, static : BOOLEAN, typed : BOOLEAN ]

ASSUME ConvAssumption ==
  MaxChannels \in Nat /\ NotConstant \in Int /\ Modules \subseteq Seq(Convolution)

VARIABLES
  convs,        \* the convolutions, in the order they are computed in
  calls,        \* calls[c]: what the pass has made of convs[c]
  inits,        \* the initializers, [global, for, kernel], in their order
  handles,      \* handles[g]: the kernel handle that global g holds
  kernels,      \* kernels[h]: the kernel behind handle h, [for, kernel]
  stage,        \* "fuse", "load", "run", "ended" or "failed"
  at            \* the initializer or convolution that comes next

convVars == <<convs, calls, inits, handles, kernels, stage, at>>
vars == <<gemmVars, convs, calls, inits, handles, kernels, stage, at>>

Unvisited == [as |-> "unvisited"]
Kept == [as |-> "convolution"]

Init ==
  /\ GemmInit
  /\ convs \in Modules
  /\ calls = [c \in DOMAIN convs |-> Unvisited]
  /\ inits = <<>> /\ handles = <<>> /\ kernels = <<>>
  /\ stage = "fuse" /\ at = 1

-----------------------------------------------------------------------------
(* FuseConv2DPass.  The filter's dimensions are H, W, C and F.             *)
FilterC == 3
FilterF == 4

(* Mutant: the order of the filter in memory is not looked at.             *)
IsMatmulEquivalent_AnyOrder(c) ==
  /\ NotConstant \notin {c.zx, c.zw}
  /\ c.stride = 1 /\ c.dilation = 1
  /\ c.kh = 1 /\ c.kw = 1
  /\ c.static /\ c.chan <= MaxChannels
  /\ c.h = 1 /\ c.w = 1
  /\ c.typed
  /\ c.perm # <<>>

IsMatmulEquivalent(c) ==
  /\ NotConstant \notin {c.zx, c.zw}
  /\ c.stride = 1 /\ c.dilation = 1
  /\ c.kh = 1 /\ c.kw = 1
  /\ c.static /\ c.chan <= MaxChannels
  /\ c.h = 1 /\ c.w = 1
  /\ c.typed
  /\ c.perm # <<>> /\ c.perm[FilterF] < c.perm[FilterC]

FilterDims(c) == <<c.kh, c.kw, c.chan, c.feat>>

(* What memory holds of the filter, before the transposition.              *)
SourceDims(c) ==
  [s \in 1 .. 4 |-> FilterDims(c)[CHOOSE d \in 1 .. 4 : c.perm[d] = s]]

OutSize(size, filter, c) == (size - c.dilation * (filter - 1) - 1) \div c.stride + 1
OutDims(c) == <<c.batch, OutSize(c.h, c.kh, c), OutSize(c.w, c.kw, c), c.feat>>

CollapseTo2D(dims) == <<dims[1] * dims[2] * dims[3], dims[4]>>

(* centered_matmul_bitstream: zero points of -1, and a placeholder for the *)
(* channel count.                                                          *)
Bitstream == [zx |-> -1, zw |-> -1, chan |-> 56814]

(* The copy of it that the pass patches with what it has found...          *)
PatchedKernel(c) == [zx |-> c.zx, zw |-> c.zw, chan |-> c.chan]

(* ... and what it makes a constant of and has the initializer load.       *)
KernelBlob(c) == Bitstream

(* Mutant: a global that is there already is shared, like the declarations *)
(* of the functions.                                                       *)
GlobalName_ByName(used) == 0

(* kernel_handle, renamed if there is one already.                         *)
GlobalName(used) == CHOOSE g \in 0 .. Cardinality(used) : g \notin used

Globals == {inits[e].global : e \in DOMAIN inits}

(* One rewrite of the pattern.                                             *)
Fuse(c) ==
  /\ stage = "fuse" /\ calls[c] = Unvisited
  /\ IF IsMatmulEquivalent(convs[c])
     THEN LET global == GlobalName(Globals)
              conv == convs[c]
          IN
          /\ inits' = Append(inits,
               [global |-> global, for |-> c, kernel |-> KernelBlob(conv)])
          /\ calls' = [calls EXCEPT ![c] =
               [ as |-> "call", global |-> global,
                 x |-> CollapseTo2D(<<conv.batch, conv.h, conv.w, conv.chan>>),
                 w |-> CollapseTo2D(SourceDims(conv)),
                 y |-> CollapseTo2D(OutDims(conv)) ]]
     ELSE calls' = [calls EXCEPT ![c] = Kept] /\ UNCHANGED inits
  /\ UNCHANGED <<gemmVars, convs, handles, kernels, stage, at>>

Fused ==
  /\ stage = "fuse" /\ \A c \in DOMAIN calls : calls[c] # Unvisited
  /\ stage' = "load"
  /\ UNCHANGED <<gemmVars, convs, calls, inits, handles, kernels, at>>

-----------------------------------------------------------------------------
(* The module is loaded: its initializers call InitAccelerator and store   *)
(* the handle in their global.                                             *)
InitAccelerator ==
  /\ stage = "load" /\ at <= Len(inits)
  /\ LET init == inits[at]
         handle == Len(kernels) + 1
     IN
     /\ kernels' = Append(kernels, [for |-> init.for, kernel |-> init.kernel])
     /\ handles' = [g \in DOMAIN handles \cup {init.global} |->
                      IF g = init.global THEN handle ELSE handles[g]]
  /\ at' = at + 1
  /\ UNCHANGED <<gemmVars, convs, calls, inits, stage>>

InitAcceleratorFails ==
  /\ stage = "load" /\ at <= Len(inits)
  /\ stage' = "failed"
  /\ UNCHANGED <<gemmVars, convs, calls, inits, handles, kernels, at>>

Loaded ==
  /\ stage = "load" /\ at > Len(inits)
  /\ stage' = "run" /\ at' = 1
  /\ UNCHANGED <<gemmVars, convs, calls, inits, handles, kernels>>

(* A convolution that was kept is computed elsewhere.                      *)
Running(as) == stage = "run" /\ at <= Len(convs) /\ calls[at].as = as

Convolve ==
  /\ Running("convolution")
  /\ at' = at + 1
  /\ UNCHANGED <<gemmVars, convs, calls, inits, handles, kernels, stage>>

CallGemm ==
  /\ Running("call")
  /\ \/ Call(calls[at].x, calls[at].w, calls[at].y)
     \/ CallFails(calls[at].y)
  /\ UNCHANGED convVars

Gemm == Running("call") /\ GemmStep /\ UNCHANGED convVars

GemmReturns ==
  /\ Running("call") /\ pc = "done"
  /\ pc' = "idle" /\ at' = at + 1
  /\ UNCHANGED <<m, n, k, i, j, conf, sy, y>>
  /\ UNCHANGED <<convs, calls, inits, handles, kernels, stage>>

(* The virtual machine stops at a call that fails.                         *)
GemmFailed ==
  /\ Running("call") /\ pc = "failed"
  /\ stage' = "failed"
  /\ UNCHANGED <<gemmVars, convs, calls, inits, handles, kernels, at>>

Ended ==
  /\ stage = "run" /\ at > Len(convs)
  /\ stage' = "ended"
  /\ UNCHANGED <<gemmVars, convs, calls, inits, handles, kernels, at>>

Next ==
  \/ \E c \in DOMAIN convs : Fuse(c)
  \/ Fused
  \/ InitAccelerator \/ InitAcceleratorFails \/ Loaded
  \/ Convolve \/ CallGemm \/ Gemm \/ GemmReturns \/ GemmFailed \/ Ended

(* One thread, and the kernel driver's timeout ends every job.             *)
Spec == Init /\ [][Next]_vars /\ WF_vars(Next)

-----------------------------------------------------------------------------
RowMajor(idx, dims) ==
  ((idx[1] * dims[2] + idx[2]) * dims[3] + idx[3]) * dims[4] + idx[4]

(* Where memory holds an element of the filter.                            *)
SourceWord(c, idx) ==
  RowMajor([s \in 1 .. 4 |-> idx[CHOOSE d \in 1 .. 4 : c.perm[d] = s]],
           SourceDims(c))

(* The products, as pairs of words of x and of the filter's memory, that   *)
(* the convolution adds up in each word of its result.                     *)
Products(c, out) ==
  { <<RowMajor(<<out[1], out[2] * c.stride + a * c.dilation,
                 out[3] * c.stride + b * c.dilation, ch>>,
               <<c.batch, c.h, c.w, c.chan>>),
      SourceWord(c, <<a, b, ch, out[4]>>)>> :
      a \in 0 .. c.kh - 1, b \in 0 .. c.kw - 1, ch \in 0 .. c.chan - 1 }

OutIndices(c) ==
  LET d == OutDims(c) IN
  (0 .. d[1] - 1) \X (0 .. d[2] - 1) \X (0 .. d[3] - 1) \X (0 .. d[4] - 1)

AddedUp(dot) == {<<dot.row + t, dot.inp + t>> : t \in 0 .. dot.count - 1}

(* A call that returns has added to each word of its result the products   *)
(* that its convolution adds up, whatever the layout of the filter that    *)
(* the pass took it with, and has touched no other word; a call that has   *)
(* not returned, or fails, has touched nothing (FuseConv2DPass.cpp:94-108, *)
(* strela_module.cc:191-193).                                              *)
FusedIsConvolution ==
  Running("call") =>
    /\ pc = "done" =>
         LET c == convs[at] IN
         /\ DOMAIN y = {RowMajor(out, OutDims(c)) : out \in OutIndices(c)}
         /\ \A out \in OutIndices(c) :
              AddedUp(y[RowMajor(out, OutDims(c))]) = Products(c, out)
    /\ pc \notin {"idle", "done"} => \A w \in DOMAIN y : y[w] = Nothing

(* A call runs the kernel that was loaded for it, though the convolutions  *)
(* of a module are rewritten in any order and all of the globals are made  *)
(* under one name (FuseConv2DPass.cpp:171-184).                            *)
CallsUseOwnKernel ==
  Running("call") => kernels[handles[calls[at].global]].for = at

(* "Fuses centering subtractions into a GEMM ukernel" (Passes.td:21): the  *)
(* kernel a call runs has the zero points of its convolution.              *)
KernelCentersItsInputs ==
  Running("call") =>
    kernels[handles[calls[at].global]].kernel = PatchedKernel(convs[at])

(* A module that was fused ends or fails, and does not hang in a product.  *)
InvocationEnds == <>(stage \in {"ended", "failed"})

=============================================================================
