---------------------------- MODULE MCStrelaConv ----------------------------
(* Modules of one convolution and of two.                                  *)
EXTENDS StrelaConv

Perms == {p \in [1 .. 4 -> 1 .. 4] : \A a, b \in 1 .. 4 : p[a] = p[b] => a = b}

Conv(batch, h, w, kh, kw, chan, feat, perm) ==
  [ batch |-> batch, h |-> h, w |-> w, kh |-> kh, kw |-> kw, chan |-> chan,
    feat |-> feat, stride |-> 1, dilation |-> 1, perm |-> perm,
    zx |-> 5, zw |-> 6, static |-> TRUE, typed |-> TRUE ]

FirstF == <<2, 3, 4, 1>>      \* FHWC in memory

(* Every remainder of the features by the three lanes, none and two rows,  *)
(* one channel more than the pass takes.                                   *)
Products2D ==
  {Conv(batch, 1, 1, 1, 1, chan, feat, FirstF) :
     batch \in 0 .. 2, chan \in 1 .. 4, feat \in {1, 2, 3, 4, 7}}

(* Every layout of the filter in memory.                                   *)
Layouts ==
  {Conv(1, 1, 1, 1, 1, chan, feat, perm) :
     chan \in 1 .. 3, feat \in 1 .. 3, perm \in Perms}

(* Images and filters of more than one point.                              *)
Images ==
  {Conv(1, sizes[1], sizes[2], sizes[3], sizes[4], 2, 2, perm) :
     sizes \in {<<1, 2, 1, 1>>, <<2, 1, 1, 1>>, <<1, 2, 1, 2>>, <<2, 1, 2, 1>>,
                <<2, 2, 2, 2>>},
     perm \in {FirstF, <<1, 2, 4, 3>>}}

Plain == Conv(1, 1, 1, 1, 1, 2, 2, FirstF)

(* What the pass does not take for another reason.                         *)
Others ==
  { [Plain EXCEPT !.zx = NotConstant], [Plain EXCEPT !.zw = NotConstant],
    [Plain EXCEPT !.stride = 2], [Plain EXCEPT !.dilation = 2],
    [Plain EXCEPT !.static = FALSE], [Plain EXCEPT !.typed = FALSE],
    [Plain EXCEPT !.perm = <<>>] }

MCModules ==
  {<<c>> : c \in Products2D \cup Layouts \cup Images \cup Others}
  \cup {<<c, d>> : c, d \in {Plain, [Plain EXCEPT !.zx = 7, !.feat = 4],
                             [Plain EXCEPT !.stride = 2]}}
  \cup {<<Plain, [Plain EXCEPT !.zw = 8], [Plain EXCEPT !.chan = 1]>>}

=============================================================================
