------------------------ MODULE StrelaCompiler_proofs ------------------------
(***************************************************************************)
(* Proofs about dispatch formation and translation, for any function, any  *)
(* executables a module brings along and any sizes.                        *)
(***************************************************************************)
EXTENDS StrelaPlacement_proofs

-----------------------------------------------------------------------------
(* The numbers of small sets in their order.                               *)
LEMMA InOrderOne ==
  ASSUME NEW x \in Nat \ {0}
  PROVE  InOrder({x}) = <<x>>
  <1> DEFINE s == InOrder({x})
  <1>1. {x} \in SUBSET (1 .. x) /\ Cardinality({x}) = 1
    BY FS_Singleton
  <1>2. s \in [1 .. 1 -> {x}]
    BY <1>1, InOrderIs
  <1> HIDE DEF s
  <1>3. s = <<x>>
    <2>1. s \in Seq({x}) /\ Len(s) = 1
      BY <1>2, FunctionIsSeq
    <2> QED BY <1>2, <2>1, SeqOne
  <1> QED BY <1>3 DEF s

LEMMA CardinalityOfTwo ==
  ASSUME NEW x, NEW y, x # y
  PROVE  Cardinality({x, y}) = 2
  <1>1. IsFiniteSet({x}) /\ Cardinality({x}) = 1 /\ y \notin {x} /\ {x, y} = {x} \cup {y}
    BY FS_Singleton
  <1> QED BY <1>1, FS_AddElement

LEMMA InOrderTwo == InOrder({1, 2}) = <<1, 2>>
  <1> DEFINE S == {1, 2}
             s == InOrder(S)
  <1>1. S \in SUBSET (1 .. 2) /\ Cardinality(S) = 2
    BY CardinalityOfTwo
  <1>2. s \in [1 .. 2 -> S] /\ \A k, l \in 1 .. 2 : k < l => s[k] < s[l]
    BY <1>1, InOrderIs
  <1>3. S = {1, 2}
    OBVIOUS
  <1> HIDE DEF s, S
  <1>4. s[1] = 1 /\ s[2] = 2
    BY <1>2, <1>3
  <1>5. s \in Seq(S) /\ Len(s) = 2
    BY <1>2, FunctionIsSeq
  <1>6. s = <<1, 2>>
    BY <1>4, <1>5, SeqTwo
  <1> QED BY <1>6 DEF s, S

(* A finite set as a sequence has every element of it.                     *)
LEMMA SetToSeqIs ==
  ASSUME NEW S, IsFiniteSet(S)
  PROVE  /\ SetToSeq(S) \in [1 .. Cardinality(S) -> S] /\ Cardinality(S) \in Nat
         /\ \A x \in S : \E k \in 1 .. Cardinality(S) : SetToSeq(S)[k] = x
  <1> DEFINE n == Cardinality(S)
             s == SetToSeq(S)
  <1>1. n \in Nat /\ \E f : f \in Bijection(1 .. n, S)
    BY FS_CardinalityType DEF ExistsBijection
  <1>2. PICK f : f \in Bijection(1 .. n, S)
    BY <1>1
  <1>3. f \in [1 .. n -> S] /\ IsInjective(f)
    BY <1>2 DEF Bijection, Injection
  <1>4. s \in [1 .. n -> S] /\ IsInjective(s)
    BY <1>3, Zenon DEF SetToSeq
  <1>5. s \in Injection(1 .. n, S)
    BY <1>4 DEF Injection
  <1>6. IsFiniteSet(1 .. n) /\ Cardinality(1 .. n) = n
    <2>1. 1 \in Int /\ n \in Int
      BY <1>1
    <2>2. IsFiniteSet(1 .. n) /\ Cardinality(1 .. n) = IF 1 > n THEN 0 ELSE n - 1 + 1
      BY <2>1, FS_Interval, Zenon
    <2> QED BY <1>1, <2>2
  <1>7. s \in Surjection(1 .. n, S)
    BY <1>5, <1>6, FS_Injection
  <1> QED BY <1>1, <1>4, <1>7 DEF Surjection


-----------------------------------------------------------------------------
(* A list, and one list behind another.                                    *)
LEMMA ListIs ==
  ASSUME NEW s, IsList(s)
  PROVE  Len(s) \in Nat /\ DOMAIN s = 1 .. Len(s)
  BY LenProperties DEF IsList

LEMMA ListOf ==
  ASSUME NEW n \in Nat, NEW s, DOMAIN s = 1 .. n, s = [i \in DOMAIN s |-> s[i]]
  PROVE  IsList(s) /\ Len(s) = n
  <1> DEFINE S == {s[i] : i \in DOMAIN s}
  <1>1. s \in [1 .. n -> S]
    OBVIOUS
  <1> HIDE DEF S
  <1>2. s \in Seq(S) /\ Len(s) = n
    BY <1>1, FunctionIsSeq
  <1> QED BY <1>2 DEF IsList, S

IsBehind(q, s, t) ==
  /\ IsList(q) /\ Len(q) = Len(s) + Len(t)
  /\ \A i \in 1 .. Len(s) : q[i] = s[i]
  /\ \A i \in 1 .. Len(t) : q[Len(s) + i] = t[i]

LEMMA Behind ==
  ASSUME NEW s, IsList(s), NEW t, IsList(t)
  PROVE  IsBehind(s \o t, s, t)
  <1> DEFINE S == {s[i] : i \in DOMAIN s} \cup {t[i] : i \in DOMAIN t}
             q == s \o t
             l == Len(s)
             m == Len(t)
  <1>1. s \in Seq(S) /\ t \in Seq(S)
    <2>1. /\ s \in Seq({s[i] : i \in DOMAIN s}) /\ t \in Seq({t[i] : i \in DOMAIN t})
          /\ {s[i] : i \in DOMAIN s} \subseteq S /\ {t[i] : i \in DOMAIN t} \subseteq S
      BY DEF IsList
    <2> QED BY <2>1, SeqMonotonic
  <1>2. l \in Nat /\ m \in Nat
    BY ListIs
  <1> HIDE DEF S
  <1>3. /\ q \in Seq(S) /\ Len(q) = l + m
        /\ \A i \in 1 .. l + m : q[i] = IF i <= l THEN s[i] ELSE t[i - l]
    BY <1>1, ConcatProperties, Zenon
  <1> HIDE DEF q, l, m
  <1>4. (\A i \in 1 .. l : q[i] = s[i]) /\ \A i \in 1 .. m : q[l + i] = t[i]
    BY <1>2, <1>3
  <1>5. IsList(q)
    <2>1. DOMAIN q = 1 .. Len(q) /\ Len(q) \in Nat /\ q = [i \in DOMAIN q |-> q[i]]
      BY <1>3, LenProperties, SeqDef
    <2> QED BY <2>1, ListOf
  <1> QED BY <1>3, <1>4, <1>5 DEF IsBehind, q, l, m


(* Lists joined one by one: there is such a function, every value of it is *)
(* a list, and what was joined stays where it is.                          *)
IsJoined(m, n, P) == m = [k \in 0 .. n |-> IF k = 0 THEN <<>> ELSE m[k - 1] \o P[k]]

LEMMA LeastFails ==
  ASSUME NEW S \in SUBSET Nat, S # {}
  PROVE  \E i \in S : \A j \in S : ~(j < i)
  <1>1. PICK i \in S : \A j \in S : <<j, i>> \notin OpToRel(<, Nat)
    BY NatLessThanWellFounded, WFMin
  <1>2. \A j \in S : j \in Nat /\ i \in Nat
    OBVIOUS
  <1> QED BY <1>1, <1>2 DEF OpToRel

LEMMA JoinedExists ==
  ASSUME NEW P, NEW n \in Nat
  PROVE  \E m : IsJoined(m, n, P)
  <1> DEFINE Without == {i \in Nat : \A m : ~IsJoined(m, i, P)}
  <1>1. SUFFICES ASSUME Without # {} PROVE FALSE
    BY <1>1
  <1>2. PICK i \in Without : \A j \in Without : ~(j < i)
    <2>1. Without \in SUBSET Nat
      OBVIOUS
    <2> HIDE DEF Without
    <2> QED BY <1>1, <2>1, LeastFails
  <1>3. i \in Nat /\ \A m : ~IsJoined(m, i, P)
    OBVIOUS
  <1>4. CASE i = 0
    <2> DEFINE m == [k \in 0 .. 0 |-> <<>>]
    <2>1. IsJoined(m, 0, P)
      <3>1. \A k \in 0 .. 0 : k = 0
        OBVIOUS
      <3> QED BY <3>1 DEF IsJoined
    <2> QED BY <1>3, <1>4, <2>1
  <1>5. CASE i # 0
    <2>1. i - 1 \in Nat /\ i - 1 \notin Without
      BY <1>2, <1>3, <1>5
    <2>2. PICK m : IsJoined(m, i - 1, P)
      BY <2>1
    <2> DEFINE q == [k \in 0 .. i |-> IF k = i THEN m[i - 1] \o P[i] ELSE m[k]]
    <2>3. \A k \in 0 .. i - 1 : m[k] = IF k = 0 THEN <<>> ELSE m[k - 1] \o P[k]
      BY <2>2, Zenon DEF IsJoined
    <2>4. ASSUME NEW k \in 0 .. i
          PROVE  q[k] = IF k = 0 THEN <<>> ELSE q[k - 1] \o P[k]
      <3>1. CASE k = i
        BY <1>3, <1>5, <3>1
      <3>2. CASE k # i
        <4>1. k \in 0 .. i - 1 /\ (k # 0 => k - 1 \in 0 .. i - 1 /\ k - 1 # i)
          BY <1>3, <3>2
        <4>2. q[k] = m[k] /\ (k # 0 => q[k - 1] = m[k - 1])
          BY <1>3, <3>2, <4>1
        <4> QED BY <2>3, <4>1, <4>2
      <3> QED BY <3>1, <3>2
    <2>5. q = [k \in 0 .. i |-> q[k]]
      OBVIOUS
    <2> HIDE DEF q
    <2>6. IsJoined(q, i, P)
      BY <2>4, <2>5 DEF IsJoined
    <2> QED BY <1>3, <2>6
  <1> QED BY <1>4, <1>5

LEMMA JoinedIs ==
  ASSUME NEW n \in Nat, NEW P, \A k \in 1 .. n : IsList(P[k]), NEW m, IsJoined(m, n, P)
  PROVE  /\ m[0] = <<>> /\ \A k \in 0 .. n : IsList(m[k])
         /\ \A k \in 1 .. n : IsBehind(m[k], m[k - 1], P[k])
  <1>1. \A k \in 0 .. n : m[k] = IF k = 0 THEN <<>> ELSE m[k - 1] \o P[k]
    BY Zenon DEF IsJoined
  <1>2. m[0] = <<>>
    BY <1>1
  <1> DEFINE Fail == {k \in 0 .. n : ~IsList(m[k])}
  <1>3. Fail = {}
    <2> SUFFICES ASSUME Fail # {} PROVE FALSE
      OBVIOUS
    <2>1. PICK k \in Fail : \A j \in Fail : ~(j < k)
      <3>1. Fail \in SUBSET Nat
        OBVIOUS
      <3> HIDE DEF Fail
      <3> QED BY <3>1, LeastFails
    <2>2. k \in 0 .. n /\ ~IsList(m[k])
      OBVIOUS
    <2>3. k # 0
      <3>1. DOMAIN <<>> = {} /\ <<>> \in Seq({})
        BY EmptySeq
      <3>2. {<<>>[i] : i \in DOMAIN <<>>} = {}
        BY <3>1
      <3>3. IsList(<<>>)
        BY <3>1, <3>2 DEF IsList
      <3> QED BY <1>2, <2>2, <3>3
    <2>4. k - 1 \in 0 .. n /\ k \in 1 .. n /\ IsList(m[k - 1])
      BY <2>1, <2>2, <2>3
    <2>5. m[k] = m[k - 1] \o P[k]
      BY <1>1, <2>2, <2>3
    <2>6. IsBehind(m[k - 1] \o P[k], m[k - 1], P[k])
      BY <2>4, Behind
    <2> QED BY <2>2, <2>5, <2>6 DEF IsBehind
  <1>4. ASSUME NEW k \in 1 .. n PROVE IsBehind(m[k], m[k - 1], P[k])
    <2>1. k - 1 \in 0 .. n /\ k \in 0 .. n /\ k # 0
      OBVIOUS
    <2>2. IsList(m[k - 1]) /\ m[k] = m[k - 1] \o P[k]
      BY <1>1, <1>3, <2>1
    <2> QED BY <2>2, Behind
  <1> QED BY <1>2, <1>3, <1>4

(* What was joined k-th is still found behind all that was joined before.  *)
StaysBehind(all, before, piece) ==
  /\ Len(before) \in Nat /\ IsList(all)
  /\ \A i \in 1 .. Len(piece) : /\ Len(before) + i \in 1 .. Len(all)
                                /\ all[Len(before) + i] = piece[i]

LEMMA JoinedStays ==
  ASSUME NEW n \in Nat, NEW P, \A k \in 1 .. n : IsList(P[k]), NEW m, IsJoined(m, n, P),
         NEW k \in 1 .. n
  PROVE  StaysBehind(m[n], m[k - 1], P[k])
  <1> DEFINE Fail == {j \in k .. n : ~ /\ Len(m[k]) <= Len(m[j])
                                       /\ \A i \in 1 .. Len(m[k]) : m[j][i] = m[k][i]}
  <1>1. /\ \A j \in 0 .. n : IsList(m[j])
        /\ \A j \in 1 .. n : IsBehind(m[j], m[j - 1], P[j])
    BY JoinedIs
  <1>2. /\ \A j \in 0 .. n : Len(m[j]) \in Nat
        /\ \A j \in 1 .. n : Len(P[j]) \in Nat
    BY <1>1, ListIs
  <1>3. Fail = {}
    <2> SUFFICES ASSUME Fail # {} PROVE FALSE
      OBVIOUS
    <2>1. PICK j \in Fail : \A l \in Fail : ~(l < j)
      <3>1. Fail \in SUBSET Nat
        OBVIOUS
      <3> HIDE DEF Fail
      <3> QED BY <3>1, LeastFails
    <2>2. j \in k .. n /\ ~(Len(m[k]) <= Len(m[j]) /\ \A i \in 1 .. Len(m[k]) : m[j][i] = m[k][i])
      OBVIOUS
    <2>3. j # k
      BY <1>2, <2>2
    <2>4. j - 1 \in k .. n /\ j - 1 \in 0 .. n /\ j \in 1 .. n /\ k \in 0 .. n /\ j - 1 < j
      BY <2>2, <2>3
    <2>5. /\ Len(m[k]) <= Len(m[j - 1])
          /\ \A i \in 1 .. Len(m[k]) : m[j - 1][i] = m[k][i]
      BY <2>1, <2>4
    <2> HIDE DEF Fail
    <2>6. /\ Len(m[j]) = Len(m[j - 1]) + Len(P[j])
          /\ \A i \in 1 .. Len(m[j - 1]) : m[j][i] = m[j - 1][i]
      BY <1>1, <2>4 DEF IsBehind
    <2>7. /\ Len(m[j]) \in Nat /\ Len(m[k]) \in Nat
          /\ Len(m[j - 1]) \in Nat /\ Len(P[j]) \in Nat
      BY <1>2, <2>4
    <2>8. Len(m[k]) <= Len(m[j])
      <3>1. \A a, b, c, d \in Nat : a <= b /\ c = b + d => a <= c
        OBVIOUS
      <3> QED BY <2>5, <2>6, <2>7, <3>1
    <2>9. ASSUME NEW i \in 1 .. Len(m[k]) PROVE m[j][i] = m[k][i]
      <3>1. i \in 1 .. Len(m[j - 1])
        BY <2>5, <2>7
      <3> QED BY <2>5, <2>6, <3>1
    <2> QED BY <2>2, <2>8, <2>9
  <1>4. Len(m[k]) <= Len(m[n]) /\ \A i \in 1 .. Len(m[k]) : m[n][i] = m[k][i]
    <2>1. n \in k .. n
      OBVIOUS
    <2> QED BY <1>3, <2>1
  <1> HIDE DEF Fail
  <1>5. /\ Len(m[k]) = Len(m[k - 1]) + Len(P[k])
        /\ \A i \in 1 .. Len(P[k]) : m[k][Len(m[k - 1]) + i] = P[k][i]
    BY <1>1 DEF IsBehind
  <1>6. /\ Len(m[k - 1]) \in Nat /\ Len(m[k]) \in Nat /\ Len(m[n]) \in Nat /\ Len(P[k]) \in Nat
    BY <1>2
  <1>7. \A i \in 1 .. Len(P[k]) : /\ Len(m[k - 1]) + i \in 1 .. Len(m[k])
                                  /\ Len(m[k - 1]) + i \in 1 .. Len(m[n])
    <2> DEFINE a == Len(m[k - 1])
               b == Len(m[k])
               c == Len(m[n])
               l == Len(P[k])
    <2>1. a \in Nat /\ b \in Nat /\ c \in Nat /\ l \in Nat /\ b <= c /\ b = a + l
      BY <1>4, <1>5, <1>6
    <2> HIDE DEF a, b, c, l
    <2>2. \A i \in 1 .. l : a + i \in 1 .. b /\ a + i \in 1 .. c
      BY <2>1
    <2> QED BY <2>2 DEF a, b, c, l
  <1>8. IsList(m[n])
    BY <1>1
  <1> QED BY <1>4, <1>5, <1>6, <1>7, <1>8 DEF StaysBehind


-----------------------------------------------------------------------------
(* What placement keeps of the operations, besides its own invariant: the  *)
(* function is one of the programs', every operation of it is still what   *)
(* it was, and only operations with a kernel are wrapped.                  *)
HasKernel(c) == KernelIn(source, SourceOp(c)) # NoKernel

Keeps(n) ==
  n.id \in SourceIds => n.op = SourceOp(n.id).op /\ n.value = SourceOp(n.id).value

OpsInv ==
  /\ phase \in {"topology", "gather"} => block = source
  /\ \E p \in Programs : source = p.block
  /\ \A i \in DOMAIN block : Keeps(block[i])
  /\ \A c \in candidates \cup Wrapped : HasKernel(c)

LEMMA InitialisesOps == Init => OpsInv
  <1> SUFFICES ASSUME Init PROVE OpsInv
    OBVIOUS
  <1>1. /\ phase = "topology" /\ block = source /\ \E p \in Programs : source = p.block
    BY DEF Init, PlacementInit
  <1>2. IInv
    BY InitialisesInvariant
  <1>3. candidates = {} /\ Wrapped = {} /\ IsFunction(source)
    BY <1>1, <1>2 DEF IInv, CandidatesInv, MachineInv
  <1>4. \A i \in DOMAIN source : SourceOp(source[i].id) = source[i]
    BY <1>3, SourceFacts, DefiningIs DEF SourceOp
  <1> QED BY <1>1, <1>3, <1>4 DEF OpsInv, Keeps

LEMMA OpsStay ==
  ASSUME IInv, OpsInv, UNCHANGED <<machine, source, block>>, candidates' \subseteq candidates,
         phase' \in {"topology", "gather"} => phase \in {"topology", "gather"}
  PROVE  OpsInv'
  <1>1. Wrapped' = Wrapped
    BY FunctionStays
  <1>2. /\ SourceIds' = SourceIds /\ \A c : SourceOp(c)' = SourceOp(c)
    BY SourceStays
  <1>3. \A c : HasKernel(c) => HasKernel(c)'
    BY <1>2 DEF HasKernel
  <1>4. \A i \in DOMAIN block : Keeps(block[i]) => Keeps(block[i])'
    BY <1>2 DEF Keeps
  <1> QED BY <1>1, <1>3, <1>4 DEF OpsInv

LEMMA GatherKeepsOps == IInv /\ OpsInv /\ GatherCandidates => OpsInv'
  <1> SUFFICES ASSUME IInv, OpsInv, GatherCandidates PROVE OpsInv'
    OBVIOUS
  <1>1. /\ UNCHANGED <<machine, source, topology>> /\ phase = "gather" /\ phase' = "wrap"
        /\ block = source
    BY DEF GatherCandidates, OpsInv
  <1>2. candidates = {} /\ Wrapped = {} /\ IsFunction(source)
    BY <1>1 DEF IInv, CandidatesInv, MachineInv
  <1>3. CASE UNCHANGED <<block, candidates>>
    <2>1. candidates' \subseteq candidates
      BY <1>3
    <2> QED BY <1>1, <1>3, <2>1, OpsStay
  <1>4. CASE StrelaAffinity(machine) # NoDevice
    <2>1. /\ block' = PinAbiToDefaultDevice(block)
          /\ candidates' = {block[i].id : i \in {l \in LinalgOps(block) :
                                                   KernelIn(block, block[l]) # NoKernel}}
      BY <1>4 DEF GatherCandidates
    <2>2. /\ DOMAIN block' = DOMAIN block
          /\ \A i \in DOMAIN block : \/ block'[i] = block[i]
                                     \/ block'[i] = [block[i] EXCEPT !.to = machine.default]
      BY <2>1 DEF PinAbiToDefaultDevice
    <2>3. ASSUME NEW i \in DOMAIN block
          PROVE  /\ block'[i].id = block[i].id /\ block'[i].op = block[i].op
                 /\ block'[i].value = block[i].value
      <3> DEFINE n == block[i]
      <3>1. n = Node(n.id, n.kind, n.args, n.value, n.op, n.to)
        BY DEF IInv, NodesInv, IsNode
      <3>2. block'[i] = n \/ block'[i] = [n EXCEPT !.to = machine.default]
        BY <2>2
      <3> HIDE DEF n
      <3>3. [n EXCEPT !.to = machine.default]
              = Node(n.id, n.kind, n.args, n.value, n.op, machine.default)
        BY <3>1 DEF Node
      <3>4. /\ block'[i].id = n.id /\ block'[i].op = n.op /\ block'[i].value = n.value
        BY <3>2, <3>3 DEF Node
      <3> QED BY <3>4 DEF n
    <2>4. /\ SourceIds' = SourceIds /\ \A c : SourceOp(c)' = SourceOp(c)
      BY <1>1, SourceStays
    <2>5. ASSUME NEW i \in DOMAIN block' PROVE Keeps(block[i])'
      <3>1. i \in DOMAIN block /\ Keeps(block[i])
        BY <2>2 DEF OpsInv
      <3> QED BY <2>3, <2>4, <3>1 DEF Keeps
    <2>6. Values' = Values
      BY <2>2, <2>3 DEF Values
    <2>7. Wrapped' = {}
      BY <1>2, <2>4, <2>6 DEF Wrapped
    <2>8. ASSUME NEW c \in candidates' PROVE HasKernel(c)'
      <3>1. PICK i \in LinalgOps(block) : c = block[i].id /\ KernelIn(block, block[i]) # NoKernel
        BY <2>1
      <3>2. i \in DOMAIN source
        BY <1>1, <3>1 DEF LinalgOps
      <3>3. SourceOp(c) = source[i]
        BY <1>1, <1>2, <3>1, <3>2, SourceFacts, DefiningIs DEF SourceOp
      <3> QED BY <1>1, <2>4, <3>1, <3>3 DEF HasKernel
    <2> QED BY <1>1, <2>5, <2>7, <2>8 DEF OpsInv
  <1>5. StrelaAffinity(machine) = NoDevice => UNCHANGED <<block, candidates>>
    BY DEF GatherCandidates
  <1> QED BY <1>3, <1>4, <1>5


LEMMA WrapKeepsOps == IInv /\ OpsInv /\ Wrap => OpsInv'
  <1> SUFFICES ASSUME IInv, OpsInv, Wrap PROVE OpsInv'
    OBVIOUS
  <1>1. UNCHANGED <<machine, source, topology, phase>> /\ phase = "wrap"
    BY DEF Wrap
  <1>2. PICK c \in candidates :
          /\ block' = IF machine.default = NoDevice THEN block
                      ELSE WrapInTransfers(block, c, StrelaAffinity(machine), machine.default)
          /\ candidates' = candidates \ {c}
    BY Zenon DEF Wrap
  <1>3. CASE machine.default = NoDevice
    BY <1>1, <1>2, <1>3, OpsStay
  <1>4. CASE machine.default # NoDevice
    <2> DEFINE n == Len(block)
    <2>1. PICK p, m, s : WrapsAt(c, p, m, s)
      BY <1>2, <1>4, WrapIs
    <2>2. c \in SourceIds /\ SourceId(c) /\ IsFunction(source)
      BY CandidateIs, SourceIdIs DEF IInv, MachineInv
    <2>3. /\ n \in Nat /\ DOMAIN block = 1 .. n /\ p \in 1 .. n /\ m \in Nat
          /\ s \in [1 .. m -> Moved(c)] /\ DOMAIN block' = 1 .. n + m + 2
          /\ Moved(c) \subseteq Nat
      BY <2>1, BlockDomain, CandidateIs, <2>2, LinalgIs DEF WrapsAt, IInv, NodesInv
    <2>4. SourceIds' = SourceIds /\ \A x : SourceOp(x)' = SourceOp(x)
      BY <1>1, SourceStays
    <2>5. \A x \in SourceIds : Len(x) = 1
      BY <2>2, SourceIdIs DEF SourceId
    <2>6. /\ Len(DimsId(c)) = 2 /\ Len(BackId(c)) = 3
          /\ \A k \in 1 .. m : Len(TransferId(c, s[k])) = 2
      BY <2>2, <2>3, IdsAre
    <2>7. ASSUME NEW i \in DOMAIN block' PROVE Keeps(block[i])'
      <3>1. IsSpot(i, n, p, m)
        BY <2>3, Positions
      <3>2. ASSUME Len(block'[i].id) # 1 PROVE Keeps(block[i])'
        BY <2>4, <2>5, <3>2 DEF Keeps
      <3>3. CASE i = p
        <4>1. block'[p].id = DimsId(c)
          BY <2>1, Zenon DEF WrapsAt
        <4> QED BY <2>6, <3>2, <3>3, <4>1
      <3>4. CASE i = p + m + 2
        <4>1. block'[p + m + 2].id = BackId(c)
          BY <2>1, Zenon DEF WrapsAt
        <4> QED BY <2>6, <3>2, <3>4, <4>1
      <3>5. ASSUME NEW k \in 1 .. m, i = p + k PROVE Keeps(block[i])'
        <4>1. block'[p + k].id = TransferId(c, s[k])
          BY <2>1, Zenon DEF WrapsAt
        <4> QED BY <2>6, <3>2, <3>5, <4>1
      <3>6. ASSUME NEW j \in 1 .. n, i = Shift(p, m, j) PROVE Keeps(block[i])'
        <4>1. /\ block'[i].id = block[j].id /\ block'[i].op = block[j].op
              /\ block'[i].value = block[j].value
          BY <2>1, <2>3, <3>6 DEF WrapsAt
        <4>2. Keeps(block[j])
          BY <2>3 DEF OpsInv
        <4> QED BY <2>4, <4>1, <4>2 DEF Keeps
      <3> QED BY <3>1, <3>3, <3>4, <3>5, <3>6 DEF IsSpot
    <2>8. Wrapped' = Wrapped \cup {c}
      BY <1>1, <2>1, ValuesAfter
    <2>9. \A x : HasKernel(x) => HasKernel(x)'
      BY <1>1, <2>4 DEF HasKernel
    <2> QED BY <1>1, <1>2, <2>7, <2>8, <2>9 DEF OpsInv
  <1> QED BY <1>3, <1>4

LEMMA NextKeepsOps == IInv /\ OpsInv /\ [Next]_vars => OpsInv'
  <1> SUFFICES ASSUME IInv, OpsInv, [Next]_vars PROVE OpsInv'
    OBVIOUS
  <1>1. ASSUME UNCHANGED placementVars,
               phase' \in {"topology", "gather"} => phase \in {"topology", "gather"}
        PROVE  OpsInv'
    <2>1. UNCHANGED <<machine, source, block, candidates>>
      BY <1>1 DEF placementVars
    <2> QED BY <1>1, <2>1, OpsStay
  <1>2. ASSUME AssignTopology PROVE OpsInv'
    BY <1>2, OpsStay DEF AssignTopology
  <1>3. ASSUME WrapDone PROVE OpsInv'
    BY <1>1, <1>3 DEF WrapDone
  <1>4. ASSUME FormDispatches PROVE OpsInv'
    <2>1. UNCHANGED placementVars /\ phase' = "translate"
      BY <1>4, Zenon DEF FormDispatches
    <2> QED BY <1>1, <2>1
  <1>5. ASSUME Translating PROVE OpsInv'
    BY <1>1, <1>5 DEF Translating
  <1>6. ASSUME UNCHANGED vars PROVE OpsInv'
    <2>1. UNCHANGED placementVars /\ phase' = phase
      BY <1>6 DEF vars
    <2> QED BY <1>1, <2>1
  <1> QED BY <1>2, <1>3, <1>4, <1>5, <1>6, GatherKeepsOps, WrapKeepsOps, Zenon DEF Next


-----------------------------------------------------------------------------
(* The invariant of translation.  The body of a dispatch, as formation     *)
(* makes it of one operation, and what it has to do with the operation,    *)
(* whose operands "defs" are.                                              *)
Stages == {"convert", "count", "bind", "link", "serialize", "done"}

Stmt(op, defs, init, loads, store, kernel) ==
  [op |-> op, defs |-> defs, init |-> init, loads |-> loads, store |-> store, kernel |-> kernel]

Dispatch(stmt, workload, grid) ==
  [body |-> <<stmt>>, region |-> "placeholder", workload |-> workload, ordinal |-> 0, grid |-> grid]

DefsOf(c) == [i \in DOMAIN Inputs(SourceOp(c)) |-> source[Defining(source, SourceOp(c).args[i])]]

(* A matrix product, with a workload if its rows are not static.           *)
IsProduct(op, w, workload, node) ==
  /\ Matmul(node.op) /\ op = node.op
  /\ w = IF node.op.rowsStatic THEN 0 ELSE 1
  /\ ~node.op.rowsStatic => \E r \in Nat : workload = <<r>>

(* A sum of two tensors, and one that lost an operand to folding.          *)
IsSum(op, loads, T, node, defs) ==
  /\ IsStrelaLinalgAdd(node.op) /\ op = node.op
  /\ defs[1].kind # "splat" /\ defs[2].kind # "splat"
  /\ \E l1, l2 \in DOMAIN T : loads = <<l1, l2>> /\ T[l1] = node.args[1] /\ T[l2] = node.args[2]

IsLostSum(op, ds, init, node, defs) ==
  /\ node.op.body = "addi" /\ \E i \in DOMAIN defs : defs[i].kind = "splat"
  /\ KernelOf(op, ds, init) = NoKernel

(* A relu of one tensor, against a constant zero.                          *)
IsRelu(op, ds, loads, T, node, defs) ==
  /\ IsStrelaLinalgRelu(node.op, defs) /\ node.op.maps # <<>> /\ defs[1].kind # "splat"
  /\ IsStrelaLinalgRelu(op, ds) /\ Len(op.maps) = 1 /\ op.maps[1] = node.op.maps[1]
  /\ op.out = node.op.out /\ op.rows = node.op.rows /\ op.cols = node.op.cols
  /\ op.static = node.op.static
  /\ \E l \in DOMAIN T : loads = <<l>> /\ T[l] = node.args[1]

IsOneOf(op, ds, init, loads, w, T, workload, node, defs) ==
  \/ IsProduct(op, w, workload, node)
  \/ IsSum(op, loads, T, node, defs)
  \/ IsLostSum(op, ds, init, node, defs)
  \/ IsRelu(op, ds, loads, T, node, defs)

IsBodyOf(b, c, tensors, workload, node, defs) ==
  \E op, ds, init, loads, w, T :
    /\ b = Dispatch(Stmt(op, ds, init, loads, Len(T) + 1, NoKernel), w, NoGrid)
    /\ T \in Seq(Seq(Nat)) /\ tensors = T \o <<c>>
    /\ IsOneOf(op, ds, init, loads, w, T, workload, node, defs)

(* What the passes made of a body by a stage, and what they checked.       *)
At(b, st) ==
  CASE st = "convert" -> b
    [] st = "count" -> ConvertedExport(b)
    [] OTHER -> CountedExport(ConvertedExport(b))

Passed(b, st) ==
  /\ st # "convert" => Fits("convert", b)
  /\ st \notin {"convert", "count"} => Fits("count", ConvertedExport(b))
  /\ st \in {"link", "serialize", "done"} => Fits("bind", CountedExport(ConvertedExport(b)))
  /\ st = "done" => Fits("serialize", CountedExport(ConvertedExport(b)))

(* A call finds x by target and ordinal, whichever variant it takes.       *)
Reaches(exe, target, ordinal, x) ==
  /\ \E v \in DOMAIN exe.variants : exe.variants[v].target = target
  /\ \A v \in DOMAIN exe.variants : exe.variants[v].target = target =>
       /\ ordinal + 1 \in DOMAIN exe.variants[v].exports
       /\ exe.variants[v].exports[ordinal + 1] = x

(* A call reaches what the passes made of the body of its operation.       *)
CallReaches(call, b) ==
  LET st == stage[call.executable] IN
  /\ Passed(b, st)
  /\ Reaches(executables[call.executable], call.target, call.ordinal, At(b, st))

IsCall(call) ==
  /\ call = [op |-> call.op, executable |-> call.executable, target |-> call.target,
             ordinal |-> call.ordinal, tensors |-> call.tensors, workload |-> call.workload]
  /\ call.op \in LinalgIds
  /\ call.executable \in DOMAIN executables /\ call.ordinal \in Nat
  /\ \E b : /\ IsBodyOf(b, call.op, call.tensors, call.workload, SourceOp(call.op), DefsOf(call.op))
            /\ CallReaches(call, b)

CallsInv == \A s \in DOMAIN sites : IsCall(sites[s])

ExecutablesInv ==
  /\ IsList(executables) /\ \A e \in DOMAIN executables : IsExecutable(executables[e])
  /\ stage \in [DOMAIN executables -> Stages]
  /\ \A e \in DOMAIN binary :
       e \in DOMAIN executables /\ stage[e] = "done" /\ binary[e] = Serialized(executables[e])
  /\ phase # "translate" =>
       executables = <<>> /\ stage = <<>> /\ sites = <<>> /\ binary = <<>>

LEMMA InitialisesTranslation == Init => ExecutablesInv /\ CallsInv
  <1> SUFFICES ASSUME Init PROVE ExecutablesInv /\ CallsInv
    OBVIOUS
  <1>1. executables = <<>> /\ stage = <<>> /\ sites = <<>> /\ binary = <<>>
    BY DEF Init, TranslationInit
  <1>2. DOMAIN <<>> = {} /\ <<>> \in Seq({}) /\ <<>> \in [{} -> Stages]
    BY EmptySeq
  <1>3. IsList(<<>>)
    <2>1. {<<>>[i] : i \in DOMAIN <<>>} = {}
      BY <1>2
    <2> QED BY <1>2, <2>1 DEF IsList
  <1> QED BY <1>1, <1>2, <1>3 DEF ExecutablesInv, CallsInv

-----------------------------------------------------------------------------
(* A pass over the exports of an executable.                               *)
Mapped(new, exe, f) ==
  /\ IsExecutable(new) /\ new.lazy = exe.lazy /\ DOMAIN new.variants = DOMAIN exe.variants
  /\ \A v \in DOMAIN exe.variants :
       /\ new.variants[v].target = exe.variants[v].target
       /\ DOMAIN new.variants[v].exports = DOMAIN exe.variants[v].exports
       /\ \A x \in DOMAIN exe.variants[v].exports :
            new.variants[v].exports[x] = f[exe.variants[v].exports[x]]

LEMMA MappedIs ==
  ASSUME NEW exe, IsExecutable(exe), NEW f
  PROVE  Mapped(MapExports(exe, f), exe, f)
  <1> DEFINE V == exe.variants
             new == MapExports(exe, f)
             W == [v \in DOMAIN V |->
                    [V[v] EXCEPT !.exports = [x \in DOMAIN V[v].exports |-> f[V[v].exports[x]]]]]
  <1>1. /\ exe = [lazy |-> exe.lazy, variants |-> V] /\ exe.lazy \in BOOLEAN /\ IsList(V)
        /\ \A v \in DOMAIN V : /\ V[v] = [target |-> V[v].target, exports |-> V[v].exports]
                               /\ IsList(V[v].exports)
    BY Zenon DEF IsExecutable
  <1>2. new = [exe EXCEPT !.variants = W]
    BY DEF MapExports
  <1> HIDE DEF V, W
  <1>3. new = [lazy |-> exe.lazy, variants |-> W] /\ new.lazy = exe.lazy /\ new.variants = W
    BY <1>1, <1>2
  <1>4. ASSUME NEW v \in DOMAIN V
        PROVE  /\ W[v] = [target |-> W[v].target, exports |-> W[v].exports]
               /\ IsList(W[v].exports) /\ W[v].target = V[v].target
               /\ DOMAIN W[v].exports = DOMAIN V[v].exports
               /\ \A x \in DOMAIN V[v].exports : W[v].exports[x] = f[V[v].exports[x]]
    <2> DEFINE E == [x \in DOMAIN V[v].exports |-> f[V[v].exports[x]]]
    <2>1. V[v] = [target |-> V[v].target, exports |-> V[v].exports] /\ IsList(V[v].exports)
      BY <1>1
    <2>2. W[v] = [V[v] EXCEPT !.exports = E]
      BY DEF W
    <2>3. /\ IsList(E) /\ DOMAIN E = DOMAIN V[v].exports
          /\ \A x \in DOMAIN V[v].exports : E[x] = f[V[v].exports[x]]
      <3>1. Len(V[v].exports) \in Nat /\ DOMAIN V[v].exports = 1 .. Len(V[v].exports)
        BY <2>1, ListIs
      <3> QED BY <3>1, ListOf
    <2> HIDE DEF E
    <2>4. W[v] = [target |-> V[v].target, exports |-> E]
      BY <2>1, <2>2
    <2>5. W[v].target = V[v].target /\ W[v].exports = E
      BY <2>4
    <2> QED BY <2>3, <2>4, <2>5
  <1>5. DOMAIN W = DOMAIN V /\ W = [v \in DOMAIN W |-> W[v]]
    BY DEF W
  <1>6. IsList(W)
    BY <1>1, <1>5, ListIs, ListOf
  <1>7. IsExecutable(new)
    <2>1. \A v \in DOMAIN W : /\ W[v] = [target |-> W[v].target, exports |-> W[v].exports]
                              /\ IsList(W[v].exports)
      BY <1>4, <1>5
    <2>2. new = [lazy |-> new.lazy, variants |-> new.variants] /\ new.lazy \in BOOLEAN
      BY <1>1, <1>3
    <2> QED BY <1>3, <1>6, <2>1, <2>2, Zenon DEF IsExecutable
  <1>8. \A v \in DOMAIN V :
          /\ W[v].target = V[v].target
          /\ DOMAIN W[v].exports = DOMAIN V[v].exports
          /\ \A x \in DOMAIN V[v].exports : W[v].exports[x] = f[V[v].exports[x]]
    BY <1>4
  <1> QED BY <1>3, <1>5, <1>7, <1>8 DEF Mapped, V


(* A body of one statement stays one.                                      *)
LEMMA DispatchFields ==
  ASSUME NEW stmt, NEW w, NEW grid
  PROVE  LET b == Dispatch(stmt, w, grid) IN
         /\ b.body = <<stmt>> /\ b.region = "placeholder" /\ b.workload = w /\ b.ordinal = 0
         /\ b.grid = grid /\ DOMAIN b.body = {1} /\ b.body[1] = stmt /\ Len(b.body) = 1
  BY DEF Dispatch

LEMMA ConvertedDispatch ==
  ASSUME NEW stmt, NEW w, NEW grid
  PROVE  ConvertedExport(Dispatch(stmt, w, grid)) = Dispatch(Converted(stmt), w, grid)
  <1> DEFINE b == Dispatch(stmt, w, grid)
             body == [s \in DOMAIN b.body |-> Converted(b.body[s])]
  <1>1. body = <<Converted(stmt)>>
    <2>1. body = [s \in {1} |-> Converted(stmt)]
      BY DispatchFields
    <2> DEFINE x == Converted(stmt)
    <2>2. body \in [1 .. 1 -> {x}]
      BY <2>1
    <2> HIDE DEF body, x
    <2>3. body \in Seq({x}) /\ Len(body) = 1 /\ body[1] = x
      <3>1. 1 \in Nat /\ body[1] = x
        BY <2>2
      <3> QED BY <2>2, <3>1, FunctionIsSeq
    <2>4. body = <<x>>
      BY <2>3, SeqOne
    <2> QED BY <2>4 DEF x
  <1>2. ConvertedExport(b) = [b EXCEPT !.body = body]
    BY DEF ConvertedExport
  <1> HIDE DEF body
  <1>3. [b EXCEPT !.body = body] = Dispatch(Converted(stmt), w, grid)
    BY <1>1 DEF Dispatch
  <1> QED BY <1>2, <1>3

LEMMA CountedDispatch ==
  ASSUME NEW stmt, NEW w, NEW grid
  PROVE  CountedExport(Dispatch(stmt, w, grid))
           = Dispatch(stmt, w, BuildCount(Dispatch(stmt, w, grid)))
  <1> DEFINE b == Dispatch(stmt, w, grid)
             g == BuildCount(b)
  <1>1. CountedExport(b) = [b EXCEPT !.grid = g]
    BY DispatchFields DEF CountedExport
  <1> HIDE DEF g
  <1>2. [b EXCEPT !.grid = g] = Dispatch(stmt, w, g)
    BY DEF Dispatch
  <1> QED BY <1>1, <1>2 DEF g

LEMMA BoundDispatch ==
  ASSUME NEW stmt, NEW w, NEW grid, Fits("bind", Dispatch(stmt, w, grid))
  PROVE  /\ BoundExport(Dispatch(stmt, w, grid)) = Dispatch(stmt, w, grid)
         /\ stmt.kernel # NoKernel /\ NoBinding \notin Range(stmt.loads)
  <1> DEFINE b == Dispatch(stmt, w, grid)
  <1>1. Materializable(b)
    BY DEF Fits
  <1>2. /\ DOMAIN b.body = {1} /\ b.body[1] = stmt /\ b.body = <<stmt>>
    BY DispatchFields
  <1>3. HasOneKernel(b) /\ NoBinding \notin Range(Kernel(b).loads)
    BY <1>1, Zenon DEF Materializable
  <1> HIDE DEF b
  <1>4. KernelsOf(b) = {1}
    BY <1>2, <1>3 DEF HasOneKernel, KernelsOf
  <1>5. Kernel(b) = stmt
    <2>1. (CHOOSE s \in KernelsOf(b) : TRUE) = 1
      BY <1>4
    <2> QED BY <1>2, <2>1 DEF Kernel
  <1>6. stmt.kernel # NoKernel
    <2>1. 1 \in KernelsOf(b)
      BY <1>4
    <2> QED BY <1>2, <2>1 DEF KernelsOf
  <1>7. BoundExport(b) = [b EXCEPT !.body = <<stmt>>]
    BY <1>5 DEF BoundExport
  <1>8. [b EXCEPT !.body = <<stmt>>] = b
    BY DEF b, Dispatch
  <1> QED BY <1>3, <1>5, <1>6, <1>7, <1>8 DEF b

(* What a body is by the time its bindings are materialised.               *)
LEMMA DispatchAt ==
  ASSUME NEW stmt, NEW w
  PROVE  LET c == Dispatch(Converted(stmt), w, NoGrid) IN
         CountedExport(ConvertedExport(Dispatch(stmt, w, NoGrid)))
           = Dispatch(Converted(stmt), w, BuildCount(c))
  BY ConvertedDispatch, CountedDispatch, Zenon

IsDispatch(b) == \E stmt, w : b = Dispatch(stmt, w, NoGrid)

(* What a pass makes of a body that it takes is what the stage says.       *)
Follows(b, st, next, y) == y = At(b, next) /\ Passed(b, next)

LEMMA ConvertFollows ==
  ASSUME NEW b, Fits("convert", At(b, "convert"))
  PROVE  Follows(b, "convert", "count", ConvertedExport(At(b, "convert")))
  BY DEF Follows, At, Passed

LEMMA CountFollows ==
  ASSUME NEW b, Passed(b, "count"), Fits("count", At(b, "count"))
  PROVE  Follows(b, "count", "bind", CountedExport(At(b, "count")))
  BY DEF Follows, At, Passed

LEMMA BindFollows ==
  ASSUME NEW b, IsDispatch(b), Passed(b, "bind"), Fits("bind", At(b, "bind"))
  PROVE  Follows(b, "bind", "link", BoundExport(At(b, "bind")))
  <1>1. PICK stmt, w : b = Dispatch(stmt, w, NoGrid)
    BY DEF IsDispatch
  <1> DEFINE x == CountedExport(ConvertedExport(b))
  <1>2. At(b, "bind") = x /\ At(b, "link") = x
    BY DEF At
  <1>3. PICK g : x = Dispatch(Converted(stmt), w, g)
    BY <1>1, DispatchAt
  <1>4. BoundExport(x) = x
    BY <1>2, <1>3, BoundDispatch
  <1> HIDE DEF x
  <1>5. Passed(b, "link")
    BY <1>2 DEF Passed, x
  <1> QED BY <1>2, <1>4, <1>5 DEF Follows


(* The calls stay where a step leaves their executables, or makes of the   *)
(* export of every body what the next stage says.                          *)
LEMMA BodyIsDispatch ==
  ASSUME NEW b, NEW c, NEW tensors, NEW workload, NEW node, NEW defs,
         IsBodyOf(b, c, tensors, workload, node, defs)
  PROVE  IsDispatch(b)
  BY Zenon DEF IsBodyOf, IsDispatch

LEMMA OfSource ==
  ASSUME source' = source
  PROVE  LinalgIds' = LinalgIds /\ \A c : SourceOp(c)' = SourceOp(c) /\ DefsOf(c)' = DefsOf(c)
  <1>1. LinalgIds' = LinalgIds /\ \A c : SourceOp(c)' = SourceOp(c)
    BY SourceStays
  <1>2. \A c : DefsOf(c)' = DefsOf(c)
    BY <1>1 DEF DefsOf
  <1> QED BY <1>1, <1>2

(* A call with the same operation keeps its body.                          *)
LEMMA CallStays ==
  ASSUME NEW call, IsCall(call), source' = source, call.executable \in DOMAIN executables',
         \A b : IsDispatch(b) /\ CallReaches(call, b) => CallReaches(call, b)'
  PROVE  IsCall(call)'
  <1>1. LinalgIds' = LinalgIds /\ \A c : SourceOp(c)' = SourceOp(c) /\ DefsOf(c)' = DefsOf(c)
    BY OfSource
  <1>2. PICK b : /\ IsBodyOf(b, call.op, call.tensors, call.workload,
                             SourceOp(call.op), DefsOf(call.op))
                 /\ CallReaches(call, b)
    BY DEF IsCall
  <1>3. CallReaches(call, b)'
    BY <1>2, BodyIsDispatch
  <1>4. IsBodyOf(b, call.op, call.tensors, call.workload,
                 SourceOp(call.op)', DefsOf(call.op)')
    BY <1>1, <1>2
  <1> QED BY <1>1, <1>3, <1>4 DEF IsCall

LEMMA ReachedIsExport ==
  ASSUME NEW exe, NEW target, NEW ordinal, NEW x, Reaches(exe, target, ordinal, x)
  PROVE  x \in ExportsOf(exe)
  <1>1. PICK v \in DOMAIN exe.variants : exe.variants[v].target = target
    BY DEF Reaches
  <1>2. /\ ordinal + 1 \in DOMAIN exe.variants[v].exports
        /\ exe.variants[v].exports[ordinal + 1] = x
    BY <1>1 DEF Reaches
  <1>3. x \in Range(exe.variants[v].exports)
    BY <1>2 DEF Range
  <1> QED BY <1>3 DEF ExportsOf

LEMMA MappedReaches ==
  ASSUME NEW exe, NEW new, NEW f, Mapped(new, exe, f),
         NEW target, NEW ordinal, NEW x, Reaches(exe, target, ordinal, x)
  PROVE  Reaches(new, target, ordinal, f[x])
  BY DEF Mapped, Reaches

LEMMA PassKeeps ==
  ASSUME ExecutablesInv, CallsInv, NEW e \in DOMAIN executables,
         NEW name \in Stages, name # "done", NEW next \in Stages, NEW f, Pass(e, name, next, f),
         \A b : IsDispatch(b) /\ Passed(b, name) /\ Fits(name, At(b, name))
                  /\ At(b, name) \in ExportsOf(executables[e])
                => Follows(b, name, next, f[At(b, name)]),
         phase = "translate", UNCHANGED <<source, phase>>
  PROVE  ExecutablesInv' /\ CallsInv'
  <1> DEFINE new == MapExports(executables[e], f)
  <1>1. CASE UNCHANGED <<executables, stage, sites, binary>>
    <2>1. ExecutablesInv'
      BY <1>1 DEF ExecutablesInv
    <2>2. ASSUME NEW s \in DOMAIN sites PROVE IsCall(sites[s])'
      <3> DEFINE call == sites[s]
      <3>1. IsCall(call)
        BY DEF CallsInv
      <3>2. \A b : CallReaches(call, b) => CallReaches(call, b)'
        BY <1>1 DEF CallReaches
      <3>3. call.executable \in DOMAIN executables' /\ call' = call
        BY <1>1, <3>1 DEF IsCall
      <3> HIDE DEF call
      <3>4. IsCall(call)'
        BY <3>1, <3>2, <3>3, CallStays
      <3> QED BY <1>1, <3>3, <3>4 DEF call
    <2> QED BY <1>1, <2>1, <2>2 DEF CallsInv
  <1>2. CASE ~UNCHANGED <<executables, stage, sites, binary>>
    <2>1. /\ stage[e] = name /\ \A x \in ExportsOf(executables[e]) : Fits(name, x)
          /\ executables' = [executables EXCEPT ![e] = new]
          /\ stage' = [stage EXCEPT ![e] = next]
          /\ UNCHANGED <<sites, binary>>
      BY <1>2, Zenon DEF Pass
    <2>2. IsExecutable(executables[e]) /\ IsList(executables)
      BY DEF ExecutablesInv
    <2>3. Mapped(new, executables[e], f)
      BY <2>2, MappedIs
    <2> HIDE DEF new
    <2>4. /\ DOMAIN executables' = DOMAIN executables /\ executables'[e] = new
          /\ \A d \in DOMAIN executables : d # e => executables'[d] = executables[d]
          /\ executables' = [d \in DOMAIN executables' |-> executables'[d]]
      BY <2>1
    <2>5. /\ stage' \in [DOMAIN executables -> Stages] /\ stage'[e] = next
          /\ \A d \in DOMAIN executables : d # e => stage'[d] = stage[d]
      BY <2>1 DEF ExecutablesInv
    <2>6. ExecutablesInv'
      <3>1. IsList(executables')
        BY <2>2, <2>4, ListIs, ListOf
      <3>2. \A d \in DOMAIN executables' : IsExecutable(executables'[d])
        BY <2>3, <2>4 DEF ExecutablesInv, Mapped
      <3>3. \A d \in DOMAIN binary' :
              /\ d \in DOMAIN executables' /\ stage'[d] = "done"
              /\ binary'[d] = Serialized(executables'[d])
        <4>1. \A d \in DOMAIN binary : d \in DOMAIN executables /\ d # e /\ stage[d] = "done"
                                       /\ binary[d] = Serialized(executables[d])
          BY <2>1 DEF ExecutablesInv
        <4> QED BY <2>1, <2>4, <2>5, <4>1
      <3> QED BY <2>4, <2>5, <3>1, <3>2, <3>3 DEF ExecutablesInv
    <2>7. ASSUME NEW call, IsCall(call) PROVE IsCall(call)'
      <3>1. ASSUME NEW b, IsDispatch(b), CallReaches(call, b) PROVE CallReaches(call, b)'
        <4>1. call.executable \in DOMAIN executables
          BY <2>7 DEF IsCall
        <4>2. CASE call.executable # e
          <5>1. /\ executables'[call.executable] = executables[call.executable]
                /\ stage'[call.executable] = stage[call.executable]
            BY <2>4, <2>5, <4>1, <4>2
          <5> QED BY <3>1, <5>1 DEF CallReaches
        <4>3. CASE call.executable = e
          <5> DEFINE x == At(b, name)
          <5>1. Passed(b, name) /\ Reaches(executables[e], call.target, call.ordinal, x)
            BY <2>1, <3>1, <4>3 DEF CallReaches
          <5>2. x \in ExportsOf(executables[e])
            BY <5>1, ReachedIsExport
          <5>3. Follows(b, name, next, f[x])
            BY <2>1, <3>1, <5>1, <5>2
          <5>4. Reaches(new, call.target, call.ordinal, f[x])
            BY <2>3, <5>1, MappedReaches
          <5>5. Passed(b, next) /\ Reaches(new, call.target, call.ordinal, At(b, next))
            BY <5>3, <5>4 DEF Follows
          <5> QED BY <2>4, <2>5, <4>3, <5>5 DEF CallReaches
        <4> QED BY <4>2, <4>3
      <3>2. call.executable \in DOMAIN executables'
        BY <2>4, <2>7 DEF IsCall
      <3> QED BY <2>7, <3>1, <3>2, CallStays
    <2>8. CallsInv'
      BY <2>1, <2>7 DEF CallsInv
    <2> QED BY <2>6, <2>8
  <1> QED BY <1>1, <1>2


LEMMA PassesKeep ==
  ASSUME ExecutablesInv, CallsInv, NEW e \in DOMAIN executables, phase = "translate",
         UNCHANGED <<source, phase>>,
         Convert(e) \/ ResolveWorkgroupCount(e) \/ MaterializeBindings(e)
  PROVE  ExecutablesInv' /\ CallsInv'
  <1> DEFINE E == ExportsOf(executables[e])
  <1>1. CASE Convert(e)
    <2> DEFINE f == [x \in E |-> ConvertedExport(x)]
    <2>1. Pass(e, "convert", "count", f)
      BY <1>1 DEF Convert
    <2>2. ASSUME NEW b, Fits("convert", At(b, "convert")), At(b, "convert") \in E
          PROVE  Follows(b, "convert", "count", f[At(b, "convert")])
      BY <2>2, ConvertFollows
    <2> HIDE DEF f
    <2>3. "convert" \in Stages /\ "count" \in Stages
      BY DEF Stages
    <2> QED BY <2>1, <2>2, <2>3, PassKeeps
  <1>2. CASE ResolveWorkgroupCount(e)
    <2> DEFINE f == [x \in E |-> CountedExport(x)]
    <2>1. Pass(e, "count", "bind", f)
      BY <1>2 DEF ResolveWorkgroupCount
    <2>2. ASSUME NEW b, Passed(b, "count"), Fits("count", At(b, "count")), At(b, "count") \in E
          PROVE  Follows(b, "count", "bind", f[At(b, "count")])
      BY <2>2, CountFollows
    <2> HIDE DEF f
    <2>3. "count" \in Stages /\ "bind" \in Stages
      BY DEF Stages
    <2> QED BY <2>1, <2>2, <2>3, PassKeeps
  <1>3. CASE MaterializeBindings(e)
    <2> DEFINE f == [x \in E |-> BoundExport(x)]
    <2>1. Pass(e, "bind", "link", f)
      BY <1>3 DEF MaterializeBindings
    <2>2. ASSUME NEW b, IsDispatch(b), Passed(b, "bind"), Fits("bind", At(b, "bind")),
                 At(b, "bind") \in E
          PROVE  Follows(b, "bind", "link", f[At(b, "bind")])
      BY <2>2, BindFollows
    <2> HIDE DEF f
    <2>3. "bind" \in Stages /\ "link" \in Stages
      BY DEF Stages
    <2> QED BY <2>1, <2>2, <2>3, PassKeeps
  <1> QED BY <1>1, <1>2, <1>3

LEMMA SerializeKeeps ==
  ASSUME ExecutablesInv, CallsInv, NEW e \in DOMAIN executables, phase = "translate",
         UNCHANGED <<source, phase>>, SerializeExecutable(e)
  PROVE  ExecutablesInv' /\ CallsInv'
  <1>1. ASSUME NEW call, IsCall(call), UNCHANGED executables,
               \A b : IsDispatch(b) /\ CallReaches(call, b) => CallReaches(call, b)'
        PROVE  IsCall(call)'
    BY <1>1, CallStays DEF IsCall
  <1>2. CASE UNCHANGED <<executables, stage, sites, binary>>
    <2>1. ExecutablesInv'
      BY <1>2 DEF ExecutablesInv
    <2>2. \A call, b : CallReaches(call, b) => CallReaches(call, b)'
      BY <1>2 DEF CallReaches
    <2>3. CallsInv'
      BY <1>1, <1>2, <2>2 DEF CallsInv
    <2> QED BY <2>1, <2>3
  <1>3. CASE ~UNCHANGED <<executables, stage, sites, binary>>
    <2>1. /\ stage[e] = "serialize" /\ \A x \in ExportsOf(executables[e]) : Fits("serialize", x)
          /\ binary' = [d \in DOMAIN binary \cup {e} |->
                          IF d = e THEN Serialized(executables[e]) ELSE binary[d]]
          /\ stage' = [stage EXCEPT ![e] = "done"]
          /\ UNCHANGED <<executables, sites>>
      BY <1>3, Zenon DEF SerializeExecutable
    <2>2. /\ stage' \in [DOMAIN executables -> Stages] /\ stage'[e] = "done"
          /\ \A d \in DOMAIN executables : d # e => stage'[d] = stage[d]
      BY <2>1 DEF ExecutablesInv, Stages
    <2>3. ExecutablesInv'
      <3>1. ASSUME NEW d \in DOMAIN binary'
            PROVE  /\ d \in DOMAIN executables' /\ stage'[d] = "done"
                   /\ binary'[d] = Serialized(executables'[d])
        BY <2>1, <2>2 DEF ExecutablesInv
      <3> QED BY <2>1, <2>2, <3>1 DEF ExecutablesInv
    <2>4. ASSUME NEW call, NEW b, IsCall(call), CallReaches(call, b) PROVE CallReaches(call, b)'
      <3>1. CASE call.executable # e
        BY <2>1, <2>2, <2>4, <3>1 DEF CallReaches, IsCall
      <3>2. CASE call.executable = e
        <4> DEFINE x == CountedExport(ConvertedExport(b))
        <4>1. At(b, "serialize") = x /\ At(b, "done") = x
          BY DEF At
        <4>2. Passed(b, "serialize") /\ Reaches(executables[e], call.target, call.ordinal, x)
          BY <2>1, <2>4, <3>2, <4>1 DEF CallReaches
        <4>3. Fits("serialize", x)
          BY <2>1, <4>2, ReachedIsExport
        <4> HIDE DEF x
        <4>4. Passed(b, "done")
          BY <4>2, <4>3 DEF Passed, x
        <4> QED BY <2>1, <2>2, <3>2, <4>1, <4>2, <4>4 DEF CallReaches
      <3> QED BY <3>1, <3>2
    <2>5. CallsInv'
      BY <1>1, <2>1, <2>4 DEF CallsInv
    <2> QED BY <2>3, <2>5
  <1> QED BY <1>2, <1>3


-----------------------------------------------------------------------------
(* Linking.                                                                *)
IsEnumeration(s, S) ==
  /\ Len(s) \in Nat /\ DOMAIN s = 1 .. Len(s) /\ s \in [1 .. Len(s) -> S]
  /\ \A k, l \in 1 .. Len(s) : s[k] = s[l] => k = l
  /\ \A e \in S : \E k \in 1 .. Len(s) : s[k] = e

LEMMA Enumerated ==
  ASSUME NEW n \in Nat, NEW S \in SUBSET (1 .. n)
  PROVE  IsEnumeration(InOrder(S), S)
  <1> DEFINE s == InOrder(S)
             m == Cardinality(S)
  <1>1. /\ m \in Nat /\ s \in [1 .. m -> S]
        /\ \A k, l \in 1 .. m : s[k] = s[l] => k = l
        /\ \A i \in S : \E k \in 1 .. m : s[k] = i
    BY InOrderIs
  <1> HIDE DEF s, m
  <1>2. Len(s) = m /\ DOMAIN s = 1 .. m
    BY <1>1, FunctionIsSeq
  <1> QED BY <1>1, <1>2 DEF IsEnumeration, s

StaysLazy == {e \in DOMAIN executables : executables[e].lazy}
IsMoved == {e \in DOMAIN executables : ~executables[e].lazy}

LEMMA SourcesAre ==
  ASSUME ExecutablesInv
  PROVE  IsEnumeration(Sources, IsMoved) /\ IsEnumeration(Lazy, StaysLazy)
  <1>1. Len(executables) \in Nat /\ DOMAIN executables = 1 .. Len(executables)
    BY ListIs DEF ExecutablesInv
  <1>2. IsMoved \in SUBSET (1 .. Len(executables)) /\ StaysLazy \in SUBSET (1 .. Len(executables))
    BY <1>1 DEF IsMoved, StaysLazy
  <1> QED BY <1>1, <1>2, Enumerated DEF Sources, Lazy, IsMoved, StaysLazy

LEMMA ExportsForIs ==
  ASSUME ExecutablesInv, NEW e \in DOMAIN executables, NEW target
  PROVE  /\ IsList(ExportsFor(e, target))
         /\ \A ordinal, x : Reaches(executables[e], target, ordinal, x) =>
              /\ ordinal + 1 \in DOMAIN ExportsFor(e, target)
              /\ ExportsFor(e, target)[ordinal + 1] = x
  <1> DEFINE V == executables[e].variants
             at == {v \in DOMAIN V : V[v].target = target}
  <1>1. \A v \in DOMAIN V : IsList(V[v].exports)
    BY DEF ExecutablesInv, IsExecutable
  <1>2. CASE at = {}
    <2>1. ExportsFor(e, target) = <<>>
      BY <1>2 DEF ExportsFor
    <2>2. IsList(<<>>)
      <3>1. DOMAIN <<>> = {} /\ <<>> \in Seq({})
        BY EmptySeq
      <3>2. {<<>>[i] : i \in DOMAIN <<>>} = {}
        BY <3>1
      <3> QED BY <3>1, <3>2 DEF IsList
    <2>3. \A ordinal, x : ~Reaches(executables[e], target, ordinal, x)
      BY <1>2 DEF Reaches
    <2> QED BY <2>1, <2>2, <2>3
  <1>3. CASE at # {}
    <2> DEFINE v == CHOOSE v \in at : TRUE
    <2>1. v \in at
      BY <1>3
    <2>2. v \in DOMAIN V /\ V[v].target = target
      BY <2>1
    <2>3. ExportsFor(e, target) = V[v].exports
      BY <1>3 DEF ExportsFor
    <2> HIDE DEF v
    <2> QED BY <1>1, <2>2, <2>3 DEF Reaches
  <1> QED BY <1>2, <1>3

Pieces(target) == [k \in 1 .. Len(Sources) |-> ExportsFor(Sources[k], target)]

LEMMA MovedIs ==
  ASSUME ExecutablesInv, NEW target
  PROVE  \E m : /\ IsJoined(m, Len(Sources), Pieces(target))
                /\ \A n \in 0 .. Len(Sources) : MovedExports(n, target) = m[n]
  <1> DEFINE L == Len(Sources)
             P == Pieces(target)
             Solves(m) == m = [k \in 0 .. L |->
                                IF k = 0 THEN <<>> ELSE m[k - 1] \o ExportsFor(Sources[k], target)]
  <1>1. L \in Nat
    BY SourcesAre DEF IsEnumeration
  <1>2. \A m : IsJoined(m, L, P) <=> Solves(m)
    <2>1. \A k \in 0 .. L : k # 0 => P[k] = ExportsFor(Sources[k], target)
      BY <1>1 DEF Pieces
    <2>2. ASSUME NEW m
          PROVE  [k \in 0 .. L |-> IF k = 0 THEN <<>> ELSE m[k - 1] \o P[k]]
                   = [k \in 0 .. L |->
                        IF k = 0 THEN <<>> ELSE m[k - 1] \o ExportsFor(Sources[k], target)]
      BY <2>1
    <2> HIDE DEF P, L
    <2> QED BY <2>2 DEF IsJoined
  <1>3. PICK q : Solves(q)
    BY <1>1, <1>2, JoinedExists
  <1> DEFINE m == CHOOSE m : Solves(m)
  <1>4. Solves(m)
    BY <1>3
  <1>5. \A n \in 0 .. L : MovedExports(n, target) = m[n]
    BY Zenon DEF MovedExports
  <1> HIDE DEF m
  <1> QED BY <1>2, <1>4, <1>5


LEMMA PiecesAre ==
  ASSUME ExecutablesInv, NEW target
  PROVE  \A k \in 1 .. Len(Sources) :
           /\ Sources[k] \in DOMAIN executables
           /\ Pieces(target)[k] = ExportsFor(Sources[k], target) /\ IsList(Pieces(target)[k])
  <1> SUFFICES ASSUME NEW k \in 1 .. Len(Sources)
               PROVE  /\ Sources[k] \in DOMAIN executables
                      /\ Pieces(target)[k] = ExportsFor(Sources[k], target)
                      /\ IsList(Pieces(target)[k])
    OBVIOUS
  <1>1. Sources[k] \in DOMAIN executables
    BY SourcesAre DEF IsEnumeration, IsMoved
  <1>2. Pieces(target)[k] = ExportsFor(Sources[k], target)
    BY DEF Pieces
  <1> QED BY <1>1, <1>2, ExportsForIs

LEMMA Finite ==
  ASSUME NEW n \in Nat
  PROVE  IsFiniteSet(1 .. n)
  <1>1. 1 \in Int /\ n \in Int
    OBVIOUS
  <1> QED BY <1>1, FS_Interval, Zenon

LEMMA TargetsAreFinite ==
  ASSUME ExecutablesInv
  PROVE  IsFiniteSet(Targets)
  <1> DEFINE L == Len(Sources)
             T == [k \in 1 .. L |-> {executables[Sources[k]].variants[v].target :
                                       v \in DOMAIN executables[Sources[k]].variants}]
             Sets == {T[k] : k \in 1 .. L}
  <1>1. L \in Nat /\ DOMAIN Sources = 1 .. L /\ \A k \in 1 .. L : Sources[k] \in DOMAIN executables
    BY SourcesAre DEF IsEnumeration, IsMoved
  <1>2. IsFiniteSet(Sets)
    <2>1. T \in Surjection(1 .. L, Sets)
      BY DEF Surjection
    <2> HIDE DEF T, Sets
    <2> QED BY <1>1, <2>1, Finite, FS_Surjection
  <1>3. ASSUME NEW k \in 1 .. L PROVE IsFiniteSet(T[k])
    <2> DEFINE V == executables[Sources[k]].variants
               f == [v \in DOMAIN V |-> V[v].target]
               S == {V[v].target : v \in DOMAIN V}
    <2>1. IsList(V)
      BY <1>1 DEF ExecutablesInv, IsExecutable
    <2>2. Len(V) \in Nat /\ DOMAIN V = 1 .. Len(V)
      BY <2>1, ListIs
    <2>3. T[k] = S
      OBVIOUS
    <2>4. f \in Surjection(DOMAIN V, S)
      BY DEF Surjection
    <2>5. IsFiniteSet(DOMAIN V)
      BY <2>2, Finite
    <2> HIDE DEF f, S, V
    <2>6. IsFiniteSet(S)
      BY <2>4, <2>5, FS_Surjection
    <2> QED BY <2>3, <2>6
  <1>4. IsFiniteSet(UNION Sets)
    <2>1. \A t \in Sets : IsFiniteSet(t)
      BY <1>3
    <2> HIDE DEF Sets
    <2> QED BY <1>2, <2>1, FS_UNION
  <1>5. Targets = UNION Sets
    <2> DEFINE G(e) == {executables[e].variants[v].target : v \in DOMAIN executables[e].variants}
    <2>1. Range(Sources) = {Sources[k] : k \in 1 .. L}
      BY <1>1 DEF Range
    <2>2. Targets = UNION {G(e) : e \in {Sources[k] : k \in 1 .. L}}
      BY <2>1 DEF Targets
    <2>3. \A k \in 1 .. L : T[k] = G(Sources[k])
      OBVIOUS
    <2> HIDE DEF G, T
    <2>4. Sets = {G(e) : e \in {Sources[k] : k \in 1 .. L}}
      BY <2>3
    <2> QED BY <2>2, <2>4
  <1> QED BY <1>4, <1>5

(* The linked executable: for every target, all exports in their order.    *)
LEMMA LinkedIs ==
  ASSUME ExecutablesInv
  PROVE  /\ IsExecutable(Linked)
         /\ \A t \in Targets : \E v \in DOMAIN Linked.variants : Linked.variants[v].target = t
         /\ \A v \in DOMAIN Linked.variants :
              Linked.variants[v].exports = MovedExports(Len(Sources), Linked.variants[v].target)
  <1> DEFINE n == Cardinality(Targets)
             q == SetToSeq(Targets)
             V == [v \in 1 .. n |-> [target |-> q[v], exports |-> MovedExports(Len(Sources), q[v])]]
  <1>1. n \in Nat /\ \A t \in Targets : \E v \in 1 .. n : q[v] = t
    BY TargetsAreFinite, SetToSeqIs
  <1>2. Linked = [lazy |-> FALSE, variants |-> V]
    BY DEF Linked
  <1>3. \A v \in 1 .. n : IsList(MovedExports(Len(Sources), q[v]))
    <2> SUFFICES ASSUME NEW v \in 1 .. n PROVE IsList(MovedExports(Len(Sources), q[v]))
      OBVIOUS
    <2>1. PICK m : /\ IsJoined(m, Len(Sources), Pieces(q[v]))
                   /\ \A k \in 0 .. Len(Sources) : MovedExports(k, q[v]) = m[k]
      BY MovedIs
    <2>2. Len(Sources) \in Nat
      BY SourcesAre DEF IsEnumeration
    <2>3. IsList(m[Len(Sources)]) /\ Len(Sources) \in 0 .. Len(Sources)
      BY <2>1, <2>2, PiecesAre, JoinedIs
    <2> QED BY <2>1, <2>3
  <1> HIDE DEF n, q
  <1>4. /\ DOMAIN V = 1 .. n /\ V = [v \in DOMAIN V |-> V[v]]
        /\ \A v \in 1 .. n : /\ V[v].target = q[v]
                             /\ V[v].exports = MovedExports(Len(Sources), q[v])
                             /\ V[v] = [target |-> V[v].target, exports |-> V[v].exports]
    OBVIOUS
  <1>5. IsList(V)
    BY <1>1, <1>4, ListOf
  <1> HIDE DEF V
  <1>6. Linked.lazy = FALSE /\ Linked.variants = V
    BY <1>2
  <1>7. IsExecutable(Linked)
    BY <1>2, <1>3, <1>4, <1>5, <1>6 DEF IsExecutable
  <1> QED BY <1>1, <1>4, <1>6, <1>7


(* The executables after linking: the linked one, and the lazy ones.       *)
IsLinked(new) ==
  /\ IsList(new) /\ Len(new) = 1 + Len(Lazy) /\ new[1] = Linked
  /\ \A k \in 1 .. Len(Lazy) : new[1 + k] = executables[Lazy[k]]

LEMMA NewExecutables ==
  ASSUME ExecutablesInv
  PROVE  IsLinked(<<Linked>> \o [k \in DOMAIN Lazy |-> executables[Lazy[k]]])
  <1> DEFINE t == [k \in DOMAIN Lazy |-> executables[Lazy[k]]]
             s == <<Linked>>
  <1>1. Len(Lazy) \in Nat /\ DOMAIN Lazy = 1 .. Len(Lazy)
    BY SourcesAre DEF IsEnumeration
  <1>2. IsList(t) /\ Len(t) = Len(Lazy) /\ \A k \in 1 .. Len(Lazy) : t[k] = executables[Lazy[k]]
    BY <1>1, ListOf
  <1>3. IsList(s) /\ Len(s) = 1 /\ s[1] = Linked
    <2>1. DOMAIN s = 1 .. 1 /\ s = [i \in DOMAIN s |-> s[i]] /\ s[1] = Linked
      OBVIOUS
    <2>2. 1 \in Nat
      OBVIOUS
    <2> HIDE DEF s
    <2> QED BY <2>1, <2>2, ListOf
  <1> HIDE DEF s, t
  <1>4. IsBehind(s \o t, s, t)
    BY <1>2, <1>3, Behind
  <1>5. /\ IsList(s \o t) /\ Len(s \o t) = 1 + Len(Lazy) /\ (s \o t)[1] = Linked
        /\ \A k \in 1 .. Len(Lazy) : (s \o t)[1 + k] = executables[Lazy[k]]
    BY <1>2, <1>3, <1>4 DEF IsBehind
  <1> QED BY <1>5 DEF IsLinked, s, t

(* A call that is not lazy reaches its export behind those of the          *)
(* executables that were moved before its own.                             *)
LEMMA MovedCallReaches ==
  ASSUME ExecutablesInv, NEW call, IsCall(call), ~executables[call.executable].lazy
  PROVE  /\ call.ordinal + Len(MovedExports(Before(call.executable), call.target)) \in Nat
         /\ \A x : Reaches(executables[call.executable], call.target, call.ordinal, x) =>
              Reaches(Linked, call.target,
                      call.ordinal + Len(MovedExports(Before(call.executable), call.target)), x)
  <1> DEFINE e == call.executable
             target == call.target
             L == Len(Sources)
             P == Pieces(target)
             o == call.ordinal
  <1>1. e \in DOMAIN executables /\ o \in Nat
    BY DEF IsCall
  <1>2. L \in Nat /\ \E k \in 1 .. L : Sources[k] = e
    BY <1>1, SourcesAre DEF IsEnumeration, IsMoved
  <1> DEFINE n == Before(e)
  <1>3. n \in 0 .. L - 1 /\ Sources[n + 1] = e
    <2>1. \E k \in 0 .. L - 1 : Sources[k + 1] = e
      <3>1. PICK k \in 1 .. L : Sources[k] = e
        BY <1>2
      <3>2. k - 1 \in 0 .. L - 1 /\ k - 1 + 1 = k
        BY <1>2
      <3> QED BY <3>1, <3>2
    <2> QED BY <2>1 DEF Before
  <1> HIDE DEF n
  <1>4. PICK m : IsJoined(m, L, P) /\ \A j \in 0 .. L : MovedExports(j, target) = m[j]
    BY MovedIs
  <1>5. /\ \A j \in 1 .. L : IsList(P[j])
        /\ n + 1 \in 1 .. L /\ n + 1 - 1 = n /\ n \in 0 .. L /\ L \in 0 .. L
        /\ P[n + 1] = ExportsFor(e, target)
    BY <1>2, <1>3, PiecesAre
  <1> HIDE DEF P, L
  <1>6. StaysBehind(m[L], m[n], P[n + 1])
    <2>1. IsJoined(m, L, P) /\ L \in Nat /\ \A k \in 1 .. L : IsList(P[k])
      BY <1>2, <1>4, <1>5
    <2>2. ASSUME NEW k \in 1 .. L PROVE StaysBehind(m[L], m[k - 1], P[k])
      BY <2>1, JoinedStays
    <2>3. PICK k \in 1 .. L : k = n + 1 /\ k - 1 = n
      BY <1>5
    <2>4. StaysBehind(m[L], m[k - 1], P[k])
      BY <2>2
    <2> QED BY <2>3, <2>4
  <1>7. MovedExports(n, target) = m[n] /\ MovedExports(L, target) = m[L]
    BY <1>4, <1>5
  <1> DEFINE new == o + Len(m[n])
  <1>8. new \in Nat
    BY <1>1, <1>6 DEF StaysBehind
  <1>9. ASSUME NEW x, Reaches(executables[e], target, o, x)
        PROVE  Reaches(Linked, target, new, x)
    <2>1. o + 1 \in DOMAIN ExportsFor(e, target) /\ ExportsFor(e, target)[o + 1] = x
      BY <1>1, <1>9, ExportsForIs
    <2>2. o + 1 \in 1 .. Len(P[n + 1]) /\ P[n + 1][o + 1] = x
      BY <1>1, <1>5, <2>1, ExportsForIs, ListIs
    <2>3. new + 1 = Len(m[n]) + (o + 1)
      <3>1. \A a, b \in Nat : a + b + 1 = b + (a + 1)
        OBVIOUS
      <3> QED BY <1>1, <1>6, <3>1 DEF StaysBehind
    <2>4. new + 1 \in DOMAIN m[L] /\ m[L][new + 1] = x
      BY <1>6, <2>2, <2>3, ListIs DEF StaysBehind
    <2>5. target \in Targets
      <3>1. PICK v \in DOMAIN executables[e].variants : executables[e].variants[v].target = target
        BY <1>9 DEF Reaches
      <3>2. e \in Range(Sources)
        BY <1>2, <1>3, <1>5, SourcesAre DEF IsEnumeration, Range, L
      <3> QED BY <3>1, <3>2 DEF Targets
    <2>6. \E v \in DOMAIN Linked.variants : Linked.variants[v].target = target
      BY <2>5, LinkedIs
    <2>7. \A v \in DOMAIN Linked.variants :
            Linked.variants[v].target = target => Linked.variants[v].exports = m[L]
      BY <1>7, LinkedIs DEF L
    <2> HIDE DEF new
    <2> QED BY <2>4, <2>6, <2>7 DEF Reaches
  <1> QED BY <1>7, <1>8, <1>9 DEF n


Call(op, e, target, ordinal, tensors, workload) ==
  [op |-> op, executable |-> e, target |-> target, ordinal |-> ordinal,
   tensors |-> tensors, workload |-> workload]

WithExecutable(call, e) == [call EXCEPT !.executable = e]
WithOrdinal(call, o) == [call EXCEPT !.ordinal = o]

LEMMA CallExcept ==
  ASSUME NEW call, NEW e, NEW o,
         call = Call(call.op, call.executable, call.target, call.ordinal,
                     call.tensors, call.workload)
  PROVE  [call EXCEPT !.executable = e, !.ordinal = o]
           = Call(call.op, e, call.target, o, call.tensors, call.workload)
  <1>1. \A a, b, c, d, f, g : WithExecutable(Call(a, b, c, d, f, g), e) = Call(a, e, c, d, f, g)
    BY DEF Call, WithExecutable
  <1>2. \A a, b, c, d, f, g : WithOrdinal(Call(a, b, c, d, f, g), o) = Call(a, b, c, o, f, g)
    BY DEF Call, WithOrdinal
  <1>3. [call EXCEPT !.executable = e, !.ordinal = o] = WithOrdinal(WithExecutable(call, e), o)
    BY DEF WithExecutable, WithOrdinal
  <1>4. WithExecutable(call, e)
          = Call(call.op, e, call.target, call.ordinal, call.tensors, call.workload)
    BY <1>1
  <1>5. WithOrdinal(WithExecutable(call, e), o)
          = Call(call.op, e, call.target, o, call.tensors, call.workload)
    BY <1>2, <1>4
  <1> QED BY <1>3, <1>5

LEMMA LinkedCall ==
  ASSUME ExecutablesInv, NEW call, IsCall(call)
  PROVE  /\ ~executables[call.executable].lazy =>
              LinkedSite(call) =
                [op |-> call.op, executable |-> 1, target |-> call.target,
                 ordinal |-> call.ordinal
                               + Len(MovedExports(Before(call.executable), call.target)),
                 tensors |-> call.tensors, workload |-> call.workload]
         /\ executables[call.executable].lazy =>
              \E k \in 1 .. Len(Lazy) :
                /\ Lazy[k] = call.executable
                /\ LinkedSite(call) =
                     [op |-> call.op, executable |-> 1 + k, target |-> call.target,
                      ordinal |-> call.ordinal, tensors |-> call.tensors,
                      workload |-> call.workload]
  <1>1. call = [op |-> call.op, executable |-> call.executable, target |-> call.target,
                ordinal |-> call.ordinal, tensors |-> call.tensors, workload |-> call.workload]
    BY DEF IsCall
  <1>2. ASSUME ~executables[call.executable].lazy
        PROVE  LinkedSite(call) =
                 [op |-> call.op, executable |-> 1, target |-> call.target,
                  ordinal |-> call.ordinal
                                + Len(MovedExports(Before(call.executable), call.target)),
                  tensors |-> call.tensors, workload |-> call.workload]
    <2> DEFINE o == call.ordinal + Len(MovedExports(Before(call.executable), call.target))
    <2>1. LinkedSite(call) = [call EXCEPT !.executable = 1, !.ordinal = o]
      BY <1>2 DEF LinkedSite
    <2> HIDE DEF o
    <2>2. [call EXCEPT !.executable = 1, !.ordinal = o]
            = Call(call.op, 1, call.target, o, call.tensors, call.workload)
      BY <1>1, CallExcept DEF Call
    <2> QED BY <2>1, <2>2 DEF o, Call
  <1>3. ASSUME executables[call.executable].lazy
        PROVE  \E k \in 1 .. Len(Lazy) :
                 /\ Lazy[k] = call.executable
                 /\ LinkedSite(call) =
                      [op |-> call.op, executable |-> 1 + k, target |-> call.target,
                       ordinal |-> call.ordinal, tensors |-> call.tensors,
                       workload |-> call.workload]
    <2> DEFINE k == CHOOSE k \in DOMAIN Lazy : Lazy[k] = call.executable
    <2>1. LinkedSite(call) = [call EXCEPT !.executable = 1 + k]
      BY <1>3 DEF LinkedSite
    <2>2. DOMAIN Lazy = 1 .. Len(Lazy) /\ \E l \in DOMAIN Lazy : Lazy[l] = call.executable
      BY <1>3, SourcesAre DEF IsEnumeration, StaysLazy, IsCall
    <2>3. k \in 1 .. Len(Lazy) /\ Lazy[k] = call.executable
      BY <2>2
    <2> HIDE DEF k
    <2>4. [call EXCEPT !.executable = 1 + k]
            = [op |-> call.op, executable |-> 1 + k, target |-> call.target,
               ordinal |-> call.ordinal, tensors |-> call.tensors, workload |-> call.workload]
      BY <1>1
    <2> QED BY <2>1, <2>3, <2>4
  <1> QED BY <1>2, <1>3

(* A call that was renamed with its export keeps its body.                 *)
LEMMA CallMoves ==
  ASSUME NEW call, IsCall(call), source' = source, NEW e, NEW o \in Nat, e \in DOMAIN executables',
         stage'[e] = "serialize", stage[call.executable] = "link",
         \A x : Reaches(executables[call.executable], call.target, call.ordinal, x) =>
                  Reaches(executables'[e], call.target, o, x)
  PROVE  IsCall([op |-> call.op, executable |-> e, target |-> call.target, ordinal |-> o,
                 tensors |-> call.tensors, workload |-> call.workload])'
  <1> DEFINE new == [op |-> call.op, executable |-> e, target |-> call.target, ordinal |-> o,
                     tensors |-> call.tensors, workload |-> call.workload]
  <1>1. LinalgIds' = LinalgIds /\ \A c : SourceOp(c)' = SourceOp(c) /\ DefsOf(c)' = DefsOf(c)
    BY OfSource
  <1>2. PICK b : /\ IsBodyOf(b, call.op, call.tensors, call.workload,
                             SourceOp(call.op), DefsOf(call.op))
                 /\ CallReaches(call, b)
    BY DEF IsCall
  <1>3. /\ Passed(b, "link")
        /\ Reaches(executables[call.executable], call.target, call.ordinal, At(b, "link"))
    BY <1>2 DEF CallReaches
  <1>4. Passed(b, "serialize") /\ At(b, "serialize") = At(b, "link")
    BY <1>3 DEF Passed, At
  <1>5. Reaches(executables'[e], call.target, o, At(b, "serialize"))
    BY <1>3, <1>4
  <1>6. /\ new.op = call.op /\ new.executable = e /\ new.target = call.target /\ new.ordinal = o
        /\ new.tensors = call.tensors /\ new.workload = call.workload
        /\ new = [op |-> new.op, executable |-> new.executable, target |-> new.target,
                  ordinal |-> new.ordinal, tensors |-> new.tensors, workload |-> new.workload]
    OBVIOUS
  <1> HIDE DEF new
  <1>7. CallReaches(new, b)'
    BY <1>4, <1>5, <1>6 DEF CallReaches
  <1>8. IsBodyOf(b, new.op, new.tensors, new.workload, SourceOp(new.op)', DefsOf(new.op)')
    BY <1>1, <1>2, <1>6
  <1>9. new.op \in LinalgIds' /\ new.executable \in DOMAIN executables' /\ new.ordinal \in Nat
    BY <1>1, <1>6 DEF IsCall
  <1>10. IsCall(new)'
    BY <1>6, <1>7, <1>8, <1>9 DEF IsCall
  <1> QED BY <1>10 DEF new

LEMMA LinkKeeps ==
  ASSUME ExecutablesInv, CallsInv, phase = "translate", UNCHANGED <<source, phase>>,
         LinkExecutables
  PROVE  ExecutablesInv' /\ CallsInv'
  <1>1. /\ stage' = [e \in DOMAIN executables' |-> "serialize"] /\ binary' = binary
        /\ \A e \in DOMAIN executables : stage[e] = "link"
    BY DEF LinkExecutables, Translated, ExecutablesInv
  <1>2. stage' \in [DOMAIN executables' -> Stages]
    BY <1>1 DEF Stages
  <1>3. DOMAIN binary' = {}
    BY <1>1 DEF ExecutablesInv
  <1>4. CASE Len(Sources) <= 1
    <2>1. UNCHANGED <<executables, sites>>
      BY <1>4 DEF LinkExecutables
    <2>2. ExecutablesInv'
      BY <1>2, <1>3, <2>1 DEF ExecutablesInv
    <2>3. ASSUME NEW call, IsCall(call) PROVE IsCall(call)'
      <3>1. call.executable \in DOMAIN executables
        BY <2>3 DEF IsCall
      <3>2. stage[call.executable] = "link" /\ stage'[call.executable] = "serialize"
        BY <1>1, <2>1, <3>1
      <3>3. ASSUME NEW b, CallReaches(call, b) PROVE CallReaches(call, b)'
        <4>1. Passed(b, "serialize") /\ At(b, "serialize") = At(b, "link")
          BY <3>2, <3>3 DEF CallReaches, Passed, At
        <4> QED BY <2>1, <3>2, <3>3, <4>1 DEF CallReaches
      <3> QED BY <2>1, <2>3, <3>1, <3>3, CallStays
    <2>4. CallsInv'
      BY <2>1, <2>3 DEF CallsInv
    <2> QED BY <2>2, <2>4
  <1>5. CASE ~(Len(Sources) <= 1)
    <2>1. /\ executables' = <<Linked>> \o [k \in DOMAIN Lazy |-> executables[Lazy[k]]]
          /\ sites' = [s \in DOMAIN sites |-> LinkedSite(sites[s])]
      BY <1>5 DEF LinkExecutables
    <2>2. IsLinked(executables')
      BY <2>1, NewExecutables
    <2>3. /\ IsList(executables') /\ DOMAIN executables' = 1 .. 1 + Len(Lazy)
          /\ executables'[1] = Linked
          /\ \A k \in 1 .. Len(Lazy) : executables'[1 + k] = executables[Lazy[k]]
      BY <2>2, ListIs DEF IsLinked
    <2>4. Len(Lazy) \in Nat /\ \A k \in 1 .. Len(Lazy) : Lazy[k] \in DOMAIN executables
      BY SourcesAre DEF IsEnumeration, StaysLazy
    <2>5. ASSUME NEW e \in DOMAIN executables' PROVE IsExecutable(executables'[e])
      <3>1. CASE e = 1
        BY <2>3, <3>1, LinkedIs
      <3>2. CASE e # 1
        <4>1. PICK k \in 1 .. Len(Lazy) : e = 1 + k
          <5>1. e \in 1 .. 1 + Len(Lazy)
            BY <2>3
          <5>2. e - 1 \in 1 .. Len(Lazy) /\ e = 1 + (e - 1)
            BY <2>4, <3>2, <5>1
          <5> QED BY <5>2
        <4> QED BY <2>3, <2>4, <4>1 DEF ExecutablesInv
      <3> QED BY <3>1, <3>2
    <2>6. ExecutablesInv'
      BY <1>2, <1>3, <2>3, <2>5 DEF ExecutablesInv
    <2>7. ASSUME NEW call, IsCall(call), NEW new, new = LinkedSite(call) PROVE IsCall(new)'
      <3>1. stage[call.executable] = "link"
        BY <1>1, <2>7 DEF IsCall
      <3>2. CASE executables[call.executable].lazy
        <4>1. PICK k \in 1 .. Len(Lazy) :
                /\ Lazy[k] = call.executable
                /\ LinkedSite(call) =
                     [op |-> call.op, executable |-> 1 + k, target |-> call.target,
                      ordinal |-> call.ordinal, tensors |-> call.tensors,
                      workload |-> call.workload]
          BY <2>7, <3>2, LinkedCall
        <4>2. PICK e : e = 1 + k
          OBVIOUS
        <4>3. PICK o : o = call.ordinal
          OBVIOUS
        <4>4. /\ e \in DOMAIN executables' /\ stage'[e] = "serialize"
              /\ executables'[e] = executables[call.executable]
          BY <1>1, <2>3, <2>4, <4>1, <4>2
        <4>5. o \in Nat /\ \A x : Reaches(executables[call.executable], call.target, call.ordinal, x)
                                  => Reaches(executables'[e], call.target, o, x)
          BY <2>7, <4>3, <4>4 DEF IsCall
        <4>6. IsCall([op |-> call.op, executable |-> e, target |-> call.target, ordinal |-> o,
                      tensors |-> call.tensors, workload |-> call.workload])'
          BY <2>7, <3>1, <4>4, <4>5, CallMoves
        <4> QED BY <2>7, <4>1, <4>2, <4>3, <4>6
      <3>3. CASE ~executables[call.executable].lazy
        <4>1. PICK o : o = call.ordinal + Len(MovedExports(Before(call.executable), call.target))
          OBVIOUS
        <4>2. new = [op |-> call.op, executable |-> 1, target |-> call.target, ordinal |-> o,
                     tensors |-> call.tensors, workload |-> call.workload]
          BY <2>7, <3>3, <4>1, LinkedCall
        <4>3. 1 \in DOMAIN executables' /\ stage'[1] = "serialize" /\ executables'[1] = Linked
          BY <1>1, <2>3, <2>4
        <4>4. /\ o \in Nat
              /\ \A x : Reaches(executables[call.executable], call.target, call.ordinal, x) =>
                          Reaches(executables'[1], call.target, o, x)
          BY <2>7, <3>3, <4>1, <4>3, MovedCallReaches
        <4>5. IsCall([op |-> call.op, executable |-> 1, target |-> call.target, ordinal |-> o,
                      tensors |-> call.tensors, workload |-> call.workload])'
          BY <2>7, <3>1, <4>3, <4>4, CallMoves
        <4> QED BY <4>2, <4>5
      <3> QED BY <3>2, <3>3
    <2>8. ASSUME NEW s \in DOMAIN sites' PROVE IsCall(sites[s])'
      <3>1. s \in DOMAIN sites /\ sites'[s] = LinkedSite(sites[s])
        BY <2>1
      <3>2. IsCall(sites[s])
        BY <3>1 DEF CallsInv
      <3> QED BY <2>7, <3>1, <3>2
    <2>9. CallsInv'
      BY <2>8 DEF CallsInv
    <2> QED BY <2>6, <2>9
  <1> QED BY <1>4, <1>5


-----------------------------------------------------------------------------
(* Dispatch formation.  What is known of an operation that was placed, a   *)
(* node of the block, with m inputs: it is what it was in the source and   *)
(* reads what it read, and of its inputs the splats alone are immediates.  *)
IsInput(node, k, wanted, def) ==
  /\ wanted \in Seq(Nat) /\ Origin[node.args[k]] = wanted
  /\ k \in Splats(node) <=> def.kind = "splat"
  /\ k \in Splats(node) => SourceOf(node, k).value = def.value

IsPlacedOp(node, c, m) ==
  /\ m \in Nat /\ c \in LinalgIds /\ node.id = c /\ node.op = SourceOp(c).op
  /\ DOMAIN Inputs(node) = 1 .. m /\ DOMAIN DefsOf(c) = 1 .. m
  /\ IsLinalgOp(node.op, m)
  /\ Splats(node) \subseteq 1 .. m /\ Splats(node) # 1 .. m
  /\ \A k \in 1 .. m : IsInput(node, k, SourceOp(c).args[k], DefsOf(c)[k])
  /\ \E init : KernelOf(node.op, DefsOf(c), init) # NoKernel

LEMMA InputIs ==
  ASSUME IInv, OpsInv, NEW p \in LinalgOps(block), block[p].id \in Wrapped,
         NEW k \in DOMAIN Inputs(block[p])
  PROVE  /\ IsInput(block[p], k, Operand(block[p].id, k), SourceOp(Operand(block[p].id, k)))
         /\ SourceOf(block[p], k).kind = "transfer" => k \notin Splats(block[p])
  <1> DEFINE c == block[p].id
             a == Operand(c, k)
             x == block[p].args[k]
  <1>1. /\ c \in LinalgIds /\ a \in SourceIds
        /\ x = IF k \in Moved(c) THEN TransferId(c, k) ELSE Use(a)
        /\ k \notin Moved(c) <=> SourceOp(a).kind = "splat"
    BY LinalgNodeIs
  <1>2. IsFunction(source) /\ SourceId(a)
    BY <1>1, SourceIdIs DEF IInv, MachineInv
  <1>3. SourceOf(block[p], k) = NodeOf(x)
    BY DEF SourceOf, NodeOf
  <1>4. Origin[Use(a)] = a
    <2>1. /\ a \in Values /\ Use(a) \in Values /\ NodeOf(a).kind # "transfer"
          /\ Use(a) = a \/ (NodeOf(Use(a)).kind = "transfer" /\ Comes(Use(a)) = a)
      BY <1>1, UseComes
    <2>2. Origin[a] = a
      BY <2>1, OriginIs
    <2> QED BY <2>1, <2>2, OriginIs
  <1>5. CASE k \in Moved(c)
    <2>1. /\ x = TransferId(c, k) /\ x \in Values /\ NodeOf(x).kind = "transfer"
          /\ NodeOf(x).args = <<Use(a)>>
      BY <1>1, <1>5, InIs DEF IsIn
    <2>2. Comes(x) = Use(a)
      BY <2>1 DEF Comes
    <2>3. Origin[x] = a
      BY <1>4, <2>1, <2>2, OriginIs
    <2>4. k \notin Splats(block[p])
      BY <1>3, <2>1 DEF Splats
    <2> QED BY <1>1, <1>2, <1>5, <2>3, <2>4 DEF IsInput, SourceId
  <1>6. CASE k \notin Moved(c)
    <2>1. x = Use(a) /\ SourceOp(a).kind = "splat"
      BY <1>1, <1>6
    <2>2. /\ NodeOf(x).kind = "splat" /\ Defining(block, x) \in DOMAIN block /\ NodeOf(x).id = x
      BY <1>1, <2>1, UseKind DEF NodeOf
    <2>3. x = a
      BY <1>1, <2>1, <2>2, UseComes
    <2>4. NodeOf(x).value = SourceOp(a).value
      <3>1. Keeps(NodeOf(x))
        BY <2>2 DEF OpsInv, NodeOf
      <3> QED BY <1>1, <2>2, <2>3, <3>1 DEF Keeps
    <2>5. k \in Splats(block[p])
      BY <1>3, <2>2 DEF Splats
    <2> QED BY <1>2, <1>3, <1>4, <2>1, <2>2, <2>4, <2>5 DEF IsInput, SourceId
  <1> QED BY <1>5, <1>6

LEMMA PlacedOpIs ==
  ASSUME IInv, OpsInv, NEW p \in PlacedOps
  PROVE  \E m : IsPlacedOp(block[p], block[p].id, m)
  <1> DEFINE node == block[p]
             c == node.id
             m == Len(SourceOp(c).args) - 1
  <1>1. p \in LinalgOps(block) /\ Placed(node) /\ c \in Wrapped /\ HasKernel(c)
    BY PlacedIsWrapped DEF PlacedOps, OpsInv
  <1>2. /\ c \in LinalgIds /\ c \in SourceIds /\ DOMAIN Inputs(node) = 1 .. m
        /\ DOMAIN Inputs(SourceOp(c)) = 1 .. m
    BY <1>1, LinalgNodeIs
  <1>3. m \in Nat
    BY <1>2, LinalgIs DEF IInv, MachineInv
  <1>4. DOMAIN DefsOf(c) = 1 .. m
    BY <1>2 DEF DefsOf
  <1>5. node.op = SourceOp(c).op
    BY <1>1, <1>2 DEF OpsInv, Keeps, LinalgOps
  <1>6. IsLinalgOp(SourceOp(c).op, m)
    <2>1. PICK program \in Programs : source = program.block
      BY DEF OpsInv
    <2>2. IsFunction(source) /\ SourceOp(c).kind = "linalg"
      BY <1>2, LinalgIs DEF IInv, MachineInv
    <2>3. Place(c) \in DOMAIN source /\ source[Place(c)] = SourceOp(c)
      BY <1>2, <2>2, SourceIdIs
    <2> QED BY <2>1, <2>2, <2>3, CompilerAssumption
  <1>7. \A k \in 1 .. m : IsInput(node, k, SourceOp(c).args[k], DefsOf(c)[k])
    <2> SUFFICES ASSUME NEW k \in 1 .. m
                 PROVE  IsInput(node, k, SourceOp(c).args[k], DefsOf(c)[k])
      OBVIOUS
    <2>1. IsInput(node, k, Operand(c, k), SourceOp(Operand(c, k)))
      BY <1>1, <1>2, InputIs
    <2>2. DefsOf(c)[k] = SourceOp(Operand(c, k)) /\ SourceOp(c).args[k] = Operand(c, k)
      BY <1>2 DEF DefsOf, SourceOp, Operand
    <2> QED BY <2>1, <2>2
  <1>8. Splats(node) \subseteq 1 .. m /\ Splats(node) # 1 .. m
    <2>1. Splats(node) \subseteq 1 .. m
      BY <1>2 DEF Splats
    <2>2. PICK k \in DOMAIN Inputs(node) : block[Defining(block, node.args[k])].kind = "transfer"
      BY <1>1 DEF Placed
    <2>3. k \in 1 .. m /\ k \notin Splats(node)
      BY <1>1, <1>2, <2>2, InputIs DEF SourceOf
    <2> QED BY <2>1, <2>3
  <1>9. \E init : KernelOf(node.op, DefsOf(c), init) # NoKernel
    BY <1>1, <1>5 DEF HasKernel, KernelIn, DefsOf
  <1> HIDE DEF m
  <1>10. IsPlacedOp(node, c, m)
    BY <1>2, <1>3, <1>4, <1>5, <1>6, <1>7, <1>8, <1>9 DEF IsPlacedOp
  <1> QED BY <1>10


(* The tensors of a dispatch: one for each that is read.                   *)
Reads(node) == DOMAIN Inputs(node) \ Splats(node)

HasTensors(node) ==
  /\ Tensors(node) \in Seq(Seq(Nat))
  /\ \A k \in Reads(node) :
       \E b \in DOMAIN Tensors(node) : Tensors(node)[b] = Origin[node.args[k]]

LEMMA TensorsAre ==
  ASSUME NEW node, NEW c, NEW m, IsPlacedOp(node, c, m)
  PROVE  HasTensors(node)
  <1> DEFINE F == FirstReads(node)
             n == Cardinality(F)
             s == InOrder(F)
             T == Tensors(node)
  <1>1. m \in Nat /\ Reads(node) \subseteq 1 .. m
    BY DEF IsPlacedOp, Reads
  <1>2. F \in SUBSET (1 .. m)
    BY <1>1 DEF FirstReads, Reads
  <1>3. n \in Nat /\ s \in [1 .. n -> F] /\ \A i \in F : \E k \in 1 .. n : s[k] = i
    <2> HIDE DEF F
    <2> QED BY <1>1, <1>2, InOrderIs
  <1>4. \A k \in 1 .. m : Origin[node.args[k]] \in Seq(Nat)
    BY DEF IsPlacedOp, IsInput
  <1>5. T = [b \in 1 .. n |-> Origin[node.args[s[b]]]]
    BY <1>3 DEF Tensors
  <1> HIDE DEF F, n, s
  <1>6. T \in [1 .. n -> Seq(Nat)]
    BY <1>2, <1>3, <1>4, <1>5
  <1> HIDE DEF T
  <1>7. T \in Seq(Seq(Nat)) /\ DOMAIN T = 1 .. n
    BY <1>3, <1>6, FunctionIsSeq
  <1>8. ASSUME NEW k \in Reads(node)
        PROVE  \E b \in DOMAIN T : T[b] = Origin[node.args[k]]
    <2> DEFINE Same == {j \in Reads(node) : Origin[node.args[j]] = Origin[node.args[k]]}
    <2>1. Same \in SUBSET Nat /\ Same # {}
      BY <1>1, <1>8
    <2>2. PICK i \in Same : \A j \in Same : ~(j < i)
      <3> HIDE DEF Same
      <3> QED BY <2>1, LeastFails
    <2>3. i \in F
      BY <2>2 DEF F, FirstReads, Reads
    <2>4. PICK b \in 1 .. n : s[b] = i
      BY <1>3, <2>3
    <2>5. T[b] = Origin[node.args[k]]
      BY <1>5, <2>2, <2>4
    <2> QED BY <1>7, <2>5
  <1> QED BY <1>7, <1>8 DEF HasTensors, T

(* A generic operation, and one whose splats were folded into it.          *)
GenericOp(op) ==
  op = [kind |-> "generic", body |-> op.body, uses |-> op.uses, const |-> op.const,
        maps |-> op.maps, out |-> op.out, i32 |-> op.i32, parallel |-> op.parallel,
        static |-> op.static, rows |-> op.rows, cols |-> op.cols]

WithMaps(op, maps) == [op EXCEPT !.maps = maps]
WithUses(op, uses) == [op EXCEPT !.uses = uses]
WithConst(op, const) == [op EXCEPT !.const = const]

Refold(op, maps, uses, const) == [op EXCEPT !.maps = maps, !.uses = uses, !.const = const]

Refolded(new, op, maps, uses, const) ==
  /\ Generic(new) /\ new.body = op.body /\ new.uses = uses /\ new.const = const
  /\ new.maps = maps /\ new.out = op.out /\ new.i32 = op.i32 /\ new.parallel = op.parallel
  /\ new.static = op.static /\ new.rows = op.rows /\ new.cols = op.cols

LEMMA FoldedFields ==
  ASSUME NEW op, GenericOp(op), NEW maps, NEW uses, NEW const
  PROVE  Refolded(Refold(op, maps, uses, const), op, maps, uses, const)
  <1> DEFINE op1 == WithMaps(op, maps)
             op2 == WithUses(op1, uses)
             op3 == WithConst(op2, const)
  <1>1. Refold(op, maps, uses, const) = op3
    BY DEF Refold, WithMaps, WithUses, WithConst
  <1>2. GenericOp(op1) /\ Refolded(op1, op, maps, op.uses, op.const)
    BY DEF GenericOp, WithMaps, Refolded, Generic
  <1> HIDE DEF op1
  <1>3. GenericOp(op2) /\ Refolded(op2, op1, op1.maps, uses, op1.const)
    BY <1>2 DEF GenericOp, WithUses, Refolded, Generic
  <1> HIDE DEF op2
  <1>4. Refolded(op3, op2, op2.maps, op2.uses, const)
    BY <1>3 DEF GenericOp, WithConst, Refolded, Generic
  <1> HIDE DEF op3
  <1>5. Refolded(op3, op, maps, uses, const)
    BY <1>2, <1>3, <1>4 DEF Refolded
  <1> QED BY <1>1, <1>5


(* A kernel for what the matchers take, and for nothing else.              *)
LEMMA KernelIs ==
  ASSUME NEW op, NEW def, NEW init
  PROVE  /\ IsStrelaLinalgAdd(op) => KernelOf(op, def, init) = "add"
         /\ IsStrelaLinalgRelu(op, def) => KernelOf(op, def, init) = "relu"
         /\ IsStrelaLinalgMatvec(op, init) => KernelOf(op, def, init) = "matvec"
         /\ ~IsStrelaLinalgAdd(op) /\ ~IsStrelaLinalgRelu(op, def)
              /\ ~IsStrelaLinalgMatvec(op, init) => KernelOf(op, def, init) = NoKernel
  <1>1. IsStrelaLinalgAdd(op) => Generic(op) /\ op.body = "addi"
    BY DEF IsStrelaLinalgAdd, Elementwise
  <1>2. IsStrelaLinalgRelu(op, def) => Generic(op) /\ op.body = "maxsi"
    BY DEF IsStrelaLinalgRelu, Elementwise
  <1>3. IsStrelaLinalgMatvec(op, init) => ~Generic(op)
    BY DEF IsStrelaLinalgMatvec, Matmul, Generic
  <1> QED BY <1>1, <1>2, <1>3 DEF KernelOf, NoKernel

(* The statement of an operation, its loads and what defines its inputs.   *)
DefsIn(node) == Statement(node).defs
LoadsIn(node) == Statement(node).loads
InitIn(node) == Statement(node).init
WorkloadIn(node) == IF Matmul(node.op) /\ ~node.op.rowsStatic THEN 1 ELSE 0

LEMMA BodyFields ==
  ASSUME NEW node
  PROVE  /\ Body(node) = Dispatch(Stmt(Folded(node), DefsIn(node), InitIn(node), LoadsIn(node),
                                       Len(Tensors(node)) + 1, NoKernel),
                                  WorkloadIn(node), NoGrid)
         /\ Body(node).workload = WorkloadIn(node)
  <1> DEFINE s == Statement(node)
  <1>1. s = Stmt(Folded(node), s.defs, s.init, s.loads, Len(Tensors(node)) + 1, NoKernel)
    BY DEF Statement, Stmt
  <1> HIDE DEF s
  <1>2. Body(node) = Dispatch(s, WorkloadIn(node), NoGrid)
    BY DEF Body, Dispatch, WorkloadIn, s
  <1>3. Body(node).workload = WorkloadIn(node)
    BY <1>2, DispatchFields
  <1> QED BY <1>1, <1>2, <1>3 DEF s, DefsIn, LoadsIn, InitIn

(* The loads are of the bindings of what is read.                          *)
LoadOf(node, i) ==
  IF i \in Splats(node) THEN NoBinding
  ELSE CHOOSE b \in DOMAIN Tensors(node) : Tensors(node)[b] = Origin[node.args[i]]

LEMMA LoadsAre ==
  ASSUME NEW node
  PROVE  LoadsIn(node) = [k \in DOMAIN KeptInputs(node) |-> LoadOf(node, KeptInputs(node)[k])]
  BY DEF LoadsIn, Statement, LoadOf

LEMMA LoadIs ==
  ASSUME NEW node, NEW c, NEW m, IsPlacedOp(node, c, m), NEW i \in 1 .. m, i \notin Splats(node)
  PROVE  /\ LoadOf(node, i) \in DOMAIN Tensors(node)
         /\ Tensors(node)[LoadOf(node, i)] = SourceOp(c).args[i]
  <1>1. i \in Reads(node) /\ Origin[node.args[i]] = SourceOp(c).args[i]
    BY DEF Reads, IsPlacedOp, IsInput
  <1>2. \E b \in DOMAIN Tensors(node) : Tensors(node)[b] = Origin[node.args[i]]
    BY <1>1, TensorsAre DEF HasTensors
  <1>3. LoadOf(node, i)
          = CHOOSE b \in DOMAIN Tensors(node) : Tensors(node)[b] = Origin[node.args[i]]
    BY DEF LoadOf
  <1>4. /\ LoadOf(node, i) \in DOMAIN Tensors(node)
        /\ Tensors(node)[LoadOf(node, i)] = Origin[node.args[i]]
    BY <1>2, <1>3
  <1> QED BY <1>1, <1>4

(* How many indexing maps an operation has.                                *)
LEMMA MapsAre ==
  ASSUME NEW op, NEW m \in Nat, IsLinalgOp(op, m), Generic(op)
  PROVE  GenericOp(op) /\ Len(op.maps) = m /\ op.maps \in [1 .. m -> Maps]
  <1>1. op.maps \in [1 .. m -> Maps] /\ GenericOp(op)
    BY DEF IsLinalgOp, GenericOp
  <1> QED BY <1>1, FunctionIsSeq


IsWorkload(node, workload) == WorkloadIn(node) = 1 => \E r \in Nat : workload = <<r>>

LEMMA ProductBody ==
  ASSUME NEW node, NEW c, NEW m, IsPlacedOp(node, c, m), Matmul(node.op),
         NEW workload, IsWorkload(node, workload)
  PROVE  IsProduct(Folded(node), WorkloadIn(node), workload, SourceOp(c))
  <1>1. node.op = SourceOp(c).op
    BY DEF IsPlacedOp
  <1>2. ~Generic(node.op)
    BY DEF Matmul, Generic
  <1>3. Folded(node) = node.op
    BY <1>2 DEF Folded
  <1>4. WorkloadIn(node) = IF node.op.rowsStatic THEN 0 ELSE 1
    BY DEF WorkloadIn
  <1>5. ~node.op.rowsStatic => \E r \in Nat : workload = <<r>>
    BY <1>4 DEF IsWorkload
  <1> QED BY <1>1, <1>3, <1>4, <1>5 DEF IsProduct

LEMMA SumBody ==
  ASSUME NEW node, NEW c, NEW m, IsPlacedOp(node, c, m), IsStrelaLinalgAdd(node.op),
         Splats(node) = {}
  PROVE  IsSum(Folded(node), LoadsIn(node), Tensors(node), SourceOp(c), DefsOf(c))
  <1>1. /\ node.op = SourceOp(c).op /\ m \in Nat /\ IsLinalgOp(node.op, m)
        /\ DOMAIN Inputs(node) = 1 .. m
    BY DEF IsPlacedOp
  <1>2. Generic(node.op) /\ Len(node.op.maps) = 2
    BY DEF IsStrelaLinalgAdd, Elementwise
  <1>3. m = 2
    BY <1>1, <1>2, MapsAre
  <1>4. Folded(node) = node.op
    BY DEF Folded
  <1>5. KeptInputs(node) = <<1, 2>>
    <2>1. DOMAIN Inputs(node) \ (IF Generic(node.op) THEN Splats(node) ELSE {}) = {1, 2}
      BY <1>1, <1>3
    <2> QED BY <2>1, InOrderTwo DEF KeptInputs
  <1> DEFINE l1 == LoadOf(node, 1)
             l2 == LoadOf(node, 2)
             T == Tensors(node)
  <1>6. /\ l1 \in DOMAIN T /\ T[l1] = SourceOp(c).args[1]
        /\ l2 \in DOMAIN T /\ T[l2] = SourceOp(c).args[2]
    <2>1. 1 \in 1 .. m /\ 2 \in 1 .. m /\ 1 \notin Splats(node) /\ 2 \notin Splats(node)
      BY <1>3
    <2> QED BY <2>1, LoadIs
  <1>7. LoadsIn(node) = <<l1, l2>>
    <2> DEFINE q == LoadsIn(node)
    <2>1. q = [k \in 1 .. 2 |-> LoadOf(node, <<1, 2>>[k])]
      BY <1>5, LoadsAre
    <2>2. q[1] = l1 /\ q[2] = l2 /\ q \in [1 .. 2 -> {l1, l2}]
      <3>1. \A k \in 1 .. 2 : k = 1 \/ k = 2
        OBVIOUS
      <3> HIDE DEF q
      <3> QED BY <2>1, <3>1
    <2> HIDE DEF q, l1, l2
    <2>3. q \in Seq({l1, l2}) /\ Len(q) = 2
      BY <2>2, FunctionIsSeq
    <2>4. q = <<l1, l2>>
      BY <2>2, <2>3, SeqTwo
    <2> QED BY <2>4 DEF q
  <1>8. DefsOf(c)[1].kind # "splat" /\ DefsOf(c)[2].kind # "splat"
    BY <1>3 DEF IsPlacedOp, IsInput
  <1> HIDE DEF l1, l2, T
  <1>9. \E k1, k2 \in DOMAIN T :
          LoadsIn(node) = <<k1, k2>> /\ T[k1] = SourceOp(c).args[1] /\ T[k2] = SourceOp(c).args[2]
    BY <1>6, <1>7
  <1> QED BY <1>1, <1>4, <1>8, <1>9 DEF IsSum, T

(* The folded operation, if there is something to fold.                    *)
Kept(node) == InOrder(DOMAIN Inputs(node) \ Splats(node))

Renumber(node, u) ==
  IF u \in Splats(node) \/ u = 0 THEN 0
  ELSE CHOOSE k \in DOMAIN Kept(node) : Kept(node)[k] = u

FoldedMaps(node) == [k \in DOMAIN Kept(node) |-> node.op.maps[Kept(node)[k]]]
FoldedUses(node) == [k \in DOMAIN node.op.uses |-> Renumber(node, node.op.uses[k])]
FoldedConst(node) == SourceOf(node, CHOOSE i \in Splats(node) : TRUE).value

LEMMA FoldedIs ==
  ASSUME NEW node, NEW c, NEW m, IsPlacedOp(node, c, m), Generic(node.op), Splats(node) # {}
  PROVE  Refolded(Folded(node), node.op, FoldedMaps(node), FoldedUses(node), FoldedConst(node))
  <1>1. GenericOp(node.op)
    BY MapsAre DEF IsPlacedOp
  <1>2. Folded(node)
          = Refold(node.op, FoldedMaps(node), FoldedUses(node), FoldedConst(node))
    BY DEF Folded, Refold, FoldedMaps, FoldedUses, FoldedConst, Renumber, Kept
  <1> QED BY <1>1, <1>2, FoldedFields


LEMMA InOrderSingle ==
  ASSUME NEW x \in Nat \ {0}
  PROVE  InOrder({x}) = <<x>> /\ DOMAIN InOrder({x}) = {1} /\ InOrder({x})[1] = x
  BY InOrderOne

LEMMA LostSumBody ==
  ASSUME NEW node, NEW c, NEW m, IsPlacedOp(node, c, m), IsStrelaLinalgAdd(node.op),
         Splats(node) # {}
  PROVE  IsLostSum(Folded(node), DefsIn(node), InitIn(node), SourceOp(c), DefsOf(c))
  <1>1. /\ node.op = SourceOp(c).op /\ m \in Nat /\ IsLinalgOp(node.op, m)
        /\ DOMAIN Inputs(node) = 1 .. m /\ DOMAIN DefsOf(c) = 1 .. m
        /\ Splats(node) \subseteq 1 .. m /\ Splats(node) # 1 .. m
    BY DEF IsPlacedOp
  <1>2. Generic(node.op) /\ Len(node.op.maps) = 2 /\ node.op.body = "addi"
    BY DEF IsStrelaLinalgAdd, Elementwise
  <1>3. m = 2
    BY <1>1, <1>2, MapsAre
  <1>4. PICK x \in {1, 2} : DOMAIN Inputs(node) \ Splats(node) = {x}
    <2>1. Splats(node) = {1} \/ Splats(node) = {2}
      BY <1>1, <1>3
    <2>2. DOMAIN Inputs(node) = {1, 2}
      BY <1>1, <1>3
    <2> QED BY <2>1, <2>2
  <1>5. Len(FoldedMaps(node)) = 1
    <2>1. DOMAIN Kept(node) = {1}
      BY <1>4, InOrderSingle DEF Kept
    <2> DEFINE y == node.op.maps[Kept(node)[1]]
    <2>2. FoldedMaps(node) \in [1 .. 1 -> {y}]
      BY <2>1 DEF FoldedMaps
    <2> HIDE DEF y
    <2>3. 1 \in Nat
      OBVIOUS
    <2> QED BY <2>2, <2>3, FunctionIsSeq
  <1>6. Refolded(Folded(node), node.op, FoldedMaps(node), FoldedUses(node), FoldedConst(node))
    BY <1>2, FoldedIs
  <1> DEFINE op == Folded(node)
  <1>7. Generic(op) /\ op.body = "addi" /\ Len(op.maps) = 1
    BY <1>2, <1>5, <1>6 DEF Refolded
  <1> HIDE DEF op
  <1>8. ~IsStrelaLinalgAdd(op) /\ ~IsStrelaLinalgRelu(op, DefsIn(node))
        /\ ~IsStrelaLinalgMatvec(op, InitIn(node))
    BY <1>7 DEF IsStrelaLinalgAdd, IsStrelaLinalgRelu, IsStrelaLinalgMatvec, Elementwise,
                Generic, Matmul
  <1>9. KernelOf(op, DefsIn(node), InitIn(node)) = NoKernel
    BY <1>8, KernelIs
  <1>10. \E i \in DOMAIN DefsOf(c) : DefsOf(c)[i].kind = "splat"
    <2>1. PICK i : i \in Splats(node)
      OBVIOUS
    <2> QED BY <1>1, <2>1 DEF IsPlacedOp, IsInput
  <1> QED BY <1>1, <1>2, <1>9, <1>10 DEF IsLostSum, op

(* A relu of one operand is what it was; of two, the zero is folded.       *)
LEMMA ReluFolds ==
  ASSUME NEW node, NEW c, NEW m, IsPlacedOp(node, c, m), IsStrelaLinalgRelu(node.op, DefsOf(c))
  PROVE  LET op == Folded(node) IN
         /\ IsStrelaLinalgRelu(op, DefsIn(node)) /\ Len(op.maps) = 1
         /\ op.maps[1] = node.op.maps[1] /\ op.out = node.op.out /\ op.rows = node.op.rows
         /\ op.cols = node.op.cols /\ op.static = node.op.static
         /\ KeptInputs(node) = <<1>> /\ 1 \in 1 .. m /\ 1 \notin Splats(node)
         /\ node.op.maps # <<>>
  <1>1. /\ m \in Nat /\ IsLinalgOp(node.op, m)
        /\ DOMAIN Inputs(node) = 1 .. m /\ DOMAIN DefsOf(c) = 1 .. m
        /\ Splats(node) \subseteq 1 .. m /\ Splats(node) # 1 .. m
    BY DEF IsPlacedOp
  <1>2. /\ Generic(node.op) /\ Len(node.op.maps) \in {1, 2} /\ node.op.body = "maxsi"
        /\ node.op.i32 /\ node.op.parallel /\ node.op.uses[1] = 1
    BY DEF IsStrelaLinalgRelu, Elementwise
  <1>3. Len(node.op.maps) = m /\ node.op.maps # <<>>
    <2>1. Len(<<>>) = 0
      BY EmptySeq
    <2>2. Len(node.op.maps) = m
      BY <1>1, <1>2, MapsAre
    <2> DEFINE maps == node.op.maps
    <2>3. Len(maps) \in {1, 2}
      BY <1>2
    <2> HIDE DEF maps
    <2>4. maps # <<>>
      BY <2>1, <2>3
    <2> QED BY <2>2, <2>4 DEF maps
  <1>4. DOMAIN Inputs(node) \ Splats(node) = {1}
        => KeptInputs(node) = <<1>>
    BY <1>2, InOrderSingle DEF KeptInputs
  <1>5. CASE m = 1
    <2>1. Splats(node) = {} /\ DOMAIN Inputs(node) = {1}
      BY <1>1, <1>5
    <2>2. Folded(node) = node.op
      BY <2>1 DEF Folded
    <2>3. node.op.uses[2] = 0 /\ node.op.const = 0
      BY <1>3, <1>5 DEF IsStrelaLinalgRelu
    <2>4. IsStrelaLinalgRelu(node.op, DefsIn(node))
      BY <1>2, <1>3, <1>5, <2>3 DEF IsStrelaLinalgRelu, Elementwise
    <2> QED BY <1>3, <1>4, <1>5, <2>1, <2>2, <2>4
  <1>6. CASE m = 2
    <2>1. node.op.uses[2] = 2 /\ ZeroSplat(DefsOf(c)[2])
      BY <1>3, <1>6 DEF IsStrelaLinalgRelu
    <2>2. 2 \in Splats(node) /\ SourceOf(node, 2).value = 0
      <3>1. 2 \in 1 .. m
        BY <1>6
      <3>2. IsInput(node, 2, SourceOp(c).args[2], DefsOf(c)[2])
        BY <3>1 DEF IsPlacedOp
      <3> QED BY <2>1, <3>2 DEF IsInput, ZeroSplat
    <2>3. Splats(node) = {2} /\ DOMAIN Inputs(node) \ Splats(node) = {1}
      BY <1>1, <1>6, <2>2
    <2>4. Kept(node) = <<1>> /\ DOMAIN Kept(node) = {1} /\ Kept(node)[1] = 1
      BY <2>3, InOrderSingle DEF Kept
    <2>5. Renumber(node, 1) = 1 /\ Renumber(node, 2) = 0
      <3>1. (CHOOSE k \in DOMAIN Kept(node) : Kept(node)[k] = 1) = 1
        BY <2>4
      <3> QED BY <2>3, <3>1 DEF Renumber
    <2>6. FoldedUses(node)[1] = 1 /\ FoldedUses(node)[2] = 0
      <3>1. DOMAIN node.op.uses = 1 .. 2
        BY <1>1, <1>2 DEF IsLinalgOp
      <3>2. 1 \in DOMAIN node.op.uses /\ 2 \in DOMAIN node.op.uses
        BY <3>1
      <3> QED BY <1>2, <2>1, <2>5, <3>2 DEF FoldedUses
    <2>7. FoldedConst(node) = 0
      <3>1. (CHOOSE i \in Splats(node) : TRUE) = 2
        BY <2>3
      <3> QED BY <2>2, <3>1 DEF FoldedConst
    <2>8. Len(FoldedMaps(node)) = 1 /\ FoldedMaps(node)[1] = node.op.maps[1]
      <3> DEFINE y == node.op.maps[1]
      <3>1. FoldedMaps(node) \in [1 .. 1 -> {y}] /\ FoldedMaps(node)[1] = y
        BY <2>4 DEF FoldedMaps
      <3> HIDE DEF y
      <3>2. 1 \in Nat
        OBVIOUS
      <3>3. Len(FoldedMaps(node)) = 1
        BY <3>1, <3>2, FunctionIsSeq
      <3> QED BY <3>1, <3>3 DEF y
    <2>9. Refolded(Folded(node), node.op, FoldedMaps(node), FoldedUses(node), FoldedConst(node))
      BY <1>2, <2>2, FoldedIs
    <2> DEFINE op == Folded(node)
    <2>10. /\ Generic(op) /\ op.body = "maxsi" /\ op.i32 = node.op.i32
           /\ op.parallel = node.op.parallel /\ op.uses[1] = 1 /\ op.uses[2] = 0 /\ op.const = 0
           /\ Len(op.maps) = 1 /\ op.maps[1] = node.op.maps[1]
           /\ op.out = node.op.out /\ op.rows = node.op.rows /\ op.cols = node.op.cols
           /\ op.static = node.op.static
      BY <1>2, <2>6, <2>7, <2>8, <2>9 DEF Refolded
    <2> HIDE DEF op
    <2>11. IsStrelaLinalgRelu(op, DefsIn(node))
      BY <1>2, <2>10 DEF IsStrelaLinalgRelu, Elementwise
    <2> QED BY <1>3, <1>4, <1>6, <2>3, <2>10, <2>11 DEF op
  <1> QED BY <1>2, <1>3, <1>5, <1>6

LEMMA ReluBody ==
  ASSUME NEW node, NEW c, NEW m, IsPlacedOp(node, c, m), IsStrelaLinalgRelu(node.op, DefsOf(c))
  PROVE  IsRelu(Folded(node), DefsIn(node), LoadsIn(node), Tensors(node), SourceOp(c), DefsOf(c))
  <1> DEFINE l == LoadOf(node, 1)
             T == Tensors(node)
  <1>1. node.op = SourceOp(c).op
    BY DEF IsPlacedOp
  <1>2. KeptInputs(node) = <<1>> /\ 1 \in 1 .. m /\ 1 \notin Splats(node)
    BY ReluFolds
  <1>3. l \in DOMAIN T /\ T[l] = SourceOp(c).args[1]
    BY <1>2, LoadIs
  <1>4. LoadsIn(node) = <<l>>
    <2> DEFINE q == LoadsIn(node)
    <2>1. q = [k \in {1} |-> l]
      BY <1>2, LoadsAre
    <2> HIDE DEF l
    <2>2. q \in [1 .. 1 -> {l}] /\ q[1] = l /\ 1 \in Nat
      BY <2>1
    <2> HIDE DEF q
    <2>3. q \in Seq({l}) /\ Len(q) = 1
      BY <2>2, FunctionIsSeq
    <2>4. q = <<l>>
      BY <2>2, <2>3, SeqOne
    <2> QED BY <2>4 DEF q
  <1>5. DefsOf(c)[1].kind # "splat"
    BY <1>2 DEF IsPlacedOp, IsInput
  <1> HIDE DEF l, T
  <1>6. \E k \in DOMAIN T : LoadsIn(node) = <<k>> /\ T[k] = SourceOp(c).args[1]
    BY <1>3, <1>4
  <1>7. /\ IsStrelaLinalgRelu(Folded(node), DefsIn(node)) /\ Len(Folded(node).maps) = 1
        /\ Folded(node).maps[1] = SourceOp(c).op.maps[1] /\ Folded(node).out = SourceOp(c).op.out
        /\ Folded(node).rows = SourceOp(c).op.rows /\ Folded(node).cols = SourceOp(c).op.cols
        /\ Folded(node).static = SourceOp(c).op.static /\ SourceOp(c).op.maps # <<>>
    BY <1>1, ReluFolds
  <1>8. IsStrelaLinalgRelu(SourceOp(c).op, DefsOf(c))
    BY <1>1
  <1> QED BY <1>5, <1>6, <1>7, <1>8 DEF IsRelu, T


(* The body of the dispatch of an operation, whichever kernel it is for.   *)
LEMMA BodyIs ==
  ASSUME NEW node, NEW c, NEW m, IsPlacedOp(node, c, m),
         NEW workload, IsWorkload(node, workload)
  PROVE  IsBodyOf(Body(node), c, Tensors(node) \o <<c>>, workload, SourceOp(c), DefsOf(c))
  <1>1. PICK init : KernelOf(node.op, DefsOf(c), init) # NoKernel
    BY DEF IsPlacedOp
  <1>2. IsStrelaLinalgAdd(node.op) \/ IsStrelaLinalgRelu(node.op, DefsOf(c)) \/ Matmul(node.op)
    BY <1>1, KernelIs DEF IsStrelaLinalgMatvec
  <1>3. IsOneOf(Folded(node), DefsIn(node), InitIn(node), LoadsIn(node), WorkloadIn(node),
                Tensors(node), workload, SourceOp(c), DefsOf(c))
    <2>1. CASE Matmul(node.op)
      BY <2>1, ProductBody DEF IsOneOf
    <2>2. CASE IsStrelaLinalgAdd(node.op) /\ Splats(node) = {}
      BY <2>2, SumBody DEF IsOneOf
    <2>3. CASE IsStrelaLinalgAdd(node.op) /\ Splats(node) # {}
      BY <2>3, LostSumBody DEF IsOneOf
    <2>4. CASE IsStrelaLinalgRelu(node.op, DefsOf(c))
      BY <2>4, ReluBody DEF IsOneOf
    <2> QED BY <1>2, <2>1, <2>2, <2>3, <2>4
  <1>4. /\ Tensors(node) \in Seq(Seq(Nat))
        /\ Body(node) = Dispatch(Stmt(Folded(node), DefsIn(node), InitIn(node), LoadsIn(node),
                                      Len(Tensors(node)) + 1, NoKernel), WorkloadIn(node), NoGrid)
    BY TensorsAre, BodyFields DEF HasTensors
  <1> QED BY <1>3, <1>4, Zenon DEF IsBodyOf

(* Every body is that of an executable.                                    *)
LEMMA BodiesAre ==
  ASSUME IInv
  PROVE  /\ Len(Bodies) \in Nat /\ DOMAIN Bodies = 1 .. Len(Bodies)
         /\ \A p \in PlacedOps : \E e \in DOMAIN Bodies : Bodies[e] = Body(block[p])
  <1> DEFINE F == FirstOfBody
             n == Cardinality(F)
             s == InOrder(F)
  <1>1. Len(block) \in Nat /\ PlacedOps \subseteq 1 .. Len(block)
    <2>1. Len(block) \in Nat /\ DOMAIN block = 1 .. Len(block)
      BY BlockDomain DEF IInv, NodesInv
    <2> QED BY <2>1 DEF PlacedOps, LinalgOps
  <1>2. F \in SUBSET (1 .. Len(block))
    BY <1>1 DEF FirstOfBody
  <1>3. n \in Nat /\ s \in [1 .. n -> F] /\ \A i \in F : \E k \in 1 .. n : s[k] = i
    <2> HIDE DEF F
    <2> QED BY <1>1, <1>2, InOrderIs
  <1>4. Bodies = [e \in 1 .. n |-> Body(block[s[e]])]
    BY <1>3 DEF Bodies
  <1> DEFINE B == Bodies
             S == {Body(block[s[e]]) : e \in 1 .. n}
  <1>5. B \in [1 .. n -> S]
    BY <1>4
  <1> HIDE DEF S, n, s, F
  <1>6. Len(B) = n /\ DOMAIN B = 1 .. n
    BY <1>3, <1>5, FunctionIsSeq
  <1>7. ASSUME NEW p \in PlacedOps PROVE \E e \in DOMAIN B : B[e] = Body(block[p])
    <2> DEFINE Same == {q \in PlacedOps : Body(block[q]) = Body(block[p])}
    <2>1. Same \in SUBSET Nat /\ Same # {}
      <3>1. PlacedOps \subseteq Nat
        BY <1>1
      <3>2. Same \subseteq PlacedOps
        OBVIOUS
      <3>3. p \in Same
        BY <1>7
      <3> HIDE DEF Same
      <3> QED BY <3>1, <3>2, <3>3
    <2>2. PICK i \in Same : \A j \in Same : ~(j < i)
      <3> HIDE DEF Same
      <3> QED BY <2>1, LeastFails
    <2>3. i \in F
      BY <2>2 DEF F, FirstOfBody
    <2>4. PICK e \in 1 .. n : s[e] = i
      BY <1>3, <2>3
    <2>5. B[e] = Body(block[p])
      BY <1>4, <2>2, <2>4
    <2> QED BY <1>6, <2>5
  <1> QED BY <1>3, <1>6, <1>7


(* An executable of one export.                                            *)
Formed(lazy, b) ==
  [lazy |-> lazy, variants |-> <<[target |-> "bitstream", exports |-> <<b>>]>>]

LEMMA FormedIs ==
  ASSUME NEW lazy \in BOOLEAN, NEW b
  PROVE  IsExecutable(Formed(lazy, b)) /\ Reaches(Formed(lazy, b), "bitstream", 0, b)
  <1> DEFINE E == <<b>>
             variant == [target |-> "bitstream", exports |-> E]
             V == <<variant>>
             exe == [lazy |-> lazy, variants |-> V]
  <1>1. \A x : IsList(<<x>>) /\ DOMAIN <<x>> = {1} /\ <<x>>[1] = x
    <2> SUFFICES ASSUME NEW x PROVE IsList(<<x>>) /\ DOMAIN <<x>> = {1} /\ <<x>>[1] = x
      OBVIOUS
    <2>1. DOMAIN <<x>> = 1 .. 1 /\ <<x>> = [i \in DOMAIN <<x>> |-> <<x>>[i]] /\ <<x>>[1] = x /\ 1 \in Nat
      OBVIOUS
    <2>2. IsList(<<x>>)
      BY <2>1, ListOf
    <2> QED BY <2>1, <2>2
  <1>2. IsList(E) /\ DOMAIN E = {1} /\ E[1] = b
    BY <1>1
  <1>3. IsList(V) /\ DOMAIN V = {1} /\ V[1] = variant
    BY <1>1
  <1> HIDE DEF E
  <1>4. variant.target = "bitstream" /\ variant.exports = E
        /\ variant = [target |-> variant.target, exports |-> variant.exports]
    OBVIOUS
  <1> HIDE DEF variant, V
  <1>5. exe.lazy = lazy /\ exe.variants = V /\ exe = [lazy |-> exe.lazy, variants |-> exe.variants]
    OBVIOUS
  <1> HIDE DEF exe
  <1>6. IsExecutable(exe)
    BY <1>2, <1>3, <1>4, <1>5 DEF IsExecutable
  <1>7. Reaches(exe, "bitstream", 0, b)
    <2>1. 0 + 1 = 1
      OBVIOUS
    <2> QED BY <1>2, <1>3, <1>4, <1>5, <2>1 DEF Reaches
  <1> QED BY <1>6, <1>7 DEF exe, V, variant, E, Formed

(* The executables after formation: those of the bodies, then those the    *)
(* module brings along.                                                    *)
IsFormed(new) ==
  /\ IsList(new) /\ \A e \in DOMAIN new : IsExecutable(new[e])
  /\ \A e \in DOMAIN Bodies : /\ e \in DOMAIN new
                              /\ \E l \in BOOLEAN : new[e] = Formed(l, Bodies[e])

LEMMA NewlyFormed ==
  ASSUME IInv, NEW lazy \in BOOLEAN, NEW written \in HandWritten
  PROVE  IsFormed([e \in DOMAIN Bodies |->
                     [lazy |-> lazy /\ e = 1,
                      variants |-> <<[target |-> "bitstream", exports |-> <<Bodies[e]>>]>>]]
                  \o written)
  <1> DEFINE n == Len(Bodies)
             f == [e \in DOMAIN Bodies |-> Formed(lazy /\ e = 1, Bodies[e])]
  <1>1. n \in Nat /\ DOMAIN Bodies = 1 .. n
    BY BodiesAre
  <1>2. f = [e \in DOMAIN Bodies |->
               [lazy |-> lazy /\ e = 1,
                variants |-> <<[target |-> "bitstream", exports |-> <<Bodies[e]>>]>>]]
    BY DEF Formed
  <1>3. IsList(f) /\ Len(f) = n
    BY <1>1, ListOf
  <1>4. \A e \in 1 .. n : \E l \in BOOLEAN : f[e] = Formed(l, Bodies[e])
    <2> SUFFICES ASSUME NEW e \in 1 .. n PROVE \E l \in BOOLEAN : f[e] = Formed(l, Bodies[e])
      OBVIOUS
    <2>1. f[e] = Formed(lazy /\ e = 1, Bodies[e])
      BY <1>1
    <2>2. (lazy /\ e = 1) \in BOOLEAN
      OBVIOUS
    <2> HIDE DEF f
    <2> QED BY <2>1, <2>2, Zenon
  <1> HIDE DEF f
  <1>5. IsList(written) /\ \A e \in DOMAIN written : IsExecutable(written[e])
    BY CompilerAssumption
  <1> DEFINE m == Len(written)
             new == f \o written
  <1>6. m \in Nat /\ DOMAIN written = 1 .. m
    BY <1>5, ListIs
  <1>7. /\ IsList(new) /\ Len(new) = n + m
        /\ \A e \in 1 .. n : new[e] = f[e]
        /\ \A e \in 1 .. m : new[n + e] = written[e]
    <2>1. IsBehind(f \o written, f, written)
      BY <1>3, <1>5, Behind
    <2> QED BY <1>3, <2>1 DEF IsBehind
  <1> HIDE DEF new, n, m
  <1>8. DOMAIN new = 1 .. n + m
    BY <1>7, ListIs
  <1>9. \A e \in DOMAIN new : IsExecutable(new[e])
    <2> SUFFICES ASSUME NEW e \in 1 .. n + m PROVE IsExecutable(new[e])
      BY <1>8
    <2>1. CASE e <= n
      <3>1. e \in 1 .. n
        BY <1>1, <2>1
      <3> QED BY <1>4, <1>7, <3>1, FormedIs
    <2>2. CASE ~(e <= n)
      <3>1. e - n \in 1 .. m /\ n + (e - n) = e
        BY <1>1, <1>6, <2>2
      <3>2. PICK d \in 1 .. m : n + d = e
        BY <3>1
      <3> QED BY <1>5, <1>6, <1>7, <3>2
    <2> QED BY <2>1, <2>2
  <1>10. \A e \in DOMAIN Bodies : /\ e \in DOMAIN new
                                  /\ \E l \in BOOLEAN : new[e] = Formed(l, Bodies[e])
    <2> SUFFICES ASSUME NEW e \in 1 .. n
                 PROVE  e \in DOMAIN new /\ \E l \in BOOLEAN : new[e] = Formed(l, Bodies[e])
      BY <1>1
    <2>1. e \in 1 .. n + m
      BY <1>1, <1>6
    <2> QED BY <1>4, <1>7, <1>8, <2>1
  <1>11. IsFormed(new)
    BY <1>7, <1>9, <1>10 DEF IsFormed
  <1> QED BY <1>2, <1>11 DEF new


(* The call of an operation that was placed.                               *)
LEMMA FormedCall ==
  ASSUME IInv, OpsInv, NEW p \in PlacedOps, NEW w \in Nat, source' = source,
         IsFormed(executables'), stage' = [e \in DOMAIN executables' |-> "convert"],
         NEW call,
         call = LET node == block[p] IN
            [op |-> node.id,
             executable |-> CHOOSE e \in DOMAIN Bodies : Bodies[e] = Body(node),
             target |-> "bitstream", ordinal |-> 0,
             tensors |-> Tensors(node) \o <<node.id>>,
             workload |-> IF Body(node).workload = 1 THEN <<w>> ELSE <<>>]
  PROVE  IsCall(call)'
  <1> DEFINE node == block[p]
             c == node.id
             b == Body(node)
             workload == IF b.workload = 1 THEN <<w>> ELSE <<>>
             e == CHOOSE e \in DOMAIN Bodies : Bodies[e] = b
  <1>1. PICK m : IsPlacedOp(node, c, m)
    BY PlacedOpIs
  <1>2. e \in DOMAIN Bodies /\ Bodies[e] = b
    BY BodiesAre
  <1>3. IsWorkload(node, workload)
    <2>1. b.workload = WorkloadIn(node)
      BY BodyFields
    <2> QED BY <2>1 DEF IsWorkload
  <1> HIDE DEF workload
  <1>4. IsBodyOf(b, c, Tensors(node) \o <<c>>, workload, SourceOp(c), DefsOf(c))
    BY <1>1, <1>3, BodyIs
  <1> DEFINE tensors == Tensors(node) \o <<c>>
  <1>5. call = [op |-> c, executable |-> e, target |-> "bitstream", ordinal |-> 0,
                tensors |-> tensors, workload |-> workload]
    BY DEF workload
  <1> HIDE DEF e, tensors, node
  <1>6. PICK l \in BOOLEAN : e \in DOMAIN executables' /\ executables'[e] = Formed(l, b)
    BY <1>2 DEF IsFormed
  <1>7. stage'[e] = "convert" /\ Passed(b, "convert") /\ At(b, "convert") = b
    BY <1>6 DEF Passed, At
  <1>8. Reaches(executables'[e], "bitstream", 0, At(b, "convert"))
    BY <1>6, <1>7, FormedIs
  <1>9. LinalgIds' = LinalgIds /\ \A x : SourceOp(x)' = SourceOp(x) /\ DefsOf(x)' = DefsOf(x)
    BY OfSource
  <1>10. c \in LinalgIds
    BY <1>1 DEF IsPlacedOp
  <1> HIDE DEF b
  <1>11. /\ call.op = c /\ call.executable = e /\ call.target = "bitstream" /\ call.ordinal = 0
         /\ call.tensors = tensors /\ call.workload = workload
         /\ call = [op |-> call.op, executable |-> call.executable, target |-> call.target,
                    ordinal |-> call.ordinal, tensors |-> call.tensors, workload |-> call.workload]
    BY <1>5
  <1>12. PICK body : body = b
    OBVIOUS
  <1>13. CallReaches(call, body)'
    BY <1>7, <1>8, <1>11, <1>12 DEF CallReaches
  <1>14. IsBodyOf(body, call.op, call.tensors, call.workload, SourceOp(call.op)', DefsOf(call.op)')
    BY <1>4, <1>9, <1>11, <1>12 DEF tensors
  <1>15. call.op \in LinalgIds' /\ call.executable \in DOMAIN executables' /\ call.ordinal \in Nat
    BY <1>6, <1>9, <1>10, <1>11
  <1> QED BY <1>11, <1>13, <1>14, <1>15 DEF IsCall

LEMMA FormKeeps ==
  ASSUME IInv, OpsInv, ExecutablesInv, CallsInv, FormDispatches
  PROVE  ExecutablesInv' /\ CallsInv'
  <1>1. PICK written \in HandWritten, w \in Workloads, lazy \in BOOLEAN :
          /\ executables' = [e \in DOMAIN Bodies |->
                               [lazy |-> lazy /\ e = 1,
                                variants |-> <<[target |-> "bitstream",
                                                exports |-> <<Bodies[e]>>]>>]]
                            \o written
          /\ sites' = [s \in DOMAIN InOrder(PlacedOps) |->
               LET node == block[InOrder(PlacedOps)[s]] IN
               [op |-> node.id,
                executable |-> CHOOSE e \in DOMAIN Bodies : Bodies[e] = Body(node),
                target |-> "bitstream", ordinal |-> 0,
                tensors |-> Tensors(node) \o <<node.id>>,
                workload |-> IF Body(node).workload = 1 THEN <<w>> ELSE <<>>]]
    BY Zenon DEF FormDispatches
  <1>2. /\ phase = "form" /\ phase' = "translate" /\ binary' = binary /\ source' = source
        /\ stage' = [e \in DOMAIN executables' |-> "convert"]
    BY DEF FormDispatches, placementVars
  <1>3. IsFormed(executables')
    BY <1>1, NewlyFormed
  <1>4. ExecutablesInv'
    <2>1. DOMAIN binary' = {}
      BY <1>2, EmptySeq DEF ExecutablesInv
    <2>2. stage' \in [DOMAIN executables' -> Stages]
      BY <1>2 DEF Stages
    <2> QED BY <1>2, <1>3, <2>1, <2>2 DEF ExecutablesInv, IsFormed
  <1>5. w \in Nat
    BY CompilerAssumption
  <1>6. ASSUME NEW s \in DOMAIN sites' PROVE IsCall(sites[s])'
    <2>1. s \in DOMAIN InOrder(PlacedOps)
      BY <1>1
    <2>2. InOrder(PlacedOps)[s] \in PlacedOps
      <3>1. Len(block) \in Nat /\ PlacedOps \in SUBSET (1 .. Len(block))
        <4>1. Len(block) \in Nat /\ DOMAIN block = 1 .. Len(block)
          BY BlockDomain DEF IInv, NodesInv
        <4> QED BY <4>1 DEF PlacedOps, LinalgOps
      <3>2. InOrder(PlacedOps) \in [1 .. Cardinality(PlacedOps) -> PlacedOps]
        BY <3>1, InOrderIs
      <3> QED BY <2>1, <3>2
    <2>3. PICK p \in PlacedOps : p = InOrder(PlacedOps)[s]
      BY <2>2
    <2>4. PICK call : call = LET node == block[p] IN
            [op |-> node.id,
             executable |-> CHOOSE e \in DOMAIN Bodies : Bodies[e] = Body(node),
             target |-> "bitstream", ordinal |-> 0,
             tensors |-> Tensors(node) \o <<node.id>>,
             workload |-> IF Body(node).workload = 1 THEN <<w>> ELSE <<>>]
      OBVIOUS
    <2>5. IsCall(call)'
      BY <1>2, <1>3, <1>5, <2>4, FormedCall
    <2>6. sites'[s] = call
      BY <1>1, <2>1, <2>3, <2>4
    <2> QED BY <2>5, <2>6
  <1>7. CallsInv'
    BY <1>6 DEF CallsInv
  <1> QED BY <1>4, <1>7


-----------------------------------------------------------------------------
(* All steps.                                                              *)
TInv == IInv /\ OpsInv /\ ExecutablesInv /\ CallsInv

LEMMA NothingTranslated ==
  ASSUME ExecutablesInv, CallsInv, UNCHANGED translationVars, phase # "translate"
  PROVE  ExecutablesInv' /\ CallsInv'
  <1>1. /\ executables' = <<>> /\ stage' = <<>> /\ sites' = <<>> /\ binary' = <<>>
        /\ executables = <<>> /\ stage = <<>> /\ sites = <<>> /\ binary = <<>>
    BY DEF ExecutablesInv, translationVars
  <1>2. ExecutablesInv'
    BY <1>1, EmptySeq DEF ExecutablesInv
  <1>3. CallsInv'
    BY <1>1, EmptySeq DEF CallsInv
  <1> QED BY <1>2, <1>3

LEMMA NextKeepsTranslation == TInv /\ [Next]_vars => TInv'
  <1> SUFFICES ASSUME TInv, [Next]_vars PROVE TInv'
    OBVIOUS
  <1>1. IInv /\ OpsInv /\ ExecutablesInv /\ CallsInv
    BY DEF TInv
  <1>2. IInv' /\ OpsInv'
    BY <1>1, NextKeeps, NextKeepsOps
  <1>3. CASE UNCHANGED translationVars /\ (AssignTopology \/ GatherCandidates \/ Wrap \/ WrapDone)
    <2>1. phase # "translate"
      BY <1>3 DEF AssignTopology, GatherCandidates, Wrap, WrapDone
    <2> QED BY <1>1, <1>2, <1>3, <2>1, NothingTranslated DEF TInv
  <1>4. CASE FormDispatches
    BY <1>1, <1>2, <1>4, FormKeeps DEF TInv
  <1>5. ASSUME Translating PROVE phase = "translate" /\ UNCHANGED <<source, phase>>
    BY <1>5 DEF Translating, placementVars
  <1>6. CASE Translating /\ \E e \in DOMAIN executables : Convert(e)
    BY <1>1, <1>2, <1>5, <1>6, PassesKeep DEF TInv
  <1>7. CASE Translating /\ \E e \in DOMAIN executables : ResolveWorkgroupCount(e)
    BY <1>1, <1>2, <1>5, <1>7, PassesKeep DEF TInv
  <1>8. CASE Translating /\ \E e \in DOMAIN executables : MaterializeBindings(e)
    BY <1>1, <1>2, <1>5, <1>8, PassesKeep DEF TInv
  <1>9. CASE Translating /\ LinkExecutables
    BY <1>1, <1>2, <1>5, <1>9, LinkKeeps DEF TInv
  <1>10. CASE Translating /\ \E e \in DOMAIN executables : SerializeExecutable(e)
    BY <1>1, <1>2, <1>5, <1>10, SerializeKeeps DEF TInv
  <1>11. CASE UNCHANGED vars
    <2>1. UNCHANGED <<translationVars, phase, source>>
      BY <1>11 DEF vars, placementVars
    <2>2. CASE phase # "translate"
      BY <1>1, <1>2, <2>1, <2>2, NothingTranslated DEF TInv
    <2>3. CASE phase = "translate"
      <3>1. UNCHANGED <<executables, stage, sites, binary, phase>>
        BY <2>1 DEF translationVars
      <3>2. ExecutablesInv'
        BY <1>1, <3>1 DEF ExecutablesInv
      <3>3. ASSUME NEW call, IsCall(call) PROVE IsCall(call)'
        <4>1. \A b : CallReaches(call, b) => CallReaches(call, b)'
          BY <3>1 DEF CallReaches
        <4>2. call.executable \in DOMAIN executables'
          BY <3>1, <3>3 DEF IsCall
        <4> QED BY <2>1, <3>3, <4>1, <4>2, CallStays
      <3>4. CallsInv'
        BY <1>1, <3>1, <3>3 DEF CallsInv
      <3> QED BY <1>2, <3>2, <3>4 DEF TInv
    <2> QED BY <2>2, <2>3
  <1> QED BY <1>3, <1>4, <1>6, <1>7, <1>8, <1>9, <1>10, <1>11, Zenon DEF Next

(* Throughout compilation every call reaches what the passes made of the   *)
(* body of its operation, whatever else is translated and linked with it   *)
(* (StrelaTarget.cpp:152-175).                                             *)
THEOREM CompilerInvariance == Spec => []TInv
  <1>1. Init => TInv
    BY InitialisesInvariant, InitialisesOps, InitialisesTranslation DEF TInv
  <1>2. TInv /\ [Next]_vars => TInv'
    BY NextKeepsTranslation
  <1> QED BY <1>1, <1>2, PTL DEF Spec


-----------------------------------------------------------------------------
(* Division with a remainder.                                              *)
LEMMA MulLess ==
  ASSUME NEW a \in Nat, NEW b \in Nat, NEW N \in Nat, a < b
  PROVE  a * N + N <= b * N /\ a * N \in Nat /\ b * N \in Nat
  OBVIOUS

LEMMA DivMod ==
  ASSUME NEW x \in Nat, NEW N \in Nat \ {0}
  PROVE  x \div N \in Nat /\ (x % N) \in 0 .. N - 1 /\ x = (x \div N) * N + (x % N)
  OBVIOUS

(* The jobs of a row: enough for its features, and not one too many.       *)
LEMMA JobCount ==
  ASSUME NEW n \in Nat \ {0}, NEW F \in Nat \ {0}
  PROVE  LET A == CeilDiv(n, F) IN
         /\ A \in Nat \ {0} /\ A * F \in Nat
         /\ n <= A * F /\ A * F < n + F
  <1> DEFINE x == n + F - 1
             A == x \div F
             r == x % F
  <1>1. x \in Nat
    OBVIOUS
  <1>2. CeilDiv(n, F) = A
    BY DEF CeilDiv
  <1> HIDE DEF x
  <1>3. A \in Nat /\ r \in 0 .. F - 1 /\ x = A * F + r
    BY <1>1, DivMod
  <1> HIDE DEF A, r
  <1>4. A * F \in Nat
    BY <1>3
  <1>5. n <= A * F /\ A * F < n + F
    BY <1>3, <1>4 DEF x
  <1>6. A # 0
    BY <1>5
  <1> QED BY <1>2, <1>3, <1>4, <1>5, <1>6

(* The features of one job of a row of n.                                  *)
LastOf(n, a) == IF a * FeaturesPerJob < n THEN a * FeaturesPerJob ELSE n
FeaturesOf(n, a) == LastOf(n, a) - FeaturesPerJob + 1 .. LastOf(n, a)

(* They are features of the row, every one is in a job, and every job has  *)
(* one that no other job has.                                              *)
LEMMA RowIsCovered ==
  ASSUME NEW n \in Nat, FeaturesPerJob <= n
  PROVE  LET A == CeilDiv(n, FeaturesPerJob) IN
         /\ \A a \in 1 .. A : FeaturesOf(n, a) \subseteq 1 .. n
         /\ \A c \in 1 .. n : \E a \in 1 .. A : c \in FeaturesOf(n, a)
         /\ \A a \in 1 .. A : \E c \in 1 .. n :
              \A b \in (1 .. A) \ {a} : c \notin FeaturesOf(n, b)
  <1> DEFINE F == FeaturesPerJob
             A == CeilDiv(n, F)
  <1>1. F \in Nat \ {0} /\ n \in Nat \ {0} /\ F <= n
    BY TranslationAssumption
  <1>2. A \in Nat \ {0} /\ A * F \in Nat /\ n <= A * F /\ A * F < n + F
    BY <1>1, JobCount
  <1>3. \A a : LastOf(n, a) = IF a * F < n THEN a * F ELSE n
    BY DEF LastOf
  <1>4. \A a : FeaturesOf(n, a) = LastOf(n, a) - F + 1 .. LastOf(n, a)
    BY DEF FeaturesOf
  <1> HIDE DEF A, F
  <1>5. ASSUME NEW a \in 1 .. A
        PROVE  /\ a \in Nat /\ a * F \in Nat /\ F <= a * F
               /\ a # A => a * F < n
    <2>1. a \in Nat /\ a # 0
      BY <1>2
    <2>2. a * F \in Nat
      BY <1>1, <2>1
    <2>3. 0 * F + F <= a * F
      BY <1>1, <2>1, MulLess
    <2>4. ASSUME a # A PROVE a * F < n
      <3>1. a * F + F <= A * F
        BY <1>1, <1>2, <2>1, <2>4, MulLess
      <3> QED BY <1>1, <1>2, <2>2, <3>1
    <2> QED BY <1>1, <2>1, <2>2, <2>3, <2>4
  <1>6. ASSUME NEW a \in 1 .. A PROVE FeaturesOf(n, a) \subseteq 1 .. n
    <2>1. LastOf(n, a) \in Nat /\ F <= LastOf(n, a) /\ LastOf(n, a) <= n
      BY <1>1, <1>3, <1>5
    <2> QED BY <1>1, <1>4, <2>1
  <1>7. ASSUME NEW c \in 1 .. n PROVE \E a \in 1 .. A : c \in FeaturesOf(n, a)
    <2> DEFINE a == CeilDiv(c, F)
    <2>0. c \in Nat \ {0}
      BY <1>1
    <2>1. a \in Nat \ {0} /\ a * F \in Nat /\ c <= a * F /\ a * F < c + F
      BY <1>1, <2>0, JobCount
    <2> HIDE DEF a
    <2>2. a <= A
      <3>1. SUFFICES ASSUME A < a PROVE FALSE
        BY <1>2, <2>1
      <3>2. A * F + F <= a * F
        BY <1>1, <1>2, <2>1, <3>1, MulLess
      <3> QED BY <1>1, <1>2, <2>1, <3>2
    <2>3. LastOf(n, a) - F + 1 <= c /\ c <= LastOf(n, a) /\ LastOf(n, a) \in Nat
      <3>1. CASE a * F < n
        BY <1>1, <1>3, <2>1, <3>1
      <3>2. CASE ~(a * F < n)
        BY <1>1, <1>3, <2>1, <3>2
      <3> QED BY <3>1, <3>2
    <2>4. a \in 1 .. A /\ c \in FeaturesOf(n, a)
      BY <1>1, <1>2, <1>4, <2>1, <2>2, <2>3
    <2> QED BY <2>4
  <1>8. ASSUME NEW a \in 1 .. A
        PROVE  \E c \in 1 .. n : \A b \in (1 .. A) \ {a} : c \notin FeaturesOf(n, b)
    <2> DEFINE p == a * F
               c == IF a = A THEN n ELSE p - F + 1
    <2>1. p \in Nat /\ F <= p /\ (a # A => p < n)
      BY <1>5
    <2> HIDE DEF p
    <2>2. c \in 1 .. n
      BY <1>1, <2>1
    <2>3. ASSUME NEW b \in (1 .. A) \ {a}
          PROVE  c < LastOf(n, b) - F + 1 \/ LastOf(n, b) < c
      <3>1. a \in Nat /\ b \in Nat /\ b * F \in Nat /\ b # a /\ (b # A => b * F < n)
        BY <1>5
      <3>2. CASE a = A
        <4>1. LastOf(n, b) = b * F
          BY <1>3, <3>1, <3>2
        <4> QED BY <3>1, <3>2, <4>1
      <3>3. CASE a # A /\ b < a
        <4>1. b * F + F <= p
          BY <1>1, <3>1, <3>3, MulLess DEF p
        <4>2. b # A
          BY <1>2, <3>1, <3>3
        <4>3. LastOf(n, b) = b * F
          BY <1>3, <3>1, <4>2
        <4> QED BY <1>1, <2>1, <3>1, <3>3, <4>1, <4>3
      <3>4. CASE a # A /\ a < b
        <4>1. p + F <= b * F
          BY <1>1, <3>1, <3>4, MulLess DEF p
        <4>2. p < LastOf(n, b)
          BY <1>1, <1>3, <2>1, <3>1, <3>4, <4>1
        <4>3. LastOf(n, b) \in Nat
          BY <1>3, <3>1
        <4> QED BY <1>1, <2>1, <3>4, <4>2, <4>3
      <3> QED BY <3>1, <3>2, <3>3, <3>4
    <2> HIDE DEF c
    <2>4. ASSUME NEW b \in (1 .. A) \ {a} PROVE c \notin FeaturesOf(n, b)
      <3>1. LastOf(n, b) \in Nat /\ c \in Nat
        BY <1>3, <1>5, <2>2
      <3> QED BY <1>1, <1>4, <2>3, <3>1
    <2> QED BY <2>2, <2>4
  <1> QED BY <1>6, <1>7, <1>8 DEF A, F


-----------------------------------------------------------------------------
(* A statement after conversion.                                           *)
WithKernel(stmt, kernel) == [stmt EXCEPT !.kernel = kernel]
WithLoads(stmt, loads) == [stmt EXCEPT !.loads = loads]
KernelLoads(kernel, loads) ==
  [k \in DOMAIN KernelInputs(kernel) |-> loads[KernelInputs(kernel)[k]]]

LEMMA ConvertedIs ==
  ASSUME NEW op, NEW ds, NEW init, NEW loads, NEW store
  PROVE  LET stmt == Stmt(op, ds, init, loads, store, NoKernel)
             kernel == KernelOf(op, ds, init)
         IN /\ kernel = NoKernel => Converted(stmt) = stmt
            /\ kernel # NoKernel =>
                 Converted(stmt)
                   = Stmt(op, ds, init, KernelLoads(kernel, loads), store, kernel)
  <1> DEFINE stmt == Stmt(op, ds, init, loads, store, NoKernel)
             kernel == KernelOf(op, ds, init)
             new == KernelLoads(kernel, loads)
  <1>1. /\ stmt.op = op /\ stmt.defs = ds /\ stmt.init = init /\ stmt.loads = loads
        /\ stmt.store = store /\ stmt.kernel = NoKernel
    BY DEF Stmt
  <1>2. kernel = NoKernel => Converted(stmt) = stmt
    BY <1>1 DEF Converted
  <1>3. \A k, l : WithLoads(WithKernel(stmt, k), l) = Stmt(op, ds, init, l, store, k)
    <2> SUFFICES ASSUME NEW k, NEW l
                 PROVE  WithLoads(WithKernel(stmt, k), l) = Stmt(op, ds, init, l, store, k)
      OBVIOUS
    <2>1. WithKernel(stmt, k) = Stmt(op, ds, init, loads, store, k)
      BY DEF WithKernel, Stmt
    <2>2. WithLoads(Stmt(op, ds, init, loads, store, k), l) = Stmt(op, ds, init, l, store, k)
      BY DEF WithLoads, Stmt
    <2> QED BY <2>1, <2>2
  <1>4. ASSUME kernel # NoKernel
        PROVE  Converted(stmt) = WithLoads(WithKernel(stmt, kernel), new)
    <2> HIDE DEF stmt
    <2>1. KernelOf(stmt.op, stmt.defs, stmt.init) = kernel
      BY <1>1
    <2> HIDE DEF kernel
    <2>2. Converted(stmt)
            = [stmt EXCEPT !.kernel = kernel, !.loads = KernelLoads(kernel, stmt.loads)]
      BY <1>4, <2>1 DEF Converted, KernelLoads
    <2>3. [stmt EXCEPT !.kernel = kernel, !.loads = KernelLoads(kernel, stmt.loads)]
            = WithLoads(WithKernel(stmt, kernel), KernelLoads(kernel, stmt.loads))
      BY DEF WithLoads, WithKernel
    <2> QED BY <1>1, <2>2, <2>3
  <1> QED BY <1>2, <1>3, <1>4

(* The export that a call reaches.                                         *)
LEMMA ExportIs ==
  ASSUME NEW call, NEW b, CallReaches(call, b)
  PROVE  ExportOf(call) = At(b, stage[call.executable])
  <1> DEFINE V == executables[call.executable].variants
             v == CHOOSE v \in DOMAIN V : V[v].target = call.target
  <1>1. Reaches(executables[call.executable], call.target, call.ordinal,
                At(b, stage[call.executable]))
    BY DEF CallReaches
  <1>2. v \in DOMAIN V /\ V[v].target = call.target
    BY <1>1 DEF Reaches
  <1>3. ExportOf(call) = V[v].exports[call.ordinal + 1]
    BY DEF ExportOf
  <1> HIDE DEF v
  <1> QED BY <1>1, <1>2, <1>3 DEF Reaches

(* What a body is when it is bound: the statement converted, the count of  *)
(* its workgroups resolved.                                                *)
LEMMA CountedIs ==
  ASSUME NEW op, NEW ds, NEW init, NEW loads, NEW store, NEW w
  PROVE  LET stmt == Stmt(op, ds, init, loads, store, NoKernel)
             b == Dispatch(stmt, w, NoGrid)
         IN \A st \in Stages : st # "convert" =>
              \E g : /\ At(b, st) = Dispatch(Converted(stmt), w, g)
                     /\ st # "count" => g = BuildCount(Dispatch(Converted(stmt), w, NoGrid))
  <1> DEFINE stmt == Stmt(op, ds, init, loads, store, NoKernel)
             b == Dispatch(stmt, w, NoGrid)
  <1> SUFFICES ASSUME NEW st \in Stages, st # "convert"
               PROVE  \E g : /\ At(b, st) = Dispatch(Converted(stmt), w, g)
                             /\ st # "count" =>
                                  g = BuildCount(Dispatch(Converted(stmt), w, NoGrid))
    OBVIOUS
  <1> HIDE DEF stmt
  <1>1. CASE st = "count"
    <2>1. At(b, st) = Dispatch(Converted(stmt), w, NoGrid)
      BY <1>1, ConvertedDispatch DEF At
    <2> QED BY <1>1, <2>1
  <1>2. CASE st # "count"
    <2>1. At(b, st) = CountedExport(ConvertedExport(b))
      BY <1>2 DEF At
    <2>2. At(b, st) = Dispatch(Converted(stmt), w, BuildCount(Dispatch(Converted(stmt), w, NoGrid)))
      BY <2>1, DispatchAt
    <2> QED BY <2>2
  <1> QED BY <1>1, <1>2


LEMMA LinalgOpIs ==
  ASSUME IInv, OpsInv, NEW c \in LinalgIds
  PROVE  IsLinalgOp(SourceOp(c).op, Len(SourceOp(c).args) - 1)
  <1>1. PICK program \in Programs : source = program.block
    BY DEF OpsInv
  <1>2. IsFunction(source) /\ c \in SourceIds /\ SourceOp(c).kind = "linalg"
    BY LinalgIs DEF IInv, MachineInv
  <1>3. Place(c) \in DOMAIN source /\ source[Place(c)] = SourceOp(c)
    BY <1>2, SourceIdIs
  <1> QED BY <1>1, <1>2, <1>3, CompilerAssumption

(* The workgroups of a matrix product.                                     *)
LEMMA CountIs ==
  /\ \A n, workload : Count(Static(n), workload) = n
  /\ \A r \in Nat : Count(Argument(1 + 0), <<r>>) = r
  <1>1. \A n, workload : Count(Static(n), workload) = n
    BY DEF Count, Static
  <1>2. ASSUME NEW r \in Nat PROVE Count(Argument(1 + 0), <<r>>) = r
    <2>1. <<0>> \in Seq(Nat) /\ <<r>> \in Seq(Nat) /\ Len(<<0>>) = 1 /\ Len(<<r>>) = 1 /\ <<r>>[1] = r
      OBVIOUS
    <2>2. (<<0>> \o <<r>>)[2] = r
      <3>1. 2 \in 1 .. 2 /\ ~(2 <= 1) /\ 2 - 1 = 1
        OBVIOUS
      <3> QED BY <2>1, <3>1, ConcatProperties
    <2>3. Count(Argument(1 + 0), <<r>>) = (<<0>> \o <<r>>)[1 + 0 + 1]
      BY DEF Count, Argument
    <2> QED BY <2>2, <2>3
  <1> QED BY <1>1, <1>2

LEMMA ProductGrid ==
  ASSUME NEW stmt, NEW w, NEW g, stmt.kernel = "matvec"
  PROVE  LET x == Dispatch(stmt, w, g) IN
         /\ MatvecsOf(x) # {} /\ LastMatvec(x) = stmt.op
         /\ BuildCount(x) = <<Static(CeilDiv(stmt.op.features, FeaturesPerJob)),
                              IF stmt.op.rowsStatic THEN Static(stmt.op.rows) ELSE Argument(1 + 0),
                              Static(1)>>
  <1> DEFINE x == Dispatch(stmt, w, g)
  <1>1. DOMAIN x.body = {1} /\ x.body[1] = stmt /\ x.ordinal = 0
    BY DispatchFields
  <1> HIDE DEF x
  <1>2. MatvecsOf(x) = {1}
    BY <1>1 DEF MatvecsOf
  <1>3. (CHOOSE s \in MatvecsOf(x) : \A t \in MatvecsOf(x) : t <= s) = 1
    BY <1>2
  <1>4. LastMatvec(x) = stmt.op
    BY <1>1, <1>3 DEF LastMatvec, LastProduct
  <1>5. ResolveSize(x, stmt.op)
          = IF stmt.op.rowsStatic THEN Static(stmt.op.rows) ELSE Argument(1 + 0)
    BY <1>1 DEF ResolveSize
  <1>6. BuildCount(x) = <<Static(CeilDiv(stmt.op.features, FeaturesPerJob)),
                          ResolveSize(x, stmt.op), Static(1)>>
    BY <1>2, <1>4 DEF BuildCount
  <1> QED BY <1>2, <1>4, <1>5, <1>6 DEF x

(* A statement that becomes a matrix product is of one.                    *)
LEMMA MatvecIsProduct ==
  ASSUME NEW op, NEW ds, NEW init, NEW loads, NEW store, NEW w, NEW T, NEW workload,
         NEW node, NEW defs, IsOneOf(op, ds, init, loads, w, T, workload, node, defs)
  PROVE  KernelOf(op, ds, init) = "matvec" => IsProduct(op, w, workload, node)
  <1> SUFFICES ASSUME KernelOf(op, ds, init) = "matvec" PROVE IsProduct(op, w, workload, node)
    OBVIOUS
  <1>1. ~IsLostSum(op, ds, init, node, defs)
    BY DEF IsLostSum, NoKernel
  <1>2. ~IsStrelaLinalgAdd(op) /\ ~IsStrelaLinalgRelu(op, ds)
    BY KernelIs
  <1>3. ~IsSum(op, loads, T, node, defs) /\ ~IsRelu(op, ds, loads, T, node, defs)
    BY <1>2 DEF IsSum, IsRelu
  <1> QED BY <1>1, <1>3 DEF IsOneOf

(* The jobs of a grid of A by R compute R rows of n features.              *)
Jobs(A, R) == (1 .. A) \X (1 .. R)
Computes(n, j) == {j[2]} \X FeaturesOf(n, j[1])

LEMMA GridIsCovered ==
  ASSUME NEW n \in Nat, FeaturesPerJob <= n, NEW R \in Nat
  PROVE  LET jobs == Jobs(CeilDiv(n, FeaturesPerJob), R) IN
         /\ UNION {Computes(n, j) : j \in jobs} = (1 .. R) \X (1 .. n)
         /\ \A j \in jobs : UNION {Computes(n, k) : k \in jobs \ {j}} # (1 .. R) \X (1 .. n)
  <1> DEFINE A == CeilDiv(n, FeaturesPerJob)
             jobs == Jobs(A, R)
  <1>1. /\ \A a \in 1 .. A : FeaturesOf(n, a) \subseteq 1 .. n
        /\ \A c \in 1 .. n : \E a \in 1 .. A : c \in FeaturesOf(n, a)
        /\ \A a \in 1 .. A : \E c \in 1 .. n :
             \A b \in (1 .. A) \ {a} : c \notin FeaturesOf(n, b)
    BY RowIsCovered
  <1> HIDE DEF A
  <1>2. ASSUME NEW j \in jobs PROVE Computes(n, j) \subseteq (1 .. R) \X (1 .. n)
    BY <1>1 DEF Jobs, Computes
  <1>3. ASSUME NEW e \in (1 .. R) \X (1 .. n)
        PROVE  \E j \in jobs : e \in Computes(n, j)
    <2>1. e[1] \in 1 .. R /\ e[2] \in 1 .. n /\ e = <<e[1], e[2]>>
      OBVIOUS
    <2>2. PICK a \in 1 .. A : e[2] \in FeaturesOf(n, a)
      BY <1>1, <2>1
    <2>3. <<a, e[1]>> \in jobs /\ e \in Computes(n, <<a, e[1]>>)
      BY <2>1, <2>2 DEF Jobs, Computes
    <2> QED BY <2>3
  <1>4. ASSUME NEW j \in jobs
        PROVE  \E e \in (1 .. R) \X (1 .. n) : \A k \in jobs \ {j} : e \notin Computes(n, k)
    <2>1. j[1] \in 1 .. A /\ j[2] \in 1 .. R /\ j = <<j[1], j[2]>>
      BY DEF Jobs
    <2>2. PICK c \in 1 .. n : \A b \in (1 .. A) \ {j[1]} : c \notin FeaturesOf(n, b)
      BY <1>1, <2>1
    <2>3. ASSUME NEW k \in jobs \ {j} PROVE <<j[2], c>> \notin Computes(n, k)
      <3>1. k[1] \in 1 .. A /\ k = <<k[1], k[2]>> /\ k # j
        BY DEF Jobs
      <3>2. CASE k[2] # j[2]
        BY <3>2 DEF Computes
      <3>3. CASE k[2] = j[2]
        <4>1. k[1] # j[1]
          BY <2>1, <3>1, <3>3
        <4>2. c \notin FeaturesOf(n, k[1])
          BY <2>2, <3>1, <4>1
        <4> QED BY <4>2 DEF Computes
      <3> QED BY <3>2, <3>3
    <2>4. <<j[2], c>> \in (1 .. R) \X (1 .. n)
      BY <2>1
    <2> QED BY <2>3, <2>4
  <1> HIDE DEF jobs
  <1>5. UNION {Computes(n, j) : j \in jobs} = (1 .. R) \X (1 .. n)
    BY <1>2, <1>3
  <1>6. \A j \in jobs : UNION {Computes(n, k) : k \in jobs \ {j}} # (1 .. R) \X (1 .. n)
    BY <1>4
  <1> QED BY <1>5, <1>6 DEF jobs, A


(* The grid of a call, as GridCoversResult asks for it.                    *)
CoversResult(x, workload) ==
  LET op == LastMatvec(x)
      rows == IF op.rowsStatic THEN op.rows ELSE workload[x.ordinal + 1]
      jobs == (1 .. Count(x.grid[1], workload)) \X (1 .. Count(x.grid[2], workload))
      last(a) == IF a * FeaturesPerJob < op.features THEN a * FeaturesPerJob ELSE op.features
      computes(j) == {j[2]} \X (last(j[1]) - FeaturesPerJob + 1 .. last(j[1]))
      result == (1 .. rows) \X (1 .. op.features)
  IN /\ UNION {computes(j) : j \in jobs} = result
     /\ \A j \in jobs : UNION {computes(k) : k \in jobs \ {j}} # result

LEMMA ProductIsCovered ==
  ASSUME NEW stmt, NEW w, NEW workload, NEW node, IsProduct(stmt.op, w, workload, node),
         stmt.kernel = "matvec", stmt.op.rows \in Nat, stmt.op.features \in Nat,
         FeaturesPerJob <= stmt.op.features
  PROVE  CoversResult(Dispatch(stmt, w, BuildCount(Dispatch(stmt, w, NoGrid))), workload)
  <1> DEFINE g == BuildCount(Dispatch(stmt, w, NoGrid))
             x == Dispatch(stmt, w, g)
             op == stmt.op
             R == IF op.rowsStatic THEN op.rows ELSE workload[0 + 1]
             A == CeilDiv(op.features, FeaturesPerJob)
             rows == IF op.rowsStatic THEN Static(op.rows) ELSE Argument(1 + 0)
  <1>1. g = <<Static(A), rows, Static(1)>>
    BY ProductGrid
  <1> HIDE DEF g, rows
  <1>2. LastMatvec(x) = op
    BY ProductGrid
  <1>3. x.ordinal = 0 /\ x.grid = g
    BY DispatchFields
  <1> HIDE DEF x
  <1>4. x.grid[1] = Static(A) /\ x.grid[2] = rows
    BY <1>1, <1>3
  <1> HIDE DEF A
  <1>5. Count(x.grid[1], workload) = A
    BY <1>4, CountIs
  <1>6. R \in Nat /\ Count(x.grid[2], workload) = R
    <2>1. CASE op.rowsStatic
      <3>1. rows = Static(op.rows) /\ R = op.rows
        BY <2>1 DEF rows
      <3> QED BY <1>4, <3>1, CountIs
    <2>2. CASE ~op.rowsStatic
      <3>1. PICK r \in Nat : workload = <<r>>
        BY <2>2 DEF IsProduct
      <3>2. rows = Argument(1 + 0) /\ R = r
        BY <2>2, <3>1 DEF rows
      <3> QED BY <1>4, <3>1, <3>2, CountIs
    <2> QED BY <2>1, <2>2
  <1>7. R = IF LastMatvec(x).rowsStatic THEN LastMatvec(x).rows ELSE workload[x.ordinal + 1]
    BY <1>2, <1>3
  <1> HIDE DEF R
  <1>8. /\ UNION {Computes(op.features, j) : j \in Jobs(A, R)} = (1 .. R) \X (1 .. op.features)
        /\ \A j \in Jobs(A, R) :
             UNION {Computes(op.features, k) : k \in Jobs(A, R) \ {j}}
               # (1 .. R) \X (1 .. op.features)
    BY <1>6, GridIsCovered DEF A
  <1> HIDE DEF op
  <1>9. CoversResult(x, workload)
    BY <1>2, <1>5, <1>6, <1>7, <1>8 DEF CoversResult, Jobs, Computes, FeaturesOf, LastOf
  <1> QED BY <1>9 DEF x, g

LEMMA GridsCover == TInv => GridCoversResult
  <1> SUFFICES ASSUME TInv, NEW s \in DOMAIN sites,
                      stage[sites[s].executable] \in {"bind", "link", "serialize"},
                      MatvecsOf(ExportOf(sites[s])) # {}
               PROVE  CoversResult(ExportOf(sites[s]), sites[s].workload)
    BY Zenon DEF GridCoversResult, CoversResult
  <1> DEFINE call == sites[s]
             node == SourceOp(call.op)
             defs == DefsOf(call.op)
             st == stage[call.executable]
             x == ExportOf(call)
  <1>1. IsCall(call) /\ IInv /\ OpsInv
    BY DEF TInv, CallsInv
  <1>2. PICK b : /\ IsBodyOf(b, call.op, call.tensors, call.workload, node, defs)
                 /\ CallReaches(call, b)
    BY <1>1 DEF IsCall
  <1>3. PICK op, ds, init, loads, w, T :
          /\ b = Dispatch(Stmt(op, ds, init, loads, Len(T) + 1, NoKernel), w, NoGrid)
          /\ IsOneOf(op, ds, init, loads, w, T, call.workload, node, defs)
    BY <1>2, Zenon DEF IsBodyOf
  <1> DEFINE stmt == Stmt(op, ds, init, loads, Len(T) + 1, NoKernel)
             new == Converted(stmt)
             kernel == KernelOf(op, ds, init)
             g == BuildCount(Dispatch(new, w, NoGrid))
  <1>4. x = At(b, st) /\ st \in Stages /\ st # "convert" /\ st # "count"
    BY <1>2, ExportIs DEF Stages
  <1> HIDE DEF x, st
  <1>5. x = Dispatch(new, w, g)
    BY <1>3, <1>4, CountedIs
  <1>6. new.kernel = "matvec"
    <2>1. DOMAIN x.body = {1} /\ x.body[1] = new
      BY <1>5, DispatchFields
    <2> HIDE DEF new
    <2>2. MatvecsOf(x) # {}
      BY DEF x
    <2> QED BY <2>1, <2>2 DEF MatvecsOf
  <1>7. kernel = "matvec" /\ new.op = op
    <2>1. kernel # NoKernel
      <3>1. stmt.kernel = NoKernel /\ NoKernel # "matvec"
        BY DEF Stmt, NoKernel
      <3> HIDE DEF stmt
      <3> QED BY <1>6, <3>1, ConvertedIs DEF stmt
    <2>2. new = Stmt(op, ds, init, KernelLoads(kernel, loads), Len(T) + 1, kernel)
      BY <2>1, ConvertedIs
    <2> HIDE DEF new, kernel
    <2>3. new.kernel = kernel /\ new.op = op
      BY <2>2 DEF Stmt
    <2> QED BY <1>6, <2>3
  <1>8. IsProduct(op, w, call.workload, node)
    BY <1>3, <1>7, MatvecIsProduct
  <1>9. op.rows \in Nat /\ op.features \in Nat
    <2>1. call.op \in LinalgIds
      BY <1>1 DEF IsCall
    <2>2. Matmul(node.op) /\ op = node.op
      BY <1>8 DEF IsProduct
    <2> QED BY <1>1, <2>1, <2>2, LinalgOpIs DEF IsLinalgOp
  <1>10. FeaturesPerJob <= op.features
    <2> DEFINE counted == Dispatch(new, w, NoGrid)
    <2>1. Passed(b, st)
      BY <1>2 DEF CallReaches, call, st
    <2>2. Fits("count", ConvertedExport(b))
      BY <1>4, <2>1 DEF Passed
    <2>3. ConvertedExport(b) = counted
      BY <1>3, ConvertedDispatch
    <2> HIDE DEF new
    <2>4. ~CountFails(counted) /\ counted.region = "placeholder"
      BY <2>2, <2>3, DispatchFields DEF Fits
    <2> HIDE DEF counted
    <2>5. MatvecsOf(counted) # {} /\ LastMatvec(counted) = new.op
      BY <1>6, ProductGrid DEF counted
    <2>6. ~(LastMatvec(counted).features < FeaturesPerJob)
      BY <2>4, <2>5 DEF CountFails
    <2> QED BY <1>7, <1>9, <2>5, <2>6, TranslationAssumption
  <1> HIDE DEF new, call, node
  <1>11. CoversResult(Dispatch(new, w, g), call.workload)
    BY <1>6, <1>7, <1>8, <1>9, <1>10, ProductIsCovered
  <1> QED BY <1>5, <1>11 DEF x, call

(* The jobs of a matrix product compute every element of its result and    *)
(* none of them could be left out, for any sizes and any rows at run time  *)
(* (ResolveWorkgroupCountPass.cpp:43-77).                                  *)
THEOREM GridsCoverResults == Spec => []GridCoversResult
  BY CompilerInvariance, GridsCover, PTL


-----------------------------------------------------------------------------
(* What the passes take.  A kernel for an elementwise operation, its loads *)
(* those of bindings, fits every pass.                                     *)
Elementary(kernel, loads) ==
  /\ kernel \in {"add", "relu"}
  /\ Len(KernelLoads(kernel, loads)) = Len(KernelColumns(kernel).inputs)
  /\ NoBinding \notin Range(KernelLoads(kernel, loads))

LEMMA ElementaryFits ==
  ASSUME NEW op, NEW ds, NEW init, NEW loads, NEW store, NEW w, NEW kernel,
         kernel = KernelOf(op, ds, init), Elementary(kernel, loads), VerifyKernelOp(op, kernel),
         op.static, op.rows * op.cols <= MaxColumnWords, NEW st \in Stages
  PROVE  Fits(st, At(Dispatch(Stmt(op, ds, init, loads, store, NoKernel), w, NoGrid), st))
  <1> DEFINE stmt == Stmt(op, ds, init, loads, store, NoKernel)
             b == Dispatch(stmt, w, NoGrid)
             new == Converted(stmt)
             x == At(b, st)
  <1>1. kernel # NoKernel /\ kernel # "matvec"
    BY DEF Elementary, NoKernel
  <1>2. new = Stmt(op, ds, init, KernelLoads(kernel, loads), store, kernel)
    BY <1>1, ConvertedIs
  <1> HIDE DEF new
  <1>3. new.kernel = kernel /\ new.op = op /\ new.loads = KernelLoads(kernel, loads)
    BY <1>2 DEF Stmt
  <1>4. st # "convert" => \E g : x = Dispatch(new, w, g)
    BY CountedIs DEF new
  <1>5. CASE st = "convert"
    <2>1. x = b
      BY <1>5 DEF At
    <2>2. DOMAIN b.body = {1} /\ b.body[1] = stmt /\ stmt.op = op
      BY DispatchFields DEF Stmt
    <2> HIDE DEF b, x, stmt
    <2>3. Verified(stmt)
      BY <1>3, <2>2 DEF Verified, new
    <2> QED BY <1>5, <2>1, <2>2, <2>3 DEF Fits, x, b, stmt
  <1>6. ASSUME NEW g, x = Dispatch(new, w, g), st # "convert" PROVE Fits(st, x)
    <2>1. DOMAIN x.body = {1} /\ x.body[1] = new /\ x.region = "placeholder"
      BY <1>6, DispatchFields
    <2> HIDE DEF x
    <2>2. ~CountFails(x)
      <3>1. MatvecsOf(x) = {}
        BY <1>1, <1>3, <2>1 DEF MatvecsOf
      <3> QED BY <2>1, <3>1 DEF CountFails
    <2>3. Materializable(x)
      <3>1. KernelsOf(x) = {1}
        BY <1>1, <1>3, <2>1 DEF KernelsOf
      <3>2. (CHOOSE s \in KernelsOf(x) : TRUE) = 1
        BY <3>1
      <3>3. Kernel(x) = new
        BY <2>1, <3>2 DEF Kernel
      <3> QED BY <1>3, <2>1, <3>1, <3>3 DEF Materializable, HasOneKernel, Elementary
    <2>4. Serializable(x)
      BY <1>1, <1>3, <2>1 DEF Serializable, Elementary
    <2> QED BY <1>6, <2>2, <2>3, <2>4 DEF Fits
  <1> QED BY <1>4, <1>5, <1>6 DEF b, stmt

LEMMA SumIsElementary ==
  ASSUME NEW T \in Seq(Seq(Nat)), NEW l1 \in DOMAIN T, NEW l2 \in DOMAIN T
  PROVE  Elementary("add", <<l1, l2>>) /\ KernelLoads("add", <<l1, l2>>) = <<l1, l2>>
  <1>1. l1 # 0 /\ l2 # 0
    BY LenProperties
  <1> DEFINE q == KernelLoads("add", <<l1, l2>>)
  <1>2. q = [k \in {1, 2} |-> <<l1, l2>>[k]]
    <2>1. KernelInputs("add") = <<1, 2>>
      BY DEF KernelInputs
    <2>2. DOMAIN <<1, 2>> = {1, 2} /\ \A k \in {1, 2} : <<1, 2>>[k] = k
      OBVIOUS
    <2> QED BY <2>1, <2>2 DEF KernelLoads
  <1> HIDE DEF q
  <1>3. q[1] = l1 /\ q[2] = l2 /\ q \in [1 .. 2 -> {l1, l2}]
    BY <1>2
  <1>4. q \in Seq({l1, l2}) /\ Len(q) = 2 /\ Range(q) \subseteq {l1, l2}
    <2>1. q \in Seq({l1, l2}) /\ Len(q) = 2
      BY <1>3, FunctionIsSeq
    <2> QED BY <1>3, <2>1 DEF Range
  <1>5. q = <<l1, l2>>
    BY <1>3, <1>4, SeqTwo
  <1>6. Len(KernelColumns("add").inputs) = 2
    BY DEF KernelColumns
  <1>7. NoBinding \notin Range(q)
    BY <1>1, <1>4 DEF NoBinding
  <1> QED BY <1>4, <1>5, <1>6, <1>7 DEF Elementary, q

LEMMA ReluIsElementary ==
  ASSUME NEW T \in Seq(Seq(Nat)), NEW l \in DOMAIN T
  PROVE  Elementary("relu", <<l>>) /\ KernelLoads("relu", <<l>>) = <<l>>
  <1>1. l # 0
    BY LenProperties
  <1> DEFINE q == KernelLoads("relu", <<l>>)
  <1>2. q = [k \in {1} |-> l]
    <2>1. KernelInputs("relu") = <<1>>
      BY DEF KernelInputs
    <2> QED BY <2>1 DEF KernelLoads
  <1> HIDE DEF q
  <1>3. q[1] = l /\ q \in [1 .. 1 -> {l}] /\ 1 \in Nat
    BY <1>2
  <1>4. q \in Seq({l}) /\ Len(q) = 1 /\ Range(q) \subseteq {l}
    <2>1. q \in Seq({l}) /\ Len(q) = 1
      BY <1>3, FunctionIsSeq
    <2> QED BY <1>3, <2>1 DEF Range
  <1>5. q = <<l>>
    BY <1>3, <1>4, SeqOne
  <1>6. Len(KernelColumns("relu").inputs) = 1
    BY DEF KernelColumns
  <1>7. NoBinding \notin Range(q)
    BY <1>1, <1>4 DEF NoBinding
  <1> QED BY <1>4, <1>5, <1>6, <1>7 DEF Elementary, q

(* Which of its inputs the source defines by a splat does not change.      *)
LEMMA SplatsStay ==
  ASSUME IInv, NEW c \in LinalgIds, NEW i \in DOMAIN DefsOf(c), DefsOf(c)[i].kind = "splat"
  PROVE  i \in Splats(SourceOp(c))
  <1> DEFINE node == SourceOp(c)
             a == node.args[i]
  <1>1. IsFunction(source) /\ c \in SourceIds /\ i \in DOMAIN Inputs(node)
    BY LinalgIs DEF IInv, MachineInv, DefsOf
  <1>2. i \in DOMAIN node.args
    <2>1. IsNode(node) /\ node.kind = "linalg"
      BY <1>1, SourceIdIs, LinalgIs
    <2>2. node.args \in Seq(Seq(Nat)) /\ node.args # <<>>
      <3>1. Len(node.args) \in Nat \ {0}
        BY <1>1, LinalgIs
      <3> QED BY <2>1, <3>1 DEF IsNode
    <2> HIDE DEF node
    <2>3. Len(node.args) \in Nat \ {0} /\ DOMAIN node.args = 1 .. Len(node.args)
          /\ DOMAIN Inputs(node) = 1 .. Len(node.args) - 1
      BY <2>2, InputsAre
    <2> DEFINE l == Len(node.args)
    <2>4. l \in Nat /\ 1 .. l - 1 \subseteq 1 .. l
      BY <2>3
    <2> QED BY <1>1, <2>3, <2>4
  <1>3. a \in SourceIds /\ a = Operand(c, i)
    BY <1>1, <1>2, SourceIdIs DEF Operand
  <1>4. SourceOp(a).kind = "splat"
    BY <1>1 DEF DefsOf, SourceOp
  <1>5. a \in Values /\ SourceId(a)
    BY <1>1, <1>3, UseComes, SourceIdIs
  <1> HIDE DEF a
  <1>6. IsOperation(NodeOf(a)) /\ NodeOf(a).id = a
    <2>1. Defining(block, a) \in DOMAIN block /\ NodeOf(a).id = a
      BY <1>5, NodeIs
    <2>2. Len(block[Defining(block, a)].id) = 1
      BY <1>5, <2>1 DEF NodeOf, SourceId
    <2>3. IsOperation(block[Defining(block, a)])
      BY <2>1, <2>2, KnownBy
    <2> QED BY <2>1, <2>3 DEF NodeOf
  <1>7. NodeOf(a).kind = "splat"
    BY <1>4, <1>6 DEF IsOperation
  <1> HIDE DEF node
  <1>8. SourceOf(node, i).kind = "splat"
    BY <1>7 DEF SourceOf, NodeOf, a
  <1> QED BY <1>1, <1>8 DEF Splats, node


(* A sum of two tensors and a relu fit every pass, if their sizes do.      *)
LEMMA BodyFits ==
  ASSUME NEW op, NEW ds, NEW init, NEW loads, NEW w, NEW T \in Seq(Seq(Nat)),
         NEW node, NEW defs, NEW st \in Stages,
         IsSum(op, loads, T, node, defs) \/ IsRelu(op, ds, loads, T, node, defs),
         node.op.static, node.op.rows * node.op.cols <= MaxColumnWords,
         Shape(node.op, node.op.maps[1]) = Shape(node.op, node.op.out)
  PROVE  Fits(st, At(Dispatch(Stmt(op, ds, init, loads, Len(T) + 1, NoKernel), w, NoGrid), st))
  <1> DEFINE kernel == KernelOf(op, ds, init)
  <1>1. CASE IsSum(op, loads, T, node, defs)
    <2>1. kernel = "add" /\ op = node.op
      BY <1>1, KernelIs DEF IsSum
    <2>2. PICK l1 \in DOMAIN T, l2 \in DOMAIN T : loads = <<l1, l2>>
      BY <1>1 DEF IsSum
    <2>3. Elementary("add", loads)
      BY <2>2, SumIsElementary
    <2>4. VerifyKernelOp(op, "add")
      <3>1. op.maps = <<"id", "id">> /\ op.out = "id"
        BY <1>1, <2>1 DEF IsSum, IsStrelaLinalgAdd
      <3>2. DOMAIN KernelInputs("add") = {1, 2}
        BY DEF KernelInputs
      <3>3. op.maps[1] = "id" /\ op.maps[2] = "id"
        BY <3>1
      <3> QED BY <3>1, <3>2, <3>3 DEF VerifyKernelOp
    <2> HIDE DEF kernel
    <2> QED BY <2>1, <2>3, <2>4, ElementaryFits DEF kernel
  <1>2. CASE IsRelu(op, ds, loads, T, node, defs)
    <2>1. kernel = "relu" /\ op.static
      BY <1>2, KernelIs DEF IsRelu
    <2>2. PICK l \in DOMAIN T : loads = <<l>>
      BY <1>2 DEF IsRelu
    <2>3. Elementary("relu", loads)
      BY <2>2, ReluIsElementary
    <2>4. op.rows = node.op.rows /\ op.cols = node.op.cols /\ op.out = node.op.out
          /\ op.maps[1] = node.op.maps[1]
      BY <1>2 DEF IsRelu
    <2>5. VerifyKernelOp(op, "relu")
      <3>1. DOMAIN KernelInputs("relu") = {1}
        BY DEF KernelInputs
      <3>2. Shape(op, op.maps[1]) = Shape(op, op.out)
        BY <2>4 DEF Shape
      <3> QED BY <3>1, <3>2 DEF VerifyKernelOp
    <2>6. op.rows * op.cols <= MaxColumnWords
      BY <2>4
    <2> HIDE DEF kernel
    <2> QED BY <2>1, <2>3, <2>5, <2>6, ElementaryFits DEF kernel
  <1> QED BY <1>1, <1>2

LEMMA PlacedCompile == TInv => PlacedOpsCompile
  <1> SUFFICES ASSUME TInv, NEW s \in DOMAIN sites, ~MayFail(SourceOp(sites[s].op))
               PROVE  Fits(stage[sites[s].executable], ExportOf(sites[s]))
    BY DEF PlacedOpsCompile
  <1> DEFINE call == sites[s]
             node == SourceOp(call.op)
             defs == DefsOf(call.op)
             st == stage[call.executable]
  <1>1. IsCall(call) /\ IInv /\ OpsInv
    BY DEF TInv, CallsInv
  <1>2. PICK b : /\ IsBodyOf(b, call.op, call.tensors, call.workload, node, defs)
                 /\ CallReaches(call, b)
    BY <1>1 DEF IsCall
  <1>3. PICK op, ds, init, loads, w, T :
          /\ b = Dispatch(Stmt(op, ds, init, loads, Len(T) + 1, NoKernel), w, NoGrid)
          /\ T \in Seq(Seq(Nat))
          /\ IsOneOf(op, ds, init, loads, w, T, call.workload, node, defs)
    BY <1>2, Zenon DEF IsBodyOf
  <1>4. call.op \in LinalgIds /\ st \in Stages
    BY <1>1 DEF IsCall, TInv, ExecutablesInv
  <1>5. ExportOf(call) = At(b, st)
    BY <1>2, ExportIs
  <1>6. ~IsProduct(op, w, call.workload, node)
    BY DEF IsProduct, MayFail
  <1>7. ~IsLostSum(op, ds, init, node, defs)
    <2> SUFFICES ASSUME IsLostSum(op, ds, init, node, defs) PROVE FALSE
      OBVIOUS
    <2>1. node.op.body = "addi" /\ \E i \in DOMAIN defs : defs[i].kind = "splat"
      BY DEF IsLostSum
    <2>2. Splats(node) # {}
      BY <1>1, <1>4, <2>1, SplatsStay
    <2> QED BY <2>1, <2>2 DEF MayFail
  <1>8. IsSum(op, loads, T, node, defs) \/ IsRelu(op, ds, loads, T, node, defs)
    BY <1>3, <1>6, <1>7 DEF IsOneOf
  <1>9. /\ node.op.static /\ ~(node.op.rows * node.op.cols > MaxColumnWords)
        /\ Shape(node.op, node.op.maps[1]) = Shape(node.op, node.op.out)
    BY Zenon DEF MayFail
  <1>10. node.op.rows * node.op.cols <= MaxColumnWords
    <2>1. Generic(node.op)
      BY <1>8 DEF IsSum, IsRelu, IsStrelaLinalgAdd, IsStrelaLinalgRelu, Elementwise
    <2>2. node.op.rows \in Nat /\ node.op.cols \in Nat
      BY <1>1, <1>4, <2>1, LinalgOpIs DEF IsLinalgOp
    <2> HIDE DEF node
    <2>3. \A r, c \in Nat : ~(r * c > MaxColumnWords) => r * c <= MaxColumnWords
      <3>1. MaxColumnWords \in Nat
        BY TranslationAssumption
      <3> QED BY <3>1
    <2> QED BY <1>9, <2>2, <2>3
  <1> HIDE DEF node, st, call
  <1>11. Fits(st, At(b, st))
    BY <1>3, <1>4, <1>8, <1>9, <1>10, BodyFits
  <1> QED BY <1>5, <1>11 DEF st, call

(* Every operation that is placed and has a kernel the backend can write   *)
(* down fits each pass over its executable, for any programs and any       *)
(* hand-written executables beside it (TransferWrapPass.cpp:82-85).        *)
THEOREM PlacedOperationsCompile == Spec => []PlacedOpsCompile
  BY CompilerInvariance, PlacedCompile, PTL


-----------------------------------------------------------------------------
(* What a call computes.  The words of a result are those that the points  *)
(* of the iteration space are written to.                                  *)
LEMMA WordIs ==
  ASSUME NEW A \in Nat, NEW N \in Nat, NEW w \in 0 .. A * N - 1
  PROVE  \E q \in 0 .. A - 1, r \in 0 .. N - 1 : q * N + r = w
  <1>1. N # 0 /\ w \in Nat /\ A * N \in Nat /\ w < A * N
    OBVIOUS
  <1>2. PICK q : q = w \div N
    OBVIOUS
  <1>3. PICK r : r = w % N
    OBVIOUS
  <1>4. q \in Nat /\ r \in 0 .. N - 1 /\ w = q * N + r
    BY <1>1, <1>2, <1>3, DivMod
  <1>5. q < A
    <2>1. SUFFICES ASSUME A <= q PROVE FALSE
      BY <1>4
    <2>2. A * N <= q * N
      <3>1. CASE A = q
        BY <1>4, <3>1
      <3>2. CASE A < q
        <4>1. A * N + N <= q * N /\ A * N \in Nat /\ q * N \in Nat
          BY <1>4, <3>2, MulLess
        <4> QED BY <4>1
      <3> QED BY <1>4, <2>1, <3>1, <3>2
    <2> QED BY <1>1, <1>4, <2>2
  <1> QED BY <1>4, <1>5

LEMMA WordIsWritten ==
  ASSUME NEW op, op.rows \in Nat, op.cols \in Nat, op.out \in {"id", "swap"},
         NEW w \in ResultWords(op)
  PROVE  \E d \in Points(op) : WordAt(op, op.out, d) = w
  <1>1. PICK R \in Nat, C \in Nat : R = op.rows /\ C = op.cols
    OBVIOUS
  <1>2. w \in 0 .. R * C - 1 /\ R * C = C * R
    BY <1>1 DEF ResultWords
  <1>3. CASE op.out = "id"
    <2>1. PICK q \in 0 .. R - 1, r \in 0 .. C - 1 : q * C + r = w
      BY <1>2, WordIs
    <2>2. <<q, r>> \in Points(op)
      BY <1>1 DEF Points
    <2>3. WordAt(op, op.out, <<q, r>>) = q * C + r
      BY <1>1, <1>3 DEF WordAt
    <2> QED BY <2>1, <2>2, <2>3
  <1>4. CASE op.out = "swap"
    <2>1. w \in 0 .. C * R - 1
      BY <1>2
    <2>2. PICK q \in 0 .. C - 1, r \in 0 .. R - 1 : q * R + r = w
      BY <2>1, WordIs
    <2>3. <<r, q>> \in Points(op)
      BY <1>1 DEF Points
    <2>4. WordAt(op, op.out, <<r, q>>) = q * R + r
      BY <1>1, <1>4 DEF WordAt
    <2> QED BY <2>2, <2>3, <2>4
  <1> QED BY <1>3, <1>4

(* A result and its terms, as words of tensors.                            *)
Result(body, terms) == [body |-> body, terms |-> terms]
Spot(tensor, word) == [tensor |-> tensor, word |-> word]
Located(Q, t) ==
  IF t.input = 0 THEN [tensor |-> <<>>, word |-> t.word]
  ELSE [tensor |-> Q[t.input], word |-> t.word]
LocatedAll(Q, terms) == {Located(Q, t) : t \in terms}

Pair(t, u) == {t, u}

LEMMA LocatedIs ==
  /\ \A Q, w, i, j : i # 0 /\ j # 0 =>
       LocatedAll(Q, Pair(Term(i, w), Term(j, w))) = Pair(Spot(Q[i], w), Spot(Q[j], w))
  /\ \A Q, w, i : i # 0 =>
       LocatedAll(Q, Pair(Term(i, w), Constant(0))) = Pair(Spot(Q[i], w), Spot(<<>>, 0))
  <1>1. \A Q, w, i : i # 0 => Located(Q, Term(i, w)) = Spot(Q[i], w)
    BY DEF Located, Term, Spot
  <1>2. \A Q : Located(Q, Constant(0)) = Spot(<<>>, 0)
    BY DEF Located, Constant, Spot
  <1>3. \A Q, t, u : LocatedAll(Q, Pair(t, u)) = Pair(Located(Q, t), Located(Q, u))
    BY DEF LocatedAll, Pair
  <1> QED BY <1>1, <1>2, <1>3

(* The point that writes a word, and the terms there.                      *)
PointOf(op, w) == CHOOSE p \in Points(op) : WordAt(op, op.out, p) = w
TermsAt(op, defs, d) == {TermAt(op, defs, op.uses[u], d) : u \in DOMAIN op.uses}

LEMMA WantedIs ==
  ASSUME NEW c, NEW w \in ResultWords(SourceOp(c).op)
  PROVE  LET node == SourceOp(c) IN
         Wanted(node, w)
           = Result(node.op.body,
                    LocatedAll(node.args, TermsAt(node.op, DefsOf(c), PointOf(node.op, w))))
  <1> DEFINE node == SourceOp(c)
             defs == DefsOf(c)
             terms == TermsAt(node.op, defs, PointOf(node.op, w))
             result == LinalgResult(node.op, defs)[w]
  <1>1. result = Result(node.op.body, terms)
    <2> HIDE DEF node, defs
    <2>1. LinalgResult(node.op, defs)[w] = [body |-> node.op.body, terms |-> terms]
      BY DEF LinalgResult, TermsAt, PointOf, node
    <2> QED BY <2>1 DEF Result
  <1>2. Wanted(node, w) = [result EXCEPT !.terms = LocatedAll(node.args, @)]
    BY DEF Wanted, LocatedAll, Located, DefsOf
  <1> HIDE DEF result, terms
  <1>3. [Result(node.op.body, terms) EXCEPT !.terms = LocatedAll(node.args, @)]
          = Result(node.op.body, LocatedAll(node.args, terms))
    <2> HIDE DEF node
    <2> QED BY DEF Result
  <1>4. Wanted(node, w) = Result(node.op.body, LocatedAll(node.args, terms))
    BY <1>1, <1>2, <1>3
  <1> QED BY <1>4 DEF terms

ColumnOf(x, site) == CHOOSE c \in 0 .. 3 : x.outputs[c] = Len(site.tensors)

LEMMA ComputedIs ==
  \A x, site, w, column, body, terms :
    /\ ColumnOf(x, site) = column
    /\ ColumnResult(x.kernel, column, x.inputs, w) = Result(body, terms)
    => Computed(x, site, w) = Result(body, LocatedAll(site.tensors, terms))
  <1> SUFFICES ASSUME NEW x, NEW site, NEW w, NEW column, NEW body, NEW terms,
                      ColumnOf(x, site) = column,
                      ColumnResult(x.kernel, column, x.inputs, w) = Result(body, terms)
               PROVE  Computed(x, site, w) = Result(body, LocatedAll(site.tensors, terms))
    OBVIOUS
  <1> DEFINE result == ColumnResult(x.kernel, ColumnOf(x, site), x.inputs, w)
  <1>1. Computed(x, site, w) = [result EXCEPT !.terms = LocatedAll(site.tensors, @)]
    BY DEF Computed, ColumnOf, LocatedAll, Located, NoBinding
  <1>2. [Result(body, terms) EXCEPT !.terms = LocatedAll(site.tensors, @)]
          = Result(body, LocatedAll(site.tensors, terms))
    BY DEF Result
  <1>3. result = Result(body, terms)
    OBVIOUS
  <1> HIDE DEF result
  <1> QED BY <1>1, <1>2, <1>3

(* The columns that an export is serialised with.                          *)
SumColumns(l1, l2) == [c \in 0 .. 3 |-> IF c = 0 THEN l1 ELSE IF c = 1 THEN l2 ELSE NoBinding]
ReluColumns(l) == [c \in 0 .. 3 |-> IF c = 0 THEN l ELSE NoBinding]
StoredAt(column, store) == [c \in 0 .. 3 |-> IF c = column THEN store ELSE NoBinding]

LEMMA SumExport ==
  ASSUME NEW op, NEW ds, NEW init, NEW l1, NEW l2, NEW store, NEW w, NEW g
  PROVE  LET y == GetExport(Dispatch(Stmt(op, ds, init, <<l1, l2>>, store, "add"), w, g)) IN
         /\ y.kernel = "add" /\ y.inputs = SumColumns(l1, l2) /\ y.outputs = StoredAt(1, store)
  <1> DEFINE stmt == Stmt(op, ds, init, <<l1, l2>>, store, "add")
             x == Dispatch(stmt, w, g)
             columns == [inputs |-> <<0, 1>>, output |-> 1]
  <1>1. x.body[1] = stmt
    BY DispatchFields
  <1>2. stmt.kernel = "add" /\ stmt.loads = <<l1, l2>> /\ stmt.store = store
    BY DEF Stmt
  <1>3. KernelColumns("add") = columns
    BY DEF KernelColumns
  <1> HIDE DEF x, stmt
  <1>4. /\ GetExport(x).kernel = "add"
        /\ GetExport(x).inputs =
             [c \in 0 .. 3 |->
                IF \E k \in DOMAIN columns.inputs : columns.inputs[k] = c
                THEN <<l1, l2>>[CHOOSE k \in DOMAIN columns.inputs : columns.inputs[k] = c]
                ELSE NoBinding]
        /\ GetExport(x).outputs = [Unused EXCEPT ![columns.output] = store]
    <2> HIDE DEF columns
    <2> QED BY <1>1, <1>2, <1>3 DEF GetExport
  <1>5. columns.output = 1 /\ DOMAIN columns.inputs = {1, 2}
        /\ columns.inputs[1] = 0 /\ columns.inputs[2] = 1
    OBVIOUS
  <1> HIDE DEF columns
  <1>6. GetExport(x).inputs = SumColumns(l1, l2)
    <2>1. ASSUME NEW c \in 0 .. 3
          PROVE  (IF \E k \in DOMAIN columns.inputs : columns.inputs[k] = c
                  THEN <<l1, l2>>[CHOOSE k \in DOMAIN columns.inputs : columns.inputs[k] = c]
                  ELSE NoBinding) = SumColumns(l1, l2)[c]
      <3>1. CASE c = 0
        <4>1. (CHOOSE k \in DOMAIN columns.inputs : columns.inputs[k] = c) = 1
          BY <1>5, <3>1
        <4> QED BY <1>5, <3>1, <4>1 DEF SumColumns
      <3>2. CASE c = 1
        <4>1. (CHOOSE k \in DOMAIN columns.inputs : columns.inputs[k] = c) = 2
          BY <1>5, <3>2
        <4> QED BY <1>5, <3>2, <4>1 DEF SumColumns
      <3>3. CASE c \notin {0, 1}
        BY <1>5, <3>3 DEF SumColumns
      <3> QED BY <3>1, <3>2, <3>3
    <2>2. SumColumns(l1, l2) = [c \in 0 .. 3 |-> SumColumns(l1, l2)[c]]
      BY DEF SumColumns
    <2> QED BY <1>4, <2>1, <2>2
  <1>7. GetExport(x).outputs = StoredAt(1, store)
    BY <1>4, <1>5 DEF Unused, StoredAt
  <1> QED BY <1>4, <1>6, <1>7 DEF x, stmt

LEMMA ReluExport ==
  ASSUME NEW op, NEW ds, NEW init, NEW l, NEW store, NEW w, NEW g
  PROVE  LET y == GetExport(Dispatch(Stmt(op, ds, init, <<l>>, store, "relu"), w, g)) IN
         /\ y.kernel = "relu" /\ y.inputs = ReluColumns(l) /\ y.outputs = StoredAt(0, store)
  <1> DEFINE stmt == Stmt(op, ds, init, <<l>>, store, "relu")
             x == Dispatch(stmt, w, g)
             columns == [inputs |-> <<0>>, output |-> 0]
  <1>1. x.body[1] = stmt
    BY DispatchFields
  <1>2. stmt.kernel = "relu" /\ stmt.loads = <<l>> /\ stmt.store = store
    BY DEF Stmt
  <1>3. KernelColumns("relu") = columns
    BY DEF KernelColumns
  <1> HIDE DEF x, stmt
  <1>4. /\ GetExport(x).kernel = "relu"
        /\ GetExport(x).inputs =
             [c \in 0 .. 3 |->
                IF \E k \in DOMAIN columns.inputs : columns.inputs[k] = c
                THEN <<l>>[CHOOSE k \in DOMAIN columns.inputs : columns.inputs[k] = c]
                ELSE NoBinding]
        /\ GetExport(x).outputs = [Unused EXCEPT ![columns.output] = store]
    <2> HIDE DEF columns
    <2> QED BY <1>1, <1>2, <1>3 DEF GetExport
  <1>5. columns.output = 0 /\ DOMAIN columns.inputs = {1} /\ columns.inputs[1] = 0
    OBVIOUS
  <1> HIDE DEF columns
  <1>6. GetExport(x).inputs = ReluColumns(l)
    <2>1. ASSUME NEW c \in 0 .. 3
          PROVE  (IF \E k \in DOMAIN columns.inputs : columns.inputs[k] = c
                  THEN <<l>>[CHOOSE k \in DOMAIN columns.inputs : columns.inputs[k] = c]
                  ELSE NoBinding) = ReluColumns(l)[c]
      <3>1. CASE c = 0
        <4>1. (CHOOSE k \in DOMAIN columns.inputs : columns.inputs[k] = c) = 1
          BY <1>5, <3>1
        <4> QED BY <1>5, <3>1, <4>1 DEF ReluColumns
      <3>2. CASE c # 0
        BY <1>5, <3>2 DEF ReluColumns
      <3> QED BY <3>1, <3>2
    <2>2. ReluColumns(l) = [c \in 0 .. 3 |-> ReluColumns(l)[c]]
      BY DEF ReluColumns
    <2> QED BY <1>4, <2>1, <2>2
  <1>7. GetExport(x).outputs = StoredAt(0, store)
    BY <1>4, <1>5 DEF Unused, StoredAt
  <1> QED BY <1>4, <1>6, <1>7 DEF x, stmt

(* What the runtime loads for a call is what its executable was serialised *)
(* from.                                                                   *)
LEMMA ReachedIs ==
  ASSUME ExecutablesInv, NEW call, IsCall(call), NEW b, CallReaches(call, b),
         call.executable \in DOMAIN binary
  PROVE  stage[call.executable] = "done" /\ Passed(b, "done")
         /\ Reached(call) = GetExport(At(b, "done"))
  <1> DEFINE e == call.executable
             exe == executables[e]
             V == exe.variants
             B == binary[e]
             v == CHOOSE v \in DOMAIN B : B[v].target = call.target
             o == call.ordinal
  <1>1. e \in DOMAIN executables /\ stage[e] = "done" /\ B = Serialized(exe) /\ IsExecutable(exe)
    BY DEF ExecutablesInv
  <1>2. Passed(b, "done") /\ Reaches(exe, call.target, o, At(b, "done"))
    BY <1>1 DEF CallReaches
  <1>3. o \in Nat
    BY DEF IsCall
  <1> HIDE DEF exe, o
  <1>4. DOMAIN B = DOMAIN V /\ \A u \in DOMAIN V :
          /\ B[u].target = V[u].target
          /\ B[u].exports = [k \in 0 .. Len(V[u].exports) - 1 |-> GetExport(V[u].exports[k + 1])]
    BY <1>1 DEF Serialized
  <1>5. Reached(call) = B[v].exports[o]
    BY DEF Reached, o
  <1>6. v \in DOMAIN B /\ B[v].target = call.target
    BY <1>2, <1>4 DEF Reaches
  <1> HIDE DEF v, B
  <1>7. o + 1 \in DOMAIN V[v].exports /\ V[v].exports[o + 1] = At(b, "done")
    BY <1>2, <1>4, <1>6 DEF Reaches
  <1>8. o \in 0 .. Len(V[v].exports) - 1
    <2>1. IsList(V[v].exports)
      BY <1>1, <1>4, <1>6 DEF IsExecutable
    <2>2. DOMAIN V[v].exports = 1 .. Len(V[v].exports) /\ Len(V[v].exports) \in Nat
      BY <2>1, LenProperties DEF IsList
    <2> DEFINE l == Len(V[v].exports)
    <2>3. o + 1 \in 1 .. l /\ l \in Nat
      BY <1>7, <2>2
    <2> HIDE DEF l
    <2>4. o \in 0 .. l - 1
      BY <1>3, <2>3
    <2> QED BY <2>4 DEF l
  <1>9. B[v].exports[o] = GetExport(V[v].exports[o + 1])
    BY <1>4, <1>6, <1>8
  <1> QED BY <1>1, <1>2, <1>5, <1>7, <1>9


(* A call with export y computes the operation "node".                     *)
ComputesFor(site, y, node) ==
  /\ TakesTensorsOf(y, site)
  /\ \A w \in ResultWords(node.op) : Computed(y, site, w) = Wanted(node, w)

LEMMA StoreColumn ==
  ASSUME NEW store \in Nat \ {0}, NEW column \in 0 .. 3
  PROVE  /\ (CHOOSE c \in 0 .. 3 : StoredAt(column, store)[c] = store) = column
         /\ store \in Range(StoredAt(column, store))
  <1>1. \A c \in 0 .. 3 : StoredAt(column, store)[c] = store <=> c = column
    BY DEF StoredAt, NoBinding
  <1>2. DOMAIN StoredAt(column, store) = 0 .. 3
    BY DEF StoredAt
  <1>3. store \in Range(StoredAt(column, store))
    BY <1>1, <1>2 DEF Range
  <1> QED BY <1>1, <1>3

(* A call passes the tensors its operation reads, and its result.          *)
PassesTensors(site, T, c) == site.tensors = T \o <<c>>

LEMMA SumComputes ==
  ASSUME IInv, OpsInv, NEW c \in LinalgIds, NEW T \in Seq(Seq(Nat)), NEW op, NEW loads,
         IsSum(op, loads, T, SourceOp(c), DefsOf(c)),
         NEW ds, NEW init, NEW w0, NEW g, NEW site, PassesTensors(site, T, c)
  PROVE  ComputesFor(site, GetExport(Dispatch(Stmt(op, ds, init, loads, Len(T) + 1, "add"), w0, g)),
                   SourceOp(c))
  <1> DEFINE node == SourceOp(c)
             defs == DefsOf(c)
             made == GetExport(Dispatch(Stmt(op, ds, init, loads, Len(T) + 1, "add"), w0, g))
  <1>1. PICK l1 \in DOMAIN T, l2 \in DOMAIN T :
          loads = <<l1, l2>> /\ T[l1] = node.args[1] /\ T[l2] = node.args[2]
    BY DEF IsSum
  <1>2. PICK y : /\ y = made /\ y.kernel = "add"
                 /\ y.inputs = SumColumns(l1, l2) /\ y.outputs = StoredAt(1, Len(T) + 1)
    BY <1>1, SumExport
  <1> HIDE DEF made
  <1>3. PICK n \in Nat : n = Len(T) /\ DOMAIN T = 1 .. n
    BY LenProperties
  <1>4. c \in Seq(Nat)
    <2>1. IsFunction(source) /\ c \in SourceIds
      BY LinalgIs DEF IInv, MachineInv
    <2> QED BY <2>1, SourceIdIs DEF SourceId
  <1>5. Len(site.tensors) = n + 1 /\ \A i \in 1 .. n : site.tensors[i] = T[i]
    BY <1>3, <1>4, ConcatOne DEF PassesTensors
  <1>6. l1 \in 1 .. n /\ l2 \in 1 .. n
    BY <1>3
  <1>7. TakesTensorsOf(y, site)
    <2>1. n + 1 \in Range(y.outputs)
      BY <1>2, <1>3, StoreColumn
    <2>2. Range(y.inputs) \subseteq {NoBinding, l1, l2}
      BY <1>2 DEF SumColumns, Range
    <2>3. {l1, l2} \subseteq 1 .. n + 1
      BY <1>6
    <2> QED BY <1>5, <2>1, <2>2, <2>3 DEF TakesTensorsOf
  <1>8. IsStrelaLinalgAdd(node.op) /\ defs[1].kind # "splat" /\ defs[2].kind # "splat"
    BY DEF IsSum
  <1>9. /\ node.op.maps = <<"id", "id">> /\ node.op.out = "id" /\ node.op.body = "addi"
        /\ node.op.uses \in {<<1, 2>>, <<2, 1>>} /\ Generic(node.op)
    BY <1>8 DEF IsStrelaLinalgAdd, Elementwise
  <1>10. node.op.rows \in Nat /\ node.op.cols \in Nat
    BY <1>9, LinalgOpIs DEF IsLinalgOp
  <1> HIDE DEF node, defs
  <1>11. ASSUME NEW w \in ResultWords(node.op) PROVE Computed(y, site, w) = Wanted(node, w)
    <2>1. PICK d : d = PointOf(node.op, w)
      OBVIOUS
    <2>2. d \in Points(node.op) /\ WordAt(node.op, node.op.out, d) = w
      <3>1. \E p \in Points(node.op) : WordAt(node.op, node.op.out, p) = w
        BY <1>9, <1>10, WordIsWritten
      <3> QED BY <2>1, <3>1 DEF PointOf
    <2>3. WordAt(node.op, "id", d) = w
      BY <1>9, <2>2
    <2>4. TermAt(node.op, defs, 1, d) = Term(1, w) /\ TermAt(node.op, defs, 2, d) = Term(2, w)
      <3>1. node.op.maps[1] = "id" /\ node.op.maps[2] = "id"
        BY <1>9
      <3> QED BY <1>8, <2>3, <3>1 DEF TermAt
    <2> DEFINE terms == TermsAt(node.op, defs, d)
    <2>5. terms = Pair(Term(1, w), Term(2, w))
      <3>1. /\ DOMAIN node.op.uses = {1, 2}
            /\ \/ node.op.uses[1] = 1 /\ node.op.uses[2] = 2
               \/ node.op.uses[1] = 2 /\ node.op.uses[2] = 1
        <4>1. DOMAIN <<1, 2>> = {1, 2} /\ DOMAIN <<2, 1>> = {1, 2}
          OBVIOUS
        <4> QED BY <1>9, <4>1
      <3>2. terms = {TermAt(node.op, defs, node.op.uses[1], d),
                     TermAt(node.op, defs, node.op.uses[2], d)}
        BY <3>1 DEF TermsAt
      <3>3. CASE node.op.uses[1] = 1 /\ node.op.uses[2] = 2
        BY <2>4, <3>2, <3>3 DEF Pair
      <3>4. CASE node.op.uses[1] = 2 /\ node.op.uses[2] = 1
        BY <2>4, <3>2, <3>4 DEF Pair
      <3> QED BY <3>1, <3>3, <3>4
    <2>6. Wanted(node, w) = Result("addi", LocatedAll(node.args, terms))
      BY <1>9, <2>1, WantedIs DEF node, defs
    <2> HIDE DEF terms
    <2>7. Wanted(node, w) = Result("addi", Pair(Spot(node.args[1], w), Spot(node.args[2], w)))
      <3>1. 1 # 0 /\ 2 # 0
        OBVIOUS
      <3> QED BY <2>5, <2>6, <3>1, LocatedIs, Zenon
    <2>8. ColumnResult(y.kernel, 1, y.inputs, w) = Result("addi", Pair(Term(l1, w), Term(l2, w)))
      <3>1. y.inputs[0] = l1 /\ y.inputs[1] = l2
        BY <1>2 DEF SumColumns
      <3>2. y.inputs[1 - 1] = l1
        BY <3>1
      <3> QED BY <1>2, <3>1, <3>2 DEF ColumnResult, Result, Pair
    <2>9. ColumnOf(y, site) = 1
      BY <1>2, <1>3, <1>5, StoreColumn DEF ColumnOf
    <2>10. Computed(y, site, w) = Result("addi", LocatedAll(site.tensors, Pair(Term(l1, w), Term(l2, w))))
      BY <2>8, <2>9, ComputedIs
    <2>11. Computed(y, site, w) = Result("addi", Pair(Spot(site.tensors[l1], w), Spot(site.tensors[l2], w)))
      <3>1. l1 # 0 /\ l2 # 0
        BY <1>6
      <3> QED BY <2>10, <3>1, LocatedIs, Zenon
    <2>12. site.tensors[l1] = node.args[1] /\ site.tensors[l2] = node.args[2]
      BY <1>1, <1>5, <1>6
    <2> QED BY <2>7, <2>11, <2>12
  <1> QED BY <1>2, <1>7, <1>11 DEF ComputesFor, made, node

LEMMA ReluComputes ==
  ASSUME RelusReadInPlace, IInv, OpsInv, NEW c \in LinalgIds, NEW T \in Seq(Seq(Nat)),
         NEW op, NEW ds, NEW loads, IsRelu(op, ds, loads, T, SourceOp(c), DefsOf(c)),
         Shape(op, op.maps[1]) = Shape(op, op.out),
         NEW init, NEW w0, NEW g, NEW site, PassesTensors(site, T, c)
  PROVE  ComputesFor(site, GetExport(Dispatch(Stmt(op, ds, init, loads, Len(T) + 1, "relu"), w0, g)),
                   SourceOp(c))
  <1> DEFINE node == SourceOp(c)
             defs == DefsOf(c)
             made == GetExport(Dispatch(Stmt(op, ds, init, loads, Len(T) + 1, "relu"), w0, g))
  <1>1. PICK l \in DOMAIN T : loads = <<l>> /\ T[l] = node.args[1]
    BY DEF IsRelu
  <1>2. PICK y : /\ y = made /\ y.kernel = "relu"
                 /\ y.inputs = ReluColumns(l) /\ y.outputs = StoredAt(0, Len(T) + 1)
    BY <1>1, ReluExport
  <1> HIDE DEF made
  <1>3. PICK n \in Nat : n = Len(T) /\ DOMAIN T = 1 .. n
    BY LenProperties
  <1>4. IsFunction(source) /\ c \in SourceIds /\ c \in Seq(Nat) /\ node.kind = "linalg"
    <2>1. IsFunction(source) /\ c \in SourceIds /\ node.kind = "linalg"
      BY LinalgIs DEF IInv, MachineInv
    <2> QED BY <2>1, SourceIdIs DEF SourceId
  <1>5. Len(site.tensors) = n + 1 /\ \A i \in 1 .. n : site.tensors[i] = T[i]
    BY <1>3, <1>4, ConcatOne DEF PassesTensors
  <1>6. l \in 1 .. n
    BY <1>3
  <1>7. TakesTensorsOf(y, site)
    <2>1. n + 1 \in Range(y.outputs)
      BY <1>2, <1>3, StoreColumn
    <2>2. Range(y.inputs) \subseteq {NoBinding, l}
      BY <1>2 DEF ReluColumns, Range
    <2>3. {l} \subseteq 1 .. n + 1
      BY <1>6
    <2> QED BY <1>5, <2>1, <2>2, <2>3 DEF TakesTensorsOf
  <1>8. /\ IsStrelaLinalgRelu(node.op, defs) /\ node.op.maps # <<>> /\ defs[1].kind # "splat"
        /\ op.maps[1] = node.op.maps[1] /\ op.out = node.op.out
        /\ op.rows = node.op.rows /\ op.cols = node.op.cols
    BY DEF IsRelu
  <1>9. /\ Generic(node.op) /\ node.op.body = "maxsi" /\ node.op.uses[1] = 1
        /\ \/ node.op.uses[2] = 0 /\ node.op.const = 0
           \/ node.op.uses[2] = 2 /\ ZeroSplat(defs[2])
    BY <1>8, Zenon DEF IsStrelaLinalgRelu, Elementwise
  <1>10. /\ node.op.rows \in Nat /\ node.op.cols \in Nat /\ DOMAIN node.op.uses = 1 .. 2
         /\ node.op.out \in {"id", "swap"}
    <2>1. IsLinalgOp(node.op, Len(node.args) - 1)
      BY LinalgOpIs
    <2> HIDE DEF node
    <2> QED BY <1>9, <2>1 DEF IsLinalgOp
  <1>11. Shape(node.op, node.op.maps[1]) = Shape(node.op, node.op.out)
    BY <1>8 DEF Shape
  <1>12. \A d \in Points(node.op) :
           WordAt(node.op, node.op.maps[1], d) = WordAt(node.op, node.op.out, d)
    <2>1. PICK program \in Programs : source = program.block
      BY DEF OpsInv
    <2>2. Place(c) \in DOMAIN source /\ source[Place(c)] = node
      BY <1>4, SourceIdIs
    <2> HIDE DEF node
    <2>3. PICK i \in DOMAIN program.block : program.block[i] = node
      BY <2>1, <2>2
    <2> QED BY <1>4, <1>8, <1>9, <1>11, <2>3, Zenon DEF RelusReadInPlace
  <1> HIDE DEF node, defs
  <1>13. ASSUME NEW w \in ResultWords(node.op) PROVE Computed(y, site, w) = Wanted(node, w)
    <2>1. PICK d : d = PointOf(node.op, w)
      OBVIOUS
    <2>2. d \in Points(node.op) /\ WordAt(node.op, node.op.out, d) = w
      <3>1. \E p \in Points(node.op) : WordAt(node.op, node.op.out, p) = w
        BY <1>10, WordIsWritten
      <3> QED BY <2>1, <3>1 DEF PointOf
    <2>3. WordAt(node.op, node.op.maps[1], d) = w
      BY <1>12, <2>2
    <2>4. TermAt(node.op, defs, 1, d) = Term(1, w)
      BY <1>8, <2>3 DEF TermAt
    <2>5. TermAt(node.op, defs, node.op.uses[2], d) = Constant(0)
      BY <1>9 DEF TermAt, ZeroSplat
    <2> DEFINE terms == TermsAt(node.op, defs, d)
    <2>6. terms = Pair(Term(1, w), Constant(0))
      <3>1. DOMAIN node.op.uses = {1, 2}
        BY <1>10
      <3>2. terms = {TermAt(node.op, defs, node.op.uses[1], d),
                     TermAt(node.op, defs, node.op.uses[2], d)}
        BY <3>1 DEF TermsAt
      <3> QED BY <1>9, <2>4, <2>5, <3>2 DEF Pair
    <2>7. Wanted(node, w) = Result("maxsi", LocatedAll(node.args, terms))
      BY <1>9, <2>1, WantedIs DEF node, defs
    <2> HIDE DEF terms
    <2>8. Wanted(node, w) = Result("maxsi", Pair(Spot(node.args[1], w), Spot(<<>>, 0)))
      <3>1. 1 # 0
        OBVIOUS
      <3> QED BY <2>6, <2>7, <3>1, LocatedIs, Zenon
    <2>9. ColumnResult(y.kernel, 0, y.inputs, w) = Result("maxsi", Pair(Term(l, w), Constant(0)))
      <3>1. y.inputs[0] = l
        BY <1>2 DEF ReluColumns
      <3> QED BY <1>2, <3>1 DEF ColumnResult, Result, Pair
    <2>10. ColumnOf(y, site) = 0
      BY <1>2, <1>3, <1>5, StoreColumn DEF ColumnOf
    <2>11. Computed(y, site, w) = Result("maxsi", LocatedAll(site.tensors, Pair(Term(l, w), Constant(0))))
      BY <2>9, <2>10, ComputedIs
    <2>12. Computed(y, site, w) = Result("maxsi", Pair(Spot(site.tensors[l], w), Spot(<<>>, 0)))
      <3>1. l # 0
        BY <1>6
      <3> QED BY <2>11, <3>1, LocatedIs, Zenon
    <2>13. site.tensors[l] = node.args[1]
      BY <1>1, <1>5, <1>6
    <2> QED BY <2>8, <2>12, <2>13
  <1> QED BY <1>2, <1>7, <1>13 DEF ComputesFor, made, node


(* A statement that has become a kernel the serializer writes down is a    *)
(* sum or a relu.                                                          *)
LEMMA KernelIsElementary ==
  ASSUME NEW op, NEW ds, NEW init, NEW loads, NEW w, NEW T, NEW workload, NEW node, NEW defs,
         IsOneOf(op, ds, init, loads, w, T, workload, node, defs),
         KernelOf(op, ds, init) # NoKernel, KernelOf(op, ds, init) # "matvec"
  PROVE  \/ IsSum(op, loads, T, node, defs) /\ KernelOf(op, ds, init) = "add"
         \/ IsRelu(op, ds, loads, T, node, defs) /\ KernelOf(op, ds, init) = "relu"
  <1>1. ~IsLostSum(op, ds, init, node, defs)
    BY DEF IsLostSum
  <1>2. ~IsProduct(op, w, workload, node)
    <2> SUFFICES ASSUME IsProduct(op, w, workload, node) PROVE FALSE
      OBVIOUS
    <2>1. Matmul(op)
      BY DEF IsProduct
    <2>2. ~Generic(op)
      BY <2>1 DEF Matmul, Generic
    <2>3. ~IsStrelaLinalgAdd(op) /\ ~IsStrelaLinalgRelu(op, ds)
      BY <2>2 DEF IsStrelaLinalgAdd, IsStrelaLinalgRelu, Elementwise
    <2> QED BY <2>3, KernelIs
  <1>3. CASE IsSum(op, loads, T, node, defs)
    BY <1>3, KernelIs DEF IsSum
  <1>4. CASE IsRelu(op, ds, loads, T, node, defs)
    BY <1>4, KernelIs DEF IsRelu
  <1> QED BY <1>1, <1>2, <1>3, <1>4 DEF IsOneOf

(* What a body has become when it is serialised.                           *)
LEMMA DoneIs ==
  ASSUME NEW op, NEW ds, NEW init, NEW loads, NEW store, NEW w, NEW b,
         b = Dispatch(Stmt(op, ds, init, loads, store, NoKernel), w, NoGrid), Passed(b, "done")
  PROVE  LET kernel == KernelOf(op, ds, init) IN
         /\ kernel # NoKernel /\ kernel # "matvec" /\ VerifyKernelOp(op, kernel)
         /\ \E g : At(b, "done")
                     = Dispatch(Stmt(op, ds, init, KernelLoads(kernel, loads), store, kernel), w, g)
  <1> DEFINE stmt == Stmt(op, ds, init, loads, store, NoKernel)
             kernel == KernelOf(op, ds, init)
             new == Converted(stmt)
             x == CountedExport(ConvertedExport(b))
  <1>1. Fits("convert", b) /\ Fits("bind", x) /\ Fits("serialize", x)
    BY DEF Passed
  <1>2. At(b, "done") = x /\ "done" \in Stages
    BY DEF At, Stages
  <1>3. PICK g : x = Dispatch(new, w, g)
    BY <1>2, CountedIs
  <1> HIDE DEF x
  <1>4. new.kernel # NoKernel
    <2> HIDE DEF new
    <2> QED BY <1>1, <1>3, BoundDispatch
  <1>5. stmt.kernel = NoKernel /\ stmt.op = op
    BY DEF Stmt
  <1>6. kernel # NoKernel
    <2>1. kernel = NoKernel => new = stmt
      BY ConvertedIs
    <2> HIDE DEF new, stmt, kernel
    <2> QED BY <1>4, <1>5, <2>1
  <1>7. new = Stmt(op, ds, init, KernelLoads(kernel, loads), store, kernel)
    BY <1>6, ConvertedIs
  <1>8. new.kernel = kernel
    <2> HIDE DEF new, kernel
    <2> QED BY <1>7 DEF Stmt
  <1>9. kernel # "matvec"
    <2> HIDE DEF new, kernel
    <2>1. x.body[1] = new
      BY <1>3, DispatchFields
    <2>2. Serializable(x)
      BY <1>1 DEF Fits
    <2> QED BY <1>8, <2>1, <2>2 DEF Serializable
  <1>10. VerifyKernelOp(op, kernel)
    <2>1. DOMAIN b.body = {1} /\ b.body[1] = stmt
      BY DispatchFields
    <2> HIDE DEF stmt, kernel
    <2>2. Verified(stmt)
      BY <1>1, <2>1 DEF Fits
    <2>3. VerifyKernelOp(stmt.op, Converted(stmt).kernel)
      BY <2>2 DEF Verified
    <2> QED BY <1>5, <1>8, <2>3 DEF new
  <1> HIDE DEF new, kernel
  <1>11. At(b, "done")
           = Dispatch(Stmt(op, ds, init, KernelLoads(kernel, loads), store, kernel), w, g)
    BY <1>2, <1>3, <1>7
  <1> QED BY <1>6, <1>9, <1>10, <1>11 DEF kernel

LEMMA CallComputes ==
  ASSUME RelusReadInPlace, TInv, NEW call, IsCall(call), call.executable \in DOMAIN binary
  PROVE  ComputesFor(call, Reached(call), SourceOp(call.op))
  <1> DEFINE node == SourceOp(call.op)
             defs == DefsOf(call.op)
  <1>1. IInv /\ OpsInv /\ ExecutablesInv /\ call.op \in LinalgIds
    BY DEF TInv, IsCall
  <1>2. PICK b : /\ IsBodyOf(b, call.op, call.tensors, call.workload, node, defs)
                 /\ CallReaches(call, b)
    BY DEF IsCall
  <1>3. PICK op, ds, init, loads, w, T :
          /\ b = Dispatch(Stmt(op, ds, init, loads, Len(T) + 1, NoKernel), w, NoGrid)
          /\ T \in Seq(Seq(Nat)) /\ call.tensors = T \o <<call.op>>
          /\ IsOneOf(op, ds, init, loads, w, T, call.workload, node, defs)
    BY <1>2, Zenon DEF IsBodyOf
  <1>4. PassesTensors(call, T, call.op)
    BY <1>3 DEF PassesTensors
  <1>5. Passed(b, "done") /\ Reached(call) = GetExport(At(b, "done"))
    BY <1>1, <1>2, ReachedIs
  <1>6. /\ KernelOf(op, ds, init) # NoKernel /\ KernelOf(op, ds, init) # "matvec"
        /\ VerifyKernelOp(op, KernelOf(op, ds, init))
        /\ \E g : At(b, "done")
                    = Dispatch(Stmt(op, ds, init, KernelLoads(KernelOf(op, ds, init), loads),
                                    Len(T) + 1, KernelOf(op, ds, init)), w, g)
    BY <1>3, <1>5, DoneIs
  <1>7. PICK kernel : kernel = KernelOf(op, ds, init)
    OBVIOUS
  <1>8. PICK g : At(b, "done")
                   = Dispatch(Stmt(op, ds, init, KernelLoads(kernel, loads), Len(T) + 1, kernel),
                              w, g)
    BY <1>6, <1>7
  <1>9. PICK y : y = Reached(call)
    OBVIOUS
  <1>10. PICK c \in LinalgIds : c = call.op
    BY <1>1
  <1>11. CASE IsSum(op, loads, T, node, defs) /\ kernel = "add"
    <2>1. PICK l1 \in DOMAIN T, l2 \in DOMAIN T : loads = <<l1, l2>>
      BY <1>11 DEF IsSum
    <2>2. KernelLoads("add", loads) = loads
      BY <1>3, <2>1, SumIsElementary
    <2>3. y = GetExport(Dispatch(Stmt(op, ds, init, loads, Len(T) + 1, "add"), w, g))
      BY <1>5, <1>8, <1>9, <1>11, <2>2
    <2>4. ComputesFor(call, y, SourceOp(c))
      BY <1>1, <1>3, <1>4, <1>10, <1>11, <2>3, SumComputes
    <2> QED BY <1>9, <1>10, <2>4
  <1>12. CASE IsRelu(op, ds, loads, T, node, defs) /\ kernel = "relu"
    <2>1. PICK l \in DOMAIN T : loads = <<l>>
      BY <1>12 DEF IsRelu
    <2>2. KernelLoads("relu", loads) = loads
      BY <1>3, <2>1, ReluIsElementary
    <2>3. y = GetExport(Dispatch(Stmt(op, ds, init, loads, Len(T) + 1, "relu"), w, g))
      BY <1>5, <1>8, <1>9, <1>12, <2>2
    <2>4. Shape(op, op.maps[1]) = Shape(op, op.out)
      <3>1. DOMAIN KernelInputs("relu") = {1}
        BY DEF KernelInputs
      <3>2. VerifyKernelOp(op, "relu")
        BY <1>6, <1>7, <1>12
      <3> QED BY <3>1, <3>2 DEF VerifyKernelOp
    <2>5. ComputesFor(call, y, SourceOp(c))
      BY <1>1, <1>3, <1>4, <1>10, <1>12, <2>3, <2>4, ReluComputes
    <2> QED BY <1>9, <1>10, <2>5
  <1> QED BY <1>3, <1>6, <1>7, <1>11, <1>12, KernelIsElementary

LEMMA CallsCompute ==
  ASSUME RelusReadInPlace
  PROVE  TInv => CallsComputeTheirOps
  <1> SUFFICES ASSUME TInv, NEW s \in DOMAIN sites, sites[s].executable \in DOMAIN binary
               PROVE  ComputesFor(sites[s], Reached(sites[s]), SourceOp(sites[s].op))
    BY DEF CallsComputeTheirOps, ComputesFor
  <1>1. PICK call : call = sites[s]
    OBVIOUS
  <1>2. IsCall(call) /\ call.executable \in DOMAIN binary
    BY <1>1 DEF TInv, CallsInv
  <1>3. ComputesFor(call, Reached(call), SourceOp(call.op))
    BY <1>2, CallComputes
  <1> QED BY <1>1, <1>3

(* Whatever is placed on STRELA computes there what it says, if the relus  *)
(* of the programs read every word where they write it: for any programs,  *)
(* any sizes, any sharing of executables and any order of the passes over  *)
(* them (MaterializeBindingsPass.cpp:208-209).                             *)
THEOREM CallsComputeTheirOperations ==
  ASSUME RelusReadInPlace
  PROVE  Spec => []CallsComputeTheirOps
  BY CompilerInvariance, CallsCompute, PTL


=============================================================================
