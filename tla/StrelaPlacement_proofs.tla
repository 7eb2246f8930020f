------------------------ MODULE StrelaPlacement_proofs ------------------------
(***************************************************************************)
(* Proofs about placement, for any function, devices and topology.         *)
(***************************************************************************)
EXTENDS StrelaCompiler, SequenceTheorems, FiniteSetTheorems, WellFoundedInduction, TLAPS

(* The order of a set of numbers: there is one, by the least bound of a    *)
(* set without, and it has every number of the set once.                   *)
IsOrder(s, S) ==
  /\ s \in [1 .. Cardinality(S) -> S]
  /\ \A k, l \in 1 .. Cardinality(S) : k < l => s[k] < s[l]

LEMMA OrderExists ==
  ASSUME NEW n \in Nat, NEW S \in SUBSET (1 .. n)
  PROVE  \E s : IsOrder(s, S)
  <1> DEFINE Without == {i \in Nat : \E T \in SUBSET (1 .. i) : \A s : ~IsOrder(s, T)}
  <1>1. SUFFICES ASSUME Without # {} PROVE FALSE
    BY <1>1
  <1>2. PICK i \in Without : \A j \in Without : ~(j < i)
    <2>1. Without \subseteq Nat
      OBVIOUS
    <2> HIDE DEF Without
    <2>2. PICK i \in Without : \A j \in Without : <<j, i>> \notin OpToRel(<, Nat)
      BY <1>1, <2>1, NatLessThanWellFounded, WFMin
    <2>3. \A j \in Without : j \in Nat /\ i \in Nat
      BY <2>1
    <2> QED BY <2>2, <2>3 DEF OpToRel
  <1>3. i \in Nat
    OBVIOUS
  <1>4. PICK T \in SUBSET (1 .. i) : \A s : ~IsOrder(s, T)
    OBVIOUS
  <1>5. CASE i = 0
    <2>1. T = {} /\ Cardinality(T) = 0
      <3>1. T = {}
        BY <1>5
      <3> QED BY <3>1, FS_EmptySet
    <2>2. IsOrder([k \in 1 .. 0 |-> 0], T)
      BY <2>1 DEF IsOrder
    <2> QED BY <1>4, <2>2
  <1>6. CASE i # 0
    <2> DEFINE U == T \ {i}
    <2>1. i - 1 \in Nat /\ U \in SUBSET (1 .. i - 1)
      BY <1>3, <1>6
    <2>2. i - 1 \notin Without
      BY <1>2, <1>3, <2>1
    <2>3. PICK u : IsOrder(u, U)
      BY <2>1, <2>2
    <2>4. i \in T
      <3>1. CASE i \notin T
        <4>1. U = T
          BY <3>1
        <4> QED BY <1>4, <2>3, <4>1
      <3> QED BY <3>1
    <2>5. IsFiniteSet(U) /\ Cardinality(U) \in Nat
      <3>1. 1 \in Int /\ i - 1 \in Int
        BY <1>3
      <3>2. IsFiniteSet(1 .. i - 1)
        BY <3>1, FS_Interval, Zenon
      <3> QED BY <2>1, <3>2, FS_Subset, FS_CardinalityType
    <2>6. T = U \cup {i} /\ Cardinality(T) = Cardinality(U) + 1
      <3>1. T = U \cup {i} /\ i \notin U
        BY <2>4
      <3> QED BY <2>5, <3>1, FS_AddElement
    <2> DEFINE c == Cardinality(U)
               t == [k \in 1 .. c + 1 |-> IF k = c + 1 THEN i ELSE u[k]]
    <2>7. /\ u \in [1 .. c -> U]
          /\ \A k, l \in 1 .. c : k < l => u[k] < u[l]
      BY <2>3 DEF IsOrder
    <2>8. c \in Nat /\ Cardinality(T) = c + 1
      BY <2>5, <2>6
    <2> HIDE DEF c
    <2>9. \A k \in 1 .. c : u[k] \in 1 .. i - 1 /\ u[k] \in T
      BY <2>1, <2>6, <2>7
    <2>10. t \in [1 .. c + 1 -> T]
      BY <2>4, <2>8, <2>9
    <2>11. ASSUME NEW k \in 1 .. c + 1, NEW l \in 1 .. c + 1, k < l
           PROVE  t[k] < t[l]
      <3>1. k \in 1 .. c /\ t[k] = u[k]
        BY <2>8, <2>11
      <3>2. CASE l = c + 1
        BY <1>3, <2>9, <3>1, <3>2
      <3>3. CASE l # c + 1
        BY <2>7, <2>8, <2>11, <3>1, <3>3
      <3> QED BY <3>2, <3>3
    <2> HIDE DEF t
    <2>12. IsOrder(t, T)
      BY <2>8, <2>10, <2>11, Zenon DEF IsOrder
    <2> QED BY <1>4, <2>12
  <1> QED BY <1>5, <1>6

LEMMA InOrderIs ==
  ASSUME NEW n \in Nat, NEW S \in SUBSET (1 .. n)
  PROVE  LET m == Cardinality(S)
             s == InOrder(S)
         IN /\ m \in Nat
            /\ s \in [1 .. m -> S]
            /\ \A k, l \in 1 .. m : k < l => s[k] < s[l]
            /\ \A k, l \in 1 .. m : s[k] = s[l] => k = l
            /\ \A i \in S : \E k \in 1 .. m : s[k] = i
  <1> DEFINE m == Cardinality(S)
             s == InOrder(S)
  <1>1. PICK t : IsOrder(t, S)
    BY OrderExists
  <1>2. s \in [1 .. m -> S] /\ \A k, l \in 1 .. m : k < l => s[k] < s[l]
    BY <1>1, Zenon DEF IsOrder, InOrder
  <1>3. IsFiniteSet(S) /\ m \in Nat
    <2>1. 1 \in Int /\ n \in Int
      OBVIOUS
    <2>2. IsFiniteSet(1 .. n)
      BY <2>1, FS_Interval, Zenon
    <2> QED BY <2>2, FS_Subset, FS_CardinalityType
  <1> HIDE DEF s, m
  <1>4. \A k \in 1 .. m : s[k] \in 1 .. n
    BY <1>2
  <1>5. \A k, l \in 1 .. m : s[k] = s[l] => k = l
    BY <1>2, <1>3, <1>4
  <1>6. s \in Injection(1 .. m, S)
    BY <1>2, <1>5 DEF Injection, IsInjective
  <1>7. IsFiniteSet(1 .. m) /\ Cardinality(1 .. m) = Cardinality(S)
    <2>1. 1 \in Int /\ m \in Int
      BY <1>3
    <2>2. IsFiniteSet(1 .. m) /\ Cardinality(1 .. m) = IF 1 > m THEN 0 ELSE m - 1 + 1
      BY <2>1, FS_Interval, Zenon
    <2> QED BY <1>3, <2>2 DEF m
  <1>8. s \in Surjection(1 .. m, S)
    BY <1>3, <1>6, <1>7, FS_Injection
  <1>9. \A i \in S : \E k \in 1 .. m : s[k] = i
    BY <1>8 DEF Surjection
  <1> QED BY <1>2, <1>3, <1>5, <1>9 DEF s, m


-----------------------------------------------------------------------------
(* A block is a sequence whose nodes have ids of their own.                *)
IsBlock(b) == b \in Seq({b[i] : i \in DOMAIN b})

IsNode(n) ==
  /\ n = Node(n.id, n.kind, n.args, n.value, n.op, n.to)
  /\ n.id \in Seq(Nat)
  /\ n.args \in Seq(Seq(Nat))

Distinct(b) == \A i, j \in DOMAIN b : b[i].id = b[j].id => i = j

LEMMA DefiningIs ==
  ASSUME NEW b, Distinct(b), NEW i \in DOMAIN b
  PROVE  Defining(b, b[i].id) = i
  BY Zenon DEF Distinct, Defining

LEMMA BlockDomain ==
  ASSUME NEW b, IsBlock(b)
  PROVE  Len(b) \in Nat /\ DOMAIN b = 1 .. Len(b)
  BY LenProperties DEF IsBlock

LEMMA FunctionIsSeq ==
  ASSUME NEW n \in Nat, NEW S, NEW f \in [1 .. n -> S]
  PROVE  f \in Seq(S) /\ Len(f) = n /\ DOMAIN f = 1 .. n
  <1>1. f \in Seq(S)
    BY SeqDef
  <1>2. DOMAIN f = 1 .. n /\ DOMAIN f = 1 .. Len(f) /\ Len(f) \in Nat
    BY <1>1, LenProperties
  <1>3. Len(f) = n
    BY <1>2
  <1> QED BY <1>1, <1>2, <1>3

LEMMA BlockOf ==
  ASSUME NEW n \in Nat, NEW b, NEW S, b \in [1 .. n -> S]
  PROVE  IsBlock(b) /\ Len(b) = n /\ DOMAIN b = 1 .. n
  <1> DEFINE T == {b[i] : i \in DOMAIN b}
  <1>1. b \in [1 .. n -> T]
    OBVIOUS
  <1> HIDE DEF T
  <1>2. b \in Seq(T)
    BY <1>1, SeqDef
  <1>3. DOMAIN b = 1 .. n /\ DOMAIN b = 1 .. Len(b) /\ Len(b) \in Nat
    BY <1>1, <1>2, LenProperties
  <1>4. Len(b) = n
    BY <1>3
  <1> QED BY <1>2, <1>3, <1>4 DEF IsBlock, T

(* The ids of what wrapping adds, and where they belong.                   *)
Home(id) == <<id[1]>>

SourceId(id) == id \in Seq(Nat) /\ Len(id) = 1

LEMMA IdsAre ==
  ASSUME NEW x, SourceId(x)
  PROVE  /\ x[1] \in Nat /\ Home(x) = x /\ Len(x) = 1
         /\ DimsId(x) \in Seq(Nat) /\ Len(DimsId(x)) = 2 /\ DimsId(x)[2] = 0
         /\ Home(DimsId(x)) = x
         /\ BackId(x) \in Seq(Nat) /\ Len(BackId(x)) = 3
         /\ Home(BackId(x)) = x
         /\ \A i \in Nat : /\ TransferId(x, i) \in Seq(Nat) /\ Len(TransferId(x, i)) = 2
                           /\ TransferId(x, i)[2] = i
                           /\ Home(TransferId(x, i)) = x
  <1>1. x \in Seq(Nat) /\ Len(x) = 1 /\ x[1] \in Nat
    <2>1. x \in Seq(Nat) /\ Len(x) = 1
      BY DEF SourceId
    <2>2. 1 \in 1 .. Len(x)
      BY <2>1
    <2> QED BY <2>1, <2>2, ElementOfSeq
  <1>2. x = <<x[1]>>
    BY <1>1
  <1>3. ASSUME NEW y \in Seq(Nat), Len(y) \in {1, 2}
        PROVE  /\ x \o y \in Seq(Nat) /\ Len(x \o y) = 1 + Len(y)
               /\ Home(x \o y) = x /\ (x \o y)[2] = y[1]
    <2> DEFINE z == x \o y
               l == Len(y)
    <2>1. /\ z \in Seq(Nat) /\ Len(z) = Len(x) + l
          /\ \A i \in 1 .. Len(x) + l : z[i] = IF i <= Len(x) THEN x[i] ELSE y[i - Len(x)]
      BY <1>1, ConcatProperties, Zenon
    <2>2. l \in {1, 2}
      BY <1>3
    <2> HIDE DEF z, l
    <2>3. z[1] = x[1] /\ z[2] = y[1] /\ Len(z) = 1 + l
      BY <1>1, <2>1, <2>2
    <2>4. Home(z) = x
      BY <1>2, <2>3 DEF Home
    <2> QED BY <2>1, <2>3, <2>4 DEF z, l
  <1>4. \A i \in Nat : <<i>> \in Seq(Nat) /\ Len(<<i>>) = 1 /\ <<i>>[1] = i
    OBVIOUS
  <1>5. <<0, 0>> \in Seq(Nat) /\ Len(<<0, 0>>) = 2
    OBVIOUS
  <1>6. Home(x) = x
    BY <1>2 DEF Home
  <1>7. ASSUME NEW i \in Nat
        PROVE  /\ x \o <<i>> \in Seq(Nat) /\ Len(x \o <<i>>) = 2
               /\ (x \o <<i>>)[2] = i /\ Home(x \o <<i>>) = x
    <2> DEFINE y == <<i>>
    <2>1. y \in Seq(Nat) /\ Len(y) = 1 /\ y[1] = i
      BY <1>4
    <2> HIDE DEF y
    <2>2. /\ x \o y \in Seq(Nat) /\ Len(x \o y) = 2
          /\ (x \o y)[2] = i /\ Home(x \o y) = x
      BY <1>3, <2>1
    <2> QED BY <2>2 DEF y
  <1>8. /\ x \o <<0, 0>> \in Seq(Nat) /\ Len(x \o <<0, 0>>) = 3
        /\ Home(x \o <<0, 0>>) = x
    <2> DEFINE y == <<0, 0>>
    <2>1. y \in Seq(Nat) /\ Len(y) = 2 /\ Len(y) \in {1, 2} /\ 1 + Len(y) = 3
      BY <1>5
    <2> HIDE DEF y
    <2>2. x \o y \in Seq(Nat) /\ Len(x \o y) = 3 /\ Home(x \o y) = x
      BY <1>3, <2>1
    <2> QED BY <2>2 DEF y
  <1>9. 0 \in Nat
    OBVIOUS
  <1> QED BY <1>1, <1>6, <1>7, <1>8, <1>9, Zenon DEF DimsId, BackId, TransferId

(* The operands of a linalg operation but its init.                        *)
LEMMA InputsAre ==
  ASSUME NEW n, n.args \in Seq(Seq(Nat)), n.args # <<>>
  PROVE  /\ Len(n.args) \in Nat \ {0} /\ DOMAIN n.args = 1 .. Len(n.args)
         /\ DOMAIN Inputs(n) = 1 .. Len(n.args) - 1
         /\ InitOf(n) = n.args[Len(n.args)]
         /\ \A b : Transferred(b, n) \in SUBSET (1 .. Len(n.args) - 1)
  <1>1. Len(n.args) \in Nat \ {0} /\ DOMAIN n.args = 1 .. Len(n.args)
    BY EmptySeq, LenProperties
  <1>2. \A i \in 1 .. Len(n.args) - 1 : n.args[i] \in Seq(Nat)
    BY <1>1, ElementOfSeq
  <1>3. /\ Inputs(n) \in Seq(Seq(Nat))
        /\ Len(Inputs(n)) = IF 1 <= Len(n.args) - 1 THEN Len(n.args) - 1 ELSE 0
    BY <1>1, <1>2, SubSeqProperties DEF Inputs
  <1>4. DOMAIN Inputs(n) = 1 .. Len(n.args) - 1
    BY <1>1, <1>3, LenProperties
  <1> QED BY <1>1, <1>4 DEF InitOf, Last, Transferred


(* A sequence with one element more.                                       *)
LEMMA ConcatOne ==
  ASSUME NEW S, NEW s \in Seq(S), NEW e \in S
  PROVE  /\ s \o <<e>> \in Seq(S) /\ Len(s \o <<e>>) = Len(s) + 1
         /\ \A i \in 1 .. Len(s) : (s \o <<e>>)[i] = s[i]
         /\ (s \o <<e>>)[Len(s) + 1] = e
  <1> DEFINE t == <<e>>
             q == s \o t
             l == Len(s)
  <1>1. t \in Seq(S) /\ Len(t) = 1 /\ t[1] = e
    OBVIOUS
  <1> HIDE DEF t
  <1>2. /\ q \in Seq(S) /\ Len(q) = l + Len(t)
        /\ \A i \in 1 .. l + Len(t) : q[i] = IF i <= l THEN s[i] ELSE t[i - l]
    BY <1>1, ConcatProperties, Zenon
  <1>3. l \in Nat
    BY LenProperties
  <1> HIDE DEF q, l
  <1>4. Len(q) = l + 1 /\ q[l + 1] = e /\ \A i \in 1 .. l : q[i] = s[i]
    BY <1>1, <1>2, <1>3
  <1> QED BY <1>2, <1>4 DEF q, l, t

(* The block that wrapping builds: three sequences and three nodes.        *)
Join(before, dims, transfers, node, back, after) ==
  before \o <<dims>> \o transfers \o <<node>> \o <<>> \o <<back>> \o after

IsJoin(j, before, dims, transfers, node, back, after) ==
  /\ Len(j) = Len(before) + Len(transfers) + 3 + Len(after)
  /\ \A i \in 1 .. Len(before) : j[i] = before[i]
  /\ j[Len(before) + 1] = dims
  /\ \A k \in 1 .. Len(transfers) : j[Len(before) + 1 + k] = transfers[k]
  /\ j[Len(before) + Len(transfers) + 2] = node
  /\ j[Len(before) + Len(transfers) + 3] = back
  /\ \A i \in 1 .. Len(after) : j[Len(before) + Len(transfers) + 3 + i] = after[i]

LEMMA Joined ==
  ASSUME NEW S, NEW before \in Seq(S), NEW transfers \in Seq(S), NEW after \in Seq(S),
         NEW dims \in S, NEW node \in S, NEW back \in S
  PROVE  LET j == Join(before, dims, transfers, node, back, after) IN
         j \in Seq(S) /\ IsJoin(j, before, dims, transfers, node, back, after)
  <1> DEFINE l == Len(before)
             m == Len(transfers)
             a == Len(after)
             q1 == before \o <<dims>>
             q2 == q1 \o transfers
             q3 == q2 \o <<node>>
             q4 == q3 \o <<back>>
             q == q4 \o after
  <1>1. l \in Nat /\ m \in Nat /\ a \in Nat
    BY LenProperties
  <1>2. /\ q1 \in Seq(S) /\ Len(q1) = l + 1
        /\ \A i \in 1 .. l : q1[i] = before[i]
        /\ q1[l + 1] = dims
    BY ConcatOne, Zenon
  <1> HIDE DEF q1
  <1>3. /\ q2 \in Seq(S) /\ Len(q2) = Len(q1) + m
        /\ \A i \in 1 .. Len(q1) + m : q2[i] = IF i <= Len(q1) THEN q1[i] ELSE transfers[i - Len(q1)]
    BY <1>2, ConcatProperties, Zenon
  <1> HIDE DEF q2
  <1>4. q3 \o <<>> = q3 /\ q3 \in Seq(S) /\ Len(q3) = Len(q2) + 1
        /\ (\A i \in 1 .. Len(q2) : q3[i] = q2[i])
        /\ q3[Len(q2) + 1] = node
    <2>1. /\ q3 \in Seq(S) /\ Len(q3) = Len(q2) + 1
          /\ \A i \in 1 .. Len(q2) : q3[i] = q2[i]
          /\ q3[Len(q2) + 1] = node
      BY <1>3, ConcatOne, Zenon
    <2> HIDE DEF q3
    <2> QED BY <2>1, ConcatEmptySeq, Zenon
  <1> HIDE DEF q3
  <1>5. /\ q4 \in Seq(S) /\ Len(q4) = Len(q3) + 1
        /\ \A i \in 1 .. Len(q3) : q4[i] = q3[i]
        /\ q4[Len(q3) + 1] = back
    BY <1>4, ConcatOne, Zenon
  <1> HIDE DEF q4
  <1>6. /\ q \in Seq(S) /\ Len(q) = Len(q4) + a
        /\ \A i \in 1 .. Len(q4) + a : q[i] = IF i <= Len(q4) THEN q4[i] ELSE after[i - Len(q4)]
    BY <1>5, ConcatProperties, Zenon
  <1> HIDE DEF q, l, m, a
  <1>7. Len(q1) = l + 1 /\ Len(q2) = l + m + 1 /\ Len(q3) = l + m + 2 /\ Len(q4) = l + m + 3
    BY <1>1, <1>2, <1>3, <1>4, <1>5
  <1>8. \A i \in 1 .. l + m + 1 : q[i] = q2[i]
    BY <1>1, <1>4, <1>5, <1>6, <1>7
  <1>9. q[l + m + 2] = node /\ q[l + m + 3] = back
    BY <1>1, <1>4, <1>5, <1>6, <1>7
  <1>10. \A i \in 1 .. a : q[l + m + 3 + i] = after[i]
    BY <1>1, <1>6, <1>7
  <1>11. \A i \in 1 .. l : q[i] = before[i]
    BY <1>1, <1>2, <1>3, <1>7, <1>8
  <1>12. q[l + 1] = dims
    BY <1>1, <1>2, <1>3, <1>7, <1>8
  <1>13. \A k \in 1 .. m : q[l + 1 + k] = transfers[k]
    <2>1. ASSUME NEW k \in 1 .. m
          PROVE  q[l + 1 + k] = transfers[k]
      <3>1. l + 1 + k \in 1 .. l + m + 1 /\ ~(l + 1 + k <= l + 1) /\ l + 1 + k - (l + 1) = k
        BY <1>1
      <3>2. q2[l + 1 + k] = transfers[k]
        BY <1>1, <1>3, <1>7, <3>1
      <3> QED BY <1>8, <3>1, <3>2
    <2> QED BY <2>1
  <1>14. Len(q) = l + m + 3 + a
    BY <1>1, <1>6, <1>7
  <1>15. Join(before, dims, transfers, node, back, after) = q
    BY <1>4, Zenon DEF Join, q, q4, q3, q2, q1
  <1> QED BY <1>6, <1>9, <1>10, <1>11, <1>12, <1>13, <1>14, <1>15, Zenon
         DEF IsJoin, l, m, a


LEMMA RewiredIs ==
  ASSUME NEW n, IsNode(n), NEW id, NEW back \in Seq(Nat)
  PROVE  LET r == Rewired(n, id, back) IN
         /\ IsNode(r) /\ r.id = n.id /\ r.kind = n.kind /\ r.to = n.to
         /\ r.value = n.value /\ r.op = n.op
         /\ Len(r.args) = Len(n.args) /\ DOMAIN r.args = DOMAIN n.args
         /\ \A k \in DOMAIN n.args : r.args[k] = IF n.args[k] = id THEN back ELSE n.args[k]
  <1> DEFINE args == [k \in DOMAIN n.args |-> IF n.args[k] = id THEN back ELSE n.args[k]]
             r == Rewired(n, id, back)
             l == Len(n.args)
  <1>1. n.args \in Seq(Seq(Nat)) /\ n.id \in Seq(Nat) /\ n = Node(n.id, n.kind, n.args, n.value, n.op, n.to)
    BY DEF IsNode
  <1>2. l \in Nat /\ DOMAIN n.args = 1 .. l /\ \A k \in 1 .. l : n.args[k] \in Seq(Nat)
    BY <1>1, LenProperties, ElementOfSeq
  <1>3. args \in [1 .. l -> Seq(Nat)]
    BY <1>2
  <1>4. args \in Seq(Seq(Nat))
    BY <1>2, <1>3, SeqDef
  <1>5. DOMAIN args = 1 .. l /\ Len(args) \in Nat /\ DOMAIN args = 1 .. Len(args)
    BY <1>3, <1>4, LenProperties
  <1>6. Len(args) = l
    BY <1>2, <1>5
  <1>7. \A k \in DOMAIN n.args : args[k] = IF n.args[k] = id THEN back ELSE n.args[k]
    OBVIOUS
  <1>8. r = [n EXCEPT !.args = args]
    BY Zenon DEF Rewired
  <1> HIDE DEF args, r
  <1>9. r = Node(n.id, n.kind, args, n.value, n.op, n.to)
    <2>1. \A a : [Node(n.id, n.kind, n.args, n.value, n.op, n.to) EXCEPT !.args = a]
                   = Node(n.id, n.kind, a, n.value, n.op, n.to)
      BY DEF Node
    <2> QED BY <1>1, <1>8, <2>1
  <1>10. /\ r.id = n.id /\ r.kind = n.kind /\ r.args = args
         /\ r.value = n.value /\ r.op = n.op /\ r.to = n.to
    BY <1>9 DEF Node
  <1>11. IsNode(r)
    BY <1>1, <1>4, <1>9, <1>10 DEF IsNode
  <1> QED BY <1>2, <1>5, <1>6, <1>7, <1>10, <1>11 DEF r, l

(* The block after one candidate was wrapped, node by node.                *)
WrapShaped(b, p, strela, host) ==
  LET n == Len(b)
      id == b[p].id
      moved == Transferred(b, b[p])
      m == Cardinality(moved)
      s == InOrder(moved)
      new == WrapInTransfers(b, id, strela, host)
      R(x) == Rewired(x, id, BackId(id))
  IN /\ m \in Nat /\ s \in [1 .. m -> moved]
     /\ \A k, l \in 1 .. m : s[k] = s[l] => k = l
     /\ \A i \in moved : \E k \in 1 .. m : s[k] = i
     /\ IsBlock(new) /\ Len(new) = n + m + 2
     /\ \A i \in 1 .. p - 1 : new[i] = R(b[i])
     /\ new[p] = R(Node(DimsId(id), "dims", <<InitOf(b[p])>>, 0, NoOperation, NoDevice))
     /\ \A k \in 1 .. m :
          new[p + k] = R(Node(TransferId(id, s[k]), "transfer", <<b[p].args[s[k]]>>,
                              0, NoOperation, strela))
     /\ new[p + m + 1] = R([b[p] EXCEPT !.args =
          [i \in DOMAIN @ |-> IF i \in moved THEN TransferId(id, i) ELSE @[i]]])
     /\ new[p + m + 2] = Node(BackId(id), "transfer", <<id, DimsId(id)>>,
                              0, NoOperation, host)
     /\ \A i \in p + 1 .. n : new[i + m + 2] = R(b[i])

LEMMA WrapShape ==
  ASSUME NEW b, IsBlock(b), \A i \in DOMAIN b : IsNode(b[i]),
         NEW p \in DOMAIN b, Defining(b, b[p].id) = p, SourceId(b[p].id), b[p].args # <<>>,
         \A i \in DOMAIN b : b[i].id # BackId(b[p].id),
         NEW strela, NEW host
  PROVE  WrapShaped(b, p, strela, host)
  <1> DEFINE n == Len(b)
             id == b[p].id
             moved == Transferred(b, b[p])
             m == Cardinality(moved)
             s == InOrder(moved)
             new == WrapInTransfers(b, id, strela, host)
             R(x) == Rewired(x, id, BackId(id))
             dims == Node(DimsId(id), "dims", <<InitOf(b[p])>>, 0, NoOperation, NoDevice)
             in(i) == Node(TransferId(id, i), "transfer", <<b[p].args[i]>>, 0, NoOperation, strela)
             node == [b[p] EXCEPT !.args =
                       [i \in DOMAIN @ |-> IF i \in moved THEN TransferId(id, i) ELSE @[i]]]
             back == Node(BackId(id), "transfer", <<id, DimsId(id)>>, 0, NoOperation, host)
             S == {b[i] : i \in DOMAIN b} \cup {in(i) : i \in moved} \cup {dims, node, back}
             before == SubSeq(b, 1, p - 1)
             after == SubSeq(b, p + 1, n)
             transfers == [k \in 1 .. m |-> in(s[k])]
             q == Join(before, dims, transfers, node, back, after)
  <1>1. n \in Nat /\ DOMAIN b = 1 .. n /\ p \in 1 .. n
    BY BlockDomain
  <1>2. IsNode(b[p]) /\ b[p].args \in Seq(Seq(Nat)) /\ Len(b[p].args) \in Nat \ {0}
        /\ moved \in SUBSET (1 .. Len(b[p].args) - 1)
    BY InputsAre DEF IsNode
  <1>3. /\ m \in Nat /\ s \in [1 .. m -> moved]
        /\ \A k, l \in 1 .. m : s[k] = s[l] => k = l
        /\ \A i \in moved : \E k \in 1 .. m : s[k] = i
    <2> DEFINE l == Len(b[p].args) - 1
    <2>1. l \in Nat /\ moved \in SUBSET (1 .. l)
      BY <1>2
    <2> HIDE DEF l, moved
    <2> QED BY <2>1, InOrderIs, Zenon
  <1>4. new = ReplaceUses(q, id, BackId(id))
    <2>1. DOMAIN s = 1 .. m
      BY <1>3
    <2> QED BY <2>1, Zenon DEF WrapInTransfers, ResultDims, Join
  <1>5. \A i \in DOMAIN b : b[i] \in S
    OBVIOUS
  <1>6. dims \in S /\ node \in S /\ back \in S /\ \A i \in moved : in(i) \in S
    OBVIOUS
  <1>7. /\ dims.id = DimsId(id) /\ back.id = BackId(id) /\ node.id = id
        /\ \A i : in(i).id = TransferId(id, i)
    <2>1. /\ dims.id = DimsId(id) /\ back.id = BackId(id)
          /\ \A i : in(i).id = TransferId(id, i)
      BY DEF Node
    <2>2. node.id = id
      <3> DEFINE N == b[p]
                 A == [i \in DOMAIN N.args |-> IF i \in moved THEN TransferId(id, i) ELSE N.args[i]]
      <3>1. N = Node(N.id, N.kind, N.args, N.value, N.op, N.to) /\ node = [N EXCEPT !.args = A]
        BY <1>2 DEF IsNode
      <3> HIDE DEF N, A, node
      <3>2. node.id = N.id
        BY <3>1 DEF Node
      <3> QED BY <3>2 DEF N
    <2> QED BY <2>1, <2>2
  <1> HIDE DEF S, dims, in, node, back, m, s, n
  <1>8. before \in Seq(S) /\ Len(before) = p - 1 /\ \A i \in 1 .. p - 1 : before[i] = b[i]
    <2>1. \A i \in 1 .. p - 1 : b[i] \in S
      BY <1>1, <1>5
    <2>2. 1 \in Int /\ p - 1 \in Int /\ (IF 1 <= p - 1 THEN p - 1 - 1 + 1 ELSE 0) = p - 1
          /\ p - 1 - 1 + 1 = p - 1 /\ \A i \in 1 .. p - 1 : 1 + i - 1 = i
      BY <1>1
    <2> QED BY <2>1, <2>2, SubSeqProperties
  <1>9. after \in Seq(S) /\ Len(after) = n - p /\ \A i \in 1 .. n - p : after[i] = b[p + i]
    <2>1. \A i \in p + 1 .. n : b[i] \in S
      BY <1>1, <1>5
    <2>2. p + 1 \in Int /\ n \in Int /\ (IF p + 1 <= n THEN n - (p + 1) + 1 ELSE 0) = n - p
          /\ n - (p + 1) + 1 = n - p /\ \A i \in 1 .. n - p : p + 1 + i - 1 = p + i
      BY <1>1
    <2> QED BY <2>1, <2>2, SubSeqProperties
  <1>10. transfers \in Seq(S) /\ Len(transfers) = m /\ \A k \in 1 .. m : transfers[k] = in(s[k])
    <2>1. transfers \in [1 .. m -> S] /\ \A k \in 1 .. m : transfers[k] = in(s[k])
      BY <1>3, <1>6
    <2> HIDE DEF transfers
    <2>2. transfers \in Seq(S)
      BY <1>3, <2>1, SeqDef
    <2>3. DOMAIN transfers = 1 .. m /\ DOMAIN transfers = 1 .. Len(transfers) /\ Len(transfers) \in Nat
      BY <2>1, <2>2, LenProperties
    <2>4. Len(transfers) = m
      BY <1>3, <2>3
    <2> QED BY <2>1, <2>2, <2>4
  <1> HIDE DEF before, after, transfers
  <1>11. /\ q \in Seq(S) /\ Len(q) = Len(before) + Len(transfers) + 3 + Len(after)
         /\ \A i \in 1 .. Len(before) : q[i] = before[i]
         /\ q[Len(before) + 1] = dims
         /\ \A k \in 1 .. Len(transfers) : q[Len(before) + 1 + k] = transfers[k]
         /\ q[Len(before) + Len(transfers) + 2] = node
         /\ q[Len(before) + Len(transfers) + 3] = back
         /\ \A i \in 1 .. Len(after) : q[Len(before) + Len(transfers) + 3 + i] = after[i]
    <2>1. /\ before \in Seq(S) /\ transfers \in Seq(S) /\ after \in Seq(S)
          /\ dims \in S /\ node \in S /\ back \in S
      BY <1>6, <1>8, <1>9, <1>10
    <2>2. q \in Seq(S) /\ IsJoin(q, before, dims, transfers, node, back, after)
      BY <2>1, Joined
    <2> HIDE DEF q
    <2> QED BY <2>2 DEF IsJoin
  <1> HIDE DEF q
  <1>12. /\ Len(q) = n + m + 2
         /\ \A i \in 1 .. p - 1 : q[i] = b[i]
         /\ q[p] = dims
         /\ \A k \in 1 .. m : q[p + k] = in(s[k])
         /\ q[p + m + 1] = node
         /\ q[p + m + 2] = back
    <2>1. /\ p - 1 + m + 3 + (n - p) = n + m + 2 /\ p - 1 + 1 = p
          /\ p - 1 + m + 2 = p + m + 1 /\ p - 1 + m + 3 = p + m + 2
      <3>1. p \in Int /\ n \in Int /\ m \in Int
        BY <1>1, <1>3
      <3> QED BY <3>1
    <2>2. q[p] = dims /\ q[p + m + 1] = node /\ q[p + m + 2] = back
      BY <1>8, <1>10, <1>11, <2>1, Zenon
    <2>3. \A i \in 1 .. p - 1 : q[i] = b[i]
      BY <1>8, <1>11, Zenon
    <2>4. \A k \in 1 .. m : q[p + k] = in(s[k])
      <3>1. \A k \in 1 .. m : q[p - 1 + 1 + k] = transfers[k]
        BY <1>8, <1>10, <1>11, Zenon
      <3> QED BY <1>10, <2>1, <3>1
    <2>5. Len(q) = n + m + 2
      BY <1>8, <1>9, <1>10, <1>11, <2>1, Zenon
    <2> QED BY <2>2, <2>3, <2>4, <2>5
  <1>13. \A i \in p + 1 .. n : q[i + m + 2] = b[i]
    <2>1. ASSUME NEW i \in p + 1 .. n PROVE q[i + m + 2] = b[i]
      <3>1. i - p \in 1 .. n - p /\ p - 1 + m + 3 + (i - p) = i + m + 2 /\ p + (i - p) = i
        BY <1>1, <1>3
      <3>2. q[p - 1 + m + 3 + (i - p)] = after[i - p]
        BY <1>8, <1>9, <1>10, <1>11, <3>1, Zenon
      <3>3. after[i - p] = b[p + (i - p)]
        BY <1>9, <3>1, Zenon
      <3> QED BY <3>1, <3>2, <3>3, Zenon
    <2> QED BY <2>1
  <1>14. DOMAIN q = 1 .. n + m + 2 /\ n + m + 2 \in Nat
    <2>1. DOMAIN q = 1 .. Len(q)
      BY <1>11, LenProperties
    <2> QED BY <1>1, <1>3, <1>12, <2>1
  <1>15. \A i \in 1 .. n + m + 2 : new[i] = IF q[i].id = BackId(id) THEN q[i] ELSE R(q[i])
    BY <1>4, <1>14 DEF ReplaceUses
  <1>16. IsBlock(new) /\ Len(new) = n + m + 2
    <2> DEFINE f == [i \in 1 .. n + m + 2 |-> IF q[i].id = BackId(id) THEN q[i] ELSE R(q[i])]
    <2>1. new = f
      BY <1>4, <1>14, Zenon DEF ReplaceUses
    <2>2. f \in [1 .. n + m + 2 -> {f[i] : i \in 1 .. n + m + 2}]
      OBVIOUS
    <2> HIDE DEF f
    <2>3. IsBlock(f) /\ Len(f) = n + m + 2
      BY <1>14, <2>2, BlockOf
    <2> QED BY <2>1, <2>3
  <1> HIDE DEF new
  <1>17. /\ Len(BackId(id)) = 3 /\ Len(DimsId(id)) = 2 /\ Len(id) = 1
         /\ \A i \in Nat : Len(TransferId(id, i)) = 2
    BY IdsAre
  <1>18. BackId(id) # DimsId(id) /\ BackId(id) # id /\ \A i \in Nat : BackId(id) # TransferId(id, i)
    BY <1>17
  <1>19. \A i \in 1 .. p - 1 : new[i] = R(b[i])
    <2>1. ASSUME NEW i \in 1 .. p - 1 PROVE new[i] = R(b[i])
      <3>1. i \in 1 .. n /\ i \in 1 .. n + m + 2
        BY <1>1, <1>3
      <3> QED BY <1>1, <1>12, <1>15, <3>1
    <2> QED BY <2>1
  <1>20. new[p] = R(dims)
    <2>1. p \in 1 .. n + m + 2
      BY <1>1, <1>3
    <2> QED BY <1>7, <1>12, <1>15, <1>18, <2>1
  <1>21. \A k \in 1 .. m : new[p + k] = R(in(s[k]))
    <2>1. ASSUME NEW k \in 1 .. m PROVE new[p + k] = R(in(s[k]))
      <3>1. p + k \in 1 .. n + m + 2
        BY <1>1, <1>3
      <3>2. s[k] \in Nat
        BY <1>2, <1>3
      <3> QED BY <1>7, <1>12, <1>15, <1>18, <3>1, <3>2
    <2> QED BY <2>1
  <1>22. new[p + m + 1] = R(node) /\ new[p + m + 2] = back
    <2>1. p + m + 1 \in 1 .. n + m + 2 /\ p + m + 2 \in 1 .. n + m + 2
      BY <1>1, <1>3
    <2> QED BY <1>7, <1>12, <1>15, <1>18, <2>1
  <1>23. \A i \in p + 1 .. n : new[i + m + 2] = R(b[i])
    <2>1. ASSUME NEW i \in p + 1 .. n PROVE new[i + m + 2] = R(b[i])
      <3>1. i \in 1 .. n /\ i + m + 2 \in 1 .. n + m + 2
        BY <1>1, <1>3
      <3> QED BY <1>1, <1>13, <1>15, <3>1
    <2> QED BY <2>1
  <1> QED BY <1>3, <1>16, <1>19, <1>20, <1>21, <1>22, <1>23 DEF WrapShaped, new, n, m, s, dims, in, node, back


-----------------------------------------------------------------------------
(* The invariant.  The function as it is now is known from the source and  *)
(* from which of its operations are wrapped: each node is an operation of  *)
(* the source, whose operands were rewired, or was added for a wrapped one.*)
SourceIds == {source[k].id : k \in DOMAIN source}
Wrapped == {c \in SourceIds : BackId(c) \in Values}
Moved(c) == Transferred(source, SourceOp(c))
Operand(c, k) == SourceOp(c).args[k]

(* How others read a value of the source.                                  *)
Use(a) == IF a \in Wrapped THEN BackId(a) ELSE a

IsOperation(n) ==
  /\ n.id \in SourceIds /\ n.kind = SourceOp(n.id).kind
  /\ DOMAIN n.args = DOMAIN SourceOp(n.id).args
  /\ \A k \in DOMAIN n.args :
       n.args[k] = IF n.id \in Wrapped /\ k \in Moved(n.id) THEN TransferId(n.id, k)
                   ELSE Use(Operand(n.id, k))

IsDims(n, c) ==
  n.id = DimsId(c) /\ n.kind = "dims" /\ n.args = <<Use(InitOf(SourceOp(c)))>>

IsIn(n, c, i) ==
  /\ n.id = TransferId(c, i) /\ n.kind = "transfer" /\ n.to = StrelaAffinity(machine)
  /\ n.args = <<Use(Operand(c, i))>>

IsBack(n, c) ==
  /\ n.id = BackId(c) /\ n.kind = "transfer" /\ n.to = machine.default
  /\ n.args = <<c, DimsId(c)>>

IsKnown(n) ==
  \/ IsOperation(n)
  \/ \E c \in Wrapped : IsDims(n, c)
  \/ \E c \in Wrapped : \E i \in Moved(c) : IsIn(n, c, i)
  \/ \E c \in Wrapped : IsBack(n, c)

NodesInv ==
  /\ IsBlock(block) /\ Distinct(block)
  /\ \A i \in DOMAIN block : IsNode(block[i]) /\ IsKnown(block[i])

(* Nothing is lost: what wrapping adds for an operation is all there.      *)
IdsInv ==
  /\ SourceIds \subseteq Values
  /\ \A c \in Wrapped : DimsId(c) \in Values /\ \A i \in Moved(c) : TransferId(c, i) \in Values

(* Where an id belongs: the place of its operation in the source; there,   *)
(* what is added before the operation, the operation, the transfer back.   *)
Place(id) == Defining(source, Home(id))
Level(id) == CASE Len(id) = 2 -> 0 [] Len(id) = 1 -> 1 [] Len(id) = 3 -> 2

Precedes(x, y) == Place(x) < Place(y) \/ (Place(x) = Place(y) /\ Level(x) < Level(y))

OrderInv ==
  \A i, j \in DOMAIN block : Precedes(block[i].id, block[j].id) => i < j

(* What may be wrapped, and by what.                                       *)
LinalgIds == {source[k].id : k \in LinalgOps(source)}

CandidatesInv ==
  /\ candidates \subseteq LinalgIds /\ candidates \cap Wrapped = {}
  /\ Wrapped \subseteq LinalgIds
  /\ candidates \cup Wrapped # {} => DevicesOf(machine, TRUE) # {}
  /\ phase \in {"topology", "gather"} => candidates = {} /\ Wrapped = {}

MachineInv ==
  /\ IsFunction(source)
  /\ machine.devices \in Seq(STRING) /\ ~IsStrela(machine.default)
  /\ phase = "topology" => ~topology.ours
  /\ topology.ours => topology.links = Links(machine)

IInv == MachineInv /\ NodesInv /\ IdsInv /\ OrderInv /\ CandidatesInv


-----------------------------------------------------------------------------
(* What a function of the source gives.                                    *)
LEMMA SourceFacts ==
  ASSUME IsFunction(source)
  PROVE  /\ Len(source) \in Nat /\ DOMAIN source = 1 .. Len(source)
         /\ IsBlock(source) /\ Distinct(source)
         /\ \A k \in DOMAIN source :
              /\ IsNode(source[k]) /\ SourceId(source[k].id) /\ source[k].kind # "transfer"
              /\ source[k].kind = "linalg" => source[k].args # <<>>
              /\ \A l \in DOMAIN source[k].args :
                   \E j \in 1 .. k - 1 : source[j].id = source[k].args[l]
  <1>1. IsBlock(source) /\ Distinct(source)
    BY Zenon DEF IsFunction, IsBlock, Distinct
  <1>2. Len(source) \in Nat /\ DOMAIN source = 1 .. Len(source)
    BY <1>1, BlockDomain
  <1>3. ASSUME NEW k \in DOMAIN source
        PROVE  /\ IsNode(source[k]) /\ SourceId(source[k].id) /\ source[k].kind # "transfer"
               /\ source[k].kind = "linalg" => source[k].args # <<>>
               /\ \A l \in DOMAIN source[k].args :
                    \E j \in 1 .. k - 1 : source[j].id = source[k].args[l]
    BY Zenon DEF IsFunction, IsNode, SourceId
  <1> QED BY <1>1, <1>2, <1>3

LEMMA SourceIdIs ==
  ASSUME IsFunction(source), NEW c \in SourceIds
  PROVE  /\ SourceId(c) /\ Place(c) \in DOMAIN source
         /\ source[Place(c)] = SourceOp(c) /\ SourceOp(c).id = c
         /\ IsNode(SourceOp(c)) /\ SourceOp(c).kind # "transfer"
         /\ \A k \in DOMAIN SourceOp(c).args :
              Operand(c, k) \in SourceIds /\ Place(Operand(c, k)) < Place(c)
  <1>1. PICK k \in DOMAIN source : source[k].id = c
    BY DEF SourceIds
  <1>2. Defining(source, c) = k
    BY <1>1, SourceFacts, DefiningIs
  <1>3. SourceId(c)
    BY <1>1, SourceFacts
  <1>4. Place(c) = k /\ SourceOp(c) = source[k]
    BY <1>2, <1>3, IdsAre DEF Place, SourceOp
  <1>5. ASSUME NEW l \in DOMAIN source[k].args
        PROVE  Operand(c, l) \in SourceIds /\ Place(Operand(c, l)) < k
    <2>1. PICK j \in 1 .. k - 1 : source[j].id = source[k].args[l]
      BY SourceFacts
    <2>2. j \in DOMAIN source /\ j < k
      BY SourceFacts
    <2>3. Operand(c, l) = source[j].id
      BY <1>4, <2>1 DEF Operand
    <2>4. SourceId(source[j].id) /\ Defining(source, source[j].id) = j
      BY <2>2, SourceFacts, DefiningIs
    <2>5. Place(source[j].id) = j
      BY <2>4, IdsAre DEF Place
    <2> QED BY <2>2, <2>3, <2>5 DEF SourceIds
  <1> QED BY <1>1, <1>3, <1>4, <1>5, SourceFacts

LEMMA SamePlace ==
  ASSUME IsFunction(source), NEW c \in SourceIds, NEW d \in SourceIds, Place(c) = Place(d)
  PROVE  c = d
  BY SourceIdIs

LEMMA LinalgIs ==
  ASSUME IsFunction(source), NEW c \in LinalgIds
  PROVE  /\ c \in SourceIds /\ SourceOp(c).kind = "linalg"
         /\ Len(SourceOp(c).args) \in Nat \ {0}
         /\ DOMAIN SourceOp(c).args = 1 .. Len(SourceOp(c).args)
         /\ InitOf(SourceOp(c)) = Operand(c, Len(SourceOp(c).args))
         /\ Moved(c) \subseteq 1 .. Len(SourceOp(c).args) - 1
         /\ Moved(c) \subseteq Nat
  <1>1. PICK k \in LinalgOps(source) : source[k].id = c
    BY DEF LinalgIds
  <1>2. k \in DOMAIN source /\ source[k].kind = "linalg"
    BY DEF LinalgOps
  <1>3. c \in SourceIds
    BY <1>1, <1>2 DEF SourceIds
  <1>4. Defining(source, c) = k
    BY <1>1, <1>2, SourceFacts, DefiningIs
  <1>5. SourceOp(c) = source[k]
    BY <1>4 DEF SourceOp
  <1>6. IsNode(SourceOp(c)) /\ SourceOp(c).args # <<>>
    BY <1>2, <1>5, SourceFacts
  <1>7. SourceOp(c).args \in Seq(Seq(Nat))
    BY <1>6 DEF IsNode
  <1>8. /\ Len(SourceOp(c).args) \in Nat \ {0}
        /\ DOMAIN SourceOp(c).args = 1 .. Len(SourceOp(c).args)
        /\ InitOf(SourceOp(c)) = SourceOp(c).args[Len(SourceOp(c).args)]
        /\ Moved(c) \in SUBSET (1 .. Len(SourceOp(c).args) - 1)
    BY <1>6, <1>7, InputsAre DEF Moved
  <1> QED BY <1>2, <1>3, <1>5, <1>8 DEF Operand

LEMMA UseIs ==
  ASSUME IsFunction(source), NEW a \in SourceIds
  PROVE  /\ Use(a) \in Seq(Nat) /\ Home(Use(a)) = a /\ Place(Use(a)) = Place(a)
         /\ Len(Use(a)) \in {1, 3}
         /\ IdsInv => Use(a) \in Values
  <1>1. SourceId(a)
    BY SourceIdIs
  <1>2. a \in Seq(Nat) /\ Home(a) = a /\ Len(a) = 1
    BY <1>1, IdsAre DEF SourceId
  <1>3. BackId(a) \in Seq(Nat) /\ Home(BackId(a)) = a /\ Len(BackId(a)) = 3
    BY <1>1, IdsAre
  <1>4. IdsInv => a \in Values
    BY DEF IdsInv
  <1>5. a \in Wrapped => BackId(a) \in Values
    BY DEF Wrapped
  <1> QED BY <1>2, <1>3, <1>4, <1>5 DEF Use, Place


(* The places of what is added for an operation.                           *)
LEMMA PlacesAre ==
  ASSUME IsFunction(source), NEW c \in SourceIds
  PROVE  /\ Place(c) \in Nat
         /\ Place(DimsId(c)) = Place(c) /\ Place(BackId(c)) = Place(c)
         /\ \A i \in Nat : Place(TransferId(c, i)) = Place(c) /\ Level(TransferId(c, i)) = 0
         /\ Level(c) = 1 /\ Level(DimsId(c)) = 0 /\ Level(BackId(c)) = 2
  <1>1. SourceId(c) /\ Place(c) \in DOMAIN source
    BY SourceIdIs
  <1>2. /\ Home(c) = c /\ Home(DimsId(c)) = c /\ Home(BackId(c)) = c
        /\ Len(c) = 1 /\ Len(DimsId(c)) = 2 /\ Len(BackId(c)) = 3
        /\ \A i \in Nat : Home(TransferId(c, i)) = c /\ Len(TransferId(c, i)) = 2
    BY <1>1, IdsAre
  <1>3. Place(c) \in Nat
    BY <1>1, SourceFacts
  <1>4. \A x : (Len(x) = 2 => Level(x) = 0) /\ (Len(x) = 1 => Level(x) = 1) /\ (Len(x) = 3 => Level(x) = 2)
    BY DEF Level
  <1> QED BY <1>2, <1>3, <1>4 DEF Place

(* Every operand of every node is there, and belongs before the node.      *)
LEMMA OperandsPrecede ==
  ASSUME IInv, NEW i \in DOMAIN block, NEW k \in DOMAIN block[i].args
  PROVE  block[i].args[k] \in Values /\ Precedes(block[i].args[k], block[i].id)
  <1> DEFINE n == block[i]
             a == n.args[k]
  <1>1. IsFunction(source) /\ IdsInv /\ IsKnown(n) /\ Wrapped \subseteq LinalgIds
    BY DEF IInv, MachineInv, NodesInv, CandidatesInv
  <1> HIDE DEF n
  <1>2. ASSUME NEW c \in SourceIds, NEW l \in DOMAIN SourceOp(c).args, a = Use(Operand(c, l)),
               Place(n.id) = Place(c)
        PROVE  a \in Values /\ Precedes(a, n.id)
    <2>1. Operand(c, l) \in SourceIds /\ Place(Operand(c, l)) < Place(c)
      BY <1>1, SourceIdIs
    <2>2. a \in Values /\ Place(a) = Place(Operand(c, l))
      BY <1>1, <1>2, <2>1, UseIs
    <2> QED BY <1>2, <2>1, <2>2 DEF Precedes
  <1>3. CASE IsOperation(n)
    <2>1. PICK c \in SourceIds : n.id = c
      BY <1>3 DEF IsOperation
    <2>2. k \in DOMAIN SourceOp(c).args
      BY <1>3, <2>1 DEF IsOperation, n
    <2>3. a = IF c \in Wrapped /\ k \in Moved(c) THEN TransferId(c, k) ELSE Use(Operand(c, k))
      BY <1>3, <2>1 DEF IsOperation, n
    <2> HIDE DEF a
    <2>4. CASE c \in Wrapped /\ k \in Moved(c)
      <3>1. k \in Nat
        BY <1>1, <2>4, LinalgIs
      <3>2. a \in Values
        BY <1>1, <2>3, <2>4 DEF IdsInv
      <3>3. Place(a) = Place(c) /\ Level(a) = 0 /\ Level(c) = 1
        <4>1. a = TransferId(c, k)
          BY <2>3, <2>4
        <4> QED BY <1>1, <2>1, <3>1, <4>1, PlacesAre
      <3> QED BY <2>1, <3>2, <3>3 DEF Precedes, a, n
    <2>5. CASE ~(c \in Wrapped /\ k \in Moved(c))
      <3>1. a = Use(Operand(c, k)) /\ Place(n.id) = Place(c)
        BY <2>1, <2>3, <2>5
      <3> QED BY <1>2, <2>2, <3>1 DEF a, n
    <2> QED BY <2>4, <2>5
  <1>4. ASSUME NEW c \in Wrapped, IsDims(n, c)
        PROVE  a \in Values /\ Precedes(a, n.id)
    <2>1. n.id = DimsId(c) /\ a = Use(InitOf(SourceOp(c)))
      BY <1>4 DEF IsDims, n
    <2>2. /\ c \in SourceIds /\ Len(SourceOp(c).args) \in DOMAIN SourceOp(c).args
          /\ a = Use(Operand(c, Len(SourceOp(c).args)))
      BY <1>1, <2>1, LinalgIs
    <2>3. Place(n.id) = Place(c)
      BY <1>1, <2>1, <2>2, PlacesAre
    <2> QED BY <1>2, <2>2, <2>3
  <1>5. ASSUME NEW c \in Wrapped, NEW l \in Moved(c), IsIn(n, c, l)
        PROVE  a \in Values /\ Precedes(a, n.id)
    <2>1. n.id = TransferId(c, l) /\ a = Use(Operand(c, l))
      BY <1>5 DEF IsIn, n
    <2>2. c \in SourceIds /\ l \in DOMAIN SourceOp(c).args /\ l \in Nat
      BY <1>1, LinalgIs
    <2>3. Place(n.id) = Place(c)
      BY <1>1, <2>1, <2>2, PlacesAre
    <2> QED BY <1>2, <2>1, <2>2, <2>3
  <1>6. ASSUME NEW c \in Wrapped, IsBack(n, c)
        PROVE  a \in Values /\ Precedes(a, n.id)
    <2>1. n.id = BackId(c) /\ (a = c \/ a = DimsId(c))
      BY <1>6 DEF IsBack, n
    <2>2. c \in SourceIds
      BY <1>1, LinalgIs
    <2>3. c \in Values /\ DimsId(c) \in Values
      BY <1>1, <2>2 DEF IdsInv
    <2> QED BY <1>1, <2>1, <2>2, <2>3, PlacesAre DEF Precedes
  <1> QED BY <1>1, <1>3, <1>4, <1>5, <1>6 DEF IsKnown, n

LEMMA OperandsAreDefined == IInv => DefinedBeforeUse
  <1> SUFFICES ASSUME IInv, NEW i \in DOMAIN block, NEW k \in DOMAIN block[i].args
               PROVE  \E j \in 1 .. i - 1 : block[j].id = block[i].args[k]
    BY DEF DefinedBeforeUse
  <1>1. block[i].args[k] \in Values /\ Precedes(block[i].args[k], block[i].id)
    BY OperandsPrecede
  <1>2. PICK j \in DOMAIN block : block[j].id = block[i].args[k]
    BY <1>1 DEF Values
  <1>3. j < i
    BY <1>1, <1>2 DEF IInv, OrderInv
  <1>4. j \in 1 .. i - 1
    BY <1>2, <1>3, BlockDomain DEF IInv, NodesInv
  <1> QED BY <1>2, <1>4


-----------------------------------------------------------------------------
(* The steps.  What is said of the source stays with the source.           *)
LEMMA SourceStays ==
  ASSUME source' = source
  PROVE  /\ SourceIds' = SourceIds /\ LinalgIds' = LinalgIds
         /\ \A c : /\ SourceOp(c)' = SourceOp(c) /\ Moved(c)' = Moved(c)
                   /\ Place(c)' = Place(c)
                   /\ \A k : Operand(c, k)' = Operand(c, k)
         /\ \A x, y : Precedes(x, y)' = Precedes(x, y)
  <1>1. SourceIds' = SourceIds /\ LinalgIds' = LinalgIds
    BY DEF SourceIds, LinalgIds
  <1>2. \A c : SourceOp(c)' = SourceOp(c) /\ Place(c)' = Place(c)
    BY DEF SourceOp, Place
  <1>3. \A c : Moved(c)' = Moved(c)
    BY <1>2 DEF Moved
  <1>4. \A c, k : Operand(c, k)' = Operand(c, k)
    BY <1>2 DEF Operand
  <1>5. \A x, y : Precedes(x, y)' = Precedes(x, y)
    BY <1>2, Zenon DEF Precedes
  <1> QED BY <1>1, <1>2, <1>3, <1>4, <1>5

(* Steps that change nothing of the function but where what is imported    *)
(* and exported is.                                                        *)
LEMMA SameNodes ==
  ASSUME IInv, machine' = machine, source' = source,
         IsBlock(block'), DOMAIN block' = DOMAIN block,
         \A i \in DOMAIN block :
           /\ IsNode(block'[i]) /\ block'[i].id = block[i].id
           /\ block'[i].kind = block[i].kind /\ block'[i].args = block[i].args
           /\ block[i].kind = "transfer" => block'[i].to = block[i].to
  PROVE  NodesInv' /\ IdsInv' /\ OrderInv' /\ Wrapped' = Wrapped
  <1>1. Values' = Values
    BY DEF Values
  <1>2. Wrapped' = Wrapped
    BY <1>1, SourceStays DEF Wrapped
  <1>3. \A a : Use(a)' = Use(a)
    BY <1>2 DEF Use
  <1>4. Distinct(block)'
    BY Zenon DEF IInv, NodesInv, Distinct
  <1>5. ASSUME NEW i \in DOMAIN block
        PROVE  IsKnown(block[i])'
    <2>1. IsKnown(block[i])
      BY DEF IInv, NodesInv
    <2>2. CASE IsOperation(block[i])
      <3>1. IsOperation(block[i])'
        BY <1>2, <1>3, <2>2, SourceStays DEF IsOperation
      <3> QED BY <3>1 DEF IsKnown
    <2>3. ASSUME NEW c \in Wrapped, IsDims(block[i], c)
          PROVE  IsKnown(block[i])'
      <3>1. IsDims(block[i], c)'
        BY <1>3, <2>3, SourceStays DEF IsDims
      <3> QED BY <1>2, <3>1 DEF IsKnown
    <2>4. ASSUME NEW c \in Wrapped, NEW k \in Moved(c), IsIn(block[i], c, k)
          PROVE  IsKnown(block[i])'
      <3>1. IsIn(block[i], c, k)'
        BY <1>3, <2>4, SourceStays DEF IsIn
      <3>2. k \in Moved(c)'
        BY SourceStays
      <3> QED BY <1>2, <3>1, <3>2 DEF IsKnown
    <2>5. ASSUME NEW c \in Wrapped, IsBack(block[i], c)
          PROVE  IsKnown(block[i])'
      <3>1. IsBack(block[i], c)'
        BY <2>5 DEF IsBack
      <3> QED BY <1>2, <3>1 DEF IsKnown
    <2> QED BY <2>1, <2>2, <2>3, <2>4, <2>5 DEF IsKnown
  <1>6. NodesInv'
    BY <1>4, <1>5 DEF NodesInv
  <1>7. IdsInv'
    BY <1>1, <1>2, SourceStays DEF IInv, IdsInv
  <1>8. OrderInv'
    <2> SUFFICES ASSUME NEW i \in DOMAIN block, NEW j \in DOMAIN block,
                        Precedes(block[i].id, block[j].id)'
                 PROVE  i < j
      BY DEF OrderInv
    <2>1. Precedes(block[i].id, block[j].id)
      BY SourceStays
    <2> QED BY <2>1 DEF IInv, OrderInv
  <1> QED BY <1>2, <1>6, <1>7, <1>8


LEMMA InitialisesInvariant == Init => IInv
  <1> SUFFICES ASSUME Init PROVE IInv
    OBVIOUS
  <1>1. /\ block = source /\ topology = [links |-> {}, ours |-> FALSE]
        /\ candidates = {} /\ phase = "topology"
    BY DEF Init, PlacementInit
  <1>2. IsFunction(source) /\ machine.devices \in Seq(STRING) /\ ~IsStrela(machine.default)
    <2>1. PICK p \in Programs :
            /\ machine = [devices |-> p.devices, default |-> p.default, preset |-> p.preset]
            /\ source = p.block
      BY DEF Init, PlacementInit
    <2>2. machine.devices = p.devices /\ machine.default = p.default
      BY <2>1
    <2> QED BY <2>1, <2>2, ProgramAssumption
  <1>3. Values = SourceIds
    BY <1>1 DEF Values, SourceIds
  <1>4. Wrapped = {}
    <2>1. ASSUME NEW c \in Wrapped PROVE FALSE
      <3>1. c \in SourceIds /\ BackId(c) \in SourceIds
        BY <1>3 DEF Wrapped
      <3>2. SourceId(c) /\ SourceId(BackId(c))
        BY <1>2, <3>1, SourceIdIs
      <3>3. Len(BackId(c)) = 3 /\ Len(BackId(c)) = 1
        BY <3>2, IdsAre
      <3> QED BY <3>3
    <2> QED BY <2>1
  <1>5. ASSUME NEW i \in DOMAIN block
        PROVE  IsNode(block[i]) /\ IsKnown(block[i])
    <2>1. IsNode(block[i]) /\ block[i].id \in SourceIds
      BY <1>1, <1>2, SourceFacts DEF SourceIds
    <2>2. SourceOp(block[i].id) = block[i]
      BY <1>1, <1>2, SourceFacts, DefiningIs DEF SourceOp
    <2>3. \A k \in DOMAIN block[i].args : block[i].args[k] = Use(Operand(block[i].id, k))
      BY <1>4, <2>2 DEF Use, Operand
    <2>4. IsOperation(block[i])
      BY <1>4, <2>1, <2>2, <2>3 DEF IsOperation
    <2> QED BY <2>1, <2>4 DEF IsKnown
  <1>6. NodesInv
    BY <1>1, <1>2, <1>5, SourceFacts DEF NodesInv
  <1>7. IdsInv
    BY <1>3, <1>4 DEF IdsInv
  <1>8. OrderInv
    <2> SUFFICES ASSUME NEW i \in DOMAIN block, NEW j \in DOMAIN block,
                        Precedes(block[i].id, block[j].id)
                 PROVE  i < j
      BY DEF OrderInv
    <2>1. /\ SourceId(block[i].id) /\ SourceId(block[j].id)
          /\ Defining(source, block[i].id) = i /\ Defining(source, block[j].id) = j
      BY <1>1, <1>2, SourceFacts, DefiningIs
    <2>2. Place(block[i].id) = i /\ Place(block[j].id) = j
      BY <2>1, IdsAre DEF Place
    <2>3. Level(block[i].id) = 1 /\ Level(block[j].id) = 1
      BY <2>1 DEF SourceId, Level
    <2> QED BY <2>2, <2>3 DEF Precedes
  <1>9. CandidatesInv
    BY <1>1, <1>4 DEF CandidatesInv
  <1>10. MachineInv
    BY <1>1, <1>2 DEF MachineInv
  <1> QED BY <1>6, <1>7, <1>8, <1>9, <1>10 DEF IInv

LEMMA FunctionStays ==
  ASSUME IInv, UNCHANGED <<machine, source, block>>
  PROVE  NodesInv' /\ IdsInv' /\ OrderInv' /\ Wrapped' = Wrapped /\ LinalgIds' = LinalgIds
  <1>1. IsBlock(block') /\ \A i \in DOMAIN block : IsNode(block'[i])
    BY DEF IInv, NodesInv
  <1> QED BY <1>1, SameNodes, SourceStays

LEMMA AssignTopologyKeeps == IInv /\ AssignTopology => IInv'
  <1> SUFFICES ASSUME IInv, AssignTopology PROVE IInv'
    OBVIOUS
  <1>1. UNCHANGED <<machine, source, block, candidates>> /\ phase = "topology" /\ phase' = "gather"
    BY DEF AssignTopology
  <1>2. topology' = IF machine.preset THEN topology ELSE [links |-> Links(machine), ours |-> TRUE]
    BY DEF AssignTopology
  <1>3. NodesInv' /\ IdsInv' /\ OrderInv' /\ Wrapped' = Wrapped /\ LinalgIds' = LinalgIds
    BY <1>1, FunctionStays
  <1>4. CandidatesInv'
    BY <1>1, <1>3 DEF IInv, CandidatesInv
  <1>5. Links(machine)' = Links(machine)
    BY <1>1
  <1>6. /\ ~topology.ours /\ IsFunction(source)
        /\ machine.devices \in Seq(STRING) /\ ~IsStrela(machine.default)
    BY <1>1 DEF IInv, MachineInv
  <1>7. topology'.ours => topology'.links = Links(machine)
    BY <1>2, <1>6
  <1>8. MachineInv'
    BY <1>1, <1>5, <1>6, <1>7 DEF MachineInv
  <1> QED BY <1>3, <1>4, <1>8 DEF IInv

LEMMA GatherKeeps == IInv /\ GatherCandidates => IInv'
  <1> SUFFICES ASSUME IInv, GatherCandidates PROVE IInv'
    OBVIOUS
  <1>1. UNCHANGED <<machine, source, topology>> /\ phase = "gather" /\ phase' = "wrap"
    BY DEF GatherCandidates
  <1>2. MachineInv'
    BY <1>1 DEF IInv, MachineInv
  <1>3. candidates = {} /\ Wrapped = {} /\ IsFunction(source)
    BY <1>1 DEF IInv, CandidatesInv, MachineInv
  <1>4. CASE StrelaAffinity(machine) = NoDevice
    <2>1. UNCHANGED <<block, candidates>>
      BY <1>4 DEF GatherCandidates
    <2>2. NodesInv' /\ IdsInv' /\ OrderInv' /\ Wrapped' = Wrapped /\ LinalgIds' = LinalgIds
      BY <1>1, <2>1, FunctionStays
    <2>3. CandidatesInv'
      BY <1>1, <2>1, <2>2 DEF IInv, CandidatesInv
    <2> QED BY <1>2, <2>2, <2>3 DEF IInv
  <1>5. CASE StrelaAffinity(machine) # NoDevice
    <2>1. /\ block' = PinAbiToDefaultDevice(block)
          /\ candidates' = {block[i].id : i \in {l \in LinalgOps(block) :
                                                   KernelIn(block, block[l]) # NoKernel}}
      BY <1>5 DEF GatherCandidates
    <2>2. Len(block) \in Nat /\ DOMAIN block = 1 .. Len(block)
      BY BlockDomain DEF IInv, NodesInv
    <2>3. ASSUME NEW i \in DOMAIN block
          PROVE  /\ IsNode(block'[i]) /\ block'[i].id = block[i].id
                 /\ block'[i].kind = block[i].kind /\ block'[i].args = block[i].args
                 /\ block[i].kind = "transfer" => block'[i].to = block[i].to
      <3> DEFINE n == block[i]
      <3>1. IsNode(n)
        BY DEF IInv, NodesInv
      <3>2. block'[i] = n \/ (n.kind # "transfer" /\ block'[i] = [n EXCEPT !.to = machine.default])
        BY <2>1 DEF PinAbiToDefaultDevice
      <3> HIDE DEF n
      <3>3. n = Node(n.id, n.kind, n.args, n.value, n.op, n.to)
        BY <3>1 DEF IsNode
      <3>4. \A t : [n EXCEPT !.to = t] = Node(n.id, n.kind, n.args, n.value, n.op, t)
        BY <3>3 DEF Node
      <3>5. \A t : IsNode(Node(n.id, n.kind, n.args, n.value, n.op, t))
        BY <3>1 DEF IsNode, Node
      <3>6. \A t : LET r == Node(n.id, n.kind, n.args, n.value, n.op, t)
                   IN r.id = n.id /\ r.kind = n.kind /\ r.args = n.args
        BY DEF Node
      <3>7. CASE block'[i] = n
        BY <3>1, <3>7 DEF n
      <3>8. CASE n.kind # "transfer" /\ block'[i] = [n EXCEPT !.to = machine.default]
        BY <3>4, <3>5, <3>6, <3>8 DEF n
      <3> QED BY <3>2, <3>7, <3>8
    <2>4. IsBlock(block') /\ DOMAIN block' = DOMAIN block
      <3>1. block' \in [1 .. Len(block) -> {block'[i] : i \in 1 .. Len(block)}]
        BY <2>1, <2>2 DEF PinAbiToDefaultDevice
      <3> QED BY <2>2, <3>1, BlockOf
    <2>5. NodesInv' /\ IdsInv' /\ OrderInv' /\ Wrapped' = Wrapped
      BY <1>1, <2>3, <2>4, SameNodes
    <2>6. ASSUME NEW c \in candidates' PROVE c \in LinalgIds
      <3>1. PICK i \in DOMAIN block : block[i].id = c /\ block[i].kind = "linalg"
        BY <2>1 DEF LinalgOps
      <3>2. IsOperation(block[i])
        BY <1>3 DEF IInv, NodesInv, IsKnown
      <3>3. c \in SourceIds /\ SourceOp(c).kind = "linalg"
        BY <3>1, <3>2 DEF IsOperation
      <3>4. Place(c) \in DOMAIN source /\ source[Place(c)].kind = "linalg" /\ source[Place(c)].id = c
        BY <1>3, <3>3, SourceIdIs
      <3> QED BY <3>4 DEF LinalgIds, LinalgOps
    <2>7. DevicesOf(machine, TRUE) # {}
      BY <1>5 DEF StrelaAffinity
    <2>8. DevicesOf(machine, TRUE)' # {} /\ LinalgIds' = LinalgIds
      BY <1>1, <2>7, SourceStays
    <2>9. CandidatesInv'
      BY <1>1, <1>3, <2>5, <2>6, <2>8 DEF CandidatesInv
    <2> QED BY <1>2, <2>5, <2>9 DEF IInv
  <1> QED BY <1>4, <1>5


-----------------------------------------------------------------------------
(* Wrapping.  What a node is, by the length of its id.                     *)
LEMMA KnownBy ==
  ASSUME IInv, NEW i \in DOMAIN block
  PROVE  /\ Len(block[i].id) = 1 => IsOperation(block[i])
         /\ Len(block[i].id) = 3 => \E c \in Wrapped : IsBack(block[i], c)
         /\ Len(block[i].id) = 2 =>
              \/ \E c \in Wrapped : IsDims(block[i], c)
              \/ \E c \in Wrapped : \E k \in Moved(c) : IsIn(block[i], c, k)
         /\ Len(block[i].id) \in {1, 2, 3}
         /\ Home(block[i].id) \in SourceIds
  <1> DEFINE n == block[i]
  <1>1. IsKnown(n) /\ IsFunction(source) /\ Wrapped \subseteq LinalgIds
    BY DEF IInv, NodesInv, MachineInv, CandidatesInv
  <1> HIDE DEF n
  <1>2. CASE IsOperation(n)
    <2>1. n.id \in SourceIds
      BY <1>2 DEF IsOperation
    <2>2. Len(n.id) = 1 /\ Home(n.id) = n.id
      BY <1>1, <2>1, SourceIdIs, IdsAre
    <2> QED BY <1>2, <2>1, <2>2 DEF n
  <1>3. ASSUME NEW c \in Wrapped
        PROVE  /\ c \in SourceIds
               /\ Len(DimsId(c)) = 2 /\ Home(DimsId(c)) = c
               /\ Len(BackId(c)) = 3 /\ Home(BackId(c)) = c
               /\ \A k \in Moved(c) : Len(TransferId(c, k)) = 2 /\ Home(TransferId(c, k)) = c
    <2>1. c \in SourceIds /\ Moved(c) \subseteq Nat
      BY <1>1, LinalgIs
    <2>2. SourceId(c)
      BY <1>1, <2>1, SourceIdIs
    <2> QED BY <2>1, <2>2, IdsAre
  <1>4. ASSUME NEW c \in Wrapped, IsDims(n, c)
        PROVE  Len(n.id) = 2 /\ Home(n.id) \in SourceIds
    BY <1>3, <1>4 DEF IsDims
  <1>5. ASSUME NEW c \in Wrapped, NEW k \in Moved(c), IsIn(n, c, k)
        PROVE  Len(n.id) = 2 /\ Home(n.id) \in SourceIds
    BY <1>3, <1>5 DEF IsIn
  <1>6. ASSUME NEW c \in Wrapped, IsBack(n, c)
        PROVE  Len(n.id) = 3 /\ Home(n.id) \in SourceIds
    BY <1>3, <1>6 DEF IsBack
  <1> QED BY <1>1, <1>2, <1>4, <1>5, <1>6 DEF IsKnown, n

(* How an operand is read tells an immediate from what is transferred, no  *)
(* matter what was wrapped before.                                         *)
LEMMA UseKind ==
  ASSUME IInv, NEW a \in SourceIds
  PROVE  /\ Use(a) \in Values
         /\ Defining(block, Use(a)) \in DOMAIN block
         /\ block[Defining(block, Use(a))].id = Use(a)
         /\ (block[Defining(block, Use(a))].kind = "splat") <=> (SourceOp(a).kind = "splat")
         /\ a \notin Wrapped => block[Defining(block, Use(a))].kind = SourceOp(a).kind
         /\ a \in Wrapped => IsBack(block[Defining(block, Use(a))], a)
  <1>1. IsFunction(source) /\ IdsInv /\ Distinct(block) /\ Wrapped \subseteq LinalgIds
    BY DEF IInv, MachineInv, NodesInv, CandidatesInv
  <1>2. SourceId(a) /\ Use(a) \in Values
    BY <1>1, SourceIdIs, UseIs
  <1>3. PICK j \in DOMAIN block : block[j].id = Use(a)
    BY <1>2 DEF Values
  <1>4. Defining(block, Use(a)) = j
    BY <1>1, <1>3, DefiningIs
  <1>5. CASE a \notin Wrapped
    <2>1. block[j].id = a /\ Len(a) = 1
      BY <1>2, <1>3, <1>5, IdsAre DEF Use
    <2>2. IsOperation(block[j])
      BY <2>1, KnownBy
    <2>3. block[j].kind = SourceOp(a).kind
      BY <2>1, <2>2 DEF IsOperation
    <2> QED BY <1>2, <1>3, <1>4, <1>5, <2>3
  <1>6. CASE a \in Wrapped
    <2>1. block[j].id = BackId(a) /\ Len(BackId(a)) = 3 /\ Home(BackId(a)) = a
      BY <1>2, <1>3, <1>6, IdsAre DEF Use
    <2>2. PICK c \in Wrapped : IsBack(block[j], c)
      BY <2>1, KnownBy
    <2>3. c \in SourceIds
      BY <1>1, <2>2, LinalgIs
    <2>4. Home(BackId(c)) = c /\ BackId(c) = BackId(a)
      BY <1>1, <2>1, <2>2, <2>3, SourceIdIs, IdsAre DEF IsBack
    <2>5. c = a
      BY <2>1, <2>4
    <2>6. block[j].kind = "transfer" /\ SourceOp(a).kind = "linalg"
      BY <1>1, <1>6, <2>2, LinalgIs DEF IsBack
    <2> QED BY <1>2, <1>3, <1>4, <1>6, <2>2, <2>5, <2>6
  <1> QED BY <1>5, <1>6

(* The candidate that is wrapped, in the block as it is.                   *)
LEMMA CandidateIs ==
  ASSUME IInv, NEW c \in candidates
  PROVE  LET p == Defining(block, c) IN
         /\ c \in LinalgIds /\ c \in SourceIds /\ c \notin Wrapped /\ BackId(c) \notin Values
         /\ p \in DOMAIN block /\ block[p].id = c /\ block[p].kind = "linalg"
         /\ block[p].args # <<>>
         /\ DOMAIN block[p].args = DOMAIN SourceOp(c).args
         /\ \A k \in DOMAIN block[p].args : block[p].args[k] = Use(Operand(c, k))
         /\ InitOf(block[p]) = Use(InitOf(SourceOp(c)))
         /\ Transferred(block, block[p]) = Moved(c)
  <1>1. IsFunction(source) /\ IdsInv /\ Distinct(block) /\ c \in LinalgIds /\ c \notin Wrapped
    BY DEF IInv, MachineInv, NodesInv, CandidatesInv
  <1>2. /\ c \in SourceIds /\ SourceOp(c).kind = "linalg"
        /\ Len(SourceOp(c).args) \in Nat \ {0}
        /\ DOMAIN SourceOp(c).args = 1 .. Len(SourceOp(c).args)
        /\ InitOf(SourceOp(c)) = Operand(c, Len(SourceOp(c).args))
    BY <1>1, LinalgIs
  <1>3. BackId(c) \notin Values /\ c \in Values
    BY <1>1, <1>2 DEF Wrapped, IdsInv
  <1>4. PICK p \in DOMAIN block : block[p].id = c
    BY <1>3 DEF Values
  <1>5. Defining(block, c) = p
    BY <1>1, <1>4, DefiningIs
  <1>6. IsOperation(block[p]) /\ IsNode(block[p])
    <2>1. Len(c) = 1
      BY <1>1, <1>2, SourceIdIs, IdsAre
    <2> QED BY <1>4, <2>1, KnownBy DEF IInv, NodesInv
  <1>7. /\ block[p].kind = "linalg" /\ DOMAIN block[p].args = DOMAIN SourceOp(c).args
        /\ \A k \in DOMAIN block[p].args : block[p].args[k] = Use(Operand(c, k))
    BY <1>1, <1>2, <1>4, <1>6 DEF IsOperation
  <1>8. block[p].args \in Seq(Seq(Nat)) /\ SourceOp(c).args \in Seq(Seq(Nat))
    BY <1>1, <1>2, <1>6, SourceIdIs DEF IsNode
  <1>9. Len(block[p].args) = Len(SourceOp(c).args)
    <2>1. /\ Len(block[p].args) \in Nat /\ DOMAIN block[p].args = 1 .. Len(block[p].args)
      BY <1>8, LenProperties
    <2> QED BY <1>2, <1>7, <2>1
  <1>10. block[p].args # <<>> /\ SourceOp(c).args # <<>>
    <2>1. block[p].args = <<>> => Len(block[p].args) = 0
      BY EmptySeq
    <2>2. SourceOp(c).args = <<>> => Len(SourceOp(c).args) = 0
      BY EmptySeq
    <2> QED BY <1>2, <1>9, <2>1, <2>2
  <1>11. /\ InitOf(block[p]) = block[p].args[Len(block[p].args)]
         /\ DOMAIN Inputs(block[p]) = 1 .. Len(block[p].args) - 1
         /\ DOMAIN Inputs(SourceOp(c)) = 1 .. Len(SourceOp(c).args) - 1
    BY <1>8, <1>10, InputsAre
  <1>12. InitOf(block[p]) = Use(InitOf(SourceOp(c)))
    BY <1>2, <1>7, <1>9, <1>11
  <1>13. ASSUME NEW k \in DOMAIN Inputs(SourceOp(c))
         PROVE  (block[Defining(block, block[p].args[k])].kind = "splat")
                  <=> (source[Defining(source, SourceOp(c).args[k])].kind = "splat")
    <2>1. k \in DOMAIN SourceOp(c).args /\ block[p].args[k] = Use(Operand(c, k))
      BY <1>2, <1>7, <1>11
    <2>2. Operand(c, k) \in SourceIds
      BY <1>1, <1>2, <2>1, SourceIdIs
    <2>3. SourceOp(Operand(c, k)) = source[Defining(source, SourceOp(c).args[k])]
      BY DEF SourceOp, Operand
    <2> QED BY <2>1, <2>2, <2>3, UseKind
  <1>14. Transferred(block, block[p]) = Moved(c)
    <2>1. DOMAIN Inputs(block[p]) = DOMAIN Inputs(SourceOp(c))
      BY <1>9, <1>11
    <2> QED BY <1>13, <2>1, Zenon DEF Transferred, Moved, IsInt32Immediate
  <1> QED BY <1>1, <1>2, <1>3, <1>4, <1>5, <1>7, <1>10, <1>12, <1>14


(* A node that does not read c stays as it is.                             *)
LEMMA RewiredSame ==
  ASSUME NEW n, IsNode(n), NEW c, NEW back, \A k \in DOMAIN n.args : n.args[k] # c
  PROVE  Rewired(n, c, back) = n
  <1>1. [k \in DOMAIN n.args |-> IF n.args[k] = c THEN back ELSE n.args[k]] = n.args
    <2>1. n.args \in Seq(Seq(Nat))
      BY DEF IsNode
    <2>2. n.args = [k \in 1 .. Len(n.args) |-> n.args[k]] /\ DOMAIN n.args = 1 .. Len(n.args)
      BY <2>1, SeqDef, LenProperties
    <2> QED BY <2>2
  <1>2. Rewired(n, c, back) = [n EXCEPT !.args = n.args]
    BY <1>1, Zenon DEF Rewired
  <1>3. n = Node(n.id, n.kind, n.args, n.value, n.op, n.to)
    BY DEF IsNode
  <1>4. \A x : [Node(n.id, n.kind, n.args, n.value, n.op, n.to) EXCEPT !.args = x]
                 = Node(n.id, n.kind, x, n.value, n.op, n.to)
    BY DEF Node
  <1> QED BY <1>2, <1>3, <1>4

(* A node with one operand.                                                *)
IsNodeOf(n, id, kind, x, to) ==
  /\ IsNode(n) /\ n.id = id /\ n.kind = kind /\ n.args = <<x>> /\ n.to = to
  /\ DOMAIN n.args = {1} /\ n.args[1] = x

LEMMA NodeOfOne ==
  ASSUME NEW id \in Seq(Nat), NEW kind, NEW x \in Seq(Nat), NEW value, NEW op, NEW to
  PROVE  IsNodeOf(Node(id, kind, <<x>>, value, op, to), id, kind, x, to)
  <1>1. <<x>> \in Seq(Seq(Nat)) /\ DOMAIN <<x>> = {1} /\ <<x>>[1] = x
    OBVIOUS
  <1> QED BY <1>1 DEF IsNodeOf, IsNode, Node

(* Where the nodes of the block go.                                        *)
Shift(p, m, i) == IF i < p THEN i ELSE IF i = p THEN p + m + 1 ELSE i + m + 2

(* The block after a wrap of candidate c, which was node p, by what is     *)
(* moved, s, in m transfers.                                               *)
WrapsAt(c, p, m, s) ==
  /\ p \in DOMAIN block /\ block[p].id = c
  /\ m \in Nat /\ s \in [1 .. m -> Moved(c)]
  /\ \A k, l \in 1 .. m : s[k] = s[l] => k = l
  /\ \A i \in Moved(c) : \E k \in 1 .. m : s[k] = i
  /\ IsBlock(block') /\ DOMAIN block' = 1 .. Len(block) + m + 2
  /\ \A i \in DOMAIN block :
       LET n == block[i]
           r == block'[Shift(p, m, i)]
       IN /\ IsNode(r) /\ r.id = n.id /\ r.kind = n.kind /\ r.to = n.to
          /\ r.value = n.value /\ r.op = n.op
          /\ DOMAIN r.args = DOMAIN n.args /\ Len(r.args) = Len(n.args)
          /\ \A k \in DOMAIN n.args :
               r.args[k] = IF i = p /\ k \in Moved(c) THEN TransferId(c, k)
                           ELSE IF n.args[k] = c THEN BackId(c) ELSE n.args[k]
  /\ IsNode(block'[p])
  /\ block'[p].id = DimsId(c) /\ block'[p].kind = "dims"
  /\ block'[p].args = <<Use(InitOf(SourceOp(c)))>>
  /\ \A k \in 1 .. m :
       LET r == block'[p + k] IN
       /\ IsNode(r) /\ r.id = TransferId(c, s[k]) /\ r.kind = "transfer"
       /\ r.to = StrelaAffinity(machine) /\ r.args = <<Use(Operand(c, s[k]))>>
  /\ LET r == block'[p + m + 2] IN
     /\ IsNode(r) /\ r.id = BackId(c) /\ r.kind = "transfer"
     /\ r.to = machine.default /\ r.args = <<c, DimsId(c)>>

(* The uses of a value that precedes c are not those of c.                 *)
LEMMA OwnOperands ==
  ASSUME IsFunction(source), NEW c \in SourceIds, c \notin Wrapped,
         NEW k \in DOMAIN SourceOp(c).args
  PROVE  Use(Operand(c, k)) # c /\ Use(Operand(c, k)) \in Seq(Nat) /\ Operand(c, k) # c
  <1>1. Operand(c, k) \in SourceIds /\ Place(Operand(c, k)) < Place(c) /\ Place(c) \in DOMAIN source
    BY SourceIdIs
  <1>2. Place(Use(Operand(c, k))) = Place(Operand(c, k)) /\ Use(Operand(c, k)) \in Seq(Nat)
    BY <1>1, UseIs
  <1>3. Place(c) \in Nat
    BY <1>1, SourceFacts
  <1> QED BY <1>1, <1>2, <1>3


LEMMA WrapIs ==
  ASSUME IInv, NEW c \in candidates,
         block' = WrapInTransfers(block, c, StrelaAffinity(machine), machine.default)
  PROVE  \E p, m, s : WrapsAt(c, p, m, s)
  <1> DEFINE p == Defining(block, c)
             N == block[p]
             n == Len(block)
             M == Transferred(block, N)
             m == Cardinality(M)
             s == InOrder(M)
             strela == StrelaAffinity(machine)
             host == machine.default
             A == [i \in DOMAIN N.args |-> IF i \in M THEN TransferId(c, i) ELSE N.args[i]]
  <1>1. /\ c \in LinalgIds /\ c \in SourceIds /\ c \notin Wrapped /\ BackId(c) \notin Values
        /\ p \in DOMAIN block /\ N.id = c /\ N.args # <<>>
        /\ DOMAIN N.args = DOMAIN SourceOp(c).args
        /\ \A k \in DOMAIN N.args : N.args[k] = Use(Operand(c, k))
        /\ InitOf(N) = Use(InitOf(SourceOp(c)))
        /\ M = Moved(c)
    BY CandidateIs
  <1>2. /\ IsFunction(source) /\ IsBlock(block) /\ \A i \in DOMAIN block : IsNode(block[i])
        /\ n \in Nat /\ DOMAIN block = 1 .. n /\ p \in 1 .. n
    BY <1>1, BlockDomain DEF IInv, MachineInv, NodesInv
  <1>3. /\ SourceId(c) /\ c \in Seq(Nat)
        /\ DimsId(c) \in Seq(Nat) /\ BackId(c) \in Seq(Nat)
        /\ \A i \in Nat : TransferId(c, i) \in Seq(Nat) /\ Len(TransferId(c, i)) = 2
        /\ Len(c) = 1
    BY <1>1, <1>2, SourceIdIs, IdsAre DEF SourceId
  <1>4. \A i \in DOMAIN block : block[i].id # BackId(N.id)
    BY <1>1 DEF Values
  <1>5. /\ Moved(c) \subseteq Nat /\ Moved(c) \subseteq DOMAIN SourceOp(c).args
        /\ Len(SourceOp(c).args) \in DOMAIN SourceOp(c).args
        /\ InitOf(SourceOp(c)) = Operand(c, Len(SourceOp(c).args))
    BY <1>1, <1>2, LinalgIs
  <1>6. /\ m \in Nat /\ s \in [1 .. m -> M]
        /\ \A k, l \in 1 .. m : s[k] = s[l] => k = l
        /\ \A i \in M : \E k \in 1 .. m : s[k] = i
        /\ IsBlock(block') /\ Len(block') = n + m + 2
        /\ \A i \in 1 .. p - 1 : block'[i] = Rewired(block[i], c, BackId(c))
        /\ block'[p] = Rewired(Node(DimsId(c), "dims", <<InitOf(N)>>, 0, NoOperation, NoDevice), c, BackId(c))
        /\ \A k \in 1 .. m :
             block'[p + k] = Rewired(Node(TransferId(c, s[k]), "transfer", <<N.args[s[k]]>>,
                                          0, NoOperation, strela), c, BackId(c))
        /\ block'[p + m + 1] = Rewired([N EXCEPT !.args = A], c, BackId(c))
        /\ block'[p + m + 2] = Node(BackId(c), "transfer", <<c, DimsId(c)>>, 0, NoOperation, host)
        /\ \A i \in p + 1 .. n : block'[i + m + 2] = Rewired(block[i], c, BackId(c))
    <2>1. Defining(block, block[p].id) = p /\ SourceId(block[p].id) /\ block[p].args # <<>>
      BY <1>1, <1>3
    <2>2. WrapShaped(block, p, strela, host)
      BY <1>1, <1>2, <1>4, <2>1, WrapShape
    <2> QED BY <1>1, <2>2, Zenon DEF WrapShaped
  <1>7. DOMAIN block' = 1 .. n + m + 2
    BY <1>6, BlockDomain
  <1>8. \A k \in DOMAIN N.args : N.args[k] # c /\ N.args[k] \in Seq(Nat)
    BY <1>1, <1>2, OwnOperands
  <1>8a. \A i \in M : i \in Nat /\ TransferId(c, i) \in Seq(Nat) /\ TransferId(c, i) # c
    <2>1. \A i \in Nat : TransferId(c, i) \in Seq(Nat) /\ TransferId(c, i) # c
      <3>1. Len(c) = 1 /\ \A i \in Nat : Len(TransferId(c, i)) = 2
        BY <1>3
      <3>2. \A i \in Nat : TransferId(c, i) # c
        BY <3>1
      <3> QED BY <1>3, <3>2
    <2>2. \A i \in M : i \in Nat
      BY <1>1, <1>5
    <2> QED BY <2>1, <2>2
  <1> HIDE DEF p, N, n, M, m, s, strela, host, A
  <1>9. ASSUME NEW i \in DOMAIN block, i # p
        PROVE  LET r == block'[Shift(p, m, i)] IN
               /\ IsNode(r) /\ r.id = block[i].id /\ r.kind = block[i].kind /\ r.to = block[i].to
               /\ r.value = block[i].value /\ r.op = block[i].op
               /\ DOMAIN r.args = DOMAIN block[i].args /\ Len(r.args) = Len(block[i].args)
               /\ \A k \in DOMAIN block[i].args :
                    r.args[k] = IF block[i].args[k] = c THEN BackId(c) ELSE block[i].args[k]
    <2>1. block'[Shift(p, m, i)] = Rewired(block[i], c, BackId(c))
      <3>1. CASE i < p
        <4>1. i \in 1 .. p - 1 /\ Shift(p, m, i) = i
          BY <1>2, <3>1 DEF Shift
        <4> QED BY <1>6, <4>1
      <3>2. CASE ~(i < p)
        <4>1. i \in p + 1 .. n /\ Shift(p, m, i) = i + m + 2
          BY <1>2, <1>9, <3>2 DEF Shift
        <4> QED BY <1>6, <4>1
      <3> QED BY <3>1, <3>2
    <2> QED BY <1>2, <1>3, <2>1, RewiredIs
  <1>10. LET r == block'[p + m + 1] IN
         /\ IsNode(r) /\ r.id = c /\ r.kind = N.kind /\ r.to = N.to
         /\ r.value = N.value /\ r.op = N.op
         /\ DOMAIN r.args = DOMAIN N.args /\ Len(r.args) = Len(N.args)
         /\ \A k \in DOMAIN N.args :
              r.args[k] = IF k \in M THEN TransferId(c, k) ELSE N.args[k]
    <2> DEFINE l == Len(N.args)
               B == Node(N.id, N.kind, A, N.value, N.op, N.to)
    <2>1. IsNode(N)
      BY <1>1, <1>2 DEF N
    <2>2. N.args \in Seq(Seq(Nat)) /\ N.id \in Seq(Nat) /\ l \in Nat /\ DOMAIN N.args = 1 .. l
      BY <2>1, LenProperties DEF IsNode
    <2>3. \A k \in 1 .. l : A[k] = IF k \in M THEN TransferId(c, k) ELSE N.args[k]
      BY <2>2 DEF A
    <2>4. \A k \in 1 .. l : A[k] \in Seq(Nat) /\ A[k] # c
      <3>1. ASSUME NEW k \in 1 .. l PROVE A[k] \in Seq(Nat) /\ A[k] # c
        <4>1. CASE k \in M
          BY <1>8a, <2>3, <4>1
        <4>2. CASE k \notin M
          BY <1>8, <2>2, <2>3, <4>2
        <4> QED BY <4>1, <4>2
      <3> QED BY <3>1
    <2>5. A \in Seq(Seq(Nat)) /\ DOMAIN A = 1 .. l /\ Len(A) = l
      <3>1. A \in [1 .. l -> Seq(Nat)]
        <4>1. A = [k \in 1 .. l |-> A[k]]
          BY <2>2, Zenon DEF A
        <4> QED BY <2>4, <4>1
      <3>2. l \in Nat
        BY <2>2
      <3> HIDE DEF l
      <3> QED BY <3>1, <3>2, FunctionIsSeq
    <2>7. [N EXCEPT !.args = A] = B
      <3>1. N = Node(N.id, N.kind, N.args, N.value, N.op, N.to)
        BY <2>1 DEF IsNode
      <3>2. \A x : [Node(N.id, N.kind, N.args, N.value, N.op, N.to) EXCEPT !.args = x]
                     = Node(N.id, N.kind, x, N.value, N.op, N.to)
        BY DEF Node
      <3> QED BY <3>1, <3>2
    <2>8. /\ B.id = N.id /\ B.kind = N.kind /\ B.args = A
          /\ B.value = N.value /\ B.op = N.op /\ B.to = N.to
      BY DEF Node
    <2>9. IsNode(B)
      BY <2>2, <2>5, <2>8 DEF IsNode
    <2>10. block'[p + m + 1] = Rewired(B, c, BackId(c))
      BY <1>6, <2>7
    <2> HIDE DEF B, l
    <2> DEFINE r == block'[p + m + 1]
    <2>11. /\ IsNode(r) /\ r.id = B.id /\ r.kind = B.kind /\ r.to = B.to
           /\ r.value = B.value /\ r.op = B.op
           /\ Len(r.args) = Len(B.args) /\ DOMAIN r.args = DOMAIN B.args
           /\ \A k \in DOMAIN B.args : r.args[k] = IF B.args[k] = c THEN BackId(c) ELSE B.args[k]
      BY <1>3, <2>9, <2>10, RewiredIs
    <2> QED BY <1>1, <2>2, <2>3, <2>4, <2>5, <2>8, <2>11 DEF l
  <1>11. /\ IsNode(block'[p])
         /\ block'[p].id = DimsId(c) /\ block'[p].kind = "dims"
         /\ block'[p].args = <<Use(InitOf(SourceOp(c)))>>
    <2>1. InitOf(N) # c /\ InitOf(N) \in Seq(Nat)
      BY <1>1, <1>5, <1>8
    <2> DEFINE x == InitOf(N)
               t == DimsId(c)
               r == Node(t, "dims", <<x>>, 0, NoOperation, NoDevice)
    <2>2. x # c /\ x \in Seq(Nat) /\ t \in Seq(Nat)
      BY <1>3, <2>1
    <2>3. block'[p] = Rewired(r, c, BackId(c))
      BY <1>6
    <2> HIDE DEF x, t
    <2>4. IsNodeOf(r, t, "dims", x, NoDevice)
      BY <2>2, NodeOfOne, Zenon
    <2> HIDE DEF r
    <2>5. Rewired(r, c, BackId(c)) = r
      BY <2>2, <2>4, RewiredSame DEF IsNodeOf
    <2> QED BY <1>1, <2>3, <2>4, <2>5 DEF IsNodeOf, x, t
  <1>12. ASSUME NEW k \in 1 .. m
         PROVE  LET r == block'[p + k] IN
                /\ IsNode(r) /\ r.id = TransferId(c, s[k]) /\ r.kind = "transfer"
                /\ r.to = strela /\ r.args = <<Use(Operand(c, s[k]))>>
    <2>1. s[k] \in Moved(c) /\ s[k] \in DOMAIN N.args /\ s[k] \in Nat
      BY <1>1, <1>5, <1>6
    <2>2. N.args[s[k]] # c /\ N.args[s[k]] \in Seq(Nat) /\ N.args[s[k]] = Use(Operand(c, s[k]))
      BY <1>1, <1>8, <2>1
    <2> DEFINE x == N.args[s[k]]
               t == TransferId(c, s[k])
               r == Node(t, "transfer", <<x>>, 0, NoOperation, strela)
    <2>3. x # c /\ x \in Seq(Nat) /\ t \in Seq(Nat)
      BY <1>3, <2>1, <2>2
    <2>4. block'[p + k] = Rewired(r, c, BackId(c))
      BY <1>6
    <2> HIDE DEF x, t
    <2>5. IsNodeOf(r, t, "transfer", x, strela)
      BY <2>3, NodeOfOne, Zenon
    <2> HIDE DEF r
    <2>6. Rewired(r, c, BackId(c)) = r
      BY <2>3, <2>5, RewiredSame DEF IsNodeOf
    <2> QED BY <2>2, <2>4, <2>5, <2>6 DEF IsNodeOf, x, t
  <1>13. LET r == block'[p + m + 2] IN
         /\ IsNode(r) /\ r.id = BackId(c) /\ r.kind = "transfer"
         /\ r.to = host /\ r.args = <<c, DimsId(c)>>
    <2>1. <<c, DimsId(c)>> \in Seq(Seq(Nat))
      BY <1>3
    <2> QED BY <1>3, <1>6, <2>1 DEF IsNode, Node
  <1>14. ASSUME NEW i \in DOMAIN block
         PROVE  LET r == block'[Shift(p, m, i)] IN
                /\ IsNode(r) /\ r.id = block[i].id /\ r.kind = block[i].kind /\ r.to = block[i].to
                /\ r.value = block[i].value /\ r.op = block[i].op
                /\ DOMAIN r.args = DOMAIN block[i].args /\ Len(r.args) = Len(block[i].args)
                /\ \A k \in DOMAIN block[i].args :
                     r.args[k] = IF i = p /\ k \in Moved(c) THEN TransferId(c, k)
                                 ELSE IF block[i].args[k] = c THEN BackId(c) ELSE block[i].args[k]
    <2>1. CASE i # p
      BY <1>9, <2>1
    <2>2. CASE i = p
      <3>1. Shift(p, m, i) = p + m + 1
        BY <1>2, <2>2 DEF Shift
      <3> QED BY <1>1, <1>8, <1>10, <2>2, <3>1 DEF N
    <2> QED BY <2>1, <2>2
  <1>15. WrapsAt(c, p, m, s)
    BY <1>1, <1>6, <1>7, <1>11, <1>12, <1>13, <1>14, Zenon DEF WrapsAt, N, n, strela, host
  <1> QED BY <1>15


IsSpot(i, n, p, m) ==
  \/ i = p \/ i = p + m + 2
  \/ \E k \in 1 .. m : i = p + k
  \/ \E j \in 1 .. n : i = Shift(p, m, j)

LEMMA Positions ==
  ASSUME NEW n \in Nat, NEW p \in 1 .. n, NEW m \in Nat
  PROVE  /\ \A i \in 1 .. n + m + 2 : IsSpot(i, n, p, m)
         /\ \A j \in 1 .. n : Shift(p, m, j) \in 1 .. n + m + 2
         /\ \A i, j \in 1 .. n : i < j => Shift(p, m, i) < Shift(p, m, j)
         /\ \A j \in 1 .. n : /\ j < p => Shift(p, m, j) < p
                              /\ j > p => Shift(p, m, j) > p + m + 2
         /\ Shift(p, m, p) = p + m + 1
         /\ p \in 1 .. n + m + 2 /\ p + m + 2 \in 1 .. n + m + 2
         /\ \A k \in 1 .. m : p + k \in 1 .. n + m + 2 /\ p + k > p /\ p + k < p + m + 1
  <1>1. ASSUME NEW i \in 1 .. n + m + 2, i # p, i # p + m + 2, ~\E k \in 1 .. m : i = p + k
        PROVE  \E j \in 1 .. n : i = Shift(p, m, j)
    <2>1. CASE i < p
      <3>1. i \in 1 .. n /\ i = Shift(p, m, i)
        BY <2>1 DEF Shift
      <3> QED BY <3>1
    <2>2. CASE i = p + m + 1
      <3>1. i = Shift(p, m, p)
        BY <2>2 DEF Shift
      <3> QED BY <3>1
    <2>3. CASE i > p + m + 2
      <3>1. i - m - 2 \in 1 .. n /\ i = Shift(p, m, i - m - 2)
        BY <2>3 DEF Shift
      <3> QED BY <3>1
    <2>4. i < p \/ i = p + m + 1 \/ i > p + m + 2
      <3>1. ~(i - p \in 1 .. m)
        <4>1. i = p + (i - p)
          OBVIOUS
        <4> QED BY <1>1, <4>1
      <3> QED BY <1>1, <3>1
    <2> QED BY <2>1, <2>2, <2>3, <2>4
  <1>2. /\ \A j \in 1 .. n : Shift(p, m, j) \in 1 .. n + m + 2
        /\ \A i, j \in 1 .. n : i < j => Shift(p, m, i) < Shift(p, m, j)
        /\ \A j \in 1 .. n : /\ j < p => Shift(p, m, j) < p
                             /\ j > p => Shift(p, m, j) > p + m + 2
        /\ Shift(p, m, p) = p + m + 1
    BY DEF Shift
  <1>3. /\ p \in 1 .. n + m + 2 /\ p + m + 2 \in 1 .. n + m + 2
        /\ \A k \in 1 .. m : p + k \in 1 .. n + m + 2 /\ p + k > p /\ p + k < p + m + 1
    OBVIOUS
  <1> QED BY <1>1, <1>2, <1>3 DEF IsSpot

(* The values after a wrap, and how they are read.                         *)
LEMMA ValuesAfter ==
  ASSUME IInv, NEW c \in candidates, NEW p, NEW m, NEW s, WrapsAt(c, p, m, s),
         UNCHANGED <<machine, source>>
  PROVE  /\ Values' = Values \cup {DimsId(c), BackId(c)} \cup {TransferId(c, k) : k \in Moved(c)}
         /\ Wrapped' = Wrapped \cup {c}
         /\ \A a \in SourceIds : Use(a)' = IF Use(a) = c THEN BackId(c) ELSE Use(a)
         /\ \A k \in DOMAIN SourceOp(c).args : Use(Operand(c, k))' = Use(Operand(c, k))
  <1> DEFINE n == Len(block)
             Added == {DimsId(c), BackId(c)} \cup {TransferId(c, k) : k \in Moved(c)}
  <1>1. /\ c \in LinalgIds /\ c \in SourceIds /\ c \notin Wrapped /\ BackId(c) \notin Values
        /\ IsFunction(source)
    BY CandidateIs DEF IInv, MachineInv
  <1>2. /\ n \in Nat /\ DOMAIN block = 1 .. n /\ p \in 1 .. n /\ m \in Nat
        /\ DOMAIN block' = 1 .. n + m + 2
    BY BlockDomain DEF IInv, NodesInv, WrapsAt
  <1> HIDE DEF n
  <1>3. ASSUME NEW i \in DOMAIN block' PROVE block'[i].id \in Values \cup Added
    <2>1. CASE i = p \/ i = p + m + 2
      BY <2>1 DEF WrapsAt
    <2>2. ASSUME NEW k \in 1 .. m, i = p + k PROVE block'[i].id \in Added
      <3>1. s[k] \in Moved(c) /\ block'[i].id = TransferId(c, s[k])
        BY <2>2 DEF WrapsAt
      <3> QED BY <3>1
    <2>3. ASSUME NEW j \in 1 .. n, i = Shift(p, m, j) PROVE block'[i].id \in Values
      <3>1. block'[i].id = block[j].id
        BY <1>2, <2>3 DEF WrapsAt
      <3> QED BY <1>2, <3>1 DEF Values
    <2>4. \/ i = p \/ i = p + m + 2
          \/ \E k \in 1 .. m : i = p + k
          \/ \E j \in 1 .. n : i = Shift(p, m, j)
      <3>1. i \in 1 .. n + m + 2
        BY <1>2
      <3>2. IsSpot(i, n, p, m)
        BY <1>2, <3>1, Positions
      <3> QED BY <3>2, Zenon DEF IsSpot
    <2> HIDE DEF Added
    <2> QED BY <2>1, <2>2, <2>3, <2>4
  <1>4. ASSUME NEW x \in Values \cup Added PROVE x \in Values'
    <2> SUFFICES \E i \in DOMAIN block' : block'[i].id = x
      BY DEF Values
    <2>1. CASE x \in Values
      <3>1. PICK j \in 1 .. n : block[j].id = x
        BY <1>2, <2>1 DEF Values
      <3>2. Shift(p, m, j) \in DOMAIN block' /\ block'[Shift(p, m, j)].id = x
        BY <1>2, <3>1, Positions DEF WrapsAt
      <3> QED BY <3>2
    <2>2. CASE x = DimsId(c) \/ x = BackId(c)
      <3>1. p \in DOMAIN block' /\ p + m + 2 \in DOMAIN block'
        BY <1>2
      <3>2. block'[p].id = DimsId(c) /\ block'[p + m + 2].id = BackId(c)
        BY DEF WrapsAt
      <3> QED BY <2>2, <3>1, <3>2
    <2>3. ASSUME NEW i \in Moved(c), x = TransferId(c, i)
          PROVE  \E j \in DOMAIN block' : block'[j].id = x
      <3>1. PICK k \in 1 .. m : s[k] = i
        BY DEF WrapsAt
      <3>2. p + k \in DOMAIN block'
        BY <1>2
      <3>3. block'[p + k].id = x
        BY <2>3, <3>1 DEF WrapsAt
      <3> QED BY <3>2, <3>3
    <2> QED BY <2>1, <2>2, <2>3
  <1>5. Values' = Values \cup Added
    <2>1. Values' \subseteq Values \cup Added
      BY <1>3 DEF Values
    <2> QED BY <1>4, <2>1
  <1>6. ASSUME NEW d \in SourceIds PROVE BackId(d) \in Added <=> d = c
    <2>1. /\ Len(BackId(d)) = 3 /\ Home(BackId(d)) = d /\ Home(BackId(c)) = c
          /\ Len(DimsId(c)) = 2 /\ \A k \in Nat : Len(TransferId(c, k)) = 2
      BY <1>1, SourceIdIs, IdsAre
    <2>2. \A k \in Moved(c) : k \in Nat
      BY <1>1, LinalgIs
    <2>3. BackId(d) = BackId(c) => d = c
      BY <2>1
    <2>4. BackId(d) # DimsId(c) /\ \A k \in Nat : BackId(d) # TransferId(c, k)
      BY <2>1
    <2> QED BY <2>2, <2>3, <2>4
  <1> HIDE DEF Added
  <1>7. Wrapped' = Wrapped \cup {c}
    <2>1. Wrapped' = {d \in SourceIds : BackId(d) \in Values'}
      BY SourceStays DEF Wrapped
    <2> QED BY <1>1, <1>5, <1>6, <2>1 DEF Wrapped
  <1>8. ASSUME NEW a \in SourceIds PROVE Use(a)' = IF Use(a) = c THEN BackId(c) ELSE Use(a)
    <2>1. Use(a)' = IF a \in Wrapped \cup {c} THEN BackId(a) ELSE a
      BY <1>7 DEF Use
    <2>2. Len(BackId(a)) = 3 /\ Len(c) = 1
      BY <1>1, SourceIdIs, IdsAre
    <2>3. BackId(a) # c
      BY <2>2
    <2> QED BY <1>1, <2>1, <2>3 DEF Use
  <1>9. ASSUME NEW k \in DOMAIN SourceOp(c).args
        PROVE  Use(Operand(c, k))' = Use(Operand(c, k))
    <2>1. Use(Operand(c, k)) # c /\ Operand(c, k) # c /\ Operand(c, k)' = Operand(c, k)
      BY <1>1, OwnOperands, SourceStays
    <2> QED BY <1>7, <2>1 DEF Use
  <1> QED BY <1>5, <1>7, <1>8, <1>9 DEF Added


(* Sequences of one and of two.                                            *)
LEMMA SeqOne ==
  ASSUME NEW S, NEW q \in Seq(S), NEW x, Len(q) = 1, q[1] = x
  PROVE  q = <<x>>
  OBVIOUS

LEMMA SeqTwo ==
  ASSUME NEW S, NEW q \in Seq(S), NEW x, NEW y, Len(q) = 2, q[1] = x, q[2] = y
  PROVE  q = <<x, y>>
  OBVIOUS

LEMMA KnownAfter ==
  ASSUME IInv, NEW c \in candidates, NEW p, NEW m, NEW s, WrapsAt(c, p, m, s),
         UNCHANGED <<machine, source>>, NEW i \in DOMAIN block'
  PROVE  IsNode(block'[i]) /\ IsKnown(block[i])'
  <1> DEFINE n == Len(block)
             r == block'[i]
  <1>1. /\ c \in LinalgIds /\ c \in SourceIds /\ c \notin Wrapped
        /\ IsFunction(source) /\ Wrapped \subseteq LinalgIds /\ Distinct(block)
        /\ SourceId(c) /\ Len(c) = 1
    BY CandidateIs, SourceIdIs, IdsAre DEF IInv, MachineInv, NodesInv, CandidatesInv
  <1>2. /\ n \in Nat /\ DOMAIN block = 1 .. n /\ p \in 1 .. n /\ m \in Nat
        /\ DOMAIN block' = 1 .. n + m + 2 /\ block[p].id = c
    BY BlockDomain DEF IInv, NodesInv, WrapsAt
  <1>3. /\ Wrapped' = Wrapped \cup {c}
        /\ \A a \in SourceIds : Use(a)' = IF Use(a) = c THEN BackId(c) ELSE Use(a)
        /\ \A k \in DOMAIN SourceOp(c).args : Use(Operand(c, k))' = Use(Operand(c, k))
    BY ValuesAfter
  <1>3a. \A d : d # c => (d \in Wrapped' <=> d \in Wrapped)
    BY <1>3
  <1>4. \A d : /\ SourceIds' = SourceIds /\ SourceOp(d)' = SourceOp(d) /\ Moved(d)' = Moved(d)
               /\ \A k : Operand(d, k)' = Operand(d, k)
    BY SourceStays
  <1>5. /\ \A d \in LinalgIds : /\ d \in SourceIds /\ Len(SourceOp(d).args) \in DOMAIN SourceOp(d).args
                                /\ InitOf(SourceOp(d)) = Operand(d, Len(SourceOp(d).args))
                                /\ \A k \in Moved(d) : k \in DOMAIN SourceOp(d).args /\ k \in Nat
        /\ \A d \in SourceIds : \A k \in DOMAIN SourceOp(d).args : Operand(d, k) \in SourceIds
    BY <1>1, LinalgIs, SourceIdIs
  <1>6. \A d \in SourceIds : Len(DimsId(d)) = 2 /\ \A k \in Nat : Len(TransferId(d, k)) = 2
    BY <1>1, SourceIdIs, IdsAre
  <1>7. \A d \in SourceIds : DimsId(d) # c /\ \A k \in Nat : TransferId(d, k) # c
    BY <1>1, <1>6
  <1> HIDE DEF n, r
  <1>8. CASE i = p
    <2>1. /\ IsNode(r) /\ r.id = DimsId(c) /\ r.kind = "dims"
          /\ r.args = <<Use(InitOf(SourceOp(c)))>>
      BY <1>8 DEF WrapsAt, r
    <2>2. r.args = <<Use(InitOf(SourceOp(c)))'>>
      BY <1>1, <1>3, <1>4, <1>5, <2>1
    <2>3. IsDims(block[i], c)'
      BY <1>4, <2>1, <2>2 DEF IsDims, r
    <2> QED BY <1>3, <2>1, <2>3 DEF IsKnown, r
  <1>9. CASE i = p + m + 2
    <2>1. /\ IsNode(r) /\ r.id = BackId(c) /\ r.kind = "transfer" /\ r.to = machine.default
          /\ r.args = <<c, DimsId(c)>>
      BY <1>9 DEF WrapsAt, r
    <2>2. IsBack(block[i], c)'
      BY <2>1 DEF IsBack, r
    <2> QED BY <1>3, <2>1, <2>2 DEF IsKnown, r
  <1>10. ASSUME NEW k \in 1 .. m, i = p + k
         PROVE  IsNode(r) /\ IsKnown(block[i])'
    <2>1. /\ IsNode(r) /\ r.id = TransferId(c, s[k]) /\ r.kind = "transfer"
          /\ r.to = StrelaAffinity(machine) /\ r.args = <<Use(Operand(c, s[k]))>>
          /\ s[k] \in Moved(c)
      BY <1>10 DEF WrapsAt, r
    <2>2. r.args = <<Use(Operand(c, s[k]))'>>
      BY <1>1, <1>3, <1>5, <2>1
    <2>3. IsIn(block[i], c, s[k])'
      BY <1>4, <2>1, <2>2 DEF IsIn, r
    <2>4. s[k] \in Moved(c)'
      BY <1>4, <2>1
    <2> QED BY <1>3, <2>1, <2>3, <2>4 DEF IsKnown, r
  <1>11. ASSUME NEW j \in 1 .. n, i = Shift(p, m, j)
         PROVE  IsNode(r) /\ IsKnown(block[i])'
    <2> DEFINE old == block[j]
    <2>1. /\ IsNode(r) /\ r.id = old.id /\ r.kind = old.kind /\ r.to = old.to
          /\ DOMAIN r.args = DOMAIN old.args /\ Len(r.args) = Len(old.args)
          /\ \A k \in DOMAIN old.args :
               r.args[k] = IF j = p /\ k \in Moved(c) THEN TransferId(c, k)
                           ELSE IF old.args[k] = c THEN BackId(c) ELSE old.args[k]
      <3>1. \A a \in DOMAIN block :
              LET x == block[a]
                  y == block'[Shift(p, m, a)]
              IN /\ IsNode(y) /\ y.id = x.id /\ y.kind = x.kind /\ y.to = x.to
                 /\ DOMAIN y.args = DOMAIN x.args /\ Len(y.args) = Len(x.args)
                 /\ \A k \in DOMAIN x.args :
                      y.args[k] = IF a = p /\ k \in Moved(c) THEN TransferId(c, k)
                                  ELSE IF x.args[k] = c THEN BackId(c) ELSE x.args[k]
        BY Zenon DEF WrapsAt
      <3>2. j \in DOMAIN block /\ r = block'[Shift(p, m, j)]
        BY <1>2, <1>11 DEF r
      <3> QED BY <3>1, <3>2, Zenon
    <2>2. r.args \in Seq(Seq(Nat)) /\ IsKnown(old) /\ (j # p => old.id # c) /\ (j = p => old.id = c)
      BY <1>1, <1>2, <2>1, Zenon DEF IInv, NodesInv, IsNode, Distinct
    <2>9. j = p => Len(old.id) = 1
      <3>1. j = p => old.id = c
        BY <2>2
      <3>2. Len(c) = 1
        BY <1>1
      <3> QED BY <3>1, <3>2
    <2> HIDE DEF old
    <2>3. CASE IsOperation(old)
      <3>0. PICK d \in SourceIds : d = old.id
        BY <2>3 DEF IsOperation
      <3>1. d \in SourceIds /\ old.kind = SourceOp(d).kind /\ DOMAIN old.args = DOMAIN SourceOp(d).args
        BY <2>3, <3>0 DEF IsOperation
      <3>2. ASSUME NEW k \in DOMAIN old.args
            PROVE  r.args[k] = IF d \in Wrapped' /\ k \in Moved(d) THEN TransferId(d, k)
                               ELSE Use(Operand(d, k))'
        <4>1. old.args[k] = IF d \in Wrapped /\ k \in Moved(d) THEN TransferId(d, k)
                            ELSE Use(Operand(d, k))
          BY <2>3, <3>0, <3>2 DEF IsOperation
        <4>2. Operand(d, k) \in SourceIds
          BY <1>5, <3>1, <3>2
        <4>3. CASE j = p
          <5>1. d = c
            BY <2>2, <3>0, <4>3
          <5>2. old.args[k] = Use(Operand(c, k)) /\ Use(Operand(c, k)) # c
                /\ Use(Operand(c, k))' = Use(Operand(c, k))
            <6>1. c \notin Wrapped /\ k \in DOMAIN SourceOp(c).args
              BY <1>1, <3>1, <3>2, <5>1
            <6>2. old.args[k] = Use(Operand(c, k))
              BY <4>1, <5>1, <6>1, Zenon
            <6>3. Use(Operand(c, k)) # c
              BY <1>1, <6>1, OwnOperands
            <6>4. Use(Operand(c, k))' = Use(Operand(c, k))
              BY <1>3, <6>1
            <6> QED BY <6>2, <6>3, <6>4
          <5> QED BY <1>3, <2>1, <3>2, <4>3, <5>1, <5>2
        <4>4. CASE j # p
          <5>1. d # c /\ r.args[k] = IF old.args[k] = c THEN BackId(c) ELSE old.args[k]
            BY <2>1, <2>2, <3>0, <3>2, <4>4
          <5>2. CASE d \in Wrapped /\ k \in Moved(d)
            <6>1. k \in Nat /\ TransferId(d, k) # c
              BY <1>1, <1>5, <1>7, <5>2
            <6> QED BY <1>3, <4>1, <5>1, <5>2, <6>1
          <5>3. CASE ~(d \in Wrapped /\ k \in Moved(d))
            <6>1. ~(d \in Wrapped' /\ k \in Moved(d))
              BY <5>1, <5>3, <1>3a
            <6>2. old.args[k] = Use(Operand(d, k))
              BY <4>1, <5>3, Zenon
            <6>3. Use(Operand(d, k))' = IF Use(Operand(d, k)) = c THEN BackId(c) ELSE Use(Operand(d, k))
              BY <1>3, <1>4, <4>2
            <6> QED BY <5>1, <6>1, <6>2, <6>3, Zenon
          <5> QED BY <5>2, <5>3
        <4> QED BY <4>3, <4>4
      <3>3. IsOperation(block[i])'
        <4>1. r.id = d /\ d \in SourceIds' /\ r.kind = SourceOp(d)'.kind
              /\ DOMAIN r.args = DOMAIN SourceOp(d)'.args
          BY <1>4, <2>1, <3>0, <3>1
        <4>2. ASSUME NEW k \in DOMAIN r.args
              PROVE  r.args[k] = IF d \in Wrapped' /\ k \in Moved(d)' THEN TransferId(d, k)
                                 ELSE Use(Operand(d, k))'
          BY <1>4, <2>1, <3>2, <4>2, Zenon
        <4> QED BY <4>1, <4>2 DEF IsOperation, r
      <3> QED BY <2>1, <3>3 DEF IsKnown, r
    <2>4. \A d \in Wrapped : d \in LinalgIds /\ d \in SourceIds /\ d # c
      BY <1>1, <1>5
    <2>5. ASSUME NEW d \in Wrapped, NEW a \in SourceIds, old.args = <<Use(a)>>, Len(old.id) = 2
          PROVE  r.args = <<Use(a)'>>
      <3>1. j # p
        BY <2>5, <2>9
      <3>2. Len(r.args) = 1 /\ r.args[1] = IF Use(a) = c THEN BackId(c) ELSE Use(a)
        BY <2>1, <2>5, <3>1
      <3> QED BY <1>3, <2>2, <3>2, SeqOne
    <2>6. ASSUME NEW d \in Wrapped, IsDims(old, d)
          PROVE  IsKnown(block[i])'
      <3>1. /\ old.id = DimsId(d) /\ old.kind = "dims" /\ old.args = <<Use(InitOf(SourceOp(d)))>>
            /\ InitOf(SourceOp(d)) \in SourceIds /\ Len(old.id) = 2
        BY <1>5, <1>6, <2>4, <2>6 DEF IsDims
      <3>2. r.args = <<Use(InitOf(SourceOp(d)))'>>
        BY <1>4, <2>5, <3>1
      <3>3. IsDims(block[i], d)'
        BY <1>4, <2>1, <3>1, <3>2 DEF IsDims, r
      <3> QED BY <1>3, <3>3 DEF IsKnown
    <2>7. ASSUME NEW d \in Wrapped, NEW k \in Moved(d), IsIn(old, d, k)
          PROVE  IsKnown(block[i])'
      <3>1. /\ old.id = TransferId(d, k) /\ old.kind = "transfer" /\ old.to = StrelaAffinity(machine)
            /\ old.args = <<Use(Operand(d, k))>>
            /\ Operand(d, k) \in SourceIds /\ Len(old.id) = 2
        BY <1>5, <1>6, <2>4, <2>7 DEF IsIn
      <3>2. r.args = <<Use(Operand(d, k))'>>
        BY <1>4, <2>5, <3>1
      <3>3. IsIn(block[i], d, k)'
        BY <1>4, <2>1, <3>1, <3>2 DEF IsIn, r
      <3>4. k \in Moved(d)'
        BY <1>4
      <3> QED BY <1>3, <3>3, <3>4 DEF IsKnown
    <2>8. ASSUME NEW d \in Wrapped, IsBack(old, d)
          PROVE  IsKnown(block[i])'
      <3>1. /\ old.id = BackId(d) /\ old.kind = "transfer" /\ old.to = machine.default
            /\ old.args = <<d, DimsId(d)>> /\ d # c /\ DimsId(d) # c
        BY <1>7, <2>4, <2>8 DEF IsBack
      <3>2. Len(BackId(d)) = 3
        BY <1>1, <2>4, SourceIdIs, IdsAre
      <3>3. j # p
        BY <2>9, <3>1, <3>2
      <3>4. Len(r.args) = 2 /\ r.args[1] = d /\ r.args[2] = DimsId(d)
        BY <2>1, <3>1, <3>3
      <3>5. r.args = <<d, DimsId(d)>>
        BY <2>2, <3>4, SeqTwo
      <3>6. IsBack(block[i], d)'
        BY <2>1, <3>1, <3>5 DEF IsBack, r
      <3> QED BY <1>3, <3>6 DEF IsKnown
    <2> QED BY <2>1, <2>2, <2>3, <2>6, <2>7, <2>8 DEF IsKnown
  <1>12. IsSpot(i, n, p, m)
    BY <1>2, Positions
  <1> QED BY <1>8, <1>9, <1>10, <1>11, <1>12 DEF IsSpot, r


(* Nothing was there of what is added for a candidate.                     *)
LEMMA OnlyItself ==
  ASSUME IInv, NEW c \in candidates, NEW i \in DOMAIN block,
         Home(block[i].id) = c \/ Place(block[i].id) = Place(c)
  PROVE  block[i].id = c
  <1>1. /\ c \in SourceIds /\ c \notin Wrapped /\ IsFunction(source)
        /\ Wrapped \subseteq LinalgIds
    BY CandidateIs DEF IInv, MachineInv, CandidatesInv
  <1>2. Home(block[i].id) \in SourceIds
    BY KnownBy
  <1>3. Home(block[i].id) = c
    <2> DEFINE h == Home(block[i].id)
    <2>1. Place(h) = Place(block[i].id)
      <3>1. Home(h) = h
        BY <1>1, <1>2, SourceIdIs, IdsAre
      <3> QED BY <3>1 DEF Place
    <2> QED BY <1>1, <1>2, <2>1, SamePlace
  <1>4. \A d \in Wrapped :
          /\ Home(DimsId(d)) = d /\ Home(BackId(d)) = d
          /\ \A k \in Moved(d) : Home(TransferId(d, k)) = d
    <2> SUFFICES ASSUME NEW d \in Wrapped
                 PROVE  /\ Home(DimsId(d)) = d /\ Home(BackId(d)) = d
                        /\ \A k \in Moved(d) : Home(TransferId(d, k)) = d
      OBVIOUS
    <2>1. d \in SourceIds /\ Moved(d) \subseteq Nat
      BY <1>1, LinalgIs
    <2> QED BY <1>1, <2>1, SourceIdIs, IdsAre
  <1>5. CASE Len(block[i].id) = 1
    <2>1. block[i].id \in SourceIds
      BY <1>5, KnownBy DEF IsOperation
    <2>2. Home(block[i].id) = block[i].id
      BY <1>1, <2>1, SourceIdIs, IdsAre
    <2> QED BY <1>3, <2>2
  <1>6. CASE Len(block[i].id) = 2
    <2>1. \E d \in Wrapped : Home(block[i].id) = d
      BY <1>4, <1>6, KnownBy DEF IsDims, IsIn
    <2> QED BY <1>1, <1>3, <2>1
  <1>7. CASE Len(block[i].id) = 3
    <2>1. \E d \in Wrapped : Home(block[i].id) = d
      BY <1>4, <1>7, KnownBy DEF IsBack
    <2> QED BY <1>1, <1>3, <2>1
  <1> QED BY <1>5, <1>6, <1>7, KnownBy

(* The nodes after a wrap: those that were there, where they went, and     *)
(* those that are new, about the operation.                                *)
IsOld(i, p, m) ==
  \E j \in DOMAIN block : i = Shift(p, m, j) /\ block'[i].id = block[j].id

IsNew(i, c, p, m) ==
  /\ i \in Nat /\ block'[i].id \notin Values /\ Place(block'[i].id) = Place(c)
  /\ \/ p <= i /\ i < p + m + 1 /\ Level(block'[i].id) = 0
     \/ i = p + m + 2 /\ Level(block'[i].id) = 2

LEMMA OldOrNew ==
  ASSUME IInv, NEW c \in candidates, NEW p, NEW m, NEW s, WrapsAt(c, p, m, s),
         NEW i \in DOMAIN block'
  PROVE  IsOld(i, p, m) \/ IsNew(i, c, p, m)
  <1> DEFINE n == Len(block)
  <1>1. /\ c \in LinalgIds /\ c \in SourceIds /\ IsFunction(source)
        /\ SourceId(c)
    BY CandidateIs, SourceIdIs DEF IInv, MachineInv
  <1>2. /\ n \in Nat /\ DOMAIN block = 1 .. n /\ p \in 1 .. n /\ m \in Nat
        /\ DOMAIN block' = 1 .. n + m + 2
    BY BlockDomain DEF IInv, NodesInv, WrapsAt
  <1> HIDE DEF n
  <1>3. ASSUME NEW x, Home(x) = c, x # c PROVE x \notin Values
    BY <1>3, OnlyItself DEF Values
  <1>4. /\ Home(DimsId(c)) = c /\ Home(BackId(c)) = c
        /\ Len(DimsId(c)) = 2 /\ Len(BackId(c)) = 3 /\ Len(c) = 1
        /\ \A k \in Nat : Home(TransferId(c, k)) = c /\ Len(TransferId(c, k)) = 2
    BY <1>1, IdsAre
  <1>5. DimsId(c) # c /\ BackId(c) # c /\ \A k \in Nat : TransferId(c, k) # c
    BY <1>4
  <1>6. /\ Place(DimsId(c)) = Place(c) /\ Place(BackId(c)) = Place(c)
        /\ \A k \in Nat : Place(TransferId(c, k)) = Place(c) /\ Level(TransferId(c, k)) = 0
        /\ Level(DimsId(c)) = 0 /\ Level(BackId(c)) = 2
    BY <1>1, PlacesAre
  <1>7. CASE i = p
    <2>1. block'[i].id = DimsId(c)
      BY <1>7 DEF WrapsAt
    <2>2. i \in Nat /\ p <= i /\ i < p + m + 1
      BY <1>2, <1>7
    <2>3. DimsId(c) \notin Values
      BY <1>3, <1>4, <1>5
    <2> QED BY <1>6, <2>1, <2>2, <2>3 DEF IsNew
  <1>8. CASE i = p + m + 2
    <2>1. block'[i].id = BackId(c)
      BY <1>8 DEF WrapsAt
    <2>2. i \in Nat
      BY <1>2, <1>8
    <2>3. BackId(c) \notin Values
      BY <1>3, <1>4, <1>5
    <2> QED BY <1>6, <1>8, <2>1, <2>2, <2>3 DEF IsNew
  <1>9. ASSUME NEW k \in 1 .. m, i = p + k PROVE IsNew(i, c, p, m)
    <2>1. s[k] \in Moved(c) /\ block'[i].id = TransferId(c, s[k])
      BY <1>9 DEF WrapsAt
    <2>2. s[k] \in Nat
      BY <1>1, <2>1, LinalgIs
    <2>3. i \in Nat /\ p <= i /\ i < p + m + 1
      BY <1>2, <1>9
    <2>4. TransferId(c, s[k]) \notin Values
      BY <1>3, <1>4, <1>5, <2>2
    <2> QED BY <1>6, <2>1, <2>2, <2>3, <2>4 DEF IsNew
  <1>10. ASSUME NEW j \in 1 .. n, i = Shift(p, m, j) PROVE IsOld(i, p, m)
    BY <1>2, <1>10 DEF IsOld, WrapsAt
  <1>11. IsSpot(i, n, p, m)
    BY <1>2, Positions
  <1> QED BY <1>7, <1>8, <1>9, <1>10, <1>11 DEF IsSpot


LEMMA DistinctAfter ==
  ASSUME IInv, NEW c \in candidates, NEW p, NEW m, NEW s, WrapsAt(c, p, m, s)
  PROVE  Distinct(block')
  <1> SUFFICES ASSUME NEW i \in DOMAIN block', NEW j \in DOMAIN block',
                      block'[i].id = block'[j].id
               PROVE  i = j
    BY DEF Distinct
  <1> DEFINE n == Len(block)
  <1>1. /\ c \in LinalgIds /\ c \in SourceIds /\ IsFunction(source)
        /\ SourceId(c) /\ Distinct(block)
    BY CandidateIs, SourceIdIs DEF IInv, MachineInv, NodesInv
  <1>2. /\ n \in Nat /\ DOMAIN block = 1 .. n /\ p \in 1 .. n /\ m \in Nat
    BY BlockDomain DEF IInv, NodesInv, WrapsAt
  <1> HIDE DEF n
  <1>3. ASSUME NEW a \in DOMAIN block', IsOld(a, p, m) PROVE block'[a].id \in Values
    BY <1>3 DEF IsOld, Values
  <1>4. CASE IsOld(i, p, m) /\ IsOld(j, p, m)
    <2>1. PICK a \in DOMAIN block : i = Shift(p, m, a) /\ block'[i].id = block[a].id
      BY <1>4 DEF IsOld
    <2>2. PICK b \in DOMAIN block : j = Shift(p, m, b) /\ block'[j].id = block[b].id
      BY <1>4 DEF IsOld
    <2>3. a = b
      BY <1>1, <2>1, <2>2 DEF Distinct
    <2> QED BY <2>1, <2>2, <2>3
  <1>5. CASE IsNew(i, c, p, m) /\ IsNew(j, c, p, m)
    <2>1. \A k \in 1 .. m : s[k] \in Moved(c) /\ s[k] \in Nat /\ s[k] > 0
      <3>1. Moved(c) \subseteq 1 .. Len(SourceOp(c).args) - 1 /\ Len(SourceOp(c).args) \in Nat
        BY <1>1, LinalgIs
      <3>2. \A k \in 1 .. m : s[k] \in Moved(c)
        BY DEF WrapsAt
      <3> QED BY <3>1, <3>2
    <2>2. /\ DimsId(c)[2] = 0 /\ \A k \in Nat : TransferId(c, k)[2] = k
      BY <1>1, IdsAre
    <2>3. ASSUME NEW a \in {i, j}, a < p + m + 1
          PROVE  \/ a = p /\ block'[a].id = DimsId(c)
                 \/ \E k \in 1 .. m : a = p + k /\ block'[a].id = TransferId(c, s[k])
      <3>1. a \in Nat /\ p <= a
        BY <1>2, <1>5, <2>3 DEF IsNew
      <3>2. CASE a = p
        BY <3>2 DEF WrapsAt
      <3>3. CASE a # p
        <4>1. a - p \in 1 .. m /\ a = p + (a - p)
          BY <1>2, <2>3, <3>1, <3>3
        <4>2. block'[p + (a - p)].id = TransferId(c, s[a - p])
          BY <4>1 DEF WrapsAt
        <4> QED BY <4>1, <4>2
      <3> QED BY <3>2, <3>3
    <2>4. Level(block'[i].id) = Level(block'[j].id)
      OBVIOUS
    <2>5. CASE i < p + m + 1 /\ j < p + m + 1
      <3>1. CASE i = p /\ block'[i].id = DimsId(c)
        <4>1. ASSUME NEW k \in 1 .. m, block'[j].id = TransferId(c, s[k]) PROVE FALSE
          BY <2>1, <2>2, <3>1, <4>1
        <4>2. j = p
          BY <2>3, <2>5, <4>1
        <4> QED BY <3>1, <4>2
      <3>2. ASSUME NEW k \in 1 .. m, i = p + k, block'[i].id = TransferId(c, s[k])
            PROVE  i = j
        <4>1. block'[j].id # DimsId(c)
          BY <2>1, <2>2, <3>2
        <4>2. PICK l \in 1 .. m : j = p + l /\ block'[j].id = TransferId(c, s[l])
          BY <2>3, <2>5, <4>1
        <4>3. s[k] = s[l]
          <5>1. TransferId(c, s[k])[2] = s[k] /\ TransferId(c, s[l])[2] = s[l]
            BY <2>1, <2>2
          <5> QED BY <3>2, <4>2, <5>1
        <4>4. k = l
          BY <4>3 DEF WrapsAt
        <4> QED BY <3>2, <4>2, <4>4
      <3> QED BY <2>3, <2>5, <3>1, <3>2
    <2>6. CASE ~(i < p + m + 1 /\ j < p + m + 1)
      BY <1>2, <1>5, <2>4, <2>6 DEF IsNew
    <2> QED BY <2>5, <2>6
  <1>6. ASSUME IsOld(i, p, m), IsNew(j, c, p, m) PROVE FALSE
    BY <1>3, <1>6 DEF IsNew
  <1>7. ASSUME IsNew(i, c, p, m), IsOld(j, p, m) PROVE FALSE
    BY <1>3, <1>7 DEF IsNew
  <1> QED BY <1>4, <1>5, <1>6, <1>7, OldOrNew

LEMMA OrderAfter ==
  ASSUME IInv, NEW c \in candidates, NEW p, NEW m, NEW s, WrapsAt(c, p, m, s),
         UNCHANGED <<machine, source>>
  PROVE  OrderInv'
  <1> SUFFICES ASSUME NEW i \in DOMAIN block', NEW j \in DOMAIN block',
                      Precedes(block'[i].id, block'[j].id)
               PROVE  i < j
    <2>1. \A x, y : Precedes(x, y)' <=> Precedes(x, y)
      BY SourceStays
    <2> QED BY <2>1 DEF OrderInv
  <1> DEFINE n == Len(block)
  <1>1. /\ c \in SourceIds /\ IsFunction(source) /\ OrderInv /\ block[p].id = c
    BY CandidateIs DEF IInv, MachineInv, WrapsAt
  <1>2. /\ n \in Nat /\ DOMAIN block = 1 .. n /\ p \in 1 .. n /\ m \in Nat
    BY BlockDomain DEF IInv, NodesInv, WrapsAt
  <1>3. Place(c) \in Nat /\ Level(c) = 1
    BY <1>1, PlacesAre
  <1> HIDE DEF n
  <1>4. CASE IsOld(i, p, m) /\ IsOld(j, p, m)
    <2>1. PICK a \in DOMAIN block : i = Shift(p, m, a) /\ block'[i].id = block[a].id
      BY <1>4 DEF IsOld
    <2>2. PICK b \in DOMAIN block : j = Shift(p, m, b) /\ block'[j].id = block[b].id
      BY <1>4 DEF IsOld
    <2>3. a < b
      BY <1>1, <2>1, <2>2 DEF OrderInv
    <2> QED BY <1>2, <2>1, <2>2, <2>3, Positions
  <1>5. ASSUME IsOld(i, p, m), IsNew(j, c, p, m) PROVE i < j
    <2>1. PICK a \in DOMAIN block : i = Shift(p, m, a) /\ block'[i].id = block[a].id
      BY <1>5 DEF IsOld
    <2>2. CASE Place(block[a].id) < Place(c)
      <3>1. a < p
        BY <1>1, <1>2, <2>1, <2>2 DEF OrderInv, Precedes
      <3>2. i < p /\ i \in Nat
        BY <1>2, <2>1, <3>1 DEF Shift
      <3> QED BY <1>2, <1>5, <3>2 DEF IsNew
    <2>3. CASE Place(block[a].id) = Place(c)
      <3>1. block[a].id = c
        BY <2>1, <2>3, OnlyItself
      <3>2. a = p
        BY <1>1, <1>2, <2>1, <3>1 DEF IInv, NodesInv, Distinct
      <3>3. i = p + m + 1
        BY <1>2, <2>1, <3>2 DEF Shift
      <3>4. Level(block'[j].id) # 0
        BY <1>3, <1>5, <2>1, <3>1 DEF Precedes, IsNew
      <3> QED BY <1>2, <1>5, <3>3, <3>4 DEF IsNew
    <2> QED BY <1>3, <1>5, <2>1, <2>2, <2>3 DEF Precedes, IsNew
  <1>6. ASSUME IsNew(i, c, p, m), IsOld(j, p, m) PROVE i < j
    <2>1. PICK b \in DOMAIN block : j = Shift(p, m, b) /\ block'[j].id = block[b].id
      BY <1>6 DEF IsOld
    <2>2. CASE Place(c) < Place(block[b].id)
      <3>1. p < b
        BY <1>1, <1>2, <2>1, <2>2 DEF OrderInv, Precedes
      <3>2. j > p + m + 2 /\ j \in Nat
        BY <1>2, <2>1, <3>1 DEF Shift
      <3> QED BY <1>2, <1>6, <3>2 DEF IsNew
    <2>3. CASE Place(block[b].id) = Place(c)
      <3>1. block[b].id = c
        BY <2>1, <2>3, OnlyItself
      <3>2. b = p
        BY <1>1, <1>2, <2>1, <3>1 DEF IInv, NodesInv, Distinct
      <3>3. j = p + m + 1
        BY <1>2, <2>1, <3>2 DEF Shift
      <3>4. Level(block'[i].id) # 2
        BY <1>3, <1>6, <2>1, <3>1 DEF Precedes, IsNew
      <3> QED BY <1>2, <1>6, <3>3, <3>4 DEF IsNew
    <2> QED BY <1>3, <1>6, <2>1, <2>2, <2>3 DEF Precedes, IsNew
  <1>7. ASSUME IsNew(i, c, p, m), IsNew(j, c, p, m) PROVE i < j
    <2>1. Level(block'[i].id) < Level(block'[j].id)
      BY <1>3, <1>7 DEF Precedes, IsNew
    <2> QED BY <1>2, <1>7, <2>1 DEF IsNew
  <1> QED BY <1>4, <1>5, <1>6, <1>7, OldOrNew


LEMMA WrapKeeps == IInv /\ Wrap => IInv'
  <1> SUFFICES ASSUME IInv, Wrap PROVE IInv'
    OBVIOUS
  <1>1. UNCHANGED <<machine, source, topology, phase>> /\ phase = "wrap"
    BY DEF Wrap
  <1>2. MachineInv'
    <2>1. Links(machine)' = Links(machine)
      BY <1>1
    <2> QED BY <1>1, <2>1 DEF IInv, MachineInv
  <1>3. PICK c \in candidates :
          /\ block' = IF machine.default = NoDevice THEN block
                      ELSE WrapInTransfers(block, c, StrelaAffinity(machine), machine.default)
          /\ candidates' = candidates \ {c}
    BY Zenon DEF Wrap
  <1>4. DevicesOf(machine, TRUE) # {} /\ DevicesOf(machine, TRUE)' = DevicesOf(machine, TRUE)
    BY <1>1, <1>3 DEF IInv, CandidatesInv
  <1>5. LinalgIds' = LinalgIds
    BY <1>1, SourceStays
  <1>6. CASE machine.default = NoDevice
    <2>1. UNCHANGED <<machine, source, block>>
      BY <1>1, <1>3, <1>6
    <2>2. NodesInv' /\ IdsInv' /\ OrderInv' /\ Wrapped' = Wrapped
      BY <2>1, FunctionStays
    <2>3. CandidatesInv'
      BY <1>1, <1>3, <1>4, <1>5, <2>2 DEF IInv, CandidatesInv
    <2> QED BY <1>2, <2>2, <2>3 DEF IInv
  <1>7. CASE machine.default # NoDevice
    <2>1. block' = WrapInTransfers(block, c, StrelaAffinity(machine), machine.default)
      BY <1>3, <1>7
    <2>2. PICK p, m, s : WrapsAt(c, p, m, s)
      BY <2>1, WrapIs
    <2>3. /\ c \in LinalgIds /\ c \in SourceIds
      BY CandidateIs
    <2>4. NodesInv'
      <3>1. Distinct(block)'
        BY <2>2, DistinctAfter
      <3>2. IsBlock(block)'
        BY <2>2 DEF WrapsAt
      <3>3. \A i \in DOMAIN block' : IsNode(block'[i]) /\ IsKnown(block[i])'
        BY <1>1, <2>2, KnownAfter
      <3> QED BY <3>1, <3>2, <3>3 DEF NodesInv
    <2>5. /\ Values' = Values \cup {DimsId(c), BackId(c)} \cup {TransferId(c, k) : k \in Moved(c)}
          /\ Wrapped' = Wrapped \cup {c}
      BY <1>1, <2>2, ValuesAfter
    <2>6. IdsInv'
      <3>1. SourceIds' = SourceIds /\ \A d : Moved(d)' = Moved(d)
        BY <1>1, SourceStays
      <3>2. SourceIds \subseteq Values'
        BY <2>5 DEF IInv, IdsInv
      <3>3. ASSUME NEW d \in Wrapped' PROVE DimsId(d) \in Values' /\ \A k \in Moved(d) : TransferId(d, k) \in Values'
        <4>1. CASE d = c
          BY <2>5, <4>1
        <4>2. CASE d \in Wrapped
          BY <2>5, <4>2 DEF IInv, IdsInv
        <4> QED BY <2>5, <4>1, <4>2
      <3> QED BY <3>1, <3>2, <3>3 DEF IdsInv
    <2>7. OrderInv'
      BY <1>1, <2>2, OrderAfter
    <2>8. CandidatesInv'
      BY <1>1, <1>3, <1>4, <1>5, <2>3, <2>5 DEF IInv, CandidatesInv
    <2> QED BY <1>2, <2>4, <2>6, <2>7, <2>8 DEF IInv
  <1> QED BY <1>6, <1>7

LEMMA PlacementStays ==
  ASSUME IInv, UNCHANGED placementVars, phase' = phase \/ phase' \notin {"topology", "gather"}
  PROVE  IInv'
  <1>1. UNCHANGED <<machine, source, block, topology, candidates>>
    BY DEF placementVars
  <1>2. NodesInv' /\ IdsInv' /\ OrderInv' /\ Wrapped' = Wrapped /\ LinalgIds' = LinalgIds
    BY <1>1, FunctionStays
  <1>3. CandidatesInv'
    BY <1>1, <1>2 DEF IInv, CandidatesInv
  <1>4. MachineInv'
    <2>1. Links(machine)' = Links(machine)
      BY <1>1
    <2>2. phase' = "topology" => phase = "topology"
      OBVIOUS
    <2> QED BY <1>1, <2>1, <2>2 DEF IInv, MachineInv
  <1> QED BY <1>2, <1>3, <1>4 DEF IInv

LEMMA NextKeeps == IInv /\ [Next]_vars => IInv'
  <1> SUFFICES ASSUME IInv, [Next]_vars PROVE IInv'
    OBVIOUS
  <1>1. ASSUME AssignTopology PROVE IInv'
    BY <1>1, AssignTopologyKeeps
  <1>2. ASSUME GatherCandidates PROVE IInv'
    BY <1>2, GatherKeeps
  <1>3. ASSUME Wrap PROVE IInv'
    BY <1>3, WrapKeeps
  <1>4. ASSUME WrapDone PROVE IInv'
    <2>1. UNCHANGED placementVars /\ phase' = "form"
      BY <1>4 DEF WrapDone
    <2> QED BY <2>1, PlacementStays
  <1>5. ASSUME FormDispatches PROVE IInv'
    <2>1. UNCHANGED placementVars /\ phase' = "translate"
      BY <1>5, Zenon DEF FormDispatches
    <2> QED BY <2>1, PlacementStays
  <1>6. ASSUME Translating PROVE IInv'
    <2>1. UNCHANGED placementVars /\ phase' = phase
      BY <1>6 DEF Translating
    <2> QED BY <2>1, PlacementStays
  <1>7. ASSUME UNCHANGED vars PROVE IInv'
    <2>1. UNCHANGED placementVars /\ phase' = phase
      BY <1>7 DEF vars
    <2> QED BY <2>1, PlacementStays
  <1> QED BY <1>1, <1>2, <1>3, <1>4, <1>5, <1>6, <1>7, Zenon DEF Next

(* What is known of the function holds throughout compilation, for any     *)
(* function, devices and default affinity (TransferWrapPass.cpp:61-105).   *)
THEOREM PlacementInvariance == Spec => []IInv
  BY InitialisesInvariant, NextKeeps, PTL DEF Spec

(* What wrapping adds or rewires never names a node that comes later.      *)
THEOREM DefinitionsPrecedeUses == Spec => []DefinedBeforeUse
  BY PlacementInvariance, OperandsAreDefined, PTL


-----------------------------------------------------------------------------
(* What the invariant says of placement.                                   *)
NodeOf(id) == block[Defining(block, id)]

LEMMA NodeIs ==
  ASSUME IInv, NEW x \in Values
  PROVE  /\ Defining(block, x) \in DOMAIN block /\ NodeOf(x).id = x
         /\ IsNode(NodeOf(x)) /\ IsKnown(NodeOf(x))
         /\ \A i \in DOMAIN block : block[i].id = x => Defining(block, x) = i
  <1>1. PICK i \in DOMAIN block : block[i].id = x
    BY DEF Values
  <1>2. Distinct(block) /\ IsNode(block[i]) /\ IsKnown(block[i])
    BY DEF IInv, NodesInv
  <1>3. \A j \in DOMAIN block : block[j].id = x => Defining(block, x) = j
    BY <1>2, DefiningIs
  <1> QED BY <1>1, <1>2, <1>3 DEF NodeOf

(* The first STRELA device of a module that has one.                       *)
LEMMA AffinityIs ==
  ASSUME IInv, DevicesOf(machine, TRUE) # {}
  PROVE  IsStrela(StrelaAffinity(machine))
  <1> DEFINE D == DevicesOf(machine, TRUE)
  <1>1. machine.devices \in Seq(STRING) /\ D \subseteq DOMAIN machine.devices
    BY DEF IInv, MachineInv, DevicesOf
  <1>2. D \subseteq Nat /\ \A i \in D : IsStrela(machine.devices[i])
    <2>1. DOMAIN machine.devices = 1 .. Len(machine.devices) /\ Len(machine.devices) \in Nat
      BY <1>1, LenProperties
    <2>2. \A i \in D : IsStrela(machine.devices[i])
      BY Zenon DEF DevicesOf, IsStrela
    <2> HIDE DEF D
    <2>3. D \subseteq Nat
      BY <1>1, <2>1
    <2> QED BY <2>2, <2>3
  <1> HIDE DEF D
  <1>3. \E i \in D : \A j \in D : i <= j
    <2>1. D # {}
      BY DEF D
    <2>2. PICK i \in D : \A j \in D : <<j, i>> \notin OpToRel(<, Nat)
      BY <1>2, <2>1, NatLessThanWellFounded, WFMin
    <2>3. \A j \in D : ~(j < i)
      BY <1>2, <2>2 DEF OpToRel
    <2> QED BY <1>2, <2>3
  <1>4. PICK i \in D : StrelaAffinity(machine) = machine.devices[i]
    <2>1. StrelaAffinity(machine) =
            machine.devices[CHOOSE i \in D : \A j \in D : i <= j]
      BY Zenon DEF StrelaAffinity, D
    <2>2. (CHOOSE i \in D : \A j \in D : i <= j) \in D
      BY <1>3
    <2> QED BY <2>1, <2>2
  <1> QED BY <1>2, <1>4

(* The operations of the function as it is.                                *)
LEMMA LinalgNodeIs ==
  ASSUME IInv, NEW p \in LinalgOps(block)
  PROVE  LET c == block[p].id IN
         /\ c \in LinalgIds /\ c \in SourceIds /\ IsOperation(block[p])
         /\ Len(block[p].args) = Len(SourceOp(c).args)
         /\ DOMAIN Inputs(block[p]) = 1 .. Len(SourceOp(c).args) - 1
         /\ DOMAIN Inputs(SourceOp(c)) = 1 .. Len(SourceOp(c).args) - 1
         /\ \A k \in DOMAIN Inputs(block[p]) :
              /\ k \in DOMAIN SourceOp(c).args /\ k \in Nat
              /\ block[p].args[k] = IF c \in Wrapped /\ k \in Moved(c) THEN TransferId(c, k)
                                    ELSE Use(Operand(c, k))
              /\ Operand(c, k) \in SourceIds
              /\ k \notin Moved(c) => SourceOp(Operand(c, k)).kind = "splat"
              /\ k \in Moved(c) => SourceOp(Operand(c, k)).kind # "splat"
  <1> DEFINE n == block[p]
  <1>1. p \in DOMAIN block /\ n.kind = "linalg" /\ IsNode(n) /\ IsKnown(n) /\ IsFunction(source)
    BY DEF LinalgOps, IInv, NodesInv, MachineInv
  <1>2. IsOperation(n)
    BY <1>1, Zenon DEF IsKnown, IsDims, IsIn, IsBack
  <1>3. PICK c \in SourceIds : c = n.id
    BY <1>2 DEF IsOperation
  <1>4. /\ SourceOp(c).kind = "linalg" /\ DOMAIN n.args = DOMAIN SourceOp(c).args
        /\ \A k \in DOMAIN n.args :
             n.args[k] = IF c \in Wrapped /\ k \in Moved(c) THEN TransferId(c, k)
                         ELSE Use(Operand(c, k))
    BY <1>1, <1>2, <1>3, Zenon DEF IsOperation
  <1>5. c \in LinalgIds
    <2>1. Place(c) \in DOMAIN source /\ source[Place(c)] = SourceOp(c) /\ SourceOp(c).id = c
      BY <1>1, SourceIdIs
    <2> QED BY <1>4, <2>1 DEF LinalgIds, LinalgOps
  <1>6. Len(SourceOp(c).args) \in Nat \ {0} /\ DOMAIN SourceOp(c).args = 1 .. Len(SourceOp(c).args)
    BY <1>1, <1>5, LinalgIs
  <1>7. n.args \in Seq(Seq(Nat)) /\ SourceOp(c).args \in Seq(Seq(Nat))
    BY <1>1, SourceIdIs DEF IsNode
  <1>8. Len(n.args) = Len(SourceOp(c).args) /\ n.args # <<>> /\ SourceOp(c).args # <<>>
    <2>1. Len(n.args) \in Nat /\ DOMAIN n.args = 1 .. Len(n.args)
      BY <1>7, LenProperties
    <2>2. Len(n.args) = Len(SourceOp(c).args)
      BY <1>4, <1>6, <2>1
    <2>3. (n.args = <<>> => Len(n.args) = 0) /\ (SourceOp(c).args = <<>> => Len(SourceOp(c).args) = 0)
      BY EmptySeq
    <2> QED BY <1>6, <2>2, <2>3
  <1>9. /\ DOMAIN Inputs(n) = 1 .. Len(n.args) - 1
        /\ DOMAIN Inputs(SourceOp(c)) = 1 .. Len(SourceOp(c).args) - 1
    BY <1>7, <1>8, InputsAre
  <1> HIDE DEF n
  <1>10. ASSUME NEW k \in DOMAIN Inputs(n)
         PROVE  /\ k \in DOMAIN SourceOp(c).args /\ k \in Nat /\ Operand(c, k) \in SourceIds
                /\ k \notin Moved(c) => SourceOp(Operand(c, k)).kind = "splat"
                /\ k \in Moved(c) => SourceOp(Operand(c, k)).kind # "splat"
    <2>1. k \in DOMAIN SourceOp(c).args /\ k \in Nat /\ k \in DOMAIN Inputs(SourceOp(c))
      BY <1>6, <1>8, <1>9
    <2>2. Operand(c, k) \in SourceIds
      BY <1>1, <2>1, SourceIdIs
    <2>3. SourceOp(Operand(c, k)) = source[Defining(source, SourceOp(c).args[k])]
      BY DEF SourceOp, Operand
    <2>4. k \in Moved(c) <=> SourceOp(Operand(c, k)).kind # "splat"
      BY <2>1, <2>3, Zenon DEF Moved, Transferred, IsInt32Immediate
    <2> QED BY <2>1, <2>2, <2>4
  <1> QED BY <1>2, <1>3, <1>4, <1>5, <1>8, <1>9, <1>10 DEF n

(* An operation is placed if and only if it is wrapped: what another one   *)
(* transfers back does not place its users.                                *)
LEMMA PlacedIsWrapped ==
  ASSUME IInv, NEW p \in LinalgOps(block), Placed(block[p])
  PROVE  block[p].id \in Wrapped
  <1> DEFINE c == block[p].id
  <1>1. PICK k \in DOMAIN Inputs(block[p]) :
          LET d == NodeOf(block[p].args[k]) IN d.kind = "transfer" /\ IsStrela(d.to)
    BY DEF Placed, NodeOf
  <1>2. SUFFICES ASSUME c \notin Wrapped PROVE FALSE
    BY <1>2
  <1>3. block[p].args[k] = Use(Operand(c, k)) /\ Operand(c, k) \in SourceIds
    BY <1>2, LinalgNodeIs
  <1>4. IsFunction(source) /\ ~IsStrela(machine.default)
    BY DEF IInv, MachineInv
  <1> HIDE DEF c
  <1>5. PICK a \in SourceIds : a = Operand(c, k)
    BY <1>3
  <1>6. NodeOf(Use(a)).kind = "transfer" /\ IsStrela(NodeOf(Use(a)).to)
    BY <1>1, <1>3, <1>5
  <1>7. CASE a \notin Wrapped
    <2>1. NodeOf(Use(a)).kind = SourceOp(a).kind
      BY <1>7, UseKind DEF NodeOf
    <2> QED BY <1>4, <1>6, <2>1, SourceIdIs
  <1>8. CASE a \in Wrapped
    <2>1. IsBack(NodeOf(Use(a)), a)
      BY <1>8, UseKind DEF NodeOf
    <2> QED BY <1>4, <1>6, <2>1 DEF IsBack
  <1> QED BY <1>7, <1>8

(* The transfers to STRELA of a wrapped operation.                         *)
LEMMA InIs ==
  ASSUME IInv, NEW c \in Wrapped, NEW k \in Moved(c)
  PROVE  /\ TransferId(c, k) \in Values
         /\ IsIn(NodeOf(TransferId(c, k)), c, k)
         /\ IsStrela(StrelaAffinity(machine))
         /\ Operand(c, k) \in SourceIds
  <1>1. /\ IsFunction(source) /\ c \in LinalgIds /\ TransferId(c, k) \in Values
        /\ DevicesOf(machine, TRUE) # {} /\ Wrapped \subseteq LinalgIds
    BY DEF IInv, MachineInv, CandidatesInv, IdsInv
  <1>2. /\ c \in SourceIds /\ k \in Nat /\ k \in DOMAIN SourceOp(c).args
        /\ Moved(c) \subseteq 1 .. Len(SourceOp(c).args) - 1 /\ Len(SourceOp(c).args) \in Nat
    BY <1>1, LinalgIs
  <1>3. k > 0
    BY <1>2
  <1>4. /\ Home(TransferId(c, k)) = c /\ Len(TransferId(c, k)) = 2 /\ TransferId(c, k)[2] = k
    BY <1>1, <1>2, SourceIdIs, IdsAre
  <1>5. Defining(block, TransferId(c, k)) \in DOMAIN block /\ NodeOf(TransferId(c, k)).id = TransferId(c, k)
    BY <1>1, NodeIs
  <1>6. \/ \E d \in Wrapped : IsDims(NodeOf(TransferId(c, k)), d)
        \/ \E d \in Wrapped : \E l \in Moved(d) : IsIn(NodeOf(TransferId(c, k)), d, l)
    BY <1>4, <1>5, KnownBy DEF NodeOf
  <1>7. \A d \in Wrapped : /\ Home(DimsId(d)) = d /\ DimsId(d)[2] = 0
                           /\ \A l \in Moved(d) : Home(TransferId(d, l)) = d /\ TransferId(d, l)[2] = l
    <2> SUFFICES ASSUME NEW d \in Wrapped
                 PROVE  /\ Home(DimsId(d)) = d /\ DimsId(d)[2] = 0
                        /\ \A l \in Moved(d) : Home(TransferId(d, l)) = d /\ TransferId(d, l)[2] = l
      OBVIOUS
    <2>1. d \in SourceIds /\ Moved(d) \subseteq Nat
      BY <1>1, LinalgIs
    <2> QED BY <1>1, <2>1, SourceIdIs, IdsAre
  <1>8. ASSUME NEW d \in Wrapped, IsDims(NodeOf(TransferId(c, k)), d) PROVE FALSE
    <2>1. TransferId(c, k) = DimsId(d)
      BY <1>5, <1>8 DEF IsDims
    <2>2. TransferId(c, k)[2] = 0
      BY <1>7, <2>1
    <2> QED BY <1>3, <1>4, <2>2
  <1>9. ASSUME NEW d \in Wrapped, NEW l \in Moved(d), IsIn(NodeOf(TransferId(c, k)), d, l)
        PROVE  IsIn(NodeOf(TransferId(c, k)), c, k)
    <2>1. TransferId(c, k) = TransferId(d, l)
      BY <1>5, <1>9 DEF IsIn
    <2>2. Home(TransferId(c, k)) = d /\ TransferId(c, k)[2] = l
      BY <1>7, <2>1
    <2>3. c = d /\ k = l
      BY <1>4, <2>2
    <2> QED BY <1>9, <2>3
  <1>10. IsIn(NodeOf(TransferId(c, k)), c, k)
    BY <1>6, <1>8, <1>9
  <1>11. Operand(c, k) \in SourceIds
    BY <1>1, <1>2, SourceIdIs
  <1> QED BY <1>1, <1>10, <1>11, AffinityIs


LEMMA BackIs ==
  ASSUME IInv, NEW c \in Wrapped
  PROVE  /\ BackId(c) \in Values /\ IsBack(NodeOf(BackId(c)), c)
         /\ c \in Values /\ NodeOf(c).kind = "linalg" /\ IsOperation(NodeOf(c))
  <1>1. c \in SourceIds /\ IsFunction(source) /\ c \in LinalgIds /\ Use(c) = BackId(c) /\ c \in Values
    BY DEF IInv, MachineInv, CandidatesInv, Wrapped, Use, IdsInv
  <1>2. BackId(c) \in Values /\ IsBack(NodeOf(BackId(c)), c)
    BY <1>1, UseKind DEF NodeOf
  <1>3. Len(c) = 1
    BY <1>1, SourceIdIs, IdsAre
  <1>4. IsOperation(NodeOf(c)) /\ NodeOf(c).id = c
    BY <1>1, <1>3, NodeIs, KnownBy DEF NodeOf
  <1>5. SourceOp(c).kind = "linalg"
    BY <1>1, LinalgIs
  <1> QED BY <1>1, <1>2, <1>4, <1>5 DEF IsOperation

LEMMA PlacedWhole == IInv => PlacementIsWhole
  <1> SUFFICES ASSUME IInv, NEW p \in LinalgOps(block), Placed(block[p])
               PROVE  /\ \A k \in DOMAIN Inputs(block[p]) :
                           LET d == NodeOf(block[p].args[k]) IN
                           d.kind = "splat" \/ (d.kind = "transfer" /\ IsStrela(d.to))
                      /\ \A i \in DOMAIN block : block[p].id \in Range(block[i].args) =>
                           block[i].kind = "transfer" /\ block[i].to = machine.default
    BY DEF PlacementIsWhole, NodeOf
  <1>1. PICK c \in SourceIds : c = block[p].id
    BY LinalgNodeIs
  <1>2. c \in Wrapped /\ IsFunction(source) /\ Wrapped \subseteq LinalgIds
    BY <1>1, PlacedIsWrapped DEF IInv, MachineInv, CandidatesInv
  <1>3. ASSUME NEW k \in DOMAIN Inputs(block[p])
        PROVE  LET d == NodeOf(block[p].args[k]) IN
               d.kind = "splat" \/ (d.kind = "transfer" /\ IsStrela(d.to))
    <2>1. /\ block[p].args[k] = IF k \in Moved(c) THEN TransferId(c, k) ELSE Use(Operand(c, k))
          /\ Operand(c, k) \in SourceIds
          /\ k \notin Moved(c) => SourceOp(Operand(c, k)).kind = "splat"
      BY <1>1, <1>2, LinalgNodeIs
    <2>2. CASE k \in Moved(c)
      <3>1. IsIn(NodeOf(TransferId(c, k)), c, k) /\ IsStrela(StrelaAffinity(machine))
        BY <1>2, <2>2, InIs
      <3> QED BY <2>1, <2>2, <3>1 DEF IsIn
    <2>3. CASE k \notin Moved(c)
      <3>1. NodeOf(Use(Operand(c, k))).kind = "splat"
        BY <2>1, <2>3, UseKind DEF NodeOf
      <3> QED BY <2>1, <2>3, <3>1
    <2> QED BY <2>2, <2>3
  <1>4. \A a \in SourceIds : Use(a) # c
    <2>1. \A a \in SourceIds : Len(BackId(a)) = 3
      BY <1>2, SourceIdIs, IdsAre
    <2>2. Len(c) = 1
      BY <1>2, SourceIdIs, IdsAre
    <2>3. \A a \in SourceIds : BackId(a) # c
      BY <2>1, <2>2
    <2> QED BY <1>2, <2>3 DEF Use
  <1>5. \A d \in SourceIds : DimsId(d) # c /\ \A k \in Nat : TransferId(d, k) # c
    <2>1. \A d \in SourceIds : Len(DimsId(d)) = 2 /\ \A k \in Nat : Len(TransferId(d, k)) = 2
      BY <1>2, SourceIdIs, IdsAre
    <2>2. Len(c) = 1
      BY <1>2, SourceIdIs, IdsAre
    <2> QED BY <2>1, <2>2
  <1>6. ASSUME NEW i \in DOMAIN block, c \in Range(block[i].args)
        PROVE  block[i].kind = "transfer" /\ block[i].to = machine.default
    <2> DEFINE n == block[i]
    <2>1. PICK k \in DOMAIN n.args : n.args[k] = c
      BY <1>6 DEF Range
    <2>2. IsKnown(n)
      BY DEF IInv, NodesInv
    <2> HIDE DEF n
    <2>3. ASSUME IsOperation(n) PROVE FALSE
      <3>1. PICK d \in SourceIds : d = n.id
        BY <2>3 DEF IsOperation
      <3>2. /\ k \in DOMAIN SourceOp(d).args
            /\ c = IF d \in Wrapped /\ k \in Moved(d) THEN TransferId(d, k) ELSE Use(Operand(d, k))
        BY <2>1, <2>3, <3>1, Zenon DEF IsOperation
      <3>3. Operand(d, k) \in SourceIds
        BY <1>2, <3>2, SourceIdIs
      <3>4. d \in Wrapped /\ k \in Moved(d) => k \in Nat
        BY <1>2, LinalgIs
      <3> QED BY <1>4, <1>5, <3>2, <3>3, <3>4
    <2>4. ASSUME NEW d \in Wrapped, IsDims(n, d) PROVE FALSE
      <3>1. InitOf(SourceOp(d)) \in SourceIds
        BY <1>2, LinalgIs, SourceIdIs
      <3>2. n.args = <<Use(InitOf(SourceOp(d)))>>
        BY <2>4 DEF IsDims
      <3>3. c = Use(InitOf(SourceOp(d)))
        BY <2>1, <3>2
      <3> QED BY <1>4, <3>1, <3>3
    <2>5. ASSUME NEW d \in Wrapped, NEW l \in Moved(d), IsIn(n, d, l) PROVE FALSE
      <3>1. Operand(d, l) \in SourceIds
        BY InIs
      <3>2. n.args = <<Use(Operand(d, l))>>
        BY <2>5 DEF IsIn
      <3>3. c = Use(Operand(d, l))
        BY <2>1, <3>2
      <3> QED BY <1>4, <3>1, <3>3
    <2>6. ASSUME NEW d \in Wrapped, IsBack(n, d)
          PROVE  n.kind = "transfer" /\ n.to = machine.default
      BY <2>6 DEF IsBack
    <2> QED BY <2>2, <2>3, <2>4, <2>5, <2>6 DEF IsKnown, n
  <1> QED BY <1>1, <1>3, <1>6

(* An operation is placed whole or not at all, no matter what was wrapped  *)
(* before it (TransferWrapPass.cpp:80-88, 97-99).                          *)
THEOREM PlacedWholeOrNot == Spec => []PlacementIsWhole
  BY PlacementInvariance, PlacedWhole, PTL


(* What an operand comes from is no transfer, or the transfer back of an   *)
(* operation, which is none.                                               *)
Comes(id) == NodeOf(id).args[1]

LEMMA TransferIs ==
  ASSUME IInv, NEW x \in Values, NodeOf(x).kind = "transfer"
  PROVE  \/ \E c \in Wrapped : IsBack(NodeOf(x), c) /\ x = BackId(c) /\ Comes(x) = c
         \/ \E c \in Wrapped : \E k \in Moved(c) :
              IsIn(NodeOf(x), c, k) /\ x = TransferId(c, k) /\ Comes(x) = Use(Operand(c, k))
  <1> DEFINE n == NodeOf(x)
  <1>1. IsKnown(n) /\ n.id = x /\ n.kind = "transfer" /\ IsFunction(source)
    BY NodeIs DEF IInv, MachineInv
  <1> HIDE DEF n
  <1>2. ASSUME IsOperation(n) PROVE FALSE
    BY <1>1, <1>2, SourceIdIs DEF IsOperation
  <1>3. ASSUME NEW c \in Wrapped, IsDims(n, c) PROVE FALSE
    BY <1>1, <1>3 DEF IsDims
  <1>4. ASSUME NEW c \in Wrapped, NEW k \in Moved(c), IsIn(n, c, k)
        PROVE  x = TransferId(c, k) /\ Comes(x) = Use(Operand(c, k))
    BY <1>1, <1>4 DEF IsIn, Comes, n
  <1>5. ASSUME NEW c \in Wrapped, IsBack(n, c)
        PROVE  x = BackId(c) /\ Comes(x) = c
    BY <1>1, <1>5 DEF IsBack, Comes, n
  <1> QED BY <1>1, <1>2, <1>3, <1>4, <1>5 DEF IsKnown, n

LEMMA UseComes ==
  ASSUME IInv, NEW a \in SourceIds
  PROVE  /\ a \in Values /\ Use(a) \in Values
         /\ NodeOf(a).kind # "transfer"
         /\ \/ Use(a) = a
            \/ NodeOf(Use(a)).kind = "transfer" /\ Comes(Use(a)) = a /\ a \in Wrapped
  <1>1. IsFunction(source) /\ a \in Values
    BY DEF IInv, MachineInv, IdsInv
  <1>2. Use(a) \in Values
    BY UseKind
  <1>3. CASE a \in Wrapped
    <2>1. Use(a) = BackId(a) /\ NodeOf(a).kind = "linalg" /\ IsBack(NodeOf(BackId(a)), a)
      BY <1>3, BackIs DEF Use
    <2>2. NodeOf(Use(a)).kind = "transfer" /\ Comes(Use(a)) = a
      BY <2>1 DEF IsBack, Comes
    <2> QED BY <1>1, <1>2, <1>3, <2>1, <2>2
  <1>4. CASE a \notin Wrapped
    <2>1. Use(a) = a
      BY <1>4 DEF Use
    <2>2. NodeOf(Use(a)).kind = SourceOp(a).kind
      BY <1>4, UseKind DEF NodeOf
    <2>3. SourceOp(a).kind # "transfer"
      BY <1>1, SourceIdIs
    <2> QED BY <1>1, <2>1, <2>2, <2>3
  <1> QED BY <1>3, <1>4

(* At most two transfers stand between a value and where it comes from.    *)
LEMMA TransferDepth ==
  ASSUME IInv, NEW x \in Values, NodeOf(x).kind = "transfer"
  PROVE  /\ Comes(x) \in Values
         /\ NodeOf(Comes(x)).kind = "transfer" =>
              Comes(Comes(x)) \in Values /\ NodeOf(Comes(Comes(x))).kind # "transfer"
  <1>1. ASSUME NEW c \in Wrapped, Comes(x) = c
        PROVE  c \in Values /\ NodeOf(c).kind # "transfer"
    BY BackIs
  <1>2. ASSUME NEW c \in Wrapped, NEW k \in Moved(c), Comes(x) = Use(Operand(c, k))
        PROVE  /\ Comes(x) \in Values
               /\ NodeOf(Comes(x)).kind = "transfer" =>
                    Comes(Comes(x)) \in Values /\ NodeOf(Comes(Comes(x))).kind # "transfer"
    <2>1. PICK a \in SourceIds : a = Operand(c, k)
      BY InIs
    <2> QED BY <1>2, <2>1, UseComes
  <1> QED BY <1>1, <1>2, TransferIs

(* The recursion of Origin has a solution: transfers are followed once,    *)
(* then twice.                                                             *)
LEMMA OriginIs ==
  ASSUME IInv
  PROVE  \A x \in Values :
           Origin[x] = IF NodeOf(x).kind = "transfer" THEN Origin[Comes(x)] ELSE x
  <1> DEFINE F1 == [x \in Values |-> IF NodeOf(x).kind = "transfer" THEN Comes(x) ELSE x]
             F2 == [x \in Values |-> IF NodeOf(x).kind = "transfer" THEN F1[Comes(x)] ELSE x]
  <1>1. ASSUME NEW x \in Values, NodeOf(x).kind = "transfer"
        PROVE  Comes(x) \in Values /\ F2[Comes(x)] = F1[Comes(x)]
    <2>1. /\ Comes(x) \in Values
          /\ NodeOf(Comes(x)).kind = "transfer" =>
               Comes(Comes(x)) \in Values /\ NodeOf(Comes(Comes(x))).kind # "transfer"
      BY <1>1, TransferDepth
    <2>2. CASE NodeOf(Comes(x)).kind # "transfer"
      BY <2>1, <2>2
    <2>3. CASE NodeOf(Comes(x)).kind = "transfer"
      <3>1. F2[Comes(x)] = F1[Comes(Comes(x))] /\ F1[Comes(x)] = Comes(Comes(x))
        BY <2>1, <2>3
      <3>2. F1[Comes(Comes(x))] = Comes(Comes(x))
        BY <2>1, <2>3
      <3> QED BY <2>1, <3>1, <3>2
    <2> QED BY <2>2, <2>3
  <1>2. F2 = [x \in Values |-> IF NodeOf(x).kind = "transfer" THEN F2[Comes(x)] ELSE x]
    BY <1>1
  <1> HIDE DEF F2
  <1>3. Origin = [x \in Values |-> LET node == block[Defining(block, x)] IN
                    IF node.kind = "transfer" THEN Origin[node.args[1]] ELSE x]
    <2>1. F2 = [x \in Values |-> LET node == block[Defining(block, x)] IN
                    IF node.kind = "transfer" THEN F2[node.args[1]] ELSE x]
      BY <1>2, Zenon DEF NodeOf, Comes
    <2> QED BY <2>1, Zenon DEF Origin
  <1> QED BY <1>3, Zenon DEF NodeOf, Comes

LEMMA DataFlowKept == IInv => WrappingKeepsDataFlow
  <1> SUFFICES ASSUME IInv PROVE WrappingKeepsDataFlow
    OBVIOUS
  <1> DEFINE now == [k \in DOMAIN source |-> Defining(block, source[k].id)]
  <1>1. /\ IsFunction(source) /\ SourceIds \subseteq Values /\ OrderInv
        /\ Len(source) \in Nat /\ DOMAIN source = 1 .. Len(source)
    BY SourceFacts DEF IInv, MachineInv, IdsInv
  <1>2. ASSUME NEW k \in DOMAIN source
        PROVE  /\ source[k].id \in SourceIds /\ Len(source[k].id) = 1
               /\ now[k] \in DOMAIN block /\ block[now[k]].id = source[k].id
               /\ IsOperation(block[now[k]]) /\ Place(source[k].id) = k
               /\ SourceOp(source[k].id) = source[k]
    <2>1. source[k].id \in SourceIds /\ source[k].id \in Values
      BY <1>1 DEF SourceIds
    <2>2. Len(source[k].id) = 1 /\ Home(source[k].id) = source[k].id
      BY <1>1, <2>1, SourceIdIs, IdsAre
    <2>3. now[k] \in DOMAIN block /\ block[now[k]].id = source[k].id
      BY <2>1, NodeIs DEF NodeOf
    <2>4. Defining(source, source[k].id) = k
      BY <1>1, SourceFacts, DefiningIs
    <2> HIDE DEF now
    <2>5. IsOperation(block[now[k]])
      BY <2>2, <2>3, KnownBy
    <2> QED BY <2>1, <2>2, <2>3, <2>4, <2>5 DEF Place, SourceOp
  <1>3. {source[k].id : k \in DOMAIN source} \subseteq Values
    BY <1>1 DEF SourceIds
  <1>4. {i \in DOMAIN block : Len(block[i].id) = 1} = {now[k] : k \in DOMAIN source}
    <2>1. ASSUME NEW i \in DOMAIN block, Len(block[i].id) = 1
          PROVE  \E k \in DOMAIN source : now[k] = i
      <3>1. block[i].id \in SourceIds
        BY <2>1, KnownBy DEF IsOperation
      <3>2. PICK k \in DOMAIN source : source[k].id = block[i].id
        BY <3>1 DEF SourceIds
      <3>3. Defining(block, block[i].id) = i
        BY DefiningIs DEF IInv, NodesInv
      <3> QED BY <3>2, <3>3
    <2> HIDE DEF now
    <2> QED BY <1>2, <2>1
  <1>5. \A k \in 2 .. Len(source) : now[k - 1] < now[k]
    <2> SUFFICES ASSUME NEW k \in 2 .. Len(source) PROVE now[k - 1] < now[k]
      OBVIOUS
    <2>1. k - 1 \in DOMAIN source /\ k \in DOMAIN source /\ k - 1 < k
      BY <1>1
    <2> HIDE DEF now
    <2>2. /\ Place(block[now[k - 1]].id) = k - 1 /\ now[k - 1] \in DOMAIN block
          /\ Place(block[now[k]].id) = k /\ now[k] \in DOMAIN block
      BY <1>2, <2>1
    <2> QED BY <1>1, <2>1, <2>2 DEF OrderInv, Precedes
  <1>6. ASSUME NEW k \in DOMAIN source
        PROVE  /\ DOMAIN block[now[k]].args = DOMAIN source[k].args
               /\ \A a \in DOMAIN block[now[k]].args :
                    Origin[block[now[k]].args[a]] = source[k].args[a]
    <2> DEFINE n == block[now[k]]
               c == source[k].id
    <2>1. IsOperation(n) /\ n.id = c /\ c \in SourceIds /\ SourceOp(c) = source[k]
      BY <1>2
    <2> HIDE DEF n, now
    <2>2. /\ DOMAIN n.args = DOMAIN source[k].args
          /\ \A a \in DOMAIN n.args :
               n.args[a] = IF c \in Wrapped /\ a \in Moved(c) THEN TransferId(c, a)
                           ELSE Use(Operand(c, a))
      BY <2>1, Zenon DEF IsOperation
    <2>3. ASSUME NEW a \in SourceIds PROVE Origin[Use(a)] = a
      <3>1. Origin[a] = a
        BY UseComes, OriginIs
      <3> QED BY <3>1, UseComes, OriginIs
    <2>4. ASSUME NEW a \in DOMAIN n.args PROVE Origin[n.args[a]] = source[k].args[a]
      <3>1. Operand(c, a) \in SourceIds /\ Operand(c, a) = source[k].args[a]
        BY <1>1, <2>1, <2>2, SourceIdIs DEF Operand
      <3>2. CASE c \in Wrapped /\ a \in Moved(c)
        <4>1. TransferId(c, a) \in Values /\ IsIn(NodeOf(TransferId(c, a)), c, a)
          BY <3>2, InIs
        <4>2. NodeOf(TransferId(c, a)).kind = "transfer" /\ Comes(TransferId(c, a)) = Use(Operand(c, a))
          BY <4>1 DEF IsIn, Comes
        <4>3. Origin[TransferId(c, a)] = Origin[Use(Operand(c, a))]
          BY <4>1, <4>2, OriginIs
        <4> QED BY <2>2, <2>3, <3>1, <3>2, <4>3
      <3>3. CASE ~(c \in Wrapped /\ a \in Moved(c))
        BY <2>2, <2>3, <3>1, <3>3
      <3> QED BY <3>2, <3>3
    <2> QED BY <2>2, <2>4 DEF n
  <1> HIDE DEF now
  <1>7. /\ {source[k].id : k \in DOMAIN source} \subseteq Values
        /\ {i \in DOMAIN block : Len(block[i].id) = 1} = {now[k] : k \in DOMAIN source}
        /\ \A k \in 2 .. Len(source) : now[k - 1] < now[k]
        /\ \A k \in DOMAIN source : LET args == block[now[k]].args IN
             /\ DOMAIN args = DOMAIN source[k].args
             /\ \A a \in DOMAIN args : Origin[args[a]] = source[k].args[a]
    BY <1>3, <1>4, <1>5, <1>6, Zenon
  <1> QED BY <1>7, Zenon DEF WrappingKeepsDataFlow, now

(* Wrapping moves data and changes none: the operations of the source are  *)
(* there, in order, and read what they read (TransferWrapPass.cpp:80-101). *)
THEOREM WrappingKeepsTheDataFlow == Spec => []WrappingKeepsDataFlow
  BY PlacementInvariance, DataFlowKept, PTL


(* Where the words of a value are, by where those it comes from are.       *)
OwnMemory(x) ==
  IF NodeOf(x).kind = "linalg" /\ Placed(NodeOf(x)) THEN StrelaAffinity(machine)
  ELSE machine.default

Transported(x, at) ==
  LET from == IF NodeOf(Comes(x)).kind = "transfer" THEN NodeOf(Comes(x)).to ELSE at
  IN IF Elided(from, NodeOf(x).to) THEN at ELSE NodeOf(x).to

LEMMA MemoryIs ==
  ASSUME IInv
  PROVE  \A x \in Values :
           Memory[x] = IF NodeOf(x).kind = "transfer" THEN Transported(x, Memory[Comes(x)])
                       ELSE OwnMemory(x)
  <1> DEFINE F0 == [x \in Values |-> OwnMemory(x)]
             F1 == [x \in Values |-> IF NodeOf(x).kind = "transfer" THEN Transported(x, F0[Comes(x)])
                                     ELSE OwnMemory(x)]
             F2 == [x \in Values |-> IF NodeOf(x).kind = "transfer" THEN Transported(x, F1[Comes(x)])
                                     ELSE OwnMemory(x)]
  <1>1. ASSUME NEW x \in Values, NodeOf(x).kind # "transfer"
        PROVE  F0[x] = F1[x]
    BY <1>1
  <1>2. ASSUME NEW x \in Values, NodeOf(x).kind = "transfer"
        PROVE  Comes(x) \in Values /\ F2[Comes(x)] = F1[Comes(x)]
    <2>1. /\ Comes(x) \in Values
          /\ NodeOf(Comes(x)).kind = "transfer" =>
               Comes(Comes(x)) \in Values /\ NodeOf(Comes(Comes(x))).kind # "transfer"
      BY <1>2, TransferDepth
    <2>2. CASE NodeOf(Comes(x)).kind # "transfer"
      BY <2>1, <2>2
    <2>3. CASE NodeOf(Comes(x)).kind = "transfer"
      <3>1. F0[Comes(Comes(x))] = F1[Comes(Comes(x))]
        BY <1>1, <2>1, <2>3
      <3> HIDE DEF F0
      <3>2. F1[Comes(x)] = Transported(Comes(x), F0[Comes(Comes(x))])
        BY <2>1, <2>3
      <3> HIDE DEF F1
      <3>3. F2[Comes(x)] = Transported(Comes(x), F1[Comes(Comes(x))])
        BY <2>1, <2>3
      <3> QED BY <2>1, <3>1, <3>2, <3>3
    <2> QED BY <2>2, <2>3
  <1> HIDE DEF F0, F1
  <1>3. F2 = [x \in Values |-> IF NodeOf(x).kind = "transfer" THEN Transported(x, F2[Comes(x)])
                               ELSE OwnMemory(x)]
    BY <1>2
  <1> HIDE DEF F2
  <1> DEFINE RecallsFrom(f, x) ==
               LET node == block[Defining(block, x)] IN
               IF node.kind = "linalg" /\ Placed(node) THEN StrelaAffinity(machine)
               ELSE IF node.kind # "transfer" THEN machine.default
               ELSE LET at == f[node.args[1]]
                        arg == block[Defining(block, node.args[1])]
                        from == IF arg.kind = "transfer" THEN arg.to ELSE at
                    IN IF Elided(from, node.to) THEN at ELSE node.to
  <1>4. ASSUME NEW f, NEW x
        PROVE  RecallsFrom(f, x) = IF NodeOf(x).kind = "transfer" THEN Transported(x, f[Comes(x)])
                            ELSE OwnMemory(x)
    <2> DEFINE node == NodeOf(x)
    <2>1. RecallsFrom(f, x) = IF node.kind = "linalg" /\ Placed(node) THEN StrelaAffinity(machine)
                       ELSE IF node.kind # "transfer" THEN machine.default
                       ELSE Transported(x, f[Comes(x)])
      BY Zenon DEF NodeOf, Comes, Transported
    <2>2. OwnMemory(x) = IF node.kind = "linalg" /\ Placed(node) THEN StrelaAffinity(machine)
                         ELSE machine.default
      BY DEF OwnMemory
    <2> HIDE DEF RecallsFrom, node
    <2> QED BY <2>1, <2>2 DEF node
  <1> HIDE DEF RecallsFrom
  <1>5. F2 = [x \in Values |-> RecallsFrom(F2, x)]
    BY <1>3, <1>4
  <1>6. Memory = [x \in Values |-> RecallsFrom(Memory, x)]
    BY <1>5, Zenon DEF Memory, RecallsFrom
  <1> QED BY <1>4, <1>6

(* No transfer to STRELA from where the default affinity is is elided.     *)
LEMMA NotElided ==
  ASSUME IInv, topology.ours, NEW strela, IsStrela(strela)
  PROVE  ~Elided(machine.default, strela)
  <1>1. topology.links = Links(machine) /\ ~IsStrela(machine.default)
    BY DEF IInv, MachineInv
  <1>2. ASSUME NEW l \in Links(machine), l.to = strela PROVE ~l.transparent
    <2> DEFINE strelas == {machine.devices[i] : i \in DevicesOf(machine, TRUE)}
               others == {machine.devices[i] : i \in DevicesOf(machine, FALSE)}
    <2>1. \A d \in others : ~IsStrela(d)
      BY Zenon DEF DevicesOf, IsStrela
    <2> DEFINE there == {[from |-> o, to |-> s, transparent |-> FALSE] : o \in others, s \in strelas}
               back == {[from |-> s, to |-> o, transparent |-> TRUE] : s \in strelas, o \in others}
    <2>2. Links(machine) = there \cup back
      BY DEF Links
    <2> HIDE DEF strelas, others
    <2>3. \A q \in there : ~q.transparent
      OBVIOUS
    <2>4. \A q \in back : q.to \in others
      OBVIOUS
    <2> HIDE DEF there, back
    <2> QED BY <1>2, <2>1, <2>2, <2>3, <2>4
  <1>3. machine.default # strela
    BY <1>1
  <1> QED BY <1>1, <1>2, <1>3 DEF Elided

LEMMA ReadsOwnMemory == IInv => StrelaReadsStrela
  <1> SUFFICES ASSUME IInv, topology.ours,
                      NEW p \in LinalgOps(block), Placed(block[p]),
                      NEW k \in DOMAIN Inputs(block[p]),
                      NodeOf(block[p].args[k]).kind = "transfer"
               PROVE  IsStrela(Memory[block[p].args[k]])
    BY DEF StrelaReadsStrela, NodeOf
  <1>1. PICK c \in SourceIds : c = block[p].id
    BY LinalgNodeIs
  <1>2. /\ c \in Wrapped
        /\ block[p].args[k] = IF k \in Moved(c) THEN TransferId(c, k) ELSE Use(Operand(c, k))
        /\ k \notin Moved(c) => SourceOp(Operand(c, k)).kind = "splat"
    BY <1>1, PlacedIsWrapped, LinalgNodeIs
  <1>3. PICK a \in SourceIds : a = Operand(c, k)
    BY <1>1, LinalgNodeIs
  <1>4. k \in Moved(c)
    <2> SUFFICES ASSUME k \notin Moved(c) PROVE FALSE
      OBVIOUS
    <2>1. NodeOf(Use(a)).kind = "splat"
      BY <1>2, <1>3, UseKind DEF NodeOf
    <2> QED BY <1>2, <1>3, <2>1
  <1>5. /\ TransferId(c, k) \in Values /\ IsIn(NodeOf(TransferId(c, k)), c, k)
        /\ IsStrela(StrelaAffinity(machine))
    BY <1>2, <1>4, InIs
  <1> DEFINE x == TransferId(c, k)
             S == StrelaAffinity(machine)
  <1>6. /\ x \in Values /\ NodeOf(x).kind = "transfer" /\ NodeOf(x).to = S /\ Comes(x) = Use(a)
        /\ block[p].args[k] = x
    BY <1>2, <1>3, <1>4, <1>5 DEF IsIn, Comes
  <1>7. Memory[x] = Transported(x, Memory[Use(a)])
    BY <1>6, MemoryIs
  <1> HIDE DEF x, S
  <1>8. CASE a \in Wrapped
    <2>1. NodeOf(Use(a)).kind = "transfer" /\ NodeOf(Use(a)).to = machine.default
      BY <1>8, UseKind DEF NodeOf, IsBack
    <2>2. ~Elided(machine.default, S)
      BY <1>5, NotElided DEF S
    <2>3. Memory[x] = S
      BY <1>6, <1>7, <2>1, <2>2 DEF Transported
    <2> QED BY <1>5, <1>6, <2>3 DEF S
  <1>9. CASE a \notin Wrapped
    <2>1. Use(a) = a /\ a \in Values /\ NodeOf(a).kind # "transfer"
      BY <1>9, UseComes DEF Use
    <2>2. ~(NodeOf(a).kind = "linalg" /\ Placed(NodeOf(a)))
      <3> SUFFICES ASSUME NodeOf(a).kind = "linalg", Placed(NodeOf(a)) PROVE FALSE
        OBVIOUS
      <3>1. PICK q \in DOMAIN block : q = Defining(block, a) /\ block[q].id = a
        BY <2>1, NodeIs DEF NodeOf
      <3>2. q \in LinalgOps(block) /\ Placed(block[q])
        BY <3>1 DEF NodeOf, LinalgOps
      <3> QED BY <1>9, <3>1, <3>2, PlacedIsWrapped
    <2>3. Memory[a] = machine.default
      BY <2>1, <2>2, MemoryIs DEF OwnMemory
    <2>4. ~Elided(machine.default, S)
      BY <1>5, NotElided DEF S
    <2>5. Memory[x] = S
      BY <1>6, <1>7, <2>1, <2>3, <2>4 DEF Transported
    <2> QED BY <1>5, <1>6, <2>5 DEF S
  <1> QED BY <1>8, <1>9

(* Under the topology of the pass STRELA reads from its own memory         *)
(* (AssignTopologyPass.cpp:56-67).                                         *)
THEOREM StrelaReadsItsMemory == Spec => []StrelaReadsStrela
  BY PlacementInvariance, ReadsOwnMemory, PTL

=============================================================================
