--------------------------- MODULE Smb2InfoProofs ---------------------------
(***************************************************************************)
(* Proofs about Smb2Info, for any files, lists, names and bounds.          *)
(***************************************************************************)
EXTENDS Smb2Info, WellFoundedInduction, TLAPS

(* Every nonempty set of natural numbers has a least element.              *)
LEMMA LeastElement ==
    ASSUME NEW T, T \subseteq Nat, T # {}
    PROVE  \E x \in T : \A y \in T : x <= y
<1>1. PICK x \in T : \A y \in T : ~(<<y, x>> \in OpToRel(<, Nat))
  BY NatLessThanWellFounded, WFMin
<1>2. \A y \in T : ~(y < x)
  BY <1>1 DEF OpToRel
<1> QED BY <1>2

(* Induction over the natural numbers, for a set of them.                  *)
LEMMA SetInduction ==
    ASSUME NEW S, 0 \in S, \A n \in Nat : n \in S => n + 1 \in S
    PROVE  Nat \subseteq S
<1> SUFFICES ASSUME Nat \ S # {} PROVE FALSE
  OBVIOUS
<1>1. PICK x \in Nat \ S : \A y \in Nat \ S : x <= y
  BY LeastElement
<1> QED BY <1>1

-----------------------------------------------------------------------------
(* Where the entries of a block start.                                     *)

LEMMA StartsExists ==
    ASSUME NEW sizes \in Seq(Nat)
    PROVE  \E g : g = [i \in 1..(Len(sizes) + 1) |-> IF i = 1 THEN 0 ELSE g[i - 1] + sizes[i - 1]]
<1> DEFINE P(n) == n <= Len(sizes) =>
                    \E g : g = [i \in 1..(n + 1) |-> IF i = 1 THEN 0 ELSE g[i - 1] + sizes[i - 1]]
           S == {n \in Nat : P(n)}
<1>1. P(0)
  <2> DEFINE g == [i \in 1..1 |-> 0]
  <2>1. g = [i \in 1..(0 + 1) |-> IF i = 1 THEN 0 ELSE g[i - 1] + sizes[i - 1]]
    OBVIOUS
  <2> QED BY <2>1
<1>2. ASSUME NEW n \in Nat, P(n) PROVE P(n + 1)
  <2> SUFFICES ASSUME n + 1 <= Len(sizes)
               PROVE  \E g : g = [i \in 1..(n + 1 + 1) |-> IF i = 1 THEN 0 ELSE g[i - 1] + sizes[i - 1]]
    OBVIOUS
  <2>1. PICK g : g = [i \in 1..(n + 1) |-> IF i = 1 THEN 0 ELSE g[i - 1] + sizes[i - 1]]
    BY <1>2
  <2> DEFINE h == [i \in 1..(n + 2) |-> IF i = n + 2 THEN g[n + 1] + sizes[n + 1] ELSE g[i]]
  <2>2. h = [i \in 1..(n + 1 + 1) |-> IF i = 1 THEN 0 ELSE h[i - 1] + sizes[i - 1]]
    <3>1. \A i \in 1..(n + 1) : g[i] = IF i = 1 THEN 0 ELSE g[i - 1] + sizes[i - 1]
      BY <2>1
    <3>2. \A i \in 1..(n + 2) : h[i] = IF i = 1 THEN 0 ELSE h[i - 1] + sizes[i - 1]
      BY <3>1
    <3>3. n + 1 + 1 = n + 2
      OBVIOUS
    <3>4. h = [i \in 1..(n + 2) |-> h[i]]
      OBVIOUS
    <3> HIDE DEF h
    <3> QED BY <3>2, <3>3, <3>4
  <2> QED BY <2>2
<1>3. Nat \subseteq S
  <2> HIDE DEF P
  <2>1. 0 \in S /\ \A n \in Nat : n \in S => n + 1 \in S
    BY <1>1, <1>2
  <2> HIDE DEF S
  <2> QED BY <2>1, SetInduction
<1>4. P(Len(sizes))
  <2> HIDE DEF P
  <2> QED BY <1>3
<1> QED BY <1>4

LEMMA StartsEquation ==
    ASSUME NEW sizes \in Seq(Nat)
    PROVE  /\ DOMAIN Starts(sizes) = 1..(Len(sizes) + 1)
           /\ Starts(sizes)[1] = 0
           /\ \A i \in 1..Len(sizes) : Starts(sizes)[i + 1] = Starts(sizes)[i] + sizes[i]
<1>1. Starts(sizes) = [i \in 1..(Len(sizes) + 1) |->
                          IF i = 1 THEN 0 ELSE Starts(sizes)[i - 1] + sizes[i - 1]]
  BY StartsExists DEF Starts
<1> QED BY <1>1

LEMMA StartsType ==
    ASSUME NEW sizes \in Seq(Nat)
    PROVE  \A i \in 1..(Len(sizes) + 1) : Starts(sizes)[i] \in Nat
<1> DEFINE S == {n \in Nat : n <= Len(sizes) => Starts(sizes)[n + 1] \in Nat}
<1>1. 0 \in S
  BY StartsEquation
<1>2. \A n \in Nat : n \in S => n + 1 \in S
  BY StartsEquation
<1>3. Nat \subseteq S
  <2> HIDE DEF S
  <2> QED BY <1>1, <1>2, SetInduction
<1>4. \A n \in Nat : n <= Len(sizes) => Starts(sizes)[n + 1] \in Nat
  BY <1>3
<1>5. SUFFICES ASSUME NEW i \in 1..(Len(sizes) + 1) PROVE Starts(sizes)[i] \in Nat
  OBVIOUS
<1>6. i - 1 \in Nat /\ i - 1 <= Len(sizes) /\ i - 1 + 1 = i
  OBVIOUS
<1> QED BY <1>4, <1>6

LEMMA StartsIncrease ==
    ASSUME NEW sizes \in Seq(Nat \ {0}),
           NEW i \in 1..(Len(sizes) + 1), NEW j \in 1..(Len(sizes) + 1), i < j
    PROVE  Starts(sizes)[i] < Starts(sizes)[j]
<1> DEFINE at == Starts(sizes)
           S == {n \in Nat : i + n + 1 <= Len(sizes) + 1 => at[i] < at[i + n + 1]}
<1>1. /\ \A k \in 1..Len(sizes) : sizes[k] \in Nat /\ sizes[k] > 0
      /\ \A k \in 1..(Len(sizes) + 1) : at[k] \in Nat
      /\ \A k \in 1..Len(sizes) : at[k + 1] = at[k] + sizes[k]
      /\ Len(sizes) \in Nat
  <2>1. sizes \in Seq(Nat)
    OBVIOUS
  <2> QED BY <2>1, StartsEquation, StartsType
<1> HIDE DEF at
<1>2. \A k \in 1..Len(sizes) : at[k] < at[k + 1]
  <2> SUFFICES ASSUME NEW k \in 1..Len(sizes) PROVE at[k] < at[k + 1]
    OBVIOUS
  <2>1. sizes[k] \in Nat /\ sizes[k] > 0 /\ at[k] \in Nat /\ at[k + 1] = at[k] + sizes[k]
    BY <1>1
  <2> QED BY <2>1
<1>3. 0 \in S
  BY <1>1, <1>2
<1>4. \A n \in Nat : n \in S => n + 1 \in S
  <2> SUFFICES ASSUME NEW n \in Nat, n \in S, i + (n + 1) + 1 <= Len(sizes) + 1
               PROVE  at[i] < at[i + (n + 1) + 1]
    OBVIOUS
  <2>1. i + n + 1 \in 1..Len(sizes) /\ i + (n + 1) + 1 = (i + n + 1) + 1
    BY <1>1
  <2>2. at[i + n + 1] < at[i + n + 1 + 1]
    BY <1>2, <2>1
  <2>3. at[i] < at[i + n + 1]
    BY <1>1, <2>1
  <2>4. at[i] \in Nat /\ at[i + n + 1] \in Nat /\ at[i + n + 1 + 1] \in Nat
    BY <1>1, <2>1
  <2> QED BY <2>1, <2>2, <2>3, <2>4
<1>5. Nat \subseteq S
  <2> HIDE DEF S
  <2> QED BY <1>3, <1>4, SetInduction
<1>6. j - i - 1 \in Nat /\ i + (j - i - 1) + 1 = j
  BY <1>1
<1>7. at[i] < at[j]
  <2>1. j - i - 1 \in S
    BY <1>5, <1>6
  <2>2. i + (j - i - 1) + 1 <= Len(sizes) + 1 => at[i] < at[i + (j - i - 1) + 1]
    BY <2>1
  <2> QED BY <2>2, <1>6, <1>1
<1> QED BY <1>7 DEF at

-----------------------------------------------------------------------------
(* The walk along the offsets.                                             *)

LEMMA ReadFromExists ==
    ASSUME NEW block, NEW len \in Nat, \A o \in DOMAIN block : block[o].next \in Nat
    PROVE  \E g : g = [o \in Nat |->
                IF o >= len \/ o \notin DOMAIN block THEN [ok |-> FALSE, list |-> <<>>]
                ELSE IF block[o].next = 0 THEN [ok |-> TRUE, list |-> <<block[o].item>>]
                ELSE [ok |-> g[o + block[o].next].ok,
                      list |-> <<block[o].item>> \o g[o + block[o].next].list]]
<1> DEFINE Read(r, o) == [ok |-> r.ok, list |-> <<block[o].item>> \o r.list]
           Step(g, o) ==
                IF o >= len \/ o \notin DOMAIN block THEN [ok |-> FALSE, list |-> <<>>]
                ELSE IF block[o].next = 0 THEN [ok |-> TRUE, list |-> <<block[o].item>>]
                ELSE Read(g[o + block[o].next], o)
           P(n) == \E g : \A o \in Nat : o + n >= len => g[o] = Step(g, o)
           S == {n \in Nat : P(n)}
<1>1. P(0)
  <2> DEFINE g == [o \in Nat |-> [ok |-> FALSE, list |-> <<>>]]
  <2>1. \A o \in Nat : o + 0 >= len => g[o] = Step(g, o)
    OBVIOUS
  <2> QED BY <2>1
<1>2. ASSUME NEW n \in Nat, P(n) PROVE P(n + 1)
  <2>1. PICK g : \A o \in Nat : o + n >= len => g[o] = Step(g, o)
    BY <1>2
  <2> DEFINE h == [o \in Nat |-> IF o + n >= len THEN g[o] ELSE Step(g, o)]
  <2>2. \A o \in Nat : o + n >= len => h[o] = g[o]
    OBVIOUS
  <2>3. \A o \in Nat : ~(o + n >= len) => h[o] = Step(g, o)
    OBVIOUS
  <2> HIDE DEF h, Read
  <2>4. ASSUME NEW o \in Nat, o + (n + 1) >= len PROVE h[o] = Step(h, o)
    <3>1. h[o] = Step(g, o)
      BY <2>1, <2>2, <2>3
    <3>2. CASE o >= len \/ o \notin DOMAIN block
      BY <3>1, <3>2
    <3>3. CASE o \in DOMAIN block /\ o < len /\ block[o].next = 0
      BY <3>1, <3>3
    <3>4. CASE o \in DOMAIN block /\ o < len /\ block[o].next # 0
      <4>1. block[o].next \in Nat /\ o + block[o].next \in Nat /\ (o + block[o].next) + n >= len
        BY <2>4, <3>4
      <4>2. h[o + block[o].next] = g[o + block[o].next]
        BY <4>1, <2>2
      <4> QED BY <3>1, <3>4, <4>2
    <3> QED BY <3>2, <3>3, <3>4
  <2> QED BY <2>4
<1>3. Nat \subseteq S
  <2> HIDE DEF P
  <2>1. 0 \in S /\ \A n \in Nat : n \in S => n + 1 \in S
    BY <1>1, <1>2
  <2> HIDE DEF S
  <2> QED BY <2>1, SetInduction
<1>4. P(len)
  <2> HIDE DEF P
  <2> QED BY <1>3
<1>5. PICK g : \A o \in Nat : o + len >= len => g[o] = Step(g, o)
  BY <1>4
<1>6. \A o \in Nat : g[o] = Step(g, o)
  <2> HIDE DEF Step
  <2> QED BY <1>5
<1> DEFINE h == [o \in Nat |-> g[o]]
<1>7. h = [o \in Nat |-> Step(h, o)]
  <2>1. \A o \in Nat : h[o] = g[o]
    OBVIOUS
  <2>2. \A o \in Nat : Step(h, o) = Step(g, o)
    <3> HIDE DEF h, Read
    <3> QED BY <2>1
  <2>3. \A o \in Nat : h[o] = Step(h, o)
    <3> HIDE DEF h, Step
    <3> QED BY <1>6, <2>1, <2>2
  <2>4. h = [o \in Nat |-> h[o]]
    OBVIOUS
  <2> HIDE DEF h, Step
  <2> QED BY <2>3, <2>4
<1> QED BY <1>7

LEMMA ReadFromEquation ==
    ASSUME NEW block, NEW len \in Nat, \A o \in DOMAIN block : block[o].next \in Nat,
           NEW o \in Nat
    PROVE  /\ o >= len \/ o \notin DOMAIN block
                => ReadFrom(block, len)[o] = [ok |-> FALSE, list |-> <<>>]
           /\ o < len /\ o \in DOMAIN block /\ block[o].next = 0
                => ReadFrom(block, len)[o] = [ok |-> TRUE, list |-> <<block[o].item>>]
           /\ o < len /\ o \in DOMAIN block /\ block[o].next # 0
                => ReadFrom(block, len)[o]
                     = [ok |-> ReadFrom(block, len)[o + block[o].next].ok,
                        list |-> <<block[o].item>> \o ReadFrom(block, len)[o + block[o].next].list]
<1> DEFINE from == ReadFrom(block, len)
<1>1. from = [p \in Nat |->
                IF p >= len \/ p \notin DOMAIN block THEN [ok |-> FALSE, list |-> <<>>]
                ELSE IF block[p].next = 0 THEN [ok |-> TRUE, list |-> <<block[p].item>>]
                ELSE [ok |-> from[p + block[p].next].ok,
                      list |-> <<block[p].item>> \o from[p + block[p].next].list]]
  BY ReadFromExists, Zenon DEF ReadFrom
<1> HIDE DEF from
<1>2. from[o] = IF o >= len \/ o \notin DOMAIN block THEN [ok |-> FALSE, list |-> <<>>]
                ELSE IF block[o].next = 0 THEN [ok |-> TRUE, list |-> <<block[o].item>>]
                ELSE [ok |-> from[o + block[o].next].ok,
                      list |-> <<block[o].item>> \o from[o + block[o].next].list]
  BY <1>1, Zenon
<1> QED BY <1>2 DEF from

LEMMA ReadFromFields ==
    ASSUME NEW block, NEW len \in Nat, \A o \in DOMAIN block : block[o].next \in Nat,
           NEW o \in Nat
    PROVE  LET from == ReadFrom(block, len)
           IN  /\ o >= len \/ o \notin DOMAIN block
                    => from[o].ok = FALSE /\ from[o].list = <<>>
               /\ o < len /\ o \in DOMAIN block /\ block[o].next = 0
                    => from[o].ok = TRUE /\ from[o].list = <<block[o].item>>
               /\ o < len /\ o \in DOMAIN block /\ block[o].next # 0
                    => /\ from[o].ok = from[o + block[o].next].ok
                       /\ from[o].list = <<block[o].item>> \o from[o + block[o].next].list
<1> DEFINE r == ReadFrom(block, len)[o]
           q == ReadFrom(block, len)[o + block[o].next]
<1>1. /\ o >= len \/ o \notin DOMAIN block => r = [ok |-> FALSE, list |-> <<>>]
      /\ o < len /\ o \in DOMAIN block /\ block[o].next = 0
           => r = [ok |-> TRUE, list |-> <<block[o].item>>]
      /\ o < len /\ o \in DOMAIN block /\ block[o].next # 0
           => r = [ok |-> q.ok, list |-> <<block[o].item>> \o q.list]
  BY ReadFromEquation, Zenon
<1> HIDE DEF r, q
<1>2. ASSUME o >= len \/ o \notin DOMAIN block PROVE r.ok = FALSE /\ r.list = <<>>
  <2>1. r = [ok |-> FALSE, list |-> <<>>]
    BY <1>1, <1>2
  <2> QED BY <2>1
<1>3. ASSUME o < len, o \in DOMAIN block, block[o].next = 0
      PROVE  r.ok = TRUE /\ r.list = <<block[o].item>>
  <2>1. r = [ok |-> TRUE, list |-> <<block[o].item>>]
    BY <1>1, <1>3
  <2> QED BY <2>1
<1>4. ASSUME o < len, o \in DOMAIN block, block[o].next # 0
      PROVE  r.ok = q.ok /\ r.list = <<block[o].item>> \o q.list
  <2>1. r = [ok |-> q.ok, list |-> <<block[o].item>> \o q.list]
    BY <1>1, <1>4
  <2> QED BY <2>1
<1> QED BY <1>2, <1>3, <1>4 DEF r, q

LEMMA LaidOutFacts ==
    ASSUME NEW X, NEW list \in Seq(X), NEW sizes \in Seq(Nat \ {0}), Len(sizes) = Len(list),
           NEW next \in [1..Len(list) -> Nat]
    PROVE  LET b == LaidOut(list, sizes, next)
               at == Starts(sizes)
           IN  /\ b.len = at[Len(list) + 1] /\ b.len \in Nat
               /\ DOMAIN b.block = {at[i] : i \in 1..Len(list)}
               /\ \A o \in DOMAIN b.block : b.block[o].next \in Nat
               /\ \A i \in 1..Len(list) :
                    /\ at[i] \in Nat /\ at[i] < b.len
                    /\ b.block[at[i]].item = list[i]
                    /\ b.block[at[i]].next = next[i]
<1> DEFINE n == Len(list)
           at == Starts(sizes)
           b == LaidOut(list, sizes, next)
           Which(o) == CHOOSE i \in 1..n : at[i] = o
<1>1. n \in Nat /\ sizes \in Seq(Nat)
  OBVIOUS
<1>2. \A i \in 1..(n + 1) : at[i] \in Nat
  BY <1>1, StartsType
<1>3. \A i, j \in 1..(n + 1) : i < j => at[i] < at[j]
  BY StartsIncrease
<1>4. b = [block |-> [o \in {at[i] : i \in 1..n} |-> [item |-> list[Which(o)], next |-> next[Which(o)]]],
           len |-> at[n + 1]]
  BY DEF LaidOut
<1> HIDE DEF at, b
<1>5. \A i, j \in 1..n : at[i] = at[j] => i = j
  <2> SUFFICES ASSUME NEW i \in 1..n, NEW j \in 1..n, at[i] = at[j], i # j PROVE FALSE
    OBVIOUS
  <2>1. at[i] \in Nat /\ at[j] \in Nat
    BY <1>1, <1>2
  <2>2. i < j \/ j < i
    BY <1>1
  <2> QED BY <1>1, <1>3, <2>1, <2>2
<1>6. \A i \in 1..n : Which(at[i]) = i
  BY <1>5
<1> HIDE DEF Which
<1>7. DOMAIN b.block = {at[i] : i \in 1..n} /\ b.len = at[n + 1]
  BY <1>4
<1>8. ASSUME NEW i \in 1..n
      PROVE  /\ at[i] \in Nat /\ at[i] < b.len
             /\ b.block[at[i]].item = list[i]
             /\ b.block[at[i]].next = next[i]
  <2>1. at[i] \in {at[j] : j \in 1..n}
    OBVIOUS
  <2>2. b.block[at[i]] = [item |-> list[Which(at[i])], next |-> next[Which(at[i])]]
    BY <1>4, <2>1
  <2>3. at[i] < at[n + 1]
    BY <1>1, <1>3
  <2> QED BY <1>1, <1>2, <1>6, <1>7, <2>2, <2>3
<1>9. \A o \in DOMAIN b.block : b.block[o].next \in Nat
  <2> SUFFICES ASSUME NEW o \in DOMAIN b.block PROVE b.block[o].next \in Nat
    OBVIOUS
  <2>1. PICK i \in 1..n : o = at[i]
    BY <1>7
  <2> QED BY <1>8, <2>1
<1>10. b.len \in Nat
  BY <1>1, <1>2, <1>7
<1> QED BY <1>7, <1>8, <1>9, <1>10 DEF b, at

LEMMA ConsSubSeq ==
    ASSUME NEW X, NEW list \in Seq(X), NEW i \in 1..Len(list), i < Len(list)
    PROVE  <<list[i]>> \o SubSeq(list, i + 1, Len(list)) = SubSeq(list, i, Len(list))
<1> DEFINE a == <<list[i]>> \o SubSeq(list, i + 1, Len(list))
           c == SubSeq(list, i, Len(list))
<1>1. a \in Seq(X) /\ c \in Seq(X)
  OBVIOUS
<1>2. Len(a) = Len(list) - i + 1 /\ Len(c) = Len(list) - i + 1
  OBVIOUS
<1>3. \A k \in 1..(Len(list) - i + 1) : a[k] = list[i + k - 1] /\ c[k] = list[i + k - 1]
  OBVIOUS
<1> HIDE DEF a, c
<1>4. a = c
  BY <1>1, <1>2, <1>3
<1> QED BY <1>4 DEF a, c

LEMMA Prepended ==
    ASSUME NEW r, NEW q, NEW x, NEW l, q = [ok |-> TRUE, list |-> l],
           r = [ok |-> q.ok, list |-> <<x>> \o q.list]
    PROVE  r = [ok |-> TRUE, list |-> <<x>> \o l]
  OBVIOUS

(* The walk along a block laid out as the protocol says reads the list.    *)
LEMMA ChainedIsRead ==
    ASSUME NEW X, NEW list \in Seq(X), NEW sizes \in Seq(Nat \ {0}), Len(sizes) = Len(list),
           list # <<>>
    PROVE  LET b == Chained(list, sizes) IN Walk(b.block, b.len) = [ok |-> TRUE, list |-> list]
<1> DEFINE n == Len(list)
           at == Starts(sizes)
           b == Chained(list, sizes)
           from == ReadFrom(b.block, b.len)
           next == [i \in 1..n |-> IF i = n THEN 0 ELSE at[i + 1] - at[i]]
           P(k) == k < n => from[at[n - k]] = [ok |-> TRUE, list |-> SubSeq(list, n - k, n)]
           S == {k \in Nat : P(k)}
<1>1. n \in Nat /\ n > 0 /\ sizes \in Seq(Nat)
  OBVIOUS
<1>2. \A i \in 1..(n + 1) : at[i] \in Nat
  BY <1>1, StartsType
<1>3. \A i, j \in 1..(n + 1) : i < j => at[i] < at[j]
  BY StartsIncrease
<1>4. at[1] = 0
  BY <1>1, StartsEquation
<1>5. b = LaidOut(list, sizes, next)
  BY DEF Chained
<1>a. ASSUME NEW i \in 1..n, i < n
      PROVE  at[i + 1] - at[i] \in Nat /\ at[i + 1] - at[i] # 0 /\ at[i] + (at[i + 1] - at[i]) = at[i + 1]
  <2> HIDE DEF at
  <2>1. at[i] \in Nat /\ at[i + 1] \in Nat /\ at[i] < at[i + 1]
    BY <1>a, <1>1, <1>2, <1>3
  <2> QED BY <2>1
<1>6. next \in [1..n -> Nat]
  <2> HIDE DEF at
  <2> QED BY <1>1, <1>a
<1>7. /\ b.len = at[n + 1] /\ b.len \in Nat
      /\ DOMAIN b.block = {at[i] : i \in 1..n}
      /\ \A o \in DOMAIN b.block : b.block[o].next \in Nat
      /\ \A i \in 1..n : /\ at[i] \in Nat /\ at[i] < b.len
                         /\ b.block[at[i]].item = list[i]
                         /\ b.block[at[i]].next = next[i]
  <2> HIDE DEF next, b
  <2> QED BY SMTT(30), <1>5, <1>6, LaidOutFacts
<1> HIDE DEF b, at
<1>8. \A i \in 1..n : next[i] = IF i = n THEN 0 ELSE at[i + 1] - at[i]
  OBVIOUS
<1> HIDE DEF next
<1>b. ASSUME NEW o \in Nat, o < b.len, o \in DOMAIN b.block
      PROVE  /\ b.block[o].next = 0 => from[o] = [ok |-> TRUE, list |-> <<b.block[o].item>>]
             /\ b.block[o].next # 0 =>
                   from[o] = [ok |-> from[o + b.block[o].next].ok,
                              list |-> <<b.block[o].item>> \o from[o + b.block[o].next].list]
  <2>1. b.len \in Nat /\ \A q \in DOMAIN b.block : b.block[q].next \in Nat
    BY <1>7
  <2>2. o \in Nat /\ o < b.len /\ o \in DOMAIN b.block
    BY <1>b
  <2> QED BY <2>1, <2>2, ReadFromEquation, Zenon
<1> HIDE DEF from
<1>9. P(0)
  <2>1. n \in 1..n /\ n - 0 = n
    BY <1>1
  <2>2. at[n] \in DOMAIN b.block /\ at[n] \in Nat /\ at[n] < b.len /\ b.block[at[n]].next = 0
        /\ b.block[at[n]].item = list[n]
    BY <1>7, <1>8, <2>1
  <2>3. from[at[n]] = [ok |-> TRUE, list |-> <<list[n]>>]
    BY <1>b, <2>2
  <2>4. SubSeq(list, n, n) = <<list[n]>>
    <3> DEFINE c == SubSeq(list, n, n)
    <3>1. c \in Seq(X) /\ Len(c) = 1 /\ c[1] = list[n]
      BY <1>1
    <3> HIDE DEF c
    <3>2. c = <<list[n]>>
      BY <3>1
    <3> QED BY <3>2 DEF c
  <2> QED BY <2>1, <2>3, <2>4
<1>10. ASSUME NEW k \in Nat, P(k) PROVE P(k + 1)
  <2> SUFFICES ASSUME k + 1 < n
               PROVE  from[at[n - (k + 1)]] = [ok |-> TRUE, list |-> SubSeq(list, n - (k + 1), n)]
    OBVIOUS
  <2> DEFINE i == n - (k + 1)
  <2>1. i \in 1..n /\ i < n /\ n - k = i + 1
    BY <1>1
  <2>2. from[at[i + 1]] = [ok |-> TRUE, list |-> SubSeq(list, i + 1, n)]
    BY <1>10, <2>1
  <2> HIDE DEF i
  <2>3. /\ at[i] \in DOMAIN b.block /\ at[i] \in Nat /\ at[i] < b.len
        /\ b.block[at[i]].item = list[i]
        /\ b.block[at[i]].next # 0 /\ at[i] + b.block[at[i]].next = at[i + 1]
    <3>1. at[i] \in DOMAIN b.block /\ at[i] \in Nat /\ at[i] < b.len
      BY <1>7, <2>1
    <3>2. b.block[at[i]].item = list[i] /\ b.block[at[i]].next = next[i]
      BY <1>7, <2>1
    <3>3. next[i] = at[i + 1] - at[i]
      BY <1>8, <2>1
    <3>4. at[i + 1] - at[i] # 0 /\ at[i] + (at[i + 1] - at[i]) = at[i + 1]
      BY <1>a, <2>1
    <3> QED BY <3>1, <3>2, <3>3, <3>4
  <2>4. from[at[i]] = [ok |-> from[at[i + 1]].ok, list |-> <<list[i]>> \o from[at[i + 1]].list]
    BY <1>b, <2>3
  <2>5. <<list[i]>> \o SubSeq(list, i + 1, n) = SubSeq(list, i, n)
    BY <2>1, ConsSubSeq
  <2>6. from[at[i]] = [ok |-> TRUE, list |-> SubSeq(list, i, n)]
    <3>1. from[at[i]] = [ok |-> TRUE, list |-> <<list[i]>> \o SubSeq(list, i + 1, n)]
      BY <2>2, <2>4, Prepended
    <3> QED BY <3>1, <2>5
  <2> QED BY <2>6 DEF i
<1>11. Nat \subseteq S
  <2> HIDE DEF P
  <2>1. 0 \in S /\ \A k \in Nat : k \in S => k + 1 \in S
    BY <1>9, <1>10
  <2> HIDE DEF S
  <2> QED BY <2>1, SetInduction
<1>12. P(n - 1)
  <2> HIDE DEF P
  <2> QED BY <1>1, <1>11
<1>13. n - (n - 1) = 1 /\ n - 1 < n
  BY <1>1
<1>14. from[0] = [ok |-> TRUE, list |-> SubSeq(list, 1, n)]
  BY <1>4, <1>12, <1>13
<1>15. SubSeq(list, 1, n) = list
  BY <1>1
<1>16. Walk(b.block, b.len) = [ok |-> TRUE, list |-> list]
  BY <1>14, <1>15 DEF Walk, from
<1> QED BY <1>16 DEF b

(* Whatever the offsets are, a walk that starts at an entry goes through    *)
(* the block from left to right.                                           *)
LEMMA ReadIsBounded ==
    ASSUME NEW X, NEW list \in Seq(X), NEW sizes \in Seq(Nat \ {0}), Len(sizes) = Len(list),
           NEW next \in [1..Len(list) -> Nat]
    PROVE  LET b == LaidOut(list, sizes, next)
           IN  \A j \in 1..Len(list) :
                 LET read == ReadFrom(b.block, b.len)[Starts(sizes)[j]].list
                 IN  read \in Seq(X) /\ Len(read) <= Len(list) - j + 1
<1> DEFINE n == Len(list)
           at == Starts(sizes)
           b == LaidOut(list, sizes, next)
           from == ReadFrom(b.block, b.len)
           Bounded(j) == from[at[j]].list \in Seq(X) /\ Len(from[at[j]].list) <= n - j + 1
           P(k) == \A j \in 1..n : n - j <= k => Bounded(j)
           S == {k \in Nat : P(k)}
<1>1. n \in Nat /\ sizes \in Seq(Nat)
  OBVIOUS
<1>2. \A i \in 1..(n + 1) : at[i] \in Nat
  BY <1>1, StartsType
<1>3. \A i, j \in 1..(n + 1) : i < j => at[i] < at[j]
  BY StartsIncrease
<1>4. /\ b.len \in Nat
      /\ DOMAIN b.block = {at[i] : i \in 1..n}
      /\ \A o \in DOMAIN b.block : b.block[o].next \in Nat
      /\ \A i \in 1..n : /\ at[i] \in Nat /\ at[i] < b.len
                         /\ b.block[at[i]].item = list[i]
                         /\ b.block[at[i]].next = next[i]
  BY LaidOutFacts
<1> HIDE DEF b, at
<1>5. ASSUME NEW o \in Nat
      PROVE  /\ o >= b.len \/ o \notin DOMAIN b.block => from[o].list = <<>>
             /\ o < b.len /\ o \in DOMAIN b.block /\ b.block[o].next = 0
                  => from[o].list = <<b.block[o].item>>
             /\ o < b.len /\ o \in DOMAIN b.block /\ b.block[o].next # 0
                  => from[o].list = <<b.block[o].item>> \o from[o + b.block[o].next].list
  BY <1>4, ReadFromFields, Zenon
<1> HIDE DEF from
<1>6. ASSUME NEW j \in 1..n, \A i \in 1..n : j < i => Bounded(i) PROVE Bounded(j)
  <2>1. /\ at[j] \in DOMAIN b.block /\ at[j] \in Nat /\ at[j] < b.len
        /\ b.block[at[j]].item = list[j] /\ b.block[at[j]].next = next[j] /\ list[j] \in X
    BY <1>4
  <2>2. CASE next[j] = 0
    <3>1. from[at[j]].list = <<list[j]>>
      BY <1>5, <2>1, <2>2
    <3> QED BY <1>1, <2>1, <3>1
  <2>3. CASE next[j] # 0
    <3> DEFINE o == at[j] + next[j]
               rest == from[o].list
    <3>1. o \in Nat /\ o > at[j]
      BY <2>1, <2>3
    <3>2. from[at[j]].list = <<list[j]>> \o rest
      BY <1>5, <2>1, <2>3
    <3>3. rest \in Seq(X) /\ Len(rest) <= n - j
      <4>1. CASE o >= b.len \/ o \notin DOMAIN b.block
        <5>1. rest = <<>>
          BY <1>5, <3>1, <4>1
        <5> QED BY <1>1, <5>1
      <4>2. CASE o < b.len /\ o \in DOMAIN b.block
        <5>1. PICK i \in 1..n : o = at[i]
          BY <1>4, <4>2
        <5>2. j < i
          <6> SUFFICES ASSUME ~(j < i) PROVE FALSE
            OBVIOUS
          <6>1. i = j \/ i < j
            BY <1>1
          <6>2. at[i] = at[j] \/ at[i] < at[j]
            BY <6>1, <1>1, <1>3
          <6> QED BY <6>2, <5>1, <3>1, <2>1
        <5>3. rest \in Seq(X) /\ Len(rest) <= n - i + 1
          BY <1>6, <5>1, <5>2
        <5> QED BY <1>1, <5>2, <5>3
      <4> QED BY <4>1, <4>2, <1>4, <3>1
    <3> HIDE DEF rest
    <3> QED BY <1>1, <2>1, <3>2, <3>3
  <2> QED BY <2>2, <2>3
<1>7. P(0)
  <2> SUFFICES ASSUME NEW j \in 1..n, n - j <= 0 PROVE Bounded(j)
    OBVIOUS
  <2>1. \A i \in 1..n : ~(j < i)
    BY <1>1
  <2> HIDE DEF Bounded
  <2> QED BY <2>1, <1>6
<1>8. ASSUME NEW k \in Nat, P(k) PROVE P(k + 1)
  <2> SUFFICES ASSUME NEW j \in 1..n, n - j <= k + 1 PROVE Bounded(j)
    OBVIOUS
  <2>1. \A i \in 1..n : j < i => n - i <= k
    BY <1>1
  <2> HIDE DEF Bounded
  <2> QED BY <2>1, <1>6, <1>8
<1>9. Nat \subseteq S
  <2> HIDE DEF P
  <2>1. 0 \in S /\ \A k \in Nat : k \in S => k + 1 \in S
    BY <1>7, <1>8
  <2> HIDE DEF S
  <2> QED BY <2>1, SetInduction
<1>10. P(n)
  <2> HIDE DEF P
  <2> QED BY <1>1, <1>9
<1>11. \A j \in 1..n : Bounded(j)
  <2> HIDE DEF Bounded
  <2> QED BY <1>1, <1>10
<1> QED BY <1>11 DEF b, from, at

-----------------------------------------------------------------------------
(* Lists of attributes, streams and directory entries.                     *)

WireEaSpace == [name : Labels, name_len : Nat, value_len : Nat, value_at : Nat]

LEMMA AlignedSize ==
    /\ \A n \in Nat \ {0} : Aligned(n, 4) \in Nat \ {0}
    /\ \A n \in Nat \ {0} : Aligned(n, 8) \in Nat \ {0}
  BY DEF Aligned

LEMMA EaSizesType ==
    ASSUME NEW list \in Seq(Eas)
    PROVE  EaSizes(list) \in Seq(Nat \ {0}) /\ Len(EaSizes(list)) = Len(list)
<1>1. \A i \in 1..Len(list) : EaSize(list[i]) \in Nat \ {0}
  <2> SUFFICES ASSUME NEW i \in 1..Len(list) PROVE EaSize(list[i]) \in Nat \ {0}
    OBVIOUS
  <2>1. list[i].name_len \in Nat /\ list[i].value_len \in Nat
    <3>1. list[i] \in Eas
      OBVIOUS
    <3> QED BY <3>1 DEF Eas
  <2>2. 8 + list[i].name_len + 1 + list[i].value_len \in Nat \ {0}
    BY <2>1
  <2> QED BY <2>2, AlignedSize DEF EaSize
<1> QED BY <1>1 DEF EaSizes

LEMMA StreamSizesType ==
    ASSUME NEW list \in Seq(Streams)
    PROVE  StreamSizes(list) \in Seq(Nat \ {0}) /\ Len(StreamSizes(list)) = Len(list)
<1>1. \A i \in 1..Len(list) : StreamSize(list[i]) \in Nat \ {0}
  <2> SUFFICES ASSUME NEW i \in 1..Len(list) PROVE StreamSize(list[i]) \in Nat \ {0}
    OBVIOUS
  <2>1. list[i].units \in Nat
    <3>1. list[i] \in Streams
      OBVIOUS
    <3> QED BY <3>1 DEF Streams
  <2>2. 24 + 2 * list[i].units \in Nat \ {0}
    BY <2>1
  <2> QED BY <2>2, AlignedSize DEF StreamSize
<1> QED BY <1>1 DEF StreamSizes

LEMMA DirentSizesType ==
    ASSUME NEW list \in Seq(Entries)
    PROVE  DirentSizes(list) \in Seq(Nat \ {0}) /\ Len(DirentSizes(list)) = Len(list)
<1>1. \A i \in 1..Len(list) : DirentSize(list[i]) \in Nat \ {0}
  <2> SUFFICES ASSUME NEW i \in 1..Len(list) PROVE DirentSize(list[i]) \in Nat \ {0}
    OBVIOUS
  <2>1. list[i].units \in Nat
    <3>1. list[i] \in Entries
      OBVIOUS
    <3> QED BY <3>1 DEF Entries
  <2>2. 80 + 2 * list[i].units \in Nat \ {0}
    BY <2>1
  <2> QED BY <2>2, AlignedSize DEF DirentSize
<1> QED BY <1>1 DEF DirentSizes

LEMMA WireEasType ==
    ASSUME NEW list \in Seq(Eas)
    PROVE  /\ WireEas(list) \in Seq(WireEaSpace) /\ Len(WireEas(list)) = Len(list)
           /\ \A i \in 1..Len(list) :
                /\ WireEas(list)[i].name = list[i].name
                /\ WireEas(list)[i].name_len = list[i].name_len
                /\ WireEas(list)[i].value_len = list[i].value_len
                /\ WireEas(list)[i].value_at = 8 + list[i].name_len + 1
<1>1. \A i \in 1..Len(list) :
        list[i].name \in Labels /\ list[i].name_len \in Nat /\ list[i].value_len \in Nat
  <2>1. \A i \in 1..Len(list) : list[i] \in Eas
    OBVIOUS
  <2> QED BY <2>1 DEF Eas
<1>2. WireEas(list) \in Seq(WireEaSpace)
  BY <1>1 DEF WireEas, WireEaSpace
<1> QED BY <1>2 DEF WireEas

(* The server's reading of the list of attributes the library encodes: one  *)
(* or two attributes are read as they were meant, of more some are lost.   *)
LEMMA EncodedIsRead ==
    ASSUME NEW list \in Seq(Eas), NEW left \in Nat,
           LET b == smb2_encode_file_extended_info(list, left) IN Walk(b.block, b.len).ok = TRUE
    PROVE  LET b == smb2_encode_file_extended_info(list, left)
               read == Walk(b.block, b.len).list
           IN  /\ read \in Seq(WireEaSpace)
               /\ Len(list) <= 2 => read = WireEas(list)
               /\ Len(list) > 2 => Len(read) < Len(list)
<1> DEFINE n == Len(list)
           wire == WireEas(list)
           sizes == EaSizes(list)
           at == Starts(sizes)
           next == [i \in 1..n |-> IF i < n THEN at[i + 1] ELSE left]
           b == LaidOut(wire, sizes, next)
           from == ReadFrom(b.block, b.len)
<1>1. n \in Nat /\ wire \in Seq(WireEaSpace) /\ Len(wire) = n /\ sizes \in Seq(Nat \ {0}) /\ Len(sizes) = n
  BY EaSizesType, WireEasType
<1> HIDE DEF wire, sizes
<1>2. sizes \in Seq(Nat)
  BY <1>1
<1>3. \A i \in 1..(n + 1) : at[i] \in Nat
  BY <1>1, <1>2, StartsType
<1>4. \A i, j \in 1..(n + 1) : i < j => at[i] < at[j]
  BY <1>1, StartsIncrease
<1>5. at[1] = 0
  BY <1>2, StartsEquation
<1> HIDE DEF at
<1>6. next \in [1..n -> Nat] /\ \A i \in 1..n : next[i] = IF i < n THEN at[i + 1] ELSE left
  BY <1>1, <1>3
<1> HIDE DEF next
<1>7. /\ b.len \in Nat
      /\ b.len = at[n + 1]
      /\ DOMAIN b.block = {at[i] : i \in 1..n}
      /\ \A o \in DOMAIN b.block : b.block[o].next \in Nat
      /\ \A i \in 1..n : /\ at[i] \in Nat /\ at[i] < b.len
                         /\ b.block[at[i]].item = wire[i]
                         /\ b.block[at[i]].next = next[i]
  BY <1>1, <1>6, LaidOutFacts DEF at
<1>8. \A j \in 1..n : from[at[j]].list \in Seq(WireEaSpace) /\ Len(from[at[j]].list) <= n - j + 1
  BY <1>1, <1>6, ReadIsBounded DEF at
<1>9. b = smb2_encode_file_extended_info(list, left)
  BY DEF smb2_encode_file_extended_info, next, at, sizes, wire
<1>10. from[0].ok = TRUE
  BY <1>9 DEF Walk
<1> HIDE DEF b
<1>11. ASSUME NEW o \in Nat
       PROVE  /\ o >= b.len \/ o \notin DOMAIN b.block => from[o].ok = FALSE /\ from[o].list = <<>>
              /\ o < b.len /\ o \in DOMAIN b.block /\ b.block[o].next = 0
                   => from[o].ok = TRUE /\ from[o].list = <<b.block[o].item>>
              /\ o < b.len /\ o \in DOMAIN b.block /\ b.block[o].next # 0
                   => /\ from[o].ok = from[o + b.block[o].next].ok
                      /\ from[o].list = <<b.block[o].item>> \o from[o + b.block[o].next].list
  BY <1>7, ReadFromFields, Zenon
<1> HIDE DEF from
<1>12. ASSUME NEW i \in 1..n
       PROVE  /\ next[i] = 0 => from[at[i]].ok = TRUE /\ from[at[i]].list = <<wire[i]>>
              /\ next[i] # 0 => /\ from[at[i]].ok = from[at[i] + next[i]].ok
                                /\ from[at[i]].list = <<wire[i]>> \o from[at[i] + next[i]].list
  <2>1. /\ at[i] \in DOMAIN b.block /\ at[i] \in Nat /\ at[i] < b.len
        /\ b.block[at[i]].item = wire[i] /\ b.block[at[i]].next = next[i]
    BY <1>7
  <2> QED BY <1>11, <2>1
<1>13. ASSUME NEW o \in Nat, from[o].ok = TRUE PROVE \E i \in 1..n : o = at[i]
  BY <1>7, <1>11, <1>13
<1>14. n > 0
  <2>1. \E i \in 1..n : 0 = at[i]
    BY <1>10, <1>13
  <2> QED BY <1>1, <2>1
<1>a. ASSUME n > 1
      PROVE  /\ next[1] = at[2] /\ at[2] \in Nat /\ 0 < at[2]
             /\ from[0].ok = from[at[2]].ok /\ from[0].list = <<wire[1]>> \o from[at[2]].list
  <2>1. 1 \in 1..n /\ 1 \in 1..(n + 1) /\ 2 \in 1..(n + 1) /\ 1 + 1 = 2
    BY <1>1, <1>a
  <2>2. next[1] = at[2] /\ at[2] \in Nat /\ 0 < at[2]
    BY <1>3, <1>4, <1>5, <1>6, <1>a, <2>1
  <2>3. /\ from[at[1]].ok = from[at[1] + next[1]].ok
        /\ from[at[1]].list = <<wire[1]>> \o from[at[1] + next[1]].list
    <3>1. next[1] # 0
      BY <2>2
    <3> QED BY <1>12, <2>1, <3>1
  <2>4. at[1] + next[1] = at[2]
    BY <1>5, <2>2
  <2> QED BY <1>5, <2>2, <2>3, <2>4
<1>15. from[0].list \in Seq(WireEaSpace)
  BY <1>1, <1>5, <1>8, <1>14
<1>16. CASE n = 1
  <2>1. next[1] = left
    BY <1>6, <1>16
  <2>2. left = 0
    <3> SUFFICES ASSUME left # 0 PROVE FALSE
      OBVIOUS
    <3>1. from[at[1] + left].ok = TRUE
      BY <1>5, <1>10, <1>12, <1>16, <2>1
    <3>2. at[1] + left \in Nat /\ at[1] + left # at[1]
      BY <1>5
    <3>3. PICK i \in 1..n : at[1] + left = at[i]
      BY <1>13, <3>1, <3>2
    <3> QED BY <1>16, <3>2, <3>3
  <2>3. from[0].list = <<wire[1]>>
    <3>1. 1 \in 1..n /\ next[1] = 0
      BY <1>16, <2>1, <2>2
    <3>2. from[at[1]].list = <<wire[1]>>
      BY <1>12, <3>1
    <3> QED BY <1>5, <3>2
  <2>4. wire = <<wire[1]>>
    BY <1>1, <1>16
  <2>5. from[0].list = wire
    BY <2>3, <2>4
  <2> QED BY <2>5, <1>9, <1>15, <1>16 DEF Walk, from, wire
<1>17. CASE n = 2
  <2>1. next[1] = at[2] /\ next[2] = left /\ at[2] \in Nat /\ 0 < at[2]
    BY <1>6, <1>17, <1>a
  <2>2. from[0].ok = from[at[2]].ok /\ from[0].list = <<wire[1]>> \o from[at[2]].list
    BY <1>17, <1>a
  <2>3. left = 0
    <3> SUFFICES ASSUME left # 0 PROVE FALSE
      OBVIOUS
    <3>1. from[at[2] + left].ok = TRUE
      BY <1>10, <1>12, <1>17, <2>1, <2>2
    <3>2. at[2] + left \in Nat /\ at[2] + left # at[1] /\ at[2] + left # at[2]
      BY <1>5, <2>1
    <3>3. PICK i \in 1..n : at[2] + left = at[i]
      BY <1>13, <3>1, <3>2
    <3> QED BY <1>17, <3>2, <3>3
  <2>4. from[at[2]].list = <<wire[2]>>
    <3>1. 2 \in 1..n /\ next[2] = 0
      BY <1>17, <2>1, <2>3
    <3> QED BY <1>12, <3>1
  <2>5. wire = <<wire[1]>> \o <<wire[2]>>
    BY <1>1, <1>17
  <2>6. from[0].list = wire
    BY <2>2, <2>4, <2>5
  <2> QED BY <2>6, <1>9, <1>15, <1>17 DEF Walk, from, wire
<1>18. CASE n > 2
  <2>1. /\ next[1] = at[2] /\ next[2] = at[3] /\ at[2] \in Nat /\ at[3] \in Nat
        /\ 0 < at[2] /\ 0 < at[3]
    <3>1. 2 \in 1..n /\ 2 < n /\ 2 \in 1..(n + 1) /\ 3 \in 1..(n + 1) /\ 2 + 1 = 3
      BY <1>1, <1>18
    <3>2. next[2] = at[3] /\ at[3] \in Nat /\ at[2] < at[3]
      BY <1>3, <1>4, <1>6, <3>1
    <3> QED BY <1>1, <1>18, <1>a, <3>2
  <2>2. from[0].ok = from[at[2]].ok /\ from[0].list = <<wire[1]>> \o from[at[2]].list
    BY <1>1, <1>18, <1>a
  <2>3. /\ from[at[2]].ok = from[at[2] + at[3]].ok
        /\ from[at[2]].list = <<wire[2]>> \o from[at[2] + at[3]].list
    <3>1. 2 \in 1..n /\ next[2] # 0 /\ at[2] + next[2] = at[2] + at[3]
      BY <1>1, <1>18, <2>1
    <3> QED BY <1>12, <3>1
  <2>4. PICK i \in 1..n : at[2] + at[3] = at[i]
    <3>1. at[2] + at[3] \in Nat /\ from[at[2] + at[3]].ok = TRUE
      BY <1>10, <2>1, <2>2, <2>3
    <3> QED BY <1>13, <3>1
  <2>5. i > 3
    <3> SUFFICES ASSUME i <= 3 PROVE FALSE
      BY <1>1
    <3>1. i = 3 \/ i < 3
      BY <1>1
    <3>2. at[i] <= at[3]
      BY SMTT(30), <1>1, <1>3, <1>4, <1>18, <3>1
    <3> QED BY <2>1, <2>4, <3>2
  <2> DEFINE rest == from[at[2] + at[3]].list
  <2>6. rest \in Seq(WireEaSpace) /\ Len(rest) <= n - i + 1
    BY <1>8, <2>4
  <2> HIDE DEF rest
  <2>7. from[0].list = <<wire[1]>> \o (<<wire[2]>> \o rest) /\ wire[1] \in WireEaSpace /\ wire[2] \in WireEaSpace
    BY <1>1, <1>18, <2>2, <2>3 DEF rest
  <2>8. Len(from[0].list) = Len(rest) + 2
    BY <2>6, <2>7
  <2>9. Len(from[0].list) < n
    BY <1>1, <2>5, <2>6, <2>8
  <2> QED BY <2>9, <1>1, <1>9, <1>15, <1>18 DEF Walk, from
<1> QED BY <1>1, <1>14, <1>16, <1>17, <1>18

LEMMA NothingChained ==
    ASSUME NEW sizes \in Seq(Nat \ {0}), NEW list, Len(list) = 0, Len(sizes) = 0
    PROVE  Chained(list, sizes).len = 0
<1>1. sizes \in Seq(Nat)
  OBVIOUS
<1>2. Starts(sizes)[1] = 0
  BY <1>1, StartsEquation
<1>3. Len(list) + 1 = 1
  OBVIOUS
<1> QED BY <1>2, <1>3 DEF Chained, LaidOut

(* What the decoder of attributes makes of a block the server sends.       *)
LEMMA EasAreRead ==
    ASSUME NEW eas \in Seq(Eas), eas # <<>>, NEW b,
           b.block = Chained(WireEas(eas), EaSizes(eas)).block,
           b.len = Chained(WireEas(eas), EaSizes(eas)).len
    PROVE  LET list == smb2_decode_file_extended_info(b).list
           IN  /\ NamesOf(list) = NamesOf(eas)
               /\ \A i \in DOMAIN eas : list[i].whole <=> eas[i].value_len = 0
<1> DEFINE wire == WireEas(eas)
           sizes == EaSizes(eas)
           read == Walk(b.block, b.len)
<1>1. /\ wire \in Seq(WireEaSpace) /\ Len(wire) = Len(eas)
      /\ sizes \in Seq(Nat \ {0}) /\ Len(sizes) = Len(eas)
  BY EaSizesType, WireEasType
<1>2. wire # <<>>
  BY <1>1
<1>3. \A i \in 1..Len(eas) :
        /\ wire[i].name = eas[i].name /\ wire[i].name_len = eas[i].name_len
        /\ wire[i].value_len = eas[i].value_len /\ wire[i].value_at = 8 + eas[i].name_len + 1
        /\ eas[i].name_len \in Nat
  <2>1. \A i \in 1..Len(eas) : eas[i] \in Eas
    OBVIOUS
  <2>2. \A i \in 1..Len(eas) : eas[i].name_len \in Nat
    BY <2>1 DEF Eas
  <2> QED BY <2>2, WireEasType
<1> HIDE DEF wire, sizes
<1>4. read = [ok |-> TRUE, list |-> wire]
  BY <1>1, <1>2, ChainedIsRead DEF wire, sizes
<1>5. read.list = wire
  BY <1>4
<1> HIDE DEF read
<1> DEFINE list == smb2_decode_file_extended_info(b).list
<1>6. list = [i \in DOMAIN wire |-> [name |-> wire[i].name,
                whole |-> wire[i].value_at = 8 + wire[i].name_len \/ wire[i].value_len = 0]]
  BY <1>5 DEF smb2_decode_file_extended_info, read
<1> HIDE DEF list
<1>7. DOMAIN list = 1..Len(eas) /\ DOMAIN eas = 1..Len(eas)
  BY <1>1, <1>6
<1>8. \A i \in 1..Len(eas) : list[i].name = eas[i].name
  BY <1>1, <1>3, <1>6
<1>9. ASSUME NEW i \in 1..Len(eas) PROVE list[i].whole <=> eas[i].value_len = 0
  <2>1. list[i] = [name |-> wire[i].name,
                   whole |-> wire[i].value_at = 8 + wire[i].name_len \/ wire[i].value_len = 0]
    BY <1>1, <1>6
  <2>2. wire[i].value_at # 8 + wire[i].name_len /\ wire[i].value_len = eas[i].value_len
    BY <1>3
  <2>3. list[i].whole = (wire[i].value_at = 8 + wire[i].name_len \/ wire[i].value_len = 0)
    BY <2>1
  <2> QED BY <2>2, <2>3
<1>10. NamesOf(list) = NamesOf(eas)
  BY <1>7, <1>8 DEF NamesOf
<1> QED BY <1>7, <1>9, <1>10 DEF list

(* What the decoder of streams makes of a block the server sends.          *)
LEMMA StreamsAreRead ==
    ASSUME NEW streams \in Seq(Streams), streams # <<>>, NEW b,
           b.block = Chained(streams, StreamSizes(streams)).block,
           b.len = Chained(streams, StreamSizes(streams)).len
    PROVE  LET list == smb2_decode_file_stream_info(b).list
           IN  /\ NamesOf(list) = NamesOf(streams)
               /\ \A i \in DOMAIN streams : list[i].whole <=> streams[i].bytes = streams[i].units
<1> DEFINE sizes == StreamSizes(streams)
           read == Walk(b.block, b.len)
           list == smb2_decode_file_stream_info(b).list
<1>1. sizes \in Seq(Nat \ {0}) /\ Len(sizes) = Len(streams)
  BY StreamSizesType
<1>2. read = [ok |-> TRUE, list |-> streams]
  BY <1>1, ChainedIsRead
<1>3. read.list = streams
  BY <1>2
<1> HIDE DEF read
<1>4. list = [i \in DOMAIN streams |-> [name |-> streams[i].name,
                                        whole |-> streams[i].bytes <= streams[i].units]]
  BY <1>3 DEF smb2_decode_file_stream_info, read
<1> HIDE DEF list
<1>5. DOMAIN list = 1..Len(streams) /\ DOMAIN streams = 1..Len(streams)
  BY <1>4
<1>6. \A i \in 1..Len(streams) : list[i].name = streams[i].name
  BY <1>4
<1>7. ASSUME NEW i \in 1..Len(streams)
      PROVE  list[i].whole <=> streams[i].bytes = streams[i].units
  <2>1. list[i] = [name |-> streams[i].name, whole |-> streams[i].bytes <= streams[i].units]
    BY <1>4
  <2>2. list[i].whole = (streams[i].bytes <= streams[i].units)
    BY <2>1
  <2>3. streams[i] \in Streams
    OBVIOUS
  <2>4. streams[i].bytes \in Nat /\ streams[i].units \in Nat /\ streams[i].bytes >= streams[i].units
    BY <2>3 DEF Streams
  <2>5. streams[i].bytes <= streams[i].units <=> streams[i].bytes = streams[i].units
    BY <2>4
  <2> QED BY <2>2, <2>5
<1>8. NamesOf(list) = NamesOf(streams)
  BY <1>5, <1>6 DEF NamesOf
<1> QED BY <1>5, <1>7, <1>8 DEF list

(* What the decoder of directory entries makes of a block the server sends. *)
LEMMA DirentsAreRead ==
    ASSUME NEW part \in Seq(Entries), part # <<>>, NEW b,
           b.block = Chained(part, DirentSizes(part)).block,
           b.len = Chained(part, DirentSizes(part)).len
    PROVE  decode_dirents(b).list = NamesOf(part)
<1> DEFINE sizes == DirentSizes(part)
           read == Walk(b.block, b.len)
<1>1. sizes \in Seq(Nat \ {0}) /\ Len(sizes) = Len(part)
  BY DirentSizesType
<1>2. read = [ok |-> TRUE, list |-> part]
  BY <1>1, ChainedIsRead
<1>3. read.list = part
  BY <1>2
<1> HIDE DEF read
<1> QED BY <1>3 DEF decode_dirents, NamesOf, read

-----------------------------------------------------------------------------
(* The state.                                                              *)

Fields == {"sd", "stored", "eas", "streams", "entries", "name", "time", "size"}

(* What the server holds keeps its form.                                   *)
FileInv ==
    /\ DOMAIN file = Fields
    /\ file.sd \in Descriptors
    /\ file.eas \in Seq(Eas)
    /\ file.streams \in Seq(Streams)
    /\ file.entries \in Seq(Entries)

(* A request carries what the library makes of what the application asked. *)
CallInv ==
    call # None =>
        \/ call.op = "query" /\ call.class \in Classes
        \/ call.op = "dir"
        \/ /\ call.op = "set_ea"
           /\ call.asked \in EaLists
           /\ \E left \in Leftovers : call.sent = smb2_encode_file_extended_info(call.asked, left)
        \/ call.op = "rename" /\ call.asked \in Names /\ call.sent = call.asked
        \/ call.op \in {"set_basic", "truncate"} /\ call.sent = call.asked
        \/ call.op = "set_security"

(* A reply belongs to the call under way and tells what the server holds   *)
(* or has just stored; of a block of directory entries that decodes.       *)
ReplyInv ==
    reply # None =>
        /\ call # None
        /\ reply.status \in {"success", "error", "no_more_files"}
        /\ reply.status = "no_more_files" => call.op = "dir" /\ Len(dir) = Len(file.entries)
        /\ reply.status = "success" =>
            /\ call.op = "query" => /\ reply = Success(Block(call.class))
                                    /\ ~(call.class = "ea" /\ file.eas = <<>>)
            /\ call.op = "dir" /\ decode_dirents(reply).ok =>
                \E k \in 1..MaxEntries :
                    /\ Len(dir) + k <= Len(file.entries)
                    /\ LET part == SubSeq(file.entries, Len(dir) + 1, Len(dir) + k)
                       IN  reply = Success(Chained(part, DirentSizes(part)))
            /\ call.op = "set_ea" => (file.eas = call.asked <=> Len(call.asked) <= 2)
            /\ call.op = "rename" => file.name = call.asked /\ NoSlash(call.asked)
            /\ call.op = "set_basic" => call.asked \in {0, file.time}
            /\ call.op = "truncate" => file.size = call.asked

(* A listing under way has collected the first names of the directory.     *)
DirInv ==
    call # None /\ call.op = "dir" =>
        /\ dir \in Seq(Labels)
        /\ Len(dir) <= Len(file.entries)
        /\ dir = NamesOf(SubSeq(file.entries, 1, Len(dir)))

(* A call has ended before its outcome is there.                           *)
OutcomeInv == outcome # None => call = None

ListInv == FileInv /\ CallInv /\ ReplyInv /\ DirInv /\ OutcomeInv /\ QueryTellsAll /\ SetIsApplied

LEMMA FieldChanged ==
    ASSUME NEW f, DOMAIN f = Fields, NEW v
    PROVE  /\ LET g == [f EXCEPT !.eas = v] IN
                DOMAIN g = Fields /\ g.eas = v /\ g.sd = f.sd /\ g.streams = f.streams
                /\ g.entries = f.entries
           /\ LET g == [f EXCEPT !.name = v] IN
                DOMAIN g = Fields /\ g.name = v /\ g.sd = f.sd /\ g.eas = f.eas
                /\ g.streams = f.streams /\ g.entries = f.entries
           /\ LET g == [f EXCEPT !.time = v] IN
                DOMAIN g = Fields /\ g.time = v /\ g.sd = f.sd /\ g.eas = f.eas
                /\ g.streams = f.streams /\ g.entries = f.entries
           /\ LET g == [f EXCEPT !.size = v] IN
                DOMAIN g = Fields /\ g.size = v /\ g.sd = f.sd /\ g.eas = f.eas
                /\ g.streams = f.streams /\ g.entries = f.entries
           /\ LET g == [f EXCEPT !.stored = v] IN
                DOMAIN g = Fields /\ g.sd = f.sd /\ g.eas = f.eas
                /\ g.streams = f.streams /\ g.entries = f.entries
  BY DEF Fields

LEMMA ListInit == Init => ListInv
<1> SUFFICES ASSUME Init PROVE ListInv
  OBVIOUS
<1>1. file \in [sd : Descriptors, stored : {None}, eas : Seq(Eas), streams : Seq(Streams),
                entries : Seq(Entries), name : Seq(STRING), time : Nat, size : Nat]
  BY ValuesAssumption DEF Init
<1>2. FileInv
  BY <1>1 DEF FileInv, Fields
<1>3. call = None /\ reply = None /\ outcome = None
  BY DEF Init
<1> QED BY <1>2, <1>3 DEF ListInv, CallInv, ReplyInv, DirInv, OutcomeInv, QueryTellsAll, SetIsApplied,
             Queried, Succeeded

(* A call of the application.                                              *)
LEMMA AskStep ==
    ASSUME ListInv, NEW c, Ask(c),
           \/ c.op = "query" /\ c.class \in Classes
           \/ c.op = "dir"
           \/ /\ c.op = "set_ea"
              /\ c.asked \in EaLists
              /\ \E left \in Leftovers : c.sent = smb2_encode_file_extended_info(c.asked, left)
           \/ c.op = "rename" /\ c.asked \in Names /\ c.sent = c.asked
           \/ c.op \in {"set_basic", "truncate"} /\ c.sent = c.asked
           \/ c.op = "set_security"
    PROVE  ListInv'
<1>1. file' = file /\ call' = c /\ reply' = None /\ outcome' = None /\ dir' = <<>>
  BY DEF Ask
<1>2. FileInv'
  BY <1>1 DEF ListInv, FileInv
<1>3. CallInv'
  BY <1>1 DEF CallInv
<1>4. DirInv'
  <2>1. file'.entries \in Seq(Entries)
    BY <1>2 DEF FileInv
  <2>2. dir' \in Seq(Labels) /\ Len(dir') = 0
    BY <1>1
  <2>3. NamesOf(SubSeq(file'.entries, 1, 0)) = <<>>
    BY <2>1 DEF NamesOf
  <2> QED BY <1>1, <2>1, <2>2, <2>3 DEF DirInv
<1>5. ReplyInv' /\ OutcomeInv' /\ QueryTellsAll' /\ SetIsApplied'
  BY <1>1 DEF ReplyInv, OutcomeInv, QueryTellsAll, SetIsApplied, Queried, Succeeded
<1> QED BY <1>2, <1>3, <1>4, <1>5 DEF ListInv

LEMMA CallSteps ==
    ASSUME ListInv,
           GetInfo \/ SetinfoExtended \/ Rename \/ SetinfoBasic \/ Truncate \/ SetSecurity
             \/ SetSecurityRefused \/ QueryDir
    PROVE  ListInv'
<1>1. CASE GetInfo
  <2>1. PICK class \in Classes : Ask([op |-> "query", class |-> class])
    BY <1>1 DEF GetInfo, Stat, Statvfs, GetinfoAll, GetinfoBasic, GetinfoStandard,
         GetinfoExtended, GetinfoStream, GetSecurity, QueryFs, Query, Classes, FixedClasses
  <2> DEFINE c == [op |-> "query", class |-> class]
  <2>2. c.op = "query" /\ c.class \in Classes
    OBVIOUS
  <2> HIDE DEF c
  <2> QED BY <2>1, <2>2, AskStep DEF c
<1>2. CASE SetinfoExtended
  <2>1. PICK list \in EaLists : \E left \in Leftovers :
            Ask([op |-> "set_ea", asked |-> list, sent |-> smb2_encode_file_extended_info(list, left)])
    BY <1>2 DEF SetinfoExtended, SetInfo
  <2>2. PICK left \in Leftovers :
            Ask([op |-> "set_ea", asked |-> list, sent |-> smb2_encode_file_extended_info(list, left)])
    BY <2>1
  <2> DEFINE c == [op |-> "set_ea", asked |-> list, sent |-> smb2_encode_file_extended_info(list, left)]
  <2>3. c.op = "set_ea" /\ c.asked \in EaLists
        /\ c.sent = smb2_encode_file_extended_info(c.asked, left)
    OBVIOUS
  <2> HIDE DEF c
  <2> QED BY <2>2, <2>3, AskStep DEF c
<1>7. CASE Rename
  <2>1. PICK v \in Names : Ask([op |-> "rename", asked |-> v, sent |-> v])
    BY <1>7 DEF Rename, SetInfo
  <2> DEFINE c == [op |-> "rename", asked |-> v, sent |-> v]
  <2>2. c.op = "rename" /\ c.asked \in Names /\ c.sent = c.asked
    OBVIOUS
  <2> HIDE DEF c
  <2> QED BY <2>1, <2>2, AskStep DEF c
<1>3. CASE SetinfoBasic \/ Truncate
  <2>1. PICK op \in {"set_basic", "truncate"} :
            \E v : Ask([op |-> op, asked |-> v, sent |-> v])
    BY <1>3 DEF SetinfoBasic, Truncate, SetInfo
  <2>2. PICK v : Ask([op |-> op, asked |-> v, sent |-> v])
    BY <2>1
  <2> DEFINE c == [op |-> op, asked |-> v, sent |-> v]
  <2>3. c.op \in {"set_basic", "truncate"} /\ c.sent = c.asked
    OBVIOUS
  <2> HIDE DEF c
  <2> QED BY <2>2, <2>3, AskStep DEF c
<1>4. CASE SetSecurity
  <2> DEFINE c == [op |-> "set_security", asked |-> secbuf.meant, sent |-> secbuf.units]
  <2>1. Ask(c)
    BY <1>4 DEF SetSecurity, SetInfo
  <2>2. c.op = "set_security"
    OBVIOUS
  <2> HIDE DEF c
  <2> QED BY <2>1, <2>2, AskStep
<1>5. CASE SetSecurityRefused
  <2> DEFINE o == [status |-> "internal_error",
                   of |-> [op |-> "set_security", asked |-> secbuf.meant]]
  <2>1. /\ outcome' = o /\ call = None
        /\ file' = file /\ call' = call /\ reply' = reply /\ dir' = dir
    BY <1>5 DEF SetSecurityRefused
  <2>2. o.status = "internal_error"
    OBVIOUS
  <2> HIDE DEF o
  <2>3. outcome'.status # "success"
    BY <2>1, <2>2
  <2>4. FileInv' /\ CallInv' /\ DirInv' /\ OutcomeInv'
    BY <2>1 DEF ListInv, FileInv, CallInv, DirInv, OutcomeInv
  <2>5. ReplyInv'
    BY <2>1 DEF ListInv, ReplyInv
  <2>6. QueryTellsAll' /\ SetIsApplied'
    BY <2>3 DEF QueryTellsAll, SetIsApplied, Queried, Succeeded
  <2> QED BY <2>4, <2>5, <2>6 DEF ListInv
<1>6. CASE QueryDir
  <2> DEFINE c == [op |-> "dir"]
  <2>1. Ask(c)
    BY <1>6 DEF QueryDir
  <2>2. c.op = "dir"
    OBVIOUS
  <2> HIDE DEF c
  <2> QED BY <2>1, <2>2, AskStep
<1> QED BY <1>1, <1>2, <1>3, <1>4, <1>5, <1>6, <1>7

-----------------------------------------------------------------------------
(* The server's steps.                                                     *)

(* A step of the server that leaves the file as it is.                     *)
LEMMA AnswerStep ==
    ASSUME ListInv, call # None, reply = None, NEW r, Answer(r), file' = file,
           r.status \in {"success", "error", "no_more_files"},
           r.status = "no_more_files" => call.op = "dir" /\ Len(dir) = Len(file.entries),
           r.status = "success" =>
            \/ /\ call.op = "query"
               /\ r = Success(Block(call.class))
               /\ ~(call.class = "ea" /\ file.eas = <<>>)
            \/ /\ call.op = "dir"
               /\ \E k \in 1..MaxEntries :
                    /\ Len(dir) + k <= Len(file.entries)
                    /\ LET part == SubSeq(file.entries, Len(dir) + 1, Len(dir) + k)
                       IN  r = Success(Chained(part, DirentSizes(part)))
            \/ call.op = "dir" /\ ~decode_dirents(r).ok
    PROVE  ListInv'
<1>1. /\ reply' = r /\ call' = call /\ dir' = dir /\ outcome' = outcome /\ file' = file
  BY DEF Answer
<1>2. outcome = None
  BY DEF ListInv, OutcomeInv
<1>3. FileInv' /\ CallInv' /\ DirInv' /\ OutcomeInv'
  BY <1>1 DEF ListInv, FileInv, CallInv, DirInv, OutcomeInv
<1>4. QueryTellsAll' /\ SetIsApplied'
  BY <1>1, <1>2 DEF QueryTellsAll, SetIsApplied, Queried, Succeeded
<1>5. Block(call.class)' = Block(call.class)
  BY <1>1 DEF Block
<1>6. ReplyInv'
  BY <1>1, <1>5 DEF ReplyInv
<1> QED BY <1>3, <1>4, <1>6 DEF ListInv

LEMMA SameAnswers ==
    ASSUME ListInv,
           ServeQuery \/ ServeQueryDir \/ ServeCutDirents \/ ServeNoMoreFiles \/ ServeError
    PROVE  ListInv'
<1>1. CASE ServeQuery
  <2> DEFINE r == Success(Block(call.class))
  <2>1. /\ call # None /\ reply = None /\ call.op = "query" /\ Answer(r) /\ file' = file
        /\ ~(call.class = "ea" /\ file.eas = <<>>)
    BY <1>1 DEF ServeQuery
  <2>2. r.status = "success"
    BY DEF Success
  <2> QED BY <2>1, <2>2, AnswerStep
<1>2. CASE ServeQueryDir
  <2>1. call # None /\ reply = None /\ call.op = "dir" /\ file' = file
    BY <1>2 DEF ServeQueryDir
  <2>2. PICK k \in 1..MaxEntries :
            /\ Len(dir) + k <= Len(file.entries)
            /\ LET part == SubSeq(file.entries, Len(dir) + 1, Len(dir) + k)
               IN  Answer(Success(Chained(part, DirentSizes(part))))
    BY <1>2 DEF ServeQueryDir
  <2> DEFINE part == SubSeq(file.entries, Len(dir) + 1, Len(dir) + k)
             r == Success(Chained(part, DirentSizes(part)))
  <2>3. r.status = "success" /\ Answer(r)
    BY <2>2 DEF Success
  <2>4. \E j \in 1..MaxEntries :
            /\ Len(dir) + j <= Len(file.entries)
            /\ LET p == SubSeq(file.entries, Len(dir) + 1, Len(dir) + j)
               IN  r = Success(Chained(p, DirentSizes(p)))
    BY <2>2
  <2> HIDE DEF r
  <2> QED BY <2>1, <2>3, <2>4, AnswerStep
<1>3. CASE ServeNoMoreFiles
  <2> DEFINE r == [status |-> "no_more_files"]
  <2>1. /\ call # None /\ reply = None /\ call.op = "dir" /\ Answer(r) /\ file' = file
        /\ Len(dir) = Len(file.entries)
    BY <1>3 DEF ServeNoMoreFiles
  <2>2. r.status = "no_more_files"
    OBVIOUS
  <2> HIDE DEF r
  <2> QED BY <2>1, <2>2, AnswerStep
<1>4. CASE ServeError
  <2> DEFINE r == [status |-> "error"]
  <2>1. call # None /\ reply = None /\ Answer(r) /\ file' = file
    BY <1>4 DEF ServeError
  <2>2. r.status = "error"
    OBVIOUS
  <2> HIDE DEF r
  <2> QED BY <2>1, <2>2, AnswerStep
<1>5. CASE ServeCutDirents
  <2>1. call # None /\ reply = None /\ call.op = "dir" /\ file' = file
    BY <1>5 DEF ServeCutDirents
  <2>2. PICK b, len : /\ ~decode_dirents([block |-> b, len |-> len]).ok
                      /\ Answer(Success([block |-> b, len |-> len]))
    BY <1>5 DEF ServeCutDirents
  <2> DEFINE r == Success([block |-> b, len |-> len])
  <2>3. r.status = "success" /\ r.block = b /\ r.len = len
    BY DEF Success
  <2>4. ~decode_dirents(r).ok
    BY <2>2, <2>3 DEF decode_dirents
  <2> HIDE DEF r
  <2> QED BY <2>1, <2>2, <2>3, <2>4, AnswerStep DEF r
<1> QED BY <1>1, <1>2, <1>3, <1>4, <1>5

(* A step of the server that stores what it was sent.                      *)
LEMMA StoreStep ==
    ASSUME ListInv, call # None, reply = None, Answer([status |-> "success"]), FileInv',
           \/ /\ call.op = "set_ea"
              /\ file'.eas = call.asked <=> Len(call.asked) <= 2
           \/ call.op = "rename" /\ file'.name = call.asked /\ NoSlash(call.asked)
           \/ call.op = "set_basic" /\ call.asked \in {0, file'.time}
           \/ call.op = "truncate" /\ file'.size = call.asked
           \/ call.op = "set_security"
    PROVE  ListInv'
<1> DEFINE r == [status |-> "success"]
<1>1. /\ reply' = r /\ call' = call /\ dir' = dir /\ outcome' = outcome
  BY DEF Answer
<1>2. r.status = "success"
  OBVIOUS
<1> HIDE DEF r
<1>3. outcome = None
  BY DEF ListInv, OutcomeInv
<1>4. CallInv' /\ OutcomeInv'
  BY <1>1 DEF ListInv, CallInv, OutcomeInv
<1>5. DirInv'
  BY <1>1 DEF DirInv
<1>6. QueryTellsAll' /\ SetIsApplied'
  BY <1>1, <1>3 DEF QueryTellsAll, SetIsApplied, Queried, Succeeded
<1>7. ReplyInv'
  BY <1>1, <1>2 DEF ReplyInv
<1> QED BY <1>4, <1>5, <1>6, <1>7 DEF ListInv

LEMMA StoreEaStep ==
    ASSUME ListInv, ServeSetEa
    PROVE  ListInv'
<1> DEFINE read == Walk(call.sent.block, call.sent.len)
           stored == [i \in DOMAIN read.list |->
                        [name |-> read.list[i].name, name_len |-> read.list[i].name_len,
                         value_len |-> read.list[i].value_len]]
           asked == call.asked
<1>1. call # None /\ reply = None /\ call.op = "set_ea" /\ Answer([status |-> "success"])
  BY DEF ServeSetEa
<1>2. read.ok /\ file' = [file EXCEPT !.eas = stored]
  BY DEF ServeSetEa
<1>3. asked \in Seq(Eas)
  BY <1>1, ValuesAssumption DEF ListInv, CallInv
<1>4. PICK left \in Leftovers : call.sent = smb2_encode_file_extended_info(asked, left)
  BY <1>1 DEF ListInv, CallInv
<1>5. left \in Nat
  BY BoundsAssumption
<1>6. read.ok = TRUE
  BY <1>2
<1>7. /\ read.list \in Seq(WireEaSpace)
      /\ Len(asked) <= 2 => read.list = WireEas(asked)
      /\ Len(asked) > 2 => Len(read.list) < Len(asked)
  BY <1>3, <1>4, <1>5, <1>6, EncodedIsRead
<1> HIDE DEF read
<1>8. stored \in Seq(Eas) /\ Len(stored) = Len(read.list)
  <2>1. \A i \in 1..Len(read.list) : read.list[i] \in WireEaSpace
    BY <1>7
  <2>2. \A i \in 1..Len(read.list) :
          [name |-> read.list[i].name, name_len |-> read.list[i].name_len,
           value_len |-> read.list[i].value_len] \in Eas
    BY <2>1 DEF WireEaSpace, Eas
  <2>3. DOMAIN read.list = 1..Len(read.list) /\ Len(read.list) \in Nat
    BY <1>7
  <2> QED BY <2>2, <2>3
<1>9. Len(asked) <= 2 => stored = asked
  <2> SUFFICES ASSUME Len(asked) <= 2 PROVE stored = asked
    OBVIOUS
  <2>1. read.list = WireEas(asked) /\ Len(read.list) = Len(asked) /\ DOMAIN read.list = 1..Len(asked)
    BY <1>3, <1>7, WireEasType
  <2>2. ASSUME NEW i \in 1..Len(asked) PROVE stored[i] = asked[i]
    <3>1. asked[i] \in Eas
      BY <1>3
    <3>2. asked[i] = [name |-> asked[i].name, name_len |-> asked[i].name_len,
                      value_len |-> asked[i].value_len]
      BY <3>1 DEF Eas
    <3>3. stored[i] = [name |-> read.list[i].name, name_len |-> read.list[i].name_len,
                       value_len |-> read.list[i].value_len]
      BY <2>1
    <3> QED BY <1>3, <2>1, <3>2, <3>3, WireEasType
  <2> HIDE DEF stored
  <2> QED BY <1>3, <1>8, <2>1, <2>2
<1>10. file'.eas = stored /\ DOMAIN file' = Fields /\ file'.sd = file.sd
       /\ file'.streams = file.streams /\ file'.entries = file.entries
  <2> HIDE DEF stored
  <2> QED BY <1>2, FieldChanged DEF ListInv, FileInv
<1> HIDE DEF stored
<1>11. FileInv'
  BY <1>8, <1>10 DEF ListInv, FileInv
<1>12. file'.eas = call.asked <=> Len(call.asked) <= 2
  BY <1>3, <1>7, <1>8, <1>9, <1>10
<1> QED BY <1>1, <1>11, <1>12, StoreStep

LEMMA StoreSteps ==
    ASSUME ListInv,
           ServeSetEa \/ ServeRename \/ ServeSetFixed \/ ServeSetSecurity
    PROVE  ListInv'
<1>1. CASE ServeSetEa
  BY <1>1, StoreEaStep
<1>2. CASE ServeRename
  <2>1. /\ call # None /\ reply = None /\ call.op = "rename" /\ Answer([status |-> "success"])
        /\ file' = [file EXCEPT !.name = call.sent]
    BY <1>2 DEF ServeRename
  <2>2. call.sent = call.asked /\ call.asked \in Seq(STRING)
    BY <2>1, ValuesAssumption DEF ListInv, CallInv
  <2>3. NoSlash(call.asked)
    BY <1>2, <2>2 DEF ServeRename
  <2>4. FileInv' /\ file'.name = call.asked
    BY <2>1, <2>2, FieldChanged DEF ListInv, FileInv
  <2> QED BY <2>1, <2>3, <2>4, StoreStep
<1>3. CASE ServeSetFixed
  <2>1. call # None /\ reply = None /\ Answer([status |-> "success"])
    BY <1>3 DEF ServeSetFixed
  <2>2. CASE call.op = "set_basic" /\ call.sent = 0 /\ file' = file
    <3>1. call.sent = call.asked
      BY <2>1, <2>2 DEF ListInv, CallInv
    <3>2. FileInv'
      BY <2>2 DEF ListInv, FileInv
    <3> QED BY <2>1, <2>2, <3>1, <3>2, StoreStep
  <2>3. CASE call.op = "set_basic" /\ file' = [file EXCEPT !.time = call.sent]
    <3>1. call.sent = call.asked
      BY <2>1, <2>3 DEF ListInv, CallInv
    <3>2. FileInv' /\ file'.time = call.asked
      BY <2>3, <3>1, FieldChanged DEF ListInv, FileInv
    <3> QED BY <2>1, <2>3, <3>2, StoreStep
  <2>4. CASE call.op = "truncate" /\ file' = [file EXCEPT !.size = call.sent]
    <3>1. call.sent = call.asked
      BY <2>1, <2>4 DEF ListInv, CallInv
    <3>2. FileInv' /\ file'.size = call.asked
      BY <2>4, <3>1, FieldChanged DEF ListInv, FileInv
    <3> QED BY <2>1, <2>4, <3>2, StoreStep
  <2> QED BY <1>3, <2>2, <2>3, <2>4 DEF ServeSetFixed
<1>4. CASE ServeSetSecurity
  <2>1. /\ call # None /\ reply = None /\ call.op = "set_security" /\ Answer([status |-> "success"])
        /\ file' = [file EXCEPT !.stored = call.sent]
    BY <1>4 DEF ServeSetSecurity
  <2>2. FileInv'
    BY <2>1, FieldChanged DEF ListInv, FileInv
  <2> QED BY <2>1, <2>2, StoreStep
<1> QED BY <1>1, <1>2, <1>3, <1>4

-----------------------------------------------------------------------------
(* The replies taken.                                                      *)

(* The end of a call.                                                      *)
LEMMA ReturnStep ==
    ASSUME ListInv, NEW status, NEW value, Return(status, value),
           QueryTellsAll', SetIsApplied'
    PROVE  ListInv'
<1>1. file' = file /\ call' = None /\ reply' = None
  BY DEF Return
<1>2. FileInv' /\ CallInv' /\ ReplyInv' /\ DirInv' /\ OutcomeInv'
  BY <1>1 DEF ListInv, FileInv, CallInv, ReplyInv, DirInv, OutcomeInv
<1> QED BY <1>2 DEF ListInv

(* Of a call that has not succeeded, nothing is said.                      *)
LEMMA FailStep ==
    ASSUME ListInv, NEW status, NEW value, Return(status, value), status # "success"
    PROVE  ListInv'
<1> DEFINE o == [status |-> status, of |-> call, value |-> value]
<1>1. outcome' = o
  BY DEF Return
<1>2. o.status # "success"
  OBVIOUS
<1> HIDE DEF o
<1>3. QueryTellsAll' /\ SetIsApplied'
  BY <1>1, <1>2 DEF QueryTellsAll, SetIsApplied, Queried, Succeeded
<1> QED BY <1>3, ReturnStep

LEMMA QueryReply ==
    ASSUME ListInv, call # None, reply # None, call.op = "query", reply.status = "success"
    PROVE  /\ call.class \in Classes
           /\ reply.block = Block(call.class).block /\ reply.len = Block(call.class).len
           /\ ~(call.class = "ea" /\ file.eas = <<>>)
<1>1. reply = Success(Block(call.class)) /\ ~(call.class = "ea" /\ file.eas = <<>>)
  BY DEF ListInv, ReplyInv
<1>2. call.class \in Classes
  BY DEF ListInv, CallInv
<1> HIDE DEF Block
<1>3. reply.block = Block(call.class).block /\ reply.len = Block(call.class).len
  BY <1>1 DEF Success
<1> QED BY <1>1, <1>2, <1>3

LEMMA TakeQueryStep ==
    ASSUME ListInv, TakeQuery
    PROVE  ListInv'
<1> DEFINE v == Decoded(call.class)
           o == [status |-> "success", of |-> call, value |-> v]
<1>1. /\ call # None /\ reply # None /\ call.op = "query" /\ reply.status = "success"
      /\ call.class # "security" /\ v.ok /\ Return("success", v)
  BY DEF TakeQuery
<1>2. /\ call.class \in Classes
      /\ reply.block = Block(call.class).block /\ reply.len = Block(call.class).len
      /\ ~(call.class = "ea" /\ file.eas = <<>>)
  BY <1>1, QueryReply
<1>3. outcome' = o /\ file' = file
  BY <1>1 DEF Return
<1>4. reply.len # 0
  <2> SUFFICES ASSUME reply.len = 0 PROVE FALSE
    OBVIOUS
  <2>1. v = [ok |-> FALSE]
    BY DEF Decoded
  <2> QED BY <1>1, <2>1
<1>5. o.status = "success" /\ o.of = call /\ o.value = v
  OBVIOUS
<1>6. FileInv
  BY DEF ListInv
<1>7. CASE call.class = "ea"
  <2>1. v = smb2_decode_file_extended_info(reply)
    BY <1>4, <1>7 DEF Decoded
  <2>2. Block(call.class) = Chained(WireEas(file.eas), EaSizes(file.eas))
    BY <1>7 DEF Block
  <2>3. file.eas \in Seq(Eas) /\ file.eas # <<>>
    BY <1>2, <1>6, <1>7 DEF FileInv
  <2>4. /\ NamesOf(v.list) = NamesOf(file.eas)
        /\ \A i \in DOMAIN file.eas : v.list[i].whole <=> file.eas[i].value_len = 0
    BY <1>2, <2>1, <2>2, <2>3, EasAreRead
  <2> HIDE DEF o, v
  <2>5. QueryTellsAll'
    BY <1>1, <1>3, <1>5, <1>7, <2>4 DEF QueryTellsAll, Queried, Succeeded, FixedClasses, NamesOf
  <2>6. SetIsApplied'
    BY <1>1, <1>3, <1>5 DEF SetIsApplied, Succeeded
  <2> QED BY <1>1, <2>5, <2>6, ReturnStep DEF v
<1>8. CASE call.class = "stream"
  <2>1. v = smb2_decode_file_stream_info(reply)
    BY <1>4, <1>8 DEF Decoded
  <2>2. Block(call.class) = Chained(file.streams, StreamSizes(file.streams))
    BY <1>8 DEF Block
  <2>3. file.streams \in Seq(Streams)
    BY <1>6 DEF FileInv
  <2>4. file.streams # <<>>
    <3> SUFFICES ASSUME file.streams = <<>> PROVE FALSE
      OBVIOUS
    <3>1. Len(file.streams) = 0
      OBVIOUS
    <3>2. StreamSizes(file.streams) \in Seq(Nat \ {0}) /\ Len(StreamSizes(file.streams)) = 0
      BY <2>3, <3>1, StreamSizesType
    <3>3. Chained(file.streams, StreamSizes(file.streams)).len = 0
      BY <3>1, <3>2, NothingChained
    <3> QED BY <1>2, <1>4, <2>2, <3>3
  <2>5. /\ NamesOf(v.list) = NamesOf(file.streams)
        /\ \A i \in DOMAIN file.streams :
              v.list[i].whole <=> file.streams[i].bytes = file.streams[i].units
    BY <1>2, <2>1, <2>2, <2>3, <2>4, StreamsAreRead
  <2> HIDE DEF o, v
  <2>6. QueryTellsAll'
    BY <1>1, <1>3, <1>5, <1>8, <2>5 DEF QueryTellsAll, Queried, Succeeded, FixedClasses, NamesOf
  <2>7. SetIsApplied'
    BY <1>1, <1>3, <1>5 DEF SetIsApplied, Succeeded
  <2> QED BY <1>1, <2>6, <2>7, ReturnStep DEF v
<1>9. CASE call.class \in FixedClasses
  <2>1. call.class \notin {"ea", "stream", "security"}
    BY <1>9 DEF FixedClasses
  <2>2. v = [ok |-> reply.len >= Needed(call.class), value |-> reply.block]
    BY <1>4, <2>1 DEF Decoded
  <2>3. Block(call.class) = [block |-> <<file.time, file.size>>, len |-> WireLength[call.class]]
    BY <2>1 DEF Block
  <2>4. v.value = reply.block
    BY <2>2
  <2>5. reply.block = <<file.time, file.size>>
    BY <1>2, <2>3
  <2> HIDE DEF o, v
  <2>6. QueryTellsAll'
    BY <1>1, <1>3, <1>5, <2>1, <2>4, <2>5 DEF QueryTellsAll, Queried, Succeeded
  <2>7. SetIsApplied'
    BY <1>1, <1>3, <1>5 DEF SetIsApplied, Succeeded
  <2> QED BY <1>1, <2>6, <2>7, ReturnStep DEF v
<1> QED BY <1>1, <1>2, <1>7, <1>8, <1>9 DEF Classes

LEMMA TakeSecurityStep ==
    ASSUME ListInv, TakeSecurity
    PROVE  ListInv'
<1>1. call # None /\ call.op = "query" /\ call.class = "security"
  BY DEF TakeSecurity
<1>2. PICK status, value : Return(status, value)
  BY DEF TakeSecurity
<1> DEFINE o == [status |-> status, of |-> call, value |-> value]
<1>3. outcome' = o /\ file' = file
  BY <1>2 DEF Return
<1>4. o.of = call
  OBVIOUS
<1> HIDE DEF o
<1>5. QueryTellsAll'
  BY <1>1, <1>3, <1>4 DEF QueryTellsAll, Queried, Succeeded, FixedClasses
<1>6. SetIsApplied'
  BY <1>1, <1>3, <1>4 DEF SetIsApplied, Succeeded
<1> QED BY <1>2, <1>5, <1>6, ReturnStep

LEMMA TakeSetStep ==
    ASSUME ListInv, TakeSet
    PROVE  ListInv'
<1> DEFINE o == [status |-> reply.status, of |-> call, value |-> None]
<1>1. /\ call # None /\ reply # None
      /\ call.op \in {"set_ea", "rename", "set_basic", "truncate", "set_security"}
      /\ Return(reply.status, None)
  BY DEF TakeSet
<1>2. outcome' = o /\ file' = file
  BY <1>1 DEF Return
<1>3. o.of = call /\ o.status = reply.status
  OBVIOUS
<1> HIDE DEF o
<1>4. QueryTellsAll'
  BY <1>1, <1>2, <1>3 DEF QueryTellsAll, Queried, Succeeded
<1>5. SetIsApplied'
  BY <1>1, <1>2, <1>3 DEF SetIsApplied, Succeeded, ListInv, ReplyInv
<1> QED BY <1>1, <1>4, <1>5, ReturnStep

LEMMA NamesJoined ==
    ASSUME NEW entries \in Seq(Entries), NEW n \in Nat, NEW k \in Nat, n + k <= Len(entries)
    PROVE  NamesOf(SubSeq(entries, 1, n)) \o NamesOf(SubSeq(entries, n + 1, n + k))
             = NamesOf(SubSeq(entries, 1, n + k))
<1> DEFINE a == NamesOf(SubSeq(entries, 1, n))
           b == NamesOf(SubSeq(entries, n + 1, n + k))
           c == NamesOf(SubSeq(entries, 1, n + k))
<1>1. \A i \in 1..Len(entries) : entries[i].name \in Labels
  <2>1. \A i \in 1..Len(entries) : entries[i] \in Entries
    OBVIOUS
  <2> QED BY <2>1 DEF Entries
<1>2. a \in Seq(Labels) /\ Len(a) = n /\ \A i \in 1..n : a[i] = entries[i].name
  BY <1>1 DEF NamesOf
<1>3. b \in Seq(Labels) /\ Len(b) = k /\ \A i \in 1..k : b[i] = entries[n + i].name
  <2> DEFINE s == SubSeq(entries, n + 1, n + k)
  <2>1. s \in Seq(Entries) /\ Len(s) = k /\ \A i \in 1..k : s[i] = entries[n + i]
    <3>1. s \in Seq(Entries)
      OBVIOUS
    <3>2. Len(s) = k
      OBVIOUS
    <3>3. ASSUME NEW i \in 1..k PROVE s[i] = entries[n + i]
      OBVIOUS
    <3> QED BY <3>1, <3>2, <3>3
  <2>2. \A i \in 1..k : n + i \in 1..Len(entries)
    OBVIOUS
  <2> HIDE DEF s
  <2>3. b = [i \in 1..k |-> s[i].name]
    BY <2>1 DEF NamesOf, s
  <2>4. \A i \in 1..k : s[i].name \in Labels /\ s[i].name = entries[n + i].name
    BY <1>1, <2>1, <2>2
  <2> HIDE DEF b
  <2>5. b \in Seq(Labels) /\ Len(b) = k
    BY <2>3, <2>4
  <2> QED BY <2>3, <2>4, <2>5
<1>4. c \in Seq(Labels) /\ Len(c) = n + k /\ \A i \in 1..(n + k) : c[i] = entries[i].name
  BY <1>1 DEF NamesOf
<1> HIDE DEF a, b, c
<1> DEFINE d == a \o b
<1>5. d \in Seq(Labels) /\ Len(d) = n + k
  <2>1. a \in Seq(Labels) /\ Len(a) = n /\ b \in Seq(Labels) /\ Len(b) = k
    BY <1>2, <1>3
  <2> QED BY <2>1
<1>6. \A i \in 1..(n + k) : d[i] = entries[i].name
  <2> SUFFICES ASSUME NEW i \in 1..(n + k) PROVE d[i] = entries[i].name
    OBVIOUS
  <2>1. CASE i <= n
    BY <1>2, <1>3, <2>1
  <2>2. CASE i > n
    <3>1. i - n \in 1..k /\ n + (i - n) = i
      BY <2>2
    <3>2. d[i] = b[i - n]
      <4>1. a \in Seq(Labels) /\ Len(a) = n /\ b \in Seq(Labels) /\ Len(b) = k
        BY <1>2, <1>3
      <4>2. \A j \in 1..Len(b) : (a \o b)[Len(a) + j] = b[j]
        BY <4>1
      <4>3. d[n + (i - n)] = b[i - n]
        BY <3>1, <4>1, <4>2
      <4> QED BY <3>1, <4>3
    <3>3. \A j \in 1..k : n + j = i => b[j] = entries[i].name
      BY <1>3
    <3>4. b[i - n] = entries[i].name
      BY <3>1, <3>3
    <3> QED BY <3>2, <3>4
  <2> HIDE DEF d
  <2> QED BY <2>1, <2>2
<1> HIDE DEF d
<1>7. d = c
  BY <1>4, <1>5, <1>6
<1> QED BY <1>7 DEF a, b, c, d

LEMMA TakeDirentsStep ==
    ASSUME ListInv, TakeDirents
    PROVE  ListInv'
<1>1. /\ call # None /\ reply # None /\ call.op = "dir" /\ reply.status = "success"
      /\ decode_dirents(reply).ok
      /\ dir' = dir \o decode_dirents(reply).list /\ reply' = None
      /\ file' = file /\ call' = call /\ outcome' = outcome
  BY DEF TakeDirents
<1>2. PICK k \in 1..MaxEntries :
        /\ Len(dir) + k <= Len(file.entries)
        /\ LET part == SubSeq(file.entries, Len(dir) + 1, Len(dir) + k)
           IN  reply = Success(Chained(part, DirentSizes(part)))
  BY <1>1 DEF ListInv, ReplyInv
<1>3. /\ file.entries \in Seq(Entries) /\ dir \in Seq(Labels)
      /\ dir = NamesOf(SubSeq(file.entries, 1, Len(dir)))
  BY <1>1 DEF ListInv, FileInv, DirInv
<1>4. Len(dir) \in Nat /\ k \in Nat /\ k > 0 /\ Len(file.entries) \in Nat
  BY <1>3, BoundsAssumption
<1> DEFINE part == SubSeq(file.entries, Len(dir) + 1, Len(dir) + k)
           b == Chained(part, DirentSizes(part))
<1>5. part \in Seq(Entries) /\ part # <<>>
  <2>1. part \in Seq(Entries) /\ Len(part) = k
    BY <1>2, <1>3, <1>4
  <2> HIDE DEF part
  <2> QED BY <1>4, <2>1
<1>6. reply.block = b.block /\ reply.len = b.len
  <2> HIDE DEF b
  <2> QED BY <1>2 DEF Success, b
<1>7. decode_dirents(reply).list = NamesOf(part)
  BY <1>5, <1>6, DirentsAreRead
<1>8. dir' = NamesOf(SubSeq(file.entries, 1, Len(dir) + k))
  <2>1. dir' = NamesOf(SubSeq(file.entries, 1, Len(dir))) \o NamesOf(part)
    BY <1>1, <1>3, <1>7
  <2> QED BY <1>2, <1>3, <1>4, <2>1, NamesJoined
<1>9. dir' \in Seq(Labels) /\ Len(dir') = Len(dir) + k
  <2> DEFINE s == SubSeq(file.entries, 1, Len(dir) + k)
  <2>1. s \in Seq(Entries) /\ Len(s) = Len(dir) + k
    BY <1>2, <1>3, <1>4
  <2> HIDE DEF s
  <2>2. \A i \in 1..Len(s) : s[i] \in Entries
    BY <2>1
  <2>3. \A i \in 1..Len(s) : s[i].name \in Labels
    BY <2>2 DEF Entries
  <2>4. NamesOf(s) \in Seq(Labels) /\ Len(NamesOf(s)) = Len(s)
    BY <2>1, <2>3 DEF NamesOf
  <2> QED BY <1>8, <2>1, <2>4 DEF s
<1>10. DirInv'
  BY <1>1, <1>2, <1>8, <1>9 DEF DirInv
<1>11. FileInv' /\ CallInv' /\ ReplyInv' /\ OutcomeInv'
  BY <1>1 DEF ListInv, FileInv, CallInv, ReplyInv, OutcomeInv
<1>12. QueryTellsAll' /\ SetIsApplied'
  BY <1>1 DEF ListInv, OutcomeInv, QueryTellsAll, SetIsApplied, Queried, Succeeded
<1> QED BY <1>10, <1>11, <1>12 DEF ListInv

LEMMA TakeNoMoreFilesStep ==
    ASSUME ListInv, TakeNoMoreFiles
    PROVE  ListInv'
<1> DEFINE o == [status |-> "success", of |-> call, value |-> dir]
<1>1. call # None /\ reply # None /\ reply.status = "no_more_files" /\ Return("success", dir)
  BY DEF TakeNoMoreFiles
<1>2. call.op = "dir" /\ Len(dir) = Len(file.entries)
  BY <1>1 DEF ListInv, ReplyInv
<1>3. file.entries \in Seq(Entries) /\ dir = NamesOf(SubSeq(file.entries, 1, Len(dir)))
  BY <1>1, <1>2 DEF ListInv, FileInv, DirInv
<1>4. SubSeq(file.entries, 1, Len(dir)) = file.entries
  BY <1>2, <1>3
<1>5. dir = NamesOf(file.entries)
  BY <1>3, <1>4
<1>6. outcome' = o /\ file' = file
  BY <1>1 DEF Return
<1>7. o.of = call /\ o.value = dir
  OBVIOUS
<1> HIDE DEF o
<1>8. QueryTellsAll'
  BY <1>2, <1>5, <1>6, <1>7 DEF QueryTellsAll, Queried, Succeeded, NamesOf
<1>9. SetIsApplied'
  BY <1>2, <1>6, <1>7 DEF SetIsApplied, Succeeded
<1> QED BY <1>1, <1>8, <1>9, ReturnStep

(* One step per action.                                                    *)
LEMMA ListStep == ListInv /\ [Next]_vars => ListInv'
<1> SUFFICES ASSUME ListInv, [Next]_vars PROVE ListInv'
  OBVIOUS
<1>1. CASE GetInfo \/ SetinfoExtended \/ Rename \/ SetinfoBasic \/ Truncate \/ SetSecurity
             \/ SetSecurityRefused \/ QueryDir
  BY <1>1, CallSteps
<1>2. CASE ServeQuery \/ ServeQueryDir \/ ServeCutDirents \/ ServeNoMoreFiles \/ ServeError
  BY <1>2, SameAnswers
<1>3. CASE ServeSetEa \/ ServeRename \/ ServeSetFixed \/ ServeSetSecurity
  BY <1>3, StoreSteps
<1>4. CASE TakeUndecodable
  BY <1>4, FailStep DEF TakeUndecodable
<1>5. CASE TakeQuery
  BY <1>5, TakeQueryStep
<1>6. CASE TakeSecurity
  BY <1>6, TakeSecurityStep
<1>7. CASE TakeSet
  BY <1>7, TakeSetStep
<1>8. CASE TakeDirents
  BY <1>8, TakeDirentsStep
<1>9. CASE TakeNoMoreFiles
  BY <1>9, TakeNoMoreFilesStep
<1>10. CASE TakeError
  BY <1>10, FailStep DEF TakeError
<1>12. CASE TakeMalformedDirents
  BY <1>12, FailStep DEF TakeMalformedDirents
<1>11. CASE UNCHANGED vars
  <2>1. file' = file /\ call' = call /\ reply' = reply /\ dir' = dir /\ outcome' = outcome
    BY <1>11 DEF vars
  <2>2. FileInv' /\ CallInv' /\ DirInv' /\ OutcomeInv'
    BY <2>1 DEF ListInv, FileInv, CallInv, DirInv, OutcomeInv
  <2>3. ReplyInv'
    BY <2>1 DEF ListInv, ReplyInv, Block
  <2>4. QueryTellsAll' /\ SetIsApplied'
    BY <2>1 DEF ListInv, QueryTellsAll, SetIsApplied, Queried, Succeeded
  <2> QED BY <2>2, <2>3, <2>4 DEF ListInv
<1> QED BY <1>1, <1>2, <1>3, <1>4, <1>5, <1>6, <1>7, <1>8, <1>9, <1>10, <1>11, <1>12
       DEF Next

(* The inductive invariant of the lists: at every step the request carries *)
(* what was asked, the reply what the server holds, and a listing under    *)
(* way the first names of the directory (Smb2QueryDir::                    *)
(* smb2ProcessReplyAndAppData).                                            *)
THEOREM ListsHold == Spec => []ListInv
  BY ListInit, ListStep, PTL DEF Spec

(* A query that succeeds delivers the server's list complete and in order: *)
(* the loops of smb2_decode_file_extended_info,                            *)
(* smb2_decode_file_stream_info and decode_dirents skip no entry and read  *)
(* none twice, for lists of any length and however a directory is cut into *)
(* replies; and exactly the values and names they damage are told apart.   *)
THEOREM QueryTellsAllHolds == Spec => []QueryTellsAll
<1>1. ListInv => QueryTellsAll
  BY DEF ListInv
<1> QED BY <1>1, ListsHold, PTL

(* What smb2_setinfo_*, smb2_rename and smb2_truncate report as done is    *)
(* done as it was asked, except that smb2_encode_file_extended_info chains *)
(* a list of more than two attributes so that the server never reads some  *)
(* of them, whatever the uninitialised last offset holds; and no rename to *)
(* a name with a '/' is ever done, since nobody converts it.               *)
THEOREM SetIsAppliedHolds == Spec => []SetIsApplied
<1>1. ListInv => SetIsApplied
  BY DEF ListInv
<1> QED BY <1>1, ListsHold, PTL

-----------------------------------------------------------------------------
(* Blocks of 16-bit units.                                                 *)

(* The units from position p + 1 on are those of s.                        *)
Holds(buf, p, s) == \A i \in 1..Len(s) : buf[p + i] = s[i]

(* The n units from there on.                                              *)
Slice(buf, p, n) == [i \in 1..n |-> buf[p + i]]

(* An iovec that starts at position p.                                     *)
Vec(buf, p, l) == [buf |-> buf, at |-> 2 * p, len |-> l]

LEMMA HoldsItself == \A s \in Seq(Nat) : Holds(s, 0, s)
  BY DEF Holds

LEMMA SeqIsFunction ==
    ASSUME NEW s \in Seq(Nat), NEW n \in Nat, Len(s) = n
    PROVE  s = [i \in 1..n |-> s[i]]
  OBVIOUS

LEMMA FunctionIsSeq ==
    ASSUME NEW g, NEW n \in Nat, g = [i \in 1..n |-> g[i]], \A i \in 1..n : g[i] \in Nat
    PROVE  g \in Seq(Nat) /\ Len(g) = n
  OBVIOUS

LEMMA Joined ==
    ASSUME NEW s \in Seq(Nat), NEW t \in Seq(Nat)
    PROVE  s \o t \in Seq(Nat) /\ Len(s \o t) = Len(s) + Len(t)
  OBVIOUS

LEMMA JoinedElements ==
    ASSUME NEW s \in Seq(Nat), NEW t \in Seq(Nat)
    PROVE  /\ \A i \in 1..Len(s) : (s \o t)[i] = s[i]
           /\ \A i \in 1..Len(t) : (s \o t)[Len(s) + i] = t[i]
  OBVIOUS

LEMMA HoldsParts ==
    ASSUME NEW s \in Seq(Nat), NEW t \in Seq(Nat), NEW p \in Nat, NEW buf, Holds(buf, p, s \o t)
    PROVE  Holds(buf, p, s) /\ Holds(buf, p + Len(s), t)
<1> DEFINE st == s \o t
<1>1. /\ st \in Seq(Nat) /\ Len(st) = Len(s) + Len(t) /\ Len(s) \in Nat /\ Len(t) \in Nat
      /\ \A i \in 1..Len(s) : st[i] = s[i]
      /\ \A i \in 1..Len(t) : st[Len(s) + i] = t[i]
  OBVIOUS
<1> HIDE DEF st
<1>2. \A i \in 1..(Len(s) + Len(t)) : buf[p + i] = st[i]
  BY <1>1 DEF Holds, st
<1>3. Holds(buf, p, s)
  BY <1>1, <1>2 DEF Holds
<1>4. ASSUME NEW i \in 1..Len(t) PROVE buf[p + Len(s) + i] = t[i]
  <2>1. Len(s) + i \in 1..(Len(s) + Len(t)) /\ p + (Len(s) + i) = p + Len(s) + i
    BY <1>1
  <2>2. buf[p + (Len(s) + i)] = st[Len(s) + i]
    BY <1>2, <2>1
  <2> QED BY <1>1, <2>1, <2>2
<1> QED BY <1>3, <1>4 DEF Holds

LEMMA Set32Units ==
    ASSUME NEW n \in Nat
    PROVE  /\ Set32(n) \in Seq(Nat) /\ Len(Set32(n)) = 2
           /\ Set32(n)[1] \in Nat /\ Set32(n)[2] \in Nat
           /\ Set32(n)[1] + Base * Set32(n)[2] = n
<1>1. n % Base \in Nat /\ n \div Base \in Nat /\ (n % Base) + Base * (n \div Base) = n
  BY DEF Base
<1> QED BY <1>1 DEF Set32

(* Reading at the offsets the decoders use.                                *)
LEMMA VecGet ==
    ASSUME NEW buf, NEW p \in Nat, NEW l
    PROVE  LET v == Vec(buf, p, l)
           IN  /\ Get16(v, 0) = buf[p + 1]
               /\ Get16(v, 2) = buf[p + 2]
               /\ Get16(v, 4) = buf[p + 3]
               /\ Get32(v, 0) = buf[p + 1] + Base * buf[p + 2]
               /\ Get32(v, 4) = buf[p + 3] + Base * buf[p + 4]
               /\ Get32(v, 8) = buf[p + 5] + Base * buf[p + 6]
               /\ Get32(v, 16) = buf[p + 9] + Base * buf[p + 10]
               /\ v.len = l
<1>1. /\ (2 * p + 0) \div 2 + 1 = p + 1 /\ (2 * p + 2) \div 2 + 1 = p + 2
      /\ (2 * p + 4) \div 2 + 1 = p + 3 /\ (2 * p + 6) \div 2 + 1 = p + 4
      /\ (2 * p + 8) \div 2 + 1 = p + 5 /\ (2 * p + 10) \div 2 + 1 = p + 6
      /\ (2 * p + 16) \div 2 + 1 = p + 9 /\ (2 * p + 18) \div 2 + 1 = p + 10
  OBVIOUS
<1> QED BY <1>1 DEF Get16, Get32, Vec

LEMMA VecWord ==
    ASSUME NEW buf, NEW p \in Nat, NEW l, NEW i \in Nat \ {0}
    PROVE  Get32(Vec(buf, p, l), 8 + 4 * (i - 1)) =
             buf[p + 4 + (2 * i - 1)] + Base * buf[p + 4 + 2 * i]
<1>1. /\ (2 * p + (8 + 4 * (i - 1))) \div 2 + 1 = p + 4 + (2 * i - 1)
      /\ (2 * p + (8 + 4 * (i - 1) + 2)) \div 2 + 1 = p + 4 + 2 * i
  OBVIOUS
<1> QED BY <1>1 DEF Get16, Get32, Vec

LEMMA VecCopy ==
    ASSUME NEW buf, NEW p \in Nat, NEW l
    PROVE  /\ Copy(Vec(buf, p, l), 2, 6) = [i \in 1..3 |-> buf[p + 1 + i]]
           /\ Copy(Vec(buf, p, l), 4, 36) = [i \in 1..18 |-> buf[p + 2 + i]]
<1>1. /\ (2 * p + 2) \div 2 = p + 1 /\ (2 * p + 4) \div 2 = p + 2
      /\ 6 \div 2 = 3 /\ 36 \div 2 = 18
  OBVIOUS
<1> QED BY <1>1 DEF Copy, Vec

(* An iovec of n units.                                                    *)
UnitVec(buf, p, n) == Vec(buf, p, 2 * n)

LEMMA VecCopyAll ==
    ASSUME NEW buf, NEW p \in Nat, NEW n \in Nat
    PROVE  LET v == UnitVec(buf, p, n)
           IN  Copy(v, 0, v.len) = Slice(buf, p, n)
<1>1. (2 * p + 0) \div 2 = p /\ (2 * n) \div 2 = n
  OBVIOUS
<1> QED BY <1>1 DEF Copy, Slice, UnitVec, Vec

LEMMA VecCopyRest ==
    ASSUME NEW buf, NEW p \in Nat, NEW n \in Nat
    PROVE  LET v == UnitVec(buf, p, n)
           IN  Copy(v, 4, v.len - 4) = Slice(buf, p + 2, n - 2)
<1>1. (2 * p + 4) \div 2 = p + 2 /\ (2 * n - 4) \div 2 = n - 2
  OBVIOUS
<1> QED BY <1>1 DEF Copy, Slice, UnitVec, Vec

LEMMA VecSkip ==
    ASSUME NEW buf, NEW p \in Nat, NEW l \in Int
    PROVE  /\ Skip(Vec(buf, p, l), 4) = Vec(buf, p + 2, l - 4)
           /\ Skip(Vec(buf, p, l), 8) = Vec(buf, p + 4, l - 8)
           /\ Skip(Vec(buf, p, l), 40) = Vec(buf, p + 20, l - 40)
           /\ \A k \in Nat : Skip(Vec(buf, p, l), 2 * k) = Vec(buf, p + k, l - 2 * k)
<1>1. /\ 2 * p + 4 = 2 * (p + 2) /\ 2 * p + 8 = 2 * (p + 4) /\ 2 * p + 40 = 2 * (p + 20)
      /\ \A k \in Nat : 2 * p + 2 * k = 2 * (p + k)
  OBVIOUS
<1> QED BY <1>1 DEF Skip, Vec, Iovec

-----------------------------------------------------------------------------
(* SIDs.                                                                   *)

LEMMA SidFields ==
    ASSUME NEW sid \in Sids
    PROVE  /\ sid.sub_auth_count \in Nat /\ sid.sub_auth_count > 0
           /\ sid.id_auth \in Seq(Nat) /\ Len(sid.id_auth) = 3
           /\ sid.sub_auth \in Seq(Nat) /\ Len(sid.sub_auth) = sid.sub_auth_count
           /\ sid = [sub_auth_count |-> sid.sub_auth_count, id_auth |-> sid.id_auth,
                     sub_auth |-> sid.sub_auth]
           /\ sid # None /\ sid # Bad
           /\ SidSize(sid) \in Nat /\ SidSize(sid) = 8 + 4 * sid.sub_auth_count
<1>1. /\ sid.sub_auth_count \in Nat /\ sid.sub_auth_count > 0
      /\ sid.id_auth \in Seq(Nat) /\ Len(sid.id_auth) = 3
      /\ sid.sub_auth \in Seq(Nat) /\ Len(sid.sub_auth) = sid.sub_auth_count
  BY DEF Sids
<1>2. sid = [sub_auth_count |-> sid.sub_auth_count, id_auth |-> sid.id_auth, sub_auth |-> sid.sub_auth]
  BY DEF Sids
<1>3. sid # None /\ sid # Bad
  BY <1>2 DEF None, Bad
<1> QED BY <1>1, <1>2, <1>3 DEF SidSize

LEMMA SubUnitsAre ==
    ASSUME NEW sid \in Sids
    PROVE  /\ SubUnits(sid) \in Seq(Nat) /\ Len(SubUnits(sid)) = 2 * sid.sub_auth_count
           /\ \A i \in 1..sid.sub_auth_count :
                SubUnits(sid)[2 * i - 1] + Base * SubUnits(sid)[2 * i] = sid.sub_auth[i]
<1> DEFINE c == sid.sub_auth_count
           sub == sid.sub_auth
<1>1. c \in Nat /\ sub \in Seq(Nat) /\ Len(sub) = c
  BY SidFields
<1> HIDE DEF c, sub
<1>2. SubUnits(sid) = [i \in 1..(2 * c) |-> Set32(sub[(i + 1) \div 2])[((i + 1) % 2) + 1]]
  BY DEF SubUnits, c, sub
<1>3. ASSUME NEW i \in 1..(2 * c)
      PROVE  Set32(sub[(i + 1) \div 2])[((i + 1) % 2) + 1] \in Nat
  <2>1. (i + 1) \div 2 \in 1..c /\ (((i + 1) % 2) + 1 = 1 \/ ((i + 1) % 2) + 1 = 2)
    BY <1>1
  <2>2. PICK x \in Nat : x = sub[(i + 1) \div 2]
    BY <1>1, <2>1
  <2>3. Set32(x)[1] \in Nat /\ Set32(x)[2] \in Nat
    BY <2>2, Set32Units
  <2> HIDE DEF Set32
  <2> QED BY <2>1, <2>2, <2>3
<1>4. SubUnits(sid) \in Seq(Nat) /\ Len(SubUnits(sid)) = 2 * c
  <2>1. \A i \in 1..(2 * c) : Set32(sub[(i + 1) \div 2])[((i + 1) % 2) + 1] \in Nat
    BY <1>3
  <2>2. PICK g : g = [i \in 1..(2 * c) |-> Set32(sub[(i + 1) \div 2])[((i + 1) % 2) + 1]]
    OBVIOUS
  <2>3. \A i \in 1..(2 * c) : g[i] \in Nat
    BY <2>1, <2>2
  <2>4. g = [i \in 1..(2 * c) |-> g[i]]
    BY <2>2
  <2>5. g \in Seq(Nat) /\ Len(g) = 2 * c
    <3>1. 2 * c \in Nat
      BY <1>1
    <3> QED BY <2>3, <2>4, <3>1, FunctionIsSeq
  <2> QED BY <1>2, <2>2, <2>5
<1>5. ASSUME NEW i \in 1..c
      PROVE  SubUnits(sid)[2 * i - 1] + Base * SubUnits(sid)[2 * i] = sub[i]
  <2>1. /\ 2 * i - 1 \in 1..(2 * c) /\ 2 * i \in 1..(2 * c)
        /\ ((2 * i - 1) + 1) \div 2 = i /\ (((2 * i - 1) + 1) % 2) + 1 = 1
        /\ ((2 * i) + 1) \div 2 = i /\ (((2 * i) + 1) % 2) + 1 = 2
    BY <1>1
  <2>2. sub[i] \in Nat
    BY <1>1
  <2>3. SubUnits(sid)[2 * i - 1] = Set32(sub[i])[1]
    BY <1>2, <2>1
  <2>4. SubUnits(sid)[2 * i] = Set32(sub[i])[2]
    BY <1>2, <2>1
  <2> QED BY <2>2, <2>3, <2>4, Set32Units
<1> QED BY <1>4, <1>5 DEF c, sub

LEMMA SidUnitsAre ==
    ASSUME NEW sid \in Sids
    PROVE  /\ SidUnits(sid) = (<<1 + 256 * sid.sub_auth_count>> \o sid.id_auth) \o SubUnits(sid)
           /\ SidUnits(sid) \in Seq(Nat)
           /\ Len(SidUnits(sid)) = 4 + 2 * sid.sub_auth_count
           /\ Bytes(SidUnits(sid)) = SidSize(sid)
           /\ SidUnits(sid) # <<>>
<1> DEFINE a == <<1 + 256 * sid.sub_auth_count>>
           b == a \o sid.id_auth
           c == b \o SubUnits(sid)
<1>1. SidUnits(sid) = c
  <2>1. ~(SidSize(sid) < SidSize(sid))
    BY SidFields
  <2> HIDE DEF SidSize
  <2> QED BY <2>1 DEF SidUnits, encode_sid, Wrote
<1>2. sid.id_auth \in Seq(Nat) /\ Len(sid.id_auth) = 3
  BY SidFields
<1>3. SubUnits(sid) \in Seq(Nat) /\ Len(SubUnits(sid)) = 2 * sid.sub_auth_count
  BY SubUnitsAre
<1>4. a \in Seq(Nat) /\ Len(a) = 1
  BY SidFields
<1>5. b \in Seq(Nat) /\ Len(b) = 4
  <2> HIDE DEF a
  <2>1. b \in Seq(Nat) /\ Len(b) = Len(a) + Len(sid.id_auth)
    BY <1>2, <1>4, Joined
  <2> QED BY <1>2, <1>4, <2>1
<1>6. c \in Seq(Nat) /\ Len(c) = 4 + 2 * sid.sub_auth_count
  <2> HIDE DEF b
  <2>1. c \in Seq(Nat) /\ Len(c) = Len(b) + Len(SubUnits(sid))
    BY <1>3, <1>5, Joined
  <2> QED BY <1>3, <1>5, <2>1
<1> HIDE DEF c
<1>7. c # <<>>
  BY <1>6, SidFields
<1>8. Bytes(c) = SidSize(sid)
  BY <1>6, SidFields DEF Bytes
<1> QED BY <1>1, <1>6, <1>7, <1>8 DEF c

(* A SID in a block is decoded as the server means it.                     *)
LEMMA SidIsDecoded ==
    ASSUME NEW sid \in Sids, NEW buf, NEW p \in Nat, Holds(buf, p, SidUnits(sid)),
           NEW l \in Int, l >= SidSize(sid)
    PROVE  decode_sid(Vec(buf, p, l)) = sid
<1> DEFINE c == sid.sub_auth_count
           v == Vec(buf, p, l)
           a == <<1 + 256 * c>>
           sub == SubUnits(sid)
<1>1. c \in Nat /\ l >= 8 + 4 * c
  BY SidFields
<1>2. a \in Seq(Nat) /\ Len(a) = 1 /\ a[1] = 1 + 256 * c
  BY <1>1
<1>3. sid.id_auth \in Seq(Nat) /\ Len(sid.id_auth) = 3
  BY SidFields
<1>4. sub \in Seq(Nat) /\ Len(sub) = 2 * c
      /\ \A i \in 1..c : sub[2 * i - 1] + Base * sub[2 * i] = sid.sub_auth[i]
  BY SubUnitsAre
<1>5. SidUnits(sid) = (a \o sid.id_auth) \o sub
  BY SidUnitsAre
<1> HIDE DEF sub, a, c
<1>6. a \o sid.id_auth \in Seq(Nat) /\ Len(a \o sid.id_auth) = 4
  <2>1. a \o sid.id_auth \in Seq(Nat) /\ Len(a \o sid.id_auth) = Len(a) + Len(sid.id_auth)
    <3>1. PICK x \in Seq(Nat), y \in Seq(Nat) : x = a /\ y = sid.id_auth
      BY <1>2, <1>3
    <3> QED BY <3>1, Joined
  <2> QED BY <1>2, <1>3, <2>1
<1>7. Holds(buf, p, a \o sid.id_auth) /\ Holds(buf, p + 4, sub)
  <2> DEFINE ai == a \o sid.id_auth
  <2>1. ai \in Seq(Nat) /\ Len(ai) = 4 /\ Holds(buf, p, ai \o sub)
    BY <1>5, <1>6
  <2> HIDE DEF ai
  <2>2. Holds(buf, p, ai) /\ Holds(buf, p + 4, sub)
    BY <1>4, <2>1, HoldsParts
  <2> QED BY <2>2 DEF ai
<1>8. Holds(buf, p, a) /\ Holds(buf, p + 1, sid.id_auth)
  BY <1>2, <1>3, <1>7, HoldsParts
<1>9. Get16(v, 0) = 1 + 256 * c
  <2>1. Get16(v, 0) = buf[p + 1]
    BY VecGet
  <2>2. buf[p + 1] = 1 + 256 * c
    BY <1>2, <1>8 DEF Holds
  <2> QED BY <2>1, <2>2
<1>10. (1 + 256 * c) \div 256 = c /\ (1 + 256 * c) % 256 = 1
  BY <1>1
<1>11. Copy(v, 2, 6) = sid.id_auth
  <2>1. Copy(v, 2, 6) = [i \in 1..3 |-> buf[p + 1 + i]]
    BY VecCopy
  <2>2. \A i \in 1..3 : buf[p + 1 + i] = sid.id_auth[i]
    BY <1>3, <1>8 DEF Holds
  <2>3. sid.id_auth = [i \in 1..3 |-> sid.id_auth[i]]
    BY <1>3, SeqIsFunction
  <2> QED BY <2>1, <2>2, <2>3
<1>12. ASSUME NEW i \in 1..c PROVE Get32(v, 8 + 4 * (i - 1)) = sid.sub_auth[i]
  <2>1. i \in Nat \ {0} /\ 2 * i - 1 \in 1..(2 * c) /\ 2 * i \in 1..(2 * c)
    BY <1>1
  <2>2. Get32(v, 8 + 4 * (i - 1)) = buf[p + 4 + (2 * i - 1)] + Base * buf[p + 4 + 2 * i]
    BY <2>1, VecWord
  <2>3. buf[p + 4 + (2 * i - 1)] = sub[2 * i - 1] /\ buf[p + 4 + 2 * i] = sub[2 * i]
    BY <1>4, <1>7, <2>1 DEF Holds
  <2>4. sub[2 * i - 1] + Base * sub[2 * i] = sid.sub_auth[i]
    BY <1>4
  <2> QED BY <2>2, <2>3, <2>4
<1>13. sid.sub_auth = [i \in 1..c |-> Get32(v, 8 + 4 * (i - 1))]
  <2>1. sid.sub_auth \in Seq(Nat) /\ Len(sid.sub_auth) = c
    BY SidFields DEF c
  <2>2. sid.sub_auth = [i \in 1..c |-> sid.sub_auth[i]]
    BY SMTT(30), <2>1
  <2> QED BY <1>12, <2>2
<1>14. v.len = l /\ ~(l < 8) /\ ~(l < 8 + 4 * c)
  BY <1>1 DEF Vec
<1> HIDE DEF v
<1>15. decode_sid(v) = [sub_auth_count |-> c, id_auth |-> sid.id_auth, sub_auth |-> sid.sub_auth]
  <2>1. Get16(v, 0) \div 256 = c /\ Get16(v, 0) % 256 = 1
    BY <1>9, <1>10
  <2>2. ~(v.len < 8) /\ ~(v.len < 8 + 4 * c)
    BY <1>14
  <2>3. decode_sid(v) = [sub_auth_count |-> c, id_auth |-> Copy(v, 2, 6),
                         sub_auth |-> [i \in 1..c |-> Get32(v, 8 + 4 * (i - 1))]]
    BY <2>1, <2>2 DEF decode_sid
  <2> QED BY <1>11, <1>13, <2>3
<1> QED BY <1>15, SidFields DEF c, v

-----------------------------------------------------------------------------
(* ACEs.                                                                   *)

LEMMA ZerosAre ==
    ASSUME NEW n \in Nat
    PROVE  /\ Zeros(n) \in Seq(Nat) /\ Len(Zeros(n)) = n \div 2 /\ n \div 2 \in Nat
           /\ \A i \in 1..(n \div 2) : Zeros(n)[i] = 0
<1>1. n \div 2 \in Nat
  OBVIOUS
<1>2. PICK m \in Nat : m = n \div 2
  BY <1>1
<1>3. Zeros(n) = [i \in 1..m |-> 0]
  BY <1>2 DEF Zeros
<1> QED BY <1>2, <1>3

LEMMA FixedUnits ==
    /\ MaskUnits \in Seq(Nat) /\ Len(MaskUnits) = 2 /\ MaskUnits[1] = 3 /\ MaskUnits[2] = 0
    /\ ObjectUnits \in Seq(Nat) /\ Len(ObjectUnits) = 18
    /\ ObjectUnits = [i \in 1..18 |-> ObjectUnits[i]]
  BY DEF MaskUnits, ObjectUnits

LEMMA AceFields ==
    ASSUME NEW a \in Aces
    PROVE  /\ a.type \in Nat /\ a.data \in Seq(Nat) /\ a.pad \in Nat /\ a.pad % 4 = 0
           /\ a.sid \in {None} \cup Sids
           /\ ~Unknown(a) => a.sid \in Sids
           /\ a.sid # Bad /\ None # Bad
<1>1. /\ a.type \in Nat /\ a.data \in Seq(Nat) /\ a.pad \in Nat /\ a.pad % 4 = 0
      /\ a.sid \in {None} \cup Sids
      /\ a.sid = None => Unknown(a)
  BY DEF Aces
<1>2. None # Bad
  BY DEF None, Bad
<1>3. a.sid # Bad
  BY <1>1, <1>2, SidFields
<1> QED BY <1>1, <1>2, <1>3

(* The types are told apart.                                               *)
LEMMA TypesApart ==
    ASSUME NEW t
    PROVE  /\ ~(t \in PLAIN /\ t \in OBJECT)
           /\ ~(t \in PLAIN /\ t \in CALLBACK)
           /\ ~(t \in OBJECT /\ t \in CALLBACK)
  BY DEF PLAIN, OBJECT, CALLBACK

(* The units of an ACE of another type behind its header.                  *)
OtherUnits(a) == IF a.sid = None THEN a.data ELSE MaskUnits \o SidUnits(a.sid) \o a.data

(* The units of an ACE behind its header, without what fills it up.        *)
Content(a) ==
    CASE a.type % 256 \in PLAIN -> MaskUnits \o SidUnits(a.sid)
      [] a.type % 256 \in OBJECT -> MaskUnits \o ObjectUnits \o SidUnits(a.sid)
      [] a.type % 256 \in CALLBACK -> MaskUnits \o SidUnits(a.sid) \o a.data
      [] OTHER -> OtherUnits(a)

(* By type.                                                                *)
LEMMA ContentIs ==
    ASSUME NEW a \in Aces
    PROVE  /\ a.type % 256 \in PLAIN => Content(a) = MaskUnits \o SidUnits(a.sid)
           /\ a.type % 256 \in OBJECT =>
                Content(a) = (MaskUnits \o ObjectUnits) \o SidUnits(a.sid)
           /\ a.type % 256 \in CALLBACK =>
                Content(a) = (MaskUnits \o SidUnits(a.sid)) \o a.data
           /\ Unknown(a) => Content(a) = OtherUnits(a)
  BY TypesApart DEF Content, Unknown

LEMMA ContentType ==
    ASSUME NEW a \in Aces
    PROVE  /\ Content(a) \in Seq(Nat)
           /\ a.type % 256 \in PLAIN => Bytes(Content(a)) = 4 + SidSize(a.sid)
           /\ a.type % 256 \in OBJECT => Bytes(Content(a)) = 40 + SidSize(a.sid)
           /\ a.type % 256 \in CALLBACK => Bytes(Content(a)) = 4 + SidSize(a.sid) + Bytes(a.data)
<1> DEFINE s == SidUnits(a.sid)
           ms == MaskUnits \o s
           mo == MaskUnits \o ObjectUnits
<1>0. a.data \in Seq(Nat)
  BY AceFields
<1>1. CASE Unknown(a)
  <2>1. OtherUnits(a) \in Seq(Nat)
    <3>1. CASE a.sid = None
      BY <1>0, <3>1 DEF OtherUnits
    <3>2. CASE a.sid # None
      <4>1. s \in Seq(Nat)
        BY <3>2, AceFields, SidUnitsAre
      <4>2. MaskUnits \in Seq(Nat)
        BY FixedUnits
      <4> HIDE DEF s
      <4>3. ms \in Seq(Nat)
        BY <4>1, <4>2, Joined
      <4> HIDE DEF ms
      <4>4. ms \o a.data \in Seq(Nat)
        BY <1>0, <4>3, Joined
      <4> QED BY <3>2, <4>4 DEF OtherUnits, ms, s
    <3> QED BY <3>1, <3>2
  <2> QED BY <1>1, <2>1, ContentIs DEF Unknown
<1>2. CASE ~Unknown(a)
  <2>1. s \in Seq(Nat) /\ Bytes(s) = SidSize(a.sid)
    BY <1>2, AceFields, SidUnitsAre
  <2> HIDE DEF s
  <2>2. ms \in Seq(Nat) /\ Len(ms) = 2 + Len(s)
    <3>1. MaskUnits \in Seq(Nat) /\ Len(MaskUnits) = 2
      BY FixedUnits
    <3>2. ms \in Seq(Nat) /\ Len(ms) = Len(MaskUnits) + Len(s)
      BY <2>1, <3>1, Joined
    <3> HIDE DEF ms
    <3> QED BY <3>1, <3>2
  <2>3. mo \in Seq(Nat) /\ Len(mo) = 20
    <3>1. /\ MaskUnits \in Seq(Nat) /\ ObjectUnits \in Seq(Nat)
          /\ Len(MaskUnits) = 2 /\ Len(ObjectUnits) = 18
      BY FixedUnits
    <3>2. mo \in Seq(Nat) /\ Len(mo) = Len(MaskUnits) + Len(ObjectUnits)
      BY <3>1, Joined
    <3> QED BY <3>1, <3>2
  <2> HIDE DEF ms, mo
  <2>4. mo \o s \in Seq(Nat) /\ Len(mo \o s) = 20 + Len(s)
    BY <2>1, <2>3, Joined
  <2>5. ms \o a.data \in Seq(Nat) /\ Len(ms \o a.data) = 2 + Len(s) + Len(a.data)
    BY <1>0, <2>1, <2>2, Joined
  <2>6. CASE a.type % 256 \in PLAIN
    <3>1. Content(a) = ms
      BY <2>6, ContentIs DEF ms, s
    <3>2. Bytes(ms) = 4 + SidSize(a.sid)
      BY <2>1, <2>2 DEF Bytes
    <3> QED BY <2>2, <2>6, <3>1, <3>2, TypesApart
  <2>7. CASE a.type % 256 \in OBJECT
    <3>1. Content(a) = mo \o s
      BY <2>7, ContentIs DEF mo, s
    <3>2. PICK c \in Seq(Nat) : c = mo \o s /\ Len(c) = 20 + Len(s)
      BY <2>4
    <3>3. Bytes(c) = 40 + SidSize(a.sid)
      BY <2>1, <3>2 DEF Bytes
    <3> QED BY <2>7, <3>1, <3>2, <3>3, TypesApart
  <2>8. CASE a.type % 256 \in CALLBACK
    <3>1. Content(a) = ms \o a.data
      BY <2>8, ContentIs DEF ms, s
    <3>2. PICK c \in Seq(Nat) : c = ms \o a.data /\ Len(c) = 2 + Len(s) + Len(a.data)
      BY <2>5
    <3>3. Bytes(c) = 4 + SidSize(a.sid) + Bytes(a.data)
      <4>1. Len(s) \in Nat /\ Len(a.data) \in Nat /\ SidSize(a.sid) = 2 * Len(s)
        BY <1>0, <2>1 DEF Bytes
      <4>2. PICK x \in Nat, y \in Nat : x = Len(s) /\ y = Len(a.data)
        BY <4>1
      <4>3. Bytes(a.data) = 2 * y /\ SidSize(a.sid) = 2 * x /\ Bytes(c) = 2 * (2 + x + y)
        BY <3>2, <4>1, <4>2 DEF Bytes
      <4> QED BY <4>3
    <3> QED BY <2>8, <3>1, <3>2, <3>3, TypesApart
  <2> QED BY <1>2, <2>6, <2>7, <2>8 DEF Unknown
<1> QED BY <1>1, <1>2

LEMMA AceUnitsAre ==
    ASSUME NEW a \in Aces
    PROVE  /\ AceUnits(a) = <<a.type, Bytes(AceUnits(a))>> \o (Content(a) \o Zeros(a.pad))
           /\ AceUnits(a) \in Seq(Nat)
           /\ Len(AceUnits(a)) = 2 + Len(Content(a)) + a.pad \div 2
           /\ Bytes(AceUnits(a)) \in Nat
<1> DEFINE c == Content(a)
           z == Zeros(a.pad)
           padded == c \o z
           h == <<a.type, 4 + Bytes(padded)>>
<1>1. AceUnits(a) = h \o padded
  BY DEF AceUnits, Content, OtherUnits
<1>2. a.type \in Nat /\ a.pad \in Nat
  BY AceFields
<1>3. c \in Seq(Nat) /\ z \in Seq(Nat) /\ Len(z) = a.pad \div 2
  BY <1>2, ZerosAre, ContentType
<1> HIDE DEF c, z
<1>4. padded \in Seq(Nat) /\ Len(padded) = Len(c) + Len(z)
  BY <1>3, Joined
<1> HIDE DEF padded
<1>5. h \in Seq(Nat) /\ Len(h) = 2
  BY <1>2, <1>4 DEF Bytes
<1> HIDE DEF h
<1>6. h \o padded \in Seq(Nat) /\ Len(h \o padded) = 2 + Len(padded)
  BY <1>4, <1>5, Joined
<1>7. PICK u \in Seq(Nat) : u = AceUnits(a) /\ Len(u) = 2 + Len(padded)
  BY <1>1, <1>6
<1>8. Bytes(u) = 4 + Bytes(padded)
  BY <1>4, <1>7 DEF Bytes
<1>9. Bytes(u) \in Nat /\ Len(u) = 2 + Len(c) + a.pad \div 2
  <2>1. \A t \in Seq(Nat) : Len(t) \in Nat /\ Bytes(t) \in Nat
    BY DEF Bytes
  <2>2. PICK i \in Nat, j \in Nat : i = Len(c) /\ j = a.pad \div 2
    BY <1>3, <2>1
  <2>3. Len(u) = 2 + (i + j)
    BY <1>3, <1>4, <1>7, <2>2
  <2>4. 2 + (i + j) = 2 + i + j
    OBVIOUS
  <2> QED BY <2>1, <2>2, <2>3, <2>4
<1> QED BY <1>1, <1>7, <1>8, <1>9 DEF h, padded, c, z

(* The SID the library reads of an ACE.                                    *)
ReadSid(a) == IF Unknown(a) THEN None ELSE a.sid

(* What decode_ace makes of an ACE at position p, in an iovec of n units.  *)
DecodedAce(a, buf, p, n) ==
    [ace_type |-> a.type, ace_size |-> Bytes(AceUnits(a)),
     body |-> [mask |-> IF Unknown(a) THEN 0 ELSE 3,
               object |-> IF a.type % 256 \in OBJECT THEN ObjectUnits ELSE <<>>,
               blob |-> IF Unknown(a) THEN Slice(buf, p + 2, n - 2)
                        ELSE IF a.type % 256 \in CALLBACK
                             THEN Slice(buf, p + 4, n - 4)
                             ELSE <<>>,
               sid |-> ReadSid(a)]]

LEMMA BodyIsDecoded ==
    ASSUME NEW a \in Aces, NEW buf, NEW p \in Nat, NEW n \in Nat,
           Holds(buf, p, Content(a)), n >= Len(Content(a))
    PROVE  Body(a.type, UnitVec(buf, p, n)) = DecodedAce(a, buf, p - 2, n + 2).body
<1> DEFINE s == SidUnits(a.sid)
           v == UnitVec(buf, p, n)
           t == a.type % 256
<1>0. p - 2 + 2 = p /\ p - 2 + 4 = p + 2 /\ n + 2 - 2 = n /\ n + 2 - 4 = n - 2
  OBVIOUS
<1>1. v.len = 2 * n
  BY DEF UnitVec, Vec
<1>2. 2 * n >= Bytes(Content(a)) /\ Len(Content(a)) \in Nat
  BY ContentType DEF Bytes
<1> HIDE DEF t
<1>3. CASE Unknown(a)
  <2>1. t \notin PLAIN /\ t \notin OBJECT /\ t \notin CALLBACK
    BY <1>3 DEF Unknown, t
  <2>2. Copy(v, 0, v.len) = Slice(buf, p, n)
    BY VecCopyAll
  <2>3. ReadSid(a) = None
    BY <1>3 DEF ReadSid
  <2> HIDE DEF v
  <2>4. Body(a.type, v) = [mask |-> 0, object |-> <<>>, blob |-> Copy(v, 0, v.len), sid |-> None]
    BY <2>1 DEF Body, t
  <2>5. DecodedAce(a, buf, p - 2, n + 2).body =
          [mask |-> 0, object |-> <<>>, blob |-> Slice(buf, p, n), sid |-> ReadSid(a)]
    BY <1>0, <1>3, <2>1 DEF DecodedAce, t
  <2> QED BY <2>2, <2>3, <2>4, <2>5 DEF v
<1>4. CASE ~Unknown(a)
  <2>0. ReadSid(a) = a.sid
    BY <1>4 DEF ReadSid
  <2>1. a.sid \in Sids
    BY <1>4, AceFields
  <2>2. s \in Seq(Nat) /\ SidSize(a.sid) \in Nat
    BY <2>1, SidUnitsAre, SidFields
  <2>3. Len(MaskUnits) = 2 /\ MaskUnits \in Seq(Nat)
    BY FixedUnits
  <2> HIDE DEF s
  <2>4. ASSUME Holds(buf, p, MaskUnits) PROVE Get32(v, 0) = 3
    <3>1. Get32(v, 0) = buf[p + 1] + Base * buf[p + 2]
      BY VecGet DEF UnitVec
    <3>2. 1 \in 1..2 /\ 2 \in 1..2
      OBVIOUS
    <3>3. buf[p + 1] = 3 /\ buf[p + 2] = 0
      BY <2>3, <2>4, <3>2, FixedUnits DEF Holds
    <3> QED BY <3>1, <3>3 DEF Base
  <2>5. CASE t \in PLAIN
    <3>0. t \notin OBJECT /\ t \notin CALLBACK
      BY <2>5, TypesApart
    <3>1. 2 * n >= 4 + SidSize(a.sid) /\ Content(a) = MaskUnits \o s
      BY <1>2, <2>5, ContentIs, ContentType DEF t, s
    <3>2. Holds(buf, p, MaskUnits) /\ Holds(buf, p + 2, s)
      BY <2>2, <2>3, <3>1, HoldsParts
    <3>3. Skip(v, 4) = Vec(buf, p + 2, 2 * n - 4)
      BY VecSkip DEF UnitVec
    <3>4. decode_sid(Skip(v, 4)) = a.sid
      <4>1. 2 * n - 4 \in Int /\ 2 * n - 4 >= SidSize(a.sid) /\ p + 2 \in Nat
        BY <2>2, <3>1
      <4> QED BY <2>1, <3>2, <3>3, <4>1, SidIsDecoded DEF s
    <3>5. Get32(v, 0) = 3 /\ ~(v.len < 4)
      BY <1>1, <2>2, <2>4, <3>1, <3>2
    <3> HIDE DEF v
    <3>6. Body(a.type, v) = [mask |-> 3, object |-> <<>>, blob |-> <<>>, sid |-> a.sid]
      BY <2>5, <3>0, <3>4, <3>5 DEF Body, t
    <3>7. DecodedAce(a, buf, p - 2, n + 2).body =
            [mask |-> 3, object |-> <<>>, blob |-> <<>>, sid |-> a.sid]
      BY <1>4, <2>0, <3>0 DEF DecodedAce, t
    <3> QED BY <3>6, <3>7 DEF v
  <2>6. CASE t \in OBJECT
    <3>0. t \notin PLAIN /\ t \notin CALLBACK
      BY <2>6, TypesApart
    <3> DEFINE mo == MaskUnits \o ObjectUnits
    <3>1. 2 * n >= 40 + SidSize(a.sid) /\ Content(a) = mo \o s
      BY <1>2, <2>6, ContentIs, ContentType DEF t, s
    <3>2. ObjectUnits \in Seq(Nat) /\ Len(ObjectUnits) = 18
      BY FixedUnits
    <3>3. mo \in Seq(Nat) /\ Len(mo) = Len(MaskUnits) + Len(ObjectUnits)
      BY <2>3, <3>2, Joined
    <3>4. Holds(buf, p, mo) /\ Holds(buf, p + Len(mo), s)
      <4> HIDE DEF mo
      <4> QED BY <2>2, <3>1, <3>3, HoldsParts
    <3>5. Holds(buf, p, MaskUnits) /\ Holds(buf, p + Len(MaskUnits), ObjectUnits)
      BY <2>3, <3>2, <3>4, HoldsParts
    <3>6. Holds(buf, p + 20, s) /\ Holds(buf, p + 2, ObjectUnits)
      BY <2>3, <3>2, <3>3, <3>4, <3>5
    <3> HIDE DEF mo
    <3>7. Skip(v, 40) = Vec(buf, p + 20, 2 * n - 40)
      BY VecSkip DEF UnitVec
    <3>8. decode_sid(Skip(v, 40)) = a.sid
      <4>1. 2 * n - 40 \in Int /\ 2 * n - 40 >= SidSize(a.sid) /\ p + 20 \in Nat
        BY <2>2, <3>1
      <4> QED BY <2>1, <3>6, <3>7, <4>1, SidIsDecoded DEF s
    <3>9. Get32(v, 0) = 3 /\ ~(v.len < 40)
      BY <1>1, <2>2, <2>4, <3>1, <3>5
    <3>10. Copy(v, 4, 36) = ObjectUnits
      <4>1. Copy(v, 4, 36) = [i \in 1..18 |-> buf[p + 2 + i]]
        <5>1. PICK l : l = 2 * n
          OBVIOUS
        <5>2. Copy(Vec(buf, p, l), 4, 36) = [i \in 1..18 |-> buf[p + 2 + i]]
          BY VecCopy
        <5> QED BY <5>1, <5>2 DEF UnitVec
      <4>2. \A i \in 1..18 : buf[p + 2 + i] = ObjectUnits[i]
        BY <3>2, <3>6 DEF Holds
      <4> QED BY <4>1, <4>2, FixedUnits
    <3> HIDE DEF v
    <3>11. Body(a.type, v) = [mask |-> 3, object |-> ObjectUnits, blob |-> <<>>, sid |-> a.sid]
      BY <2>6, <3>0, <3>8, <3>9, <3>10 DEF Body, t
    <3>12. DecodedAce(a, buf, p - 2, n + 2).body =
            [mask |-> 3, object |-> ObjectUnits, blob |-> <<>>, sid |-> a.sid]
      BY <1>4, <2>0, <2>6, <3>0 DEF DecodedAce, t
    <3> QED BY <3>11, <3>12 DEF v
  <2>7. CASE t \in CALLBACK
    <3>0. t \notin OBJECT /\ t \notin PLAIN
      BY <2>7, TypesApart
    <3> DEFINE ms == MaskUnits \o s
    <3>1. 2 * n >= 4 + SidSize(a.sid) + Bytes(a.data) /\ Content(a) = ms \o a.data
      BY <1>2, <2>7, ContentIs, ContentType DEF t, s
    <3>2. a.data \in Seq(Nat) /\ Bytes(a.data) \in Nat
      BY AceFields DEF Bytes
    <3>3. ms \in Seq(Nat)
      BY <2>2, <2>3, Joined
    <3>4. Holds(buf, p, ms)
      <4> HIDE DEF ms
      <4> QED BY <3>1, <3>2, <3>3, HoldsParts
    <3>5. Holds(buf, p, MaskUnits) /\ Holds(buf, p + 2, s)
      BY <2>2, <2>3, <3>4, HoldsParts
    <3> HIDE DEF ms
    <3>6. Skip(v, 4) = Vec(buf, p + 2, 2 * n - 4)
      BY VecSkip DEF UnitVec
    <3>7. decode_sid(Skip(v, 4)) = a.sid
      <4>1. 2 * n - 4 \in Int /\ 2 * n - 4 >= SidSize(a.sid) /\ p + 2 \in Nat
        BY <2>2, <3>1, <3>2
      <4> QED BY <2>1, <3>5, <3>6, <4>1, SidIsDecoded DEF s
    <3>8. Get32(v, 0) = 3 /\ ~(v.len < 4)
      BY <1>1, <2>2, <2>4, <3>1, <3>2, <3>5
    <3>9. Copy(v, 4, v.len - 4) = Slice(buf, p + 2, n - 2)
      BY VecCopyRest
    <3> HIDE DEF v
    <3>10. Body(a.type, v) = [mask |-> 3, object |-> <<>>,
                              blob |-> Slice(buf, p + 2, n - 2), sid |-> a.sid]
      BY <2>7, <3>0, <3>7, <3>8, <3>9 DEF Body, t
    <3>11. DecodedAce(a, buf, p - 2, n + 2).body =
            [mask |-> 3, object |-> <<>>, blob |-> Slice(buf, p + 2, n - 2), sid |-> a.sid]
      BY <1>0, <1>4, <2>0, <2>7, <3>0 DEF DecodedAce, t
    <3> QED BY <3>10, <3>11 DEF v
  <2> QED BY <1>4, <2>5, <2>6, <2>7 DEF Unknown, t
<1> QED BY <1>3, <1>4

(* An ACE in a block is decoded by its type, whatever follows it.          *)
LEMMA AceIsDecoded ==
    ASSUME NEW a \in Aces, NEW buf, NEW p \in Nat, NEW n \in Nat,
           Holds(buf, p, AceUnits(a)), n >= Len(AceUnits(a))
    PROVE  /\ decode_ace(UnitVec(buf, p, n)) = DecodedAce(a, buf, p, n)
           /\ DecodedAce(a, buf, p, n) # Bad
<1> DEFINE v == UnitVec(buf, p, n)
           h == <<a.type, Bytes(AceUnits(a))>>
           c == Content(a)
           z == Zeros(a.pad)
           body == DecodedAce(a, buf, p, n).body
<1>1. a.type \in Nat /\ a.pad \in Nat /\ Bytes(AceUnits(a)) \in Nat
  BY AceFields, AceUnitsAre
<1>2. h \in Seq(Nat) /\ Len(h) = 2 /\ h[1] = a.type /\ h[2] = Bytes(AceUnits(a))
  BY <1>1
<1>3. c \in Seq(Nat) /\ z \in Seq(Nat) /\ Len(z) \in Nat /\ Len(c) \in Nat
  <2>1. c \in Seq(Nat) /\ z \in Seq(Nat)
    BY <1>1, ContentType, ZerosAre
  <2> HIDE DEF c, z
  <2> QED BY <2>1
<1>4. AceUnits(a) = h \o (c \o z) /\ Len(AceUnits(a)) = 2 + Len(c) + a.pad \div 2
  BY AceUnitsAre
<1> HIDE DEF h, c, z
<1>5. c \o z \in Seq(Nat)
  BY <1>3, Joined
<1>6. Holds(buf, p, h) /\ Holds(buf, p + 2, c \o z)
  BY <1>2, <1>4, <1>5, HoldsParts
<1>7. Holds(buf, p + 2, c)
  BY <1>3, <1>6, HoldsParts
<1>8. Get16(v, 0) = a.type /\ Get16(v, 2) = Bytes(AceUnits(a))
  <2>1. 1 \in 1..2 /\ 2 \in 1..2
    OBVIOUS
  <2>2. buf[p + 1] = h[1] /\ buf[p + 2] = h[2]
    BY <1>2, <1>6, <2>1 DEF Holds
  <2>3. Get16(v, 0) = buf[p + 1] /\ Get16(v, 2) = buf[p + 2]
    BY VecGet DEF UnitVec
  <2> QED BY <1>2, <2>2, <2>3
<1>9. n - 2 \in Nat /\ n - 2 >= Len(c) /\ 2 * n - 4 = 2 * (n - 2)
  <2>1. a.pad \div 2 \in Nat
    BY <1>1
  <2> QED BY <1>3, <1>4, <2>1
<1>10. Skip(v, 4) = UnitVec(buf, p + 2, n - 2)
  BY <1>9, VecSkip DEF UnitVec
<1>11. Body(a.type, Skip(v, 4)) = body
  <2>1. p + 2 - 2 = p /\ n - 2 + 2 = n /\ p + 2 \in Nat
    OBVIOUS
  <2>2. Body(a.type, UnitVec(buf, p + 2, n - 2)) = DecodedAce(a, buf, p + 2 - 2, n - 2 + 2).body
    <3>1. PICK q \in Nat, m \in Nat : q = p + 2 /\ m = n - 2
      BY <1>9, <2>1
    <3>2. Holds(buf, q, Content(a)) /\ m >= Len(Content(a))
      BY <1>7, <1>9, <3>1 DEF c
    <3>3. Body(a.type, UnitVec(buf, q, m)) = DecodedAce(a, buf, q - 2, m + 2).body
      BY <3>1, <3>2, BodyIsDecoded
    <3> QED BY <3>1, <3>3
  <2> QED BY <1>10, <2>1, <2>2
<1>12. body.sid = ReadSid(a) /\ body # Bad /\ body.sid # Bad
  <2>1. body.sid = ReadSid(a)
    BY DEF DecodedAce
  <2>2. ReadSid(a) # Bad
    BY AceFields DEF ReadSid
  <2>3. body # Bad
    BY DEF DecodedAce, Bad
  <2> QED BY <2>1, <2>2, <2>3
<1>13. v.len = 2 * n /\ ~(2 * n < 4) /\ ~(Bytes(AceUnits(a)) < 4) /\ ~(2 * n < Bytes(AceUnits(a)))
  <2>1. v.len = 2 * n
    BY DEF UnitVec, Vec
  <2>2. Len(AceUnits(a)) \in Nat /\ Len(AceUnits(a)) >= 2
    <3>1. PICK x \in Nat, y \in Nat : x = Len(c) /\ y = a.pad \div 2
      BY <1>1, <1>3
    <3>2. Len(AceUnits(a)) = 2 + x + y
      BY <1>4, <3>1
    <3> QED BY <3>2
  <2> QED BY <2>1, <2>2 DEF Bytes
<1>14. DecodedAce(a, buf, p, n) = [ace_type |-> a.type, ace_size |-> Bytes(AceUnits(a)), body |-> body]
  BY DEF DecodedAce
<1> HIDE DEF v, body
<1>15. decode_ace(v) = [ace_type |-> a.type, ace_size |-> Bytes(AceUnits(a)), body |-> body]
  BY <1>8, <1>11, <1>12, <1>13 DEF decode_ace
<1>16. [ace_type |-> a.type, ace_size |-> Bytes(AceUnits(a)), body |-> body] # Bad
  BY DEF Bad
<1> QED BY <1>14, <1>15, <1>16 DEF v
-----------------------------------------------------------------------------
(* ACLs.                                                                   *)

LEMMA AcesUptoExists ==
    ASSUME NEW aces, NEW m \in Nat
    PROVE  \E g : g = [i \in 0..m |-> IF i = 0 THEN <<>> ELSE g[i - 1] \o AceUnits(aces[i])]
<1> DEFINE Z == <<>>
           F(x, i) == x \o AceUnits(aces[i])
           P(n) == \E g : g = [i \in 0..n |-> IF i = 0 THEN Z ELSE F(g[i - 1], i)]
           S == {n \in Nat : P(n)}
<1> HIDE DEF F, Z
<1>1. P(0)
  <2> DEFINE g == [i \in 0..0 |-> Z]
  <2>1. g = [i \in 0..0 |-> IF i = 0 THEN Z ELSE F(g[i - 1], i)]
    OBVIOUS
  <2> QED BY <2>1
<1>2. ASSUME NEW n \in Nat, P(n) PROVE P(n + 1)
  <2>1. PICK g : g = [i \in 0..n |-> IF i = 0 THEN Z ELSE F(g[i - 1], i)]
    BY <1>2
  <2> DEFINE h == [i \in 0..(n + 1) |-> IF i = n + 1 THEN F(g[n], n + 1) ELSE g[i]]
  <2>2. h = [i \in 0..(n + 1) |-> IF i = 0 THEN Z ELSE F(h[i - 1], i)]
    <3>1. \A i \in 0..n : g[i] = IF i = 0 THEN Z ELSE F(g[i - 1], i)
      BY <2>1
    <3>2. ASSUME NEW i \in 0..(n + 1) PROVE h[i] = IF i = 0 THEN Z ELSE F(h[i - 1], i)
      <4>1. CASE i = n + 1
        <5>1. h[i] = F(g[n], n + 1) /\ i - 1 = n /\ h[n] = g[n]
          BY <4>1
        <5> QED BY <4>1, <5>1
      <4>2. CASE i # n + 1
        <5>1. h[i] = g[i] /\ i \in 0..n /\ (i # 0 => h[i - 1] = g[i - 1])
          BY <4>2
        <5> QED BY <3>1, <5>1
      <4> QED BY <4>1, <4>2
    <3>3. h = [i \in 0..(n + 1) |-> h[i]]
      OBVIOUS
    <3> HIDE DEF h
    <3> QED BY <3>2, <3>3
  <2> QED BY <2>2
<1>3. Nat \subseteq S
  <2> HIDE DEF P
  <2>1. 0 \in S /\ \A n \in Nat : n \in S => n + 1 \in S
    BY <1>1, <1>2
  <2> HIDE DEF S
  <2> QED BY <2>1, SetInduction
<1>4. P(m)
  <2> HIDE DEF P
  <2> QED BY <1>3
<1> QED BY <1>4 DEF F, Z

LEMMA AcesUptoEquation ==
    ASSUME NEW aces \in Seq(Aces)
    PROVE  /\ AcesUpto(aces)[0] = <<>>
           /\ \A i \in 1..Len(aces) : AcesUpto(aces)[i] = AcesUpto(aces)[i - 1] \o AceUnits(aces[i])
<1> DEFINE u == AcesUpto(aces)
<1>1. Len(aces) \in Nat
  OBVIOUS
<1>2. \E g : g = [i \in 0..Len(aces) |-> IF i = 0 THEN <<>> ELSE g[i - 1] \o AceUnits(aces[i])]
  BY <1>1, AcesUptoExists
<1>3. u = [i \in 0..Len(aces) |-> IF i = 0 THEN <<>> ELSE u[i - 1] \o AceUnits(aces[i])]
  BY <1>2 DEF AcesUpto
<1> HIDE DEF u
<1>4. 0 \in 0..Len(aces) /\ \A i \in 1..Len(aces) : i \in 0..Len(aces) /\ i # 0
  BY <1>1
<1>5. \A i \in 0..Len(aces) : u[i] = IF i = 0 THEN <<>> ELSE u[i - 1] \o AceUnits(aces[i])
  BY <1>3
<1> QED BY <1>4, <1>5 DEF u

LEMMA AcesUptoType ==
    ASSUME NEW aces \in Seq(Aces)
    PROVE  /\ \A i \in 0..Len(aces) : AcesUpto(aces)[i] \in Seq(Nat)
           /\ \A i \in 1..Len(aces) :
                /\ aces[i] \in Aces
                /\ Len(AcesUpto(aces)[i]) = Len(AcesUpto(aces)[i - 1]) + Len(AceUnits(aces[i]))
<1> DEFINE u == AcesUpto(aces)
           S == {n \in Nat : n <= Len(aces) => u[n] \in Seq(Nat)}
<1>0. Len(aces) \in Nat /\ \A i \in 1..Len(aces) : aces[i] \in Aces /\ AceUnits(aces[i]) \in Seq(Nat)
  <2>1. Len(aces) \in Nat /\ \A i \in 1..Len(aces) : aces[i] \in Aces
    OBVIOUS
  <2>2. \A a \in Aces : AceUnits(a) \in Seq(Nat)
    BY AceUnitsAre
  <2> QED BY <2>1, <2>2
<1>1. u[0] = <<>> /\ \A i \in 1..Len(aces) : u[i] = u[i - 1] \o AceUnits(aces[i])
  BY AcesUptoEquation
<1> HIDE DEF u
<1>2. 0 \in S
  <2>1. u[0] \in Seq(Nat)
    BY <1>1
  <2> QED BY <2>1
<1>3. ASSUME NEW n \in Nat, n \in S PROVE n + 1 \in S
  <2>1. CASE n + 1 <= Len(aces)
    <3>1. n + 1 \in 1..Len(aces) /\ n + 1 - 1 = n /\ u[n] \in Seq(Nat)
      BY <1>0, <1>3, <2>1
    <3>2. PICK i \in 1..Len(aces) : i = n + 1 /\ i - 1 = n
      BY <3>1
    <3>3. u[i] = u[i - 1] \o AceUnits(aces[i]) /\ AceUnits(aces[i]) \in Seq(Nat) /\ u[i - 1] \in Seq(Nat)
      BY <1>0, <1>1, <3>1, <3>2
    <3>4. u[i] \in Seq(Nat)
      BY <3>3, Joined
    <3> QED BY <3>2, <3>4
  <2>2. CASE ~(n + 1 <= Len(aces))
    BY <2>2
  <2> QED BY <2>1, <2>2
<1>4. Nat \subseteq S
  <2> HIDE DEF S
  <2> QED BY <1>2, <1>3, SetInduction
<1>5. \A i \in 0..Len(aces) : u[i] \in Seq(Nat)
  BY <1>0, <1>4
<1>6. ASSUME NEW i \in 1..Len(aces) PROVE Len(u[i]) = Len(u[i - 1]) + Len(AceUnits(aces[i]))
  <2>1. i - 1 \in 0..Len(aces)
    BY <1>0
  <2> QED BY <1>0, <1>1, <1>5, <2>1, Joined
<1> QED BY <1>0, <1>5, <1>6 DEF u

(* A block that holds the ACEs holds each at its place.                    *)
LEMMA AcesInPlace ==
    ASSUME NEW aces \in Seq(Aces), NEW buf, NEW q \in Nat,
           Holds(buf, q, AcesUpto(aces)[Len(aces)])
    PROVE  \A i \in 1..Len(aces) :
              /\ Holds(buf, q + Len(AcesUpto(aces)[i - 1]), AceUnits(aces[i]))
              /\ Len(AcesUpto(aces)[i]) <= Len(AcesUpto(aces)[Len(aces)])
<1> DEFINE u == AcesUpto(aces)
           n == Len(aces)
           S == {k \in Nat : k <= n => Holds(buf, q, u[n - k]) /\ Len(u[n - k]) <= Len(u[n])}
<1>0. /\ n \in Nat
      /\ \A i \in 1..n : aces[i] \in Aces /\ AceUnits(aces[i]) \in Seq(Nat)
      /\ \A i \in 1..n : u[i] = u[i - 1] \o AceUnits(aces[i])
      /\ \A i \in 0..n : u[i] \in Seq(Nat) /\ Len(u[i]) \in Nat
      /\ \A i \in 1..n : Len(u[i]) = Len(u[i - 1]) + Len(AceUnits(aces[i]))
  <2>0. n \in Nat
    OBVIOUS
  <2>1. \A i \in 0..n : u[i] \in Seq(Nat)
    BY AcesUptoType
  <2>2. \A i \in 1..n : aces[i] \in Aces /\ Len(u[i]) = Len(u[i - 1]) + Len(AceUnits(aces[i]))
    BY AcesUptoType
  <2>3. \A i \in 1..n : u[i] = u[i - 1] \o AceUnits(aces[i])
    BY AcesUptoEquation
  <2> HIDE DEF u, n
  <2>4. \A i \in 0..n : Len(u[i]) \in Nat
    BY <2>1
  <2>5. \A i \in 1..n : AceUnits(aces[i]) \in Seq(Nat)
    BY <2>2, AceUnitsAre
  <2> QED BY <2>0, <2>1, <2>2, <2>3, <2>4, <2>5
<1>1. Holds(buf, q, u[n])
  OBVIOUS
<1> HIDE DEF u, n
<1>2. 0 \in S
  BY <1>0, <1>1
<1>3. ASSUME NEW i \in 1..n, Holds(buf, q, u[i])
      PROVE  Holds(buf, q, u[i - 1]) /\ Holds(buf, q + Len(u[i - 1]), AceUnits(aces[i]))
  <2>1. i - 1 \in 0..n
    BY <1>0
  <2> QED BY <1>0, <1>3, <2>1, HoldsParts
<1>4. ASSUME NEW k \in Nat, k \in S PROVE k + 1 \in S
  <2> SUFFICES ASSUME k + 1 <= n
               PROVE  Holds(buf, q, u[n - (k + 1)]) /\ Len(u[n - (k + 1)]) <= Len(u[n])
    OBVIOUS
  <2>1. n - k \in 1..n /\ n - (k + 1) = n - k - 1 /\ n - k - 1 \in 0..n /\ n - k \in 0..n /\ n \in 0..n
    BY <1>0
  <2>2. Holds(buf, q, u[n - k]) /\ Len(u[n - k]) <= Len(u[n])
    BY <1>0, <1>4
  <2>3. Holds(buf, q, u[n - k - 1])
    BY <1>3, <2>1, <2>2
  <2>4. Len(u[n - k - 1]) <= Len(u[n - k])
    <3>1. PICK i \in 1..n : i = n - k /\ i - 1 = n - k - 1
      BY <2>1
    <3>2. Len(u[i]) = Len(u[i - 1]) + Len(AceUnits(aces[i]))
      BY <1>0
    <3>3. i \in 0..n /\ i - 1 \in 0..n
      BY <2>1, <3>1
    <3>4. Len(u[i]) \in Nat /\ Len(u[i - 1]) \in Nat /\ Len(AceUnits(aces[i])) \in Nat
      BY <1>0, <3>3
    <3>5. PICK x \in Nat, y \in Nat, z \in Nat :
            x = Len(u[i - 1]) /\ y = Len(AceUnits(aces[i])) /\ z = Len(u[i])
      BY <3>4
    <3>6. z = x + y
      BY <3>2, <3>5
    <3>7. x <= z
      BY <3>6
    <3> QED BY <3>1, <3>5, <3>7
  <2>5. Len(u[n - k - 1]) \in Nat /\ Len(u[n - k]) \in Nat /\ Len(u[n]) \in Nat
    BY <1>0, <2>1
  <2>6. Len(u[n - k - 1]) <= Len(u[n])
    BY <2>2, <2>4, <2>5
  <2> QED BY <2>1, <2>3, <2>6
<1>5. Nat \subseteq S
  <2> HIDE DEF S
  <2> QED BY <1>2, <1>4, SetInduction
<1>6. ASSUME NEW i \in 1..n PROVE Holds(buf, q, u[i]) /\ Len(u[i]) <= Len(u[n])
  <2>1. n - i \in Nat /\ n - i <= n /\ n - (n - i) = i
    BY <1>0
  <2>2. n - i \in S
    BY <1>5, <2>1
  <2>3. Holds(buf, q, u[n - (n - i)]) /\ Len(u[n - (n - i)]) <= Len(u[n])
    BY <2>1, <2>2
  <2> QED BY <2>1, <2>3
<1> QED BY <1>3, <1>6 DEF u, n
LEMMA UnitSkip ==
    ASSUME NEW buf, NEW p \in Nat, NEW n \in Int, NEW s \in Seq(Nat)
    PROVE  Skip(UnitVec(buf, p, n), Bytes(s)) = UnitVec(buf, p + Len(s), n - Len(s))
<1>1. PICK k \in Nat : k = Len(s)
  OBVIOUS
<1>2. 2 * p + 2 * k = 2 * (p + k) /\ 2 * n - 2 * k = 2 * (n - k)
  OBVIOUS
<1> QED BY <1>1, <1>2 DEF Skip, UnitVec, Vec, Iovec, Bytes

LEMMA AppendOne ==
    ASSUME NEW S, NEW k \in Nat, NEW f \in [1..(k + 1) -> S]
    PROVE  Append([i \in 1..k |-> f[i]], f[k + 1]) = f
<1> DEFINE g == [i \in 1..k |-> f[i]]
<1>1. g \in Seq(S) /\ Len(g) = k /\ \A i \in 1..k : g[i] = f[i]
  OBVIOUS
<1>2. f[k + 1] \in S /\ f \in Seq(S) /\ Len(f) = k + 1
  OBVIOUS
<1> HIDE DEF g
<1>3. /\ Append(g, f[k + 1]) \in Seq(S) /\ Len(Append(g, f[k + 1])) = k + 1
      /\ \A i \in 1..k : Append(g, f[k + 1])[i] = f[i]
      /\ Append(g, f[k + 1])[k + 1] = f[k + 1]
  BY <1>1, <1>2
<1>4. \A i \in 1..(k + 1) : Append(g, f[k + 1])[i] = f[i]
  BY <1>3
<1>5. Append(g, f[k + 1]) = f
  BY <1>2, <1>3, <1>4
<1> QED BY <1>5 DEF g

LEMMA DecodeAcesExists ==
    ASSUME NEW v, NEW m \in Nat
    PROVE  \E g : g = [i \in 0..m |-> IF i = 0 THEN [v |-> v, aces |-> <<>>] ELSE DecodeNext(g[i - 1])]
<1> DEFINE Z == [v |-> v, aces |-> <<>>]
           F(x, i) == DecodeNext(x)
           P(n) == \E g : g = [i \in 0..n |-> IF i = 0 THEN Z ELSE F(g[i - 1], i)]
           S == {n \in Nat : P(n)}
<1> HIDE DEF F, Z
<1>1. P(0)
  <2> DEFINE g == [i \in 0..0 |-> Z]
  <2>1. g = [i \in 0..0 |-> IF i = 0 THEN Z ELSE F(g[i - 1], i)]
    OBVIOUS
  <2> QED BY <2>1
<1>2. ASSUME NEW n \in Nat, P(n) PROVE P(n + 1)
  <2>1. PICK g : g = [i \in 0..n |-> IF i = 0 THEN Z ELSE F(g[i - 1], i)]
    BY <1>2
  <2> DEFINE h == [i \in 0..(n + 1) |-> IF i = n + 1 THEN F(g[n], n + 1) ELSE g[i]]
  <2>2. h = [i \in 0..(n + 1) |-> IF i = 0 THEN Z ELSE F(h[i - 1], i)]
    <3>1. \A i \in 0..n : g[i] = IF i = 0 THEN Z ELSE F(g[i - 1], i)
      BY <2>1
    <3>2. ASSUME NEW i \in 0..(n + 1) PROVE h[i] = IF i = 0 THEN Z ELSE F(h[i - 1], i)
      <4>1. CASE i = n + 1
        <5>1. h[i] = F(g[n], n + 1) /\ i - 1 = n /\ h[n] = g[n]
          BY <4>1
        <5> QED BY <4>1, <5>1
      <4>2. CASE i # n + 1
        <5>1. h[i] = g[i] /\ i \in 0..n /\ (i # 0 => h[i - 1] = g[i - 1])
          BY <4>2
        <5> QED BY <3>1, <5>1
      <4> QED BY <4>1, <4>2
    <3>3. h = [i \in 0..(n + 1) |-> h[i]]
      OBVIOUS
    <3> HIDE DEF h
    <3> QED BY <3>2, <3>3
  <2> QED BY <2>2
<1>3. Nat \subseteq S
  <2> HIDE DEF P
  <2>1. 0 \in S /\ \A n \in Nat : n \in S => n + 1 \in S
    BY <1>1, <1>2
  <2> HIDE DEF S
  <2> QED BY <2>1, SetInduction
<1>4. P(m)
  <2> HIDE DEF P
  <2> QED BY <1>3
<1> QED BY <1>4 DEF F, Z

(* The ACEs of a list as decode_acl reads them from a block of m units.    *)
DecodedAces(aces, buf, q, m) ==
    [i \in 1..Len(aces) |->
        DecodedAce(aces[i], buf, q + Len(AcesUpto(aces)[i - 1]), m - Len(AcesUpto(aces)[i - 1]))]

(* The rounds of the loop.                                                 *)
LEMMA DecodeAcesRounds ==
    ASSUME NEW v, NEW count \in Nat
    PROVE  \E after : /\ after[0] = [v |-> v, aces |-> <<>>]
                      /\ \A i \in 0..(count - 1) : after[i + 1] = DecodeNext(after[i])
                      /\ DecodeAces(v, count) = after[count]
<1> DEFINE Is(g) == g = [i \in 0..count |-> IF i = 0 THEN [v |-> v, aces |-> <<>>]
                                                    ELSE DecodeNext(g[i - 1])]
           after == CHOOSE g : Is(g)
<1>1. \E g : Is(g)
  BY DecodeAcesExists
<1>2. DecodeAces(v, count) = after[count]
  BY DEF DecodeAces
<1>3. Is(after)
  <2> HIDE DEF Is
  <2> QED BY <1>1
<1> HIDE DEF after
<1>4. \A i \in 0..count : after[i] = IF i = 0 THEN [v |-> v, aces |-> <<>>] ELSE DecodeNext(after[i - 1])
  BY <1>3
<1>5. after[0] = [v |-> v, aces |-> <<>>]
  <2>1. 0 \in 0..count
    OBVIOUS
  <2> QED BY <1>4, <2>1
<1>6. ASSUME NEW i \in 0..(count - 1) PROVE after[i + 1] = DecodeNext(after[i])
  <2>1. i + 1 \in 0..count /\ i + 1 # 0 /\ i + 1 - 1 = i
    OBVIOUS
  <2> QED BY <1>4, <2>1
<1> QED BY <1>2, <1>5, <1>6

LEMMA AcesAreDecoded ==
    ASSUME NEW aces \in Seq(Aces), NEW buf, NEW q \in Nat, NEW m \in Nat,
           Holds(buf, q, AcesUpto(aces)[Len(aces)]), m >= Len(AcesUpto(aces)[Len(aces)])
    PROVE  LET read == DecodeAces(UnitVec(buf, q, m), Len(aces))
           IN  read # Bad /\ read.aces = DecodedAces(aces, buf, q, m)
<1> DEFINE u == AcesUpto(aces)
           n == Len(aces)
           f == DecodedAces(aces, buf, q, m)
           Part(k) == [i \in 1..k |-> f[i]]
           State(k) == [v |-> UnitVec(buf, q + Len(u[k]), m - Len(u[k])), aces |-> Part(k)]
<1>0. n \in Nat
  OBVIOUS
<1>1. \A i \in 0..n : u[i] \in Seq(Nat)
  BY AcesUptoType
<1>2. \A i \in 1..n : /\ aces[i] \in Aces
                      /\ Len(u[i]) = Len(u[i - 1]) + Len(AceUnits(aces[i]))
  BY AcesUptoType
<1>3. \A i \in 1..n : /\ Holds(buf, q + Len(u[i - 1]), AceUnits(aces[i]))
                      /\ Len(u[i]) <= Len(u[n])
  BY AcesInPlace
<1>4. u[0] = <<>>
  BY AcesUptoEquation
<1>5. PICK after : /\ after[0] = [v |-> UnitVec(buf, q, m), aces |-> <<>>]
                   /\ \A i \in 0..(n - 1) : after[i + 1] = DecodeNext(after[i])
                   /\ DecodeAces(UnitVec(buf, q, m), n) = after[n]
  BY <1>0, DecodeAcesRounds
<1>6. f = [i \in 1..n |-> DecodedAce(aces[i], buf, q + Len(u[i - 1]), m - Len(u[i - 1]))]
  BY DEF DecodedAces
<1>61. m >= Len(u[n])
  OBVIOUS
<1> HIDE DEF u, f, n
<1>7. after[0] = State(0)
  <2>1. Len(u[0]) = 0 /\ q + 0 = q /\ m - 0 = m
    BY <1>4
  <2>2. Part(0) = <<>>
    OBVIOUS
  <2> HIDE DEF Part
  <2> QED BY <1>5, <2>1, <2>2
<1>8. ASSUME NEW k \in 0..(n - 1), after[k] = State(k) PROVE after[k + 1] = State(k + 1)
  <2>1. PICK i \in 1..n : i = k + 1 /\ i - 1 = k
    BY <1>0
  <2>2. PICK p \in Nat, j \in Nat, x \in Nat :
             p = q + Len(u[k]) /\ j = m - Len(u[k]) /\ x = Len(AceUnits(aces[i])) /\ x <= j
    <3>1. i \in 0..n /\ k \in 0..n /\ n \in 0..n
      BY <1>0, <2>1
    <3>2. PICK y \in Nat, z \in Nat, w \in Nat, x \in Nat :
             y = Len(u[k]) /\ z = Len(u[i]) /\ w = Len(u[n]) /\ x = Len(AceUnits(aces[i]))
      <4>1. Len(u[k]) \in Nat /\ Len(u[i]) \in Nat /\ Len(u[n]) \in Nat
        BY <1>1, <3>1
      <4>2. Len(AceUnits(aces[i])) \in Nat
        BY <1>2, AceUnitsAre
      <4> QED BY <4>1, <4>2
    <3>3. z = y + x /\ z <= w /\ w <= m
      <4>1. Len(u[i]) = Len(u[i - 1]) + Len(AceUnits(aces[i])) /\ Len(u[i]) <= Len(u[n])
        BY <1>2, <1>3
      <4> QED BY <1>61, <2>1, <3>2, <4>1
    <3>4. q + y \in Nat /\ m - y \in Nat /\ x <= m - y
      BY <3>3
    <3> QED BY <3>2, <3>4
  <2>3. aces[i] \in Aces /\ Holds(buf, p, AceUnits(aces[i]))
    BY <1>2, <1>3, <2>1, <2>2
  <2> DEFINE ace == DecodedAce(aces[i], buf, p, j)
  <2>4. decode_ace(UnitVec(buf, p, j)) = ace /\ ace # Bad
    <3>1. j >= Len(AceUnits(aces[i])) /\ aces[i] \in Aces
      BY <2>2, <2>3
    <3>2. Holds(buf, p, AceUnits(aces[i]))
      BY <2>3
    <3> QED BY <3>1, <3>2, AceIsDecoded
  <2>5. ace.ace_size = Bytes(AceUnits(aces[i]))
    BY DEF DecodedAce
  <2>6. f[i] = ace
    BY <1>6, <2>1, <2>2
  <2> HIDE DEF ace
  <2>7. Skip(UnitVec(buf, p, j), ace.ace_size) = UnitVec(buf, p + x, j - x)
    <3>1. PICK s \in Seq(Nat) : s = AceUnits(aces[i])
      BY <2>3, AceUnitsAre
    <3>2. j \in Int /\ p \in Nat
      BY <2>2
    <3>3. Skip(UnitVec(buf, p, j), Bytes(s)) = UnitVec(buf, p + Len(s), j - Len(s))
      BY <3>2, UnitSkip
    <3>4. x = Len(s) /\ ace.ace_size = Bytes(s)
      BY <2>2, <2>5, <3>1
    <3> QED BY <3>3, <3>4
  <2>8. p + x = q + Len(u[i]) /\ j - x = m - Len(u[i])
    <3>1. Len(u[i]) = Len(u[k]) + x
      BY <1>2, <2>1, <2>2
    <3>2. PICK y \in Nat : y = Len(u[k])
      <4>1. k \in 0..n
        BY <1>0, <2>1
      <4> QED BY <1>1, <4>1
    <3>3. p = q + y /\ j = m - y /\ Len(u[i]) = y + x
      BY <2>2, <3>1, <3>2
    <3>4. q + y + x = q + (y + x) /\ m - y - x = m - (y + x)
      OBVIOUS
    <3> QED BY <3>3, <3>4
  <2>9. Append(Part(k), ace) = Part(i)
    <3> DEFINE T == {f[l] : l \in 1..n}
               g == [l \in 1..(k + 1) |-> f[l]]
    <3>1. g \in [1..(k + 1) -> T] /\ g[k + 1] = f[k + 1]
      <4>1. \A l \in 1..(k + 1) : l \in 1..n
        BY <1>0, <2>1
      <4>2. \A l \in 1..(k + 1) : f[l] \in T
        BY <4>1
      <4>3. k + 1 \in 1..(k + 1)
        BY <2>1
      <4> HIDE DEF T
      <4> QED BY <4>2, <4>3
    <3>2. \A l \in 1..k : g[l] = f[l]
      BY <2>1
    <3> HIDE DEF T, g
    <3>3. Append([l \in 1..k |-> g[l]], g[k + 1]) = g
      <4>1. k \in Nat
        BY <2>1
      <4> QED BY <3>1, <4>1, AppendOne
    <3>4. [l \in 1..k |-> g[l]] = Part(k)
      BY <3>2
    <3>5. g = Part(i)
      BY <2>1 DEF g
    <3> QED BY <2>1, <2>6, <3>1, <3>3, <3>4, <3>5
  <2>10. after[k] = [v |-> UnitVec(buf, p, j), aces |-> Part(k)]
    BY <1>8, <2>2
  <2>11. State(i) = [v |-> UnitVec(buf, p + x, j - x), aces |-> Part(i)]
    BY <2>8
  <2>12. after[i] = DecodeNext(after[k])
    BY <1>5, <2>1
  <2> HIDE DEF Part, State
  <2>13. DecodeNext([v |-> UnitVec(buf, p, j), aces |-> Part(k)])
            = [v |-> UnitVec(buf, p + x, j - x), aces |-> Part(i)]
    <3>1. [v |-> UnitVec(buf, p, j), aces |-> Part(k)] # Bad
      BY DEF Bad
    <3> DEFINE s == [v |-> UnitVec(buf, p, j), aces |-> Part(k)]
    <3>2. s.v = UnitVec(buf, p, j) /\ s.aces = Part(k) /\ s # Bad
      BY <3>1
    <3> HIDE DEF s
    <3>3. DecodeNext(s) = [v |-> UnitVec(buf, p + x, j - x), aces |-> Part(i)]
      BY <2>4, <2>7, <2>9, <3>2 DEF DecodeNext
    <3> QED BY <3>3 DEF s
  <2> QED BY <2>1, <2>10, <2>11, <2>12, <2>13
<1> DEFINE S == {k \in Nat : k <= n => after[k] = State(k)}
<1>9. after[n] = State(n)
  <2> HIDE DEF State
  <2>1. 0 \in S
    BY <1>7
  <2>2. \A k \in Nat : k \in S => k + 1 \in S
    BY <1>0, <1>8
  <2>3. Nat \subseteq S
    <3> HIDE DEF S
    <3> QED BY <2>1, <2>2, SetInduction
  <2> QED BY <1>0, <2>3
<1>10. Part(n) = f
  BY <1>6
<1>11. State(n) # Bad /\ State(n).aces = f
  <2>1. State(n) = [v |-> UnitVec(buf, q + Len(u[n]), m - Len(u[n])), aces |-> Part(n)]
    OBVIOUS
  <2>2. State(n) # Bad
    BY <2>1 DEF Bad
  <2> QED BY <2>1, <2>2, <1>10
<1> HIDE DEF State
<1>12. after[n] # Bad /\ after[n].aces = f
  BY <1>9, <1>11
<1> QED BY <1>5, <1>12 DEF n, f

LEMMA AclFields ==
    ASSUME NEW acl \in Acls
    PROVE  acl.aces \in Seq(Aces) /\ Len(acl.aces) \in Nat /\ acl.slack \in Nat /\ acl.slack % 4 = 0
           /\ acl # None
<1>1. acl.aces \in Seq(Aces) /\ acl.slack \in Nat /\ acl.slack % 4 = 0
  BY DEF Acls
<1>2. acl # None
  BY DEF Acls, None
<1> QED BY <1>1, <1>2

(* The units of all the ACEs of an ACL.                                    *)
AllAces(aces) == AcesUpto(aces)[Len(aces)]

LEMMA AclUnitsAre ==
    ASSUME NEW acl \in Acls
    PROVE  /\ AllAces(acl.aces) \in Seq(Nat)
           /\ AclUnits(acl) = <<2, Bytes(AclUnits(acl)), Len(acl.aces), 0>>
                                \o (AllAces(acl.aces) \o Zeros(acl.slack))
           /\ AclUnits(acl) \in Seq(Nat)
           /\ Len(AclUnits(acl)) = 4 + Len(AllAces(acl.aces)) + acl.slack \div 2
           /\ Bytes(AclUnits(acl)) \in Nat
           /\ AclUnits(acl) # <<>>
<1> DEFINE c == AllAces(acl.aces)
           z == Zeros(acl.slack)
           body == c \o z
           n == Len(acl.aces)
           h == <<2, 8 + Bytes(body), n, 0>>
<1>1. AclUnits(acl) = h \o body
  BY DEF AclUnits, AllAces
<1>2. n \in Nat /\ acl.slack \in Nat /\ acl.aces \in Seq(Aces)
  BY AclFields
<1>3. c \in Seq(Nat)
  <2>1. n \in 0..n
    BY <1>2
  <2> QED BY <1>2, <2>1, AcesUptoType DEF AllAces
<1>4. z \in Seq(Nat) /\ Len(z) = acl.slack \div 2
  BY <1>2, ZerosAre
<1> HIDE DEF c, z, n
<1>5. body \in Seq(Nat) /\ Len(body) = Len(c) + Len(z)
  BY <1>3, <1>4, Joined
<1> HIDE DEF body
<1>6. PICK b \in Nat, m \in Nat : b = 8 + Bytes(body) /\ m = n
  BY <1>2, <1>5 DEF Bytes
<1>7. h \in Seq(Nat) /\ Len(h) = 4
  BY <1>6
<1> HIDE DEF h
<1>8. PICK u \in Seq(Nat) : u = AclUnits(acl) /\ Len(u) = 4 + Len(body)
  <2>1. h \o body \in Seq(Nat) /\ Len(h \o body) = Len(h) + Len(body)
    BY <1>5, <1>7, Joined
  <2> QED BY <1>1, <1>7, <2>1
<1>9. Bytes(u) = 8 + Bytes(body)
  BY <1>5, <1>8 DEF Bytes
<1>10. Bytes(u) \in Nat /\ Len(u) = 4 + Len(c) + acl.slack \div 2 /\ u # <<>>
  BY SMTT(30), <1>2, <1>3, <1>4, <1>5, <1>8 DEF Bytes
<1> QED BY <1>1, <1>3, <1>8, <1>9, <1>10 DEF h, body, c, z, n

(* What decode_acl makes of an ACL at position p.                          *)
DecodedAcl(acl, buf, p) ==
    [revision |-> 2, acl_size |-> Bytes(AclUnits(acl)), ace_count |-> Len(acl.aces),
     aces |-> DecodedAces(acl.aces, buf, p + 4, Len(AclUnits(acl)) - 4)]

(* An ACL in a block is decoded ACE by ACE, up to the size it carries.     *)
LEMMA AclIsDecoded ==
    ASSUME NEW acl \in Acls, NEW buf, NEW p \in Nat, Holds(buf, p, AclUnits(acl)),
           NEW l \in Int, l >= Bytes(AclUnits(acl))
    PROVE  decode_acl(Vec(buf, p, l)) = DecodedAcl(acl, buf, p) /\ DecodedAcl(acl, buf, p) # Bad
<1> DEFINE v == Vec(buf, p, l)
           c == AllAces(acl.aces)
           z == Zeros(acl.slack)
           n == Len(acl.aces)
           size == Bytes(AclUnits(acl))
           h == <<2, size, n, 0>>
<1>1. n \in Nat /\ acl.slack \in Nat /\ acl.aces \in Seq(Aces)
  BY AclFields
<1>2. /\ c \in Seq(Nat) /\ size \in Nat
      /\ AclUnits(acl) = h \o (c \o z)
      /\ Len(AclUnits(acl)) = 4 + Len(c) + acl.slack \div 2
  BY AclUnitsAre
<1>3. z \in Seq(Nat)
  BY <1>1, ZerosAre
<1>4. PICK k \in Nat : /\ k = Len(AclUnits(acl)) - 4 /\ size = 2 * (k + 4) /\ k + 4 = Len(AclUnits(acl))
                       /\ k >= Len(c)
  <2>1. PICK x \in Nat, y \in Nat : x = Len(c) /\ y = acl.slack \div 2
    BY <1>1, <1>2
  <2>2. Len(AclUnits(acl)) = 4 + x + y
    BY <1>2, <2>1
  <2>3. x + y \in Nat /\ x + y = (4 + x + y) - 4 /\ 2 * (4 + x + y) = 2 * (x + y + 4) /\ x + y >= x
        /\ x + y + 4 = 4 + x + y
    OBVIOUS
  <2> QED BY <2>1, <2>2, <2>3 DEF Bytes
<1>5. h[1] = 2 /\ h[2] = size /\ h[3] = n
  OBVIOUS
<1>6. h \in Seq(Nat) /\ Len(h) = 4
  BY <1>1, <1>2
<1> HIDE DEF h, c, z, n, size
<1>7. c \o z \in Seq(Nat)
  BY <1>2, <1>3, Joined
<1>8. Holds(buf, p, h) /\ Holds(buf, p + 4, c \o z)
  BY <1>2, <1>6, <1>7, HoldsParts
<1>9. Holds(buf, p + 4, c)
  BY <1>2, <1>3, <1>8, HoldsParts
<1>10. Get16(v, 0) = 2 /\ Get16(v, 2) = size /\ Get16(v, 4) = n /\ v.len = l
  <2>1. 1 \in 1..4 /\ 2 \in 1..4 /\ 3 \in 1..4
    OBVIOUS
  <2>2. buf[p + 1] = h[1] /\ buf[p + 2] = h[2] /\ buf[p + 3] = h[3]
    BY <1>6, <1>8, <2>1 DEF Holds
  <2>3. Get16(v, 0) = buf[p + 1] /\ Get16(v, 2) = buf[p + 2] /\ Get16(v, 4) = buf[p + 3] /\ v.len = l
    BY VecGet
  <2> QED BY <1>5, <2>2, <2>3
<1>11. Iovec(v.buf, v.at + 8, Room(size, 8)) = UnitVec(buf, p + 4, k)
  <2>1. 2 * p + 8 = 2 * (p + 4) /\ 2 * (k + 4) - 8 = 2 * k /\ 8 <= 2 * (k + 4)
    OBVIOUS
  <2>2. Room(size, 8) = 2 * k
    BY <1>4, <2>1 DEF Room
  <2> QED BY <2>1, <2>2 DEF Iovec, UnitVec, Vec
<1> DEFINE read == DecodeAces(UnitVec(buf, p + 4, k), n)
           f == DecodedAces(acl.aces, buf, p + 4, k)
<1>12. read # Bad /\ read.aces = f
  <2>1. PICK q \in Nat : q = p + 4
    OBVIOUS
  <2>2. /\ Holds(buf, q, AcesUpto(acl.aces)[Len(acl.aces)])
        /\ k >= Len(AcesUpto(acl.aces)[Len(acl.aces)])
    BY <1>4, <1>9, <2>1 DEF c, AllAces
  <2>3. LET r == DecodeAces(UnitVec(buf, q, k), Len(acl.aces))
        IN  r # Bad /\ r.aces = DecodedAces(acl.aces, buf, q, k)
    BY <1>1, <2>2, AcesAreDecoded
  <2> QED BY <2>1, <2>3 DEF n
<1>13. ~(l < 8) /\ ~(l < size) /\ 2 \in {2, 4}
  BY <1>2, <1>4 DEF size
<1> HIDE DEF v, read, f
<1>14. decode_acl(v) = [revision |-> 2, acl_size |-> size, ace_count |-> n, aces |-> f]
  BY <1>10, <1>11, <1>12, <1>13 DEF decode_acl, read
<1>15. [revision |-> 2, acl_size |-> size, ace_count |-> n, aces |-> f] # Bad
  BY DEF Bad
<1>16. DecodedAcl(acl, buf, p) = [revision |-> 2, acl_size |-> size, ace_count |-> n, aces |-> f]
  BY <1>4 DEF DecodedAcl, size, n, f
<1> QED BY <1>14, <1>15, <1>16 DEF v
-----------------------------------------------------------------------------
(* The descriptor as a whole.                                              *)

(* The header, with the offsets of owner, group and DACL.                  *)
HeadUnits(control, owner, group, dacl) ==
    <<1, control>> \o Set32(owner) \o Set32(group) \o Set32(0) \o Set32(dacl)

LEMMA HeadIs ==
    ASSUME NEW c \in Nat, NEW x \in Nat, NEW y \in Nat, NEW w \in Nat,
           NEW buf, Holds(buf, 0, HeadUnits(c, x, y, w))
    PROVE  /\ HeadUnits(c, x, y, w) \in Seq(Nat) /\ Len(HeadUnits(c, x, y, w)) = 10
           /\ buf[1] = 1 /\ buf[2] = c
           /\ buf[3] + Base * buf[4] = x
           /\ buf[5] + Base * buf[6] = y
           /\ buf[9] + Base * buf[10] = w
<1> DEFINE a == <<1, c>>
           x2 == Set32(x)
           y2 == Set32(y)
           z2 == Set32(0)
           w2 == Set32(w)
           ax == a \o x2
           axy == ax \o y2
           axyz == axy \o z2
<1>1. a \in Seq(Nat) /\ Len(a) = 2 /\ a[1] = 1 /\ a[2] = c
  OBVIOUS
<1>2. /\ x2 \in Seq(Nat) /\ Len(x2) = 2
      /\ y2 \in Seq(Nat) /\ Len(y2) = 2
      /\ w2 \in Seq(Nat) /\ Len(w2) = 2
      /\ z2 \in Seq(Nat) /\ Len(z2) = 2
  BY Set32Units
<1>21. /\ x2[1] + Base * x2[2] = x
       /\ y2[1] + Base * y2[2] = y
       /\ w2[1] + Base * w2[2] = w
  BY Set32Units
<1>3. HeadUnits(c, x, y, w) = axyz \o w2
  BY DEF HeadUnits
<1> HIDE DEF a, x2, y2, z2, w2
<1>4. ax \in Seq(Nat) /\ Len(ax) = 4
  <2>1. ax \in Seq(Nat) /\ Len(ax) = Len(a) + Len(x2)
    BY <1>1, <1>2, Joined
  <2> HIDE DEF ax
  <2> QED BY <1>1, <1>2, <2>1
<1> HIDE DEF ax
<1>5. axy \in Seq(Nat) /\ Len(axy) = 6
  <2>1. axy \in Seq(Nat) /\ Len(axy) = Len(ax) + Len(y2)
    BY <1>4, <1>2, Joined
  <2> HIDE DEF axy
  <2> QED BY <1>4, <1>2, <2>1
<1> HIDE DEF axy
<1>6. axyz \in Seq(Nat) /\ Len(axyz) = 8
  <2>1. axyz \in Seq(Nat) /\ Len(axyz) = Len(axy) + Len(z2)
    BY <1>5, <1>2, Joined
  <2> HIDE DEF axyz
  <2> QED BY <1>5, <1>2, <2>1
<1> HIDE DEF axyz
<1>7. axyz \o w2 \in Seq(Nat) /\ Len(axyz \o w2) = 10
  <2>1. axyz \o w2 \in Seq(Nat) /\ Len(axyz \o w2) = Len(axyz) + Len(w2)
    BY <1>6, <1>2, Joined
  <2> HIDE DEF axyz
  <2> QED BY <1>6, <1>2, <2>1
<1>8. Holds(buf, 0, axyz) /\ Holds(buf, 8, w2)
  <2>1. Holds(buf, 0, axyz \o w2)
    BY <1>3
  <2>2. Holds(buf, 0, axyz) /\ Holds(buf, 0 + Len(axyz), w2)
    BY <1>2, <1>6, <2>1, HoldsParts
  <2> QED BY <1>6, <2>2
<1>9. Holds(buf, 0, axy)
  BY <1>2, <1>5, <1>8, HoldsParts DEF axyz
<1>10. Holds(buf, 0, ax) /\ Holds(buf, 4, y2)
  <2>1. Holds(buf, 0, ax) /\ Holds(buf, 0 + Len(ax), y2)
    BY <1>2, <1>4, <1>9, HoldsParts DEF axy
  <2> QED BY <1>4, <2>1
<1>11. Holds(buf, 0, a) /\ Holds(buf, 2, x2)
  <2>1. Holds(buf, 0, a) /\ Holds(buf, 0 + Len(a), x2)
    BY <1>1, <1>2, <1>10, HoldsParts DEF ax
  <2> QED BY <1>1, <2>1
<1>12. 1 \in 1..2 /\ 2 \in 1..2
  OBVIOUS
<1>13. buf[1] = 1 /\ buf[2] = c
  <2>1. buf[0 + 1] = a[1] /\ buf[0 + 2] = a[2]
    BY <1>1, <1>11, <1>12 DEF Holds
  <2> QED BY <1>1, <2>1
<1>14. buf[3] = x2[1] /\ buf[4] = x2[2]
  <2>1. buf[2 + 1] = x2[1] /\ buf[2 + 2] = x2[2]
    BY <1>2, <1>11, <1>12 DEF Holds
  <2> QED BY <2>1
<1>15. buf[5] = y2[1] /\ buf[6] = y2[2]
  <2>1. buf[4 + 1] = y2[1] /\ buf[4 + 2] = y2[2]
    BY <1>2, <1>10, <1>12 DEF Holds
  <2> QED BY <2>1
<1>16. buf[9] = w2[1] /\ buf[10] = w2[2]
  <2>1. buf[8 + 1] = w2[1] /\ buf[8 + 2] = w2[2]
    BY <1>2, <1>8, <1>12 DEF Holds
  <2> QED BY <2>1
<1> QED BY <1>21, <1>3, <1>7, <1>13, <1>14, <1>15, <1>16

(* The parts a server sends, and where they lie behind the header.         *)
SidPart(sid) == IF sid = None THEN <<>> ELSE SidUnits(sid)
AclPart(acl) == IF acl = None THEN <<>> ELSE AclUnits(acl)
OwnerPos(d) == IF d.acl_first THEN Len(AclPart(d.dacl)) ELSE 0
GroupPos(d) == OwnerPos(d) + Len(SidPart(d.owner))
DaclPos(d) == IF d.acl_first THEN 0 ELSE Len(SidPart(d.owner)) + Len(SidPart(d.group))
Offset(part, pos) == IF part = None THEN 0 ELSE 20 + 2 * pos

LEMMA DescriptorFields ==
    ASSUME NEW d \in Descriptors
    PROVE  /\ d.owner = None \/ d.owner \in Sids
           /\ d.group = None \/ d.group \in Sids
           /\ d.dacl = None \/ d.dacl \in Acls
           /\ d.acl_first \in BOOLEAN
  BY DEF Descriptors

LEMMA PartTypes ==
    ASSUME NEW d \in Descriptors
    PROVE  /\ SidPart(d.owner) \in Seq(Nat) /\ (SidPart(d.owner) = <<>> <=> d.owner = None)
           /\ SidPart(d.group) \in Seq(Nat) /\ (SidPart(d.group) = <<>> <=> d.group = None)
           /\ AclPart(d.dacl) \in Seq(Nat) /\ (AclPart(d.dacl) = <<>> <=> d.dacl = None)
<1>1. ASSUME NEW s, s = None \/ s \in Sids
      PROVE  SidPart(s) \in Seq(Nat) /\ (SidPart(s) = <<>> <=> s = None)
  <2>1. CASE s = None
    <3>1. SidPart(s) = <<>>
      BY <2>1 DEF SidPart
    <3> QED BY <2>1, <3>1
  <2>2. CASE s \in Sids
    <3>1. s # None /\ SidUnits(s) \in Seq(Nat) /\ SidUnits(s) # <<>>
      BY <2>2, SidFields, SidUnitsAre
    <3>2. SidPart(s) = SidUnits(s)
      BY <3>1 DEF SidPart
    <3> QED BY <3>1, <3>2
  <2> QED BY <1>1, <2>1, <2>2
<1>2. ASSUME NEW s, s = None \/ s \in Acls
      PROVE  AclPart(s) \in Seq(Nat) /\ (AclPart(s) = <<>> <=> s = None)
  <2>1. CASE s = None
    <3>1. AclPart(s) = <<>>
      BY <2>1 DEF AclPart
    <3> QED BY <2>1, <3>1
  <2>2. CASE s \in Acls
    <3>1. s # None
      BY <2>2 DEF Acls, None
    <3>2. AclUnits(s) \in Seq(Nat) /\ AclUnits(s) # <<>>
      BY <2>2, AclUnitsAre
    <3>3. AclPart(s) = AclUnits(s)
      BY <3>1 DEF AclPart
    <3> QED BY <3>1, <3>2, <3>3
  <2> QED BY <1>2, <2>1, <2>2
<1> QED BY <1>1, <1>2, DescriptorFields

PartsUnits(d) ==
    IF d.acl_first THEN (AclPart(d.dacl) \o SidPart(d.owner)) \o SidPart(d.group)
    ELSE (SidPart(d.owner) \o SidPart(d.group)) \o AclPart(d.dacl)

HeadOf(d) ==
    HeadUnits(4, Offset(d.owner, OwnerPos(d)), Offset(d.group, GroupPos(d)), Offset(d.dacl, DaclPos(d)))

LEMMA PositionTypes ==
    ASSUME NEW d \in Descriptors
    PROVE  /\ OwnerPos(d) \in Nat /\ GroupPos(d) \in Nat /\ DaclPos(d) \in Nat
           /\ Offset(d.owner, OwnerPos(d)) \in Nat
           /\ Offset(d.group, GroupPos(d)) \in Nat
           /\ Offset(d.dacl, DaclPos(d)) \in Nat
<1>1. Len(SidPart(d.owner)) \in Nat /\ Len(SidPart(d.group)) \in Nat /\ Len(AclPart(d.dacl)) \in Nat
  BY PartTypes
<1>2. OwnerPos(d) \in Nat
  BY <1>1 DEF OwnerPos
<1>3. GroupPos(d) \in Nat
  BY <1>1, <1>2 DEF GroupPos
<1>4. DaclPos(d) \in Nat
  BY <1>1 DEF DaclPos
<1>5. \A part : \A n \in Nat : Offset(part, n) \in Nat
  BY DEF Offset
<1> QED BY <1>2, <1>3, <1>4, <1>5

LEMMA DescriptorUnitsAre ==
    ASSUME NEW d \in Descriptors
    PROVE  DescriptorUnits(d) = HeadOf(d) \o PartsUnits(d)
<1> DEFINE o == SidPart(d.owner)
           g == SidPart(d.group)
           a == AclPart(d.dacl)
           At(part, before) == IF part = <<>> THEN Set32(0) ELSE Set32(20 + before)
           sids == IF d.acl_first THEN Bytes(a) ELSE 0
           acl == IF d.acl_first THEN 0 ELSE Bytes(o) + Bytes(g)
<1>1. DescriptorUnits(d) =
        (<<1, 4>> \o At(o, sids) \o At(g, sids + Bytes(o)) \o Set32(0) \o At(a, acl))
          \o (IF d.acl_first THEN a \o o \o g ELSE o \o g \o a)
  BY DEF DescriptorUnits, SidPart, AclPart
<1>2. /\ o = <<>> <=> d.owner = None
      /\ g = <<>> <=> d.group = None
      /\ a = <<>> <=> d.dacl = None
      /\ Len(o) \in Nat /\ Len(g) \in Nat /\ Len(a) \in Nat
  BY PartTypes
<1>3. (IF d.acl_first THEN a \o o \o g ELSE o \o g \o a) = PartsUnits(d)
  BY DEF PartsUnits
<1>4. sids = 2 * OwnerPos(d) /\ sids + Bytes(o) = 2 * GroupPos(d) /\ acl = 2 * DaclPos(d)
  <2> HIDE DEF o, g, a
  <2>1. /\ OwnerPos(d) = IF d.acl_first THEN Len(a) ELSE 0
        /\ GroupPos(d) = OwnerPos(d) + Len(o)
        /\ DaclPos(d) = IF d.acl_first THEN 0 ELSE Len(o) + Len(g)
    BY DEF OwnerPos, GroupPos, DaclPos, o, g, a
  <2>2. PICK i \in Nat, j \in Nat, k \in Nat : i = Len(o) /\ j = Len(g) /\ k = Len(a)
    BY <1>2
  <2>3. Bytes(o) = 2 * i /\ Bytes(g) = 2 * j /\ Bytes(a) = 2 * k
    BY <2>2 DEF Bytes
  <2>4. CASE d.acl_first
    <3>1. OwnerPos(d) = k /\ GroupPos(d) = k + i /\ DaclPos(d) = 0
      BY <2>1, <2>2, <2>4
    <3>2. sids = 2 * k /\ sids + Bytes(o) = 2 * k + 2 * i /\ acl = 0
      BY <2>3, <2>4
    <3> QED BY <3>1, <3>2
  <2>5. CASE ~d.acl_first
    <3>1. OwnerPos(d) = 0 /\ GroupPos(d) = i /\ DaclPos(d) = i + j
      BY <2>1, <2>2, <2>5
    <3>2. sids = 0 /\ sids + Bytes(o) = 2 * i /\ acl = 2 * i + 2 * j
      BY <2>3, <2>5
    <3> QED BY <3>1, <3>2
  <2> QED BY <2>4, <2>5
<1> HIDE DEF o, g, a, sids, acl
<1>5. /\ At(o, sids) = Set32(Offset(d.owner, OwnerPos(d)))
      /\ At(g, sids + Bytes(o)) = Set32(Offset(d.group, GroupPos(d)))
      /\ At(a, acl) = Set32(Offset(d.dacl, DaclPos(d)))
  BY <1>2, <1>4 DEF Offset
<1> HIDE DEF At
<1> QED BY <1>1, <1>3, <1>5 DEF HeadOf, HeadUnits

(* Where everything lies in the block of a descriptor.                     *)
LEMMA DescriptorLaidOut ==
    ASSUME NEW d \in Descriptors
    PROVE  LET u == DescriptorUnits(d)
           IN  /\ u \in Seq(Nat)
               /\ Len(u) = 10 + Len(SidPart(d.owner)) + Len(SidPart(d.group)) + Len(AclPart(d.dacl))
               /\ Holds(u, 0, HeadOf(d))
               /\ Holds(u, 10 + OwnerPos(d), SidPart(d.owner))
               /\ Holds(u, 10 + GroupPos(d), SidPart(d.group))
               /\ Holds(u, 10 + DaclPos(d), AclPart(d.dacl))
<1> DEFINE o == SidPart(d.owner)
           g == SidPart(d.group)
           a == AclPart(d.dacl)
           h == HeadOf(d)
           b == PartsUnits(d)
           u == DescriptorUnits(d)
<1>1. o \in Seq(Nat) /\ g \in Seq(Nat) /\ a \in Seq(Nat)
  BY PartTypes
<1>2. h \in Seq(Nat) /\ Len(h) = 10
  <2>1. Holds(h, 0, h)
    BY DEF Holds
  <2> QED BY <2>1, PositionTypes, HeadIs DEF HeadOf
<1>3. u = h \o b
  BY DescriptorUnitsAre
<1>4. b = IF d.acl_first THEN (a \o o) \o g ELSE (o \o g) \o a
  BY DEF PartsUnits
<1>5. /\ OwnerPos(d) = IF d.acl_first THEN Len(a) ELSE 0
      /\ GroupPos(d) = OwnerPos(d) + Len(o)
      /\ DaclPos(d) = IF d.acl_first THEN 0 ELSE Len(o) + Len(g)
  BY DEF OwnerPos, GroupPos, DaclPos
<1> HIDE DEF o, g, a, h, b, u
<1>6. Len(o) \in Nat /\ Len(g) \in Nat /\ Len(a) \in Nat
  BY <1>1
<1>7. ASSUME NEW x \in Seq(Nat), NEW y \in Seq(Nat), NEW z \in Seq(Nat), b = (x \o y) \o z
      PROVE  /\ u \in Seq(Nat) /\ Len(u) = 10 + Len(x) + Len(y) + Len(z)
             /\ Holds(u, 0, h)
             /\ Holds(u, 10, x)
             /\ Holds(u, 10 + Len(x), y)
             /\ Holds(u, 10 + (Len(x) + Len(y)), z)
  <2> DEFINE xy == x \o y
  <2>1. xy \in Seq(Nat) /\ Len(xy) = Len(x) + Len(y)
    BY Joined
  <2>2. b = xy \o z
    BY <1>7
  <2>3. \A p \in Nat : \A s : Holds(s, p, xy) => Holds(s, p, x) /\ Holds(s, p + Len(x), y)
    BY HoldsParts
  <2> HIDE DEF xy
  <2>4. b \in Seq(Nat) /\ Len(b) = Len(xy) + Len(z)
    BY <2>1, <2>2, Joined
  <2>5. u \in Seq(Nat) /\ Len(u) = 10 + Len(b)
    BY <1>2, <1>3, <2>4, Joined
  <2>6. Holds(u, 0, h) /\ Holds(u, 10, b)
    <3>1. Holds(u, 0, h \o b)
      BY <1>3, <2>5, HoldsItself
    <3>2. Holds(u, 0, h) /\ Holds(u, 0 + Len(h), b)
      BY <1>2, <2>4, <3>1, HoldsParts
    <3> QED BY <1>2, <3>2
  <2>7. Holds(u, 10, xy) /\ Holds(u, 10 + Len(xy), z)
    BY <2>1, <2>2, <2>6, HoldsParts
  <2>8. Len(u) = 10 + Len(x) + Len(y) + Len(z)
    <3>1. PICK i \in Nat, j \in Nat, k \in Nat : i = Len(x) /\ j = Len(y) /\ k = Len(z)
      OBVIOUS
    <3>2. Len(u) = 10 + ((i + j) + k)
      BY <2>1, <2>4, <2>5, <3>1
    <3>3. 10 + ((i + j) + k) = 10 + i + j + k
      OBVIOUS
    <3> QED BY <3>1, <3>2, <3>3
  <2> QED BY <2>1, <2>3, <2>5, <2>6, <2>7, <2>8
<1>8. PICK i \in Nat, j \in Nat, k \in Nat : i = Len(o) /\ j = Len(g) /\ k = Len(a)
  BY <1>6
<1>9. CASE d.acl_first
  <2>1. OwnerPos(d) = k /\ GroupPos(d) = k + i /\ DaclPos(d) = 0
    BY <1>5, <1>8, <1>9
  <2>2. /\ u \in Seq(Nat) /\ Len(u) = 10 + k + i + j
        /\ Holds(u, 0, h)
        /\ Holds(u, 10, a) /\ Holds(u, 10 + k, o) /\ Holds(u, 10 + (k + i), g)
    BY <1>1, <1>4, <1>7, <1>8, <1>9
  <2>3. 10 + 0 = 10 /\ 10 + k + i + j = 10 + i + j + k
    OBVIOUS
  <2>4. /\ u \in Seq(Nat) /\ Len(u) = 10 + Len(o) + Len(g) + Len(a)
        /\ Holds(u, 0, h)
        /\ Holds(u, 10 + OwnerPos(d), o) /\ Holds(u, 10 + GroupPos(d), g) /\ Holds(u, 10 + DaclPos(d), a)
    BY <1>8, <2>1, <2>2, <2>3
  <2> QED BY <2>4 DEF o, g, a, h, u
<1>10. CASE ~d.acl_first
  <2>1. OwnerPos(d) = 0 /\ GroupPos(d) = i /\ DaclPos(d) = i + j
    BY <1>5, <1>8, <1>10
  <2>2. /\ u \in Seq(Nat) /\ Len(u) = 10 + i + j + k
        /\ Holds(u, 0, h)
        /\ Holds(u, 10, o) /\ Holds(u, 10 + i, g) /\ Holds(u, 10 + (i + j), a)
    BY <1>1, <1>4, <1>7, <1>8, <1>10
  <2>4. /\ u \in Seq(Nat) /\ Len(u) = 10 + Len(o) + Len(g) + Len(a)
        /\ Holds(u, 0, h)
        /\ Holds(u, 10 + OwnerPos(d), o) /\ Holds(u, 10 + GroupPos(d), g) /\ Holds(u, 10 + DaclPos(d), a)
    BY <1>8, <2>1, <2>2
  <2> QED BY <2>4 DEF o, g, a, h, u
<1> QED BY <1>9, <1>10

(* A part of the descriptor that is present.                               *)
LEMMA FromIs ==
    ASSUME NEW u, NEW l \in Int, NEW pos \in Nat
    PROVE  From(Vec(u, 0, l), 20 + 2 * pos) = Vec(u, 10 + pos, l - (20 + 2 * pos))
<1>1. 20 + 2 * pos = 2 * (10 + pos)
  OBVIOUS
<1> QED BY <1>1 DEF From, Vec, Iovec

LEMMA SidPartIsDecoded ==
    ASSUME NEW s, s = None \/ s \in Sids, NEW u \in Seq(Nat), NEW pos \in Nat,
           Holds(u, 10 + pos, SidPart(s)), 10 + pos + Len(SidPart(s)) <= Len(u)
    PROVE  LET vec == Vec(u, 0, Bytes(u))
           IN  (IF Present(vec, Offset(s, pos)) THEN decode_sid(From(vec, Offset(s, pos))) ELSE None) = s
<1> DEFINE vec == Vec(u, 0, Bytes(u))
<1>1. CASE s = None
  <2>1. ~Present(vec, Offset(s, pos))
    BY <1>1 DEF Offset, Present
  <2> QED BY <1>1, <2>1
<1>2. CASE s \in Sids
  <2>1. s # None /\ SidSize(s) \in Nat /\ SidSize(s) >= 12
    <3>1. PICK c \in Nat : c > 0 /\ SidSize(s) = 8 + 4 * c /\ s # None
      BY <1>2, SidFields
    <3> QED BY <3>1
  <2>2. SidPart(s) = SidUnits(s) /\ Offset(s, pos) = 20 + 2 * pos
    BY <2>1 DEF SidPart, Offset
  <2>3. PICK k \in Nat, l \in Nat : /\ k = Len(SidPart(s)) /\ SidSize(s) = 2 * k /\ Bytes(u) = 2 * l
                                    /\ 10 + pos + k <= l
    <3>1. SidUnits(s) \in Seq(Nat) /\ Bytes(SidUnits(s)) = SidSize(s)
      BY <1>2, SidUnitsAre
    <3>2. PICK k \in Nat, l \in Nat : k = Len(SidUnits(s)) /\ l = Len(u)
      BY <3>1
    <3> QED BY <2>2, <3>1, <3>2 DEF Bytes
  <2>4. vec.len = 2 * l
    BY <2>3 DEF Vec
  <2>5. Present(vec, 20 + 2 * pos)
    <3>1. 20 + 2 * pos > 0 /\ 20 + 2 * pos + 8 < 2 * l
      BY <2>1, <2>3
    <3> HIDE DEF vec
    <3> QED BY <2>4, <3>1 DEF Present
  <2>6. From(vec, 20 + 2 * pos) = Vec(u, 10 + pos, 2 * l - (20 + 2 * pos))
    <3>1. PICK r \in Int : r = Bytes(u)
      BY <2>3
    <3>2. From(Vec(u, 0, r), 20 + 2 * pos) = Vec(u, 10 + pos, r - (20 + 2 * pos))
      BY FromIs
    <3>3. Bytes(u) = 2 * l
      BY <2>3
    <3> QED BY <3>1, <3>2, <3>3
  <2>7. decode_sid(Vec(u, 10 + pos, 2 * l - (20 + 2 * pos))) = s
    <3>1. PICK p \in Nat, r \in Int : p = 10 + pos /\ r = 2 * l - (20 + 2 * pos)
      OBVIOUS
    <3>2. Holds(u, p, SidUnits(s)) /\ r >= SidSize(s)
      BY <2>2, <2>3, <3>1
    <3>3. decode_sid(Vec(u, p, r)) = s
      BY <1>2, <3>2, SidIsDecoded
    <3> QED BY <3>1, <3>3
  <2> HIDE DEF vec
  <2>8. (IF Present(vec, Offset(s, pos)) THEN decode_sid(From(vec, Offset(s, pos))) ELSE None) = s
    BY <2>2, <2>5, <2>6, <2>7
  <2> QED BY <2>8 DEF vec
<1> QED BY <1>1, <1>2

(* An ACL is taken for absent if nothing is in it or behind it.            *)
LEMMA AclPartIsDecoded ==
    ASSUME NEW a, a = None \/ a \in Acls, NEW u \in Seq(Nat), NEW pos \in Nat,
           Holds(u, 10 + pos, AclPart(a)), 10 + pos + Len(AclPart(a)) <= Len(u)
    PROVE  LET vec == Vec(u, 0, Bytes(u))
           IN  (IF Present(vec, Offset(a, pos)) THEN decode_acl(From(vec, Offset(a, pos))) ELSE None)
                = IF a = None THEN None
                  ELSE IF Len(u) = 10 + pos + 4 THEN None
                  ELSE DecodedAcl(a, u, 10 + pos)
<1> DEFINE vec == Vec(u, 0, Bytes(u))
<1>1. CASE a = None
  <2>1. ~Present(vec, Offset(a, pos))
    BY <1>1 DEF Offset, Present
  <2> QED BY <1>1, <2>1
<1>2. CASE a \in Acls
  <2>1. a # None
    BY <1>2, AclFields
  <2>2. AclPart(a) = AclUnits(a) /\ Offset(a, pos) = 20 + 2 * pos
    BY <2>1 DEF AclPart, Offset
  <2>3. PICK k \in Nat, l \in Nat : /\ k = Len(AclPart(a)) /\ Bytes(AclUnits(a)) = 2 * k /\ Bytes(u) = 2 * l
                                    /\ 10 + pos + k <= l /\ l = Len(u)
    <3>1. AclUnits(a) \in Seq(Nat)
      BY <1>2, AclUnitsAre
    <3>2. PICK k \in Nat, l \in Nat : k = Len(AclUnits(a)) /\ l = Len(u)
      BY <3>1
    <3> QED BY <2>2, <3>1, <3>2 DEF Bytes
  <2>31. k >= 4
    <3>1. PICK x \in Nat, y \in Nat : x = Len(AllAces(a.aces)) /\ y = a.slack \div 2
      <4>1. a.slack \in Nat
        BY <1>2, AclFields
      <4>2. Len(AllAces(a.aces)) \in Nat
        BY <1>2, AclUnitsAre
      <4> QED BY <4>1, <4>2
    <3>2. k = 4 + x + y
      BY <1>2, <2>2, <2>3, <3>1, AclUnitsAre
    <3> QED BY <3>2
  <2>4. vec.len = 2 * l
    BY <2>3 DEF Vec
  <2>5. Present(vec, 20 + 2 * pos) <=> l # 10 + pos + 4
    <3>1. 20 + 2 * pos > 0 /\ (20 + 2 * pos + 8 < 2 * l <=> l # 10 + pos + 4)
      BY <2>3, <2>31
    <3> HIDE DEF vec
    <3> QED BY <2>4, <3>1 DEF Present
  <2>6. From(vec, 20 + 2 * pos) = Vec(u, 10 + pos, 2 * l - (20 + 2 * pos))
    <3>1. PICK r \in Int : r = Bytes(u)
      BY <2>3
    <3>2. From(Vec(u, 0, r), 20 + 2 * pos) = Vec(u, 10 + pos, r - (20 + 2 * pos))
      BY FromIs
    <3>3. Bytes(u) = 2 * l
      BY <2>3
    <3> QED BY <3>1, <3>2, <3>3
  <2>7. decode_acl(Vec(u, 10 + pos, 2 * l - (20 + 2 * pos))) = DecodedAcl(a, u, 10 + pos)
    <3>1. PICK p \in Nat, r \in Int : p = 10 + pos /\ r = 2 * l - (20 + 2 * pos)
      OBVIOUS
    <3>2. Holds(u, p, AclUnits(a)) /\ r >= Bytes(AclUnits(a))
      BY <2>2, <2>3, <3>1
    <3>3. decode_acl(Vec(u, p, r)) = DecodedAcl(a, u, p)
      BY <1>2, <3>2, AclIsDecoded
    <3> QED BY <3>1, <3>3
  <2> HIDE DEF vec
  <2>8. (IF Present(vec, Offset(a, pos)) THEN decode_acl(From(vec, Offset(a, pos))) ELSE None)
          = IF l = 10 + pos + 4 THEN None ELSE DecodedAcl(a, u, 10 + pos)
    BY <2>2, <2>5, <2>6, <2>7
  <2> QED BY <2>1, <2>3, <2>8 DEF vec
<1> QED BY <1>1, <1>2

(* What the library reads of a descriptor.                                 *)
Absent(d) == d.dacl = None \/ (EmptyAcl(d) /\ AtTheEnd(d))

DecodedDescriptor(d) ==
    [control |-> 4, owner |-> d.owner, group |-> d.group,
     dacl |-> IF Absent(d) THEN None
              ELSE DecodedAcl(d.dacl, DescriptorUnits(d), 10 + DaclPos(d))]

(* The ACL is the whole rest of the block, and nothing but a header.       *)
LEMMA NothingBehind ==
    ASSUME NEW d \in Descriptors, d.dacl # None
    PROVE  Len(DescriptorUnits(d)) = 10 + DaclPos(d) + 4 <=> EmptyAcl(d) /\ AtTheEnd(d)
<1> DEFINE aces == d.dacl.aces
<1>1. d.dacl \in Acls
  BY DescriptorFields
<1>2. aces \in Seq(Aces) /\ Len(aces) \in Nat /\ d.dacl.slack \in Nat /\ d.dacl.slack % 4 = 0
  BY <1>1, AclFields
<1>3. PICK x \in Nat, y \in Nat : x = Len(AllAces(aces)) /\ y = d.dacl.slack \div 2
  <2>1. Len(AllAces(aces)) \in Nat
    BY <1>1, AclUnitsAre
  <2>2. d.dacl.slack \div 2 \in Nat
    BY <1>2
  <2> QED BY <2>1, <2>2
<1>4. y = 0 <=> d.dacl.slack = 0
  BY <1>2, <1>3
<1>5. x = 0 <=> aces = <<>>
  <2>1. CASE aces = <<>>
    <3>1. Len(aces) = 0
      BY <2>1
    <3>2. AllAces(aces) = <<>>
      BY <1>2, <3>1, AcesUptoEquation DEF AllAces
    <3> QED BY <1>3, <2>1, <3>2
  <2>2. CASE aces # <<>>
    <3>1. Len(aces) \in 1..Len(aces) /\ Len(aces) - 1 \in 0..Len(aces)
      BY <1>2, <2>2
    <3> DEFINE n == Len(aces)
               v == AcesUpto(aces)
    <3>2. v[n - 1] \in Seq(Nat) /\ aces[n] \in Aces /\ Len(v[n]) = Len(v[n - 1]) + Len(AceUnits(aces[n]))
      BY <1>2, <3>1, AcesUptoType
    <3> HIDE DEF n, v
    <3>3. PICK i \in Nat, j \in Nat : i = Len(v[n - 1]) /\ j = Len(Content(aces[n]))
      BY <3>2, ContentType
    <3>4. PICK k \in Nat : k = aces[n].pad \div 2
      <4>1. aces[n].pad \in Nat
        BY <3>2, AceFields
      <4> QED BY <4>1
    <3>5. Len(AceUnits(aces[n])) = 2 + j + k
      BY <3>2, <3>3, <3>4, AceUnitsAre
    <3>6. Len(v[n]) = i + (2 + j + k)
      BY <3>2, <3>3, <3>5
    <3>7. x = Len(v[n])
      BY <1>3 DEF AllAces, v, n
    <3>8. x # 0
      BY <3>6, <3>7
    <3> QED BY <2>2, <3>8
  <2> QED BY <2>1, <2>2
<1>6. Len(AclPart(d.dacl)) = 4 + x + y
  BY <1>1, <1>3, AclUnitsAre DEF AclPart
<1>7. PICK i \in Nat, j \in Nat : /\ i = Len(SidPart(d.owner)) /\ j = Len(SidPart(d.group))
                                  /\ (i = 0 <=> d.owner = None) /\ (j = 0 <=> d.group = None)
  <2>1. /\ SidPart(d.owner) \in Seq(Nat) /\ (SidPart(d.owner) = <<>> <=> d.owner = None)
        /\ SidPart(d.group) \in Seq(Nat) /\ (SidPart(d.group) = <<>> <=> d.group = None)
    BY PartTypes
  <2>2. \A s \in Seq(Nat) : Len(s) \in Nat /\ (Len(s) = 0 <=> s = <<>>)
    OBVIOUS
  <2> QED BY <2>1, <2>2
<1>8. Len(DescriptorUnits(d)) = 10 + i + j + (4 + x + y)
  BY <1>6, <1>7, DescriptorLaidOut
<1>9. DaclPos(d) = IF d.acl_first THEN 0 ELSE i + j
  BY <1>7 DEF DaclPos
<1>10. EmptyAcl(d) <=> x = 0 /\ y = 0
  BY <1>4, <1>5 DEF EmptyAcl
<1>11. AtTheEnd(d) <=> ~d.acl_first \/ (i = 0 /\ j = 0)
  BY <1>7 DEF AtTheEnd
<1>12. CASE d.acl_first
  <2>1. 10 + i + j + (4 + x + y) = 10 + 0 + 4 <=> (x = 0 /\ y = 0) /\ (i = 0 /\ j = 0)
    OBVIOUS
  <2> QED BY <1>8, <1>9, <1>10, <1>11, <1>12, <2>1
<1>13. CASE ~d.acl_first
  <2>1. 10 + i + j + (4 + x + y) = 10 + (i + j) + 4 <=> x = 0 /\ y = 0
    OBVIOUS
  <2> QED BY <1>8, <1>9, <1>10, <1>11, <1>13, <2>1
<1> QED BY <1>12, <1>13

LEMMA AclNotBad ==
    ASSUME NEW acl, NEW buf, NEW p
    PROVE  DecodedAcl(acl, buf, p) # Bad /\ DecodedAcl(acl, buf, p) # None
  BY DEF DecodedAcl, Bad, None

(* A descriptor in the server's layout is decoded, wherever its parts lie. *)
LEMMA DescriptorIsDecoded ==
    ASSUME NEW d \in Descriptors
    PROVE  LET u == DescriptorUnits(d)
           IN  /\ smb2DecodeSecDescInternal(Iovec(u, 0, Bytes(u))) = DecodedDescriptor(d)
               /\ DecodedDescriptor(d) # Bad
               /\ Bytes(u) # 0
<1> DEFINE u == DescriptorUnits(d)
           vec == Vec(u, 0, Bytes(u))
           ox == Offset(d.owner, OwnerPos(d))
           gx == Offset(d.group, GroupPos(d))
           ax == Offset(d.dacl, DaclPos(d))
           Sid(at) == IF Present(vec, at) THEN decode_sid(From(vec, at)) ELSE None
           Acl(at) == IF Present(vec, at) THEN decode_acl(From(vec, at)) ELSE None
           acl == DecodedAcl(d.dacl, u, 10 + DaclPos(d))
<1>1. Iovec(u, 0, Bytes(u)) = vec
  BY DEF Iovec, Vec
<1>2. /\ u \in Seq(Nat)
      /\ Holds(u, 0, HeadOf(d))
      /\ Holds(u, 10 + OwnerPos(d), SidPart(d.owner))
      /\ Holds(u, 10 + GroupPos(d), SidPart(d.group))
      /\ Holds(u, 10 + DaclPos(d), AclPart(d.dacl))
  BY DescriptorLaidOut
<1>3. PICK i \in Nat, j \in Nat, k \in Nat :
        i = Len(SidPart(d.owner)) /\ j = Len(SidPart(d.group)) /\ k = Len(AclPart(d.dacl))
  BY PartTypes
<1>4. Len(u) = 10 + i + j + k
  BY <1>3, DescriptorLaidOut
<1>5. /\ OwnerPos(d) \in Nat /\ GroupPos(d) \in Nat /\ DaclPos(d) \in Nat
      /\ ox \in Nat /\ gx \in Nat /\ ax \in Nat
  BY PositionTypes
<1>6. /\ 10 + OwnerPos(d) + i <= Len(u)
      /\ 10 + GroupPos(d) + j <= Len(u)
      /\ 10 + DaclPos(d) + k <= Len(u)
  <2>1. /\ OwnerPos(d) = IF d.acl_first THEN k ELSE 0
        /\ GroupPos(d) = OwnerPos(d) + i
        /\ DaclPos(d) = IF d.acl_first THEN 0 ELSE i + j
    BY <1>3 DEF OwnerPos, GroupPos, DaclPos
  <2> HIDE DEF u
  <2>2. CASE d.acl_first
    <3>1. OwnerPos(d) = k /\ GroupPos(d) = k + i /\ DaclPos(d) = 0
      BY <2>1, <2>2
    <3> QED BY <1>4, <3>1
  <2>3. CASE ~d.acl_first
    <3>1. OwnerPos(d) = 0 /\ GroupPos(d) = i /\ DaclPos(d) = i + j
      BY <2>1, <2>3
    <3> QED BY <1>4, <3>1
  <2> QED BY <2>2, <2>3
<1>7. u[1] = 1 /\ u[2] = 4 /\ u[3] + Base * u[4] = ox /\ u[5] + Base * u[6] = gx /\ u[9] + Base * u[10] = ax
  <2>1. Holds(u, 0, HeadUnits(4, ox, gx, ax))
    BY <1>2 DEF HeadOf
  <2> HIDE DEF u, ox, gx, ax
  <2>2. PICK x \in Nat, y \in Nat, w \in Nat : x = ox /\ y = gx /\ w = ax
    BY <1>5
  <2>3. Holds(u, 0, HeadUnits(4, x, y, w))
    BY <2>1, <2>2
  <2>4. u[1] = 1 /\ u[2] = 4 /\ u[3] + Base * u[4] = x /\ u[5] + Base * u[6] = y /\ u[9] + Base * u[10] = w
    BY <2>3, HeadIs
  <2> QED BY <2>2, <2>4
<1>8. /\ Get16(vec, 0) = 1 /\ Get16(vec, 2) = 4
      /\ Get32(vec, 4) = ox /\ Get32(vec, 8) = gx /\ Get32(vec, 16) = ax
  <2> DEFINE b == Bytes(u)
  <2> HIDE DEF u, ox, gx, ax, b
  <2>1. /\ Get16(vec, 0) = u[0 + 1] /\ Get16(vec, 2) = u[0 + 2]
        /\ Get32(vec, 4) = u[0 + 3] + Base * u[0 + 4]
        /\ Get32(vec, 8) = u[0 + 5] + Base * u[0 + 6]
        /\ Get32(vec, 16) = u[0 + 9] + Base * u[0 + 10]
    BY VecGet
  <2> QED BY <1>7, <2>1
<1>9. ~(vec.len < 20) /\ Bytes(u) # 0
  <2> HIDE DEF u
  <2>1. vec.len = Bytes(u) /\ Bytes(u) = 2 * (10 + i + j + k)
    BY <1>4 DEF Vec, Bytes
  <2> QED BY <2>1
<1>10. Sid(ox) = d.owner
  <2>1. d.owner = None \/ d.owner \in Sids
    BY DescriptorFields
  <2>2. 10 + OwnerPos(d) + Len(SidPart(d.owner)) <= Len(u)
    BY <1>3, <1>6
  <2> HIDE DEF u
  <2> QED BY <1>2, <1>5, <2>1, <2>2, SidPartIsDecoded
<1>11. Sid(gx) = d.group
  <2>1. d.group = None \/ d.group \in Sids
    BY DescriptorFields
  <2>2. 10 + GroupPos(d) + Len(SidPart(d.group)) <= Len(u)
    BY <1>3, <1>6
  <2> HIDE DEF u
  <2> QED BY <1>2, <1>5, <2>1, <2>2, SidPartIsDecoded
<1>12. Acl(ax) = IF Absent(d) THEN None ELSE acl
  <2>1. d.dacl = None \/ d.dacl \in Acls
    BY DescriptorFields
  <2>2. 10 + DaclPos(d) + Len(AclPart(d.dacl)) <= Len(u)
    BY <1>3, <1>6
  <2>3. d.dacl # None => (Len(u) = 10 + DaclPos(d) + 4 <=> EmptyAcl(d) /\ AtTheEnd(d))
    BY NothingBehind
  <2> HIDE DEF u, acl
  <2>4. Acl(ax) = IF d.dacl = None THEN None ELSE IF Len(u) = 10 + DaclPos(d) + 4 THEN None
                  ELSE DecodedAcl(d.dacl, u, 10 + DaclPos(d))
    BY <1>2, <1>5, <2>1, <2>2, AclPartIsDecoded
  <2> HIDE DEF Acl
  <2> QED BY <2>3, <2>4 DEF Absent, acl
<1>13. Bad \notin {Sid(ox), Sid(gx), Acl(ax)}
  <2>1. None # Bad
    BY DEF None, Bad
  <2>2. d.owner # Bad /\ d.group # Bad
    BY <2>1, DescriptorFields, SidFields
  <2>3. (IF Absent(d) THEN None ELSE acl) # Bad
    BY <2>1, AclNotBad
  <2> HIDE DEF Sid, Acl, acl
  <2> QED BY <1>10, <1>11, <1>12, <2>2, <2>3
<1> DEFINE r == [control |-> 4, owner |-> Sid(ox), group |-> Sid(gx), dacl |-> Acl(ax)]
<1>14. smb2DecodeSecDescInternal(vec) = WholeOrBad(r)
  <2> HIDE DEF vec, ox, gx, ax
  <2> QED BY <1>8, <1>9 DEF smb2DecodeSecDescInternal
<1>15. WholeOrBad(r) = r
  <2> HIDE DEF Sid, Acl, vec, ox, gx, ax
  <2> QED BY <1>13 DEF WholeOrBad
<1>16. r = DecodedDescriptor(d)
  <2> HIDE DEF Sid, Acl, vec, ox, gx, ax
  <2> QED BY <1>10, <1>11, <1>12 DEF DecodedDescriptor
<1>17. DecodedDescriptor(d) # Bad
  BY DEF DecodedDescriptor, Bad
<1> HIDE DEF r, vec
<1> QED BY <1>1, <1>9, <1>14, <1>15, <1>16, <1>17

(* What is read means what the server meant, unless an empty ACL is lost.  *)
LEMMA DecodedSays ==
    ASSUME NEW d \in Descriptors
    PROVE  Says(DecodedDescriptor(d)) = Means(d) <=> ~Overlooked(d) /\ ~(EmptyAcl(d) /\ AtTheEnd(d))
<1> DEFINE sd == DecodedDescriptor(d)
           meant == [i \in DOMAIN d.dacl.aces |-> <<d.dacl.aces[i].type, d.dacl.aces[i].sid>>]
           said == [i \in DOMAIN sd.dacl.aces |-> <<sd.dacl.aces[i].ace_type, sd.dacl.aces[i].body.sid>>]
<1>1. /\ Says(sd).owner = d.owner /\ Says(sd).group = d.group
      /\ Says(sd) = [owner |-> d.owner, group |-> d.group,
                     aces |-> IF sd.dacl = None THEN None ELSE said]
  BY DEF Says, DecodedDescriptor
<1>2. Means(d) = [owner |-> d.owner, group |-> d.group, aces |-> IF d.dacl = None THEN None ELSE meant]
  BY DEF Means
<1>3. Says(sd) = Means(d) <=>
        (IF sd.dacl = None THEN None ELSE said) = (IF d.dacl = None THEN None ELSE meant)
  <2> HIDE DEF sd, meant, said
  <2> QED BY <1>1, <1>2
<1>4. CASE d.dacl = None
  <2>1. sd.dacl = None
    BY <1>4 DEF DecodedDescriptor, Absent
  <2>2. ~EmptyAcl(d) /\ ~Overlooked(d)
    BY <1>4 DEF EmptyAcl, Overlooked
  <2> HIDE DEF sd, meant, said
  <2> QED BY <1>3, <1>4, <2>1, <2>2 DEF sd
<1>5. CASE d.dacl # None
  <2>0. d.dacl.aces \in Seq(Aces)
    BY <1>5, DescriptorFields, AclFields
  <2>1. CASE EmptyAcl(d) /\ AtTheEnd(d)
    <3>1. sd.dacl = None
      BY <2>1 DEF DecodedDescriptor, Absent
    <3>2. d.dacl.aces = <<>>
      BY <2>1 DEF EmptyAcl
    <3>3. DOMAIN meant = {}
      BY <3>2
    <3>4. DOMAIN None = {"none"}
      BY DEF None
    <3> HIDE DEF sd, meant, said
    <3>5. meant # None
      BY <3>3, <3>4
    <3> QED BY <1>3, <1>5, <2>1, <3>1, <3>5 DEF sd
  <2>2. CASE ~(EmptyAcl(d) /\ AtTheEnd(d))
    <3> DEFINE u == DescriptorUnits(d)
               n == Len(d.dacl.aces)
               p == 10 + DaclPos(d)
    <3>1. sd.dacl = DecodedAcl(d.dacl, u, p)
      BY <1>5, <2>2 DEF DecodedDescriptor, Absent
    <3> HIDE DEF u, p, sd
    <3>2. sd.dacl # None
      BY <3>1, AclNotBad
    <3> DEFINE m == Len(AclUnits(d.dacl)) - 4
    <3>3. sd.dacl.aces = DecodedAces(d.dacl.aces, u, p + 4, m)
      BY <3>1 DEF DecodedAcl
    <3> HIDE DEF m
    <3>4. /\ DOMAIN sd.dacl.aces = 1..n
          /\ \A i \in 1..n : /\ sd.dacl.aces[i].ace_type = d.dacl.aces[i].type
                             /\ sd.dacl.aces[i].body.sid = ReadSid(d.dacl.aces[i])
      <4>1. DOMAIN DecodedAces(d.dacl.aces, u, p + 4, m) = 1..n
        BY DEF DecodedAces
      <4>2. ASSUME NEW i \in 1..n
            PROVE  /\ DecodedAces(d.dacl.aces, u, p + 4, m)[i].ace_type = d.dacl.aces[i].type
                   /\ DecodedAces(d.dacl.aces, u, p + 4, m)[i].body.sid = ReadSid(d.dacl.aces[i])
        <5> DEFINE x == p + 4 + Len(AcesUpto(d.dacl.aces)[i - 1])
                   y == m - Len(AcesUpto(d.dacl.aces)[i - 1])
        <5>1. DecodedAces(d.dacl.aces, u, p + 4, m)[i] = DecodedAce(d.dacl.aces[i], u, x, y)
          BY DEF DecodedAces
        <5> HIDE DEF x, y
        <5>2. /\ DecodedAce(d.dacl.aces[i], u, x, y).ace_type = d.dacl.aces[i].type
              /\ DecodedAce(d.dacl.aces[i], u, x, y).body.sid = ReadSid(d.dacl.aces[i])
          BY DEF DecodedAce
        <5> QED BY <5>1, <5>2
      <4> QED BY <3>3, <4>1, <4>2
    <3>5. DOMAIN d.dacl.aces = 1..n
      BY <2>0
    <3>6. ~Overlooked(d) => \A i \in 1..n : ReadSid(d.dacl.aces[i]) = d.dacl.aces[i].sid
      BY <1>5, <3>5 DEF Overlooked, ReadSid
    <3>7. CASE ~Overlooked(d)
      <4>1. said = meant
        BY <3>4, <3>5, <3>6, <3>7
      <4> HIDE DEF meant, said
      <4> QED BY <1>3, <1>5, <2>2, <3>2, <3>7, <4>1 DEF sd
    <3>8. CASE Overlooked(d)
      <4>1. PICK i \in 1..n : Unknown(d.dacl.aces[i]) /\ d.dacl.aces[i].sid # None
        BY <1>5, <3>5, <3>8 DEF Overlooked
      <4>2. said[i] = <<d.dacl.aces[i].type, None>>
        BY <3>4, <4>1 DEF ReadSid
      <4>3. meant[i] = <<d.dacl.aces[i].type, d.dacl.aces[i].sid>>
        BY <3>5
      <4> HIDE DEF meant, said
      <4>4. said # meant
        BY <4>1, <4>2, <4>3
      <4> QED BY <1>3, <1>5, <3>2, <3>8, <4>4 DEF sd
    <3> QED BY <3>7, <3>8
  <2> QED BY <2>1, <2>2
<1> QED BY <1>4, <1>5
-----------------------------------------------------------------------------
(* What smb2_get_security hands over.                                      *)

RoomFor(d) == Buffer(smb2_get_security_descriptor_size(DecodedDescriptor(d)))
Encoded(d) == smb2EncodeSecurityDescriptor(DecodedDescriptor(d), RoomFor(d))
Handed(d) == [sd |-> DecodedDescriptor(d), room |-> RoomFor(d), used |-> Bytes(Encoded(d).out)]

(* A query for the descriptor ends with what is encoded of what is decoded *)
(* of what the server holds, and so does the block the application keeps.  *)
SecurityInv ==
    /\ Described =>
        /\ outcome.status = IF Encoded(file.sd).ok THEN "success" ELSE "internal_error"
        /\ outcome.value = Handed(file.sd)
    /\ secbuf # None =>
        /\ secbuf.meant \in Descriptors
        /\ Encoded(secbuf.meant).ok
        /\ secbuf.units = Encoded(secbuf.meant).out

(* The reply to a query for the descriptor is decoded.                     *)
LEMMA SecurityReply ==
    ASSUME ListInv, call # None, reply # None, call.op = "query", reply.status = "success",
           call.class = "security"
    PROVE  /\ Decoded("security").ok = TRUE
           /\ Decoded("security").sd = DecodedDescriptor(file.sd)
           /\ file.sd \in Descriptors
<1> DEFINE u == DescriptorUnits(file.sd)
           sd == smb2DecodeSecDescInternal(Iovec(reply.block, 0, reply.len))
<1>1. file.sd \in Descriptors
  BY DEF ListInv, FileInv
<1>2. reply.block = Block("security").block /\ reply.len = Block("security").len
  BY QueryReply
<1>3. Block("security") = [block |-> u, len |-> Bytes(u)]
  BY DEF Block
<1>4. reply.block = u /\ reply.len = Bytes(u)
  BY <1>2, <1>3
<1>5. sd = DecodedDescriptor(file.sd) /\ sd # Bad /\ reply.len # 0
  BY <1>1, <1>4, DescriptorIsDecoded
<1> HIDE DEF sd
<1>6. Decoded("security") = [ok |-> sd # Bad, sd |-> sd]
  BY <1>5 DEF Decoded, sd
<1>7. Decoded("security").sd = sd
  BY <1>6
<1>8. (sd # Bad) = TRUE
  BY <1>5
<1>9. Decoded("security") = [ok |-> TRUE, sd |-> sd]
  BY <1>6, <1>8
<1>10. Decoded("security").ok = TRUE
  BY <1>9
<1> QED BY <1>1, <1>5, <1>7, <1>10

LEMMA SecurityInit == Init => SecurityInv
  BY DEF Init, SecurityInv, Described

(* No action but one touches what the application was given.               *)
LEMMA TakeSecurityHands ==
    ASSUME ListInv, SecurityInv, TakeSecurity
    PROVE  SecurityInv'
<1> DEFINE d == file.sd
           status == IF Encoded(d).ok THEN "success" ELSE "internal_error"
           o == [status |-> status, of |-> call, value |-> Handed(d)]
           buf == [units |-> Encoded(d).out, meant |-> d]
<1>1. call # None /\ reply # None /\ call.op = "query" /\ reply.status = "success" /\ call.class = "security"
  BY DEF TakeSecurity
<1>2. Decoded("security").sd = DecodedDescriptor(d) /\ d \in Descriptors
  BY <1>1, SecurityReply
<1>3. PICK read \in {Decoded("security")} :
        \E room \in {Buffer(smb2_get_security_descriptor_size(read.sd))} :
           \E enc \in {smb2EncodeSecurityDescriptor(read.sd, room)} :
              /\ Return(IF enc.ok THEN "success" ELSE "internal_error",
                        [sd |-> read.sd, room |-> room, used |-> Bytes(enc.out)])
              /\ secbuf' = IF enc.ok THEN [units |-> enc.out, meant |-> file.sd] ELSE secbuf
  BY DEF TakeSecurity
<1>4. read.sd = DecodedDescriptor(d)
  BY <1>2, <1>3
<1>5. /\ Return(status, Handed(d))
      /\ secbuf' = IF Encoded(d).ok THEN buf ELSE secbuf
  BY <1>3, <1>4 DEF RoomFor, Encoded, Handed
<1>6. outcome' = o /\ file' = file
  BY <1>5 DEF Return
<1>7. o.status = status /\ o.value = Handed(d)
  OBVIOUS
<1>8. buf.units = Encoded(d).out /\ buf.meant = d
  OBVIOUS
<1> HIDE DEF o, buf, status
<1>9. Described' => /\ outcome'.status = (IF Encoded(file'.sd).ok THEN "success" ELSE "internal_error")
                    /\ outcome'.value = Handed(file'.sd)
  BY <1>6, <1>7 DEF status
<1>10. secbuf' # None =>
        /\ secbuf'.meant \in Descriptors
        /\ Encoded(secbuf'.meant).ok
        /\ secbuf'.units = Encoded(secbuf'.meant).out
  <2>1. CASE Encoded(d).ok
    BY <1>2, <1>5, <1>8, <2>1
  <2>2. CASE ~Encoded(d).ok
    BY <1>5, <2>2 DEF SecurityInv
  <2> QED BY <2>1, <2>2
<1> QED BY <1>9, <1>10 DEF SecurityInv

(* A call ends otherwise: it has not read a descriptor.                    *)
LEMMA OtherReturn ==
    ASSUME SecurityInv, NEW status, NEW value, Return(status, value), secbuf' = secbuf,
           call.op # "query" \/ call.class # "security" \/ status = "error"
    PROVE  SecurityInv'
<1> DEFINE o == [status |-> status, of |-> call, value |-> value]
<1>1. outcome' = o
  BY DEF Return
<1>2. o.status = status /\ o.of = call
  OBVIOUS
<1> HIDE DEF o
<1>3. ~Described'
  BY <1>1, <1>2 DEF Described
<1> QED BY <1>3 DEF SecurityInv

LEMMA SecurityStep == ListInv /\ SecurityInv /\ [Next]_vars => SecurityInv'
<1> SUFFICES ASSUME ListInv, SecurityInv, [Next]_vars PROVE SecurityInv'
  OBVIOUS
<1>0. ASSUME outcome' = None, secbuf' = secbuf PROVE SecurityInv'
  <2>1. ~Described'
    BY <1>0 DEF Described
  <2> QED BY <1>0, <2>1 DEF SecurityInv
<1>1. CASE GetInfo \/ SetinfoExtended \/ Rename \/ SetinfoBasic \/ Truncate \/ SetSecurity \/ QueryDir
  <2>1. PICK c : Ask(c)
    BY <1>1 DEF GetInfo, Stat, Statvfs, GetinfoAll, GetinfoBasic, GetinfoStandard, GetinfoExtended,
                GetinfoStream, GetSecurity, QueryFs, Query, SetinfoExtended, Rename, SetinfoBasic,
                Truncate, SetSecurity, QueryDir, SetInfo
  <2> QED BY <1>0, <2>1 DEF Ask
<1>2. CASE SetSecurityRefused
  <2> DEFINE c == [op |-> "set_security", asked |-> secbuf.meant]
             o == [status |-> "internal_error", of |-> c]
  <2>1. outcome' = o /\ secbuf' = secbuf
    BY <1>2 DEF SetSecurityRefused
  <2>2. o.of = c /\ c.op = "set_security"
    OBVIOUS
  <2> HIDE DEF o, c
  <2>3. ~Described'
    BY <2>1, <2>2 DEF Described
  <2> QED BY <2>1, <2>3 DEF SecurityInv
<1>3. CASE ServeQuery \/ ServeQueryDir \/ ServeCutDirents \/ ServeNoMoreFiles \/ ServeError
             \/ ServeSetEa \/ ServeRename \/ ServeSetFixed \/ ServeSetSecurity
  <2>1. call # None /\ \E r : Answer(r)
    BY <1>3 DEF ServeQuery, ServeQueryDir, ServeCutDirents, ServeNoMoreFiles, ServeError,
                ServeSetEa, ServeRename, ServeSetFixed, ServeSetSecurity
  <2>2. outcome = None
    BY <2>1 DEF ListInv, OutcomeInv
  <2> QED BY <1>0, <2>1, <2>2 DEF Answer
<1>4. CASE TakeUndecodable
  <2>1. /\ call # None /\ reply # None /\ call.op = "query" /\ reply.status = "success"
        /\ ~Decoded(call.class).ok
        /\ Return("socket_error", None) /\ secbuf' = secbuf
    BY <1>4 DEF TakeUndecodable
  <2>2. call.class # "security"
    BY <2>1, SecurityReply
  <2> QED BY <2>1, <2>2, OtherReturn
<1>5. CASE TakeQuery
  BY <1>5, OtherReturn DEF TakeQuery
<1>6. CASE TakeSecurity
  BY <1>6, TakeSecurityHands
<1>7. CASE TakeSet
  <2>1. call.op # "query" /\ Return(reply.status, None) /\ secbuf' = secbuf
    BY <1>7 DEF TakeSet
  <2> QED BY <2>1, OtherReturn
<1>8. CASE TakeDirents
  <2>1. call # None /\ outcome' = outcome /\ secbuf' = secbuf
    BY <1>8 DEF TakeDirents
  <2>2. outcome = None
    BY <2>1 DEF ListInv, OutcomeInv
  <2> QED BY <1>0, <2>1, <2>2
<1>9. CASE TakeNoMoreFiles
  <2>1. call # None /\ reply # None /\ reply.status = "no_more_files" /\ Return("success", dir) /\ secbuf' = secbuf
    BY <1>9 DEF TakeNoMoreFiles
  <2>2. call.op = "dir"
    BY <2>1 DEF ListInv, ReplyInv
  <2> QED BY <2>1, <2>2, OtherReturn
<1>10. CASE TakeError
  BY <1>10, OtherReturn DEF TakeError
<1>12. CASE TakeMalformedDirents
  BY <1>12, OtherReturn DEF TakeMalformedDirents
<1>11. CASE UNCHANGED vars
  <2>1. file' = file /\ outcome' = outcome /\ secbuf' = secbuf
    BY <1>11 DEF vars
  <2> QED BY <2>1 DEF SecurityInv, Described
<1> QED BY <1>1, <1>2, <1>3, <1>4, <1>5, <1>6, <1>7, <1>8, <1>9, <1>10, <1>11, <1>12
       DEF Next

(* What the application is given of a descriptor is what the encoder makes *)
(* of what the decoder reads of the server's block, for every descriptor.  *)
THEOREM SecurityHolds == Spec => [](ListInv /\ SecurityInv)
<1>1. Init => ListInv /\ SecurityInv
  BY ListInit, SecurityInit
<1>2. (ListInv /\ SecurityInv) /\ [Next]_vars => (ListInv /\ SecurityInv)'
  BY ListStep, SecurityStep
<1> QED BY <1>1, <1>2, PTL DEF Spec

(* smb2DecodeSecDescInternal reads every descriptor as the server means    *)
(* it, wherever its parts lie and however its ACEs are filled up, except   *)
(* for a DACL that is empty and the last part of the block, and for the    *)
(* SIDs of ACEs of types decode_ace has no case for.                       *)
THEOREM DescriptorReadHolds == Spec => []DescriptorRead
<1>1. ListInv /\ SecurityInv => DescriptorRead
  <2> SUFFICES ASSUME ListInv, SecurityInv, Described
               PROVE  /\ outcome.status # "socket_error"
                      /\ (Says(outcome.value.sd) = Means(file.sd)
                            <=> ~Overlooked(file.sd) /\ ~(EmptyAcl(file.sd) /\ AtTheEnd(file.sd)))
    BY DEF DescriptorRead
  <2>1. outcome.status # "socket_error" /\ outcome.value = Handed(file.sd)
    BY DEF SecurityInv
  <2>2. outcome.value.sd = DecodedDescriptor(file.sd)
    BY <2>1 DEF Handed
  <2>3. file.sd \in Descriptors
    BY DEF ListInv, FileInv
  <2> QED BY <2>1, <2>2, <2>3, DecodedSays
<1> QED BY <1>1, SecurityHolds, PTL
-----------------------------------------------------------------------------
(* The buffer smb2_get_security doubles.                                   *)

LEMMA BufferExists ==
    ASSUME NEW size \in Nat
    PROVE  \E g : g = [b \in Nat \ {0} |-> IF b >= size THEN b ELSE g[2 * b]]
<1> DEFINE D(n) == {b \in Nat \ {0} : b + n >= size}
           P(n) == \E g : g = [b \in D(n) |-> IF b >= size THEN b ELSE g[2 * b]]
           S == {n \in Nat : P(n)}
<1>1. P(0)
  <2> DEFINE g == [b \in D(0) |-> b]
  <2>1. g = [b \in D(0) |-> IF b >= size THEN b ELSE g[2 * b]]
    OBVIOUS
  <2> QED BY <2>1
<1>2. ASSUME NEW n \in Nat, P(n) PROVE P(n + 1)
  <2>1. PICK g : g = [b \in D(n) |-> IF b >= size THEN b ELSE g[2 * b]]
    BY <1>2
  <2>2. \A b \in D(n) : g[b] = IF b >= size THEN b ELSE g[2 * b]
    BY <2>1
  <2> DEFINE h == [b \in D(n + 1) |-> IF b \in D(n) THEN g[b] ELSE IF b >= size THEN b ELSE g[2 * b]]
  <2>3. \A b \in D(n + 1) : b < size => 2 * b \in D(n)
    OBVIOUS
  <2>4. \A b \in D(n) : b \in D(n + 1)
    OBVIOUS
  <2>5. \A b \in D(n + 1) : b \in Nat
    OBVIOUS
  <2> HIDE DEF D
  <2>6. ASSUME NEW b \in D(n + 1) PROVE h[b] = IF b >= size THEN b ELSE h[2 * b]
    <3>1. CASE b >= size
      BY <2>2, <3>1
    <3>2. CASE ~(b >= size)
      <4>1. 2 * b \in D(n) /\ 2 * b \in D(n + 1)
        BY <2>3, <2>4, <2>5, <3>2
      <4>2. h[2 * b] = g[2 * b]
        BY <4>1
      <4> QED BY <2>2, <3>2, <4>2
    <3> QED BY <3>1, <3>2
  <2>7. h = [b \in D(n + 1) |-> h[b]]
    OBVIOUS
  <2> HIDE DEF h
  <2>8. h = [b \in D(n + 1) |-> IF b >= size THEN b ELSE h[2 * b]]
    BY <2>6, <2>7
  <2> QED BY <2>8
<1>3. Nat \subseteq S
  <2> HIDE DEF P
  <2>1. 0 \in S /\ \A n \in Nat : n \in S => n + 1 \in S
    BY <1>1, <1>2
  <2> HIDE DEF S
  <2> QED BY <2>1, SetInduction
<1>4. P(size)
  <2> HIDE DEF P
  <2> QED BY <1>3
<1>5. D(size) = Nat \ {0}
  OBVIOUS
<1> HIDE DEF D
<1> QED BY <1>4, <1>5

(* The buffer is as large as the size it is meant for.                     *)
LEMMA BufferFits ==
    ASSUME NEW size \in Nat
    PROVE  Buffer(size) \in Nat /\ Buffer(size) >= size
<1> DEFINE Is(f) == f = [b \in Nat \ {0} |-> IF b >= size THEN b ELSE f[2 * b]]
           g == CHOOSE f : Is(f)
           S == {n \in Nat : \A b \in Nat \ {0} : b + n >= size => g[b] \in Nat /\ g[b] >= size}
<1>1. Buffer(size) = g[FirstBuffer]
  BY DEF Buffer
<1>2. Is(g)
  <2>1. \E f : Is(f)
    BY BufferExists
  <2> HIDE DEF Is
  <2> QED BY <2>1
<1> HIDE DEF g
<1>3. \A b \in Nat \ {0} : g[b] = IF b >= size THEN b ELSE g[2 * b]
  BY <1>2
<1>4. 0 \in S
  BY <1>3
<1>5. ASSUME NEW n \in Nat, n \in S PROVE n + 1 \in S
  <2> SUFFICES ASSUME NEW b \in Nat \ {0}, b + (n + 1) >= size PROVE g[b] \in Nat /\ g[b] >= size
    OBVIOUS
  <2>1. CASE b >= size
    BY <1>3, <2>1
  <2>2. CASE ~(b >= size)
    <3>1. g[b] = g[2 * b] /\ 2 * b \in Nat \ {0} /\ 2 * b + n >= size
      BY <1>3, <2>2
    <3> QED BY <1>5, <3>1
  <2> QED BY <2>1, <2>2
<1>6. Nat \subseteq S
  <2> HIDE DEF S
  <2> QED BY <1>4, <1>5, SetInduction
<1>7. FirstBuffer \in Nat \ {0} /\ FirstBuffer + size >= size
  BY BoundsAssumption
<1> QED BY <1>1, <1>6, <1>7

LEMMA AclSizeExists ==
    ASSUME NEW aces, NEW m \in Nat
    PROVE  \E g : g = [i \in 0..m |-> IF i = 0 THEN 8 ELSE g[i - 1] + aces[i].ace_size]
<1> DEFINE Z == 8
           F(x, i) == x + aces[i].ace_size
           P(n) == \E g : g = [i \in 0..n |-> IF i = 0 THEN Z ELSE F(g[i - 1], i)]
           S == {n \in Nat : P(n)}
<1> HIDE DEF F, Z
<1>1. P(0)
  <2> DEFINE g == [i \in 0..0 |-> Z]
  <2>1. g = [i \in 0..0 |-> IF i = 0 THEN Z ELSE F(g[i - 1], i)]
    OBVIOUS
  <2> QED BY <2>1
<1>2. ASSUME NEW n \in Nat, P(n) PROVE P(n + 1)
  <2>1. PICK g : g = [i \in 0..n |-> IF i = 0 THEN Z ELSE F(g[i - 1], i)]
    BY <1>2
  <2> DEFINE h == [i \in 0..(n + 1) |-> IF i = n + 1 THEN F(g[n], n + 1) ELSE g[i]]
  <2>2. h = [i \in 0..(n + 1) |-> IF i = 0 THEN Z ELSE F(h[i - 1], i)]
    <3>1. \A i \in 0..n : g[i] = IF i = 0 THEN Z ELSE F(g[i - 1], i)
      BY <2>1
    <3>2. ASSUME NEW i \in 0..(n + 1) PROVE h[i] = IF i = 0 THEN Z ELSE F(h[i - 1], i)
      <4>1. CASE i = n + 1
        <5>1. h[i] = F(g[n], n + 1) /\ i - 1 = n /\ h[n] = g[n]
          BY <4>1
        <5> QED BY <4>1, <5>1
      <4>2. CASE i # n + 1
        <5>1. h[i] = g[i] /\ i \in 0..n /\ (i # 0 => h[i - 1] = g[i - 1])
          BY <4>2
        <5> QED BY <3>1, <5>1
      <4> QED BY <4>1, <4>2
    <3>3. h = [i \in 0..(n + 1) |-> h[i]]
      OBVIOUS
    <3> HIDE DEF h
    <3> QED BY <3>2, <3>3
  <2> QED BY <2>2
<1>3. Nat \subseteq S
  <2> HIDE DEF P
  <2>1. 0 \in S /\ \A n \in Nat : n \in S => n + 1 \in S
    BY <1>1, <1>2
  <2> HIDE DEF S
  <2> QED BY <2>1, SetInduction
<1>4. P(m)
  <2> HIDE DEF P
  <2> QED BY <1>3
<1> QED BY <1>4 DEF F, Z

(* The size computed for a decoded ACL is its own, without what is left    *)
(* over behind the last ACE.                                               *)
LEMMA AclSizeIs ==
    ASSUME NEW acl \in Acls, NEW buf, NEW p
    PROVE  AclSize(DecodedAcl(acl, buf, p)) = 8 + Bytes(AllAces(acl.aces))
<1> DEFINE u == AcesUpto(acl.aces)
           n == Len(acl.aces)
           m == Len(AclUnits(acl)) - 4
           f == DecodedAces(acl.aces, buf, p + 4, m)
           Is(g) == g = [i \in 0..n |-> IF i = 0 THEN 8 ELSE g[i - 1] + f[i].ace_size]
           s == CHOOSE g : Is(g)
           S == {k \in Nat : k <= n => s[k] = 8 + 2 * Len(u[k])}
<1>0. acl.aces \in Seq(Aces) /\ n \in Nat
  BY AclFields
<1>1. DecodedAcl(acl, buf, p).aces = f
  BY DEF DecodedAcl
<1>2. /\ f = [i \in 1..n |-> DecodedAce(acl.aces[i], buf, p + 4 + Len(u[i - 1]), m - Len(u[i - 1]))]
      /\ DOMAIN f = 1..n
  BY DEF DecodedAces
<1>3. Len(f) = n
  BY <1>0, <1>2
<1>4. ASSUME NEW i \in 1..n PROVE f[i].ace_size = Bytes(AceUnits(acl.aces[i]))
  <2> DEFINE x == p + 4 + Len(u[i - 1])
             y == m - Len(u[i - 1])
  <2>1. f[i] = DecodedAce(acl.aces[i], buf, x, y)
    BY <1>2
  <2> HIDE DEF x, y, f
  <2>2. DecodedAce(acl.aces[i], buf, x, y).ace_size = Bytes(AceUnits(acl.aces[i]))
    BY DEF DecodedAce
  <2> QED BY <2>1, <2>2
<1>41. \A i \in 0..n : u[i] \in Seq(Nat)
  BY <1>0, AcesUptoType
<1>42. \A i \in 1..n : /\ acl.aces[i] \in Aces
                       /\ Len(u[i]) = Len(u[i - 1]) + Len(AceUnits(acl.aces[i]))
  BY <1>0, AcesUptoType
<1>43. u[0] = <<>>
  BY <1>0, AcesUptoEquation
<1> HIDE DEF f, n, u
<1>5. AclSize(DecodedAcl(acl, buf, p)) = s[n]
  BY <1>1, <1>3 DEF AclSize
<1>6. Is(s)
  <2>1. \E g : Is(g)
    BY <1>0, AclSizeExists
  <2> HIDE DEF Is
  <2> QED BY <2>1
<1> HIDE DEF s
<1>7. \A i \in 0..n : s[i] = IF i = 0 THEN 8 ELSE s[i - 1] + f[i].ace_size
  BY <1>6
<1>8. 0 \in S
  <2>1. Len(u[0]) = 0 /\ s[0] = 8
    BY <1>0, <1>7, <1>43
  <2> QED BY <2>1
<1>9. ASSUME NEW k \in Nat, k \in S PROVE k + 1 \in S
  <2> SUFFICES ASSUME k + 1 <= n PROVE s[k + 1] = 8 + 2 * Len(u[k + 1])
    OBVIOUS
  <2>1. PICK i \in 1..n : i = k + 1 /\ i - 1 = k /\ i \in 0..n
    BY <1>0
  <2>2. s[i] = s[i - 1] + f[i].ace_size
    BY <1>7, <2>1
  <2>3. PICK x \in Nat, y \in Nat : x = Len(u[i - 1]) /\ y = Len(AceUnits(acl.aces[i]))
    <3>1. i - 1 \in 0..n
      BY <1>0
    <3>2. u[i - 1] \in Seq(Nat) /\ AceUnits(acl.aces[i]) \in Seq(Nat)
      BY <1>41, <1>42, <3>1, AceUnitsAre
    <3> QED BY <3>2
  <2>4. s[i - 1] = 8 + 2 * x
    <3>1. s[k] = 8 + 2 * Len(u[k])
      BY <1>0, <1>9
    <3> QED BY <2>1, <2>3, <3>1
  <2>5. f[i].ace_size = 2 * y /\ Len(u[i]) = x + y
    BY <1>4, <1>42, <2>3 DEF Bytes
  <2>6. s[i] = (8 + 2 * x) + 2 * y
    BY <2>2, <2>4, <2>5
  <2>7. (8 + 2 * x) + 2 * y = 8 + 2 * (x + y)
    OBVIOUS
  <2> QED BY <2>1, <2>5, <2>6, <2>7
<1>10. Nat \subseteq S
  <2> HIDE DEF S
  <2> QED BY <1>8, <1>9, SetInduction
<1>11. s[n] = 8 + 2 * Len(u[n])
  BY <1>0, <1>10
<1> QED BY <1>5, <1>11 DEF AllAces, Bytes, u, n
-----------------------------------------------------------------------------
(* What is encoded of a decoded ACE.                                       *)

LEMMA SliceIs ==
    ASSUME NEW buf \in Seq(Nat), NEW p \in Nat, NEW n \in Nat, p + n <= Len(buf)
    PROVE  /\ Slice(buf, p, n) \in Seq(Nat) /\ Len(Slice(buf, p, n)) = n
           /\ \A i \in 1..n : Slice(buf, p, n)[i] = buf[p + i]
<1>1. \A i \in 1..n : buf[p + i] \in Nat
  OBVIOUS
<1>2. PICK g : g = [i \in 1..n |-> buf[p + i]]
  OBVIOUS
<1>3. g = [i \in 1..n |-> g[i]] /\ \A i \in 1..n : g[i] \in Nat /\ g[i] = buf[p + i]
  BY <1>1, <1>2
<1>4. g \in Seq(Nat) /\ Len(g) = n
  BY <1>3, FunctionIsSeq
<1> QED BY <1>2, <1>3, <1>4 DEF Slice

LEMMA MaskWord == Set32(3) = MaskUnits
<1>1. 3 % Base = 3 /\ 3 \div Base = 0
  BY DEF Base
<1> QED BY <1>1 DEF Set32, MaskUnits

ObjectPart(a) == IF a.type % 256 \in OBJECT THEN ObjectUnits ELSE <<>>
BlobPart(a, buf, p, n) ==
    IF Unknown(a) THEN Slice(buf, p + 2, n - 2)
    ELSE IF a.type % 256 \in CALLBACK THEN Slice(buf, p + 4, n - 4) ELSE <<>>
AceHead(a) == <<a.type, Bytes(AceUnits(a))>>
FixedPart(a) == (AceHead(a) \o MaskUnits) \o ObjectPart(a)

EncodedAce(a, buf, p, n) ==
    IF Unknown(a) THEN AceHead(a) \o BlobPart(a, buf, p, n)
    ELSE (FixedPart(a) \o SidUnits(a.sid)) \o BlobPart(a, buf, p, n)

LEMMA FixedPartIs ==
    ASSUME NEW a \in Aces
    PROVE  /\ AceHead(a) \in Seq(Nat) /\ Len(AceHead(a)) = 2
           /\ AceHead(a)[1] = a.type /\ AceHead(a)[2] = Bytes(AceUnits(a))
           /\ ObjectPart(a) \in Seq(Nat)
           /\ Len(ObjectPart(a)) = IF a.type % 256 \in OBJECT THEN 18 ELSE 0
           /\ AceHead(a) \o MaskUnits \in Seq(Nat) /\ Len(AceHead(a) \o MaskUnits) = 4
           /\ FixedPart(a) \in Seq(Nat)
           /\ Len(FixedPart(a)) = 4 + Len(ObjectPart(a))
<1> DEFINE h == AceHead(a)
           hm == h \o MaskUnits
           o == ObjectPart(a)
<1>1. h \in Seq(Nat) /\ Len(h) = 2 /\ h[1] = a.type /\ h[2] = Bytes(AceUnits(a))
  <2>1. a.type \in Nat /\ Bytes(AceUnits(a)) \in Nat
    BY AceFields, AceUnitsAre
  <2> QED BY <2>1 DEF AceHead
<1>2. o \in Seq(Nat) /\ Len(o) = IF a.type % 256 \in OBJECT THEN 18 ELSE 0
  BY FixedUnits DEF ObjectPart
<1> HIDE DEF h, o
<1>3. MaskUnits \in Seq(Nat) /\ Len(MaskUnits) = 2
  BY FixedUnits
<1>4. hm \in Seq(Nat) /\ Len(hm) = Len(h) + Len(MaskUnits)
  BY <1>1, <1>3, Joined
<1> HIDE DEF hm
<1>5. Len(hm) = 4
  BY <1>1, <1>3, <1>4
<1>6. hm \o o \in Seq(Nat) /\ Len(hm \o o) = Len(hm) + Len(o)
  BY <1>2, <1>4, Joined
<1>7. FixedPart(a) = hm \o o
  BY DEF FixedPart, hm, h, o
<1>8. FixedPart(a) \in Seq(Nat) /\ Len(FixedPart(a)) = 4 + Len(o)
  BY <1>5, <1>6, <1>7
<1>9. AceHead(a) \o MaskUnits = hm
  BY DEF hm, h
<1> QED BY <1>1, <1>2, <1>4, <1>5, <1>8, <1>9 DEF h, o

LEMMA BlobIs ==
    ASSUME NEW a \in Aces, NEW buf \in Seq(Nat), NEW p \in Nat, NEW n \in Nat,
           p + n <= Len(buf), n >= Len(AceUnits(a))
    PROVE  /\ BlobPart(a, buf, p, n) \in Seq(Nat)
           /\ Len(BlobPart(a, buf, p, n)) = IF Unknown(a) THEN n - 2
                                            ELSE IF a.type % 256 \in CALLBACK THEN n - 4 ELSE 0
           /\ n - 2 \in Nat
           /\ ~Unknown(a) => n - 4 \in Nat
<1>1. PICK x \in Nat, y \in Nat : x = Len(Content(a)) /\ y = a.pad \div 2
  <2>1. Len(Content(a)) \in Nat
    BY ContentType
  <2>2. a.pad \in Nat
    BY AceFields
  <2> QED BY <2>1, <2>2
<1>2. Len(AceUnits(a)) = 2 + x + y
  BY <1>1, AceUnitsAre
<1>3. n - 2 \in Nat
  BY <1>2
<1>4. ASSUME ~Unknown(a) PROVE n - 4 \in Nat
  <2>1. PICK s \in Nat : s = SidSize(a.sid)
    BY <1>4, AceFields, SidFields
  <2>2. PICK b \in Nat : b = Bytes(a.data)
    BY AceFields DEF Bytes
  <2>3. 2 * x = Bytes(Content(a))
    BY <1>1 DEF Bytes
  <2>4. 2 * x = 4 + s \/ 2 * x = 40 + s \/ 2 * x = 4 + s + b
    BY <1>4, <2>1, <2>2, <2>3, ContentType DEF Unknown
  <2> QED BY <1>2, <2>4
<1>5. CASE Unknown(a)
  <2>1. PICK q \in Nat, m \in Nat : q = p + 2 /\ m = n - 2 /\ q + m <= Len(buf)
    BY <1>3
  <2>2. Slice(buf, q, m) \in Seq(Nat) /\ Len(Slice(buf, q, m)) = m
    BY <2>1, SliceIs
  <2> QED BY <1>3, <1>5, <2>1, <2>2 DEF BlobPart
<1>6. CASE ~Unknown(a) /\ a.type % 256 \in CALLBACK
  <2>1. PICK q \in Nat, m \in Nat : q = p + 4 /\ m = n - 4 /\ q + m <= Len(buf)
    BY <1>4, <1>6
  <2>2. Slice(buf, q, m) \in Seq(Nat) /\ Len(Slice(buf, q, m)) = m
    BY <2>1, SliceIs
  <2> QED BY <1>3, <1>4, <1>6, <2>1, <2>2 DEF BlobPart
<1>7. CASE ~Unknown(a) /\ a.type % 256 \notin CALLBACK
  <2>1. BlobPart(a, buf, p, n) = <<>>
    BY <1>7 DEF BlobPart
  <2> QED BY <1>3, <1>4, <1>7, <2>1
<1> QED BY <1>5, <1>6, <1>7

(* How long it is: what is behind an ACE is copied if the type is not      *)
(* known, and copied behind the SID if it is a callback ACE's.             *)
LEMMA EncodedAceIs ==
    ASSUME NEW a \in Aces, NEW buf \in Seq(Nat), NEW p \in Nat, NEW n \in Nat,
           p + n <= Len(buf), n >= Len(AceUnits(a))
    PROVE  LET e == EncodedAce(a, buf, p, n)
           IN  /\ e \in Seq(Nat) /\ Len(e) >= 2
               /\ e[2] = Bytes(AceUnits(a))
               /\ Unknown(a) => Len(e) = n
               /\ a.type % 256 \in CALLBACK => Len(e) > n
               /\ ~Unknown(a) /\ a.type % 256 \notin CALLBACK => Len(e) = 2 + Len(Content(a))
<1> DEFINE h == AceHead(a)
           b == BlobPart(a, buf, p, n)
           f == FixedPart(a)
           s == SidUnits(a.sid)
           o == ObjectPart(a)
           e == EncodedAce(a, buf, p, n)
<1>1. h \in Seq(Nat) /\ Len(h) = 2 /\ h[2] = Bytes(AceUnits(a))
  BY FixedPartIs
<1>2. f \in Seq(Nat) /\ Len(f) = 4 + Len(o) /\ o \in Seq(Nat) /\ f = (h \o MaskUnits) \o o
      /\ Len(o) = IF a.type % 256 \in OBJECT THEN 18 ELSE 0
  BY FixedPartIs DEF FixedPart
<1>3. b \in Seq(Nat) /\ Len(b) = IF Unknown(a) THEN n - 2 ELSE IF a.type % 256 \in CALLBACK THEN n - 4 ELSE 0
  BY BlobIs
<1>4. n - 2 \in Nat /\ (~Unknown(a) => n - 4 \in Nat)
  BY BlobIs
<1>5. e = IF Unknown(a) THEN h \o b ELSE (f \o s) \o b
  BY DEF EncodedAce
<1>6. MaskUnits \in Seq(Nat) /\ Len(MaskUnits) = 2
  BY FixedUnits
<1>7. 2 \in 1..Len(h)
  BY <1>1
<1>8. CASE Unknown(a)
  <2>1. a.type % 256 \notin CALLBACK
    BY <1>8 DEF Unknown
  <2> HIDE DEF h, b, e
  <2>2. PICK t \in Seq(Nat) : t = h \o b /\ Len(t) = 2 + Len(b) /\ t[2] = h[2]
    <3>1. h \o b \in Seq(Nat) /\ Len(h \o b) = Len(h) + Len(b)
      BY <1>1, <1>3, Joined
    <3>2. (h \o b)[2] = h[2]
      <4>1. h \in Seq(Nat) /\ b \in Seq(Nat)
        BY <1>1, <1>3
      <4> QED BY <1>7, <4>1, JoinedElements
    <3> QED BY <1>1, <3>1, <3>2
  <2>3. e = t /\ Len(b) = n - 2
    BY <1>3, <1>5, <1>8, <2>2
  <2>4. Len(t) = n /\ n >= 2
    BY <1>4, <2>2, <2>3
  <2> QED BY <1>1, <1>8, <2>1, <2>2, <2>3, <2>4 DEF e
<1>9. CASE ~Unknown(a)
  <2>1. s \in Seq(Nat) /\ Len(s) \in Nat /\ Len(s) > 4 /\ Bytes(s) = SidSize(a.sid)
    <3>1. a.sid \in Sids
      BY <1>9, AceFields
    <3>2. PICK c \in Nat : c > 0 /\ c = a.sid.sub_auth_count
      BY <3>1, SidFields
    <3>3. s \in Seq(Nat) /\ Len(s) = 4 + 2 * c /\ Bytes(s) = SidSize(a.sid)
      BY <3>1, <3>2, SidUnitsAre
    <3> QED BY <3>2, <3>3
  <2> DEFINE hm == h \o MaskUnits
  <2>2. hm \in Seq(Nat) /\ Len(hm) = 4 /\ f = hm \o o
    BY <1>2, FixedPartIs
  <2> HIDE DEF s, b, f, h, e, o
  <2>3. hm[2] = h[2]
    <3>1. h \in Seq(Nat) /\ MaskUnits \in Seq(Nat)
      BY <1>1, <1>6
    <3> QED BY <1>7, <3>1, JoinedElements
  <2> HIDE DEF hm
  <2>4. f[2] = hm[2]
    <3>1. 2 \in 1..Len(hm) /\ hm \in Seq(Nat) /\ o \in Seq(Nat)
      BY <1>2, <2>2
    <3>2. (hm \o o)[2] = hm[2]
      BY <3>1, JoinedElements
    <3> QED BY <2>2, <3>2
  <2> DEFINE fs == f \o s
  <2>5. fs \in Seq(Nat) /\ Len(fs) = Len(f) + Len(s)
    BY <1>2, <2>1, Joined
  <2>6. fs[2] = f[2]
    <3>1. 2 \in 1..Len(f)
      BY <1>2
    <3> QED BY <1>2, <2>1, <3>1, JoinedElements
  <2> HIDE DEF fs
  <2>7. fs \o b \in Seq(Nat) /\ Len(fs \o b) = Len(fs) + Len(b)
    BY <1>3, <2>5, Joined
  <2>8. (fs \o b)[2] = fs[2]
    <3>1. 2 \in 1..Len(fs)
      BY <1>2, <2>1, <2>5
    <3> QED BY <1>3, <2>5, <3>1, JoinedElements
  <2>9. e = fs \o b
    BY <1>5, <1>9 DEF fs
  <2>10. PICK i \in Nat, j \in Nat, k \in Nat : i = Len(o) /\ j = Len(s) /\ k = Len(b)
    <3>1. Len(o) \in Nat /\ Len(b) \in Nat
      BY <1>2, <1>3
    <3> QED BY <2>1, <3>1
  <2>11. Len(e) = 4 + i + j + k
    <3>1. Len(e) = ((4 + i) + j) + k
      BY <1>2, <2>5, <2>7, <2>9, <2>10
    <3> QED BY <3>1
  <2>12. j > 4
    BY <2>1, <2>10
  <2>13. CASE a.type % 256 \in CALLBACK
    <3>1. k = n - 4 /\ i = 0
      BY <1>2, <1>3, <1>9, <2>10, <2>13, TypesApart
    <3>2. Len(e) >= 2 /\ Len(e) > n
      BY <2>11, <2>12, <3>1
    <3> QED BY <1>1, <1>9, <2>3, <2>4, <2>6, <2>7, <2>8, <2>9, <2>13, <3>2 DEF e
  <2>14. CASE a.type % 256 \notin CALLBACK
    <3>1. k = 0
      BY <1>3, <1>9, <2>10, <2>14
    <3>2. Len(e) = 4 + i + j
      BY <2>11, <3>1
    <3>3. Len(e) >= 2
      BY <3>2
    <3>4. Len(Content(a)) = 2 + i + j
      <4>1. Content(a) \in Seq(Nat) /\ Bytes(s) = 2 * j
        BY <2>10, ContentType DEF Bytes
      <4>2. PICK c \in Nat : c = Len(Content(a)) /\ Bytes(Content(a)) = 2 * c
        BY <4>1 DEF Bytes
      <4>3. CASE a.type % 256 \in PLAIN
        <5>1. 2 * c = 4 + 2 * j /\ i = 0
          BY <1>2, <2>1, <2>10, <4>1, <4>2, <4>3, ContentType, TypesApart
        <5> QED BY <4>2, <5>1
      <4>4. CASE a.type % 256 \in OBJECT
        <5>1. 2 * c = 40 + 2 * j /\ i = 18
          BY <1>2, <2>1, <2>10, <4>1, <4>2, <4>4, ContentType
        <5> QED BY <4>2, <5>1
      <4> QED BY <1>9, <2>14, <4>3, <4>4 DEF Unknown
    <3>5. Len(e) = 2 + Len(Content(a))
      BY <3>2, <3>4
    <3> QED BY <1>1, <1>9, <2>3, <2>4, <2>6, <2>7, <2>8, <2>9, <2>14, <3>3, <3>5 DEF e
  <2> QED BY <2>13, <2>14
<1> QED BY <1>8, <1>9

LEMMA EncodeSidIs ==
    ASSUME NEW sid \in Sids, NEW r \in Int
    PROVE  /\ r >= SidSize(sid) => encode_sid(sid, r) = Wrote(SidUnits(sid))
           /\ ~(r >= SidSize(sid)) => encode_sid(sid, r) = GaveUp(<<>>)
<1>1. SidSize(sid) \in Nat
  BY SidFields
<1> DEFINE all == (<<1 + 256 * sid.sub_auth_count>> \o sid.id_auth) \o SubUnits(sid)
<1>2. SidUnits(sid) = all
  BY SidUnitsAre
<1>3. encode_sid(sid, r) = IF r < SidSize(sid) THEN GaveUp(<<>>) ELSE Wrote(all)
  BY DEF encode_sid
<1> HIDE DEF all
<1> QED BY <1>1, <1>2, <1>3

LEMMA DecodedAceFields ==
    ASSUME NEW a \in Aces, NEW buf, NEW p, NEW n
    PROVE  LET ace == DecodedAce(a, buf, p, n)
           IN  /\ ace.ace_type = a.type /\ ace.ace_size = Bytes(AceUnits(a))
               /\ ace.body.mask = IF Unknown(a) THEN 0 ELSE 3
               /\ ace.body.object = ObjectPart(a)
               /\ ace.body.blob = BlobPart(a, buf, p, n)
               /\ ace.body.sid = ReadSid(a)
  BY DEF DecodedAce, ObjectPart, BlobPart

LEMMA EncodeAceIs ==
    ASSUME NEW a \in Aces, NEW buf \in Seq(Nat), NEW p \in Nat, NEW n \in Nat,
           p + n <= Len(buf), n >= Len(AceUnits(a)), NEW r \in Int
    PROVE  LET e == encode_ace(DecodedAce(a, buf, p, n), r)
           IN  /\ e.ok \in BOOLEAN
               /\ e.ok => e.out = EncodedAce(a, buf, p, n)
               /\ r >= Bytes(AceUnits(a)) => e.ok
<1> DEFINE ace == DecodedAce(a, buf, p, n)
           e == encode_ace(ace, r)
           size == Bytes(AceUnits(a))
           header == <<ace.ace_type, ace.ace_size>>
           fixed == header \o Set32(ace.body.mask) \o ace.body.object
           sid == encode_sid(ace.body.sid, Room(r, Bytes(fixed)))
<1>1. /\ ace.ace_type = a.type /\ ace.ace_size = size
      /\ ace.body.mask = IF Unknown(a) THEN 0 ELSE 3
      /\ ace.body.object = ObjectPart(a)
      /\ ace.body.blob = BlobPart(a, buf, p, n)
      /\ ace.body.sid = ReadSid(a)
  BY DecodedAceFields
<1>2. e = IF r < ace.ace_size THEN GaveUp(<<>>)
          ELSE IF ace.body.sid = None THEN Wrote(header \o ace.body.blob)
          ELSE IF sid.ok THEN Wrote(fixed \o sid.out \o ace.body.blob)
          ELSE GaveUp(fixed)
  BY DEF encode_ace
<1>3. header = AceHead(a)
  BY <1>1 DEF AceHead
<1>4. size \in Nat
  BY AceUnitsAre
<1>5. ASSUME NEW x PROVE Wrote(x).ok = TRUE /\ Wrote(x).out = x /\ GaveUp(x).ok = FALSE
  BY DEF Wrote, GaveUp
<1>6. CASE Unknown(a)
  <2>1. ReadSid(a) = None
    BY <1>6 DEF ReadSid
  <2> HIDE DEF ace, header, fixed, sid, size, e
  <2>2. e = IF r < size THEN GaveUp(<<>>) ELSE Wrote(AceHead(a) \o BlobPart(a, buf, p, n))
    BY <1>1, <1>2, <1>3, <2>1
  <2>3. EncodedAce(a, buf, p, n) = AceHead(a) \o BlobPart(a, buf, p, n)
    BY <1>6 DEF EncodedAce
  <2>4. e.ok \in BOOLEAN /\ (e.ok => e.out = EncodedAce(a, buf, p, n)) /\ (r >= size => e.ok)
    <3>1. CASE r < size
      <4>1. e.ok = FALSE
        BY <1>5, <2>2, <3>1
      <4>2. ~(r >= size)
        BY <1>4, <3>1
      <4> QED BY <4>1, <4>2
    <3>2. CASE ~(r < size)
      <4>1. e.ok = TRUE /\ e.out = EncodedAce(a, buf, p, n)
        BY <1>5, <2>2, <2>3, <3>2
      <4> QED BY <4>1
    <3> QED BY <3>1, <3>2
  <2> QED BY <2>4 DEF e, ace, size
<1>7. CASE ~Unknown(a)
  <2>0. ReadSid(a) = a.sid
    BY <1>7 DEF ReadSid
  <2>1. a.sid \in Sids /\ a.sid # None
    BY <1>7, AceFields, SidFields
  <2>2. fixed = FixedPart(a)
    BY <1>1, <1>3, <1>7, MaskWord DEF FixedPart
  <2> DEFINE room == Room(r, Bytes(FixedPart(a)))
             s == encode_sid(a.sid, room)
  <2>3. sid = s
    BY <1>1, <2>0, <2>2
  <2>4. PICK f \in Nat : f = Len(FixedPart(a)) /\ f = 4 + Len(ObjectPart(a)) /\ Bytes(FixedPart(a)) = 2 * f
    BY FixedPartIs DEF Bytes
  <2>5. room \in Int
    BY <2>4 DEF Room, Unlimited
  <2>6. SidSize(a.sid) \in Nat
    BY <2>1, SidFields
  <2>7. s = Wrote(SidUnits(a.sid)) \/ s = GaveUp(<<>>)
    <3> HIDE DEF room
    <3> QED BY <2>1, <2>5, EncodeSidIs
  <2>8. r >= size => s = Wrote(SidUnits(a.sid))
    <3> SUFFICES ASSUME r >= size PROVE room >= SidSize(a.sid)
      <4> HIDE DEF room
      <4> QED BY <2>1, <2>5, EncodeSidIs
    <3>1. PICK c \in Nat, y \in Nat : c = Len(Content(a)) /\ y = a.pad \div 2
      <4>1. a.pad \in Nat
        BY AceFields
      <4>2. Len(Content(a)) \in Nat
        BY ContentType
      <4> QED BY <4>1, <4>2
    <3>2. size = 2 * (2 + c + y)
      BY <3>1, AceUnitsAre DEF Bytes
    <3>3. 2 * c >= 2 * f - 4 + SidSize(a.sid)
      <4>1. Bytes(Content(a)) = 2 * c
        BY <3>1 DEF Bytes
      <4>2. CASE a.type % 256 \in PLAIN
        <5>1. 2 * c = 4 + SidSize(a.sid) /\ f = 4
          BY <2>4, <4>1, <4>2, ContentType, FixedPartIs, TypesApart
        <5> QED BY <2>6, <5>1
      <4>3. CASE a.type % 256 \in OBJECT
        <5>1. 2 * c = 40 + SidSize(a.sid)
          BY <4>1, <4>3, ContentType
        <5>2. Len(ObjectPart(a)) = 18
          BY <4>3, FixedPartIs
        <5>3. f = 22
          BY <2>4, <5>2
        <5> QED BY <2>6, <5>1, <5>3
      <4>4. CASE a.type % 256 \in CALLBACK
        <5>1. 2 * c = 4 + SidSize(a.sid) + Bytes(a.data) /\ f = 4
          BY <2>4, <4>1, <4>4, ContentType, FixedPartIs, TypesApart
        <5>2. Bytes(a.data) \in Nat
          BY AceFields DEF Bytes
        <5> QED BY <2>6, <5>1, <5>2
      <4> QED BY <1>7, <4>2, <4>3, <4>4 DEF Unknown
    <3>4. r >= 2 * f /\ r - 2 * f >= SidSize(a.sid)
      BY <2>6, <3>2, <3>3
    <3>5. room = r - 2 * f
      BY <2>4, <3>4 DEF Room
    <3> QED BY <3>4, <3>5
  <2> HIDE DEF ace, header, fixed, sid, size, e, s
  <2>9. e = IF r < size THEN GaveUp(<<>>)
            ELSE IF s.ok THEN Wrote(FixedPart(a) \o s.out \o BlobPart(a, buf, p, n))
            ELSE GaveUp(FixedPart(a))
    BY <1>1, <1>2, <1>3, <2>0, <2>1, <2>2, <2>3
  <2>10. EncodedAce(a, buf, p, n) = (FixedPart(a) \o SidUnits(a.sid)) \o BlobPart(a, buf, p, n)
    BY <1>7 DEF EncodedAce
  <2>11. e.ok \in BOOLEAN /\ (e.ok => e.out = EncodedAce(a, buf, p, n)) /\ (r >= size => e.ok)
    <3>1. CASE r < size
      <4>1. e.ok = FALSE
        BY <1>5, <2>9, <3>1
      <4>2. ~(r >= size)
        BY <1>4, <3>1
      <4> QED BY <4>1, <4>2
    <3>2. CASE ~(r < size) /\ s = Wrote(SidUnits(a.sid))
      <4>1. s.ok = TRUE /\ s.out = SidUnits(a.sid)
        BY <1>5, <3>2
      <4>2. e = Wrote(EncodedAce(a, buf, p, n))
        BY <2>9, <2>10, <3>2, <4>1
      <4>3. e.ok = TRUE /\ e.out = EncodedAce(a, buf, p, n)
        BY <1>5, <4>2
      <4> QED BY <4>3
    <3>3. CASE ~(r < size) /\ s = GaveUp(<<>>)
      <4>1. s.ok = FALSE
        BY <1>5, <3>3
      <4>2. e.ok = FALSE
        BY <1>5, <2>9, <3>3, <4>1
      <4>3. ~(r >= size)
        <5>1. Wrote(SidUnits(a.sid)).ok = TRUE
          BY <1>5
        <5> QED BY <2>8, <4>1, <5>1
      <4> QED BY <4>2, <4>3
    <3> QED BY <2>7, <3>1, <3>2, <3>3
  <2> QED BY <2>11 DEF e, ace, size
<1> QED BY <1>6, <1>7

LEMMA ConcatAssociates ==
    ASSUME NEW s \in Seq(Nat), NEW t \in Seq(Nat), NEW v \in Seq(Nat)
    PROVE  (s \o t) \o v = s \o (t \o v)
  BY SMTT(30)

LEMMA EmptyAdded == \A s \in Seq(Nat) : s \o <<>> = s /\ <<>> \o s = s
  OBVIOUS

(* An ACE the encoder reproduces wherever it is.                           *)
Clean(a) == ~Unknown(a) /\ a.pad = 0 /\ a.type % 256 \notin CALLBACK

LEMMA CleanIsKept ==
    ASSUME NEW a \in Aces, Clean(a), NEW buf, NEW p, NEW n
    PROVE  EncodedAce(a, buf, p, n) = AceUnits(a)
<1> DEFINE h == AceHead(a)
           s == SidUnits(a.sid)
           o == ObjectPart(a)
           m == MaskUnits
<1>1. ~Unknown(a) /\ a.pad = 0 /\ a.type % 256 \notin CALLBACK
  BY DEF Clean
<1>2. h \in Seq(Nat) /\ o \in Seq(Nat)
  BY FixedPartIs
<1>3. m \in Seq(Nat)
  BY FixedUnits
<1>4. s \in Seq(Nat)
  BY <1>1, AceFields, SidUnitsAre
<1>5. BlobPart(a, buf, p, n) = <<>>
  BY <1>1 DEF BlobPart
<1>6. EncodedAce(a, buf, p, n) = (((h \o m) \o o) \o s) \o <<>>
  BY <1>1, <1>5 DEF EncodedAce, FixedPart
<1>7. AceUnits(a) = h \o (Content(a) \o Zeros(a.pad)) /\ Content(a) \in Seq(Nat)
  BY AceUnitsAre, ContentType DEF AceHead
<1>8. Zeros(a.pad) = <<>>
  <2>1. Zeros(0) = [i \in 1..(0 \div 2) |-> 0] /\ 0 \div 2 = 0
    BY DEF Zeros
  <2>2. Zeros(0) = <<>>
    BY <2>1
  <2> QED BY <1>1, <2>2
<1>9. AceUnits(a) = h \o Content(a)
  BY <1>7, <1>8, EmptyAdded
<1>10. Content(a) = (m \o o) \o s
  <2>1. CASE a.type % 256 \in PLAIN
    <3>1. o = <<>>
      BY <2>1, TypesApart DEF ObjectPart
    <3> QED BY <1>3, <2>1, <3>1, ContentIs, EmptyAdded
  <2>2. CASE a.type % 256 \in OBJECT
    <3>1. o = ObjectUnits
      BY <2>2 DEF ObjectPart
    <3> QED BY <2>2, <3>1, ContentIs
  <2> QED BY <1>1, <2>1, <2>2 DEF Unknown
<1> HIDE DEF h, s, o, m
<1>11. m \o o \in Seq(Nat) /\ h \o m \in Seq(Nat)
  BY <1>2, <1>3, Joined
<1>12. (h \o m) \o o = h \o (m \o o)
  BY <1>2, <1>3, ConcatAssociates
<1>13. (h \o (m \o o)) \o s = h \o ((m \o o) \o s)
  BY SMTT(30), <1>2, <1>4, <1>11, ConcatAssociates
<1>14. (h \o (m \o o)) \o s \in Seq(Nat)
  BY <1>2, <1>4, <1>11, Joined
<1> QED BY <1>6, <1>9, <1>10, <1>12, <1>13, <1>14, EmptyAdded
-----------------------------------------------------------------------------
(* What is encoded of a decoded ACL.                                       *)

(* What the encoder makes of each ACE of an ACL at position p.             *)
EncodedAces(acl, buf, p) ==
    [i \in 1..Len(acl.aces) |->
        EncodedAce(acl.aces[i], buf, p + 4 + Len(AcesUpto(acl.aces)[i - 1]),
                   Len(AclUnits(acl)) - 4 - Len(AcesUpto(acl.aces)[i - 1]))]

(* An ACL at position p of a block.                                        *)
AclIn(acl, buf, p) ==
    /\ acl \in Acls /\ buf \in Seq(Nat) /\ p \in Nat
    /\ Holds(buf, p, AclUnits(acl))
    /\ p + Len(AclUnits(acl)) <= Len(buf)

(* Its i-th ACE is at position q, with n units from there to the end.     *)
AcePlace(acl, buf, p, i, q, n) ==
    /\ q = p + 4 + Len(AcesUpto(acl.aces)[i - 1])
    /\ n = Len(AclUnits(acl)) - 4 - Len(AcesUpto(acl.aces)[i - 1])
    /\ q + n <= Len(buf)
    /\ n >= Len(AceUnits(acl.aces[i]))
    /\ acl.aces[i] \in Aces
    /\ DecodedAcl(acl, buf, p).aces[i] = DecodedAce(acl.aces[i], buf, q, n)
    /\ EncodedAces(acl, buf, p)[i] = EncodedAce(acl.aces[i], buf, q, n)
    /\ Len(AcesUpto(acl.aces)[i - 1]) \in Nat
    /\ Len(AclUnits(acl)) = 4 + Len(AcesUpto(acl.aces)[i - 1]) + n

(* Each ACE lies within the ACL.                                           *)
LEMMA AceInAcl ==
    ASSUME NEW acl, NEW buf, NEW p, AclIn(acl, buf, p), NEW i \in 1..Len(acl.aces)
    PROVE  \E q \in Nat, n \in Nat : AcePlace(acl, buf, p, i, q, n)
<1> DEFINE aces == acl.aces
           u == AcesUpto(aces)
           m == Len(AclUnits(acl)) - 4
<1>1. acl \in Acls /\ buf \in Seq(Nat) /\ p \in Nat /\ p + Len(AclUnits(acl)) <= Len(buf)
      /\ Holds(buf, p, AclUnits(acl))
  BY DEF AclIn
<1>2. aces \in Seq(Aces) /\ Len(aces) \in Nat /\ acl.slack \in Nat
  BY <1>1, AclFields
<1>3. aces[i] \in Aces /\ Len(u[i]) = Len(u[i - 1]) + Len(AceUnits(aces[i]))
  BY <1>2, AcesUptoType
<1>4. i - 1 \in 0..Len(aces) /\ i \in 0..Len(aces) /\ Len(aces) \in 0..Len(aces)
  BY <1>2
<1>5. u[i - 1] \in Seq(Nat) /\ u[i] \in Seq(Nat) /\ u[Len(aces)] \in Seq(Nat)
  BY <1>2, <1>4, AcesUptoType
<1>6. PICK x \in Nat, y \in Nat, z \in Nat, a \in Nat, s \in Nat :
        /\ x = Len(u[i - 1]) /\ y = Len(u[i]) /\ z = Len(u[Len(aces)])
        /\ a = Len(AceUnits(aces[i])) /\ s = acl.slack \div 2
  <2> HIDE DEF u, aces
  <2>1. Len(u[i - 1]) \in Nat /\ Len(u[i]) \in Nat /\ Len(u[Len(aces)]) \in Nat
    BY <1>5
  <2>2. Len(AceUnits(aces[i])) \in Nat
    BY <1>3, AceUnitsAre
  <2>3. acl.slack \div 2 \in Nat
    BY <1>2
  <2> QED BY <2>1, <2>2, <2>3
<1>7. y <= z
  <2>1. AllAces(aces) = u[Len(aces)]
    BY DEF AllAces
  <2>2. Holds(u[Len(aces)], 0, u[Len(aces)])
    BY <1>5, HoldsItself
  <2>3. Len(u[i]) <= Len(u[Len(aces)])
    BY <1>2, <2>2, AcesInPlace
  <2> QED BY <1>6, <2>3
<1>8. Len(AclUnits(acl)) = 4 + z + s
  BY <1>1, <1>6, AclUnitsAre DEF AllAces
<1>9. y = x + a
  BY <1>3, <1>6
<1>10. PICK q \in Nat, n \in Nat : q = p + 4 + x /\ n = 4 + z + s - 4 - x
  BY <1>1, <1>7, <1>9
<1>11. n >= a /\ q + n = p + (4 + z + s) /\ 4 + z + s = 4 + x + n
  BY <1>1, <1>7, <1>9, <1>10
<1>12. q = p + 4 + Len(u[i - 1]) /\ n = Len(AclUnits(acl)) - 4 - Len(u[i - 1])
  <2> HIDE DEF u, aces
  <2>1. x = Len(u[i - 1]) /\ 4 + z + s = Len(AclUnits(acl)) /\ q = p + 4 + x /\ n = 4 + z + s - 4 - x
    BY <1>6, <1>8, <1>10
  <2>2. p \in Nat /\ Len(u[i - 1]) \in Nat /\ Len(AclUnits(acl)) \in Nat
    BY <1>1, <1>6, <1>8
  <2> QED BY <2>1, <2>2
<1>13. q + n <= Len(buf) /\ n >= Len(AceUnits(aces[i]))
  BY <1>1, <1>6, <1>8, <1>11
<1>14. EncodedAces(acl, buf, p)[i] = EncodedAce(aces[i], buf, q, n)
  BY <1>12 DEF EncodedAces
<1>15. DecodedAcl(acl, buf, p).aces = DecodedAces(aces, buf, p + 4, m)
  BY DEF DecodedAcl
<1>16. DecodedAces(aces, buf, p + 4, m)[i] = DecodedAce(aces[i], buf, q, n)
  BY <1>12 DEF DecodedAces
<1>17. Len(u[i - 1]) \in Nat /\ Len(AclUnits(acl)) = 4 + Len(u[i - 1]) + n
  BY <1>6, <1>8, <1>11
<1> QED BY <1>3, <1>12, <1>13, <1>14, <1>15, <1>16, <1>17 DEF AcePlace

(* Some units, and others joined to them one after the other.              *)
IsChain(out, h, e, n) == out[0] = h /\ \A i \in 1..n : out[i] = out[i - 1] \o e[i]

LEMMA ChainExists ==
    ASSUME NEW head, NEW e, NEW m \in Nat
    PROVE  \E g : IsChain(g, head, e, m)
<1> DEFINE Z == head
           F(x, i) == x \o e[i]
           P(n) == \E g : g = [i \in 0..n |-> IF i = 0 THEN Z ELSE F(g[i - 1], i)]
           S == {n \in Nat : P(n)}
<1> HIDE DEF F, Z
<1>1. P(0)
  <2> DEFINE g == [i \in 0..0 |-> Z]
  <2>1. g = [i \in 0..0 |-> IF i = 0 THEN Z ELSE F(g[i - 1], i)]
    OBVIOUS
  <2> QED BY <2>1
<1>2. ASSUME NEW n \in Nat, P(n) PROVE P(n + 1)
  <2>1. PICK g : g = [i \in 0..n |-> IF i = 0 THEN Z ELSE F(g[i - 1], i)]
    BY <1>2
  <2> DEFINE h == [i \in 0..(n + 1) |-> IF i = n + 1 THEN F(g[n], n + 1) ELSE g[i]]
  <2>2. h = [i \in 0..(n + 1) |-> IF i = 0 THEN Z ELSE F(h[i - 1], i)]
    <3>1. \A i \in 0..n : g[i] = IF i = 0 THEN Z ELSE F(g[i - 1], i)
      BY <2>1
    <3>2. ASSUME NEW i \in 0..(n + 1) PROVE h[i] = IF i = 0 THEN Z ELSE F(h[i - 1], i)
      <4>1. CASE i = n + 1
        <5>1. h[i] = F(g[n], n + 1) /\ i - 1 = n /\ h[n] = g[n]
          BY <4>1
        <5> QED BY <4>1, <5>1
      <4>2. CASE i # n + 1
        <5>1. h[i] = g[i] /\ i \in 0..n /\ (i # 0 => h[i - 1] = g[i - 1])
          BY <4>2
        <5> QED BY <3>1, <5>1
      <4> QED BY <4>1, <4>2
    <3>3. h = [i \in 0..(n + 1) |-> h[i]]
      OBVIOUS
    <3> HIDE DEF h
    <3> QED BY <3>2, <3>3
  <2> QED BY <2>2
<1>3. Nat \subseteq S
  <2> HIDE DEF P
  <2>1. 0 \in S /\ \A n \in Nat : n \in S => n + 1 \in S
    BY <1>1, <1>2
  <2> HIDE DEF S
  <2> QED BY <2>1, SetInduction
<1>4. P(m)
  <2> HIDE DEF P
  <2> QED BY <1>3
<1>5. PICK g : g = [i \in 0..m |-> IF i = 0 THEN Z ELSE F(g[i - 1], i)]
  BY <1>4
<1>6. \A i \in 0..m : g[i] = IF i = 0 THEN Z ELSE F(g[i - 1], i)
  BY <1>5
<1>7. g[0] = head
  <2>1. 0 \in 0..m
    OBVIOUS
  <2> QED BY <1>6, <2>1 DEF Z
<1>8. ASSUME NEW i \in 1..m PROVE g[i] = g[i - 1] \o e[i]
  <2>1. i \in 0..m /\ i # 0
    OBVIOUS
  <2> QED BY <1>6, <2>1 DEF F
<1> QED BY <1>7, <1>8 DEF IsChain

LEMMA ChainIs ==
    ASSUME NEW n \in Nat, NEW h \in Seq(Nat), NEW e, \A i \in 1..n : e[i] \in Seq(Nat)
    PROVE  \E out : /\ IsChain(out, h, e, n)
                    /\ \A i \in 0..n : out[i] \in Seq(Nat)
<1>1. PICK out : IsChain(out, h, e, n)
  BY ChainExists
<1>2. out[0] = h /\ \A i \in 1..n : out[i] = out[i - 1] \o e[i]
  BY <1>1 DEF IsChain
<1> DEFINE S == {i \in Nat : i <= n => out[i] \in Seq(Nat)}
<1>5. 0 \in S
  BY <1>2
<1>6. ASSUME NEW k \in Nat, k \in S PROVE k + 1 \in S
  <2>1. CASE k + 1 <= n
    <3>1. PICK i \in 1..n : i = k + 1 /\ i - 1 = k
      BY <2>1
    <3>2. out[k] \in Seq(Nat)
      BY <1>6, <2>1
    <3>3. out[i] = out[k] \o e[i]
      BY <1>2, <3>1
    <3>4. e[i] \in Seq(Nat)
      OBVIOUS
    <3>5. out[i] \in Seq(Nat)
      BY <3>2, <3>3, <3>4, Joined
    <3> QED BY <3>1, <3>5
  <2>2. CASE ~(k + 1 <= n)
    BY <2>2
  <2> QED BY <2>1, <2>2
<1>7. Nat \subseteq S
  <2> HIDE DEF S
  <2> QED BY <1>5, <1>6, SetInduction
<1>8. \A i \in 0..n : out[i] \in Seq(Nat)
  BY <1>7
<1> QED BY <1>1, <1>8
-----------------------------------------------------------------------------
(* The ACL as a whole.                                                     *)

Rounds(g, header, aces, room, m) ==
    g = [i \in 0..m |->
            IF i = 0 THEN Wrote(header)
            ELSE Then(g[i - 1], encode_ace(aces[i], Room(room, Bytes(g[i - 1].out))))]

LEMMA EncodeAcesExists ==
    ASSUME NEW header, NEW aces, NEW room, NEW m \in Nat
    PROVE  \E g : Rounds(g, header, aces, room, m)
<1> DEFINE Z == Wrote(header)
           F(x, i) == Then(x, encode_ace(aces[i], Room(room, Bytes(x.out))))
           P(n) == \E g : g = [i \in 0..n |-> IF i = 0 THEN Z ELSE F(g[i - 1], i)]
           S == {n \in Nat : P(n)}
<1> HIDE DEF F, Z
<1>1. P(0)
  <2> DEFINE g == [i \in 0..0 |-> Z]
  <2>1. g = [i \in 0..0 |-> IF i = 0 THEN Z ELSE F(g[i - 1], i)]
    OBVIOUS
  <2> QED BY <2>1
<1>2. ASSUME NEW n \in Nat, P(n) PROVE P(n + 1)
  <2>1. PICK g : g = [i \in 0..n |-> IF i = 0 THEN Z ELSE F(g[i - 1], i)]
    BY <1>2
  <2> DEFINE h == [i \in 0..(n + 1) |-> IF i = n + 1 THEN F(g[n], n + 1) ELSE g[i]]
  <2>2. h = [i \in 0..(n + 1) |-> IF i = 0 THEN Z ELSE F(h[i - 1], i)]
    <3>1. \A i \in 0..n : g[i] = IF i = 0 THEN Z ELSE F(g[i - 1], i)
      BY <2>1
    <3>2. ASSUME NEW i \in 0..(n + 1) PROVE h[i] = IF i = 0 THEN Z ELSE F(h[i - 1], i)
      <4>1. CASE i = n + 1
        <5>1. h[i] = F(g[n], n + 1) /\ i - 1 = n /\ h[n] = g[n]
          BY <4>1
        <5> QED BY <4>1, <5>1
      <4>2. CASE i # n + 1
        <5>1. h[i] = g[i] /\ i \in 0..n /\ (i # 0 => h[i - 1] = g[i - 1])
          BY <4>2
        <5> QED BY <3>1, <5>1
      <4> QED BY <4>1, <4>2
    <3>3. h = [i \in 0..(n + 1) |-> h[i]]
      OBVIOUS
    <3> HIDE DEF h
    <3> QED BY <3>2, <3>3
  <2> QED BY <2>2
<1>3. Nat \subseteq S
  <2> HIDE DEF P
  <2>1. 0 \in S /\ \A n \in Nat : n \in S => n + 1 \in S
    BY <1>1, <1>2
  <2> HIDE DEF S
  <2> QED BY <2>1, SetInduction
<1>4. P(m)
  <2> HIDE DEF P
  <2> QED BY <1>3
<1> QED BY <1>4 DEF F, Z, Rounds


(* The rounds of the loop.                                                 *)
LEMMA EncodeAcesRounds ==
    ASSUME NEW header, NEW aces, NEW room, Len(aces) \in Nat
    PROVE  \E upto : /\ upto[0] = Wrote(header)
                     /\ \A i \in 1..Len(aces) :
                          upto[i] = Then(upto[i - 1], encode_ace(aces[i], Room(room, Bytes(upto[i - 1].out))))
                     /\ EncodeAces(header, aces, room) = upto[Len(aces)]
<1> DEFINE n == Len(aces)
           Is(g) == Rounds(g, header, aces, room, n)
           upto == CHOOSE g : Is(g)
<1>0. n \in Nat
  OBVIOUS
<1>1. \E g : Is(g)
  <2> HIDE DEF n
  <2> QED BY <1>0, EncodeAcesExists
<1>2. EncodeAces(header, aces, room) = upto[n]
  BY DEF EncodeAces, Rounds
<1>3. Is(upto)
  <2> HIDE DEF Is
  <2> QED BY <1>1
<1> HIDE DEF upto
<1>4. \A i \in 0..n : upto[i] = IF i = 0 THEN Wrote(header)
                           ELSE Then(upto[i - 1], encode_ace(aces[i], Room(room, Bytes(upto[i - 1].out))))
  BY <1>3 DEF Rounds
<1>5. upto[0] = Wrote(header)
  <2>1. 0 \in 0..n
    OBVIOUS
  <2> QED BY <1>4, <2>1
<1>6. ASSUME NEW i \in 1..n
      PROVE  upto[i] = Then(upto[i - 1], encode_ace(aces[i], Room(room, Bytes(upto[i - 1].out))))
  <2>1. i \in 0..n /\ i # 0
    OBVIOUS
  <2> QED BY <1>4, <2>1
<1> QED BY <1>2, <1>5, <1>6

LEMMA ThenIs ==
    ASSUME NEW x, NEW y
    PROVE  /\ x.ok = TRUE => Then(x, y).ok = y.ok /\ Then(x, y).out = x.out \o y.out
           /\ x.ok = FALSE => Then(x, y) = x
<1> DEFINE z == [ok |-> y.ok, out |-> x.out \o y.out]
<1>1. z.ok = y.ok /\ z.out = x.out \o y.out
  OBVIOUS
<1>2. Then(x, y) = IF x.ok THEN z ELSE x
  BY DEF Then
<1> HIDE DEF z
<1> QED BY <1>1, <1>2

AclHead(acl) == <<2, Bytes(AclUnits(acl)), Len(acl.aces), 0>>

(* The encoder of the ACEs writes the chain of what it makes of each.      *)
LEMMA AcesAreEncoded ==
    ASSUME NEW acl, NEW buf, NEW p, AclIn(acl, buf, p), NEW r \in Int, NEW out,
           IsChain(out, AclHead(acl), EncodedAces(acl, buf, p), Len(acl.aces)),
           \A i \in 0..Len(acl.aces) : out[i] \in Seq(Nat)
    PROVE  LET w == EncodeAces(AclHead(acl), DecodedAcl(acl, buf, p).aces, r)
           IN  /\ w.ok \in BOOLEAN
               /\ w.ok => w.out = out[Len(acl.aces)]
               /\ (\A i \in 1..Len(acl.aces) : r >= Bytes(out[i - 1]) + Bytes(AceUnits(acl.aces[i])))
                    => w.ok
<1> DEFINE aces == acl.aces
           n == Len(aces)
           f == DecodedAcl(acl, buf, p).aces
           e == EncodedAces(acl, buf, p)
           w == EncodeAces(AclHead(acl), f, r)
           Fits == \A i \in 1..n : r >= Bytes(out[i - 1]) + Bytes(AceUnits(aces[i]))
<1>1. n \in Nat
  BY AclFields DEF AclIn
<1>2. Len(f) = n
  <2>1. f = DecodedAces(aces, buf, p + 4, Len(AclUnits(acl)) - 4)
    BY DEF DecodedAcl
  <2> QED BY <1>1, <2>1 DEF DecodedAces
<1>3. ASSUME NEW i \in 1..n, NEW x \in Int
      PROVE  LET a == encode_ace(f[i], x)
             IN  /\ a.ok \in BOOLEAN
                 /\ a.ok => a.out = e[i]
                 /\ x >= Bytes(AceUnits(aces[i])) => a.ok
                 /\ Bytes(AceUnits(aces[i])) \in Nat
  <2>1. PICK q \in Nat, m \in Nat :
            AcePlace(acl, buf, p, i, q, m)
    BY AceInAcl
  <2>2. buf \in Seq(Nat)
    BY DEF AclIn
  <2>4. /\ q + m <= Len(buf) /\ m >= Len(AceUnits(aces[i])) /\ aces[i] \in Aces
        /\ f[i] = DecodedAce(aces[i], buf, q, m)
        /\ e[i] = EncodedAce(aces[i], buf, q, m)
    BY <2>1 DEF AcePlace
  <2>3. Bytes(AceUnits(aces[i])) \in Nat
    BY <2>4, AceUnitsAre
  <2> QED BY <2>2, <2>3, <2>4, EncodeAceIs
<1>4. PICK upto : /\ upto[0] = Wrote(AclHead(acl))
                  /\ \A i \in 1..n :
                       upto[i] = Then(upto[i - 1], encode_ace(f[i], Room(r, Bytes(upto[i - 1].out))))
                  /\ w = upto[n]
  <2> HIDE DEF f
  <2>1. Len(f) \in Nat
    BY <1>1, <1>2
  <2>2. \E upto : /\ upto[0] = Wrote(AclHead(acl))
                  /\ \A i \in 1..Len(f) :
                       upto[i] = Then(upto[i - 1], encode_ace(f[i], Room(r, Bytes(upto[i - 1].out))))
                  /\ EncodeAces(AclHead(acl), f, r) = upto[Len(f)]
    BY <2>1, EncodeAcesRounds
  <2> HIDE DEF n
  <2> QED BY <1>2, <2>2
<1>5. out[0] = AclHead(acl) /\ \A i \in 1..n : out[i] = out[i - 1] \o e[i]
  BY DEF IsChain
<1> HIDE DEF n, aces, f, e, w, Fits
<1> DEFINE Good(k) == /\ upto[k].ok \in BOOLEAN
                      /\ upto[k].ok => upto[k].out = out[k]
                      /\ Fits => upto[k].ok
           S == {k \in Nat : k <= n => Good(k)}
<1>6. Good(0)
  <2>1. Wrote(AclHead(acl)).ok = TRUE /\ Wrote(AclHead(acl)).out = AclHead(acl)
    BY DEF Wrote
  <2> QED BY <1>4, <1>5, <2>1
<1>7. ASSUME NEW i \in 1..n, Good(i - 1) PROVE Good(i)
  <2> DEFINE u == upto[i - 1]
             x == Room(r, Bytes(u.out))
             a == encode_ace(f[i], x)
  <2>1. upto[i] = Then(u, a)
    BY <1>4
  <2>2. CASE u.ok = TRUE
    <3>1. u.out = out[i - 1] /\ out[i - 1] \in Seq(Nat)
      <4>1. u.out = out[i - 1]
        BY <1>7, <2>2
      <4>2. i - 1 \in 0..Len(acl.aces)
        BY <1>1 DEF n, aces
      <4> QED BY <4>1, <4>2
    <3>2. PICK b \in Nat : b = Bytes(out[i - 1]) /\ x = Room(r, b)
      BY <3>1 DEF Bytes
    <3>3. x \in Int
      BY <3>2 DEF Room, Unlimited
    <3> HIDE DEF x
    <3>4. /\ a.ok \in BOOLEAN
          /\ a.ok => a.out = e[i]
          /\ x >= Bytes(AceUnits(aces[i])) => a.ok
          /\ Bytes(AceUnits(aces[i])) \in Nat
      BY <1>3, <3>3
    <3>5. ASSUME Fits PROVE x >= Bytes(AceUnits(aces[i]))
      <4>1. r >= Bytes(out[i - 1]) + Bytes(AceUnits(aces[i]))
        BY <3>5 DEF Fits
      <4>2. r >= b + Bytes(AceUnits(aces[i]))
        BY <3>2, <4>1
      <4>3. b <= r /\ r - b >= Bytes(AceUnits(aces[i]))
        BY <3>4, <4>2
      <4>4. x = r - b
        BY <3>2, <4>3 DEF Room
      <4> QED BY <4>3, <4>4
    <3>6. Fits => a.ok
      BY <3>4, <3>5
    <3>7. out[i] = out[i - 1] \o e[i]
      BY <1>5
    <3> HIDE DEF u, a
    <3>8. Then(u, a).ok = a.ok /\ Then(u, a).out = u.out \o a.out
      BY <2>2, ThenIs
    <3>9. Then(u, a).ok => Then(u, a).out = out[i]
      BY <3>1, <3>4, <3>7, <3>8
    <3>10. Fits => Then(u, a).ok
      BY <3>6, <3>8
    <3> QED BY <2>1, <3>4, <3>8, <3>9, <3>10
  <2>3. CASE u.ok = FALSE
    <3>1. Then(u, a) = u
      BY <2>3, ThenIs
    <3>2. ~Fits
      BY <1>7, <2>3
    <3> HIDE DEF a
    <3> QED BY <2>1, <2>3, <3>1, <3>2
  <2>4. u.ok \in BOOLEAN
    BY <1>7
  <2> QED BY <2>2, <2>3, <2>4
<1>8. Nat \subseteq S
  <2> HIDE DEF Good
  <2>1. 0 \in S
    BY <1>6
  <2>2. ASSUME NEW k \in Nat, k \in S PROVE k + 1 \in S
    <3>1. CASE k + 1 <= n
      <4>1. PICK i \in 1..n : i = k + 1 /\ i - 1 = k
        BY <1>1, <3>1
      <4>2. Good(k)
        BY <1>1, <2>2, <3>1
      <4>3. Good(i - 1)
        BY <4>1, <4>2
      <4>4. Good(i)
        BY <1>7, <4>3
      <4> QED BY <4>1, <4>4
    <3>2. CASE ~(k + 1 <= n)
      BY <3>2
    <3> QED BY <3>1, <3>2
  <2> HIDE DEF S
  <2> QED BY <2>1, <2>2, SetInduction
<1>9. Good(n)
  <2> HIDE DEF Good
  <2> QED BY <1>1, <1>8
<1> QED BY <1>4, <1>9 DEF w, f, n, aces, Fits
(* The units written after each ACE of an ACL at position p.               *)
Written(acl, buf, p, out) ==
    /\ AclIn(acl, buf, p)
    /\ IsChain(out, AclHead(acl), EncodedAces(acl, buf, p), Len(acl.aces))
    /\ \A i \in 0..Len(acl.aces) : out[i] \in Seq(Nat)

LEMMA AclHeadIs ==
    ASSUME NEW acl \in Acls
    PROVE  AclHead(acl) \in Seq(Nat) /\ Len(AclHead(acl)) = 4
<1>1. Bytes(AclUnits(acl)) \in Nat /\ Len(acl.aces) \in Nat
  BY AclUnitsAre, AclFields
<1> QED BY <1>1 DEF AclHead

(* What is written for an ACE: at least its header, whose second unit is   *)
(* the size it carries.                                                    *)
AceWritten(acl, buf, p, out, i) ==
    /\ EncodedAces(acl, buf, p)[i] \in Seq(Nat)
    /\ Len(EncodedAces(acl, buf, p)[i]) >= 2
    /\ EncodedAces(acl, buf, p)[i][2] = Bytes(AceUnits(acl.aces[i]))
    /\ acl.aces[i] \in Aces
    /\ out[i] = out[i - 1] \o EncodedAces(acl, buf, p)[i]
    /\ out[i] \in Seq(Nat) /\ out[i - 1] \in Seq(Nat)

LEMMA EncodedAcesAre ==
    ASSUME NEW acl, NEW buf, NEW p, NEW out, Written(acl, buf, p, out), NEW i \in 1..Len(acl.aces)
    PROVE  AceWritten(acl, buf, p, out, i)
<1>0. AclIn(acl, buf, p)
  BY DEF Written
<1>1. PICK q \in Nat, m \in Nat : AcePlace(acl, buf, p, i, q, m)
  BY <1>0, AceInAcl
<1>2. /\ q + m <= Len(buf) /\ m >= Len(AceUnits(acl.aces[i])) /\ acl.aces[i] \in Aces
      /\ EncodedAces(acl, buf, p)[i] = EncodedAce(acl.aces[i], buf, q, m)
  BY <1>1 DEF AcePlace
<1>3. buf \in Seq(Nat)
  BY <1>0 DEF AclIn
<1>4. LET e == EncodedAce(acl.aces[i], buf, q, m)
      IN  e \in Seq(Nat) /\ Len(e) >= 2 /\ e[2] = Bytes(AceUnits(acl.aces[i]))
  BY <1>2, <1>3, EncodedAceIs
<1>5. out[i] = out[i - 1] \o EncodedAces(acl, buf, p)[i]
  BY DEF Written, IsChain
<1>6. out[i] \in Seq(Nat) /\ out[i - 1] \in Seq(Nat)
  <2>1. Len(acl.aces) \in Nat
    BY <1>0, AclFields DEF AclIn
  <2>2. i \in 0..Len(acl.aces) /\ i - 1 \in 0..Len(acl.aces)
    BY <2>1
  <2> QED BY <2>2 DEF Written
<1> QED BY <1>2, <1>4, <1>5, <1>6 DEF AceWritten

LEMMA WrittenFacts ==
    ASSUME NEW acl, NEW buf, NEW p, NEW out, Written(acl, buf, p, out)
    PROVE  /\ acl \in Acls /\ acl.aces \in Seq(Aces) /\ Len(acl.aces) \in Nat
           /\ AclIn(acl, buf, p)
           /\ out[0] = AclHead(acl)
<1>1. AclIn(acl, buf, p) /\ acl \in Acls
  BY DEF Written, AclIn
<1>2. acl.aces \in Seq(Aces) /\ Len(acl.aces) \in Nat
  BY <1>1, AclFields
<1>3. out[0] = AclHead(acl)
  BY DEF Written, IsChain
<1> QED BY <1>1, <1>2, <1>3

(* What has been written stays.                                            *)
LEMMA WrittenStays ==
    ASSUME NEW acl, NEW buf, NEW p, NEW out, Written(acl, buf, p, out), NEW i \in 0..Len(acl.aces)
    PROVE  /\ Len(out[i]) <= Len(out[Len(acl.aces)])
           /\ \A x \in 1..Len(out[i]) : out[Len(acl.aces)][x] = out[i][x]
<1> DEFINE n == Len(acl.aces)
           e == EncodedAces(acl, buf, p)
           Stays(j) == Len(out[i]) <= Len(out[j]) /\ \A x \in 1..Len(out[i]) : out[j][x] = out[i][x]
           S == {k \in Nat : i + k <= n => Stays(i + k)}
<1>1. /\ n \in Nat
      /\ \A j \in 0..n : out[j] \in Seq(Nat)
      /\ \A j \in 1..n : out[j] = out[j - 1] \o e[j] /\ e[j] \in Seq(Nat)
  <2>1. n \in Nat
    BY WrittenFacts
  <2>2. \A j \in 0..n : out[j] \in Seq(Nat)
    BY DEF Written
  <2>3. \A j \in 1..n : AceWritten(acl, buf, p, out, j)
    BY EncodedAcesAre
  <2> QED BY <2>1, <2>2, <2>3 DEF AceWritten
<1> HIDE DEF n, e
<1>2. i \in 0..n /\ out[i] \in Seq(Nat) /\ Len(out[i]) \in Nat
  BY <1>1 DEF n
<1>3. Stays(i)
  BY <1>2
<1>4. ASSUME NEW j \in 1..n, j - 1 \in 0..n, Stays(j - 1) PROVE Stays(j)
  <2> DEFINE s == out[j - 1]
             t == e[j]
  <2>1. s \in Seq(Nat) /\ t \in Seq(Nat) /\ out[j] = s \o t
    BY <1>1, <1>4
  <2>2. Len(out[i]) <= Len(s) /\ \A x \in 1..Len(out[i]) : s[x] = out[i][x]
    BY <1>4
  <2> HIDE DEF s, t
  <2>3. Len(s) \in Nat /\ Len(t) \in Nat /\ Len(s \o t) = Len(s) + Len(t)
        /\ \A x \in 1..Len(s) : (s \o t)[x] = s[x]
    BY <2>1
  <2>4. Len(out[i]) <= Len(s \o t)
    BY <1>2, <2>2, <2>3
  <2>5. \A x \in 1..Len(out[i]) : (s \o t)[x] = out[i][x]
    BY <1>2, <2>2, <2>3
  <2> QED BY <2>1, <2>4, <2>5
<1> HIDE DEF Stays
<1>5. 0 \in S
  BY <1>2, <1>3
<1>6. ASSUME NEW k \in Nat, k \in S PROVE k + 1 \in S
  <2>1. CASE i + (k + 1) <= n
    <3>1. PICK j \in 1..n : j = i + (k + 1) /\ j - 1 = i + k /\ j - 1 \in 0..n
      BY <1>1, <1>2, <2>1
    <3>2. Stays(i + k)
      BY <1>1, <1>2, <1>6, <2>1
    <3>3. Stays(j - 1)
      BY <3>1, <3>2
    <3>4. Stays(j)
      BY <1>4, <3>1, <3>3
    <3> QED BY <3>1, <3>4
  <2>2. CASE ~(i + (k + 1) <= n)
    BY <2>2
  <2> QED BY <2>1, <2>2
<1>7. Nat \subseteq S
  <2> HIDE DEF S
  <2> QED BY <1>5, <1>6, SetInduction
<1>8. PICK k \in Nat : i + k = n
  <2>1. n - i \in Nat /\ i + (n - i) = n
    BY <1>1, <1>2
  <2> QED BY <2>1
<1>9. Stays(n)
  <2>1. k \in S
    BY <1>7
  <2>2. i + k <= n
    BY <1>1, <1>8
  <2>3. Stays(i + k)
    BY <2>1, <2>2
  <2> QED BY <1>8, <2>3
<1> QED BY <1>9 DEF Stays, n

(* As long as the ACEs are clean, what is written is what the server sent. *)
LEMMA CleanPrefix ==
    ASSUME NEW acl, NEW buf, NEW p, NEW out, Written(acl, buf, p, out), NEW k \in 0..Len(acl.aces),
           \A i \in 1..k : Clean(acl.aces[i])
    PROVE  out[k] = AclHead(acl) \o AcesUpto(acl.aces)[k]
<1> DEFINE n == Len(acl.aces)
           e == EncodedAces(acl, buf, p)
           u == AcesUpto(acl.aces)
           h == AclHead(acl)
           S == {j \in Nat : j <= k => out[j] = h \o u[j]}
<1>1. /\ n \in Nat /\ acl \in Acls /\ acl.aces \in Seq(Aces) /\ AclIn(acl, buf, p)
      /\ out[0] = h
      /\ \A i \in 1..n : out[i] = out[i - 1] \o e[i]
  <2>1. \A j \in 1..n : AceWritten(acl, buf, p, out, j)
    BY EncodedAcesAre
  <2> QED BY <2>1, WrittenFacts DEF AceWritten
<1>2. h \in Seq(Nat)
  BY <1>1, AclHeadIs
<1>3. u[0] = <<>> /\ \A i \in 1..n : u[i] = u[i - 1] \o AceUnits(acl.aces[i])
  BY <1>1, AcesUptoEquation
<1>4. (\A i \in 0..n : u[i] \in Seq(Nat)) /\ \A i \in 1..n : acl.aces[i] \in Aces
  BY <1>1, AcesUptoType
<1>5. ASSUME NEW i \in 1..k PROVE e[i] = AceUnits(acl.aces[i])
  <2>1. i \in 1..Len(acl.aces)
    BY <1>1
  <2>2. PICK q \in Nat, m \in Nat : AcePlace(acl, buf, p, i, q, m)
    BY <1>1, <2>1, AceInAcl
  <2>3. acl.aces[i] \in Aces /\ e[i] = EncodedAce(acl.aces[i], buf, q, m)
    BY <2>2 DEF AcePlace
  <2>4. Clean(acl.aces[i])
    OBVIOUS
  <2>5. EncodedAce(acl.aces[i], buf, q, m) = AceUnits(acl.aces[i])
    BY <2>3, <2>4, CleanIsKept
  <2> QED BY <2>3, <2>5
<1>6. k \in 0..n
  OBVIOUS
<1> HIDE DEF n, e, u, h
<1>7. 0 \in S
  BY <1>1, <1>2, <1>3, EmptyAdded
<1>8. ASSUME NEW j \in Nat, j \in S PROVE j + 1 \in S
  <2>1. CASE j + 1 <= k
    <3>1. PICK i \in 1..k : i = j + 1 /\ i - 1 = j /\ i \in 1..n /\ j \in 0..n
      BY <1>1, <1>6, <2>1
    <3>2. out[j] = h \o u[j]
      BY <1>6, <1>8, <2>1
    <3> DEFINE a == AceUnits(acl.aces[i])
    <3>3. out[i] = out[j] \o a /\ u[i] = u[j] \o a
      BY <1>1, <1>3, <1>5, <3>1
    <3>4. a \in Seq(Nat) /\ u[j] \in Seq(Nat)
      BY <1>4, <3>1, AceUnitsAre
    <3> HIDE DEF a
    <3>5. (h \o u[j]) \o a = h \o (u[j] \o a)
      BY <1>2, <3>4, ConcatAssociates
    <3>6. out[i] = h \o u[i]
      BY <3>2, <3>3, <3>5
    <3> QED BY <3>1, <3>6
  <2>2. CASE ~(j + 1 <= k)
    BY <2>2
  <2> QED BY <2>1, <2>2
<1>9. Nat \subseteq S
  <2> HIDE DEF S
  <2> QED BY <1>7, <1>8, SetInduction
<1>10. out[k] = h \o u[k]
  <2>1. k \in Nat /\ k <= k
    BY <1>1
  <2> QED BY <1>9, <2>1
<1> QED BY <1>10 DEF h, u
LEMMA SeqEqual ==
    ASSUME NEW s \in Seq(Nat), NEW t \in Seq(Nat), NEW n \in Nat, Len(s) = n, Len(t) = n,
           \A i \in 1..n : s[i] = t[i]
    PROVE  s = t
  OBVIOUS

(* An ACE of an unknown type, in a block that holds the units t from it on *)
(* to the end of the ACL, is written as t.                                 *)
LEMMA UnknownIsKept ==
    ASSUME NEW a \in Aces, Unknown(a), NEW buf \in Seq(Nat), NEW q \in Nat, NEW n \in Nat,
           q + n <= Len(buf), n >= 2,
           NEW t \in Seq(Nat), Len(t) = n, Holds(buf, q, t),
           t[1] = a.type, t[2] = Bytes(AceUnits(a))
    PROVE  EncodedAce(a, buf, q, n) = t
<1> DEFINE h == AceHead(a)
<1>1. h \in Seq(Nat) /\ Len(h) = 2 /\ h[1] = t[1] /\ h[2] = t[2]
  BY FixedPartIs
<1>2. PICK r \in Nat, m \in Nat : r = q + 2 /\ m = n - 2
  OBVIOUS
<1> DEFINE s == Slice(buf, r, m)
<1>3. r + m <= Len(buf)
  BY <1>2
<1>4. s \in Seq(Nat) /\ Len(s) = m /\ \A i \in 1..m : s[i] = buf[r + i]
  BY <1>3, SliceIs
<1>5. EncodedAce(a, buf, q, n) = h \o s
  BY <1>2 DEF EncodedAce, BlobPart
<1> HIDE DEF h, s
<1>6. /\ h \o s \in Seq(Nat) /\ Len(h \o s) = 2 + m
      /\ (h \o s)[1] = h[1] /\ (h \o s)[2] = h[2]
      /\ \A i \in 3..(2 + m) : (h \o s)[i] = s[i - 2]
  <2>1. h \o s \in Seq(Nat) /\ Len(h \o s) = Len(h) + Len(s)
    BY <1>1, <1>4, Joined
  <2>2. /\ \A i \in 1..Len(h) : (h \o s)[i] = h[i]
        /\ \A i \in 1..Len(s) : (h \o s)[Len(h) + i] = s[i]
    BY <1>1, <1>4, JoinedElements
  <2>3. ASSUME NEW i \in 3..(2 + m) PROVE (h \o s)[i] = s[i - 2]
    <3>1. PICK j \in 1..m : j = i - 2 /\ 2 + j = i
      OBVIOUS
    <3>2. (h \o s)[2 + j] = s[j]
      BY <1>1, <1>4, <2>2
    <3> QED BY <3>1, <3>2
  <2>4. 1 \in 1..Len(h) /\ 2 \in 1..Len(h)
    BY <1>1
  <2>5. Len(h \o s) = 2 + m
    BY <1>1, <1>4, <2>1
  <2> QED BY <2>1, <2>2, <2>3, <2>4, <2>5
<1>7. \A i \in 1..n : buf[q + i] = t[i]
  BY DEF Holds
<1>8. ASSUME NEW i \in 3..n PROVE s[i - 2] = t[i]
  <2>1. i - 2 \in 1..m /\ r + (i - 2) = q + i /\ i \in 1..n
    BY <1>2
  <2> QED BY <1>4, <1>7, <2>1
<1>9. 2 + m = n
  BY <1>2
<1>10. ASSUME NEW i \in 1..n PROVE (h \o s)[i] = t[i]
  <2>0. i = 1 \/ i = 2 \/ i \in 3..n
    OBVIOUS
  <2>1. CASE i = 1
    BY <1>1, <1>6, <2>1
  <2>2. CASE i = 2
    BY <1>1, <1>6, <2>2
  <2>3. CASE i \in 3..n
    BY <1>6, <1>8, <1>9, <2>3
  <2> QED BY <2>0, <2>1, <2>2, <2>3
<1>11. h \o s = t
  <2> DEFINE g == h \o s
  <2>1. g \in Seq(Nat) /\ Len(g) = n /\ \A i \in 1..n : g[i] = t[i]
    BY <1>6, <1>9, <1>10
  <2> HIDE DEF g
  <2>2. g = t
    BY <2>1, SeqEqual
  <2> QED BY <2>2 DEF g
<1> QED BY <1>5, <1>11

(* What is written for the i-th ACE, in units: x before it, m from it to   *)
(* the end of the ACL, c of contents, y of filling, l written.             *)
AceLengths(acl, buf, p, out, i, x, m, c, y, l) ==
    /\ x = Len(AcesUpto(acl.aces)[i - 1])
    /\ Len(AclUnits(acl)) = 4 + x + m
    /\ c = Len(Content(acl.aces[i])) /\ y = acl.aces[i].pad \div 2
    /\ Len(AceUnits(acl.aces[i])) = 2 + c + y
    /\ m >= 2 + c + y
    /\ l = Len(EncodedAces(acl, buf, p)[i]) /\ l >= 2
    /\ Len(out[i]) = Len(out[i - 1]) + l
    /\ Unknown(acl.aces[i]) => l = m
    /\ acl.aces[i].type % 256 \in CALLBACK => l > m
    /\ ~Unknown(acl.aces[i]) /\ acl.aces[i].type % 256 \notin CALLBACK => l = 2 + c

LEMMA AceLengthsExist ==
    ASSUME NEW acl, NEW buf, NEW p, NEW out, Written(acl, buf, p, out), NEW i \in 1..Len(acl.aces)
    PROVE  \E x \in Nat, m \in Nat, c \in Nat, y \in Nat, l \in Nat :
              AceLengths(acl, buf, p, out, i, x, m, c, y, l)
<1> DEFINE a == acl.aces[i]
           e == EncodedAces(acl, buf, p)[i]
<1>0. AclIn(acl, buf, p) /\ buf \in Seq(Nat)
  BY DEF Written, AclIn
<1>1. PICK q \in Nat, m \in Nat : AcePlace(acl, buf, p, i, q, m)
  BY <1>0, AceInAcl
<1>2. /\ q + m <= Len(buf) /\ m >= Len(AceUnits(a)) /\ a \in Aces
      /\ e = EncodedAce(a, buf, q, m)
      /\ Len(AcesUpto(acl.aces)[i - 1]) \in Nat
      /\ Len(AclUnits(acl)) = 4 + Len(AcesUpto(acl.aces)[i - 1]) + m
  BY <1>1 DEF AcePlace
<1>3. AceWritten(acl, buf, p, out, i)
  BY EncodedAcesAre
<1>4. e \in Seq(Nat) /\ Len(e) >= 2 /\ out[i] = out[i - 1] \o e /\ out[i - 1] \in Seq(Nat)
  BY <1>3 DEF AceWritten
<1>5. LET w == EncodedAce(a, buf, q, m)
      IN  /\ Unknown(a) => Len(w) = m
          /\ a.type % 256 \in CALLBACK => Len(w) > m
          /\ ~Unknown(a) /\ a.type % 256 \notin CALLBACK => Len(w) = 2 + Len(Content(a))
  <2> HIDE DEF a, e
  <2>1. buf \in Seq(Nat) /\ q + m <= Len(buf) /\ m >= Len(AceUnits(a)) /\ a \in Aces
    BY <1>0, <1>2
  <2> QED BY <2>1, EncodedAceIs
<1>6. Content(a) \in Seq(Nat) /\ a.pad \in Nat /\ Len(AceUnits(a)) = 2 + Len(Content(a)) + a.pad \div 2
  BY <1>2, ContentType, AceFields, AceUnitsAre
<1> HIDE DEF a, e
<1>7. PICK x \in Nat, c \in Nat, y \in Nat, l \in Nat :
        x = Len(AcesUpto(acl.aces)[i - 1]) /\ c = Len(Content(a)) /\ y = a.pad \div 2 /\ l = Len(e)
  <2>1. \A t \in Seq(Nat) : Len(t) \in Nat
    OBVIOUS
  <2>2. Len(Content(a)) \in Nat /\ Len(e) \in Nat
    BY <1>4, <1>6, <2>1
  <2>3. \A n \in Nat : n \div 2 \in Nat
    OBVIOUS
  <2>4. a.pad \div 2 \in Nat
    BY <1>6, <2>3
  <2> QED BY <1>2, <2>2, <2>4
<1>8. Len(out[i]) = Len(out[i - 1]) + l
  BY <1>4, <1>7, Joined
<1>9. Len(AceUnits(a)) = 2 + c + y /\ m >= 2 + c + y /\ l >= 2
  BY <1>2, <1>4, <1>6, <1>7
<1>10. /\ Unknown(a) => l = m
       /\ a.type % 256 \in CALLBACK => l > m
       /\ ~Unknown(a) /\ a.type % 256 \notin CALLBACK => l = 2 + c
  BY <1>2, <1>5, <1>7
<1>11. Len(AclUnits(acl)) = 4 + x + m
  BY <1>2, <1>7
<1>12. AceLengths(acl, buf, p, out, i, x, m, c, y, l)
  BY <1>7, <1>8, <1>9, <1>10, <1>11 DEF AceLengths, a, e
<1> QED BY <1>12
LEMMA AceUnitsHead ==
    ASSUME NEW a \in Aces
    PROVE  /\ AceUnits(a) \in Seq(Nat) /\ Len(AceUnits(a)) >= 2
           /\ AceUnits(a)[1] = a.type /\ AceUnits(a)[2] = Bytes(AceUnits(a))
           /\ Bytes(AceUnits(a)) # 0
<1> DEFINE h == AceHead(a)
           r == Content(a) \o Zeros(a.pad)
           u == AceUnits(a)
<1>1. h \in Seq(Nat) /\ Len(h) = 2 /\ h[1] = a.type /\ h[2] = Bytes(AceUnits(a))
  BY FixedPartIs
<1>2. u = h \o r /\ u \in Seq(Nat)
  BY AceUnitsAre DEF AceHead
<1>3. r \in Seq(Nat)
  BY ContentType, AceFields, ZerosAre, Joined
<1> HIDE DEF h, r
<1>4. Len(h \o r) = Len(h) + Len(r)
  BY <1>1, <1>3, Joined
<1>5. \A i \in 1..Len(h) : (h \o r)[i] = h[i]
  BY <1>1, <1>3, JoinedElements
<1>6. 1 \in 1..Len(h) /\ 2 \in 1..Len(h)
  BY <1>1
<1>7. (h \o r)[1] = h[1] /\ (h \o r)[2] = h[2]
  BY <1>5, <1>6
<1>8. PICK k \in Nat : k = Len(r)
  BY <1>3
<1>9. Len(u) = 2 + k
  BY <1>1, <1>2, <1>4, <1>8
<1>10. Bytes(u) # 0 /\ Len(u) >= 2
  BY <1>9 DEF Bytes
<1> QED BY <1>1, <1>2, <1>7, <1>10

(* An ACE the encoder reproduces where it is.                              *)
Fine(acl, i) == IF Unknown(acl.aces[i]) THEN i = Len(acl.aces) ELSE Clean(acl.aces[i])

LEMMA ReproducibleIs ==
    ASSUME NEW acl \in Acls
    PROVE  Reproducible(acl) <=>
             /\ \A i \in 1..Len(acl.aces) : Fine(acl, i)
             /\ acl.slack > 0 => Len(acl.aces) # 0 /\ Unknown(acl.aces[Len(acl.aces)])
<1>1. acl.aces \in Seq(Aces)
  BY AclFields
<1>2. DOMAIN acl.aces = 1..Len(acl.aces) /\ (acl.aces # <<>> <=> Len(acl.aces) # 0)
  BY <1>1
<1>3. ASSUME NEW i
      PROVE  Fine(acl, i) <=> IF Unknown(acl.aces[i]) THEN i = Len(acl.aces)
                              ELSE acl.aces[i].pad = 0 /\ acl.aces[i].type % 256 \notin CALLBACK
  BY DEF Fine, Clean
<1> QED BY <1>2, <1>3 DEF Reproducible

(* A reproducible ACL is written as the server sent it.                    *)
LEMMA ReproducibleIsWritten ==
    ASSUME NEW acl, NEW buf, NEW p, NEW out, Written(acl, buf, p, out), Reproducible(acl)
    PROVE  out[Len(acl.aces)] = AclUnits(acl)
<1> DEFINE n == Len(acl.aces)
           u == AcesUpto(acl.aces)
           h == AclHead(acl)
           z == Zeros(acl.slack)
           all == AclUnits(acl)
<1>1. acl \in Acls /\ acl.aces \in Seq(Aces) /\ n \in Nat /\ AclIn(acl, buf, p)
  BY WrittenFacts
<1>2. /\ \A i \in 1..n : Fine(acl, i)
      /\ acl.slack > 0 => n # 0 /\ Unknown(acl.aces[n])
  BY <1>1, ReproducibleIs
<1>3. h \in Seq(Nat) /\ Len(h) = 4
  BY <1>1, AclHeadIs
<1>4. acl.slack \in Nat /\ z \in Seq(Nat)
  BY <1>1, AclFields, ZerosAre
<1>5. all = h \o (u[n] \o z) /\ all \in Seq(Nat)
  BY <1>1, AclUnitsAre DEF AclHead, AllAces
<1>6. \A i \in 0..n : u[i] \in Seq(Nat)
  BY <1>1, AcesUptoType
<1>7. CASE n = 0 \/ ~Unknown(acl.aces[n])
  <2>1. ASSUME NEW i \in 1..n PROVE Clean(acl.aces[i])
    <3>1. i = n => ~Unknown(acl.aces[i])
      BY <1>1, <1>7
    <3> QED BY <1>2, <3>1 DEF Fine
  <2>2. n \in 0..Len(acl.aces)
    BY <1>1
  <2>3. out[n] = h \o u[n]
    BY <2>1, <2>2, CleanPrefix
  <2>4. acl.slack = 0
    <3>1. ~(acl.slack > 0)
      BY <1>2, <1>7
    <3> QED BY <1>4, <3>1
  <2>5. z = <<>>
    <3>1. Zeros(0) = [i \in 1..(0 \div 2) |-> 0] /\ 0 \div 2 = 0
      BY DEF Zeros
    <3>2. Zeros(0) = <<>>
      BY <3>1
    <3> QED BY <2>4, <3>2
  <2>6. u[n] \o z = u[n]
    BY <1>6, <2>2, <2>5, EmptyAdded
  <2> QED BY <1>5, <2>3, <2>6
<1>8. CASE n # 0 /\ Unknown(acl.aces[n])
  <2>1. PICK k \in 0..n : k = n - 1
    <3>1. n \in Nat /\ n # 0
      BY <1>1, <1>8
    <3> HIDE DEF n
    <3>2. n - 1 \in 0..n
      BY <3>1
    <3> QED BY <3>2
  <2>2. n \in 1..n
    BY <1>1, <1>8
  <2> DEFINE a == AceUnits(acl.aces[n])
             t == a \o z
             e == EncodedAces(acl, buf, p)[n]
             hu == h \o u[k]
  <2>3. ASSUME NEW i \in 1..k PROVE Clean(acl.aces[i])
    <3>1. i \in 1..n /\ i # n
      BY <1>1, <2>1
    <3> QED BY <1>2, <3>1 DEF Fine
  <2>4. out[k] = hu
    BY <2>3, CleanPrefix
  <2>5. AceWritten(acl, buf, p, out, n)
    BY <2>2, EncodedAcesAre
  <2>6. out[n] = out[k] \o e /\ acl.aces[n] \in Aces
    BY <2>1, <2>5 DEF AceWritten
  <2>7. /\ a \in Seq(Nat) /\ a[1] = acl.aces[n].type /\ a[2] = Bytes(a)
        /\ Len(a) >= 2
    BY <2>6, AceUnitsHead
  <2>8. u[n] = u[k] \o a
    <3>1. u[n] = u[n - 1] \o a
      BY <1>1, <2>2, AcesUptoEquation
    <3> QED BY <2>1, <3>1
  <2>9. u[k] \in Seq(Nat) /\ Len(u[k]) \in Nat
    BY <1>6, <2>1
  <2> HIDE DEF a, h, u, z, all
  <2>10. t \in Seq(Nat) /\ Len(t) = Len(a) + Len(z)
    BY <1>4, <2>7, Joined
  <2>11. t[1] = a[1] /\ t[2] = a[2]
    <3>1. \A i \in 1..Len(a) : (a \o z)[i] = a[i]
      BY <1>4, <2>7, JoinedElements
    <3>2. 1 \in 1..Len(a) /\ 2 \in 1..Len(a)
      BY <2>7
    <3> QED BY <3>1, <3>2
  <2>12. hu \in Seq(Nat) /\ Len(hu) = 4 + Len(u[k])
    <3>1. hu \in Seq(Nat) /\ Len(hu) = Len(h) + Len(u[k])
      BY <1>3, <2>9, Joined
    <3> QED BY <1>3, <3>1
  <2>13. all = hu \o t
    <3>1. (u[k] \o a) \o z = u[k] \o t
      BY <1>4, <2>7, <2>9, ConcatAssociates
    <3> HIDE DEF t
    <3>2. h \o (u[k] \o t) = (h \o u[k]) \o t
      BY <1>3, <2>9, <2>10, ConcatAssociates
    <3> QED BY <1>5, <2>8, <3>1, <3>2
  <2> HIDE DEF t, hu
  <2>14. Holds(buf, p, all) /\ p \in Nat /\ buf \in Seq(Nat)
    BY <1>1 DEF AclIn, all
  <2>15. Holds(buf, p + Len(hu), t)
    <3>1. Holds(buf, p, hu \o t)
      BY <2>13, <2>14
    <3> QED BY <2>10, <2>12, <2>14, <3>1, HoldsParts
  <2>16. PICK q \in Nat, m \in Nat : AcePlace(acl, buf, p, n, q, m)
    BY <1>1, <2>2, AceInAcl
  <2>17. /\ q = p + 4 + Len(u[k]) /\ q + m <= Len(buf) /\ Len(all) = 4 + Len(u[k]) + m
         /\ e = EncodedAce(acl.aces[n], buf, q, m)
    BY <2>1, <2>16 DEF AcePlace, u, all
  <2>18. PICK x \in Nat, y \in Nat : x = Len(u[k]) /\ y = Len(t)
    BY <2>9, <2>10
  <2>19. p + Len(hu) = q
    <3>1. Len(hu) = 4 + x /\ q = p + 4 + x
      BY <2>12, <2>17, <2>18
    <3>2. p + (4 + x) = p + 4 + x
      BY <2>14
    <3> QED BY <3>1, <3>2
  <2>20. Len(t) = m
    <3>1. Len(all) = Len(hu) + Len(t)
      BY <2>10, <2>12, <2>13, Joined
    <3>2. 4 + x + m = (4 + x) + y
      BY <2>12, <2>17, <2>18, <3>1
    <3> QED BY <2>18, <3>2
  <2>21. m >= 2
    <3>1. Len(z) \in Nat /\ Len(a) \in Nat
      BY <1>4, <2>7
    <3> QED BY <2>7, <2>10, <2>20, <3>1
  <2>22. Holds(buf, q, t)
    BY <2>15, <2>19
  <2>23. t[1] = acl.aces[n].type /\ t[2] = Bytes(AceUnits(acl.aces[n]))
    BY <2>7, <2>11 DEF a
  <2>24. q + m <= Len(buf) /\ Unknown(acl.aces[n])
    BY <1>8, <2>17
  <2>25. EncodedAce(acl.aces[n], buf, q, m) = t
    BY <2>6, <2>10, <2>14, <2>20, <2>21, <2>22, <2>23, <2>24, UnknownIsKept
  <2> QED BY <2>4, <2>6, <2>13, <2>17, <2>25 DEF all
<1> QED BY <1>7, <1>8
(* An ACE filled up with two units or more, before another one: what is    *)
(* written has the size of that other one where the server has a zero.     *)
LEMMA FillingIsLost ==
    ASSUME NEW acl, NEW buf, NEW p, NEW out, Written(acl, buf, p, out),
           NEW k \in 1..Len(acl.aces), k + 1 \in 1..Len(acl.aces),
           out[k - 1] = AclHead(acl) \o AcesUpto(acl.aces)[k - 1],
           ~Unknown(acl.aces[k]), acl.aces[k].type % 256 \notin CALLBACK, acl.aces[k].pad \div 2 >= 2
    PROVE  out[Len(acl.aces)] # AclUnits(acl)
<1> DEFINE n == Len(acl.aces)
           u == AcesUpto(acl.aces)
           h == AclHead(acl)
           all == AclUnits(acl)
           a == acl.aces[k]
           b == acl.aces[k + 1]
           eb == EncodedAces(acl, buf, p)[k + 1]
<1>1. acl \in Acls /\ acl.aces \in Seq(Aces) /\ n \in Nat /\ k \in Nat
  BY WrittenFacts
<1>2. PICK x \in Nat, m \in Nat, c \in Nat, y \in Nat, l \in Nat :
         AceLengths(acl, buf, p, out, k, x, m, c, y, l)
  BY AceLengthsExist
<1>3. /\ x = Len(u[k - 1]) /\ c = Len(Content(a)) /\ y >= 2 /\ y = a.pad \div 2 /\ l = 2 + c
      /\ Len(out[k]) = Len(out[k - 1]) + l
      /\ Len(AceUnits(a)) = 2 + c + y
  BY <1>2 DEF AceLengths
<1>4. a \in Aces /\ b \in Aces
  BY <1>1, AcesUptoType
<1>5. AceWritten(acl, buf, p, out, k + 1)
  BY EncodedAcesAre
<1>6. /\ eb \in Seq(Nat) /\ Len(eb) >= 2 /\ eb[2] = Bytes(AceUnits(b))
      /\ out[k + 1] = out[k] \o eb /\ out[k] \in Seq(Nat) /\ out[k + 1] \in Seq(Nat)
  <2>1. k + 1 - 1 = k
    BY <1>1
  <2> QED BY <1>5, <2>1 DEF AceWritten
<1>7. Len(out[k]) = 4 + x + 2 + c
  <2>1. h \in Seq(Nat) /\ Len(h) = 4
    BY <1>1, AclHeadIs
  <2>2. k - 1 \in 0..n
    BY <1>1
  <2>3. u[k - 1] \in Seq(Nat)
    BY <1>1, <2>2, AcesUptoType
  <2> HIDE DEF h, u
  <2>4. Len(h \o u[k - 1]) = Len(h) + Len(u[k - 1])
    BY <2>1, <2>3, Joined
  <2>5. Len(out[k - 1]) = 4 + x
    BY <1>3, <2>1, <2>4 DEF h, u
  <2>6. Len(out[k]) = (4 + x) + (2 + c)
    BY <1>3, <2>5
  <2> QED BY <2>6
<1>8. PICK g \in Nat : g = 4 + x + 2 + c + 2
  OBVIOUS
<1>9. out[n][g] = Bytes(AceUnits(b))
  <2>1. Len(out[k]) \in Nat /\ Len(eb) \in Nat
    BY <1>6
  <2>2. /\ \A i \in 1..Len(eb) : (out[k] \o eb)[Len(out[k]) + i] = eb[i]
        /\ Len(out[k] \o eb) = Len(out[k]) + Len(eb)
    BY <1>6, Joined, JoinedElements
  <2>3. 2 \in 1..Len(eb)
    BY <1>6, <2>1
  <2>4. out[k + 1][Len(out[k]) + 2] = eb[2] /\ Len(out[k + 1]) = Len(out[k]) + Len(eb)
    BY <1>6, <2>2, <2>3
  <2>5. Len(out[k]) + 2 = g
    BY <1>7, <1>8
  <2>6. g \in 1..Len(out[k + 1])
    <3>1. PICK d \in Nat : d >= 2 /\ d = Len(eb)
      BY <1>6, <2>1
    <3>2. Len(out[k + 1]) = (4 + x + 2 + c) + d
      BY <1>7, <2>4, <3>1
    <3>3. d >= 2
      BY <3>1
    <3>4. g \in 1..((4 + x + 2 + c) + d)
      BY <1>8, <3>3
    <3> QED BY <3>2, <3>4
  <2>7. k + 1 \in 0..Len(acl.aces)
    BY <1>1
  <2>8. out[n][g] = out[k + 1][g]
    BY <2>6, <2>7, WrittenStays
  <2> QED BY <1>6, <2>4, <2>5, <2>8
<1>10. Bytes(AceUnits(b)) # 0
  BY <1>4, AceUnitsHead
<1>11. all[g] = 0
  <2> DEFINE r == AllAces(acl.aces) \o Zeros(acl.slack)
  <2>1. all = h \o r /\ all \in Seq(Nat) /\ AllAces(acl.aces) \in Seq(Nat)
    BY <1>1, AclUnitsAre DEF AclHead
  <2>2. h \in Seq(Nat) /\ Len(h) = 4
    BY <1>1, AclHeadIs
  <2>3. Zeros(acl.slack) \in Seq(Nat)
    BY <1>1, AclFields, ZerosAre
  <2>4. r \in Seq(Nat)
    BY <2>1, <2>3, Joined
  <2>5. Holds(all, 0, all)
    BY <2>1, HoldsItself
  <2>6. Holds(all, 4, AllAces(acl.aces))
    <3> HIDE DEF all, h
    <3>1. Holds(all, 0, h \o r)
      BY <2>1, <2>5
    <3>2. Holds(all, 4, r)
      <4> HIDE DEF r
      <4>1. Holds(all, 0 + Len(h), r)
        BY <2>2, <2>4, <3>1, HoldsParts
      <4>2. 0 + Len(h) = 4
        BY <2>2
      <4> QED BY <4>1, <4>2
    <3> QED BY <2>1, <2>3, <3>2, HoldsParts
  <2>7. Holds(all, 4 + Len(u[k - 1]), AceUnits(a))
    <3>1. Holds(all, 4, AcesUpto(acl.aces)[Len(acl.aces)])
      BY <2>6 DEF AllAces
    <3> HIDE DEF all
    <3> QED BY <1>1, <3>1, AcesInPlace
  <2>8. PICK j \in Nat : j = 2 + c + 2
    OBVIOUS
  <2>9. AceUnits(a)[j] = 0
    <3> DEFINE ha == AceHead(a)
               ca == Content(a)
               za == Zeros(a.pad)
               cz == ca \o za
    <3>1. AceUnits(a) = ha \o cz
      BY <1>4, AceUnitsAre DEF AceHead
    <3>2. ha \in Seq(Nat) /\ Len(ha) = 2 /\ ca \in Seq(Nat) /\ a.pad \in Nat
      BY <1>4, FixedPartIs, ContentType, AceFields
    <3>3. za \in Seq(Nat) /\ Len(za) = a.pad \div 2 /\ \A i \in 1..(a.pad \div 2) : za[i] = 0
      BY <3>2, ZerosAre
    <3> HIDE DEF ha, ca, za
    <3>4. cz \in Seq(Nat) /\ Len(cz) = Len(ca) + Len(za)
          /\ \A i \in 1..Len(za) : cz[Len(ca) + i] = za[i]
      BY <3>2, <3>3, Joined, JoinedElements
    <3> HIDE DEF cz
    <3>5. \A i \in 1..Len(cz) : (ha \o cz)[Len(ha) + i] = cz[i]
      BY <3>2, <3>4, JoinedElements
    <3>6. PICK w \in Nat : w = c + 2
      OBVIOUS
    <3>7. cz[w] = 0
      <4>1. 2 \in 1..y
        BY <1>3
      <4>2. Len(za) = y /\ Len(ca) = c /\ za[2] = 0
        BY <1>3, <3>3, <4>1 DEF ca
      <4>3. cz[c + 2] = za[2]
        BY <3>4, <4>1, <4>2
      <4> QED BY <3>6, <4>2, <4>3
    <3>8. w \in 1..Len(cz)
      <4>1. Len(cz) = c + y
        BY <1>3, <3>3, <3>4 DEF ca
      <4>2. y >= 2
        BY <1>3
      <4>3. w \in 1..(c + y)
        BY <3>6, <4>2
      <4> QED BY <4>1, <4>3
    <3>9. (ha \o cz)[2 + w] = 0
      BY <3>2, <3>5, <3>7, <3>8
    <3>10. 2 + w = j
      BY <2>8, <3>6
    <3> QED BY <3>1, <3>9, <3>10
  <2>10. j \in 1..Len(AceUnits(a))
    BY SMTT(30), <1>3, <2>8
  <2>11. all[4 + Len(u[k - 1]) + j] = AceUnits(a)[j]
    BY <2>7, <2>10 DEF Holds
  <2>12. 4 + Len(u[k - 1]) + j = g
    <3>1. 4 + x + (2 + c + 2) = g
      BY <1>8
    <3> QED BY <1>3, <2>8, <3>1
  <2> QED BY <2>9, <2>11, <2>12
<1> QED BY <1>9, <1>10, <1>11
LEMMA PaddingIs ==
    ASSUME NEW n \in Nat, n % 4 = 0, n # 0
    PROVE  n \div 2 >= 2
  OBVIOUS

(* Any other ACL is written differently: longer, if the contents of an ACE *)
(* are taken to reach to its end; shorter, if what fills the last ACE or   *)
(* the ACL is lost; and shifted, if it is another ACE's.                   *)
LEMMA OtherIsChanged ==
    ASSUME NEW acl, NEW buf, NEW p, NEW out, Written(acl, buf, p, out), ~Reproducible(acl)
    PROVE  out[Len(acl.aces)] # AclUnits(acl)
<1> DEFINE n == Len(acl.aces)
           u == AcesUpto(acl.aces)
           h == AclHead(acl)
           all == AclUnits(acl)
<1>1. acl \in Acls /\ acl.aces \in Seq(Aces) /\ n \in Nat
  BY WrittenFacts
<1>2. h \in Seq(Nat) /\ Len(h) = 4
  BY <1>1, AclHeadIs
<1>3. \A i \in 0..n : u[i] \in Seq(Nat)
  BY <1>1, AcesUptoType
<1>4. ASSUME NEW i \in 0..n PROVE Len(h \o u[i]) = 4 + Len(u[i])
  <2> HIDE DEF h, u
  <2> QED BY <1>2, <1>3, Joined
<1>5. \A i \in 0..n : out[i] \in Seq(Nat)
  BY DEF Written
<1>6. CASE \A i \in 1..n : Fine(acl, i)
  <2>1. acl.slack > 0 /\ ~(n # 0 /\ Unknown(acl.aces[n]))
    BY <1>1, <1>6, ReproducibleIs
  <2>2. ASSUME NEW i \in 1..n PROVE Clean(acl.aces[i])
    <3>1. i = n => ~Unknown(acl.aces[i])
      BY <1>1, <2>1
    <3> QED BY <1>6, <3>1 DEF Fine
  <2>3. n \in 0..n
    BY <1>1
  <2>4. out[n] = h \o u[n]
    BY <2>2, <2>3, CleanPrefix
  <2>5. Len(out[n]) = 4 + Len(u[n])
    BY <1>4, <2>3, <2>4
  <2>6. acl.slack \in Nat /\ acl.slack % 4 = 0 /\ acl.slack # 0
    BY <1>1, <2>1, AclFields
  <2>7. acl.slack \div 2 \in Nat /\ acl.slack \div 2 >= 2
    BY <2>6, PaddingIs
  <2>8. Len(all) = 4 + Len(u[n]) + acl.slack \div 2
    BY <1>1, AclUnitsAre DEF AllAces
  <2>9. PICK x \in Nat, s \in Nat : x = Len(u[n]) /\ s = acl.slack \div 2
    <3>1. Len(u[n]) \in Nat
      BY <1>3, <2>3
    <3> QED BY <2>7, <3>1
  <2>10. Len(out[n]) = 4 + x /\ Len(all) = 4 + x + s /\ s >= 2
    BY <2>5, <2>7, <2>8, <2>9
  <2>11. 4 + x # 4 + x + s
    BY <2>10
  <2> QED BY <2>10, <2>11
<1>7. CASE \E i \in 1..n : ~Fine(acl, i)
  <2> DEFINE T == {i \in 1..n : ~Fine(acl, i)}
  <2>1. T \subseteq Nat /\ T # {}
    BY <1>1, <1>7
  <2>2. PICK k \in T : \A i \in T : k <= i
    BY <2>1, LeastElement
  <2>3. k \in 1..n /\ ~Fine(acl, k) /\ k - 1 \in 0..n /\ k \in 0..n
    BY <1>1
  <2>4. ASSUME NEW i \in 1..(k - 1) PROVE Clean(acl.aces[i])
    <3>1. i \in 1..n /\ ~(k <= i) /\ i # n
      BY <1>1, <2>3
    <3>2. i \notin T
      BY <2>2, <3>1
    <3>3. Fine(acl, i)
      BY <3>1, <3>2
    <3> QED BY <3>1, <3>3 DEF Fine
  <2>5. out[k - 1] = h \o u[k - 1]
    <3>1. PICK j \in 0..n : j = k - 1
      BY <2>3
    <3>2. \A i \in 1..j : Clean(acl.aces[i])
      BY <2>4, <3>1
    <3>3. out[j] = h \o u[j]
      BY <3>2, CleanPrefix
    <3> QED BY <3>1, <3>3
  <2>6. PICK x \in Nat, m \in Nat, c \in Nat, y \in Nat, l \in Nat :
          AceLengths(acl, buf, p, out, k, x, m, c, y, l)
    BY <2>3, AceLengthsExist
  <2>7. /\ x = Len(u[k - 1]) /\ Len(all) = 4 + x + m /\ m >= 2 + c + y
        /\ Len(out[k]) = Len(out[k - 1]) + l
        /\ y = acl.aces[k].pad \div 2
        /\ Unknown(acl.aces[k]) => l = m
        /\ acl.aces[k].type % 256 \in CALLBACK => l > m
        /\ ~Unknown(acl.aces[k]) /\ acl.aces[k].type % 256 \notin CALLBACK => l = 2 + c
    BY <2>6 DEF AceLengths
  <2>8. Len(out[k]) = 4 + x + l
    <3>1. Len(out[k - 1]) = 4 + Len(u[k - 1])
      BY <1>4, <2>3, <2>5
    <3> QED BY <2>7, <3>1
  <2>9. PICK w \in Nat : w = Len(out[n]) /\ 4 + x + l <= w
    <3>1. Len(out[k]) <= Len(out[n])
      BY <2>3, WrittenStays
    <3>2. Len(out[n]) \in Nat
      <4>1. n \in 0..n
        BY <1>1
      <4> QED BY <1>5, <4>1
    <3> QED BY <2>8, <3>1, <3>2
  <2>10. acl.aces[k] \in Aces
    BY <1>1, <2>3, AcesUptoType
  <2> HIDE DEF T, all, u, h
  <2>11. CASE acl.aces[k].type % 256 \in CALLBACK
    <3>1. l > m
      BY <2>7, <2>11
    <3>2. w # 4 + x + m
      BY <2>9, <3>1
    <3>3. Len(out[n]) # Len(all)
      BY <2>7, <2>9, <3>2
    <3> QED BY <3>3 DEF all
  <2>12. CASE Unknown(acl.aces[k])
    <3>1. l = m /\ k # n
      BY <2>3, <2>7, <2>12 DEF Fine
    <3>2. k + 1 \in 1..n /\ k + 1 \in 0..n
      BY <1>1, <2>3, <3>1
    <3>3. PICK j \in 1..n : j = k + 1 /\ j - 1 = k /\ j \in 0..n
      BY <2>3, <3>2
    <3>4. PICK xx \in Nat, mm \in Nat, cc \in Nat, yy \in Nat, ll \in Nat :
            AceLengths(acl, buf, p, out, j, xx, mm, cc, yy, ll)
      BY AceLengthsExist
    <3>5. ll >= 2 /\ Len(out[j]) = Len(out[j - 1]) + ll
      BY <3>4 DEF AceLengths
    <3>6. Len(out[j]) = 4 + x + l + ll
      BY <2>8, <3>3, <3>5
    <3>7. Len(out[j]) <= Len(out[n])
      BY <3>3, WrittenStays
    <3>8. 4 + x + l + ll <= w
      BY <2>9, <3>6, <3>7
    <3>9. w # 4 + x + m
      BY <3>1, <3>5, <3>8
    <3>10. Len(out[n]) # Len(all)
      BY <2>7, <2>9, <3>9
    <3> QED BY <3>10 DEF all
  <2>13. CASE ~Unknown(acl.aces[k]) /\ acl.aces[k].type % 256 \notin CALLBACK
    <3>1. acl.aces[k].pad # 0
      BY <2>3, <2>13 DEF Fine, Clean
    <3>2. acl.aces[k].pad \in Nat /\ acl.aces[k].pad % 4 = 0
      BY <2>10, AceFields
    <3>3. acl.aces[k].pad \div 2 >= 2
      BY <3>1, <3>2, PaddingIs
    <3>4. CASE k = n
      <4>1. Len(out[n]) = 4 + x + l
        BY <2>8, <3>4
      <4>2. l = 2 + c /\ y >= 2 /\ m >= 2 + c + y
        BY <2>7, <2>13, <3>3
      <4>3. 4 + x + l # 4 + x + m
        BY <4>2
      <4>4. Len(out[n]) # Len(all)
        BY <2>7, <4>1, <4>3
      <4> QED BY <4>4 DEF all
    <3>5. CASE k # n
      <4>1. k + 1 \in 1..n
        BY <1>1, <2>3, <3>5
      <4> QED BY <2>3, <2>5, <2>13, <3>3, <4>1, FillingIsLost DEF h, u
    <3> QED BY <3>4, <3>5
  <2> QED BY <2>11, <2>12, <2>13
<1> QED BY <1>6, <1>7
(* What the encoder makes of a decoded ACL is the server's ACL exactly if  *)
(* that is reproducible; and then, without slack, it does not fail.        *)
LEMMA AclIsEncoded ==
    ASSUME NEW acl, NEW buf, NEW p, AclIn(acl, buf, p), NEW r \in Int
    PROVE  LET w == encode_acl(DecodedAcl(acl, buf, p), r)
           IN  /\ w.ok \in BOOLEAN
               /\ w.ok => w.out \in Seq(Nat)
               /\ w.ok => (w.out = AclUnits(acl) <=> Reproducible(acl))
               /\ Reproducible(acl) /\ acl.slack = 0 /\ r >= Bytes(AclUnits(acl)) => w.ok
<1> DEFINE n == Len(acl.aces)
           h == AclHead(acl)
           e == EncodedAces(acl, buf, p)
           d == DecodedAcl(acl, buf, p)
           size == AclSize(d)
           all == AclUnits(acl)
           w == encode_acl(d, r)
           v == EncodeAces(h, d.aces, r)
<1>1. acl \in Acls /\ acl.aces \in Seq(Aces) /\ n \in Nat
  BY AclFields DEF AclIn
<1>2. h \in Seq(Nat) /\ Len(h) = 4
  BY <1>1, AclHeadIs
<1>3. ASSUME NEW i \in 1..n PROVE e[i] \in Seq(Nat)
  <2>1. PICK q \in Nat, m \in Nat : AcePlace(acl, buf, p, i, q, m)
    BY AceInAcl
  <2>2. /\ q + m <= Len(buf) /\ m >= Len(AceUnits(acl.aces[i])) /\ acl.aces[i] \in Aces
        /\ e[i] = EncodedAce(acl.aces[i], buf, q, m)
    BY <2>1 DEF AcePlace
  <2>3. buf \in Seq(Nat)
    BY DEF AclIn
  <2>4. EncodedAce(acl.aces[i], buf, q, m) \in Seq(Nat)
    BY <2>2, <2>3, EncodedAceIs
  <2> QED BY <2>2, <2>4
<1>4. PICK out : IsChain(out, h, e, n) /\ \A i \in 0..n : out[i] \in Seq(Nat)
  <2> HIDE DEF h, e, n
  <2> QED BY <1>1, <1>2, <1>3, ChainIs
<1>5. Written(acl, buf, p, out)
  BY <1>4 DEF Written
<1>6. out[n] = all <=> Reproducible(acl)
  BY <1>5, ReproducibleIsWritten, OtherIsChanged
<1>7. /\ v.ok \in BOOLEAN
      /\ v.ok => v.out = out[n]
      /\ (\A i \in 1..n : r >= Bytes(out[i - 1]) + Bytes(AceUnits(acl.aces[i]))) => v.ok
  BY <1>4, AcesAreEncoded
<1>8. out[n] \in Seq(Nat)
  <2>1. n \in 0..n
    BY <1>1
  <2> QED BY <1>4, <2>1
<1>9. size = 8 + Bytes(AllAces(acl.aces))
  BY <1>1, AclSizeIs
<1>10. d.acl_size = Bytes(all) /\ h = <<d.revision, d.acl_size, d.ace_count, 0>>
  BY DEF DecodedAcl, AclHead
<1>11. w = IF size > Bytes(all) \/ r < size THEN GaveUp(<<>>) ELSE v
  <2> HIDE DEF d, h
  <2> QED BY <1>10 DEF encode_acl
<1>12. GaveUp(<<>>).ok = FALSE
  BY DEF GaveUp
<1>13. ASSUME Reproducible(acl), acl.slack = 0, r >= Bytes(all) PROVE w = v /\ v.ok
  <2>1. PICK s \in Nat : s = Len(AllAces(acl.aces))
    BY <1>1, AclUnitsAre
  <2>2. Len(all) = 4 + s
    <3>1. Len(all) = 4 + s + 0 \div 2
      BY <1>1, <1>13, <2>1, AclUnitsAre
    <3> QED BY <3>1
  <2>3. size = 8 + 2 * s /\ Bytes(all) = 2 * (4 + s)
    BY <1>9, <2>1, <2>2 DEF Bytes
  <2>4. ~(size > Bytes(all)) /\ ~(r < size)
    <3>1. r >= 2 * (4 + s)
      BY <1>13, <2>3
    <3>2. ~(8 + 2 * s > 2 * (4 + s)) /\ ~(r < 8 + 2 * s)
      BY <3>1
    <3> QED BY <2>3, <3>2
  <2>5. w = v
    <3> HIDE DEF v, w, size, all
    <3> QED BY <1>11, <2>4
  <2>6. ASSUME NEW i \in 1..n PROVE r >= Bytes(out[i - 1]) + Bytes(AceUnits(acl.aces[i]))
    <3>1. PICK k \in 0..n : k = i - 1
      <4>1. i - 1 \in 0..n
        BY <1>1
      <4> QED BY <4>1
    <3>2. ASSUME NEW j \in 1..k PROVE Clean(acl.aces[j])
      <4>1. j \in 1..n /\ j # n
        BY <1>1, <3>1
      <4>2. Fine(acl, j)
        BY <1>1, <1>13, <4>1, ReproducibleIs
      <4> QED BY <4>1, <4>2 DEF Fine
    <3> DEFINE u == AcesUpto(acl.aces)
    <3>3. out[k] = h \o u[k]
      BY <1>5, <3>2, CleanPrefix
    <3>4. u[k] \in Seq(Nat)
      BY <1>1, AcesUptoType
    <3> HIDE DEF h, u
    <3>5. Len(out[k]) = 4 + Len(u[k])
      BY <1>2, <3>3, <3>4, Joined
    <3>6. PICK x \in Nat, m \in Nat, c \in Nat, y \in Nat, l \in Nat :
            AceLengths(acl, buf, p, out, i, x, m, c, y, l)
      BY <1>5, AceLengthsExist
    <3>7. /\ x = Len(u[i - 1]) /\ Len(all) = 4 + x + m /\ m >= 2 + c + y
          /\ Len(AceUnits(acl.aces[i])) = 2 + c + y
      BY <3>6 DEF AceLengths, u
    <3>8. Len(out[i - 1]) = 4 + x
      BY <3>1, <3>5, <3>7
    <3>9. /\ Bytes(out[i - 1]) = 2 * (4 + x) /\ Bytes(AceUnits(acl.aces[i])) = 2 * (2 + c + y)
          /\ Bytes(all) = 2 * (4 + x + m)
      BY <3>7, <3>8 DEF Bytes
    <3>10. r >= 2 * (4 + x + m) /\ m >= 2 + c + y
      BY <1>13, <3>7, <3>9
    <3>11. r >= 2 * (4 + x) + 2 * (2 + c + y)
      BY <3>10
    <3> QED BY <3>9, <3>11
  <2>7. v.ok
    <3> HIDE DEF v
    <3> QED BY <1>7, <2>6
  <2> QED BY <2>5, <2>7
<1> HIDE DEF v
<1>14. CASE w = v
  BY <1>6, <1>7, <1>8, <1>13, <1>14
<1>15. CASE w = GaveUp(<<>>)
  <2>1. w.ok = FALSE
    BY <1>12, <1>15
  <2>2. ~(Reproducible(acl) /\ acl.slack = 0 /\ r >= Bytes(all))
    <3> SUFFICES ASSUME Reproducible(acl), acl.slack = 0, r >= Bytes(all) PROVE FALSE
      OBVIOUS
    <3>1. w = v /\ v.ok
      BY <1>13
    <3> QED BY <2>1, <3>1
  <2> HIDE DEF w
  <2> QED BY <2>1, <2>2 DEF w
<1>16. w = v \/ w = GaveUp(<<>>)
  <2> HIDE DEF w
  <2> QED BY <1>11
<1> QED BY <1>14, <1>15, <1>16
-----------------------------------------------------------------------------
(* What is encoded of a decoded descriptor.                                *)

LEMMA SidPartSize ==
    ASSUME NEW s, s = None \/ s \in Sids
    PROVE  /\ SidPart(s) \in Seq(Nat)
           /\ Len(SidPart(s)) \in Nat
           /\ (IF s = None THEN 0 ELSE SidSize(s)) = 2 * Len(SidPart(s))
<1>1. CASE s = None
  <2>1. SidPart(s) = <<>>
    BY <1>1 DEF SidPart
  <2>2. <<>> \in Seq(Nat) /\ Len(<<>>) = 0
    OBVIOUS
  <2> QED BY <1>1, <2>1, <2>2
<1>2. CASE s \in Sids
  <2>1. s # None /\ SidUnits(s) \in Seq(Nat) /\ Bytes(SidUnits(s)) = SidSize(s)
    BY <1>2, SidFields, SidUnitsAre
  <2>2. SidPart(s) = SidUnits(s)
    BY <2>1 DEF SidPart
  <2>3. \A t \in Seq(Nat) : Len(t) \in Nat /\ Bytes(t) = 2 * Len(t)
    BY DEF Bytes
  <2> QED BY <2>1, <2>2, <2>3
<1> QED BY <1>1, <1>2

(* A SID the buffer has room for follows what is written.                  *)
LEMMA WithSidIs ==
    ASSUME NEW out \in Seq(Nat), NEW b \in Nat, NEW s, s = None \/ s \in Sids,
           b >= 2 * Len(out) + 2 * Len(SidPart(s))
    PROVE  (IF s = None THEN Wrote(out)
            ELSE Then(Wrote(out), encode_sid(s, Room(b, Bytes(Wrote(out).out)))))
              = Wrote(out \o SidPart(s))
<1>1. CASE s = None
  <2>1. SidPart(s) = <<>>
    BY <1>1 DEF SidPart
  <2>2. out \o <<>> = out
    BY EmptyAdded
  <2> QED BY <1>1, <2>1, <2>2
<1>2. CASE s \in Sids
  <2>1. s # None
    BY <1>2, SidFields
  <2>2. SidPart(s) = SidUnits(s)
    BY <2>1 DEF SidPart
  <2>3. PICK n \in Nat, k \in Nat : n = Len(out) /\ k = Len(SidPart(s))
    BY <1>2, SidPartSize
  <2>4. SidSize(s) = 2 * k
    BY <1>2, <2>1, <2>3, SidPartSize
  <2>5. Wrote(out).out = out /\ Wrote(out).ok = TRUE
    BY DEF Wrote
  <2>6. Room(b, Bytes(Wrote(out).out)) = b - 2 * n
    <3>1. Bytes(Wrote(out).out) = 2 * n
      BY <2>3, <2>5 DEF Bytes
    <3>2. 2 * n <= b
      BY <2>3
    <3> QED BY <3>1, <3>2 DEF Room
  <2>7. PICK r \in Int : r = b - 2 * n
    OBVIOUS
  <2>8. r >= SidSize(s)
    BY <2>3, <2>4, <2>7
  <2>9. encode_sid(s, r) = Wrote(SidPart(s))
    BY <1>2, <2>2, <2>8, EncodeSidIs
  <2>10. Then(Wrote(out), Wrote(SidPart(s))) = Wrote(out \o SidPart(s))
    BY DEF Then, Wrote
  <2> QED BY <2>1, <2>6, <2>7, <2>9, <2>10
<1> QED BY <1>1, <1>2

(* Header, owner and group, as the encoder puts them.                      *)
SidsUnits(d) == (Header(DecodedDescriptor(d)) \o SidPart(d.owner)) \o SidPart(d.group)

LEMMA HeaderIs ==
    ASSUME NEW d \in Descriptors, NEW i \in Nat, NEW j \in Nat,
           i = Len(SidPart(d.owner)), j = Len(SidPart(d.group))
    PROVE  /\ Header(DecodedDescriptor(d))
                = HeadUnits(4, Offset(d.owner, 0), Offset(d.group, i),
                            IF Absent(d) THEN 0 ELSE 20 + 2 * (i + j))
           /\ Header(DecodedDescriptor(d)) \in Seq(Nat)
           /\ Len(Header(DecodedDescriptor(d))) = 10
           /\ SidsUnits(d) \in Seq(Nat)
           /\ Len(SidsUnits(d)) = 10 + i + j
<1> DEFINE sd == DecodedDescriptor(d)
           x == Offset(d.owner, 0)
           y == Offset(d.group, i)
           w == IF Absent(d) THEN 0 ELSE 20 + 2 * (i + j)
           h == Header(sd)
           o == SidPart(d.owner)
           g == SidPart(d.group)
           ho == h \o o
<1>1. sd.control = 4 /\ sd.owner = d.owner /\ sd.group = d.group /\ (sd.dacl = None <=> Absent(d))
  <2>1. /\ sd.control = 4 /\ sd.owner = d.owner /\ sd.group = d.group
        /\ sd.dacl = IF Absent(d) THEN None ELSE DecodedAcl(d.dacl, DescriptorUnits(d), 10 + DaclPos(d))
    BY DEF DecodedDescriptor
  <2> QED BY <2>1, AclNotBad
<1>2. /\ (IF d.owner = None THEN 0 ELSE SidSize(d.owner)) = 2 * i
      /\ (IF d.group = None THEN 0 ELSE SidSize(d.group)) = 2 * j
      /\ o \in Seq(Nat) /\ g \in Seq(Nat)
  BY DescriptorFields, SidPartSize
<1>3. h = HeadUnits(4, x, y, w)
  <2> DEFINE group == 20 + (IF sd.owner = None THEN 0 ELSE SidSize(sd.owner))
             dacl == group + (IF sd.group = None THEN 0 ELSE SidSize(sd.group))
             x1 == IF sd.owner = None THEN 0 ELSE 20
             y1 == IF sd.group = None THEN 0 ELSE group
             w1 == IF sd.dacl = None THEN 0 ELSE dacl
  <2> HIDE DEF sd
  <2>1. h = HeadUnits(sd.control, x1, y1, w1)
    BY DEF Header, HeadUnits
  <2>2. group = 20 + 2 * i
    BY <1>1, <1>2
  <2>3. dacl = (20 + 2 * i) + 2 * j
    <3> HIDE DEF group
    <3> QED BY <1>1, <1>2, <2>2
  <2>4. (20 + 2 * i) + 2 * j = 20 + 2 * (i + j) /\ 20 + 2 * 0 = 20
    OBVIOUS
  <2> HIDE DEF group, dacl
  <2>5. x1 = x /\ y1 = y /\ w1 = w
    BY <1>1, <2>2, <2>3, <2>4 DEF Offset
  <2> QED BY <1>1, <2>1, <2>5
<1>4. x \in Nat /\ y \in Nat /\ w \in Nat
  BY DEF Offset
<1>5. HeadUnits(4, x, y, w) \in Seq(Nat) /\ Len(HeadUnits(4, x, y, w)) = 10
  <2> HIDE DEF x, y, w
  <2> DEFINE u == HeadUnits(4, x, y, w)
  <2>1. Holds(u, 0, u)
    BY DEF Holds
  <2>2. 4 \in Nat
    OBVIOUS
  <2> QED BY <1>4, <2>1, <2>2, HeadIs
<1>6. h \in Seq(Nat) /\ Len(h) = 10
  BY <1>3, <1>5
<1>7. SidsUnits(d) = ho \o g
  BY DEF SidsUnits
<1>8. i = Len(o) /\ j = Len(g)
  OBVIOUS
<1> HIDE DEF h, o, g
<1>9. ho \in Seq(Nat) /\ Len(ho) = 10 + i
  BY <1>2, <1>6, <1>8, Joined
<1> HIDE DEF ho
<1>10. ho \o g \in Seq(Nat) /\ Len(ho \o g) = 10 + i + j
  BY <1>2, <1>8, <1>9, Joined
<1> QED BY <1>3, <1>6, <1>7, <1>10 DEF h

(* The buffer has room for the descriptor as the sizes of its parts say.   *)
LEMMA RoomIs ==
    ASSUME NEW d \in Descriptors, NEW i \in Nat, NEW j \in Nat,
           i = Len(SidPart(d.owner)), j = Len(SidPart(d.group))
    PROVE  /\ RoomFor(d) \in Nat
           /\ RoomFor(d) >= 20 + 2 * i + 2 * j
           /\ ~Absent(d) => RoomFor(d) >= 20 + 2 * i + 2 * j + 8 + Bytes(AllAces(d.dacl.aces))
<1> DEFINE sd == DecodedDescriptor(d)
           acl == DecodedAcl(d.dacl, DescriptorUnits(d), 10 + DaclPos(d))
           size == smb2_get_security_descriptor_size(sd)
<1>1. /\ sd.owner = d.owner /\ sd.group = d.group
      /\ sd.dacl = IF Absent(d) THEN None ELSE acl
  BY DEF DecodedDescriptor
<1>2. /\ (IF d.owner = None THEN 0 ELSE SidSize(d.owner)) = 2 * i
      /\ (IF d.group = None THEN 0 ELSE SidSize(d.group)) = 2 * j
  BY DescriptorFields, SidPartSize
<1>3. RoomFor(d) = Buffer(size)
  BY DEF RoomFor
<1>4. acl # None
  BY AclNotBad
<1> HIDE DEF sd, acl
<1>5. size = 20 + 2 * i + 2 * j + (IF Absent(d) THEN 0 ELSE AclSize(acl))
  BY <1>1, <1>2, <1>4 DEF smb2_get_security_descriptor_size
<1> HIDE DEF size
<1>6. CASE Absent(d)
  <2>1. size = 20 + 2 * i + 2 * j
    BY <1>5, <1>6
  <2>2. size \in Nat
    BY <2>1
  <2>3. Buffer(size) \in Nat /\ Buffer(size) >= size
    BY <2>2, BufferFits
  <2> QED BY <1>3, <1>6, <2>1, <2>3
<1>7. CASE ~Absent(d)
  <2>1. d.dacl \in Acls
    BY <1>7, DescriptorFields DEF Absent
  <2>2. AclSize(acl) = 8 + Bytes(AllAces(d.dacl.aces))
    BY <2>1, AclSizeIs DEF acl
  <2>3. PICK k \in Nat : k = Bytes(AllAces(d.dacl.aces))
    <3>1. AllAces(d.dacl.aces) \in Seq(Nat)
      BY <2>1, AclUnitsAre
    <3>2. \A t \in Seq(Nat) : Bytes(t) \in Nat
      BY DEF Bytes
    <3> QED BY <3>1, <3>2
  <2>4. size = 20 + 2 * i + 2 * j + (8 + k)
    BY <1>5, <1>7, <2>2, <2>3
  <2>5. size \in Nat
    BY <2>4
  <2>6. Buffer(size) \in Nat /\ Buffer(size) >= size
    BY <2>5, BufferFits
  <2>7. PICK r \in Nat : r = RoomFor(d)
    BY <1>3, <2>6
  <2>8. r >= 20 + 2 * i + 2 * j + (8 + k)
    BY <1>3, <2>4, <2>6, <2>7
  <2>9. r >= 20 + 2 * i + 2 * j /\ r >= 20 + 2 * i + 2 * j + 8 + k
    BY <2>8
  <2> QED BY <2>3, <2>7, <2>9
<1> QED BY <1>6, <1>7

LEMMA EncodedParts ==
    ASSUME NEW d \in Descriptors, NEW i \in Nat, NEW j \in Nat,
           i = Len(SidPart(d.owner)), j = Len(SidPart(d.group))
    PROVE  Encoded(d) =
             IF Absent(d) THEN Wrote(SidsUnits(d))
             ELSE Then(Wrote(SidsUnits(d)),
                       encode_acl(DecodedAcl(d.dacl, DescriptorUnits(d), 10 + DaclPos(d)),
                                  RoomFor(d) - (20 + 2 * i + 2 * j)))
<1> DEFINE sd == DecodedDescriptor(d)
           acl == DecodedAcl(d.dacl, DescriptorUnits(d), 10 + DaclPos(d))
           b == RoomFor(d)
           h == Header(sd)
           o == SidPart(d.owner)
           g == SidPart(d.group)
           WithSid(done, sid) ==
             IF sid = None THEN done
             ELSE Then(done, encode_sid(sid, Room(b, Bytes(done.out))))
           sids == WithSid(WithSid(Wrote(h), sd.owner), sd.group)
<1>1. /\ sd.owner = d.owner /\ sd.group = d.group
      /\ sd.dacl = IF Absent(d) THEN None ELSE acl
  BY DEF DecodedDescriptor
<1>2. acl # None
  BY AclNotBad
<1>3. h \in Seq(Nat) /\ Len(h) = 10 /\ SidsUnits(d) \in Seq(Nat) /\ Len(SidsUnits(d)) = 10 + i + j
  BY HeaderIs
<1>4. b \in Nat /\ b >= 20 + 2 * i + 2 * j
  BY RoomIs
<1>5. (d.owner = None \/ d.owner \in Sids) /\ (d.group = None \/ d.group \in Sids)
  BY DescriptorFields
<1>6. Encoded(d) = IF sd.dacl = None THEN sids
                   ELSE Then(sids, encode_acl(sd.dacl, Room(b, Bytes(sids.out))))
  BY DEF Encoded, smb2EncodeSecurityDescriptor
<1>7. SidsUnits(d) = (h \o o) \o g
  BY DEF SidsUnits
<1>8. o \in Seq(Nat) /\ g \in Seq(Nat)
  BY PartTypes
<1>9. Len(o) = i /\ Len(g) = j
  OBVIOUS
<1> HIDE DEF b, h, sd, acl
<1>10. WithSid(Wrote(h), sd.owner) = Wrote(h \o o)
  <2>1. b >= 2 * Len(h) + 2 * Len(o)
    BY <1>3, <1>4, <1>9
  <2>2. WithSid(Wrote(h), d.owner) = Wrote(h \o o)
    <3>1. h \in Seq(Nat) /\ b \in Nat
      BY <1>3, <1>4
    <3> QED BY <1>5, <2>1, <3>1, WithSidIs
  <2> QED BY <1>1, <2>2
<1> DEFINE ho == h \o o
<1>11. ho \in Seq(Nat) /\ Len(ho) = 10 + i
  <2> HIDE DEF o
  <2> QED BY <1>3, <1>8, <1>9, Joined
<1> HIDE DEF ho
<1>12. WithSid(Wrote(ho), sd.group) = Wrote(ho \o g)
  <2>1. b >= 2 * Len(ho) + 2 * Len(g)
    BY <1>4, <1>9, <1>11
  <2>2. WithSid(Wrote(ho), d.group) = Wrote(ho \o g)
    BY <1>4, <1>5, <1>11, <2>1, WithSidIs
  <2> QED BY <1>1, <2>2
<1>13. sids = Wrote(SidsUnits(d))
  <2> HIDE DEF WithSid, o, g
  <2> QED BY <1>7, <1>10, <1>12 DEF ho
<1> HIDE DEF sids
<1>14. sids.out = SidsUnits(d)
  BY <1>13 DEF Wrote
<1>15. Room(b, Bytes(sids.out)) = b - (20 + 2 * i + 2 * j)
  <2>1. Bytes(sids.out) = 20 + 2 * i + 2 * j
    <3>1. Bytes(sids.out) = 2 * (10 + i + j)
      BY <1>3, <1>14 DEF Bytes
    <3> QED BY <3>1
  <2>2. 20 + 2 * i + 2 * j <= b
    BY <1>4
  <2> QED BY <2>1, <2>2 DEF Room
<1>16. CASE Absent(d)
  BY <1>1, <1>6, <1>13, <1>16
<1>17. CASE ~Absent(d)
  BY <1>1, <1>2, <1>6, <1>13, <1>15, <1>17 DEF acl, b
<1> QED BY <1>16, <1>17

LEMMA Cancelled ==
    ASSUME NEW s \in Seq(Nat), NEW t \in Seq(Nat), NEW v \in Seq(Nat), s \o t = s \o v
    PROVE  t = v
<1> DEFINE a == s \o t
           b == s \o v
<1>1. PICK n \in Nat, k \in Nat, m \in Nat : n = Len(s) /\ k = Len(t) /\ m = Len(v)
  OBVIOUS
<1>2. Len(a) = n + k /\ \A i \in 1..k : a[n + i] = t[i]
  BY <1>1, Joined, JoinedElements
<1>3. Len(b) = n + m /\ \A i \in 1..m : b[n + i] = v[i]
  BY <1>1, Joined, JoinedElements
<1>4. a = b
  OBVIOUS
<1> HIDE DEF a, b
<1>5. k = m
  BY <1>2, <1>3, <1>4
<1>6. \A i \in 1..k : t[i] = v[i]
  BY <1>2, <1>3, <1>4, <1>5
<1> QED BY <1>1, <1>5, <1>6, SeqEqual

(* The block the server would send with the DACL last.                     *)
Last(d) == [d EXCEPT !.acl_first = FALSE]

LEMMA LastIs ==
    ASSUME NEW d \in Descriptors, NEW i \in Nat, NEW j \in Nat,
           i = Len(SidPart(d.owner)), j = Len(SidPart(d.group))
    PROVE  /\ DescriptorUnits(Last(d)) \in Seq(Nat)
           /\ Len(DescriptorUnits(Last(d))) = 10 + i + j + Len(AclPart(d.dacl))
           /\ d.dacl = None \/ ~Absent(d) =>
                DescriptorUnits(Last(d)) = SidsUnits(d) \o AclPart(d.dacl)
<1> DEFINE e == Last(d)
           o == SidPart(d.owner)
           g == SidPart(d.group)
           a == AclPart(d.dacl)
           h == Header(DecodedDescriptor(d))
<1>1. e \in Descriptors /\ e.owner = d.owner /\ e.group = d.group /\ e.dacl = d.dacl /\ e.acl_first = FALSE
  BY DEF Last, Descriptors
<1>2. DescriptorUnits(e) \in Seq(Nat)
      /\ Len(DescriptorUnits(e)) = 10 + Len(SidPart(e.owner)) + Len(SidPart(e.group)) + Len(AclPart(e.dacl))
  BY <1>1, DescriptorLaidOut
<1>3. DescriptorUnits(e) \in Seq(Nat) /\ Len(DescriptorUnits(e)) = 10 + i + j + Len(a)
  BY <1>1, <1>2
<1>4. DescriptorUnits(e) = HeadOf(e) \o ((o \o g) \o a)
  <2>1. DescriptorUnits(e) = HeadOf(e) \o PartsUnits(e)
    BY <1>1, DescriptorUnitsAre
  <2>2. PartsUnits(e) = (o \o g) \o a
    BY <1>1 DEF PartsUnits
  <2> QED BY <2>1, <2>2
<1>5. ASSUME d.dacl = None \/ ~Absent(d) PROVE HeadOf(e) = h
  <2>1. h = HeadUnits(4, Offset(d.owner, 0), Offset(d.group, i), IF Absent(d) THEN 0 ELSE 20 + 2 * (i + j))
    BY HeaderIs
  <2>2. OwnerPos(e) = 0 /\ GroupPos(e) = 0 + i /\ DaclPos(e) = i + j
    BY <1>1 DEF OwnerPos, GroupPos, DaclPos
  <2>3. GroupPos(e) = i
    BY <2>2
  <2>4. Offset(d.dacl, i + j) = IF Absent(d) THEN 0 ELSE 20 + 2 * (i + j)
    BY <1>5 DEF Offset, Absent
  <2> QED BY <1>1, <2>1, <2>2, <2>3, <2>4 DEF HeadOf
<1>6. o \in Seq(Nat) /\ g \in Seq(Nat) /\ a \in Seq(Nat) /\ h \in Seq(Nat)
  BY PartTypes, HeaderIs
<1>7. SidsUnits(d) = (h \o o) \o g
  BY DEF SidsUnits
<1> HIDE DEF o, g, a, h
<1>8. h \o ((o \o g) \o a) = ((h \o o) \o g) \o a
  <2> DEFINE og == o \o g
  <2>1. og \in Seq(Nat) /\ (h \o o) \o g = h \o og
    BY <1>6, Joined, ConcatAssociates
  <2> HIDE DEF og
  <2>2. (h \o og) \o a = h \o (og \o a)
    BY <1>6, <2>1, ConcatAssociates
  <2> QED BY <2>1, <2>2 DEF og
<1> QED BY <1>3, <1>4, <1>5, <1>7, <1>8 DEF a, h

(* An ACL that was read lies in the server's block.                        *)
LEMMA AclIsThere ==
    ASSUME NEW d \in Descriptors, ~Absent(d)
    PROVE  /\ d.dacl \in Acls /\ AclPart(d.dacl) = AclUnits(d.dacl)
           /\ AclIn(d.dacl, DescriptorUnits(d), 10 + DaclPos(d))
<1> DEFINE u == DescriptorUnits(d)
<1>1. d.dacl # None /\ d.dacl \in Acls
  BY DescriptorFields DEF Absent
<1>2. AclPart(d.dacl) = AclUnits(d.dacl)
  BY <1>1 DEF AclPart
<1>3. u \in Seq(Nat) /\ Holds(u, 10 + DaclPos(d), AclPart(d.dacl))
  BY DescriptorLaidOut
<1>4. PICK i \in Nat, j \in Nat, k \in Nat :
        i = Len(SidPart(d.owner)) /\ j = Len(SidPart(d.group)) /\ k = Len(AclPart(d.dacl))
  <2>1. SidPart(d.owner) \in Seq(Nat) /\ SidPart(d.group) \in Seq(Nat) /\ AclPart(d.dacl) \in Seq(Nat)
    BY PartTypes
  <2>2. \A t \in Seq(Nat) : Len(t) \in Nat
    OBVIOUS
  <2> QED BY <2>1, <2>2
<1>5. Len(u) = 10 + i + j + k
  BY <1>4, DescriptorLaidOut
<1>6. DaclPos(d) = 0 \/ DaclPos(d) = i + j
  BY <1>4 DEF DaclPos
<1> HIDE DEF u
<1>7. 10 + DaclPos(d) \in Nat /\ 10 + DaclPos(d) + k <= Len(u)
  BY <1>5, <1>6
<1> QED BY <1>1, <1>2, <1>3, <1>4, <1>7 DEF AclIn, u

(* What the encoder writes of a descriptor, and when it has to.            *)
Kept(d) == d.dacl = None \/ (Reproducible(d.dacl) /\ ~(EmptyAcl(d) /\ AtTheEnd(d)))
Fits(d) == d.dacl # None => Reproducible(d.dacl) /\ d.dacl.slack = 0

LEMMA EncodedIs ==
    ASSUME NEW d \in Descriptors
    PROVE  /\ Encoded(d).ok \in BOOLEAN
           /\ Encoded(d).ok => (Encoded(d).out = DescriptorUnits(Last(d)) <=> Kept(d))
           /\ Fits(d) => Encoded(d).ok /\ Bytes(Encoded(d).out) <= RoomFor(d)
<1> DEFINE e == Encoded(d)
           s == SidsUnits(d)
           last == DescriptorUnits(Last(d))
           acl == DecodedAcl(d.dacl, DescriptorUnits(d), 10 + DaclPos(d))
           room == RoomFor(d)
<1>1. PICK i \in Nat, j \in Nat : i = Len(SidPart(d.owner)) /\ j = Len(SidPart(d.group))
  BY PartTypes
<1> DEFINE r == room - (20 + 2 * i + 2 * j)
<1>2. e = IF Absent(d) THEN Wrote(s) ELSE Then(Wrote(s), encode_acl(acl, r))
  BY <1>1, EncodedParts
<1>3. s \in Seq(Nat) /\ Len(s) = 10 + i + j
  BY <1>1, HeaderIs
<1>4. room \in Nat /\ room >= 20 + 2 * i + 2 * j
  BY <1>1, RoomIs
<1>5. /\ last \in Seq(Nat) /\ Len(last) = 10 + i + j + Len(AclPart(d.dacl))
      /\ d.dacl = None \/ ~Absent(d) => last = s \o AclPart(d.dacl)
  BY <1>1, LastIs
<1>6. Wrote(s).ok = TRUE /\ Wrote(s).out = s
  BY DEF Wrote
<1>7. Bytes(s) = 20 + 2 * i + 2 * j
  <2>1. Bytes(s) = 2 * (10 + i + j)
    BY <1>3 DEF Bytes
  <2> QED BY <2>1
<1> HIDE DEF e, s, last, acl, room
<1>8. CASE Absent(d)
  <2>1. e.ok = TRUE /\ e.out = s
    BY <1>2, <1>6, <1>8
  <2>2. Bytes(e.out) <= room
    BY <1>4, <1>7, <2>1
  <2>3. s = last <=> Kept(d)
    <3>1. CASE d.dacl = None
      <4>1. AclPart(d.dacl) = <<>>
        BY <3>1 DEF AclPart
      <4>2. last = s
        BY <1>3, <1>5, <3>1, <4>1, EmptyAdded
      <4> QED BY <3>1, <4>2 DEF Kept
    <3>2. CASE d.dacl # None
      <4>1. EmptyAcl(d) /\ AtTheEnd(d)
        BY <1>8, <3>2 DEF Absent
      <4>2. PICK k \in Nat : k = Len(AclPart(d.dacl))
        BY PartTypes
      <4>3. k # 0
        <5>1. AclPart(d.dacl) \in Seq(Nat) /\ AclPart(d.dacl) # <<>>
          BY <3>2, PartTypes
        <5>2. \A t \in Seq(Nat) : Len(t) = 0 => t = <<>>
          OBVIOUS
        <5> QED BY <4>2, <5>1, <5>2
      <4>4. Len(last) = 10 + i + j + k
        BY <1>5, <4>2
      <4>5. s # last
        BY <1>3, <4>3, <4>4
      <4> QED BY <3>2, <4>1, <4>5 DEF Kept
    <3> QED BY <3>1, <3>2
  <2>4. /\ e.ok \in BOOLEAN
        /\ e.ok => (e.out = last <=> Kept(d))
        /\ Fits(d) => e.ok /\ Bytes(e.out) <= room
    BY <2>1, <2>2, <2>3
  <2> QED BY <2>4 DEF e, last, room
<1>9. CASE ~Absent(d)
  <2> DEFINE w == encode_acl(acl, r)
             a == AclUnits(d.dacl)
  <2>1. d.dacl \in Acls /\ AclPart(d.dacl) = a /\ AclIn(d.dacl, DescriptorUnits(d), 10 + DaclPos(d))
    BY <1>9, AclIsThere
  <2>2. r \in Int
    BY <1>4
  <2>3. /\ w.ok \in BOOLEAN
        /\ w.ok => w.out \in Seq(Nat)
        /\ w.ok => (w.out = a <=> Reproducible(d.dacl))
        /\ Reproducible(d.dacl) /\ d.dacl.slack = 0 /\ r >= Bytes(a) => w.ok
    <3>1. PICK p, buf : p = 10 + DaclPos(d) /\ buf = DescriptorUnits(d)
      OBVIOUS
    <3>2. acl = DecodedAcl(d.dacl, buf, p) /\ AclIn(d.dacl, buf, p)
      BY <2>1, <3>1 DEF acl
    <3>3. PICK q \in Int : q = r
      BY <2>2
    <3> DEFINE z == encode_acl(DecodedAcl(d.dacl, buf, p), q)
    <3>4. /\ z.ok \in BOOLEAN
          /\ z.ok => z.out \in Seq(Nat)
          /\ z.ok => (z.out = a <=> Reproducible(d.dacl))
          /\ Reproducible(d.dacl) /\ d.dacl.slack = 0 /\ q >= Bytes(a) => z.ok
      BY <3>2, AclIsEncoded
    <3>5. z = w
      BY <3>2, <3>3
    <3> HIDE DEF z, w, a
    <3> QED BY <3>3, <3>4, <3>5
  <2>4. e.ok = w.ok /\ e.out = s \o w.out
    <3>1. e = Then(Wrote(s), w)
      BY <1>2, <1>9
    <3> HIDE DEF w
    <3>2. Then(Wrote(s), w).ok = w.ok /\ Then(Wrote(s), w).out = Wrote(s).out \o w.out
      BY <1>6, ThenIs
    <3> QED BY <1>6, <3>1, <3>2
  <2>5. a \in Seq(Nat) /\ last = s \o a
    BY <1>5, <1>9, <2>1, AclUnitsAre
  <2>6. Kept(d) <=> Reproducible(d.dacl)
    BY <1>9 DEF Kept, Absent
  <2>7. d.dacl # None
    BY <1>9 DEF Absent
  <2>8. d.dacl.slack = 0 => r >= Bytes(a) /\ Bytes(a) \in Nat
    <3> SUFFICES ASSUME d.dacl.slack = 0 PROVE r >= Bytes(a) /\ Bytes(a) \in Nat
      OBVIOUS
    <3>1. PICK k \in Nat : k = Len(AllAces(d.dacl.aces))
      <4>1. AllAces(d.dacl.aces) \in Seq(Nat)
        BY <2>1, AclUnitsAre
      <4>2. \A t \in Seq(Nat) : Len(t) \in Nat
        OBVIOUS
      <4> QED BY <4>1, <4>2
    <3>2. Len(a) = 4 + k + 0 \div 2
      BY <2>1, <3>1, AclUnitsAre
    <3>3. Bytes(a) = 2 * (4 + k)
      BY <3>2 DEF Bytes
    <3>4. Bytes(AllAces(d.dacl.aces)) = 2 * k
      BY <3>1 DEF Bytes
    <3>5. room >= 20 + 2 * i + 2 * j + 8 + 2 * k
      BY <1>1, <1>9, <3>4, RoomIs DEF room
    <3>6. r >= 2 * (4 + k)
      BY <1>4, <3>5
    <3> QED BY <3>3, <3>6
  <2> HIDE DEF w, a, r
  <2>9. w.ok => (e.out = last <=> Kept(d))
    <3> SUFFICES ASSUME w.ok PROVE e.out = last <=> w.out = a
      BY <2>3, <2>6
    <3>1. w.out \in Seq(Nat)
      BY <2>3
    <3>2. s \o w.out = s \o a => w.out = a
      BY <1>3, <2>5, <3>1, Cancelled
    <3> QED BY <2>4, <2>5, <3>2
  <2>10. Fits(d) => w.ok /\ Bytes(e.out) <= room
    <3> SUFFICES ASSUME Fits(d) PROVE w.ok /\ Bytes(e.out) <= room
      OBVIOUS
    <3>1. Reproducible(d.dacl) /\ d.dacl.slack = 0
      BY <2>7 DEF Fits
    <3>2. w.ok /\ w.out = a
      BY <2>3, <2>8, <3>1
    <3>3. PICK k \in Nat : k = Len(a)
      BY <2>5
    <3>4. Len(s \o a) = (10 + i + j) + k
      BY <1>3, <2>5, <3>3, Joined
    <3>5. Bytes(e.out) = 2 * ((10 + i + j) + k)
      BY <2>4, <3>2, <3>4 DEF Bytes
    <3>6. Bytes(a) = 2 * k
      BY <3>3 DEF Bytes
    <3>7. room - (20 + 2 * i + 2 * j) >= 2 * k
      BY <2>8, <3>1, <3>6 DEF r
    <3>8. 2 * ((10 + i + j) + k) <= room
      BY <1>4, <3>7
    <3> QED BY <3>2, <3>5, <3>8
  <2>11. /\ e.ok \in BOOLEAN
         /\ e.ok => (e.out = last <=> Kept(d))
         /\ Fits(d) => e.ok /\ Bytes(e.out) <= room
    BY <2>3, <2>4, <2>9, <2>10
  <2> QED BY <2>11 DEF e, last, room
<1> QED BY <1>8, <1>9

(* smb2_get_security hands over the block the server would send with the   *)
(* DACL last exactly for the descriptors whose DACL was read and is        *)
(* reproducible: whatever else the decoder copies or the encoder leaves    *)
(* out shows in the block.                                                 *)
THEOREM DescriptorKeptHolds == Spec => []DescriptorKept
<1>1. SecurityInv => DescriptorKept
  <2> SUFFICES ASSUME SecurityInv, secbuf # None
               PROVE  secbuf.units = DescriptorUnits(Last(secbuf.meant)) <=> Kept(secbuf.meant)
    BY DEF DescriptorKept, Last, Kept
  <2>1. /\ secbuf.meant \in Descriptors /\ Encoded(secbuf.meant).ok
        /\ secbuf.units = Encoded(secbuf.meant).out
    BY DEF SecurityInv
  <2> QED BY <2>1, EncodedIs
<1> QED BY <1>1, SecurityHolds, PTL

(* A descriptor that is reproducible, with no slack behind its last ACE,   *)
(* is written, and within the buffer smb2_get_security doubled until the   *)
(* size it computed fitted: encode_acl and what it calls never run past    *)
(* its end, for a first buffer of any size.                                *)
THEOREM BufferRespectedHolds == Spec => []BufferRespected
<1>1. ListInv /\ SecurityInv => BufferRespected
  <2> SUFFICES ASSUME ListInv, SecurityInv, Described, Fits(file.sd)
               PROVE  outcome.status = "success" /\ outcome.value.used <= outcome.value.room
    BY DEF BufferRespected, Fits
  <2>1. file.sd \in Descriptors
    BY DEF ListInv, FileInv
  <2>2. Encoded(file.sd).ok /\ Bytes(Encoded(file.sd).out) <= RoomFor(file.sd)
    BY <2>1, EncodedIs
  <2>3. outcome.status = "success" /\ outcome.value = Handed(file.sd)
    BY <2>2 DEF SecurityInv
  <2>4. outcome.value.used = Bytes(Encoded(file.sd).out) /\ outcome.value.room = RoomFor(file.sd)
    BY <2>3 DEF Handed
  <2> QED BY <2>2, <2>3, <2>4
<1> QED BY <1>1, SecurityHolds, PTL
=============================================================================
