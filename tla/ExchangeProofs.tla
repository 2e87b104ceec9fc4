--------------------------- MODULE ExchangeProofs ---------------------------
(***************************************************************************)
(* Theorems about one call of an exchange client, for any book, name,      *)
(* client, function, size of a page and number of attempts: what a book    *)
(* that moves between the pages can cost the call.                         *)
(*                                                                         *)
(* The first part holds for lists of any kind: what InsertAt and RemoveAt  *)
(* do to the elements in front of a place and behind it, and what is on a  *)
(* page.  RequestProofs uses it for the trackers of a user.                *)
(***************************************************************************)
EXTENDS ExchangeClient, SequenceTheorems, FiniteSetTheorems, TLAPS

(* Induction on a set of naturals, and the smallest element of one.        *)
LEMMA LeastNat ==
    ASSUME NEW T \in SUBSET Nat, T # {}
    PROVE  \E n \in T : \A m \in T : n <= m
<1>1. IsWellFoundedOn(OpToRel(<, Nat), Nat)
  BY NatLessThanWellFounded
<1>2. PICK n \in T : \A m \in T : <<m, n>> \notin OpToRel(<, Nat)
  BY <1>1, WFMin, Zenon
<1>3. ASSUME NEW m \in T PROVE n <= m
  <2>1. <<m, n>> \notin OpToRel(<, Nat)
    BY <1>2
  <2>2. ~(m < n)
    BY <2>1 DEF OpToRel
  <2> QED
    BY <2>2
<1> QED
  BY <1>2, <1>3

LEMMA Induction ==
    ASSUME NEW T \in SUBSET Nat, 0 \in T, \A n \in T : n + 1 \in T
    PROVE  \A n \in Nat : n \in T
<1> SUFFICES ASSUME Nat \ T # {} PROVE FALSE
  OBVIOUS
<1>1. PICK n \in Nat \ T : \A m \in Nat \ T : n <= m
  BY LeastNat
<1>2. n # 0 /\ n - 1 \in Nat /\ ~(n <= n - 1)
  BY <1>1
<1>3. n - 1 \in T
  BY <1>1, <1>2
<1>4. (n - 1) + 1 = n
  BY <1>2
<1> QED
  BY <1>1, <1>3, <1>4

-----------------------------------------------------------------------------
(* The elements of a sequence.                                             *)
LEMMA EmptyFacts == ToSet(<<>>) = {} /\ IsInjective(<<>>) /\ \A S : <<>> \in Seq(S)
BY DEF ToSet, IsInjective

LEMMA AppendFacts ==
    ASSUME NEW S, NEW s \in Seq(S), NEW x \in S
    PROVE  /\ Append(s, x) \in Seq(S)
           /\ ToSet(Append(s, x)) = ToSet(s) \cup {x}
           /\ IsInjective(s) /\ x \notin ToSet(s) => IsInjective(Append(s, x))
<1>1. /\ Append(s, x) \in Seq(S) /\ Len(s) \in Nat
      /\ DOMAIN s = 1..Len(s) /\ DOMAIN Append(s, x) = 1..(Len(s) + 1)
      /\ \A i \in 1..Len(s) : Append(s, x)[i] = s[i]
      /\ Append(s, x)[Len(s) + 1] = x
  BY AppendProperties, LenProperties
<1>2. \A i \in 1..(Len(s) + 1) : i \in 1..Len(s) \/ i = Len(s) + 1
  BY <1>1
<1>3. ToSet(Append(s, x)) = ToSet(s) \cup {x}
  BY <1>1, <1>2 DEF ToSet
<1>4. ASSUME IsInjective(s), x \notin ToSet(s) PROVE IsInjective(Append(s, x))
  BY <1>1, <1>2, <1>4 DEF IsInjective, ToSet
<1> QED
  BY <1>1, <1>3, <1>4

-----------------------------------------------------------------------------
(* One sequence after another.                                             *)
Joined(s, t) == s \o t

(* The loop of GetAdsByName.                                               *)
IsLoop(f, s, n) ==
    f = [i \in 0..n |-> IF i = 0 THEN <<>>
                        ELSE IF s[i] \in Mine THEN Append(f[i-1], s[i]) ELSE f[i-1]]

LEMMA LoopExists ==
    ASSUME NEW s, NEW n \in Nat PROVE \E f : IsLoop(f, s, n)
<1> DEFINE T == {k \in Nat : \E f : IsLoop(f, s, k)}
<1>1. 0 \in T
  <2> DEFINE f == [i \in 0..0 |-> <<>>]
  <2>1. IsLoop(f, s, 0)
    BY DEF IsLoop
  <2> QED
    BY <2>1
<1>2. ASSUME NEW k \in T PROVE k + 1 \in T
  <2>1. PICK f : IsLoop(f, s, k)
    OBVIOUS
  <2> DEFINE g == [i \in 0..(k+1) |->
                     IF i = k + 1 THEN IF s[i] \in Mine THEN Append(f[k], s[i]) ELSE f[k]
                                  ELSE f[i]]
  <2>2. ASSUME NEW i \in 0..(k+1)
        PROVE  g[i] = IF i = 0 THEN <<>>
                      ELSE IF s[i] \in Mine THEN Append(g[i-1], s[i]) ELSE g[i-1]
    <3>1. CASE i = 0
      BY <2>1, <3>1 DEF IsLoop
    <3>2. CASE i = k + 1
      BY <3>2
    <3>3. CASE i # 0 /\ i # k + 1
      <4>1. i \in 0..k /\ i - 1 \in 0..k /\ i # 0
        BY <3>3
      <4>2. g[i] = f[i] /\ g[i-1] = f[i-1]
        BY <3>3, <4>1
      <4>3. f[i] = IF s[i] \in Mine THEN Append(f[i-1], s[i]) ELSE f[i-1]
        BY <2>1, <4>1 DEF IsLoop
      <4> QED
        BY <4>1, <4>2, <4>3
    <3> QED
      BY <3>1, <3>2, <3>3
  <2>3. IsLoop(g, s, k + 1)
    BY <2>2 DEF IsLoop
  <2> QED
    BY <2>3
<1> HIDE DEF T
<1>3. n \in T
  BY <1>1, <1>2, Induction DEF T
<1> QED
  BY <1>3 DEF T

(* The rounds of the loop, for one list.                                   *)
Loop(s) == CHOOSE f : IsLoop(f, s, Len(s))

LEMMA NamedLoop ==
    ASSUME NEW s, Len(s) \in Nat
    PROVE  /\ Named(s) = Loop(s)[Len(s)]
           /\ Loop(s)[0] = <<>>
           /\ \A i \in 1..Len(s) : Loop(s)[i] = IF s[i] \in Mine
                                                  THEN Append(Loop(s)[i-1], s[i])
                                                  ELSE Loop(s)[i-1]
<1>1. IsLoop(Loop(s), s, Len(s))
  BY LoopExists DEF Loop
<1>2. Named(s) = Loop(s)[Len(s)]
  BY DEF Named, Loop, IsLoop
<1>3. PICK f : f = Loop(s) /\ IsLoop(f, s, Len(s))
  BY <1>1
<1>4. /\ f[0] = <<>>
      /\ \A i \in 1..Len(s) : f[i] = IF s[i] \in Mine THEN Append(f[i-1], s[i]) ELSE f[i-1]
  <2>1. ASSUME NEW i \in 0..Len(s)
        PROVE  f[i] = IF i = 0 THEN <<>>
                      ELSE IF s[i] \in Mine THEN Append(f[i-1], s[i]) ELSE f[i-1]
    BY <1>3 DEF IsLoop
  <2>2. 0 \in 0..Len(s) /\ \A i \in 1..Len(s) : i \in 0..Len(s) /\ i # 0
    OBVIOUS
  <2> QED
    BY <2>1, <2>2
<1> QED
  BY <1>2, <1>3, <1>4

(* What is kept of a list: its ads with the name, in their order.          *)
LEMMA NamedSet ==
    ASSUME NEW s \in Seq(Ad)
    PROVE  /\ Named(s) \in Seq(Ad)
           /\ ToSet(Named(s)) = ToSet(s) \cap Mine
           /\ IsInjective(s) => IsInjective(Named(s))
<1> DEFINE f == Loop(s)
           P(i) == /\ f[i] \in Seq(Ad)
                   /\ ToSet(f[i]) = {s[j] : j \in 1..i} \cap Mine
                   /\ IsInjective(s) => IsInjective(f[i])
           T == {i \in Nat : i <= Len(s) => P(i)}
<1>1. /\ Len(s) \in Nat /\ DOMAIN s = 1..Len(s) /\ Named(s) = f[Len(s)] /\ f[0] = <<>>
      /\ \A i \in 1..Len(s) : f[i] = IF s[i] \in Mine THEN Append(f[i-1], s[i]) ELSE f[i-1]
  BY NamedLoop, LenProperties
<1> HIDE DEF f
<1>2. 0 \in T
  <2>1. P(0)
    <3>1. {s[j] : j \in 1..0} = {}
      OBVIOUS
    <3> QED
      BY <1>1, <3>1, EmptyFacts
  <2> QED
    BY <2>1
<1>3. ASSUME NEW i \in T PROVE i + 1 \in T
  <2> SUFFICES ASSUME i + 1 <= Len(s) PROVE P(i + 1)
    BY <1>1
  <2>1. i \in 0..Len(s) /\ i + 1 \in 1..Len(s) /\ (i + 1) - 1 = i /\ P(i)
    <3>1. i \in Nat /\ Len(s) \in Nat
      BY <1>1
    <3>2. i \in 0..Len(s) /\ i + 1 \in 1..Len(s) /\ (i + 1) - 1 = i /\ i <= Len(s)
      BY <3>1
    <3> QED
      BY <3>2
  <2>2. {s[j] : j \in 1..(i+1)} = {s[j] : j \in 1..i} \cup {s[i+1]}
    BY <2>1
  <2>3. CASE s[i+1] \notin Mine
    BY <1>1, <2>1, <2>2, <2>3
  <2>4. CASE s[i+1] \in Mine
    <3>1. f[i+1] = Append(f[i], s[i+1])
      BY <1>1, <2>1, <2>4
    <3>2. s[i+1] \in Ad
      BY <2>1, ElementOfSeq
    <3>3. f[i+1] \in Seq(Ad) /\ ToSet(f[i+1]) = ToSet(f[i]) \cup {s[i+1]}
      BY <2>1, <3>1, <3>2, AppendFacts
    <3>4. ASSUME IsInjective(s) PROVE IsInjective(f[i+1])
      <4>1. IsInjective(f[i])
        BY <2>1, <3>4
      <4>2. s[i+1] \notin ToSet(f[i])
        <5>1. \A j \in 1..i : s[j] # s[i+1]
          BY <1>1, <2>1, <3>4 DEF IsInjective
        <5>2. ToSet(f[i]) \subseteq {s[j] : j \in 1..i}
          BY <2>1
        <5> QED
          BY <5>1, <5>2
      <4> QED
        BY <2>1, <3>1, <3>2, <4>1, <4>2, AppendFacts
    <3> QED
      BY <2>1, <2>2, <2>4, <3>3, <3>4
  <2> QED
    BY <2>3, <2>4
<1> HIDE DEF T
<1>4. Len(s) \in T
  BY <1>1, <1>2, <1>3, Induction DEF T
<1>5. P(Len(s))
  BY <1>1, <1>4 DEF T
<1>6. ToSet(s) = {s[j] : j \in 1..Len(s)}
  BY <1>1 DEF ToSet
<1> QED
  BY <1>1, <1>5, <1>6

LEMMA AppendJoined ==
    ASSUME NEW s \in Seq(Ad), NEW t \in Seq(Ad), NEW x \in Ad
    PROVE  Append(Joined(s, t), x) = Joined(s, Append(t, x))
<1> DEFINE l == Append(s \o t, x)  r == s \o Append(t, x)
<1>1. /\ s \o t \in Seq(Ad) /\ Append(t, x) \in Seq(Ad)
      /\ Len(s) \in Nat /\ Len(t) \in Nat
      /\ Len(s \o t) = Len(s) + Len(t) /\ Len(Append(t, x)) = Len(t) + 1
  BY ConcatProperties, AppendProperties, LenProperties
<1>2. l \in Seq(Ad) /\ Len(l) = Len(s) + Len(t) + 1
  BY <1>1, AppendProperties
<1>3. r \in Seq(Ad) /\ Len(r) = Len(s) + Len(t) + 1
  BY <1>1, ConcatProperties
<1>4. ASSUME NEW i \in 1..(Len(s) + Len(t) + 1) PROVE l[i] = r[i]
  <2>1. r[i] = IF i <= Len(s) THEN s[i] ELSE Append(t, x)[i - Len(s)]
    <3>1. PICK u \in Seq(Ad) : u = Append(t, x)
      BY <1>1
    <3>2. i \in 1..(Len(s) + Len(u))
      BY <1>1, <3>1
    <3> QED
      BY <3>1, <3>2, ConcatProperties
  <2>2. CASE i = Len(s) + Len(t) + 1
    BY <1>1, <2>1, <2>2, AppendProperties
  <2>3. CASE i \in 1..(Len(s) + Len(t))
    <3>1. l[i] = (s \o t)[i]
      BY <1>1, <2>3, AppendProperties
    <3>2. (s \o t)[i] = IF i <= Len(s) THEN s[i] ELSE t[i - Len(s)]
      BY <1>1, <2>3, ConcatProperties
    <3>3. ~(i <= Len(s)) => i - Len(s) \in 1..Len(t)
      BY <1>1, <2>3
    <3>4. ~(i <= Len(s)) => Append(t, x)[i - Len(s)] = t[i - Len(s)]
      BY <1>1, <3>3, AppendProperties
    <3> QED
      BY <2>1, <3>1, <3>2, <3>4
  <2> QED
    BY <1>1, <2>2, <2>3
<1> HIDE DEF l, r
<1>5. l = r
  BY <1>2, <1>3, <1>4, SeqEqual
<1> QED
  BY <1>5 DEF l, r, Joined

LEMMA NamedConcat ==
    ASSUME NEW s \in Seq(Ad), NEW t \in Seq(Ad)
    PROVE  Named(s \o t) = Named(s) \o Named(t)
<1> DEFINE f == Loop(s)  g == Loop(t)  h == Loop(s \o t)
           K == {i \in Nat : i <= Len(s) => h[i] = f[i]}
           T == {i \in Nat : i <= Len(t) => h[Len(s) + i] = Joined(Named(s), g[i])}
<1>1. /\ Len(s) \in Nat /\ Len(t) \in Nat /\ s \o t \in Seq(Ad)
      /\ Len(s \o t) = Len(s) + Len(t)
      /\ \A i \in 1..Len(s) : (s \o t)[i] = s[i]
      /\ \A i \in 1..Len(t) : (s \o t)[Len(s) + i] = t[i]
  BY LenProperties, ConcatProperties
<1>2. /\ Named(s) = f[Len(s)] /\ f[0] = <<>>
      /\ \A i \in 1..Len(s) : f[i] = IF s[i] \in Mine THEN Append(f[i-1], s[i]) ELSE f[i-1]
  BY <1>1, NamedLoop
<1>3. /\ Named(t) = g[Len(t)] /\ g[0] = <<>>
      /\ \A i \in 1..Len(t) : g[i] = IF t[i] \in Mine THEN Append(g[i-1], t[i]) ELSE g[i-1]
  BY <1>1, NamedLoop
<1>4. /\ Named(s \o t) = h[Len(s) + Len(t)] /\ h[0] = <<>>
      /\ \A i \in 1..(Len(s) + Len(t)) :
           h[i] = IF (s \o t)[i] \in Mine THEN Append(h[i-1], (s \o t)[i]) ELSE h[i-1]
  <2>1. Len(s \o t) \in Nat
    BY <1>1
  <2> QED
    BY <1>1, <2>1, NamedLoop
<1> HIDE DEF f, g, h
<1>5. Len(s) \in K
  <2>1. 0 \in K
    BY <1>2, <1>4
  <2>2. ASSUME NEW i \in K PROVE i + 1 \in K
    <3> SUFFICES ASSUME i + 1 <= Len(s) PROVE h[i+1] = f[i+1]
      BY <1>1
    <3>1. i + 1 \in 1..Len(s) /\ i + 1 \in 1..(Len(s) + Len(t)) /\ (i+1)-1 = i /\ h[i] = f[i]
      BY <1>1
    <3> QED
      BY <1>1, <1>2, <1>4, <3>1
  <2> HIDE DEF K
  <2> QED
    BY <1>1, <2>1, <2>2, Induction DEF K
<1>6. h[Len(s)] = Named(s)
  BY <1>1, <1>2, <1>5
<1>7. Named(s) \in Seq(Ad) /\ Named(t) \in Seq(Ad)
  BY NamedSet
<1>8. Len(t) \in T
  <2> DEFINE U == {i \in Nat : i <= Len(t) => g[i] \in Seq(Ad)}
  <2>1. 0 \in T /\ 0 \in U
    <3>1. Joined(Named(s), <<>>) = Named(s) /\ Len(s) + 0 = Len(s)
      BY <1>1, <1>7, ConcatEmptySeq DEF Joined
    <3> QED
      BY <1>3, <1>6, <3>1, EmptyFacts
  <2>2. ASSUME NEW i \in T \cap U PROVE i + 1 \in T \cap U
    <3> SUFFICES ASSUME i + 1 <= Len(t)
                 PROVE  h[Len(s)+(i+1)] = Joined(Named(s), g[i+1]) /\ g[i+1] \in Seq(Ad)
      BY <1>1
    <3>1. /\ i + 1 \in 1..Len(t) /\ Len(s) + (i+1) \in 1..(Len(s) + Len(t))
          /\ (i+1)-1 = i /\ (Len(s) + (i+1)) - 1 = Len(s) + i
          /\ h[Len(s)+i] = Joined(Named(s), g[i]) /\ g[i] \in Seq(Ad)
      <4>1. i \in Nat /\ Len(s) \in Nat /\ Len(t) \in Nat /\ i <= Len(t)
        BY <1>1
      <4>2. /\ i + 1 \in 1..Len(t) /\ Len(s) + (i+1) \in 1..(Len(s) + Len(t))
            /\ (i+1)-1 = i /\ (Len(s) + (i+1)) - 1 = Len(s) + i
        BY <4>1
      <4>3. h[Len(s)+i] = Joined(Named(s), g[i]) /\ g[i] \in Seq(Ad)
        BY <4>1
      <4> QED
        BY <4>2, <4>3
    <3>2. (s \o t)[Len(s) + (i+1)] = t[i+1] /\ t[i+1] \in Ad
      BY <1>1, <3>1, ElementOfSeq
    <3>3. CASE t[i+1] \notin Mine
      BY <1>3, <1>4, <3>1, <3>2, <3>3
    <3>4. CASE t[i+1] \in Mine
      <4>1. /\ g[i+1] = Append(g[i], t[i+1])
            /\ h[Len(s)+(i+1)] = Append(Joined(Named(s), g[i]), t[i+1])
        <5>1. g[i+1] = Append(g[i], t[i+1])
          BY <1>3, <3>1, <3>4
        <5>2. h[Len(s)+(i+1)] = Append(h[Len(s)+i], t[i+1])
          BY <1>4, <3>1, <3>2, <3>4
        <5> QED
          BY <3>1, <5>1, <5>2
      <4>2. Append(Joined(Named(s), g[i]), t[i+1]) = Joined(Named(s), Append(g[i], t[i+1]))
        BY <1>7, <3>1, <3>2, AppendJoined
      <4> QED
        BY <3>1, <3>2, <4>1, <4>2
    <3> QED
      BY <3>3, <3>4
  <2> DEFINE V == T \cap U
  <2>3. V \in SUBSET Nat /\ 0 \in V /\ \A i \in V : i + 1 \in V
    BY <2>1, <2>2
  <2> HIDE DEF V
  <2>4. Len(t) \in V
    BY <1>1, <2>3, Induction
  <2> QED
    BY <2>4 DEF V
<1> QED
  BY <1>1, <1>3, <1>4, <1>8 DEF Joined

-----------------------------------------------------------------------------
(* A list that changes under one who reads it from front to back: what is  *)
(* on its first k places, and behind them.                                 *)
Upto(s, k) == {s[i] : i \in {j \in DOMAIN s : j <= k}}
Beyond(s, k) == {s[i] : i \in {j \in DOMAIN s : j > k}}

(* s has become r: x was put in, or taken out, and what came after it moved*)
(* by one place.                                                           *)
MovedDown(s, r, x) ==
    \A k \in Nat : /\ Upto(r, k) \subseteq Upto(s, k) \cup {x}
                   /\ \E y : Beyond(r, k) \subseteq Beyond(s, k) \cup {y}
MovedUp(s, r, x) ==
    \A k \in Nat : /\ \E y : Upto(r, k) \cup {x} \subseteq Upto(s, k) \cup {y}
                   /\ Beyond(r, k) \subseteq Beyond(s, k)

LEMMA Members ==
    ASSUME NEW s, NEW e PROVE e \in ToSet(s) <=> \E i \in DOMAIN s : s[i] = e
BY DEF ToSet

LEMMA Places ==
    ASSUME NEW s, NEW n \in Int, DOMAIN s = 1..n, NEW k \in Int, NEW e
    PROVE  /\ e \in Upto(s, k) <=> \E i \in 1..n : i <= k /\ s[i] = e
           /\ e \in Beyond(s, k) <=> \E i \in 1..n : i > k /\ s[i] = e
<1>1. e \in Upto(s, k) <=> \E i \in 1..n : i <= k /\ s[i] = e
  BY DEF Upto
<1>2. e \in Beyond(s, k) <=> \E i \in 1..n : i > k /\ s[i] = e
  BY DEF Beyond
<1> QED
  BY <1>1, <1>2

LEMMA ConcatPlaces ==
    ASSUME NEW S, NEW a \in Seq(S), NEW c \in Seq(S), NEW d, d = a \o c
    PROVE  /\ d \in Seq(S) /\ Len(d) = Len(a) + Len(c) /\ DOMAIN d = 1..(Len(a) + Len(c))
           /\ \A j \in 1..(Len(a) + Len(c)) : d[j] = IF j <= Len(a) THEN a[j]
                                                               ELSE c[j - Len(a)]
<1>1. /\ d \in Seq(S) /\ Len(d) = Len(a) + Len(c)
      /\ \A j \in 1..(Len(a) + Len(c)) : d[j] = IF j <= Len(a) THEN a[j] ELSE c[j - Len(a)]
  BY ConcatProperties
<1> QED
  BY <1>1, LenProperties

LEMMA ConcatSet ==
    ASSUME NEW S, NEW a \in Seq(S), NEW c \in Seq(S)
    PROVE  /\ Joined(a, c) \in Seq(S) /\ Len(Joined(a, c)) = Len(a) + Len(c)
           /\ ToSet(Joined(a, c)) = ToSet(a) \cup ToSet(c)
<1>d. PICK d : d = Joined(a, c)
  OBVIOUS
<1>1. /\ Len(a) \in Nat /\ Len(c) \in Nat /\ DOMAIN a = 1..Len(a) /\ DOMAIN c = 1..Len(c)
      /\ d \in Seq(S) /\ Len(d) = Len(a) + Len(c) /\ DOMAIN d = 1..(Len(a) + Len(c))
      /\ \A j \in 1..(Len(a) + Len(c)) : d[j] = IF j <= Len(a) THEN a[j] ELSE c[j - Len(a)]
  <2>1. d = a \o c
    BY <1>d DEF Joined
  <2> QED
    BY <2>1, ConcatPlaces, LenProperties
<1>2. ASSUME NEW e \in ToSet(d) PROVE e \in ToSet(a) \cup ToSet(c)
  <2>1. PICK j \in 1..(Len(a) + Len(c)) : d[j] = e
    BY <1>1, Members
  <2>2. CASE j <= Len(a)
    <3>1. j \in DOMAIN a /\ a[j] = e
      BY <1>1, <2>1, <2>2
    <3> QED
      BY <3>1, Members
  <2>3. CASE ~(j <= Len(a))
    <3>1. j - Len(a) \in DOMAIN c /\ c[j - Len(a)] = e
      BY <1>1, <2>1, <2>3
    <3> QED
      BY <3>1, Members
  <2> QED
    BY <2>2, <2>3
<1>3. ASSUME NEW e \in ToSet(a) PROVE e \in ToSet(d)
  <2>1. PICK j \in 1..Len(a) : a[j] = e
    BY <1>1, Members
  <2>2. j \in DOMAIN d /\ d[j] = e
    BY <1>1, <2>1
  <2> QED
    BY <2>2, Members
<1>4. ASSUME NEW e \in ToSet(c) PROVE e \in ToSet(d)
  <2>1. PICK j \in 1..Len(c) : c[j] = e
    BY <1>1, Members
  <2>2. /\ Len(a) + j \in 1..(Len(a) + Len(c)) /\ ~(Len(a) + j <= Len(a))
        /\ (Len(a) + j) - Len(a) = j
    BY <1>1, <2>1
  <2>3. Len(a) + j \in DOMAIN d /\ d[Len(a) + j] = e
    BY <1>1, <2>1, <2>2
  <2> QED
    BY <2>3, Members
<1> QED
  BY <1>d, <1>1, <1>2, <1>3, <1>4

LEMMA InsertPlaces ==
    ASSUME NEW S, NEW s \in Seq(S), NEW x \in S, NEW i \in 1..(Len(s) + 1),
           NEW r, r = InsertAt(s, i, x)
    PROVE  /\ r \in Seq(S) /\ Len(r) = Len(s) + 1 /\ DOMAIN r = 1..(Len(s) + 1)
           /\ \A j \in DOMAIN r :
                r[j] = IF j < i THEN s[j] ELSE IF j = i THEN x ELSE s[j-1]
<1>1. Len(s) \in Nat /\ DOMAIN s = 1..Len(s) /\ \A j \in 1..Len(s) : s[j] \in S
  BY LenProperties, ElementOfSeq
<1>2. PICK a, b, c : a = SubSeq(s, 1, i-1) /\ b = <<x>> /\ c = SubSeq(s, i, Len(s))
  OBVIOUS
<1>3. /\ a \in Seq(S) /\ Len(a) = i - 1
      /\ \A j \in 1..(i-1) : a[j] = s[j]
  <2>1. \A j \in 1..(i-1) : s[j] \in S
    BY <1>1
  <2>2. i - 1 \in Int /\ (i - 1) - 1 + 1 = i - 1 /\ \A j \in 1..(i-1) : 1 + j - 1 = j
    BY <1>1
  <2>3. /\ a \in Seq(S) /\ Len(a) = IF 1 <= i - 1 THEN i - 1 - 1 + 1 ELSE 0
        /\ \A j \in 1..(i - 1 - 1 + 1) : a[j] = s[1 + j - 1]
    BY <1>2, <2>1, <2>2, SubSeqProperties
  <2> QED
    BY <1>1, <2>2, <2>3
<1>4. /\ c \in Seq(S) /\ Len(c) = Len(s) - i + 1
      /\ \A j \in 1..(Len(s) - i + 1) : c[j] = s[i + j - 1]
  <2>1. \A j \in i..Len(s) : s[j] \in S
    BY <1>1
  <2>2. i \in Int /\ Len(s) \in Int
    BY <1>1
  <2> QED
    BY <1>1, <1>2, <2>1, <2>2, SubSeqProperties
<1>5. b \in Seq(S) /\ Len(b) = 1 /\ b[1] = x
  BY <1>2
<1>6. PICK d : d = a \o b
  OBVIOUS
<1>7. /\ d \in Seq(S) /\ Len(d) = i
      /\ \A j \in 1..i : d[j] = IF j < i THEN s[j] ELSE x
  <2>1. /\ d \in Seq(S) /\ Len(d) = Len(a) + Len(b)
        /\ \A j \in 1..(Len(a) + Len(b)) : d[j] = IF j <= Len(a) THEN a[j]
                                                             ELSE b[j - Len(a)]
    <3>1. a \in Seq(S) /\ b \in Seq(S)
      BY <1>3, <1>5
    <3> QED
      BY <1>6, <3>1, ConcatPlaces
  <2>2. Len(a) + Len(b) = i
    BY <1>1, <1>3, <1>5
  <2>3. ASSUME NEW j \in 1..i PROVE d[j] = IF j < i THEN s[j] ELSE x
    <3>1. d[j] = IF j <= i - 1 THEN a[j] ELSE b[j - (i - 1)]
      BY <1>3, <2>1, <2>2
    <3>2. CASE j < i
      BY <1>1, <1>3, <3>1, <3>2
    <3>3. CASE j = i
      BY <1>1, <1>5, <3>1, <3>3
    <3> QED
      BY <1>1, <3>2, <3>3
  <2> QED
    BY <2>1, <2>2, <2>3
<1>8. r = d \o c
  BY <1>2, <1>6 DEF InsertAt
<1>9. /\ r \in Seq(S) /\ Len(r) = Len(s) + 1 /\ DOMAIN r = 1..(Len(s) + 1)
      /\ \A j \in 1..(Len(s) + 1) : r[j] = IF j <= i THEN d[j] ELSE c[j - i]
  <2>1. i + (Len(s) - i + 1) = Len(s) + 1 /\ Len(d) + Len(c) = Len(s) + 1
    BY <1>1, <1>4, <1>7
  <2> QED
    BY <1>4, <1>7, <1>8, <2>1, ConcatPlaces
<1>10. ASSUME NEW j \in 1..(Len(s) + 1)
       PROVE  r[j] = IF j < i THEN s[j] ELSE IF j = i THEN x ELSE s[j-1]
  <2>1. r[j] = IF j <= i THEN d[j] ELSE c[j - i]
    BY <1>9
  <2>2. CASE j <= i
    BY <1>1, <1>7, <2>1, <2>2
  <2>3. CASE j > i
    <3>1. j - i \in 1..(Len(s) - i + 1) /\ i + (j - i) - 1 = j - 1
      BY <1>1, <2>3
    <3> QED
      BY <1>1, <1>4, <2>1, <2>3, <3>1
  <2> QED
    BY <1>1, <2>2, <2>3
<1> QED
  BY <1>9, <1>10

LEMMA RemovePlaces ==
    ASSUME NEW S, NEW s \in Seq(S), NEW i \in DOMAIN s, NEW r, r = RemoveAt(s, i)
    PROVE  /\ r \in Seq(S) /\ Len(r) = Len(s) - 1 /\ DOMAIN r = 1..(Len(s) - 1)
           /\ \A j \in DOMAIN r : r[j] = IF j < i THEN s[j] ELSE s[j+1]
<1>1. /\ Len(s) \in Nat /\ DOMAIN s = 1..Len(s) /\ i \in 1..Len(s)
      /\ \A j \in 1..Len(s) : s[j] \in S
  BY LenProperties, ElementOfSeq
<1>2. PICK a, c : a = SubSeq(s, 1, i-1) /\ c = SubSeq(s, i+1, Len(s))
  OBVIOUS
<1>3. /\ a \in Seq(S) /\ Len(a) = i - 1
      /\ \A j \in 1..(i-1) : a[j] = s[j]
  <2>1. \A j \in 1..(i-1) : s[j] \in S
    BY <1>1
  <2>2. i - 1 \in Int /\ (i - 1) - 1 + 1 = i - 1 /\ \A j \in 1..(i-1) : 1 + j - 1 = j
    BY <1>1
  <2> QED
    BY <1>1, <1>2, <2>1, <2>2, SubSeqProperties
<1>4. /\ c \in Seq(S) /\ Len(c) = Len(s) - i
      /\ \A j \in 1..(Len(s) - i) : c[j] = s[i + j]
  <2>1. \A j \in (i+1)..Len(s) : s[j] \in S
    BY <1>1
  <2>2. /\ i + 1 \in Int /\ Len(s) \in Int /\ Len(s) - (i + 1) + 1 = Len(s) - i
        /\ \A j \in 1..(Len(s) - i) : (i + 1) + j - 1 = i + j
    <3>1. i \in Int /\ Len(s) \in Int
      BY <1>1
    <3> QED
      BY <3>1
  <2>3. /\ c \in Seq(S) /\ Len(c) = IF i + 1 <= Len(s) THEN Len(s) - (i + 1) + 1 ELSE 0
        /\ \A j \in 1..(Len(s) - (i + 1) + 1) : c[j] = s[(i + 1) + j - 1]
    BY <1>2, <2>1, <2>2, SubSeqProperties
  <2> QED
    BY <1>1, <2>2, <2>3
<1>5. r = a \o c
  BY <1>2 DEF RemoveAt
<1>6. /\ r \in Seq(S) /\ Len(r) = Len(s) - 1 /\ DOMAIN r = 1..(Len(s) - 1)
      /\ \A j \in 1..(Len(s) - 1) : r[j] = IF j <= i - 1 THEN a[j] ELSE c[j - (i - 1)]
  <2>1. Len(a) + Len(c) = Len(s) - 1
    BY <1>1, <1>3, <1>4
  <2> QED
    <3>1. a \in Seq(S) /\ c \in Seq(S)
      BY <1>3, <1>4
    <3>2. /\ r \in Seq(S) /\ Len(r) = Len(a) + Len(c) /\ DOMAIN r = 1..(Len(a) + Len(c))
          /\ \A j \in 1..(Len(a) + Len(c)) : r[j] = IF j <= Len(a) THEN a[j]
                                                               ELSE c[j - Len(a)]
      BY <1>5, <3>1, ConcatPlaces
    <3> QED
      BY <1>3, <2>1, <3>2
<1>7. ASSUME NEW j \in 1..(Len(s) - 1) PROVE r[j] = IF j < i THEN s[j] ELSE s[j+1]
  <2>1. r[j] = IF j <= i - 1 THEN a[j] ELSE c[j - (i - 1)]
    BY <1>6
  <2>2. CASE j < i
    BY <1>1, <1>3, <2>1, <2>2
  <2>3. CASE j >= i
    <3>1. j - (i - 1) \in 1..(Len(s) - i) /\ i + (j - (i - 1)) = j + 1 /\ ~(j <= i - 1)
      BY <1>1, <2>3
    <3> QED
      BY <1>4, <2>1, <2>3, <3>1
  <2> QED
    BY <1>1, <2>2, <2>3
<1> QED
  BY <1>6, <1>7

(* Something new is put on place i.                                        *)
LEMMA InsertFacts ==
    ASSUME NEW S, NEW s \in Seq(S), IsInjective(s), NEW x \in S, x \notin ToSet(s),
           NEW i \in 1..(Len(s) + 1), NEW r, r = InsertAt(s, i, x)
    PROVE  /\ r \in Seq(S) /\ IsInjective(r) /\ ToSet(r) = ToSet(s) \cup {x}
           /\ MovedDown(s, r, x)
<1>1. /\ r \in Seq(S) /\ Len(s) \in Nat /\ DOMAIN s = 1..Len(s) /\ DOMAIN r = 1..(Len(s) + 1)
      /\ \A j \in 1..(Len(s) + 1) :
           r[j] = IF j < i THEN s[j] ELSE IF j = i THEN x ELSE s[j-1]
  BY InsertPlaces, LenProperties
<1>d. /\ DOMAIN s = 1..Len(s) /\ DOMAIN r = 1..(Len(s) + 1)
      /\ Len(s) \in Int /\ Len(s) + 1 \in Int
  BY <1>1
<1>2. /\ \A j \in 1..(Len(s) + 1) : /\ j < i => j \in 1..Len(s)
                                    /\ j > i => j - 1 \in 1..Len(s)
                                    /\ j < i \/ j = i \/ j > i
      /\ \A j \in 1..Len(s) : j \in 1..(Len(s) + 1) /\ j + 1 \in 1..(Len(s) + 1)
  BY <1>1
<1>3. ToSet(r) = ToSet(s) \cup {x}
  <2>1. ASSUME NEW j \in 1..(Len(s) + 1) PROVE r[j] \in ToSet(s) \cup {x}
    BY <1>1, <1>2 DEF ToSet
  <2>2. ASSUME NEW j \in 1..Len(s) PROVE \E n \in 1..(Len(s) + 1) : r[n] = s[j]
    <3>1. CASE j < i
      BY <1>1, <1>2, <3>1
    <3>2. CASE j >= i
      <4>1. /\ j + 1 \in 1..(Len(s) + 1) /\ ~(j + 1 < i) /\ j + 1 # i
            /\ (j + 1) - 1 = j
        BY <1>1, <1>2, <3>2
      <4> QED
        BY <1>1, <4>1
    <3> QED
      BY <1>1, <3>1, <3>2
  <2>3. i \in 1..(Len(s) + 1) /\ r[i] = x
    BY <1>1
  <2> QED
    BY <1>d, <2>1, <2>2, <2>3, Members
<1>4. IsInjective(r)
  <2> SUFFICES ASSUME NEW j \in 1..(Len(s) + 1), NEW n \in 1..(Len(s) + 1), r[j] = r[n],
                      j < n
               PROVE  FALSE
    BY <1>1 DEF IsInjective
  <2>1. /\ \A a, b \in 1..Len(s) : s[a] = s[b] => a = b
        /\ \A a \in 1..Len(s) : s[a] # x
    BY <1>1 DEF IsInjective, ToSet
  <2>2. CASE n < i
    BY <1>1, <1>2, <2>1, <2>2
  <2>3. CASE n = i
    BY <1>1, <1>2, <2>1, <2>3
  <2>4. CASE n > i
    <3>1. r[n] = s[n-1] /\ n - 1 \in 1..Len(s)
      BY <1>1, <1>2, <2>4
    <3>2. CASE j < i
      <4>1. r[j] = s[j] /\ j \in 1..Len(s) /\ j # n - 1
        BY <1>1, <1>2, <2>4, <3>2
      <4> QED
        BY <2>1, <3>1, <4>1
    <3>3. CASE j = i
      BY <1>1, <2>1, <3>1, <3>3
    <3>4. CASE j > i
      <4>1. r[j] = s[j-1] /\ j - 1 \in 1..Len(s) /\ j - 1 # n - 1
        BY <1>1, <1>2, <2>4, <3>4
      <4> QED
        BY <2>1, <3>1, <4>1
    <3> QED
      BY <1>2, <3>2, <3>3, <3>4
  <2> QED
    BY <1>2, <2>2, <2>3, <2>4
<1>5. ASSUME NEW k \in Nat PROVE Upto(r, k) \subseteq Upto(s, k) \cup {x}
  <2> SUFFICES ASSUME NEW e \in Upto(r, k) PROVE e = x \/ e \in Upto(s, k)
    OBVIOUS
  <2>0. PICK j \in 1..(Len(s) + 1) : j <= k /\ r[j] = e
    BY <1>d, Places
  <2> SUFFICES e = x \/ \E n \in 1..Len(s) : n <= k /\ s[n] = e
    BY <1>d, Places
  <2>1. CASE j > i
    <3>1. r[j] = s[j-1] /\ j - 1 \in 1..Len(s) /\ j - 1 <= k
      BY <1>1, <1>2, <2>0, <2>1
    <3> QED
      BY <2>0, <3>1
  <2> QED
    BY <1>1, <1>2, <2>0, <2>1
<1>6. ASSUME NEW k \in Nat PROVE \E y : Beyond(r, k) \subseteq Beyond(s, k) \cup {y}
  <2> DEFINE y == IF i <= k THEN s[k] ELSE x
  <2>1. ASSUME NEW j \in 1..(Len(s) + 1), j > k
        PROVE  r[j] = y \/ \E n \in 1..Len(s) : n > k /\ s[n] = r[j]
    <3>1. CASE j < i
      BY <1>1, <1>2, <2>1, <3>1
    <3>2. CASE j = i
      BY <1>1, <2>1, <3>2
    <3>3. CASE j > i
      <4>1. r[j] = s[j-1] /\ j - 1 \in 1..Len(s) /\ (j - 1 > k \/ (j - 1 = k /\ i <= k))
        BY <1>1, <1>2, <2>1, <3>3
      <4> QED
        BY <4>1
    <3> QED
      BY <1>2, <3>1, <3>2, <3>3
  <2> HIDE DEF y
  <2>2. ASSUME NEW e \in Beyond(r, k) PROVE e = y \/ e \in Beyond(s, k)
    <3>1. PICK j \in 1..(Len(s) + 1) : j > k /\ r[j] = e
      BY <1>d, Places
    <3>2. e = y \/ \E n \in 1..Len(s) : n > k /\ s[n] = e
      BY <2>1, <3>1
    <3> QED
      BY <1>d, <3>2, Places
  <2> QED
    BY <2>2
<1> QED
  BY <1>1, <1>3, <1>4, <1>5, <1>6 DEF MovedDown

(* What is on place i is taken away.                                       *)
LEMMA RemoveFacts ==
    ASSUME NEW S, NEW s \in Seq(S), IsInjective(s), NEW i \in DOMAIN s,
           NEW r, r = RemoveAt(s, i)
    PROVE  /\ r \in Seq(S) /\ IsInjective(r) /\ ToSet(r) = ToSet(s) \ {s[i]}
           /\ MovedUp(s, r, s[i])
<1>1. /\ r \in Seq(S) /\ Len(s) \in Nat /\ DOMAIN s = 1..Len(s) /\ DOMAIN r = 1..(Len(s) - 1)
      /\ \A j \in 1..(Len(s) - 1) : r[j] = IF j < i THEN s[j] ELSE s[j+1]
  BY RemovePlaces, LenProperties
<1>d. /\ DOMAIN s = 1..Len(s) /\ DOMAIN r = 1..(Len(s) - 1) /\ i \in 1..Len(s)
      /\ Len(s) \in Int /\ Len(s) - 1 \in Int
  BY <1>1
<1>2. /\ i \in 1..Len(s)
      /\ \A j \in 1..(Len(s) - 1) : /\ j \in 1..Len(s) /\ j + 1 \in 1..Len(s)
                                    /\ j < i \/ j >= i
      /\ \A a, b \in 1..Len(s) : s[a] = s[b] => a = b
  BY <1>1 DEF IsInjective
<1>3. ToSet(r) = ToSet(s) \ {s[i]}
  <2>1. ASSUME NEW j \in 1..(Len(s) - 1) PROVE \E n \in 1..Len(s) \ {i} : r[j] = s[n]
    <3>1. CASE j < i
      BY <1>1, <1>2, <3>1
    <3>2. CASE j >= i
      BY <1>1, <1>2, <3>2
    <3> QED
      BY <1>2, <3>1, <3>2
  <2>2. ASSUME NEW j \in 1..Len(s) \ {i} PROVE \E n \in 1..(Len(s) - 1) : r[n] = s[j]
    <3>1. CASE j < i
      BY <1>1, <1>2, <3>1
    <3>2. CASE j > i
      <4>1. j - 1 \in 1..(Len(s) - 1) /\ ~(j - 1 < i) /\ (j - 1) + 1 = j
        BY <1>1, <1>2, <3>2
      <4> QED
        BY <1>1, <4>1
    <3> QED
      BY <1>1, <1>2, <3>1, <3>2
  <2>3. \A j \in 1..Len(s) \ {i} : s[j] # s[i]
    BY <1>2
  <2>4. ASSUME NEW e \in ToSet(r) PROVE e \in ToSet(s) /\ e # s[i]
    <3>1. PICK j \in 1..(Len(s) - 1) : r[j] = e
      BY <1>d, Members
    <3>2. PICK n \in 1..Len(s) \ {i} : e = s[n]
      BY <2>1, <3>1
    <3> QED
      BY <1>d, <2>3, <3>2, Members
  <2>5. ASSUME NEW e \in ToSet(s), e # s[i] PROVE e \in ToSet(r)
    <3>1. PICK j \in 1..Len(s) \ {i} : s[j] = e
      BY <1>d, <2>5, Members
    <3>2. PICK n \in 1..(Len(s) - 1) : r[n] = e
      BY <2>2, <3>1
    <3> QED
      BY <1>d, <3>2, Members
  <2> QED
    BY <2>4, <2>5
<1>4. IsInjective(r)
  <2> SUFFICES ASSUME NEW j \in 1..(Len(s) - 1), NEW n \in 1..(Len(s) - 1), r[j] = r[n],
                      j < n
               PROVE  FALSE
    BY <1>1 DEF IsInjective
  <2>1. CASE n < i
    BY <1>1, <1>2, <2>1
  <2>2. CASE j >= i
    BY <1>1, <1>2, <2>2
  <2>3. CASE j < i /\ n >= i
    BY <1>1, <1>2, <2>3
  <2> QED
    BY <1>2, <2>1, <2>2, <2>3
<1>5. ASSUME NEW k \in Nat
      PROVE  \E y : Upto(r, k) \cup {s[i]} \subseteq Upto(s, k) \cup {y}
  <2> DEFINE y == IF i <= k THEN s[k+1] ELSE s[i]
  <2>1. ASSUME NEW j \in 1..(Len(s) - 1), j <= k
        PROVE  r[j] = y \/ \E n \in 1..Len(s) : n <= k /\ s[n] = r[j]
    <3>1. CASE j < i
      BY <1>1, <1>2, <2>1, <3>1
    <3>2. CASE j >= i
      <4>1. r[j] = s[j+1] /\ j + 1 \in 1..Len(s) /\ i <= k /\ (j + 1 <= k \/ j + 1 = k + 1)
        BY <1>1, <1>2, <2>1, <3>2
      <4> QED
        BY <4>1
    <3> QED
      BY <1>2, <3>1, <3>2
  <2>2. s[i] = y \/ \E n \in 1..Len(s) : n <= k /\ s[n] = s[i]
    BY <1>2
  <2> HIDE DEF y
  <2>3. ASSUME NEW e \in Upto(r, k) PROVE e = y \/ e \in Upto(s, k)
    <3>1. PICK j \in 1..(Len(s) - 1) : j <= k /\ r[j] = e
      BY <1>d, Places
    <3>2. e = y \/ \E n \in 1..Len(s) : n <= k /\ s[n] = e
      BY <2>1, <3>1
    <3> QED
      BY <1>d, <3>2, Places
  <2>4. s[i] = y \/ s[i] \in Upto(s, k)
    BY <1>d, <2>2, Places
  <2> QED
    BY <2>3, <2>4
<1>6. ASSUME NEW k \in Nat PROVE Beyond(r, k) \subseteq Beyond(s, k)
  <2> SUFFICES ASSUME NEW e \in Beyond(r, k) PROVE e \in Beyond(s, k)
    OBVIOUS
  <2>0. PICK j \in 1..(Len(s) - 1) : j > k /\ r[j] = e
    BY <1>d, Places
  <2> SUFFICES \E n \in 1..Len(s) : n > k /\ s[n] = e
    BY <1>d, Places
  <2>1. CASE j < i
    BY <1>1, <1>2, <2>0, <2>1
  <2>2. CASE j >= i
    <3>1. r[j] = s[j+1] /\ j + 1 \in 1..Len(s) /\ j + 1 > k
      BY <1>1, <1>2, <2>0, <2>2
    <3> QED
      BY <2>0, <3>1
  <2> QED
    BY <1>2, <2>1, <2>2
<1> QED
  BY <1>1, <1>3, <1>4, <1>5, <1>6 DEF MovedUp

-----------------------------------------------------------------------------
(* Pages of a list.                                                        *)

LEMMA SmallerOfTwo ==
    ASSUME NEW a \in Int, NEW b \in Int
    PROVE  Min({a, b}) = IF a <= b THEN a ELSE b
BY DEF Min

(* Without duplicates a list is as long as its set is large.               *)
LEMMA InjectiveLen ==
    ASSUME NEW S, NEW s \in Seq(S), IsInjective(s)
    PROVE  IsFiniteSet(ToSet(s)) /\ Cardinality(ToSet(s)) = Len(s)
<1>1. Len(s) \in Nat /\ DOMAIN s = 1..Len(s) /\ s \in [1..Len(s) -> S]
  BY LenProperties
<1>2. s \in [1..Len(s) -> ToSet(s)]
  BY <1>1 DEF ToSet
<1>3. \A e \in ToSet(s) : \E i \in 1..Len(s) : s[i] = e
  BY <1>1, Members
<1>4. s \in Surjection(1..Len(s), ToSet(s))
  BY <1>2, <1>3 DEF Surjection
<1>5. s \in Injection(1..Len(s), ToSet(s))
  BY <1>2 DEF Injection
<1>6. IsFiniteSet(1..Len(s)) /\ Cardinality(1..Len(s)) = Len(s)
  <2>1. 1 \in Int /\ Len(s) \in Int /\ (IF 1 > Len(s) THEN 0 ELSE Len(s) - 1 + 1) = Len(s)
    BY <1>1
  <2> QED
    BY <2>1, FS_Interval
<1> QED
  BY <1>4, <1>5, <1>6, FS_Surjection

(* The first k places of a list.                                           *)
First(s, k) == SubSeq(s, 1, Min({k, Len(s)}))

LEMMA PageEnd ==
    ASSUME NEW k \in Nat, NEW n \in Nat
    PROVE  \E l \in Nat : l = Min({k, n}) /\ l = IF k <= n THEN k ELSE n
<1>1. Min({k, n}) = IF k <= n THEN k ELSE n
  BY SmallerOfTwo
<1> QED
  BY <1>1

(* A page of n places behind the first o of them.                          *)
IsPage(s, o, n, c) == c = SubSeq(s, o + 1, Min({o + n, Len(s)}))

HasPlaces(s, o, n, c, m) ==
    /\ Len(c) = m /\ DOMAIN c = 1..m
    /\ \A j \in 1..m : c[j] = s[o + j] /\ o + j \in DOMAIN s /\ o + j <= o + n
    /\ \A j \in DOMAIN s : o < j /\ j <= o + n => j - o \in 1..m /\ o + (j - o) = j
    /\ (m = 0) <=> (Len(s) <= o)
    /\ (m = 0) <=> (c = <<>>)

LEMMA PagePlaces ==
    ASSUME NEW S, NEW s \in Seq(S), NEW o \in Nat, NEW n \in Nat \ {0},
           NEW c, IsPage(s, o, n, c)
    PROVE  c \in Seq(S) /\ \E m \in Nat : HasPlaces(s, o, n, c, m)
<1>1. Len(s) \in Nat /\ DOMAIN s = 1..Len(s) /\ \A j \in 1..Len(s) : s[j] \in S
  BY LenProperties, ElementOfSeq
<1>2. Len(s) \in Nat
  BY <1>1
<1>l. PICK l \in Nat : /\ l = Min({o + n, Len(s)})
                       /\ l = IF o + n <= Len(s) THEN o + n ELSE Len(s)
  <2>1. o + n \in Nat
    OBVIOUS
  <2> QED
    BY <1>2, <2>1, PageEnd
<1>3. PICK m \in Nat : m = IF o + 1 <= l THEN l - o ELSE 0
  <2>1. o + 1 <= l => l - o \in Nat
    OBVIOUS
  <2> QED
    BY <2>1
<1>4. \A j \in (o + 1)..l : s[j] \in S
  <2>1. \A j \in (o + 1)..l : j \in 1..Len(s)
    BY <1>2, <1>l
  <2> QED
    BY <1>1, <2>1
<1>5. o + 1 \in Int /\ l \in Int /\ l - (o + 1) + 1 = l - o
  OBVIOUS
<1>6. /\ c \in Seq(S) /\ Len(c) = m
      /\ \A j \in 1..(l - o) : c[j] = s[(o + 1) + j - 1]
  <2>1. /\ SubSeq(s, o + 1, l) \in Seq(S)
        /\ Len(SubSeq(s, o + 1, l)) = IF o + 1 <= l THEN l - (o + 1) + 1 ELSE 0
        /\ \A j \in 1..(l - (o + 1) + 1) : SubSeq(s, o + 1, l)[j] = s[(o + 1) + j - 1]
    BY <1>4, <1>5, SubSeqProperties
  <2>2. c = SubSeq(s, o + 1, l)
    BY <1>l DEF IsPage
  <2> QED
    BY <1>3, <1>5, <2>1, <2>2
<1>7. DOMAIN c = 1..m
  BY <1>6, LenProperties
<1>8. ASSUME NEW j \in 1..m
      PROVE  c[j] = s[o + j] /\ o + j \in DOMAIN s /\ o + j <= o + n
  <2>1. j \in 1..(l - o) /\ (o + 1) + j - 1 = o + j
    BY <1>3
  <2>2. o + j \in 1..Len(s) /\ o + j <= o + n
    BY <1>2, <1>l, <2>1
  <2> QED
    BY <1>1, <1>6, <2>1, <2>2
<1>9. ASSUME NEW j \in 1..Len(s), o < j, j <= o + n
      PROVE  j - o \in 1..m /\ o + (j - o) = j
  BY <1>2, <1>3, <1>l, <1>9, SMT
<1>10. (m = 0) <=> (Len(s) <= o)
  BY <1>2, <1>3, <1>l
<1>11. (m = 0) <=> (c = <<>>)
  <2>1. Len(c) = m /\ c \in Seq(S)
    BY <1>6
  <2> QED
    BY <2>1, EmptySeq
<1> QED
  BY <1>1, <1>6, <1>7, <1>8, <1>9, <1>10, <1>11 DEF HasPlaces

LEMMA PageFacts ==
    ASSUME NEW S, NEW s \in Seq(S), IsInjective(s), NEW o \in Nat, NEW n \in Nat \ {0},
           NEW c, IsPage(s, o, n, c)
    PROVE  /\ c \in Seq(S) /\ IsInjective(c)
           /\ Upto(s, o + n) \subseteq Upto(s, o) \cup ToSet(c)
           /\ ToSet(c) \subseteq Beyond(s, o)
           /\ ToSet(c) \cap Beyond(s, o + n) = {}
           /\ Beyond(s, o + n) \subseteq Beyond(s, o)
           /\ (c = <<>>) => Upto(s, o) = ToSet(s)
<1>1. Len(s) \in Int /\ DOMAIN s = 1..Len(s) /\ o \in Int /\ o + n \in Int /\ o <= o + n
  BY LenProperties
<1>p. PICK m \in Nat : c \in Seq(S) /\ HasPlaces(s, o, n, c, m)
  BY PagePlaces
<1>2. /\ c \in Seq(S) /\ Len(c) = m /\ DOMAIN c = 1..m
      /\ \A j \in 1..m : c[j] = s[o + j] /\ o + j \in DOMAIN s /\ o + j <= o + n
      /\ \A j \in DOMAIN s : o < j /\ j <= o + n => j - o \in 1..m /\ o + (j - o) = j
      /\ (m = 0) <=> (Len(s) <= o)
      /\ (m = 0) <=> (c = <<>>)
  BY <1>p DEF HasPlaces
<1>3. \A a, b \in DOMAIN s : s[a] = s[b] => a = b
  BY DEF IsInjective
<1>4. IsInjective(c)
  <2> SUFFICES ASSUME NEW a \in 1..m, NEW b \in 1..m, c[a] = c[b] PROVE a = b
    BY <1>2 DEF IsInjective
  <2>1. o + a = o + b
    BY <1>2, <1>3
  <2> QED
    BY <2>1
<1>5. ASSUME NEW e \in Upto(s, o + n) PROVE e \in Upto(s, o) \cup ToSet(c)
  <2>1. PICK j \in 1..Len(s) : j <= o + n /\ s[j] = e
    BY <1>1, Places
  <2>2. CASE j <= o
    BY <1>1, <2>1, <2>2, Places
  <2>3. CASE j > o
    <3>1. j - o \in 1..m /\ c[j - o] = e
      BY <1>1, <1>2, <2>1, <2>3
    <3> QED
      BY <1>2, <3>1, Members
  <2> QED
    BY <1>1, <2>2, <2>3
<1>6. ASSUME NEW e \in ToSet(c) PROVE e \in Beyond(s, o) /\ e \notin Beyond(s, o + n)
  <2>0. PICK i \in DOMAIN c : c[i] = e
    BY Members
  <2>1. i \in 1..m
    BY <1>2, <2>0
  <2>2. /\ o + i \in 1..Len(s) /\ s[o + i] = e /\ o + i <= o + n
        /\ o + i \in Int /\ o + i > o
    <3>1. c[i] = s[o + i] /\ o + i \in DOMAIN s /\ o + i <= o + n
      BY <1>2, <2>1
    <3>2. o + i \in Int /\ o + i > o
      BY <2>1
    <3> QED
      BY <1>1, <2>0, <3>1, <3>2
  <2>3. e \in Beyond(s, o)
    BY <1>1, <2>2, Places
  <2>4. ASSUME e \in Beyond(s, o + n) PROVE FALSE
    <3>1. PICK j \in 1..Len(s) : j > o + n /\ s[j] = e
      BY <1>1, <2>4, Places
    <3>2. j = o + i
      BY <1>1, <1>3, <2>2, <3>1
    <3> QED
      BY <2>2, <3>1, <3>2
  <2> QED
    BY <2>3, <2>4
<1>7. ASSUME NEW e \in Beyond(s, o + n) PROVE e \in Beyond(s, o)
  <2>1. PICK j \in 1..Len(s) : j > o + n /\ s[j] = e
    BY <1>1, Places
  <2>2. j > o
    BY <1>1, <2>1
  <2> QED
    BY <1>1, <2>1, <2>2, Places
<1>8. ASSUME c = <<>>, NEW e PROVE e \in ToSet(s) <=> e \in Upto(s, o)
  <2>0. Len(s) <= o
    BY <1>2, <1>8
  <2>1. \A j \in 1..Len(s) : j <= o
    BY <1>1, <2>0
  <2> QED
    BY <1>1, <2>1, Members, Places
<1> QED
  BY <1>2, <1>4, <1>5, <1>6, <1>7, <1>8

LEMMA FirstFacts ==
    ASSUME NEW S, NEW s \in Seq(S), NEW o \in Nat, NEW n \in Nat \ {0},
           NEW c, IsPage(s, o, n, c)
    PROVE  /\ First(s, 0) = <<>>
           /\ First(s, o) \in Seq(S)
           /\ Joined(First(s, o), c) = First(s, o + n)
           /\ c = <<>> => First(s, o) = s
<1>1. Len(s) \in Nat /\ DOMAIN s = 1..Len(s) /\ \A j \in 1..Len(s) : s[j] \in S
  BY LenProperties, ElementOfSeq
<1>n. o \in Nat /\ o + n \in Nat /\ Len(s) \in Nat
  BY <1>1
<1>2. PICK k \in Nat : k = Min({o, Len(s)}) /\ k = IF o <= Len(s) THEN o ELSE Len(s)
  BY <1>n, PageEnd
<1>3. PICK l \in Nat : /\ l = Min({o + n, Len(s)})
                       /\ l = IF o + n <= Len(s) THEN o + n ELSE Len(s)
  BY <1>n, PageEnd
<1>c. (c = <<>>) <=> (Len(s) <= o)
  BY PagePlaces DEF HasPlaces
<1>d. c = SubSeq(s, o + 1, l)
  BY <1>3 DEF IsPage
<1>4. First(s, 0) = <<>>
  <2>1. Min({0, Len(s)}) = 0
    BY <1>1, SmallerOfTwo
  <2>2. SubSeq(s, 1, 0) = <<>>
    BY SubSeqEmpty
  <2> QED
    BY <2>1, <2>2 DEF First
<1>5. First(s, o) \in Seq(S)
  <2>1. \A j \in 1..k : s[j] \in S
    BY <1>1, <1>2
  <2>2. SubSeq(s, 1, k) \in Seq(S)
    BY <2>1, SubSeqProperties
  <2> QED
    BY <1>2, <2>2 DEF First
<1>6. CASE o <= Len(s)
  <2>1. /\ k = o /\ 1 \in 1..(Len(s) + 1) /\ o \in (1 - 1)..Len(s) /\ l \in o..Len(s)
    BY <1>1, <1>2, <1>3, <1>6
  <2>2. SubSeq(s, 1, o) \o SubSeq(s, o + 1, l) = SubSeq(s, 1, l)
    BY <2>1, ConcatAdjacentSubSeq
  <2>3. Joined(First(s, o), c) = First(s, o + n)
    BY <1>2, <1>3, <1>d, <2>1, <2>2 DEF First, Joined
  <2>4. ASSUME c = <<>> PROVE First(s, o) = s
    <3>1. Len(s) <= o
      BY <1>c, <2>4
    <3>2. k = Len(s)
      BY <1>1, <1>2, <3>1
    <3> QED
      BY <1>2, <3>2, SubSeqFull DEF First
  <2> QED
    BY <1>4, <1>5, <2>3, <2>4
<1>7. CASE o > Len(s)
  <2>1. k = Len(s) /\ l = Len(s) /\ l < o + 1
    BY <1>1, <1>2, <1>3, <1>7
  <2>2. c = <<>>
    BY <1>d, <2>1, SubSeqEmpty
  <2>3. First(s, o) = s /\ First(s, o + n) = s
    BY <1>2, <1>3, <2>1, SubSeqFull DEF First
  <2>4. Joined(s, <<>>) = s
    BY ConcatEmptySeq DEF Joined
  <2> QED
    BY <1>4, <1>5, <2>2, <2>3, <2>4
<1> QED
  BY <1>n, <1>6, <1>7

-----------------------------------------------------------------------------
(* Counting.                                                               *)

LEMMA OneMore ==
    ASSUME NEW X, NEW Y, IsFiniteSet(Y), NEW y, X \subseteq Y \cup {y}
    PROVE  IsFiniteSet(X) /\ Cardinality(X) <= Cardinality(Y) + 1
<1>1. PICK Z : Z = Y \cup {y}
  OBVIOUS
<1>2. /\ IsFiniteSet(Z) /\ Cardinality(Z) \in Nat /\ Cardinality(Y) \in Nat
      /\ Cardinality(Z) <= Cardinality(Y) + 1
  <2>1. Cardinality(Y) \in Nat
    BY FS_CardinalityType
  <2>2. /\ IsFiniteSet(Z)
        /\ Cardinality(Z) = IF y \in Y THEN Cardinality(Y) ELSE Cardinality(Y) + 1
    BY <1>1, FS_AddElement
  <2> QED
    BY <2>1, <2>2
<1>3. IsFiniteSet(X) /\ Cardinality(X) <= Cardinality(Z) /\ Cardinality(X) \in Nat
  BY <1>1, <1>2, FS_Subset, FS_CardinalityType
<1> QED
  BY <1>2, <1>3

(* D is added to A; what of A is in B is counted, until D has been passed. *)
LEMMA Passed ==
    ASSUME NEW A, IsFiniteSet(A), NEW D, IsFiniteSet(D), NEW B, NEW C,
           D \subseteq B, C \subseteq B, D \cap C = {}
    PROVE  Cardinality(D) + Cardinality((A \cup D) \cap C) + Cardinality(A)
             <= Cardinality(A \cup D) + Cardinality(A \cap B)
<1>1. PICK X, Y, Z, U : X = A \cap D /\ Y = A \cap C /\ Z = A \cap B /\ U = A \cup D
  OBVIOUS
<1>2. /\ IsFiniteSet(X) /\ Cardinality(X) \in Nat
      /\ IsFiniteSet(Y) /\ Cardinality(Y) \in Nat
      /\ IsFiniteSet(Z) /\ Cardinality(Z) \in Nat
  BY <1>1, FS_Intersection, FS_CardinalityType
<1>3. /\ IsFiniteSet(U) /\ Cardinality(U) \in Nat
      /\ Cardinality(U) = Cardinality(A) + Cardinality(D) - Cardinality(X)
      /\ Cardinality(A) \in Nat /\ Cardinality(D) \in Nat
  BY <1>1, FS_Union, FS_CardinalityType
<1>4. Cardinality(X) + Cardinality(Y) <= Cardinality(Z)
  <2>1. PICK V : V = X \cup Y
    OBVIOUS
  <2>2. X \cap Y = {}
    BY <1>1
  <2>3. /\ IsFiniteSet(V) /\ Cardinality(V) \in Nat
        /\ Cardinality(V) = Cardinality(X) + Cardinality(Y) - Cardinality(X \cap Y)
    BY <1>2, <2>1, FS_Union, FS_CardinalityType
  <2>4. Cardinality(X \cap Y) = 0
    BY <2>2, FS_EmptySet
  <2>5. V \subseteq Z
    BY <1>1, <2>1
  <2>6. Cardinality(V) <= Cardinality(Z)
    BY <1>2, <2>5, FS_Subset
  <2> QED
    BY <1>2, <2>3, <2>4, <2>6
<1>5. (A \cup D) \cap C = Y
  BY <1>1
<1>6. Cardinality(D) + Cardinality(Y) + Cardinality(A) <= Cardinality(U) + Cardinality(Z)
  BY <1>2, <1>3, <1>4
<1> QED
  BY <1>1, <1>5, <1>6

-----------------------------------------------------------------------------
(* The book and its pages.                                                 *)

LEMMA BookIs == \A b : b \in Book <=> b \in Seq(Ad) /\ IsInjective(b)
<1>1. ASSUME NEW b \in Book PROVE b \in Seq(Ad) /\ IsInjective(b)
  <2>1. b \in UNION {[1..m -> Ad] : m \in 0..Cardinality(Ad)} /\ IsInjective(b)
    BY DEF Book, BoundedSeq, SeqOf
  <2>2. PICK m \in 0..Cardinality(Ad) : b \in [1..m -> Ad]
    BY <2>1
  <2>3. Cardinality(Ad) \in Nat
    BY ClientAssumption, FS_CardinalityType
  <2>4. m \in Nat
    BY <2>2, <2>3
  <2> QED
    BY <2>1, <2>2, <2>4, SeqDef
<1>2. ASSUME NEW b \in Seq(Ad), IsInjective(b) PROVE b \in Book
  <2>1. PICK n \in Nat : n = Len(b) /\ b \in [1..n -> Ad]
    BY LenProperties
  <2>2. b \in Injection(1..n, Ad)
    BY <1>2, <2>1 DEF Injection
  <2>3. IsFiniteSet(Ad) /\ Cardinality(Ad) \in Nat
    BY ClientAssumption, FS_CardinalityType
  <2>4. Cardinality(1..n) <= Cardinality(Ad)
    BY <2>2, <2>3, FS_Injection
  <2>5. Cardinality(1..n) = n
    <3>1. 1 \in Int /\ n \in Int /\ (IF 1 > n THEN 0 ELSE n - 1 + 1) = n
      OBVIOUS
    <3> QED
      BY <3>1, FS_Interval
  <2>6. n \in 0..Cardinality(Ad)
    BY <2>3, <2>4, <2>5
  <2>7. b \in UNION {[1..m -> Ad] : m \in 0..Cardinality(Ad)}
    BY <2>1, <2>6
  <2> QED
    BY <1>2, <2>7 DEF Book, BoundedSeq, SeqOf
<1> QED
  BY <1>1, <1>2

Offset == (page - 1) * PageSize

LEMMA ContentIsPage ==
    ASSUME TypeOK
    PROVE  /\ Offset \in Nat /\ PageSize \in Nat \ {0}
           /\ IsPage(book, Offset, PageSize, Content(book, page))
           /\ ((page + 1) - 1) * PageSize = Offset + PageSize
<1>1. page \in Nat \ {0} /\ PageSize \in Nat \ {0}
  BY NumberAssumption DEF TypeOK
<1>2. PICK o \in Nat : o = (page - 1) * PageSize
  BY <1>1
<1>3. page * PageSize = o + PageSize /\ ((page + 1) - 1) * PageSize = o + PageSize
  BY <1>1, <1>2
<1> QED
  BY <1>1, <1>2, <1>3 DEF Offset, IsPage, Content

(* What the call is to return: all ads, or those with the name.            *)
Wanted == IF fun = "GetAds" THEN Ad ELSE Mine

LEMMA CollectedFacts ==
    ASSUME NEW s \in Seq(Ad)
    PROVE  /\ Collected(s) \in Seq(Ad)
           /\ ToSet(Collected(s)) = ToSet(s) \cap Wanted
           /\ IsInjective(s) => IsInjective(Collected(s))
           /\ Collected(<<>>) = <<>>
           /\ \A t \in Seq(Ad) : Collected(s \o t) = Collected(s) \o Collected(t)
<1>1. CASE fun = "GetAds"
  <2>1. ToSet(s) \subseteq Ad
    <3>1. DOMAIN s = 1..Len(s) /\ \A i \in 1..Len(s) : s[i] \in Ad
      BY LenProperties, ElementOfSeq
    <3> QED
      BY <3>1 DEF ToSet
  <2> QED
    BY <1>1, <2>1 DEF Collected, Wanted
<1>2. CASE fun # "GetAds"
  <2>1. /\ Named(s) \in Seq(Ad) /\ ToSet(Named(s)) = ToSet(s) \cap Mine
        /\ IsInjective(s) => IsInjective(Named(s))
    BY NamedSet
  <2>2. \A t \in Seq(Ad) : Named(s \o t) = Named(s) \o Named(t)
    BY NamedConcat
  <2>3. Named(<<>>) = <<>>
    <3>1. PICK e : e = <<>> /\ Len(e) = 0 /\ Len(e) \in Nat
      OBVIOUS
    <3>2. Named(e) = Loop(e)[Len(e)] /\ Loop(e)[0] = <<>>
      BY <3>1, NamedLoop
    <3> QED
      BY <3>1, <3>2
  <2> QED
    BY <1>2, <2>1, <2>2, <2>3 DEF Collected, Wanted
<1> QED
  BY <1>1, <1>2

-----------------------------------------------------------------------------
(* Types.                                                                  *)

LEMMA TypeInit == Init => TypeOK
<1> SUFFICES ASSUME Init PROVE TypeOK
  OBVIOUS
<1>1. <<>> \in Seq(Ad) /\ {} \in SUBSET Ad
  OBVIOUS
<1>2. 1 \in 1..MaxRetries /\ 0 \in 0..MaxMoves
  BY NumberAssumption
<1> QED
  BY <1>1, <1>2 DEF Init, TypeOK

(* The two ways in which a book moves.                                     *)
LEMMA MoveFacts ==
    ASSUME TypeOK, Move
    PROVE  /\ book \in Seq(Ad) /\ IsInjective(book)
           /\ \/ \E ad \in Ad \ ToSet(book), i \in 1..(Len(book) + 1) :
                   book' = InsertAt(book, i, ad)
              \/ \E i \in DOMAIN book : book' = RemoveAt(book, i)
           /\ book' \in Book
<1>1. book \in Seq(Ad) /\ IsInjective(book)
  BY BookIs DEF TypeOK
<1>2. \/ \E ad \in Ad \ ToSet(book), i \in 1..(Len(book) + 1) :
           book' = InsertAt(book, i, ad)
      \/ \E i \in DOMAIN book : book' = RemoveAt(book, i)
  BY DEF Move
<1>3. book' \in Seq(Ad) /\ IsInjective(book')
  <2>1. ASSUME NEW ad \in Ad \ ToSet(book), NEW i \in 1..(Len(book) + 1),
               book' = InsertAt(book, i, ad)
        PROVE  book' \in Seq(Ad) /\ IsInjective(book')
    BY <1>1, <2>1, InsertFacts
  <2>2. ASSUME NEW i \in DOMAIN book, book' = RemoveAt(book, i)
        PROVE  book' \in Seq(Ad) /\ IsInjective(book')
    BY <1>1, <2>2, RemoveFacts
  <2> QED
    BY <1>2, <2>1, <2>2
<1> QED
  BY <1>1, <1>2, <1>3, BookIs

LEMMA SetOfBook == \A b \in Seq(Ad) : ToSet(b) \in SUBSET Ad
<1> SUFFICES ASSUME NEW b \in Seq(Ad) PROVE ToSet(b) \subseteq Ad
  OBVIOUS
<1>1. DOMAIN b = 1..Len(b) /\ \A i \in 1..Len(b) : b[i] \in Ad
  BY LenProperties, ElementOfSeq
<1> QED
  BY <1>1 DEF ToSet

LEMMA TypeNext == TypeOK /\ [Next]_vars => TypeOK'
<1> SUFFICES ASSUME TypeOK, [Next]_vars PROVE TypeOK'
  OBVIOUS
<1> USE NumberAssumption
<1>1. book \in Seq(Ad) /\ <<>> \in Seq(Ad) /\ ToSet(book) \in SUBSET Ad
  BY BookIs, SetOfBook DEF TypeOK
<1>2. CASE Call
  BY <1>1, <1>2 DEF Call, callee, TypeOK
<1>3. CASE Move
  <2>1. book' \in Book
    BY <1>3, MoveFacts
  <2>2. moves' \in 0..MaxMoves /\ always' \in SUBSET Ad
    BY <1>3 DEF Move, TypeOK
  <2> QED
    BY <1>3, <2>1, <2>2 DEF Move, call, callee, TypeOK
<1>4. CASE Answer
  <2>1. PICK ads : ads = Content(book, page)
    OBVIOUS
  <2>2. /\ IF ads = <<>> THEN LastPage ELSE NextPage(ads)
        /\ UNCHANGED <<book, callee, history>>
    BY <1>4, <2>1 DEF Answer
  <2>3. CASE LastPage
    BY <2>2, <2>3 DEF LastPage, callee, history, TypeOK
  <2>4. CASE NextPage(ads)
    <3>1. ads \in Seq(Ad)
      <4>1. /\ Offset \in Nat /\ PageSize \in Nat \ {0}
            /\ IsPage(book, Offset, PageSize, ads)
        BY <2>1, ContentIsPage
      <4> HIDE DEF Offset
      <4> QED
        BY <1>1, <4>1, PagePlaces
    <3>2. Collected(ads) \in Seq(Ad)
      BY <3>1, CollectedFacts
    <3>3. out' \in Seq(Ad)
      BY <2>4, <3>2, ConcatProperties DEF NextPage, TypeOK
    <3> QED
      BY <2>2, <2>4, <3>3 DEF NextPage, callee, history, TypeOK
  <2> QED
    BY <2>2, <2>3, <2>4
<1>5. ASSUME Fail, UNCHANGED <<book, callee, history>> PROVE TypeOK'
  BY <1>1, <1>5 DEF Fail, callee, history, TypeOK
<1>6. ASSUME Retry, UNCHANGED <<book, callee, history>>, pc = "request" PROVE TypeOK'
  <2>1. CASE attempt < MaxRetries
    BY <1>6, <2>1 DEF Retry, callee, history, TypeOK
  <2> QED
    BY <1>5, <1>6, <2>1 DEF Retry
<1>7. CASE AttemptFails
  BY <1>6, <1>7 DEF AttemptFails
<1>8. CASE BodyFails
  <2>1. CASE pc' = "panicked" /\ out' = <<>> /\ UNCHANGED <<page, attempt>>
    BY <1>1, <1>8, <2>1 DEF BodyFails, callee, history, TypeOK
  <2> QED
    BY <1>6, <1>8, <2>1 DEF BodyFails
<1>9. CASE ErrorAnswer
  BY <1>5, <1>9 DEF ErrorAnswer
<1>10. CASE UNCHANGED vars
  BY <1>10 DEF vars, call, callee, history, TypeOK
<1> QED
  BY <1>2, <1>3, <1>4, <1>7, <1>8, <1>9, <1>10 DEF Next, Step

(* The types of a call, for any exchange and any book.                     *)
THEOREM TypeCorrect == Spec => []TypeOK
BY TypeInit, TypeNext, PTL DEF Spec

-----------------------------------------------------------------------------
(* What the moves of the book have cost so far.  An ad that moved up from  *)
(* the pages to come onto those that have been read is missed; one that    *)
(* moved down the other way is ahead, and will be read again.              *)
Missed == (always \cap Wanted \cap Upto(book, Offset)) \ ToSet(out)
Ahead == ToSet(out) \cap Beyond(book, Offset)

(* Between two pages every move has cost one ad of either kind at most,    *)
(* and without moves what was collected is what the pages so far hold.     *)
PageInv ==
    pc = "request" =>
        /\ always \subseteq ToSet(book)
        /\ Cardinality(Missed) <= moves
        /\ Len(out) + Cardinality(Ahead) <= Cardinality(ToSet(out)) + moves
        /\ moves = 0 => out = Collected(First(book, Offset))

CallInv == PageInv /\ StillBookReturned /\ MoveCostsOne

LEMMA Finite ==
    ASSUME TypeOK
    PROVE  /\ book \in Seq(Ad) /\ IsInjective(book) /\ out \in Seq(Ad)
           /\ Len(out) \in Nat /\ moves \in Nat
           /\ IsFiniteSet(ToSet(out)) /\ IsFiniteSet(always)
           /\ IsFiniteSet(Missed) /\ IsFiniteSet(Ahead)
           /\ Cardinality(ToSet(out)) \in Nat
           /\ Cardinality(Missed) \in Nat /\ Cardinality(Ahead) \in Nat
<1>1. /\ book \in Seq(Ad) /\ IsInjective(book) /\ out \in Seq(Ad)
      /\ Len(out) \in Nat /\ moves \in Nat
  BY BookIs, LenProperties DEF TypeOK
<1>2. IsFiniteSet(ToSet(out)) /\ IsFiniteSet(always)
  <2>1. ToSet(out) \in SUBSET Ad /\ always \in SUBSET Ad /\ IsFiniteSet(Ad)
    BY <1>1, SetOfBook, ClientAssumption DEF TypeOK
  <2> QED
    BY <2>1, FS_Subset
<1>3. IsFiniteSet(Missed) /\ IsFiniteSet(Ahead)
  <2>1. Missed \in SUBSET always /\ Ahead \in SUBSET ToSet(out)
    BY DEF Missed, Ahead
  <2> QED
    BY <1>2, <2>1, FS_Subset
<1> QED
  BY <1>1, <1>2, <1>3, FS_CardinalityType

(* A call begins with nothing.                                             *)
LEMMA CallKeeps ==
    ASSUME TypeOK, Call PROVE CallInv'
<1>1. /\ pc' = "request" /\ page' = 1 /\ out' = <<>> /\ moves' = 0
      /\ always' = ToSet(book) /\ book' = book /\ fun' = fun
  BY DEF Call, callee
<1>2. Offset' = 0
  <2>1. PageSize \in Nat
    BY NumberAssumption
  <2> QED
    BY <1>1, <2>1 DEF Offset
<1>3. book \in Seq(Ad) /\ ToSet(<<>>) = {} /\ Len(<<>>) = 0 /\ Cardinality({}) = 0
  BY BookIs, EmptyFacts, FS_EmptySet DEF TypeOK
<1>4. Missed' = {}
  <2>1. Upto(book, 0) = {}
    <3>1. Len(book) \in Int /\ DOMAIN book = 1..Len(book) /\ \A i \in 1..Len(book) : ~(i <= 0)
      BY <1>3, LenProperties
    <3> QED
      BY <3>1, Places
  <2> QED
    BY <1>1, <1>2, <2>1 DEF Missed
<1>5. Ahead' = {}
  BY <1>1, <1>3 DEF Ahead
<1>6. Collected(First(book, Offset))' = <<>>
  <2>1. First(book, 0) = <<>>
    <3>1. PICK c : c = SubSeq(book, 0 + 1, Min({0 + 1, Len(book)}))
      OBVIOUS
    <3>2. 0 \in Nat /\ 1 \in Nat \ {0} /\ IsPage(book, 0, 1, c)
      BY <3>1 DEF IsPage
    <3> QED
      BY <1>3, <3>2, FirstFacts
  <2>2. Collected(<<>>) = <<>>
    BY <1>3, CollectedFacts
  <2> QED
    BY <1>1, <1>2, <2>1, <2>2 DEF Collected
<1>7. PageInv'
  <2>1. always' \subseteq ToSet(book')
    BY <1>1
  <2>2. Cardinality(Missed') = 0 /\ Cardinality(Ahead') = 0
    BY <1>3, <1>4, <1>5
  <2>3. Len(out') = 0 /\ Cardinality(ToSet(out')) = 0
    BY <1>1, <1>3
  <2>4. /\ Cardinality(Missed') <= moves'
        /\ Len(out') + Cardinality(Ahead') <= Cardinality(ToSet(out')) + moves'
    BY <1>1, <2>2, <2>3
  <2>5. out' = Collected(First(book, Offset))'
    BY <1>1, <1>6
  <2> QED
    BY <2>1, <2>4, <2>5 DEF PageInv
<1> QED
  BY <1>1, <1>7 DEF CallInv, StillBookReturned, MoveCostsOne

(* A move costs one ad.                                                    *)
LEMMA MoveKeeps ==
    ASSUME TypeOK, CallInv, Move PROVE CallInv'
<1>1. /\ pc = "request" /\ moves' = moves + 1 /\ always' = always \cap ToSet(book')
      /\ UNCHANGED <<client, fun, pc, page, attempt, out>>
  BY DEF Move, call, callee
<1>2. PICK o \in Nat : o = Offset
  BY ContentIsPage
<1>3. PICK w, t : w = Wanted /\ t = ToSet(out)
  OBVIOUS
<1>4. /\ Offset' = o /\ Wanted' = w /\ ToSet(out)' = t
      /\ Missed = (always \cap w \cap Upto(book, o)) \ t
      /\ Missed' = (always' \cap w \cap Upto(book', o)) \ t
      /\ Ahead = t \cap Beyond(book, o)
      /\ Ahead' = t \cap Beyond(book', o)
  BY <1>1, <1>2, <1>3 DEF Offset, Wanted, Missed, Ahead
<1>5. /\ always \subseteq ToSet(book)
      /\ Cardinality(Missed) <= moves
      /\ Len(out) + Cardinality(Ahead) <= Cardinality(t) + moves
  BY <1>1, <1>3 DEF CallInv, PageInv
<1>6. (\E y : Missed' \subseteq Missed \cup {y}) /\ (\E y : Ahead' \subseteq Ahead \cup {y})
  <2>1. ASSUME NEW ad \in Ad \ ToSet(book), NEW i \in 1..(Len(book) + 1),
               book' = InsertAt(book, i, ad)
        PROVE  /\ \E y : Missed' \subseteq Missed \cup {y}
               /\ \E y : Ahead' \subseteq Ahead \cup {y}
    <3>1. book \in Seq(Ad) /\ IsInjective(book) /\ ad \in Ad /\ ad \notin ToSet(book)
      BY Finite
    <3>2. /\ Upto(book', o) \subseteq Upto(book, o) \cup {ad}
          /\ \E y : Beyond(book', o) \subseteq Beyond(book, o) \cup {y}
      <4>1. MovedDown(book, book', ad)
        BY <2>1, <3>1, InsertFacts
      <4> QED
        BY <4>1 DEF MovedDown
    <3>3. Missed' \subseteq Missed
      BY <1>1, <1>4, <1>5, <3>1, <3>2
    <3> QED
      BY <1>4, <3>2, <3>3
  <2>2. ASSUME NEW i \in DOMAIN book, book' = RemoveAt(book, i)
        PROVE  /\ \E y : Missed' \subseteq Missed \cup {y}
               /\ \E y : Ahead' \subseteq Ahead \cup {y}
    <3>1. book \in Seq(Ad) /\ IsInjective(book)
      BY Finite
    <3>2. /\ \E y : Upto(book', o) \cup {book[i]} \subseteq Upto(book, o) \cup {y}
          /\ Beyond(book', o) \subseteq Beyond(book, o)
      <4>1. MovedUp(book, book', book[i])
        BY <2>2, <3>1, RemoveFacts
      <4> QED
        BY <4>1 DEF MovedUp
    <3> QED
      BY <1>1, <1>4, <3>2
  <2> QED
    BY <2>1, <2>2, MoveFacts
<1>7. /\ Cardinality(Missed') <= Cardinality(Missed) + 1
      /\ Cardinality(Ahead') <= Cardinality(Ahead) + 1
      /\ Cardinality(Missed') \in Nat /\ Cardinality(Ahead') \in Nat
  <2>1. IsFiniteSet(Missed) /\ IsFiniteSet(Ahead)
    BY Finite
  <2>2. /\ IsFiniteSet(Missed') /\ Cardinality(Missed') <= Cardinality(Missed) + 1
        /\ IsFiniteSet(Ahead') /\ Cardinality(Ahead') <= Cardinality(Ahead) + 1
    BY <1>6, <2>1, OneMore
  <2> QED
    BY <2>2, FS_CardinalityType
<1>8. /\ Len(out) \in Nat /\ moves \in Nat /\ Cardinality(t) \in Nat
      /\ Cardinality(Missed) \in Nat /\ Cardinality(Ahead) \in Nat
  BY <1>3, Finite
<1>9. /\ Cardinality(Missed') <= moves + 1
      /\ Len(out) + Cardinality(Ahead') <= Cardinality(t) + (moves + 1)
      /\ moves + 1 # 0
  <2>1. PICK x \in Nat, y \in Nat, m \in Nat, n \in Nat, u \in Nat, v \in Nat, z \in Nat :
               /\ x = Cardinality(Missed) /\ y = Cardinality(Ahead)
               /\ m = Cardinality(Missed') /\ n = Cardinality(Ahead')
               /\ u = Cardinality(t) /\ v = Len(out) /\ z = moves
    BY <1>7, <1>8
  <2>2. x <= z /\ v + y <= u + z /\ m <= x + 1 /\ n <= y + 1
    BY <1>5, <1>7, <2>1
  <2>3. m <= z + 1 /\ v + n <= u + (z + 1) /\ z + 1 # 0
    BY <2>2
  <2> QED
    BY <2>1, <2>3
<1>10. PageInv'
  BY <1>1, <1>4, <1>9 DEF PageInv
<1> QED
  BY <1>1, <1>10 DEF CallInv, StillBookReturned, MoveCostsOne

(* A page is collected: the ads that were ahead on it are there twice.     *)
LEMMA NextPageKeeps ==
    ASSUME TypeOK, CallInv, pc = "request", NEW ads, ads = Content(book, page),
           NextPage(ads), UNCHANGED <<book, callee, history>>
    PROVE  CallInv'
<1>1. /\ out' = out \o Collected(ads) /\ page' = page + 1 /\ pc' = "request"
      /\ book' = book /\ fun' = fun /\ moves' = moves /\ always' = always
  BY DEF NextPage, callee, history
<1>2. PICK o \in Nat : o = Offset
  BY ContentIsPage
<1>3. PICK n \in Nat \ {0} : n = PageSize
  BY NumberAssumption
<1>4. /\ IsPage(book, o, n, ads) /\ Offset' = o + n
  BY <1>1, <1>2, <1>3, ContentIsPage DEF Offset
<1>5. /\ book \in Seq(Ad) /\ IsInjective(book) /\ out \in Seq(Ad)
      /\ Len(out) \in Nat /\ moves \in Nat
      /\ IsFiniteSet(ToSet(out)) /\ Cardinality(ToSet(out)) \in Nat
      /\ Cardinality(Missed) \in Nat /\ Cardinality(Ahead) \in Nat
      /\ IsFiniteSet(Missed)
  BY Finite
<1>6. /\ ads \in Seq(Ad) /\ IsInjective(ads)
      /\ Upto(book, o + n) \subseteq Upto(book, o) \cup ToSet(ads)
      /\ ToSet(ads) \subseteq Beyond(book, o)
      /\ ToSet(ads) \cap Beyond(book, o + n) = {}
      /\ Beyond(book, o + n) \subseteq Beyond(book, o)
  BY <1>4, <1>5, PageFacts
<1>7. PICK d : d = Collected(ads)
  OBVIOUS
<1>8. d \in Seq(Ad) /\ IsInjective(d) /\ ToSet(d) = ToSet(ads) \cap Wanted
  BY <1>6, <1>7, CollectedFacts
<1>9. /\ IsFiniteSet(ToSet(d)) /\ Cardinality(ToSet(d)) = Len(d) /\ Len(d) \in Nat
  BY <1>8, InjectiveLen, LenProperties
<1>10. /\ out' \in Seq(Ad) /\ Len(out') = Len(out) + Len(d)
       /\ ToSet(out') = ToSet(out) \cup ToSet(d)
  <2>1. PICK r : r = Joined(out, d)
    OBVIOUS
  <2>2. /\ r \in Seq(Ad) /\ Len(r) = Len(out) + Len(d)
        /\ ToSet(r) = ToSet(out) \cup ToSet(d)
    <3>1. out \in Seq(Ad) /\ d \in Seq(Ad)
      BY <1>5, <1>8
    <3>2. /\ Joined(out, d) \in Seq(Ad) /\ Len(Joined(out, d)) = Len(out) + Len(d)
          /\ ToSet(Joined(out, d)) = ToSet(out) \cup ToSet(d)
      BY <3>1, ConcatSet
    <3> QED
      BY <2>1, <3>2
  <2> QED
    BY <1>1, <1>7, <2>1, <2>2 DEF Joined
<1>11. PICK a, b, c, e : /\ a = ToSet(out) /\ e = ToSet(d)
                         /\ b = Beyond(book, o) /\ c = Beyond(book, o + n)
  OBVIOUS
<1>12. /\ e \subseteq b /\ c \subseteq b /\ e \cap c = {}
       /\ ToSet(out') = a \cup e /\ Ahead = a \cap b /\ Ahead' = (a \cup e) \cap c
  BY <1>1, <1>2, <1>4, <1>6, <1>8, <1>10, <1>11 DEF Ahead
<1>13. /\ IsFiniteSet(a) /\ Cardinality(a) \in Nat
       /\ IsFiniteSet(e) /\ Cardinality(e) = Len(d)
  BY <1>5, <1>9, <1>11
<1>14. /\ IsFiniteSet(a \cup e) /\ Cardinality(a \cup e) \in Nat
       /\ IsFiniteSet(Ahead') /\ Cardinality(Ahead') \in Nat
  BY <1>12, <1>13, FS_Union, FS_Intersection, FS_CardinalityType
<1>15. Len(d) + Cardinality(Ahead') + Cardinality(a)
         <= Cardinality(a \cup e) + Cardinality(Ahead)
  BY <1>12, <1>13, Passed
<1>16. Len(out) + Cardinality(Ahead) <= Cardinality(a) + moves
  BY <1>11 DEF CallInv, PageInv
<1>17. Len(out') + Cardinality(Ahead') <= Cardinality(ToSet(out')) + moves'
  <2>1. PICK u \in Nat, v \in Nat, x \in Nat, y \in Nat, z \in Nat, w \in Nat :
               /\ u = Cardinality(a \cup e) /\ v = Cardinality(a)
               /\ x = Cardinality(Ahead) /\ y = Cardinality(Ahead')
               /\ z = Len(out) /\ w = Len(d)
    BY <1>5, <1>9, <1>13, <1>14
  <2>2. w + y + v <= u + x /\ z + x <= v + moves /\ moves \in Nat
    BY <1>5, <1>15, <1>16, <2>1
  <2>3. z + w + y <= u + moves
    BY <2>2
  <2> QED
    BY <1>1, <1>10, <1>12, <2>1, <2>3
<1>18. Cardinality(Missed') <= moves'
  <2>1. Missed' \subseteq Missed
    BY <1>1, <1>2, <1>4, <1>6, <1>8, <1>10 DEF Missed, Wanted
  <2>2. IsFiniteSet(Missed') /\ Cardinality(Missed') <= Cardinality(Missed)
    BY <1>5, <2>1, FS_Subset
  <2>3. Cardinality(Missed') \in Nat
    BY <2>2, FS_CardinalityType
  <2>4. Cardinality(Missed) <= moves
    BY DEF CallInv, PageInv
  <2> QED
    BY <1>1, <1>5, <2>2, <2>3, <2>4
<1>19. ASSUME moves = 0 PROVE out' = Collected(First(book, o + n))'
  <2>1. out = Collected(First(book, o))
    BY <1>2, <1>19 DEF CallInv, PageInv
  <2>2. PICK f : f = First(book, o) /\ f \in Seq(Ad) /\ Joined(f, ads) = First(book, o + n)
    <3>1. book \in Seq(Ad) /\ IsPage(book, o, n, ads)
      BY <1>4, <1>5
    <3>2. First(book, o) \in Seq(Ad) /\ Joined(First(book, o), ads) = First(book, o + n)
      BY <3>1, FirstFacts
    <3> QED
      BY <3>2
  <2>3. Collected(f \o ads) = Collected(f) \o Collected(ads)
    BY <1>6, <2>2, CollectedFacts
  <2>4. out' = Collected(First(book, o + n))
    BY <1>1, <2>1, <2>2, <2>3 DEF Joined
  <2> QED
    BY <1>1, <2>4 DEF Collected
<1>20. PageInv'
  <2>1. always' \subseteq ToSet(book')
    BY <1>1 DEF CallInv, PageInv
  <2> QED
    BY <1>1, <1>4, <1>17, <1>18, <1>19, <2>1 DEF PageInv
<1> QED
  BY <1>1, <1>20 DEF CallInv, StillBookReturned, MoveCostsOne

(* An empty page: all places of the book have been read.                   *)
LEMMA LastPageKeeps ==
    ASSUME TypeOK, CallInv, pc = "request", <<>> = Content(book, page),
           LastPage, UNCHANGED <<book, callee, history>>
    PROVE  CallInv'
<1>1. /\ pc' \in {"failed", "done"} /\ out' = out
      /\ book' = book /\ fun' = fun /\ moves' = moves /\ always' = always
  BY DEF LastPage, callee, history
<1>2. PICK o \in Nat : o = Offset
  BY ContentIsPage
<1>3. PICK n \in Nat \ {0} : n = PageSize
  BY NumberAssumption
<1>4. PICK c : c = <<>> /\ IsPage(book, o, n, c)
  BY <1>2, <1>3, ContentIsPage
<1>5. /\ book \in Seq(Ad) /\ IsInjective(book)
      /\ Len(out) \in Nat /\ moves \in Nat
      /\ Cardinality(ToSet(out)) \in Nat /\ Cardinality(Ahead) \in Nat
  BY Finite
<1>6. Upto(book, o) = ToSet(book) /\ First(book, o) = book
  <2>1. (c = <<>>) => Upto(book, o) = ToSet(book)
    BY <1>4, <1>5, PageFacts
  <2>2. (c = <<>>) => First(book, o) = book
    BY <1>4, <1>5, FirstFacts
  <2> QED
    BY <1>4, <2>1, <2>2
<1>7. /\ always \subseteq ToSet(book)
      /\ Cardinality(Missed) <= moves
      /\ Len(out) + Cardinality(Ahead) <= Cardinality(ToSet(out)) + moves
      /\ moves = 0 => out = Collected(First(book, o))
  BY <1>2 DEF CallInv, PageInv
<1>8. StillBookReturned'
  BY <1>1, <1>6, <1>7 DEF StillBookReturned, Collected
<1>9. Missed = (always \cap Wanted) \ ToSet(out)
  BY <1>2, <1>6, <1>7 DEF Missed
<1>10. (IF fun = "GetAds" THEN always ELSE always \cap Mine) = always \cap Wanted
  BY DEF Wanted, TypeOK
<1>11. Len(out) <= Cardinality(ToSet(out)) + moves
  BY <1>5, <1>7
<1>12. MoveCostsOne'
  BY <1>1, <1>7, <1>9, <1>10, <1>11 DEF MoveCostsOne
<1> QED
  BY <1>1, <1>8, <1>12 DEF CallInv, PageInv

(* Nothing is collected.                                                   *)
LEMMA FailKeeps ==
    ASSUME CallInv, Fail PROVE CallInv'
BY DEF Fail, CallInv, PageInv, StillBookReturned, MoveCostsOne

LEMMA SameKeeps ==
    ASSUME CallInv, UNCHANGED <<book, fun, pc, page, out, history>> PROVE CallInv'
BY DEF history, CallInv, PageInv, StillBookReturned, MoveCostsOne, Missed, Ahead, Offset,
       Wanted, Collected

LEMMA CallNext == TypeOK /\ CallInv /\ [Next]_vars => CallInv'
<1> SUFFICES ASSUME TypeOK, CallInv, [Next]_vars PROVE CallInv'
  OBVIOUS
<1>1. CASE Call
  BY <1>1, CallKeeps
<1>2. CASE Move
  BY <1>2, MoveKeeps
<1>3. CASE Answer
  <2>1. PICK ads : ads = Content(book, page)
    OBVIOUS
  <2>2. /\ pc = "request" /\ UNCHANGED <<book, callee, history>>
        /\ IF ads = <<>> THEN LastPage ELSE NextPage(ads)
    BY <1>3, <2>1 DEF Answer
  <2>3. CASE ads = <<>>
    <3>1. <<>> = Content(book, page) /\ LastPage
      BY <2>1, <2>2, <2>3
    <3> QED
      BY <2>2, <3>1, LastPageKeeps
  <2>4. CASE ads # <<>>
    <3>1. NextPage(ads)
      BY <2>2, <2>4
    <3> QED
      BY <2>1, <2>2, <3>1, NextPageKeeps
  <2> QED
    BY <2>3, <2>4
<1>4. ASSUME Retry, UNCHANGED <<book, callee, history>> PROVE CallInv'
  <2>1. CASE attempt < MaxRetries
    BY <1>4, <2>1, SameKeeps DEF Retry, callee
  <2> QED
    BY <1>4, <2>1, FailKeeps DEF Retry
<1>5. CASE AttemptFails
  BY <1>4, <1>5 DEF AttemptFails
<1>6. CASE BodyFails
  <2>1. CASE pc' = "panicked"
    BY <2>1 DEF CallInv, PageInv, StillBookReturned, MoveCostsOne
  <2> QED
    BY <1>4, <1>6, <2>1 DEF BodyFails
<1>7. CASE ErrorAnswer
  BY <1>7, FailKeeps DEF ErrorAnswer
<1>8. CASE UNCHANGED vars
  BY <1>8, SameKeeps DEF vars, call, callee
<1> QED
  BY <1>1, <1>2, <1>3, <1>5, <1>6, <1>7, <1>8 DEF Next, Step

LEMMA CallInvariant == Spec => [](TypeOK /\ CallInv)
<1>1. Init => TypeOK /\ CallInv
  BY TypeInit DEF Init, CallInv, PageInv, StillBookReturned, MoveCostsOne
<1>2. (TypeOK /\ CallInv) /\ [Next]_vars => (TypeOK /\ CallInv)'
  BY TypeNext, CallNext
<1> QED
  BY <1>1, <1>2, PTL DEF Spec

(* Pages neither overlap nor leave gaps: a book that stands still is       *)
(* returned as it is, or the ads of the name in it, whatever failed.       *)
THEOREM StillBookIsReturned == Spec => []StillBookReturned
<1>1. TypeOK /\ CallInv => StillBookReturned
  BY DEF CallInv
<1> QED
  BY <1>1, CallInvariant, PTL

(* Every move of the book costs a call one ad of either kind at most.      *)
THEOREM MovesCostOne == Spec => []MoveCostsOne
<1>1. TypeOK /\ CallInv => MoveCostsOne
  BY DEF CallInv
<1> QED
  BY <1>1, CallInvariant, PTL
=============================================================================
