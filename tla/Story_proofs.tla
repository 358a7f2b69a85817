---------------------------- MODULE Story_proofs ----------------------------
(***************************************************************************)
(* What the operators behind the studio return, for every story, package,  *)
(* edit and answer of a model.  Sequences are the data here; a fact about  *)
(* all places of one is shown from the smallest at which it would fail.    *)
(***************************************************************************)
EXTENDS Proposals, FiniteSetTheorems, TLAPS

-----------------------------------------------------------------------------
(* Natural numbers. *)

\* A non-empty set of natural numbers has a least one: the form of induction used below.
LEMMA Least ==
  ASSUME NEW T \in SUBSET Nat, T # {}
  PROVE  \E m \in T : \A k \in T : m <= k
<1> DEFINE R == {ss \in Nat \X Nat : ss[1] < ss[2]}
<1>1. IsWellFoundedOn(R, Nat)
  BY NatLessThanWellFounded DEF OpToRel
<1>2. \E m \in T : \A k \in T : <<k, m>> \notin R
  <2> HIDE DEF R
  <2> QED
    BY <1>1, WFMin
<1>3. \A k, m \in Nat : k < m => <<k, m>> \in R
  OBVIOUS
<1>4. \A k, m \in Nat : <<k, m>> \notin R => m <= k
  BY <1>3
<1> HIDE DEF R
<1> QED
  BY <1>2, <1>4

\* And a bounded one a greatest.
LEMMA Greatest ==
  ASSUME NEW T \in SUBSET Nat, T # {}, NEW n \in Nat, \A k \in T : k <= n
  PROVE  \E m \in T : \A k \in T : k <= m
<1> DEFINE U == {n - k : k \in T}
<1>1. PICK m \in U : \A k \in U : m <= k
  <2>1. U \in SUBSET Nat
    OBVIOUS
  <2>2. U # {}
    OBVIOUS
  <2> HIDE DEF U
  <2> QED
    BY <2>1, <2>2, Least
<1>2. PICK t \in T : m = n - t
  BY <1>1
<1>3. \A k \in T : n - t <= n - k
  BY <1>1, <1>2
<1> QED
  BY <1>2, <1>3

\* The maximum of a set of natural numbers that has one.
LEMMA MaxIs ==
  ASSUME NEW T \in SUBSET Nat, NEW m \in T, \A k \in T : k <= m
  PROVE  Max(T) = m
<1>1. \A x \in T : (\A y \in T : x >= y) => x = m
  OBVIOUS
<1>2. \A y \in T : m >= y
  OBVIOUS
<1> QED
  BY <1>1, <1>2 DEF Max

\* The least of a set of numbers.
LEMMA MinIs ==
  ASSUME NEW T \in SUBSET Nat, NEW m \in T, \A k \in T : m <= k
  PROVE  Min(T) = m
<1>1. \A x \in T : (\A y \in T : x <= y) => x = m
  OBVIOUS
<1> QED
  BY <1>1 DEF Min

\* Some of the places of a sequence of length n.
Places(P, n) == \A i \in P : i \in Nat /\ i >= 1 /\ i <= n

\* They are finitely many.
LEMMA PlacesAreFinite ==
  ASSUME NEW n \in Nat, NEW P, Places(P, n)
  PROVE  /\ IsFiniteSet(P) /\ Cardinality(P) \in Nat /\ Cardinality(P) <= n
<1>1. IsFiniteSet(1..n) /\ Cardinality(1..n) = n
  BY FS_Interval
<1>2. P \subseteq 1..n
  BY DEF Places
<1> QED
  BY <1>1, <1>2, FS_Subset, FS_CardinalityType

-----------------------------------------------------------------------------
(* Sequences. *)

\* A sequence of elements of a set is one, and of no other elements.
LEMMA IsSeqOf ==
  ASSUME NEW S, NEW s \in Seq(S)
  PROVE  IsSeq(s) /\ ToSet(s) \subseteq S
<1>1. Len(s) \in Nat /\ DOMAIN s = 1..Len(s) /\ s \in [1..Len(s) -> S]
  OBVIOUS
<1>2. s \in [1..Len(s) -> ToSet(s)]
  BY <1>1 DEF ToSet
<1>3. s \in Seq(ToSet(s))
  BY <1>1, <1>2
<1> QED
  BY <1>1, <1>3 DEF IsSeq, ToSet

\* What a sequence is made of.
LEMMA SeqFacts ==
  ASSUME NEW s, IsSeq(s)
  PROVE  /\ Len(s) \in Nat
         /\ DOMAIN s = 1..Len(s)
         /\ s = [i \in 1..Len(s) |-> s[i]]
         /\ \A i \in 1..Len(s) : s[i] \in ToSet(s)
         /\ \A x \in ToSet(s) : \E i \in 1..Len(s) : s[i] = x
BY DEF IsSeq, ToSet

\* A function on the first natural numbers is a sequence.
LEMMA SeqMade ==
  ASSUME NEW n \in Nat, NEW s, s = [i \in 1..n |-> s[i]]
  PROVE  IsSeq(s) /\ Len(s) = n
<1>1. s \in [1..n -> ToSet(s)]
  BY DEF ToSet
<1>2. s \in Seq(ToSet(s))
  BY <1>1
<1> QED
  BY <1>1, <1>2 DEF IsSeq

\* Two sequences of one length that agree everywhere are one.
LEMMA SeqSame ==
  ASSUME NEW s, NEW t, IsSeq(s), IsSeq(t), Len(s) = Len(t), \A i \in 1..Len(s) : s[i] = t[i]
  PROVE  s = t
BY SeqFacts

\* The empty sequence.
LEMMA EmptyIsSeq == IsSeq(<<>>) /\ Len(<<>>) = 0 /\ ToSet(<<>>) = {}
BY DEF IsSeq, ToSet

\* One sequence after another.
LEMMA Concat ==
  ASSUME NEW s, NEW t, IsSeq(s), IsSeq(t)
  PROVE  /\ IsSeq(s \o t)
         /\ Len(s \o t) = Len(s) + Len(t)
         /\ \A i \in 1..Len(s) : (s \o t)[i] = s[i]
         /\ \A i \in 1..Len(t) : (s \o t)[Len(s) + i] = t[i]
         /\ ToSet(s \o t) = ToSet(s) \cup ToSet(t)
<1> DEFINE S == ToSet(s) \cup ToSet(t)
<1>1. s \in Seq(S) /\ t \in Seq(S)
  BY DEF IsSeq
<1>2. s \o t \in Seq(S) /\ Len(s \o t) = Len(s) + Len(t) /\ Len(s) \in Nat /\ Len(t) \in Nat
  BY <1>1
<1>3. \A i \in 1..Len(s) : (s \o t)[i] = s[i]
  BY <1>1
<1>4. \A i \in 1..Len(t) : (s \o t)[Len(s) + i] = t[i]
  BY <1>1
<1>5. ToSet(s) \subseteq ToSet(s \o t)
  BY <1>1, <1>2, <1>3 DEF ToSet
<1>6. ToSet(t) \subseteq ToSet(s \o t)
  <2>1. ASSUME NEW i \in 1..Len(t) PROVE t[i] \in ToSet(s \o t)
    <3>1. Len(s) + i \in DOMAIN (s \o t)
      BY <1>2
    <3> QED
      BY <3>1, <1>4 DEF ToSet
  <2>2. DOMAIN t = 1..Len(t)
    BY <1>1
  <2> QED
    BY <2>1, <2>2 DEF ToSet
<1> QED
  BY <1>2, <1>3, <1>4, <1>5, <1>6, IsSeqOf

\* One element more.
LEMMA Appended ==
  ASSUME NEW s, NEW x, IsSeq(s)
  PROVE  /\ IsSeq(Append(s, x))
         /\ Len(Append(s, x)) = Len(s) + 1
         /\ \A i \in 1..Len(s) : Append(s, x)[i] = s[i]
         /\ Append(s, x)[Len(s) + 1] = x
         /\ ToSet(Append(s, x)) = ToSet(s) \cup {x}
<1> DEFINE S == ToSet(s) \cup {x}
<1>1. s \in Seq(S) /\ x \in S
  BY DEF IsSeq
<1>2. Append(s, x) \in Seq(S) /\ Len(Append(s, x)) = Len(s) + 1 /\ Len(s) \in Nat
  BY <1>1
<1>3. \A i \in 1..Len(s) : Append(s, x)[i] = s[i]
  BY <1>1
<1>4. Append(s, x)[Len(s) + 1] = x
  BY <1>1
<1>5. S \subseteq ToSet(Append(s, x))
  BY <1>1, <1>2, <1>3, <1>4 DEF ToSet
<1> QED
  BY <1>2, <1>3, <1>4, <1>5, IsSeqOf

\* One element alone.
LEMMA Single ==
  ASSUME NEW x
  PROVE  IsSeq(<<x>>) /\ Len(<<x>>) = 1 /\ <<x>>[1] = x /\ ToSet(<<x>>) = {x}
BY DEF IsSeq, ToSet

-----------------------------------------------------------------------------
(* Some of the elements of a sequence. *)

\* How many places of P there are up to i.
Rank(P, i) == Cardinality({j \in P : j <= i})

\* Functions that go through a set of places in their order.
Goes(g, n, P) ==
  /\ g \in [1..n -> P]
  /\ \A k, l \in 1..n : k < l => g[k] < g[l]
  /\ \A i \in P : \E k \in 1..n : g[k] = i

\* The later a place, the greater its rank.
LEMMA RankGrows ==
  ASSUME NEW n \in Nat, NEW P, Places(P, n), NEW i \in P
  PROVE  /\ Rank(P, i) \in 1..Cardinality(P)
         /\ \A j \in P : i < j => Rank(P, i) < Rank(P, j)
<1>0. \A k \in P : k \in Nat /\ k >= 1 /\ k <= n
  BY DEF Places
<1> DEFINE Upto(j) == {l \in P : l <= j}
<1>1. IsFiniteSet(P) /\ Cardinality(P) \in Nat
  BY PlacesAreFinite
<1>2. \A j : IsFiniteSet(Upto(j)) /\ Cardinality(Upto(j)) \in Nat /\ Cardinality(Upto(j)) <= Cardinality(P)
  <2> SUFFICES ASSUME NEW j PROVE IsFiniteSet(Upto(j)) /\ Cardinality(Upto(j)) \in Nat /\ Cardinality(Upto(j)) <= Cardinality(P)
    OBVIOUS
  <2>1. Upto(j) \in SUBSET P
    OBVIOUS
  <2> HIDE DEF Upto
  <2> QED
    BY <1>1, <2>1, FS_Subset, FS_CardinalityType
<1>3. Rank(P, i) \in 1..Cardinality(P)
  <2>1. i \in Upto(i)
    BY <1>0
  <2>2. Cardinality(Upto(i)) # 0
    <3> HIDE DEF Upto
    <3> QED
      BY <1>2, <2>1, FS_EmptySet
  <2> QED
    BY <1>1, <1>2, <2>2 DEF Rank
<1>4. ASSUME NEW j \in P, i < j PROVE Rank(P, i) < Rank(P, j)
  <2>1. Upto(i) \in SUBSET Upto(j) /\ j \in Upto(j) /\ j \notin Upto(i)
    BY <1>0, <1>4
  <2>2. Cardinality(Upto(i)) < Cardinality(Upto(j))
    <3> HIDE DEF Upto
    <3>1. Cardinality(Upto(i)) <= Cardinality(Upto(j)) /\ Cardinality(Upto(i)) # Cardinality(Upto(j))
      BY <1>2, <2>1, FS_Subset
    <3> QED
      BY <1>2, <3>1
  <2> QED
    BY <2>2 DEF Rank
<1> QED
  BY <1>3, <1>4

\* Every rank up to the number of places is that of a place.
LEMMA RankReached ==
  ASSUME NEW n \in Nat, NEW P, Places(P, n), NEW k \in 1..Cardinality(P)
  PROVE  \E i \in P : Rank(P, i) = k
<1>0. \A i \in P : i \in Nat /\ i >= 1 /\ i <= n
  BY DEF Places
<1> DEFINE Missing == {l \in Nat : l \in 1..Cardinality(P) /\ \A i \in P : Rank(P, i) # l}
<1> SUFFICES ASSUME Missing # {} PROVE FALSE
  OBVIOUS
<1>1. PICK l \in Missing : \A m \in Missing : l <= m
  <2>1. Missing \in SUBSET Nat
    OBVIOUS
  <2> HIDE DEF Missing
  <2> QED
    BY <2>1, Least
<1>2. IsFiniteSet(P) /\ Cardinality(P) \in Nat
  BY PlacesAreFinite
<1> DEFINE Below == {i \in P : Rank(P, i) < l}
           Above == P \ Below
<1>3. Above # {}
  <2> SUFFICES ASSUME Above = {} PROVE FALSE
    OBVIOUS
  <2>1. \A i \in P : Rank(P, i) < l
    OBVIOUS
  <2>2. P # {}
    BY <1>1, <1>2, FS_EmptySet
  <2>3. PICK top \in P : \A i \in P : i <= top
    BY <1>0, <2>2, Greatest
  <2>4. {j \in P : j <= top} = P
    BY <2>3
  <2>5. Rank(P, top) = Cardinality(P)
    BY <2>4 DEF Rank
  <2> QED
    BY <1>1, <1>2, <2>1, <2>5
<1>4. PICK i \in Above : \A j \in Above : i <= j
  <2>1. Above \in SUBSET Nat
    BY <1>0
  <2> HIDE DEF Above
  <2> QED
    BY <1>3, <2>1, Least
<1>5. Rank(P, i) \in Nat /\ Rank(P, i) > l
  <2>1. Rank(P, i) \in 1..Cardinality(P)
    BY <1>4, RankGrows
  <2> QED
    BY <1>1, <1>2, <1>4, <2>1
<1>6. {j \in P : j <= i} \ {i} = {j \in P : j < i}
  BY <1>0, <1>4
<1>7. Cardinality({j \in P : j < i}) = Rank(P, i) - 1
  <2> DEFINE U == {j \in P : j <= i}
  <2>1. U \in SUBSET P /\ i \in U
    BY <1>4
  <2>2. Cardinality(U \ {i}) = Cardinality(U) - 1
    <3> HIDE DEF U
    <3> QED
      BY <2>1, <1>2, FS_Subset, FS_RemoveElement
  <2> QED
    BY <2>2, <1>6 DEF Rank
<1>8. CASE \E j \in P : j < i
  <2> DEFINE U == {j \in P : j < i}
  <2>1. PICK j \in U : \A m \in U : m <= j
    <3>1. U \in SUBSET Nat /\ U # {} /\ \A m \in U : m <= n
      BY <1>0, <1>8
    <3> HIDE DEF U
    <3> QED
      BY <3>1, Greatest
  <2>2. {m \in P : m <= j} = U
    BY <1>0, <2>1
  <2>3. Rank(P, j) = Rank(P, i) - 1
    BY <2>2, <1>7 DEF Rank
  <2>4. j \notin Above
    BY <1>0, <1>4, <2>1
  <2>5. Rank(P, j) < l
    BY <2>1, <2>4
  <2> QED
    BY <1>1, <1>5, <2>3, <2>5
<1>9. CASE ~ \E j \in P : j < i
  <2>1. {j \in P : j < i} = {}
    BY <1>9
  <2>2. Rank(P, i) - 1 = 0
    BY <1>7, <2>1, FS_EmptySet
  <2> QED
    BY <1>1, <1>5, <2>2
<1> QED
  BY <1>8, <1>9

\* A function that goes through a set of places tells their ranks, and how many they are.
LEMMA GoesByRank ==
  ASSUME NEW n \in Nat, NEW P, Places(P, n), NEW m \in Nat, NEW g, Goes(g, m, P)
  PROVE  Cardinality(P) = m /\ \A k \in 1..m : Rank(P, g[k]) = k
<1>0. \A i \in P : i \in Nat /\ i >= 1 /\ i <= n
  BY DEF Places
<1>1. IsFiniteSet(P)
  BY PlacesAreFinite
<1>2. ASSUME NEW k \in 0..m, NEW Q, Q = {g[l] : l \in 1..k} PROVE Cardinality(Q) = k
  <2> DEFINE h == [l \in 1..k |-> g[l]]
  <2>1. h \in [1..k -> Q] /\ \A l, o \in 1..k : h[l] = h[o] => l = o
    BY <1>0, <1>2 DEF Goes
  <2>2. \A x \in Q : \E l \in 1..k : h[l] = x
    BY <1>2
  <2>3. h \in Bijection(1..k, Q)
    <3> HIDE DEF h
    <3> QED
      BY <2>1, <2>2, SMTT(30) DEF Bijection, Injection, Surjection, IsInjective
  <2>4. IsFiniteSet(1..k) /\ Cardinality(1..k) = k
    BY FS_Interval
  <2> QED
    BY <2>3, <2>4, FS_Bijection DEF ExistsBijection
<1>3. P = {g[l] : l \in 1..m}
  BY DEF Goes
<1>4. ASSUME NEW k \in 1..m PROVE {j \in P : j <= g[k]} = {g[l] : l \in 1..k}
  <2>1. ASSUME NEW l \in 1..k PROVE g[l] \in P /\ g[l] <= g[k]
    <3>1. g[l] \in P /\ g[k] \in P /\ (l < k => g[l] < g[k])
      BY DEF Goes
    <3> QED
      BY <1>0, <3>1
  <2>2. ASSUME NEW j \in P, j <= g[k] PROVE j \in {g[l] : l \in 1..k}
    <3>1. PICK l \in 1..m : g[l] = j
      BY DEF Goes
    <3>2. ~(k < l)
      BY <1>0, <2>2, <3>1 DEF Goes
    <3> QED
      BY <3>1, <3>2
  <2> QED
    BY <2>1, <2>2
<1>5. Cardinality(P) = m
  BY <1>2, <1>3
<1> QED
  BY <1>2, <1>4, <1>5 DEF Rank

\* The elements picked are those at the places, in their order.
LEMMA PickedGoes ==
  ASSUME NEW s, NEW n \in Nat, NEW P, Places(P, n)
  PROVE  \E g : /\ Goes(g, Cardinality(P), P)
                /\ Picked(s, P) = [k \in 1..Cardinality(P) |-> s[g[k]]]
<1>0. \A i \in P : i \in Nat /\ i >= 1 /\ i <= n
  BY DEF Places
<1> DEFINE g == [k \in 1..Cardinality(P) |-> CHOOSE i \in P : Rank(P, i) = k]
<1>1. \A k \in 1..Cardinality(P) : g[k] \in P /\ Rank(P, g[k]) = k
  BY RankReached
<1>2. g \in [1..Cardinality(P) -> P]
  BY <1>1
<1>3. Picked(s, P) = [k \in 1..Cardinality(P) |-> s[g[k]]]
  BY DEF Picked, Rank
<1>4. Cardinality(P) \in Nat
  BY PlacesAreFinite
<1> HIDE DEF g
<1>5. ASSUME NEW k \in 1..Cardinality(P), NEW l \in 1..Cardinality(P), k < l PROVE g[k] < g[l]
  <2>1. g[k] # g[l]
    BY <1>1, <1>5
  <2>2. ~(g[l] < g[k])
    BY <1>0, <1>1, <1>4, <1>5, RankGrows
  <2> QED
    BY <1>0, <1>1, <2>1, <2>2
<1>6. ASSUME NEW i \in P PROVE \E k \in 1..Cardinality(P) : g[k] = i
  <2>1. Rank(P, i) \in 1..Cardinality(P)
    BY RankGrows
  <2>2. g[Rank(P, i)] \in P /\ Rank(P, g[Rank(P, i)]) = Rank(P, i)
    BY <1>1, <2>1
  <2>3. ~(g[Rank(P, i)] < i) /\ ~(i < g[Rank(P, i)])
    BY <1>0, <2>1, <2>2, <1>4, RankGrows
  <2>4. g[Rank(P, i)] = i
    BY <1>0, <2>2, <2>3
  <2> QED
    BY <2>1, <2>4
<1> QED
  BY <1>2, <1>3, <1>5, <1>6 DEF Goes

\* A sequence of m elements shows those of another at the places a function goes to.
Shows(t, s, g, m) == IsSeq(t) /\ Len(t) = m /\ \A k \in 1..m : t[k] = s[g[k]]

\* And whatever function goes through the places shows them.
LEMMA PickedBy ==
  ASSUME NEW s, NEW n \in Nat, NEW P, Places(P, n), NEW m \in Nat, NEW g, Goes(g, m, P)
  PROVE  Shows(Picked(s, P), s, g, m)
<1>0. \A i \in P : i \in Nat /\ i >= 1 /\ i <= n
  BY DEF Places
<1>1. PICK h : Goes(h, Cardinality(P), P) /\ Picked(s, P) = [k \in 1..Cardinality(P) |-> s[h[k]]]
  BY PickedGoes
<1>2. Cardinality(P) = m /\ \A k \in 1..m : Rank(P, g[k]) = k
  BY GoesByRank
<1>3. \A k \in 1..m : Rank(P, h[k]) = k
  BY <1>1, <1>2, GoesByRank
<1>4. ASSUME NEW k \in 1..m PROVE h[k] = g[k]
  <2>1. h[k] \in P /\ g[k] \in P
    BY <1>1, <1>2 DEF Goes
  <2>2. ~(h[k] < g[k]) /\ ~(g[k] < h[k])
    BY <1>0, <1>2, <1>3, <2>1, RankGrows
  <2> QED
    BY <1>0, <2>1, <2>2
<1>5. Picked(s, P) = [k \in 1..m |-> s[h[k]]]
  BY <1>1, <1>2
<1>6. \A k \in 1..m : Picked(s, P)[k] = s[g[k]]
  BY <1>4, <1>5
<1>7. Picked(s, P) = [k \in 1..m |-> Picked(s, P)[k]]
  BY <1>5
<1> DEFINE t == Picked(s, P)
<1>8. m \in Nat /\ t = [k \in 1..m |-> t[k]]
  BY <1>7
<1> HIDE DEF t
<1>9. IsSeq(t) /\ Len(t) = m
  BY <1>8, SeqMade
<1> QED
  BY <1>6, <1>9 DEF t, Shows

\* What is picked is a sequence, shown by a function that goes through the places.
LEMMA PickedIs ==
  ASSUME NEW s, IsSeq(s), NEW P, P \subseteq DOMAIN s
  PROVE  /\ IsSeq(Picked(s, P))
         /\ Len(Picked(s, P)) = Cardinality(P)
         /\ Cardinality(P) \in Nat /\ Cardinality(P) <= Len(s)
         /\ \E g : /\ Goes(g, Cardinality(P), P)
                   /\ \A k \in 1..Cardinality(P) : Picked(s, P)[k] = s[g[k]] /\ g[k] \in 1..Len(s)
<1>1. Len(s) \in Nat /\ DOMAIN s = 1..Len(s)
  BY SeqFacts
<1>2. Places(P, Len(s))
  BY <1>1 DEF Places
<1>3. PICK g : /\ Goes(g, Cardinality(P), P)
               /\ Picked(s, P) = [k \in 1..Cardinality(P) |-> s[g[k]]]
  BY <1>1, <1>2, PickedGoes, SMTT(30)
<1>4. Cardinality(P) \in Nat /\ Cardinality(P) <= Len(s)
  BY <1>1, <1>2, PlacesAreFinite
<1>5. \A k \in 1..Cardinality(P) : Picked(s, P)[k] = s[g[k]] /\ g[k] \in 1..Len(s)
  BY <1>1, <1>3 DEF Goes
<1>6. Picked(s, P) = [k \in 1..Cardinality(P) |-> Picked(s, P)[k]]
  BY <1>3
<1>7. IsSeq(Picked(s, P)) /\ Len(Picked(s, P)) = Cardinality(P)
  <2> DEFINE t == Picked(s, P)
             n == Cardinality(P)
  <2>1. n \in Nat /\ t = [k \in 1..n |-> t[k]]
    BY <1>4, <1>6
  <2> HIDE DEF t, n
  <2>2. IsSeq(t) /\ Len(t) = n
    BY <2>1, SeqMade
  <2> QED
    BY <2>2 DEF t, n
<1> QED
  BY <1>3, <1>4, <1>5, <1>7

\* It has the elements at the places and no others.
LEMMA PickedSet ==
  ASSUME NEW s, IsSeq(s), NEW P, P \subseteq DOMAIN s
  PROVE  /\ ToSet(Picked(s, P)) = {s[i] : i \in P}
         /\ ToSet(Picked(s, P)) \subseteq ToSet(s)
         /\ Ids(Picked(s, P)) = {s[i].id : i \in P}
<1> DEFINE t == Picked(s, P)
           n == Cardinality(P)
<1>1. PICK g : Goes(g, n, P) /\ \A k \in 1..n : t[k] = s[g[k]]
  BY PickedIs
<1>2. IsSeq(t) /\ Len(t) = n
  BY PickedIs
<1> HIDE DEF t, n
<1>3. DOMAIN t = 1..n
  BY <1>2, SeqFacts
<1>4. \A k \in 1..n : g[k] \in P
  BY <1>1 DEF Goes
<1>5. \A i \in P : \E k \in 1..n : g[k] = i
  BY <1>1 DEF Goes
<1>6. ToSet(t) = {s[i] : i \in P}
  BY <1>1, <1>3, <1>4, <1>5 DEF ToSet
<1>7. Ids(t) = {s[i].id : i \in P}
  BY <1>1, <1>3, <1>4, <1>5 DEF Ids
<1>8. {s[i] : i \in P} \subseteq ToSet(s)
  BY DEF ToSet
<1> QED
  BY <1>6, <1>7, <1>8 DEF t

\* Ids that differ still do.
LEMMA PickedDistinct ==
  ASSUME NEW s, IsSeq(s), DistinctIds(s), NEW P, P \subseteq DOMAIN s
  PROVE  DistinctIds(Picked(s, P))
<1> DEFINE t == Picked(s, P)
           n == Cardinality(P)
<1>1. PICK g : Goes(g, n, P) /\ \A k \in 1..n : t[k] = s[g[k]] /\ g[k] \in 1..Len(s)
  BY PickedIs
<1>2. IsSeq(t) /\ Len(t) = n
  BY PickedIs
<1> HIDE DEF t, n
<1>3. DOMAIN t = 1..n /\ n \in Nat /\ DOMAIN s = 1..Len(s) /\ Len(s) \in Nat
  BY <1>2, SeqFacts
<1>4. \A i, j \in 1..Len(s) : s[i].id = s[j].id => i = j
  BY <1>3 DEF DistinctIds, IsInjective
<1>5. \A k, l \in 1..n : k < l => g[k] < g[l]
  BY <1>1 DEF Goes
<1>6. ASSUME NEW k \in 1..n, NEW l \in 1..n, t[k].id = t[l].id PROVE k = l
  <2>1. g[k] = g[l]
    BY <1>1, <1>4, <1>6
  <2>2. ~(k < l) /\ ~(l < k)
    BY <1>1, <1>3, <1>5, <2>1
  <2> QED
    BY <1>3, <2>2
<1>7. DistinctIds(t)
  BY <1>3, <1>6 DEF DistinctIds, IsInjective
<1> QED
  BY <1>7 DEF t

\* The ids of a sequence, by its places and by its elements.
LEMMA DistinctIdsIs ==
  ASSUME NEW s, IsSeq(s)
  PROVE  DistinctIds(s) <=> \A i, j \in 1..Len(s) : s[i].id = s[j].id => i = j
<1>1. DOMAIN s = 1..Len(s)
  BY SeqFacts
<1> QED
  BY <1>1 DEF DistinctIds, IsInjective

\* The ids of a sequence are those of its elements.
LEMMA IdsIs ==
  ASSUME NEW s, IsSeq(s)
  PROVE  /\ Ids(s) = {s[i].id : i \in 1..Len(s)}
         /\ Ids(s) = {x.id : x \in ToSet(s)}
<1>1. DOMAIN s = 1..Len(s)
  BY SeqFacts
<1> QED
  BY <1>1 DEF Ids, ToSet

\* With all its places a sequence is itself, with none empty.
LEMMA PickedAll ==
  ASSUME NEW s, IsSeq(s), NEW P, P = DOMAIN s
  PROVE  Picked(s, P) = s
<1> DEFINE g == [k \in 1..Len(s) |-> k]
<1>1. Len(s) \in Nat /\ DOMAIN s = 1..Len(s) /\ s = [i \in 1..Len(s) |-> s[i]]
  BY SeqFacts
<1>2. Goes(g, Len(s), P)
  BY <1>1 DEF Goes
<1>3. Places(P, Len(s))
  BY <1>1 DEF Places
<1>4. \A k \in 1..Len(s) : g[k] = k
  OBVIOUS
<1> HIDE DEF g
<1>5. Shows(Picked(s, P), s, g, Len(s))
  BY <1>1, <1>2, <1>3, PickedBy
<1>6. IsSeq(Picked(s, P)) /\ Len(Picked(s, P)) = Len(s) /\ \A k \in 1..Len(s) : Picked(s, P)[k] = s[g[k]]
  BY <1>5 DEF Shows
<1> QED
  BY <1>4, <1>6, SeqSame

\* No place picked.
LEMMA PickedNone ==
  ASSUME NEW s, NEW P, P = {}
  PROVE  Picked(s, P) = <<>>
<1>1. Cardinality(P) = 0
  BY FS_EmptySet
<1> QED
  BY <1>1 DEF Picked

\* Of the places P in two sequences in a row, Q are those in the one and R those in the other.
Splits(P, s, t, Q, R) ==
  /\ P \subseteq DOMAIN (s \o t)
  /\ \A i : i \in Q <=> i \in DOMAIN s /\ i \in P
  /\ \A i : i \in R <=> i \in DOMAIN t /\ Len(s) + i \in P

\* What is picked of two sequences in a row is picked of the one and of the other.
LEMMA PickedConcat ==
  ASSUME NEW s, NEW t, IsSeq(s), IsSeq(t), NEW P, NEW Q, NEW R, Splits(P, s, t, Q, R)
  PROVE  Picked(s \o t, P) = Picked(s, Q) \o Picked(t, R)
<1> DEFINE n == Len(s)
           m == Len(t)
           q == Cardinality(Q)
           r == Cardinality(R)
           u == Picked(s, Q)
           v == Picked(t, R)
<1>0. /\ P \subseteq DOMAIN (s \o t)
      /\ \A i : i \in Q <=> i \in DOMAIN s /\ i \in P
      /\ \A i : i \in R <=> i \in DOMAIN t /\ Len(s) + i \in P
  BY DEF Splits
<1>1. n \in Nat /\ m \in Nat /\ DOMAIN s = 1..n /\ DOMAIN t = 1..m
  BY SeqFacts
<1>2. /\ IsSeq(s \o t) /\ Len(s \o t) = n + m /\ DOMAIN (s \o t) = 1..(n + m)
      /\ \A i \in 1..n : (s \o t)[i] = s[i]
      /\ \A i \in 1..m : (s \o t)[n + i] = t[i]
  BY Concat, SeqFacts
<1>3. Q \subseteq DOMAIN s /\ R \subseteq DOMAIN t
  BY <1>0
<1>4. PICK g : Goes(g, q, Q) /\ \A k \in 1..q : u[k] = s[g[k]] /\ g[k] \in 1..n
  BY <1>3, PickedIs
<1>5. PICK h : Goes(h, r, R) /\ \A k \in 1..r : v[k] = t[h[k]] /\ h[k] \in 1..m
  BY <1>3, PickedIs
<1>6. IsSeq(u) /\ Len(u) = q /\ q \in Nat /\ IsSeq(v) /\ Len(v) = r /\ r \in Nat
  BY <1>3, PickedIs
<1>7. /\ IsSeq(u \o v) /\ Len(u \o v) = q + r
      /\ \A i \in 1..q : (u \o v)[i] = u[i]
      /\ \A i \in 1..r : (u \o v)[q + i] = v[i]
  <2> HIDE DEF u, v, q, r
  <2> QED
    BY <1>6, Concat
<1> HIDE DEF u, v, q, r, n, m
<1> DEFINE f == [k \in 1..(q + r) |-> IF k <= q THEN g[k] ELSE n + h[k - q]]
<1>8. \A k \in 1..q : f[k] = g[k] /\ g[k] \in Q
  BY <1>4, <1>6 DEF Goes
<1>9. \A k \in 1..r : f[q + k] = n + h[k] /\ h[k] \in R /\ h[k] \in 1..m
  BY <1>5, <1>6 DEF Goes
<1>10. \A k \in 1..(q + r) : k \in 1..q \/ (k - q \in 1..r /\ k = q + (k - q))
  BY <1>6
<1>11. f = [k \in 1..(q + r) |-> f[k]]
  OBVIOUS
<1> HIDE DEF f
<1>12. Goes(f, q + r, P)
  <2>1. \A k \in 1..(q + r) : f[k] \in P
    <3>1. \A i \in Q : i \in P
      BY <1>0
    <3>2. \A i \in R : n + i \in P
      BY <1>0 DEF n
    <3> QED
      BY <1>8, <1>9, <1>10, <3>1, <3>2
  <2>2. ASSUME NEW k \in 1..(q + r), NEW l \in 1..(q + r), k < l PROVE f[k] < f[l]
    <3>1. CASE k \in 1..q /\ l \in 1..q
      BY <1>4, <1>8, <2>2, <3>1 DEF Goes
    <3>2. CASE k \in 1..q /\ l - q \in 1..r
      <4>1. f[k] \in 1..n
        BY <1>4, <1>8, <3>2
      <4>2. f[l] = n + h[l - q] /\ h[l - q] \in 1..m
        BY <1>6, <1>9, <1>10, <2>2, <3>2
      <4> QED
        BY <1>1, <4>1, <4>2
    <3>3. CASE k - q \in 1..r /\ l - q \in 1..r
      <4>1. f[k] = n + h[k - q] /\ h[k - q] \in 1..m /\ f[l] = n + h[l - q] /\ h[l - q] \in 1..m
        BY <1>6, <1>9, <2>2, <3>3
      <4>2. h[k - q] < h[l - q]
        BY <1>5, <1>6, <2>2, <3>3 DEF Goes
      <4> QED
        BY <1>1, <4>1, <4>2
    <3> QED
      BY <1>6, <1>10, <2>2, <3>1, <3>2, <3>3
  <2>3. ASSUME NEW i \in P PROVE \E k \in 1..(q + r) : f[k] = i
    <3>1. i \in 1..(n + m)
      BY <1>0, <1>2
    <3>2. CASE i \in 1..n
      <4>1. i \in Q
        BY <1>0, <1>1, <3>2
      <4>2. PICK k \in 1..q : g[k] = i
        BY <1>4, <4>1 DEF Goes
      <4> QED
        BY <1>6, <1>8, <4>2
    <3>3. CASE i \notin 1..n
      <4>1. i - n \in 1..m /\ n + (i - n) = i
        BY <1>1, <3>1, <3>3
      <4>2. i - n \in R
        BY <1>0, <1>1, <4>1 DEF n
      <4>3. PICK k \in 1..r : h[k] = i - n
        BY <1>5, <4>2 DEF Goes
      <4>4. q + k \in 1..(q + r) /\ f[q + k] = i
        BY <1>6, <1>9, <4>1, <4>3
      <4> QED
        BY <4>4
    <3> QED
      BY <3>2, <3>3
  <2>4. f \in [1..(q + r) -> P]
    BY <1>11, <2>1
  <2> QED
    BY <2>2, <2>3, <2>4 DEF Goes
<1>13. Places(P, n + m)
  BY <1>0, <1>1, <1>2 DEF Places
<1>14. n + m \in Nat /\ q + r \in Nat
  BY <1>1, <1>6
<1>15. /\ IsSeq(Picked(s \o t, P)) /\ Len(Picked(s \o t, P)) = q + r
       /\ \A k \in 1..(q + r) : Picked(s \o t, P)[k] = (s \o t)[f[k]]
  <2> DEFINE w == s \o t
             l == n + m
             k0 == q + r
  <2>1. Goes(f, k0, P) /\ Places(P, l) /\ l \in Nat /\ k0 \in Nat
    BY <1>12, <1>13, <1>14
  <2> HIDE DEF w, l, k0
  <2>2. Shows(Picked(w, P), w, f, k0)
    BY <2>1, PickedBy
  <2> QED
    BY <2>2 DEF w, k0, Shows
<1>16. ASSUME NEW k \in 1..(q + r) PROVE (s \o t)[f[k]] = (u \o v)[k]
  <2>1. CASE k \in 1..q
    BY <1>0, <1>2, <1>4, <1>7, <1>8, <2>1
  <2>2. CASE k - q \in 1..r
    <3>1. f[k] = n + h[k - q] /\ h[k - q] \in 1..m /\ v[k - q] = t[h[k - q]]
      BY <1>5, <1>6, <1>9, <1>10, <2>2
    <3>2. (u \o v)[k] = v[k - q]
      BY <1>6, <1>7, <2>2
    <3> QED
      BY <1>2, <3>1, <3>2
  <2> QED
    BY <1>10, <2>1, <2>2
<1>18. Picked(s \o t, P) = u \o v
  <2> DEFINE a == Picked(s \o t, P)
             c == u \o v
             l == q + r
  <2>1. IsSeq(a) /\ IsSeq(c) /\ Len(a) = Len(c) /\ Len(a) = l
    BY <1>7, <1>15
  <2>2. \A k \in 1..l : a[k] = c[k]
    BY <1>15, <1>16
  <2> HIDE DEF a, c, l
  <2>3. a = c
    BY <2>1, <2>2, SeqSame
  <2> QED
    BY <2>3 DEF a, c
<1> QED
  BY <1>18 DEF u, v

\* Of distinct elements: each once, all of them.
LEMMA DistinctFacts ==
  ASSUME NEW s, IsSeq(s)
  PROVE  /\ IsSeq(Distinct(s))
         /\ ToSet(Distinct(s)) = ToSet(s)
         /\ \A k, l \in 1..Len(Distinct(s)) : Distinct(s)[k] = Distinct(s)[l] => k = l
<1> DEFINE P == {i \in DOMAIN s : \A j \in 1..i - 1 : s[j] # s[i]}
           t == Distinct(s)
           n == Cardinality(P)
<1>1. t = Picked(s, P) /\ P \subseteq DOMAIN s
  BY DEF Distinct
<1>2. DOMAIN s = 1..Len(s) /\ Len(s) \in Nat
  BY SeqFacts
<1>3. \A x \in ToSet(s) : \E i \in P : s[i] = x
  <2> SUFFICES ASSUME NEW x \in ToSet(s) PROVE \E i \in P : s[i] = x
    OBVIOUS
  <2> DEFINE T == {i \in 1..Len(s) : s[i] = x}
  <2>1. T \in SUBSET Nat
    OBVIOUS
  <2>2. T # {}
    BY <1>2 DEF ToSet
  <2>3. PICK i \in T : \A j \in T : i <= j
    <3> HIDE DEF T
    <3> QED
      BY <2>1, <2>2, Least
  <2>4. \A j \in 1..i - 1 : s[j] # s[i]
    BY <1>2, <2>3
  <2> QED
    BY <1>2, <2>3, <2>4
<1>4. \A i, j \in P : s[i] = s[j] => i = j
  BY <1>2
<1>5. \A i \in P : s[i] \in ToSet(s)
  BY <1>1 DEF ToSet
<1> HIDE DEF P
<1>6. IsSeq(t) /\ Len(t) = n /\ ToSet(t) = {s[i] : i \in P} /\ n \in Nat
  BY <1>1, PickedIs, PickedSet
<1>7. PICK g : Goes(g, n, P) /\ \A k \in 1..n : t[k] = s[g[k]] /\ g[k] \in 1..Len(s)
  BY <1>1, PickedIs
<1> HIDE DEF t, n
<1>8. ASSUME NEW k \in 1..n, NEW l \in 1..n, t[k] = t[l] PROVE k = l
  <2>1. g[k] = g[l]
    BY <1>4, <1>7, <1>8 DEF Goes
  <2>2. ~(k < l) /\ ~(l < k)
    BY <1>2, <1>7, <2>1 DEF Goes
  <2> QED
    BY <1>6, <2>2
<1>9. ToSet(t) = ToSet(s)
  BY <1>3, <1>5, <1>6
<1> QED
  BY <1>6, <1>8, <1>9 DEF t

-----------------------------------------------------------------------------
(* Recursive functions. *)

\* A step from one place to the next.
Steps(step, A, n) == step \in [A \X (1..n) -> A]
\* f is what n steps make of base, after each of them.
RunOf(f, step, A, n, base) ==
  f \in [0..n -> A] /\ f[0] = base /\ \A i \in 1..n : f[i] = step[<<f[i - 1], i>>]

\* What is defined at 0 and from each place for the next is defined up to any place.
LEMMA Recursion ==
  ASSUME NEW n \in Nat, NEW A, NEW base \in A, NEW step, Steps(step, A, n)
  PROVE  \E f : RunOf(f, step, A, n, base)
<1>0. step \in [A \X (1..n) -> A]
  BY DEF Steps
<1> DEFINE Runs(f, m) == f \in [0..m -> A] /\ f[0] = base /\ \A i \in 1..m : f[i] = step[<<f[i - 1], i>>]
           Fails == {m \in Nat : m <= n /\ ~ \E f : Runs(f, m)}
<1> SUFFICES ASSUME Fails # {} PROVE FALSE
  <2>1. n \notin Fails
    OBVIOUS
  <2> QED
    BY <2>1 DEF RunOf
<1>1. PICK m \in Fails : \A k \in Fails : m <= k
  <2>1. Fails \in SUBSET Nat
    OBVIOUS
  <2> HIDE DEF Fails
  <2> QED
    BY <2>1, Least
<1>2. CASE m = 0
  <2> DEFINE f == [i \in 0..0 |-> base]
  <2>1. Runs(f, 0)
    OBVIOUS
  <2> HIDE DEF f, Runs
  <2> QED
    BY <1>1, <1>2, <2>1
<1>3. CASE m # 0
  <2>1. m \in Nat /\ m - 1 \in Nat /\ m <= n /\ m - 1 \notin Fails
    <3>1. m \in Nat /\ m <= n
      BY <1>1
    <3> HIDE DEF Fails
    <3> QED
      BY <1>1, <1>3, <3>1
  <2>2. PICK g : Runs(g, m - 1)
    BY <2>1
  <2> DEFINE f == [i \in 0..m |-> IF i < m THEN g[i] ELSE step[<<g[m - 1], m>>]]
  <2>3. g[m - 1] \in A /\ m \in 1..n
    BY <1>3, <2>1, <2>2
  <2>4. step[<<g[m - 1], m>>] \in A
    BY <1>0, <2>3
  <2>5. f \in [0..m -> A]
    BY <2>1, <2>2, <2>4
  <2>6. f[0] = base
    BY <1>3, <2>1, <2>2
  <2>7. ASSUME NEW i \in 1..m PROVE f[i] = step[<<f[i - 1], i>>]
    <3>1. CASE i < m
      BY <2>1, <2>2, <3>1
    <3>2. CASE i = m
      <4>1. f[m] = step[<<g[m - 1], m>>]
        BY <2>1
      <4>2. f[m - 1] = g[m - 1]
        BY <1>3, <2>1
      <4> QED
        BY <3>2, <4>1, <4>2
    <3> QED
      BY <2>1, <3>1, <3>2
  <2>8. Runs(f, m)
    BY <2>5, <2>6, <2>7
  <2> HIDE DEF f, Runs
  <2> QED
    BY <1>1, <2>8
<1> QED
  BY <1>2, <1>3

-----------------------------------------------------------------------------
(* Sequences of sequences. *)

\* A sequence of sequences.
IsBlocks(b) == IsSeq(b) /\ \A i \in 1..Len(b) : IsSeq(b[i])

\* A sequence has the blocks one after another; before block i are off[i - 1] elements.
Flattens(b, off, r) ==
  /\ off \in [0..Len(b) -> Nat] /\ off[0] = 0
  /\ \A i \in 1..Len(b) : off[i] = off[i - 1] + Len(b[i])
  /\ IsSeq(r) /\ Len(r) = off[Len(b)]
  /\ \A i \in 1..Len(b) : \A k \in 1..Len(b[i]) :
       off[i - 1] + k \in 1..Len(r) /\ r[off[i - 1] + k] = b[i][k]
  /\ \A p \in 1..Len(r) : \E i \in 1..Len(b) : \E k \in 1..Len(b[i]) : p = off[i - 1] + k

\* The function by which FlattenSeq is defined exists.
LEMMA FlattenDefined ==
  ASSUME NEW b, IsBlocks(b), Len(b) # 0
  PROVE  \E f : /\ f = [i \in 1..Len(b) |-> IF i = 1 THEN b[i] ELSE f[i - 1] \o b[i]]
                /\ FlattenSeq(b) = f[Len(b)]
<1> DEFINE n == Len(b)
           S == UNION {ToSet(b[i]) : i \in 1..n}
           A == Seq(S)
           step == [ai \in A \X (1..n) |-> ai[1] \o b[ai[2]]]
<1>1. n \in Nat /\ n # 0
  BY SeqFacts DEF IsBlocks
<1>2. \A i \in 1..n : b[i] \in A
  BY DEF IsBlocks, IsSeq
<1>3. <<>> \in A
  OBVIOUS
<1>4. \A a \in A : \A i \in 1..n : a \o b[i] \in A
  BY <1>2
<1>5. step \in [A \X (1..n) -> A]
  BY <1>4
<1>6. \A a \in A : \A i \in 1..n : step[<<a, i>>] = a \o b[i]
  OBVIOUS
<1>7. PICK g \in [0..n -> A] : g[0] = <<>> /\ \A i \in 1..n : g[i] = step[<<g[i - 1], i>>]
  <2> DEFINE base == <<>>
  <2>1. n \in Nat /\ base \in A /\ Steps(step, A, n)
    BY <1>1, <1>3, <1>5 DEF Steps
  <2> HIDE DEF A, step, n, base
  <2>2. \E g : RunOf(g, step, A, n, base)
    BY <2>1, Recursion
  <2> QED
    BY <2>2 DEF base, RunOf
<1> DEFINE f == [i \in 1..n |-> g[i]]
<1>8. \A i \in 1..n : g[i] = g[i - 1] \o b[i]
  <2> HIDE DEF A, step
  <2>1. \A i \in 1..n : g[i - 1] \in A
    BY <1>1
  <2> QED
    BY <1>6, <1>7, <2>1
<1>9. g[1] = b[1]
  <2>0. 1 \in 1..n /\ 1 - 1 = 0
    BY <1>1
  <2>1. g[1] = g[1 - 1] \o b[1]
    BY <1>8, <2>0
  <2>2. g[1] = <<>> \o b[1]
    BY <1>7, <2>0, <2>1
  <2>3. b[1] \in Seq(S)
    BY <1>2, <2>0
  <2> QED
    BY <2>2, <2>3
<1>10. f = [i \in 1..n |-> IF i = 1 THEN b[i] ELSE f[i - 1] \o b[i]]
  <2>1. ASSUME NEW i \in 1..n PROVE f[i] = IF i = 1 THEN b[i] ELSE f[i - 1] \o b[i]
    <3>1. CASE i = 1
      BY <1>9, <3>1
    <3>2. CASE i # 1
      BY <1>1, <1>8, <3>2
    <3> QED
      BY <3>1, <3>2
  <2> QED
    BY <2>1
<1> DEFINE h == CHOOSE h : h = [i \in 1..n |-> IF i = 1 THEN b[i] ELSE h[i - 1] \o b[i]]
<1>11. h = [i \in 1..n |-> IF i = 1 THEN b[i] ELSE h[i - 1] \o b[i]]
  <2> HIDE DEF f
  <2> QED
    BY <1>10
<1>12. FlattenSeq(b) = h[n]
  BY <1>1 DEF FlattenSeq
<1> HIDE DEF h
<1> QED
  BY <1>11, <1>12

\* FlattenSeq puts the blocks one after another.
LEMMA FlattenIs ==
  ASSUME NEW b, IsBlocks(b)
  PROVE  \E off : Flattens(b, off, FlattenSeq(b))
<1> DEFINE n == Len(b)
<1>0. IsSeq(b) /\ \A i \in 1..n : IsSeq(b[i]) /\ Len(b[i]) \in Nat
  BY SeqFacts DEF IsBlocks
<1>1. n \in Nat
  BY <1>0, SeqFacts
<1>2. CASE n = 0
  <2> DEFINE off == [i \in 0..0 |-> 0]
  <2>1. FlattenSeq(b) = b
    BY <1>2 DEF FlattenSeq
  <2>2. Flattens(b, off, b)
    BY <1>0, <1>2 DEF Flattens
  <2> QED
    BY <2>1, <2>2
<1>3. CASE n # 0
  <2>1. PICK f : /\ f = [i \in 1..n |-> IF i = 1 THEN b[i] ELSE f[i - 1] \o b[i]]
                 /\ FlattenSeq(b) = f[n]
    BY <1>3, FlattenDefined
  <2>2. f[1] = b[1] /\ \A i \in 1..n : i # 1 => f[i] = f[i - 1] \o b[i]
    <3>1. \A i \in 1..n : f[i] = IF i = 1 THEN b[i] ELSE f[i - 1] \o b[i]
      BY <2>1, Zenon
    <3>2. 1 \in 1..n
      BY <1>1, <1>3
    <3> QED
      BY <3>1, <3>2
  <2> DEFINE off == [i \in 0..n |-> IF i = 0 THEN 0 ELSE Len(f[i])]
  <2>3. off[0] = 0 /\ \A i \in 1..n : off[i] = Len(f[i])
    BY <1>1
  <2>4. off = [i \in 0..n |-> off[i]]
    OBVIOUS
  <2> HIDE DEF off
  <2> DEFINE Covers(i) == \A j \in 1..i : \A k \in 1..Len(b[j]) :
                            off[j - 1] + k \in 1..Len(f[i]) /\ f[i][off[j - 1] + k] = b[j][k]
             Covered(i) == \A p \in 1..Len(f[i]) : \E j \in 1..i : \E k \in 1..Len(b[j]) : p = off[j - 1] + k
             Good(i) == IsSeq(f[i]) /\ off[i] = off[i - 1] + Len(b[i]) /\ Covers(i) /\ Covered(i)
             Bad == {i \in Nat : i \in 1..n /\ ~Good(i)}
  <2>5. Bad = {}
    <3> SUFFICES ASSUME Bad # {} PROVE FALSE
      OBVIOUS
    <3>1. PICK i \in Bad : \A j \in Bad : i <= j
      <4>1. Bad \in SUBSET Nat
        OBVIOUS
      <4> HIDE DEF Bad
      <4> QED
        BY <4>1, Least
    <3>2. i \in 1..n /\ ~Good(i)
      BY <3>1
    <3>3. i # 1
      <4> SUFFICES ASSUME i = 1 PROVE FALSE
        OBVIOUS
      <4>1. IsSeq(f[1]) /\ off[1] = off[0] + Len(b[1])
        BY <1>0, <2>2, <2>3, <3>2
      <4>2. Covers(1)
        BY <1>0, <2>2, <2>3, <3>2
      <4>3. Covered(1)
        BY <1>0, <2>2, <2>3, <3>2
      <4> QED
        BY <3>2, <4>1, <4>2, <4>3
    <3> DEFINE h == i - 1
    <3>4. h \in 1..n /\ h = i - 1 /\ i = h + 1 /\ Good(h)
      <4>1. h \in 1..n /\ h \in Nat /\ i = h + 1
        BY <1>1, <3>2, <3>3
      <4>2. h \notin Bad
        <5> HIDE DEF Bad
        <5> QED
          BY <3>1, <3>2, <4>1
      <4> QED
        BY <4>1, <4>2
    <3> HIDE DEF h
    <3>5. IsSeq(f[h]) /\ IsSeq(b[i]) /\ f[i] = f[h] \o b[i]
      BY <1>0, <2>2, <3>2, <3>3, <3>4
    <3>6. Len(f[h]) \in Nat /\ Len(b[i]) \in Nat /\ off[h] = Len(f[h]) /\ off[i] = Len(f[i])
      BY <2>3, <3>2, <3>4, <3>5, SeqFacts
    <3>7. /\ IsSeq(f[i]) /\ Len(f[i]) = Len(f[h]) + Len(b[i])
          /\ \A p \in 1..Len(f[h]) : f[i][p] = f[h][p]
          /\ \A p \in 1..Len(b[i]) : f[i][Len(f[h]) + p] = b[i][p]
      <4> DEFINE u == f[h]
                 v == b[i]
      <4>1. IsSeq(u) /\ IsSeq(v) /\ f[i] = u \o v
        BY <3>5
      <4> HIDE DEF u, v
      <4>2. /\ IsSeq(u \o v) /\ Len(u \o v) = Len(u) + Len(v)
            /\ \A p \in 1..Len(u) : (u \o v)[p] = u[p]
            /\ \A p \in 1..Len(v) : (u \o v)[Len(u) + p] = v[p]
        BY <4>1, Concat
      <4> QED
        BY <4>1, <4>2 DEF u, v
    <3>8. ASSUME NEW j \in 1..i, NEW k \in 1..Len(b[j])
          PROVE  off[j - 1] + k \in 1..Len(f[i]) /\ f[i][off[j - 1] + k] = b[j][k]
      <4>1. CASE j = i
        <5>1. off[j - 1] = Len(f[h]) /\ k \in 1..Len(b[i])
          BY <3>4, <3>6, <4>1
        <5>2. f[i][Len(f[h]) + k] = b[i][k]
          BY <3>7, <5>1
        <5>3. Len(f[h]) + k \in 1..Len(f[i])
          <6> DEFINE l == Len(f[h])
                     o == Len(b[i])
          <6>2. l \in Nat /\ o \in Nat /\ k \in 1..o /\ Len(f[i]) = l + o
            BY <3>6, <3>7, <5>1
          <6> HIDE DEF l, o
          <6>3. k \in Int /\ 1 <= k /\ k <= o
            BY <6>2
          <6>4. l + k \in Int /\ l + o \in Int /\ 1 <= l + k /\ l + k <= l + o
            BY <6>2, <6>3
          <6>5. l + k \in 1..(l + o)
            BY <6>4
          <6> QED
            BY <6>2, <6>5 DEF l
        <5> HIDE DEF Covers, Covered, Good, Bad
        <5>4. off[j - 1] + k = Len(f[h]) + k /\ b[j][k] = b[i][k]
          BY <4>1, <5>1
        <5> QED
          BY <5>2, <5>3, <5>4
      <4>2. CASE j # i
        <5>1. j \in 1..h
          BY <3>4, <4>2
        <5>2. off[j - 1] + k \in 1..Len(f[h]) /\ f[h][off[j - 1] + k] = b[j][k]
          BY <3>4, <5>1
        <5> HIDE DEF Covers, Covered, Good, Bad
        <5>3. f[i][off[j - 1] + k] = f[h][off[j - 1] + k]
          BY <3>7, <5>2
        <5>4. off[j - 1] + k \in 1..Len(f[i])
          <6> DEFINE p == off[j - 1] + k
          <6>1. p \in 1..Len(f[h])
            BY <5>2
          <6> HIDE DEF p
          <6> DEFINE l == Len(f[h])
                     o == Len(b[i])
          <6>2. l \in Nat /\ o \in Nat /\ p \in 1..l /\ Len(f[i]) = l + o
            BY <3>6, <3>7, <6>1
          <6> HIDE DEF l, o
          <6>3. p \in 1..(l + o)
            BY <6>2
          <6> QED
            BY <6>2, <6>3 DEF p
        <5> QED
          BY <5>2, <5>3, <5>4
      <4> QED
        BY <4>1, <4>2
    <3>9. ASSUME NEW p \in 1..Len(f[i]) PROVE \E j \in 1..i : \E k \in 1..Len(b[j]) : p = off[j - 1] + k
      <4>1. CASE p \in 1..Len(f[h])
        <5>1. PICK j \in 1..h : \E k \in 1..Len(b[j]) : p = off[j - 1] + k
          BY <3>4, <4>1
        <5>2. j \in 1..i
          BY <3>4
        <5> QED
          BY <5>1, <5>2
      <4>2. CASE p \notin 1..Len(f[h])
        <5>1. p - Len(f[h]) \in 1..Len(b[i]) /\ p = off[i - 1] + (p - Len(f[h]))
          <6>1. off[i - 1] = Len(f[h]) /\ p \in 1..(Len(f[h]) + Len(b[i]))
            BY <3>4, <3>6, <3>7
          <6> HIDE DEF Covers, Covered, Good, Bad
          <6> DEFINE l == Len(f[h])
                     o == Len(b[i])
          <6>2. l \in Nat /\ o \in Nat /\ p \in 1..(l + o) /\ p \notin 1..l
            BY <3>6, <4>2, <6>1
          <6>3. off[i - 1] = l
            BY <6>1
          <6> HIDE DEF l, o
          <6>4. p - l \in 1..o /\ p = l + (p - l)
            BY <6>2
          <6> QED
            BY <6>3, <6>4 DEF l, o
        <5>2. i \in 1..i
          BY <3>2
        <5> QED
          BY <5>1, <5>2
      <4> QED
        BY <4>1, <4>2
    <3>10. off[i] = off[i - 1] + Len(b[i])
      BY <3>4, <3>6, <3>7
    <3> QED
      BY <3>2, <3>7, <3>8, <3>9, <3>10
  <2>6. \A i \in 1..n : Good(i)
    <3> HIDE DEF Good
    <3> QED
      BY <1>1, <2>5
  <2>7. \A i \in 1..n : IsSeq(f[i]) /\ off[i] = off[i - 1] + Len(b[i])
    BY <2>6
  <2>8. Covers(n) /\ Covered(n)
    <3>1. n \in 1..n
      BY <1>1, <1>3
    <3> QED
      BY <2>6, <3>1
  <2>9. off \in [0..n -> Nat]
    <3>1. \A i \in 1..n : off[i] \in Nat
      BY <2>3, <2>7, SeqFacts
    <3>2. \A i \in 0..n : off[i] \in Nat
      BY <1>1, <2>3, <3>1
    <3> QED
      BY <2>4, <3>2
  <2>10. n \in 1..n
    BY <1>1, <1>3
  <2> HIDE DEF Good, Bad
  <2>11. Flattens(b, off, f[n])
    BY <2>3, <2>7, <2>8, <2>9, <2>10 DEF Flattens
  <2> QED
    BY <2>1, <2>11
<1> QED
  BY <1>2, <1>3

\* What the places of two blocks have to do with each other.
LEMMA FlattensOrder ==
  ASSUME NEW b, IsBlocks(b), NEW off, NEW r, Flattens(b, off, r)
  PROVE  \A i, j \in 0..Len(b) : i <= j => off[i] <= off[j]
<1> DEFINE n == Len(b)
           Bad == {j \in Nat : j \in 0..n /\ \E i \in 0..j : off[i] > off[j]}
<1>1. n \in Nat /\ off \in [0..n -> Nat]
  BY SeqFacts DEF IsBlocks, Flattens
<1>2. \A i \in 1..n : off[i - 1] <= off[i]
  <2> SUFFICES ASSUME NEW i \in 1..n PROVE off[i - 1] <= off[i]
    OBVIOUS
  <2>1. Len(b[i]) \in Nat /\ off[i] = off[i - 1] + Len(b[i])
    BY SeqFacts DEF IsBlocks, Flattens
  <2>2. off[i - 1] \in Nat
    BY <1>1
  <2> QED
    BY <2>1, <2>2
<1>3. Bad = {}
  <2> SUFFICES ASSUME Bad # {} PROVE FALSE
    OBVIOUS
  <2>1. PICK j \in Bad : \A k \in Bad : j <= k
    <3>1. Bad \in SUBSET Nat
      OBVIOUS
    <3> HIDE DEF Bad
    <3> QED
      BY <3>1, Least
  <2>2. PICK i \in 0..j : off[i] > off[j]
    BY <2>1
  <2>3. i # j /\ j \in 1..n /\ i \in 0..(j - 1) /\ j - 1 \in 0..n /\ j - 1 < j
    BY <1>1, <2>1, <2>2
  <2>4. j - 1 \notin Bad
    BY <2>1, <2>3
  <2>5. ~(off[i] > off[j - 1])
    BY <2>3, <2>4
  <2>6. off[i] \in Nat /\ off[j - 1] \in Nat /\ off[j] \in Nat
    BY <1>1, <2>3
  <2> QED
    BY <1>2, <2>2, <2>3, <2>5, <2>6
<1>4. \A i, j \in 0..n : i <= j => ~(off[i] > off[j])
  BY <1>1, <1>3
<1> QED
  BY <1>1, <1>4

\* The elements of the blocks are those of the whole.
LEMMA FlattenedSet ==
  ASSUME NEW b, IsBlocks(b)
  PROVE  /\ IsSeq(FlattenSeq(b))
         /\ \A x \in ToSet(FlattenSeq(b)) : \E i \in 1..Len(b) : x \in ToSet(b[i])
         /\ \A i \in 1..Len(b) : ToSet(b[i]) \subseteq ToSet(FlattenSeq(b))
<1>1. PICK off : Flattens(b, off, FlattenSeq(b))
  BY FlattenIs
<1> DEFINE r == FlattenSeq(b)
<1>2. Flattens(b, off, r) /\ IsSeq(r)
  BY <1>1 DEF Flattens
<1> HIDE DEF r
<1>3. \A x \in ToSet(r) : \E i \in 1..Len(b) : x \in ToSet(b[i])
  <2> SUFFICES ASSUME NEW x \in ToSet(r) PROVE \E i \in 1..Len(b) : x \in ToSet(b[i])
    OBVIOUS
  <2>1. PICK p \in 1..Len(r) : r[p] = x
    BY <1>2, SeqFacts
  <2>2. PICK i \in 1..Len(b) : \E k \in 1..Len(b[i]) : p = off[i - 1] + k
    BY <1>2 DEF Flattens
  <2> PICK k \in 1..Len(b[i]) : p = off[i - 1] + k
    BY <2>2
  <2>3. r[p] = b[i][k]
    BY <1>2, <2>2 DEF Flattens
  <2>4. b[i][k] \in ToSet(b[i])
    BY SeqFacts DEF IsBlocks
  <2> QED
    BY <2>1, <2>3, <2>4
<1>4. ASSUME NEW i \in 1..Len(b), NEW x \in ToSet(b[i]) PROVE x \in ToSet(r)
  <2>1. PICK k \in 1..Len(b[i]) : b[i][k] = x
    BY SeqFacts DEF IsBlocks
  <2>2. off[i - 1] + k \in 1..Len(r) /\ r[off[i - 1] + k] = x
    BY <1>2, <2>1 DEF Flattens
  <2> QED
    BY <1>2, <2>2, SeqFacts
<1> QED
  BY <1>2, <1>3, <1>4 DEF r

\* Ids that differ inside each block and from block to block differ.
LEMMA FlattenDistinct ==
  ASSUME NEW b, IsBlocks(b),
         \A i \in 1..Len(b) : DistinctIds(b[i]),
         \A i, j \in 1..Len(b) : i # j => Ids(b[i]) \cap Ids(b[j]) = {}
  PROVE  DistinctIds(FlattenSeq(b))
<1> DEFINE r == FlattenSeq(b)
<1>1. PICK off : Flattens(b, off, r)
  BY FlattenIs
<1> HIDE DEF r
<1>2. IsSeq(r)
  BY <1>1 DEF Flattens
<1>3. ASSUME NEW p \in 1..Len(r), NEW q \in 1..Len(r), r[p].id = r[q].id PROVE p = q
  <2>1. PICK i \in 1..Len(b) : \E k \in 1..Len(b[i]) : p = off[i - 1] + k
    BY <1>1 DEF Flattens
  <2> PICK k \in 1..Len(b[i]) : p = off[i - 1] + k
    BY <2>1
  <2>2. PICK j \in 1..Len(b) : \E l \in 1..Len(b[j]) : q = off[j - 1] + l
    BY <1>1 DEF Flattens
  <2> PICK l \in 1..Len(b[j]) : q = off[j - 1] + l
    BY <2>2
  <2>3. r[p] = b[i][k] /\ r[q] = b[j][l]
    BY <1>1 DEF Flattens
  <2>4. IsSeq(b[i]) /\ IsSeq(b[j])
    BY DEF IsBlocks
  <2>5. r[p].id \in Ids(b[i]) /\ r[q].id \in Ids(b[j])
    <3>1. Ids(b[i]) = {b[i][u].id : u \in 1..Len(b[i])} /\ Ids(b[j]) = {b[j][u].id : u \in 1..Len(b[j])}
      BY <2>4, IdsIs
    <3> QED
      BY <2>3, <3>1
  <2>6. i = j
    BY <1>3, <2>5
  <2>7. k = l
    <3>1. \A u, v \in 1..Len(b[i]) : b[i][u].id = b[i][v].id => u = v
      BY <2>4, DistinctIdsIs
    <3> QED
      BY <1>3, <2>3, <2>6, <3>1
  <2> QED
    BY <2>6, <2>7
<1>4. DistinctIds(r)
  BY <1>2, <1>3, DistinctIdsIs
<1> QED
  BY <1>4 DEF r

\* Picking exactly the elements of one block gives that block.
LEMMA FlattenPick ==
  ASSUME NEW b, IsBlocks(b), NEW off, NEW r, Flattens(b, off, r), NEW h \in 1..Len(b),
         NEW P, P \subseteq DOMAIN r,
         \A i \in 1..Len(b) : \A k \in 1..Len(b[i]) : off[i - 1] + k \in P <=> i = h
  PROVE  Picked(r, P) = b[h]
<1> DEFINE m == Len(b[h])
           g == [k \in 1..m |-> off[h - 1] + k]
<1>1. IsSeq(b[h]) /\ m \in Nat /\ b[h] = [k \in 1..m |-> b[h][k]]
  BY SeqFacts DEF IsBlocks
<1>2. off[h - 1] \in Nat
  <2>1. h - 1 \in 0..Len(b)
    BY SeqFacts DEF IsBlocks
  <2> QED
    BY <2>1 DEF Flattens
<1>3. \A k \in 1..m : g[k] = off[h - 1] + k /\ g[k] \in P /\ r[g[k]] = b[h][k]
  BY DEF Flattens
<1>4. g = [k \in 1..m |-> g[k]]
  OBVIOUS
<1>5. DOMAIN r = 1..Len(r) /\ Len(r) \in Nat
  BY SeqFacts DEF Flattens
<1>6. \A i \in P : \E k \in 1..m : g[k] = i
  <2> SUFFICES ASSUME NEW p \in P PROVE \E k \in 1..m : g[k] = p
    OBVIOUS
  <2>1. p \in 1..Len(r)
    BY <1>5
  <2>2. PICK i \in 1..Len(b) : \E k \in 1..Len(b[i]) : p = off[i - 1] + k
    BY <2>1 DEF Flattens
  <2> PICK k \in 1..Len(b[i]) : p = off[i - 1] + k
    BY <2>2
  <2>3. i = h
    OBVIOUS
  <2> QED
    BY <2>3, <1>3
<1> HIDE DEF g
<1>7. Goes(g, m, P)
  <2>1. g \in [1..m -> P]
    BY <1>3, <1>4
  <2>2. \A k, l \in 1..m : k < l => g[k] < g[l]
    BY <1>1, <1>2, <1>3
  <2> QED
    BY <1>6, <2>1, <2>2 DEF Goes
<1>8. Places(P, Len(r))
  BY <1>5 DEF Places
<1> HIDE DEF m
<1>9. Shows(Picked(r, P), r, g, m)
  BY <1>1, <1>5, <1>7, <1>8, PickedBy
<1>10. IsSeq(Picked(r, P)) /\ Len(Picked(r, P)) = m /\ \A k \in 1..m : Picked(r, P)[k] = r[g[k]]
  BY <1>9 DEF Shows
<1>11. Len(b[h]) = m
  BY DEF m
<1> QED
  BY <1>1, <1>3, <1>10, <1>11, SeqSame

-----------------------------------------------------------------------------
(* Looking something up. *)

\* The least of some places is one of them.
LEMMA LeastPlace ==
  ASSUME NEW n, NEW I, I \subseteq 1..n, I # {}, n \in Nat
  PROVE  Min(I) \in I /\ \A j \in I : Min(I) <= j
<1>1. I \in SUBSET Nat
  OBVIOUS
<1>2. PICK m \in I : \A j \in I : m <= j
  BY <1>1, Least
<1>3. Min(I) = m
  BY <1>1, <1>2, MinIs
<1> QED
  BY <1>2, <1>3

\* The element with an id that some element has.
LEMMA ByIdIs ==
  ASSUME NEW s, IsSeq(s), NEW id \in Ids(s)
  PROVE  ById(s, id) \in ToSet(s) /\ ById(s, id).id = id
<1> DEFINE I == {i \in 1..Len(s) : s[i].id = id}
<1>1. DOMAIN s = 1..Len(s) /\ Len(s) \in Nat
  BY SeqFacts
<1>2. I # {} /\ I \subseteq 1..Len(s)
  BY <1>1 DEF Ids
<1>3. Min(I) \in I
  <2> HIDE DEF I
  <2> QED
    BY <1>1, <1>2, LeastPlace
<1>4. ById(s, id) = s[Min(I)]
  BY <1>2 DEF ById, SelectInSeq
<1> HIDE DEF I
<1>5. Min(I) \in 1..Len(s) /\ s[Min(I)].id = id
  BY <1>3 DEF I
<1> QED
  BY <1>1, <1>4, <1>5 DEF ToSet

\* Where ids are distinct it is the one.
LEMMA ByIdOf ==
  ASSUME NEW s, IsSeq(s), DistinctIds(s), NEW i \in 1..Len(s)
  PROVE  ById(s, s[i].id) = s[i]
<1>1. s[i].id \in Ids(s)
  BY IdsIs
<1>2. ById(s, s[i].id) \in ToSet(s) /\ ById(s, s[i].id).id = s[i].id
  BY <1>1, ByIdIs
<1>3. PICK j \in 1..Len(s) : s[j] = ById(s, s[i].id)
  BY <1>2, SeqFacts
<1>4. j = i
  BY <1>2, <1>3, DistinctIdsIs
<1> QED
  BY <1>3, <1>4

\* A location found by its name is one of the world's.
LEMMA LocationNamedIs ==
  ASSUME NEW world, IsSeq(world.locations), NEW name
  PROVE  LocationNamed(world, name) \in 0..Len(world.locations)
<1> DEFINE s == world.locations
           I == {i \in 1..Len(s) : s[i].name = name}
<1>1. Len(s) \in Nat
  BY SeqFacts
<1>2. I # {} => Min(I) \in I
  <2>1. I \subseteq 1..Len(s)
    OBVIOUS
  <2> HIDE DEF I, s
  <2> QED
    BY <1>1, <2>1, LeastPlace
<1>3. LocationNamed(world, name) = IF I # {} THEN Min(I) ELSE 0
  BY DEF LocationNamed, SelectInSeq
<1> QED
  BY <1>1, <1>2, <1>3

-----------------------------------------------------------------------------
(* Sequences of things with an id. *)

\* What is changed but for its id at each place has the same ids.
LEMMA SameIds ==
  ASSUME NEW s, IsSeq(s), NEW t, IsSeq(t), Len(s) = Len(t), \A i \in 1..Len(s) : t[i].id = s[i].id
  PROVE  Ids(t) = Ids(s) /\ (DistinctIds(s) => DistinctIds(t))
<1>1. Ids(t) = Ids(s)
  <2>1. Ids(s) = {s[i].id : i \in 1..Len(s)} /\ Ids(t) = {t[i].id : i \in 1..Len(t)}
    BY IdsIs
  <2> QED
    BY <2>1
<1>2. DistinctIds(s) => DistinctIds(t)
  BY DistinctIdsIs
<1> QED
  BY <1>1, <1>2

\* One sequence after another, of other ids.
LEMMA ConcatIds ==
  ASSUME NEW s, IsSeq(s), NEW t, IsSeq(t)
  PROVE  /\ Ids(s \o t) = Ids(s) \cup Ids(t)
         /\ DistinctIds(s \o t) <=> DistinctIds(s) /\ DistinctIds(t) /\ Ids(s) \cap Ids(t) = {}
<1> DEFINE w == s \o t
           n == Len(s)
           m == Len(t)
<1>1. /\ IsSeq(w) /\ Len(w) = n + m /\ ToSet(w) = ToSet(s) \cup ToSet(t)
      /\ \A i \in 1..n : w[i] = s[i]
      /\ \A i \in 1..m : w[n + i] = t[i]
  BY Concat
<1>2. n \in Nat /\ m \in Nat
  BY SeqFacts
<1> HIDE DEF w, n, m
<1>3. Ids(w) = Ids(s) \cup Ids(t)
  BY <1>1, IdsIs
<1>4. \A i \in 1..n : s[i].id \in Ids(s)
  BY IdsIs DEF n
<1>5. \A i \in 1..m : t[i].id \in Ids(t)
  BY IdsIs DEF m
<1>6. \A i \in 1..(n + m) : i \in 1..n \/ (i - n \in 1..m /\ i = n + (i - n))
  BY <1>2
<1>7. ASSUME DistinctIds(s), DistinctIds(t), Ids(s) \cap Ids(t) = {}
      PROVE  DistinctIds(w)
  <2>1. \A i, j \in 1..n : s[i].id = s[j].id => i = j
    BY <1>7, DistinctIdsIs DEF n
  <2>2. \A i, j \in 1..m : t[i].id = t[j].id => i = j
    BY <1>7, DistinctIdsIs DEF m
  <2>3. ASSUME NEW i \in 1..(n + m), NEW j \in 1..(n + m), w[i].id = w[j].id PROVE i = j
    <3>1. CASE i \in 1..n /\ j \in 1..n
      BY <1>1, <2>1, <2>3, <3>1
    <3>2. CASE i \in 1..n /\ j - n \in 1..m /\ j = n + (j - n)
      <4>1. w[i] = s[i] /\ w[j] = t[j - n]
        BY <1>1, <3>2
      <4> QED
        BY <1>4, <1>5, <1>7, <2>3, <3>2, <4>1
    <3>3. CASE j \in 1..n /\ i - n \in 1..m /\ i = n + (i - n)
      <4>1. w[j] = s[j] /\ w[i] = t[i - n]
        BY <1>1, <3>3
      <4> QED
        BY <1>4, <1>5, <1>7, <2>3, <3>3, <4>1
    <3>4. CASE i - n \in 1..m /\ j - n \in 1..m /\ i = n + (i - n) /\ j = n + (j - n)
      <4>1. w[i] = t[i - n] /\ w[j] = t[j - n]
        BY <1>1, <3>4
      <4>2. i - n = j - n
        BY <2>2, <2>3, <3>4, <4>1
      <4> QED
        BY <1>2, <4>2
    <3> QED
      BY <1>6, <3>1, <3>2, <3>3, <3>4
  <2> QED
    BY <1>1, <2>3, DistinctIdsIs
<1>8. ASSUME DistinctIds(w)
      PROVE  DistinctIds(s) /\ DistinctIds(t) /\ Ids(s) \cap Ids(t) = {}
  <2>1. \A i, j \in 1..(n + m) : w[i].id = w[j].id => i = j
    BY <1>1, <1>8, DistinctIdsIs
  <2>2. \A i, j \in 1..n : s[i].id = s[j].id => i = j
    BY <1>1, <1>2, <2>1
  <2>3. ASSUME NEW i \in 1..m, NEW j \in 1..m, t[i].id = t[j].id PROVE i = j
    <3>1. n + i \in 1..(n + m) /\ n + j \in 1..(n + m) /\ w[n + i].id = w[n + j].id
      BY <1>1, <1>2, <2>3
    <3>2. n + i = n + j
      BY <2>1, <3>1
    <3> QED
      BY <1>2, <3>2
  <2>4. ASSUME NEW i \in 1..n, NEW j \in 1..m, s[i].id = t[j].id PROVE FALSE
    <3>1. i \in 1..(n + m) /\ n + j \in 1..(n + m) /\ w[i].id = w[n + j].id
      BY <1>1, <1>2, <2>4
    <3>2. i = n + j
      BY <2>1, <3>1
    <3> QED
      BY <1>2, <3>2
  <2>5. Ids(s) \cap Ids(t) = {}
    <3>1. Ids(s) = {s[i].id : i \in 1..n} /\ Ids(t) = {t[i].id : i \in 1..m}
      BY IdsIs DEF n, m
    <3> QED
      BY <2>4, <3>1
  <2> QED
    BY <2>2, <2>3, <2>5, DistinctIdsIs DEF n, m
<1>9. Ids(w) = Ids(s) \cup Ids(t) /\ (DistinctIds(w) <=> DistinctIds(s) /\ DistinctIds(t) /\ Ids(s) \cap Ids(t) = {})
  BY <1>3, <1>7, <1>8
<1> QED
  BY <1>9 DEF w

\* One thing more, or one alone.
LEMMA SingleIds ==
  ASSUME NEW x
  PROVE  Ids(<<x>>) = {x.id} /\ DistinctIds(<<x>>)
<1>1. IsSeq(<<x>>) /\ Len(<<x>>) = 1 /\ <<x>>[1] = x
  BY Single
<1> QED
  BY <1>1, IdsIs, DistinctIdsIs

\* The ids once an element is appended.
LEMMA AppendedIds ==
  ASSUME NEW s, IsSeq(s), NEW x
  PROVE  /\ Ids(Append(s, x)) = Ids(s) \cup {x.id}
         /\ DistinctIds(s) /\ x.id \notin Ids(s) => DistinctIds(Append(s, x))
<1> DEFINE t == Append(s, x)
<1>1. /\ IsSeq(t) /\ Len(t) = Len(s) + 1 /\ ToSet(t) = ToSet(s) \cup {x}
      /\ \A i \in 1..Len(s) : t[i] = s[i]
      /\ t[Len(s) + 1] = x
  BY Appended
<1>2. Len(s) \in Nat
  BY SeqFacts
<1> HIDE DEF t
<1>3. Ids(t) = Ids(s) \cup {x.id}
  BY <1>1, IdsIs
<1>4. ASSUME DistinctIds(s), x.id \notin Ids(s) PROVE DistinctIds(t)
  <2>1. \A i, j \in 1..Len(s) : s[i].id = s[j].id => i = j
    BY <1>4, DistinctIdsIs
  <2>2. \A i \in 1..Len(s) : s[i].id # x.id
    BY <1>4, IdsIs
  <2>3. \A i \in 1..(Len(s) + 1) : i \in 1..Len(s) \/ i = Len(s) + 1
    BY <1>2
  <2>4. ASSUME NEW i \in 1..(Len(s) + 1), NEW j \in 1..(Len(s) + 1), t[i].id = t[j].id PROVE i = j
    BY <1>1, <2>1, <2>2, <2>3, <2>4
  <2> QED
    BY <1>1, <2>4, DistinctIdsIs
<1>5. Ids(t) = Ids(s) \cup {x.id} /\ (DistinctIds(s) /\ x.id \notin Ids(s) => DistinctIds(t))
  BY <1>3, <1>4
<1> QED
  BY <1>5 DEF t

\* One thing less.
LEMMA Removed ==
  ASSUME NEW s, IsSeq(s), NEW i \in 1..Len(s)
  PROVE  /\ IsSeq(RemoveAt(s, i))
         /\ Len(RemoveAt(s, i)) = Len(s) - 1
         /\ \A k \in 1..(Len(s) - 1) : RemoveAt(s, i)[k] = s[IF k < i THEN k ELSE k + 1]
         /\ ToSet(RemoveAt(s, i)) \subseteq ToSet(s)
         /\ \A k \in 1..Len(s) : k # i => s[k] \in ToSet(RemoveAt(s, i))
         /\ DistinctIds(s) => DistinctIds(RemoveAt(s, i))
<1> DEFINE a == SubSeq(s, 1, i - 1)
           c == SubSeq(s, i + 1, Len(s))
           n == Len(s)
           t == RemoveAt(s, i)
<1>1. n \in Nat /\ s = [k \in 1..n |-> s[k]]
  BY SeqFacts
<1>2. /\ IsSeq(a) /\ Len(a) = i - 1 /\ \A k \in 1..(i - 1) : a[k] = s[k]
  <2>1. a \in Seq(ToSet(s)) /\ Len(a) = i - 1 /\ \A k \in 1..(i - 1) : a[k] = s[k]
    BY <1>1 DEF IsSeq
  <2> QED
    BY <2>1, IsSeqOf
<1>3. /\ IsSeq(c) /\ Len(c) = n - i /\ \A k \in 1..(n - i) : c[k] = s[i + k]
  <2>1. c \in Seq(ToSet(s)) /\ Len(c) = n - i
    BY <1>1 DEF IsSeq
  <2>2. \A k \in 1..(n - i) : c[k] = s[i + k]
    BY <1>1 DEF IsSeq
  <2> QED
    BY <2>1, <2>2, IsSeqOf
<1>4. t = a \o c
  BY DEF RemoveAt
<1> HIDE DEF a, c, n, t
<1>5. /\ IsSeq(t) /\ Len(t) = (i - 1) + (n - i)
      /\ \A k \in 1..(i - 1) : t[k] = a[k]
      /\ \A k \in 1..(n - i) : t[(i - 1) + k] = c[k]
  <2>1. IsSeq(a) /\ IsSeq(c) /\ Len(a) = i - 1 /\ Len(c) = n - i
    BY <1>2, <1>3
  <2>2. /\ IsSeq(a \o c) /\ Len(a \o c) = Len(a) + Len(c)
        /\ \A k \in 1..Len(a) : (a \o c)[k] = a[k]
        /\ \A k \in 1..Len(c) : (a \o c)[Len(a) + k] = c[k]
    BY <2>1, Concat
  <2> QED
    BY <1>4, <2>1, <2>2
<1>6. i \in 1..n /\ i \in Int
  BY DEF n
<1>7. Len(t) = n - 1
  BY <1>1, <1>5, <1>6
<1>8. ASSUME NEW k \in 1..(n - 1) PROVE t[k] = s[IF k < i THEN k ELSE k + 1]
  <2>1. CASE k < i
    <3>1. k \in 1..(i - 1)
      BY <1>1, <1>6, <2>1
    <3> QED
      BY <1>2, <1>5, <2>1, <3>1
  <2>2. CASE ~(k < i)
    <3>1. k - (i - 1) \in 1..(n - i) /\ (i - 1) + (k - (i - 1)) = k /\ i + (k - (i - 1)) = k + 1
      BY <1>1, <1>6, <2>2
    <3> QED
      BY <1>3, <1>5, <2>2, <3>1
  <2> QED
    BY <2>1, <2>2
<1>9. ToSet(t) \subseteq ToSet(s)
  <2>1. ASSUME NEW k \in 1..(n - 1) PROVE t[k] \in ToSet(s)
    <3>1. (IF k < i THEN k ELSE k + 1) \in 1..n
      BY <1>1, <1>6
    <3> QED
      BY <1>8, <3>1, SeqFacts DEF n
  <2> QED
    BY <1>5, <1>7, <2>1, SeqFacts
<1>10. ASSUME NEW k \in 1..n, k # i PROVE s[k] \in ToSet(t)
  <2>1. CASE k < i
    <3>1. k \in 1..(n - 1)
      BY <1>1, <1>6, <2>1
    <3>2. t[k] = s[k]
      BY <1>8, <2>1, <3>1
    <3> QED
      BY <1>5, <1>7, <3>1, <3>2, SeqFacts
  <2>2. CASE k > i
    <3>1. k - 1 \in 1..(n - 1) /\ ~(k - 1 < i) /\ (k - 1) + 1 = k
      BY <1>1, <1>6, <2>2
    <3>2. t[k - 1] = s[k]
      BY <1>8, <3>1
    <3> QED
      BY <1>5, <1>7, <3>1, <3>2, SeqFacts
  <2> QED
    BY <1>10, <2>1, <2>2
<1>11. ASSUME DistinctIds(s) PROVE DistinctIds(t)
  <2>1. \A k, l \in 1..n : s[k].id = s[l].id => k = l
    BY <1>11, DistinctIdsIs DEF n
  <2>2. ASSUME NEW k \in 1..(n - 1), NEW l \in 1..(n - 1), t[k].id = t[l].id PROVE k = l
    <3>1. (IF k < i THEN k ELSE k + 1) \in 1..n /\ (IF l < i THEN l ELSE l + 1) \in 1..n
      BY <1>1, <1>6
    <3>2. (IF k < i THEN k ELSE k + 1) = (IF l < i THEN l ELSE l + 1)
      BY <1>8, <2>1, <2>2, <3>1
    <3> QED
      BY <1>6, <3>2
  <2> QED
    BY <1>5, <1>7, <2>2, DistinctIdsIs
<1> QED
  BY <1>5, <1>7, <1>8, <1>9, <1>10, <1>11 DEF t, n

\* The same the other way round.
LEMMA Reversed ==
  ASSUME NEW s, IsSeq(s)
  PROVE  /\ IsSeq(Reverse(s)) /\ ToSet(Reverse(s)) = ToSet(s)
         /\ Ids(Reverse(s)) = Ids(s) /\ (DistinctIds(s) => DistinctIds(Reverse(s)))
<1> DEFINE t == Reverse(s)
           n == Len(s)
<1>1. n \in Nat
  BY SeqFacts
<1>2. t = [i \in 1..n |-> s[(n - i) + 1]]
  BY DEF Reverse
<1>3. t = [i \in 1..n |-> t[i]] /\ \A i \in 1..n : t[i] = s[(n - i) + 1]
  BY <1>2
<1> HIDE DEF t, n
<1>4. IsSeq(t) /\ Len(t) = n
  BY <1>1, <1>3, SeqMade
<1>5. \A i \in 1..n : (n - i) + 1 \in 1..n /\ (n - ((n - i) + 1)) + 1 = i
  BY <1>1
<1>6. \A i \in 1..n : s[i] = t[(n - i) + 1]
  BY <1>3, <1>5
<1>7. \A i \in 1..n : t[i] \in ToSet(s)
  BY <1>3, <1>5, SeqFacts DEF n
<1>8. \A i \in 1..n : s[i] \in ToSet(t)
  BY <1>4, <1>5, <1>6, SeqFacts
<1>9. ToSet(t) = ToSet(s)
  <2>1. ToSet(t) \subseteq ToSet(s)
    BY <1>4, <1>7, SeqFacts
  <2>2. \A x \in ToSet(s) : \E i \in 1..n : s[i] = x
    BY SeqFacts DEF n
  <2> QED
    BY <1>8, <2>1, <2>2
<1>10. Ids(t) = Ids(s)
  BY <1>4, <1>9, IdsIs
<1>11. ASSUME DistinctIds(s) PROVE DistinctIds(t)
  <2>1. \A k, l \in 1..n : s[k].id = s[l].id => k = l
    BY <1>11, DistinctIdsIs DEF n
  <2>2. ASSUME NEW k \in 1..n, NEW l \in 1..n, t[k].id = t[l].id PROVE k = l
    <3>1. (n - k) + 1 = (n - l) + 1
      BY <1>3, <1>5, <2>1, <2>2
    <3> QED
      BY <1>1, <3>1
  <2> QED
    BY <1>4, <2>2, DistinctIdsIs
<1> QED
  BY <1>4, <1>9, <1>10, <1>11 DEF t

-----------------------------------------------------------------------------
(* Worlds, scripts and breakdowns. *)

\* The entities of one kind.
IsCast(seq, kind) ==
  /\ IsSeq(seq) /\ DistinctIds(seq)
  /\ \A e \in ToSet(seq) : {"id", "name", "desc"} \subseteq DOMAIN e /\ e.id[1] = kind

\* The stages of a story, of the right form and referring to what there is.
GoodWorld(world) == IsWorld(world) /\ SoundWorld(world)

GoodScript(scenes) == IsScript(scenes) /\ DistinctIds(scenes) /\ scenes # <<>>

\* A shot of a scene of sc, at a place and with characters of a world.
GoodShot(x, world, sc) ==
  /\ {"id", "scene", "action", "length", "location", "subjects"} \subseteq DOMAIN x
  /\ x.length \in Int /\ IsSeq(x.subjects)
  /\ x.scene \in Ids(sc)
  /\ x.location \in Ids(world.locations)
  /\ ToSet(x.subjects) \subseteq Ids(world.characters)

GoodBreakdown(shots, world, sc) ==
  IsSeq(shots) /\ DistinctIds(shots) /\ \A x \in ToSet(shots) : GoodShot(x, world, sc)

\* A story of the right form that refers to itself.
GoodStory(story) ==
  /\ {"brief", "world", "scenes", "shots"} \subseteq DOMAIN story
  /\ IsBrief(story.brief)
  /\ GoodWorld(story.world)
  /\ GoodScript(story.scenes)
  /\ GoodBreakdown(story.shots, story.world, story.scenes)

\* It is a story that refers to itself.
LEMMA GoodStoryIs ==
  ASSUME NEW story
  PROVE  GoodStory(story) <=> IsStory(story) /\ RefersToItself(story)
BY DEF GoodStory, GoodWorld, GoodScript, GoodBreakdown, GoodShot, IsStory, IsScript, IsBreakdown, RefersToItself

\* Characters and places are told apart by the kind in their ids.
LEMMA GoodWorldIs ==
  ASSUME NEW world
  PROVE  GoodWorld(world) <=>
           /\ {"characters", "locations"} \subseteq DOMAIN world
           /\ IsCast(world.characters, "char") /\ IsCast(world.locations, "loc")
           /\ world.locations # <<>>
<1> DEFINE c == world.characters
           l == world.locations
<1>1. CASE IsSeq(c) /\ IsSeq(l)
  <2>1. ToSet(c \o l) = ToSet(c) \cup ToSet(l)
    BY <1>1, Concat
  <2>2. DistinctIds(c \o l) <=> DistinctIds(c) /\ DistinctIds(l) /\ Ids(c) \cap Ids(l) = {}
    BY <1>1, ConcatIds
  <2>3. ASSUME \A e \in ToSet(c) : e.id[1] = "char", \A e \in ToSet(l) : e.id[1] = "loc"
        PROVE  Ids(c) \cap Ids(l) = {}
    <3>1. Ids(c) = {x.id : x \in ToSet(c)} /\ Ids(l) = {x.id : x \in ToSet(l)}
      BY <1>1, IdsIs
    <3>2. \A id \in Ids(c) : id[1] = "char"
      BY <2>3, <3>1
    <3>3. \A id \in Ids(l) : id[1] = "loc"
      BY <2>3, <3>1
    <3>4. "char" # "loc"
      OBVIOUS
    <3> QED
      BY <3>2, <3>3, <3>4
  <2> QED
    BY <1>1, <2>1, <2>2, <2>3 DEF GoodWorld, IsWorld, SoundWorld, IsCast, Entities
<1>2. CASE ~(IsSeq(c) /\ IsSeq(l))
  BY <1>2 DEF GoodWorld, IsWorld, IsCast
<1> QED
  BY <1>1, <1>2

\* The ids of a world's entities, each known by its kind.
LEMMA EntitiesIs ==
  ASSUME NEW world, GoodWorld(world)
  PROVE  /\ IsSeq(Entities(world)) /\ DistinctIds(Entities(world)) /\ Entities(world) # <<>>
         /\ ToSet(Entities(world)) = ToSet(world.characters) \cup ToSet(world.locations)
         /\ Ids(Entities(world)) = Ids(world.characters) \cup Ids(world.locations)
         /\ Ids(world.characters) \cap Ids(world.locations) = {}
         /\ \A id \in Ids(world.characters) : id[1] = "char"
         /\ \A id \in Ids(world.locations) : id[1] = "loc"
         /\ Len(world.locations) \in Nat /\ Len(world.locations) >= 1
<1> DEFINE c == world.characters
           l == world.locations
<1>1. IsSeq(c) /\ IsSeq(l) /\ IsCast(c, "char") /\ IsCast(l, "loc") /\ l # <<>>
  BY GoodWorldIs DEF IsCast
<1>2. /\ IsSeq(c \o l) /\ ToSet(c \o l) = ToSet(c) \cup ToSet(l) /\ Len(c \o l) = Len(c) + Len(l)
  BY <1>1, Concat
<1>3. /\ Ids(c \o l) = Ids(c) \cup Ids(l)
      /\ DistinctIds(c \o l) <=> DistinctIds(c) /\ DistinctIds(l) /\ Ids(c) \cap Ids(l) = {}
  BY <1>1, ConcatIds
<1>4. DistinctIds(c \o l)
  BY DEF GoodWorld, SoundWorld, Entities
<1>5. Ids(c) = {x.id : x \in ToSet(c)} /\ Ids(l) = {x.id : x \in ToSet(l)}
  BY <1>1, IdsIs
<1>6. (\A id \in Ids(c) : id[1] = "char") /\ (\A id \in Ids(l) : id[1] = "loc")
  BY <1>1, <1>5 DEF IsCast
<1>7. Len(l) \in Nat /\ Len(l) >= 1 /\ Len(c) \in Nat
  <2>1. Len(l) \in Nat /\ Len(c) \in Nat
    BY <1>1, SeqFacts
  <2>2. Len(l) # 0
    BY <1>1, SeqSame, EmptyIsSeq
  <2> QED
    BY <2>1, <2>2
<1>8. c \o l # <<>>
  BY <1>2, <1>7, EmptyIsSeq
<1> QED
  BY <1>2, <1>3, <1>4, <1>6, <1>7, <1>8 DEF Entities

\* Another world with the places and the characters the shots are of will do for them.
LEMMA OtherWorld ==
  ASSUME NEW shots, NEW world, NEW sc, GoodBreakdown(shots, world, sc), NEW other, NEW osc,
         \A x \in ToSet(shots) : /\ x.scene \in Ids(osc) /\ x.location \in Ids(other.locations)
                                 /\ ToSet(x.subjects) \subseteq Ids(other.characters)
  PROVE  GoodBreakdown(shots, other, osc)
BY DEF GoodBreakdown, GoodShot

\* Fewer shots are as good.
LEMMA FewerShots ==
  ASSUME NEW shots, NEW world, NEW sc, GoodBreakdown(shots, world, sc), NEW P, P \subseteq DOMAIN shots
  PROVE  GoodBreakdown(Picked(shots, P), world, sc)
<1>1. IsSeq(Picked(shots, P)) /\ ToSet(Picked(shots, P)) \subseteq ToSet(shots)
  BY PickedIs, PickedSet DEF GoodBreakdown
<1>2. DistinctIds(Picked(shots, P))
  BY PickedDistinct DEF GoodBreakdown
<1> QED
  BY <1>1, <1>2 DEF GoodBreakdown

\* Some of a cast are a cast.
LEMMA FewerCast ==
  ASSUME NEW seq, NEW kind, IsCast(seq, kind), NEW P, P \subseteq DOMAIN seq
  PROVE  IsCast(Picked(seq, P), kind)
<1>1. IsSeq(Picked(seq, P)) /\ ToSet(Picked(seq, P)) \subseteq ToSet(seq)
  BY PickedIs, PickedSet DEF IsCast
<1>2. DistinctIds(Picked(seq, P))
  BY PickedDistinct DEF IsCast
<1> QED
  BY <1>1, <1>2 DEF IsCast

-----------------------------------------------------------------------------
(* New ids. *)

\* A sequence has finitely many ids.
LEMMA IdsAreFinite ==
  ASSUME NEW s, IsSeq(s)
  PROVE  IsFiniteSet(Ids(s))
<1> DEFINE f == [i \in 1..Len(s) |-> s[i].id]
           T == Ids(s)
           D == 1..Len(s)
<1>1. T = {s[i].id : i \in D} /\ Len(s) \in Nat
  BY IdsIs, SeqFacts
<1>2. f \in [D -> T] /\ \A t \in T : \E i \in D : f[i] = t
  BY <1>1
<1>3. IsFiniteSet(D)
  BY <1>1, FS_Interval
<1> HIDE DEF f, T, D
<1>4. f \in Surjection(D, T)
  BY <1>2 DEF Surjection
<1>5. IsFiniteSet(T)
  BY <1>3, <1>4, FS_Surjection
<1> QED
  BY <1>5 DEF T

\* A finite set of natural numbers has a bound.
LEMMA FiniteBound ==
  ASSUME NEW T, T \in SUBSET Nat, IsFiniteSet(T)
  PROVE  \E n \in Nat : \A k \in T : k <= n
<1>1. PICK n \in Nat : \E f : f \in Surjection(1..n, T)
  BY FS_NatSurjection DEF ExistsSurjection
<1>2. PICK f : f \in [1..n -> T] /\ \A t \in T : \E s \in 1..n : f[s] = t
  BY <1>1 DEF Surjection
<1> DEFINE Bounds(m, b) == \A i \in 1..m : f[i] <= b
           Bad == {m \in Nat : m <= n /\ ~ \E b \in Nat : Bounds(m, b)}
<1>3. Bad = {}
  <2> SUFFICES ASSUME Bad # {} PROVE FALSE
    OBVIOUS
  <2>1. PICK m \in Bad : \A k \in Bad : m <= k
    <3>1. Bad \in SUBSET Nat
      OBVIOUS
    <3> HIDE DEF Bad
    <3> QED
      BY <3>1, Least
  <2>2. m # 0
    <3>1. Bounds(0, 0) /\ 0 \in Nat
      OBVIOUS
    <3> QED
      BY <2>1, <3>1
  <2>3. m - 1 \in Nat /\ m - 1 <= n /\ m - 1 \notin Bad /\ m \in 1..n
    <3>1. m \in Nat /\ m <= n
      BY <2>1
    <3> HIDE DEF Bad
    <3> QED
      BY <2>1, <2>2, <3>1
  <2>4. PICK b \in Nat : Bounds(m - 1, b)
    BY <2>3
  <2>5. f[m] \in Nat
    BY <1>2, <2>3
  <2> DEFINE c == IF f[m] > b THEN f[m] ELSE b
  <2>6. c \in Nat /\ c >= b /\ c >= f[m]
    BY <2>5
  <2> HIDE DEF c
  <2>7. \A i \in 1..m : f[i] <= c
    <3> SUFFICES ASSUME NEW i \in 1..m PROVE f[i] <= c
      OBVIOUS
    <3>1. CASE i = m
      BY <2>5, <2>6, <3>1
    <3>2. CASE i # m
      <4>1. i \in 1..(m - 1) /\ i \in 1..n
        BY <2>3, <3>2
      <4>2. f[i] \in Nat /\ f[i] <= b
        BY <1>2, <2>4, <4>1
      <4> QED
        BY <2>6, <4>2
    <3> QED
      BY <3>1, <3>2
  <2> QED
    BY <2>1, <2>6, <2>7
<1>4. PICK b \in Nat : Bounds(n, b)
  BY <1>3
<1> QED
  BY <1>2, <1>4

\* The next scene has a number no scene has.
LEMMA NextSceneIdIs ==
  ASSUME NEW T, T \in SUBSET Nat, IsFiniteSet(T)
  PROVE  NextSceneId(T) \in Nat /\ NextSceneId(T) \notin T
<1> DEFINE U == T \cup {0}
<1>1. U \in SUBSET Nat /\ U # {} /\ IsFiniteSet(U)
  BY FS_AddElement
<1> HIDE DEF U
<1>2. PICK n \in Nat : \A k \in U : k <= n
  BY <1>1, FiniteBound
<1>3. PICK m \in U : \A k \in U : k <= m
  BY <1>1, <1>2, Greatest
<1>4. Max(U) = m
  BY <1>1, <1>3, MaxIs
<1>5. NextSceneId(T) = m + 1
  BY <1>4 DEF NextSceneId, U
<1>6. m \in Nat /\ m + 1 \notin U
  BY <1>1, <1>3
<1> QED
  BY <1>5, <1>6 DEF U

\* A numbered name nobody has is found.
LEMMA UniqueEntityIdIs ==
  ASSUME NEW kind, NEW name, NEW taken, IsFiniteSet(taken)
  PROVE  /\ UniqueEntityId(kind, name, taken) \notin taken
         /\ UniqueEntityId(kind, name, taken)[1] = kind
         /\ \E n \in Nat : UniqueEntityId(kind, name, taken) = <<kind, name, n>>
<1> DEFINE c == Cardinality(taken)
           Free(n) == <<kind, name, n>> \notin taken
           T == {n \in Nat : n \in 1..(c + 1) /\ Free(n)}
<1>1. c \in Nat
  BY FS_CardinalityType
<1>2. T # {}
  <2> SUFFICES ASSUME \A n \in 1..(c + 1) : ~Free(n) PROVE FALSE
    BY <1>1
  <2> DEFINE D == 1..(c + 1)
             f == [n \in D |-> <<kind, name, n>>]
  <2>1. IsFiniteSet(D) /\ Cardinality(D) = c + 1
    <3>1. 1 \in Int /\ c + 1 \in Int /\ 1 <= c + 1 /\ (c + 1) - 1 + 1 = c + 1
      BY <1>1
    <3> HIDE DEF c
    <3> QED
      BY <3>1, FS_Interval
  <2>2. f \in [D -> taken]
    OBVIOUS
  <2>3. \A m, n \in D : f[m] = f[n] => m = n
    OBVIOUS
  <2> HIDE DEF f, D
  <2>4. f \in Injection(D, taken)
    BY <2>2, <2>3 DEF Injection, IsInjective
  <2>5. Cardinality(D) <= Cardinality(taken)
    BY <2>4, FS_Injection
  <2> QED
    BY <1>1, <2>1, <2>5
<1>3. PICK n \in T : \A m \in T : n <= m
  <2>1. T \in SUBSET Nat
    OBVIOUS
  <2> HIDE DEF T
  <2> QED
    BY <1>2, <2>1, Least
<1>4. n \in 1..(c + 1) /\ Free(n) /\ \A m \in 1..(n - 1) : ~Free(m)
  BY <1>1, <1>3
<1> DEFINE Q(k) == k \in 1..(c + 1) /\ Free(k) /\ \A m \in 1..(k - 1) : ~Free(m)
           k0 == CHOOSE k \in 1..(c + 1) : Free(k) /\ \A m \in 1..(k - 1) : ~Free(m)
<1>5. k0 \in 1..(c + 1) /\ Free(k0)
  <2> HIDE DEF Free, c
  <2> QED
    BY <1>4
<1>6. UniqueEntityId(kind, name, taken) = <<kind, name, k0>>
  BY DEF UniqueEntityId
<1>7. k0 \in Nat
  BY <1>1, <1>5
<1> HIDE DEF k0
<1> QED
  BY <1>5, <1>6, <1>7

\* An adopted entity has an id of its kind that is not used.
LEMMA AdoptedIdIs ==
  ASSUME NEW kind, NEW known, NEW all, IsFiniteSet(all), NEW used, IsFiniteSet(used), NEW e,
         \A id \in known : id[1] = kind
  PROVE  /\ AdoptedId(kind, known, all, used, e) \notin used
         /\ AdoptedId(kind, known, all, used, e)[1] = kind
         /\ \/ AdoptedId(kind, known, all, used, e) = e.id
            \/ \E n \in Nat : AdoptedId(kind, known, all, used, e) = <<kind, e.name, n>>
<1>1. IsFiniteSet(used \cup all)
  BY FS_Union
<1>2. /\ UniqueEntityId(kind, e.name, used \cup all) \notin used \cup all
      /\ UniqueEntityId(kind, e.name, used \cup all)[1] = kind
      /\ \E n \in Nat : UniqueEntityId(kind, e.name, used \cup all) = <<kind, e.name, n>>
  BY <1>1, UniqueEntityIdIs
<1> QED
  BY <1>2 DEF AdoptedId

-----------------------------------------------------------------------------
(* What a merge makes of a proposal. *)

\* What Adopt has after each of the proposed entities.
Adopts(f, kind, known, all, proposed, taken) ==
  /\ f[0] = <<>>
  /\ \A i \in 1..Len(proposed) :
       f[i] = Append(f[i - 1], [proposed[i] EXCEPT !.id =
                AdoptedId(kind, known, all, taken \cup Ids(f[i - 1]), proposed[i])])

\* The function by which Adopt is defined exists.
LEMMA AdoptDefined ==
  ASSUME NEW kind, NEW known, NEW all, NEW proposed, IsSeq(proposed), NEW taken
  PROVE  \E f : /\ Adopts(f, kind, known, all, proposed, taken)
                /\ Adopt(kind, known, all, proposed, taken) = f[Len(proposed)]
<1> DEFINE n == Len(proposed)
           New(a, i) == [proposed[i] EXCEPT !.id = AdoptedId(kind, known, all, taken \cup Ids(a), proposed[i])]
           Defines(f, m) == f = [i \in 0..m |-> IF i = 0 THEN <<>> ELSE Append(f[i - 1], New(f[i - 1], i))]
           Bad == {m \in Nat : m <= n /\ ~ \E f : Defines(f, m)}
<1>1. n \in Nat
  BY SeqFacts
<1>2. Bad = {}
  <2> SUFFICES ASSUME Bad # {} PROVE FALSE
    OBVIOUS
  <2>1. PICK m \in Bad : \A k \in Bad : m <= k
    <3>1. Bad \in SUBSET Nat
      OBVIOUS
    <3> HIDE DEF Bad
    <3> QED
      BY <3>1, Least
  <2> HIDE DEF New
  <2>2. m # 0
    <3> DEFINE f == [i \in 0..0 |-> <<>>]
    <3>1. Defines(f, 0)
      OBVIOUS
    <3> HIDE DEF f, Defines
    <3> QED
      BY <2>1, <3>1
  <2>3. m \in Nat /\ m <= n
    BY <2>1
  <2>4. PICK g : Defines(g, m - 1)
    <3>1. m - 1 \in Nat /\ m - 1 <= n
      BY <1>1, <2>2, <2>3
    <3>2. m - 1 \notin Bad
      <4> HIDE DEF Bad
      <4> QED
        BY <2>1, <2>3, <3>1
    <3> HIDE DEF Defines
    <3> QED
      BY <3>1, <3>2
  <2> DEFINE f == [i \in 0..m |-> IF i < m THEN g[i] ELSE Append(g[m - 1], New(g[m - 1], m))]
  <2>5. \A i \in 0..m : i < m => f[i] = g[i]
    OBVIOUS
  <2>6. f[m] = Append(g[m - 1], New(g[m - 1], m))
    BY <2>3
  <2>7. \A i \in 0..(m - 1) : g[i] = IF i = 0 THEN <<>> ELSE Append(g[i - 1], New(g[i - 1], i))
    BY <2>4
  <2>8. f = [i \in 0..m |-> f[i]]
    OBVIOUS
  <2> HIDE DEF f
  <2>9. ASSUME NEW i \in 0..m PROVE f[i] = IF i = 0 THEN <<>> ELSE Append(f[i - 1], New(f[i - 1], i))
    <3>1. CASE i = m
      <4>1. f[m - 1] = g[m - 1]
        BY <2>2, <2>3, <2>5
      <4> QED
        BY <2>2, <2>6, <3>1, <4>1
    <3>2. CASE i = 0
      <4>1. f[0] = g[0] /\ g[0] = <<>>
        BY <2>2, <2>3, <2>5, <2>7
      <4> QED
        BY <3>2, <4>1
    <3>3. CASE i # m /\ i # 0
      <4>1. i \in 0..(m - 1) /\ i < m /\ i - 1 \in 0..m /\ i - 1 < m
        BY <2>3, <3>3
      <4>2. f[i] = g[i] /\ f[i - 1] = g[i - 1]
        BY <2>5, <4>1
      <4> QED
        BY <2>7, <3>3, <4>1, <4>2
    <3> QED
      BY <3>1, <3>2, <3>3
  <2>10. Defines(f, m)
    BY <2>8, <2>9
  <2> HIDE DEF Defines
  <2> QED
    BY <2>1, <2>10
<1>3. \E f : Defines(f, n)
  <2>1. n \notin Bad
    BY <1>2
  <2> HIDE DEF Defines
  <2> QED
    BY <1>1, <2>1
<1> DEFINE h == CHOOSE f : Defines(f, n)
<1>4. Defines(h, n)
  <2> HIDE DEF Defines
  <2> QED
    BY <1>3
<1>5. Adopt(kind, known, all, proposed, taken) = h[n]
  BY DEF Adopt
<1> HIDE DEF h, New
<1>6. \A i \in 0..n : h[i] = IF i = 0 THEN <<>> ELSE Append(h[i - 1], New(h[i - 1], i))
  BY <1>4, Zenon
<1>7. h[0] = <<>>
  <2>1. 0 \in 0..n
    BY <1>1
  <2> QED
    BY <1>6, <2>1
<1>8. ASSUME NEW i \in 1..n PROVE h[i] = Append(h[i - 1], New(h[i - 1], i))
  <2>1. i \in 0..n /\ i # 0
    BY <1>1
  <2> QED
    BY <1>6, <2>1
<1>9. Adopts(h, kind, known, all, proposed, taken)
  BY <1>7, <1>8 DEF Adopts, New
<1> QED
  BY <1>5, <1>9

\* Adopted entities are of the kind asked for, each under an id of its own that was not taken.
LEMMA AdoptIs ==
  ASSUME NEW kind, NEW known, \A id \in known : id[1] = kind,
         NEW all, IsFiniteSet(all), NEW taken, IsFiniteSet(taken),
         NEW proposed, IsSeq(proposed),
         \A e \in ToSet(proposed) : {"id", "name", "desc"} \subseteq DOMAIN e
  PROVE  /\ IsCast(Adopt(kind, known, all, proposed, taken), kind)
         /\ Ids(Adopt(kind, known, all, proposed, taken)) \cap taken = {}
         /\ Len(Adopt(kind, known, all, proposed, taken)) = Len(proposed)
<1> DEFINE n == Len(proposed)
           New(a, i) == [proposed[i] EXCEPT !.id = AdoptedId(kind, known, all, taken \cup Ids(a), proposed[i])]
<1>1. PICK f : /\ Adopts(f, kind, known, all, proposed, taken)
               /\ Adopt(kind, known, all, proposed, taken) = f[n]
  BY AdoptDefined
<1>2. n \in Nat
  BY SeqFacts
<1>3. f[0] = <<>> /\ \A i \in 1..n : f[i] = Append(f[i - 1], New(f[i - 1], i))
  BY <1>1 DEF Adopts
<1> DEFINE Good(i) == IsCast(f[i], kind) /\ Ids(f[i]) \cap taken = {} /\ Len(f[i]) = i
           Bad == {i \in Nat : i <= n /\ ~Good(i)}
<1>4. Bad = {}
  <2> SUFFICES ASSUME Bad # {} PROVE FALSE
    OBVIOUS
  <2>1. PICK i \in Bad : \A k \in Bad : i <= k
    <3>1. Bad \in SUBSET Nat
      OBVIOUS
    <3> HIDE DEF Bad
    <3> QED
      BY <3>1, Least
  <2>2. i \in Nat /\ i <= n /\ ~Good(i)
    BY <2>1
  <2>3. i # 0
    <3>1. IsSeq(<<>>) /\ Len(<<>>) = 0 /\ ToSet(<<>>) = {}
      BY EmptyIsSeq
    <3>2. Ids(<<>>) = {} /\ DistinctIds(<<>>)
      BY <3>1, IdsIs, DistinctIdsIs
    <3>3. Good(0)
      BY <1>3, <3>1, <3>2 DEF IsCast
    <3> HIDE DEF Good
    <3> QED
      BY <2>2, <3>3
  <2> DEFINE a == f[i - 1]
             x == New(a, i)
  <2>4. Good(i - 1) /\ i \in 1..n
    <3>1. i - 1 \in Nat /\ i - 1 <= n /\ i \in 1..n
      BY <1>2, <2>2, <2>3
    <3>2. i - 1 \notin Bad
      <4> HIDE DEF Bad
      <4> QED
        BY <2>1, <2>2, <3>1
    <3> HIDE DEF Good
    <3> QED
      BY <3>1, <3>2
  <2>5. IsSeq(a) /\ DistinctIds(a) /\ Len(a) = i - 1 /\ Ids(a) \cap taken = {}
    BY <2>4 DEF IsCast
  <2>6. \A e \in ToSet(a) : {"id", "name", "desc"} \subseteq DOMAIN e /\ e.id[1] = kind
    BY <2>4 DEF IsCast
  <2>7. f[i] = Append(a, x)
    BY <1>3, <2>4
  <2>8. /\ x.id \notin taken \cup Ids(a) /\ x.id[1] = kind
        /\ {"id", "name", "desc"} \subseteq DOMAIN x
    <3> DEFINE e == proposed[i]
               id == AdoptedId(kind, known, all, taken \cup Ids(a), e)
    <3>1. IsFiniteSet(taken \cup Ids(a))
      <4>1. IsFiniteSet(Ids(a))
        BY <2>5, IdsAreFinite
      <4> HIDE DEF a
      <4> QED
        BY <4>1, FS_Union
    <3>2. id \notin taken \cup Ids(a) /\ id[1] = kind
      <4> DEFINE used == taken \cup Ids(a)
      <4> HIDE DEF e, a, used
      <4>1. AdoptedId(kind, known, all, used, e) \notin used /\ AdoptedId(kind, known, all, used, e)[1] = kind
        BY <3>1, AdoptedIdIs DEF used
      <4> QED
        BY <4>1 DEF used
    <3>3. {"id", "name", "desc"} \subseteq DOMAIN e
      BY <2>4, SeqFacts
    <3>4. x = [e EXCEPT !.id = id]
      OBVIOUS
    <3> HIDE DEF id, e, x
    <3>5. x.id = id /\ DOMAIN x = DOMAIN e
      BY <3>3, <3>4
    <3> QED
      BY <3>2, <3>3, <3>5
  <2> HIDE DEF x, a
  <2>9. /\ IsSeq(Append(a, x)) /\ Len(Append(a, x)) = i /\ ToSet(Append(a, x)) = ToSet(a) \cup {x}
        /\ Ids(Append(a, x)) = Ids(a) \cup {x.id} /\ DistinctIds(Append(a, x))
    <3>1. Len(Append(a, x)) = Len(a) + 1 /\ IsSeq(Append(a, x)) /\ ToSet(Append(a, x)) = ToSet(a) \cup {x}
      BY <2>5, Appended
    <3>2. Ids(Append(a, x)) = Ids(a) \cup {x.id} /\ DistinctIds(Append(a, x))
      BY <2>5, <2>8, AppendedIds
    <3> QED
      BY <2>2, <2>5, <3>1, <3>2
  <2>10. Good(i)
    BY <2>5, <2>6, <2>7, <2>8, <2>9 DEF IsCast
  <2> QED
    BY <2>2, <2>10
<1>5. Good(n)
  <2>1. n \notin Bad
    BY <1>4
  <2> HIDE DEF Good
  <2> QED
    BY <1>2, <2>1
<1> QED
  BY <1>1, <1>5

-----------------------------------------------------------------------------
(* A story with one of its stages changed. *)

\* A story stays sound under another world that has the places and characters its shots name.
LEMMA WithWorld ==
  ASSUME NEW story, GoodStory(story), NEW world, GoodWorld(world),
         \A x \in ToSet(story.shots) :
           x.location \in Ids(world.locations) /\ ToSet(x.subjects) \subseteq Ids(world.characters)
  PROVE  GoodStory([story EXCEPT !.world = world])
<1> DEFINE new == [story EXCEPT !.world = world]
<1>1. /\ new.world = world /\ new.brief = story.brief /\ new.scenes = story.scenes
      /\ new.shots = story.shots /\ DOMAIN new = DOMAIN story
  BY DEF GoodStory
<1>2. GoodBreakdown(story.shots, story.world, story.scenes)
  BY DEF GoodStory
<1>3. GoodBreakdown(story.shots, world, story.scenes)
  <2>1. \A x \in ToSet(story.shots) : x.scene \in Ids(story.scenes)
    BY <1>2 DEF GoodBreakdown, GoodShot
  <2> QED
    BY <1>2, <2>1, OtherWorld
<1> HIDE DEF new
<1> QED
  BY <1>1, <1>3 DEF GoodStory

\* A story stays sound with other shots that name scenes, places and characters it has.
LEMMA WithShots ==
  ASSUME NEW story, GoodStory(story), NEW shots, GoodBreakdown(shots, story.world, story.scenes)
  PROVE  GoodStory([story EXCEPT !.shots = shots])
<1> DEFINE new == [story EXCEPT !.shots = shots]
<1>1. /\ new.world = story.world /\ new.brief = story.brief /\ new.scenes = story.scenes
      /\ new.shots = shots /\ DOMAIN new = DOMAIN story
  BY DEF GoodStory
<1> HIDE DEF new
<1> QED
  BY <1>1 DEF GoodStory

\* A story stays sound under another world with shots of it.
LEMMA WithWorldAndShots ==
  ASSUME NEW story, GoodStory(story), NEW world, GoodWorld(world),
         NEW shots, GoodBreakdown(shots, world, story.scenes)
  PROVE  GoodStory([story EXCEPT !.world = world, !.shots = shots])
<1> DEFINE new == [story EXCEPT !.world = world, !.shots = shots]
<1>1. /\ new.world = world /\ new.brief = story.brief /\ new.scenes = story.scenes
      /\ new.shots = shots /\ DOMAIN new = DOMAIN story
  BY DEF GoodStory
<1> HIDE DEF new
<1> QED
  BY <1>1 DEF GoodStory

\* A story stays sound with other scenes and shots of them.
LEMMA WithScenesAndShots ==
  ASSUME NEW story, GoodStory(story), NEW scenes, GoodScript(scenes),
         NEW shots, GoodBreakdown(shots, story.world, scenes)
  PROVE  GoodStory([story EXCEPT !.scenes = scenes, !.shots = shots])
<1> DEFINE new == [story EXCEPT !.scenes = scenes, !.shots = shots]
<1>1. /\ new.world = story.world /\ new.brief = story.brief /\ new.scenes = scenes
      /\ new.shots = shots /\ DOMAIN new = DOMAIN story
  BY DEF GoodStory
<1> HIDE DEF new
<1> QED
  BY <1>1 DEF GoodStory

\* A story stays sound with other scenes that have the ids its shots name.
LEMMA WithScenes ==
  ASSUME NEW story, GoodStory(story), NEW scenes, GoodScript(scenes),
         \A x \in ToSet(story.shots) : x.scene \in Ids(scenes)
  PROVE  GoodStory([story EXCEPT !.scenes = scenes])
<1> DEFINE new == [story EXCEPT !.scenes = scenes]
<1>1. /\ new.world = story.world /\ new.brief = story.brief /\ new.scenes = scenes
      /\ new.shots = story.shots /\ DOMAIN new = DOMAIN story
  BY DEF GoodStory
<1>2. GoodBreakdown(story.shots, story.world, story.scenes)
  BY DEF GoodStory
<1>3. GoodBreakdown(story.shots, story.world, scenes)
  <2>1. \A x \in ToSet(story.shots) : x.location \in Ids(story.world.locations)
                                      /\ ToSet(x.subjects) \subseteq Ids(story.world.characters)
    BY <1>2 DEF GoodBreakdown, GoodShot
  <2> QED
    BY <1>2, <2>1, OtherWorld
<1> HIDE DEF new
<1> QED
  BY <1>1, <1>3 DEF GoodStory

\* Entities of a kind told anew under their ids are entities of the kind.
LEMMA Recast ==
  ASSUME NEW seq, NEW kind, IsCast(seq, kind), NEW t, t = [i \in DOMAIN seq |-> t[i]],
         \A i \in 1..Len(seq) : {"id", "name", "desc"} \subseteq DOMAIN t[i] /\ t[i].id = seq[i].id
  PROVE  IsCast(t, kind) /\ Ids(t) = Ids(seq) /\ Len(t) = Len(seq)
<1>1. IsSeq(seq) /\ DistinctIds(seq) /\ \A e \in ToSet(seq) : e.id[1] = kind
  BY DEF IsCast
<1>2. Len(seq) \in Nat /\ DOMAIN seq = 1..Len(seq) /\ \A i \in 1..Len(seq) : seq[i] \in ToSet(seq)
  BY <1>1, SeqFacts
<1>3. IsSeq(t) /\ Len(t) = Len(seq)
  <2>1. t = [i \in 1..Len(seq) |-> t[i]]
    BY <1>2
  <2> QED
    BY <1>2, <2>1, SeqMade
<1>4. Ids(t) = Ids(seq) /\ DistinctIds(t)
  BY <1>1, <1>3, SameIds
<1>5. \A x \in ToSet(t) : \E i \in 1..Len(seq) : t[i] = x
  BY <1>3, SeqFacts
<1>6. \A x \in ToSet(t) : {"id", "name", "desc"} \subseteq DOMAIN x /\ x.id[1] = kind
  BY <1>1, <1>2, <1>5
<1> QED
  BY <1>3, <1>4, <1>6 DEF IsCast

\* Shots told anew under their ids, each of them sound, are a sound breakdown.
LEMMA Reshot ==
  ASSUME NEW shots, NEW world, NEW sc, GoodBreakdown(shots, world, sc), NEW other, NEW osc,
         NEW t, t = [i \in DOMAIN shots |-> t[i]],
         \A i \in 1..Len(shots) : t[i].id = shots[i].id /\ GoodShot(t[i], other, osc)
  PROVE  GoodBreakdown(t, other, osc)
<1>1. IsSeq(shots) /\ DistinctIds(shots)
  BY DEF GoodBreakdown
<1>2. Len(shots) \in Nat /\ DOMAIN shots = 1..Len(shots)
  BY <1>1, SeqFacts
<1>3. IsSeq(t) /\ Len(t) = Len(shots)
  <2>1. t = [i \in 1..Len(shots) |-> t[i]]
    BY <1>2
  <2> QED
    BY <1>2, <2>1, SeqMade
<1>4. DistinctIds(t)
  BY <1>1, <1>3, SameIds
<1>5. \A x \in ToSet(t) : \E i \in 1..Len(shots) : t[i] = x
  BY <1>3, SeqFacts
<1> QED
  BY <1>3, <1>4, <1>5 DEF GoodBreakdown

\* What is among a set is a sequence of the elements that are in it.
LEMMA AmongIs ==
  ASSUME NEW s, IsSeq(s), NEW set
  PROVE  IsSeq(Among(s, set)) /\ ToSet(Among(s, set)) = ToSet(s) \cap set
<1> DEFINE P == {i \in DOMAIN s : s[i] \in set}
<1>1. Among(s, set) = Picked(s, P)
  BY DEF Among, Where
<1>2. P \subseteq DOMAIN s
  OBVIOUS
<1>3. DOMAIN s = 1..Len(s) /\ (\A i \in 1..Len(s) : s[i] \in ToSet(s)) /\ \A x \in ToSet(s) : \E i \in 1..Len(s) : s[i] = x
  BY SeqFacts
<1>4. {s[i] : i \in P} = ToSet(s) \cap set
  <2>1. ASSUME NEW x \in ToSet(s) \cap set PROVE x \in {s[i] : i \in P}
    <3>1. PICK i \in 1..Len(s) : s[i] = x
      BY <1>3
    <3>2. i \in P
      BY <1>3, <3>1
    <3> QED
      BY <3>1, <3>2
  <2>2. ASSUME NEW x \in {s[i] : i \in P} PROVE x \in ToSet(s) \cap set
    BY <1>3
  <2> QED
    BY <2>1, <2>2
<1> HIDE DEF P
<1>5. IsSeq(Picked(s, P)) /\ ToSet(Picked(s, P)) = {s[i] : i \in P}
  BY <1>2, PickedIs, PickedSet
<1> QED
  BY <1>1, <1>4, <1>5

-----------------------------------------------------------------------------
(* merge_world. *)

\* Entities told again in a proposal's words are still the story's: its world stays sound.
LEMMA MergeTargetsIsSound ==
  ASSUME NEW story, GoodStory(story), NEW proposed, IsWorld(proposed), NEW targets
  PROVE  GoodStory(MergeTargets(story, proposed, targets))
<1> DEFINE merged(e) ==
             IF e.id \notin targets \cap Ids(Entities(proposed)) THEN e
             ELSE [e EXCEPT !.name = ById(Entities(proposed), e.id).name,
                            !.desc = ById(Entities(proposed), e.id).desc]
           all(seq) == [i \in DOMAIN seq |-> merged(seq[i])]
           world == [characters |-> all(story.world.characters), locations |-> all(story.world.locations)]
<1>1. MergeTargets(story, proposed, targets) = [story EXCEPT !.world = world]
  BY DEF MergeTargets
<1>2. GoodWorld(story.world) /\ GoodBreakdown(story.shots, story.world, story.scenes)
  BY DEF GoodStory
<1>3. /\ IsCast(story.world.characters, "char") /\ IsCast(story.world.locations, "loc")
      /\ story.world.locations # <<>>
  BY <1>2, GoodWorldIs
<1>4. ASSUME NEW seq, NEW kind, IsCast(seq, kind)
      PROVE  IsCast(all(seq), kind) /\ Ids(all(seq)) = Ids(seq) /\ Len(all(seq)) = Len(seq)
  <2>1. DOMAIN seq = 1..Len(seq) /\ \A i \in 1..Len(seq) : {"id", "name", "desc"} \subseteq DOMAIN seq[i]
    <3>1. IsSeq(seq) /\ \A e \in ToSet(seq) : {"id", "name", "desc"} \subseteq DOMAIN e
      BY <1>4 DEF IsCast
    <3> QED
      BY <3>1, SeqFacts
  <2>2. ASSUME NEW i \in 1..Len(seq)
        PROVE  {"id", "name", "desc"} \subseteq DOMAIN all(seq)[i] /\ all(seq)[i].id = seq[i].id
    <3> DEFINE e == seq[i]
               o == ById(Entities(proposed), e.id)
    <3>1. all(seq)[i] = merged(e)
      BY <2>1
    <3>2. {"id", "name", "desc"} \subseteq DOMAIN e
      BY <2>1
    <3>3. all(seq)[i] = e \/ all(seq)[i] = [e EXCEPT !.name = o.name, !.desc = o.desc]
      BY <3>1
    <3> HIDE DEF e, o, all
    <3>4. {"id", "name", "desc"} \subseteq DOMAIN all(seq)[i] /\ all(seq)[i].id = e.id
      BY <3>2, <3>3
    <3> QED
      BY <3>4 DEF e
  <2>3. all(seq) = [i \in DOMAIN seq |-> all(seq)[i]]
    OBVIOUS
  <2> HIDE DEF all
  <2> QED
    BY <1>4, <2>2, <2>3, Recast
<1> HIDE DEF all
<1>5. /\ world.characters = all(story.world.characters) /\ world.locations = all(story.world.locations)
      /\ {"characters", "locations"} \subseteq DOMAIN world
  OBVIOUS
<1> HIDE DEF world
<1>6. /\ IsCast(world.characters, "char") /\ Ids(world.characters) = Ids(story.world.characters)
      /\ IsCast(world.locations, "loc") /\ Ids(world.locations) = Ids(story.world.locations)
      /\ Len(world.locations) = Len(story.world.locations)
  BY <1>3, <1>4, <1>5
<1>7. GoodWorld(world)
  <2>1. Len(story.world.locations) >= 1
    BY <1>2, EntitiesIs
  <2>2. world.locations # <<>>
    BY <1>6, <2>1, EmptyIsSeq
  <2> QED
    BY <1>5, <1>6, <2>2, GoodWorldIs
<1>8. \A x \in ToSet(story.shots) :
        x.location \in Ids(world.locations) /\ ToSet(x.subjects) \subseteq Ids(world.characters)
  BY <1>2, <1>6 DEF GoodBreakdown, GoodShot
<1> QED
  BY <1>1, <1>7, <1>8, WithWorld

\* A world a model proposes, whatever ids it gives, leaves a sound story: the kinds are kept
\* apart, places in use survive, and nobody who is gone is still in a shot.
THEOREM MergeWorldIsSound ==
  ASSUME NEW story, GoodStory(story), NEW proposed, IsWorld(proposed), NEW targets
  PROVE  GoodStory(MergeWorld(story, proposed, targets))
<1>1. CASE targets # {}
  BY <1>1, MergeTargetsIsSound DEF MergeWorld
<1>2. CASE targets = {}
  <2> DEFINE world == story.world
             all == Ids(Entities(world))
             characters == Adopt("char", Ids(world.characters), all, proposed.characters, {})
             locations == Adopt("loc", Ids(world.locations), all, proposed.locations, Ids(characters))
             used == {x.location : x \in ToSet(story.shots)}
             lost == {i \in DOMAIN world.locations : world.locations[i].id \in used \ Ids(locations)}
             restored == Picked(world.locations, lost)
             places == IF locations \o restored = <<>> THEN world.locations ELSE locations \o restored
             seen(x) == [x EXCEPT !.subjects = Among(@, Ids(characters))]
             new == [characters |-> characters, locations |-> places]
             shots == [i \in DOMAIN story.shots |-> seen(story.shots[i])]
  <2>1. MergeWorld(story, proposed, targets) = [story EXCEPT !.world = new, !.shots = shots]
    BY <1>2 DEF MergeWorld, Where
  <2>2. GoodWorld(world) /\ GoodBreakdown(story.shots, world, story.scenes)
    BY DEF GoodStory
  <2>3. /\ IsCast(world.characters, "char") /\ IsCast(world.locations, "loc")
        /\ world.locations # <<>>
    BY <2>2, GoodWorldIs
  <2>4. /\ IsFiniteSet(all)
        /\ \A id \in Ids(world.characters) : id[1] = "char"
        /\ \A id \in Ids(world.locations) : id[1] = "loc"
    <3>1. IsSeq(Entities(world))
      BY <2>2, EntitiesIs
    <3> QED
      BY <2>2, <3>1, EntitiesIs, IdsAreFinite
  <2>5. /\ IsSeq(proposed.characters) /\ IsSeq(proposed.locations)
        /\ \A e \in ToSet(proposed.characters) : {"id", "name", "desc"} \subseteq DOMAIN e
        /\ \A e \in ToSet(proposed.locations) : {"id", "name", "desc"} \subseteq DOMAIN e
    <3>1. IsSeq(proposed.characters) /\ IsSeq(proposed.locations)
      BY DEF IsWorld
    <3>2. ToSet(Entities(proposed)) = ToSet(proposed.characters) \cup ToSet(proposed.locations)
      BY <3>1, Concat DEF Entities
    <3>3. \A e \in ToSet(Entities(proposed)) : {"id", "name", "desc"} \subseteq DOMAIN e
      BY DEF IsWorld
    <3> QED
      BY <3>1, <3>2, <3>3
  <2> HIDE DEF world, all
  <2>6. IsCast(characters, "char")
    <3>1. IsFiniteSet({})
      BY FS_EmptySet
    <3> QED
      BY <2>4, <2>5, <3>1, AdoptIs
  <2> HIDE DEF characters
  <2>7. IsFiniteSet(Ids(characters))
    BY <2>6, IdsAreFinite DEF IsCast
  <2>8. IsCast(locations, "loc")
    BY <2>4, <2>5, <2>7, AdoptIs
  <2> HIDE DEF locations
  <2>9. lost \subseteq DOMAIN world.locations
    OBVIOUS
  <2>10. IsCast(restored, "loc")
    <3> HIDE DEF lost
    <3> QED
      BY <2>3, <2>9, FewerCast
  <2>11. Ids(restored) = used \ Ids(locations)
    <3>1. IsSeq(world.locations)
      BY <2>3 DEF IsCast
    <3>2. Ids(restored) = {world.locations[i].id : i \in lost}
      <4> HIDE DEF lost
      <4> QED
        BY <2>9, <3>1, PickedSet
    <3>3. used \subseteq Ids(world.locations)
      BY <2>2 DEF GoodBreakdown, GoodShot
    <3>4. \A id \in used \ Ids(locations) : id \in {world.locations[i].id : i \in lost}
      BY <3>3 DEF Ids
    <3>5. \A id \in {world.locations[i].id : i \in lost} : id \in used \ Ids(locations)
      OBVIOUS
    <3> HIDE DEF lost, restored, used
    <3> QED
      BY <3>2, <3>4, <3>5
  <2> HIDE DEF restored
  <2>12. /\ IsCast(locations \o restored, "loc")
         /\ Ids(locations \o restored) = Ids(locations) \cup Ids(restored)
    <3>1. /\ IsSeq(locations) /\ DistinctIds(locations) /\ IsSeq(restored) /\ DistinctIds(restored)
          /\ \A e \in ToSet(locations) : {"id", "name", "desc"} \subseteq DOMAIN e /\ e.id[1] = "loc"
          /\ \A e \in ToSet(restored) : {"id", "name", "desc"} \subseteq DOMAIN e /\ e.id[1] = "loc"
      BY <2>8, <2>10 DEF IsCast
    <3>2. Ids(locations) \cap Ids(restored) = {}
      BY <2>11
    <3>3. /\ IsSeq(locations \o restored) /\ ToSet(locations \o restored) = ToSet(locations) \cup ToSet(restored)
      BY <3>1, Concat
    <3>4. DistinctIds(locations \o restored) /\ Ids(locations \o restored) = Ids(locations) \cup Ids(restored)
      BY <3>1, <3>2, ConcatIds
    <3> QED
      BY <3>1, <3>3, <3>4 DEF IsCast
  <2>13. IsCast(places, "loc") /\ places # <<>>
    BY <2>3, <2>12
  <2>14. used \subseteq Ids(places)
    <3>1. CASE locations \o restored = <<>>
      <4>1. used \subseteq Ids(world.locations)
        BY <2>2 DEF GoodBreakdown, GoodShot
      <4> QED
        BY <3>1, <4>1
    <3>2. CASE locations \o restored # <<>>
      <4>1. places = locations \o restored
        BY <3>2
      <4> QED
        BY <2>11, <2>12, <4>1
    <3> QED
      BY <3>1, <3>2
  <2>15. /\ new.characters = characters /\ new.locations = places
         /\ {"characters", "locations"} \subseteq DOMAIN new
    OBVIOUS
  <2>16. \A x \in ToSet(story.shots) : x.location \in Ids(places)
    BY <2>14
  <2> HIDE DEF places, new
  <2>17. GoodWorld(new)
    BY <2>6, <2>13, <2>15, GoodWorldIs
  <2>18. ASSUME NEW i \in 1..Len(story.shots)
         PROVE  shots[i].id = story.shots[i].id /\ GoodShot(shots[i], new, story.scenes)
    <3> DEFINE x == story.shots[i]
               cast == Among(x.subjects, Ids(characters))
    <3>1. IsSeq(story.shots)
      BY <2>2 DEF GoodBreakdown
    <3>2. x \in ToSet(story.shots) /\ DOMAIN story.shots = 1..Len(story.shots)
      BY <3>1, SeqFacts
    <3>3. GoodShot(x, world, story.scenes) /\ x.location \in Ids(places)
      BY <2>2, <2>16, <3>2 DEF GoodBreakdown
    <3>4. shots[i] = [x EXCEPT !.subjects = cast]
      BY <3>2
    <3>5. IsSeq(cast) /\ ToSet(cast) \subseteq Ids(characters)
      <4>1. IsSeq(x.subjects)
        BY <3>3 DEF GoodShot
      <4> HIDE DEF x
      <4> QED
        BY <4>1, AmongIs
    <3> HIDE DEF x, cast, shots
    <3>6. /\ shots[i].id = x.id /\ shots[i].scene = x.scene /\ shots[i].location = x.location
          /\ shots[i].length = x.length /\ shots[i].subjects = cast /\ DOMAIN shots[i] = DOMAIN x
      BY <3>3, <3>4 DEF GoodShot
    <3>7. GoodShot(shots[i], new, story.scenes)
      BY <2>15, <3>3, <3>5, <3>6 DEF GoodShot
    <3> QED
      BY <3>6, <3>7 DEF x
  <2>19. shots = [i \in DOMAIN story.shots |-> shots[i]]
    OBVIOUS
  <2> HIDE DEF shots
  <2>20. GoodBreakdown(shots, new, story.scenes)
    BY <2>2, <2>18, <2>19, Reshot
  <2>21. GoodStory([story EXCEPT !.world = new, !.shots = shots])
    BY <2>17, <2>20, WithWorldAndShots
  <2> QED
    BY <2>1, <2>21
<1> QED
  BY <1>1, <1>2

-----------------------------------------------------------------------------
(* merge_script. *)

\* A scene of a proposal under the id it is given.
Retold(existing, acc, scene) ==
  [scene EXCEPT !.id = IF scene.id \in existing \ Ids(acc) THEN scene.id
                       ELSE NextSceneId(existing \cup Ids(acc))]

\* What MergeScript has after each of the proposed scenes.
Merges(f, existing, proposed) ==
  /\ f[0] = <<>>
  /\ \A i \in 1..Len(proposed) : f[i] = Append(f[i - 1], Retold(existing, f[i - 1], proposed[i]))

\* The story told in other scenes, without the shots of those it no longer has.
Told(story, scenes) ==
  [story EXCEPT !.scenes = scenes, !.shots = Where(@, LAMBDA x : x.scene \in Ids(scenes))]

\* The function by which MergeScript numbers the scenes exists.
LEMMA MergeDefined ==
  ASSUME NEW story, NEW proposed, IsSeq(proposed)
  PROVE  \E f : /\ Merges(f, Ids(story.scenes), proposed)
                /\ MergeScript(story, proposed, {}) = Told(story, f[Len(proposed)])
<1> DEFINE n == Len(proposed)
           existing == Ids(story.scenes)
           add(a, x) ==
             LET id == IF x.id \in existing \ Ids(a) THEN x.id ELSE NextSceneId(existing \cup Ids(a))
             IN Append(a, [x EXCEPT !.id = id])
           Defines(f, m) == f = [i \in 0..m |-> IF i = 0 THEN <<>> ELSE add(f[i - 1], proposed[i])]
           Bad == {m \in Nat : m <= n /\ ~ \E f : Defines(f, m)}
<1>1. n \in Nat
  BY SeqFacts
<1>2. Bad = {}
  <2> SUFFICES ASSUME Bad # {} PROVE FALSE
    OBVIOUS
  <2>1. PICK m \in Bad : \A k \in Bad : m <= k
    <3>1. Bad \in SUBSET Nat
      OBVIOUS
    <3> HIDE DEF Bad
    <3> QED
      BY <3>1, Least
  <2> HIDE DEF add
  <2>2. m # 0
    <3> DEFINE f == [i \in 0..0 |-> <<>>]
    <3>1. Defines(f, 0)
      OBVIOUS
    <3> HIDE DEF f, Defines
    <3> QED
      BY <2>1, <3>1
  <2>3. m \in Nat /\ m <= n
    BY <2>1
  <2>4. PICK g : Defines(g, m - 1)
    <3>1. m - 1 \in Nat /\ m - 1 <= n
      BY <1>1, <2>2, <2>3
    <3>2. m - 1 \notin Bad
      <4> HIDE DEF Bad
      <4> QED
        BY <2>1, <2>3, <3>1
    <3> HIDE DEF Defines
    <3> QED
      BY <3>1, <3>2
  <2> DEFINE f == [i \in 0..m |-> IF i < m THEN g[i] ELSE add(g[m - 1], proposed[m])]
  <2>5. \A i \in 0..m : i < m => f[i] = g[i]
    OBVIOUS
  <2>6. f[m] = add(g[m - 1], proposed[m])
    BY <2>3
  <2>7. \A i \in 0..(m - 1) : g[i] = IF i = 0 THEN <<>> ELSE add(g[i - 1], proposed[i])
    BY <2>4
  <2>8. f = [i \in 0..m |-> f[i]]
    OBVIOUS
  <2> HIDE DEF f
  <2>9. ASSUME NEW i \in 0..m PROVE f[i] = IF i = 0 THEN <<>> ELSE add(f[i - 1], proposed[i])
    <3>1. CASE i = m
      <4>1. f[m - 1] = g[m - 1]
        BY <2>2, <2>3, <2>5
      <4> QED
        BY <2>2, <2>6, <3>1, <4>1
    <3>2. CASE i = 0
      <4>1. f[0] = g[0] /\ g[0] = <<>>
        BY <2>2, <2>3, <2>5, <2>7
      <4> QED
        BY <3>2, <4>1
    <3>3. CASE i # m /\ i # 0
      <4>1. i \in 0..(m - 1) /\ i < m /\ i - 1 \in 0..m /\ i - 1 < m
        BY <2>3, <3>3
      <4>2. f[i] = g[i] /\ f[i - 1] = g[i - 1]
        BY <2>5, <4>1
      <4> QED
        BY <2>7, <3>3, <4>1, <4>2
    <3> QED
      BY <3>1, <3>2, <3>3
  <2>10. Defines(f, m)
    BY <2>8, <2>9
  <2> HIDE DEF Defines
  <2> QED
    BY <2>1, <2>10
<1>3. \E f : Defines(f, n)
  <2>1. n \notin Bad
    BY <1>2
  <2> HIDE DEF Defines
  <2> QED
    BY <1>1, <2>1
<1> DEFINE h == CHOOSE f : Defines(f, n)
<1>4. Defines(h, n)
  <2> HIDE DEF Defines
  <2> QED
    BY <1>3
<1>5. MergeScript(story, proposed, {}) = Told(story, h[n])
  BY DEF MergeScript, Told
<1> HIDE DEF h
<1>6. \A i \in 0..n : h[i] = IF i = 0 THEN <<>> ELSE add(h[i - 1], proposed[i])
  <2> HIDE DEF add
  <2> QED
    BY <1>4, Zenon
<1>7. h[0] = <<>>
  <2>1. 0 \in 0..n
    BY <1>1
  <2> HIDE DEF add
  <2> QED
    BY <1>6, <2>1
<1>8. ASSUME NEW i \in 1..n PROVE h[i] = Append(h[i - 1], Retold(existing, h[i - 1], proposed[i]))
  <2>1. i \in 0..n /\ i # 0
    BY <1>1
  <2>2. h[i] = add(h[i - 1], proposed[i])
    <3> HIDE DEF add
    <3> QED
      BY <1>6, <2>1
  <2> QED
    BY <2>2 DEF Retold
<1>9. Merges(h, existing, proposed)
  BY <1>7, <1>8 DEF Merges
<1> QED
  BY <1>5, <1>9

\* The scenes of a proposal, whatever numbers it gives them, are a script with numbers of its own.
LEMMA MergesAScript ==
  ASSUME NEW existing, existing \in SUBSET Nat, IsFiniteSet(existing),
         NEW proposed, IsScript(proposed), proposed # <<>>, NEW f, Merges(f, existing, proposed)
  PROVE  GoodScript(f[Len(proposed)])
<1> DEFINE n == Len(proposed)
           Good(i) == IsScript(f[i]) /\ DistinctIds(f[i]) /\ Len(f[i]) = i
           Bad == {i \in Nat : i <= n /\ ~Good(i)}
<1>1. IsSeq(proposed) /\ \A s \in ToSet(proposed) :
         {"id", "beat", "location", "narration"} \subseteq DOMAIN s /\ s.id \in Nat /\ s.narration \in Nat
  BY DEF IsScript
<1>2. n \in Nat /\ \A i \in 1..n : proposed[i] \in ToSet(proposed)
  BY <1>1, SeqFacts
<1>3. f[0] = <<>> /\ \A i \in 1..n : f[i] = Append(f[i - 1], Retold(existing, f[i - 1], proposed[i]))
  BY DEF Merges
<1>4. Bad = {}
  <2> SUFFICES ASSUME Bad # {} PROVE FALSE
    OBVIOUS
  <2>1. PICK i \in Bad : \A k \in Bad : i <= k
    <3>1. Bad \in SUBSET Nat
      OBVIOUS
    <3> HIDE DEF Bad
    <3> QED
      BY <3>1, Least
  <2>2. i \in Nat /\ i <= n /\ ~Good(i)
    BY <2>1
  <2>3. i # 0
    <3>1. IsSeq(<<>>) /\ Len(<<>>) = 0 /\ ToSet(<<>>) = {}
      BY EmptyIsSeq
    <3>2. DistinctIds(<<>>) /\ IsScript(<<>>)
      BY <3>1, DistinctIdsIs DEF IsScript
    <3>3. Good(0)
      BY <1>3, <3>1, <3>2
    <3> HIDE DEF Good
    <3> QED
      BY <2>2, <3>3
  <2> DEFINE a == f[i - 1]
             x == Retold(existing, a, proposed[i])
  <2>4. Good(i - 1) /\ i \in 1..n
    <3>1. i - 1 \in Nat /\ i - 1 <= n /\ i \in 1..n
      BY <1>2, <2>2, <2>3
    <3>2. i - 1 \notin Bad
      <4> HIDE DEF Bad
      <4> QED
        BY <2>1, <2>2, <3>1
    <3> HIDE DEF Good
    <3> QED
      BY <3>1, <3>2
  <2>5. IsScript(a) /\ IsSeq(a) /\ DistinctIds(a) /\ Len(a) = i - 1
    BY <2>4 DEF IsScript
  <2>6. f[i] = Append(a, x)
    BY <1>3, <2>4
  <2>7. /\ x.id \notin Ids(a) /\ x.id \in Nat /\ x.narration \in Nat
        /\ {"id", "beat", "location", "narration"} \subseteq DOMAIN x
    <3> DEFINE e == proposed[i]
               next == NextSceneId(existing \cup Ids(a))
               id == IF e.id \in existing \ Ids(a) THEN e.id ELSE next
    <3>1. {"id", "beat", "location", "narration"} \subseteq DOMAIN e /\ e.id \in Nat /\ e.narration \in Nat
      BY <1>1, <1>2, <2>4
    <3>2. next \in Nat /\ next \notin existing \cup Ids(a)
      <4>1. IsFiniteSet(Ids(a))
        BY <2>5, IdsAreFinite
      <4>2. Ids(a) \subseteq Nat
        <5>1. Ids(a) = {y.id : y \in ToSet(a)}
          BY <2>5, IdsIs
        <5>2. \A y \in ToSet(a) : y.id \in Nat
          BY <2>5 DEF IsScript
        <5> QED
          BY <5>1, <5>2
      <4> DEFINE all == existing \cup Ids(a)
      <4>3. all \in SUBSET Nat /\ IsFiniteSet(all)
        <5> HIDE DEF a
        <5> QED
          BY <4>1, <4>2, FS_Union
      <4>4. NextSceneId(all) \in Nat /\ NextSceneId(all) \notin all
        <5> HIDE DEF all
        <5> QED
          BY <4>3, NextSceneIdIs
      <4> QED
        BY <4>4
    <3>3. x = [e EXCEPT !.id = id]
      BY DEF Retold
    <3> HIDE DEF e, next, x, a
    <3>4. id \in Nat /\ id \notin Ids(a)
      BY <3>1, <3>2
    <3> HIDE DEF id
    <3>5. x.id = id /\ x.narration = e.narration /\ DOMAIN x = DOMAIN e
      BY <3>1, <3>3
    <3> QED
      BY <3>1, <3>4, <3>5
  <2> HIDE DEF x, a
  <2>8. Len(Append(a, x)) = i /\ IsSeq(Append(a, x)) /\ ToSet(Append(a, x)) = ToSet(a) \cup {x}
    <3>1. Len(Append(a, x)) = Len(a) + 1 /\ IsSeq(Append(a, x)) /\ ToSet(Append(a, x)) = ToSet(a) \cup {x}
      BY <2>5, Appended
    <3> QED
      BY <2>2, <2>5, <3>1
  <2>9. DistinctIds(Append(a, x))
    BY <2>5, <2>7, AppendedIds
  <2>10. IsScript(Append(a, x))
    BY <2>5, <2>7, <2>8 DEF IsScript
  <2>11. Good(i)
    BY <2>6, <2>8, <2>9, <2>10
  <2> QED
    BY <2>2, <2>11
<1>5. Good(n)
  <2>1. n \notin Bad
    BY <1>4
  <2> HIDE DEF Good
  <2> QED
    BY <1>2, <2>1
<1>6. n # 0
  <2> SUFFICES ASSUME n = 0 PROVE FALSE
    OBVIOUS
  <2>1. \A i \in 1..Len(proposed) : proposed[i] = <<>>[i]
    OBVIOUS
  <2>2. proposed = <<>>
    BY <1>1, <2>1, EmptyIsSeq, SeqSame
  <2> QED
    BY <2>2
<1> QED
  BY <1>5, <1>6, EmptyIsSeq DEF GoodScript

\* A script a model proposes, whatever numbers it gives its scenes, leaves a sound story:
\* no two scenes share one, and the shots of a scene that is gone are gone.
THEOREM MergeScriptIsSound ==
  ASSUME NEW story, GoodStory(story), NEW proposed, IsScript(proposed), proposed # <<>>, NEW targets
  PROVE  GoodStory(MergeScript(story, proposed, targets))
<1>1. /\ GoodScript(story.scenes) /\ GoodBreakdown(story.shots, story.world, story.scenes)
      /\ IsSeq(story.scenes) /\ IsSeq(story.shots) /\ IsSeq(proposed)
  BY DEF GoodStory, GoodScript, IsScript, GoodBreakdown
<1>2. CASE targets = {}
  <2>1. PICK f : /\ Merges(f, Ids(story.scenes), proposed)
                 /\ MergeScript(story, proposed, {}) = Told(story, f[Len(proposed)])
    BY <1>1, MergeDefined
  <2> DEFINE scenes == f[Len(proposed)]
             P == {i \in DOMAIN story.shots : story.shots[i].scene \in Ids(scenes)}
             shots == Picked(story.shots, P)
  <2>2. MergeScript(story, proposed, targets) = [story EXCEPT !.scenes = scenes, !.shots = shots]
    BY <1>2, <2>1 DEF Told, Where
  <2>3. GoodScript(scenes)
    <3>1. Ids(story.scenes) \in SUBSET Nat
      <4>1. Ids(story.scenes) = {s.id : s \in ToSet(story.scenes)}
        BY <1>1, IdsIs
      <4>2. \A s \in ToSet(story.scenes) : s.id \in Nat
        BY <1>1 DEF GoodScript, IsScript
      <4> QED
        BY <4>1, <4>2
    <3>2. IsFiniteSet(Ids(story.scenes))
      BY <1>1, IdsAreFinite
    <3> QED
      BY <2>1, <3>1, <3>2, MergesAScript
  <2> HIDE DEF scenes
  <2>4. P \subseteq DOMAIN story.shots
    OBVIOUS
  <2>5. GoodBreakdown(shots, story.world, story.scenes) /\ ToSet(shots) = {story.shots[i] : i \in P}
    <3> HIDE DEF P
    <3> QED
      BY <1>1, <2>4, FewerShots, PickedSet
  <2>6. \A x \in ToSet(shots) : x.scene \in Ids(scenes)
    BY <2>5
  <2> HIDE DEF shots, P
  <2>7. GoodBreakdown(shots, story.world, scenes)
    <3>1. \A x \in ToSet(shots) : /\ x.scene \in Ids(scenes) /\ x.location \in Ids(story.world.locations)
                                  /\ ToSet(x.subjects) \subseteq Ids(story.world.characters)
      BY <2>5, <2>6 DEF GoodBreakdown, GoodShot
    <3> QED
      BY <2>5, <3>1, OtherWorld
  <2>8. GoodStory([story EXCEPT !.scenes = scenes, !.shots = shots])
    BY <2>3, <2>7, WithScenesAndShots
  <2> QED
    BY <2>2, <2>8
<1>3. CASE targets # {}
  <2> DEFINE rewritten(scene) ==
               IF scene.id \in targets \cap Ids(proposed) THEN ById(proposed, scene.id) ELSE scene
             scenes == [i \in DOMAIN story.scenes |-> rewritten(story.scenes[i])]
  <2>1. MergeScript(story, proposed, targets) = [story EXCEPT !.scenes = scenes]
    BY <1>3 DEF MergeScript
  <2>2. DOMAIN story.scenes = 1..Len(story.scenes) /\ Len(story.scenes) \in Nat
    BY <1>1, SeqFacts
  <2>3. ASSUME NEW i \in 1..Len(story.scenes)
        PROVE  /\ scenes[i].id = story.scenes[i].id
               /\ {"id", "beat", "location", "narration"} \subseteq DOMAIN scenes[i]
               /\ scenes[i].id \in Nat /\ scenes[i].narration \in Nat
    <3> DEFINE e == story.scenes[i]
    <3>1. scenes[i] = rewritten(e)
      BY <2>2
    <3>2. /\ {"id", "beat", "location", "narration"} \subseteq DOMAIN e
          /\ e.id \in Nat /\ e.narration \in Nat
      <4>1. e \in ToSet(story.scenes)
        BY <1>1, SeqFacts
      <4> QED
        BY <1>1, <4>1 DEF GoodScript, IsScript
    <3>3. CASE e.id \in targets \cap Ids(proposed)
      <4>1. scenes[i] = ById(proposed, e.id)
        BY <3>1, <3>3
      <4>2. e.id \in Ids(proposed)
        BY <3>3
      <4> HIDE DEF e, scenes
      <4>3. scenes[i] \in ToSet(proposed) /\ scenes[i].id = e.id
        BY <1>1, <4>1, <4>2, ByIdIs
      <4> QED
        BY <4>3 DEF e, IsScript
    <3>4. CASE e.id \notin targets \cap Ids(proposed)
      <4>1. scenes[i] = e
        BY <3>1, <3>4
      <4> QED
        BY <3>2, <4>1
    <3> QED
      BY <3>3, <3>4
  <2>4. scenes = [i \in 1..Len(story.scenes) |-> scenes[i]]
    BY <2>2
  <2> HIDE DEF scenes
  <2>5. IsSeq(scenes) /\ Len(scenes) = Len(story.scenes)
    BY <2>2, <2>4, SeqMade
  <2>6. Ids(scenes) = Ids(story.scenes) /\ DistinctIds(scenes)
    <3>1. DistinctIds(story.scenes)
      BY <1>1 DEF GoodScript
    <3> QED
      BY <1>1, <2>3, <2>5, <3>1, SameIds
  <2>7. GoodScript(scenes)
    <3>1. IsScript(scenes)
      <4>1. \A s \in ToSet(scenes) : \E i \in 1..Len(story.scenes) : s = scenes[i]
        BY <2>5, SeqFacts
      <4> QED
        BY <2>3, <2>5, <4>1 DEF IsScript
    <3>2. scenes # <<>>
      <4> SUFFICES ASSUME scenes = <<>> PROVE FALSE
        OBVIOUS
      <4>1. Len(story.scenes) = 0
        BY <2>5, EmptyIsSeq
      <4>2. \A i \in 1..Len(story.scenes) : story.scenes[i] = <<>>[i]
        BY <4>1
      <4>3. story.scenes = <<>>
        BY <1>1, <4>1, <4>2, EmptyIsSeq, SeqSame
      <4> QED
        BY <1>1, <4>3 DEF GoodScript
    <3> QED
      BY <2>6, <3>1, <3>2 DEF GoodScript
  <2>8. \A x \in ToSet(story.shots) : x.scene \in Ids(scenes)
    BY <1>1, <2>6 DEF GoodBreakdown, GoodShot
  <2>9. GoodStory([story EXCEPT !.scenes = scenes])
    BY <2>7, <2>8, WithScenes
  <2> QED
    BY <2>1, <2>9
<1> QED
  BY <1>2, <1>3

-----------------------------------------------------------------------------
(* Shots planned again. *)

\* A scene plays at a place of the world, whatever it names.
LEMMA SceneLocationIs ==
  ASSUME NEW story, GoodWorld(story.world), NEW scene, NEW parentStory
  PROVE  SceneLocation(story, scene, parentStory) \in Ids(story.world.locations)
<1> DEFINE ls == story.world.locations
           named == LocationNamed(story.world, scene.location)
<1>1. IsSeq(ls) /\ Len(ls) \in Nat /\ Len(ls) >= 1
  <2>1. IsSeq(ls)
    BY DEF GoodWorld, IsWorld
  <2> QED
    BY <2>1, EntitiesIs
<1>2. named \in 0..Len(ls)
  BY <1>1, LocationNamedIs
<1>3. Ids(ls) = {ls[i].id : i \in 1..Len(ls)}
  BY <1>1, IdsIs
<1>4. ls[1].id \in Ids(ls)
  BY <1>1, <1>3
<1>5. named # 0 => ls[named].id \in Ids(ls)
  BY <1>1, <1>2, <1>3
<1> HIDE DEF named
<1> QED
  BY <1>4, <1>5 DEF SceneLocation, named

\* A length an agent gives becomes one a provider takes.
LEMMA ClampDurationIs ==
  ASSUME NEW length \in Int
  PROVE  ClampDuration(length) \in Int /\ ClampDuration(length) >= 100 /\ ClampDuration(length) <= 1500
<1>1. CASE length <= 0
  BY <1>1 DEF ClampDuration, PerShot
<1>2. CASE length > 0
  <2> DEFINE low == IF length < 1500 THEN length ELSE 1500
             high == IF low > 100 THEN low ELSE 100
  <2>1. Min({1500, length}) = low
    <3>1. {1500, length} \in SUBSET Nat /\ low \in {1500, length} /\ \A k \in {1500, length} : low <= k
      BY <1>2
    <3> HIDE DEF low
    <3> QED
      BY <3>1, MinIs
  <2>2. low \in Nat /\ low <= 1500
    BY <1>2
  <2> HIDE DEF low
  <2>3. Max({100, low}) = high
    <3>1. {100, low} \in SUBSET Nat /\ high \in {100, low} /\ \A k \in {100, low} : k <= high
      BY <2>2
    <3> HIDE DEF high
    <3> QED
      BY <3>1, MaxIs
  <2>4. ClampDuration(length) = high
    BY <1>2, <2>1, <2>3 DEF ClampDuration
  <2> QED
    BY <2>2, <2>4
<1> QED
  BY <1>1, <1>2

\* The first n names of a scene's shots that are not taken.
FreeIds(n, id, taken) == Where([k \in 1..n |-> <<"rp", id, k>>], LAMBDA rp : rp \notin taken)

\* Of m names more than there are shots, at least m are free.
LEMMA EnoughFree ==
  ASSUME NEW shots, IsSeq(shots), NEW id, NEW m \in Nat,
         NEW P, P = {k \in 1..(m + Len(shots)) : <<"rp", id, k>> \notin Ids(shots)}
  PROVE  Cardinality(P) \in Nat /\ Cardinality(P) >= m
<1> DEFINE N == m + Len(shots)
           B == (1..N) \ P
           l == Len(shots)
<1>1. l \in Nat /\ N \in Nat /\ N = m + l
  BY SeqFacts
<1>2. IsFiniteSet(1..N) /\ Cardinality(1..N) = N /\ IsFiniteSet(1..l) /\ Cardinality(1..l) = l
  <2> HIDE DEF N, l
  <2> QED
    BY <1>1, FS_Interval
<1>3. P \subseteq 1..N
  OBVIOUS
<1>4. IsFiniteSet(P) /\ Cardinality(P) \in Nat
  <2> HIDE DEF N
  <2> QED
    BY <1>2, <1>3, FS_Subset, FS_CardinalityType
<1>5. IsFiniteSet(B) /\ Cardinality(B) = N - Cardinality(P)
  <2>1. (1..N) \cap P = P
    BY <1>3
  <2> DEFINE I == 1..N
  <2>2. IsFiniteSet(I \ P) /\ Cardinality(I \ P) = Cardinality(I) - Cardinality(I \cap P)
    <3> HIDE DEF I
    <3>1. IsFiniteSet(I)
      BY <1>2 DEF I
    <3> QED
      BY <3>1, FS_Difference
  <2> HIDE DEF N
  <2> QED
    BY <1>2, <2>1, <2>2
<1>6. Ids(shots) = {shots[k].id : k \in 1..l}
  BY IdsIs
<1> DEFINE f == [k \in B |-> CHOOSE j \in 1..l : shots[j].id = <<"rp", id, k>>]
<1>7. \A k \in B : f[k] \in 1..l /\ shots[f[k]].id = <<"rp", id, k>>
  <2> SUFFICES ASSUME NEW k \in B PROVE f[k] \in 1..l /\ shots[f[k]].id = <<"rp", id, k>>
    OBVIOUS
  <2>1. <<"rp", id, k>> \in Ids(shots)
    OBVIOUS
  <2>2. \E j \in 1..l : shots[j].id = <<"rp", id, k>>
    BY <1>6, <2>1
  <2>3. f[k] = CHOOSE j \in 1..l : shots[j].id = <<"rp", id, k>>
    OBVIOUS
  <2> HIDE DEF f, l
  <2> QED
    BY <2>2, <2>3
<1>8. f \in [B -> 1..l]
  <2>1. f = [k \in B |-> f[k]]
    OBVIOUS
  <2> HIDE DEF f
  <2> QED
    BY <1>7, <2>1
<1> HIDE DEF f, B, l, N
<1>9. Cardinality(B) <= l
  <2> SUFFICES ASSUME ~(Cardinality(B) <= l) PROVE FALSE
    OBVIOUS
  <2>1. Cardinality(1..l) < Cardinality(B)
    BY <1>1, <1>2, <1>4, <1>5
  <2>2. PICK x, y \in B : x # y /\ f[x] = f[y]
    BY <1>2, <1>5, <1>8, <2>1, FS_PigeonHole
  <2>3. <<"rp", id, x>> = <<"rp", id, y>>
    BY <1>7, <2>2
  <2> QED
    BY <2>2, <2>3
<1> QED
  BY <1>1, <1>4, <1>5, <1>9

\* The free names are names of the scene's, each of them once.
LEMMA FreeIdsAre ==
  ASSUME NEW shots, IsSeq(shots), NEW id, NEW m \in Nat
  PROVE  LET free == FreeIds(m + Len(shots), id, Ids(shots)) IN
         /\ Len(free) \in Nat /\ Len(free) >= m
         /\ \A i \in 1..Len(free) : free[i] \notin Ids(shots) /\ \E k \in Nat : free[i] = <<"rp", id, k>>
         /\ \A i, j \in 1..Len(free) : free[i] = free[j] => i = j
<1> DEFINE N == m + Len(shots)
           names == [k \in 1..N |-> <<"rp", id, k>>]
           P == {k \in 1..N : <<"rp", id, k>> \notin Ids(shots)}
           free == FreeIds(N, id, Ids(shots))
<1>1. N \in Nat
  BY SeqFacts
<1>2. names = [k \in 1..N |-> names[k]] /\ \A k \in 1..N : names[k] = <<"rp", id, k>>
  OBVIOUS
<1>3. DOMAIN names = 1..N
  OBVIOUS
<1>4. free = Picked(names, P)
  <2>1. {k \in DOMAIN names : names[k] \notin Ids(shots)} = P
    BY <1>2, <1>3
  <2> QED
    BY <2>1 DEF FreeIds, Where
<1> HIDE DEF names, N
<1>5. IsSeq(names)
  BY <1>1, <1>2, SeqMade
<1>6. P \subseteq 1..N
  OBVIOUS
<1>7. Cardinality(P) \in Nat /\ Cardinality(P) >= m
  <2>1. P = {k \in 1..(m + Len(shots)) : <<"rp", id, k>> \notin Ids(shots)}
    BY DEF N
  <2> HIDE DEF P
  <2> QED
    BY <2>1, EnoughFree
<1>8. \A k \in P : <<"rp", id, k>> \notin Ids(shots) /\ k \in Nat /\ k \in 1..N
  BY <1>1
<1> HIDE DEF P, free
<1>9. /\ Len(free) = Cardinality(P)
      /\ \E g : /\ Goes(g, Cardinality(P), P)
                /\ \A k \in 1..Cardinality(P) : free[k] = names[g[k]]
  <2>1. P \subseteq DOMAIN names
    BY <1>3, <1>6
  <2>2. /\ Len(Picked(names, P)) = Cardinality(P)
        /\ \E g : /\ Goes(g, Cardinality(P), P)
                  /\ \A k \in 1..Cardinality(P) : Picked(names, P)[k] = names[g[k]] /\ g[k] \in 1..Len(names)
    BY <1>5, <2>1, PickedIs
  <2> QED
    BY <1>4, <2>2
<1>10. PICK g : Goes(g, Cardinality(P), P) /\ \A k \in 1..Cardinality(P) : free[k] = names[g[k]]
  BY <1>9
<1> DEFINE c == Cardinality(P)
<1>11. c \in Nat /\ c >= m /\ Len(free) = c
  BY <1>7, <1>9
<1>12. \A k \in 1..c : g[k] \in P
  BY <1>10 DEF Goes
<1>13. \A k \in 1..c : free[k] = <<"rp", id, g[k]>> /\ g[k] \in Nat /\ free[k] \notin Ids(shots)
  <2> SUFFICES ASSUME NEW k \in 1..c
               PROVE  free[k] = <<"rp", id, g[k]>> /\ g[k] \in Nat /\ free[k] \notin Ids(shots)
    OBVIOUS
  <2>1. g[k] \in P
    BY <1>12
  <2>2. <<"rp", id, g[k]>> \notin Ids(shots) /\ g[k] \in Nat /\ g[k] \in 1..N
    BY <1>8, <2>1
  <2>3. free[k] = names[g[k]]
    BY <1>10
  <2>4. names[g[k]] = <<"rp", id, g[k]>>
    BY <1>2, <2>2
  <2> QED
    BY <2>2, <2>3, <2>4
<1>14. \A k, l \in 1..c : k < l => g[k] < g[l]
  BY <1>10 DEF Goes
<1> HIDE DEF c
<1>15. ASSUME NEW i \in 1..c, NEW j \in 1..c, free[i] = free[j] PROVE i = j
  <2>1. g[i] = g[j]
    <3>1. <<"rp", id, g[i]>> = <<"rp", id, g[j]>>
      BY <1>13, <1>15
    <3> QED
      BY <3>1
  <2> QED
    BY <1>11, <1>13, <1>14, <2>1
<1>16. /\ Len(free) \in Nat /\ Len(free) >= m
       /\ \A i \in 1..Len(free) : free[i] \notin Ids(shots) /\ \E k \in Nat : free[i] = <<"rp", id, k>>
       /\ \A i, j \in 1..Len(free) : free[i] = free[j] => i = j
  BY <1>11, <1>13, <1>15
<1> QED
  BY <1>16 DEF free, N

\* Shots planned again: for each scene asked for at least one, of it and of the story's world,
\* and no two under one name or under one of the others.
Replanned(r, story, others) ==
  \A id \in DOMAIN r :
    /\ IsSeq(r[id]) /\ Len(r[id]) >= 1 /\ DistinctIds(r[id])
    /\ \A i \in 1..Len(r[id]) :
         LET x == r[id][i] IN
         /\ GoodShot(x, story.world, story.scenes) /\ x.scene = id
         /\ x.id \notin Ids(others) /\ \E k \in Nat : x.id = <<"rp", id, k>>

\* Whatever an agent answers, what is made of it is fit for the story.
THEOREM SanitizeIsSound ==
  ASSUME NEW answer, IsBreakdown(answer), NEW story, GoodWorld(story.world), IsScript(story.scenes),
         IsSeq(story.shots), NEW targets, DOMAIN targets \subseteq Ids(story.scenes), NEW parentStory
  PROVE  /\ DOMAIN SanitizeReplanned(answer, story, targets, parentStory) = DOMAIN targets
         /\ Replanned(SanitizeReplanned(answer, story, targets, parentStory), story, story.shots)
<1> DEFINE clean(x) ==
             [x EXCEPT !.length = ClampDuration(@),
                       !.location = IF @ \in Ids(story.world.locations) THEN @
                                    ELSE SceneLocation(story, ById(story.scenes, x.scene), parentStory),
                       !.subjects = Distinct(Among(@, Ids(story.world.characters)))]
           given(id) == Where(answer, LAMBDA x : x.scene = id)
           shots(id) == IF given(id) = <<>> THEN <<BareShot(story, id, parentStory)>>
                        ELSE [i \in DOMAIN given(id) |-> clean(given(id)[i])]
           free(id) == FreeIds(Len(answer) + Len(story.shots) + 1, id, Ids(story.shots))
           r == SanitizeReplanned(answer, story, targets, parentStory)
           fields == {"id", "scene", "action", "length", "location", "subjects"}
           Fit(x, id) == /\ fields \subseteq DOMAIN x /\ x.length \in Int /\ IsSeq(x.subjects) /\ x.scene = id
                         /\ x.location \in Ids(story.world.locations)
                         /\ ToSet(x.subjects) \subseteq Ids(story.world.characters)
<1>1. /\ IsSeq(answer)
      /\ \A x \in ToSet(answer) : fields \subseteq DOMAIN x /\ x.length \in Int /\ IsSeq(x.subjects)
  BY DEF IsBreakdown
<1>2. r = [id \in DOMAIN targets |-> [i \in DOMAIN shots(id) |-> [shots(id)[i] EXCEPT !.id = free(id)[i]]]]
  BY DEF SanitizeReplanned, FreeIds
<1>3. Len(answer) \in Nat /\ Len(story.shots) \in Nat
  BY <1>1, SeqFacts
<1>4. ASSUME NEW x \in ToSet(answer) PROVE Fit(clean(x), x.scene)
  <2> DEFINE at == IF x.location \in Ids(story.world.locations) THEN x.location
                   ELSE SceneLocation(story, ById(story.scenes, x.scene), parentStory)
             who == Distinct(Among(x.subjects, Ids(story.world.characters)))
             long == ClampDuration(x.length)
  <2>1. clean(x) = [x EXCEPT !.length = long, !.location = at, !.subjects = who]
    OBVIOUS
  <2>2. at \in Ids(story.world.locations)
    BY SceneLocationIs
  <2>3. IsSeq(who) /\ ToSet(who) \subseteq Ids(story.world.characters)
    <3>1. IsSeq(x.subjects)
      BY <1>1
    <3> DEFINE known == Among(x.subjects, Ids(story.world.characters))
    <3>2. IsSeq(known) /\ ToSet(known) \subseteq Ids(story.world.characters)
      BY <3>1, AmongIs
    <3>3. IsSeq(Distinct(known)) /\ ToSet(Distinct(known)) = ToSet(known)
      <4> HIDE DEF known
      <4> QED
        BY <3>2, DistinctFacts
    <3> QED
      BY <3>2, <3>3
  <2>4. long \in Int
    <3>1. x.length \in Int
      BY <1>1
    <3> QED
      BY <3>1, ClampDurationIs
  <2> HIDE DEF at, who, long, clean
  <2>5. /\ clean(x).length = long /\ clean(x).location = at /\ clean(x).subjects = who
        /\ clean(x).scene = x.scene /\ DOMAIN clean(x) = DOMAIN x
    BY <1>1, <2>1
  <2> QED
    BY <1>1, <2>2, <2>3, <2>4, <2>5
<1>5. ASSUME NEW id \in Ids(story.scenes)
      PROVE  /\ IsSeq(shots(id)) /\ Len(shots(id)) >= 1 /\ Len(shots(id)) <= Len(answer) + 1
             /\ \A i \in 1..Len(shots(id)) : Fit(shots(id)[i], id)
  <2> DEFINE P == {i \in DOMAIN answer : answer[i].scene = id}
  <2>1. given(id) = Picked(answer, P)
    BY DEF Where
  <2>2. P \subseteq DOMAIN answer
    OBVIOUS
  <2>3. /\ IsSeq(given(id)) /\ Len(given(id)) \in Nat /\ Len(given(id)) <= Len(answer)
        /\ ToSet(given(id)) = {answer[i] : i \in P} /\ ToSet(given(id)) \subseteq ToSet(answer)
    <3>1. /\ IsSeq(Picked(answer, P)) /\ Len(Picked(answer, P)) \in Nat
          /\ Len(Picked(answer, P)) <= Len(answer)
          /\ ToSet(Picked(answer, P)) = {answer[i] : i \in P}
          /\ ToSet(Picked(answer, P)) \subseteq ToSet(answer)
      <4> HIDE DEF P
      <4> QED
        BY <1>1, <2>2, PickedIs, PickedSet
    <3> QED
      BY <2>1, <3>1
  <2>4. \A x \in ToSet(given(id)) : x \in ToSet(answer) /\ x.scene = id
    BY <2>3
  <2> HIDE DEF given, P
  <2>5. CASE given(id) = <<>>
    <3> DEFINE bare == BareShot(story, id, parentStory)
    <3>1. shots(id) = <<bare>>
      BY <2>5
    <3>2. IsSeq(<<bare>>) /\ Len(<<bare>>) = 1 /\ <<bare>>[1] = bare
      <4> HIDE DEF bare
      <4> QED
        BY Single
    <3>3. Fit(bare, id)
      <4> DEFINE at == SceneLocation(story, ById(story.scenes, id), parentStory)
      <4>1. at \in Ids(story.world.locations)
        BY SceneLocationIs
      <4> HIDE DEF at
      <4>2. bare = [id |-> <<"bare">>, scene |-> id, length |-> PerShot,
                    action |-> ById(story.scenes, id).beat, location |-> at, subjects |-> <<>>]
        BY DEF BareShot, at
      <4> HIDE DEF bare
      <4>3. /\ fields \subseteq DOMAIN bare /\ bare.length = PerShot /\ bare.scene = id
            /\ bare.location = at /\ bare.subjects = <<>>
        BY <4>2
      <4>4. IsSeq(<<>>) /\ ToSet(<<>>) = {}
        BY EmptyIsSeq
      <4> QED
        BY <4>1, <4>3, <4>4 DEF PerShot
    <3> HIDE DEF bare, shots, Fit
    <3> QED
      BY <1>3, <3>1, <3>2, <3>3
  <2>6. CASE given(id) # <<>>
    <3>1. shots(id) = [i \in DOMAIN given(id) |-> clean(given(id)[i])]
      BY <2>6
    <3>2. /\ DOMAIN given(id) = 1..Len(given(id))
          /\ \A i \in 1..Len(given(id)) : given(id)[i] \in ToSet(given(id))
      BY <2>3, SeqFacts
    <3>3. Len(given(id)) # 0
      <4> SUFFICES ASSUME Len(given(id)) = 0 PROVE FALSE
        OBVIOUS
      <4>1. \A i \in 1..Len(given(id)) : given(id)[i] = <<>>[i]
        OBVIOUS
      <4> QED
        BY <2>3, <2>6, <4>1, EmptyIsSeq, SeqSame
    <3> HIDE DEF clean, Fit
    <3>4. ASSUME NEW i \in 1..Len(given(id)) PROVE Fit(shots(id)[i], id)
      <4>1. shots(id)[i] = clean(given(id)[i])
        BY <3>1, <3>2
      <4>2. given(id)[i] \in ToSet(answer) /\ given(id)[i].scene = id
        BY <2>4, <3>2
      <4> QED
        BY <1>4, <4>1, <4>2
    <3>5. shots(id) = [i \in 1..Len(given(id)) |-> shots(id)[i]]
      BY <3>1, <3>2
    <3> HIDE DEF shots
    <3>6. IsSeq(shots(id)) /\ Len(shots(id)) = Len(given(id))
      BY <2>3, <3>5, SeqMade
    <3> QED
      BY <1>3, <2>3, <3>3, <3>4, <3>6
  <2> QED
    BY <2>5, <2>6
<1>6. ASSUME NEW id
      PROVE  /\ Len(free(id)) \in Nat /\ Len(free(id)) >= Len(answer) + 1
             /\ \A i \in 1..Len(free(id)) :
                  free(id)[i] \notin Ids(story.shots) /\ \E k \in Nat : free(id)[i] = <<"rp", id, k>>
             /\ \A i, j \in 1..Len(free(id)) : free(id)[i] = free(id)[j] => i = j
  <2> DEFINE m == Len(answer) + 1
             names == FreeIds(m + Len(story.shots), id, Ids(story.shots))
  <2>1. m \in Nat /\ m + Len(story.shots) = Len(answer) + Len(story.shots) + 1
    <3> DEFINE a == Len(answer)
               b == Len(story.shots)
    <3>1. a \in Nat /\ b \in Nat
      BY <1>3
    <3> HIDE DEF a, b
    <3>2. a + 1 \in Nat /\ (a + 1) + b = a + b + 1
      BY <3>1
    <3> QED
      BY <3>2 DEF a, b
  <2>2. free(id) = names
    BY <2>1
  <2>3. /\ Len(names) \in Nat /\ Len(names) >= m
        /\ \A i \in 1..Len(names) : names[i] \notin Ids(story.shots) /\ \E k \in Nat : names[i] = <<"rp", id, k>>
        /\ \A i, j \in 1..Len(names) : names[i] = names[j] => i = j
    <3> HIDE DEF m
    <3> QED
      BY <2>1, FreeIdsAre
  <2> HIDE DEF names, free
  <2> QED
    BY <2>2, <2>3
<1> HIDE DEF shots, free
<1>7. DOMAIN r = DOMAIN targets
  BY <1>2
<1>8. ASSUME NEW id \in DOMAIN r
      PROVE  /\ IsSeq(r[id]) /\ Len(r[id]) >= 1 /\ DistinctIds(r[id])
             /\ \A i \in 1..Len(r[id]) :
                  /\ GoodShot(r[id][i], story.world, story.scenes) /\ r[id][i].scene = id
                  /\ r[id][i].id \notin Ids(story.shots) /\ \E k \in Nat : r[id][i].id = <<"rp", id, k>>
  <2> DEFINE n == Len(shots(id))
             F == free(id)
             S == shots(id)
             R == r[id]
  <2>1. id \in Ids(story.scenes)
    BY <1>7, <1>8
  <2>2. IsSeq(S) /\ n \in Nat /\ n >= 1 /\ n <= Len(answer) + 1 /\ \A i \in 1..n : Fit(S[i], id)
    <3>1. IsSeq(S)
      BY <1>5, <2>1
    <3> HIDE DEF Fit
    <3> QED
      BY <1>5, <2>1, <3>1, SeqFacts
  <2>3. R = [i \in DOMAIN S |-> [S[i] EXCEPT !.id = F[i]]]
    BY <1>2, <1>7
  <2>4. DOMAIN S = 1..n
    BY <2>2, SeqFacts
  <2>5. \A i \in 1..n : /\ F[i] \notin Ids(story.shots) /\ \E k \in Nat : F[i] = <<"rp", id, k>>
                        /\ \A j \in 1..n : F[i] = F[j] => i = j
    <3>1. \A i \in 1..n : i \in 1..Len(F)
      BY <1>3, <1>6, <2>2
    <3> QED
      BY <1>6, <3>1
  <2> HIDE DEF F, S, n, R, r
  <2>6. R = [i \in 1..n |-> R[i]] /\ \A i \in 1..n : R[i] = [S[i] EXCEPT !.id = F[i]]
    BY <2>3, <2>4
  <2>7. IsSeq(R) /\ Len(R) = n
    BY <2>2, <2>6, SeqMade
  <2>8. ASSUME NEW i \in 1..n
        PROVE  /\ R[i].id = F[i] /\ R[i].scene = id /\ GoodShot(R[i], story.world, story.scenes)
    <3>1. Fit(S[i], id) /\ R[i] = [S[i] EXCEPT !.id = F[i]]
      BY <2>2, <2>6
    <3>2. /\ R[i].id = F[i] /\ R[i].scene = S[i].scene /\ R[i].location = S[i].location
          /\ R[i].length = S[i].length /\ R[i].subjects = S[i].subjects /\ DOMAIN R[i] = DOMAIN S[i]
      BY <3>1
    <3> QED
      BY <2>1, <3>1, <3>2 DEF GoodShot
  <2>9. DistinctIds(R)
    <3>1. \A i, j \in 1..Len(R) : R[i].id = R[j].id => i = j
      BY <2>5, <2>7, <2>8
    <3> QED
      BY <2>7, <3>1, DistinctIdsIs
  <2>10. \A i \in 1..Len(R) :
           /\ GoodShot(R[i], story.world, story.scenes) /\ R[i].scene = id
           /\ R[i].id \notin Ids(story.shots) /\ \E k \in Nat : R[i].id = <<"rp", id, k>>
    BY <2>5, <2>7, <2>8
  <2> QED
    BY <2>2, <2>7, <2>9, <2>10 DEF R
<1> HIDE DEF r
<1>9. Replanned(r, story, story.shots)
  BY <1>8 DEF Replanned
<1> QED
  BY <1>7, <1>9 DEF r

-----------------------------------------------------------------------------
(* The shots of the scenes, in the order of the scenes. *)

\* The shots of each scene: those planned again, or those it had.
SpliceBlocks(story, r) ==
  [i \in DOMAIN story.scenes |->
     LET id == story.scenes[i].id IN IF id \in DOMAIN r THEN r[id] ELSE ShotsOf(story, id)]

\* The shots of a scene are sound, and of the scene.
LEMMA ShotsOfIs ==
  ASSUME NEW story, GoodStory(story), NEW scene
  PROVE  /\ GoodBreakdown(ShotsOf(story, scene), story.world, story.scenes)
         /\ \A x \in ToSet(ShotsOf(story, scene)) : x \in ToSet(story.shots) /\ x.scene = scene
<1> DEFINE P == {i \in DOMAIN story.shots : story.shots[i].scene = scene}
<1>1. ShotsOf(story, scene) = Picked(story.shots, P)
  BY DEF ShotsOf, Where
<1>2. GoodBreakdown(story.shots, story.world, story.scenes) /\ IsSeq(story.shots)
  BY DEF GoodStory, GoodBreakdown
<1>3. P \subseteq DOMAIN story.shots /\ \A x \in {story.shots[i] : i \in P} : x.scene = scene
  OBVIOUS
<1> HIDE DEF P
<1>4. /\ GoodBreakdown(Picked(story.shots, P), story.world, story.scenes)
      /\ ToSet(Picked(story.shots, P)) = {story.shots[i] : i \in P}
      /\ ToSet(Picked(story.shots, P)) \subseteq ToSet(story.shots)
  BY <1>2, <1>3, FewerShots, PickedSet
<1> QED
  BY <1>1, <1>3, <1>4

\* The blocks of a spliced story are sound, of their scenes and without a name in common.
LEMMA SpliceBlocksAre ==
  ASSUME NEW story, GoodStory(story), NEW others, NEW r, Replanned(r, story, others),
         \A x \in ToSet(story.shots) : x.scene \notin DOMAIN r => x.id \in Ids(others)
  PROVE  LET b == SpliceBlocks(story, r) IN
         /\ IsBlocks(b) /\ Len(b) = Len(story.scenes)
         /\ \A i \in 1..Len(b) : b[i] = IF story.scenes[i].id \in DOMAIN r THEN r[story.scenes[i].id]
                                        ELSE ShotsOf(story, story.scenes[i].id)
         /\ \A i \in 1..Len(b) :
              /\ GoodBreakdown(b[i], story.world, story.scenes)
              /\ \A x \in ToSet(b[i]) : x.scene = story.scenes[i].id
         /\ \A i, j \in 1..Len(b) : i # j => Ids(b[i]) \cap Ids(b[j]) = {}
<1> DEFINE b == SpliceBlocks(story, r)
           n == Len(story.scenes)
           key(i) == story.scenes[i].id
<1>1. /\ IsSeq(story.scenes) /\ DistinctIds(story.scenes)
      /\ GoodBreakdown(story.shots, story.world, story.scenes) /\ IsSeq(story.shots) /\ DistinctIds(story.shots)
  BY DEF GoodStory, GoodScript, IsScript, GoodBreakdown
<1>2. n \in Nat /\ DOMAIN story.scenes = 1..n
  BY <1>1, SeqFacts
<1>3. b = [i \in 1..n |-> b[i]] /\ \A i \in 1..n : b[i] = IF key(i) \in DOMAIN r THEN r[key(i)] ELSE ShotsOf(story, key(i))
  BY <1>2 DEF SpliceBlocks
<1> HIDE DEF b
<1>4. IsSeq(b) /\ Len(b) = n
  BY <1>2, <1>3, SeqMade
<1>5. ASSUME NEW i \in 1..n
      PROVE  /\ GoodBreakdown(b[i], story.world, story.scenes) /\ IsSeq(b[i])
             /\ \A x \in ToSet(b[i]) : x.scene = key(i)
             /\ \/ \A x \in ToSet(b[i]) : x.id \in Ids(others) /\ x \in ToSet(story.shots)
                \/ \A x \in ToSet(b[i]) : x.id \notin Ids(others) /\ \E k \in Nat : x.id = <<"rp", key(i), k>>
  <2>1. CASE key(i) \in DOMAIN r
    <3> DEFINE R == r[key(i)]
    <3>1. b[i] = R
      BY <1>3, <2>1
    <3>2. /\ IsSeq(R) /\ DistinctIds(R)
          /\ \A k \in 1..Len(R) : /\ GoodShot(R[k], story.world, story.scenes) /\ R[k].scene = key(i)
                                  /\ R[k].id \notin Ids(others) /\ \E m \in Nat : R[k].id = <<"rp", key(i), m>>
      BY <2>1 DEF Replanned
    <3> HIDE DEF R
    <3>3. \A x \in ToSet(R) : \E k \in 1..Len(R) : R[k] = x
      BY <3>2, SeqFacts
    <3>4. \A x \in ToSet(R) : /\ GoodShot(x, story.world, story.scenes) /\ x.scene = key(i)
                              /\ x.id \notin Ids(others) /\ \E m \in Nat : x.id = <<"rp", key(i), m>>
      BY <3>2, <3>3
    <3>5. GoodBreakdown(R, story.world, story.scenes)
      BY <3>2, <3>4 DEF GoodBreakdown
    <3> QED
      BY <3>1, <3>2, <3>4, <3>5
  <2>2. CASE key(i) \notin DOMAIN r
    <3> DEFINE R == ShotsOf(story, key(i))
    <3>1. b[i] = R
      BY <1>3, <2>2
    <3>2. /\ GoodBreakdown(R, story.world, story.scenes)
          /\ \A x \in ToSet(R) : x \in ToSet(story.shots) /\ x.scene = key(i)
      BY ShotsOfIs
    <3> HIDE DEF R
    <3>3. \A x \in ToSet(R) : x.id \in Ids(others)
      BY <2>2, <3>2
    <3> QED
      BY <3>1, <3>2, <3>3 DEF GoodBreakdown
  <2> QED
    BY <2>1, <2>2
<1>6. \A i, j \in 1..n : key(i) = key(j) => i = j
  BY <1>1, DistinctIdsIs
<1>7. ASSUME NEW x \in ToSet(story.shots), NEW y \in ToSet(story.shots), x.id = y.id PROVE x = y
  <2>1. PICK k \in 1..Len(story.shots) : story.shots[k] = x
    BY <1>1, SeqFacts
  <2>2. PICK l \in 1..Len(story.shots) : story.shots[l] = y
    BY <1>1, SeqFacts
  <2>3. k = l
    BY <1>1, <1>7, <2>1, <2>2, DistinctIdsIs
  <2> QED
    BY <2>1, <2>2, <2>3
<1> HIDE DEF key
<1>8. ASSUME NEW i \in 1..n, NEW j \in 1..n, i # j PROVE Ids(b[i]) \cap Ids(b[j]) = {}
  <2> SUFFICES ASSUME NEW id \in Ids(b[i]), id \in Ids(b[j]) PROVE FALSE
    OBVIOUS
  <2>1. Ids(b[i]) = {x.id : x \in ToSet(b[i])} /\ Ids(b[j]) = {x.id : x \in ToSet(b[j])}
    BY <1>5, IdsIs
  <2>2. PICK x \in ToSet(b[i]) : x.id = id
    BY <2>1
  <2>3. PICK y \in ToSet(b[j]) : y.id = id
    BY <2>1
  <2>4. x.scene = key(i) /\ y.scene = key(j) /\ key(i) # key(j)
    BY <1>5, <1>6, <1>8
  <2>5. CASE id \in Ids(others)
    <3>1. x \in ToSet(story.shots) /\ y \in ToSet(story.shots)
      BY <1>5, <2>2, <2>3, <2>5
    <3> QED
      BY <1>7, <2>2, <2>3, <2>4, <3>1
  <2>6. CASE id \notin Ids(others)
    <3>1. \E k \in Nat : x.id = <<"rp", key(i), k>>
      BY <1>5, <2>2, <2>6
    <3>2. \E k \in Nat : y.id = <<"rp", key(j), k>>
      BY <1>5, <2>3, <2>6
    <3> QED
      BY <2>2, <2>3, <2>4, <3>1, <3>2
  <2> QED
    BY <2>5, <2>6
<1>9. IsBlocks(b)
  BY <1>4, <1>5 DEF IsBlocks
<1>10. /\ IsBlocks(b) /\ Len(b) = n
       /\ \A i \in 1..Len(b) : b[i] = IF key(i) \in DOMAIN r THEN r[key(i)] ELSE ShotsOf(story, key(i))
       /\ \A i \in 1..Len(b) :
              /\ GoodBreakdown(b[i], story.world, story.scenes)
              /\ \A x \in ToSet(b[i]) : x.scene = key(i)
       /\ \A i, j \in 1..Len(b) : i # j => Ids(b[i]) \cap Ids(b[j]) = {}
  BY <1>3, <1>4, <1>5, <1>8, <1>9
<1> QED
  BY <1>10 DEF b, key

\* A story with shots planned again in it has a sound breakdown.
LEMMA SpliceIsSound ==
  ASSUME NEW story, GoodStory(story), NEW others, NEW r, Replanned(r, story, others),
         \A x \in ToSet(story.shots) : x.scene \notin DOMAIN r => x.id \in Ids(others)
  PROVE  GoodBreakdown(SpliceShots(story, r), story.world, story.scenes)
<1> DEFINE b == SpliceBlocks(story, r)
<1>1. SpliceShots(story, r) = FlattenSeq(b)
  BY DEF SpliceShots, SpliceBlocks
<1>2. /\ IsBlocks(b)
      /\ \A i \in 1..Len(b) : GoodBreakdown(b[i], story.world, story.scenes)
      /\ \A i, j \in 1..Len(b) : i # j => Ids(b[i]) \cap Ids(b[j]) = {}
  BY SpliceBlocksAre
<1> HIDE DEF b
<1>3. \A i \in 1..Len(b) : DistinctIds(b[i]) /\ \A x \in ToSet(b[i]) : GoodShot(x, story.world, story.scenes)
  BY <1>2 DEF GoodBreakdown
<1>4. DistinctIds(FlattenSeq(b))
  BY <1>2, <1>3, FlattenDistinct
<1>5. IsSeq(FlattenSeq(b)) /\ \A x \in ToSet(FlattenSeq(b)) : \E i \in 1..Len(b) : x \in ToSet(b[i])
  BY <1>2, FlattenedSet
<1> QED
  BY <1>1, <1>3, <1>4, <1>5 DEF GoodBreakdown

\* Shots an agent proposes for some scenes of a draft, whatever they are, leave it sound.
THEOREM ProposeShotsIsSound ==
  ASSUME NEW story, GoodStory(story), NEW parentStory, NEW targets, DOMAIN targets \subseteq Ids(story.scenes),
         NEW answer, IsBreakdown(answer)
  PROVE  GoodStory(ProposeShots(parentStory, story, targets, answer))
<1> DEFINE P == {i \in DOMAIN story.shots : story.shots[i].scene \notin DOMAIN targets}
           rest == Picked(story.shots, P)
           others == [story EXCEPT !.shots = rest]
           r == SanitizeReplanned(answer, others, targets, parentStory)
<1>1. ProposeShots(parentStory, story, targets, answer) = [story EXCEPT !.shots = SpliceShots(story, r)]
  BY DEF ProposeShots, Where
<1>2. IsSeq(story.shots) /\ P \subseteq DOMAIN story.shots
  BY DEF GoodStory, GoodBreakdown
<1>3. /\ IsSeq(rest) /\ Ids(rest) = {story.shots[i].id : i \in P}
  <2> HIDE DEF P
  <2> QED
    BY <1>2, PickedIs, PickedSet
<1>4. \A x \in ToSet(story.shots) : x.scene \notin DOMAIN targets => x.id \in Ids(rest)
  <2>1. \A x \in ToSet(story.shots) : \E i \in DOMAIN story.shots : x = story.shots[i]
    BY <1>2, SeqFacts
  <2> HIDE DEF rest
  <2> QED
    BY <1>3, <2>1
<1> HIDE DEF rest, P
<1>5. others.world = story.world /\ others.scenes = story.scenes /\ others.shots = rest
  BY DEF GoodStory
<1> HIDE DEF others
<1>6. DOMAIN r = DOMAIN targets /\ Replanned(r, others, others.shots)
  <2>1. GoodWorld(others.world) /\ IsScript(others.scenes) /\ IsSeq(others.shots)
    BY <1>3, <1>5 DEF GoodStory, GoodScript
  <2>2. DOMAIN targets \subseteq Ids(others.scenes)
    BY <1>5
  <2> QED
    BY <2>1, <2>2, SanitizeIsSound
<1> HIDE DEF r
<1>7. Replanned(r, story, rest)
  BY <1>5, <1>6 DEF Replanned
<1>8. GoodBreakdown(SpliceShots(story, r), story.world, story.scenes)
  BY <1>4, <1>6, <1>7, SpliceIsSound
<1>9. GoodStory([story EXCEPT !.shots = SpliceShots(story, r)])
  BY <1>8, WithShots
<1> QED
  BY <1>1, <1>9

-----------------------------------------------------------------------------
(* Arithmetic of lengths. *)

\* A rounded quotient is an integer, at most half the divisor off.
LEMMA RoundedIs ==
  ASSUME NEW a \in Int, NEW b \in Nat, b > 0
  PROVE  /\ Rounded(a, b) \in Int
         /\ 2 * (b * Rounded(a, b)) - 2 * a <= b
         /\ 2 * a - 2 * (b * Rounded(a, b)) <= b
<1> DEFINE q == a \div b
           r == a % b
<1>1. q \in Int /\ r \in Int /\ r >= 0 /\ r < b
  OBVIOUS
<1>2. a = b * q + r
  OBVIOUS
<1>3. Rounded(a, b) = q \/ Rounded(a, b) = q + 1
  BY DEF Rounded
<1>4. Rounded(a, b) = q => 2 * r <= b
  <2> SUFFICES ASSUME Rounded(a, b) = q PROVE 2 * r <= b
    OBVIOUS
  <2> HIDE DEF q, r
  <2>1. Rounded(a, b) = IF 2 * r < b \/ (2 * r = b /\ q % 2 = 0) THEN q ELSE q + 1
    BY DEF Rounded, q, r
  <2> QED
    BY <1>1, <2>1
<1>5. Rounded(a, b) = q + 1 => 2 * r >= b
  <2> SUFFICES ASSUME Rounded(a, b) = q + 1 PROVE 2 * r >= b
    OBVIOUS
  <2> HIDE DEF q, r
  <2>1. Rounded(a, b) = IF 2 * r < b \/ (2 * r = b /\ q % 2 = 0) THEN q ELSE q + 1
    BY DEF Rounded, q, r
  <2> QED
    BY <1>1, <2>1
<1> DEFINE p == b * q
<1>6. b * (q + 1) = p + b /\ p \in Int
  <2> HIDE DEF q
  <2> QED
    BY <1>1
<1> HIDE DEF q, r
<1>7. CASE Rounded(a, b) = q
  <2>1. b * Rounded(a, b) = p
    BY <1>7
  <2>2. a = p + r
    BY <1>2
  <2> HIDE DEF p
  <2> QED
    BY <1>1, <1>4, <1>6, <1>7, <2>1, <2>2
<1>8. CASE Rounded(a, b) = q + 1
  <2>1. b * Rounded(a, b) = p + b
    BY <1>6, <1>8
  <2>2. a = p + r
    BY <1>2
  <2>3. p \in Int
    BY <1>6
  <2> HIDE DEF p
  <2> QED
    BY <1>1, <1>5, <1>8, <2>1, <2>2, <2>3
<1> QED
  BY <1>3, <1>7, <1>8

\* The sums of the first elements of a sequence.
SumsUp(f, s) ==
  f \in [0..Len(s) -> Int] /\ f[0] = 0 /\ \A i \in 1..Len(s) : f[i] = f[i - 1] + s[i]

\* Total is the sum of the elements.
LEMMA TotalIs ==
  ASSUME NEW s, IsSeq(s), \A i \in 1..Len(s) : s[i] \in Int
  PROVE  \E f : SumsUp(f, s) /\ Total(s) = f[Len(s)]
<1> DEFINE n == Len(s)
           step == [p \in Int \X (1..n) |-> p[1] + s[p[2]]]
           Defines(f) == f = [i \in 0..n |-> IF i = 0 THEN 0 ELSE f[i - 1] + s[i]]
<1>1. n \in Nat
  BY SeqFacts
<1>2. Steps(step, Int, n)
  BY DEF Steps
<1>3. \A a \in Int, i \in 1..n : step[<<a, i>>] = a + s[i]
  OBVIOUS
<1> HIDE DEF step, n
<1>4. PICK g : RunOf(g, step, Int, n, 0)
  <2>1. 0 \in Int
    OBVIOUS
  <2> QED
    BY <1>1, <1>2, <2>1, Recursion
<1>5. Defines(g)
  <2>1. g \in [0..n -> Int] /\ g[0] = 0 /\ \A i \in 1..n : g[i] = step[<<g[i - 1], i>>]
    BY <1>4 DEF RunOf
  <2>2. ASSUME NEW i \in 0..n PROVE g[i] = IF i = 0 THEN 0 ELSE g[i - 1] + s[i]
    <3>1. CASE i = 0
      BY <2>1, <3>1
    <3>2. CASE i # 0
      <4>1. i \in 1..n /\ i - 1 \in 0..n
        BY <1>1, <3>2
      <4> QED
        BY <1>3, <2>1, <3>2, <4>1
    <3> QED
      BY <3>1, <3>2
  <2>3. g = [i \in 0..n |-> g[i]]
    BY <2>1
  <2> QED
    BY <2>2, <2>3
<1> DEFINE h == CHOOSE f : Defines(f)
<1>6. Defines(h)
  <2> HIDE DEF Defines
  <2> QED
    BY <1>5
<1>7. Total(s) = h[n]
  BY DEF Total, n
<1> HIDE DEF h
<1>8. \A i \in 0..n : h[i] = IF i = 0 THEN 0 ELSE h[i - 1] + s[i]
  BY <1>6, Zenon
<1>9. \A i \in 0..n : h[i] \in Int
  <2> DEFINE Bad == {i \in Nat : i <= n /\ h[i] \notin Int}
  <2>1. Bad = {}
    <3> SUFFICES ASSUME Bad # {} PROVE FALSE
      OBVIOUS
    <3>1. PICK i \in Bad : \A k \in Bad : i <= k
      <4>1. Bad \in SUBSET Nat
        OBVIOUS
      <4> HIDE DEF Bad
      <4> QED
        BY <4>1, Least
    <3>2. i \in Nat /\ i <= n /\ h[i] \notin Int
      BY <3>1
    <3>3. i # 0
      BY <1>1, <1>8, <3>2
    <3>4. i - 1 \in Nat /\ i - 1 <= n /\ i - 1 \notin Bad
      <4>1. i - 1 \in Nat /\ i - 1 <= n
        BY <1>1, <3>2, <3>3
      <4> HIDE DEF Bad
      <4> QED
        BY <3>1, <3>2, <4>1
    <3>5. h[i - 1] \in Int
      BY <3>4
    <3>6. i \in 0..n /\ i \in 1..n
      BY <1>1, <3>2, <3>3
    <3>7. h[i] = h[i - 1] + s[i]
      BY <1>8, <3>3, <3>6
    <3>8. s[i] \in Int
      BY <3>6 DEF n
    <3> QED
      BY <3>2, <3>5, <3>7, <3>8
  <2> QED
    BY <1>1, <2>1
<1>10. SumsUp(h, s)
  <2>1. h = [i \in 0..n |-> h[i]]
    BY <1>6
  <2>2. h \in [0..n -> Int]
    BY <1>9, <2>1
  <2>3. h[0] = 0 /\ \A i \in 1..n : h[i] = h[i - 1] + s[i]
    BY <1>1, <1>8
  <2> QED
    BY <2>2, <2>3 DEF SumsUp, n
<1> QED
  BY <1>7, <1>10 DEF n

\* A total of natural numbers is one, no less than any of them.
LEMMA TotalOfNat ==
  ASSUME NEW s, IsSeq(s), \A i \in 1..Len(s) : s[i] \in Nat
  PROVE  Total(s) \in Nat /\ \A i \in 1..Len(s) : s[i] <= Total(s)
<1>1. PICK f : SumsUp(f, s) /\ Total(s) = f[Len(s)]
  <2>1. \A i \in 1..Len(s) : s[i] \in Int
    OBVIOUS
  <2> QED
    BY <2>1, TotalIs
<1> DEFINE n == Len(s)
           Good(i) == f[i] \in Nat /\ \A j \in 1..i : s[j] <= f[i]
           Bad == {i \in Nat : i <= n /\ ~Good(i)}
<1>2. n \in Nat
  BY SeqFacts
<1>3. f[0] = 0 /\ \A i \in 1..n : f[i] = f[i - 1] + s[i]
  BY <1>1 DEF SumsUp
<1>4. Bad = {}
  <2> SUFFICES ASSUME Bad # {} PROVE FALSE
    OBVIOUS
  <2>1. PICK i \in Bad : \A k \in Bad : i <= k
    <3>1. Bad \in SUBSET Nat
      OBVIOUS
    <3> HIDE DEF Bad
    <3> QED
      BY <3>1, Least
  <2>2. i \in Nat /\ i <= n /\ ~Good(i)
    BY <2>1
  <2>3. i # 0
    BY <1>3, <2>2
  <2>4. i - 1 \in Nat /\ i - 1 <= n /\ i \in 1..n /\ Good(i - 1)
    <3>1. i - 1 \in Nat /\ i - 1 <= n /\ i \in 1..n
      BY <1>2, <2>2, <2>3
    <3>2. i - 1 \notin Bad
      <4> HIDE DEF Bad
      <4> QED
        BY <2>1, <2>2, <3>1
    <3> HIDE DEF Good
    <3> QED
      BY <3>1, <3>2
  <2>5. f[i] = f[i - 1] + s[i] /\ s[i] \in Nat
    BY <1>3, <2>4
  <2>6. ASSUME NEW j \in 1..i PROVE s[j] <= f[i]
    <3>1. CASE j = i
      BY <2>4, <2>5, <3>1
    <3>2. CASE j # i
      <4>1. j \in 1..(i - 1) /\ j \in 1..n
        BY <1>2, <2>2, <3>2
      <4> QED
        BY <2>4, <2>5, <4>1
    <3> QED
      BY <3>1, <3>2
  <2>7. Good(i)
    BY <2>4, <2>5, <2>6
  <2> QED
    BY <2>2, <2>7
<1>5. Good(n)
  <2>1. n \notin Bad
    BY <1>4
  <2> HIDE DEF Good
  <2> QED
    BY <1>2, <2>1
<1> QED
  BY <1>1, <1>5

\* The greater of two integers.
LEMMA MaxOfTwo ==
  ASSUME NEW a \in Int, NEW b \in Int
  PROVE  Max({a, b}) \in {a, b} /\ a <= Max({a, b}) /\ b <= Max({a, b})
<1> DEFINE P(x) == x \in {a, b} /\ \A y \in {a, b} : x >= y
<1>1. \E x : P(x)
  <2>1. CASE a >= b
    <3>1. P(a)
      BY <2>1
    <3> QED
      BY <3>1
  <2>2. CASE ~(a >= b)
    <3>1. P(b)
      BY <2>2
    <3> QED
      BY <3>1
  <2> QED
    BY <2>1, <2>2
<1> DEFINE m == CHOOSE x : P(x)
<1>2. P(m)
  <2> HIDE DEF P
  <2> QED
    BY <1>1
<1>3. Max({a, b}) = m
  BY DEF Max
<1> HIDE DEF m
<1> QED
  BY <1>2, <1>3

\* Every scene to be planned again is given a number of shots, one at least.
LEMMA ShotTargetsAre ==
  ASSUME NEW s0, GoodStory(s0), NEW s1, GoodStory(s1), NEW stale
  PROVE  /\ DOMAIN ShotTargets(s0, s1, stale) = stale
         /\ \A id \in stale : id \in Ids(s1.scenes) =>
              ShotTargets(s0, s1, stale)[id] \in Nat /\ ShotTargets(s0, s1, stale)[id] >= 1
<1> DEFINE told == [i \in DOMAIN s1.scenes |-> s1.scenes[i].narration]
           words == Total(told)
           share(id) ==
             IF words = 0 THEN Rounded(s1.brief.length, Len(s1.scenes) * PerShot)
             ELSE Rounded(s1.brief.length * ById(s1.scenes, id).narration, words * PerShot)
           before(id) == Len(ShotsOf(s0, id))
           t == ShotTargets(s0, s1, stale)
<1>1. t = [id \in stale |-> IF before(id) > 0 THEN before(id) ELSE Max({1, share(id)})]
  BY DEF ShotTargets
<1>2. /\ IsSeq(s1.scenes) /\ s1.scenes # <<>> /\ s1.brief.length \in Int
      /\ \A s \in ToSet(s1.scenes) : s.narration \in Nat
  BY DEF GoodStory, GoodScript, IsScript, IsBrief
<1>3. Len(s1.scenes) \in Nat /\ Len(s1.scenes) # 0
  <2>1. Len(s1.scenes) \in Nat
    BY <1>2, SeqFacts
  <2>2. Len(s1.scenes) = 0 => s1.scenes = <<>>
    <3> SUFFICES ASSUME Len(s1.scenes) = 0 PROVE s1.scenes = <<>>
      OBVIOUS
    <3>1. \A i \in 1..Len(s1.scenes) : s1.scenes[i] = <<>>[i]
      OBVIOUS
    <3> QED
      BY <1>2, <3>1, EmptyIsSeq, SeqSame
  <2> QED
    BY <1>2, <2>1, <2>2
<1>4. words \in Nat
  <2>1. told = [i \in 1..Len(s1.scenes) |-> told[i]] /\ \A i \in 1..Len(s1.scenes) : told[i] \in Nat
    BY <1>2, SeqFacts
  <2> HIDE DEF told
  <2>2. IsSeq(told) /\ Len(told) = Len(s1.scenes)
    BY <1>3, <2>1, SeqMade
  <2> QED
    BY <2>1, <2>2, TotalOfNat
<1> HIDE DEF words
<1>5. ASSUME NEW id \in Ids(s1.scenes) PROVE share(id) \in Int
  <2>1. ById(s1.scenes, id).narration \in Nat
    <3>1. ById(s1.scenes, id) \in ToSet(s1.scenes)
      BY <1>2, ByIdIs
    <3> QED
      BY <1>2, <3>1
  <2> DEFINE m == ById(s1.scenes, id).narration
             a == s1.brief.length * m
             b == Len(s1.scenes) * PerShot
             c == words * PerShot
  <2>2. b \in Nat /\ b > 0
    BY <1>3 DEF PerShot
  <2>3. words # 0 => c \in Nat /\ c > 0
    BY <1>4 DEF PerShot
  <2>4. a \in Int
    <3> DEFINE l == s1.brief.length
    <3>1. l \in Int /\ m \in Int
      BY <1>2, <2>1
    <3> HIDE DEF l, m
    <3> QED
      BY <3>1 DEF l
  <2> HIDE DEF a, b, c, m
  <2>5. Rounded(s1.brief.length, b) \in Int
    BY <1>2, <2>2, RoundedIs
  <2>6. words # 0 => Rounded(a, c) \in Int
    BY <2>3, <2>4, RoundedIs
  <2> QED
    BY <2>5, <2>6 DEF a, b, c, m
<1> HIDE DEF share
<1>6. ASSUME NEW id PROVE before(id) \in Nat
  <2>1. IsSeq(ShotsOf(s0, id))
    BY ShotsOfIs DEF GoodBreakdown
  <2> QED
    BY <2>1, SeqFacts
<1> HIDE DEF before
<1>7. ASSUME NEW id \in stale, id \in Ids(s1.scenes) PROVE t[id] \in Nat /\ t[id] >= 1
  <2> DEFINE x == share(id)
  <2>1. x \in Int
    BY <1>5, <1>7
  <2> HIDE DEF x
  <2>2. Max({1, x}) \in {1, x} /\ 1 <= Max({1, x})
    BY <2>1, MaxOfTwo
  <2>3. Max({1, x}) \in Nat
    BY <2>1, <2>2
  <2>4. t[id] = IF before(id) > 0 THEN before(id) ELSE Max({1, x})
    BY <1>1 DEF x
  <2> HIDE DEF t
  <2> QED
    BY <1>6, <2>2, <2>3, <2>4
<1>8. DOMAIN t = stale
  BY <1>1
<1> QED
  BY <1>7, <1>8

\* What the mock agent answers is a breakdown.
LEMMA MockReplanIs ==
  ASSUME NEW story, GoodStory(story), NEW targets,
         \A id \in DOMAIN targets : id \in Ids(story.scenes) => targets[id] \in Nat,
         NEW parentStory
  PROVE  IsBreakdown(MockReplan(story, targets, parentStory))
<1> DEFINE shot(scene, k) ==
             [id |-> <<"mock", scene.id, k>>, scene |-> scene.id, length |-> PerShot,
              action |-> <<"mock", scene.beat, k, targets[scene.id]>>,
              location |-> SceneLocation(story, scene, parentStory), subjects |-> <<>>]
           b == [i \in DOMAIN story.scenes |->
                  IF story.scenes[i].id \in DOMAIN targets
                  THEN [k \in 1..targets[story.scenes[i].id] |-> shot(story.scenes[i], k)] ELSE <<>>]
           fields == {"id", "scene", "action", "length", "location", "subjects"}
           Fit(x) == fields \subseteq DOMAIN x /\ x.length \in Int /\ IsSeq(x.subjects)
<1>1. MockReplan(story, targets, parentStory) = FlattenSeq(b)
  BY DEF MockReplan
<1>2. ASSUME NEW scene, NEW k PROVE Fit(shot(scene, k))
  <2> DEFINE id == <<"mock", scene.id, k>>
             act == <<"mock", scene.beat, k, targets[scene.id]>>
             at == SceneLocation(story, scene, parentStory)
  <2> HIDE DEF id, act, at
  <2>1. shot(scene, k) = [id |-> id, scene |-> scene.id, length |-> PerShot, action |-> act,
                          location |-> at, subjects |-> <<>>]
    BY DEF id, act, at
  <2> HIDE DEF shot
  <2>2. shot(scene, k).length = PerShot /\ shot(scene, k).subjects = <<>> /\ fields \subseteq DOMAIN shot(scene, k)
    BY <2>1
  <2> QED
    BY <2>2, EmptyIsSeq DEF PerShot
<1> HIDE DEF shot
<1>3. IsSeq(story.scenes) /\ Len(story.scenes) \in Nat /\ DOMAIN story.scenes = 1..Len(story.scenes)
  <2>1. IsSeq(story.scenes)
    BY DEF GoodStory, GoodScript, IsScript
  <2> QED
    BY <2>1, SeqFacts
<1>4. ASSUME NEW i \in 1..Len(story.scenes) PROVE IsSeq(b[i]) /\ \A x \in ToSet(b[i]) : Fit(x)
  <2> DEFINE id == story.scenes[i].id
             t == [k \in 1..targets[id] |-> shot(story.scenes[i], k)]
  <2>1. b[i] = IF id \in DOMAIN targets THEN t ELSE <<>>
    BY <1>3
  <2>2. CASE id \in DOMAIN targets
    <3>1. id \in Ids(story.scenes)
      BY <1>3, IdsIs
    <3>2. targets[id] \in Nat
      BY <2>2, <3>1
    <3>3. t = [k \in 1..targets[id] |-> t[k]] /\ \A k \in 1..targets[id] : Fit(t[k])
      <4> HIDE DEF Fit
      <4> QED
        BY <1>2
    <3> HIDE DEF t, Fit
    <3>4. IsSeq(t) /\ Len(t) = targets[id]
      BY <3>2, <3>3, SeqMade
    <3>5. \A x \in ToSet(t) : \E k \in 1..Len(t) : t[k] = x
      BY <3>4, SeqFacts
    <3> QED
      BY <2>1, <2>2, <3>3, <3>4, <3>5
  <2>3. CASE id \notin DOMAIN targets
    <3> HIDE DEF Fit, t, b
    <3> QED
      BY <2>1, <2>3, EmptyIsSeq
  <2> QED
    BY <2>2, <2>3
<1>5. b = [i \in 1..Len(story.scenes) |-> b[i]]
  BY <1>3
<1> HIDE DEF b, Fit
<1>6. IsBlocks(b) /\ Len(b) = Len(story.scenes)
  <2>1. IsSeq(b) /\ Len(b) = Len(story.scenes)
    BY <1>3, <1>5, SeqMade
  <2> QED
    BY <1>4, <2>1 DEF IsBlocks
<1>7. IsSeq(FlattenSeq(b)) /\ \A x \in ToSet(FlattenSeq(b)) : \E i \in 1..Len(b) : x \in ToSet(b[i])
  BY <1>6, FlattenedSet
<1>8. \A x \in ToSet(FlattenSeq(b)) : Fit(x)
  BY <1>4, <1>6, <1>7
<1> QED
  BY <1>1, <1>7, <1>8 DEF IsBreakdown, Fit

-----------------------------------------------------------------------------
(* The story of a package. *)

\* A package of the shape assembly gives it.
GoodPackage(pkg) == IsPackage(pkg) /\ SoundPackage(pkg)

\* The ids of the entities whose images are among some references, in their order.
Pictured(refs, entities) ==
  LET known == Among(refs, {RefOf(e) : e \in ToSet(entities)}) IN
  Distinct([k \in DOMAIN known |->
              entities[SelectInSeq(entities, LAMBDA e : RefOf(e) = known[k])].id])

\* They are ids of these entities.
LEMMA PicturedIs ==
  ASSUME NEW refs, IsSeq(refs), NEW entities, IsSeq(entities)
  PROVE  IsSeq(Pictured(refs, entities)) /\ ToSet(Pictured(refs, entities)) \subseteq Ids(entities)
<1> DEFINE images == {RefOf(e) : e \in ToSet(entities)}
           known == Among(refs, images)
           at(k) == SelectInSeq(entities, LAMBDA e : RefOf(e) = known[k])
           ids == [k \in DOMAIN known |-> entities[at(k)].id]
<1>1. Pictured(refs, entities) = Distinct(ids)
  BY DEF Pictured
<1>2. IsSeq(known) /\ ToSet(known) \subseteq images
  <2> HIDE DEF images
  <2> QED
    BY AmongIs
<1>3. Len(entities) \in Nat /\ \A e \in ToSet(entities) : \E i \in 1..Len(entities) : entities[i] = e
  BY SeqFacts
<1> HIDE DEF known
<1>4. DOMAIN known = 1..Len(known) /\ Len(known) \in Nat /\ \A k \in 1..Len(known) : known[k] \in ToSet(known)
  BY <1>2, SeqFacts
<1>5. ASSUME NEW k \in 1..Len(known) PROVE at(k) \in 1..Len(entities)
  <2> DEFINE I == {i \in 1..Len(entities) : RefOf(entities[i]) = known[k]}
  <2>1. at(k) = IF I # {} THEN Min(I) ELSE 0
    BY DEF SelectInSeq
  <2>2. I # {}
    <3>1. known[k] \in images
      BY <1>2, <1>4
    <3>2. PICK e \in ToSet(entities) : RefOf(e) = known[k]
      BY <3>1
    <3>3. PICK i \in 1..Len(entities) : entities[i] = e
      BY <1>3
    <3> QED
      BY <3>2, <3>3
  <2>3. I \subseteq 1..Len(entities)
    OBVIOUS
  <2> HIDE DEF I, at
  <2>4. Min(I) \in I
    BY <1>3, <2>2, <2>3, LeastPlace
  <2> QED
    BY <2>1, <2>2, <2>3, <2>4
<1> HIDE DEF at
<1>6. ids = [k \in 1..Len(known) |-> ids[k]] /\ \A k \in 1..Len(known) : ids[k] = entities[at(k)].id
  BY <1>4
<1> HIDE DEF ids
<1>7. IsSeq(ids) /\ Len(ids) = Len(known)
  BY <1>4, <1>6, SeqMade
<1>8. \A k \in 1..Len(known) : ids[k] \in Ids(entities)
  BY <1>5, <1>6, IdsIs
<1>9. ToSet(ids) \subseteq Ids(entities)
  BY <1>7, <1>8, SeqFacts
<1>10. IsSeq(Distinct(ids)) /\ ToSet(Distinct(ids)) = ToSet(ids)
  BY <1>7, DistinctFacts
<1> QED
  BY <1>1, <1>9, <1>10

\* What is inferred of a shot nobody has tagged names places and characters of the world.
LEMMA InferTagsIs ==
  ASSUME NEW asset, IsSeq(asset.refs), NEW world, GoodWorld(world), NEW sceneLocation
  PROVE  LET tags == InferTags(asset, world, sceneLocation) IN
         /\ tags.location \in Ids(world.locations)
         /\ IsSeq(tags.subjects) /\ ToSet(tags.subjects) \subseteq Ids(world.characters)
<1> DEFINE places == Pictured(asset.refs, world.locations)
           cast == Pictured(asset.refs, world.characters)
           named == LocationNamed(world, sceneLocation)
           tags == InferTags(asset, world, sceneLocation)
           at == IF places # <<>> THEN places[1]
                 ELSE world.locations[IF named # 0 THEN named ELSE 1].id
<1>1. tags = [location |-> at, subjects |-> cast]
  BY DEF InferTags, Pictured
<1>2. IsSeq(world.locations) /\ IsSeq(world.characters)
  BY DEF GoodWorld, IsWorld
<1>3. Len(world.locations) \in Nat /\ Len(world.locations) >= 1 /\ named \in 0..Len(world.locations)
  BY <1>2, EntitiesIs, LocationNamedIs
<1>4. /\ IsSeq(cast) /\ ToSet(cast) \subseteq Ids(world.characters)
      /\ IsSeq(places) /\ ToSet(places) \subseteq Ids(world.locations)
  BY <1>2, PicturedIs
<1> HIDE DEF places, cast, named
<1>5. at \in Ids(world.locations)
  <2>1. CASE places # <<>>
    <3>1. Len(places) # 0
      <4> SUFFICES ASSUME Len(places) = 0 PROVE FALSE
        OBVIOUS
      <4>1. \A i \in 1..Len(places) : places[i] = <<>>[i]
        OBVIOUS
      <4> QED
        BY <1>4, <2>1, <4>1, EmptyIsSeq, SeqSame
    <3>2. 1 \in 1..Len(places) /\ places[1] \in ToSet(places)
      BY <1>4, <3>1, SeqFacts
    <3> QED
      BY <1>4, <2>1, <3>2
  <2>2. CASE places = <<>>
    <3>1. (IF named # 0 THEN named ELSE 1) \in 1..Len(world.locations)
      BY <1>3
    <3>2. Ids(world.locations) = {world.locations[i].id : i \in 1..Len(world.locations)}
      BY <1>2, IdsIs
    <3> QED
      BY <2>2, <3>1, <3>2
  <2> QED
    BY <2>1, <2>2
<1> HIDE DEF tags, at
<1>6. tags.location = at /\ tags.subjects = cast
  BY <1>1
<1> QED
  BY <1>4, <1>5, <1>6 DEF tags

\* The nodes of a type are nodes of the package, each once.
LEMMA OfTypeIs ==
  ASSUME NEW pkg, IsSeq(pkg.assets), NEW type
  PROVE  /\ IsSeq(OfType(pkg, type))
         /\ \A a : a \in ToSet(OfType(pkg, type)) <=> a \in ToSet(pkg.assets) /\ a.type = type
         /\ DistinctIds(pkg.assets) => DistinctIds(OfType(pkg, type))
<1> DEFINE P == {i \in DOMAIN pkg.assets : pkg.assets[i].type = type}
<1>1. OfType(pkg, type) = Picked(pkg.assets, P)
  BY DEF OfType, Where
<1>2. P \subseteq DOMAIN pkg.assets
  OBVIOUS
<1>3. /\ IsSeq(Picked(pkg.assets, P)) /\ ToSet(Picked(pkg.assets, P)) = {pkg.assets[i] : i \in P}
      /\ DistinctIds(pkg.assets) => DistinctIds(Picked(pkg.assets, P))
  <2> HIDE DEF P
  <2> QED
    BY <1>2, PickedIs, PickedSet, PickedDistinct
<1>4. ASSUME NEW a PROVE a \in {pkg.assets[i] : i \in P} <=> a \in ToSet(pkg.assets) /\ a.type = type
  <2>1. /\ \A i \in DOMAIN pkg.assets : pkg.assets[i] \in ToSet(pkg.assets)
        /\ \A x \in ToSet(pkg.assets) : \E i \in DOMAIN pkg.assets : pkg.assets[i] = x
    BY SeqFacts
  <2> QED
    BY <2>1
<1> HIDE DEF P
<1> QED
  BY <1>1, <1>3, <1>4

\* The videos in the order of the timeline are videos of the package, each of them once.
LEMMA VideosAre ==
  ASSUME NEW pkg, IsSeq(pkg.assets), DistinctIds(pkg.assets), IsSeq(pkg.timeline), IsInjective(pkg.timeline)
  PROVE  /\ IsSeq(Videos(pkg)) /\ DistinctIds(Videos(pkg))
         /\ \A a \in ToSet(Videos(pkg)) : a \in ToSet(pkg.assets) /\ a.type = "video"
<1> DEFINE videos == OfType(pkg, "video")
           P(i) == {k \in DOMAIN videos : videos[k].id = pkg.timeline[i]}
           Q == {k \in DOMAIN videos : videos[k].id \notin ToSet(pkg.timeline)}
           b == [i \in DOMAIN pkg.timeline |-> Picked(videos, P(i))]
           rest == Picked(videos, Q)
<1>1. Videos(pkg) = FlattenSeq(b) \o rest
  BY DEF Videos, Where
<1>2. /\ IsSeq(videos) /\ DistinctIds(videos)
      /\ \A a \in ToSet(videos) : a \in ToSet(pkg.assets) /\ a.type = "video"
  BY OfTypeIs
<1>3. Len(pkg.timeline) \in Nat /\ DOMAIN pkg.timeline = 1..Len(pkg.timeline)
  BY SeqFacts
<1> HIDE DEF videos
<1>4. ASSUME NEW i \in 1..Len(pkg.timeline)
      PROVE  /\ IsSeq(b[i]) /\ DistinctIds(b[i]) /\ ToSet(b[i]) \subseteq ToSet(videos)
             /\ Ids(b[i]) \subseteq {pkg.timeline[i]}
  <2> DEFINE R == P(i)
  <2>1. b[i] = Picked(videos, R)
    BY <1>3
  <2>2. R \subseteq DOMAIN videos /\ \A k \in R : videos[k].id = pkg.timeline[i]
    OBVIOUS
  <2> HIDE DEF R, b
  <2>3. /\ IsSeq(Picked(videos, R)) /\ DistinctIds(Picked(videos, R))
        /\ ToSet(Picked(videos, R)) \subseteq ToSet(videos)
        /\ Ids(Picked(videos, R)) = {videos[k].id : k \in R}
    BY <1>2, <2>2, PickedIs, PickedSet, PickedDistinct
  <2> QED
    BY <2>1, <2>2, <2>3
<1>5. /\ IsSeq(rest) /\ DistinctIds(rest) /\ ToSet(rest) \subseteq ToSet(videos)
      /\ \A id \in Ids(rest) : id \notin ToSet(pkg.timeline)
  <2>1. Q \subseteq DOMAIN videos /\ \A k \in Q : videos[k].id \notin ToSet(pkg.timeline)
    OBVIOUS
  <2> HIDE DEF Q
  <2>2. Ids(rest) = {videos[k].id : k \in Q}
    BY <1>2, <2>1, PickedSet
  <2> QED
    BY <1>2, <2>1, <2>2, PickedIs, PickedSet, PickedDistinct
<1>6. b = [i \in 1..Len(pkg.timeline) |-> b[i]]
  BY <1>3
<1> HIDE DEF b, rest
<1>7. IsBlocks(b) /\ Len(b) = Len(pkg.timeline)
  <2>1. IsSeq(b) /\ Len(b) = Len(pkg.timeline)
    BY <1>3, <1>6, SeqMade
  <2> QED
    BY <1>4, <2>1 DEF IsBlocks
<1>8. \A i, j \in 1..Len(b) : i # j => Ids(b[i]) \cap Ids(b[j]) = {}
  <2>1. \A i, j \in 1..Len(pkg.timeline) : i # j => pkg.timeline[i] # pkg.timeline[j]
    BY <1>3 DEF IsInjective
  <2> QED
    BY <1>4, <1>7, <2>1
<1>9. DistinctIds(FlattenSeq(b))
  BY <1>4, <1>7, <1>8, FlattenDistinct
<1>10. /\ IsSeq(FlattenSeq(b))
       /\ \A x \in ToSet(FlattenSeq(b)) : \E i \in 1..Len(b) : x \in ToSet(b[i])
  BY <1>7, FlattenedSet
<1>11. Ids(FlattenSeq(b)) \cap Ids(rest) = {}
  <2> SUFFICES ASSUME NEW id \in Ids(FlattenSeq(b)), id \in Ids(rest) PROVE FALSE
    OBVIOUS
  <2>1. Ids(FlattenSeq(b)) = {x.id : x \in ToSet(FlattenSeq(b))}
    BY <1>10, IdsIs
  <2>2. PICK x \in ToSet(FlattenSeq(b)) : x.id = id
    BY <2>1
  <2>3. PICK i \in 1..Len(b) : x \in ToSet(b[i])
    BY <1>10
  <2>4. Ids(b[i]) = {y.id : y \in ToSet(b[i])}
    BY <1>4, <1>7, IdsIs
  <2>5. id = pkg.timeline[i] /\ i \in 1..Len(pkg.timeline)
    BY <1>4, <1>7, <2>2, <2>3, <2>4
  <2>6. id \in ToSet(pkg.timeline)
    BY <2>5, SeqFacts
  <2> QED
    BY <1>5, <2>6
<1>12. IsSeq(Videos(pkg)) /\ ToSet(Videos(pkg)) = ToSet(FlattenSeq(b)) \cup ToSet(rest)
  BY <1>1, <1>5, <1>10, Concat
<1>13. DistinctIds(Videos(pkg))
  BY <1>1, <1>5, <1>9, <1>10, <1>11, ConcatIds
<1>14. \A x \in ToSet(Videos(pkg)) : x \in ToSet(videos)
  BY <1>4, <1>5, <1>7, <1>10, <1>12
<1> QED
  BY <1>2, <1>12, <1>13, <1>14

\* The scenes of a package are a script.
LEMMA ScenesOfIs ==
  ASSUME NEW pkg, GoodPackage(pkg)
  PROVE  GoodScript(ScenesOf(pkg))
<1>1. CASE pkg.scenes # <<>>
  BY <1>1 DEF ScenesOf, GoodScript, GoodPackage, IsPackage, SoundPackage
<1>2. CASE pkg.scenes = <<>>
  <2> DEFINE at == pkg.world.locations[1].name
             s == [id |-> 1, beat |-> <<"premise">>, location |-> at, narration |-> 9]
  <2>1. ScenesOf(pkg) = <<s>>
    BY <1>2 DEF ScenesOf
  <2> HIDE DEF at
  <2>2. {"id", "beat", "location", "narration"} \subseteq DOMAIN s /\ s.id \in Nat /\ s.narration \in Nat
    OBVIOUS
  <2> HIDE DEF s
  <2>3. IsSeq(<<s>>) /\ ToSet(<<s>>) = {s} /\ Len(<<s>>) = 1 /\ DistinctIds(<<s>>)
    BY Single, SingleIds
  <2>4. <<s>> # <<>>
    OBVIOUS
  <2> QED
    BY <2>1, <2>2, <2>3, <2>4 DEF GoodScript, IsScript
<1> QED
  BY <1>1, <1>2

\* The shot of a story that a video is.
ShotOf(pkg, asset) ==
  LET scenes == ScenesOf(pkg)
      tagged == asset.id \in Ids(pkg.shots)
      ns == ById(pkg.shots, asset.id)
      scene == IF tagged /\ ns.scene \in Ids(scenes) THEN ns.scene ELSE scenes[1].id
      tags == IF tagged THEN [location |-> ns.location, subjects |-> ns.subjects]
              ELSE InferTags(asset, pkg.world, ById(scenes, scene).location)
  IN [id |-> asset.id, scene |-> scene, length |-> asset.length,
      action |-> IF tagged THEN ns.action ELSE <<"untold">>,
      location |-> tags.location, subjects |-> tags.subjects]

\* A video's shot is sound in the story of its package.
LEMMA ShotOfIs ==
  ASSUME NEW pkg, GoodPackage(pkg), NEW asset \in ToSet(pkg.assets)
  PROVE  ShotOf(pkg, asset).id = asset.id /\ GoodShot(ShotOf(pkg, asset), pkg.world, ScenesOf(pkg))
<1> DEFINE scenes == ScenesOf(pkg)
           tagged == asset.id \in Ids(pkg.shots)
           ns == ById(pkg.shots, asset.id)
           scene == IF tagged /\ ns.scene \in Ids(scenes) THEN ns.scene ELSE scenes[1].id
           inferred == InferTags(asset, pkg.world, ById(scenes, scene).location)
           tags == IF tagged THEN [location |-> ns.location, subjects |-> ns.subjects] ELSE inferred
           act == IF tagged THEN ns.action ELSE <<"untold">>
           x == ShotOf(pkg, asset)
<1>1. x = [id |-> asset.id, scene |-> scene, length |-> asset.length, action |-> act,
           location |-> tags.location, subjects |-> tags.subjects]
  BY DEF ShotOf
<1>2. IsAsset(asset) /\ GoodWorld(pkg.world) /\ IsBreakdown(pkg.shots)
  BY DEF GoodPackage, IsPackage, SoundPackage, GoodWorld
<1>3. scene \in Ids(scenes)
  <2>1. GoodScript(scenes)
    BY ScenesOfIs
  <2> HIDE DEF scenes
  <2>2. IsSeq(scenes) /\ scenes # <<>>
    BY <2>1 DEF GoodScript, IsScript
  <2>3. Len(scenes) \in Nat /\ Len(scenes) # 0
    <3>1. Len(scenes) \in Nat
      BY <2>2, SeqFacts
    <3>2. ASSUME Len(scenes) = 0 PROVE FALSE
      <4>1. \A i \in 1..Len(scenes) : scenes[i] = <<>>[i]
        BY <3>2
      <4> QED
        BY <2>2, <3>2, <4>1, EmptyIsSeq, SeqSame
    <3> QED
      BY <3>1, <3>2
  <2>4. scenes[1].id \in Ids(scenes)
    <3>1. 1 \in 1..Len(scenes)
      BY <2>3
    <3> QED
      BY <2>2, <3>1, IdsIs
  <2> QED
    BY <2>4
<1>4. /\ tags.location \in Ids(pkg.world.locations)
      /\ IsSeq(tags.subjects) /\ ToSet(tags.subjects) \subseteq Ids(pkg.world.characters)
  <2>1. CASE tagged
    <3>1. IsSeq(pkg.shots) /\ \A y \in ToSet(pkg.shots) : IsSeq(y.subjects)
      BY <1>2 DEF IsBreakdown
    <3>2. ns \in ToSet(pkg.shots)
      BY <2>1, <3>1, ByIdIs
    <3> HIDE DEF ns, tagged
    <3>3. /\ ns.location \in Ids(pkg.world.locations) /\ IsSeq(ns.subjects)
          /\ ToSet(ns.subjects) \subseteq Ids(pkg.world.characters)
      BY <3>1, <3>2 DEF GoodPackage, SoundPackage
    <3>4. tags.location = ns.location /\ tags.subjects = ns.subjects
      BY <2>1
    <3> QED
      BY <3>3, <3>4
  <2>2. CASE ~tagged
    <3>1. IsSeq(asset.refs)
      BY <1>2 DEF IsAsset
    <3>2. tags = inferred
      BY <2>2
    <3> HIDE DEF tags, scene, scenes, tagged
    <3>3. /\ inferred.location \in Ids(pkg.world.locations)
          /\ IsSeq(inferred.subjects) /\ ToSet(inferred.subjects) \subseteq Ids(pkg.world.characters)
      BY <1>2, <3>1, InferTagsIs
    <3> QED
      BY <3>2, <3>3
  <2> QED
    BY <2>1, <2>2
<1>5. asset.length \in Int
  BY <1>2 DEF IsAsset
<1> HIDE DEF scene, tags, act, x, scenes
<1>6. /\ x.id = asset.id /\ x.scene = scene /\ x.length = asset.length /\ x.location = tags.location
      /\ x.subjects = tags.subjects
      /\ {"id", "scene", "action", "length", "location", "subjects"} \subseteq DOMAIN x
  BY <1>1
<1>7. GoodShot(x, pkg.world, scenes)
  BY <1>3, <1>4, <1>5, <1>6 DEF GoodShot
<1> QED
  BY <1>6, <1>7 DEF x, scenes

\* The story read out of a package is sound.
THEOREM StoryFromPackageIs ==
  ASSUME NEW pkg, GoodPackage(pkg)
  PROVE  GoodStory(StoryFromPackage(pkg))
<1> DEFINE videos == Videos(pkg)
           vos == Voiceovers(pkg)
           shots == [i \in DOMAIN videos |-> ShotOf(pkg, videos[i])]
           voice == IF vos # <<>> THEN vos[1].voice ELSE pkg.brief.voice
           brief == [pkg.brief EXCEPT !.voice = voice]
           s == StoryFromPackage(pkg)
<1>1. s = [brief |-> brief, world |-> pkg.world, scenes |-> ScenesOf(pkg), shots |-> shots]
  BY DEF StoryFromPackage, ShotOf
<1>2. IsBrief(brief)
  <2>1. IsBrief(pkg.brief)
    BY DEF GoodPackage, IsPackage
  <2> HIDE DEF voice
  <2>2. pkg.brief = [length |-> pkg.brief.length, style |-> pkg.brief.style, voice |-> pkg.brief.voice]
    BY <2>1 DEF IsBrief
  <2>3. brief = [length |-> pkg.brief.length, style |-> pkg.brief.style, voice |-> voice]
    BY <2>2
  <2> HIDE DEF brief
  <2>4. brief.length = pkg.brief.length /\ brief.style = pkg.brief.style /\ brief.voice = voice
    BY <2>3
  <2> QED
    BY <2>1, <2>3, <2>4 DEF IsBrief
<1>3. /\ IsSeq(pkg.assets) /\ DistinctIds(pkg.assets) /\ IsSeq(pkg.timeline) /\ IsInjective(pkg.timeline)
      /\ GoodWorld(pkg.world)
  BY DEF GoodPackage, IsPackage, SoundPackage, GoodWorld
<1>4. /\ IsSeq(videos) /\ DistinctIds(videos) /\ \A a \in ToSet(videos) : a \in ToSet(pkg.assets)
  BY <1>3, VideosAre
<1> HIDE DEF videos
<1>5. /\ Len(videos) \in Nat /\ DOMAIN videos = 1..Len(videos)
      /\ \A i \in 1..Len(videos) : videos[i] \in ToSet(pkg.assets)
  BY <1>4, SeqFacts
<1>6. shots = [i \in 1..Len(videos) |-> shots[i]] /\ \A i \in 1..Len(videos) : shots[i] = ShotOf(pkg, videos[i])
  BY <1>5
<1> HIDE DEF shots
<1>7. IsSeq(shots) /\ Len(shots) = Len(videos)
  BY <1>5, <1>6, SeqMade
<1>8. ASSUME NEW i \in 1..Len(videos)
      PROVE  shots[i].id = videos[i].id /\ GoodShot(shots[i], pkg.world, ScenesOf(pkg))
  <2> DEFINE a == videos[i]
  <2>1. a \in ToSet(pkg.assets) /\ shots[i] = ShotOf(pkg, a)
    BY <1>5, <1>6
  <2> HIDE DEF a
  <2>2. ShotOf(pkg, a).id = a.id /\ GoodShot(ShotOf(pkg, a), pkg.world, ScenesOf(pkg))
    BY <2>1, ShotOfIs
  <2> QED
    BY <2>1, <2>2 DEF a
<1>9. DistinctIds(shots)
  BY <1>4, <1>7, <1>8, SameIds
<1>10. GoodBreakdown(shots, pkg.world, ScenesOf(pkg))
  <2>1. \A x \in ToSet(shots) : \E i \in 1..Len(videos) : shots[i] = x
    BY <1>7, SeqFacts
  <2> QED
    BY <1>7, <1>8, <1>9, <2>1 DEF GoodBreakdown
<1> HIDE DEF brief, s
<1>11. /\ s.brief = brief /\ s.world = pkg.world /\ s.scenes = ScenesOf(pkg) /\ s.shots = shots
       /\ {"brief", "world", "scenes", "shots"} \subseteq DOMAIN s
  BY <1>1
<1>12. GoodStory(s)
  BY <1>2, <1>3, <1>10, <1>11, ScenesOfIs DEF GoodStory
<1> QED
  BY <1>12 DEF s

-----------------------------------------------------------------------------
(* The nodes of a package by their types. *)

\* The nodes of a type.
Select(seq, type) == Where(seq, LAMBDA a : a.type = type)

\* Those of two sequences are those of the first and then those of the second.
LEMMA SelectConcat ==
  ASSUME NEW s, IsSeq(s), NEW t, IsSeq(t), NEW type
  PROVE  Select(s \o t, type) = Select(s, type) \o Select(t, type)
<1> DEFINE r == s \o t
           P == {i \in DOMAIN r : r[i].type = type}
           Q == {i \in DOMAIN s : s[i].type = type}
           R == {i \in DOMAIN t : t[i].type = type}
<1>1. Select(r, type) = Picked(r, P) /\ Select(s, type) = Picked(s, Q) /\ Select(t, type) = Picked(t, R)
  BY DEF Select, Where
<1>2. /\ IsSeq(r) /\ Len(r) = Len(s) + Len(t) /\ Len(s) \in Nat /\ Len(t) \in Nat
      /\ DOMAIN r = 1..Len(r) /\ DOMAIN s = 1..Len(s) /\ DOMAIN t = 1..Len(t)
      /\ \A i \in 1..Len(s) : r[i] = s[i]
      /\ \A i \in 1..Len(t) : r[Len(s) + i] = t[i]
  BY Concat, SeqFacts
<1> HIDE DEF r
<1>3. \A i : i \in Q <=> i \in DOMAIN s /\ i \in P
  <2> SUFFICES ASSUME NEW i \in DOMAIN s PROVE i \in Q <=> i \in P
    OBVIOUS
  <2>1. i \in DOMAIN r /\ r[i] = s[i]
    BY <1>2
  <2> QED
    BY <2>1
<1>4. \A i : i \in R <=> i \in DOMAIN t /\ Len(s) + i \in P
  <2> SUFFICES ASSUME NEW i \in DOMAIN t PROVE i \in R <=> Len(s) + i \in P
    OBVIOUS
  <2>1. Len(s) + i \in DOMAIN r /\ r[Len(s) + i] = t[i]
    BY <1>2
  <2> QED
    BY <2>1
<1>5. P \subseteq DOMAIN r
  OBVIOUS
<1> HIDE DEF P, Q, R
<1>6. Splits(P, s, t, Q, R)
  BY <1>3, <1>4, <1>5 DEF r, Splits
<1>7. Picked(s \o t, P) = Picked(s, Q) \o Picked(t, R)
  BY <1>6, PickedConcat
<1> QED
  BY <1>1, <1>7 DEF r

\* Of a sequence of one type they are all or none.
LEMMA SelectAll ==
  ASSUME NEW s, IsSeq(s), NEW type, NEW own, \A a \in ToSet(s) : a.type = own
  PROVE  Select(s, type) = IF own = type THEN s ELSE <<>>
<1> DEFINE P == {i \in DOMAIN s : s[i].type = type}
<1>1. Select(s, type) = Picked(s, P)
  BY DEF Select, Where
<1>2. \A i \in DOMAIN s : s[i].type = own
  BY SeqFacts
<1>3. CASE own = type
  <2>1. P = DOMAIN s
    BY <1>2, <1>3
  <2> HIDE DEF P
  <2>2. Picked(s, P) = s
    BY <2>1, PickedAll
  <2> QED
    BY <1>1, <1>3, <2>2
<1>4. CASE own # type
  <2>1. P = {}
    BY <1>2, <1>4
  <2> HIDE DEF P
  <2>2. Picked(s, P) = <<>>
    BY <2>1, PickedNone
  <2> QED
    BY <1>1, <1>4, <2>2
<1> QED
  BY <1>3, <1>4

\* The empty sequence adds nothing.
LEMMA ConcatEmpty ==
  ASSUME NEW s, IsSeq(s)
  PROVE  <<>> \o s = s /\ s \o <<>> = s
<1>1. IsSeq(<<>>) /\ Len(<<>>) = 0
  BY EmptyIsSeq
<1>2. Len(s) \in Nat
  BY SeqFacts
<1>3. <<>> \o s = s
  <2>1. IsSeq(<<>> \o s) /\ Len(<<>> \o s) = Len(s)
    BY <1>1, <1>2, Concat
  <2>2. \A i \in 1..Len(s) : (<<>> \o s)[Len(<<>>) + i] = s[i]
    BY <1>1, Concat
  <2>3. \A i \in 1..Len(s) : (<<>> \o s)[i] = s[i]
    BY <1>1, <1>2, <2>2
  <2> QED
    BY <2>1, <2>3, SeqSame
<1>4. s \o <<>> = s
  <2>1. IsSeq(s \o <<>>) /\ Len(s \o <<>>) = Len(s) /\ \A i \in 1..Len(s) : (s \o <<>>)[i] = s[i]
    <3>1. IsSeq(s \o <<>>) /\ Len(s \o <<>>) = Len(s) + Len(<<>>) /\ \A i \in 1..Len(s) : (s \o <<>>)[i] = s[i]
      BY <1>1, Concat
    <3> QED
      BY <1>1, <1>2, <3>1
  <2> QED
    BY <2>1, SeqSame
<1> QED
  BY <1>3, <1>4

-----------------------------------------------------------------------------
(* Dependencies. *)

\* What is bound to wait for something that is left.
Bound(assets, left) ==
  {a \in left : (ToSet(a.deps) \cap Ids(assets)) \cap {b.id : b \in left} # {}}

\* Nodes that only depend on nodes before them are acyclic.
THEOREM OrderedIsAcyclic ==
  ASSUME NEW assets, IsSeq(assets),
         \A i, j \in 1..Len(assets) : assets[j].id \in ToSet(assets[i].deps) => j < i
  PROVE  Acyclic(assets)
<1> DEFINE n == Len(assets)
           A == SUBSET ToSet(assets)
           step == [p \in A \X (1..n) |-> Bound(assets, p[1])]
           Defines(f) == f = [i \in 0..n |-> IF i = 0 THEN ToSet(assets) ELSE Bound(assets, f[i - 1])]
<1>1. n \in Nat
  BY SeqFacts
<1>2. \A L \in A : Bound(assets, L) \in A
  BY DEF Bound
<1>3. /\ Steps(step, A, n)
      /\ \A L \in A, i \in 1..n : step[<<L, i>>] = Bound(assets, L)
  <2> HIDE DEF A
  <2> QED
    BY <1>2 DEF Steps
<1> HIDE DEF step, n
<1>4. PICK g : RunOf(g, step, A, n, ToSet(assets))
  <2>1. ToSet(assets) \in A
    OBVIOUS
  <2> HIDE DEF A
  <2> QED
    BY <1>1, <1>3, <2>1, Recursion
<1>5. Defines(g)
  <2>1. g \in [0..n -> A] /\ g[0] = ToSet(assets) /\ \A i \in 1..n : g[i] = step[<<g[i - 1], i>>]
    BY <1>4 DEF RunOf
  <2> HIDE DEF A
  <2>2. ASSUME NEW i \in 0..n PROVE g[i] = IF i = 0 THEN ToSet(assets) ELSE Bound(assets, g[i - 1])
    <3>1. CASE i = 0
      BY <2>1, <3>1
    <3>2. CASE i # 0
      <4>1. i \in 1..n /\ i - 1 \in 0..n
        BY <1>1, <3>2
      <4>2. g[i - 1] \in A
        BY <2>1, <4>1
      <4> QED
        BY <1>3, <2>1, <3>2, <4>1, <4>2
    <3> QED
      BY <3>1, <3>2
  <2>3. g = [i \in 0..n |-> g[i]]
    BY <2>1
  <2> QED
    BY <2>2, <2>3
<1> DEFINE h == CHOOSE f : Defines(f)
<1>6. Defines(h)
  <2> HIDE DEF Defines
  <2> QED
    BY <1>5
<1>7. Acyclic(assets) <=> h[n] = {}
  BY DEF Acyclic, Bound, n
<1> HIDE DEF h
<1>8. \A i \in 0..n : h[i] = IF i = 0 THEN ToSet(assets) ELSE Bound(assets, h[i - 1])
  BY <1>6, Zenon
<1> DEFINE Late(i) == \A a \in h[i] : \E j \in 1..n : j > i /\ assets[j] = a
           Bad == {i \in Nat : i <= n /\ ~Late(i)}
<1>9. Bad = {}
  <2> SUFFICES ASSUME Bad # {} PROVE FALSE
    OBVIOUS
  <2>1. PICK i \in Bad : \A k \in Bad : i <= k
    <3>1. Bad \in SUBSET Nat
      OBVIOUS
    <3> HIDE DEF Bad
    <3> QED
      BY <3>1, Least
  <2>2. i \in Nat /\ i <= n /\ ~Late(i)
    BY <2>1
  <2>3. i # 0
    <3>1. h[0] = ToSet(assets)
      BY <1>1, <1>8
    <3>2. Late(0)
      BY <1>1, <3>1, SeqFacts DEF n
    <3> HIDE DEF Late
    <3> QED
      BY <2>2, <3>2
  <2>4. i - 1 \in Nat /\ i - 1 <= n /\ Late(i - 1)
    <3>1. i - 1 \in Nat /\ i - 1 <= n
      BY <1>1, <2>2, <2>3
    <3>2. i - 1 \notin Bad
      <4> HIDE DEF Bad
      <4> QED
        BY <2>1, <2>2, <3>1
    <3> HIDE DEF Late
    <3> QED
      BY <3>1, <3>2
  <2>5. h[i] = Bound(assets, h[i - 1])
    <3>1. i \in 0..n
      BY <1>1, <2>2
    <3> QED
      BY <1>8, <2>3, <3>1
  <2>6. ASSUME NEW a \in h[i] PROVE \E j \in 1..n : j > i /\ assets[j] = a
    <3>1. PICK b \in h[i - 1] : b.id \in ToSet(a.deps)
      BY <2>5 DEF Bound
    <3>2. a \in h[i - 1]
      BY <2>5 DEF Bound
    <3>3. PICK j \in 1..n : j > i - 1 /\ assets[j] = a
      BY <2>4, <3>2
    <3>4. PICK l \in 1..n : l > i - 1 /\ assets[l] = b
      BY <2>4
    <3>5. l < j
      BY <3>1, <3>3, <3>4 DEF n
    <3>6. j > i
      BY <2>2, <3>3, <3>4, <3>5
    <3> QED
      BY <3>3, <3>6
  <2> QED
    BY <2>2, <2>6
<1>10. Late(n)
  <2>1. n \notin Bad
    BY <1>9
  <2> HIDE DEF Late
  <2> QED
    BY <1>1, <2>1
<1>11. h[n] = {}
  BY <1>1, <1>10
<1> QED
  BY <1>7, <1>11

-----------------------------------------------------------------------------
(* How assembly and revision lay out a package. *)

\* Images, each named unlike a shot or the narration.
GoodImages(imgs) ==
  /\ IsSeq(imgs) /\ DistinctIds(imgs)
  /\ \A a \in ToSet(imgs) :
       IsAsset(a) /\ a.type = "image" /\ a.refs = <<>> /\ a.deps = <<>> /\ a.id[1] \notin NodeNames

\* A video for each shot, of some of the images, perhaps continued from the one before.
GoodVideos(vids, images) ==
  /\ IsSeq(vids)
  /\ \A i \in 1..Len(vids) :
       /\ IsAsset(vids[i]) /\ vids[i].id = ShotNode(i) /\ vids[i].type = "video"
       /\ vids[i].refs # <<>> /\ ToSet(vids[i].refs) \subseteq images
       /\ \A d \in ToSet(vids[i].deps) : d \in images \/ (i > 1 /\ d = ShotNode(i - 1))

\* One narration, in a voice that has a name.
GoodNarrator(narr) ==
  /\ IsAsset(narr) /\ narr.id = Narration /\ narr.type = "voiceover"
  /\ narr.refs = <<>> /\ narr.deps = <<>> /\ narr.voice # "none"

\* A package laid out so has sound nodes, and passes the validator's gates on them.
LEMMA LaidOut ==
  ASSUME NEW pkg, NEW imgs, GoodImages(imgs), NEW vids, GoodVideos(vids, Ids(imgs)),
         NEW narr, GoodNarrator(narr), pkg.assets = imgs \o vids \o <<narr>>
  PROVE  /\ IsSeq(pkg.assets) /\ \A a \in ToSet(pkg.assets) : IsAsset(a)
         /\ DistinctIds(pkg.assets)
         /\ \A a \in ToSet(pkg.assets) :
              a.type = "image" => a.refs = <<>> /\ a.deps = <<>> /\ a.id[1] \notin NodeNames
         /\ OfType(pkg, "image") = imgs /\ OfType(pkg, "video") = vids /\ Voiceovers(pkg) = <<narr>>
         /\ EdgesResolve(pkg.assets) /\ Acyclic(pkg.assets)
<1> DEFINE m == Len(imgs)
           n == Len(vids)
           front == imgs \o vids
           last == <<narr>>
           assets == front \o last
<1>1. pkg.assets = assets
  OBVIOUS
<1>2. /\ IsSeq(imgs) /\ DistinctIds(imgs) /\ IsSeq(vids)
      /\ IsSeq(last) /\ Len(last) = 1 /\ last[1] = narr /\ ToSet(last) = {narr}
      /\ Ids(last) = {narr.id} /\ DistinctIds(last)
  BY Single, SingleIds DEF GoodImages, GoodVideos
<1>3. m \in Nat /\ n \in Nat
  BY <1>2, SeqFacts
<1> HIDE DEF last
<1>4. /\ IsSeq(front) /\ Len(front) = m + n /\ ToSet(front) = ToSet(imgs) \cup ToSet(vids)
      /\ \A i \in 1..m : front[i] = imgs[i]
      /\ \A i \in 1..n : front[m + i] = vids[i]
      /\ Ids(front) = Ids(imgs) \cup Ids(vids)
      /\ DistinctIds(front) <=> DistinctIds(imgs) /\ DistinctIds(vids) /\ Ids(imgs) \cap Ids(vids) = {}
  <2>1. /\ IsSeq(front) /\ Len(front) = m + n /\ ToSet(front) = ToSet(imgs) \cup ToSet(vids)
        /\ \A i \in 1..m : front[i] = imgs[i]
        /\ \A i \in 1..n : front[m + i] = vids[i]
    BY <1>2, Concat
  <2>2. /\ Ids(front) = Ids(imgs) \cup Ids(vids)
        /\ DistinctIds(front) <=> DistinctIds(imgs) /\ DistinctIds(vids) /\ Ids(imgs) \cap Ids(vids) = {}
    BY <1>2, ConcatIds
  <2> QED
    BY <2>1, <2>2
<1> HIDE DEF front
<1>5. /\ IsSeq(assets) /\ Len(assets) = Len(front) + 1 /\ ToSet(assets) = ToSet(front) \cup {narr}
      /\ \A i \in 1..Len(front) : assets[i] = front[i]
      /\ assets[Len(front) + 1] = narr
      /\ Ids(assets) = Ids(front) \cup {narr.id}
      /\ DistinctIds(assets) <=> DistinctIds(front) /\ Ids(front) \cap {narr.id} = {}
  <2>1. /\ IsSeq(assets) /\ Len(assets) = Len(front) + Len(last) /\ ToSet(assets) = ToSet(front) \cup ToSet(last)
        /\ \A i \in 1..Len(front) : assets[i] = front[i]
        /\ \A i \in 1..Len(last) : assets[Len(front) + i] = last[i]
    <3>1. IsSeq(front) /\ IsSeq(last)
      BY <1>2, <1>4
    <3> QED
      BY <3>1, Concat
  <2>2. /\ Ids(assets) = Ids(front) \cup Ids(last)
        /\ DistinctIds(assets) <=> DistinctIds(front) /\ DistinctIds(last) /\ Ids(front) \cap Ids(last) = {}
    BY <1>2, <1>4, ConcatIds
  <2> HIDE DEF assets
  <2> QED
    BY <1>2, <2>1, <2>2
<1> DEFINE images == Ids(imgs)
<1>6. /\ Ids(imgs) = {a.id : a \in ToSet(imgs)}
      /\ Ids(vids) = {vids[i].id : i \in 1..n}
      /\ \A i \in 1..m : imgs[i] \in ToSet(imgs)
      /\ \A a \in ToSet(vids) : \E i \in 1..n : vids[i] = a
  BY <1>2, IdsIs, SeqFacts
<1>7. /\ \A a \in ToSet(imgs) : IsAsset(a) /\ a.type = "image" /\ a.refs = <<>> /\ a.deps = <<>>
                                /\ a.id[1] # "shot" /\ a.id[1] # "narration" /\ a.id[1] \notin NodeNames
      /\ \A id \in images : id[1] # "shot" /\ id[1] # "narration"
  <2>1. \A a \in ToSet(imgs) : IsAsset(a) /\ a.type = "image" /\ a.refs = <<>> /\ a.deps = <<>>
                               /\ a.id[1] \notin NodeNames
    BY DEF GoodImages
  <2>2. \A a \in ToSet(imgs) : a.id[1] # "shot" /\ a.id[1] # "narration"
    BY <2>1 DEF NodeNames
  <2> QED
    BY <1>6, <2>1, <2>2
<1>8. /\ \A i \in 1..n : /\ IsAsset(vids[i]) /\ vids[i].id = ShotNode(i) /\ vids[i].type = "video"
                         /\ \A d \in ToSet(vids[i].deps) : d \in images \/ (i > 1 /\ d = ShotNode(i - 1))
  BY DEF GoodVideos
<1>9. IsAsset(narr) /\ narr.id = Narration /\ narr.type = "voiceover" /\ narr.refs = <<>> /\ narr.deps = <<>>
  BY DEF GoodNarrator
<1>10. /\ \A i \in Int : ShotNode(i)[1] = "shot" /\ ShotNode(i)[2] = i
       /\ Narration[1] = "narration"
  BY DEF ShotNode, Narration
<1>11. /\ \A i, j \in 1..n : ShotNode(i) = ShotNode(j) => i = j
       /\ \A i \in 1..n : ShotNode(i) # Narration /\ ShotNode(i) \notin images
       /\ Narration \notin images
  BY <1>7, <1>10
<1> HIDE DEF assets, images
<1>12. DistinctIds(assets)
  <2>1. DistinctIds(vids)
    BY <1>2, <1>8, <1>11, DistinctIdsIs
  <2>2. Ids(imgs) \cap Ids(vids) = {}
    BY <1>6, <1>8, <1>11 DEF images
  <2>3. Narration \notin Ids(front)
    BY <1>4, <1>6, <1>8, <1>11 DEF images
  <2> QED
    BY <1>2, <1>4, <1>5, <1>9, <2>1, <2>2, <2>3
<1>13. \A a \in ToSet(assets) : IsAsset(a)
  <2>1. \A a \in ToSet(assets) : a \in ToSet(imgs) \/ a = narr \/ \E i \in 1..n : a = vids[i]
    BY <1>4, <1>5, <1>6
  <2>2. (\A a \in ToSet(imgs) : IsAsset(a)) /\ (\A i \in 1..n : IsAsset(vids[i])) /\ IsAsset(narr)
    BY <1>7, <1>8, <1>9
  <2> QED
    BY <2>1, <2>2, Zenon
<1>14. \A a \in ToSet(assets) : a.type = "image" => a.refs = <<>> /\ a.deps = <<>> /\ a.id[1] \notin NodeNames
  BY <1>4, <1>5, <1>6, <1>7, <1>8, <1>9
<1>15. /\ OfType(pkg, "image") = imgs /\ OfType(pkg, "video") = vids /\ Voiceovers(pkg) = <<narr>>
  <2>1. \A type : OfType(pkg, type) = Select(assets, type)
    BY <1>1 DEF OfType, Select
  <2>2. \A type : Select(assets, type) = Select(front, type) \o Select(last, type)
    <3> SUFFICES ASSUME NEW type PROVE Select(assets, type) = Select(front, type) \o Select(last, type)
      OBVIOUS
    <3>1. IsSeq(front) /\ IsSeq(last)
      BY <1>2, <1>4
    <3> QED
      BY <3>1, SelectConcat DEF assets
  <2>3. \A type : Select(front, type) = Select(imgs, type) \o Select(vids, type)
    BY <1>2, SelectConcat DEF front
  <2>4. \A type : Select(imgs, type) = IF "image" = type THEN imgs ELSE <<>>
    <3> SUFFICES ASSUME NEW type PROVE Select(imgs, type) = IF "image" = type THEN imgs ELSE <<>>
      OBVIOUS
    <3>1. \A a \in ToSet(imgs) : a.type = "image"
      BY <1>7
    <3> QED
      BY <1>2, <3>1, SelectAll
  <2>5. \A type : Select(vids, type) = IF "video" = type THEN vids ELSE <<>>
    <3> SUFFICES ASSUME NEW type PROVE Select(vids, type) = IF "video" = type THEN vids ELSE <<>>
      OBVIOUS
    <3>1. \A a \in ToSet(vids) : a.type = "video"
      BY <1>6, <1>8
    <3> QED
      BY <1>2, <3>1, SelectAll
  <2>6. \A type : Select(last, type) = IF "voiceover" = type THEN last ELSE <<>>
    <3> SUFFICES ASSUME NEW type PROVE Select(last, type) = IF "voiceover" = type THEN last ELSE <<>>
      OBVIOUS
    <3>1. \A a \in ToSet(last) : a.type = "voiceover"
      BY <1>2, <1>9
    <3> QED
      BY <1>2, <3>1, SelectAll
  <2>7. /\ <<>> \o imgs = imgs /\ imgs \o <<>> = imgs /\ <<>> \o vids = vids /\ vids \o <<>> = vids
        /\ <<>> \o last = last /\ <<>> \o <<>> = <<>>
    BY <1>2, ConcatEmpty, EmptyIsSeq
  <2>8. OfType(pkg, "image") = imgs
    <3>1. OfType(pkg, "image") = (Select(imgs, "image") \o Select(vids, "image")) \o Select(last, "image")
      BY <2>1, <2>2, <2>3
    <3>2. Select(imgs, "image") = imgs /\ Select(vids, "image") = <<>> /\ Select(last, "image") = <<>>
      BY <2>4, <2>5, <2>6
    <3> QED
      BY <2>7, <3>1, <3>2
  <2>9. OfType(pkg, "video") = vids
    <3>1. OfType(pkg, "video") = (Select(imgs, "video") \o Select(vids, "video")) \o Select(last, "video")
      BY <2>1, <2>2, <2>3
    <3>2. Select(imgs, "video") = <<>> /\ Select(vids, "video") = vids /\ Select(last, "video") = <<>>
      BY <2>4, <2>5, <2>6
    <3> QED
      BY <2>7, <3>1, <3>2
  <2>10. OfType(pkg, "voiceover") = last
    <3>1. OfType(pkg, "voiceover") = (Select(imgs, "voiceover") \o Select(vids, "voiceover")) \o Select(last, "voiceover")
      BY <2>1, <2>2, <2>3
    <3>2. Select(imgs, "voiceover") = <<>> /\ Select(vids, "voiceover") = <<>> /\ Select(last, "voiceover") = last
      BY <2>4, <2>5, <2>6
    <3> QED
      BY <2>7, <3>1, <3>2
  <2> QED
    BY <2>8, <2>9, <2>10 DEF Voiceovers, last
<1>16. ASSUME NEW i \in 1..Len(assets)
       PROVE  \/ i \in 1..m /\ assets[i] = imgs[i]
              \/ \E k \in 1..n : i = m + k /\ assets[i] = vids[k]
              \/ i = m + n + 1 /\ assets[i] = narr
  <2>1. CASE i \in 1..m
    <3>1. i \in 1..Len(front)
      BY <1>3, <1>4, <2>1
    <3> QED
      BY <1>4, <1>5, <2>1, <3>1
  <2>2. CASE i > m /\ i <= m + n
    <3>1. i - m \in 1..n /\ i \in 1..Len(front) /\ m + (i - m) = i
      BY <1>3, <1>4, <2>2
    <3>2. assets[i] = vids[i - m]
      BY <1>4, <1>5, <3>1
    <3> QED
      BY <3>1, <3>2
  <2>3. CASE i > m + n
    <3>1. i = Len(front) + 1 /\ i = m + n + 1
      BY <1>3, <1>4, <1>5, <2>3
    <3> QED
      BY <1>5, <3>1
  <2> QED
    BY <1>3, <2>1, <2>2, <2>3
<1>17. Acyclic(assets)
  <2>1. ASSUME NEW i \in 1..Len(assets), NEW j \in 1..Len(assets), assets[j].id \in ToSet(assets[i].deps)
        PROVE  j < i
    <3>1. ToSet(<<>>) = {}
      BY EmptyIsSeq
    <3>2. PICK k \in 1..n : i = m + k /\ assets[i] = vids[k]
      BY <1>6, <1>7, <1>9, <1>16, <2>1, <3>1
    <3>3. assets[j].id \in images \/ (k > 1 /\ assets[j].id = ShotNode(k - 1))
      BY <1>8, <2>1, <3>2
    <3>4. CASE j \in 1..m
      BY <1>3, <3>2, <3>4
    <3>5. ASSUME NEW l \in 1..n, j = m + l, assets[j] = vids[l] PROVE j < i
      <4>1. assets[j].id = ShotNode(l)
        BY <1>8, <3>5
      <4>2. k > 1 /\ ShotNode(l) = ShotNode(k - 1)
        BY <1>11, <3>3, <4>1
      <4>3. k - 1 \in 1..n
        BY <1>3, <4>2
      <4>4. l = k - 1
        BY <1>11, <4>2, <4>3
      <4> QED
        BY <1>3, <3>2, <3>5, <4>4
    <3>6. CASE assets[j] = narr
      <4>1. assets[j].id = Narration
        BY <1>9, <3>6
      <4>2. k > 1 /\ Narration = ShotNode(k - 1)
        BY <1>11, <3>3, <4>1
      <4>3. k - 1 \in 1..n
        BY <1>3, <4>2
      <4> QED
        BY <1>11, <4>2, <4>3
    <3> QED
      BY <1>16, <3>4, <3>5, <3>6
  <2> QED
    BY <1>5, <2>1, OrderedIsAcyclic
<1>18. EdgesResolve(assets)
  <2> SUFFICES ASSUME NEW a \in ToSet(assets), NEW d \in ToSet(a.deps) PROVE d \in Ids(assets)
    BY DEF EdgesResolve
  <2>1. ToSet(<<>>) = {}
    BY EmptyIsSeq
  <2>2. a \in ToSet(vids)
    BY <1>4, <1>5, <1>7, <1>9, <2>1
  <2>3. PICK i \in 1..n : vids[i] = a
    BY <1>6, <2>2
  <2>4. d \in images \/ (i > 1 /\ d = ShotNode(i - 1))
    BY <1>8, <2>3
  <2>5. CASE d \in images
    BY <1>4, <1>5, <2>5 DEF images
  <2>6. CASE i > 1 /\ d = ShotNode(i - 1)
    <3>1. i - 1 \in 1..n
      BY <1>3, <2>6
    <3>2. d \in Ids(vids)
      BY <1>6, <1>8, <2>6, <3>1
    <3> QED
      BY <1>4, <1>5, <3>2
  <2> QED
    BY <2>4, <2>5, <2>6
<1> QED
  BY <1>1, <1>5, <1>12, <1>13, <1>14, <1>15, <1>17, <1>18

-----------------------------------------------------------------------------
(* Assembly. *)

\* The fields of a node.
LEMMA NodeIs ==
  ASSUME NEW id, NEW type, NEW look, NEW content
  PROVE  /\ Node(id, type, look, content).id = id /\ Node(id, type, look, content).type = type
         /\ Node(id, type, look, content).refs = <<>> /\ Node(id, type, look, content).deps = <<>>
         /\ Node(id, type, look, content).length = 0 /\ Node(id, type, look, content).voice = "none"
         /\ {"id", "type", "look", "content", "take", "refs", "deps", "length", "voice"}
              \subseteq DOMAIN Node(id, type, look, content)
         /\ IsAsset(Node(id, type, look, content))
<1> DEFINE n == Node(id, type, look, content)
<1>1. /\ n.id = id /\ n.type = type /\ n.refs = <<>> /\ n.deps = <<>> /\ n.length = 0 /\ n.voice = "none"
      /\ {"id", "type", "look", "content", "take", "refs", "deps", "length", "voice"} \subseteq DOMAIN n
  BY DEF Node
<1> HIDE DEF n
<1>2. IsAsset(n)
  BY <1>1, EmptyIsSeq DEF IsAsset
<1> QED
  BY <1>1, <1>2 DEF n

\* The images of a world's entities: one of each.
LEMMA RefNodesAre ==
  ASSUME NEW world, GoodWorld(world), NEW style
  PROVE  GoodImages(RefNodes(world, style)) /\ Ids(RefNodes(world, style)) = RefsOf(world)
<1> DEFINE es == Entities(world)
           first(i) == \A j \in 1..i - 1 : RefOf(es[j]) # RefOf(es[i])
           node(e) == Node(RefOf(e), "image", "flux", <<"reference", style, e.desc>>)
           b == [i \in DOMAIN es |-> IF first(i) THEN <<node(es[i])>> ELSE <<>>]
           n == Len(es)
           imgs == FlattenSeq(b)
<1>1. RefNodes(world, style) = imgs
  BY DEF RefNodes
<1>2. IsSeq(es) /\ DistinctIds(es)
  BY EntitiesIs
<1>3. RefsOf(world) = {RefOf(e) : e \in ToSet(es)}
  BY DEF RefsOf
<1> HIDE DEF es
<1>4. n \in Nat /\ DOMAIN es = 1..n /\ (\A i \in 1..n : es[i] \in ToSet(es)) /\ \A e \in ToSet(es) : \E i \in 1..n : es[i] = e
  BY <1>2, SeqFacts
<1>5. \A i, j \in 1..n : RefOf(es[i]) = RefOf(es[j]) => i = j
  <2>1. \A i, j \in 1..n : es[i].id = es[j].id => i = j
    BY <1>2, DistinctIdsIs
  <2> QED
    BY <2>1 DEF RefOf
<1>6. ASSUME NEW i \in 1..n PROVE b[i] = <<node(es[i])>>
  <2>1. first(i)
    BY <1>4, <1>5
  <2> HIDE DEF first, node
  <2> QED
    BY <1>4, <2>1
<1>7. b = [i \in 1..n |-> b[i]]
  BY <1>4
<1> HIDE DEF b
<1>8. ASSUME NEW i \in 1..n
      PROVE  /\ IsSeq(b[i]) /\ ToSet(b[i]) = {node(es[i])} /\ Ids(b[i]) = {RefOf(es[i])} /\ DistinctIds(b[i])
             /\ node(es[i]).id = RefOf(es[i])
  <2> DEFINE x == node(es[i])
  <2>1. x.id = RefOf(es[i])
    BY NodeIs
  <2>2. b[i] = <<x>>
    BY <1>6
  <2> HIDE DEF x
  <2>3. IsSeq(<<x>>) /\ ToSet(<<x>>) = {x} /\ Ids(<<x>>) = {x.id} /\ DistinctIds(<<x>>)
    BY Single, SingleIds
  <2> QED
    BY <2>1, <2>2, <2>3 DEF x
<1>9. IsBlocks(b) /\ Len(b) = n
  <2>1. IsSeq(b) /\ Len(b) = n
    BY <1>4, <1>7, SeqMade
  <2> HIDE DEF n, node
  <2> QED
    BY <1>8, <2>1 DEF IsBlocks
<1>10. \A i, j \in 1..Len(b) : i # j => Ids(b[i]) \cap Ids(b[j]) = {}
  BY <1>5, <1>8, <1>9
<1>11. DistinctIds(imgs)
  <2>1. \A i \in 1..Len(b) : DistinctIds(b[i])
    BY <1>8, <1>9
  <2> QED
    BY <1>9, <1>10, <2>1, FlattenDistinct
<1>12. /\ IsSeq(imgs) /\ \A x \in ToSet(imgs) : \E i \in 1..n : x \in ToSet(b[i])
       /\ \A i \in 1..n : ToSet(b[i]) \subseteq ToSet(imgs)
  BY <1>9, FlattenedSet
<1> HIDE DEF imgs
<1>13. \A x \in ToSet(imgs) : \E i \in 1..n : x = node(es[i])
  BY <1>8, <1>12
<1>14. \A i \in 1..n : node(es[i]) \in ToSet(imgs)
  BY <1>8, <1>12
<1>15. Ids(imgs) = RefsOf(world)
  <2>1. Ids(imgs) = {x.id : x \in ToSet(imgs)}
    BY <1>12, IdsIs
  <2> HIDE DEF node
  <2>2. ASSUME NEW id \in Ids(imgs) PROVE id \in RefsOf(world)
    <3>1. PICK x \in ToSet(imgs) : x.id = id
      BY <2>1
    <3>2. PICK i \in 1..n : x = node(es[i])
      BY <1>13
    <3> QED
      BY <1>3, <1>4, <1>8, <3>1, <3>2
  <2>3. ASSUME NEW id \in RefsOf(world) PROVE id \in Ids(imgs)
    <3>1. PICK e \in ToSet(es) : RefOf(e) = id
      BY <1>3
    <3>2. PICK i \in 1..n : es[i] = e
      BY <1>4
    <3> QED
      BY <1>8, <1>14, <2>1, <3>1, <3>2
  <2> QED
    BY <2>2, <2>3
<1>16. ASSUME NEW a \in ToSet(imgs)
       PROVE  IsAsset(a) /\ a.type = "image" /\ a.refs = <<>> /\ a.deps = <<>> /\ a.id[1] \notin NodeNames
  <2>1. PICK i \in 1..n : a = node(es[i])
    BY <1>13
  <2> DEFINE e == es[i]
             content == <<"reference", style, e.desc>>
  <2>2. a = Node(RefOf(e), "image", "flux", content)
    BY <2>1
  <2> HIDE DEF e, content
  <2>3. /\ a.id = RefOf(e) /\ a.type = "image" /\ a.refs = <<>> /\ a.deps = <<>> /\ IsAsset(a)
    BY <2>2, NodeIs
  <2>4. RefOf(e)[1] = "ref"
    BY DEF RefOf
  <2>5. "ref" \notin NodeNames
    BY DEF NodeNames
  <2> QED
    BY <2>3, <2>4, <2>5
<1>17. GoodImages(imgs)
  BY <1>11, <1>12, <1>16 DEF GoodImages
<1> QED
  BY <1>1, <1>15, <1>17

\* A shot refers to images of its world, and to at least one.
LEMMA ResolveRefsIs ==
  ASSUME NEW shot, IsSeq(shot.subjects), NEW world, GoodWorld(world)
  PROVE  /\ IsSeq(ResolveRefs(shot, world)) /\ ResolveRefs(shot, world) # <<>>
         /\ ToSet(ResolveRefs(shot, world)) \subseteq RefsOf(world)
<1> DEFINE es == Entities(world)
           names == <<shot.location>> \o shot.subjects
           known == Among(names, Ids(es))
           images == [k \in DOMAIN known |-> RefOf(ById(es, known[k]))]
           refs == Distinct(images)
<1>1. ResolveRefs(shot, world) = IF refs = <<>> /\ es # <<>> THEN <<RefOf(es[1])>> ELSE refs
  BY DEF ResolveRefs
<1>2. IsSeq(es) /\ es # <<>> /\ RefsOf(world) = {RefOf(e) : e \in ToSet(es)}
  BY EntitiesIs DEF RefsOf
<1> HIDE DEF es
<1>3. IsSeq(names)
  <2>1. IsSeq(<<shot.location>>)
    BY Single
  <2> QED
    BY <2>1, Concat
<1> HIDE DEF names
<1>4. IsSeq(known) /\ ToSet(known) \subseteq Ids(es)
  BY <1>3, AmongIs
<1> HIDE DEF known
<1>5. Len(known) \in Nat /\ DOMAIN known = 1..Len(known) /\ \A k \in 1..Len(known) : known[k] \in Ids(es)
  BY <1>4, SeqFacts
<1>6. images = [k \in 1..Len(known) |-> images[k]] /\ \A k \in 1..Len(known) : images[k] = RefOf(ById(es, known[k]))
  BY <1>5
<1> HIDE DEF images
<1>7. IsSeq(images) /\ Len(images) = Len(known)
  BY <1>5, <1>6, SeqMade
<1>8. \A k \in 1..Len(known) : images[k] \in RefsOf(world)
  <2> SUFFICES ASSUME NEW k \in 1..Len(known) PROVE images[k] \in RefsOf(world)
    OBVIOUS
  <2>1. known[k] \in Ids(es)
    BY <1>5
  <2>2. ById(es, known[k]) \in ToSet(es)
    BY <1>2, <2>1, ByIdIs
  <2> QED
    BY <1>2, <1>6, <2>2
<1>9. ToSet(images) \subseteq RefsOf(world)
  BY <1>7, <1>8, SeqFacts
<1>10. IsSeq(refs) /\ ToSet(refs) \subseteq RefsOf(world)
  BY <1>7, <1>9, DistinctFacts
<1> HIDE DEF refs
<1>11. CASE refs # <<>>
  BY <1>1, <1>10, <1>11
<1>12. CASE refs = <<>>
  <2> DEFINE x == RefOf(es[1])
  <2>1. ResolveRefs(shot, world) = <<x>>
    BY <1>1, <1>2, <1>12
  <2>2. x \in RefsOf(world)
    <3>1. Len(es) # 0
      <4> SUFFICES ASSUME Len(es) = 0 PROVE FALSE
        OBVIOUS
      <4>1. \A i \in 1..Len(es) : es[i] = <<>>[i]
        OBVIOUS
      <4> QED
        BY <1>2, <4>1, EmptyIsSeq, SeqSame
    <3>2. 1 \in 1..Len(es) /\ es[1] \in ToSet(es)
      BY <1>2, <3>1, SeqFacts
    <3> QED
      BY <1>2, <3>2
  <2> HIDE DEF x
  <2>3. IsSeq(<<x>>) /\ ToSet(<<x>>) = {x} /\ <<x>> # <<>>
    BY Single
  <2> QED
    BY <2>1, <2>2, <2>3
<1> QED
  BY <1>11, <1>12

\* A video made for the shot at a place, from the images of a world.
ShotVideo(v, i, length, images) ==
  /\ IsAsset(v) /\ v.id = ShotNode(i) /\ v.type = "video" /\ v.length = length
  /\ v.refs # <<>> /\ ToSet(v.refs) \subseteq images
  /\ \A d \in ToSet(v.deps) : d \in images \/ (i > 1 /\ d = ShotNode(i - 1))

\* The node of a shot.
LEMMA VideoNodeIs ==
  ASSUME NEW shots, NEW i \in Nat, i >= 1, IsSeq(shots[i].subjects), NEW world, GoodWorld(world),
         NEW length \in Int, NEW prompt
  PROVE  ShotVideo(VideoNode(shots, i, world, length, prompt), i, length, RefsOf(world))
<1> DEFINE refs == ResolveRefs(shots[i], world)
           before == ShotNode(i - 1)
           deps == IF Continues(shots, i) THEN Append(refs, before) ELSE refs
           content == Normalized(prompt)
           node == Node(ShotNode(i), "video", "pixverse", content)
           v == VideoNode(shots, i, world, length, prompt)
<1>1. v = [node EXCEPT !.refs = refs, !.deps = deps, !.length = length]
  BY DEF VideoNode
<1>2. /\ node.id = ShotNode(i) /\ node.type = "video"
      /\ {"id", "type", "look", "content", "take", "refs", "deps", "length", "voice"} \subseteq DOMAIN node
  BY NodeIs
<1>3. IsSeq(refs) /\ refs # <<>> /\ ToSet(refs) \subseteq RefsOf(world)
  BY ResolveRefsIs
<1> HIDE DEF refs, before, node
<1>4. IsSeq(deps) /\ \A d \in ToSet(deps) : d \in ToSet(refs) \/ (i > 1 /\ d = before)
  <2>1. CASE Continues(shots, i)
    <3>1. i > 1
      BY <2>1 DEF Continues
    <3>2. IsSeq(Append(refs, before)) /\ ToSet(Append(refs, before)) = ToSet(refs) \cup {before}
      BY <1>3, Appended
    <3> QED
      BY <2>1, <3>1, <3>2
  <2>2. CASE ~Continues(shots, i)
    BY <1>3, <2>2
  <2> QED
    BY <2>1, <2>2
<1> HIDE DEF deps, v
<1>5. /\ v.refs = refs /\ v.deps = deps /\ v.length = length /\ v.id = node.id /\ v.type = node.type
      /\ DOMAIN v = DOMAIN node
  BY <1>1, <1>2
<1>6. IsAsset(v)
  BY <1>2, <1>3, <1>4, <1>5 DEF IsAsset
<1>7. ShotVideo(v, i, length, RefsOf(world))
  BY <1>2, <1>3, <1>4, <1>5, <1>6 DEF before, ShotVideo
<1> QED
  BY <1>7 DEF v

\* Lengths scaled to a target are integers.
THEOREM NormalizedAre ==
  ASSUME NEW raw, IsSeq(raw), \A i \in 1..Len(raw) : raw[i] \in Int, NEW target \in Int
  PROVE  /\ IsSeq(NormalizeDurations(raw, target)) /\ Len(NormalizeDurations(raw, target)) = Len(raw)
         /\ \A i \in 1..Len(raw) : NormalizeDurations(raw, target)[i] \in Int
         /\ LET total == Total(NormalizeDurations(raw, target)) IN
            total \in Int /\ (Len(raw) # 0 => 2 * (total - target) \in -Len(raw)..Len(raw))
<1> DEFINE n == Len(raw)
           vals == [i \in DOMAIN raw |-> IF raw[i] > 0 THEN raw[i] ELSE 300]
           S == Total(vals)
           out == NormalizeDurations(raw, target)
<1>1. n \in Nat /\ DOMAIN raw = 1..n
  BY SeqFacts
<1>2. vals = [i \in 1..n |-> vals[i]] /\ \A i \in 1..n : vals[i] \in Nat /\ vals[i] >= 1
  BY <1>1
<1>3. out = [i \in DOMAIN vals |-> Rounded(vals[i] * target, S)]
  BY DEF NormalizeDurations
<1> HIDE DEF vals, out
<1>4. IsSeq(vals) /\ Len(vals) = n
  BY <1>1, <1>2, SeqMade
<1>5. DOMAIN vals = 1..n
  BY <1>4, SeqFacts
<1>6. S \in Nat /\ \A i \in 1..n : vals[i] <= S
  BY <1>2, <1>4, TotalOfNat
<1>7. n # 0 => S > 0
  <2> SUFFICES ASSUME n # 0 PROVE S > 0
    OBVIOUS
  <2>1. 1 \in 1..n
    BY <1>1
  <2>2. vals[1] >= 1 /\ vals[1] <= S /\ vals[1] \in Nat
    BY <1>2, <1>6, <2>1
  <2> HIDE DEF S
  <2> QED
    BY <1>6, <2>2
<1> HIDE DEF S
<1>8. out = [i \in 1..n |-> out[i]] /\ \A i \in 1..n : out[i] = Rounded(vals[i] * target, S)
  BY <1>3, <1>5
<1>9. IsSeq(out) /\ Len(out) = n
  BY <1>1, <1>8, SeqMade
<1>10. ASSUME NEW i \in 1..n
       PROVE  /\ out[i] \in Int /\ vals[i] * target \in Int
              /\ 2 * (S * out[i]) - 2 * (vals[i] * target) <= S
              /\ 2 * (vals[i] * target) - 2 * (S * out[i]) <= S
  <2> DEFINE a == vals[i] * target
  <2>1. S > 0
    BY <1>1, <1>7
  <2>2. a \in Int
    <3> DEFINE x == vals[i]
    <3>1. x \in Int
      BY <1>2
    <3> HIDE DEF x
    <3> QED
      BY <3>1 DEF x
  <2>3. out[i] = Rounded(a, S)
    BY <1>8
  <2> HIDE DEF a
  <2>4. /\ Rounded(a, S) \in Int
        /\ 2 * (S * Rounded(a, S)) - 2 * a <= S
        /\ 2 * a - 2 * (S * Rounded(a, S)) <= S
    BY <1>6, <2>1, <2>2, RoundedIs
  <2> QED
    BY <2>2, <2>3, <2>4 DEF a
<1>11. PICK f : SumsUp(f, out) /\ Total(out) = f[n]
  BY <1>9, <1>10, TotalIs
<1>12. PICK g : SumsUp(g, vals) /\ S = g[n]
  <2>1. \A i \in 1..Len(vals) : vals[i] \in Int
    BY <1>2, <1>4
  <2> QED
    BY <1>4, <2>1, TotalIs DEF S
<1>13. /\ f[0] = 0 /\ (\A i \in 0..n : f[i] \in Int) /\ \A i \in 1..n : f[i] = f[i - 1] + out[i]
       /\ g[0] = 0 /\ (\A i \in 0..n : g[i] \in Int) /\ \A i \in 1..n : g[i] = g[i - 1] + vals[i]
  BY <1>4, <1>9, <1>11, <1>12 DEF SumsUp
<1> DEFINE Near(i) == /\ 2 * (S * f[i]) - 2 * (g[i] * target) <= i * S
                      /\ 2 * (g[i] * target) - 2 * (S * f[i]) <= i * S
           Bad == {i \in Nat : i <= n /\ ~Near(i)}
<1>14. Bad = {}
  <2> SUFFICES ASSUME Bad # {} PROVE FALSE
    OBVIOUS
  <2>1. PICK i \in Bad : \A k \in Bad : i <= k
    <3>1. Bad \in SUBSET Nat
      OBVIOUS
    <3> HIDE DEF Bad
    <3> QED
      BY <3>1, Least
  <2>2. i \in Nat /\ i <= n /\ ~Near(i)
    BY <2>1
  <2>3. i # 0
    <3>1. Near(0)
      <4>1. S * f[0] = 0 /\ g[0] * target = 0 /\ 0 * S = 0
        BY <1>6, <1>13
      <4> QED
        BY <4>1
    <3> HIDE DEF Near
    <3> QED
      BY <2>2, <3>1
  <2>4. i - 1 \in Nat /\ i - 1 <= n /\ i \in 1..n /\ Near(i - 1)
    <3>1. i - 1 \in Nat /\ i - 1 <= n /\ i \in 1..n
      BY <1>1, <2>2, <2>3
    <3>2. i - 1 \notin Bad
      <4> HIDE DEF Bad
      <4> QED
        BY <2>1, <2>2, <3>1
    <3> HIDE DEF Near
    <3> QED
      BY <3>1, <3>2
  <2> DEFINE fi == f[i]
             fj == f[i - 1]
             gi == g[i]
             gj == g[i - 1]
             o == out[i]
             v == vals[i]
             p == S * fj
             q == gj * target
             u == S * o
             w == v * target
             z == (i - 1) * S
  <2>5. fi \in Int /\ fj \in Int /\ gi \in Int /\ gj \in Int /\ o \in Int /\ v \in Int /\ fi = fj + o /\ gi = gj + v
    <3>1. i \in 0..n /\ i - 1 \in 0..n
      BY <1>1, <2>2, <2>4
    <3>2. o \in Int /\ v \in Int
      BY <1>2, <1>10, <2>4
    <3> QED
      BY <1>13, <2>4, <3>1, <3>2
  <2>6. /\ 2 * p - 2 * q <= z /\ 2 * q - 2 * p <= z
        /\ 2 * u - 2 * w <= S /\ 2 * w - 2 * u <= S
    BY <1>10, <2>4
  <2>7. S * fi = p + u /\ gi * target = q + w /\ i * S = z + S
        /\ p \in Int /\ u \in Int /\ q \in Int /\ w \in Int /\ z \in Int
    <3> HIDE DEF fi, fj, gi, gj, o, v
    <3>1. S * fi = p + u /\ p \in Int /\ u \in Int
      BY <1>6, <2>5
    <3>2. gi * target = q + w /\ q \in Int /\ w \in Int
      BY <2>5
    <3>3. i * S = z + S /\ z \in Int
      BY <1>6, <2>2
    <3> QED
      BY <3>1, <3>2, <3>3
  <2>8. Near(i)
    <3> HIDE DEF p, q, u, w, z
    <3>1. /\ 2 * (p + u) - 2 * (q + w) <= z + S
          /\ 2 * (q + w) - 2 * (p + u) <= z + S
      BY <1>6, <2>6, <2>7
    <3>2. S * f[i] = p + u /\ g[i] * target = q + w /\ i * S = z + S
      BY <2>7
    <3> QED
      BY <3>1, <3>2
  <2> HIDE DEF Near
  <2> QED
    BY <2>2, <2>8
<1>15. Near(n)
  <2>1. n \notin Bad
    BY <1>14
  <2> HIDE DEF Near
  <2> QED
    BY <1>1, <2>1
<1>16. f[n] \in Int
  BY <1>1, <1>13
<1>17. ASSUME n # 0 PROVE 2 * (f[n] - target) \in -n..n
  <2> DEFINE t == f[n]
             e == 2 * (t - target)
  <2>1. t \in Int /\ e \in Int /\ S \in Int /\ S > 0
    BY <1>6, <1>7, <1>16, <1>17
  <2>2. 2 * (S * t) - 2 * (S * target) <= n * S /\ 2 * (S * target) - 2 * (S * t) <= n * S
    BY <1>12, <1>15
  <2>3. S * e = 2 * (S * t) - 2 * (S * target)
    <3> HIDE DEF t
    <3> QED
      BY <2>1
  <2>4. S * e <= S * n /\ S * (-e) <= S * n
    <3>1. n * S = S * n /\ S * (-e) = -(S * e)
      <4> HIDE DEF e
      <4> QED
        BY <1>1, <2>1
    <3>2. 2 * (S * target) - 2 * (S * t) = -(S * e)
      <4> DEFINE a == S * t
                 b == S * target
      <4>1. a \in Int /\ b \in Int
        <5> HIDE DEF t
        <5> QED
          BY <2>1
      <4> HIDE DEF a, b, e, t
      <4>2. S * e = 2 * a - 2 * b
        BY <2>3 DEF a, b
      <4> QED
        BY <4>1, <4>2 DEF a, b
    <3> HIDE DEF e, t
    <3> QED
      BY <2>2, <2>3, <3>1, <3>2
  <2> HIDE DEF e
  <2>5. e <= n
    <3> SUFFICES ASSUME ~(e <= n) PROVE FALSE
      OBVIOUS
    <3>1. e - n > 0 /\ e - n \in Int
      BY <1>1, <2>1
    <3>2. S * (e - n) > 0
      BY <2>1, <3>1
    <3>3. S * (e - n) = S * e - S * n
      BY <1>1, <2>1
    <3>4. S * e \in Int /\ S * n \in Int
      BY <1>1, <2>1
    <3> QED
      BY <2>4, <3>2, <3>3, <3>4
  <2>6. -e <= n
    <3> SUFFICES ASSUME ~(-e <= n) PROVE FALSE
      OBVIOUS
    <3>1. (-e) - n > 0 /\ (-e) - n \in Int
      BY <1>1, <2>1
    <3>2. S * ((-e) - n) > 0
      BY <2>1, <3>1
    <3>3. S * ((-e) - n) = S * (-e) - S * n
      BY <1>1, <2>1
    <3>4. S * (-e) \in Int /\ S * n \in Int
      BY <1>1, <2>1
    <3> QED
      BY <2>4, <3>2, <3>3, <3>4
  <2>7. e \in -n..n
    BY <1>1, <2>1, <2>5, <2>6
  <2> QED
    BY <2>7 DEF e
<1>18. /\ IsSeq(out) /\ Len(out) = n /\ \A i \in 1..n : out[i] \in Int
       /\ Total(out) \in Int /\ (n # 0 => 2 * (Total(out) - target) \in -n..n)
  BY <1>9, <1>10, <1>11, <1>16, <1>17
<1> QED
  BY <1>18 DEF out

\* What a package made for some shots of a story has of them.
MadeFor(pkg, story, shots) ==
  /\ {"brief", "world", "assets", "timeline", "scenes", "shots"} \subseteq DOMAIN pkg
  /\ pkg.world = story.world /\ pkg.scenes = story.scenes
  /\ pkg.timeline = [i \in DOMAIN shots |-> ShotNode(i)]
  /\ pkg.shots = [i \in DOMAIN shots |-> [shots[i] EXCEPT !.id = ShotNode(i)]]
  /\ IsBrief(pkg.brief) /\ pkg.brief.length = story.brief.length
  /\ pkg.brief.style # "none" /\ (story.brief.style # "none" => pkg.brief.style = story.brief.style)
  /\ pkg.brief.voice # "none"
  /\ \A narr : Voiceovers(pkg) = <<narr>> /\ story.brief.voice # "none" => narr.voice = story.brief.voice
  /\ Len(OfType(pkg, "video")) = Len(shots)
  /\ \A i \in 1..Len(shots) :
       OfType(pkg, "video")[i].length = NormalizeDurations(Lengths(shots), story.brief.length)[i]

\* The nodes assembly makes for them.
Assembled(pkg, images) ==
  /\ GoodImages(OfType(pkg, "image")) /\ Ids(OfType(pkg, "image")) = images
  /\ GoodVideos(OfType(pkg, "video"), images)
  /\ \E narr : Voiceovers(pkg) = <<narr>> /\ GoodNarrator(narr)

\* The lengths of shots.
LEMMA LengthsAre ==
  ASSUME NEW shots, NEW world, NEW sc, GoodBreakdown(shots, world, sc), NEW target \in Int
  PROVE  /\ IsSeq(Lengths(shots)) /\ Len(Lengths(shots)) = Len(shots)
         /\ \A i \in 1..Len(shots) : Lengths(shots)[i] \in Int
         /\ \A i \in 1..Len(shots) : NormalizeDurations(Lengths(shots), target)[i] \in Int
<1> DEFINE raw == Lengths(shots)
<1>1. IsSeq(shots) /\ \A x \in ToSet(shots) : x.length \in Int
  BY DEF GoodBreakdown, GoodShot
<1>2. DOMAIN shots = 1..Len(shots) /\ Len(shots) \in Nat /\ \A i \in 1..Len(shots) : shots[i] \in ToSet(shots)
  BY <1>1, SeqFacts
<1>3. raw = [i \in 1..Len(shots) |-> raw[i]] /\ \A i \in 1..Len(shots) : raw[i] \in Int
  BY <1>1, <1>2 DEF Lengths
<1> HIDE DEF raw
<1>4. IsSeq(raw) /\ Len(raw) = Len(shots)
  BY <1>2, <1>3, SeqMade
<1>5. \A i \in 1..Len(raw) : raw[i] \in Int
  BY <1>3, <1>4
<1>6. \A i \in 1..Len(raw) : NormalizeDurations(raw, target)[i] \in Int
  BY <1>4, <1>5, NormalizedAre
<1> QED
  BY <1>3, <1>4, <1>6 DEF raw

\* Assembly makes a package of the shape the validator and the reader rely on.
THEOREM AssemblePackageIs ==
  ASSUME NEW story, GoodStory(story), NEW shots, GoodBreakdown(shots, story.world, story.scenes), NEW prompts
  PROVE  LET pkg == AssemblePackage(story, shots, prompts) IN
         MadeFor(pkg, story, shots) /\ Assembled(pkg, RefsOf(story.world))
<1> DEFINE raw == Lengths(shots)
           lengths == NormalizeDurations(raw, story.brief.length)
           style == IF story.brief.style = "none" THEN "default" ELSE story.brief.style
           voice == IF story.brief.voice = "none" THEN "default" ELSE story.brief.voice
           video(i) == VideoNode(shots, i, story.world, lengths[i], prompts[shots[i].id])
           vids == [i \in DOMAIN shots |-> video(i)]
           told == Spoken(story.scenes)
           plain == Node(Narration, "voiceover", "flash", told)
           narr == [plain EXCEPT !.voice = voice]
           brief == [story.brief EXCEPT !.style = style, !.voice = voice]
           imgs == RefNodes(story.world, style)
           line == [i \in DOMAIN shots |-> ShotNode(i)]
           tags == [i \in DOMAIN shots |-> [shots[i] EXCEPT !.id = ShotNode(i)]]
           assets == imgs \o vids \o <<narr>>
           pkg == AssemblePackage(story, shots, prompts)
<1>1. pkg = [brief |-> brief, world |-> story.world, assets |-> assets, timeline |-> line,
             scenes |-> story.scenes, shots |-> tags]
  BY DEF AssemblePackage, Lengths
<1>2. IsBrief(story.brief) /\ GoodWorld(story.world)
  BY DEF GoodStory
<1>3. /\ IsBrief(brief) /\ brief.length = story.brief.length /\ brief.style = style /\ brief.voice = voice
  <2> HIDE DEF style, voice
  <2> DEFINE sb == story.brief
  <2>1. sb = [length |-> sb.length, style |-> sb.style, voice |-> sb.voice] /\ sb.length \in Int
    BY <1>2 DEF IsBrief
  <2>2. brief = [sb EXCEPT !.style = style, !.voice = voice]
    OBVIOUS
  <2> HIDE DEF brief, sb
  <2>3. brief = [length |-> sb.length, style |-> style, voice |-> voice]
    BY <2>1, <2>2
  <2>4. brief.length = sb.length /\ brief.style = style /\ brief.voice = voice
    BY <2>3
  <2>5. IsBrief(brief)
    BY <2>1, <2>3, <2>4 DEF IsBrief
  <2> QED
    BY <2>4, <2>5 DEF sb
<1>4. /\ style # "none" /\ voice # "none" /\ (story.brief.style # "none" => style = story.brief.style)
      /\ story.brief.voice # "none" => voice = story.brief.voice
  OBVIOUS
<1>5. GoodNarrator(narr) /\ narr.voice = voice
  <2>1. /\ plain.id = Narration /\ plain.type = "voiceover" /\ plain.refs = <<>> /\ plain.deps = <<>>
        /\ IsAsset(plain)
        /\ {"id", "type", "look", "content", "take", "refs", "deps", "length", "voice"} \subseteq DOMAIN plain
    BY NodeIs
  <2> HIDE DEF plain, voice
  <2>2. /\ narr.id = plain.id /\ narr.type = plain.type /\ narr.refs = plain.refs /\ narr.deps = plain.deps
        /\ narr.length = plain.length /\ DOMAIN narr = DOMAIN plain /\ narr.voice = voice
    BY <2>1
  <2> HIDE DEF narr
  <2>3. IsAsset(narr)
    BY <2>1, <2>2 DEF IsAsset
  <2> QED
    BY <1>4, <2>1, <2>2, <2>3 DEF GoodNarrator
<1>6. GoodImages(imgs) /\ Ids(imgs) = RefsOf(story.world)
  BY <1>2, RefNodesAre
<1>7. IsSeq(shots) /\ Len(shots) \in Nat /\ DOMAIN shots = 1..Len(shots)
  <2>1. IsSeq(shots)
    BY DEF GoodBreakdown
  <2> QED
    BY <2>1, SeqFacts
<1>8. \A i \in 1..Len(shots) : lengths[i] \in Int
  BY <1>2, LengthsAre DEF IsBrief
<1>9. vids = [i \in 1..Len(shots) |-> vids[i]] /\ \A i \in 1..Len(shots) : vids[i] = video(i)
  BY <1>7
<1> HIDE DEF vids, lengths
<1>10. IsSeq(vids) /\ Len(vids) = Len(shots)
  BY <1>7, <1>9, SeqMade
<1>11. ASSUME NEW i \in 1..Len(shots)
       PROVE  /\ IsAsset(vids[i]) /\ vids[i].id = ShotNode(i) /\ vids[i].type = "video" /\ vids[i].length = lengths[i]
              /\ vids[i].refs # <<>> /\ ToSet(vids[i].refs) \subseteq RefsOf(story.world)
              /\ \A d \in ToSet(vids[i].deps) :
                   d \in RefsOf(story.world) \/ (i > 1 /\ d = ShotNode(i - 1))
  <2> DEFINE l == lengths[i]
             prompt == prompts[shots[i].id]
  <2>1. l \in Int /\ i \in Nat /\ i >= 1
    BY <1>7, <1>8
  <2>2. IsSeq(shots[i].subjects)
    <3>1. shots[i] \in ToSet(shots)
      BY <1>7, SeqFacts
    <3> QED
      BY <3>1 DEF GoodBreakdown, GoodShot
  <2> DEFINE w == story.world
  <2>3. vids[i] = VideoNode(shots, i, w, l, prompt)
    BY <1>9
  <2>4. GoodWorld(w)
    BY <1>2
  <2> HIDE DEF l, prompt, w
  <2>5. ShotVideo(VideoNode(shots, i, w, l, prompt), i, l, RefsOf(w))
    BY <2>1, <2>2, <2>4, VideoNodeIs
  <2>6. ShotVideo(vids[i], i, l, RefsOf(w))
    BY <2>3, <2>5
  <2> QED
    BY <2>6 DEF ShotVideo, l, w
<1>12. GoodVideos(vids, RefsOf(story.world))
  BY <1>10, <1>11 DEF GoodVideos
<1> HIDE DEF brief, style, voice, narr, imgs, line, tags, pkg
<1>13. /\ pkg.brief = brief /\ pkg.world = story.world /\ pkg.assets = imgs \o vids \o <<narr>>
       /\ pkg.timeline = line /\ pkg.scenes = story.scenes /\ pkg.shots = tags
       /\ {"brief", "world", "assets", "timeline", "scenes", "shots"} \subseteq DOMAIN pkg
  BY <1>1
<1>14. OfType(pkg, "image") = imgs /\ OfType(pkg, "video") = vids /\ Voiceovers(pkg) = <<narr>>
  <2>1. GoodVideos(vids, Ids(imgs))
    BY <1>6, <1>12
  <2>2. pkg.assets = imgs \o vids \o <<narr>>
    BY <1>13
  <2> QED
    BY <1>5, <1>6, <2>1, <2>2, LaidOut
<1>15. Assembled(pkg, RefsOf(story.world))
  BY <1>5, <1>6, <1>12, <1>14 DEF Assembled
<1>16. MadeFor(pkg, story, shots)
  <2>1. \A x : Voiceovers(pkg) = <<x>> => x = narr
    BY <1>14
  <2>2. \A x : Voiceovers(pkg) = <<x>> /\ story.brief.voice # "none" => x.voice = story.brief.voice
    BY <1>4, <1>5, <2>1
  <2> QED
    BY <1>3, <1>4, <1>10, <1>11, <1>13, <1>14, <2>2 DEF MadeFor, line, tags, lengths
<1> QED
  BY <1>15, <1>16 DEF pkg

-----------------------------------------------------------------------------
(* What a revision keeps of its parent's nodes. *)

\* A node with another provider is otherwise the same.
LEMMA RelookedIs ==
  ASSUME NEW node, IsAsset(node), NEW look
  PROVE  LET a == [node EXCEPT !.look = look] IN
         /\ IsAsset(a) /\ a.id = node.id /\ a.type = node.type /\ a.refs = node.refs /\ a.deps = node.deps
         /\ a.length = node.length /\ a.voice = node.voice /\ DOMAIN a = DOMAIN node
<1> DEFINE a == [node EXCEPT !.look = look]
<1>1. /\ a.id = node.id /\ a.type = node.type /\ a.refs = node.refs /\ a.deps = node.deps
      /\ a.length = node.length /\ a.voice = node.voice /\ DOMAIN a = DOMAIN node
  BY DEF IsAsset
<1> HIDE DEF a
<1>2. IsAsset(a)
  BY <1>1 DEF IsAsset
<1> QED
  BY <1>1, <1>2 DEF a

\* So is one with the parent's prompt and take.
LEMMA CarriedIs ==
  ASSUME NEW node, IsAsset(node), NEW old
  PROVE  LET a == Carried(node, old) IN
         /\ IsAsset(a) /\ a.id = node.id /\ a.type = node.type /\ a.refs = node.refs /\ a.deps = node.deps
         /\ a.length = node.length /\ a.voice = node.voice /\ DOMAIN a = DOMAIN node
<1> DEFINE a == Carried(node, old)
<1>1. /\ a.id = node.id /\ a.type = node.type /\ a.refs = node.refs /\ a.deps = node.deps
      /\ a.length = node.length /\ a.voice = node.voice /\ DOMAIN a = DOMAIN node
  BY DEF IsAsset, Carried
<1> HIDE DEF a
<1>2. IsAsset(a)
  BY <1>1 DEF IsAsset
<1> QED
  BY <1>1, <1>2 DEF a

\* A node of a type is found under its id.
LEMMA ByIdOfType ==
  ASSUME NEW pkg, GoodPackage(pkg), NEW type, NEW id \in Ids(OfType(pkg, type))
  PROVE  /\ ById(pkg.assets, id) \in ToSet(pkg.assets) /\ IsAsset(ById(pkg.assets, id))
         /\ ById(pkg.assets, id).id = id /\ ById(pkg.assets, id).type = type
<1>1. IsSeq(pkg.assets) /\ DistinctIds(pkg.assets) /\ \A a \in ToSet(pkg.assets) : IsAsset(a)
  BY DEF GoodPackage, IsPackage, SoundPackage
<1> DEFINE s == OfType(pkg, type)
<1>2. IsSeq(s) /\ \A a \in ToSet(s) : a \in ToSet(pkg.assets) /\ a.type = type
  BY <1>1, OfTypeIs
<1> HIDE DEF s
<1>3. Ids(s) = {a.id : a \in ToSet(s)}
  BY <1>2, IdsIs
<1>4. PICK a \in ToSet(s) : a.id = id
  BY <1>3 DEF s
<1>5. a \in ToSet(pkg.assets) /\ a.type = type
  BY <1>2
<1>6. PICK i \in 1..Len(pkg.assets) : pkg.assets[i] = a
  BY <1>1, <1>5, SeqFacts
<1>7. ById(pkg.assets, pkg.assets[i].id) = pkg.assets[i]
  BY <1>1, ByIdOf
<1> QED
  BY <1>1, <1>4, <1>5, <1>6, <1>7

\* Images stay images of the same entities.
LEMMA CarriedImageIs ==
  ASSUME NEW node, IsAsset(node), NEW parent, NEW story, NEW plan
  PROVE  LET a == CarriedImage(node, parent, story, plan) IN
         IsAsset(a) /\ a.id = node.id /\ a.type = node.type /\ a.refs = node.refs /\ a.deps = node.deps
<1> DEFINE old == ById(parent.assets, node.id)
           a == CarriedImage(node, parent, story, plan)
           look == [node EXCEPT !.look = old.look]
<1>1. a = node \/ a = Carried(node, old) \/ a = look
  BY DEF CarriedImage
<1> HIDE DEF a
<1>2. CASE a = node
  BY <1>2 DEF a
<1>3. CASE a = Carried(node, old)
  BY <1>3, CarriedIs DEF a
<1>4. CASE a = look
  <2> DEFINE l == old.look
  <2>1. a = [node EXCEPT !.look = l]
    BY <1>4
  <2> HIDE DEF l, old
  <2>2. IsAsset(a) /\ a.id = node.id /\ a.type = node.type /\ a.refs = node.refs /\ a.deps = node.deps
    BY <2>1, RelookedIs
  <2> QED
    BY <2>2 DEF a
<1> QED
  BY <1>1, <1>2, <1>3, <1>4

\* The narrator keeps a voice with a name, the story's if that has one.
LEMMA CarriedNarrationIs ==
  ASSUME NEW node, GoodNarrator(node), NEW parent, GoodPackage(parent), NEW story, NEW plan
  PROVE  LET a == CarriedNarration(node, parent, story, plan) IN
         /\ GoodNarrator(a)
         /\ story.brief.voice # "none" /\ node.voice = story.brief.voice => a.voice = story.brief.voice
<1> DEFINE vos == Voiceovers(parent)
           same == SelectInSeq(vos, LAMBDA x : x.id = node.id)
           old == vos[IF same # 0 THEN same ELSE 1]
           voice == IF story.brief.voice # "none" THEN story.brief.voice ELSE old.voice
           spoken == [node EXCEPT !.look = old.look, !.voice = voice]
           a == CarriedNarration(node, parent, story, plan)
<1>1. a = IF vos = <<>> THEN node
          ELSE IF plan.narrationChanged \/ Len(vos) # 1 THEN spoken ELSE Carried(spoken, old)
  BY DEF CarriedNarration
<1>2. /\ IsAsset(node) /\ node.id = Narration /\ node.type = "voiceover"
      /\ node.refs = <<>> /\ node.deps = <<>> /\ node.voice # "none"
  BY DEF GoodNarrator
<1>3. ASSUME vos # <<>> PROVE old.voice # "none"
  <2>1. IsSeq(parent.assets)
    BY DEF GoodPackage, IsPackage
  <2>2. IsSeq(vos)
    BY <2>1, OfTypeIs DEF Voiceovers
  <2>3. \A x \in ToSet(vos) : x.voice # "none"
    BY DEF GoodPackage, SoundPackage
  <2> HIDE DEF vos
  <2>4. Len(vos) \in Nat /\ Len(vos) # 0
    <3>1. Len(vos) \in Nat
      BY <2>2, SeqFacts
    <3>2. ASSUME Len(vos) = 0 PROVE FALSE
      <4>1. \A i \in 1..Len(vos) : vos[i] = <<>>[i]
        BY <3>2
      <4> QED
        BY <1>3, <2>2, <3>2, <4>1, EmptyIsSeq, SeqSame
    <3> QED
      BY <3>1, <3>2
  <2>5. same \in 0..Len(vos)
    <3> DEFINE I == {i \in 1..Len(vos) : vos[i].id = node.id}
    <3>1. same = IF I # {} THEN Min(I) ELSE 0
      BY DEF SelectInSeq
    <3>2. I \subseteq 1..Len(vos)
      OBVIOUS
    <3> HIDE DEF I, same
    <3>3. I # {} => Min(I) \in I
      BY <2>4, <3>2, LeastPlace
    <3>4. CASE I = {}
      BY <2>4, <3>1, <3>4
    <3>5. CASE I # {}
      <4>1. same \in 1..Len(vos)
        BY <3>1, <3>2, <3>3, <3>5
      <4> QED
        BY <2>4, <4>1
    <3> QED
      BY <3>4, <3>5
  <2> DEFINE k == IF same # 0 THEN same ELSE 1
  <2>6. k \in 1..Len(vos)
    <3> HIDE DEF same
    <3> QED
      BY <2>4, <2>5
  <2> HIDE DEF k
  <2>7. vos[k] \in ToSet(vos)
    BY <2>2, <2>6, SeqFacts
  <2>8. old = vos[k]
    BY DEF k
  <2> QED
    BY <2>3, <2>7, <2>8
<1> HIDE DEF vos, old, a
<1>4. CASE vos = <<>>
  BY <1>1, <1>4 DEF a
<1>5. CASE vos # <<>>
  <2>1. voice # "none" /\ (story.brief.voice # "none" => voice = story.brief.voice)
    BY <1>3, <1>5
  <2> HIDE DEF voice
  <2>2. /\ spoken.id = node.id /\ spoken.type = node.type /\ spoken.refs = node.refs /\ spoken.deps = node.deps
        /\ spoken.length = node.length /\ spoken.voice = voice /\ DOMAIN spoken = DOMAIN node
    BY <1>2 DEF IsAsset
  <2> HIDE DEF spoken
  <2>3. IsAsset(spoken)
    BY <1>2, <2>2 DEF IsAsset
  <2>4. GoodNarrator(spoken)
    BY <1>2, <2>1, <2>2, <2>3 DEF GoodNarrator
  <2>5. CASE a = spoken
    BY <2>1, <2>2, <2>4, <2>5 DEF a
  <2>6. CASE a = Carried(spoken, old)
    <3>1. /\ IsAsset(a) /\ a.id = spoken.id /\ a.type = spoken.type /\ a.refs = spoken.refs
          /\ a.deps = spoken.deps /\ a.voice = spoken.voice
      BY <2>3, <2>6, CarriedIs
    <3>2. GoodNarrator(a)
      BY <2>4, <3>1 DEF GoodNarrator
    <3> QED
      BY <2>1, <2>2, <3>1, <3>2 DEF a
  <2> QED
    BY <1>1, <1>5, <2>5, <2>6
<1> QED
  BY <1>4, <1>5

\* What a revision's video keeps of the node assembly made, with images of its parent's by hand.
Revisited(v, node, images, before, parent) ==
  /\ IsAsset(v) /\ v.id = node.id /\ v.type = node.type /\ v.length = node.length
  /\ v.refs # <<>> /\ \A r \in ToSet(v.refs) : r \in images \/ HandAuthored(parent, r)
  /\ \A d \in ToSet(v.deps) : d \in images \/ d \in ToSet(v.refs) \/ d \in before

\* A video of the new version refers to its images, or to images its parent had by hand.
LEMMA CarriedVideoIs ==
  ASSUME NEW node, IsAsset(node), node.refs # <<>>, NEW images, ToSet(node.refs) \subseteq images,
         NEW before, \A d \in ToSet(node.deps) : d \in images \/ d \in before,
         NEW shot, NEW parent, GoodPackage(parent), NEW plan
  PROVE  Revisited(CarriedVideo(node, shot, parent, plan, images), node, images, before, parent)
<1> DEFINE old == ById(parent.assets, shot.id)
           P == {i \in DOMAIN old.refs : old.refs[i] \in images \/ HandAuthored(parent, old.refs[i])}
           refs == Picked(old.refs, P)
           Q == {i \in DOMAIN node.deps : node.deps[i] \notin ToSet(node.refs)}
           continued == Picked(node.deps, Q)
           kept == Carried(node, old)
           v == CarriedVideo(node, shot, parent, plan, images)
           deps == refs \o continued
           revised == [kept EXCEPT !.refs = refs, !.deps = deps]
           relooked == [node EXCEPT !.look = old.look]
           found == shot.id \in Ids(OfType(parent, "video"))
<1>1. \/ v = node \/ v = relooked \/ v = kept
      \/ (found /\ refs # <<>> /\ v = revised)
  BY DEF CarriedVideo, Where
<1>2. ASSUME NEW a, IsAsset(a), a.id = node.id, a.type = node.type, a.length = node.length,
             a.refs = node.refs, a.deps = node.deps
      PROVE  Revisited(a, node, images, before, parent)
  BY <1>2 DEF Revisited
<1>3. Revisited(node, node, images, before, parent)
  BY <1>2
<1>4. Revisited(relooked, node, images, before, parent)
  <2> DEFINE l == old.look
             a == [node EXCEPT !.look = l]
  <2> HIDE DEF l
  <2>1. IsAsset(a) /\ a.id = node.id /\ a.type = node.type /\ a.refs = node.refs /\ a.deps = node.deps
        /\ a.length = node.length
    BY RelookedIs
  <2> HIDE DEF a
  <2>2. Revisited(a, node, images, before, parent)
    BY <1>2, <2>1
  <2> QED
    BY <2>2 DEF a, l
<1>5. Revisited(kept, node, images, before, parent)
  <2> HIDE DEF old
  <2>1. IsAsset(kept) /\ kept.id = node.id /\ kept.type = node.type /\ kept.refs = node.refs
        /\ kept.deps = node.deps /\ kept.length = node.length
    BY CarriedIs
  <2> HIDE DEF kept
  <2> QED
    BY <1>2, <2>1
<1>6. ASSUME found, refs # <<>>
      PROVE  Revisited(revised, node, images, before, parent)
  <2>1. IsAsset(old)
    BY <1>6, ByIdOfType
  <2>2. IsSeq(old.refs) /\ IsSeq(node.deps)
    BY <2>1 DEF IsAsset
  <2>3. P \subseteq DOMAIN old.refs /\ Q \subseteq DOMAIN node.deps
    OBVIOUS
  <2>4. \A r \in {old.refs[i] : i \in P} : r \in images \/ HandAuthored(parent, r)
    OBVIOUS
  <2> HIDE DEF old
  <2>5. /\ IsSeq(refs) /\ \A r \in ToSet(refs) : r \in images \/ HandAuthored(parent, r)
    <3> HIDE DEF P
    <3>1. IsSeq(Picked(old.refs, P)) /\ ToSet(Picked(old.refs, P)) = {old.refs[i] : i \in P}
      BY <2>2, <2>3, PickedIs, PickedSet
    <3> QED
      BY <2>4, <3>1
  <2>6. IsSeq(continued) /\ ToSet(continued) \subseteq ToSet(node.deps)
    <3> HIDE DEF Q
    <3> QED
      BY <2>2, <2>3, PickedIs, PickedSet
  <2> HIDE DEF refs, continued
  <2>7. IsSeq(deps) /\ ToSet(deps) = ToSet(refs) \cup ToSet(continued)
    BY <2>5, <2>6, Concat
  <2>8. IsAsset(kept) /\ kept.id = node.id /\ kept.type = node.type /\ kept.length = node.length
    BY CarriedIs
  <2> HIDE DEF kept, deps
  <2>9. /\ revised.id = kept.id /\ revised.type = kept.type /\ revised.length = kept.length
        /\ revised.refs = refs /\ revised.deps = deps /\ DOMAIN revised = DOMAIN kept
    BY <2>8 DEF IsAsset
  <2> HIDE DEF revised
  <2>10. IsAsset(revised)
    BY <2>5, <2>7, <2>8, <2>9 DEF IsAsset
  <2>11. revised.refs # <<>>
    BY <1>6, <2>9
  <2>12. \A d \in ToSet(revised.deps) : d \in images \/ d \in ToSet(revised.refs) \/ d \in before
    BY <2>6, <2>7, <2>9
  <2> QED
    BY <2>5, <2>8, <2>9, <2>10, <2>11, <2>12 DEF Revisited
<1> HIDE DEF v, kept, revised, relooked, found, refs
<1>7. Revisited(v, node, images, before, parent)
  BY <1>1, <1>3, <1>4, <1>5, <1>6
<1> QED
  BY <1>7 DEF v

-----------------------------------------------------------------------------
(* carry_over, node by node. *)

\* The parts of CarryOver, under names of their own.
CarriedVideos(videos, shots, parent, plan, images) ==
  [i \in DOMAIN videos |-> CarriedVideo(videos[i], shots[i], parent, plan, images)]

\* The images by hand some videos refer to, by their ids and as nodes of the parent.
ByHandUsed(videos, images) ==
  Distinct(FlattenSeq([i \in DOMAIN videos |-> Where(videos[i].refs, LAMBDA r : r \notin images)]))
ByHandNodes(parent, used) == [i \in DOMAIN used |-> ById(parent.assets, used[i])]

CarriedImages(images, parent, story, plan) ==
  [i \in DOMAIN images |-> CarriedImage(images[i], parent, story, plan)]

\* The node a video continues from.
Before(i) == IF i > 1 THEN {ShotNode(i - 1)} ELSE {}

\* The videos, one by one.
LEMMA CarriedVideosAre ==
  ASSUME NEW videos, NEW images, GoodVideos(videos, images), NEW shots, NEW parent, GoodPackage(parent), NEW plan
  PROVE  LET carried == CarriedVideos(videos, shots, parent, plan, images) IN
         /\ IsSeq(carried) /\ Len(carried) = Len(videos)
         /\ \A i \in 1..Len(videos) : Revisited(carried[i], videos[i], images, Before(i), parent)
<1> DEFINE n == Len(videos)
           carried == CarriedVideos(videos, shots, parent, plan, images)
<1>1. IsSeq(videos)
  BY DEF GoodVideos
<1>2. n \in Nat /\ DOMAIN videos = 1..n
  BY <1>1, SeqFacts
<1>3. carried = [i \in 1..n |-> carried[i]]
      /\ \A i \in 1..n : carried[i] = CarriedVideo(videos[i], shots[i], parent, plan, images)
  BY <1>2 DEF CarriedVideos
<1> HIDE DEF carried
<1>4. IsSeq(carried) /\ Len(carried) = n
  BY <1>2, <1>3, SeqMade
<1>5. ASSUME NEW i \in 1..n
      PROVE  Revisited(carried[i], videos[i], images, Before(i), parent)
  <2> DEFINE node == videos[i]
             before == Before(i)
             shot == shots[i]
  <2>1. /\ IsAsset(node) /\ node.refs # <<>> /\ ToSet(node.refs) \subseteq images
        /\ \A d \in ToSet(node.deps) : d \in images \/ d \in before
    BY <1>5 DEF GoodVideos, Before
  <2>2. carried[i] = CarriedVideo(node, shot, parent, plan, images)
    BY <1>3
  <2> HIDE DEF node, before, shot
  <2>3. Revisited(CarriedVideo(node, shot, parent, plan, images), node, images, before, parent)
    BY <2>1, CarriedVideoIs
  <2>4. Revisited(carried[i], node, images, before, parent)
    BY <2>2, <2>3
  <2> QED
    BY <2>4 DEF node, before
<1>6. /\ IsSeq(carried) /\ Len(carried) = Len(videos)
      /\ \A i \in 1..Len(videos) : Revisited(carried[i], videos[i], images, Before(i), parent)
  BY <1>4, <1>5
<1> QED
  BY <1>6 DEF carried

\* The images by hand are exactly those the videos need beyond the assembled ones.
LEMMA ByHandUsedIs ==
  ASSUME NEW videos, IsSeq(videos), \A i \in 1..Len(videos) : IsSeq(videos[i].refs), NEW images
  PROVE  LET used == ByHandUsed(videos, images) IN
         /\ IsSeq(used)
         /\ \A k, l \in 1..Len(used) : used[k] = used[l] => k = l
         /\ \A r \in ToSet(used) : r \notin images /\ \E i \in 1..Len(videos) : r \in ToSet(videos[i].refs)
         /\ \A i \in 1..Len(videos) : ToSet(videos[i].refs) \subseteq images \cup ToSet(used)
<1> DEFINE n == Len(videos)
           P(i) == {k \in DOMAIN videos[i].refs : videos[i].refs[k] \notin images}
           b == [i \in DOMAIN videos |-> Picked(videos[i].refs, P(i))]
           flat == FlattenSeq(b)
           used == ByHandUsed(videos, images)
<1>1. n \in Nat /\ DOMAIN videos = 1..n
  BY SeqFacts
<1>2. used = Distinct(flat)
  BY DEF ByHandUsed, Where
<1>3. b = [i \in 1..n |-> b[i]] /\ \A i \in 1..n : b[i] = Picked(videos[i].refs, P(i))
  BY <1>1
<1> HIDE DEF b
<1>4. IsSeq(b) /\ Len(b) = n
  BY <1>1, <1>3, SeqMade
<1>5. ASSUME NEW i \in 1..n
      PROVE  IsSeq(b[i]) /\ \A r : r \in ToSet(b[i]) <=> r \in ToSet(videos[i].refs) /\ r \notin images
  <2> DEFINE refs == videos[i].refs
             Q == {k \in DOMAIN refs : refs[k] \notin images}
  <2>1. IsSeq(refs) /\ Q \subseteq DOMAIN refs
    OBVIOUS
  <2>2. b[i] = Picked(refs, Q)
    BY <1>3
  <2>3. \A r : r \in {refs[k] : k \in Q} <=> r \in ToSet(refs) /\ r \notin images
    BY DEF ToSet
  <2> HIDE DEF refs, Q
  <2>4. IsSeq(Picked(refs, Q)) /\ ToSet(Picked(refs, Q)) = {refs[k] : k \in Q}
    BY <2>1, PickedIs, PickedSet
  <2>5. IsSeq(b[i]) /\ \A r : r \in ToSet(b[i]) <=> r \in ToSet(refs) /\ r \notin images
    BY <2>2, <2>3, <2>4
  <2> QED
    BY <2>5 DEF refs
<1>6. IsBlocks(b)
  BY <1>4, <1>5 DEF IsBlocks
<1>7. /\ IsSeq(flat)
      /\ \A x \in ToSet(flat) : \E i \in 1..Len(b) : x \in ToSet(b[i])
      /\ \A i \in 1..Len(b) : ToSet(b[i]) \subseteq ToSet(flat)
  BY <1>6, FlattenedSet
<1> HIDE DEF flat, used
<1>8. /\ IsSeq(used) /\ ToSet(used) = ToSet(flat)
      /\ \A k, l \in 1..Len(used) : used[k] = used[l] => k = l
  <2>1. /\ IsSeq(Distinct(flat)) /\ ToSet(Distinct(flat)) = ToSet(flat)
        /\ \A k, l \in 1..Len(Distinct(flat)) : Distinct(flat)[k] = Distinct(flat)[l] => k = l
    BY <1>7, DistinctFacts
  <2> QED
    BY <1>2, <2>1
<1>9. \A r \in ToSet(used) : r \notin images /\ \E i \in 1..Len(videos) : r \in ToSet(videos[i].refs)
  BY <1>4, <1>5, <1>7, <1>8
<1>10. \A i \in 1..Len(videos) : ToSet(videos[i].refs) \subseteq images \cup ToSet(used)
  BY <1>4, <1>5, <1>7, <1>8
<1> QED
  BY <1>8, <1>9, <1>10 DEF used

\* They are images of the parent.
LEMMA ByHandNodesAre ==
  ASSUME NEW parent, GoodPackage(parent), NEW used, IsSeq(used),
         \A k, l \in 1..Len(used) : used[k] = used[l] => k = l,
         \A r \in ToSet(used) : HandAuthored(parent, r)
  PROVE  GoodImages(ByHandNodes(parent, used)) /\ Ids(ByHandNodes(parent, used)) = ToSet(used)
<1> DEFINE n == Len(used)
           nodes == ByHandNodes(parent, used)
<1>1. n \in Nat /\ DOMAIN used = 1..n /\ \A k \in 1..n : used[k] \in ToSet(used)
  BY SeqFacts
<1>2. nodes = [k \in 1..n |-> nodes[k]] /\ \A k \in 1..n : nodes[k] = ById(parent.assets, used[k])
  BY <1>1 DEF ByHandNodes
<1> HIDE DEF nodes
<1>3. IsSeq(nodes) /\ Len(nodes) = n
  BY <1>1, <1>2, SeqMade
<1>4. ASSUME NEW k \in 1..n
      PROVE  /\ nodes[k].id = used[k] /\ IsAsset(nodes[k]) /\ nodes[k].type = "image"
             /\ nodes[k].refs = <<>> /\ nodes[k].deps = <<>> /\ nodes[k].id[1] \notin NodeNames
  <2> DEFINE id == used[k]
             a == ById(parent.assets, id)
  <2>1. id \in Ids(OfType(parent, "image"))
    BY <1>1 DEF HandAuthored
  <2> HIDE DEF id
  <2>2. a \in ToSet(parent.assets) /\ IsAsset(a) /\ a.id = id /\ a.type = "image"
    BY <2>1, ByIdOfType
  <2>3. nodes[k] = a
    BY <1>2 DEF id
  <2> HIDE DEF a
  <2>4. a.refs = <<>> /\ a.deps = <<>> /\ a.id[1] \notin NodeNames
    BY <2>2 DEF GoodPackage, SoundPackage
  <2> QED
    BY <2>2, <2>3, <2>4 DEF id
<1>5. DistinctIds(nodes)
  BY <1>3, <1>4, DistinctIdsIs
<1>6. Ids(nodes) = ToSet(used)
  <2>1. Ids(nodes) = {nodes[k].id : k \in 1..n}
    BY <1>3, IdsIs
  <2>2. ToSet(used) = {used[k] : k \in 1..n}
    BY <1>1 DEF ToSet
  <2> QED
    BY <1>4, <2>1, <2>2
<1>7. \A a \in ToSet(nodes) : \E k \in 1..n : a = nodes[k]
  BY <1>3, SeqFacts
<1>8. GoodImages(nodes)
  BY <1>3, <1>4, <1>5, <1>7 DEF GoodImages
<1> QED
  BY <1>6, <1>8 DEF nodes

\* The assembled images stay images of the same entities.
LEMMA CarriedImagesAre ==
  ASSUME NEW imgs, GoodImages(imgs), NEW parent, NEW story, NEW plan
  PROVE  /\ GoodImages(CarriedImages(imgs, parent, story, plan))
         /\ Ids(CarriedImages(imgs, parent, story, plan)) = Ids(imgs)
<1> DEFINE n == Len(imgs)
           t == CarriedImages(imgs, parent, story, plan)
<1>1. IsSeq(imgs) /\ DistinctIds(imgs)
  BY DEF GoodImages
<1>2. n \in Nat /\ DOMAIN imgs = 1..n /\ \A i \in 1..n : imgs[i] \in ToSet(imgs)
  BY <1>1, SeqFacts
<1>3. t = [i \in 1..n |-> t[i]] /\ \A i \in 1..n : t[i] = CarriedImage(imgs[i], parent, story, plan)
  BY <1>2 DEF CarriedImages
<1> HIDE DEF t
<1>4. IsSeq(t) /\ Len(t) = n
  BY <1>2, <1>3, SeqMade
<1>5. ASSUME NEW i \in 1..n
      PROVE  /\ IsAsset(t[i]) /\ t[i].id = imgs[i].id /\ t[i].type = imgs[i].type
             /\ t[i].refs = imgs[i].refs /\ t[i].deps = imgs[i].deps
  <2> DEFINE node == imgs[i]
  <2>1. IsAsset(node)
    BY <1>2 DEF GoodImages
  <2>2. t[i] = CarriedImage(node, parent, story, plan)
    BY <1>3
  <2> HIDE DEF node
  <2> DEFINE a == CarriedImage(node, parent, story, plan)
  <2>3. IsAsset(a) /\ a.id = node.id /\ a.type = node.type /\ a.refs = node.refs /\ a.deps = node.deps
    BY <2>1, CarriedImageIs
  <2> HIDE DEF a
  <2>4. t[i] = a
    BY <2>2 DEF a
  <2> QED
    BY <2>3, <2>4 DEF node
<1>6. Ids(t) = Ids(imgs) /\ DistinctIds(t)
  BY <1>1, <1>4, <1>5, SameIds
<1>7. \A a \in ToSet(t) : \E i \in 1..n : a = t[i]
  BY <1>4, SeqFacts
<1>8. ASSUME NEW a \in ToSet(t)
      PROVE  IsAsset(a) /\ a.type = "image" /\ a.refs = <<>> /\ a.deps = <<>> /\ a.id[1] \notin NodeNames
  <2>1. PICK i \in 1..n : a = t[i]
    BY <1>7
  <2>2. imgs[i].type = "image" /\ imgs[i].refs = <<>> /\ imgs[i].deps = <<>> /\ imgs[i].id[1] \notin NodeNames
    BY <1>2 DEF GoodImages
  <2> QED
    BY <1>5, <2>1, <2>2
<1>9. GoodImages(t)
  BY <1>4, <1>6, <1>8 DEF GoodImages
<1> QED
  BY <1>6, <1>9 DEF t

-----------------------------------------------------------------------------
\* What carrying over leaves of an assembled package, and what it gives it.
CarriedOver(built, pkg, story) ==
  /\ DOMAIN built = DOMAIN pkg /\ \A f \in DOMAIN pkg : f # "assets" => built[f] = pkg[f]
  /\ IsSeq(built.assets) /\ \A a \in ToSet(built.assets) : IsAsset(a)
  /\ DistinctIds(built.assets)
  /\ \A a \in ToSet(built.assets) :
       a.type = "image" => a.refs = <<>> /\ a.deps = <<>> /\ a.id[1] \notin NodeNames
  /\ \A a \in ToSet(built.assets) :
       /\ a.type = "video" => a.refs # <<>>
       /\ ToSet(a.refs) \subseteq Ids(OfType(built, "image"))
  /\ Len(OfType(built, "video")) = Len(OfType(pkg, "video"))
  /\ \A i \in 1..Len(OfType(pkg, "video")) :
       /\ OfType(built, "video")[i].id = ShotNode(i)
       /\ OfType(built, "video")[i].length = OfType(pkg, "video")[i].length
  /\ \E narr : /\ Voiceovers(built) = <<narr>> /\ narr.voice # "none"
               /\ \A told : /\ Voiceovers(pkg) = <<told>> /\ told.voice = story.brief.voice
                            /\ story.brief.voice # "none"
                            => narr.voice = story.brief.voice
  /\ EdgesResolve(built.assets) /\ Acyclic(built.assets)

\* Nodes laid out so refer to images of the package only.
LEMMA RefersToImages ==
  ASSUME NEW pkg, NEW imgs, GoodImages(imgs), NEW vids, GoodVideos(vids, Ids(imgs)),
         NEW narr, GoodNarrator(narr), pkg.assets = imgs \o vids \o <<narr>>
  PROVE  \A a \in ToSet(pkg.assets) :
           /\ a.type = "video" => a.refs # <<>>
           /\ ToSet(a.refs) \subseteq Ids(imgs)
<1> DEFINE front == imgs \o vids
           last == <<narr>>
<1>1. IsSeq(imgs) /\ IsSeq(vids) /\ IsSeq(last) /\ ToSet(last) = {narr}
  BY Single DEF GoodImages, GoodVideos
<1> HIDE DEF last
<1>2. IsSeq(front) /\ ToSet(front) = ToSet(imgs) \cup ToSet(vids)
  BY <1>1, Concat
<1> HIDE DEF front
<1>3. ToSet(front \o last) = ToSet(front) \cup ToSet(last)
  BY <1>1, <1>2, Concat
<1>4. pkg.assets = front \o last
  BY DEF front, last
<1>5. ASSUME NEW a \in ToSet(pkg.assets)
      PROVE  (a.type = "video" => a.refs # <<>>) /\ ToSet(a.refs) \subseteq Ids(imgs)
  <2>1. a \in ToSet(imgs) \/ a \in ToSet(vids) \/ a = narr
    BY <1>1, <1>2, <1>3, <1>4
  <2>2. CASE a \in ToSet(imgs)
    BY <2>2, EmptyIsSeq DEF GoodImages
  <2>3. CASE a \in ToSet(vids)
    <3>1. PICK i \in 1..Len(vids) : a = vids[i]
      BY <1>1, <2>3, SeqFacts
    <3> QED
      BY <3>1 DEF GoodVideos
  <2>4. CASE a = narr
    BY <2>4, EmptyIsSeq DEF GoodNarrator
  <2> QED
    BY <2>1, <2>2, <2>3, <2>4
<1> QED
  BY <1>5

\* carry_over keeps an assembled package in shape.
LEMMA CarryOverIs ==
  ASSUME NEW pkg, "assets" \in DOMAIN pkg, NEW images, Assembled(pkg, images),
         NEW parent, GoodPackage(parent), NEW story, NEW plan, NEW shots
  PROVE  CarriedOver(CarryOver(pkg, parent, story, plan, shots), pkg, story)
<1> DEFINE imgs == OfType(pkg, "image")
           vids == OfType(pkg, "video")
           vos == Voiceovers(pkg)
           carried == CarriedVideos(vids, shots, parent, plan, images)
           used == ByHandUsed(carried, images)
           extra == ByHandNodes(parent, used)
           kept == CarriedImages(imgs, parent, story, plan)
           narrs == [i \in DOMAIN vos |-> CarriedNarration(vos[i], parent, story, plan)]
           pictures == kept \o extra
           built == CarryOver(pkg, parent, story, plan, shots)
<1>1. GoodImages(imgs) /\ Ids(imgs) = images /\ GoodVideos(vids, images)
  BY DEF Assembled
<1>2. PICK narr : vos = <<narr>> /\ GoodNarrator(narr)
  BY DEF Assembled
<1>3. built = [pkg EXCEPT !.assets = kept \o extra \o carried \o narrs]
  <2> DEFINE ids == Ids(imgs)
             carried2 == CarriedVideos(vids, shots, parent, plan, ids)
             extra2 == ByHandNodes(parent, ByHandUsed(carried2, ids))
  <2>1. built = [pkg EXCEPT !.assets = kept \o extra2 \o carried2 \o narrs]
    BY Zenon DEF CarryOver, CarriedVideos, ByHandUsed, ByHandNodes, CarriedImages
  <2>2. ids = images
    BY <1>1
  <2> HIDE DEF ids, kept, narrs, built, imgs, vids
  <2> QED
    BY <2>1, <2>2
<1> DEFINE spoken == CarriedNarration(narr, parent, story, plan)
<1>4. narrs = <<spoken>>
  BY <1>2
<1>5. /\ GoodNarrator(spoken)
      /\ story.brief.voice # "none" /\ narr.voice = story.brief.voice => spoken.voice = story.brief.voice
  BY <1>2, CarriedNarrationIs
<1>6. /\ IsSeq(carried) /\ Len(carried) = Len(vids)
      /\ \A i \in 1..Len(vids) : Revisited(carried[i], vids[i], images, Before(i), parent)
  <2> HIDE DEF vids
  <2> QED
    BY <1>1, CarriedVideosAre
<1>7. GoodImages(kept) /\ Ids(kept) = images
  <2> HIDE DEF imgs
  <2>1. GoodImages(kept) /\ Ids(kept) = Ids(imgs)
    BY <1>1, CarriedImagesAre
  <2> QED
    BY <1>1, <2>1
<1> HIDE DEF carried, kept, vids, imgs, spoken, built
<1>8. ASSUME NEW i \in 1..Len(carried) PROVE IsSeq(carried[i].refs)
  BY <1>6 DEF Revisited, IsAsset
<1>9. /\ IsSeq(used)
      /\ \A k, l \in 1..Len(used) : used[k] = used[l] => k = l
      /\ \A r \in ToSet(used) : r \notin images /\ \E i \in 1..Len(carried) : r \in ToSet(carried[i].refs)
      /\ \A i \in 1..Len(carried) : ToSet(carried[i].refs) \subseteq images \cup ToSet(used)
  BY <1>6, <1>8, ByHandUsedIs
<1> HIDE DEF used
<1>10. \A r \in ToSet(used) : HandAuthored(parent, r)
  BY <1>6, <1>9 DEF Revisited
<1>11. GoodImages(extra) /\ Ids(extra) = ToSet(used)
  BY <1>9, <1>10, ByHandNodesAre
<1> HIDE DEF extra
<1>12. GoodImages(pictures) /\ Ids(pictures) = images \cup ToSet(used)
  <2>1. IsSeq(kept) /\ IsSeq(extra) /\ DistinctIds(kept) /\ DistinctIds(extra)
    BY <1>7, <1>11 DEF GoodImages
  <2>2. Ids(kept) \cap Ids(extra) = {}
    BY <1>7, <1>9, <1>11
  <2>3. IsSeq(pictures) /\ ToSet(pictures) = ToSet(kept) \cup ToSet(extra)
    BY <2>1, Concat
  <2>4. Ids(pictures) = Ids(kept) \cup Ids(extra) /\ DistinctIds(pictures)
    BY <2>1, <2>2, ConcatIds
  <2> HIDE DEF pictures
  <2>5. GoodImages(pictures)
    BY <1>7, <1>11, <2>3, <2>4 DEF GoodImages
  <2> QED
    BY <1>7, <1>11, <2>4, <2>5
<1>13. GoodVideos(carried, Ids(pictures))
  <2> HIDE DEF pictures
  <2>1. ASSUME NEW i \in 1..Len(carried)
        PROVE  /\ IsAsset(carried[i]) /\ carried[i].id = ShotNode(i) /\ carried[i].type = "video"
               /\ carried[i].refs # <<>> /\ ToSet(carried[i].refs) \subseteq Ids(pictures)
               /\ \A d \in ToSet(carried[i].deps) :
                    d \in Ids(pictures) \/ (i > 1 /\ d = ShotNode(i - 1))
    <3>1. vids[i].id = ShotNode(i) /\ vids[i].type = "video"
      BY <1>1, <1>6 DEF GoodVideos
    <3>2. Revisited(carried[i], vids[i], images, Before(i), parent)
      BY <1>6
    <3>3. ToSet(carried[i].refs) \subseteq Ids(pictures)
      BY <1>9, <1>12
    <3>4. \A d \in ToSet(carried[i].deps) : d \in Ids(pictures) \/ d \in Before(i)
      BY <1>12, <3>2, <3>3 DEF Revisited
    <3> QED
      BY <3>1, <3>2, <3>3, <3>4 DEF Revisited, Before
  <2> QED
    BY <1>6, <2>1 DEF GoodVideos
<1>14. /\ built.assets = pictures \o carried \o <<spoken>>
       /\ DOMAIN built = DOMAIN pkg /\ \A f \in DOMAIN pkg : f # "assets" => built[f] = pkg[f]
  <2> DEFINE all == kept \o extra \o carried \o narrs
  <2>1. all = pictures \o carried \o <<spoken>>
    BY <1>4
  <2>2. built = [pkg EXCEPT !.assets = all]
    BY <1>3
  <2> HIDE DEF all
  <2>3. built.assets = all /\ DOMAIN built = DOMAIN pkg
    BY <2>2
  <2>4. ASSUME NEW f \in DOMAIN pkg, f # "assets" PROVE built[f] = pkg[f]
    BY <2>2, <2>4
  <2> QED
    BY <2>1, <2>3, <2>4
<1> HIDE DEF pictures
<1>15. /\ IsSeq(built.assets) /\ \A a \in ToSet(built.assets) : IsAsset(a)
       /\ DistinctIds(built.assets)
       /\ \A a \in ToSet(built.assets) :
            a.type = "image" => a.refs = <<>> /\ a.deps = <<>> /\ a.id[1] \notin NodeNames
       /\ OfType(built, "image") = pictures /\ OfType(built, "video") = carried /\ Voiceovers(built) = <<spoken>>
       /\ EdgesResolve(built.assets) /\ Acyclic(built.assets)
  BY <1>5, <1>12, <1>13, <1>14, LaidOut
<1>16. \A a \in ToSet(built.assets) :
         /\ a.type = "video" => a.refs # <<>>
         /\ ToSet(a.refs) \subseteq Ids(pictures)
  BY <1>5, <1>12, <1>13, <1>14, RefersToImages
<1>17. \A i \in 1..Len(vids) : carried[i].id = ShotNode(i) /\ carried[i].length = vids[i].length
  BY <1>1, <1>6 DEF GoodVideos, Revisited
<1>18. /\ spoken.voice # "none"
       /\ \A told : /\ vos = <<told>> /\ told.voice = story.brief.voice /\ story.brief.voice # "none"
                   => spoken.voice = story.brief.voice
  <2>1. \A told : vos = <<told>> => told = narr
    BY <1>2
  <2> QED
    BY <1>5, <2>1 DEF GoodNarrator
<1>19. CarriedOver(built, pkg, story)
  BY <1>6, <1>14, <1>15, <1>16, <1>17, <1>18 DEF CarriedOver, vids
<1> QED
  BY <1>19 DEF built

\* What a revision builds for some shots of a story.
Built(pkg, story, shots) ==
  /\ GoodPackage(pkg)
  /\ EdgesResolve(pkg.assets) /\ Acyclic(pkg.assets) /\ RefsResolve(pkg)
  /\ Len(shots) <= 1000 => LengthAddsUp(pkg)
  /\ pkg.world = story.world /\ pkg.scenes = story.scenes
  /\ pkg.timeline = [i \in DOMAIN shots |-> ShotNode(i)]
  /\ pkg.shots = [i \in DOMAIN shots |-> [shots[i] EXCEPT !.id = ShotNode(i)]]
  /\ pkg.brief.length = story.brief.length
  /\ story.brief.style # "none" => pkg.brief.style = story.brief.style
  /\ \E narr : /\ Voiceovers(pkg) = <<narr>>
               /\ story.brief.voice # "none" => narr.voice = story.brief.voice
  /\ Len(OfType(pkg, "video")) = Len(shots)
  /\ \A i \in 1..Len(shots) : OfType(pkg, "video")[i].id = ShotNode(i)

\* Nobody told, nothing to add up.
LEMMA TotalOfNone == Total(<<>>) = 0
<1>1. IsSeq(<<>>) /\ Len(<<>>) = 0
  BY EmptyIsSeq
<1>2. \A i \in 1..Len(<<>>) : <<>>[i] \in Int
  BY <1>1
<1>3. PICK f : SumsUp(f, <<>>) /\ Total(<<>>) = f[Len(<<>>)]
  BY <1>1, <1>2, TotalIs
<1> QED
  BY <1>1, <1>3 DEF SumsUp

\* Shots renamed after their places are still a breakdown, of the same places and characters.
LEMMA RenamedShots ==
  ASSUME NEW shots, NEW world, NEW sc, GoodBreakdown(shots, world, sc),
         NEW tags, tags = [i \in DOMAIN shots |-> [shots[i] EXCEPT !.id = ShotNode(i)]]
  PROVE  /\ IsSeq(tags) /\ Len(tags) = Len(shots)
         /\ \A x \in ToSet(tags) : GoodShot(x, world, sc)
<1> DEFINE n == Len(shots)
<1>1. IsSeq(shots)
  BY DEF GoodBreakdown
<1>2. n \in Nat /\ DOMAIN shots = 1..n /\ \A i \in 1..n : shots[i] \in ToSet(shots)
  BY <1>1, SeqFacts
<1>3. tags = [i \in 1..n |-> tags[i]] /\ \A i \in 1..n : tags[i] = [shots[i] EXCEPT !.id = ShotNode(i)]
  BY <1>2, Zenon
<1>4. IsSeq(tags) /\ Len(tags) = n
  BY <1>2, <1>3, SeqMade
<1>5. ASSUME NEW i \in 1..n PROVE GoodShot(tags[i], world, sc)
  <2> DEFINE x == shots[i]
             y == tags[i]
             id == ShotNode(i)
  <2>1. GoodShot(x, world, sc)
    BY <1>2 DEF GoodBreakdown
  <2>2. y = [x EXCEPT !.id = id]
    BY <1>3
  <2> HIDE DEF x, y, id
  <2>3. /\ DOMAIN y = DOMAIN x /\ y.length = x.length /\ y.subjects = x.subjects /\ y.scene = x.scene
        /\ y.location = x.location
    BY <2>1, <2>2 DEF GoodShot
  <2>4. GoodShot(y, world, sc)
    BY <2>1, <2>3 DEF GoodShot
  <2> QED
    BY <2>4 DEF y
<1>6. \A x \in ToSet(tags) : \E i \in 1..n : x = tags[i]
  BY <1>4, SeqFacts, SMTT(30)
<1> QED
  BY <1>4, <1>5, <1>6

\* The lengths of these videos come to about the target.
Reaches(videos, target) ==
  LET total == Total([i \in DOMAIN videos |-> videos[i].length]) IN
  total # 0 => total - target \in -500..500

\* The lengths of what is assembled add up to the film's.
LEMMA AddsUp ==
  ASSUME NEW shots, NEW world, NEW sc, GoodBreakdown(shots, world, sc), Len(shots) <= 1000,
         NEW target \in Int, NEW videos, IsSeq(videos), Len(videos) = Len(shots),
         \A i \in 1..Len(shots) : videos[i].length = NormalizeDurations(Lengths(shots), target)[i]
  PROVE  Reaches(videos, target)
<1> DEFINE raw == Lengths(shots)
           n == Len(shots)
           out == NormalizeDurations(raw, target)
           lengths == [i \in DOMAIN videos |-> videos[i].length]
<1>1. IsSeq(raw) /\ Len(raw) = n /\ \A i \in 1..Len(raw) : raw[i] \in Int
  BY LengthsAre
<1>2. n \in Nat /\ DOMAIN videos = 1..n
  BY SeqFacts
<1>3. lengths = [i \in 1..n |-> lengths[i]] /\ \A i \in 1..n : lengths[i] = out[i]
  BY <1>2
<1> HIDE DEF lengths, raw
<1>4. IsSeq(lengths) /\ Len(lengths) = n
  BY <1>2, <1>3, SeqMade
<1> DEFINE total == Total(out)
<1>5. /\ IsSeq(out) /\ Len(out) = n
      /\ total \in Int /\ (n # 0 => 2 * (total - target) \in -n..n)
  BY <1>1, NormalizedAre
<1> HIDE DEF out
<1>6. lengths = out
  BY <1>3, <1>4, <1>5, SeqSame
<1>7. CASE n = 0
  <2>1. \A i \in 1..n : out[i] = <<>>[i]
    BY <1>7
  <2>2. out = <<>>
    BY <1>5, <1>7, <2>1, EmptyIsSeq, SeqSame
  <2> QED
    BY <1>6, <2>2, TotalOfNone DEF lengths, Reaches
<1>8. CASE n # 0
  <2> HIDE DEF total, n
  <2>1. total - target \in -500..500
    <3>1. n <= 1000
      BY DEF n
    <3> QED
      BY <1>2, <1>5, <1>8, <3>1
  <2> QED
    BY <1>6, <2>1, ZenonT(40) DEF total, lengths, Reaches
<1> QED
  BY <1>7, <1>8

\* No two nodes of the timeline are the same.
LEMMA TimelineIs ==
  ASSUME NEW shots, IsSeq(shots), NEW line, line = [i \in DOMAIN shots |-> ShotNode(i)]
  PROVE  IsSeq(line) /\ IsInjective(line) /\ Len(line) = Len(shots)
<1>1. Len(shots) \in Nat /\ DOMAIN shots = 1..Len(shots)
  BY SeqFacts
<1>2. line = [i \in 1..Len(shots) |-> line[i]] /\ \A i \in 1..Len(shots) : line[i] = ShotNode(i)
  BY <1>1
<1>3. IsSeq(line) /\ Len(line) = Len(shots)
  BY <1>1, <1>2, SeqMade
<1>4. DOMAIN line = 1..Len(shots)
  BY <1>1
<1>5. IsInjective(line)
  BY <1>2, <1>4 DEF IsInjective, ShotNode
<1> QED
  BY <1>3, <1>5

\* A revision of a sound package is sound, whatever the plan and the agents say.
THEOREM BuildRevisionIs ==
  ASSUME NEW parent, GoodPackage(parent), NEW story, GoodStory(story),
         NEW shots, GoodBreakdown(shots, story.world, story.scenes), NEW plan, NEW fresh
  PROVE  Built(BuildRevision(parent, story, plan, shots, fresh), story, shots)
<1> DEFINE kept(x) == x.id \in DOMAIN plan.shots /\ plan.shots[x.id] = "kept" /\ x.id \in Ids(parent.assets)
           prompt(x) == IF kept(x) THEN ById(parent.assets, x.id).content
                        ELSE IF x.id \in DOMAIN fresh THEN fresh[x.id] ELSE x.action
           prompts == [id \in Ids(shots) |-> prompt(ById(shots, id))]
           pkg == AssemblePackage(story, shots, prompts)
           built == BuildRevision(parent, story, plan, shots, fresh)
           images == RefsOf(story.world)
           world == story.world
           sc == story.scenes
<1>1. built = CarryOver(pkg, parent, story, plan, shots)
  BY DEF BuildRevision
<1> HIDE DEF prompts
<1>2. MadeFor(pkg, story, shots) /\ Assembled(pkg, images)
  BY AssemblePackageIs
<1> HIDE DEF pkg, images, built
<1>3. "assets" \in DOMAIN pkg
  BY <1>2 DEF MadeFor
<1>4. CarriedOver(built, pkg, story)
  <2>1. CarriedOver(CarryOver(pkg, parent, story, plan, shots), pkg, story)
    BY <1>2, <1>3, CarryOverIs
  <2> QED
    BY <1>1, <2>1
<1>5. /\ {"brief", "world", "assets", "timeline", "scenes", "shots"} \subseteq DOMAIN built
      /\ built.brief = pkg.brief /\ built.world = pkg.world /\ built.timeline = pkg.timeline
      /\ built.scenes = pkg.scenes /\ built.shots = pkg.shots
  BY <1>2, <1>4 DEF MadeFor, CarriedOver
<1>6. /\ built.world = story.world /\ built.scenes = story.scenes
      /\ built.timeline = [i \in DOMAIN shots |-> ShotNode(i)]
      /\ built.shots = [i \in DOMAIN shots |-> [shots[i] EXCEPT !.id = ShotNode(i)]]
      /\ IsBrief(built.brief) /\ built.brief.length = story.brief.length
      /\ built.brief.style # "none" /\ (story.brief.style # "none" => built.brief.style = story.brief.style)
      /\ built.brief.voice # "none"
  BY <1>2, <1>5 DEF MadeFor
<1>7. GoodWorld(world) /\ GoodScript(sc) /\ IsSeq(shots)
  BY DEF GoodStory, GoodBreakdown
<1>8. IsSeq(built.timeline) /\ IsInjective(built.timeline)
  BY <1>6, <1>7, TimelineIs
<1>9. IsSeq(built.shots) /\ \A x \in ToSet(built.shots) : GoodShot(x, world, sc)
  <2> DEFINE tags == built.shots
  <2>1. tags = [i \in DOMAIN shots |-> [shots[i] EXCEPT !.id = ShotNode(i)]]
    BY <1>6
  <2> HIDE DEF tags, world, sc
  <2>2. GoodBreakdown(shots, world, sc)
    BY DEF world, sc
  <2>3. IsSeq(tags) /\ \A x \in ToSet(tags) : GoodShot(x, world, sc)
    BY <2>1, <2>2, RenamedShots
  <2> QED
    BY <2>3 DEF tags
<1>10. IsPackage(built)
  <2>1. IsBreakdown(built.shots)
    BY <1>9 DEF IsBreakdown, GoodShot
  <2>2. IsWorld(built.world) /\ IsScript(built.scenes)
    BY <1>6, <1>7 DEF GoodWorld, GoodScript
  <2>3. IsSeq(built.assets) /\ \A a \in ToSet(built.assets) : IsAsset(a)
    BY <1>4 DEF CarriedOver
  <2> QED
    BY <1>5, <1>6, <1>8, <2>1, <2>2, <2>3 DEF IsPackage
<1>11. SoundPackage(built)
  <2>1. SoundWorld(built.world) /\ DistinctIds(built.scenes)
    BY <1>6, <1>7 DEF GoodWorld, GoodScript
  <2>2. \A x \in ToSet(built.shots) :
          /\ x.location \in Ids(built.world.locations)
          /\ ToSet(x.subjects) \subseteq Ids(built.world.characters)
    BY <1>6, <1>9 DEF GoodShot
  <2>3. /\ DistinctIds(built.assets)
        /\ \A a \in ToSet(built.assets) :
             a.type = "image" => a.refs = <<>> /\ a.deps = <<>> /\ a.id[1] \notin NodeNames
    BY <1>4 DEF CarriedOver
  <2>4. \A a \in ToSet(Voiceovers(built)) : a.voice # "none"
    <3>1. PICK narr : Voiceovers(built) = <<narr>> /\ narr.voice # "none"
      BY <1>4 DEF CarriedOver
    <3>2. ToSet(<<narr>>) = {narr}
      BY Single
    <3> QED
      BY <3>1, <3>2
  <2> QED
    BY <1>6, <1>8, <2>1, <2>2, <2>3, <2>4 DEF SoundPackage
<1>12. GoodPackage(built)
  BY <1>10, <1>11 DEF GoodPackage
<1>13. EdgesResolve(built.assets) /\ Acyclic(built.assets)
  BY <1>4 DEF CarriedOver
<1>14. RefsResolve(built)
  BY <1>4 DEF CarriedOver, RefsResolve
<1>15. /\ Len(OfType(built, "video")) = Len(shots)
       /\ \A i \in 1..Len(shots) :
            /\ OfType(built, "video")[i].id = ShotNode(i)
            /\ OfType(built, "video")[i].length = NormalizeDurations(Lengths(shots), story.brief.length)[i]
  BY <1>2, <1>4 DEF MadeFor, CarriedOver
<1>16. Len(shots) <= 1000 => LengthAddsUp(built)
  <2> SUFFICES ASSUME Len(shots) <= 1000 PROVE LengthAddsUp(built)
    OBVIOUS
  <2> DEFINE videos == OfType(built, "video")
             target == story.brief.length
  <2>1. IsSeq(videos)
    BY <1>10, OfTypeIs DEF IsPackage
  <2>2. target \in Int
    BY DEF GoodStory, IsBrief
  <2>3. Len(videos) = Len(shots)
        /\ \A i \in 1..Len(shots) : videos[i].length = NormalizeDurations(Lengths(shots), target)[i]
    BY <1>15
  <2> HIDE DEF videos, target
  <2>4. Reaches(videos, target)
    <3>1. GoodBreakdown(shots, world, sc)
      OBVIOUS
    <3> HIDE DEF world, sc
    <3> QED
      BY <2>1, <2>2, <2>3, <3>1, AddsUp
  <2>5. Reaches(OfType(built, "video"), built.brief.length)
    BY <1>6, <2>4 DEF videos, target
  <2> QED
    BY <2>5 DEF LengthAddsUp, Reaches
<1>17. \E narr : /\ Voiceovers(built) = <<narr>>
                 /\ story.brief.voice # "none" => narr.voice = story.brief.voice
  <2>1. PICK told : Voiceovers(pkg) = <<told>>
    BY <1>2 DEF Assembled
  <2> QED
    BY <1>2, <1>4, <2>1 DEF CarriedOver, MadeFor
<1>18. Built(built, story, shots)
  BY <1>6, <1>12, <1>13, <1>14, <1>15, <1>16, <1>17 DEF Built
<1> QED
  BY <1>18 DEF built
=============================================================================
