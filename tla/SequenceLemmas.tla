--------------------------- MODULE SequenceLemmas ---------------------------
(***************************************************************************)
(* What FlattenSeq of the community modules computes, one sequence at a    *)
(* time, for sequences of any length.  It is defined by a recursive        *)
(* function, whose existence and uniqueness need induction.  No induction  *)
(* theorem with an operator for a parameter is used: an induction is a     *)
(* least counterexample (LeastNatural).                                    *)
(***************************************************************************)
EXTENDS Integers, SequencesExt, SequenceTheorems, WellFoundedInduction, TLAPS

\* A set of numbers that is not empty has a least member.
LEMMA LeastNatural ==
  ASSUME NEW S, S \subseteq Nat, S # {}
  PROVE  \E n \in S : \A m \in S : n <= m
<1> DEFINE Less == {ss \in Nat \X Nat : ss[1] < ss[2]}
<1>1. IsWellFoundedOn(Less, Nat)
  BY NatLessThanWellFounded DEF OpToRel
<1> HIDE DEF Less
<1>2. PICK n \in S : \A m \in S : <<m, n>> \notin Less
  BY <1>1, WFMin
<1>3. ASSUME NEW m \in S PROVE n <= m
  <2>1. m \in Nat /\ n \in Nat /\ <<m, n>> \notin Less
    BY <1>2
  <2>2. <<m, n>> \in Less <=> m < n
    BY <2>1 DEF Less
  <2> QED BY <2>1, <2>2
<1> QED BY <1>3

\* The function that FlattenSeq recurs with, as far as n.
Flattens(f, ss, n) ==
  f = [i \in 1..n |-> IF i = 1 THEN ss[i] ELSE f[i - 1] \o ss[i]]

\* There is one.
LEMMA FlatteningExists == \A ss : \A n \in Nat : \E f : Flattens(f, ss, n)
<1> SUFFICES ASSUME NEW ss PROVE \A n \in Nat : \E f : Flattens(f, ss, n)
  OBVIOUS
<1> DEFINE Bad == {n \in Nat : ~ \E f : Flattens(f, ss, n)}
<1> SUFFICES ASSUME Bad # {} PROVE FALSE
  OBVIOUS
<1>1. PICK n \in Bad : \A m \in Bad : n <= m
  BY LeastNatural
<1>2. n \in Nat
  OBVIOUS
<1>3. CASE n = 0
  <2> DEFINE f == [i \in 1..0 |-> <<>>]
  <2>1. Flattens(f, ss, 0)
    BY DEF Flattens
  <2> QED BY <1>1, <1>3, <2>1
<1>4. CASE n # 0
  <2>1. n - 1 \in Nat /\ n - 1 < n
    BY <1>2, <1>4
  <2>2. n - 1 \notin Bad
    <3> HIDE DEF Bad
    <3> QED BY <1>1, <1>2, <2>1
  <2>3. PICK g : Flattens(g, ss, n - 1)
    BY <2>1, <2>2
  <2> DEFINE f == [i \in 1..n |-> IF i = 1 THEN ss[i] ELSE g[i - 1] \o ss[i]]
  <2>4. ASSUME NEW i \in 1..n, i # 1 PROVE f[i - 1] = g[i - 1]
    <3>1. i - 1 \in 1..(n - 1) /\ i - 1 \in 1..n
      BY <2>1, <2>4
    <3> QED BY <2>3, <3>1 DEF Flattens
  <2>5. Flattens(f, ss, n)
    BY <2>4 DEF Flattens
  <2> QED BY <1>1, <2>5
<1> QED BY <1>3, <1>4

\* Two functions are the same as far as n.
Agree(f, g, n) == \A i \in 1..n : f[i] = g[i]

\* It depends on the sequences up to its place only.
LEMMA FlatteningUnique ==
  ASSUME NEW ss, NEW tt, NEW m \in Nat, NEW n \in Nat, m <= n,
         Agree(ss, tt, m),
         NEW f, NEW g, Flattens(f, ss, m), Flattens(g, tt, n)
  PROVE  Agree(f, g, m)
<1> DEFINE Bad == {i \in 1..m : f[i] # g[i]}
<1> SUFFICES ASSUME Bad # {} PROVE FALSE
  BY DEF Agree
<1>1. Bad \subseteq Nat
  OBVIOUS
<1> HIDE DEF Bad
<1>2. PICK i \in Bad : \A j \in Bad : i <= j
  BY <1>1, LeastNatural
<1>3. i \in 1..m /\ i \in 1..n /\ f[i] # g[i]
  BY DEF Bad
<1>4. CASE i = 1
  BY <1>3, <1>4 DEF Flattens, Agree
<1>5. CASE i # 1
  <2>1. i - 1 \in 1..m /\ i - 1 < i
    BY <1>3, <1>5
  <2>2. i - 1 \notin Bad
    BY <1>1, <1>2, <2>1
  <2>3. f[i - 1] = g[i - 1]
    BY <2>1, <2>2 DEF Bad
  <2>4. f[i] = f[i - 1] \o ss[i] /\ g[i] = g[i - 1] \o tt[i]
    BY <1>3, <1>5 DEF Flattens, Agree
  <2> QED BY <1>3, <2>3, <2>4 DEF Agree
<1> QED BY <1>4, <1>5

\* FlattenSeq is what every such function has at the end.
LEMMA FlattenIs ==
  ASSUME NEW ss, Len(ss) \in Nat \ {0}, NEW f, Flattens(f, ss, Len(ss))
  PROVE  FlattenSeq(ss) = f[Len(ss)]
<1> DEFINE g == CHOOSE h : Flattens(h, ss, Len(ss))
<1>1. Flattens(g, ss, Len(ss))
  BY Zenon
<1>2. FlattenSeq(ss) = g[Len(ss)]
  BY DEF FlattenSeq, Flattens
<1> HIDE DEF g
<1>3. g[Len(ss)] = f[Len(ss)]
  <2>1. Len(ss) \in Nat /\ Len(ss) <= Len(ss) /\ Len(ss) \in 1..Len(ss)
    OBVIOUS
  <2>2. Agree(ss, ss, Len(ss))
    BY DEF Agree
  <2>3. Agree(g, f, Len(ss))
    BY <1>1, <2>1, <2>2, FlatteningUnique
  <2> QED BY <2>1, <2>3 DEF Agree
<1> QED BY <1>2, <1>3

\* No sequences have no elements.
LEMMA FlattenEmpty == FlattenSeq(<<>>) = <<>>
BY DEF FlattenSeq

\* The elements of one more sequence come at the end.
LEMMA FlattenAppend ==
  ASSUME NEW S, NEW ss \in Seq(Seq(S)), NEW s \in Seq(S), FlattenSeq(ss) \in Seq(S)
  PROVE  /\ FlattenSeq(Append(ss, s)) = FlattenSeq(ss) \o s
         /\ FlattenSeq(Append(ss, s)) \in Seq(S)
<1> DEFINE tt == Append(ss, s)
           n  == Len(ss)
<1>1. /\ n \in Nat /\ Len(tt) = n + 1 /\ tt[n + 1] = s
      /\ \A i \in 1..n : ss[i] = tt[i]
  OBVIOUS
<1>2. PICK g : Flattens(g, tt, Len(tt))
  <2>1. Len(tt) \in Nat
    BY <1>1
  <2> HIDE DEF tt
  <2> QED BY <2>1, FlatteningExists
<1>3. FlattenSeq(tt) = g[n + 1]
  <2>1. Len(tt) \in Nat \ {0}
    BY <1>1
  <2> QED BY <1>1, <1>2, <2>1, FlattenIs
<1> HIDE DEF tt, n
<1>4. CASE n = 0
  <2>1. g[n + 1] = s
    BY <1>1, <1>2, <1>4 DEF Flattens
  <2>2. ss = <<>>
    BY <1>4 DEF n
  <2> QED BY <1>3, <2>1, <2>2, FlattenEmpty DEF tt
<1>5. CASE n # 0
  <2>1. g[n + 1] = g[n] \o s
    <3>1. n + 1 \in 1..(n + 1) /\ n + 1 # 1 /\ (n + 1) - 1 = n
      BY <1>1, <1>5
    <3>2. g = [i \in 1..(n + 1) |-> IF i = 1 THEN tt[i] ELSE g[i - 1] \o tt[i]]
      BY <1>1, <1>2 DEF Flattens
    <3>3. g[n + 1] = g[(n + 1) - 1] \o tt[n + 1]
      BY <3>1, <3>2
    <3> QED BY <1>1, <3>1, <3>3
  <2>2. PICK f : Flattens(f, ss, n)
    BY <1>1, FlatteningExists
  <2>3. n <= Len(tt) /\ Len(tt) \in Nat
    BY <1>1
  <2>4. Agree(f, g, n)
    <3>1. Agree(ss, tt, n)
      BY <1>1 DEF Agree
    <3> QED BY <1>1, <1>2, <2>2, <2>3, <3>1, FlatteningUnique
  <2>5. FlattenSeq(ss) = f[n]
    BY <1>1, <1>5, <2>2, FlattenIs DEF n
  <2>6. f[n] = g[n]
    BY <1>1, <1>5, <2>4 DEF Agree
  <2> QED BY <1>3, <2>1, <2>5, <2>6 DEF tt
<1> QED BY <1>1, <1>4, <1>5

-----------------------------------------------------------------------------
(* Prefixes. *)

\* A prefix, element by element.
LEMMA PrefixIs ==
  ASSUME NEW S, NEW s \in Seq(S), NEW t \in Seq(S)
  PROVE  IsPrefix(s, t) <=> Len(s) <= Len(t) /\ \A i \in 1..Len(s) : s[i] = t[i]
<1>1. Len(s) \in Nat /\ Len(t) \in Nat
  OBVIOUS
<1>2. SUFFICES ASSUME Len(s) <= Len(t)
      PROVE SubSeq(s, 1, Len(s)) = SubSeq(t, 1, Len(s)) <=> \A i \in 1..Len(s) : s[i] = t[i]
  BY DEF IsPrefix
<1> DEFINE a == SubSeq(s, 1, Len(s))
           b == SubSeq(t, 1, Len(s))
<1>3. /\ a \in Seq(S) /\ Len(a) = Len(s) /\ \A i \in 1..Len(s) : a[i] = s[i]
      /\ b \in Seq(S) /\ Len(b) = Len(s) /\ \A i \in 1..Len(s) : b[i] = t[i]
  BY <1>1, <1>2
<1> HIDE DEF a, b
<1>4. a = b => \A i \in 1..Len(s) : s[i] = t[i]
  BY <1>3
<1>5. (\A i \in 1..Len(s) : s[i] = t[i]) => a = b
  <2> SUFFICES ASSUME \A i \in 1..Len(s) : s[i] = t[i] PROVE a = b
    OBVIOUS
  <2>1. \A i \in 1..Len(a) : a[i] = b[i]
    BY <1>3
  <2> QED BY <1>3, <2>1, SeqEqual
<1> QED BY <1>4, <1>5 DEF a, b

\* What is appended leaves a prefix a prefix.
LEMMA PrefixOfAppend ==
  ASSUME NEW S, NEW s \in Seq(S), NEW t \in Seq(S), NEW e \in S, IsPrefix(s, t)
  PROVE  IsPrefix(s, Append(t, e)) /\ Len(s) < Len(Append(t, e))
<1>1. /\ Append(t, e) \in Seq(S) /\ Len(Append(t, e)) = Len(t) + 1
      /\ \A i \in 1..Len(t) : Append(t, e)[i] = t[i]
  OBVIOUS
<1>2. Len(s) \in Nat /\ Len(t) \in Nat /\ Len(s) <= Len(t) /\ \A i \in 1..Len(s) : s[i] = t[i]
  BY PrefixIs
<1>3. Len(s) <= Len(Append(t, e)) /\ \A i \in 1..Len(s) : s[i] = Append(t, e)[i]
  BY <1>1, <1>2
<1>4. Len(s) < Len(Append(t, e))
  BY <1>1, <1>2
<1>5. IsPrefix(s, Append(t, e))
  <2> DEFINE u == Append(t, e)
  <2>1. u \in Seq(S) /\ Len(s) <= Len(u) /\ \A i \in 1..Len(s) : s[i] = u[i]
    BY <1>1, <1>3
  <2> HIDE DEF u
  <2>2. IsPrefix(s, u)
    BY <2>1, PrefixIs
  <2> QED BY <2>2 DEF u
<1> QED BY <1>4, <1>5

\* A sequence begins with itself.
LEMMA PrefixOfItself ==
  ASSUME NEW S, NEW s \in Seq(S)
  PROVE  IsPrefix(s, s)
BY DEF IsPrefix

\* Appending to the end of a concatenation.
LEMMA ConcatAppend ==
  ASSUME NEW S, NEW s \in Seq(S), NEW t \in Seq(S), NEW e \in S
  PROVE  s \o Append(t, e) = Append(s \o t, e)
<1>1. Append(t, e) = t \o <<e>> /\ Append(s \o t, e) = (s \o t) \o <<e>>
  BY AppendIsConcat, ConcatProperties
<1>2. <<e>> \in Seq(S)
  OBVIOUS
<1> QED BY <1>1, <1>2, ConcatAssociative
=============================================================================
