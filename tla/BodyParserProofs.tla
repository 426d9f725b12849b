-------------------------- MODULE BodyParserProofs ---------------------------
(***************************************************************************)
(* Proofs about BodyParser, and about the bodies Forms gives it: what is   *)
(* encoded as a url is comes back, and a multipart body is read item by    *)
(* item, for every text, every boundary and every size of the buffer. No   *)
(* theorem on induction is used: where a text is read to its end, the      *)
(* numbers a claim fails for are a set, and have a least member.           *)
(***************************************************************************)
EXTENDS Forms, SequenceTheorems, FiniteSetTheorems, WellFoundedInduction, TLAPS

-----------------------------------------------------------------------------
(* Numbers, and a text cut in two.                                         *)

\* The first n of s, and the others.
First(n, s) == SubSeq(s, 1, n)
From(n, s) == SubSeq(s, n + 1, Len(s))

\* What makes an induction over the length of a text possible: the numbers a
\* claim fails for would have a least one.
LEMMA NatIsWellFounded == IsWellFoundedOn({ss \in Nat \X Nat : ss[1] < ss[2]}, Nat)
BY NatLessThanWellFounded DEF OpToRel

LEMMA LeastOf ==
  ASSUME NEW T \in SUBSET Nat, T # {}
  PROVE  \E x \in T : \A y \in T : x <= y
<1> DEFINE R == {ss \in Nat \X Nat : ss[1] < ss[2]}
<1>1. IsWellFoundedOn(R, Nat)
  BY NatIsWellFounded
<1>2. PICK x \in T : \A y \in T : ~(<<y, x>> \in R)
  <2> HIDE DEF R
  <2> QED BY <1>1, WFMin
<1>3. \A y \in T : x <= y
  <2> SUFFICES ASSUME NEW y \in T, y < x PROVE FALSE
    BY SMT
  <2>1. <<y, x>> \in Nat \X Nat /\ <<y, x>>[1] = y /\ <<y, x>>[2] = x
    OBVIOUS
  <2>2. <<y, x>> \in R
    BY <2>1
  <2> QED BY <1>2, <2>2
<1> QED BY <1>3

LEMMA Inductive ==
  ASSUME NEW T, 0 \in T, \A n \in Nat : n \in T => n + 1 \in T
  PROVE  Nat \subseteq T
<1> SUFFICES ASSUME NEW m \in Nat, m \notin T PROVE FALSE
  OBVIOUS
<1>1. PICK x \in Nat \ T : \A y \in Nat \ T : x <= y
  BY LeastOf
<1>2. x # 0 /\ x - 1 \in Nat /\ x - 1 \in T
  BY <1>1
<1> QED BY <1>1, <1>2

LEMMA FirstFrom ==
  ASSUME NEW S, NEW s \in Seq(S), NEW n \in 0..Len(s)
  PROVE  /\ First(n, s) \in Seq(S) /\ Len(First(n, s)) = n
         /\ \A i \in 1..n : First(n, s)[i] = s[i]
         /\ From(n, s) \in Seq(S) /\ Len(From(n, s)) = Len(s) - n
         /\ \A i \in 1..(Len(s) - n) : From(n, s)[i] = s[n + i]
         /\ First(n, s) \o From(n, s) = s
<1>1. Len(s) \in Nat /\ \A i \in 1..Len(s) : s[i] \in S
  BY LenProperties, ElementOfSeq
<1>2. \A i \in 1..n : s[i] \in S
  BY <1>1
<1>3. /\ SubSeq(s, 1, n) \in Seq(S) /\ Len(SubSeq(s, 1, n)) = IF 1 <= n THEN n - 1 + 1 ELSE 0
      /\ \A i \in 1..(n - 1 + 1) : SubSeq(s, 1, n)[i] = s[1 + i - 1]
  BY <1>1, <1>2, SubSeqProperties
<1>4. \A i \in (n + 1)..Len(s) : s[i] \in S
  BY <1>1
<1>5. /\ SubSeq(s, n + 1, Len(s)) \in Seq(S)
      /\ Len(SubSeq(s, n + 1, Len(s))) = IF n + 1 <= Len(s) THEN Len(s) - (n + 1) + 1 ELSE 0
      /\ \A i \in 1..(Len(s) - (n + 1) + 1) : SubSeq(s, n + 1, Len(s))[i] = s[n + 1 + i - 1]
  BY <1>1, <1>4, SubSeqProperties
<1>6. SubSeq(s, 1, n) \o SubSeq(s, n + 1, Len(s)) = SubSeq(s, 1, Len(s))
  <2>1. 1 \in 1..(Len(s) + 1) /\ n \in (1 - 1)..Len(s) /\ Len(s) \in n..Len(s)
    BY <1>1
  <2> QED BY <2>1, ConcatAdjacentSubSeq
<1>7. SubSeq(s, 1, Len(s)) = s
  BY SubSeqFull
<1>8. /\ First(n, s) \in Seq(S) /\ Len(First(n, s)) = n
      /\ \A i \in 1..n : First(n, s)[i] = s[i]
  BY <1>1, <1>3 DEF First
<1>9. /\ From(n, s) \in Seq(S) /\ Len(From(n, s)) = Len(s) - n
      /\ \A i \in 1..(Len(s) - n) : From(n, s)[i] = s[n + i]
  BY <1>1, <1>5 DEF From
<1>10. First(n, s) \o From(n, s) = s
  BY <1>6, <1>7 DEF First, From
<1> QED BY <1>8, <1>9, <1>10

LEMMA FromEnds ==
  ASSUME NEW S, NEW s \in Seq(S)
  PROVE  /\ First(0, s) = <<>> /\ First(Len(s), s) = s
         /\ From(0, s) = s /\ From(Len(s), s) = <<>>
<1>1. Len(s) \in Nat
  BY LenProperties
<1> QED BY <1>1, SubSeqFull, SubSeqEmpty DEF First, From

LEMMA FromNext ==
  ASSUME NEW S, NEW s \in Seq(S), NEW n \in Nat, n < Len(s)
  PROVE  /\ From(n, s) # <<>> /\ From(n, s)[1] = s[n + 1] /\ s[n + 1] \in S
         /\ Head(From(n, s)) = s[n + 1] /\ Tail(From(n, s)) = From(n + 1, s)
         /\ First(n + 1, s) = Append(First(n, s), s[n + 1])
         /\ From(n, s) = << s[n + 1] >> \o From(n + 1, s)
<1>1. Len(s) \in Nat /\ s[n + 1] \in S
  BY LenProperties, ElementOfSeq
<1>2. /\ From(n, s) \in Seq(S) /\ Len(From(n, s)) = Len(s) - n
      /\ \A i \in 1..(Len(s) - n) : From(n, s)[i] = s[n + i]
      /\ First(n, s) \in Seq(S) /\ Len(First(n, s)) = n
      /\ \A i \in 1..n : First(n, s)[i] = s[i]
  <2>1. n \in 0..Len(s)
    BY <1>1
  <2> QED BY <2>1, FirstFrom
<1>3. /\ From(n + 1, s) \in Seq(S) /\ Len(From(n + 1, s)) = Len(s) - (n + 1)
      /\ \A i \in 1..(Len(s) - (n + 1)) : From(n + 1, s)[i] = s[n + 1 + i]
      /\ First(n + 1, s) \in Seq(S) /\ Len(First(n + 1, s)) = n + 1
      /\ \A i \in 1..(n + 1) : First(n + 1, s)[i] = s[i]
  <2>1. n + 1 \in 0..Len(s)
    BY <1>1
  <2> QED BY <2>1, FirstFrom
<1>4. From(n, s) # <<>> /\ From(n, s)[1] = s[n + 1]
  BY <1>1, <1>2
<1>5. /\ Tail(From(n, s)) \in Seq(S) /\ Len(Tail(From(n, s))) = Len(s) - n - 1
      /\ \A i \in 1..(Len(s) - n - 1) : Tail(From(n, s))[i] = From(n, s)[i + 1]
  BY <1>1, <1>2, <1>4, HeadTailProperties
<1>6. Tail(From(n, s)) = From(n + 1, s)
  <2>1. \A i \in 1..(Len(s) - n - 1) : Tail(From(n, s))[i] = From(n + 1, s)[i]
    BY <1>1, <1>2, <1>3, <1>5
  <2>2. Len(Tail(From(n, s))) = Len(From(n + 1, s))
    BY <1>1, <1>3, <1>5
  <2> QED BY <1>3, <1>5, <2>1, <2>2, SeqEqual
<1>7. Head(From(n, s)) = s[n + 1]
  BY <1>2, <1>4
<1>8. First(n + 1, s) = Append(First(n, s), s[n + 1])
  <2>1. /\ Append(First(n, s), s[n + 1]) \in Seq(S) /\ Len(Append(First(n, s), s[n + 1])) = n + 1
        /\ \A i \in 1..n : Append(First(n, s), s[n + 1])[i] = First(n, s)[i]
        /\ Append(First(n, s), s[n + 1])[n + 1] = s[n + 1]
    BY <1>1, <1>2, AppendProperties
  <2>2. \A i \in 1..(n + 1) : First(n + 1, s)[i] = Append(First(n, s), s[n + 1])[i]
    BY <1>2, <1>3, <2>1
  <2> QED BY <1>3, <2>1, <2>2, SeqEqual
<1>9. From(n, s) = << s[n + 1] >> \o From(n + 1, s)
  <2> DEFINE t == << s[n + 1] >>
  <2>1. t \in Seq(S) /\ Len(t) = 1 /\ t[1] = s[n + 1]
    BY <1>1
  <2> HIDE DEF t
  <2>2. /\ t \o From(n + 1, s) \in Seq(S) /\ Len(t \o From(n + 1, s)) = Len(s) - n
        /\ \A i \in 1..(Len(s) - n) : (t \o From(n + 1, s))[i] = IF i <= 1 THEN t[i] ELSE From(n + 1, s)[i - 1]
    <3>1. /\ t \o From(n + 1, s) \in Seq(S) /\ Len(t \o From(n + 1, s)) = Len(t) + Len(From(n + 1, s))
          /\ \A i \in 1..(Len(t) + Len(From(n + 1, s))) :
               (t \o From(n + 1, s))[i] = IF i <= Len(t) THEN t[i] ELSE From(n + 1, s)[i - Len(t)]
      <4> DEFINE u == From(n + 1, s)
      <4>1. u \in Seq(S)
        BY <1>3
      <4> HIDE DEF u
      <4>2. /\ t \o u \in Seq(S) /\ Len(t \o u) = Len(t) + Len(u)
            /\ \A i \in 1..(Len(t) + Len(u)) : (t \o u)[i] = IF i <= Len(t) THEN t[i] ELSE u[i - Len(t)]
        BY <2>1, <4>1, ConcatProperties
      <4> QED BY <4>2 DEF u
    <3>2. Len(t) + Len(From(n + 1, s)) = Len(s) - n
      BY <1>1, <1>3, <2>1
    <3> QED BY <2>1, <3>1, <3>2
  <2>3. \A i \in 1..(Len(s) - n) : (t \o From(n + 1, s))[i] = From(n, s)[i]
    <3> SUFFICES ASSUME NEW i \in 1..(Len(s) - n) PROVE (t \o From(n + 1, s))[i] = From(n, s)[i]
      OBVIOUS
    <3>1. CASE i = 1
      BY <1>2, <2>1, <2>2, <3>1
    <3>2. CASE i # 1
      <4>1. i - 1 \in 1..(Len(s) - (n + 1)) /\ n + 1 + (i - 1) = n + i
        BY <1>1, <3>2
      <4> QED BY <1>1, <1>2, <1>3, <2>2, <3>2, <4>1, SMTT(30)
    <3> QED BY <3>1, <3>2
  <2>4. t \o From(n + 1, s) = From(n, s)
    BY <1>1, <1>2, <2>2, <2>3, SeqEqual
  <2> QED BY <2>4 DEF t
<1> QED BY <1>1, <1>4, <1>6, <1>7, <1>8, <1>9

\* The first byte of what is still to come.
LEMMA Peel ==
  ASSUME NEW S, NEW s \in Seq(S), NEW t \in Seq(S), s # <<>>
  PROVE  /\ s \o t # <<>> /\ (s \o t)[1] = s[1] /\ s[1] \in S
         /\ Tail(s \o t) = Tail(s) \o t /\ Tail(s) \in Seq(S) /\ Len(Tail(s)) = Len(s) - 1
<1>1. Len(s) \in Nat /\ Len(s) > 0 /\ Len(t) \in Nat
  BY LenProperties, EmptySeq
<1>2. /\ s \o t \in Seq(S) /\ Len(s \o t) = Len(s) + Len(t)
      /\ \A i \in 1..(Len(s) + Len(t)) : (s \o t)[i] = IF i <= Len(s) THEN s[i] ELSE t[i - Len(s)]
  BY ConcatProperties
<1>3. s \o t # <<>> /\ (s \o t)[1] = s[1] /\ s[1] \in S
  BY <1>1, <1>2, EmptySeq, ElementOfSeq
<1>4. /\ Tail(s) \in Seq(S) /\ Len(Tail(s)) = Len(s) - 1
      /\ \A i \in 1..Len(Tail(s)) : Tail(s)[i] = s[i + 1]
  BY HeadTailProperties
<1>5. /\ Tail(s \o t) \in Seq(S) /\ Len(Tail(s \o t)) = Len(s \o t) - 1
      /\ \A i \in 1..Len(Tail(s \o t)) : Tail(s \o t)[i] = (s \o t)[i + 1]
  BY <1>2, <1>3, HeadTailProperties
<1>6. /\ Tail(s) \o t \in Seq(S) /\ Len(Tail(s) \o t) = Len(s) - 1 + Len(t)
      /\ \A i \in 1..(Len(s) - 1 + Len(t)) :
           (Tail(s) \o t)[i] = IF i <= Len(s) - 1 THEN Tail(s)[i] ELSE t[i - (Len(s) - 1)]
  BY <1>1, <1>4, ConcatProperties
<1>7. \A i \in 1..(Len(s) - 1 + Len(t)) : Tail(s \o t)[i] = (Tail(s) \o t)[i]
  <2> SUFFICES ASSUME NEW i \in 1..(Len(s) - 1 + Len(t)) PROVE Tail(s \o t)[i] = (Tail(s) \o t)[i]
    OBVIOUS
  <2>1. i + 1 \in 1..(Len(s) + Len(t)) /\ i \in 1..Len(Tail(s \o t)) /\ i + 1 - Len(s) = i - (Len(s) - 1)
    BY <1>1, <1>2, <1>5
  <2>2. Tail(s \o t)[i] = IF i + 1 <= Len(s) THEN s[i + 1] ELSE t[i - (Len(s) - 1)]
    BY <1>2, <1>5, <2>1
  <2>3. CASE i <= Len(s) - 1
    BY <1>1, <1>4, <1>6, <2>2, <2>3
  <2>4. CASE ~(i <= Len(s) - 1)
    BY <1>1, <1>6, <2>2, <2>4
  <2> QED BY <2>3, <2>4
<1>8. Tail(s \o t) = Tail(s) \o t
  <2>1. Len(Tail(s \o t)) = Len(Tail(s) \o t)
    BY <1>1, <1>2, <1>5, <1>6
  <2> QED BY <1>1, <1>5, <1>6, <1>7, <2>1, SeqEqual
<1> QED BY <1>3, <1>4, <1>8

LEMMA FirstOfConcat ==
  ASSUME NEW S, NEW s \in Seq(S), NEW t \in Seq(S)
  PROVE  First(Len(s), s \o t) = s /\ From(Len(s), s \o t) = t
<1>1. Len(s) \in Nat /\ Len(t) \in Nat
  BY LenProperties
<1>2. /\ s \o t \in Seq(S) /\ Len(s \o t) = Len(s) + Len(t)
      /\ \A i \in 1..(Len(s) + Len(t)) : (s \o t)[i] = IF i <= Len(s) THEN s[i] ELSE t[i - Len(s)]
  BY ConcatProperties
<1>3. Len(s) \in 0..Len(s \o t) /\ Len(s \o t) - Len(s) = Len(t)
  BY <1>1, <1>2
<1>4. /\ First(Len(s), s \o t) \in Seq(S) /\ Len(First(Len(s), s \o t)) = Len(s)
      /\ \A i \in 1..Len(s) : First(Len(s), s \o t)[i] = (s \o t)[i]
      /\ From(Len(s), s \o t) \in Seq(S) /\ Len(From(Len(s), s \o t)) = Len(t)
      /\ \A i \in 1..Len(t) : From(Len(s), s \o t)[i] = (s \o t)[Len(s) + i]
  <2> DEFINE u == s \o t
      m == Len(s)
  <2>1. u \in Seq(S) /\ m \in 0..Len(u) /\ Len(u) - m = Len(t)
    BY <1>2, <1>3
  <2> HIDE DEF u, m
  <2>2. /\ First(m, u) \in Seq(S) /\ Len(First(m, u)) = m
        /\ \A i \in 1..m : First(m, u)[i] = u[i]
        /\ From(m, u) \in Seq(S) /\ Len(From(m, u)) = Len(u) - m
        /\ \A i \in 1..(Len(u) - m) : From(m, u)[i] = u[m + i]
    BY <2>1, FirstFrom
  <2> QED BY <2>1, <2>2 DEF u, m
<1>5. \A i \in 1..Len(s) : First(Len(s), s \o t)[i] = s[i]
  BY <1>1, <1>2, <1>4
<1>6. \A i \in 1..Len(t) : From(Len(s), s \o t)[i] = t[i]
  <2> SUFFICES ASSUME NEW i \in 1..Len(t) PROVE From(Len(s), s \o t)[i] = t[i]
    OBVIOUS
  <2>1. Len(s) + i \in 1..(Len(s) + Len(t)) /\ ~(Len(s) + i <= Len(s)) /\ Len(s) + i - Len(s) = i
    BY <1>1
  <2> QED BY <1>2, <1>4, <2>1
<1> QED BY <1>4, <1>5, <1>6, SeqEqual

-----------------------------------------------------------------------------
(* Sequences of sequences, and where something is first.                   *)

LEMMA Regroup ==
  ASSUME NEW S, NEW s \in Seq(S), NEW t \in Seq(S), NEW u \in Seq(S)
  PROVE  (s \o t) \o u = s \o (t \o u)
BY ConcatAssociative

\* FlattenSeq is what grows by one sequence at a time.
LEMMA FlattenBy ==
  ASSUME NEW S, NEW ss \in Seq(Seq(S)), NEW g,
         \A i \in 0..Len(ss) : g[i] \in Seq(S),
         g[0] = <<>>, \A i \in 1..Len(ss) : g[i] = g[i - 1] \o ss[i]
  PROVE  FlattenSeq(ss) = g[Len(ss)]
<1> DEFINE n == Len(ss)
      Is(f) == f = [i \in 1..n |-> IF i = 1 THEN ss[i] ELSE f[i - 1] \o ss[i]]
      w == [i \in 1..n |-> g[i]]
      f0 == CHOOSE f : Is(f)
<1>1. n \in Nat /\ \A i \in 1..n : ss[i] \in Seq(S)
  BY LenProperties, ElementOfSeq
<1>4. (\A i \in 0..n : g[i] \in Seq(S)) /\ (\A i \in 1..n : g[i] = g[i - 1] \o ss[i])
  OBVIOUS
<1>2. CASE n = 0
  BY <1>2, EmptySeq DEF FlattenSeq
<1> HIDE DEF n
<1>3. CASE n # 0
  <2>1. Is(w)
    <3>1. 1 \in 1..n => g[1] = ss[1]
      <4> HAVE 1 \in 1..n
      <4>1. g[1] = g[1 - 1] \o ss[1]
        BY <1>4
      <4>2. 1 - 1 = 0
        OBVIOUS
      <4>3. ss[1] \in Seq(S)
        BY <1>1
      <4>4. g[1] = <<>> \o ss[1]
        BY <4>1, <4>2
      <4> QED BY <4>3, <4>4, ConcatEmptySeq
    <3>2. ASSUME NEW i \in 1..n PROVE w[i] = IF i = 1 THEN ss[i] ELSE w[i - 1] \o ss[i]
      <4>1. CASE i = 1
        BY <3>1, <4>1
      <4>2. CASE i # 1
        <5>1. i - 1 \in 1..n
          BY <1>1, <4>2
        <5>2. w[i] = g[i] /\ w[i - 1] = g[i - 1]
          BY <5>1
        <5>3. g[i] = g[i - 1] \o ss[i]
          BY <1>4
        <5> QED BY <4>2, <5>2, <5>3
      <4> QED BY <4>1, <4>2
    <3> QED BY <3>2
  <2>2. Is(f0)
    <3> HIDE DEF Is, w
    <3> QED BY <2>1
  <2>3. FlattenSeq(ss) = f0[n]
    BY <1>3 DEF FlattenSeq, n
  <2> DEFINE T == {i \in Nat : i + 1 \in 1..n => f0[i + 1] = g[i + 1]}
  <2> HIDE DEF f0
  <2>4. 0 \in T
    <3> SUFFICES ASSUME 0 + 1 \in 1..n PROVE f0[0 + 1] = g[0 + 1]
      OBVIOUS
    <3>0. 1 \in 1..n
      OBVIOUS
    <3>1. f0[1] = ss[1]
      BY <2>2, <3>0
    <3>2. w[1] = ss[1]
      <4> HIDE DEF w
      <4> QED BY <2>1, <3>0
    <3>3. w[1] = g[1]
      BY <3>0
    <3> QED BY <3>1, <3>2, <3>3
  <2>5. ASSUME NEW i \in Nat, i \in T PROVE i + 1 \in T
    <3> SUFFICES ASSUME i + 1 + 1 \in 1..n PROVE f0[i + 1 + 1] = g[i + 1 + 1]
      OBVIOUS
    <3>1. i + 1 \in 1..n /\ f0[i + 1] = g[i + 1]
      BY <1>1, <2>5
    <3> DEFINE j == i + 1 + 1
    <3>4. j \in 1..n /\ j # 1 /\ j - 1 = i + 1
      BY <1>1
    <3> HIDE DEF j
    <3>2. f0[j] = f0[j - 1] \o ss[j]
      BY <2>2, <3>4
    <3>3. g[j] = g[j - 1] \o ss[j]
      BY <1>4, <3>4
    <3>5. f0[j] = g[j]
      BY <3>1, <3>2, <3>3, <3>4
    <3> QED BY <3>5 DEF j
  <2>6. n - 1 \in T /\ n - 1 + 1 = n
    <3> HIDE DEF T
    <3>1. Nat \subseteq T
      BY <2>4, <2>5, Inductive
    <3> QED BY <1>1, <1>3, <3>1
  <2>7. n - 1 + 1 \in 1..n
    BY <1>1, <1>3
  <2>8. f0[n - 1 + 1] = g[n - 1 + 1]
    BY <2>6, <2>7
  <2>9. f0[n] = g[n]
    BY <2>6, <2>8
  <2> QED BY <2>3, <2>9 DEF n
<1> QED BY <1>2, <1>3 DEF n

LEMMA FlattenFun ==
  ASSUME NEW S, NEW ss \in Seq(Seq(S))
  PROVE  \E g : /\ \A i \in 0..Len(ss) : g[i] \in Seq(S)
                /\ g[0] = <<>> /\ \A i \in 1..Len(ss) : g[i] = g[i - 1] \o ss[i]
                /\ FlattenSeq(ss) = g[Len(ss)]
<1> DEFINE n == Len(ss)
      Upto(g, m) == /\ \A i \in 0..m : g[i] \in Seq(S)
                    /\ g[0] = <<>> /\ \A i \in 1..m : g[i] = g[i - 1] \o ss[i]
      T == {m \in Nat : m <= n => \E g : Upto(g, m)}
<1>1. n \in Nat /\ \A i \in 1..n : ss[i] \in Seq(S)
  BY LenProperties, ElementOfSeq
<1> HIDE DEF n
<1>2. 0 \in T
  <2> DEFINE g == [i \in 0..0 |-> <<>>]
  <2>1. Upto(g, 0)
    BY EmptySeq
  <2> QED BY <2>1
<1>3. ASSUME NEW m \in Nat, m \in T PROVE m + 1 \in T
  <2>0. m + 1 \in Nat
    OBVIOUS
  <2> SUFFICES ASSUME m + 1 <= n PROVE \E h : Upto(h, m + 1)
    <3> HIDE DEF Upto
    <3> QED BY <2>0
  <2>1. PICK g : Upto(g, m)
    <3>1. m <= n
      BY <1>1
    <3> HIDE DEF Upto
    <3> QED BY <1>3, <3>1
  <2> DEFINE h == [i \in 0..(m + 1) |-> IF i = m + 1 THEN g[m] \o ss[m + 1] ELSE g[i]]
  <2>2. g[m] \in Seq(S) /\ ss[m + 1] \in Seq(S)
    BY <1>1, <2>1
  <2>3. g[m] \o ss[m + 1] \in Seq(S)
    BY <2>2, ConcatProperties
  <2>4. \A i \in 0..(m + 1) : h[i] \in Seq(S)
    BY <2>1, <2>3
  <2>5. h[0] = <<>>
    BY <2>1
  <2>6. ASSUME NEW i \in 1..(m + 1) PROVE h[i] = h[i - 1] \o ss[i]
    <3>1. CASE i = m + 1
      <4>1. i \in 0..(m + 1) /\ m \in 0..(m + 1) /\ i - 1 = m /\ m # m + 1
        BY <3>1
      <4>2. h[i] = g[m] \o ss[i]
        BY <3>1, <4>1
      <4>3. h[m] = g[m]
        BY <4>1
      <4> HIDE DEF h
      <4> QED BY <4>1, <4>2, <4>3
    <3>2. CASE i # m + 1
      <4>1. i \in 1..m /\ h[i] = g[i] /\ h[i - 1] = g[i - 1]
        BY <3>2
      <4> QED BY <2>1, <4>1
    <3> QED BY <3>1, <3>2
  <2> QED BY <2>4, <2>5, <2>6
<1>4. PICK g : Upto(g, n)
  <2> HIDE DEF Upto
  <2>1. Nat \subseteq T
    <3> HIDE DEF T
    <3> QED BY <1>2, <1>3, Inductive
  <2> QED BY <1>1, <2>1
<1>5. FlattenSeq(ss) = g[n]
  BY <1>4, FlattenBy DEF n
<1> QED BY <1>4, <1>5 DEF n

LEMMA FlattenType ==
  ASSUME NEW S, NEW ss \in Seq(Seq(S))
  PROVE  FlattenSeq(ss) \in Seq(S)
<1>1. Len(ss) \in Nat
  BY LenProperties
<1>2. PICK g : (\A i \in 0..Len(ss) : g[i] \in Seq(S)) /\ FlattenSeq(ss) = g[Len(ss)]
  BY FlattenFun
<1> QED BY <1>1, <1>2

LEMMA FlattenEmpty == FlattenSeq(<<>>) = <<>>
BY DEF FlattenSeq

LEMMA FlattenConcat ==
  ASSUME NEW S, NEW ss \in Seq(Seq(S)), NEW tt \in Seq(Seq(S))
  PROVE  FlattenSeq(ss \o tt) = FlattenSeq(ss) \o FlattenSeq(tt)
<1> DEFINE n == Len(ss)
      m == Len(tt)
      u == ss \o tt
      F == FlattenSeq(ss)
<1>1. n \in Nat /\ m \in Nat /\ (\A i \in 1..n : ss[i] \in Seq(S)) /\ (\A i \in 1..m : tt[i] \in Seq(S))
  BY LenProperties, ElementOfSeq
<1>2. /\ u \in Seq(Seq(S)) /\ Len(u) = n + m
      /\ \A i \in 1..(n + m) : u[i] = IF i <= n THEN ss[i] ELSE tt[i - n]
  BY ConcatProperties
<1>3. PICK g : /\ \A i \in 0..n : g[i] \in Seq(S)
               /\ g[0] = <<>> /\ \A i \in 1..n : g[i] = g[i - 1] \o ss[i]
               /\ F = g[n]
  BY FlattenFun
<1>4. PICK h : /\ \A i \in 0..m : h[i] \in Seq(S)
               /\ h[0] = <<>> /\ \A i \in 1..m : h[i] = h[i - 1] \o tt[i]
               /\ FlattenSeq(tt) = h[m]
  BY FlattenFun
<1>5. F \in Seq(S) /\ F \o <<>> = F
  <2>1. F \in Seq(S)
    BY FlattenType
  <2> QED BY <2>1, ConcatEmptySeq
<1> HIDE DEF F
<1>0. \A x \in Seq(S), y \in Seq(S) : (F \o x) \o y = F \o (x \o y)
  BY <1>5, Regroup
<1> DEFINE k == [i \in 0..(n + m) |-> IF i <= n THEN g[i] ELSE F \o h[i - n]]
<1> HIDE DEF n, m, u, F
<1>6. ASSUME NEW i \in 0..(n + m) PROVE k[i] \in Seq(S)
  <2>1. CASE i <= n
    BY <1>1, <1>3, <2>1
  <2>2. CASE ~(i <= n)
    <3>1. h[i - n] \in Seq(S)
      BY <1>1, <1>4, <2>2
    <3>2. F \o h[i - n] \in Seq(S)
      BY <1>5, <3>1, ConcatProperties
    <3> QED BY <2>2, <3>2
  <2> QED BY <2>1, <2>2
<1>7. k[0] = <<>>
  BY <1>1, <1>3
<1>8. ASSUME NEW i \in 1..(n + m) PROVE k[i] = k[i - 1] \o u[i]
  <2> DEFINE j == i - n
  <2>0. i \in 0..(n + m) /\ i - 1 \in 0..(n + m)
    BY <1>1
  <2>1. CASE i <= n
    <3>1. k[i] = g[i] /\ k[i - 1] = g[i - 1] /\ i \in 1..n
      BY <1>1, <2>0, <2>1
    <3>2. u[i] = ss[i]
      BY <1>2, <2>1
    <3>3. g[i] = g[i - 1] \o ss[i]
      BY <1>3, <3>1
    <3> QED BY <3>1, <3>2, <3>3
  <2>2. CASE i = n + 1
    <3>1. 1 \in 1..m /\ i - n = 1 /\ ~(i <= n) /\ i - 1 = n /\ n <= n
      BY <1>1, <2>2
    <3>2. k[i] = F \o h[1] /\ k[i - 1] = g[n]
      BY <2>0, <3>1
    <3>3. u[i] = tt[1]
      BY <1>2, <3>1
    <3>4. h[1] = h[1 - 1] \o tt[1] /\ tt[1] \in Seq(S)
      <4>1. 1 \in 1..m
        BY <3>1
      <4>2. h[1] = h[1 - 1] \o tt[1]
        BY <1>4, <4>1
      <4> QED BY <1>1, <4>1, <4>2
    <3>5. h[1] = <<>> \o tt[1]
      <4>1. 1 - 1 = 0
        OBVIOUS
      <4> QED BY <1>4, <3>4, <4>1
    <3>6. h[1] = tt[1]
      BY <3>4, <3>5, ConcatEmptySeq
    <3> QED BY <1>3, <3>2, <3>3, <3>6
  <2>3. CASE i > n + 1
    <3>1. j \in 1..m /\ j - 1 \in 0..m /\ ~(i <= n) /\ ~(i - 1 <= n) /\ i - 1 - n = j - 1
      BY <1>1, <2>3
    <3>2. k[i] = F \o h[j] /\ k[i - 1] = F \o h[j - 1]
      BY <2>0, <3>1
    <3>3. u[i] = tt[j]
      BY <1>2, <3>1
    <3> HIDE DEF j
    <3>4. h[j] = h[j - 1] \o tt[j] /\ h[j - 1] \in Seq(S) /\ tt[j] \in Seq(S)
      BY <1>1, <1>4, <3>1
    <3>5. (F \o h[j - 1]) \o tt[j] = F \o (h[j - 1] \o tt[j])
      BY <1>0, <3>4
    <3> HIDE DEF k
    <3> QED BY <3>2, <3>3, <3>4, <3>5
  <2>4. i <= n \/ i = n + 1 \/ i > n + 1
    BY <1>1
  <2> QED BY <2>1, <2>2, <2>3, <2>4
<1>9. FlattenSeq(u) = k[n + m]
  <2> HIDE DEF k
  <2> QED BY <1>2, <1>6, <1>7, <1>8, FlattenBy
<1>10. k[n + m] = F \o h[m]
  <2>1. CASE m = 0
    <3>1. k[n + m] = g[n] /\ h[m] = <<>>
      BY <1>1, <1>4, <2>1
    <3> QED BY <1>3, <1>5, <3>1
  <2>2. CASE m # 0
    BY <1>1, <2>2
  <2> QED BY <2>1, <2>2
<1> QED BY <1>4, <1>9, <1>10 DEF u, F

LEMMA FlattenOne ==
  ASSUME NEW S, NEW s \in Seq(S)
  PROVE  FlattenSeq(<< s >>) = s
<1> DEFINE ss == << s >>
      g == [i \in 0..1 |-> IF i = 0 THEN <<>> ELSE s]
<1>1. ss \in Seq(Seq(S)) /\ Len(ss) = 1 /\ ss[1] = s
  OBVIOUS
<1>2. <<>> \o s = s
  BY ConcatEmptySeq
<1> HIDE DEF ss
<1>3. \A i \in 0..Len(ss) : g[i] \in Seq(S)
  BY <1>1, EmptySeq
<1>4. g[0] = <<>> /\ \A i \in 1..Len(ss) : g[i] = g[i - 1] \o ss[i]
  BY <1>1, <1>2
<1>5. FlattenSeq(ss) = g[1]
  <2> HIDE DEF g
  <2> QED BY <1>1, <1>3, <1>4, FlattenBy
<1> QED BY <1>5 DEF ss

\* The pieces before one, that one, and those after it.
LEMMA FlattenAt ==
  ASSUME NEW S, NEW ss \in Seq(Seq(S)), NEW i \in 1..Len(ss)
  PROVE  /\ FlattenSeq(From(i - 1, ss)) = ss[i] \o FlattenSeq(From(i, ss))
         /\ FlattenSeq(First(i, ss)) = FlattenSeq(First(i - 1, ss)) \o ss[i]
         /\ FlattenSeq(ss) = FlattenSeq(First(i - 1, ss)) \o (ss[i] \o FlattenSeq(From(i, ss)))
         /\ FlattenSeq(From(i, ss)) \in Seq(S) /\ FlattenSeq(From(i - 1, ss)) \in Seq(S)
         /\ FlattenSeq(First(i - 1, ss)) \in Seq(S) /\ ss[i] \in Seq(S)
<1>1. Len(ss) \in Nat /\ ss[i] \in Seq(S) /\ i - 1 \in 0..Len(ss) /\ i \in 0..Len(ss)
      /\ i - 1 \in Nat /\ i - 1 < Len(ss) /\ i - 1 + 1 = i
  BY LenProperties, ElementOfSeq
<1> DEFINE a == First(i - 1, ss)
      b == From(i, ss)
      c == From(i - 1, ss)
      o == << ss[i] >>
<1>2. a \in Seq(Seq(S)) /\ c \in Seq(Seq(S)) /\ a \o c = ss
  BY <1>1, FirstFrom
<1>3. b \in Seq(Seq(S))
  BY <1>1, FirstFrom
<1>4. c = o \o b /\ First(i, ss) = Append(a, ss[i])
  <2>1. From(i - 1, ss) = << ss[i - 1 + 1] >> \o From(i - 1 + 1, ss)
        /\ First(i - 1 + 1, ss) = Append(First(i - 1, ss), ss[i - 1 + 1])
    BY <1>1, FromNext
  <2> QED BY <1>1, <2>1
<1>5. First(i, ss) = a \o o
  BY <1>1, <1>2, <1>4, AppendIsConcat
<1>6. o \in Seq(Seq(S)) /\ FlattenSeq(o) = ss[i]
  BY <1>1, FlattenOne
<1> HIDE DEF a, b, c, o
<1>7. FlattenSeq(c) = ss[i] \o FlattenSeq(b)
  BY <1>3, <1>4, <1>6, FlattenConcat
<1>8. FlattenSeq(First(i, ss)) = FlattenSeq(a) \o ss[i]
  BY <1>2, <1>5, <1>6, FlattenConcat
<1>9. FlattenSeq(ss) = FlattenSeq(a) \o FlattenSeq(c)
  BY <1>2, FlattenConcat
<1>10. FlattenSeq(a) \in Seq(S) /\ FlattenSeq(b) \in Seq(S) /\ FlattenSeq(c) \in Seq(S)
  BY <1>2, <1>3, FlattenType
<1> QED BY <1>1, <1>7, <1>8, <1>9, <1>10 DEF a, b, c

LEMMA IndexOfType ==
  ASSUME NEW S, NEW text \in Seq(S), NEW c
  PROVE  /\ IndexOf(text, c) \in 1..(Len(text) + 1)
         /\ \A j \in 1..(IndexOf(text, c) - 1) : text[j] # c
         /\ IndexOf(text, c) <= Len(text) => text[IndexOf(text, c)] = c
<1> DEFINE at == {i \in DOMAIN text : text[i] = c}
      n == IndexOf(text, c)
<1>1. Len(text) \in Nat /\ DOMAIN text = 1..Len(text)
  BY LenProperties
<1>2. CASE at = {}
  <2>1. n = Len(text) + 1
    BY <1>2 DEF IndexOf
  <2> QED BY <1>1, <1>2, <2>1
<1>3. CASE at # {}
  <2>1. at \in SUBSET Nat
    BY <1>1
  <2>2. \E i \in at : \A j \in at : i <= j
    <3> HIDE DEF at
    <3> QED BY <1>3, <2>1, LeastOf
  <2>3. n = CHOOSE i \in at : \A j \in at : i <= j
    BY <1>3 DEF IndexOf
  <2>4. n \in at /\ \A j \in at : n <= j
    <3> HIDE DEF at, n
    <3> QED BY <2>2, <2>3
  <2> HIDE DEF n
  <2>5. n \in 1..Len(text) /\ text[n] = c
    BY <1>1, <2>4
  <2>6. \A j \in 1..(n - 1) : text[j] # c
    <3> SUFFICES ASSUME NEW j \in 1..(n - 1), text[j] = c PROVE FALSE
      OBVIOUS
    <3>1. j \in at
      BY <1>1, <2>5
    <3> HIDE DEF at
    <3> QED BY <2>4, <2>5, <3>1
  <2> QED BY <1>1, <2>5, <2>6 DEF n
<1> QED BY <1>2, <1>3

LEMMA IndexOfIs ==
  ASSUME NEW S, NEW text \in Seq(S), NEW c, NEW n \in 1..(Len(text) + 1),
         n <= Len(text) => text[n] = c, \A j \in 1..(n - 1) : text[j] # c
  PROVE  IndexOf(text, c) = n
<1> DEFINE k == IndexOf(text, c)
<1>1. Len(text) \in Nat
  BY LenProperties
<1>2. /\ k \in 1..(Len(text) + 1) /\ \A j \in 1..(k - 1) : text[j] # c
      /\ k <= Len(text) => text[k] = c
  BY IndexOfType
<1> HIDE DEF k
<1>3. ~(k < n) /\ ~(n < k)
  BY <1>1, <1>2
<1>4. k = n
  BY <1>1, <1>2, <1>3
<1> QED BY <1>4 DEF k

\* What stands before the first c, and what after it.
LEMMA IndexOfConcat ==
  ASSUME NEW S, NEW c \in S, NEW s \in Seq(S \ {c}), NEW t \in Seq(S)
  PROVE  /\ IndexOf(s, c) = Len(s) + 1
         /\ IndexOf(s \o (<< c >> \o t), c) = Len(s) + 1
         /\ SubSeq(s \o (<< c >> \o t), 1, Len(s)) = s
         /\ SubSeq(s \o (<< c >> \o t), Len(s) + 2, Len(s \o (<< c >> \o t))) = t
         /\ Len(s \o (<< c >> \o t)) = Len(s) + 1 + Len(t)
<1> DEFINE o == << c >>
      ct == o \o t
      u == s \o ct
      so == s \o o
<1>1. Len(s) \in Nat /\ Len(t) \in Nat /\ s \in Seq(S) /\ (\A i \in 1..Len(s) : s[i] # c)
  <2>1. s \in Seq(S)
    BY SeqMonotonic, S \ {c} \subseteq S
  <2> QED BY <2>1, LenProperties, ElementOfSeq
<1>2. IndexOf(s, c) = Len(s) + 1
  BY <1>1, IndexOfIs
<1>3. o \in Seq(S) /\ Len(o) = 1 /\ o[1] = c
  OBVIOUS
<1> HIDE DEF o
<1>4. ct \in Seq(S) /\ Len(ct) = 1 + Len(t) /\ ct[1] = c
  <2>1. /\ ct \in Seq(S) /\ Len(ct) = Len(o) + Len(t)
        /\ \A i \in 1..(Len(o) + Len(t)) : ct[i] = IF i <= Len(o) THEN o[i] ELSE t[i - Len(o)]
    BY <1>3, ConcatProperties
  <2> QED BY <1>1, <1>3, <2>1
<1> HIDE DEF ct
<1>5. /\ u \in Seq(S) /\ Len(u) = Len(s) + Len(ct)
      /\ \A i \in 1..(Len(s) + Len(ct)) : u[i] = IF i <= Len(s) THEN s[i] ELSE ct[i - Len(s)]
  BY <1>1, <1>4, ConcatProperties
<1>6. First(Len(s), u) = s
  BY <1>1, <1>4, FirstOfConcat
<1>7. so \in Seq(S) /\ Len(so) = Len(s) + 1 /\ so \o t = u
  <2>1. so \in Seq(S) /\ Len(so) = Len(s) + Len(o)
    BY <1>1, <1>3, ConcatProperties
  <2>2. so \o t = s \o (o \o t)
    <3>1. s \in Seq(S) /\ o \in Seq(S) /\ t \in Seq(S)
      BY <1>1, <1>3
    <3> QED BY <3>1, Regroup
  <2> QED BY <1>3, <2>1, <2>2 DEF ct
<1> HIDE DEF u, so
<1>8. From(Len(so), u) = t
  BY <1>7, FirstOfConcat
<1>9. IndexOf(u, c) = Len(s) + 1
  <2> DEFINE n == Len(s) + 1
  <2>0. n \in 1..(Len(s) + Len(ct)) /\ ~(n <= Len(s)) /\ n - Len(s) = 1
    BY <1>1, <1>4
  <2>1. n \in 1..(Len(u) + 1) /\ u[n] = c
    <3>1. n \in 1..(Len(u) + 1)
      BY <1>5, <2>0
    <3>2. u[n] = ct[n - Len(s)]
      <4> HIDE DEF n
      <4> QED BY <1>5, <2>0
    <3> QED BY <1>4, <2>0, <3>1, <3>2
  <2>2. ASSUME NEW j \in 1..(Len(s) + 1 - 1) PROVE u[j] # c
    <3>1. j \in 1..Len(s) /\ j \in 1..(Len(s) + Len(ct)) /\ j <= Len(s)
      BY <1>1, <1>4
    <3> QED BY <1>1, <1>5, <3>1
  <2>3. \A j \in 1..(n - 1) : u[j] # c
    BY <2>2
  <2> HIDE DEF n
  <2>4. IndexOf(u, c) = n
    <3>1. u \in Seq(S) /\ n \in 1..(Len(u) + 1) /\ (n <= Len(u) => u[n] = c) /\ \A j \in 1..(n - 1) : u[j] # c
      BY <1>5, <2>1, <2>3
    <3> QED BY <3>1, IndexOfIs, Zenon
  <2> QED BY <2>4 DEF n
<1>10. Len(u) = Len(s) + 1 + Len(t)
  BY <1>1, <1>4, <1>5
<1>11. SubSeq(u, 1, Len(s)) = s
  BY <1>6 DEF First
<1>12. SubSeq(u, Len(s) + 2, Len(u)) = t
  <2>1. Len(so) + 1 = Len(s) + 2
    BY <1>1, <1>7
  <2> QED BY <1>8, <2>1 DEF From
<1> QED BY <1>2, <1>9, <1>10, <1>11, <1>12 DEF u, ct, o

-----------------------------------------------------------------------------
(* Texts, and what the browser makes of them.                              *)

\* The provers do not know that a string is a member of STRING.
Literals == {"%", "&", "=", "+", Space, "#", Quote, Backslash, "2", "3", "5", "6", "D", "B", "0", "C", "other",
             "-", "\r", "\n", "Content-Type", ".", "parameters", "logger", "k", "w", "dhcp", "static", "pool", "body"}
AllKeys == UNION {ToSet(FormKeys[f]) : f \in DOMAIN FormKeys}
Char == STRING \union Literals \union AllKeys \union {FileNames[x] : x \in DOMAIN FileNames}
        \union {Escapes[x] : x \in DOMAIN Escapes}

LEMMA CharHas ==
  /\ STRING \subseteq Char /\ Literals \subseteq Char /\ AllKeys \subseteq Char
  /\ \A x \in DOMAIN FileNames : FileNames[x] \in Char
  /\ \A x \in DOMAIN Escapes : Escapes[x] \in Char
BY DEF Char

LEMMA TextOf == ASSUME NEW text \in Seq(STRING) PROVE text \in Seq(Char)
BY SeqMonotonic, CharHas

LEMMA SingleType ==
  ASSUME NEW S, NEW a \in S
  PROVE  << a >> \in Seq(S) /\ Len(<< a >>) = 1 /\ << a >>[1] = a /\ << a >> # <<>>
OBVIOUS

LEMMA SeqIs ==
  ASSUME NEW S, NEW n \in Nat, NEW s, s = [i \in 1..n |-> s[i]], \A i \in 1..n : s[i] \in S
  PROVE  s \in Seq(S) /\ Len(s) = n
OBVIOUS

LEMMA TripleType == ASSUME NEW S, NEW a \in S, NEW b \in S, NEW c \in S PROVE <<a, b, c>> \in Seq(S)
OBVIOUS

LEMMA PairIs == \A x, y : <<x, y>>[1] = x /\ <<x, y>>[2] = y
OBVIOUS

LEMMA Second == ASSUME NEW x, NEW y, NEW p, p = <<x, y>> PROVE p[2] = y
OBVIOUS

LEMMA TripleIs ==
  ASSUME NEW S, NEW a \in S, NEW b \in S, NEW c \in S
  PROVE  << a >> \o <<b, c>> = <<a, b, c>>
<1> DEFINE x == << a >>
      y == <<b, c>>
      z == <<a, b, c>>
<1>1. /\ x \in Seq(S) /\ y \in Seq(S) /\ z \in Seq(S) /\ Len(x) = 1 /\ Len(y) = 2 /\ Len(z) = 3
      /\ x[1] = a /\ y[1] = b /\ y[2] = c /\ z[1] = a /\ z[2] = b /\ z[3] = c
  OBVIOUS
<1> HIDE DEF x, y, z
<1>2. /\ x \o y \in Seq(S) /\ Len(x \o y) = Len(x) + Len(y)
      /\ \A i \in 1..(Len(x) + Len(y)) : (x \o y)[i] = IF i <= Len(x) THEN x[i] ELSE y[i - Len(x)]
  BY <1>1, ConcatProperties
<1>3. \A i \in 1..3 : (x \o y)[i] = z[i]
  BY <1>1, <1>2
<1>4. x \o y = z
  BY <1>1, <1>2, <1>3, SeqEqual
<1> QED BY <1>4 DEF x, y, z

Hex == {"2", "3", "5", "6", "D", "B", "0", "C"}

LEMMA SpecialsDiffer ==
  /\ {Space, Quote, Backslash} \intersect {"&", "=", "+", "%", "#"} = {}
  /\ Space # Quote /\ Space # Backslash /\ Quote # Backslash
BY Zenon DEF Space, Quote, Backslash

LEMMA HexValues ==
  /\ DOMAIN HexDigits = {"&", "=", "+", "%", Space, "#", Quote, Backslash}
  /\ HexDigits["&"] = <<"2", "6">> /\ HexDigits["="] = <<"3", "D">> /\ HexDigits["+"] = <<"2", "B">>
  /\ HexDigits["%"] = <<"2", "5">> /\ HexDigits[Space] = <<"2", "0">> /\ HexDigits["#"] = <<"2", "3">>
  /\ HexDigits[Quote] = <<"2", "2">> /\ HexDigits[Backslash] = <<"5", "C">>
<1> QED BY SpecialsDiffer DEF HexDigits

LEMMA HexOf ==
  ASSUME NEW d \in DOMAIN HexDigits
  PROVE  \E a \in Hex, b \in Hex : HexDigits[d] = <<a, b>>
BY HexValues DEF Hex

LEMMA HexInjective ==
  ASSUME NEW c \in DOMAIN HexDigits, NEW d \in DOMAIN HexDigits, HexDigits[c] = HexDigits[d]
  PROVE  c = d
<1> DEFINE f == HexDigits
<1>1. f["&"][2] = "6"
  <2>1. f["&"] = <<"2", "6">>
    BY HexValues
  <2> HIDE DEF f
  <2> QED BY <2>1, Second
<1>2. f["="][2] = "D"
  <2>1. f["="] = <<"3", "D">>
    BY HexValues
  <2> HIDE DEF f
  <2> QED BY <2>1, Second
<1>3. f["+"][2] = "B"
  <2>1. f["+"] = <<"2", "B">>
    BY HexValues
  <2> HIDE DEF f
  <2> QED BY <2>1, Second
<1>4. f["%"][2] = "5"
  <2>1. f["%"] = <<"2", "5">>
    BY HexValues
  <2> HIDE DEF f
  <2> QED BY <2>1, Second
<1>5. f[Space][2] = "0"
  <2>1. f[Space] = <<"2", "0">>
    BY HexValues
  <2> HIDE DEF f
  <2> QED BY <2>1, Second
<1>6. f["#"][2] = "3"
  <2>1. f["#"] = <<"2", "3">>
    BY HexValues
  <2> HIDE DEF f
  <2> QED BY <2>1, Second
<1>7. f[Quote][2] = "2"
  <2>1. f[Quote] = <<"2", "2">>
    BY HexValues
  <2> HIDE DEF f
  <2> QED BY <2>1, Second
<1>8. f[Backslash][2] = "C"
  <2>1. f[Backslash] = <<"5", "C">>
    BY HexValues
  <2> HIDE DEF f
  <2> QED BY <2>1, Second
<1>11. c \in {"&", "=", "+", "%", Space, "#", Quote, Backslash} /\ d \in {"&", "=", "+", "%", Space, "#", Quote, Backslash}
  BY HexValues
<1>10. f[c][2] = f[d][2]
  OBVIOUS
<1> HIDE DEF f
<1> QED BY <1>1, <1>2, <1>3, <1>4, <1>5, <1>6, <1>7, <1>8, <1>10, <1>11, SpecialsDiffer

LEMMA FromHexOf ==
  ASSUME NEW d \in DOMAIN HexDigits
  PROVE  FromHex(HexDigits[d]) = d
<1>1. \E c \in DOMAIN HexDigits : HexDigits[c] = HexDigits[d]
  OBVIOUS
<1>2. FromHex(HexDigits[d]) = CHOOSE c \in DOMAIN HexDigits : HexDigits[c] = HexDigits[d]
  BY <1>1 DEF FromHex
<1> QED BY <1>1, <1>2, HexInjective

LEMMA FromHexType == ASSUME NEW x PROVE FromHex(x) \in Char
<1>1. CASE \E c \in DOMAIN HexDigits : HexDigits[c] = x
  <2>1. FromHex(x) = CHOOSE c \in DOMAIN HexDigits : HexDigits[c] = x
    BY <1>1 DEF FromHex
  <2>2. FromHex(x) \in DOMAIN HexDigits
    BY <1>1, <2>1
  <2>3. DOMAIN HexDigits \subseteq Literals
    BY HexValues DEF Literals
  <2> QED BY <2>2, <2>3, CharHas
<1>2. CASE ~ \E c \in DOMAIN HexDigits : HexDigits[c] = x
  <2>1. FromHex(x) = "other"
    BY <1>2 DEF FromHex
  <2>2. "other" \in Literals
    BY DEF Literals
  <2> QED BY <2>1, <2>2, CharHas
<1> QED BY <1>1, <1>2

\* One turn of urlDecode, f being what the rest decodes to.
Decoded(text, f, i) ==
  IF i > Len(text) THEN <<>>
  ELSE IF text[i] = "%" /\ i + 2 <= Len(text)
       THEN << FromHex(SubSeq(text, i + 1, i + 2)) >> \o f[i + 3]
       ELSE << IF text[i] = "+" THEN Space ELSE text[i] >> \o f[i + 1]

LEMMA DecodeBy ==
  ASSUME NEW S, NEW text \in Seq(S), NEW g,
         \A i \in 1..(Len(text) + 1) : g[i] = Decoded(text, g, i)
  PROVE  urlDecode(text) = g[1]
<1> DEFINE n == Len(text)
      Is(f) == f = [i \in 1..(n + 1) |-> Decoded(text, f, i)]
      w == [i \in 1..(n + 1) |-> g[i]]
      f0 == CHOOSE f : Is(f)
<1>1. n \in Nat
  BY LenProperties
<1>2. Is(w)
  <2>1. ASSUME NEW i \in 1..(n + 1) PROVE w[i] = Decoded(text, w, i)
    <3>1. Decoded(text, w, i) = Decoded(text, g, i)
      <4>1. CASE i > n
        BY <4>1 DEF Decoded
      <4>2. CASE ~(i > n)
        <5>1. i + 1 \in 1..(n + 1) /\ (i + 2 <= n => i + 3 \in 1..(n + 1))
          BY <1>1, <4>2
        <5>2. w[i + 1] = g[i + 1] /\ (i + 2 <= n => w[i + 3] = g[i + 3])
          BY <5>1
        <5> HIDE DEF w
        <5> QED BY <4>2, <5>2 DEF Decoded
      <4> QED BY <4>1, <4>2
    <3>2. w[i] = g[i]
      OBVIOUS
    <3> HIDE DEF w
    <3> QED BY <3>1, <3>2
  <2> HIDE DEF n
  <2>2. w = [i \in 1..(n + 1) |-> w[i]]
    OBVIOUS
  <2> QED BY <2>1
<1>3. Is(f0)
  <2> HIDE DEF Is, w
  <2> QED BY <1>2
<1>4. urlDecode(text) = f0[1]
  BY DEF urlDecode, Decoded
<1> HIDE DEF f0, n
<1> DEFINE T == {m \in Nat : \A i \in 1..(n + 1) : i >= n + 1 - m => f0[i] = g[i]}
<1>5. 0 \in T
  <2> SUFFICES ASSUME NEW i \in 1..(n + 1), i >= n + 1 - 0 PROVE f0[i] = g[i]
    OBVIOUS
  <2>1. i > n
    BY <1>1
  <2>2. f0[i] = <<>> /\ g[i] = <<>>
    BY <1>3, <2>1 DEF Decoded, n
  <2> QED BY <2>2
<1>6. ASSUME NEW m \in Nat, m \in T PROVE m + 1 \in T
  <2> SUFFICES ASSUME NEW i \in 1..(n + 1), i >= n + 1 - (m + 1) PROVE f0[i] = g[i]
    OBVIOUS
  <2>1. CASE i >= n + 1 - m
    BY <1>6, <2>1
  <2>2. CASE ~(i >= n + 1 - m)
    <3>1. i <= n => i + 1 \in 1..(n + 1) /\ (i + 2 <= n => i + 3 \in 1..(n + 1))
      BY <1>1
    <3>2. i + 1 >= n + 1 - m /\ i + 3 >= n + 1 - m
      BY <1>1, <2>2
    <3>3. i <= n => f0[i + 1] = g[i + 1] /\ (i + 2 <= n => f0[i + 3] = g[i + 3])
      BY <1>6, <3>1, <3>2
    <3>4. f0[i] = Decoded(text, f0, i) /\ g[i] = Decoded(text, g, i)
      BY <1>3 DEF n
    <3>5. Decoded(text, f0, i) = Decoded(text, g, i)
      <4>1. CASE i > Len(text)
        BY <4>1 DEF Decoded
      <4>2. CASE ~(i > Len(text))
        <5>1. f0[i + 1] = g[i + 1] /\ (i + 2 <= Len(text) => f0[i + 3] = g[i + 3])
          <6>1. i <= n
            BY <1>1, <4>2 DEF n
          <6> QED BY <3>3, <6>1 DEF n
        <5> QED BY <4>2, <5>1 DEF Decoded
      <4> QED BY <4>1, <4>2
    <3> QED BY <3>4, <3>5
  <2> QED BY <2>1, <2>2
<1>7. n \in T
  <2> HIDE DEF T
  <2>1. Nat \subseteq T
    BY <1>5, <1>6, Inductive
  <2> QED BY <1>1, <2>1
<1>8. f0[1] = g[1]
  BY <1>1, <1>7
<1> QED BY <1>4, <1>8

LEMMA DecodedType ==
  ASSUME NEW text \in Seq(Char), NEW i \in 1..(Len(text) + 1), NEW f,
         i + 1 \in 1..(Len(text) + 1) => f[i + 1] \in Seq(Char),
         i + 3 \in 1..(Len(text) + 1) => f[i + 3] \in Seq(Char)
  PROVE  Decoded(text, f, i) \in Seq(Char)
<1>1. Len(text) \in Nat
  BY LenProperties
<1>2. CASE i > Len(text)
  BY <1>2, EmptySeq DEF Decoded
<1>3. CASE ~(i > Len(text)) /\ text[i] = "%" /\ i + 2 <= Len(text)
  <2>1. FromHex(SubSeq(text, i + 1, i + 2)) \in Char
    BY FromHexType
  <2> DEFINE c == FromHex(SubSeq(text, i + 1, i + 2))
  <2> HIDE DEF c
  <2>2. << c >> \in Seq(Char) /\ f[i + 3] \in Seq(Char)
    BY <1>1, <1>3, <2>1 DEF c
  <2>3. << c >> \o f[i + 3] \in Seq(Char)
    BY <2>2, ConcatProperties
  <2> QED BY <1>3, <2>3 DEF Decoded, c
<1>4. CASE ~(i > Len(text)) /\ ~(text[i] = "%" /\ i + 2 <= Len(text))
  <2> DEFINE c == IF text[i] = "+" THEN Space ELSE text[i]
  <2>1. c \in Char
    <3>1. i \in 1..Len(text)
      BY <1>1, <1>4
    <3>2. text[i] \in Char
      BY <3>1, ElementOfSeq
    <3>3. Space \in Literals
      BY DEF Literals
    <3> QED BY <3>2, <3>3, CharHas
  <2> HIDE DEF c
  <2>2. << c >> \in Seq(Char) /\ f[i + 1] \in Seq(Char)
    BY <1>1, <1>4, <2>1
  <2>3. << c >> \o f[i + 1] \in Seq(Char)
    BY <2>2, ConcatProperties
  <2> QED BY <1>4, <2>3 DEF Decoded, c
<1> QED BY <1>2, <1>3, <1>4

LEMMA DecodeFun ==
  ASSUME NEW text \in Seq(Char)
  PROVE  \E g : /\ \A i \in 1..(Len(text) + 1) : g[i] \in Seq(Char) /\ g[i] = Decoded(text, g, i)
                /\ urlDecode(text) = g[1]
<1> DEFINE n == Len(text)
      Upto(g, m) == \A i \in 1..(n + 1) : i >= n + 1 - m => g[i] \in Seq(Char) /\ g[i] = Decoded(text, g, i)
      T == {m \in Nat : \E g : Upto(g, m)}
<1>1. n \in Nat
  BY LenProperties
<1>2. 0 \in T
  <2> DEFINE g == [i \in 1..(n + 1) |-> <<>>]
  <2>1. Upto(g, 0)
    <3> SUFFICES ASSUME NEW i \in 1..(n + 1), i >= n + 1 - 0
                 PROVE  g[i] \in Seq(Char) /\ g[i] = Decoded(text, g, i)
      OBVIOUS
    <3>1. i > n
      BY <1>1
    <3>2. Decoded(text, g, i) = <<>>
      BY <3>1 DEF Decoded
    <3> QED BY <3>2, EmptySeq
  <2> HIDE DEF Upto
  <2> QED BY <2>1
<1>3. ASSUME NEW m \in Nat, m \in T PROVE m + 1 \in T
  <2>1. PICK g : Upto(g, m)
    <3> HIDE DEF Upto
    <3> QED BY <1>3
  <2> DEFINE k == n - m
        h == [i \in 1..(n + 1) |-> IF i = k THEN Decoded(text, g, i) ELSE g[i]]
  <2>2. ASSUME NEW i \in 1..(n + 1), i >= k
        PROVE  /\ h[i] = Decoded(text, g, i) /\ h[i] \in Seq(Char)
               /\ Decoded(text, h, i) = Decoded(text, g, i)
    <3>1. /\ i + 1 \in 1..(n + 1) => i + 1 # k /\ g[i + 1] \in Seq(Char)
          /\ i + 3 \in 1..(n + 1) => i + 3 # k /\ g[i + 3] \in Seq(Char)
      BY <1>1, <2>1, <2>2
    <3>2. Decoded(text, g, i) \in Seq(Char)
      BY <3>1, DecodedType
    <3>3. h[i] = Decoded(text, g, i)
      <4>1. CASE i = k
        BY <4>1
      <4>2. CASE i # k
        <5>1. i >= n + 1 - m
          BY <1>1, <2>2, <4>2
        <5> QED BY <2>1, <4>2, <5>1
      <4> QED BY <4>1, <4>2
    <3>4. Decoded(text, h, i) = Decoded(text, g, i)
      <4>1. CASE i > n
        BY <4>1 DEF Decoded
      <4>2. CASE ~(i > n)
        <5>1. i + 1 \in 1..(n + 1) /\ (i + 2 <= n => i + 3 \in 1..(n + 1))
          BY <1>1, <4>2
        <5>2. h[i + 1] = g[i + 1] /\ (i + 2 <= n => h[i + 3] = g[i + 3])
          BY <3>1, <5>1
        <5> HIDE DEF h
        <5> QED BY <4>2, <5>2 DEF Decoded
      <4> QED BY <4>1, <4>2
    <3> HIDE DEF h
    <3> QED BY <3>2, <3>3, <3>4
  <2> HIDE DEF h
  <2>3. Upto(h, m + 1)
    <3>1. ASSUME NEW i \in 1..(n + 1), i >= n + 1 - (m + 1) PROVE i >= k
      BY <1>1, <3>1
    <3> QED BY <2>2, <3>1
  <2> HIDE DEF Upto
  <2> QED BY <2>3
<1>4. n \in T
  <2> HIDE DEF T
  <2>1. Nat \subseteq T
    BY <1>2, <1>3, Inductive
  <2> QED BY <1>1, <2>1
<1>5. PICK g : Upto(g, n)
  <2> HIDE DEF Upto
  <2> QED BY <1>4
<1>6. \A i \in 1..(n + 1) : g[i] \in Seq(Char) /\ g[i] = Decoded(text, g, i)
  BY <1>1, <1>5
<1>7. urlDecode(text) = g[1]
  BY <1>6, DecodeBy
<1> QED BY <1>6, <1>7

LEMMA DecodeType ==
  ASSUME NEW text \in Seq(Char)
  PROVE  urlDecode(text) \in Seq(Char)
<1>1. Len(text) \in Nat
  BY LenProperties
<1> QED BY <1>1, DecodeFun

LEMMA Two ==
  ASSUME NEW S, NEW s \in Seq(S), NEW m \in Nat \ {0}, m + 1 <= Len(s)
  PROVE  SubSeq(s, m, m + 1) = << s[m], s[m + 1] >>
<1>1. Len(s) \in Nat
  BY LenProperties
<1>2. \A i \in m..(m + 1) : s[i] \in S
  <2> SUFFICES ASSUME NEW i \in m..(m + 1) PROVE s[i] \in S
    OBVIOUS
  <2>1. i \in 1..Len(s)
    BY <1>1
  <2> QED BY <2>1, ElementOfSeq
<1>3. /\ SubSeq(s, m, m + 1) \in Seq(S) /\ Len(SubSeq(s, m, m + 1)) = IF m <= m + 1 THEN m + 1 - m + 1 ELSE 0
      /\ \A i \in 1..(m + 1 - m + 1) : SubSeq(s, m, m + 1)[i] = s[m + i - 1]
  BY <1>2, SubSeqProperties
<1> DEFINE t == << s[m], s[m + 1] >>
<1>4. t \in Seq(S) /\ Len(t) = 2 /\ t[1] = s[m] /\ t[2] = s[m + 1]
  BY <1>2
<1>5. Len(SubSeq(s, m, m + 1)) = 2 /\ SubSeq(s, m, m + 1)[1] = s[m] /\ SubSeq(s, m, m + 1)[2] = s[m + 1]
  <2>1. 1 \in 1..(m + 1 - m + 1) /\ 2 \in 1..(m + 1 - m + 1) /\ m + 1 - 1 = m /\ m + 2 - 1 = m + 1
    OBVIOUS
  <2> QED BY <1>3, <2>1
<1> HIDE DEF t
<1>6. \A i \in 1..2 : SubSeq(s, m, m + 1)[i] = t[i]
  BY <1>4, <1>5
<1>7. SubSeq(s, m, m + 1) = t
  BY <1>3, <1>4, <1>5, <1>6, SeqEqual
<1> QED BY <1>7 DEF t

\* What the rest of a text decodes to is found on the way.
LEMMA DecodeRest ==
  ASSUME NEW text \in Seq(Char), NEW n \in 0..Len(text), NEW g,
         \A i \in 1..(Len(text) + 1) : g[i] = Decoded(text, g, i)
  PROVE  urlDecode(From(n, text)) = g[n + 1]
<1> DEFINE t == From(n, text)
      h == [i \in 1..(Len(t) + 1) |-> g[i + n]]
<1>1. Len(text) \in Nat
  BY LenProperties
<1>2. /\ t \in Seq(Char) /\ Len(t) = Len(text) - n
      /\ \A i \in 1..(Len(text) - n) : t[i] = text[n + i]
  BY FirstFrom
<1> HIDE DEF t
<1>3. ASSUME NEW i \in 1..(Len(t) + 1) PROVE h[i] = Decoded(t, h, i)
  <2> DEFINE j == i + n
  <2>1. j \in 1..(Len(text) + 1) /\ (j > Len(text) <=> i > Len(t)) /\ (j + 2 <= Len(text) <=> i + 2 <= Len(t))
    BY <1>1, <1>2
  <2>2. h[i] = g[j]
    OBVIOUS
  <2>3. g[j] = Decoded(text, g, j)
    BY <2>1
  <2>4. Decoded(t, h, i) = Decoded(text, g, j)
    <3>1. CASE i > Len(t)
      BY <2>1, <3>1 DEF Decoded
    <3>2. CASE ~(i > Len(t))
      <4>1. /\ t[i] = text[j]
            /\ i + 2 <= Len(t) => /\ t[i + 1] = text[j + 1] /\ t[i + 2] = text[j + 2]
                                  /\ i + 1 \in Nat \ {0} /\ i + 1 + 1 <= Len(t) /\ i + 1 + 1 = i + 2
                                  /\ j + 1 \in Nat \ {0} /\ j + 1 + 1 <= Len(text) /\ j + 1 + 1 = j + 2
        <5>1. i \in 1..(Len(text) - n) /\ n + i = j
          BY <1>1, <1>2, <3>2
        <5>2. t[i] = text[j]
          BY <1>2, <5>1
        <5>3. ASSUME i + 2 <= Len(t)
              PROVE  /\ i + 1 \in 1..(Len(text) - n) /\ n + (i + 1) = j + 1
                     /\ i + 2 \in 1..(Len(text) - n) /\ n + (i + 2) = j + 2
                     /\ i + 1 \in Nat \ {0} /\ i + 1 + 1 <= Len(t) /\ i + 1 + 1 = i + 2
                     /\ j + 1 \in Nat \ {0} /\ j + 1 + 1 <= Len(text) /\ j + 1 + 1 = j + 2
          BY <1>1, <1>2, <5>3
        <5>4. i + 2 <= Len(t) => t[i + 1] = text[n + (i + 1)] /\ t[i + 2] = text[n + (i + 2)]
          BY <1>2, <5>3
        <5> HIDE DEF j
        <5> QED BY <5>2, <5>3, <5>4
      <4>2. i + 2 <= Len(t) => SubSeq(t, i + 1, i + 1 + 1) = << t[i + 1], t[i + 1 + 1] >>
        BY <1>2, <4>1, Two
      <4>3. i + 2 <= Len(t) => SubSeq(text, j + 1, j + 1 + 1) = << text[j + 1], text[j + 1 + 1] >>
        BY <2>1, <4>1, Two
      <4>4. i + 2 <= Len(t) => SubSeq(t, i + 1, i + 2) = SubSeq(text, j + 1, j + 2)
        BY <4>1, <4>2, <4>3
      <4>5. h[i + 1] = g[j + 1] /\ (i + 2 <= Len(t) => h[i + 3] = g[j + 3])
        <5>1. i + 1 \in 1..(Len(t) + 1) /\ (i + 2 <= Len(t) => i + 3 \in 1..(Len(t) + 1))
              /\ i + 1 + n = j + 1 /\ i + 3 + n = j + 3
          BY <1>1, <1>2, <3>2
        <5> QED BY <5>1
      <4> HIDE DEF h, j
      <4> QED BY <2>1, <3>2, <4>1, <4>4, <4>5 DEF Decoded
    <3> QED BY <3>1, <3>2
  <2> HIDE DEF h, j
  <2> QED BY <2>2, <2>3, <2>4
<1>4. urlDecode(t) = h[1]
  <2> HIDE DEF h
  <2> QED BY <1>2, <1>3, DecodeBy
<1>5. h[1] = g[n + 1]
  BY <1>1, <1>2
<1> QED BY <1>4, <1>5 DEF t

LEMMA DecodeEmpty == urlDecode(<<>>) = <<>>
<1> DEFINE g == [i \in 1..1 |-> <<>>]
<1>1. <<>> \in Seq(Char) /\ Len(<<>>) = 0
  BY EmptySeq
<1>2. \A i \in 1..(Len(<<>>) + 1) : g[i] = Decoded(<<>>, g, i)
  <2> SUFFICES ASSUME NEW i \in 1..1 PROVE g[i] = Decoded(<<>>, g, i)
    BY <1>1
  <2>1. i > Len(<<>>)
    BY <1>1
  <2> QED BY <2>1 DEF Decoded
<1>3. urlDecode(<<>>) = g[1]
  <2> HIDE DEF g
  <2> QED BY <1>1, <1>2, DecodeBy
<1> QED BY <1>3

\* One character of a text, or a percent sign and two.
LEMMA DecodeCons ==
  ASSUME NEW c \in Char, NEW t \in Seq(Char), c # "%"
  PROVE  urlDecode(<< c >> \o t) = << IF c = "+" THEN Space ELSE c >> \o urlDecode(t)
<1> DEFINE o == << c >>
      text == o \o t
<1>1. o \in Seq(Char) /\ Len(o) = 1 /\ o[1] = c /\ o # <<>>
  OBVIOUS
<1> HIDE DEF o
<1>2. text \in Seq(Char) /\ text[1] = c /\ From(1, text) = t /\ Len(text) = 1 + Len(t) /\ Len(t) \in Nat
  <2>1. text \in Seq(Char) /\ Len(text) = Len(o) + Len(t)
    BY <1>1, ConcatProperties
  <2>2. text[1] = o[1]
    BY <1>1, Peel
  <2>3. From(Len(o), text) = t
    BY <1>1, FirstOfConcat
  <2> QED BY <1>1, <2>1, <2>2, <2>3, LenProperties
<1> HIDE DEF text
<1>3. PICK g : /\ \A i \in 1..(Len(text) + 1) : g[i] \in Seq(Char) /\ g[i] = Decoded(text, g, i)
               /\ urlDecode(text) = g[1]
  BY <1>2, DecodeFun
<1>4. urlDecode(From(1, text)) = g[1 + 1]
  <2>1. 1 \in 0..Len(text)
    BY <1>2
  <2> QED BY <1>2, <1>3, <2>1, DecodeRest
<1>5. g[1] = Decoded(text, g, 1)
  BY <1>2, <1>3
<1>6. Decoded(text, g, 1) = << IF text[1] = "+" THEN Space ELSE text[1] >> \o g[1 + 1]
  <2>1. ~(1 > Len(text)) /\ text[1] # "%"
    BY <1>2
  <2> QED BY <2>1 DEF Decoded
<1>7. urlDecode(text) = << IF c = "+" THEN Space ELSE c >> \o urlDecode(t)
  BY <1>2, <1>3, <1>4, <1>5, <1>6
<1> QED BY <1>7 DEF text, o

LEMMA DecodeHex ==
  ASSUME NEW d \in DOMAIN HexDigits, NEW t \in Seq(Char)
  PROVE  urlDecode((<<"%">> \o HexDigits[d]) \o t) = << d >> \o urlDecode(t)
<1>1. PICK a \in Hex, b \in Hex : HexDigits[d] = <<a, b>>
  BY HexOf
<1> DEFINE o == <<"%", a, b>>
      text == o \o t
<1>2. o \in Seq(Char) /\ Len(o) = 3 /\ o[1] = "%" /\ o[2] = a /\ o[3] = b
  <2>1. "%" \in Literals /\ Hex \subseteq Literals
    BY DEF Hex, Literals
  <2>2. "%" \in Char /\ a \in Char /\ b \in Char
    BY <2>1, CharHas
  <2> QED BY <2>2
<1>3. <<"%">> \o HexDigits[d] = o
  <2>1. "%" \in Literals /\ Hex \subseteq Literals
    BY DEF Hex, Literals
  <2>2. "%" \in Char /\ a \in Char /\ b \in Char
    BY <2>1, CharHas
  <2>3. <<"%">> \o <<a, b>> = <<"%", a, b>>
    BY <2>2, TripleIs
  <2> QED BY <1>1, <2>3
<1> HIDE DEF o
<1>4. /\ text \in Seq(Char) /\ text[1] = "%" /\ text[2] = a /\ text[3] = b /\ From(3, text) = t
      /\ Len(text) = 3 + Len(t) /\ Len(t) \in Nat
  <2>1. /\ text \in Seq(Char) /\ Len(text) = Len(o) + Len(t)
        /\ \A i \in 1..(Len(o) + Len(t)) : text[i] = IF i <= Len(o) THEN o[i] ELSE t[i - Len(o)]
    BY <1>2, ConcatProperties
  <2>2. From(Len(o), text) = t
    BY <1>2, FirstOfConcat
  <2>3. Len(t) \in Nat
    BY LenProperties
  <2>4. 1 \in 1..(Len(o) + Len(t)) /\ 2 \in 1..(Len(o) + Len(t)) /\ 3 \in 1..(Len(o) + Len(t))
    BY <1>2, <2>3
  <2> HIDE DEF text
  <2> QED BY <1>2, <2>1, <2>2, <2>3, <2>4
<1> HIDE DEF text
<1>5. PICK g : /\ \A i \in 1..(Len(text) + 1) : g[i] \in Seq(Char) /\ g[i] = Decoded(text, g, i)
               /\ urlDecode(text) = g[1]
  BY <1>4, DecodeFun
<1>6. urlDecode(From(3, text)) = g[3 + 1]
  <2>1. 3 \in 0..Len(text)
    BY <1>4
  <2> QED BY <1>4, <1>5, <2>1, DecodeRest
<1>7. g[1] = Decoded(text, g, 1)
  BY <1>4, <1>5
<1>8. SubSeq(text, 2, 3) = <<a, b>>
  <2>1. 2 \in Nat \ {0} /\ 2 + 1 <= Len(text) /\ 2 + 1 = 3
    BY <1>4
  <2>2. SubSeq(text, 2, 2 + 1) = << text[2], text[2 + 1] >>
    BY <1>4, <2>1, Two
  <2> QED BY <1>4, <2>1, <2>2
<1>9. Decoded(text, g, 1) = << FromHex(SubSeq(text, 2, 3)) >> \o g[3 + 1]
  BY <1>4 DEF Decoded
<1>10. FromHex(SubSeq(text, 2, 3)) = d
  BY <1>1, <1>8, FromHexOf
<1>11. urlDecode(text) = << d >> \o urlDecode(t)
  BY <1>4, <1>5, <1>6, <1>7, <1>9, <1>10
<1> QED BY <1>3, <1>11 DEF text

\* A text comes back if each of its characters does.
LEMMA DecodeEach ==
  ASSUME NEW text \in Seq(Char), NEW each \in Seq(Seq(Char)), Len(each) = Len(text),
         \A i \in 1..Len(text) : \A t \in Seq(Char) : urlDecode(each[i] \o t) = << text[i] >> \o urlDecode(t)
  PROVE  urlDecode(FlattenSeq(each)) = text
<1> DEFINE n == Len(text)
      T == {m \in Nat : m <= n => urlDecode(FlattenSeq(From(n - m, each))) = From(n - m, text)}
<1>1. n \in Nat
  BY LenProperties
<1> HIDE DEF n
<1>2. 0 \in T
  <2>1. n - 0 = Len(each) /\ n - 0 = Len(text)
    BY <1>1 DEF n
  <2>2. From(n - 0, each) = <<>> /\ From(n - 0, text) = <<>>
    BY <2>1, FromEnds
  <2>3. urlDecode(FlattenSeq(From(n - 0, each))) = From(n - 0, text)
    BY <2>2, FlattenEmpty, DecodeEmpty
  <2> QED BY <2>3
<1>3. ASSUME NEW m \in Nat, m \in T PROVE m + 1 \in T
  <2>0. m + 1 \in Nat
    OBVIOUS
  <2> SUFFICES ASSUME m + 1 <= n
               PROVE  urlDecode(FlattenSeq(From(n - (m + 1), each))) = From(n - (m + 1), text)
    BY <2>0
  <2> DEFINE i == n - m
  <2>1. i \in 1..Len(each) /\ i \in 1..Len(text) /\ i - 1 = n - (m + 1) /\ m <= n /\ i - 1 \in Nat
        /\ i - 1 < Len(text) /\ i - 1 + 1 = i
    BY <1>1 DEF n
  <2>2. urlDecode(FlattenSeq(From(i, each))) = From(i, text)
    BY <1>3, <2>1
  <2> HIDE DEF i
  <2>3. FlattenSeq(From(i - 1, each)) = each[i] \o FlattenSeq(From(i, each)) /\ FlattenSeq(From(i, each)) \in Seq(Char)
    BY <2>1, FlattenAt
  <2>4. urlDecode(FlattenSeq(From(i - 1, each))) = << text[i] >> \o From(i, text)
    BY <2>1, <2>2, <2>3
  <2>5. From(i - 1, text) = << text[i - 1 + 1] >> \o From(i - 1 + 1, text)
    BY <2>1, FromNext
  <2> QED BY <2>1, <2>4, <2>5
<1>4. n \in T
  <2> HIDE DEF T
  <2>1. Nat \subseteq T
    BY <1>2, <1>3, Inductive
  <2> QED BY <1>1, <2>1
<1>5. n - n = 0
  BY <1>1
<1>6. urlDecode(FlattenSeq(From(0, each))) = From(0, text)
  BY <1>1, <1>4, <1>5
<1> QED BY <1>6, FromEnds

\* What the browser encodes, the device decodes.
LEMMA EncodeSeq ==
  ASSUME NEW text \in Seq(Char),
         NEW each, each = [i \in DOMAIN text |->
           IF text[i] \in DOMAIN HexDigits THEN <<"%">> \o HexDigits[text[i]] ELSE << text[i] >>]
  PROVE  each \in Seq(Seq(Char \ {"&", "="})) /\ Len(each) = Len(text)
<1>1. Len(text) \in Nat /\ DOMAIN text = 1..Len(text) /\ \A i \in 1..Len(text) : text[i] \in Char
  BY LenProperties, ElementOfSeq
<1>2. ASSUME NEW i \in 1..Len(text) PROVE each[i] \in Seq(Char \ {"&", "="})
  <2>1. CASE text[i] \in DOMAIN HexDigits
    <3>1. PICK a \in Hex, b \in Hex : HexDigits[text[i]] = <<a, b>>
      BY <2>1, HexOf
    <3>2. each[i] = <<"%">> \o <<a, b>>
      BY <1>1, <2>1, <3>1
    <3>3. Hex \subseteq Char /\ Hex \subseteq Literals /\ "%" \in Literals
      BY CharHas DEF Hex, Literals
    <3>4. "%" \in Char \ {"&", "="} /\ a \in Char \ {"&", "="} /\ b \in Char \ {"&", "="}
      <4>1. a \notin {"&", "="} /\ b \notin {"&", "="}
        BY DEF Hex
      <4> QED BY <3>3, <4>1, CharHas
    <3>5. each[i] = <<"%", a, b>>
      <4>1. << "%" >> \o <<a, b>> = <<"%", a, b>>
        BY <3>4, TripleIs, Zenon
      <4> QED BY <3>2, <4>1
    <3> HIDE DEF Hex
    <3> QED BY <3>4, <3>5, TripleType, Zenon
  <2>2. CASE text[i] \notin DOMAIN HexDigits
    <3>1. each[i] = << text[i] >>
      BY <1>1, <2>2
    <3>2. text[i] \in Char \ {"&", "="}
      BY <1>1, <2>2, HexValues
    <3> QED BY <3>1, <3>2, SingleType, Zenon
  <2> QED BY <2>1, <2>2
<1>3. each = [i \in 1..Len(text) |-> each[i]]
  BY <1>1
<1> QED BY <1>1, <1>2, <1>3, SeqIs, Zenon, Z3

LEMMA EncodeType ==
  ASSUME NEW text \in Seq(Char)
  PROVE  Encode(text) \in Seq(Char \ {"&", "="}) /\ Encode(text) \in Seq(Char)
<1> DEFINE each == [i \in DOMAIN text |->
           IF text[i] \in DOMAIN HexDigits THEN <<"%">> \o HexDigits[text[i]] ELSE << text[i] >>]
<1>1. each \in Seq(Seq(Char \ {"&", "="}))
  BY EncodeSeq
<1>2. Encode(text) = FlattenSeq(each)
  BY DEF Encode
<1> HIDE DEF each
<1>3. Encode(text) \in Seq(Char \ {"&", "="})
  BY <1>1, <1>2, FlattenType
<1>4. Char \ {"&", "="} \subseteq Char
  OBVIOUS
<1> QED BY <1>3, <1>4, SeqMonotonic

LEMMA EncodeDecode ==
  ASSUME NEW text \in Seq(Char)
  PROVE  urlDecode(Encode(text)) = text
<1> DEFINE each == [i \in DOMAIN text |->
           IF text[i] \in DOMAIN HexDigits THEN <<"%">> \o HexDigits[text[i]] ELSE << text[i] >>]
<1>1. each \in Seq(Seq(Char)) /\ Len(each) = Len(text)
  <2>1. each \in Seq(Seq(Char \ {"&", "="})) /\ Len(each) = Len(text)
    BY EncodeSeq
  <2>2. Seq(Char \ {"&", "="}) \subseteq Seq(Char)
    BY SeqMonotonic, Char \ {"&", "="} \subseteq Char
  <2> QED BY <2>1, <2>2, SeqMonotonic
<1>2. Encode(text) = FlattenSeq(each)
  BY DEF Encode
<1>3. ASSUME NEW i \in 1..Len(text), NEW t \in Seq(Char)
      PROVE  urlDecode(each[i] \o t) = << text[i] >> \o urlDecode(t)
  <2>1. text[i] \in Char /\ i \in DOMAIN text
    BY ElementOfSeq, LenProperties
  <2>2. CASE text[i] \in DOMAIN HexDigits
    <3>1. each[i] = <<"%">> \o HexDigits[text[i]]
      BY <2>1, <2>2
    <3> HIDE DEF each
    <3> QED BY <2>2, <3>1, DecodeHex
  <2>3. CASE text[i] \notin DOMAIN HexDigits
    <3>1. each[i] = << text[i] >> /\ text[i] # "%" /\ text[i] # "+"
      BY <2>1, <2>3, HexValues
    <3> HIDE DEF each
    <3>2. urlDecode(<< text[i] >> \o t) = << IF text[i] = "+" THEN Space ELSE text[i] >> \o urlDecode(t)
      BY <2>1, <3>1, DecodeCons
    <3> QED BY <3>1, <3>2
  <2> QED BY <2>2, <2>3
<1> HIDE DEF each
<1> QED BY <1>1, <1>2, <1>3, DecodeEach

\* What the browser makes of a url.
EscapeEach(text) == [i \in DOMAIN text |-> IF text[i] = Space THEN <<"%", "2", "0">> ELSE << text[i] >>]

LEMMA EscapeEachType ==
  ASSUME NEW S, NEW text \in Seq(S), {"%", "2", "0"} \subseteq S
  PROVE  EscapeEach(text) \in Seq(Seq(S)) /\ Len(EscapeEach(text)) = Len(text)
<1> DEFINE each == EscapeEach(text)
      n == Len(text)
<1>1. n \in Nat /\ DOMAIN text = 1..n /\ \A i \in 1..n : text[i] \in S
  BY LenProperties, ElementOfSeq
<1>2. <<"%", "2", "0">> \in Seq(S)
  <2>1. "%" \in S /\ "2" \in S /\ "0" \in S
    OBVIOUS
  <2> QED BY <2>1, TripleType, Zenon
<1>3. ASSUME NEW i \in 1..n PROVE each[i] \in Seq(S)
  <2>1. << text[i] >> \in Seq(S)
    BY <1>1, SingleType, Zenon
  <2>2. each[i] = IF text[i] = Space THEN <<"%", "2", "0">> ELSE << text[i] >>
    BY <1>1 DEF EscapeEach
  <2> QED BY <1>2, <2>1, <2>2
<1>4. each = [i \in 1..n |-> each[i]]
  BY <1>1 DEF EscapeEach
<1> HIDE DEF each, n
<1>5. each \in Seq(Seq(S)) /\ Len(each) = n
  BY <1>1, <1>3, <1>4, SeqIs
<1> QED BY <1>5 DEF each, n

LEMMA EscapeSeq ==
  ASSUME NEW S, NEW text \in Seq(S), {"%", "2", "0"} \subseteq S,
         NEW each, each = [i \in DOMAIN text |-> IF text[i] = Space THEN <<"%", "2", "0">> ELSE << text[i] >>]
  PROVE  each \in Seq(Seq(S)) /\ Len(each) = Len(text)
<1>1. each = EscapeEach(text)
  BY DEF EscapeEach
<1> QED BY <1>1, EscapeEachType

LEMMA EscapeType ==
  ASSUME NEW S, NEW text \in Seq(S), {"%", "2", "0"} \subseteq S
  PROVE  Escape(text) \in Seq(S)
<1> DEFINE each == [i \in DOMAIN text |-> IF text[i] = Space THEN <<"%", "2", "0">> ELSE << text[i] >>]
<1>1. each \in Seq(Seq(S))
  BY EscapeSeq
<1>2. Escape(text) = FlattenSeq(each)
  BY DEF Escape
<1> HIDE DEF each
<1> QED BY <1>1, <1>2, FlattenType

LEMMA EscapeDecode ==
  ASSUME NEW text \in Seq(Char \ {"%", "+"})
  PROVE  urlDecode(Escape(text)) = text
<1> DEFINE each == [i \in DOMAIN text |-> IF text[i] = Space THEN <<"%", "2", "0">> ELSE << text[i] >>]
<1>0. text \in Seq(Char)
  BY SeqMonotonic, Char \ {"%", "+"} \subseteq Char
<1>1. each \in Seq(Seq(Char)) /\ Len(each) = Len(text)
  <2>1. {"%", "2", "0"} \subseteq Char
    BY CharHas DEF Literals
  <2> QED BY <1>0, <2>1, EscapeSeq
<1>2. Escape(text) = FlattenSeq(each)
  BY DEF Escape
<1>3. ASSUME NEW i \in 1..Len(text), NEW t \in Seq(Char)
      PROVE  urlDecode(each[i] \o t) = << text[i] >> \o urlDecode(t)
  <2>1. text[i] \in Char \ {"%", "+"} /\ i \in DOMAIN text
    BY ElementOfSeq, LenProperties
  <2>2. CASE text[i] = Space
    <3>1. each[i] = <<"%", "2", "0">> /\ text[i] \in DOMAIN HexDigits /\ HexDigits[text[i]] = <<"2", "0">>
      BY <2>1, <2>2, HexValues
    <3>2. <<"%">> \o <<"2", "0">> = <<"%", "2", "0">>
      <4>1. "%" \in Char /\ "2" \in Char /\ "0" \in Char
        BY CharHas DEF Literals
      <4> QED BY <4>1, TripleIs
    <3> HIDE DEF each
    <3>3. urlDecode((<<"%">> \o HexDigits[text[i]]) \o t) = << text[i] >> \o urlDecode(t)
      BY <3>1, DecodeHex
    <3> QED BY <3>1, <3>2, <3>3
  <2>3. CASE text[i] # Space
    <3>1. each[i] = << text[i] >> /\ text[i] # "%" /\ text[i] # "+"
      BY <2>1, <2>3
    <3> HIDE DEF each
    <3>2. urlDecode(<< text[i] >> \o t) = << IF text[i] = "+" THEN Space ELSE text[i] >> \o urlDecode(t)
      BY <2>1, <3>1, DecodeCons
    <3> QED BY <3>1, <3>2
  <2> QED BY <2>2, <2>3
<1> HIDE DEF each
<1> QED BY <1>0, <1>1, <1>2, <1>3, DecodeEach

LEMMA EscapeConcat ==
  ASSUME NEW s \in Seq(Char), NEW t \in Seq(Char)
  PROVE  Escape(s \o t) = Escape(s) \o Escape(t)
<1> DEFINE each(u) == [i \in DOMAIN u |-> IF u[i] = Space THEN <<"%", "2", "0">> ELSE << u[i] >>]
      u == s \o t
<1>0. {"%", "2", "0"} \subseteq Char
  BY CharHas DEF Literals
<1>1. \A x \in Seq(Char) : each(x) \in Seq(Seq(Char)) /\ Len(each(x)) = Len(x) /\ Escape(x) = FlattenSeq(each(x))
  BY <1>0, EscapeSeq DEF Escape
<1>2. /\ u \in Seq(Char) /\ Len(u) = Len(s) + Len(t) /\ Len(s) \in Nat /\ Len(t) \in Nat
      /\ \A i \in 1..(Len(s) + Len(t)) : u[i] = IF i <= Len(s) THEN s[i] ELSE t[i - Len(s)]
  BY ConcatProperties, LenProperties
<1>3. DOMAIN s = 1..Len(s) /\ DOMAIN t = 1..Len(t) /\ DOMAIN u = 1..Len(u)
  BY <1>2, LenProperties
<1> DEFINE a == each(s)
      b == each(t)
      c == each(u)
<1>4. /\ \A i \in 1..Len(s) : a[i] = IF s[i] = Space THEN <<"%", "2", "0">> ELSE << s[i] >>
      /\ \A i \in 1..Len(t) : b[i] = IF t[i] = Space THEN <<"%", "2", "0">> ELSE << t[i] >>
      /\ \A i \in 1..Len(u) : c[i] = IF u[i] = Space THEN <<"%", "2", "0">> ELSE << u[i] >>
  BY <1>3
<1>5. /\ a \in Seq(Seq(Char)) /\ b \in Seq(Seq(Char)) /\ c \in Seq(Seq(Char))
      /\ Len(a) = Len(s) /\ Len(b) = Len(t) /\ Len(c) = Len(u)
      /\ Escape(s) = FlattenSeq(a) /\ Escape(t) = FlattenSeq(b) /\ Escape(u) = FlattenSeq(c)
  <2> HIDE DEF each, u
  <2> QED BY <1>1, <1>2
<1> HIDE DEF a, b, c, each, u
<1>6. /\ a \o b \in Seq(Seq(Char)) /\ Len(a \o b) = Len(a) + Len(b)
      /\ \A i \in 1..(Len(a) + Len(b)) : (a \o b)[i] = IF i <= Len(a) THEN a[i] ELSE b[i - Len(a)]
  BY <1>5, ConcatProperties
<1>7. ASSUME NEW i \in 1..Len(u) PROVE c[i] = (a \o b)[i]
  <2>1. CASE i <= Len(s)
    <3>1. i \in 1..Len(s) /\ i \in 1..(Len(a) + Len(b)) /\ i \in 1..(Len(s) + Len(t))
      BY <1>2, <1>5, <2>1
    <3>2. (a \o b)[i] = a[i] /\ u[i] = s[i]
      BY <1>2, <1>5, <1>6, <2>1, <3>1
    <3> QED BY <1>4, <3>1, <3>2
  <2>2. CASE ~(i <= Len(s))
    <3>1. i - Len(s) \in 1..Len(t) /\ i \in 1..(Len(a) + Len(b)) /\ i \in 1..(Len(s) + Len(t))
      BY <1>2, <1>5, <2>2
    <3>2. (a \o b)[i] = b[i - Len(s)] /\ u[i] = t[i - Len(s)]
      BY <1>2, <1>5, <1>6, <2>2, <3>1
    <3> QED BY <1>4, <3>1, <3>2
  <2> QED BY <2>1, <2>2
<1>8. c = a \o b
  <2>1. Len(c) = Len(a \o b)
    BY <1>2, <1>5, <1>6
  <2> QED BY <1>5, <1>6, <1>7, <2>1, SeqEqual
<1>9. FlattenSeq(c) = FlattenSeq(a) \o FlattenSeq(b)
  BY <1>5, <1>8, FlattenConcat
<1> QED BY <1>5, <1>9 DEF u

LEMMA EscapePlain ==
  ASSUME NEW text \in Seq(Char \ {Space})
  PROVE  Escape(text) = text
<1> DEFINE each == [i \in DOMAIN text |-> IF text[i] = Space THEN <<"%", "2", "0">> ELSE << text[i] >>]
      g == [m \in 0..Len(text) |-> First(m, text)]
<1>0. text \in Seq(Char) /\ Len(text) \in Nat /\ DOMAIN text = 1..Len(text)
      /\ \A i \in 1..Len(text) : text[i] # Space
  <2>1. text \in Seq(Char)
    BY SeqMonotonic, Char \ {Space} \subseteq Char
  <2>2. Len(text) \in Nat /\ DOMAIN text = 1..Len(text)
    BY LenProperties
  <2>3. \A i \in 1..Len(text) : text[i] \in Char \ {Space}
    BY ElementOfSeq
  <2> QED BY <2>1, <2>2, <2>3
<1>1. each \in Seq(Seq(Char)) /\ Len(each) = Len(text)
  <2>1. {"%", "2", "0"} \subseteq Char
    BY CharHas DEF Literals
  <2> QED BY <1>0, <2>1, EscapeSeq
<1>2. Escape(text) = FlattenSeq(each)
  BY DEF Escape
<1>3. \A i \in 1..Len(text) : each[i] = << text[i] >>
  BY <1>0
<1> HIDE DEF each
<1>4. \A m \in 0..Len(text) : g[m] \in Seq(Char)
  BY <1>0, FirstFrom
<1>5. g[0] = <<>> /\ g[Len(text)] = text
  <2>1. 0 \in 0..Len(text) /\ Len(text) \in 0..Len(text)
    BY <1>0
  <2>2. g[0] = First(0, text) /\ g[Len(text)] = First(Len(text), text)
    BY <2>1
  <2> HIDE DEF g
  <2> QED BY <1>0, <2>2, FromEnds
<1>6. ASSUME NEW m \in 1..Len(text) PROVE g[m] = g[m - 1] \o each[m]
  <2>0. Len(text) \in Nat
    BY <1>0
  <2>1. m - 1 \in Nat /\ m - 1 < Len(text) /\ m - 1 + 1 = m /\ m - 1 \in 0..Len(text) /\ m \in 0..Len(text)
    <3> DEFINE n == Len(text)
    <3>1. n \in Nat /\ m \in 1..n
      BY <2>0
    <3> HIDE DEF n, g
    <3>2. m - 1 \in Nat /\ m - 1 < n /\ m - 1 + 1 = m /\ m - 1 \in 0..n /\ m \in 0..n
      BY <3>1
    <3> QED BY <3>2 DEF n
  <2>2. First(m - 1 + 1, text) = Append(First(m - 1, text), text[m - 1 + 1]) /\ text[m - 1 + 1] \in Char
    BY <1>0, <2>1, FromNext
  <2>3. First(m - 1, text) \in Seq(Char)
    BY <1>0, <2>1, FirstFrom
  <2>4. Append(First(m - 1, text), text[m]) = First(m - 1, text) \o << text[m] >>
    BY <2>1, <2>2, <2>3, AppendIsConcat
  <2>5. g[m] = First(m, text) /\ g[m - 1] = First(m - 1, text)
    BY <2>1
  <2> HIDE DEF g
  <2> QED BY <1>3, <2>1, <2>2, <2>4, <2>5
<1>7. FlattenSeq(each) = g[Len(text)]
  <2> HIDE DEF g
  <2>1. /\ each \in Seq(Seq(Char)) /\ Len(each) = Len(text)
        /\ \A i \in 0..Len(each) : g[i] \in Seq(Char)
        /\ g[0] = <<>> /\ \A i \in 1..Len(each) : g[i] = g[i - 1] \o each[i]
    BY <1>1, <1>4, <1>5, <1>6
  <2>2. FlattenSeq(each) = g[Len(each)]
    BY <2>1, FlattenBy, Zenon
  <2> QED BY <2>1, <2>2
<1> QED BY <1>2, <1>5, <1>7

LEMMA SubSeqType ==
  ASSUME NEW S, NEW s \in Seq(S), NEW m \in Nat \ {0}, NEW n \in Nat, n <= Len(s)
  PROVE  /\ SubSeq(s, m, n) \in Seq(S) /\ Len(SubSeq(s, m, n)) = IF m <= n THEN n - m + 1 ELSE 0
         /\ \A i \in 1..(n - m + 1) : SubSeq(s, m, n)[i] = s[m + i - 1]
<1>1. Len(s) \in Nat
  BY LenProperties
<1>2. \A i \in m..n : s[i] \in S
  <2> SUFFICES ASSUME NEW i \in m..n PROVE s[i] \in S
    OBVIOUS
  <2>1. i \in 1..Len(s)
    BY <1>1
  <2> QED BY <2>1, ElementOfSeq
<1> QED BY <1>2, SubSeqProperties

LEMMA OneBefore ==
  ASSUME NEW S, NEW a \in S, NEW t \in Seq(S)
  PROVE  /\ << a >> \o t \in Seq(S) /\ << a >> \o t # <<>> /\ (<< a >> \o t)[1] = a
         /\ Tail(<< a >> \o t) = t /\ Len(<< a >> \o t) = 1 + Len(t)
<1> DEFINE o == << a >>
<1>1. o \in Seq(S) /\ Len(o) = 1 /\ o[1] = a /\ o # <<>> /\ Tail(o) = <<>>
  OBVIOUS
<1> HIDE DEF o
<1>2. o \o t # <<>> /\ (o \o t)[1] = a /\ Tail(o \o t) = Tail(o) \o t
  BY <1>1, Peel
<1>3. o \o t \in Seq(S) /\ Len(o \o t) = 1 + Len(t)
  BY <1>1, ConcatProperties
<1>4. <<>> \o t = t
  BY ConcatEmptySeq
<1> QED BY <1>1, <1>2, <1>3, <1>4 DEF o

LEMMA ConcatSub ==
  ASSUME NEW S, NEW s \in Seq(S), NEW t \in Seq(S), NEW m \in Nat \ {0}, NEW n \in Nat, n <= Len(s)
  PROVE  SubSeq(s \o t, m, n) = SubSeq(s, m, n)
<1> DEFINE u == s \o t
      a == SubSeq(u, m, n)
      b == SubSeq(s, m, n)
<1>1. Len(s) \in Nat /\ Len(t) \in Nat
  BY LenProperties
<1>2. /\ u \in Seq(S) /\ Len(u) = Len(s) + Len(t)
      /\ \A i \in 1..(Len(s) + Len(t)) : u[i] = IF i <= Len(s) THEN s[i] ELSE t[i - Len(s)]
  BY ConcatProperties
<1> HIDE DEF u
<1>3. /\ a \in Seq(S) /\ Len(a) = IF m <= n THEN n - m + 1 ELSE 0
      /\ \A i \in 1..(n - m + 1) : a[i] = u[m + i - 1]
  <2>1. n <= Len(u)
    BY <1>1, <1>2
  <2> QED BY <1>2, <2>1, SubSeqType
<1>4. /\ b \in Seq(S) /\ Len(b) = IF m <= n THEN n - m + 1 ELSE 0
      /\ \A i \in 1..(n - m + 1) : b[i] = s[m + i - 1]
  BY SubSeqType
<1> HIDE DEF a, b
<1>5. ASSUME NEW i \in 1..Len(a) PROVE a[i] = b[i]
  <2>1. i \in 1..(n - m + 1) /\ m + i - 1 \in 1..(Len(s) + Len(t)) /\ m + i - 1 <= Len(s)
    BY <1>1, <1>3
  <2> QED BY <1>2, <1>3, <1>4, <2>1
<1>6. a = b
  BY <1>3, <1>4, <1>5, SeqEqual
<1> QED BY <1>6 DEF a, b, u

-----------------------------------------------------------------------------
(* The bytes with a meaning.                                               *)

LEMMA Specials ==
  /\ CR \in Char /\ LF \in Char /\ Dash \in Char /\ ContentType \in Char
  /\ CR # LF /\ CR # Dash /\ CR # ContentType /\ LF # ContentType /\ LF # Dash
<1>1. {CR, LF, Dash, ContentType} \subseteq Literals
  BY Zenon DEF CR, LF, Dash, ContentType, Literals
<1>2. CR # LF /\ CR # Dash /\ CR # ContentType /\ LF # ContentType /\ LF # Dash
  BY Zenon DEF CR, LF, Dash, ContentType
<1> QED BY <1>1, <1>2, CharHas

LEMMA BoundaryIs ==
  /\ Boundary \in Seq(Char) /\ Len(Boundary) \in Nat \ {0}
  /\ \A i \in 1..Len(Boundary) : Boundary[i] \in Char /\ Boundary[i] # CR
<1>1. Boundary \in Seq(Char) /\ Boundary # <<>>
  BY BodyAssumption, TextOf
<1>2. Len(Boundary) \in Nat \ {0} /\ DOMAIN Boundary = 1..Len(Boundary)
  BY <1>1, LenProperties, EmptySeq
<1>3. \A i \in 1..Len(Boundary) : Boundary[i] \in Char
  BY <1>1, ElementOfSeq
<1>4. \A i \in 1..Len(Boundary) : Boundary[i] # CR
  BY <1>2, BodyAssumption DEF ToSet
<1> QED BY <1>1, <1>2, <1>3, <1>4

Pattern == CRLF \o Delimiter

LEMMA DelimiterIs ==
  /\ Delimiter \in Seq(Char) /\ Len(Delimiter) = Len(Boundary) + 2
  /\ Delimiter[1] = Dash /\ Delimiter[2] = Dash
  /\ \A i \in 1..Len(Boundary) : Delimiter[i + 2] = Boundary[i]
<1> DEFINE d == <<Dash, Dash>>
      n == Len(Boundary)
<1>1. d \in Seq(Char) /\ Len(d) = 2 /\ d[1] = Dash /\ d[2] = Dash
  BY Specials
<1> HIDE DEF d
<1>2. /\ d \o Boundary \in Seq(Char) /\ Len(d \o Boundary) = Len(d) + Len(Boundary)
      /\ \A i \in 1..(Len(d) + Len(Boundary)) : (d \o Boundary)[i] = IF i <= Len(d) THEN d[i] ELSE Boundary[i - Len(d)]
  BY <1>1, BoundaryIs, ConcatProperties
<1>3. Delimiter = d \o Boundary
  BY DEF Delimiter, d
<1>4. n \in Nat \ {0}
  BY BoundaryIs
<1>5. /\ Delimiter \in Seq(Char) /\ Len(Delimiter) = 2 + n
      /\ \A i \in 1..(2 + n) : Delimiter[i] = IF i <= 2 THEN d[i] ELSE Boundary[i - 2]
  BY <1>1, <1>2, <1>3
<1> HIDE DEF n
<1>6. 1 \in 1..(2 + n) /\ 2 \in 1..(2 + n) /\ \A i \in 1..n : i + 2 \in 1..(2 + n) /\ ~(i + 2 <= 2) /\ i + 2 - 2 = i
  BY <1>4
<1>7. Delimiter[1] = Dash /\ Delimiter[2] = Dash
  BY <1>1, <1>5, <1>6
<1>8. \A i \in 1..n : Delimiter[i + 2] = Boundary[i]
  BY <1>5, <1>6, SMTT(30)
<1>9. Len(Delimiter) = n + 2
  BY <1>4, <1>5
<1> QED BY <1>5, <1>7, <1>8, <1>9 DEF n

LEMMA CRLFIs == CRLF \in Seq(Char) /\ Len(CRLF) = 2 /\ CRLF[1] = CR /\ CRLF[2] = LF /\ CRLF # <<>>
BY Specials DEF CRLF

LEMMA PatternIs ==
  /\ Pattern \in Seq(Char) /\ Len(Pattern) = Len(Boundary) + 4
  /\ Pattern[1] = CR /\ Pattern[2] = LF /\ Pattern[3] = Dash /\ Pattern[4] = Dash
  /\ \A i \in 1..Len(Boundary) : Pattern[i + 4] = Boundary[i]
  /\ \A i \in 2..Len(Pattern) : Pattern[i] # CR
<1> DEFINE n == Len(Boundary)
<1>1. n \in Nat \ {0}
  BY BoundaryIs
<1>2. /\ Pattern \in Seq(Char) /\ Len(Pattern) = 2 + (n + 2)
      /\ \A i \in 1..(2 + (n + 2)) : Pattern[i] = IF i <= 2 THEN CRLF[i] ELSE Delimiter[i - 2]
  <2>1. /\ CRLF \o Delimiter \in Seq(Char) /\ Len(CRLF \o Delimiter) = Len(CRLF) + Len(Delimiter)
        /\ \A i \in 1..(Len(CRLF) + Len(Delimiter)) :
             (CRLF \o Delimiter)[i] = IF i <= Len(CRLF) THEN CRLF[i] ELSE Delimiter[i - Len(CRLF)]
    BY CRLFIs, DelimiterIs, ConcatProperties
  <2> QED BY <2>1, CRLFIs, DelimiterIs DEF Pattern
<1> HIDE DEF n
<1>3. /\ 1 \in 1..(2 + (n + 2)) /\ 2 \in 1..(2 + (n + 2)) /\ 3 \in 1..(2 + (n + 2)) /\ 4 \in 1..(2 + (n + 2))
      /\ 3 - 2 = 1 /\ 4 - 2 = 2
      /\ \A i \in 1..n : i + 4 \in 1..(2 + (n + 2)) /\ ~(i + 4 <= 2) /\ i + 4 - 2 = i + 2
  BY <1>1
<1>4. Pattern[1] = CR /\ Pattern[2] = LF /\ Pattern[3] = Dash /\ Pattern[4] = Dash
  BY <1>2, <1>3, CRLFIs, DelimiterIs
<1>5. ASSUME NEW i \in 1..n PROVE Pattern[i + 4] = Boundary[i]
  <2>1. Pattern[i + 4] = Delimiter[i + 2]
    BY <1>2, <1>3
  <2>2. Delimiter[i + 2] = Boundary[i]
    BY DelimiterIs DEF n
  <2> QED BY <2>1, <2>2
<1>6. ASSUME NEW i \in 2..(n + 4) PROVE Pattern[i] # CR
  <2>1. i \in {2, 3, 4} \/ (i - 4 \in 1..n /\ i - 4 + 4 = i)
    BY <1>1
  <2>2. CASE i \in {2, 3, 4}
    BY <1>4, <2>2, Specials
  <2>3. CASE i - 4 \in 1..n /\ i - 4 + 4 = i
    <3>1. Pattern[i] = Boundary[i - 4]
      BY <1>5, <2>3
    <3> QED BY <2>3, <3>1, BoundaryIs DEF n
  <2> QED BY <2>1, <2>2, <2>3
<1>7. Len(Pattern) = n + 4
  BY <1>1, <1>2
<1> QED BY <1>2, <1>4, <1>5, <1>6, <1>7 DEF n

-----------------------------------------------------------------------------
(* Where a boundary may be.                                                *)

\* No boundary is inside the text of an item.
Plain(text) == \A n \in 0..Len(text) : ~IsPrefix(Pattern, From(n, text))

\* m bytes of a boundary were read after the first j of an item.
Matches(text, j, m) ==
  /\ j \in 0..Len(text) /\ m \in 0..(Len(Pattern) - 1) /\ j + m < Len(text) + Len(Pattern)
  /\ \A i \in 1..m : (text \o Pattern)[j + i] = Pattern[i]

LEMMA ItemIs ==
  ASSUME NEW text \in Seq(Char)
  PROVE  /\ text \o Pattern \in Seq(Char) /\ Len(text \o Pattern) = Len(text) + Len(Pattern)
         /\ Len(text) \in Nat /\ Len(Pattern) \in Nat /\ Len(Pattern) > 4
         /\ \A i \in 1..Len(text) : (text \o Pattern)[i] = text[i]
         /\ \A i \in 1..Len(Pattern) : (text \o Pattern)[Len(text) + i] = Pattern[i]
<1> DEFINE w == text \o Pattern
      a == Len(text)
      b == Len(Pattern)
<1>1. /\ w \in Seq(Char) /\ Len(w) = a + b
      /\ \A i \in 1..(a + b) : w[i] = IF i <= a THEN text[i] ELSE Pattern[i - a]
  BY PatternIs, ConcatProperties
<1>2. a \in Nat /\ b \in Nat /\ b > 4
  BY PatternIs, BoundaryIs, LenProperties
<1> HIDE DEF w, a, b
<1>3. \A i \in 1..a : w[i] = text[i]
  BY <1>1, <1>2
<1>4. ASSUME NEW i \in 1..b PROVE w[a + i] = Pattern[i]
  <2> DEFINE k == a + i
  <2>1. k \in 1..(a + b) /\ ~(k <= a) /\ k - a = i
    BY <1>2
  <2> HIDE DEF k
  <2>2. w[k] = Pattern[i]
    BY <1>1, <2>1
  <2> QED BY <2>2 DEF k
<1> QED BY <1>1, <1>2, <1>3, <1>4 DEF w, a, b

LEMMA WholeMatch ==
  ASSUME NEW text \in Seq(Char), Plain(text), NEW j, NEW m, Matches(text, j, m),
         m + 1 = Len(Pattern), (text \o Pattern)[j + m + 1] = Pattern[m + 1]
  PROVE  j = Len(text)
<1> DEFINE w == text \o Pattern
      a == Len(text)
      b == Len(Pattern)
<1>1. /\ w \in Seq(Char) /\ Len(w) = a + b /\ a \in Nat /\ b \in Nat /\ b > 4
      /\ \A i \in 1..a : w[i] = text[i]
      /\ \A i \in 1..b : w[a + i] = Pattern[i]
  BY ItemIs
<1>2. /\ j \in 0..a /\ m \in 0..(b - 1) /\ j + m < a + b /\ m + 1 = b
      /\ \A i \in 1..m : w[j + i] = Pattern[i]
      /\ w[j + m + 1] = Pattern[m + 1]
  BY DEF Matches
<1>0. a \in Nat /\ b \in Nat /\ b > 4 /\ j \in 0..a /\ m \in 0..(b - 1) /\ j + m < a + b /\ m + 1 = b
  BY <1>1, <1>2
<1>p. Pattern[1] = CR /\ \A i \in 2..b : Pattern[i] # CR
  BY PatternIs
<1> HIDE DEF w, a, b
<1>3. \A i \in 1..b : w[j + i] = Pattern[i]
  <2> SUFFICES ASSUME NEW i \in 1..b PROVE w[j + i] = Pattern[i]
    OBVIOUS
  <2>1. CASE i = m + 1
    <3>1. j + i = j + m + 1
      BY <1>0, <2>1
    <3> QED BY <1>2, <2>1, <3>1
  <2>2. CASE i # m + 1
    <3>1. i \in 1..m
      BY <1>0, <2>2
    <3> QED BY <1>2, <3>1
  <2> QED BY <2>1, <2>2
<1> SUFFICES ASSUME j # a PROVE FALSE
  BY DEF a
<1>4. CASE j + b <= a
  <2> DEFINE t == From(j, text)
  <2>1. /\ t \in Seq(Char) /\ Len(t) = a - j /\ \A i \in 1..(a - j) : t[i] = text[j + i]
    <3>1. j \in 0..Len(text)
      BY <1>2 DEF a
    <3> QED BY <3>1, FirstFrom DEF a
  <2> HIDE DEF t
  <2>2. b \in 0..Len(t) /\ b \in 0..Len(Pattern)
    BY <1>1, <1>2, <1>4, <2>1 DEF b
  <2>3. First(b, t) \in Seq(Char) /\ Len(First(b, t)) = b /\ \A i \in 1..b : First(b, t)[i] = t[i]
    BY <2>1, <2>2, FirstFrom
  <2>4. ASSUME NEW i \in 1..b PROVE First(b, t)[i] = Pattern[i]
    <3>1. i \in 1..(a - j) /\ j + i \in 1..a
      BY <1>0, <1>4
    <3> QED BY <1>1, <1>3, <2>1, <2>3, <3>1
  <2>5. First(b, t) = Pattern
    BY <2>3, <2>4, PatternIs, SeqEqual DEF b
  <2>6. First(b, Pattern) = Pattern
    BY PatternIs, FromEnds DEF b
  <2>7. IsPrefix(Pattern, t)
    <3>1. Len(Pattern) <= Len(t)
      BY <1>1, <2>2 DEF b
    <3>2. SubSeq(Pattern, 1, Len(Pattern)) = SubSeq(t, 1, Len(Pattern))
      BY <2>5, <2>6 DEF First, b
    <3> QED BY <3>1, <3>2 DEF IsPrefix
  <2>8. j \in 0..Len(text)
    BY <1>2 DEF a
  <2> QED BY <2>7, <2>8 DEF Plain, t
<1>5. CASE j + b > a
  <2> DEFINE i == a + 1 - j
  <2>1. i \in 2..b /\ i \in 1..b /\ j + i = a + 1 /\ 1 \in 1..b
    BY <1>0, <1>5
  <2>2. w[j + i] = Pattern[i]
    BY <1>3, <2>1
  <2>3. w[a + 1] = Pattern[1]
    BY <1>1, <2>1
  <2> HIDE DEF i
  <2> QED BY <1>p, <2>1, <2>2, <2>3
<1>6. j + b <= a \/ j + b > a
  BY <1>0
<1> QED BY <1>4, <1>5, <1>6

LEMMA NoMatch ==
  ASSUME NEW text \in Seq(Char), NEW j, NEW m, Matches(text, j, m),
         (text \o Pattern)[j + m + 1] # Pattern[m + 1]
  PROVE  /\ j + m <= Len(text) /\ First(m, Pattern) = SubSeq(text, j + 1, j + m)
         /\ (text \o Pattern)[j + m + 1] # CR =>
              j + m + 1 <= Len(text) /\ (text \o Pattern)[j + m + 1] = text[j + m + 1]
         /\ (text \o Pattern)[j + m + 1] = CR => m > 0
<1> DEFINE w == text \o Pattern
      a == Len(text)
      b == Len(Pattern)
<1>1. /\ w \in Seq(Char) /\ Len(w) = a + b /\ a \in Nat /\ b \in Nat /\ b > 4
      /\ \A i \in 1..a : w[i] = text[i]
      /\ \A i \in 1..b : w[a + i] = Pattern[i]
  BY ItemIs
<1>2. /\ j \in 0..a /\ m \in 0..(b - 1) /\ j + m < a + b
      /\ \A i \in 1..m : w[j + i] = Pattern[i]
      /\ w[j + m + 1] # Pattern[m + 1]
  BY DEF Matches
<1>0. a \in Nat /\ b \in Nat /\ b > 4 /\ j \in 0..a /\ m \in 0..(b - 1) /\ j + m < a + b
  BY <1>1, <1>2
<1>p. Pattern[1] = CR /\ \A i \in 2..b : Pattern[i] # CR
  BY PatternIs
<1> HIDE DEF w, a, b
<1>3. j + m <= a
  <2> SUFFICES ASSUME j + m > a PROVE FALSE
    BY <1>0
  <2>1. j # a
    <3> SUFFICES ASSUME j = a PROVE FALSE
      OBVIOUS
    <3>1. m + 1 \in 1..b /\ a + (m + 1) = j + m + 1
      BY <1>0
    <3>2. w[a + (m + 1)] = Pattern[m + 1]
      BY <1>1, <3>1
    <3> QED BY <1>2, <3>1, <3>2
  <2> DEFINE i == a + 1 - j
  <2>2. i \in 2..b /\ i \in 1..m /\ j + i = a + 1 /\ 1 \in 1..b
    BY <1>0, <2>1
  <2>3. w[j + i] = Pattern[i]
    BY <1>2, <2>2
  <2>4. w[a + 1] = Pattern[1]
    BY <1>1, <2>2
  <2> HIDE DEF i
  <2> QED BY <1>p, <2>2, <2>3, <2>4
<1>4. First(m, Pattern) = SubSeq(text, j + 1, j + m)
  <2> DEFINE k == j + 1
        l == j + m
        t == SubSeq(text, k, l)
  <2>0. k \in Nat \ {0} /\ l \in Nat /\ l <= Len(text) /\ l - k + 1 = m /\ (k <= l <=> m # 0)
        /\ \A i \in 1..m : k + i - 1 = j + i /\ j + i \in 1..a
    BY <1>0, <1>3 DEF a
  <2>1. t \in Seq(Char) /\ Len(t) = m /\ \A i \in 1..m : t[i] = text[j + i]
    <3> HIDE DEF k, l
    <3>1. /\ t \in Seq(Char) /\ Len(t) = IF k <= l THEN l - k + 1 ELSE 0
          /\ \A i \in 1..(l - k + 1) : t[i] = text[k + i - 1]
      BY <2>0, SubSeqType
    <3> HIDE DEF t
    <3>2. Len(t) = m
      BY <1>0, <2>0, <3>1
    <3>3. ASSUME NEW i \in 1..m PROVE t[i] = text[j + i]
      <4>1. k + i - 1 = j + i
        BY <2>0
      <4>2. t[i] = text[k + i - 1]
        BY <2>0, <3>1
      <4> QED BY <4>1, <4>2
    <3> QED BY <3>1, <3>2, <3>3
  <2> HIDE DEF t
  <2>3. First(m, Pattern) \in Seq(Char) /\ Len(First(m, Pattern)) = m /\ \A i \in 1..m : First(m, Pattern)[i] = Pattern[i]
    <3>1. m \in 0..Len(Pattern)
      BY <1>1, <1>2 DEF b
    <3> QED BY <3>1, PatternIs, FirstFrom
  <2>4. ASSUME NEW i \in 1..m PROVE First(m, Pattern)[i] = t[i]
    <3>1. t[i] = text[j + i] /\ j + i \in 1..a
      BY <2>0, <2>1
    <3> QED BY <1>1, <1>2, <2>3, <3>1
  <2>5. First(m, Pattern) = t
    BY <2>1, <2>3, <2>4, SeqEqual
  <2> QED BY <2>5 DEF t
<1>5. w[j + m + 1] # CR => j + m + 1 <= a /\ w[j + m + 1] = text[j + m + 1]
  <2>1. CASE j + m = a
    <3>1. 1 \in 1..b /\ j + m + 1 = a + 1
      BY <1>0, <2>1
    <3>2. w[a + 1] = Pattern[1]
      BY <1>1, <3>1
    <3> QED BY <1>p, <3>1, <3>2
  <2>2. CASE j + m # a
    <3>1. j + m + 1 \in 1..a /\ j + m + 1 <= a
      BY <1>0, <1>3, <2>2
    <3> QED BY <1>1, <3>1
  <2> QED BY <2>1, <2>2
<1>6. w[j + m + 1] = CR => m > 0
  <2> SUFFICES ASSUME w[j + m + 1] = CR, ~(m > 0) PROVE FALSE
    OBVIOUS
  <2>1. m = 0 /\ m + 1 = 1
    BY <1>0
  <2> QED BY <1>2, <1>p, <2>1
<1> QED BY <1>3, <1>4, <1>5, <1>6 DEF w, a, b

QueryParam == [name : Seq(Char), value : Seq(Char), kind : {"query"}]
Param == [name : Seq(Char), value : Seq(Char), kind : {"query", "post", "file"}]
Piece == [name : Seq(Char), index : Int, data : Seq(Char), final : BOOLEAN]
ParserType ==
  [state : MultiStates, parsed : Nat, length : Nat, temp : Seq(Char), at : Nat, name : Seq(Char),
   isFile : BOOLEAN, size : Nat, value : Seq(Char), buffer : Seq(Char), params : Seq(Param),
   uploads : Seq(Piece)]

-----------------------------------------------------------------------------
(* The pieces of a file.                                                   *)

Of(us, f) == {x \in DOMAIN us : us[x].name = f.name}
End(us, x) == us[x].index + Len(us[x].data)
Chain(us, f) ==
  \A x \in Of(us, f) :
    /\ us[x].index = IF x - 1 \in Of(us, f) THEN End(us, x - 1) ELSE 0
    /\ us[x].data = SubSeq(f.value, us[x].index + 1, End(us, x))

\* The handler was given all of f.
Whole(us, f) ==
  /\ Chain(us, f) /\ (f.value # <<>> => \E x \in Of(us, f) : us[x].final)
  /\ \A x \in Of(us, f) :
       /\ us[x].final => End(us, x) = Len(f.value) /\ \A y \in Of(us, f) : y <= x
       /\ ~us[x].final => x + 1 \in Of(us, f)

\* The handler was given the first j bytes of f, and is not yet to know the end.
Partly(us, f, j) ==
  /\ Chain(us, f)
  /\ \A x \in Of(us, f) : ~us[x].final /\ (x = Len(us) \/ x + 1 \in Of(us, f))
  /\ IF Of(us, f) = {} THEN j = 0 ELSE j > 0 /\ Len(us) \in Of(us, f) /\ End(us, Len(us)) = j

LEMMA OfAppend ==
  ASSUME NEW us \in Seq(Piece), NEW u \in Piece, NEW f
  PROVE  /\ Append(us, u) \in Seq(Piece) /\ Len(Append(us, u)) = Len(us) + 1 /\ Len(us) \in Nat
         /\ Of(us, f) \subseteq 1..Len(us)
         /\ Of(Append(us, u), f) = IF u.name = f.name THEN Of(us, f) \union {Len(us) + 1} ELSE Of(us, f)
         /\ \A x \in 1..Len(us) : Append(us, u)[x] = us[x] /\ End(Append(us, u), x) = End(us, x)
         /\ Append(us, u)[Len(us) + 1] = u
         /\ End(Append(us, u), Len(us) + 1) = u.index + Len(u.data)
<1> DEFINE n == Len(us)
      w == Append(us, u)
<1>1. n \in Nat /\ DOMAIN us = 1..n
  BY LenProperties
<1>2. w \in Seq(Piece) /\ Len(w) = n + 1 /\ (\A x \in 1..n : w[x] = us[x]) /\ w[n + 1] = u
  BY AppendProperties
<1>3. DOMAIN w = 1..(n + 1)
  BY <1>2, LenProperties
<1> HIDE DEF n, w
<1>4. Of(us, f) \subseteq 1..n
  BY <1>1 DEF Of
<1>5. Of(w, f) = IF u.name = f.name THEN Of(us, f) \union {n + 1} ELSE Of(us, f)
  <2>1. 1..(n + 1) = (1..n) \union {n + 1} /\ n + 1 \notin 1..n
    BY <1>1
  <2>2. \A x \in 1..n : x \in Of(w, f) <=> x \in Of(us, f)
    BY <1>1, <1>2, <1>3, <2>1 DEF Of
  <2>3. n + 1 \in Of(w, f) <=> u.name = f.name
    BY <1>2, <1>3, <2>1 DEF Of
  <2>4. Of(w, f) \subseteq 1..(n + 1)
    BY <1>3 DEF Of
  <2>5. CASE u.name = f.name
    <3>1. Of(us, f) \union {n + 1} \subseteq Of(w, f)
      BY <1>4, <2>2, <2>3, <2>5
    <3>2. Of(w, f) \subseteq Of(us, f) \union {n + 1}
      BY <2>1, <2>2, <2>4
    <3> QED BY <2>5, <3>1, <3>2
  <2>6. CASE u.name # f.name
    <3>1. Of(us, f) \subseteq Of(w, f)
      BY <1>4, <2>2
    <3>2. Of(w, f) \subseteq Of(us, f)
      BY <2>1, <2>2, <2>3, <2>4, <2>6
    <3> QED BY <2>6, <3>1, <3>2
  <2> QED BY <2>5, <2>6
<1>6. \A x \in 1..n : End(w, x) = End(us, x)
  BY <1>2 DEF End
<1>7. End(w, n + 1) = u.index + Len(u.data)
  BY <1>2 DEF End
<1> QED BY <1>1, <1>2, <1>4, <1>5, <1>6, <1>7 DEF n, w

LEMMA ChainAppend ==
  ASSUME NEW us \in Seq(Piece), NEW u \in Piece, NEW f, Chain(us, f),
         u.name = f.name => /\ u.index = IF Len(us) \in Of(us, f) THEN End(us, Len(us)) ELSE 0
                            /\ u.data = SubSeq(f.value, u.index + 1, u.index + Len(u.data))
  PROVE  Chain(Append(us, u), f)
<1> DEFINE n == Len(us)
      w == Append(us, u)
<1>1. /\ n \in Nat /\ Of(us, f) \subseteq 1..n
      /\ Of(w, f) = IF u.name = f.name THEN Of(us, f) \union {n + 1} ELSE Of(us, f)
      /\ \A x \in 1..n : w[x] = us[x] /\ End(w, x) = End(us, x)
      /\ w[n + 1] = u /\ End(w, n + 1) = u.index + Len(u.data)
  BY OfAppend
<1>2. u.name = f.name => /\ u.index = IF n \in Of(us, f) THEN End(us, n) ELSE 0
                         /\ u.data = SubSeq(f.value, u.index + 1, u.index + Len(u.data))
  OBVIOUS
<1> HIDE DEF n, w
<1> SUFFICES ASSUME NEW x \in Of(w, f)
             PROVE  /\ w[x].index = IF x - 1 \in Of(w, f) THEN End(w, x - 1) ELSE 0
                    /\ w[x].data = SubSeq(f.value, w[x].index + 1, End(w, x))
  BY DEF Chain, w
<1>3. CASE x \in Of(us, f)
  <2>1. x \in 1..n /\ x - 1 # n + 1 /\ (x - 1 \in Of(w, f) <=> x - 1 \in Of(us, f))
    BY <1>1, <1>3
  <2>2. x - 1 \in Of(us, f) => End(w, x - 1) = End(us, x - 1)
    BY <1>1
  <2>3. /\ us[x].index = IF x - 1 \in Of(us, f) THEN End(us, x - 1) ELSE 0
        /\ us[x].data = SubSeq(f.value, us[x].index + 1, End(us, x))
    BY <1>3 DEF Chain
  <2> QED BY <1>1, <2>1, <2>2, <2>3
<1>4. CASE x \notin Of(us, f)
  <2>1. x = n + 1 /\ u.name = f.name
    BY <1>1, <1>4
  <2> DEFINE k == x - 1
  <2>2. k = n /\ k # n + 1 /\ (k \in Of(w, f) <=> n \in Of(us, f))
    BY <1>1, <2>1
  <2>3. n \in Of(us, f) => End(w, n) = End(us, n)
    BY <1>1
  <2> HIDE DEF k
  <2>4. w[x].index = IF k \in Of(w, f) THEN End(w, k) ELSE 0
    BY <1>1, <1>2, <2>1, <2>2, <2>3
  <2>5. w[x].data = SubSeq(f.value, w[x].index + 1, End(w, x))
    BY <1>1, <1>2, <2>1
  <2> QED BY <2>4, <2>5 DEF k
<1> QED BY <1>3, <1>4

LEMMA WholeOther ==
  ASSUME NEW us \in Seq(Piece), NEW u \in Piece, NEW f, u.name # f.name, Whole(us, f)
  PROVE  Whole(Append(us, u), f)
<1> DEFINE n == Len(us)
      w == Append(us, u)
<1>1. /\ n \in Nat /\ Of(us, f) \subseteq 1..n /\ Of(w, f) = Of(us, f)
      /\ \A x \in 1..n : w[x] = us[x] /\ End(w, x) = End(us, x)
  BY OfAppend
<1>2. Chain(w, f)
  BY ChainAppend DEF Whole
<1> HIDE DEF n, w
<1>3. \A x \in Of(w, f) : w[x] = us[x] /\ End(w, x) = End(us, x)
  BY <1>1
<1>4. Whole(w, f)
  BY <1>1, <1>2, <1>3 DEF Whole
<1> QED BY <1>4 DEF w

LEMMA PieceGiven ==
  ASSUME NEW us \in Seq(Piece), NEW f, NEW j, Partly(us, f, j), NEW u \in Piece,
         u.name = f.name, u.index = j, u.data = SubSeq(f.value, j + 1, j + Len(u.data)), j \in Nat
  PROVE  /\ ~u.final /\ u.data # <<>> => Partly(Append(us, u), f, j + Len(u.data))
         /\ u.final /\ j + Len(u.data) = Len(f.value) => Whole(Append(us, u), f)
<1> DEFINE n == Len(us)
      w == Append(us, u)
      l == Len(u.data)
<1>1. /\ n \in Nat /\ Of(us, f) \subseteq 1..n /\ Of(w, f) = Of(us, f) \union {n + 1}
      /\ (\A x \in 1..n : w[x] = us[x] /\ End(w, x) = End(us, x)) /\ Len(w) = n + 1
      /\ w[n + 1] = u /\ End(w, n + 1) = u.index + l
  BY OfAppend
<1>2. l \in Nat /\ (u.data # <<>> => l > 0)
  BY LenProperties, EmptySeq DEF Piece
<1>3. u.index = IF n \in Of(us, f) THEN End(us, n) ELSE 0
  BY DEF Partly
<1>4. Chain(w, f)
  BY <1>3, ChainAppend DEF Partly
<1> HIDE DEF n, w, l
<1>5. \A x \in Of(us, f) : ~w[x].final /\ x + 1 \in Of(w, f) /\ x <= n + 1 /\ x \in 1..n
  <2> SUFFICES ASSUME NEW x \in Of(us, f) PROVE ~w[x].final /\ x + 1 \in Of(w, f) /\ x <= n + 1 /\ x \in 1..n
    OBVIOUS
  <2>1. ~us[x].final /\ (x = n \/ x + 1 \in Of(us, f))
    BY DEF Partly, n
  <2> QED BY <1>1, <2>1
<1>6. ASSUME ~u.final, u.data # <<>> PROVE Partly(w, f, j + l)
  <2>1. \A x \in Of(w, f) : ~w[x].final /\ (x = Len(w) \/ x + 1 \in Of(w, f))
    BY <1>1, <1>5, <1>6
  <2>2. Of(w, f) # {} /\ j + l > 0 /\ Len(w) \in Of(w, f) /\ End(w, Len(w)) = j + l
    BY <1>1, <1>2, <1>6
  <2> QED BY <1>4, <2>1, <2>2 DEF Partly
<1>7. ASSUME u.final, j + l = Len(f.value) PROVE Whole(w, f)
  <2>1. n + 1 \in Of(w, f) /\ w[n + 1].final
    BY <1>1, <1>7
  <2>2. \A y \in Of(w, f) : y <= n + 1
    BY <1>1, <1>5
  <2>3. End(w, n + 1) = Len(f.value)
    BY <1>1, <1>7
  <2>4. \A x \in Of(w, f) : x = n + 1 \/ x \in Of(us, f)
    BY <1>1
  <2>5. \A x \in Of(w, f) : /\ w[x].final => End(w, x) = Len(f.value) /\ \A y \in Of(w, f) : y <= x
                            /\ ~w[x].final => x + 1 \in Of(w, f)
    BY <1>5, <2>1, <2>2, <2>3, <2>4
  <2> QED BY <1>4, <2>1, <2>5 DEF Whole
<1> QED BY <1>6, <1>7 DEF w, l

FieldType == [name : Seq(Char), value : Seq(Char)]

\* The first j bytes of f were taken.
ItemData(p, f, j) ==
  /\ j \in 0..Len(f.value) /\ p.size = j /\ p.name = f.name /\ p.isFile = IsFile(f)
  /\ Len(p.buffer) < BufferSize
  /\ ~IsFile(f) => p.value = First(j, f.value) /\ p.buffer = <<>>
  /\ IsFile(f) => /\ Len(p.buffer) <= j /\ p.buffer = SubSeq(f.value, j - Len(p.buffer) + 1, j)
                  /\ Partly(p.uploads, f, j - Len(p.buffer))

\* Nothing but pieces of f came to those of us.
Adds(us, ws, f) ==
  /\ \A g : g.name # f.name /\ Whole(us, g) => Whole(ws, g)
  /\ \A x \in DOMAIN ws : (ws[x].name = f.name /\ IsFile(f)) \/ \E y \in DOMAIN us : us[y].name = ws[x].name

\* What reading an item leaves alone.
SamePlace(p, q) ==
  /\ q.parsed = p.parsed /\ q.length = p.length /\ q.temp = p.temp /\ q.at = p.at /\ q.params = p.params
  /\ q.name = p.name /\ q.isFile = p.isFile

LEMMA AddsSelf == ASSUME NEW us, NEW f PROVE Adds(us, us, f)
BY DEF Adds

LEMMA AddsAdds ==
  ASSUME NEW us, NEW ws, NEW zs, NEW f, Adds(us, ws, f), Adds(ws, zs, f)
  PROVE  Adds(us, zs, f)
BY DEF Adds

LEMMA AddsOne ==
  ASSUME NEW us \in Seq(Piece), NEW u \in Piece, NEW f, u.name = f.name, IsFile(f)
  PROVE  Adds(us, Append(us, u), f)
<1> DEFINE w == Append(us, u)
<1>1. /\ DOMAIN w = 1..(Len(us) + 1) /\ DOMAIN us = 1..Len(us) /\ Len(us) \in Nat
      /\ \A x \in 1..Len(us) : w[x] = us[x]
      /\ w[Len(us) + 1] = u
  BY OfAppend, LenProperties
<1>2. \A g : g.name # f.name /\ Whole(us, g) => Whole(w, g)
  BY WholeOther
<1> HIDE DEF w
<1>3. ASSUME NEW x \in DOMAIN w PROVE (w[x].name = f.name /\ IsFile(f)) \/ \E y \in DOMAIN us : us[y].name = w[x].name
  <2>1. x = Len(us) + 1 \/ x \in 1..Len(us)
    BY <1>1
  <2> QED BY <1>1, <2>1
<1>4. Adds(us, w, f)
  BY <1>2, <1>3 DEF Adds
<1> QED BY <1>4 DEF w

\* A slice grows by the byte after it.
LEMMA SliceNext ==
  ASSUME NEW s \in Seq(Char), NEW n \in Nat, NEW j \in Nat, n <= j, j < Len(s)
  PROVE  Append(SubSeq(s, n + 1, j), s[j + 1]) = SubSeq(s, n + 1, j + 1) /\ s[j + 1] \in Char
         /\ SubSeq(s, n + 1, j) \in Seq(Char) /\ Len(SubSeq(s, n + 1, j)) = j - n
<1> DEFINE l == n + 1
      k == j + 1
      a == SubSeq(s, l, j)
      b == SubSeq(s, l, k)
      c == s[k]
<1>0. Len(s) \in Nat
  BY LenProperties
<1>1. /\ l \in Nat \ {0} /\ k \in Nat /\ k <= Len(s) /\ j <= Len(s) /\ k \in 1..Len(s) /\ l <= k
      /\ j - l + 1 = j - n /\ k - l + 1 = j - n + 1 /\ (l <= j <=> n # j) /\ j - n \in Nat /\ l + (j - n) = k
  BY <1>0
<1>2. c \in Char
  BY <1>1, ElementOfSeq
<1> HIDE DEF l, k, c
<1>3. /\ a \in Seq(Char) /\ Len(a) = IF l <= j THEN j - l + 1 ELSE 0
      /\ \A i \in 1..(j - l + 1) : a[i] = s[l + i - 1]
  <2>1. l \in Nat \ {0} /\ j <= Len(s)
    BY <1>1
  <2> QED BY <2>1, SubSeqType
<1>4. /\ b \in Seq(Char) /\ Len(b) = IF l <= k THEN k - l + 1 ELSE 0
      /\ \A i \in 1..(k - l + 1) : b[i] = s[l + i - 1]
  <2>1. l \in Nat \ {0} /\ k \in Nat /\ k <= Len(s)
    BY <1>1
  <2> QED BY <2>1, SubSeqType
<1> HIDE DEF a, b
<1> DEFINE m == j - n
<1>5. m \in Nat /\ Len(a) = m /\ Len(b) = m + 1
  BY <1>1, <1>3, <1>4
<1>6. (\A i \in 1..m : a[i] = s[l + i - 1]) /\ \A i \in 1..(m + 1) : b[i] = s[l + i - 1]
  BY <1>1, <1>3, <1>4
<1>7. l + (m + 1) - 1 = k
  BY <1>1
<1> HIDE DEF m
<1>8. /\ Append(a, c) \in Seq(Char) /\ Len(Append(a, c)) = m + 1
      /\ (\A i \in 1..m : Append(a, c)[i] = a[i]) /\ Append(a, c)[m + 1] = c
  BY <1>2, <1>3, <1>5, AppendProperties
<1>9. ASSUME NEW i \in 1..(m + 1) PROVE Append(a, c)[i] = b[i]
  <2>1. CASE i = m + 1
    <3>1. b[m + 1] = s[l + (m + 1) - 1]
      BY <1>5, <1>6
    <3>2. b[m + 1] = c
      BY <1>7, <3>1 DEF c
    <3> QED BY <1>8, <2>1, <3>2
  <2>2. CASE i # m + 1
    <3>1. i \in 1..m
      BY <1>5, <2>2
    <3> QED BY <1>6, <1>8, <3>1
  <2> QED BY <2>1, <2>2
<1>10. Append(a, c) = b
  BY <1>4, <1>5, <1>8, <1>9, SeqEqual
<1> QED BY <1>2, <1>3, <1>5, <1>10 DEF a, b, c, k, l, m

LEMMA WriteByteData ==
  ASSUME NEW p \in ParserType, NEW f \in FieldType, NEW j, ItemData(p, f, j), j < Len(f.value), NEW last \in BOOLEAN
  PROVE  LET q == WriteByte(p, f.value[j + 1], last)
         IN  /\ q \in ParserType /\ ItemData(q, f, j + 1) /\ SamePlace(p, q) /\ q.state = p.state
             /\ Adds(p.uploads, q.uploads, f)
<1> DEFINE v == f.value
      c == v[j + 1]
      q == WriteByte(p, c, last)
<1>1. v \in Seq(Char) /\ f.name \in Seq(Char) /\ Len(v) \in Nat /\ j \in Nat /\ j + 1 \in 0..Len(v)
  <2>1. v \in Seq(Char) /\ f.name \in Seq(Char)
    BY DEF FieldType
  <2>2. Len(v) \in Nat
    BY <2>1, LenProperties
  <2>3. j \in 0..Len(v)
    BY DEF ItemData
  <2> QED BY <2>1, <2>2, <2>3
<1>2. c \in Char /\ First(j + 1, v) = Append(First(j, v), c)
  BY <1>1, FromNext
<1> HIDE DEF c
<1>3. /\ p.size = j /\ p.name = f.name /\ p.isFile = IsFile(f) /\ p.size \in Nat /\ p.value \in Seq(Char)
      /\ p.buffer \in Seq(Char) /\ Len(p.buffer) < BufferSize /\ p.uploads \in Seq(Piece) /\ BufferSize \in Nat \ {0}
  BY BodyAssumption DEF ItemData, ParserType
<1>4. CASE ~IsFile(f)
  <2>1. q = [p EXCEPT !.size = @ + 1, !.value = Append(@, c)]
    BY <1>3, <1>4 DEF WriteByte
  <2>2. Append(p.value, c) \in Seq(Char) /\ p.size + 1 \in Nat
    BY <1>2, <1>3, AppendProperties
  <2>3. q \in ParserType
    BY <2>1, <2>2 DEF ParserType
  <2>4. q.size = j + 1 /\ q.value = Append(p.value, c) /\ q.uploads = p.uploads /\ q.buffer = p.buffer
        /\ SamePlace(p, q) /\ q.state = p.state
    BY <1>3, <2>1 DEF ParserType, SamePlace
  <2>5. p.value = First(j, v) /\ p.buffer = <<>>
    BY <1>4 DEF ItemData
  <2> HIDE DEF q
  <2>6. ItemData(q, f, j + 1)
    <3>1. q.name = f.name /\ q.isFile = IsFile(f)
      BY <1>3, <2>4 DEF SamePlace
    <3>2. q.value = First(j + 1, v)
      BY <1>2, <2>4, <2>5
    <3> QED BY <1>1, <1>3, <1>4, <2>4, <2>5, <3>1, <3>2 DEF ItemData
  <2> QED BY <2>3, <2>4, <2>6, AddsSelf DEF q, c
<1>5. CASE IsFile(f)
  <2> DEFINE r == [p EXCEPT !.size = @ + 1, !.buffer = Append(@, c)]
        b == Append(p.buffer, c)
        n == Len(p.buffer)
        u == Upload(r, b, FALSE)
  <2>1. /\ n \in Nat /\ n <= j /\ p.buffer = SubSeq(v, j - n + 1, j) /\ Partly(p.uploads, f, j - n) /\ n < BufferSize
    BY <1>3, <1>5, LenProperties DEF ItemData
  <2>2. b \in Seq(Char) /\ Len(b) = n + 1 /\ b # <<>>
    <3>1. p.buffer \in Seq(Char) /\ c \in Char
      BY <1>2, <1>3
    <3> HIDE DEF c
    <3> QED BY <3>1, AppendProperties
  <2>3. b = SubSeq(v, j - n + 1, j + 1)
    <3> DEFINE k == j - n
    <3>1. k \in Nat /\ k <= j /\ j < Len(v)
      BY <1>1, <2>1
    <3> HIDE DEF k
    <3>2. Append(SubSeq(v, k + 1, j), v[j + 1]) = SubSeq(v, k + 1, j + 1)
      BY <1>1, <3>1, SliceNext
    <3> HIDE DEF n
    <3> QED BY <2>1, <3>2 DEF k, c
  <2> HIDE DEF n, b
  <2>4. r \in ParserType /\ r.size = j + 1 /\ r.buffer = b /\ r.uploads = p.uploads /\ r.name = f.name
        /\ SamePlace(p, r) /\ r.state = p.state /\ r.isFile = IsFile(f)
    <3>1. p.size + 1 \in Nat /\ b = Append(p.buffer, c)
      BY <1>3 DEF b
    <3>2. r \in ParserType
      BY <2>2, <3>1 DEF ParserType
    <3> QED BY <1>3, <3>1, <3>2 DEF ParserType, SamePlace
  <2>5. q = IF last \/ Len(b) = BufferSize THEN [r EXCEPT !.uploads = Append(@, u), !.buffer = <<>>] ELSE r
    <3> HIDE DEF u
    <3>1. q = LET x == r IN IF last \/ Len(x.buffer) = BufferSize
                             THEN [x EXCEPT !.uploads = Append(@, Upload(x, x.buffer, FALSE)), !.buffer = <<>>]
                             ELSE x
      BY <1>3, <1>5 DEF WriteByte
    <3> HIDE DEF r, q
    <3> QED BY <2>4, <3>1 DEF u
  <2>6. u = [name |-> f.name, index |-> j - n, data |-> b, final |-> FALSE]
    <3>1. j + 1 - Len(b) = j - n
      BY <1>1, <2>1, <2>2
    <3>2. u = [name |-> r.name, index |-> r.size - Len(b), data |-> b, final |-> FALSE]
      BY DEF Upload
    <3> HIDE DEF r, u
    <3>3. r.name = f.name /\ r.size - Len(b) = j - n
      BY <1>1, <2>1, <2>2, <2>4, <3>1
    <3> QED BY <3>2, <3>3
  <2> HIDE DEF r, u, q
  <2>7. u \in Piece
    BY <1>1, <2>1, <2>2, <2>6 DEF Piece
  <2>8. CASE ~(last \/ Len(b) = BufferSize)
    <3>1. q = r
      BY <2>5, <2>8
    <3>2. ItemData(r, f, j + 1)
      <4>2. Len(b) = n + 1 /\ n \in Nat /\ j \in Nat /\ n <= j
        BY <1>1, <2>1, <2>2
      <4>3. Len(b) < BufferSize
        BY <1>1, <2>1, <2>2, <2>8, BodyAssumption
      <4>1. Len(b) < BufferSize /\ Len(b) <= j + 1 /\ j + 1 - Len(b) = j - n /\ j - n + 1 = j + 1 - Len(b) + 1
        BY <4>2, <4>3
      <4> QED BY <1>1, <1>5, <2>1, <2>3, <2>4, <4>1 DEF ItemData
    <3>3. Adds(p.uploads, q.uploads, f)
      BY <2>4, <3>1, AddsSelf
    <3> QED BY <2>4, <3>1, <3>2, <3>3 DEF q, c
  <2>9. CASE last \/ Len(b) = BufferSize
    <3>1. q = [r EXCEPT !.uploads = Append(@, u), !.buffer = <<>>]
      BY <2>5, <2>9
    <3>2. Append(p.uploads, u) \in Seq(Piece)
      BY <1>3, <2>7, AppendProperties
    <3>3. q \in ParserType /\ q.size = j + 1 /\ q.buffer = <<>> /\ q.uploads = Append(p.uploads, u)
          /\ SamePlace(p, q) /\ q.state = p.state /\ q.name = f.name /\ q.isFile = IsFile(f)
      <4>1. r.uploads = p.uploads /\ <<>> \in Seq(Char)
        BY <2>4, EmptySeq
      <4>2. q \in ParserType
        BY <2>4, <3>1, <3>2, <4>1 DEF ParserType
      <4> QED BY <2>4, <3>1, <4>1, <4>2 DEF ParserType, SamePlace
    <3>4. Partly(Append(p.uploads, u), f, j + 1)
      <4> DEFINE k == j - n
      <4>1. k \in Nat /\ k + Len(b) = j + 1
        BY <1>1, <2>1, <2>2
      <4>2. u.name = f.name /\ u.index = k /\ u.data = b /\ ~u.final
        BY <2>6
      <4> HIDE DEF k
      <4>3. u.data = SubSeq(f.value, k + 1, k + Len(u.data))
        BY <2>3, <4>1, <4>2 DEF k
      <4>4. Partly(p.uploads, f, k)
        BY <2>1 DEF k
      <4>5. Partly(Append(p.uploads, u), f, k + Len(u.data))
        BY <1>3, <2>2, <2>7, <4>1, <4>2, <4>3, <4>4, PieceGiven
      <4> QED BY <4>1, <4>2, <4>5
    <3>5. ItemData(q, f, j + 1)
      <4>1. Len(<<>>) = 0 /\ j + 1 - 0 = j + 1
        BY <1>1
      <4>2. SubSeq(v, j + 1 + 1, j + 1) = <<>>
        BY <1>1, SubSeqEmpty
      <4>3. 0 < BufferSize /\ 0 <= j + 1
        BY <1>1, <1>3
      <4> QED BY <1>1, <1>5, <3>3, <3>4, <4>1, <4>2, <4>3 DEF ItemData
    <3>6. Adds(p.uploads, q.uploads, f)
      BY <1>3, <1>5, <2>6, <2>7, <3>3, AddsOne
    <3> QED BY <3>3, <3>5, <3>6 DEF q, c
  <2> QED BY <2>8, <2>9
<1> QED BY <1>4, <1>5

LEMMA WriteIs ==
  ASSUME NEW p, NEW bytes \in Seq(Char), NEW last
  PROVE  \E w : /\ w[0] = p /\ \A n \in 1..Len(bytes) : w[n] = WriteByte(w[n - 1], bytes[n], last)
                /\ Write(p, bytes, last) = w[Len(bytes)]
<1> DEFINE l == Len(bytes)
      Is(w) == w = [n \in 0..l |-> IF n = 0 THEN p ELSE WriteByte(w[n - 1], bytes[n], last)]
      Upto(w, m) == w[0] = p /\ \A n \in 1..m : w[n] = WriteByte(w[n - 1], bytes[n], last)
      T == {m \in Nat : \E w : Upto(w, m)}
      w0 == CHOOSE w : Is(w)
<1>1. l \in Nat
  BY LenProperties
<1>2. Write(p, bytes, last) = w0[l]
  BY DEF Write
<1> HIDE DEF l
<1>3. 0 \in T
  <2> DEFINE w == [n \in 0..0 |-> p]
  <2>1. Upto(w, 0)
    OBVIOUS
  <2> QED BY <2>1
<1>4. ASSUME NEW m \in Nat, m \in T PROVE m + 1 \in T
  <2>1. PICK w : Upto(w, m)
    <3> HIDE DEF Upto
    <3> QED BY <1>4
  <2> DEFINE x == [n \in 0..(m + 1) |-> IF n = m + 1 THEN WriteByte(w[m], bytes[n], last) ELSE w[n]]
  <2>2. x[0] = p
    BY <2>1
  <2>3. ASSUME NEW n \in 1..(m + 1) PROVE x[n] = WriteByte(x[n - 1], bytes[n], last)
    <3>1. CASE n = m + 1
      <4>1. n - 1 = m /\ n \in 0..(m + 1) /\ m \in 0..(m + 1) /\ m # m + 1
        BY <3>1
      <4>2. x[n] = WriteByte(w[m], bytes[n], last) /\ x[m] = w[m]
        BY <3>1, <4>1
      <4> HIDE DEF x
      <4> QED BY <4>1, <4>2
    <3>2. CASE n # m + 1
      <4>1. n \in 1..m
        BY <3>2
      <4>2. n \in 0..(m + 1) /\ n - 1 \in 0..(m + 1) /\ n - 1 # m + 1
        BY <4>1
      <4>3. x[n] = w[n] /\ x[n - 1] = w[n - 1]
        BY <3>2, <4>2
      <4> HIDE DEF x
      <4> QED BY <2>1, <4>1, <4>3
    <3> QED BY <3>1, <3>2
  <2> HIDE DEF x
  <2>4. Upto(x, m + 1)
    BY <2>2, <2>3
  <2> HIDE DEF Upto
  <2> QED BY <2>4
<1>5. PICK w : Upto(w, l)
  <2> HIDE DEF Upto
  <2>1. Nat \subseteq T
    <3> HIDE DEF T
    <3> QED BY <1>3, <1>4, Inductive
  <2> QED BY <1>1, <2>1
<1> DEFINE v == [n \in 0..l |-> w[n]]
<1>6. Is(v)
  <2>1. ASSUME NEW n \in 0..l PROVE v[n] = IF n = 0 THEN p ELSE WriteByte(v[n - 1], bytes[n], last)
    <3>1. CASE n = 0
      BY <1>5, <3>1
    <3>2. CASE n # 0
      <4>1. n \in 1..l /\ n - 1 \in 0..l
        BY <1>1, <3>2
      <4>2. v[n] = w[n] /\ v[n - 1] = w[n - 1]
        BY <4>1
      <4> HIDE DEF v
      <4> QED BY <1>5, <3>2, <4>1, <4>2
    <3> QED BY <3>1, <3>2
  <2>2. v = [n \in 0..l |-> v[n]]
    OBVIOUS
  <2> HIDE DEF v
  <2> QED BY <2>1, <2>2
<1>7. Is(w0)
  <2> HIDE DEF Is, v
  <2> QED BY <1>6
<1> HIDE DEF w0
<1>8. w0[0] = p
  <2>1. 0 \in 0..l
    BY <1>1
  <2> QED BY <1>7, <2>1
<1>9. ASSUME NEW n \in 1..l PROVE w0[n] = WriteByte(w0[n - 1], bytes[n], last)
  <2>1. n \in 0..l /\ n # 0
    BY <1>1
  <2> QED BY <1>7, <2>1
<1> QED BY <1>2, <1>8, <1>9 DEF l

LEMMA WriteData ==
  ASSUME NEW p \in ParserType, NEW f \in FieldType, NEW j, ItemData(p, f, j), NEW last \in BOOLEAN,
         NEW bytes \in Seq(Char), j + Len(bytes) <= Len(f.value), bytes = SubSeq(f.value, j + 1, j + Len(bytes))
  PROVE  LET q == Write(p, bytes, last)
         IN  /\ q \in ParserType /\ ItemData(q, f, j + Len(bytes)) /\ SamePlace(p, q) /\ q.state = p.state
             /\ Adds(p.uploads, q.uploads, f)
<1> DEFINE l == Len(bytes)
      v == f.value
<1>0. \A bs \in Seq(Char) :
        \E w : /\ w[0] = p /\ \A n \in 1..Len(bs) : w[n] = WriteByte(w[n - 1], bs[n], last)
               /\ Write(p, bs, last) = w[Len(bs)]
  BY WriteIs
<1>1. PICK w : /\ w[0] = p /\ \A n \in 1..l : w[n] = WriteByte(w[n - 1], bytes[n], last)
               /\ Write(p, bytes, last) = w[l]
  BY <1>0
<1>2. v \in Seq(Char) /\ l \in Nat /\ Len(v) \in Nat /\ j \in Nat /\ j + l <= Len(v)
  <2>1. v \in Seq(Char)
    BY DEF FieldType
  <2>2. l \in Nat /\ Len(v) \in Nat
    BY <2>1, LenProperties
  <2>3. j \in Nat
    BY <2>2 DEF ItemData
  <2> QED BY <2>1, <2>2, <2>3
<1>3. \A n \in 1..l : bytes[n] = v[j + n]
  <2> DEFINE a == j + 1
        b == j + l
  <2>1. a \in Nat \ {0} /\ b \in Nat /\ b <= Len(v) /\ b - a + 1 = l /\ \A n \in 1..l : a + n - 1 = j + n
    BY <1>2
  <2>2. bytes = SubSeq(v, a, b)
    OBVIOUS
  <2> HIDE DEF a, b, l, v
  <2>3. \A n \in 1..(b - a + 1) : SubSeq(v, a, b)[n] = v[a + n - 1]
    BY <1>2, <2>1, SubSeqType
  <2>4. ASSUME NEW n \in 1..l PROVE bytes[n] = v[j + n]
    <3>1. a + n - 1 = j + n
      BY <2>1
    <3>2. SubSeq(v, a, b)[n] = v[a + n - 1]
      BY <2>1, <2>3
    <3> QED BY <2>2, <3>1, <3>2
  <2> QED BY <2>4
<1> DEFINE Fine(q, n) == /\ q \in ParserType /\ ItemData(q, f, j + n) /\ SamePlace(p, q) /\ q.state = p.state
                         /\ Adds(p.uploads, q.uploads, f)
      T == {n \in Nat : n <= l => Fine(w[n], n)}
<1> HIDE DEF l
<1>4. 0 \in T
  <2>1. j + 0 = j
    BY <1>2
  <2> QED BY <1>1, <2>1, AddsSelf DEF SamePlace
<1>5. ASSUME NEW n \in Nat, n \in T PROVE n + 1 \in T
  <2>0. n + 1 \in Nat
    OBVIOUS
  <2> SUFFICES ASSUME n + 1 <= l PROVE Fine(w[n + 1], n + 1)
    <3> HIDE DEF Fine
    <3> QED BY <2>0
  <2> DEFINE r == w[n]
        q == w[n + 1]
        k == j + n
  <2>1. n <= l /\ n + 1 \in 1..l /\ k < Len(v) /\ k + 1 = j + (n + 1) /\ n + 1 - 1 = n
    BY <1>2
  <2>2. Fine(r, n)
    BY <1>5, <2>1
  <2>3. q = WriteByte(r, v[k + 1], last)
    <3>1. w[n + 1] = WriteByte(w[n + 1 - 1], bytes[n + 1], last) /\ bytes[n + 1] = v[j + (n + 1)]
      BY <1>1, <1>3, <2>1 DEF l
    <3> HIDE DEF v
    <3> QED BY <2>1, <3>1
  <2> HIDE DEF r, q, k
  <2>4. r \in ParserType /\ ItemData(r, f, k) /\ SamePlace(p, r) /\ r.state = p.state /\ Adds(p.uploads, r.uploads, f)
    BY <2>2 DEF k
  <2>5. q \in ParserType /\ ItemData(q, f, k + 1) /\ SamePlace(r, q) /\ q.state = r.state /\ Adds(r.uploads, q.uploads, f)
    BY <2>1, <2>3, <2>4, WriteByteData
  <2>6. Adds(p.uploads, q.uploads, f)
    BY <2>4, <2>5, AddsAdds
  <2>7. SamePlace(p, q) /\ q.state = p.state
    BY <2>4, <2>5 DEF SamePlace
  <2> QED BY <2>1, <2>5, <2>6, <2>7 DEF q, k
<1>6. l \in T
  <2> HIDE DEF T
  <2>1. Nat \subseteq T
    BY <1>4, <1>5, Inductive
  <2> QED BY <1>2, <2>1
<1>7. Fine(w[l], l)
  <2> HIDE DEF Fine
  <2> QED BY <1>2, <1>6
<1> QED BY <1>1, <1>7 DEF l

-----------------------------------------------------------------------------
(* The bytes of an item.                                                   *)

ItemState(m) ==
  IF m = 0 THEN "WAIT_FOR_RETURN1" ELSE IF m = 1 THEN "EXPECT_FEED1" ELSE IF m = 2 THEN "EXPECT_DASH1"
  ELSE IF m = 3 THEN "EXPECT_DASH2" ELSE "BOUNDARY_OR_DATA"

\* The first j bytes of f were taken, and then m that may be a boundary.
InItem(p, f, j, m) ==
  /\ ItemData(p, f, j) /\ Matches(f.value, j, m)
  /\ p.state = ItemState(m) /\ (m >= 4 => p.at = m - 4)

LEMMA MatchesType ==
  ASSUME NEW text \in Seq(Char), NEW j, NEW m, Matches(text, j, m)
  PROVE  /\ j \in Nat /\ m \in Nat /\ Len(text) \in Nat /\ j <= Len(text) /\ m < Len(Boundary) + 4
         /\ j + m < Len(text) + Len(Pattern) /\ Len(Pattern) = Len(Boundary) + 4 /\ Len(Boundary) \in Nat \ {0}
<1>1. Len(text) \in Nat /\ Len(Pattern) = Len(Boundary) + 4 /\ Len(Boundary) \in Nat \ {0}
  BY LenProperties, PatternIs, BoundaryIs
<1> QED BY <1>1 DEF Matches

LEMMA NoMatches ==
  ASSUME NEW text \in Seq(Char), NEW j \in 0..Len(text)
  PROVE  Matches(text, j, 0)
<1>1. Len(text) \in Nat /\ Len(Pattern) = Len(Boundary) + 4 /\ Len(Boundary) \in Nat \ {0}
  BY LenProperties, PatternIs, BoundaryIs
<1>2. j \in 0..Len(text) /\ 0 \in 0..(Len(Pattern) - 1) /\ j + 0 < Len(text) + Len(Pattern)
  BY <1>1
<1>3. \A i \in 1..0 : (text \o Pattern)[j + i] = Pattern[i]
  OBVIOUS
<1> QED BY <1>2, <1>3 DEF Matches

LEMMA OneMatches ==
  ASSUME NEW text \in Seq(Char), NEW j \in 0..Len(text), (text \o Pattern)[j + 1] = CR
  PROVE  Matches(text, j, 1)
<1>1. Len(text) \in Nat /\ Len(Pattern) = Len(Boundary) + 4 /\ Len(Boundary) \in Nat \ {0}
  BY LenProperties, PatternIs, BoundaryIs
<1>2. j \in 0..Len(text) /\ 1 \in 0..(Len(Pattern) - 1) /\ j + 1 < Len(text) + Len(Pattern)
  BY <1>1
<1>3. \A i \in 1..1 : (text \o Pattern)[j + i] = Pattern[i]
  <2>1. \A i \in 1..1 : i = 1
    OBVIOUS
  <2> QED BY <2>1, PatternIs
<1> QED BY <1>2, <1>3 DEF Matches

LEMMA MoreMatches ==
  ASSUME NEW text \in Seq(Char), NEW j, NEW m, Matches(text, j, m), m + 1 < Len(Pattern),
         (text \o Pattern)[j + m + 1] = Pattern[m + 1]
  PROVE  Matches(text, j, m + 1)
<1>1. /\ j \in Nat /\ m \in Nat /\ Len(text) \in Nat /\ j <= Len(text) /\ m < Len(Boundary) + 4
      /\ j + m < Len(text) + Len(Pattern) /\ Len(Pattern) = Len(Boundary) + 4 /\ Len(Boundary) \in Nat \ {0}
  BY MatchesType
<1>2. j \in 0..Len(text) /\ m + 1 \in 0..(Len(Pattern) - 1) /\ j + (m + 1) < Len(text) + Len(Pattern)
  BY <1>1
<1>3. ASSUME NEW i \in 1..(m + 1) PROVE (text \o Pattern)[j + i] = Pattern[i]
  <2>1. CASE i = m + 1
    <3>1. j + i = j + m + 1
      BY <1>1, <2>1
    <3> QED BY <2>1, <3>1
  <2>2. CASE i # m + 1
    <3>1. i \in 1..m
      BY <1>1, <2>2
    <3> QED BY <3>1 DEF Matches
  <2> QED BY <2>1, <2>2
<1> QED BY <1>2, <1>3 DEF Matches

\* What the parser takes for data when a boundary does not go on.
LEMMA PatternFirst ==
  /\ First(1, Pattern) = << CR >> /\ First(2, Pattern) = CRLF /\ First(3, Pattern) = CRLF \o << Dash >>
  /\ \A n \in 0..Len(Boundary) : First(n + 4, Pattern) = <<CR, LF, Dash, Dash>> \o SubSeq(Boundary, 1, n)
<1> DEFINE b == Len(Boundary)
<1>1. /\ Pattern \in Seq(Char) /\ Len(Pattern) = b + 4 /\ b \in Nat \ {0}
      /\ Pattern[1] = CR /\ Pattern[2] = LF /\ Pattern[3] = Dash /\ Pattern[4] = Dash
      /\ \A i \in 1..b : Pattern[i + 4] = Boundary[i]
  BY PatternIs, BoundaryIs
<1> HIDE DEF b
<1>2. \A n \in 0..(b + 4) : /\ First(n, Pattern) \in Seq(Char) /\ Len(First(n, Pattern)) = n
                            /\ \A i \in 1..n : First(n, Pattern)[i] = Pattern[i]
  BY <1>1, FirstFrom
<1>3. First(1, Pattern) = << CR >>
  <2> DEFINE s == First(1, Pattern)
        t == << CR >>
  <2>1. s \in Seq(Char) /\ Len(s) = 1 /\ s[1] = CR
    <3>1. 1 \in 0..(b + 4) /\ 1 \in 1..1
      BY <1>1
    <3> QED BY <1>1, <1>2, <3>1
  <2>2. t \in Seq(Char) /\ Len(t) = 1 /\ t[1] = CR
    BY Specials
  <2> HIDE DEF s, t
  <2>3. \A i \in 1..1 : s[i] = t[i]
    BY <2>1, <2>2
  <2>4. s = t
    BY <2>1, <2>2, <2>3, SeqEqual
  <2> QED BY <2>4 DEF s, t
<1>4. First(2, Pattern) = CRLF
  <2> DEFINE s == First(2, Pattern)
  <2>1. s \in Seq(Char) /\ Len(s) = 2 /\ s[1] = CR /\ s[2] = LF
    <3>1. 2 \in 0..(b + 4) /\ 1 \in 1..2 /\ 2 \in 1..2
      BY <1>1
    <3> QED BY <1>1, <1>2, <3>1
  <2> HIDE DEF s
  <2>3. \A i \in 1..2 : s[i] = CRLF[i]
    BY <2>1, CRLFIs
  <2>4. s = CRLF
    BY <2>1, <2>3, CRLFIs, SeqEqual
  <2> QED BY <2>4 DEF s
<1>5. First(3, Pattern) = CRLF \o << Dash >>
  <2>1. 2 \in Nat /\ 2 < Len(Pattern) /\ 2 + 1 = 3
    BY <1>1
  <2>2. First(2 + 1, Pattern) = Append(First(2, Pattern), Pattern[2 + 1])
    BY <1>1, <2>1, FromNext
  <2> QED BY <1>1, <1>4, <2>1, <2>2, CRLFIs, Specials, AppendIsConcat, SMTT(30)
<1>6. ASSUME NEW n \in 0..b PROVE First(n + 4, Pattern) = <<CR, LF, Dash, Dash>> \o SubSeq(Boundary, 1, n)
  <2> DEFINE h == <<CR, LF, Dash, Dash>>
        t == First(n, Boundary)
        w == h \o t
        k == n + 4
        s == First(k, Pattern)
  <2>0. n \in 0..Len(Boundary) /\ k \in 0..(b + 4) /\ k = 4 + n /\ n \in Nat
    BY <1>1 DEF b
  <2>1. h \in Seq(Char) /\ Len(h) = 4 /\ h[1] = CR /\ h[2] = LF /\ h[3] = Dash /\ h[4] = Dash
    BY Specials
  <2>2. t \in Seq(Char) /\ Len(t) = n /\ \A i \in 1..n : t[i] = Boundary[i]
    BY <2>0, BoundaryIs, FirstFrom
  <2> HIDE DEF h, t
  <2>3. /\ w \in Seq(Char) /\ Len(w) = 4 + n
        /\ \A i \in 1..(4 + n) : w[i] = IF i <= 4 THEN h[i] ELSE t[i - 4]
    <3>1. /\ w \in Seq(Char) /\ Len(w) = Len(h) + Len(t)
          /\ \A i \in 1..(Len(h) + Len(t)) : w[i] = IF i <= Len(h) THEN h[i] ELSE t[i - Len(h)]
      BY <2>1, <2>2, ConcatProperties
    <3>2. Len(h) = 4 /\ Len(t) = n
      BY <2>1, <2>2
    <3> HIDE DEF w
    <3> QED BY <3>1, <3>2
  <2> HIDE DEF w, k
  <2>4. s \in Seq(Char) /\ Len(s) = k /\ \A i \in 1..k : s[i] = Pattern[i]
    BY <1>2, <2>0
  <2> HIDE DEF s
  <2>5. ASSUME NEW i \in 1..k PROVE s[i] = w[i]
    <3>1. i \in {1, 2, 3, 4} \/ (i - 4 \in 1..n /\ i - 4 \in 1..b /\ i - 4 + 4 = i /\ ~(i <= 4))
      <4>1. b \in Nat /\ n \in Nat /\ n <= b /\ k = 4 + n /\ i \in Nat /\ 1 <= i /\ i <= k
        BY <1>1, <2>0
      <4>2. i <= 4 => i \in {1, 2, 3, 4}
        BY <4>1
      <4>3. ~(i <= 4) => i - 4 \in 1..n /\ i - 4 \in 1..b /\ i - 4 + 4 = i
        BY <4>1
      <4> QED BY <4>2, <4>3
    <3>2. i \in 1..(4 + n)
      BY <2>0
    <3>3. CASE i \in {1, 2, 3, 4}
      <4>1. i <= 4
        BY <3>3
      <4>2. w[i] = h[i]
        BY <2>3, <3>2, <4>1
      <4>3. h[i] = Pattern[i]
        BY <1>1, <2>1, <3>3
      <4> QED BY <2>4, <4>2, <4>3
    <3>4. CASE i - 4 \in 1..n /\ i - 4 \in 1..b /\ i - 4 + 4 = i /\ ~(i <= 4)
      <4>1. Pattern[i - 4 + 4] = Boundary[i - 4]
        BY <1>1, <3>4
      <4>2. w[i] = t[i - 4]
        BY <2>3, <3>2, <3>4
      <4>3. t[i - 4] = Boundary[i - 4]
        BY <2>2, <3>4
      <4>4. s[i] = Pattern[i]
        BY <2>4
      <4> QED BY <3>4, <4>1, <4>2, <4>3, <4>4
    <3> QED BY <3>1, <3>3, <3>4
  <2>6. Len(s) = Len(w) /\ \A i \in 1..Len(s) : s[i] = w[i]
    BY <2>0, <2>3, <2>4, <2>5
  <2>7. s = w
    BY <2>3, <2>4, <2>6, SeqEqual
  <2> QED BY <2>7 DEF s, w, h, t, k, First
<1> QED BY <1>3, <1>4, <1>5, <1>6 DEF b

\* What reading a byte of f, or of what follows it, does to the rest.
InPlace(p, q, f) ==
  /\ q \in ParserType /\ q.length = p.length /\ q.temp = p.temp /\ q.params = p.params
  /\ Adds(p.uploads, q.uploads, f) /\ q.at < Len(Boundary) /\ Len(q.buffer) < BufferSize

LEMMA ToIs ==
  ASSUME NEW p \in ParserType, NEW s \in MultiStates
  PROVE  /\ To(p, s) \in ParserType /\ To(p, s).state = s /\ SamePlace(p, To(p, s))
         /\ To(p, s).size = p.size /\ To(p, s).value = p.value /\ To(p, s).buffer = p.buffer
         /\ To(p, s).uploads = p.uploads
BY DEF To, ParserType, SamePlace

LEMMA ItemDataTo ==
  ASSUME NEW p \in ParserType, NEW s \in MultiStates, NEW f, NEW j, ItemData(p, f, j)
  PROVE  ItemData(To(p, s), f, j)
BY ToIs DEF ItemData, SamePlace

LEMMA Five ==
  /\ "WAIT_FOR_RETURN1" \in MultiStates /\ "EXPECT_FEED1" \in MultiStates /\ "EXPECT_DASH1" \in MultiStates
  /\ "EXPECT_DASH2" \in MultiStates /\ "BOUNDARY_OR_DATA" \in MultiStates /\ "DASH3_OR_RETURN2" \in MultiStates
  /\ "EXPECT_BOUNDARY" \in MultiStates /\ "PARSE_HEADERS" \in MultiStates /\ "EXPECT_FEED2" \in MultiStates
  /\ "PARSING_FINISHED" \in MultiStates /\ "PARSE_ERROR" \in MultiStates
BY DEF MultiStates

\* The byte after the first j is looked at, none before it being open.
LEMMA ValueStep ==
  ASSUME NEW p \in ParserType, NEW f \in FieldType, NEW j, ItemData(p, f, j), p.at < Len(Boundary),
         NEW last \in BOOLEAN, p.state = "WAIT_FOR_RETURN1", NEW c, c = CR => Matches(f.value, j, 1),
         c # CR => j < Len(f.value) /\ c = f.value[j + 1]
  PROVE  LET q == Value(p, c, last)
         IN  /\ InPlace(p, q, f) /\ q.parsed = p.parsed
             /\ IF c = CR THEN InItem(q, f, j, 1) ELSE InItem(q, f, j + 1, 0)
<1> DEFINE v == f.value
      q == Value(p, c, last)
<1>1. v \in Seq(Char) /\ Len(v) \in Nat /\ j \in 0..Len(v) /\ p.buffer \in Seq(Char) /\ Len(p.buffer) < BufferSize
  <2>1. v \in Seq(Char)
    BY DEF FieldType
  <2> QED BY <2>1, LenProperties DEF ItemData, ParserType
<1>2. CASE c = CR
  <2>1. q = To(p, "EXPECT_FEED1")
    BY <1>2 DEF Value
  <2>2. q \in ParserType /\ q.state = "EXPECT_FEED1" /\ SamePlace(p, q) /\ q.buffer = p.buffer /\ q.uploads = p.uploads
    <3> DEFINE t == To(p, "EXPECT_FEED1")
    <3>1. t \in ParserType /\ t.state = "EXPECT_FEED1" /\ SamePlace(p, t) /\ t.buffer = p.buffer /\ t.uploads = p.uploads
      BY ToIs, Five
    <3>2. q = t
      BY <2>1
    <3> HIDE DEF q, t
    <3> QED BY <3>1, <3>2
  <2>3. ItemData(q, f, j)
    BY <2>1, Five, ItemDataTo
  <2>4. Matches(v, j, 1)
    BY <1>2
  <2> HIDE DEF q
  <2>5. InItem(q, f, j, 1)
    BY <2>2, <2>3, <2>4 DEF InItem, ItemState
  <2>6. InPlace(p, q, f)
    BY <1>1, <2>2, AddsSelf DEF InPlace, SamePlace
  <2>7. q.parsed = p.parsed
    BY <2>2 DEF SamePlace
  <2> QED BY <1>2, <2>5, <2>6, <2>7 DEF q
<1>3. CASE c # CR
  <2>0. j < Len(f.value) /\ c = f.value[j + 1]
    BY <1>3
  <2>1. q = WriteByte(p, v[j + 1], last)
    BY <1>3, <2>0 DEF Value
  <2>2. /\ q \in ParserType /\ ItemData(q, f, j + 1) /\ SamePlace(p, q) /\ q.state = p.state
        /\ Adds(p.uploads, q.uploads, f)
    BY <2>0, <2>1, WriteByteData
  <2> HIDE DEF q
  <2>3. Matches(v, j + 1, 0)
    <3>1. j + 1 \in 0..Len(v)
      BY <1>1, <2>0
    <3> QED BY <1>1, <3>1, NoMatches
  <2>4. InItem(q, f, j + 1, 0)
    BY <2>2, <2>3 DEF InItem, ItemState
  <2>5. InPlace(p, q, f)
    BY <2>2 DEF InPlace, SamePlace, ItemData
  <2>6. q.parsed = p.parsed
    BY <2>2 DEF SamePlace
  <2> QED BY <1>3, <2>4, <2>5, <2>6 DEF q
<1> QED BY <1>2, <1>3

\* After the first j bytes of f, and m that may be a boundary, c is none of a boundary.
Misfit(f, j, m, c) ==
  /\ c # Pattern[m + 1] /\ j + m <= Len(f.value) /\ First(m, Pattern) = SubSeq(f.value, j + 1, j + m)
  /\ c = CR => Matches(f.value, j + m, 1) /\ m > 0
  /\ c # CR => j + m < Len(f.value) /\ c = f.value[j + m + 1]

\* What looked like a boundary was data.
LEMMA NoBoundaryStep ==
  ASSUME NEW p \in ParserType, NEW f \in FieldType, NEW j, NEW m, InItem(p, f, j, m), p.at < Len(Boundary),
         NEW last \in BOOLEAN, NEW c, Misfit(f, j, m, c)
  PROVE  LET q == IF m = 0 THEN Value(p, c, last) ELSE NoBoundary(p, First(m, Pattern), c, last)
         IN  /\ InPlace(p, q, f) /\ q.parsed = p.parsed
             /\ IF c = CR THEN InItem(q, f, j + m, 1) ELSE InItem(q, f, j + m + 1, 0)
<1> DEFINE v == f.value
      k == j + m
      q == IF m = 0 THEN Value(p, c, last) ELSE NoBoundary(p, First(m, Pattern), c, last)
<1>1. /\ v \in Seq(Char) /\ Matches(v, j, m) /\ ItemData(p, f, j) /\ p.state = ItemState(m)
  BY DEF FieldType, InItem
<1>2. /\ j \in Nat /\ m \in Nat /\ Len(v) \in Nat /\ j <= Len(v) /\ m < Len(Boundary) + 4
      /\ Len(Pattern) = Len(Boundary) + 4 /\ Len(Boundary) \in Nat \ {0}
  BY <1>1, MatchesType
<1>3. /\ k <= Len(v) /\ First(m, Pattern) = SubSeq(v, j + 1, k)
      /\ c # CR => k < Len(v) /\ c = v[k + 1]
      /\ c = CR => m > 0 /\ Matches(v, k, 1)
  BY DEF Misfit
<1>5. CASE m = 0
  <2>1. k = j /\ c # CR
    BY <1>2, <1>3, <1>5
  <2>2. p.state = "WAIT_FOR_RETURN1"
    BY <1>1, <1>5 DEF ItemState
  <2>3. j < Len(v) /\ c = v[j + 1]
    BY <1>3, <2>1
  <2>4. k + 1 = j + 1 /\ j + m + 1 = j + 1
    BY <1>2, <1>5
  <2> HIDE DEF k, v
  <2>5. /\ InPlace(p, Value(p, c, last), f) /\ Value(p, c, last).parsed = p.parsed
        /\ InItem(Value(p, c, last), f, j + 1, 0)
    BY <1>1, <2>1, <2>2, <2>3, ValueStep DEF v
  <2> QED BY <1>5, <2>1, <2>4, <2>5
<1>6. CASE m # 0
  <2> DEFINE bytes == First(m, Pattern)
        p1 == To(p, "WAIT_FOR_RETURN1")
        p2 == Write(p1, bytes, last)
  <2>1. p1 \in ParserType /\ p1.state = "WAIT_FOR_RETURN1" /\ SamePlace(p, p1) /\ p1.uploads = p.uploads
    BY ToIs, Five
  <2>2. ItemData(p1, f, j)
    BY <1>1, Five, ItemDataTo
  <2>3. bytes \in Seq(Char) /\ Len(bytes) = m
    <3>1. m \in 0..Len(Pattern)
      BY <1>2
    <3> QED BY <3>1, PatternIs, FirstFrom
  <2> HIDE DEF p1, bytes
  <2>4. j + Len(bytes) <= Len(v) /\ bytes = SubSeq(v, j + 1, j + Len(bytes)) /\ j + Len(bytes) = k
    BY <1>3, <2>3 DEF bytes
  <2>5. /\ p2 \in ParserType /\ ItemData(p2, f, k) /\ SamePlace(p1, p2) /\ p2.state = p1.state
        /\ Adds(p1.uploads, p2.uploads, f)
    <3> HIDE DEF k
    <3>1. /\ p2 \in ParserType /\ ItemData(p2, f, j + Len(bytes)) /\ SamePlace(p1, p2) /\ p2.state = p1.state
          /\ Adds(p1.uploads, p2.uploads, f)
      BY <2>1, <2>2, <2>3, <2>4, WriteData
    <3> QED BY <2>4, <3>1
  <2>6. q = Value(p2, c, last)
    BY <1>6 DEF NoBoundary, p1, bytes
  <2> HIDE DEF p2, q, k, v
  <2>7. p2.state = "WAIT_FOR_RETURN1" /\ p2.at < Len(Boundary) /\ p2.length = p.length /\ p2.temp = p.temp
        /\ p2.params = p.params /\ p2.parsed = p.parsed /\ Adds(p.uploads, p2.uploads, f)
    BY <2>1, <2>5 DEF SamePlace
  <2>8. (c = CR => Matches(f.value, k, 1)) /\ (c # CR => k < Len(f.value) /\ c = f.value[k + 1])
    BY <1>3 DEF v
  <2>9. /\ InPlace(p2, q, f) /\ q.parsed = p2.parsed
        /\ IF c = CR THEN InItem(q, f, k, 1) ELSE InItem(q, f, k + 1, 0)
    BY <2>5, <2>6, <2>7, <2>8, ValueStep
  <2>10. InPlace(p, q, f)
    BY <2>7, <2>9, AddsAdds DEF InPlace
  <2> QED BY <2>7, <2>9, <2>10 DEF q, k
<1> QED BY <1>5, <1>6

Counted(p) == [p EXCEPT !.parsed = @ + 1]

LEMMA CountedIs ==
  ASSUME NEW p \in ParserType
  PROVE  LET q == Counted(p)
         IN  /\ q \in ParserType /\ q.parsed = p.parsed + 1 /\ q.length = p.length /\ q.temp = p.temp /\ q.at = p.at
             /\ q.params = p.params /\ q.name = p.name /\ q.isFile = p.isFile /\ q.state = p.state
             /\ q.size = p.size /\ q.value = p.value /\ q.buffer = p.buffer /\ q.uploads = p.uploads
<1> DEFINE q == Counted(p)
<1>1. q = [p EXCEPT !.parsed = @ + 1]
  BY DEF Counted
<1>2. p.parsed + 1 \in Nat
  BY DEF ParserType
<1> HIDE DEF q
<1>3. q \in ParserType
  BY <1>1, <1>2 DEF ParserType
<1>4. /\ q.parsed = p.parsed + 1 /\ q.length = p.length /\ q.temp = p.temp /\ q.at = p.at
      /\ q.params = p.params /\ q.name = p.name /\ q.isFile = p.isFile /\ q.state = p.state
      /\ q.size = p.size /\ q.value = p.value /\ q.buffer = p.buffer /\ q.uploads = p.uploads
  BY <1>1 DEF ParserType
<1> QED BY <1>3, <1>4 DEF q

LEMMA CountedItem ==
  ASSUME NEW p \in ParserType, NEW f, NEW j, NEW m, InItem(p, f, j, m)
  PROVE  InItem(Counted(p), f, j, m)
BY CountedIs DEF InItem, ItemData

LEMMA CountedPlace ==
  ASSUME NEW p, NEW q \in ParserType, NEW f, InPlace(p, q, f)
  PROVE  InPlace(p, Counted(q), f)
BY CountedIs DEF InPlace

LEMMA ByMatch ==
  ASSUME NEW p \in ParserType, NEW c, NEW last \in BOOLEAN, NEW memory \in BOOLEAN
  PROVE  LET q == MultipartByte(p, c, last, memory)
         IN  /\ p.state = "WAIT_FOR_RETURN1" /\ c = CR => q = Counted(To(p, "EXPECT_FEED1"))
             /\ p.state = "EXPECT_FEED1" /\ c = LF => q = Counted(To(p, "EXPECT_DASH1"))
             /\ p.state = "EXPECT_DASH1" /\ c = Dash => q = Counted(To(p, "EXPECT_DASH2"))
             /\ p.state = "EXPECT_DASH2" /\ c = Dash => q = Counted([To(p, "BOUNDARY_OR_DATA") EXCEPT !.at = 0])
             /\ p.state = "BOUNDARY_OR_DATA" /\ c = Boundary[p.at + 1] /\ p.at # Len(Boundary) - 1 =>
                  q = Counted([p EXCEPT !.at = @ + 1])
             /\ p.state = "BOUNDARY_OR_DATA" /\ c = Boundary[p.at + 1] /\ p.at = Len(Boundary) - 1 =>
                  q = Counted(ItemDone(To(p, "DASH3_OR_RETURN2")))
<1> DEFINE q == MultipartByte(p, c, last, memory)
<1>1. ASSUME p.state = "WAIT_FOR_RETURN1", c = CR PROVE q = Counted(To(p, "EXPECT_FEED1"))
  BY <1>1 DEF MultipartByte, Counted, Value
<1>2. ASSUME p.state = "EXPECT_FEED1", c = LF PROVE q = Counted(To(p, "EXPECT_DASH1"))
  BY <1>2 DEF MultipartByte, Counted
<1>3. ASSUME p.state = "EXPECT_DASH1", c = Dash PROVE q = Counted(To(p, "EXPECT_DASH2"))
  BY <1>3 DEF MultipartByte, Counted
<1>4. ASSUME p.state = "EXPECT_DASH2", c = Dash PROVE q = Counted([To(p, "BOUNDARY_OR_DATA") EXCEPT !.at = 0])
  BY <1>4 DEF MultipartByte, Counted
<1>5. ASSUME p.state = "BOUNDARY_OR_DATA", c = Boundary[p.at + 1], p.at # Len(Boundary) - 1
      PROVE  q = Counted([p EXCEPT !.at = @ + 1])
  <2>1. BoundaryOrData(p, c, last) = [p EXCEPT !.at = @ + 1]
    BY <1>5 DEF BoundaryOrData
  <2> QED BY <1>5, <2>1 DEF MultipartByte, Counted
<1>6. ASSUME p.state = "BOUNDARY_OR_DATA", c = Boundary[p.at + 1], p.at = Len(Boundary) - 1
      PROVE  q = Counted(ItemDone(To(p, "DASH3_OR_RETURN2")))
  <2>1. BoundaryOrData(p, c, last) = ItemDone(To(p, "DASH3_OR_RETURN2"))
    BY <1>6 DEF BoundaryOrData
  <2> QED BY <1>6, <2>1 DEF MultipartByte, Counted
<1> QED BY <1>1, <1>2, <1>3, <1>4, <1>5, <1>6

\* One more byte of what may be a boundary.
LEMMA MatchStep ==
  ASSUME NEW p \in ParserType, NEW f \in FieldType, NEW j, NEW m, InItem(p, f, j, m), p.at < Len(Boundary),
         NEW last \in BOOLEAN, NEW memory \in BOOLEAN, NEW c, c = Pattern[m + 1], m + 1 < Len(Pattern),
         Matches(f.value, j, m + 1)
  PROVE  LET q == MultipartByte(p, c, last, memory)
         IN  InPlace(p, q, f) /\ q.parsed = p.parsed + 1 /\ InItem(q, f, j, m + 1)
<1> DEFINE q == MultipartByte(p, c, last, memory)
      next == IF m < 3 THEN To(p, ItemState(m + 1))
              ELSE IF m = 3 THEN [To(p, "BOUNDARY_OR_DATA") EXCEPT !.at = 0]
              ELSE [p EXCEPT !.at = @ + 1]
<1>0. f.value \in Seq(Char)
  BY DEF FieldType
<1>1. /\ m \in Nat /\ m < Len(Boundary) + 4 /\ Len(Pattern) = Len(Boundary) + 4 /\ Len(Boundary) \in Nat \ {0}
  BY <1>0, MatchesType DEF InItem
<1>2. /\ p.state = ItemState(m) /\ (m >= 4 => p.at = m - 4) /\ ItemData(p, f, j) /\ p.at \in Nat
      /\ Len(p.buffer) < BufferSize
  BY DEF InItem, ItemData, ParserType
<1>3. m \in {0, 1, 2, 3} \/ m >= 4
  BY <1>1
<1>4. q = Counted(next)
  <2>1. CASE m = 0
    <3>1. p.state = "WAIT_FOR_RETURN1" /\ c = CR /\ ItemState(m + 1) = "EXPECT_FEED1"
      BY <1>2, <2>1, PatternIs DEF ItemState
    <3>2. next = To(p, "EXPECT_FEED1")
      BY <2>1, <3>1
    <3> HIDE DEF next
    <3> QED BY <3>1, <3>2, ByMatch
  <2>2. CASE m = 1
    <3>1. p.state = "EXPECT_FEED1" /\ c = LF /\ ItemState(m + 1) = "EXPECT_DASH1"
      BY <1>2, <2>2, PatternIs DEF ItemState
    <3>2. next = To(p, "EXPECT_DASH1")
      BY <2>2, <3>1
    <3> HIDE DEF next
    <3> QED BY <3>1, <3>2, ByMatch
  <2>3. CASE m = 2
    <3>1. p.state = "EXPECT_DASH1" /\ c = Dash /\ ItemState(m + 1) = "EXPECT_DASH2"
      BY <1>2, <2>3, PatternIs DEF ItemState
    <3>2. next = To(p, "EXPECT_DASH2")
      BY <2>3, <3>1
    <3> HIDE DEF next
    <3> QED BY <3>1, <3>2, ByMatch
  <2>4. CASE m = 3
    <3>1. p.state = "EXPECT_DASH2" /\ c = Dash
      BY <1>2, <2>4, PatternIs DEF ItemState
    <3>2. next = [To(p, "BOUNDARY_OR_DATA") EXCEPT !.at = 0]
      BY <2>4
    <3> HIDE DEF next
    <3> QED BY <3>1, <3>2, ByMatch
  <2>5. CASE m >= 4
    <3>1. p.state = "BOUNDARY_OR_DATA"
      BY <1>1, <1>2, <2>5 DEF ItemState
    <3>2. m - 3 \in 1..Len(Boundary) /\ p.at + 1 = m - 3 /\ p.at # Len(Boundary) - 1 /\ (m - 3) + 4 = m + 1
      BY <1>1, <1>2, <2>5
    <3>3. Boundary[p.at + 1] = c
      BY <3>2, PatternIs
    <3>4. next = [p EXCEPT !.at = @ + 1]
      BY <1>1, <2>5
    <3> HIDE DEF next
    <3> QED BY <3>1, <3>2, <3>3, <3>4, ByMatch
  <2> QED BY <1>3, <2>1, <2>2, <2>3, <2>4, <2>5
<1>5. /\ next \in ParserType /\ next.state = ItemState(m + 1) /\ (m + 1 >= 4 => next.at = m + 1 - 4)
      /\ next.at < Len(Boundary) /\ next.parsed = p.parsed /\ next.length = p.length /\ next.temp = p.temp
      /\ next.params = p.params /\ next.name = p.name /\ next.isFile = p.isFile
      /\ next.size = p.size /\ next.value = p.value /\ next.buffer = p.buffer /\ next.uploads = p.uploads
  <2>1. CASE m \in {0, 1, 2}
    <3>1. ItemState(m + 1) \in MultiStates
      BY <2>1, Five DEF ItemState
    <3> DEFINE t == To(p, ItemState(m + 1))
    <3>2. /\ t \in ParserType /\ t.state = ItemState(m + 1) /\ SamePlace(p, t)
          /\ t.size = p.size /\ t.value = p.value /\ t.buffer = p.buffer /\ t.uploads = p.uploads
      BY <3>1, ToIs
    <3>3. next = t /\ ~(m + 1 >= 4)
      BY <2>1
    <3> HIDE DEF next, t
    <3> QED BY <3>2, <3>3 DEF SamePlace
  <2>2. CASE m = 3
    <3>1. next = [p EXCEPT !.state = "BOUNDARY_OR_DATA", !.at = 0] /\ ItemState(m + 1) = "BOUNDARY_OR_DATA" /\ m + 1 - 4 = 0
      BY <2>2 DEF ItemState, To
    <3> HIDE DEF next
    <3>2. 0 < Len(Boundary) /\ 0 \in Nat
      BY <1>1
    <3>3. next \in ParserType
      BY <3>1, Five DEF ParserType
    <3>4. /\ next.state = ItemState(m + 1) /\ next.at = 0 /\ next.parsed = p.parsed /\ next.length = p.length
          /\ next.temp = p.temp /\ next.params = p.params /\ next.name = p.name /\ next.isFile = p.isFile
          /\ next.size = p.size /\ next.value = p.value /\ next.buffer = p.buffer /\ next.uploads = p.uploads
      BY <3>1 DEF ParserType
    <3> QED BY <3>1, <3>2, <3>3, <3>4
  <2>3. CASE m >= 4
    <3>1. next = [p EXCEPT !.at = @ + 1] /\ ItemState(m + 1) = "BOUNDARY_OR_DATA" /\ p.at + 1 = m + 1 - 4
          /\ p.state = "BOUNDARY_OR_DATA" /\ p.at + 1 \in Nat /\ p.at + 1 < Len(Boundary)
      BY <1>1, <1>2, <2>3 DEF ItemState
    <3> HIDE DEF next
    <3> QED BY <1>2, <3>1 DEF ParserType
  <2> QED BY <1>3, <2>1, <2>2, <2>3
<1> HIDE DEF next
<1>6. ItemData(next, f, j)
  BY <1>2, <1>5 DEF ItemData
<1>7. InItem(next, f, j, m + 1)
  <2>1. next.state = ItemState(m + 1) /\ (m + 1 >= 4 => next.at = m + 1 - 4)
    BY <1>5
  <2> QED BY <1>1, <1>6, <2>1 DEF InItem
<1>8. InPlace(p, next, f)
  BY <1>2, <1>5, AddsSelf DEF InPlace
<1> HIDE DEF q
<1>9. InPlace(p, q, f) /\ q.parsed = p.parsed + 1 /\ InItem(q, f, j, m + 1)
  BY <1>4, <1>5, <1>7, <1>8, CountedIs, CountedItem, CountedPlace
<1> QED BY <1>9 DEF q


-----------------------------------------------------------------------------
(* An item, to its end.                                                    *)

\* The parameter an item becomes.
ItemParams(f) ==
  IF ~IsFile(f) THEN << Parameter(f.name, f.value, "post") >>
  ELSE IF f.value = <<>> THEN <<>> ELSE << Parameter(f.name, << FileNames[f.name[1]] >>, "file") >>

ItemType == {f \in FieldType : Len(f.name) = 1 /\ f.name[1] \in DOMAIN FileNames /\ Plain(f.value)}

LEMMA ItemParamsType ==
  ASSUME NEW f \in ItemType
  PROVE  ItemParams(f) \in Seq(Param) /\ FileNames[f.name[1]] \in Char
<1>1. f.name \in Seq(Char) /\ f.value \in Seq(Char) /\ FileNames[f.name[1]] \in Char
  BY CharHas DEF ItemType, FieldType
<1>2. << FileNames[f.name[1]] >> \in Seq(Char)
  BY <1>1, SingleType
<1>3. Parameter(f.name, f.value, "post") \in Param /\ Parameter(f.name, << FileNames[f.name[1]] >>, "file") \in Param
  BY <1>1, <1>2 DEF Parameter, Param
<1>4. << Parameter(f.name, f.value, "post") >> \in Seq(Param)
  BY <1>3, SingleType
<1>5. << Parameter(f.name, << FileNames[f.name[1]] >>, "file") >> \in Seq(Param)
  BY <1>3, SingleType
<1>6. <<>> \in Seq(Param)
  BY EmptySeq
<1> QED BY <1>1, <1>4, <1>5, <1>6 DEF ItemParams

\* ItemDone adds the parameter, and gives the handler what is left of a file.
LEMMA DoneStep ==
  ASSUME NEW p \in ParserType, NEW f \in ItemType, ItemData(p, f, Len(f.value)), p.at < Len(Boundary)
  PROVE  LET q == ItemDone(p)
         IN  /\ q \in ParserType /\ q.length = p.length /\ q.temp = p.temp /\ q.at = p.at /\ q.state = p.state
             /\ q.parsed = p.parsed /\ q.params = p.params \o ItemParams(f) /\ Len(q.buffer) < BufferSize
             /\ Adds(p.uploads, q.uploads, f) /\ (IsFile(f) => Whole(q.uploads, f))
<1> DEFINE q == ItemDone(p)
      v == f.value
      j == Len(v)
      l == Len(p.buffer)
<1>0. f \in FieldType /\ v \in Seq(Char) /\ j \in Nat
  BY LenProperties DEF ItemType, FieldType
<1>1. /\ p.size = j /\ p.name = f.name /\ p.isFile = IsFile(f) /\ l < BufferSize
      /\ ~IsFile(f) => p.value = First(j, v)
      /\ IsFile(f) => /\ l <= j /\ p.buffer = SubSeq(v, j - l + 1, j) /\ Partly(p.uploads, f, j - l)
  BY DEF ItemData
<1>2. p.params \in Seq(Param) /\ p.uploads \in Seq(Piece) /\ p.buffer \in Seq(Char) /\ l \in Nat
  BY LenProperties DEF ParserType
<1>3. f.name \in Seq(Char) /\ FileNames[f.name[1]] \in Char
  BY <1>0, ItemParamsType DEF FieldType
<1>4. CASE ~IsFile(f)
  <2>1. p.value = v
    BY <1>0, <1>1, <1>4, FromEnds
  <2>2. ItemParams(f) = << Parameter(f.name, v, "post") >> /\ Parameter(f.name, v, "post") \in Param
    BY <1>0, <1>3, <1>4 DEF ItemParams, Parameter, Param
  <2> DEFINE r == Parameter(f.name, v, "post")
  <2>3. q = [p EXCEPT !.params = Append(@, r)]
    BY <1>1, <1>4, <2>1 DEF ItemDone
  <2>4. Append(p.params, r) = p.params \o << r >> /\ Append(p.params, r) \in Seq(Param)
    BY <1>2, <2>2, AppendIsConcat
  <2> HIDE DEF q, r, v, j, l
  <2>5. q \in ParserType
    BY <2>3, <2>4 DEF ParserType
  <2>6. /\ q.length = p.length /\ q.temp = p.temp /\ q.at = p.at /\ q.state = p.state
        /\ q.parsed = p.parsed /\ q.params = p.params \o << r >> /\ q.buffer = p.buffer /\ q.uploads = p.uploads
    BY <2>3, <2>4 DEF ParserType
  <2>7. Adds(p.uploads, q.uploads, f)
    BY <2>6, AddsSelf
  <2> QED BY <1>1, <1>4, <2>2, <2>5, <2>6, <2>7 DEF q, r, l
<1>5. CASE IsFile(f) /\ v = <<>>
  <2>1. p.size = 0 /\ j = 0 /\ l = 0 /\ j - l = 0
    BY <1>0, <1>1, <1>2, <1>5
  <2>2. q = p
    BY <1>1, <1>5, <2>1 DEF ItemDone
  <2>3. Of(p.uploads, f) = {} /\ Chain(p.uploads, f)
    BY <1>1, <1>5, <2>1 DEF Partly
  <2>4. Whole(p.uploads, f)
    BY <1>5, <2>3 DEF Whole
  <2>5. p.params \o <<>> = p.params
    BY <1>2, ConcatEmptySeq
  <2>6. ItemParams(f) = <<>>
    BY <1>5 DEF ItemParams
  <2> HIDE DEF q
  <2> QED BY <1>1, <2>2, <2>4, <2>5, <2>6, AddsSelf DEF q
<1>6. CASE IsFile(f) /\ v # <<>>
  <2> DEFINE u == Upload(p, p.buffer, TRUE)
        r == Parameter(f.name, << FileNames[f.name[1]] >>, "file")
  <2>1. j # 0
    BY <1>0, <1>6
  <2>2. q = [p EXCEPT !.uploads = Append(@, u), !.buffer = <<>>, !.params = Append(@, r)]
    BY <1>1, <1>6, <2>1 DEF ItemDone
  <2>3. u.name = f.name /\ u.index = j - l /\ u.data = p.buffer /\ u.final = TRUE /\ u \in Piece
    BY <1>0, <1>1, <1>2, <1>3 DEF Upload, Piece
  <2>4. ItemParams(f) = << r >>
    BY <1>6 DEF ItemParams
  <2>5. r \in Param
    <3>1. << FileNames[f.name[1]] >> \in Seq(Char)
      BY <1>3, SingleType
    <3> QED BY <1>3, <3>1 DEF Parameter, Param
  <2> HIDE DEF u, r
  <2>6. Append(p.params, r) = p.params \o << r >> /\ Append(p.params, r) \in Seq(Param)
    BY <1>2, <2>5, AppendIsConcat
  <2> DEFINE ws == Append(p.uploads, u)
  <2>7. ws \in Seq(Piece)
    BY <1>2, <2>3, AppendProperties
  <2>8. Adds(p.uploads, ws, f)
    BY <1>2, <1>6, <2>3, AddsOne
  <2>9. Whole(ws, f)
    <3> DEFINE i == j - l
    <3>1. i \in Nat /\ i + l = j
      BY <1>0, <1>1, <1>2, <1>6
    <3> HIDE DEF j, i
    <3>2. Partly(p.uploads, f, i) /\ u.index = i /\ p.buffer = SubSeq(v, i + 1, j)
      BY <1>1, <1>6, <2>3 DEF i
    <3>3. u.data = SubSeq(f.value, i + 1, i + Len(u.data)) /\ Len(u.data) = l
      BY <2>3, <3>1, <3>2
    <3>4. i + Len(u.data) = Len(f.value)
      BY <3>1, <3>3 DEF j
    <3> HIDE DEF v, l
    <3> QED BY <1>2, <2>3, <3>1, <3>2, <3>3, <3>4, PieceGiven
  <2> HIDE DEF q, ws
  <2>10. q = [p EXCEPT !.uploads = ws, !.buffer = <<>>, !.params = Append(@, r)]
    BY <2>2 DEF ws
  <2>11. <<>> \in Seq(Char) /\ Len(<<>>) = 0
    BY EmptySeq
  <2>12. q \in ParserType
    BY <2>6, <2>7, <2>10, <2>11 DEF ParserType
  <2>13. /\ q.length = p.length /\ q.temp = p.temp /\ q.at = p.at /\ q.state = p.state
         /\ q.parsed = p.parsed /\ q.params = p.params \o << r >> /\ q.buffer = <<>> /\ q.uploads = ws
    BY <2>6, <2>10 DEF ParserType
  <2>14. Len(q.buffer) < BufferSize
    BY <2>11, <2>13, BodyAssumption
  <2> QED BY <2>4, <2>8, <2>9, <2>12, <2>13, <2>14 DEF q
<1> QED BY <1>4, <1>5, <1>6


\* A byte that is not the next of a boundary.
LEMMA ByMismatch ==
  ASSUME NEW p \in ParserType, NEW c, NEW last \in BOOLEAN, NEW memory \in BOOLEAN, NEW m \in 0..(Len(Boundary) + 3),
         p.state = ItemState(m), m >= 4 => p.at = m - 4, c # Pattern[m + 1]
  PROVE  MultipartByte(p, c, last, memory) =
           Counted(IF m = 0 THEN Value(p, c, last) ELSE NoBoundary(p, First(m, Pattern), c, last))
<1> DEFINE q == MultipartByte(p, c, last, memory)
      r == IF m = 0 THEN Value(p, c, last) ELSE NoBoundary(p, First(m, Pattern), c, last)
<1>1. Len(Boundary) \in Nat
  BY BoundaryIs
<1>2. m \in {0, 1, 2, 3} \/ m >= 4
  BY <1>1
<1>3. CASE m = 0
  <2>1. p.state = "WAIT_FOR_RETURN1" /\ r = Value(p, c, last)
    BY <1>3 DEF ItemState
  <2>2. q = Counted(Value(p, c, last))
    BY <2>1 DEF MultipartByte, Counted
  <2> HIDE DEF q
  <2> QED BY <2>1, <2>2 DEF q
<1>4. CASE m = 1
  <2>0. p.state = "EXPECT_FEED1"
    BY <1>4 DEF ItemState
  <2>3. c # LF
    BY <1>4, PatternIs
  <2>4. r = NoBoundary(p, First(1, Pattern), c, last)
    BY <1>4
  <2> HIDE DEF r
  <2>1. p.state = "EXPECT_FEED1" /\ c # LF /\ r = NoBoundary(p, << CR >>, c, last)
    BY <2>0, <2>3, <2>4, PatternFirst
  <2>2. q = Counted(r)
    BY <2>1 DEF MultipartByte, Counted
  <2> HIDE DEF q
  <2> QED BY <2>2 DEF q, r
<1>5. CASE m = 2
  <2>1. p.state = "EXPECT_DASH1" /\ c # Dash /\ r = NoBoundary(p, CRLF, c, last)
    BY <1>5, PatternIs, PatternFirst DEF ItemState
  <2> HIDE DEF r
  <2>2. q = Counted(r)
    BY <2>1 DEF MultipartByte, Counted
  <2> HIDE DEF q
  <2> QED BY <2>2 DEF q, r
<1>6. CASE m = 3
  <2>0. r = NoBoundary(p, First(3, Pattern), c, last) /\ p.state = "EXPECT_DASH2" /\ c # Pattern[4]
    BY <1>6 DEF ItemState
  <2>1. p.state = "EXPECT_DASH2" /\ c # Dash /\ r = NoBoundary(p, CRLF \o << Dash >>, c, last)
    BY <2>0, PatternIs, PatternFirst
  <2> HIDE DEF r
  <2>2. q = Counted(r)
    BY <2>1 DEF MultipartByte, Counted
  <2> HIDE DEF q
  <2> QED BY <2>2 DEF q, r
<1>7. CASE m >= 4
  <2> DEFINE n == m - 4
  <2>1. n \in 0..Len(Boundary) /\ n + 4 = m /\ n + 1 \in 1..Len(Boundary) /\ (n + 1) + 4 = m + 1 /\ p.at = n
    BY <1>1, <1>7
  <2> HIDE DEF n
  <2>2. Pattern[m + 1] = Boundary[n + 1]
    BY <2>1, PatternIs
  <2>3. First(m, Pattern) = <<CR, LF, Dash, Dash>> \o SubSeq(Boundary, 1, n)
    BY <2>1, PatternFirst
  <2>4. p.state = "BOUNDARY_OR_DATA" /\ m # 0
    BY <1>7 DEF ItemState
  <2>5. BoundaryOrData(p, c, last) = NoBoundary(p, First(m, Pattern), c, last)
    BY <2>1, <2>2, <2>3 DEF BoundaryOrData
  <2>6. r = BoundaryOrData(p, c, last)
    BY <2>4, <2>5
  <2> HIDE DEF r
  <2>7. q = Counted(r)
    BY <2>4, <2>6 DEF MultipartByte, Counted
  <2> HIDE DEF q
  <2> QED BY <2>7 DEF q, r
<1> QED BY <1>2, <1>3, <1>4, <1>5, <1>6, <1>7

\* What a byte of the item does to the parser, but for the item's own state.
ItemKeeps(p, q, f) ==
  /\ q \in ParserType /\ q.parsed = p.parsed + 1 /\ q.length = p.length /\ q.temp = p.temp
  /\ q.at < Len(Boundary) /\ Len(q.buffer) < BufferSize /\ Adds(p.uploads, q.uploads, f)

ItemEnds(p, q, f) ==
  q.state = "DASH3_OR_RETURN2" /\ q.params = p.params \o ItemParams(f) /\ (IsFile(f) => Whole(q.uploads, f))

ItemGoesOn(p, q, f, n) == q.params = p.params /\ \E i \in Nat, m \in Nat : InItem(q, f, i, m) /\ i + m = n

LEMMA ItemMatch ==
  ASSUME NEW p \in ParserType, NEW f \in ItemType, NEW j, NEW m, InItem(p, f, j, m), p.at < Len(Boundary),
         NEW last \in BOOLEAN, NEW memory \in BOOLEAN, NEW c, c = Pattern[m + 1],
         (f.value \o Pattern)[j + m + 1] = Pattern[m + 1]
  PROVE  LET q == MultipartByte(p, c, last, memory)
         IN  /\ ItemKeeps(p, q, f)
             /\ IF j + m + 1 = Len(f.value) + Len(Pattern) THEN ItemEnds(p, q, f) ELSE ItemGoesOn(p, q, f, j + m + 1)
<1> DEFINE q == MultipartByte(p, c, last, memory)
      v == f.value
<1>1. f \in FieldType /\ v \in Seq(Char) /\ Plain(v) /\ Matches(v, j, m)
  BY DEF ItemType, FieldType, InItem
<1>2. /\ j \in Nat /\ m \in Nat /\ Len(v) \in Nat /\ j <= Len(v) /\ m < Len(Boundary) + 4
      /\ j + m < Len(v) + Len(Pattern) /\ Len(Pattern) = Len(Boundary) + 4 /\ Len(Boundary) \in Nat \ {0}
  BY <1>1, MatchesType
<1>3. CASE m + 1 < Len(Pattern)
  <2>1. Matches(v, j, m + 1)
    BY <1>1, <1>3, MoreMatches
  <2>2. InPlace(p, q, f) /\ q.parsed = p.parsed + 1 /\ InItem(q, f, j, m + 1)
    BY <1>1, <1>3, <2>1, MatchStep
  <2> HIDE DEF q
  <2>3. ItemKeeps(p, q, f)
    BY <2>2 DEF ItemKeeps, InPlace
  <2> HIDE DEF v
  <2>4. j + m + 1 # Len(v) + Len(Pattern) /\ j + (m + 1) = j + m + 1 /\ m + 1 \in Nat
    BY <1>2, <1>3
  <2>5. ItemGoesOn(p, q, f, j + m + 1)
    BY <1>2, <2>2, <2>4 DEF ItemGoesOn, InPlace
  <2> QED BY <2>3, <2>4, <2>5 DEF q, v
<1>4. CASE ~(m + 1 < Len(Pattern))
  <2>1. m + 1 = Len(Pattern) /\ m >= 4 /\ m # 0 /\ m # 1 /\ m # 2 /\ m # 3 /\ m - 4 = Len(Boundary) - 1
        /\ m - 3 = Len(Boundary) /\ (m - 3) + 4 = m + 1 /\ m - 4 + 1 = m - 3 /\ m - 3 \in 1..Len(Boundary)
    BY <1>2, <1>4
  <2>2. j = Len(v)
    BY <1>1, <2>1, WholeMatch
  <2>3. p.state = "BOUNDARY_OR_DATA" /\ p.at = Len(Boundary) - 1 /\ ItemData(p, f, j) /\ p.at + 1 = m - 3
    BY <2>1 DEF InItem, ItemState
  <2>4. c = Boundary[p.at + 1]
    <3>1. Pattern[(m - 3) + 4] = Boundary[m - 3]
      BY <2>1, PatternIs
    <3> QED BY <2>1, <2>3, <3>1
  <2> DEFINE t == To(p, "DASH3_OR_RETURN2")
        r == ItemDone(t)
  <2>5. q = Counted(r)
    BY <2>3, <2>4, ByMatch
  <2>6. t \in ParserType /\ t.state = "DASH3_OR_RETURN2" /\ SamePlace(p, t) /\ t.uploads = p.uploads
    BY ToIs, Five
  <2>7. ItemData(t, f, j)
    BY <2>3, Five, ItemDataTo
  <2> HIDE DEF t, q, v
  <2>8. t.at < Len(Boundary) /\ ItemData(t, f, Len(f.value))
    BY <2>2, <2>6, <2>7 DEF SamePlace, v
  <2>9. /\ r \in ParserType /\ r.length = t.length /\ r.temp = t.temp /\ r.at = t.at /\ r.state = t.state
        /\ r.parsed = t.parsed /\ r.params = t.params \o ItemParams(f) /\ Len(r.buffer) < BufferSize
        /\ Adds(t.uploads, r.uploads, f) /\ (IsFile(f) => Whole(r.uploads, f))
    BY <2>6, <2>8, DoneStep
  <2> HIDE DEF r
  <2>10. /\ q \in ParserType /\ q.parsed = r.parsed + 1 /\ q.length = r.length /\ q.temp = r.temp /\ q.at = r.at
         /\ q.params = r.params /\ q.state = r.state /\ q.buffer = r.buffer /\ q.uploads = r.uploads
    BY <2>5, <2>9, CountedIs
  <2>11. ItemKeeps(p, q, f) /\ ItemEnds(p, q, f)
    BY <2>6, <2>8, <2>9, <2>10 DEF ItemKeeps, ItemEnds, SamePlace
  <2>12. j + m + 1 = Len(v) + Len(Pattern)
    <3>1. j \in Nat /\ m \in Nat /\ j = Len(v) /\ m + 1 = Len(Pattern)
      BY <1>2, <2>1, <2>2
    <3> QED BY <3>1
  <2> QED BY <2>11, <2>12 DEF q, v
<1> QED BY <1>3, <1>4

LEMMA ItemMismatch ==
  ASSUME NEW p \in ParserType, NEW f \in ItemType, NEW j, NEW m, InItem(p, f, j, m), p.at < Len(Boundary),
         NEW last \in BOOLEAN, NEW memory \in BOOLEAN, NEW c, Misfit(f, j, m, c)
  PROVE  LET q == MultipartByte(p, c, last, memory)
         IN  /\ ItemKeeps(p, q, f)
             /\ j + m + 1 # Len(f.value) + Len(Pattern) /\ ItemGoesOn(p, q, f, j + m + 1)
<1> DEFINE q == MultipartByte(p, c, last, memory)
      v == f.value
      k == j + m
      r == IF m = 0 THEN Value(p, c, last) ELSE NoBoundary(p, First(m, Pattern), c, last)
<1>1. f \in FieldType /\ v \in Seq(Char) /\ Matches(v, j, m) /\ p.state = ItemState(m) /\ (m >= 4 => p.at = m - 4)
  BY DEF ItemType, FieldType, InItem
<1>2. /\ j \in Nat /\ m \in Nat /\ Len(v) \in Nat /\ j <= Len(v) /\ m < Len(Boundary) + 4
      /\ Len(Pattern) = Len(Boundary) + 4 /\ Len(Boundary) \in Nat \ {0}
  BY <1>1, MatchesType
<1>3. k <= Len(v) /\ c # Pattern[m + 1]
  BY DEF Misfit
<1> HIDE DEF v
<1>5. k \in 0..Len(v) /\ m \in 0..(Len(Boundary) + 3) /\ k \in Nat /\ k + 1 \in Nat
      /\ k + 1 # Len(v) + Len(Pattern) /\ k + 0 = k
  BY <1>2, <1>3
<1>7. /\ InPlace(p, r, f) /\ r.parsed = p.parsed
      /\ IF c = CR THEN InItem(r, f, k, 1) ELSE InItem(r, f, k + 1, 0)
  <2>1. f \in FieldType
    BY <1>1
  <2>2. LET y == IF m = 0 THEN Value(p, c, last) ELSE NoBoundary(p, First(m, Pattern), c, last)
        IN  /\ InPlace(p, y, f) /\ y.parsed = p.parsed
            /\ IF c = CR THEN InItem(y, f, j + m, 1) ELSE InItem(y, f, j + m + 1, 0)
    BY <2>1, NoBoundaryStep
  <2> QED BY <2>2
<1> HIDE DEF k
<1>8. q = Counted(r)
  <2>1. \A x : x # Pattern[m + 1] =>
          MultipartByte(p, x, last, memory)
            = Counted(IF m = 0 THEN Value(p, x, last) ELSE NoBoundary(p, First(m, Pattern), x, last))
    BY <1>1, <1>5, ByMismatch
  <2> QED BY <1>3, <2>1
<1> HIDE DEF r, q
<1>9. /\ q \in ParserType /\ q.parsed = p.parsed + 1 /\ InPlace(p, q, f)
      /\ IF c = CR THEN InItem(q, f, k, 1) ELSE InItem(q, f, k + 1, 0)
  <2>1. r \in ParserType
    BY <1>7 DEF InPlace
  <2>2. InPlace(p, q, f) /\ q.parsed = p.parsed + 1 /\ q \in ParserType
    BY <1>7, <1>8, <2>1, CountedIs, CountedPlace
  <2>3. CASE c = CR
    <3>1. InItem(r, f, k, 1)
      BY <1>7, <2>3
    <3> QED BY <1>8, <2>1, <2>2, <2>3, <3>1, CountedItem
  <2>4. CASE c # CR
    <3>1. InItem(r, f, k + 1, 0)
      BY <1>7, <2>4
    <3> QED BY <1>8, <2>1, <2>2, <2>4, <3>1, CountedItem
  <2> QED BY <2>3, <2>4
<1>10. ItemKeeps(p, q, f)
  BY <1>9 DEF ItemKeeps, InPlace
<1>11. ItemGoesOn(p, q, f, k + 1)
  <2>1. q.params = p.params
    BY <1>9 DEF InPlace
  <2>2. \E i \in Nat, n \in Nat : InItem(q, f, i, n) /\ i + n = k + 1
    <3>1. k + 1 + 0 = k + 1 /\ 0 \in Nat /\ 1 \in Nat
      BY <1>5
    <3> QED BY <1>5, <1>9, <3>1
  <2> QED BY <2>1, <2>2 DEF ItemGoesOn
<1> QED BY <1>5, <1>10, <1>11 DEF q, v, k

\* A byte of the item, or of the boundary after it.
LEMMA ItemStep ==
  ASSUME NEW p \in ParserType, NEW f \in ItemType, NEW j, NEW m, InItem(p, f, j, m), p.at < Len(Boundary),
         NEW last \in BOOLEAN, NEW memory \in BOOLEAN
  PROVE  LET q == MultipartByte(p, (f.value \o Pattern)[j + m + 1], last, memory)
         IN  /\ ItemKeeps(p, q, f)
             /\ IF j + m + 1 = Len(f.value) + Len(Pattern) THEN ItemEnds(p, q, f) ELSE ItemGoesOn(p, q, f, j + m + 1)
<1> DEFINE Q(c) == MultipartByte(p, c, last, memory)
      d == (f.value \o Pattern)[j + m + 1]
      Good(c) == /\ ItemKeeps(p, Q(c), f)
                 /\ IF j + m + 1 = Len(f.value) + Len(Pattern) THEN ItemEnds(p, Q(c), f)
                    ELSE ItemGoesOn(p, Q(c), f, j + m + 1)
<1>1. CASE d = Pattern[m + 1]
  <2>1. \A c : c = Pattern[m + 1] => Good(c)
    BY <1>1, ItemMatch
  <2> HIDE DEF Good, d
  <2>2. Good(d)
    BY <1>1, <2>1
  <2> QED BY <2>2 DEF Good, d
<1>2. CASE d # Pattern[m + 1]
  <2> DEFINE v == f.value
        k == j + m
  <2>1. v \in Seq(Char) /\ Matches(v, j, m)
    BY DEF ItemType, FieldType, InItem
  <2>2. /\ j \in Nat /\ m \in Nat /\ Len(v) \in Nat /\ k \in Nat
    BY <2>1, MatchesType
  <2>3. /\ k <= Len(v) /\ First(m, Pattern) = SubSeq(v, j + 1, k)
        /\ d # CR => k + 1 <= Len(v) /\ d = v[k + 1]
        /\ d = CR => m > 0
    BY <1>2, <2>1, NoMatch
  <2>4. d = (v \o Pattern)[k + 1]
    OBVIOUS
  <2> HIDE DEF v, k, d
  <2>5. k \in 0..Len(v) /\ (k + 1 <= Len(v) => k < Len(v))
    BY <2>2, <2>3
  <2>6. d = CR => Matches(v, k, 1) /\ m > 0
    BY <2>1, <2>3, <2>4, <2>5, OneMatches
  <2>7. d # CR => k < Len(v) /\ d = v[k + 1]
    BY <2>3, <2>5
  <2>8. Misfit(f, j, m, d)
    BY <1>2, <2>3, <2>6, <2>7 DEF v, k, Misfit
  <2>9. ItemKeeps(p, Q(d), f) /\ j + m + 1 # Len(f.value) + Len(Pattern) /\ ItemGoesOn(p, Q(d), f, j + m + 1)
    BY <2>8, ItemMismatch
  <2> QED BY <2>9 DEF d
<1> QED BY <1>1, <1>2

-----------------------------------------------------------------------------
(* The header of an item.                                                  *)

HeadOf(f) ==
  f.name \o CRLF \o (IF IsFile(f) THEN << ContentType >> \o CRLF ELSE <<>>) \o CRLF

LEMMA ConcatIs ==
  ASSUME NEW S, NEW s \in Seq(S), NEW t \in Seq(S)
  PROVE  /\ s \o t \in Seq(S) /\ Len(s \o t) = Len(s) + Len(t) /\ Len(s) \in Nat /\ Len(t) \in Nat
         /\ \A i \in 1..Len(s) : (s \o t)[i] = s[i]
         /\ \A i \in 1..Len(t) : (s \o t)[Len(s) + i] = t[i]
<1>1. /\ s \o t \in Seq(S) /\ Len(s \o t) = Len(s) + Len(t) /\ Len(s) \in Nat /\ Len(t) \in Nat
      /\ \A i \in 1..(Len(s) + Len(t)) : (s \o t)[i] = IF i <= Len(s) THEN s[i] ELSE t[i - Len(s)]
  BY ConcatProperties, LenProperties
<1> DEFINE u == s \o t
      a == Len(s)
      b == Len(t)
<1> HIDE DEF u, a, b
<1>2. a \in Nat /\ b \in Nat /\ \A i \in 1..(a + b) : u[i] = IF i <= a THEN s[i] ELSE t[i - a]
  BY <1>1 DEF u, a, b
<1>3. \A i \in 1..a : u[i] = s[i]
  BY <1>2
<1>4. \A i \in 1..b : u[a + i] = t[i]
  <2> TAKE i \in 1..b
  <2>1. a + i \in 1..(a + b) /\ ~(a + i <= a) /\ a + i - a = i
    BY <1>2
  <2> QED BY <1>2, <2>1
<1> QED BY <1>1, <1>3, <1>4 DEF u, a, b

LEMMA NameIs ==
  ASSUME NEW f \in ItemType
  PROVE  /\ f.name \in Seq(Char) /\ Len(f.name) = 1 /\ f.name = << f.name[1] >> /\ f.name[1] \in Char
         /\ f.name[1] \notin {CR, LF, ContentType} /\ f.name \notin {<<>>, << ContentType >>}
<1>1. f.name \in Seq(Char) /\ Len(f.name) = 1 /\ f.name[1] \notin {CR, LF, ContentType}
  BY BodyAssumption DEF ItemType, FieldType
<1>2. f.name[1] \in Char
  BY <1>1, ElementOfSeq
<1>3. f.name = << f.name[1] >>
  <2> DEFINE t == << f.name[1] >>
  <2>1. t \in Seq(Char) /\ Len(t) = 1 /\ t[1] = f.name[1]
    BY <1>2, SingleType
  <2> HIDE DEF t
  <2>2. \A i \in 1..1 : f.name[i] = t[i]
    BY <2>1
  <2>3. f.name = t
    BY <1>1, <2>1, <2>2, SeqEqual
  <2> QED BY <2>3 DEF t
<1>4. f.name # <<>>
  BY <1>1
<1>5. f.name # << ContentType >>
  <2>1. << ContentType >>[1] = ContentType
    OBVIOUS
  <2> QED BY <1>1, <2>1
<1> QED BY <1>1, <1>2, <1>3, <1>4, <1>5

LEMMA HeadIs ==
  ASSUME NEW f \in ItemType
  PROVE  LET h == HeadOf(f)
         IN  /\ h \in Seq(Char) /\ h[1] = f.name[1] /\ h[2] = CR /\ h[3] = LF
             /\ IF IsFile(f) THEN Len(h) = 8 /\ h[4] = ContentType /\ h[5] = CR /\ h[6] = LF /\ h[7] = CR /\ h[8] = LF
                ELSE Len(h) = 5 /\ h[4] = CR /\ h[5] = LF
<1> DEFINE t == IF IsFile(f) THEN << ContentType >> \o CRLF ELSE <<>>
      a == f.name \o CRLF
      b == a \o t
      h == b \o CRLF
      ct == << ContentType >>
<1>1. CRLF \in Seq(Char) /\ Len(CRLF) = 2 /\ CRLF[1] = CR /\ CRLF[2] = LF
  BY CRLFIs
<1>2. ct \in Seq(Char) /\ Len(ct) = 1 /\ ct[1] = ContentType
  BY Specials, SingleType
<1>3. f.name \in Seq(Char) /\ Len(f.name) = 1
  BY NameIs
<1> HIDE DEF ct
<1>4. /\ a \in Seq(Char) /\ Len(a) = 3 /\ a[1] = f.name[1] /\ a[2] = CR /\ a[3] = LF
  <2>0. /\ a \in Seq(Char) /\ Len(a) = Len(f.name) + Len(CRLF) /\ \A i \in 1..Len(f.name) : a[i] = f.name[i]
        /\ \A i \in 1..Len(CRLF) : a[Len(f.name) + i] = CRLF[i]
    <3>1. f.name \in Seq(Char) /\ CRLF \in Seq(Char)
      BY <1>1, <1>3
    <3> QED BY <3>1, ConcatIs
  <2>1. /\ a \in Seq(Char) /\ Len(a) = 1 + 2 /\ \A i \in 1..1 : a[i] = f.name[i]
        /\ \A i \in 1..2 : a[1 + i] = CRLF[i]
    BY <2>0, <1>1, <1>3
  <2> HIDE DEF a
  <2>2. 1 \in 1..1 /\ 1 \in 1..2 /\ 2 \in 1..2 /\ 1 + 1 = 2 /\ 1 + 2 = 3
    OBVIOUS
  <2> QED BY <1>1, <2>1, <2>2
<1> HIDE DEF a
<1>5. CASE IsFile(f)
  <2>1. t = ct \o CRLF
    BY <1>5 DEF ct
  <2>2. t \in Seq(Char) /\ Len(t) = 3 /\ t[1] = ContentType /\ t[2] = CR /\ t[3] = LF
    <3>1. /\ t \in Seq(Char) /\ Len(t) = 1 + 2 /\ \A i \in 1..1 : t[i] = ct[i]
          /\ \A i \in 1..2 : t[1 + i] = CRLF[i]
      BY <1>1, <1>2, <2>1, ConcatIs, SMTT(30)
    <3> HIDE DEF t
    <3>2. 1 \in 1..1 /\ 1 \in 1..2 /\ 2 \in 1..2 /\ 1 + 1 = 2 /\ 1 + 2 = 3
      OBVIOUS
    <3> QED BY <1>1, <1>2, <3>1, <3>2
  <2> HIDE DEF t
  <2>3. /\ b \in Seq(Char) /\ Len(b) = 6 /\ b[1] = f.name[1] /\ b[2] = CR /\ b[3] = LF
        /\ b[4] = ContentType /\ b[5] = CR /\ b[6] = LF
    <3>0. /\ b \in Seq(Char) /\ Len(b) = Len(a) + Len(t) /\ \A i \in 1..Len(a) : b[i] = a[i]
          /\ \A i \in 1..Len(t) : b[Len(a) + i] = t[i]
      <4>1. a \in Seq(Char) /\ t \in Seq(Char)
        BY <1>4, <2>2
      <4> QED BY <4>1, ConcatIs
    <3>1. /\ b \in Seq(Char) /\ Len(b) = 3 + 3 /\ \A i \in 1..3 : b[i] = a[i]
          /\ \A i \in 1..3 : b[3 + i] = t[i]
      BY <3>0, <1>4, <2>2
    <3> HIDE DEF b
    <3>2. b[1] = a[1] /\ b[2] = a[2] /\ b[3] = a[3] /\ b[3 + 1] = t[1] /\ b[3 + 2] = t[2] /\ b[3 + 3] = t[3]
      BY <3>1
    <3>3. 3 + 1 = 4 /\ 3 + 2 = 5 /\ 3 + 3 = 6
      OBVIOUS
    <3> QED BY <1>4, <2>2, <3>1, <3>2, <3>3
  <2> HIDE DEF b
  <2>4. /\ h \in Seq(Char) /\ Len(h) = 8 /\ h[1] = f.name[1] /\ h[2] = CR /\ h[3] = LF
        /\ h[4] = ContentType /\ h[5] = CR /\ h[6] = LF /\ h[7] = CR /\ h[8] = LF
    <3>0. /\ h \in Seq(Char) /\ Len(h) = Len(b) + Len(CRLF) /\ \A i \in 1..Len(b) : h[i] = b[i]
          /\ \A i \in 1..Len(CRLF) : h[Len(b) + i] = CRLF[i]
      <4>1. b \in Seq(Char) /\ CRLF \in Seq(Char)
        BY <1>1, <2>3
      <4> QED BY <4>1, ConcatIs
    <3>1. /\ h \in Seq(Char) /\ Len(h) = 6 + 2 /\ \A i \in 1..6 : h[i] = b[i]
          /\ \A i \in 1..2 : h[6 + i] = CRLF[i]
      BY <3>0, <1>1, <2>3
    <3> HIDE DEF h
    <3>2. h[1] = b[1] /\ h[2] = b[2] /\ h[3] = b[3] /\ h[4] = b[4] /\ h[5] = b[5] /\ h[6] = b[6]
          /\ h[6 + 1] = CRLF[1] /\ h[6 + 2] = CRLF[2]
      BY <3>1
    <3>3. 6 + 1 = 7 /\ 6 + 2 = 8
      OBVIOUS
    <3> QED BY <1>1, <2>3, <3>1, <3>2, <3>3
  <2>5. HeadOf(f) = h
    BY DEF HeadOf, b, a, t
  <2> HIDE DEF h
  <2> QED BY <1>5, <2>4, <2>5
<1>6. CASE ~IsFile(f)
  <2>1. b = a
    <3>1. t = <<>>
      BY <1>6
    <3> HIDE DEF t
    <3> QED BY <1>4, <3>1, ConcatEmptySeq
  <2> HIDE DEF b
  <2>2. /\ h \in Seq(Char) /\ Len(h) = 5 /\ h[1] = f.name[1] /\ h[2] = CR /\ h[3] = LF /\ h[4] = CR /\ h[5] = LF
    <3>0. /\ h \in Seq(Char) /\ Len(h) = Len(a) + Len(CRLF) /\ \A i \in 1..Len(a) : h[i] = a[i]
          /\ \A i \in 1..Len(CRLF) : h[Len(a) + i] = CRLF[i]
      <4>1. a \in Seq(Char) /\ CRLF \in Seq(Char)
        BY <1>1, <1>4, <2>1
      <4>2. b \in Seq(Char)
        BY <2>1, <4>1
      <4>3. /\ h \in Seq(Char) /\ Len(h) = Len(b) + Len(CRLF) /\ \A i \in 1..Len(b) : h[i] = b[i]
            /\ \A i \in 1..Len(CRLF) : h[Len(b) + i] = CRLF[i]
        <5> HIDE DEF b
        <5> QED BY <4>1, <4>2, ConcatIs
      <4> HIDE DEF h
      <4> QED BY <2>1, <4>2, <4>3
    <3>1. /\ h \in Seq(Char) /\ Len(h) = 3 + 2 /\ \A i \in 1..3 : h[i] = a[i]
          /\ \A i \in 1..2 : h[3 + i] = CRLF[i]
      BY <3>0, <1>1, <1>4, <2>1
    <3> HIDE DEF h
    <3>2. h[1] = a[1] /\ h[2] = a[2] /\ h[3] = a[3] /\ h[3 + 1] = CRLF[1] /\ h[3 + 2] = CRLF[2]
      BY <3>1
    <3>3. 3 + 1 = 4 /\ 3 + 2 = 5
      OBVIOUS
    <3> QED BY <1>1, <1>4, <3>1, <3>2, <3>3
  <2>3. HeadOf(f) = h
    BY DEF HeadOf, b, a
  <2> HIDE DEF h
  <2> QED BY <1>6, <2>2, <2>3
<1> QED BY <1>5, <1>6

\* The first k bytes of the header were read.
HeadData(p, f, k) ==
  /\ p.state = "PARSE_HEADERS"
  /\ p.temp = IF k \in {1, 2} THEN f.name ELSE IF IsFile(f) /\ k \in {4, 5} THEN << ContentType >> ELSE <<>>
  /\ k < 3 => p.isFile = FALSE
  /\ k >= 3 => p.name = f.name /\ IF IsFile(f) THEN p.isFile = TRUE ELSE p.isFile = FALSE

\* An item is to follow.
ItemStarts(p, f) ==
  /\ p.state = "WAIT_FOR_RETURN1" /\ p.size = 0 /\ p.value = <<>> /\ p.buffer = <<>>
  /\ p.name = f.name /\ p.isFile = IsFile(f)

\* What the bytes between the items leave alone.
Passes(p, q) ==
  /\ q \in ParserType /\ q.parsed = p.parsed + 1 /\ q.length = p.length /\ q.at = p.at /\ q.params = p.params
  /\ q.uploads = p.uploads /\ Len(q.buffer) < BufferSize

LEMMA ByHeader ==
  ASSUME NEW p \in ParserType, p.state = "PARSE_HEADERS", NEW c, NEW last \in BOOLEAN, NEW memory \in BOOLEAN
  PROVE  LET q == MultipartByte(p, c, last, memory)
         IN  /\ c \notin {CR, LF} => q = Counted([p EXCEPT !.temp = Append(@, c)])
             /\ c = CR => q = Counted(p)
             /\ c = LF /\ p.temp = << ContentType >> => q = Counted([p EXCEPT !.temp = <<>>, !.isFile = TRUE])
             /\ c = LF /\ p.temp \notin {<<>>, << ContentType >>} =>
                  q = Counted([p EXCEPT !.temp = <<>>, !.name = p.temp, !.isFile = @ \/ FileNames[p.temp[1]] # NoFile])
             /\ c = LF /\ p.temp = <<>> =>
                  q = Counted([To(p, IF p.isFile /\ ~memory THEN "PARSE_ERROR" ELSE "WAIT_FOR_RETURN1") EXCEPT
                                 !.size = 0, !.value = <<>>, !.buffer = <<>>])
<1> DEFINE q == MultipartByte(p, c, last, memory)
      h == Header(p, c, memory)
<1>1. q = Counted(h)
  BY DEF MultipartByte, Counted
<1>2. CR # LF /\ << ContentType >> # <<>>
  BY Specials
<1>3. ASSUME c \notin {CR, LF} PROVE h = [p EXCEPT !.temp = Append(@, c)]
  BY <1>3 DEF Header
<1>4. ASSUME c = CR PROVE h = p
  BY <1>2, <1>4 DEF Header
<1>5. ASSUME c = LF, p.temp = << ContentType >> PROVE h = [p EXCEPT !.temp = <<>>, !.isFile = TRUE]
  BY <1>2, <1>5 DEF Header
<1>6. ASSUME c = LF, p.temp \notin {<<>>, << ContentType >>}
      PROVE  h = [p EXCEPT !.temp = <<>>, !.name = p.temp, !.isFile = @ \/ FileNames[p.temp[1]] # NoFile]
  BY <1>2, <1>6 DEF Header
<1>7. ASSUME c = LF, p.temp = <<>>
      PROVE  h = [To(p, IF p.isFile /\ ~memory THEN "PARSE_ERROR" ELSE "WAIT_FOR_RETURN1") EXCEPT
                    !.size = 0, !.value = <<>>, !.buffer = <<>>]
  BY <1>2, <1>7 DEF Header
<1> HIDE DEF h
<1> QED BY <1>1, <1>3, <1>4, <1>5, <1>6, <1>7


\* A byte of the header.
LEMMA HeadStep ==
  ASSUME NEW p \in ParserType, NEW f \in ItemType, NEW k \in Nat, k < Len(HeadOf(f)), HeadData(p, f, k),
         Len(p.buffer) < BufferSize, NEW last \in BOOLEAN, NEW memory \in BOOLEAN
  PROVE  LET q == MultipartByte(p, HeadOf(f)[k + 1], last, memory)
         IN  /\ Passes(p, q)
             /\ IF k + 1 < Len(HeadOf(f)) THEN HeadData(q, f, k + 1)
                ELSE q.temp = <<>> /\ IF IsFile(f) /\ ~memory THEN q.state = "PARSE_ERROR" ELSE ItemStarts(q, f)
<1> DEFINE h == HeadOf(f)
      c == h[k + 1]
      ct == << ContentType >>
      Q(x) == MultipartByte(p, x, last, memory)
      Good(q) == /\ Passes(p, q)
                 /\ IF k + 1 < Len(h) THEN HeadData(q, f, k + 1)
                    ELSE q.temp = <<>> /\ IF IsFile(f) /\ ~memory THEN q.state = "PARSE_ERROR" ELSE ItemStarts(q, f)
<1>1. /\ h[1] = f.name[1] /\ h[2] = CR /\ h[3] = LF
      /\ IF IsFile(f) THEN Len(h) = 8 /\ h[4] = ContentType /\ h[5] = CR /\ h[6] = LF /\ h[7] = CR /\ h[8] = LF
         ELSE Len(h) = 5 /\ h[4] = CR /\ h[5] = LF
  BY HeadIs
<1>2. /\ f.name \in Seq(Char) /\ f.name = << f.name[1] >> /\ f.name[1] \in Char
      /\ f.name[1] \notin {CR, LF, ContentType} /\ f.name \notin {<<>>, ct}
  BY NameIs
<1>3. CR # LF /\ CR # ContentType /\ LF # ContentType /\ ContentType \in Char /\ ct \in Seq(Char) /\ ct # <<>>
  <2>1. ContentType \in Char
    BY Specials
  <2> QED BY <2>1, Specials, SingleType
<1>4. /\ p.state = "PARSE_HEADERS" /\ (k < 3 => p.isFile = FALSE) /\ (k >= 3 => p.name = f.name /\ IF IsFile(f) THEN p.isFile = TRUE ELSE p.isFile = FALSE)
      /\ p.temp = IF k \in {1, 2} THEN f.name ELSE IF IsFile(f) /\ k \in {4, 5} THEN ct ELSE <<>>
  BY DEF HeadData
<1>0. k < Len(h)
  OBVIOUS
<1> HIDE DEF h, ct
<1>5. ASSUME NEW r \in ParserType, r.parsed = p.parsed, r.length = p.length, r.at = p.at, r.params = p.params,
             r.uploads = p.uploads, Len(r.buffer) < BufferSize
      PROVE  /\ Passes(p, Counted(r)) /\ Counted(r).temp = r.temp /\ Counted(r).state = r.state
             /\ Counted(r).name = r.name /\ Counted(r).isFile = r.isFile /\ Counted(r).size = r.size
             /\ Counted(r).value = r.value /\ Counted(r).buffer = r.buffer
  <2> DEFINE q == Counted(r)
  <2>1. /\ q \in ParserType /\ q.parsed = r.parsed + 1 /\ q.length = r.length /\ q.temp = r.temp /\ q.at = r.at
        /\ q.params = r.params /\ q.name = r.name /\ q.isFile = r.isFile /\ q.state = r.state
        /\ q.size = r.size /\ q.value = r.value /\ q.buffer = r.buffer /\ q.uploads = r.uploads
    BY CountedIs
  <2> HIDE DEF q
  <2>2. Passes(p, q)
    BY <1>5, <2>1 DEF Passes
  <2> QED BY <2>1, <2>2 DEF q
\* The bytes that go into temp.
<1>6. ASSUME NEW x \in Char, x \notin {CR, LF}, p.temp = <<>>
      PROVE  Passes(p, Q(x)) /\ Q(x).temp = << x >> /\ Q(x).state = "PARSE_HEADERS" /\ Q(x).name = p.name
             /\ Q(x).isFile = p.isFile
  <2> DEFINE r == [p EXCEPT !.temp = Append(@, x)]
  <2>1. Q(x) = Counted(r)
    BY <1>4, <1>6 DEF MultipartByte, Counted, Header
  <2>2. Append(p.temp, x) = << x >> /\ << x >> \in Seq(Char)
    BY <1>6, SingleType
  <2> DEFINE t == << x >>
  <2> HIDE DEF t
  <2>3. r = [p EXCEPT !.temp = t]
    BY <2>2 DEF t
  <2> HIDE DEF r
  <2>4. /\ r \in ParserType /\ r.parsed = p.parsed /\ r.length = p.length /\ r.at = p.at /\ r.params = p.params
        /\ r.uploads = p.uploads /\ r.buffer = p.buffer /\ r.temp = t /\ r.state = p.state /\ r.name = p.name
        /\ r.isFile = p.isFile
    BY <2>2, <2>3 DEF ParserType, t
  <2> QED BY <1>4, <1>5, <2>1, <2>4 DEF t
<1>7. Passes(p, Q(CR)) /\ Q(CR).temp = p.temp /\ Q(CR).state = "PARSE_HEADERS" /\ Q(CR).name = p.name
      /\ Q(CR).isFile = p.isFile
  <2>1. Q(CR) = Counted(p)
    BY <1>3, <1>4 DEF MultipartByte, Counted, Header
  <2> QED BY <1>4, <1>5, <2>1
<1>8. ASSUME p.temp = f.name, p.isFile = FALSE
      PROVE  Passes(p, Q(LF)) /\ Q(LF).temp = <<>> /\ Q(LF).state = "PARSE_HEADERS" /\ Q(LF).name = f.name
             /\ IF IsFile(f) THEN Q(LF).isFile = TRUE ELSE Q(LF).isFile = FALSE
  <2> DEFINE r == [p EXCEPT !.temp = <<>>, !.name = p.temp, !.isFile = @ \/ FileNames[p.temp[1]] # NoFile]
  <2>1. Q(LF) = Counted(r)
    <3>1. p.temp \notin {<<>>, << ContentType >>}
      BY <1>2, <1>8 DEF ct
    <3> QED BY <1>3, <1>4, <3>1 DEF MultipartByte, Counted, Header
  <2>2. r = [p EXCEPT !.temp = <<>>, !.name = f.name, !.isFile = IsFile(f)]
    BY <1>8 DEF IsFile
  <2>3. <<>> \in Seq(Char) /\ IsFile(f) \in BOOLEAN
    BY EmptySeq DEF IsFile
  <2> HIDE DEF r
  <2>4. /\ r \in ParserType /\ r.parsed = p.parsed /\ r.length = p.length /\ r.at = p.at /\ r.params = p.params
        /\ r.uploads = p.uploads /\ r.buffer = p.buffer /\ r.temp = <<>> /\ r.state = p.state /\ r.name = f.name
        /\ r.isFile = IsFile(f)
    BY <1>2, <2>2, <2>3 DEF ParserType
  <2>5. IF IsFile(f) THEN r.isFile = TRUE ELSE r.isFile = FALSE
    BY <2>3, <2>4
  <2>6. Q(LF).isFile = r.isFile
    BY <1>5, <2>1, <2>4
  <2> QED BY <1>4, <1>5, <2>1, <2>4, <2>5, <2>6
<1>9. ASSUME p.temp = ct
      PROVE  Passes(p, Q(LF)) /\ Q(LF).temp = <<>> /\ Q(LF).state = "PARSE_HEADERS" /\ Q(LF).name = p.name
             /\ Q(LF).isFile = TRUE
  <2> DEFINE r == [p EXCEPT !.temp = <<>>, !.isFile = TRUE]
  <2>1. Q(LF) = Counted(r)
    BY <1>3, <1>4, <1>9 DEF ct, MultipartByte, Counted, Header
  <2>2. <<>> \in Seq(Char)
    BY EmptySeq
  <2>3. r = [p EXCEPT !.temp = <<>>, !.isFile = TRUE]
    OBVIOUS
  <2> HIDE DEF r
  <2>4. /\ r \in ParserType /\ r.parsed = p.parsed /\ r.length = p.length /\ r.at = p.at /\ r.params = p.params
        /\ r.uploads = p.uploads /\ r.buffer = p.buffer /\ r.temp = <<>> /\ r.state = p.state /\ r.name = p.name
        /\ r.isFile = TRUE
    BY <2>2, <2>3 DEF ParserType
  <2> QED BY <1>4, <1>5, <2>1, <2>4
<1>10. ASSUME p.temp = <<>>
       PROVE  /\ Passes(p, Q(LF)) /\ Q(LF).temp = <<>> /\ Q(LF).name = p.name /\ Q(LF).isFile = p.isFile
              /\ Q(LF).size = 0 /\ Q(LF).value = <<>> /\ Q(LF).buffer = <<>>
              /\ Q(LF).state = IF p.isFile /\ ~memory THEN "PARSE_ERROR" ELSE "WAIT_FOR_RETURN1"
  <2> DEFINE s == IF p.isFile /\ ~memory THEN "PARSE_ERROR" ELSE "WAIT_FOR_RETURN1"
        r == [To(p, s) EXCEPT !.size = 0, !.value = <<>>, !.buffer = <<>>]
  <2>1. Q(LF) = Counted(r)
    <3>1. Header(p, LF, memory) = r
      BY <1>3, <1>10 DEF Header
    <3> HIDE DEF r
    <3>2. Q(LF) = Counted(Header(p, LF, memory))
      BY <1>4 DEF MultipartByte, Counted
    <3> QED BY <3>1, <3>2
  <2>2. <<>> \in Seq(Char) /\ s \in MultiStates /\ Len(<<>>) = 0 /\ 0 < BufferSize /\ 0 \in Nat
    BY EmptySeq, Five, BodyAssumption
  <2> HIDE DEF s
  <2>3. r = [p EXCEPT !.state = s, !.size = 0, !.value = <<>>, !.buffer = <<>>]
    BY DEF To, ParserType
  <2> HIDE DEF r
  <2>4. r \in ParserType
    BY <2>2, <2>3 DEF ParserType
  <2>5. /\ r.parsed = p.parsed /\ r.length = p.length /\ r.at = p.at /\ r.params = p.params
        /\ r.uploads = p.uploads /\ r.buffer = <<>> /\ r.temp = p.temp /\ r.state = s /\ r.name = p.name
        /\ r.isFile = p.isFile /\ r.size = 0 /\ r.value = <<>>
    BY <2>3 DEF ParserType
  <2> QED BY <1>5, <1>10, <2>1, <2>2, <2>4, <2>5 DEF s
<1> HIDE DEF Q
<1>11. Good(Q(c))
  <2>0. (IsFile(f) => Len(h) = 8) /\ (~IsFile(f) => Len(h) = 5)
    BY <1>1
  <2>1. Len(h) \in {5, 8} /\ (k < 5 \/ IsFile(f)) /\ k \in 0..7
    <3>1. CASE IsFile(f)
      <4>1. Len(h) = 8
        BY <2>0, <3>1
      <4> QED BY <1>0, <3>1, <4>1
    <3>2. CASE ~IsFile(f)
      <4>1. Len(h) = 5
        BY <2>0, <3>2
      <4> QED BY <1>0, <4>1
    <3> QED BY <3>1, <3>2
  <2>a. /\ k = 0 => k + 1 = 1 /\ c = h[1]
        /\ k = 1 => k + 1 = 2 /\ c = h[2]
        /\ k = 2 => k + 1 = 3 /\ c = h[3]
        /\ k = 3 => k + 1 = 4 /\ c = h[4]
        /\ k = 4 => k + 1 = 5 /\ c = h[5]
        /\ k = 5 => k + 1 = 6 /\ c = h[6]
        /\ k = 6 => k + 1 = 7 /\ c = h[7]
        /\ k = 7 => k + 1 = 8 /\ c = h[8]
    OBVIOUS
  <2>b. /\ k = 0 => p.temp = <<>> /\ p.isFile = FALSE
        /\ k \in {1, 2} => p.temp = f.name /\ p.isFile = FALSE
        /\ k = 3 => p.temp = <<>> /\ p.name = f.name
        /\ k >= 3 /\ IsFile(f) => p.name = f.name /\ p.isFile = TRUE
        /\ k >= 3 /\ ~IsFile(f) => p.name = f.name /\ p.isFile = FALSE /\ p.temp = <<>>
        /\ k \in {4, 5} /\ IsFile(f) => p.temp = ct
        /\ k \in {6, 7} => p.temp = <<>>
    BY <1>4
  <2>c. /\ h[1] = f.name[1] /\ h[2] = CR /\ h[3] = LF
        /\ IsFile(f) => h[4] = ContentType /\ h[5] = CR /\ h[6] = LF /\ h[7] = CR /\ h[8] = LF
        /\ ~IsFile(f) => h[4] = CR /\ h[5] = LF
    BY <1>1
  <2>d. \A q : /\ HeadData(q, f, 1) <=> q.state = "PARSE_HEADERS" /\ q.temp = f.name /\ q.isFile = FALSE
               /\ HeadData(q, f, 2) <=> q.state = "PARSE_HEADERS" /\ q.temp = f.name /\ q.isFile = FALSE
               /\ HeadData(q, f, 3) <=>
                    /\ q.state = "PARSE_HEADERS" /\ q.temp = <<>> /\ q.name = f.name
                    /\ IF IsFile(f) THEN q.isFile = TRUE ELSE q.isFile = FALSE
               /\ ~IsFile(f) => (HeadData(q, f, 4) <=>
                    q.state = "PARSE_HEADERS" /\ q.temp = <<>> /\ q.name = f.name /\ q.isFile = FALSE)
               /\ IsFile(f) => (HeadData(q, f, 4) <=>
                    q.state = "PARSE_HEADERS" /\ q.temp = ct /\ q.name = f.name /\ q.isFile = TRUE)
               /\ IsFile(f) => (HeadData(q, f, 5) <=>
                    q.state = "PARSE_HEADERS" /\ q.temp = ct /\ q.name = f.name /\ q.isFile = TRUE)
               /\ IsFile(f) => (HeadData(q, f, 6) <=>
                    q.state = "PARSE_HEADERS" /\ q.temp = <<>> /\ q.name = f.name /\ q.isFile = TRUE)
               /\ IsFile(f) => (HeadData(q, f, 7) <=>
                    q.state = "PARSE_HEADERS" /\ q.temp = <<>> /\ q.name = f.name /\ q.isFile = TRUE)
    <3> TAKE q
    <3>1. HeadData(q, f, 1) <=> q.state = "PARSE_HEADERS" /\ q.temp = f.name /\ q.isFile = FALSE
      BY DEF HeadData
    <3>2. HeadData(q, f, 2) <=> q.state = "PARSE_HEADERS" /\ q.temp = f.name /\ q.isFile = FALSE
      BY DEF HeadData
    <3>3. HeadData(q, f, 3) <=> /\ q.state = "PARSE_HEADERS" /\ q.temp = <<>> /\ q.name = f.name
                               /\ IF IsFile(f) THEN q.isFile = TRUE ELSE q.isFile = FALSE
      BY DEF HeadData
    <3>4. ASSUME ~IsFile(f)
          PROVE  HeadData(q, f, 4) <=> q.state = "PARSE_HEADERS" /\ q.temp = <<>> /\ q.name = f.name /\ q.isFile = FALSE
      BY <3>4 DEF HeadData
    <3>5. ASSUME IsFile(f)
          PROVE  /\ HeadData(q, f, 4) <=> q.state = "PARSE_HEADERS" /\ q.temp = ct /\ q.name = f.name /\ q.isFile = TRUE
                 /\ HeadData(q, f, 5) <=> q.state = "PARSE_HEADERS" /\ q.temp = ct /\ q.name = f.name /\ q.isFile = TRUE
      BY <3>5 DEF HeadData, ct
    <3>6. ASSUME IsFile(f)
          PROVE  /\ HeadData(q, f, 6) <=> q.state = "PARSE_HEADERS" /\ q.temp = <<>> /\ q.name = f.name /\ q.isFile = TRUE
                 /\ HeadData(q, f, 7) <=> q.state = "PARSE_HEADERS" /\ q.temp = <<>> /\ q.name = f.name /\ q.isFile = TRUE
      BY <3>6 DEF HeadData
    <3> QED BY <3>1, <3>2, <3>3, <3>4, <3>5, <3>6
  <2>e. 1 < Len(h) /\ 2 < Len(h) /\ 3 < Len(h) /\ 4 < Len(h) /\ (IsFile(f) => 5 < Len(h) /\ 6 < Len(h) /\ 7 < Len(h))
    <3>1. CASE Len(h) = 8
      BY <3>1
    <3>2. CASE Len(h) = 5 /\ ~IsFile(f)
      BY <3>2
    <3> QED BY <2>0, <3>1, <3>2
  <2> HIDE DEF c
  <2>2. CASE k = 0
    <3>1. c = f.name[1] /\ 1 < Len(h) /\ k + 1 = 1
      <4>1. c = f.name[1]
        BY <2>a, <2>c, <2>2
      <4>2. 1 < Len(h) /\ k + 1 = 1
        BY <2>e, <2>2
      <4> QED BY <4>1, <4>2
    <3>2. p.temp = <<>> /\ p.isFile = FALSE
      BY <2>b, <2>2
    <3>3. HeadData(Q(c), f, 1) /\ Passes(p, Q(c))
      BY <1>2, <1>6, <2>d, <2>2, <3>1, <3>2
    <3> QED BY <3>1, <3>3
  <2>3. CASE k = 1
    <3>1. c = CR /\ 2 < Len(h) /\ k + 1 = 2
      <4>1. c = CR
        BY <2>a, <2>c, <2>3
      <4>2. 2 < Len(h) /\ k + 1 = 2
        BY <2>e, <2>3
      <4> QED BY <4>1, <4>2
    <3>2. p.temp = f.name /\ p.isFile = FALSE
      BY <2>b, <2>3
    <3>3. HeadData(Q(c), f, 2) /\ Passes(p, Q(c))
      BY <1>7, <2>d, <2>3, <3>1, <3>2
    <3> QED BY <3>1, <3>3
  <2>4. CASE k = 2
    <3>1. c = LF /\ 3 < Len(h) /\ k + 1 = 3
      <4>1. c = LF
        BY <2>a, <2>c, <2>4
      <4>2. 3 < Len(h) /\ k + 1 = 3
        BY <2>e, <2>4
      <4> QED BY <4>1, <4>2
    <3>2. p.temp = f.name /\ p.isFile = FALSE
      BY <2>b, <2>4
    <3>3. HeadData(Q(c), f, 3) /\ Passes(p, Q(c))
      BY <1>8, <2>d, <2>4, <3>1, <3>2
    <3> QED BY <3>1, <3>3
  <2>5. CASE k = 3 /\ IsFile(f)
    <3>1. c = ContentType /\ 4 < Len(h) /\ k + 1 = 4
      <4>1. c = ContentType
        BY <2>a, <2>c, <2>5
      <4>2. 4 < Len(h) /\ k + 1 = 4
        BY <2>e, <2>5
      <4> QED BY <4>1, <4>2
    <3>2. p.temp = <<>> /\ p.name = f.name /\ p.isFile = TRUE
      BY <2>b, <2>5
    <3>3. HeadData(Q(c), f, 4) /\ Passes(p, Q(c))
      BY <1>3, <1>6, <2>d, <2>5, <3>1, <3>2 DEF ct
    <3> QED BY <3>1, <3>3
  <2>6. CASE k = 4 /\ IsFile(f)
    <3>1. c = CR /\ 5 < Len(h) /\ k + 1 = 5
      <4>1. c = CR
        BY <2>a, <2>c, <2>6
      <4>2. 5 < Len(h) /\ k + 1 = 5
        BY <2>e, <2>6
      <4> QED BY <4>1, <4>2
    <3>2. p.temp = ct /\ p.name = f.name /\ p.isFile = TRUE
      BY <2>b, <2>6
    <3>3. HeadData(Q(c), f, 5) /\ Passes(p, Q(c))
      BY <1>7, <2>d, <2>6, <3>1, <3>2
    <3> QED BY <3>1, <3>3
  <2>7. CASE k = 5 /\ IsFile(f)
    <3>1. c = LF /\ 6 < Len(h) /\ k + 1 = 6
      <4>1. c = LF
        BY <2>a, <2>c, <2>7
      <4>2. 6 < Len(h) /\ k + 1 = 6
        BY <2>e, <2>7
      <4> QED BY <4>1, <4>2
    <3>2. p.temp = ct /\ p.name = f.name /\ p.isFile = TRUE
      BY <2>b, <2>7
    <3>3. HeadData(Q(c), f, 6) /\ Passes(p, Q(c))
      BY <1>9, <2>d, <2>7, <3>1, <3>2
    <3> QED BY <3>1, <3>3
  <2>8. CASE k = 6 /\ IsFile(f)
    <3>1. c = CR /\ 7 < Len(h) /\ k + 1 = 7
      <4>1. c = CR
        BY <2>a, <2>c, <2>8
      <4>2. 7 < Len(h) /\ k + 1 = 7
        BY <2>e, <2>8
      <4> QED BY <4>1, <4>2
    <3>2. p.temp = <<>> /\ p.name = f.name /\ p.isFile = TRUE
      BY <2>b, <2>8
    <3>3. HeadData(Q(c), f, 7) /\ Passes(p, Q(c))
      BY <1>7, <2>d, <2>8, <3>1, <3>2
    <3> QED BY <3>1, <3>3
  <2>9. CASE k = 3 /\ ~IsFile(f)
    <3>1. c = CR /\ 4 < Len(h) /\ k + 1 = 4
      <4>1. c = CR
        BY <2>a, <2>c, <2>9
      <4>2. 4 < Len(h) /\ k + 1 = 4
        BY <2>e, <2>9
      <4> QED BY <4>1, <4>2
    <3>2. p.temp = <<>> /\ p.name = f.name /\ p.isFile = FALSE
      BY <2>b, <2>9
    <3>3. HeadData(Q(c), f, 4) /\ Passes(p, Q(c))
      BY <1>7, <2>d, <2>9, <3>1, <3>2
    <3> QED BY <3>1, <3>3
  <2>10. CASE (k = 7 /\ IsFile(f)) \/ (k = 4 /\ ~IsFile(f))
    <3>1. c = LF /\ ~(k + 1 < Len(h)) /\ p.temp = <<>> /\ p.name = f.name
      <4>1. c = LF
        BY <2>a, <2>c, <2>10
      <4>2. ~(k + 1 < Len(h))
        <5>1. CASE k = 7 /\ Len(h) = 8
          BY <5>1
        <5>2. CASE k = 4 /\ Len(h) = 5
          BY <5>2
        <5> QED BY <2>0, <2>10, <5>1, <5>2
      <4>3. p.temp = <<>> /\ p.name = f.name
        BY <2>b, <2>10
      <4> QED BY <4>1, <4>2, <4>3
    <3>2. IF IsFile(f) THEN p.isFile = TRUE ELSE p.isFile = FALSE
      BY <2>b, <2>10
    <3>3. Passes(p, Q(c)) /\ Q(c).temp = <<>>
      BY <1>10, <3>1
    <3>4. CASE IsFile(f)
      <4>1. p.isFile = TRUE
        BY <3>2, <3>4
      <4>2. IF ~memory THEN Q(c).state = "PARSE_ERROR" ELSE ItemStarts(Q(c), f)
        BY <1>10, <3>1, <3>4, <4>1 DEF ItemStarts
      <4> QED BY <3>1, <3>3, <3>4, <4>2
    <3>5. CASE ~IsFile(f)
      <4>1. p.isFile = FALSE
        BY <3>2, <3>5
      <4>2. /\ Q(c).name = p.name /\ Q(c).isFile = FALSE /\ Q(c).size = 0 /\ Q(c).value = <<>> /\ Q(c).buffer = <<>>
            /\ Q(c).state = "WAIT_FOR_RETURN1"
        BY <1>10, <3>1, <4>1
      <4>3. Q(c).isFile = IsFile(f)
        BY <3>5, <4>2 DEF IsFile
      <4>4. ItemStarts(Q(c), f)
        BY <3>1, <4>2, <4>3 DEF ItemStarts
      <4> QED BY <3>1, <3>3, <3>5, <4>4
    <3> QED BY <3>4, <3>5
  <2> QED BY <2>1, <2>2, <2>3, <2>4, <2>5, <2>6, <2>7, <2>8, <2>9, <2>10
<1> QED BY <1>11 DEF h, Q

-----------------------------------------------------------------------------
(* The bytes of a multipart body.                                          *)

ItemText(f) == CRLF \o (HeadOf(f) \o (f.value \o Pattern))
ItemTexts(v) == [i \in DOMAIN v.fields |-> ItemText(v.fields[i])]
Ending(v) == <<Dash, Dash>> \o v.tail
\* What follows the first i items.
Rest(v, i) == FlattenSeq(From(i, ItemTexts(v))) \o Ending(v)

MultiVisit(v) ==
  /\ v.fields \in Seq(ItemType) /\ v.tail \in Seq(Char) /\ v.memory \in BOOLEAN
  /\ \A i \in DOMAIN v.fields, j \in DOMAIN v.fields :
       IsFile(v.fields[i]) /\ v.fields[j].name = v.fields[i].name => i = j

\* Concatenation as an operator the provers take no rules for.
Join(x, y) == x \o y

LEMMA Assoc ==
  ASSUME NEW x \in Seq(Char), NEW y \in Seq(Char), NEW z \in Seq(Char)
  PROVE  (x \o y) \o z = x \o (y \o z)
BY ConcatAssociative

LEMMA JoinAssoc ==
  ASSUME NEW x \in Seq(Char), NEW y \in Seq(Char), NEW z \in Seq(Char)
  PROVE  Join(Join(x, y), z) = Join(x, Join(y, z))
BY Assoc DEF Join

LEMMA Joined == ASSUME NEW x \in Seq(Char), NEW y \in Seq(Char) PROVE Join(x, y) \in Seq(Char)
BY ConcatProperties DEF Join

\* The brackets of the eight parts of an item's bytes.
LEMMA Eight ==
  ASSUME NEW a \in Seq(Char), NEW n \in Seq(Char), NEW t \in Seq(Char), NEW v \in Seq(Char), NEW d \in Seq(Char)
  PROVE  Join(Join(Join(Join(Join(Join(Join(a, n), a), t), a), v), a), d)
           = Join(a, Join(Join(Join(Join(n, a), t), a), Join(v, Join(a, d))))
<1> DEFINE na == Join(n, a)
      nat == Join(na, t)
      h == Join(nat, a)
      hv == Join(h, v)
      hva == Join(hv, a)
<1>1. na \in Seq(Char) /\ nat \in Seq(Char) /\ h \in Seq(Char) /\ hv \in Seq(Char) /\ hva \in Seq(Char)
  BY Joined
<1>2. Join(a, d) \in Seq(Char)
  BY Joined
<1>3. Join(Join(a, n), a) = Join(a, na)
  BY JoinAssoc
<1>4. Join(Join(a, na), t) = Join(a, nat)
  BY <1>1, JoinAssoc
<1>5. Join(Join(a, nat), a) = Join(a, h)
  BY <1>1, JoinAssoc
<1>6. Join(Join(a, h), v) = Join(a, hv)
  BY <1>1, JoinAssoc
<1>7. Join(Join(a, hv), a) = Join(a, hva)
  BY <1>1, JoinAssoc
<1>8. Join(Join(a, hva), d) = Join(a, Join(hva, d))
  BY <1>1, JoinAssoc
<1>9. Join(hva, d) = Join(hv, Join(a, d))
  BY <1>1, JoinAssoc
<1>10. Join(hv, Join(a, d)) = Join(h, Join(v, Join(a, d)))
  BY <1>1, <1>2, JoinAssoc
<1> QED BY <1>3, <1>4, <1>5, <1>6, <1>7, <1>8, <1>9, <1>10

LEMMA ItemTextIs ==
  ASSUME NEW f \in ItemType
  PROVE  /\ ItemText(f) \in Seq(Char) /\ HeadOf(f) \in Seq(Char) /\ f.value \o Pattern \in Seq(Char) /\ f.value \in Seq(Char)
         /\ CRLF \o f.name \o CRLF \o (IF IsFile(f) THEN << ContentType >> \o CRLF ELSE <<>>) \o CRLF
              \o f.value \o CRLF \o Delimiter = ItemText(f)
<1> DEFINE a == CRLF
      n == f.name
      t == IF IsFile(f) THEN << ContentType >> \o CRLF ELSE <<>>
      v == f.value
      d == Delimiter
      text == a \o ((((n \o a) \o t) \o a) \o (v \o (a \o d)))
<1>1. a \in Seq(Char) /\ n \in Seq(Char) /\ v \in Seq(Char) /\ d \in Seq(Char) /\ Pattern \in Seq(Char)
  BY CRLFIs, NameIs, DelimiterIs, PatternIs DEF ItemType, FieldType
<1>2. t \in Seq(Char)
  <2>1. << ContentType >> \in Seq(Char)
    BY Specials, SingleType
  <2>2. << ContentType >> \o CRLF \in Seq(Char)
    BY <1>1, <2>1, ConcatProperties
  <2> QED BY <2>2, EmptySeq
<1>3. ItemText(f) = text
  BY DEF ItemText, HeadOf, Pattern
<1>4. HeadOf(f) \in Seq(Char) /\ v \o Pattern \in Seq(Char)
  BY <1>1, HeadIs, Joined DEF Join
<1>5. ItemText(f) \in Seq(Char)
  <2>1. Join(HeadOf(f), v \o Pattern) \in Seq(Char)
    BY <1>4, Joined
  <2>2. Join(a, Join(HeadOf(f), v \o Pattern)) \in Seq(Char)
    BY <1>1, <2>1, Joined
  <2> QED BY <2>2 DEF ItemText, Join
<1> HIDE DEF a, n, t, v, d
<1>6. ((((((a \o n) \o a) \o t) \o a) \o v) \o a) \o d = text
  <2>1. Join(Join(Join(Join(Join(Join(Join(a, n), a), t), a), v), a), d)
          = Join(a, Join(Join(Join(Join(n, a), t), a), Join(v, Join(a, d))))
    BY <1>1, <1>2, Eight
  <2> QED BY <2>1 DEF Join
<1> HIDE DEF text
<1> QED BY <1>1, <1>3, <1>4, <1>5, <1>6 DEF a, n, t, v, d

LEMMA TwoDashes == <<Dash, Dash>> \in Seq(Char) /\ Len(<<Dash, Dash>>) = 2 /\ <<Dash, Dash>>[1] = Dash
<1>1. Dash \in Char
  BY Specials
<1> QED BY <1>1

LEMMA RestIs ==
  ASSUME NEW v, MultiVisit(v)
  PROVE  /\ ItemTexts(v) \in Seq(Seq(Char)) /\ Len(ItemTexts(v)) = Len(v.fields) /\ Len(v.fields) \in Nat
         /\ Ending(v) \in Seq(Char) /\ Len(Ending(v)) = 2 + Len(v.tail) /\ Len(v.tail) \in Nat
         /\ Ending(v)[1] = Dash /\ Tail(Ending(v)) \in Seq(Char) /\ Len(Tail(Ending(v))) = 1 + Len(v.tail)
         /\ Ending(v) # <<>> /\ Tail(Ending(v)) # <<>>
         /\ \A i \in 0..Len(v.fields) : Rest(v, i) \in Seq(Char) /\ Rest(v, i) # <<>>
         /\ \A i \in 1..Len(v.fields) : Rest(v, i - 1) = ItemText(v.fields[i]) \o Rest(v, i)
         /\ Rest(v, Len(v.fields)) = Ending(v)
         /\ MultipartBody(v) = Delimiter \o Rest(v, 0)
<1> DEFINE fs == v.fields
      ts == ItemTexts(v)
      e == Ending(v)
      dd == <<Dash, Dash>>
      n == Len(fs)
<1>1. fs \in Seq(ItemType) /\ n \in Nat /\ DOMAIN fs = 1..n /\ v.tail \in Seq(Char) /\ Len(v.tail) \in Nat
  BY LenProperties DEF MultiVisit
<1>2. /\ ts = [i \in 1..n |-> ItemText(fs[i])] /\ \A i \in 1..n : fs[i] \in ItemType /\ ts[i] \in Seq(Char)
  <2>1. \A i \in 1..n : fs[i] \in ItemType
    BY <1>1, ElementOfSeq
  <2>2. ts = [i \in 1..n |-> ItemText(fs[i])]
    BY <1>1 DEF ItemTexts
  <2> HIDE DEF ts, fs, n
  <2>3. \A i \in 1..n : ItemText(fs[i]) \in Seq(Char)
    BY <2>1, ItemTextIs
  <2> QED BY <2>1, <2>2, <2>3
<1>3. ts \in Seq(Seq(Char)) /\ Len(ts) = n
  <2>1. ts = [i \in 1..n |-> ts[i]]
    BY <1>2
  <2> HIDE DEF ts, n
  <2> QED BY <1>1, <1>2, <2>1, SeqIs
<1>4. dd \in Seq(Char) /\ Len(dd) = 2 /\ dd[1] = Dash
  BY Specials, TwoDashes
<1> HIDE DEF dd
<1>5. e \in Seq(Char) /\ Len(e) = 2 + Len(v.tail) /\ e[1] = Dash /\ e # <<>>
  <2>0. e = dd \o v.tail
    BY DEF Ending, dd
  <2> HIDE DEF e
  <2>1. /\ e \in Seq(Char) /\ Len(e) = Len(dd) + Len(v.tail) /\ \A i \in 1..Len(dd) : e[i] = dd[i]
    BY <1>1, <1>4, <2>0, ConcatIs
  <2>2. Len(e) > 0
    BY <1>1, <1>4, <2>1
  <2> QED BY <1>4, <2>1, <2>2
<1> HIDE DEF e, ts
<1>6. Tail(e) \in Seq(Char) /\ Len(Tail(e)) = 1 + Len(v.tail) /\ Tail(e) # <<>>
  <2>1. Tail(e) \in Seq(Char) /\ Len(Tail(e)) = Len(e) - 1
    BY <1>5, HeadTailProperties
  <2>2. Len(Tail(e)) = 1 + Len(v.tail) /\ Len(Tail(e)) # 0
    <3> DEFINE x == Len(e)
          y == Len(Tail(e))
          z == Len(v.tail)
    <3>1. x = 2 + z /\ y = x - 1 /\ z \in Nat
      BY <1>1, <1>5, <2>1
    <3> HIDE DEF x, y, z
    <3>2. y = 1 + z /\ y # 0
      BY <3>1
    <3> QED BY <3>2 DEF x, y, z
  <2>3. Tail(e) # <<>>
    BY <2>2, EmptySeq
  <2> QED BY <2>1, <2>2, <2>3
<1>7. \A i \in 0..n : Rest(v, i) \in Seq(Char) /\ Rest(v, i) # <<>>
  <2> TAKE i \in 0..n
  <2> DEFINE u == From(i, ts)
        w == FlattenSeq(u)
        r == w \o e
  <2>1. u \in Seq(Seq(Char))
    BY <1>3, FirstFrom
  <2> HIDE DEF u
  <2>2. w \in Seq(Char)
    BY <2>1, FlattenType
  <2> HIDE DEF w
  <2>3. r \in Seq(Char) /\ Len(r) = Len(w) + Len(e) /\ Len(w) \in Nat
    BY <1>5, <2>2, ConcatIs
  <2>4. Len(r) > 0
    BY <1>1, <1>5, <2>3
  <2>5. Rest(v, i) = r
    BY DEF Rest, u, w, e, ts
  <2> HIDE DEF r
  <2> QED BY <2>3, <2>4, <2>5
<1>8. \A i \in 1..n : Rest(v, i - 1) = ItemText(fs[i]) \o Rest(v, i)
  <2> TAKE i \in 1..n
  <2> DEFINE u == FlattenSeq(From(i, ts))
        x == ts[i]
  <2>0. i \in 1..Len(ts)
    BY <1>3
  <2>1. FlattenSeq(From(i - 1, ts)) = x \o u /\ u \in Seq(Char) /\ x \in Seq(Char)
    BY <1>3, <2>0, FlattenAt
  <2>2. Rest(v, i - 1) = FlattenSeq(From(i - 1, ts)) \o e /\ Rest(v, i) = u \o e
    BY DEF Rest, ts, e
  <2>3. x = ItemText(fs[i])
    BY <1>2
  <2> HIDE DEF u, x
  <2>4. (x \o u) \o e = x \o (u \o e)
    BY <1>5, <2>1, ConcatAssociative
  <2> QED BY <2>1, <2>2, <2>3, <2>4
<1>9. Rest(v, n) = e
  <2>1. From(n, ts) = <<>>
    BY <1>3, FromEnds
  <2>2. <<>> \o e = e
    BY <1>5, ConcatEmptySeq
  <2>3. Rest(v, n) = FlattenSeq(From(n, ts)) \o e
    BY DEF Rest, ts, e
  <2> QED BY <2>1, <2>2, <2>3, FlattenEmpty
<1>10. MultipartBody(v) = Delimiter \o Rest(v, 0)
  <2> DEFINE F(f) == CRLF \o f.name \o CRLF \o (IF IsFile(f) THEN << ContentType >> \o CRLF ELSE <<>>) \o CRLF
                     \o f.value \o CRLF \o Delimiter
        us == [i \in DOMAIN v.fields |-> F(v.fields[i])]
        w == FlattenSeq(ts)
  <2>1. \A i \in 1..n : F(fs[i]) = ItemText(fs[i])
    BY <1>2, ItemTextIs
  <2>2. us = ts
    <3> HIDE DEF F
    <3> QED BY <1>1, <1>2, <2>1
  <2>3. MultipartBody(v) = ((Delimiter \o FlattenSeq(us)) \o dd) \o v.tail
    BY DEF MultipartBody, dd
  <2> HIDE DEF us
  <2>4. w \in Seq(Char) /\ Delimiter \in Seq(Char)
    BY <1>3, FlattenType, DelimiterIs
  <2>5. Rest(v, 0) = w \o e
    <3>1. From(0, ts) = ts
      BY <1>3, FromEnds
    <3>2. Rest(v, 0) = FlattenSeq(From(0, ts)) \o e
      BY DEF Rest, ts, e
    <3> QED BY <3>1, <3>2
  <2>6. e = dd \o v.tail
    BY DEF e, dd, Ending
  <2> HIDE DEF w
  <2>7. MultipartBody(v) = ((Delimiter \o w) \o dd) \o v.tail
    BY <2>2, <2>3 DEF w
  <2>8. Delimiter \o w \in Seq(Char)
    BY <2>4, ConcatProperties
  <2>9. ((Delimiter \o w) \o dd) \o v.tail = (Delimiter \o w) \o (dd \o v.tail)
    <3> DEFINE x == Delimiter \o w
    <3>1. x \in Seq(Char)
      BY <2>8
    <3> HIDE DEF x
    <3>2. (x \o dd) \o v.tail = x \o (dd \o v.tail)
      BY <1>1, <1>4, <3>1, Assoc
    <3> QED BY <3>2 DEF x
  <2>10. (Delimiter \o w) \o e = Delimiter \o (w \o e)
    BY <1>5, <2>4, ConcatAssociative
  <2> QED BY <2>5, <2>6, <2>7, <2>9, <2>10
<1> QED BY <1>1, <1>3, <1>5, <1>6, <1>7, <1>8, <1>9, <1>10 DEF ts, e, n

\* A line end, then t.
LEMMA LineEnd ==
  ASSUME NEW t \in Seq(Char)
  PROVE  LET s == CRLF \o t
         IN  /\ s \in Seq(Char) /\ s # <<>> /\ s[1] = CR /\ Tail(s) \in Seq(Char) /\ Tail(s) # <<>> /\ Tail(s)[1] = LF
             /\ Tail(Tail(s)) = t /\ Len(s) = 2 + Len(t)
<1> DEFINE s == CRLF \o t
      u == Tail(CRLF)
<1>1. CRLF \in Seq(Char) /\ Len(CRLF) = 2 /\ CRLF # <<>> /\ CRLF[1] = CR /\ CRLF[2] = LF
  BY CRLFIs
<1>2. s \in Seq(Char) /\ s # <<>> /\ s[1] = CR /\ Tail(s) = u \o t /\ u \in Seq(Char) /\ Len(u) = 2 - 1
  <2>1. s # <<>> /\ s[1] = CRLF[1] /\ Tail(s) = u \o t /\ u \in Seq(Char) /\ Len(u) = Len(CRLF) - 1
    BY CRLFIs, Peel
  <2>2. s \in Seq(Char)
    BY <1>1, ConcatProperties
  <2> QED BY <1>1, <2>1, <2>2
<1>3. u[1] = LF
  BY <1>1, HeadTailProperties
<1>4. Len(u) = 1 /\ u # <<>>
  <2> HIDE DEF u
  <2>1. Len(u) = 1 /\ Len(<<>>) = 0
    BY <1>2
  <2>2. u # <<>>
    BY <2>1
  <2> QED BY <2>1, <2>2
<1> HIDE DEF u
<1>5. /\ u \o t # <<>> /\ (u \o t)[1] = u[1] /\ Tail(u \o t) = Tail(u) \o t /\ Tail(u) \in Seq(Char)
      /\ Len(Tail(u)) = Len(u) - 1
  BY <1>2, <1>4, Peel, SMTT(30)
<1>6. Tail(u) = <<>>
  <2>1. Len(Tail(u)) = 0
    BY <1>4, <1>5
  <2> QED BY <1>5, <2>1, EmptySeq
<1>7. Tail(u) \o t = t
  BY <1>6, ConcatEmptySeq
<1>8. u \o t \in Seq(Char)
  BY <1>2, ConcatProperties
<1>9. Len(s) = 2 + Len(t)
  <2>1. Len(s) = Len(CRLF) + Len(t)
    BY CRLFIs, ConcatIs
  <2> QED BY <1>1, <2>1
<1> HIDE DEF s
<1> QED BY <1>2, <1>3, <1>5, <1>7, <1>8, <1>9 DEF s

-----------------------------------------------------------------------------
(* The reading of a whole multipart body.                                  *)

\* The parameters the first i items make, and the files among them: i are
\* named in the pieces, the first j are given on entirely.
ParamsOf(v) == [i \in DOMAIN v.fields |-> ItemParams(v.fields[i])]
Upto(v, Q, i, p) == p.params = Q \o FlattenSeq(First(i, ParamsOf(v))) /\ p.length = Len(MultipartBody(v))
FilesIn(v, i, j, us) ==
  /\ \A x \in DOMAIN us : \E y \in 1..i : IsFile(v.fields[y]) /\ us[x].name = v.fields[y].name
  /\ \A y \in 1..j : IsFile(v.fields[y]) => Whole(us, v.fields[y])

\* The parser at some byte of the body, b being what is left.
Here(v, p, b) ==
  /\ p \in ParserType /\ p.at < Len(Boundary) /\ Len(p.buffer) < BufferSize
  /\ b \in Seq(Char) /\ p.parsed + Len(b) = Len(MultipartBody(v))

\* The stages: in the first boundary; before and inside the line end after
\* it or after the i-th item; in the header of the i-th item, and in the item;
\* after the last boundary; given up.
Opens(v, Q, p, b) ==
  /\ p.state = "EXPECT_BOUNDARY" /\ p.parsed < Len(Boundary) + 2 /\ b = From(p.parsed, MultipartBody(v))
  /\ p.temp = <<>> /\ Upto(v, Q, 0, p) /\ FilesIn(v, 0, 0, p.uploads)
Between(v, Q, p, b, i) ==
  /\ p.state = IF i = 0 THEN "EXPECT_BOUNDARY" ELSE "DASH3_OR_RETURN2"
  /\ (i = 0 => p.parsed = Len(Boundary) + 2) /\ b = Rest(v, i)
  /\ p.temp = <<>> /\ Upto(v, Q, i, p) /\ FilesIn(v, i, i, p.uploads)
Feeds(v, Q, p, b, i) ==
  /\ p.state = IF i = 0 THEN "EXPECT_BOUNDARY" ELSE "EXPECT_FEED2"
  /\ (i = 0 => p.parsed = Len(Boundary) + 3) /\ b = Tail(Rest(v, i))
  /\ p.temp = <<>> /\ Upto(v, Q, i, p) /\ FilesIn(v, i, i, p.uploads)
Heads(v, Q, p, b, i, k) ==
  /\ HeadData(p, v.fields[i], k)
  /\ b = From(k, HeadOf(v.fields[i])) \o ((v.fields[i].value \o Pattern) \o Rest(v, i))
  /\ Upto(v, Q, i - 1, p) /\ FilesIn(v, i - 1, i - 1, p.uploads)
Items(v, Q, p, b, i, j, m) ==
  /\ InItem(p, v.fields[i], j, m)
  /\ b = From(j + m, v.fields[i].value \o Pattern) \o Rest(v, i)
  /\ p.temp = <<>> /\ Upto(v, Q, i - 1, p) /\ FilesIn(v, i, i - 1, p.uploads)
Finished(v, Q, p) ==
  /\ p.state = "PARSING_FINISHED" /\ p.params = Q \o FlattenSeq(ParamsOf(v))
  /\ p.length = Len(MultipartBody(v)) + 2 - Len(v.tail) /\ FilesIn(v, Len(v.fields), Len(v.fields), p.uploads)
Failed(v, Q, p) ==
  /\ p.state = "PARSE_ERROR" /\ p.length = Len(MultipartBody(v))
  /\ \E i \in 0..Len(v.fields) : p.params = Q \o FlattenSeq(First(i, ParamsOf(v)))
  /\ ~v.memory \/ (v.fields = <<>> /\ p.params = Q /\ FilesIn(v, 0, 0, p.uploads))
Stage(v, Q, p, b) ==
  \/ Opens(v, Q, p, b)
  \/ \E i \in 0..Len(v.fields) : Between(v, Q, p, b, i)
  \/ \E i \in 0..(Len(v.fields) - 1) : Feeds(v, Q, p, b, i)
  \/ \E i \in 1..Len(v.fields) : \E k \in 0..(Len(HeadOf(v.fields[i])) - 1) : Heads(v, Q, p, b, i, k)
  \/ \E i \in 1..Len(v.fields), j \in Nat, m \in Nat : Items(v, Q, p, b, i, j, m)
  \/ Finished(v, Q, p)
  \/ Failed(v, Q, p)

\* The stage of a parser after a byte of the body.
Reads(v, Q, p, b) == Here(v, p, b) /\ Stage(v, Q, p, b)

LEMMA ParamsAre ==
  ASSUME NEW v, MultiVisit(v)
  PROVE  /\ ParamsOf(v) \in Seq(Seq(Param)) /\ Len(ParamsOf(v)) = Len(v.fields)
         /\ \A i \in 1..Len(v.fields) : ParamsOf(v)[i] = ItemParams(v.fields[i]) /\ v.fields[i] \in ItemType
<1>1. v.fields \in Seq(ItemType) /\ Len(v.fields) \in Nat /\ DOMAIN v.fields = 1..Len(v.fields)
  BY LenProperties DEF MultiVisit
<1>2. \A i \in 1..Len(v.fields) : v.fields[i] \in ItemType
  BY <1>1, ElementOfSeq
<1>3. \A i \in 1..Len(v.fields) : ParamsOf(v)[i] = ItemParams(v.fields[i])
  BY <1>1 DEF ParamsOf
<1>4. \A i \in 1..Len(v.fields) : ParamsOf(v)[i] \in Seq(Param)
  BY <1>2, <1>3, ItemParamsType
<1>5. ParamsOf(v) = [i \in 1..Len(v.fields) |-> ParamsOf(v)[i]]
  BY <1>1 DEF ParamsOf
<1>6. ParamsOf(v) \in Seq(Seq(Param)) /\ Len(ParamsOf(v)) = Len(v.fields)
  <2> DEFINE s == ParamsOf(v)
             n == Len(v.fields)
  <2>1. n \in Nat /\ s = [i \in 1..n |-> s[i]] /\ \A i \in 1..n : s[i] \in Seq(Param)
    BY <1>1, <1>4, <1>5
  <2> HIDE DEF s, n
  <2>2. s \in Seq(Seq(Param)) /\ Len(s) = n
    BY <2>1, SeqIs
  <2> QED BY <2>2 DEF s, n
<1> QED BY <1>2, <1>3, <1>6

\* One more item is read.
LEMMA UptoNext ==
  ASSUME NEW v, MultiVisit(v), NEW Q \in Seq(Param), NEW p, NEW q, NEW i \in 1..Len(v.fields),
         Upto(v, Q, i - 1, p), q.params = p.params \o ItemParams(v.fields[i]), q.length = p.length
  PROVE  Upto(v, Q, i, q)
<1> DEFINE ps == ParamsOf(v)
      a == FlattenSeq(First(i - 1, ps))
      c == ItemParams(v.fields[i])
<1>1. ps \in Seq(Seq(Param)) /\ i \in 1..Len(ps) /\ ps[i] = c
  BY ParamsAre
<1> HIDE DEF ps
<1>2. FlattenSeq(First(i, ps)) = FlattenSeq(First(i - 1, ps)) \o ps[i] /\ FlattenSeq(First(i - 1, ps)) \in Seq(Param)
      /\ ps[i] \in Seq(Param)
  BY <1>1, FlattenAt
<1>3. FlattenSeq(First(i, ps)) = a \o c /\ a \in Seq(Param) /\ c \in Seq(Param)
  BY <1>1, <1>2
<1>4. p.params = Q \o a /\ p.length = Len(MultipartBody(v))
  BY DEF Upto, ps
<1> HIDE DEF a, c
<1>5. (Q \o a) \o c = Q \o (a \o c)
  BY <1>3, ConcatAssociative
<1>6. q.params = Q \o FlattenSeq(First(i, ps))
  <2>1. q.params = p.params \o c
    BY DEF c
  <2> QED BY <1>3, <1>4, <1>5, <2>1
<1> QED BY <1>4, <1>6 DEF Upto, ps

\* The files stay as they are while those of an item are added.
LEMMA FilesAdded ==
  ASSUME NEW v, MultiVisit(v), NEW i \in 1..Len(v.fields), NEW n \in {i - 1, i}, NEW us, NEW ws,
         FilesIn(v, n, i - 1, us), Adds(us, ws, v.fields[i])
  PROVE  /\ FilesIn(v, i, i - 1, ws)
         /\ (IsFile(v.fields[i]) => Whole(ws, v.fields[i])) => FilesIn(v, i, i, ws)
<1>0. i \in Nat /\ DOMAIN v.fields = 1..Len(v.fields) /\ Len(v.fields) \in Nat
  BY LenProperties DEF MultiVisit
<1>1. ASSUME NEW x \in DOMAIN ws
      PROVE  \E y \in 1..i : IsFile(v.fields[y]) /\ ws[x].name = v.fields[y].name
  <2>1. CASE ws[x].name = v.fields[i].name /\ IsFile(v.fields[i])
    BY <1>0, <2>1
  <2>2. CASE \E z \in DOMAIN us : us[z].name = ws[x].name
    <3>1. PICK z \in DOMAIN us : us[z].name = ws[x].name
      BY <2>2
    <3>2. PICK y \in 1..n : IsFile(v.fields[y]) /\ us[z].name = v.fields[y].name
      BY <3>1 DEF FilesIn
    <3>3. y \in 1..i
      BY <1>0, <3>2
    <3> QED BY <3>1, <3>2, <3>3
  <2> QED BY <2>1, <2>2 DEF Adds
<1>2. ASSUME NEW y \in 1..(i - 1), IsFile(v.fields[y])
      PROVE  Whole(ws, v.fields[y])
  <2>1. y \in DOMAIN v.fields /\ i \in DOMAIN v.fields /\ y # i
    BY <1>0
  <2>2. v.fields[i].name # v.fields[y].name
    BY <1>2, <2>1 DEF MultiVisit
  <2>3. Whole(us, v.fields[y])
    BY <1>2 DEF FilesIn
  <2> QED BY <2>2, <2>3 DEF Adds
<1>3. \A y \in 1..i : y = i \/ y \in 1..(i - 1)
  BY <1>0
<1> QED BY <1>1, <1>2, <1>3 DEF FilesIn

\* At the start of an item nothing of it was given on.
LEMMA ItemFirst ==
  ASSUME NEW v, MultiVisit(v), NEW i \in 1..Len(v.fields), NEW p \in ParserType,
         FilesIn(v, i - 1, i - 1, p.uploads), ItemStarts(p, v.fields[i]), p.temp = <<>>
  PROVE  InItem(p, v.fields[i], 0, 0) /\ FilesIn(v, i, i - 1, p.uploads)
<1> DEFINE f == v.fields[i]
      us == p.uploads
<1>0. i \in Nat /\ DOMAIN v.fields = 1..Len(v.fields) /\ Len(v.fields) \in Nat /\ f \in ItemType
  BY LenProperties, ParamsAre DEF MultiVisit
<1>1. ASSUME IsFile(f)
      PROVE  Of(us, f) = {}
  <2>1. SUFFICES ASSUME NEW x \in Of(us, f)
                 PROVE  FALSE
    OBVIOUS
  <2>2. x \in DOMAIN us /\ us[x].name = f.name
    BY DEF Of
  <2>3. PICK y \in 1..(i - 1) : IsFile(v.fields[y]) /\ us[x].name = v.fields[y].name
    BY <2>2 DEF FilesIn
  <2>4. y \in DOMAIN v.fields /\ i \in DOMAIN v.fields /\ y # i
    BY <1>0
  <2> QED BY <1>1, <2>2, <2>3, <2>4 DEF MultiVisit
<1>2. Len(p.buffer) = 0 /\ p.buffer = <<>> /\ p.value = <<>> /\ p.size = 0 /\ p.name = f.name /\ p.isFile = IsFile(f)
      /\ p.state = "WAIT_FOR_RETURN1"
  BY DEF ItemStarts
<1>3. f.value \in Seq(Char) /\ Len(f.value) \in Nat /\ 0 \in 0..Len(f.value) /\ BufferSize \in Nat \ {0}
  BY <1>0, LenProperties, BodyAssumption DEF ItemType, FieldType
<1>4. First(0, f.value) = <<>> /\ SubSeq(f.value, 0 - 0 + 1, 0) = <<>>
  BY <1>3, FromEnds DEF First
<1>5. IsFile(f) => Partly(us, f, 0)
  BY <1>1 DEF Partly, Chain
<1>6. ItemData(p, f, 0)
  <2>1. 0 < BufferSize
    BY <1>3
  <2> HIDE DEF f, us
  <2>2. IsFile(f) => Partly(p.uploads, f, 0 - Len(p.buffer)) /\ p.buffer = SubSeq(f.value, 0 - Len(p.buffer) + 1, 0)
    BY <1>2, <1>4, <1>5 DEF us
  <2>3. ~IsFile(f) => p.value = First(0, f.value)
    BY <1>2, <1>4
  <2> QED BY <1>2, <1>3, <2>1, <2>2, <2>3 DEF ItemData
<1>7. Matches(f.value, 0, 0)
  BY <1>3, NoMatches
<1>8. InItem(p, f, 0, 0)
  BY <1>2, <1>6, <1>7 DEF InItem, ItemState
<1>9. FilesIn(v, i, i - 1, us)
  <2>1. 1..(i - 1) \subseteq 1..i
    BY <1>0
  <2> QED BY <2>1 DEF FilesIn
<1> QED BY <1>8, <1>9

\* What stands before the next item.
LEMMA RestNext ==
  ASSUME NEW v, MultiVisit(v), NEW i \in 1..Len(v.fields)
  PROVE  LET f == v.fields[i]
             t == HeadOf(f) \o ((f.value \o Pattern) \o Rest(v, i))
             s == Rest(v, i - 1)
         IN  /\ t \in Seq(Char) /\ s \in Seq(Char) /\ s # <<>> /\ s[1] = CR
             /\ Tail(s) \in Seq(Char) /\ Tail(s) # <<>> /\ Tail(s)[1] = LF /\ Tail(Tail(s)) = t
             /\ (f.value \o Pattern) \o Rest(v, i) \in Seq(Char)
<1> DEFINE f == v.fields[i]
      h == HeadOf(f)
      x == f.value \o Pattern
      r == Rest(v, i)
      t == h \o (x \o r)
      s == Rest(v, i - 1)
<1>1. f \in ItemType /\ i \in 0..Len(v.fields)
  <2>1. Len(v.fields) \in Nat
    BY LenProperties DEF MultiVisit
  <2> QED BY <2>1, ParamsAre
<1>2. h \in Seq(Char) /\ x \in Seq(Char) /\ r \in Seq(Char) /\ s = ItemText(f) \o r /\ ItemText(f) = CRLF \o (h \o x)
      /\ CRLF \in Seq(Char)
  <2>1. HeadOf(f) \in Seq(Char) /\ f.value \o Pattern \in Seq(Char)
    BY <1>1, ItemTextIs
  <2>2. r \in Seq(Char) /\ s = ItemText(f) \o r
    BY <1>1, RestIs
  <2> QED BY <2>1, <2>2, CRLFIs DEF ItemText
<1> HIDE DEF h, x, r, s
<1>3. h \o x \in Seq(Char) /\ x \o r \in Seq(Char)
  BY <1>2, ConcatProperties
<1>4. t \in Seq(Char)
  BY <1>2, <1>3, ConcatProperties
<1>5. (CRLF \o (h \o x)) \o r = CRLF \o ((h \o x) \o r)
  <2> DEFINE y == h \o x
  <2>1. y \in Seq(Char)
    BY <1>3
  <2> HIDE DEF y
  <2>2. (CRLF \o y) \o r = CRLF \o (y \o r)
    BY <1>2, <2>1, Assoc
  <2> QED BY <2>2 DEF y
<1>6. (h \o x) \o r = h \o (x \o r)
  BY <1>2, Assoc
<1>7. s = CRLF \o t
  BY <1>2, <1>5, <1>6
<1> HIDE DEF t
<1>8. LET z == CRLF \o t
      IN  /\ z \in Seq(Char) /\ z # <<>> /\ z[1] = CR /\ Tail(z) \in Seq(Char) /\ Tail(z) # <<>> /\ Tail(z)[1] = LF
          /\ Tail(Tail(z)) = t
  BY <1>4, LineEnd
<1>9. /\ s \in Seq(Char) /\ s # <<>> /\ s[1] = CR /\ Tail(s) \in Seq(Char) /\ Tail(s) # <<>> /\ Tail(s)[1] = LF
      /\ Tail(Tail(s)) = t
  BY <1>7, <1>8
<1> QED BY <1>3, <1>4, <1>9 DEF h, x, r, s, t

\* The first boundary.
LEMMA FirstSteps ==
  ASSUME NEW p \in ParserType, p.state = "EXPECT_BOUNDARY", NEW c
  PROVE  /\ p.parsed < Len(Boundary) + 2 /\ c = Delimiter[p.parsed + 1] => FirstBoundary(p, c) = p
         /\ p.parsed = Len(Boundary) + 2 =>
              FirstBoundary(p, c) = IF c = CR THEN p ELSE To(p, "PARSE_ERROR")
         /\ p.parsed = Len(Boundary) + 3 /\ c = LF =>
              FirstBoundary(p, c) = [To(p, "PARSE_HEADERS") EXCEPT !.isFile = FALSE]
<1> DEFINE L == Len(Boundary)
      k == p.parsed
      wrong == \/ k < 2 /\ c # Dash
               \/ k \in 2..(L + 1) /\ Boundary[k - 1] # c
               \/ k = L + 2 /\ c # CR
               \/ k = L + 3 /\ c # LF
<1>1. L \in Nat \ {0} /\ k \in Nat
  BY BoundaryIs DEF ParserType
<1>2. FirstBoundary(p, c) =
        CASE wrong -> To(p, "PARSE_ERROR")
          [] ~wrong /\ k = L + 3 -> [To(p, "PARSE_HEADERS") EXCEPT !.isFile = FALSE]
          [] OTHER -> p
  BY DEF FirstBoundary
<1>3. ASSUME k < L + 2, c = Delimiter[k + 1]
      PROVE  ~wrong /\ k # L + 3
  <2>1. k # L + 3 /\ k # L + 2
    BY <1>1, <1>3
  <2>2. CASE k < 2
    <3>1. k = 0 \/ k = 1
      BY <1>1, <2>2
    <3>2. c = Dash
      BY <1>3, <3>1, DelimiterIs
    <3>3. k \notin 2..(L + 1)
      BY <1>1, <2>2
    <3> QED BY <2>1, <3>2, <3>3
  <2>3. CASE k >= 2
    <3>1. k - 1 \in 1..L /\ (k - 1) + 2 = k + 1
      BY <1>1, <1>3, <2>3
    <3>2. Delimiter[(k - 1) + 2] = Boundary[k - 1]
      BY <3>1, DelimiterIs
    <3>3. c = Boundary[k - 1]
      BY <1>3, <3>1, <3>2
    <3>4. ~(k < 2)
      BY <1>1, <2>3
    <3> QED BY <2>1, <3>3, <3>4
  <2> QED BY <1>1, <2>2, <2>3
<1>4. ASSUME k = L + 2
      PROVE  (wrong <=> c # CR) /\ k # L + 3
  <2>1. ~(k < 2) /\ k \notin 2..(L + 1) /\ k # L + 3
    BY <1>1, <1>4
  <2> QED BY <1>4, <2>1
<1>5. ASSUME k = L + 3, c = LF
      PROVE  ~wrong
  <2>1. ~(k < 2) /\ k \notin 2..(L + 1) /\ k # L + 2
    BY <1>1, <1>5
  <2> QED BY <1>5, <2>1
<1> HIDE DEF wrong
<1>6. k < L + 2 /\ c = Delimiter[k + 1] => FirstBoundary(p, c) = p
  BY <1>2, <1>3
<1>7. k = L + 2 => FirstBoundary(p, c) = IF c = CR THEN p ELSE To(p, "PARSE_ERROR")
  BY <1>2, <1>4
<1>8. k = L + 3 /\ c = LF => FirstBoundary(p, c) = [To(p, "PARSE_HEADERS") EXCEPT !.isFile = FALSE]
  BY <1>2, <1>5
<1> QED BY <1>6, <1>7, <1>8

\* The byte is counted with the rest of the body.
LEMMA HereNext ==
  ASSUME NEW v, NEW p, NEW b, Here(v, p, b), b # <<>>, NEW q \in ParserType, q.parsed = p.parsed + 1,
         q.at < Len(Boundary), Len(q.buffer) < BufferSize
  PROVE  Here(v, q, Tail(b))
<1>1. b \in Seq(Char) /\ Tail(b) \in Seq(Char) /\ Len(Tail(b)) = Len(b) - 1 /\ Len(b) \in Nat
  BY HeadTailProperties, LenProperties DEF Here
<1>2. p.parsed \in Nat
  BY DEF Here, ParserType
<1>3. (p.parsed + 1) + (Len(b) - 1) = p.parsed + Len(b)
  BY <1>1, <1>2
<1> QED BY <1>1, <1>3 DEF Here

LEMMA BodyIs ==
  ASSUME NEW v, MultiVisit(v)
  PROVE  /\ MultipartBody(v) \in Seq(Char) /\ Len(MultipartBody(v)) = Len(Boundary) + 2 + Len(Rest(v, 0))
         /\ Len(MultipartBody(v)) \in Nat /\ Len(Rest(v, 0)) \in Nat /\ Len(Boundary) \in Nat \ {0}
         /\ \A k \in 1..(Len(Boundary) + 2) : MultipartBody(v)[k] = Delimiter[k]
         /\ From(Len(Boundary) + 2, MultipartBody(v)) = Rest(v, 0)
<1> DEFINE r == Rest(v, 0)
      b == MultipartBody(v)
<1>0. r \in Seq(Char) /\ Delimiter \in Seq(Char)
  <2>1. 0 \in 0..Len(v.fields)
    BY RestIs
  <2> QED BY <2>1, RestIs, DelimiterIs
<1>1. r \in Seq(Char) /\ b = Delimiter \o r
  <2>1. 0 \in 0..Len(v.fields)
    BY RestIs
  <2> QED BY <2>1, RestIs
<1>2. Delimiter \in Seq(Char) /\ Len(Delimiter) = Len(Boundary) + 2 /\ Len(Boundary) \in Nat \ {0}
  BY DelimiterIs, BoundaryIs
<1> HIDE DEF r, b
<1>3. /\ Delimiter \o r \in Seq(Char) /\ Len(Delimiter \o r) = Len(Delimiter) + Len(r) /\ Len(r) \in Nat
      /\ \A k \in 1..Len(Delimiter) : (Delimiter \o r)[k] = Delimiter[k]
  BY <1>0, ConcatIs
<1>4. From(Len(Delimiter), Delimiter \o r) = r
  BY <1>0, FirstOfConcat
<1>5. Len(Boundary) + 2 + Len(r) \in Nat
  BY <1>2, <1>3
<1>6. b \in Seq(Char) /\ Len(b) = Len(Boundary) + 2 + Len(r)
  BY <1>1, <1>2, <1>3
<1>7. \A k \in 1..(Len(Boundary) + 2) : b[k] = Delimiter[k]
  BY <1>1, <1>2, <1>3
<1>8. From(Len(Boundary) + 2, b) = r
  BY <1>1, <1>2, <1>4
<1> QED BY <1>2, <1>3, <1>5, <1>6, <1>7, <1>8 DEF r, b

\* A byte of the first boundary.
LEMMA OpensStep ==
  ASSUME NEW v, MultiVisit(v), NEW Q \in Seq(Param), NEW p, NEW b, Here(v, p, b), Opens(v, Q, p, b),
         NEW last \in BOOLEAN
  PROVE  b # <<>> /\ Reads(v, Q, MultipartByte(p, b[1], last, v.memory), Tail(b))
<1> DEFINE s == MultipartBody(v)
      k == p.parsed
      L == Len(Boundary)
      c == b[1]
      q == Counted(p)
<1>1. p \in ParserType /\ k \in Nat /\ b \in Seq(Char) /\ v.memory \in BOOLEAN /\ p.state = "EXPECT_BOUNDARY"
  BY DEF Here, ParserType, MultiVisit, Opens
<1>2. s \in Seq(Char) /\ L \in Nat \ {0} /\ Len(s) \in Nat /\ Len(s) >= L + 2
  <2>1. Len(s) = L + 2 + Len(Rest(v, 0)) /\ Len(Rest(v, 0)) \in Nat /\ L \in Nat \ {0}
    BY BodyIs
  <2>2. Len(s) >= L + 2
    BY <2>1
  <2> QED BY <2>1, <2>2, BodyIs
<1>3. k < L + 2 /\ b = From(k, s)
  BY DEF Opens
<1>4. k < Len(s) /\ k + 1 \in 1..(L + 2)
  BY <1>1, <1>2, <1>3
<1>5. b # <<>> /\ c = s[k + 1] /\ Tail(b) = From(k + 1, s)
  <2> HIDE DEF s, k, c
  <2>1. From(k, s) # <<>> /\ From(k, s)[1] = s[k + 1] /\ Tail(From(k, s)) = From(k + 1, s)
    BY <1>1, <1>2, <1>4, FromNext
  <2> QED BY <1>3, <2>1 DEF c
<1>6. c = Delimiter[k + 1]
  BY <1>4, <1>5, BodyIs
<1>7. MultipartByte(p, c, last, v.memory) = q
  <2>1. FirstBoundary(p, c) = p
    BY <1>1, <1>3, <1>6, FirstSteps
  <2>2. p \in ParserType /\ v.memory \in BOOLEAN
    BY <1>1
  <2>3. p.state = "EXPECT_BOUNDARY" => MultipartByte(p, c, last, v.memory) = Counted(FirstBoundary(p, c))
    BY <2>2 DEF MultipartByte, Counted
  <2> QED BY <1>1, <2>1, <2>3
<1>8. /\ q \in ParserType /\ q.parsed = k + 1 /\ q.length = p.length /\ q.temp = p.temp /\ q.at = p.at
      /\ q.params = p.params /\ q.state = p.state /\ q.buffer = p.buffer /\ q.uploads = p.uploads
  BY <1>1, CountedIs
<1> HIDE DEF q, c
<1>9. Here(v, q, Tail(b))
  <2>1. q.at < L /\ Len(q.buffer) < BufferSize
    BY <1>8 DEF Here
  <2> QED BY <1>5, <1>8, <2>1, HereNext
<1>10. p.temp = <<>> /\ Upto(v, Q, 0, q) /\ FilesIn(v, 0, 0, q.uploads)
  BY <1>8 DEF Opens, Upto
<1>11. Stage(v, Q, q, Tail(b))
  <2>1. CASE k + 1 < L + 2
    <3>1. Opens(v, Q, q, Tail(b))
      BY <1>1, <1>5, <1>8, <1>10, <2>1 DEF Opens
    <3> QED BY <3>1 DEF Stage
  <2>2. CASE k + 1 = L + 2
    <3>1. From(L + 2, s) = Rest(v, 0)
      BY BodyIs
    <3>2. q.parsed = L + 2 /\ Tail(b) = Rest(v, 0)
      BY <1>5, <1>8, <2>2, <3>1
    <3>3. Between(v, Q, q, Tail(b), 0)
      BY <1>1, <1>8, <1>10, <3>2 DEF Between
    <3>4. 0 \in 0..Len(v.fields)
      BY RestIs
    <3> QED BY <3>3, <3>4 DEF Stage
  <2>3. k + 1 < L + 2 \/ k + 1 = L + 2
    BY <1>1, <1>2, <1>3
  <2> QED BY <2>1, <2>2, <2>3
<1> QED BY <1>5, <1>7, <1>9, <1>11 DEF Reads, c

\* After the first boundary.
LEMMA FirstBetween ==
  ASSUME NEW v, MultiVisit(v), NEW Q \in Seq(Param), NEW p, NEW b, Here(v, p, b), Between(v, Q, p, b, 0),
         NEW last \in BOOLEAN
  PROVE  b # <<>> /\ Reads(v, Q, MultipartByte(p, b[1], last, v.memory), Tail(b))
<1> DEFINE L == Len(Boundary)
      n == Len(v.fields)
      c == b[1]
      r == IF c = CR THEN p ELSE To(p, "PARSE_ERROR")
      q == Counted(r)
<1>1. p \in ParserType /\ v.memory \in BOOLEAN /\ p.state = "EXPECT_BOUNDARY" /\ p.parsed = L + 2 /\ b = Rest(v, 0)
      /\ n \in Nat
  BY RestIs DEF Here, MultiVisit, Between
<1>2. MultipartByte(p, c, last, v.memory) = q
  <2>1. FirstBoundary(p, c) = r
    BY <1>1, FirstSteps
  <2>2. p \in ParserType /\ v.memory \in BOOLEAN
    BY <1>1
  <2>3. p.state = "EXPECT_BOUNDARY" => MultipartByte(p, c, last, v.memory) = Counted(FirstBoundary(p, c))
    BY <2>2 DEF MultipartByte, Counted
  <2> QED BY <1>1, <2>1, <2>3
<1>3. b # <<>> /\ (n = 0 => c = Dash) /\ (n > 0 => c = CR)
  <2>1. b # <<>>
    <3>1. 0 \in 0..n
      BY <1>1
    <3> QED BY <1>1, <3>1, RestIs
  <2>2. ASSUME n = 0
        PROVE  c = Dash
    <3>1. Rest(v, n) = Ending(v) /\ Ending(v)[1] = Dash
      BY RestIs
    <3> QED BY <1>1, <2>2, <3>1
  <2>3. ASSUME n > 0
        PROVE  c = CR
    <3>1. 1 \in 1..n /\ 1 - 1 = 0
      BY <1>1, <2>3
    <3>2. Rest(v, 1 - 1)[1] = CR
      BY <3>1, RestNext
    <3> QED BY <1>1, <3>1, <3>2
  <2> QED BY <2>1, <2>2, <2>3
<1>4. /\ r \in ParserType /\ r.parsed = p.parsed /\ r.length = p.length /\ r.temp = p.temp /\ r.at = p.at
      /\ r.params = p.params /\ r.buffer = p.buffer /\ r.uploads = p.uploads
      /\ r.state = IF c = CR THEN "EXPECT_BOUNDARY" ELSE "PARSE_ERROR"
  <2>1. CASE c = CR
    BY <1>1, <2>1
  <2>2. CASE c # CR
    BY <1>1, <2>2, ToIs, Five DEF SamePlace
  <2> QED BY <2>1, <2>2
<1> HIDE DEF r
<1>5. /\ q \in ParserType /\ q.parsed = r.parsed + 1 /\ q.length = r.length /\ q.temp = r.temp /\ q.at = r.at
      /\ q.params = r.params /\ q.buffer = r.buffer /\ q.uploads = r.uploads /\ q.state = r.state
  BY <1>4, CountedIs
<1> HIDE DEF q
<1>6. Here(v, q, Tail(b))
  <2>1. q.at < L /\ Len(q.buffer) < BufferSize /\ q.parsed = p.parsed + 1
    BY <1>4, <1>5 DEF Here
  <2> QED BY <1>3, <1>5, <2>1, HereNext
<1>7. q.temp = <<>> /\ Upto(v, Q, 0, q) /\ FilesIn(v, 0, 0, q.uploads)
  BY <1>4, <1>5 DEF Between, Upto
<1>8. Stage(v, Q, q, Tail(b))
  <2>1. CASE n = 0
    <3>1. q.state = "PARSE_ERROR"
      BY <1>3, <1>4, <1>5, <2>1, Specials
    <3>2. v.fields = <<>> /\ ParamsOf(v) = <<>>
      <4>1. v.fields \in Seq(ItemType) /\ ParamsOf(v) \in Seq(Seq(Param)) /\ Len(ParamsOf(v)) = n
        BY ParamsAre DEF MultiVisit
      <4> QED BY <2>1, <4>1, EmptySeq
    <3>3. q.params = Q /\ q.length = Len(MultipartBody(v))
      <4>1. First(0, ParamsOf(v)) = <<>>
        BY FromEnds, ParamsAre
      <4>2. Q \o <<>> = Q
        BY ConcatEmptySeq
      <4> QED BY <1>7, <4>1, <4>2, FlattenEmpty DEF Upto
    <3>4. 0 \in 0..Len(v.fields) /\ q.params = Q \o FlattenSeq(First(0, ParamsOf(v)))
      BY <1>1, <1>7 DEF Upto
    <3>5. Failed(v, Q, q)
      BY <1>7, <3>1, <3>2, <3>3, <3>4 DEF Failed
    <3> QED BY <3>5 DEF Stage
  <2>2. CASE n > 0
    <3>1. q.state = "EXPECT_BOUNDARY"
      BY <1>3, <1>4, <1>5, <2>2
    <3>2. q.parsed = L + 3
      <4>1. L \in Nat /\ q.parsed = (L + 2) + 1
        BY <1>1, <1>4, <1>5, BoundaryIs
      <4> QED BY <4>1
    <3>3. Feeds(v, Q, q, Tail(b), 0)
      BY <1>1, <1>7, <3>1, <3>2 DEF Feeds
    <3>4. 0 \in 0..(n - 1)
      BY <1>1, <2>2
    <3> QED BY <3>3, <3>4 DEF Stage
  <2> QED BY <1>1, <2>1, <2>2
<1> QED BY <1>2, <1>3, <1>6, <1>8 DEF Reads

\* After the boundary that ends an item.
LEMMA NextBetween ==
  ASSUME NEW v, MultiVisit(v), NEW Q \in Seq(Param), NEW p, NEW b, NEW i \in 1..Len(v.fields),
         Here(v, p, b), Between(v, Q, p, b, i), NEW last \in BOOLEAN
  PROVE  b # <<>> /\ Reads(v, Q, MultipartByte(p, b[1], last, v.memory), Tail(b))
<1> DEFINE L == Len(Boundary)
      n == Len(v.fields)
      c == b[1]
      d == [p EXCEPT !.length = p.parsed + 4]
      r == IF c = CR THEN To(p, "EXPECT_FEED2") ELSE To(d, "PARSING_FINISHED")
      q == Counted(r)
<1>1. p \in ParserType /\ v.memory \in BOOLEAN /\ b = Rest(v, i) /\ p.state = "DASH3_OR_RETURN2"
      /\ n \in Nat /\ i \in Nat /\ i >= 1 /\ i <= n
  <2>1. n \in Nat
    BY RestIs
  <2>2. i # 0 /\ i \in Nat /\ i >= 1 /\ i <= n
    BY <2>1
  <2> QED BY <2>1, <2>2 DEF Here, MultiVisit, Between
<1>2. b # <<>> /\ (i = n => c = Dash) /\ (i < n => c = CR)
  <2>1. b # <<>>
    <3>1. i \in 0..n
      BY <1>1
    <3> QED BY <1>1, <3>1, RestIs
  <2>2. ASSUME i = n
        PROVE  c = Dash
    <3>1. Rest(v, n) = Ending(v) /\ Ending(v)[1] = Dash
      BY RestIs
    <3> QED BY <1>1, <2>2, <3>1
  <2>3. ASSUME i < n
        PROVE  c = CR
    <3>1. i + 1 \in 1..n /\ (i + 1) - 1 = i
      BY <1>1, <2>3
    <3>2. Rest(v, (i + 1) - 1)[1] = CR
      BY <3>1, RestNext
    <3> QED BY <1>1, <3>1, <3>2
  <2> QED BY <2>1, <2>2, <2>3
<1>3. c = CR \/ c = Dash
  BY <1>1, <1>2
<1>4. MultipartByte(p, c, last, v.memory) = q
  <2>1. AfterBoundary(p, c, last) = r
    <3>1. CASE c = CR
      BY <3>1, Specials DEF AfterBoundary
    <3>2. CASE c = Dash
      BY <3>2, Specials DEF AfterBoundary
    <3> QED BY <1>3, <3>1, <3>2
  <2>2. p \in ParserType /\ v.memory \in BOOLEAN
    BY <1>1
  <2>3. p.state = "DASH3_OR_RETURN2" => MultipartByte(p, c, last, v.memory) = Counted(AfterBoundary(p, c, last))
    BY <2>2 DEF MultipartByte, Counted
  <2> QED BY <1>1, <2>1, <2>3
<1>5. /\ d \in ParserType /\ d.parsed = p.parsed /\ d.length = p.parsed + 4 /\ d.temp = p.temp /\ d.at = p.at
      /\ d.params = p.params /\ d.buffer = p.buffer /\ d.uploads = p.uploads
  <2>1. p.parsed + 4 \in Nat
    BY <1>1 DEF ParserType
  <2> QED BY <1>1, <2>1 DEF ParserType
<1> HIDE DEF d
<1>6. /\ r \in ParserType /\ r.parsed = p.parsed /\ r.temp = p.temp /\ r.at = p.at
      /\ r.params = p.params /\ r.buffer = p.buffer /\ r.uploads = p.uploads
      /\ r.state = IF c = CR THEN "EXPECT_FEED2" ELSE "PARSING_FINISHED"
      /\ r.length = IF c = CR THEN p.length ELSE p.parsed + 4
  <2>1. CASE c = CR
    BY <1>1, <2>1, ToIs, Five DEF SamePlace
  <2>2. CASE c # CR
    BY <1>5, <2>2, ToIs, Five DEF SamePlace
  <2> QED BY <2>1, <2>2
<1> HIDE DEF r
<1>7. /\ q \in ParserType /\ q.parsed = r.parsed + 1 /\ q.length = r.length /\ q.temp = r.temp /\ q.at = r.at
      /\ q.params = r.params /\ q.buffer = r.buffer /\ q.uploads = r.uploads /\ q.state = r.state
  BY <1>6, CountedIs
<1> HIDE DEF q
<1>8. Here(v, q, Tail(b))
  <2>1. q.at < L /\ Len(q.buffer) < BufferSize /\ q.parsed = p.parsed + 1
    BY <1>6, <1>7 DEF Here
  <2> QED BY <1>2, <1>7, <2>1, HereNext
<1>9. q.temp = <<>> /\ q.params = p.params /\ FilesIn(v, i, i, q.uploads)
  BY <1>6, <1>7 DEF Between
<1>10. Stage(v, Q, q, Tail(b))
  <2>1. CASE i = n
    <3>1. q.state = "PARSING_FINISHED" /\ q.length = p.parsed + 4
      BY <1>2, <1>6, <1>7, <2>1, Specials
    <3>2. q.length = Len(MultipartBody(v)) + 2 - Len(v.tail)
      <4>1. p.parsed + Len(b) = Len(MultipartBody(v)) /\ p.parsed \in Nat
        BY <1>1 DEF Here, ParserType
      <4>2. Len(b) = 2 + Len(v.tail) /\ Len(v.tail) \in Nat
        BY <1>1, <2>1, RestIs
      <4>3. p.parsed + (2 + Len(v.tail)) = Len(MultipartBody(v))
        BY <4>1, <4>2
      <4>4. p.parsed + 4 = (p.parsed + (2 + Len(v.tail))) + 2 - Len(v.tail)
        BY <4>1, <4>2
      <4> QED BY <3>1, <4>3, <4>4
    <3>3. q.params = Q \o FlattenSeq(ParamsOf(v))
      <4>1. ParamsOf(v) \in Seq(Seq(Param)) /\ Len(ParamsOf(v)) = n
        BY ParamsAre
      <4>2. First(Len(ParamsOf(v)), ParamsOf(v)) = ParamsOf(v)
        BY ParamsAre, FromEnds
      <4>3. First(i, ParamsOf(v)) = ParamsOf(v)
        BY <2>1, <4>1, <4>2
      <4> QED BY <1>9, <4>3 DEF Between, Upto
    <3>4. FilesIn(v, Len(v.fields), Len(v.fields), q.uploads)
      BY <1>9, <2>1
    <3>5. Finished(v, Q, q)
      BY <3>1, <3>2, <3>3, <3>4 DEF Finished
    <3> QED BY <3>5 DEF Stage
  <2>2. CASE i < n
    <3>1. q.state = "EXPECT_FEED2" /\ q.length = p.length
      BY <1>2, <1>6, <1>7, <2>2
    <3>2. Upto(v, Q, i, q)
      BY <1>9, <3>1 DEF Between, Upto
    <3>3. i # 0 /\ i \in 0..(n - 1)
      BY <1>1, <2>2
    <3>4. Feeds(v, Q, q, Tail(b), i)
      BY <1>1, <1>9, <3>1, <3>2, <3>3 DEF Feeds
    <3> QED BY <3>3, <3>4 DEF Stage
  <2> QED BY <1>1, <2>1, <2>2
<1> QED BY <1>2, <1>4, <1>8, <1>10 DEF Reads

\* The line end after a boundary, and the next header.
LEMMA FeedsStep ==
  ASSUME NEW v, MultiVisit(v), NEW Q \in Seq(Param), NEW p, NEW b, NEW i \in 0..(Len(v.fields) - 1),
         Here(v, p, b), Feeds(v, Q, p, b, i), NEW last \in BOOLEAN
  PROVE  b # <<>> /\ Reads(v, Q, MultipartByte(p, b[1], last, v.memory), Tail(b))
<1> DEFINE L == Len(Boundary)
      n == Len(v.fields)
      c == b[1]
      f == v.fields[i + 1]
      t == HeadOf(f) \o ((f.value \o Pattern) \o Rest(v, i + 1))
      r == [To(p, "PARSE_HEADERS") EXCEPT !.isFile = FALSE]
      q == Counted(r)
<1>1. p \in ParserType /\ v.memory \in BOOLEAN /\ b = Tail(Rest(v, i)) /\ n \in Nat /\ i \in Nat
      /\ i + 1 \in 1..n /\ (i + 1) - 1 = i
  <2>1. n \in Nat
    BY RestIs
  <2>2. i \in Nat /\ i + 1 \in 1..n /\ (i + 1) - 1 = i
    BY <2>1
  <2> QED BY <2>1, <2>2 DEF Here, MultiVisit, Feeds
<1>2. b # <<>> /\ c = LF /\ Tail(b) = t
  <2>1. LET s == Rest(v, (i + 1) - 1) IN Tail(s) # <<>> /\ Tail(s)[1] = LF /\ Tail(Tail(s)) = t
    BY <1>1, RestNext
  <2>2. Tail(Rest(v, i)) # <<>> /\ Tail(Rest(v, i))[1] = LF /\ Tail(Tail(Rest(v, i))) = t
    BY <1>1, <2>1
  <2> HIDE DEF t
  <2> QED BY <1>1, <2>2
<1>3. MultipartByte(p, c, last, v.memory) = q
  <2>1. CASE i = 0
    <3>1. p.state = "EXPECT_BOUNDARY" /\ p.parsed = L + 3
      BY <2>1 DEF Feeds
    <3>2. FirstBoundary(p, c) = r
      BY <1>1, <1>2, <3>1, FirstSteps
    <3>3. MultipartByte(p, c, last, v.memory) = Counted(FirstBoundary(p, c))
      BY <1>1, <3>1 DEF MultipartByte, Counted
    <3> QED BY <3>2, <3>3
  <2>2. CASE i # 0
    <3>1. p.state = "EXPECT_FEED2"
      BY <2>2 DEF Feeds
    <3> QED BY <1>2, <3>1 DEF MultipartByte, Counted
  <2> QED BY <2>1, <2>2
<1>4. /\ r \in ParserType /\ r.parsed = p.parsed /\ r.length = p.length /\ r.temp = p.temp /\ r.at = p.at
      /\ r.params = p.params /\ r.buffer = p.buffer /\ r.uploads = p.uploads
      /\ r.state = "PARSE_HEADERS" /\ r.isFile = FALSE
  <2> DEFINE z == To(p, "PARSE_HEADERS")
  <2>1. /\ z \in ParserType /\ z.parsed = p.parsed /\ z.length = p.length /\ z.temp = p.temp /\ z.at = p.at
        /\ z.params = p.params /\ z.buffer = p.buffer /\ z.uploads = p.uploads /\ z.state = "PARSE_HEADERS"
    BY <1>1, ToIs, Five DEF SamePlace
  <2> HIDE DEF z
  <2>2. r = [z EXCEPT !.isFile = FALSE]
    BY DEF z
  <2> HIDE DEF r
  <2> QED BY <2>1, <2>2 DEF ParserType
<1> HIDE DEF r
<1>5. /\ q \in ParserType /\ q.parsed = r.parsed + 1 /\ q.length = r.length /\ q.temp = r.temp /\ q.at = r.at
      /\ q.params = r.params /\ q.buffer = r.buffer /\ q.uploads = r.uploads /\ q.state = r.state
      /\ q.isFile = r.isFile
  BY <1>4, CountedIs
<1> HIDE DEF q
<1>6. Here(v, q, Tail(b))
  <2>1. q.at < L /\ Len(q.buffer) < BufferSize /\ q.parsed = p.parsed + 1
    BY <1>4, <1>5 DEF Here
  <2> QED BY <1>2, <1>5, <2>1, HereNext
<1>7. Heads(v, Q, q, Tail(b), i + 1, 0)
  <2>1. q.temp = <<>> /\ q.state = "PARSE_HEADERS" /\ q.isFile = FALSE
    BY <1>4, <1>5 DEF Feeds
  <2>2. HeadData(q, f, 0)
    BY <2>1 DEF HeadData
  <2>3. Upto(v, Q, i, q) /\ FilesIn(v, i, i, q.uploads)
    BY <1>4, <1>5 DEF Feeds, Upto
  <2>4. From(0, HeadOf(f)) = HeadOf(f)
    <3>1. HeadOf(f) \in Seq(Char)
      BY <1>1, ParamsAre, HeadIs
    <3> QED BY <3>1, FromEnds
  <2> QED BY <1>1, <1>2, <2>2, <2>3, <2>4 DEF Heads
<1>8. 0 \in 0..(Len(HeadOf(f)) - 1)
  <2>1. f \in ItemType
    BY <1>1, ParamsAre
  <2>2. Len(HeadOf(f)) = 8 \/ Len(HeadOf(f)) = 5
    BY <2>1, HeadIs
  <2> HIDE DEF f
  <2> QED BY <2>2
<1> QED BY <1>1, <1>2, <1>3, <1>6, <1>7, <1>8 DEF Reads, Stage

\* A byte of a header.
LEMMA HeadsStep ==
  ASSUME NEW v, MultiVisit(v), NEW Q \in Seq(Param), NEW p, NEW b, NEW i \in 1..Len(v.fields),
         NEW k \in 0..(Len(HeadOf(v.fields[i])) - 1),
         Here(v, p, b), Heads(v, Q, p, b, i, k), NEW last \in BOOLEAN
  PROVE  b # <<>> /\ Reads(v, Q, MultipartByte(p, b[1], last, v.memory), Tail(b))
<1> DEFINE f == v.fields[i]
      h == HeadOf(f)
      x == f.value \o Pattern
      e == x \o Rest(v, i)
      c == b[1]
      q == MultipartByte(p, c, last, v.memory)
<1>1. f \in ItemType /\ h \in Seq(Char) /\ e \in Seq(Char) /\ x \in Seq(Char) /\ Len(h) \in Nat /\ Len(v.fields) \in Nat
  <2>1. f \in ItemType
    BY ParamsAre
  <2>2. h \in Seq(Char) /\ x \in Seq(Char)
    BY <2>1, ItemTextIs
  <2>3. e \in Seq(Char)
    BY RestNext
  <2> QED BY <2>1, <2>2, <2>3, RestIs, LenProperties
<1>2. p \in ParserType /\ v.memory \in BOOLEAN /\ Len(p.buffer) < BufferSize /\ p.at < Len(Boundary)
      /\ HeadData(p, f, k) /\ b = From(k, h) \o e /\ Upto(v, Q, i - 1, p) /\ FilesIn(v, i - 1, i - 1, p.uploads)
  BY DEF Here, MultiVisit, Heads
<1>3. k \in Nat /\ k < Len(h) /\ k + 1 \in 1..Len(h) /\ k \in 0..Len(h)
  BY <1>1
<1>4. b # <<>> /\ c = h[k + 1] /\ Tail(b) = From(k + 1, h) \o e
  <2> HIDE DEF h, e, c
  <2> DEFINE u == From(k, h)
  <2>1. u # <<>> /\ u[1] = h[k + 1] /\ Tail(u) = From(k + 1, h)
    BY <1>1, <1>3, FromNext
  <2>2. u \in Seq(Char)
    BY <1>1, <1>3, FirstFrom
  <2> HIDE DEF u
  <2>3. u \o e # <<>> /\ (u \o e)[1] = u[1] /\ Tail(u \o e) = Tail(u) \o e
    <3>1. u # <<>> /\ e \in Seq(Char)
      BY <1>1, <2>1
    <3> QED BY <2>2, <3>1, Peel
  <2> QED BY <1>2, <2>1, <2>3 DEF u, c
<1>5. /\ Passes(p, q)
      /\ IF k + 1 < Len(h) THEN HeadData(q, f, k + 1)
         ELSE q.temp = <<>> /\ IF IsFile(f) /\ ~v.memory THEN q.state = "PARSE_ERROR" ELSE ItemStarts(q, f)
  <2> HIDE DEF f, c
  <2>1. LET z == MultipartByte(p, HeadOf(f)[k + 1], last, v.memory)
        IN  /\ Passes(p, z)
            /\ IF k + 1 < Len(HeadOf(f)) THEN HeadData(z, f, k + 1)
               ELSE z.temp = <<>> /\ IF IsFile(f) /\ ~v.memory THEN z.state = "PARSE_ERROR" ELSE ItemStarts(z, f)
    BY <1>1, <1>2, <1>3, HeadStep
  <2> QED BY <1>4, <2>1
<1> HIDE DEF q, c
<1>6. Here(v, q, Tail(b))
  BY <1>2, <1>4, <1>5, HereNext DEF Passes
<1>7. Upto(v, Q, i - 1, q) /\ FilesIn(v, i - 1, i - 1, q.uploads) /\ q \in ParserType
  BY <1>2, <1>5 DEF Passes, Upto
<1>8. Stage(v, Q, q, Tail(b))
  <2>1. CASE k + 1 < Len(h)
    <3>1. Heads(v, Q, q, Tail(b), i, k + 1)
      BY <1>4, <1>5, <1>7, <2>1 DEF Heads
    <3>2. k + 1 \in 0..(Len(h) - 1)
      BY <1>1, <1>3, <2>1
    <3> QED BY <3>1, <3>2 DEF Stage
  <2>2. CASE ~(k + 1 < Len(h))
    <3>0. k + 1 = Len(h)
      BY <1>1, <1>3, <2>2
    <3>1. CASE IsFile(f) /\ ~v.memory
      <4>1. q.state = "PARSE_ERROR"
        BY <1>5, <2>2, <3>1
      <4>2. i - 1 \in 0..Len(v.fields)
        BY <1>1
      <4>3. Failed(v, Q, q)
        BY <1>7, <3>1, <4>1, <4>2 DEF Failed, Upto
      <4> QED BY <4>3 DEF Stage
    <3>2. CASE ~(IsFile(f) /\ ~v.memory)
      <4>1. ItemStarts(q, f) /\ q.temp = <<>>
        BY <1>5, <2>2, <3>2
      <4>2. InItem(q, f, 0, 0) /\ FilesIn(v, i, i - 1, q.uploads)
        BY <1>7, <4>1, ItemFirst
      <4>3. Tail(b) = From(0 + 0, x) \o Rest(v, i)
        <5>1. From(Len(h), h) = <<>> /\ From(0, x) = x
          BY <1>1, FromEnds
        <5>2. <<>> \o e = e
          BY <1>1, ConcatEmptySeq
        <5> HIDE DEF h, x, e
        <5>3. From(k + 1, h) = <<>>
          BY <3>0, <5>1
        <5>4. Tail(b) = e /\ 0 + 0 = 0
          <6>1. Tail(b) = <<>> \o e
            BY <1>4, <5>3
          <6>2. 0 + 0 = 0
            OBVIOUS
          <6> QED BY <5>2, <6>1, <6>2
        <5>5. From(0 + 0, x) = x
          BY <5>1, <5>4
        <5> QED BY <5>4, <5>5 DEF e
      <4>4. Items(v, Q, q, Tail(b), i, 0, 0)
        BY <1>7, <4>1, <4>2, <4>3 DEF Items
      <4>5. 0 \in Nat
        OBVIOUS
      <4> QED BY <4>4, <4>5 DEF Stage
    <3> QED BY <3>1, <3>2
  <2> QED BY <2>1, <2>2
<1> QED BY <1>4, <1>6, <1>8 DEF Reads, q, c

\* A byte of an item or of the boundary after it.
LEMMA ItemsStep ==
  ASSUME NEW v, MultiVisit(v), NEW Q \in Seq(Param), NEW p, NEW b, NEW i \in 1..Len(v.fields),
         NEW j \in Nat, NEW m \in Nat,
         Here(v, p, b), Items(v, Q, p, b, i, j, m), NEW last \in BOOLEAN
  PROVE  b # <<>> /\ Reads(v, Q, MultipartByte(p, b[1], last, v.memory), Tail(b))
<1> DEFINE f == v.fields[i]
      x == f.value \o Pattern
      e == Rest(v, i)
      c == b[1]
      q == MultipartByte(p, c, last, v.memory)
<1>1. f \in ItemType /\ e \in Seq(Char) /\ x \in Seq(Char) /\ f.value \in Seq(Char)
      /\ Len(f.value) \in Nat /\ Len(v.fields) \in Nat /\ i \in 0..Len(v.fields) /\ i \in Nat /\ i # 0
  <2>1. f \in ItemType /\ Len(v.fields) \in Nat
    BY ParamsAre, RestIs
  <2>2. f.value \in Seq(Char) /\ x \in Seq(Char)
    BY <2>1, ItemTextIs
  <2>3. i \in 0..Len(v.fields) /\ i \in Nat /\ i # 0
    BY <2>1
  <2>4. e \in Seq(Char)
    BY <2>3, RestIs
  <2> QED BY <2>1, <2>2, <2>3, <2>4, LenProperties
<1>2. p \in ParserType /\ v.memory \in BOOLEAN /\ p.at < Len(Boundary) /\ InItem(p, f, j, m)
      /\ b = From(j + m, x) \o e /\ p.temp = <<>> /\ Upto(v, Q, i - 1, p) /\ FilesIn(v, i, i - 1, p.uploads)
  BY DEF Here, MultiVisit, Items
<1>3. j + m < Len(x) /\ Len(x) = Len(f.value) + Len(Pattern) /\ Len(Pattern) \in Nat
  <2>1. Len(x) = Len(f.value) + Len(Pattern) /\ Len(Pattern) \in Nat
    BY <1>1, ItemIs
  <2>2. j + m < Len(f.value) + Len(Pattern)
    BY <1>2 DEF InItem, Matches
  <2> QED BY <2>1, <2>2
<1>4. j + m \in Nat /\ j + m \in 0..Len(x) /\ (j + m) + 1 = j + m + 1
  <2>1. Len(x) \in Nat
    BY <1>1, LenProperties
  <2> HIDE DEF x
  <2> QED BY <1>3, <2>1
<1>5. b # <<>> /\ c = x[j + m + 1] /\ Tail(b) = From(j + m + 1, x) \o e
  <2> HIDE DEF x, e, c
  <2> DEFINE n == j + m
             u == From(n, x)
  <2>0. n \in Nat /\ n < Len(x) /\ n \in 0..Len(x) /\ n + 1 = j + m + 1
    BY <1>3, <1>4
  <2> HIDE DEF n
  <2>1. u # <<>> /\ u[1] = x[n + 1] /\ Tail(u) = From(n + 1, x)
    BY <1>1, <2>0, FromNext
  <2>2. u \in Seq(Char)
    BY <1>1, <2>0, FirstFrom
  <2>2a. b = u \o e
    BY <1>2 DEF u, n
  <2> HIDE DEF u
  <2>3. u \o e # <<>> /\ (u \o e)[1] = u[1] /\ Tail(u \o e) = Tail(u) \o e
    <3>1. u # <<>> /\ e \in Seq(Char)
      BY <1>1, <2>1
    <3> QED BY <2>2, <3>1, Peel
  <2>4. b # <<>> /\ c = x[n + 1] /\ Tail(b) = From(n + 1, x) \o e
    BY <2>2a, <2>1, <2>3 DEF c
  <2> QED BY <2>0, <2>4
<1>6. /\ ItemKeeps(p, q, f)
      /\ IF j + m + 1 = Len(f.value) + Len(Pattern) THEN ItemEnds(p, q, f) ELSE ItemGoesOn(p, q, f, j + m + 1)
  <2> HIDE DEF f, c
  <2>1. LET z == MultipartByte(p, (f.value \o Pattern)[j + m + 1], last, v.memory)
        IN  /\ ItemKeeps(p, z, f)
            /\ IF j + m + 1 = Len(f.value) + Len(Pattern) THEN ItemEnds(p, z, f) ELSE ItemGoesOn(p, z, f, j + m + 1)
    BY <1>1, <1>2, ItemStep
  <2> QED BY <1>5, <2>1
<1> HIDE DEF q, c
<1>7. Here(v, q, Tail(b))
  BY <1>5, <1>6, HereNext DEF ItemKeeps
<1>8. q.temp = <<>> /\ q.length = p.length /\ Adds(p.uploads, q.uploads, f)
  BY <1>2, <1>6 DEF ItemKeeps
<1>9. /\ FilesIn(v, i, i - 1, q.uploads)
      /\ (IsFile(f) => Whole(q.uploads, f)) => FilesIn(v, i, i, q.uploads)
  <2>1. i \in {i - 1, i}
    OBVIOUS
  <2> QED BY <1>2, <1>8, <2>1, FilesAdded
<1>10. Stage(v, Q, q, Tail(b))
  <2>1. CASE j + m + 1 = Len(f.value) + Len(Pattern)
    <3>1. q.state = "DASH3_OR_RETURN2" /\ q.params = p.params \o ItemParams(f) /\ (IsFile(f) => Whole(q.uploads, f))
      BY <1>6, <2>1 DEF ItemEnds
    <3>2. Upto(v, Q, i, q)
      BY <1>2, <1>8, <3>1, UptoNext
    <3>3. Tail(b) = e
      <4>1. From(Len(x), x) = <<>>
        BY <1>1, FromEnds
      <4>2. <<>> \o e = e
        BY <1>1, ConcatEmptySeq
      <4>3. j + m + 1 = Len(x)
        BY <1>3, <2>1
      <4> HIDE DEF x, e
      <4> QED BY <1>5, <4>1, <4>2, <4>3
    <3>4. Between(v, Q, q, Tail(b), i)
      BY <1>1, <1>8, <1>9, <3>1, <3>2, <3>3 DEF Between
    <3> QED BY <1>1, <3>4 DEF Stage
  <2>2. CASE j + m + 1 # Len(f.value) + Len(Pattern)
    <3>1. PICK k \in Nat, l \in Nat : InItem(q, f, k, l) /\ k + l = j + m + 1
      BY <1>6, <2>2 DEF ItemGoesOn
    <3>2. Upto(v, Q, i - 1, q)
      BY <1>2, <1>6, <1>8, <2>2 DEF ItemGoesOn, Upto
    <3>3. Tail(b) = From(k + l, x) \o e
      BY <1>5, <3>1
    <3>4. Items(v, Q, q, Tail(b), i, k, l)
      BY <1>8, <1>9, <3>1, <3>2, <3>3 DEF Items
    <3> QED BY <3>4 DEF Stage
  <2> QED BY <2>1, <2>2
<1> QED BY <1>5, <1>7, <1>10 DEF Reads, q, c

\* After the last boundary, and after an error.
LEMMA EndsStep ==
  ASSUME NEW v, MultiVisit(v), NEW Q \in Seq(Param), NEW p, NEW b, b # <<>>,
         Here(v, p, b), Finished(v, Q, p) \/ Failed(v, Q, p), NEW last \in BOOLEAN
  PROVE  Reads(v, Q, MultipartByte(p, b[1], last, v.memory), Tail(b))
<1> DEFINE q == Counted(p)
<1>1. p \in ParserType /\ p.state \in {"PARSING_FINISHED", "PARSE_ERROR"}
  BY DEF Here, Finished, Failed
<1>2. MultipartByte(p, b[1], last, v.memory) = q
  BY <1>1 DEF MultipartByte, Counted
<1>3. /\ q \in ParserType /\ q.parsed = p.parsed + 1 /\ q.length = p.length /\ q.at = p.at
      /\ q.params = p.params /\ q.buffer = p.buffer /\ q.uploads = p.uploads /\ q.state = p.state
  BY <1>1, CountedIs
<1> HIDE DEF q
<1>4. Here(v, q, Tail(b))
  <2>1. q.at < Len(Boundary) /\ Len(q.buffer) < BufferSize
    BY <1>3 DEF Here
  <2> QED BY <1>3, <2>1, HereNext
<1>5. Finished(v, Q, q) \/ Failed(v, Q, q)
  BY <1>3 DEF Finished, Failed
<1> QED BY <1>2, <1>4, <1>5 DEF Reads, Stage

\* A byte of the body takes the parser on in the body, whatever segment it
\* ends; all but the ends of it leave bytes to come.
LEMMA ReadsStep ==
  ASSUME NEW v, MultiVisit(v), NEW Q \in Seq(Param), NEW p, NEW b, Reads(v, Q, p, b), NEW last \in BOOLEAN
  PROVE  /\ b # <<>> => Reads(v, Q, MultipartByte(p, b[1], last, v.memory), Tail(b))
         /\ b = <<>> => Finished(v, Q, p) \/ Failed(v, Q, p)
<1>0. Here(v, p, b) /\ Stage(v, Q, p, b)
  BY DEF Reads
<1>1. CASE Opens(v, Q, p, b)
  BY <1>0, <1>1, OpensStep
<1>2. ASSUME NEW i \in 0..Len(v.fields), Between(v, Q, p, b, i)
      PROVE  b # <<>> /\ Reads(v, Q, MultipartByte(p, b[1], last, v.memory), Tail(b))
  <2>1. CASE i = 0
    <3>1. Between(v, Q, p, b, 0)
      BY <1>2, <2>1
    <3> QED BY <1>0, <3>1, FirstBetween
  <2>2. CASE i # 0
    <3>1. i \in 1..Len(v.fields)
      BY <2>2, RestIs
    <3> QED BY <1>0, <1>2, <3>1, NextBetween
  <2> QED BY <2>1, <2>2
<1>3. ASSUME NEW i \in 0..(Len(v.fields) - 1), Feeds(v, Q, p, b, i)
      PROVE  b # <<>> /\ Reads(v, Q, MultipartByte(p, b[1], last, v.memory), Tail(b))
  BY <1>0, <1>3, FeedsStep
<1>4. ASSUME NEW i \in 1..Len(v.fields), NEW k \in 0..(Len(HeadOf(v.fields[i])) - 1), Heads(v, Q, p, b, i, k)
      PROVE  b # <<>> /\ Reads(v, Q, MultipartByte(p, b[1], last, v.memory), Tail(b))
  BY <1>0, <1>4, HeadsStep
<1>5. ASSUME NEW i \in 1..Len(v.fields), NEW j \in Nat, NEW m \in Nat, Items(v, Q, p, b, i, j, m)
      PROVE  b # <<>> /\ Reads(v, Q, MultipartByte(p, b[1], last, v.memory), Tail(b))
  BY <1>0, <1>5, ItemsStep
<1>6. ASSUME Finished(v, Q, p) \/ Failed(v, Q, p), b # <<>>
      PROVE  Reads(v, Q, MultipartByte(p, b[1], last, v.memory), Tail(b))
  BY <1>0, <1>6, EndsStep
<1> QED BY <1>0, <1>1, <1>2, <1>3, <1>4, <1>5, <1>6 DEF Stage

-----------------------------------------------------------------------------
(* The reading of a body that is encoded as a url is.                      *)

PostType == {f \in FieldType : Len(f.name) = 1 /\ f.name[1] \notin DOMAIN HexDigits \union {"{", "["}}
PostVisit(v) == v.fields \in Seq(PostType)
Pair(f) == f.name \o (<<"=">> \o Encode(f.value))
PostTexts(v) == [i \in DOMAIN v.fields |-> IF i = 1 THEN Pair(v.fields[i]) ELSE <<"&">> \o Pair(v.fields[i])]
After(v, i) == FlattenSeq(From(i, PostTexts(v)))

LEMMA PairReads ==
  ASSUME NEW f \in PostType
  PROVE  /\ Pair(f) \in Seq(Char \ {"&"}) /\ Pair(f) \in Seq(Char) /\ Len(Pair(f)) \in Nat \ {0, 1}
         /\ IndexOf(Pair(f), "=") = 2 /\ Pair(f)[1] \notin {"{", "["}
         /\ urlDecode(SubSeq(Pair(f), 1, 1)) = f.name /\ urlDecode(SubSeq(Pair(f), 3, Len(Pair(f)))) = f.value
<1> DEFINE x == f.name
      e == Encode(f.value)
      a == x[1]
      z == << "=" >> \o e
      s == Pair(f)
<1>1. x \in Seq(Char) /\ f.value \in Seq(Char) /\ Len(x) = 1 /\ a \notin DOMAIN HexDigits /\ a \notin {"{", "["}
  BY DEF PostType, FieldType
<1>2. a \in Char /\ a \notin {"&", "=", "%", "+"}
  <2>1. a \in Char
    <3>0. x \in Seq(Char) /\ Len(x) = 1
      BY <1>1
    <3> HIDE DEF x
    <3>1. 1 \in 1..Len(x)
      BY <3>0
    <3>2. x \in Seq(Char)
      BY <3>0
    <3>3. x[1] \in Char
      BY <3>1, <3>2, ElementOfSeq
    <3> QED BY <3>3
  <2> QED BY <1>1, <2>1, HexValues
<1>3. e \in Seq(Char \ {"&", "="}) /\ e \in Seq(Char) /\ urlDecode(e) = f.value
  BY <1>1, EncodeType, EncodeDecode
<1>4. "=" \in Char /\ "&" \in Char /\ "=" # "&"
  BY CharHas DEF Literals
<1>5. x = << a >>
  <2>1. x \in Seq(Char) /\ Len(x) = 1
    BY <1>1
  <2> HIDE DEF x
  <2> QED BY <2>1 DEF a
<1> HIDE DEF x, e
<1>6. x \in Seq(Char \ {"&", "="})
  <2>1. a \in Char \ {"&", "="}
    BY <1>2
  <2>2. << a >> \in Seq(Char \ {"&", "="})
    BY <2>1, SingleType
  <2> QED BY <1>5, <2>2
<1>7. s = x \o z
  BY DEF Pair, x, e
<1>8. /\ IndexOf(x \o z, "=") = Len(x) + 1 /\ SubSeq(x \o z, 1, Len(x)) = x
      /\ SubSeq(x \o z, Len(x) + 2, Len(x \o z)) = e /\ Len(x \o z) = Len(x) + 1 + Len(e)
  <2>1. x \in Seq(Char \ {"="}) /\ "=" \in Char
    <3>1. Char \ {"&", "="} \subseteq Char \ {"="}
      OBVIOUS
    <3> QED BY <1>4, <1>6, <3>1
  <2>2. e \in Seq(Char)
    BY <1>3
  <2> QED BY <2>1, <2>2, IndexOfConcat
<1>9. z \in Seq(Char \ {"&"})
  <2>1. e \in Seq(Char \ {"&"})
    <3>1. Char \ {"&", "="} \subseteq Char \ {"&"}
      OBVIOUS
    <3> QED BY <1>3, <3>1
  <2>2. "=" \in Char \ {"&"}
    BY <1>4
  <2> QED BY <2>1, <2>2, OneBefore
<1>10. x \o z \in Seq(Char \ {"&"}) /\ (x \o z)[1] = a
  <2>1. x \in Seq(Char \ {"&"}) /\ x # <<>> /\ x[1] = a
    <3>1. Char \ {"&", "="} \subseteq Char \ {"&"}
      OBVIOUS
    <3>2. << a >> # <<>> /\ << a >>[1] = a
      BY <1>2, SingleType
    <3>3. x \in Seq(Char \ {"&"})
      BY <1>6, <3>1
    <3> HIDE DEF a
    <3> QED BY <1>5, <3>2, <3>3
  <2> HIDE DEF z, a
  <2>2. x \o z \in Seq(Char \ {"&"})
    BY <1>9, <2>1, ConcatProperties
  <2>3. (x \o z)[1] = x[1]
    <3>1. x \in Seq(Char \ {"&"}) /\ x # <<>>
      BY <2>1
    <3> QED BY <1>9, <3>1, Peel
  <2> QED BY <2>1, <2>2, <2>3
<1>11. urlDecode(<< a >>) = << a >>
  <2>1. urlDecode(<< a >> \o <<>>) = << IF a = "+" THEN Space ELSE a >> \o urlDecode(<<>>)
    <3>1. <<>> \in Seq(Char) /\ a # "%" /\ a \in Char
      BY <1>2, EmptySeq
    <3> QED BY <3>1, DecodeCons
  <2>2. << a >> \o <<>> = << a >>
    <3>1. << a >> \in Seq(Char)
      BY <1>2, SingleType
    <3> QED BY <3>1, ConcatEmptySeq
  <2> HIDE DEF a
  <2> QED BY <1>2, <2>1, <2>2, DecodeEmpty
<1>12. s \in Seq(Char) /\ s \in Seq(Char \ {"&"})
  BY <1>7, <1>10
<1>13. Len(x) = 1 /\ Len(e) \in Nat
  BY <1>1, <1>3, LenProperties DEF x
<1> HIDE DEF s, z, a
<1>14. Len(s) = 1 + 1 + Len(e) /\ IndexOf(s, "=") = 1 + 1 /\ SubSeq(s, 1, 1) = x /\ SubSeq(s, 1 + 2, Len(s)) = e
      /\ s[1] = a
  BY <1>7, <1>8, <1>10, <1>13
<1>15. Len(s) \in Nat \ {0, 1} /\ 1 + 1 = 2 /\ 1 + 2 = 3
  BY <1>13, <1>14
<1>16. IndexOf(s, "=") = 2 /\ SubSeq(s, 3, Len(s)) = e
  BY <1>14, <1>15
<1>17. urlDecode(SubSeq(s, 1, 1)) = x
  BY <1>5, <1>11, <1>14
<1>18. urlDecode(SubSeq(s, 3, Len(s))) = f.value
  BY <1>3, <1>16
<1>19. s[1] \notin {"{", "["}
  BY <1>1, <1>14
<1>20. urlDecode(SubSeq(s, 1, 1)) = f.name
  BY <1>17 DEF x
<1>21. IndexOf(s, "=") = 2 /\ Len(s) \in Nat \ {0, 1}
  BY <1>15, <1>16
<1> QED BY <1>12, <1>18, <1>19, <1>20, <1>21 DEF s

\* The body is its fields, each but the first with what stands before it.
LEMMA PostIs ==
  ASSUME NEW v, PostVisit(v)
  PROVE  /\ PostTexts(v) \in Seq(Seq(Char)) /\ Len(PostTexts(v)) = Len(v.fields) /\ Len(v.fields) \in Nat
         /\ PostBody(v) = After(v, 0) /\ PostBody(v) \in Seq(Char) /\ After(v, Len(v.fields)) = <<>>
         /\ \A i \in 0..Len(v.fields) : After(v, i) \in Seq(Char)
         /\ \A i \in 1..Len(v.fields) :
              v.fields[i] \in PostType /\ After(v, i - 1) = PostTexts(v)[i] \o After(v, i)
         /\ \A i \in 1..Len(v.fields) :
              PostTexts(v)[i] = IF i = 1 THEN Pair(v.fields[i]) ELSE <<"&">> \o Pair(v.fields[i])
<1> DEFINE fs == v.fields
      n == Len(fs)
      ts == PostTexts(v)
      B(f, i) == (IF i = 1 THEN <<>> ELSE <<"&">>) \o f.name \o <<"=">> \o Encode(f.value)
      us == [i \in DOMAIN v.fields |-> (IF i = 1 THEN <<>> ELSE <<"&">>) \o v.fields[i].name \o <<"=">> \o Encode(v.fields[i].value)]
<1>1. fs \in Seq(PostType) /\ n \in Nat /\ DOMAIN fs = 1..n
  BY LenProperties DEF PostVisit
<1>2. \A i \in 1..n : fs[i] \in PostType
  BY <1>1, ElementOfSeq
<1>3. \A i \in 1..n : ts[i] = IF i = 1 THEN Pair(fs[i]) ELSE <<"&">> \o Pair(fs[i])
  BY <1>1 DEF PostTexts
<1>4. \A i \in 1..n : ts[i] \in Seq(Char) /\ Pair(fs[i]) \in Seq(Char)
  <2> TAKE i \in 1..n
  <2>1. Pair(fs[i]) \in Seq(Char)
    <3>1. fs[i] \in PostType
      BY <1>2
    <3> QED BY <3>1, PairReads
  <2>2. <<"&">> \o Pair(fs[i]) \in Seq(Char)
    <3>1. "&" \in Char
      BY CharHas DEF Literals
    <3> QED BY <2>1, <3>1, OneBefore
  <2> QED BY <1>3, <2>1, <2>2
<1>5. ts \in Seq(Seq(Char)) /\ Len(ts) = n
  <2>1. ts = [i \in 1..n |-> ts[i]]
    BY <1>1 DEF PostTexts
  <2> HIDE DEF ts, n
  <2> QED BY <1>1, <1>4, <2>1, SeqIs
<1>6. us = ts
  <2>1. \A i \in 1..n : us[i] = ts[i]
    <3> TAKE i \in 1..n
    <3> DEFINE f == fs[i]
               x == f.name
               e == Encode(f.value)
               z == << "=" >>
               y == << "&" >>
    <3>1. x \in Seq(Char) /\ e \in Seq(Char) /\ z \in Seq(Char) /\ y \in Seq(Char)
      <4>1. f \in FieldType
        BY <1>2 DEF PostType
      <4>2. x \in Seq(Char) /\ e \in Seq(Char)
        BY <4>1, EncodeType DEF FieldType
      <4>3. "=" \in Char /\ "&" \in Char
        BY CharHas DEF Literals
      <4> QED BY <4>2, <4>3, SingleType
    <3>2. us[i] = (IF i = 1 THEN <<>> ELSE y) \o x \o z \o e
      BY <1>1
    <3>3. Pair(f) = x \o (z \o e)
      BY DEF Pair
    <3>3a. ts[i] = IF i = 1 THEN Pair(f) ELSE y \o Pair(f)
      BY <1>3
    <3> HIDE DEF x, e, z, y, us, ts
    <3>4. (x \o z) \o e = x \o (z \o e)
      BY <3>1, Assoc
    <3>5. CASE i = 1
      <4>1. <<>> \o x = x
        BY <3>1, ConcatEmptySeq
      <4> QED BY <3>2, <3>3, <3>3a, <3>4, <3>5, <4>1
    <3>6. CASE i # 1
      <4>1. ((y \o x) \o z) \o e = y \o (x \o (z \o e))
        <5>1. Join(Join(Join(y, x), z), e) = Join(y, Join(x, Join(z, e)))
          BY <3>1, JoinAssoc, Joined
        <5> QED BY <5>1 DEF Join
      <4> QED BY <3>2, <3>3, <3>3a, <3>6, <4>1
    <3> QED BY <3>5, <3>6
  <2>2. us = [i \in 1..n |-> us[i]] /\ ts = [i \in 1..n |-> ts[i]]
    BY <1>1 DEF PostTexts
  <2> HIDE DEF us, ts, n
  <2> QED BY <2>1, <2>2
<1>7. PostBody(v) = FlattenSeq(us)
  BY DEF PostBody
<1> HIDE DEF us, ts
<1>8. PostBody(v) = FlattenSeq(ts) /\ FlattenSeq(ts) \in Seq(Char)
  BY <1>5, <1>6, <1>7, FlattenType
<1>9. From(0, ts) = ts /\ From(Len(ts), ts) = <<>>
  BY <1>5, FromEnds
<1>10. After(v, 0) = FlattenSeq(ts) /\ After(v, n) = <<>>
  <2>1. From(n, ts) = <<>>
    BY <1>5, <1>9
  <2> QED BY <1>9, <2>1, FlattenEmpty DEF After, ts
<1>11. \A i \in 0..n : After(v, i) \in Seq(Char)
  <2> TAKE i \in 0..n
  <2>1. i \in 0..Len(ts)
    BY <1>5
  <2>2. From(i, ts) \in Seq(Seq(Char))
    <3>1. ts \in Seq(Seq(Char))
      BY <1>5
    <3> QED BY <2>1, <3>1, FirstFrom
  <2> QED BY <2>2, FlattenType DEF After, ts
<1>12. \A i \in 1..n : After(v, i - 1) = ts[i] \o After(v, i)
  <2> TAKE i \in 1..n
  <2>1. i \in 1..Len(ts) /\ ts \in Seq(Seq(Char))
    BY <1>5
  <2>2. FlattenSeq(From(i - 1, ts)) = ts[i] \o FlattenSeq(From(i, ts))
    BY <2>1, FlattenAt
  <2> QED BY <2>2 DEF After, ts
<1> QED BY <1>1, <1>2, <1>3, <1>5, <1>8, <1>10, <1>11, <1>12 DEF ts

PostParams(v) == [i \in DOMAIN v.fields |-> << Parameter(v.fields[i].name, v.fields[i].value, "post") >>]
PostUpto(v, Q, i, p) == p.params = Q \o FlattenSeq(First(i, PostParams(v)))

\* The parser at some byte of the body, in the i-th field or after the last.
PostHere(v, p, b) ==
  /\ p \in ParserType /\ b \in Seq(Char) /\ p.parsed + Len(b) = Len(PostBody(v)) /\ p.length = Len(PostBody(v))
  /\ p.state = "EXPECT_BOUNDARY" /\ p.at = 0 /\ p.buffer = <<>>
InPair(v, Q, p, b, i, k) ==
  /\ k <= Len(Pair(v.fields[i])) /\ (i = Len(v.fields) => k < Len(Pair(v.fields[i])))
  /\ p.temp = First(k, Pair(v.fields[i])) /\ b = From(k, Pair(v.fields[i])) \o After(v, i)
  /\ PostUpto(v, Q, i - 1, p)
PostReads(v, Q, p, b) ==
  /\ PostHere(v, p, b)
  /\ \/ \E i \in 1..Len(v.fields), k \in Nat : InPair(v, Q, p, b, i, k)
     \/ b = <<>> /\ p.params = Q \o FlattenSeq(PostParams(v))

LEMMA PostParamsAre ==
  ASSUME NEW v, PostVisit(v)
  PROVE  /\ PostParams(v) \in Seq(Seq(Param)) /\ Len(PostParams(v)) = Len(v.fields)
         /\ \A i \in 1..Len(v.fields) :
              /\ PostParams(v)[i] = << Parameter(v.fields[i].name, v.fields[i].value, "post") >>
              /\ Parameter(v.fields[i].name, v.fields[i].value, "post") \in Param
<1>1. Len(v.fields) \in Nat /\ DOMAIN v.fields = 1..Len(v.fields) /\ \A i \in 1..Len(v.fields) : v.fields[i] \in PostType
  BY PostIs, LenProperties DEF PostVisit
<1>2. \A i \in 1..Len(v.fields) : PostParams(v)[i] = << Parameter(v.fields[i].name, v.fields[i].value, "post") >>
  BY <1>1 DEF PostParams
<1>3. \A i \in 1..Len(v.fields) : Parameter(v.fields[i].name, v.fields[i].value, "post") \in Param
  BY <1>1 DEF PostType, FieldType, Param, Parameter
<1>4. \A i \in 1..Len(v.fields) : PostParams(v)[i] \in Seq(Param)
  BY <1>2, <1>3, SingleType
<1>5. PostParams(v) = [i \in 1..Len(v.fields) |-> PostParams(v)[i]]
  BY <1>1 DEF PostParams
<1>6. PostParams(v) \in Seq(Seq(Param)) /\ Len(PostParams(v)) = Len(v.fields)
  <2> DEFINE s == PostParams(v)
             n == Len(v.fields)
  <2>1. n \in Nat /\ s = [i \in 1..n |-> s[i]] /\ \A i \in 1..n : s[i] \in Seq(Param)
    BY <1>1, <1>4, <1>5
  <2> HIDE DEF s, n
  <2>2. s \in Seq(Seq(Param)) /\ Len(s) = n
    BY <2>1, SeqIs
  <2> QED BY <2>2 DEF s, n
<1> QED BY <1>2, <1>3, <1>6

\* One more field is read.
LEMMA PostNext ==
  ASSUME NEW v, PostVisit(v), NEW Q \in Seq(Param), NEW p, NEW q, NEW i \in 1..Len(v.fields),
         PostUpto(v, Q, i - 1, p),
         q.params = Append(p.params, Parameter(v.fields[i].name, v.fields[i].value, "post"))
  PROVE  PostUpto(v, Q, i, q)
<1> DEFINE ps == PostParams(v)
      a == FlattenSeq(First(i - 1, ps))
      w == Parameter(v.fields[i].name, v.fields[i].value, "post")
      c == << w >>
<1>1. ps \in Seq(Seq(Param)) /\ i \in 1..Len(ps) /\ ps[i] = c /\ w \in Param
  BY PostParamsAre
<1> HIDE DEF ps, w
<1>2. FlattenSeq(First(i, ps)) = FlattenSeq(First(i - 1, ps)) \o ps[i] /\ FlattenSeq(First(i - 1, ps)) \in Seq(Param)
  <2>1. ps \in Seq(Seq(Param)) /\ i \in 1..Len(ps)
    BY <1>1
  <2> QED BY <2>1, FlattenAt
<1>3. FlattenSeq(First(i, ps)) = a \o c /\ a \in Seq(Param) /\ c \in Seq(Param)
  BY <1>1, <1>2, SingleType
<1>4. p.params = Q \o a
  BY DEF PostUpto, ps
<1> HIDE DEF a
<1>5. (Q \o a) \o c = Q \o (a \o c)
  BY <1>3, ConcatAssociative, SMTT(30)
<1>6. Append(Q \o a, w) = (Q \o a) \o c
  <2> DEFINE z == Q \o a
  <2>1. z \in Seq(Param)
    BY <1>3, ConcatProperties
  <2> HIDE DEF z
  <2>2. Append(z, w) = z \o << w >>
    BY <1>1, <2>1
  <2> QED BY <2>2 DEF z
<1>7. q.params = Q \o FlattenSeq(First(i, ps))
  <2>1. q.params = Append(p.params, w)
    BY DEF w
  <2> QED BY <1>3, <1>4, <1>5, <1>6, <2>1
<1> QED BY <1>7 DEF PostUpto, ps

\* What a byte does: a parameter ends at "&" or with the body.
LEMMA PostCharIs ==
  ASSUME NEW p \in ParserType, NEW c, NEW f \in PostType
  PROVE  LET q == PlainPostChar(p, c)
             s == Pair(f)
             temp == p.temp \o << c >>
         IN  /\ c # "&" /\ p.parsed + 1 # p.length => q = [p EXCEPT !.parsed = p.parsed + 1, !.temp = temp]
             /\ c # "&" /\ p.parsed + 1 = p.length /\ temp = s =>
                  q = [p EXCEPT !.parsed = p.parsed + 1, !.temp = <<>>,
                                !.params = Append(@, Parameter(f.name, f.value, "post"))]
             /\ c = "&" /\ p.temp = s =>
                  q = [p EXCEPT !.parsed = p.parsed + 1, !.temp = <<>>,
                                !.params = Append(@, Parameter(f.name, f.value, "post"))]
<1> DEFINE temp == IF c = "&" THEN p.temp ELSE p.temp \o << c >>
      equal == IndexOf(temp, "=")
      named == equal \in 2..Len(temp) /\ temp[1] \notin {"{", "["}
      q == PlainPostChar(p, c)
      given == IF named THEN Parameter(urlDecode(SubSeq(temp, 1, equal - 1)),
                                       urlDecode(SubSeq(temp, equal + 1, Len(temp))), "post")
               ELSE Parameter(<<"body">>, urlDecode(temp), "post")
<1>1. q = IF c # "&" /\ p.parsed + 1 # p.length THEN [p EXCEPT !.parsed = p.parsed + 1, !.temp = temp]
          ELSE [p EXCEPT !.parsed = p.parsed + 1, !.temp = <<>>, !.params = Append(@, given)]
  BY DEF PlainPostChar
<1> HIDE DEF q
<1>2. ASSUME temp = Pair(f)
      PROVE  given = Parameter(f.name, f.value, "post")
  <2> DEFINE s == Pair(f)
             n == Len(s)
  <2>1. /\ n \in Nat \ {0, 1} /\ IndexOf(s, "=") = 2 /\ s[1] \notin {"{", "["}
        /\ urlDecode(SubSeq(s, 1, 1)) = f.name /\ urlDecode(SubSeq(s, 3, n)) = f.value
    BY PairReads
  <2>2. 2 \in 2..n /\ 2 - 1 = 1 /\ 2 + 1 = 3
    <3>1. n \in Nat \ {0, 1}
      BY <2>1
    <3> HIDE DEF n
    <3> QED BY <3>1
  <2>3. temp = s
    BY <1>2
  <2> HIDE DEF s, temp
  <2>4. equal = 2 /\ Len(temp) = n /\ temp[1] \notin {"{", "["}
    BY <2>1, <2>3
  <2>5. named
    BY <2>2, <2>4
  <2>6. given = Parameter(urlDecode(SubSeq(temp, 1, equal - 1)), urlDecode(SubSeq(temp, equal + 1, Len(temp))), "post")
    BY <2>5
  <2>7. SubSeq(temp, 1, equal - 1) = SubSeq(s, 1, 1) /\ SubSeq(temp, equal + 1, Len(temp)) = SubSeq(s, 3, n)
    BY <2>2, <2>3, <2>4
  <2> QED BY <2>1, <2>6, <2>7
<1> HIDE DEF given
<1> QED BY <1>1, <1>2 DEF q

\* Where a field goes on.
LEMMA PostRest ==
  ASSUME NEW v, PostVisit(v), NEW i \in 1..Len(v.fields)
  PROVE  /\ v.fields[i] \in PostType /\ After(v, i) \in Seq(Char) /\ (i = Len(v.fields) => After(v, i) = <<>>)
         /\ i < Len(v.fields) =>
              /\ i + 1 \in 1..Len(v.fields) /\ After(v, i) # <<>> /\ After(v, i)[1] = "&"
              /\ Tail(After(v, i)) = Pair(v.fields[i + 1]) \o After(v, i + 1)
         /\ Len(v.fields) \in Nat
<1> DEFINE n == Len(v.fields)
<1>1. n \in Nat /\ v.fields[i] \in PostType /\ After(v, n) = <<>> /\ i \in 0..n /\ After(v, i) \in Seq(Char)
  <2>1. n \in Nat
    BY PostIs
  <2>2. i \in 0..n
    BY <2>1
  <2> QED BY <2>1, <2>2, PostIs
<1>2. ASSUME i < n
      PROVE  /\ i + 1 \in 1..n /\ After(v, i) # <<>> /\ After(v, i)[1] = "&"
             /\ Tail(After(v, i)) = Pair(v.fields[i + 1]) \o After(v, i + 1)
  <2> DEFINE j == i + 1
             s == Pair(v.fields[j])
             t == << "&" >> \o s
             e == After(v, j)
  <2>1. j \in 1..n /\ j # 1 /\ j - 1 = i
    BY <1>1, <1>2
  <2>2. PostTexts(v)[j] = t /\ After(v, j - 1) = PostTexts(v)[j] \o After(v, j) /\ v.fields[j] \in PostType
    BY <2>1, PostIs
  <2>3. s \in Seq(Char) /\ "&" \in Char
    BY <2>2, PairReads, CharHas DEF Literals
  <2>4. e \in Seq(Char)
    <3>1. j \in 0..n
      BY <2>1
    <3> QED BY <3>1, PostIs
  <2>5. After(v, i) = t \o e
    BY <2>1, <2>2
  <2> HIDE DEF s, e
  <2>6. t \in Seq(Char) /\ t # <<>> /\ t[1] = "&" /\ Tail(t) = s
    BY <2>3, OneBefore
  <2> HIDE DEF t
  <2>7. t \o e # <<>> /\ (t \o e)[1] = t[1] /\ Tail(t \o e) = Tail(t) \o e
    <3>1. t \in Seq(Char) /\ t # <<>>
      BY <2>6
    <3> QED BY <2>4, <3>1, Peel
  <2> QED BY <2>1, <2>5, <2>6, <2>7 DEF s, e
<1> QED BY <1>1, <1>2

\* What stays of the parser.
Passed(p, q) ==
  /\ q \in ParserType /\ q.parsed = p.parsed + 1 /\ q.length = p.length /\ q.state = p.state /\ q.at = p.at
  /\ q.buffer = p.buffer
LEMMA PostHereNext ==
  ASSUME NEW v, NEW p, NEW b, PostHere(v, p, b), b # <<>>, NEW q, Passed(p, q)
  PROVE  PostHere(v, q, Tail(b))
<1>1. b \in Seq(Char) /\ p.parsed + Len(b) = Len(PostBody(v)) /\ p.parsed \in Nat
  BY DEF PostHere, ParserType
<1>2. Tail(b) \in Seq(Char) /\ Len(Tail(b)) = Len(b) - 1 /\ Len(b) \in Nat
  BY <1>1, HeadTailProperties, LenProperties
<1>3. (p.parsed + 1) + (Len(b) - 1) = p.parsed + Len(b)
  BY <1>1, <1>2
<1>4. q.parsed + Len(Tail(b)) = Len(PostBody(v))
  BY <1>1, <1>2, <1>3 DEF Passed
<1> QED BY <1>2, <1>4 DEF PostHere, Passed

LEMMA PassedIs ==
  ASSUME NEW p \in ParserType, NEW t \in Seq(Char), NEW w \in Param
  PROVE  /\ LET q == [p EXCEPT !.parsed = p.parsed + 1, !.temp = t]
            IN  Passed(p, q) /\ q.temp = t /\ q.params = p.params
         /\ LET q == [p EXCEPT !.parsed = p.parsed + 1, !.temp = <<>>, !.params = Append(@, w)]
            IN  Passed(p, q) /\ q.temp = <<>> /\ q.params = Append(p.params, w)
<1>1. p.parsed + 1 \in Nat /\ Append(p.params, w) \in Seq(Param) /\ <<>> \in Seq(Char)
  BY EmptySeq DEF ParserType
<1> DEFINE n == p.parsed + 1
      ps == Append(p.params, w)
      q == [p EXCEPT !.parsed = n, !.temp = t]
      r == [p EXCEPT !.parsed = n, !.temp = <<>>, !.params = ps]
<1>2. n \in Nat /\ ps \in Seq(Param)
  BY <1>1
<1> HIDE DEF n, ps
<1>3. /\ q \in ParserType /\ q.parsed = n /\ q.length = p.length /\ q.state = p.state /\ q.at = p.at
      /\ q.buffer = p.buffer /\ q.temp = t /\ q.params = p.params
  BY <1>2 DEF ParserType
<1>4. /\ r \in ParserType /\ r.parsed = n /\ r.length = p.length /\ r.state = p.state /\ r.at = p.at
      /\ r.buffer = p.buffer /\ r.temp = <<>> /\ r.params = ps
  BY <1>1, <1>2 DEF ParserType
<1> HIDE DEF q, r
<1>5. Passed(p, q) /\ q.temp = t /\ q.params = p.params
  BY <1>3 DEF Passed, n
<1>6. Passed(p, r) /\ r.temp = <<>> /\ r.params = Append(p.params, w)
  BY <1>4 DEF Passed, n, ps
<1> QED BY <1>5, <1>6 DEF q, r, n, ps

\* A byte of such a body.
LEMMA PostStep ==
  ASSUME NEW v, PostVisit(v), NEW Q \in Seq(Param), NEW p, NEW b, PostReads(v, Q, p, b), b # <<>>
  PROVE  PostReads(v, Q, PlainPostChar(p, b[1]), Tail(b))
<1>1. PICK i \in 1..Len(v.fields), k \in Nat : InPair(v, Q, p, b, i, k)
  BY DEF PostReads
<1> DEFINE n == Len(v.fields)
      f == v.fields[i]
      s == Pair(f)
      e == After(v, i)
      c == b[1]
      q == PlainPostChar(p, c)
      r(t) == [p EXCEPT !.parsed = p.parsed + 1, !.temp = t]
      w == Parameter(f.name, f.value, "post")
      z == [p EXCEPT !.parsed = p.parsed + 1, !.temp = <<>>, !.params = Append(@, w)]
<1>2. PostHere(v, p, b) /\ p \in ParserType /\ b \in Seq(Char) /\ p.parsed + Len(b) = p.length /\ p.parsed \in Nat
  BY DEF PostReads, PostHere, ParserType
<1>3. f \in PostType /\ e \in Seq(Char) /\ n \in Nat /\ (i = n => e = <<>>) /\ i \in Nat /\ i <= n
      /\ (i < n => e # <<>> /\ e[1] = "&")
  <2>1. f \in PostType /\ e \in Seq(Char) /\ n \in Nat /\ (i = n => e = <<>>) /\ (i < n => e # <<>> /\ e[1] = "&")
    BY PostRest
  <2>2. i \in Nat /\ i <= n
    BY <2>1
  <2> QED BY <2>1, <2>2
<1>4. s \in Seq(Char) /\ s \in Seq(Char \ {"&"}) /\ Len(s) \in Nat /\ Len(s) > 1
  <2>1. s \in Seq(Char) /\ s \in Seq(Char \ {"&"}) /\ Len(s) \in Nat \ {0, 1}
    BY <1>3, PairReads
  <2> DEFINE m == Len(s)
  <2>2. m \in Nat \ {0, 1}
    BY <2>1
  <2> HIDE DEF m
  <2>3. m \in Nat /\ m > 1
    BY <2>2
  <2> QED BY <2>1, <2>3 DEF m
<1>5. k <= Len(s) /\ (i = n => k < Len(s)) /\ p.temp = First(k, s) /\ b = From(k, s) \o e /\ PostUpto(v, Q, i - 1, p)
  BY <1>1 DEF InPair
<1>6. PostHere(v, z, Tail(b)) /\ z.temp = <<>> /\ PostUpto(v, Q, i, z)
  <2>1. w \in Param
    BY PostParamsAre
  <2>2. Passed(p, z) /\ z.temp = <<>> /\ z.params = Append(p.params, w)
    <3>1. <<>> \in Seq(Char) /\ p \in ParserType
      BY <1>2, EmptySeq
    <3> HIDE DEF w
    <3> QED BY <2>1, <3>1, PassedIs
  <2> HIDE DEF z
  <2>3. PostHere(v, z, Tail(b))
    BY <1>2, <2>2, PostHereNext
  <2>4. PostUpto(v, Q, i, z)
    BY <1>5, <2>2, PostNext
  <2> QED BY <2>2, <2>3, <2>4
<1> HIDE DEF z, w
<1>7. q = IF c # "&" /\ p.parsed + 1 # p.length THEN r(p.temp \o << c >>)
          ELSE IF (c # "&" /\ p.temp \o << c >> = s) \/ (c = "&" /\ p.temp = s) THEN z ELSE q
  <2>1. /\ c # "&" /\ p.parsed + 1 # p.length => q = r(p.temp \o << c >>)
        /\ c # "&" /\ p.parsed + 1 = p.length /\ p.temp \o << c >> = s => q = z
        /\ c = "&" /\ p.temp = s => q = z
    <3>1. p \in ParserType /\ f \in PostType
      BY <1>2, <1>3
    <3> HIDE DEF c, f
    <3> QED BY <3>1, PostCharIs DEF z, w
  <2> HIDE DEF q, r, s
  <2> QED BY <2>1
<1> HIDE DEF q, f
<1>8. CASE k < Len(s)
  <2> DEFINE u == From(k, s)
             t == First(k + 1, s)
  <2>1. u # <<>> /\ u[1] = s[k + 1] /\ Tail(u) = From(k + 1, s) /\ t = Append(First(k, s), s[k + 1])
        /\ u \in Seq(Char) /\ t \in Seq(Char) /\ First(k, s) \in Seq(Char)
    <3> HIDE DEF s
    <3>1. k \in 0..Len(s) /\ k + 1 \in 0..Len(s)
      BY <1>4, <1>8
    <3>2. u # <<>> /\ u[1] = s[k + 1] /\ Tail(u) = From(k + 1, s) /\ t = Append(First(k, s), s[k + 1])
      BY <1>4, <1>8, FromNext
    <3>3. u \in Seq(Char) /\ t \in Seq(Char) /\ First(k, s) \in Seq(Char)
      BY <1>4, <3>1, FirstFrom
    <3> QED BY <3>2, <3>3
  <2>2. s[k + 1] \in Char \ {"&"}
    <3> HIDE DEF s
    <3>1. k + 1 \in 1..Len(s)
      BY <1>4, <1>8
    <3> QED BY <1>4, <3>1, ElementOfSeq
  <2> HIDE DEF u, t
  <2>3. u \o e # <<>> /\ (u \o e)[1] = u[1] /\ Tail(u \o e) = Tail(u) \o e
    <3>1. u \in Seq(Char) /\ u # <<>>
      BY <2>1
    <3> QED BY <1>3, <3>1, Peel
  <2>4. c = s[k + 1] /\ Tail(b) = From(k + 1, s) \o e
    <3>1. b = u \o e
      BY <1>5 DEF u
    <3> HIDE DEF s, e
    <3> QED BY <2>1, <2>3, <3>1
  <2> HIDE DEF c
  <2>5. p.temp \o << c >> = t /\ c # "&"
    <3>1. Append(First(k, s), s[k + 1]) = First(k, s) \o << s[k + 1] >>
      <4> DEFINE x == First(k, s)
                 d == s[k + 1]
      <4>1. x \in Seq(Char) /\ d \in Char
        BY <2>1, <2>2
      <4> HIDE DEF x, d
      <4>2. Append(x, d) = x \o << d >>
        BY <4>1
      <4> QED BY <4>2 DEF x, d
    <3> HIDE DEF s
    <3> QED BY <1>5, <2>1, <2>2, <2>4, <3>1
  <2>6. Len(b) \in Nat /\ Len(Tail(b)) = Len(b) - 1 /\ Len(b) >= 1 /\ Tail(b) \in Seq(Char)
    <3>1. Len(b) \in Nat /\ Len(Tail(b)) = Len(b) - 1 /\ Tail(b) \in Seq(Char) /\ Len(b) # 0
      BY <1>2, HeadTailProperties, LenProperties
    <3> QED BY <3>1
  <2>7. Len(Tail(b)) = (Len(s) - (k + 1)) + Len(e) /\ Len(e) \in Nat
    <3>1. k + 1 \in 0..Len(s)
      BY <1>4, <1>8
    <3>2. From(k + 1, s) \in Seq(Char) /\ Len(From(k + 1, s)) = Len(s) - (k + 1)
      <4> HIDE DEF s
      <4> QED BY <1>4, <3>1, FirstFrom
    <3> DEFINE x == From(k + 1, s)
    <3>3. x \in Seq(Char) /\ Len(x) = Len(s) - (k + 1)
      BY <3>2
    <3> HIDE DEF x, e, s
    <3>4. Len(x \o e) = Len(x) + Len(e) /\ Len(e) \in Nat
      <4>1. x \in Seq(Char)
        BY <3>3
      <4> QED BY <1>3, <4>1, ConcatIs
    <3>5. Tail(b) = x \o e
      BY <2>4 DEF x
    <3> QED BY <3>3, <3>4, <3>5
  <2>8. CASE p.parsed + 1 # p.length
    <3> DEFINE y == r(t)
    <3>1. q = y
      <4> HIDE DEF r
      <4> QED BY <1>7, <2>5, <2>8
    <3>2. PostHere(v, y, Tail(b)) /\ y.temp = t /\ y.params = p.params
      <4>1. p \in ParserType /\ t \in Seq(Char)
        BY <1>2, <2>1
      <4>2. Passed(p, y) /\ y.temp = t /\ y.params = p.params
        <5>1. \E x \in Param : TRUE
          BY PostParamsAre
        <5> QED BY <4>1, <5>1, PassedIs
      <4> HIDE DEF y
      <4>3. PostHere(v, y, Tail(b))
        BY <1>2, <4>2, PostHereNext
      <4> QED BY <4>2, <4>3
    <3> HIDE DEF y
    <3>3. k + 1 <= Len(s) /\ (i = n => k + 1 < Len(s))
      <4>1. k + 1 <= Len(s)
        BY <1>4, <1>8
      <4>2. ASSUME i = n, k + 1 = Len(s)
            PROVE  FALSE
        <5>1. Len(e) = 0
          BY <1>3, <4>2
        <5> HIDE DEF s, e
        <5> DEFINE lt == Len(Tail(b))
                   lb == Len(b)
                   ls == Len(s)
                   le == Len(e)
        <5>2. lt = (ls - (k + 1)) + le /\ ls = k + 1 /\ le = 0 /\ lt = lb - 1 /\ lb \in Nat
          BY <2>6, <2>7, <4>2, <5>1
        <5> HIDE DEF lt, lb, ls, le
        <5>3. lb = 1
          BY <5>2
        <5>4. Len(b) = 1
          BY <5>3 DEF lb
        <5> QED BY <1>2, <2>8, <5>4
      <4> HIDE DEF s
      <4> QED BY <1>4, <4>1, <4>2
    <3>4. InPair(v, Q, y, Tail(b), i, k + 1)
      <4>1. PostUpto(v, Q, i - 1, y)
        BY <1>5, <3>2 DEF PostUpto
      <4> QED BY <2>4, <3>2, <3>3, <4>1 DEF InPair, f, t
    <3> QED BY <3>1, <3>2, <3>4 DEF PostReads, c, q
  <2>9. CASE p.parsed + 1 = p.length
    <3>1. Len(b) = 1
      <4>1. p.parsed + Len(b) = p.parsed + 1
        BY <1>2, <2>9
      <4> QED BY <1>2, <2>6, <4>1
    <3>2. Len(s) = k + 1 /\ Len(e) = 0 /\ Len(Tail(b)) = 0
      <4> HIDE DEF s, e
      <4> DEFINE lt == Len(Tail(b))
                 lb == Len(b)
                 ls == Len(s)
                 le == Len(e)
      <4>1. lt = (ls - (k + 1)) + le /\ k < ls /\ lt = lb - 1 /\ lb = 1 /\ ls \in Nat /\ le \in Nat
        BY <1>4, <1>8, <2>6, <2>7, <3>1
      <4> HIDE DEF lt, lb, ls, le
      <4>2. ls = k + 1 /\ le = 0 /\ lt = 0
        BY <4>1
      <4> QED BY <4>2 DEF lt, lb, ls, le
    <3>3. t = s
      <4>1. First(Len(s), s) = s
        BY <1>4, FromEnds
      <4> HIDE DEF s
      <4> QED BY <3>2, <4>1 DEF t
    <3>4. q = z
      BY <1>7, <2>5, <2>9, <3>3
    <3>5. Tail(b) = <<>>
      BY <2>6, <3>2, EmptySeq
    <3>6. i = n
      <4>1. e = <<>>
        BY <1>3, <3>2, EmptySeq
      <4> QED BY <1>3, <4>1
    <3>7. z.params = Q \o FlattenSeq(PostParams(v))
      <4>1. PostParams(v) \in Seq(Seq(Param)) /\ Len(PostParams(v)) = n
        BY PostParamsAre
      <4>2. First(Len(PostParams(v)), PostParams(v)) = PostParams(v)
        BY <4>1, FromEnds
      <4>3. First(i, PostParams(v)) = PostParams(v)
        BY <3>6, <4>1, <4>2
      <4> QED BY <1>6, <4>3 DEF PostUpto
    <3> QED BY <1>6, <3>4, <3>5, <3>7 DEF PostReads, c, q
  <2> QED BY <2>8, <2>9
<1>9. CASE k = Len(s)
  <2>1. i < n
    BY <1>3, <1>5, <1>9
  <2>2. b = e /\ p.temp = s
    <3>1. From(Len(s), s) = <<>> /\ First(Len(s), s) = s
      BY <1>4, FromEnds
    <3>2. <<>> \o e = e
      BY <1>3, ConcatEmptySeq
    <3> HIDE DEF s, e
    <3> QED BY <1>5, <1>9, <3>1, <3>2
  <2>3. c = "&"
    BY <1>3, <2>1, <2>2
  <2>4. q = z
    <3> HIDE DEF s, c, r
    <3> QED BY <1>7, <2>2, <2>3
  <2>5. i + 1 \in 1..n /\ Tail(b) = Pair(v.fields[i + 1]) \o After(v, i + 1) /\ v.fields[i + 1] \in PostType
    <3>1. i + 1 \in 1..n /\ Tail(After(v, i)) = Pair(v.fields[i + 1]) \o After(v, i + 1)
      BY <2>1, PostRest
    <3>2. v.fields[i + 1] \in PostType
      BY <3>1, PostIs
    <3> QED BY <2>2, <3>1, <3>2
  <2>6. InPair(v, Q, z, Tail(b), i + 1, 0)
    <3> DEFINE x == Pair(v.fields[i + 1])
    <3>1. x \in Seq(Char) /\ Len(x) \in Nat \ {0, 1}
      BY <2>5, PairReads
    <3>2. First(0, x) = <<>> /\ From(0, x) = x
      BY <3>1, FromEnds
    <3>3. 0 < Len(x) /\ 0 <= Len(x)
      <4> HIDE DEF x
      <4> QED BY <3>1
    <3>4. (i + 1) - 1 = i
      BY <1>3
    <3> QED BY <1>6, <2>5, <3>2, <3>3, <3>4 DEF InPair
  <2> QED BY <1>6, <2>4, <2>5, <2>6 DEF PostReads, q
<1> QED BY <1>4, <1>5, <1>8, <1>9

-----------------------------------------------------------------------------
(* A body from its first byte to its last.                                 *)

\* The parser before a body.
Fresh(p, b) ==
  /\ p \in ParserType /\ p.state = "EXPECT_BOUNDARY" /\ p.parsed = 0 /\ p.length = Len(b) /\ p.temp = <<>>
  /\ p.at = 0 /\ p.buffer = <<>> /\ p.uploads = <<>> /\ p.params \in Seq(QueryParam)

LEMMA Smaller ==
  /\ Seq(QueryParam) \subseteq Seq(Param)
  /\ 0 < Len(Boundary) /\ 0 < BufferSize /\ BufferSize \in Nat /\ Len(Boundary) \in Nat
<1>1. QueryParam \subseteq Param
  BY DEF QueryParam, Param
<1>2. Seq(QueryParam) \subseteq Seq(Param)
  BY <1>1, SeqMonotonic
<1> QED BY <1>2, BoundaryIs, BodyAssumption

LEMMA MultiStarts ==
  ASSUME NEW v, MultiVisit(v), NEW p, Fresh(p, MultipartBody(v))
  PROVE  Reads(v, p.params, p, MultipartBody(v)) /\ MultipartBody(v) # <<>>
<1> DEFINE b == MultipartBody(v)
      Q == p.params
<1>1. /\ p \in ParserType /\ p.state = "EXPECT_BOUNDARY" /\ p.parsed = 0 /\ p.length = Len(b) /\ p.temp = <<>>
      /\ p.at = 0 /\ p.buffer = <<>> /\ p.uploads = <<>> /\ Q \in Seq(Param)
  BY Smaller DEF Fresh
<1>2. b \in Seq(Char) /\ Len(b) \in Nat /\ Len(b) = Len(Boundary) + 2 + Len(Rest(v, 0)) /\ Len(Rest(v, 0)) \in Nat
  BY BodyIs
<1>3. From(0, b) = b
  BY <1>2, FromEnds
<1> HIDE DEF b
<1>4. Here(v, p, b)
  <2>1. Len(p.buffer) = 0 /\ 0 + Len(b) = Len(b)
    BY <1>1, <1>2
  <2>2. Len(p.buffer) < BufferSize /\ p.at < Len(Boundary)
    BY <1>1, <2>1, Smaller
  <2>3. p.parsed + Len(b) = Len(MultipartBody(v))
    BY <1>1, <2>1 DEF b
  <2> QED BY <1>1, <1>2, <2>2, <2>3 DEF Here
<1>5. Opens(v, Q, p, b)
  <2>1. 0 < Len(Boundary) + 2
    BY Smaller
  <2>2. Upto(v, Q, 0, p)
    <3>1. First(0, ParamsOf(v)) = <<>>
      BY ParamsAre, FromEnds
    <3>2. Q \o <<>> = Q
      BY <1>1, ConcatEmptySeq
    <3> QED BY <1>1, <3>1, <3>2, FlattenEmpty DEF Upto, b
  <2>3. FilesIn(v, 0, 0, p.uploads)
    BY <1>1 DEF FilesIn
  <2> QED BY <1>1, <1>3, <2>1, <2>2, <2>3 DEF Opens, b
<1>6. b # <<>>
  <2>1. Len(b) # 0
    BY <1>2, Smaller
  <2> QED BY <2>1
<1> QED BY <1>4, <1>5, <1>6 DEF Reads, Stage, b

LEMMA PostStarts ==
  ASSUME NEW v, PostVisit(v), NEW p, Fresh(p, PostBody(v))
  PROVE  IF PostBody(v) = <<>> THEN v.fields = <<>> ELSE PostReads(v, p.params, p, PostBody(v))
<1> DEFINE b == PostBody(v)
      Q == p.params
<1>1. /\ p \in ParserType /\ p.state = "EXPECT_BOUNDARY" /\ p.parsed = 0 /\ p.length = Len(b) /\ p.temp = <<>>
      /\ p.at = 0 /\ p.buffer = <<>> /\ Q \in Seq(Param)
  BY Smaller DEF Fresh
<1>2. b = After(v, 0) /\ b \in Seq(Char) /\ Len(v.fields) \in Nat
  BY PostIs
<1>3. CASE Len(v.fields) = 0
  <2>1. After(v, 0) = <<>>
    BY <1>3, PostIs
  <2>2. v.fields = <<>>
    BY <1>3, EmptySeq DEF PostVisit
  <2> QED BY <1>2, <2>1, <2>2
<1>4. CASE Len(v.fields) # 0
  <2> DEFINE s == Pair(v.fields[1])
             e == After(v, 1)
  <2>1. 1 \in 1..Len(v.fields) /\ 1 - 1 = 0
    BY <1>2, <1>4
  <2>2. After(v, 1 - 1) = PostTexts(v)[1] \o e /\ v.fields[1] \in PostType /\ PostTexts(v)[1] = s
    BY <2>1, PostIs
  <2>3. e \in Seq(Char)
    BY <2>1, PostRest
  <2>4. s \in Seq(Char) /\ Len(s) \in Nat \ {0, 1}
    BY <2>2, PairReads
  <2>5. b = s \o e
    BY <1>2, <2>1, <2>2
  <2>6. From(0, s) = s /\ First(0, s) = <<>>
    BY <2>4, FromEnds
  <2>7. InPair(v, Q, p, b, 1, 0)
    <3>1. 0 <= Len(s) /\ 0 < Len(s)
      <4> HIDE DEF s
      <4> QED BY <2>4
    <3>2. PostUpto(v, Q, 1 - 1, p)
      <4>1. First(0, PostParams(v)) = <<>>
        BY PostParamsAre, FromEnds
      <4>2. Q \o <<>> = Q
        BY <1>1, ConcatEmptySeq
      <4> QED BY <2>1, <4>1, <4>2, FlattenEmpty DEF PostUpto
    <3> HIDE DEF b
    <3> QED BY <1>1, <2>5, <2>6, <3>1, <3>2 DEF InPair
  <2>8. b # <<>>
    <3>1. s # <<>>
      <4> HIDE DEF s
      <4> QED BY <2>4
    <3> HIDE DEF s, e
    <3>2. s \o e # <<>>
      BY <2>3, <2>4, <3>1, Peel
    <3> QED BY <2>5, <3>2
  <2>9. PostHere(v, p, b)
    <3>1. Len(b) \in Nat /\ 0 + Len(b) = Len(b)
      BY <1>2, LenProperties
    <3>2. p.parsed + Len(b) = Len(PostBody(v))
      BY <1>1, <3>1
    <3> QED BY <1>1, <1>2, <3>2 DEF PostHere
  <2>10. 0 \in Nat
    OBVIOUS
  <2> QED BY <2>1, <2>7, <2>8, <2>9, <2>10 DEF PostReads
<1> QED BY <1>3, <1>4

\* The parameters of a body are none of the url.
BodyParam == [name : Seq(Char), value : Seq(Char), kind : {"post", "file"}]

LEMMA MultiRest ==
  ASSUME NEW v, MultiVisit(v)
  PROVE  \A i \in 0..Len(v.fields) : FlattenSeq(First(i, ParamsOf(v))) \in Seq(BodyParam)
<1> DEFINE ps == ParamsOf(v)
      n == Len(v.fields)
<1>1. Len(ps) = n /\ n \in Nat /\ \A i \in 1..n : ps[i] = ItemParams(v.fields[i]) /\ v.fields[i] \in ItemType
  BY ParamsAre, RestIs
<1>2. \A i \in 1..n : ps[i] \in Seq(BodyParam)
  <2> TAKE i \in 1..n
  <2> DEFINE f == v.fields[i]
  <2>1. f \in ItemType /\ ps[i] = ItemParams(f)
    BY <1>1
  <2>2. f.name \in Seq(Char) /\ f.value \in Seq(Char) /\ FileNames[f.name[1]] \in Char
    BY <2>1, ItemParamsType DEF ItemType, FieldType
  <2> HIDE DEF f, ps
  <2>3. << FileNames[f.name[1]] >> \in Seq(Char) /\ <<>> \in Seq(BodyParam)
    BY <2>2, SingleType, EmptySeq
  <2>4. Parameter(f.name, f.value, "post") \in BodyParam
        /\ Parameter(f.name, << FileNames[f.name[1]] >>, "file") \in BodyParam
    BY <2>2, <2>3 DEF Parameter, BodyParam
  <2>5. << Parameter(f.name, f.value, "post") >> \in Seq(BodyParam)
        /\ << Parameter(f.name, << FileNames[f.name[1]] >>, "file") >> \in Seq(BodyParam)
    BY <2>4, SingleType
  <2> QED BY <2>1, <2>3, <2>5 DEF ItemParams
<1>3. ps = [i \in 1..n |-> ps[i]]
  <2>1. DOMAIN v.fields = 1..n
    BY LenProperties DEF MultiVisit
  <2> QED BY <2>1 DEF ParamsOf
<1> HIDE DEF ps, n
<1>4. ps \in Seq(Seq(BodyParam))
  BY <1>1, <1>2, <1>3, SeqIs
<1>5. \A i \in 0..n : FlattenSeq(First(i, ps)) \in Seq(BodyParam)
  <2> TAKE i \in 0..n
  <2>1. i \in 0..Len(ps)
    BY <1>1
  <2>2. First(i, ps) \in Seq(Seq(BodyParam))
    BY <1>4, <2>1, FirstFrom
  <2> QED BY <2>2, FlattenType
<1> QED BY <1>5 DEF ps, n

\* What a multipart body leaves at its end.
LEMMA MultiEnds ==
  ASSUME NEW v, MultiVisit(v), NEW Q \in Seq(Param), NEW p, Finished(v, Q, p) \/ Failed(v, Q, p)
  PROVE  /\ \E r \in Seq(BodyParam) : p.params = Q \o r
         /\ v.memory => /\ p.params = Q \o FlattenSeq(ParamsOf(v))
                        /\ FilesIn(v, Len(v.fields), Len(v.fields), p.uploads)
<1> DEFINE n == Len(v.fields)
<1>1. ParamsOf(v) \in Seq(Seq(Param)) /\ Len(ParamsOf(v)) = n /\ n \in Nat
  BY ParamsAre, RestIs
<1>2. First(n, ParamsOf(v)) = ParamsOf(v)
  <2>1. First(Len(ParamsOf(v)), ParamsOf(v)) = ParamsOf(v)
    BY ParamsAre, FromEnds
  <2> QED BY <1>1, <2>1
<1>3. CASE Finished(v, Q, p)
  <2>1. p.params = Q \o FlattenSeq(First(n, ParamsOf(v))) /\ n \in 0..n
    BY <1>1, <1>2, <1>3 DEF Finished
  <2> QED BY <1>2, <1>3, <2>1, MultiRest DEF Finished
<1>4. CASE Failed(v, Q, p)
  <2>1. \E r \in Seq(BodyParam) : p.params = Q \o r
    BY <1>4, MultiRest DEF Failed
  <2>2. ASSUME v.memory
        PROVE  /\ p.params = Q \o FlattenSeq(ParamsOf(v))
               /\ FilesIn(v, n, n, p.uploads)
    <3>1. v.fields = <<>> /\ p.params = Q /\ FilesIn(v, 0, 0, p.uploads)
      BY <1>4, <2>2 DEF Failed
    <3>2. n = 0
      BY <3>1
    <3>3. ParamsOf(v) = <<>>
      BY <1>1, <3>2, EmptySeq
    <3>4. Q \o <<>> = Q
      BY ConcatEmptySeq
    <3> QED BY <3>1, <3>2, <3>3, <3>4, FlattenEmpty
  <2> QED BY <2>1, <2>2
<1> QED BY <1>3, <1>4

\* And what one of the other kind has given at any byte.
LEMMA PostEnds ==
  ASSUME NEW v, PostVisit(v), NEW Q \in Seq(Param), NEW p, NEW b, PostReads(v, Q, p, b)
  PROVE  /\ \E r \in Seq(BodyParam) : p.params = Q \o r
         /\ FlattenSeq(PostParams(v)) \in Seq(BodyParam)
         /\ b = <<>> => p.params = Q \o FlattenSeq(PostParams(v)) /\ p.parsed = p.length
<1> DEFINE ps == PostParams(v)
      n == Len(v.fields)
<1>1. Len(ps) = n /\ n \in Nat
  BY PostParamsAre, PostIs
<1>2. \A i \in 1..n : ps[i] \in Seq(BodyParam)
  <2> TAKE i \in 1..n
  <2> DEFINE f == v.fields[i]
  <2>1. f \in PostType /\ ps[i] = << Parameter(f.name, f.value, "post") >>
    BY PostIs, PostParamsAre
  <2>2. Parameter(f.name, f.value, "post") \in BodyParam
    BY <2>1 DEF PostType, FieldType, BodyParam, Parameter
  <2> QED BY <2>1, <2>2, SingleType
<1>3. ps = [i \in 1..n |-> ps[i]]
  <2>1. DOMAIN v.fields = 1..n
    BY LenProperties DEF PostVisit
  <2> QED BY <2>1 DEF PostParams
<1> HIDE DEF ps, n
<1>4. ps \in Seq(Seq(BodyParam))
  BY <1>1, <1>2, <1>3, SeqIs
<1>5. \A i \in 0..n : FlattenSeq(First(i, ps)) \in Seq(BodyParam)
  <2> TAKE i \in 0..n
  <2>1. i \in 0..Len(ps)
    BY <1>1
  <2>2. First(i, ps) \in Seq(Seq(BodyParam))
    BY <1>4, <2>1, FirstFrom
  <2> QED BY <2>2, FlattenType
<1>6. FlattenSeq(ps) \in Seq(BodyParam)
  BY <1>4, FlattenType
<1>7. ASSUME NEW i \in 1..n, NEW k \in Nat, InPair(v, Q, p, b, i, k)
      PROVE  b # <<>> /\ \E r \in Seq(BodyParam) : p.params = Q \o r
  <2> DEFINE s == Pair(v.fields[i])
             e == After(v, i)
             u == From(k, s)
  <2>1. i \in 1..Len(v.fields) /\ i - 1 \in 0..n /\ i <= n
    BY <1>1 DEF n
  <2>2. p.params = Q \o FlattenSeq(First(i - 1, ps)) /\ b = u \o e /\ k <= Len(s) /\ (i = n => k < Len(s))
    BY <1>7 DEF InPair, PostUpto, ps, n
  <2>3. v.fields[i] \in PostType /\ e \in Seq(Char) /\ (i < n => e # <<>>)
    BY <2>1, PostRest DEF n
  <2>4. s \in Seq(Char) /\ Len(s) \in Nat
    BY <2>3, PairReads
  <2> HIDE DEF s, e
  <2>5. u \in Seq(Char) /\ Len(u) = Len(s) - k
    <3>1. k \in 0..Len(s)
      BY <2>2, <2>4
    <3> QED BY <2>4, <3>1, FirstFrom
  <2> HIDE DEF u
  <2>6. b # <<>>
    <3>1. Len(u \o e) = Len(u) + Len(e) /\ Len(u) \in Nat /\ Len(e) \in Nat
      BY <2>3, <2>5, ConcatIs
    <3>2. CASE i = n
      <4>1. Len(u) > 0
        BY <2>2, <2>4, <2>5, <3>2
      <4>2. Len(u \o e) # 0
        BY <3>1, <4>1
      <4> QED BY <2>2, <4>2
    <3>3. CASE i < n
      <4>1. Len(e) # 0
        BY <2>3, <3>3, EmptySeq
      <4>2. Len(u \o e) # 0
        BY <3>1, <4>1
      <4> QED BY <2>2, <4>2
    <3> QED BY <1>1, <2>1, <3>2, <3>3
  <2> QED BY <1>5, <2>1, <2>2, <2>6
<1>8. ASSUME b = <<>>
      PROVE  p.parsed = p.length
  <2>1. p.parsed + Len(b) = p.length /\ p.parsed \in Nat
    BY DEF PostReads, PostHere, ParserType
  <2>2. Len(b) = 0
    BY <1>8
  <2> QED BY <2>1, <2>2
<1> QED BY <1>6, <1>7, <1>8 DEF PostReads, ps, n

=============================================================================
