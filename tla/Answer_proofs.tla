----------------------------- MODULE Answer_proofs -----------------------------
(***************************************************************************)
(* Proofs about the answer of the agent: the page shows it, for any texts, *)
(* chunks and cuts (TokenPipe), and it comes from a selected model, for    *)
(* any models, queries and bounds (ModelSelection).                        *)
(***************************************************************************)
EXTENDS TokenPipe, ModelSelection, SequenceTheorems, WellFoundedInduction, TLAPS

-------------------------------------------------------------------------------
(* Induction, with sets in the place of predicates. *)

\* A set of naturals has a least member.
LEMMA Minimum ==
  ASSUME NEW S \in SUBSET Nat, S # {}
  PROVE  Least(S) \in S /\ \A j \in S : Least(S) =< j
<1> DEFINE R == OpToRel(<, Nat)
<1>1. IsWellFoundedOn(R, Nat)
  BY NatLessThanWellFounded
<1>2. \A y, x \in Nat : y < x => <<y, x>> \in R
  BY DEF OpToRel
<1> HIDE DEF R
<1>3. PICK x \in S : \A y \in S : ~ (<<y, x>> \in R)
  BY <1>1, WFMin
<1>4. ASSUME NEW y \in S PROVE x =< y
  <2>1. ~ (y < x)
    BY <1>2, <1>3
  <2> QED
    BY <2>1
<1> QED
  BY <1>4 DEF Least

\* Zero, and with a number the next one.
LEMMA Induction ==
  ASSUME NEW S, 0 \in S, \A n \in Nat : n \in S => n + 1 \in S
  PROVE  Nat \subseteq S
<1> DEFINE T == Nat \ S
<1> SUFFICES ASSUME T # {} PROVE FALSE
  OBVIOUS
<1>1. PICK x \in T : \A y \in T : x =< y
  <2>1. T \in SUBSET Nat
    OBVIOUS
  <2> HIDE DEF T
  <2> QED
    BY <2>1, Minimum
<1>2. x \in Nat /\ x # 0 /\ x - 1 \in Nat
  BY <1>1
<1>3. x - 1 \in T
  BY <1>1, <1>2
<1> QED
  BY <1>1, <1>2, <1>3

\* What holds of d if it holds of everything smaller, holds of everything.
LEMMA Descent ==
  ASSUME NEW D, NEW size \in [D -> Nat], NEW Good,
         \A d \in D : (\A e \in D : size[e] < size[d] => e \in Good) => d \in Good
  PROVE  D \subseteq Good
<1> DEFINE S == {n \in Nat : \A d \in D : size[d] < n => d \in Good}
<1>1. 0 \in S
  OBVIOUS
<1>2. ASSUME NEW n \in Nat, n \in S PROVE n + 1 \in S
  <2> SUFFICES ASSUME NEW d \in D, size[d] < n + 1 PROVE d \in Good
    OBVIOUS
  <2>1. \A e \in D : size[e] < size[d] => e \in Good
    BY <1>2
  <2> QED
    BY <2>1
<1>3. Nat \subseteq S
  <2> HIDE DEF S
  <2> QED
    BY <1>1, <1>2, Induction
<1> SUFFICES ASSUME NEW d \in D PROVE d \in Good
  OBVIOUS
<1>4. size[d] + 1 \in S
  BY <1>3
<1> QED
  BY <1>4

\* A function on D with values in E: base[d] in Stop, else comb of d and the value for
\* next[d], which is smaller.
Recursive(D, E, Stop, size, next, base, comb) ==
    /\ size \in [D -> Nat] /\ next \in [D -> D]
    /\ base \in [D -> E] /\ comb \in [D \X E -> E]
    /\ \A d \in D : d \notin Stop => size[next[d]] < size[d]

\* There is such a function.
LEMMA Recursion ==
  ASSUME NEW D, NEW E, NEW Stop, NEW size, NEW next, NEW base, NEW comb,
         Recursive(D, E, Stop, size, next, base, comb)
  PROVE  \E F \in [D -> E] :
           \A d \in D : F[d] = IF d \in Stop THEN base[d] ELSE comb[<<d, F[next[d]]>>]
<1> USE DEF Recursive
<1> DEFINE Val(g, d) == IF d \in Stop THEN base[d] ELSE comb[<<d, g[next[d]]>>]
           Upto(n, g) == \A d \in D : size[d] < n => g[d] = Val(g, d)
           S == {n \in Nat : \E g : Upto(n, g)}
<1>1. 0 \in S
  <2>1. Upto(0, base)
    <3> HIDE DEF Val
    <3> QED
      OBVIOUS
  <2> HIDE DEF Upto
  <2> QED
    BY <2>1
<1>2. ASSUME NEW n \in Nat, n \in S PROVE n + 1 \in S
  <2>1. PICK g : Upto(n, g)
    BY <1>2
  <2> DEFINE h == [d \in D |-> Val(g, d)]
  <2>2. ASSUME NEW d \in D, size[d] < n PROVE h[d] = g[d]
    BY <2>1, <2>2
  <2>3. ASSUME NEW d \in D, size[d] < n + 1 PROVE h[d] = Val(h, d)
    <3>1. CASE d \in Stop
      BY <3>1
    <3>2. CASE d \notin Stop
      <4>1. next[d] \in D /\ size[next[d]] < n
        BY <3>2, <2>3
      <4>2. h[next[d]] = g[next[d]]
        BY <4>1, <2>2
      <4> QED
        BY <3>2, <4>2
    <3> QED
      BY <3>1, <3>2
  <2>4. Upto(n + 1, h)
    <3> HIDE DEF h
    <3> QED
      BY <2>3
  <2> HIDE DEF h, Upto
  <2> QED
    BY <2>4
<1>3. Nat \subseteq S
  <2> HIDE DEF S
  <2> QED
    BY <1>1, <1>2, Induction
<1>4. ASSUME NEW n \in Nat, NEW k \in Nat, NEW g, NEW h, Upto(n, g), Upto(k, h)
      PROVE  \A d \in D : size[d] < n /\ size[d] < k => g[d] = h[d]
  <2> DEFINE Good == {d \in D : size[d] < n /\ size[d] < k => g[d] = h[d]}
  <2>1. ASSUME NEW d \in D, \A e \in D : size[e] < size[d] => e \in Good
        PROVE  d \in Good
    <3> SUFFICES ASSUME size[d] < n, size[d] < k PROVE g[d] = h[d]
      OBVIOUS
    <3>1. CASE d \in Stop
      BY <3>1, <1>4
    <3>2. CASE d \notin Stop
      <4>1. next[d] \in D /\ size[next[d]] < size[d]
        BY <3>2
      <4>2. next[d] \in Good
        BY <4>1, <2>1
      <4>3. g[next[d]] = h[next[d]]
        BY <4>1, <4>2
      <4> QED
        BY <3>2, <4>3, <1>4
    <3> QED
      BY <3>1, <3>2
  <2>2. D \subseteq Good
    <3> HIDE DEF Good
    <3> QED
      BY <2>1, Descent
  <2> QED
    BY <2>2
<1> DEFINE G(n) == CHOOSE g : Upto(n, g)
           F == [d \in D |-> G(size[d] + 1)[d]]
<1>5. \A n \in Nat : Upto(n, G(n))
  <2> HIDE DEF Upto
  <2> QED
    BY <1>3
<1> HIDE DEF G, Upto
<1>6. ASSUME NEW d \in D PROVE F[d] = Val(F, d)
  <2>1. G(size[d] + 1)[d] = Val(G(size[d] + 1), d)
    <3>1. Upto(size[d] + 1, G(size[d] + 1))
      BY <1>5
    <3> HIDE DEF Val
    <3>2. \A g : Upto(size[d] + 1, g) => g[d] = Val(g, d)
      BY DEF Upto
    <3> QED
      BY <3>1, <3>2
  <2>2. CASE d \in Stop
    BY <2>1, <2>2
  <2>3. CASE d \notin Stop
    <3>1. next[d] \in D /\ size[next[d]] < size[d]
      BY <2>3
    <3>2. G(size[d] + 1)[next[d]] = G(size[next[d]] + 1)[next[d]]
      <4> DEFINE n == size[d] + 1
                 k == size[next[d]] + 1
      <4>1. Upto(n, G(n)) /\ Upto(k, G(k)) /\ n \in Nat /\ k \in Nat
        BY <1>5, <3>1
      <4> HIDE DEF n, k
      <4>2. \A e \in D : size[e] < n /\ size[e] < k => G(n)[e] = G(k)[e]
        BY <4>1, <1>4
      <4> QED
        BY <4>2, <3>1 DEF n, k
    <3> QED
      BY <2>1, <2>3, <3>1, <3>2
  <2> QED
    BY <2>2, <2>3
<1>7. DOMAIN F = D /\ F = [d \in D |-> F[d]]
  OBVIOUS
<1> HIDE DEF F
<1>8. F \in [D -> E]
  <2> DEFINE Good == {d \in D : F[d] \in E}
  <2>1. ASSUME NEW d \in D, \A e \in D : size[e] < size[d] => e \in Good
        PROVE  d \in Good
    <3>1. CASE d \in Stop
      BY <1>6, <3>1
    <3>2. CASE d \notin Stop
      <4>1. next[d] \in D /\ F[next[d]] \in E
        BY <2>1, <3>2
      <4>2. <<d, F[next[d]]>> \in D \X E
        BY <4>1
      <4>3. F[d] = comb[<<d, F[next[d]]>>]
        BY <1>6, <3>2
      <4> QED
        BY <4>2, <4>3
    <3> QED
      BY <3>1, <3>2
  <2>2. D \subseteq Good
    <3> HIDE DEF Good
    <3> QED
      BY <2>1, Descent
  <2>3. \A d \in D : F[d] \in E
    BY <2>2
  <2> QED
    BY <1>7, <2>3
<1> QED
  BY <1>6, <1>8

\* A loop ends, and what its rounds preserve holds then.
LEMMA LoopEnds ==
  ASSUME NEW D, NEW Stop, NEW size \in [D -> Nat], NEW next, NEW F, NEW P \in SUBSET D,
         \A d \in D : F[d] = IF d \in Stop THEN d ELSE F[next[d]],
         \A d \in P : d \notin Stop => next[d] \in P /\ size[next[d]] < size[d]
  PROVE  \A d \in P : F[d] \in P \cap Stop
<1> DEFINE Good == {d \in D : d \in P => F[d] \in P \cap Stop}
<1>1. ASSUME NEW d \in D, \A e \in D : size[e] < size[d] => e \in Good
      PROVE  d \in Good
  <2> SUFFICES ASSUME d \in P PROVE F[d] \in P \cap Stop
    OBVIOUS
  <2>1. CASE d \in Stop
    BY <2>1
  <2>2. CASE d \notin Stop
    <3>1. next[d] \in Good /\ next[d] \in P
      BY <1>1, <2>2
    <3> QED
      BY <2>2, <3>1
  <2> QED
    BY <2>1, <2>2
<1>2. D \subseteq Good
  <2> HIDE DEF Good
  <2> QED
    BY <1>1, Descent
<1> QED
  BY <1>2

-------------------------------------------------------------------------------
(* Sequences: where a tag begins, by its symbols. *)

\* A sequence in a sequence, symbol by symbol.
Reads(s, t, i) == i + Len(t) - 1 =< Len(s) /\ \A k \in 1..Len(t) : s[i + k - 1] = t[k]

\* Where t begins in s, its symbols follow.
LEMMA StartsIs ==
  ASSUME NEW X, NEW s \in Seq(X), NEW t \in Seq(X), NEW i \in 1..Len(s)
  PROVE  StartsAt(s, t, i) <=> Reads(s, t, i)
<1> DEFINE r == From(s, i)
<1>1. /\ Len(s) \in Nat /\ Len(t) \in Nat /\ i \in Nat
      /\ r \in Seq(X) /\ Len(r) = Len(s) - i + 1
      /\ \A k \in 1..Len(r) : r[k] = s[i + k - 1]
  BY DEF From
<1> HIDE DEF r
<1>2. StartsAt(s, t, i) <=> Len(t) =< Len(r) /\ SubSeq(t, 1, Len(t)) = SubSeq(r, 1, Len(t))
  BY DEF StartsAt, IsPrefix, r
<1>3. SubSeq(t, 1, Len(t)) = t
  BY <1>1
<1>4. ASSUME Len(t) =< Len(r) PROVE t = SubSeq(r, 1, Len(t)) <=> \A k \in 1..Len(t) : r[k] = t[k]
  <2>1. /\ SubSeq(r, 1, Len(t)) \in Seq(X) /\ Len(SubSeq(r, 1, Len(t))) = Len(t)
        /\ \A k \in 1..Len(t) : SubSeq(r, 1, Len(t))[k] = r[k]
    BY <1>1, <1>4
  <2> QED
    BY <2>1, SeqEqual
<1>5. Len(t) =< Len(r) <=> i + Len(t) - 1 =< Len(s)
  BY <1>1
<1>6. Len(t) =< Len(r) => ((\A k \in 1..Len(t) : r[k] = t[k]) <=> \A k \in 1..Len(t) : s[i + k - 1] = t[k])
  BY <1>1
<1> QED
  BY <1>2, <1>3, <1>4, <1>5, <1>6 DEF Reads

\* The first occurrence, or none.
LEMMA FindIs ==
  ASSUME NEW X, NEW s \in Seq(X), NEW t
  PROVE  /\ Find(s, t) \in 0..Len(s)
         /\ Find(s, t) # 0 => StartsAt(s, t, Find(s, t))
         /\ \A i \in 1..Len(s) : StartsAt(s, t, i) => Find(s, t) # 0 /\ Find(s, t) =< i
<1> DEFINE at == {i \in 1..Len(s) : StartsAt(s, t, i)}
<1>1. Find(s, t) = IF at = {} THEN 0 ELSE Least(at)
  BY DEF Find
<1>2. at \in SUBSET Nat /\ at \subseteq 1..Len(s) /\ Len(s) \in Nat
  BY LenProperties
<1>3. \A i \in at : StartsAt(s, t, i)
  OBVIOUS
<1>4. \A i \in 1..Len(s) : StartsAt(s, t, i) => i \in at
  OBVIOUS
<1> HIDE DEF at
<1>5. at # {} => Least(at) \in at /\ \A j \in at : Least(at) =< j
  BY <1>2, Minimum
<1>6. CASE at = {}
  BY <1>1, <1>2, <1>4, <1>6
<1>7. CASE at # {}
  <2>1. Find(s, t) = Least(at) /\ Least(at) \in at /\ \A j \in at : Least(at) =< j
    BY <1>1, <1>5, <1>7
  <2>2. Find(s, t) \in 1..Len(s) /\ StartsAt(s, t, Find(s, t))
    BY <1>2, <1>3, <2>1
  <2>3. \A i \in 1..Len(s) : StartsAt(s, t, i) => Find(s, t) =< i
    BY <1>4, <2>1
  <2> QED
    BY <1>2, <2>2, <2>3
<1> QED
  BY <1>6, <1>7

\* The tags and the end of a frame.
LEMMA TagsAre ==
  ASSUME NEW s \in Seq(Framed), NEW i \in 1..Len(s)
  PROVE  /\ StartsAt(s, Open, i) <=>
              i + 2 =< Len(s) /\ s[i] = "<" /\ s[i + 1] = "t" /\ s[i + 2] = ">"
         /\ StartsAt(s, Close, i) <=>
              i + 3 =< Len(s) /\ s[i] = "<" /\ s[i + 1] = "/" /\ s[i + 2] = "t" /\ s[i + 3] = ">"
         /\ StartsAt(s, Blank, i) <=> i + 1 =< Len(s) /\ s[i] = "nl" /\ s[i + 1] = "nl"
<1>1. Open \in Seq(Framed) /\ Close \in Seq(Framed) /\ Blank \in Seq(Framed)
  BY DEF Open, Close, Blank, Framed, Symbols
<1>2. StartsAt(s, Open, i) <=> Reads(s, Open, i)
  BY <1>1, StartsIs
<1>3. StartsAt(s, Close, i) <=> Reads(s, Close, i)
  BY <1>1, StartsIs
<1>4. StartsAt(s, Blank, i) <=> Reads(s, Blank, i)
  BY <1>1, StartsIs
<1>5. /\ Len(Open) = 3 /\ Open[1] = "<" /\ Open[2] = "t" /\ Open[3] = ">"
      /\ Len(Close) = 4 /\ Close[1] = "<" /\ Close[2] = "/" /\ Close[3] = "t" /\ Close[4] = ">"
      /\ Len(Blank) = 2 /\ Blank[1] = "nl" /\ Blank[2] = "nl"
  BY DEF Open, Close, Blank
<1>6. Len(s) \in Nat /\ i \in Nat
  OBVIOUS
<1>7. \A k : /\ k \in 1..2 <=> k = 1 \/ k = 2
             /\ k \in 1..3 <=> k = 1 \/ k = 2 \/ k = 3
             /\ k \in 1..4 <=> k = 1 \/ k = 2 \/ k = 3 \/ k = 4
  OBVIOUS
<1>8. i + 1 - 1 = i /\ i + 2 - 1 = i + 1 /\ i + 3 - 1 = i + 2 /\ i + 4 - 1 = i + 3
  BY <1>6
<1> QED
  BY <1>2, <1>3, <1>4, <1>5, <1>7, <1>8 DEF Reads

\* The last i symbols of s are the first i of t.
EndsWith(s, t, i) ==
    i \in 1..(Len(t) - 1) /\ i =< Len(s) /\ \A k \in 1..i : s[Len(s) - i + k] = t[k]

\* The shortest beginning of t at the end of s, or none.
LEMMA PartialIs ==
  ASSUME NEW X, NEW s \in Seq(X), NEW t \in Seq(X), t # <<>>
  PROVE  /\ PartialAtEnd(s, t) \in 0..(Len(t) - 1) /\ PartialAtEnd(s, t) =< Len(s)
         /\ PartialAtEnd(s, t) # 0 => EndsWith(s, t, PartialAtEnd(s, t))
         /\ \A i : EndsWith(s, t, i) => PartialAtEnd(s, t) # 0 /\ PartialAtEnd(s, t) =< i
<1> DEFINE ends == {i \in 1..(Len(t) - 1) : i =< Len(s) /\ From(s, Len(s) - i + 1) = SubSeq(t, 1, i)}
<1>1. PartialAtEnd(s, t) = IF ends = {} THEN 0 ELSE Least(ends)
  BY DEF PartialAtEnd
<1>2. Len(s) \in Nat /\ Len(t) \in Nat \ {0} /\ ends \subseteq 1..(Len(t) - 1) /\ ends \in SUBSET Nat
  OBVIOUS
<1>3. ASSUME NEW i \in 1..(Len(t) - 1), i =< Len(s)
      PROVE  From(s, Len(s) - i + 1) = SubSeq(t, 1, i) <=> \A k \in 1..i : s[Len(s) - i + k] = t[k]
  <2> DEFINE u == From(s, Len(s) - i + 1)
             v == SubSeq(t, 1, i)
  <2>1. u \in Seq(X) /\ Len(u) = i /\ \A k \in 1..i : u[k] = s[Len(s) - i + k]
    BY <1>2, <1>3 DEF From
  <2>2. v \in Seq(X) /\ Len(v) = i /\ \A k \in 1..i : v[k] = t[k]
    BY <1>2, <1>3
  <2> HIDE DEF u, v
  <2>3. u = v <=> \A k \in 1..i : u[k] = v[k]
    BY <2>1, <2>2, SeqEqual
  <2>4. u = v <=> \A k \in 1..i : s[Len(s) - i + k] = t[k]
    BY <2>1, <2>2, <2>3
  <2> QED
    BY <2>4 DEF u, v
<1>4. \A i : i \in ends <=> EndsWith(s, t, i)
  BY <1>3 DEF EndsWith
<1>5. \A i \in ends : i =< Len(s)
  OBVIOUS
<1> HIDE DEF ends
<1>6. CASE ends = {}
  BY <1>1, <1>2, <1>4, <1>6
<1>7. CASE ends # {}
  <2>1. Least(ends) \in ends /\ \A j \in ends : Least(ends) =< j
    BY <1>2, <1>7, Minimum
  <2>2. PartialAtEnd(s, t) = Least(ends)
    BY <1>1, <1>7
  <2>3. PartialAtEnd(s, t) \in 1..(Len(t) - 1) /\ PartialAtEnd(s, t) =< Len(s)
    BY <1>2, <1>5, <2>1, <2>2
  <2>4. EndsWith(s, t, PartialAtEnd(s, t))
    BY <1>4, <2>1, <2>2
  <2>5. \A i : EndsWith(s, t, i) => PartialAtEnd(s, t) =< i
    BY <1>4, <2>1, <2>2
  <2> QED
    BY <1>2, <2>3, <2>4, <2>5
<1> QED
  BY <1>6, <1>7

\* What is held back: nothing, "<" or "<t" outside of a think block; inside of one, at
\* least what ends in a beginning of the closing tag.
LEMMA PartialTags ==
  ASSUME NEW s \in Seq(Symbols)
  PROVE  /\ PartialAtEnd(s, Open) =
              IF Len(s) >= 1 /\ s[Len(s)] = "<" THEN 1
              ELSE IF Len(s) >= 2 /\ s[Len(s) - 1] = "<" /\ s[Len(s)] = "t" THEN 2 ELSE 0
         /\ PartialAtEnd(s, Close) \in Nat
         /\ PartialAtEnd(s, Close) = 0 =>
              /\ ~ (Len(s) >= 1 /\ s[Len(s)] = "<")
              /\ ~ (Len(s) >= 2 /\ s[Len(s) - 1] = "<" /\ s[Len(s)] = "/")
              /\ ~ (Len(s) >= 3 /\ s[Len(s) - 2] = "<" /\ s[Len(s) - 1] = "/" /\ s[Len(s)] = "t")
<1>1. /\ Len(Open) = 3 /\ Open[1] = "<" /\ Open[2] = "t" /\ Open # <<>>
      /\ Len(Close) = 4 /\ Close[1] = "<" /\ Close[2] = "/" /\ Close[3] = "t" /\ Close # <<>>
      /\ Open \in Seq(Symbols) /\ Close \in Seq(Symbols) /\ Len(s) \in Nat
  BY DEF Open, Close, Symbols
<1>2. \A i : EndsWith(s, Open, i) <=>
         \/ i = 1 /\ Len(s) >= 1 /\ s[Len(s)] = "<"
         \/ i = 2 /\ Len(s) >= 2 /\ s[Len(s) - 1] = "<" /\ s[Len(s)] = "t"
  BY <1>1 DEF EndsWith
<1>3. /\ Len(s) >= 1 /\ s[Len(s)] = "<" => EndsWith(s, Close, 1)
      /\ Len(s) >= 2 /\ s[Len(s) - 1] = "<" /\ s[Len(s)] = "/" => EndsWith(s, Close, 2)
      /\ Len(s) >= 3 /\ s[Len(s) - 2] = "<" /\ s[Len(s) - 1] = "/" /\ s[Len(s)] = "t" => EndsWith(s, Close, 3)
  BY <1>1 DEF EndsWith
<1>4. /\ PartialAtEnd(s, Open) \in 0..(Len(Open) - 1)
      /\ PartialAtEnd(s, Open) # 0 => EndsWith(s, Open, PartialAtEnd(s, Open))
      /\ \A i : EndsWith(s, Open, i) => PartialAtEnd(s, Open) # 0 /\ PartialAtEnd(s, Open) =< i
  BY PartialIs, <1>1
<1>5. /\ PartialAtEnd(s, Close) \in 0..(Len(Close) - 1)
      /\ \A i : EndsWith(s, Close, i) => PartialAtEnd(s, Close) # 0
  BY PartialIs, <1>1
<1>6. PartialAtEnd(s, Open) =
        IF Len(s) >= 1 /\ s[Len(s)] = "<" THEN 1
        ELSE IF Len(s) >= 2 /\ s[Len(s) - 1] = "<" /\ s[Len(s)] = "t" THEN 2 ELSE 0
  <2> DEFINE n == PartialAtEnd(s, Open)
  <2>1. n \in 0..2 /\ (n # 0 => EndsWith(s, Open, n))
    BY <1>1, <1>4
  <2>2. EndsWith(s, Open, 1) => n # 0 /\ n =< 1
    BY <1>4
  <2>3. EndsWith(s, Open, 2) => n # 0
    BY <1>4
  <2>4. /\ EndsWith(s, Open, 1) <=> Len(s) >= 1 /\ s[Len(s)] = "<"
        /\ EndsWith(s, Open, 2) <=> Len(s) >= 2 /\ s[Len(s) - 1] = "<" /\ s[Len(s)] = "t"
    BY <1>2
  <2> HIDE DEF n
  <2>5. n = IF EndsWith(s, Open, 1) THEN 1 ELSE IF EndsWith(s, Open, 2) THEN 2 ELSE 0
    <3>1. n = 0 \/ n = 1 \/ n = 2
      BY <2>1
    <3> QED
      BY <2>1, <2>2, <2>3, <3>1
  <2> QED
    BY <2>4, <2>5 DEF n
<1>7. PartialAtEnd(s, Close) \in Nat
  BY <1>1, <1>5
<1> QED
  BY <1>3, <1>5, <1>6, <1>7

-------------------------------------------------------------------------------
(* Sequences: what is before and after a cut. *)

\* A cut through the first of two sequences.
LEMMA CutFirst ==
  ASSUME NEW X, NEW s \in Seq(X), NEW r \in Seq(X)
  PROVE  /\ s \o r \in Seq(X) /\ Len(s \o r) = Len(s) + Len(r)
         /\ \A i \in 1..(Len(s) + 1) : From(s \o r, i) = From(s, i) \o r
         /\ \A i \in 0..Len(s) : SubSeq(s \o r, 1, i) = SubSeq(s, 1, i)
         /\ \A i \in 1..Len(s) : (s \o r)[i] = s[i]
         /\ \A i \in 1..Len(r) : (s \o r)[Len(s) + i] = r[i]
<1>1. /\ s \o r \in Seq(X) /\ Len(s \o r) = Len(s) + Len(r) /\ Len(s) \in Nat /\ Len(r) \in Nat
      /\ \A i \in 1..(Len(s) + Len(r)) : (s \o r)[i] = IF i =< Len(s) THEN s[i] ELSE r[i - Len(s)]
  BY ConcatProperties
<1>2. ASSUME NEW i \in 1..(Len(s) + 1) PROVE From(s \o r, i) = From(s, i) \o r
  <2>1. /\ From(s, i) \in Seq(X) /\ Len(From(s, i)) = Len(s) - i + 1
        /\ \A k \in 1..(Len(s) - i + 1) : From(s, i)[k] = s[i + k - 1]
    BY <1>1 DEF From
  <2>2. /\ From(s \o r, i) \in Seq(X) /\ Len(From(s \o r, i)) = Len(s) + Len(r) - i + 1
        /\ \A k \in 1..(Len(s) + Len(r) - i + 1) : From(s \o r, i)[k] = (s \o r)[i + k - 1]
    BY <1>1 DEF From
  <2> DEFINE u == From(s, i)
             v == From(s \o r, i)
             w == s \o r
  <2> HIDE DEF u, v, w
  <2>3. /\ u \o r \in Seq(X) /\ Len(u \o r) = Len(u) + Len(r)
        /\ \A k \in 1..(Len(u) + Len(r)) : (u \o r)[k] = IF k =< Len(u) THEN u[k] ELSE r[k - Len(u)]
    BY <2>1, ConcatProperties DEF u
  <2>4. ASSUME NEW k \in 1..Len(v) PROVE v[k] = (u \o r)[k]
    <3>1. v[k] = w[i + k - 1] /\ k \in Nat /\ i \in Nat
      BY <1>1, <2>2 DEF v, w
    <3>2. i + k - 1 \in 1..(Len(s) + Len(r))
      BY <1>1, <2>2 DEF v
    <3>3. w[i + k - 1] = IF i + k - 1 =< Len(s) THEN s[i + k - 1] ELSE r[i + k - 1 - Len(s)]
      BY <1>1, <3>2 DEF w
    <3>4. Len(u) = Len(s) - i + 1 /\ \A l \in 1..Len(u) : u[l] = s[i + l - 1]
      BY <2>1 DEF u
    <3>5. k - Len(u) = i + k - 1 - Len(s) /\ (k =< Len(u) <=> i + k - 1 =< Len(s))
      BY <1>1, <3>1, <3>4
    <3>6. k \in 1..(Len(u) + Len(r))
      BY <1>1, <2>2, <3>4 DEF v
    <3> QED
      BY <2>3, <3>1, <3>3, <3>4, <3>5, <3>6
  <2>5. Len(v) = Len(u \o r) /\ v \in Seq(X)
    BY <1>1, <2>1, <2>2, <2>3 DEF u, v
  <2>6. v = u \o r
    BY <2>3, <2>4, <2>5, SeqEqual
  <2> QED
    BY <2>6 DEF u, v
<1>3. ASSUME NEW i \in 0..Len(s) PROVE SubSeq(s \o r, 1, i) = SubSeq(s, 1, i)
  <2> DEFINE w == s \o r
  <2>1. w \in Seq(X) /\ Len(w) = Len(s) + Len(r) /\ \A k \in 1..i : w[k] = s[k]
    BY <1>1
  <2> HIDE DEF w
  <2>2. /\ SubSeq(w, 1, i) \in Seq(X) /\ Len(SubSeq(w, 1, i)) = i
        /\ \A k \in 1..i : SubSeq(w, 1, i)[k] = w[k]
    BY <1>1, <2>1
  <2>3. /\ SubSeq(s, 1, i) \in Seq(X) /\ Len(SubSeq(s, 1, i)) = i
        /\ \A k \in 1..i : SubSeq(s, 1, i)[k] = s[k]
    BY <1>1
  <2>4. SubSeq(w, 1, i) = SubSeq(s, 1, i)
    BY <2>1, <2>2, <2>3, SeqEqual
  <2> QED
    BY <2>4 DEF w
<1>4. \A i \in 1..Len(s) : (s \o r)[i] = s[i]
  BY <1>1
<1>5. \A i \in 1..Len(r) : (s \o r)[Len(s) + i] = r[i]
  BY <1>1
<1> QED
  BY <1>1, <1>2, <1>3, <1>4, <1>5

\* A cut and its two sides.
LEMMA Cut ==
  ASSUME NEW X, NEW s \in Seq(X), NEW i \in 0..Len(s)
  PROVE  /\ SubSeq(s, 1, i) \in Seq(X) /\ Len(SubSeq(s, 1, i)) = i
         /\ From(s, i + 1) \in Seq(X) /\ Len(From(s, i + 1)) = Len(s) - i
         /\ \A k \in 1..i : SubSeq(s, 1, i)[k] = s[k]
         /\ \A k \in 1..(Len(s) - i) : From(s, i + 1)[k] = s[i + k]
         /\ s = SubSeq(s, 1, i) \o From(s, i + 1)
<1>1. Len(s) \in Nat /\ i \in Nat
  OBVIOUS
<1> DEFINE u == SubSeq(s, 1, i)
           v == From(s, i + 1)
<1>2. u \in Seq(X) /\ Len(u) = i /\ \A k \in 1..i : u[k] = s[k]
  BY <1>1
<1>3. v \in Seq(X) /\ Len(v) = Len(s) - i /\ \A k \in 1..(Len(s) - i) : v[k] = s[i + k]
  BY <1>1 DEF From
<1> HIDE DEF u, v
<1>4. /\ u \o v \in Seq(X) /\ Len(u \o v) = Len(s)
      /\ \A k \in 1..Len(s) : (u \o v)[k] = IF k =< i THEN u[k] ELSE v[k - i]
  BY <1>1, <1>2, <1>3, ConcatProperties
<1>5. \A k \in 1..Len(s) : (u \o v)[k] = s[k]
  BY <1>1, <1>2, <1>3, <1>4
<1>6. s = u \o v
  BY <1>4, <1>5, SeqEqual
<1> QED
  BY <1>2, <1>3, <1>6 DEF u, v

\* A cut through the second of two sequences.
LEMMA CutSecond ==
  ASSUME NEW X, NEW s \in Seq(X), NEW r \in Seq(X), NEW i \in 1..(Len(r) + 1)
  PROVE  /\ From(s \o r, Len(s) + i) = From(r, i)
         /\ SubSeq(s \o r, 1, Len(s) + i - 1) = s \o SubSeq(r, 1, i - 1)
<1> DEFINE a == SubSeq(r, 1, i - 1)
           b == From(r, i)
           u == s \o a
<1>1. Len(s) \in Nat /\ Len(r) \in Nat /\ i \in Nat /\ i - 1 \in 0..Len(r) /\ i - 1 + 1 = i
  OBVIOUS
<1>2. a \in Seq(X) /\ Len(a) = i - 1 /\ b \in Seq(X) /\ r = a \o b
  <2>1. PICK j \in 0..Len(r) : j = i - 1 /\ j + 1 = i
    BY <1>1
  <2>2. /\ SubSeq(r, 1, j) \in Seq(X) /\ Len(SubSeq(r, 1, j)) = j
        /\ From(r, j + 1) \in Seq(X) /\ r = SubSeq(r, 1, j) \o From(r, j + 1)
    BY Cut
  <2> QED
    BY <2>1, <2>2
<1> HIDE DEF a, b
<1>3. u \in Seq(X) /\ Len(u) = Len(s) + i - 1
  BY <1>1, <1>2, ConcatProperties
<1>4. s \o r = u \o b
  BY <1>2, ConcatAssociative
<1> HIDE DEF u
<1>5. Len(u) + 1 = Len(s) + i /\ Len(u) + 1 \in 1..(Len(u) + 1) /\ Len(u) \in 0..Len(u)
  BY <1>1, <1>3
<1>6. From(u \o b, Len(u) + 1) = From(u, Len(u) + 1) \o b
  BY <1>2, <1>3, <1>5, CutFirst
<1>7. From(u, Len(u) + 1) = <<>> /\ <<>> \o b = b
  BY <1>2, <1>3, ConcatEmptySeq DEF From
<1>8. SubSeq(u \o b, 1, Len(u)) = u
  BY <1>2, <1>3, <1>5, CutFirst, SubSeqFull
<1> QED
  BY <1>3, <1>4, <1>5, <1>6, <1>7, <1>8 DEF a, b, u

\* What is found in s is found in s \o r.
LEMMA FindFirst ==
  ASSUME NEW X, NEW s \in Seq(X), NEW r \in Seq(X), NEW t \in Seq(X), Find(s, t) # 0
  PROVE  Find(s \o r, t) = Find(s, t)
<1> DEFINE w == s \o r
           m == Find(s, t)
<1>1. /\ w \in Seq(X) /\ Len(w) = Len(s) + Len(r) /\ \A k \in 1..Len(s) : w[k] = s[k]
      /\ Len(s) \in Nat /\ Len(r) \in Nat /\ Len(t) \in Nat
  BY CutFirst
<1>2. m \in 1..Len(s) /\ StartsAt(s, t, m) /\ \A i \in 1..Len(s) : StartsAt(s, t, i) => m =< i
  BY <1>1, FindIs
<1> HIDE DEF w, m
<1>3. ASSUME NEW i \in 1..Len(s), i + Len(t) - 1 =< Len(s) PROVE StartsAt(w, t, i) <=> StartsAt(s, t, i)
  <2>1. StartsAt(s, t, i) <=> Reads(s, t, i)
    BY StartsIs
  <2>2. StartsAt(w, t, i) <=> Reads(w, t, i)
    <3>1. i \in 1..Len(w)
      BY <1>1
    <3> QED
      BY <1>1, <3>1, StartsIs
  <2>3. \A k \in 1..Len(t) : w[i + k - 1] = s[i + k - 1]
    BY <1>1, <1>3
  <2>4. i + Len(t) - 1 =< Len(w)
    BY <1>1, <1>3
  <2> QED
    BY <1>3, <2>1, <2>2, <2>3, <2>4 DEF Reads
<1>4. m + Len(t) - 1 =< Len(s)
  BY <1>2, StartsIs DEF Reads
<1>5. StartsAt(w, t, m) /\ m \in 1..Len(w)
  BY <1>1, <1>2, <1>3, <1>4
<1>6. /\ Find(w, t) \in 1..m /\ StartsAt(w, t, Find(w, t))
  <2>1. /\ Find(w, t) \in 0..Len(w)
        /\ Find(w, t) # 0 => StartsAt(w, t, Find(w, t))
        /\ Find(w, t) # 0 /\ Find(w, t) =< m
    BY <1>1, <1>5, FindIs
  <2> QED
    BY <1>1, <1>2, <2>1
<1>7. StartsAt(s, t, Find(w, t)) /\ Find(w, t) \in 1..Len(s)
  BY <1>1, <1>2, <1>3, <1>4, <1>6
<1>8. m =< Find(w, t)
  BY <1>2, <1>7
<1> QED
  BY <1>2, <1>6, <1>8 DEF w, m

\* What does not begin in u is found behind it.
LEMMA FindLater ==
  ASSUME NEW X, NEW u \in Seq(X), NEW s \in Seq(X), NEW t,
         \A i \in 1..Len(u) : ~ StartsAt(u \o s, t, i)
  PROVE  Find(u \o s, t) = IF Find(s, t) = 0 THEN 0 ELSE Len(u) + Find(s, t)
<1> DEFINE w == u \o s
           n == Find(s, t)
           m == Find(w, t)
<1>1. w \in Seq(X) /\ Len(w) = Len(u) + Len(s) /\ Len(u) \in Nat /\ Len(s) \in Nat
  BY CutFirst
<1>2. \A i \in 1..Len(s) : StartsAt(w, t, Len(u) + i) <=> StartsAt(s, t, i)
  BY CutSecond DEF StartsAt
<1>3. n \in 0..Len(s) /\ (n # 0 => StartsAt(s, t, n)) /\ \A i \in 1..Len(s) : StartsAt(s, t, i) => n # 0 /\ n =< i
  BY FindIs
<1>4. m \in 0..Len(w) /\ (m # 0 => StartsAt(w, t, m)) /\ \A i \in 1..Len(w) : StartsAt(w, t, i) => m # 0 /\ m =< i
  BY <1>1, FindIs
<1>5. \A i \in 1..Len(u) : ~ StartsAt(w, t, i)
  OBVIOUS
<1> HIDE DEF w, n, m
<1>6. m # 0 => m - Len(u) \in 1..Len(s) /\ Len(u) + (m - Len(u)) = m
  BY <1>1, <1>4, <1>5
<1>7. m # 0 => n # 0 /\ n =< m - Len(u)
  BY <1>2, <1>3, <1>4, <1>6
<1>8. n # 0 => m # 0 /\ m =< Len(u) + n
  <2> SUFFICES ASSUME n # 0 PROVE m # 0 /\ m =< Len(u) + n
    OBVIOUS
  <2>1. n \in 1..Len(s) /\ Len(u) + n \in 1..Len(w)
    BY <1>1, <1>3
  <2> QED
    BY <1>2, <1>3, <1>4, <2>1
<1>9. m = IF n = 0 THEN 0 ELSE Len(u) + n
  <2>1. CASE n = 0
    BY <1>7, <2>1
  <2>2. CASE n # 0
    <3>1. m # 0 /\ m =< Len(u) + n /\ n =< m - Len(u)
      BY <1>7, <1>8, <2>2
    <3> QED
      BY <1>1, <1>3, <1>4, <2>2, <3>1
  <2> QED
    BY <2>1, <2>2
<1> QED
  BY <1>9 DEF w, n, m

-------------------------------------------------------------------------------
(* The visible text. *)

Text == Seq(Symbols)

\* What is visible of s in a think block.
Inside(s) ==
    LET j == Find(s, Close) IN IF j = 0 THEN <<>> ELSE Visible[From(s, j + Len(Close))]

\* The lengths of the tags, and that a symbol is something framed.
LEMMA Sizes == Len(Open) = 3 /\ Len(Close) = 4 /\ Len(Blank) = 2 /\ Text \subseteq Seq(Framed)
<1>1. Symbols \subseteq Framed
  BY DEF Framed
<1>2. Text \subseteq Seq(Framed)
  BY <1>1, SeqMonotonic DEF Text
<1> QED
  BY <1>2 DEF Open, Close, Blank

\* What is before and after the first tag is a text, and shorter.
LEMMA FoundOpen ==
  ASSUME NEW s \in Text
  PROVE  /\ Find(s, Open) \in Nat
         /\ Find(s, Open) = 0 => SubSeq(s, 1, Len(s) - PartialAtEnd(s, Open)) \in Text
         /\ Find(s, Open) # 0 =>
              /\ SubSeq(s, 1, Find(s, Open) - 1) \in Text
              /\ From(s, Find(s, Open) + 3) \in Text
              /\ Len(From(s, Find(s, Open) + 3)) < Len(s)
<1>1. s \in Seq(Framed) /\ Len(s) \in Nat /\ s \in Seq(Symbols)
  BY Sizes DEF Text
<1>2. Find(s, Open) \in 0..Len(s) /\ (Find(s, Open) # 0 => StartsAt(s, Open, Find(s, Open)))
  BY <1>1, FindIs
<1>3. Find(s, Open) # 0 => Find(s, Open) + 2 =< Len(s)
  BY <1>1, <1>2, TagsAre
<1>4. PartialAtEnd(s, Open) \in 0..Len(s)
  BY <1>1, PartialTags
<1> QED
  BY <1>1, <1>2, <1>3, <1>4 DEF Text, From

\* The same of the end of a think block.
LEMMA FoundClose ==
  ASSUME NEW s \in Text
  PROVE  /\ Find(s, Close) \in Nat
         /\ Find(s, Close) # 0 =>
              From(s, Find(s, Close) + 4) \in Text /\ Len(From(s, Find(s, Close) + 4)) < Len(s)
<1>1. s \in Seq(Framed) /\ Len(s) \in Nat /\ s \in Seq(Symbols)
  BY Sizes DEF Text
<1>2. Find(s, Close) \in 0..Len(s) /\ (Find(s, Close) # 0 => StartsAt(s, Close, Find(s, Close)))
  BY <1>1, FindIs
<1>3. Find(s, Close) # 0 => Find(s, Close) + 3 =< Len(s)
  BY <1>1, <1>2, TagsAre
<1> QED
  BY <1>1, <1>2, <1>3 DEF Text, From

\* Visible, unfolded once.
LEMMA VisibleIs ==
  ASSUME NEW s \in Text
  PROVE  /\ Visible[s] \in Text /\ Inside(s) \in Text
         /\ Find(s, Open) = 0 => Visible[s] = SubSeq(s, 1, Len(s) - PartialAtEnd(s, Open))
         /\ Find(s, Open) # 0 =>
              Visible[s] = SubSeq(s, 1, Find(s, Open) - 1) \o Inside(From(s, Find(s, Open) + 3))
<1> DEFINE after(x) == From(x, Find(x, Open) + Len(Open))
           beyond(x) == From(after(x), Find(after(x), Close) + Len(Close))
           stops(x) == Find(x, Open) = 0 \/ Find(after(x), Close) = 0
           upto(x) == IF Find(x, Open) = 0 THEN SubSeq(x, 1, Len(x) - PartialAtEnd(x, Open))
                      ELSE SubSeq(x, 1, Find(x, Open) - 1)
           Stop == {x \in Text : stops(x)}
           size == [x \in Text |-> Len(x)]
           next == [x \in Text |-> IF x \in Stop THEN x ELSE beyond(x)]
           base == [x \in Text |-> upto(x)]
           comb == [p \in Text \X Text |-> upto(p[1]) \o p[2]]
           Body(v, x) == IF Find(x, Open) = 0 THEN SubSeq(x, 1, Len(x) - PartialAtEnd(x, Open))
                         ELSE IF Find(after(x), Close) = 0 THEN SubSeq(x, 1, Find(x, Open) - 1)
                         ELSE SubSeq(x, 1, Find(x, Open) - 1) \o v[beyond(x)]
<1>1. ASSUME NEW x \in Text PROVE upto(x) \in Text
  BY FoundOpen
<1>2. ASSUME NEW x \in Text, ~ stops(x) PROVE beyond(x) \in Text /\ Len(beyond(x)) < Len(x)
  <2>1. after(x) \in Text /\ Len(after(x)) < Len(x)
    BY <1>2, FoundOpen, Sizes
  <2> HIDE DEF after
  <2>2. beyond(x) \in Text /\ Len(beyond(x)) < Len(after(x))
    BY <1>2, <2>1, FoundClose, Sizes
  <2> HIDE DEF beyond
  <2>3. Len(x) \in Nat /\ Len(after(x)) \in Nat /\ Len(beyond(x)) \in Nat
    BY <2>1, <2>2 DEF Text
  <2> QED
    BY <2>1, <2>2, <2>3
<1> HIDE DEF after, beyond, upto
<1>3. size \in [Text -> Nat] /\ next \in [Text -> Text] /\ base \in [Text -> Text]
  <2>1. \A x \in Text : Len(x) \in Nat
    BY DEF Text
  <2> QED
    BY <1>1, <1>2, <2>1
<1>4. comb \in [Text \X Text -> Text]
  <2>1. \A x, y \in Text : x \o y \in Text
    BY DEF Text
  <2> QED
    BY <1>1, <2>1
<1>5. \A x \in Text : x \notin Stop => size[next[x]] < size[x]
  BY <1>2
<1>6. PICK F \in [Text -> Text] :
        \A x \in Text : F[x] = IF x \in Stop THEN base[x] ELSE comb[<<x, F[next[x]]>>]
  <2> HIDE DEF Stop, size, next, base, comb
  <2> QED
    <3>1. Recursive(Text, Text, Stop, size, next, base, comb)
      BY <1>3, <1>4, <1>5 DEF Recursive
    <3> QED
      BY <3>1, Recursion
<1>7. ASSUME NEW x \in Text PROVE F[x] = Body(F, x)
  <2>1. CASE stops(x)
    BY <1>6, <2>1 DEF upto
  <2>2. CASE ~ stops(x)
    <3>1. F[x] = comb[<<x, F[next[x]]>>] /\ next[x] = beyond(x) /\ F[beyond(x)] \in Text
      BY <1>2, <1>6, <2>2
    <3>2. F[x] = upto(x) \o F[beyond(x)]
      BY <3>1
    <3> QED
      BY <2>2, <3>2 DEF upto
  <2> QED
    BY <2>1, <2>2
<1>8. F = [x \in Text |-> Body(F, x)]
  <2>1. F = [x \in Text |-> F[x]]
    OBVIOUS
  <2> HIDE DEF Body
  <2> QED
    BY <1>7, <2>1
<1>9. Visible = CHOOSE v : v = [x \in Text |-> Body(v, x)]
  BY DEF Visible, Text, after, beyond
<1>10. Visible = [x \in Text |-> Body(Visible, x)]
  <2> HIDE DEF Body
  <2> QED
    BY <1>8, <1>9
<1>11. ASSUME NEW x \in Text PROVE Visible[x] = IF stops(x) THEN upto(x) ELSE upto(x) \o Visible[beyond(x)]
  <2>1. Visible[x] = Body(Visible, x)
    <3> HIDE DEF Body
    <3> QED
      BY <1>10
  <2> QED
    BY <2>1 DEF upto
<1> HIDE DEF stops
<1>12. \A x \in Text : Visible[x] \in Text
  <2> DEFINE Good == {x \in Text : Visible[x] \in Text}
  <2>1. ASSUME NEW x \in Text, \A y \in Text : size[y] < size[x] => y \in Good
        PROVE  x \in Good
    <3>1. CASE stops(x)
      BY <1>1, <1>11, <3>1
    <3>2. CASE ~ stops(x)
      <4>1. beyond(x) \in Good
        BY <1>2, <2>1, <3>2
      <4>2. upto(x) \in Seq(Symbols) /\ Visible[beyond(x)] \in Seq(Symbols)
        BY <1>1, <4>1 DEF Text
      <4>3. upto(x) \o Visible[beyond(x)] \in Text
        BY <4>2 DEF Text
      <4> QED
        BY <1>11, <3>2, <4>3
    <3> QED
      BY <3>1, <3>2
  <2>2. Text \subseteq Good
    <3> HIDE DEF Good, size
    <3> QED
      BY <1>3, <2>1, Descent
  <2> QED
    BY <2>2
<1>13. ASSUME NEW x \in Text PROVE Inside(x) \in Text
  <2>1. Find(x, Close) # 0 => From(x, Find(x, Close) + 4) \in Text
    BY FoundClose
  <2> QED
    BY <1>12, <2>1, Sizes DEF Inside, Text
<1>14. Find(s, Open) = 0 => Visible[s] = SubSeq(s, 1, Len(s) - PartialAtEnd(s, Open))
  BY <1>11 DEF stops, upto
<1>15. ASSUME Find(s, Open) # 0
       PROVE  Visible[s] = SubSeq(s, 1, Find(s, Open) - 1) \o Inside(From(s, Find(s, Open) + 3))
  <2>1. after(s) = From(s, Find(s, Open) + 3) /\ after(s) \in Text
    BY <1>15, FoundOpen, Sizes DEF after
  <2>2. upto(s) = SubSeq(s, 1, Find(s, Open) - 1) /\ upto(s) \in Seq(Symbols)
    BY <1>1, <1>15 DEF upto, Text
  <2>3. CASE Find(after(s), Close) = 0
    <3>1. Visible[s] = upto(s) /\ Inside(after(s)) = <<>>
      BY <1>11, <2>3 DEF stops, Inside
    <3>2. upto(s) \o <<>> = upto(s)
      BY <2>2, ConcatEmptySeq
    <3> QED
      BY <2>1, <2>2, <3>1, <3>2
  <2>4. CASE Find(after(s), Close) # 0
    <3>1. Inside(after(s)) = Visible[beyond(s)]
      BY <2>4 DEF Inside, beyond
    <3> QED
      BY <1>11, <1>15, <2>1, <2>2, <2>4, <3>1 DEF stops
  <2> QED
    BY <2>3, <2>4
<1> QED
  BY <1>12, <1>13, <1>14, <1>15

\* Text in front of all tags, cut or whole, is visible.
LEMMA VisibleSkip ==
  ASSUME NEW u \in Text, NEW s \in Text, \A i \in 1..Len(u) : ~ StartsAt(u \o s, Open, i),
         PartialAtEnd(u \o s, Open) = PartialAtEnd(s, Open)
  PROVE  Visible[u \o s] = u \o Visible[s]
<1> DEFINE w == u \o s
           n == Find(s, Open)
<1>1. /\ u \in Seq(Symbols) /\ s \in Seq(Symbols) /\ w \in Text
      /\ Len(u) \in Nat /\ Len(s) \in Nat /\ Len(w) = Len(u) + Len(s)
  BY CutFirst DEF Text
<1>2. Find(w, Open) = IF n = 0 THEN 0 ELSE Len(u) + n
  BY <1>1, FindLater
<1>3. CASE n = 0
  <2>1. PICK j \in 1..(Len(s) + 1) : j - 1 = Len(s) - PartialAtEnd(s, Open)
    <3>1. PartialAtEnd(s, Open) \in 0..Len(s)
      BY <1>1, PartialTags
    <3>2. Len(s) - PartialAtEnd(s, Open) + 1 \in 1..(Len(s) + 1)
      BY <1>1, <3>1
    <3> QED
      BY <1>1, <3>1, <3>2
  <2>2. Visible[s] = SubSeq(s, 1, j - 1)
    BY <1>3, <2>1, VisibleIs
  <2>3. Len(w) - PartialAtEnd(w, Open) = Len(u) + j - 1
    <3>1. PartialAtEnd(w, Open) = PartialAtEnd(s, Open) /\ PartialAtEnd(s, Open) \in 0..Len(s)
      BY <1>1, PartialTags
    <3> HIDE DEF w
    <3> QED
      BY <1>1, <2>1, <3>1
  <2>4. Visible[w] = SubSeq(w, 1, Len(w) - PartialAtEnd(w, Open))
    <3> HIDE DEF w
    <3> QED
      BY <1>1, <1>2, <1>3, VisibleIs
  <2>5. SubSeq(w, 1, Len(u) + j - 1) = u \o SubSeq(s, 1, j - 1)
    BY <1>1, CutSecond
  <2> QED
    BY <2>2, <2>3, <2>4, <2>5
<1>4. CASE n # 0
  <2>1. n \in 1..Len(s) /\ n + 2 =< Len(s)
    <3>1. s \in Seq(Framed) /\ n \in 0..Len(s) /\ StartsAt(s, Open, n)
      BY <1>1, <1>4, FindIs, Sizes
    <3> QED
      BY <1>1, <1>4, <3>1, TagsAre
  <2>2. Visible[w] = SubSeq(w, 1, Len(u) + n - 1) \o Inside(From(w, Len(u) + n + 3))
    <3>1. Find(w, Open) # 0 /\ Find(w, Open) = Len(u) + n
      BY <1>1, <1>2, <1>4, <2>1
    <3>2. Find(w, Open) - 1 = Len(u) + n - 1 /\ Find(w, Open) + 3 = Len(u) + n + 3
      BY <1>1, <2>1, <3>1
    <3> HIDE DEF w, n
    <3>3. Visible[w] = SubSeq(w, 1, Find(w, Open) - 1) \o Inside(From(w, Find(w, Open) + 3))
      BY <1>1, <3>1, VisibleIs
    <3> QED
      BY <3>2, <3>3
  <2>3. Visible[s] = SubSeq(s, 1, n - 1) \o Inside(From(s, n + 3))
    BY <1>4, VisibleIs
  <2>4. n \in 1..(Len(s) + 1) /\ n + 3 \in 1..(Len(s) + 1) /\ Len(u) + (n + 3) = Len(u) + n + 3
    BY <1>1, <2>1
  <2>5. SubSeq(w, 1, Len(u) + n - 1) = u \o SubSeq(s, 1, n - 1)
    BY <1>1, <2>4, CutSecond
  <2>6. From(w, Len(u) + n + 3) = From(s, n + 3)
    BY <1>1, <2>4, CutSecond
  <2>7. SubSeq(s, 1, n - 1) \in Seq(Symbols) /\ Inside(From(s, n + 3)) \in Seq(Symbols)
    BY <1>4, FoundOpen, VisibleIs DEF Text
  <2> DEFINE a == SubSeq(s, 1, n - 1)
             b == Inside(From(s, n + 3))
  <2>8. Visible[w] = (u \o a) \o b /\ Visible[s] = a \o b
    BY <2>2, <2>3, <2>5, <2>6
  <2>9. a \in Seq(Symbols) /\ b \in Seq(Symbols)
    BY <2>7
  <2> HIDE DEF a, b
  <2>10. (u \o a) \o b = u \o (a \o b)
    BY <1>1, <2>9, ConcatAssociative
  <2> QED
    BY <2>8, <2>10
<1> QED
  BY <1>3, <1>4

\* In a think block everything in front of the closing tag is left out.
LEMMA InsideSkip ==
  ASSUME NEW u \in Text, NEW s \in Text, \A i \in 1..Len(u) : ~ StartsAt(u \o s, Close, i)
  PROVE  Inside(u \o s) = Inside(s)
<1> DEFINE w == u \o s
           n == Find(s, Close)
<1>1. /\ u \in Seq(Symbols) /\ s \in Seq(Symbols) /\ w \in Text
      /\ Len(u) \in Nat /\ Len(s) \in Nat /\ Len(w) = Len(u) + Len(s)
  BY CutFirst DEF Text
<1>2. Find(w, Close) = IF n = 0 THEN 0 ELSE Len(u) + n
  BY <1>1, FindLater
<1>3. CASE n = 0
  BY <1>2, <1>3 DEF Inside
<1>4. CASE n # 0
  <2>1. n \in 1..Len(s) /\ n + 3 =< Len(s)
    <3>1. s \in Seq(Framed) /\ n \in 0..Len(s) /\ StartsAt(s, Close, n)
      BY <1>1, <1>4, FindIs, Sizes
    <3> QED
      BY <1>1, <1>4, <3>1, TagsAre
  <2>2. n + 4 \in 1..(Len(s) + 1) /\ Len(u) + (n + 4) = Len(u) + n + 4 /\ Len(u) + n # 0
    BY <1>1, <2>1
  <2>3. From(w, Len(u) + n + 4) = From(s, n + 4)
    BY <1>1, <2>2, CutSecond
  <2> QED
    BY <1>2, <1>4, <2>2, <2>3, Sizes DEF Inside
<1> QED
  BY <1>3, <1>4

-------------------------------------------------------------------------------
(* The filter. *)

\* What is visible of s, inside or outside of a think block.
Rest(inside, s) == IF inside THEN Inside(s) ELSE Visible[s]

\* What the filter leaves in _pending at the end of a chunk.
Held(inside, p) ==
    IF inside THEN Find(p, Close) = 0 ELSE p \in {<<>>, <<"<">>, <<"<", "t">>}

\* Outside, what cannot begin a tag any more is sent and the rest held back.
LEMMA HoldBack ==
  ASSUME NEW p \in Text, NEW r \in Text, Find(p, Open) = 0,
         NEW k, k = Len(p) - PartialAtEnd(p, Open)
  PROVE  /\ k \in 0..Len(p)
         /\ Visible[p \o r] = SubSeq(p, 1, k) \o Visible[From(p, k + 1) \o r]
         /\ Held(FALSE, From(p, k + 1))
<1> DEFINE u == SubSeq(p, 1, k)
           v == From(p, k + 1)
           y == v \o r
           z == p \o r
<1>1. /\ p \in Seq(Symbols) /\ r \in Seq(Symbols) /\ p \in Seq(Framed)
      /\ Len(p) \in Nat /\ Len(r) \in Nat
  BY Sizes DEF Text
<1>2. PartialAtEnd(p, Open) =
        IF Len(p) >= 1 /\ p[Len(p)] = "<" THEN 1
        ELSE IF Len(p) >= 2 /\ p[Len(p) - 1] = "<" /\ p[Len(p)] = "t" THEN 2 ELSE 0
  BY <1>1, PartialTags
<1>3. k \in 0..Len(p)
  BY <1>1, <1>2
<1>4. /\ u \in Seq(Symbols) /\ Len(u) = k /\ v \in Seq(Symbols) /\ Len(v) = Len(p) - k
      /\ \A i \in 1..(Len(p) - k) : v[i] = p[k + i]
      /\ p = u \o v
  <2>1. PICK j \in 0..Len(p) : j = k
    BY <1>3
  <2>2. /\ SubSeq(p, 1, j) \in Seq(Symbols) /\ Len(SubSeq(p, 1, j)) = j
        /\ From(p, j + 1) \in Seq(Symbols) /\ Len(From(p, j + 1)) = Len(p) - j
        /\ \A i \in 1..(Len(p) - j) : From(p, j + 1)[i] = p[j + i]
        /\ p = SubSeq(p, 1, j) \o From(p, j + 1)
    <3> HIDE DEF u, v, y, z
    <3>1. p \in Seq(Symbols)
      BY <1>1
    <3>2. /\ SubSeq(p, 1, j) \in Seq(Symbols) /\ Len(SubSeq(p, 1, j)) = j
          /\ From(p, j + 1) \in Seq(Symbols) /\ Len(From(p, j + 1)) = Len(p) - j
      BY <3>1, Cut
    <3>3. \A i \in 1..(Len(p) - j) : From(p, j + 1)[i] = p[j + i]
      BY <3>1, Cut
    <3>4. p = SubSeq(p, 1, j) \o From(p, j + 1)
      BY <3>1, Cut
    <3> QED
      BY <3>2, <3>3, <3>4
  <2> QED
    BY <2>1, <2>2
<1> HIDE DEF u, v
<1>5. /\ y \in Seq(Symbols) /\ Len(y) = Len(v) + Len(r)
      /\ \A i \in 1..Len(v) : y[i] = v[i]
      /\ \A i \in 1..Len(r) : y[Len(v) + i] = r[i]
  <2>1. v \in Seq(Symbols) /\ r \in Seq(Symbols)
    BY <1>1, <1>4
  <2> QED
    BY <2>1, CutFirst
<1>6. /\ z \in Seq(Symbols) /\ Len(z) = Len(p) + Len(r)
      /\ \A i \in 1..Len(p) : z[i] = p[i]
      /\ \A i \in 1..Len(r) : z[Len(p) + i] = r[i]
  BY <1>1, CutFirst
<1>7. z = u \o y
  BY <1>1, <1>4, ConcatAssociative
<1>8. Held(FALSE, v)
  <2>1. CASE k = Len(p)
    BY <1>1, <1>4, <2>1 DEF Held
  <2>2. CASE k = Len(p) - 1
    <3>1. Len(v) = 1 /\ v[1] = p[k + 1] /\ k + 1 = Len(p)
      BY <1>1, <1>3, <1>4, <2>2
    <3>2. p[Len(p)] = "<"
      BY <1>1, <1>2, <2>2
    <3>3. v = <<"<">>
      BY <1>4, <3>1, <3>2
    <3> QED
      BY <3>3 DEF Held
  <2>3. CASE k = Len(p) - 2
    <3>1. /\ Len(v) = 2 /\ v[1] = p[k + 1] /\ k + 1 = Len(p) - 1
          /\ v[2] = p[k + 2] /\ k + 2 = Len(p)
      BY <1>1, <1>3, <1>4, <2>3
    <3>2. p[Len(p) - 1] = "<" /\ p[Len(p)] = "t"
      BY <1>1, <1>2, <2>3
    <3>3. v[1] = "<" /\ v[2] = "t"
      <4>1. 1 \in 1..(Len(p) - k) /\ 2 \in 1..(Len(p) - k)
        BY <1>1, <1>3, <2>3
      <4>2. v[1] = p[k + 1] /\ v[2] = p[k + 2]
        BY <1>4, <4>1
      <4> QED
        BY <3>1, <3>2, <4>2
    <3>4. v = <<"<", "t">>
      <4> DEFINE w == <<"<", "t">>
      <4>1. w \in Seq(Symbols) /\ Len(w) = 2 /\ w[1] = "<" /\ w[2] = "t"
        BY DEF Symbols
      <4> HIDE DEF w
      <4>2. v \in Seq(Symbols) /\ Len(v) = 2
        BY <1>4, <3>1
      <4>3. \A i \in 1..Len(v) : v[i] = w[i]
        BY <3>3, <4>1, <4>2
      <4>4. v = w
        BY <4>1, <4>2, <4>3, SeqEqual
      <4> QED
        BY <4>4 DEF w
    <3> QED
      BY <3>4 DEF Held
  <2>4. k = Len(p) \/ k = Len(p) - 1 \/ k = Len(p) - 2
    <3>1. PartialAtEnd(p, Open) \in 0..2
      BY <1>2
    <3> QED
      BY <1>1, <3>1
  <2> QED
    BY <2>1, <2>2, <2>3, <2>4
<1>9. z \in Seq(Framed) /\ y \in Seq(Framed)
  BY <1>5, <1>6, Sizes DEF Text
<1> HIDE DEF y, z
<1>14. /\ k \in Nat /\ k =< Len(p) /\ Len(p) - k =< 2 /\ Len(p) - k = PartialAtEnd(p, Open)
       /\ Len(y) = Len(p) - k + Len(r) /\ Len(z) = Len(p) + Len(r)
       /\ Len(y) \in Nat /\ Len(z) \in Nat /\ Len(z) = k + Len(y)
  <2>1. PartialAtEnd(p, Open) \in 0..2
    BY <1>2
  <2>2. Len(y) = Len(v) + Len(r) /\ Len(z) = Len(p) + Len(r) /\ Len(v) = Len(p) - k
    BY <1>4, <1>5, <1>6
  <2>3. Len(p) \in Nat /\ Len(r) \in Nat /\ k \in 0..Len(p)
    BY <1>1, <1>3
  <2> QED
    BY <2>1, <2>2, <2>3
<1>10. ASSUME NEW i \in 1..Len(u), StartsAt(z, Open, i) PROVE FALSE
  <2>1. i \in 1..Len(p) /\ i \in 1..Len(z) /\ i =< k
    BY <1>1, <1>3, <1>4, <1>6
  <2>2. i + 2 =< Len(z) /\ z[i] = "<" /\ z[i + 1] = "t" /\ z[i + 2] = ">"
    BY <1>9, <1>10, <2>1, TagsAre
  <2>3. ~ StartsAt(p, Open, i)
    BY <1>1, <2>1, FindIs
  <2>4. CASE i + 2 =< Len(p)
    <3>1. p[i] = "<" /\ p[i + 1] = "t" /\ p[i + 2] = ">"
      BY <1>1, <1>6, <2>1, <2>2, <2>4
    <3> QED
      BY <1>1, <2>1, <2>3, <2>4, <3>1, TagsAre
  <2>5. CASE i = Len(p) - 1
    <3>1. Len(p) >= 2 /\ p[Len(p) - 1] = "<" /\ p[Len(p)] = "t"
      <4>1. i + 1 = Len(p) /\ i + 1 \in 1..Len(p)
        BY <1>1, <2>1, <2>5
      <4>2. z[i] = p[i] /\ z[i + 1] = p[i + 1]
        BY <1>6, <2>1, <4>1
      <4> QED
        BY <1>1, <2>1, <2>2, <2>5, <4>1, <4>2
    <3>2. k = Len(p) - 2
      BY <1>1, <1>2, <3>1
    <3> QED
      BY <1>1, <2>1, <2>5, <3>2
  <2>6. CASE i = Len(p)
    <3>1. Len(p) >= 1 /\ p[Len(p)] = "<"
      BY <1>1, <1>6, <2>1, <2>2, <2>6
    <3>2. k = Len(p) - 1
      BY <1>1, <1>2, <3>1
    <3> QED
      BY <1>1, <2>1, <2>6, <3>2
  <2> QED
    BY <1>1, <2>1, <2>4, <2>5, <2>6
<1>11. PartialAtEnd(z, Open) = PartialAtEnd(y, Open)
  <2>1. /\ PartialAtEnd(z, Open) =
              IF Len(z) >= 1 /\ z[Len(z)] = "<" THEN 1
              ELSE IF Len(z) >= 2 /\ z[Len(z) - 1] = "<" /\ z[Len(z)] = "t" THEN 2 ELSE 0
        /\ PartialAtEnd(y, Open) =
              IF Len(y) >= 1 /\ y[Len(y)] = "<" THEN 1
              ELSE IF Len(y) >= 2 /\ y[Len(y) - 1] = "<" /\ y[Len(y)] = "t" THEN 2 ELSE 0
    BY <1>5, <1>6, PartialTags
  <2>2. Len(z) = k + Len(y) /\ k \in Nat /\ Len(y) \in Nat
    BY <1>14
  <2>3. \A i \in 1..Len(y) : z[k + i] = y[i]
    <3>1. y \in Seq(Symbols) /\ u \in Seq(Symbols) /\ Len(u) = k
      BY <1>4, <1>5
    <3>2. \A i \in 1..Len(y) : (u \o y)[Len(u) + i] = y[i]
      BY <3>1, CutFirst
    <3> QED
      BY <1>7, <3>1, <3>2
  <2>4. CASE Len(y) = 0
    <3>1. k = Len(p) /\ Len(r) = 0 /\ Len(z) = Len(p)
      BY <1>1, <1>14, <2>4
    <3>2. PartialAtEnd(p, Open) = 0
      BY <1>1, <1>2, <3>1
    <3>3. /\ Len(p) >= 1 => z[Len(p)] = p[Len(p)]
          /\ Len(p) >= 2 => z[Len(p) - 1] = p[Len(p) - 1]
      BY <1>1, <1>6
    <3> QED
      BY <1>1, <1>2, <2>1, <2>4, <3>1, <3>2, <3>3
  <2>5. CASE Len(y) = 1
    <3>1. Len(z) = k + 1 /\ z[k + 1] = y[1] /\ Len(z) - 1 = k
      BY <2>2, <2>3, <2>5
    <3>2. ASSUME k >= 1, z[k] = "<", z[k + 1] = "t" PROVE FALSE
      <4>1. p[k] = "<" /\ z[k] = p[k]
        BY <1>1, <1>3, <1>6, <3>2
      <4>2. CASE k = Len(p)
        BY <1>1, <1>2, <4>1, <4>2, <3>2
      <4>3. CASE k = Len(p) - 1
        <5>1. z[k + 1] = p[k + 1] /\ Len(p) >= 2
          BY <1>1, <1>3, <1>6, <3>2, <4>3
        <5>2. PartialAtEnd(p, Open) = 1
          BY <1>1, <1>2, <4>3
        <5>3. p[k + 1] = "<"
          BY <1>1, <1>2, <5>2, <4>3
        <5> QED
          BY <5>1, <5>3, <3>2
      <4>4. Len(p) - k =< 1
        <5>1. \A a, b \in Nat : 1 = a + b => a =< 1
          OBVIOUS
        <5>2. Len(p) - k \in Nat /\ Len(r) \in Nat
          BY <1>1, <1>14
        <5>3. 1 = (Len(p) - k) + Len(r)
          BY <1>14, <2>5
        <5> QED
          BY <5>1, <5>2, <5>3
      <4> QED
        BY <1>1, <1>3, <4>2, <4>3, <4>4
    <3> QED
      BY <2>1, <2>2, <2>5, <3>1, <3>2
  <2>6. CASE Len(y) >= 2
    <3>1. /\ z[Len(z)] = y[Len(y)] /\ z[Len(z) - 1] = y[Len(y) - 1]
          /\ Len(z) >= 2
      <4>1. /\ k + Len(y) = Len(z) /\ k + (Len(y) - 1) = Len(z) - 1
            /\ Len(y) \in 1..Len(y) /\ Len(y) - 1 \in 1..Len(y)
        BY <2>2, <2>6
      <4>2. z[k + Len(y)] = y[Len(y)] /\ z[k + (Len(y) - 1)] = y[Len(y) - 1]
        BY <2>3, <4>1
      <4> QED
        BY <2>2, <2>6, <4>1, <4>2
    <3> QED
      BY <2>1, <2>2, <2>6, <3>1
  <2> QED
    <3>1. \A n \in Nat : n = 0 \/ n = 1 \/ n >= 2
      OBVIOUS
    <3>2. Len(y) \in Nat
      BY <2>2
    <3> QED
      BY <3>1, <3>2, <2>4, <2>5, <2>6
<1>12. Visible[z] = u \o Visible[y]
  BY <1>4, <1>5, <1>7, <1>10, <1>11, VisibleSkip DEF Text
<1> QED
  BY <1>3, <1>8, <1>12 DEF u, v, y, z

\* Inside, what cannot begin the closing tag any more is dropped.
LEMMA DropInside ==
  ASSUME NEW p \in Text, NEW r \in Text, Find(p, Close) = 0, PartialAtEnd(p, Close) = 0
  PROVE  Inside(p \o r) = Inside(r)
<1> DEFINE z == p \o r
<1>1. /\ p \in Seq(Symbols) /\ r \in Seq(Symbols) /\ p \in Seq(Framed) /\ z \in Seq(Framed)
      /\ Len(p) \in Nat /\ Len(r) \in Nat
  BY Sizes DEF Text
<1>2. Len(z) = Len(p) + Len(r) /\ \A i \in 1..Len(p) : z[i] = p[i]
  BY <1>1, CutFirst
<1>3. /\ ~ (Len(p) >= 1 /\ p[Len(p)] = "<")
      /\ ~ (Len(p) >= 2 /\ p[Len(p) - 1] = "<" /\ p[Len(p)] = "/")
      /\ ~ (Len(p) >= 3 /\ p[Len(p) - 2] = "<" /\ p[Len(p) - 1] = "/" /\ p[Len(p)] = "t")
  BY <1>1, PartialTags
<1> HIDE DEF z
<1>4. ASSUME NEW i \in 1..Len(p), StartsAt(z, Close, i) PROVE FALSE
  <2>1. i + 3 =< Len(z) /\ z[i] = "<" /\ z[i + 1] = "/" /\ z[i + 2] = "t" /\ z[i + 3] = ">"
    <3>1. i \in 1..Len(z)
      BY <1>1, <1>2
    <3> QED
      BY <1>1, <1>4, <3>1, TagsAre
  <2>2. ~ StartsAt(p, Close, i)
    BY <1>1, FindIs
  <2>3. CASE i + 3 =< Len(p)
    <3>1. p[i] = "<" /\ p[i + 1] = "/" /\ p[i + 2] = "t" /\ p[i + 3] = ">"
      BY <1>1, <1>2, <2>1, <2>3
    <3> QED
      BY <1>1, <2>2, <2>3, <3>1, TagsAre
  <2>4. CASE i = Len(p) - 2
    BY <1>1, <1>2, <1>3, <2>1, <2>4
  <2>5. CASE i = Len(p) - 1
    BY <1>1, <1>2, <1>3, <2>1, <2>5
  <2>6. CASE i = Len(p)
    BY <1>1, <1>2, <1>3, <2>1, <2>6
  <2> QED
    BY <1>1, <2>3, <2>4, <2>5, <2>6
<1> QED
  BY <1>4, InsideSkip DEF z

\* What has been and what will be sent of the text, with r still to come.
Sent(f, r) == f.emit \o Rest(f.think, f.pending \o r)

\* A state of the loop, by its parts.
Parts(g, t, q, e, m) ==
    /\ t \in BOOLEAN /\ q \in Text /\ e \in Text /\ m \in BOOLEAN
    /\ g = [think |-> t, pending |-> q, emit |-> e, more |-> m]

\* What such a state is, and what it sends.
Sends(g, t, q, e, m, r) ==
    /\ g \in Scan /\ g.think = t /\ g.pending = q /\ g.emit = e /\ g.more = m
    /\ t => Sent(g, r) = e \o Inside(q \o r)
    /\ ~ t => Sent(g, r) = e \o Visible[q \o r]

\* The parts tell what it sends.
LEMMA ScanIs ==
  ASSUME NEW g, NEW t, NEW q, NEW e, NEW m, Parts(g, t, q, e, m)
  PROVE  \A r : Sends(g, t, q, e, m, r)
<1> TAKE r
<1>1. g.think = t /\ g.pending = q /\ g.emit = e /\ g.more = m
  BY DEF Parts
<1>2. g \in Scan
  BY DEF Parts, Scan, Text
<1>3. Sent(g, r) = e \o Rest(t, q \o r)
  BY <1>1 DEF Sent
<1>4. t => Rest(t, q \o r) = Inside(q \o r)
  BY DEF Rest
<1>5. ~ t => Rest(t, q \o r) = Visible[q \o r]
  BY DEF Rest
<1> QED
  BY <1>1, <1>2, <1>3, <1>4, <1>5 DEF Sends

\* Parentheses of texts, and the empty one.
Regroups(a, b, c) ==
    (a \o b) \o c = a \o (b \o c) /\ a \o b \in Text /\ <<>> \o a = a /\ a \o <<>> = a

\* Texts are put together in any order.
LEMMA Regroup ==
  ASSUME NEW a \in Text, NEW b \in Text, NEW c \in Text
  PROVE  Regroups(a, b, c)
<1>1. a \in Seq(Symbols) /\ b \in Seq(Symbols) /\ c \in Seq(Symbols)
  BY DEF Text
<1>2. (a \o b) \o c = a \o (b \o c)
  BY <1>1, ConcatAssociative
<1>3. <<>> \o a = a /\ a \o <<>> = a
  BY <1>1, ConcatEmptySeq
<1>4. a \o b \in Text
  BY <1>1 DEF Text
<1> QED
  BY <1>2, <1>3, <1>4 DEF Regroups

\* A round sends nothing but what is visible, and loses nothing of it.
LEMMA PassKeeps ==
  ASSUME NEW f \in Scan, f.more, NEW r \in Text
  PROVE  /\ Pass(f) \in Scan
         /\ Sent(Pass(f), r) = Sent(f, r)
         /\ ~ Pass(f).more => Held(Pass(f).think, Pass(f).pending)
         /\ Pass(f).more => Len(Pass(f).pending) < Len(f.pending)
         /\ ~ Pass(f).more => Len(Pass(f).pending) =< Len(f.pending)
<1> DEFINE g == Pass(f)
           Good == /\ g \in Scan
                   /\ Sent(g, r) = Sent(f, r)
                   /\ ~ g.more => Held(g.think, g.pending)
                   /\ g.more => Len(g.pending) < Len(f.pending)
                   /\ ~ g.more => Len(g.pending) =< Len(f.pending)
<1>1. PICK p \in Text, e \in Text :
        /\ f.pending = p /\ f.emit = e /\ f.think \in BOOLEAN
        /\ f = [think |-> f.think, pending |-> p, emit |-> e, more |-> TRUE]
  BY DEF Scan, Text
<1>2. /\ p \in Seq(Symbols) /\ p \in Seq(Framed) /\ r \in Seq(Symbols)
      /\ Len(p) \in Nat /\ Len(r) \in Nat /\ Len(f.pending) = Len(p)
      /\ Open \in Seq(Symbols) /\ Close \in Seq(Symbols)
  BY <1>1, Sizes DEF Text, Open, Close, Symbols
<1>3. /\ f.think => Sent(f, r) = e \o Inside(p \o r)
      /\ ~ f.think => Sent(f, r) = e \o Visible[p \o r]
  <2>1. Parts(f, f.think, p, e, TRUE)
    BY <1>1 DEF Parts
  <2>2. Sends(f, f.think, p, e, TRUE, r)
    BY <2>1, ScanIs
  <2> QED
    BY <2>1, <2>2 DEF Sends
<1>4. CASE p = <<>>
  <2>1. g = [think |-> f.think, pending |-> p, emit |-> e, more |-> FALSE]
    BY <1>1, <1>4 DEF Pass
  <2>2. Find(p, Close) = 0
    <3>1. Find(p, Close) \in 0..Len(p)
      BY <1>2, FindIs
    <3> QED
      BY <1>4, <3>1
  <2> HIDE DEF g
  <2>3. /\ g \in Scan /\ g.think = f.think /\ g.pending = p /\ g.emit = e /\ g.more = FALSE
    <3>1. Parts(g, f.think, p, e, FALSE)
      BY <1>1, <2>1 DEF Parts
    <3>2. Sends(g, f.think, p, e, FALSE, r)
      BY <3>1, ScanIs
    <3> QED
      BY <3>1, <3>2 DEF Sends
  <2>4. Sent(g, r) = Sent(f, r)
    BY <1>1, <2>3 DEF Sent
  <2>5. Held(f.think, p)
    BY <1>4, <2>2 DEF Held
  <2>6. Good
    BY <1>1, <1>2, <2>3, <2>4, <2>5
  <2> QED
    BY <2>6 DEF g
<1>5. CASE p # <<>> /\ f.think /\ Find(p, Close) # 0
  <2>1. Find(p, Close) > 0 /\ Find(p, Close) \in Nat
    BY <1>2, <1>5, FoundClose
  <2>2. PICK j \in 1..(Len(p) + 1) : j = Find(p, Close) + 4
    <3>1. Find(p, Close) \in 0..Len(p) /\ StartsAt(p, Close, Find(p, Close))
      BY <1>2, <1>5, FindIs
    <3>2. Find(p, Close) + 3 =< Len(p)
      BY <1>2, <1>5, <3>1, TagsAre
    <3> QED
      BY <1>2, <2>1, <3>1, <3>2
  <2> DEFINE q == From(p, j)
  <2>3. q \in Text /\ q \in Seq(Symbols) /\ Len(q) < Len(p)
    BY <1>5, <2>2, FoundClose DEF Text
  <2>4. g = [think |-> FALSE, pending |-> q, emit |-> e, more |-> TRUE]
    BY <1>1, <1>5, <2>1, <2>2, Sizes DEF Pass
  <2>5. From(p \o r, j) = q \o r
    <3>1. \A i \in 1..(Len(p) + 1) : From(p \o r, i) = From(p, i) \o r
      BY <1>2, CutFirst
    <3> QED
      BY <3>1
  <2>6. Find(p \o r, Close) = Find(p, Close)
    BY <1>2, <1>5, FindFirst
  <2> HIDE DEF g, q
  <2>7. Inside(p \o r) = Visible[q \o r]
    BY <1>5, <2>2, <2>5, <2>6, Sizes DEF Inside
  <2>8. /\ g \in Scan /\ g.think = FALSE /\ g.pending = q /\ g.more = TRUE
        /\ Sent(g, r) = e \o Visible[q \o r]
    <3>1. Parts(g, FALSE, q, e, TRUE)
      BY <2>3, <2>4 DEF Parts
    <3>2. Sends(g, FALSE, q, e, TRUE, r)
      BY <3>1, ScanIs
    <3> QED
      BY <3>1, <3>2 DEF Sends
  <2>9. Good
    BY <1>2, <1>3, <1>5, <2>3, <2>7, <2>8
  <2> QED
    BY <2>9 DEF g
<1>6. CASE p # <<>> /\ ~ f.think /\ Find(p, Open) # 0
  <2>1. Find(p, Open) > 0 /\ Find(p, Open) \in Nat
    BY <1>2, <1>6, FoundOpen
  <2>2. PICK j \in 1..(Len(p) + 1), k \in 0..Len(p) : j = Find(p, Open) + 3 /\ k = Find(p, Open) - 1
    <3>1. Find(p, Open) \in 0..Len(p) /\ StartsAt(p, Open, Find(p, Open))
      BY <1>2, <1>6, FindIs
    <3>2. Find(p, Open) + 2 =< Len(p)
      BY <1>2, <1>6, <3>1, TagsAre
    <3>3. Find(p, Open) + 3 \in 1..(Len(p) + 1) /\ Find(p, Open) - 1 \in 0..Len(p)
      BY <1>2, <2>1, <3>1, <3>2
    <3> QED
      BY <3>3
  <2> DEFINE q == From(p, j)
             u == SubSeq(p, 1, k)
  <2>3. q \in Text /\ q \in Seq(Symbols) /\ Len(q) < Len(p) /\ u \in Text
    BY <1>6, <2>2, FoundOpen DEF Text
  <2>4. g = [think |-> TRUE, pending |-> q, emit |-> e \o u, more |-> TRUE]
    BY <1>1, <1>6, <2>1, <2>2, Sizes DEF Pass
  <2>5. From(p \o r, j) = q \o r
    <3>1. \A i \in 1..(Len(p) + 1) : From(p \o r, i) = From(p, i) \o r
      BY <1>2, CutFirst
    <3> QED
      BY <3>1
  <2>6. SubSeq(p \o r, 1, k) = u
    <3>1. \A i \in 0..Len(p) : SubSeq(p \o r, 1, i) = SubSeq(p, 1, i)
      BY <1>2, CutFirst
    <3> QED
      BY <3>1
  <2>7. Find(p \o r, Open) = Find(p, Open)
    BY <1>2, <1>6, FindFirst
  <2> HIDE DEF g, q, u
  <2>8. p \o r \in Text /\ q \o r \in Text /\ e \o u \in Text
    <3>1. p \o r \in Text /\ q \o r \in Text
      BY <2>3, Regroup DEF Regroups
    <3>2. e \o u \in Text
      BY <2>3, Regroup DEF Regroups
    <3> QED
      BY <3>1, <3>2
  <2>9. Visible[p \o r] = u \o Inside(q \o r)
    <3> DEFINE w == p \o r
    <3>1. w \in Text /\ Find(w, Open) = Find(p, Open) /\ Find(w, Open) # 0
      BY <1>6, <2>7, <2>8
    <3>2. SubSeq(w, 1, k) = u /\ From(w, j) = q \o r
      BY <2>5, <2>6
    <3> HIDE DEF w
    <3>3. Visible[w] = SubSeq(w, 1, Find(w, Open) - 1) \o Inside(From(w, Find(w, Open) + 3))
      BY <3>1, VisibleIs
    <3>4. Visible[w] = SubSeq(w, 1, k) \o Inside(From(w, j))
      BY <2>2, <3>1, <3>3
    <3> QED
      BY <3>2, <3>4 DEF w
  <2>10. Inside(q \o r) \in Text
    BY <2>8, VisibleIs
  <2>11. /\ g \in Scan /\ g.think = TRUE /\ g.pending = q /\ g.more = TRUE
         /\ Sent(g, r) = (e \o u) \o Inside(q \o r)
    <3>1. Parts(g, TRUE, q, e \o u, TRUE)
      BY <2>3, <2>4, <2>8 DEF Parts
    <3>2. Sends(g, TRUE, q, e \o u, TRUE, r)
      BY <3>1, ScanIs
    <3> QED
      BY <3>1, <3>2 DEF Sends
  <2>12. (e \o u) \o Inside(q \o r) = e \o (u \o Inside(q \o r))
    <3>1. Regroups(e, u, Inside(q \o r))
      BY <2>3, <2>10, Regroup
    <3> QED
      BY <3>1 DEF Regroups
  <2>13. Good
    BY <1>2, <1>3, <1>6, <2>3, <2>9, <2>11, <2>12
  <2> QED
    BY <2>13 DEF g
<1>7. CASE p # <<>> /\ f.think /\ Find(p, Close) = 0
  <2> DEFINE n == PartialAtEnd(p, Close)
  <2>1. n \in Nat
    BY <1>2, PartialTags
  <2>2. CASE n # 0
    <3>1. g = [think |-> TRUE, pending |-> p, emit |-> e, more |-> FALSE]
      <4>1. n > 0 /\ ~ (Find(p, Close) > 0)
        BY <1>7, <2>1, <2>2
      <4> QED
        BY <1>1, <1>7, <4>1 DEF Pass
    <3> HIDE DEF g
    <3>2. /\ g \in Scan /\ g.think = TRUE /\ g.pending = p /\ g.more = FALSE
          /\ Sent(g, r) = e \o Inside(p \o r)
      <4>1. Parts(g, TRUE, p, e, FALSE)
        BY <3>1 DEF Parts
      <4>2. Sends(g, TRUE, p, e, FALSE, r)
        BY <4>1, ScanIs
      <4> QED
        BY <4>1, <4>2 DEF Sends
    <3>3. Held(TRUE, p)
      BY <1>7 DEF Held
    <3>4. Held(g.think, g.pending)
      BY <3>2, <3>3
    <3>5. Sent(g, r) = Sent(f, r)
      BY <1>3, <1>7, <3>2
    <3>6. Len(g.pending) =< Len(f.pending)
      BY <1>2, <3>2
    <3>7. Good
      BY <3>2, <3>4, <3>5, <3>6
    <3> QED
      BY <3>7 DEF g
  <2>3. CASE n = 0
    <3>1. Len(p) - 0 + 1 = Len(p) + 1 /\ From(p, Len(p) + 1) = <<>>
      BY <1>2 DEF From
    <3>2. g = [think |-> TRUE, pending |-> <<>>, emit |-> e, more |-> FALSE]
      <4>1. ~ (n > 0) /\ ~ (Find(p, Close) > 0)
        BY <1>7, <2>3
      <4> QED
        BY <1>1, <1>7, <2>3, <3>1, <4>1 DEF Pass
    <3>3. Held(TRUE, <<>>)
      <4>1. <<>> \in Seq(Symbols) /\ Len(<<>>) = 0
        OBVIOUS
      <4>2. Find(<<>>, Close) \in 0..Len(<<>>)
        BY <4>1, FindIs
      <4> QED
        BY <4>1, <4>2 DEF Held
    <3>4. <<>> \o r = r /\ <<>> \in Text
      <4>1. <<>> \o r = r
        BY Regroup DEF Regroups
      <4> QED
        BY <4>1 DEF Text
    <3>5. Inside(p \o r) = Inside(r)
      BY <1>7, <2>3, DropInside
    <3> HIDE DEF g
    <3>6. /\ g \in Scan /\ g.think = TRUE /\ g.pending = <<>> /\ g.more = FALSE
          /\ Sent(g, r) = e \o Inside(<<>> \o r)
      <4>1. Parts(g, TRUE, <<>>, e, FALSE)
        BY <3>2, <3>4 DEF Parts
      <4>2. Sends(g, TRUE, <<>>, e, FALSE, r)
        BY <4>1, ScanIs
      <4> QED
        BY <4>1, <4>2 DEF Sends
    <3>7. Len(<<>>) =< Len(p)
      BY <1>2
    <3>8. Good
      BY <1>2, <1>3, <1>7, <3>3, <3>4, <3>5, <3>6, <3>7
    <3> QED
      BY <3>8 DEF g
  <2> QED
    BY <2>2, <2>3
<1>8. CASE p # <<>> /\ ~ f.think /\ Find(p, Open) = 0
  <2> DEFINE k == Len(p) - PartialAtEnd(p, Open)
             q == From(p, k + 1)
             u == SubSeq(p, 1, k)
  <2>1. g = [think |-> FALSE, pending |-> q, emit |-> e \o u, more |-> FALSE]
    <3>1. ~ (Find(p, Open) > 0)
      BY <1>8
    <3> QED
      BY <1>1, <1>8, <3>1 DEF Pass
  <2>2. /\ k \in 0..Len(p)
        /\ Visible[p \o r] = u \o Visible[q \o r]
        /\ Held(FALSE, q)
    BY <1>8, HoldBack
  <2>3. u \in Text /\ q \in Text /\ Len(q) =< Len(p)
    BY <1>2, <2>2 DEF From, Text
  <2> HIDE DEF q, u, k, g
  <2>4. Visible[q \o r] \in Text /\ e \o u \in Text
    <3>1. q \o r \in Text /\ e \o u \in Text
      BY <2>3, Regroup DEF Regroups
    <3> QED
      BY <3>1, VisibleIs
  <2>5. /\ g \in Scan /\ g.think = FALSE /\ g.pending = q /\ g.more = FALSE
        /\ Sent(g, r) = (e \o u) \o Visible[q \o r]
    <3>1. Parts(g, FALSE, q, e \o u, FALSE)
      BY <2>1, <2>3, <2>4 DEF Parts
    <3>2. Sends(g, FALSE, q, e \o u, FALSE, r)
      BY <3>1, ScanIs
    <3> QED
      BY <3>1, <3>2 DEF Sends
  <2>6. (e \o u) \o Visible[q \o r] = e \o (u \o Visible[q \o r])
    <3>1. Regroups(e, u, Visible[q \o r])
      BY <2>3, <2>4, Regroup
    <3> QED
      BY <3>1 DEF Regroups
  <2>7. Good
    BY <1>2, <1>3, <1>8, <2>2, <2>3, <2>5, <2>6
  <2> QED
    BY <2>7 DEF g
<1> QED
  BY <1>1, <1>4, <1>5, <1>6, <1>7, <1>8

\* How much the loop has to do.
Work == [f \in Scan |-> Len(f.pending) + (IF f.more THEN 1 ELSE 0)]

\* A round makes it less.
LEMMA PassEnds ==
  Work \in [Scan -> Nat] /\ \A f \in Scan : f.more => Pass(f) \in Scan /\ Work[Pass(f)] < Work[f]
<1>1. \A f \in Scan : Len(f.pending) \in Nat
  BY DEF Scan
<1>2. ASSUME NEW f \in Scan PROVE Len(f.pending) + (IF f.more THEN 1 ELSE 0) \in Nat
  <2>1. CASE f.more
    BY <1>1, <2>1
  <2>2. CASE ~ f.more
    BY <1>1, <2>2
  <2> QED
    BY <2>1, <2>2
<1>3. Work \in [Scan -> Nat]
  BY <1>2 DEF Work
<1>4. ASSUME NEW f \in Scan, f.more PROVE Pass(f) \in Scan /\ Work[Pass(f)] < Work[f]
  <2>1. <<>> \in Text
    BY DEF Text
  <2> DEFINE g == Pass(f)
  <2>2. /\ g \in Scan
        /\ g.more => Len(g.pending) < Len(f.pending)
        /\ ~ g.more => Len(g.pending) =< Len(f.pending)
    BY <1>4, <2>1, PassKeeps
  <2> HIDE DEF g
  <2>3. Work[f] = Len(f.pending) + 1
    BY <1>4 DEF Work
  <2>4. Len(f.pending) \in Nat /\ Len(g.pending) \in Nat
    BY <1>1, <2>2
  <2>5. CASE g.more
    <3>1. Work[g] = Len(g.pending) + 1
      BY <2>2, <2>5 DEF Work
    <3>2. Work[g] < Work[f]
      BY <2>2, <2>3, <2>4, <2>5, <3>1
    <3> QED
      BY <2>2, <3>2 DEF g
  <2>6. CASE ~ g.more
    <3>1. Work[g] = Len(g.pending) + 0
      BY <2>2, <2>6 DEF Work
    <3>2. Work[g] < Work[f]
      BY <2>2, <2>3, <2>4, <2>6, <3>1
    <3> QED
      BY <2>2, <3>2 DEF g
  <2> QED
    BY <2>5, <2>6
<1> QED
  BY <1>3, <1>4

\* The loop, unfolded once.
LEMMA FilterIs == \A f \in Scan : Filter[f] = IF f.more THEN Filter[Pass(f)] ELSE f
<1> DEFINE Stop == {f \in Scan : ~ f.more}
           next == [f \in Scan |-> IF f.more THEN Pass(f) ELSE f]
           base == [f \in Scan |-> f]
           comb == [p \in Scan \X Scan |-> p[2]]
           Body(v, f) == IF f.more THEN v[Pass(f)] ELSE f
<1>1. Recursive(Scan, Scan, Stop, Work, next, base, comb)
  <2>1. next \in [Scan -> Scan] /\ base \in [Scan -> Scan] /\ comb \in [Scan \X Scan -> Scan]
    BY PassEnds
  <2>2. ASSUME NEW f \in Scan, f \notin Stop PROVE Work[next[f]] < Work[f]
    <3>1. f.more
      BY <2>2
    <3>2. next[f] = Pass(f)
      BY <3>1
    <3> QED
      BY <3>1, <3>2, PassEnds
  <2> HIDE DEF Stop, next, base, comb
  <2> QED
    BY <2>1, <2>2, PassEnds DEF Recursive
<1>2. PICK F \in [Scan -> Scan] :
        \A f \in Scan : F[f] = IF f \in Stop THEN base[f] ELSE comb[<<f, F[next[f]]>>]
  <2> HIDE DEF Stop, next, base, comb
  <2> QED
    BY <1>1, Recursion
<1>3. ASSUME NEW f \in Scan PROVE F[f] = Body(F, f)
  <2>1. CASE f.more
    <3>1. Pass(f) \in Scan /\ F[Pass(f)] \in Scan
      BY <2>1, PassEnds
    <3>2. f \notin Stop /\ next[f] = Pass(f)
      BY <2>1
    <3>3. comb[<<f, F[Pass(f)]>>] = F[Pass(f)]
      BY <3>1
    <3>4. F[f] = comb[<<f, F[Pass(f)]>>]
      <4> HIDE DEF Stop, next, base, comb
      <4> QED
        BY <1>2, <3>2
    <3> QED
      BY <2>1, <3>3, <3>4
  <2>2. CASE ~ f.more
    <3>1. f \in Stop /\ base[f] = f
      BY <2>2
    <3>2. F[f] = base[f]
      <4> HIDE DEF Stop, next, base, comb
      <4> QED
        BY <1>2, <3>1
    <3> QED
      BY <2>2, <3>1, <3>2
  <2> QED
    BY <2>1, <2>2
<1>4. F = [f \in Scan |-> Body(F, f)]
  <2>1. F = [f \in Scan |-> F[f]]
    OBVIOUS
  <2> HIDE DEF Body
  <2> QED
    BY <1>3, <2>1
<1>5. Filter = CHOOSE v : v = [f \in Scan |-> Body(v, f)]
  BY DEF Filter
<1>6. Filter = [f \in Scan |-> Body(Filter, f)]
  <2> HIDE DEF Body
  <2> QED
    BY <1>4, <1>5
<1> QED
  BY <1>6

\* The loop ends; it sends nothing but what is visible and loses nothing of it, and what
\* it leaves in _pending may be the beginning of a tag.
LEMMA FilterKeeps ==
  ASSUME NEW f \in Scan, NEW r \in Text, f.more
  PROVE  /\ Filter[f] \in Scan /\ ~ Filter[f].more
         /\ Sent(Filter[f], r) = Sent(f, r)
         /\ Held(Filter[f].think, Filter[f].pending)
<1> DEFINE Stop == {g \in Scan : ~ g.more}
           next == [g \in Scan |-> Pass(g)]
           P == {g \in Scan : Sent(g, r) = Sent(f, r) /\ (~ g.more => Held(g.think, g.pending))}
<1>1. P \in SUBSET Scan /\ f \in P
  OBVIOUS
<1>2. \A g \in Scan : Filter[g] = IF g \in Stop THEN g ELSE Filter[next[g]]
  BY FilterIs
<1>3. ASSUME NEW g \in P, g \notin Stop PROVE next[g] \in P /\ Work[next[g]] < Work[g]
  <2>1. g \in Scan /\ g.more /\ next[g] = Pass(g)
    BY <1>3
  <2>2. /\ Pass(g) \in Scan /\ Sent(Pass(g), r) = Sent(g, r)
        /\ ~ Pass(g).more => Held(Pass(g).think, Pass(g).pending)
    BY <2>1, PassKeeps
  <2>3. Pass(g) \in P
    BY <2>2
  <2>4. Work[Pass(g)] < Work[g]
    BY <2>1, PassEnds
  <2> QED
    BY <2>1, <2>3, <2>4
<1>4. Filter[f] \in P \cap Stop
  <2> HIDE DEF P, Stop, next
  <2>1. Work \in [Scan -> Nat]
    BY PassEnds
  <2> QED
    BY <1>1, <1>2, <1>3, <2>1, LoopEnds
<1> QED
  BY <1>4

-------------------------------------------------------------------------------
(* The first chunk. *)

\* White space at the beginning ends at the first other symbol.
LEMMA LstripIs ==
  ASSUME NEW s \in Text
  PROVE  /\ \E i \in 1..(Len(s) + 1) :
              /\ \A k \in 1..(i - 1) : s[k] = "nl"
              /\ i =< Len(s) => s[i] # "nl"
         /\ \A i \in 1..(Len(s) + 1) :
              (\A k \in 1..(i - 1) : s[k] = "nl") /\ (i =< Len(s) => s[i] # "nl") => Lstrip(s) = From(s, i)
<1> DEFINE S == {i \in 1..(Len(s) + 1) : i = Len(s) + 1 \/ s[i] # "nl"}
<1>1. Len(s) \in Nat
  BY DEF Text
<1>2. S \in SUBSET Nat /\ Len(s) + 1 \in S
  BY <1>1
<1>3. \A i : i \in S <=> i \in 1..(Len(s) + 1) /\ (i = Len(s) + 1 \/ s[i] # "nl")
  OBVIOUS
<1>4. Lstrip(s) = From(s, Least(S))
  BY DEF Lstrip
<1> HIDE DEF S
<1>5. Least(S) \in S /\ \A j \in S : Least(S) =< j
  BY <1>2, Minimum
<1> DEFINE m == Least(S)
<1>6. m \in 1..(Len(s) + 1) /\ (m = Len(s) + 1 \/ s[m] # "nl") /\ \A j \in S : m =< j
  BY <1>3, <1>5
<1> HIDE DEF m
<1>7. ASSUME NEW k \in 1..(m - 1) PROVE s[k] = "nl"
  <2>1. k \in 1..(Len(s) + 1) /\ k < m
    BY <1>1, <1>6
  <2>2. k \notin S
    BY <1>1, <1>6, <2>1
  <2>3. k # Len(s) + 1
    BY <1>1, <1>6, <2>1
  <2> QED
    BY <1>3, <2>1, <2>2, <2>3
<1>8. m =< Len(s) => s[m] # "nl"
  BY <1>1, <1>6
<1>9. ASSUME NEW i \in 1..(Len(s) + 1), \A k \in 1..(i - 1) : s[k] = "nl", i =< Len(s) => s[i] # "nl"
      PROVE  i = m
  <2>1. i \in S
    BY <1>1, <1>3, <1>9
  <2>2. m =< i
    BY <1>6, <2>1
  <2>3. ASSUME m < i PROVE FALSE
    <3>1. m \in 1..(i - 1) /\ m =< Len(s)
      BY <1>1, <1>6, <2>3
    <3> QED
      BY <1>8, <1>9, <3>1
  <2> QED
    BY <1>1, <1>6, <2>2, <2>3
<1>10. Lstrip(s) = From(s, m)
  BY <1>4 DEF m
<1> QED
  BY <1>6, <1>7, <1>8, <1>9, <1>10

\* What begins with a tag has three symbols.
LEMMA OpensIs ==
  ASSUME NEW s \in Text
  PROVE  StartsAt(s, Open, 1) <=> Len(s) >= 3 /\ s[1] = "<" /\ s[2] = "t" /\ s[3] = ">"
<1>1. s \in Seq(Framed) /\ Len(s) \in Nat /\ s \in Seq(Symbols)
  BY Sizes DEF Text
<1>2. CASE Len(s) >= 1
  <2>1. 1 \in 1..Len(s)
    BY <1>1, <1>2
  <2>2. StartsAt(s, Open, 1) <=> 1 + 2 =< Len(s) /\ s[1] = "<" /\ s[1 + 1] = "t" /\ s[1 + 2] = ">"
    BY <1>1, <2>1, TagsAre
  <2> QED
    BY <1>1, <2>2
<1>3. CASE Len(s) = 0
  <2>1. Len(From(s, 1)) = 0
    BY <1>1, <1>3 DEF From
  <2>2. ~ StartsAt(s, Open, 1)
    BY <2>1, Sizes DEF StartsAt, IsPrefix
  <2> QED
    BY <1>3, <2>2
<1> QED
  BY <1>1, <1>2, <1>3

\* A first chunk that opens a think block decides for the whole text.
LEMMA LstripOpens ==
  ASSUME NEW c \in Text, NEW r \in Text, StartsAt(Lstrip(c), Open, 1)
  PROVE  /\ Lstrip(c) \in Text /\ From(Lstrip(c), 4) \in Text
         /\ Lstrip(c \o r) = Lstrip(c) \o r
         /\ StartsAt(Lstrip(c \o r), Open, 1)
         /\ Visible[Lstrip(c \o r)] = Inside(From(Lstrip(c), 4) \o r)
<1>1. c \in Seq(Symbols) /\ r \in Seq(Symbols) /\ Len(c) \in Nat /\ Len(r) \in Nat
  BY DEF Text
<1>2. PICK i \in 1..(Len(c) + 1) :
        /\ \A k \in 1..(i - 1) : c[k] = "nl"
        /\ i =< Len(c) => c[i] # "nl"
        /\ Lstrip(c) = From(c, i)
  BY LstripIs
<1> DEFINE u == From(c, i)
           w == c \o r
<1>3. u \in Text /\ Len(u) = Len(c) - i + 1
  BY <1>1 DEF Text, From
<1>4. /\ w \in Text /\ Len(w) = Len(c) + Len(r)
      /\ \A k \in 1..Len(c) : w[k] = c[k]
      /\ From(w, i) = u \o r
  BY <1>1, CutFirst DEF Text
<1> HIDE DEF u, w
<1>5. Len(u) >= 3 /\ u[1] = "<" /\ u[2] = "t" /\ u[3] = ">"
  <2>1. StartsAt(u, Open, 1)
    BY <1>2 DEF u
  <2> QED
    BY <1>3, <2>1, OpensIs
<1>6. i =< Len(c) /\ i \in 1..(Len(w) + 1) /\ i \in Nat
  BY <1>1, <1>3, <1>4, <1>5
<1>7. Lstrip(w) = u \o r
  <2>1. \A k \in 1..(i - 1) : w[k] = "nl"
    BY <1>1, <1>2, <1>4, <1>6
  <2>2. w[i] # "nl"
    BY <1>1, <1>2, <1>4, <1>6
  <2>3. Lstrip(w) = From(w, i)
    BY <1>4, <1>6, <2>1, <2>2, LstripIs
  <2> QED
    BY <1>4, <2>3
<1> DEFINE z == u \o r
<1>8. /\ z \in Text /\ Len(z) = Len(u) + Len(r) /\ z \in Seq(Framed)
      /\ \A k \in 1..Len(u) : z[k] = u[k]
      /\ \A k \in 1..(Len(u) + 1) : From(z, k) = From(u, k) \o r
  <2>1. u \in Seq(Symbols)
    BY <1>3 DEF Text
  <2>2. z \in Text
    BY <1>3, Regroup DEF Regroups
  <2> QED
    BY <1>1, <2>1, <2>2, CutFirst, Sizes
<1>9. From(u, 4) \in Text
  BY <1>3, <1>5 DEF Text, From
<1> HIDE DEF z
<1>10. Len(u) \in Nat /\ Len(z) >= 3 /\ z[1] = "<" /\ z[2] = "t" /\ z[3] = ">" /\ Len(z) \in Nat
  <2>1. Len(u) \in Nat /\ u \in Seq(Symbols)
    BY <1>3 DEF Text
  <2>2. 1 \in 1..Len(u) /\ 2 \in 1..Len(u) /\ 3 \in 1..Len(u)
    BY <1>5, <2>1
  <2>3. z[1] = u[1] /\ z[2] = u[2] /\ z[3] = u[3]
    BY <1>8, <2>2
  <2> QED
    BY <1>1, <1>5, <1>8, <2>1, <2>3
<1>11. StartsAt(z, Open, 1)
  BY <1>8, <1>10, OpensIs
<1>12. Find(z, Open) = 1
  <2>1. 1 \in 1..Len(z)
    BY <1>10
  <2>2. Find(z, Open) # 0 /\ Find(z, Open) =< 1 /\ Find(z, Open) \in 0..Len(z)
    BY <1>8, <1>11, <2>1, FindIs
  <2> QED
    BY <1>10, <2>2
<1>13. Visible[z] = Inside(From(u, 4) \o r)
  <2>1. Visible[z] = SubSeq(z, 1, Find(z, Open) - 1) \o Inside(From(z, Find(z, Open) + 3))
    BY <1>8, <1>12, VisibleIs
  <2>2. Find(z, Open) - 1 = 0 /\ Find(z, Open) + 3 = 4
    BY <1>12
  <2>3. SubSeq(z, 1, 0) = <<>>
    BY <1>8
  <2>4. From(z, 4) = From(u, 4) \o r
    <3>1. 4 \in 1..(Len(u) + 1)
      BY <1>5, <1>10
    <3> QED
      BY <1>8, <3>1
  <2>5. From(u, 4) \o r \in Text
    BY <1>9, Regroup DEF Regroups
  <2>6. Inside(From(u, 4) \o r) \in Text
    BY <2>5, VisibleIs
  <2>7. <<>> \o Inside(From(u, 4) \o r) = Inside(From(u, 4) \o r)
    BY <2>6, Regroup DEF Regroups
  <2> QED
    BY <2>1, <2>2, <2>3, <2>4, <2>7
<1> QED
  BY <1>2, <1>3, <1>7, <1>9, <1>11, <1>13 DEF u, w, z

\* A chunk comes to what is pending; the first one may lose white space.
LEMMA TakeKeeps ==
  ASSUME think \in BOOLEAN, pending \in Text, fed = 0 => think = FALSE /\ pending = <<>>,
         NEW c \in Text, NEW r \in Text
  PROVE  /\ Take(c) \in Scan /\ Take(c).more
         /\ \/ Sent(Take(c), r) = Rest(think, pending \o (c \o r))
            \/ /\ fed = 0 /\ StartsAt(Lstrip(c \o r), Open, 1)
               /\ Sent(Take(c), r) = Visible[Lstrip(c \o r)]
<1> DEFINE opens == fed = 0 /\ StartsAt(Lstrip(c), Open, 1)
           g == Take(c)
<1>1. <<>> \in Text
  BY DEF Text
<1>2. CASE opens
  <2>1. g = [think |-> TRUE, pending |-> From(Lstrip(c), 4), emit |-> <<>>, more |-> TRUE]
    <3>1. (think \/ opens) = TRUE
      BY <1>2
    <3>2. Len(Open) + 1 = 4
      BY Sizes
    <3> QED
      BY <1>2, <3>1, <3>2 DEF Take
  <2>2. /\ From(Lstrip(c), 4) \in Text /\ StartsAt(Lstrip(c \o r), Open, 1)
        /\ Visible[Lstrip(c \o r)] = Inside(From(Lstrip(c), 4) \o r)
    BY <1>2, LstripOpens
  <2> HIDE DEF g
  <2>3. Parts(g, TRUE, From(Lstrip(c), 4), <<>>, TRUE)
    BY <1>1, <2>1, <2>2 DEF Parts
  <2>4. Sends(g, TRUE, From(Lstrip(c), 4), <<>>, TRUE, r)
    BY <2>3, ScanIs
  <2>5. From(Lstrip(c), 4) \o r \in Text
    BY <2>2, Regroup DEF Regroups
  <2>6. Inside(From(Lstrip(c), 4) \o r) \in Text
    BY <2>5, VisibleIs
  <2>7. <<>> \o Inside(From(Lstrip(c), 4) \o r) = Inside(From(Lstrip(c), 4) \o r)
    BY <2>6, Regroup DEF Regroups
  <2>8. g \in Scan /\ g.more /\ Sent(g, r) = Visible[Lstrip(c \o r)]
    BY <2>2, <2>4, <2>7 DEF Sends
  <2> QED
    BY <1>2, <2>2, <2>8 DEF g
<1>3. CASE ~ opens
  <2>1. g = [think |-> think, pending |-> pending \o c, emit |-> <<>>, more |-> TRUE]
    <3>1. (think \/ opens) = think
      BY <1>3
    <3> QED
      BY <1>3, <3>1 DEF Take
  <2>2. pending \o c \in Text /\ (pending \o c) \o r = pending \o (c \o r) /\ c \o r \in Text
    <3>1. Regroups(pending, c, r) /\ Regroups(c, r, r)
      BY Regroup
    <3> QED
      BY <3>1 DEF Regroups
  <2> HIDE DEF g
  <2>3. Parts(g, think, pending \o c, <<>>, TRUE)
    BY <1>1, <2>1, <2>2 DEF Parts
  <2>4. Sends(g, think, pending \o c, <<>>, TRUE, r)
    BY <2>3, ScanIs
  <2>5. g \in Scan /\ g.more
    BY <2>4 DEF Sends
  <2>6. Sent(g, r) = <<>> \o Rest(think, pending \o (c \o r))
    BY <2>1, <2>2 DEF Sent
  <2>7. pending \o (c \o r) \in Text
    BY <2>2, Regroup DEF Regroups
  <2>8. Rest(think, pending \o (c \o r)) \in Text
    BY <2>7, VisibleIs DEF Rest
  <2>9. <<>> \o Rest(think, pending \o (c \o r)) = Rest(think, pending \o (c \o r))
    BY <2>8, Regroup DEF Regroups
  <2> QED
    BY <2>5, <2>6, <2>9 DEF g
<1> QED
  BY <1>2, <1>3

-------------------------------------------------------------------------------
(* The frames. *)

Bytes == Seq(Framed)

\* What the page shows for a stream: its frames up to the last blank line.
Decode[s \in Bytes] ==
    IF Find(s, Blank) = 0 THEN <<>>
    ELSE Shown(SubSeq(s, 1, Find(s, Blank) - 1)) \o Decode[From(s, Find(s, Blank) + 2)]

\* Parentheses of bytes, and the empty sequence.
Joins(a, b, c) ==
    (a \o b) \o c = a \o (b \o c) /\ a \o b \in Bytes /\ <<>> \o a = a /\ a \o <<>> = a

\* Bytes are put together in any order.
LEMMA Join == ASSUME NEW a \in Bytes, NEW b \in Bytes, NEW c \in Bytes PROVE Joins(a, b, c)
<1>1. a \in Seq(Framed) /\ b \in Seq(Framed) /\ c \in Seq(Framed)
  BY DEF Bytes
<1>2. (a \o b) \o c = a \o (b \o c)
  BY <1>1, ConcatAssociative
<1>3. <<>> \o a = a /\ a \o <<>> = a
  BY <1>1, ConcatEmptySeq
<1>4. a \o b \in Bytes
  BY <1>1 DEF Bytes
<1> QED
  BY <1>2, <1>3, <1>4 DEF Joins

\* A frame shows bytes.
LEMMA ShownIs == ASSUME NEW s \in Bytes PROVE Shown(s) \in Bytes
<1>1. CASE s # <<>> /\ Head(s) = "data:"
  <2> DEFINE t == Tail(s)
  <2>1. t \in Seq(Framed)
    BY <1>1 DEF Bytes
  <2> HIDE DEF t
  <2>2. Len(t) \in Nat /\ \A i \in 1..Len(t) : t[i] \in Framed
    BY <2>1
  <2>3. "nl" \in Framed
    BY DEF Framed, Symbols
  <2>4. Parse(t) \in [1..Len(t) -> Framed]
    BY <2>2, <2>3 DEF Parse
  <2>5. Parse(t) \in Bytes
    BY <2>2, <2>4 DEF Bytes
  <2> QED
    BY <1>1, <2>5 DEF Shown, t
<1>2. CASE ~ (s # <<>> /\ Head(s) = "data:")
  BY <1>2 DEF Shown, Bytes
<1> QED
  BY <1>1, <1>2

\* What is before and after the first blank line.
LEMMA FoundBlank ==
  ASSUME NEW s \in Bytes, Find(s, Blank) # 0
  PROVE  /\ Find(s, Blank) \in 1..Len(s) /\ Find(s, Blank) + 1 =< Len(s)
         /\ StartsAt(s, Blank, Find(s, Blank))
         /\ SubSeq(s, 1, Find(s, Blank) - 1) \in Bytes
         /\ From(s, Find(s, Blank) + 2) \in Bytes
         /\ Len(From(s, Find(s, Blank) + 2)) = Len(s) - Find(s, Blank) - 1
         /\ Len(From(s, Find(s, Blank) + 2)) < Len(s)
<1>1. s \in Seq(Framed) /\ Len(s) \in Nat
  BY DEF Bytes
<1>2. Find(s, Blank) \in 1..Len(s) /\ StartsAt(s, Blank, Find(s, Blank))
  BY <1>1, FindIs
<1>3. Find(s, Blank) + 1 =< Len(s)
  BY <1>1, <1>2, TagsAre
<1> QED
  BY <1>1, <1>2, <1>3 DEF Bytes, From

\* The frame and the rest of a stream.
Frame(s) == Shown(SubSeq(s, 1, Find(s, Blank) - 1))
After(s) == From(s, Find(s, Blank) + 2)

\* Decode, unfolded once.
LEMMA DecodeIs ==
  \A s \in Bytes :
    /\ Decode[s] \in Bytes
    /\ Find(s, Blank) = 0 => Decode[s] = <<>>
    /\ Find(s, Blank) # 0 => Decode[s] = Frame(s) \o Decode[After(s)]
<1> DEFINE Stop == {s \in Bytes : Find(s, Blank) = 0}
           size == [s \in Bytes |-> Len(s)]
           next == [s \in Bytes |-> IF s \in Stop THEN s ELSE After(s)]
           base == [s \in Bytes |-> <<>>]
           comb == [p \in Bytes \X Bytes |-> IF p[1] \in Stop THEN <<>> ELSE Frame(p[1]) \o p[2]]
           Body(v, s) == IF Find(s, Blank) = 0 THEN <<>> ELSE Frame(s) \o v[After(s)]
<1>1. ASSUME NEW s \in Bytes, s \notin Stop
      PROVE  Frame(s) \in Bytes /\ After(s) \in Bytes /\ Len(After(s)) < Len(s)
  BY <1>1, FoundBlank, ShownIs DEF Frame, After
<1>2. Recursive(Bytes, Bytes, Stop, size, next, base, comb)
  <2>1. size \in [Bytes -> Nat]
    BY DEF Bytes
  <2>2. next \in [Bytes -> Bytes] /\ \A s \in Bytes : s \notin Stop => size[next[s]] < size[s]
    BY <1>1
  <2>3. base \in [Bytes -> Bytes]
    BY DEF Bytes
  <2>4. ASSUME NEW s \in Bytes, NEW t \in Bytes, s \notin Stop PROVE Frame(s) \o t \in Bytes
    <3>1. Joins(Frame(s), t, t)
      BY <1>1, <2>4, Join
    <3> QED
      BY <3>1 DEF Joins
  <2>5. <<>> \in Bytes
    BY DEF Bytes
  <2>6. comb \in [Bytes \X Bytes -> Bytes]
    <3> HIDE DEF Stop
    <3> QED
      BY <2>4, <2>5
  <2> HIDE DEF Stop, size, next, base, comb
  <2> QED
    BY <2>1, <2>2, <2>3, <2>6 DEF Recursive
<1>3. PICK F \in [Bytes -> Bytes] :
        \A s \in Bytes : F[s] = IF s \in Stop THEN base[s] ELSE comb[<<s, F[next[s]]>>]
  <2> HIDE DEF Stop, size, next, base, comb
  <2> QED
    BY <1>2, Recursion
<1>4. ASSUME NEW s \in Bytes PROVE F[s] = Body(F, s)
  <2>1. CASE s \in Stop
    <3>1. F[s] = base[s] /\ base[s] = <<>>
      <4>1. base[s] = <<>>
        OBVIOUS
      <4> HIDE DEF Stop, next, base, comb
      <4> QED
        BY <1>3, <2>1, <4>1
    <3> QED
      BY <2>1, <3>1
  <2>2. CASE s \notin Stop
    <3>1. After(s) \in Bytes /\ F[After(s)] \in Bytes /\ next[s] = After(s)
      BY <1>1, <2>2
    <3>2. comb[<<s, F[After(s)]>>] = Frame(s) \o F[After(s)]
      BY <2>2, <3>1
    <3>3. F[s] = comb[<<s, F[After(s)]>>]
      <4> HIDE DEF Stop, next, base, comb
      <4> QED
        BY <1>3, <2>2, <3>1
    <3> QED
      BY <2>2, <3>2, <3>3
  <2> QED
    BY <2>1, <2>2
<1>5. F = [s \in Bytes |-> Body(F, s)]
  <2>1. F = [s \in Bytes |-> F[s]]
    OBVIOUS
  <2> HIDE DEF Body
  <2> QED
    BY <1>4, <2>1
<1>6. Decode = CHOOSE v : v = [s \in Bytes |-> Body(v, s)]
  BY DEF Decode, Frame, After
<1>7. Decode = [s \in Bytes |-> Body(Decode, s)]
  <2> HIDE DEF Body
  <2> QED
    BY <1>5, <1>6
<1>8. \A s \in Bytes : Decode[s] = Body(Decode, s)
  <2> HIDE DEF Body
  <2> QED
    BY <1>7
<1>9. \A s \in Bytes : Decode[s] \in Bytes
  <2> DEFINE Good == {s \in Bytes : Decode[s] \in Bytes}
  <2>1. ASSUME NEW s \in Bytes, \A t \in Bytes : size[t] < size[s] => t \in Good
        PROVE  s \in Good
    <3>1. CASE s \in Stop
      <4>1. Decode[s] = <<>>
        BY <1>8, <3>1
      <4>2. <<>> \in Bytes
        BY DEF Bytes
      <4> QED
        BY <4>1, <4>2
    <3>2. CASE s \notin Stop
      <4>1. After(s) \in Good
        BY <1>1, <2>1, <3>2
      <4>2. Joins(Frame(s), Decode[After(s)], <<>>)
        <5>1. Frame(s) \in Bytes /\ Decode[After(s)] \in Bytes /\ <<>> \in Bytes
          BY <1>1, <3>2, <4>1 DEF Bytes
        <5> QED
          BY <5>1, Join
      <4> QED
        BY <1>8, <3>2, <4>2 DEF Joins
    <3> QED
      BY <3>1, <3>2
  <2>2. size \in [Bytes -> Nat]
    BY DEF Bytes
  <2>3. Bytes \subseteq Good
    <3> HIDE DEF Good, size
    <3> QED
      BY <2>1, <2>2, Descent
  <2> QED
    BY <2>3
<1> QED
  BY <1>8, <1>9

\* The first frame of a stream is the same with more behind it.
LEMMA DecodeFirst ==
  ASSUME NEW s \in Bytes, NEW r \in Bytes, Find(s, Blank) # 0
  PROVE  /\ Decode[s \o r] = Frame(s) \o Decode[After(s) \o r]
         /\ s \o r \in Bytes /\ After(s \o r) = After(s) \o r
<1> DEFINE w == s \o r
<1>1. /\ s \in Seq(Framed) /\ r \in Seq(Framed) /\ Blank \in Seq(Framed)
      /\ Len(s) \in Nat
  BY DEF Bytes, Blank, Framed, Symbols
<1>2. w \in Bytes /\ Find(w, Blank) = Find(s, Blank)
  <2>1. w \in Bytes
    BY <1>1 DEF Bytes
  <2> QED
    BY <1>1, <2>1, FindFirst
<1>3. PICK j \in 1..(Len(s) + 1), k \in 0..Len(s) : j = Find(s, Blank) + 2 /\ k = Find(s, Blank) - 1
  <2>1. Find(s, Blank) + 2 \in 1..(Len(s) + 1) /\ Find(s, Blank) - 1 \in 0..Len(s)
    BY <1>1, FoundBlank
  <2> QED
    BY <2>1
<1>4. From(w, j) = From(s, j) \o r /\ SubSeq(w, 1, k) = SubSeq(s, 1, k)
  <2>1. \A i \in 1..(Len(s) + 1) : From(s \o r, i) = From(s, i) \o r
    BY <1>1, CutFirst
  <2>2. \A i \in 0..Len(s) : SubSeq(s \o r, 1, i) = SubSeq(s, 1, i)
    BY <1>1, CutFirst
  <2> QED
    BY <2>1, <2>2
<1> HIDE DEF w
<1>5. Frame(w) = Frame(s) /\ After(w) = After(s) \o r
  BY <1>2, <1>3, <1>4 DEF Frame, After
<1>6. Decode[w] = Frame(w) \o Decode[After(w)]
  BY <1>2, DecodeIs
<1> QED
  BY <1>2, <1>5, <1>6 DEF w

\* A stream of frames: what is not empty begins with "data:" and ends with a blank line, and
\* "data:" follows every other blank line.
Tidy(s) ==
    /\ s # <<>> => s[1] = "data:"
    /\ s # <<>> => Len(s) >= 2 /\ s[Len(s) - 1] = "nl" /\ s[Len(s)] = "nl"
    /\ \A i \in 1..Len(s) : StartsAt(s, Blank, i) /\ i + 2 =< Len(s) => s[i + 2] = "data:"

\* A stream of frames that is not empty has a blank line; what follows it is one again.
LEMMA TidyAfter ==
  ASSUME NEW s \in Bytes, Tidy(s), s # <<>>
  PROVE  Find(s, Blank) # 0 /\ After(s) \in Bytes /\ Len(After(s)) < Len(s) /\ Tidy(After(s))
<1>1. s \in Seq(Framed) /\ Len(s) \in Nat
  BY DEF Bytes
<1>2. s[1] = "data:" /\ Len(s) >= 2 /\ s[Len(s) - 1] = "nl" /\ s[Len(s)] = "nl"
  BY DEF Tidy
<1>3. Find(s, Blank) # 0
  <2>1. PICK i \in 1..Len(s) : i = Len(s) - 1
    BY <1>1, <1>2
  <2>2. i + 1 = Len(s)
    BY <1>1, <2>1
  <2>3. StartsAt(s, Blank, i)
    BY <1>1, <1>2, <2>1, <2>2, TagsAre
  <2> QED
    BY <1>1, <2>3, FindIs
<1> DEFINE m == Find(s, Blank)
           q == After(s)
<1>4. /\ m \in 1..Len(s) /\ m + 1 =< Len(s) /\ StartsAt(s, Blank, m)
      /\ q \in Bytes /\ Len(q) < Len(s) /\ Len(q) = Len(s) - m - 1
  BY <1>3, FoundBlank DEF After
<1>5. q \in Seq(Framed) /\ Len(q) \in Nat /\ m \in Nat
  BY <1>4 DEF Bytes
<1>6. \A i \in 1..Len(q) : q[i] = s[m + 1 + i]
  <2>1. q = SubSeq(s, m + 2, Len(s))
    BY DEF After, From
  <2>2. m + 2 \in 1..(Len(s) + 1)
    BY <1>1, <1>4
  <2> HIDE DEF m, q
  <2>3. \A i \in 1..(Len(s) - (m + 2) + 1) : SubSeq(s, m + 2, Len(s))[i] = s[m + 2 + i - 1]
    BY <1>1, <1>5, <2>2
  <2>4. ASSUME NEW i \in 1..Len(q) PROVE q[i] = s[m + 1 + i]
    <3>1. i \in 1..(Len(s) - (m + 2) + 1) /\ m + 2 + i - 1 = m + 1 + i
      BY <1>1, <1>4, <1>5
    <3> QED
      BY <2>1, <2>3, <3>1
  <2> QED
    BY <2>4
<1> HIDE DEF m, q
<1>7. q # <<>> => q[1] = "data:"
  <2> SUFFICES ASSUME q # <<>> PROVE q[1] = "data:"
    OBVIOUS
  <2>1. 1 \in 1..Len(q) /\ m + 1 + 1 = m + 2 /\ m + 2 =< Len(s)
    BY <1>1, <1>4, <1>5
  <2>2. s[m + 2] = "data:"
    BY <1>4, <2>1 DEF Tidy
  <2> QED
    BY <1>6, <2>1, <2>2
<1>8. q # <<>> => Len(q) >= 2 /\ q[Len(q) - 1] = "nl" /\ q[Len(q)] = "nl"
  <2> SUFFICES ASSUME q # <<>> PROVE Len(q) >= 2 /\ q[Len(q) - 1] = "nl" /\ q[Len(q)] = "nl"
    OBVIOUS
  <2>1. Len(q) \in 1..Len(q) /\ m + 1 + Len(q) = Len(s)
    BY <1>1, <1>4, <1>5
  <2>2. q[Len(q)] = "nl"
    BY <1>2, <1>6, <2>1
  <2>3. Len(q) # 1
    BY <1>7, <2>2
  <2>4. Len(q) >= 2 /\ Len(q) - 1 \in 1..Len(q) /\ m + 1 + (Len(q) - 1) = Len(s) - 1
    BY <1>1, <1>4, <1>5, <2>1, <2>3
  <2>5. q[Len(q) - 1] = "nl"
    BY <1>2, <1>6, <2>4
  <2> QED
    BY <2>2, <2>4, <2>5
<1>9. ASSUME NEW i \in 1..Len(q), StartsAt(q, Blank, i), i + 2 =< Len(q) PROVE q[i + 2] = "data:"
  <2>1. i + 1 =< Len(q) /\ q[i] = "nl" /\ q[i + 1] = "nl"
    BY <1>5, <1>9, TagsAre
  <2>2. PICK k \in 1..Len(s) : k = m + 1 + i
    BY <1>1, <1>4, <1>5
  <2>3. /\ i \in 1..Len(q) /\ i + 1 \in 1..Len(q) /\ i + 2 \in 1..Len(q)
        /\ m + 1 + (i + 1) = k + 1 /\ m + 1 + (i + 2) = k + 2 /\ k + 1 =< Len(s) /\ k + 2 =< Len(s)
    BY <1>1, <1>4, <1>5, <1>9, <2>2
  <2>4. q[i] = s[k] /\ q[i + 1] = s[k + 1] /\ q[i + 2] = s[k + 2]
    BY <1>6, <2>2, <2>3
  <2>5. StartsAt(s, Blank, k)
    BY <1>1, <2>1, <2>3, <2>4, TagsAre
  <2>6. s[k + 2] = "data:"
    BY <2>3, <2>5 DEF Tidy
  <2> QED
    BY <2>4, <2>6
<1>10. Tidy(q)
  BY <1>7, <1>8, <1>9 DEF Tidy
<1> QED
  BY <1>3, <1>4, <1>10 DEF m, q

\* A frame ends at its only blank line and shows its token.
LEMMA SseIs ==
  ASSUME NEW e \in Text
  PROVE  /\ Sse(e) \in Bytes /\ Len(Sse(e)) = Len(e) + 3 /\ Len(e) \in Nat
         /\ Sse(e)[1] = "data:"
         /\ Sse(e)[Len(e) + 2] = "nl" /\ Sse(e)[Len(e) + 3] = "nl"
         /\ \A i \in 1..(Len(e) + 3) : StartsAt(Sse(e), Blank, i) <=> i = Len(e) + 2
         /\ Decode[Sse(e)] = e
<1> DEFINE j == Json(e)
           d == <<"data:">>
           h == d \o j
           s == Sse(e)
<1>1. e \in Seq(Symbols) /\ Len(e) \in Nat /\ \A i \in 1..Len(e) : e[i] \in Symbols
  BY DEF Text
<1>2. j \in Seq(Framed) /\ Len(j) = Len(e)
      /\ \A i \in 1..Len(e) : j[i] = IF e[i] = "nl" THEN "\\n" ELSE e[i]
  <2>1. \A i \in 1..Len(e) : (IF e[i] = "nl" THEN "\\n" ELSE e[i]) \in Framed
    BY <1>1 DEF Framed
  <2>2. j \in [1..Len(e) -> Framed]
    BY <2>1 DEF Json
  <2>3. j \in Seq(Framed) /\ Len(j) = Len(e)
    BY <1>1, <2>2
  <2>4. \A i \in 1..Len(e) : j[i] = IF e[i] = "nl" THEN "\\n" ELSE e[i]
    BY DEF Json
  <2> QED
    BY <2>3, <2>4
<1>3. \A i \in 1..Len(j) : j[i] # "nl"
  BY <1>2
<1>4. d \in Seq(Framed) /\ Len(d) = 1 /\ d[1] = "data:"
  BY DEF Framed
<1>5. Blank \in Seq(Framed) /\ Len(Blank) = 2 /\ Blank[1] = "nl" /\ Blank[2] = "nl"
  BY DEF Blank, Framed, Symbols
<1>6. s = h \o Blank
  BY DEF Sse
<1> HIDE DEF j, d
<1>7. /\ h \in Seq(Framed) /\ Len(h) = Len(e) + 1 /\ h[1] = "data:"
      /\ \A i \in 1..Len(e) : h[1 + i] = j[i]
  <2>1. /\ h \in Seq(Framed) /\ Len(h) = Len(d) + Len(j)
        /\ \A i \in 1..Len(d) : h[i] = d[i]
        /\ \A i \in 1..Len(j) : h[Len(d) + i] = j[i]
    BY <1>2, <1>4, CutFirst
  <2> HIDE DEF h
  <2>2. 1 \in 1..Len(d) /\ Len(h) = Len(e) + 1
    BY <1>1, <1>2, <1>4, <2>1
  <2> QED
    BY <1>2, <1>4, <2>1, <2>2
<1> HIDE DEF h
<1>8. /\ s \in Seq(Framed) /\ Len(s) = Len(e) + 3
      /\ \A i \in 1..Len(h) : s[i] = h[i]
      /\ s[Len(e) + 2] = "nl" /\ s[Len(e) + 3] = "nl"
      /\ SubSeq(s, 1, Len(h)) = h
  <2>1. /\ s \in Seq(Framed) /\ Len(s) = Len(h) + 2
        /\ \A i \in 1..Len(h) : s[i] = h[i]
        /\ \A i \in 1..2 : s[Len(h) + i] = Blank[i]
    <3> DEFINE w == h \o Blank
    <3>1. h \in Seq(Framed) /\ Blank \in Seq(Framed)
      BY <1>5, <1>7
    <3>2. /\ w \in Seq(Framed) /\ Len(w) = Len(h) + Len(Blank)
          /\ \A i \in 1..Len(h) : w[i] = h[i]
          /\ \A i \in 1..Len(Blank) : w[Len(h) + i] = Blank[i]
      BY <3>1, CutFirst
    <3>3. s = w
      BY <1>6
    <3> HIDE DEF w, s
    <3> QED
      BY <1>5, <3>2, <3>3
  <2>2. \A i \in 0..Len(h) : SubSeq(h \o Blank, 1, i) = SubSeq(h, 1, i)
    BY <1>5, <1>7, CutFirst
  <2> HIDE DEF s
  <2>3. Len(h) \in 0..Len(h) /\ Len(h) + 1 = Len(e) + 2 /\ Len(h) + 2 = Len(e) + 3
    BY <1>1, <1>7
  <2>4. SubSeq(s, 1, Len(h)) = SubSeq(h, 1, Len(h)) /\ SubSeq(h, 1, Len(h)) = h
    BY <1>6, <1>7, <2>2, <2>3, SubSeqFull
  <2>5. s[Len(h) + 1] = "nl" /\ s[Len(h) + 2] = "nl"
    BY <1>5, <2>1
  <2> QED
    BY <2>1, <2>3, <2>4, <2>5
<1> HIDE DEF s
<1>9. \A i \in 1..(Len(e) + 1) : s[i] # "nl"
  <2> SUFFICES ASSUME NEW i \in 1..(Len(e) + 1) PROVE s[i] # "nl"
    OBVIOUS
  <2>1. s[i] = h[i]
    BY <1>7, <1>8
  <2>2. CASE i = 1
    BY <1>7, <2>1, <2>2
  <2>3. CASE i # 1
    <3>1. PICK k \in 1..Len(e) : i = 1 + k
      <4>1. i - 1 \in 1..Len(e) /\ i = 1 + (i - 1)
        BY <1>1, <2>3
      <4> QED
        BY <4>1
    <3> QED
      BY <1>2, <1>3, <1>7, <2>1, <3>1
  <2> QED
    BY <2>2, <2>3
<1>10. ASSUME NEW i \in 1..(Len(e) + 3) PROVE StartsAt(s, Blank, i) <=> i = Len(e) + 2
  <2>1. StartsAt(s, Blank, i) <=> i + 1 =< Len(s) /\ s[i] = "nl" /\ s[i + 1] = "nl"
    BY <1>8, TagsAre
  <2>2. CASE i \in 1..(Len(e) + 1)
    BY <1>1, <1>9, <2>1, <2>2
  <2>3. CASE i = Len(e) + 2
    <3>1. i + 1 = Len(e) + 3
      BY <1>1, <2>3
    <3> QED
      BY <1>1, <1>8, <2>1, <2>3, <3>1
  <2>4. CASE i = Len(e) + 3
    BY <1>1, <1>8, <2>1, <2>4
  <2> QED
    BY <1>1, <2>2, <2>3, <2>4
<1>11. Find(s, Blank) = Len(e) + 2
  <2>1. PICK i \in 1..Len(s) : i = Len(e) + 2
    BY <1>1, <1>8
  <2>2. StartsAt(s, Blank, i) /\ \A k \in 1..Len(s) : StartsAt(s, Blank, k) => k = i
    BY <1>8, <1>10, <2>1
  <2>3. /\ Find(s, Blank) # 0 /\ Find(s, Blank) \in 0..Len(s)
        /\ Find(s, Blank) # 0 => StartsAt(s, Blank, Find(s, Blank))
    BY <1>8, <2>2, FindIs
  <2>4. Find(s, Blank) \in 1..Len(s)
    BY <2>3
  <2> QED
    BY <2>1, <2>2, <2>3, <2>4
<1>12. Frame(s) = e
  <2>1. Find(s, Blank) - 1 = Len(h)
    BY <1>1, <1>7, <1>11
  <2>2. Frame(s) = Shown(h)
    BY <1>8, <2>1 DEF Frame
  <2> DEFINE t == Tail(h)
  <2>3. h # <<>> /\ Head(h) = "data:"
    BY <1>1, <1>7
  <2>4. t \in Seq(Framed) /\ Len(t) = Len(e) /\ \A i \in 1..Len(e) : t[i] = h[1 + i]
    BY <1>1, <1>7, <2>3
  <2>5. Frame(s) = Parse(t)
    BY <2>2, <2>3 DEF Shown
  <2> HIDE DEF t
  <2>6. Parse(t) = [i \in 1..Len(e) |-> IF t[i] = "\\n" THEN "nl" ELSE t[i]]
    BY <2>4 DEF Parse
  <2>7. ASSUME NEW i \in 1..Len(e) PROVE (IF t[i] = "\\n" THEN "nl" ELSE t[i]) = e[i]
    <3>1. t[i] = IF e[i] = "nl" THEN "\\n" ELSE e[i]
      BY <1>2, <1>7, <2>4
    <3>2. e[i] # "\\n"
      BY <1>1 DEF Symbols
    <3> QED
      BY <3>1, <3>2
  <2>8. Parse(t) = [i \in 1..Len(e) |-> e[i]]
    BY <2>6, <2>7
  <2>9. e = [i \in 1..Len(e) |-> e[i]]
    BY <1>1
  <2> QED
    BY <2>5, <2>8, <2>9
<1>13. After(s) = <<>>
  <2>1. Find(s, Blank) + 2 = Len(s) + 1
    BY <1>1, <1>8, <1>11
  <2>2. From(s, Len(s) + 1) = <<>>
    BY <1>1, <1>8 DEF From
  <2> QED
    BY <2>1, <2>2 DEF After
<1>14. Decode[s] = e
  <2>1. s \in Bytes /\ <<>> \in Bytes /\ e \in Bytes
    BY <1>8, Sizes DEF Bytes
  <2>2. Find(s, Blank) # 0
    BY <1>1, <1>11
  <2>3. Decode[s] = e \o Decode[<<>>]
    BY <1>12, <1>13, <2>1, <2>2, DecodeIs
  <2>4. Find(<<>>, Blank) = 0
    <3>1. <<>> \in Seq(Framed) /\ Len(<<>>) = 0
      OBVIOUS
    <3>2. Find(<<>>, Blank) \in 0..Len(<<>>)
      BY <3>1, FindIs
    <3> QED
      BY <3>1, <3>2
  <2>5. Decode[<<>>] = <<>>
    BY <2>1, <2>4, DecodeIs
  <2>6. e \o <<>> = e
    BY <1>1, ConcatEmptySeq
  <2> QED
    BY <2>3, <2>5, <2>6
<1>15. s \in Bytes /\ s[1] = "data:"
  <2>1. 1 \in 1..Len(h)
    BY <1>1, <1>7
  <2> QED
    BY <1>7, <1>8, <2>1 DEF Bytes
<1> QED
  BY <1>1, <1>8, <1>10, <1>14, <1>15 DEF s

\* A stream of frames is one with another frame behind it.
LEMMA TidyAppend ==
  ASSUME NEW s \in Bytes, Tidy(s), NEW e \in Text
  PROVE  Tidy(s \o Sse(e))
<1> DEFINE t == Sse(e)
           w == s \o t
<1>1. s \in Seq(Framed) /\ Len(s) \in Nat
  BY DEF Bytes
<1>2. /\ t \in Seq(Framed) /\ Len(t) = Len(e) + 3 /\ Len(e) \in Nat
      /\ t[1] = "data:" /\ t[Len(e) + 2] = "nl" /\ t[Len(e) + 3] = "nl"
      /\ \A i \in 1..(Len(e) + 3) : StartsAt(t, Blank, i) <=> i = Len(e) + 2
  BY SseIs DEF Bytes
<1> HIDE DEF t
<1>3. /\ w \in Seq(Framed) /\ Len(w) = Len(s) + Len(t)
      /\ \A i \in 1..Len(s) : w[i] = s[i]
      /\ \A i \in 1..Len(t) : w[Len(s) + i] = t[i]
  <2>1. s \in Seq(Framed) /\ t \in Seq(Framed)
    BY <1>1, <1>2
  <2> QED
    BY <2>1, CutFirst
<1>4. \A i \in 1..Len(t) : StartsAt(w, Blank, Len(s) + i) <=> StartsAt(t, Blank, i)
  <2>1. \A i \in 1..(Len(t) + 1) : From(w, Len(s) + i) = From(t, i)
    BY <1>1, <1>2, CutSecond
  <2>2. \A i \in 1..Len(t) : i \in 1..(Len(t) + 1)
    BY <1>2
  <2> QED
    BY <2>1, <2>2 DEF StartsAt
<1> HIDE DEF w
<1>5. Len(w) = Len(s) + Len(e) + 3 /\ Len(w) \in Nat
  BY <1>1, <1>2, <1>3
<1>6. w[1] = "data:"
  <2>1. CASE s = <<>>
    <3>1. Len(s) + 1 = 1 /\ 1 \in 1..Len(t)
      BY <1>2, <2>1
    <3> QED
      BY <1>2, <1>3, <3>1
  <2>2. CASE s # <<>>
    <3>1. 1 \in 1..Len(s) /\ s[1] = "data:"
      BY <1>1, <2>2 DEF Tidy
    <3> QED
      BY <1>3, <3>1
  <2> QED
    BY <2>1, <2>2
<1>7. Len(w) >= 2 /\ w[Len(w) - 1] = "nl" /\ w[Len(w)] = "nl"
  <2>1. /\ Len(s) + (Len(e) + 2) = Len(w) - 1 /\ Len(s) + (Len(e) + 3) = Len(w)
        /\ Len(e) + 2 \in 1..Len(t) /\ Len(e) + 3 \in 1..Len(t) /\ Len(w) >= 2
    BY <1>1, <1>2, <1>5
  <2>2. w[Len(s) + (Len(e) + 2)] = "nl" /\ w[Len(s) + (Len(e) + 3)] = "nl"
    BY <1>2, <1>3, <2>1
  <2> QED
    BY <2>1, <2>2
<1>8. ASSUME NEW i \in 1..Len(w), StartsAt(w, Blank, i), i + 2 =< Len(w) PROVE w[i + 2] = "data:"
  <2>1. i \in Nat /\ i + 1 =< Len(w) /\ w[i] = "nl" /\ w[i + 1] = "nl"
    <3>1. w \in Seq(Framed) /\ i \in 1..Len(w) /\ StartsAt(w, Blank, i)
      BY <1>3, <1>8
    <3>2. i + 1 =< Len(w) /\ w[i] = "nl" /\ w[i + 1] = "nl"
      BY <3>1, TagsAre
    <3> QED
      BY <1>5, <3>2
  <2>2. CASE i + 1 =< Len(s)
    <3>1. i \in 1..Len(s) /\ i + 1 \in 1..Len(s)
      BY <1>1, <2>1, <2>2
    <3>2. StartsAt(s, Blank, i)
      BY <1>1, <1>3, <2>1, <2>2, <3>1, TagsAre
    <3>3. CASE i + 2 =< Len(s)
      <4>1. s[i + 2] = "data:" /\ i + 2 \in 1..Len(s)
        BY <1>1, <2>1, <3>1, <3>2, <3>3 DEF Tidy
      <4> QED
        BY <1>3, <4>1
    <3>4. CASE i + 1 = Len(s)
      <4>1. i + 2 = Len(s) + 1 /\ 1 \in 1..Len(t)
        BY <1>1, <1>2, <2>1, <3>4
      <4> QED
        BY <1>2, <1>3, <4>1
    <3> QED
      BY <1>1, <2>1, <2>2, <3>3, <3>4
  <2>3. CASE i = Len(s)
    <3>1. i + 1 = Len(s) + 1 /\ 1 \in 1..Len(t)
      BY <1>1, <1>2, <2>3
    <3>2. w[i + 1] = "data:"
      BY <1>2, <1>3, <3>1
    <3> QED
      BY <2>1, <3>2
  <2>4. CASE i > Len(s)
    <3>1. PICK k \in 1..Len(t) : i = Len(s) + k
      <4>1. i - Len(s) \in 1..Len(t) /\ i = Len(s) + (i - Len(s))
        BY <1>1, <1>2, <1>5, <2>1, <2>4
      <4> QED
        BY <4>1
    <3>2. StartsAt(t, Blank, k)
      BY <1>4, <1>8, <3>1
    <3>3. k = Len(e) + 2
      BY <1>2, <3>1, <3>2
    <3> QED
      BY <1>1, <1>2, <1>5, <1>8, <3>1, <3>3
  <2> QED
    BY <1>1, <2>1, <2>2, <2>3, <2>4
<1>9. Tidy(w)
  BY <1>6, <1>7, <1>8 DEF Tidy
<1> QED
  BY <1>9 DEF w, t

\* The stream with another frame behind it shows its token at the end.
LEMMA DecodeAppend ==
  ASSUME NEW e \in Text
  PROVE  \A s \in Bytes : Tidy(s) => Decode[s \o Sse(e)] = Decode[s] \o e
<1> DEFINE t == Sse(e)
           Good == {s \in Bytes : Tidy(s) => Decode[s \o t] = Decode[s] \o e}
           size == [s \in Bytes |-> Len(s)]
<1>1. t \in Bytes /\ Decode[t] = e /\ e \in Bytes
  BY SseIs, Sizes DEF Bytes
<1> HIDE DEF t
<1>2. ASSUME NEW s \in Bytes, \A r \in Bytes : size[r] < size[s] => r \in Good
      PROVE  s \in Good
  <2> SUFFICES ASSUME Tidy(s) PROVE Decode[s \o t] = Decode[s] \o e
    OBVIOUS
  <2>1. CASE s = <<>>
    <3>1. Find(s, Blank) = 0
      <4>1. s \in Seq(Framed) /\ Len(s) = 0
        BY <2>1
      <4>2. Find(s, Blank) \in 0..Len(s)
        BY <4>1, FindIs
      <4> QED
        BY <4>1, <4>2
    <3>2. Decode[s] = <<>>
      BY <3>1, DecodeIs
    <3>3. Joins(t, s, s) /\ Joins(e, s, s)
      BY <1>1, Join
    <3>4. s \o t = t /\ <<>> \o e = e
      BY <2>1, <3>3 DEF Joins
    <3> QED
      BY <1>1, <3>2, <3>4
  <2>2. CASE s # <<>>
    <3> DEFINE q == After(s)
    <3>1. Find(s, Blank) # 0 /\ q \in Bytes /\ Len(q) < Len(s) /\ Tidy(q)
      BY <2>2, TidyAfter
    <3>2. Decode[s \o t] = Frame(s) \o Decode[q \o t]
      BY <1>1, <3>1, DecodeFirst
    <3>3. Decode[s] = Frame(s) \o Decode[q] /\ Decode[q] \in Bytes
      BY <3>1, DecodeIs
    <3> HIDE DEF q
    <3>4. q \in Good
      BY <1>2, <3>1
    <3>5. Decode[q \o t] = Decode[q] \o e
      BY <3>1, <3>4
    <3>6. Frame(s) \in Bytes
      BY <3>1, FoundBlank, ShownIs DEF Frame
    <3>7. Joins(Frame(s), Decode[q], e)
      BY <1>1, <3>3, <3>6, Join
    <3> QED
      BY <3>2, <3>3, <3>5, <3>7 DEF Joins
  <2> QED
    BY <2>1, <2>2
<1>3. size \in [Bytes -> Nat]
  BY DEF Bytes
<1>4. Bytes \subseteq Good
  <2> HIDE DEF Good, size
  <2> QED
    BY <1>2, <1>3, Descent
<1> QED
  BY <1>4 DEF t

\* A round of the page.
Turn(b) == [buffer |-> After(b.buffer), page |-> b.page \o Frame(b.buffer)]

\* A round takes a frame out of the buffer.
LEMMA TurnIs ==
  ASSUME NEW b \in Reader, Find(b.buffer, Blank) # 0
  PROVE  Turn(b) \in Reader /\ Len(Turn(b).buffer) < Len(b.buffer)
<1>1. b.buffer \in Bytes /\ b.page \in Bytes
  BY DEF Reader, Bytes
<1>2. After(b.buffer) \in Bytes /\ Len(After(b.buffer)) < Len(b.buffer) /\ Frame(b.buffer) \in Bytes
  BY <1>1, FoundBlank, ShownIs DEF After, Frame
<1>3. Joins(b.page, Frame(b.buffer), b.page)
  BY <1>1, <1>2, Join
<1>4. b.page \o Frame(b.buffer) \in Bytes
  BY <1>3 DEF Joins
<1> QED
  BY <1>2, <1>4 DEF Turn, Reader, Bytes

\* The loop of the page, unfolded once.
LEMMA FramesIs ==
  \A b \in Reader : Frames[b] = IF Find(b.buffer, Blank) = 0 THEN b ELSE Frames[Turn(b)]
<1> DEFINE Stop == {b \in Reader : Find(b.buffer, Blank) = 0}
           size == [b \in Reader |-> Len(b.buffer)]
           next == [b \in Reader |-> IF b \in Stop THEN b ELSE Turn(b)]
           base == [b \in Reader |-> b]
           comb == [p \in Reader \X Reader |-> p[2]]
           Body(v, b) == IF Find(b.buffer, Blank) = 0 THEN b ELSE v[Turn(b)]
<1>1. Recursive(Reader, Reader, Stop, size, next, base, comb)
  <2>1. next \in [Reader -> Reader] /\ base \in [Reader -> Reader] /\ comb \in [Reader \X Reader -> Reader]
    BY TurnIs
  <2>2. ASSUME NEW b \in Reader, b \notin Stop PROVE size[next[b]] < size[b]
    <3>1. next[b] = Turn(b) /\ Turn(b) \in Reader /\ Len(Turn(b).buffer) < Len(b.buffer)
      BY <2>2, TurnIs
    <3> QED
      BY <3>1
  <2>3. size \in [Reader -> Nat]
    BY DEF Reader
  <2> HIDE DEF Stop, size, next, base, comb
  <2> QED
    BY <2>1, <2>2, <2>3 DEF Recursive
<1>2. PICK F \in [Reader -> Reader] :
        \A b \in Reader : F[b] = IF b \in Stop THEN base[b] ELSE comb[<<b, F[next[b]]>>]
  <2> HIDE DEF Stop, size, next, base, comb
  <2> QED
    BY <1>1, Recursion
<1>3. ASSUME NEW b \in Reader PROVE F[b] = Body(F, b)
  <2>1. CASE b \notin Stop
    <3>1. Turn(b) \in Reader /\ F[Turn(b)] \in Reader /\ next[b] = Turn(b)
      BY <2>1, TurnIs
    <3>2. comb[<<b, F[Turn(b)]>>] = F[Turn(b)]
      BY <3>1
    <3>3. F[b] = comb[<<b, F[Turn(b)]>>]
      <4> HIDE DEF Stop, next, base, comb
      <4> QED
        BY <1>2, <2>1, <3>1
    <3> QED
      BY <2>1, <3>2, <3>3
  <2>2. CASE b \in Stop
    <3>1. base[b] = b
      OBVIOUS
    <3>2. F[b] = base[b]
      <4> HIDE DEF Stop, next, base, comb
      <4> QED
        BY <1>2, <2>2
    <3> QED
      BY <2>2, <3>1, <3>2
  <2> QED
    BY <2>1, <2>2
<1>4. F = [b \in Reader |-> Body(F, b)]
  <2>1. F = [b \in Reader |-> F[b]]
    OBVIOUS
  <2> HIDE DEF Body
  <2> QED
    BY <1>3, <2>1
<1>5. Frames = CHOOSE v : v = [b \in Reader |-> Body(v, b)]
  BY DEF Frames, Turn, After, Frame
<1>6. Frames = [b \in Reader |-> Body(Frames, b)]
  <2> HIDE DEF Body
  <2> QED
    BY <1>4, <1>5
<1> QED
  BY <1>6

\* What the page shows, and will show of the stream with w still to come.
Seen(b, w) == b.page \o Decode[b.buffer \o w]

\* The loop of the page ends without a blank line in the buffer, shows the frames of the
\* stream in their order, and leaves a stream of frames.
LEMMA FramesKeeps ==
  ASSUME NEW b \in Reader, NEW w \in Bytes, Tidy(b.buffer \o w)
  PROVE  /\ Frames[b] \in Reader /\ Find(Frames[b].buffer, Blank) = 0
         /\ Seen(Frames[b], w) = Seen(b, w)
         /\ Tidy(Frames[b].buffer \o w)
<1> DEFINE Stop == {c \in Reader : Find(c.buffer, Blank) = 0}
           size == [c \in Reader |-> Len(c.buffer)]
           next == [c \in Reader |-> Turn(c)]
           P == {c \in Reader : Seen(c, w) = Seen(b, w) /\ Tidy(c.buffer \o w)}
<1>1. P \in SUBSET Reader /\ b \in P /\ size \in [Reader -> Nat]
  BY DEF Reader
<1>2. \A c \in Reader : Frames[c] = IF c \in Stop THEN c ELSE Frames[next[c]]
  BY FramesIs
<1>3. ASSUME NEW c \in P, c \notin Stop PROVE next[c] \in P /\ size[next[c]] < size[c]
  <2> DEFINE s == c.buffer
             d == Turn(c)
  <2>1. c \in Reader /\ Find(s, Blank) # 0 /\ next[c] = d /\ Tidy(s \o w)
    BY <1>3
  <2>2. s \in Bytes /\ c.page \in Bytes
    BY <2>1 DEF Reader, Bytes
  <2>3. d \in Reader /\ Len(d.buffer) < Len(s) /\ d.buffer = After(s) /\ d.page = c.page \o Frame(s)
    BY <2>1, TurnIs DEF Turn
  <2>4. /\ Decode[s \o w] = Frame(s) \o Decode[After(s) \o w]
        /\ s \o w \in Bytes /\ After(s \o w) = After(s) \o w
    BY <2>1, <2>2, DecodeFirst
  <2> HIDE DEF s, d
  <2>5. Tidy(After(s) \o w) /\ After(s) \o w \in Bytes
    <3>1. s \o w # <<>>
      <4>1. Len(s) > 0 /\ Len(s \o w) = Len(s) + Len(w) /\ Len(w) \in Nat
        <5>1. s \in Seq(Framed) /\ w \in Seq(Framed) /\ Len(s) \in Nat /\ Len(w) \in Nat
          BY <2>2 DEF Bytes
        <5>2. Find(s, Blank) \in 0..Len(s)
          BY <5>1, FindIs
        <5>3. Len(s \o w) = Len(s) + Len(w)
          BY <5>1, CutFirst
        <5> QED
          BY <2>1, <5>1, <5>2, <5>3 DEF s
      <4>2. Len(s) \in Nat
        BY <2>2 DEF Bytes
      <4>3. Len(s \o w) # 0
        BY <4>1, <4>2
      <4> QED
        BY <4>3
    <3>2. Tidy(s \o w)
      BY <2>1 DEF s
    <3>3. Tidy(After(s \o w)) /\ After(s \o w) \in Bytes
      BY <2>4, <3>1, <3>2, TidyAfter
    <3> QED
      BY <2>4, <3>3
  <2>6. Seen(d, w) = Seen(c, w)
    <3>1. Frame(s) \in Bytes
      BY <2>1, <2>2, FoundBlank, ShownIs DEF Frame, s
    <3>2. Decode[After(s) \o w] \in Bytes
      BY <2>5, DecodeIs
    <3>3. Joins(c.page, Frame(s), Decode[After(s) \o w])
      BY <2>2, <3>1, <3>2, Join
    <3>4. Seen(d, w) = (c.page \o Frame(s)) \o Decode[After(s) \o w]
      BY <2>3 DEF Seen
    <3>5. Seen(c, w) = c.page \o (Frame(s) \o Decode[After(s) \o w])
      BY <2>4 DEF Seen, s
    <3> QED
      BY <3>3, <3>4, <3>5 DEF Joins
  <2>7. d \in P
    <3>1. Seen(c, w) = Seen(b, w)
      BY <1>3
    <3> QED
      BY <2>3, <2>5, <2>6, <3>1
  <2>8. size[d] < size[c]
    BY <2>1, <2>3 DEF s
  <2> QED
    BY <2>1, <2>7, <2>8
<1>4. Frames[b] \in P \cap Stop
  <2> HIDE DEF P, Stop, next, size
  <2> QED
    BY <1>1, <1>2, <1>3, LoopEnds
<1> QED
  BY <1>4

-------------------------------------------------------------------------------
(* The page. *)

\* What the page shows and will show of the part of the answer that has been sent, and what
\* is visible of the rest.
Total == (page \o Decode[buffer \o wire]) \o Rest(think, pending \o From(text, fed + 1))

\* What is on the way: whole frames; in _pending at most what may be the beginning of a tag;
\* and all of it together is the answer.
PipeInv ==
    /\ text \in Text /\ fed \in 0..Len(text)
    /\ think \in BOOLEAN /\ pending \in Text
    /\ wire \in Bytes /\ buffer \in Bytes /\ page \in Bytes
    /\ Held(think, pending)
    /\ Tidy(buffer \o wire) /\ Find(buffer, Blank) = 0
    /\ fed = 0 => think = FALSE /\ pending = <<>> /\ page = <<>> /\ buffer = <<>> /\ wire = <<>>
    /\ Total \in Answers

\* The answers are texts.
LEMMA AnswersAre ==
  ASSUME text \in Text
  PROVE  /\ Answers \subseteq Text /\ Visible[text] \in Answers
         /\ StartsAt(Lstrip(text), Open, 1) => Visible[Lstrip(text)] \in Answers
<1>1. Lstrip(text) \in Text
  <2>1. PICK i \in 1..(Len(text) + 1) : Lstrip(text) = From(text, i)
    BY LstripIs
  <2> QED
    BY <2>1 DEF Text, From
<1>2. Visible[text] \in Text /\ Visible[Lstrip(text)] \in Text
  BY <1>1, VisibleIs
<1> QED
  BY <1>2 DEF Answers

\* Of what is held back nothing is visible if nothing follows.
LEMMA HeldRest ==
  ASSUME NEW t \in BOOLEAN, NEW p \in Text, Held(t, p)
  PROVE  Rest(t, p) = <<>>
<1>1. p \in Seq(Symbols) /\ p \in Seq(Framed) /\ Len(p) \in Nat
  BY Sizes DEF Text
<1>2. CASE t
  BY <1>2 DEF Held, Rest, Inside
<1>3. CASE ~ t
  <2>1. p \in {<<>>, <<"<">>, <<"<", "t">>}
    BY <1>3 DEF Held
  <2>2. Len(p) =< 2
    <3>1. p = <<>> => Len(p) =< 2
      OBVIOUS
    <3>2. p = <<"<">> => Len(p) =< 2
      OBVIOUS
    <3>3. p = <<"<", "t">> => Len(p) =< 2
      OBVIOUS
    <3> QED
      BY <2>1, <3>1, <3>2, <3>3
  <2>3. Find(p, Open) = 0
    <3>1. Find(p, Open) \in 0..Len(p) /\ (Find(p, Open) # 0 => StartsAt(p, Open, Find(p, Open)))
      BY <1>1, FindIs
    <3>2. ASSUME Find(p, Open) # 0 PROVE FALSE
      <4>1. Find(p, Open) + 2 =< Len(p)
        BY <1>1, <3>1, <3>2, TagsAre
      <4> QED
        BY <1>1, <2>2, <3>1, <3>2, <4>1
    <3> QED
      BY <3>2
  <2>4. PartialAtEnd(p, Open) =
          IF Len(p) >= 1 /\ p[Len(p)] = "<" THEN 1
          ELSE IF Len(p) >= 2 /\ p[Len(p) - 1] = "<" /\ p[Len(p)] = "t" THEN 2 ELSE 0
    BY <1>1, PartialTags
  <2>5. PartialAtEnd(p, Open) = Len(p)
    BY <2>1, <2>4
  <2>6. Visible[p] = SubSeq(p, 1, Len(p) - PartialAtEnd(p, Open))
    BY <2>3, VisibleIs
  <2>7. Len(p) - PartialAtEnd(p, Open) = 0
    BY <1>1, <2>5
  <2> QED
    BY <1>1, <1>3, <2>6, <2>7 DEF Rest
<1> QED
  BY <1>2, <1>3

\* A text of which nothing has been looked at yet.
Whole(s) == [think |-> FALSE, pending |-> s, emit |-> <<>>, more |-> TRUE]

\* The while loop of _stream_response sends of a text in one piece what is visible of it.
THEOREM FilterIsVisible ==
  ASSUME NEW s \in Text
  PROVE  Filter[Whole(s)].emit = Visible[s]
<1> DEFINE f == Whole(s)
           g == Filter[f]
<1>1. <<>> \in Text /\ Visible[s] \in Text
  BY VisibleIs DEF Text
<1>2. f \in Scan /\ f.more /\ f.think = FALSE /\ f.pending = s /\ f.emit = <<>>
  BY <1>1 DEF Whole, Scan, Text
<1> HIDE DEF f
<1>3. g \in Scan /\ Sent(g, <<>>) = Sent(f, <<>>) /\ Held(g.think, g.pending)
  BY <1>1, <1>2, FilterKeeps
<1> HIDE DEF g
<1>4. g.think \in BOOLEAN /\ g.pending \in Text /\ g.emit \in Text
  BY <1>3 DEF Scan, Text
<1>5. Sent(g, <<>>) = g.emit
  <2>1. g.pending \o <<>> = g.pending /\ g.emit \o <<>> = g.emit
    BY <1>4 DEF Text
  <2>2. Rest(g.think, g.pending) = <<>>
    BY <1>3, <1>4, HeldRest
  <2> QED
    BY <2>1, <2>2 DEF Sent
<1>6. Sent(f, <<>>) = Visible[s]
  <2>1. s \o <<>> = s /\ <<>> \o Visible[s] = Visible[s]
    BY <1>1 DEF Text
  <2>2. Rest(FALSE, s) = Visible[s]
    BY DEF Rest
  <2> QED
    BY <1>2, <2>1, <2>2 DEF Sent
<1> QED
  BY <1>3, <1>5, <1>6 DEF f, g

\* The first part of a text is a text and a beginning of it.
LEMMA Beginning ==
  ASSUME NEW a \in Bytes, NEW b \in Bytes, a \o b \in Text
  PROVE  a \in Text /\ IsPrefix(a, a \o b)
<1> DEFINE v == a \o b
<1>1. a \in Seq(Framed) /\ b \in Seq(Framed) /\ v \in Seq(Symbols)
  BY DEF Bytes, Text
<1>2. /\ Len(v) = Len(a) + Len(b) /\ Len(a) \in Nat /\ Len(b) \in Nat
      /\ \A i \in 1..Len(a) : v[i] = a[i]
      /\ \A i \in 0..Len(a) : SubSeq(v, 1, i) = SubSeq(a, 1, i)
  <2>1. /\ Len(v) = Len(a) + Len(b)
        /\ \A i \in 1..Len(a) : v[i] = a[i]
        /\ \A i \in 0..Len(a) : SubSeq(v, 1, i) = SubSeq(a, 1, i)
    BY <1>1, CutFirst
  <2> HIDE DEF v
  <2> QED
    BY <1>1, <2>1
<1> HIDE DEF v
<1>3. Len(a) \in 0..Len(a) /\ Len(a) =< Len(v) /\ \A i \in 1..Len(a) : i \in 1..Len(v)
  BY <1>2
<1>4. IsPrefix(a, v)
  BY <1>2, <1>3 DEF IsPrefix
<1>5. \A i \in 1..Len(a) : a[i] \in Symbols
  BY <1>1, <1>2, <1>3
<1>6. a = [i \in 1..Len(a) |-> a[i]]
  BY <1>1
<1>7. a \in [1..Len(a) -> Symbols]
  BY <1>5, <1>6
<1>8. a \in Text
  BY <1>2, <1>7 DEF Text
<1> QED
  BY <1>4, <1>8 DEF v

\* What the invariant says of the page.
LEMMA PipeInvShows == PipeInv => PipeTypeOK /\ PageShowsAnswer
<1> SUFFICES ASSUME PipeInv PROVE PipeTypeOK /\ PageShowsAnswer
  OBVIOUS
<1> USE DEF PipeInv
<1> DEFINE D == Decode[buffer \o wire]
           R == Rest(think, pending \o From(text, fed + 1))
           v == Total
<1>1. D \in Bytes
  <2>1. Joins(buffer, wire, wire)
    BY Join
  <2> QED
    BY <2>1, DecodeIs DEF Joins
<1>2. From(text, fed + 1) \in Text /\ (fed = Len(text) => From(text, fed + 1) = <<>>)
  BY DEF Text, From
<1>3. R \in Bytes
  <2>1. pending \o From(text, fed + 1) \in Text
    BY <1>2, Regroup DEF Regroups
  <2>2. R \in Text
    BY <2>1, VisibleIs DEF Rest
  <2> QED
    BY <2>2, Sizes DEF Bytes
<1>4. v = page \o (D \o R) /\ D \o R \in Bytes
  <2>1. Joins(page, D, R) /\ Joins(D, R, R)
    BY <1>1, <1>3, Join
  <2> QED
    BY <2>1 DEF Joins, Total
<1>5. v \in Text /\ v \in Answers
  BY AnswersAre
<1>6. page \in Text /\ IsPrefix(page, v)
  <2>1. page \o (D \o R) \in Text
    BY <1>4, <1>5
  <2>2. page \in Text /\ IsPrefix(page, page \o (D \o R))
    BY <1>4, <2>1, Beginning
  <2> QED
    BY <1>4, <2>2
<1>7. PipeTypeOK
  BY <1>6 DEF PipeTypeOK, Text, Bytes
<1>8. ASSUME fed = Len(text), wire = <<>> PROVE page \in Answers
  <2>1. R = <<>>
    <3>1. pending \o <<>> = pending
      BY Regroup DEF Regroups
    <3>2. Rest(think, pending) = <<>>
      BY HeldRest
    <3> QED
      BY <1>2, <1>8, <3>1, <3>2
  <2>2. D = <<>>
    <3>1. Joins(buffer, wire, wire)
      BY Join
    <3>2. buffer \o wire = buffer
      BY <1>8, <3>1 DEF Joins
    <3> QED
      BY <3>2, DecodeIs
  <2>3. Joins(page, page, page) /\ Joins(D, D, D)
    BY <1>1, Join
  <2>4. D \o R = <<>> /\ page \o <<>> = page
    BY <2>1, <2>2, <2>3 DEF Joins
  <2> QED
    BY <1>4, <1>5, <2>4
<1>9. PageShowsAnswer
  BY <1>5, <1>6, <1>8 DEF PageShowsAnswer
<1> QED
  BY <1>7, <1>9

\* Nothing has been sent at first.
LEMMA PipeInvInit == PipeInit => PipeInv
<1> SUFFICES ASSUME PipeInit PROVE PipeInv
  OBVIOUS
<1> USE DEF PipeInit
<1>1. text \in Text /\ fed = 0 /\ <<>> \in Text /\ <<>> \in Bytes /\ <<>> \o <<>> = <<>>
  <2>1. text \in Text
    BY PipeAssumption DEF Text
  <2>2. <<>> \in Text /\ <<>> \in Bytes
    BY DEF Text, Bytes
  <2>3. Joins(<<>>, <<>>, <<>>)
    BY <2>2, Join
  <2> QED
    BY <2>1, <2>2, <2>3 DEF Joins
<1>2. 0 \in 0..Len(text)
  BY <1>1 DEF Text
<1>3. Held(FALSE, <<>>) /\ Tidy(<<>>)
  BY DEF Held, Tidy
<1>4. Find(<<>>, Blank) = 0
  <2>1. <<>> \in Seq(Framed) /\ Len(<<>>) = 0
    OBVIOUS
  <2>2. Find(<<>>, Blank) \in 0..Len(<<>>)
    BY <2>1, FindIs
  <2> QED
    BY <2>1, <2>2
<1>5. Total \in Answers
  <2>1. Decode[<<>>] = <<>>
    BY <1>1, <1>4, DecodeIs
  <2>2. From(text, 1) = text
    BY <1>1, SubSeqFull DEF From, Text
  <2>3. <<>> \o text = text
    BY <1>1, Regroup DEF Regroups
  <2>4. Visible[text] \in Text
    BY <1>1, VisibleIs
  <2>5. <<>> \o Visible[text] = Visible[text]
    BY <2>4, Regroup DEF Regroups
  <2>6. Rest(FALSE, text) = Visible[text]
    BY DEF Rest
  <2>7. 0 + 1 = 1
    OBVIOUS
  <2>8. Total = Visible[text]
    BY <1>1, <2>1, <2>2, <2>3, <2>5, <2>6, <2>7 DEF Total
  <2> QED
    BY <1>1, <2>8, AnswersAre
<1> QED
  BY <1>1, <1>2, <1>3, <1>4, <1>5 DEF PipeInv

\* A part of the answer and the rest of it.
LEMMA Split ==
  ASSUME text \in Text, NEW i \in 0..Len(text), NEW n \in Nat, i + n =< Len(text)
  PROVE  /\ SubSeq(text, i + 1, i + n) \in Text /\ From(text, i + n + 1) \in Text
         /\ From(text, i + 1) = SubSeq(text, i + 1, i + n) \o From(text, i + n + 1)
         /\ i = 0 => From(text, i + 1) = text
<1> DEFINE t == From(text, i + 1)
<1>1. text \in Seq(Symbols) /\ Len(text) \in Nat /\ i \in Nat
  BY DEF Text
<1>2. t \in Seq(Symbols) /\ Len(t) = Len(text) - i /\ \A k \in 1..(Len(text) - i) : t[k] = text[i + k]
  BY <1>1, Cut
<1> HIDE DEF t
<1>3. n \in 0..Len(t)
  BY <1>1, <1>2
<1>4. /\ SubSeq(t, 1, n) \in Seq(Symbols) /\ Len(SubSeq(t, 1, n)) = n
      /\ From(t, n + 1) \in Seq(Symbols) /\ Len(From(t, n + 1)) = Len(t) - n
      /\ \A k \in 1..n : SubSeq(t, 1, n)[k] = t[k]
      /\ \A k \in 1..(Len(t) - n) : From(t, n + 1)[k] = t[n + k]
      /\ t = SubSeq(t, 1, n) \o From(t, n + 1)
  BY <1>2, <1>3, Cut
<1> DEFINE a == SubSeq(text, i + 1, i + n)
           b == From(text, i + n + 1)
<1>5. a \in Seq(Symbols) /\ Len(a) = n /\ \A k \in 1..n : a[k] = text[i + k]
  BY <1>1
<1>6. b \in Seq(Symbols) /\ Len(b) = Len(text) - (i + n)
      /\ \A k \in 1..(Len(text) - (i + n)) : b[k] = text[i + n + k]
  <2>1. PICK j \in 0..Len(text) : j = i + n
    BY <1>1
  <2>2. /\ From(text, j + 1) \in Seq(Symbols) /\ Len(From(text, j + 1)) = Len(text) - j
        /\ \A k \in 1..(Len(text) - j) : From(text, j + 1)[k] = text[j + k]
    BY <1>1, Cut
  <2> QED
    BY <2>1, <2>2
<1> HIDE DEF a, b
<1>7. a = SubSeq(t, 1, n)
  <2>1. \A k \in 1..n : a[k] = SubSeq(t, 1, n)[k]
    <3> SUFFICES ASSUME NEW k \in 1..n PROVE a[k] = SubSeq(t, 1, n)[k]
      OBVIOUS
    <3>1. a[k] = text[i + k]
      BY <1>5
    <3>2. SubSeq(t, 1, n)[k] = t[k]
      BY <1>4
    <3>3. k \in 1..(Len(text) - i)
      BY <1>1
    <3>4. t[k] = text[i + k]
      BY <1>2, <3>3
    <3> QED
      BY <3>1, <3>2, <3>4
  <2> QED
    BY <1>4, <1>5, <2>1, SeqEqual
<1>8. b = From(t, n + 1)
  <2>1. Len(b) = Len(From(t, n + 1))
    <3>1. Len(b) = Len(text) - (i + n)
      BY <1>6
    <3>2. Len(From(t, n + 1)) = Len(t) - n /\ Len(t) = Len(text) - i
      BY <1>2, <1>4
    <3>3. Len(text) - (i + n) = (Len(text) - i) - n
      BY <1>1
    <3> QED
      BY <3>1, <3>2, <3>3
  <2>2. \A k \in 1..Len(b) : b[k] = From(t, n + 1)[k]
    <3> SUFFICES ASSUME NEW k \in 1..Len(b) PROVE b[k] = From(t, n + 1)[k]
      OBVIOUS
    <3>1. k \in 1..(Len(text) - (i + n)) /\ k \in 1..(Len(t) - n) /\ n + k \in 1..(Len(text) - i)
      BY <1>1, <1>2, <1>6
    <3>2. b[k] = text[i + n + k] /\ From(t, n + 1)[k] = t[n + k]
      BY <1>4, <1>6, <3>1
    <3>3. t[n + k] = text[i + (n + k)] /\ i + (n + k) = i + n + k
      BY <1>1, <1>2, <3>1
    <3> QED
      BY <3>2, <3>3
  <2> QED
    BY <1>4, <1>6, <2>1, <2>2, SeqEqual
<1>9. t = a \o b
  BY <1>4, <1>7, <1>8
<1>10. i = 0 => t = text
  BY <1>1, SubSeqFull DEF t, From
<1> QED
  BY <1>5, <1>6, <1>9, <1>10 DEF a, b, t, Text

\* A chunk of the model keeps the invariant.
LEMMA ChunkKeeps == ASSUME PipeInv, NEW n \in 1..MaxChunk, Chunk(n) PROVE PipeInv'
<1>1. /\ text \in Text /\ fed \in 0..Len(text) /\ think \in BOOLEAN /\ pending \in Text
      /\ wire \in Bytes /\ buffer \in Bytes /\ page \in Bytes
      /\ Tidy(buffer \o wire) /\ Find(buffer, Blank) = 0 /\ Total \in Answers
      /\ fed = 0 => think = FALSE /\ pending = <<>> /\ page = <<>> /\ buffer = <<>> /\ wire = <<>>
      /\ Len(text) \in Nat
  BY DEF PipeInv, Text
<1>2. n \in Nat \ {0} /\ fed \in Nat /\ fed + n =< Len(text) /\ fed + n \in 0..Len(text)
  BY <1>1, PipeAssumption DEF Chunk
<1> DEFINE c == SubSeq(text, fed + 1, fed + n)
           r == From(text, fed + n + 1)
           g == Take(c)
           f == Filter[g]
           s == buffer \o wire
           R == Rest(think, pending \o From(text, fed + 1))
<1>3. c \in Text /\ r \in Text /\ From(text, fed + 1) = c \o r /\ (fed = 0 => text = c \o r)
  <2>1. /\ c \in Text /\ r \in Text /\ From(text, fed + 1) = c \o r
        /\ fed = 0 => From(text, fed + 1) = text
    BY <1>1, <1>2, Split
  <2> QED
    BY <2>1
<1>4. /\ think' = f.think /\ pending' = f.pending /\ fed' = fed + n
      /\ wire' = IF f.emit = <<>> THEN wire ELSE wire \o Sse(f.emit)
      /\ text' = text /\ buffer' = buffer /\ page' = page
  BY DEF Chunk
<1> HIDE DEF c, r
<1>5. /\ g \in Scan /\ g.more
      /\ \/ Sent(g, r) = R
         \/ fed = 0 /\ StartsAt(Lstrip(text), Open, 1) /\ Sent(g, r) = Visible[Lstrip(text)]
  BY <1>1, <1>3, TakeKeeps
<1> HIDE DEF g, R
<1>6. f \in Scan /\ Sent(f, r) = Sent(g, r) /\ Held(f.think, f.pending)
  BY <1>3, <1>5, FilterKeeps
<1> HIDE DEF f
<1>7. f.think \in BOOLEAN /\ f.pending \in Text /\ f.emit \in Text /\ f.emit \in Bytes
  BY <1>6, Sizes DEF Scan, Text, Bytes
<1>8. s \in Bytes /\ Decode[s] \in Bytes
  <2>1. Joins(buffer, wire, wire)
    BY <1>1, Join
  <2> QED
    BY <2>1, DecodeIs DEF Joins
<1>9. /\ wire' \in Bytes /\ Tidy(buffer \o wire')
      /\ Decode[buffer \o wire'] = Decode[s] \o f.emit
  <2>1. CASE f.emit = <<>>
    <3>1. Joins(Decode[s], s, s)
      BY <1>8, Join
    <3>2. Decode[s] \o <<>> = Decode[s] /\ wire' = wire
      BY <1>4, <2>1, <3>1 DEF Joins
    <3> QED
      BY <1>1, <2>1, <3>2
  <2>2. CASE f.emit # <<>>
    <3> DEFINE t == Sse(f.emit)
    <3>1. t \in Bytes
      BY <1>7, SseIs
    <3>2. wire' = wire \o t
      BY <1>4, <2>2
    <3>3. Tidy(s \o t)
      BY <1>1, <1>7, <1>8, TidyAppend
    <3>4. Decode[s \o t] = Decode[s] \o f.emit
      BY <1>1, <1>7, <1>8, DecodeAppend
    <3> HIDE DEF t
    <3>5. Joins(buffer, wire, t) /\ Joins(wire, t, t)
      BY <1>1, <3>1, Join
    <3>6. buffer \o wire' = s \o t /\ wire' \in Bytes
      BY <3>2, <3>5 DEF Joins
    <3> QED
      BY <3>3, <3>4, <3>6
  <2> QED
    BY <2>1, <2>2
<1>10. Rest(f.think, f.pending \o r) \in Bytes
  <2>1. Regroups(f.pending, r, r)
    BY <1>3, <1>7, Regroup
  <2>2. Rest(f.think, f.pending \o r) \in Text
    BY <2>1, VisibleIs DEF Regroups, Rest
  <2> QED
    BY <2>2, Sizes DEF Bytes
<1>11. Total' = (page \o Decode[s]) \o Sent(f, r)
  <2> DEFINE D == Decode[s]
             e == f.emit
             z == Rest(f.think, f.pending \o r)
  <2>1. From(text, fed + n + 1) = r
    BY DEF r
  <2>2. Total' = (page \o (D \o e)) \o z
    <3>1. Total' = (page' \o Decode[buffer' \o wire']) \o Rest(think', pending' \o From(text', fed' + 1))
      BY DEF Total
    <3> QED
      BY <1>4, <1>9, <2>1, <3>1
  <2>3. Sent(f, r) = e \o z
    BY DEF Sent
  <2>4. page \in Bytes /\ D \in Bytes /\ e \in Bytes /\ z \in Bytes
    BY <1>1, <1>7, <1>8, <1>10
  <2> HIDE DEF D, e, z
  <2>5. Joins(page, D, e) /\ Joins(D, e, z)
    BY <2>4, Join
  <2>6. page \o D \in Bytes
    <3>1. Joins(page, D, D)
      BY <2>4, Join
    <3> QED
      BY <3>1 DEF Joins
  <2>7. Joins(page \o D, e, z)
    BY <2>4, <2>6, Join
  <2>8. Total' = ((page \o D) \o e) \o z
    BY <2>2, <2>5 DEF Joins
  <2>9. Total' = (page \o D) \o (e \o z)
    BY <2>7, <2>8 DEF Joins
  <2> QED
    BY <2>3, <2>9 DEF D
<1>12. Total' \in Answers
  <2>1. CASE Sent(g, r) = R
    <3>1. Total = (page \o Decode[s]) \o R
      BY DEF Total, R
    <3>2. Total' = Total
      BY <1>6, <1>11, <2>1, <3>1
    <3> QED
      BY <1>1, <3>2
  <2>2. CASE fed = 0 /\ StartsAt(Lstrip(text), Open, 1) /\ Sent(g, r) = Visible[Lstrip(text)]
    <3>1. Visible[Lstrip(text)] \in Answers /\ Visible[Lstrip(text)] \in Bytes
      BY <1>1, <2>2, AnswersAre, Sizes DEF Bytes
    <3>2. page = <<>> /\ s = <<>>
      <4>1. buffer = <<>> /\ wire = <<>> /\ page = <<>>
        BY <1>1, <2>2
      <4>2. Joins(buffer, wire, wire)
        BY <1>1, Join
      <4> QED
        BY <4>1, <4>2 DEF Joins
    <3>3. Decode[s] = <<>>
      <4>1. s \in Seq(Framed) /\ Len(s) = 0
        BY <3>2
      <4>2. Find(s, Blank) \in 0..Len(s)
        BY <4>1, FindIs
      <4>3. Find(s, Blank) = 0
        BY <4>1, <4>2
      <4> QED
        BY <1>8, <4>3, DecodeIs
    <3>4. Joins(page, Visible[Lstrip(text)], page) /\ Joins(Visible[Lstrip(text)], page, page)
      BY <1>1, <3>1, Join
    <3>5. Joins(page, page, page)
      BY <1>1, Join
    <3>6. page \o Decode[s] = <<>>
      BY <3>2, <3>3, <3>5 DEF Joins
    <3>7. Total' = Visible[Lstrip(text)]
      BY <1>6, <1>11, <2>2, <3>4, <3>6 DEF Joins
    <3> QED
      BY <3>1, <3>7
  <2> QED
    BY <1>5, <2>1, <2>2
<1>13. Answers' = Answers
  BY <1>4 DEF Answers
<1>14. fed' # 0 /\ fed' \in 0..Len(text')
  BY <1>2, <1>4
<1> QED
  BY <1>1, <1>4, <1>6, <1>7, <1>9, <1>12, <1>13, <1>14 DEF PipeInv

\* A read of the page keeps the invariant.
LEMMA ReadKeeps == ASSUME PipeInv, NEW n \in 1..MaxCut, Read(n) PROVE PipeInv'
<1>1. /\ text \in Text /\ fed \in 0..Len(text) /\ think \in BOOLEAN /\ pending \in Text
      /\ wire \in Bytes /\ buffer \in Bytes /\ page \in Bytes
      /\ Held(think, pending)
      /\ Tidy(buffer \o wire) /\ Total \in Answers
      /\ fed = 0 => wire = <<>>
  BY DEF PipeInv
<1>2. n \in Nat \ {0} /\ n =< Len(wire) /\ Len(wire) \in Nat
  BY <1>1, PipeAssumption DEF Read, Bytes
<1> DEFINE a == SubSeq(wire, 1, n)
           w == From(wire, n + 1)
           b == [buffer |-> buffer \o a, page |-> page]
           d == Frames[b]
<1>3. a \in Bytes /\ w \in Bytes /\ wire = a \o w
  <2>1. PICK i \in 0..Len(wire) : i = n
    BY <1>2
  <2>2. /\ SubSeq(wire, 1, i) \in Seq(Framed) /\ From(wire, i + 1) \in Seq(Framed)
        /\ wire = SubSeq(wire, 1, i) \o From(wire, i + 1)
    BY <1>1, Cut DEF Bytes
  <2> QED
    BY <2>1, <2>2 DEF Bytes
<1>4. /\ wire' = w /\ buffer' = d.buffer /\ page' = d.page
      /\ text' = text /\ fed' = fed /\ think' = think /\ pending' = pending
  BY DEF Read
<1> HIDE DEF a, w
<1>5. Joins(buffer, a, w)
  BY <1>1, <1>3, Join
<1>6. b \in Reader /\ b.buffer = buffer \o a /\ b.page = page
  BY <1>1, <1>5 DEF Reader, Bytes, Joins
<1>7. b.buffer \o w = buffer \o wire
  BY <1>3, <1>5, <1>6 DEF Joins
<1> HIDE DEF b
<1>8. /\ d \in Reader /\ Find(d.buffer, Blank) = 0
      /\ Seen(d, w) = Seen(b, w) /\ Tidy(d.buffer \o w)
  BY <1>1, <1>3, <1>6, <1>7, FramesKeeps
<1> HIDE DEF d
<1>9. d.buffer \in Bytes /\ d.page \in Bytes
  BY <1>8 DEF Reader, Bytes
<1>10. Total' = Total
  <2>1. Total' = (page' \o Decode[buffer' \o wire']) \o Rest(think', pending' \o From(text', fed' + 1))
    BY DEF Total
  <2>2. Total' = Seen(d, w) \o Rest(think, pending \o From(text, fed + 1))
    BY <1>4, <2>1 DEF Seen
  <2>3. Seen(b, w) = page \o Decode[buffer \o wire]
    BY <1>6, <1>7 DEF Seen
  <2> QED
    BY <1>8, <2>2, <2>3 DEF Total
<1>11. fed # 0
  BY <1>1, <1>2
<1>12. Answers' = Answers
  BY <1>4 DEF Answers
<1> QED
  BY <1>1, <1>3, <1>4, <1>8, <1>9, <1>10, <1>11, <1>12 DEF PipeInv

\* The invariant over one step.
LEMMA PipeInvNext == PipeInv /\ [PipeNext]_pipe => PipeInv'
<1> SUFFICES ASSUME PipeInv, [PipeNext]_pipe PROVE PipeInv'
  OBVIOUS
<1>1. ASSUME NEW n \in 1..MaxChunk, Chunk(n) PROVE PipeInv'
  BY <1>1, ChunkKeeps
<1>2. ASSUME NEW n \in 1..MaxCut, Read(n) PROVE PipeInv'
  BY <1>2, ReadKeeps
<1>3. CASE UNCHANGED pipe
  BY <1>3 DEF pipe, PipeInv, Total, Answers
<1> QED
  BY <1>1, <1>2, <1>3 DEF PipeNext

\* The page, the wire and the filter hold what they are made for, on every way of an answer.
THEOREM PipeTypeCorrect == PipeSpec => []PipeTypeOK
<1> QED
  BY PipeInvInit, PipeInvNext, PipeInvShows, PTL DEF PipeSpec

\* The page shows a beginning of the answer without its think blocks, and in the end all of
\* it, for every answer, every way the model cuts it into chunks and every way the network
\* cuts the frames (_stream_response, _sse and streamChatQuery).
THEOREM ShowsAnswer == PipeSpec => []PageShowsAnswer
<1> QED
  BY PipeInvInit, PipeInvNext, PipeInvShows, PTL DEF PipeSpec

-------------------------------------------------------------------------------
(* The selected model. *)

\* What a query under way may meet is among what was selected since its launch, and the
\* agent, however the selection moves on, keeps to an available model.
Following ==
    /\ Up <=> current # "down"
    /\ \A q \in Queries : query[q].pc = "running" =>
         Up /\ config \in chosen[q] /\ current \in chosen[q]
SelectionInv == ModelTypeOK /\ Following /\ AnsweredBySelection

QueryState == [pc : {"new", "running", "answered", "failed"}, model : Models \union {"none"}]

\* The invariant at the beginning.
LEMMA SelectionBegins == ModelInit => SelectionInv
<1> SUFFICES ASSUME ModelInit PROVE SelectionInv
  OBVIOUS
<1>1. ModelTypeOK
  BY DEF ModelInit, ModelTypeOK
<1>2. Following /\ AnsweredBySelection
  BY DEF ModelInit, Following, Up, AnsweredBySelection
<1> QED
  BY <1>1, <1>2 DEF SelectionInv

\* The invariant over one step.
LEMMA SelectionKeeps == ASSUME SelectionInv, [ModelNext]_model PROVE SelectionInv'
<1>0. /\ query \in [Queries -> QueryState] /\ chosen \in [Queries -> SUBSET Names]
      /\ config \in Names \union {"down"} /\ current \in Models \union {"down"}
      /\ selects \in Nat /\ crashes \in Nat /\ file \in Names \union {"missing", "torn"}
      /\ Models \subseteq Names
  BY DEF SelectionInv, ModelTypeOK, QueryState, Names
<1>T. ASSUME query' \in [Queries -> QueryState], chosen' \in [Queries -> SUBSET Names],
             config' \in Names \union {"down"}, current' \in Models \union {"down"},
             selects' \in Nat, crashes' \in Nat, file' \in Names \union {"missing", "torn"}
      PROVE  ModelTypeOK'
  BY <1>T DEF ModelTypeOK, QueryState
<1>1. ASSUME Start PROVE SelectionInv'
  <2>1. config' \in Models /\ current' = config' /\ file' = config'
    BY <1>1, ModelAssumption DEF Start
  <2>2. ModelTypeOK'
    BY <1>0, <1>1, <1>T, <2>1 DEF Start
  <2>3. Following' /\ AnsweredBySelection'
    BY <1>0, <1>1, <2>1, ModelAssumption DEF Start, SelectionInv, Following, AnsweredBySelection, Up
  <2> QED
    BY <2>2, <2>3 DEF SelectionInv
<1>2. ASSUME NEW m \in Names, NEW left \in {m, file, "torn"}, Select(m, left) PROVE SelectionInv'
  <2>1. chosen' \in [Queries -> SUBSET Names]
    BY <1>0, <1>2 DEF Select
  <2>2. ModelTypeOK'
    BY <1>0, <1>2, <1>T, <2>1 DEF Select
  <2>3. \A q \in Queries : /\ chosen[q] \subseteq chosen'[q]
                           /\ query[q].pc = "running" => m \in chosen'[q]
    BY <1>0, <1>2 DEF Select
  <2>4. Following' /\ AnsweredBySelection'
    BY <1>0, <1>2, <2>3, ModelAssumption DEF Select, SelectionInv, Following, AnsweredBySelection, Up
  <2> QED
    BY <2>2, <2>4 DEF SelectionInv
<1>3. ASSUME NEW q \in Queries, Launch(q) PROVE SelectionInv'
  <2>1. config \in Names
    BY <1>0, <1>3 DEF Launch, Up
  <2>2. /\ chosen'[q] = {config} /\ \A x \in Queries : x # q => chosen'[x] = chosen[x]
        /\ chosen' \in [Queries -> SUBSET Names]
    BY <1>0, <1>3, <2>1 DEF Launch
  <2>3. /\ query' \in [Queries -> QueryState] /\ query'[q].pc \in {"running", "failed"}
        /\ \A x \in Queries : x # q => query'[x] = query[x]
    BY <1>0, <1>3 DEF Launch, QueryState
  <2>4. current' \in Models /\ (current' = config \/ (current' = current /\ query'[q].pc = "failed"))
    BY <1>0, <1>3, <2>1, ModelAssumption DEF Launch, Up, SelectionInv, Following, QueryState
  <2>5. ModelTypeOK'
    BY <1>0, <1>3, <1>T, <2>2, <2>3, <2>4 DEF Launch
  <2>6. Following'
    BY <1>0, <1>3, <2>1, <2>2, <2>3, <2>4, ModelAssumption DEF Launch, SelectionInv, Following, Up
  <2>7. AnsweredBySelection'
    BY <2>2, <2>3 DEF SelectionInv, AnsweredBySelection
  <2> QED
    BY <2>5, <2>6, <2>7 DEF SelectionInv
<1>4. ASSUME NEW q \in Queries, Call(q) PROVE SelectionInv'
  <2>1. current \in Models /\ current \in chosen[q]
    BY <1>0, <1>4 DEF Call, SelectionInv, Following
  <2>2. /\ query' \in [Queries -> QueryState]
        /\ query'[q].pc = "answered" /\ query'[q].model = current
        /\ \A x \in Queries : x # q => query'[x] = query[x]
    BY <1>0, <1>4, <2>1 DEF Call, QueryState
  <2>3. ModelTypeOK'
    BY <1>0, <1>4, <1>T, <2>2 DEF Call
  <2>4. Following'
    BY <1>4, <2>2 DEF Call, SelectionInv, Following, Up
  <2>5. AnsweredBySelection'
    BY <1>4, <2>1, <2>2 DEF Call, SelectionInv, AnsweredBySelection
  <2> QED
    BY <2>3, <2>4, <2>5 DEF SelectionInv
<1>5. ASSUME NEW left \in {file, "torn", "missing"}, Crash(left) PROVE SelectionInv'
  <2>1. /\ query' \in [Queries -> QueryState]
        /\ \A q \in Queries : /\ query'[q].pc # "running"
                              /\ query'[q].pc = "answered" => query'[q] = query[q]
    BY <1>0, <1>5 DEF Crash, QueryState
  <2>2. ModelTypeOK'
    BY <1>0, <1>5, <1>T, <2>1 DEF Crash
  <2>3. Following' /\ AnsweredBySelection'
    BY <1>5, <2>1 DEF Crash, SelectionInv, Following, AnsweredBySelection, Up
  <2> QED
    BY <2>2, <2>3 DEF SelectionInv
<1>6. CASE UNCHANGED model
  BY <1>6 DEF model, SelectionInv, ModelTypeOK, Following, AnsweredBySelection, Up
<1> QED
  BY <1>1, <1>2, <1>3, <1>4, <1>5, <1>6 DEF ModelNext

\* Every variable keeps its type: the agent never holds a model that is not available
\* (agent.py:113-126).
THEOREM ModelTypeCorrect == ModelSpec => []ModelTypeOK
<1>1. SelectionInv => ModelTypeOK
  BY DEF SelectionInv
<1> QED
  BY <1>1, SelectionBegins, SelectionKeeps, PTL DEF ModelSpec

\* A query is answered by an available model that was selected at some moment between its
\* launch and its call of the model (agent.py:219, 412-414).
THEOREM AnswersBySelection == ModelSpec => []AnsweredBySelection
<1>1. SelectionInv => AnsweredBySelection
  BY DEF SelectionInv
<1> QED
  BY <1>1, SelectionBegins, SelectionKeeps, PTL DEF ModelSpec
===============================================================================
