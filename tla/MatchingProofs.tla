---------------------------- MODULE MatchingProofs ----------------------------
(***************************************************************************)
(* What the company matching of EmailMatching computes, for names of any   *)
(* length.  normalise and difflib's comparison are recursive functions, so *)
(* each is first shown to exist: from a function that satisfies the        *)
(* recursion on the ranges shorter than n one is made that satisfies it on *)
(* those of length n, too.  The induction is over sets of natural numbers  *)
(* (StrongInduction).                                                      *)
(***************************************************************************)
EXTENDS EmailMatching, FiniteSetTheorems, SequenceTheorems, WellFoundedInduction, TLAPS

(* The order of the natural numbers.                                       *)
Below == {e \in Nat \X Nat : e[1] < e[2]}

(* It is well-founded.                                                     *)
LEMMA BelowIsWellFounded == IsWellFoundedOn(Below, Nat)
BY NatLessThanWellFounded, SMT DEF OpToRel, Below

(* Of natural numbers one is the least.                                    *)
LEMMA LeastNatural ==
    ASSUME NEW S, S \subseteq Nat, S # {}
    PROVE  \E n \in S : \A k \in S : n <= k
<1>1. PICK n \in S : \A k \in S : ~ (<<k, n>> \in Below)
  <2>1. \E n \in S : \A k \in S : ~ (<<k, n>> \in Below)
    BY ONLY S \subseteq Nat, S # {}, BelowIsWellFounded, WFMin, Zenon
  <2> QED  BY <2>1
<1>2. ASSUME NEW k \in S PROVE n <= k
  <2>1. k \in Nat /\ n \in Nat /\ <<k, n>> \notin Below
      BY <1>1
  <2> QED  BY <2>1 DEF Below
<1> QED  BY <1>2

(* A set that holds a number whenever it holds those below it holds all.   *)
LEMMA StrongInduction ==
    ASSUME NEW S, \A n \in Nat : (\A k \in 0..(n - 1) : k \in S) => n \in S
    PROVE  Nat \subseteq S
<1> SUFFICES ASSUME Nat \ S # {} PROVE FALSE
    OBVIOUS
<1>1. PICK n \in Nat \ S : \A k \in Nat \ S : n <= k
    BY LeastNatural
<1>2. \A k \in 0..(n - 1) : k \in S
    BY <1>1
<1> QED  BY <1>1, <1>2

(* Of things that are numbered one has the least number.                   *)
LEMMA LeastNumbered ==
    ASSUME NEW S, S # {}, NEW number \in [S -> Nat]
    PROVE  \E x \in S : \A y \in S : number[x] <= number[y]
<1>1. {number[x] : x \in S} \subseteq Nat /\ {number[x] : x \in S} # {}
    OBVIOUS
<1>2. PICK n \in {number[x] : x \in S} : \A k \in {number[x] : x \in S} : n <= k
    BY <1>1, LeastNatural
<1>3. PICK x \in S : n = number[x]
    BY <1>2
<1> QED  BY <1>2, <1>3
-----------------------------------------------------------------------------
(* Normalisation, one character at a time.                                 *)
Kept(name, kept, n) ==
    IF n = 0 THEN <<>>
    ELSE IF name[n] \in Alphanumeric THEN Append(kept[n - 1], name[n])
    ELSE kept[n - 1]

(* Some function does what Normalise defines.                              *)
LEMMA KeptExists ==
    ASSUME NEW name \in Seq(Character)
    PROVE  \E kept : kept = [n \in 0..Len(name) |-> Kept(name, kept, n)]
<1> DEFINE Upto(g, n) == \A i \in 0..Len(name) : i < n => g[i] = Kept(name, g, i)
           S == {n \in Nat : \E g \in [0..Len(name) -> Seq(Alphanumeric)] : Upto(g, n)}
<1>1. ASSUME NEW n \in Nat, \A k \in 0..(n - 1) : k \in S PROVE n \in S
  <2>1. CASE n = 0
    <3> DEFINE g == [i \in 0..Len(name) |-> <<>>]
    <3>1. g \in [0..Len(name) -> Seq(Alphanumeric)] /\ Upto(g, n)
        BY <2>1
    <3> HIDE DEF g
    <3> QED  BY <3>1
  <2>2. CASE n # 0
    <3>1. PICK g \in [0..Len(name) -> Seq(Alphanumeric)] : Upto(g, n - 1)
        BY <1>1, <2>2
    <3> DEFINE h == [i \in 0..Len(name) |-> Kept(name, g, i)]
    <3>2. h \in [0..Len(name) -> Seq(Alphanumeric)]
        BY DEF Kept
    <3>3. ASSUME NEW i \in 0..Len(name), i < n PROVE h[i] = Kept(name, h, i)
      <4>1. i = 0 \/ (i - 1 \in 0..Len(name) /\ i - 1 < n - 1)
          BY <3>3
      <4>2. i = 0 \/ h[i - 1] = g[i - 1]
          BY <4>1, <3>1
      <4> QED  BY <4>2 DEF Kept
    <3> HIDE DEF h
    <3> QED  BY <3>2, <3>3
  <2> QED  BY <2>1, <2>2
<1>2. Len(name) + 1 \in S
  <2> HIDE DEF S
  <2>1. Nat \subseteq S
      BY <1>1, StrongInduction
  <2> QED  BY <2>1
<1>3. PICK g \in [0..Len(name) -> Seq(Alphanumeric)] : Upto(g, Len(name) + 1)
    BY <1>2
<1>4. g = [n \in 0..Len(name) |-> Kept(name, g, n)]
    BY <1>3
<1> QED  BY <1>4

(* A normalised name consists of letters and digits.                       *)
LEMMA NormaliseType ==
    ASSUME NEW name \in Seq(Character)
    PROVE  Normalise(name) \in Seq(Alphanumeric)
<1> DEFINE kept == CHOOSE kept : kept = [n \in 0..Len(name) |-> Kept(name, kept, n)]
           S == {n \in Nat : n <= Len(name) => kept[n] \in Seq(Alphanumeric)}
<1>1. kept = [n \in 0..Len(name) |-> Kept(name, kept, n)]
    BY KeptExists
<1>2. Normalise(name) = kept[Len(name)]
    BY DEF Normalise, Kept
<1> HIDE DEF kept
<1>3. ASSUME NEW n \in Nat, \A k \in 0..(n - 1) : k \in S PROVE n \in S
  <2> SUFFICES ASSUME n <= Len(name) PROVE kept[n] \in Seq(Alphanumeric)
      OBVIOUS
  <2>1. kept[n] = Kept(name, kept, n)
      BY <1>1
  <2>2. n = 0 \/ kept[n - 1] \in Seq(Alphanumeric)
      BY <1>3
  <2> QED  BY <2>1, <2>2 DEF Kept
<1>4. Len(name) \in S
  <2> HIDE DEF S
  <2>1. Nat \subseteq S
      BY <1>3, StrongInduction
  <2> QED  BY <2>1
<1> QED  BY <1>2, <1>4

(* So it is a name.                                                        *)
LEMMA NormaliseIsName ==
    ASSUME NEW name \in Seq(Character)
    PROVE  Normalise(name) \in Seq(Character)
<1>1. Normalise(name) \in Seq(Alphanumeric)
    BY NormaliseType
<1> QED  BY <1>1, CharacterAssumption, SMT

(* Nothing is left of nothing.                                             *)
LEMMA NormaliseEmpty == Normalise(<<>>) = <<>>
<1> DEFINE kept == CHOOSE kept : kept = [n \in 0..Len(<<>>) |-> Kept(<<>>, kept, n)]
<1>1. kept = [n \in 0..Len(<<>>) |-> Kept(<<>>, kept, n)]
    BY KeptExists
<1>2. Normalise(<<>>) = kept[Len(<<>>)]
    BY DEF Normalise, Kept
<1> HIDE DEF kept
<1> QED  BY <1>1, <1>2 DEF Kept
-----------------------------------------------------------------------------
(* difflib's comparison of two ranges, given what it says of smaller ones. *)
LeftOf(r, m) == [alo |-> r.alo, ahi |-> m.a, blo |-> r.blo, bhi |-> m.b]

RightOf(r, m) == [alo |-> m.a + m.size, ahi |-> r.ahi, blo |-> m.b + m.size, bhi |-> r.bhi]

Longest(s, t, r) == LongestOf(CommonBlocks(s, t, r))

MatchedIn(s, t, matched, r) ==
    IF CommonBlocks(s, t, r) = {} THEN 0
    ELSE Longest(s, t, r).size + matched[LeftOf(r, Longest(s, t, r))]
                               + matched[RightOf(r, Longest(s, t, r))]

Matched(s, t, matched) == matched = [r \in Ranges(s, t) |-> MatchedIn(s, t, matched, r)]

Span(r) == (r.ahi - r.alo) + (r.bhi - r.blo)

(* Not reversed. *)
Proper(r) == r.alo <= r.ahi /\ r.blo <= r.bhi

(* Where a common block lies.                                              *)
LEMMA BlockBounds ==
    ASSUME NEW s \in Seq(Character), NEW t \in Seq(Character), NEW r \in Ranges(s, t),
           NEW m \in CommonBlocks(s, t, r)
    PROVE  /\ m \in [a: Nat, b: Nat, size: 1..Len(s)]
           /\ r.alo <= m.a /\ m.a + m.size <= r.ahi
           /\ r.blo <= m.b /\ m.b + m.size <= r.bhi
           /\ \A k \in 1..m.size : s[m.a + k] = t[m.b + k]
BY DEF Ranges, CommonBlocks

(* Of the common blocks there is a longest, and of those a first.          *)
LEMMA LongestIsCommon ==
    ASSUME NEW s \in Seq(Character), NEW t \in Seq(Character), NEW r \in Ranges(s, t),
           CommonBlocks(s, t, r) # {}
    PROVE  /\ Longest(s, t, r) \in CommonBlocks(s, t, r)
           /\ \A n \in CommonBlocks(s, t, r) : n.size <= Longest(s, t, r).size
<1> DEFINE S == CommonBlocks(s, t, r)
           Rest == [m \in S |-> Len(s) - m.size]
           Longer(m, n) == \/ m.size > n.size
                           \/ m.size = n.size /\ m.a < n.a
                           \/ m.size = n.size /\ m.a = n.a /\ m.b <= n.b
<1>1. \A m \in S : m.a \in Nat /\ m.b \in Nat /\ m.size \in 1..Len(s)
    BY BlockBounds
<1> HIDE DEF S
<1>2. PICK x \in S : \A y \in S : Rest[x] <= Rest[y]
  <2>1. S # {} /\ Rest \in [S -> Nat]
      BY <1>1 DEF S
  <2> QED  BY <2>1, LeastNumbered
<1> DEFINE T == {m \in S : m.size = x.size}
<1>3. PICK y \in T : \A z \in T : y.a <= z.a
  <2> DEFINE f == [m \in T |-> m.a]
  <2>1. T # {} /\ f \in [T -> Nat]
      BY <1>1
  <2> HIDE DEF T
  <2>2. PICK y \in T : \A z \in T : f[y] <= f[z]
      BY ONLY <2>1, LeastNumbered
  <2> QED  BY <2>2
<1> DEFINE U == {m \in T : m.a = y.a}
<1>4. PICK z \in U : \A u \in U : z.b <= u.b
  <2> DEFINE f == [m \in U |-> m.b]
  <2>1. U # {} /\ f \in [U -> Nat]
      BY <1>1
  <2> HIDE DEF U
  <2>2. PICK z \in U : \A u \in U : f[z] <= f[u]
      BY ONLY <2>1, LeastNumbered
  <2> QED  BY <2>2
<1>5. ASSUME NEW n \in S PROVE Longer(z, n)
  <2>1. Len(s) \in Nat /\ Len(s) - x.size <= Len(s) - n.size
      BY <1>2, <1>5
  <2>2. n.size <= x.size /\ z.size = x.size /\ z.a = y.a
      BY <2>1, <1>1, <1>5
  <2>3. CASE n.size < x.size
      BY <2>2, <2>3, <1>1, <1>5
  <2>4. CASE n.size = x.size
    <3>1. n \in T /\ y.a <= n.a
        BY <2>4, <1>3, <1>5
    <3>2. n.a = y.a => z.b <= n.b
        BY <3>1, <1>4
    <3> QED  BY <3>1, <3>2, <2>2, <2>4, <1>1, <1>3, <1>5
  <2> QED  BY <2>2, <2>3, <2>4, <1>1, <1>5
<1>6. z \in S
    BY <1>4
<1>7. /\ Longest(s, t, r) \in S
      /\ \A n \in S : Longer(Longest(s, t, r), n)
  <2>1. \E m \in S : \A n \in S : Longer(m, n)
      BY <1>5, <1>6
  <2>2. Longest(s, t, r) = CHOOSE m \in S : \A n \in S : Longer(m, n)
      BY DEF Longest, LongestOf, S
  <2> HIDE DEF Longer
  <2> QED  BY <2>1, <2>2
<1>8. ASSUME NEW n \in S PROVE n.size <= Longest(s, t, r).size
  <2> DEFINE m == Longest(s, t, r)
  <2>1. m.size \in Nat /\ n.size \in Nat
      BY <1>1, <1>7, <1>8
  <2>2. m.size > n.size \/ m.size = n.size
      BY <1>7, <1>8
  <2> HIDE DEF m
  <2>3. n.size <= m.size
      BY <2>1, <2>2
  <2> QED  BY <2>3 DEF m
<1> HIDE DEF Longer
<1> QED  BY <1>7, <1>8 DEF S

(* What lies on either side of a common block is a smaller range.          *)
LEMMA SidesAreSmaller ==
    ASSUME NEW s \in Seq(Character), NEW t \in Seq(Character), NEW r \in Ranges(s, t),
           NEW m \in CommonBlocks(s, t, r)
    PROVE  /\ Proper(r) /\ Span(r) \in Nat
           /\ LeftOf(r, m) \in Ranges(s, t) /\ RightOf(r, m) \in Ranges(s, t)
           /\ Proper(LeftOf(r, m)) /\ Proper(RightOf(r, m))
           /\ Span(LeftOf(r, m)) \in Nat /\ Span(LeftOf(r, m)) < Span(r)
           /\ Span(RightOf(r, m)) \in Nat /\ Span(RightOf(r, m)) < Span(r)
<1> DEFINE alo == r.alo  ahi == r.ahi  blo == r.blo  bhi == r.bhi
           a == m.a  b == m.b  size == m.size
           ls == Len(s)  lt == Len(t)
<1>1. /\ a \in Nat /\ b \in Nat /\ size \in 1..ls
      /\ alo <= a /\ a + size <= ahi
      /\ blo <= b /\ b + size <= bhi
    BY BlockBounds
<1>2. /\ alo \in 0..ls /\ ahi \in 0..ls /\ blo \in 0..lt /\ bhi \in 0..lt
      /\ ls \in Nat /\ lt \in Nat
    BY DEF Ranges
<1>3. LeftOf(r, m) = [alo |-> alo, ahi |-> a, blo |-> blo, bhi |-> b]
    BY DEF LeftOf
<1>4. RightOf(r, m) = [alo |-> a + size, ahi |-> ahi, blo |-> b + size, bhi |-> bhi]
    BY DEF RightOf
<1>5. Proper(r) <=> alo <= ahi /\ blo <= bhi
    BY DEF Proper
<1>6. Span(r) = (ahi - alo) + (bhi - blo)
    BY DEF Span
<1>7. Ranges(s, t) = [alo: 0..ls, ahi: 0..ls, blo: 0..lt, bhi: 0..lt]
    BY DEF Ranges
<1> HIDE DEF alo, ahi, blo, bhi, a, b, size, ls, lt
<1>8. /\ a \in 0..ls /\ a + size \in 0..ls
      /\ b \in 0..lt /\ b + size \in 0..lt
    BY <1>1, <1>2
<1>9. LeftOf(r, m) \in Ranges(s, t) /\ RightOf(r, m) \in Ranges(s, t)
    BY <1>2, <1>3, <1>4, <1>7, <1>8
<1>10. Proper(LeftOf(r, m)) /\ Proper(RightOf(r, m)) /\ Proper(r)
    BY <1>1, <1>2, <1>3, <1>4, <1>5 DEF Proper
<1>11. /\ Span(LeftOf(r, m)) = (a - alo) + (b - blo)
       /\ Span(RightOf(r, m)) = (ahi - (a + size)) + (bhi - (b + size))
    BY <1>3, <1>4 DEF Span
<1>12. /\ Span(r) \in Nat
       /\ Span(LeftOf(r, m)) \in Nat /\ Span(LeftOf(r, m)) < Span(r)
       /\ Span(RightOf(r, m)) \in Nat /\ Span(RightOf(r, m)) < Span(r)
    BY <1>1, <1>2, <1>6, <1>11
<1> QED  BY <1>9, <1>10, <1>12
-----------------------------------------------------------------------------
(* Some function does what Matches defines.                                *)
LEMMA MatchedExists ==
    ASSUME NEW s \in Seq(Character), NEW t \in Seq(Character)
    PROVE  \E matched : Matched(s, t, matched)
<1> DEFINE Upto(g, n) == \A r \in Ranges(s, t) :
                            Span(r) < n => g[r] = MatchedIn(s, t, g, r)
           S == {n \in Nat : \E g \in [Ranges(s, t) -> Nat] : Upto(g, n)}
<1>1. ASSUME NEW g \in [Ranges(s, t) -> Nat], NEW r \in Ranges(s, t)
      PROVE  MatchedIn(s, t, g, r) \in Nat
  <2>1. CASE CommonBlocks(s, t, r) = {}
      BY <2>1 DEF MatchedIn
  <2>2. CASE CommonBlocks(s, t, r) # {}
    <3> DEFINE m == Longest(s, t, r)
    <3>1. m \in CommonBlocks(s, t, r)
        BY <2>2, LongestIsCommon
    <3> HIDE DEF m
    <3>2. m.size \in Nat /\ LeftOf(r, m) \in Ranges(s, t) /\ RightOf(r, m) \in Ranges(s, t)
      <4>1. m.size \in 1..Len(s) /\ Len(s) \in Nat
          BY <3>1, BlockBounds
      <4> QED  BY <4>1, <3>1, SidesAreSmaller
    <3>3. MatchedIn(s, t, g, r) = m.size + g[LeftOf(r, m)] + g[RightOf(r, m)]
        BY <2>2 DEF MatchedIn, m
    <3> QED  BY <3>2, <3>3
  <2> QED  BY <2>1, <2>2
<1>2. ASSUME NEW n \in Nat, \A k \in 0..(n - 1) : k \in S PROVE n \in S
  <2> DEFINE zero == [r \in Ranges(s, t) |-> 0]
  <2>1. \E g \in [Ranges(s, t) -> Nat] : n > 0 => Upto(g, n - 1)
    <3>1. CASE n = 0
      <4>1. zero \in [Ranges(s, t) -> Nat]
          OBVIOUS
      <4> HIDE DEF Upto, zero
      <4> QED  BY <4>1, <3>1
    <3>2. CASE n > 0
      <4>1. n - 1 \in 0..(n - 1)
          BY <3>2
      <4> HIDE DEF Upto
      <4> QED  BY <4>1, <1>2
    <3> QED  BY <3>1, <3>2
  <2>2. PICK g \in [Ranges(s, t) -> Nat] : n > 0 => Upto(g, n - 1)
      BY <2>1
  <2> DEFINE h == [r \in Ranges(s, t) |-> MatchedIn(s, t, g, r)]
  <2>3. h \in [Ranges(s, t) -> Nat]
      BY <1>1
  <2>4. ASSUME NEW r \in Ranges(s, t), Span(r) < n PROVE h[r] = MatchedIn(s, t, h, r)
    <3>1. CASE CommonBlocks(s, t, r) = {}
        BY <3>1 DEF MatchedIn
    <3>2. CASE CommonBlocks(s, t, r) # {}
      <4> DEFINE m == Longest(s, t, r)
      <4>1. m \in CommonBlocks(s, t, r)
          BY <3>2, LongestIsCommon
      <4> HIDE DEF m
      <4>2. /\ LeftOf(r, m) \in Ranges(s, t) /\ RightOf(r, m) \in Ranges(s, t)
            /\ Span(r) \in Nat
            /\ Span(LeftOf(r, m)) \in Nat /\ Span(LeftOf(r, m)) < Span(r)
            /\ Span(RightOf(r, m)) \in Nat /\ Span(RightOf(r, m)) < Span(r)
          BY <4>1, SidesAreSmaller
      <4>3. n > 0 /\ Span(LeftOf(r, m)) < n - 1 /\ Span(RightOf(r, m)) < n - 1
          BY <4>2, <2>4
      <4>4. g[LeftOf(r, m)] = h[LeftOf(r, m)] /\ g[RightOf(r, m)] = h[RightOf(r, m)]
          BY <4>2, <4>3, <2>2
      <4> HIDE DEF h
      <4>5. MatchedIn(s, t, g, r) = MatchedIn(s, t, h, r)
          BY <4>4, <3>2 DEF MatchedIn, m
      <4> QED  BY <4>5 DEF h
    <3> QED  BY <3>1, <3>2
  <2> HIDE DEF h
  <2> QED  BY <2>3, <2>4
<1>3. Len(s) + Len(t) + 1 \in S
  <2> HIDE DEF S
  <2>1. Nat \subseteq S
      BY <1>2, StrongInduction
  <2> QED  BY <2>1
<1>4. PICK g \in [Ranges(s, t) -> Nat] : Upto(g, Len(s) + Len(t) + 1)
    BY <1>3
<1>5. \A r \in Ranges(s, t) : Span(r) < Len(s) + Len(t) + 1
    BY DEF Ranges, Span
<1>6. g = [r \in Ranges(s, t) |-> MatchedIn(s, t, g, r)]
    BY <1>4, <1>5
<1> QED  BY <1>6 DEF Matched

(* The whole names.                                                        *)
Whole(s, t) == [alo |-> 0, ahi |-> Len(s), blo |-> 0, bhi |-> Len(t)]

(* Matches is what some such function says of them.                        *)
LEMMA MatchesIsMatched ==
    ASSUME NEW s \in Seq(Character), NEW t \in Seq(Character)
    PROVE  /\ \E matched : /\ Matched(s, t, matched)
                           /\ Matches(s, t) = matched[Whole(s, t)]
           /\ Whole(s, t) \in Ranges(s, t) /\ Proper(Whole(s, t))
<1> DEFINE matched == CHOOSE matched : Matched(s, t, matched)
<1>1. Matched(s, t, matched)
    BY MatchedExists
<1>2. Matches(s, t) = matched[Whole(s, t)]
    BY DEF Matches, Matched, MatchedIn, Longest, LeftOf, RightOf, Whole
<1> HIDE DEF matched
<1>3. Whole(s, t) \in Ranges(s, t) /\ Proper(Whole(s, t))
    BY DEF Whole, Ranges, Proper
<1> QED  BY <1>1, <1>2, <1>3

(* The result for a range in which some block is common.                   *)
LEMMA MatchedUnfold ==
    ASSUME NEW s \in Seq(Character), NEW t \in Seq(Character),
           NEW f, Matched(s, t, f), NEW r \in Ranges(s, t)
    PROVE  \/ CommonBlocks(s, t, r) = {} /\ f[r] = 0
           \/ \E m \in CommonBlocks(s, t, r) :
                 /\ f[r] = m.size + f[LeftOf(r, m)] + f[RightOf(r, m)]
                 /\ \A n \in CommonBlocks(s, t, r) : n.size <= m.size
<1>1. f[r] = MatchedIn(s, t, f, r)
    BY DEF Matched
<1>2. CASE CommonBlocks(s, t, r) = {}
    BY <1>1, <1>2 DEF MatchedIn
<1>3. CASE CommonBlocks(s, t, r) # {}
  <2>1. /\ Longest(s, t, r) \in CommonBlocks(s, t, r)
        /\ \A n \in CommonBlocks(s, t, r) : n.size <= Longest(s, t, r).size
      BY <1>3, LongestIsCommon
  <2> QED  BY <1>1, <1>3, <2>1 DEF MatchedIn
<1> QED  BY <1>2, <1>3

(* No range matches more than its length, and only equal ones match wholly.*)
Fits(s, t, f, r) ==
    /\ f[r] \in Nat
    /\ f[r] <= r.ahi - r.alo
    /\ f[r] <= r.bhi - r.blo
    /\ f[r] = r.ahi - r.alo /\ f[r] = r.bhi - r.blo
          => \A k \in 1..f[r] : s[r.alo + k] = t[r.blo + k]

(* What fits on either side of a common block fits together.               *)
LEMMA FitsTogether ==
    ASSUME NEW s, NEW t, NEW f, NEW r, NEW m,
           r.alo \in Nat, r.ahi \in Nat, r.blo \in Nat, r.bhi \in Nat,
           m.a \in Nat, m.b \in Nat, m.size \in Nat,
           r.alo <= m.a, m.a + m.size <= r.ahi,
           r.blo <= m.b, m.b + m.size <= r.bhi,
           \A k \in 1..m.size : s[m.a + k] = t[m.b + k],
           Fits(s, t, f, LeftOf(r, m)), Fits(s, t, f, RightOf(r, m)),
           f[r] = m.size + f[LeftOf(r, m)] + f[RightOf(r, m)]
    PROVE  Fits(s, t, f, r)
<1> DEFINE alo == r.alo  ahi == r.ahi  blo == r.blo  bhi == r.bhi
           a == m.a  b == m.b  size == m.size
           left == f[LeftOf(r, m)]  right == f[RightOf(r, m)]  all == f[r]
<1>1. /\ alo \in Nat /\ ahi \in Nat /\ blo \in Nat /\ bhi \in Nat
      /\ a \in Nat /\ b \in Nat /\ size \in Nat
      /\ alo <= a /\ a + size <= ahi /\ blo <= b /\ b + size <= bhi
      /\ \A k \in 1..size : s[a + k] = t[b + k]
    OBVIOUS
<1>2. /\ left \in Nat /\ left <= a - alo /\ left <= b - blo
      /\ left = a - alo /\ left = b - blo => \A k \in 1..left : s[alo + k] = t[blo + k]
    BY DEF Fits, LeftOf
<1>3. /\ right \in Nat /\ right <= ahi - (a + size) /\ right <= bhi - (b + size)
      /\ right = ahi - (a + size) /\ right = bhi - (b + size)
            => \A k \in 1..right : s[(a + size) + k] = t[(b + size) + k]
    BY DEF Fits, RightOf
<1>4. all = size + left + right
    OBVIOUS
<1> SUFFICES /\ all \in Nat /\ all <= ahi - alo /\ all <= bhi - blo
             /\ all = ahi - alo /\ all = bhi - blo
                   => \A k \in 1..all : s[alo + k] = t[blo + k]
    BY DEF Fits
<1> HIDE DEF alo, ahi, blo, bhi, a, b, size, left, right, all
<1>5. all \in Nat /\ all <= ahi - alo /\ all <= bhi - blo
    BY <1>1, <1>2, <1>3, <1>4
<1>6. ASSUME all = ahi - alo, all = bhi - blo
      PROVE  \A k \in 1..all : s[alo + k] = t[blo + k]
  <2> SUFFICES ASSUME NEW k \in 1..all PROVE s[alo + k] = t[blo + k]
      OBVIOUS
  <2>1. /\ left = a - alo /\ left = b - blo
        /\ right = ahi - (a + size) /\ right = bhi - (b + size)
      BY <1>1, <1>2, <1>3, <1>4, <1>6
  <2>2. CASE k <= left
    <3>1. k \in 1..left
        BY <2>2, <1>5
    <3> QED  BY <3>1, <2>1, <1>2
  <2>3. CASE left < k /\ k <= left + size
    <3>1. /\ k - left \in 1..size
          /\ a + (k - left) = alo + k /\ b + (k - left) = blo + k
        BY <2>1, <2>3, <1>1, <1>2, <1>5
    <3> QED  BY <3>1, <1>1
  <2>4. CASE left + size < k
    <3>1. /\ k - left - size \in 1..right
          /\ (a + size) + (k - left - size) = alo + k
          /\ (b + size) + (k - left - size) = blo + k
        BY <2>1, <2>4, <1>1, <1>2, <1>3, <1>4, <1>5
    <3> QED  BY <3>1, <2>1, <1>3
  <2> QED  BY <2>2, <2>3, <2>4, <1>1, <1>2, <1>5
<1> QED  BY <1>5, <1>6

(* difflib's result fits.                                                  *)
LEMMA MatchedFits ==
    ASSUME NEW s \in Seq(Character), NEW t \in Seq(Character), NEW f, Matched(s, t, f)
    PROVE  \A r \in Ranges(s, t) : Proper(r) => Fits(s, t, f, r)
<1> DEFINE S == {n \in Nat : \A r \in Ranges(s, t) :
                               Proper(r) /\ Span(r) = n => Fits(s, t, f, r)}
<1>1. ASSUME NEW n \in Nat, \A k \in 0..(n - 1) : k \in S PROVE n \in S
  <2> SUFFICES ASSUME NEW r \in Ranges(s, t), Proper(r), Span(r) = n
               PROVE  Fits(s, t, f, r)
      OBVIOUS
  <2>1. /\ r.alo \in Nat /\ r.ahi \in Nat /\ r.blo \in Nat /\ r.bhi \in Nat
        /\ r.alo <= r.ahi /\ r.blo <= r.bhi
      BY DEF Ranges, Proper
  <2>2. CASE f[r] = 0
      BY <2>1, <2>2 DEF Fits
  <2>3. ASSUME NEW m \in CommonBlocks(s, t, r),
               f[r] = m.size + f[LeftOf(r, m)] + f[RightOf(r, m)]
        PROVE  Fits(s, t, f, r)
    <3>1. /\ m.a \in Nat /\ m.b \in Nat /\ m.size \in Nat
          /\ r.alo <= m.a /\ m.a + m.size <= r.ahi
          /\ r.blo <= m.b /\ m.b + m.size <= r.bhi
          /\ \A k \in 1..m.size : s[m.a + k] = t[m.b + k]
        BY BlockBounds
    <3>2. /\ LeftOf(r, m) \in Ranges(s, t) /\ RightOf(r, m) \in Ranges(s, t)
          /\ Proper(LeftOf(r, m)) /\ Proper(RightOf(r, m))
          /\ Span(LeftOf(r, m)) \in 0..(n - 1) /\ Span(RightOf(r, m)) \in 0..(n - 1)
        BY SidesAreSmaller
    <3>3. Fits(s, t, f, LeftOf(r, m)) /\ Fits(s, t, f, RightOf(r, m))
      <4>1. Span(LeftOf(r, m)) \in S /\ Span(RightOf(r, m)) \in S
          BY <3>2, <1>1
      <4> QED  BY <4>1, <3>2
    <3> QED  BY <2>1, <2>3, <3>1, <3>3, FitsTogether
  <2> QED  BY <2>2, <2>3, MatchedUnfold
<1>2. Nat \subseteq S
  <2> HIDE DEF S
  <2> QED  BY <1>1, StrongInduction
<1>3. ASSUME NEW r \in Ranges(s, t), Proper(r) PROVE Fits(s, t, f, r)
  <2>1. Span(r) \in Nat
      BY <1>3 DEF Ranges, Proper, Span
  <2> QED  BY <2>1, <1>2, <1>3
<1> QED  BY <1>3
-----------------------------------------------------------------------------
(* difflib never matches more than there is, and all of two names only if  *)
(* they are the same.                                                      *)
LEMMA MatchesBounded ==
    ASSUME NEW s \in Seq(Character), NEW t \in Seq(Character)
    PROVE  /\ Matches(s, t) \in Nat
           /\ Matches(s, t) <= Len(s) /\ Matches(s, t) <= Len(t)
           /\ Matches(s, t) = Len(s) /\ Matches(s, t) = Len(t) => s = t
<1>1. PICK f : Matched(s, t, f) /\ Matches(s, t) = f[Whole(s, t)]
    BY MatchesIsMatched
<1>2. Fits(s, t, f, Whole(s, t))
    BY <1>1, MatchesIsMatched, MatchedFits
<1>3. Len(s) \in Nat /\ Len(t) \in Nat
    OBVIOUS
<1>4. /\ Matches(s, t) \in Nat
      /\ Matches(s, t) <= Len(s) /\ Matches(s, t) <= Len(t)
      /\ Matches(s, t) = Len(s) /\ Matches(s, t) = Len(t)
            => \A k \in 1..Len(s) : s[0 + k] = t[0 + k]
    BY <1>1, <1>2, <1>3 DEF Fits, Whole
<1>5. ASSUME Matches(s, t) = Len(s), Matches(s, t) = Len(t) PROVE s = t
  <2>1. Len(s) = Len(t) /\ \A k \in 1..Len(s) : s[0 + k] = t[0 + k]
      BY <1>4, <1>5
  <2>2. \A k \in 1..Len(s) : s[k] = t[k]
      BY <1>3, <2>1
  <2> QED  BY <2>1, <2>2, SeqEqual
<1> QED  BY <1>4, <1>5

(* It matches all of two equal names.                                      *)
LEMMA MatchesSame ==
    ASSUME NEW s \in Seq(Character)
    PROVE  Matches(s, s) = Len(s)
<1>1. PICK f : Matched(s, s, f) /\ Matches(s, s) = f[Whole(s, s)]
    BY MatchesIsMatched
<1>2. Whole(s, s) \in Ranges(s, s)
    BY MatchesIsMatched
<1>3. Len(s) \in Nat
    OBVIOUS
<1> DEFINE all == [a |-> 0, b |-> 0, size |-> Len(s)]
<1>4. CASE Len(s) = 0
  <2>1. Matches(s, s) \in Nat /\ Matches(s, s) <= Len(s)
      BY MatchesBounded
  <2> QED  BY <1>4, <2>1
<1>5. CASE Len(s) # 0
  <2>1. all \in CommonBlocks(s, s, Whole(s, s))
      BY <1>3, <1>5 DEF CommonBlocks, Whole
  <2>2. PICK m \in CommonBlocks(s, s, Whole(s, s)) :
            /\ f[Whole(s, s)] = m.size + f[LeftOf(Whole(s, s), m)]
                                       + f[RightOf(Whole(s, s), m)]
            /\ \A n \in CommonBlocks(s, s, Whole(s, s)) : n.size <= m.size
      BY <1>1, <1>2, <2>1, MatchedUnfold
  <2>3. Len(s) <= m.size
      BY <2>1, <2>2
  <2>4. /\ f[LeftOf(Whole(s, s), m)] \in Nat
        /\ f[RightOf(Whole(s, s), m)] \in Nat
      BY <1>1, <1>2, MatchedFits, SidesAreSmaller DEF Fits
  <2>5. m.size \in Nat
      BY <1>2, <1>3, BlockBounds
  <2> QED  BY <1>1, <1>3, <2>2, <2>3, <2>4, <2>5, MatchesBounded
<1> QED  BY <1>4, <1>5

(* It matches nothing of two names that have no character in common.       *)
LEMMA MatchesShared ==
    ASSUME NEW s \in Seq(Character), NEW t \in Seq(Character), Matches(s, t) # 0
    PROVE  SharedCharacter(s, t)
<1>1. PICK f : Matched(s, t, f) /\ Matches(s, t) = f[Whole(s, t)]
    BY MatchesIsMatched
<1>2. PICK m \in CommonBlocks(s, t, Whole(s, t)) : TRUE
    BY <1>1, MatchesIsMatched, MatchedUnfold
<1>3. /\ m.a \in Nat /\ m.b \in Nat /\ m.size \in 1..Len(s)
      /\ m.a + m.size <= Len(s) /\ m.b + m.size <= Len(t)
      /\ s[m.a + 1] = t[m.b + 1]
  <2>1. /\ m.a \in Nat /\ m.b \in Nat /\ m.size \in 1..Len(s)
        /\ m.a + m.size <= Len(s) /\ m.b + m.size <= Len(t)
        /\ \A k \in 1..m.size : s[m.a + k] = t[m.b + k]
    <3>1. Whole(s, t).ahi = Len(s) /\ Whole(s, t).bhi = Len(t)
        BY DEF Whole
    <3>2. Whole(s, t) \in Ranges(s, t)
        BY MatchesIsMatched
    <3> QED  BY <1>2, <3>1, <3>2, BlockBounds
  <2> QED  BY <2>1
<1>4. m.a + 1 \in DOMAIN s /\ m.b + 1 \in DOMAIN t
    BY <1>3
<1> QED  BY <1>3, <1>4 DEF SharedCharacter

(* A name within another one has its characters.                           *)
LEMMA WithinShared ==
    ASSUME NEW s \in Seq(Character), NEW t \in Seq(Character), Within(s, t), s # <<>>
    PROVE  \E i \in DOMAIN s, j \in DOMAIN t : s[i] = t[j]
<1>1. PICK i \in 0..Len(t), j \in 0..Len(t) : s = SubSeq(t, i + 1, j)
    BY DEF Within
<1>2. Len(s) \in Nat /\ Len(s) > 0
    OBVIOUS
<1>3. i + 1 <= j
    BY <1>1, <1>2
<1>4. 1 \in DOMAIN s /\ i + 1 \in DOMAIN t /\ s[1] = t[i + 1]
    BY <1>1, <1>2, <1>3
<1> QED  BY <1>4
-----------------------------------------------------------------------------
(* A ratio is a fraction between 0 and 1.                                  *)
Fraction == {x \in Nat \X Nat : x[2] > 0 /\ x[1] <= x[2]}

(* Fractions are compared by their cross products.                         *)
LEMMA ExceedsCross ==
    ASSUME NEW a \in Nat, NEW b \in Nat, NEW c \in Nat, NEW d \in Nat
    PROVE  Exceeds(<<a, b>>, <<c, d>>) <=> a * d > b * c
BY DEF Exceeds

(* The ratio of a hint and a company is 1 just if they are the same name.  *)
THEOREM OnlyTheSameIsOne ==
    ASSUME NEW s \in Seq(Character), NEW t \in Seq(Character), s # <<>>
    PROVE  /\ Ratio(s, t) \in Fraction
           /\ Ratio(s, t)[1] = Ratio(s, t)[2] <=> s = t
<1> DEFINE n == Matches(s, t)
<1>1. Len(s) \in Nat /\ Len(s) > 0 /\ Len(t) \in Nat
    OBVIOUS
<1>2. n \in Nat /\ n <= Len(s) /\ n <= Len(t) /\ (n = Len(s) /\ n = Len(t) => s = t)
    BY MatchesBounded
<1>3. s = t => n = Len(s) /\ n = Len(t)
    BY MatchesSame
<1> HIDE DEF n
<1>4. SequenceRatio(s, t) = <<2 * n, Len(s) + Len(t)>>
    BY DEF SequenceRatio, n
<1>5. SequenceRatio(s, t) \in Fraction
    BY <1>1, <1>2, <1>4 DEF Fraction
<1>6. SequenceRatio(s, t)[1] = SequenceRatio(s, t)[2] <=> s = t
    BY <1>1, <1>2, <1>3, <1>4
<1>7. CASE Ratio(s, t) = SequenceRatio(s, t)
    BY <1>5, <1>6, <1>7
<1>8. CASE Ratio(s, t) = <<9, 10>> /\ Exceeds(<<9, 10>>, SequenceRatio(s, t))
  <2>1. s # t
    <3>1. Exceeds(<<9, 10>>, <<2 * n, Len(s) + Len(t)>>)
        BY <1>8, <1>4
    <3>2. 9 * (Len(s) + Len(t)) > 10 * (2 * n)
      <4>1. 2 * n \in Nat /\ Len(s) + Len(t) \in Nat
          BY <1>1, <1>2
      <4> QED  BY <4>1, <3>1, ExceedsCross
    <3> QED  BY <3>2, <1>1, <1>2, <1>3
  <2>2. <<9, 10>> \in Fraction
      BY DEF Fraction
  <2> QED  BY <1>8, <2>1, <2>2
<1> QED  BY <1>7, <1>8 DEF Ratio

(* A ratio that is not 0 needs a character in common, or an empty name.    *)
THEOREM NothingSharedIsZero ==
    ASSUME NEW s \in Seq(Character), NEW t \in Seq(Character), s # <<>>, t # <<>>,
           Ratio(s, t)[1] # 0
    PROVE  SharedCharacter(t, s)
<1>1. CASE Within(s, t) \/ Within(t, s)
    BY <1>1, WithinShared DEF SharedCharacter
<1>2. CASE ~ (Within(s, t) \/ Within(t, s))
  <2>1. Ratio(s, t) = <<2 * Matches(s, t), Len(s) + Len(t)>>
      BY <1>2 DEF Ratio, SequenceRatio
  <2>2. Matches(s, t) # 0
      BY <2>1
  <2> QED  BY <2>2, MatchesShared DEF SharedCharacter
<1> QED  BY <1>1, <1>2
=============================================================================
