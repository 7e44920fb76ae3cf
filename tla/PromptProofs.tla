------------------------------ MODULE PromptProofs ------------------------------
(***************************************************************************)
(* Theorems about prompts and retrieval, for every conversation and every  *)
(* set of texts.                                                           *)
(***************************************************************************)
EXTENDS Prompt, Retrieval, TLAPS, FiniteSetTheorems, SequenceTheorems, WellFoundedInduction

-----------------------------------------------------------------------------
(* Numbers.                                                                *)

\* Induction over the natural numbers, for a set of them.
LEMMA CountingUp ==
  ASSUME NEW Q, 0 \in Q, \A n \in Nat : n \in Q => n + 1 \in Q
  PROVE  \A n \in Nat : n \in Q
<1> DEFINE T == Nat \ Q
<1> SUFFICES ASSUME T # {} PROVE FALSE
  OBVIOUS
<1>1. T \subseteq Nat
  OBVIOUS
<1>2. PICK x \in T : \A y \in T : ~ (<<y, x>> \in OpToRel(<, Nat))
  BY <1>1, WFMin, NatLessThanWellFounded
<1>3. x \in Nat /\ x # 0 /\ x - 1 \in Nat
  OBVIOUS
<1>4. x - 1 \notin Q
  BY <1>3
<1>5. <<x - 1, x>> \in OpToRel(<, Nat)
  BY <1>3 DEF OpToRel
<1> QED
  BY <1>2, <1>3, <1>4, <1>5

\* A set of numbers below a bound has a greatest one.
LEMMA MaxOfBounded ==
  ASSUME NEW S, S \subseteq Int, S # {}, NEW b \in Int, \A x \in S : x <= b
  PROVE  Max(S) \in S /\ \A x \in S : x <= Max(S)
<1> DEFINE T == {n \in Nat : b - n \in S}
<1>1. PICK x \in S : TRUE
  OBVIOUS
<1>2. b - x \in T
  BY <1>1
<1>3. T \subseteq Nat /\ T # {}
  BY <1>2
<1>4. PICK n \in T : \A y \in T : ~ (<<y, n>> \in OpToRel(<, Nat))
  BY <1>3, WFMin, NatLessThanWellFounded
<1>5. ASSUME NEW y \in T PROVE y >= n
  <2>1. y \in Nat /\ n \in Nat /\ ~ (y < n)
    BY <1>3, <1>4, <1>5 DEF OpToRel
  <2> QED
    BY <2>1
<1>6. ASSUME NEW y \in S PROVE b - n >= y
  <2>1. b - y \in T /\ y \in Int /\ n \in Int
    BY <1>6
  <2>2. b - y >= n
    BY <1>5, <2>1
  <2> QED
    BY <2>1, <2>2
<1>7. b - n \in S
  OBVIOUS
<1> HIDE DEF T
<1> QED
  BY <1>6, <1>7 DEF Max

LEMMA MaxOfFinite ==
  ASSUME NEW S, S \subseteq Int, S # {}, IsFiniteSet(S)
  PROVE  Max(S) \in S /\ \A x \in S : x <= Max(S)
<1> DEFINE Q == {n \in Nat : \A T \in SUBSET S : Cardinality(T) = n => \E b \in Int : \A x \in T : x <= b}
<1>1. \A T \in SUBSET S : IsFiniteSet(T) /\ Cardinality(T) \in Nat
  BY FS_Subset, FS_CardinalityType
<1>2. 0 \in Q
  BY <1>1, FS_EmptySet
<1>3. ASSUME NEW n \in Nat, n \in Q PROVE n + 1 \in Q
  <2> SUFFICES ASSUME NEW T \in SUBSET S, Cardinality(T) = n + 1 PROVE \E b \in Int : \A x \in T : x <= b
    OBVIOUS
  <2>1. T # {}
    BY <1>1, FS_EmptySet
  <2> PICK x \in T : TRUE
    BY <2>1
  <2>2. T \ {x} \in SUBSET S /\ Cardinality(T \ {x}) = Cardinality(T) - 1
    BY <1>1, FS_RemoveElement
  <2>3. PICK b \in Int : \A y \in T \ {x} : y <= b
    BY <1>1, <1>3, <2>2
  <2> DEFINE c == IF x <= b THEN b ELSE x
  <2>4. c \in Int /\ \A y \in T : y <= c
    BY <2>3
  <2> QED
    BY <2>4
<1> HIDE DEF Q
<1>4. Cardinality(S) \in Q
  BY <1>1, <1>2, <1>3, CountingUp
<1>5. PICK b \in Int : \A x \in S : x <= b
  BY <1>4 DEF Q
<1> QED
  BY <1>5, MaxOfBounded

-----------------------------------------------------------------------------
(* Totals.                                                                 *)

\* f sums up the first n values of s, one after the other.
SumsTo(n, s, f) ==
  /\ f \in [0..n -> Nat] /\ f[0] = 0
  /\ \A i \in 1..n : f[i] = f[i - 1] + s[i]

LEMMA SumsGoOn ==
  ASSUME NEW n \in Nat, NEW s, NEW f, SumsTo(n, s, f), s[n + 1] \in Nat
  PROVE  \E g : SumsTo(n + 1, s, g)
<1> PICK g : g = [i \in 0..(n + 1) |-> IF i <= n THEN f[i] ELSE f[n] + s[n + 1]]
  OBVIOUS
<1>1. f[n] \in Nat /\ f[0] = 0 /\ \A i \in 0..n : f[i] \in Nat
  BY DEF SumsTo
<1>2. g[0] = 0 /\ g[n + 1] = f[n] + s[n + 1] /\ \A i \in 0..n : g[i] = f[i]
  BY <1>1
<1>3. g \in [0..(n + 1) -> Nat]
  BY <1>1
<1>4. \A i \in 1..(n + 1) : g[i] = g[i - 1] + s[i]
  <2> SUFFICES ASSUME NEW i \in 1..(n + 1) PROVE g[i] = g[i - 1] + s[i]
    OBVIOUS
  <2>1. CASE i = n + 1
    BY <1>2, <2>1
  <2>2. CASE i \in 1..n
    BY <1>2, <2>2 DEF SumsTo
  <2> QED
    BY <2>1, <2>2
<1>5. SumsTo(n + 1, s, g)
  BY <1>2, <1>3, <1>4, Zenon DEF SumsTo
<1> QED
  BY <1>5

LEMMA SumsExist ==
  ASSUME NEW s \in Seq(Nat)
  PROVE  \E f : SumsTo(Len(s), s, f)
<1> DEFINE Q == {n \in Nat : n <= Len(s) => \E f : SumsTo(n, s, f)}
<1>1. Len(s) \in Nat /\ \A i \in 1..Len(s) : s[i] \in Nat
  OBVIOUS
<1>2. SumsTo(0, s, [i \in 0..0 |-> 0])
  BY DEF SumsTo
<1>3. 0 \in Q
  BY <1>2
<1>4. ASSUME NEW n \in Nat, n \in Q PROVE n + 1 \in Q
  BY <1>1, <1>4, SumsGoOn
<1> HIDE DEF Q
<1>5. Len(s) \in Q
  BY <1>1, <1>3, <1>4, CountingUp
<1> QED
  BY <1>1, <1>5 DEF Q

LEMMA TotalIsTheLast ==
  ASSUME NEW s \in Seq(Nat), NEW f, SumsTo(Len(s), s, f)
  PROVE  Total(s) = f[Len(s)]
<1> DEFINE g == CHOOSE h : h = [n \in 0..Len(s) |-> IF n = 0 THEN 0 ELSE h[n - 1] + s[n]]
           Q == {n \in Nat : n <= Len(s) => g[n] = f[n]}
<1>1. Len(s) \in Nat
  OBVIOUS
<1>2. f = [n \in 0..Len(s) |-> IF n = 0 THEN 0 ELSE f[n - 1] + s[n]]
  BY <1>1 DEF SumsTo
<1>3. g = [n \in 0..Len(s) |-> IF n = 0 THEN 0 ELSE g[n - 1] + s[n]]
  BY <1>2
<1>4. Total(s) = g[Len(s)]
  BY DEF Total
<1> HIDE DEF g
<1>5. 0 \in Q
  BY <1>1, <1>3 DEF SumsTo
<1>6. ASSUME NEW n \in Nat, n \in Q PROVE n + 1 \in Q
  BY <1>1, <1>3, <1>6 DEF SumsTo
<1> HIDE DEF Q
<1>7. Len(s) \in Q
  BY <1>1, <1>5, <1>6, CountingUp
<1> QED
  BY <1>1, <1>4, <1>7 DEF Q

LEMMA TotalType ==
  ASSUME NEW s \in Seq(Nat)
  PROVE  Total(s) \in Nat /\ (Len(s) = 0 => Total(s) = 0)
<1>1. PICK f : SumsTo(Len(s), s, f)
  BY SumsExist
<1>2. Len(s) \in Nat
  OBVIOUS
<1> QED
  BY <1>1, <1>2, TotalIsTheLast DEF SumsTo

\* u is the first m values of s and then the first k of t.
Joins(u, m, s, k, t) ==
  /\ \A i \in 1..m : u[i] = s[i]
  /\ \A i \in 1..k : u[m + i] = t[i] /\ t[i] \in Nat

\* One sum goes on where the other ends.
LEMMA SumsJoin ==
  ASSUME NEW m \in Nat, NEW k \in Nat, NEW s, NEW t, NEW u, NEW f, NEW g,
         SumsTo(m, s, f), SumsTo(k, t, g), Joins(u, m, s, k, t)
  PROVE  \E h : SumsTo(m + k, u, h) /\ h[m + k] = f[m] + g[k]
<1> PICK h : h = [n \in 0..(m + k) |-> IF n <= m THEN f[n] ELSE f[m] + g[n - m]]
  OBVIOUS
<1>1. /\ f[0] = 0 /\ \A i \in 0..m : f[i] \in Nat
      /\ g[0] = 0 /\ \A i \in 0..k : g[i] \in Nat
  BY DEF SumsTo
<1>2. \A i \in 0..m : h[i] = f[i]
  OBVIOUS
<1>3. \A i \in 0..k : h[m + i] = f[m] + g[i]
  <2> SUFFICES ASSUME NEW i \in 0..k PROVE h[m + i] = f[m] + g[i]
    OBVIOUS
  <2>1. CASE i = 0
    BY <1>1, <2>1
  <2>2. CASE i > 0
    <3>1. m + i \in 0..(m + k) /\ ~(m + i <= m) /\ (m + i) - m = i
      BY <2>2
    <3> QED
      BY <3>1
  <2> QED
    BY <2>1, <2>2
<1>4. h \in [0..(m + k) -> Nat]
  <2> SUFFICES ASSUME NEW n \in 0..(m + k) PROVE h[n] \in Nat
    OBVIOUS
  <2>1. CASE n <= m
    BY <1>1, <1>2, <2>1
  <2>2. CASE n > m
    <3>1. n - m \in 0..k /\ n = m + (n - m)
      BY <2>2
    <3> QED
      BY <1>1, <1>3, <3>1
  <2> QED
    BY <2>1, <2>2
<1>5. \A n \in 1..(m + k) : h[n] = h[n - 1] + u[n]
  <2> SUFFICES ASSUME NEW n \in 1..(m + k) PROVE h[n] = h[n - 1] + u[n]
    OBVIOUS
  <2>1. CASE n <= m
    BY <1>2, <2>1 DEF SumsTo, Joins
  <2>2. CASE n > m
    <3> PICK i \in 1..k : n = m + i
      BY <2>2
    <3>1. h[n] = f[m] + g[i]
      BY <1>3
    <3>2. i - 1 \in 0..k /\ n - 1 = m + (i - 1)
      OBVIOUS
    <3>3. h[n - 1] = f[m] + g[i - 1]
      BY <1>3, <3>2
    <3>4. g[i] = g[i - 1] + u[n]
      BY DEF SumsTo, Joins
    <3>5. f[m] \in Nat /\ g[i] \in Nat /\ g[i - 1] \in Nat
      BY <1>1, <3>2
    <3>6. u[n] \in Int
      BY DEF Joins
    <3> QED
      BY <3>1, <3>3, <3>4, <3>5, <3>6
  <2> QED
    BY <2>1, <2>2
<1>6. h[0] = 0
  BY <1>1, <1>2
<1>7. SumsTo(m + k, u, h)
  BY <1>4, <1>5, <1>6, Zenon DEF SumsTo
<1>8. h[m + k] = f[m] + g[k]
  BY <1>3
<1> QED
  BY <1>7, <1>8

\* The total of one sequence after another is the sum of their totals.
LEMMA TotalOfBoth ==
  ASSUME NEW s \in Seq(Nat), NEW t \in Seq(Nat), NEW u \in Seq(Nat), Len(u) = Len(s) + Len(t),
         Joins(u, Len(s), s, Len(t), t)
  PROVE  Total(u) = Total(s) + Total(t)
<1>1. PICK f : SumsTo(Len(s), s, f)
  BY SumsExist
<1>2. PICK g : SumsTo(Len(t), t, g)
  BY SumsExist
<1>3. PICK h : SumsTo(Len(u), u, h) /\ h[Len(u)] = f[Len(s)] + g[Len(t)]
  <2>1. Len(s) \in Nat /\ Len(t) \in Nat
    OBVIOUS
  <2>2. \E h : SumsTo(Len(s) + Len(t), u, h) /\ h[Len(s) + Len(t)] = f[Len(s)] + g[Len(t)]
    BY <1>1, <1>2, <2>1, SumsJoin
  <2> QED
    BY <2>2
<1> QED
  BY <1>1, <1>2, <1>3, TotalIsTheLast

-----------------------------------------------------------------------------
(* Conversations.                                                          *)

\* What is taken out of a sequence.
LEMMA PartOf ==
  ASSUME NEW S, NEW s \in Seq(S), NEW m \in Nat \ {0}, NEW n \in Nat, n <= Len(s)
  PROVE  /\ SubSeq(s, m, n) \in Seq(S)
         /\ Len(SubSeq(s, m, n)) = IF m <= n THEN n - m + 1 ELSE 0
         /\ \A i \in 1..(n - m + 1) : SubSeq(s, m, n)[i] = s[m + i - 1]
<1>1. Len(s) \in Nat
  BY LenProperties
<1>2. \A i \in m..n : s[i] \in S
  BY <1>1, ElementOfSeq
<1> QED
  BY <1>2, SubSeqProperties

LEMMA NewestOf ==
  ASSUME NEW S, NEW s \in Seq(S), NEW n \in Nat \ {0}
  PROVE  /\ Newest(s, n) \in Seq(S)
         /\ Len(Newest(s, n)) = AtMost(n, Len(s))
         /\ \A i \in 1..AtMost(n, Len(s)) : Newest(s, n)[i] = s[Len(s) - AtMost(n, Len(s)) + i]
         /\ Len(s) <= n => Newest(s, n) = s
<1>1. Len(s) \in Nat
  BY LenProperties
<1>2. CASE Len(s) > n
  <2>1. Newest(s, n) = SubSeq(s, Len(s) - n + 1, Len(s)) /\ AtMost(n, Len(s)) = n
    BY <1>1, <1>2 DEF Newest, AtMost
  <2>2. Len(s) - n + 1 \in Nat \ {0} /\ Len(s) - (Len(s) - n + 1) + 1 = n /\ Len(s) - n + 1 <= Len(s)
    BY <1>1, <1>2
  <2> QED
    BY <1>1, <1>2, <2>1, <2>2, PartOf
<1>3. CASE Len(s) <= n
  <2>1. Newest(s, n) = s
    <3>1. Newest(s, n) = SubSeq(s, 1, Len(s))
      <4>1. ~(Len(s) > n)
        BY <1>1, <1>3
      <4> QED
        BY <4>1, Zenon DEF Newest
    <3>2. SubSeq(s, 1, Len(s)) = s
      BY SubSeqFull, Zenon
    <3> QED
      BY <3>1, <3>2
  <2>2. AtMost(n, Len(s)) = Len(s)
    BY <1>1, <1>3 DEF AtMost
  <2> QED
    BY <1>1, <2>1, <2>2
<1> QED
  BY <1>1, <1>2, <1>3

SizesOf(ms) == [i \in DOMAIN ms |-> ms[i].size]

LEMMA TokensType ==
  ASSUME NEW ms \in Seq(Messages)
  PROVE  SizesOf(ms) \in Seq(Nat) /\ Len(SizesOf(ms)) = Len(ms) /\ Tokens(ms) \in Nat /\ (Len(ms) = 0 => Tokens(ms) = 0)
<1>1. Len(ms) \in Nat /\ DOMAIN ms = 1..Len(ms) /\ \A i \in 1..Len(ms) : ms[i] \in Messages
  BY LenProperties, ElementOfSeq
<1> USE DEF Messages
<1>2. SizesOf(ms) \in Seq(Nat) /\ Len(SizesOf(ms)) = Len(ms)
  BY <1>1 DEF SizesOf
<1>3. Tokens(ms) = Total(SizesOf(ms))
  BY DEF Tokens, SizesOf
<1> QED
  BY <1>2, <1>3, TotalType

LEMMA TokensOfBoth ==
  ASSUME NEW a \in Seq(Messages), NEW b \in Seq(Messages)
  PROVE  Tokens(a \o b) = Tokens(a) + Tokens(b)
<1> DEFINE u == SizesOf(a \o b)
           s == SizesOf(a)
           t == SizesOf(b)
<1>1. a \o b \in Seq(Messages) /\ Len(a \o b) = Len(a) + Len(b)
  OBVIOUS
<1>2. /\ s \in Seq(Nat) /\ t \in Seq(Nat) /\ u \in Seq(Nat)
      /\ Len(s) = Len(a) /\ Len(t) = Len(b) /\ Len(u) = Len(s) + Len(t)
  BY <1>1, TokensType
<1>3. \A i \in 1..Len(a) : u[i] = s[i]
  BY <1>1 DEF SizesOf
<1>4. \A i \in 1..Len(b) : u[Len(a) + i] = t[i]
  BY <1>1 DEF SizesOf
<1>5. Tokens(a \o b) = Total(u) /\ Tokens(a) = Total(s) /\ Tokens(b) = Total(t)
  BY DEF Tokens, SizesOf
<1> HIDE DEF u, s, t
<1>6. Joins(u, Len(s), s, Len(t), t)
  BY <1>2, <1>3, <1>4 DEF Joins
<1> QED
  BY <1>2, <1>5, <1>6, TotalOfBoth

\* Newer messages have a greater place, and what may be cut has a system prompt.
InOrder(ms) == \A i, j \in 1..Len(ms) : i < j => ms[i].place < ms[j].place
IsPrompt(ms) ==
  /\ ms \in Seq(Messages) /\ Len(ms) > 0 /\ InOrder(ms)
  /\ ms[1].role = "system" \/ Len(ms) <= 3

\* What PromptFits says of one prompt.
Fits(p, ms, window) ==
  /\ Tokens(p) <= Limit(window)
  /\ SystemOf(p) = SystemOf(ms) /\ Last(p) = Last(ms)
  /\ \A i \in 1..(Len(p) - 1) : p[i].place < p[i + 1].place

\* The system prompt and the rest.
LEMMA SystemAndRest ==
  ASSUME NEW ms \in Seq(Messages), Len(ms) > 0
  PROVE  LET rest == SubSeq(ms, Len(SystemOf(ms)) + 1, Len(ms)) IN
         /\ SystemOf(ms) = IF ms[1].role = "system" THEN <<ms[1]>> ELSE <<>>
         /\ SystemOf(ms) \in Seq(Messages) /\ Len(SystemOf(ms)) \in {0, 1}
         /\ rest \in Seq(Messages) /\ Len(rest) = Len(ms) - Len(SystemOf(ms))
         /\ \A i \in 1..Len(rest) : rest[i] = ms[Len(SystemOf(ms)) + i]
         /\ SystemOf(ms) \o rest = ms
<1> DEFINE n == Len(SystemOf(ms))
           rest == SubSeq(ms, n + 1, Len(ms))
<1>1. Len(ms) \in Nat /\ ms # <<>> /\ ms[1] \in Messages
  BY LenProperties, ElementOfSeq, EmptySeq
<1>2. SystemOf(ms) = IF ms[1].role = "system" THEN <<ms[1]>> ELSE <<>>
  BY <1>1 DEF SystemOf
<1>3. SystemOf(ms) \in Seq(Messages) /\ n \in {0, 1} /\ (n = 1 => SystemOf(ms) = <<ms[1]>>) /\ (n = 0 => SystemOf(ms) = <<>>)
  BY <1>1, <1>2
<1> HIDE DEF n
<1>4. n + 1 \in Nat \ {0} /\ n + 1 <= Len(ms) + 1
  BY <1>1, <1>3
<1>5. rest \in Seq(Messages) /\ Len(rest) = Len(ms) - n /\ \A i \in 1..(Len(ms) - n) : rest[i] = ms[n + i]
  BY <1>1, <1>3, <1>4, PartOf
<1>6. SystemOf(ms) \o rest = ms
  <2>1. CASE n = 0
    BY <1>1, <1>3, <2>1, SubSeqFull, ConcatEmptySeq
  <2>2. CASE n = 1
    <3>1. SubSeq(ms, 1, 1) = SystemOf(ms)
      BY <1>1, <1>3, <2>2
    <3>2. SubSeq(ms, 1, 1) \o SubSeq(ms, 1 + 1, Len(ms)) = SubSeq(ms, 1, Len(ms))
      <4>1. 1 \in 1..(Len(ms) + 1) /\ 1 \in (1 - 1)..Len(ms) /\ Len(ms) \in 1..Len(ms)
        BY <1>1
      <4> QED
        BY <4>1, ConcatAdjacentSubSeq, Zenon
    <3>3. SubSeq(ms, 1, Len(ms)) = ms
      BY SubSeqFull, Zenon
    <3> QED
      BY <2>2, <3>1, <3>2, <3>3
  <2> QED
    BY <1>3, <2>1, <2>2
<1> QED
  BY <1>2, <1>3, <1>5, <1>6 DEF n

\* A short prompt is all essential.
LEMMA ShortIsEssential ==
  ASSUME NEW ms \in Seq(Messages), Len(ms) > 0, Len(ms) <= Len(SystemOf(ms)) + 3
  PROVE  Essential(ms) = ms
<1> DEFINE rest == SubSeq(ms, Len(SystemOf(ms)) + 1, Len(ms))
<1>1. rest \in Seq(Messages) /\ Len(rest) <= 3 /\ SystemOf(ms) \o rest = ms
  BY SystemAndRest, LenProperties
<1> HIDE DEF rest
<1>2. Newest(rest, 3) = rest
  <2>1. 3 \in Nat \ {0}
    OBVIOUS
  <2> QED
    BY <1>1, <2>1, NewestOf, Zenon
<1> QED
  BY <1>1, <1>2 DEF Essential, rest

\* A long prompt: its system prompt, what is between, and the last three messages.
LEMMA LongPrompt ==
  ASSUME NEW ms, IsPrompt(ms), Len(ms) > Len(SystemOf(ms)) + 3
  PROVE  \E n \in Nat, middle, newest \in Seq(Messages) :
           /\ Len(ms) = n + 4 /\ n > 0 /\ ms[1].role = "system" /\ SystemOf(ms) = <<ms[1]>>
           /\ newest = Newest(SubSeq(ms, 2, Len(ms)), 3) /\ Len(newest) = 3
           /\ \A i \in 1..3 : newest[i] = ms[n + 1 + i]
           /\ middle = SubSeq(SubSeq(ms, 2, Len(ms)), 1, n) /\ Len(middle) = n
           /\ \A i \in 1..n : middle[i] = ms[i + 1]
<1>1. ms \in Seq(Messages) /\ Len(ms) \in Nat /\ Len(ms) > 0
  BY LenProperties DEF IsPrompt
<1>2. Len(SystemOf(ms)) \in {0, 1} /\ SystemOf(ms) = IF ms[1].role = "system" THEN <<ms[1]>> ELSE <<>>
  BY <1>1, SystemAndRest
<1>3. ms[1].role = "system" /\ SystemOf(ms) = <<ms[1]>> /\ Len(SystemOf(ms)) = 1
  BY <1>1, <1>2 DEF IsPrompt
<1> PICK n : n = Len(ms) - 4
  OBVIOUS
<1>4. n \in Nat /\ n > 0 /\ Len(ms) = n + 4
  BY <1>1, <1>3
<1> PICK rest : rest = SubSeq(ms, 2, Len(ms))
  OBVIOUS
<1>5. rest \in Seq(Messages) /\ Len(rest) = n + 3 /\ \A i \in 1..(n + 3) : rest[i] = ms[i + 1]
  <2>1. 2 \in Nat \ {0} /\ Len(ms) <= Len(ms) /\ 2 <= Len(ms) /\ Len(ms) - 2 + 1 = n + 3
    BY <1>1, <1>4
  <2>2. rest \in Seq(Messages) /\ Len(rest) = n + 3 /\ \A i \in 1..(n + 3) : rest[i] = ms[2 + i - 1]
    BY <1>1, <2>1, PartOf
  <2> QED
    BY <1>4, <2>2
<1> PICK newest : newest = Newest(rest, 3)
  OBVIOUS
<1>6. newest \in Seq(Messages) /\ Len(newest) = 3 /\ \A i \in 1..3 : newest[i] = ms[n + 1 + i]
  <2>1. AtMost(3, Len(rest)) = 3 /\ 3 \in Nat \ {0}
    BY <1>4, <1>5 DEF AtMost
  <2>2. /\ Newest(rest, 3) \in Seq(Messages) /\ Len(Newest(rest, 3)) = AtMost(3, Len(rest))
        /\ \A i \in 1..AtMost(3, Len(rest)) : Newest(rest, 3)[i] = rest[Len(rest) - AtMost(3, Len(rest)) + i]
    BY <1>5, <2>1, NewestOf, Zenon
  <2>3. newest \in Seq(Messages) /\ Len(newest) = 3
    BY <2>1, <2>2, Zenon
  <2>4. ASSUME NEW i \in 1..3 PROVE newest[i] = ms[n + 1 + i]
    <3>1. newest[i] = rest[Len(rest) - 3 + i]
      BY <2>1, <2>2, Zenon
    <3>2. Len(rest) - 3 + i = n + i /\ n + i \in 1..(n + 3) /\ n + i + 1 = n + 1 + i
      BY <1>4, <1>5
    <3>3. rest[n + i] = ms[n + i + 1]
      BY <1>5, <3>2, Zenon
    <3> QED
      BY <3>1, <3>2, <3>3, Zenon
  <2> QED
    BY <2>3, <2>4
<1> PICK middle : middle = SubSeq(rest, 1, n)
  OBVIOUS
<1>7. middle \in Seq(Messages) /\ Len(middle) = n /\ \A i \in 1..n : middle[i] = ms[i + 1]
  <2>1. n <= Len(rest) /\ 1 \in Nat \ {0} /\ n - 1 + 1 = n /\ 1 <= n
    BY <1>4, <1>5
  <2>2. middle \in Seq(Messages) /\ Len(middle) = n /\ \A i \in 1..n : middle[i] = rest[1 + i - 1]
    BY <1>4, <1>5, <2>1, PartOf
  <2> QED
    BY <1>4, <1>5, <2>2
<1> QED
  BY <1>3, <1>4, <1>6, <1>7

\* p is a system prompt, what is kept, and the last three messages.
IsJoined(p, S, kept, newest) ==
  /\ p \in Seq(Messages) /\ Len(p) = Len(kept) + 4
  /\ p[1] = S[1]
  /\ \A i \in 1..Len(kept) : p[i + 1] = kept[i]
  /\ \A i \in 1..3 : p[Len(kept) + 1 + i] = newest[i]
  /\ Tokens(p) = Tokens(S) + Tokens(kept) + Tokens(newest)

LEMMA ThreeParts ==
  ASSUME NEW S \in Seq(Messages), NEW kept \in Seq(Messages), NEW newest \in Seq(Messages),
         Len(S) = 1, Len(newest) = 3
  PROVE  IsJoined(S \o kept \o newest, S, kept, newest)
<1> PICK k \in Nat : k = Len(kept)
  BY LenProperties
<1> PICK q : q = S \o kept
  OBVIOUS
<1> PICK p : p = q \o newest
  OBVIOUS
<1>1. q \in Seq(Messages) /\ Len(q) = k + 1 /\ q[1] = S[1] /\ \A i \in 1..k : q[i + 1] = kept[i]
  <2>1. q \in Seq(Messages) /\ Len(q) = Len(S) + Len(kept)
        /\ \A i \in 1..(Len(S) + Len(kept)) : q[i] = IF i <= Len(S) THEN S[i] ELSE kept[i - Len(S)]
    BY ConcatProperties
  <2> QED
    BY <2>1
<1>2. p \in Seq(Messages) /\ Len(p) = k + 4
      /\ \A i \in 1..(k + 4) : p[i] = IF i <= k + 1 THEN q[i] ELSE newest[i - (k + 1)]
  <2>1. p \in Seq(Messages) /\ Len(p) = Len(q) + Len(newest)
        /\ \A i \in 1..(Len(q) + Len(newest)) : p[i] = IF i <= Len(q) THEN q[i] ELSE newest[i - Len(q)]
    BY <1>1, ConcatProperties
  <2>2. Len(q) + Len(newest) = k + 4
    BY <1>1
  <2> QED
    BY <1>1, <2>1, <2>2
<1>3. p[1] = S[1] /\ \A i \in 1..k : p[i + 1] = kept[i]
  BY <1>1, <1>2
<1>4. \A i \in 1..3 : p[k + 1 + i] = newest[i]
  <2> SUFFICES ASSUME NEW i \in 1..3 PROVE p[k + 1 + i] = newest[i]
    OBVIOUS
  <2>1. k + 1 + i \in 1..(k + 4) /\ ~(k + 1 + i <= k + 1) /\ k + 1 + i - (k + 1) = i
    OBVIOUS
  <2> QED
    BY <1>2, <2>1
<1>5. Tokens(p) = Tokens(S) + Tokens(kept) + Tokens(newest)
  <2>1. Tokens(q) = Tokens(S) + Tokens(kept)
    BY TokensOfBoth
  <2>2. Tokens(p) = Tokens(q) + Tokens(newest)
    BY <1>1, TokensOfBoth
  <2> QED
    BY <2>1, <2>2
<1> QED
  BY <1>2, <1>3, <1>4, <1>5 DEF IsJoined

LEMMA BeginningOf ==
  ASSUME NEW middle \in Seq(Messages), NEW i \in 0..Len(middle)
  PROVE  /\ SubSeq(middle, 1, i) \in Seq(Messages) /\ Len(SubSeq(middle, 1, i)) = i
         /\ \A j \in 1..i : SubSeq(middle, 1, i)[j] = middle[j]
<1>1. i \in Nat /\ i <= Len(middle) /\ 1 \in Nat \ {0} /\ i - 1 + 1 = i
  BY LenProperties
<1>2. /\ SubSeq(middle, 1, i) \in Seq(Messages)
      /\ Len(SubSeq(middle, 1, i)) = IF 1 <= i THEN i ELSE 0
      /\ \A j \in 1..i : SubSeq(middle, 1, i)[j] = middle[1 + j - 1]
  BY <1>1, PartOf
<1>3. \A j \in 1..i : 1 + j - 1 = j
  OBVIOUS
<1> QED
  BY <1>1, <1>2, <1>3

\* How much of what is between has room.
LEMMA ThereIsRoom ==
  ASSUME NEW middle \in Seq(Messages), NEW left \in Nat,
         NEW k, k = Max({n \in 0..Len(middle) : Tokens(SubSeq(middle, 1, n)) <= left})
  PROVE  k \in 0..Len(middle) /\ Tokens(SubSeq(middle, 1, k)) <= left
<1> PICK K : K = {n \in 0..Len(middle) : Tokens(SubSeq(middle, 1, n)) <= left}
  OBVIOUS
<1>1. Len(middle) \in Nat /\ 0 \in 0..Len(middle)
  BY LenProperties
<1>2. Tokens(SubSeq(middle, 1, 0)) = 0
  BY <1>1, BeginningOf, TokensType
<1>3. 0 \in K /\ K \subseteq Int /\ \A x \in K : x <= Len(middle)
  BY <1>1, <1>2
<1>4. Max(K) \in K
  BY <1>1, <1>3, MaxOfBounded
<1> QED
  BY <1>4

\* What is cut from a prompt that does not fit: the system prompt, the beginning of
\* what is between, and the last three messages remain.
LEMMA CutParts ==
  ASSUME NEW ms, IsPrompt(ms), NEW window \in Nat,
         Tokens(ms) > Limit(window), Tokens(Essential(ms)) < Limit(window)
  PROVE  \E k, n \in Nat : LET p == EnforceContextLimit(ms, window) IN
           /\ ms[1].role = "system" /\ Len(ms) = n + 4 /\ k <= n
           /\ p \in Seq(Messages) /\ Len(p) = k + 4
           /\ \A i \in 1..(k + 1) : p[i] = ms[i]
           /\ \A i \in 1..3 : p[k + 1 + i] = ms[n + 1 + i]
           /\ Tokens(p) <= Limit(window)
<1>1. ms \in Seq(Messages) /\ Len(ms) \in Nat /\ Len(ms) > 0 /\ Limit(window) \in Nat /\ Tokens(ms) \in Nat
  BY LenProperties, TokensType DEF IsPrompt, Limit
<1>2. Len(ms) > Len(SystemOf(ms)) + 3
  <2>1. Len(SystemOf(ms)) \in Nat /\ (Len(ms) <= Len(SystemOf(ms)) + 3 => Essential(ms) = ms)
    BY <1>1, ShortIsEssential, SystemAndRest
  <2> QED
    BY <1>1, <2>1
<1>3. PICK n \in Nat, middle, newest \in Seq(Messages) :
           /\ Len(ms) = n + 4 /\ n > 0 /\ ms[1].role = "system" /\ SystemOf(ms) = <<ms[1]>>
           /\ newest = Newest(SubSeq(ms, 2, Len(ms)), 3) /\ Len(newest) = 3
           /\ \A i \in 1..3 : newest[i] = ms[n + 1 + i]
           /\ middle = SubSeq(SubSeq(ms, 2, Len(ms)), 1, n) /\ Len(middle) = n
           /\ \A i \in 1..n : middle[i] = ms[i + 1]
  BY <1>2, LongPrompt
<1>4. SystemOf(ms) \in Seq(Messages) /\ Len(SystemOf(ms)) = 1 /\ SystemOf(ms)[1] = ms[1] /\ Len(SystemOf(ms)) + 1 = 2
  BY <1>1, <1>3, ElementOfSeq
<1>5. Essential(ms) = SystemOf(ms) \o newest
  BY <1>3, <1>4, Zenon DEF Essential
<1>6. /\ Tokens(Essential(ms)) = Tokens(SystemOf(ms)) + Tokens(newest)
      /\ Tokens(SystemOf(ms)) \in Nat /\ Tokens(newest) \in Nat /\ Tokens(Essential(ms)) \in Nat
  BY <1>4, <1>5, TokensOfBoth, TokensType
<1>7. Limit(window) - Tokens(Essential(ms)) \in Nat
  BY <1>1, <1>6
<1>8. PICK k : k = Max({i \in 0..Len(middle) : Tokens(SubSeq(middle, 1, i)) <= Limit(window) - Tokens(Essential(ms))})
  OBVIOUS
<1>9. k \in 0..Len(middle) /\ Tokens(SubSeq(middle, 1, k)) <= Limit(window) - Tokens(Essential(ms))
  BY <1>7, <1>8, ThereIsRoom, Zenon
<1>10. k \in Nat /\ k <= n
  BY <1>3, <1>9
<1>11. PICK kept : kept = SubSeq(middle, 1, k)
  OBVIOUS
<1>12. /\ kept \in Seq(Messages) /\ Len(kept) = k /\ \A i \in 1..k : kept[i] = middle[i]
       /\ Tokens(kept) <= Limit(window) - Tokens(Essential(ms)) /\ Tokens(kept) \in Nat
  BY <1>9, <1>11, BeginningOf, TokensType
<1>13. PICK p : p = SystemOf(ms) \o kept \o newest
  OBVIOUS
<1>14. /\ p \in Seq(Messages) /\ Len(p) = k + 4
       /\ p[1] = ms[1]
       /\ \A i \in 1..k : p[i + 1] = kept[i]
       /\ \A i \in 1..3 : p[k + 1 + i] = newest[i]
       /\ Tokens(p) = Tokens(SystemOf(ms)) + Tokens(kept) + Tokens(newest)
  <2> PICK S : S = SystemOf(ms)
    OBVIOUS
  <2>1. S \in Seq(Messages) /\ Len(S) = 1 /\ S[1] = ms[1] /\ Len(newest) = 3 /\ p = S \o kept \o newest
    BY <1>3, <1>4, <1>13, Zenon
  <2>2. kept \in Seq(Messages) /\ Len(kept) = k /\ k \in Nat
    BY <1>10, <1>12, Zenon
  <2>3. /\ p \in Seq(Messages) /\ Len(p) = k + 4
        /\ p[1] = S[1]
        /\ \A i \in 1..k : p[i + 1] = kept[i]
        /\ \A i \in 1..3 : p[k + 1 + i] = newest[i]
        /\ Tokens(p) = Tokens(S) + Tokens(kept) + Tokens(newest)
    <3>1. IsJoined(p, S, kept, newest)
      BY <2>1, <2>2, ThreeParts
    <3> QED
      BY <2>2, <3>1, Zenon DEF IsJoined
  <2> QED
    BY <2>1, <2>3, Zenon
<1>15. \A i \in 1..(k + 1) : p[i] = ms[i]
  <2> SUFFICES ASSUME NEW i \in 1..(k + 1) PROVE p[i] = ms[i]
    OBVIOUS
  <2>1. CASE i = 1
    BY <1>14, <2>1
  <2>2. CASE i # 1
    <3>1. i - 1 \in 1..k /\ i - 1 \in 1..n /\ (i - 1) + 1 = i
      BY <1>10, <2>2
    <3>2. p[(i - 1) + 1] = kept[i - 1] /\ kept[i - 1] = middle[i - 1] /\ middle[i - 1] = ms[(i - 1) + 1]
      BY <1>3, <1>12, <1>14, <3>1, Zenon
    <3> QED
      BY <3>1, <3>2
  <2> QED
    BY <2>1, <2>2
<1>16. \A i \in 1..3 : p[k + 1 + i] = ms[n + 1 + i]
  <2> SUFFICES ASSUME NEW i \in 1..3 PROVE p[k + 1 + i] = ms[n + 1 + i]
    OBVIOUS
  <2>1. p[k + 1 + i] = newest[i]
    BY <1>14, Zenon
  <2>2. newest[i] = ms[n + 1 + i]
    BY <1>3, Zenon
  <2> QED
    BY <2>1, <2>2
<1>17. Tokens(p) <= Limit(window)
  <2>1. Tokens(p) = Tokens(SystemOf(ms)) + Tokens(kept) + Tokens(newest)
    BY <1>14, Zenon
  <2>2. Tokens(kept) <= Limit(window) - Tokens(Essential(ms)) /\ Tokens(kept) \in Nat /\ Limit(window) \in Nat
    BY <1>1, <1>12, Zenon
  <2> QED
    BY <1>6, <2>1, <2>2
<1>18. EnforceContextLimit(ms, window) = p
  <2>1. ~(Tokens(ms) <= Limit(window)) /\ ~(Tokens(Essential(ms)) >= Limit(window))
    BY <1>1, <1>6
  <2>2. Len(SubSeq(ms, 2, Len(ms))) - Len(newest) = n
    <3>1. Len(SubSeq(ms, Len(SystemOf(ms)) + 1, Len(ms))) = Len(ms) - Len(SystemOf(ms))
      BY <1>1, SystemAndRest
    <3>2. Len(SubSeq(ms, 2, Len(ms))) = Len(ms) - 1
      BY <1>4, <3>1
    <3>3. Len(ms) = n + 4 /\ Len(newest) = 3
      BY <1>3, Zenon
    <3>4. Len(ms) - 1 - Len(newest) = n
      BY <3>3
    <3> QED
      BY <3>2, <3>4, Zenon
  <2> QED
    BY <1>3, <1>4, <1>8, <1>11, <1>13, <2>1, <2>2, Zenon DEF EnforceContextLimit
<1> QED
  BY <1>3, <1>10, <1>14, <1>15, <1>16, <1>17, <1>18

\* Whatever the conversation: what is sent of it fits, begins with the same system
\* prompt, ends with the same message, and is in the same order, if only what is
\* never cut fits (enforce_context_limit).
THEOREM CutPromptFits ==
  ASSUME NEW ms, IsPrompt(ms), NEW window \in Nat, Tokens(Essential(ms)) < Limit(window)
  PROVE  Fits(EnforceContextLimit(ms, window), ms, window)
<1> PICK p : p = EnforceContextLimit(ms, window)
  OBVIOUS
<1>1. ms \in Seq(Messages) /\ Len(ms) \in Nat /\ Len(ms) > 0 /\ ms # <<>> /\ Limit(window) \in Nat /\ Tokens(ms) \in Nat
  BY LenProperties, TokensType DEF IsPrompt, Limit
<1>2. \A i, j \in 1..Len(ms) : i < j => ms[i].place < ms[j].place
  BY DEF IsPrompt, InOrder
<1>3. CASE Tokens(ms) <= Limit(window)
  <2>1. p = ms
    BY <1>3 DEF EnforceContextLimit
  <2>2. \A i \in 1..(Len(ms) - 1) : ms[i].place < ms[i + 1].place
    BY <1>1, <1>2
  <2> QED
    BY <1>3, <2>1, <2>2 DEF Fits
<1>4. CASE Tokens(ms) > Limit(window)
  <2>1. PICK k, n \in Nat :
          /\ ms[1].role = "system" /\ Len(ms) = n + 4 /\ k <= n
          /\ p \in Seq(Messages) /\ Len(p) = k + 4
          /\ \A i \in 1..(k + 1) : p[i] = ms[i]
          /\ \A i \in 1..3 : p[k + 1 + i] = ms[n + 1 + i]
          /\ Tokens(p) <= Limit(window)
    BY <1>4, CutParts
  <2>2. SystemOf(ms) = <<ms[1]>>
    BY <1>1, <2>1 DEF SystemOf
  <2>3. SystemOf(p) = <<ms[1]>>
    <3>1. p # <<>> /\ p[1] = ms[1]
      BY <2>1
    <3> QED
      BY <2>1, <3>1 DEF SystemOf
  <2>4. Last(p) = Last(ms)
    <3>1. p[k + 1 + 3] = ms[n + 1 + 3] /\ k + 1 + 3 = k + 4 /\ n + 1 + 3 = n + 4
      BY <2>1
    <3> QED
      BY <2>1, <3>1 DEF Last
  <2>5. \A i \in 1..(Len(p) - 1) : p[i].place < p[i + 1].place
    <3> SUFFICES ASSUME NEW i \in 1..(k + 3) PROVE p[i].place < p[i + 1].place
      BY <2>1
    <3>1. CASE i <= k
      <4>1. p[i] = ms[i] /\ p[i + 1] = ms[i + 1] /\ i \in 1..Len(ms) /\ i + 1 \in 1..Len(ms)
        BY <2>1, <3>1
      <4> QED
        BY <1>2, <4>1
    <3>2. CASE i = k + 1
      <4>1. p[i] = ms[k + 1] /\ p[i + 1] = ms[n + 1 + 1] /\ k + 1 \in 1..Len(ms) /\ n + 1 + 1 \in 1..Len(ms) /\ k + 1 < n + 1 + 1
        BY <2>1, <3>2
      <4> QED
        BY <1>2, <4>1
    <3>3. CASE i > k + 1
      <4> PICK j \in 1..2 : i = k + 1 + j
        BY <3>3
      <4>1. p[k + 1 + j] = ms[n + 1 + j] /\ p[k + 1 + (j + 1)] = ms[n + 1 + (j + 1)]
        BY <2>1
      <4>2. k + 1 + (j + 1) = i + 1 /\ n + 1 + j \in 1..Len(ms) /\ n + 1 + (j + 1) \in 1..Len(ms) /\ n + 1 + j < n + 1 + (j + 1)
        BY <2>1
      <4> QED
        BY <1>2, <4>1, <4>2
    <3> QED
      BY <3>1, <3>2, <3>3
  <2> QED
    BY <2>1, <2>2, <2>3, <2>4, <2>5 DEF Fits
<1> QED
  BY <1>1, <1>3, <1>4

-----------------------------------------------------------------------------
(* A set in order.                                                         *)

\* Each element has a key of its own, a pair of numbers.
IsKey(S, key) ==
  /\ key \in [S -> Int \X Int]
  /\ \A x, y \in S : key[x] = key[y] => x = y

\* Whoever comes earlier has the lower rank, and ranks are counted from 1.
LEMMA RanksAreInOrder ==
  ASSUME NEW S, IsFiniteSet(S), NEW key, IsKey(S, key)
  PROVE  /\ \A x \in S : Rank(x, S, key) \in 1..Cardinality(S)
         /\ \A x, y \in S : Earlier(key[x], key[y]) => Rank(x, S, key) < Rank(y, S, key)
         /\ \A x, y \in S : Rank(x, S, key) = Rank(y, S, key) => x = y
<1> DEFINE Before(x) == {y \in S : Earlier(key[y], key[x])}
<1>1. \A x \in S : key[x][1] \in Int /\ key[x][2] \in Int /\ key[x] = <<key[x][1], key[x][2]>>
  BY DEF IsKey
<1>2. ASSUME NEW x \in S PROVE x \notin Before(x)
  BY <1>1 DEF Earlier
<1>3. ASSUME NEW x \in S, NEW y \in S, Earlier(key[x], key[y]) PROVE Before(x) \subseteq Before(y) /\ x \in Before(y)
  BY <1>1, <1>3 DEF Earlier
<1>4. ASSUME NEW x \in S PROVE IsFiniteSet(Before(x)) /\ Cardinality(Before(x)) \in Nat /\ Cardinality(Before(x)) < Cardinality(S)
  <2>1. Before(x) \in SUBSET S /\ Before(x) # S
    BY <1>2
  <2> HIDE DEF Before
  <2>2. IsFiniteSet(Before(x)) /\ Cardinality(Before(x)) <= Cardinality(S) /\ Cardinality(Before(x)) # Cardinality(S)
    BY <2>1, FS_Subset
  <2> QED
    BY <2>2, FS_CardinalityType
<1>5. ASSUME NEW x \in S, NEW y \in S, Earlier(key[x], key[y]) PROVE Cardinality(Before(x)) < Cardinality(Before(y))
  <2>1. Before(x) \subseteq Before(y) /\ Before(x) # Before(y)
    BY <1>2, <1>3, <1>5
  <2>2. IsFiniteSet(Before(y)) /\ Cardinality(Before(x)) \in Nat /\ Cardinality(Before(y)) \in Nat
    BY <1>4
  <2> HIDE DEF Before
  <2>3. Cardinality(Before(x)) <= Cardinality(Before(y)) /\ Cardinality(Before(x)) # Cardinality(Before(y))
    BY <2>1, <2>2, FS_Subset
  <2> QED
    BY <2>2, <2>3
<1>6. \A x \in S : Rank(x, S, key) = Cardinality(Before(x)) + 1
  BY DEF Rank
<1>7. \A x, y \in S : x # y => Earlier(key[x], key[y]) \/ Earlier(key[y], key[x])
  BY <1>1 DEF Earlier, IsKey
<1> HIDE DEF Before
<1>8. Cardinality(S) \in Nat
  BY FS_CardinalityType
<1>9. \A x \in S : Rank(x, S, key) \in 1..Cardinality(S)
  BY <1>4, <1>6, <1>8
<1>10. \A x, y \in S : Earlier(key[x], key[y]) => Rank(x, S, key) < Rank(y, S, key)
  BY <1>4, <1>5, <1>6
<1>11. \A x, y \in S : Rank(x, S, key) = Rank(y, S, key) => x = y
  BY <1>7, <1>9, <1>10
<1> QED
  BY <1>9, <1>10, <1>11

\* Each element is in the sequence, at the place of its rank.
LEMMA RanksAreTaken ==
  ASSUME NEW S, IsFiniteSet(S), NEW key, IsKey(S, key), NEW n \in 1..Cardinality(S)
  PROVE  \E x \in S : Rank(x, S, key) = n
<1> PICK rank : rank = [x \in S |-> Rank(x, S, key)]
  OBVIOUS
<1>1. Cardinality(S) \in Nat
  BY FS_CardinalityType
<1>2. rank \in Injection(S, 1..Cardinality(S))
  BY RanksAreInOrder DEF Injection, IsInjective
<1>3. IsFiniteSet(1..Cardinality(S)) /\ Cardinality(1..Cardinality(S)) = Cardinality(S)
  BY <1>1, FS_Interval
<1>4. rank \in Surjection(S, 1..Cardinality(S))
  BY <1>2, <1>3, FS_Injection
<1> QED
  BY <1>4 DEF Surjection

\* A result page is a list of all that was found, each once, the better before the worse.
THEOREM SortedIsInOrder ==
  ASSUME NEW S, IsFiniteSet(S), NEW key, IsKey(S, key)
  PROVE  LET s == Sorted(S, key) IN
         /\ s \in Seq(S) /\ Len(s) = Cardinality(S)
         /\ \A x \in S : \E i \in 1..Len(s) : s[i] = x
         /\ \A i, j \in 1..Len(s) : i < j => Earlier(key[s[i]], key[s[j]])
<1> PICK s : s = Sorted(S, key)
  OBVIOUS
<1>1. Cardinality(S) \in Nat
  BY FS_CardinalityType
<1>2. ASSUME NEW n \in 1..Cardinality(S) PROVE s[n] \in S /\ Rank(s[n], S, key) = n
  <2>1. s[n] = CHOOSE x \in S : Rank(x, S, key) = n
    BY DEF Sorted
  <2>2. \E x \in S : Rank(x, S, key) = n
    BY RanksAreTaken
  <2> QED
    BY <2>1, <2>2, Zenon
<1>3. s \in Seq(S) /\ Len(s) = Cardinality(S)
  <2>1. s \in [1..Cardinality(S) -> S]
    BY <1>2, Zenon DEF Sorted
  <2> QED
    BY <1>1, <2>1
<1>4. ASSUME NEW x \in S PROVE \E i \in 1..Len(s) : s[i] = x
  BY <1>2, <1>3, RanksAreInOrder
<1>5. ASSUME NEW i \in 1..Len(s), NEW j \in 1..Len(s), i < j PROVE Earlier(key[s[i]], key[s[j]])
  <2>1. s[i] \in S /\ s[j] \in S /\ Rank(s[i], S, key) = i /\ Rank(s[j], S, key) = j
    BY <1>2, <1>3
  <2>2. i \in Int /\ j \in Int /\ ~(j < i) /\ i # j
    BY <1>1, <1>3, <1>5
  <2>4. ~Earlier(key[s[j]], key[s[i]])
    BY <2>1, <2>2, RanksAreInOrder
  <2>5. key[s[i]] # key[s[j]]
    BY <2>1, <2>2, Zenon DEF IsKey
  <2>3. key[s[i]] \in Int \X Int /\ key[s[j]] \in Int \X Int
    BY <2>1 DEF IsKey
  <2> QED
    BY <2>3, <2>4, <2>5 DEF Earlier
<1> QED
  BY <1>3, <1>4, <1>5

-----------------------------------------------------------------------------
(* What is retrieved are embedded texts.                                   *)

LEMMA FirstOf ==
  ASSUME NEW S, NEW s \in Seq(S), NEW n \in Nat
  PROVE  First(s, n) \in Seq(S) /\ Len(First(s, n)) <= n
<1>1. Len(s) \in Nat
  BY LenProperties
<1>2. PICK m \in Nat : m = (IF Len(s) < n THEN Len(s) ELSE n) /\ m <= Len(s) /\ m <= n
  BY <1>1
<1>3. SubSeq(s, 1, m) \in Seq(S) /\ Len(SubSeq(s, 1, m)) = IF 1 <= m THEN m - 1 + 1 ELSE 0
  BY <1>1, <1>2, PartOf
<1>4. First(s, n) = SubSeq(s, 1, m)
  BY <1>2 DEF First
<1> QED
  BY <1>2, <1>3, <1>4

LEMMA FoundIn ==
  ASSUME NEW S, NEW s \in Seq(S)
  PROVE  ToSet(s) \subseteq S
  BY ElementOfSeq, LenProperties DEF ToSet

LEMMA PartOfACorpus ==
  ASSUME NEW texts, IsCorpus(texts), NEW T \in SUBSET texts
  PROVE  IsCorpus(T)
  BY FS_Subset DEF IsCorpus

\* Whatever decides, in either direction, and the id between equals.
LEMMA InEitherOrder ==
  ASSUME NEW texts, IsCorpus(texts), NEW value \in [texts -> Int]
  PROVE  Ascending(texts, value) \in Seq(texts) /\ Descending(texts, value) \in Seq(texts)
<1>1. IsFiniteSet(texts) /\ (\A t \in texts : t.id \in Nat) /\ (\A t, u \in texts : t.id = u.id => t = u)
  BY DEF IsCorpus, IsText
<1> PICK up, down : up = [t \in texts |-> <<value[t], t.id>>] /\ down = [u \in texts |-> <<-value[u], u.id>>]
  OBVIOUS
<1>2. IsKey(texts, up)
  BY <1>1 DEF IsKey
<1>3. IsKey(texts, down)
  BY <1>1 DEF IsKey
<1> QED
  BY <1>1, <1>2, <1>3, SortedIsInOrder DEF Ascending, Descending

LEMMA ValuesOfTexts ==
  ASSUME NEW texts, IsCorpus(texts), NEW q \in 1..2
  PROVE  /\ WordsIn(texts, q) \in [texts -> Nat]
         /\ Distances(texts, q) \in [texts -> Nat]
         /\ Similarities(texts, q) \in [texts -> Nat]
         /\ With(texts, q) \in SUBSET texts
<1>1. ASSUME NEW t \in texts PROVE t.words[q] \in Nat /\ t.far[q] \in 0..100
  <2>1. t.words \in Seq(Nat) /\ t.far \in Seq(0..100) /\ Len(t.words) >= 2 /\ Len(t.far) >= 2
    BY DEF IsCorpus, IsText, Far
  <2>2. q \in 1..Len(t.words) /\ q \in 1..Len(t.far)
    BY <2>1, LenProperties
  <2> QED
    BY <2>1, <2>2, ElementOfSeq
<1>2. \A t \in texts : t.far[q] \in Nat /\ 100 - t.far[q] \in Nat
  BY <1>1
<1> QED
  BY <1>1, <1>2 DEF WordsIn, Distances, Similarities, With, Far

LEMMA ImageIsFinite ==
  ASSUME NEW S, IsFiniteSet(S), NEW f, DOMAIN f = S
  PROVE  IsFiniteSet({f[x] : x \in S})
<1> PICK T : T = {f[x] : x \in S}
  OBVIOUS
<1>1. [x \in S |-> f[x]] \in Surjection(S, T)
  BY DEF Surjection
<1> QED
  BY <1>1, FS_Surjection

LEMMA HundredthsOf ==
  ASSUME NEW v \in Nat, NEW h \in Nat, h > 0
  PROVE  (v * 100) \div h \in Nat
<1>1. v * 100 \in Nat
  OBVIOUS
<1> QED
  BY <1>1

LEMMA NormalisedType ==
  ASSUME NEW T, IsFiniteSet(T), NEW value \in [T -> Nat]
  PROVE  Normalised(value) \in [T -> Nat]
<1> PICK values : values = {value[t] : t \in T}
  OBVIOUS
<1> PICK highest : highest = Max(values)
  OBVIOUS
<1>1. T # {} => highest \in Nat
  <2>1. IsFiniteSet(values) /\ values \subseteq Nat
    BY ImageIsFinite
  <2>2. T # {} => values # {}
    OBVIOUS
  <2> QED
    BY <2>1, <2>2, MaxOfFinite
<1>2. Normalised(value) = [t \in T |-> IF highest > 0 THEN (value[t] * 100) \div highest ELSE 0]
  BY DEF Normalised
<1>3. ASSUME NEW t \in T PROVE (IF highest > 0 THEN (value[t] * 100) \div highest ELSE 0) \in Nat
  <2>1. highest \in Nat /\ value[t] \in Nat
    BY <1>1
  <2>2. CASE highest > 0
    <3>1. (value[t] * 100) \div highest \in Nat
      BY <2>1, <2>2, HundredthsOf
    <3> QED
      BY <2>2, <3>1, Zenon
  <2>3. CASE ~(highest > 0)
    BY <2>3, Zenon
  <2> QED
    BY <2>2, <2>3
<1> QED
  BY <1>2, <1>3, Zenon

LEMMA WeightedType ==
  ASSUME NEW T, IsFiniteSet(T), NEW U, IsFiniteSet(U),
         NEW words \in [T -> Nat], NEW vectors \in [U -> Nat], NEW weight \in 0..10
  PROVE  Weighted(words, vectors, weight) \in [T \cup U -> Nat]
<1> PICK a, b : a = Normalised(words) /\ b = Normalised(vectors)
  OBVIOUS
<1>1. a \in [T -> Nat] /\ b \in [U -> Nat]
  BY NormalisedType
<1>2. Weighted(words, vectors, weight) =
        [t \in T \cup U |-> weight * (IF t \in T THEN a[t] ELSE 0) + (10 - weight) * (IF t \in U THEN b[t] ELSE 0)]
  BY DEF Weighted
<1>3. \A x, y \in Nat : weight * x + (10 - weight) * y \in Nat
  OBVIOUS
<1>4. \A t \in T \cup U : (IF t \in T THEN a[t] ELSE 0) \in Nat /\ (IF t \in U THEN b[t] ELSE 0) \in Nat
  BY <1>1
<1>5. ASSUME NEW t \in T \cup U
      PROVE  weight * (IF t \in T THEN a[t] ELSE 0) + (10 - weight) * (IF t \in U THEN b[t] ELSE 0) \in Nat
  <2> PICK x, y : x = (IF t \in T THEN a[t] ELSE 0) /\ y = (IF t \in U THEN b[t] ELSE 0)
    OBVIOUS
  <2>1. x \in Nat /\ y \in Nat
    BY <1>4
  <2> QED
    BY <1>3, <2>1
<1> QED
  BY <1>2, <1>5, Zenon

LEMMA FoundByOne ==
  ASSUME NEW texts, IsCorpus(texts), NEW q \in 1..2, NEW n \in Nat
  PROVE  Bm25Search(texts, q, n) \in SUBSET texts /\ VectorSearch(texts, q, n) \in SUBSET texts
<1>1. With(texts, q) \in SUBSET texts /\ IsCorpus(With(texts, q))
  BY ValuesOfTexts, PartOfACorpus
<1>2. [t \in texts |-> t.id] \in [texts -> Int] /\ [t \in With(texts, q) |-> t.id] \in [With(texts, q) -> Int]
  BY <1>1 DEF IsCorpus, IsText
<1>3. Distances(texts, q) \in [texts -> Int]
  BY ValuesOfTexts
<1>4. Ascending(texts, Distances(texts, q)) \in Seq(texts)
  BY <1>3, InEitherOrder
<1>5. Ascending(With(texts, q), [t \in texts |-> t.id]) \in Seq(With(texts, q))
  <2> PICK W : W = With(texts, q)
    OBVIOUS
  <2>0. PICK f, g : f = [t \in texts |-> t.id] /\ g = [t \in W |-> t.id]
    OBVIOUS
  <2>1. W \subseteq texts /\ IsCorpus(W) /\ g \in [W -> Int] /\ \A t \in W : f[t] = g[t]
    BY <1>1, <1>2, <2>0
  <2>2. [t \in W |-> <<f[t], t.id>>] = [t \in W |-> <<g[t], t.id>>]
    BY <2>1
  <2>3. Ascending(W, f) = Ascending(W, g)
    BY <2>2, Zenon DEF Ascending
  <2> QED
    BY <2>0, <2>1, <2>3, InEitherOrder
<1>6. First(Ascending(texts, Distances(texts, q)), n) \in Seq(texts)
  BY <1>4, FirstOf
<1>7. First(Ascending(With(texts, q), [t \in texts |-> t.id]), n) \in Seq(With(texts, q))
  BY <1>5, FirstOf
<1> QED
  BY <1>1, <1>6, <1>7, FoundIn DEF Bm25Search, VectorSearch

LEMMA FusedType ==
  ASSUME NEW texts, IsCorpus(texts), NEW q \in 1..2, NEW k \in Nat
  PROVE  \E S \in SUBSET texts : Fused(texts, q, k, 3) \in [S -> Nat]
<1>1. Fetched(k) \in Nat
  BY DEF Fetched
<1> PICK A, B : A = Bm25Search(texts, q, Fetched(k)) /\ B = VectorSearch(texts, q, Fetched(k))
  OBVIOUS
<1>2. A \in SUBSET texts /\ B \in SUBSET texts /\ IsCorpus(A) /\ IsCorpus(B)
  BY <1>1, FoundByOne, PartOfACorpus
<1>3. WordsIn(A, q) \in [A -> Nat] /\ Distances(B, q) \in [B -> Nat]
  BY <1>2, ValuesOfTexts
<1>4. IsFiniteSet(A) /\ IsFiniteSet(B)
  BY <1>2 DEF IsCorpus
<1>5. Weighted(WordsIn(A, q), Distances(B, q), 3) \in [A \cup B -> Nat]
  <2> PICK v, w, weight : v = WordsIn(A, q) /\ w = Distances(B, q) /\ weight = 3
    OBVIOUS
  <2>1. v \in [A -> Nat] /\ w \in [B -> Nat] /\ weight \in 0..10
    BY <1>3
  <2>2. Weighted(v, w, weight) \in [A \cup B -> Nat]
    BY <1>4, <2>1, WeightedType
  <2> QED
    BY <2>2
<1> QED
  BY <1>2, <1>5 DEF Fused

Found(texts) == [text: texts, score: Int]

\* A query finds texts of the investigation, at most as many as are asked for.
LEMMA RetrieveType ==
  ASSUME NEW texts, IsCorpus(texts), NEW q \in 1..2, NEW k \in Nat, NEW gone
  PROVE  Retrieve(texts, q, k, gone) \subseteq Found(texts) /\ IsFiniteSet(Retrieve(texts, q, k, gone))
<1> PICK value : value = Fused(texts, q, k, 3)
  OBVIOUS
<1>1. PICK S \in SUBSET texts : value \in [S -> Nat]
  BY FusedType
<1>2. IsCorpus(S) /\ value \in [S -> Int] /\ DOMAIN value = S
  BY <1>1, PartOfACorpus
<1>3. Descending(S, value) \in Seq(S)
  BY <1>2, InEitherOrder
<1>4. First(Descending(S, value), k) \in Seq(S)
  BY <1>3, FirstOf
<1>5. HybridRetrieve(texts, q, k) = First(Descending(S, value), k)
  BY <1>2 DEF HybridRetrieve
<1> PICK kept : kept = {u \in ToSet(HybridRetrieve(texts, q, k)) : u.id \notin gone}
  OBVIOUS
<1>6. kept \in SUBSET S
  BY <1>4, <1>5, FoundIn
<1>7. Retrieve(texts, q, k, gone) = {[text |-> t, score |-> 1000 - value[t]] : t \in kept}
  BY DEF Retrieve, LoadTexts
<1>8. \A t \in kept : 1000 - value[t] \in Int
  BY <1>1, <1>6
<1>9. IsFiniteSet(kept)
  BY <1>2, <1>6, FS_Subset DEF IsCorpus
<1>13. PICK scored : scored = [t \in kept |-> [text |-> t, score |-> 1000 - value[t]]]
  OBVIOUS
<1>10. IsFiniteSet({scored[t] : t \in kept})
  <2>1. DOMAIN scored = kept
    BY <1>13
  <2> QED
    BY <1>9, <2>1, ImageIsFinite
<1>11. Retrieve(texts, q, k, gone) = {scored[t] : t \in kept}
  BY <1>7, <1>13
<1>12. \A t \in kept : scored[t] \in Found(texts)
  BY <1>1, <1>6, <1>8, <1>13 DEF Found
<1>14. {scored[t] : t \in kept} \subseteq Found(texts)
  BY <1>12
<1> QED
  BY <1>10, <1>11, <1>14

LEMMA QueryKType == ASSUME NEW n \in Nat PROVE QueryK(n) \in Nat
  BY DEF QueryK

\* Each text once, for its best score.
LEMMA DeduplicateType ==
  ASSUME NEW texts, IsCorpus(texts), NEW found, found \subseteq Found(texts), IsFiniteSet(found), NEW n \in Nat
  PROVE  Deduplicate(found, n) \in Seq(texts)
<1> PICK S : S = {c.text : c \in found}
  OBVIOUS
<1> PICK score : score = [t \in S |-> Max({c.score : c \in {d \in found : d.text = t}})]
  OBVIOUS
<1>1. S \in SUBSET texts
  BY DEF Found
<1>2. ASSUME NEW t \in S PROVE score[t] \in Int
  <2> PICK T : T = {d \in found : d.text = t}
    OBVIOUS
  <2> PICK scores : scores = {c.score : c \in T}
    OBVIOUS
  <2> PICK f : f = [c \in T |-> c.score]
    OBVIOUS
  <2>1. IsFiniteSet(T) /\ T # {} /\ scores \subseteq Int /\ scores # {}
    BY FS_Subset DEF Found
  <2>2. scores = {f[c] : c \in T}
    OBVIOUS
  <2>3. IsFiniteSet(scores)
    BY <2>1, <2>2, ImageIsFinite
  <2>4. Max(scores) \in scores
    BY <2>1, <2>3, MaxOfFinite
  <2>5. score[t] = Max(scores)
    OBVIOUS
  <2> QED
    BY <2>1, <2>4, <2>5
<1>3. IsCorpus(S) /\ score \in [S -> Int]
  BY <1>1, <1>2, PartOfACorpus
<1>4. Descending(S, score) \in Seq(S)
  BY <1>3, InEitherOrder
<1>5. First(Descending(S, score), n) \in Seq(S)
  BY <1>4, FirstOf
<1>6. Deduplicate(found, n) = First(Descending(S, score), n)
  BY DEF Deduplicate
<1>7. Deduplicate(found, n) \in Seq(S)
  BY <1>5, <1>6
<1> QED
  BY <1>1, <1>7, LenProperties, ElementOfSeq

LEMMA RemainderOf ==
  ASSUME NEW m \in Nat
  PROVE  m % 100 \in 0..m
  OBVIOUS

LEMMA FirstDistance ==
  ASSUME NEW t, IsText(t)
  PROVE  t.far[1] \in Int
<1>1. PICK v : v = t.far
  OBVIOUS
<1>2. v \in Seq(0..100) /\ 1 \in 1..Len(v)
  BY <1>1, LenProperties DEF IsText, Far
<1>3. v[1] \in 0..100
  BY <1>2, ElementOfSeq
<1> QED
  BY <1>1, <1>3

\* The reranker's order, right or wrong, is one of the texts it was given.
LEMMA RerankedType ==
  ASSUME NEW C, NEW texts \in Seq(C), \A t \in C : IsText(t), NEW n \in Nat
  PROVE  Reranked(texts, 100, n) \in Seq(C)
<1>1. Len(texts) \in Nat /\ DOMAIN texts = 1..Len(texts) /\ \A i \in 1..Len(texts) : texts[i] \in C
  BY LenProperties, ElementOfSeq
<1>2. PICK S : S = 1..Len(texts)
  OBVIOUS
<1>3. PICK key : key = [i \in S |-> <<texts[i].far[1], i>>]
  OBVIOUS
<1>4. ASSUME NEW i \in S PROVE texts[i].far[1] \in Int
  BY <1>1, <1>2, FirstDistance
<1>5. IsKey(S, key)
  BY <1>1, <1>2, <1>3, <1>4 DEF IsKey
<1>6. IsFiniteSet(S)
  BY <1>1, <1>2, FS_Interval
<1>7. PICK order : order = Sorted(S, key)
  OBVIOUS
<1>8. order \in Seq(S)
  BY <1>5, <1>6, <1>7, SortedIsInOrder
<1>9. PICK m \in Nat : m = Len(order) /\ DOMAIN order = 1..m /\ \A i \in 1..m : order[i] \in S
  BY <1>8, LenProperties, ElementOfSeq
<1>10. PICK s : s = [i \in 1..m |-> texts[((order[i] - 1) % 100) + 1]]
  OBVIOUS
<1>11. \A o \in S : ((o - 1) % 100) + 1 \in S
  BY <1>1, <1>2, RemainderOf
<1>12. \A i \in 1..m : texts[((order[i] - 1) % 100) + 1] \in C
  BY <1>1, <1>2, <1>9, <1>11
<1>13. s \in [1..m -> C]
  BY <1>10, <1>12
<1>14. s \in Seq(C)
  BY <1>13
<1>15. Reranked(texts, 100, n) = First(s, n)
  BY <1>1, <1>2, <1>3, <1>7, <1>9, <1>10 DEF Reranked
<1> QED
  BY <1>14, <1>15, FirstOf

-----------------------------------------------------------------------------
(* Conversations: a system prompt and a question first, and in order.      *)

IsLog(ms) ==
  /\ ms \in Seq(Messages) /\ Len(ms) >= 2 /\ InOrder(ms)
  /\ ms[1].role = "system"

LEMMA LogsArePrompts ==
  ASSUME NEW ms, IsLog(ms)
  PROVE  IsPrompt(ms)
  BY LenProperties DEF IsLog, IsPrompt

LEMMA MessageType ==
  ASSUME NEW role \in Roles, NEW size \in Nat, NEW place \in Nat
  PROVE  /\ Message(role, size, place) \in Messages
         /\ Message(role, size, place).role = role
         /\ Message(role, size, place).size = size /\ Message(role, size, place).place = place
  BY DEF Message, Messages

LEMMA OneMessage ==
  ASSUME NEW m \in Messages
  PROVE  <<m>> \in Seq(Messages) /\ Len(<<m>>) = 1 /\ <<m>>[1] = m /\ IsPrompt(<<m>>)
  BY DEF IsPrompt, InOrder

LEMMA TwoMessages ==
  ASSUME NEW a \in Nat, NEW b \in Nat
  PROVE  IsLog(<<Message("system", a, 0), Message("user", b, 1)>>)
<1>1. PICK m, n : m = Message("system", a, 0) /\ n = Message("user", b, 1)
  OBVIOUS
<1>2. m \in Messages /\ n \in Messages /\ m.role = "system" /\ m.place = 0 /\ n.place = 1
  BY <1>1, MessageType DEF Roles
<1>3. PICK ms : ms = <<m, n>>
  OBVIOUS
<1>4. ms \in Seq(Messages) /\ Len(ms) = 2 /\ ms[1] = m /\ ms[2] = n
  BY <1>2, <1>3
<1>5. InOrder(ms)
  BY <1>2, <1>4 DEF InOrder
<1> QED
  BY <1>1, <1>2, <1>3, <1>4, <1>5 DEF IsLog

\* Two conversations in order, all of one before all of the other.
ComeOneByOne(a, m, b, n) ==
  /\ a \in Seq(Messages) /\ Len(a) = m /\ InOrder(a)
  /\ b \in Seq(Messages) /\ Len(b) = n /\ InOrder(b)
  /\ \A i \in 1..m, j \in 1..n : a[i].place < b[j].place
AreBoth(s, a, m, b, n) ==
  /\ s \in Seq(Messages) /\ Len(s) = m + n /\ InOrder(s)
  /\ \A i \in 1..m : s[i] = a[i]
  /\ \A i \in 1..n : s[m + i] = b[i]

LEMMA JoinedInOrder ==
  ASSUME NEW a, NEW b, NEW m \in Nat, NEW n \in Nat, ComeOneByOne(a, m, b, n)
  PROVE  AreBoth(a \o b, a, m, b, n)
<1>1. a \in Seq(Messages) /\ b \in Seq(Messages) /\ Len(a) = m /\ Len(b) = n
  BY DEF ComeOneByOne
<1>2. PICK s : s = a \o b
  OBVIOUS
<1>3. /\ s \in Seq(Messages) /\ Len(s) = m + n
      /\ \A i \in 1..m : s[i] = a[i]
      /\ \A i \in (m + 1)..(m + n) : s[i] = b[i - m]
  <2>1. s \in Seq(Messages) /\ Len(s) = m + n
    <3>1. a \o b \in Seq(Messages)
      BY <1>1
    <3>2. Len(a \o b) = Len(a) + Len(b)
      BY <1>1
    <3> QED
      BY <1>1, <1>2, <3>1, <3>2, Zenon
  <2>2. ASSUME NEW i \in 1..m PROVE s[i] = a[i]
    BY <1>1, <1>2
  <2>3. ASSUME NEW i \in (m + 1)..(m + n) PROVE s[i] = b[i - m]
    BY <1>1, <1>2
  <2> QED
    BY <2>1, <2>2, <2>3
<1>4. ASSUME NEW i \in 1..(m + n), NEW j \in 1..(m + n), i < j PROVE s[i].place < s[j].place
  <2>1. CASE j <= m
    <3>1. i \in 1..m /\ j \in 1..m
      BY <1>4, <2>1
    <3>2. a[i].place < a[j].place
      BY <1>1, <1>4, <3>1 DEF InOrder, ComeOneByOne
    <3> QED
      BY <1>3, <3>1, <3>2, Zenon
  <2>2. CASE i > m
    <3>1. i \in (m + 1)..(m + n) /\ j \in (m + 1)..(m + n) /\ i - m \in 1..n /\ j - m \in 1..n /\ i - m < j - m
      BY <1>4, <2>2
    <3>2. b[i - m].place < b[j - m].place
      BY <1>1, <3>1 DEF InOrder, ComeOneByOne
    <3> QED
      BY <1>3, <3>1, <3>2, Zenon
  <2>3. CASE i <= m /\ j > m
    <3>1. i \in 1..m /\ j \in (m + 1)..(m + n) /\ j - m \in 1..n
      BY <1>4, <2>3
    <3>2. a[i].place < b[j - m].place
      BY <3>1 DEF ComeOneByOne
    <3> QED
      BY <1>3, <3>1, <3>2, Zenon
  <2> QED
    BY <2>1, <2>2, <2>3
<1>5. InOrder(s)
  BY <1>3, <1>4 DEF InOrder
<1>6. \A i \in 1..n : s[m + i] = b[i]
  <2> SUFFICES ASSUME NEW i \in 1..n PROVE s[m + i] = b[i]
    OBVIOUS
  <2>1. m + i \in (m + 1)..(m + n) /\ (m + i) - m = i
    OBVIOUS
  <2> QED
    BY <1>3, <2>1
<1> QED
  BY <1>2, <1>3, <1>5, <1>6, Zenon DEF AreBoth

\* A part of a conversation is in order.
LEMMA PartInOrder ==
  ASSUME NEW ms \in Seq(Messages), InOrder(ms), NEW m \in Nat \ {0}, NEW n \in Nat, n <= Len(ms)
  PROVE  InOrder(SubSeq(ms, m, n))
<1>1. PICK s : s = SubSeq(ms, m, n)
  OBVIOUS
<1>2. Len(s) = (IF m <= n THEN n - m + 1 ELSE 0) /\ \A i \in 1..(n - m + 1) : s[i] = ms[m + i - 1]
  BY <1>1, PartOf
<1>3. ASSUME NEW i \in 1..Len(s), NEW j \in 1..Len(s), i < j PROVE s[i].place < s[j].place
  <2>1. i \in 1..(n - m + 1) /\ j \in 1..(n - m + 1)
    BY <1>2
  <2>2. m + i - 1 \in 1..Len(ms) /\ m + j - 1 \in 1..Len(ms) /\ m + i - 1 < m + j - 1
    BY <1>3, <2>1, LenProperties
  <2>3. ms[m + i - 1].place < ms[m + j - 1].place
    BY <2>2 DEF InOrder
  <2> QED
    BY <1>2, <2>1, <2>3, Zenon
<1> QED
  BY <1>1, <1>3 DEF InOrder

LEMMA PlacesRise ==
  ASSUME NEW ms \in Seq(Messages), InOrder(ms), NEW i \in 1..Len(ms), NEW j \in 1..Len(ms), i < j
  PROVE  ms[i].place < ms[j].place
  BY DEF InOrder

\* The beginning of a log and its newest messages, when there are others in between.
LEMMA BothEnds ==
  ASSUME NEW log, IsLog(log), NEW n \in Nat \ {0}, n + 2 < Len(log)
  PROVE  /\ SubSeq(log, 1, 2) \in Seq(Messages) /\ Len(SubSeq(log, 1, 2)) = 2
         /\ SubSeq(log, 1, 2)[1] = log[1] /\ SubSeq(log, 1, 2)[2] = log[2]
         /\ Newest(log, n) \in Seq(Messages) /\ Len(Newest(log, n)) = n
         /\ \A i \in 1..n : Newest(log, n)[i] = log[Len(log) - n + i]
         /\ InOrder(SubSeq(log, 1, 2)) /\ InOrder(Newest(log, n))
<1>1. PICK L \in Nat : L = Len(log)
  BY LenProperties DEF IsLog
<1>2. log \in Seq(Messages) /\ InOrder(log)
  BY DEF IsLog
<1>3. /\ SubSeq(log, 1, 2) \in Seq(Messages) /\ Len(SubSeq(log, 1, 2)) = 2
      /\ SubSeq(log, 1, 2)[1] = log[1] /\ SubSeq(log, 1, 2)[2] = log[2]
  <2>1. /\ SubSeq(log, 1, 2) \in Seq(Messages)
        /\ Len(SubSeq(log, 1, 2)) = IF 1 <= 2 THEN 2 - 1 + 1 ELSE 0
        /\ \A i \in 1..(2 - 1 + 1) : SubSeq(log, 1, 2)[i] = log[1 + i - 1]
    BY <1>1, <1>2, PartOf
  <2> QED
    BY <2>1
<1>4. AtMost(n, L) = n
  BY <1>1 DEF AtMost
<1>5. /\ Newest(log, n) \in Seq(Messages) /\ Len(Newest(log, n)) = n
      /\ \A i \in 1..n : Newest(log, n)[i] = log[L - n + i]
  BY <1>1, <1>2, <1>4, NewestOf
<1>6. InOrder(SubSeq(log, 1, 2))
  BY <1>1, <1>2, PartInOrder
<1>7. InOrder(Newest(log, n))
  <2>1. Newest(log, n) = SubSeq(log, L - n + 1, L)
    <3>1. Len(log) > n
      BY <1>1
    <3> QED
      BY <1>1, <3>1, Zenon DEF Newest
  <2>2. L - n + 1 \in Nat \ {0}
    BY <1>1
  <2> QED
    BY <1>1, <1>2, <2>1, <2>2, PartInOrder
<1> QED
  BY <1>1, <1>3, <1>5, <1>6, <1>7

LEMMA PrunedLog ==
  ASSUME NEW log, IsLog(log), NEW most
  PROVE  IsLog(PruneChatLog(log, most))
<1>1. PICK L \in Nat : L = Len(log)
  BY LenProperties DEF IsLog
<1>2. CASE L > 12
  <2>1. PICK a, b : a = SubSeq(log, 1, 2) /\ b = Newest(log, 10)
    OBVIOUS
  <2>2. /\ a \in Seq(Messages) /\ Len(a) = 2 /\ a[1] = log[1] /\ a[2] = log[2]
        /\ b \in Seq(Messages) /\ Len(b) = 10 /\ InOrder(a) /\ InOrder(b)
        /\ \A i \in 1..10 : b[i] = log[L - 10 + i]
    <3>1. 10 + 2 < Len(log) /\ 10 \in Nat \ {0}
      BY <1>1, <1>2
    <3> QED
      BY <1>1, <2>1, <3>1, BothEnds, Zenon
  <2>3. ASSUME NEW i \in 1..2, NEW j \in 1..10 PROVE a[i].place < b[j].place
    <3>1. L - 10 + j \in 1..L /\ i \in 1..L /\ i < L - 10 + j
      BY <1>2
    <3>2. log[i].place < log[L - 10 + j].place
      BY <1>1, <3>1, PlacesRise DEF IsLog
    <3>3. a[i] = log[i]
      <4>1. i = 1 \/ i = 2
        OBVIOUS
      <4> QED
        BY <2>2, <4>1, Zenon
    <3> QED
      BY <2>2, <3>1, <3>2, <3>3, Zenon
  <2>4. ComeOneByOne(a, 2, b, 10)
    BY <2>2, <2>3, Zenon DEF ComeOneByOne
  <2>5. AreBoth(a \o b, a, 2, b, 10)
    BY <2>4, JoinedInOrder
  <2>6. IsLog(a \o b)
    <3>1. a[1] = log[1] /\ log[1].role = "system"
      BY <2>2, Zenon DEF IsLog
    <3>2. (a \o b)[1] = a[1]
      BY <2>5 DEF AreBoth
    <3> QED
      BY <2>5, <3>1, <3>2 DEF IsLog, AreBoth
  <2> QED
    BY <2>1, <2>6 DEF PruneChatLog
<1>3. CASE ~(L > 12)
  <2>1. PruneChatLog(log, most) = log
    BY <1>1, <1>3 DEF PruneChatLog
  <2> QED
    BY <2>1
<1> QED
  BY <1>2, <1>3

LEMMA CompactedLog ==
  ASSUME NEW log, IsLog(log), NEW summary \in Nat
  PROVE  IsLog(Compact(log, summary))
<1>1. PICK L \in Nat : L = Len(log)
  BY LenProperties DEF IsLog
<1>2. CASE L > 7
  <2>1. PICK a, b, m : a = SubSeq(log, 1, 2) /\ b = Newest(log, 5) /\ m = Message("system", summary, log[3].place)
    OBVIOUS
  <2>2. /\ a \in Seq(Messages) /\ Len(a) = 2 /\ a[1] = log[1] /\ a[2] = log[2]
        /\ b \in Seq(Messages) /\ Len(b) = 5 /\ InOrder(a) /\ InOrder(b)
        /\ \A i \in 1..5 : b[i] = log[L - 5 + i]
    <3>1. 5 + 2 < Len(log) /\ 5 \in Nat \ {0}
      BY <1>1, <1>2
    <3> QED
      BY <1>1, <2>1, <3>1, BothEnds, Zenon
  <2>3. log[3] \in Messages
    BY <1>1, <1>2, ElementOfSeq DEF IsLog
  <2>4. m \in Messages /\ m.place = log[3].place
    <3>1. log[3].place \in Nat
      BY <2>3 DEF Messages
    <3> QED
      BY <2>1, <3>1, MessageType DEF Roles
  <2>5. \A i, j \in 1..L : i < j => log[i].place < log[j].place
    BY <1>1, PlacesRise DEF IsLog
  <2>6. <<m>> \in Seq(Messages) /\ Len(<<m>>) = 1 /\ <<m>>[1] = m /\ InOrder(<<m>>)
    BY <2>4, OneMessage DEF IsPrompt
  <2>7. PICK c : c = a \o <<m>>
    OBVIOUS
  <2>8. AreBoth(c, a, 2, <<m>>, 1) /\ c[3] = m
    <3>1. ASSUME NEW i \in 1..2, NEW j \in 1..1 PROVE a[i].place < <<m>>[j].place
      <4>1. (i = 1 \/ i = 2) /\ j = 1
        OBVIOUS
      <4>2. log[1].place < log[3].place /\ log[2].place < log[3].place
        BY <1>2, <2>5
      <4> QED
        BY <2>2, <2>4, <2>6, <4>1, <4>2
    <3>2. ComeOneByOne(a, 2, <<m>>, 1)
      BY <2>2, <2>6, <3>1, Zenon DEF ComeOneByOne
    <3>3. AreBoth(c, a, 2, <<m>>, 1)
      BY <2>7, <3>2, JoinedInOrder
    <3>4. c[2 + 1] = <<m>>[1]
      BY <3>3 DEF AreBoth
    <3> QED
      BY <2>6, <3>3, <3>4
  <2>9. c \in Seq(Messages) /\ Len(c) = 3 /\ InOrder(c) /\ c[1] = log[1] /\ c[2] = log[2] /\ c[3] = m
    BY <2>2, <2>8 DEF AreBoth
  <2>10. ASSUME NEW i \in 1..3, NEW j \in 1..5 PROVE c[i].place < b[j].place
    <3>1. L - 5 + j \in 1..L /\ i \in 1..L /\ i < L - 5 + j
      BY <1>2
    <3>2. log[i].place < log[L - 5 + j].place
      BY <2>5, <3>1
    <3>3. c[i].place = log[i].place
      <4>1. i = 1 \/ i = 2 \/ i = 3
        OBVIOUS
      <4> QED
        BY <2>4, <2>9, <4>1
    <3>4. b[j] = log[L - 5 + j]
      BY <2>2
    <3> QED
      BY <3>2, <3>3, <3>4
  <2>11. ComeOneByOne(c, 3, b, 5)
    BY <2>2, <2>9, <2>10, Zenon DEF ComeOneByOne
  <2>12. AreBoth(c \o b, c, 3, b, 5)
    BY <2>11, JoinedInOrder
  <2>13. IsLog(c \o b)
    <3>1. log[1].role = "system"
      BY DEF IsLog
    <3> QED
      BY <2>9, <2>12, <3>1 DEF IsLog, AreBoth
  <2>14. Compact(log, summary) = c \o b
    <3>1. ~(L <= 7)
      BY <1>2
    <3>2. Compact(log, summary) = SubSeq(log, 1, 2) \o <<Message("system", summary, log[3].place)>> \o Newest(log, 5)
      BY <1>1, <3>1, Zenon DEF Compact
    <3> QED
      BY <2>1, <2>7, <3>2, Zenon
  <2> QED
    BY <2>13, <2>14
<1>3. CASE ~(L > 7)
  <2>1. Compact(log, summary) = log
    BY <1>1, <1>3 DEF Compact
  <2> QED
    BY <2>1
<1> QED
  BY <1>2, <1>3

\* What is kept of an agent's log is one: its instructions and the question, and
\* nothing of it twice or in another order.
THEOREM CompactionKeepsLog ==
  ASSUME NEW log, IsLog(log), NEW window, NEW summary \in Nat
  PROVE  IsLog(MaybeCompact(log, window, summary))
  BY CompactedLog, PrunedLog DEF MaybeCompact

-----------------------------------------------------------------------------
(* The prompts that are put together.                                      *)

LEMMA UnitsType ==
  ASSUME NEW n \in Nat
  PROVE  Units(n) \in Nat
  BY DEF Units, Unit

LEMMA AtMostType ==
  ASSUME NEW a \in Nat, NEW b \in Nat
  PROVE  AtMost(a, b) \in Nat /\ AtMost(a, b) <= a /\ AtMost(a, b) <= b
  BY DEF AtMost

LEMMA NewestTokens ==
  ASSUME NEW ms \in Seq(Messages), NEW n \in Nat \ {0}
  PROVE  Newest(ms, n) \in Seq(Messages) /\ Tokens(Newest(ms, n)) \in Nat
  BY NewestOf, TokensType

LEMMA CutChunksType ==
  ASSUME NEW chunks \in Seq(Nat)
  PROVE  CutChunks(chunks) \in Seq(Nat)
<1>1. PICK L \in Nat : L = Len(chunks)
  BY LenProperties
<1>2. PICK half : half = SubSeq(chunks, 1, L \div 2)
  OBVIOUS
<1>3. L \div 2 \in Nat /\ L \div 2 <= L
  OBVIOUS
<1>4. half \in Seq(Nat)
  BY <1>1, <1>2, <1>3, PartOf
<1>5. PICK m \in Nat : m = Len(half) /\ DOMAIN half = 1..m /\ \A i \in 1..m : half[i] \in Nat
  BY <1>4, LenProperties, ElementOfSeq
<1>6. PICK short : short = [i \in 1..m |-> AtMost(half[i], 1)]
  OBVIOUS
<1>7. \A i \in 1..m : AtMost(half[i], 1) \in Nat
  BY <1>5, AtMostType
<1>8. short \in [1..m -> Nat]
  BY <1>6, <1>7
<1>9. short \in Seq(Nat)
  BY <1>8
<1>10. CutChunks(chunks) = short
  BY <1>1, <1>2, <1>5, <1>6 DEF CutChunks
<1> QED
  BY <1>9, <1>10

LEMMA RagPromptIsLog ==
  ASSUME NEW chunks \in Seq(Nat), NEW question \in Nat
  PROVE  IsLog(RagPrompt(chunks, question))
<1>2. PICK sizes : sizes = IF InstructionsWith(chunks) + question <= Units(16000) THEN chunks ELSE CutChunks(chunks)
  OBVIOUS
<1>3. sizes \in Seq(Nat)
  BY <1>2, CutChunksType
<1>4. InstructionsWith(sizes) \in Nat
  <2>1. Units(125) \in Nat /\ Total(sizes) \in Nat
    BY <1>3, UnitsType, TotalType
  <2> QED
    BY <2>1 DEF InstructionsWith
<1>5. RagPrompt(chunks, question) = <<Message("system", InstructionsWith(sizes), 0), Message("user", question, 1)>>
  BY <1>2 DEF RagPrompt
<1> QED
  BY <1>4, <1>5, TwoMessages

LEMMA SummaryPromptIsLog ==
  ASSUME NEW left \in Seq(Messages)
  PROVE  IsLog(SummaryPrompt(left))
<1>1. 0 \in Nat /\ Tokens(left) + 1 \in Nat
  BY TokensType
<1> QED
  BY <1>1, TwoMessages DEF SummaryPrompt

LEMMA ReportPromptIsLog ==
  ASSUME NEW facts \in Nat, NEW request \in Nat
  PROVE  IsLog(ReportPrompt(facts, request))
<1>1. AtMost(facts, 6) \in Nat /\ Units(250) \in Nat
  BY AtMostType, UnitsType
<1>2. 0 \in Nat /\ Units(250) + AtMost(facts, 6) + request \in Nat
  BY <1>1
<1> QED
  BY <1>2, TwoMessages DEF ReportPrompt

LEMMA TimelinePromptIsLog ==
  ASSUME NEW question \in Nat
  PROVE  IsLog(TimelinePrompt(question))
<1>1. Units(125) \in Nat /\ Units(2000) \in Nat
  BY UnitsType
<1>2. Units(2000) \div 2 \in Nat
  BY <1>1
<1>3. AtMost(question, Units(2000) \div 2) \in Nat
  <2>1. PICK n \in Nat : n = Units(2000) \div 2
    BY <1>2
  <2>2. AtMost(question, n) \in Nat
    BY AtMostType
  <2> QED
    BY <2>1, <2>2
<1>4. PICK size : size = IF Units(125) + question <= Units(2000) THEN question ELSE AtMost(question, Units(2000) \div 2)
  OBVIOUS
<1>5. size \in Nat
  BY <1>3, <1>4
<1>6. TimelinePrompt(question) = <<Message("system", Units(125), 0), Message("user", size, 1)>>
  BY <1>4 DEF TimelinePrompt
<1> QED
  BY <1>1, <1>5, <1>6, TwoMessages

LEMMA ClassificationPromptIsLog ==
  ASSUME NEW history \in Seq(Messages), NEW question \in Nat
  PROVE  IsLog(ClassificationPrompt(history, question))
<1>1. PICK ms : ms = Newest(Newest(history, 10), 5)
  OBVIOUS
<1>2. 10 \in Nat \ {0} /\ 5 \in Nat \ {0} /\ 1000 \in Nat
  OBVIOUS
<1>3. Newest(history, 10) \in Seq(Messages)
  BY <1>2, NewestTokens, Zenon
<1>4. Tokens(ms) \in Nat
  BY <1>1, <1>2, <1>3, NewestTokens, Zenon
<1>5. Units(1000) \in Nat
  BY <1>2, UnitsType, Zenon
<1>6. Tokens(ms) + question \in Nat
  BY <1>4
<1>7. PICK a, b : a = Units(1000) /\ b = Tokens(ms) + question
  OBVIOUS
<1>8. IsLog(<<Message("system", a, 0), Message("user", b, 1)>>)
  BY <1>5, <1>6, <1>7, TwoMessages
<1> QED
  BY <1>1, <1>7, <1>8, Zenon DEF ClassificationPrompt

LEMMA UserPrompt ==
  ASSUME NEW size \in Nat
  PROVE  <<Message("user", size, 0)>> \in Seq(Messages) /\ IsPrompt(<<Message("user", size, 0)>>)
  BY MessageType, OneMessage DEF Roles

LEMMA SmallPrompts ==
  ASSUME NEW history \in Seq(Messages), NEW question \in Nat, NEW readable \in BOOLEAN
  PROVE  /\ ExpansionPrompt(history, question, readable) \in Seq(Messages)
         /\ SearchPrompt(question) \in Seq(Messages)
         /\ ExtractPrompt(question) \in Seq(Messages)
<1>1. Tokens(Newest(history, 20)) \in Nat
  BY NewestTokens
<1>2. (20 * 300) \div 500 \in Nat
  OBVIOUS
<1>3. ChatContext(history) \in Nat
  BY <1>1, <1>2, AtMostType DEF ChatContext
<1>4. PICK contexts : contexts = IF readable THEN ChatContext(history) + GraphContext + InvestigationMetadata ELSE 0
  OBVIOUS
<1>5. contexts \in Nat
  BY <1>3, <1>4 DEF GraphContext, InvestigationMetadata
<1>6. Units(500) + question + contexts \in Nat /\ Units(500) + question \in Nat /\ Units(250) + question \in Nat
  <2>1. Units(500) \in Nat /\ Units(250) \in Nat
    BY UnitsType
  <2> QED
    BY <1>5, <2>1
<1>7. ExpansionPrompt(history, question, readable) = <<Message("user", Units(500) + question + contexts, 0)>>
  BY <1>4 DEF ExpansionPrompt
<1>8. PICK a, b, e \in Nat : a = Units(500) + question + contexts /\ b = Units(500) + question /\ e = Units(250) + question
  BY <1>6
<1>9. \A n \in Nat : <<Message("user", n, 0)>> \in Seq(Messages)
  BY UserPrompt
<1> QED
  BY <1>7, <1>8, <1>9 DEF SearchPrompt, ExtractPrompt

LEMMA InvestigationContextType ==
  ASSUME NEW parts \in Seq(Nat), NEW failing \in Nat \ {0}
  PROVE  InvestigationContext(parts, failing) \in Nat
<1>1. PICK L \in Nat : L = Len(parts)
  BY LenProperties
<1>2. failing - 1 \in Nat
  OBVIOUS
<1>3. AtMost(failing - 1, L) \in Nat /\ AtMost(failing - 1, L) <= L
  BY <1>2, AtMostType
<1>4. SubSeq(parts, 1, AtMost(failing - 1, L)) \in Seq(Nat)
  BY <1>1, <1>3, PartOf
<1> QED
  BY <1>1, <1>4, TotalType DEF InvestigationContext
===============================================================================
