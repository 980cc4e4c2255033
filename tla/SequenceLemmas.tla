--------------------------- MODULE SequenceLemmas ---------------------------
(***************************************************************************)
(* What the proofs about texts need to know of sequences: induction over   *)
(* the natural numbers, from the well-foundedness of the order on them,    *)
(* and with it what FlattenSeq makes of a sequence that is extended or     *)
(* taken apart, what an increasing sequence is made of, and what is left   *)
(* of one when some of its elements are taken out.                         *)
(***************************************************************************)
EXTENDS Integers, Sequences, SequencesExt, SequenceTheorems, WellFoundedInduction, TLAPS

-----------------------------------------------------------------------------
\* Induction.  The induction theorems of the library speak of a predicate; here
\* the predicate is the set of the numbers that have it.

LEMMA Smallest ==
    ASSUME NEW T \in SUBSET Nat, T # {}
    PROVE  \E m \in T : \A k \in T : m <= k
<1> DEFINE Less == {pair \in Nat \X Nat : pair[1] < pair[2]}
<1>1. IsWellFoundedOn(Less, Nat)
  BY NatLessThanWellFounded DEF OpToRel
<1> HIDE DEF Less
<1>2. PICK m \in T : \A k \in T : <<k, m>> \notin Less
  BY <1>1, WFMin
<1>3. ASSUME NEW k \in T PROVE m <= k
  <2>1. k \in Nat /\ m \in Nat
    OBVIOUS
  <2>2. ~(k < m)
    BY <1>2, <2>1 DEF Less
  <2> QED BY <2>1, <2>2
<1> QED BY <1>3

LEMMA SetInduction ==
    ASSUME NEW S, 0 \in S, \A n \in Nat : n \in S => n + 1 \in S
    PROVE  Nat \subseteq S
<1> SUFFICES ASSUME Nat \ S # {} PROVE FALSE
  OBVIOUS
<1>1. PICK m \in Nat \ S : \A k \in Nat \ S : m <= k
  BY Smallest
<1>2. m # 0 /\ m - 1 \in Nat /\ m - 1 \in S
  BY <1>1
<1> QED BY <1>1, <1>2

-----------------------------------------------------------------------------
\* FlattenSeq.

\* The function that FlattenSeq goes through, up to the n-th sequence.
Flattens(f, seqs, n) ==
    f = [i \in 1 .. n |-> IF i = 1 THEN seqs[i] ELSE f[i - 1] \o seqs[i]]

LEMMA FlattensAt ==
    ASSUME NEW f, NEW seqs, NEW n \in Nat, Flattens(f, seqs, n), NEW i \in 1 .. n
    PROVE  f[i] = IF i = 1 THEN seqs[i] ELSE f[i - 1] \o seqs[i]
<1> DEFINE Value(j) == IF j = 1 THEN seqs[j] ELSE f[j - 1] \o seqs[j]
<1>1. f = [j \in 1 .. n |-> Value(j)]
  BY DEF Flattens
<1> HIDE DEF Value
<1>2. f[i] = Value(i)
  BY <1>1
<1> QED BY <1>2 DEF Value

LEMMA FlattensExists ==
    ASSUME NEW seqs, NEW n \in Nat
    PROVE  \E f : Flattens(f, seqs, n)
<1> DEFINE S == {k \in Nat : \E f : Flattens(f, seqs, k)}
<1>1. 0 \in S
  <2> DEFINE none == [i \in 1 .. 0 |-> <<>>]
  <2>1. Flattens(none, seqs, 0)
    BY DEF Flattens
  <2> QED BY <2>1
<1>2. ASSUME NEW k \in Nat, k \in S PROVE k + 1 \in S
  <2>1. PICK f : Flattens(f, seqs, k)
    BY <1>2
  <2> DEFINE next == IF k = 0 THEN seqs[1] ELSE f[k] \o seqs[k + 1]
             g == [i \in 1 .. k + 1 |-> IF i = k + 1 THEN next ELSE f[i]]
  <2>2. \A i \in 1 .. k + 1 : g[i] = IF i = 1 THEN seqs[i] ELSE g[i - 1] \o seqs[i]
    <3> SUFFICES ASSUME NEW i \in 1 .. k + 1
                 PROVE  g[i] = IF i = 1 THEN seqs[i] ELSE g[i - 1] \o seqs[i]
      OBVIOUS
    <3>1. CASE i = k + 1
      <4>1. g[i] = next
        BY <3>1
      <4>2. i # 1 => g[i - 1] = f[k] /\ k # 0
        BY <3>1
      <4> HIDE DEF g
      <4> QED BY <3>1, <4>1, <4>2
    <3>2. CASE i # k + 1
      <4>1. i \in 1 .. k /\ g[i] = f[i] /\ (i # 1 => i - 1 \in 1 .. k /\ g[i - 1] = f[i - 1])
        BY <3>2
      <4>2. f[i] = IF i = 1 THEN seqs[i] ELSE f[i - 1] \o seqs[i]
        BY <2>1, <4>1 DEF Flattens
      <4> QED BY <4>1, <4>2
    <3> QED BY <3>1, <3>2
  <2>3. g = [i \in 1 .. k + 1 |-> g[i]]
    OBVIOUS
  <2> HIDE DEF g
  <2>4. Flattens(g, seqs, k + 1)
    BY <2>2, <2>3 DEF Flattens
  <2> QED BY <2>4
<1> HIDE DEF S
<1>3. Nat \subseteq S
  BY <1>1, <1>2, SetInduction
<1> QED BY <1>3 DEF S

LEMMA FlattenIsLast ==
    ASSUME NEW seqs, Len(seqs) \in Nat \ {0}
    PROVE  \E f : Flattens(f, seqs, Len(seqs)) /\ FlattenSeq(seqs) = f[Len(seqs)]
<1> DEFINE f == CHOOSE g : g = [i \in 1 .. Len(seqs) |-> IF i = 1 THEN seqs[i] ELSE g[i - 1] \o seqs[i]]
<1>1. FlattenSeq(seqs) = f[Len(seqs)]
  BY DEF FlattenSeq
<1>2. \E g : Flattens(g, seqs, Len(seqs))
  BY FlattensExists
<1>3. Flattens(f, seqs, Len(seqs))
  BY <1>2, Zenon DEF Flattens
<1> QED BY <1>1, <1>3

LEMMA FlattenEmpty == FlattenSeq(<<>>) = <<>>
BY DEF FlattenSeq

Agree(s, t, k) == \A i \in 1 .. k : s[i] = t[i]

\* As far as two sequences agree, so do the functions.
LEMMA FlattensUnique ==
    ASSUME NEW s, NEW t, NEW m \in Nat, NEW n \in Nat, NEW f, NEW g,
           Flattens(f, s, m), Flattens(g, t, n),
           NEW k \in Nat, k <= m, k <= n, Agree(s, t, k)
    PROVE  Agree(f, g, k)
<1> DEFINE S == {i \in Nat : i \in 1 .. k => f[i] = g[i]}
<1>1. 0 \in S
  OBVIOUS
<1>2. ASSUME NEW i \in Nat, i \in S PROVE i + 1 \in S
  <2> SUFFICES ASSUME i + 1 \in 1 .. k PROVE f[i + 1] = g[i + 1]
    OBVIOUS
  <2>1. i + 1 \in 1 .. m /\ i + 1 \in 1 .. n /\ s[i + 1] = t[i + 1]
    BY DEF Agree
  <2>2. f[i + 1] = IF i + 1 = 1 THEN s[i + 1] ELSE f[i + 1 - 1] \o s[i + 1]
    BY <2>1, FlattensAt
  <2>3. g[i + 1] = IF i + 1 = 1 THEN t[i + 1] ELSE g[i + 1 - 1] \o t[i + 1]
    BY <2>1, FlattensAt
  <2>4. i + 1 # 1 => f[i] = g[i]
    BY <1>2
  <2>5. i + 1 - 1 = i
    OBVIOUS
  <2> QED BY <2>1, <2>2, <2>3, <2>4, <2>5
<1> HIDE DEF S
<1>3. Nat \subseteq S
  BY <1>1, <1>2, SetInduction
<1> QED BY <1>3 DEF S, Agree

\* One more sequence is added at the end.
LEMMA FlattenAppend ==
    ASSUME NEW S, NEW seqs \in Seq(Seq(S)), NEW s \in Seq(S)
    PROVE  FlattenSeq(Append(seqs, s)) = FlattenSeq(seqs) \o s
<1> DEFINE more == Append(seqs, s)
           n == Len(seqs)
<1>1. /\ n \in Nat /\ Len(more) = n + 1 /\ more[n + 1] = s
      /\ \A i \in 1 .. n : more[i] = seqs[i]
  OBVIOUS
<1> HIDE DEF more
<1>2. PICK f : Flattens(f, more, n + 1) /\ FlattenSeq(more) = f[n + 1]
  BY <1>1, FlattenIsLast
<1>3. f[n + 1] = IF n + 1 = 1 THEN s ELSE f[n + 1 - 1] \o s
  <2>1. n + 1 \in Nat /\ n + 1 \in 1 .. n + 1
    BY <1>1
  <2>2. f[n + 1] = IF n + 1 = 1 THEN more[n + 1] ELSE f[n + 1 - 1] \o more[n + 1]
    BY <1>2, <2>1, FlattensAt
  <2> QED BY <1>1, <2>2
<1>4. CASE n = 0
  <2>1. seqs = <<>>
    BY <1>4
  <2> QED BY <1>2, <1>3, <1>4, <2>1, FlattenEmpty DEF more
<1>5. CASE n # 0
  <2>1. PICK g : Flattens(g, seqs, n) /\ FlattenSeq(seqs) = g[n]
    BY <1>1, <1>5, FlattenIsLast
  <2>2. n <= n /\ n <= n + 1 /\ n + 1 \in Nat
    BY <1>1
  <2>3. f[n] = g[n]
    <3> HIDE DEF n
    <3>1. Agree(more, seqs, n)
      BY <1>1 DEF Agree
    <3>2. Agree(f, g, n)
      BY <1>1, <1>2, <2>1, <2>2, <3>1, FlattensUnique
    <3> QED BY <1>1, <1>5, <3>2 DEF Agree
  <2>4. n + 1 - 1 = n /\ n + 1 # 1
    BY <1>1, <1>5
  <2> QED BY <1>2, <1>3, <2>1, <2>3, <2>4 DEF more
<1> QED BY <1>4, <1>5

LEMMA FlattenType ==
    ASSUME NEW S, NEW seqs \in Seq(Seq(S))
    PROVE  FlattenSeq(seqs) \in Seq(S)
<1> DEFINE N == {n \in Nat : \A s \in Seq(Seq(S)) : Len(s) = n => FlattenSeq(s) \in Seq(S)}
<1>1. 0 \in N
  <2> SUFFICES ASSUME NEW s \in Seq(Seq(S)), Len(s) = 0 PROVE FlattenSeq(s) \in Seq(S)
    OBVIOUS
  <2>1. s = <<>>
    OBVIOUS
  <2>2. FlattenSeq(s) = <<>>
    BY <2>1, FlattenEmpty
  <2> QED BY <2>2
<1>2. ASSUME NEW n \in Nat, n \in N PROVE n + 1 \in N
  <2> SUFFICES ASSUME NEW s \in Seq(Seq(S)), Len(s) = n + 1 PROVE FlattenSeq(s) \in Seq(S)
    OBVIOUS
  <2>1. PICK r \in Seq(Seq(S)), t \in Seq(S) : s = Append(r, t)
    <3>1. s # <<>>
      OBVIOUS
    <3> QED BY <3>1, SequenceEmptyOrAppend
  <2>2. Len(r) = n
    BY <2>1
  <2>3. FlattenSeq(r) \in Seq(S)
    BY <1>2, <2>2
  <2>4. FlattenSeq(s) = FlattenSeq(r) \o t
    BY <2>1, FlattenAppend
  <2> QED BY <2>3, <2>4
<1> HIDE DEF N
<1>3. Nat \subseteq N
  BY <1>1, <1>2, SetInduction
<1>4. Len(seqs) \in N
  BY <1>3
<1> QED BY <1>4 DEF N

LEMMA Associative ==
    ASSUME NEW S
    PROVE  \A r, s, t \in Seq(S) : (r \o s) \o t = r \o (s \o t)
BY ConcatAssociative

LEMMA FlattenConcat ==
    ASSUME NEW S, NEW first \in Seq(Seq(S)), NEW second \in Seq(Seq(S))
    PROVE  FlattenSeq(first \o second) = FlattenSeq(first) \o FlattenSeq(second)
<1> DEFINE Splits(s) == FlattenSeq(first \o s) = FlattenSeq(first) \o FlattenSeq(s)
           N == {n \in Nat : \A s \in Seq(Seq(S)) : Len(s) = n => Splits(s)}
<1>1. 0 \in N
  <2> SUFFICES ASSUME NEW s \in Seq(Seq(S)), Len(s) = 0 PROVE Splits(s)
    OBVIOUS
  <2>1. s = <<>> /\ first \o <<>> = first
    OBVIOUS
  <2>2. FlattenSeq(first) \o <<>> = FlattenSeq(first)
    BY FlattenType, ConcatEmptySeq
  <2> QED BY <2>1, <2>2, FlattenEmpty
<1>2. ASSUME NEW n \in Nat, n \in N PROVE n + 1 \in N
  <2> SUFFICES ASSUME NEW s \in Seq(Seq(S)), Len(s) = n + 1 PROVE Splits(s)
    OBVIOUS
  <2>1. PICK r \in Seq(Seq(S)), t \in Seq(S) : s = Append(r, t)
    <3>1. s # <<>>
      OBVIOUS
    <3> QED BY <3>1, SequenceEmptyOrAppend
  <2>2. Splits(r)
    <3>1. Len(r) = n
      BY <2>1
    <3> QED BY <1>2, <3>1
  <2>3. first \o s = Append(first \o r, t) /\ first \o r \in Seq(Seq(S))
    BY <2>1
  <2>4. FlattenSeq(first \o s) = FlattenSeq(first \o r) \o t
    BY <2>3, FlattenAppend
  <2>5. FlattenSeq(s) = FlattenSeq(r) \o t
    BY <2>1, FlattenAppend
  <2>6. FlattenSeq(first) \in Seq(S) /\ FlattenSeq(r) \in Seq(S)
    BY FlattenType
  <2>7. (FlattenSeq(first) \o FlattenSeq(r)) \o t = FlattenSeq(first) \o (FlattenSeq(r) \o t)
    <3> DEFINE x == FlattenSeq(first)
               y == FlattenSeq(r)
    <3>1. x \in Seq(S) /\ y \in Seq(S) /\ t \in Seq(S)
      BY <2>6
    <3> HIDE DEF x, y, Splits, N
    <3>2. (x \o y) \o t = x \o (y \o t)
      BY <3>1, ConcatAssociative, SMTT(60)
    <3> QED BY <3>2 DEF x, y
  <2> QED BY <2>2, <2>4, <2>5, <2>7
<1> HIDE DEF N
<1>3. Nat \subseteq N
  BY <1>1, <1>2, SetInduction
<1>4. Len(second) \in N
  BY <1>3
<1> QED BY <1>4 DEF N

LEMMA FlattenOne ==
    ASSUME NEW S, NEW s \in Seq(S)
    PROVE  FlattenSeq(<<s>>) = s
<1>1. <<s>> = Append(<<>>, s) /\ <<>> \in Seq(Seq(S)) /\ <<>> \o s = s
  OBVIOUS
<1> QED BY <1>1, FlattenAppend, FlattenEmpty

\* One sequence is taken off the front.
LEMMA FlattenHead ==
    ASSUME NEW S, NEW seqs \in Seq(Seq(S)), seqs # <<>>
    PROVE  FlattenSeq(seqs) = Head(seqs) \o FlattenSeq(Tail(seqs))
<1>1. /\ <<Head(seqs)>> \in Seq(Seq(S)) /\ Tail(seqs) \in Seq(Seq(S))
      /\ seqs = <<Head(seqs)>> \o Tail(seqs) /\ Head(seqs) \in Seq(S)
  OBVIOUS
<1>2. FlattenSeq(<<Head(seqs)>> \o Tail(seqs)) = FlattenSeq(<<Head(seqs)>>) \o FlattenSeq(Tail(seqs))
  BY <1>1, FlattenConcat
<1>3. FlattenSeq(<<Head(seqs)>>) = Head(seqs)
  BY <1>1, FlattenOne
<1> QED BY <1>1, <1>2, <1>3

\* Where nothing comes out there was nothing to put together.
LEMMA FlattenNone ==
    ASSUME NEW S, NEW seqs \in Seq(Seq(S)), FlattenSeq(seqs) = <<>>
    PROVE  \A i \in DOMAIN seqs : seqs[i] = <<>>
<1> DEFINE AllEmpty(s) == \A i \in 1 .. Len(s) : s[i] = <<>>
           N == {n \in Nat : \A s \in Seq(Seq(S)) : Len(s) = n /\ FlattenSeq(s) = <<>> => AllEmpty(s)}
<1>1. 0 \in N
  OBVIOUS
<1>2. ASSUME NEW n \in Nat, n \in N PROVE n + 1 \in N
  <2> SUFFICES ASSUME NEW s \in Seq(Seq(S)), Len(s) = n + 1, FlattenSeq(s) = <<>> PROVE AllEmpty(s)
    OBVIOUS
  <2>1. PICK r \in Seq(Seq(S)), t \in Seq(S) : s = Append(r, t)
    <3>1. s # <<>>
      OBVIOUS
    <3> QED BY <3>1, SequenceEmptyOrAppend
  <2>2. Len(r) = n
    BY <2>1
  <2>3. FlattenSeq(r) \in Seq(S) /\ FlattenSeq(r) \o t = <<>>
    BY <2>1, FlattenAppend, FlattenType
  <2>4. FlattenSeq(r) = <<>> /\ t = <<>>
    BY <2>3, ConcatSimplifications!concIsEmpty
  <2>5. AllEmpty(r)
    BY <1>2, <2>2, <2>4
  <2> QED BY <2>1, <2>2, <2>4, <2>5
<1> HIDE DEF N
<1>3. Nat \subseteq N
  BY <1>1, <1>2, SetInduction
<1>4. Len(seqs) \in N
  BY <1>3
<1> QED BY <1>4 DEF N

-----------------------------------------------------------------------------
\* Sequences that are put together.
LEMMA ConcatAppend ==
    ASSUME NEW S, NEW s \in Seq(S), NEW t \in Seq(S), NEW x \in S
    PROVE  s \o Append(t, x) = Append(s \o t, x)
OBVIOUS

LEMMA ConcatFront ==
    ASSUME NEW S, NEW s \in Seq(S), NEW t \in Seq(S), t # <<>>
    PROVE  /\ Front(t) \in Seq(S) /\ Front(s \o t) = s \o Front(t)
           /\ \E x \in S : t = Append(Front(t), x)
<1>1. PICK r \in Seq(S), x \in S : t = Append(r, x)
  BY SequenceEmptyOrAppend
<1>2. Front(Append(r, x)) = r
  BY DEF Front
<1>3. s \o t = Append(s \o r, x) /\ s \o r \in Seq(S)
  BY <1>1
<1>4. Front(Append(s \o r, x)) = s \o r
  BY <1>3 DEF Front
<1> QED BY <1>1, <1>2, <1>3, <1>4

LEMMA ConcatCut ==
    ASSUME NEW S, NEW s \in Seq(S), NEW t \in Seq(S)
    PROVE  SubSeq(s \o t, 1, Len(s \o t) - Len(t)) = s
<1>1. Len(s \o t) - Len(t) = Len(s) /\ Len(s) \in Nat
  OBVIOUS
<1>2. SubSeq(s \o t, 1, Len(s)) = s
  OBVIOUS
<1> QED BY <1>1, <1>2

-----------------------------------------------------------------------------
\* Sequences of numbers that go up.

Rises(s) == \A a, b \in DOMAIN s : a < b => s[a] < s[b]
Under(s, t) == \A a \in DOMAIN s, b \in DOMAIN t : s[a] < t[b]

LEMMA RisesConcat ==
    ASSUME NEW s \in Seq(Nat), NEW t \in Seq(Nat)
    PROVE  Rises(s \o t) <=> Rises(s) /\ Rises(t) /\ Under(s, t)
<1> DEFINE u == s \o t
           m == Len(s)
           n == Len(t)
<1>1. /\ m \in Nat /\ n \in Nat /\ DOMAIN s = 1 .. m /\ DOMAIN t = 1 .. n /\ DOMAIN u = 1 .. m + n
      /\ \A i \in 1 .. m : u[i] = s[i]
      /\ \A i \in 1 .. n : u[m + i] = t[i]
  OBVIOUS
<1> HIDE DEF u, m, n
<1>2. ASSUME Rises(u) PROVE Rises(s) /\ Rises(t) /\ Under(s, t)
  <2>1. ASSUME NEW a \in 1 .. m, NEW b \in 1 .. m, a < b PROVE s[a] < s[b]
    <3>1. a \in 1 .. m + n /\ b \in 1 .. m + n
      BY <1>1
    <3> QED BY <1>1, <1>2, <2>1, <3>1 DEF Rises
  <2>2. ASSUME NEW a \in 1 .. n, NEW b \in 1 .. n, a < b PROVE t[a] < t[b]
    <3>1. m + a \in 1 .. m + n /\ m + b \in 1 .. m + n /\ m + a < m + b
      BY <1>1, <2>2
    <3> QED BY <1>1, <1>2, <3>1 DEF Rises
  <2>3. ASSUME NEW a \in 1 .. m, NEW b \in 1 .. n PROVE s[a] < t[b]
    <3>1. a \in 1 .. m + n /\ m + b \in 1 .. m + n /\ a < m + b
      BY <1>1
    <3> QED BY <1>1, <1>2, <3>1 DEF Rises
  <2> QED BY <1>1, <2>1, <2>2, <2>3 DEF Rises, Under
<1>3. ASSUME Rises(s), Rises(t), Under(s, t) PROVE Rises(u)
  <2> SUFFICES ASSUME NEW a \in 1 .. m + n, NEW b \in 1 .. m + n, a < b PROVE u[a] < u[b]
    BY <1>1 DEF Rises
  <2>1. CASE b <= m
    <3>1. a \in 1 .. m /\ b \in 1 .. m
      BY <1>1, <2>1
    <3> QED BY <1>1, <1>3, <3>1 DEF Rises
  <2>2. CASE a <= m /\ ~(b <= m)
    <3>1. a \in 1 .. m /\ b - m \in 1 .. n /\ b = m + (b - m)
      BY <1>1, <2>2
    <3> QED BY <1>1, <1>3, <3>1 DEF Under
  <2>3. CASE ~(a <= m)
    <3>1. a - m \in 1 .. n /\ b - m \in 1 .. n /\ a = m + (a - m) /\ b = m + (b - m) /\ a - m < b - m
      BY <1>1, <2>3
    <3> QED BY <1>1, <1>3, <3>1 DEF Rises
  <2> QED BY <1>1, <2>1, <2>2, <2>3
<1> QED BY <1>2, <1>3 DEF u

LEMMA UnderConcat ==
    ASSUME NEW s \in Seq(Nat), NEW t \in Seq(Nat), NEW u \in Seq(Nat)
    PROVE  /\ Under(s \o t, u) <=> Under(s, u) /\ Under(t, u)
           /\ Under(u, s \o t) <=> Under(u, s) /\ Under(u, t)
<1> DEFINE v == s \o t
           m == Len(s)
           n == Len(t)
<1>1. /\ m \in Nat /\ n \in Nat /\ DOMAIN s = 1 .. m /\ DOMAIN t = 1 .. n /\ DOMAIN v = 1 .. m + n
      /\ \A i \in 1 .. m : v[i] = s[i]
      /\ \A i \in 1 .. n : v[m + i] = t[i]
  OBVIOUS
<1> HIDE DEF v, m, n
<1>2. ASSUME NEW i \in DOMAIN v
      PROVE  (\E a \in DOMAIN s : v[i] = s[a]) \/ (\E b \in DOMAIN t : v[i] = t[b])
  <2>1. CASE i <= m
    BY <1>1, <2>1
  <2>2. CASE ~(i <= m)
    <3>1. i - m \in 1 .. n /\ i = m + (i - m)
      BY <1>1, <2>2
    <3> QED BY <1>1, <3>1
  <2> QED BY <2>1, <2>2
<1>3. /\ \A a \in DOMAIN s : a \in DOMAIN v /\ v[a] = s[a]
      /\ \A b \in DOMAIN t : m + b \in DOMAIN v /\ v[m + b] = t[b]
  BY <1>1
<1>4. Under(v, u) <=> Under(s, u) /\ Under(t, u)
  BY <1>2, <1>3 DEF Under
<1>5. Under(u, v) <=> Under(u, s) /\ Under(u, t)
  BY <1>2, <1>3 DEF Under
<1> QED BY <1>4, <1>5 DEF v

LEMMA RisingIsInjective ==
    ASSUME NEW s \in Seq(Nat), Rises(s)
    PROVE  IsInjective(s)
<1> SUFFICES ASSUME NEW a \in DOMAIN s, NEW b \in DOMAIN s, s[a] = s[b] PROVE a = b
  BY DEF IsInjective
<1>1. a \in Nat /\ b \in Nat /\ s[a] \in Nat /\ s[b] \in Nat
  OBVIOUS
<1> QED BY <1>1 DEF Rises

-----------------------------------------------------------------------------
\* The elements outside a set are kept, in their order.

Outside(s, D) ==
    LET Kept(x) == IF x \in D THEN <<>> ELSE <<x>>
    IN  FlattenSeq([i \in DOMAIN s |-> Kept(s[i])])

LEMMA OutsideAppend ==
    ASSUME NEW S, NEW s \in Seq(S), NEW x \in S, NEW D
    PROVE  /\ Outside(s, D) \in Seq(S)
           /\ x \in D => Outside(Append(s, x), D) = Outside(s, D)
           /\ x \notin D => Outside(Append(s, x), D) = Append(Outside(s, D), x)
<1> DEFINE Kept(y) == IF y \in D THEN <<>> ELSE <<y>>
           lists == [i \in DOMAIN s |-> Kept(s[i])]
           more == [i \in DOMAIN Append(s, x) |-> Kept(Append(s, x)[i])]
           last == Kept(x)
<1>1. \A y \in S : Kept(y) \in Seq(S)
  OBVIOUS
<1>2. Outside(s, D) = FlattenSeq(lists) /\ Outside(Append(s, x), D) = FlattenSeq(more)
  BY DEF Outside
<1>3. last = IF x \in D THEN <<>> ELSE <<x>>
  OBVIOUS
<1> HIDE DEF Kept
<1>4. \A i \in 1 .. Len(s) : s[i] \in S /\ Kept(s[i]) \in Seq(S)
  BY <1>1
<1>5. lists = [i \in 1 .. Len(s) |-> Kept(s[i])] /\ Len(s) \in Nat
  OBVIOUS
<1>6. lists \in Seq(Seq(S)) /\ last \in Seq(S)
  BY <1>1, <1>4, <1>5
<1>7. more = Append(lists, last)
  <2>1. more = [i \in 1 .. Len(s) + 1 |-> Kept(Append(s, x)[i])]
    OBVIOUS
  <2>2. \A i \in 1 .. Len(s) : Append(s, x)[i] = s[i]
    OBVIOUS
  <2>3. Append(s, x)[Len(s) + 1] = x
    OBVIOUS
  <2>4. /\ Len(lists) = Len(s) /\ DOMAIN Append(lists, last) = 1 .. Len(s) + 1
        /\ \A i \in 1 .. Len(s) : Append(lists, last)[i] = Kept(s[i])
        /\ Append(lists, last)[Len(s) + 1] = last
    BY <1>5, <1>6
  <2>5. Append(lists, last) = [i \in 1 .. Len(s) + 1 |-> Append(lists, last)[i]]
    BY <1>6, <2>4
  <2>6. ASSUME NEW i \in 1 .. Len(s) + 1 PROVE Append(lists, last)[i] = Kept(Append(s, x)[i])
    <3>1. CASE i \in 1 .. Len(s)
      BY <2>2, <2>4, <3>1
    <3>2. CASE i \notin 1 .. Len(s)
      <4>1. i = Len(s) + 1
        BY <1>5, <3>2
      <4> QED BY <2>3, <2>4, <4>1
    <3> QED BY <3>1, <3>2
  <2> QED BY <2>1, <2>5, <2>6
<1> HIDE DEF lists, more, last
<1>8. FlattenSeq(more) = FlattenSeq(lists) \o last /\ FlattenSeq(lists) \in Seq(S)
  BY <1>6, <1>7, FlattenAppend, FlattenType
<1> DEFINE r == FlattenSeq(lists)
<1>9. r \in Seq(S)
  BY <1>8
<1>10. r \o <<>> = r /\ r \o <<x>> = Append(r, x)
  <2> HIDE DEF r
  <2> QED BY <1>9
<1> HIDE DEF r
<1> QED BY <1>2, <1>3, <1>8, <1>10 DEF r

LEMMA OutsideDrops ==
    ASSUME NEW S, NEW s \in Seq(S), NEW x \in S, NEW D, x \in D
    PROVE  Outside(Append(s, x), D) = Outside(s, D)
<1>1. x \notin D \/ Outside(Append(s, x), D) = Outside(s, D)
  BY OutsideAppend
<1> QED BY <1>1

LEMMA OutsideKeeps ==
    ASSUME NEW S, NEW s \in Seq(S), NEW x \in S, NEW D, x \notin D
    PROVE  Outside(Append(s, x), D) = Append(Outside(s, D), x)
<1>1. x \in D \/ Outside(Append(s, x), D) = Append(Outside(s, D), x)
  BY OutsideAppend
<1> QED BY <1>1

LEMMA OutsideIs ==
    ASSUME NEW S, NEW D, NEW s \in Seq(S), \A i \in DOMAIN s : s[i] \notin D,
           NEW t \in Seq(S), \A i \in DOMAIN t : t[i] \in D
    PROVE  Outside(s \o t, D) = s
<1> DEFINE Out(a) == \A i \in 1 .. Len(a) : a[i] \notin D
           In(a) == \A i \in 1 .. Len(a) : a[i] \in D
           M == {n \in Nat : \A a \in Seq(S) : Len(a) = n /\ Out(a) => Outside(a, D) = a}
           N == {n \in Nat : \A a \in Seq(S) : Len(a) = n /\ In(a) => Outside(s \o a, D) = s}
<1>0. Outside(<<>>, D) = <<>>
  <2>1. Outside(<<>>, D) = FlattenSeq(<<>>)
    BY DEF Outside
  <2> QED BY <2>1, FlattenEmpty
<1>1. 0 \in M
  <2> SUFFICES ASSUME NEW a \in Seq(S), Len(a) = 0 PROVE Outside(a, D) = a
    OBVIOUS
  <2>1. a = <<>>
    OBVIOUS
  <2> QED BY <1>0, <2>1
<1>2. ASSUME NEW n \in Nat, n \in M PROVE n + 1 \in M
  <2> SUFFICES ASSUME NEW a \in Seq(S), Len(a) = n + 1, Out(a) PROVE Outside(a, D) = a
    OBVIOUS
  <2>1. PICK r \in Seq(S), x \in S : a = Append(r, x)
    <3>1. a # <<>>
      OBVIOUS
    <3> QED BY <3>1, SequenceEmptyOrAppend
  <2>2. Len(r) = n /\ Out(r) /\ x \notin D
    <3>1. Len(r) = n /\ a[n + 1] = x /\ \A i \in 1 .. n : a[i] = r[i]
      BY <2>1
    <3> QED BY <3>1
  <2>3. Outside(r, D) = r
    BY <1>2, <2>2
  <2>4. Outside(Append(r, x), D) = Append(Outside(r, D), x)
    BY <2>2, OutsideKeeps, Zenon
  <2> QED BY <2>1, <2>2, <2>3, <2>4
<1> HIDE DEF M
<1>3. Nat \subseteq M
  BY <1>1, <1>2, SetInduction
<1>4. Outside(s, D) = s
  <2>1. Len(s) \in M /\ Out(s)
    BY <1>3
  <2> QED BY <2>1 DEF M
<1>5. 0 \in N
  <2> SUFFICES ASSUME NEW a \in Seq(S), Len(a) = 0 PROVE Outside(s \o a, D) = s
    OBVIOUS
  <2>1. s \o a = s
    OBVIOUS
  <2> QED BY <1>4, <2>1
<1>6. ASSUME NEW n \in Nat, n \in N PROVE n + 1 \in N
  <2> SUFFICES ASSUME NEW a \in Seq(S), Len(a) = n + 1, In(a) PROVE Outside(s \o a, D) = s
    OBVIOUS
  <2>1. PICK r \in Seq(S), x \in S : a = Append(r, x)
    <3>1. a # <<>>
      OBVIOUS
    <3> QED BY <3>1, SequenceEmptyOrAppend
  <2>2. Len(r) = n /\ In(r) /\ x \in D
    <3>1. Len(r) = n /\ a[n + 1] = x /\ \A i \in 1 .. n : a[i] = r[i]
      BY <2>1
    <3> QED BY <3>1
  <2>3. Outside(s \o r, D) = s
    BY <1>6, <2>2
  <2>4. s \o a = Append(s \o r, x) /\ s \o r \in Seq(S)
    BY <2>1
  <2> DEFINE u == s \o r
  <2>5. u \in Seq(S)
    BY <2>4
  <2> HIDE DEF u
  <2>6. Outside(Append(u, x), D) = Outside(u, D)
    BY <2>2, <2>5, OutsideDrops, Zenon
  <2> QED BY <2>2, <2>3, <2>4, <2>6 DEF u
<1> HIDE DEF N
<1>7. Nat \subseteq N
  BY <1>5, <1>6, SetInduction
<1>8. Len(t) \in N /\ In(t)
  BY <1>7
<1> QED BY <1>8 DEF N

-----------------------------------------------------------------------------
\* Sequences of one and of two elements.

LEMMA CutOne ==
    ASSUME NEW S, NEW x \in S
    PROVE  SubSeq(<<x>>, 1, 1) = <<x>> /\ SubSeq(<<x>>, 2, 1) = <<>>
<1> DEFINE one == <<x>>
<1>1. one \in Seq(S) /\ Len(one) = 1 /\ one[1] = x
  OBVIOUS
<1> HIDE DEF one
<1>2. SubSeq(one, 1, 1) = one
  BY <1>1
<1>3. SubSeq(one, 2, 1) = <<>>
  BY <1>1
<1> QED BY <1>2, <1>3 DEF one

LEMMA CutTwo ==
    ASSUME NEW S, NEW x \in S, NEW y \in S
    PROVE  Append(<<x>>, y) = <<x, y>> /\ SubSeq(<<x, y>>, 3, 2) = <<>>
<1> DEFINE two == <<x, y>>
<1>1. two \in Seq(S) /\ Len(two) = 2
  OBVIOUS
<1>2. Append(<<x>>, y) = two
  <2> DEFINE one == <<x>>
             more == Append(one, y)
  <2>1. one \in Seq(S) /\ Len(one) = 1 /\ one[1] = x
    OBVIOUS
  <2>2. two[1] = x /\ two[2] = y
    OBVIOUS
  <2> HIDE DEF one, two
  <2>3. more \in Seq(S) /\ Len(more) = 2 /\ more[1] = x /\ more[2] = y
    <3>1. more \in Seq(S) /\ Len(more) = Len(one) + 1
      BY <2>1, AppendProperties
    <3>2. more[1] = one[1]
      BY <2>1, AppendProperties
    <3>3. more[2] = y
      <4>1. Append(one, y)[Len(one) + 1] = y
        BY ONLY <2>1, AppendProperties
      <4>2. Len(one) + 1 = 2
        BY <2>1
      <4> QED BY <4>1, <4>2
    <3> QED BY <2>1, <3>1, <3>2, <3>3
  <2> HIDE DEF more
  <2>4. \A i \in 1 .. 2 : more[i] = two[i]
    BY <2>2, <2>3
  <2>5. more = two
    BY <1>1, <2>3, <2>4, SeqEqual
  <2> QED BY <2>5 DEF more, one
<1> HIDE DEF two
<1>3. SubSeq(two, 3, 2) = <<>>
  BY <1>1
<1> QED BY <1>2, <1>3 DEF two

-----------------------------------------------------------------------------
\* Folds.

\* The largest of a set of positions.
LEMMA MaxOf ==
    /\ \A k \in Nat \ {0} : Max(1 .. k) = k /\ (1 .. k) \ {k} = 1 .. k - 1 /\ 1 .. k # {}
    /\ \A k \in Nat : \A s \in SUBSET (1 .. k + 1) : k + 1 \in s => Max(s) = k + 1
    /\ \A k \in Nat : \A s \in SUBSET (1 .. k) : s # {} => Max(s) \in s
<1>1. ASSUME NEW k \in Nat, NEW s \in SUBSET (1 .. k), s # {}
      PROVE  \E m \in s : \A x \in s : m >= x
  <2> DEFINE T == {k - x : x \in s}
  <2>1. T \in SUBSET Nat /\ T # {}
    <3>1. ASSUME NEW x \in s PROVE k - x \in Nat
      OBVIOUS
    <3> QED BY <1>1, <3>1
  <2>2. PICK d \in T : \A x \in T : d <= x
    BY <2>1, Smallest
  <2>3. PICK m \in s : d = k - m
    BY <2>2
  <2>4. ASSUME NEW x \in s PROVE m >= x
    <3>1. k - x \in T
      OBVIOUS
    <3>2. d <= k - x
      BY <3>1, <2>2
    <3>3. x \in 1 .. k /\ m \in 1 .. k
      OBVIOUS
    <3> HIDE DEF T
    <3> QED BY <2>3, <3>2, <3>3
  <2> QED BY <2>4
<1>2. ASSUME NEW k \in Nat, NEW s \in SUBSET (1 .. k), s # {}
      PROVE  Max(s) \in s /\ \A x \in s : Max(s) >= x
  BY <1>1, <1>2 DEF Max
<1>3. ASSUME NEW k \in Nat, NEW s \in SUBSET (1 .. k + 1), k + 1 \in s PROVE Max(s) = k + 1
  <2>1. Max(s) \in s /\ \A x \in s : Max(s) >= x
    <3>1. k + 1 \in Nat /\ s # {}
      BY <1>3
    <3> QED BY <1>2, <3>1
  <2>2. Max(s) \in 1 .. k + 1 /\ Max(s) >= k + 1
    BY <1>3, <2>1
  <2> QED BY <2>2
<1>4. ASSUME NEW k \in Nat \ {0} PROVE Max(1 .. k) = k /\ (1 .. k) \ {k} = 1 .. k - 1 /\ 1 .. k # {}
  <2>1. k - 1 \in Nat /\ (k - 1) + 1 = k /\ k \in 1 .. k
    OBVIOUS
  <2>2. Max(1 .. k) = k
    BY <1>3, <2>1
  <2>3. (1 .. k) \ {k} = 1 .. k - 1 /\ 1 .. k # {}
    BY <2>1
  <2> QED BY <2>2, <2>3
<1> QED BY <1>2, <1>3, <1>4

\* The equation of a fold, with the operator as a function on pairs.
Folds(iter, base, op, seq) ==
    iter = [s \in SUBSET (1 .. Len(seq)) |->
               IF s = {} THEN base ELSE op[<<iter[s \ {Max(s)}], seq[Max(s)]>>]]

LEMMA FoldExists ==
    ASSUME NEW A, NEW E, NEW base \in A, NEW op \in [A \X E -> A], NEW seq \in Seq(E)
    PROVE  \E iter \in [SUBSET (1 .. Len(seq)) -> A] : Folds(iter, base, op, seq)
<1> DEFINE Eq(f, s) == IF s = {} THEN base ELSE op[<<f[s \ {Max(s)}], seq[Max(s)]>>]
           Good(n) == \E f \in [SUBSET (1 .. n) -> A] : \A s \in SUBSET (1 .. n) : f[s] = Eq(f, s)
           T == {n \in Nat : n <= Len(seq) => Good(n)}
<1>1. 0 \in T
  <2> DEFINE f == [s \in SUBSET (1 .. 0) |-> base]
  <2>1. f \in [SUBSET (1 .. 0) -> A]
    OBVIOUS
  <2>2. ASSUME NEW s \in SUBSET (1 .. 0) PROVE f[s] = Eq(f, s)
    <3>1. s = {}
      OBVIOUS
    <3> QED BY <3>1
  <2> HIDE DEF f, Eq
  <2>3. \E g \in [SUBSET (1 .. 0) -> A] : \A s \in SUBSET (1 .. 0) : g[s] = Eq(g, s)
    BY <2>1, <2>2
  <2>4. Good(0)
    BY <2>3
  <2> QED BY <2>4
<1>2. ASSUME NEW n \in Nat, n \in T PROVE n + 1 \in T
  <2> SUFFICES ASSUME n + 1 <= Len(seq) PROVE Good(n + 1)
    <3> HIDE DEF Good
    <3> QED OBVIOUS
  <2>0. Good(n)
    <3> HIDE DEF Good
    <3>1. n <= Len(seq)
      OBVIOUS
    <3> QED BY <1>2, <3>1
  <2>1. PICK f \in [SUBSET (1 .. n) -> A] : \A s \in SUBSET (1 .. n) : f[s] = Eq(f, s)
    <3> HIDE DEF Eq
    <3> QED BY <2>0
  <2> DEFINE last == seq[n + 1]
             g == [s \in SUBSET (1 .. n + 1) |->
                      IF n + 1 \in s THEN op[<<f[s \ {n + 1}], last>>] ELSE f[s]]
  <2>2. last \in E
    BY ElementOfSeq
  <2>3. ASSUME NEW s \in SUBSET (1 .. n + 1)
        PROVE  /\ n + 1 \in s => s \ {n + 1} \in SUBSET (1 .. n)
               /\ n + 1 \notin s => s \in SUBSET (1 .. n)
    OBVIOUS
  <2> HIDE DEF last
  <2>4. g \in [SUBSET (1 .. n + 1) -> A]
    BY <2>2, <2>3
  <2>5. ASSUME NEW s \in SUBSET (1 .. n) PROVE s \in SUBSET (1 .. n + 1) /\ g[s] = f[s]
    <3>1. s \in SUBSET (1 .. n + 1) /\ n + 1 \notin s
      OBVIOUS
    <3> QED BY <3>1
  <2>6. ASSUME NEW s \in SUBSET (1 .. n + 1) PROVE g[s] = Eq(g, s)
    <3>1. CASE n + 1 \in s
      <4>1. Max(s) = n + 1 /\ s # {}
        BY <3>1, MaxOf
      <4>2. g[s] = op[<<f[s \ {n + 1}], last>>]
        BY <3>1
      <4>3. g[s \ {n + 1}] = f[s \ {n + 1}]
        BY <2>3, <2>5, <3>1
      <4> HIDE DEF g
      <4> QED BY <4>1, <4>2, <4>3 DEF last
    <3>2. CASE n + 1 \notin s
      <4>1. s \in SUBSET (1 .. n)
        BY <2>3, <3>2
      <4>2. g[s] = f[s] /\ f[s] = Eq(f, s)
        BY <2>1, <2>5, <4>1
      <4>3. CASE s = {}
        BY <4>2, <4>3
      <4>4. CASE s # {}
        <5>1. s \ {Max(s)} \in SUBSET (1 .. n)
          BY <4>1
        <5>2. g[s \ {Max(s)}] = f[s \ {Max(s)}]
          BY <2>5, <5>1
        <5> HIDE DEF g
        <5> QED BY <4>2, <4>4, <5>2
      <4> QED BY <4>3, <4>4
    <3> QED BY <3>1, <3>2
  <2> HIDE DEF g, Eq
  <2> QED BY <2>4, <2>6
<1> HIDE DEF T
<1>3. Nat \subseteq T
  BY <1>1, <1>2, SetInduction
<1>4. Len(seq) \in T
  BY <1>3
<1>5. PICK f \in [SUBSET (1 .. Len(seq)) -> A] : \A s \in SUBSET (1 .. Len(seq)) : f[s] = Eq(f, s)
  <2>1. Good(Len(seq))
    <3> HIDE DEF Good
    <3>1. Len(seq) \in Nat /\ Len(seq) <= Len(seq)
      OBVIOUS
    <3> QED BY <1>4, <3>1 DEF T
  <2> HIDE DEF Eq
  <2> QED BY <2>1
<1>6. f = [s \in SUBSET (1 .. Len(seq)) |-> Eq(f, s)]
  <2> HIDE DEF Eq
  <2> QED BY <1>5
<1> QED BY <1>6 DEF Folds

\* What the first value of a chain is, and every one passes on to the next,
\* they all are.
LEMMA ChainHolds ==
    ASSUME NEW A, NEW n \in Nat, NEW c, c[0] \in A,
           \A k \in 1 .. n : c[k - 1] \in A => c[k] \in A
    PROVE  \A k \in 0 .. n : c[k] \in A
<1> DEFINE T == {k \in Nat : k <= n => c[k] \in A}
<1>1. 0 \in T
  OBVIOUS
<1>2. ASSUME NEW k \in Nat, k \in T PROVE k + 1 \in T
  <2> SUFFICES ASSUME k + 1 <= n PROVE c[k + 1] \in A
    OBVIOUS
  <2>1. k <= n /\ k + 1 \in 1 .. n /\ (k + 1) - 1 = k
    OBVIOUS
  <2>2. c[k] \in A
    BY <1>2, <2>1
  <2>3. c[(k + 1) - 1] \in A
    BY <2>1, <2>2
  <2> QED BY <2>1, <2>3
<1> HIDE DEF T
<1>3. Nat \subseteq T
  BY <1>1, <1>2, SetInduction
<1> QED BY <1>3 DEF T

\* h obeys the equation of a fold, as far as its values are in A.
Obeys(h, A, base, op, seq) ==
    /\ h[{}] = base
    /\ \A s \in SUBSET (1 .. Len(seq)) :
          s # {} /\ h[s \ {Max(s)}] \in A => h[s] = op[<<h[s \ {Max(s)}], seq[Max(s)]>>]

\* c[k] is what has become of the first k elements.
Chain(c, base, op, seq) ==
    c[0] = base /\ \A k \in 1 .. Len(seq) : c[k] = op[<<c[k - 1], seq[k]>>]

\* What FoldSteps asks for, under one name: the provers match it as a whole.
Iterates(h, A, E, base, op, seq) ==
    base \in A /\ op \in [A \X E -> A] /\ seq \in Seq(E) /\ Obeys(h, A, base, op, seq)

\* Whatever obeys the equation goes through the sequence one element at a time.
LEMMA FoldSteps ==
    ASSUME NEW A, NEW E, NEW base, NEW op, NEW seq, NEW h, Iterates(h, A, E, base, op, seq)
    PROVE  \E c \in [0 .. Len(seq) -> A] :
              Chain(c, base, op, seq) /\ c[Len(seq)] = h[1 .. Len(seq)]
<1> DEFINE n == Len(seq)
           c == [k \in 0 .. n |-> h[1 .. k]]
<1>0. base \in A /\ op \in [A \X E -> A] /\ seq \in Seq(E) /\ Obeys(h, A, base, op, seq)
  BY DEF Iterates
<1>1. n \in Nat /\ 1 .. 0 = {} /\ \A k \in 1 .. n : seq[k] \in E
  BY <1>0
<1> HIDE DEF n
<1>2. c[0] = base /\ c[n] = h[1 .. n]
  BY <1>0, <1>1 DEF Obeys
<1>3. ASSUME NEW k \in 1 .. n, c[k - 1] \in A PROVE c[k] = op[<<c[k - 1], seq[k]>>]
  <2>1. Max(1 .. k) = k /\ (1 .. k) \ {k} = 1 .. k - 1 /\ 1 .. k # {}
    BY <1>1, MaxOf
  <2>2. 1 .. k \in SUBSET (1 .. n) /\ c[k] = h[1 .. k] /\ c[k - 1] = h[1 .. k - 1]
    BY <1>1
  <2> HIDE DEF c
  <2> QED BY <1>0, <1>3, <2>1, <2>2 DEF n, Obeys
<1>4. \A k \in 1 .. n : c[k - 1] \in A => c[k] \in A
  <2> HIDE DEF c
  <2> QED BY <1>0, <1>1, <1>3
<1>5. \A k \in 0 .. n : c[k] \in A
  <2>1. c[0] \in A
    BY <1>0, <1>2
  <2> HIDE DEF c
  <2> QED BY ONLY <1>1, <1>4, <2>1, ChainHolds
<1>6. \A k \in 1 .. n : k - 1 \in 0 .. n
  BY <1>1
<1>7. c \in [0 .. n -> A]
  BY <1>5
<1> HIDE DEF c
<1> QED BY <1>2, <1>3, <1>5, <1>6, <1>7 DEF n, Chain

-----------------------------------------------------------------------------
\* The smaller and the larger of two numbers.
LEMMA MinOfTwo ==
    ASSUME NEW a \in Int, NEW b \in Int
    PROVE  Min({a, b}) \in {a, b} /\ Min({a, b}) <= a /\ Min({a, b}) <= b
<1>1. \E m \in {a, b} : \A x \in {a, b} : m <= x
  <2>1. CASE a <= b
    BY <2>1
  <2>2. CASE b <= a
    BY <2>2
  <2> QED BY <2>1, <2>2
<1>2. Min({a, b}) \in {a, b} /\ \A x \in {a, b} : Min({a, b}) <= x
  BY <1>1 DEF Min
<1> QED BY <1>2

LEMMA MaxOfTwo ==
    ASSUME NEW a \in Int, NEW b \in Int
    PROVE  Max({a, b}) \in {a, b} /\ Max({a, b}) >= a /\ Max({a, b}) >= b
<1>1. \E m \in {a, b} : \A x \in {a, b} : m >= x
  <2>1. CASE a <= b
    BY <2>1
  <2>2. CASE b <= a
    BY <2>2
  <2> QED BY <2>1, <2>2
<1>2. Max({a, b}) \in {a, b} /\ \A x \in {a, b} : Max({a, b}) >= x
  BY <1>1 DEF Max
<1> QED BY <1>2

=============================================================================
