--------------------------- MODULE CandidateProofs ---------------------------
(***************************************************************************)
(* Where candidates come from and how they are ordered, for readings of    *)
(* any length, dictionaries of any size and any number of services and     *)
(* choices.                                                                *)
(*                                                                         *)
(* ConversionStack: whatever a converter answers and whatever fails on the *)
(* way, the segments tile the reading, every sentence reads as it, nothing *)
(* is left behind, and no fallback or empty answer goes unexplained.  The  *)
(* inductive invariant is StackInv; it conjoins those of the bridge        *)
(* (BridgeInv), of the native wrapper (NativeInv) and of the service       *)
(* (StackFits).                                                            *)
(*                                                                         *)
(* UserFiles: the table of the user's choices invents nothing, keeps what  *)
(* is learned, and decides the order in which candidates are shown.        *)
(***************************************************************************)
EXTENDS ConversionStack, UserFiles, SequenceLemmas, FiniteSetTheorems, FunctionTheorems,
        SequenceTheorems, TLAPS

-----------------------------------------------------------------------------
\* Readings and the texts that render them.

\* What Distinct makes of the texts before, and of one more.
Added(out, t) == IF t = <<>> \/ Contains(out, t) THEN out ELSE Append(out, t)

LEMMA AddedIs ==
    ASSUME NEW S, NEW out \in Seq(Seq(S)), NEW t \in Seq(S)
    PROVE  /\ Added(out, t) \in Seq(Seq(S))
           /\ \A i \in 1 .. Len(Added(out, t)) :
                 \/ i \in 1 .. Len(out) /\ Added(out, t)[i] = out[i]
                 \/ Added(out, t)[i] = t /\ t # <<>>
           /\ \A i \in 1 .. Len(out) : i \in 1 .. Len(Added(out, t)) /\ Added(out, t)[i] = out[i]
           /\ t # <<>> => \E i \in 1 .. Len(Added(out, t)) : Added(out, t)[i] = t
<1>1. CASE t = <<>> \/ Contains(out, t)
  BY <1>1 DEF Added, Contains
<1>2. CASE ~(t = <<>> \/ Contains(out, t))
  <2>1. Added(out, t) = Append(out, t) /\ t # <<>>
    BY <1>2 DEF Added
  <2>2. /\ Append(out, t) \in Seq(Seq(S)) /\ Len(Append(out, t)) = Len(out) + 1
        /\ \A i \in 1 .. Len(out) : Append(out, t)[i] = out[i]
        /\ Append(out, t)[Len(out) + 1] = t /\ Len(out) \in Nat
    OBVIOUS
  <2> QED BY <2>1, <2>2
<1> QED BY <1>1, <1>2

LEMMA DistinctChain ==
    ASSUME NEW S, NEW texts \in Seq(Seq(S))
    PROVE  \E c \in [0 .. Len(texts) -> Seq(Seq(S))] :
              /\ c[0] = <<>> /\ Distinct(texts) = c[Len(texts)]
              /\ \A k \in 1 .. Len(texts) : c[k] = Added(c[k - 1], texts[k])
<1> DEFINE A == Seq(Seq(S))
           E == Seq(S)
           op == [p \in A \X E |-> Added(p[1], p[2])]
           Eq(f, s) == IF s = {} THEN <<>> ELSE Added(f[s \ {Max(s)}], texts[Max(s)])
           h == CHOOSE f : f = [s \in SUBSET DOMAIN texts |-> Eq(f, s)]
<1>1. \A a \in A, e \in E : Added(a, e) \in A
  BY AddedIs
<1>2. op \in [A \X E -> A] /\ \A a \in A, e \in E : op[<<a, e>>] = Added(a, e)
  BY <1>1
<1>3. /\ <<>> \in A /\ texts \in Seq(E) /\ DOMAIN texts = 1 .. Len(texts) /\ Len(texts) \in Nat
      /\ \A k \in 1 .. Len(texts) : texts[k] \in E
  OBVIOUS
<1>4. Distinct(texts) = h[DOMAIN texts]
  BY DEF Distinct, FoldLeft, MapThenFoldSet, Added
<1> HIDE DEF op, A, E
<1>5. PICK iter \in [SUBSET (1 .. Len(texts)) -> A] : Folds(iter, <<>>, op, texts)
  BY <1>2, <1>3, FoldExists
<1>6. iter = [s \in SUBSET DOMAIN texts |-> Eq(iter, s)]
  <2>1. ASSUME NEW s \in SUBSET (1 .. Len(texts)), s # {}
        PROVE  op[<<iter[s \ {Max(s)}], texts[Max(s)]>>] = Added(iter[s \ {Max(s)}], texts[Max(s)])
    <3>1. Max(s) \in 1 .. Len(texts)
      BY <1>3, <2>1, MaxOf
    <3>2. iter[s \ {Max(s)}] \in A /\ texts[Max(s)] \in E
      BY <1>3, <3>1
    <3> QED BY <1>2, <3>2
  <2> QED BY <1>3, <1>5, <2>1 DEF Folds
<1>7. h = [s \in SUBSET DOMAIN texts |-> Eq(h, s)]
  <2> HIDE DEF Eq
  <2> QED BY <1>6
<1> HIDE DEF h
<1>8. h[{}] = <<>> /\ h[1 .. Len(texts)] = Distinct(texts)
  BY <1>3, <1>4, <1>7
<1>9. Obeys(h, A, <<>>, op, texts)
  <2> SUFFICES ASSUME NEW s \in SUBSET (1 .. Len(texts)), s # {}, h[s \ {Max(s)}] \in A
               PROVE  h[s] = op[<<h[s \ {Max(s)}], texts[Max(s)]>>]
    BY <1>8 DEF Obeys
  <2>1. Max(s) \in 1 .. Len(texts) /\ s \in SUBSET DOMAIN texts
    BY <1>3, MaxOf
  <2>2. h[s] = Added(h[s \ {Max(s)}], texts[Max(s)])
    BY <1>7, <2>1
  <2> HIDE DEF Eq
  <2> QED BY <1>2, <1>3, <2>1, <2>2
<1>10. PICK c \in [0 .. Len(texts) -> A] :
              Chain(c, <<>>, op, texts) /\ c[Len(texts)] = h[1 .. Len(texts)]
  <2>1. Iterates(h, A, E, <<>>, op, texts)
    <3> HIDE DEF Eq
    <3> QED BY <1>2, <1>3, <1>9 DEF Iterates
  <2> HIDE DEF Eq
  <2> QED BY <2>1, FoldSteps
<1>11. ASSUME NEW k \in 1 .. Len(texts) PROVE c[k] = Added(c[k - 1], texts[k])
  <2>1. k - 1 \in 0 .. Len(texts)
    BY <1>3
  <2>2. c[k - 1] \in A /\ texts[k] \in E
    BY <1>3, <2>1
  <2> QED BY <1>2, <1>10, <2>2 DEF Chain
<1> QED BY <1>8, <1>10, <1>11 DEF A, Chain

\* Distinct keeps the texts, but for the empty ones, and adds none.
LEMMA DistinctKeeps ==
    ASSUME NEW S, NEW texts \in Seq(Seq(S))
    PROVE  /\ Distinct(texts) \in Seq(Seq(S))
           /\ \A i \in DOMAIN Distinct(texts) :
                 Distinct(texts)[i] # <<>> /\ \E j \in DOMAIN texts : Distinct(texts)[i] = texts[j]
           /\ \A j \in DOMAIN texts : texts[j] # <<>> => \E i \in DOMAIN Distinct(texts) : Distinct(texts)[i] = texts[j]
<1> DEFINE n == Len(texts)
           Comes(out) == \A i \in 1 .. Len(out) : out[i] # <<>> /\ \E j \in 1 .. n : out[i] = texts[j]
           A == {out \in Seq(Seq(S)) : Comes(out)}
<1>1. PICK c \in [0 .. n -> Seq(Seq(S))] :
             /\ c[0] = <<>> /\ Distinct(texts) = c[n]
             /\ \A k \in 1 .. n : c[k] = Added(c[k - 1], texts[k])
  BY DistinctChain
<1>2. n \in Nat /\ \A k \in 1 .. n : texts[k] \in Seq(S)
  OBVIOUS
<1> HIDE DEF n
<1>3. \A k \in 0 .. n : c[k] \in A
  <2>1. c[0] \in A
    BY <1>1, <1>2
  <2>2. ASSUME NEW k \in 1 .. n, c[k - 1] \in A PROVE c[k] \in A
    <3> DEFINE out == c[k - 1]
               x == texts[k]
    <3>1. out \in Seq(Seq(S)) /\ Comes(out) /\ x \in Seq(S) /\ c[k] = Added(out, x)
      BY <1>1, <1>2, <2>2
    <3>2. \A i \in 1 .. Len(Added(out, x)) :
             (i \in 1 .. Len(out) /\ Added(out, x)[i] = out[i]) \/ (Added(out, x)[i] = x /\ x # <<>>)
      <4> HIDE DEF out, x, Comes
      <4> QED BY ZenonT(60), <3>1, AddedIs
    <3>3. Added(out, x) \in Seq(Seq(S))
      <4> HIDE DEF out, x, Comes
      <4> QED BY <3>1, AddedIs
    <3>4. Comes(Added(out, x))
      <4>1. x = texts[k]
        OBVIOUS
      <4> HIDE DEF out, x
      <4> QED BY <1>2, <3>1, <3>2, <4>1
    <3> QED BY <3>1, <3>3, <3>4
  <2> HIDE DEF A
  <2> QED BY <1>2, <2>1, <2>2, ChainHolds
<1>4. ASSUME NEW j \in 1 .. n, texts[j] # <<>>
      PROVE  \E i \in 1 .. Len(c[n]) : c[n][i] = texts[j]
  <2> DEFINE Has(out) == \E i \in 1 .. Len(out) : out[i] = texts[j]
             T == {k \in Nat : k \in j .. n => Has(c[k])}
  <2>1. 0 \in T
    BY <1>2
  <2>2. ASSUME NEW k \in Nat, k \in T PROVE k + 1 \in T
    <3> SUFFICES ASSUME k + 1 \in j .. n PROVE Has(c[k + 1])
      OBVIOUS
    <3> DEFINE out == c[k]
    <3>1. k + 1 \in 1 .. n /\ k \in 0 .. n /\ (k + 1) - 1 = k /\ out \in Seq(Seq(S))
          /\ texts[k + 1] \in Seq(S)
      BY <1>1, <1>2
    <3>2. c[k + 1] = Added(out, texts[k + 1])
      BY <1>1, <3>1
    <3>3. k + 1 = j \/ Has(out)
      BY <1>2, <2>2
    <3> HIDE DEF out
    <3> DEFINE x == texts[k + 1]
    <3>4. x \in Seq(S)
      BY <3>1
    <3> HIDE DEF x
    <3>5. Has(out) => Has(Added(out, x))
      BY <3>1, <3>4, AddedIs
    <3>6. x # <<>> => \E i \in 1 .. Len(Added(out, x)) : Added(out, x)[i] = x
      BY <3>1, <3>4, AddedIs
    <3> QED BY <1>4, <3>2, <3>3, <3>5, <3>6 DEF x
  <2> HIDE DEF T
  <2>3. Nat \subseteq T
    BY <2>1, <2>2, SetInduction
  <2> QED BY <1>2, <2>3 DEF T
<1>5. Distinct(texts) \in Seq(Seq(S)) /\ Comes(Distinct(texts))
  <2>1. Distinct(texts) = c[n] /\ n \in 0 .. n
    BY <1>1, <1>2
  <2>2. c[n] \in A
    BY <1>3, <2>1
  <2> QED BY <2>1, <2>2
<1>6. DOMAIN texts = 1 .. n /\ DOMAIN Distinct(texts) = 1 .. Len(Distinct(texts))
  BY <1>5 DEF n
<1> QED BY <1>1, <1>4, <1>5, <1>6

\* The readings of the characters of a text.
Reads(text) == [i \in DOMAIN text |-> text[i].reads]

LEMMA ReadsConcat ==
    ASSUME NEW s \in Texts, NEW t \in Texts
    PROVE  /\ Reads(s) \in Seq(Seq(Letters)) /\ s \o t \in Texts
           /\ Reads(s \o t) = Reads(s) \o Reads(t)
<1>1. \A c \in Chars : c.reads \in Seq(Letters)
  BY DEF Chars
<1>2. s \in Seq(Chars) /\ t \in Seq(Chars) /\ s \o t \in Seq(Chars)
  BY DEF Texts
<1>3. ASSUME NEW u \in Seq(Chars)
      PROVE  /\ Reads(u) \in Seq(Seq(Letters)) /\ Len(Reads(u)) = Len(u)
             /\ \A i \in 1 .. Len(u) : Reads(u)[i] = u[i].reads
  <2>1. DOMAIN u = 1 .. Len(u) /\ Len(u) \in Nat /\ \A i \in 1 .. Len(u) : u[i] \in Chars
    OBVIOUS
  <2>2. \A i \in 1 .. Len(u) : u[i].reads \in Seq(Letters)
    BY <1>1, <2>1
  <2> QED BY <2>1, <2>2 DEF Reads
<1>4. Reads(s) \o Reads(t) \in Seq(Seq(Letters))
  BY <1>2, <1>3
<1>5. /\ Len(s \o t) = Len(s) + Len(t) /\ Len(s) \in Nat /\ Len(t) \in Nat
      /\ \A i \in 1 .. Len(s) : (s \o t)[i] = s[i]
      /\ \A i \in 1 .. Len(t) : (s \o t)[Len(s) + i] = t[i]
  BY <1>2
<1> DEFINE a == Reads(s)
           b == Reads(t)
           ab == Reads(s \o t)
<1>6. /\ a \in Seq(Seq(Letters)) /\ b \in Seq(Seq(Letters)) /\ ab \in Seq(Seq(Letters))
      /\ Len(a) = Len(s) /\ Len(b) = Len(t) /\ Len(ab) = Len(s) + Len(t)
      /\ \A i \in 1 .. Len(s) : ab[i] = a[i]
      /\ \A i \in 1 .. Len(t) : ab[Len(s) + i] = b[i]
  <2>1. ASSUME NEW i \in 1 .. Len(s) PROVE ab[i] = a[i]
    <3>1. i \in 1 .. Len(s \o t)
      BY <1>5
    <3> QED BY <1>2, <1>3, <1>5, <3>1
  <2>2. ASSUME NEW i \in 1 .. Len(t) PROVE ab[Len(s) + i] = b[i]
    <3>1. Len(s) + i \in 1 .. Len(s \o t)
      BY <1>5
    <3> QED BY ZenonT(60), <1>2, <1>3, <1>5, <3>1
  <2> QED BY <1>2, <1>3, <1>5, <2>1, <2>2
<1> DEFINE joined == a \o b
<1> HIDE DEF a, b, ab
<1>7. /\ joined \in Seq(Seq(Letters)) /\ Len(joined) = Len(s) + Len(t)
      /\ \A i \in 1 .. Len(s) : joined[i] = a[i]
      /\ \A i \in 1 .. Len(t) : joined[Len(s) + i] = b[i]
  BY SMTT(30), <1>5, <1>6
<1> HIDE DEF joined
<1>8. \A i \in 1 .. Len(ab) : ab[i] = joined[i]
  <2> SUFFICES ASSUME NEW i \in 1 .. Len(s) + Len(t) PROVE ab[i] = joined[i]
    BY <1>6
  <2>1. CASE i <= Len(s)
    BY <1>5, <1>6, <1>7, <2>1
  <2>2. CASE ~(i <= Len(s))
    <3>1. i - Len(s) \in 1 .. Len(t) /\ i = Len(s) + (i - Len(s))
      BY <1>5, <2>2
    <3> QED BY <1>6, <1>7, <3>1
  <2> QED BY <2>1, <2>2
<1>9. ab = joined
  BY <1>6, <1>7, <1>8, SeqEqual
<1> QED BY <1>2, <1>6, <1>9 DEF ab, joined, a, b, Texts

LEMMA ReadingConcat ==
    ASSUME NEW s \in Texts, NEW t \in Texts
    PROVE  /\ ReadingOf(s) \in Seq(Letters) /\ ReadingOf(t) \in Seq(Letters)
           /\ ReadingOf(s \o t) = ReadingOf(s) \o ReadingOf(t)
<1>1. /\ Reads(s) \in Seq(Seq(Letters)) /\ Reads(t) \in Seq(Seq(Letters))
      /\ Reads(s \o t) = Reads(s) \o Reads(t)
  BY ReadsConcat
<1>2. \A u : ReadingOf(u) = FlattenSeq(Reads(u))
  BY DEF ReadingOf, Reads
<1>3. FlattenSeq(Reads(s) \o Reads(t)) = FlattenSeq(Reads(s)) \o FlattenSeq(Reads(t))
  BY <1>1, FlattenConcat
<1>4. FlattenSeq(Reads(s)) \in Seq(Letters) /\ FlattenSeq(Reads(t)) \in Seq(Letters)
  BY <1>1, FlattenType
<1> QED BY <1>1, <1>2, <1>3, <1>4

\* A text in kana reads what it shows; a kanji reads what it was made for.
LEMMA KanaReads ==
    ASSUME NEW reading \in Seq(Letters)
    PROVE  /\ InKana(reading) \in Texts /\ Len(InKana(reading)) = Len(reading)
           /\ ReadingOf(InKana(reading)) = reading
<1>1. ASSUME NEW r \in Seq(Letters) PROVE InKana(r) \in Texts /\ Len(InKana(r)) = Len(r)
  <2>1. DOMAIN r = 1 .. Len(r) /\ Len(r) \in Nat /\ \A i \in 1 .. Len(r) : r[i] \in Letters
    OBVIOUS
  <2>2. \A x \in Letters : Kana(x) \in Chars
    BY DEF Kana, Chars
  <2>3. InKana(r) = [i \in 1 .. Len(r) |-> Kana(r[i])]
    BY <2>1 DEF InKana
  <2> QED BY <2>1, <2>2, <2>3 DEF Texts
<1> DEFINE T == {n \in Nat : \A r \in Seq(Letters) : Len(r) = n => ReadingOf(InKana(r)) = r}
<1>2. 0 \in T
  <2> SUFFICES ASSUME NEW r \in Seq(Letters), Len(r) = 0 PROVE ReadingOf(InKana(r)) = r
    OBVIOUS
  <2>1. r = <<>>
    OBVIOUS
  <2>2. Reads(InKana(r)) = <<>>
    BY <2>1 DEF InKana, Reads
  <2> QED BY <2>1, <2>2, FlattenEmpty DEF ReadingOf, Reads
<1>3. ASSUME NEW n \in Nat, n \in T PROVE n + 1 \in T
  <2> SUFFICES ASSUME NEW r \in Seq(Letters), Len(r) = n + 1 PROVE ReadingOf(InKana(r)) = r
    OBVIOUS
  <2>1. PICK s \in Seq(Letters), x \in Letters : r = Append(s, x)
    <3>1. r # <<>>
      OBVIOUS
    <3> QED BY <3>1, SequenceEmptyOrAppend
  <2>2. Len(s) = n /\ <<x>> \in Seq(Letters) /\ r = s \o <<x>>
    <3>1. Len(Append(s, x)) = Len(s) + 1 /\ Append(s, x) = s \o <<x>> /\ Len(s) \in Nat
      BY AppendProperties, AppendIsConcat
    <3> QED BY <2>1, <3>1
  <2>3. ReadingOf(InKana(s)) = s
    BY <1>3, <2>2
  <2>4. ReadingOf(InKana(<<x>>)) = <<x>>
    <3>1. Reads(InKana(<<x>>)) = << <<x>> >>
      BY DEF InKana, Reads, Kana
    <3>2. FlattenSeq(<< <<x>> >>) = <<x>>
      BY <2>2, FlattenOne
    <3> QED BY <3>1, <3>2 DEF ReadingOf, Reads
  <2>5. InKana(r) = InKana(s) \o InKana(<<x>>)
    <3> DEFINE a == InKana(s)
               b == InKana(<<x>>)
               c == InKana(r)
    <3>1. a \in Texts /\ b \in Texts /\ c \in Texts /\ Len(a) = n /\ Len(b) = 1 /\ Len(c) = n + 1
      BY <1>1, <2>2
    <3>2. /\ \A i \in 1 .. n : c[i] = a[i]
          /\ c[n + 1] = b[1]
      <4>1. DOMAIN s = 1 .. n /\ DOMAIN r = 1 .. n + 1 /\ r[n + 1] = x /\ \A i \in 1 .. n : r[i] = s[i]
        BY <2>1, <2>2
      <4> QED BY <4>1 DEF InKana
    <3> HIDE DEF a, b, c
    <3>3. /\ a \o b \in Seq(Chars) /\ Len(a \o b) = n + 1
          /\ (a \o b)[n + 1] = b[1]
          /\ \A i \in 1 .. n : (a \o b)[i] = a[i]
      <4>1. a \in Seq(Chars) /\ b \in Seq(Chars)
        BY <3>1 DEF Texts
      <4>2. /\ a \o b \in Seq(Chars) /\ Len(a \o b) = Len(a) + Len(b)
            /\ \A i \in 1 .. Len(a) + Len(b) :
                  (a \o b)[i] = IF i <= Len(a) THEN a[i] ELSE b[i - Len(a)]
        BY <4>1, ConcatProperties
      <4>3. n + 1 - n = 1 /\ n + 1 \in 1 .. n + 1 /\ ~(n + 1 <= n)
        OBVIOUS
      <4>4. (a \o b)[n + 1] = b[1]
        BY <3>1, <4>2, <4>3
      <4> QED BY <3>1, <4>2, <4>4
    <3> DEFINE ab == a \o b
    <3> HIDE DEF ab
    <3>4. ASSUME NEW i \in 1 .. n + 1 PROVE c[i] = ab[i]
      <4>1. i \in 1 .. n \/ i = n + 1
        OBVIOUS
      <4> QED BY <3>2, <3>3, <4>1 DEF ab
    <3>5. ab \in Seq(Chars) /\ c \in Seq(Chars) /\ Len(ab) = n + 1
      BY <3>1, <3>3 DEF ab, Texts
    <3>6. c = ab
      BY <3>1, <3>4, <3>5, SeqEqual
    <3> QED BY <3>6 DEF a, b, c, ab
  <2>6. InKana(s) \in Texts /\ InKana(<<x>>) \in Texts
    BY <1>1, <2>2
  <2>7. ReadingOf(InKana(r)) = s \o <<x>>
    BY <2>3, <2>4, <2>5, <2>6, ReadingConcat
  <2> QED BY <2>2, <2>7
<1> HIDE DEF T
<1>4. Nat \subseteq T
  BY <1>2, <1>3, SetInduction
<1>5. ReadingOf(InKana(reading)) = reading
  <2>1. Len(reading) \in T
    BY <1>4
  <2> QED BY <2>1 DEF T
<1> QED BY <1>1, <1>5

LEMMA KanjiReads ==
    ASSUME NEW reading \in Seq(Letters)
    PROVE  /\ InKanji(reading) \in Texts /\ InKanji(reading) # <<>>
           /\ ReadingOf(InKanji(reading)) = reading
<1>1. [kanji |-> TRUE, reads |-> reading] \in Chars
  BY DEF Chars
<1>2. InKanji(reading) \in Texts /\ InKanji(reading) # <<>>
  BY <1>1 DEF InKanji, Texts
<1>3. Reads(InKanji(reading)) = <<reading>>
  BY DEF InKanji, Reads
<1>4. FlattenSeq(<<reading>>) = reading
  BY FlattenOne
<1> QED BY <1>2, <1>3, <1>4 DEF ReadingOf, Reads

LEMMA NothingReads == ReadingOf(<<>>) = <<>> /\ <<>> \in Texts
<1>1. Reads(<<>>) = <<>>
  BY DEF Reads
<1> QED BY <1>1, FlattenEmpty DEF ReadingOf, Reads, Texts

-----------------------------------------------------------------------------
\* Segments.

LEMMA EndOfIs ==
    ASSUME NEW segments \in Seq(Segments)
    PROVE  /\ EndOf(segments) \in Nat
           /\ \A s \in Segments : EndOf(Append(segments, s)) = s.start + s.length
<1>1. \A s \in Segments : s.start \in Nat /\ s.length \in Nat
  BY DEF Segments
<1>2. CASE segments = <<>>
  <2>1. EndOf(segments) = 0
    BY <1>2 DEF EndOf
  <2>2. \A s \in Segments : Append(segments, s) # <<>> /\ Last(Append(segments, s)) = s
    BY <1>2 DEF Last
  <2> QED BY <2>1, <2>2 DEF EndOf
<1>3. CASE segments # <<>>
  <2>1. Last(segments) \in Segments
    BY <1>3 DEF Last
  <2>2. \A s \in Segments : Append(segments, s) # <<>> /\ Last(Append(segments, s)) = s
    BY DEF Last
  <2> QED BY <1>1, <1>3, <2>1, <2>2 DEF EndOf
<1> QED BY <1>2, <1>3

\* The segments lie one behind the other, within the first n letters.
PartTiles(segments, n) ==
    /\ EndOf(segments) <= n
    /\ \A i \in DOMAIN segments :
        /\ segments[i].length > 0
        /\ segments[i].start = EndOf(SubSeq(segments, 1, i - 1))

LEMMA TilesIs ==
    ASSUME NEW segments, NEW reading
    PROVE  Tiles(segments, reading) <=>
               PartTiles(segments, Len(reading)) /\ EndOf(segments) = Len(reading)
BY DEF Tiles, PartTiles

LEMMA PartTilesAppend ==
    ASSUME NEW segments \in Seq(Segments), NEW n \in Nat, PartTiles(segments, n),
           NEW s \in Segments, s.length > 0, s.start = EndOf(segments), s.start + s.length <= n
    PROVE  Append(segments, s) \in Seq(Segments) /\ PartTiles(Append(segments, s), n)
<1> DEFINE more == Append(segments, s)
<1>1. /\ more \in Seq(Segments) /\ Len(more) = Len(segments) + 1 /\ Len(segments) \in Nat
      /\ DOMAIN more = 1 .. Len(segments) + 1 /\ DOMAIN segments = 1 .. Len(segments)
      /\ more[Len(segments) + 1] = s
      /\ \A i \in 1 .. Len(segments) : more[i] = segments[i]
  OBVIOUS
<1>2. EndOf(more) <= n
  BY EndOfIs
<1>3. \A i \in 1 .. Len(segments) + 1 : SubSeq(more, 1, i - 1) = SubSeq(segments, 1, i - 1)
  OBVIOUS
<1>4. SubSeq(segments, 1, Len(segments)) = segments
  OBVIOUS
<1> HIDE DEF more
<1>5. ASSUME NEW i \in 1 .. Len(segments) + 1
      PROVE  more[i].length > 0 /\ more[i].start = EndOf(SubSeq(more, 1, i - 1))
  <2>1. CASE i = Len(segments) + 1
    <3>1. i - 1 = Len(segments)
      BY <1>1, <2>1
    <3> QED BY <1>1, <1>3, <1>4, <2>1, <3>1
  <2>2. CASE i # Len(segments) + 1
    <3>1. i \in 1 .. Len(segments)
      BY <1>1, <2>2
    <3> QED BY <1>1, <1>3, <3>1 DEF PartTiles
  <2> QED BY <2>1, <2>2
<1>6. PartTiles(more, n)
  BY <1>1, <1>2, <1>5 DEF PartTiles
<1> QED BY <1>1, <1>6 DEF more

-----------------------------------------------------------------------------
\* The native converter.

NativeAnswerSet == [ok : BOOLEAN, candidates : Seq(Texts), surfaces : Seq(Texts)]

NativeType ==
    native \in [at : {"idle", "file", "pipe", "start", "wait", "kill", "read", "finish", "answered"},
                reading : Seq(Letters), file : BOOLEAN, pipe : BOOLEAN,
                wrapper : {"none", "running", "ended", "failed", "killed"},
                output : Nat, written : Nat, read : Nat, reply : NativeAnswerSet,
                error : BOOLEAN, candidates : Seq(Texts), segments : Seq(Segments),
                obstacle : BOOLEAN]

\* How the place of the call, the wrapper and the pipe go together.
NativePlaces ==
    /\ native.at \in {"idle", "file", "pipe", "start"} => native.wrapper = "none" /\ ~native.obstacle
    /\ native.at # "answered" => (native.error <=> native.obstacle)
    /\ native.at = "kill" => native.obstacle
    /\ native.wrapper = "ended" => native.written = native.output
    /\ native.at \in {"read", "finish", "answered"} /\ ~native.obstacle =>
            native.wrapper \in {"ended", "failed"}
    /\ native.at = "finish" /\ ~native.obstacle => native.read = native.written
    /\ native.reply.candidates # <<>> => native.reply.ok

NativeInv == NativeType /\ NativePlaces /\ NoFileLeft /\ AnswerIsTheWrappers


LEMMA NativeBegins == ASSUME native = IdleNative PROVE NativeInv
<1>1. <<>> \in Seq(Letters) /\ <<>> \in Seq(Texts) /\ <<>> \in Seq(Segments)
  OBVIOUS
<1>2. NativeType
  BY <1>1 DEF IdleNative, NativeAnswerSet, NativeType
<1> QED BY <1>2 DEF IdleNative, NativeInv, NativePlaces, NoFileLeft, AnswerIsTheWrappers, Reached

LEMMA NativeReplyTyped ==
    ASSUME NEW reading \in Seq(Letters), NEW reply \in NativeReplies(reading)
    PROVE  reply \in NativeAnswerSet /\ (reply.candidates # <<>> => reply.ok)
<1> DEFINE None == [ok |-> FALSE, candidates |-> <<>>, surfaces |-> <<>>]
           Parts == {<<reading>>} \cup
               {<<SubSeq(reading, 1, k), SubSeq(reading, k + 1, Len(reading))>> : k \in 1 .. Len(reading) - 1}
           Of(split) ==
               [ok : {TRUE},
                candidates : {<<>>, <<InKanji(split[1]), InKana(split[1])>>},
                surfaces : {[i \in DOMAIN split |-> InKanji(split[i])],
                            [i \in DOMAIN split |-> InKana(split[i])]}]
<1>1. reply \in {None} \cup UNION {Of(split) : split \in Parts}
  BY DEF NativeReplies
<1>2. reply = None \/ \E split \in Parts : reply \in Of(split)
  <2> HIDE DEF None, Of, Parts
  <2>1. reply = None \/ reply \in UNION {Of(split) : split \in Parts}
    BY <1>1, Zenon
  <2>2. reply \in UNION {Of(split) : split \in Parts} => \E split \in Parts : reply \in Of(split)
    BY Zenon
  <2> QED BY <2>1, <2>2, Zenon
<1>3. \A split \in Parts : split \in Seq(Seq(Letters)) /\ Len(split) \in {1, 2} /\ DOMAIN split = 1 .. Len(split)
  <2> SUFFICES ASSUME NEW split \in Parts
               PROVE  split \in Seq(Seq(Letters)) /\ Len(split) \in {1, 2} /\ DOMAIN split = 1 .. Len(split)
    OBVIOUS
  <2>1. CASE split = <<reading>>
    BY <2>1
  <2>2. ASSUME NEW k \in 1 .. Len(reading) - 1,
               split = <<SubSeq(reading, 1, k), SubSeq(reading, k + 1, Len(reading))>>
        PROVE  split \in Seq(Seq(Letters)) /\ Len(split) \in {1, 2} /\ DOMAIN split = 1 .. Len(split)
    <3> DEFINE a == SubSeq(reading, 1, k)
               b == SubSeq(reading, k + 1, Len(reading))
    <3>1. a \in Seq(Letters) /\ b \in Seq(Letters) /\ split = <<a, b>>
      BY <2>2
    <3> HIDE DEF a, b
    <3> QED BY <3>1
  <2> QED BY <2>1, <2>2
<1>4. CASE reply = None
  <2>1. <<>> \in Seq(Texts)
    OBVIOUS
  <2> QED BY <1>4, <2>1 DEF NativeAnswerSet
<1>5. ASSUME NEW split \in Parts, reply \in Of(split)
      PROVE  reply \in NativeAnswerSet /\ reply.ok
  <2>1. /\ Len(split) \in Nat /\ DOMAIN split = 1 .. Len(split) /\ 1 \in 1 .. Len(split)
        /\ \A i \in 1 .. Len(split) : split[i] \in Seq(Letters)
    <3>1. split \in Seq(Seq(Letters)) /\ Len(split) \in {1, 2} /\ DOMAIN split = 1 .. Len(split)
      BY <1>3
    <3> HIDE DEF Parts
    <3>2. \A i \in 1 .. Len(split) : split[i] \in Seq(Letters)
      BY <3>1
    <3> QED BY <3>1, <3>2
  <2> DEFINE kanji == [i \in DOMAIN split |-> InKanji(split[i])]
             kana == [i \in DOMAIN split |-> InKana(split[i])]
             a == InKanji(split[1])
             b == InKana(split[1])
  <2>2. \A i \in 1 .. Len(split) : InKanji(split[i]) \in Texts /\ InKana(split[i]) \in Texts
    BY <2>1, KanaReads, KanjiReads
  <2>3. kanji \in Seq(Texts) /\ kana \in Seq(Texts)
    BY <2>1, <2>2
  <2>4. a \in Texts /\ b \in Texts
    BY <2>1, <2>2
  <2>5. reply \in [ok : {TRUE}, candidates : {<<>>, <<a, b>>}, surfaces : {kanji, kana}]
    BY <1>5
  <2> HIDE DEF kanji, kana, a, b, Parts, Of
  <2>6. <<a, b>> \in Seq(Texts) /\ <<>> \in Seq(Texts)
    BY <2>4
  <2> DEFINE two == <<a, b>>
             none == <<>>
  <2>7. reply \in [ok : {TRUE}, candidates : {none, two}, surfaces : {kanji, kana}]
        /\ none \in Seq(Texts) /\ two \in Seq(Texts)
    BY <2>5, <2>6
  <2> HIDE DEF two, none
  <2>8. /\ reply.ok = TRUE /\ reply.candidates \in {none, two} /\ reply.surfaces \in {kanji, kana}
        /\ reply = [ok |-> reply.ok, candidates |-> reply.candidates, surfaces |-> reply.surfaces]
    BY <2>7
  <2> DEFINE all == Seq(Texts)
  <2>9. reply.candidates \in all /\ reply.surfaces \in all
    <3>1. none \in all /\ two \in all /\ kanji \in all /\ kana \in all
      BY <2>3, <2>7
    <3> HIDE DEF all
    <3> QED BY <2>8, <3>1
  <2> HIDE DEF all
  <2>10. reply \in [ok : BOOLEAN, candidates : all, surfaces : all]
    BY <2>8, <2>9
  <2> QED BY <2>8, <2>10 DEF all, NativeAnswerSet
<1> QED BY <1>2, <1>4, <1>5

\* The surfaces become segments one after the other.
LEMMA SequentialChain ==
    ASSUME NEW surfaces \in Seq(Texts)
    PROVE  \E c \in [0 .. Len(surfaces) -> Seq(Segments)] :
              /\ c[0] = <<>> /\ BuildSequentialSegments(surfaces) = c[Len(surfaces)]
              /\ \A k \in 1 .. Len(surfaces) : c[k] = Append(c[k - 1], [start |-> EndOf(c[k - 1]), length |-> Len(surfaces[k]), surface |-> surfaces[k]])
<1> DEFINE A == Seq(Segments)
           E == Texts
           n == Len(surfaces)
           Put(a, e) == Append(a, [start |-> EndOf(a), length |-> Len(e), surface |-> e])
           op == [p \in A \X E |-> Put(p[1], p[2])]
           Eq(f, s) == IF s = {} THEN <<>> ELSE Put(f[s \ {Max(s)}], surfaces[Max(s)])
           h == CHOOSE f : f = [s \in SUBSET DOMAIN surfaces |-> Eq(f, s)]
<1>1. <<>> \in A /\ \A a \in A, e \in E : Put(a, e) \in A
  <2>1. ASSUME NEW a \in A, NEW e \in E PROVE Put(a, e) \in A
    <3>1. EndOf(a) \in Nat /\ Len(e) \in Nat
      BY EndOfIs DEF Texts
    <3>2. [start |-> EndOf(a), length |-> Len(e), surface |-> e] \in Segments
      BY <3>1 DEF Segments
    <3> DEFINE s == [start |-> EndOf(a), length |-> Len(e), surface |-> e]
    <3> HIDE DEF s
    <3>3. Append(a, s) \in Seq(Segments)
      BY <3>2 DEF s
    <3> QED BY <3>3 DEF s
  <2> QED BY <2>1
<1>2. BuildSequentialSegments(surfaces) = h[DOMAIN surfaces]
  BY DEF BuildSequentialSegments, FoldLeft, MapThenFoldSet
<1> HIDE DEF A, E, Put
<1>3. surfaces \in Seq(E) /\ DOMAIN surfaces = 1 .. n /\ n \in Nat /\ \A k \in 1 .. n : surfaces[k] \in E
  BY DEF E
<1>4. op \in [A \X E -> A] /\ \A a \in A, e \in E : op[<<a, e>>] = Put(a, e)
  BY <1>1
<1> HIDE DEF op
<1>5. PICK iter \in [SUBSET (1 .. n) -> A] : Folds(iter, <<>>, op, surfaces)
  BY <1>1, <1>3, <1>4, FoldExists
<1>6. iter = [s \in SUBSET DOMAIN surfaces |-> Eq(iter, s)]
  <2>1. ASSUME NEW s \in SUBSET (1 .. n), s # {}
        PROVE  op[<<iter[s \ {Max(s)}], surfaces[Max(s)]>>] = Put(iter[s \ {Max(s)}], surfaces[Max(s)])
    <3>1. Max(s) \in 1 .. n
      BY <1>3, <2>1, MaxOf
    <3>2. iter[s \ {Max(s)}] \in A /\ surfaces[Max(s)] \in E
      BY <1>3, <3>1
    <3> QED BY <1>4, <3>2
  <2> QED BY <1>3, <1>5, <2>1 DEF Folds
<1>7. h = [s \in SUBSET DOMAIN surfaces |-> Eq(h, s)]
  <2> HIDE DEF Eq
  <2> QED BY <1>6
<1> HIDE DEF h
<1>8. h[{}] = <<>>
  BY <1>3, <1>7
<1>9. Obeys(h, A, <<>>, op, surfaces)
  <2> SUFFICES ASSUME NEW s \in SUBSET (1 .. n), s # {}, h[s \ {Max(s)}] \in A
               PROVE  h[s] = op[<<h[s \ {Max(s)}], surfaces[Max(s)]>>]
    BY <1>8 DEF Obeys
  <2>1. Max(s) \in 1 .. n /\ s \in SUBSET DOMAIN surfaces
    BY <1>3, MaxOf
  <2>2. h[s] = Put(h[s \ {Max(s)}], surfaces[Max(s)])
    BY <1>7, <2>1
  <2> HIDE DEF Eq
  <2> QED BY <1>3, <1>4, <2>1, <2>2
<1> HIDE DEF Eq
<1>10. PICK c \in [0 .. n -> A] : Chain(c, <<>>, op, surfaces) /\ c[n] = h[1 .. n]
  <2>1. Iterates(h, A, E, <<>>, op, surfaces)
    BY <1>1, <1>3, <1>4, <1>9 DEF Iterates
  <2> QED BY <2>1, FoldSteps
<1>11. ASSUME NEW k \in 1 .. n PROVE c[k] = Put(c[k - 1], surfaces[k])
  <2>1. k - 1 \in 0 .. n
    BY <1>3
  <2>2. c[k - 1] \in A /\ surfaces[k] \in E
    BY <1>3, <2>1
  <2> QED BY <1>4, <1>10, <2>2 DEF Chain
<1>12. BuildSequentialSegments(surfaces) = c[n]
  BY <1>2, <1>3, <1>10
<1> QED BY <1>10, <1>11, <1>12 DEF A, Put, Chain


LEMMA NativeCalls ==
    ASSUME NativeInv, NEW reading \in Seq(Letters), NativeCall(reading)
    PROVE  NativeInv'
<1>1. <<>> \in Seq(Letters) /\ <<>> \in Seq(Texts) /\ <<>> \in Seq(Segments)
  OBVIOUS
<1>2. NativeType'
  BY <1>1 DEF NativeCall, Advance, IdleNative, NativeAnswerSet, NativeType
<1> QED BY <1>2 DEF NativeCall, Advance, IdleNative, NativeInv, NativePlaces, NoFileLeft, AnswerIsTheWrappers, Reached

\* Each step of the call and of the wrapper, and each failure, keeps the invariant.
LEMMA NativeSteps ==
    ASSUME NativeInv, NativeStep \/ WrapperStep \/ NativeFault
    PROVE  NativeInv'
<1> USE DEF Reached, Advance
<1>1. CASE StartWrapper
  <2>1. PICK output \in 1 .. MaxOutput, reply \in NativeReplies(native.reading) :
           /\ native.at = "start"
           /\ native' = [native EXCEPT !.at = "wait", !.wrapper = "running",
                                        !.output = output, !.reply = reply]
    BY <1>1 DEF StartWrapper
  <2>2. reply \in NativeAnswerSet /\ (reply.candidates # <<>> => reply.ok) /\ output \in Nat
    <3>1. native.reading \in Seq(Letters)
      BY DEF NativeInv, NativeType
    <3> QED BY <3>1, NativeReplyTyped, OutputAssumption
  <2>3. NativeType'
    BY <2>1, <2>2 DEF NativeInv, NativeType
  <2>4. NativePlaces'
    BY <2>1, <2>2 DEF NativeInv, NativeType, NativePlaces
  <2> QED BY <2>1, <2>3, <2>4 DEF NativeInv, NativeType, NoFileLeft, AnswerIsTheWrappers
<1>2. CASE FinishNative
  <2> DEFINE whole == native.read = native.output
             candidates == IF whole THEN native.reply.candidates ELSE <<>>
             segments == IF whole THEN BuildSequentialSegments(native.reply.surfaces) ELSE <<>>
             error == AnswerError(native, whole)
  <2>1. /\ native.at = "finish"
        /\ native' = [native EXCEPT !.at = "answered", !.file = FALSE, !.pipe = FALSE,
                                     !.error = error, !.candidates = candidates, !.segments = segments]
    BY <1>2 DEF FinishNative
  <2>2. candidates \in Seq(Texts) /\ segments \in Seq(Segments) /\ error \in BOOLEAN
    <3>1. native.reply.candidates \in Seq(Texts) /\ native.reply.surfaces \in Seq(Texts)
      BY DEF NativeInv, NativeType, NativeAnswerSet
    <3>2. BuildSequentialSegments(native.reply.surfaces) \in Seq(Segments)
      <4> DEFINE surfaces == native.reply.surfaces
      <4>1. surfaces \in Seq(Texts)
        BY <3>1
      <4> HIDE DEF surfaces
      <4>2. BuildSequentialSegments(surfaces) \in Seq(Segments)
        BY <4>1, SequentialChain
      <4> QED BY <4>2 DEF surfaces
    <3> QED BY <3>1, <3>2 DEF AnswerError
  <2>3. NativeType'
    <3> HIDE DEF candidates, segments, error
    <3> QED BY <2>1, <2>2 DEF NativeInv, NativeType
  <2>4. /\ native'.at = "answered" /\ native'.error = error /\ native'.candidates = candidates
        /\ ~native'.file /\ ~native'.pipe
        /\ native'.wrapper = native.wrapper /\ native'.reply = native.reply
        /\ native'.obstacle = native.obstacle /\ native'.written = native.written
        /\ native'.output = native.output
    <3> HIDE DEF candidates, segments, error
    <3> QED BY <2>1 DEF NativeInv, NativeType
  <2>5. NativePlaces'
    <3> HIDE DEF candidates, segments, error
    <3> QED BY <2>1, <2>4 DEF NativeInv, NativePlaces
  <2>6. AnswerIsTheWrappers'
    BY ZenonT(60), <2>1, <2>4 DEF NativeInv, NativePlaces, NativeType, AnswerIsTheWrappers, AnswerError
  <2> QED BY <2>3, <2>4, <2>5, <2>6 DEF NativeInv, NoFileLeft
<1>3. NativeInv
  OBVIOUS
<1>4. CASE CreateReadingFile
  <2>1. NativeType'
    BY <1>4 DEF NativeInv, NativeType, CreateReadingFile
  <2>2. NativePlaces'
    BY <1>4 DEF NativeInv, NativeType, NativePlaces, CreateReadingFile
  <2>3. NoFileLeft' /\ AnswerIsTheWrappers'
    BY <1>4 DEF NativeInv, NativeType, NativePlaces, NoFileLeft, AnswerIsTheWrappers, CreateReadingFile
  <2> QED BY <2>1, <2>2, <2>3 DEF NativeInv
<1>5. CASE CreateReadingFileFails
  <2>1. NativeType'
    BY <1>5 DEF NativeInv, NativeType, CreateReadingFileFails, Refuse
  <2>2. NativePlaces'
    BY <1>5 DEF NativeInv, NativeType, NativePlaces, CreateReadingFileFails, Refuse
  <2>3. NoFileLeft' /\ AnswerIsTheWrappers'
    BY <1>5 DEF NativeInv, NativeType, NativePlaces, NoFileLeft, AnswerIsTheWrappers, CreateReadingFileFails, Refuse
  <2> QED BY <2>1, <2>2, <2>3 DEF NativeInv
<1>6. CASE CreateNativePipe
  <2>1. NativeType'
    BY <1>6 DEF NativeInv, NativeType, CreateNativePipe
  <2>2. NativePlaces'
    BY <1>6 DEF NativeInv, NativeType, NativePlaces, CreateNativePipe
  <2>3. NoFileLeft' /\ AnswerIsTheWrappers'
    BY <1>6 DEF NativeInv, NativeType, NativePlaces, NoFileLeft, AnswerIsTheWrappers, CreateNativePipe
  <2> QED BY <2>1, <2>2, <2>3 DEF NativeInv
<1>7. CASE CreateNativePipeFails
  <2>1. NativeType'
    BY <1>7 DEF NativeInv, NativeType, CreateNativePipeFails, Refuse
  <2>2. NativePlaces'
    BY <1>7 DEF NativeInv, NativeType, NativePlaces, CreateNativePipeFails, Refuse
  <2>3. NoFileLeft' /\ AnswerIsTheWrappers'
    BY <1>7 DEF NativeInv, NativeType, NativePlaces, NoFileLeft, AnswerIsTheWrappers, CreateNativePipeFails, Refuse
  <2> QED BY <2>1, <2>2, <2>3 DEF NativeInv
<1>8. CASE StartWrapperFails
  <2>1. NativeType'
    BY <1>8 DEF NativeInv, NativeType, StartWrapperFails, Refuse
  <2>2. NativePlaces'
    BY <1>8 DEF NativeInv, NativeType, NativePlaces, StartWrapperFails, Refuse
  <2>3. NoFileLeft' /\ AnswerIsTheWrappers'
    BY <1>8 DEF NativeInv, NativeType, NativePlaces, NoFileLeft, AnswerIsTheWrappers, StartWrapperFails, Refuse
  <2> QED BY <2>1, <2>2, <2>3 DEF NativeInv
<1>9. CASE WrapperWrites
  <2>1. NativeType'
    <3>1. native.written + 1 \in Nat
      BY DEF NativeInv, NativeType
    <3> QED BY <1>9, <3>1 DEF NativeInv, NativeType, WrapperWrites
  <2>2. NativePlaces'
    BY <1>9 DEF NativeInv, NativeType, NativePlaces, WrapperWrites
  <2>3. NoFileLeft' /\ AnswerIsTheWrappers'
    BY <1>9 DEF NativeInv, NativeType, NativePlaces, NoFileLeft, AnswerIsTheWrappers, WrapperWrites
  <2> QED BY <2>1, <2>2, <2>3 DEF NativeInv
<1>10. CASE WrapperEnds
  <2>1. NativeType'
    BY <1>10 DEF NativeInv, NativeType, WrapperEnds
  <2>2. NativePlaces'
    BY <1>10 DEF NativeInv, NativeType, NativePlaces, WrapperEnds
  <2>3. NoFileLeft' /\ AnswerIsTheWrappers'
    BY <1>10 DEF NativeInv, NativeType, NativePlaces, NoFileLeft, AnswerIsTheWrappers, WrapperEnds
  <2> QED BY <2>1, <2>2, <2>3 DEF NativeInv
<1>11. CASE WrapperFails
  <2>1. NativeType'
    BY <1>11 DEF NativeInv, NativeType, WrapperFails
  <2>2. NativePlaces'
    BY <1>11 DEF NativeInv, NativeType, NativePlaces, WrapperFails
  <2>3. NoFileLeft' /\ AnswerIsTheWrappers'
    BY <1>11 DEF NativeInv, NativeType, NativePlaces, NoFileLeft, AnswerIsTheWrappers, WrapperFails
  <2> QED BY <2>1, <2>2, <2>3 DEF NativeInv
<1>12. CASE WaitEnds
  <2>1. NativeType'
    BY <1>12 DEF NativeInv, NativeType, WaitEnds
  <2>2. NativePlaces'
    BY <1>12 DEF NativeInv, NativeType, NativePlaces, WaitEnds
  <2>3. NoFileLeft' /\ AnswerIsTheWrappers'
    BY <1>12 DEF NativeInv, NativeType, NativePlaces, NoFileLeft, AnswerIsTheWrappers, WaitEnds
  <2> QED BY <2>1, <2>2, <2>3 DEF NativeInv
<1>13. CASE WaitTimesOut
  <2>1. NativeType'
    BY <1>13 DEF NativeInv, NativeType, WaitTimesOut
  <2>2. NativePlaces'
    BY <1>13 DEF NativeInv, NativeType, NativePlaces, WaitTimesOut
  <2>3. NoFileLeft' /\ AnswerIsTheWrappers'
    BY <1>13 DEF NativeInv, NativeType, NativePlaces, NoFileLeft, AnswerIsTheWrappers, WaitTimesOut
  <2> QED BY <2>1, <2>2, <2>3 DEF NativeInv
<1>14. CASE WaitFails
  <2>1. NativeType'
    BY <1>14 DEF NativeInv, NativeType, WaitFails
  <2>2. NativePlaces'
    BY <1>14 DEF NativeInv, NativeType, NativePlaces, WaitFails
  <2>3. NoFileLeft' /\ AnswerIsTheWrappers'
    BY <1>14 DEF NativeInv, NativeType, NativePlaces, NoFileLeft, AnswerIsTheWrappers, WaitFails
  <2> QED BY <2>1, <2>2, <2>3 DEF NativeInv
<1>15. CASE KillWrapper
  <2>1. NativeType'
    BY <1>15 DEF NativeInv, NativeType, KillWrapper
  <2>2. NativePlaces'
    BY <1>15 DEF NativeInv, NativeType, NativePlaces, KillWrapper
  <2>3. NoFileLeft' /\ AnswerIsTheWrappers'
    BY <1>15 DEF NativeInv, NativeType, NativePlaces, NoFileLeft, AnswerIsTheWrappers, KillWrapper
  <2> QED BY <2>1, <2>2, <2>3 DEF NativeInv
<1>16. CASE ReadChunk
  <2>1. NativeType'
    <3>1. native.read + 1 \in Nat
      BY DEF NativeInv, NativeType
    <3> QED BY <1>16, <3>1 DEF NativeInv, NativeType, ReadChunk
  <2>2. NativePlaces'
    BY <1>16 DEF NativeInv, NativeType, NativePlaces, ReadChunk
  <2>3. NoFileLeft' /\ AnswerIsTheWrappers'
    BY <1>16 DEF NativeInv, NativeType, NativePlaces, NoFileLeft, AnswerIsTheWrappers, ReadChunk
  <2> QED BY <2>1, <2>2, <2>3 DEF NativeInv
<1>17. CASE ReadEnds
  <2>1. NativeType'
    BY <1>17 DEF NativeInv, NativeType, ReadEnds
  <2>2. NativePlaces'
    BY <1>17 DEF NativeInv, NativeType, NativePlaces, ReadEnds
  <2>3. NoFileLeft' /\ AnswerIsTheWrappers'
    BY <1>17 DEF NativeInv, NativeType, NativePlaces, NoFileLeft, AnswerIsTheWrappers, ReadEnds
  <2> QED BY <2>1, <2>2, <2>3 DEF NativeInv
<1>18. CASE ReadFails
  <2>1. NativeType'
    BY <1>18 DEF NativeInv, NativeType, ReadFails
  <2>2. NativePlaces'
    BY <1>18 DEF NativeInv, NativeType, NativePlaces, ReadFails
  <2>3. NoFileLeft' /\ AnswerIsTheWrappers'
    BY <1>18 DEF NativeInv, NativeType, NativePlaces, NoFileLeft, AnswerIsTheWrappers, ReadFails
  <2> QED BY <2>1, <2>2, <2>3 DEF NativeInv
<1> QED BY <1>1, <1>2, <1>3, <1>4, <1>5, <1>6, <1>7, <1>8, <1>9, <1>10, <1>11, <1>12, <1>13, <1>14, <1>15, <1>16, <1>17, <1>18 DEF NativeStep, WrapperStep, NativeFault

-----------------------------------------------------------------------------
\* The clauses and candidates of an answer.

\* What the segments are while clauses are placed.
Placed(reading) == {segments \in Seq(Segments) : PartTiles(segments, Len(reading))}

LEMMA PlaceClauseKeeps ==
    ASSUME NEW reading \in Seq(Letters), NEW segments \in Placed(reading),
           NEW key \in Seq(Letters), NEW surface \in Texts
    PROVE  PlaceClause(reading, segments, key, surface) \in Placed(reading)
<1>1. /\ segments \in Seq(Segments) /\ PartTiles(segments, Len(reading)) /\ Len(reading) \in Nat
      /\ EndOf(segments) \in Nat /\ Len(key) \in Nat
  BY EndOfIs DEF Placed
<1>2. CASE key = <<>> \/ EndOf(segments) >= Len(reading)
  BY <1>2 DEF PlaceClause
<1>3. CASE ~(key = <<>> \/ EndOf(segments) >= Len(reading))
  <2> DEFINE left == Len(reading) - EndOf(segments)
             length == Min({Len(key), left})
             s == [start |-> EndOf(segments), length |-> length, surface |-> surface]
  <2>1. Len(key) > 0 /\ left > 0 /\ left \in Nat
    BY <1>1, <1>3
  <2> HIDE DEF left
  <2>2. length \in {Len(key), left} /\ length <= left
    <3> DEFINE size == Len(key)
    <3>1. size \in Int /\ left \in Int
      BY <1>1, <2>1
    <3> HIDE DEF size
    <3>2. Min({size, left}) \in {size, left} /\ Min({size, left}) <= left
      BY <3>1, MinOfTwo
    <3> QED BY <3>2 DEF size
  <2> HIDE DEF length
  <2>3. length \in Nat /\ length > 0 /\ EndOf(segments) + length <= Len(reading)
    BY <1>1, <2>1, <2>2 DEF left
  <2>4. s \in Segments /\ s.length > 0 /\ s.start = EndOf(segments) /\ s.start + s.length <= Len(reading)
    BY <1>1, <2>3 DEF Segments
  <2>5. PlaceClause(reading, segments, key, surface) = Append(segments, s)
    BY <1>3 DEF PlaceClause, length, left
  <2> HIDE DEF s
  <2> QED BY <1>1, <2>4, <2>5, PartTilesAppend DEF Placed
<1> QED BY <1>2, <1>3

LEMMA NothingPlaced == ASSUME NEW reading \in Seq(Letters) PROVE <<>> \in Placed(reading)
BY DEF Placed, PartTiles, EndOf

\* The segment that the rest of the reading becomes.
RestOf(reading, cursor) ==
    LET rest == Stretch(reading, cursor, Len(reading) - cursor)
    IN  [start |-> cursor, length |-> Len(rest), surface |-> InKana(rest)]

\* The rest of the reading completes the segments.
LEMMA WithRestTiles ==
    ASSUME NEW reading \in Seq(Letters), NEW segments \in Placed(reading)
    PROVE  /\ WithRest(reading, segments) \in Seq(Segments)
           /\ WithRest(reading, segments) # <<>> => Tiles(WithRest(reading, segments), reading)
           /\ EndOf(segments) = Len(reading) => WithRest(reading, segments) = segments
           /\ EndOf(segments) # Len(reading) =>
                 WithRest(reading, segments) = Append(segments, RestOf(reading, EndOf(segments)))
<1> DEFINE cursor == EndOf(segments)
           rest == Stretch(reading, cursor, Len(reading) - cursor)
           s == [start |-> cursor, length |-> Len(rest), surface |-> InKana(rest)]
<1>1. /\ segments \in Seq(Segments) /\ PartTiles(segments, Len(reading)) /\ Len(reading) \in Nat
      /\ cursor \in Nat /\ cursor <= Len(reading)
  BY EndOfIs DEF Placed, PartTiles
<1> HIDE DEF cursor
<1>2. rest \in Seq(Letters) /\ Len(rest) = Len(reading) - cursor
  <2>1. rest = SubSeq(reading, cursor + 1, Len(reading))
    BY <1>1 DEF Stretch
  <2>2. cursor + 1 \in 1 .. Len(reading) + 1
    BY <1>1
  <2>3. rest \in Seq(Letters) /\ Len(rest) = IF cursor + 1 <= Len(reading) THEN Len(reading) - (cursor + 1) + 1 ELSE 0
    <3> HIDE DEF rest
    <3> QED BY <1>1, <2>1, <2>2, SubSeqProperties
  <2> HIDE DEF rest
  <2> QED BY <1>1, <2>3
<1>3. /\ WithRest(reading, segments) = IF rest = <<>> THEN segments ELSE Append(segments, s)
      /\ RestOf(reading, cursor) = s
  BY DEF WithRest, RestOf, cursor
<1> HIDE DEF rest
<1>4. CASE rest = <<>>
  <2>1. WithRest(reading, segments) = segments
    BY <1>3, <1>4
  <2>2. cursor = Len(reading)
    BY <1>1, <1>2, <1>4
  <2> QED BY <1>1, <2>1, <2>2, TilesIs DEF cursor
<1>5. CASE rest # <<>>
  <2>1. Len(rest) > 0 /\ Len(rest) \in Nat /\ InKana(rest) \in Texts
    BY <1>2, <1>5, KanaReads
  <2>2. s \in Segments /\ s.length > 0 /\ s.start = EndOf(segments) /\ s.start + s.length = Len(reading)
    BY <1>1, <1>2, <2>1 DEF Segments, cursor
  <2>3. WithRest(reading, segments) = Append(segments, s)
    BY <1>3, <1>5
  <2>4. cursor # Len(reading)
    BY <1>1, <1>2, <2>1
  <2> HIDE DEF s
  <2>5. Append(segments, s) \in Seq(Segments) /\ PartTiles(Append(segments, s), Len(reading))
    BY <1>1, <2>2, PartTilesAppend
  <2>6. EndOf(Append(segments, s)) = Len(reading)
    BY <1>1, <2>2, EndOfIs
  <2> QED BY <1>3, <2>3, <2>4, <2>5, <2>6, TilesIs DEF cursor
<1> QED BY <1>4, <1>5

ListClauses == [key : Seq(Letters), candidates : Seq(Texts), focus : Nat]
ShownClauses == [key : Seq(Letters), value : Texts]

LEMMA PickIsText ==
    ASSUME NEW clause \in ListClauses
    PROVE  /\ PickSegmentFocusedValue(clause) \in Texts /\ clause.key \in Seq(Letters)
           /\ clause.candidates # <<>> => FocusedOf(clause) \in Range(clause.candidates)
<1>1. clause.key \in Seq(Letters) /\ clause.candidates \in Seq(Texts) /\ clause.focus \in Nat
  BY DEF ListClauses
<1>2. InKana(clause.key) \in Texts
  BY <1>1, KanaReads
<1>3. clause.candidates # <<>> => FocusedOf(clause) \in Range(clause.candidates)
  <2> DEFINE at == IF clause.focus < Len(clause.candidates) THEN clause.focus + 1 ELSE 1
  <2>1. clause.candidates # <<>> => at \in DOMAIN clause.candidates
    BY <1>1
  <2> QED BY <2>1 DEF FocusedOf, Range
<1>4. \A t \in Range(clause.candidates) : t \in Texts
  BY <1>1 DEF Range
<1> QED BY <1>1, <1>2, <1>3, <1>4 DEF PickSegmentFocusedValue

\* The clauses of the candidate list are placed one after the other.
LEMMA ListChain ==
    ASSUME NEW reading \in Seq(Letters), NEW list \in Seq(ListClauses), list # <<>>
    PROVE  \E c \in [0 .. Len(list) -> Placed(reading)] :
              /\ c[0] = <<>> /\ BuildSegmentsFromCandidateList(list, reading) = WithRest(reading, c[Len(list)])
              /\ \A k \in 1 .. Len(list) : c[k] = PlaceClause(reading, c[k - 1], list[k].key, PickSegmentFocusedValue(list[k]))
<1> DEFINE A == Placed(reading)
           E == ListClauses
           n == Len(list)
           Put(a, e) == PlaceClause(reading, a, e.key, PickSegmentFocusedValue(e))
           op == [p \in A \X E |-> Put(p[1], p[2])]
           Eq(f, s) == IF s = {} THEN <<>> ELSE Put(f[s \ {Max(s)}], list[Max(s)])
           h == CHOOSE f : f = [s \in SUBSET DOMAIN list |-> Eq(f, s)]
<1>1. <<>> \in A /\ \A a \in A, e \in E : Put(a, e) \in A
  BY NothingPlaced, PlaceClauseKeeps, PickIsText
<1>2. BuildSegmentsFromCandidateList(list, reading) = WithRest(reading, h[DOMAIN list])
  BY DEF BuildSegmentsFromCandidateList, FoldLeft, MapThenFoldSet
<1> HIDE DEF A, E, Put
<1>3. list \in Seq(E) /\ DOMAIN list = 1 .. n /\ n \in Nat /\ \A k \in 1 .. n : list[k] \in E
  BY DEF E
<1>4. op \in [A \X E -> A] /\ \A a \in A, e \in E : op[<<a, e>>] = Put(a, e)
  BY <1>1
<1> HIDE DEF op
<1>5. PICK iter \in [SUBSET (1 .. n) -> A] : Folds(iter, <<>>, op, list)
  BY <1>1, <1>3, <1>4, FoldExists
<1>6. iter = [s \in SUBSET DOMAIN list |-> Eq(iter, s)]
  <2>1. ASSUME NEW s \in SUBSET (1 .. n), s # {}
        PROVE  op[<<iter[s \ {Max(s)}], list[Max(s)]>>] = Put(iter[s \ {Max(s)}], list[Max(s)])
    <3>1. Max(s) \in 1 .. n
      BY <1>3, <2>1, MaxOf
    <3>2. iter[s \ {Max(s)}] \in A /\ list[Max(s)] \in E
      BY <1>3, <3>1
    <3> QED BY <1>4, <3>2
  <2> QED BY <1>3, <1>5, <2>1 DEF Folds
<1>7. h = [s \in SUBSET DOMAIN list |-> Eq(h, s)]
  <2> HIDE DEF Eq
  <2> QED BY <1>6
<1> HIDE DEF h
<1>8. h[{}] = <<>>
  BY <1>3, <1>7
<1>9. Obeys(h, A, <<>>, op, list)
  <2> SUFFICES ASSUME NEW s \in SUBSET (1 .. n), s # {}, h[s \ {Max(s)}] \in A
               PROVE  h[s] = op[<<h[s \ {Max(s)}], list[Max(s)]>>]
    BY <1>8 DEF Obeys
  <2>1. Max(s) \in 1 .. n /\ s \in SUBSET DOMAIN list
    BY <1>3, MaxOf
  <2>2. h[s] = Put(h[s \ {Max(s)}], list[Max(s)])
    BY <1>7, <2>1
  <2> HIDE DEF Eq
  <2> QED BY <1>3, <1>4, <2>1, <2>2
<1> HIDE DEF Eq
<1>10. PICK c \in [0 .. n -> A] : Chain(c, <<>>, op, list) /\ c[n] = h[1 .. n]
  <2>1. Iterates(h, A, E, <<>>, op, list)
    BY <1>1, <1>3, <1>4, <1>9 DEF Iterates
  <2> QED BY <2>1, FoldSteps
<1>11. ASSUME NEW k \in 1 .. n PROVE c[k] = Put(c[k - 1], list[k])
  <2>1. k - 1 \in 0 .. n
    BY <1>3
  <2>2. c[k - 1] \in A /\ list[k] \in E
    BY <1>3, <2>1
  <2> QED BY <1>4, <1>10, <2>2 DEF Chain
<1>12. BuildSegmentsFromCandidateList(list, reading) = WithRest(reading, c[n])
  BY <1>2, <1>3, <1>10
<1> QED BY <1>10, <1>11, <1>12 DEF A, Put, Chain

\* The same of the preedit.
LEMMA PreeditChain ==
    ASSUME NEW reading \in Seq(Letters), NEW preedit \in Seq(ShownClauses), preedit # <<>>
    PROVE  \E c \in [0 .. Len(preedit) -> Placed(reading)] :
              /\ c[0] = <<>> /\ BuildSegmentsFromPreedit(preedit, reading) = WithRest(reading, c[Len(preedit)])
              /\ \A k \in 1 .. Len(preedit) : c[k] = PlaceClause(reading, c[k - 1], preedit[k].key, preedit[k].value)
<1> DEFINE A == Placed(reading)
           E == ShownClauses
           n == Len(preedit)
           Put(a, e) == PlaceClause(reading, a, e.key, e.value)
           op == [p \in A \X E |-> Put(p[1], p[2])]
           Eq(f, s) == IF s = {} THEN <<>> ELSE Put(f[s \ {Max(s)}], preedit[Max(s)])
           h == CHOOSE f : f = [s \in SUBSET DOMAIN preedit |-> Eq(f, s)]
<1>1. <<>> \in A /\ \A a \in A, e \in E : Put(a, e) \in A
  <2>1. \A e \in E : e.key \in Seq(Letters) /\ e.value \in Texts
    BY DEF ShownClauses
  <2> QED BY <2>1, NothingPlaced, PlaceClauseKeeps
<1>2. BuildSegmentsFromPreedit(preedit, reading) = WithRest(reading, h[DOMAIN preedit])
  BY DEF BuildSegmentsFromPreedit, FoldLeft, MapThenFoldSet
<1> HIDE DEF A, E, Put
<1>3. preedit \in Seq(E) /\ DOMAIN preedit = 1 .. n /\ n \in Nat /\ \A k \in 1 .. n : preedit[k] \in E
  BY DEF E
<1>4. op \in [A \X E -> A] /\ \A a \in A, e \in E : op[<<a, e>>] = Put(a, e)
  BY <1>1
<1> HIDE DEF op
<1>5. PICK iter \in [SUBSET (1 .. n) -> A] : Folds(iter, <<>>, op, preedit)
  BY <1>1, <1>3, <1>4, FoldExists
<1>6. iter = [s \in SUBSET DOMAIN preedit |-> Eq(iter, s)]
  <2>1. ASSUME NEW s \in SUBSET (1 .. n), s # {}
        PROVE  op[<<iter[s \ {Max(s)}], preedit[Max(s)]>>] = Put(iter[s \ {Max(s)}], preedit[Max(s)])
    <3>1. Max(s) \in 1 .. n
      BY <1>3, <2>1, MaxOf
    <3>2. iter[s \ {Max(s)}] \in A /\ preedit[Max(s)] \in E
      BY <1>3, <3>1
    <3> QED BY <1>4, <3>2
  <2> QED BY <1>3, <1>5, <2>1 DEF Folds
<1>7. h = [s \in SUBSET DOMAIN preedit |-> Eq(h, s)]
  <2> HIDE DEF Eq
  <2> QED BY <1>6
<1> HIDE DEF h
<1>8. h[{}] = <<>>
  BY <1>3, <1>7
<1>9. Obeys(h, A, <<>>, op, preedit)
  <2> SUFFICES ASSUME NEW s \in SUBSET (1 .. n), s # {}, h[s \ {Max(s)}] \in A
               PROVE  h[s] = op[<<h[s \ {Max(s)}], preedit[Max(s)]>>]
    BY <1>8 DEF Obeys
  <2>1. Max(s) \in 1 .. n /\ s \in SUBSET DOMAIN preedit
    BY <1>3, MaxOf
  <2>2. h[s] = Put(h[s \ {Max(s)}], preedit[Max(s)])
    BY <1>7, <2>1
  <2> HIDE DEF Eq
  <2> QED BY <1>3, <1>4, <2>1, <2>2
<1> HIDE DEF Eq
<1>10. PICK c \in [0 .. n -> A] : Chain(c, <<>>, op, preedit) /\ c[n] = h[1 .. n]
  <2>1. Iterates(h, A, E, <<>>, op, preedit)
    BY <1>1, <1>3, <1>4, <1>9 DEF Iterates
  <2> QED BY <2>1, FoldSteps
<1>11. ASSUME NEW k \in 1 .. n PROVE c[k] = Put(c[k - 1], preedit[k])
  <2>1. k - 1 \in 0 .. n
    BY <1>3
  <2>2. c[k - 1] \in A /\ preedit[k] \in E
    BY <1>3, <2>1
  <2> QED BY <1>4, <1>10, <2>2 DEF Chain
<1>12. BuildSegmentsFromPreedit(preedit, reading) = WithRest(reading, c[n])
  BY <1>2, <1>3, <1>10
<1> QED BY <1>10, <1>11, <1>12 DEF A, Put, Chain

-----------------------------------------------------------------------------
\* What the converters answer.

LEMMA SplitIs ==
    ASSUME NEW reading \in Seq(Letters), reading # <<>>, NEW split \in Splits(reading)
    PROVE  /\ split \in Seq(Seq(Letters)) /\ Len(split) \in {1, 2} /\ DOMAIN split = 1 .. Len(split)
           /\ \A i \in DOMAIN split : split[i] \in Seq(Letters) /\ split[i] # <<>>
           /\ Len(split) = 1 => split = <<reading>>
           /\ Len(split) = 2 => /\ split = <<split[1], split[2]>> /\ split[1] # reading
                                /\ split[1] \o split[2] = reading
<1>1. CASE split = <<reading>>
  BY <1>1
<1>2. CASE split # <<reading>>
  <2>1. PICK n \in 1 .. Len(reading) - 1 :
           split = <<SubSeq(reading, 1, n), SubSeq(reading, n + 1, Len(reading))>>
    BY <1>2 DEF Splits
  <2> DEFINE k == SubSeq(reading, 1, n)
             l == SubSeq(reading, n + 1, Len(reading))
  <2>2. /\ k \in Seq(Letters) /\ l \in Seq(Letters) /\ Len(k) = n /\ Len(l) = Len(reading) - n
        /\ n \in Nat /\ n > 0 /\ Len(reading) \in Nat /\ Len(reading) > n
    OBVIOUS
  <2>3. k \o l = reading
    <3>1. /\ \A i \in 1 .. n : k[i] = reading[i]
          /\ \A i \in 1 .. Len(reading) - n : l[i] = reading[n + i]
      BY <2>2
    <3> DEFINE kl == k \o l
    <3>2. /\ kl \in Seq(Letters) /\ Len(kl) = Len(reading)
          /\ \A i \in 1 .. Len(reading) : kl[i] = IF i <= n THEN k[i] ELSE l[i - n]
      <4> HIDE DEF k, l
      <4>1. /\ k \o l \in Seq(Letters) /\ Len(k \o l) = Len(k) + Len(l)
            /\ \A i \in 1 .. Len(k) + Len(l) : (k \o l)[i] = IF i <= Len(k) THEN k[i] ELSE l[i - Len(k)]
        BY <2>2, ConcatProperties
      <4>2. Len(k) + Len(l) = Len(reading)
        BY <2>2
      <4> QED BY <2>2, <4>1, <4>2
    <3> HIDE DEF k, l, kl
    <3>3. \A i \in 1 .. Len(reading) : kl[i] = reading[i]
      BY SMTT(30), <2>2, <3>1, <3>2
    <3>4. kl = reading
      BY <3>2, <3>3, SeqEqual
    <3> QED BY <3>4 DEF kl
  <2>4. split = <<k, l>>
    BY <2>1
  <2> HIDE DEF k, l
  <2>5. k # <<>> /\ l # <<>> /\ k # reading
    BY <2>2
  <2>6. Len(split) = 2 /\ split[1] = k /\ split[2] = l /\ DOMAIN split = 1 .. 2
    BY <2>4
  <2>7. split \in Seq(Seq(Letters))
    BY <2>2, <2>4
  <2>8. split = <<split[1], split[2]>> /\ split[1] # reading /\ split[1] \o split[2] = reading
    BY <2>3, <2>4, <2>5, <2>6
  <2>9. \A i \in DOMAIN split : split[i] \in Seq(Letters) /\ split[i] # <<>>
    BY <2>2, <2>5, <2>6
  <2> HIDE DEF Splits
  <2> QED BY ONLY <2>6, <2>7, <2>8, <2>9
<1> QED BY <1>1, <1>2

LEMMA OfferReads ==
    ASSUME NEW key \in Seq(Letters), NEW texts \in Offers(key)
    PROVE  /\ texts \in Seq(Texts) /\ texts # <<>>
           /\ \A i \in DOMAIN texts : texts[i] \in Texts /\ ReadingOf(texts[i]) = key
<1> DEFINE a == InKanji(key)
           b == InKana(key)
<1>1. a \in Texts /\ b \in Texts /\ ReadingOf(a) = key /\ ReadingOf(b) = key
  BY KanaReads, KanjiReads
<1>2. texts \in {<<a>>, <<a, b>>, <<b, a>>}
  BY DEF Offers
<1> HIDE DEF a, b
<1>3. CASE texts = <<a>>
  BY <1>1, <1>3
<1>4. CASE texts = <<a, b>> \/ texts = <<b, a>>
  <2>1. DOMAIN texts = {1, 2} /\ texts[1] \in {a, b} /\ texts[2] \in {a, b} /\ texts # <<>>
    BY <1>4
  <2>2. <<a, b>> \in Seq(Texts) /\ <<b, a>> \in Seq(Texts)
    BY <1>1
  <2>3. texts \in Seq(Texts)
    BY <1>4, <2>2, Zenon
  <2> QED BY <1>1, <2>1, <2>3
<1> QED BY <1>2, <1>3, <1>4

LEMMA ClauseReads ==
    ASSUME NEW key \in Seq(Letters), NEW c \in Clauses(key)
    PROVE  /\ c \in ListClauses /\ c.key = key /\ c.candidates \in Offers(key) /\ c.candidates # <<>>
           /\ ReadingOf(PickSegmentFocusedValue(c)) = key
<1>1. c.key = key /\ c.candidates \in Offers(key) /\ c.focus \in {0, 1}
      /\ c = [key |-> c.key, candidates |-> c.candidates, focus |-> c.focus]
  BY DEF Clauses
<1>2. c.candidates \in Seq(Texts) /\ c.candidates # <<>>
      /\ \A i \in DOMAIN c.candidates : ReadingOf(c.candidates[i]) = key
  BY <1>1, OfferReads
<1>3. c \in ListClauses
  BY <1>1, <1>2 DEF ListClauses
<1>4. FocusedOf(c) \in Range(c.candidates)
  BY <1>2, <1>3, PickIsText
<1>5. PickSegmentFocusedValue(c) = FocusedOf(c)
  BY <1>2 DEF PickSegmentFocusedValue
<1> QED BY <1>1, <1>2, <1>3, <1>4, <1>5 DEF Range

LEMMA ShownReads ==
    ASSUME NEW key \in Seq(Letters), NEW c \in Shown(key)
    PROVE  c \in ShownClauses /\ c.key = key /\ ReadingOf(c.value) = key
<1>1. c.key = key /\ c.value \in {InKanji(key), InKana(key)}
      /\ c = [key |-> c.key, value |-> c.value]
  BY DEF Shown
<1> QED BY <1>1, KanaReads, KanjiReads DEF ShownClauses

\* A clause that fits takes as many letters as its key has.
LEMMA TakesItsKey ==
    ASSUME NEW reading \in Seq(Letters), NEW segments \in Seq(Segments), NEW key \in Seq(Letters),
           NEW surface \in Texts, key # <<>>, EndOf(segments) + Len(key) <= Len(reading)
    PROVE  PlaceClause(reading, segments, key, surface) =
               Append(segments, [start |-> EndOf(segments), length |-> Len(key), surface |-> surface])
<1> DEFINE size == Len(key)
           left == Len(reading) - EndOf(segments)
<1>1. size \in Nat /\ size > 0 /\ left \in Int /\ size <= left /\ ~(EndOf(segments) >= Len(reading))
  <2>1. EndOf(segments) \in Nat
    BY EndOfIs
  <2> QED BY <2>1
<1>2. PlaceClause(reading, segments, key, surface) =
          Append(segments, [start |-> EndOf(segments), length |-> Min({size, left}), surface |-> surface])
  BY <1>1 DEF PlaceClause
<1> HIDE DEF size, left
<1>3. Min({size, left}) = size
  <2>1. size \in Int
    BY <1>1
  <2>2. Min({size, left}) \in {size, left} /\ Min({size, left}) <= size
    BY <1>1, <2>1, MinOfTwo
  <2> QED BY <1>1, <2>2
<1> QED BY <1>2, <1>3 DEF size

\* A clause for each key of a split takes exactly its part of the reading.
LEMMA PlacedOne ==
    ASSUME NEW reading \in Seq(Letters), reading # <<>>, NEW surface \in Texts
    PROVE  LET segments == PlaceClause(reading, <<>>, reading, surface)
           IN  /\ segments = <<[start |-> 0, length |-> Len(reading), surface |-> surface]>>
               /\ EndOf(segments) = Len(reading)
<1> DEFINE n == Len(reading)
           s == [start |-> 0, length |-> n, surface |-> surface]
<1>1. n \in Nat /\ n > 0 /\ EndOf(<<>>) = 0
  BY DEF EndOf
<1>3. PlaceClause(reading, <<>>, reading, surface) = Append(<<>>, s)
  <2>1. <<>> \in Seq(Segments) /\ EndOf(<<>>) + Len(reading) <= Len(reading)
    BY <1>1
  <2> DEFINE none == <<>>
  <2>2. none \in Seq(Segments) /\ EndOf(none) = 0 /\ EndOf(none) + Len(reading) <= Len(reading)
    BY <1>1, <2>1
  <2> HIDE DEF none
  <2>3. PlaceClause(reading, none, reading, surface) =
            Append(none, [start |-> EndOf(none), length |-> Len(reading), surface |-> surface])
    BY <2>2, TakesItsKey
  <2> QED BY <2>2, <2>3 DEF none
<1>4. s \in Segments /\ s.start + s.length = n /\ Append(<<>>, s) = <<s>> /\ <<>> \in Seq(Segments)
  BY <1>1 DEF Segments
<1>5. EndOf(Append(<<>>, s)) = n
  <2> HIDE DEF s, n
  <2> QED BY <1>4, EndOfIs
<1> QED BY <1>3, <1>4, <1>5

\* What PlacedTwo asks for, under one name.
TwoParts(reading, k, l, v, w) ==
    /\ reading \in Seq(Letters) /\ k \in Seq(Letters) /\ l \in Seq(Letters)
    /\ k # <<>> /\ l # <<>> /\ k \o l = reading
    /\ v \in Texts /\ w \in Texts

LEMMA PlacedTwo ==
    ASSUME NEW reading, NEW k, NEW l, NEW v, NEW w, TwoParts(reading, k, l, v, w)
    PROVE  LET segments == PlaceClause(reading, PlaceClause(reading, <<>>, k, v), l, w)
           IN  /\ segments = << [start |-> 0, length |-> Len(k), surface |-> v],
                                [start |-> Len(k), length |-> Len(l), surface |-> w] >>
               /\ EndOf(segments) = Len(reading)
<1> DEFINE m == Len(k)
           n == Len(l)
           s == [start |-> 0, length |-> m, surface |-> v]
           t == [start |-> m, length |-> n, surface |-> w]
<1>0. /\ reading \in Seq(Letters) /\ k \in Seq(Letters) /\ l \in Seq(Letters)
      /\ k # <<>> /\ l # <<>> /\ k \o l = reading /\ v \in Texts /\ w \in Texts
  BY DEF TwoParts
<1>1. m \in Nat /\ n \in Nat /\ m > 0 /\ n > 0 /\ Len(reading) = m + n /\ EndOf(<<>>) = 0
  BY <1>0 DEF EndOf
<1>3. PlaceClause(reading, <<>>, k, v) = Append(<<>>, s)
  <2> DEFINE none == <<>>
  <2>1. none \in Seq(Segments) /\ EndOf(none) = 0 /\ EndOf(none) + Len(k) <= Len(reading)
    BY <1>1
  <2> HIDE DEF none
  <2>2. PlaceClause(reading, none, k, v) =
            Append(none, [start |-> EndOf(none), length |-> Len(k), surface |-> v])
    BY <1>0, <2>1, TakesItsKey
  <2> QED BY <2>1, <2>2 DEF none
<1>4. /\ s \in Segments /\ s.start + s.length = m /\ Append(<<>>, s) = <<s>> /\ <<>> \in Seq(Segments)
      /\ t \in Segments /\ t.start + t.length = m + n /\ <<s>> \in Seq(Segments)
  BY <1>0, <1>1 DEF Segments
<1>5. EndOf(<<s>>) = m
  <2> HIDE DEF s, m
  <2> QED BY <1>4, EndOfIs
<1>6. PlaceClause(reading, <<s>>, l, w) = Append(<<s>>, t)
  <2> DEFINE one == <<s>>
  <2>1. one \in Seq(Segments) /\ EndOf(one) = m /\ EndOf(one) + Len(l) <= Len(reading)
    BY <1>1, <1>4, <1>5
  <2> HIDE DEF one
  <2>2. PlaceClause(reading, one, l, w) =
            Append(one, [start |-> EndOf(one), length |-> Len(l), surface |-> w])
    BY <1>0, <2>1, TakesItsKey
  <2> QED BY <2>1, <2>2 DEF one
<1>7. EndOf(Append(<<s>>, t)) = m + n
  <2> HIDE DEF s, t, m, n
  <2> QED BY <1>4, EndOfIs
<1>8. Append(<<s>>, t) = <<s, t>>
  <2> HIDE DEF s, t
  <2> QED BY <1>4, CutTwo
<1> QED BY <1>1, <1>3, <1>4, <1>6, <1>7, <1>8

ReplySet == [list : Seq(ListClauses), preedit : Seq(ShownClauses), window : Seq(Texts), intact : BOOLEAN]

LEMMA SplitKeys ==
    ASSUME NEW reading \in Seq(Letters), reading # <<>>, NEW split \in Splits(reading)
    PROVE  /\ Len(split) \in Nat /\ DOMAIN split = 1 .. Len(split) /\ 1 \in DOMAIN split
           /\ \A i \in DOMAIN split : split[i] \in Seq(Letters)
           /\ split[1] \in Seq(Letters) /\ split[1] # <<>>
<1>1. /\ split \in Seq(Seq(Letters)) /\ Len(split) \in {1, 2} /\ DOMAIN split = 1 .. Len(split)
      /\ \A i \in DOMAIN split : split[i] \in Seq(Letters) /\ split[i] # <<>>
  BY SplitIs
<1>2. Len(split) \in Nat /\ 1 \in DOMAIN split
  BY <1>1
<1> QED BY <1>1, <1>2

LEMMA PerClauseLists ==
    ASSUME NEW reading \in Seq(Letters), reading # <<>>, NEW split \in Splits(reading),
           NEW list \in PerClause(split, Clauses)
    PROVE  /\ list \in Seq(ListClauses) /\ Len(list) = Len(split) /\ DOMAIN list = DOMAIN split
           /\ \A i \in DOMAIN split : list[i] \in Clauses(split[i])
<1>1. /\ Len(split) \in {1, 2} /\ DOMAIN split = 1 .. Len(split)
      /\ \A i \in DOMAIN split : split[i] \in Seq(Letters)
  BY SplitIs
<1>2. \A i \in DOMAIN split : \A c \in Clauses(split[i]) : c \in ListClauses
  BY <1>1, ClauseReads
<1>3. CASE Len(split) = 1
  <2>1. PICK c \in Clauses(split[1]) : list = <<c>>
    BY <1>3 DEF PerClause
  <2>2. DOMAIN split = {1} /\ DOMAIN list = {1} /\ list[1] = c /\ Len(list) = 1 /\ c \in ListClauses
    BY <1>1, <1>2, <1>3, <2>1
  <2>3. <<c>> \in Seq(ListClauses)
    BY <2>2
  <2> QED BY <1>3, <2>1, <2>2, <2>3
<1>4. CASE Len(split) = 2
  <2>1. PICK c \in Clauses(split[1]), d \in Clauses(split[2]) : list = <<c, d>>
    BY <1>4 DEF PerClause
  <2>2. DOMAIN split = {1, 2} /\ DOMAIN list = {1, 2} /\ list[1] = c /\ list[2] = d /\ Len(list) = 2
        /\ c \in ListClauses /\ d \in ListClauses
    BY <1>1, <1>2, <1>4, <2>1
  <2>3. <<c, d>> \in Seq(ListClauses)
    BY <2>2
  <2> QED BY <1>4, <2>1, <2>2, <2>3
<1> QED BY <1>1, <1>3, <1>4

LEMMA PerClauseShown ==
    ASSUME NEW reading \in Seq(Letters), reading # <<>>, NEW split \in Splits(reading),
           NEW list \in PerClause(split, Shown)
    PROVE  /\ list \in Seq(ShownClauses) /\ Len(list) = Len(split) /\ DOMAIN list = DOMAIN split
           /\ \A i \in DOMAIN split : list[i] \in Shown(split[i])
<1>1. /\ Len(split) \in {1, 2} /\ DOMAIN split = 1 .. Len(split)
      /\ \A i \in DOMAIN split : split[i] \in Seq(Letters)
  BY SplitIs
<1>2. \A i \in DOMAIN split : \A c \in Shown(split[i]) : c \in ShownClauses
  BY <1>1, ShownReads
<1>3. CASE Len(split) = 1
  <2>1. PICK c \in Shown(split[1]) : list = <<c>>
    BY <1>3 DEF PerClause
  <2>2. DOMAIN split = {1} /\ DOMAIN list = {1} /\ list[1] = c /\ Len(list) = 1 /\ c \in ShownClauses
    BY <1>1, <1>2, <1>3, <2>1
  <2>3. <<c>> \in Seq(ShownClauses)
    BY <2>2
  <2> QED BY <1>3, <2>1, <2>2, <2>3
<1>4. CASE Len(split) = 2
  <2>1. PICK c \in Shown(split[1]), d \in Shown(split[2]) : list = <<c, d>>
    BY <1>4 DEF PerClause
  <2>2. DOMAIN split = {1, 2} /\ DOMAIN list = {1, 2} /\ list[1] = c /\ list[2] = d /\ Len(list) = 2
        /\ c \in ShownClauses /\ d \in ShownClauses
    BY <1>1, <1>2, <1>4, <2>1
  <2>3. <<c, d>> \in Seq(ShownClauses)
    BY <2>2
  <2> QED BY <1>4, <2>1, <2>2, <2>3
<1> QED BY <1>1, <1>3, <1>4

\* A clause for every part of a split, in the list and in the preedit.
Plain(split) == [i \in DOMAIN split |-> PlainClause(split[i])]
PlainPreedit(split) == [i \in DOMAIN split |-> PlainShown(split[i])]

\* The shapes of an answer.
WithList(r, reading) ==
    \E split \in Splits(reading) : \E list \in PerClause(split, Clauses) : r = Reply(list, <<>>, <<>>, TRUE)
WithPreedit(r, reading) ==
    \E split \in Splits(reading) :
    \E preedit \in PerClause(split, Shown), window \in {<<>>} \cup Offers(split[1]) :
        r = Reply(<<>>, preedit, window, TRUE)
WithDamagedList(r, reading) ==
    \E split \in Splits(reading) : \E n \in DOMAIN split : r = Reply(RemoveAt(Plain(split), n), <<>>, <<>>, FALSE)
WithoutKeys(r, reading) ==
    \E split \in Splits(reading) :
    \E keys \in (SUBSET DOMAIN split) \ {{}}, preedit \in PerClause(split, Shown) :
        r = Reply(Lacking(Plain(split), keys), preedit, <<>>, 1 \notin keys)
WithDamagedPreedit(r, reading) ==
    \E split \in Splits(reading) : \E n \in DOMAIN split, window \in {<<>>} \cup Offers(split[1]) :
        r = Reply(<<>>, RemoveAt(PlainPreedit(split), n), window, FALSE)
WithLongKey(r, reading) == r = Reply(<<PlainClause(Append(reading, Head(reading)))>>, <<>>, <<>>, FALSE)

LEMMA ReplyShapes ==
    ASSUME NEW reading, NEW r \in Replies(reading)
    PROVE  \/ WithList(r, reading) \/ WithPreedit(r, reading) \/ WithDamagedList(r, reading)
           \/ WithoutKeys(r, reading) \/ WithDamagedPreedit(r, reading) \/ WithLongKey(r, reading)
<1> DEFINE ByList(split) == {Reply(list, <<>>, <<>>, TRUE) : list \in PerClause(split, Clauses)}
           Previewed(split) ==
               [list : {<<>>}, preedit : PerClause(split, Shown),
                window : {<<>>} \cup Offers(split[1]), intact : {TRUE}]
           Damaged(split) ==
               {Reply(RemoveAt(Plain(split), n), <<>>, <<>>, FALSE) : n \in DOMAIN split}
           Unplaced(split) ==
               {Reply(Lacking(Plain(split), keys), preedit, <<>>, 1 \notin keys) :
                   keys \in (SUBSET DOMAIN split) \ {{}}, preedit \in PerClause(split, Shown)}
           Misread(split) ==
               {Reply(<<>>, RemoveAt(PlainPreedit(split), n), window, FALSE) :
                   n \in DOMAIN split, window \in {<<>>} \cup Offers(split[1])}
           All(split) == ByList(split) \cup Previewed(split) \cup Damaged(split) \cup Unplaced(split)
                             \cup Misread(split)
           Long == Reply(<<PlainClause(Append(reading, Head(reading)))>>, <<>>, <<>>, FALSE)
<1>1. Replies(reading) = {Long} \cup UNION {All(split) : split \in Splits(reading)}
  BY DEF Replies, Plain, PlainPreedit
<1>2. \/ r = Long
      \/ \E split \in Splits(reading) :
            \/ r \in ByList(split) \/ r \in Previewed(split)
            \/ r \in Damaged(split) \/ r \in Unplaced(split) \/ r \in Misread(split)
  <2>1. r = Long \/ \E split \in Splits(reading) : r \in All(split)
    <3> DEFINE splits == Splits(reading)
    <3> HIDE DEF All, Long, splits
    <3>1. r \in {Long} \cup UNION {All(split) : split \in splits}
      BY <1>1, Zenon DEF splits
    <3>2. r = Long \/ r \in UNION {All(split) : split \in splits}
      BY <3>1, Zenon
    <3>3. r \in UNION {All(split) : split \in splits} => \E split \in splits : r \in All(split)
      BY Zenon
    <3> QED BY <3>2, <3>3, Zenon DEF splits
  <2> HIDE DEF ByList, Previewed, Damaged, Unplaced, Misread, Long
  <2> QED BY <2>1, Zenon
<1>3. ASSUME NEW split, r \in ByList(split)
      PROVE  \E list \in PerClause(split, Clauses) : r = Reply(list, <<>>, <<>>, TRUE)
  BY <1>3, Zenon
<1>4. ASSUME NEW split, r \in Previewed(split)
      PROVE  \E preedit \in PerClause(split, Shown), window \in {<<>>} \cup Offers(split[1]) :
                 r = Reply(<<>>, preedit, window, TRUE)
  <2> DEFINE P == PerClause(split, Shown)
             W == {<<>>} \cup Offers(split[1])
  <2>1. r \in [list : {<<>>}, preedit : P, window : W, intact : {TRUE}]
    BY <1>4
  <2> HIDE DEF P, W
  <2>2. r = Reply(<<>>, r.preedit, r.window, TRUE) /\ r.preedit \in P /\ r.window \in W
    BY <2>1 DEF Reply
  <2>3. \E preedit \in P, window \in W : r = Reply(<<>>, preedit, window, TRUE)
    BY <2>2, Zenon
  <2> QED BY <2>3 DEF P, W
<1>5. ASSUME NEW split, r \in Damaged(split)
      PROVE  \E n \in DOMAIN split : r = Reply(RemoveAt(Plain(split), n), <<>>, <<>>, FALSE)
  BY <1>5, Zenon
<1>6. ASSUME NEW split, r \in Unplaced(split)
      PROVE  \E keys \in (SUBSET DOMAIN split) \ {{}}, preedit \in PerClause(split, Shown) :
                 r = Reply(Lacking(Plain(split), keys), preedit, <<>>, 1 \notin keys)
  <2> DEFINE K == (SUBSET DOMAIN split) \ {{}}
             P == PerClause(split, Shown)
             R(keys, preedit) == Reply(Lacking(Plain(split), keys), preedit, <<>>, 1 \notin keys)
  <2>1. r \in {R(keys, preedit) : keys \in K, preedit \in P}
    BY <1>6
  <2> HIDE DEF K, P, R
  <2>2. \E keys \in K, preedit \in P : r = R(keys, preedit)
    BY <2>1
  <2> QED BY <2>2 DEF K, P, R
<1>7. ASSUME NEW split, r \in Misread(split)
      PROVE  \E n \in DOMAIN split, window \in {<<>>} \cup Offers(split[1]) :
                 r = Reply(<<>>, RemoveAt(PlainPreedit(split), n), window, FALSE)
  <2> DEFINE N == DOMAIN split
             W == {<<>>} \cup Offers(split[1])
             R(n, window) == Reply(<<>>, RemoveAt(PlainPreedit(split), n), window, FALSE)
             made == {R(n, window) : n \in N, window \in W}
  <2>1. Misread(split) = made
    OBVIOUS
  <2> HIDE DEF N, W, R, made, Misread
  <2>2. r \in made
    BY <1>7, <2>1
  <2>3. \E n \in N, window \in W : r = R(n, window)
    BY <2>2 DEF made
  <2> QED BY <2>3 DEF N, W, R
<1> HIDE DEF ByList, Previewed, Damaged, Unplaced, Misread
<1> QED BY ONLY <1>2, <1>3, <1>4, <1>5, <1>6, <1>7
    DEF WithList, WithPreedit, WithDamagedList, WithoutKeys, WithDamagedPreedit, WithLongKey

LEMMA PlainIsClause ==
    ASSUME NEW key \in Seq(Letters)
    PROVE  PlainClause(key) \in ListClauses /\ [PlainClause(key) EXCEPT !.key = <<>>] \in ListClauses
<1>1. InKanji(key) \in Texts
  BY KanjiReads
<1>2. <<InKanji(key)>> \in Seq(Texts) /\ <<>> \in Seq(Letters)
  BY <1>1
<1> QED BY <1>2 DEF PlainClause, ListClauses

LEMMA PlainIs ==
    ASSUME NEW reading \in Seq(Letters), reading # <<>>, NEW split \in Splits(reading)
    PROVE  /\ Plain(split) \in Seq(ListClauses) /\ Len(Plain(split)) = Len(split)
           /\ PlainPreedit(split) \in Seq(ShownClauses) /\ Len(PlainPreedit(split)) = Len(split)
<1>1. DOMAIN split = 1 .. Len(split) /\ Len(split) \in Nat /\ \A i \in DOMAIN split : split[i] \in Seq(Letters)
  BY SplitKeys
<1>2. \A i \in 1 .. Len(split) : PlainClause(split[i]) \in ListClauses
  BY <1>1, PlainIsClause
<1>3. \A i \in 1 .. Len(split) : PlainShown(split[i]) \in ShownClauses
  <2>1. \A key \in Seq(Letters) : PlainShown(key) \in ShownClauses
    BY KanjiReads DEF PlainShown, ShownClauses
  <2> QED BY <1>1, <2>1
<1> QED BY <1>1, <1>2, <1>3 DEF Plain, PlainPreedit

\* The clauses of a list of which some lack their key.
LEMMA LackingIs ==
    ASSUME NEW reading \in Seq(Letters), reading # <<>>, NEW split \in Splits(reading),
           NEW keys \in SUBSET DOMAIN split
    PROVE  LET list == Lacking(Plain(split), keys)
           IN  /\ list \in Seq(ListClauses) /\ Len(list) = Len(split)
               /\ \A i \in DOMAIN split : /\ list[i].key = IF i \in keys THEN <<>> ELSE split[i]
                                          /\ list[i].candidates = <<InKanji(split[i])>>
<1> DEFINE list == Lacking(Plain(split), keys)
<1>1. DOMAIN split = 1 .. Len(split) /\ Len(split) \in Nat /\ \A i \in DOMAIN split : split[i] \in Seq(Letters)
  BY SplitKeys
<1>2. list = [i \in 1 .. Len(split) |-> IF i \in keys THEN [PlainClause(split[i]) EXCEPT !.key = <<>>]
                                        ELSE PlainClause(split[i])]
  BY <1>1 DEF Lacking, Plain
<1>3. \A i \in 1 .. Len(split) : /\ PlainClause(split[i]) \in ListClauses
                                 /\ [PlainClause(split[i]) EXCEPT !.key = <<>>] \in ListClauses
  BY <1>1, PlainIsClause
<1> HIDE DEF list
<1>4. list \in Seq(ListClauses) /\ Len(list) = Len(split)
  BY <1>1, <1>2, <1>3
<1>5. ASSUME NEW i \in DOMAIN split
      PROVE  /\ list[i].key = IF i \in keys THEN <<>> ELSE split[i]
             /\ list[i].candidates = <<InKanji(split[i])>>
  <2>1. list[i] = IF i \in keys THEN [PlainClause(split[i]) EXCEPT !.key = <<>>] ELSE PlainClause(split[i])
    BY <1>1, <1>2
  <2> QED BY <2>1 DEF PlainClause
<1> QED BY <1>4, <1>5 DEF list

\* What is left of a sequence without one of its members.
LEMMA RemovedTyped ==
    ASSUME NEW S, NEW all \in Seq(S), NEW n \in DOMAIN all
    PROVE  RemoveAt(all, n) \in Seq(S)
<1>1. SubSeq(all, 1, n - 1) \in Seq(S) /\ SubSeq(all, n + 1, Len(all)) \in Seq(S)
  OBVIOUS
<1> QED BY <1>1 DEF RemoveAt

LEMMA WindowTyped ==
    ASSUME NEW reading \in Seq(Letters), reading # <<>>, NEW split \in Splits(reading),
           NEW window \in {<<>>} \cup Offers(split[1])
    PROVE  window \in Seq(Texts)
<1>1. split[1] \in Seq(Letters)
  BY SplitKeys
<1>2. \A texts \in Offers(split[1]) : texts \in Seq(Texts)
  <2> DEFINE key == split[1]
  <2> HIDE DEF key
  <2>1. \A texts \in Offers(key) : texts \in Seq(Texts)
    BY <1>1, OfferReads DEF key
  <2> QED BY <2>1 DEF key
<1>3. window \in Seq(Texts)
  <2> DEFINE offers == Offers(split[1])
  <2>1. window \in {<<>>} \cup offers /\ \A texts \in offers : texts \in Seq(Texts)
    BY <1>2
  <2> HIDE DEF offers
  <2>2. window = <<>> => window \in Seq(Texts)
    OBVIOUS
  <2>3. window \in offers => window \in Seq(Texts)
    BY <2>1
  <2>4. window = <<>> \/ window \in offers
    BY <2>1, Zenon
  <2> QED BY <2>2, <2>3, <2>4, Zenon
<1> QED BY <1>3

LEMMA ReplyTyped ==
    ASSUME NEW reading \in Seq(Letters), reading # <<>>, NEW r \in Replies(reading)
    PROVE  r \in ReplySet
<1>1. CASE WithList(r, reading)
  <2>1. PICK split \in Splits(reading) : \E list \in PerClause(split, Clauses) : r = Reply(list, <<>>, <<>>, TRUE)
    BY <1>1 DEF WithList
  <2>2. PICK list \in PerClause(split, Clauses) : r = Reply(list, <<>>, <<>>, TRUE)
    BY <2>1
  <2>3. list \in Seq(ListClauses)
    BY PerClauseLists
  <2> QED BY <2>2, <2>3 DEF Reply, ReplySet
<1>2. CASE WithPreedit(r, reading)
  <2>1. PICK split \in Splits(reading) :
           \E preedit \in PerClause(split, Shown), window \in {<<>>} \cup Offers(split[1]) :
              r = Reply(<<>>, preedit, window, TRUE)
    BY <1>2 DEF WithPreedit
  <2>2. PICK preedit \in PerClause(split, Shown), window \in {<<>>} \cup Offers(split[1]) :
           r = Reply(<<>>, preedit, window, TRUE)
    BY <2>1
  <2>3. preedit \in Seq(ShownClauses) /\ window \in Seq(Texts)
    BY PerClauseShown, WindowTyped
  <2> QED BY <2>2, <2>3 DEF Reply, ReplySet
<1>3. CASE WithDamagedList(r, reading)
  <2>1. PICK split \in Splits(reading) : \E n \in DOMAIN split : r = Reply(RemoveAt(Plain(split), n), <<>>, <<>>, FALSE)
    BY <1>3 DEF WithDamagedList
  <2>2. PICK n \in DOMAIN split : r = Reply(RemoveAt(Plain(split), n), <<>>, <<>>, FALSE)
    BY <2>1
  <2>3. Plain(split) \in Seq(ListClauses) /\ n \in DOMAIN Plain(split)
    BY PlainIs DEF Plain
  <2>4. RemoveAt(Plain(split), n) \in Seq(ListClauses)
    BY <2>3, RemovedTyped
  <2> QED BY <2>2, <2>4 DEF Reply, ReplySet
<1>4. CASE WithoutKeys(r, reading)
  <2>1. PICK split \in Splits(reading) :
           \E keys \in (SUBSET DOMAIN split) \ {{}}, preedit \in PerClause(split, Shown) :
              r = Reply(Lacking(Plain(split), keys), preedit, <<>>, 1 \notin keys)
    BY <1>4 DEF WithoutKeys
  <2>2. PICK keys \in (SUBSET DOMAIN split) \ {{}}, preedit \in PerClause(split, Shown) :
           r = Reply(Lacking(Plain(split), keys), preedit, <<>>, 1 \notin keys)
    BY <2>1
  <2>3. preedit \in Seq(ShownClauses)
    BY PerClauseShown
  <2>4. Lacking(Plain(split), keys) \in Seq(ListClauses)
    BY LackingIs
  <2> QED BY <2>2, <2>3, <2>4 DEF Reply, ReplySet
<1>5. CASE WithDamagedPreedit(r, reading)
  <2>1. PICK split \in Splits(reading) : \E n \in DOMAIN split, window \in {<<>>} \cup Offers(split[1]) :
           r = Reply(<<>>, RemoveAt(PlainPreedit(split), n), window, FALSE)
    BY <1>5 DEF WithDamagedPreedit
  <2>2. PICK n \in DOMAIN split, window \in {<<>>} \cup Offers(split[1]) :
           r = Reply(<<>>, RemoveAt(PlainPreedit(split), n), window, FALSE)
    BY <2>1
  <2>3. PlainPreedit(split) \in Seq(ShownClauses) /\ n \in DOMAIN PlainPreedit(split)
    BY PlainIs DEF PlainPreedit
  <2>4. RemoveAt(PlainPreedit(split), n) \in Seq(ShownClauses)
    BY <2>3, RemovedTyped
  <2>5. window \in Seq(Texts)
    BY WindowTyped
  <2> QED BY <2>2, <2>4, <2>5 DEF Reply, ReplySet
<1>6. CASE WithLongKey(r, reading)
  <2>1. Append(reading, Head(reading)) \in Seq(Letters)
    OBVIOUS
  <2>2. PlainClause(Append(reading, Head(reading))) \in ListClauses
    BY <2>1, PlainIsClause
  <2> DEFINE clause == PlainClause(Append(reading, Head(reading)))
  <2> HIDE DEF clause
  <2>3. <<clause>> \in Seq(ListClauses)
    BY <2>2 DEF clause
  <2> QED BY <1>6, <2>3 DEF WithLongKey, Reply, ReplySet, clause
<1> QED BY <1>1, <1>2, <1>3, <1>4, <1>5, <1>6, ReplyShapes

LEMMA DistinctReads ==
    ASSUME NEW texts \in Seq(Texts)
    PROVE  /\ Distinct(texts) \in Seq(Texts)
           /\ \A key : (\A i \in DOMAIN texts : ReadingOf(texts[i]) = key)
                => \A i \in DOMAIN Distinct(texts) : ReadingOf(Distinct(texts)[i]) = key
<1>1. texts \in Seq(Seq(Chars))
  BY DEF Texts
<1>2. /\ Distinct(texts) \in Seq(Seq(Chars))
      /\ \A i \in DOMAIN Distinct(texts) : \E j \in DOMAIN texts : Distinct(texts)[i] = texts[j]
  BY <1>1, DistinctKeeps
<1> QED BY <1>2 DEF Texts

\* The segments stand for the parts of a split.
ReadAs(segments, split) ==
    /\ segments \in Seq(Segments) /\ Len(segments) = Len(split)
    /\ \A i \in DOMAIN split : ReadingOf(segments[i].surface) = split[i]

\* What is placed for the clauses of a split, one value for each, reads as the split.
LEMMA PlacedReadsAs ==
    ASSUME NEW reading \in Seq(Letters), reading # <<>>, NEW split \in Splits(reading),
           NEW values \in Seq(Texts), Len(values) = Len(split),
           \A i \in DOMAIN split : ReadingOf(values[i]) = split[i],
           NEW c \in [0 .. Len(split) -> Placed(reading)], c[0] = <<>>,
           \A k \in 1 .. Len(split) : c[k] = PlaceClause(reading, c[k - 1], split[k], values[k])
    PROVE  ReadAs(WithRest(reading, c[Len(split)]), split) /\ WithRest(reading, c[Len(split)]) # <<>>
<1>1. /\ Len(split) \in {1, 2} /\ DOMAIN split = 1 .. Len(split)
      /\ \A i \in DOMAIN split : split[i] \in Seq(Letters) /\ split[i] # <<>>
      /\ Len(split) = 1 => split = <<reading>>
      /\ Len(split) = 2 => split[1] \o split[2] = reading
  BY SplitIs
<1>2. c[Len(split)] \in Placed(reading)
  BY <1>1
<1> DEFINE last == c[Len(split)]
<1>3. ASSUME EndOf(last) = Len(reading) PROVE WithRest(reading, last) = last
  <2> HIDE DEF last
  <2> QED BY <1>2, <1>3, WithRestTiles DEF last
<1>4. CASE Len(split) = 1
  <2> DEFINE v == values[1]
             s == [start |-> 0, length |-> Len(reading), surface |-> v]
  <2>1. v \in Texts /\ split[1] = reading /\ ReadingOf(v) = split[1]
    BY SMTT(30), <1>1, <1>4
  <2>2. last = PlaceClause(reading, <<>>, reading, v)
    BY <1>1, <1>4
  <2>3. last = <<s>> /\ EndOf(last) = Len(reading)
    <3> HIDE DEF v, last
    <3> QED BY <2>1, <2>2, PlacedOne
  <2>4. s \in Segments /\ s.surface = v
    <3> HIDE DEF v
    <3> QED BY <2>1 DEF Segments
  <2>5. WithRest(reading, last) = <<s>>
    BY <1>3, <2>3
  <2> HIDE DEF s, last, v
  <2>6. <<s>> \in Seq(Segments) /\ Len(<<s>>) = 1 /\ <<s>>[1] = s /\ <<s>> # <<>>
    BY <2>4
  <2>7. DOMAIN split = {1}
    BY <1>1, <1>4
  <2> QED BY <1>4, <2>1, <2>4, <2>5, <2>6, <2>7 DEF ReadAs, last
<1>5. CASE Len(split) = 2
  <2> DEFINE k == split[1]
             l == split[2]
             v == values[1]
             w == values[2]
             s == [start |-> 0, length |-> Len(k), surface |-> v]
             t == [start |-> Len(k), length |-> Len(l), surface |-> w]
  <2>0. 1 \in DOMAIN split /\ 2 \in DOMAIN split /\ DOMAIN split = {1, 2} /\ 1 \in DOMAIN values /\ 2 \in DOMAIN values
    BY <1>1, <1>5
  <2>1. /\ v \in Texts /\ w \in Texts /\ ReadingOf(v) = k /\ ReadingOf(w) = l
        /\ k \in Seq(Letters) /\ l \in Seq(Letters) /\ k # <<>> /\ l # <<>> /\ k \o l = reading
    <3>1. v \in Texts /\ w \in Texts
      BY <2>0
    <3>2. ReadingOf(v) = k /\ ReadingOf(w) = l
      BY <2>0
    <3> QED BY <1>1, <1>5, <2>0, <3>1, <3>2
  <2>2. last = PlaceClause(reading, PlaceClause(reading, <<>>, k, v), l, w)
    <3>1. c[1] = PlaceClause(reading, c[1 - 1], split[1], values[1])
      BY <1>5
    <3>2. c[2] = PlaceClause(reading, c[2 - 1], split[2], values[2])
      BY <1>5
    <3> QED BY <1>5, <3>1, <3>2
  <2>3. last = <<s, t>> /\ EndOf(last) = Len(reading)
    <3> DEFINE p == PlaceClause(reading, PlaceClause(reading, <<>>, k, v), l, w)
    <3> HIDE DEF k, l, v, w, last
    <3>1. p = << [start |-> 0, length |-> Len(k), surface |-> v],
                 [start |-> Len(k), length |-> Len(l), surface |-> w] >>
          /\ EndOf(p) = Len(reading)
      <4>1. TwoParts(reading, k, l, v, w)
        BY <2>1 DEF TwoParts
      <4> QED BY <4>1, PlacedTwo
    <3> QED BY <2>2, <3>1
  <2>4. s \in Segments /\ t \in Segments /\ s.surface = v /\ t.surface = w
    <3> HIDE DEF k, l, v, w
    <3>1. Len(k) \in Nat /\ Len(l) \in Nat
      BY <2>1
    <3> QED BY <2>1, <3>1 DEF Segments
  <2>5. WithRest(reading, last) = <<s, t>>
    BY <1>3, <2>3
  <2> HIDE DEF s, t, last, v, w, k, l
  <2> DEFINE both == <<s, t>>
  <2>6. both \in Seq(Segments) /\ Len(both) = 2 /\ both[1] = s /\ both[2] = t /\ both # <<>>
    BY <2>4
  <2>7. WithRest(reading, last) = both
    BY <2>5
  <2> HIDE DEF both
  <2>8. \A i \in DOMAIN split : ReadingOf(both[i].surface) = split[i]
    <3>1. ReadingOf(both[1].surface) = split[1] /\ ReadingOf(both[2].surface) = split[2]
      BY <2>1, <2>4, <2>6 DEF k, l
    <3> QED BY <2>0, <3>1
  <2> QED BY <1>5, <2>6, <2>7, <2>8 DEF ReadAs, last
<1> QED BY <1>1, <1>4, <1>5

\* Whatever was decoded: what is built of it is typed, and tiles the reading.
LEMMA BuiltTiles ==
    ASSUME NEW reading \in Seq(Letters)
    PROVE  /\ \A list \in Seq(ListClauses) :
                 LET segments == BuildSegmentsFromCandidateList(list, reading)
                 IN  segments \in Seq(Segments) /\ (segments # <<>> => Tiles(segments, reading))
           /\ \A preedit \in Seq(ShownClauses) :
                 LET segments == BuildSegmentsFromPreedit(preedit, reading)
                 IN  segments \in Seq(Segments) /\ (segments # <<>> => Tiles(segments, reading))
<1>1. ASSUME NEW list \in Seq(ListClauses)
      PROVE  LET segments == BuildSegmentsFromCandidateList(list, reading)
             IN  segments \in Seq(Segments) /\ (segments # <<>> => Tiles(segments, reading))
  <2>1. CASE list = <<>>
    BY <2>1 DEF BuildSegmentsFromCandidateList
  <2>2. CASE list # <<>>
    <3>1. PICK c \in [0 .. Len(list) -> Placed(reading)] :
             BuildSegmentsFromCandidateList(list, reading) = WithRest(reading, c[Len(list)])
      BY <2>2, ListChain
    <3>2. c[Len(list)] \in Placed(reading)
      OBVIOUS
    <3> QED BY <3>1, <3>2, WithRestTiles
  <2> QED BY <2>1, <2>2
<1>2. ASSUME NEW preedit \in Seq(ShownClauses)
      PROVE  LET segments == BuildSegmentsFromPreedit(preedit, reading)
             IN  segments \in Seq(Segments) /\ (segments # <<>> => Tiles(segments, reading))
  <2>1. CASE preedit = <<>>
    BY <2>1 DEF BuildSegmentsFromPreedit
  <2>2. CASE preedit # <<>>
    <3>1. PICK c \in [0 .. Len(preedit) -> Placed(reading)] :
             BuildSegmentsFromPreedit(preedit, reading) = WithRest(reading, c[Len(preedit)])
      BY <2>2, PreeditChain
    <3>2. c[Len(preedit)] \in Placed(reading)
      OBVIOUS
    <3> QED BY <3>1, <3>2, WithRestTiles
  <2> QED BY <2>1, <2>2
<1> QED BY <1>1, <1>2

LEMMA ListReads ==
    ASSUME NEW reading \in Seq(Letters), reading # <<>>, NEW split \in Splits(reading),
           NEW list \in PerClause(split, Clauses)
    PROVE  LET segments == BuildSegmentsFromCandidateList(list, reading)
           IN  ReadAs(segments, split) /\ segments # <<>>
<1>1. /\ list \in Seq(ListClauses) /\ Len(list) = Len(split) /\ DOMAIN list = DOMAIN split
      /\ \A i \in DOMAIN split : list[i] \in Clauses(split[i])
  BY PerClauseLists
<1>2. /\ Len(split) \in Nat /\ DOMAIN split = 1 .. Len(split)
      /\ \A i \in DOMAIN split : split[i] \in Seq(Letters)
  BY SplitKeys
<1>3. PICK c \in [0 .. Len(list) -> Placed(reading)] :
         /\ c[0] = <<>> /\ BuildSegmentsFromCandidateList(list, reading) = WithRest(reading, c[Len(list)])
         /\ \A k \in 1 .. Len(list) :
               c[k] = PlaceClause(reading, c[k - 1], list[k].key, PickSegmentFocusedValue(list[k]))
  <2>1. list # <<>>
    BY <1>1, SplitKeys
  <2> QED BY <1>1, <2>1, ListChain
<1> DEFINE values == [i \in 1 .. Len(split) |-> PickSegmentFocusedValue(list[i])]
<1>4. \A i \in DOMAIN split : list[i].key = split[i] /\ ReadingOf(PickSegmentFocusedValue(list[i])) = split[i]
  BY <1>1, <1>2, ClauseReads
<1>5. \A i \in 1 .. Len(split) : PickSegmentFocusedValue(list[i]) \in Texts
  <2> SUFFICES ASSUME NEW i \in 1 .. Len(split) PROVE PickSegmentFocusedValue(list[i]) \in Texts
    OBVIOUS
  <2>1. list[i] \in ListClauses
    BY <1>1, <1>2
  <2> QED BY <2>1, PickIsText
<1>6. values \in Seq(Texts) /\ Len(values) = Len(split) /\ \A i \in DOMAIN split : ReadingOf(values[i]) = split[i]
  BY <1>2, <1>4, <1>5
<1>7. /\ c \in [0 .. Len(split) -> Placed(reading)]
      /\ \A k \in 1 .. Len(split) : c[k] = PlaceClause(reading, c[k - 1], split[k], values[k])
  BY <1>1, <1>2, <1>3, <1>4
<1> HIDE DEF values
<1>8. ReadAs(WithRest(reading, c[Len(split)]), split) /\ WithRest(reading, c[Len(split)]) # <<>>
  BY <1>3, <1>6, <1>7, PlacedReadsAs
<1> QED BY <1>1, <1>3, <1>8

LEMMA PreeditReads ==
    ASSUME NEW reading \in Seq(Letters), reading # <<>>, NEW split \in Splits(reading),
           NEW preedit \in PerClause(split, Shown)
    PROVE  LET segments == BuildSegmentsFromPreedit(preedit, reading)
           IN  ReadAs(segments, split) /\ segments # <<>>
<1>1. /\ preedit \in Seq(ShownClauses) /\ Len(preedit) = Len(split) /\ DOMAIN preedit = DOMAIN split
      /\ \A i \in DOMAIN split : preedit[i] \in Shown(split[i])
  BY PerClauseShown
<1>2. /\ Len(split) \in Nat /\ DOMAIN split = 1 .. Len(split)
      /\ \A i \in DOMAIN split : split[i] \in Seq(Letters)
  BY SplitKeys
<1>3. PICK c \in [0 .. Len(preedit) -> Placed(reading)] :
         /\ c[0] = <<>> /\ BuildSegmentsFromPreedit(preedit, reading) = WithRest(reading, c[Len(preedit)])
         /\ \A k \in 1 .. Len(preedit) : c[k] = PlaceClause(reading, c[k - 1], preedit[k].key, preedit[k].value)
  <2>1. preedit # <<>>
    BY <1>1, SplitKeys
  <2> QED BY <1>1, <2>1, PreeditChain
<1> DEFINE values == [i \in 1 .. Len(split) |-> preedit[i].value]
<1>4. \A i \in DOMAIN split : preedit[i].key = split[i] /\ ReadingOf(preedit[i].value) = split[i]
  BY <1>1, <1>2, ShownReads
<1>5. \A i \in 1 .. Len(split) : preedit[i].value \in Texts
  <2> SUFFICES ASSUME NEW i \in 1 .. Len(split) PROVE preedit[i].value \in Texts
    OBVIOUS
  <2>1. preedit[i] \in ShownClauses
    BY <1>1, <1>2
  <2> QED BY <2>1 DEF ShownClauses
<1>6. values \in Seq(Texts) /\ Len(values) = Len(split) /\ \A i \in DOMAIN split : ReadingOf(values[i]) = split[i]
  BY <1>2, <1>4, <1>5
<1>7. /\ c \in [0 .. Len(split) -> Placed(reading)]
      /\ \A k \in 1 .. Len(split) : c[k] = PlaceClause(reading, c[k - 1], split[k], values[k])
  BY <1>1, <1>2, <1>3, <1>4
<1> HIDE DEF values
<1>8. ReadAs(WithRest(reading, c[Len(split)]), split) /\ WithRest(reading, c[Len(split)]) # <<>>
  BY <1>3, <1>6, <1>7, PlacedReadsAs
<1> QED BY <1>1, <1>3, <1>8

\* Without the key of its second clause, a list of two clauses reads as the split
\* all the same: what the first clause leaves becomes the rest.
LEMMA LackingReads ==
    ASSUME NEW reading \in Seq(Letters), reading # <<>>, NEW split \in Splits(reading),
           NEW keys \in SUBSET DOMAIN split, keys # {}, 1 \notin keys
    PROVE  LET segments == BuildSegmentsFromCandidateList(Lacking(Plain(split), keys), reading)
           IN  ReadAs(segments, split) /\ segments # <<>>
<1>1. /\ Len(split) = 2 /\ DOMAIN split = {1, 2} /\ keys = {2}
      /\ split[1] \in Seq(Letters) /\ split[1] # <<>> /\ split[2] \in Seq(Letters) /\ split[2] # <<>>
      /\ split[1] \o split[2] = reading
  <2>1. /\ Len(split) \in {1, 2} /\ DOMAIN split = 1 .. Len(split)
        /\ \A i \in DOMAIN split : split[i] \in Seq(Letters) /\ split[i] # <<>>
        /\ Len(split) = 2 => split[1] \o split[2] = reading
    BY SplitIs
  <2>2. PICK i \in keys : i # 1 /\ i \in 1 .. Len(split)
    BY <2>1
  <2>3. Len(split) = 2
    BY <2>1, <2>2
  <2>4. DOMAIN split = {1, 2}
    BY <2>1, <2>3
  <2>5. keys = {2}
    BY <2>2, <2>4
  <2>6. 1 \in DOMAIN split /\ 2 \in DOMAIN split
    BY <2>4
  <2> QED BY <2>1, <2>3, <2>4, <2>5, <2>6
<1> DEFINE list == Lacking(Plain(split), keys)
           k == split[1]
           l == split[2]
           v == PickSegmentFocusedValue(list[1])
           w == PickSegmentFocusedValue(list[2])
           s == [start |-> 0, length |-> Len(k), surface |-> v]
           t == [start |-> Len(k), length |-> Len(l), surface |-> InKana(l)]
<1>2. list \in Seq(ListClauses) /\ Len(list) = 2 /\ list # <<>> /\ list[1].key = k /\ list[2].key = <<>>
      /\ list[1] \in ListClauses /\ list[2] \in ListClauses /\ list[1].candidates = <<InKanji(k)>>
  <2>1. /\ list \in Seq(ListClauses) /\ Len(list) = Len(split)
        /\ \A i \in DOMAIN split : /\ list[i].key = IF i \in keys THEN <<>> ELSE split[i]
                                   /\ list[i].candidates = <<InKanji(split[i])>>
    BY LackingIs, Zenon
  <2> HIDE DEF list, k, l
  <2>2. 1 \in DOMAIN split /\ 2 \in DOMAIN split
    BY <1>1
  <2>3. list[1] \in ListClauses /\ list[2] \in ListClauses /\ list # <<>>
    <3>1. Len(list) = 2
      BY <1>1, <2>1
    <3>2. list \in Seq(ListClauses)
      BY <2>1
    <3>3. \A i \in 1 .. Len(list) : list[i] \in ListClauses
      BY <3>2
    <3>4. 1 \in 1 .. Len(list) /\ 2 \in 1 .. Len(list)
      BY <3>1
    <3>5. list # <<>>
      <4>1. ASSUME list = <<>> PROVE FALSE
        <5>1. Len(list) = Len(<<>>)
          BY <4>1, Zenon
        <5> QED BY <3>1, <5>1
      <4> QED BY <4>1
    <3> QED BY <3>3, <3>4, <3>5
  <2>4. 1 \notin keys /\ 2 \in keys
    BY <1>1
  <2>5. list[1].key = k /\ list[2].key = <<>> /\ list[1].candidates = <<InKanji(k)>>
    BY <2>1, <2>2, <2>4, Zenon DEF k
  <2> QED BY <1>1, <2>1, <2>3, <2>5
<1> HIDE DEF list
<1>3. v \in Texts /\ ReadingOf(v) = k
  <2> DEFINE clause == list[1]
  <2>0. clause \in ListClauses /\ clause.candidates # <<>>
    BY <1>2
  <2>1. v \in Texts /\ FocusedOf(list[1]) \in Range(list[1].candidates)
    <3> HIDE DEF clause
    <3>1. PickSegmentFocusedValue(clause) \in Texts /\ FocusedOf(clause) \in Range(clause.candidates)
      BY <2>0, PickIsText
    <3> QED BY <3>1 DEF clause
  <2>2. v = FocusedOf(list[1])
    BY <1>2 DEF PickSegmentFocusedValue
  <2>3. Range(<<InKanji(k)>>) = {InKanji(k)}
    BY DEF Range
  <2>4. v = InKanji(k)
    BY <1>2, <2>1, <2>2, <2>3
  <2> QED BY <1>1, <2>1, <2>4, KanjiReads
<1> HIDE DEF k, l, v
<1>4. PICK c \in [0 .. Len(list) -> Placed(reading)] :
         /\ c[0] = <<>> /\ BuildSegmentsFromCandidateList(list, reading) = WithRest(reading, c[Len(list)])
         /\ \A i \in 1 .. Len(list) :
               c[i] = PlaceClause(reading, c[i - 1], list[i].key, PickSegmentFocusedValue(list[i]))
  BY <1>2, ListChain
<1>5. c[1] = PlaceClause(reading, <<>>, k, v) /\ c[2] = PlaceClause(reading, c[1], <<>>, w)
  <2>1. c[1] = PlaceClause(reading, c[1 - 1], list[1].key, PickSegmentFocusedValue(list[1]))
    BY <1>2, <1>4
  <2>2. c[2] = PlaceClause(reading, c[2 - 1], list[2].key, PickSegmentFocusedValue(list[2]))
    BY <1>2, <1>4
  <2> QED BY <1>2, <1>4, <2>1, <2>2 DEF v
<1>6. c[2] = c[1]
  BY <1>5 DEF PlaceClause
<1>7. /\ k \in Seq(Letters) /\ l \in Seq(Letters) /\ k # <<>> /\ l # <<>> /\ k \o l = reading
      /\ Len(k) \in Nat /\ Len(l) \in Nat /\ Len(k) > 0 /\ Len(l) > 0 /\ Len(reading) = Len(k) + Len(l)
  <2>1. k \in Seq(Letters) /\ l \in Seq(Letters) /\ k # <<>> /\ l # <<>> /\ k \o l = reading
    BY <1>1 DEF k, l
  <2> QED BY <2>1
<1>8. s \in Segments /\ s.start + s.length = Len(k) /\ s.surface = v
  BY <1>3, <1>7 DEF Segments
<1>9. c[1] = <<s>>
  <2> DEFINE none == <<>>
  <2>1. none \in Seq(Segments) /\ EndOf(none) = 0 /\ EndOf(none) + Len(k) <= Len(reading)
    BY <1>7 DEF EndOf
  <2> HIDE DEF none
  <2>2. PlaceClause(reading, none, k, v) =
            Append(none, [start |-> EndOf(none), length |-> Len(k), surface |-> v])
    BY <1>3, <1>7, <2>1, TakesItsKey
  <2>3. PlaceClause(reading, <<>>, k, v) = Append(<<>>, s)
    BY <2>1, <2>2 DEF none
  <2> HIDE DEF s
  <2> QED BY <1>5, <2>3
<1>10. EndOf(<<s>>) = Len(k)
  <2> HIDE DEF s
  <2>1. <<s>> = Append(<<>>, s) /\ <<>> \in Seq(Segments)
    OBVIOUS
  <2> QED BY <1>8, <2>1, EndOfIs
<1>11. RestOf(reading, Len(k)) = t
  <2> DEFINE rest == Stretch(reading, Len(k), Len(reading) - Len(k))
  <2>1. rest = SubSeq(k \o l, Len(k) + 1, Len(k) + Len(l))
    BY <1>7 DEF Stretch
  <2>2. SubSeq(k \o l, Len(k) + 1, Len(k) + Len(l)) = l
    BY <1>7
  <2>3. rest = l
    BY <2>1, <2>2
  <2> HIDE DEF rest
  <2> QED BY <2>3 DEF RestOf, rest
<1>12. t \in Segments /\ t.surface = InKana(l) /\ ReadingOf(InKana(l)) = l
  BY <1>7, KanaReads DEF Segments
<1>13. WithRest(reading, c[2]) = Append(<<s>>, t)
  <2> DEFINE one == <<s>>
  <2>1. one \in Placed(reading) /\ c[2] = one
    BY <1>2, <1>4, <1>6, <1>9
  <2>2. EndOf(one) = Len(k) /\ EndOf(one) # Len(reading)
    BY <1>7, <1>10
  <2> HIDE DEF one, t
  <2>3. WithRest(reading, one) = Append(one, RestOf(reading, EndOf(one)))
    BY <2>1, <2>2, WithRestTiles
  <2> QED BY <1>11, <2>1, <2>2, <2>3 DEF one
<1> HIDE DEF s, t
<1> DEFINE both == Append(<<s>>, t)
<1>14. both \in Seq(Segments) /\ Len(both) = 2 /\ both[1] = s /\ both[2] = t /\ both # <<>>
  BY <1>8, <1>12
<1>15. BuildSegmentsFromCandidateList(list, reading) = both
  BY <1>2, <1>4, <1>13
<1> HIDE DEF both
<1>16. \A i \in DOMAIN split : ReadingOf(both[i].surface) = split[i]
  BY <1>1, <1>3, <1>8, <1>12, <1>14 DEF k, l
<1> QED BY <1>1, <1>14, <1>15, <1>16 DEF ReadAs, list

LEMMA NothingBuilt ==
    ASSUME NEW reading \in Seq(Letters)
    PROVE  /\ BuildSegmentsFromCandidateList(<<>>, reading) = <<>>
           /\ BuildSegmentsFromPreedit(<<>>, reading) = <<>>
BY DEF BuildSegmentsFromCandidateList, BuildSegmentsFromPreedit

LEMMA PrimaryTyped ==
    ASSUME NEW list \in Seq(ListClauses)
    PROVE  /\ ExtractPrimarySegmentCandidates(list) \in Seq(Texts)
           /\ \A key : list # <<>> /\ Head(list).candidates # <<>>
                       /\ (\A i \in DOMAIN Head(list).candidates : ReadingOf(Head(list).candidates[i]) = key)
                => \A i \in DOMAIN ExtractPrimarySegmentCandidates(list) :
                      ReadingOf(ExtractPrimarySegmentCandidates(list)[i]) = key
<1>1. CASE list = <<>>
  <2>1. <<>> \in Seq(Texts)
    OBVIOUS
  <2> QED BY <1>1, <2>1 DEF ExtractPrimarySegmentCandidates
<1>2. CASE list # <<>>
  <2> DEFINE h == Head(list)
             all == <<FocusedOf(h)>> \o h.candidates
             kana == <<InKana(h.key)>>
  <2>1. h \in ListClauses
    BY <1>2
  <2> HIDE DEF h
  <2>2. h.candidates \in Seq(Texts) /\ h.key \in Seq(Letters)
    BY <2>1 DEF ListClauses
  <2>3. kana \in Seq(Texts)
    <3>1. InKana(h.key) \in Texts
      BY <2>2, KanaReads
    <3> QED BY <3>1
  <2>4. ASSUME h.candidates # <<>>
        PROVE  /\ all \in Seq(Texts) /\ DOMAIN all = 1 .. Len(h.candidates) + 1
               /\ \A i \in DOMAIN all : \E j \in DOMAIN h.candidates : all[i] = h.candidates[j]
    <3> DEFINE f == FocusedOf(h)
               one == <<f>>
               cs == h.candidates
    <3>1. PICK j \in DOMAIN cs : f = cs[j]
      BY <2>1, <2>4, PickIsText DEF Range
    <3>2. cs \in Seq(Texts) /\ f \in Texts /\ DOMAIN cs = 1 .. Len(cs) /\ Len(cs) \in Nat
      BY <2>2, <3>1
    <3> HIDE DEF f, cs
    <3>3. one \in Seq(Texts) /\ Len(one) = 1 /\ one[1] = f
      BY <3>2
    <3> HIDE DEF one
    <3> DEFINE joined == one \o cs
    <3>4. /\ joined \in Seq(Texts) /\ Len(joined) = Len(cs) + 1 /\ joined[1] = one[1]
          /\ \A i \in 1 .. Len(cs) + 1 : i # 1 => joined[i] = cs[i - 1]
      <4>1. /\ one \o cs \in Seq(Texts) /\ Len(one \o cs) = Len(one) + Len(cs)
            /\ \A i \in 1 .. Len(one) + Len(cs) :
                  (one \o cs)[i] = IF i <= Len(one) THEN one[i] ELSE cs[i - Len(one)]
        BY <3>2, <3>3, ConcatProperties
      <4> QED BY <3>2, <3>3, <4>1
    <3> HIDE DEF joined
    <3>5. DOMAIN joined = 1 .. Len(cs) + 1
      BY <3>2, <3>4
    <3>6. ASSUME NEW i \in 1 .. Len(cs) + 1 PROVE \E m \in DOMAIN cs : joined[i] = cs[m]
      <4>1. CASE i = 1
        BY <3>1, <3>3, <3>4, <4>1
      <4>2. CASE i # 1
        <5>1. i - 1 \in DOMAIN cs
          BY <3>2, <4>2
        <5> QED BY <3>4, <4>2, <5>1
      <4> QED BY <4>1, <4>2
    <3>7. all = joined
      BY DEF joined, one, f, cs
    <3> QED BY <3>4, <3>5, <3>6, <3>7 DEF cs
  <2>5. ExtractPrimarySegmentCandidates(list) = IF h.candidates # <<>> THEN Distinct(all) ELSE Distinct(kana)
    BY <1>2 DEF ExtractPrimarySegmentCandidates, h
  <2> HIDE DEF all, kana
  <2>6. ExtractPrimarySegmentCandidates(list) \in Seq(Texts)
    <3>1. CASE h.candidates # <<>>
      <4>1. Distinct(all) \in Seq(Texts)
        BY <2>4, <3>1, DistinctReads
      <4> QED BY <2>5, <3>1, <4>1
    <3>2. CASE h.candidates = <<>>
      <4>1. Distinct(kana) \in Seq(Texts)
        BY <2>3, DistinctReads
      <4> QED BY <2>5, <3>2, <4>1
    <3> QED BY <3>1, <3>2
  <2>7. ASSUME NEW key, h.candidates # <<>>, \A i \in DOMAIN h.candidates : ReadingOf(h.candidates[i]) = key
        PROVE  \A i \in DOMAIN ExtractPrimarySegmentCandidates(list) :
                  ReadingOf(ExtractPrimarySegmentCandidates(list)[i]) = key
    <3>1. \A i \in DOMAIN all : ReadingOf(all[i]) = key
      BY <2>4, <2>7
    <3>2. \A i \in DOMAIN Distinct(all) : ReadingOf(Distinct(all)[i]) = key
      BY <2>4, <2>7, <3>1, DistinctReads
    <3> QED BY <2>5, <2>7, <3>2
  <2> QED BY <2>6, <2>7 DEF h
<1> QED BY <1>1, <1>2

\* What Convert makes of an answer.
SegmentsOf(r, reading) ==
    IF BuildSegmentsFromCandidateList(r.list, reading) # <<>>
    THEN BuildSegmentsFromCandidateList(r.list, reading)
    ELSE BuildSegmentsFromPreedit(r.preedit, reading)
CandidatesOf(r) ==
    IF ExtractPrimarySegmentCandidates(r.list) # <<>> THEN ExtractPrimarySegmentCandidates(r.list)
    ELSE Distinct(r.window)

LEMMA DistinctFull ==
    ASSUME NEW texts \in Seq(Texts)
    PROVE  /\ \A i \in DOMAIN Distinct(texts) : Distinct(texts)[i] # <<>>
           /\ (\E j \in DOMAIN texts : texts[j] # <<>>) => Distinct(texts) # <<>>
<1>1. texts \in Seq(Seq(Chars))
  BY DEF Texts
<1>2. /\ \A i \in DOMAIN Distinct(texts) : Distinct(texts)[i] # <<>>
      /\ \A j \in DOMAIN texts : texts[j] # <<>> =>
            \E i \in DOMAIN Distinct(texts) : Distinct(texts)[i] = texts[j]
  BY <1>1, DistinctKeeps
<1> QED BY <1>2

LEMMA PrimaryFull ==
    ASSUME NEW list \in Seq(ListClauses)
    PROVE  \A i \in DOMAIN ExtractPrimarySegmentCandidates(list) :
              ExtractPrimarySegmentCandidates(list)[i] # <<>>
<1>1. CASE list = <<>>
  BY <1>1 DEF ExtractPrimarySegmentCandidates
<1>2. CASE list # <<>>
  <2> DEFINE h == Head(list)
             all == <<FocusedOf(h)>> \o h.candidates
             kana == <<InKana(h.key)>>
  <2>1. h \in ListClauses
    BY <1>2
  <2>2. ExtractPrimarySegmentCandidates(list) = IF h.candidates # <<>> THEN Distinct(all) ELSE Distinct(kana)
    BY <1>2 DEF ExtractPrimarySegmentCandidates
  <2> HIDE DEF h
  <2>3. h.candidates \in Seq(Texts) /\ h.key \in Seq(Letters)
    BY <2>1 DEF ListClauses
  <2>4. CASE h.candidates # <<>>
    <3> DEFINE f == FocusedOf(h)
               cs == h.candidates
    <3>1. f \in Texts /\ cs \in Seq(Texts)
      <4>1. \A t \in Range(h.candidates) : t \in Texts
        BY <2>3 DEF Range
      <4> QED BY <2>1, <2>3, <2>4, <4>1, PickIsText
    <3> HIDE DEF f, cs
    <3>2. <<f>> \o cs \in Seq(Texts)
      BY <3>1
    <3>3. all \in Seq(Texts)
      BY <3>2 DEF f, cs
    <3> HIDE DEF all
    <3> QED BY <2>2, <2>4, <3>3, DistinctFull
  <2>5. CASE h.candidates = <<>>
    <3>1. InKana(h.key) \in Texts
      BY <2>3, KanaReads
    <3>2. kana \in Seq(Texts)
      BY <3>1
    <3> HIDE DEF kana
    <3> QED BY <2>2, <2>5, <3>2, DistinctFull
  <2> QED BY <2>4, <2>5
<1> QED BY <1>1, <1>2

LEMMA ConvertedTyped ==
    ASSUME NEW reading \in Seq(Letters), reading # <<>>, NEW r \in Replies(reading)
    PROVE  /\ SegmentsOf(r, reading) \in Seq(Segments)
           /\ SegmentsOf(r, reading) # <<>> => Tiles(SegmentsOf(r, reading), reading)
           /\ CandidatesOf(r) \in Seq(Texts)
           /\ \A i \in DOMAIN CandidatesOf(r) : CandidatesOf(r)[i] # <<>>
           /\ r.intact \in BOOLEAN
<1>1. r.list \in Seq(ListClauses) /\ r.preedit \in Seq(ShownClauses) /\ r.window \in Seq(Texts) /\ r.intact \in BOOLEAN
  BY ReplyTyped DEF ReplySet
<1> DEFINE list == r.list
           preedit == r.preedit
           window == r.window
<1>2. list \in Seq(ListClauses) /\ preedit \in Seq(ShownClauses) /\ window \in Seq(Texts)
  BY <1>1
<1> HIDE DEF list, preedit, window
<1>3. /\ BuildSegmentsFromCandidateList(list, reading) \in Seq(Segments)
      /\ BuildSegmentsFromCandidateList(list, reading) # <<>> =>
            Tiles(BuildSegmentsFromCandidateList(list, reading), reading)
      /\ BuildSegmentsFromPreedit(preedit, reading) \in Seq(Segments)
      /\ BuildSegmentsFromPreedit(preedit, reading) # <<>> =>
            Tiles(BuildSegmentsFromPreedit(preedit, reading), reading)
  BY <1>2, BuiltTiles
<1>4. /\ ExtractPrimarySegmentCandidates(list) \in Seq(Texts) /\ Distinct(window) \in Seq(Texts)
      /\ \A i \in DOMAIN ExtractPrimarySegmentCandidates(list) :
              ExtractPrimarySegmentCandidates(list)[i] # <<>>
      /\ \A i \in DOMAIN Distinct(window) : Distinct(window)[i] # <<>>
  BY <1>2, PrimaryTyped, PrimaryFull, DistinctReads, DistinctFull
<1>5. SegmentsOf(r, reading) =
          IF BuildSegmentsFromCandidateList(list, reading) # <<>>
          THEN BuildSegmentsFromCandidateList(list, reading)
          ELSE BuildSegmentsFromPreedit(preedit, reading)
  BY DEF SegmentsOf, list, preedit
<1>6. CandidatesOf(r) =
          IF ExtractPrimarySegmentCandidates(list) # <<>> THEN ExtractPrimarySegmentCandidates(list)
          ELSE Distinct(window)
  BY DEF CandidatesOf, list, window
<1> QED BY <1>1, <1>3, <1>4, <1>5, <1>6

\* Of an undamaged answer the segments read the parts of a split, and the
\* candidates its first part.
LEMMA ConvertedReads ==
    ASSUME NEW reading \in Seq(Letters), reading # <<>>, NEW r \in Replies(reading), r.intact
    PROVE  \E split \in Splits(reading) :
              /\ ReadAs(SegmentsOf(r, reading), split) /\ SegmentsOf(r, reading) # <<>>
              /\ \A i \in DOMAIN CandidatesOf(r) : ReadingOf(CandidatesOf(r)[i]) = split[1]
<1> DEFINE Whole(split) ==
              /\ ReadAs(SegmentsOf(r, reading), split) /\ SegmentsOf(r, reading) # <<>>
              /\ \A i \in DOMAIN CandidatesOf(r) : ReadingOf(CandidatesOf(r)[i]) = split[1]
<1>0. ASSUME NEW key
      PROVE  \A i \in DOMAIN Distinct(<<>>) : ReadingOf(Distinct(<<>>)[i]) = key
  <2> DEFINE none == <<>>
  <2>1. none \in Seq(Texts) /\ \A i \in DOMAIN none : ReadingOf(none[i]) = key
    OBVIOUS
  <2> HIDE DEF none
  <2>2. \A i \in DOMAIN Distinct(none) : ReadingOf(Distinct(none)[i]) = key
    BY <2>1, DistinctReads
  <2> QED BY <2>2 DEF none
<1>1. ASSUME NEW split \in Splits(reading), NEW list \in PerClause(split, Clauses),
             r = Reply(list, <<>>, <<>>, TRUE)
      PROVE  Whole(split)
  <2>1. r.list = list /\ r.window = <<>> /\ r.preedit = <<>>
    BY <1>1 DEF Reply
  <2>2. ReadAs(BuildSegmentsFromCandidateList(list, reading), split)
        /\ BuildSegmentsFromCandidateList(list, reading) # <<>>
    BY ListReads
  <2>3. SegmentsOf(r, reading) = BuildSegmentsFromCandidateList(list, reading)
    BY <2>1, <2>2 DEF SegmentsOf
  <2> DEFINE key == split[1]
             h == Head(list)
  <2>4. key \in Seq(Letters) /\ list \in Seq(ListClauses) /\ list # <<>> /\ h \in Clauses(key)
    <3>1. /\ list \in Seq(ListClauses) /\ Len(list) = Len(split) /\ DOMAIN list = DOMAIN split
          /\ \A i \in DOMAIN split : list[i] \in Clauses(split[i])
      BY PerClauseLists
    <3>2. 1 \in DOMAIN split /\ split[1] \in Seq(Letters)
      BY SplitKeys
    <3>3. list # <<>> /\ Head(list) = list[1]
      BY <3>1, <3>2
    <3> QED BY <3>1, <3>2, <3>3
  <2> HIDE DEF key, h
  <2>5. h.candidates # <<>> /\ h.candidates \in Offers(key)
    BY <2>4, ClauseReads
  <2>6. \A i \in DOMAIN h.candidates : ReadingOf(h.candidates[i]) = key
    <3> DEFINE texts == h.candidates
    <3>1. texts \in Offers(key)
      BY <2>5
    <3> HIDE DEF texts
    <3>2. \A i \in DOMAIN texts : ReadingOf(texts[i]) = key
      BY <2>4, <3>1, OfferReads
    <3> QED BY <3>2 DEF texts
  <2>7. \A i \in DOMAIN ExtractPrimarySegmentCandidates(list) :
           ReadingOf(ExtractPrimarySegmentCandidates(list)[i]) = key
    BY <2>4, <2>5, <2>6, PrimaryTyped DEF h
  <2>8. \A i \in DOMAIN CandidatesOf(r) : ReadingOf(CandidatesOf(r)[i]) = key
    BY <1>0, <2>1, <2>7 DEF CandidatesOf
  <2> QED BY <2>2, <2>3, <2>8 DEF key
<1>2. ASSUME NEW split \in Splits(reading), NEW preedit \in PerClause(split, Shown),
             NEW window \in {<<>>} \cup Offers(split[1]), r = Reply(<<>>, preedit, window, TRUE)
      PROVE  Whole(split)
  <2>1. r.list = <<>> /\ r.window = window /\ r.preedit = preedit
    BY <1>2 DEF Reply
  <2>2. ReadAs(BuildSegmentsFromPreedit(preedit, reading), split)
        /\ BuildSegmentsFromPreedit(preedit, reading) # <<>>
    BY PreeditReads
  <2>3. SegmentsOf(r, reading) = BuildSegmentsFromPreedit(preedit, reading)
    BY <2>1, NothingBuilt DEF SegmentsOf
  <2>4. CandidatesOf(r) = Distinct(window)
    BY <2>1 DEF CandidatesOf, ExtractPrimarySegmentCandidates
  <2> DEFINE key == split[1]
  <2>5. key \in Seq(Letters)
    BY SplitKeys
  <2>6. window = <<>> \/ window \in Offers(key)
    BY Zenon
  <2> HIDE DEF key
  <2>7. \A i \in DOMAIN Distinct(window) : ReadingOf(Distinct(window)[i]) = key
    <3>1. CASE window = <<>>
      BY <1>0, <3>1
    <3>2. CASE window \in Offers(key)
      <4>1. window \in Seq(Texts) /\ \A i \in DOMAIN window : ReadingOf(window[i]) = key
        BY <2>5, <3>2, OfferReads
      <4> QED BY <4>1, DistinctReads
    <3> QED BY <2>6, <3>1, <3>2
  <2> QED BY <2>2, <2>3, <2>4, <2>7 DEF key
<1>3. ASSUME NEW split \in Splits(reading), NEW keys \in (SUBSET DOMAIN split) \ {{}},
             NEW preedit \in PerClause(split, Shown),
             r = Reply(Lacking(Plain(split), keys), preedit, <<>>, 1 \notin keys)
      PROVE  Whole(split)
  <2>1. r.list = Lacking(Plain(split), keys) /\ r.window = <<>> /\ 1 \notin keys
    BY <1>3 DEF Reply
  <2> DEFINE key == split[1]
             list == Lacking(Plain(split), keys)
             h == Head(list)
             text == InKanji(key)
  <2>2. ReadAs(BuildSegmentsFromCandidateList(list, reading), split)
        /\ BuildSegmentsFromCandidateList(list, reading) # <<>>
    <3>1. keys \in SUBSET DOMAIN split /\ keys # {}
      OBVIOUS
    <3> QED BY <2>1, <3>1, LackingReads, Zenon
  <2>3. SegmentsOf(r, reading) = BuildSegmentsFromCandidateList(list, reading)
    BY <2>1, <2>2 DEF SegmentsOf
  <2>4. /\ key \in Seq(Letters) /\ list \in Seq(ListClauses) /\ list # <<>>
        /\ h.candidates = <<text>>
    <3>1. /\ list \in Seq(ListClauses) /\ Len(list) = Len(split)
          /\ \A i \in DOMAIN split : list[i].candidates = <<InKanji(split[i])>>
      BY LackingIs
    <3>2. 1 \in DOMAIN split /\ split[1] \in Seq(Letters) /\ Len(split) \in Nat /\ DOMAIN split = 1 .. Len(split)
      BY SplitKeys
    <3> HIDE DEF list
    <3>3. list # <<>> /\ Head(list) = list[1]
      BY <3>1, <3>2
    <3> QED BY <3>1, <3>2, <3>3
  <2>5. ReadingOf(text) = key
    <3> HIDE DEF key
    <3> QED BY <2>4, KanjiReads
  <2> HIDE DEF key, h, list, text
  <2>6. h.candidates # <<>> /\ \A i \in DOMAIN h.candidates : ReadingOf(h.candidates[i]) = key
    BY <2>4, <2>5
  <2>7. \A i \in DOMAIN ExtractPrimarySegmentCandidates(list) :
           ReadingOf(ExtractPrimarySegmentCandidates(list)[i]) = key
    BY <2>4, <2>6, PrimaryTyped DEF h
  <2>8. \A i \in DOMAIN CandidatesOf(r) : ReadingOf(CandidatesOf(r)[i]) = key
    BY <1>0, <2>1, <2>7 DEF CandidatesOf, list
  <2> QED BY <2>2, <2>3, <2>8 DEF key
<1>4. ~(WithDamagedList(r, reading) \/ WithDamagedPreedit(r, reading) \/ WithLongKey(r, reading))
  BY DEF WithDamagedList, WithDamagedPreedit, WithLongKey, Reply
<1> HIDE DEF Whole
<1>5. WithList(r, reading) => \E split \in Splits(reading) : Whole(split)
  BY <1>1 DEF WithList
<1>6. WithPreedit(r, reading) => \E split \in Splits(reading) : Whole(split)
  BY <1>2 DEF WithPreedit
<1>7. WithoutKeys(r, reading) => \E split \in Splits(reading) : Whole(split)
  BY <1>3 DEF WithoutKeys
<1>8. \E split \in Splits(reading) : Whole(split)
  BY <1>4, <1>5, <1>6, <1>7, ReplyShapes
<1> QED BY <1>8 DEF Whole

\* The text of the later segments, and a candidate completed with it.
TailOf(segments) == FlattenSeq([i \in 1 .. Len(segments) - 1 |-> segments[i + 1].surface])
Completed(text, tail) == IF IsSuffix(tail, text) THEN text ELSE text \o tail

LEMMA TailTyped ==
    ASSUME NEW segments \in Seq(Segments)
    PROVE  TailOf(segments) \in Texts
<1> DEFINE n == Len(segments)
           later == [i \in 1 .. n - 1 |-> segments[i + 1].surface]
<1>1. n \in Nat
  OBVIOUS
<1>2. \A i \in 1 .. n - 1 : segments[i + 1].surface \in Texts
  <2> SUFFICES ASSUME NEW i \in 1 .. n - 1 PROVE segments[i + 1].surface \in Texts
    OBVIOUS
  <2>1. segments[i + 1] \in Segments
    OBVIOUS
  <2> QED BY <2>1 DEF Segments
<1>3. later \in Seq(Texts)
  <2>1. CASE n = 0
    <3>1. later = <<>>
      BY <2>1
    <3> HIDE DEF later
    <3> QED BY <3>1
  <2>2. CASE n # 0
    <3>1. n - 1 \in Nat
      BY <1>1, <2>2
    <3> HIDE DEF n
    <3> QED BY <1>2, <3>1
  <2> QED BY <2>1, <2>2
<1> HIDE DEF later
<1>4. FlattenSeq(later) \in Seq(Chars)
  <2>1. later \in Seq(Seq(Chars))
    BY <1>3 DEF Texts
  <2> QED BY <2>1, FlattenType
<1> QED BY <1>4 DEF TailOf, later, Texts

LEMMA TailReads ==
    ASSUME NEW segments, NEW split, ReadAs(segments, split), Len(split) = 2, DOMAIN split = 1 .. 2
    PROVE  ReadingOf(TailOf(segments)) = split[2]
<1>1. /\ segments \in Seq(Segments) /\ Len(segments) = 2 /\ ReadingOf(segments[2].surface) = split[2]
  BY DEF ReadAs
<1>2. segments[2] \in Segments
  BY <1>1
<1>3. segments[2].surface \in Texts
  BY <1>2 DEF Segments
<1>4. [i \in 1 .. Len(segments) - 1 |-> segments[i + 1].surface] = <<segments[2].surface>>
  BY <1>1
<1>5. TailOf(segments) = segments[2].surface
  <2>1. FlattenSeq(<<segments[2].surface>>) = segments[2].surface
    BY <1>3, FlattenOne DEF Texts
  <2> QED BY <1>4, <2>1 DEF TailOf
<1> QED BY <1>1, <1>5

LEMMA ComposeIs ==
    ASSUME NEW candidates \in Seq(Texts), NEW segments \in Seq(Segments)
    PROVE  /\ ComposeSentence(candidates, segments) \in Seq(Texts)
           /\ Len(segments) < 2 => ComposeSentence(candidates, segments) = candidates
           /\ ~(Len(segments) < 2) =>
                 \A i \in DOMAIN ComposeSentence(candidates, segments) : \E j \in DOMAIN candidates :
                    ComposeSentence(candidates, segments)[i] = Completed(candidates[j], TailOf(segments))
           /\ candidates # <<>> /\ (\A j \in DOMAIN candidates : candidates[j] # <<>>) =>
                 ComposeSentence(candidates, segments) # <<>>
<1> DEFINE tail == TailOf(segments)
           full == [i \in DOMAIN candidates |-> Completed(candidates[i], tail)]
<1>1. CASE Len(segments) < 2
  <2>1. ComposeSentence(candidates, segments) = candidates
    BY <1>1 DEF ComposeSentence
  <2> QED BY <1>1, <2>1
<1>2. CASE ~(Len(segments) < 2)
  <2>1. ComposeSentence(candidates, segments) = Distinct(full)
    BY <1>2 DEF ComposeSentence, TailOf, Completed
  <2>2. tail \in Texts
    BY TailTyped
  <2> HIDE DEF tail
  <2>3. \A t \in Texts : Completed(t, tail) \in Texts /\ (t # <<>> => Completed(t, tail) # <<>>)
    <3> SUFFICES ASSUME NEW t \in Texts PROVE Completed(t, tail) \in Texts /\ (t # <<>> => Completed(t, tail) # <<>>)
      OBVIOUS
    <3>1. t \o tail \in Seq(Chars) /\ Len(t \o tail) = Len(t) + Len(tail) /\ Len(t) \in Nat /\ Len(tail) \in Nat
          /\ (t # <<>> => Len(t) > 0)
      BY <2>2 DEF Texts
    <3>2. t # <<>> => t \o tail # <<>>
      BY <3>1
    <3> QED BY <3>1, <3>2 DEF Completed, Texts
  <2>4. DOMAIN candidates = 1 .. Len(candidates) /\ Len(candidates) \in Nat /\ \A i \in DOMAIN candidates : candidates[i] \in Texts
    OBVIOUS
  <2>5. full \in Seq(Texts) /\ DOMAIN full = DOMAIN candidates /\ \A i \in DOMAIN candidates : full[i] = Completed(candidates[i], tail)
    BY <2>3, <2>4
  <2> HIDE DEF full
  <2>6. full \in Seq(Seq(Chars))
    BY <2>5 DEF Texts
  <2>7. /\ Distinct(full) \in Seq(Texts)
        /\ \A i \in DOMAIN Distinct(full) : \E j \in DOMAIN full : Distinct(full)[i] = full[j]
    BY <2>6, DistinctKeeps DEF Texts
  <2>8. (\E j \in DOMAIN full : full[j] # <<>>) => Distinct(full) # <<>>
    BY <2>5, DistinctFull
  <2>9. candidates # <<>> /\ (\A j \in DOMAIN candidates : candidates[j] # <<>>) => \E j \in DOMAIN full : full[j] # <<>>
    <3> SUFFICES ASSUME candidates # <<>>, \A j \in DOMAIN candidates : candidates[j] # <<>>
                 PROVE  \E j \in DOMAIN full : full[j] # <<>>
      OBVIOUS
    <3>1. 1 \in DOMAIN candidates
      BY <2>4
    <3> QED BY <2>3, <2>4, <2>5, <3>1
  <2> QED BY <1>2, <2>1, <2>5, <2>7, <2>8, <2>9 DEF tail
<1> QED BY <1>1, <1>2

\* The candidates for a first part, completed with the other part, read the
\* whole, unless one that does not is mistaken for a whole one.
LEMMA SentenceReads ==
    ASSUME NEW reading \in Seq(Letters), reading # <<>>, NEW split \in Splits(reading),
           NEW segments, ReadAs(segments, split), NEW candidates \in Seq(Texts),
           \A i \in DOMAIN candidates : ReadingOf(candidates[i]) = split[1],
           Len(segments) > 1 => \A i \in DOMAIN candidates :
              ReadingOf(candidates[i]) # reading => ~IsSuffix(TailOf(segments), candidates[i])
    PROVE  \A i \in DOMAIN ComposeSentence(candidates, segments) :
              ReadingOf(ComposeSentence(candidates, segments)[i]) = reading
<1> DEFINE all == ComposeSentence(candidates, segments)
<1>1. /\ Len(split) \in {1, 2} /\ DOMAIN split = 1 .. Len(split)
      /\ Len(split) = 1 => split[1] = reading
      /\ Len(split) = 2 => split[1] # reading /\ split[1] \o split[2] = reading
  <2>1. Len(split) \in {1, 2} /\ DOMAIN split = 1 .. Len(split)
    BY SplitIs
  <2>2. Len(split) = 1 => split = <<reading>>
    BY SplitIs
  <2>3. Len(split) = 2 => split[1] # reading /\ split[1] \o split[2] = reading
    BY SplitIs
  <2>4. Len(split) = 1 => split[1] = reading
    BY <2>2
  <2> QED BY <2>1, <2>3, <2>4
<1>2. segments \in Seq(Segments) /\ Len(segments) = Len(split)
  BY DEF ReadAs
<1>3. CASE Len(split) = 1
  <2>1. Len(segments) < 2
    BY <1>2, <1>3
  <2>2. all = candidates
    BY <1>2, <2>1, ComposeIs
  <2> QED BY <1>1, <1>3, <2>2
<1>4. CASE Len(split) = 2
  <2>1. ~(Len(segments) < 2)
    BY <1>2, <1>4
  <2>2. TailOf(segments) \in Texts /\ ReadingOf(TailOf(segments)) = split[2]
    BY <1>1, <1>2, <1>4, TailTyped, TailReads
  <2> SUFFICES ASSUME NEW i \in DOMAIN all PROVE ReadingOf(all[i]) = reading
    OBVIOUS
  <2>3. PICK j \in DOMAIN candidates : all[i] = Completed(candidates[j], TailOf(segments))
    BY <1>2, <2>1, ComposeIs
  <2> DEFINE t == candidates[j]
             tail == TailOf(segments)
  <2>4. t \in Texts /\ ReadingOf(t) = split[1] /\ ~IsSuffix(tail, t)
    <3>1. Len(segments) > 1
      BY <1>2, <1>4
    <3> QED BY <1>1, <1>4, <3>1
  <2>5. all[i] = t \o tail
    BY <2>3, <2>4 DEF Completed
  <2>6. ReadingOf(t \o tail) = ReadingOf(t) \o ReadingOf(tail)
    <3>1. tail \in Texts
      BY <2>2
    <3> HIDE DEF t, tail
    <3> QED BY <2>4, <3>1, ReadingConcat
  <2>7. ReadingOf(t \o tail) = split[1] \o split[2]
    BY <2>2, <2>4, <2>6
  <2> QED BY <1>1, <1>4, <2>5, <2>7
<1> QED BY <1>1, <1>3, <1>4

\* Candidates for the whole reading, completed with the segments of another
\* answer, begin with the reading.
LEMMA SentenceBegins ==
    ASSUME NEW reading \in Seq(Letters), NEW segments \in Seq(Segments), NEW candidates \in Seq(Texts),
           \A i \in DOMAIN candidates : ReadingOf(candidates[i]) = reading
    PROVE  \A i \in DOMAIN ComposeSentence(candidates, segments) :
              IsPrefix(reading, ReadingOf(ComposeSentence(candidates, segments)[i]))
<1> DEFINE all == ComposeSentence(candidates, segments)
<1>1. \A t \in Seq(Letters) : IsPrefix(reading, reading \o t) /\ IsPrefix(reading, reading)
  <2> SUFFICES ASSUME NEW t \in Seq(Letters)
               PROVE  IsPrefix(reading, reading \o t) /\ IsPrefix(reading, reading)
    OBVIOUS
  <2>1. /\ Len(reading \o t) = Len(reading) + Len(t) /\ Len(reading) \in Nat /\ Len(t) \in Nat
        /\ SubSeq(reading \o t, 1, Len(reading)) = reading /\ SubSeq(reading, 1, Len(reading)) = reading
    OBVIOUS
  <2> QED BY <2>1 DEF IsPrefix
<1>2. <<>> \in Seq(Letters)
  OBVIOUS
<1>3. CASE Len(segments) < 2
  <2>1. all = candidates
    BY <1>3, ComposeIs
  <2> QED BY <1>1, <1>2, <2>1
<1>4. CASE ~(Len(segments) < 2)
  <2> SUFFICES ASSUME NEW i \in DOMAIN all PROVE IsPrefix(reading, ReadingOf(all[i]))
    OBVIOUS
  <2>1. PICK j \in DOMAIN candidates : all[i] = Completed(candidates[j], TailOf(segments))
    BY <1>4, ComposeIs
  <2> DEFINE t == candidates[j]
             tail == TailOf(segments)
  <2>2. t \in Texts /\ ReadingOf(t) = reading /\ tail \in Texts
    BY TailTyped
  <2> HIDE DEF t, tail
  <2>3. ReadingOf(t \o tail) = reading \o ReadingOf(tail) /\ ReadingOf(tail) \in Seq(Letters)
    BY <2>2, ReadingConcat
  <2>4. ReadingOf(all[i]) = reading \/ ReadingOf(all[i]) = reading \o ReadingOf(tail)
    BY <2>1, <2>2, <2>3 DEF Completed, t, tail
  <2> QED BY <1>1, <1>2, <2>3, <2>4
<1> QED BY <1>3, <1>4

-----------------------------------------------------------------------------
\* The bridge.

BridgeRecords ==
    [at : {"idle", "pipes", "launch", "poll", "create", "convert", "load", "window",
           "activate", "context", "ask", "restore", "unload", "answered"},
     reading : Seq(Letters), katakana : BOOLEAN, pipes : Nat, polls : Nat,
     layout : Layouts, attempt : Attempts, segments : Seq(Segments),
     source : {"none", "candidate_list", "preedit"},
     candidates : Seq(Texts), error : BOOLEAN,
     held : SUBSET {"loaded", "window", "activated", "context"},
     plain : Seq(Texts), intact : BOOLEAN, fresh : BOOLEAN]

\* What the call holds at most, by where it is.
HeldAt(where) ==
    CASE where = "window" -> {"loaded"}
      [] where = "activate" -> {"loaded", "window"}
      [] where = "context" -> {"loaded", "window", "activated"}
      [] where \in {"ask", "restore"} -> {"loaded", "window", "activated", "context"}
      [] where = "unload" -> {"loaded"}
      [] OTHER -> {}

\* The clauses of an undamaged answer, put together, read the reading.
SegmentsRead(b) ==
    b.intact /\ b.segments # <<>> => ReadingOf(ComposeSegmentReading(b.segments)) = b.reading

\* A call without its answer.  Candidates are only there behind a layout, and
\* stand for the whole reading; segments are left of a pipe that had no candidate.
Ongoing(b) ==
    /\ b \in BridgeRecords /\ b.at # "answered"
    /\ b.held \subseteq HeldAt(b.at)
    /\ b.at # "idle" => b.reading # <<>>
    /\ b.at = "poll" => b.polls # 0
    /\ b.at \notin {"restore", "unload"} => b.candidates = <<>>
    /\ b.segments # <<>> => Tiles(b.segments, b.reading)
    /\ SegmentsRead(b)
    /\ b.fresh <=> b.segments = <<>>
    /\ \A i \in DOMAIN b.candidates : ReadingOf(b.candidates[i]) = b.reading

\* What an answer shows first: several clauses together, or candidates that
\* nothing was added to.
ClausesReadTheReading == At("answered") => SegmentsRead(bridge)
WholesReadTheReading ==
    At("answered") /\ bridge.intact /\ Len(bridge.segments) < 2 =>
        \A i \in DOMAIN bridge.candidates : ReadingOf(bridge.candidates[i]) = bridge.reading

BridgeAnswerInv ==
    /\ bridge \in BridgeRecords
    /\ bridge.candidates = <<>> => bridge.error /\ bridge.segments = <<>>
    /\ NothingHeld /\ SegmentsTile /\ SentencesReadTheReading
    /\ ClausesReadTheReading /\ WholesReadTheReading

BridgeInv == IF At("answered") THEN BridgeAnswerInv ELSE Ongoing(bridge)

LEMMA BridgeBegins == Ongoing(IdleBridge)
<1>1. <<>> \in Seq(Letters) /\ <<>> \in Seq(Texts) /\ <<>> \in Seq(Segments)
  OBVIOUS
<1>2. IdleBridge \in BridgeRecords
  BY <1>1 DEF IdleBridge, BridgeRecords, NoReading, Layouts, Attempts
<1> QED BY <1>2 DEF Ongoing, IdleBridge, SegmentsRead

LEMMA RespondIs ==
    ASSUME NEW b \in BridgeRecords
    PROVE  /\ Respond(b) \in BridgeRecords /\ Respond(b).at = "answered"
           /\ Respond(b).reading = b.reading /\ Respond(b).held = b.held
           /\ Respond(b).fresh = b.fresh /\ Respond(b).intact = b.intact
           /\ b.candidates = <<>> =>
                 Respond(b).candidates = <<>> /\ Respond(b).error /\ Respond(b).segments = <<>>
           /\ b.candidates # <<>> =>
                 /\ Respond(b).candidates = ComposeSentence(b.candidates, b.segments)
                 /\ Respond(b).plain = b.candidates /\ Respond(b).segments = b.segments
<1>1. b.candidates \in Seq(Texts) /\ b.segments \in Seq(Segments) /\ <<>> \in Seq(Segments)
  BY DEF BridgeRecords
<1>2. ComposeSentence(b.candidates, b.segments) \in Seq(Texts)
  <2> DEFINE c == b.candidates
             s == b.segments
  <2>1. c \in Seq(Texts) /\ s \in Seq(Segments)
    BY <1>1
  <2> HIDE DEF c, s
  <2>2. ComposeSentence(c, s) \in Seq(Texts)
    BY <2>1, ComposeIs
  <2> QED BY <2>2 DEF c, s
<1>3. CASE b.candidates = <<>>
  <2>1. Respond(b) = [b EXCEPT !.at = "answered", !.error = TRUE, !.segments = <<>>]
    BY <1>3 DEF Respond
  <2> QED BY ZenonT(60), <1>1, <1>3, <2>1 DEF BridgeRecords
<1>4. CASE b.candidates # <<>>
  <2> DEFINE completed == ComposeSentence(b.candidates, b.segments)
  <2>1. Respond(b) = [b EXCEPT !.at = "answered", !.plain = b.candidates, !.candidates = completed]
    BY <1>4 DEF Respond
  <2>2. completed \in Seq(Texts)
    BY <1>2
  <2> HIDE DEF completed
  <2>3. Respond(b) \in BridgeRecords
    BY <1>1, <2>1, <2>2 DEF BridgeRecords
  <2>4. /\ Respond(b).at = "answered" /\ Respond(b).reading = b.reading /\ Respond(b).held = b.held
        /\ Respond(b).fresh = b.fresh /\ Respond(b).intact = b.intact
        /\ Respond(b).candidates = completed /\ Respond(b).plain = b.candidates
        /\ Respond(b).segments = b.segments
    BY <2>1 DEF BridgeRecords
  <2> QED BY <1>4, <2>3, <2>4 DEF completed
<1> QED BY <1>3, <1>4

\* The clauses of a split, put together, read the reading.
LEMMA ClausesRead ==
    ASSUME NEW reading \in Seq(Letters), reading # <<>>, NEW split \in Splits(reading),
           NEW segments, ReadAs(segments, split)
    PROVE  ReadingOf(ComposeSegmentReading(segments)) = reading
<1>1. Len(split) \in {1, 2} /\ DOMAIN split = 1 .. Len(split)
  BY SplitIs
<1>2. /\ segments \in Seq(Segments) /\ Len(segments) = Len(split) /\ DOMAIN segments = 1 .. Len(segments)
      /\ \A i \in DOMAIN split : ReadingOf(segments[i].surface) = split[i]
  BY DEF ReadAs
<1>3. \A i \in DOMAIN segments : segments[i].surface \in Texts
  <2> SUFFICES ASSUME NEW i \in DOMAIN segments PROVE segments[i].surface \in Texts
    OBVIOUS
  <2>1. segments[i] \in Segments
    BY <1>2
  <2> QED BY <2>1 DEF Segments
<1> DEFINE surfaces == [i \in DOMAIN segments |-> segments[i].surface]
<1>4. CASE Len(split) = 1
  <2> DEFINE a == segments[1].surface
  <2>1. surfaces = <<a>> /\ a \in Texts /\ ReadingOf(a) = split[1]
    BY <1>1, <1>2, <1>3, <1>4
  <2>2. split[1] = reading
    <3>1. split = <<reading>>
      BY <1>4, SplitIs
    <3> QED BY <3>1
  <2> HIDE DEF a, surfaces
  <2>3. FlattenSeq(<<a>>) = a
    BY <2>1, FlattenOne DEF Texts
  <2> QED BY <2>1, <2>2, <2>3 DEF ComposeSegmentReading, surfaces
<1>5. CASE Len(split) = 2
  <2> DEFINE a == segments[1].surface
             b == segments[2].surface
  <2>1. surfaces = <<a, b>> /\ a \in Texts /\ b \in Texts /\ ReadingOf(a) = split[1] /\ ReadingOf(b) = split[2]
    BY <1>1, <1>2, <1>3, <1>5
  <2>2. split[1] \o split[2] = reading
    BY <1>5, SplitIs
  <2> HIDE DEF a, b, surfaces
  <2>3. FlattenSeq(<<a, b>>) = a \o b
    <3>1. <<a, b>> = Append(<<a>>, b)
      BY <2>1, CutTwo
    <3>2. <<a>> \in Seq(Seq(Chars)) /\ b \in Seq(Chars) /\ a \in Seq(Chars)
      BY <2>1 DEF Texts
    <3>3. FlattenSeq(Append(<<a>>, b)) = FlattenSeq(<<a>>) \o b /\ FlattenSeq(<<a>>) = a
      BY <3>2, FlattenAppend, FlattenOne
    <3> QED BY <3>1, <3>3
  <2>4. ReadingOf(a \o b) = split[1] \o split[2]
    BY <2>1, ReadingConcat
  <2> QED BY <2>1, <2>2, <2>3, <2>4 DEF ComposeSegmentReading, surfaces
<1> QED BY <1>1, <1>4, <1>5

\* Two texts put together.
LEMMA FlattenTwo ==
    ASSUME NEW a \in Texts, NEW b \in Texts
    PROVE  FlattenSeq(<<a, b>>) = a \o b
<1>1. <<a, b>> = Append(<<a>>, b)
  BY CutTwo
<1>2. <<a>> \in Seq(Seq(Chars)) /\ b \in Seq(Chars) /\ a \in Seq(Chars)
  BY DEF Texts
<1>3. FlattenSeq(Append(<<a>>, b)) = FlattenSeq(<<a>>) \o b /\ FlattenSeq(<<a>>) = a
  BY <1>2, FlattenAppend, FlattenOne
<1> QED BY <1>1, <1>3

\* All that a layout converts stands for the whole reading.
LEMMA ConversionsRead ==
    ASSUME NEW reading \in Seq(Letters), reading # <<>>, NEW texts \in Conversions(reading)
    PROVE  /\ texts \in Seq(Texts)
           /\ \A i \in DOMAIN texts : ReadingOf(texts[i]) = reading /\ texts[i] # <<>>
<1> DEFINE Together(split) == FlattenSeq([i \in DOMAIN split |-> InKanji(split[i])])
<1>1. \/ texts = <<>>
      \/ texts = <<InKanji(reading), InKana(reading)>>
      \/ \E split \in Splits(reading) : texts = <<Together(split)>>
  BY DEF Conversions
<1>2. \A t \in Texts : ReadingOf(t) = reading => t # <<>>
  BY NothingReads
<1>3. CASE texts = <<>>
  BY <1>3
<1>4. CASE texts = <<InKanji(reading), InKana(reading)>>
  <2> DEFINE a == InKanji(reading)
             b == InKana(reading)
  <2>1. a \in Texts /\ b \in Texts /\ ReadingOf(a) = reading /\ ReadingOf(b) = reading
    BY KanjiReads, KanaReads
  <2> HIDE DEF a, b
  <2>2. <<a, b>> \in Seq(Texts) /\ DOMAIN <<a, b>> = 1 .. 2 /\ <<a, b>>[1] = a /\ <<a, b>>[2] = b
    BY <2>1
  <2>3. \A i \in 1 .. 2 : i = 1 \/ i = 2
    OBVIOUS
  <2>4. texts = <<a, b>>
    BY <1>4 DEF a, b
  <2> QED BY <1>2, <2>1, <2>2, <2>3, <2>4
<1>5. ASSUME NEW split \in Splits(reading), texts = <<Together(split)>>
      PROVE  texts \in Seq(Texts) /\ \A i \in DOMAIN texts : ReadingOf(texts[i]) = reading /\ texts[i] # <<>>
  <2>1. Together(split) \in Texts /\ ReadingOf(Together(split)) = reading
    <3>1. Len(split) \in {1, 2} /\ DOMAIN split = 1 .. Len(split)
      BY SplitIs
    <3>2. \A i \in DOMAIN split : split[i] \in Seq(Letters)
      BY SplitIs
    <3>3. CASE Len(split) = 1
      <4>1. split = <<reading>>
        BY <3>3, SplitIs
      <4>2. [i \in DOMAIN split |-> InKanji(split[i])] = <<InKanji(reading)>>
        BY <4>1
      <4>3. InKanji(reading) \in Texts /\ ReadingOf(InKanji(reading)) = reading
        BY KanjiReads
      <4>4. FlattenSeq(<<InKanji(reading)>>) = InKanji(reading)
        BY <4>3, FlattenOne DEF Texts
      <4> QED BY <4>2, <4>3, <4>4
    <3>4. CASE Len(split) = 2
      <4> DEFINE a == InKanji(split[1])
                 b == InKanji(split[2])
      <4>1. split[1] \in Seq(Letters) /\ split[2] \in Seq(Letters) /\ split[1] \o split[2] = reading
        <5>1. split[1] \in Seq(Letters) /\ split[2] \in Seq(Letters)
          BY <3>1, <3>2, <3>4
        <5>2. split[1] \o split[2] = reading
          BY <3>4, SplitIs
        <5> QED BY <5>1, <5>2
      <4>2. [i \in DOMAIN split |-> InKanji(split[i])] = <<a, b>>
        BY <3>1, <3>4
      <4>3. a \in Texts /\ b \in Texts /\ ReadingOf(a) = split[1] /\ ReadingOf(b) = split[2]
        BY <4>1, KanjiReads
      <4> HIDE DEF a, b
      <4>4. FlattenSeq(<<a, b>>) = a \o b
        BY <4>3, FlattenTwo
      <4>5. a \o b \in Texts
        BY <4>3, ReadsConcat
      <4>6. ReadingOf(a \o b) = split[1] \o split[2]
        BY <4>3, ReadingConcat
      <4> QED BY <4>1, <4>2, <4>4, <4>5, <4>6
    <3> QED BY <3>1, <3>3, <3>4
  <2> DEFINE t == Together(split)
  <2>2. t \in Texts /\ ReadingOf(t) = reading /\ texts = <<t>>
    BY <1>5, <2>1
  <2> HIDE DEF t
  <2>3. <<t>> \in Seq(Texts) /\ DOMAIN <<t>> = 1 .. 1 /\ <<t>>[1] = t
    BY <2>2
  <2> QED BY <1>2, <2>2, <2>3
<1> QED BY <1>1, <1>3, <1>4, <1>5

-----------------------------------------------------------------------------
\* How an answer comes about.

\* Candidates for the whole reading, after the segments of pipes without any.
WholeAnswer(b) ==
    /\ SegmentsRead(b)
    /\ b.fresh <=> b.segments = <<>>
    /\ \A i \in DOMAIN b.candidates : ReadingOf(b.candidates[i]) = b.reading

\* Clauses and candidates of one pipe.
ClauseAnswer(b) ==
    /\ b.fresh
    /\ b.intact => \E split \in Splits(b.reading) :
          /\ ReadAs(b.segments, split) /\ b.segments # <<>>
          /\ \A i \in DOMAIN b.candidates : ReadingOf(b.candidates[i]) = split[1]

LEMMA Answered ==
    ASSUME NEW b \in BridgeRecords, b.reading # <<>>, b.held = {},
           b.segments # <<>> => Tiles(b.segments, b.reading),
           b.candidates # <<>> => WholeAnswer(b) \/ ClauseAnswer(b),
           \A i \in DOMAIN b.candidates : b.candidates[i] # <<>>,
           bridge' = Respond(b)
    PROVE  BridgeInv'
<1>0. /\ b.reading \in Seq(Letters) /\ b.segments \in Seq(Segments) /\ b.candidates \in Seq(Texts)
  BY DEF BridgeRecords
<1>1. /\ bridge' \in BridgeRecords /\ bridge'.at = "answered"
      /\ bridge'.reading = b.reading /\ bridge'.held = {}
      /\ bridge'.fresh = b.fresh /\ bridge'.intact = b.intact
  BY RespondIs
<1>2. CASE b.candidates = <<>>
  <2>1. bridge'.candidates = <<>> /\ bridge'.error /\ bridge'.segments = <<>>
    BY <1>2, RespondIs
  <2> QED BY <1>1, <2>1
        DEF BridgeInv, BridgeAnswerInv, At, NothingHeld, SegmentsTile, SentencesReadTheReading,
            ClausesReadTheReading, WholesReadTheReading, SegmentsRead
<1>3. CASE b.candidates # <<>>
  <2>1. /\ bridge'.candidates = ComposeSentence(b.candidates, b.segments)
        /\ bridge'.plain = b.candidates /\ bridge'.segments = b.segments
    BY <1>3, RespondIs
  <2>2. bridge'.candidates # <<>>
    <3> DEFINE cs == b.candidates
               ss == b.segments
    <3>1. cs \in Seq(Texts) /\ ss \in Seq(Segments) /\ cs # <<>> /\ \A i \in DOMAIN cs : cs[i] # <<>>
      BY <1>0, <1>3
    <3> HIDE DEF cs, ss
    <3>2. ComposeSentence(cs, ss) # <<>>
      BY <3>1, ComposeIs
    <3> QED BY <2>1, <3>2 DEF cs, ss
  <2>3. SegmentsTile' /\ NothingHeld'
    BY <1>1, <2>1 DEF SegmentsTile, NothingHeld, At
  <2>4. ClausesReadTheReading'
    <3> SUFFICES ASSUME b.intact, b.segments # <<>>
                 PROVE  ReadingOf(ComposeSegmentReading(b.segments)) = b.reading
      BY <1>1, <2>1 DEF ClausesReadTheReading, SegmentsRead
    <3>1. CASE ClauseAnswer(b)
      <4>1. PICK split \in Splits(b.reading) : ReadAs(b.segments, split)
        BY <3>1 DEF ClauseAnswer
      <4> QED BY <1>0, <4>1, ClausesRead
    <3>2. CASE WholeAnswer(b)
      BY <3>2 DEF WholeAnswer, SegmentsRead
    <3> QED BY <1>3, <3>1, <3>2
  <2>6. WholesReadTheReading'
    <3> DEFINE reading == b.reading
               segments == b.segments
               plain == b.candidates
    <3>1. /\ reading \in Seq(Letters) /\ reading # <<>> /\ segments \in Seq(Segments) /\ plain \in Seq(Texts)
      BY <1>0
    <3>2. SUFFICES ASSUME b.intact, Len(segments) < 2
                   PROVE  \A i \in DOMAIN plain : ReadingOf(plain[i]) = reading
      <4>1. Len(segments) < 2 => ComposeSentence(plain, segments) = plain
        <5> HIDE DEF plain, segments
        <5> QED BY <3>1, ComposeIs
      <4> QED BY <1>1, <2>1, <4>1 DEF WholesReadTheReading
    <3>3. CASE ClauseAnswer(b)
      <4>1. PICK split \in Splits(reading) :
                ReadAs(segments, split) /\ \A i \in DOMAIN plain : ReadingOf(plain[i]) = split[1]
        BY <3>2, <3>3 DEF ClauseAnswer
      <4> HIDE DEF reading, segments, plain
      <4>2. Len(split) \in {1, 2} /\ (Len(split) = 1 => split = <<reading>>)
        BY <3>1, SplitIs
      <4>3. split = <<reading>>
        BY <3>2, <4>1, <4>2 DEF ReadAs
      <4> QED BY <4>1, <4>3
    <3>4. CASE WholeAnswer(b)
      BY <3>4 DEF WholeAnswer
    <3> QED BY <1>3, <3>3, <3>4
  <2>5. SentencesReadTheReading'
    <3> DEFINE reading == b.reading
               segments == b.segments
               plain == b.candidates
               all == ComposeSentence(plain, segments)
    <3>1. /\ reading \in Seq(Letters) /\ reading # <<>> /\ segments \in Seq(Segments) /\ plain \in Seq(Texts)
      BY <1>0
    <3> SUFFICES ASSUME b.fresh => b.intact,
                        Len(segments) > 1 => \A i \in DOMAIN plain :
                            ReadingOf(plain[i]) # reading => ~IsSuffix(TailOf(segments), plain[i])
                 PROVE  \A i \in DOMAIN all : IF b.fresh THEN ReadingOf(all[i]) = reading
                                              ELSE IsPrefix(reading, ReadingOf(all[i]))
      BY <1>1, <2>1 DEF SentencesReadTheReading, TailIsUnambiguous, TailOf, At
    <3>2. CASE ClauseAnswer(b)
      <4>1. PICK split \in Splits(reading) :
                ReadAs(segments, split) /\ \A i \in DOMAIN plain : ReadingOf(plain[i]) = split[1]
        BY <3>2 DEF ClauseAnswer
      <4>2. b.fresh
        BY <3>2 DEF ClauseAnswer
      <4> HIDE DEF reading, segments, plain
      <4>3. \A i \in DOMAIN all : ReadingOf(all[i]) = reading
        BY <3>1, <4>1, SentenceReads
      <4> QED BY <4>2, <4>3
    <3>3. CASE WholeAnswer(b)
      <4>1. \A i \in DOMAIN plain : ReadingOf(plain[i]) = reading
        BY <3>3 DEF WholeAnswer
      <4>2. CASE b.fresh
        <5>1. segments = <<>>
          BY <3>3, <4>2 DEF WholeAnswer
        <5> HIDE DEF segments, plain, reading
        <5>2. Len(segments) < 2
          BY <5>1
        <5>3. all = plain
          BY <3>1, <5>2, ComposeIs
        <5> QED BY <4>1, <4>2, <5>3
      <4>3. CASE ~b.fresh
        <5> HIDE DEF segments, plain, reading
        <5>1. \A i \in DOMAIN all : IsPrefix(reading, ReadingOf(all[i]))
          BY <3>1, <4>1, SentenceBegins
        <5> QED BY <4>3, <5>1
      <4> QED BY <4>2, <4>3
    <3> QED BY <1>3, <3>2, <3>3
  <2> QED BY <1>1, <2>2, <2>3, <2>4, <2>5, <2>6 DEF BridgeInv, BridgeAnswerInv, At
<1> QED BY <1>2, <1>3

-----------------------------------------------------------------------------
\* The steps of a call.

\* The next converter, when this one had no candidate.
LEMMA NextIsOngoing ==
    ASSUME NEW b \in BridgeRecords, b.reading # <<>>, b.candidates = <<>>, b.held = {},
           b.segments # <<>> => Tiles(b.segments, b.reading), SegmentsRead(b)
    PROVE  Ongoing(NextPipe(b))
<1> DEFINE n == NextPipe(b)
<1>1. n = [b EXCEPT !.at = IF b.pipes > 1 THEN "create" ELSE "load",
                    !.pipes = IF b.pipes > 1 THEN b.pipes - 1 ELSE b.pipes,
                    !.fresh = b.segments = <<>>, !.intact = b.intact \/ b.segments = <<>>]
  BY DEF NextPipe, BridgeRecords
<1>2. b.pipes \in Nat /\ (b.pipes > 1 => b.pipes - 1 \in Nat)
  BY DEF BridgeRecords
<1>3. /\ n.at \in {"create", "load"} /\ n.reading = b.reading /\ n.candidates = <<>> /\ n.held = {}
      /\ n.segments = b.segments /\ n.fresh = (b.segments = <<>>)
      /\ n.intact = (b.intact \/ b.segments = <<>>)
  BY <1>1 DEF BridgeRecords
<1>4. n \in BridgeRecords
  BY <1>1, <1>2 DEF BridgeRecords
<1> HIDE DEF n
<1>5. n.at # "answered" /\ n.at # "idle" /\ n.held \subseteq HeldAt(n.at)
  BY <1>3
<1>6. n.fresh <=> n.segments = <<>>
  BY <1>3
<1>7. SegmentsRead(n)
  BY <1>3 DEF SegmentsRead
<1>8. Ongoing(n)
  BY <1>3, <1>4, <1>5, <1>6, <1>7 DEF Ongoing
<1> QED BY <1>8 DEF n

LEMMA FoundIsOngoing ==
    ASSUME Ongoing(bridge), bridge.at \in {"pipes", "launch", "poll"}, NEW n \in Nat
    PROVE  Ongoing(FoundPipes(n))
<1>1. CASE n > 0
  <2> DEFINE b == [bridge EXCEPT !.at = "create", !.pipes = n]
  <2>1. b \in BridgeRecords
    BY DEF Ongoing, BridgeRecords
  <2>2. bridge.held = {}
    BY DEF Ongoing, HeldAt
  <2>3. Ongoing(b)
    BY <2>1, <2>2 DEF Ongoing, BridgeRecords, SegmentsRead
  <2> QED BY <1>1, <2>3 DEF FoundPipes
<1>2. CASE ~(n > 0)
  <2> DEFINE b == [bridge EXCEPT !.at = "load"]
  <2>1. b \in BridgeRecords
    BY DEF Ongoing, BridgeRecords
  <2>2. bridge.held = {}
    BY DEF Ongoing, HeldAt
  <2>3. Ongoing(b)
    BY <2>1, <2>2 DEF Ongoing, BridgeRecords, SegmentsRead
  <2> QED BY <1>2, <2>3 DEF FoundPipes
<1> QED BY <1>1, <1>2

LEMMA LastOf == Max(1 .. 4) = 4 /\ Max(1 .. 5) = 5
<1>1. \A k \in Nat \ {0} : Max(1 .. k) = k
  BY MaxOf
<1>2. 4 \in Nat \ {0} /\ 5 \in Nat \ {0}
  OBVIOUS
<1> QED BY <1>1, <1>2, Zenon

\* The next layout, or the end of the call.
LEMMA NextLayoutKeeps ==
    ASSUME NEW b \in BridgeRecords, b.reading # <<>>, b.candidates = <<>>, b.held = {},
           b.segments # <<>> => Tiles(b.segments, b.reading), SegmentsRead(b),
           b.fresh <=> b.segments = <<>>,
           bridge' = NextLayout(b)
    PROVE  BridgeInv'
<1>1. CASE b.layout = Max(Layouts)
  <2>1. bridge' = Respond(b)
    BY <1>1 DEF NextLayout
  <2>2. \A i \in DOMAIN b.candidates : b.candidates[i] # <<>>
    OBVIOUS
  <2> QED BY <2>1, <2>2, Answered
<1>2. CASE b.layout # Max(Layouts)
  <2>1. Max(Layouts) = 4
    BY LastOf DEF Layouts
  <2>2. b.layout + 1 \in Layouts
    BY <1>2, <2>1 DEF BridgeRecords, Layouts
  <2>3. bridge' = [b EXCEPT !.at = "load", !.layout = b.layout + 1, !.attempt = 1]
    BY <1>2 DEF NextLayout, BridgeRecords
  <2>4. bridge' \in BridgeRecords
    <3>1. 1 \in Attempts
      BY DEF Attempts
    <3> QED BY ZenonT(60), <2>2, <2>3, <3>1 DEF BridgeRecords
  <2>5. /\ bridge'.at = "load" /\ bridge'.reading = b.reading /\ bridge'.candidates = <<>>
        /\ bridge'.held = {} /\ bridge'.segments = b.segments /\ bridge'.fresh = b.fresh
        /\ bridge'.intact = b.intact
    BY <2>3 DEF BridgeRecords
  <2>6. Ongoing(bridge')
    BY <2>4, <2>5 DEF Ongoing, SegmentsRead
  <2> QED BY <2>5, <2>6 DEF BridgeInv, At
<1> QED BY <1>1, <1>2

LEMMA ConvertKeeps ==
    ASSUME Ongoing(bridge), Convert
    PROVE  BridgeInv'
<1>1. /\ bridge \in BridgeRecords /\ bridge.at = "convert" /\ bridge.held = {}
      /\ bridge.reading # <<>> /\ bridge.reading \in Seq(Letters)
  BY DEF Convert, At, Ongoing, HeldAt, BridgeRecords
<1> DEFINE reading == bridge.reading
<1>2. PICK r \in Replies(reading) :
        LET fromList == BuildSegmentsFromCandidateList(r.list, reading)
            fromPreedit == BuildSegmentsFromPreedit(r.preedit, reading)
            primary == ExtractPrimarySegmentCandidates(r.list)
            b == [bridge EXCEPT
                     !.segments = IF fromList # <<>> THEN fromList ELSE fromPreedit,
                     !.source = IF fromList # <<>> THEN "candidate_list"
                                ELSE IF fromPreedit # <<>> THEN "preedit" ELSE "none",
                     !.candidates = IF primary # <<>> THEN primary ELSE Distinct(r.window),
                     !.fresh = TRUE, !.intact = r.intact]
        IN  bridge' = (IF b.candidates # <<>> THEN Respond(b) ELSE NextPipe(b))
  BY DEF Convert, Move
<1> DEFINE from == IF BuildSegmentsFromCandidateList(r.list, reading) # <<>> THEN "candidate_list"
                   ELSE IF BuildSegmentsFromPreedit(r.preedit, reading) # <<>> THEN "preedit" ELSE "none"
           segments == SegmentsOf(r, reading)
           candidates == CandidatesOf(r)
           intact == r.intact
           b == [bridge EXCEPT !.segments = segments, !.source = from, !.candidates = candidates,
                               !.fresh = TRUE, !.intact = intact]
<1>3. bridge' = (IF b.candidates # <<>> THEN Respond(b) ELSE NextPipe(b))
  BY <1>2 DEF SegmentsOf, CandidatesOf
<1>4. from \in {"none", "candidate_list", "preedit"}
  OBVIOUS
<1>5. /\ segments \in Seq(Segments) /\ (segments # <<>> => Tiles(segments, reading))
      /\ candidates \in Seq(Texts) /\ (\A i \in DOMAIN candidates : candidates[i] # <<>>)
      /\ intact \in BOOLEAN
  BY <1>1, ConvertedTyped
<1>6. intact => \E split \in Splits(reading) :
          /\ ReadAs(segments, split) /\ segments # <<>>
          /\ \A i \in DOMAIN candidates : ReadingOf(candidates[i]) = split[1]
  BY <1>1, ConvertedReads
<1> HIDE DEF from, segments, candidates, intact
<1>7. b \in BridgeRecords
  BY <1>1, <1>4, <1>5 DEF BridgeRecords
<1>8. /\ b.at = "convert" /\ b.reading = reading /\ b.held = {} /\ b.segments = segments
      /\ b.candidates = candidates /\ b.fresh = TRUE /\ b.intact = intact
  BY <1>1 DEF BridgeRecords
<1> HIDE DEF b
<1>11. SegmentsRead(b)
  <2> SUFFICES ASSUME intact PROVE ReadingOf(ComposeSegmentReading(segments)) = reading
    BY <1>8 DEF SegmentsRead
  <2>1. PICK split \in Splits(reading) : ReadAs(segments, split)
    BY <1>6
  <2> QED BY <1>1, <2>1, ClausesRead
<1>9. CASE b.candidates # <<>>
  <2>1. ClauseAnswer(b)
    BY <1>6, <1>8 DEF ClauseAnswer
  <2>2. bridge' = Respond(b)
    BY <1>3, <1>9
  <2>3. b.segments # <<>> => Tiles(b.segments, b.reading)
    BY <1>5, <1>8
  <2>4. \A i \in DOMAIN b.candidates : b.candidates[i] # <<>>
    BY <1>5, <1>8
  <2> QED BY <1>1, <1>7, <1>8, <2>1, <2>2, <2>3, <2>4, Answered
<1>10. CASE b.candidates = <<>>
  <2>1. bridge' = NextPipe(b)
    BY <1>3, <1>10
  <2>2. b.segments # <<>> => Tiles(b.segments, b.reading)
    BY <1>5, <1>8
  <2>3. Ongoing(NextPipe(b))
    BY <1>1, <1>7, <1>8, <1>10, <1>11, <2>2, NextIsOngoing
  <2> QED BY <2>1, <2>3 DEF BridgeInv, Ongoing, At
<1> QED BY <1>9, <1>10

LEMMA AskLayoutKeeps ==
    ASSUME Ongoing(bridge), AskLayout
    PROVE  BridgeInv'
<1>1. /\ bridge \in BridgeRecords /\ bridge.at = "ask" /\ bridge.reading # <<>>
      /\ bridge.reading \in Seq(Letters) /\ bridge.attempt \in Attempts
  BY DEF AskLayout, At, Ongoing, BridgeRecords
<1>2. PICK texts \in Conversions(bridge.reading) :
        LET last == IF bridge.katakana THEN Max(Attempts) ELSE Max(Attempts) - 1
        IN  bridge' = (IF texts = <<>> /\ bridge.attempt < last
                       THEN [bridge EXCEPT !.attempt = @ + 1]
                       ELSE [bridge EXCEPT !.at = "restore", !.candidates = Distinct(texts)])
  BY DEF AskLayout, Move
<1>3. texts \in Seq(Texts) /\ \A i \in DOMAIN texts : ReadingOf(texts[i]) = bridge.reading
  BY <1>1, ConversionsRead
<1>4. /\ Distinct(texts) \in Seq(Texts)
      /\ \A i \in DOMAIN Distinct(texts) : ReadingOf(Distinct(texts)[i]) = bridge.reading
  BY <1>3, DistinctReads
<1> DEFINE last == IF bridge.katakana THEN Max(Attempts) ELSE Max(Attempts) - 1
           found == Distinct(texts)
<1>5. CASE texts = <<>> /\ bridge.attempt < last
  <2>1. Max(Attempts) = 5
    BY LastOf DEF Attempts
  <2>2. bridge.attempt + 1 \in Attempts
    BY <1>1, <1>5, <2>1 DEF Attempts
  <2>3. bridge' = [bridge EXCEPT !.attempt = bridge.attempt + 1]
    BY <1>1, <1>2, <1>5 DEF BridgeRecords
  <2>4. bridge' \in BridgeRecords
    BY <1>1, <2>2, <2>3 DEF BridgeRecords
  <2>5. /\ bridge'.at = bridge.at /\ bridge'.reading = bridge.reading
        /\ bridge'.candidates = bridge.candidates /\ bridge'.held = bridge.held
        /\ bridge'.segments = bridge.segments /\ bridge'.fresh = bridge.fresh
        /\ bridge'.intact = bridge.intact
    BY <1>1, <2>3 DEF BridgeRecords
  <2>6. Ongoing(bridge')
    BY <1>1, <2>4, <2>5 DEF Ongoing, SegmentsRead
  <2> QED BY <2>6 DEF Ongoing, BridgeInv, At
<1>6. CASE ~(texts = <<>> /\ bridge.attempt < last)
  <2>1. bridge' = [bridge EXCEPT !.at = "restore", !.candidates = found]
    BY <1>2, <1>6
  <2>2. /\ found \in Seq(Texts) /\ \A i \in DOMAIN found : ReadingOf(found[i]) = bridge.reading
    BY <1>4
  <2> HIDE DEF found
  <2>3. bridge' \in BridgeRecords
    BY <1>1, <2>1, <2>2 DEF BridgeRecords
  <2>4. /\ bridge'.at = "restore" /\ bridge'.reading = bridge.reading
        /\ bridge'.candidates = found /\ bridge'.held = bridge.held
        /\ bridge'.segments = bridge.segments /\ bridge'.fresh = bridge.fresh
        /\ bridge'.intact = bridge.intact
    BY <1>1, <2>1 DEF BridgeRecords
  <2>5. HeldAt("ask") = HeldAt("restore")
    BY DEF HeldAt
  <2>6. Ongoing(bridge')
    BY <1>1, <2>2, <2>3, <2>4, <2>5 DEF Ongoing, SegmentsRead
  <2> QED BY <2>4, <2>6 DEF BridgeInv, At
<1> QED BY <1>5, <1>6

\* A step that goes on, and changes neither the candidates nor the segments.
LEMMA GoesOn ==
    ASSUME Ongoing(bridge), bridge' \in BridgeRecords,
           bridge'.at \notin {"idle", "answered"}, bridge.at # "idle",
           bridge'.at = "poll" => bridge'.polls # 0,
           bridge'.at \in {"restore", "unload"} \/ bridge.candidates = <<>>,
           bridge'.held \subseteq HeldAt(bridge'.at),
           bridge'.reading = bridge.reading, bridge'.candidates = bridge.candidates,
           bridge'.segments = bridge.segments, bridge'.fresh = bridge.fresh,
           bridge'.intact = bridge.intact
    PROVE  BridgeInv'
<1>1. Ongoing(bridge')
  BY DEF Ongoing, SegmentsRead
<1> QED BY <1>1 DEF BridgeInv, At

LEMMA UnloadLayoutKeeps ==
    ASSUME Ongoing(bridge), UnloadLayout
    PROVE  BridgeInv'
<1> DEFINE b == [bridge EXCEPT !.held = bridge.held \ {"loaded"}]
<1>1. /\ bridge \in BridgeRecords /\ bridge.at = "unload" /\ bridge.held \subseteq {"loaded"}
      /\ bridge.reading # <<>> /\ bridge.candidates \in Seq(Texts) /\ bridge.reading \in Seq(Letters)
  BY DEF UnloadLayout, At, Ongoing, HeldAt, BridgeRecords
<1>2. bridge' = (IF b.candidates # <<>> THEN Respond(b) ELSE NextLayout(b))
  BY <1>1 DEF UnloadLayout, Move, BridgeRecords
<1>3. b \in BridgeRecords
  BY <1>1 DEF BridgeRecords
<1>4. /\ b.held = {} /\ b.reading = bridge.reading /\ b.candidates = bridge.candidates
      /\ b.segments = bridge.segments /\ b.fresh = bridge.fresh /\ b.intact = bridge.intact
  BY <1>1 DEF BridgeRecords
<1> HIDE DEF b
<1>5. /\ b.segments # <<>> => Tiles(b.segments, b.reading)
      /\ SegmentsRead(b)
      /\ b.fresh <=> b.segments = <<>>
      /\ \A i \in DOMAIN b.candidates : ReadingOf(b.candidates[i]) = b.reading
  BY <1>4 DEF Ongoing, SegmentsRead
<1>6. CASE b.candidates # <<>>
  <2>1. WholeAnswer(b)
    BY <1>5 DEF WholeAnswer
  <2>2. \A i \in DOMAIN b.candidates : b.candidates[i] # <<>>
    BY <1>1, <1>4, <1>5, NothingReads
  <2>3. bridge' = Respond(b)
    BY <1>2, <1>6
  <2> QED BY <1>1, <1>3, <1>4, <1>5, <2>1, <2>2, <2>3, Answered
<1>7. CASE b.candidates = <<>>
  <2>1. bridge' = NextLayout(b)
    BY <1>2, <1>7
  <2> QED BY <1>1, <1>3, <1>4, <1>5, <1>7, <2>1, NextLayoutKeeps
<1> QED BY <1>6, <1>7

LEMMA PipeSteps ==
    ASSUME Ongoing(bridge), PipeStep
    PROVE  BridgeInv'
<1>0. bridge \in BridgeRecords
  BY DEF Ongoing
<1>1. CASE FindPipes
  <2>1. PICK n \in 1 .. MaxPipes : bridge' = FoundPipes(n)
    BY <1>1 DEF FindPipes, Move
  <2>2. n \in Nat /\ bridge.at = "pipes"
    BY <1>1, PipesAssumption DEF FindPipes, At
  <2>3. Ongoing(bridge')
    BY <2>1, <2>2, FoundIsOngoing
  <2> QED BY <2>3 DEF BridgeInv, Ongoing, At
<1>2. CASE FindNoPipe
  <2>1. bridge' = [bridge EXCEPT !.at = "launch"] /\ bridge.at = "pipes"
    BY <1>2 DEF FindNoPipe, Move, At
  <2>2. bridge' \in BridgeRecords
    BY <1>0, <2>1 DEF BridgeRecords
  <2>3. HeldAt("pipes") = {}
    BY DEF HeldAt
  <2> QED BY <1>0, <2>1, <2>2, <2>3, GoesOn DEF Ongoing, BridgeRecords
<1>3. CASE LaunchConverter
  <2>1. bridge' = [bridge EXCEPT !.at = "poll", !.polls = Polls] /\ bridge.at = "launch"
    BY <1>3 DEF LaunchConverter, Move, At
  <2>2. bridge' \in BridgeRecords
    BY <1>0, <2>1, PipesAssumption DEF BridgeRecords
  <2>3. HeldAt("launch") = {} /\ HeldAt("poll") = {}
    BY DEF HeldAt
  <2>4. bridge'.at = "poll" /\ bridge'.polls # 0
    BY <1>0, <2>1, PipesAssumption DEF BridgeRecords
  <2> QED BY <1>0, <2>1, <2>2, <2>3, <2>4, GoesOn DEF Ongoing, BridgeRecords
<1>4. CASE LaunchConverterFails
  <2>1. bridge' = FoundPipes(0) /\ bridge.at = "launch"
    BY <1>4 DEF LaunchConverterFails, Move, At
  <2>2. Ongoing(bridge')
    BY <2>1, FoundIsOngoing
  <2> QED BY <2>2 DEF BridgeInv, Ongoing, At
<1>5. CASE PollPipes
  <2>1. PICK n \in 0 .. MaxPipes : bridge' = (IF n > 0 \/ bridge.polls = 1 THEN FoundPipes(n)
             ELSE [bridge EXCEPT !.polls = @ - 1])
    BY <1>5 DEF PollPipes, Move
  <2>2. n \in Nat /\ bridge.at = "poll"
    BY <1>5, PipesAssumption DEF PollPipes, At
  <2>3. CASE n > 0 \/ bridge.polls = 1
    <3>1. bridge' = FoundPipes(n)
      BY <2>1, <2>3
    <3>2. Ongoing(bridge')
      BY <2>2, <3>1, FoundIsOngoing
    <3> QED BY <3>2 DEF BridgeInv, Ongoing, At
  <2>4. CASE ~(n > 0 \/ bridge.polls = 1)
    <3>0. bridge' = [bridge EXCEPT !.polls = bridge.polls - 1]
      BY <1>0, <2>1, <2>4 DEF BridgeRecords
    <3>1. bridge.polls \in Nat /\ bridge.polls # 0
      BY <1>0, <2>2 DEF Ongoing, BridgeRecords
    <3>2. bridge.polls - 1 \in Nat /\ bridge.polls - 1 # 0
      BY <2>4, <3>1
    <3>3. bridge' \in BridgeRecords
      BY <1>0, <3>0, <3>2 DEF BridgeRecords
    <3>4. HeldAt("poll") = {}
      BY DEF HeldAt
    <3> QED BY <1>0, <2>2, <3>0, <3>2, <3>3, <3>4, GoesOn DEF Ongoing, BridgeRecords
  <2> QED BY <2>3, <2>4
<1>6. CASE CreateSession
  <2>1. bridge' = [bridge EXCEPT !.at = "convert"] /\ bridge.at = "create"
    BY <1>6 DEF CreateSession, Move, At
  <2>2. bridge' \in BridgeRecords
    BY <1>0, <2>1 DEF BridgeRecords
  <2>3. HeldAt("create") = {}
    BY DEF HeldAt
  <2> QED BY <1>0, <2>1, <2>2, <2>3, GoesOn DEF Ongoing, BridgeRecords
<1>7. CASE CreateSessionFails \/ ConvertFails
  <2>1. bridge' = NextPipe(bridge) /\ bridge.at \in {"create", "convert"}
    BY <1>7 DEF CreateSessionFails, ConvertFails, Move, At
  <2>2. bridge.held = {} /\ bridge.candidates = <<>> /\ bridge.reading # <<>>
    BY <2>1 DEF Ongoing, HeldAt
  <2>3. Ongoing(bridge')
    BY <1>0, <2>1, <2>2, NextIsOngoing DEF Ongoing
  <2> QED BY <2>3 DEF BridgeInv, Ongoing, At
<1>8. CASE Convert
  BY <1>8, ConvertKeeps
<1> QED BY <1>1, <1>2, <1>3, <1>4, <1>5, <1>6, <1>7, <1>8 DEF PipeStep

LEMMA LayoutSteps ==
    ASSUME Ongoing(bridge), LayoutStep
    PROVE  BridgeInv'
<1>0. bridge \in BridgeRecords
  BY DEF Ongoing
<1>h. /\ HeldAt("load") = {} /\ HeldAt("window") = {"loaded"} /\ HeldAt("activate") = {"loaded", "window"}
      /\ HeldAt("context") = {"loaded", "window", "activated"}
      /\ HeldAt("ask") = {"loaded", "window", "activated", "context"}
      /\ HeldAt("restore") = {"loaded", "window", "activated", "context"}
      /\ HeldAt("unload") = {"loaded"}
  BY DEF HeldAt
<1>1. CASE LoadLayout
  <2> DEFINE held == IF bridge.layout = 1 THEN {} ELSE {"loaded"}
  <2>1. bridge' = [bridge EXCEPT !.at = "window", !.held = held] /\ bridge.at = "load"
    BY <1>1 DEF LoadLayout, Move, At
  <2>2. held \subseteq {"loaded"}
    OBVIOUS
  <2> HIDE DEF held
  <2>3. bridge' \in BridgeRecords
    BY <1>0, <2>1, <2>2 DEF BridgeRecords
  <2> QED BY <1>0, <1>h, <2>1, <2>2, <2>3, GoesOn DEF Ongoing, BridgeRecords
<1>2. CASE LoadLayoutFails
  <2>1. bridge' = NextLayout(bridge) /\ bridge.at = "load"
    BY <1>2 DEF LoadLayoutFails, Move, At
  <2>2. bridge.held = {} /\ bridge.candidates = <<>> /\ bridge.reading # <<>>
    BY <1>h, <2>1 DEF Ongoing
  <2> QED BY <1>0, <2>1, <2>2, NextLayoutKeeps DEF Ongoing
<1>3. CASE CreateBridgeWindow
  <2>1. bridge' = [bridge EXCEPT !.at = "activate", !.held = bridge.held \cup {"window"}] /\ bridge.at = "window"
    BY <1>0, <1>3 DEF CreateBridgeWindow, Move, At, BridgeRecords
  <2>2. bridge.held \subseteq {"loaded"}
    BY <1>h, <2>1 DEF Ongoing
  <2>3. bridge' \in BridgeRecords
    BY <1>0, <2>1, <2>2 DEF BridgeRecords
  <2>4. bridge'.held \subseteq {"loaded", "window"} /\ bridge'.at = "activate"
    BY <1>0, <2>1, <2>2 DEF BridgeRecords
  <2> QED BY <1>0, <1>h, <2>1, <2>3, <2>4, GoesOn DEF Ongoing, BridgeRecords
<1>4. CASE CreateBridgeWindowFails
  <2>1. bridge' = [bridge EXCEPT !.at = "unload"] /\ bridge.at = "window"
    BY <1>4 DEF CreateBridgeWindowFails, Move, At
  <2>2. bridge.held \subseteq {"loaded"}
    BY <1>h, <2>1 DEF Ongoing
  <2>3. bridge' \in BridgeRecords
    BY <1>0, <2>1 DEF BridgeRecords
  <2> QED BY <1>0, <1>h, <2>1, <2>2, <2>3, GoesOn DEF Ongoing, BridgeRecords
<1>5. CASE ActivateLayout
  <2>1. PICK activated \in SUBSET {"activated"} :
            bridge' = [bridge EXCEPT !.at = "context", !.held = @ \cup activated]
    BY <1>5 DEF ActivateLayout, Move
  <2>2. bridge' = [bridge EXCEPT !.at = "context", !.held = bridge.held \cup activated] /\ bridge.at = "activate"
    BY <1>0, <1>5, <2>1 DEF ActivateLayout, At, BridgeRecords
  <2>3. bridge.held \subseteq {"loaded", "window"}
    BY <1>h, <2>2 DEF Ongoing
  <2>4. bridge' \in BridgeRecords
    BY <1>0, <2>2, <2>3 DEF BridgeRecords
  <2>5. bridge'.held \subseteq {"loaded", "window", "activated"} /\ bridge'.at = "context"
    BY <1>0, <2>2, <2>3 DEF BridgeRecords
  <2> QED BY <1>0, <1>h, <2>2, <2>4, <2>5, GoesOn DEF Ongoing, BridgeRecords
<1>6. CASE CreateContext
  <2>1. bridge' = [bridge EXCEPT !.at = "ask", !.held = bridge.held \cup {"context"}] /\ bridge.at = "context"
    BY <1>0, <1>6 DEF CreateContext, Move, At, BridgeRecords
  <2>2. bridge.held \subseteq {"loaded", "window", "activated"}
    BY <1>h, <2>1 DEF Ongoing
  <2>3. bridge' \in BridgeRecords
    BY <1>0, <2>1, <2>2 DEF BridgeRecords
  <2>4. bridge'.held \subseteq {"loaded", "window", "activated", "context"} /\ bridge'.at = "ask"
    BY <1>0, <2>1, <2>2 DEF BridgeRecords
  <2> QED BY <1>0, <1>h, <2>1, <2>3, <2>4, GoesOn DEF Ongoing, BridgeRecords
<1>7. CASE CreateContextFails
  <2>1. bridge' = [bridge EXCEPT !.at = "restore"] /\ bridge.at = "context"
    BY <1>7 DEF CreateContextFails, Move, At
  <2>2. bridge.held \subseteq {"loaded", "window", "activated"}
    BY <1>h, <2>1 DEF Ongoing
  <2>3. bridge' \in BridgeRecords
    BY <1>0, <2>1 DEF BridgeRecords
  <2> QED BY <1>0, <1>h, <2>1, <2>2, <2>3, GoesOn DEF Ongoing, BridgeRecords
<1>8. CASE AskLayout
  BY <1>8, AskLayoutKeeps
<1>9. CASE RestoreLayout
  <2> DEFINE held == bridge.held \ {"window", "context", "activated"}
  <2>1. bridge' = [bridge EXCEPT !.at = "unload", !.held = held] /\ bridge.at = "restore"
    BY <1>0, <1>9 DEF RestoreLayout, Move, At, BridgeRecords
  <2>2. held \subseteq {"loaded"}
    BY <1>0 DEF BridgeRecords
  <2> HIDE DEF held
  <2>3. bridge' \in BridgeRecords
    BY <1>0, <2>1, <2>2 DEF BridgeRecords
  <2> QED BY <1>0, <1>h, <2>1, <2>2, <2>3, GoesOn DEF Ongoing, BridgeRecords
<1>10. CASE UnloadLayout
  BY <1>10, UnloadLayoutKeeps
<1> QED BY <1>1, <1>2, <1>3, <1>4, <1>5, <1>6, <1>7, <1>8, <1>9, <1>10 DEF LayoutStep

LEMMA BridgeSteps ==
    ASSUME Ongoing(bridge), BridgeStep
    PROVE  BridgeInv'
BY PipeSteps, LayoutSteps DEF BridgeStep

LEMMA BridgeCalls ==
    ASSUME NEW reading \in Seq(Letters), reading # <<>>, NEW katakana \in BOOLEAN,
           BridgeCall(reading, katakana)
    PROVE  Ongoing(bridge)' /\ bridge'.at = "pipes" /\ bridge'.reading = reading
<1>1. IdleBridge \in BridgeRecords /\ bridge' = [IdleBridge EXCEPT !.at = "pipes", !.reading = reading, !.katakana = katakana]
  BY BridgeBegins DEF BridgeCall, Move, Ongoing
<1>2. bridge' \in BridgeRecords
  BY <1>1 DEF BridgeRecords
<1>3. /\ bridge'.at = "pipes" /\ bridge'.reading = reading /\ bridge'.held = {}
      /\ bridge'.candidates = <<>> /\ bridge'.segments = <<>> /\ bridge'.fresh = TRUE
  BY <1>1 DEF IdleBridge
<1> QED BY <1>2, <1>3 DEF Ongoing, SegmentsRead

\* A step of the call keeps what it was asked for, and a call that has begun
\* stays begun.
LEMMA StaysAsked ==
    ASSUME Ongoing(bridge), BridgeStep
    PROVE  bridge'.reading = bridge.reading /\ bridge'.at # "idle"
<1>0. bridge \in BridgeRecords
  BY DEF Ongoing
<1>1. \A b \in BridgeRecords : /\ Respond(b).reading = b.reading /\ Respond(b).at = "answered"
                              /\ NextPipe(b).reading = b.reading /\ NextPipe(b).at \in {"create", "load"}
  BY RespondIs DEF NextPipe, BridgeRecords
<1>2. \A n : FoundPipes(n).reading = bridge.reading /\ FoundPipes(n).at \in {"create", "load"}
  BY <1>0 DEF FoundPipes, BridgeRecords
<1>3. \A b \in BridgeRecords : NextLayout(b).reading = b.reading /\ NextLayout(b).at \in {"answered", "load"}
  BY <1>1 DEF NextLayout, BridgeRecords
<1>4. CASE FindPipes \/ LaunchConverterFails \/ CreateSessionFails \/ ConvertFails \/ LoadLayoutFails
  BY <1>0, <1>1, <1>2, <1>3, <1>4
     DEF FindPipes, LaunchConverterFails, CreateSessionFails, ConvertFails, LoadLayoutFails, Move
<1>5. CASE FindNoPipe \/ LaunchConverter \/ CreateSession
  BY <1>0, <1>5 DEF FindNoPipe, LaunchConverter, CreateSession, Move, BridgeRecords
<1>6. CASE PollPipes
  BY <1>0, <1>2, <1>6 DEF PollPipes, Move, At, BridgeRecords
<1>7. CASE LoadLayout \/ CreateBridgeWindow \/ CreateBridgeWindowFails \/ ActivateLayout
           \/ CreateContext \/ CreateContextFails \/ RestoreLayout
  BY <1>0, <1>7 DEF LoadLayout, CreateBridgeWindow, CreateBridgeWindowFails, ActivateLayout,
                   CreateContext, CreateContextFails, RestoreLayout, Move, BridgeRecords
<1>8. CASE AskLayout
  BY <1>0, <1>8 DEF AskLayout, Move, At, BridgeRecords
<1>9. \A b : DOMAIN b = DOMAIN bridge =>
         /\ Respond(b).reading = b.reading /\ Respond(b).at = "answered"
         /\ NextPipe(b).reading = b.reading /\ NextPipe(b).at \in {"create", "load"}
         /\ NextLayout(b).reading = b.reading /\ NextLayout(b).at \in {"answered", "load"}
  <2> SUFFICES ASSUME NEW b, DOMAIN b = DOMAIN bridge
               PROVE  /\ Respond(b).reading = b.reading /\ Respond(b).at = "answered"
                      /\ NextPipe(b).reading = b.reading /\ NextPipe(b).at \in {"create", "load"}
                      /\ NextLayout(b).reading = b.reading /\ NextLayout(b).at \in {"answered", "load"}
    OBVIOUS
  <2>1. "reading" \in DOMAIN b /\ "at" \in DOMAIN b
    BY <1>0 DEF BridgeRecords
  <2>2. Respond(b).reading = b.reading /\ Respond(b).at = "answered"
    BY <2>1 DEF Respond
  <2>3. NextPipe(b).reading = b.reading /\ NextPipe(b).at \in {"create", "load"}
    BY <2>1 DEF NextPipe
  <2>4. NextLayout(b).reading = b.reading /\ NextLayout(b).at \in {"answered", "load"}
    BY <2>1, <2>2 DEF NextLayout
  <2> QED BY <2>2, <2>3, <2>4
<1>10. CASE UnloadLayout
  <2> DEFINE b == [bridge EXCEPT !.held = @ \ {"loaded"}]
  <2>1. DOMAIN b = DOMAIN bridge /\ b.reading = bridge.reading
    BY <1>0 DEF BridgeRecords
  <2>2. bridge' = (IF b.candidates # <<>> THEN Respond(b) ELSE NextLayout(b))
    BY <1>10 DEF UnloadLayout, Move
  <2> HIDE DEF b
  <2> QED BY <1>9, <2>1, <2>2
<1>11. CASE Convert
  <2>1. PICK r \in Replies(bridge.reading) :
        LET fromList == BuildSegmentsFromCandidateList(r.list, bridge.reading)
            fromPreedit == BuildSegmentsFromPreedit(r.preedit, bridge.reading)
            primary == ExtractPrimarySegmentCandidates(r.list)
            b == [bridge EXCEPT
                     !.segments = IF fromList # <<>> THEN fromList ELSE fromPreedit,
                     !.source = IF fromList # <<>> THEN "candidate_list"
                                ELSE IF fromPreedit # <<>> THEN "preedit" ELSE "none",
                     !.candidates = IF primary # <<>> THEN primary ELSE Distinct(r.window),
                     !.fresh = TRUE, !.intact = r.intact]
        IN  bridge' = (IF b.candidates # <<>> THEN Respond(b) ELSE NextPipe(b))
    BY <1>11 DEF Convert, Move
  <2> DEFINE source == IF BuildSegmentsFromCandidateList(r.list, bridge.reading) # <<>> THEN "candidate_list"
                       ELSE IF BuildSegmentsFromPreedit(r.preedit, bridge.reading) # <<>> THEN "preedit" ELSE "none"
             segments == SegmentsOf(r, bridge.reading)
             candidates == CandidatesOf(r)
             intact == r.intact
             b == [bridge EXCEPT !.segments = segments, !.source = source, !.candidates = candidates,
                                 !.fresh = TRUE, !.intact = intact]
  <2>2. bridge' = (IF b.candidates # <<>> THEN Respond(b) ELSE NextPipe(b))
    BY <2>1 DEF SegmentsOf, CandidatesOf
  <2> HIDE DEF source, segments, candidates, intact
  <2>3. DOMAIN b = DOMAIN bridge /\ b.reading = bridge.reading
    BY <1>0 DEF BridgeRecords
  <2> HIDE DEF b
  <2>4. bridge' = Respond(b) \/ bridge' = NextPipe(b)
    BY <2>2
  <2> QED BY <1>9, <2>3, <2>4
<1> QED BY <1>4, <1>5, <1>6, <1>7, <1>8, <1>10, <1>11 DEF BridgeStep, PipeStep, LayoutStep

-----------------------------------------------------------------------------
\* The provider that the settings make.

\* The settings, by the stages that read them.
MozcSettings ==
    [enabled : BOOLEAN, transport : {"bridge", "imm32", "native", "invalid"},
     backend : {"unset", "mozc_server_client", "linked_converter", "invalid"},
     policy : {"none", "imm32", "bridge", "invalid"}, artifacts : BOOLEAN, positive : BOOLEAN]
Settings ==
    [mode : ProviderModes, dictionary : BOOLEAN, mozc : MozcSettings,
     translation : [mode : TranslationModes, dictionary : BOOLEAN],
     logging : BOOLEAN, thrown : BOOLEAN, error : BOOLEAN]

\* Nothing is thrown in silence.
Told(s) == s \in Settings /\ (s.thrown => s.error)

\* What a stage may make of s: what was reported stays reported.
After(t, s) == Told(t) /\ (s.error => t.error) /\ (s.thrown => t.thrown)

\* The fields that the conversion is chosen by are left alone.
KeepsKana(t, s) == t.mode = s.mode /\ t.dictionary = s.dictionary /\ t.mozc = s.mozc

LEMMA FieldsAre ==
    ASSUME NEW c \in Configurations
    PROVE  /\ c.mode \in ProviderModes \cup {"absent", "unknown", "bad"}
           /\ c.dictionary \in Switches /\ c.mozc \in Switches
           /\ c.transport \in {"absent", "bridge", "server", "imm32", "native", "unknown"}
           /\ c.native \in NativeSections /\ c.translation \in TranslationSections
           /\ c.logging \in {"absent", "on", "noPath", "bad"}
BY DEF Configurations

LEMMA NativeSectionIs ==
    ASSUME NEW section \in NativeSections
    PROVE  section \in [backend : {"absent", "mozc_server_client", "linked_converter", "unknown"},
                       policy : {"absent", "none", "imm32", "bridge", "unknown"},
                       artifacts : BOOLEAN, positive : BOOLEAN]
<1>1. \/ section \in {GoodNative, [GoodNative EXCEPT !.artifacts = FALSE], [GoodNative EXCEPT !.positive = FALSE]}
      \/ \E b \in {"absent", "linked_converter", "unknown"} : section = [GoodNative EXCEPT !.backend = b]
      \/ \E p \in {"absent", "imm32", "bridge", "unknown"} : section = [GoodNative EXCEPT !.policy = p]
  BY DEF NativeSections
<1>2. CASE section \in {GoodNative, [GoodNative EXCEPT !.artifacts = FALSE], [GoodNative EXCEPT !.positive = FALSE]}
  <2>1. CASE section = GoodNative
    BY <2>1 DEF GoodNative
  <2>2. CASE section = [GoodNative EXCEPT !.artifacts = FALSE]
    BY <2>2 DEF GoodNative
  <2>3. CASE section = [GoodNative EXCEPT !.positive = FALSE]
    BY <2>3 DEF GoodNative
  <2> QED BY <1>2, <2>1, <2>2, <2>3
<1>3. ASSUME NEW b \in {"absent", "linked_converter", "unknown"}, section = [GoodNative EXCEPT !.backend = b]
      PROVE  section \in [backend : {"absent", "mozc_server_client", "linked_converter", "unknown"},
                         policy : {"absent", "none", "imm32", "bridge", "unknown"},
                         artifacts : BOOLEAN, positive : BOOLEAN]
  BY <1>3 DEF GoodNative
<1>4. ASSUME NEW p \in {"absent", "imm32", "bridge", "unknown"}, section = [GoodNative EXCEPT !.policy = p]
      PROVE  section \in [backend : {"absent", "mozc_server_client", "linked_converter", "unknown"},
                         policy : {"absent", "none", "imm32", "bridge", "unknown"},
                         artifacts : BOOLEAN, positive : BOOLEAN]
  BY <1>4 DEF GoodNative
<1> QED BY <1>1, <1>2, <1>3, <1>4

LEMMA TranslationSectionIs ==
    ASSUME NEW section \in TranslationSections
    PROVE  /\ section.given \in BOOLEAN
           /\ section.mode \in TranslationModes \cup {"absent", "unknown", "bad"}
           /\ section.dictionary \in Switches
           /\ ~section.given => section.mode = "absent"
<1>1. CASE section = [given |-> FALSE, mode |-> "absent", dictionary |-> "absent"]
  BY <1>1 DEF Switches
<1>2. CASE section \in [given : {TRUE}, mode : TranslationModes \cup {"absent", "unknown", "bad"},
                        dictionary : Switches]
  <2>1. section.given = TRUE
    BY <1>2
  <2> QED BY <1>2, <2>1
<1> QED BY <1>1, <1>2 DEF TranslationSections

LEMMA SwitchedOnIs ==
    ASSUME NEW switch, NEW default \in BOOLEAN
    PROVE  SwitchedOn(switch, default) \in BOOLEAN
BY DEF SwitchedOn

LEMMA ThrowIs ==
    ASSUME NEW s \in Settings
    PROVE  After(Throw(s), s) /\ KeepsKana(Throw(s), s) /\ Throw(s).thrown
BY DEF Throw, After, Told, KeepsKana, Settings

LEMMA ReportIs ==
    ASSUME NEW s \in Settings, Told(s), NEW problem \in BOOLEAN
    PROVE  /\ After(Report(s, problem), s) /\ KeepsKana(Report(s, problem), s)
           /\ Report(s, problem).translation = s.translation
           /\ Report(s, problem).logging = s.logging
           /\ Report(s, problem).thrown = s.thrown
           /\ problem => Report(s, problem).error
<1> DEFINE t == Report(s, problem)
<1>1. t = [s EXCEPT !.error = s.error \/ problem]
  BY DEF Report, Settings
<1>2. s.error \in BOOLEAN /\ (s.error \/ problem) \in BOOLEAN
  BY DEF Settings
<1>3. t \in Settings
  BY <1>1, <1>2 DEF Settings
<1>4. /\ t.mode = s.mode /\ t.dictionary = s.dictionary /\ t.mozc = s.mozc
      /\ t.translation = s.translation /\ t.logging = s.logging /\ t.thrown = s.thrown
      /\ t.error = (s.error \/ problem)
  BY <1>1 DEF Settings
<1> HIDE DEF t
<1>5. After(t, s) /\ KeepsKana(t, s) /\ (problem => t.error)
  BY <1>3, <1>4 DEF After, Told, KeepsKana
<1> QED BY <1>4, <1>5 DEF t

LEMMA DefaultIs == Told(DefaultSettings) /\ ~DefaultSettings.thrown
BY DEF DefaultSettings, Told, Settings, MozcSettings, ProviderModes, TranslationModes

LEMMA ModeStage ==
    ASSUME NEW s \in Settings, Told(s), NEW c \in Configurations
    PROVE  /\ After(ParseProviderMode(s, c), s)
           /\ ~ParseProviderMode(s, c).thrown /\ c.mode \in ProviderModes =>
                 ParseProviderMode(s, c).mode = c.mode
           /\ c.mode # "bad" => ParseProviderMode(s, c).thrown = s.thrown
<1> DEFINE t == ParseProviderMode(s, c)
           m == IF c.mode \in ProviderModes THEN c.mode ELSE s.mode
<1>1. CASE c.mode = "bad"
  <2>1. t = Throw(s)
    BY <1>1 DEF ParseProviderMode
  <2> QED BY <1>1, <2>1, ThrowIs
<1>2. CASE c.mode # "bad"
  <2>1. t = [s EXCEPT !.mode = m] /\ m \in ProviderModes
    BY <1>2 DEF ParseProviderMode, Settings
  <2> HIDE DEF m
  <2>2. t \in Settings /\ t.mode = m /\ t.thrown = s.thrown /\ t.error = s.error
    BY <2>1 DEF Settings
  <2> HIDE DEF t
  <2>3. /\ After(t, s) /\ (c.mode \in ProviderModes => t.mode = c.mode) /\ t.thrown = s.thrown
    BY <2>2 DEF After, Told, m
  <2> QED BY <2>3 DEF t
<1> QED BY <1>1, <1>2

LEMMA DictionaryStage ==
    ASSUME NEW s \in Settings, Told(s), NEW c \in Configurations
    PROVE  /\ After(ParseDictionary(s, c), s)
           /\ ParseDictionary(s, c).mode = s.mode
           /\ c.dictionary # "bad" => ParseDictionary(s, c).thrown = s.thrown
<1> DEFINE t == ParseDictionary(s, c)
           d == SwitchedOn(c.dictionary, s.dictionary)
<1>1. CASE c.dictionary = "bad"
  <2>1. t = Throw(s)
    BY <1>1 DEF ParseDictionary
  <2> QED BY <1>1, <2>1, ThrowIs DEF KeepsKana
<1>2. CASE c.dictionary # "bad"
  <2>1. t = [s EXCEPT !.dictionary = d] /\ d \in BOOLEAN
    BY <1>2, SwitchedOnIs DEF ParseDictionary, Settings
  <2> HIDE DEF d
  <2>2. t \in Settings /\ t.mode = s.mode /\ t.thrown = s.thrown /\ t.error = s.error
    BY <2>1 DEF Settings
  <2> HIDE DEF t
  <2>3. After(t, s) /\ t.mode = s.mode /\ t.thrown = s.thrown
    BY <2>2 DEF After, Told
  <2> QED BY <2>3 DEF t
<1> QED BY <1>1, <1>2

LEMMA MozcStage ==
    ASSUME NEW s \in Settings, Told(s), NEW c \in Configurations
    PROVE  /\ After(ParseMozc(s, c), s)
           /\ ParseMozc(s, c).mode = s.mode
           /\ c.mozc # "bad" =>
                 /\ ParseMozc(s, c).thrown = s.thrown
                 /\ ParseMozc(s, c).mozc.enabled = SwitchedOn(c.mozc, FALSE)
                 /\ ParseMozc(s, c).mozc.transport = ParseMozcTransport(c.transport)
<1> DEFINE t == ParseMozc(s, c)
           n == ParseMozcNative(c.native)
           m == [enabled |-> SwitchedOn(c.mozc, FALSE),
                 transport |-> ParseMozcTransport(c.transport),
                 backend |-> n.backend, policy |-> n.policy,
                 artifacts |-> n.artifacts, positive |-> n.positive]
<1>1. CASE c.mozc = "bad"
  <2>1. t = Throw(s)
    BY <1>1 DEF ParseMozc
  <2> QED BY <1>1, <2>1, ThrowIs DEF KeepsKana
<1>2. CASE c.mozc # "bad"
  <2>1. t = [s EXCEPT !.mozc = m]
    BY <1>2 DEF ParseMozc
  <2>2. m \in MozcSettings
    <3>1. SwitchedOn(c.mozc, FALSE) \in BOOLEAN
      BY SwitchedOnIs
    <3>2. ParseMozcTransport(c.transport) \in {"bridge", "imm32", "native", "invalid"}
      BY FieldsAre DEF ParseMozcTransport
    <3>3. /\ n.backend \in {"unset", "mozc_server_client", "linked_converter", "invalid"}
          /\ n.policy \in {"none", "imm32", "bridge", "invalid"}
          /\ n.artifacts \in BOOLEAN /\ n.positive \in BOOLEAN
      <4> DEFINE raw == c.native
      <4>1. raw \in [backend : {"absent", "mozc_server_client", "linked_converter", "unknown"},
                     policy : {"absent", "none", "imm32", "bridge", "unknown"},
                     artifacts : BOOLEAN, positive : BOOLEAN]
        BY FieldsAre, NativeSectionIs
      <4> HIDE DEF raw
      <4>2. /\ ParseMozcNative(raw).backend \in {"unset", "mozc_server_client", "linked_converter", "invalid"}
            /\ ParseMozcNative(raw).policy \in {"none", "imm32", "bridge", "invalid"}
            /\ ParseMozcNative(raw).artifacts \in BOOLEAN /\ ParseMozcNative(raw).positive \in BOOLEAN
        BY <4>1 DEF ParseMozcNative
      <4> QED BY <4>2 DEF raw
    <3> HIDE DEF n
    <3> QED BY <3>1, <3>2, <3>3 DEF MozcSettings
  <2>3. m.enabled = SwitchedOn(c.mozc, FALSE) /\ m.transport = ParseMozcTransport(c.transport)
    OBVIOUS
  <2> HIDE DEF m
  <2>4. t \in Settings /\ t.mode = s.mode /\ t.thrown = s.thrown /\ t.error = s.error /\ t.mozc = m
    BY <2>1, <2>2 DEF Settings
  <2> HIDE DEF t
  <2>5. After(t, s) /\ t.mode = s.mode /\ t.thrown = s.thrown
    BY <2>4 DEF After, Told
  <2> QED BY <2>3, <2>4, <2>5 DEF t
<1> QED BY <1>1, <1>2

LEMMA TranslationModeStage ==
    ASSUME NEW s \in Settings, Told(s), NEW c \in Configurations
    PROVE  /\ After(ParseTranslationMode(s, c), s)
           /\ KeepsKana(ParseTranslationMode(s, c), s)
           /\ ~ParseTranslationMode(s, c).thrown /\ c.translation.mode \in TranslationModes =>
                 ParseTranslationMode(s, c).translation.mode = c.translation.mode
<1> DEFINE t == ParseTranslationMode(s, c)
           m == IF c.translation.mode \in TranslationModes THEN c.translation.mode
                ELSE s.translation.mode
<1>1. CASE c.translation.mode = "bad"
  <2>1. t = Throw(s)
    BY <1>1 DEF ParseTranslationMode
  <2> QED BY <1>1, <2>1, ThrowIs
<1>2. CASE c.translation.mode # "bad"
  <2>1. t = [s EXCEPT !.translation.mode = m] /\ m \in TranslationModes
    BY <1>2 DEF ParseTranslationMode, Settings
  <2> HIDE DEF m
  <2>2. /\ t \in Settings /\ t.mode = s.mode /\ t.dictionary = s.dictionary /\ t.mozc = s.mozc
        /\ t.thrown = s.thrown /\ t.error = s.error /\ t.translation.mode = m
    BY <2>1 DEF Settings
  <2> HIDE DEF t
  <2>3. After(t, s) /\ KeepsKana(t, s) /\ (c.translation.mode \in TranslationModes => t.translation.mode = c.translation.mode)
    BY <2>2 DEF After, Told, KeepsKana, m
  <2> QED BY <2>3 DEF t
<1> QED BY <1>1, <1>2

LEMMA TranslationDictionaryStage ==
    ASSUME NEW s \in Settings, Told(s), NEW c \in Configurations
    PROVE  /\ After(ParseTranslationDictionary(s, c), s)
           /\ KeepsKana(ParseTranslationDictionary(s, c), s)
           /\ ~ParseTranslationDictionary(s, c).thrown =>
                 ParseTranslationDictionary(s, c).translation.mode = s.translation.mode
<1> DEFINE t == ParseTranslationDictionary(s, c)
           d == SwitchedOn(c.translation.dictionary, s.translation.dictionary)
<1>1. CASE c.translation.dictionary = "bad"
  <2>1. t = Throw(s)
    BY <1>1 DEF ParseTranslationDictionary
  <2> QED BY <1>1, <2>1, ThrowIs
<1>2. CASE c.translation.dictionary # "bad"
  <2>1. t = [s EXCEPT !.translation.dictionary = d] /\ d \in BOOLEAN
    BY <1>2, SwitchedOnIs DEF ParseTranslationDictionary, Settings
  <2> HIDE DEF d
  <2>2. /\ t \in Settings /\ t.mode = s.mode /\ t.dictionary = s.dictionary /\ t.mozc = s.mozc
        /\ t.thrown = s.thrown /\ t.error = s.error /\ t.translation.mode = s.translation.mode
    BY <2>1 DEF Settings
  <2> HIDE DEF t
  <2>3. After(t, s) /\ KeepsKana(t, s) /\ t.translation.mode = s.translation.mode
    BY <2>2 DEF After, Told, KeepsKana
  <2> QED BY <2>3 DEF t
<1> QED BY <1>1, <1>2

LEMMA LoggingStage ==
    ASSUME NEW s \in Settings, Told(s), NEW c \in Configurations
    PROVE  /\ After(ParseLogging(s, c), s) /\ KeepsKana(ParseLogging(s, c), s)
           /\ ParseLogging(s, c).translation = s.translation
<1> DEFINE t == ParseLogging(s, c)
<1>1. CASE c.logging = "bad"
  <2>1. t = Throw(s)
    BY <1>1 DEF ParseLogging
  <2>2. t = [s EXCEPT !.thrown = TRUE, !.error = TRUE]
    BY <2>1 DEF Throw
  <2>3. t.translation = s.translation
    BY <2>2 DEF Settings
  <2> QED BY <2>1, <2>3, ThrowIs
<1>2. CASE c.logging # "bad"
  <2> DEFINE on == c.logging \in {"on", "noPath"}
  <2>1. t = [s EXCEPT !.logging = on] /\ on \in BOOLEAN
    BY <1>2 DEF ParseLogging
  <2> HIDE DEF on
  <2>2. /\ t \in Settings /\ t.mode = s.mode /\ t.dictionary = s.dictionary /\ t.mozc = s.mozc
        /\ t.thrown = s.thrown /\ t.error = s.error /\ t.translation = s.translation
    BY <2>1 DEF Settings
  <2> HIDE DEF t
  <2>3. After(t, s) /\ KeepsKana(t, s) /\ t.translation = s.translation
    BY <2>2 DEF After, Told, KeepsKana
  <2> QED BY <2>3 DEF t
<1> QED BY <1>1, <1>2

LEMMA MirrorStage ==
    ASSUME NEW s \in Settings, Told(s), NEW c \in Configurations
    PROVE  /\ After(MirrorKana(s, c), s) /\ KeepsKana(MirrorKana(s, c), s)
           /\ MirrorKana(s, c).thrown = s.thrown
           /\ c.translation.given => MirrorKana(s, c).translation = s.translation
<1> DEFINE t == MirrorKana(s, c)
           m == IF s.mode = "dictionary" /\ s.dictionary THEN "dictionary" ELSE "llm"
           tr == [mode |-> m, dictionary |-> s.dictionary]
<1>1. CASE c.translation.given
  BY <1>1 DEF MirrorKana, After, KeepsKana
<1>2. CASE ~c.translation.given
  <2>1. t = [s EXCEPT !.translation = tr]
    BY <1>2 DEF MirrorKana
  <2>2. tr \in [mode : TranslationModes, dictionary : BOOLEAN]
    BY DEF TranslationModes, Settings
  <2> HIDE DEF tr
  <2>3. /\ t \in Settings /\ t.mode = s.mode /\ t.dictionary = s.dictionary /\ t.mozc = s.mozc
        /\ t.thrown = s.thrown /\ t.error = s.error
    BY <2>1, <2>2 DEF Settings
  <2> HIDE DEF t
  <2>4. After(t, s) /\ KeepsKana(t, s) /\ t.thrown = s.thrown
    BY <2>3 DEF After, Told, KeepsKana
  <2> QED BY <1>2, <2>4 DEF t
<1> QED BY <1>1, <1>2

LEMMA ValidateMozcStage ==
    ASSUME NEW s \in Settings, Told(s), NEW c \in Configurations
    PROVE  LET t == ValidateMozc(s, c)
           IN  /\ After(t, s) /\ t.thrown = s.thrown
               /\ t.mode = s.mode /\ t.dictionary = s.dictionary /\ t.translation = s.translation
               /\ t.mozc.enabled = s.mozc.enabled /\ t.mozc.transport = s.mozc.transport
<1> DEFINE asNative == s.mozc.transport = "native"
           b == IF asNative /\ s.mozc.backend = "unset" THEN "mozc_server_client" ELSE s.mozc.backend
           u == [s EXCEPT !.mozc.backend = b]
           problem == \/ "invalid" \in {s.mozc.transport, s.mozc.backend, s.mozc.policy}
                      \/ asNative /\ (~s.mozc.positive \/ s.mozc.policy # "none")
<1>1. ValidateMozc(s, c) = Report(u, problem)
  BY DEF ValidateMozc, Settings, MozcSettings
<1>2. b \in {"unset", "mozc_server_client", "linked_converter", "invalid"}
  BY DEF Settings, MozcSettings
<1>3. problem \in BOOLEAN
  BY DEF Settings, MozcSettings
<1> HIDE DEF b, problem, asNative
<1>4. /\ u \in Settings /\ u.mode = s.mode /\ u.dictionary = s.dictionary
      /\ u.translation = s.translation /\ u.thrown = s.thrown /\ u.error = s.error
      /\ u.mozc.enabled = s.mozc.enabled /\ u.mozc.transport = s.mozc.transport
  BY <1>2 DEF Settings, MozcSettings
<1> HIDE DEF u
<1>5. Told(u)
  BY <1>4 DEF Told
<1> DEFINE t == Report(u, problem)
<1>6. /\ After(t, u) /\ KeepsKana(t, u) /\ t.translation = u.translation /\ t.thrown = u.thrown
  BY <1>3, <1>4, <1>5, ReportIs
<1> QED BY <1>1, <1>4, <1>6 DEF After, KeepsKana

LEMMA ValidateLoggingStage ==
    ASSUME NEW s \in Settings, Told(s), NEW c \in Configurations
    PROVE  LET t == ValidateLogging(s, c)
           IN  /\ After(t, s) /\ KeepsKana(t, s) /\ t.translation = s.translation /\ t.thrown = s.thrown
<1> DEFINE on == s.logging /\ c.logging # "noPath"
           u == [s EXCEPT !.logging = on]
           problem == s.logging /\ c.logging = "noPath"
<1>1. ValidateLogging(s, c) = Report(u, problem)
  BY DEF ValidateLogging, Settings
<1>2. on \in BOOLEAN /\ problem \in BOOLEAN
  BY DEF Settings
<1> HIDE DEF on, problem
<1>4. /\ u \in Settings /\ u.mode = s.mode /\ u.dictionary = s.dictionary /\ u.mozc = s.mozc
      /\ u.translation = s.translation /\ u.thrown = s.thrown /\ u.error = s.error
  BY <1>2 DEF Settings
<1> HIDE DEF u
<1>5. Told(u)
  BY <1>4 DEF Told
<1> DEFINE t == Report(u, problem)
<1>6. /\ After(t, u) /\ KeepsKana(t, u) /\ t.translation = u.translation /\ t.thrown = u.thrown
  BY <1>2, <1>4, <1>5, ReportIs
<1> QED BY <1>1, <1>4, <1>6 DEF After, KeepsKana

\* A mode, or a translation, whose switch is off is given up, and that is told.
LEMMA ValidateModesStage ==
    ASSUME NEW s \in Settings, Told(s), NEW c \in Configurations
    PROVE  LET t == ValidateModes(s, c)
           IN  /\ After(t, s) /\ t.thrown = s.thrown
               /\ t.dictionary = s.dictionary /\ t.mozc = s.mozc
               /\ t.error \/ (t.mode = s.mode /\ t.translation = s.translation)
               /\ s.mode = "mozc" /\ s.mozc.enabled => t.mode = "mozc"
               /\ t.mode = "dictionary" => t.dictionary
               /\ t.mode = "mozc" => t.mozc.enabled
<1> DEFINE noDictionary == s.mode = "dictionary" /\ ~s.dictionary
           noMozc == s.mode = "mozc" /\ ~s.mozc.enabled
           m == IF noDictionary \/ noMozc THEN "llm" ELSE s.mode
           tm == IF noDictionary THEN "llm" ELSE s.translation.mode
           u == [s EXCEPT !.mode = m, !.translation.mode = tm]
           problem == noDictionary \/ noMozc
<1>1. ValidateModes(s, c) = Report(u, problem)
  BY DEF ValidateModes, Settings
<1>2. m \in ProviderModes /\ tm \in TranslationModes
  BY DEF Settings, ProviderModes, TranslationModes
<1>3. problem \in BOOLEAN
  BY DEF Settings, MozcSettings
<1>4. /\ ~problem => m = s.mode /\ tm = s.translation.mode
      /\ s.mode = "mozc" /\ s.mozc.enabled => m = "mozc"
      /\ m = "dictionary" => s.dictionary
      /\ m = "mozc" => s.mozc.enabled
  BY DEF Settings, MozcSettings
<1> HIDE DEF m, tm, problem
<1>5. /\ u \in Settings /\ u.mode = m /\ u.dictionary = s.dictionary /\ u.mozc = s.mozc
      /\ u.thrown = s.thrown /\ u.error = s.error
      /\ tm = s.translation.mode => u.translation = s.translation
  BY <1>2 DEF Settings
<1> HIDE DEF u
<1>6. Told(u)
  BY <1>5 DEF Told
<1> DEFINE t == Report(u, problem)
<1>7. /\ After(t, u) /\ KeepsKana(t, u) /\ t.translation = u.translation /\ t.thrown = u.thrown
      /\ problem => t.error
  BY <1>3, <1>5, <1>6, ReportIs
<1>8. t.error \/ (t.mode = s.mode /\ t.translation = s.translation)
  BY <1>3, <1>4, <1>5, <1>7 DEF KeepsKana
<1> HIDE DEF t
<1>9. After(t, s) /\ t.thrown = s.thrown /\ t.dictionary = s.dictionary /\ t.mozc = s.mozc /\ t.mode = m
  BY <1>5, <1>7 DEF After, KeepsKana
<1>10. /\ s.mode = "mozc" /\ s.mozc.enabled => t.mode = "mozc"
       /\ t.mode = "dictionary" => t.dictionary
       /\ t.mode = "mozc" => t.mozc.enabled
  BY <1>4, <1>9
<1> QED BY <1>1, <1>8, <1>9, <1>10 DEF t

LEMMA ValidateTranslationStage ==
    ASSUME NEW s \in Settings, Told(s), NEW c \in Configurations
    PROVE  LET t == ValidateTranslation(s, c)
           IN  /\ After(t, s) /\ KeepsKana(t, s)
               /\ t.error \/ t.translation = s.translation
<1> DEFINE missing == s.translation.mode = "dictionary" /\ ~s.translation.dictionary
           tm == IF missing THEN "llm" ELSE s.translation.mode
           u == [s EXCEPT !.translation.mode = tm]
<1>1. ValidateTranslation(s, c) = Report(u, missing)
  BY DEF ValidateTranslation, Settings
<1>2. tm \in TranslationModes /\ missing \in BOOLEAN /\ (~missing => tm = s.translation.mode)
  BY DEF Settings, TranslationModes
<1> HIDE DEF tm, missing
<1>5. /\ u \in Settings /\ u.mode = s.mode /\ u.dictionary = s.dictionary /\ u.mozc = s.mozc
      /\ u.thrown = s.thrown /\ u.error = s.error
      /\ tm = s.translation.mode => u.translation = s.translation
  BY <1>2 DEF Settings
<1> HIDE DEF u
<1>6. Told(u)
  BY <1>5 DEF Told
<1> DEFINE t == Report(u, missing)
<1>7. /\ After(t, u) /\ KeepsKana(t, u) /\ t.translation = u.translation /\ t.thrown = u.thrown
      /\ missing => t.error
  BY <1>2, <1>5, <1>6, ReportIs
<1> QED BY <1>1, <1>2, <1>5, <1>7 DEF After, KeepsKana

-----------------------------------------------------------------------------
\* The stages one after the other.

\* What was read before something was thrown, if anything was.
LEMMA ReadStagesAre ==
    ASSUME NEW c \in Configurations
    PROVE  LET r == ReadStages(c)
           IN  /\ Told(r)
               /\ ~r.thrown => /\ c.mode \in ProviderModes => r.mode = c.mode
                               /\ c.translation.mode \in TranslationModes =>
                                     r.translation.mode = c.translation.mode
               /\ c.mode \in ProviderModes /\ c.mozc # "bad" /\ c.dictionary # "bad" =>
                     /\ r.mode = c.mode /\ r.mozc.enabled = SwitchedOn(c.mozc, FALSE)
                     /\ r.mozc.transport = ParseMozcTransport(c.transport)
<1> DEFINE s1 == ParseProviderMode(DefaultSettings, c)
           s2 == IF s1.thrown THEN s1 ELSE ParseDictionary(s1, c)
           s3 == IF s2.thrown THEN s2 ELSE ParseMozc(s2, c)
           s4 == IF s3.thrown THEN s3 ELSE ParseTranslationMode(s3, c)
           s5 == IF s4.thrown THEN s4 ELSE ParseTranslationDictionary(s4, c)
           s6 == IF c.translation.given THEN s5 ELSE s3
           s7 == IF s6.thrown THEN s6 ELSE ParseLogging(s6, c)
           s8 == IF s7.thrown THEN s7 ELSE MirrorKana(s7, c)
<1>0. ReadStages(c) = s8
  BY DEF ReadStages, Then
<1>1. /\ Told(s1) /\ (~s1.thrown /\ c.mode \in ProviderModes => s1.mode = c.mode)
      /\ (c.mode # "bad" => ~s1.thrown)
  BY DefaultIs, ModeStage DEF Told, After
<1> HIDE DEF s1
<1>2. /\ Told(s2) /\ s2.mode = s1.mode /\ (s1.thrown => s2.thrown)
      /\ (~s1.thrown /\ c.dictionary # "bad" => ~s2.thrown)
  BY <1>1, DictionaryStage DEF Told, After
<1> HIDE DEF s2
<1>3. /\ Told(s3) /\ s3.mode = s2.mode /\ (s2.thrown => s3.thrown)
      /\ (~s2.thrown /\ c.mozc # "bad" =>
            /\ s3.mozc.enabled = SwitchedOn(c.mozc, FALSE)
            /\ s3.mozc.transport = ParseMozcTransport(c.transport))
  BY <1>2, MozcStage DEF Told, After
<1> HIDE DEF s3
<1>4. /\ Told(s4) /\ KeepsKana(s4, s3) /\ (s3.thrown => s4.thrown)
      /\ (~s4.thrown /\ c.translation.mode \in TranslationModes => s4.translation.mode = c.translation.mode)
  BY <1>3, TranslationModeStage DEF Told, After, KeepsKana
<1> HIDE DEF s4
<1>5. /\ Told(s5) /\ KeepsKana(s5, s4) /\ (s4.thrown => s5.thrown)
      /\ (~s5.thrown => s5.translation.mode = s4.translation.mode)
  BY <1>4, TranslationDictionaryStage DEF Told, After, KeepsKana
<1> HIDE DEF s5
<1>6. /\ Told(s6) /\ KeepsKana(s6, s3) /\ (s3.thrown => s6.thrown)
      /\ (~s6.thrown /\ c.translation.mode \in TranslationModes => s6.translation.mode = c.translation.mode)
  <2>1. c.translation.mode \in TranslationModes => c.translation.given
    <3>1. c.translation \in TranslationSections
      BY FieldsAre
    <3>2. ~c.translation.given => c.translation.mode = "absent"
      BY <3>1, TranslationSectionIs
    <3> QED BY <3>2 DEF TranslationModes
  <2>2. CASE c.translation.given
    BY <1>4, <1>5, <2>2 DEF KeepsKana
  <2>3. CASE ~c.translation.given
    BY <1>3, <2>1, <2>3 DEF KeepsKana
  <2> QED BY <2>2, <2>3
<1> HIDE DEF s6
<1>7. /\ Told(s7) /\ KeepsKana(s7, s6) /\ (s6.thrown => s7.thrown) /\ s7.translation = s6.translation
  BY <1>6, LoggingStage DEF Told, After, KeepsKana
<1> HIDE DEF s7
<1>8. /\ Told(s8) /\ KeepsKana(s8, s7) /\ (s7.thrown => s8.thrown)
      /\ (c.translation.given => s8.translation = s7.translation)
  BY <1>7, MirrorStage DEF Told, After, KeepsKana
<1>9. c.translation.mode \in TranslationModes => c.translation.given
  <2>1. c.translation \in TranslationSections
    BY FieldsAre
  <2>2. ~c.translation.given => c.translation.mode = "absent"
    BY <2>1, TranslationSectionIs
  <2> QED BY <2>2 DEF TranslationModes
<1> HIDE DEF s8
<1>10. s8.mode = s1.mode /\ s8.mozc = s3.mozc
  BY <1>2, <1>3, <1>6, <1>7, <1>8 DEF KeepsKana
<1>11. ~s8.thrown => ~s7.thrown /\ ~s6.thrown /\ ~s3.thrown /\ ~s2.thrown /\ ~s1.thrown
  BY <1>2, <1>3, <1>6, <1>7, <1>8
<1>12. ~s8.thrown => /\ c.mode \in ProviderModes => s8.mode = c.mode
                     /\ c.translation.mode \in TranslationModes =>
                           s8.translation.mode = c.translation.mode
  BY <1>1, <1>6, <1>7, <1>8, <1>9, <1>10, <1>11
<1>13. c.mode \in ProviderModes /\ c.mozc # "bad" /\ c.dictionary # "bad" =>
          /\ s8.mode = c.mode /\ s8.mozc.enabled = SwitchedOn(c.mozc, FALSE)
          /\ s8.mozc.transport = ParseMozcTransport(c.transport)
  BY <1>1, <1>2, <1>3, <1>10 DEF ProviderModes
<1> QED BY <1>0, <1>8, <1>12, <1>13

LEMMA ProviderIs ==
    ASSUME NEW c \in Configurations
    PROVE  LET s == LoadProviderSettings(c)
           IN  /\ Told(s)
               /\ ~s.error /\ c.mode \in ProviderModes => s.mode = c.mode
               /\ ~s.error /\ c.translation.mode \in TranslationModes =>
                     s.translation.mode = c.translation.mode
               /\ ~s.error => /\ s.mode = "dictionary" => s.dictionary
                              /\ s.mode = "mozc" => s.mozc.enabled
               /\ c.mode = "mozc" /\ c.mozc = "on" /\ c.dictionary # "bad" =>
                     /\ s.mode = "mozc" /\ s.mozc.enabled
                     /\ s.mozc.transport = ParseMozcTransport(c.transport)
<1> DEFINE s0 == ReadStages(c)
           s1 == IF s0.thrown THEN s0 ELSE ValidateMozc(s0, c)
           s2 == IF s1.thrown THEN s1 ELSE ValidateLogging(s1, c)
           s3 == IF s2.thrown THEN s2 ELSE ValidateModes(s2, c)
           s4 == IF s3.thrown THEN s3 ELSE ValidateTranslation(s3, c)
<1>0. LoadProviderSettings(c) = s4
  BY DEF LoadProviderSettings, Then, Configurations
<1>1. /\ Told(s0)
      /\ ~s0.thrown => /\ c.mode \in ProviderModes => s0.mode = c.mode
                       /\ c.translation.mode \in TranslationModes =>
                             s0.translation.mode = c.translation.mode
      /\ c.mode \in ProviderModes /\ c.mozc # "bad" /\ c.dictionary # "bad" =>
            /\ s0.mode = c.mode /\ s0.mozc.enabled = SwitchedOn(c.mozc, FALSE)
            /\ s0.mozc.transport = ParseMozcTransport(c.transport)
  BY ReadStagesAre
<1> HIDE DEF s0
<1>2. /\ Told(s1) /\ (s0.error => s1.error) /\ s1.thrown = s0.thrown
      /\ s1.mode = s0.mode /\ s1.dictionary = s0.dictionary /\ s1.translation = s0.translation
      /\ s1.mozc.enabled = s0.mozc.enabled /\ s1.mozc.transport = s0.mozc.transport
  BY <1>1, ValidateMozcStage DEF Told, After
<1> HIDE DEF s1
<1>3. /\ Told(s2) /\ (s1.error => s2.error) /\ s2.thrown = s1.thrown
      /\ s2.mode = s1.mode /\ s2.dictionary = s1.dictionary /\ s2.mozc = s1.mozc
      /\ s2.translation = s1.translation
  BY <1>2, ValidateLoggingStage DEF Told, After, KeepsKana
<1> HIDE DEF s2
<1>4. /\ Told(s3) /\ (s2.error => s3.error) /\ s3.thrown = s2.thrown
      /\ s3.dictionary = s2.dictionary /\ s3.mozc = s2.mozc
      /\ s3.error \/ (s3.mode = s2.mode /\ s3.translation = s2.translation)
      /\ s2.mode = "mozc" /\ s2.mozc.enabled => s3.mode = "mozc"
      /\ ~s3.thrown => /\ s3.mode = "dictionary" => s3.dictionary
                       /\ s3.mode = "mozc" => s3.mozc.enabled
  BY <1>3, ValidateModesStage DEF Told, After
<1> HIDE DEF s3
<1>5. /\ Told(s4) /\ (s3.error => s4.error)
      /\ s4.mode = s3.mode /\ s4.dictionary = s3.dictionary /\ s4.mozc = s3.mozc
      /\ s4.error \/ s4.translation = s3.translation
  BY <1>4, ValidateTranslationStage DEF Told, After, KeepsKana
<1> HIDE DEF s4
<1>6. ~s4.error => ~s3.error /\ ~s3.thrown /\ ~s0.thrown
  BY <1>1, <1>2, <1>3, <1>4, <1>5 DEF Told
<1>7. /\ ~s4.error /\ c.mode \in ProviderModes => s4.mode = c.mode
      /\ ~s4.error /\ c.translation.mode \in TranslationModes =>
            s4.translation.mode = c.translation.mode
  BY <1>1, <1>2, <1>3, <1>4, <1>5, <1>6
<1>8. ~s4.error => /\ s4.mode = "dictionary" => s4.dictionary
                   /\ s4.mode = "mozc" => s4.mozc.enabled
  BY <1>4, <1>5, <1>6
<1>9. c.mode = "mozc" /\ c.mozc = "on" /\ c.dictionary # "bad" =>
          /\ s4.mode = "mozc" /\ s4.mozc.enabled
          /\ s4.mozc.transport = ParseMozcTransport(c.transport)
  BY ZenonT(60), <1>1, <1>2, <1>3, <1>4, <1>5 DEF ProviderModes, SwitchedOn
<1> DEFINE s == LoadProviderSettings(c)
<1>10. s = s4
  BY <1>0
<1> HIDE DEF s
<1>11. /\ Told(s)
       /\ ~s.error /\ c.mode \in ProviderModes => s.mode = c.mode
       /\ ~s.error /\ c.translation.mode \in TranslationModes =>
             s.translation.mode = c.translation.mode
       /\ ~s.error => /\ s.mode = "dictionary" => s.dictionary
                      /\ s.mode = "mozc" => s.mozc.enabled
       /\ c.mode = "mozc" /\ c.mozc = "on" /\ c.dictionary # "bad" =>
             /\ s.mode = "mozc" /\ s.mozc.enabled
             /\ s.mozc.transport = ParseMozcTransport(c.transport)
  BY <1>5, <1>7, <1>8, <1>9, <1>10
<1> QED BY <1>11 DEF s

\* NativeFailsClosed, of a file as far as it could be read.
LEMMA NativeIsNotReplaced ==
    ASSUME NEW c \in Configurations, NEW files \in BOOLEAN,
           c.mode = "mozc", c.mozc = "on", c.transport \in {"native", "unknown"}, c.dictionary # "bad"
    PROVE  LET p == CreateConversionProvider(LoadProviderSettings(c), files)
           IN  \/ p.kind = "unavailable" /\ p.error
               \/ p.kind = "mozc" /\ p.transport = "native"
<1> DEFINE s == LoadProviderSettings(c)
<1>1. s.mode = "mozc" /\ s.mozc.enabled /\ s.mozc.transport = ParseMozcTransport(c.transport)
  BY ProviderIs
<1>2. s.mozc.transport \in {"native", "invalid"}
  BY <1>1 DEF ParseMozcTransport
<1> HIDE DEF s
<1>3. LET p == CreateConversionProvider(s, files)
      IN  \/ p.kind = "unavailable" /\ p.error
          \/ p.kind = "mozc" /\ p.transport = "native"
  BY <1>1, <1>2 DEF CreateConversionProvider, Provider
<1> QED BY <1>3 DEF s

\* FallbackIsReported, likewise.
LEMMA WhatIsMadeIsNamed ==
    ASSUME NEW c \in Configurations, NEW files \in BOOLEAN
    PROVE  LET s == LoadProviderSettings(c)
               p == CreateConversionProvider(s, files)
           IN  \/ s.error \/ p.error
               \/ /\ c.mode \in {"mozc", "dictionary"} => p.kind = c.mode
                  /\ (c.translation.mode = "dictionary" /\ p.kind = "dictionary")
                       => p.translates = "dictionary"
<1> DEFINE s == LoadProviderSettings(c)
           p == CreateConversionProvider(s, files)
<1> SUFFICES ASSUME ~s.error, ~p.error
             PROVE  /\ c.mode \in {"mozc", "dictionary"} => p.kind = c.mode
                    /\ (c.translation.mode = "dictionary" /\ p.kind = "dictionary")
                         => p.translates = "dictionary"
  OBVIOUS
<1>1. /\ c.mode \in ProviderModes => s.mode = c.mode
      /\ c.translation.mode \in TranslationModes => s.translation.mode = c.translation.mode
      /\ s.mode = "dictionary" => s.dictionary
      /\ s.mode = "mozc" => s.mozc.enabled
  BY ProviderIs
<1> HIDE DEF s
<1>2. c.mode \in {"mozc", "dictionary"} => p.kind = c.mode
  BY <1>1 DEF CreateConversionProvider, Provider, ProviderModes
<1>3. (c.translation.mode = "dictionary" /\ p.kind = "dictionary") => p.translates = "dictionary"
  BY <1>1 DEF CreateConversionProvider, Provider, TranslationModes
<1> QED BY <1>2, <1>3

-----------------------------------------------------------------------------
\* The service and its provider.

\* The fields of the record.
StackRecord ==
    stack = [at |-> stack.at, config |-> stack.config, error |-> stack.error,
             provider |-> stack.provider, reading |-> stack.reading, words |-> stack.words,
             path |-> stack.path, list |-> stack.list]

\* Only the provider based on Mozc has a transport.
ProviderFits == stack.provider.transport # "none" => stack.provider.kind = "mozc"

\* Between calls the bridge and the native converter are as they begin; during
\* a call one of them is busy with the reading that was asked for.
CallsFit ==
    /\ stack.at \in {"none", "loaded", "ready"} => bridge = IdleBridge /\ native = IdleNative
    /\ stack.at = "asking" =>
        \/ /\ stack.provider.transport = "bridge" /\ native = IdleNative
           /\ bridge.at # "idle" /\ bridge.reading = stack.reading
        \/ /\ stack.provider.transport = "native" /\ bridge = IdleBridge
           /\ native.at # "idle"

\* What the service has of the bridge is what the bridge answered.
ListFits ==
    stack.at = "answered" /\ stack.provider.transport = "bridge" /\ stack.list.by = "none" =>
        /\ At("answered") /\ bridge.reading = stack.reading
        /\ stack.list.candidates = bridge.candidates /\ stack.list.segments = bridge.segments

\* What it has of the dictionary is the dictionary's.
WordsFit ==
    stack.at = "answered" /\ stack.provider.kind = "dictionary" /\ stack.list.by = "none" =>
        /\ stack.words \in Dictionaries /\ stack.reading \in ReadingsAsked
        /\ stack.path = SegmentReading(stack.words, stack.reading)

StackFits ==
    /\ StackRecord /\ ProviderFits /\ ListFits /\ WordsFit
    /\ NativeFailsClosed /\ FallbackIsReported /\ EmptyAnswersAreExplained

StackInv == StackFits /\ CallsFit /\ BridgeInv /\ NativeInv

\* Nothing happens to a native converter that was not called.
LEMMA IdleStaysIdle ==
    ASSUME native = IdleNative
    PROVE  ~WrapperStep /\ ~NativeFault /\ ~NativeStep
<1>1. native.at = "idle" /\ native.wrapper = "none"
  BY DEF IdleNative
<1> QED BY <1>1
        DEF WrapperStep, WrapperWrites, WrapperEnds, WrapperFails, NativeFault, CreateReadingFileFails,
            CreateNativePipeFails, StartWrapperFails, WaitFails, ReadFails, NativeStep, Reached,
            CreateReadingFile, CreateNativePipe, StartWrapper, WaitEnds, WaitTimesOut, KillWrapper,
            ReadChunk, ReadEnds, FinishNative

\* Nothing happens to a call of the bridge that answered.
LEMMA AnsweredIsLast ==
    ASSUME BridgeStep
    PROVE  ~At("answered") /\ ~At("idle")
BY DEF BridgeStep, PipeStep, LayoutStep, At, FindPipes, FindNoPipe, LaunchConverter,
       LaunchConverterFails, PollPipes, CreateSession, CreateSessionFails, Convert, ConvertFails,
       LoadLayout, LoadLayoutFails, CreateBridgeWindow, CreateBridgeWindowFails, ActivateLayout,
       CreateContext, CreateContextFails, AskLayout, RestoreLayout, UnloadLayout

\* A call of the native converter that has begun stays begun.
LEMMA NativeStaysAsked ==
    ASSUME NativeType, native.at # "idle", NativeStep \/ WrapperStep \/ NativeFault
    PROVE  native'.at # "idle"
<1>1. CASE WrapperStep
  BY <1>1 DEF WrapperStep, WrapperWrites, WrapperEnds, WrapperFails, Advance, NativeType
<1>2. CASE NativeFault
  BY <1>2 DEF NativeFault, CreateReadingFileFails, CreateNativePipeFails, StartWrapperFails, WaitFails,
              ReadFails, Refuse, Advance, NativeType
<1>3. CASE CreateReadingFile \/ CreateNativePipe \/ WaitEnds \/ WaitTimesOut \/ KillWrapper \/ ReadEnds
  BY <1>3 DEF CreateReadingFile, CreateNativePipe, WaitEnds, WaitTimesOut, KillWrapper, ReadEnds,
              Advance, NativeType
<1>4. CASE StartWrapper
  BY <1>4 DEF StartWrapper, Advance, NativeType
<1>5. CASE ReadChunk
  BY <1>5 DEF ReadChunk, Advance, NativeType
<1>6. CASE FinishNative
  <2>1. \E error, candidates, segments :
          native' = [native EXCEPT !.at = "answered", !.file = FALSE, !.pipe = FALSE,
                                   !.error = error, !.candidates = candidates, !.segments = segments]
    BY <1>6 DEF FinishNative, Advance
  <2> QED BY <2>1 DEF NativeType
<1> QED BY <1>1, <1>2, <1>3, <1>4, <1>5, <1>6 DEF NativeStep

\* What the steps leave alone keeps its invariant.
LEMMA BridgeStays ==
    ASSUME BridgeInv, bridge' = bridge
    PROVE  BridgeInv'
BY DEF BridgeInv, BridgeAnswerInv, Ongoing, At, NothingHeld, SegmentsTile, SentencesReadTheReading,
       ClausesReadTheReading, WholesReadTheReading, TailIsUnambiguous, SegmentsRead

LEMMA NativeStays ==
    ASSUME NativeInv, native' = native
    PROVE  NativeInv'
BY DEF NativeInv, NativeType, NativePlaces, NoFileLeft, AnswerIsTheWrappers, Reached

\* The steps of the service that answer at once, and say something of the list.
LEMMA AnswerIs ==
    ASSUME StackRecord, NEW reading, NEW list
    PROVE  LET s == Answer(reading, list)
           IN  /\ s.at = "answered" /\ s.reading = reading /\ s.list = list
               /\ s.provider = stack.provider /\ s.words = stack.words /\ s.path = stack.path
               /\ s = [at |-> s.at, config |-> s.config, error |-> s.error, provider |-> s.provider,
                       reading |-> s.reading, words |-> s.words, path |-> s.path, list |-> s.list]
<1> DEFINE s == Answer(reading, list)
<1>1. s = [[stack EXCEPT !.at = "asking", !.reading = reading] EXCEPT !.at = "answered", !.list = list]
  BY DEF Answer, Asked
<1>2. s = [at |-> "answered", config |-> stack.config, error |-> stack.error,
           provider |-> stack.provider, reading |-> reading, words |-> stack.words,
           path |-> stack.path, list |-> list]
  BY <1>1 DEF StackRecord
<1> HIDE DEF s
<1> QED BY <1>2 DEF s

\* An answer keeps everything, if it explains itself, and says the truth about
\* the bridge and the dictionary.
LEMMA AnswerKeeps ==
    ASSUME StackInv, NEW reading, NEW list, stack' = Answer(reading, list),
           UNCHANGED <<bridge, native>>,
           list.candidates = <<>> => list.error \/ list.pending \/ stack.provider.kind = "imm32",
           stack.provider.kind = "dictionary" => list.by # "none",
           stack.provider.transport = "bridge" /\ list.by = "none" =>
               /\ At("answered") /\ bridge.reading = reading
               /\ list.candidates = bridge.candidates /\ list.segments = bridge.segments
    PROVE  StackInv'
<1>1. /\ stack'.at = "answered" /\ stack'.reading = reading /\ stack'.list = list
      /\ stack'.provider = stack.provider /\ StackRecord'
  BY AnswerIs DEF StackInv, StackFits, StackRecord
<1>2. BridgeInv' /\ NativeInv'
  BY BridgeStays, NativeStays DEF StackInv
<1>3. CallsFit'
  BY <1>1 DEF CallsFit
<1>4. ProviderFits' /\ WordsFit' /\ NativeFailsClosed' /\ FallbackIsReported'
  BY <1>1 DEF StackInv, StackFits, ProviderFits, WordsFit, NativeFailsClosed, FallbackIsReported
<1>5. ListFits' /\ EmptyAnswersAreExplained'
  BY <1>1 DEF ListFits, EmptyAnswersAreExplained, At
<1> QED BY <1>1, <1>2, <1>3, <1>4, <1>5 DEF StackInv, StackFits

LEMMA LoadKeeps == ASSUME StackInv, Load PROVE StackInv'
<1>1. PICK c \in Files, files \in BOOLEAN :
        LET s == LoadProviderSettings(c)
            p == CreateConversionProvider(s, files)
        IN  stack' = [stack EXCEPT !.at = "loaded", !.config = c, !.provider = p,
                                   !.error = s.error \/ p.error]
  BY DEF Load
<1> DEFINE s == LoadProviderSettings(c)
           p == CreateConversionProvider(s, files)
           e == s.error \/ p.error
<1>2. stack' = [stack EXCEPT !.at = "loaded", !.config = c, !.provider = p, !.error = e]
  BY <1>1
<1>3. p.transport # "none" => p.kind = "mozc"
  BY DEF CreateConversionProvider, Provider
<1>4. c.file = "read" =>
        \/ e
        \/ /\ c.mode \in {"mozc", "dictionary"} => p.kind = c.mode
           /\ (c.translation.mode = "dictionary" /\ p.kind = "dictionary")
                => p.translates = "dictionary"
  <2> SUFFICES ASSUME c.file = "read", ~e
               PROVE  /\ c.mode \in {"mozc", "dictionary"} => p.kind = c.mode
                      /\ (c.translation.mode = "dictionary" /\ p.kind = "dictionary")
                           => p.translates = "dictionary"
    OBVIOUS
  <2>1. c \in Configurations
    BY FilesAssumption
  <2> QED BY <2>1, WhatIsMadeIsNamed
<1>5. (/\ c.file = "read" /\ c.mode = "mozc" /\ c.mozc = "on" /\ c.transport \in {"native", "unknown"}
       /\ c.dictionary # "bad")
        => \/ p.kind = "unavailable" /\ e
           \/ p.kind = "mozc" /\ p.transport = "native"
  <2> SUFFICES ASSUME c.file = "read", c.mode = "mozc", c.mozc = "on",
                      c.transport \in {"native", "unknown"}, c.dictionary # "bad"
               PROVE  \/ p.kind = "unavailable" /\ e
                      \/ p.kind = "mozc" /\ p.transport = "native"
    OBVIOUS
  <2>1. c \in Configurations
    BY FilesAssumption
  <2>2. \/ p.kind = "unavailable" /\ p.error
        \/ p.kind = "mozc" /\ p.transport = "native"
    BY <2>1, NativeIsNotReplaced
  <2> QED BY <2>2
<1> HIDE DEF s, p, e
<1>6. /\ stack'.at = "loaded" /\ stack'.config = c /\ stack'.provider = p /\ stack'.error = e
      /\ StackRecord'
  BY <1>2 DEF StackInv, StackFits, StackRecord
<1>7. stack.at = "none" /\ bridge' = bridge /\ native' = native
  BY DEF Load
<1>8. CallsFit'
  BY <1>6, <1>7 DEF StackInv, CallsFit
<1>9. BridgeInv' /\ NativeInv'
  BY <1>7, BridgeStays, NativeStays DEF StackInv
<1>10. NativeFailsClosed'
  BY <1>5, <1>6 DEF NativeFailsClosed
<1>11. FallbackIsReported'
  BY <1>4, <1>6 DEF FallbackIsReported
<1>12. ProviderFits' /\ ListFits' /\ WordsFit' /\ EmptyAnswersAreExplained'
  BY <1>3, <1>6 DEF ProviderFits, ListFits, WordsFit, EmptyAnswersAreExplained
<1> QED BY <1>6, <1>8, <1>9, <1>10, <1>11, <1>12 DEF StackInv, StackFits

LEMMA SetResultCallbackKeeps == ASSUME StackInv, SetResultCallback PROVE StackInv'
<1>1. /\ stack.at = "loaded" /\ stack' = [stack EXCEPT !.at = "ready", !.config = NoFile, !.error = FALSE]
      /\ bridge' = bridge /\ native' = native
  BY DEF SetResultCallback
<1>2. stack'.at = "ready" /\ stack'.provider = stack.provider /\ StackRecord'
  BY <1>1 DEF StackInv, StackFits, StackRecord
<1>3. BridgeInv' /\ NativeInv' /\ CallsFit'
  BY <1>1, <1>2, BridgeStays, NativeStays DEF StackInv, CallsFit
<1>4. /\ ProviderFits' /\ ListFits' /\ WordsFit' /\ EmptyAnswersAreExplained'
      /\ NativeFailsClosed' /\ FallbackIsReported'
  BY <1>2 DEF StackInv, StackFits, ProviderFits, ListFits, WordsFit, EmptyAnswersAreExplained,
             NativeFailsClosed, FallbackIsReported
<1> QED BY <1>2, <1>3, <1>4 DEF StackInv, StackFits

LEMMA BeginsFit ==
    ASSUME stack = NoStack, bridge = IdleBridge, native = IdleNative
    PROVE  StackInv
<1>1. stack.at = "none" /\ stack.provider.transport = "none" /\ StackRecord
  BY DEF NoStack, NoProvider, Provider, StackRecord
<1>2. CallsFit
  BY <1>1 DEF CallsFit
<1>3. StackFits
  BY <1>1 DEF StackFits, ProviderFits, ListFits, WordsFit, EmptyAnswersAreExplained,
             NativeFailsClosed, FallbackIsReported
<1>4. BridgeInv
  BY BridgeBegins DEF BridgeInv, At, IdleBridge
<1>5. NativeInv
  BY NativeBegins
<1> QED BY <1>2, <1>3, <1>4, <1>5 DEF StackInv

LEMMA DropKeeps == ASSUME Drop PROVE StackInv'
<1>1. stack' = NoStack /\ bridge' = IdleBridge /\ native' = IdleNative
  BY DEF Drop
<1>2. stack'.at = "none" /\ stack'.provider.transport = "none" /\ StackRecord'
  BY <1>1 DEF NoStack, NoProvider, Provider, StackRecord
<1>3. CallsFit'
  BY <1>1, <1>2 DEF CallsFit
<1>4. StackFits'
  BY <1>2 DEF StackFits, ProviderFits, ListFits, WordsFit, EmptyAnswersAreExplained,
             NativeFailsClosed, FallbackIsReported
<1>5. BridgeInv'
  <2>1. bridge'.at # "answered" /\ Ongoing(bridge')
    BY <1>1, BridgeBegins DEF IdleBridge
  <2> QED BY <2>1 DEF BridgeInv, At
<1>6. NativeInv'
  <2>1. NativeType'
    <3>1. <<>> \in Seq(Letters) /\ <<>> \in Seq(Texts) /\ <<>> \in Seq(Segments)
      OBVIOUS
    <3> QED BY <1>1, <3>1 DEF IdleNative, NativeAnswerSet, NativeType
  <2>2. /\ native'.at = "idle" /\ native'.wrapper = "none" /\ ~native'.obstacle /\ ~native'.error
        /\ native'.reply.candidates = <<>>
    BY <1>1 DEF IdleNative
  <2> QED BY <2>1, <2>2 DEF NativeInv, NativePlaces, NoFileLeft, AnswerIsTheWrappers, Reached
<1> QED BY <1>3, <1>4, <1>5, <1>6 DEF StackInv

-----------------------------------------------------------------------------
\* Requests.

LEMMA FetchTranslationKeeps ==
    ASSUME StackInv, MozcFetchTranslation \/ ImmFetchTranslation \/ DictionaryFetchTranslation
    PROVE  StackInv'
<1>1. \A list \in LlmAnswers :
        /\ list.candidates = <<>> => list.error \/ list.pending
        /\ list.by # "none"
  <2> SUFFICES ASSUME NEW list \in LlmAnswers
               PROVE  (list.candidates = <<>> => list.error \/ list.pending) /\ list.by # "none"
    OBVIOUS
  <2>0. <<English>> # <<>>
    OBVIOUS
  <2>1. CASE list = [OfLlm EXCEPT !.pending = TRUE]
    BY <2>1 DEF OfLlm, EmptyList
  <2>2. CASE list = [OfLlm EXCEPT !.candidates = <<English>>]
    BY <2>0, <2>2 DEF OfLlm, EmptyList
  <2>3. CASE list = Failed(OfLlm)
    BY <2>3 DEF OfLlm, EmptyList, Failed
  <2> QED BY <2>1, <2>2, <2>3 DEF LlmAnswers
<1>2. CASE MozcFetchTranslation
  <2>1. PICK reading \in ReadingsAsked, list \in LlmAnswers : stack' = Answer(reading, list)
    BY <1>2 DEF MozcFetchTranslation
  <2>2. UNCHANGED <<bridge, native>>
    BY <1>2 DEF MozcFetchTranslation
  <2> QED BY <1>1, <2>1, <2>2, AnswerKeeps
<1>3. CASE ImmFetchTranslation
  <2>1. PICK reading \in ReadingsAsked, list \in LlmAnswers : stack' = Answer(reading, list)
    BY <1>3 DEF ImmFetchTranslation
  <2>2. UNCHANGED <<bridge, native>>
    BY <1>3 DEF ImmFetchTranslation
  <2> QED BY <1>1, <2>1, <2>2, AnswerKeeps
<1>4. CASE DictionaryFetchTranslation
  <2> DEFINE found == [EmptyList EXCEPT !.by = "dictionary", !.candidates = <<English>>]
             Given(reading) == {found, Failed([found EXCEPT !.candidates = <<InKana(reading)>>])}
  <2>1. PICK reading \in ReadingsAsked :
            \E list \in IF stack.provider.translates = "llm" THEN LlmAnswers ELSE Given(reading) :
                stack' = Answer(reading, list)
    BY <1>4 DEF DictionaryFetchTranslation
  <2>2. PICK list \in LlmAnswers \cup Given(reading) : stack' = Answer(reading, list)
    BY <2>1
  <2>3. \A l \in Given(reading) : l.candidates # <<>> /\ l.by # "none"
    <3> SUFFICES ASSUME NEW l \in Given(reading) PROVE l.candidates # <<>> /\ l.by # "none"
      OBVIOUS
    <3> DEFINE kana == InKana(reading)
    <3>0. <<English>> # <<>> /\ <<kana>> # <<>>
      OBVIOUS
    <3>1. CASE l = found
      BY <3>0, <3>1 DEF EmptyList
    <3>2. CASE l = Failed([found EXCEPT !.candidates = <<kana>>])
      <4> HIDE DEF kana
      <4> QED BY <3>0, <3>2 DEF EmptyList, Failed
    <3> QED BY <3>1, <3>2
  <2>4. UNCHANGED <<bridge, native>>
    BY <1>4 DEF DictionaryFetchTranslation
  <2> HIDE DEF found, Given
  <2>5. (list.candidates = <<>> => list.error \/ list.pending) /\ list.by # "none"
    BY <1>1, <2>3
  <2> QED BY <2>2, <2>4, <2>5, AnswerKeeps
<1> QED BY <1>2, <1>3, <1>4

LEMMA PlainFetchKeeps ==
    ASSUME StackInv, ImmFetchLayer1 \/ UnavailableFetch \/ MozcImm32Fetch
    PROVE  StackInv'
<1>0. stack.provider.transport # "none" => stack.provider.kind = "mozc"
  BY DEF StackInv, StackFits, ProviderFits
<1>1. CASE ImmFetchLayer1
  <2>1. PICK reading \in ReadingsAsked : \E texts \in ImmEntries(reading) : stack' = Answer(reading, Entries(texts))
    BY <1>1 DEF ImmFetchLayer1
  <2>2. PICK texts : stack' = Answer(reading, Entries(texts))
    BY <2>1
  <2>3. UNCHANGED <<bridge, native>> /\ stack.provider.kind = "imm32"
    BY <1>1 DEF ImmFetchLayer1
  <2> DEFINE list == Entries(texts)
  <2>4. stack' = Answer(reading, list)
    BY <2>2
  <2> HIDE DEF list
  <2> QED BY <1>0, <2>3, <2>4, AnswerKeeps
<1>2. CASE UnavailableFetch
  <2> DEFINE list == Failed(EmptyList)
  <2>1. PICK reading \in ReadingsAsked : stack' = Answer(reading, list)
    BY <1>2 DEF UnavailableFetch
  <2>2. UNCHANGED <<bridge, native>> /\ stack.provider.kind = "unavailable"
    BY <1>2 DEF UnavailableFetch
  <2>3. list.error
    BY DEF Failed, EmptyList
  <2> HIDE DEF list
  <2> QED BY <1>0, <2>1, <2>2, <2>3, AnswerKeeps
<1>3. CASE MozcImm32Fetch
  <2>1. PICK reading \in ReadingsAsked : \E texts \in Conversions(reading) :
            stack' = Answer(reading, MozcList(texts, <<>>, texts = <<>>))
    BY <1>3 DEF MozcImm32Fetch
  <2>2. PICK texts : stack' = Answer(reading, MozcList(texts, <<>>, texts = <<>>))
    BY <2>1
  <2> DEFINE list == MozcList(texts, <<>>, texts = <<>>)
  <2>3. UNCHANGED <<bridge, native>> /\ stack.provider.transport = "imm32"
    BY <1>3 DEF MozcImm32Fetch
  <2>4. list.candidates = <<>> => list.error
    BY DEF MozcList, Entries, EmptyList
  <2>5. stack' = Answer(reading, list)
    BY <2>2
  <2> HIDE DEF list
  <2> QED BY <1>0, <2>3, <2>4, <2>5, AnswerKeeps
<1> QED BY <1>1, <1>2, <1>3

LEMMA AskedIs ==
    ASSUME StackInv, NEW reading, stack' = Asked(reading)
    PROVE  /\ StackFits' /\ stack'.at = "asking" /\ stack'.reading = reading
           /\ stack'.provider = stack.provider
<1>1. /\ stack'.at = "asking" /\ stack'.reading = reading /\ stack'.provider = stack.provider
      /\ StackRecord'
  BY DEF StackInv, StackFits, StackRecord, Asked
<1> QED BY <1>1 DEF StackInv, StackFits, ProviderFits, ListFits, WordsFit, EmptyAnswersAreExplained,
             NativeFailsClosed, FallbackIsReported

LEMMA AskKeeps == ASSUME StackInv, AskBridge \/ AskNative PROVE StackInv'
<1>1. CASE AskBridge
  <2>1. PICK reading \in ReadingsAsked, katakana \in BOOLEAN :
            BridgeCall(reading, katakana) /\ stack' = Asked(reading)
    BY <1>1 DEF AskBridge
  <2>2. stack.at = "ready" /\ stack.provider.transport = "bridge" /\ native' = native
    BY <1>1 DEF AskBridge
  <2>3. reading \in Seq(Letters) /\ reading # <<>>
    BY ReadingsAssumption
  <2>4. Ongoing(bridge)' /\ bridge'.at = "pipes" /\ bridge'.reading = reading
    BY <2>1, <2>3, BridgeCalls
  <2>5. BridgeInv' /\ NativeInv'
    BY <2>2, <2>4, NativeStays DEF StackInv, BridgeInv, At
  <2>6. /\ StackFits' /\ stack'.at = "asking" /\ stack'.reading = reading
        /\ stack'.provider = stack.provider
    BY <2>1, AskedIs
  <2>7. CallsFit'
    BY <2>2, <2>4, <2>6 DEF StackInv, CallsFit
  <2> QED BY <2>5, <2>6, <2>7 DEF StackInv
<1>2. CASE AskNative
  <2>1. PICK reading \in ReadingsAsked : NativeCall(reading) /\ stack' = Asked(reading)
    BY <1>2 DEF AskNative
  <2>2. stack.at = "ready" /\ stack.provider.transport = "native" /\ bridge' = bridge
    BY <1>2 DEF AskNative
  <2>3. reading \in Seq(Letters)
    BY ReadingsAssumption
  <2>4. NativeInv' /\ native'.at # "idle"
    <3>1. NativeInv'
      BY <2>1, <2>3, NativeCalls DEF StackInv
    <3>2. native'.at = "file"
      BY <2>1 DEF NativeCall, Advance, IdleNative
    <3> QED BY <3>1, <3>2
  <2>5. BridgeInv'
    BY <2>2, BridgeStays DEF StackInv
  <2>6. /\ StackFits' /\ stack'.at = "asking" /\ stack'.provider = stack.provider
    BY <2>1, AskedIs
  <2>7. CallsFit'
    BY <2>2, <2>4, <2>6 DEF StackInv, CallsFit
  <2> QED BY <2>4, <2>5, <2>6, <2>7 DEF StackInv
<1> QED BY <1>1, <1>2

LEMMA StackStays ==
    ASSUME StackFits, stack' = stack, stack.at # "answered"
    PROVE  StackFits'
BY DEF StackFits, StackRecord, ProviderFits, ListFits, WordsFit, EmptyAnswersAreExplained,
       NativeFailsClosed, FallbackIsReported

LEMMA BridgeWorksKeeps == ASSUME StackInv, BridgeWorks PROVE StackInv'
<1>1. stack.at = "asking" /\ BridgeStep /\ stack' = stack /\ native' = native
  BY DEF BridgeWorks
<1>2. ~At("answered") /\ ~At("idle")
  BY <1>1, AnsweredIsLast
<1>3. Ongoing(bridge)
  BY <1>2 DEF StackInv, BridgeInv
<1>4. BridgeInv' /\ bridge'.reading = bridge.reading /\ bridge'.at # "idle"
  BY <1>1, <1>3, BridgeSteps, StaysAsked
<1>5. NativeInv' /\ StackFits'
  BY <1>1, NativeStays, StackStays DEF StackInv
<1>6. bridge # IdleBridge
  BY <1>2 DEF At, IdleBridge
<1>7. CallsFit'
  BY <1>1, <1>4, <1>6 DEF StackInv, CallsFit
<1> QED BY <1>4, <1>5, <1>7 DEF StackInv

LEMMA NativeWorksKeeps ==
    ASSUME StackInv, NativeWorks \/ NativeFails \/ WrapperWorks
    PROVE  StackInv'
<1>1. /\ NativeStep \/ WrapperStep \/ NativeFault
      /\ stack' = stack /\ bridge' = bridge
  BY DEF NativeWorks, NativeFails, WrapperWorks
<1>2. NativeInv'
  BY <1>1, NativeSteps DEF StackInv
<1>3. native # IdleNative
  BY <1>1, IdleStaysIdle
<1>4. BridgeInv'
  BY <1>1, BridgeStays DEF StackInv
<1>5. CallsFit'
  <2>1. CASE stack.at = "asking"
    <3>1. stack.provider.transport = "native" /\ bridge = IdleBridge /\ native.at # "idle"
      BY <1>3, <2>1 DEF StackInv, CallsFit
    <3>2. native'.at # "idle"
      BY <1>1, <3>1, NativeStaysAsked DEF StackInv, NativeInv
    <3> QED BY <1>1, <2>1, <3>1, <3>2 DEF CallsFit
  <2>2. CASE stack.at # "asking"
    BY <1>1, <1>3, <2>2 DEF StackInv, CallsFit
  <2> QED BY <2>1, <2>2
<1>6. StackFits'
  BY <1>1 DEF StackInv, StackFits, StackRecord, ProviderFits, ListFits, WordsFit,
             EmptyAnswersAreExplained, NativeFailsClosed, FallbackIsReported, At
<1> QED BY <1>2, <1>4, <1>5, <1>6 DEF StackInv

LEMMA MozcListIs ==
    ASSUME NEW candidates, NEW segments, NEW error \in BOOLEAN
    PROVE  LET list == MozcList(candidates, segments, error)
           IN  /\ list.candidates = candidates /\ list.segments = segments /\ list.by = "none"
               /\ list.error = (error /\ candidates = <<>>)
BY DEF MozcList, Entries, EmptyList

LEMMA AnswersKeep == ASSUME StackInv, BridgeAnswers \/ NativeAnswers PROVE StackInv'
<1>0. stack.provider.transport # "none" => stack.provider.kind = "mozc"
  BY DEF StackInv, StackFits, ProviderFits
<1>1. CASE BridgeAnswers
  <2> DEFINE list == MozcList(bridge.candidates, bridge.segments, bridge.error)
  <2>1. /\ stack.at = "asking" /\ At("answered") /\ stack' = Answer(stack.reading, list)
        /\ UNCHANGED <<bridge, native>>
    BY <1>1 DEF BridgeAnswers
  <2>2. stack.provider.transport = "bridge" /\ bridge.reading = stack.reading
    BY <2>1 DEF StackInv, CallsFit, At, IdleBridge
  <2>3. bridge.error \in BOOLEAN /\ (bridge.candidates = <<>> => bridge.error)
    BY <2>1 DEF StackInv, BridgeInv, BridgeAnswerInv, BridgeRecords
  <2>4. /\ list.candidates = bridge.candidates /\ list.segments = bridge.segments
        /\ list.candidates = <<>> => list.error
    BY <2>3, MozcListIs
  <2> HIDE DEF list
  <2> QED BY <1>0, <2>1, <2>2, <2>4, AnswerKeeps
<1>2. CASE NativeAnswers
  <2> DEFINE list == MozcList(native.candidates, native.segments, native.error)
  <2>1. /\ stack.at = "asking" /\ native.at = "answered" /\ stack' = Answer(stack.reading, list)
        /\ UNCHANGED <<bridge, native>>
    BY <1>2 DEF NativeAnswers, Reached
  <2>2. stack.provider.transport = "native"
    BY <2>1 DEF StackInv, CallsFit, IdleNative
  <2>3. native.error \in BOOLEAN /\ (native.candidates = <<>> => native.error)
    BY <2>1 DEF StackInv, NativeInv, NativeType, AnswerIsTheWrappers, Reached
  <2>4. list.candidates = <<>> => list.error
    BY <2>3, MozcListIs
  <2> HIDE DEF list
  <2> QED BY <1>0, <2>1, <2>2, <2>4, AnswerKeeps
<1> QED BY <1>1, <1>2

-----------------------------------------------------------------------------
\* The segments that the service edits.

\* InitializeSegmentMode, by one segment.
KanaBetween(reading, start, end) ==
    IF end <= start THEN <<>>
    ELSE <<[start |-> start, length |-> end - start,
            surface |-> InKana(Stretch(reading, start, end - start))]>>
PutSegment(reading, runtime, s) ==
    LET cursor == EndOf(runtime)
        from == Max({cursor, s.start})
        end == Min({Len(reading), s.start + s.length})
    IN  IF s.length = 0 \/ s.start >= Len(reading) \/ end <= from THEN runtime
        ELSE runtime \o KanaBetween(reading, cursor, from)
                     \o <<[start |-> from, length |-> end - from, surface |-> s.surface]>>

LEMMA KanaBetweenTyped ==
    ASSUME NEW reading \in Seq(Letters), NEW start \in Nat, NEW end \in Nat, end <= Len(reading)
    PROVE  KanaBetween(reading, start, end) \in Seq(Segments)
<1>1. CASE end <= start
  BY <1>1 DEF KanaBetween
<1>2. CASE ~(end <= start)
  <2> DEFINE text == InKana(Stretch(reading, start, end - start))
  <2>1. /\ end - start \in Nat /\ start + 1 \in Int /\ start + (end - start) \in Int
        /\ start + 1 \in 1 .. Len(reading) /\ start + (end - start) \in 1 .. Len(reading)
    BY <1>2
  <2>2. SubSeq(reading, start + 1, start + (end - start)) \in Seq(Letters)
    <3>1. \A i \in start + 1 .. start + (end - start) : i \in 1 .. Len(reading)
      BY <2>1
    <3>2. \A i \in 1 .. Len(reading) : reading[i] \in Letters
      OBVIOUS
    <3>3. \A i \in start + 1 .. start + (end - start) : reading[i] \in Letters
      BY <3>1, <3>2
    <3> QED BY <2>1, <3>3, SubSeqProperties
  <2>3. text \in Texts
    BY <2>2, KanaReads DEF Stretch
  <2>4. KanaBetween(reading, start, end) = <<[start |-> start, length |-> end - start, surface |-> text]>>
    BY <1>2 DEF KanaBetween
  <2> HIDE DEF text
  <2>5. [start |-> start, length |-> end - start, surface |-> text] \in Segments
    BY <2>1, <2>3 DEF Segments
  <2> QED BY <2>4, <2>5
<1> QED BY <1>1, <1>2

LEMMA PutSegmentTyped ==
    ASSUME NEW reading \in Seq(Letters), NEW runtime \in Seq(Segments), NEW s \in Segments
    PROVE  PutSegment(reading, runtime, s) \in Seq(Segments)
<1> DEFINE cursor == EndOf(runtime)
           from == Max({cursor, s.start})
           end == Min({Len(reading), s.start + s.length})
<1>1. cursor \in Nat /\ s.start \in Nat /\ s.length \in Nat /\ s.surface \in Texts /\ Len(reading) \in Nat
  <2>1. cursor \in Nat
    BY EndOfIs
  <2>2. s.start \in Nat /\ s.length \in Nat /\ s.surface \in Texts
    BY DEF Segments
  <2> QED BY <2>1, <2>2
<1>2. from \in Nat /\ end \in Nat /\ end <= Len(reading)
  <2> HIDE DEF cursor
  <2>1. cursor \in Int /\ s.start \in Int /\ s.start + s.length \in Nat /\ s.start + s.length \in Int /\ Len(reading) \in Int
    BY <1>1
  <2>2. from \in {cursor, s.start} /\ end \in {Len(reading), s.start + s.length} /\ end <= Len(reading)
    BY <2>1, MinOfTwo, MaxOfTwo
  <2> QED BY <1>1, <2>1, <2>2
<1>p. PutSegment(reading, runtime, s) =
          IF s.length = 0 \/ s.start >= Len(reading) \/ end <= from THEN runtime
          ELSE runtime \o KanaBetween(reading, cursor, from)
                       \o <<[start |-> from, length |-> end - from, surface |-> s.surface]>>
  BY DEF PutSegment
<1> HIDE DEF from, end
<1>3. CASE s.length = 0 \/ s.start >= Len(reading) \/ end <= from
  BY <1>p, <1>3
<1>4. CASE ~(s.length = 0 \/ s.start >= Len(reading) \/ end <= from)
  <2> DEFINE gap == KanaBetween(reading, cursor, from)
             new == [start |-> from, length |-> end - from, surface |-> s.surface]
  <2>1. end - from \in Nat /\ from <= Len(reading)
    BY <1>1, <1>2, <1>4
  <2>2. gap \in Seq(Segments)
    BY <1>1, <1>2, <2>1, KanaBetweenTyped
  <2>3. new \in Segments
    BY <1>1, <1>2, <2>1 DEF Segments
  <2>4. PutSegment(reading, runtime, s) = runtime \o gap \o <<new>>
    BY <1>p, <1>4
  <2> HIDE DEF gap, new
  <2> QED BY <2>2, <2>3, <2>4
<1> QED BY <1>3, <1>4

\* InitializeSegmentMode goes through the segments one by one.
LEMMA RuntimeChain ==
    ASSUME NEW reading \in Seq(Letters), NEW segments \in Seq(Segments)
    PROVE  \E c \in [0 .. Len(segments) -> Seq(Segments)] :
              /\ c[0] = <<>> /\ SegmentRuntime(segments, reading) = c[Len(segments)] \o KanaBetween(reading, EndOf(c[Len(segments)]), Len(reading))
              /\ \A k \in 1 .. Len(segments) : c[k] = PutSegment(reading, c[k - 1], segments[k])
<1> DEFINE A == Seq(Segments)
           E == Segments
           n == Len(segments)
           Put(a, e) == PutSegment(reading, a, e)
           op == [p \in A \X E |-> Put(p[1], p[2])]
           Eq(f, s) == IF s = {} THEN <<>> ELSE Put(f[s \ {Max(s)}], segments[Max(s)])
           h == CHOOSE f : f = [s \in SUBSET DOMAIN segments |-> Eq(f, s)]
<1>1. <<>> \in A /\ \A a \in A, e \in E : Put(a, e) \in A
  BY PutSegmentTyped
<1>2. SegmentRuntime(segments, reading) = h[DOMAIN segments] \o KanaBetween(reading, EndOf(h[DOMAIN segments]), Len(reading))
  BY DEF SegmentRuntime, PutSegment, KanaBetween, FoldLeft, MapThenFoldSet
<1> HIDE DEF A, E, Put
<1>3. segments \in Seq(E) /\ DOMAIN segments = 1 .. n /\ n \in Nat /\ \A k \in 1 .. n : segments[k] \in E
  BY DEF E
<1>4. op \in [A \X E -> A] /\ \A a \in A, e \in E : op[<<a, e>>] = Put(a, e)
  BY <1>1
<1> HIDE DEF op
<1>5. PICK iter \in [SUBSET (1 .. n) -> A] : Folds(iter, <<>>, op, segments)
  BY <1>1, <1>3, <1>4, FoldExists
<1>6. iter = [s \in SUBSET DOMAIN segments |-> Eq(iter, s)]
  <2>1. ASSUME NEW s \in SUBSET (1 .. n), s # {}
        PROVE  op[<<iter[s \ {Max(s)}], segments[Max(s)]>>] = Put(iter[s \ {Max(s)}], segments[Max(s)])
    <3>1. Max(s) \in 1 .. n
      BY <1>3, <2>1, MaxOf
    <3>2. iter[s \ {Max(s)}] \in A /\ segments[Max(s)] \in E
      BY <1>3, <3>1
    <3> QED BY <1>4, <3>2
  <2> QED BY <1>3, <1>5, <2>1 DEF Folds
<1>7. h = [s \in SUBSET DOMAIN segments |-> Eq(h, s)]
  <2> HIDE DEF Eq
  <2> QED BY <1>6
<1> HIDE DEF h
<1>8. h[{}] = <<>>
  BY <1>3, <1>7
<1>9. Obeys(h, A, <<>>, op, segments)
  <2> SUFFICES ASSUME NEW s \in SUBSET (1 .. n), s # {}, h[s \ {Max(s)}] \in A
               PROVE  h[s] = op[<<h[s \ {Max(s)}], segments[Max(s)]>>]
    BY <1>8 DEF Obeys
  <2>1. Max(s) \in 1 .. n /\ s \in SUBSET DOMAIN segments
    BY <1>3, MaxOf
  <2>2. h[s] = Put(h[s \ {Max(s)}], segments[Max(s)])
    BY <1>7, <2>1
  <2> HIDE DEF Eq
  <2> QED BY <1>3, <1>4, <2>1, <2>2
<1> HIDE DEF Eq
<1>10. PICK c \in [0 .. n -> A] : Chain(c, <<>>, op, segments) /\ c[n] = h[1 .. n]
  <2>1. Iterates(h, A, E, <<>>, op, segments)
    BY <1>1, <1>3, <1>4, <1>9 DEF Iterates
  <2> QED BY <2>1, FoldSteps
<1>11. ASSUME NEW k \in 1 .. n PROVE c[k] = Put(c[k - 1], segments[k])
  <2>1. k - 1 \in 0 .. n
    BY <1>3
  <2>2. c[k - 1] \in A /\ segments[k] \in E
    BY <1>3, <2>1
  <2> QED BY <1>4, <1>10, <2>2 DEF Chain
<1>12. SegmentRuntime(segments, reading) = c[n] \o KanaBetween(reading, EndOf(c[n]), Len(reading))
  BY <1>2, <1>3, <1>10
<1> QED BY <1>10, <1>11, <1>12 DEF A, Put, Chain


\* Segments that lie one behind the other and cover the reading stay as they are.
LEMMA RuntimeIsTheSegments ==
    ASSUME NEW reading \in Seq(Letters), NEW segments \in Seq(Segments), Tiles(segments, reading)
    PROVE  SegmentRuntime(segments, reading) = segments
<1> DEFINE n == Len(segments)
<1>1. PICK c \in [0 .. n -> Seq(Segments)] :
        /\ c[0] = <<>>
        /\ SegmentRuntime(segments, reading) = c[n] \o KanaBetween(reading, EndOf(c[n]), Len(reading))
        /\ \A k \in 1 .. n : c[k] = PutSegment(reading, c[k - 1], segments[k])
  BY RuntimeChain
<1>2. n \in Nat /\ DOMAIN segments = 1 .. n /\ \A k \in 1 .. n : segments[k] \in Segments
  OBVIOUS
<1> DEFINE E(k) == EndOf(SubSeq(segments, 1, k))
           L == Len(reading)
<1>3. /\ EndOf(segments) = L /\ L \in Nat
      /\ \A k \in 1 .. n : segments[k].length > 0 /\ segments[k].start = E(k - 1)
  BY DEF Tiles
<1>4. \A k \in 0 .. n : SubSeq(segments, 1, k) \in Seq(Segments) /\ E(k) \in Nat
  <2> SUFFICES ASSUME NEW k \in 0 .. n PROVE SubSeq(segments, 1, k) \in Seq(Segments) /\ E(k) \in Nat
    OBVIOUS
  <2>1. SubSeq(segments, 1, k) \in Seq(Segments)
    BY <1>2
  <2> QED BY <2>1, EndOfIs
<1>5. SubSeq(segments, 1, 0) = <<>> /\ SubSeq(segments, 1, n) = segments
  BY <1>2
<1>6. \A k \in 1 .. n :
        /\ SubSeq(segments, 1, k) = Append(SubSeq(segments, 1, k - 1), segments[k])
        /\ E(k) = segments[k].start + segments[k].length
  <2> SUFFICES ASSUME NEW k \in 1 .. n
               PROVE  /\ SubSeq(segments, 1, k) = Append(SubSeq(segments, 1, k - 1), segments[k])
                      /\ E(k) = segments[k].start + segments[k].length
    OBVIOUS
  <2>1. k - 1 \in 0 .. n /\ k \in 0 .. n
    BY <1>2
  <2>2. SubSeq(segments, 1, k) = Append(SubSeq(segments, 1, k - 1), segments[k])
    BY <1>2, <1>4, <2>1
  <2>3. EndOf(Append(SubSeq(segments, 1, k - 1), segments[k])) = segments[k].start + segments[k].length
    BY <1>2, <1>4, <2>1, EndOfIs
  <2> QED BY <2>2, <2>3
<1>7. \A k \in 1 .. n : E(k - 1) < E(k) /\ E(k - 1) = segments[k].start
  <2> SUFFICES ASSUME NEW k \in 1 .. n PROVE E(k - 1) < E(k) /\ E(k - 1) = segments[k].start
    OBVIOUS
  <2>1. k - 1 \in 0 .. n
    BY <1>2
  <2>2. E(k - 1) \in Nat
    BY <1>4, <2>1
  <2>3. segments[k].length \in Nat
    BY <1>2 DEF Segments
  <2>4. E(k) = segments[k].start + segments[k].length /\ segments[k].length > 0 /\ segments[k].start = E(k - 1)
    BY <1>3, <1>6
  <2> HIDE DEF E
  <2> QED BY <2>2, <2>3, <2>4
<1>8. E(n) = L
  BY <1>3, <1>5
<1> HIDE DEF E, n, L
<1> DEFINE T == {j \in Nat : j <= n => E(n - j) <= L}
<1>9. \A j \in Nat : j <= n => E(n - j) <= L
  <2>1. 0 \in T
    BY <1>2, <1>3, <1>8
  <2>2. ASSUME NEW j \in Nat, j \in T PROVE j + 1 \in T
    <3> SUFFICES ASSUME j + 1 <= n PROVE E(n - (j + 1)) <= L
      OBVIOUS
    <3>1. n - j \in 1 .. n /\ (n - j) - 1 = n - (j + 1) /\ j <= n
      BY <1>2
    <3>2. E((n - j) - 1) < E(n - j) /\ E(n - j) <= L
      BY <1>7, <2>2, <3>1
    <3>3. n - (j + 1) \in 0 .. n /\ n - j \in 0 .. n
      BY <1>2, <3>1
    <3>4. E(n - (j + 1)) \in Nat /\ E(n - j) \in Nat
      BY <1>4, <3>3 DEF E
    <3> QED BY <1>3, <3>1, <3>2, <3>4
  <2> HIDE DEF T
  <2>3. Nat \subseteq T
    BY <2>1, <2>2, SetInduction
  <2> QED BY <2>3 DEF T
<1>10. \A k \in 1 .. n : E(k) <= L
  <2> SUFFICES ASSUME NEW k \in 1 .. n PROVE E(k) <= L
    OBVIOUS
  <2>1. n - k \in Nat /\ n - k <= n /\ n - (n - k) = k
    BY <1>2
  <2>2. E(n - (n - k)) <= L
    BY <1>9, <2>1
  <2> QED BY <2>1, <2>2
<1>11. \A k \in 1 .. n :
         PutSegment(reading, SubSeq(segments, 1, k - 1), segments[k]) = SubSeq(segments, 1, k)
  <2> SUFFICES ASSUME NEW k \in 1 .. n
               PROVE  PutSegment(reading, SubSeq(segments, 1, k - 1), segments[k]) = SubSeq(segments, 1, k)
    OBVIOUS
  <2> DEFINE before == SubSeq(segments, 1, k - 1)
             s == segments[k]
             from == Max({EndOf(before), s.start})
             end == Min({L, s.start + s.length})
  <2>1. k - 1 \in 0 .. n
    BY <1>2
  <2>2. before \in Seq(Segments) /\ s \in Segments /\ SubSeq(segments, 1, k) = Append(before, s)
    BY <1>2, <1>4, <1>6, <2>1
  <2>3. s.start \in Nat /\ s.length \in Nat /\ s.length > 0 /\ s = [start |-> s.start, length |-> s.length, surface |-> s.surface]
    BY <1>3, <2>2 DEF Segments
  <2>4. EndOf(before) = s.start /\ s.start + s.length <= L
    BY <1>6, <1>7, <1>10 DEF E
  <2>5. PutSegment(reading, before, s) =
          IF s.length = 0 \/ s.start >= L \/ end <= from THEN before
          ELSE before \o KanaBetween(reading, EndOf(before), from)
                       \o <<[start |-> from, length |-> end - from, surface |-> s.surface]>>
    BY DEF PutSegment, L
  <2> HIDE DEF before, s
  <2>6. from = s.start
    <3>1. EndOf(before) \in Int /\ s.start \in Int
      BY <2>3, <2>4
    <3>2. from \in {EndOf(before), s.start}
      BY <3>1, MaxOfTwo
    <3> QED BY <2>4, <3>2
  <2>7. end = s.start + s.length
    <3>1. L \in Int /\ s.start + s.length \in Int
      BY <1>3, <2>3
    <3>2. end \in {L, s.start + s.length} /\ end <= L /\ end <= s.start + s.length
      BY <3>1, MinOfTwo
    <3> QED BY <2>3, <2>4, <3>1, <3>2
  <2> HIDE DEF from, end
  <2>8. KanaBetween(reading, EndOf(before), from) = <<>>
    BY <2>3, <2>4, <2>6 DEF KanaBetween
  <2>9. ~(s.length = 0 \/ s.start >= L \/ end <= from) /\ end - from = s.length
    BY <1>3, <2>3, <2>4, <2>6, <2>7
  <2>10. PutSegment(reading, before, s) = before \o <<>> \o <<s>>
    BY <2>3, <2>5, <2>6, <2>8, <2>9
  <2>11. before \o <<>> \o <<s>> = Append(before, s)
    BY <2>2
  <2> QED BY <2>2, <2>10, <2>11 DEF before, s
<1> DEFINE U == {k \in Nat : k <= n => c[k] = SubSeq(segments, 1, k)}
<1>12. \A k \in Nat : k <= n => c[k] = SubSeq(segments, 1, k)
  <2>1. 0 \in U
    BY <1>1, <1>5
  <2>2. ASSUME NEW k \in Nat, k \in U PROVE k + 1 \in U
    <3> SUFFICES ASSUME k + 1 <= n PROVE c[k + 1] = SubSeq(segments, 1, k + 1)
      OBVIOUS
    <3>1. k + 1 \in 1 .. n /\ (k + 1) - 1 = k /\ k <= n
      BY <1>2
    <3>2. c[k + 1] = PutSegment(reading, c[(k + 1) - 1], segments[k + 1])
      BY <1>1, <3>1
    <3>3. PutSegment(reading, SubSeq(segments, 1, (k + 1) - 1), segments[k + 1]) = SubSeq(segments, 1, k + 1)
      BY <1>11, <3>1
    <3>4. c[k] = SubSeq(segments, 1, k)
      BY <2>2, <3>1
    <3> QED BY <3>1, <3>2, <3>3, <3>4
  <2> HIDE DEF U
  <2>3. Nat \subseteq U
    BY <2>1, <2>2, SetInduction
  <2> QED BY <2>3 DEF U
<1>13. c[n] = segments
  BY <1>2, <1>5, <1>12
<1>14. KanaBetween(reading, EndOf(segments), L) = <<>>
  BY <1>3 DEF KanaBetween
<1> QED BY <1>1, <1>13, <1>14 DEF L

\* What is shown when the list opens on an answer of the bridge reads the reading.
LEMMA OpeningReads ==
    ASSUME BridgeAnswerInv, At("answered"), bridge.reading \in Seq(Letters),
           bridge.candidates # <<>>, bridge.intact
    PROVE  ReadingOf(OpeningPreview(bridge.candidates, bridge.segments, bridge.reading)) = bridge.reading
<1> DEFINE candidates == bridge.candidates
           segments == bridge.segments
           reading == bridge.reading
           runtime == SegmentRuntime(segments, reading)
<1>1. candidates \in Seq(Texts) /\ segments \in Seq(Segments)
  BY DEF BridgeAnswerInv, BridgeRecords
<1>2. CASE segments # <<>> /\ Len(runtime) > 1
  <2>1. Tiles(segments, reading)
    BY <1>2 DEF BridgeAnswerInv, SegmentsTile
  <2>2. runtime = segments
    BY <1>1, <2>1, RuntimeIsTheSegments
  <2>3. ReadingOf(ComposeSegmentReading(segments)) = reading
    BY <1>2 DEF BridgeAnswerInv, ClausesReadTheReading, SegmentsRead
  <2>4. OpeningPreview(candidates, segments, reading) = ComposeSegmentReading(runtime)
    BY <1>2 DEF OpeningPreview
  <2> QED BY <2>2, <2>3, <2>4
<1>3. CASE ~(segments # <<>> /\ Len(runtime) > 1)
  <2>1. OpeningPreview(candidates, segments, reading) = candidates[1]
    BY <1>3 DEF OpeningPreview
  <2>2. 1 \in DOMAIN candidates
    BY <1>1
  <2>3. Len(segments) < 2
    <3>1. CASE segments = <<>>
      BY <3>1
    <3>2. CASE segments # <<>>
      <4>1. Tiles(segments, reading)
        BY <3>2 DEF BridgeAnswerInv, SegmentsTile
      <4>2. runtime = segments
        BY <1>1, <4>1, RuntimeIsTheSegments
      <4> QED BY <1>1, <1>3, <3>2, <4>2
    <3> QED BY <3>1, <3>2
  <2>4. ReadingOf(candidates[1]) = reading
    BY <2>2, <2>3 DEF BridgeAnswerInv, WholesReadTheReading
  <2> QED BY <2>1, <2>4
<1> QED BY <1>2, <1>3

-----------------------------------------------------------------------------
\* The words of a dictionary, and the cheapest path.

\* Among finitely many things that cost something, one costs least.
LEMMA LeastExists ==
    ASSUME NEW S, IsFiniteSet(S), S # {}, NEW g \in [S -> Int]
    PROVE  \E x \in S : \A y \in S : g[x] <= g[y]
<1> DEFINE n == Cardinality(S)
<1>1. n \in Nat /\ ExistsBijection(1 .. n, S)
  BY FS_CardinalityType
<1>2. PICK f \in [1 .. n -> S] : \A y \in S : \E i \in 1 .. n : f[i] = y
  BY <1>1 DEF ExistsBijection, Bijection, Surjection
<1> HIDE DEF n
<1> DEFINE Least(x, k) == \A j \in 1 .. k : g[x] <= g[f[j]]
           T == {k \in Nat : k \in 1 .. n => \E x \in S : Least(x, k)}
<1>3. 0 \in T
  OBVIOUS
<1>4. ASSUME NEW k \in Nat, k \in T PROVE k + 1 \in T
  <2> SUFFICES ASSUME k + 1 \in 1 .. n PROVE \E x \in S : Least(x, k + 1)
    OBVIOUS
  <2>1. f[k + 1] \in S /\ g[f[k + 1]] \in Int
    BY <1>2
  <2>2. CASE k = 0
    <3>1. Least(f[k + 1], k + 1)
      BY <2>1, <2>2
    <3> QED BY <2>1, <3>1
  <2>3. CASE k # 0
    <3>1. k \in 1 .. n
      BY <1>1, <2>3
    <3>2. PICK x \in S : Least(x, k)
      BY <1>4, <3>1
    <3>3. g[x] \in Int
      OBVIOUS
    <3>4. CASE g[x] <= g[f[k + 1]]
      <4>1. Least(x, k + 1)
        BY <3>2, <3>4
      <4> QED BY <4>1
    <3>5. CASE g[f[k + 1]] <= g[x]
      <4>1. ASSUME NEW j \in 1 .. k + 1 PROVE g[f[k + 1]] <= g[f[j]]
        <5>1. j = k + 1 \/ (j \in 1 .. k /\ j \in 1 .. n)
          BY <3>1, <1>1
        <5>2. ASSUME j \in 1 .. k, j \in 1 .. n PROVE g[f[k + 1]] <= g[f[j]]
          <6>1. g[x] <= g[f[j]] /\ g[f[j]] \in Int
            BY <3>2, <5>2
          <6> QED BY <2>1, <3>3, <3>5, <6>1
        <5> QED BY <2>1, <5>1, <5>2
      <4>2. Least(f[k + 1], k + 1)
        BY <4>1
      <4> QED BY <2>1, <4>2
    <3> QED BY <2>1, <3>3, <3>4, <3>5
  <2> QED BY <2>2, <2>3
<1>5. n \in T
  <2> HIDE DEF T
  <2>1. Nat \subseteq T
    BY <1>3, <1>4, SetInduction
  <2> QED BY <1>1, <2>1
<1>6. n \in 1 .. n
  BY <1>1, <1>2
<1>7. PICK x \in S : Least(x, n)
  BY <1>5, <1>6
<1>8. ASSUME NEW y \in S PROVE g[x] <= g[y]
  <2>1. PICK i \in 1 .. n : f[i] = y
    BY <1>2
  <2> QED BY <1>7, <2>1
<1> QED BY <1>8

\* A dictionary.
Vocabulary(words) ==
    /\ IsFiniteSet(words)
    /\ \A w \in words : /\ w \in [key : Seq(Letters), surface : Texts, cost : Int]
                        /\ ReadingOf(w.surface) = w.key

LEMMA CostsAreNumbers ==
    ASSUME NEW words, Vocabulary(words), NEW w \in words
    PROVE  AdjustedCost(w) \in Int /\ CostOfWord(w) \in Int /\ CostOfWord(w) = AdjustedCost(w) + Len(w.key) * LetterPenalty
<1>1. w.cost \in Int /\ KanaPenalty \in Int /\ LetterPenalty \in Int /\ Len(w.key) \in Int
  BY WordsAssumption DEF Vocabulary
<1>2. AdjustedCost(w) \in Int
  BY <1>1 DEF AdjustedCost
<1>3. Len(w.key) * LetterPenalty \in Int
  BY <1>1
<1> QED BY <1>2, <1>3 DEF CostOfWord

Best(words, key) == CHOOSE w \in Matches(words, key) : \A v \in Matches(words, key) : AdjustedCost(w) <= AdjustedCost(v)

LEMMA BestIs ==
    ASSUME NEW words, Vocabulary(words), NEW key, Matches(words, key) # {}
    PROVE  /\ Best(words, key) \in Matches(words, key)
           /\ \A v \in Matches(words, key) : CostOfWord(Best(words, key)) <= CostOfWord(v)
<1> DEFINE M == Matches(words, key)
           g == [w \in M |-> AdjustedCost(w)]
<1>1. M \subseteq words /\ IsFiniteSet(M) /\ \A w \in M : w.key = key
  <2>1. M \subseteq words /\ \A w \in M : w.key = key
    BY DEF Matches
  <2> QED BY <2>1, FS_Subset DEF Vocabulary
<1>2. \A w \in M : AdjustedCost(w) \in Int
  BY <1>1, CostsAreNumbers
<1> HIDE DEF M
<1>3. g \in [M -> Int]
  BY <1>2
<1>4. \E w \in M : \A v \in M : g[w] <= g[v]
  BY <1>1, <1>3, LeastExists DEF M
<1>5. \E w \in M : \A v \in M : AdjustedCost(w) <= AdjustedCost(v)
  BY <1>4
<1> DEFINE b == Best(words, key)
<1>6. b \in M /\ \A v \in M : AdjustedCost(b) <= AdjustedCost(v)
  BY <1>5 DEF Best, M
<1> HIDE DEF b
<1>7. ASSUME NEW v \in M PROVE CostOfWord(b) <= CostOfWord(v)
  <2> DEFINE x == Len(key) * LetterPenalty
  <2>1. /\ CostOfWord(b) = AdjustedCost(b) + x /\ CostOfWord(v) = AdjustedCost(v) + x
        /\ CostOfWord(b) \in Int /\ CostOfWord(v) \in Int
        /\ AdjustedCost(b) \in Int /\ AdjustedCost(v) \in Int
    BY <1>1, <1>6, CostsAreNumbers
  <2>2. x \in Int
    <3>1. key \in Seq(Letters)
      BY <1>1, <1>6 DEF Vocabulary
    <3> QED BY <3>1, WordsAssumption
  <2> HIDE DEF x
  <2> QED BY <1>6, <2>1, <2>2
<1> QED BY <1>6, <1>7 DEF M, b

\* The tokens for a stretch: the word that costs least, and an unknown letter.
LEMMA TokensAre ==
    ASSUME NEW words, Vocabulary(words), NEW reading \in Seq(Letters),
           NEW i \in Nat, NEW end \in 1 .. Len(reading), i < end
    PROVE  LET key == SubSeq(reading, i + 1, end)
               tokens == TokensBetween(words, reading, i, end)
           IN  /\ \A t \in tokens : /\ t.text \in Texts /\ t.cost \in Int /\ ReadingOf(t.text) = key
                                    /\ end - i <= MaxWord => t.cost \in CostsOfPart(words, key)
               /\ \A x \in CostsOfPart(words, key) : x \in Int /\ end - i <= MaxWord /\ \E t \in tokens : t.cost <= x
               /\ end = i + 1 => tokens # {}
               /\ tokens # {} => \E t \in tokens : \A u \in tokens : t.cost <= u.cost
<1> DEFINE key == SubSeq(reading, i + 1, end)
           tokens == TokensBetween(words, reading, i, end)
           best == Best(words, key)
           word == [text |-> best.surface, cost |-> CostOfWord(best)]
           letter == Unknown(reading[end])
           some == Matches(words, key) # {}
           one == end = i + 1
<1>1. /\ Len(key) = end - i /\ key \in Seq(Letters) /\ Len(key) \in Nat /\ end - i \in Int
      /\ one => key = <<reading[end]>>
  <2>1. Len(reading) \in Nat /\ i + 1 \in 1 .. Len(reading) /\ end \in 1 .. Len(reading)
    OBVIOUS
  <2>2. key \in Seq(Letters) /\ Len(key) = end - i
    BY <2>1
  <2>3. ASSUME one PROVE key = <<reading[end]>>
    <3>1. key \in Seq(Letters) /\ Len(key) = 1
      BY <2>2, <2>3
    <3>2. key[1] = reading[i + 1] /\ reading[i + 1] = reading[end]
      BY <2>1, <2>3
    <3> HIDE DEF key
    <3> QED BY <3>1, <3>2
  <2> QED BY <2>1, <2>2, <2>3
<1>2. /\ reading[end] \in Letters
      /\ tokens = (IF some THEN {word} ELSE {}) \cup (IF one THEN {letter} ELSE {})
  <2>1. tokens = (IF some THEN {word} ELSE {}) \cup (IF one THEN {letter} ELSE {})
    BY DEF TokensBetween, Best
  <2> QED BY <2>1
<1> HIDE DEF key, tokens
<1>3. ASSUME some
      PROVE  /\ word.text \in Texts /\ word.cost \in Int /\ ReadingOf(word.text) = key
             /\ end - i <= MaxWord => word.cost \in CostsOfPart(words, key)
             /\ \A w \in Matches(words, key) : word.cost <= CostOfWord(w)
  <2>1. best \in Matches(words, key) /\ \A w \in Matches(words, key) : CostOfWord(best) <= CostOfWord(w)
    BY <1>3, BestIs
  <2>2. best \in words /\ best.key = key
    BY <2>1 DEF Matches
  <2>3. CostOfWord(best) \in Int /\ best.surface \in Texts /\ ReadingOf(best.surface) = key
    BY <2>2, CostsAreNumbers DEF Vocabulary
  <2>4. ASSUME end - i <= MaxWord PROVE CostOfWord(best) \in CostsOfPart(words, key)
    <3>1. ~(Len(key) > MaxWord)
      BY <1>1, <2>4, WordsAssumption
    <3> QED BY <2>1, <3>1 DEF CostsOfPart
  <2> HIDE DEF best
  <2> QED BY <2>1, <2>3, <2>4
<1>4. ASSUME one
      PROVE  /\ letter.text \in Texts /\ letter.cost = UnknownPenalty /\ letter.cost \in Int
             /\ ReadingOf(letter.text) = key /\ letter.cost \in CostsOfPart(words, key)
  <2>1. Len(key) = 1 /\ key = <<reading[end]>>
    BY <1>1, <1>4
  <2>2. InKana(key) \in Texts /\ ReadingOf(InKana(key)) = key
    BY <1>1, KanaReads
  <2> QED BY <2>1, <2>2, WordsAssumption DEF Unknown, CostsOfPart
<1> HIDE DEF word, letter
<1>5. ASSUME NEW t \in tokens
      PROVE  /\ t.text \in Texts /\ t.cost \in Int /\ ReadingOf(t.text) = key
             /\ end - i <= MaxWord => t.cost \in CostsOfPart(words, key)
  <2>1. (some /\ t = word) \/ (one /\ t = letter)
    BY <1>2
  <2> QED BY <1>3, <1>4, <2>1
<1>6. ASSUME NEW x \in CostsOfPart(words, key)
      PROVE  x \in Int /\ end - i <= MaxWord /\ \E t \in tokens : t.cost <= x
  <2>1. \/ ~(Len(key) > MaxWord) /\ \E w \in Matches(words, key) : x = CostOfWord(w)
        \/ Len(key) = 1 /\ x = UnknownPenalty
    BY DEF CostsOfPart
  <2>2. ASSUME ~(Len(key) > MaxWord), NEW w \in Matches(words, key), x = CostOfWord(w)
        PROVE  x \in Int /\ end - i <= MaxWord /\ \E t \in tokens : t.cost <= x
    <3>1. w \in words /\ some
      BY DEF Matches
    <3>2. CostOfWord(w) \in Int
      BY <3>1, CostsAreNumbers
    <3>3. word \in tokens /\ word.cost <= CostOfWord(w)
      BY <1>2, <1>3, <3>1
    <3> QED BY <1>1, <2>2, <3>2, <3>3, WordsAssumption
  <2>3. ASSUME Len(key) = 1, x = UnknownPenalty
        PROVE  x \in Int /\ end - i <= MaxWord /\ \E t \in tokens : t.cost <= x
    <3>1. one
      <4>1. end - i = 1
        BY <1>1, <2>3
      <4>2. end \in Int /\ i \in Int
        OBVIOUS
      <4> HIDE DEF best, some
      <4> QED BY <4>1, <4>2
    <3>2. end - i <= MaxWord
      <4>1. MaxWord \in Nat \ {0} /\ end = i + 1 /\ end \in Int
        BY <3>1, WordsAssumption
      <4> HIDE DEF one
      <4> QED BY <4>1
    <3>3. x \in Int
      BY <2>3, WordsAssumption
    <3>4. letter \in tokens /\ letter.cost <= x
      BY <1>2, <1>4, <2>3, <3>1, <3>3
    <3> QED BY <3>2, <3>3, <3>4
  <2> QED BY <2>1, <2>2, <2>3
<1>7. ASSUME tokens # {} PROVE \E t \in tokens : \A u \in tokens : t.cost <= u.cost
  <2>1. CASE some /\ one
    <3>1. tokens = {word, letter} /\ word.cost \in Int /\ letter.cost \in Int
      BY <1>2, <1>3, <1>4, <2>1
    <3>2. CASE word.cost <= letter.cost
      BY <3>1, <3>2
    <3>3. CASE letter.cost <= word.cost
      BY <3>1, <3>3
    <3> QED BY <3>1, <3>2, <3>3
  <2>2. CASE some /\ ~one
    <3>1. tokens = {word} /\ word.cost \in Int
      BY <1>2, <1>3, <2>2
    <3> QED BY <3>1
  <2>3. CASE ~some /\ one
    <3>1. tokens = {letter} /\ letter.cost \in Int
      BY <1>2, <1>4, <2>3
    <3> QED BY <3>1
  <2>4. CASE ~some /\ ~one
    BY <1>2, <1>7, <2>4
  <2> QED BY <2>1, <2>2, <2>3, <2>4
<1>8. one => tokens # {}
  BY <1>2
<1> QED BY <1>5, <1>6, <1>7, <1>8 DEF key, tokens

\* The places from which a word may lead to this one.
LEMMA FromIs ==
    ASSUME NEW end \in Nat \ {0}
    PROVE  LET from == Max({0, end - MaxWord})
           IN  /\ from \in Nat /\ from <= end - 1
               /\ \A i \in Int : i \in from .. end - 1 <=> i \in 0 .. end - 1 /\ end - i <= MaxWord
<1> DEFINE from == Max({0, end - MaxWord})
<1>1. MaxWord \in Nat \ {0} /\ end \in Int /\ 0 \in Int /\ end - MaxWord \in Int
  BY WordsAssumption
<1>2. from \in {0, end - MaxWord} /\ from >= 0 /\ from >= end - MaxWord
  BY <1>1, MaxOfTwo
<1>3. from = 0 \/ from = end - MaxWord
  BY <1>2
<1> HIDE DEF from
<1>4. from \in Nat /\ from <= end - 1
  BY <1>1, <1>2, <1>3
<1>5. ASSUME NEW i \in Int
      PROVE  i \in from .. end - 1 <=> i \in 0 .. end - 1 /\ end - i <= MaxWord
  BY <1>1, <1>2, <1>3, <1>4
<1> QED BY <1>4, <1>5 DEF from

\* The paths to a place depend on the paths to the places before it only.
LEMMA PathsDepend ==
    ASSUME NEW words, NEW reading, NEW end \in Nat \ {0}, NEW f, NEW g,
           \A i \in 0 .. end - 1 : f[i] = g[i]
    PROVE  PathsTo(words, reading, f, end) = PathsTo(words, reading, g, end)
<1> DEFINE from == Max({0, end - MaxWord})
           Way(p, i) == {[text |-> p[i].text \o t.text, cost |-> p[i].cost + t.cost] :
                             t \in TokensBetween(words, reading, i, end)}
<1>1. PathsTo(words, reading, f, end) = UNION {Way(f, i) : i \in from .. end - 1}
  BY DEF PathsTo
<1>2. PathsTo(words, reading, g, end) = UNION {Way(g, i) : i \in from .. end - 1}
  BY DEF PathsTo
<1>3. \A i \in from .. end - 1 : f[i] = g[i]
  <2>1. from \in Nat /\ \A i \in from .. end - 1 : i \in 0 .. end - 1
    BY FromIs
  <2> HIDE DEF from
  <2> QED BY <2>1
<1> HIDE DEF from
<1>4. \A i \in from .. end - 1 : Way(f, i) = Way(g, i)
  BY <1>3
<1> HIDE DEF Way
<1> QED BY <1>1, <1>2, <1>4

NoPath == [text |-> <<>>, cost |-> 0]
PathAt(words, reading, f, end) ==
    IF end = 0 THEN NoPath ELSE Cheapest(PathsTo(words, reading, f, end))

LEMMA PathExists ==
    ASSUME NEW words, NEW reading \in Seq(Letters)
    PROVE  \E f : f = [end \in 0 .. Len(reading) |-> PathAt(words, reading, f, end)]
<1> DEFINE Node(f, end) == PathAt(words, reading, f, end)
           Works(f, k) == f = [end \in 0 .. k |-> Node(f, end)]
           T == {k \in Nat : \E f : Works(f, k)}
<1>1. ASSUME NEW f, NEW g, NEW end \in Nat, \A i \in 0 .. end - 1 : f[i] = g[i]
      PROVE  Node(f, end) = Node(g, end)
  <2>1. CASE end = 0
    BY <2>1 DEF PathAt
  <2>2. CASE end # 0
    BY <1>1, <2>2, PathsDepend DEF PathAt
  <2> QED BY <2>1, <2>2
<1> HIDE DEF Node
<1>2. 0 \in T
  <2> DEFINE f == [end \in 0 .. 0 |-> Node(<<>>, end)]
  <2>1. f[0] = Node(<<>>, 0) /\ Node(<<>>, 0) = Node(f, 0)
    BY <1>1
  <2>2. \A end \in 0 .. 0 : end = 0
    OBVIOUS
  <2>3. \A end \in 0 .. 0 : Node(<<>>, end) = Node(f, end)
    BY <2>1, <2>2
  <2>4. f = [end \in 0 .. 0 |-> Node(f, end)]
    BY <2>3
  <2> HIDE DEF f
  <2> QED BY <2>4
<1>3. ASSUME NEW k \in Nat, k \in T PROVE k + 1 \in T
  <2>1. PICK f : Works(f, k)
    BY <1>3
  <2> DEFINE g == [end \in 0 .. k + 1 |-> IF end = k + 1 THEN Node(f, k + 1) ELSE f[end]]
  <2>2. \A i \in 0 .. k : i \in 0 .. k + 1 /\ i # k + 1
    OBVIOUS
  <2>3. \A i \in 0 .. k : g[i] = f[i] /\ f[i] = Node(f, i)
    BY <2>1, <2>2
  <2>4. g[k + 1] = Node(f, k + 1)
    OBVIOUS
  <2>5. DOMAIN g = 0 .. k + 1 /\ g = [end \in 0 .. k + 1 |-> g[end]]
    OBVIOUS
  <2> HIDE DEF g
  <2>6. ASSUME NEW end \in 0 .. k + 1 PROVE g[end] = Node(g, end)
    <3>1. \A i \in 0 .. end - 1 : i \in 0 .. k
      OBVIOUS
    <3>2. Node(f, end) = Node(g, end)
      BY <1>1, <2>3, <3>1
    <3>3. end = k + 1 \/ end \in 0 .. k
      OBVIOUS
    <3> QED BY <2>3, <2>4, <3>2, <3>3
  <2>7. g = [end \in 0 .. k + 1 |-> Node(g, end)]
    BY <2>5, <2>6
  <2> QED BY <2>7
<1> HIDE DEF T
<1>4. Nat \subseteq T
  BY <1>2, <1>3, SetInduction
<1>5. Len(reading) \in T
  BY <1>4
<1> QED BY <1>5 DEF T, Node

\* The table of the cheapest paths.
LEMMA PathIs ==
    ASSUME NEW words, NEW reading \in Seq(Letters)
    PROVE  \E f : /\ SegmentReading(words, reading) = f[Len(reading)]
                  /\ \A end \in 0 .. Len(reading) : f[end] = PathAt(words, reading, f, end)
<1> DEFINE f == CHOOSE p : p = [end \in 0 .. Len(reading) |-> PathAt(words, reading, p, end)]
<1>1. SegmentReading(words, reading) = f[Len(reading)]
  BY DEF SegmentReading, PathAt, NoPath
<1>2. f = [end \in 0 .. Len(reading) |-> PathAt(words, reading, f, end)]
  BY PathExists
<1> HIDE DEF f
<1> QED BY <1>1, <1>2

\* What is known of the path to one place.
ReadsSoFar(f, reading, end) ==
    /\ f[end].text \in Texts /\ f[end].cost \in Int
    /\ ReadingOf(f[end].text) = SubSeq(reading, 1, end)
CheapestTo(f, words, reading, end) ==
    /\ f[end] \in PathsTo(words, reading, f, end)
    /\ \A q \in PathsTo(words, reading, f, end) : f[end].cost <= q.cost

LEMMA SubSeqJoin ==
    ASSUME NEW S, NEW s \in Seq(S), NEW i \in Nat, NEW end \in 1 .. Len(s), i < end
    PROVE  SubSeq(s, 1, i) \o SubSeq(s, i + 1, end) = SubSeq(s, 1, end)
<1> DEFINE a == SubSeq(s, 1, i)
           b == SubSeq(s, i + 1, end)
           c == SubSeq(s, 1, end)
<1>0. Len(s) \in Nat /\ end \in Nat /\ i + 1 \in Nat /\ i + 1 <= end /\ end <= Len(s) /\ i <= Len(s)
  OBVIOUS
<1>1. a \in Seq(S) /\ Len(a) = i /\ \A k \in 1 .. i : a[k] = s[k]
  BY <1>0
<1>2. b \in Seq(S) /\ Len(b) = end - i /\ \A k \in 1 .. end - i : b[k] = s[i + k]
  BY <1>0
<1>3. c \in Seq(S) /\ Len(c) = end /\ \A k \in 1 .. end : c[k] = s[k]
  BY <1>0
<1> HIDE DEF a, b, c
<1>4. a \o b \in Seq(S) /\ Len(a \o b) = end
  BY <1>0, <1>1, <1>2
<1>5. ASSUME NEW k \in 1 .. end PROVE (a \o b)[k] = c[k]
  <2>0. k \in Int /\ i \in Int
    OBVIOUS
  <2>1. CASE k <= i
    <3>1. k \in 1 .. i
      BY <2>1
    <3>2. (a \o b)[k] = a[k]
      BY <1>1, <1>2, <3>1
    <3> QED BY <1>1, <1>3, <3>1, <3>2
  <2>2. CASE k > i
    <3>1. k - i \in 1 .. end - i /\ i + (k - i) = k
      BY <2>2
    <3>2. (a \o b)[k] = b[k - i]
      BY <1>1, <1>2, <2>2, <3>1
    <3>3. b[k - i] = s[i + (k - i)]
      BY <1>2, <3>1
    <3> QED BY <1>3, <3>1, <3>2, <3>3
  <2>3. k <= i \/ k > i
    BY <2>0
  <2> QED BY <2>1, <2>2, <2>3
<1> QED BY <1>3, <1>4, <1>5 DEF a, b, c

LEMMA PathToPlace ==
    ASSUME NEW words, Vocabulary(words), NEW reading \in Seq(Letters), NEW f,
           NEW end \in 1 .. Len(reading), f[end] = PathAt(words, reading, f, end),
           \A i \in 0 .. end - 1 : ReadsSoFar(f, reading, i)
    PROVE  ReadsSoFar(f, reading, end) /\ CheapestTo(f, words, reading, end)
<1> DEFINE from == Max({0, end - MaxWord})
           Tokens(i) == TokensBetween(words, reading, i, end)
           Least(i) == CHOOSE t \in Tokens(i) : \A u \in Tokens(i) : t.cost <= u.cost
           Way(i, t) == [text |-> f[i].text \o t.text, cost |-> f[i].cost + t.cost]
           Ways == PathsTo(words, reading, f, end)
           S == {i \in from .. end - 1 : Tokens(i) # {}}
           g == [i \in S |-> f[i].cost + Least(i).cost]
<1>0. end \in Nat /\ end - 1 \in Nat /\ Len(reading) \in Nat /\ end # 0
  OBVIOUS
<1>1. from \in Nat /\ from <= end - 1 /\ \A i \in from .. end - 1 : i \in 0 .. end - 1
  <2>1. end \in Nat \ {0}
    OBVIOUS
  <2> QED BY <2>1, FromIs
<1> DEFINE By(i) == {Way(i, t) : t \in Tokens(i)}
<1>2. \A q : q \in Ways <=> \E i \in from .. end - 1 : \E t \in Tokens(i) : q = Way(i, t)
  <2>1. Ways = UNION {By(i) : i \in from .. end - 1}
    BY DEF PathsTo
  <2>2. \A i, q : q \in By(i) <=> \E t \in Tokens(i) : q = Way(i, t)
    OBVIOUS
  <2> HIDE DEF By, Ways, from, Tokens, Way
  <2> QED BY <2>1, <2>2
<1> HIDE DEF from, By
<1>3. ASSUME NEW i \in from .. end - 1
      PROVE  /\ \A t \in Tokens(i) : t.text \in Texts /\ t.cost \in Int /\ ReadingOf(t.text) = SubSeq(reading, i + 1, end)
             /\ Tokens(i) # {} => \E t \in Tokens(i) : \A u \in Tokens(i) : t.cost <= u.cost
             /\ i = end - 1 => Tokens(i) # {}
             /\ f[i].text \in Texts /\ f[i].cost \in Int /\ ReadingOf(f[i].text) = SubSeq(reading, 1, i)
             /\ i \in Nat /\ i < end
  <2>1. i \in Nat /\ i < end /\ i \in 0 .. end - 1
    BY <1>1
  <2>2. ReadsSoFar(f, reading, i)
    BY <2>1
  <2>3. /\ \A t \in Tokens(i) : t.text \in Texts /\ t.cost \in Int /\ ReadingOf(t.text) = SubSeq(reading, i + 1, end)
        /\ end = i + 1 => Tokens(i) # {}
        /\ Tokens(i) # {} => \E t \in Tokens(i) : \A u \in Tokens(i) : t.cost <= u.cost
    BY <2>1, TokensAre
  <2>4. i = end - 1 => end = i + 1
    BY <2>1
  <2> QED BY <2>1, <2>2, <2>3, <2>4 DEF ReadsSoFar
<1> HIDE DEF Tokens, Ways
<1>4. ASSUME NEW i \in S
      PROVE  /\ Least(i) \in Tokens(i) /\ \A u \in Tokens(i) : Least(i).cost <= u.cost
             /\ Least(i).cost \in Int /\ f[i].cost \in Int /\ i \in from .. end - 1
  <2>1. i \in from .. end - 1 /\ Tokens(i) # {}
    OBVIOUS
  <2>2. \E t \in Tokens(i) : \A u \in Tokens(i) : t.cost <= u.cost
    BY <1>3, <2>1
  <2>3. Least(i) \in Tokens(i) /\ \A u \in Tokens(i) : Least(i).cost <= u.cost
    BY <2>2
  <2> HIDE DEF Least, S
  <2> QED BY <1>3, <2>1, <2>3
<1> HIDE DEF Least
<1>5. IsFiniteSet(S) /\ S # {}
  <2>1. IsFiniteSet(from .. end - 1) /\ S \subseteq from .. end - 1
    <3>1. from \in Int /\ end - 1 \in Int
      BY <1>0, <1>1
    <3>2. S \subseteq from .. end - 1
      OBVIOUS
    <3> QED BY <3>1, <3>2, FS_Interval
  <2>2. end - 1 \in S
    BY <1>0, <1>1, <1>3
  <2> QED BY <2>1, <2>2, FS_Subset
<1>6. \A i \in S : f[i].cost + Least(i).cost \in Int
  <2> HIDE DEF S
  <2> QED BY <1>4
<1>7. PICK x \in S : \A y \in S : g[x] <= g[y]
  <2>1. g \in [S -> Int]
    BY <1>6
  <2> HIDE DEF g, S
  <2> QED BY <1>5, <2>1, LeastExists
<1> DEFINE q0 == Way(x, Least(x))
<1>8. q0 \in Ways /\ \A q \in Ways : q0.cost <= q.cost
  <2>1. q0 \in Ways /\ q0.cost = g[x]
    BY <1>2, <1>4
  <2>2. ASSUME NEW q \in Ways PROVE g[x] <= q.cost
    <3>0. PICK i \in from .. end - 1 : \E t \in Tokens(i) : q = Way(i, t)
      BY <1>2
    <3>1. PICK t \in Tokens(i) : q = Way(i, t)
      BY <3>0
    <3>2. i \in S
      BY <3>1
    <3>3. q.cost = f[i].cost + t.cost /\ g[i] = f[i].cost + Least(i).cost /\ g[x] <= g[i]
      BY <1>7, <3>1, <3>2
    <3>4. g[x] \in Int
      BY <1>6
    <3>5. Least(i).cost <= t.cost /\ Least(i).cost \in Int /\ t.cost \in Int /\ f[i].cost \in Int
      BY <1>3, <1>4, <3>1, <3>2
    <3> HIDE DEF g, S, Way
    <3> QED BY <3>3, <3>4, <3>5
  <2> HIDE DEF g, q0
  <2> QED BY <2>1, <2>2
<1>9. f[end] = Cheapest(Ways)
  BY <1>0 DEF PathAt, Ways
<1>10. f[end] \in Ways /\ \A q \in Ways : f[end].cost <= q.cost
  <2>1. \E p \in Ways : \A q \in Ways : p.cost <= q.cost
    BY <1>8
  <2> QED BY <1>9, <2>1 DEF Cheapest
<1>11. ReadsSoFar(f, reading, end)
  <2>0. PICK i \in from .. end - 1 : \E t \in Tokens(i) : f[end] = Way(i, t)
    BY <1>2, <1>10
  <2>1. PICK t \in Tokens(i) : f[end] = Way(i, t)
    BY <2>0
  <2>2. /\ t.text \in Texts /\ t.cost \in Int /\ ReadingOf(t.text) = SubSeq(reading, i + 1, end)
        /\ f[i].text \in Texts /\ f[i].cost \in Int /\ ReadingOf(f[i].text) = SubSeq(reading, 1, i)
        /\ i \in Nat /\ i < end
    BY <1>3
  <2>3. f[end].text = f[i].text \o t.text /\ f[end].cost = f[i].cost + t.cost
    <3>1. Way(i, t).text = f[i].text \o t.text /\ Way(i, t).cost = f[i].cost + t.cost
      OBVIOUS
    <3> HIDE DEF Way
    <3> QED BY <2>1, <3>1
  <2>4. f[i].text \o t.text \in Texts /\ f[i].cost + t.cost \in Int
    BY <2>2 DEF Texts
  <2>5. ReadingOf(f[i].text \o t.text) = SubSeq(reading, 1, i) \o SubSeq(reading, i + 1, end)
    BY <2>2, ReadingConcat
  <2>6. SubSeq(reading, 1, i) \o SubSeq(reading, i + 1, end) = SubSeq(reading, 1, end)
    BY <2>2, SubSeqJoin
  <2> HIDE DEF Way
  <2> QED BY <2>3, <2>4, <2>5, <2>6 DEF ReadsSoFar
<1> QED BY <1>10, <1>11 DEF CheapestTo, Ways

\* Every place is reached by a cheapest path, whose text reads what is before it.
LEMMA PathsAreCheapest ==
    ASSUME NEW words, Vocabulary(words), NEW reading \in Seq(Letters)
    PROVE  \E f : /\ SegmentReading(words, reading) = f[Len(reading)] /\ f[0] = NoPath
                  /\ \A end \in 0 .. Len(reading) : ReadsSoFar(f, reading, end)
                  /\ \A end \in 1 .. Len(reading) : CheapestTo(f, words, reading, end)
<1> DEFINE n == Len(reading)
<1>1. PICK f : /\ SegmentReading(words, reading) = f[n]
               /\ \A end \in 0 .. n : f[end] = PathAt(words, reading, f, end)
  BY PathIs
<1>2. f[0] = NoPath
  BY <1>1 DEF PathAt
<1> DEFINE Known(end) == ReadsSoFar(f, reading, end)
           T == {k \in Nat : \A end \in 0 .. k : end <= n => Known(end)}
<1>3. Known(0)
  <2>1. SubSeq(reading, 1, 0) = <<>> /\ <<>> \in Seq(Letters)
    OBVIOUS
  <2>2. ReadingOf(<<>>) = <<>> /\ <<>> \in Texts
    <3> DEFINE none == InKana(<<>>)
    <3>1. none \in Texts /\ Len(none) = Len(<<>>) /\ ReadingOf(none) = <<>>
      BY <2>1, KanaReads
    <3> HIDE DEF none
    <3>2. none = <<>>
      BY <3>1 DEF Texts
    <3> QED BY <3>1, <3>2
  <2>3. f[0].text = <<>> /\ f[0].cost = 0
    BY <1>2 DEF NoPath
  <2>4. ReadingOf(f[0].text) = SubSeq(reading, 1, 0)
    BY <2>1, <2>2, <2>3, Zenon
  <2> QED BY <2>2, <2>3, <2>4 DEF ReadsSoFar
<1>4. 0 \in T
  <2> HIDE DEF Known
  <2> QED BY <1>3
<1>5. ASSUME NEW k \in Nat, k \in T PROVE k + 1 \in T
  <2> HIDE DEF Known
  <2> SUFFICES ASSUME k + 1 <= n PROVE Known(k + 1)
    BY <1>5
  <2>1. k + 1 \in 1 .. n /\ k + 1 \in 0 .. n /\ (k + 1) - 1 = k
    OBVIOUS
  <2>2. \A i \in 0 .. k : Known(i)
    BY <1>5
  <2>3. \A i \in 0 .. (k + 1) - 1 : ReadsSoFar(f, reading, i)
    BY <2>1, <2>2 DEF Known
  <2> QED BY <1>1, <2>1, <2>3, PathToPlace DEF Known
<1> HIDE DEF T, Known
<1>6. Nat \subseteq T
  BY <1>4, <1>5, SetInduction
<1>7. \A end \in 0 .. n : Known(end)
  <2>1. n \in Nat /\ n \in T
    BY <1>6
  <2> QED BY <2>1 DEF T
<1>8. ASSUME NEW end \in 1 .. n PROVE CheapestTo(f, words, reading, end)
  <2>1. f[end] = PathAt(words, reading, f, end) /\ \A i \in 0 .. end - 1 : ReadsSoFar(f, reading, i)
    <3>1. end \in 0 .. n /\ \A i \in 0 .. end - 1 : i \in 0 .. n
      OBVIOUS
    <3> QED BY <1>1, <1>7, <3>1 DEF Known
  <2> QED BY <2>1, PathToPlace
<1> QED BY <1>1, <1>2, <1>7, <1>8 DEF Known

\* The total of a sequence of costs, one cost at a time.
LEMMA TotalChain ==
    ASSUME NEW costs \in Seq(Int)
    PROVE  \E c \in [0 .. Len(costs) -> Int] :
              /\ c[0] = 0 /\ Total(costs) = c[Len(costs)]
              /\ \A k \in 1 .. Len(costs) : c[k] = c[k - 1] + costs[k]
<1> DEFINE A == Int
           E == Int
           n == Len(costs)
           Put(a, e) == a + e
           op == [p \in A \X E |-> Put(p[1], p[2])]
           Eq(f, s) == IF s = {} THEN 0 ELSE Put(f[s \ {Max(s)}], costs[Max(s)])
           h == CHOOSE f : f = [s \in SUBSET DOMAIN costs |-> Eq(f, s)]
<1>1. 0 \in A /\ \A a \in A, e \in E : Put(a, e) \in A
  OBVIOUS
<1>2. Total(costs) = h[DOMAIN costs]
  BY DEF Total, FoldLeft, MapThenFoldSet
<1> HIDE DEF A, E, Put
<1>3. costs \in Seq(E) /\ DOMAIN costs = 1 .. n /\ n \in Nat /\ \A k \in 1 .. n : costs[k] \in E
  BY DEF E
<1>4. op \in [A \X E -> A] /\ \A a \in A, e \in E : op[<<a, e>>] = Put(a, e)
  BY <1>1
<1> HIDE DEF op
<1>5. PICK iter \in [SUBSET (1 .. n) -> A] : Folds(iter, 0, op, costs)
  BY <1>1, <1>3, <1>4, FoldExists
<1>6. iter = [s \in SUBSET DOMAIN costs |-> Eq(iter, s)]
  <2>1. ASSUME NEW s \in SUBSET (1 .. n), s # {}
        PROVE  op[<<iter[s \ {Max(s)}], costs[Max(s)]>>] = Put(iter[s \ {Max(s)}], costs[Max(s)])
    <3>1. Max(s) \in 1 .. n
      BY <1>3, <2>1, MaxOf
    <3>2. iter[s \ {Max(s)}] \in A /\ costs[Max(s)] \in E
      BY <1>3, <3>1
    <3> QED BY <1>4, <3>2
  <2> QED BY <1>3, <1>5, <2>1 DEF Folds
<1>7. h = [s \in SUBSET DOMAIN costs |-> Eq(h, s)]
  <2> HIDE DEF Eq
  <2> QED BY <1>6
<1> HIDE DEF h
<1>8. h[{}] = 0
  BY <1>3, <1>7
<1>9. Obeys(h, A, 0, op, costs)
  <2> SUFFICES ASSUME NEW s \in SUBSET (1 .. n), s # {}, h[s \ {Max(s)}] \in A
               PROVE  h[s] = op[<<h[s \ {Max(s)}], costs[Max(s)]>>]
    BY <1>8 DEF Obeys
  <2>1. Max(s) \in 1 .. n /\ s \in SUBSET DOMAIN costs
    BY <1>3, MaxOf
  <2>2. h[s] = Put(h[s \ {Max(s)}], costs[Max(s)])
    BY <1>7, <2>1
  <2> HIDE DEF Eq
  <2> QED BY <1>3, <1>4, <2>1, <2>2
<1> HIDE DEF Eq
<1>10. PICK c \in [0 .. n -> A] : Chain(c, 0, op, costs) /\ c[n] = h[1 .. n]
  <2>1. Iterates(h, A, E, 0, op, costs)
    BY <1>1, <1>3, <1>4, <1>9 DEF Iterates
  <2> QED BY <2>1, FoldSteps
<1>11. ASSUME NEW k \in 1 .. n PROVE c[k] = Put(c[k - 1], costs[k])
  <2>1. k - 1 \in 0 .. n
    BY <1>3
  <2>2. c[k - 1] \in A /\ costs[k] \in E
    BY <1>3, <2>1
  <2> QED BY <1>4, <1>10, <2>2 DEF Chain
<1>12. Total(costs) = c[n]
  BY <1>2, <1>3, <1>10
<1> QED BY <1>10, <1>11, <1>12 DEF A, Put, Chain

LEMMA TotalIs ==
    ASSUME NEW costs \in Seq(Int), NEW c \in [0 .. Len(costs) -> Int], c[0] = 0,
           \A k \in 1 .. Len(costs) : c[k] = c[k - 1] + costs[k]
    PROVE  Total(costs) = c[Len(costs)]
<1> DEFINE n == Len(costs)
<1>0. n \in Nat
  OBVIOUS
<1>1. PICK d \in [0 .. n -> Int] :
         /\ d[0] = 0 /\ Total(costs) = d[n]
         /\ \A k \in 1 .. n : d[k] = d[k - 1] + costs[k]
  BY TotalChain
<1> DEFINE T == {k \in Nat : k <= n => c[k] = d[k]}
<1>2. 0 \in T
  BY <1>1
<1>3. ASSUME NEW k \in Nat, k \in T PROVE k + 1 \in T
  <2> SUFFICES ASSUME k + 1 <= n PROVE c[k + 1] = d[k + 1]
    OBVIOUS
  <2>1. c[k] = d[k] /\ k + 1 \in 1 .. n /\ (k + 1) - 1 = k
    BY <1>0, <1>3
  <2>2. c[k + 1] = c[k] + costs[k + 1] /\ d[k + 1] = d[k] + costs[k + 1]
    BY <1>1, <2>1
  <2> QED BY <2>1, <2>2
<1> HIDE DEF T
<1>4. n \in T
  BY <1>0, <1>2, <1>3, SetInduction
<1>5. c[n] = d[n]
  BY <1>0, <1>4 DEF T
<1> QED BY <1>1, <1>5

\* The cheapest choice for a part is the cheapest token, where a word of its
\* length is looked up.
LEMMA CheapestOfPart ==
    ASSUME NEW words, Vocabulary(words), NEW reading \in Seq(Letters),
           NEW i \in Nat, NEW end \in 1 .. Len(reading), i < end,
           CostsOfPart(words, SubSeq(reading, i + 1, end)) # {}
    PROVE  LET costs == CostsOfPart(words, SubSeq(reading, i + 1, end))
           IN  /\ Min(costs) \in Int /\ end - i <= MaxWord
               /\ \A x \in costs : x \in Int /\ Min(costs) <= x
               /\ Min(costs) \in costs
               /\ \E t \in TokensBetween(words, reading, i, end) : t.cost = Min(costs)
<1> DEFINE costs == CostsOfPart(words, SubSeq(reading, i + 1, end))
           tokens == TokensBetween(words, reading, i, end)
<1>1. /\ \A t \in tokens : t.cost \in Int /\ (end - i <= MaxWord => t.cost \in costs)
      /\ \A x \in costs : x \in Int /\ end - i <= MaxWord /\ \E t \in tokens : t.cost <= x
      /\ tokens # {} => \E t \in tokens : \A u \in tokens : t.cost <= u.cost
  BY TokensAre
<1>2. costs # {}
  OBVIOUS
<1> HIDE DEF costs, tokens
<1>3. end - i <= MaxWord /\ tokens # {}
  BY <1>1, <1>2
<1>4. PICK t \in tokens : \A u \in tokens : t.cost <= u.cost
  BY <1>1, <1>3
<1>5. t.cost \in costs /\ t.cost \in Int
  BY <1>1, <1>3
<1>6. ASSUME NEW x \in costs PROVE x \in Int /\ t.cost <= x
  <2>1. PICK u \in tokens : u.cost <= x
    BY <1>1
  <2>2. t.cost <= u.cost /\ u.cost \in Int /\ x \in Int
    BY <1>1, <1>4
  <2> QED BY <1>5, <2>1, <2>2
<1>7. Min(costs) = t.cost
  <2>1. Min(costs) \in costs /\ \A x \in costs : Min(costs) <= x
    BY <1>5, <1>6 DEF Min
  <2>2. Min(costs) \in Int /\ Min(costs) <= t.cost /\ t.cost <= Min(costs)
    BY <1>5, <1>6, <2>1
  <2> QED BY <1>5, <2>2
<1> QED BY <1>3, <1>5, <1>6, <1>7 DEF costs, tokens

\* A path goes on with a token.
Leads(words, reading, f, end, i, q) ==
    /\ i \in 0 .. end - 1 /\ end - i <= MaxWord
    /\ \E t \in TokensBetween(words, reading, i, end) :
          q = [text |-> f[i].text \o t.text, cost |-> f[i].cost + t.cost]

LEMMA PathsAre ==
    ASSUME NEW words, NEW reading, NEW f, NEW end \in Nat \ {0}
    PROVE  /\ \A q \in PathsTo(words, reading, f, end) : \E i : Leads(words, reading, f, end, i, q)
           /\ \A i \in 0 .. end - 1 : end - i <= MaxWord =>
                 \A t \in TokensBetween(words, reading, i, end) :
                    [text |-> f[i].text \o t.text, cost |-> f[i].cost + t.cost]
                        \in PathsTo(words, reading, f, end)
<1> DEFINE from == Max({0, end - MaxWord})
           Way(i, t) == [text |-> f[i].text \o t.text, cost |-> f[i].cost + t.cost]
           Tokens(i) == TokensBetween(words, reading, i, end)
           Ways == PathsTo(words, reading, f, end)
           By(i) == {Way(i, t) : t \in Tokens(i)}
<1>1. Ways = UNION {By(i) : i \in from .. end - 1}
  BY DEF PathsTo
<1>2. \A i, q : q \in By(i) <=> \E t \in Tokens(i) : q = Way(i, t)
  OBVIOUS
<1>3. from \in Nat /\ \A i \in Int : i \in from .. end - 1 <=> i \in 0 .. end - 1 /\ end - i <= MaxWord
  BY FromIs
<1> HIDE DEF By, Ways, from, Tokens, Way
<1>4. \A i \in from .. end - 1 : i \in 0 .. end - 1 /\ end - i <= MaxWord
  BY <1>3
<1>5. \A i \in 0 .. end - 1 : end - i <= MaxWord => i \in from .. end - 1
  BY <1>3
<1>6. \A q \in Ways : \E i \in 0 .. end - 1 : \E t \in Tokens(i) : end - i <= MaxWord /\ q = Way(i, t)
  <2> SUFFICES ASSUME NEW q \in Ways
               PROVE  \E i \in 0 .. end - 1 : \E t \in Tokens(i) : end - i <= MaxWord /\ q = Way(i, t)
    OBVIOUS
  <2>1. PICK i \in from .. end - 1 : q \in By(i)
    BY <1>1
  <2> QED BY <1>2, <1>4, <2>1
<1>7. \A i \in 0 .. end - 1 : end - i <= MaxWord => \A t \in Tokens(i) : Way(i, t) \in Ways
  BY <1>1, <1>2, <1>5
<1>8. \A q \in Ways : \E i : Leads(words, reading, f, end, i, q)
  BY <1>6 DEF Leads, Way, Tokens
<1> QED BY <1>7, <1>8 DEF Ways, Way, Tokens

\* The table of the cheapest paths, under one name.
TableIs(f, words, reading) ==
    /\ f[0] = NoPath
    /\ \A end \in 0 .. Len(reading) : ReadsSoFar(f, reading, end)
    /\ \A end \in 1 .. Len(reading) : CheapestTo(f, words, reading, end)

LEMMA PathGrows ==
    ASSUME NEW words, Vocabulary(words), NEW reading \in Seq(Letters),
           NEW f, TableIs(f, words, reading),
           NEW i \in Nat, NEW end \in 1 .. Len(reading), i < end,
           CostsOfPart(words, SubSeq(reading, i + 1, end)) # {}
    PROVE  LET least == Min(CostsOfPart(words, SubSeq(reading, i + 1, end)))
           IN  least \in Int /\ f[i].cost \in Int /\ f[end].cost \in Int /\ f[end].cost <= f[i].cost + least
<1> DEFINE least == Min(CostsOfPart(words, SubSeq(reading, i + 1, end)))
<1>0. i \in 0 .. end - 1 /\ i \in 0 .. Len(reading) /\ end \in 0 .. Len(reading) /\ end \in Nat \ {0}
  OBVIOUS
<1>1. /\ least \in Int /\ end - i <= MaxWord
      /\ \E t \in TokensBetween(words, reading, i, end) : t.cost = least
  BY CheapestOfPart
<1>2. PICK t \in TokensBetween(words, reading, i, end) : t.cost = least
  BY <1>1
<1> DEFINE q == [text |-> f[i].text \o t.text, cost |-> f[i].cost + t.cost]
<1>3. q \in PathsTo(words, reading, f, end)
  BY <1>0, <1>1, PathsAre
<1>4. f[i].cost \in Int /\ f[end].cost \in Int
  BY <1>0 DEF TableIs, ReadsSoFar
<1>5. f[end].cost <= q.cost
  <2> HIDE DEF q
  <2> QED BY <1>3 DEF TableIs, CheapestTo
<1>6. q.cost = f[i].cost + least
  BY <1>2
<1> HIDE DEF q, least
<1> QED BY <1>1, <1>4, <1>5, <1>6 DEF least

\* The end of what the first parts cover.
PlaceOf(ends, k) == IF k = 0 THEN 0 ELSE ends[k]

\* The ends of the first parts of the reading, and what the best choices for
\* them cost.
Reaches(words, reading, f, end, k, ends, c) ==
    /\ k \in 0 .. end /\ ends \in [1 .. k -> 1 .. end] /\ PlaceOf(ends, k) = end
    /\ \A j \in 2 .. k : ends[j - 1] < ends[j]
    /\ c \in [0 .. k -> Int] /\ c[0] = 0 /\ c[k] = f[end].cost
    /\ \A j \in 1 .. k :
          /\ CostsOfPart(words, PartOf(reading, ends, j)) # {}
          /\ c[j] = c[j - 1] + Min(CostsOfPart(words, PartOf(reading, ends, j)))

\* A cheapest path that ends with the best choice for its last part.
EndsWell(words, reading, f, i, end) ==
    LET costs == CostsOfPart(words, SubSeq(reading, i + 1, end))
    IN  /\ costs # {} /\ Min(costs) \in Int /\ f[i].cost \in Int
        /\ f[end].cost = f[i].cost + Min(costs)

\* The last word of a cheapest path is the best choice for its part.
LEMMA LastIsBest ==
    ASSUME NEW words, Vocabulary(words), NEW reading \in Seq(Letters),
           NEW f, TableIs(f, words, reading), NEW end \in 1 .. Len(reading)
    PROVE  \E i \in 0 .. end - 1 : EndsWell(words, reading, f, i, end)
<1>0. end \in Nat \ {0} /\ end \in 0 .. Len(reading)
  OBVIOUS
<1>1. f[end] \in PathsTo(words, reading, f, end)
  BY DEF TableIs, CheapestTo
<1>2. PICK i : Leads(words, reading, f, end, i, f[end])
  BY <1>0, <1>1, PathsAre
<1>3. /\ i \in 0 .. end - 1 /\ end - i <= MaxWord
      /\ \E t \in TokensBetween(words, reading, i, end) :
            f[end] = [text |-> f[i].text \o t.text, cost |-> f[i].cost + t.cost]
  BY <1>2 DEF Leads
<1>4. PICK t \in TokensBetween(words, reading, i, end) :
         f[end] = [text |-> f[i].text \o t.text, cost |-> f[i].cost + t.cost]
  BY <1>3
<1> DEFINE costs == CostsOfPart(words, SubSeq(reading, i + 1, end))
<1>5. i \in Nat /\ i < end /\ i \in 0 .. Len(reading)
  BY <1>3
<1>6. t.cost \in costs /\ t.cost \in Int
  <2>1. end - i <= MaxWord
    BY <1>3
  <2>2. \A u \in TokensBetween(words, reading, i, end) :
           u.cost \in Int /\ (end - i <= MaxWord => u.cost \in costs)
    BY <1>5, TokensAre
  <2> HIDE DEF costs
  <2> QED BY <2>1, <2>2
<1>7. /\ Min(costs) \in Int /\ Min(costs) \in costs
      /\ \A x \in costs : x \in Int /\ Min(costs) <= x
  BY <1>5, <1>6, CheapestOfPart
<1>8. f[end].cost <= f[i].cost + Min(costs) /\ f[i].cost \in Int /\ f[end].cost \in Int
  BY <1>5, <1>6, PathGrows
<1>9. f[end].cost = f[i].cost + t.cost
  BY <1>4
<1>10. f[end].cost = f[i].cost + Min(costs)
  <2>1. Min(costs) <= t.cost
    BY <1>6, <1>7
  <2> HIDE DEF costs
  <2> QED BY <1>6, <1>7, <1>8, <1>9, <2>1
<1>11. costs # {} /\ i \in 0 .. end - 1
  BY <1>3, <1>6
<1> QED BY <1>7, <1>8, <1>10, <1>11 DEF EndsWell

\* One more part.
LEMMA OnePartMore ==
    ASSUME NEW words, NEW reading, NEW f, NEW i \in Nat, NEW end \in Nat, i < end,
           NEW k, NEW ends, NEW c, Reaches(words, reading, f, i, k, ends, c),
           EndsWell(words, reading, f, i, end)
    PROVE  \E l, e, d : Reaches(words, reading, f, end, l, e, d)
<1> DEFINE least == Min(CostsOfPart(words, SubSeq(reading, i + 1, end)))
           e == [j \in 1 .. k + 1 |-> IF j = k + 1 THEN end ELSE ends[j]]
           d == [j \in 0 .. k + 1 |-> IF j = k + 1 THEN f[end].cost ELSE c[j]]
           Part(p, j) == PartOf(reading, p, j)
<1>1. /\ k \in 0 .. i /\ ends \in [1 .. k -> 1 .. i] /\ PlaceOf(ends, k) = i
      /\ \A j \in 2 .. k : ends[j - 1] < ends[j]
      /\ c \in [0 .. k -> Int] /\ c[0] = 0 /\ c[k] = f[i].cost
      /\ \A j \in 1 .. k : /\ CostsOfPart(words, Part(ends, j)) # {}
                           /\ c[j] = c[j - 1] + Min(CostsOfPart(words, Part(ends, j)))
  BY DEF Reaches
<1>0. /\ CostsOfPart(words, SubSeq(reading, i + 1, end)) # {} /\ least \in Int /\ f[i].cost \in Int
      /\ f[end].cost = f[i].cost + least
  BY DEF EndsWell
<1>2. k \in Nat /\ k + 1 \in 0 .. end /\ \A j \in 1 .. k : j \in 1 .. k + 1 /\ j # k + 1 /\ j - 1 # k + 1
  BY <1>1
<1>3. e \in [1 .. k + 1 -> 1 .. end] /\ e[k + 1] = end /\ PlaceOf(e, k + 1) = end
  <2>1. ASSUME NEW j \in 1 .. k + 1 PROVE e[j] \in 1 .. end
    <3>1. CASE j = k + 1
      BY <1>2, <3>1
    <3>2. CASE j # k + 1
      <4>1. j \in 1 .. k
        BY <1>2, <3>2
      <4>2. ends[j] \in 1 .. i
        BY <1>1, <4>1
      <4> QED BY <3>2, <4>2
    <3> QED BY <3>1, <3>2
  <2>2. k + 1 \in 1 .. k + 1 /\ k + 1 # 0
    BY <1>2
  <2> QED BY <2>1, <2>2 DEF PlaceOf
<1>4. \A j \in 1 .. k : e[j] = ends[j] /\ ends[j] \in 1 .. i
  BY <1>1, <1>2
<1>5. \A j \in 0 .. k : d[j] = c[j] /\ c[j] \in Int
  BY <1>1, <1>2
<1>6. d \in [0 .. k + 1 -> Int] /\ d[0] = 0 /\ d[k + 1] = f[end].cost /\ f[end].cost = c[k] + least
  <2>1. f[end].cost \in Int /\ f[end].cost = c[k] + least
    BY <1>0, <1>1
  <2>2. ASSUME NEW j \in 0 .. k + 1 PROVE d[j] \in Int
    <3>1. j = k + 1 \/ j \in 0 .. k
      BY <1>2
    <3> QED BY <1>5, <2>1, <3>1
  <2>3. 0 \in 0 .. k
    BY <1>2
  <2> QED BY <1>1, <1>2, <1>5, <2>1, <2>2, <2>3
<1>7. ends[k] = i \/ (k = 0 /\ i = 0)
  BY <1>1 DEF PlaceOf
<1> HIDE DEF e, d
<1>8. ASSUME NEW j \in 2 .. k + 1 PROVE e[j - 1] < e[j]
  <2>1. CASE j = k + 1
    <3>1. k \in 1 .. k /\ k # 0 /\ j - 1 = k
      BY <1>2, <2>1
    <3>2. e[j - 1] = i /\ e[j] = end
      BY <1>3, <1>4, <1>7, <2>1, <3>1
    <3> QED BY <3>2
  <2>2. CASE j # k + 1
    <3>1. j \in 2 .. k /\ j \in 1 .. k /\ j - 1 \in 1 .. k
      BY <1>2, <2>2
    <3>2. e[j] = ends[j] /\ e[j - 1] = ends[j - 1] /\ ends[j - 1] < ends[j]
      BY <1>1, <1>4, <3>1
    <3> QED BY <3>2
  <2> QED BY <2>1, <2>2
<1>9. ASSUME NEW j \in 1 .. k + 1
      PROVE  CostsOfPart(words, Part(e, j)) # {} /\ d[j] = d[j - 1] + Min(CostsOfPart(words, Part(e, j)))
  <2>1. CASE j = k + 1
    <3>1. Part(e, j) = SubSeq(reading, i + 1, end)
      <4>1. CASE k = 0
        <5>1. j = 1 /\ i = 0
          BY <1>1, <2>1, <4>1 DEF PlaceOf
        <5> QED BY <1>3, <2>1, <4>1, <5>1 DEF PartOf
      <4>2. CASE k # 0
        <5>1. j # 1 /\ j - 1 = k /\ k \in 1 .. k
          BY <1>2, <2>1, <4>2
        <5>2. e[j - 1] = i
          BY <1>4, <1>7, <4>2, <5>1
        <5> QED BY <1>3, <2>1, <5>1, <5>2 DEF PartOf
      <4> QED BY <4>1, <4>2
    <3>2. d[j - 1] = c[k] /\ d[j] = c[k] + least
      <4>1. j - 1 = k /\ k \in 0 .. k
        BY <1>2, <2>1
      <4> QED BY <1>5, <1>6, <2>1, <4>1
    <3> QED BY <1>0, <3>1, <3>2
  <2>2. CASE j # k + 1
    <3>1. j \in 1 .. k /\ j \in 0 .. k /\ j - 1 \in 0 .. k /\ (j # 1 => j - 1 \in 1 .. k)
      BY <1>2, <2>2
    <3>2. Part(e, j) = Part(ends, j)
      BY <1>4, <3>1 DEF PartOf
    <3> QED BY <1>1, <1>5, <3>1, <3>2
  <2> QED BY <2>1, <2>2
<1>10. Reaches(words, reading, f, end, k + 1, e, d)
  BY <1>2, <1>3, <1>6, <1>8, <1>9 DEF Reaches
<1> QED BY <1>10

\* Every place is reached by a division that costs what its path costs.
LEMMA DivisionExists ==
    ASSUME NEW words, Vocabulary(words), NEW reading \in Seq(Letters),
           NEW f, TableIs(f, words, reading)
    PROVE  \A end \in 0 .. Len(reading) : \E k, ends, c : Reaches(words, reading, f, end, k, ends, c)
<1> DEFINE n == Len(reading)
           Found(end) == \E k, ends, c : Reaches(words, reading, f, end, k, ends, c)
           T == {m \in Nat : \A end \in 0 .. m : end <= n => Found(end)}
<1>0. n \in Nat
  OBVIOUS
<1>1. Found(0)
  <2> DEFINE ends == [j \in 1 .. 0 |-> 0]
             c == [j \in 0 .. 0 |-> 0]
  <2>1. f[0].cost = 0
    BY DEF TableIs, NoPath
  <2>2. ends \in [1 .. 0 -> 1 .. 0] /\ PlaceOf(ends, 0) = 0 /\ 0 \in 0 .. 0
    BY DEF PlaceOf
  <2>3. c \in [0 .. 0 -> Int] /\ c[0] = 0
    OBVIOUS
  <2>4. (\A j \in 1 .. 0 : FALSE) /\ (\A j \in 2 .. 0 : FALSE)
    OBVIOUS
  <2> HIDE DEF ends, c
  <2>5. Reaches(words, reading, f, 0, 0, ends, c)
    BY <2>1, <2>2, <2>3, <2>4 DEF Reaches
  <2> QED BY <2>5
<1> HIDE DEF Found
<1>2. 0 \in T
  BY <1>1
<1>3. ASSUME NEW m \in Nat, m \in T PROVE m + 1 \in T
  <2> SUFFICES ASSUME m + 1 <= n PROVE Found(m + 1)
    BY <1>3
  <2>1. m + 1 \in 1 .. n /\ (m + 1) - 1 = m /\ m + 1 \in Nat
    BY <1>0
  <2>2. PICK i \in 0 .. m : EndsWell(words, reading, f, i, m + 1)
    BY <2>1, LastIsBest
  <2>3. Found(i) /\ i \in Nat /\ i < m + 1
    BY <1>0, <1>3
  <2>4. PICK k, ends, c : Reaches(words, reading, f, i, k, ends, c)
    BY <2>3 DEF Found
  <2> QED BY <2>1, <2>2, <2>3, <2>4, OnePartMore DEF Found
<1> HIDE DEF T
<1>4. n \in T
  BY <1>0, <1>2, <1>3, SetInduction
<1> QED BY <1>0, <1>4 DEF T, Found

\* A division whose parts can all be read, and what it costs.
Possible(words, reading, ends) ==
    /\ ends \in Divisions(reading)
    /\ \A k \in DOMAIN ends : CostsOfPart(words, PartOf(reading, ends, k)) # {}
LeastOf(words, reading, ends) == [k \in DOMAIN ends |-> Min(CostsOfPart(words, PartOf(reading, ends, k)))]

LEMMA PossibleIs ==
    ASSUME NEW words, Vocabulary(words), NEW reading \in Seq(Letters), NEW ends,
           Possible(words, reading, ends)
    PROVE  LET m == Len(ends)
           IN  /\ m \in Nat \ {0} /\ DOMAIN ends = 1 .. m /\ ends[m] = Len(reading)
               /\ LeastOf(words, reading, ends) \in Seq(Int) /\ Len(LeastOf(words, reading, ends)) = m
               /\ \A k \in 1 .. m :
                     LET i == PlaceOf(ends, k - 1)
                         costs == CostsOfPart(words, SubSeq(reading, i + 1, ends[k]))
                     IN  /\ i \in Nat /\ i < ends[k] /\ ends[k] \in 1 .. Len(reading)
                         /\ costs # {} /\ LeastOf(words, reading, ends)[k] = Min(costs)
<1> DEFINE n == Len(reading)
           m == Len(ends)
           least == LeastOf(words, reading, ends)
           i(k) == PlaceOf(ends, k - 1)
           costs(k) == CostsOfPart(words, SubSeq(reading, i(k) + 1, ends[k]))
<1>1. PICK l \in 1 .. n : ends \in [1 .. l -> 1 .. n]
  BY DEF Possible, Divisions
<1>2. ends[m] = n /\ \A k \in 2 .. m : ends[k - 1] < ends[k]
  BY DEF Possible, Divisions
<1>3. m = l /\ m \in Nat \ {0} /\ DOMAIN ends = 1 .. m /\ \A k \in 1 .. m : ends[k] \in 1 .. n
  BY <1>1
<1>4. ASSUME NEW k \in 1 .. m
      PROVE  /\ i(k) \in Nat /\ i(k) < ends[k] /\ ends[k] \in 1 .. n
             /\ costs(k) # {} /\ least[k] = Min(costs(k)) /\ Min(costs(k)) \in Int
  <2>1. CostsOfPart(words, PartOf(reading, ends, k)) # {} /\ k \in DOMAIN ends
    BY <1>3 DEF Possible
  <2>2. i(k) = IF k = 1 THEN 0 ELSE ends[k - 1]
    BY DEF PlaceOf
  <2>3. PartOf(reading, ends, k) = SubSeq(reading, i(k) + 1, ends[k])
    BY <2>2 DEF PartOf
  <2>4. i(k) \in Nat /\ i(k) < ends[k] /\ ends[k] \in 1 .. n
    <3>1. CASE k = 1
      BY <1>3, <2>2, <3>1
    <3>2. CASE k # 1
      <4>1. k \in 2 .. m /\ k - 1 \in 1 .. m
        BY <1>3, <3>2
      <4>2. i(k) = ends[k - 1]
        BY <2>2, <3>2
      <4>3. ends[k - 1] \in 1 .. n /\ ends[k] \in 1 .. n /\ ends[k - 1] < ends[k]
        BY <1>2, <1>3, <4>1
      <4> HIDE DEF i
      <4> QED BY <4>2, <4>3
    <3> QED BY <3>1, <3>2
  <2>5. costs(k) # {} /\ least[k] = Min(costs(k))
    BY <2>1, <2>3 DEF LeastOf
  <2>6. Min(costs(k)) \in Int
    BY <2>4, <2>5, CheapestOfPart
  <2> QED BY <2>4, <2>5, <2>6
<1>5. least \in Seq(Int) /\ Len(least) = m
  <2>1. DOMAIN least = 1 .. m /\ \A k \in 1 .. m : least[k] \in Int
    BY <1>3, <1>4 DEF LeastOf
  <2>2. least = [k \in 1 .. m |-> least[k]]
    BY <1>3 DEF LeastOf
  <2> HIDE DEF least
  <2> QED BY <1>3, <2>1, <2>2
<1> HIDE DEF least, i, costs
<1>6. \A k \in 1 .. m : /\ i(k) \in Nat /\ i(k) < ends[k] /\ ends[k] \in 1 .. n
                        /\ costs(k) # {} /\ least[k] = Min(costs(k))
  BY <1>4
<1> QED BY <1>2, <1>3, <1>5, <1>6 DEF least, i, costs

LEMMA NoDivisionIsCheaper ==
    ASSUME NEW words, Vocabulary(words), NEW reading \in Seq(Letters),
           NEW f, TableIs(f, words, reading), NEW ends, Possible(words, reading, ends)
    PROVE  /\ Total(LeastOf(words, reading, ends)) \in Int
           /\ f[Len(reading)].cost \in Int
           /\ f[Len(reading)].cost <= Total(LeastOf(words, reading, ends))
<1> DEFINE n == Len(reading)
           m == Len(ends)
           least == LeastOf(words, reading, ends)
           i(k) == PlaceOf(ends, k - 1)
           costs(k) == CostsOfPart(words, SubSeq(reading, i(k) + 1, ends[k]))
<1>1. /\ m \in Nat \ {0} /\ ends[m] = n /\ least \in Seq(Int) /\ Len(least) = m
      /\ \A k \in 1 .. m : /\ i(k) \in Nat /\ i(k) < ends[k] /\ ends[k] \in 1 .. n
                           /\ costs(k) # {} /\ least[k] = Min(costs(k))
  BY PossibleIs
<1>2. ASSUME NEW k \in 1 .. m
      PROVE  /\ least[k] \in Int /\ f[i(k)].cost \in Int /\ f[ends[k]].cost \in Int
             /\ f[ends[k]].cost <= f[i(k)].cost + least[k]
  <2>1. /\ i(k) \in Nat /\ i(k) < ends[k] /\ ends[k] \in 1 .. n
        /\ costs(k) # {} /\ least[k] = Min(costs(k))
    BY <1>1
  <2>2. /\ Min(costs(k)) \in Int /\ f[i(k)].cost \in Int /\ f[ends[k]].cost \in Int
        /\ f[ends[k]].cost <= f[i(k)].cost + Min(costs(k))
    BY <2>1, PathGrows
  <2> HIDE DEF least, i, costs
  <2> QED BY <2>1, <2>2
<1> HIDE DEF least, costs
<1>3. PICK c \in [0 .. m -> Int] : /\ c[0] = 0 /\ Total(least) = c[m]
                                   /\ \A k \in 1 .. m : c[k] = c[k - 1] + least[k]
  BY ZenonT(60), <1>1, TotalChain
<1> DEFINE T == {k \in Nat : k <= m => f[PlaceOf(ends, k)].cost <= c[k]}
<1>4. 0 \in T
  <2>1. f[0].cost = 0
    BY DEF TableIs, NoPath
  <2>2. PlaceOf(ends, 0) = 0
    BY DEF PlaceOf
  <2> QED BY <1>3, <2>1, <2>2
<1>5. ASSUME NEW k \in Nat, k \in T PROVE k + 1 \in T
  <2> SUFFICES ASSUME k + 1 <= m PROVE f[PlaceOf(ends, k + 1)].cost <= c[k + 1]
    OBVIOUS
  <2>1. k + 1 \in 1 .. m /\ (k + 1) - 1 = k /\ k \in 0 .. m /\ k + 1 # 0
    BY <1>1
  <2>2. f[PlaceOf(ends, k)].cost <= c[k]
    BY <1>5, <2>1
  <2>3. i(k + 1) = PlaceOf(ends, k) /\ PlaceOf(ends, k + 1) = ends[k + 1]
    BY <2>1 DEF PlaceOf
  <2>4. /\ least[k + 1] \in Int /\ f[PlaceOf(ends, k)].cost \in Int /\ f[ends[k + 1]].cost \in Int
        /\ f[ends[k + 1]].cost <= f[PlaceOf(ends, k)].cost + least[k + 1]
    <3> HIDE DEF i
    <3> QED BY <1>2, <2>1, <2>3
  <2>5. c[k + 1] = c[k] + least[k + 1] /\ c[k] \in Int
    BY <1>3, <2>1
  <2> HIDE DEF i
  <2> QED BY <2>2, <2>3, <2>4, <2>5
<1> HIDE DEF T
<1>6. m \in T
  BY <1>1, <1>4, <1>5, SetInduction
<1>7. f[n].cost <= c[m]
  <2>1. PlaceOf(ends, m) = n
    BY <1>1 DEF PlaceOf
  <2> QED BY <1>1, <1>6, <2>1 DEF T
<1>8. f[n].cost \in Int
  <2>1. n \in 0 .. Len(reading)
    OBVIOUS
  <2> QED BY <2>1 DEF TableIs, ReadsSoFar
<1>9. c[m] \in Int
  BY <1>1, <1>3
<1> QED BY <1>3, <1>7, <1>8, <1>9 DEF least

LEMMA SomeDivisionCostsThat ==
    ASSUME NEW words, Vocabulary(words), NEW reading \in Seq(Letters), reading # <<>>,
           NEW f, TableIs(f, words, reading)
    PROVE  \E ends : Possible(words, reading, ends) /\ f[Len(reading)].cost = Total(LeastOf(words, reading, ends))
<1> DEFINE n == Len(reading)
<1>0. n \in Nat \ {0} /\ n \in 0 .. n
  OBVIOUS
<1>1. PICK k, ends, c : Reaches(words, reading, f, n, k, ends, c)
  BY <1>0, DivisionExists
<1>2. /\ k \in 0 .. n /\ ends \in [1 .. k -> 1 .. n] /\ PlaceOf(ends, k) = n
      /\ \A j \in 2 .. k : ends[j - 1] < ends[j]
      /\ c \in [0 .. k -> Int] /\ c[0] = 0 /\ c[k] = f[n].cost
      /\ \A j \in 1 .. k :
            /\ CostsOfPart(words, PartOf(reading, ends, j)) # {}
            /\ c[j] = c[j - 1] + Min(CostsOfPart(words, PartOf(reading, ends, j)))
  BY <1>1 DEF Reaches
<1>3. k # 0 /\ k \in 1 .. n /\ ends[k] = n
  BY <1>0, <1>2 DEF PlaceOf
<1>4. Len(ends) = k /\ DOMAIN ends = 1 .. k
  BY <1>2, <1>3
<1>5. Possible(words, reading, ends)
  <2>1. ends \in UNION {[1 .. l -> 1 .. n] : l \in 1 .. n}
    BY <1>2, <1>3
  <2>2. ends \in Divisions(reading)
    BY <1>2, <1>3, <1>4, <2>1 DEF Divisions
  <2> QED BY <1>2, <1>4, <2>2 DEF Possible
<1> DEFINE least == LeastOf(words, reading, ends)
<1>6. least \in Seq(Int) /\ Len(least) = k
  BY <1>4, <1>5, PossibleIs
<1>7. \A j \in 1 .. k : c[j] = c[j - 1] + least[j]
  BY <1>2, <1>4 DEF LeastOf
<1> HIDE DEF least
<1>8. Total(least) = c[k]
  BY <1>2, <1>6, <1>7, TotalIs
<1> QED BY <1>2, <1>5, <1>8 DEF least

\* The algorithm finds the cheapest division, and its text reads the reading.
LEMMA SegmentReadingIsCheapest ==
    ASSUME NEW words, Vocabulary(words), NEW reading \in Seq(Letters), reading # <<>>
    PROVE  IsCheapest(SegmentReading(words, reading), words, reading)
<1> DEFINE n == Len(reading)
           path == SegmentReading(words, reading)
           all == CostsOfReading(words, reading)
<1>1. PICK f : path = f[n] /\ TableIs(f, words, reading)
  BY PathsAreCheapest DEF TableIs
<1>2. \A x : x \in all <=> \E ends : Possible(words, reading, ends) /\ x = Total(LeastOf(words, reading, ends))
  BY DEF CostsOfReading, Possible, LeastOf
<1> HIDE DEF path, all
<1>3. ASSUME NEW x \in all PROVE x \in Int /\ path.cost \in Int /\ path.cost <= x
  <2>1. PICK ends : Possible(words, reading, ends) /\ x = Total(LeastOf(words, reading, ends))
    BY <1>2
  <2> QED BY <1>1, <2>1, NoDivisionIsCheaper
<1>4. path.cost \in all
  BY <1>1, <1>2, SomeDivisionCostsThat
<1>5. path.cost = Min(all)
  <2>1. Min(all) \in all /\ \A x \in all : Min(all) <= x
    BY <1>3, <1>4 DEF Min
  <2> QED BY <1>3, <1>4, <2>1
<1>6. ReadingOf(path.text) = reading
  <2>1. n \in 0 .. Len(reading) /\ SubSeq(reading, 1, n) = reading
    OBVIOUS
  <2>2. ReadsSoFar(f, reading, n)
    BY <1>1, <2>1 DEF TableIs
  <2> QED BY <1>1, <2>1, <2>2 DEF ReadsSoFar
<1> QED BY <1>5, <1>6 DEF IsCheapest, path, all

-----------------------------------------------------------------------------
\* What the stack of providers keeps.

LEMMA SetToSeqIs ==
    ASSUME NEW S, IsFiniteSet(S)
    PROVE  SetToSeq(S) \in Seq(S)
<1>1. Cardinality(S) \in Nat /\ ExistsBijection(1 .. Cardinality(S), S)
  BY FS_CardinalityType
<1>2. PICK f \in [1 .. Cardinality(S) -> S] : IsInjective(f)
  BY <1>1 DEF ExistsBijection, Bijection, Injection
<1>3. SetToSeq(S) \in [1 .. Cardinality(S) -> S]
  BY <1>2 DEF SetToSeq
<1> QED BY <1>1, <1>3

\* The words for a stretch are finite in number.
LEMMA MatchesFinite ==
    ASSUME NEW words \in Dictionaries, NEW key
    PROVE  IsFiniteSet(Matches(words, key)) /\ IsFiniteSet({w.surface : w \in Matches(words, key)})
<1> DEFINE M == Matches(words, key)
           S == {w.surface : w \in M}
           f == [w \in M |-> w.surface]
<1>1. IsFiniteSet(words) /\ M \subseteq words
  BY DictionariesAssumption DEF Matches
<1>2. IsFiniteSet(M)
  BY <1>1, FS_Subset
<1> HIDE DEF M
<1>3. f \in Surjection(M, S)
  BY DEF Surjection
<1>4. IsFiniteSet(S)
  BY <1>2, <1>3, FS_Surjection
<1> QED BY <1>2, <1>4 DEF M

LEMMA EntriesAreThere ==
    ASSUME NEW words \in Dictionaries, NEW reading
    PROVE  DictionaryEntries(words, reading) # <<>>
<1> DEFINE a == InKana(reading)
           b == SegmentReading(words, reading).text
           S == {w.surface : w \in Matches(words, reading)} \ {a, b}
           whole == SetToSeq(S)
           some == SubSeq(whole, 1, Min({6, Len(whole)}))
<1>1. IsFiniteSet(S)
  BY MatchesFinite, FS_Subset
<1> HIDE DEF S
<1>2. whole \in Seq(S)
  BY <1>1, SetToSeqIs
<1> HIDE DEF whole
<1>3. Min({6, Len(whole)}) \in Int /\ Min({6, Len(whole)}) <= Len(whole)
  <2>1. Len(whole) \in Int /\ 6 \in Int
    BY <1>2
  <2> QED BY <2>1, MinOfTwo
<1>4. some \in Seq(S)
  <2> DEFINE m == Min({6, Len(whole)})
  <2>1. m \in Int /\ m <= Len(whole) /\ Len(whole) \in Nat
    BY <1>2, <1>3
  <2> HIDE DEF m
  <2>2. \A i \in 1 .. m : whole[i] \in S
    BY <1>2, <2>1
  <2>3. SubSeq(whole, 1, m) \in Seq(S)
    BY <2>1, <2>2, SubSeqProperties
  <2> QED BY <2>3 DEF m
<1> HIDE DEF some
<1>5. DictionaryEntries(words, reading) = <<a, b>> \o some
  BY DEF DictionaryEntries, some, whole, S
<1> HIDE DEF a, b
<1>6. <<a, b>> \in Seq({a, b} \cup S) /\ some \in Seq({a, b} \cup S)
  BY <1>4
<1>7. Len(<<a, b>> \o some) = 2 + Len(some) /\ Len(some) \in Nat
  BY <1>6
<1> QED BY <1>5, <1>7

LEMMA DictionaryFetchKeeps == ASSUME StackInv, DictionaryFetchLayer1 PROVE StackInv'
<1>1. PICK reading \in ReadingsAsked, words \in Dictionaries :
        stack' = [Answer(reading, Entries(DictionaryEntries(words, reading)))
                     EXCEPT !.words = words, !.path = SegmentReading(words, reading)]
  BY DEF DictionaryFetchLayer1
<1> DEFINE list == Entries(DictionaryEntries(words, reading))
           path == SegmentReading(words, reading)
<1>2. list.candidates # <<>> /\ list.by = "none"
  BY EntriesAreThere DEF Entries, EmptyList
<1>3. /\ stack.provider.kind = "dictionary" /\ stack.at = "ready"
      /\ bridge' = bridge /\ native' = native
  BY DEF DictionaryFetchLayer1
<1>4. stack.provider.transport = "none"
  BY <1>3 DEF StackInv, StackFits, ProviderFits
<1>5. stack' = [Answer(reading, list) EXCEPT !.words = words, !.path = path]
  BY <1>1
<1>6. path = SegmentReading(words, reading)
  OBVIOUS
<1> HIDE DEF list, path
<1>7. LET s == Answer(reading, list)
      IN  /\ s.at = "answered" /\ s.reading = reading /\ s.list = list /\ s.provider = stack.provider
          /\ s = [at |-> s.at, config |-> s.config, error |-> s.error, provider |-> s.provider,
                  reading |-> s.reading, words |-> s.words, path |-> s.path, list |-> s.list]
  BY AnswerIs DEF StackInv, StackFits
<1>8. /\ stack'.at = "answered" /\ stack'.reading = reading /\ stack'.list = list
      /\ stack'.provider = stack.provider /\ stack'.words = words /\ stack'.path = path
      /\ StackRecord'
  <2> DEFINE s == Answer(reading, list)
  <2>1. /\ s.at = "answered" /\ s.reading = reading /\ s.list = list /\ s.provider = stack.provider
        /\ s = [at |-> s.at, config |-> s.config, error |-> s.error, provider |-> s.provider,
                reading |-> s.reading, words |-> s.words, path |-> s.path, list |-> s.list]
    BY <1>7
  <2>2. stack' = [s EXCEPT !.words = words, !.path = path]
    BY <1>5
  <2> HIDE DEF s
  <2> QED BY <2>1, <2>2 DEF StackRecord
<1>9. CallsFit' /\ BridgeInv' /\ NativeInv'
  BY <1>3, <1>8, BridgeStays, NativeStays DEF StackInv, CallsFit
<1>10. ProviderFits' /\ ListFits' /\ NativeFailsClosed' /\ FallbackIsReported'
  BY <1>3, <1>4, <1>8 DEF ProviderFits, ListFits, NativeFailsClosed, FallbackIsReported
<1>11. WordsFit' /\ EmptyAnswersAreExplained'
  BY <1>2, <1>6, <1>8 DEF WordsFit, EmptyAnswersAreExplained
<1> QED BY <1>8, <1>9, <1>10, <1>11 DEF StackInv, StackFits

\* The inductive invariant: whatever was asked of the provider and however far
\* the bridge and the native wrapper have come, their records are typed, what
\* they hold is what their place in the call holds, what is decoded so far tiles
\* and reads the reading, and the service's list is the one they answered with
\* (the providers' FetchLayer1 and FetchTranslation, QueryCandidatesInProcess,
\* MozcNativeServerClientTransport::FetchCandidates).
THEOREM StackSafety == StackSpec => []StackInv
<1>1. StackInit => StackInv
  BY BeginsFit DEF StackInit, BridgeInit, NativeInit
<1>2. StackInv /\ [StackNext]_stackVars => StackInv'
  <2> SUFFICES ASSUME StackInv, [StackNext]_stackVars PROVE StackInv'
    OBVIOUS
  <2>1. CASE Load
    BY <2>1, LoadKeeps
  <2>2. CASE SetResultCallback
    BY <2>2, SetResultCallbackKeeps
  <2>3. CASE Drop
    BY <2>3, DropKeeps
  <2>4. CASE Fetch
    BY <2>4, DictionaryFetchKeeps, PlainFetchKeeps, AskKeeps, FetchTranslationKeeps DEF Fetch
  <2>5. CASE ThreadStep
    BY <2>5, BridgeWorksKeeps, NativeWorksKeeps, AnswersKeep DEF ThreadStep
  <2>6. CASE NativeFails \/ WrapperWorks
    BY <2>6, NativeWorksKeeps
  <2>7. CASE UNCHANGED stackVars
    <3>1. stack' = stack /\ bridge' = bridge /\ native' = native
      BY <2>7 DEF stackVars
    <3>2. BridgeInv' /\ NativeInv'
      BY <3>1, BridgeStays, NativeStays DEF StackInv
    <3>3. CallsFit' /\ StackFits'
      BY <3>1 DEF StackInv, CallsFit, StackFits, StackRecord, ProviderFits, ListFits, WordsFit,
                 EmptyAnswersAreExplained, NativeFailsClosed, FallbackIsReported, At
    <3> QED BY <3>2, <3>3 DEF StackInv
  <2> QED BY <2>1, <2>2, <2>3, <2>4, <2>5, <2>6, <2>7 DEF StackNext
<1> QED BY <1>1, <1>2, PTL DEF StackSpec

\* Settings that ask for the native converter, or for a transport that is not
\* supported, and could be read as far as the section "mozc", are never answered
\* with IMM32 or another converter: the provider is the native one, or an
\* unavailable one and the user is told (LoadProviderSettings,
\* CreateConversionProvider).
THEOREM NativeIsNeverReplaced == StackSpec => []NativeFailsClosed
<1>1. StackInv => NativeFailsClosed
  BY DEF StackInv, StackFits
<1> QED BY <1>1, StackSafety, PTL

\* A service that converts with another provider than the settings name, or will
\* not translate with the dictionary as they ask, has an error to show
\* (CreateConversionProvider).
THEOREM NoFallbackInSilence == StackSpec => []FallbackIsReported
<1>1. StackInv => FallbackIsReported
  BY DEF StackInv, StackFits
<1> QED BY <1>1, StackSafety, PTL

\* No answer without a candidate is silent: it has an error, or a later answer
\* is announced, or the provider is the one based on IMM32 (FetchCandidates).
THEOREM NoEmptyAnswerInSilence == StackSpec => []EmptyAnswersAreExplained
<1>1. StackInv => EmptyAnswersAreExplained
  BY DEF StackInv, StackFits
<1> QED BY <1>1, StackSafety, PTL

\* However a conversion ends, by an answer, an error or a converter that does
\* not start, no pipe, session, keyboard layout, file or process of the call is
\* left (QueryCandidatesWithHkl, MozcNativeServerClientTransport::FetchCandidates).
THEOREM CallsLeaveNothing == StackSpec => []NothingLeftBehind
<1>1. StackInv => NothingLeftBehind
  BY DEF StackInv, BridgeInv, BridgeAnswerInv, NativeInv, NothingLeftBehind, NothingHeld, At
<1> QED BY <1>1, StackSafety, PTL

\* An answer of the native converter without an error is the whole answer of a
\* wrapper that ended well; a wrapper that did, in time, and had a candidate is
\* not answered with an error; an answer without a candidate has one
\* (MozcNativeServerClientTransport::FetchCandidates).
THEOREM AnswersAreTheWrappers == StackSpec => []AnswerIsTheWrappers
<1>1. StackInv => AnswerIsTheWrappers
  BY DEF StackInv, NativeInv
<1> QED BY <1>1, StackSafety, PTL

\* The segments that the bridge answers with lie one behind the other and cover
\* the reading, whatever the converter divided it into (BuildSegmentsFromCandidateList,
\* BuildSegmentsFromPreedit).
THEOREM SegmentsCoverTheReading == StackSpec => []SegmentsTile
<1>1. StackInv => SegmentsTile
  BY DEF StackInv, BridgeInv, BridgeAnswerInv, SegmentsTile, At
<1> QED BY <1>1, StackSafety, PTL

\* Every candidate of an answer that came with all of its clauses, and with the
\* key of the first one, reads as the reading, although those of the first clause
\* are completed with the text of the later ones, texts of several sources are
\* merged and repetitions removed; with the segments of an earlier converter left
\* behind it begins with the reading.  Only the last characters tell which
\* candidates have to be completed, so those of an answer with several clauses
\* have to (QueryCandidates of the bridge).
THEOREM CandidatesReadTheReading == StackSpec => []SentencesReadTheReading
<1>1. StackInv => SentencesReadTheReading
  BY DEF StackInv, BridgeInv, BridgeAnswerInv, SentencesReadTheReading, At
<1> QED BY <1>1, StackSafety, PTL

\* When the candidate window opens over an answer of the bridge, what it shows, the
\* clauses put together or the first candidate, reads as the reading, also when the
\* candidates came from another converter than the clauses; the clauses have to be
\* of an answer that came with all of them, and with the key of the first one
\* (InitializeSegmentMode, GetSegmentPreviewText).
THEOREM OpeningShowsTheReading == StackSpec => []OpeningReadsTheReading
<1>1. StackInv => OpeningReadsTheReading
  <2> SUFFICES ASSUME StackInv, stack.at = "answered", stack.provider.transport = "bridge",
                      stack.list.by = "none", stack.list.candidates # <<>>,
                      bridge.intact
               PROVE  ReadingOf(OpeningPreview(stack.list.candidates, stack.list.segments, stack.reading)) =
                          stack.reading
    BY DEF OpeningReadsTheReading
  <2>1. /\ At("answered") /\ bridge.reading = stack.reading
        /\ stack.list.candidates = bridge.candidates /\ stack.list.segments = bridge.segments
    BY DEF StackInv, StackFits, ListFits
  <2>2. BridgeAnswerInv /\ bridge.reading \in Seq(Letters)
    BY <2>1 DEF StackInv, BridgeInv, BridgeAnswerInv, BridgeRecords
  <2> QED BY <2>1, <2>2, OpeningReads
<1> QED BY <1>1, StackSafety, PTL

\* The division that the dictionary answers with reads the reading, and no other
\* division and no other choice of words is cheaper, for readings of any length
\* and any dictionary of finitely many words (SegmentReading).
THEOREM CheapestIsOffered == StackSpec => []DictionaryAnswersCheapest
<1>1. StackInv => DictionaryAnswersCheapest
  <2> SUFFICES ASSUME StackInv, stack.at = "answered", stack.provider.kind = "dictionary",
                      stack.list.by = "none"
               PROVE  IsCheapest(stack.path, stack.words, stack.reading)
    BY DEF DictionaryAnswersCheapest
  <2>1. /\ stack.words \in Dictionaries /\ stack.reading \in ReadingsAsked
        /\ stack.path = SegmentReading(stack.words, stack.reading)
    BY DEF StackInv, StackFits, WordsFit
  <2>2. Vocabulary(stack.words)
    BY <2>1, DictionariesAssumption DEF Vocabulary
  <2>3. stack.reading \in Seq(Letters) /\ stack.reading # <<>>
    BY <2>1, ReadingsAssumption
  <2> QED BY <2>1, <2>2, <2>3, SegmentReadingIsCheapest
<1> QED BY <1>1, StackSafety, PTL

-----------------------------------------------------------------------------
\* The table of the choices.

\* One table claims no more than another.
Below(rows, most) == \A c \in Candidates : rows[c] <= most[c]

Chosen(rows, c) == [rows EXCEPT ![c] = IF @ < MaxCount THEN @ + 1 ELSE @]

LEMMA TablesHave ==
    /\ NoRows \in Tables /\ Absent \notin Tables
    /\ \A rows \in Tables : Below(NoRows, rows) /\ Below(rows, rows)
    /\ [NoRows EXCEPT ![Listed[1]] = 1] \in Tables
<1>1. Listed[1] \in Candidates
  BY CandidatesAssumption DEF Candidates, ToSet
<1>2. Absent \notin Tables
  <2> SUFFICES ASSUME Absent \in Tables PROVE FALSE
    OBVIOUS
  <2>1. DOMAIN Absent = Candidates
    BY DEF Tables
  <2>2. DOMAIN Absent = {}
    BY DEF Absent
  <2> QED BY <1>1, <2>1, <2>2
<1> QED BY <1>1, <1>2, BoundsAssumption DEF Tables, NoRows, Below

LEMMA ChosenIs ==
    ASSUME NEW rows \in Tables, NEW most \in Tables, NEW c \in Candidates
    PROVE  /\ Chosen(rows, c) \in Tables
           /\ Below(rows, most) => /\ Below(rows, Chosen(most, c))
                                   /\ Below(Chosen(rows, c), Chosen(most, c))
BY BoundsAssumption DEF Tables, Chosen, Below

LEMMA WrittenIs ==
    ASSUME NEW table \in Tables, NEW rows \in Written(table)
    PROVE  rows \in Tables /\ Below(rows, table)
<1>1. CASE rows = table
  BY <1>1, TablesHave
<1>2. CASE \E before \in SUBSET (Candidates \ Unencodable) :
              rows = [c \in Candidates |-> IF c \in before THEN table[c] ELSE 0]
  BY <1>2, BoundsAssumption DEF Tables, Below
<1> QED BY <1>1, <1>2 DEF Written

\* The rows of a file, where there is one.
FileRows == IF file = Absent THEN NoRows ELSE file

LEMMA RowsAre ==
    ASSUME NEW old \in Tables, FileRows = old,
           NEW table \in Tables, NEW rows \in Rows(table), NEW most \in Tables,
           Below(old, most), Below(table, most)
    PROVE  /\ rows \in Tables /\ Below(rows, most)
           /\ old = NoRows => rows = table
<1>1. PICK kept \in SUBSET {c \in Candidates : old[c] > 0} :
             rows = [c \in Candidates |-> IF c \in kept THEN old[c] ELSE table[c]]
  BY DEF Rows, FileRows
<1>2. rows \in Tables /\ Below(rows, most)
  BY <1>1 DEF Tables, Below
<1>3. ASSUME old = NoRows PROVE rows = table
  <2>1. kept = {}
    BY <1>3 DEF NoRows
  <2>2. rows = [c \in Candidates |-> table[c]]
    BY <1>1, <2>1
  <2> QED BY <2>2 DEF Tables
<1> QED BY <1>2, <1>3

-----------------------------------------------------------------------------
\* Types, and that nothing is invented.

Sound ==
    /\ TypeOK
    /\ Below(FileRows, total)
    /\ legacy # Absent => Below(legacy, total)
    /\ \A s \in Services : Below(service[s].table, total)

LEMMA LimitsAre ==
    ASSUME NEW v \in ServiceType, NEW flag \in BOOLEAN
    PROVE  /\ ApplyRuntimeLimits(v, flag) \in ServiceType
           /\ ApplyRuntimeLimits(v, flag).active = v.active
           /\ ApplyRuntimeLimits(v, flag).saving = v.saving
           /\ ApplyRuntimeLimits(v, flag).learning = flag
           /\ ApplyRuntimeLimits(v, flag).table = IF flag THEN v.table ELSE NoRows
           /\ ApplyRuntimeLimits(v, flag).loaded <=> ~flag \/ (v.loaded /\ v.table # NoRows)
BY TablesHave DEF ServiceType, ApplyRuntimeLimits

LEMMA LoadedIs ==
    ASSUME NEW v \in ServiceType, NEW rows \in Tables
    PROVE  /\ Loaded(v, rows) \in ServiceType /\ Loaded(v, rows).table = rows
           /\ Loaded(v, rows).active = v.active /\ Loaded(v, rows).saving = v.saving
           /\ Loaded(v, rows).learning = v.learning
BY DEF ServiceType, Loaded

LEMMA TruncateIs ==
    ASSUME NEW v \in ServiceType
    PROVE  /\ Truncate(v) \in ServiceType /\ Truncate(v).table = v.table
           /\ Truncate(v).active = v.active /\ Truncate(v).saving
           /\ Truncate(v).learning = v.learning
BY DEF ServiceType, Truncate

LEMMA ActiveIs ==
    ASSUME NEW v \in ServiceType, NEW flag \in BOOLEAN
    PROVE  /\ [v EXCEPT !.active = flag] \in ServiceType
           /\ [v EXCEPT !.active = flag].table = v.table
BY DEF ServiceType

LEMMA SourceRowsAre ==
    ASSUME Sound
    PROVE  /\ SourceRows \in Tables /\ Below(SourceRows, total)
           /\ FileRows \in Tables /\ (file # Absent => file \in Tables)
BY TablesHave DEF Sound, TypeOK, SourceRows, FileRows

LEMMA FreshType == Fresh \in ServiceType /\ Fresh.table = NoRows
BY TablesHave DEF Fresh, ServiceType

\* What Activate makes of a service, of the file and of the history.
Activated(s, learning, a, reads, migrates) ==
    /\ service' = [service EXCEPT ![s] = a]
    /\ a.active /\ a.learning = learning /\ (a.saving <=> migrates) /\ ~service[s].saving
    /\ reads => learning /\ a.table = SourceRows
    /\ ~reads => a.table = IF learning THEN service[s].table ELSE NoRows
    /\ learning /\ ~reads => service[s].table # NoRows
    /\ migrates => reads /\ file = Absent
    /\ file' = IF migrates THEN NoRows ELSE file
    /\ Note("shared", reads /\ \E t \in Services : service[t].saving)
    /\ UNCHANGED <<legacy, total>>

LEMMA ActivateDoes ==
    ASSUME Sound, NEW s \in Services, NEW learning \in BOOLEAN, Activate(s, learning)
    PROVE  \E a \in ServiceType : \E reads, migrates \in BOOLEAN :
              Activated(s, learning, a, reads, migrates)
<1> DEFINE old == service[s]
           u == [old EXCEPT !.active = TRUE]
           v == ApplyRuntimeLimits(u, learning)
           reads == learning /\ ~v.loaded
           migrates == reads /\ file = Absent /\ legacy # Absent
           a == IF migrates THEN Truncate(Loaded(v, SourceRows))
                ELSE IF reads THEN Loaded(v, SourceRows)
                ELSE v
<1>1. /\ ~old.active /\ ~old.saving
      /\ service' = [service EXCEPT ![s] = a]
      /\ file' = IF migrates THEN NoRows ELSE file
      /\ Note("shared", reads /\ \E t \in Services : service[t].saving)
      /\ UNCHANGED <<legacy, total>>
  BY DEF Activate
<1>2. old \in ServiceType /\ SourceRows \in Tables
  BY SourceRowsAre DEF Sound, TypeOK
<1> HIDE DEF old
<1>3. /\ u \in ServiceType /\ u.table = old.table /\ u.saving = old.saving
      /\ u.learning = old.learning /\ u.loaded = old.loaded /\ u.active = TRUE
  BY <1>2 DEF ServiceType
<1> HIDE DEF u
<1>4. /\ v \in ServiceType /\ v.active /\ v.saving = old.saving /\ v.learning = learning
      /\ v.table = IF learning THEN old.table ELSE NoRows
      /\ v.loaded <=> ~learning \/ (old.loaded /\ old.table # NoRows)
  BY <1>2, <1>3, LimitsAre
<1> HIDE DEF v
<1> DEFINE w == Loaded(v, SourceRows)
<1>5. /\ w \in ServiceType /\ w.active /\ ~w.saving /\ w.learning = learning /\ w.table = SourceRows
  BY <1>1, <1>2, <1>4, LoadedIs
<1>6. /\ Truncate(w) \in ServiceType /\ Truncate(w).active /\ Truncate(w).saving
      /\ Truncate(w).learning = learning /\ Truncate(w).table = SourceRows
  BY <1>5, TruncateIs
<1> HIDE DEF w
<1>7. a = IF migrates THEN Truncate(w) ELSE IF reads THEN w ELSE v
  BY DEF w
<1>8. /\ reads \in BOOLEAN /\ migrates \in BOOLEAN /\ (migrates => reads /\ file = Absent)
      /\ reads => learning
      /\ learning /\ ~reads => old.table # NoRows
  BY <1>4
<1> HIDE DEF reads, migrates, a
<1>9. /\ a \in ServiceType /\ a.active /\ a.learning = learning /\ (a.saving <=> migrates)
      /\ reads => a.table = SourceRows
      /\ ~reads => a.table = IF learning THEN old.table ELSE NoRows
  BY <1>1, <1>4, <1>5, <1>6, <1>7, <1>8
<1>10. Activated(s, learning, a, reads, migrates)
  BY <1>1, <1>8, <1>9 DEF Activated, old
<1> QED BY <1>8, <1>9, <1>10

LEMMA InitSound == Init => Sound
<1> SUFFICES ASSUME Init PROVE Sound
  OBVIOUS
<1>1. legacy \in Tables \cup {Absent} /\ total \in Tables /\ file = Absent /\ FileRows = NoRows
  BY TablesHave DEF Init, FileRows
<1>2. service \in [Services -> ServiceType] /\ \A s \in Services : service[s].table = NoRows
  BY FreshType DEF Init
<1>3. Below(NoRows, total) /\ (legacy # Absent => Below(legacy, total))
  BY <1>1, TablesHave DEF Init
<1> QED BY <1>1, <1>2, <1>3 DEF Init, Sound, TypeOK

\* One service changes, and neither the old file nor the choices do.
LEMMA OneService ==
    ASSUME Sound, NEW s \in Services, NEW a \in ServiceType,
           service' = [service EXCEPT ![s] = a], Below(a.table, total),
           UNCHANGED <<legacy, total>>, mishaps' \subseteq {"shared", "crashed", "unreadable", "unwritten", "unencoded"},
           file' = file \/ (file' \in Tables /\ Below(file', total))
    PROVE  Sound'
<1>1. service' \in [Services -> ServiceType]
  BY DEF Sound, TypeOK
<1>2. \A t \in Services : service'[t] = IF t = s THEN a ELSE service[t]
  BY DEF Sound, TypeOK
<1>3. \A t \in Services : Below(service'[t].table, total)
  BY <1>2 DEF Sound
<1>4. file' \in Tables \cup {Absent} /\ Below(FileRows', total)
  BY TablesHave DEF Sound, TypeOK, FileRows
<1> QED BY <1>1, <1>3, <1>4 DEF Sound, TypeOK, Below

LEMMA NextSound == Sound /\ [Next]_vars => Sound'
<1> SUFFICES ASSUME Sound, [Next]_vars PROVE Sound'
  OBVIOUS
<1>0. /\ TypeOK /\ NoRows \in Tables /\ total \in Tables /\ Below(NoRows, total)
      /\ \A s \in Services : service[s] \in ServiceType /\ Below(service[s].table, total)
                             /\ service[s].table \in Tables
      /\ SourceRows \in Tables /\ Below(SourceRows, total) /\ FileRows \in Tables
  BY TablesHave, SourceRowsAre DEF Sound, TypeOK, ServiceType
<1>1. ASSUME NEW s \in Services, NEW learning \in BOOLEAN, Activate(s, learning) PROVE Sound'
  <2>1. PICK a \in ServiceType : \E reads, migrates \in BOOLEAN :
               Activated(s, learning, a, reads, migrates)
    BY <1>1, ActivateDoes
  <2>2. PICK reads \in BOOLEAN, migrates \in BOOLEAN : Activated(s, learning, a, reads, migrates)
    BY <2>1
  <2>3. Below(a.table, total)
    BY <1>0, <2>2 DEF Activated
  <2>4. file' = file \/ (file' \in Tables /\ Below(file', total))
    BY <1>0, <2>2 DEF Activated
  <2> QED BY <1>0, <2>2, <2>3, <2>4, OneService DEF Activated, Note, TypeOK
<1>2. ASSUME NEW s \in Services, ActivateUnreadable(s) PROVE Sound'
  <2> DEFINE u == [service[s] EXCEPT !.active = TRUE]
             a == Loaded(ApplyRuntimeLimits(u, TRUE), NoRows)
  <2>1. u \in ServiceType
    BY <1>0, ActiveIs
  <2> HIDE DEF u
  <2>2. ApplyRuntimeLimits(u, TRUE) \in ServiceType
    BY <2>1, LimitsAre
  <2>3. a \in ServiceType /\ a.table = NoRows
    BY <1>0, <2>2, LoadedIs
  <2>4. service' = [service EXCEPT ![s] = a]
    BY <1>2 DEF ActivateUnreadable, u
  <2> HIDE DEF a
  <2> QED BY <1>0, <1>2, <2>3, <2>4, OneService DEF ActivateUnreadable, Note, TypeOK
<1>3. ASSUME NEW s \in Services, Deactivate(s) PROVE Sound'
  <2> DEFINE a == [service[s] EXCEPT !.active = FALSE]
  <2>1. a \in ServiceType /\ a.table = service[s].table
    BY <1>0, ActiveIs
  <2>2. service' = [service EXCEPT ![s] = a]
    BY <1>3 DEF Deactivate
  <2> HIDE DEF a
  <2> QED BY <1>0, <1>3, <2>1, <2>2, OneService DEF Deactivate, TypeOK
<1>4. ASSUME NEW s \in Services, NEW c \in Candidates, NEW opened \in BOOLEAN,
             LearnCandidateSelection(s, c, opened)
      PROVE  Sound'
  <2> DEFINE table == Chosen(service[s].table, c)
             v == [service[s] EXCEPT !.table = table]
             a == IF opened THEN Truncate(v) ELSE v
  <2>1. table \in Tables /\ total' \in Tables
        /\ \A rows \in Tables : Below(rows, total) => Below(rows, total')
        /\ Below(table, total')
    <3>1. total' = Chosen(total, c)
      BY <1>4 DEF LearnCandidateSelection, Chosen
    <3> QED BY <1>0, <3>1, ChosenIs
  <2>2. service' = [service EXCEPT ![s] = a]
    BY <1>0, <1>4 DEF LearnCandidateSelection, Chosen, ServiceType
  <2> HIDE DEF table
  <2>3. v \in ServiceType /\ v.table = table
    BY <1>0, <2>1 DEF ServiceType
  <2> HIDE DEF v
  <2>4. a \in ServiceType /\ a.table = table
    BY <2>3, TruncateIs
  <2> HIDE DEF a
  <2>5. /\ service' \in [Services -> ServiceType]
        /\ \A t \in Services : service'[t] = IF t = s THEN a ELSE service[t]
    BY <1>0, <2>2, <2>4 DEF TypeOK
  <2>6. \A t \in Services : Below(service'[t].table, total')
    BY <1>0, <2>1, <2>4, <2>5
  <2>7. file' \in Tables \cup {Absent} /\ Below(FileRows', total')
    BY <1>0, <1>4, <2>1, TablesHave DEF LearnCandidateSelection, TypeOK, FileRows, Sound
  <2>8. legacy' = legacy /\ (legacy # Absent => Below(legacy, total'))
    BY <1>4, <2>1 DEF LearnCandidateSelection, Sound, TypeOK
  <2>9. mishaps' \subseteq {"shared", "crashed", "unreadable", "unwritten", "unencoded"}
    BY <1>0, <1>4 DEF LearnCandidateSelection, TypeOK
  <2> QED BY <1>0, <2>1, <2>5, <2>6, <2>7, <2>8, <2>9 DEF Sound, TypeOK
<1>5. ASSUME NEW s \in Services, CloseFile(s) PROVE Sound'
  <2>1. PICK rows \in Written(service[s].table) :
               file' \in Rows(rows) /\ Note("unencoded", rows # service[s].table)
    BY <1>5 DEF CloseFile
  <2>2. rows \in Tables /\ Below(rows, service[s].table)
    BY <1>0, <2>1, WrittenIs
  <2>3. Below(rows, total)
    BY <1>0, <2>2, BoundsAssumption DEF Below, Tables
  <2>4. file' \in Tables /\ Below(file', total)
    BY <1>0, <2>1, <2>2, <2>3, RowsAre DEF Sound
  <2> DEFINE a == [service[s] EXCEPT !.saving = FALSE]
  <2>5. a \in ServiceType /\ a.table = service[s].table
    BY <1>0 DEF ServiceType
  <2>6. service' = [service EXCEPT ![s] = a] /\ UNCHANGED <<legacy, total>>
    BY <1>5 DEF CloseFile
  <2> HIDE DEF a
  <2> QED BY <1>0, <2>1, <2>4, <2>5, <2>6, OneService DEF Note, TypeOK
<1>6. ASSUME NEW s \in Services, ProcessEnds(s) PROVE Sound'
  BY <1>0, <1>6, FreshType, OneService DEF ProcessEnds, Note, TypeOK
<1>7. CASE UNCHANGED vars
  BY <1>7 DEF vars, Sound, TypeOK, Below, FileRows
<1> QED BY <1>1, <1>2, <1>3, <1>4, <1>5, <1>6, <1>7 DEF Next

\* The files, the tables of the services and the counts have their types.
THEOREM TypeCorrect == Spec => []TypeOK
<1>1. Sound => TypeOK
  BY DEF Sound
<1> QED BY <1>1, InitSound, NextSound, PTL DEF Spec

\* No interleaving of services, no crash, failure or move from the old file
\* makes a file or a service believe in more choices than the user made
\* (LearnCandidateSelection, LoadCandidateUsageTable, SaveCandidateUsageTable).
THEOREM NoChoiceIsInvented == Spec => []NothingInvented
<1>1. Sound => NothingInvented
  BY DEF Sound, NothingInvented, Below, FileRows
<1> QED BY <1>1, InitSound, NextSound, PTL DEF Spec

-----------------------------------------------------------------------------
\* What is learned is kept: a table that is used, and the file while nobody
\* writes it, hold every choice.

Owns(s) == service[s].learning /\ (service[s].active \/ service[s].table # NoRows)

Kept ==
    /\ Sound
    /\ \A s \in Services :
          /\ ~service[s].learning => service[s].table = NoRows
          /\ service[s].saving => service[s].active /\ service[s].learning
    /\ mishaps = {} =>
          /\ \A s \in Services : Owns(s) => service[s].table = total
          /\ \A s \in Services : service[s].saving =>
                file = NoRows /\ \A t \in Services \ {s} : ~service[t].saving
          /\ (\A s \in Services : ~service[s].saving) => SourceRows = total

LEMMA ServicesAre ==
    ASSUME Sound, NEW s \in Services, NEW a, service' = [service EXCEPT ![s] = a]
    PROVE  service'[s] = a /\ \A t \in Services : t # s => service'[t] = service[t]
BY DEF Sound, TypeOK

LEMMA InitKept == Init => Kept
<1> SUFFICES ASSUME Init PROVE Kept
  OBVIOUS
<1>1. \A s \in Services : service[s].table = NoRows /\ ~service[s].saving /\ ~service[s].learning
  BY DEF Init, Fresh
<1>2. SourceRows = total
  BY DEF Init, SourceRows
<1> QED BY <1>1, <1>2, InitSound DEF Kept, Owns

LEMMA ActivateKept ==
    ASSUME Kept, Sound', NEW s \in Services, NEW learning \in BOOLEAN, Activate(s, learning)
    PROVE  Kept'
<1>1. PICK a \in ServiceType : \E reads, migrates \in BOOLEAN :
             Activated(s, learning, a, reads, migrates)
  BY ActivateDoes DEF Kept
<1>2. PICK reads \in BOOLEAN, migrates \in BOOLEAN : Activated(s, learning, a, reads, migrates)
  BY <1>1
<1>3. service'[s] = a /\ \A t \in Services : t # s => service'[t] = service[t]
  BY <1>2, ServicesAre DEF Activated, Kept
<1>4. /\ a.active /\ a.learning = learning /\ (a.saving <=> migrates)
      /\ reads => learning /\ a.table = SourceRows
      /\ ~reads => a.table = IF learning THEN service[s].table ELSE NoRows
      /\ learning /\ ~reads => service[s].table # NoRows
      /\ migrates => reads /\ file = Absent
      /\ file' = IF migrates THEN NoRows ELSE file
      /\ UNCHANGED <<legacy, total>>
      /\ ~service[s].saving
  BY <1>2 DEF Activated
<1>5. /\ ~service'[s].learning => service'[s].table = NoRows
      /\ service'[s].saving => service'[s].active /\ service'[s].learning
  BY <1>3, <1>4
<1>6. ASSUME mishaps' = {}
      PROVE  /\ Owns(s)' => service'[s].table = total'
             /\ \A t \in Services : service'[t].saving =>
                   file' = NoRows /\ \A r \in Services \ {t} : ~service'[r].saving
             /\ (\A t \in Services : ~service'[t].saving) => SourceRows' = total'
  <2>1. mishaps = {} /\ (reads => \A t \in Services : ~service[t].saving)
    BY <1>2, <1>6 DEF Activated, Note
  <2>2. reads => SourceRows = total
    BY <2>1 DEF Kept
  <2>3. ~reads /\ learning => service[s].table = total
    BY <1>4, <2>1 DEF Kept, Owns
  <2>4. service'[s].table = total' \/ ~service'[s].learning
    BY <1>3, <1>4, <2>2, <2>3
  <2>5. CASE migrates
    <3>1. file' = NoRows /\ service'[s].saving
      BY <1>3, <1>4, <2>5
    <3>2. \A t \in Services : t # s => ~service'[t].saving
      BY <1>3, <1>4, <2>1, <2>5
    <3> QED BY <2>4, <3>1, <3>2 DEF Owns
  <2>6. CASE ~migrates
    <3>1. file' = file /\ SourceRows' = SourceRows
      BY <1>4, <2>6 DEF SourceRows
    <3>2. \A t \in Services : service'[t].saving <=> service[t].saving
      BY <1>3, <1>4, <2>6
    <3> QED BY <1>4, <2>1, <2>4, <3>1, <3>2 DEF Owns, Kept
  <2> QED BY <2>5, <2>6
<1>7. \A t \in Services : mishaps' = {} => (Owns(t)' => service'[t].table = total')
  <2>1. mishaps' = {} => mishaps = {}
    BY <1>2 DEF Activated, Note
  <2> QED BY <1>3, <1>4, <1>6, <2>1 DEF Kept, Owns
<1> QED BY <1>3, <1>5, <1>6, <1>7 DEF Kept

LEMMA UnreadableKept ==
    ASSUME Kept, Sound', NEW s \in Services, ActivateUnreadable(s)
    PROVE  Kept'
<1> DEFINE u == [service[s] EXCEPT !.active = TRUE]
           v == ApplyRuntimeLimits(u, TRUE)
           a == Loaded(v, NoRows)
<1>1. service[s] \in ServiceType /\ NoRows \in Tables /\ ~service[s].saving
  BY TablesHave DEF Kept, Sound, TypeOK, ActivateUnreadable
<1>2. u \in ServiceType /\ ~u.saving
  BY <1>1 DEF ServiceType
<1>3. service' = [service EXCEPT ![s] = a] /\ mishaps' # {}
  BY DEF ActivateUnreadable, Note
<1> HIDE DEF u
<1>4. v \in ServiceType /\ v.learning /\ ~v.saving
  BY <1>2, LimitsAre
<1> HIDE DEF v
<1>5. a.learning /\ ~a.saving
  BY <1>1, <1>4, LoadedIs
<1> HIDE DEF a
<1>6. service'[s] = a /\ \A t \in Services : t # s => service'[t] = service[t]
  BY <1>3, ServicesAre DEF Kept
<1> QED BY <1>3, <1>5, <1>6 DEF Kept

LEMMA DeactivateKept ==
    ASSUME Kept, Sound', NEW s \in Services, Deactivate(s)
    PROVE  Kept'
<1> DEFINE a == [service[s] EXCEPT !.active = FALSE]
<1>1. service[s] \in ServiceType /\ ~service[s].saving
  BY DEF Kept, Sound, TypeOK, Deactivate
<1>2. a.learning = service[s].learning /\ a.table = service[s].table /\ ~a.saving /\ ~a.active
  BY <1>1 DEF ServiceType
<1>3. service' = [service EXCEPT ![s] = a] /\ UNCHANGED <<file, legacy, total, mishaps>>
  BY DEF Deactivate
<1> HIDE DEF a
<1>4. service'[s] = a /\ \A t \in Services : t # s => service'[t] = service[t]
  BY <1>3, ServicesAre DEF Kept
<1>5. \A t \in Services : /\ service'[t].learning = service[t].learning
                          /\ service'[t].table = service[t].table
                          /\ service'[t].saving <=> service[t].saving
                          /\ service'[t].active => service[t].active
  BY <1>1, <1>2, <1>4
<1>6. \A t \in Services : Owns(t)' => Owns(t)
  BY <1>5 DEF Owns
<1>7. \A t \in Services : service'[t].saving => service'[t].active
  BY <1>1, <1>2, <1>4 DEF Kept
<1>8. SourceRows' = SourceRows
  BY <1>3 DEF SourceRows
<1> QED BY <1>3, <1>5, <1>6, <1>7, <1>8 DEF Kept

LEMMA LearnKept ==
    ASSUME Kept, Sound', NEW s \in Services, NEW c \in Candidates, NEW opened \in BOOLEAN,
           LearnCandidateSelection(s, c, opened)
    PROVE  Kept'
<1> DEFINE table == Chosen(service[s].table, c)
           v == [service[s] EXCEPT !.table = table]
           a == IF opened THEN Truncate(v) ELSE v
<1>1. /\ service[s] \in ServiceType /\ service[s].table \in Tables /\ total \in Tables
      /\ service[s].active /\ service[s].learning /\ ~service[s].saving
  BY DEF Kept, Sound, TypeOK, LearnCandidateSelection, ServiceType
<1>2. table \in Tables /\ total' = Chosen(total, c)
  BY <1>1, ChosenIs DEF LearnCandidateSelection, Chosen
<1>3. service' = [service EXCEPT ![s] = a]
  BY <1>1 DEF LearnCandidateSelection, Chosen, ServiceType
<1> HIDE DEF table
<1>4. /\ v \in ServiceType /\ v.table = table /\ v.active /\ v.learning /\ ~v.saving
  BY <1>1, <1>2 DEF ServiceType
<1> HIDE DEF v
<1>5. a.table = table /\ a.active /\ a.learning /\ (a.saving <=> opened)
  BY <1>4, TruncateIs
<1> HIDE DEF a
<1>6. service'[s] = a /\ \A t \in Services : t # s => service'[t] = service[t]
  BY <1>3, ServicesAre DEF Kept
<1>7. ASSUME mishaps' = {}
      PROVE  /\ \A t \in Services : Owns(t)' => service'[t].table = total'
             /\ \A t \in Services : service'[t].saving =>
                   file' = NoRows /\ \A r \in Services \ {t} : ~service'[r].saving
             /\ \E t \in Services : service'[t].saving
  <2>1. mishaps = {} /\ opened /\ ~Sharing(s) /\ file' = NoRows
    BY <1>7 DEF LearnCandidateSelection
  <2>2. \A t \in Services \ {s} : ~Owns(t)
    BY <2>1 DEF Sharing, Owns
  <2>3. \A t \in Services \ {s} : ~service[t].saving
    BY <2>2 DEF Kept, Owns
  <2>4. service[s].table = total
    BY <1>1, <2>1 DEF Kept, Owns
  <2>5. service'[s].table = total'
    BY <1>2, <1>5, <1>6, <2>4 DEF table
  <2>6. \A t \in Services \ {s} : ~Owns(t)' /\ ~service'[t].saving
    BY <1>6, <2>2, <2>3 DEF Owns
  <2>7. service'[s].saving
    BY <1>5, <1>6, <2>1
  <2> QED BY <2>1, <2>5, <2>6, <2>7
<1>8. \A t \in Services :
          /\ ~service'[t].learning => service'[t].table = NoRows
          /\ service'[t].saving => service'[t].active /\ service'[t].learning
  BY <1>5, <1>6 DEF Kept
<1> QED BY <1>7, <1>8 DEF Kept

LEMMA CloseKept ==
    ASSUME Kept, Sound', NEW s \in Services, CloseFile(s)
    PROVE  Kept'
<1> DEFINE a == [service[s] EXCEPT !.saving = FALSE]
<1>1. /\ service[s] \in ServiceType /\ service[s].table \in Tables /\ total \in Tables
      /\ service[s].saving /\ service[s].active /\ service[s].learning
      /\ UNCHANGED <<legacy, total>>
  BY DEF Kept, Sound, TypeOK, CloseFile, ServiceType
<1>2. /\ a.table = service[s].table /\ a.active = service[s].active
      /\ a.learning = service[s].learning /\ ~a.saving
  BY <1>1 DEF ServiceType
<1>3. service' = [service EXCEPT ![s] = a]
  BY DEF CloseFile
<1> HIDE DEF a
<1>4. service'[s] = a /\ \A t \in Services : t # s => service'[t] = service[t]
  BY <1>3, ServicesAre DEF Kept
<1>5. \A t \in Services : Owns(t)' <=> Owns(t)
  BY <1>1, <1>2, <1>4 DEF Owns
<1>6. PICK rows \in Written(service[s].table) :
             file' \in Rows(rows) /\ Note("unencoded", rows # service[s].table)
  BY DEF CloseFile
<1>7. ASSUME mishaps' = {}
      PROVE  /\ \A t \in Services : Owns(t)' => service'[t].table = total'
             /\ \A t \in Services : ~service'[t].saving
             /\ SourceRows' = total'
  <2>1. mishaps = {} /\ rows = service[s].table
    BY <1>6, <1>7 DEF Note
  <2>2. \A t \in Services : Owns(t) => service[t].table = total
    BY <2>1 DEF Kept
  <2>3. service[s].table = total
    BY <1>1, <2>2 DEF Owns
  <2>4. file = NoRows /\ \A t \in Services \ {s} : ~service[t].saving
    BY <1>1, <2>1 DEF Kept
  <2>5. FileRows = NoRows /\ NoRows \in Tables
    BY <2>4, TablesHave DEF FileRows
  <2>6. Below(NoRows, total) /\ Below(total, total)
    BY <1>1, TablesHave
  <2>7. file' = total
    BY <1>1, <1>6, <2>1, <2>3, <2>5, <2>6, RowsAre
  <2>8. SourceRows' = total
    BY <1>1, <2>7, TablesHave DEF SourceRows
  <2> QED BY <1>1, <1>2, <1>4, <1>5, <2>2, <2>4, <2>8
<1>8. \A t \in Services :
          /\ ~service'[t].learning => service'[t].table = NoRows
          /\ service'[t].saving => service'[t].active /\ service'[t].learning
  BY <1>1, <1>2, <1>4 DEF Kept
<1> QED BY <1>7, <1>8 DEF Kept

LEMMA EndKept ==
    ASSUME Kept, Sound', NEW s \in Services, ProcessEnds(s)
    PROVE  Kept'
<1>1. service' = [service EXCEPT ![s] = Fresh] /\ UNCHANGED <<file, legacy, total>>
  BY DEF ProcessEnds
<1>2. service'[s] = Fresh /\ \A t \in Services : t # s => service'[t] = service[t]
  BY <1>1, ServicesAre DEF Kept
<1>3. ~Fresh.learning /\ ~Fresh.saving /\ ~Fresh.active /\ Fresh.table = NoRows
  BY DEF Fresh
<1>4. mishaps' = {} => mishaps = {} /\ ~service[s].saving
  BY DEF ProcessEnds, Note
<1>5. \A t \in Services : (Owns(t)' => Owns(t) /\ t # s) /\ (service'[t].saving => service[t].saving)
  BY <1>2, <1>3 DEF Owns
<1>6. mishaps' = {} => \A t \in Services : service'[t].saving <=> service[t].saving
  BY <1>2, <1>3, <1>4
<1>7. \A t \in Services :
          /\ ~service'[t].learning => service'[t].table = NoRows
          /\ service'[t].saving => service'[t].active /\ service'[t].learning
  BY <1>2, <1>3 DEF Kept
<1>8. SourceRows' = SourceRows
  BY <1>1 DEF SourceRows
<1> QED BY <1>1, <1>2, <1>4, <1>5, <1>6, <1>7, <1>8 DEF Kept

LEMMA NextKept == Kept /\ [Next]_vars => Kept'
<1> SUFFICES ASSUME Kept, [Next]_vars PROVE Kept'
  OBVIOUS
<1>1. Sound'
  BY NextSound DEF Kept
<1>2. CASE UNCHANGED vars
  BY <1>1, <1>2 DEF vars, Kept, Owns, SourceRows
<1> QED BY <1>1, <1>2, ActivateKept, UnreadableKept, DeactivateKept, LearnKept, CloseKept,
           EndKept DEF Next

\* What was learned is kept across activations, restarts, the learning switched
\* off and on and the move from the old file, as long as no other service learns
\* meanwhile and nothing fails (SaveCandidateUsageTable, LoadCandidateUsageTable,
\* ApplyRuntimeLimitsFromConfig).
THEOREM ChoicesAreKept == Spec => []LearnedIsKept
<1>1. Kept => LearnedIsKept
  BY DEF Kept, LearnedIsKept
<1> QED BY <1>1, InitKept, NextKept, PTL DEF Spec

-----------------------------------------------------------------------------
\* The order in which the candidates are shown: the rank of a candidate, the
\* number of those that precede it, is its place, because the order is total and
\* every rank below the number of candidates is taken.

Place(c) == CHOOSE i \in DOMAIN Listed : Listed[i] = c
Ahead(table, c) == {d \in Candidates : Precedes(table, d, c)}
Rank(table, c) == Cardinality(Ahead(table, c))

LEMMA PlacesAre ==
    /\ Len(Listed) \in Nat /\ DOMAIN Listed = 1 .. Len(Listed)
    /\ \A c \in Candidates : Place(c) \in 1 .. Len(Listed) /\ Listed[Place(c)] = c
    /\ \A i \in 1 .. Len(Listed) : Listed[i] \in Candidates /\ Place(Listed[i]) = i
    /\ IsFiniteSet(Candidates) /\ Cardinality(Candidates) = Len(Listed)
<1> DEFINE n == Len(Listed)
<1>1. n \in Nat /\ DOMAIN Listed = 1 .. n /\ Listed \in [1 .. n -> Candidates]
  BY CandidatesAssumption
<1>2. \A c \in Candidates : \E i \in 1 .. n : Listed[i] = c
  BY <1>1 DEF Candidates, ToSet
<1>3. \A c \in Candidates : Place(c) \in 1 .. n /\ Listed[Place(c)] = c
  BY <1>1, <1>2 DEF Place
<1>4. \A i, j \in 1 .. n : Listed[i] = Listed[j] => i = j
  BY <1>1, CandidatesAssumption DEF IsInjective
<1>5. \A i \in 1 .. n : Listed[i] \in Candidates /\ Place(Listed[i]) = i
  BY <1>1, <1>3, <1>4
<1>6. Listed \in Bijection(1 .. n, Candidates)
  BY <1>1, <1>2, CandidatesAssumption DEF Bijection, Injection, Surjection
<1>7. IsFiniteSet(1 .. n) /\ Cardinality(1 .. n) = n
  BY <1>1, FS_Interval
<1>8. IsFiniteSet(Candidates) /\ Cardinality(Candidates) = n
  BY <1>6, <1>7, FS_Bijection DEF ExistsBijection
<1> QED BY <1>1, <1>3, <1>5, <1>8

\* Precedes is a strict and total order.
LEMMA PrecedesOrders ==
    ASSUME NEW table \in Tables
    PROVE  /\ \A c, d \in Candidates : Precedes(table, c, d) <=>
                 table[c] > table[d] \/ (table[c] = table[d] /\ Place(c) < Place(d))
           /\ \A c \in Candidates : ~Precedes(table, c, c)
           /\ \A c, d \in Candidates : c # d => Precedes(table, c, d) \/ Precedes(table, d, c)
           /\ \A c, d, e \in Candidates :
                 Precedes(table, c, d) /\ Precedes(table, d, e) => Precedes(table, c, e)
<1>1. \A c, d \in Candidates : Precedes(table, c, d) <=>
           table[c] > table[d] \/ (table[c] = table[d] /\ Place(c) < Place(d))
  BY DEF Precedes, Place
<1>2. \A c \in Candidates : Place(c) \in Int /\ table[c] \in Int
  BY PlacesAre, BoundsAssumption DEF Tables
<1>3. \A c, d \in Candidates : Place(c) = Place(d) => c = d
  BY PlacesAre
<1> QED BY <1>1, <1>2, <1>3

LEMMA RanksAre ==
    ASSUME NEW table \in Tables
    PROVE  /\ \A c \in Candidates : Rank(table, c) \in 0 .. Len(Listed) - 1
           /\ \A c, d \in Candidates : Precedes(table, c, d) => Rank(table, c) < Rank(table, d)
           /\ \A k \in 0 .. Len(Listed) - 1 : \E c \in Candidates : Rank(table, c) = k
<1> DEFINE n == Len(Listed)
<1>1. \A c \in Candidates : IsFiniteSet(Ahead(table, c)) /\ Rank(table, c) \in Nat
  BY PlacesAre, FS_Subset, FS_CardinalityType DEF Ahead, Rank
<1>2. ASSUME NEW c \in Candidates PROVE Rank(table, c) \in 0 .. n - 1
  <2>1. Ahead(table, c) \subseteq Candidates \ {c}
    BY PrecedesOrders DEF Ahead
  <2>2. IsFiniteSet(Candidates \ {c}) /\ Cardinality(Candidates \ {c}) = n - 1
    BY PlacesAre, FS_RemoveElement
  <2>3. Rank(table, c) <= n - 1
    BY <2>1, <2>2, FS_Subset DEF Rank
  <2> QED BY <1>1, <2>3, PlacesAre
<1>3. ASSUME NEW c \in Candidates, NEW d \in Candidates, Precedes(table, c, d)
      PROVE  Rank(table, c) < Rank(table, d)
  <2>1. Ahead(table, c) \subseteq Ahead(table, d) \ {c} /\ c \in Ahead(table, d)
    BY <1>3, PrecedesOrders DEF Ahead
  <2>2. /\ IsFiniteSet(Ahead(table, d) \ {c})
        /\ Cardinality(Ahead(table, d) \ {c}) = Rank(table, d) - 1
    BY <1>1, <2>1, FS_RemoveElement DEF Rank
  <2>3. Rank(table, c) <= Rank(table, d) - 1
    BY <2>1, <2>2, FS_Subset DEF Rank
  <2> QED BY <1>1, <2>3
<1> DEFINE rank == [c \in Candidates |-> Rank(table, c)]
<1>4. rank \in Injection(Candidates, 0 .. n - 1)
  <2>1. rank \in [Candidates -> 0 .. n - 1]
    BY <1>2
  <2>2. \A c, d \in Candidates : rank[c] = rank[d] => c = d
    BY <1>1, <1>3, PrecedesOrders
  <2> QED BY <2>1, <2>2 DEF Injection, IsInjective
<1>5. IsFiniteSet(0 .. n - 1) /\ Cardinality(0 .. n - 1) = n
  <2>1. n \in Nat
    BY PlacesAre
  <2> HIDE DEF n
  <2> QED BY <2>1, FS_Interval
<1>6. rank \in Surjection(Candidates, 0 .. n - 1)
  BY <1>4, <1>5, PlacesAre, FS_Injection
<1>7. \A k \in 0 .. n - 1 : \E c \in Candidates : rank[c] = k
  BY <1>6 DEF Surjection
<1> QED BY <1>2, <1>3, <1>7

\* Each candidate is shown once, at its rank.
LEMMA OrderedPlaces ==
    ASSUME NEW table \in Tables, NEW c \in Candidates
    PROVE  /\ Rank(table, c) + 1 \in DOMAIN Ordered(table)
           /\ Ordered(table)[Rank(table, c) + 1] = c
<1>1. Rank(table, c) \in 0 .. Len(Listed) - 1
  BY RanksAre
<1>2. \A d \in Candidates : Rank(table, d) = Rank(table, c) => d = c
  <2>1. \A d \in Candidates : Rank(table, d) \in Int
    BY RanksAre, PlacesAre
  <2> QED BY <2>1, RanksAre, PrecedesOrders
<1>3. Rank(table, c) + 1 \in DOMAIN Listed /\ (Rank(table, c) + 1) - 1 = Rank(table, c)
  BY <1>1, PlacesAre
<1>4. Ordered(table) = [k \in DOMAIN Listed |-> CHOOSE d \in Candidates : Rank(table, d) = k - 1]
  BY DEF Ordered, Rank, Ahead
<1>5. Ordered(table)[Rank(table, c) + 1] =
          CHOOSE d \in Candidates : Rank(table, d) = Rank(table, c)
  BY <1>3, <1>4
<1> QED BY <1>2, <1>3, <1>4, <1>5

\* A candidate that was chosen more often than another is listed before it, and
\* where the user has no preference the order of the provider stands, in every
\* service that learns (ApplyLearnedCandidateOrdering).
THEOREM ChosenIsFirst == Spec => []ChosenComesFirst
<1>1. Kept => ChosenComesFirst
  <2> SUFFICES ASSUME Kept, mishaps = {}, NEW s \in Services,
                      service[s].active, service[s].learning,
                      NEW i \in DOMAIN Listed, NEW j \in DOMAIN Listed,
                      \/ total[Listed[i]] > total[Listed[j]]
                      \/ total[Listed[i]] = total[Listed[j]] /\ i < j
               PROVE  \E m, n \in DOMAIN Ordered(service[s].table) :
                          /\ m < n
                          /\ Ordered(service[s].table)[m] = Listed[i]
                          /\ Ordered(service[s].table)[n] = Listed[j]
    BY DEF ChosenComesFirst
  <2>1. service[s].table = total /\ total \in Tables
    BY DEF Kept, Owns, Sound, TypeOK
  <2>2. Listed[i] \in Candidates /\ Listed[j] \in Candidates
        /\ Place(Listed[i]) = i /\ Place(Listed[j]) = j
    BY PlacesAre
  <2>3. Precedes(total, Listed[i], Listed[j])
    BY <2>1, <2>2, PrecedesOrders
  <2>4. Rank(total, Listed[i]) < Rank(total, Listed[j])
    BY <2>1, <2>2, <2>3, RanksAre
  <2>5. Rank(total, Listed[i]) \in Int /\ Rank(total, Listed[j]) \in Int
    BY <2>1, <2>2, RanksAre, PlacesAre
  <2>6. Rank(total, Listed[i]) + 1 < Rank(total, Listed[j]) + 1
    BY <2>4, <2>5
  <2> QED BY <2>1, <2>2, <2>6, OrderedPlaces
<1> QED BY <1>1, InitKept, NextKept, PTL DEF Spec

=============================================================================
